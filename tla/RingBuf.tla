------------------------------ MODULE RingBuf ------------------------------
(***************************************************************************)
(* components/utils/src/ringbuf.c: a byte ring buffer shared by one reader  *)
(* task, one writer task and controller tasks that abort, reset, finish or  *)
(* wake it.  Each function is a sequence of steps that other tasks may      *)
(* interleave with: a step ends where the code takes or gives a semaphore,  *)
(* and rb_read / rb_write read fill_cnt, copy, and write fill_cnt back in    *)
(* three steps, so that the mutex is what makes an update atomic.           *)
(* Bytes are the numbers of their place in the stream since the last reset. *)
(***************************************************************************)
EXTENDS Integers, Sequences

CONSTANTS Size,          \* rb->size
          MaxReq,        \* bound: longest request of one rb_read or rb_write
          MaxBytes,      \* bound: bytes put between two resets
          Controllers,   \* tasks that call the control functions
          Ops,           \* the control functions they call
          Waits,         \* how callers wait: TRUE for portMAX_DELAY, FALSE for a timeout
          OwnerChecked   \* the kernel stops the chip when a task gives a mutex
                         \* another task holds (else the mutex becomes free)

RB_ABORT           == -1  \* also RB_FAIL
RB_WRITER_FINISHED == -2
RB_READER_UNBLOCK  == -3

Reader == "reader"
Writer == "writer"
Free   == "free"
Tasks  == {Reader, Writer} \cup Controllers

AllOps == {"abort", "abort_read", "abort_write", "reset", "reset_abort_write",
           "finish", "wakeup"}

\* size < 2 makes rb_init fail.
ASSUME SizeAssumption == Size \in Nat /\ Size >= 2
ASSUME BoundAssumption == MaxReq \in Nat /\ MaxBytes \in Nat
ASSUME ControllersAssumption == /\ Controllers \cap {Reader, Writer, Free} = {}
                                /\ Ops \subseteq AllOps
ASSUME ModesAssumption == OwnerChecked \in BOOLEAN /\ Waits \subseteq BOOLEAN

VARIABLES
  fill_cnt, readptr, writeptr, mem,    \* the buffer; pointers are offsets from base
  can_read, can_write,                 \* binary semaphores: is the token there
  lock,                                \* the mutex: its holder, or Free
  abort_read, abort_write, writer_finished, reader_unblock,
  rd,      \* the reader task: pc and the locals of rb_read
  wr,      \* the writer task: pc and the locals of rb_write
  ctl,     \* the controllers: pc and the function being run
  halted,  \* the kernel's assertion on the mutex holder failed
  put,     \* history: bytes copied in since the last reset
  got      \* history: bytes copied out since the last reset

bufVars  == <<fill_cnt, readptr, writeptr, mem, put, got>>
semVars  == <<can_read, can_write>>
lockVars == <<lock, halted>>
flagVars == <<abort_read, abort_write, writer_finished, reader_unblock>>
vars     == <<bufVars, semVars, lockVars, flagVars, rd, wr, ctl>>

Min(a, b) == IF a < b THEN a ELSE b

---------------------------------------------------------------------------
(* Pointers run over 0..Size: the code wraps only past base + size.         *)

Advance(p, n) == IF p + n > Size THEN p + n - Size ELSE p + n
Slot(p, i)    == IF p + i >= Size THEN p + i - Size ELSE p + i
Ahead(p, s)   == IF s >= p THEN s - p ELSE s - p + Size

(* The FreeRTOS semaphores, as ringbuf.c uses them.                         *)

TakeLock(t) == lock = Free /\ lock' = t /\ UNCHANGED halted

\* Giving a mutex that nobody holds fails and changes nothing.
GiveLock(t) == IF lock \notin {t, Free} /\ OwnerChecked
                 THEN halted' = TRUE /\ UNCHANGED lock
                 ELSE lock' = Free /\ UNCHANGED halted

\* A task outside rb_read / rb_write: the locals are gone, the result stays.
Returned(result, moved) ==
  [pc |-> "idle", len |-> 0, size |-> 0, total |-> result, moved |-> moved, forever |-> TRUE]

Called(len, forever) ==
  [pc |-> "lock", len |-> len, size |-> 0, total |-> 0, moved |-> 0, forever |-> forever]

NotCalled == [pc |-> "idle", op |-> "none"]

Init ==
  /\ fill_cnt = 0 /\ readptr = 0 /\ writeptr = 0
  /\ mem = [s \in 0..Size-1 |-> 0]
  /\ can_read = TRUE /\ can_write = TRUE  \* vSemaphoreCreateBinary gives them
  /\ lock = Free /\ halted = FALSE
  /\ abort_read = FALSE /\ abort_write = FALSE
  /\ writer_finished = FALSE /\ reader_unblock = FALSE
  /\ rd = Returned(0, 0)
  /\ wr = Returned(0, 0)
  /\ ctl = [c \in Controllers |-> NotCalled]
  /\ put = 0 /\ got = <<>>

---------------------------------------------------------------------------
(* rb_read.  No caller asks for 0 bytes, so "while (buf_len)" is entered.    *)
(* rd.total is the return value once pc is back at "idle";                  *)
(* rd.moved is history: the bytes this call took out of the buffer.         *)

ReadCall(len, forever) ==
  /\ rd.pc = "idle"
  /\ rd' = IF abort_read THEN Returned(RB_ABORT, 0) ELSE Called(len, forever)
  /\ UNCHANGED <<bufVars, semVars, lockVars, flagVars, wr, ctl>>

ReadLock ==
  /\ rd.pc = "lock"
  /\ TakeLock(Reader)
  /\ rd' = [rd EXCEPT !.pc = "measure"]
  /\ UNCHANGED <<bufVars, semVars, flagVars, wr, ctl>>

ReadMeasure ==
  /\ rd.pc = "measure"
  /\ rd' = [rd EXCEPT !.pc = "copy", !.size = Min(fill_cnt, rd.len)]
  /\ UNCHANGED <<bufVars, semVars, lockVars, flagVars, wr, ctl>>

\* Mutant: the part after the wrap starts one slot too far.
ReadCopy_wrap ==
  /\ rd.pc = "copy"
  /\ got' = got \o [i \in 1..rd.size |-> mem[IF readptr + i - 1 >= Size THEN Slot(readptr, i)
                                                                     ELSE readptr + i - 1]]
  /\ readptr' = Advance(readptr, rd.size)
  /\ rd' = [rd EXCEPT !.pc = "count", !.moved = @ + rd.size]
  /\ UNCHANGED <<fill_cnt, writeptr, mem, put, semVars, lockVars, flagVars, wr, ctl>>

ReadCopy ==
  /\ rd.pc = "copy"
  /\ got' = got \o [i \in 1..rd.size |-> mem[Slot(readptr, i - 1)]]
  /\ readptr' = Advance(readptr, rd.size)
  /\ rd' = [rd EXCEPT !.pc = "count", !.moved = @ + rd.size]
  /\ UNCHANGED <<fill_cnt, writeptr, mem, put, semVars, lockVars, flagVars, wr, ctl>>

\* Mutant: does not give can_write.
ReadCount_quiet ==
  /\ rd.pc = "count"
  /\ fill_cnt' = fill_cnt - rd.size
  /\ rd' = [rd EXCEPT !.pc = IF rd.len = rd.size THEN "unlock" ELSE "yield",
                      !.len = @ - rd.size, !.size = 0, !.total = @ + rd.size]
  /\ UNCHANGED <<readptr, writeptr, mem, put, got, semVars, lockVars, flagVars, wr, ctl>>

ReadCount ==
  /\ rd.pc = "count"
  /\ fill_cnt' = fill_cnt - rd.size
  /\ can_write' = TRUE
  /\ rd' = [rd EXCEPT !.pc = IF rd.len = rd.size THEN "unlock" ELSE "yield",
                      !.len = @ - rd.size, !.size = 0, !.total = @ + rd.size]
  /\ UNCHANGED <<readptr, writeptr, mem, put, got, can_read, lockVars, flagVars, wr, ctl>>

ReadYield ==
  /\ rd.pc = "yield"
  /\ GiveLock(Reader)
  /\ rd' = [rd EXCEPT !.pc = "check"]
  /\ UNCHANGED <<bufVars, semVars, flagVars, wr, ctl>>

Unblocked == writer_finished \/ abort_read \/ reader_unblock

ReadCheck ==
  /\ rd.pc = "check"
  /\ rd' = [rd EXCEPT !.pc = IF Unblocked THEN "woken" ELSE "sleep"]
  /\ UNCHANGED <<bufVars, semVars, lockVars, flagVars, wr, ctl>>

ReadWake ==
  /\ rd.pc = "sleep" /\ can_read
  /\ can_read' = FALSE
  /\ rd' = [rd EXCEPT !.pc = "woken"]
  /\ UNCHANGED <<bufVars, can_write, lockVars, flagVars, wr, ctl>>

ReadTimeout ==
  /\ rd.pc = "sleep" /\ ~can_read /\ ~rd.forever
  /\ rd' = [rd EXCEPT !.pc = "out"]
  /\ UNCHANGED <<bufVars, semVars, lockVars, flagVars, wr, ctl>>

\* The three flags are tested in the code's order after a wake-up.
ReadWoken ==
  /\ rd.pc = "woken"
  /\ \/ abort_read /\ rd' = [rd EXCEPT !.pc = "out", !.total = RB_ABORT]
     \/ ~abort_read /\ writer_finished /\ rd' = [rd EXCEPT !.pc = "out"]
     \/ /\ ~abort_read /\ ~writer_finished /\ reader_unblock
        /\ rd' = [rd EXCEPT !.pc = "out", !.total = IF @ = 0 THEN RB_READER_UNBLOCK ELSE @]
     \/ ~Unblocked /\ rd' = [rd EXCEPT !.pc = "lock"]
  /\ UNCHANGED <<bufVars, semVars, lockVars, flagVars, wr, ctl>>

ReadUnlock ==
  /\ rd.pc = "unlock"
  /\ GiveLock(Reader)
  /\ rd' = [rd EXCEPT !.pc = "out"]
  /\ UNCHANGED <<bufVars, semVars, flagVars, wr, ctl>>

\* After "out:" the code runs without the lock.
ReadReturn ==
  /\ rd.pc = "out"
  /\ rd' = Returned(IF writer_finished /\ rd.total = 0 THEN RB_WRITER_FINISHED ELSE rd.total,
                    rd.moved)
  /\ reader_unblock' = FALSE
  /\ UNCHANGED <<bufVars, semVars, lockVars, abort_read, abort_write, writer_finished, wr, ctl>>

ReaderStep ==
  \/ ReadLock \/ ReadMeasure \/ ReadCopy \/ ReadCount \/ ReadYield \/ ReadCheck
  \/ ReadWake \/ ReadTimeout \/ ReadWoken \/ ReadUnlock \/ ReadReturn

---------------------------------------------------------------------------
(* rb_write.                                                                *)

WriteCall(len, forever) ==
  /\ wr.pc = "idle"
  /\ put + len <= MaxBytes
  /\ wr' = IF abort_write THEN Returned(RB_ABORT, 0) ELSE Called(len, forever)
  /\ UNCHANGED <<bufVars, semVars, lockVars, flagVars, rd, ctl>>

WriteLock ==
  /\ wr.pc = "lock"
  /\ TakeLock(Writer)
  /\ wr' = [wr EXCEPT !.pc = "measure"]
  /\ UNCHANGED <<bufVars, semVars, flagVars, rd, ctl>>

\* Mutant: counts one free slot too many.
WriteMeasure_over ==
  /\ wr.pc = "measure"
  /\ wr' = [wr EXCEPT !.pc = "copy", !.size = Min(Size - fill_cnt + 1, wr.len)]
  /\ UNCHANGED <<bufVars, semVars, lockVars, flagVars, rd, ctl>>

WriteMeasure ==
  /\ wr.pc = "measure"
  /\ wr' = [wr EXCEPT !.pc = "copy", !.size = Min(Size - fill_cnt, wr.len)]
  /\ UNCHANGED <<bufVars, semVars, lockVars, flagVars, rd, ctl>>

WriteCopy ==
  /\ wr.pc = "copy"
  /\ mem' = [s \in 0..Size-1 |-> IF Ahead(writeptr, s) < wr.size
                                   THEN put + Ahead(writeptr, s) + 1 ELSE mem[s]]
  /\ writeptr' = Advance(writeptr, wr.size)
  /\ put' = put + wr.size
  /\ wr' = [wr EXCEPT !.pc = "count", !.moved = @ + wr.size]
  /\ UNCHANGED <<fill_cnt, readptr, got, semVars, lockVars, flagVars, rd, ctl>>

WriteCount ==
  /\ wr.pc = "count"
  /\ fill_cnt' = fill_cnt + wr.size
  /\ can_read' = TRUE
  /\ wr' = [wr EXCEPT !.pc = IF wr.len = wr.size THEN "unlock" ELSE "yield",
                      !.len = @ - wr.size, !.total = @ + wr.size]
  /\ UNCHANGED <<readptr, writeptr, mem, put, got, can_write, lockVars, flagVars, rd, ctl>>

WriteYield ==
  /\ wr.pc = "yield"
  /\ GiveLock(Writer)
  /\ wr' = [wr EXCEPT !.pc = "check"]
  /\ UNCHANGED <<bufVars, semVars, flagVars, rd, ctl>>

\* A finished buffer makes rb_write return the size of its last chunk.
WriteCheck ==
  /\ wr.pc = "check"
  /\ wr' = IF writer_finished
             THEN Returned(IF wr.size > 0 THEN wr.size ELSE RB_WRITER_FINISHED, wr.moved)
             ELSE [wr EXCEPT !.pc = "sleep"]
  /\ UNCHANGED <<bufVars, semVars, lockVars, flagVars, rd, ctl>>

WriteWake ==
  /\ wr.pc = "sleep" /\ can_write
  /\ can_write' = FALSE
  /\ wr' = [wr EXCEPT !.pc = "woken"]
  /\ UNCHANGED <<bufVars, can_read, lockVars, flagVars, rd, ctl>>

WriteTimeout ==
  /\ wr.pc = "sleep" /\ ~can_write /\ ~wr.forever
  /\ wr' = Returned(wr.total, wr.moved)
  /\ UNCHANGED <<bufVars, semVars, lockVars, flagVars, rd, ctl>>

\* Mutant: an abort hides the bytes already written.
WriteWoken_hides ==
  /\ wr.pc = "woken"
  /\ wr' = IF abort_write THEN Returned(RB_ABORT, wr.moved) ELSE [wr EXCEPT !.pc = "lock"]
  /\ UNCHANGED <<bufVars, semVars, lockVars, flagVars, rd, ctl>>

WriteWoken ==
  /\ wr.pc = "woken"
  /\ wr' = IF abort_write THEN Returned(wr.total, wr.moved) ELSE [wr EXCEPT !.pc = "lock"]
  /\ UNCHANGED <<bufVars, semVars, lockVars, flagVars, rd, ctl>>

WriteUnlock ==
  /\ wr.pc = "unlock"
  /\ GiveLock(Writer)
  /\ wr' = Returned(wr.total, wr.moved)
  /\ UNCHANGED <<bufVars, semVars, flagVars, rd, ctl>>

WriterStep ==
  \/ WriteLock \/ WriteMeasure \/ WriteCopy \/ WriteCount \/ WriteYield \/ WriteCheck
  \/ WriteWake \/ WriteTimeout \/ WriteWoken \/ WriteUnlock

---------------------------------------------------------------------------
(* The control functions.                                                   *)

IsAbort(op) == op \in {"abort", "abort_read", "abort_write"}
IsReset(op) == op \in {"reset", "reset_abort_write"}

CtlCall(c, op) ==
  /\ ctl[c].pc = "idle"
  /\ ctl' = [ctl EXCEPT ![c] = [pc |-> IF IsReset(op) THEN "lock" ELSE "flag", op |-> op]]
  /\ UNCHANGED <<bufVars, semVars, lockVars, flagVars, rd, wr>>

\* rb_abort*, rb_signal_writer_finished, rb_wakeup_reader: set the flag ...
CtlFlag(c) ==
  /\ ctl[c].pc = "flag"
  /\ abort_read' = (abort_read \/ ctl[c].op \in {"abort", "abort_read"})
  /\ abort_write' = (abort_write \/ ctl[c].op \in {"abort", "abort_write"})
  /\ writer_finished' = (writer_finished \/ ctl[c].op = "finish")
  /\ reader_unblock' = (reader_unblock \/ ctl[c].op = "wakeup")
  /\ ctl' = [ctl EXCEPT ![c].pc = "give"]
  /\ UNCHANGED <<bufVars, semVars, lockVars, rd, wr>>

\* Mutant: rb_signal_writer_finished only sets its flag.
CtlGive_quiet(c) ==
  /\ ctl[c].pc = "give"
  /\ can_read' = (can_read \/ ctl[c].op \in {"abort", "abort_read", "wakeup"})
  /\ can_write' = (can_write \/ ctl[c].op \in {"abort", "abort_write", "reset_abort_write"})
  /\ ctl' = [ctl EXCEPT ![c] = IF IsAbort(@.op) THEN [@ EXCEPT !.pc = "stray"] ELSE NotCalled]
  /\ UNCHANGED <<bufVars, lockVars, flagVars, rd, wr>>

\* ... then give the semaphores its sleepers wait for ...
CtlGive(c) ==
  /\ ctl[c].pc = "give"
  /\ can_read' = (can_read \/ ctl[c].op \in {"abort", "abort_read", "finish", "wakeup"})
  /\ can_write' = (can_write \/ ctl[c].op \in {"abort", "abort_write", "reset_abort_write"})
  /\ ctl' = [ctl EXCEPT ![c] = IF IsAbort(@.op) THEN [@ EXCEPT !.pc = "stray"] ELSE NotCalled]
  /\ UNCHANGED <<bufVars, lockVars, flagVars, rd, wr>>

\* ... and the rb_abort functions end by giving the mutex they never took.
CtlStrayGive(c) ==
  /\ ctl[c].pc = "stray"
  /\ GiveLock(c)
  /\ ctl' = [ctl EXCEPT ![c] = NotCalled]
  /\ UNCHANGED <<bufVars, semVars, flagVars, rd, wr>>

CtlLock(c) ==
  /\ ctl[c].pc = "lock"
  /\ TakeLock(c)
  /\ ctl' = [ctl EXCEPT ![c].pc = "reset"]
  /\ UNCHANGED <<bufVars, semVars, flagVars, rd, wr>>

\* Mutant: forgets the write pointer.
CtlReset_writeptr(c) ==
  /\ ctl[c].pc = "reset"
  /\ readptr' = 0 /\ fill_cnt' = 0
  /\ writer_finished' = FALSE /\ reader_unblock' = FALSE
  /\ abort_read' = FALSE
  /\ abort_write' = (ctl[c].op = "reset_abort_write")
  /\ put' = 0 /\ got' = <<>>
  /\ ctl' = [ctl EXCEPT ![c].pc = "unlock"]
  /\ UNCHANGED <<writeptr, mem, semVars, lockVars, rd, wr>>

\* _rb_reset leaves both semaphores as they are.
CtlReset(c) ==
  /\ ctl[c].pc = "reset"
  /\ readptr' = 0 /\ writeptr' = 0 /\ fill_cnt' = 0
  /\ writer_finished' = FALSE /\ reader_unblock' = FALSE
  /\ abort_read' = FALSE
  /\ abort_write' = (ctl[c].op = "reset_abort_write")
  /\ put' = 0 /\ got' = <<>>
  /\ ctl' = [ctl EXCEPT ![c].pc = "unlock"]
  /\ UNCHANGED <<mem, semVars, lockVars, rd, wr>>

CtlUnlock(c) ==
  /\ ctl[c].pc = "unlock"
  /\ GiveLock(c)
  /\ ctl' = [ctl EXCEPT ![c] = IF @.op = "reset" THEN NotCalled ELSE [@ EXCEPT !.pc = "give"]]
  /\ UNCHANGED <<bufVars, semVars, flagVars, rd, wr>>

CtlStep(c) ==
  \/ CtlFlag(c) \/ CtlGive(c) \/ CtlStrayGive(c)
  \/ CtlLock(c) \/ CtlReset(c) \/ CtlUnlock(c)

\* The mutex is given by its holder only: no abort is called, or the kernel
\* stops whoever gives it without holding it.
NoStrayGive == OwnerChecked \/ \A op \in Ops : ~IsAbort(op)

---------------------------------------------------------------------------
Next ==
  /\ ~halted
  /\ \/ \E len \in 1..MaxReq, forever \in Waits : ReadCall(len, forever)
     \/ \E len \in 1..MaxReq, forever \in Waits : WriteCall(len, forever)
     \/ ReaderStep
     \/ WriterStep
     \/ \E c \in Controllers, op \in Ops : CtlCall(c, op)
     \/ \E c \in Controllers : CtlStep(c)

Spec == Init /\ [][Next]_vars

(* Scheduling.  Every task that is inside a function keeps running; a task  *)
(* waiting for the mutex is queued by the kernel and gets it eventually,    *)
(* however often others take it (strong fairness).  Calls and timeouts are  *)
(* the callers' and the clock's: no fairness.                               *)
Fairness ==
  /\ WF_vars(~halted /\ ReaderStep /\ ~ReadTimeout)
  /\ WF_vars(~halted /\ WriterStep /\ ~WriteTimeout)
  /\ SF_vars(~halted /\ ReadLock)
  /\ SF_vars(~halted /\ WriteLock)
  /\ \A c \in Controllers : /\ WF_vars(~halted /\ CtlStep(c))
                            /\ SF_vars(~halted /\ CtlLock(c))

FairSpec == Spec /\ Fairness

---------------------------------------------------------------------------
(* Properties.                                                              *)

CallState == [pc : {"idle", "lock", "measure", "copy", "count", "yield", "check",
                    "sleep", "woken", "unlock", "out"},
              len : Nat, size : Nat, total : Int, moved : Nat, forever : BOOLEAN]

CtlState == [pc : {"idle", "flag", "give", "stray", "lock", "reset", "unlock"},
             op : AllOps \cup {"none"}]

\* Type invariant of the buffer, the semaphores and the three kinds of task.
TypeOK ==
  /\ fill_cnt \in 0..Size /\ readptr \in 0..Size /\ writeptr \in 0..Size
  /\ mem \in [0..Size-1 -> Nat]
  /\ can_read \in BOOLEAN /\ can_write \in BOOLEAN
  /\ lock \in Tasks \cup {Free} /\ halted \in BOOLEAN
  /\ abort_read \in BOOLEAN /\ abort_write \in BOOLEAN
  /\ writer_finished \in BOOLEAN /\ reader_unblock \in BOOLEAN
  /\ rd \in CallState
  /\ wr \in CallState
  /\ ctl \in [Controllers -> CtlState]
  /\ put \in Nat /\ got \in Seq(Nat)

Holding(task) == task.pc \in {"measure", "copy", "count", "yield", "unlock"}
CtlHolding(c) == ctl[c].pc \in {"reset", "unlock"}

\* At most one task is between its take and its give of rb->lock.  rb_abort's
\* give of a mutex it did not take is what could break it.
MutualExclusion ==
  /\ ~(Holding(rd) /\ Holding(wr))
  /\ \A c \in Controllers : CtlHolding(c) =>
       /\ ~Holding(rd) /\ ~Holding(wr)
       /\ \A d \in Controllers \ {c} : ~CtlHolding(d)

Stored == put - Len(got)

PointersAgree == readptr + Stored - writeptr \in {-Size, 0, Size, 2 * Size}

Contents == \A s \in 0..Size-1 :
              Ahead(readptr, s) < Stored => mem[s] = Len(got) + Ahead(readptr, s) + 1

\* Whenever the lock is free, fill_cnt counts the bytes put and not yet got, the
\* distance between the pointers is fill_cnt, and those slots hold those bytes:
\* what rb_read, rb_write and _rb_reset each rely on the others to leave behind.
BufferConsistent ==
  lock = Free => /\ fill_cnt = Stored /\ fill_cnt \in 0..Size
                 /\ PointersAgree
                 /\ Contents

\* The reader gets the bytes of the stream in order, each once, across
\* wrap-arounds, partial reads, timeouts, wake-ups and resets.
InOrder == \A k \in 1..Len(got) : got[k] = k

\* rb_read's return value is the number of bytes it took out of the buffer, and
\* a call that took some never answers "finished" or "woken" instead.
ReadReport ==
  rd.pc = "idle" => /\ rd.total >= 0 => rd.total = rd.moved
                    /\ rd.total \in {RB_WRITER_FINISHED, RB_READER_UNBLOCK} => rd.moved = 0

\* rb_write's return value is the number of bytes it put in the buffer, and a
\* call that fails put none (ringbuf.h: "Number of bytes written").  So it is as
\* long as no other task signals the end of the stream (see WriteCheck).
WriteReport == wr.pc = "idle" => IF wr.total >= 0 THEN wr.total = wr.moved ELSE wr.moved = 0

\* What rb_read and rb_write report is what they moved, however they were cut short.
Reports == ReadReport /\ WriteReport

\* A reader never sleeps on can_read while the buffer holds bytes and the token
\* is gone: the wake-up of a write is not lost between unlocking and sleeping.
NoLostData == rd.pc \in {"check", "sleep"} /\ ~can_read => fill_cnt = 0

Asleep(task, token) == task.pc \in {"yield", "check", "sleep"} /\ ~token

\* Reader and writer never both wait for the other's token, whatever the
\* controllers do (rb_reset empties the buffer without waking the writer).
NotBothAsleep == ~(Asleep(rd, can_read) /\ Asleep(wr, can_write))

\* No wake-up is lost between the unlock and the sleep, of either side.
NoLostWakeUp == NoLostData /\ NotBothAsleep

\* The abstract stream.
Stream == INSTANCE ByteStream WITH sent <- put

\* The ring buffer implements the abstract bounded FIFO.
ImplementsStream == Stream!StreamSpec

\* A reader blocked while bytes are in the buffer goes on, timeouts aside.
DataReachesReader == (rd.pc = "sleep" /\ fill_cnt > 0) ~> (rd.pc # "sleep" \/ halted)

\* A pending abort, end of stream or wake-up makes a running rb_read return,
\* unless a reset takes the request back first.
ReaderUnblocks == (rd.pc # "idle" /\ Unblocked) ~> (rd.pc = "idle" \/ ~Unblocked \/ halted)

\* Data, end of stream, aborts and wake-ups get a blocked reader going.
ReaderGoesOn == DataReachesReader /\ ReaderUnblocks

\* As long as the reader keeps coming back, no writer sleeps for ever, even when
\* a reset emptied the buffer behind its back.
WriterGoesOn == []<>(rd.pc = "count") => []<>(wr.pc # "sleep")
=============================================================================
