-------------------------------- MODULE Srb --------------------------------
(***************************************************************************)
(* components/utils/src/srb.c: a ring buffer whose reader stops at anchors,  *)
(* points of interest put at absolute offsets of the stream.  `lock' guards  *)
(* read_offset and the list; what a task does with the two while it holds    *)
(* the lock is one step.  rb_read, which runs without `lock', is a step for  *)
(* each chunk and each sleep; rb_write puts a chunk in one step (RingBuf     *)
(* justifies both).  Bytes are counted, not stored.                          *)
(***************************************************************************)
EXTENDS Integers, Sequences, FiniteSets, SequencesExt

CONSTANTS Size,      \* bytes the ring buffer holds
          MaxSent,   \* bound: bytes written between two resets
          MaxAnchors,\* bound: anchors put
          Lens,      \* lengths asked of srb_read
          Readers,   \* tasks that call srb_read and srb_get_anchor
          Drainers,  \* tasks that call srb_drain
          Resetters, \* tasks that call srb_reset
          MaxResets, \* bound: calls of srb_reset
          PutModes,  \* how anchors are put: "at", "current"
          TimeOuts   \* reads have a time-out

Tasks == Readers \cup Drainers \cup Resetters

ASSUME SrbAssumption ==
  /\ Size \in Nat \ {0} /\ MaxSent \in Nat /\ MaxAnchors \in Nat /\ MaxResets \in Nat
  /\ Lens \subseteq Nat \ {0} /\ "free" \notin Tasks
  /\ PutModes \subseteq {"at", "current"} /\ TimeOuts \in BOOLEAN
  /\ Readers \cap Drainers = {} /\ (Readers \cup Drainers) \cap Resetters = {}

VARIABLES
  rb,          \* fill_cnt, reader_unblock, abort_read, and the token of can_read
  read_offset,
  list,        \* the anchors, first to last: offset and put order
  lock, read_lock,
  task,        \* the tasks' calls: pc, what they asked for and what they have
  sent, taken, \* history: bytes written and read since the last reset
  puts,        \* history: the anchors put so far
  fetched,     \* history: the last anchor fetched, and where it was fetched
  resets

locks   == <<lock, read_lock>>
history == <<sent, taken, puts, fetched, resets>>
vars    == <<rb, read_offset, list, locks, task, history>>

Idle     == [pc |-> "idle", len |-> 0, total |-> 0, seen |-> 0]
NothingFetched == [offset |-> 0, at |-> 0]

\* srb_init
Init ==
  /\ rb = [fill |-> 0, unblock |-> FALSE, abort |-> FALSE, can_read |-> FALSE]
  /\ read_offset = 0
  /\ list = <<>>
  /\ lock = "free" /\ read_lock = "free"
  /\ task = [t \in Tasks |-> Idle]
  /\ sent = 0 /\ taken = 0 /\ puts = 0 /\ fetched = NothingFetched /\ resets = 0

At(t, pc)    == task[t].pc = pc
Goto(t, pc)  == task' = [task EXCEPT ![t].pc = pc]
Least(a, b)  == IF a < b THEN a ELSE b

---------------------------------------------------------------------------
(* srb_write: another task puts bytes whenever there is room.               *)

Write(n) ==
  /\ rb.fill + n <= Size /\ sent + n <= MaxSent
  /\ rb' = [rb EXCEPT !.fill = @ + n, !.can_read = TRUE]
  /\ sent' = sent + n
  /\ UNCHANGED <<read_offset, list, locks, task, taken, puts, fetched, resets>>

---------------------------------------------------------------------------
(* srb_read.                                                                *)

ReadCall(t, n) ==
  /\ At(t, "idle")
  /\ read_lock = "free" /\ read_lock' = t
  /\ task' = [task EXCEPT ![t] = [Idle EXCEPT !.pc = "decide", !.len = n]]
  /\ UNCHANGED <<rb, read_offset, list, lock, history>>

Distance == Head(list).offset - read_offset

\* Mutant: a read may go past the next anchor.
ReadDecide_far(t) ==
  /\ At(t, "decide") /\ lock = "free"
  /\ IF list # <<>> /\ Distance <= 0
       THEN /\ task' = [task EXCEPT ![t] = [Idle EXCEPT !.pc = "fetch"]]
            /\ read_lock' = "free"
       ELSE /\ task' = [task EXCEPT ![t].pc = "rb_read", ![t].seen = puts]
            /\ UNCHANGED read_lock
  /\ UNCHANGED <<rb, read_offset, list, lock, history>>

\* At an anchor the call returns SRB_FETCH_ANCHOR; before one it reads up to it.
ReadDecide(t) ==
  /\ At(t, "decide") /\ lock = "free"
  /\ IF list # <<>> /\ Distance <= 0
       THEN /\ task' = [task EXCEPT ![t] = [Idle EXCEPT !.pc = "fetch"]]
            /\ read_lock' = "free"
       ELSE /\ task' = [task EXCEPT ![t].pc = "rb_read", ![t].seen = puts,
                          ![t].len = IF list = <<>> THEN @ ELSE Least(@, Distance)]
            /\ UNCHANGED read_lock
  /\ UNCHANGED <<rb, read_offset, list, lock, history>>

Counted(ret) == IF ret > 0 THEN ret ELSE 0

\* Mutant: the offset is left to the next call.
ReadCount_forgets(t) ==
  /\ At(t, "count") /\ lock = "free"
  /\ read_lock' = "free"
  /\ task' = [task EXCEPT ![t] = Idle]
  /\ UNCHANGED <<rb, read_offset, list, lock, history>>

ReadCount(t) ==
  /\ At(t, "count") /\ lock = "free"
  /\ read_offset' = read_offset + Counted(task[t].total)
  /\ read_lock' = "free"
  /\ task' = [task EXCEPT ![t] = Idle]
  /\ UNCHANGED <<rb, list, lock, history>>

---------------------------------------------------------------------------
(* rb_read, called by srb_read and, with no time to wait, by srb_drain.      *)

RbReturn(t) == IF t \in Readers THEN "count" ELSE "drained"

RB_ABORT          == -1
RB_READER_UNBLOCK == -3

\* rb_read fails at once on an aborted buffer.
RbRefuse(t) ==
  /\ At(t, "rb_read") /\ rb.abort
  /\ task' = [task EXCEPT ![t].pc = RbReturn(t), ![t].total = RB_ABORT]
  /\ UNCHANGED <<rb, read_offset, list, locks, history>>

RbEnter(t) ==
  /\ At(t, "rb_read") /\ ~rb.abort
  /\ Goto(t, "take")
  /\ UNCHANGED <<rb, read_offset, list, locks, history>>

RbTake(t) ==
  LET n == Least(task[t].len, rb.fill) IN
  /\ At(t, "take")
  /\ task' = [task EXCEPT ![t].len = @ - n, ![t].total = @ + n,
                          ![t].pc = IF n = task[t].len THEN "out" ELSE "sleep"]
  /\ rb' = [rb EXCEPT !.fill = @ - n]
  /\ taken' = taken + n
  /\ UNCHANGED <<read_offset, list, locks, sent, puts, fetched, resets>>

\* The reader sleeps unless a flag is up, and goes on with the flags.
RbAwake(t) ==
  /\ At(t, "sleep")
  /\ \/ rb.abort \/ rb.unblock
     \/ rb.can_read
  /\ rb' = IF rb.abort \/ rb.unblock THEN rb ELSE [rb EXCEPT !.can_read = FALSE]
  /\ Goto(t, "flags")
  /\ UNCHANGED <<read_offset, list, locks, history>>

RbTimeOut(t) ==
  /\ At(t, "sleep")
  /\ ~(rb.abort \/ rb.unblock \/ rb.can_read)
  /\ TimeOuts \/ t \in Drainers
  /\ Goto(t, "out")
  /\ UNCHANGED <<rb, read_offset, list, locks, history>>

\* An abort hides the bytes that were taken.
RbFlags(t) ==
  /\ At(t, "flags")
  /\ \/ rb.abort /\ task' = [task EXCEPT ![t].pc = "out", ![t].total = RB_ABORT]
     \/ /\ ~rb.abort /\ rb.unblock
        /\ task' = [task EXCEPT ![t].pc = "out",
                               ![t].total = IF @ = 0 THEN RB_READER_UNBLOCK ELSE @]
     \/ ~rb.abort /\ ~rb.unblock /\ Goto(t, "take")
  /\ UNCHANGED <<rb, read_offset, list, locks, history>>

RbOut(t) ==
  /\ At(t, "out")
  /\ rb' = [rb EXCEPT !.unblock = FALSE]
  /\ Goto(t, RbReturn(t))
  /\ UNCHANGED <<read_offset, list, locks, history>>

RbWork(t) == RbRefuse(t) \/ RbEnter(t) \/ RbTake(t) \/ RbAwake(t) \/ RbFlags(t) \/ RbOut(t)

RbStep(t) == RbWork(t) \/ RbTimeOut(t)

---------------------------------------------------------------------------
(* Anchors.                                                                 *)

\* srb_node_insert: after those at the same offset.
Insert(a) ==
  LET Before == {i \in 1..Len(list) : list[i].offset <= a.offset}
  IN  InsertAt(list, Cardinality(Before) + 1, a)

\* Mutant: never wakes the reader.
PutAnchor_quiet(offset) ==
  /\ lock = "free" /\ puts < MaxAnchors
  /\ list' = Insert([offset |-> offset, id |-> puts + 1])
  /\ puts' = puts + 1
  /\ UNCHANGED <<rb, read_offset, locks, task, sent, taken, fetched, resets>>

\* srb_put_anchor wakes a reader that has passed the place.
PutAnchor(offset) ==
  /\ lock = "free" /\ puts < MaxAnchors
  /\ rb' = IF read_offset >= offset THEN [rb EXCEPT !.unblock = TRUE, !.can_read = TRUE] ELSE rb
  /\ list' = Insert([offset |-> offset, id |-> puts + 1])
  /\ puts' = puts + 1
  /\ UNCHANGED <<read_offset, locks, task, sent, taken, fetched, resets>>

PutAnchorAtCurrent == PutAnchor(read_offset + rb.fill)

\* srb_get_anchor, called after SRB_FETCH_ANCHOR.
GetAnchor(t) ==
  /\ At(t, "fetch") /\ lock = "free"
  /\ IF list # <<>> /\ Distance <= 0
       THEN /\ fetched' = [offset |-> Head(list).offset, at |-> taken]
            /\ list' = Tail(list)
       ELSE UNCHANGED <<fetched, list>>
  /\ task' = [task EXCEPT ![t] = Idle]
  /\ UNCHANGED <<rb, read_offset, locks, sent, taken, puts, resets>>

---------------------------------------------------------------------------
(* srb_drain: rb_read with no time to wait, until the offset or an empty      *)
(* buffer, with both locks held.                                            *)

DrainCall(t, upto) ==
  /\ At(t, "idle")
  /\ task' = [task EXCEPT ![t] = [Idle EXCEPT !.pc = "wait", !.seen = upto]]
  /\ UNCHANGED <<rb, read_offset, list, locks, history>>

DrainReadLock(t) ==
  /\ At(t, "wait")
  /\ read_lock = "free" /\ read_lock' = t
  /\ Goto(t, "drain")
  /\ UNCHANGED <<rb, read_offset, list, lock, history>>

DrainLock(t) ==
  /\ At(t, "drain")
  /\ lock = "free" /\ lock' = t
  /\ Goto(t, "again")
  /\ UNCHANGED <<rb, read_offset, list, read_lock, history>>

DrainAgain(t) ==
  /\ At(t, "again")
  /\ IF read_offset < task[t].seen
       THEN task' = [task EXCEPT ![t].pc = "rb_read", ![t].len = task[t].seen - read_offset]
       ELSE Goto(t, "unlock")
  /\ UNCHANGED <<rb, read_offset, list, locks, history>>

\* Mutant: drains on when the buffer is empty.
Drained_on(t) ==
  /\ At(t, "drained")
  /\ read_offset' = read_offset + Counted(task[t].total)
  /\ task' = [task EXCEPT ![t].total = 0, ![t].pc = "again"]
  /\ UNCHANGED <<rb, list, locks, history>>

Drained(t) ==
  /\ At(t, "drained")
  /\ read_offset' = read_offset + Counted(task[t].total)
  /\ task' = [task EXCEPT ![t].total = 0,
                          ![t].pc = IF task[t].total > 0 \/ task[t].total = RB_READER_UNBLOCK
                                      THEN "again" ELSE "unlock"]
  /\ UNCHANGED <<rb, list, locks, history>>

DrainUnlock(t) ==
  /\ At(t, "unlock")
  /\ lock' = "free" /\ read_lock' = "free"
  /\ task' = [task EXCEPT ![t] = Idle]
  /\ UNCHANGED <<rb, read_offset, list, history>>

DrainStep(t) == DrainReadLock(t) \/ DrainLock(t) \/ DrainAgain(t) \/ Drained(t) \/ DrainUnlock(t)

---------------------------------------------------------------------------
(* srb_reset: aborts, then resets, with `lock' held but not read_lock.       *)

ResetAbort(t) ==
  /\ At(t, "idle") /\ resets < MaxResets
  /\ lock = "free" /\ lock' = t
  /\ rb' = [rb EXCEPT !.abort = TRUE, !.can_read = TRUE]
  /\ Goto(t, "reset")
  /\ resets' = resets + 1
  /\ UNCHANGED <<read_offset, list, read_lock, sent, taken, puts, fetched>>

ResetEmpty(t) ==
  /\ At(t, "reset")
  /\ rb' = [rb EXCEPT !.fill = 0, !.unblock = FALSE, !.abort = FALSE]
  /\ read_offset' = 0
  /\ sent' = 0 /\ taken' = 0
  /\ lock' = "free"
  /\ Goto(t, "idle")
  /\ UNCHANGED <<list, read_lock, puts, fetched, resets>>

ReadStep(t) == ReadDecide(t) \/ ReadCount(t) \/ GetAnchor(t)

Next ==
  \/ \E n \in 1..Size : Write(n)
  \/ \E t \in Readers : (\E n \in Lens : ReadCall(t, n)) \/ ReadStep(t) \/ RbStep(t)
  \/ "at" \in PutModes /\ \E offset \in 0..MaxSent : PutAnchor(offset)
  \/ "current" \in PutModes /\ PutAnchorAtCurrent
  \/ \E t \in Drainers : (\E upto \in 1..MaxSent : DrainCall(t, upto)) \/ DrainStep(t) \/ RbStep(t)
  \/ \E t \in Resetters : ResetAbort(t) \/ ResetEmpty(t)

Spec == Init /\ [][Next]_vars

(* The readers read on for ever and the mutexes are handed out in turn;      *)
(* nobody has to write, put, drain or reset, and a reader's time-out may be  *)
(* as long as it likes.                                                      *)
Fairness ==
  /\ \A t \in Readers : /\ WF_vars(RbWork(t))
                        /\ SF_vars(ReadStep(t))
                        /\ SF_vars(\E n \in Lens : ReadCall(t, n))
  /\ \A t \in Drainers : WF_vars(RbStep(t)) /\ SF_vars(DrainStep(t))
  /\ \A t \in Resetters : WF_vars(ResetEmpty(t))

FairSpec == Spec /\ Fairness

---------------------------------------------------------------------------
(* Properties.                                                              *)

Pcs == {"idle", "decide", "rb_read", "take", "sleep", "flags", "out", "count", "fetch",
        "wait", "drain", "again", "drained", "unlock", "reset"}

\* "if we have 2 anchors at the same offset, the one that came later is added
\* later": the list is sorted by offset, then by time.
Sorted ==
  \A i, j \in 1..Len(list) :
    i < j => \/ list[i].offset < list[j].offset
             \/ list[i].offset = list[j].offset /\ list[i].id < list[j].id

\* Type invariant, with the order of the list.
TypeOK ==
  /\ rb \in [fill : 0..Size, unblock : BOOLEAN, abort : BOOLEAN, can_read : BOOLEAN]
  /\ read_offset \in Nat /\ sent \in 0..MaxSent /\ taken \in 0..MaxSent
  /\ list \in Seq([offset : Nat, id : 1..MaxAnchors])
  /\ lock \in Tasks \cup {"free"} /\ read_lock \in Tasks \cup {"free"}
  /\ task \in [Tasks -> [pc : Pcs, len : Nat, total : Int, seen : Nat]]
  /\ Sorted

\* A read never goes past an anchor that was there when it began.
StopsAtAnchor ==
  \A t \in Readers : task[t].pc \in {"take", "sleep", "flags", "out", "count"} =>
    \A i \in 1..Len(list) : list[i].id <= task[t].seen => taken <= list[i].offset

\* "The amount of data that has already been read from the above ring buffer": so it
\* is whenever no read is in progress, as long as nobody resets the buffer (the
\* TODO in srb_reset: a read that returns across it counts into the new offset).
OffsetIsRead == (read_lock = "free" /\ lock = "free" /\ resets = 0) => read_offset = taken

\* No anchor is fetched before the reader has got the bytes ahead of it; the same
\* reservation.
NotFetchedEarly == resets = 0 => fetched.offset <= fetched.at

\* The anchors lie in order, and they and the bytes come out in the order of their offsets.
AnchorsInTurn == TypeOK /\ StopsAtAnchor /\ NotFetchedEarly

Pending(n) == \E i \in 1..Len(list) : list[i].id = n

\* An anchor put at or before the place where the reader is gets fetched, even if
\* nothing is ever written again and the reader sleeps for ever; the same reservation:
\* a reset may come between the reader's look at the anchors and its sleep.
PassedIsFetched ==
  \A n \in 1..MaxAnchors :
    (\E i \in 1..Len(list) : list[i].id = n /\ list[i].offset <= read_offset)
      ~> ~Pending(n) \/ resets > 0

\* srb_drain returns once it has read_lock, however fast the buffer is filled and
\* however often anchors wake it.
DrainReturns == \A t \in Drainers : At(t, "drain") ~> At(t, "idle")
=============================================================================
