---------------------------- MODULE RingBufProof ----------------------------
(***************************************************************************)
(* Safety of the ring buffer for every size, request and set of controllers.*)
(* The inductive invariant says who holds the mutex at each pc, what the    *)
(* holder may assume of its chunk, and how pointers, memory and history     *)
(* relate while a chunk is copied but not yet counted.                      *)
(***************************************************************************)
EXTENDS RingBuf, TLAPS, SequenceTheorems

RdPending == IF rd.pc = "count" THEN rd.size ELSE 0
WrPending == IF wr.pc = "count" THEN wr.size ELSE 0

\* Who is at which pc is who holds the mutex.
Holders ==
  /\ lock = Reader <=> Holding(rd)
  /\ lock = Writer <=> Holding(wr)
  /\ \A c \in Controllers : lock = c <=> CtlHolding(c)

\* A controller runs a function of Ops, and only an abort gets to "stray".
RunningOps ==
  \A c \in Controllers : /\ ctl[c].pc # "idle" => ctl[c].op \in Ops
                         /\ ctl[c].pc = "stray" => IsAbort(ctl[c].op)

\* A chunk was measured against the fill_cnt that still holds, and the history
\* differs from fill_cnt by the chunk that is copied but not counted.
Chunks ==
  /\ rd.pc \in {"copy", "count"} => rd.size = Min(fill_cnt, rd.len)
  /\ wr.pc \in {"copy", "count"} => wr.size = Min(Size - fill_cnt, wr.len)
  /\ Stored = fill_cnt + WrPending - RdPending

ReportSoFar ==
  /\ rd.pc \in {"lock", "measure", "copy", "yield", "check", "sleep", "woken", "unlock"}
       => rd.total = rd.moved
  /\ rd.pc = "count" => rd.total + rd.size = rd.moved
  /\ rd.pc = "out" => \/ rd.total = rd.moved
                      \/ rd.total = RB_ABORT
                      \/ rd.total = RB_READER_UNBLOCK /\ rd.moved = 0
  /\ ReadReport

\* A reader on its way to sleep left an empty buffer, or a token was given since.
EmptyOrToken == rd.pc \in {"yield", "check", "sleep"} /\ ~can_read => fill_cnt = 0

IInv ==
  /\ TypeOK /\ Holders /\ RunningOps
  /\ Chunks /\ PointersAgree /\ Contents /\ InOrder
  /\ ReportSoFar /\ EmptyOrToken /\ NotBothAsleep

---------------------------------------------------------------------------
(* The arithmetic of wrapping pointers.                                     *)

LEMMA AheadType ==
  ASSUME NEW p \in 0..Size, NEW s \in 0..Size-1
  PROVE  Ahead(p, s) \in 0..Size-1
BY SizeAssumption DEF Ahead

LEMMA SlotType ==
  ASSUME NEW p \in 0..Size, NEW i \in 0..Size-1
  PROVE  Slot(p, i) \in 0..Size-1 /\ Ahead(p, Slot(p, i)) = i
BY SizeAssumption DEF Slot, Ahead

\* Advancing a pointer by n brings the slots at least n ahead n closer.
LEMMA AheadAdvance ==
  ASSUME NEW p \in 0..Size, NEW n \in 0..Size, NEW s \in 0..Size-1
  PROVE  /\ Advance(p, n) \in 0..Size
         /\ Ahead(Advance(p, n), s) = IF Ahead(p, s) >= n THEN Ahead(p, s) - n
                                                          ELSE Ahead(p, s) - n + Size
BY SizeAssumption DEF Advance, Ahead

\* The pointers stay in agreement when a chunk of n is read or written.
LEMMA PointerSteps ==
  ASSUME NEW r \in 0..Size, NEW w \in 0..Size, NEW stored \in 0..Size, NEW n \in 0..Size,
         r + stored - w \in {-Size, 0, Size, 2 * Size}
  PROVE  /\ n <= stored => Advance(r, n) + (stored - n) - w \in {-Size, 0, Size, 2 * Size}
         /\ n <= Size - stored =>
              r + (stored + n) - Advance(w, n) \in {-Size, 0, Size, 2 * Size}
BY SizeAssumption DEF Advance

\* The n slots after the write pointer are the n after the stored bytes.
LEMMA WrittenSlots ==
  ASSUME NEW r \in 0..Size, NEW w \in 0..Size, NEW stored \in 0..Size, NEW n \in 0..Size,
         r + stored - w \in {-Size, 0, Size, 2 * Size}, n <= Size - stored,
         NEW s \in 0..Size-1
  PROVE  /\ Ahead(w, s) < n => Ahead(r, s) = stored + Ahead(w, s)
         /\ Ahead(w, s) >= n /\ Ahead(r, s) < stored + n => Ahead(r, s) < stored
BY SizeAssumption DEF Ahead

LEMMA FunctionIsSeq ==
  ASSUME NEW n \in Nat, NEW f \in [1..n -> Nat]
  PROVE  f \in Seq(Nat) /\ Len(f) = n
<1>1. f \in Seq(Nat)
  BY SeqDef
<1>2. Len(f) \in Nat /\ DOMAIN f = 1..Len(f) /\ DOMAIN f = 1..n
  BY <1>1, LenProperties
<1> QED
  BY <1>1, <1>2

LEMMA EmptyStream == Len(<< >>) = 0
BY EmptySeq

LEMMA InitInv == Init => IInv
<1> SUFFICES ASSUME Init PROVE IInv
  OBVIOUS
<1> USE SizeAssumption, ControllersAssumption
<1>a. got \in Seq(Nat) /\ Len(got) = 0 /\ put = 0
  BY EmptySeq DEF Init
<1>b. rd \in CallState /\ wr \in CallState
  BY DEF Init, CallState, Returned
<1>c. ctl \in [Controllers -> CtlState]
  BY DEF Init, NotCalled, CtlState
<1>d. mem \in [0..Size-1 -> Nat]
  BY DEF Init
<1>1. TypeOK
  <2>1. fill_cnt \in 0..Size /\ readptr \in 0..Size /\ writeptr \in 0..Size /\ put \in Nat
    BY DEF Init
  <2>2. lock \in Tasks \cup {Free} /\ halted \in BOOLEAN
    BY DEF Init
  <2>3. /\ can_read \in BOOLEAN /\ can_write \in BOOLEAN
        /\ abort_read \in BOOLEAN /\ abort_write \in BOOLEAN
        /\ writer_finished \in BOOLEAN /\ reader_unblock \in BOOLEAN
    BY DEF Init
  <2> QED
    BY <2>1, <2>2, <2>3, <1>a, <1>b, <1>c, <1>d DEF TypeOK
<1>2. Holders /\ RunningOps
  BY DEF Init, Holders, RunningOps, Returned, NotCalled, Holding, CtlHolding, Reader,
     Writer, Free
<1>3. Chunks /\ PointersAgree /\ Contents /\ InOrder
  <2>1. Stored = 0
    BY <1>a DEF Stored
  <2>2. Chunks
    BY <2>1 DEF Init, Chunks, Returned, WrPending, RdPending
  <2>3. PointersAgree
    BY <2>1 DEF Init, PointersAgree
  <2>4. Contents
    BY <2>1, AheadType, SMTT(30) DEF Init, Contents
  <2>5. InOrder
    BY <1>a DEF InOrder
  <2> QED
    BY <2>2, <2>3, <2>4, <2>5
<1>4. ReportSoFar /\ EmptyOrToken /\ NotBothAsleep
  BY DEF Init, ReportSoFar, ReadReport, EmptyOrToken, NotBothAsleep, Asleep, Returned,
         RB_WRITER_FINISHED, RB_READER_UNBLOCK
<1>5. QED
  BY <1>1, <1>2, <1>3, <1>4 DEF IInv

---------------------------------------------------------------------------
(* One step per action: the invariant is preserved.                         *)

USE SizeAssumption, ControllersAssumption, ModesAssumption
USE DEF bufVars, semVars, lockVars, flagVars

LEMMA ReadCallInv ==
  ASSUME NoStrayGive, IInv, ~halted, NEW len \in 1..MaxReq, NEW forever \in Waits, ReadCall(len, forever)
  PROVE  IInv'
<1> USE DEF ReadCall
<1>a. rd' \in CallState /\ wr' \in CallState
  BY BoundAssumption DEF IInv, TypeOK, CallState, Returned, Called, Min, Chunks, RB_ABORT
<1>b. ctl' \in [Controllers -> CtlState]
  BY DEF IInv, TypeOK, CtlState, NotCalled, AllOps
<1>c. /\ fill_cnt' \in 0..Size /\ readptr' \in 0..Size /\ writeptr' \in 0..Size
      /\ mem' \in [0..Size-1 -> Nat] /\ put' \in Nat /\ got' \in Seq(Nat)
  BY DEF IInv, TypeOK, CallState, Holders, Chunks, Holding, CtlHolding, Min
<1>d. /\ lock' \in Tasks \cup {Free} /\ halted' \in BOOLEAN
      /\ can_read' \in BOOLEAN /\ can_write' \in BOOLEAN
      /\ abort_read' \in BOOLEAN /\ abort_write' \in BOOLEAN
      /\ writer_finished' \in BOOLEAN /\ reader_unblock' \in BOOLEAN
  BY DEF IInv, TypeOK, TakeLock, GiveLock, Tasks
<1>1. TypeOK'
  BY <1>a, <1>b, <1>c, <1>d DEF TypeOK
<1>2. Holders' /\ RunningOps'
  BY DEF NoStrayGive, IInv, TypeOK, CallState, Holders, RunningOps, Holding, CtlHolding,
     TakeLock, GiveLock, Returned, Called, NotCalled, Reader, Writer, Free, IsAbort,
     IsReset
<1>3. Chunks' /\ PointersAgree' /\ Contents' /\ InOrder'
  BY DEF IInv, TypeOK, CallState, Holders, Holding, CtlHolding, Chunks, Stored, RdPending,
     WrPending, PointersAgree, Contents, InOrder, Returned, Called, Min
<1>4. ReportSoFar' /\ EmptyOrToken' /\ NotBothAsleep'
  BY DEF IInv, TypeOK, CallState, Holders, Holding, CtlHolding, Chunks, ReportSoFar,
     ReadReport, EmptyOrToken, NotBothAsleep, Asleep, Returned, Called, Min, RB_ABORT,
     RB_READER_UNBLOCK, RB_WRITER_FINISHED
<1>5. QED
  BY <1>1, <1>2, <1>3, <1>4 DEF IInv

LEMMA ReadLockInv ==
  ASSUME NoStrayGive, IInv, ~halted, ReadLock
  PROVE  IInv'
<1> USE DEF ReadLock
<1>a. rd' \in CallState /\ wr' \in CallState
  BY DEF IInv, TypeOK, CallState, Returned, Called, Min, Chunks
<1>b. ctl' \in [Controllers -> CtlState]
  BY DEF IInv, TypeOK, CtlState, NotCalled, AllOps
<1>c. /\ fill_cnt' \in 0..Size /\ readptr' \in 0..Size /\ writeptr' \in 0..Size
      /\ mem' \in [0..Size-1 -> Nat] /\ put' \in Nat /\ got' \in Seq(Nat)
  BY DEF IInv, TypeOK, CallState, Holders, Chunks, Holding, CtlHolding, Min
<1>d. /\ lock' \in Tasks \cup {Free} /\ halted' \in BOOLEAN
      /\ can_read' \in BOOLEAN /\ can_write' \in BOOLEAN
      /\ abort_read' \in BOOLEAN /\ abort_write' \in BOOLEAN
      /\ writer_finished' \in BOOLEAN /\ reader_unblock' \in BOOLEAN
  BY DEF IInv, TypeOK, TakeLock, GiveLock, Tasks
<1>1. TypeOK'
  BY <1>a, <1>b, <1>c, <1>d DEF TypeOK
<1>2. Holders' /\ RunningOps'
  BY DEF NoStrayGive, IInv, TypeOK, CallState, Holders, RunningOps, Holding, CtlHolding,
     TakeLock, GiveLock, Returned, Called, NotCalled, Reader, Writer, Free, IsAbort,
     IsReset
<1>3. Chunks' /\ PointersAgree' /\ Contents' /\ InOrder'
  BY DEF IInv, TypeOK, CallState, Holders, Holding, CtlHolding, Chunks, Stored, RdPending,
     WrPending, PointersAgree, Contents, InOrder, Returned, Called, Min
<1>4. ReportSoFar' /\ EmptyOrToken' /\ NotBothAsleep'
  BY DEF IInv, TypeOK, CallState, Holders, Holding, CtlHolding, Chunks, ReportSoFar,
     ReadReport, EmptyOrToken, NotBothAsleep, Asleep, Returned, Called, Min, RB_ABORT,
     RB_READER_UNBLOCK, RB_WRITER_FINISHED
<1>5. QED
  BY <1>1, <1>2, <1>3, <1>4 DEF IInv

LEMMA ReadMeasureInv ==
  ASSUME NoStrayGive, IInv, ~halted, ReadMeasure
  PROVE  IInv'
<1> USE DEF ReadMeasure
<1>0. Min(fill_cnt, rd.len) \in Nat
  BY DEF IInv, TypeOK, CallState, Min
<1>a. rd' \in CallState /\ wr' \in CallState
  BY <1>0 DEF IInv, TypeOK, CallState, Returned, Called, Min, Chunks
<1>b. ctl' \in [Controllers -> CtlState]
  BY <1>0 DEF IInv, TypeOK, CtlState, NotCalled, AllOps
<1>c. /\ fill_cnt' \in 0..Size /\ readptr' \in 0..Size /\ writeptr' \in 0..Size
      /\ mem' \in [0..Size-1 -> Nat] /\ put' \in Nat /\ got' \in Seq(Nat)
  BY <1>0 DEF IInv, TypeOK, CallState, Holders, Chunks, Holding, CtlHolding, Min
<1>d. /\ lock' \in Tasks \cup {Free} /\ halted' \in BOOLEAN
      /\ can_read' \in BOOLEAN /\ can_write' \in BOOLEAN
      /\ abort_read' \in BOOLEAN /\ abort_write' \in BOOLEAN
      /\ writer_finished' \in BOOLEAN /\ reader_unblock' \in BOOLEAN
  BY <1>0 DEF IInv, TypeOK, TakeLock, GiveLock, Tasks
<1>1. TypeOK'
  BY <1>0, <1>a, <1>b, <1>c, <1>d DEF TypeOK
<1>2. Holders' /\ RunningOps'
  BY <1>0 DEF NoStrayGive, IInv, TypeOK, CallState, Holders, RunningOps, Holding,
     CtlHolding, TakeLock, GiveLock, Returned, Called, NotCalled, Reader, Writer, Free,
     IsAbort, IsReset
<1>3. Chunks' /\ PointersAgree' /\ Contents' /\ InOrder'
  BY <1>0 DEF IInv, TypeOK, CallState, Holders, Holding, CtlHolding, Chunks, Stored,
     RdPending, WrPending, PointersAgree, Contents, InOrder, Returned, Called, Min
<1>4. ReportSoFar' /\ EmptyOrToken' /\ NotBothAsleep'
  BY <1>0 DEF IInv, TypeOK, CallState, Holders, Holding, CtlHolding, Chunks, ReportSoFar,
     ReadReport, EmptyOrToken, NotBothAsleep, Asleep, Returned, Called, Min, RB_ABORT,
     RB_READER_UNBLOCK, RB_WRITER_FINISHED
<1>5. QED
  BY <1>1, <1>2, <1>3, <1>4 DEF IInv

LEMMA ReadCountInv ==
  ASSUME NoStrayGive, IInv, ~halted, ReadCount
  PROVE  IInv'
<1> USE DEF ReadCount
<1>p. /\ rd.pc = "count" /\ rd.size = Min(fill_cnt, rd.len)
      /\ rd.size \in Nat /\ rd.len \in Nat /\ rd.total \in Int /\ fill_cnt \in 0..Size
  BY DEF IInv, TypeOK, CallState, Chunks
<1>q. wr.pc \notin {"copy", "count"}
  BY <1>p DEF IInv, Holders, Holding, Reader, Writer
<1>0. /\ rd.size \in Nat /\ rd.len - rd.size \in Nat /\ rd.total + rd.size \in Int
      /\ fill_cnt - rd.size \in 0..Size
      /\ rd.len # rd.size => fill_cnt - rd.size = 0
      /\ wr.pc \notin {"copy", "count"}
  BY <1>p, <1>q DEF Min
<1>a. rd' \in CallState /\ wr' \in CallState
  BY <1>0 DEF IInv, TypeOK, CallState, Returned, Called, Min, Chunks
<1>b. ctl' \in [Controllers -> CtlState]
  BY <1>0 DEF IInv, TypeOK, CtlState, NotCalled, AllOps
<1>c. /\ fill_cnt' \in 0..Size /\ readptr' \in 0..Size /\ writeptr' \in 0..Size
      /\ mem' \in [0..Size-1 -> Nat] /\ put' \in Nat /\ got' \in Seq(Nat)
  BY <1>0 DEF IInv, TypeOK, CallState, Holders, Chunks, Holding, CtlHolding, Min
<1>d. /\ lock' \in Tasks \cup {Free} /\ halted' \in BOOLEAN
      /\ can_read' \in BOOLEAN /\ can_write' \in BOOLEAN
      /\ abort_read' \in BOOLEAN /\ abort_write' \in BOOLEAN
      /\ writer_finished' \in BOOLEAN /\ reader_unblock' \in BOOLEAN
  BY <1>0 DEF IInv, TypeOK, TakeLock, GiveLock, Tasks
<1>1. TypeOK'
  BY <1>0, <1>a, <1>b, <1>c, <1>d DEF TypeOK
<1>2. Holders' /\ RunningOps'
  BY <1>0 DEF NoStrayGive, IInv, TypeOK, CallState, Holders, RunningOps, Holding,
     CtlHolding, TakeLock, GiveLock, Returned, Called, NotCalled, Reader, Writer, Free,
     IsAbort, IsReset
<1>3. Chunks' /\ PointersAgree' /\ Contents' /\ InOrder'
  BY SMTT(40), <1>0 DEF IInv, TypeOK, CallState, Holders, Holding, CtlHolding, Chunks, Stored,
     RdPending, WrPending, PointersAgree, Contents, InOrder, Returned, Called, Min
<1>4. ReportSoFar' /\ EmptyOrToken' /\ NotBothAsleep'
  BY <1>0 DEF IInv, TypeOK, CallState, Holders, Holding, CtlHolding, Chunks, ReportSoFar,
     ReadReport, EmptyOrToken, NotBothAsleep, Asleep, Returned, Called, Min, RB_ABORT,
     RB_READER_UNBLOCK, RB_WRITER_FINISHED
<1>5. QED
  BY <1>1, <1>2, <1>3, <1>4 DEF IInv

LEMMA ReadYieldInv ==
  ASSUME NoStrayGive, IInv, ~halted, ReadYield
  PROVE  IInv'
<1> USE DEF ReadYield
<1>a. rd' \in CallState /\ wr' \in CallState
  BY DEF IInv, TypeOK, CallState, Returned, Called, Min, Chunks
<1>b. ctl' \in [Controllers -> CtlState]
  BY DEF IInv, TypeOK, CtlState, NotCalled, AllOps
<1>c. /\ fill_cnt' \in 0..Size /\ readptr' \in 0..Size /\ writeptr' \in 0..Size
      /\ mem' \in [0..Size-1 -> Nat] /\ put' \in Nat /\ got' \in Seq(Nat)
  BY DEF IInv, TypeOK, CallState, Holders, Chunks, Holding, CtlHolding, Min
<1>d. /\ lock' \in Tasks \cup {Free} /\ halted' \in BOOLEAN
      /\ can_read' \in BOOLEAN /\ can_write' \in BOOLEAN
      /\ abort_read' \in BOOLEAN /\ abort_write' \in BOOLEAN
      /\ writer_finished' \in BOOLEAN /\ reader_unblock' \in BOOLEAN
  BY DEF IInv, TypeOK, TakeLock, GiveLock, Tasks
<1>1. TypeOK'
  BY <1>a, <1>b, <1>c, <1>d DEF TypeOK
<1>2. Holders' /\ RunningOps'
  BY DEF NoStrayGive, IInv, TypeOK, CallState, Holders, RunningOps, Holding, CtlHolding,
     TakeLock, GiveLock, Returned, Called, NotCalled, Reader, Writer, Free, IsAbort,
     IsReset
<1>3. Chunks' /\ PointersAgree' /\ Contents' /\ InOrder'
  BY DEF IInv, TypeOK, CallState, Holders, Holding, CtlHolding, Chunks, Stored, RdPending,
     WrPending, PointersAgree, Contents, InOrder, Returned, Called, Min
<1>4. ReportSoFar' /\ EmptyOrToken' /\ NotBothAsleep'
  BY DEF IInv, TypeOK, CallState, Holders, Holding, CtlHolding, Chunks, ReportSoFar,
     ReadReport, EmptyOrToken, NotBothAsleep, Asleep, Returned, Called, Min, RB_ABORT,
     RB_READER_UNBLOCK, RB_WRITER_FINISHED
<1>5. QED
  BY <1>1, <1>2, <1>3, <1>4 DEF IInv

LEMMA ReadCheckInv ==
  ASSUME NoStrayGive, IInv, ~halted, ReadCheck
  PROVE  IInv'
<1> USE DEF ReadCheck
<1>a. rd' \in CallState /\ wr' \in CallState
  BY DEF IInv, TypeOK, CallState, Returned, Called, Min, Chunks
<1>b. ctl' \in [Controllers -> CtlState]
  BY DEF IInv, TypeOK, CtlState, NotCalled, AllOps
<1>c. /\ fill_cnt' \in 0..Size /\ readptr' \in 0..Size /\ writeptr' \in 0..Size
      /\ mem' \in [0..Size-1 -> Nat] /\ put' \in Nat /\ got' \in Seq(Nat)
  BY DEF IInv, TypeOK, CallState, Holders, Chunks, Holding, CtlHolding, Min
<1>d. /\ lock' \in Tasks \cup {Free} /\ halted' \in BOOLEAN
      /\ can_read' \in BOOLEAN /\ can_write' \in BOOLEAN
      /\ abort_read' \in BOOLEAN /\ abort_write' \in BOOLEAN
      /\ writer_finished' \in BOOLEAN /\ reader_unblock' \in BOOLEAN
  BY DEF IInv, TypeOK, TakeLock, GiveLock, Tasks
<1>1. TypeOK'
  BY <1>a, <1>b, <1>c, <1>d DEF TypeOK
<1>2. Holders' /\ RunningOps'
  BY DEF NoStrayGive, IInv, TypeOK, CallState, Holders, RunningOps, Holding, CtlHolding,
     TakeLock, GiveLock, Returned, Called, NotCalled, Reader, Writer, Free, IsAbort,
     IsReset, Unblocked
<1>3. Chunks' /\ PointersAgree' /\ Contents' /\ InOrder'
  BY DEF IInv, TypeOK, CallState, Holders, Holding, CtlHolding, Chunks, Stored, RdPending,
     WrPending, PointersAgree, Contents, InOrder, Returned, Called, Min
<1>4. ReportSoFar' /\ EmptyOrToken' /\ NotBothAsleep'
  BY DEF IInv, TypeOK, CallState, Holders, Holding, CtlHolding, Chunks, ReportSoFar,
     ReadReport, EmptyOrToken, NotBothAsleep, Asleep, Returned, Called, Min, RB_ABORT,
     RB_READER_UNBLOCK, RB_WRITER_FINISHED, Unblocked
<1>5. QED
  BY <1>1, <1>2, <1>3, <1>4 DEF IInv

LEMMA ReadWakeInv ==
  ASSUME NoStrayGive, IInv, ~halted, ReadWake
  PROVE  IInv'
<1> USE DEF ReadWake
<1>a. rd' \in CallState /\ wr' \in CallState
  BY DEF IInv, TypeOK, CallState, Returned, Called, Min, Chunks
<1>b. ctl' \in [Controllers -> CtlState]
  BY DEF IInv, TypeOK, CtlState, NotCalled, AllOps
<1>c. /\ fill_cnt' \in 0..Size /\ readptr' \in 0..Size /\ writeptr' \in 0..Size
      /\ mem' \in [0..Size-1 -> Nat] /\ put' \in Nat /\ got' \in Seq(Nat)
  BY DEF IInv, TypeOK, CallState, Holders, Chunks, Holding, CtlHolding, Min
<1>d. /\ lock' \in Tasks \cup {Free} /\ halted' \in BOOLEAN
      /\ can_read' \in BOOLEAN /\ can_write' \in BOOLEAN
      /\ abort_read' \in BOOLEAN /\ abort_write' \in BOOLEAN
      /\ writer_finished' \in BOOLEAN /\ reader_unblock' \in BOOLEAN
  BY DEF IInv, TypeOK, TakeLock, GiveLock, Tasks
<1>1. TypeOK'
  BY <1>a, <1>b, <1>c, <1>d DEF TypeOK
<1>2. Holders' /\ RunningOps'
  BY DEF NoStrayGive, IInv, TypeOK, CallState, Holders, RunningOps, Holding, CtlHolding,
     TakeLock, GiveLock, Returned, Called, NotCalled, Reader, Writer, Free, IsAbort,
     IsReset
<1>3. Chunks' /\ PointersAgree' /\ Contents' /\ InOrder'
  BY DEF IInv, TypeOK, CallState, Holders, Holding, CtlHolding, Chunks, Stored, RdPending,
     WrPending, PointersAgree, Contents, InOrder, Returned, Called, Min
<1>4. ReportSoFar' /\ EmptyOrToken' /\ NotBothAsleep'
  BY DEF IInv, TypeOK, CallState, Holders, Holding, CtlHolding, Chunks, ReportSoFar,
     ReadReport, EmptyOrToken, NotBothAsleep, Asleep, Returned, Called, Min, RB_ABORT,
     RB_READER_UNBLOCK, RB_WRITER_FINISHED
<1>5. QED
  BY <1>1, <1>2, <1>3, <1>4 DEF IInv

LEMMA ReadTimeoutInv ==
  ASSUME NoStrayGive, IInv, ~halted, ReadTimeout
  PROVE  IInv'
<1> USE DEF ReadTimeout
<1>a. rd' \in CallState /\ wr' \in CallState
  BY DEF IInv, TypeOK, CallState, Returned, Called, Min, Chunks
<1>b. ctl' \in [Controllers -> CtlState]
  BY DEF IInv, TypeOK, CtlState, NotCalled, AllOps
<1>c. /\ fill_cnt' \in 0..Size /\ readptr' \in 0..Size /\ writeptr' \in 0..Size
      /\ mem' \in [0..Size-1 -> Nat] /\ put' \in Nat /\ got' \in Seq(Nat)
  BY DEF IInv, TypeOK, CallState, Holders, Chunks, Holding, CtlHolding, Min
<1>d. /\ lock' \in Tasks \cup {Free} /\ halted' \in BOOLEAN
      /\ can_read' \in BOOLEAN /\ can_write' \in BOOLEAN
      /\ abort_read' \in BOOLEAN /\ abort_write' \in BOOLEAN
      /\ writer_finished' \in BOOLEAN /\ reader_unblock' \in BOOLEAN
  BY DEF IInv, TypeOK, TakeLock, GiveLock, Tasks
<1>1. TypeOK'
  BY <1>a, <1>b, <1>c, <1>d DEF TypeOK
<1>2. Holders' /\ RunningOps'
  BY DEF NoStrayGive, IInv, TypeOK, CallState, Holders, RunningOps, Holding, CtlHolding,
     TakeLock, GiveLock, Returned, Called, NotCalled, Reader, Writer, Free, IsAbort,
     IsReset
<1>3. Chunks' /\ PointersAgree' /\ Contents' /\ InOrder'
  BY DEF IInv, TypeOK, CallState, Holders, Holding, CtlHolding, Chunks, Stored, RdPending,
     WrPending, PointersAgree, Contents, InOrder, Returned, Called, Min
<1>4. ReportSoFar' /\ EmptyOrToken' /\ NotBothAsleep'
  BY DEF IInv, TypeOK, CallState, Holders, Holding, CtlHolding, Chunks, ReportSoFar,
     ReadReport, EmptyOrToken, NotBothAsleep, Asleep, Returned, Called, Min, RB_ABORT,
     RB_READER_UNBLOCK, RB_WRITER_FINISHED
<1>5. QED
  BY <1>1, <1>2, <1>3, <1>4 DEF IInv

LEMMA ReadWokenInv ==
  ASSUME NoStrayGive, IInv, ~halted, ReadWoken
  PROVE  IInv'
<1> USE DEF ReadWoken
<1>t. rd \in CallState /\ wr' = wr /\ wr \in CallState
  BY DEF IInv, TypeOK
<1>a. rd' \in CallState /\ wr' \in CallState
  <2>0. RB_ABORT \in Int /\ RB_READER_UNBLOCK \in Int
    BY DEF RB_ABORT, RB_READER_UNBLOCK
  <2>1. CASE rd' = [rd EXCEPT !.pc = "out", !.total = RB_ABORT]
    BY <1>t, <2>0, <2>1 DEF CallState
  <2>2. CASE rd' = [rd EXCEPT !.pc = "out"]
    BY <1>t, <2>2 DEF CallState
  <2>3. CASE rd' = [rd EXCEPT !.pc = "out", !.total = IF @ = 0 THEN RB_READER_UNBLOCK ELSE @]
    BY <1>t, <2>0, <2>3 DEF CallState
  <2>4. CASE rd' = [rd EXCEPT !.pc = "lock"]
    BY <1>t, <2>4 DEF CallState
  <2> QED
    BY <2>1, <2>2, <2>3, <2>4
<1>b. ctl' \in [Controllers -> CtlState]
  BY DEF IInv, TypeOK, CtlState, NotCalled, AllOps
<1>c. /\ fill_cnt' \in 0..Size /\ readptr' \in 0..Size /\ writeptr' \in 0..Size
      /\ mem' \in [0..Size-1 -> Nat] /\ put' \in Nat /\ got' \in Seq(Nat)
  BY DEF IInv, TypeOK, CallState, Holders, Chunks, Holding, CtlHolding, Min
<1>d. /\ lock' \in Tasks \cup {Free} /\ halted' \in BOOLEAN
      /\ can_read' \in BOOLEAN /\ can_write' \in BOOLEAN
      /\ abort_read' \in BOOLEAN /\ abort_write' \in BOOLEAN
      /\ writer_finished' \in BOOLEAN /\ reader_unblock' \in BOOLEAN
  BY DEF IInv, TypeOK, TakeLock, GiveLock, Tasks
<1>1. TypeOK'
  BY <1>a, <1>b, <1>c, <1>d DEF TypeOK
<1>2. Holders' /\ RunningOps'
  <2>1. /\ rd.pc = "woken" /\ rd'.pc \in {"out", "lock"}
        /\ UNCHANGED <<wr, ctl, lock>>
    BY <1>t DEF CallState, lockVars
  <2>2. Holders /\ RunningOps
    BY DEF IInv
  <2> HIDE DEF ReadWoken
  <2> QED BY <2>1, <2>2 DEF Holders, RunningOps, Holding, CtlHolding
<1>3. Chunks' /\ PointersAgree' /\ Contents' /\ InOrder'
  BY DEF IInv, TypeOK, CallState, Holders, Holding, CtlHolding, Chunks, Stored, RdPending,
     WrPending, PointersAgree, Contents, InOrder, Returned, Called, Min
<1>4. ReportSoFar' /\ EmptyOrToken' /\ NotBothAsleep'
  <2>1. rd.total = rd.moved /\ rd.moved' = rd.moved /\ rd.moved \in Nat
    BY <1>t DEF IInv, ReportSoFar, CallState
  <2>2. rd'.pc \in {"out", "lock"}
    BY <1>t DEF CallState
  <2>3. \/ rd'.total = rd.total
        \/ rd'.pc = "out" /\ rd'.total = RB_ABORT
        \/ rd'.pc = "out" /\ rd'.total = RB_READER_UNBLOCK /\ rd.total = 0
    BY <1>t DEF CallState
  <2>4. ReportSoFar'
    BY <2>1, <2>2, <2>3 DEF ReportSoFar, ReadReport
  <2> QED
    BY <2>2, <2>4 DEF EmptyOrToken, NotBothAsleep, Asleep
<1>5. QED
  BY <1>1, <1>2, <1>3, <1>4 DEF IInv

LEMMA ReadUnlockInv ==
  ASSUME NoStrayGive, IInv, ~halted, ReadUnlock
  PROVE  IInv'
<1> USE DEF ReadUnlock
<1>a. rd' \in CallState /\ wr' \in CallState
  BY DEF IInv, TypeOK, CallState, Returned, Called, Min, Chunks
<1>b. ctl' \in [Controllers -> CtlState]
  BY DEF IInv, TypeOK, CtlState, NotCalled, AllOps
<1>c. /\ fill_cnt' \in 0..Size /\ readptr' \in 0..Size /\ writeptr' \in 0..Size
      /\ mem' \in [0..Size-1 -> Nat] /\ put' \in Nat /\ got' \in Seq(Nat)
  BY DEF IInv, TypeOK, CallState, Holders, Chunks, Holding, CtlHolding, Min
<1>d. /\ lock' \in Tasks \cup {Free} /\ halted' \in BOOLEAN
      /\ can_read' \in BOOLEAN /\ can_write' \in BOOLEAN
      /\ abort_read' \in BOOLEAN /\ abort_write' \in BOOLEAN
      /\ writer_finished' \in BOOLEAN /\ reader_unblock' \in BOOLEAN
  BY DEF IInv, TypeOK, TakeLock, GiveLock, Tasks
<1>1. TypeOK'
  BY <1>a, <1>b, <1>c, <1>d DEF TypeOK
<1>2. Holders' /\ RunningOps'
  BY DEF NoStrayGive, IInv, TypeOK, CallState, Holders, RunningOps, Holding, CtlHolding,
     TakeLock, GiveLock, Returned, Called, NotCalled, Reader, Writer, Free, IsAbort,
     IsReset
<1>3. Chunks' /\ PointersAgree' /\ Contents' /\ InOrder'
  BY DEF IInv, TypeOK, CallState, Holders, Holding, CtlHolding, Chunks, Stored, RdPending,
     WrPending, PointersAgree, Contents, InOrder, Returned, Called, Min
<1>4. ReportSoFar' /\ EmptyOrToken' /\ NotBothAsleep'
  BY DEF IInv, TypeOK, CallState, Holders, Holding, CtlHolding, Chunks, ReportSoFar,
     ReadReport, EmptyOrToken, NotBothAsleep, Asleep, Returned, Called, Min, RB_ABORT,
     RB_READER_UNBLOCK, RB_WRITER_FINISHED
<1>5. QED
  BY <1>1, <1>2, <1>3, <1>4 DEF IInv

LEMMA ReadReturnInv ==
  ASSUME NoStrayGive, IInv, ~halted, ReadReturn
  PROVE  IInv'
<1> USE DEF ReadReturn
<1>0. /\ rd.total \in Int /\ rd.moved \in Nat
      /\ \/ rd.total = rd.moved
         \/ rd.total = RB_ABORT
         \/ rd.total = RB_READER_UNBLOCK /\ rd.moved = 0
  BY DEF IInv, TypeOK, CallState, ReportSoFar
<1>a. rd' \in CallState /\ wr' \in CallState
  BY <1>0 DEF IInv, TypeOK, CallState, Returned, Called, Min, Chunks, RB_WRITER_FINISHED
<1>b. ctl' \in [Controllers -> CtlState]
  BY <1>0 DEF IInv, TypeOK, CtlState, NotCalled, AllOps
<1>c. /\ fill_cnt' \in 0..Size /\ readptr' \in 0..Size /\ writeptr' \in 0..Size
      /\ mem' \in [0..Size-1 -> Nat] /\ put' \in Nat /\ got' \in Seq(Nat)
  BY <1>0 DEF IInv, TypeOK, CallState, Holders, Chunks, Holding, CtlHolding, Min
<1>d. /\ lock' \in Tasks \cup {Free} /\ halted' \in BOOLEAN
      /\ can_read' \in BOOLEAN /\ can_write' \in BOOLEAN
      /\ abort_read' \in BOOLEAN /\ abort_write' \in BOOLEAN
      /\ writer_finished' \in BOOLEAN /\ reader_unblock' \in BOOLEAN
  BY <1>0 DEF IInv, TypeOK, TakeLock, GiveLock, Tasks
<1>1. TypeOK'
  BY <1>0, <1>a, <1>b, <1>c, <1>d DEF TypeOK
<1>2. Holders' /\ RunningOps'
  BY <1>0 DEF NoStrayGive, IInv, TypeOK, CallState, Holders, RunningOps, Holding,
     CtlHolding, TakeLock, GiveLock, Returned, Called, NotCalled, Reader, Writer, Free,
     IsAbort, IsReset
<1>3. Chunks' /\ PointersAgree' /\ Contents' /\ InOrder'
  BY <1>0 DEF IInv, TypeOK, CallState, Holders, Holding, CtlHolding, Chunks, Stored,
     RdPending, WrPending, PointersAgree, Contents, InOrder, Returned, Called, Min
<1>4. ReportSoFar' /\ EmptyOrToken' /\ NotBothAsleep'
  <2>1. /\ rd'.pc = "idle" /\ rd'.moved = rd.moved
        /\ rd'.total = IF writer_finished /\ rd.total = 0 THEN RB_WRITER_FINISHED ELSE rd.total
    BY DEF Returned
  <2>2. ReadReport'
    BY <1>0, <2>1 DEF ReadReport, RB_ABORT, RB_READER_UNBLOCK, RB_WRITER_FINISHED
  <2> QED
    BY <2>1, <2>2 DEF ReportSoFar, EmptyOrToken, NotBothAsleep, Asleep
<1>5. QED
  BY <1>1, <1>2, <1>3, <1>4 DEF IInv

LEMMA WriteCallInv ==
  ASSUME NoStrayGive, IInv, ~halted, NEW len \in 1..MaxReq, NEW forever \in Waits, WriteCall(len, forever)
  PROVE  IInv'
<1> USE DEF WriteCall
<1>a. rd' \in CallState /\ wr' \in CallState
  BY BoundAssumption DEF IInv, TypeOK, CallState, Returned, Called, Min, Chunks, RB_ABORT
<1>b. ctl' \in [Controllers -> CtlState]
  BY DEF IInv, TypeOK, CtlState, NotCalled, AllOps
<1>c. /\ fill_cnt' \in 0..Size /\ readptr' \in 0..Size /\ writeptr' \in 0..Size
      /\ mem' \in [0..Size-1 -> Nat] /\ put' \in Nat /\ got' \in Seq(Nat)
  BY DEF IInv, TypeOK, CallState, Holders, Chunks, Holding, CtlHolding, Min
<1>d. /\ lock' \in Tasks \cup {Free} /\ halted' \in BOOLEAN
      /\ can_read' \in BOOLEAN /\ can_write' \in BOOLEAN
      /\ abort_read' \in BOOLEAN /\ abort_write' \in BOOLEAN
      /\ writer_finished' \in BOOLEAN /\ reader_unblock' \in BOOLEAN
  BY DEF IInv, TypeOK, TakeLock, GiveLock, Tasks
<1>1. TypeOK'
  BY <1>a, <1>b, <1>c, <1>d DEF TypeOK
<1>2. Holders' /\ RunningOps'
  BY DEF NoStrayGive, IInv, TypeOK, CallState, Holders, RunningOps, Holding, CtlHolding,
     TakeLock, GiveLock, Returned, Called, NotCalled, Reader, Writer, Free, IsAbort,
     IsReset
<1>3. Chunks' /\ PointersAgree' /\ Contents' /\ InOrder'
  BY DEF IInv, TypeOK, CallState, Holders, Holding, CtlHolding, Chunks, Stored, RdPending,
     WrPending, PointersAgree, Contents, InOrder, Returned, Called, Min
<1>4. ReportSoFar' /\ EmptyOrToken' /\ NotBothAsleep'
  BY DEF IInv, TypeOK, CallState, Holders, Holding, CtlHolding, Chunks, ReportSoFar,
     ReadReport, EmptyOrToken, NotBothAsleep, Asleep, Returned, Called, Min, RB_ABORT,
     RB_READER_UNBLOCK, RB_WRITER_FINISHED
<1>5. QED
  BY <1>1, <1>2, <1>3, <1>4 DEF IInv

LEMMA WriteLockInv ==
  ASSUME NoStrayGive, IInv, ~halted, WriteLock
  PROVE  IInv'
<1> USE DEF WriteLock
<1>a. rd' \in CallState /\ wr' \in CallState
  BY DEF IInv, TypeOK, CallState, Returned, Called, Min, Chunks
<1>b. ctl' \in [Controllers -> CtlState]
  BY DEF IInv, TypeOK, CtlState, NotCalled, AllOps
<1>c. /\ fill_cnt' \in 0..Size /\ readptr' \in 0..Size /\ writeptr' \in 0..Size
      /\ mem' \in [0..Size-1 -> Nat] /\ put' \in Nat /\ got' \in Seq(Nat)
  BY DEF IInv, TypeOK, CallState, Holders, Chunks, Holding, CtlHolding, Min
<1>d. /\ lock' \in Tasks \cup {Free} /\ halted' \in BOOLEAN
      /\ can_read' \in BOOLEAN /\ can_write' \in BOOLEAN
      /\ abort_read' \in BOOLEAN /\ abort_write' \in BOOLEAN
      /\ writer_finished' \in BOOLEAN /\ reader_unblock' \in BOOLEAN
  BY DEF IInv, TypeOK, TakeLock, GiveLock, Tasks
<1>1. TypeOK'
  BY <1>a, <1>b, <1>c, <1>d DEF TypeOK
<1>2. Holders' /\ RunningOps'
  BY DEF NoStrayGive, IInv, TypeOK, CallState, Holders, RunningOps, Holding, CtlHolding,
     TakeLock, GiveLock, Returned, Called, NotCalled, Reader, Writer, Free, IsAbort,
     IsReset
<1>3. Chunks' /\ PointersAgree' /\ Contents' /\ InOrder'
  BY DEF IInv, TypeOK, CallState, Holders, Holding, CtlHolding, Chunks, Stored, RdPending,
     WrPending, PointersAgree, Contents, InOrder, Returned, Called, Min
<1>4. ReportSoFar' /\ EmptyOrToken' /\ NotBothAsleep'
  BY DEF IInv, TypeOK, CallState, Holders, Holding, CtlHolding, Chunks, ReportSoFar,
     ReadReport, EmptyOrToken, NotBothAsleep, Asleep, Returned, Called, Min, RB_ABORT,
     RB_READER_UNBLOCK, RB_WRITER_FINISHED
<1>5. QED
  BY <1>1, <1>2, <1>3, <1>4 DEF IInv

LEMMA WriteMeasureInv ==
  ASSUME NoStrayGive, IInv, ~halted, WriteMeasure
  PROVE  IInv'
<1> USE DEF WriteMeasure
<1>0. Min(Size - fill_cnt, wr.len) \in Nat
  BY SMTT(30) DEF IInv, TypeOK, CallState, Min
<1>a. rd' \in CallState /\ wr' \in CallState
  BY <1>0 DEF IInv, TypeOK, CallState, Returned, Called, Min, Chunks
<1>b. ctl' \in [Controllers -> CtlState]
  BY <1>0 DEF IInv, TypeOK, CtlState, NotCalled, AllOps
<1>c. /\ fill_cnt' \in 0..Size /\ readptr' \in 0..Size /\ writeptr' \in 0..Size
      /\ mem' \in [0..Size-1 -> Nat] /\ put' \in Nat /\ got' \in Seq(Nat)
  BY <1>0 DEF IInv, TypeOK, CallState, Holders, Chunks, Holding, CtlHolding, Min
<1>d. /\ lock' \in Tasks \cup {Free} /\ halted' \in BOOLEAN
      /\ can_read' \in BOOLEAN /\ can_write' \in BOOLEAN
      /\ abort_read' \in BOOLEAN /\ abort_write' \in BOOLEAN
      /\ writer_finished' \in BOOLEAN /\ reader_unblock' \in BOOLEAN
  BY <1>0 DEF IInv, TypeOK, TakeLock, GiveLock, Tasks
<1>1. TypeOK'
  BY <1>0, <1>a, <1>b, <1>c, <1>d DEF TypeOK
<1>2. Holders' /\ RunningOps'
  BY <1>0 DEF NoStrayGive, IInv, TypeOK, CallState, Holders, RunningOps, Holding,
     CtlHolding, TakeLock, GiveLock, Returned, Called, NotCalled, Reader, Writer, Free,
     IsAbort, IsReset
<1>3. Chunks' /\ PointersAgree' /\ Contents' /\ InOrder'
  BY <1>0 DEF IInv, TypeOK, CallState, Holders, Holding, CtlHolding, Chunks, Stored,
     RdPending, WrPending, PointersAgree, Contents, InOrder, Returned, Called, Min
<1>4. ReportSoFar' /\ EmptyOrToken' /\ NotBothAsleep'
  BY <1>0 DEF IInv, TypeOK, CallState, Holders, Holding, CtlHolding, Chunks, ReportSoFar,
     ReadReport, EmptyOrToken, NotBothAsleep, Asleep, Returned, Called, Min, RB_ABORT,
     RB_READER_UNBLOCK, RB_WRITER_FINISHED
<1>5. QED
  BY <1>1, <1>2, <1>3, <1>4 DEF IInv

LEMMA WriteCountInv ==
  ASSUME NoStrayGive, IInv, ~halted, WriteCount
  PROVE  IInv'
<1> USE DEF WriteCount
<1>p. /\ wr.pc = "count" /\ wr.size = Min(Size - fill_cnt, wr.len)
      /\ wr.size \in Nat /\ wr.len \in Nat /\ wr.total \in Int /\ fill_cnt \in 0..Size
  BY DEF IInv, TypeOK, CallState, Chunks
<1>q. rd.pc \notin {"copy", "count"}
  BY <1>p DEF IInv, Holders, Holding, Reader, Writer
<1>0. /\ wr.size \in Nat /\ wr.len - wr.size \in Nat /\ wr.total + wr.size \in Int
      /\ fill_cnt + wr.size \in 0..Size
      /\ rd.pc \notin {"copy", "count"}
  BY <1>p, <1>q DEF Min
<1>a. rd' \in CallState /\ wr' \in CallState
  BY <1>0 DEF IInv, TypeOK, CallState, Returned, Called, Min, Chunks
<1>b. ctl' \in [Controllers -> CtlState]
  BY <1>0 DEF IInv, TypeOK, CtlState, NotCalled, AllOps
<1>c. /\ fill_cnt' \in 0..Size /\ readptr' \in 0..Size /\ writeptr' \in 0..Size
      /\ mem' \in [0..Size-1 -> Nat] /\ put' \in Nat /\ got' \in Seq(Nat)
  BY <1>0 DEF IInv, TypeOK, CallState, Holders, Chunks, Holding, CtlHolding, Min
<1>d. /\ lock' \in Tasks \cup {Free} /\ halted' \in BOOLEAN
      /\ can_read' \in BOOLEAN /\ can_write' \in BOOLEAN
      /\ abort_read' \in BOOLEAN /\ abort_write' \in BOOLEAN
      /\ writer_finished' \in BOOLEAN /\ reader_unblock' \in BOOLEAN
  BY <1>0 DEF IInv, TypeOK, TakeLock, GiveLock, Tasks
<1>1. TypeOK'
  BY <1>0, <1>a, <1>b, <1>c, <1>d DEF TypeOK
<1>2. Holders' /\ RunningOps'
  BY <1>0 DEF NoStrayGive, IInv, TypeOK, CallState, Holders, RunningOps, Holding,
     CtlHolding, TakeLock, GiveLock, Returned, Called, NotCalled, Reader, Writer, Free,
     IsAbort, IsReset
<1>3. Chunks' /\ PointersAgree' /\ Contents' /\ InOrder'
  BY <1>0, SMTT(30) DEF IInv, TypeOK, CallState, Holders, Holding, CtlHolding, Chunks, Stored,
     RdPending, WrPending, PointersAgree, Contents, InOrder, Returned, Called, Min
<1>4. ReportSoFar' /\ EmptyOrToken' /\ NotBothAsleep'
  BY <1>0 DEF IInv, TypeOK, CallState, Holders, Holding, CtlHolding, Chunks, ReportSoFar,
     ReadReport, EmptyOrToken, NotBothAsleep, Asleep, Returned, Called, Min, RB_ABORT,
     RB_READER_UNBLOCK, RB_WRITER_FINISHED
<1>5. QED
  BY <1>1, <1>2, <1>3, <1>4 DEF IInv

LEMMA WriteYieldInv ==
  ASSUME NoStrayGive, IInv, ~halted, WriteYield
  PROVE  IInv'
<1> USE DEF WriteYield
<1>a. rd' \in CallState /\ wr' \in CallState
  BY DEF IInv, TypeOK, CallState, Returned, Called, Min, Chunks
<1>b. ctl' \in [Controllers -> CtlState]
  BY DEF IInv, TypeOK, CtlState, NotCalled, AllOps
<1>c. /\ fill_cnt' \in 0..Size /\ readptr' \in 0..Size /\ writeptr' \in 0..Size
      /\ mem' \in [0..Size-1 -> Nat] /\ put' \in Nat /\ got' \in Seq(Nat)
  BY DEF IInv, TypeOK, CallState, Holders, Chunks, Holding, CtlHolding, Min
<1>d. /\ lock' \in Tasks \cup {Free} /\ halted' \in BOOLEAN
      /\ can_read' \in BOOLEAN /\ can_write' \in BOOLEAN
      /\ abort_read' \in BOOLEAN /\ abort_write' \in BOOLEAN
      /\ writer_finished' \in BOOLEAN /\ reader_unblock' \in BOOLEAN
  BY DEF IInv, TypeOK, TakeLock, GiveLock, Tasks
<1>1. TypeOK'
  BY <1>a, <1>b, <1>c, <1>d DEF TypeOK
<1>2. Holders' /\ RunningOps'
  BY DEF NoStrayGive, IInv, TypeOK, CallState, Holders, RunningOps, Holding, CtlHolding,
     TakeLock, GiveLock, Returned, Called, NotCalled, Reader, Writer, Free, IsAbort,
     IsReset
<1>3. Chunks' /\ PointersAgree' /\ Contents' /\ InOrder'
  BY DEF IInv, TypeOK, CallState, Holders, Holding, CtlHolding, Chunks, Stored, RdPending,
     WrPending, PointersAgree, Contents, InOrder, Returned, Called, Min
<1>4. ReportSoFar' /\ EmptyOrToken' /\ NotBothAsleep'
  BY DEF IInv, TypeOK, CallState, Holders, Holding, CtlHolding, Chunks, ReportSoFar,
     ReadReport, EmptyOrToken, NotBothAsleep, Asleep, Returned, Called, Min, RB_ABORT,
     RB_READER_UNBLOCK, RB_WRITER_FINISHED
<1>5. QED
  BY <1>1, <1>2, <1>3, <1>4 DEF IInv

LEMMA WriteCheckInv ==
  ASSUME NoStrayGive, IInv, ~halted, WriteCheck
  PROVE  IInv'
<1> USE DEF WriteCheck
<1>0. /\ wr \in CallState
      /\ (IF wr.size > 0 THEN wr.size ELSE RB_WRITER_FINISHED) \in Int
  BY DEF IInv, TypeOK, CallState, RB_WRITER_FINISHED
<1>a. rd' \in CallState /\ wr' \in CallState
  BY <1>0 DEF IInv, TypeOK, CallState, Returned, Called, Min, Chunks
<1>b. ctl' \in [Controllers -> CtlState]
  BY <1>0 DEF IInv, TypeOK, CtlState, NotCalled, AllOps
<1>c. /\ fill_cnt' \in 0..Size /\ readptr' \in 0..Size /\ writeptr' \in 0..Size
      /\ mem' \in [0..Size-1 -> Nat] /\ put' \in Nat /\ got' \in Seq(Nat)
  BY <1>0 DEF IInv, TypeOK, CallState, Holders, Chunks, Holding, CtlHolding, Min
<1>d. /\ lock' \in Tasks \cup {Free} /\ halted' \in BOOLEAN
      /\ can_read' \in BOOLEAN /\ can_write' \in BOOLEAN
      /\ abort_read' \in BOOLEAN /\ abort_write' \in BOOLEAN
      /\ writer_finished' \in BOOLEAN /\ reader_unblock' \in BOOLEAN
  BY <1>0 DEF IInv, TypeOK, TakeLock, GiveLock, Tasks
<1>1. TypeOK'
  BY <1>0, <1>a, <1>b, <1>c, <1>d DEF TypeOK
<1>2. Holders' /\ RunningOps'
  BY <1>0 DEF NoStrayGive, IInv, TypeOK, CallState, Holders, RunningOps, Holding,
     CtlHolding, TakeLock, GiveLock, Returned, Called, NotCalled, Reader, Writer, Free,
     IsAbort, IsReset
<1>3. Chunks' /\ PointersAgree' /\ Contents' /\ InOrder'
  BY <1>0 DEF IInv, TypeOK, CallState, Holders, Holding, CtlHolding, Chunks, Stored,
     RdPending, WrPending, PointersAgree, Contents, InOrder, Returned, Called, Min
<1>4. ReportSoFar' /\ EmptyOrToken' /\ NotBothAsleep'
  BY <1>0 DEF IInv, TypeOK, CallState, Holders, Holding, CtlHolding, Chunks, ReportSoFar,
     ReadReport, EmptyOrToken, NotBothAsleep, Asleep, Returned, Called, Min, RB_ABORT,
     RB_READER_UNBLOCK, RB_WRITER_FINISHED
<1>5. QED
  BY <1>1, <1>2, <1>3, <1>4 DEF IInv

LEMMA WriteWakeInv ==
  ASSUME NoStrayGive, IInv, ~halted, WriteWake
  PROVE  IInv'
<1> USE DEF WriteWake
<1>a. rd' \in CallState /\ wr' \in CallState
  BY DEF IInv, TypeOK, CallState, Returned, Called, Min, Chunks
<1>b. ctl' \in [Controllers -> CtlState]
  BY DEF IInv, TypeOK, CtlState, NotCalled, AllOps
<1>c. /\ fill_cnt' \in 0..Size /\ readptr' \in 0..Size /\ writeptr' \in 0..Size
      /\ mem' \in [0..Size-1 -> Nat] /\ put' \in Nat /\ got' \in Seq(Nat)
  BY DEF IInv, TypeOK, CallState, Holders, Chunks, Holding, CtlHolding, Min
<1>d. /\ lock' \in Tasks \cup {Free} /\ halted' \in BOOLEAN
      /\ can_read' \in BOOLEAN /\ can_write' \in BOOLEAN
      /\ abort_read' \in BOOLEAN /\ abort_write' \in BOOLEAN
      /\ writer_finished' \in BOOLEAN /\ reader_unblock' \in BOOLEAN
  BY DEF IInv, TypeOK, TakeLock, GiveLock, Tasks
<1>1. TypeOK'
  BY <1>a, <1>b, <1>c, <1>d DEF TypeOK
<1>2. Holders' /\ RunningOps'
  BY DEF NoStrayGive, IInv, TypeOK, CallState, Holders, RunningOps, Holding, CtlHolding,
     TakeLock, GiveLock, Returned, Called, NotCalled, Reader, Writer, Free, IsAbort,
     IsReset
<1>3. Chunks' /\ PointersAgree' /\ Contents' /\ InOrder'
  BY DEF IInv, TypeOK, CallState, Holders, Holding, CtlHolding, Chunks, Stored, RdPending,
     WrPending, PointersAgree, Contents, InOrder, Returned, Called, Min
<1>4. ReportSoFar' /\ EmptyOrToken' /\ NotBothAsleep'
  BY DEF IInv, TypeOK, CallState, Holders, Holding, CtlHolding, Chunks, ReportSoFar,
     ReadReport, EmptyOrToken, NotBothAsleep, Asleep, Returned, Called, Min, RB_ABORT,
     RB_READER_UNBLOCK, RB_WRITER_FINISHED
<1>5. QED
  BY <1>1, <1>2, <1>3, <1>4 DEF IInv

LEMMA WriteTimeoutInv ==
  ASSUME NoStrayGive, IInv, ~halted, WriteTimeout
  PROVE  IInv'
<1> USE DEF WriteTimeout
<1>a. rd' \in CallState /\ wr' \in CallState
  BY DEF IInv, TypeOK, CallState, Returned, Called, Min, Chunks
<1>b. ctl' \in [Controllers -> CtlState]
  BY DEF IInv, TypeOK, CtlState, NotCalled, AllOps
<1>c. /\ fill_cnt' \in 0..Size /\ readptr' \in 0..Size /\ writeptr' \in 0..Size
      /\ mem' \in [0..Size-1 -> Nat] /\ put' \in Nat /\ got' \in Seq(Nat)
  BY DEF IInv, TypeOK, CallState, Holders, Chunks, Holding, CtlHolding, Min
<1>d. /\ lock' \in Tasks \cup {Free} /\ halted' \in BOOLEAN
      /\ can_read' \in BOOLEAN /\ can_write' \in BOOLEAN
      /\ abort_read' \in BOOLEAN /\ abort_write' \in BOOLEAN
      /\ writer_finished' \in BOOLEAN /\ reader_unblock' \in BOOLEAN
  BY DEF IInv, TypeOK, TakeLock, GiveLock, Tasks
<1>1. TypeOK'
  BY <1>a, <1>b, <1>c, <1>d DEF TypeOK
<1>2. Holders' /\ RunningOps'
  BY DEF NoStrayGive, IInv, TypeOK, CallState, Holders, RunningOps, Holding, CtlHolding,
     TakeLock, GiveLock, Returned, Called, NotCalled, Reader, Writer, Free, IsAbort,
     IsReset
<1>3. Chunks' /\ PointersAgree' /\ Contents' /\ InOrder'
  BY DEF IInv, TypeOK, CallState, Holders, Holding, CtlHolding, Chunks, Stored, RdPending,
     WrPending, PointersAgree, Contents, InOrder, Returned, Called, Min
<1>4. ReportSoFar' /\ EmptyOrToken' /\ NotBothAsleep'
  BY DEF IInv, TypeOK, CallState, Holders, Holding, CtlHolding, Chunks, ReportSoFar,
     ReadReport, EmptyOrToken, NotBothAsleep, Asleep, Returned, Called, Min, RB_ABORT,
     RB_READER_UNBLOCK, RB_WRITER_FINISHED
<1>5. QED
  BY <1>1, <1>2, <1>3, <1>4 DEF IInv

LEMMA WriteWokenInv ==
  ASSUME NoStrayGive, IInv, ~halted, WriteWoken
  PROVE  IInv'
<1> USE DEF WriteWoken
<1>a. rd' \in CallState /\ wr' \in CallState
  BY DEF IInv, TypeOK, CallState, Returned, Called, Min, Chunks
<1>b. ctl' \in [Controllers -> CtlState]
  BY DEF IInv, TypeOK, CtlState, NotCalled, AllOps
<1>c. /\ fill_cnt' \in 0..Size /\ readptr' \in 0..Size /\ writeptr' \in 0..Size
      /\ mem' \in [0..Size-1 -> Nat] /\ put' \in Nat /\ got' \in Seq(Nat)
  BY DEF IInv, TypeOK, CallState, Holders, Chunks, Holding, CtlHolding, Min
<1>d. /\ lock' \in Tasks \cup {Free} /\ halted' \in BOOLEAN
      /\ can_read' \in BOOLEAN /\ can_write' \in BOOLEAN
      /\ abort_read' \in BOOLEAN /\ abort_write' \in BOOLEAN
      /\ writer_finished' \in BOOLEAN /\ reader_unblock' \in BOOLEAN
  BY DEF IInv, TypeOK, TakeLock, GiveLock, Tasks
<1>1. TypeOK'
  BY <1>a, <1>b, <1>c, <1>d DEF TypeOK
<1>2. Holders' /\ RunningOps'
  BY DEF NoStrayGive, IInv, TypeOK, CallState, Holders, RunningOps, Holding, CtlHolding,
     TakeLock, GiveLock, Returned, Called, NotCalled, Reader, Writer, Free, IsAbort,
     IsReset
<1>3. Chunks' /\ PointersAgree' /\ Contents' /\ InOrder'
  BY DEF IInv, TypeOK, CallState, Holders, Holding, CtlHolding, Chunks, Stored, RdPending,
     WrPending, PointersAgree, Contents, InOrder, Returned, Called, Min
<1>4. ReportSoFar' /\ EmptyOrToken' /\ NotBothAsleep'
  BY DEF IInv, TypeOK, CallState, Holders, Holding, CtlHolding, Chunks, ReportSoFar,
     ReadReport, EmptyOrToken, NotBothAsleep, Asleep, Returned, Called, Min, RB_ABORT,
     RB_READER_UNBLOCK, RB_WRITER_FINISHED
<1>5. QED
  BY <1>1, <1>2, <1>3, <1>4 DEF IInv

LEMMA WriteUnlockInv ==
  ASSUME NoStrayGive, IInv, ~halted, WriteUnlock
  PROVE  IInv'
<1> USE DEF WriteUnlock
<1>a. rd' \in CallState /\ wr' \in CallState
  BY DEF IInv, TypeOK, CallState, Returned, Called, Min, Chunks
<1>b. ctl' \in [Controllers -> CtlState]
  BY DEF IInv, TypeOK, CtlState, NotCalled, AllOps
<1>c. /\ fill_cnt' \in 0..Size /\ readptr' \in 0..Size /\ writeptr' \in 0..Size
      /\ mem' \in [0..Size-1 -> Nat] /\ put' \in Nat /\ got' \in Seq(Nat)
  BY DEF IInv, TypeOK, CallState, Holders, Chunks, Holding, CtlHolding, Min
<1>d. /\ lock' \in Tasks \cup {Free} /\ halted' \in BOOLEAN
      /\ can_read' \in BOOLEAN /\ can_write' \in BOOLEAN
      /\ abort_read' \in BOOLEAN /\ abort_write' \in BOOLEAN
      /\ writer_finished' \in BOOLEAN /\ reader_unblock' \in BOOLEAN
  BY DEF IInv, TypeOK, TakeLock, GiveLock, Tasks
<1>1. TypeOK'
  BY <1>a, <1>b, <1>c, <1>d DEF TypeOK
<1>2. Holders' /\ RunningOps'
  BY DEF NoStrayGive, IInv, TypeOK, CallState, Holders, RunningOps, Holding, CtlHolding,
     TakeLock, GiveLock, Returned, Called, NotCalled, Reader, Writer, Free, IsAbort,
     IsReset
<1>3. Chunks' /\ PointersAgree' /\ Contents' /\ InOrder'
  BY DEF IInv, TypeOK, CallState, Holders, Holding, CtlHolding, Chunks, Stored, RdPending,
     WrPending, PointersAgree, Contents, InOrder, Returned, Called, Min
<1>4. ReportSoFar' /\ EmptyOrToken' /\ NotBothAsleep'
  BY DEF IInv, TypeOK, CallState, Holders, Holding, CtlHolding, Chunks, ReportSoFar,
     ReadReport, EmptyOrToken, NotBothAsleep, Asleep, Returned, Called, Min, RB_ABORT,
     RB_READER_UNBLOCK, RB_WRITER_FINISHED
<1>5. QED
  BY <1>1, <1>2, <1>3, <1>4 DEF IInv

LEMMA CtlCallInv ==
  ASSUME NoStrayGive, IInv, ~halted, NEW c \in Controllers, NEW op \in Ops, CtlCall(c, op)
  PROVE  IInv'
<1> USE DEF CtlCall, IsReset
<1>a. rd' \in CallState /\ wr' \in CallState
  BY DEF IInv, TypeOK, CallState, Returned, Called, Min, Chunks
<1>b. ctl' \in [Controllers -> CtlState]
  BY DEF IInv, TypeOK, CtlState, NotCalled, AllOps
<1>c. /\ fill_cnt' \in 0..Size /\ readptr' \in 0..Size /\ writeptr' \in 0..Size
      /\ mem' \in [0..Size-1 -> Nat] /\ put' \in Nat /\ got' \in Seq(Nat)
  BY DEF IInv, TypeOK, CallState, Holders, Chunks, Holding, CtlHolding, Min
<1>d. /\ lock' \in Tasks \cup {Free} /\ halted' \in BOOLEAN
      /\ can_read' \in BOOLEAN /\ can_write' \in BOOLEAN
      /\ abort_read' \in BOOLEAN /\ abort_write' \in BOOLEAN
      /\ writer_finished' \in BOOLEAN /\ reader_unblock' \in BOOLEAN
  BY DEF IInv, TypeOK, TakeLock, GiveLock, Tasks
<1>1. TypeOK'
  BY <1>a, <1>b, <1>c, <1>d DEF TypeOK
<1>2. Holders' /\ RunningOps'
  BY DEF NoStrayGive, IInv, TypeOK, CallState, Holders, RunningOps, Holding, CtlHolding,
     TakeLock, GiveLock, Returned, Called, NotCalled, Reader, Writer, Free, IsAbort,
     IsReset
<1>3. Chunks' /\ PointersAgree' /\ Contents' /\ InOrder'
  BY DEF IInv, TypeOK, CallState, Holders, Holding, CtlHolding, Chunks, Stored, RdPending,
     WrPending, PointersAgree, Contents, InOrder, Returned, Called, Min
<1>4. ReportSoFar' /\ EmptyOrToken' /\ NotBothAsleep'
  BY DEF IInv, TypeOK, CallState, Holders, Holding, CtlHolding, Chunks, ReportSoFar,
     ReadReport, EmptyOrToken, NotBothAsleep, Asleep, Returned, Called, Min, RB_ABORT,
     RB_READER_UNBLOCK, RB_WRITER_FINISHED
<1>5. QED
  BY <1>1, <1>2, <1>3, <1>4 DEF IInv

LEMMA CtlFlagInv ==
  ASSUME NoStrayGive, IInv, ~halted, NEW c \in Controllers, CtlFlag(c)
  PROVE  IInv'
<1> USE DEF CtlFlag
<1>a. rd' \in CallState /\ wr' \in CallState
  BY DEF IInv, TypeOK, CallState, Returned, Called, Min, Chunks
<1>b. ctl' \in [Controllers -> CtlState]
  BY DEF IInv, TypeOK, CtlState, NotCalled, AllOps
<1>c. /\ fill_cnt' \in 0..Size /\ readptr' \in 0..Size /\ writeptr' \in 0..Size
      /\ mem' \in [0..Size-1 -> Nat] /\ put' \in Nat /\ got' \in Seq(Nat)
  BY DEF IInv, TypeOK, CallState, Holders, Chunks, Holding, CtlHolding, Min
<1>d. /\ lock' \in Tasks \cup {Free} /\ halted' \in BOOLEAN
      /\ can_read' \in BOOLEAN /\ can_write' \in BOOLEAN
      /\ abort_read' \in BOOLEAN /\ abort_write' \in BOOLEAN
      /\ writer_finished' \in BOOLEAN /\ reader_unblock' \in BOOLEAN
  BY DEF IInv, TypeOK, TakeLock, GiveLock, Tasks
<1>1. TypeOK'
  BY <1>a, <1>b, <1>c, <1>d DEF TypeOK
<1>2. Holders' /\ RunningOps'
  BY DEF NoStrayGive, IInv, TypeOK, CallState, Holders, RunningOps, Holding, CtlHolding,
     TakeLock, GiveLock, Returned, Called, NotCalled, Reader, Writer, Free, IsAbort,
     IsReset
<1>3. Chunks' /\ PointersAgree' /\ Contents' /\ InOrder'
  BY DEF IInv, TypeOK, CallState, Holders, Holding, CtlHolding, Chunks, Stored, RdPending,
     WrPending, PointersAgree, Contents, InOrder, Returned, Called, Min
<1>4. ReportSoFar' /\ EmptyOrToken' /\ NotBothAsleep'
  BY DEF IInv, TypeOK, CallState, Holders, Holding, CtlHolding, Chunks, ReportSoFar,
     ReadReport, EmptyOrToken, NotBothAsleep, Asleep, Returned, Called, Min, RB_ABORT,
     RB_READER_UNBLOCK, RB_WRITER_FINISHED
<1>5. QED
  BY <1>1, <1>2, <1>3, <1>4 DEF IInv

LEMMA CtlGiveInv ==
  ASSUME NoStrayGive, IInv, ~halted, NEW c \in Controllers, CtlGive(c)
  PROVE  IInv'
<1> USE DEF CtlGive
<1>0. /\ ctl[c].op \in Ops /\ ctl[c] \in CtlState
      /\ ctl'[c] = NotCalled \/ (ctl'[c] = [ctl[c] EXCEPT !.pc = "stray"] /\ IsAbort(ctl[c].op))
      /\ \A d \in Controllers \ {c} : ctl'[d] = ctl[d]
  BY DEF IInv, TypeOK, RunningOps
<1>a. rd' \in CallState /\ wr' \in CallState
  BY <1>0 DEF IInv, TypeOK, CallState, Returned, Called, Min, Chunks
<1>b. ctl' \in [Controllers -> CtlState]
  BY <1>0 DEF IInv, TypeOK, CtlState, NotCalled, AllOps
<1>c. /\ fill_cnt' \in 0..Size /\ readptr' \in 0..Size /\ writeptr' \in 0..Size
      /\ mem' \in [0..Size-1 -> Nat] /\ put' \in Nat /\ got' \in Seq(Nat)
  BY <1>0 DEF IInv, TypeOK, CallState, Holders, Chunks, Holding, CtlHolding, Min
<1>d. /\ lock' \in Tasks \cup {Free} /\ halted' \in BOOLEAN
      /\ can_read' \in BOOLEAN /\ can_write' \in BOOLEAN
      /\ abort_read' \in BOOLEAN /\ abort_write' \in BOOLEAN
      /\ writer_finished' \in BOOLEAN /\ reader_unblock' \in BOOLEAN
  BY <1>0 DEF IInv, TypeOK, TakeLock, GiveLock, Tasks
<1>1. TypeOK'
  BY <1>0, <1>a, <1>b, <1>c, <1>d DEF TypeOK
<1>2. Holders' /\ RunningOps'
  <2>1. \A d \in Controllers : CtlHolding(d)' <=> CtlHolding(d)
    BY <1>0 DEF CtlHolding, NotCalled, CtlState
  <2>2. RunningOps'
    BY <1>0 DEF IInv, RunningOps, NotCalled, CtlState
  <2> QED
    BY <2>1, <2>2 DEF IInv, Holders, Holding
<1>3. Chunks' /\ PointersAgree' /\ Contents' /\ InOrder'
  BY <1>0 DEF IInv, TypeOK, CallState, Holders, Holding, CtlHolding, Chunks, Stored,
     RdPending, WrPending, PointersAgree, Contents, InOrder, Returned, Called, Min
<1>4. ReportSoFar' /\ EmptyOrToken' /\ NotBothAsleep'
  BY <1>0 DEF IInv, TypeOK, CallState, Holders, Holding, CtlHolding, Chunks, ReportSoFar,
     ReadReport, EmptyOrToken, NotBothAsleep, Asleep, Returned, Called, Min, RB_ABORT,
     RB_READER_UNBLOCK, RB_WRITER_FINISHED
<1>5. QED
  BY <1>1, <1>2, <1>3, <1>4 DEF IInv

LEMMA CtlStrayGiveInv ==
  ASSUME NoStrayGive, IInv, ~halted, NEW c \in Controllers, CtlStrayGive(c)
  PROVE  IInv'
<1> USE DEF CtlStrayGive
<1>a. rd' \in CallState /\ wr' \in CallState
  BY DEF IInv, TypeOK, CallState, Returned, Called, Min, Chunks
<1>b. ctl' \in [Controllers -> CtlState]
  BY DEF IInv, TypeOK, CtlState, NotCalled, AllOps
<1>c. /\ fill_cnt' \in 0..Size /\ readptr' \in 0..Size /\ writeptr' \in 0..Size
      /\ mem' \in [0..Size-1 -> Nat] /\ put' \in Nat /\ got' \in Seq(Nat)
  BY DEF IInv, TypeOK, CallState, Holders, Chunks, Holding, CtlHolding, Min
<1>d. /\ lock' \in Tasks \cup {Free} /\ halted' \in BOOLEAN
      /\ can_read' \in BOOLEAN /\ can_write' \in BOOLEAN
      /\ abort_read' \in BOOLEAN /\ abort_write' \in BOOLEAN
      /\ writer_finished' \in BOOLEAN /\ reader_unblock' \in BOOLEAN
  BY DEF IInv, TypeOK, TakeLock, GiveLock, Tasks
<1>1. TypeOK'
  BY <1>a, <1>b, <1>c, <1>d DEF TypeOK
<1>2. Holders' /\ RunningOps'
  BY SMTT(30) DEF NoStrayGive, IInv, TypeOK, CallState, Holders, RunningOps, Holding, CtlHolding,
     TakeLock, GiveLock, Returned, Called, NotCalled, Reader, Writer, Free, IsAbort,
     IsReset
<1>3. Chunks' /\ PointersAgree' /\ Contents' /\ InOrder'
  BY DEF IInv, TypeOK, CallState, Holders, Holding, CtlHolding, Chunks, Stored, RdPending,
     WrPending, PointersAgree, Contents, InOrder, Returned, Called, Min
<1>4. ReportSoFar' /\ EmptyOrToken' /\ NotBothAsleep'
  BY DEF IInv, TypeOK, CallState, Holders, Holding, CtlHolding, Chunks, ReportSoFar,
     ReadReport, EmptyOrToken, NotBothAsleep, Asleep, Returned, Called, Min, RB_ABORT,
     RB_READER_UNBLOCK, RB_WRITER_FINISHED
<1>5. QED
  BY <1>1, <1>2, <1>3, <1>4 DEF IInv

LEMMA CtlLockInv ==
  ASSUME NoStrayGive, IInv, ~halted, NEW c \in Controllers, CtlLock(c)
  PROVE  IInv'
<1> USE DEF CtlLock
<1>a. rd' \in CallState /\ wr' \in CallState
  BY DEF IInv, TypeOK, CallState, Returned, Called, Min, Chunks
<1>b. ctl' \in [Controllers -> CtlState]
  BY SMTT(30) DEF IInv, TypeOK, CtlState, NotCalled, AllOps
<1>c. /\ fill_cnt' \in 0..Size /\ readptr' \in 0..Size /\ writeptr' \in 0..Size
      /\ mem' \in [0..Size-1 -> Nat] /\ put' \in Nat /\ got' \in Seq(Nat)
  BY DEF IInv, TypeOK, CallState, Holders, Chunks, Holding, CtlHolding, Min
<1>d. /\ lock' \in Tasks \cup {Free} /\ halted' \in BOOLEAN
      /\ can_read' \in BOOLEAN /\ can_write' \in BOOLEAN
      /\ abort_read' \in BOOLEAN /\ abort_write' \in BOOLEAN
      /\ writer_finished' \in BOOLEAN /\ reader_unblock' \in BOOLEAN
  BY DEF IInv, TypeOK, TakeLock, GiveLock, Tasks
<1>1. TypeOK'
  BY <1>a, <1>b, <1>c, <1>d DEF TypeOK
<1>2. Holders' /\ RunningOps'
  BY SMTT(40) DEF NoStrayGive, IInv, TypeOK, CallState, Holders, RunningOps, Holding, CtlHolding,
     TakeLock, GiveLock, Returned, Called, NotCalled, Reader, Writer, Free, IsAbort,
     IsReset
<1>3. Chunks' /\ PointersAgree' /\ Contents' /\ InOrder'
  BY DEF IInv, TypeOK, CallState, Holders, Holding, CtlHolding, Chunks, Stored, RdPending,
     WrPending, PointersAgree, Contents, InOrder, Returned, Called, Min
<1>4. ReportSoFar' /\ EmptyOrToken' /\ NotBothAsleep'
  BY DEF IInv, TypeOK, CallState, Holders, Holding, CtlHolding, Chunks, ReportSoFar,
     ReadReport, EmptyOrToken, NotBothAsleep, Asleep, Returned, Called, Min, RB_ABORT,
     RB_READER_UNBLOCK, RB_WRITER_FINISHED
<1>5. QED
  BY <1>1, <1>2, <1>3, <1>4 DEF IInv

LEMMA CtlResetInv ==
  ASSUME NoStrayGive, IInv, ~halted, NEW c \in Controllers, CtlReset(c)
  PROVE  IInv'
<1> USE DEF CtlReset
<1>a. rd' \in CallState /\ wr' \in CallState
  BY DEF IInv, TypeOK, CallState, Returned, Called, Min, Chunks
<1>b. ctl' \in [Controllers -> CtlState]
  BY DEF IInv, TypeOK, CtlState, NotCalled, AllOps
<1>c. /\ fill_cnt' \in 0..Size /\ readptr' \in 0..Size /\ writeptr' \in 0..Size
      /\ mem' \in [0..Size-1 -> Nat] /\ put' \in Nat /\ got' \in Seq(Nat)
  BY DEF IInv, TypeOK, CallState, Holders, Chunks, Holding, CtlHolding, Min
<1>d. /\ lock' \in Tasks \cup {Free} /\ halted' \in BOOLEAN
      /\ can_read' \in BOOLEAN /\ can_write' \in BOOLEAN
      /\ abort_read' \in BOOLEAN /\ abort_write' \in BOOLEAN
      /\ writer_finished' \in BOOLEAN /\ reader_unblock' \in BOOLEAN
  BY DEF IInv, TypeOK, TakeLock, GiveLock, Tasks
<1>1. TypeOK'
  BY <1>a, <1>b, <1>c, <1>d DEF TypeOK
<1>2. Holders' /\ RunningOps'
  BY SMTT(40) DEF NoStrayGive, IInv, TypeOK, CallState, Holders, RunningOps, Holding, CtlHolding,
     TakeLock, GiveLock, Returned, Called, NotCalled, Reader, Writer, Free, IsAbort,
     IsReset
<1>3. Chunks' /\ PointersAgree' /\ Contents' /\ InOrder'
  <2>0. put' = 0 /\ Len(got') = 0
    BY EmptyStream
  <2>1. put' = 0 /\ Len(got') = 0 /\ Stored' = 0
    <3> HIDE DEF CtlReset
    <3> QED
      BY <2>0 DEF Stored
  <2>2. rd.pc \notin {"copy", "count"} /\ wr.pc \notin {"copy", "count"}
    BY DEF IInv, Holders, Holding, CtlHolding, Reader, Writer
  <2>3. Chunks'
    BY <2>1, <2>2 DEF Chunks, RdPending, WrPending
  <2>4. PointersAgree'
    BY <2>1 DEF PointersAgree
  <2>5. Contents' /\ InOrder'
    BY <2>1, AheadType DEF Contents, InOrder
  <2> QED
    BY <2>3, <2>4, <2>5
<1>4. ReportSoFar' /\ EmptyOrToken' /\ NotBothAsleep'
  BY DEF IInv, TypeOK, CallState, Holders, Holding, CtlHolding, Chunks, ReportSoFar,
     ReadReport, EmptyOrToken, NotBothAsleep, Asleep, Returned, Called, Min, RB_ABORT,
     RB_READER_UNBLOCK, RB_WRITER_FINISHED
<1>5. QED
  BY <1>1, <1>2, <1>3, <1>4 DEF IInv

LEMMA CtlUnlockInv ==
  ASSUME NoStrayGive, IInv, ~halted, NEW c \in Controllers, CtlUnlock(c)
  PROVE  IInv'
<1> USE DEF CtlUnlock
<1>a. rd' \in CallState /\ wr' \in CallState
  BY DEF IInv, TypeOK, CallState, Returned, Called, Min, Chunks
<1>b. ctl' \in [Controllers -> CtlState]
  BY SMTT(30) DEF IInv, TypeOK, CtlState, NotCalled, AllOps
<1>c. /\ fill_cnt' \in 0..Size /\ readptr' \in 0..Size /\ writeptr' \in 0..Size
      /\ mem' \in [0..Size-1 -> Nat] /\ put' \in Nat /\ got' \in Seq(Nat)
  BY DEF IInv, TypeOK, CallState, Holders, Chunks, Holding, CtlHolding, Min
<1>d. /\ lock' \in Tasks \cup {Free} /\ halted' \in BOOLEAN
      /\ can_read' \in BOOLEAN /\ can_write' \in BOOLEAN
      /\ abort_read' \in BOOLEAN /\ abort_write' \in BOOLEAN
      /\ writer_finished' \in BOOLEAN /\ reader_unblock' \in BOOLEAN
  BY DEF IInv, TypeOK, TakeLock, GiveLock, Tasks
<1>1. TypeOK'
  BY <1>a, <1>b, <1>c, <1>d DEF TypeOK
<1>2. Holders' /\ RunningOps'
  BY DEF NoStrayGive, IInv, TypeOK, CallState, Holders, RunningOps, Holding, CtlHolding,
     TakeLock, GiveLock, Returned, Called, NotCalled, Reader, Writer, Free, IsAbort,
     IsReset
<1>3. Chunks' /\ PointersAgree' /\ Contents' /\ InOrder'
  BY DEF IInv, TypeOK, CallState, Holders, Holding, CtlHolding, Chunks, Stored, RdPending,
     WrPending, PointersAgree, Contents, InOrder, Returned, Called, Min
<1>4. ReportSoFar' /\ EmptyOrToken' /\ NotBothAsleep'
  BY DEF IInv, TypeOK, CallState, Holders, Holding, CtlHolding, Chunks, ReportSoFar,
     ReadReport, EmptyOrToken, NotBothAsleep, Asleep, Returned, Called, Min, RB_ABORT,
     RB_READER_UNBLOCK, RB_WRITER_FINISHED
<1>5. QED
  BY <1>1, <1>2, <1>3, <1>4 DEF IInv

\* The chunk rb_read copies: at most fill_cnt bytes, the next ones of the stream.
LEMMA ReadChunk ==
  ASSUME IInv, rd.pc = "copy"
  PROVE  LET n == rd.size
             chunk == [i \in 1..n |-> mem[Slot(readptr, i - 1)]]
         IN  /\ n \in Nat /\ n <= fill_cnt /\ n <= rd.len /\ fill_cnt \in 0..Size /\ n \in 0..Size
             /\ n = Min(fill_cnt, rd.len) /\ wr.pc \notin {"copy", "count"}
             /\ Stored = fill_cnt
             /\ readptr \in 0..Size /\ writeptr \in 0..Size /\ mem \in [0..Size-1 -> Nat]
             /\ got \in Seq(Nat) /\ put \in Nat
             /\ \A i \in 1..n : chunk[i] \in Nat /\ chunk[i] = Len(got) + i
<1> DEFINE n == rd.size
           chunk == [i \in 1..n |-> mem[Slot(readptr, i - 1)]]
<1>1. /\ n \in Nat /\ n <= fill_cnt /\ n <= rd.len /\ fill_cnt \in 0..Size /\ n \in 0..Size
      /\ n = Min(fill_cnt, rd.len) /\ rd.pc = "copy" /\ wr.pc \notin {"copy", "count"}
      /\ Stored = fill_cnt
      /\ readptr \in 0..Size /\ writeptr \in 0..Size /\ mem \in [0..Size-1 -> Nat]
      /\ got \in Seq(Nat) /\ put \in Nat
  <2>1. /\ rd.pc = "copy" /\ n = Min(fill_cnt, rd.len) /\ rd.len \in Nat /\ fill_cnt \in 0..Size
        /\ n \in Nat
    BY DEF IInv, TypeOK, CallState, Chunks
  <2>2. wr.pc \notin {"copy", "count"}
    BY <2>1 DEF IInv, Holders, Holding, Reader, Writer
  <2>3. n <= fill_cnt /\ n <= rd.len /\ n \in 0..Size
    BY <2>1 DEF Min
  <2>4. Stored \in Int /\ Stored = fill_cnt
    BY <2>1, <2>2 DEF IInv, Chunks, WrPending, RdPending
  <2> QED
    BY <2>1, <2>2, <2>3, <2>4 DEF IInv, TypeOK
<1>2. \A i \in 1..n : chunk[i] \in Nat /\ chunk[i] = Len(got) + i
  <2> SUFFICES ASSUME NEW i \in 1..n PROVE chunk[i] \in Nat /\ chunk[i] = Len(got) + i
    OBVIOUS
  <2>1. i - 1 \in 0..Size-1 /\ i - 1 < Stored
    BY <1>1
  <2>2. Slot(readptr, i - 1) \in 0..Size-1 /\ Ahead(readptr, Slot(readptr, i - 1)) = i - 1
    BY <1>1, <2>1, SlotType
  <2>3. mem[Slot(readptr, i - 1)] = Len(got) + (i - 1) + 1
    BY <2>1, <2>2 DEF IInv, Contents
  <2>4. Len(got) \in Nat
    BY <1>1, LenProperties
  <2> QED
    BY <1>1, <2>2, <2>3, <2>4
<1> QED
  BY <1>1, <1>2

\* Copying a chunk out: the slots between the pointers keep their bytes, and the
\* reader gets the next ones.
LEMMA ReadCopyInv ==
  ASSUME NoStrayGive, IInv, ~halted, ReadCopy
  PROVE  IInv'
<1> DEFINE n == rd.size
           chunk == [i \in 1..n |-> mem[Slot(readptr, i - 1)]]
<1>u. /\ readptr' = Advance(readptr, n) /\ rd' = [rd EXCEPT !.pc = "count", !.moved = rd.moved + n]
      /\ UNCHANGED <<fill_cnt, writeptr, mem, put, can_read, can_write, lock, halted, abort_read,
                     abort_write, writer_finished, reader_unblock, wr, ctl>>
  BY DEF ReadCopy
<1>c. got' = got \o chunk
  BY DEF ReadCopy
<1>h. rd.pc = "copy"
  BY DEF ReadCopy
<1>1. /\ n \in Nat /\ n <= fill_cnt /\ n <= rd.len /\ fill_cnt \in 0..Size /\ n \in 0..Size
      /\ n = Min(fill_cnt, rd.len) /\ rd.pc = "copy" /\ wr.pc \notin {"copy", "count"}
      /\ Stored = fill_cnt
      /\ readptr \in 0..Size /\ writeptr \in 0..Size /\ mem \in [0..Size-1 -> Nat]
      /\ got \in Seq(Nat) /\ put \in Nat
  BY <1>h, ReadChunk
<1>2. \A i \in 1..n : chunk[i] \in Nat /\ chunk[i] = Len(got) + i
  BY <1>h, ReadChunk
<1>3. chunk \in Seq(Nat) /\ Len(chunk) = n
  <2>1. chunk \in [1..n -> Nat]
    BY <1>2
  <2> HIDE DEF chunk
  <2> QED
    BY <1>1, <2>1, FunctionIsSeq
<1> HIDE DEF chunk
<1>4. /\ got' = got \o chunk /\ got' \in Seq(Nat) /\ Len(got') = Len(got) + n /\ Len(got) \in Nat
      /\ \A k \in 1..Len(got') : got'[k] = IF k <= Len(got) THEN got[k] ELSE chunk[k - Len(got)]
  BY <1>1, <1>3, <1>c, ConcatProperties, LenProperties
<1>5. Stored' = Stored - n /\ Stored' \in Int
  BY <1>1, <1>4, <1>u DEF Stored
<1>6. readptr' = Advance(readptr, n) /\ readptr' \in 0..Size
  BY <1>1, <1>u DEF Advance
<1>a. rd' \in CallState /\ wr' \in CallState /\ rd'.pc = "count" /\ rd'.size = n
  <2>1. rd \in CallState /\ wr \in CallState /\ rd.moved + n \in Nat
    BY SMTT(40), <1>1 DEF IInv, TypeOK, CallState
  <2>2. rd' = [rd EXCEPT !.pc = "count", !.moved = rd.moved + n] /\ wr' = wr
    BY <1>u
  <2> QED
    BY <2>1, <2>2 DEF CallState
<1>7. TypeOK'
  BY <1>1, <1>4, <1>6, <1>a, <1>u DEF IInv, TypeOK
<1>8. Holders' /\ RunningOps'
  BY <1>1, <1>a, <1>u DEF IInv, Holders, RunningOps, Holding, CtlHolding
<1>9. Chunks'
  <2>1. wr'.pc \notin {"copy", "count"} /\ WrPending' = 0 /\ RdPending' = n
    BY <1>1, <1>a, <1>u DEF WrPending, RdPending
  <2>2. rd'.len = rd.len
    BY <1>u DEF IInv, TypeOK, CallState
  <2> QED
    BY <1>1, <1>5, <1>a, <1>u, <2>1, <2>2 DEF Chunks
<1>10. PointersAgree'
  <2>1. readptr + Stored - writeptr \in {-Size, 0, Size, 2 * Size}
    BY DEF IInv, PointersAgree
  <2>2. Advance(readptr, n) + (Stored - n) - writeptr \in {-Size, 0, Size, 2 * Size}
    BY <1>1, <2>1, PointerSteps
  <2> QED
    BY <1>5, <1>6, <1>u, <2>2 DEF PointersAgree
<1>11. Contents'
  <2> SUFFICES ASSUME NEW s \in 0..Size-1, Ahead(readptr, s)' < Stored'
               PROVE  mem'[s] = Len(got') + Ahead(readptr, s)' + 1
    BY DEF Contents
  <2>1. Ahead(readptr, s)' = IF Ahead(readptr, s) >= n THEN Ahead(readptr, s) - n
                                                      ELSE Ahead(readptr, s) - n + Size
    BY <1>1, <1>6, <1>u, AheadAdvance DEF Ahead
  <2>2. Ahead(readptr, s) \in 0..Size-1
    BY <1>1, AheadType
  <2>3. Ahead(readptr, s) >= n /\ Ahead(readptr, s) < Stored
    BY <1>1, <1>5, <2>1, <2>2, SMTT(30)
  <2>4. mem[s] = Len(got) + Ahead(readptr, s) + 1
    BY <2>3 DEF IInv, Contents
  <2> QED
    BY SMTT(40), <1>1, <1>4, <1>u, <2>1, <2>2, <2>3, <2>4
<1>12. InOrder'
  <2> SUFFICES ASSUME NEW k \in 1..Len(got') PROVE got'[k] = k
    BY DEF InOrder
  <2>1. CASE k <= Len(got)
    BY <1>1, <1>4, <2>1 DEF IInv, InOrder
  <2>2. CASE k > Len(got)
    <3>1. k - Len(got) \in 1..n
      BY <1>1, <1>4, <2>2
    <3>2. got'[k] = chunk[k - Len(got)]
      BY <1>4, <2>2
    <3> QED
      BY <1>2, <1>4, <3>1, <3>2
  <2> QED
    BY <1>4, <2>1, <2>2
<1>13. ReportSoFar' /\ EmptyOrToken' /\ NotBothAsleep'
  BY <1>1, <1>a, <1>u DEF IInv, TypeOK, CallState, ReportSoFar, ReadReport, EmptyOrToken,
     NotBothAsleep, Asleep
<1> QED
  BY <1>7, <1>8, <1>9, <1>10, <1>11, <1>12, <1>13 DEF IInv

\* The chunk rb_write copies: at most the free slots.
LEMMA WriteChunk ==
  ASSUME IInv, wr.pc = "copy"
  PROVE  LET n == wr.size
         IN  /\ n \in Nat /\ n <= Size - fill_cnt /\ n <= wr.len /\ fill_cnt \in 0..Size
             /\ n \in 0..Size /\ n = Min(Size - fill_cnt, wr.len)
             /\ rd.pc \notin {"copy", "count"} /\ Stored = fill_cnt
             /\ readptr \in 0..Size /\ writeptr \in 0..Size /\ mem \in [0..Size-1 -> Nat]
             /\ got \in Seq(Nat) /\ put \in Nat /\ Len(got) \in Nat
<1> DEFINE n == wr.size
<1>1. /\ n \in Nat /\ n <= Size - fill_cnt /\ n <= wr.len /\ fill_cnt \in 0..Size /\ n \in 0..Size
      /\ n = Min(Size - fill_cnt, wr.len) /\ wr.pc = "copy" /\ rd.pc \notin {"copy", "count"}
      /\ Stored = fill_cnt
      /\ readptr \in 0..Size /\ writeptr \in 0..Size /\ mem \in [0..Size-1 -> Nat]
      /\ got \in Seq(Nat) /\ put \in Nat /\ Len(got) \in Nat
  <2>1. /\ wr.pc = "copy" /\ n = Min(Size - fill_cnt, wr.len) /\ wr.len \in Nat
        /\ fill_cnt \in 0..Size /\ n \in Nat
    BY DEF IInv, TypeOK, CallState, Chunks
  <2>2. rd.pc \notin {"copy", "count"}
    BY <2>1 DEF IInv, Holders, Holding, Reader, Writer
  <2>3. n <= Size - fill_cnt /\ n <= wr.len /\ n \in 0..Size
    BY <2>1 DEF Min
  <2>4. Stored = fill_cnt
    BY <2>1, <2>2 DEF IInv, Chunks, WrPending, RdPending
  <2> QED
    BY <2>1, <2>2, <2>3, <2>4, LenProperties DEF IInv, TypeOK
<1> QED
  BY <1>1

\* Copying a chunk in: it goes to the slots after the stored bytes.
LEMMA WriteCopyInv ==
  ASSUME NoStrayGive, IInv, ~halted, WriteCopy
  PROVE  IInv'
<1> DEFINE n == wr.size
<1>u. /\ put' = put + n /\ writeptr' = Advance(writeptr, n)
      /\ wr' = [wr EXCEPT !.pc = "count", !.moved = wr.moved + n]
      /\ UNCHANGED <<fill_cnt, readptr, got, can_read, can_write, lock, halted, abort_read,
                     abort_write, writer_finished, reader_unblock, rd, ctl>>
  BY DEF WriteCopy
<1>h. wr.pc = "copy"
  BY DEF WriteCopy
<1>3. mem' = [s \in 0..Size-1 |-> IF Ahead(writeptr, s) < n THEN put + Ahead(writeptr, s) + 1
                                                           ELSE mem[s]]
  BY DEF WriteCopy
<1>1. /\ n \in Nat /\ n <= Size - fill_cnt /\ n <= wr.len /\ fill_cnt \in 0..Size /\ n \in 0..Size
      /\ n = Min(Size - fill_cnt, wr.len) /\ wr.pc = "copy" /\ rd.pc \notin {"copy", "count"}
      /\ Stored = fill_cnt
      /\ readptr \in 0..Size /\ writeptr \in 0..Size /\ mem \in [0..Size-1 -> Nat]
      /\ got \in Seq(Nat) /\ put \in Nat /\ Len(got) \in Nat
  BY <1>h, WriteChunk
<1>2. /\ put' = put + n /\ got' = got /\ readptr' = readptr /\ Stored' = Stored + n
      /\ writeptr' = Advance(writeptr, n) /\ writeptr' \in 0..Size
  <2>1. put' = put + n /\ got' = got /\ readptr' = readptr /\ writeptr' = Advance(writeptr, n)
    BY <1>u
  <2>2. Stored' = Stored + n
    BY <1>1, <2>1 DEF Stored
  <2>3. Advance(writeptr, n) \in 0..Size
    BY SMTT(40), <1>1 DEF Advance
  <2> QED
    BY <2>1, <2>2, <2>3
<1>4. mem' \in [0..Size-1 -> Nat]
  <2>1. \A s \in 0..Size-1 : Ahead(writeptr, s) \in Nat /\ put + Ahead(writeptr, s) + 1 \in Nat
    BY <1>1 DEF Ahead
  <2>2. \A s \in 0..Size-1 : mem'[s] \in Nat
    BY <1>1, <1>3, <2>1
  <2> QED
    BY <1>3, <2>2
<1>a. wr' \in CallState /\ rd' = rd /\ wr'.pc = "count" /\ wr'.size = n /\ wr'.len = wr.len
  <2>1. wr \in CallState /\ wr.moved + n \in Nat
    BY <1>1 DEF IInv, TypeOK, CallState
  <2>2. wr' = [wr EXCEPT !.pc = "count", !.moved = wr.moved + n] /\ rd' = rd
    BY <1>u
  <2> QED
    BY <2>1, <2>2 DEF CallState
<1>5. TypeOK'
  BY <1>1, <1>2, <1>4, <1>a, <1>u DEF IInv, TypeOK
<1>6. Holders' /\ RunningOps'
  BY <1>1, <1>a, <1>u DEF IInv, Holders, RunningOps, Holding, CtlHolding
<1>7. Chunks'
  <2>1. WrPending' = n /\ RdPending' = 0
    BY <1>1, <1>a DEF WrPending, RdPending
  <2> QED
    BY <1>1, <1>2, <1>a, <1>u, <2>1 DEF Chunks
<1>8. PointersAgree'
  <2>1. readptr + Stored - writeptr \in {-Size, 0, Size, 2 * Size}
    BY DEF IInv, PointersAgree
  <2>2. readptr + (Stored + n) - Advance(writeptr, n) \in {-Size, 0, Size, 2 * Size}
    BY <1>1, <2>1, PointerSteps
  <2> QED
    BY <1>2, <2>2 DEF PointersAgree
<1>9. Contents'
  <2> SUFFICES ASSUME NEW s \in 0..Size-1, Ahead(readptr, s) < Stored + n
               PROVE  mem'[s] = Len(got) + Ahead(readptr, s) + 1
    BY <1>2 DEF Contents, Ahead
  <2>1. Ahead(readptr, s) \in 0..Size-1 /\ Ahead(writeptr, s) \in 0..Size-1
    BY <1>1, AheadType
  <2>2. readptr + Stored - writeptr \in {-Size, 0, Size, 2 * Size}
    BY DEF IInv, PointersAgree
  <2>3. CASE Ahead(writeptr, s) < n
    <3>1. Ahead(readptr, s) = Stored + Ahead(writeptr, s)
      BY <1>1, <2>2, <2>3, WrittenSlots, SMTT(30)
    <3>2. mem'[s] = put + Ahead(writeptr, s) + 1
      BY <1>3, <2>3
    <3>3. put = Len(got) + Stored
      BY <1>1 DEF Stored
    <3> QED
      BY <1>1, <2>1, <3>1, <3>2, <3>3
  <2>4. CASE Ahead(writeptr, s) >= n
    <3>1. Ahead(readptr, s) < Stored
      BY <1>1, <2>2, <2>4, WrittenSlots
    <3>2. ~(Ahead(writeptr, s) < n)
      BY <1>1, <2>1, <2>4
    <3>3. mem'[s] = mem[s]
      BY <1>3, <3>2
    <3> QED
      BY <3>1, <3>3 DEF IInv, Contents
  <2> QED
    BY <1>1, <2>1, <2>3, <2>4, SMTT(30)
<1>10. InOrder'
  BY <1>2 DEF IInv, InOrder
<1>11. ReportSoFar' /\ EmptyOrToken' /\ NotBothAsleep'
  BY <1>1, <1>a, <1>u DEF IInv, ReportSoFar, ReadReport, EmptyOrToken, NotBothAsleep, Asleep
<1> QED
  BY <1>5, <1>6, <1>7, <1>8, <1>9, <1>10, <1>11 DEF IInv

---------------------------------------------------------------------------
(* The theorems.                                                            *)

LEMMA Inductive ==
  ASSUME NoStrayGive
  PROVE  IInv /\ [Next]_vars => IInv'
<1> SUFFICES ASSUME IInv, [Next]_vars PROVE IInv'
  OBVIOUS
<1>1. CASE UNCHANGED vars
  BY <1>1 DEF vars, IInv, TypeOK, Holders, RunningOps, Chunks, PointersAgree, Contents,
     InOrder,
     ReportSoFar, ReadReport, EmptyOrToken, NotBothAsleep, Asleep, Stored, WrPending, RdPending,
     Holding, CtlHolding, Ahead
<1>2. CASE ~halted /\ \E len \in 1..MaxReq, forever \in Waits : ReadCall(len, forever)
  BY <1>2, ReadCallInv
<1>3. CASE ~halted /\ \E len \in 1..MaxReq, forever \in Waits : WriteCall(len, forever)
  BY <1>3, WriteCallInv
<1>4. CASE ~halted /\ ReaderStep
  BY <1>4, ReadLockInv, ReadMeasureInv, ReadCopyInv, ReadCountInv, ReadYieldInv, ReadCheckInv,
     ReadWakeInv, ReadTimeoutInv, ReadWokenInv, ReadUnlockInv, ReadReturnInv DEF ReaderStep
<1>5. CASE ~halted /\ WriterStep
  BY <1>5, WriteLockInv, WriteMeasureInv, WriteCopyInv, WriteCountInv, WriteYieldInv,
     WriteCheckInv, WriteWakeInv, WriteTimeoutInv, WriteWokenInv, WriteUnlockInv DEF WriterStep
<1>6. CASE ~halted /\ \E c \in Controllers, op \in Ops : CtlCall(c, op)
  BY <1>6, CtlCallInv
<1>7. CASE ~halted /\ \E c \in Controllers : CtlStep(c)
  BY <1>7, CtlFlagInv, CtlGiveInv, CtlStrayGiveInv, CtlLockInv, CtlResetInv, CtlUnlockInv
     DEF CtlStep
<1> QED
  BY <1>1, <1>2, <1>3, <1>4, <1>5, <1>6, <1>7 DEF Next

THEOREM Invariance ==
  ASSUME NoStrayGive
  PROVE  Spec => []IInv
<1>1. QED
  BY InitInv, Inductive, PTL DEF Spec

\* Buffer, semaphores and tasks keep their types: fill_cnt and both pointers
\* stay within the buffer whatever the sizes of the requests.
THEOREM TypeCorrect ==
  ASSUME NoStrayGive
  PROVE  Spec => []TypeOK
<1>1. IInv => TypeOK
  BY DEF IInv
<1> QED
  BY <1>1, Invariance, PTL

\* rb_read, rb_write and _rb_reset exclude one another under rb->lock.
THEOREM MutexTheorem ==
  ASSUME NoStrayGive
  PROVE  Spec => []MutualExclusion
<1>1. IInv => MutualExclusion
  BY ControllersAssumption DEF IInv, Holders, MutualExclusion, Reader, Writer
<1> QED
  BY <1>1, Invariance, PTL

\* Whoever takes the lock finds fill_cnt, pointers and memory in agreement.
THEOREM ConsistencyTheorem ==
  ASSUME NoStrayGive
  PROVE  Spec => []BufferConsistent
<1>1. IInv => BufferConsistent
  <2> SUFFICES ASSUME IInv, lock = Free PROVE fill_cnt = Stored /\ fill_cnt \in 0..Size
    BY DEF IInv, BufferConsistent
  <2>1. rd.pc # "count" /\ wr.pc # "count"
    BY DEF IInv, Holders, Holding, Reader, Writer, Free
  <2> QED
    BY <2>1 DEF IInv, TypeOK, Chunks, WrPending, RdPending
<1> QED
  BY <1>1, Invariance, PTL

\* The reader gets the bytes in order, each once.
THEOREM OrderTheorem ==
  ASSUME NoStrayGive
  PROVE  Spec => []InOrder
<1>1. IInv => InOrder
  BY DEF IInv
<1> QED
  BY <1>1, Invariance, PTL

\* rb_read reports what it took.
THEOREM ReportTheorem ==
  ASSUME NoStrayGive
  PROVE  Spec => []ReadReport
<1>1. IInv => ReadReport
  BY DEF IInv, ReportSoFar
<1> QED
  BY <1>1, Invariance, PTL

\* rb_write's count follows the bytes it copies, and nobody ends the stream.
Written ==
  /\ ~writer_finished
  /\ wr.pc = "count" => wr.moved = wr.total + wr.size
  /\ wr.pc \notin {"idle", "count"} => wr.moved = wr.total
  /\ WriteReport

LEMMA WrittenStep ==
  ASSUME IInv, "finish" \notin Ops, Written, [Next]_vars
  PROVE  Written'
<1>t. /\ wr \in CallState /\ wr.len \in Nat /\ wr.size \in Nat /\ wr.moved \in Nat
      /\ wr.total \in Int
  BY DEF IInv, TypeOK, CallState
<1>1. CASE UNCHANGED <<wr, writer_finished>>
  BY <1>1 DEF Written, WriteReport
<1>2. CASE ReaderStep \/ \E len \in 1..MaxReq, forever \in Waits : ReadCall(len, forever)
  <2>1. CASE ReadLock \/ ReadMeasure \/ ReadCopy \/ ReadCount \/ ReadYield \/ ReadCheck
    BY <1>1, <2>1 DEF ReadLock, ReadMeasure, ReadCopy, ReadCount, ReadYield, ReadCheck, flagVars
  <2>2. CASE ReadWake \/ ReadTimeout \/ ReadWoken \/ ReadUnlock
    BY <1>1, <2>2 DEF ReadWake, ReadTimeout, ReadWoken, ReadUnlock, flagVars
  <2>3. CASE ReadReturn
    BY <1>1, <2>3 DEF ReadReturn
  <2>4. CASE \E len \in 1..MaxReq, forever \in Waits : ReadCall(len, forever)
    BY <1>1, <2>4 DEF ReadCall, flagVars
  <2> QED
    BY <1>2, <2>1, <2>2, <2>3, <2>4 DEF ReaderStep
<1>3. CASE \E len \in 1..MaxReq, forever \in Waits : WriteCall(len, forever)
  BY <1>3, <1>t DEF WriteCall, Returned, Called, RB_ABORT, flagVars, Written, WriteReport
<1>4. CASE WriterStep
  <2>1. CASE WriteLock \/ WriteMeasure \/ WriteYield \/ WriteWake
    <3>1. /\ wr.pc \notin {"idle", "count"} /\ wr'.pc \notin {"idle", "count"}
          /\ wr'.moved = wr.moved /\ wr'.total = wr.total
      BY <2>1, <1>t DEF WriteLock, WriteMeasure, WriteYield, WriteWake, CallState
    <3>2. UNCHANGED writer_finished
      BY <2>1 DEF WriteLock, WriteMeasure, WriteYield, WriteWake, flagVars
    <3> QED
      BY <3>1, <3>2 DEF Written, WriteReport
  <2>2. CASE WriteCopy
    BY <2>2, <1>t DEF WriteCopy, CallState, flagVars, Written, WriteReport
  <2>3. CASE WriteCount
    BY <2>3, <1>t DEF WriteCount, CallState, flagVars, Written, WriteReport
  <2>4. CASE WriteCheck
    <3>1. wr' = [wr EXCEPT !.pc = "sleep"] /\ ~writer_finished' /\ wr.pc = "check"
      BY <2>4 DEF WriteCheck, flagVars, Written
    <3>2. wr'.pc = "sleep" /\ wr'.moved = wr.moved /\ wr'.total = wr.total
      BY <3>1, <1>t DEF CallState
    <3> QED
      BY <3>1, <3>2 DEF Written, WriteReport
  <2>5. CASE WriteWoken
    BY <2>5, <1>t DEF WriteWoken, CallState, Returned, flagVars, Written, WriteReport
  <2>6. CASE WriteTimeout \/ WriteUnlock
    <3>1. wr' = Returned(wr.total, wr.moved) /\ ~writer_finished' /\ wr.moved = wr.total
      BY <2>6 DEF WriteTimeout, WriteUnlock, flagVars, Written
    <3> QED
      BY <3>1, <1>t DEF Returned, Written, WriteReport
  <2> QED
    BY <1>4, <2>1, <2>2, <2>3, <2>4, <2>5, <2>6 DEF WriterStep
<1>5. CASE \E c \in Controllers, op \in Ops : CtlCall(c, op)
  BY <1>1, <1>5 DEF CtlCall, flagVars
<1>6. CASE \E c \in Controllers : CtlStep(c)
  <2>1. PICK c \in Controllers : CtlStep(c)
    BY <1>6
  <2>2. CASE CtlFlag(c)
    <3>1. ctl[c].op # "finish"
      BY <2>2 DEF CtlFlag, IInv, RunningOps
    <3>2. UNCHANGED wr /\ ~writer_finished'
      BY <2>2, <3>1 DEF CtlFlag, Written
    <3> QED
      BY <3>2 DEF Written, WriteReport
  <2>3. CASE CtlReset(c)
    <3>1. UNCHANGED wr /\ ~writer_finished'
      BY <2>3 DEF CtlReset
    <3> QED
      BY <3>1 DEF Written, WriteReport
  <2>4. CASE CtlGive(c) \/ CtlStrayGive(c) \/ CtlLock(c) \/ CtlUnlock(c)
    BY <1>1, <2>4 DEF CtlGive, CtlStrayGive, CtlLock, CtlUnlock, flagVars
  <2> QED
    BY <2>1, <2>2, <2>3, <2>4 DEF CtlStep
<1>7. CASE UNCHANGED vars
  BY <1>1, <1>7 DEF vars, flagVars
<1> QED
  BY <1>2, <1>3, <1>4, <1>5, <1>6, <1>7 DEF Next

\* Both calls report what they moved, as long as nobody calls
\* rb_signal_writer_finished (see WriteReport).
THEOREM ReportsTheorem ==
  ASSUME NoStrayGive, "finish" \notin Ops
  PROVE  Spec => []Reports
<1>1. Init => Written
  BY DEF Init, Written, WriteReport, Returned
<1>2. IInv /\ Written /\ [Next]_vars => Written'
  BY WrittenStep
<1>3. IInv /\ Written => Reports
  BY DEF IInv, ReportSoFar, Written, Reports
<1> QED
  BY <1>1, <1>2, <1>3, Invariance, PTL DEF Spec

\* No reader goes to sleep on a buffer with bytes, and reader and writer never
\* sleep on each other.
THEOREM WakeupTheorem ==
  ASSUME NoStrayGive
  PROVE  Spec => []NoLostWakeUp
<1>1. IInv => NoLostWakeUp
  BY DEF IInv, EmptyOrToken, NoLostWakeUp, NoLostData
<1> QED
  BY <1>1, Invariance, PTL

\* Every step of the ring buffer is a step of the abstract stream, or none.
LEMMA StreamStep == IInv /\ [Next]_vars => [Stream!StreamNext]_<<put, got>>
<1> SUFFICES ASSUME IInv, [Next]_vars PROVE [Stream!StreamNext]_<<put, got>>
  OBVIOUS
<1>1. CASE ReadCopy
  <2> DEFINE n == rd.size
             chunk == [i \in 1..n |-> mem[Slot(readptr, i - 1)]]
  <2>1. rd.pc = "copy" /\ got' = got \o chunk /\ put' = put
    BY <1>1 DEF ReadCopy
  <2>2. n \in 0..Size /\ n <= Stored /\ \A i \in 1..n : chunk[i] = Len(got) + i
    BY <2>1, ReadChunk
  <2>3. chunk = [i \in 1..n |-> Len(got) + i]
    BY <2>2
  <2>4. CASE n = 0
    <3>1. chunk = << >>
      BY <2>4
    <3>2. got' = got
      BY <2>1, <3>1, ConcatEmptySeq DEF IInv, TypeOK
    <3> QED
      BY <2>1, <3>2
  <2>5. CASE n # 0
    <3>1. n \in 1..Size
      BY <2>2, <2>5
    <3>2. Stream!Get(n)
      BY <2>1, <2>2, <2>3 DEF Stream!Get, Stream!Stored, Stored
    <3> QED
      BY <3>1, <3>2 DEF Stream!StreamNext
  <2> QED
    BY <2>4, <2>5
<1>2. CASE WriteCopy
  <2>1. wr.pc = "copy" /\ put' = put + wr.size /\ got' = got
    BY <1>2 DEF WriteCopy
  <2>2. wr.size \in 0..Size /\ wr.size <= Size - Stored /\ put \in Nat
    BY <2>1, WriteChunk
  <2>3. CASE wr.size = 0
    BY <2>1, <2>2, <2>3
  <2>4. CASE wr.size # 0
    <3>1. wr.size \in 1..Size /\ Stream!Put(wr.size)
      BY <2>1, <2>2, <2>4 DEF Stream!Put, Stream!Stored, Stored
    <3> QED
      BY <3>1 DEF Stream!StreamNext
  <2> QED
    BY <2>3, <2>4
<1>3. CASE \E c \in Controllers : CtlReset(c)
  BY <1>3 DEF CtlReset, Stream!StreamNext, Stream!Empty
<1>4. CASE UNCHANGED <<put, got>>
  BY <1>4
<1>5. ReadCopy \/ WriteCopy \/ (\E c \in Controllers : CtlReset(c)) \/ UNCHANGED <<put, got>>
  BY DEF Next, vars, ReadCall, ReaderStep, ReadLock, ReadMeasure, ReadCount, ReadYield,
     ReadCheck, ReadWake, ReadTimeout, ReadWoken, ReadUnlock, ReadReturn, WriteCall, WriterStep,
     WriteLock, WriteMeasure, WriteCount, WriteYield, WriteCheck, WriteWake, WriteTimeout,
     WriteWoken, WriteUnlock, CtlCall, CtlStep, CtlFlag, CtlGive, CtlStrayGive, CtlLock, CtlUnlock
<1> QED
  BY <1>1, <1>2, <1>3, <1>4, <1>5

\* The ring buffer implements the bounded FIFO stream.
THEOREM RefinementTheorem ==
  ASSUME NoStrayGive
  PROVE  Spec => ImplementsStream
<1>1. Init => Stream!StreamInit
  BY DEF Init, Stream!StreamInit
<1>2. IInv /\ [Next]_vars => [Stream!StreamNext]_Stream!streamVars
  BY StreamStep DEF Stream!streamVars
<1> QED
  BY <1>1, <1>2, Invariance, PTL DEF Spec, ImplementsStream, Stream!StreamSpec

=============================================================================
