------------------------- MODULE AudioStreamProof --------------------------
(***************************************************************************)
(* What the control loop of audio_stream.c guarantees for any number of     *)
(* streams and callers and any mix of calls, with the racy stores to the    *)
(* control bits included.                                                   *)
(***************************************************************************)
EXTENDS AudioStream, Integers, TLAPS

---------------------------------------------------------------------------
(* Calls.                                                                   *)

\* A call's script is a finite sequence of typed acts.
LEMMA ScriptType ==
  ASSUME NEW s \in Streams, NEW op \in AllOps
  PROVE  On(s, Script(op)) \in Seq(Acts)
<1>1. CASE op = "start"
  BY <1>1 DEF On, Script, Acts, StoreActs
<1>2. CASE op = "stop"
  BY <1>2 DEF On, Script, Acts, StoreActs
<1>3. CASE op = "pause"
  BY <1>3 DEF On, Script, Acts, StoreActs
<1>4. CASE op = "resume"
  BY <1>4 DEF On, Script, Acts, StoreActs
<1>5. CASE op = "destroy"
  BY <1>5 DEF On, Script, Acts, StoreActs
<1> QED BY <1>1, <1>2, <1>3, <1>4, <1>5 DEF AllOps

\* Storing one bit in a byte gives a byte.
LEMMA SetBitType ==
  ASSUME NEW byte \in Bits, NEW act \in StoreActs
  PROVE  SetBit(act, byte) \in Bits
BY DEF SetBit, StoreActs, Bits

\* What is left of a call after its first act.
LEMMA TodoType ==
  ASSUME TypeOK, NEW c \in Callers, InCall(c)
  PROVE  /\ Head(caller[c].todo) \in Acts
         /\ Tail(caller[c].todo) \in Seq(Acts)
         /\ Target(c) \in Streams
<1>1. caller[c].todo \in Seq(Acts)
  BY DEF TypeOK
<1>2. caller[c].todo # <<>>
  BY DEF InCall
<1>3. Head(caller[c].todo) \in Acts /\ Tail(caller[c].todo) \in Seq(Acts)
  <2>1. ASSUME NEW S, NEW q \in Seq(S), q # <<>>
        PROVE  Head(q) \in S /\ Tail(q) \in Seq(S)
    BY <2>1
  <2> QED BY <1>1, <1>2, <2>1
<1> QED BY <1>3 DEF Target, Acts

---------------------------------------------------------------------------
(* Type correctness.                                                       *)

Tasks == [pc : Pcs, reg : Registers, event : Events, next : Pcs]

\* Going on keeps the task's record typed.
LEMMA GotoType ==
  ASSUME TypeOK, NEW s \in Streams, NEW pc \in Pcs, Goto(s, pc)
  PROVE  task' \in [Streams -> Tasks]
<1>1. task \in [Streams -> Tasks]
  BY DEF TypeOK, Tasks
<1>2. [task[s] EXCEPT !.pc = pc] \in Tasks
  BY <1>1 DEF Tasks
<1> QED BY <1>1, <1>2 DEF Goto

\* So does raising an event.
LEMMA EmitType ==
  ASSUME TypeOK, NEW s \in Streams, NEW e \in Events, NEW next \in Pcs, Emit(s, e, next)
  PROVE  task' \in [Streams -> Tasks]
<1>1. task \in [Streams -> Tasks]
  BY DEF TypeOK, Tasks
<1>2. "event" \in Pcs
  BY DEF Pcs
<1>3. [task[s] EXCEPT !.pc = "event", !.event = e, !.next = next] \in Tasks
  BY <1>1, <1>2 DEF Tasks
<1> QED BY <1>1, <1>3 DEF Emit

\* The byte a stream's task stores to its control bits.
LEMMA StoredType ==
  ASSUME TypeOK, NEW s \in Streams
  PROVE  /\ StoredOver(s, task[s].reg) \in Bits
         /\ [StoredOver(s, task[s].reg) EXCEPT !.pause = FALSE] \in Bits
         /\ [StoredOver(s, task[s].reg) EXCEPT !.run = FALSE] \in Bits
         /\ NothingInRegister \in Registers
         /\ InRegister(bits[s]) \in Registers
<1>1. bits[s] \in Bits /\ task[s].reg.byte \in Bits
  BY DEF TypeOK, Registers
<1>2. StoredOver(s, task[s].reg) \in Bits
  BY <1>1 DEF StoredOver
<1>3. NothingInRegister \in Registers /\ InRegister(bits[s]) \in Registers
  BY <1>1 DEF NothingInRegister, InRegister, Registers, NoBits, Bits
<1> QED BY <1>2, <1>3 DEF Bits

\* A step of a stream's task keeps the task's record typed.
LEMMA TaskRecordType ==
  ASSUME TypeOK, NEW s \in Streams, TaskStep(s)
  PROVE  task' \in [Streams -> Tasks]
<1>0. /\ task \in [Streams -> Tasks]
      /\ \A pc \in Pcs : Goto(s, pc) => task' \in [Streams -> Tasks]
      /\ \A e \in Events, pc \in Pcs : Emit(s, e, pc) => task' \in [Streams -> Tasks]
      /\ NothingInRegister \in Registers
      /\ InRegister(bits[s]) \in Registers
  BY GotoType, EmitType, StoredType DEF TypeOK, Tasks
<1>1. CASE Top(s)
  BY <1>0, <1>1 DEF Top, Pcs
<1>2. CASE Take(s)
  BY <1>0, <1>2 DEF Take, Pcs
<1>3. CASE CheckDestroy(s)
  BY <1>0, <1>3 DEF CheckDestroy, Pcs, Events
<1>4. CASE CheckRun(s)
  BY <1>0, <1>4 DEF CheckRun, Pcs
<1>5. CASE CheckPause(s)
  BY <1>0, <1>5 DEF CheckPause, Pcs
<1>6. CASE \E ok \in BOOLEAN : ContextInit(s, ok)
  BY <1>0, <1>6 DEF ContextInit, Pcs, Events
<1>7. CASE LoadByte(s)
  <2>1. [task[s] EXCEPT !.reg = InRegister(bits[s])] \in Tasks
    BY <1>0 DEF Tasks
  <2> QED BY <1>0, <1>7, <2>1 DEF LoadByte
<1>8. CASE Unpause(s)
  <2>1. [pc |-> "event", reg |-> NothingInRegister, event |-> "STARTED", next |-> "loop"] \in Tasks
    BY <1>0 DEF Tasks, Pcs, Events
  <2> QED BY <1>0, <1>8, <2>1 DEF Unpause
<1>9. CASE Loop(s)
  BY <1>0, <1>9 DEF Loop, Pcs
<1>10. CASE \E r \in Inputs(s) : Input(s, r)
  BY <1>0, <1>10 DEF Input, Pcs, Inputs
<1>11. CASE \E ok \in BOOLEAN : Output(s, ok)
  BY <1>0, <1>11 DEF Output, Pcs
<1>12. CASE Finish(s)
  <2>1. [task[s] EXCEPT !.pc = "judge", !.reg = NothingInRegister] \in Tasks
    BY ZenonT(40), <1>0 DEF Tasks, Pcs
  <2> QED BY <1>0, <1>12, <2>1 DEF Finish
<1>13. CASE Judge(s)
  BY <1>0, <1>13 DEF Judge, Pcs
<1>14. CASE Left(s)
  BY <1>0, <1>14 DEF Left, Pcs, Events
<1>15. CASE LeftPaused(s)
  BY <1>0, <1>15 DEF LeftPaused, Pcs, Events
<1>16. CASE Paused(s)
  BY <1>0, <1>16 DEF Paused, Pcs
<1>17. CASE LeftStopped(s)
  BY <1>0, <1>17 DEF LeftStopped, Pcs
<1>18. CASE SignalEnd(s)
  BY <1>0, <1>18 DEF SignalEnd, Pcs
<1>19. CASE Cleanup(s)
  BY <1>0, <1>19 DEF Cleanup, Pcs, Events
<1>20. CASE EventDone(s)
  <2>1. task[s].next \in Pcs /\ task[s] \in Tasks
    BY <1>0 DEF Tasks
  <2>2. "none" \in Events /\ "top" \in Pcs
    BY DEF Events, Pcs
  <2>3. [task[s] EXCEPT !.pc = task[s].next, !.event = "none", !.next = "top"] \in Tasks
    BY <2>1, <2>2 DEF Tasks
  <2> QED BY <1>0, <1>20, <2>3 DEF EventDone
<1>21. CASE Dying(s)
  BY <1>0, <1>21 DEF Dying, Pcs
<1>22. CASE Die(s)
  BY <1>0, <1>22 DEF Die, Pcs
<1> QED BY <1>1, <1>2, <1>3, <1>4, <1>5, <1>6, <1>7, <1>8, <1>9, <1>10, <1>11, <1>12, <1>13, <1>14, <1>15, <1>16, <1>17, <1>18, <1>19, <1>20, <1>21, <1>22 DEF TaskStep, ControlStep

\* A step of a stream's task keeps the types.
LEMMA TaskTypes ==
  ASSUME TypeOK, NEW s \in Streams, TaskStep(s)
  PROVE  TypeOK'
<1>0. task' \in [Streams -> [pc : Pcs, reg : Registers, event : Events, next : Pcs]]
  BY TaskRecordType DEF Tasks
<1> USE DEF callVars
<1>1. CASE Top(s)
  BY <1>0, <1>1 DEF TypeOK, Top
<1>2. CASE Take(s)
  BY <1>0, <1>2 DEF TypeOK, Take
<1>3. CASE CheckDestroy(s)
  BY <1>0, <1>3 DEF TypeOK, CheckDestroy
<1>4. CASE CheckRun(s)
  BY <1>0, <1>4 DEF TypeOK, CheckRun
<1>5. CASE CheckPause(s)
  BY <1>0, <1>5 DEF TypeOK, CheckPause
<1>6. CASE \E ok \in BOOLEAN : ContextInit(s, ok)
  BY <1>0, <1>6 DEF TypeOK, ContextInit
<1>7. CASE LoadByte(s)
  BY <1>0, <1>7 DEF TypeOK, LoadByte
<1>8. CASE Unpause(s)
  BY <1>0, <1>8, StoredType DEF TypeOK, Unpause
<1>9. CASE Loop(s)
  BY <1>0, <1>9 DEF TypeOK, Loop
<1>10. CASE \E r \in Inputs(s) : Input(s, r)
  BY <1>0, <1>10 DEF TypeOK, Input
<1>11. CASE \E ok \in BOOLEAN : Output(s, ok)
  BY <1>0, <1>11 DEF TypeOK, Output
<1>12. CASE Finish(s)
  BY <1>0, <1>12, StoredType DEF TypeOK, Finish
<1>13. CASE Judge(s)
  BY <1>0, <1>13 DEF TypeOK, Judge
<1>14. CASE Left(s)
  BY <1>0, <1>14 DEF TypeOK, Left
<1>15. CASE LeftPaused(s)
  BY <1>0, <1>15 DEF TypeOK, LeftPaused
<1>16. CASE Paused(s)
  BY <1>0, <1>16 DEF TypeOK, Paused
<1>17. CASE LeftStopped(s)
  BY <1>0, <1>17 DEF TypeOK, LeftStopped
<1>18. CASE SignalEnd(s)
  BY <1>0, <1>18 DEF TypeOK, SignalEnd
<1>19. CASE Cleanup(s)
  BY <1>0, <1>19 DEF TypeOK, Cleanup
<1>20. CASE EventDone(s)
  <2>1. task[s].event \in Events
    BY DEF TypeOK
  <2> QED BY <1>0, <1>20, <2>1 DEF TypeOK, EventDone
<1>21. CASE Dying(s)
  BY <1>0, <1>21 DEF TypeOK, Dying
<1>22. CASE Die(s)
  BY <1>0, <1>22 DEF TypeOK, Die
<1> QED BY <1>1, <1>2, <1>3, <1>4, <1>5, <1>6, <1>7, <1>8, <1>9, <1>10, <1>11, <1>12, <1>13, <1>14, <1>15, <1>16, <1>17, <1>18, <1>19, <1>20, <1>21, <1>22 DEF TaskStep, ControlStep

\* A step of a call keeps the types.
LEMMA CallerTypes ==
  ASSUME TypeOK, NEW c \in Callers, CallerStep(c)
  PROVE  TypeOK'
<1>1. InCall(c)
  BY DEF CallerStep, CallerLoad, CallerStore, CallerGive, CallerJoin, Doing
<1>2. /\ Tail(caller[c].todo) \in Seq(Acts) /\ Target(c) \in Streams
  BY <1>1, TodoType
<1>3. ASSUME ActDone(c)
      PROVE  caller' \in [Callers -> [todo : Seq(Acts), reg : Registers]]
  BY <1>2, <1>3 DEF TypeOK, ActDone, NothingInRegister, NoBits, Registers, Bits
<1>4. CASE CallerLoad(c)
  <2>1. InRegister(bits[Target(c)]) \in Registers
    BY <1>2 DEF TypeOK, InRegister, Registers
  <2>2. caller' = [caller EXCEPT ![c].reg = InRegister(bits[Target(c)])]
    BY <1>4 DEF CallerLoad
  <2>3. caller' \in [Callers -> [todo : Seq(Acts), reg : Registers]]
    BY <2>1, <2>2 DEF TypeOK
  <2>4. UNCHANGED streamVars
    BY <1>4 DEF CallerLoad
  <2> QED BY <2>3, <2>4 DEF TypeOK, streamVars
<1>5. CASE CallerStore(c)
  <2>1. StoredOver(Target(c), caller[c].reg) \in Bits
    BY <1>2 DEF TypeOK, StoredOver, Registers
  <2>2. Head(caller[c].todo).act \in StoreActs
    BY <1>5 DEF CallerStore, Doing
  <2>3. SetBit(Head(caller[c].todo).act, StoredOver(Target(c), caller[c].reg)) \in Bits
    BY <2>1, <2>2, SetBitType
  <2>4. bits' \in [Streams -> Bits]
    BY <1>5, <2>3 DEF TypeOK, CallerStore
  <2> QED BY <1>3, <1>5, <2>4 DEF TypeOK, CallerStore
<1>6. CASE CallerGive(c)
  BY <1>3, <1>6 DEF TypeOK, CallerGive
<1>7. CASE CallerJoin(c)
  BY <1>3, <1>7 DEF TypeOK, CallerJoin
<1> QED BY <1>4, <1>5, <1>6, <1>7 DEF CallerStep

\* Every variable keeps its type.
LEMMA TypeStep == TypeOK /\ [Next]_vars => TypeOK'
<1> SUFFICES ASSUME TypeOK, [Next]_vars PROVE TypeOK'
  OBVIOUS
<1>1. CASE \E s \in Streams : TaskStep(s)
  BY <1>1, TaskTypes
<1>2. CASE \E c \in Callers : CallerStep(c)
  BY <1>2, CallerTypes
<1>3. ASSUME NEW c \in Callers, NEW s \in Streams, NEW op \in Ops, CallStream(c, s, op)
      PROVE  TypeOK'
  <2>1. On(s, Script(op)) \in Seq(Acts)
    BY ScriptType, OpsAssumption
  <2> QED BY <1>3, <2>1 DEF TypeOK, CallStream, streamVars, Events
<1>4. CASE UNCHANGED vars
  BY <1>4 DEF TypeOK, vars, streamVars, callVars
<1> QED BY <1>1, <1>2, <1>3, <1>4 DEF Next

\* The types hold in every reachable state, for any streams, callers and calls.
THEOREM TypeCorrect == Spec => []TypeOK
<1>1. Init => TypeOK
  BY DEF Init, TypeOK, NoBits, NothingInRegister, Bits, Registers, Pcs, Events
<1> QED BY <1>1, TypeStep, PTL DEF Spec

\* What going on and raising an event do to the tasks.
LEMMA GotoEffect ==
  ASSUME TypeOK, NEW s \in Streams, NEW pc, Goto(s, pc)
  PROVE  /\ task'[s].pc = pc /\ task'[s].next = task[s].next
         /\ task'[s].reg = task[s].reg
         /\ \A q \in Streams : q # s => task'[q] = task[q]
BY DEF TypeOK, Goto

LEMMA EmitEffect ==
  ASSUME TypeOK, NEW s \in Streams, NEW e, NEW next, Emit(s, e, next)
  PROVE  /\ task'[s].pc = "event" /\ task'[s].next = next
         /\ task'[s].reg = task[s].reg
         /\ \A q \in Streams : q # s => task'[q] = task[q]
BY DEF TypeOK, Emit

---------------------------------------------------------------------------
(* The end of a stream.                                                     *)

\* The task of s is done with the stream exactly when its state says so.
Death(s) ==
  /\ state[s] = "DESTROYED" <=> At(s, "dead")
  /\ task[s].pc \in {"die", "dead"} => ~context[s]
  /\ task[s].next \in {"top", "loop", "paused", "dying"}
  /\ freed[s] => state[s] = "DESTROYED"

DeathInv == TypeOK /\ \A s \in Streams : Death(s)

\* A step of a stream's task keeps Death, of this stream and of the others.
LEMMA TaskDeath ==
  ASSUME DeathInv, NEW s \in Streams, TaskStep(s), NEW q \in Streams
  PROVE  Death(q)'
<1> USE DEF DeathInv, TypeOK, Death, At, Goto, callVars
<1>1. CASE Top(s)
  BY <1>1 DEF Top
<1>2. CASE Take(s)
  BY <1>2 DEF Take
<1>3. CASE CheckDestroy(s)
  <2>1. CASE Emit(s, "DESTROYED", "dying")
    BY <1>3, <2>1, EmitEffect DEF CheckDestroy
  <2>2. CASE ~bits[s].destroy /\ Goto(s, "run?")
    BY <1>3, <2>2, GotoEffect DEF CheckDestroy
  <2> QED BY <1>3, <2>1, <2>2 DEF CheckDestroy
<1>4. CASE CheckRun(s)
  <2>1. CASE Goto(s, "pause?") /\ UNCHANGED context
    BY <1>4, <2>1, GotoEffect DEF CheckRun
  <2>2. CASE Goto(s, "top") /\ context' = [context EXCEPT ![s] = FALSE]
    BY <1>4, <2>2, GotoEffect DEF CheckRun
  <2> QED BY <1>4, <2>1, <2>2 DEF CheckRun
<1>5. CASE CheckPause(s)
  BY <1>5 DEF CheckPause
<1>6. CASE ContextInit(s, TRUE)
  <2>1. Goto(s, "unpause")
    BY <1>6 DEF ContextInit
  <2> QED BY <1>6, <2>1, GotoEffect DEF ContextInit
<1>6a. CASE ContextInit(s, FALSE)
  <2>1. Emit(s, "FAILED", "top")
    BY <1>6a DEF ContextInit
  <2> QED BY <1>6a, <2>1, EmitEffect DEF ContextInit
<1>7. CASE LoadByte(s)
  BY <1>7 DEF LoadByte
<1>8. CASE Unpause(s)
  BY <1>8 DEF Unpause
<1>9. CASE Loop(s)
  BY <1>9 DEF Loop
<1>10. CASE \E r \in Inputs(s) : Input(s, r)
  BY <1>10 DEF Input, Inputs
<1>11. CASE \E ok \in BOOLEAN : Output(s, ok)
  BY <1>11 DEF Output
<1>12. CASE Finish(s)
  BY <1>12 DEF Finish
<1>13. CASE Judge(s)
  BY <1>13 DEF Judge
<1>14. CASE Left(s)
  <2>1. CASE Emit(s, "DESTROYED", "dying")
    BY <1>14, <2>1, EmitEffect DEF Left
  <2>2. CASE ~bits[s].destroy /\ Goto(s, "paused?")
    BY <1>14, <2>2, GotoEffect DEF Left
  <2> QED BY <1>14, <2>1, <2>2 DEF Left
<1>15. CASE LeftPaused(s)
  <2>1. CASE Emit(s, "PAUSED", "paused")
    BY <1>15, <2>1, EmitEffect DEF LeftPaused
  <2>2. CASE ~bits[s].pause /\ Goto(s, "end?")
    BY <1>15, <2>2, GotoEffect DEF LeftPaused
  <2> QED BY <1>15, <2>1, <2>2 DEF LeftPaused
<1>16. CASE Paused(s)
  BY <1>16 DEF Paused
<1>17. CASE LeftStopped(s)
  BY <1>17 DEF LeftStopped
<1>18. CASE SignalEnd(s)
  BY <1>18 DEF SignalEnd
<1>19. CASE Cleanup(s)
  BY <1>19 DEF Cleanup, Emit
<1>20. CASE EventDone(s)
  BY <1>20 DEF EventDone
<1>21. CASE Dying(s)
  BY <1>21 DEF Dying
<1>22. CASE Die(s)
  BY <1>22 DEF Die
<1> QED BY <1>1, <1>2, <1>3, <1>4, <1>5, <1>6, <1>7, <1>8, <1>9, <1>10, <1>11, <1>12, <1>13, <1>14, <1>15, <1>16, <1>17, <1>18, <1>19, <1>20, <1>21, <1>22, <1>6a DEF TaskStep, ControlStep

\* Calls touch neither the task nor its context; the last one frees what is dead.
LEMMA CallDeath ==
  ASSUME DeathInv, NEW c \in Callers, CallerStep(c), NEW q \in Streams
  PROVE  Death(q)'
<1> USE DEF DeathInv, Death, At
<1>1. CASE CallerLoad(c)
  BY <1>1 DEF CallerLoad, streamVars
<1>2. CASE CallerStore(c)
  BY <1>2 DEF CallerStore
<1>3. CASE CallerGive(c)
  BY <1>3 DEF CallerGive
<1>4. CASE CallerJoin(c)
  BY <1>4 DEF CallerJoin, TypeOK
<1> QED BY <1>1, <1>2, <1>3, <1>4 DEF CallerStep

LEMMA DeathStep == DeathInv /\ [Next]_vars => DeathInv'
<1> SUFFICES ASSUME DeathInv, [Next]_vars PROVE DeathInv'
  OBVIOUS
<1>1. TypeOK'
  BY TypeStep DEF DeathInv
<1>2. ASSUME NEW q \in Streams
      PROVE  Death(q)'
  <2>1. CASE \E s \in Streams : TaskStep(s)
    BY <2>1, TaskDeath
  <2>2. CASE \E c \in Callers : CallerStep(c)
    BY <2>2, CallDeath
  <2>3. CASE \E c \in Callers, s \in Streams, op \in Ops : CallStream(c, s, op)
    BY <2>3 DEF DeathInv, Death, At, CallStream, streamVars
  <2>4. CASE UNCHANGED vars
    BY <2>4 DEF DeathInv, Death, At, vars, streamVars
  <2> QED BY <2>1, <2>2, <2>3, <2>4 DEF Next
<1> QED BY <1>1, <1>2 DEF DeathInv

\* audio_stream_destroy frees the buffer and the semaphore, and its caller the
\* stream, only when the task has left it and its context is closed.
THEOREM FreedTheorem == Spec => []FreedOnlyWhenDead
<1>1. Init => DeathInv
  <2>1. Init => TypeOK
    BY DEF Init, TypeOK, NoBits, NothingInRegister, Bits, Registers, Pcs, Events
  <2> QED BY <2>1 DEF Init, DeathInv, Death, At
<1>2. DeathInv => FreedOnlyWhenDead
  BY DEF DeathInv, Death, FreedOnlyWhenDead, At
<1> QED BY <1>1, <1>2, DeathStep, PTL DEF Spec

---------------------------------------------------------------------------
(* Without audio_stream_pause.                                              *)

NoPausing == "pause" \notin Ops

Closed == {"top", "take", "destroy?", "run?", "pause?", "open", "die", "dead"}
Opened == {"unpause", "loop", "input", "output", "finish", "judge", "left", "paused?",
           "end?", "eos", "cleanup"}

\* The derived context of s is open where the task runs and closed where it rests.
\* Its _pause bit is clear, wherever a copy of the byte is.
Opening(s) ==
  /\ ~bits[s].pause /\ ~task[s].reg.byte.pause
  /\ ~At(s, "paused") /\ task[s].next # "paused"
  /\ task[s].pc \in Closed => ~context[s]
  /\ task[s].pc \in Opened => context[s]
  /\ At(s, "event") => task[s].next \in {"top", "loop", "dying"}
  /\ At(s, "event") /\ task[s].next = "top" => ~context[s]
  /\ At(s, "event") /\ task[s].next = "loop" => context[s]

\* No call of c sets _pause, or holds a byte that has it set.
NeverPauses(c) ==
  /\ ~caller[c].reg.byte.pause
  /\ \A i \in DOMAIN caller[c].todo : caller[c].todo[i].act # "pause"

OpeningInv == /\ TypeOK
              /\ \A s \in Streams : Opening(s)
              /\ \A c \in Callers : NeverPauses(c)

\* What a step that goes on, or raises an event, has to see to.
LEMMA GotoOpening ==
  ASSUME OpeningInv, NEW s \in Streams, NEW pc, Goto(s, pc), UNCHANGED bits,
         pc \notin {"paused", "event"},
         pc \in Closed => ~context'[s], pc \in Opened => context'[s],
         \A r \in Streams : r # s => context'[r] = context[r],
         NEW q \in Streams
  PROVE  Opening(q)'
<1>1. /\ task'[s].pc = pc /\ task'[s].next = task[s].next
      /\ task'[s].reg = task[s].reg
      /\ \A r \in Streams : r # s => task'[r] = task[r]
  BY GotoEffect DEF OpeningInv
<1>2. Opening(s) /\ Opening(q)
  BY DEF OpeningInv
<1>3. CASE q = s
  BY <1>1, <1>2, <1>3 DEF Opening, At
<1>4. CASE q # s
  <2>1. task'[q] = task[q] /\ context'[q] = context[q] /\ bits'[q] = bits[q]
    BY <1>1, <1>4
  <2> QED BY <1>2, <2>1 DEF Opening, At
<1> QED BY <1>3, <1>4

LEMMA EmitOpening ==
  ASSUME OpeningInv, NEW s \in Streams, NEW e, NEW next, Emit(s, e, next), UNCHANGED bits,
         next \in {"top", "loop", "dying"},
         next = "top" => ~context'[s], next = "loop" => context'[s],
         \A r \in Streams : r # s => context'[r] = context[r],
         NEW q \in Streams
  PROVE  Opening(q)'
<1>1. /\ task'[s].pc = "event" /\ task'[s].next = next
      /\ task'[s].reg = task[s].reg
      /\ \A r \in Streams : r # s => task'[r] = task[r]
  BY EmitEffect DEF OpeningInv
<1>2. Opening(s) /\ Opening(q)
  BY DEF OpeningInv
<1>3. CASE q = s
  BY <1>1, <1>2, <1>3 DEF Opening, At, Closed, Opened
<1>4. CASE q # s
  <2>1. task'[q] = task[q] /\ context'[q] = context[q] /\ bits'[q] = bits[q]
    BY SMTT(40), <1>1, <1>4
  <2> QED BY <1>2, <2>1 DEF Opening, At
<1> QED BY <1>3, <1>4

\* A step of a stream's task keeps Opening, of this stream and of the others.
LEMMA TaskOpening ==
  ASSUME OpeningInv, NEW s \in Streams, TaskStep(s), NEW q \in Streams
  PROVE  Opening(q)'
<1> USE DEF OpeningInv, TypeOK, Opening, Closed, Opened, At, Goto, callVars
<1>1. CASE Top(s)
  BY <1>1 DEF Top
<1>2. CASE Take(s)
  BY <1>2 DEF Take
<1>3. CASE CheckDestroy(s)
  <2> HIDE DEF Goto, Opening
  <2>0. UNCHANGED <<bits, context>>
    BY <1>3 DEF CheckDestroy
  <2>1. CASE Emit(s, "DESTROYED", "dying")
    BY <2>0, <2>1, EmitOpening
  <2>2. CASE Goto(s, "run?")
    <3>1. ~context[s]
      BY <1>3 DEF CheckDestroy, Opening
    <3> QED BY <2>0, <2>2, <3>1, GotoOpening
  <2> QED BY <1>3, <2>1, <2>2 DEF CheckDestroy
<1>4. CASE CheckRun(s)
  <2> HIDE DEF Goto, Opening
  <2>0. UNCHANGED bits
    BY <1>4 DEF CheckRun
  <2>1. CASE Goto(s, "pause?") /\ UNCHANGED context
    <3>1. ~context[s]
      BY <1>4 DEF CheckRun, Opening
    <3> QED BY <2>0, <2>1, <3>1, GotoOpening
  <2>2. CASE Goto(s, "top") /\ context' = [context EXCEPT ![s] = FALSE]
    <3>1. ~context'[s] /\ \A r \in Streams : r # s => context'[r] = context[r]
      BY <2>2
    <3> QED BY <2>0, <2>2, <3>1, GotoOpening
  <2> QED BY <1>4, <2>1, <2>2 DEF CheckRun
<1>5. CASE CheckPause(s)
  BY <1>5 DEF CheckPause
<1>6. CASE ContextInit(s, TRUE)
  <2> HIDE DEF Goto, Opening
  <2>1. Goto(s, "unpause") /\ UNCHANGED bits
    BY <1>6 DEF ContextInit
  <2>2. context'[s] /\ \A r \in Streams : r # s => context'[r] = context[r]
    BY <1>6 DEF ContextInit
  <2> QED BY <2>1, <2>2, GotoOpening
<1>6a. CASE ContextInit(s, FALSE)
  <2> HIDE DEF Opening
  <2>1. Emit(s, "FAILED", "top") /\ UNCHANGED bits
    BY <1>6a DEF ContextInit
  <2>2. ~context'[s] /\ \A r \in Streams : r # s => context'[r] = context[r]
    BY <1>6a DEF ContextInit, Opening
  <2> QED BY <2>1, <2>2, EmitOpening
<1>7. CASE LoadByte(s)
  BY <1>7 DEF LoadByte, InRegister
<1>8. CASE Unpause(s)
  BY <1>8 DEF Unpause, StoredOver, NothingInRegister, NoBits, Bits, Registers
<1>9. CASE Loop(s)
  BY <1>9 DEF Loop
<1>10. CASE \E r \in Inputs(s) : Input(s, r)
  BY <1>10 DEF Input, Inputs
<1>11. CASE \E ok \in BOOLEAN : Output(s, ok)
  BY <1>11 DEF Output
<1>12. CASE Finish(s)
  BY <1>12 DEF Finish, StoredOver, NothingInRegister, NoBits, Bits, Registers
<1>13. CASE Judge(s)
  BY <1>13 DEF Judge
<1>14. CASE Left(s)
  <2> HIDE DEF Goto, Opening
  <2>0. UNCHANGED <<bits, context>>
    BY <1>14 DEF Left
  <2>1. CASE Emit(s, "DESTROYED", "dying")
    BY <2>0, <2>1, EmitOpening
  <2>2. CASE Goto(s, "paused?")
    <3>1. context[s]
      BY <1>14 DEF Left, Opening
    <3> QED BY <2>0, <2>2, <3>1, GotoOpening
  <2> QED BY <1>14, <2>1, <2>2 DEF Left
<1>15. CASE LeftPaused(s)
  <2> HIDE DEF Goto
  <2>1. ~bits[s].pause /\ context[s]
    BY <1>15 DEF LeftPaused
  <2>2. Goto(s, "end?") /\ UNCHANGED <<bits, context>>
    BY <1>15, <2>1 DEF LeftPaused
  <2> QED BY <2>1, <2>2, GotoOpening
<1>16. CASE Paused(s)
  BY <1>16 DEF Paused
<1>17. CASE LeftStopped(s)
  BY <1>17 DEF LeftStopped
<1>18. CASE SignalEnd(s)
  BY <1>18 DEF SignalEnd
<1>19. CASE Cleanup(s)
  BY <1>19 DEF Cleanup, Emit
<1>20. CASE EventDone(s)
  BY <1>20 DEF EventDone
<1>21. CASE Dying(s)
  BY <1>21 DEF Dying
<1>22. CASE Die(s)
  BY <1>22 DEF Die
<1> QED BY <1>1, <1>2, <1>3, <1>4, <1>5, <1>6, <1>7, <1>8, <1>9, <1>10, <1>11, <1>12, <1>13, <1>14, <1>15, <1>16, <1>17, <1>18, <1>19, <1>20, <1>21, <1>22, <1>6a DEF TaskStep, ControlStep

\* The acts of a call other than audio_stream_pause.
LEMMA ScriptPause ==
  ASSUME NEW s \in Streams, NEW op \in AllOps, op # "pause"
  PROVE  \A i \in DOMAIN On(s, Script(op)) : On(s, Script(op))[i].act # "pause"
<1>1. CASE op = "start"
  BY <1>1 DEF On, Script
<1>2. CASE op = "stop"
  BY <1>2 DEF On, Script
<1>3. CASE op = "resume"
  BY <1>3 DEF On, Script
<1>4. CASE op = "destroy"
  BY <1>4 DEF On, Script
<1> QED BY <1>1, <1>2, <1>3, <1>4 DEF AllOps

\* A step of a call keeps Opening and NeverPauses.
LEMMA CallOpening ==
  ASSUME OpeningInv, NEW c \in Callers, CallerStep(c)
  PROVE  /\ \A q \in Streams : Opening(q)'
         /\ \A d \in Callers : NeverPauses(d)'
<1>1. InCall(c)
  BY DEF CallerStep, CallerLoad, CallerStore, CallerGive, CallerJoin, Doing
<1>2. Target(c) \in Streams /\ caller[c].todo \in Seq(Acts) /\ caller[c].todo # <<>>
  BY <1>1, TodoType DEF OpeningInv, TypeOK, InCall
<1>3. Head(caller[c].todo).act # "pause"
  BY <1>2 DEF OpeningInv, NeverPauses
<1>4. \A i \in DOMAIN Tail(caller[c].todo) : Tail(caller[c].todo)[i].act # "pause"
  <2>1. ASSUME NEW S, NEW q \in Seq(S), q # <<>>, NEW i \in DOMAIN Tail(q)
        PROVE  i + 1 \in DOMAIN q /\ Tail(q)[i] = q[i + 1]
    BY <2>1
  <2> QED BY <1>2, <2>1 DEF OpeningInv, NeverPauses
<1>5. ASSUME ActDone(c)
      PROVE  \A d \in Callers : NeverPauses(d)'
  BY <1>4, <1>5 DEF OpeningInv, TypeOK, ActDone, NeverPauses, NothingInRegister, NoBits
<1>6. CASE CallerLoad(c)
  <2>1. \A d \in Callers : NeverPauses(d)'
    BY <1>2, <1>6 DEF OpeningInv, TypeOK, Opening, NeverPauses, CallerLoad, InRegister
  <2> QED BY <1>6, <2>1 DEF OpeningInv, Opening, CallerLoad, streamVars, At
<1>7. CASE CallerStore(c)
  <2>1. Head(caller[c].todo).act \in StoreActs
    BY <1>7 DEF CallerStore, Doing
  <2>2. StoredOver(Target(c), caller[c].reg) \in Bits /\ ~StoredOver(Target(c), caller[c].reg).pause
    BY <1>2 DEF OpeningInv, TypeOK, Opening, NeverPauses, StoredOver, Registers
  <2>3. ~SetBit(Head(caller[c].todo).act, StoredOver(Target(c), caller[c].reg)).pause
    BY <1>3, <2>1, <2>2 DEF SetBit, StoreActs, Bits
  <2>4. \A q \in Streams : ~bits'[q].pause
    BY <1>2, <1>7, <2>3 DEF OpeningInv, TypeOK, Opening, CallerStore
  <2>5. \A q \in Streams : Opening(q)'
    BY <1>7, <2>4 DEF OpeningInv, Opening, CallerStore, At
  <2> QED BY <1>5, <1>7, <2>5 DEF CallerStore
<1>8. CASE CallerGive(c)
  BY <1>5, <1>8 DEF OpeningInv, Opening, CallerGive, At
<1>9. CASE CallerJoin(c)
  BY <1>5, <1>9 DEF OpeningInv, Opening, CallerJoin, At
<1> QED BY <1>6, <1>7, <1>8, <1>9 DEF CallerStep

LEMMA OpeningStep == NoPausing /\ OpeningInv /\ [Next]_vars => OpeningInv'
<1> SUFFICES ASSUME NoPausing, OpeningInv, [Next]_vars PROVE OpeningInv'
  OBVIOUS
<1>1. TypeOK'
  BY TypeStep DEF OpeningInv
<1>2. CASE \E s \in Streams : TaskStep(s)
  <2>1. \A q \in Streams : Opening(q)'
    BY <1>2, TaskOpening
  <2>2. UNCHANGED caller
    BY <1>2 DEF TaskStep, ControlStep, Top, Take, CheckDestroy, CheckRun, CheckPause, ContextInit,
       LoadByte, Unpause, Loop, Input, Output, Finish, Judge, Left, LeftPaused, Paused, LeftStopped,
       SignalEnd, Cleanup, EventDone, Dying, Die, callVars
  <2> QED BY <1>1, <2>1, <2>2 DEF OpeningInv, NeverPauses
<1>3. CASE \E c \in Callers : CallerStep(c)
  BY <1>1, <1>3, CallOpening DEF OpeningInv
<1>4. ASSUME NEW c \in Callers, NEW s \in Streams, NEW op \in Ops, CallStream(c, s, op)
      PROVE  OpeningInv'
  <2>1. \A i \in DOMAIN On(s, Script(op)) : On(s, Script(op))[i].act # "pause"
    BY OpsAssumption, ScriptPause DEF NoPausing
  <2>2. \A d \in Callers : NeverPauses(d)'
    BY <1>4, <2>1 DEF OpeningInv, TypeOK, NeverPauses, CallStream
  <2>3. \A q \in Streams : Opening(q)'
    BY <1>4 DEF OpeningInv, Opening, CallStream, streamVars, At
  <2> QED BY <1>1, <2>2, <2>3 DEF OpeningInv
<1>5. CASE UNCHANGED vars
  BY <1>1, <1>5 DEF OpeningInv, Opening, NeverPauses, At, vars, streamVars, callVars
<1> QED BY <1>2, <1>3, <1>4, <1>5 DEF Next

LEMMA OpeningHolds == ASSUME NoPausing PROVE Spec => []OpeningInv
<1>1. Init => OpeningInv
  <2>1. Init => TypeOK
    BY DEF Init, TypeOK, NoBits, NothingInRegister, Bits, Registers, Pcs, Events
  <2> QED BY <2>1 DEF Init, OpeningInv, Opening, NeverPauses, Closed, Opened, At, NoBits, NothingInRegister
<1>2. OpeningInv /\ [Next]_vars => OpeningInv'
  BY OpeningStep
<1> QED BY <1>1, <1>2, PTL DEF Spec

\* When nobody pauses, the derived functions run on an open context, whatever the
\* order of starts, stops and destroys, and however their stores collide.
THEOREM ContextTheorem == ASSUME NoPausing PROVE Spec => []ContextBeforeUse
<1>1. OpeningInv => ContextBeforeUse
  BY DEF OpeningInv, Opening, ContextBeforeUse, Opened
<1> QED BY <1>1, OpeningHolds, PTL

\* ... and no context is opened over an open one.
THEOREM OpenedTheorem == ASSUME NoPausing PROVE Spec => []OpenedOnce
<1>1. OpeningInv => OpenedOnce
  BY DEF OpeningInv, Opening, OpenedOnce, Closed, At
<1> QED BY <1>1, OpeningHolds, PTL

\* Open, use and cleanup take turns: the two together.
THEOREM ContextInTurnTheorem == ASSUME NoPausing PROVE Spec => []ContextInTurn
<1>1. ContextBeforeUse /\ OpenedOnce => ContextInTurn
  BY DEF ContextInTurn
<1> QED BY <1>1, ContextTheorem, OpenedTheorem, PTL
============================================================================
