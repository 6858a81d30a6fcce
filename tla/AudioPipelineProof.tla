------------------------- MODULE AudioPipelineProof -------------------------
(***************************************************************************)
(* A pipeline at rest never claims to be started, whatever is called, fails  *)
(* or collides; and when an application starts its pipeline once, a stream    *)
(* that reports STOPPED has passed on or played all it had: for any capacity  *)
(* of the ring buffer between the streams.                                  *)
(***************************************************************************)
EXTENDS AudioPipeline, Integers, TLAPS

Tasks    == [pc : Pcs, reg : Registers, event : Events, next : Pcs]
PipeActs == [stream : Streams, act : StoreActs \cup {"give", "join", "rb_reset", "rb_cleanup"}]
AppPcs   == {"idle", "lock", "inside", "refused", "destroying", "waiting"}

Typed ==
  /\ bits \in [Streams -> Bits] /\ ctrl_sem \in [Streams -> BOOLEAN]
  /\ task \in [Streams -> Tasks]
  /\ caller \in [Callers -> [todo : Seq(PipeActs), reg : Registers]]
  /\ ended \in [Streams -> BOOLEAN]
  /\ app \in [pc : AppPcs, op : PipeOps \cup {"none"}, told : BOOLEAN]
  /\ app.op = "none" => app.pc = "idle"
  /\ PipeTypeOK

\* Where a task goes on after an event, and that its callback runs inside one.
Reporting(s) ==
  /\ callback[s] # "out" => At(s, "event")
  /\ At(s, "event") =>
       /\ task[s].event = "STARTED" => task[s].next = "loop"
       /\ task[s].event = "PAUSED" => task[s].next = "paused"
       /\ task[s].event \in {"STOPPED", "FAILED"} => task[s].next = "top"
       /\ task[s].event = "DESTROYED" => task[s].next = "dying"
       /\ task[s].event # "none"

\* The task has told the pipeline that it started, and not yet that it no longer runs.
Running(s) ==
  \/ task[s].pc \in {"loop", "input", "output", "finish", "judge", "left", "paused?", "end?",
                     "eos", "cleanup"}
  \/ At(s, "event") /\ task[s].event = "STARTED" /\ callback[s] \in {"compare", "call"}
  \/ At(s, "event") /\ task[s].event \in {"STOPPED", "PAUSED"} /\ callback[s] \in {"out", "state"}

\* It runs, or it never will be at rest.
Alive(s) ==
  \/ Running(s)
  \/ task[s].pc \in {"dying", "die", "dead"}
  \/ At(s, "event") /\ task[s].event = "DESTROYED"

\* A pipeline that claims to be started has a stream that does.
SomeAlive == p_state = "STARTED" => \E s \in Streams : Alive(s)

PhantomInv == Typed /\ (\A s \in Streams : Reporting(s)) /\ SomeAlive

----------------------------------------------------------------------------
(* An application that starts once, with a sink that takes its data.        *)

OneStart == AtomicBits /\ ~Again /\ ~OutputFails

Todo  == caller[App].todo
Owed  == Len(Todo)

\* What is left of a call is the rest of its script.
RestOf(script) ==
  /\ Owed <= Len(script)
  /\ \A i \in 1..Owed : Todo[i] = script[Len(script) - Owed + i]

Calls ==
  /\ app.pc \in {"idle", "lock", "refused", "waiting"} => Owed = 0
  /\ app.pc = "inside" => app.op # "destroy" /\ RestOf(PipeScript(app.op))
  /\ app.pc = "destroying" => RestOf(PipeScript("destroy"))

\* The lock, and what the application found when it got it.
Locked ==
  /\ \A s \in Streams : callback[s] = "state" => p_lock = s
  /\ app.pc \in {"inside", "refused"} => p_lock = App
  /\ app.pc = "inside" => p_state \in From(app.op)

\* A stream that has not run yet.
Unbegun(s) == task[s].pc \in {"top", "take"} /\ ~ctrl_sem[s]

\* Until the one start gives a stream its token it has not run.
Beginning ==
  /\ app.pc \in {"idle", "lock", "refused"} /\ p_state = "INITED" =>
       Unbegun(In) /\ Unbegun(Out) /\ ~rb1.finished
  /\ app.pc = "lock" /\ app.op = "start" => p_state = "INITED"
  /\ app.pc = "inside" /\ app.op = "start" /\ Owed >= 4 => Unbegun(In) /\ ~rb1.finished
  /\ app.pc = "inside" /\ app.op = "start" /\ Owed >= 1 => Unbegun(Out)
  /\ app.told => p_state # "INITED"

\* While the pipeline is paused its output stream does not run.
Pauses == p_state = "PAUSED" => ~Running(Out)

\* All that was written has been played, and no more comes.
Played == rb1.fill = 0 /\ rb1.finished

\* The input stream has passed on the end.
InputOver ==
  \/ task[In].pc \in {"cleanup", "top", "take", "destroy?", "run?", "dying", "die", "dead"}
  \/ At(In, "event") /\ task[In].event \in {"STOPPED", "DESTROYED"}

\* The input stream is not paused; it leaves its loop because it has been halted or
\* destroyed, and when it has passed on the end it does not run again.
InputInv ==
  /\ ~bits[In].pause
  /\ At(In, "event") => task[In].event # "PAUSED"
  /\ At(In, "left") => ~bits[In].run \/ bits[In].destroy
  /\ task[In].pc \in {"paused?", "end?", "eos"} => ~bits[In].run
  /\ At(In, "cleanup") => ended[In]
  /\ At(In, "event") /\ task[In].event = "STOPPED" => ended[In]
  /\ rb1.finished => ~bits[In].run /\ InputOver

\* The output stream stops only when it has played all.
OutputInv ==
  /\ task[Out].pc \in {"pause?", "open", "unpause", "loop", "input", "output", "judge"} =>
       bits[Out].run \/ Played
  /\ At(Out, "event") /\ task[Out].event = "STARTED" => bits[Out].run \/ Played
  /\ At(Out, "left") => Played \/ bits[Out].pause \/ bits[Out].destroy
  /\ At(Out, "paused?") => Played \/ bits[Out].pause
  /\ task[Out].pc \in {"finish", "end?", "cleanup"} => Played
  /\ At(Out, "event") /\ task[Out].event = "STOPPED" => Played
  /\ ~At(Out, "eos")

IInv == PhantomInv /\ Calls /\ Locked /\ Beginning /\ Pauses /\ InputInv /\ OutputInv

----------------------------------------------------------------------------
(* What a step of a stream's task does.                                     *)

Goes(s, pc)       == task'[s].pc = pc /\ task'[s].event = task[s].event /\ task'[s].next = task[s].next
Tells(s, e, next) == task'[s].pc = "event" /\ task'[s].event = e /\ task'[s].next = next

\* The other stream is left alone.
Others(s) ==
  \A r \in Streams : r # s => /\ task'[r] = task[r] /\ bits'[r] = bits[r]
                              /\ ctrl_sem'[r] = ctrl_sem[r] /\ ended'[r] = ended[r]

TaskTypes ==
  /\ task' \in [Streams -> Tasks] /\ bits' \in [Streams -> Bits]
  /\ ctrl_sem' \in [Streams -> BOOLEAN] /\ ended' \in [Streams -> BOOLEAN]

\* From where to where, and on which bits.
Moved(s) ==
  /\ TaskTypes /\ Others(s) /\ caller' = caller
  /\ task[s].pc \notin {"dead", "event", "input", "output", "eos"}
  /\ task[s].pc = "top" => Goes(s, "take")
  /\ task[s].pc = "take" => ctrl_sem[s] /\ ~ctrl_sem'[s] /\ Goes(s, "destroy?")
  /\ task[s].pc = "destroy?" => \/ bits[s].destroy /\ Tells(s, "DESTROYED", "dying")
                                \/ ~bits[s].destroy /\ Goes(s, "run?")
  /\ task[s].pc = "run?" => \/ bits[s].run /\ Goes(s, "pause?")
                            \/ ~bits[s].run /\ Goes(s, "top")
  /\ task[s].pc = "pause?" => Goes(s, "unpause") \/ Goes(s, "open")
  /\ task[s].pc = "open" => Goes(s, "unpause") \/ Tells(s, "FAILED", "top")
  /\ task[s].pc = "unpause" => \/ Tells(s, "STARTED", "loop")
                               \/ ~AtomicBits /\ Goes(s, "unpause")
  /\ task[s].pc = "loop" => \/ bits[s].run /\ Goes(s, "input")
                            \/ ~bits[s].run /\ Goes(s, "left")
  /\ task[s].pc = "finish" => Goes(s, "judge") \/ (~AtomicBits /\ Goes(s, "finish"))
  /\ task[s].pc = "judge" => \/ (bits[s].pause \/ bits[s].destroy) /\ Goes(s, "left")
                             \/ Goes(s, "loop")
  /\ task[s].pc = "left" => \/ bits[s].destroy /\ Tells(s, "DESTROYED", "dying")
                            \/ ~bits[s].destroy /\ Goes(s, "paused?")
  /\ task[s].pc = "paused?" => \/ bits[s].pause /\ Tells(s, "PAUSED", "paused")
                               \/ ~bits[s].pause /\ Goes(s, "end?")
  /\ task[s].pc = "paused" => Goes(s, "top")
  /\ task[s].pc = "end?" => \/ ~bits[s].run /\ s \in Readers /\ Goes(s, "eos")
                            \/ (bits[s].run \/ s \notin Readers) /\ Goes(s, "cleanup")
  /\ task[s].pc = "cleanup" => Tells(s, "STOPPED", "top")
  /\ task[s].pc = "dying" => Goes(s, "die")
  /\ task[s].pc = "die" => Goes(s, "dead")
  /\ task[s].pc # "take" => ctrl_sem' = ctrl_sem
  /\ task[s].pc # "unpause" => ended' = ended
  /\ task[s].pc \notin {"unpause", "finish"} => bits' = bits
  /\ AtomicBits /\ task[s].pc = "unpause" =>
       ~bits'[s].pause /\ (bits'[s].run <=> bits[s].run) /\ (bits'[s].destroy <=> bits[s].destroy)
  /\ AtomicBits /\ task[s].pc = "finish" =>
       ~bits'[s].run /\ (bits'[s].pause <=> bits[s].pause) /\ (bits'[s].destroy <=> bits[s].destroy)

\* Going on.
LEMMA GotoTo ==
  ASSUME Typed, NEW s \in Streams, NEW pc \in Pcs, Goto(s, pc)
  PROVE  /\ task' \in [Streams -> Tasks] /\ Goes(s, pc)
         /\ \A r \in Streams : r # s => task'[r] = task[r]
<1>1. task \in [Streams -> Tasks] /\ task' = [task EXCEPT ![s].pc = pc]
  BY DEF Typed, Goto
<1>2. [task[s] EXCEPT !.pc = pc] \in Tasks
  BY <1>1 DEF Tasks
<1>3. task' \in [Streams -> Tasks]
  BY <1>1, <1>2
<1>4. task'[s] = [task[s] EXCEPT !.pc = pc]
  BY <1>1
<1>5. Goes(s, pc)
  BY <1>1, <1>4 DEF Goes, Tasks
<1> QED BY <1>1, <1>3, <1>5

\* Raising an event.
LEMMA EmitTo ==
  ASSUME Typed, NEW s \in Streams, NEW e \in Events, NEW next \in Pcs, Emit(s, e, next)
  PROVE  /\ task' \in [Streams -> Tasks] /\ Tells(s, e, next)
         /\ \A r \in Streams : r # s => task'[r] = task[r]
<1>1. /\ task \in [Streams -> Tasks]
      /\ task' = [task EXCEPT ![s] = [task[s] EXCEPT !.pc = "event", !.event = e, !.next = next]]
  BY DEF Typed, Emit
<1>2. [task[s] EXCEPT !.pc = "event", !.event = e, !.next = next] \in Tasks
  <2>1. "event" \in Pcs
    BY DEF Pcs
  <2> QED BY <1>1, <2>1 DEF Tasks
<1>3. task' \in [Streams -> Tasks]
  BY <1>1, <1>2
<1>4. task'[s] = [task[s] EXCEPT !.pc = "event", !.event = e, !.next = next]
  BY <1>1
<1>5. Tells(s, e, next)
  BY <1>1, <1>4 DEF Tells, Tasks
<1> QED BY <1>1, <1>3, <1>5

\* The byte that a task stores is typed, and with atomic bits the one that is there.
LEMMA StoresTyped ==
  ASSUME Typed, NEW s \in Streams, NEW reg \in Registers
  PROVE  /\ StoredOver(s, reg) \in Bits
         /\ AtomicBits => StoredOver(s, reg) = bits[s]
         /\ NothingInRegister \in Registers /\ InRegister(bits[s]) \in Registers
<1>1. bits[s] \in Bits /\ reg.byte \in Bits
  BY DEF Typed, Registers
<1> QED BY <1>1 DEF StoredOver, NothingInRegister, InRegister, Registers, NoBits, Bits

LEMMA ControlMoves ==
  ASSUME Typed, NEW s \in Streams, ControlStep(s)
  PROVE  Moved(s)
<1>0. /\ task \in [Streams -> Tasks] /\ bits \in [Streams -> Bits]
      /\ ctrl_sem \in [Streams -> BOOLEAN] /\ ended \in [Streams -> BOOLEAN]
  BY DEF Typed
<1>a. task[s].pc \in Pcs /\ task[s].reg \in Registers
  BY <1>0 DEF Tasks
<1>1. CASE Top(s)
  <2>1. task[s].pc = "top" /\ bits' = bits /\ ctrl_sem' = ctrl_sem /\ caller' = caller /\ ended' = ended
    BY <1>1 DEF Top, At, callVars
  <2>2. Goto(s, "take") => /\ task' \in [Streams -> Tasks] /\ Goes(s, "take")
                           /\ \A r \in Streams : r # s => task'[r] = task[r]
    BY GotoTo DEF Pcs
  <2>3. Goto(s, "take")
    BY <1>1 DEF Top
  <2> QED BY <1>0, <2>1, <2>2, <2>3 DEF Moved, TaskTypes, Others
<1>2. CASE CheckPause(s)
  <2>1. /\ task[s].pc = "pause?" /\ bits' = bits /\ ctrl_sem' = ctrl_sem /\ caller' = caller
        /\ ended' = ended
    BY <1>2 DEF CheckPause, At, callVars
  <2>2. Goto(s, "unpause") => /\ task' \in [Streams -> Tasks] /\ Goes(s, "unpause")
                           /\ \A r \in Streams : r # s => task'[r] = task[r]
    BY GotoTo DEF Pcs
  <2>3. Goto(s, "open") => /\ task' \in [Streams -> Tasks] /\ Goes(s, "open")
                           /\ \A r \in Streams : r # s => task'[r] = task[r]
    BY GotoTo DEF Pcs
  <2>4. Goto(s, "unpause") \/ Goto(s, "open")
    BY <1>2 DEF CheckPause
  <2> QED BY <1>0, <2>1, <2>2, <2>3, <2>4 DEF Moved, TaskTypes, Others
<1>3. CASE Loop(s)
  <2>1. /\ task[s].pc = "loop" /\ bits' = bits /\ ctrl_sem' = ctrl_sem /\ caller' = caller
        /\ ended' = ended
    BY <1>3 DEF Loop, At, callVars
  <2>2. Goto(s, "input") => /\ task' \in [Streams -> Tasks] /\ Goes(s, "input")
                           /\ \A r \in Streams : r # s => task'[r] = task[r]
    BY GotoTo DEF Pcs
  <2>3. Goto(s, "left") => /\ task' \in [Streams -> Tasks] /\ Goes(s, "left")
                           /\ \A r \in Streams : r # s => task'[r] = task[r]
    BY GotoTo DEF Pcs
  <2>4. (bits[s].run /\ Goto(s, "input")) \/ (~bits[s].run /\ Goto(s, "left"))
    BY <1>3 DEF Loop
  <2> QED BY <1>0, <2>1, <2>2, <2>3, <2>4 DEF Moved, TaskTypes, Others
<1>4. CASE Judge(s)
  <2>1. /\ task[s].pc = "judge" /\ bits' = bits /\ ctrl_sem' = ctrl_sem /\ caller' = caller
        /\ ended' = ended
    BY <1>4 DEF Judge, At, callVars
  <2>2. Goto(s, "left") => /\ task' \in [Streams -> Tasks] /\ Goes(s, "left")
                           /\ \A r \in Streams : r # s => task'[r] = task[r]
    BY GotoTo DEF Pcs
  <2>3. Goto(s, "loop") => /\ task' \in [Streams -> Tasks] /\ Goes(s, "loop")
                           /\ \A r \in Streams : r # s => task'[r] = task[r]
    BY GotoTo DEF Pcs
  <2>4. ((bits[s].pause \/ bits[s].destroy) /\ Goto(s, "left")) \/ Goto(s, "loop")
    BY <1>4 DEF Judge
  <2> QED BY <1>0, <2>1, <2>2, <2>3, <2>4 DEF Moved, TaskTypes, Others
<1>5. CASE Paused(s)
  <2>1. /\ task[s].pc = "paused" /\ bits' = bits /\ ctrl_sem' = ctrl_sem /\ caller' = caller
        /\ ended' = ended
    BY <1>5 DEF Paused, At, callVars
  <2>2. Goto(s, "top") => /\ task' \in [Streams -> Tasks] /\ Goes(s, "top")
                           /\ \A r \in Streams : r # s => task'[r] = task[r]
    BY GotoTo DEF Pcs
  <2>3. Goto(s, "top")
    BY <1>5 DEF Paused
  <2> QED BY <1>0, <2>1, <2>2, <2>3 DEF Moved, TaskTypes, Others
<1>6. CASE LeftStopped(s)
  <2>1. /\ task[s].pc = "end?" /\ bits' = bits /\ ctrl_sem' = ctrl_sem /\ caller' = caller
        /\ ended' = ended
    BY <1>6 DEF LeftStopped, At, callVars
  <2>2. Goto(s, "eos") => /\ task' \in [Streams -> Tasks] /\ Goes(s, "eos")
                           /\ \A r \in Streams : r # s => task'[r] = task[r]
    BY GotoTo DEF Pcs
  <2>3. Goto(s, "cleanup") => /\ task' \in [Streams -> Tasks] /\ Goes(s, "cleanup")
                           /\ \A r \in Streams : r # s => task'[r] = task[r]
    BY GotoTo DEF Pcs
  <2>4. (~bits[s].run /\ s \in Readers /\ Goto(s, "eos")) \/ ((bits[s].run \/ s \notin Readers) /\ Goto(s, "cleanup"))
    BY <1>6 DEF LeftStopped
  <2> QED BY <1>0, <2>1, <2>2, <2>3, <2>4 DEF Moved, TaskTypes, Others
<1>7. CASE Dying(s)
  <2>1. /\ task[s].pc = "dying" /\ bits' = bits /\ ctrl_sem' = ctrl_sem /\ caller' = caller
        /\ ended' = ended
    BY <1>7 DEF Dying, At, callVars
  <2>2. Goto(s, "die") => /\ task' \in [Streams -> Tasks] /\ Goes(s, "die")
                           /\ \A r \in Streams : r # s => task'[r] = task[r]
    BY GotoTo DEF Pcs
  <2>3. Goto(s, "die")
    BY <1>7 DEF Dying
  <2> QED BY <1>0, <2>1, <2>2, <2>3 DEF Moved, TaskTypes, Others
<1>8. CASE Die(s)
  <2>1. task[s].pc = "die" /\ bits' = bits /\ ctrl_sem' = ctrl_sem /\ caller' = caller /\ ended' = ended
    BY <1>8 DEF Die, At, callVars
  <2>2. Goto(s, "dead") => /\ task' \in [Streams -> Tasks] /\ Goes(s, "dead")
                           /\ \A r \in Streams : r # s => task'[r] = task[r]
    BY GotoTo DEF Pcs
  <2>3. Goto(s, "dead")
    BY <1>8 DEF Die
  <2> QED BY <1>0, <2>1, <2>2, <2>3 DEF Moved, TaskTypes, Others
<1>9. CASE CheckRun(s)
  <2>1. /\ task[s].pc = "run?" /\ bits' = bits /\ ctrl_sem' = ctrl_sem /\ caller' = caller
        /\ ended' = ended
    BY <1>9 DEF CheckRun, At, callVars
  <2>2. Goto(s, "pause?") => /\ task' \in [Streams -> Tasks] /\ Goes(s, "pause?")
                           /\ \A r \in Streams : r # s => task'[r] = task[r]
    BY GotoTo DEF Pcs
  <2>3. Goto(s, "top") => /\ task' \in [Streams -> Tasks] /\ Goes(s, "top")
                           /\ \A r \in Streams : r # s => task'[r] = task[r]
    BY GotoTo DEF Pcs
  <2>4. (bits[s].run /\ Goto(s, "pause?")) \/ (~bits[s].run /\ Goto(s, "top"))
    BY <1>9 DEF CheckRun
  <2> QED BY <1>0, <2>1, <2>2, <2>3, <2>4 DEF Moved, TaskTypes, Others
<1>10. CASE CheckDestroy(s)
  <2>1. /\ task[s].pc = "destroy?" /\ bits' = bits /\ ctrl_sem' = ctrl_sem /\ caller' = caller
        /\ ended' = ended
    BY <1>10 DEF CheckDestroy, At, callVars
  <2>2. Goto(s, "run?") => /\ task' \in [Streams -> Tasks] /\ Goes(s, "run?")
                           /\ \A r \in Streams : r # s => task'[r] = task[r]
    BY GotoTo DEF Pcs
  <2>3. Emit(s, "DESTROYED", "dying") => /\ task' \in [Streams -> Tasks] /\ Tells(s, "DESTROYED", "dying")
                           /\ \A r \in Streams : r # s => task'[r] = task[r]
    BY EmitTo DEF Pcs, Events
  <2>4. (bits[s].destroy /\ Emit(s, "DESTROYED", "dying")) \/ (~bits[s].destroy /\ Goto(s, "run?"))
    BY <1>10 DEF CheckDestroy
  <2> QED BY <1>0, <2>1, <2>2, <2>3, <2>4 DEF Moved, TaskTypes, Others
<1>11. CASE Left(s)
  <2>1. /\ task[s].pc = "left" /\ bits' = bits /\ ctrl_sem' = ctrl_sem /\ caller' = caller
        /\ ended' = ended
    BY <1>11 DEF Left, At, callVars
  <2>2. Goto(s, "paused?") => /\ task' \in [Streams -> Tasks] /\ Goes(s, "paused?")
                           /\ \A r \in Streams : r # s => task'[r] = task[r]
    BY GotoTo DEF Pcs
  <2>3. Emit(s, "DESTROYED", "dying") => /\ task' \in [Streams -> Tasks] /\ Tells(s, "DESTROYED", "dying")
                           /\ \A r \in Streams : r # s => task'[r] = task[r]
    BY EmitTo DEF Pcs, Events
  <2>4. (bits[s].destroy /\ Emit(s, "DESTROYED", "dying")) \/ (~bits[s].destroy /\ Goto(s, "paused?"))
    BY <1>11 DEF Left
  <2> QED BY <1>0, <2>1, <2>2, <2>3, <2>4 DEF Moved, TaskTypes, Others
<1>12. CASE LeftPaused(s)
  <2>1. /\ task[s].pc = "paused?" /\ bits' = bits /\ ctrl_sem' = ctrl_sem /\ caller' = caller
        /\ ended' = ended
    BY <1>12 DEF LeftPaused, At, callVars
  <2>2. Goto(s, "end?") => /\ task' \in [Streams -> Tasks] /\ Goes(s, "end?")
                           /\ \A r \in Streams : r # s => task'[r] = task[r]
    BY GotoTo DEF Pcs
  <2>3. Emit(s, "PAUSED", "paused") => /\ task' \in [Streams -> Tasks] /\ Tells(s, "PAUSED", "paused")
                           /\ \A r \in Streams : r # s => task'[r] = task[r]
    BY EmitTo DEF Pcs, Events
  <2>4. (bits[s].pause /\ Emit(s, "PAUSED", "paused")) \/ (~bits[s].pause /\ Goto(s, "end?"))
    BY <1>12 DEF LeftPaused
  <2> QED BY <1>0, <2>1, <2>2, <2>3, <2>4 DEF Moved, TaskTypes, Others
<1>13. CASE Cleanup(s)
  <2>1. /\ task[s].pc = "cleanup" /\ bits' = bits /\ ctrl_sem' = ctrl_sem /\ caller' = caller
        /\ ended' = ended
    BY <1>13 DEF Cleanup, At, callVars
  <2>2. Emit(s, "STOPPED", "top") => /\ task' \in [Streams -> Tasks] /\ Tells(s, "STOPPED", "top")
                           /\ \A r \in Streams : r # s => task'[r] = task[r]
    BY EmitTo DEF Pcs, Events
  <2>3. Emit(s, "STOPPED", "top")
    BY <1>13 DEF Cleanup
  <2> QED BY <1>0, <2>1, <2>2, <2>3 DEF Moved, TaskTypes, Others
<1>14. CASE Take(s)
  <2>1. task[s].pc = "take" /\ bits' = bits /\ caller' = caller /\ ended' = ended /\ Goto(s, "destroy?")
    BY <1>14 DEF Take, At, callVars
  <2>2. ctrl_sem[s] /\ ctrl_sem' = [ctrl_sem EXCEPT ![s] = FALSE]
    BY <1>14 DEF Take
  <2>3. /\ ctrl_sem' \in [Streams -> BOOLEAN] /\ ~ctrl_sem'[s]
        /\ \A r \in Streams : r # s => ctrl_sem'[r] = ctrl_sem[r]
    BY <1>0, <2>2
  <2>4. /\ task' \in [Streams -> Tasks] /\ Goes(s, "destroy?")
        /\ \A r \in Streams : r # s => task'[r] = task[r]
    BY <2>1, GotoTo DEF Pcs
  <2> QED BY <1>0, <2>1, <2>2, <2>3, <2>4 DEF Moved, TaskTypes, Others
<1>15. CASE \E ok \in BOOLEAN : ContextInit(s, ok)
  <2>1. /\ task[s].pc = "open" /\ bits' = bits /\ ctrl_sem' = ctrl_sem /\ caller' = caller
        /\ ended' = ended
    BY <1>15 DEF ContextInit, At, callVars
  <2>2. Goto(s, "unpause") => /\ task' \in [Streams -> Tasks] /\ Goes(s, "unpause")
                              /\ \A r \in Streams : r # s => task'[r] = task[r]
    BY GotoTo DEF Pcs
  <2>3. Emit(s, "FAILED", "top") => /\ task' \in [Streams -> Tasks] /\ Tells(s, "FAILED", "top")
                                    /\ \A r \in Streams : r # s => task'[r] = task[r]
    BY EmitTo DEF Pcs, Events
  <2>4. Goto(s, "unpause") \/ Emit(s, "FAILED", "top")
    BY <1>15 DEF ContextInit
  <2> QED BY <1>0, <2>1, <2>2, <2>3, <2>4 DEF Moved, TaskTypes, Others
<1>16. CASE LoadByte(s)
  <2>1. /\ task[s].pc \in {"unpause", "finish"} /\ ~AtomicBits /\ bits' = bits /\ ctrl_sem' = ctrl_sem
        /\ caller' = caller /\ ended' = ended
        /\ task' = [task EXCEPT ![s].reg = InRegister(bits[s])]
    BY <1>16 DEF LoadByte, callVars
  <2>2. task'[s] = [task[s] EXCEPT !.reg = InRegister(bits[s])] /\ \A r \in Streams : r # s => task'[r] = task[r]
    BY <1>0, <2>1
  <2>3. [task[s] EXCEPT !.reg = InRegister(bits[s])] \in Tasks
    BY <1>0, <1>a, StoresTyped DEF Tasks
  <2>4. task' \in [Streams -> Tasks]
    BY <1>0, <2>1, <2>3
  <2>5. Goes(s, task[s].pc)
    BY <1>0, <2>2 DEF Goes, Tasks
  <2> QED BY <1>0, <2>1, <2>2, <2>4, <2>5 DEF Moved, TaskTypes, Others
<1>17. CASE Unpause(s)
  <2> DEFINE byte == StoredOver(s, task[s].reg)
  <2>1. /\ task[s].pc = "unpause" /\ ctrl_sem' = ctrl_sem /\ caller' = caller
        /\ bits' = [bits EXCEPT ![s] = [byte EXCEPT !.pause = FALSE]]
        /\ task' = [task EXCEPT ![s] = [pc |-> "event", reg |-> NothingInRegister, event |-> "STARTED", next |-> "loop"]]
        /\ ended' = [ended EXCEPT ![s] = FALSE]
    BY <1>17 DEF Unpause, At, callVars
  <2>2. byte \in Bits /\ (AtomicBits => byte = bits[s]) /\ NothingInRegister \in Registers
    BY <1>a, StoresTyped
  <2> HIDE DEF byte
  <2>3. [byte EXCEPT !.pause = FALSE] \in Bits
    BY <2>2 DEF Bits
  <2>4. /\ bits'[s] = [byte EXCEPT !.pause = FALSE] /\ bits' \in [Streams -> Bits]
        /\ \A r \in Streams : r # s => bits'[r] = bits[r]
    BY <1>0, <2>1, <2>3
  <2>5. ~bits'[s].pause /\ (bits'[s].run <=> byte.run) /\ (bits'[s].destroy <=> byte.destroy)
    BY <2>2, <2>4 DEF Bits
  <2>6. [pc |-> "event", reg |-> NothingInRegister, event |-> "STARTED", next |-> "loop"] \in Tasks
    BY <2>2 DEF Tasks, Pcs, Events
  <2>7. /\ task' \in [Streams -> Tasks] /\ Tells(s, "STARTED", "loop")
        /\ \A r \in Streams : r # s => task'[r] = task[r]
    BY <1>0, <2>1, <2>6 DEF Tells
  <2>8. ended' \in [Streams -> BOOLEAN] /\ \A r \in Streams : r # s => ended'[r] = ended[r]
    BY <1>0, <2>1
  <2> QED BY <1>0, <2>1, <2>2, <2>4, <2>5, <2>7, <2>8 DEF Moved, TaskTypes, Others
<1>18. CASE Finish(s)
  <2> DEFINE byte == StoredOver(s, task[s].reg)
  <2>1. /\ task[s].pc = "finish" /\ ctrl_sem' = ctrl_sem /\ caller' = caller /\ ended' = ended
        /\ bits' = [bits EXCEPT ![s] = [byte EXCEPT !.run = FALSE]]
        /\ task' = [task EXCEPT ![s] = [task[s] EXCEPT !.pc = "judge", !.reg = NothingInRegister]]
    BY <1>18 DEF Finish, At, callVars
  <2>2. byte \in Bits /\ (AtomicBits => byte = bits[s]) /\ NothingInRegister \in Registers
    BY <1>a, StoresTyped
  <2> HIDE DEF byte
  <2>3. [byte EXCEPT !.run = FALSE] \in Bits
    BY <2>2 DEF Bits
  <2>4. /\ bits'[s] = [byte EXCEPT !.run = FALSE] /\ bits' \in [Streams -> Bits]
        /\ \A r \in Streams : r # s => bits'[r] = bits[r]
    BY <1>0, <2>1, <2>3
  <2>5. ~bits'[s].run /\ (bits'[s].pause <=> byte.pause) /\ (bits'[s].destroy <=> byte.destroy)
    BY <2>2, <2>4 DEF Bits
  <2>6. [task[s] EXCEPT !.pc = "judge", !.reg = NothingInRegister] \in Tasks
    <3>1. "judge" \in Pcs
      BY DEF Pcs
    <3> QED BY <1>0, <2>2, <3>1 DEF Tasks
  <2>7. task'[s] = [task[s] EXCEPT !.pc = "judge", !.reg = NothingInRegister]
    BY <1>0, <2>1
  <2>8. /\ task' \in [Streams -> Tasks] /\ Goes(s, "judge")
        /\ \A r \in Streams : r # s => task'[r] = task[r]
    BY <1>0, <2>1, <2>6, <2>7 DEF Goes, Tasks
  <2> QED BY <1>0, <2>1, <2>2, <2>4, <2>5, <2>8 DEF Moved, TaskTypes, Others
<1> QED BY <1>1, <1>2, <1>3, <1>4, <1>5, <1>6, <1>7, <1>8, <1>9,
           <1>10, <1>11, <1>12, <1>13, <1>14, <1>15, <1>16, <1>17, <1>18 DEF ControlStep

\* A step of an input or output function, or the end passed on.
LEMMA InputMoves ==
  ASSUME Typed, NEW s \in Streams, NEW r \in {"data", "end"}, Input(s, r)
  PROVE  /\ TaskTypes /\ Others(s) /\ caller' = caller
         /\ bits' = bits /\ ctrl_sem' = ctrl_sem /\ ended' = ended
         /\ task[s].pc = "input"
         /\ IF r = "data" THEN Goes(s, "output") ELSE Goes(s, "finish")
<1>1. /\ task[s].pc = "input" /\ bits' = bits /\ ctrl_sem' = ctrl_sem /\ caller' = caller
      /\ ended' = ended
      /\ Goto(s, IF r = "data" THEN "output" ELSE "finish")
  BY DEF Input, At, callVars
<1>2. (IF r = "data" THEN "output" ELSE "finish") \in Pcs
  BY DEF Pcs
<1>3. /\ task' \in [Streams -> Tasks] /\ Goes(s, IF r = "data" THEN "output" ELSE "finish")
      /\ \A q \in Streams : q # s => task'[q] = task[q]
  BY <1>1, <1>2, GotoTo
<1> QED BY <1>1, <1>3 DEF Typed, TaskTypes, Others

LEMMA OutputMoves ==
  ASSUME Typed, NEW s \in Streams, NEW ok \in BOOLEAN, Output(s, ok)
  PROVE  /\ TaskTypes /\ Others(s) /\ caller' = caller
         /\ bits' = bits /\ ctrl_sem' = ctrl_sem /\ ended' = ended
         /\ task[s].pc = "output"
         /\ IF ok THEN Goes(s, "judge") ELSE Goes(s, "finish")
<1>1. /\ task[s].pc = "output" /\ bits' = bits /\ ctrl_sem' = ctrl_sem /\ caller' = caller
      /\ ended' = ended
      /\ Goto(s, IF ok THEN "judge" ELSE "finish")
  BY DEF Output, At, callVars
<1>2. (IF ok THEN "judge" ELSE "finish") \in Pcs
  BY DEF Pcs
<1>3. /\ task' \in [Streams -> Tasks] /\ Goes(s, IF ok THEN "judge" ELSE "finish")
      /\ \A q \in Streams : q # s => task'[q] = task[q]
  BY <1>1, <1>2, GotoTo
<1> QED BY <1>1, <1>3 DEF Typed, TaskTypes, Others

LEMMA EndMoves ==
  ASSUME Typed, NEW s \in Streams, SignalEnd(s)
  PROVE  /\ TaskTypes /\ Others(s) /\ caller' = caller
         /\ bits' = bits /\ ctrl_sem' = ctrl_sem /\ ended'[s]
         /\ task[s].pc = "eos" /\ Goes(s, "cleanup")
<1>1. /\ task[s].pc = "eos" /\ bits' = bits /\ ctrl_sem' = ctrl_sem /\ caller' = caller
      /\ Goto(s, "cleanup") /\ ended' = [ended EXCEPT ![s] = TRUE]
  BY DEF SignalEnd, At, callVars
<1>2. /\ task' \in [Streams -> Tasks] /\ Goes(s, "cleanup")
      /\ \A q \in Streams : q # s => task'[q] = task[q]
  BY <1>1, GotoTo DEF Pcs
<1>3. /\ ended' \in [Streams -> BOOLEAN] /\ ended'[s]
      /\ \A q \in Streams : q # s => ended'[q] = ended[q]
  BY <1>1 DEF Typed
<1> QED BY <1>1, <1>2, <1>3 DEF Typed, TaskTypes, Others

\* The callback has returned.
LEMMA EventMoves ==
  ASSUME Typed, NEW s \in Streams, EventDone(s)
  PROVE  /\ TaskTypes /\ Others(s) /\ caller' = caller
         /\ bits' = bits /\ ctrl_sem' = ctrl_sem /\ ended' = ended
         /\ task[s].pc = "event" /\ task'[s].pc = task[s].next
         /\ task'[s].event = "none" /\ task'[s].next = "top"
<1>1. /\ task[s].pc = "event" /\ bits' = bits /\ ctrl_sem' = ctrl_sem /\ caller' = caller
      /\ ended' = ended
      /\ task' = [task EXCEPT ![s] = [task[s] EXCEPT !.pc = task[s].next, !.event = "none", !.next = "top"]]
  BY DEF EventDone, At, callVars
<1>2. task \in [Streams -> Tasks]
  BY DEF Typed
<1>3. [task[s] EXCEPT !.pc = task[s].next, !.event = "none", !.next = "top"] \in Tasks
  <2>1. "top" \in Pcs /\ "none" \in Events
    BY DEF Pcs, Events
  <2> QED BY <1>2, <2>1 DEF Tasks
<1>4. /\ task'[s] = [task[s] EXCEPT !.pc = task[s].next, !.event = "none", !.next = "top"]
      /\ \A q \in Streams : q # s => task'[q] = task[q]
  BY <1>1, <1>2
<1>5. task' \in [Streams -> Tasks]
  BY <1>1, <1>2, <1>3
<1>6. task'[s].pc = task[s].next /\ task'[s].event = "none" /\ task'[s].next = "top"
  BY <1>2, <1>4 DEF Tasks
<1> QED BY <1>1, <1>4, <1>5, <1>6 DEF Typed, TaskTypes, Others

----------------------------------------------------------------------------
(* A pipeline at rest is not started.                                       *)

\* A task outside its callbacks stays alive, and what it reports is paired with where it
\* goes on.
LEMMA MovedAlive ==
  ASSUME Typed, NEW s \in Streams, Moved(s), Reporting(s), callback' = callback
  PROVE  Reporting(s)' /\ (Alive(s) => Alive(s)')
<1>1. task[s].pc # "event" /\ callback[s] = "out" /\ callback'[s] = "out"
  BY DEF Moved, Reporting, At
<1>2. task[s].pc \in Pcs
  BY DEF Typed, Tasks
<1>3. task'[s].pc = "event" =>
        \/ task'[s].event = "STARTED" /\ task'[s].next = "loop"
        \/ task'[s].event = "PAUSED" /\ task'[s].next = "paused"
        \/ task'[s].event \in {"STOPPED", "FAILED"} /\ task'[s].next = "top"
        \/ task'[s].event = "DESTROYED" /\ task'[s].next = "dying"
  <2>1. CASE task[s].pc \in {"destroy?", "left"}
    <3>1. Tells(s, "DESTROYED", "dying") \/ Goes(s, "run?") \/ Goes(s, "paused?")
      BY <2>1 DEF Moved
    <3> QED BY <3>1 DEF Goes, Tells
  <2>1a. CASE task[s].pc \in {"open", "unpause"}
    <3>1. Tells(s, "FAILED", "top") \/ Tells(s, "STARTED", "loop") \/ Goes(s, "unpause")
      BY <2>1a DEF Moved
    <3>2. CASE Tells(s, "FAILED", "top")
      BY <3>2 DEF Tells
    <3>3. CASE Tells(s, "STARTED", "loop")
      BY <3>3 DEF Tells
    <3>4. CASE Goes(s, "unpause")
      BY <3>4 DEF Goes
    <3> QED BY <3>1, <3>2, <3>3, <3>4
  <2>1b. CASE task[s].pc \in {"paused?", "cleanup"}
    <3>1. Tells(s, "PAUSED", "paused") \/ Tells(s, "STOPPED", "top") \/ Goes(s, "end?")
      BY <2>1b DEF Moved
    <3>2. CASE Tells(s, "PAUSED", "paused")
      BY <3>2 DEF Tells
    <3>3. CASE Tells(s, "STOPPED", "top")
      BY <3>3 DEF Tells
    <3>4. CASE Goes(s, "end?")
      BY <3>4 DEF Goes
    <3> QED BY <3>1, <3>2, <3>3, <3>4
  <2>2. CASE task[s].pc \in {"top", "take", "run?", "pause?", "loop", "finish"}
    BY <2>2 DEF Moved, Goes
  <2>3. CASE task[s].pc \in {"judge", "paused", "end?", "dying", "die"}
    BY <2>3 DEF Moved, Goes
  <2>4. task[s].pc \notin {"dead", "event", "input", "output", "eos"}
    BY DEF Moved
  <2> QED BY <1>2, <2>1, <2>1a, <2>1b, <2>2, <2>3, <2>4 DEF Pcs
<1>4. Reporting(s)'
  BY <1>1, <1>3 DEF Reporting, At
<1>5. ASSUME Alive(s) PROVE Alive(s)'
  <2>1. task[s].pc \in {"loop", "finish", "judge", "left", "paused?", "end?", "cleanup", "dying", "die"}
    BY <1>1, <1>5 DEF Alive, Running, At, Moved
  <2> QED BY <1>1, <2>1 DEF Moved, Alive, Running, At, Goes, Tells
<1> QED BY <1>4, <1>5

\* The other stream is as it was.
LEMMA OtherAlive ==
  ASSUME NEW s \in Streams, NEW r \in Streams, r # s, Others(s), callback'[r] = callback[r]
  PROVE  (Reporting(r)' <=> Reporting(r)) /\ (Alive(r)' <=> Alive(r))
BY DEF Others, Reporting, Alive, Running, At

\* The parts of PhantomInv after a step that leaves the pipeline's state alone.
LEMMA StillAlive ==
  ASSUME PhantomInv, NEW s \in Streams, Others(s), p_state' = p_state,
         \A r \in Streams : r # s => callback'[r] = callback[r],
         Reporting(s)', Alive(s) => Alive(s)'
  PROVE  (\A r \in Streams : Reporting(r)') /\ SomeAlive'
<1>1. \A r \in Streams : r # s => (Reporting(r)' <=> Reporting(r)) /\ (Alive(r)' <=> Alive(r))
  BY OtherAlive
<1>2. \A r \in Streams : Reporting(r)'
  BY <1>1 DEF PhantomInv
<1>3. SomeAlive'
  <2> SUFFICES ASSUME p_state' = "STARTED" PROVE \E r \in Streams : Alive(r)'
    BY DEF SomeAlive
  <2>1. PICK r \in Streams : Alive(r)
    BY DEF PhantomInv, SomeAlive
  <2>2. Alive(r)'
    BY <1>1, <2>1
  <2> QED BY <2>2
<1> QED BY <1>2, <1>3

\* A step of a stream's own loop.
LEMMA BlockPhantom ==
  ASSUME PhantomInv, NEW s \in Streams, ControlStep(s), UNCHANGED pipeVars
  PROVE  PhantomInv'
<1>1. Moved(s)
  BY ControlMoves DEF PhantomInv
<1>2. /\ callback' = callback /\ p_state' = p_state /\ app' = app /\ rb1' = rb1
      /\ p_lock' = p_lock /\ old_state' = old_state
  BY DEF pipeVars
<1>3. Typed'
  BY <1>1, <1>2 DEF PhantomInv, Typed, PipeTypeOK, Moved, TaskTypes
<1>4. Reporting(s)' /\ (Alive(s) => Alive(s)')
  BY <1>1, <1>2, MovedAlive DEF PhantomInv
<1>5. (\A r \in Streams : Reporting(r)') /\ SomeAlive'
  BY <1>1, <1>2, <1>4, StillAlive DEF Moved
<1> QED BY <1>3, <1>5 DEF PhantomInv

\* A call of an input or output function.
LEMMA FlowPhantom ==
  ASSUME PhantomInv, SourceRead \/ SinkWrite \/ RingStep
  PROVE  PhantomInv'
<1> DEFINE Flow(s) == /\ TaskTypes /\ Others(s) /\ caller' = caller
                      /\ \/ task[s].pc = "input" /\ (Goes(s, "output") \/ Goes(s, "finish"))
                         \/ task[s].pc = "output" /\ (Goes(s, "judge") \/ Goes(s, "finish"))
                         \/ task[s].pc = "eos" /\ Goes(s, "cleanup")
<1>a. In \in Streams /\ Out \in Streams /\ Capacity \in Nat
  BY PipeAssumption
<1>b. Typed /\ rb1 \in [fill : 0..Capacity, finished : BOOLEAN, freed : BOOLEAN]
  BY DEF PhantomInv, Typed, PipeTypeOK
<1>1. \E s \in Streams : Flow(s)
  <2>1. CASE SourceRead
    <3>1. PICK r \in {"data", "end"} : Input(In, r)
      BY <2>1 DEF SourceRead
    <3>2. Flow(In)
      BY <1>a, <1>b, <3>1, InputMoves
    <3> QED BY <1>a, <3>2
  <2>2. CASE SinkWrite
    <3>1. PICK ok \in BOOLEAN : Output(Out, ok)
      BY <2>2 DEF SinkWrite
    <3>2. Flow(Out)
      BY <1>a, <1>b, <3>1, OutputMoves
    <3> QED BY <1>a, <3>2
  <2>3. CASE RbWrite \/ RbWriteFinished
    <3>1. PICK ok \in BOOLEAN : Output(In, ok)
      BY <2>3 DEF RbWrite, RbWriteFinished
    <3>2. Flow(In)
      BY <1>a, <1>b, <3>1, OutputMoves
    <3> QED BY <1>a, <3>2
  <2>4. CASE RbWriteEnd
    <3>1. Flow(In)
      BY <1>a, <1>b, <2>4, EndMoves DEF RbWriteEnd
    <3> QED BY <1>a, <3>1
  <2>5. CASE RbRead
    <3>1. PICK r \in {"data", "end"} : Input(Out, r)
      BY <2>5 DEF RbRead
    <3>2. Flow(Out)
      BY <1>a, <1>b, <3>1, InputMoves
    <3> QED BY <1>a, <3>2
  <2> QED BY <2>1, <2>2, <2>3, <2>4, <2>5 DEF RingStep
<1>2. PICK s \in Streams : Flow(s)
  BY <1>1
<1>3. /\ callback' = callback /\ p_state' = p_state /\ app' = app
      /\ p_lock' = p_lock /\ old_state' = old_state
  BY DEF SourceRead, SinkWrite, RingStep, RbWrite, RbWriteFinished, RbWriteEnd, RbRead, pipeVars
<1>4. rb1' \in [fill : 0..Capacity, finished : BOOLEAN, freed : BOOLEAN]
  <2>1. CASE rb1' = rb1
    BY <1>b, <2>1
  <2>2. CASE RbWrite
    <3>1. rb1.fill \in Nat /\ rb1.fill + 1 \in 0..Capacity /\ rb1' = [rb1 EXCEPT !.fill = rb1.fill + 1]
      BY <1>a, <1>b, <2>2 DEF RbWrite
    <3> QED BY <1>b, <3>1
  <2>3. CASE RbWriteEnd
    BY <1>b, <2>3 DEF RbWriteEnd
  <2>4. CASE rb1.fill > 0 /\ rb1' = [rb1 EXCEPT !.fill = rb1.fill - 1]
    <3>1. rb1.fill - 1 \in 0..Capacity
      BY <1>a, <1>b, <2>4
    <3> QED BY <1>b, <2>4, <3>1
  <2>5. rb1' = rb1 \/ RbWrite \/ RbWriteEnd \/ (rb1.fill > 0 /\ rb1' = [rb1 EXCEPT !.fill = rb1.fill - 1])
    BY DEF SourceRead, SinkWrite, RingStep, RbWriteFinished, RbRead, pipeVars
  <2> QED BY <2>1, <2>2, <2>3, <2>4, <2>5
<1>5. Typed'
  BY <1>2, <1>3, <1>4 DEF PhantomInv, Typed, PipeTypeOK, TaskTypes
<1>6. Reporting(s)' /\ (Alive(s) => Alive(s)')
  BY <1>2, <1>3 DEF PhantomInv, Reporting, Alive, Running, At, Goes
<1>7. (\A r \in Streams : Reporting(r)') /\ SomeAlive'
  BY <1>2, <1>3, <1>6, StillAlive
<1> QED BY <1>5, <1>7 DEF PhantomInv

\* A step of a callback: what it tells the pipeline is what its stream then is.
LEMMA CallbackPhantom ==
  ASSUME PhantomInv, NEW s \in Streams, CbStep(s)
  PROVE  PhantomInv'
<1>a. /\ Typed /\ callback \in [Streams -> {"out", "state", "compare", "call"}]
      /\ task \in [Streams -> Tasks] /\ Reporting(s)
  BY DEF PhantomInv, Typed, PipeTypeOK
<1>1. CASE CbLock(s)
  <2>1. /\ task' = task /\ bits' = bits /\ ctrl_sem' = ctrl_sem /\ caller' = caller /\ ended' = ended
        /\ rb1' = rb1 /\ p_state' = p_state /\ app' = app /\ p_lock' = s /\ old_state' = p_state
        /\ callback' = [callback EXCEPT ![s] = "state"] /\ callback[s] = "out" /\ task[s].pc = "event"
    BY <1>1 DEF CbLock, vars, streamVars, callVars, At
  <2>2. /\ callback' \in [Streams -> {"out", "state", "compare", "call"}] /\ callback'[s] = "state"
        /\ \A r \in Streams : r # s => callback'[r] = callback[r]
    BY <1>a, <2>1
  <2>3. Typed'
    BY <2>1, <2>2 DEF PhantomInv, Typed, PipeTypeOK
  <2>4. Others(s)
    BY <2>1 DEF Others
  <2>5. Reporting(s)' /\ (Alive(s) => Alive(s)')
    BY <1>a, <2>1, <2>2 DEF Reporting, Alive, Running, At
  <2>6. (\A r \in Streams : Reporting(r)') /\ SomeAlive'
    BY <2>1, <2>2, <2>4, <2>5, StillAlive
  <2> QED BY <2>3, <2>6 DEF PhantomInv
<1>2. CASE CbState(s)
  <2>1. /\ task' = task /\ bits' = bits /\ ctrl_sem' = ctrl_sem /\ caller' = caller /\ ended' = ended
        /\ rb1' = rb1 /\ app' = app /\ p_lock' = "free" /\ old_state' = old_state
        /\ callback' = [callback EXCEPT ![s] = "compare"] /\ callback[s] = "state"
        /\ p_state' = IF task[s].event \in {"STARTED", "STOPPED", "PAUSED"} THEN task[s].event ELSE p_state
    BY <1>2 DEF CbState, StateOf, vars, streamVars, callVars
  <2>2. /\ callback' \in [Streams -> {"out", "state", "compare", "call"}] /\ callback'[s] = "compare"
        /\ \A r \in Streams : r # s => callback'[r] = callback[r]
    BY <1>a, <2>1
  <2>3. task[s].pc = "event"
    BY <1>a, <2>1 DEF Reporting, At
  <2>4. Typed'
    BY <2>1, <2>2 DEF PhantomInv, Typed, PipeTypeOK
  <2>5. \A r \in Streams : r # s => (Reporting(r)' <=> Reporting(r)) /\ (Alive(r)' <=> Alive(r))
    BY <2>1, <2>2, OtherAlive DEF Others
  <2>6. Reporting(s)'
    BY <1>a, <2>1, <2>2 DEF Reporting, At
  <2>7. \A r \in Streams : Reporting(r)'
    BY <2>5, <2>6 DEF PhantomInv
  <2>8. SomeAlive'
    <3>1. CASE task[s].event = "STARTED"
      <4>1. Alive(s)'
        BY <2>1, <2>2, <2>3, <3>1 DEF Alive, Running, At
      <4> QED BY <4>1 DEF SomeAlive
    <3>2. CASE task[s].event \in {"STOPPED", "PAUSED"}
      BY <2>1, <3>2 DEF SomeAlive
    <3>3. CASE task[s].event \notin {"STARTED", "STOPPED", "PAUSED"}
      <4>1. p_state' = p_state
        BY <2>1, <3>3
      <4>2. Alive(s) => Alive(s)'
        BY <2>1, <2>3, <3>3 DEF Alive, Running, At
      <4>3. Others(s)
        BY <2>1 DEF Others
      <4> QED BY <2>2, <2>6, <4>1, <4>2, <4>3, StillAlive
    <3> QED BY <3>1, <3>2, <3>3
  <2> QED BY <2>4, <2>7, <2>8 DEF PhantomInv
<1>3. ASSUME EventDone(s), callback[s] \in {"compare", "call"},
             callback' = [callback EXCEPT ![s] = "out"],
             p_state' = p_state, rb1' = rb1, p_lock' = p_lock, old_state' = old_state,
             app' \in [pc : AppPcs, op : PipeOps \cup {"none"}, told : BOOLEAN],
             app'.pc = app.pc, app'.op = app.op
      PROVE  PhantomInv'
  <2>1. /\ TaskTypes /\ Others(s) /\ caller' = caller
        /\ task[s].pc = "event" /\ task'[s].pc = task[s].next
    BY <1>3, <1>a, EventMoves
  <2>2. /\ callback' \in [Streams -> {"out", "state", "compare", "call"}] /\ callback'[s] = "out"
        /\ \A r \in Streams : r # s => callback'[r] = callback[r]
    BY <1>a, <1>3
  <2>3. Typed'
    BY <1>3, <2>1, <2>2 DEF PhantomInv, Typed, PipeTypeOK, AppPcs, TaskTypes
  <2>4. /\ task[s].event \in Events /\ task[s].next \in Pcs
    BY <1>a DEF Tasks
  <2>5. task[s].next \in {"loop", "paused", "top", "dying"}
    BY <1>a, <2>1, <2>4 DEF Reporting, At, Events
  <2>6. Reporting(s)'
    BY <2>1, <2>2, <2>5 DEF Reporting, At
  <2>7. Alive(s) => Alive(s)'
    BY <1>3, <1>a, <2>1 DEF Alive, Running, Reporting, At
  <2>8. (\A r \in Streams : Reporting(r)') /\ SomeAlive'
    BY <1>3, <2>1, <2>2, <2>6, <2>7, StillAlive
  <2> QED BY <2>3, <2>8 DEF PhantomInv
<1>4. CASE CbCompare(s)
  <2>1. CASE old_state # p_state
    <3>1. /\ task' = task /\ bits' = bits /\ ctrl_sem' = ctrl_sem /\ caller' = caller /\ ended' = ended
          /\ rb1' = rb1 /\ p_state' = p_state /\ app' = app /\ p_lock' = p_lock /\ old_state' = old_state
          /\ callback' = [callback EXCEPT ![s] = "call"] /\ callback[s] = "compare"
      BY <1>4, <2>1 DEF CbCompare, vars, streamVars, callVars
    <3>2. /\ callback' \in [Streams -> {"out", "state", "compare", "call"}] /\ callback'[s] = "call"
          /\ \A r \in Streams : r # s => callback'[r] = callback[r]
      BY <1>a, <3>1
    <3>3. Typed'
      BY <3>1, <3>2 DEF PhantomInv, Typed, PipeTypeOK
    <3>4. Others(s)
      BY <3>1 DEF Others
    <3>5. Reporting(s)' /\ (Alive(s) => Alive(s)')
      BY <1>a, <3>1, <3>2 DEF Reporting, Alive, Running, At
    <3>6. (\A r \in Streams : Reporting(r)') /\ SomeAlive'
      BY <3>1, <3>2, <3>4, <3>5, StillAlive
    <3> QED BY <3>3, <3>6 DEF PhantomInv
  <2>2. CASE ~(old_state # p_state)
    BY <1>3, <1>4, <2>2 DEF CbCompare, PhantomInv, Typed
  <2> QED BY <2>1, <2>2
<1>5. CASE CbCall(s)
  <2>1. app' = [app EXCEPT !.told = (app.told \/ p_state = Answer(app.op))]
    BY <1>5 DEF CbCall
  <2>2. /\ app' \in [pc : AppPcs, op : PipeOps \cup {"none"}, told : BOOLEAN]
        /\ app'.pc = app.pc /\ app'.op = app.op
    BY <1>a, <2>1 DEF Typed
  <2> QED BY <1>3, <1>5, <2>2 DEF CbCall
<1> QED BY <1>1, <1>2, <1>4, <1>5 DEF CbStep

BlockActs == StoreActs \cup {"give", "join"}

\* The acts of a control function of a stream, and two scripts one after the other.
LEMMA OnSeq ==
  ASSUME NEW s \in Streams, NEW script \in Seq(BlockActs)
  PROVE  /\ On(s, script) \in Seq(PipeActs) /\ Len(On(s, script)) = Len(script)
         /\ \A i \in 1..Len(script) : On(s, script)[i] = [stream |-> s, act |-> script[i]]
<1>1. DOMAIN script = 1..Len(script) /\ Len(script) \in Nat
  OBVIOUS
<1>2. \A i \in 1..Len(script) : [stream |-> s, act |-> script[i]] \in PipeActs
  BY <1>1 DEF BlockActs, PipeActs
<1>3. On(s, script) = [i \in 1..Len(script) |-> [stream |-> s, act |-> script[i]]]
  BY <1>1 DEF On
<1>4. ASSUME NEW n \in Nat, NEW q \in [1..n -> PipeActs]
      PROVE  q \in Seq(PipeActs) /\ Len(q) = n
  BY <1>4
<1>5. On(s, script) \in [1..Len(script) -> PipeActs]
  BY <1>2, <1>3
<1> QED BY <1>1, <1>3, <1>4, <1>5

LEMMA Then ==
  ASSUME NEW p \in Seq(PipeActs), NEW q \in Seq(PipeActs)
  PROVE  /\ p \o q \in Seq(PipeActs) /\ Len(p \o q) = Len(p) + Len(q)
         /\ \A i \in 1..Len(p) : (p \o q)[i] = p[i]
         /\ \A i \in 1..Len(q) : (p \o q)[Len(p) + i] = q[i]
<1>1. ASSUME NEW S, NEW r \in Seq(S), NEW t \in Seq(S)
      PROVE  /\ r \o t \in Seq(S) /\ Len(r \o t) = Len(r) + Len(t)
             /\ \A i \in 1..Len(r) : (r \o t)[i] = r[i]
             /\ \A i \in 1..Len(t) : (r \o t)[Len(r) + i] = t[i]
  BY <1>1
<1> QED BY <1>1

\* What each call does, act by act.
LEMMA StartScript ==
  /\ PipeScript("start") \in Seq(PipeActs) /\ Len(PipeScript("start")) = 7
  /\ PipeScript("start")[1] = [stream |-> In, act |-> "rb_reset"]
  /\ PipeScript("start")[2] = [stream |-> In, act |-> "run"]
  /\ PipeScript("start")[3] = [stream |-> In, act |-> "unpause"]
  /\ PipeScript("start")[4] = [stream |-> In, act |-> "give"]
  /\ PipeScript("start")[5] = [stream |-> Out, act |-> "run"]
  /\ PipeScript("start")[6] = [stream |-> Out, act |-> "unpause"]
  /\ PipeScript("start")[7] = [stream |-> Out, act |-> "give"]
<1> DEFINE ring == Ring("rb_reset")
           ctl  == <<"run", "unpause", "give">>
<1>1. /\ In \in Streams /\ Out \in Streams
      /\ ctl \in Seq(BlockActs) /\ Len(ctl) = 3 /\ ctl[1] = "run" /\ ctl[2] = "unpause" /\ ctl[3] = "give"
  BY PipeAssumption DEF BlockActs, StoreActs
<1>2. ring \in Seq(PipeActs) /\ Len(ring) = 1 /\ ring[1] = [stream |-> In, act |-> "rb_reset"]
  BY <1>1 DEF Ring, PipeActs
<1>3. PipeScript("start") = (ring \o On(In, ctl)) \o On(Out, ctl)
  BY DEF PipeScript, Script
<1> HIDE DEF ring, ctl
<1>4. /\ On(In, ctl) \in Seq(PipeActs) /\ Len(On(In, ctl)) = 3
      /\ \A i \in 1..3 : On(In, ctl)[i] = [stream |-> In, act |-> ctl[i]]
  BY <1>1, OnSeq
<1>5. /\ On(Out, ctl) \in Seq(PipeActs) /\ Len(On(Out, ctl)) = 3
      /\ \A i \in 1..3 : On(Out, ctl)[i] = [stream |-> Out, act |-> ctl[i]]
  BY <1>1, OnSeq
<1>6. /\ ring \o On(In, ctl) \in Seq(PipeActs) /\ Len(ring \o On(In, ctl)) = 4
      /\ \A i \in 1..1 : (ring \o On(In, ctl))[i] = ring[i]
      /\ \A i \in 1..3 : (ring \o On(In, ctl))[1 + i] = On(In, ctl)[i]
  <2>1. /\ ring \o On(In, ctl) \in Seq(PipeActs)
        /\ Len(ring \o On(In, ctl)) = Len(ring) + Len(On(In, ctl))
        /\ \A i \in 1..Len(ring) : (ring \o On(In, ctl))[i] = ring[i]
        /\ \A i \in 1..Len(On(In, ctl)) : (ring \o On(In, ctl))[Len(ring) + i] = On(In, ctl)[i]
    BY <1>2, <1>4, Then
  <2> QED BY <1>2, <1>4, <2>1
<1>7. /\ PipeScript("start") \in Seq(PipeActs) /\ Len(PipeScript("start")) = 7
      /\ \A i \in 1..4 : PipeScript("start")[i] = (ring \o On(In, ctl))[i]
      /\ \A i \in 1..3 : PipeScript("start")[4 + i] = On(Out, ctl)[i]
  <2> DEFINE first == ring \o On(In, ctl)
             last  == On(Out, ctl)
             whole == first \o last
  <2> HIDE DEF first, last
  <2>1. first \in Seq(PipeActs) /\ Len(first) = 4 /\ last \in Seq(PipeActs) /\ Len(last) = 3
    BY <1>5, <1>6 DEF first, last
  <2>2. /\ whole \in Seq(PipeActs) /\ Len(whole) = Len(first) + Len(last)
        /\ \A i \in 1..Len(first) : whole[i] = first[i]
        /\ \A i \in 1..Len(last) : whole[Len(first) + i] = last[i]
    BY <2>1, Then
  <2>3. PipeScript("start") = whole
    BY <1>3 DEF first, last
  <2> HIDE DEF whole
  <2>4. /\ PipeScript("start") \in Seq(PipeActs) /\ Len(PipeScript("start")) = 7
        /\ \A i \in 1..4 : PipeScript("start")[i] = first[i]
        /\ \A i \in 1..3 : PipeScript("start")[4 + i] = last[i]
    BY <2>1, <2>2, <2>3
  <2> QED BY <2>4 DEF first, last
<1> QED BY <1>1, <1>2, <1>4, <1>5, <1>6, <1>7, SMTT(40)

LEMMA StopScript ==
  /\ PipeScript("stop") \in Seq(PipeActs) /\ Len(PipeScript("stop")) = 3
  /\ PipeScript("stop")[1] = [stream |-> In, act |-> "halt"]
  /\ PipeScript("stop")[2] = [stream |-> In, act |-> "unpause"]
  /\ PipeScript("stop")[3] = [stream |-> In, act |-> "give"]
<1> DEFINE ctl == <<"halt", "unpause", "give">>
<1>1. /\ In \in Streams /\ ctl \in Seq(BlockActs) /\ Len(ctl) = 3 /\ ctl[1] = "halt"
      /\ ctl[2] = "unpause" /\ ctl[3] = "give"
  BY PipeAssumption DEF BlockActs, StoreActs
<1>2. PipeScript("stop") = On(In, ctl)
  BY DEF PipeScript, Script
<1> HIDE DEF ctl
<1> QED BY <1>1, <1>2, OnSeq

LEMMA PauseScript ==
  /\ PipeScript("pause") \in Seq(PipeActs) /\ Len(PipeScript("pause")) = 1
  /\ PipeScript("pause")[1] = [stream |-> Out, act |-> "pause"]
<1> DEFINE ctl == <<"pause">>
<1>1. Out \in Streams /\ ctl \in Seq(BlockActs) /\ Len(ctl) = 1 /\ ctl[1] = "pause"
  BY PipeAssumption DEF BlockActs, StoreActs
<1>2. PipeScript("pause") = On(Out, ctl)
  BY DEF PipeScript, Script
<1> HIDE DEF ctl
<1> QED BY <1>1, <1>2, OnSeq

LEMMA ResumeScript ==
  /\ PipeScript("resume") \in Seq(PipeActs) /\ Len(PipeScript("resume")) = 2
  /\ PipeScript("resume")[1] = [stream |-> Out, act |-> "unpause"]
  /\ PipeScript("resume")[2] = [stream |-> Out, act |-> "give"]
<1> DEFINE ctl == <<"unpause", "give">>
<1>1. Out \in Streams /\ ctl \in Seq(BlockActs) /\ Len(ctl) = 2 /\ ctl[1] = "unpause" /\ ctl[2] = "give"
  BY PipeAssumption DEF BlockActs, StoreActs
<1>2. PipeScript("resume") = On(Out, ctl)
  BY DEF PipeScript, Script
<1> HIDE DEF ctl
<1> QED BY <1>1, <1>2, OnSeq

LEMMA DestroyScript ==
  /\ PipeScript("destroy") \in Seq(PipeActs) /\ Len(PipeScript("destroy")) = 7
  /\ PipeScript("destroy")[1] = [stream |-> In, act |-> "rb_cleanup"]
  /\ PipeScript("destroy")[2] = [stream |-> In, act |-> "destroy"]
  /\ PipeScript("destroy")[3] = [stream |-> In, act |-> "give"]
  /\ PipeScript("destroy")[4] = [stream |-> In, act |-> "join"]
  /\ PipeScript("destroy")[5] = [stream |-> Out, act |-> "destroy"]
  /\ PipeScript("destroy")[6] = [stream |-> Out, act |-> "give"]
  /\ PipeScript("destroy")[7] = [stream |-> Out, act |-> "join"]
<1> DEFINE ring == Ring("rb_cleanup")
           ctl  == <<"destroy", "give", "join">>
<1>1. /\ In \in Streams /\ Out \in Streams
      /\ ctl \in Seq(BlockActs) /\ Len(ctl) = 3 /\ ctl[1] = "destroy" /\ ctl[2] = "give" /\ ctl[3] = "join"
  BY PipeAssumption DEF BlockActs, StoreActs
<1>2. ring \in Seq(PipeActs) /\ Len(ring) = 1 /\ ring[1] = [stream |-> In, act |-> "rb_cleanup"]
  BY <1>1 DEF Ring, PipeActs
<1>3. PipeScript("destroy") = (ring \o On(In, ctl)) \o On(Out, ctl)
  BY DEF PipeScript, Script
<1> HIDE DEF ring, ctl
<1>4. /\ On(In, ctl) \in Seq(PipeActs) /\ Len(On(In, ctl)) = 3
      /\ \A i \in 1..3 : On(In, ctl)[i] = [stream |-> In, act |-> ctl[i]]
  BY <1>1, OnSeq
<1>5. /\ On(Out, ctl) \in Seq(PipeActs) /\ Len(On(Out, ctl)) = 3
      /\ \A i \in 1..3 : On(Out, ctl)[i] = [stream |-> Out, act |-> ctl[i]]
  BY <1>1, OnSeq
<1>6. /\ ring \o On(In, ctl) \in Seq(PipeActs) /\ Len(ring \o On(In, ctl)) = 4
      /\ \A i \in 1..1 : (ring \o On(In, ctl))[i] = ring[i]
      /\ \A i \in 1..3 : (ring \o On(In, ctl))[1 + i] = On(In, ctl)[i]
  <2>1. /\ ring \o On(In, ctl) \in Seq(PipeActs)
        /\ Len(ring \o On(In, ctl)) = Len(ring) + Len(On(In, ctl))
        /\ \A i \in 1..Len(ring) : (ring \o On(In, ctl))[i] = ring[i]
        /\ \A i \in 1..Len(On(In, ctl)) : (ring \o On(In, ctl))[Len(ring) + i] = On(In, ctl)[i]
    BY <1>2, <1>4, Then
  <2> QED BY <1>2, <1>4, <2>1
<1>7. /\ PipeScript("destroy") \in Seq(PipeActs) /\ Len(PipeScript("destroy")) = 7
      /\ \A i \in 1..4 : PipeScript("destroy")[i] = (ring \o On(In, ctl))[i]
      /\ \A i \in 1..3 : PipeScript("destroy")[4 + i] = On(Out, ctl)[i]
  <2> DEFINE first == ring \o On(In, ctl)
             last  == On(Out, ctl)
             whole == first \o last
  <2> HIDE DEF first, last
  <2>1. first \in Seq(PipeActs) /\ Len(first) = 4 /\ last \in Seq(PipeActs) /\ Len(last) = 3
    BY <1>5, <1>6 DEF first, last
  <2>2. /\ whole \in Seq(PipeActs) /\ Len(whole) = Len(first) + Len(last)
        /\ \A i \in 1..Len(first) : whole[i] = first[i]
        /\ \A i \in 1..Len(last) : whole[Len(first) + i] = last[i]
    BY <2>1, Then
  <2>3. PipeScript("destroy") = whole
    BY <1>3 DEF first, last
  <2> HIDE DEF whole
  <2>4. /\ PipeScript("destroy") \in Seq(PipeActs) /\ Len(PipeScript("destroy")) = 7
        /\ \A i \in 1..4 : PipeScript("destroy")[i] = first[i]
        /\ \A i \in 1..3 : PipeScript("destroy")[4 + i] = last[i]
    BY <2>1, <2>2, <2>3
  <2> QED BY <2>4 DEF first, last
<1> QED BY <1>1, <1>2, <1>4, <1>5, <1>6, <1>7, SMTT(40)

LEMMA ScriptType ==
  ASSUME NEW op \in {"start", "stop", "pause", "resume", "destroy"}
  PROVE  PipeScript(op) \in Seq(PipeActs)
BY StartScript, StopScript, PauseScript, ResumeScript, DestroyScript

\* The first act of a call and what is left after it.
LEMMA FirstAct ==
  ASSUME Typed, InCall(App)
  PROVE  /\ Head(Todo) \in PipeActs /\ Target(App) \in Streams
         /\ Tail(Todo) \in Seq(PipeActs) /\ Owed \in Nat \ {0} /\ Len(Tail(Todo)) = Owed - 1
         /\ Todo[1] = Head(Todo)
         /\ \A i \in 1..(Owed - 1) : Tail(Todo)[i] = Todo[i + 1]
<1>1. Todo \in Seq(PipeActs) /\ Todo # <<>>
  BY PipeAssumption DEF Typed, InCall, Todo
<1>2. ASSUME NEW S, NEW q \in Seq(S), q # <<>>
      PROVE  /\ Head(q) \in S /\ Tail(q) \in Seq(S) /\ Len(q) \in Nat \ {0} /\ Len(Tail(q)) = Len(q) - 1
             /\ q[1] = Head(q) /\ \A i \in 1..(Len(q) - 1) : Tail(q)[i] = q[i + 1]
  BY <1>2
<1>3. /\ Head(Todo) \in PipeActs /\ Tail(Todo) \in Seq(PipeActs) /\ Owed \in Nat \ {0}
      /\ Len(Tail(Todo)) = Owed - 1 /\ Todo[1] = Head(Todo)
      /\ \A i \in 1..(Owed - 1) : Tail(Todo)[i] = Todo[i + 1]
  BY <1>1, <1>2 DEF Owed
<1>4. Target(App) = Head(Todo).stream
  BY DEF Target, Todo
<1> QED BY <1>3, <1>4 DEF PipeActs

\* Storing one bit in a byte gives a byte.
LEMMA SetBitType ==
  ASSUME NEW byte \in Bits, NEW act \in StoreActs
  PROVE  SetBit(act, byte) \in Bits
BY DEF SetBit, StoreActs, Bits

\* An act of a call leaves the rest of it.
LEMMA ActMoves ==
  ASSUME Typed, InCall(App), ActDone(App)
  PROVE  caller' \in [Callers -> [todo : Seq(PipeActs), reg : Registers]] /\ Todo' = Tail(Todo)
<1>1. Tail(Todo) \in Seq(PipeActs) /\ App \in Callers
  BY FirstAct, PipeAssumption
<1>2. NothingInRegister \in Registers
  BY DEF NothingInRegister, NoBits, Registers, Bits
<1>3. caller' = [caller EXCEPT ![App] = [todo |-> Tail(Todo), reg |-> NothingInRegister]]
  BY DEF ActDone, Todo
<1>4. caller \in [Callers -> [todo : Seq(PipeActs), reg : Registers]]
  BY DEF Typed
<1>5. [todo |-> Tail(Todo), reg |-> NothingInRegister] \in [todo : Seq(PipeActs), reg : Registers]
  BY <1>1, <1>2
<1>6. Todo' = Tail(Todo)
  BY <1>1, <1>3, <1>4 DEF Todo
<1> QED BY <1>3, <1>4, <1>5, <1>6

\* The call's acts on the control bits and semaphores.
LEMMA CallerTypes ==
  ASSUME Typed, CallerStep(App), UNCHANGED pipeVars
  PROVE  Typed' /\ task' = task /\ ended' = ended
<1>1. InCall(App) => Head(Todo) \in PipeActs /\ Target(App) \in Streams /\ App \in Callers
  BY FirstAct, PipeAssumption
<1>2. InCall(App) /\ ActDone(App) => caller' \in [Callers -> [todo : Seq(PipeActs), reg : Registers]]
  BY ActMoves
<1>3. /\ rb1' = rb1 /\ p_lock' = p_lock /\ p_state' = p_state /\ old_state' = old_state
      /\ callback' = callback /\ app' = app
  BY DEF pipeVars
<1>4. CASE CallerLoad(App)
  <2>1. /\ InCall(App) /\ UNCHANGED streamVars
        /\ caller' = [caller EXCEPT ![App].reg = InRegister(bits[Target(App)])]
    BY <1>4 DEF CallerLoad, Doing
  <2>2. InRegister(bits[Target(App)]) \in Registers
    BY <1>1, <2>1 DEF Typed, InRegister, Registers
  <2>3. caller' \in [Callers -> [todo : Seq(PipeActs), reg : Registers]]
    BY <2>1, <2>2 DEF Typed
  <2> QED BY <1>3, <2>1, <2>3 DEF Typed, PipeTypeOK, streamVars
<1>5. CASE CallerStore(App)
  <2>1. /\ InCall(App) /\ ActDone(App) /\ Head(caller[App].todo).act \in StoreActs
        /\ ctrl_sem' = ctrl_sem /\ task' = task /\ ended' = ended
        /\ bits' = [bits EXCEPT ![Target(App)] =
                      SetBit(Head(caller[App].todo).act, StoredOver(Target(App), caller[App].reg))]
    BY <1>5 DEF CallerStore, Doing
  <2>2. StoredOver(Target(App), caller[App].reg) \in Bits
    BY <1>1, <2>1 DEF Typed, StoredOver, Registers
  <2>3. SetBit(Head(caller[App].todo).act, StoredOver(Target(App), caller[App].reg)) \in Bits
    BY <2>1, <2>2, SetBitType
  <2>4. bits' \in [Streams -> Bits]
    BY <2>1, <2>3 DEF Typed
  <2> QED BY <1>2, <1>3, <2>1, <2>4 DEF Typed, PipeTypeOK
<1>6. CASE CallerGive(App)
  BY <1>1, <1>2, <1>3, <1>6 DEF Typed, PipeTypeOK, CallerGive, Doing
<1>7. CASE CallerJoin(App)
  BY <1>1, <1>2, <1>3, <1>7 DEF Typed, PipeTypeOK, CallerJoin, Doing
<1> QED BY <1>4, <1>5, <1>6, <1>7 DEF CallerStep

\* What the application does by itself leaves the tasks and the pipeline's state alone.
LEMMA AppTypes ==
  ASSUME Typed, AppStep \/ \E op \in PipeOps : AppCall(op)
  PROVE  Typed' /\ task' = task /\ ended' = ended /\ callback' = callback /\ p_state' = p_state
<1>1. /\ app \in [pc : AppPcs, op : PipeOps \cup {"none"}, told : BOOLEAN]
      /\ PipeOps \subseteq {"start", "stop", "pause", "resume", "destroy"}
      /\ App \in Callers /\ caller \in [Callers -> [todo : Seq(PipeActs), reg : Registers]]
  BY PipeAssumption DEF Typed
<1>2. ASSUME NEW op \in PipeOps, AppCall(op)
      PROVE  Typed' /\ task' = task /\ ended' = ended /\ callback' = callback /\ p_state' = p_state
  <2>1. /\ UNCHANGED <<vars, rb1, p_lock, p_state, old_state, callback>>
        /\ app' = [pc |-> "lock", op |-> op, told |-> FALSE]
    BY <1>2 DEF AppCall
  <2>2. /\ app' \in [pc : AppPcs, op : PipeOps \cup {"none"}, told : BOOLEAN]
        /\ app'.pc = "lock" /\ app'.op # "none"
    BY <1>1, <2>1 DEF AppPcs
  <2> QED BY <2>1, <2>2 DEF Typed, PipeTypeOK, AppPcs, vars, streamVars, callVars
<1>3. CASE AppLock
  <2>1. PipeScript(app.op) \in Seq(PipeActs)
    BY <1>1, <1>3, ScriptType DEF AppLock, Typed
  <2>2. caller' \in [Callers -> [todo : Seq(PipeActs), reg : Registers]]
    <3>1. caller' = caller \/ caller' = [caller EXCEPT ![App].todo = PipeScript(app.op)]
      BY <1>3 DEF AppLock
    <3>2. [caller EXCEPT ![App].todo = PipeScript(app.op)] \in [Callers -> [todo : Seq(PipeActs), reg : Registers]]
      BY <1>1, <2>1
    <3> QED BY <1>1, <3>1, <3>2
  <2>3. /\ app' \in [pc : AppPcs, op : PipeOps \cup {"none"}, told : BOOLEAN]
        /\ app'.op = app.op /\ app'.pc \in {"inside", "refused"} /\ app.pc = "lock"
    BY <1>1, <1>3 DEF AppLock, AppPcs
  <2> QED BY <1>3, <2>2, <2>3 DEF AppLock, Typed, PipeTypeOK, AppPcs, streamVars
<1>4. CASE AppDestroy
  <2>1. PipeScript("destroy") \in Seq(PipeActs)
    BY ScriptType
  <2>2. caller' \in [Callers -> [todo : Seq(PipeActs), reg : Registers]]
    <3>1. caller' = [caller EXCEPT ![App].todo = PipeScript("destroy")]
      BY <1>4 DEF AppDestroy
    <3> QED BY <1>1, <2>1, <3>1
  <2>3. app' \in [pc : AppPcs, op : PipeOps \cup {"none"}, told : BOOLEAN]
    BY <1>1, <1>4 DEF AppDestroy, AppPcs
  <2> QED BY <1>4, <2>2, <2>3 DEF AppDestroy, Typed, PipeTypeOK, AppPcs, streamVars
<1>5. CASE AppRing
  <2>1. caller' \in [Callers -> [todo : Seq(PipeActs), reg : Registers]]
    BY <1>5, ActMoves DEF AppRing, Doing
  <2>2. rb1' \in [fill : 0..Capacity, finished : BOOLEAN, freed : BOOLEAN]
    <3>1. rb1 \in [fill : 0..Capacity, finished : BOOLEAN, freed : BOOLEAN] /\ 0 \in 0..Capacity
      BY PipeAssumption DEF Typed, PipeTypeOK
    <3>2. rb1' = [rb1 EXCEPT !.fill = 0, !.finished = FALSE] \/ rb1' = [rb1 EXCEPT !.freed = TRUE]
      BY <1>5 DEF AppRing
    <3> QED BY <3>1, <3>2
  <2> QED BY <1>5, <2>1, <2>2 DEF AppRing, Typed, PipeTypeOK, streamVars
<1>6. CASE AppUnlock
  <2>1. /\ app' \in [pc : AppPcs, op : PipeOps \cup {"none"}, told : BOOLEAN]
        /\ app'.op = "none" => app'.pc = "idle"
    <3>1. CASE app.pc = "inside"
      <4>1. app' = [app EXCEPT !.pc = "waiting"] /\ app.op # "none"
        BY <1>6, <3>1 DEF AppUnlock, Typed
      <4> QED BY <1>1, <4>1 DEF AppPcs
    <3>2. CASE app.pc # "inside"
      BY <1>6, <3>2 DEF AppUnlock, NoCall, AppPcs
    <3> QED BY <3>1, <3>2
  <2> QED BY <1>6, <2>1 DEF AppUnlock, Typed, PipeTypeOK, AppPcs, vars, streamVars, callVars
<1>7. CASE AppAnswered
  BY <1>1, <1>7 DEF AppAnswered, NoCall, Typed, PipeTypeOK, AppPcs, vars, streamVars, callVars
<1>8. CASE CallerStep(App) /\ UNCHANGED pipeVars
  BY <1>8, CallerTypes DEF pipeVars
<1> QED BY <1>2, <1>3, <1>4, <1>5, <1>6, <1>7, <1>8 DEF AppStep

LEMMA AppPhantom ==
  ASSUME PhantomInv, AppStep \/ \E op \in PipeOps : AppCall(op)
  PROVE  PhantomInv'
<1>1. Typed' /\ task' = task /\ callback' = callback /\ p_state' = p_state
  BY AppTypes DEF PhantomInv
<1> QED BY <1>1 DEF PhantomInv, Reporting, SomeAlive, Alive, Running, At

LEMMA PhantomStep == PhantomInv /\ [PipeNext]_allVars => PhantomInv'
<1> SUFFICES ASSUME PhantomInv, [PipeNext]_allVars PROVE PhantomInv'
  OBVIOUS
<1>1. ASSUME NEW s \in Streams, BlockStep(s) PROVE PhantomInv'
  BY <1>1, BlockPhantom, CallbackPhantom DEF BlockStep
<1>2. CASE SourceRead \/ SinkWrite \/ RingStep
  BY <1>2, FlowPhantom
<1>3. CASE AppStep \/ \E op \in PipeOps : AppCall(op)
  BY <1>3, AppPhantom
<1>4. CASE UNCHANGED allVars
  BY <1>4 DEF allVars, pipeVars, vars, streamVars, callVars, PhantomInv, Typed, PipeTypeOK,
              Reporting, SomeAlive, Alive, Running, At
<1> QED BY <1>1, <1>2, <1>3, <1>4 DEF PipeNext

LEMMA PhantomInit == PipeInit => PhantomInv
<1> SUFFICES ASSUME PipeInit PROVE PhantomInv
  OBVIOUS
<1>1. Capacity \in Nat /\ 0 \in 0..Capacity
  BY PipeAssumption
<1>2. Typed
  BY <1>1 DEF PipeInit, Init, Typed, PipeTypeOK, Tasks, Pcs, Events, Registers, Bits, NoBits,
              NothingInRegister, NoCall, AppPcs
<1>3. (\A s \in Streams : Reporting(s)) /\ SomeAlive
  BY DEF PipeInit, Init, Reporting, SomeAlive, At
<1> QED BY <1>2, <1>3 DEF PhantomInv

\* A pipeline in which nothing runs and nothing will does not claim to be started, whatever
\* the application calls, whichever context fails to open or sink to take its data, and
\* however the stores to the control bits collide: audio_pipe_start is not refused for ever.
THEOREM PhantomTheorem == PipeSpec => []NoPhantomStart
<1>1. PhantomInv => NoPhantomStart
  BY DEF PhantomInv, Typed, NoPhantomStart, Quiet, SomeAlive, Alive, Running, At
<1> QED BY <1>1, PhantomInit, PhantomStep, PTL DEF PipeSpec

----------------------------------------------------------------------------
(* What is left of a call, and what its next act does.                      *)

LEMMA NextAct ==
  ASSUME Typed, Calls, InCall(App)
  PROVE  /\ app.pc \in {"inside", "destroying"}
         /\ app.pc = "destroying" =>
              Owed \in 1..7 /\ Head(Todo) = PipeScript("destroy")[8 - Owed]
         /\ app.pc = "inside" =>
              /\ app.op \in {"start", "stop", "pause", "resume"}
              /\ app.op = "start"  => Owed \in 1..7 /\ Head(Todo) = PipeScript("start")[8 - Owed]
              /\ app.op = "stop"   => Owed \in 1..3 /\ Head(Todo) = PipeScript("stop")[4 - Owed]
              /\ app.op = "pause"  => Owed \in 1..1 /\ Head(Todo) = PipeScript("pause")[2 - Owed]
              /\ app.op = "resume" => Owed \in 1..2 /\ Head(Todo) = PipeScript("resume")[3 - Owed]
<1>1. Owed \in Nat \ {0} /\ Todo[1] = Head(Todo)
  BY FirstAct
<1>2. /\ app.pc \in AppPcs /\ app.op \in PipeOps \cup {"none"}
      /\ PipeOps \subseteq {"start", "stop", "pause", "resume", "destroy"}
      /\ app.op = "none" => app.pc = "idle"
  BY PipeAssumption DEF Typed
<1>3. app.pc \in {"inside", "destroying"}
  BY <1>1, <1>2 DEF Calls, AppPcs
<1>4. ASSUME NEW op, NEW n \in Nat, Len(PipeScript(op)) = n, RestOf(PipeScript(op))
      PROVE  Owed \in 1..n /\ Head(Todo) = PipeScript(op)[n + 1 - Owed]
  <2>1. Owed <= n /\ 1 \in 1..Owed
    BY <1>1, <1>4 DEF RestOf
  <2>2. Todo[1] = PipeScript(op)[n - Owed + 1]
    BY <1>4, <2>1 DEF RestOf
  <2>3. n - Owed + 1 = n + 1 - Owed
    BY <1>1
  <2> QED BY <1>1, <2>1, <2>2, <2>3
<1>5. CASE app.pc = "destroying"
  <2>1. RestOf(PipeScript("destroy")) /\ Len(PipeScript("destroy")) = 7
    BY <1>5, DestroyScript DEF Calls
  <2>2. Owed \in 1..7 /\ Head(Todo) = PipeScript("destroy")[7 + 1 - Owed]
    BY <1>4, <2>1
  <2> QED BY <1>5, <2>2
<1>6. CASE app.pc = "inside"
  <2>1. app.op \in {"start", "stop", "pause", "resume"} /\ RestOf(PipeScript(app.op))
    BY <1>2, <1>6 DEF Calls
  <2>2. app.op = "start" => Owed \in 1..7 /\ Head(Todo) = PipeScript("start")[7 + 1 - Owed]
    BY <1>4, <2>1, StartScript
  <2>3. app.op = "stop" => Owed \in 1..3 /\ Head(Todo) = PipeScript("stop")[3 + 1 - Owed]
    BY <1>4, <2>1, StopScript
  <2>4. app.op = "pause" => Owed \in 1..1 /\ Head(Todo) = PipeScript("pause")[1 + 1 - Owed]
    BY <1>4, <2>1, PauseScript
  <2>5. app.op = "resume" => Owed \in 1..2 /\ Head(Todo) = PipeScript("resume")[2 + 1 - Owed]
    BY <1>4, <2>1, ResumeScript
  <2> QED BY <1>6, <2>1, <2>2, <2>3, <2>4, <2>5
<1> QED BY <1>3, <1>5, <1>6

\* Which act belongs to which call.
LEMMA WhoseAct ==
  ASSUME Typed, Calls, InCall(App)
  PROVE  /\ app.pc \in {"inside", "destroying"} /\ Head(Todo).stream \in {In, Out}
         /\ Head(Todo).act = "rb_reset" => app.pc = "inside" /\ app.op = "start" /\ Owed = 7
         /\ Head(Todo).act = "run" =>
              /\ app.pc = "inside" /\ app.op = "start"
              /\ \/ Head(Todo).stream = In /\ Owed = 6
                 \/ Head(Todo).stream = Out /\ Owed = 3
         /\ Head(Todo).act = "unpause" /\ Head(Todo).stream = Out =>
              /\ app.pc = "inside"
              /\ \/ app.op = "start" /\ Owed = 2
                 \/ app.op = "resume"
         /\ Head(Todo).act = "halt" => Head(Todo).stream = In
         /\ Head(Todo).act = "pause" => Head(Todo).stream = Out
         /\ Head(Todo).act = "give" /\ app.pc = "inside" /\ app.op = "start" =>
              \/ Head(Todo).stream = In /\ Owed = 4
              \/ Head(Todo).stream = Out /\ Owed = 1
<1>1. CASE app.pc = "destroying"
  <2>1. Owed \in 1..7 /\ Head(Todo) = PipeScript("destroy")[8 - Owed]
    BY <1>1, NextAct
  <2>2. /\ Head(Todo).stream \in {In, Out}
        /\ Head(Todo).act \in {"rb_cleanup", "destroy", "give", "join"}
    <3>1. 8 - Owed \in 1..7
      BY <2>1
    <3>2. ASSUME NEW i \in 1..7
          PROVE  /\ PipeScript("destroy")[i].stream \in {In, Out}
                 /\ PipeScript("destroy")[i].act \in {"rb_cleanup", "destroy", "give", "join"}
      BY DestroyScript
    <3> QED BY <2>1, <3>1, <3>2
  <2> QED BY <1>1, <2>2
<1>2. CASE app.pc = "inside" /\ app.op = "start"
  <2>1. Owed \in 1..7 /\ Head(Todo) = PipeScript("start")[8 - Owed]
    BY <1>2, NextAct
  <2>2. \/ Owed = 7 /\ Head(Todo) = [stream |-> In, act |-> "rb_reset"]
        \/ Owed = 6 /\ Head(Todo) = [stream |-> In, act |-> "run"]
        \/ Owed = 5 /\ Head(Todo) = [stream |-> In, act |-> "unpause"]
        \/ Owed = 4 /\ Head(Todo) = [stream |-> In, act |-> "give"]
        \/ Owed = 3 /\ Head(Todo) = [stream |-> Out, act |-> "run"]
        \/ Owed = 2 /\ Head(Todo) = [stream |-> Out, act |-> "unpause"]
        \/ Owed = 1 /\ Head(Todo) = [stream |-> Out, act |-> "give"]
    BY <2>1, StartScript, SMTT(40)
  <2> QED BY <1>2, <2>2 DEF In, Out
<1>3. CASE app.pc = "inside" /\ app.op = "stop"
  <2>1. Owed \in 1..3 /\ Head(Todo) = PipeScript("stop")[4 - Owed]
    BY <1>3, NextAct
  <2>2. \/ Head(Todo) = [stream |-> In, act |-> "halt"]
        \/ Head(Todo) = [stream |-> In, act |-> "unpause"]
        \/ Head(Todo) = [stream |-> In, act |-> "give"]
    BY <2>1, StopScript
  <2> QED BY <1>3, <2>2 DEF In, Out
<1>4. CASE app.pc = "inside" /\ app.op = "pause"
  <2>1. Owed \in 1..1 /\ Head(Todo) = PipeScript("pause")[2 - Owed]
    BY <1>4, NextAct
  <2>2. Head(Todo) = [stream |-> Out, act |-> "pause"]
    BY <2>1, PauseScript
  <2> QED BY <1>4, <2>2
<1>5. CASE app.pc = "inside" /\ app.op = "resume"
  <2>1. Owed \in 1..2 /\ Head(Todo) = PipeScript("resume")[3 - Owed]
    BY <1>5, NextAct
  <2>2. \/ Head(Todo) = [stream |-> Out, act |-> "unpause"]
        \/ Head(Todo) = [stream |-> Out, act |-> "give"]
    BY <2>1, ResumeScript
  <2> QED BY <1>5, <2>2
<1> QED BY <1>1, <1>2, <1>3, <1>4, <1>5, NextAct

\* After an act the rest of the call is the rest of its script.
LEMMA RestStays ==
  ASSUME Typed, InCall(App), ActDone(App), NEW script, Len(script) \in Nat, RestOf(script)
  PROVE  RestOf(script)'
<1>1. /\ Todo' = Tail(Todo) /\ Owed \in Nat \ {0} /\ Len(Tail(Todo)) = Owed - 1
      /\ \A i \in 1..(Owed - 1) : Tail(Todo)[i] = Todo[i + 1]
  BY FirstAct, ActMoves
<1>2. Owed' = Owed - 1
  BY <1>1 DEF Owed
<1>3. \A i \in 1..(Owed - 1) : Todo'[i] = script[Len(script) - (Owed - 1) + i]
  <2> SUFFICES ASSUME NEW i \in 1..(Owed - 1) PROVE Todo'[i] = script[Len(script) - (Owed - 1) + i]
    OBVIOUS
  <2>1. i + 1 \in 1..Owed /\ Todo'[i] = Todo[i + 1]
    BY <1>1
  <2>2. Todo[i + 1] = script[Len(script) - Owed + (i + 1)]
    BY <2>1 DEF RestOf
  <2>3. Len(script) - Owed + (i + 1) = Len(script) - (Owed - 1) + i
    BY <1>1
  <2> QED BY <2>1, <2>2, <2>3
<1>4. Owed - 1 <= Len(script)
  BY <1>1 DEF RestOf
<1> QED BY <1>2, <1>3, <1>4 DEF RestOf

----------------------------------------------------------------------------
(* What the application does to a stream that runs.                         *)

\* The call sets and clears only what the streams' own invariants allow for.
AppMoved ==
  /\ task' = task /\ ended' = ended /\ callback' = callback /\ p_state' = p_state
  /\ ~bits'[In].pause
  /\ bits'[In].run => bits[In].run \/ (Unbegun(In) /\ ~rb1.finished)
  /\ bits[In].destroy => bits'[In].destroy
  /\ bits[Out].destroy => bits'[Out].destroy
  /\ bits[Out].run => bits'[Out].run
  /\ bits[Out].pause => bits'[Out].pause \/ ~Running(Out)
  /\ \/ rb1'.fill = rb1.fill /\ rb1'.finished = rb1.finished
     \/ Unbegun(In) /\ Unbegun(Out) /\ ~rb1'.finished

\* Which bits a store changes.
LEMMA SetBitIs ==
  ASSUME NEW byte \in Bits, NEW act \in StoreActs
  PROVE  /\ SetBit(act, byte).run => byte.run \/ act = "run"
         /\ byte.run => SetBit(act, byte).run \/ act = "halt"
         /\ SetBit(act, byte).pause => byte.pause \/ act = "pause"
         /\ byte.pause => SetBit(act, byte).pause \/ act = "unpause"
         /\ byte.destroy => SetBit(act, byte).destroy
BY DEF SetBit, StoreActs, Bits

LEMMA UnbegunRests == ASSUME NEW s \in Streams, Unbegun(s) PROVE ~Running(s)
BY DEF Unbegun, Running, At

LEMMA StoreMoved ==
  ASSUME OneStart, IInv, CallerStore(App)
  PROVE  /\ ~bits'[In].pause
         /\ bits'[In].run => bits[In].run \/ (Unbegun(In) /\ ~rb1.finished)
         /\ bits[In].destroy => bits'[In].destroy
         /\ bits[Out].destroy => bits'[Out].destroy
         /\ bits[Out].run => bits'[Out].run
         /\ bits[Out].pause => bits'[Out].pause \/ ~Running(Out)
<1> DEFINE to   == Head(Todo).stream
           act  == Head(Todo).act
           byte == SetBit(act, bits[to])
<1>a. /\ Typed /\ Calls /\ bits \in [Streams -> Bits] /\ In \in Streams /\ Out \in Streams
      /\ AtomicBits /\ InCall(App) /\ act \in StoreActs /\ to = Target(App)
  BY PipeAssumption DEF IInv, PhantomInv, Typed, OneStart, CallerStore, Doing, Todo, Target
<1>b. to \in {In, Out} /\ bits[to] \in Bits /\ In # Out
  BY <1>a, WhoseAct DEF In, Out
<1>c. bits' = [bits EXCEPT ![to] = byte]
  BY <1>a DEF CallerStore, StoredOver, Todo, Target
<1>d. /\ byte.run => bits[to].run \/ act = "run"
      /\ bits[to].run => byte.run \/ act = "halt"
      /\ byte.pause => bits[to].pause \/ act = "pause"
      /\ bits[to].pause => byte.pause \/ act = "unpause"
      /\ bits[to].destroy => byte.destroy
  BY <1>a, <1>b, SetBitIs
<1>e. /\ act = "run" => /\ app.pc = "inside" /\ app.op = "start"
                        /\ \/ to = In /\ Owed = 6
                           \/ to = Out /\ Owed = 3
      /\ act = "unpause" /\ to = Out => /\ app.pc = "inside"
                                        /\ \/ app.op = "start" /\ Owed = 2
                                           \/ app.op = "resume"
      /\ act = "halt" => to = In
      /\ act = "pause" => to = Out
  BY <1>a, WhoseAct
<1>f. act = "unpause" /\ to = Out => ~Running(Out)
  <2>1. CASE app.pc = "inside" /\ app.op = "start" /\ Owed = 2
    BY <1>a, <2>1, UnbegunRests DEF IInv, Beginning
  <2>2. CASE app.pc = "inside" /\ app.op = "resume"
    BY <2>2 DEF IInv, Locked, From, Pauses
  <2> QED BY <1>e, <2>1, <2>2
<1>g. act = "run" /\ to = In => Unbegun(In) /\ ~rb1.finished
  <2>1. act = "run" /\ to = In => app.pc = "inside" /\ app.op = "start" /\ Owed = 6
    BY <1>b, <1>e
  <2> HIDE DEF to, act
  <2>2. app.pc = "inside" /\ app.op = "start" /\ Owed >= 4 => Unbegun(In) /\ ~rb1.finished
    BY DEF IInv, Beginning
  <2> QED BY <2>1, <2>2
<1>h. ~bits[In].pause
  BY DEF IInv, InputInv
<1> HIDE DEF to, act, byte
<1>1. CASE to = In
  <2>1. bits'[In] = byte /\ bits'[Out] = bits[Out]
    BY <1>a, <1>b, <1>c, <1>1
  <2> QED BY <1>b, <1>d, <1>e, <1>g, <1>h, <1>1, <2>1
<1>2. CASE to = Out
  <2>1. bits'[Out] = byte /\ bits'[In] = bits[In]
    BY <1>a, <1>b, <1>c, <1>2
  <2> QED BY <1>b, <1>d, <1>e, <1>f, <1>h, <1>2, <2>1
<1> QED BY <1>b, <1>1, <1>2

LEMMA AppMoves ==
  ASSUME OneStart, IInv, AppStep \/ \E op \in PipeOps : AppCall(op)
  PROVE  AppMoved
<1>0. Typed /\ Calls /\ ~bits[In].pause
  BY DEF IInv, PhantomInv, InputInv
<1>1. task' = task /\ ended' = ended /\ callback' = callback /\ p_state' = p_state
  BY <1>0, AppTypes
<1>2. CASE CallerStore(App) /\ UNCHANGED pipeVars
  <2>1. rb1' = rb1
    BY <1>2 DEF pipeVars
  <2> QED BY <1>1, <1>2, <2>1, StoreMoved DEF AppMoved
<1>3. CASE AppRing
  <2>1. InCall(App) /\ bits' = bits /\ Head(Todo).act \in {"rb_reset", "rb_cleanup"}
    BY <1>3 DEF AppRing, Doing, streamVars, Todo
  <2>2. CASE Head(Todo).act = "rb_reset"
    <3>1. app.pc = "inside" /\ app.op = "start" /\ Owed = 7
      BY <1>0, <2>1, <2>2, WhoseAct
    <3>2. Unbegun(In) /\ Unbegun(Out)
      BY <3>1 DEF IInv, Beginning
    <3>3. rb1' = [rb1 EXCEPT !.fill = 0, !.finished = FALSE]
      BY <1>3, <2>1, <2>2 DEF AppRing, Doing, Todo
    <3>4. ~rb1'.finished
      BY <1>0, <3>3 DEF Typed, PipeTypeOK
    <3> QED BY <1>0, <1>1, <2>1, <3>2, <3>4 DEF AppMoved
  <2>3. CASE Head(Todo).act # "rb_reset"
    <3>1. rb1' = [rb1 EXCEPT !.freed = TRUE]
      BY <1>3, <2>3 DEF AppRing, Doing, Todo
    <3>2. rb1'.fill = rb1.fill /\ rb1'.finished = rb1.finished
      BY <1>0, <3>1 DEF Typed, PipeTypeOK
    <3> QED BY <1>0, <1>1, <2>1, <3>2 DEF AppMoved
  <2> QED BY <2>2, <2>3
<1>4. CASE bits' = bits /\ rb1' = rb1
  BY <1>0, <1>1, <1>4 DEF AppMoved
<1>5. \/ CallerStore(App) /\ UNCHANGED pipeVars
      \/ AppRing
      \/ bits' = bits /\ rb1' = rb1
  BY DEF AppStep, AppCall, AppLock, AppDestroy, AppUnlock, AppAnswered, CallerStep, CallerLoad,
         CallerGive, CallerJoin, vars, streamVars, pipeVars
<1> QED BY <1>2, <1>3, <1>4, <1>5

\* How far the call is, what it found, and that the streams wait for their tokens.
LEMMA AppCalls ==
  ASSUME OneStart, IInv, AppStep \/ \E op \in PipeOps : AppCall(op)
  PROVE  Calls' /\ Locked' /\ Beginning'
<1>a. /\ Typed /\ Calls /\ Locked /\ Beginning /\ AtomicBits /\ ~Again
      /\ app \in [pc : AppPcs, op : PipeOps \cup {"none"}, told : BOOLEAN]
      /\ app.op = "none" => app.pc = "idle"
      /\ PipeOps \subseteq {"start", "stop", "pause", "resume", "destroy"}
      /\ caller \in [Callers -> [todo : Seq(PipeActs), reg : Registers]]
      /\ In \in Streams /\ Out \in Streams /\ App \in Callers
  BY PipeAssumption DEF IInv, PhantomInv, Typed, OneStart
<1>b. task' = task /\ callback' = callback /\ p_state' = p_state
  BY <1>a, AppTypes
<1>1. ASSUME NEW op \in PipeOps, AppCall(op)
      PROVE  Calls' /\ Locked' /\ Beginning'
  <2>1. /\ app.pc = "idle" /\ app' = [pc |-> "lock", op |-> op, told |-> FALSE] /\ caller' = caller
        /\ op = "start" => p_state = "INITED"
        /\ p_lock' = p_lock /\ ctrl_sem' = ctrl_sem /\ rb1' = rb1
    BY <1>1, <1>a DEF AppCall, vars, streamVars, callVars
  <2>2. app'.pc = "lock" /\ app'.op = op /\ app'.told = FALSE
    BY <2>1
  <2>3. Calls'
    BY <1>a, <2>1, <2>2 DEF Calls, Owed, Todo
  <2>4. Locked'
    BY <1>a, <1>b, <2>1, <2>2 DEF Locked
  <2>5. Beginning'
    BY <1>a, <1>b, <2>1, <2>2 DEF Beginning, Unbegun
  <2> QED BY <2>3, <2>4, <2>5
<1>2. CASE AppLock
  <2>1. /\ app.pc = "lock" /\ app.op # "destroy" /\ p_lock = "free" /\ p_lock' = App
        /\ ctrl_sem' = ctrl_sem /\ rb1' = rb1
        /\ \/ /\ p_state \in From(app.op) /\ app' = [app EXCEPT !.pc = "inside"]
              /\ caller' = [caller EXCEPT ![App].todo = PipeScript(app.op)]
           \/ app' = [app EXCEPT !.pc = "refused"] /\ caller' = caller
    BY <1>2 DEF AppLock, streamVars
  <2>2. /\ app'.op = app.op /\ app'.told = app.told
        /\ \/ app'.pc = "inside" /\ p_state \in From(app.op) /\ Todo' = PipeScript(app.op)
           \/ app'.pc = "refused" /\ Todo' = Todo
    BY <1>a, <2>1 DEF Todo
  <2>3. Calls'
    <3>1. CASE app'.pc = "refused"
      BY <1>a, <2>1, <2>2, <3>1 DEF Calls, Owed
    <3>2. CASE app'.pc = "inside"
      <4>1. PipeScript(app.op) \in Seq(PipeActs)
        BY <1>a, <2>1, ScriptType
      <4>2. Len(PipeScript(app.op)) \in Nat /\ Owed' = Len(PipeScript(app.op))
        BY <2>2, <3>2, <4>1 DEF Owed
      <4>3. \A i \in 1..Len(PipeScript(app.op)) :
              Len(PipeScript(app.op)) - Len(PipeScript(app.op)) + i = i
        BY <4>2
      <4>4. RestOf(PipeScript(app.op))'
        BY <2>2, <3>2, <4>2, <4>3 DEF RestOf
      <4> QED BY <2>1, <2>2, <3>2, <4>4 DEF Calls
    <3> QED BY <2>2, <3>1, <3>2
  <2>4. Locked'
    BY <1>a, <1>b, <2>1, <2>2, PipeAssumption DEF Locked, In, Out, App
  <2>5. Beginning'
    BY <1>a, <1>b, <2>1, <2>2 DEF Beginning, Unbegun
  <2> QED BY <2>3, <2>4, <2>5
<1>3. CASE AppDestroy
  <2>1. /\ app.pc = "lock" /\ app' = [app EXCEPT !.pc = "destroying"] /\ p_lock' = p_lock
        /\ caller' = [caller EXCEPT ![App].todo = PipeScript("destroy")]
    BY <1>3 DEF AppDestroy
  <2>2. app'.pc = "destroying" /\ app'.told = app.told /\ Todo' = PipeScript("destroy")
    BY <1>a, <2>1 DEF Todo
  <2>3. Calls'
    <3>1. Owed' = 7 /\ Len(PipeScript("destroy")) = 7
      BY <2>2, DestroyScript DEF Owed
    <3>2. RestOf(PipeScript("destroy"))'
      BY <2>2, <3>1 DEF RestOf
    <3> QED BY <2>2, <3>2 DEF Calls
  <2>4. Locked'
    BY <1>a, <1>b, <2>1, <2>2 DEF Locked
  <2>5. Beginning'
    BY <1>a, <1>b, <2>2 DEF Beginning
  <2> QED BY <2>3, <2>4, <2>5
<1>4. ASSUME InCall(App), ActDone(App), app' = app, p_lock' = p_lock,
             rb1'.finished => rb1.finished,
             ctrl_sem' = ctrl_sem \/ CallerGive(App)
      PROVE  Calls' /\ Locked' /\ Beginning'
  <2>1. /\ Owed \in Nat \ {0} /\ Len(Tail(Todo)) = Owed - 1 /\ Todo' = Tail(Todo)
    BY <1>a, <1>4, FirstAct, ActMoves
  <2>2. Owed' = Owed - 1
    BY <2>1 DEF Owed
  <2>3. app.pc \in {"inside", "destroying"}
    BY <1>a, <1>4, WhoseAct
  <2>4. Calls'
    <3>1. app.pc = "inside" => RestOf(PipeScript(app.op)) /\ PipeScript(app.op) \in Seq(PipeActs)
      BY <1>a, ScriptType DEF Calls
    <3>2. app.pc = "inside" => RestOf(PipeScript(app.op))'
      <4> SUFFICES ASSUME app.pc = "inside" PROVE RestOf(PipeScript(app.op))'
        OBVIOUS
      <4> DEFINE script == PipeScript(app.op)
      <4>1. Len(script) \in Nat /\ RestOf(script) /\ script' = script
        BY <1>4, <3>1
      <4>2. ASSUME NEW q, Len(q) \in Nat, RestOf(q) PROVE RestOf(q)'
        BY <1>a, <1>4, <4>2, RestStays
      <4> HIDE DEF script
      <4>3. Owed' <= Len(script) /\ \A i \in 1..Owed' : Todo'[i] = script[Len(script) - Owed' + i]
        BY <4>1, <4>2 DEF RestOf
      <4> QED BY <4>1, <4>3 DEF RestOf, script
    <3>3. app.pc = "destroying" => RestOf(PipeScript("destroy"))'
      BY <1>a, <1>4, RestStays, DestroyScript DEF Calls
    <3> QED BY <1>4, <1>a, <2>3, <3>2, <3>3 DEF Calls
  <2>5. Locked'
    BY <1>a, <1>b, <1>4 DEF Locked
  <2>6. app.pc = "inside" /\ app.op = "start" =>
          /\ Owed' >= 4 => ctrl_sem'[In] = ctrl_sem[In]
          /\ Owed' >= 1 => ctrl_sem'[Out] = ctrl_sem[Out]
    <3>1. CASE ctrl_sem' = ctrl_sem
      BY <3>1
    <3>2. CASE CallerGive(App)
      <4>1. /\ ctrl_sem' = [ctrl_sem EXCEPT ![Head(Todo).stream] = TRUE] /\ Head(Todo).act = "give"
        BY <3>2 DEF CallerGive, Doing, Target, Todo
      <4>2. app.pc = "inside" /\ app.op = "start" =>
              \/ Head(Todo).stream = In /\ Owed = 4
              \/ Head(Todo).stream = Out /\ Owed = 1
        BY <1>a, <1>4, <4>1, WhoseAct
      <4>3. \A s \in Streams : s # Head(Todo).stream => ctrl_sem'[s] = ctrl_sem[s]
        BY <1>a, <4>1 DEF Typed
      <4> QED BY <1>a, <2>1, <2>2, <4>2, <4>3 DEF In, Out
    <3> QED BY <1>4, <3>1, <3>2
  <2>7. Owed' >= 4 => Owed >= 4
    BY <2>1, <2>2
  <2>8. Owed' >= 1 => Owed >= 1
    BY <2>1, <2>2
  <2>9. Beginning'
    BY <1>a, <1>b, <1>4, <2>3, <2>6, <2>7, <2>8 DEF Beginning, Unbegun
  <2> QED BY <2>4, <2>5, <2>9
<1>5. CASE AppRing
  <2>1. rb1'.finished => rb1.finished
    BY <1>a, <1>5 DEF AppRing, Typed, PipeTypeOK
  <2> QED BY <1>4, <1>5, <2>1 DEF AppRing, Doing, streamVars
<1>6. CASE AppUnlock
  <2>1. /\ app.pc \in {"inside", "refused"} /\ p_lock' = "free" /\ caller' = caller
        /\ ctrl_sem' = ctrl_sem /\ rb1' = rb1 /\ Todo = <<>>
        /\ app' = IF app.pc = "inside" THEN [app EXCEPT !.pc = "waiting"] ELSE NoCall
    BY <1>6 DEF AppUnlock, vars, streamVars, callVars, InCall, Todo
  <2>2. \/ app.pc = "inside" /\ app'.pc = "waiting" /\ app'.told = app.told
        \/ app.pc = "refused" /\ app'.pc = "idle" /\ app'.told = FALSE /\ app'.op = "none"
    BY <1>a, <2>1 DEF NoCall
  <2>3. Calls'
    BY <2>1, <2>2 DEF Calls, Owed, Todo
  <2>4. Locked'
    BY <1>a, <1>b, <2>1, <2>2, PipeAssumption DEF Locked, In, Out, App
  <2>5. Beginning'
    BY <1>a, <1>b, <2>1, <2>2 DEF Beginning, Unbegun
  <2> QED BY <2>3, <2>4, <2>5
<1>7. CASE AppAnswered
  <2>1. /\ app.pc = "waiting" /\ app.told /\ app' = NoCall /\ caller' = caller /\ p_lock' = p_lock
        /\ ctrl_sem' = ctrl_sem /\ rb1' = rb1
    BY <1>7 DEF AppAnswered, vars, streamVars, callVars
  <2>2. app'.pc = "idle" /\ app'.told = FALSE /\ p_state # "INITED"
    BY <1>a, <2>1 DEF NoCall, Beginning
  <2>3. Calls'
    BY <1>a, <2>1, <2>2 DEF Calls, Owed, Todo
  <2>4. Locked'
    BY <1>a, <1>b, <2>1, <2>2 DEF Locked
  <2>5. Beginning'
    BY <1>b, <2>2 DEF Beginning
  <2> QED BY <2>3, <2>4, <2>5
<1>8. CASE CallerStep(App) /\ UNCHANGED pipeVars
  <2>1. rb1' = rb1 /\ app' = app /\ p_lock' = p_lock
    BY <1>8 DEF pipeVars
  <2>2. InCall(App) /\ ActDone(App) /\ (ctrl_sem' = ctrl_sem \/ CallerGive(App))
    BY <1>a, <1>8 DEF CallerStep, CallerLoad, CallerStore, CallerGive, CallerJoin, Doing
  <2> QED BY <1>4, <2>1, <2>2
<1> QED BY <1>1, <1>2, <1>3, <1>5, <1>6, <1>7, <1>8 DEF AppStep

\* The streams' invariants after a step of the application.
LEMMA AppKeeps ==
  ASSUME OneStart, IInv, AppStep \/ \E op \in PipeOps : AppCall(op)
  PROVE  IInv'
<1>1. AppMoved
  BY AppMoves
<1>2. PhantomInv' /\ Calls' /\ Locked' /\ Beginning'
  BY AppPhantom, AppCalls DEF IInv
<1>3. Pauses'
  BY <1>1 DEF IInv, AppMoved, Pauses, Running, At
<1>4. InputInv'
  <2>1. Unbegun(In) => task[In].pc \in {"top", "take"}
    BY DEF Unbegun
  <2>2. rb1'.finished => rb1.finished
    BY <1>1 DEF AppMoved
  <2> QED BY <1>1, <2>1, <2>2 DEF IInv, AppMoved, InputInv, InputOver, At
<1>5. OutputInv'
  <2>1. CASE Unbegun(Out)
    BY <1>1, <2>1 DEF AppMoved, OutputInv, Unbegun, At
  <2>2. CASE ~Unbegun(Out)
    <3>1. rb1'.fill = rb1.fill /\ rb1'.finished = rb1.finished
      BY <1>1, <2>2 DEF AppMoved
    <3>2. Played' <=> Played
      BY <3>1 DEF Played
    <3>3. task[Out].pc \in {"left", "paused?"} => Running(Out)
      BY DEF Running
    <3> QED BY <1>1, <3>2, <3>3 DEF IInv, AppMoved, OutputInv, At
  <2> QED BY <2>1, <2>2
<1> QED BY <1>2, <1>3, <1>4, <1>5 DEF IInv

----------------------------------------------------------------------------
(* A step of a stream's own loop.                                           *)

LEMMA MovedBegins ==
  ASSUME NEW s \in Streams, Moved(s), NEW r \in Streams, Unbegun(r)
  PROVE  Unbegun(r)'
<1>1. CASE r = s
  BY <1>1 DEF Moved, Unbegun, Goes
<1>2. CASE r # s
  BY <1>2 DEF Moved, Others, Unbegun
<1> QED BY <1>1, <1>2

LEMMA MovedRuns ==
  ASSUME Typed, NEW s \in Streams, Moved(s), Reporting(s), callback' = callback, ~Running(s)
  PROVE  ~Running(s)'
<1>1. task[s].pc # "event" /\ callback[s] = "out" /\ callback'[s] = "out"
  BY DEF Moved, Reporting, At
<1>2. task[s].pc \in {"top", "take", "destroy?", "run?", "pause?", "open", "unpause", "paused", "dying", "die"}
  BY <1>1 DEF Typed, Tasks, Pcs, Running, Moved
<1> QED BY <1>1, <1>2 DEF Moved, Goes, Tells, Running, At

LEMMA BlockKeeps ==
  ASSUME OneStart, IInv, NEW s \in Streams, ControlStep(s), UNCHANGED pipeVars
  PROVE  IInv'
<1>a. /\ Typed /\ AtomicBits /\ Streams = {In, Out} /\ Readers = {In} /\ In # Out
      /\ \A r \in Streams : Reporting(r)
  BY PipeAssumption DEF IInv, PhantomInv, OneStart, In, Out
<1>b. Moved(s) /\ Others(s) /\ caller' = caller
  BY <1>a, ControlMoves DEF Moved
<1>c. /\ callback' = callback /\ p_state' = p_state /\ app' = app /\ rb1' = rb1
      /\ p_lock' = p_lock /\ old_state' = old_state
  BY DEF pipeVars
<1>1. PhantomInv'
  BY BlockPhantom DEF IInv
<1>2. Calls'
  BY <1>b, <1>c DEF IInv, Calls, RestOf, Owed, Todo
<1>3. Locked'
  BY <1>c DEF IInv, Locked
<1>4. Beginning'
  <2>1. (Unbegun(In) => Unbegun(In)') /\ (Unbegun(Out) => Unbegun(Out)')
    BY <1>a, <1>b, MovedBegins
  <2>2. Owed' = Owed
    BY <1>b DEF Owed, Todo
  <2> QED BY <1>c, <2>1, <2>2 DEF IInv, Beginning
<1>5. Pauses'
  <2>1. CASE s = Out
    BY <1>a, <1>b, <1>c, <2>1, MovedRuns DEF IInv, Pauses
  <2>2. CASE s # Out
    BY <1>a, <1>b, <1>c, <2>2 DEF IInv, Pauses, Others, Running, At
  <2> QED BY <2>1, <2>2
<1>6. InputInv'
  <2>1. CASE s # In
    <3>1. task'[In] = task[In] /\ bits'[In] = bits[In] /\ ended'[In] = ended[In]
      BY <1>a, <1>b, <2>1 DEF Others
    <3> QED BY <1>c, <3>1 DEF IInv, InputInv, InputOver, At
  <2>2. CASE s = In
    <3>1. /\ ~bits'[In].pause
          /\ bits'[In].run => bits[In].run
          /\ bits[In].destroy => bits'[In].destroy
          /\ task[In].pc # "unpause" => ended' = ended
      BY <1>a, <1>b, <2>2 DEF IInv, InputInv, Moved
    <3>2. At(In, "event")' => task'[In].event # "PAUSED"
      BY <1>a, <1>b, <2>2 DEF IInv, InputInv, Moved, Goes, Tells, At, Typed, Tasks, Pcs
    <3>3. At(In, "left")' => ~bits'[In].run \/ bits'[In].destroy
      BY <1>a, <1>b, <2>2, <3>1 DEF IInv, InputInv, Moved, Goes, Tells, At, Typed, Tasks, Pcs
    <3>4. task'[In].pc \in {"paused?", "end?", "eos"} => ~bits'[In].run
      BY <1>a, <1>b, <2>2, <3>1 DEF IInv, InputInv, Moved, Goes, Tells, At, Typed, Tasks, Pcs
    <3>5. At(In, "cleanup")' => ended'[In]
      BY <1>a, <1>b, <2>2, <3>1 DEF IInv, InputInv, Moved, Goes, Tells, At, Typed, Tasks, Pcs
    <3>6. At(In, "event")' /\ task'[In].event = "STOPPED" => ended'[In]
      BY <1>a, <1>b, <2>2, <3>1 DEF IInv, InputInv, Moved, Goes, Tells, At, Typed, Tasks, Pcs
    <3>7. rb1'.finished => ~bits'[In].run /\ InputOver'
      BY <1>a, <1>b, <1>c, <2>2, <3>1 DEF IInv, InputInv, InputOver, Moved, Goes, Tells, At, Typed, Tasks, Pcs
    <3> QED BY <3>1, <3>2, <3>3, <3>4, <3>5, <3>6, <3>7 DEF InputInv, At
  <2> QED BY <2>1, <2>2
<1>7. OutputInv'
  <2>0. Played' <=> Played
    BY <1>c DEF Played
  <2>1. CASE s # Out
    <3>1. task'[Out] = task[Out] /\ bits'[Out] = bits[Out]
      BY <1>a, <1>b, <2>1 DEF Others
    <3> QED BY <2>0, <3>1 DEF IInv, OutputInv, At
  <2>2. CASE s = Out
    <3>1. /\ bits[Out].run => bits'[Out].run \/ task[Out].pc = "finish"
          /\ bits[Out].pause => bits'[Out].pause \/ task[Out].pc = "unpause"
          /\ bits[Out].destroy => bits'[Out].destroy
          /\ task[Out].pc \in Pcs
      BY <1>a, <1>b, <2>2 DEF Moved, Typed, Tasks
    <3>2. task'[Out].pc \in {"pause?", "open", "unpause", "loop", "input", "output", "judge"} =>
            bits'[Out].run \/ Played'
      BY <1>a, <1>b, <2>0, <2>2, <3>1 DEF IInv, OutputInv, Moved, Goes, Tells, At, Pcs
    <3>3. At(Out, "event")' /\ task'[Out].event = "STARTED" => bits'[Out].run \/ Played'
      BY <1>a, <1>b, <2>0, <2>2, <3>1 DEF IInv, OutputInv, Moved, Goes, Tells, At, Pcs
    <3>4. At(Out, "left")' => Played' \/ bits'[Out].pause \/ bits'[Out].destroy
      BY <1>a, <1>b, <2>0, <2>2, <3>1 DEF IInv, OutputInv, Moved, Goes, Tells, At, Pcs
    <3>5. At(Out, "paused?")' => Played' \/ bits'[Out].pause
      BY <1>a, <1>b, <2>0, <2>2, <3>1 DEF IInv, OutputInv, Moved, Goes, Tells, At, Pcs
    <3>6. task'[Out].pc \in {"finish", "end?", "cleanup"} => Played'
      BY <1>a, <1>b, <2>0, <2>2, <3>1 DEF IInv, OutputInv, Moved, Goes, Tells, At, Pcs
    <3>7. At(Out, "event")' /\ task'[Out].event = "STOPPED" => Played'
      BY <1>a, <1>b, <2>0, <2>2, <3>1 DEF IInv, OutputInv, Moved, Goes, Tells, At, Pcs
    <3>8. ~At(Out, "eos")'
      BY <1>a, <1>b, <2>2, <3>1 DEF Moved, Goes, Tells, At, Pcs
    <3> QED BY <3>2, <3>3, <3>4, <3>5, <3>6, <3>7, <3>8 DEF OutputInv, At
  <2> QED BY <2>1, <2>2
<1> QED BY <1>1, <1>2, <1>3, <1>4, <1>5, <1>6, <1>7 DEF IInv

----------------------------------------------------------------------------
(* A call of an input or output function.                                   *)

\* How it moves a stream and the ring buffer, with a sink that takes its data.
FlowMoved ==
  \/ /\ task[In].pc = "input" /\ (Goes(In, "output") \/ Goes(In, "finish"))
     /\ rb1' = rb1 /\ Others(In) /\ ended' = ended
  \/ /\ task[In].pc = "output" /\ (Goes(In, "judge") \/ Goes(In, "finish"))
     /\ rb1'.finished = rb1.finished /\ Others(In) /\ ended' = ended
  \/ task[In].pc = "eos" /\ Goes(In, "cleanup") /\ rb1'.fill = rb1.fill /\ Others(In) /\ ended'[In]
  \/ task[Out].pc = "output" /\ Goes(Out, "judge") /\ rb1' = rb1 /\ Others(Out)
  \/ /\ task[Out].pc = "input" /\ rb1.fill > 0 /\ Goes(Out, "output")
     /\ rb1'.finished = rb1.finished /\ Others(Out)
  \/ task[Out].pc = "input" /\ Played /\ Goes(Out, "finish") /\ rb1' = rb1 /\ Others(Out)

LEMMA FlowMoves ==
  ASSUME Typed, OneStart, SourceRead \/ SinkWrite \/ RingStep
  PROVE  /\ FlowMoved /\ bits' = bits /\ ctrl_sem' = ctrl_sem /\ caller' = caller
         /\ p_lock' = p_lock /\ p_state' = p_state /\ callback' = callback /\ app' = app
<1>a. /\ In \in Streams /\ Out \in Streams /\ ~OutputFails
      /\ rb1 \in [fill : 0..Capacity, finished : BOOLEAN, freed : BOOLEAN] /\ Capacity \in Nat
  BY PipeAssumption DEF OneStart, Typed, PipeTypeOK
<1>b. p_lock' = p_lock /\ p_state' = p_state /\ callback' = callback /\ app' = app
  BY DEF SourceRead, SinkWrite, RingStep, RbWrite, RbWriteFinished, RbWriteEnd, RbRead, pipeVars
<1>1. CASE SourceRead
  <2>1. PICK r \in {"data", "end"} : Input(In, r)
    BY <1>1 DEF SourceRead
  <2>2. rb1' = rb1
    BY <1>1 DEF SourceRead, pipeVars
  <2> QED BY <1>a, <1>b, <2>1, <2>2, InputMoves DEF FlowMoved
<1>2. CASE RbWrite
  <2>1. Output(In, TRUE) /\ rb1' = [rb1 EXCEPT !.fill = rb1.fill + 1]
    BY <1>2 DEF RbWrite
  <2>2. rb1'.finished = rb1.finished
    BY <1>a, <2>1
  <2>3. /\ task[In].pc = "output" /\ (Goes(In, "judge") \/ Goes(In, "finish")) /\ Others(In)
        /\ bits' = bits /\ ctrl_sem' = ctrl_sem /\ caller' = caller /\ ended' = ended
    BY <1>a, <2>1, OutputMoves
  <2> QED BY <1>b, <2>2, <2>3 DEF FlowMoved
<1>3. CASE RbWriteFinished
  <2>1. Output(In, FALSE) /\ rb1' = rb1
    BY <1>3 DEF RbWriteFinished, pipeVars
  <2>2. /\ task[In].pc = "output" /\ (Goes(In, "judge") \/ Goes(In, "finish")) /\ Others(In)
        /\ bits' = bits /\ ctrl_sem' = ctrl_sem /\ caller' = caller /\ ended' = ended
    BY <1>a, <2>1, OutputMoves
  <2> QED BY <1>b, <2>1, <2>2 DEF FlowMoved
<1>4. CASE RbWriteEnd
  <2>1. SignalEnd(In) /\ rb1' = [rb1 EXCEPT !.finished = TRUE]
    BY <1>4 DEF RbWriteEnd
  <2>2. rb1'.fill = rb1.fill
    BY <1>a, <2>1
  <2> QED BY <1>a, <1>b, <2>1, <2>2, EndMoves DEF FlowMoved
<1>5. CASE RbRead
  <2>1. CASE Input(Out, "data") /\ rb1.fill > 0 /\ rb1' = [rb1 EXCEPT !.fill = rb1.fill - 1]
    <3>1. rb1'.finished = rb1.finished
      BY <1>a, <2>1
    <3>2. /\ task[Out].pc = "input" /\ Goes(Out, "output") /\ Others(Out)
          /\ bits' = bits /\ ctrl_sem' = ctrl_sem /\ caller' = caller
      BY <1>a, <2>1, InputMoves
    <3> QED BY <1>b, <2>1, <3>1, <3>2 DEF FlowMoved
  <2>2. CASE Input(Out, "end") /\ rb1.fill = 0 /\ rb1.finished /\ rb1' = rb1
    <3>1. /\ task[Out].pc = "input" /\ Goes(Out, "finish") /\ Others(Out)
          /\ bits' = bits /\ ctrl_sem' = ctrl_sem /\ caller' = caller
      BY <1>a, <2>2, InputMoves
    <3> QED BY <1>b, <2>2, <3>1 DEF FlowMoved, Played
  <2> QED BY <1>5, <2>1, <2>2 DEF RbRead
<1>6. CASE SinkWrite
  <2>1. Output(Out, TRUE) /\ rb1' = rb1
    BY <1>a, <1>6 DEF SinkWrite, pipeVars
  <2>2. /\ task[Out].pc = "output" /\ Goes(Out, "judge") /\ Others(Out)
        /\ bits' = bits /\ ctrl_sem' = ctrl_sem /\ caller' = caller
    BY <1>a, <2>1, OutputMoves
  <2> QED BY <1>b, <2>1, <2>2 DEF FlowMoved
<1> QED BY <1>1, <1>2, <1>3, <1>4, <1>5, <1>6 DEF RingStep

LEMMA FlowKeeps ==
  ASSUME OneStart, IInv, SourceRead \/ SinkWrite \/ RingStep
  PROVE  IInv'
<1>a. /\ Typed /\ In \in Streams /\ Out \in Streams /\ In # Out
  BY PipeAssumption DEF IInv, PhantomInv, In, Out
<1>b. /\ FlowMoved /\ bits' = bits /\ ctrl_sem' = ctrl_sem /\ caller' = caller
      /\ p_lock' = p_lock /\ p_state' = p_state /\ callback' = callback /\ app' = app
  BY <1>a, FlowMoves
<1>1. PhantomInv'
  BY FlowPhantom DEF IInv
<1>2. Calls'
  BY <1>b DEF IInv, Calls, RestOf, Owed, Todo
<1>3. Locked'
  BY <1>b DEF IInv, Locked
<1>4. Beginning'
  <2>1. Owed' = Owed
    BY <1>b DEF Owed, Todo
  <2>2. /\ Unbegun(In) => Unbegun(In)' /\ (rb1'.finished => rb1.finished)
        /\ Unbegun(Out) => Unbegun(Out)'
    BY <1>a, <1>b DEF FlowMoved, Others, Unbegun
  <2> QED BY <1>b, <2>1, <2>2 DEF IInv, Beginning
<1>5. Pauses'
  <2>1. Running(Out)' => Running(Out)
    BY <1>a, <1>b DEF FlowMoved, Others, Goes, Running, At
  <2> QED BY <1>b, <2>1 DEF IInv, Pauses
<1>6. InputInv'
  <2>1. CASE task'[In] = task[In] /\ ended'[In] = ended[In] /\ (rb1'.finished => rb1.finished)
    BY <1>b, <2>1 DEF IInv, InputInv, InputOver, At
  <2>2. CASE task[In].pc \in {"input", "output"} /\ rb1'.finished = rb1.finished
             /\ (Goes(In, "output") \/ Goes(In, "judge") \/ Goes(In, "finish"))
    <3>1. ~rb1.finished
      BY <2>2 DEF IInv, InputInv, InputOver, At
    <3> QED BY <1>b, <2>2, <3>1 DEF IInv, InputInv, InputOver, At, Goes
  <2>3. CASE task[In].pc = "eos" /\ Goes(In, "cleanup") /\ ended'[In]
    BY <1>b, <2>3 DEF IInv, InputInv, InputOver, At, Goes
  <2> QED BY <1>a, <1>b, <2>1, <2>2, <2>3 DEF FlowMoved, Others
<1>7. OutputInv'
  <2>1. Played => Played'
    <3>1. rb1.finished => task[In].pc \notin {"input", "output"}
      BY DEF IInv, InputInv, InputOver, At
    <3>2. CASE rb1' = rb1
      BY <3>2 DEF Played
    <3>3. CASE task[In].pc = "eos" /\ rb1'.fill = rb1.fill
      BY <3>3 DEF IInv, InputInv, InputOver, Played, At
    <3>4. CASE rb1.fill > 0
      BY <3>4 DEF Played
    <3> QED BY <1>b, <3>1, <3>2, <3>3, <3>4 DEF FlowMoved, Played
  <2>2. CASE task'[Out] = task[Out]
    BY <1>b, <2>1, <2>2 DEF IInv, OutputInv, At
  <2>3. CASE task[Out].pc \in {"input", "output"} /\ (Goes(Out, "judge") \/ Goes(Out, "output"))
    BY <1>b, <2>1, <2>3 DEF IInv, OutputInv, At, Goes
  <2>4. CASE Played /\ Goes(Out, "finish")
    BY <1>b, <2>1, <2>4 DEF IInv, OutputInv, At, Goes
  <2> QED BY <1>a, <1>b, <2>2, <2>3, <2>4 DEF FlowMoved, Others
<1> QED BY <1>1, <1>2, <1>3, <1>4, <1>5, <1>6, <1>7 DEF IInv

----------------------------------------------------------------------------
(* A step of a callback.                                                    *)

\* The event is over.
LEMMA DoneKeeps ==
  ASSUME OneStart, IInv, NEW s \in Streams, EventDone(s), PhantomInv',
         callback[s] \in {"compare", "call"}, callback' = [callback EXCEPT ![s] = "out"],
         p_state' = p_state, rb1' = rb1, p_lock' = p_lock,
         app'.pc = app.pc, app'.op = app.op, app'.told => app.told \/ p_state # "INITED"
  PROVE  IInv'
<1>a. /\ Typed /\ Streams = {In, Out} /\ In # Out /\ Reporting(s)
      /\ callback \in [Streams -> {"out", "state", "compare", "call"}]
      /\ task[s].event \in Events
  BY PipeAssumption DEF IInv, PhantomInv, Typed, PipeTypeOK, Tasks, In, Out
<1>b. /\ Others(s) /\ caller' = caller /\ bits' = bits /\ ctrl_sem' = ctrl_sem /\ ended' = ended
      /\ task[s].pc = "event" /\ task'[s].pc = task[s].next
  BY <1>a, EventMoves
<1>c. /\ callback'[s] = "out" /\ \A r \in Streams : r # s => callback'[r] = callback[r]
      /\ \/ task[s].event = "STARTED" /\ task'[s].pc = "loop"
         \/ task[s].event = "PAUSED" /\ task'[s].pc = "paused"
         \/ task[s].event \in {"STOPPED", "FAILED"} /\ task'[s].pc = "top"
         \/ task[s].event = "DESTROYED" /\ task'[s].pc = "dying"
  BY <1>a, <1>b DEF Reporting, At, Events
<1>1. Calls'
  BY <1>b DEF IInv, Calls, RestOf, Owed, Todo
<1>2. Locked'
  BY <1>c DEF IInv, Locked
<1>3. Beginning'
  <2>1. \A r \in Streams : Unbegun(r) => Unbegun(r)'
    BY <1>b DEF Unbegun, Others
  <2>2. (Unbegun(In) => Unbegun(In)') /\ (Unbegun(Out) => Unbegun(Out)') /\ Owed' = Owed
    BY <1>a, <1>b, <2>1 DEF Owed, Todo
  <2> QED BY <2>2 DEF IInv, Beginning
<1>4. Pauses'
  <2>1. CASE s = Out
    BY <1>a, <1>b, <1>c, <2>1 DEF IInv, Pauses, Running, At
  <2>2. CASE s # Out
    BY <1>a, <1>b, <1>c, <2>2 DEF IInv, Pauses, Running, At, Others
  <2> QED BY <2>1, <2>2
<1>5. InputInv'
  <2>1. CASE s = In
    BY <1>b, <1>c, <2>1 DEF IInv, InputInv, InputOver, At
  <2>2. CASE s # In
    BY <1>a, <1>b, <2>2 DEF IInv, InputInv, InputOver, At, Others
  <2> QED BY <2>1, <2>2
<1>6. OutputInv'
  <2>0. Played' <=> Played
    BY DEF Played
  <2>1. CASE s = Out
    BY <1>b, <1>c, <2>0, <2>1 DEF IInv, OutputInv, At
  <2>2. CASE s # Out
    BY <1>a, <1>b, <2>0, <2>2 DEF IInv, OutputInv, At, Others
  <2> QED BY <2>1, <2>2
<1> QED BY <1>1, <1>2, <1>3, <1>4, <1>5, <1>6 DEF IInv

LEMMA CallbackKeeps ==
  ASSUME OneStart, IInv, NEW s \in Streams, CbStep(s)
  PROVE  IInv'
<1>a. /\ Typed /\ Streams = {In, Out} /\ In # Out /\ \A r \in Streams : r # "free" /\ r # App
      /\ App # "free" /\ Reporting(s)
      /\ callback \in [Streams -> {"out", "state", "compare", "call"}]
      /\ task[s].event \in Events
      /\ app \in [pc : AppPcs, op : PipeOps \cup {"none"}, told : BOOLEAN]
  BY PipeAssumption DEF IInv, PhantomInv, Typed, PipeTypeOK, Tasks, In, Out, App
<1>b. PhantomInv'
  BY CallbackPhantom DEF IInv
<1>1. ASSUME task' = task, bits' = bits, ctrl_sem' = ctrl_sem, caller' = caller, ended' = ended,
             rb1' = rb1, app' = app, Locked', Beginning', Pauses'
      PROVE  IInv'
  <2>1. Calls'
    BY <1>1 DEF IInv, Calls, RestOf, Owed, Todo
  <2>2. InputInv'
    BY <1>1 DEF IInv, InputInv, InputOver, At
  <2>3. OutputInv'
    BY <1>1 DEF IInv, OutputInv, Played, At
  <2> QED BY <1>b, <1>1, <2>1, <2>2, <2>3 DEF IInv
<1>2. CASE CbLock(s)
  <2>1. /\ task' = task /\ bits' = bits /\ ctrl_sem' = ctrl_sem /\ caller' = caller /\ ended' = ended
        /\ rb1' = rb1 /\ p_state' = p_state /\ app' = app /\ p_lock = "free" /\ p_lock' = s
        /\ callback' = [callback EXCEPT ![s] = "state"] /\ callback[s] = "out" /\ task[s].pc = "event"
    BY <1>2 DEF CbLock, vars, streamVars, callVars, At
  <2>2. callback'[s] = "state" /\ \A r \in Streams : r # s => callback'[r] = callback[r]
    BY <1>a, <2>1
  <2>3. Locked'
    BY <1>a, <2>1, <2>2 DEF IInv, Locked
  <2>4. Beginning'
    BY <2>1 DEF IInv, Beginning, Unbegun, Owed, Todo
  <2>5. Pauses'
    BY <1>a, <2>1, <2>2 DEF IInv, Pauses, Running, At
  <2> QED BY <1>1, <2>1, <2>3, <2>4, <2>5
<1>3. CASE CbState(s)
  <2>1. /\ task' = task /\ bits' = bits /\ ctrl_sem' = ctrl_sem /\ caller' = caller /\ ended' = ended
        /\ rb1' = rb1 /\ app' = app /\ p_lock' = "free"
        /\ callback' = [callback EXCEPT ![s] = "compare"] /\ callback[s] = "state"
        /\ p_state' = IF task[s].event \in {"STARTED", "STOPPED", "PAUSED"} THEN task[s].event ELSE p_state
    BY <1>3 DEF CbState, StateOf, vars, streamVars, callVars
  <2>2. callback'[s] = "compare" /\ \A r \in Streams : r # s => callback'[r] = callback[r]
    BY <1>a, <2>1
  <2>3. task[s].pc = "event" /\ ~Unbegun(s)
    BY <1>a, <2>1 DEF Reporting, At, Unbegun
  <2>4. p_lock = s /\ app.pc \notin {"inside", "refused"}
    BY <1>a, <2>1 DEF IInv, Locked
  <2>5. Locked'
    BY <1>a, <2>1, <2>2, <2>4 DEF IInv, Locked
  <2>6. Beginning'
    <3>1. p_state' = "INITED" => p_state = "INITED"
      BY <2>1
    <3>2. (Unbegun(In)' <=> Unbegun(In)) /\ (Unbegun(Out)' <=> Unbegun(Out)) /\ Owed' = Owed
      BY <2>1 DEF Unbegun, Owed, Todo
    <3>3. app.pc = "lock" /\ p_state = "INITED" => FALSE
      BY <1>a, <2>3 DEF IInv, Beginning
    <3> QED BY <2>1, <3>1, <3>2, <3>3 DEF IInv, Beginning
  <2>7. Pauses'
    <3>1. CASE s = Out
      BY <1>a, <2>1, <2>2, <2>3, <3>1 DEF IInv, Pauses, Running, At
    <3>2. CASE s = In
      <4>1. task[s].event # "PAUSED"
        BY <2>3, <3>2 DEF IInv, InputInv, At
      <4>2. p_state' = "PAUSED" => p_state = "PAUSED"
        BY <2>1, <4>1
      <4> QED BY <1>a, <2>1, <2>2, <3>2, <4>2 DEF IInv, Pauses, Running, At
    <3> QED BY <1>a, <3>1, <3>2
  <2> QED BY <1>1, <2>1, <2>5, <2>6, <2>7
<1>4. CASE CbCompare(s)
  <2>1. CASE old_state # p_state
    <3>1. /\ task' = task /\ bits' = bits /\ ctrl_sem' = ctrl_sem /\ caller' = caller /\ ended' = ended
          /\ rb1' = rb1 /\ p_state' = p_state /\ app' = app /\ p_lock' = p_lock
          /\ callback' = [callback EXCEPT ![s] = "call"] /\ callback[s] = "compare"
      BY <1>4, <2>1 DEF CbCompare, vars, streamVars, callVars
    <3>2. callback'[s] = "call" /\ \A r \in Streams : r # s => callback'[r] = callback[r]
      BY <1>a, <3>1
    <3>3. Locked'
      BY <1>a, <3>1, <3>2 DEF IInv, Locked
    <3>4. Beginning'
      BY <3>1 DEF IInv, Beginning, Unbegun, Owed, Todo
    <3>5. Pauses'
      BY <1>a, <3>1, <3>2 DEF IInv, Pauses, Running, At
    <3> QED BY <1>1, <3>1, <3>3, <3>4, <3>5
  <2>2. CASE ~(old_state # p_state)
    BY <1>4, <1>b, <2>2, DoneKeeps DEF CbCompare
  <2> QED BY <2>1, <2>2
<1>5. CASE CbCall(s)
  <2>1. app' = [app EXCEPT !.told = (app.told \/ p_state = Answer(app.op))]
    BY <1>5 DEF CbCall
  <2>2. app'.pc = app.pc /\ app'.op = app.op /\ (app'.told => app.told \/ p_state = Answer(app.op))
    BY <1>a, <2>1
  <2>3. Answer(app.op) # "INITED"
    <3>1. app.op \in {"start", "stop", "pause", "resume", "destroy", "none"}
      BY <1>a, PipeAssumption
    <3> QED BY <3>1 DEF Answer
  <2> QED BY <1>5, <1>b, <2>2, <2>3, DoneKeeps DEF CbCall
<1> QED BY <1>2, <1>3, <1>4, <1>5 DEF CbStep

----------------------------------------------------------------------------
LEMMA PlayStep == OneStart /\ IInv /\ [PipeNext]_allVars => IInv'
<1> SUFFICES ASSUME OneStart, IInv, [PipeNext]_allVars PROVE IInv'
  OBVIOUS
<1>1. ASSUME NEW s \in Streams, BlockStep(s) PROVE IInv'
  BY <1>1, BlockKeeps, CallbackKeeps DEF BlockStep
<1>2. CASE SourceRead \/ SinkWrite \/ RingStep
  BY <1>2, FlowKeeps
<1>3. CASE AppStep \/ \E op \in PipeOps : AppCall(op)
  BY <1>3, AppKeeps
<1>4. CASE UNCHANGED allVars
  <2>1. PhantomInv'
    BY <1>4, PhantomStep DEF IInv
  <2>2. /\ task' = task /\ bits' = bits /\ ctrl_sem' = ctrl_sem /\ caller' = caller /\ ended' = ended
        /\ rb1' = rb1 /\ p_lock' = p_lock /\ p_state' = p_state /\ callback' = callback /\ app' = app
    BY <1>4 DEF allVars, pipeVars, vars, streamVars, callVars
  <2>3. Calls' /\ Locked' /\ Beginning' /\ Pauses'
    <3>1. Calls'
      BY <2>2 DEF IInv, Calls, RestOf, Owed, Todo
    <3>2. Locked'
      BY <2>2 DEF IInv, Locked
    <3>3. Beginning'
      BY <2>2 DEF IInv, Beginning, Unbegun, Owed, Todo
    <3>4. Pauses'
      BY <2>2 DEF IInv, Pauses, Running, At
    <3> QED BY <3>1, <3>2, <3>3, <3>4
  <2>4. InputInv' /\ OutputInv'
    BY <2>2 DEF IInv, InputInv, InputOver, OutputInv, Played, At
  <2> QED BY <2>1, <2>3, <2>4 DEF IInv
<1> QED BY <1>1, <1>2, <1>3, <1>4 DEF PipeNext

LEMMA PlayInit == PipeInit => IInv
<1> SUFFICES ASSUME PipeInit PROVE IInv
  OBVIOUS
<1>1. PhantomInv
  BY PhantomInit
<1>2. /\ In \in Streams /\ Out \in Streams /\ App \in Callers
  BY PipeAssumption
<1>3. /\ task[In].pc = "top" /\ task[Out].pc = "top" /\ ~ctrl_sem[In] /\ ~ctrl_sem[Out]
      /\ ~bits[In].pause /\ Todo = <<>> /\ app.pc = "idle" /\ app.op = "none" /\ app.told = FALSE
      /\ rb1.finished = FALSE /\ p_state = "INITED" /\ \A s \in Streams : callback[s] = "out"
  BY <1>2 DEF PipeInit, Init, NoBits, NoCall, Todo
<1>4. Calls /\ Locked /\ Beginning /\ Pauses
  BY <1>2, <1>3 DEF Calls, Owed, Locked, Beginning, Unbegun, Pauses
<1>5. InputInv /\ OutputInv
  BY <1>3 DEF InputInv, OutputInv, At
<1> QED BY <1>1, <1>4, <1>5 DEF IInv

\* When an application starts its pipeline once and the sink takes its data, a stream that
\* reports STOPPED has done its part: the input stream has passed the end on, and the output
\* stream has played all that was written; whatever else is called, and if contexts fail to
\* open.
THEOREM PlayedTheorem == OneStart => (PipeSpec => []StoppedMeansDone)
<1> SUFFICES ASSUME OneStart PROVE PipeSpec => []StoppedMeansDone
  OBVIOUS
<1>1. IInv => StoppedMeansDone
  <2> SUFFICES ASSUME IInv PROVE StoppedMeansDone
    OBVIOUS
  <2>1. EndBeforeStopped
    BY PipeAssumption DEF IInv, InputInv, EndBeforeStopped, At
  <2>2. PlayedOut
    BY DEF IInv, OutputInv, Played, PlayedOut
  <2> QED BY <2>1, <2>2 DEF StoppedMeansDone
<1>2. IInv /\ [PipeNext]_allVars => IInv'
  BY PlayStep
<1> QED BY <1>1, <1>2, PlayInit, PTL DEF PipeSpec
=============================================================================
