---------------------------- MODULE AudioStream ----------------------------
(***************************************************************************)
(* components/streams/audio_stream.c: every audio stream is a task that     *)
(* waits on a control semaphore, opens its derived context, moves data from *)
(* an input to an output function until it is stopped, and reports events.  *)
(* Other tasks control it through three bits of one byte, written without a *)
(* lock, and the semaphore.                                                 *)
(* Each step touches shared memory once.  Data is left out: a call of an    *)
(* input function yields "data", "none" (no bytes), "wake" (-3, rb_read was *)
(* woken) or "end" (any other negative result).                             *)
(***************************************************************************)
EXTENDS Sequences

CONSTANTS Streams,
          Readers,     \* streams of STREAM_TYPE_READER; the others are writers
          Callers,     \* tasks that control streams
          Ops,         \* the control functions they call
          MayFail,     \* derived_context_init may fail
          AtomicBits   \* a store to one control bit leaves the others alone

AllOps == {"start", "stop", "pause", "resume", "destroy"}

ASSUME StreamsAssumption == Readers \subseteq Streams
ASSUME OpsAssumption     == Ops \subseteq AllOps
ASSUME FlagsAssumption   == {MayFail, AtomicBits} \subseteq BOOLEAN

VARIABLES
  state,    \* stream->state
  bits,     \* the byte that holds _run, _pause and _destroy
  ctrl_sem, \* stream->ctrl_sem, a counting semaphore of at most 1
  task,     \* the stream's task: pc and locals
  caller,   \* the controlling tasks: what is left of the call
  context,  \* has derived_context_init run and derived_context_cleanup not
  freed,    \* audio_stream_cleanup has freed buf and ctrl_sem
  ended     \* history: the output function got its end of stream in this run

streamVars == <<state, bits, ctrl_sem, task, context, freed, ended>>
callVars   == <<caller>>
vars       == <<streamVars, callVars>>

Bits   == [run : BOOLEAN, pause : BOOLEAN, destroy : BOOLEAN]
NoBits == [run |-> FALSE, pause |-> FALSE, destroy |-> FALSE]

\* The byte as a task has it in a register between its load and its store.
InRegister(byte)    == [loaded |-> TRUE,  byte |-> byte]
NothingInRegister   == [loaded |-> FALSE, byte |-> NoBits]
Registers           == [loaded : BOOLEAN, byte : Bits]

\* Mutant: audio_stream_init does not set the state.
Init_unset ==
  /\ state = [s \in Streams |-> "unset"]
  /\ bits = [s \in Streams |-> NoBits]
  /\ ctrl_sem = [s \in Streams |-> FALSE]
  /\ task = [s \in Streams |->
               [pc |-> "top", reg |-> NothingInRegister, event |-> "none", next |-> "top"]]
  /\ context = [s \in Streams |-> FALSE]
  /\ freed = [s \in Streams |-> FALSE]
  /\ ended = [s \in Streams |-> FALSE]
  /\ caller = [c \in Callers |-> [todo |-> <<>>, reg |-> NothingInRegister]]

\* audio_stream_init leaves the stream so and starts its task.
Init ==
  /\ state = [s \in Streams |-> "INIT"]
  /\ bits = [s \in Streams |-> NoBits]
  /\ ctrl_sem = [s \in Streams |-> FALSE]
  /\ task = [s \in Streams |->
               [pc |-> "top", reg |-> NothingInRegister, event |-> "none", next |-> "top"]]
  /\ context = [s \in Streams |-> FALSE]
  /\ freed = [s \in Streams |-> FALSE]
  /\ ended = [s \in Streams |-> FALSE]
  /\ caller = [c \in Callers |-> [todo |-> <<>>, reg |-> NothingInRegister]]

---------------------------------------------------------------------------
(* audio_stream_task.                                                       *)

At(s, pc)   == task[s].pc = pc
Goto(s, pc) == task' = [task EXCEPT ![s].pc = pc]

\* audio_stream_generate_event: the callback runs in the stream's task.
Emit(s, e, next) ==
  task' = [task EXCEPT ![s] = [@ EXCEPT !.pc = "event", !.event = e, !.next = next]]

Top(s) ==
  /\ At(s, "top")
  /\ state' = [state EXCEPT ![s] = "STOPPED"]
  /\ Goto(s, "take")
  /\ UNCHANGED <<bits, ctrl_sem, callVars, context, freed, ended>>

Take(s) ==
  /\ At(s, "take") /\ ctrl_sem[s]
  /\ ctrl_sem' = [ctrl_sem EXCEPT ![s] = FALSE]
  /\ Goto(s, "destroy?")
  /\ UNCHANGED <<state, bits, callVars, context, freed, ended>>

CheckDestroy(s) ==
  /\ At(s, "destroy?")
  /\ IF bits[s].destroy THEN Emit(s, "DESTROYED", "dying") ELSE Goto(s, "run?")
  /\ UNCHANGED <<state, bits, ctrl_sem, callVars, context, freed, ended>>

\* A token without _run only cleans up.
CheckRun(s) ==
  /\ At(s, "run?")
  /\ \/ bits[s].run /\ Goto(s, "pause?") /\ UNCHANGED context
     \/ ~bits[s].run /\ Goto(s, "top") /\ context' = [context EXCEPT ![s] = FALSE]
  /\ UNCHANGED <<state, bits, ctrl_sem, callVars, freed, ended>>

CheckPause(s) ==
  /\ At(s, "pause?")
  /\ Goto(s, IF bits[s].pause THEN "unpause" ELSE "open")
  /\ UNCHANGED <<state, bits, ctrl_sem, callVars, context, freed, ended>>

ContextInit(s, ok) ==
  /\ At(s, "open")
  /\ ok \/ MayFail
  /\ IF ok THEN Goto(s, "unpause") ELSE Emit(s, "FAILED", "top")
  /\ context' = [context EXCEPT ![s] = @ \/ ok]
  /\ UNCHANGED <<state, bits, ctrl_sem, callVars, freed, ended>>

\* A store to a bit field reads the byte and writes it back.
LoadByte(s) ==
  /\ task[s].pc \in {"unpause", "finish"}
  /\ ~AtomicBits /\ ~task[s].reg.loaded
  /\ task' = [task EXCEPT ![s].reg = InRegister(bits[s])]
  /\ UNCHANGED <<state, bits, ctrl_sem, callVars, context, freed, ended>>

StoredOver(s, reg) == IF AtomicBits THEN bits[s] ELSE reg.byte
CanStore(reg)      == AtomicBits \/ reg.loaded

\* _pause = 0; state = RUNNING
Unpause(s) ==
  /\ At(s, "unpause") /\ CanStore(task[s].reg)
  /\ bits' = [bits EXCEPT ![s] = [StoredOver(s, task[s].reg) EXCEPT !.pause = FALSE]]
  /\ state' = [state EXCEPT ![s] = "RUNNING"]
  /\ task' = [task EXCEPT ![s] = [pc |-> "event", reg |-> NothingInRegister,
                                  event |-> "STARTED", next |-> "loop"]]
  /\ ended' = [ended EXCEPT ![s] = FALSE]
  /\ UNCHANGED <<ctrl_sem, callVars, context, freed>>

Loop(s) ==
  /\ At(s, "loop")
  /\ Goto(s, IF bits[s].run THEN "input" ELSE "left")
  /\ UNCHANGED <<state, bits, ctrl_sem, callVars, context, freed, ended>>

\* stream_input of a writer, derived_read of a reader.
Inputs(s) == IF s \in Readers THEN {"data", "none", "end"} ELSE {"data", "none", "wake", "end"}

Input(s, r) ==
  /\ At(s, "input") /\ r \in Inputs(s)
  /\ Goto(s, CASE r = "data" -> "output"
               [] r = "none" -> "judge"
               [] r = "wake" -> "loop"
               [] r = "end"  -> "finish")
  /\ UNCHANGED <<state, bits, ctrl_sem, callVars, context, freed, ended>>

\* derived_write of a writer, stream_output of a reader.
Output(s, ok) ==
  /\ At(s, "output")
  /\ Goto(s, IF ok THEN "judge" ELSE "finish")
  /\ UNCHANGED <<state, bits, ctrl_sem, callVars, context, freed, ended>>

\* The stream stops itself: _run = 0
Finish(s) ==
  /\ At(s, "finish") /\ CanStore(task[s].reg)
  /\ bits' = [bits EXCEPT ![s] = [StoredOver(s, task[s].reg) EXCEPT !.run = FALSE]]
  /\ task' = [task EXCEPT ![s] = [@ EXCEPT !.pc = "judge", !.reg = NothingInRegister]]
  /\ UNCHANGED <<state, ctrl_sem, callVars, context, freed, ended>>

Judge(s) ==
  /\ At(s, "judge")
  /\ Goto(s, IF bits[s].pause \/ bits[s].destroy THEN "left" ELSE "loop")
  /\ UNCHANGED <<state, bits, ctrl_sem, callVars, context, freed, ended>>

\* Out of the loop: _destroy is tested first, then _pause.
Left(s) ==
  /\ At(s, "left")
  /\ IF bits[s].destroy THEN Emit(s, "DESTROYED", "dying") ELSE Goto(s, "paused?")
  /\ UNCHANGED <<state, bits, ctrl_sem, callVars, context, freed, ended>>

LeftPaused(s) ==
  /\ At(s, "paused?")
  /\ IF bits[s].pause THEN Emit(s, "PAUSED", "paused") ELSE Goto(s, "end?")
  /\ UNCHANGED <<state, bits, ctrl_sem, callVars, context, freed, ended>>

Paused(s) ==
  /\ At(s, "paused")
  /\ state' = [state EXCEPT ![s] = "PAUSED"]
  /\ Goto(s, "top")
  /\ UNCHANGED <<bits, ctrl_sem, callVars, context, freed, ended>>

\* Mutant: the context is cleaned up before the output is told.
LeftStopped_closes(s) ==
  /\ At(s, "end?")
  /\ Goto(s, IF ~bits[s].run /\ s \in Readers THEN "eos" ELSE "cleanup")
  /\ context' = [context EXCEPT ![s] = FALSE]
  /\ UNCHANGED <<state, bits, ctrl_sem, callVars, freed, ended>>

\* A reader that stopped tells its output so.
LeftStopped(s) ==
  /\ At(s, "end?")
  /\ Goto(s, IF ~bits[s].run /\ s \in Readers THEN "eos" ELSE "cleanup")
  /\ UNCHANGED <<state, bits, ctrl_sem, callVars, context, freed, ended>>

SignalEnd(s) ==
  /\ At(s, "eos")
  /\ ended' = [ended EXCEPT ![s] = TRUE]
  /\ Goto(s, "cleanup")
  /\ UNCHANGED <<state, bits, ctrl_sem, callVars, context, freed>>

Cleanup(s) ==
  /\ At(s, "cleanup")
  /\ context' = [context EXCEPT ![s] = FALSE]
  /\ Emit(s, "STOPPED", "top")
  /\ UNCHANGED <<state, bits, ctrl_sem, callVars, freed, ended>>

\* The callbacks have returned.
EventDone(s) ==
  /\ At(s, "event")
  /\ task' = [task EXCEPT ![s] = [@ EXCEPT !.pc = task[s].next, !.event = "none", !.next = "top"]]
  /\ UNCHANGED <<state, bits, ctrl_sem, callVars, context, freed, ended>>

\* Mutant: the stream is reported destroyed before its last clean-up.
Dying_early(s) ==
  /\ At(s, "dying")
  /\ state' = [state EXCEPT ![s] = "DESTROYED"]
  /\ Goto(s, "die")
  /\ UNCHANGED <<bits, ctrl_sem, callVars, context, freed, ended>>

Dying(s) ==
  /\ At(s, "dying")
  /\ context' = [context EXCEPT ![s] = FALSE]
  /\ Goto(s, "die")
  /\ UNCHANGED <<state, bits, ctrl_sem, callVars, freed, ended>>

\* The last access of the task to the stream.
Die(s) ==
  /\ At(s, "die")
  /\ state' = [state EXCEPT ![s] = "DESTROYED"]
  /\ Goto(s, "dead")
  /\ UNCHANGED <<bits, ctrl_sem, callVars, context, freed, ended>>

\* What a stream's task does between two calls of its I/O functions and callbacks.
ControlStep(s) ==
  \/ Top(s) \/ Take(s) \/ CheckDestroy(s) \/ CheckRun(s) \/ CheckPause(s)
  \/ \E ok \in BOOLEAN : ContextInit(s, ok)
  \/ LoadByte(s) \/ Unpause(s) \/ Loop(s) \/ Finish(s) \/ Judge(s)
  \/ Left(s) \/ LeftPaused(s) \/ Paused(s) \/ LeftStopped(s) \/ Cleanup(s)
  \/ Dying(s) \/ Die(s)

TaskStep(s) ==
  \/ ControlStep(s)
  \/ \E r \in Inputs(s) : Input(s, r)
  \/ \E ok \in BOOLEAN : Output(s, ok)
  \/ SignalEnd(s)
  \/ EventDone(s)

---------------------------------------------------------------------------
(* audio_stream_start, _stop, _pause, _resume, _destroy: what each does to   *)
(* the stream, in order.                                                    *)

\* Mutant: stop and destroy do not give the semaphore.
Script_noGive(op) == CASE op = "start"   -> <<"run", "unpause", "give">>
                       [] op = "stop"    -> <<"halt", "unpause">>
                       [] op = "pause"   -> <<"pause">>
                       [] op = "resume"  -> <<"unpause", "give">>
                       [] op = "destroy" -> <<"destroy", "join">>

Script(op) == CASE op = "start"   -> <<"run", "unpause", "give">>
                [] op = "stop"    -> <<"halt", "unpause", "give">>
                [] op = "pause"   -> <<"pause">>
                [] op = "resume"  -> <<"unpause", "give">>
                [] op = "destroy" -> <<"destroy", "give", "join">>

On(s, script) == [i \in DOMAIN script |-> [stream |-> s, act |-> script[i]]]

StoreActs == {"run", "halt", "pause", "unpause", "destroy"}

SetBit(act, byte) ==
  CASE act = "run"     -> [byte EXCEPT !.run = TRUE]
    [] act = "halt"    -> [byte EXCEPT !.run = FALSE]
    [] act = "pause"   -> [byte EXCEPT !.pause = TRUE]
    [] act = "unpause" -> [byte EXCEPT !.pause = FALSE]
    [] act = "destroy" -> [byte EXCEPT !.destroy = TRUE]

InCall(c) == caller[c].todo # <<>>

Doing(c, acts) == InCall(c) /\ Head(caller[c].todo).act \in acts

Target(c) == Head(caller[c].todo).stream

ActDone(c) == caller' = [caller EXCEPT ![c] = [todo |-> Tail(@.todo), reg |-> NothingInRegister]]

CallerLoad(c) ==
  /\ Doing(c, StoreActs)
  /\ ~AtomicBits /\ ~caller[c].reg.loaded
  /\ caller' = [caller EXCEPT ![c].reg = InRegister(bits[Target(c)])]
  /\ UNCHANGED streamVars

CallerStore(c) ==
  /\ Doing(c, StoreActs) /\ CanStore(caller[c].reg)
  /\ bits' = [bits EXCEPT ![Target(c)] =
                SetBit(Head(caller[c].todo).act, StoredOver(Target(c), caller[c].reg))]
  /\ ActDone(c)
  /\ UNCHANGED <<state, ctrl_sem, task, context, freed, ended>>

CallerGive(c) ==
  /\ Doing(c, {"give"})
  /\ ctrl_sem' = [ctrl_sem EXCEPT ![Target(c)] = TRUE]
  /\ ActDone(c)
  /\ UNCHANGED <<state, bits, task, context, freed, ended>>

\* audio_stream_destroy polls the state, then frees the stream's memory.
CallerJoin(c) ==
  /\ Doing(c, {"join"}) /\ state[Target(c)] = "DESTROYED"
  /\ freed' = [freed EXCEPT ![Target(c)] = TRUE]
  /\ ActDone(c)
  /\ UNCHANGED <<state, bits, ctrl_sem, task, context, ended>>

CallerStep(c) == CallerLoad(c) \/ CallerStore(c) \/ CallerGive(c) \/ CallerJoin(c)

\* Who destroys a stream is its last user.
Unused(s) == \A c \in Callers : InCall(c) => Target(c) # s

Doomed(s) == \/ bits[s].destroy \/ state[s] = "DESTROYED"
             \/ \E c \in Callers : \E i \in DOMAIN caller[c].todo :
                  caller[c].todo[i].stream = s /\ caller[c].todo[i].act \in {"destroy", "join"}

CallStream(c, s, op) ==
  /\ ~InCall(c)
  /\ ~Doomed(s) /\ (op = "destroy" => Unused(s))
  /\ caller' = [caller EXCEPT ![c].todo = On(s, Script(op))]
  /\ UNCHANGED streamVars

Next ==
  \/ \E s \in Streams : TaskStep(s)
  \/ \E c \in Callers : CallerStep(c)
  \/ \E c \in Callers, s \in Streams, op \in Ops : CallStream(c, s, op)

Spec == Init /\ [][Next]_vars

(* Scheduling.  A task that can run does; input, output and the callbacks    *)
(* return, and nobody wakes an input for ever (a wake-up sends the task back  *)
(* to its input without a look at _pause and _destroy).  No input is expected *)
(* to end by itself, and nobody has to call.                                *)
Fairness ==
  /\ \A s \in Streams : /\ WF_vars(TaskStep(s))
                        /\ SF_vars(\E r \in Inputs(s) \ {"wake"} : Input(s, r))
  /\ \A c \in Callers : WF_vars(CallerStep(c))

FairSpec == Spec /\ Fairness

---------------------------------------------------------------------------
(* Properties.                                                              *)

Pcs == {"top", "take", "destroy?", "run?", "pause?", "open", "unpause", "loop", "input",
        "output", "finish", "judge", "left", "paused?", "paused", "end?", "eos", "cleanup",
        "event", "dying", "die", "dead"}

Events == {"none", "STARTED", "STOPPED", "PAUSED", "DESTROYED", "FAILED"}

Acts == [stream : Streams, act : StoreActs \cup {"give", "join"}]

\* Type invariant.
TypeOK ==
  /\ state \in [Streams -> {"INIT", "RUNNING", "STOPPED", "PAUSED", "DESTROYED"}]
  /\ bits \in [Streams -> Bits] /\ ctrl_sem \in [Streams -> BOOLEAN]
  /\ task \in [Streams -> [pc : Pcs, reg : Registers, event : Events, next : Pcs]]
  /\ caller \in [Callers -> [todo : Seq(Acts), reg : Registers]]
  /\ context \in [Streams -> BOOLEAN] /\ freed \in [Streams -> BOOLEAN]
  /\ ended \in [Streams -> BOOLEAN]

\* audio_stream_destroy frees the buffer and the semaphore, and its caller the
\* stream itself, when the task has used them for the last time.
FreedOnlyWhenDead == \A s \in Streams : freed[s] => At(s, "dead") /\ ~context[s]

\* The derived functions are called with their context open: fs_read on a closed
\* file, http_response_recv on no connection crash.
ContextBeforeUse ==
  \A s \in Streams : task[s].pc \in {"input", "output", "eos"} => context[s]

\* The reader of a reader's output is told the end before the stream says it has
\* stopped: nothing else would ever get that task out of its rb_read.
EndBeforeStopped ==
  \A s \in Readers : (At(s, "event") /\ task[s].event = "STOPPED") => ended[s]

\* A context is not opened over an open one (the old file or connection leaks).
OpenedOnce == \A s \in Streams : At(s, "open") => ~context[s]

\* Open, use and cleanup of the context take turns, however starts, stops and
\* destroys of several callers interleave.
ContextInTurn == ContextBeforeUse /\ OpenedOnce

\* audio_stream_destroy returns, unless a colliding store undoes its _destroy bit: it
\* then polls for the end of a task that was told nothing.
DestroyReturns ==
  \A c \in Callers :
    Doing(c, {"join"}) ~> (Doing(c, {"join"}) => ~bits[Target(c)].destroy)

AtRest(s) == task[s].pc \in {"take", "dead"} /\ ~context[s]

\* After audio_stream_stop the stream comes to rest with its context closed, in
\* whatever state it was, unless it is called again or a colliding store brings its
\* _run bit back.
StopTakesEffect ==
  \A c \in Callers, s \in Streams :
    (Doing(c, {"unpause"}) /\ Target(c) = s /\ ~bits[s].run)
      ~> (AtRest(s) \/ bits[s].run \/ \E d \in Callers : Doing(d, {"run", "pause", "destroy"}))
=============================================================================
