--------------------------- MODULE AudioPipeline ---------------------------
(***************************************************************************)
(* components/audio_pipeline/audio_pipeline.c with the two streams and the  *)
(* ring buffer it was created with: an input stream (a reader) writes rb1,   *)
(* an output stream (a writer) reads it.  (A codec block between them comes  *)
(* from a prebuilt library and is optional.)  Both streams deliver their    *)
(* events to audio_pipe_event_cb, in their own tasks; the application calls  *)
(* the pipeline from its task.  rb_read and rb_write are atomic here, which  *)
(* RingBuf's refinement of ByteStream justifies; a chunk is the data of one  *)
(* call.                                                                    *)
(***************************************************************************)
EXTENDS AudioStream, Naturals

CONSTANTS Capacity,    \* chunks in rb1
          PipeOps,     \* what the application calls
          Again,       \* it starts a pipeline that has played before
          OutputFails  \* derived_write of the output stream may fail

In  == "in"
Out == "out"
App == "app"

ASSUME PipeAssumption == /\ Streams = {In, Out} /\ Readers = {In} /\ Callers = {App}
                         /\ Ops = {} /\ Capacity \in Nat \ {0} /\ {Again, OutputFails} \subseteq BOOLEAN
                         /\ PipeOps \subseteq {"start", "stop", "pause", "resume", "destroy"}

VARIABLES
  rb1,        \* fill, writer_finished, and whether rb_cleanup freed it
  p_lock,     \* p->lock: its holder, or "free"
  p_state, old_state,
  callback,   \* where each stream's task is in audio_pipe_event_cb
  app         \* the application: where it is in its call, and whether it got the answer

pipeVars == <<rb1, p_lock, p_state, old_state, callback, app>>
allVars  == <<vars, pipeVars>>

NoCall == [pc |-> "idle", op |-> "none", told |-> FALSE]

PipeInit ==
  /\ Init
  /\ rb1 = [fill |-> 0, finished |-> FALSE, freed |-> FALSE]
  /\ p_lock = "free"
  /\ p_state = "INITED" /\ old_state = "none"   \* calloc
  /\ callback = [s \in Streams |-> "out"]
  /\ app = NoCall

---------------------------------------------------------------------------
(* The streams' input and output functions on rb1.                          *)

\* derived_read of the input stream: a file or a connection, that may end.
SourceRead == /\ \E r \in {"data", "end"} : Input(In, r)
              /\ UNCHANGED pipeVars

\* rb_write_cb
RbWrite == /\ Output(In, TRUE)
           /\ rb1.fill < Capacity
           /\ rb1' = [rb1 EXCEPT !.fill = @ + 1]
           /\ UNCHANGED <<p_lock, p_state, old_state, callback, app>>

RbWriteFinished == /\ Output(In, FALSE)
                   /\ rb1.fill = Capacity /\ rb1.finished
                   /\ UNCHANGED pipeVars

\* Mutant: the end of the stream does not reach the ring buffer.
RbWriteEnd_lost == SignalEnd(In) /\ UNCHANGED pipeVars

\* rb_write_cb with len <= 0: rb_signal_writer_finished
RbWriteEnd == /\ SignalEnd(In)
              /\ rb1' = [rb1 EXCEPT !.finished = TRUE]
              /\ UNCHANGED <<p_lock, p_state, old_state, callback, app>>

\* Mutant: the end of the stream hides what is still in the buffer.
RbRead_hides ==
  /\ \/ Input(Out, "data") /\ rb1.fill > 0 /\ rb1' = [rb1 EXCEPT !.fill = @ - 1]
     \/ Input(Out, "end") /\ rb1.finished /\ UNCHANGED rb1
  /\ UNCHANGED <<p_lock, p_state, old_state, callback, app>>

\* rb_read_cb
RbRead ==
  /\ \/ Input(Out, "data") /\ rb1.fill > 0 /\ rb1' = [rb1 EXCEPT !.fill = @ - 1]
     \/ Input(Out, "end") /\ rb1.fill = 0 /\ rb1.finished /\ UNCHANGED rb1
  /\ UNCHANGED <<p_lock, p_state, old_state, callback, app>>

SinkWrite == /\ \E ok \in BOOLEAN : (ok \/ OutputFails) /\ Output(Out, ok)
             /\ UNCHANGED pipeVars

RingStep == RbWrite \/ RbWriteFinished \/ RbWriteEnd \/ RbRead

---------------------------------------------------------------------------
(* audio_pipe_event_cb, called by a stream's task.                          *)

\* The event that answers a call of the application.
Answer(op) == CASE op = "start" -> "STARTED" [] op = "stop" -> "STOPPED"
                [] op = "pause" -> "PAUSED"  [] op = "resume" -> "STARTED" [] OTHER -> "none"

StateOf(event, otherwise) ==
  IF event \in {"STARTED", "STOPPED", "PAUSED"} THEN event ELSE otherwise

CbLock(s) ==
  /\ At(s, "event") /\ callback[s] = "out"
  /\ p_lock = "free" /\ p_lock' = s
  /\ old_state' = p_state
  /\ callback' = [callback EXCEPT ![s] = "state"]
  /\ UNCHANGED <<vars, rb1, p_state, app>>

\* Mutant: a stop is recorded by the output stream only.
CbState_outOnly(s) ==
  /\ callback[s] = "state"
  /\ p_state' = IF task[s].event = "STOPPED" /\ s = In THEN p_state
                                                      ELSE StateOf(task[s].event, p_state)
  /\ p_lock' = "free"
  /\ callback' = [callback EXCEPT ![s] = "compare"]
  /\ UNCHANGED <<vars, rb1, old_state, app>>

CbState(s) ==
  /\ callback[s] = "state"
  /\ p_state' = StateOf(task[s].event, p_state)
  /\ p_lock' = "free"
  /\ callback' = [callback EXCEPT ![s] = "compare"]
  /\ UNCHANGED <<vars, rb1, old_state, app>>

\* The two states are read again without the lock.
CbCompare(s) ==
  /\ callback[s] = "compare"
  /\ IF old_state # p_state
       THEN callback' = [callback EXCEPT ![s] = "call"] /\ UNCHANGED vars
       ELSE callback' = [callback EXCEPT ![s] = "out"] /\ EventDone(s)
  /\ UNCHANGED <<rb1, p_lock, p_state, old_state, app>>

CbCall(s) ==
  /\ callback[s] = "call"
  /\ app' = [app EXCEPT !.told = @ \/ p_state = Answer(app.op)]
  /\ callback' = [callback EXCEPT ![s] = "out"]
  /\ EventDone(s)
  /\ UNCHANGED <<rb1, p_lock, p_state, old_state>>

CbStep(s) == CbLock(s) \/ CbState(s) \/ CbCompare(s) \/ CbCall(s)

---------------------------------------------------------------------------
(* The application's calls.  audio_state_machine: which states allow a call, *)
(* and what it does to the blocks, first to last.                           *)

From(op) == CASE op = "start"  -> {"INITED", "STOPPED"}
              [] op = "stop"   -> {"STARTED"}
              [] op = "pause"  -> {"STARTED"}
              [] op = "resume" -> {"PAUSED"}

Ring(act) == <<[stream |-> In, act |-> act]>>

PipeScript(op) ==
  CASE op = "start"   -> Ring("rb_reset") \o On(In, Script("start")) \o On(Out, Script("start"))
    [] op = "stop"    -> On(In, Script("stop"))
    [] op = "pause"   -> On(Out, Script("pause"))
    [] op = "resume"  -> On(Out, Script("resume"))
    [] op = "destroy" -> Ring("rb_cleanup") \o On(In, Script("destroy")) \o On(Out, Script("destroy"))

\* The header asks to wait for the event of a call before the next one.
AppCall(op) ==
  /\ app.pc = "idle"
  /\ op = "start" /\ ~Again => p_state = "INITED"
  /\ app' = [pc |-> "lock", op |-> op, told |-> FALSE]
  /\ UNCHANGED <<vars, rb1, p_lock, p_state, old_state, callback>>

AppLock ==
  /\ app.pc = "lock" /\ app.op # "destroy"
  /\ p_lock = "free" /\ p_lock' = App
  /\ IF p_state \in From(app.op)
       THEN /\ caller' = [caller EXCEPT ![App].todo = PipeScript(app.op)]
            /\ app' = [app EXCEPT !.pc = "inside"]
       ELSE /\ app' = [app EXCEPT !.pc = "refused"]
            /\ UNCHANGED caller
  /\ UNCHANGED <<streamVars, rb1, p_state, old_state, callback>>

\* audio_pipe_destroy takes and gives the lock, and goes on without it.
AppDestroy ==
  /\ app.pc = "lock" /\ app.op = "destroy"
  /\ p_lock = "free"
  /\ caller' = [caller EXCEPT ![App].todo = PipeScript("destroy")]
  /\ app' = [app EXCEPT !.pc = "destroying"]
  /\ UNCHANGED <<streamVars, rb1, p_lock, p_state, old_state, callback>>

AppRing ==
  /\ Doing(App, {"rb_reset", "rb_cleanup"})
  /\ rb1' = IF Doing(App, {"rb_reset"}) THEN [rb1 EXCEPT !.fill = 0, !.finished = FALSE]
                                        ELSE [rb1 EXCEPT !.freed = TRUE]
  /\ ActDone(App)
  /\ UNCHANGED <<streamVars, p_lock, p_state, old_state, callback, app>>

AppUnlock ==
  /\ app.pc \in {"inside", "refused"} /\ ~InCall(App)
  /\ p_lock' = "free"
  /\ app' = IF app.pc = "inside" THEN [app EXCEPT !.pc = "waiting"] ELSE NoCall
  /\ UNCHANGED <<vars, rb1, p_state, old_state, callback>>

AppAnswered ==
  /\ app.pc = "waiting" /\ app.told
  /\ app' = NoCall
  /\ UNCHANGED <<vars, rb1, p_lock, p_state, old_state, callback>>

AppStep == \/ AppLock \/ AppDestroy \/ AppRing \/ AppUnlock \/ AppAnswered
           \/ CallerStep(App) /\ UNCHANGED pipeVars

BlockStep(s) == \/ ControlStep(s) /\ UNCHANGED pipeVars
                \/ CbStep(s)

PipeNext ==
  \/ \E s \in Streams : BlockStep(s)
  \/ SourceRead \/ SinkWrite
  \/ RingStep
  \/ AppStep
  \/ \E op \in PipeOps : AppCall(op)

PipeSpec == PipeInit /\ [][PipeNext]_allVars

(* Tasks that can run do, sources end, sinks take their data, the mutex is   *)
(* handed out in turn, and the application is free not to call.              *)
PipeFairness ==
  /\ \A s \in Streams : /\ WF_allVars(BlockStep(s))
                        /\ SF_allVars(CbLock(s))
  /\ WF_allVars(SourceRead)
  /\ SF_allVars(Input(In, "end") /\ UNCHANGED pipeVars)
  /\ WF_allVars(SinkWrite) /\ WF_allVars(RbRead)
  /\ WF_allVars(RbWrite \/ RbWriteFinished) /\ WF_allVars(RbWriteEnd)
  /\ WF_allVars(AppStep) /\ SF_allVars(AppLock)

FairPipeSpec == PipeSpec /\ PipeFairness

---------------------------------------------------------------------------
(* Properties.                                                              *)

\* Type invariant of the pipeline's own state.
PipeTypeOK ==
  /\ rb1 \in [fill : 0..Capacity, finished : BOOLEAN, freed : BOOLEAN]
  /\ p_lock \in Streams \cup {App, "free"}
  /\ p_state \in {"INITED", "STARTED", "STOPPED", "PAUSED"}
  /\ old_state \in {"none", "INITED", "STARTED", "STOPPED", "PAUSED"}
  /\ callback \in [Streams -> {"out", "state", "compare", "call"}]
  /\ app.pc \in {"idle", "lock", "inside", "refused", "destroying", "waiting"}

\* No task is inside, or on its way into, anything.
Quiet == /\ \A s \in Streams : At(s, "take") /\ ~ctrl_sem[s]
         /\ app.pc \in {"idle", "waiting"}

\* A pipeline in which nothing runs and nothing will does not claim to be
\* started, whatever mix of starts, stops, pauses and resumes came before:
\* audio_pipe_start would be refused for ever.
NoPhantomStart == PipeTypeOK /\ (Quiet => p_state # "STARTED")

\* The output stream says it has stopped only when all that the input stream
\* wrote has been played.
PlayedOut == (At(Out, "event") /\ task[Out].event = "STOPPED") => rb1.fill = 0 /\ rb1.finished

\* When a stream reports STOPPED its part is done: the input stream has passed the
\* end on to rb1, and the output stream has played all of it.
StoppedMeansDone == EndBeforeStopped /\ PlayedOut

\* A pipeline that is not called again comes to rest, stopped.
EndsStopped == <>[](app.pc \in {"idle", "waiting"} /\ ~InCall(App)) =>
                 <>[](p_state # "STARTED" /\ \A s \in Streams : At(s, "take"))
=============================================================================
