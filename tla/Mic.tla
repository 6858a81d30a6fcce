-------------------------------- MODULE Mic --------------------------------
(***************************************************************************)
(* The microphone: the button task (va_button.c), the DSP thread with its queue *)
(* (va_dsp.c of the LyraT board) and the mute flag in flash, which outlives a   *)
(* loss of power.  The recogniser is a prebuilt library: it starts and stops    *)
(* the microphone from tasks of its own.  Volume, the resets and the wake word, *)
(* which the driver drops (116), are left out.                                  *)
(***************************************************************************)
EXTENDS Naturals, Sequences, SequencesExt

CONSTANTS QueueLength,  \* of cmd_queue
          MaxPresses, MaxCalls, MaxRestarts  \* bounds: of the user, the library, the power

ASSUME MicAssumption ==
  QueueLength \in Nat \ {0} /\ {MaxPresses, MaxCalls, MaxRestarts} \subseteq Nat

VARIABLES
  asked,   \* app_to_current_val: the button the application has pressed, or "idle"
  seen,    \* current_adc_val of the task
  tapped,  \* act_btn_press_en
  flg,     \* mute_btn_press_flg: 1 not muted, 2 muting, 3 muted, 4 unmuting
  b_mute,  \* button_st.b_mute
  task,    \* where the button task is
  dsp,     \* dsp_state
  thread,  \* where va_dsp_thread is
  queue,   \* cmd_queue
  nvs,     \* the mute flag in flash
  kept,    \* history: the last write of it succeeded
  left     \* the presses, calls and restarts left

button == <<asked, seen, tapped, flg, b_mute, task>>
driver == <<dsp, thread>>
vars == <<button, driver, queue, nvs, kept, left>>

Events == {"TAP_TO_TALK", "GET_AUDIO", "START_MIC", "STOP_MIC", "MUTE", "UNMUTE"}

\* xQueueSend with portMAX_DELAY
Full    == Len(queue) >= QueueLength
Send(e) == ~Full /\ queue' = Append(queue, e)

\* After a boot; va_dsp_init queues the mute that was stored.
Booted(muted) ==
  [asked |-> "idle", flg |-> IF muted THEN 3 ELSE 1, queue |-> IF muted THEN <<"MUTE">> ELSE <<>>]

Init ==
  /\ nvs \in BOOLEAN /\ kept = TRUE
  /\ asked = Booted(nvs).asked /\ seen = "idle" /\ tapped = FALSE
  /\ flg = Booted(nvs).flg /\ b_mute = FALSE /\ task = "scan"
  /\ dsp = "STOPPED" /\ thread = "receive" /\ queue = Booted(nvs).queue
  /\ left = [presses |-> MaxPresses, calls |-> MaxCalls, restarts |-> MaxRestarts]

---------------------------------------------------------------------------
(* va_button_adc_task, and the callbacks of the application that press.       *)

Press ==
  /\ left.presses > 0 /\ left' = [left EXCEPT !.presses = @ - 1]
  /\ asked' \in {"tap", "mute"}
  /\ UNCHANGED <<seen, tapped, flg, b_mute, task, driver, queue, nvs, kept>>

ScanTap ==
  /\ task = "scan" /\ asked = "tap" /\ seen' = asked
  /\ tapped' = TRUE /\ task' = "delay"
  /\ UNCHANGED <<asked, flg, b_mute, driver, queue, nvs, kept, left>>

ScanMute ==
  /\ task = "scan" /\ asked = "mute" /\ seen' = asked
  /\ flg' = CASE flg = 1 -> 2 [] flg = 3 -> 4 [] OTHER -> flg
  /\ b_mute' = CASE flg = 1 -> TRUE [] flg = 3 -> FALSE [] OTHER -> b_mute
  /\ task' = "delay"
  /\ UNCHANGED <<asked, tapped, driver, queue, nvs, kept, left>>

ScanIdle ==
  /\ task = "scan" /\ asked = "idle" /\ seen' = asked
  /\ task' = IF flg \in {2, 4} THEN "store" ELSE "tap"
  /\ UNCHANGED <<asked, tapped, flg, b_mute, driver, queue, nvs, kept, left>>

\* The timer task writes the flash and notifies the caller, which waits.
va_nvs_set_i8(val) ==
  \/ nvs' = val /\ kept' = TRUE
  \/ UNCHANGED nvs /\ kept' = FALSE

\* va_dsp_mic_mute: first the flash, whose failure it ignores, then the queue.
StoreMute ==
  /\ task = "store" /\ va_nvs_set_i8(b_mute) /\ task' = "post"
  /\ UNCHANGED <<asked, seen, tapped, flg, b_mute, driver, queue, left>>

PostMute ==
  /\ task = "post" /\ Send(IF b_mute THEN "MUTE" ELSE "UNMUTE")
  /\ flg' = IF flg = 2 THEN 3 ELSE 1
  /\ task' = "tap"
  /\ UNCHANGED <<asked, seen, tapped, b_mute, driver, nvs, kept, left>>

\* An alert that sounds is stopped instead.
NoTap ==
  /\ task = "tap" /\ task' = "delay" /\ tapped' = FALSE
  /\ UNCHANGED <<asked, seen, flg, b_mute, driver, queue, nvs, kept, left>>

Tap ==
  /\ task = "tap" /\ tapped /\ ~b_mute /\ Send("TAP_TO_TALK")
  /\ task' = "delay" /\ tapped' = FALSE
  /\ UNCHANGED <<asked, seen, flg, b_mute, driver, nvs, kept, left>>

\* After 200 ms what was pressed is taken back, also if it is another press by now.
Delay ==
  /\ task = "delay" /\ task' = "scan"
  /\ asked' = IF seen # "idle" THEN "idle" ELSE asked
  /\ UNCHANGED <<seen, tapped, flg, b_mute, driver, queue, nvs, kept, left>>

Button == ScanTap \/ ScanMute \/ ScanIdle \/ StoreMute \/ PostMute \/ NoTap \/ Tap \/ Delay

---------------------------------------------------------------------------
(* va_dsp_thread.  It sends GET_AUDIO to itself.                              *)

\* Where the state and the thread may be after event e.
Handled(e) ==
  CASE dsp = "STREAMING" /\ e \in {"TAP_TO_TALK", "STOP_MIC"} -> {<<"STOPPED", "receive">>}
    [] dsp = "STREAMING" /\ e = "GET_AUDIO"    -> {<<"STREAMING", "read">>}
    [] dsp = "STOPPED"   /\ e = "TAP_TO_TALK"  -> {<<"STREAMING", "send">>, <<"STOPPED", "receive">>}
    [] dsp = "STOPPED"   /\ e = "START_MIC"    -> {<<"STREAMING", "send">>}
    [] dsp # "MUTED"     /\ e = "MUTE"         -> {<<"MUTED", "receive">>}
    [] dsp = "MUTED"     /\ e = "UNMUTE"       -> {<<"STOPPED", "receive">>}
    [] OTHER -> {<<dsp, "receive">>}

\* Mutant: a dialog takes the microphone from a mute.
Receive_tap ==
  /\ thread = "receive" /\ queue # <<>> /\ queue' = Tail(queue)
  /\ \E h \in IF Head(queue) = "TAP_TO_TALK" THEN {<<"STREAMING", "send">>} ELSE Handled(Head(queue)) :
       dsp' = h[1] /\ thread' = h[2]
  /\ UNCHANGED <<button, nvs, kept, left>>

\* Mutant: a microphone in use is not muted.
Receive_busy ==
  /\ thread = "receive" /\ queue # <<>> /\ queue' = Tail(queue)
  /\ \E h \in IF dsp = "STREAMING" /\ Head(queue) = "MUTE" THEN {<<dsp, thread>>} ELSE Handled(Head(queue)) :
       dsp' = h[1] /\ thread' = h[2]
  /\ UNCHANGED <<button, nvs, kept, left>>

Receive ==
  /\ thread = "receive" /\ queue # <<>> /\ queue' = Tail(queue)
  /\ \E h \in Handled(Head(queue)) : dsp' = h[1] /\ thread' = h[2]
  /\ UNCHANGED <<button, nvs, kept, left>>

Record ==
  /\ thread = "read" /\ thread' = "send"
  /\ UNCHANGED <<button, dsp, queue, nvs, kept, left>>

\* Mutant: the failure is only reported.
ReadFails_on ==
  /\ thread = "read" /\ thread' = "receive"
  /\ UNCHANGED <<button, dsp, queue, nvs, kept, left>>

ReadFails ==
  /\ thread = "read" /\ thread' = "receive" /\ dsp' = "STOPPED"
  /\ UNCHANGED <<button, queue, nvs, kept, left>>

GetMore ==
  /\ thread = "send" /\ Send("GET_AUDIO") /\ thread' = "receive"
  /\ UNCHANGED <<button, dsp, nvs, kept, left>>

Thread == Receive \/ Record \/ ReadFails \/ GetMore

---------------------------------------------------------------------------

\* va_app_speech_start and va_app_speech_stop
Library ==
  /\ left.calls > 0 /\ left' = [left EXCEPT !.calls = @ - 1]
  /\ \E e \in {"START_MIC", "STOP_MIC"} : Send(e)
  /\ UNCHANGED <<button, driver, nvs, kept>>

\* Mutant: the button task is not told of the mute that was stored.
Restart_untold ==
  /\ left.restarts > 0 /\ left' = [left EXCEPT !.restarts = @ - 1]
  /\ asked' = Booted(nvs).asked /\ seen' = "idle" /\ tapped' = FALSE
  /\ flg' = 1 /\ b_mute' = FALSE /\ task' = "scan"
  /\ dsp' = "STOPPED" /\ thread' = "receive" /\ queue' = Booted(nvs).queue
  /\ kept' = TRUE /\ UNCHANGED nvs

\* The power fails at any moment and comes back: all but the flash starts anew.
Restart ==
  /\ left.restarts > 0 /\ left' = [left EXCEPT !.restarts = @ - 1]
  /\ asked' = Booted(nvs).asked /\ seen' = "idle" /\ tapped' = FALSE
  /\ flg' = Booted(nvs).flg /\ b_mute' = FALSE /\ task' = "scan"
  /\ dsp' = "STOPPED" /\ thread' = "receive" /\ queue' = Booted(nvs).queue
  /\ kept' = TRUE /\ UNCHANGED nvs

Next == Press \/ Button \/ Thread \/ Library \/ Restart

Spec == Init /\ [][Next]_vars

\* Both tasks run; a read of the microphone ends.
FairSpec == Spec /\ WF_vars(Button) /\ WF_vars(Thread)

---------------------------------------------------------------------------
(* Properties                                                               *)

\* Types, and cmd_queue is never longer than it is.
MicTypeOK ==
  /\ {asked, seen} \subseteq {"idle", "tap", "mute"} /\ {tapped, b_mute, nvs, kept} \subseteq BOOLEAN
  /\ flg \in 1..4 /\ task \in {"scan", "store", "post", "tap", "delay"}
  /\ dsp \in {"STREAMING", "STOPPED", "MUTED"} /\ thread \in {"receive", "read", "send"}
  /\ queue \in Seq(Events) /\ Len(queue) <= QueueLength

\* The thread waits for room in the queue that it alone empties.
Stuck == thread = "send" /\ Full

\* An open microphone is read: the GET_AUDIO that keeps the chain going is in the
\* queue or in the thread's hands.
StreamIsRead == dsp = "STREAMING" => thread # "receive" \/ Contains(queue, "GET_AUDIO")

\* Whether the microphone is muted when a driver in state s has worked off queue q.
MutedAfter(s, q) ==
  \/ \E i \in 1..Len(q) : q[i] = "MUTE" /\ \A j \in 1..Len(q) : j > i => q[j] # "UNMUTE"
  \/ s = "MUTED" /\ \A j \in 1..Len(q) : q[j] # "UNMUTE"

\* The button task and the driver (once it has worked off its queue) agree on the mute,
\* also after a restart, whatever dialogs start and end meanwhile.
MuteAgrees == MicTypeOK /\ (task # "post" => (MutedAfter(dsp, queue) <=> flg \in {3, 4}))

\* So does the flash, between any two steps of which the power may fail, unless its last
\* write failed.
FlashAgrees == task # "post" /\ kept => (nvs <=> flg \in {3, 4})

\* A mute that the task has noticed mutes the microphone, an unmute opens it, unless the
\* power fails before it is stored or the driver waits for itself.
MuteTakesEffect ==
  /\ flg = 2 ~> dsp = "MUTED" \/ flg = 1 \/ Stuck
  /\ flg = 4 ~> dsp # "MUTED" \/ flg = 3 \/ Stuck
=============================================================================
