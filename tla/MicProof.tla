------------------------------ MODULE MicProof ------------------------------
(***************************************************************************)
(* An open microphone is read, and driver and flash agree with the button    *)
(* task on the mute, for any length of the queue and any number of presses,  *)
(* dialogs and losses of power.                                             *)
(***************************************************************************)
EXTENDS Mic, TLAPS

\* Only the event at the head of a queue leaves it.
LEMMA TailContains ==
  ASSUME NEW S, NEW q \in Seq(S), q # <<>>, NEW e, Contains(q, e), Head(q) # e
  PROVE  Contains(Tail(q), e)
<1>1. PICK i \in 1..Len(q) : q[i] = e
  BY DEF Contains
<1>2. i # 1
  BY <1>1
<1>3. i - 1 \in 1..Len(Tail(q)) /\ Tail(q)[i - 1] = e
  BY <1>1, <1>2
<1> QED BY <1>3 DEF Contains

\* What is put at the end of a queue is in it, with all that was there.
LEMMA AppendContains ==
  ASSUME NEW S, NEW q \in Seq(S), NEW e \in S, NEW f
  PROVE  Contains(Append(q, e), f) <=> (e = f \/ Contains(q, f))
<1>1. Append(q, e) \in Seq(S) /\ Len(Append(q, e)) = Len(q) + 1 /\ Len(q) \in Nat
  OBVIOUS
<1>2. \A i \in 1..Len(q) : Append(q, e)[i] = q[i] /\ i \in 1..(Len(q) + 1)
  BY <1>1
<1>3. Append(q, e)[Len(q) + 1] = e /\ Len(q) + 1 \in 1..(Len(q) + 1)
  BY <1>1
<1>4. \A i \in 1..(Len(q) + 1) : i = Len(q) + 1 \/ i \in 1..Len(q)
  BY <1>1
<1> QED BY <1>1, <1>2, <1>3, <1>4 DEF Contains

\* What the driver's answer to an event may be.
LEMMA HandledType ==
  ASSUME MicTypeOK, NEW e \in Events, NEW h \in Handled(e)
  PROVE  /\ h[1] \in {"STREAMING", "STOPPED", "MUTED"}
         /\ h[2] \in {"receive", "read", "send"}
BY DEF MicTypeOK, Handled

\* A microphone that an event leaves open, and unread, was open before, and the event
\* was not GET_AUDIO.
LEMMA HandledReads ==
  ASSUME MicTypeOK, NEW e \in Events, NEW h \in Handled(e),
         h[1] = "STREAMING", h[2] = "receive"
  PROVE  dsp = "STREAMING" /\ e # "GET_AUDIO"
BY DEF MicTypeOK, Handled

\* Where a mute is on its way from the button to the flash: flg says what b_mute is, and
\* a stored value waits to be posted.
OnItsWay ==
  /\ (flg = 2 => b_mute) /\ (flg = 4 => ~b_mute)
  /\ task \in {"store", "post"} => flg \in {2, 4}
  /\ task = "post" /\ kept => (nvs <=> b_mute)

IInv == MicTypeOK /\ StreamIsRead /\ FlashAgrees /\ OnItsWay

\* An event at the end of the queue decides on the mute if it is about it, and else
\* changes nothing.
LEMMA MutedBySend ==
  ASSUME NEW q \in Seq(Events), NEW e \in Events, NEW s
  PROVE  MutedAfter(s, Append(q, e)) <=> (e = "MUTE" \/ (e # "UNMUTE" /\ MutedAfter(s, q)))
<1> DEFINE n == Len(q)
<1> DEFINE r == Append(q, e)
<1> DEFINE Was == \/ \E i \in 1..n : q[i] = "MUTE" /\ \A j \in 1..n : j > i => q[j] # "UNMUTE"
                  \/ s = "MUTED" /\ \A j \in 1..n : q[j] # "UNMUTE"
<1> DEFINE Is  == \/ \E i \in 1..(n + 1) : r[i] = "MUTE" /\ \A j \in 1..(n + 1) : j > i => r[j] # "UNMUTE"
                  \/ s = "MUTED" /\ \A j \in 1..(n + 1) : r[j] # "UNMUTE"
<1>1. n \in Nat /\ Len(r) = n + 1 /\ r[n + 1] = e
  OBVIOUS
<1>2. \A i \in 1..n : r[i] = q[i]
  OBVIOUS
<1>3. \A i \in 1..(n + 1) : i = n + 1 \/ i \in 1..n
  BY <1>1
<1>4. MutedAfter(s, q) <=> Was
  BY DEF MutedAfter
<1>5. MutedAfter(s, r) <=> Is
  BY <1>1, Zenon DEF MutedAfter
<1> HIDE DEF n, r
<1>6. CASE e = "MUTE"
  <2>1. \A j \in 1..(n + 1) : ~(j > n + 1)
    BY <1>1
  <2>2. n + 1 \in 1..(n + 1)
    BY <1>1
  <2>3. Is
    BY <1>1, <1>6, <2>1, <2>2
  <2> QED BY <1>5, <1>6, <2>3, Zenon DEF r
<1>7. CASE e = "UNMUTE"
  <2>1. n + 1 \in 1..(n + 1) /\ \A i \in 1..n : n + 1 > i
    BY <1>1
  <2>2. \A i \in 1..(n + 1) : r[i] = "MUTE" => i \in 1..n
    BY <1>1, <1>3, <1>7
  <2>3. ~Is
    BY <1>1, <1>7, <2>1, <2>2
  <2>4. e # "MUTE"
    BY <1>7
  <2> QED BY <1>5, <1>7, <2>3, <2>4, Zenon DEF r
<1>8. CASE e \notin {"MUTE", "UNMUTE"}
  <2>1. \A i \in 1..n : i \in 1..(n + 1)
    BY <1>1
  <2>2. \A i \in 1..(n + 1) : r[i] \in {"MUTE", "UNMUTE"} => i \in 1..n
    BY <1>1, <1>3, <1>8
  <2>3. (\A j \in 1..(n + 1) : r[j] # "UNMUTE") <=> (\A j \in 1..n : q[j] # "UNMUTE")
    BY <1>2, <2>1, <2>2
  <2>4. ASSUME NEW i \in 1..n
        PROVE  (\A j \in 1..(n + 1) : j > i => r[j] # "UNMUTE") <=> (\A j \in 1..n : j > i => q[j] # "UNMUTE")
    BY <1>2, <2>1, <2>2
  <2>5. Is <=> Was
    BY <1>2, <2>1, <2>2, <2>3, <2>4
  <2>6. e # "MUTE" /\ e # "UNMUTE"
    BY <1>8
  <2> QED BY <1>4, <1>5, <2>5, <2>6, Zenon DEF r
<1> QED BY <1>6, <1>7, <1>8

\* Working off the event at the head of the queue does not change what the driver comes
\* to in the end.
LEMMA MutedByReceive ==
  ASSUME MicTypeOK, queue # <<>>, NEW h \in Handled(Head(queue))
  PROVE  MutedAfter(h[1], Tail(queue)) <=> MutedAfter(dsp, queue)
<1> DEFINE n == Len(queue)
<1> DEFINE t == Tail(queue)
<1> DEFINE Was == \/ \E i \in 1..n : queue[i] = "MUTE" /\ \A j \in 1..n : j > i => queue[j] # "UNMUTE"
                  \/ dsp = "MUTED" /\ \A j \in 1..n : queue[j] # "UNMUTE"
<1> DEFINE Is  == \/ \E i \in 1..(n - 1) : t[i] = "MUTE" /\ \A j \in 1..(n - 1) : j > i => t[j] # "UNMUTE"
                  \/ h[1] = "MUTED" /\ \A j \in 1..(n - 1) : t[j] # "UNMUTE"
<1>1. queue \in Seq(Events) /\ n \in Nat /\ n >= 1 /\ Len(t) = n - 1
  BY DEF MicTypeOK
<1>2. Head(queue) = queue[1] /\ queue[1] \in Events
  BY <1>1
<1>3. \A i \in 1..(n - 1) : t[i] = queue[i + 1] /\ i + 1 \in 1..n
  BY <1>1
<1>4. \A i \in 1..n : i = 1 \/ i - 1 \in 1..(n - 1)
  BY <1>1
<1>5. /\ queue[1] = "MUTE" => h[1] = "MUTED"
      /\ queue[1] = "UNMUTE" => h[1] # "MUTED"
      /\ queue[1] \notin {"MUTE", "UNMUTE"} => (h[1] = "MUTED" <=> dsp = "MUTED")
  BY <1>2 DEF Handled, MicTypeOK, Events
<1>6. MutedAfter(dsp, queue) <=> Was
  BY DEF MutedAfter
<1>7. MutedAfter(h[1], t) <=> Is
  BY <1>1, Zenon DEF MutedAfter
<1> HIDE DEF n, t
<1>8. \A i \in 1..n : i # 1 => queue[i] = t[i - 1] /\ i - 1 \in 1..(n - 1)
  <2> TAKE i \in 1..n
  <2> HAVE i # 1
  <2>1. i - 1 \in 1..(n - 1) /\ (i - 1) + 1 = i
    BY <1>4
  <2> QED BY <1>3, <2>1
<1>9. 1 \in 1..n /\ (\A j \in 1..n : (j > 1) <=> (j # 1))
  BY <1>1
<1>10. (\A j \in 1..(n - 1) : t[j] # "UNMUTE") <=> (\A j \in 1..n : j > 1 => queue[j] # "UNMUTE")
  <2>1. ASSUME NEW j \in 1..(n - 1)  PROVE  j + 1 \in 1..n /\ j + 1 > 1 /\ t[j] = queue[j + 1]
    BY <1>1, <1>3
  <2> QED BY <1>8, <1>9, <2>1
<1>11. ASSUME NEW i \in 1..(n - 1)
       PROVE  (\A j \in 1..(n - 1) : j > i => t[j] # "UNMUTE") <=> (\A j \in 1..n : j > i + 1 => queue[j] # "UNMUTE")
  <2>1. ASSUME NEW j \in 1..(n - 1)  PROVE  j + 1 \in 1..n /\ (j > i => j + 1 > i + 1) /\ t[j] = queue[j + 1]
    BY <1>1, <1>3
  <2>2. ASSUME NEW j \in 1..n, j > i + 1  PROVE  j - 1 \in 1..(n - 1) /\ j - 1 > i /\ queue[j] = t[j - 1]
    BY <1>1, <1>8, <2>2
  <2> QED BY <2>1, <2>2
<1>12. (\E i \in 1..n : i # 1 /\ queue[i] = "MUTE" /\ \A j \in 1..n : j > i => queue[j] # "UNMUTE")
       <=> (\E i \in 1..(n - 1) : t[i] = "MUTE" /\ \A j \in 1..(n - 1) : j > i => t[j] # "UNMUTE")
  <2>1. ASSUME NEW i \in 1..(n - 1), t[i] = "MUTE", \A j \in 1..(n - 1) : j > i => t[j] # "UNMUTE"
        PROVE  \E k \in 1..n : k # 1 /\ queue[k] = "MUTE" /\ \A j \in 1..n : j > k => queue[j] # "UNMUTE"
    <3>1. i + 1 \in 1..n /\ i + 1 # 1 /\ queue[i + 1] = "MUTE"
      BY <1>1, <1>3, <2>1
    <3> QED BY <1>11, <2>1, <3>1
  <2>2. ASSUME NEW k \in 1..n, k # 1, queue[k] = "MUTE", \A j \in 1..n : j > k => queue[j] # "UNMUTE"
        PROVE  \E i \in 1..(n - 1) : t[i] = "MUTE" /\ \A j \in 1..(n - 1) : j > i => t[j] # "UNMUTE"
    <3>1. k - 1 \in 1..(n - 1) /\ (k - 1) + 1 = k /\ t[k - 1] = "MUTE"
      BY <1>1, <1>8, <2>2
    <3>2. \A j \in 1..(n - 1) : j > k - 1 => t[j] # "UNMUTE"
      BY <1>11, <2>2, <3>1
    <3> QED BY <3>1, <3>2
  <2> QED BY <2>1, <2>2
<1>13. ASSUME queue[1] = "MUTE" PROVE Is <=> Was
  BY <1>5, <1>9, <1>10, <1>12, <1>13
<1>14. ASSUME queue[1] = "UNMUTE" PROVE Is <=> Was
  BY <1>5, <1>9, <1>12, <1>14
<1>15. ASSUME queue[1] \notin {"MUTE", "UNMUTE"} PROVE Is <=> Was
  <2>1. (\A j \in 1..n : j > 1 => queue[j] # "UNMUTE") <=> (\A j \in 1..n : queue[j] # "UNMUTE")
    BY <1>9, <1>15
  <2>2. \A i \in 1..n : queue[i] = "MUTE" => i # 1
    BY <1>15
  <2> QED BY <1>5, <1>10, <1>12, <1>15, <2>1, <2>2
<1>16. Is <=> Was
  BY <1>13, <1>14, <1>15, Zenon
<1> QED BY <1>6, <1>7, <1>16, Zenon DEF t

\* What a start, the first or after a loss of power, makes of the stored mute.
LEMMA BootedType ==
  ASSUME NEW muted \in BOOLEAN
  PROVE  /\ Booted(muted).asked = "idle"
         /\ Booted(muted).flg = IF muted THEN 3 ELSE 1
         /\ Booted(muted).queue \in Seq(Events) /\ Len(Booted(muted).queue) <= QueueLength
<1>1. Booted(muted).asked = "idle" /\ Booted(muted).flg = IF muted THEN 3 ELSE 1
  BY DEF Booted
<1>2. CASE muted
  <2>1. Booted(muted).queue = <<"MUTE">>
    BY <1>2 DEF Booted
  <2>2. "MUTE" \in Events /\ 1 <= QueueLength
    BY MicAssumption DEF Events
  <2> QED BY <1>1, <2>1, <2>2
<1>3. CASE ~muted
  <2>1. Booted(muted).queue = <<>>
    BY <1>3 DEF Booted
  <2>2. QueueLength \in Nat
    BY MicAssumption
  <2> QED BY <1>1, <2>1, <2>2
<1> QED BY <1>2, <1>3

\* The device starts so.
LEMMA InitInv == Init => IInv
<1> SUFFICES ASSUME Init PROVE IInv
  OBVIOUS
<1>1. nvs \in BOOLEAN
  BY DEF Init
<1>2. flg = IF nvs THEN 3 ELSE 1
  BY <1>1, BootedType DEF Init
<1>3. MicTypeOK
  <2>1. flg \in 1..4
    BY <1>2
  <2>2. asked = "idle" /\ queue \in Seq(Events) /\ Len(queue) <= QueueLength
    BY <1>1, BootedType DEF Init
  <2> QED BY <1>1, <2>1, <2>2 DEF Init, MicTypeOK
<1>4. StreamIsRead
  BY DEF Init, StreamIsRead
<1>5. FlashAgrees
  BY <1>1, <1>2 DEF FlashAgrees
<1>6. OnItsWay
  BY <1>2 DEF Init, OnItsWay
<1> QED BY <1>3, <1>4, <1>5, <1>6 DEF IInv

\* Putting an event in the queue keeps it typed and no longer than it is.
LEMMA SendType ==
  ASSUME MicTypeOK, NEW e \in Events, Send(e)
  PROVE  /\ queue' \in Seq(Events) /\ Len(queue') <= QueueLength
         /\ Contains(queue, "GET_AUDIO") => Contains(queue', "GET_AUDIO")
         /\ e = "GET_AUDIO" => Contains(queue', "GET_AUDIO")
<1>1. queue \in Seq(Events) /\ QueueLength \in Nat /\ queue' = Append(queue, e)
  BY MicAssumption DEF MicTypeOK, Send
<1>2. Len(queue) < QueueLength
  BY <1>1 DEF Send, Full
<1>3. queue' \in Seq(Events) /\ Len(queue') = Len(queue) + 1
  BY <1>1
<1>4. Contains(queue', "GET_AUDIO") <=> (e = "GET_AUDIO" \/ Contains(queue, "GET_AUDIO"))
  BY <1>1, AppendContains
<1> QED BY <1>1, <1>2, <1>3, <1>4

\* The application presses.
LEMMA PressInv == IInv /\ Press => IInv'
BY DEF IInv, Press, MicTypeOK, StreamIsRead, FlashAgrees, OnItsWay, driver

\* The button task looks at what is pressed.
LEMMA ScanInv == IInv /\ (ScanTap \/ ScanMute \/ ScanIdle) => IInv'
<1> SUFFICES ASSUME IInv, ScanTap \/ ScanMute \/ ScanIdle PROVE IInv'
  OBVIOUS
<1> USE DEF IInv, MicTypeOK, StreamIsRead, FlashAgrees, OnItsWay, driver
<1>1. CASE ScanTap
  BY <1>1 DEF ScanTap
<1>2. CASE ScanMute
  <2>1. CASE flg = 1
    BY <1>2, <2>1 DEF ScanMute
  <2>2. CASE flg = 3
    BY <1>2, <2>2 DEF ScanMute
  <2>3. CASE flg \in {2, 4}
    <3>1. flg # 1 /\ flg # 3
      BY <2>3
    <3>2. flg' = flg
      BY <1>2, <3>1 DEF ScanMute
    <3>3. b_mute' = b_mute
      BY <1>2, <3>1, Zenon DEF ScanMute
    <3>4. /\ task' = "delay" /\ asked = "mute" /\ seen' = asked
          /\ UNCHANGED <<asked, tapped, dsp, thread, queue, nvs, kept>>
      BY <1>2 DEF ScanMute
    <3>5. MicTypeOK'
      BY <3>2, <3>3, <3>4
    <3>6. StreamIsRead'
      BY <3>4
    <3>7. FlashAgrees'
      BY <1>2, <3>2, <3>4 DEF ScanMute
    <3>8. OnItsWay'
      BY <3>2, <3>3, <3>4
    <3> QED BY <3>5, <3>6, <3>7, <3>8
  <2> QED BY <2>1, <2>2, <2>3
<1>3. CASE ScanIdle
  BY <1>3 DEF ScanIdle
<1> QED BY <1>1, <1>2, <1>3

\* It stores the mute.
LEMMA StoreInv == IInv /\ StoreMute => IInv'
<1> SUFFICES ASSUME IInv, StoreMute PROVE IInv'
  OBVIOUS
<1>1. \/ nvs' = b_mute /\ kept' = TRUE
      \/ nvs' = nvs /\ kept' = FALSE
  BY DEF StoreMute, va_nvs_set_i8
<1>2. task = "store" /\ task' = "post" /\ UNCHANGED <<asked, seen, tapped, flg, b_mute, dsp, thread, queue>>
  BY DEF StoreMute, driver
<1>3. MicTypeOK'
  BY <1>1, <1>2 DEF IInv, MicTypeOK
<1>4. StreamIsRead'
  BY <1>2 DEF IInv, StreamIsRead
<1>5. FlashAgrees'
  BY <1>2 DEF FlashAgrees
<1>6. OnItsWay'
  BY <1>1, <1>2 DEF IInv, OnItsWay
<1> QED BY <1>3, <1>4, <1>5, <1>6 DEF IInv

\* It tells the driver.
LEMMA PostInv == IInv /\ PostMute => IInv'
<1> SUFFICES ASSUME IInv, PostMute PROVE IInv'
  OBVIOUS
<1>1. PICK e \in Events : Send(e)
  BY DEF PostMute, Events
<1>2. /\ queue' \in Seq(Events) /\ Len(queue') <= QueueLength
      /\ Contains(queue, "GET_AUDIO") => Contains(queue', "GET_AUDIO")
  BY <1>1, SendType DEF IInv
<1>3. MicTypeOK'
  BY <1>2 DEF IInv, PostMute, MicTypeOK, driver
<1>4. StreamIsRead'
  BY <1>2 DEF IInv, PostMute, StreamIsRead, driver
<1>5. FlashAgrees' /\ OnItsWay'
  BY DEF IInv, PostMute, FlashAgrees, OnItsWay
<1> QED BY <1>3, <1>4, <1>5 DEF IInv

\* It starts a dialog, or does not, and waits.
LEMMA TapInv == IInv /\ (NoTap \/ Tap \/ Delay) => IInv'
<1> SUFFICES ASSUME IInv, NoTap \/ Tap \/ Delay PROVE IInv'
  OBVIOUS
<1>1. CASE Tap
  <2>1. /\ queue' \in Seq(Events) /\ Len(queue') <= QueueLength
        /\ Contains(queue, "GET_AUDIO") => Contains(queue', "GET_AUDIO")
    BY <1>1, SendType DEF IInv, Tap, Events
  <2> QED BY <1>1, <2>1 DEF Tap, IInv, MicTypeOK, StreamIsRead, FlashAgrees, OnItsWay, driver
<1>2. CASE NoTap
  BY <1>2 DEF NoTap, IInv, MicTypeOK, StreamIsRead, FlashAgrees, OnItsWay, driver
<1>3. CASE Delay
  BY <1>3 DEF Delay, IInv, MicTypeOK, StreamIsRead, FlashAgrees, OnItsWay, driver
<1> QED BY <1>1, <1>2, <1>3

\* The DSP thread takes an event: it leaves the microphone open and unread only if the
\* event was another than the GET_AUDIO that is still there.
LEMMA ReceiveInv == IInv /\ Receive => IInv'
<1> SUFFICES ASSUME IInv, Receive PROVE IInv'
  OBVIOUS
<1>1. queue \in Seq(Events) /\ queue # <<>> /\ QueueLength \in Nat /\ Len(queue) <= QueueLength
  BY MicAssumption DEF IInv, MicTypeOK, Receive
<1>2. Head(queue) \in Events /\ Tail(queue) \in Seq(Events) /\ Len(Tail(queue)) <= QueueLength
  BY <1>1
<1>3. PICK h \in Handled(Head(queue)) : dsp' = h[1] /\ thread' = h[2]
  BY DEF Receive
<1>4. dsp' \in {"STREAMING", "STOPPED", "MUTED"} /\ thread' \in {"receive", "read", "send"}
  BY <1>2, <1>3, HandledType DEF IInv, Receive
<1>5. MicTypeOK'
  BY <1>2, <1>4 DEF IInv, MicTypeOK, Receive, button
<1>6. ASSUME dsp' = "STREAMING", thread' = "receive"
      PROVE  Contains(queue', "GET_AUDIO")
  <2>1. dsp = "STREAMING" /\ Head(queue) # "GET_AUDIO"
    BY <1>2, <1>3, <1>6, HandledReads DEF IInv
  <2>2. Contains(queue, "GET_AUDIO")
    BY <2>1 DEF IInv, StreamIsRead, Receive
  <2>3. Contains(Tail(queue), "GET_AUDIO")
    BY <1>1, <2>1, <2>2, TailContains
  <2> QED BY <2>3 DEF Receive
<1>7. StreamIsRead'
  BY <1>4, <1>6 DEF StreamIsRead
<1>8. FlashAgrees' /\ OnItsWay'
  BY DEF IInv, FlashAgrees, OnItsWay, Receive, button
<1> QED BY <1>5, <1>7, <1>8 DEF IInv

\* It reads the microphone.
LEMMA ReadInv == IInv /\ (Record \/ ReadFails \/ GetMore) => IInv'
<1> SUFFICES ASSUME IInv, Record \/ ReadFails \/ GetMore PROVE IInv'
  OBVIOUS
<1>1. CASE Record
  BY <1>1 DEF Record, IInv, MicTypeOK, StreamIsRead, FlashAgrees, OnItsWay, button
<1>2. CASE ReadFails
  BY <1>2 DEF ReadFails, IInv, MicTypeOK, StreamIsRead, FlashAgrees, OnItsWay, button
<1>3. CASE GetMore
  <2>1. queue' \in Seq(Events) /\ Len(queue') <= QueueLength /\ Contains(queue', "GET_AUDIO")
    BY <1>3, SendType DEF IInv, GetMore, Events
  <2> QED BY <1>3, <2>1 DEF GetMore, IInv, MicTypeOK, StreamIsRead, FlashAgrees, OnItsWay, button
<1> QED BY <1>1, <1>2, <1>3

\* The library opens or closes the microphone.
LEMMA LibraryInv == IInv /\ Library => IInv'
<1> SUFFICES ASSUME IInv, Library PROVE IInv'
  OBVIOUS
<1>1. PICK e \in {"START_MIC", "STOP_MIC"} : Send(e)
  BY DEF Library
<1>2. /\ queue' \in Seq(Events) /\ Len(queue') <= QueueLength
      /\ Contains(queue, "GET_AUDIO") => Contains(queue', "GET_AUDIO")
  BY <1>1, SendType DEF IInv, Events
<1> QED BY <1>2 DEF Library, IInv, MicTypeOK, StreamIsRead, FlashAgrees, OnItsWay, button, driver

\* The power fails and comes back.
LEMMA RestartInv == IInv /\ Restart => IInv'
<1> SUFFICES ASSUME IInv, Restart PROVE IInv'
  OBVIOUS
<1>1. nvs \in BOOLEAN /\ nvs' = nvs
  BY DEF IInv, MicTypeOK, Restart
<1>2. flg' = IF nvs THEN 3 ELSE 1
  BY <1>1, BootedType DEF Restart
<1>3. MicTypeOK'
  <2>1. flg' \in 1..4
    BY <1>2
  <2>2. asked' = "idle" /\ queue' \in Seq(Events) /\ Len(queue') <= QueueLength
    BY <1>1, BootedType DEF Restart
  <2> QED BY <1>1, <2>1, <2>2 DEF Restart, MicTypeOK
<1>4. StreamIsRead'
  BY DEF Restart, StreamIsRead
<1>5. FlashAgrees'
  BY <1>1, <1>2 DEF FlashAgrees
<1>6. OnItsWay'
  BY <1>2 DEF Restart, OnItsWay
<1> QED BY <1>3, <1>4, <1>5, <1>6 DEF IInv

\* IInv is an invariant: nothing the tasks, the library, the user and the power do in
\* any order breaks it.
THEOREM Invariance == Spec => []IInv
<1>1. IInv /\ [Next]_vars => IInv'
  <2> SUFFICES ASSUME IInv, [Next]_vars PROVE IInv'
    OBVIOUS
  <2>1. CASE Press
    BY <2>1, PressInv
  <2>2. CASE Button
    BY <2>2, ScanInv, StoreInv, PostInv, TapInv DEF Button
  <2>3. CASE Thread
    BY <2>3, ReceiveInv, ReadInv DEF Thread
  <2>4. CASE Library
    BY <2>4, LibraryInv
  <2>5. CASE Restart
    BY <2>5, RestartInv
  <2>6. CASE UNCHANGED vars
    BY <2>6 DEF IInv, MicTypeOK, StreamIsRead, FlashAgrees, OnItsWay, vars, button, driver
  <2> QED BY <2>1, <2>2, <2>3, <2>4, <2>5, <2>6 DEF Next
<1> QED BY <1>1, InitInv, PTL DEF Spec

\* An open microphone is read, whatever is in the queue and however often dialogs start,
\* stop, fail and are muted.
THEOREM StreamTheorem == Spec => []StreamIsRead
BY Invariance, PTL DEF IInv

\* Flash and button task agree on the mute between any two steps at which the power may
\* fail, unless the last write failed.
THEOREM FlashTheorem == Spec => []FlashAgrees
BY Invariance, PTL DEF IInv

\* The part of MuteAgrees that is not the types.
Agreed == task # "post" => (MutedAfter(dsp, queue) <=> flg \in {3, 4})

\* Putting an event in the queue that is not about the mute leaves it as it is.
LEMMA AgreedBySend ==
  ASSUME IInv, Agreed, NEW e \in Events \ {"MUTE", "UNMUTE"}, Send(e),
         UNCHANGED <<dsp, flg>>, task' # "post", task # "post"
  PROVE  Agreed'
<1>1. queue \in Seq(Events) /\ queue' = Append(queue, e) /\ e \in Events
  BY DEF IInv, MicTypeOK, Send
<1>2. e # "MUTE" /\ e # "UNMUTE"
  OBVIOUS
<1>3. MutedAfter(dsp, queue') <=> MutedAfter(dsp, queue)
  BY <1>1, <1>2, MutedBySend, Zenon
<1>4. dsp' = dsp /\ flg' = flg
  OBVIOUS
<1>5. MutedAfter(dsp, queue) <=> flg \in {3, 4}
  BY DEF Agreed
<1> QED BY <1>3, <1>4, <1>5, Zenon DEF Agreed

\* A step that leaves driver and queue alone, and does not finish a mute.
LEMMA AgreedAside ==
  ASSUME Agreed, UNCHANGED <<dsp, queue>>, task # "post",
         flg' \in {3, 4} <=> flg \in {3, 4}
  PROVE  Agreed'
<1>1. dsp' = dsp /\ queue' = queue
  OBVIOUS
<1>2. MutedAfter(dsp', queue') <=> MutedAfter(dsp, queue)
  BY <1>1, Zenon
<1> QED BY <1>2, Zenon DEF Agreed

\* Nor does any step while a mute that is stored waits to be posted, but posting.
LEMMA AgreedWaiting == task' = "post" => Agreed'
BY Zenon DEF Agreed

\* The device starts in agreement, the first time and after a loss of power.
LEMMA AgreedBooted ==
  ASSUME NEW muted \in BOOLEAN
  PROVE  MutedAfter("STOPPED", Booted(muted).queue) <=> Booted(muted).flg \in {3, 4}
<1>1. CASE muted
  <2>1. Booted(muted).queue = <<"MUTE">> /\ Booted(muted).flg = 3
    BY <1>1 DEF Booted
  <2>2. MutedAfter("STOPPED", <<"MUTE">>)
    BY DEF MutedAfter
  <2> QED BY <2>1, <2>2, Zenon
<1>2. CASE ~muted
  <2>1. Booted(muted).queue = <<>> /\ Booted(muted).flg = 1
    BY <1>2 DEF Booted
  <2>2. ~MutedAfter("STOPPED", <<>>)
    BY DEF MutedAfter
  <2>3. 1 \notin {3, 4}
    OBVIOUS
  <2> QED BY <2>1, <2>2, <2>3, Zenon
<1> QED BY <1>1, <1>2

\* The button task tells the driver what flg becomes.
LEMMA AgreedByPost == IInv /\ Agreed /\ PostMute => Agreed'
<1> SUFFICES ASSUME IInv, PostMute PROVE Agreed'
  OBVIOUS
<1> DEFINE e == IF b_mute THEN "MUTE" ELSE "UNMUTE"
<1>1. /\ queue \in Seq(Events) /\ e \in Events /\ queue' = Append(queue, e)
      /\ dsp' = dsp /\ flg' = IF flg = 2 THEN 3 ELSE 1
  BY DEF IInv, MicTypeOK, PostMute, Send, Events, driver
<1>2. flg \in {2, 4} /\ (flg = 2 => b_mute) /\ (flg = 4 => ~b_mute)
  BY DEF IInv, OnItsWay, PostMute
<1>3. MutedAfter(dsp, queue') <=> (e = "MUTE" \/ (e # "UNMUTE" /\ MutedAfter(dsp, queue)))
  BY <1>1, MutedBySend, Zenon
<1>4. CASE flg = 2
  <2>1. e = "MUTE" /\ flg' \in {3, 4}
    BY <1>1, <1>2, <1>4
  <2> QED BY <1>1, <1>3, <2>1, Zenon DEF Agreed
<1>5. CASE flg = 4
  <2>1. e = "UNMUTE" /\ e # "MUTE" /\ flg' \notin {3, 4}
    BY <1>1, <1>2, <1>5
  <2> QED BY <1>1, <1>3, <2>1, Zenon DEF Agreed
<1> QED BY <1>2, <1>4, <1>5

\* The driver works off an event.
LEMMA AgreedByReceive == IInv /\ Agreed /\ Receive => Agreed'
<1> SUFFICES ASSUME IInv, Agreed, Receive PROVE Agreed'
  OBVIOUS
<1>1. queue # <<>> /\ queue' = Tail(queue) /\ MicTypeOK /\ task' = task /\ flg' = flg
  BY DEF Receive, IInv, button
<1>2. PICK h \in Handled(Head(queue)) : dsp' = h[1]
  BY DEF Receive
<1>3. MutedAfter(h[1], Tail(queue)) <=> MutedAfter(dsp, queue)
  BY <1>1, MutedByReceive, Zenon
<1> QED BY <1>1, <1>2, <1>3, Zenon DEF Agreed

\* While the microphone is read it is open.
Reading == thread # "receive" => dsp = "STREAMING"

\* The driver opens the microphone before it goes to read it.
LEMMA HandledOpens ==
  ASSUME MicTypeOK, NEW e \in Events, NEW h \in Handled(e), h[2] # "receive"
  PROVE  h[1] = "STREAMING"
BY DEF MicTypeOK, Handled

\* Reading keeps: only the thread itself changes the driver's state.
LEMMA ReadingNext == IInv /\ Reading /\ [Next]_vars => Reading'
<1> SUFFICES ASSUME IInv, Reading, [Next]_vars PROVE Reading'
  OBVIOUS
<1>1. CASE Receive
  <2>1. queue \in Seq(Events) /\ queue # <<>> /\ MicTypeOK
    BY <1>1 DEF Receive, IInv, MicTypeOK
  <2>2. Head(queue) \in Events
    BY <2>1
  <2>3. PICK h \in Handled(Head(queue)) : dsp' = h[1] /\ thread' = h[2]
    BY <1>1 DEF Receive
  <2> QED BY <2>1, <2>2, <2>3, HandledOpens DEF Reading
<1>2. CASE Record \/ ReadFails \/ GetMore
  BY <1>2 DEF Record, ReadFails, GetMore, Reading
<1>3. CASE Restart
  BY <1>3 DEF Restart, Reading
<1>4. CASE Press \/ Button \/ Library \/ UNCHANGED vars
  <2>1. dsp' = dsp /\ thread' = thread
    BY <1>4 DEF Press, Button, ScanTap, ScanMute, ScanIdle, StoreMute, PostMute, NoTap, Tap, Delay, Library, vars, driver
  <2> QED BY <2>1 DEF Reading
<1> QED BY <1>1, <1>2, <1>3, <1>4 DEF Next, Thread

\* MuteAgrees keeps: a mute is posted with the value that flg gets, and nothing else that
\* comes to the driver mutes it or opens it from a mute.
LEMMA AgreedNext == IInv /\ Reading /\ Agreed /\ [Next]_vars => Agreed'
<1> SUFFICES ASSUME IInv, Reading, Agreed, [Next]_vars PROVE Agreed'
  OBVIOUS
<1>1. CASE Press
  <2>1. task' = task /\ dsp' = dsp /\ queue' = queue /\ flg' = flg
    BY <1>1 DEF Press, driver
  <2> QED BY <2>1, AgreedAside, AgreedWaiting
<1>2. CASE ScanTap \/ ScanIdle \/ NoTap \/ Delay
  <2>1. task # "post" /\ dsp' = dsp /\ queue' = queue /\ flg' = flg
    BY <1>2 DEF ScanTap, ScanIdle, NoTap, Delay, driver
  <2> QED BY <2>1, AgreedAside
<1>3. CASE ScanMute
  <2>1. task # "post" /\ dsp' = dsp /\ queue' = queue
    BY <1>3 DEF ScanMute, driver
  <2>2. flg' = CASE flg = 1 -> 2 [] flg = 3 -> 4 [] OTHER -> flg
    BY <1>3 DEF ScanMute
  <2>3. flg' \in {3, 4} <=> flg \in {3, 4}
    BY <2>2 DEF IInv, MicTypeOK
  <2> QED BY <2>1, <2>3, AgreedAside
<1>4. CASE StoreMute
  BY <1>4, AgreedWaiting DEF StoreMute
<1>5. CASE PostMute
  BY <1>5, AgreedByPost
<1>6. CASE Tap
  <2>1. task # "post" /\ task' # "post" /\ dsp' = dsp /\ flg' = flg /\ Send("TAP_TO_TALK")
    BY <1>6 DEF Tap, driver
  <2> QED BY <2>1, AgreedBySend DEF Events
<1>7. CASE Receive
  BY <1>7, AgreedByReceive
<1>8. CASE Record
  <2>1. task' = task /\ dsp' = dsp /\ queue' = queue /\ flg' = flg
    BY <1>8 DEF Record, button
  <2> QED BY <2>1, AgreedAside, AgreedWaiting
<1>9. CASE ReadFails
  <2>1. dsp = "STREAMING" /\ dsp' = "STOPPED" /\ queue' = queue /\ flg' = flg /\ task' = task
    BY <1>9 DEF ReadFails, Reading, button
  <2>2. MutedAfter("STREAMING", queue) <=> MutedAfter("STOPPED", queue)
    BY DEF MutedAfter
  <2> QED BY <2>1, <2>2, Zenon DEF Agreed
<1>10. CASE GetMore
  <2>1. task' = task /\ dsp' = dsp /\ flg' = flg /\ Send("GET_AUDIO")
    BY <1>10 DEF GetMore, button
  <2> QED BY <2>1, AgreedBySend, AgreedWaiting DEF Events
<1>11. CASE Library
  <2>1. PICK e \in {"START_MIC", "STOP_MIC"} : Send(e)
    BY <1>11 DEF Library
  <2>2. task' = task /\ dsp' = dsp /\ flg' = flg /\ e \in Events \ {"MUTE", "UNMUTE"}
    BY <1>11 DEF Library, button, driver, Events
  <2> QED BY <2>1, <2>2, AgreedBySend, AgreedWaiting
<1>12. CASE Restart
  <2>1. nvs \in BOOLEAN
    BY DEF IInv, MicTypeOK
  <2>2. dsp' = "STOPPED" /\ queue' = Booted(nvs).queue /\ flg' = Booted(nvs).flg
    BY <1>12 DEF Restart
  <2> QED BY <2>1, <2>2, AgreedBooted, Zenon DEF Agreed
<1>13. CASE UNCHANGED vars
  <2>1. task' = task /\ dsp' = dsp /\ queue' = queue /\ flg' = flg
    BY <1>13 DEF vars, button, driver
  <2> QED BY <2>1, AgreedAside, AgreedWaiting
<1> QED BY <1>1, <1>2, <1>3, <1>4, <1>5, <1>6, <1>7, <1>8, <1>9, <1>10, <1>11, <1>12, <1>13
        DEF Next, Button, Thread

\* The button task and the driver agree on the mute, once the driver has worked off its
\* queue, after any number of presses, dialogs, failed reads and losses of power.
THEOREM MuteTheorem == Spec => []MuteAgrees
<1>1. Init => Reading /\ Agreed
  <2> SUFFICES ASSUME Init PROVE Reading /\ Agreed
    OBVIOUS
  <2>1. Reading
    BY DEF Init, Reading
  <2>2. nvs \in BOOLEAN /\ dsp = "STOPPED" /\ queue = Booted(nvs).queue /\ flg = Booted(nvs).flg
    BY DEF Init
  <2>3. Agreed
    BY <2>2, AgreedBooted, Zenon DEF Agreed
  <2> QED BY <2>1, <2>3
<1>2. IInv /\ Reading /\ Agreed => MuteAgrees
  BY Zenon DEF IInv, Agreed, MuteAgrees
<1> QED BY <1>1, <1>2, Invariance, ReadingNext, AgreedNext, PTL DEF Spec
=============================================================================
