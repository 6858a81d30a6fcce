---------------------------- MODULE ConnMgrProv ----------------------------
(***************************************************************************)
(* Provisioning (conn_mgr_prov.c, conn_mgr_prov_handlers.c): a phone has the  *)
(* device scan for access points, gives it one to connect to and asks how it *)
(* went; the HTTP server's thread serves the phone, the event task follows   *)
(* the station, and a task of its own stops it all and frees g_prov.  The    *)
(* WiFi driver and the phone are external.  The phone is orderly: it does    *)
(* one thing at a time, and after a CONNECTED it asks nothing more.          *)
(***************************************************************************)
EXTENDS Integers, Sequences, FiniteSets, SequencesExt

CONSTANTS LastChannel, \* 13
          MaxResults,  \* MAX_SCAN_RESULTS
          Found,       \* what a scan may find: signal strengths, strongest first
          Groups,      \* what the phone asks for as group_channels
          MaxScans, MaxApplies, MaxLosses,  \* bounds
          Prompt       \* the caller of esp_wifi_scan_start and esp_wifi_connect goes on
                       \* before the driver is done

ASSUME ProvAssumption ==
  /\ LastChannel \in Nat \ {0} /\ MaxResults \in Nat \ {0} /\ Prompt \in BOOLEAN
  /\ \A f \in Found : f \in Seq(Nat) /\ \A i, j \in DOMAIN f : i < j => f[i] >= f[j]
  /\ Groups \subseteq Nat /\ {MaxScans, MaxApplies, MaxLosses} \subseteq Nat

VARIABLES
  g_prov,  \* "live", "freed" or "null"
  lock,    \* g_prov_lock, when the event task keeps it from one step to the next
  scan,    \* g_prov's part about scans
  sta,     \* wifi_state and wifi_disconnect_reason
  timer,   \* the timer: "none", "idle" or "armed"
  driver,  \* what the driver does: a scan and what it found, the station and its network
  events,  \* the event queue
  http, handler, stop,  \* the threads: HTTP server, event task, stop_prov_task
  phone,   \* what the phone is up to
  late     \* history: connected once more when the stop was ordered already

data  == <<scan, sta>>
tasks == <<http, handler, stop>>
vars  == <<g_prov, lock, data, timer, driver, events, tasks, phone, late>>

---------------------------------------------------------------------------
(* Scan results: ap_list_sorted holds pointers into the lists of the channels. *)

NULL     == [null |-> TRUE]
Channels == 0..LastChannel
Places   == 1..MaxResults

Pointer(channel, list, i) == [channel |-> channel, id |-> list.id, i |-> i]

\* A pointer is good as long as the list it points into is the channel's.
Live(p)  == LET list == scan.ap_list[p.channel]
            IN  list # NULL /\ list.id = p.id /\ p.i \in DOMAIN list.rssi
Rssi(p)  == scan.ap_list[p.channel].rssi[p.i]

NewScan == [scanning |-> FALSE, runs |-> 0, channels_per_group |-> 0, curr_channel |-> 0, cfg_channel |-> 0,
            ap_list |-> [c \in Channels |-> NULL], sorted |-> [i \in Places |-> NULL]]
\* calloc: CONNECTING and AUTH_ERROR are 0.
NewSta  == [state |-> "connecting", reason |-> "wrong_password"]
NewPhone == [doing |-> "absent", scans |-> 0, applies |-> 0, losses |-> 0]

\* Provisioning is to be started.
Init ==
  /\ g_prov = "null" /\ lock = "free" /\ scan = NewScan /\ sta = NewSta /\ timer = "none"
  /\ driver = [scanning |-> FALSE, found |-> <<>>, station |-> "idle", network |-> "none", why |-> "none"]
  /\ events = <<>>
  /\ http = [pc |-> "idle"] /\ handler = [pc |-> "idle"] /\ stop = "none"
  /\ phone = NewPhone /\ late = FALSE

\* A second stop, or an event that is handled while g_prov goes away: what follows is
\* not modelled.
StoppedTwice == stop = "twice" \/ (stop # "none" /\ g_prov = "null")
Undefined    == StoppedTwice \/ handler.pc = "freed"

\* conn_mgr_prov_start_provisioning, when all goes well (bound: once); the driver
\* reports the start.
Start ==
  /\ g_prov = "null" /\ phone.doing = "absent"
  /\ g_prov' = "live" /\ scan' = NewScan /\ sta' = NewSta /\ timer' = "idle"
  /\ events' = Append(events, [id |-> "start"])
  /\ phone' = [phone EXCEPT !.doing = "nothing"]
  /\ UNCHANGED <<lock, driver, tasks, late>>

---------------------------------------------------------------------------
(* The phone's requests, served by the HTTP server's thread.                *)

Serve == g_prov = "live" /\ http.pc = "idle" /\ stop \in {"none", "delay"}

\* scan_start of wifi_prov_wifi_scan_start: a scan that runs is good enough.
ScanAsked(blocking, group) ==
  /\ Serve /\ stop = "none" /\ phone.doing = "nothing" /\ phone.scans < MaxScans /\ lock = "free"
  /\ phone' = [phone EXCEPT !.scans = @ + 1]
  /\ http' = IF scan.scanning THEN http ELSE [pc |-> "start", blocking |-> blocking, group |-> group]
  /\ UNCHANGED <<g_prov, lock, data, timer, driver, events, handler, stop, late>>

\* Mutant: the results of the last scan stay.
Cleared_not == scan.sorted

Cleared == [i \in Places |-> NULL]

ScanStart ==
  LET channel == IF http.group = 0 THEN 0 ELSE 1
  IN  /\ http.pc = "start"
      /\ scan' = [scan EXCEPT !.runs = @ + 1, !.sorted = Cleared, !.channels_per_group = http.group, !.cfg_channel = channel]
      /\ \/ /\ driver.station # "connecting" /\ ~driver.scanning
            /\ driver' = [driver EXCEPT !.scanning = TRUE]
            /\ http' = [http EXCEPT !.pc = "started"]
         \/ UNCHANGED driver /\ http' = [pc |-> "idle"]
      /\ UNCHANGED <<g_prov, lock, sta, timer, events, handler, stop, phone, late>>

\* Only now the scan is known to run.
ScanStarted ==
  /\ http.pc = "started" /\ lock = "free"
  /\ scan' = [scan EXCEPT !.scanning = TRUE, !.curr_channel = scan.cfg_channel]
  /\ http' = [pc |-> IF http.blocking THEN "poll" ELSE "idle"]
  /\ UNCHANGED <<g_prov, lock, sta, timer, driver, events, handler, stop, phone, late>>

ScanPolled ==
  /\ http.pc = "poll" /\ lock = "free" /\ ~scan.scanning
  /\ http' = [pc |-> "idle"]
  /\ UNCHANGED <<g_prov, lock, data, timer, driver, events, handler, stop, phone, late>>

\* wifi_prov_wifi_scan_result, and the copying of the record when the lock is given.
ResultAsked(index) ==
  /\ Serve /\ stop = "none" /\ phone.doing = "nothing" /\ lock = "free" /\ scan.sorted[index] # NULL
  /\ http' = [pc |-> "copy", record |-> scan.sorted[index]]
  /\ UNCHANGED <<g_prov, lock, data, timer, driver, events, handler, stop, phone, late>>

ResultCopied ==
  /\ http.pc = "copy" /\ http' = [pc |-> "idle"]
  /\ UNCHANGED <<g_prov, lock, data, timer, driver, events, handler, stop, phone, late>>

\* esp_wifi_connect: what it was doing before ends without success.
Connect(d, network) == [d EXCEPT !.station = "connecting", !.network = network]

\* wifi_prov_configure_sta.  That the driver refuses is not reported: the phone
\* takes any answer for a success and waits.
Apply(network) ==
  /\ Serve /\ stop = "none" /\ phone.doing = "nothing" /\ phone.applies < MaxApplies
  /\ ~scan.scanning
  /\ \/ /\ driver' = Connect(driver, network) /\ http' = [pc |-> "applied"]
        /\ phone' = [phone EXCEPT !.applies = @ + 1, !.doing = "waits"]
     \/ /\ UNCHANGED <<driver, http>>
        /\ phone' = [phone EXCEPT !.applies = @ + 1, !.doing = "waits_in_vain"]
  /\ UNCHANGED <<g_prov, lock, data, timer, events, handler, stop, late>>

\* Only now the state is reset.
Applied ==
  /\ http.pc = "applied" /\ http' = [pc |-> "idle"]
  /\ sta' = [sta EXCEPT !.state = "connecting"]
  /\ UNCHANGED <<g_prov, lock, scan, timer, driver, events, handler, stop, phone, late>>

Waits == phone.doing \in {"waits", "waits_in_vain"}

\* get_status_handler (state and reason are read in one step: the phone acts on the
\* state).  A phone that hears of a failure that is none, as the device tries again,
\* gives up.
StatusAsked ==
  /\ Serve /\ Waits /\ lock = "free"
  /\ CASE sta.state = "connected"    -> /\ http' = [pc |-> "done"]
                                        /\ phone' = [phone EXCEPT !.doing = "gone"]
       [] sta.state = "disconnected" -> /\ phone' = [phone EXCEPT !.doing =
                                             IF driver.why = "other" THEN "gone" ELSE "nothing"]
                                        /\ UNCHANGED http
       [] OTHER                      -> UNCHANGED <<http, phone>>
  /\ UNCHANGED <<g_prov, lock, data, timer, driver, events, handler, stop, late>>

\* A stop_prov_task is created.
Ordered == IF stop = "none" THEN "delay" ELSE "twice"

\* wifi_prov_done.
ProvDone ==
  /\ http.pc = "done" /\ http' = [pc |-> "idle"]
  /\ timer' = (IF timer = "armed" THEN "idle" ELSE timer)
  /\ stop' = Ordered
  /\ UNCHANGED <<g_prov, lock, data, driver, events, handler, phone, late>>

Leave ==
  /\ phone.doing \notin {"absent", "gone"} /\ phone' = [phone EXCEPT !.doing = "gone"]
  /\ UNCHANGED <<g_prov, lock, data, timer, driver, events, tasks, late>>

Work == ScanStart \/ ScanStarted \/ ScanPolled \/ ResultCopied \/ Applied \/ ProvDone

Phone == \/ \E blocking \in BOOLEAN, group \in Groups : ScanAsked(blocking, group)
         \/ \E index \in Places : ResultAsked(index)
         \/ \E network \in {"good", "wrong_password", "absent"} : Apply(network)
         \/ Leave

---------------------------------------------------------------------------
(* The driver: what it reports goes into the event queue.                    *)

DriverEnv == UNCHANGED <<g_prov, lock, data, timer, tasks, late>>

ScanDone ==
  /\ driver.scanning /\ (Prompt => http.pc # "started")
  /\ \E found \in Found : driver' = [driver EXCEPT !.scanning = FALSE, !.found = found]
  /\ events' = Append(events, [id |-> "scan_done"])
  /\ UNCHANGED phone /\ DriverEnv

Disconnected(d, why) == [d EXCEPT !.station = "idle", !.why = why]

\* An attempt fails for what is wrong with the network, or for another reason (that,
\* and a link that is lost, MaxLosses times).
Attempt ==
  /\ driver.station = "connecting" /\ (Prompt => http.pc # "applied" /\ handler.pc = "idle")
  /\ \/ /\ driver.network = "good" /\ driver' = [driver EXCEPT !.station = "connected", !.why = "none"]
        /\ events' = Append(events, [id |-> "got_ip"]) /\ UNCHANGED phone
     \/ /\ driver.network # "good" /\ driver' = Disconnected(driver, driver.network)
        /\ events' = Append(events, [id |-> "disconnected", why |-> driver.network]) /\ UNCHANGED phone
  /\ DriverEnv

Loss ==
  /\ driver.station \in {"connecting", "connected"} /\ phone.losses < MaxLosses
  /\ (Prompt => http.pc # "applied" /\ handler.pc = "idle")
  /\ driver' = Disconnected(driver, "other")
  /\ events' = Append(events, [id |-> "disconnected", why |-> "other"])
  /\ phone' = [phone EXCEPT !.losses = @ + 1]
  /\ DriverEnv

---------------------------------------------------------------------------
(* The event task: conn_mgr_prov_event_handler.                              *)

HandlerEnv == UNCHANGED <<g_prov, http, stop, phone>>
Event      == Head(events)

\* An event without g_prov is nobody's; a scan's takes update_wifi_scan_results on, which
\* frees the channel's old list.
Take ==
  /\ handler.pc = "idle" /\ events # <<>> /\ events' = Tail(events)
  /\ \/ /\ g_prov = "null" /\ UNCHANGED <<handler, data>>
     \/ g_prov = "freed" /\ handler' = [pc |-> "freed"] /\ UNCHANGED data
     \/ /\ g_prov = "live" /\ Event.id = "start"
        /\ sta' = [sta EXCEPT !.state = "connecting"] /\ UNCHANGED <<handler, scan>>
     \/ /\ g_prov = "live" /\ Event.id = "got_ip"
        /\ sta' = [sta EXCEPT !.state = "connected"] /\ UNCHANGED scan
        /\ handler' = [pc |-> "arm"]
     \/ /\ g_prov = "live" /\ Event.id = "disconnected"
        /\ sta' = [sta EXCEPT !.state = "disconnected"] /\ UNCHANGED scan
        /\ handler' = [pc |-> "disconnect", why |-> Event.why]
     \/ /\ g_prov = "live" /\ Event.id = "scan_done"
        /\ handler' = [pc |-> "count"] /\ UNCHANGED sta
        /\ scan' = [scan EXCEPT !.ap_list[scan.curr_channel] = NULL]
  /\ late' = (late \/ (g_prov = "live" /\ Event.id = "got_ip" /\ stop # "none"))
  /\ UNCHANGED <<lock, timer, driver>> /\ HandlerEnv

\* Mutant: a connection starts no timer.
Arm_not ==
  /\ handler.pc = "arm" /\ handler' = [pc |-> "idle"]
  /\ late' = (late \/ stop # "none")
  /\ UNCHANGED <<lock, data, timer, driver, events>> /\ HandlerEnv

\* GOT_IP: the stop is due in 30 seconds, unless it is already.
Arm ==
  /\ handler.pc = "arm" /\ handler' = [pc |-> "idle"]
  /\ timer' = (IF timer = "none" THEN "none" ELSE "armed")
  /\ late' = (late \/ stop # "none")
  /\ UNCHANGED <<lock, data, driver, events>> /\ HandlerEnv

\* DISCONNECTED: esp_wifi_disconnect cuts off an attempt that was begun since, which
\* is an event of its own.
Disconnect ==
  /\ handler.pc = "disconnect" /\ handler' = [handler EXCEPT !.pc = "reason"]
  /\ IF driver.station = "idle" THEN UNCHANGED <<driver, events>>
     ELSE /\ driver' = Disconnected(driver, "other")
          /\ events' = Append(events, [id |-> "disconnected", why |-> "other"])
  /\ UNCHANGED <<lock, data, timer, late>> /\ HandlerEnv

\* Mutant: the state says that it connects again, but nobody does.
Reason_idle ==
  /\ handler.pc = "reason" /\ handler' = [pc |-> "idle"]
  /\ sta' = (IF handler.why # "other" THEN [sta EXCEPT !.reason = handler.why]
             ELSE [sta EXCEPT !.state = "connecting"])
  /\ UNCHANGED <<lock, scan, timer, driver, events, late>> /\ HandlerEnv

\* The reason is noted, or the station connects again.
Reason ==
  /\ handler.pc = "reason" /\ handler' = [pc |-> "idle"]
  /\ IF handler.why # "other" THEN sta' = [sta EXCEPT !.reason = handler.why] /\ UNCHANGED driver
     ELSE /\ sta' = [sta EXCEPT !.state = "connecting"]
          /\ driver' = Connect(driver, driver.network)
  /\ UNCHANGED <<lock, scan, timer, events, late>> /\ HandlerEnv

\* esp_wifi_scan_get_ap_num.  Nothing found, or a failure: g_prov_lock is not taken.
Count ==
  /\ handler.pc = "count"
  /\ \/ /\ driver.found # <<>> /\ lock = "free" /\ lock' = "event"
        /\ handler' = [pc |-> "records"]
     \/ /\ driver.found = <<>> /\ handler' = [pc |-> "next", ok |-> TRUE] /\ UNCHANGED lock
     \/ handler' = [pc |-> "next", ok |-> FALSE] /\ UNCHANGED lock
  /\ UNCHANGED <<data, timer, driver, events, late>> /\ HandlerEnv

Least(a, b) == IF a < b THEN a ELSE b

\* Mutant: the results of a channel go in front.
Sorted_front(list, channel) ==
  LET new  == [i \in 1..Least(MaxResults, Len(list.rssi)) |-> Pointer(channel, list, i)]
  IN  [i \in Places |-> IF i <= Len(new) THEN new[i] ELSE scan.sorted[i - Len(new)]]

\* What the two loops do: as many of the last places as there are new results are
\* lost, whatever they hold; of the others each goes behind the new results that are
\* not stronger.
Sorted(list, channel) ==
  LET new  == [i \in 1..Least(MaxResults, Len(list.rssi)) |-> Pointer(channel, list, i)]
      kept == {k \in 1..(MaxResults - Len(new)) : scan.sorted[k] # NULL}
      PlaceOfKept(k) == k + Cardinality({i \in DOMAIN new : list.rssi[i] >= Rssi(scan.sorted[k])})
      PlaceOfNew(i)  == i + Cardinality({k \in kept : Rssi(scan.sorted[k]) > list.rssi[i]})
  IN  [place \in Places |->
         IF \E i \in DOMAIN new : PlaceOfNew(i) = place
         THEN new[CHOOSE i \in DOMAIN new : PlaceOfNew(i) = place]
         ELSE IF \E k \in kept : PlaceOfKept(k) = place
         THEN scan.sorted[CHOOSE k \in kept : PlaceOfKept(k) = place] ELSE NULL]

\* The records are fetched and sorted in; or that fails.
Records ==
  LET channel == scan.curr_channel
      list    == [id |-> scan.runs, rssi |-> driver.found]
  IN  /\ handler.pc = "records"
      /\ \/ /\ scan' = [scan EXCEPT !.ap_list[channel] = list, !.sorted = Sorted(list, channel)]
            /\ handler' = [pc |-> "next", ok |-> TRUE]
         \/ UNCHANGED scan /\ handler' = [pc |-> "next", ok |-> FALSE]
      /\ UNCHANGED <<lock, sta, timer, driver, events, late>> /\ HandlerEnv

Over(channel) == ~handler.ok \/ channel = 0

After(channel) == (channel + 1) % (LastChannel + 1)

\* Behind `exit': the next channel, or the end of the scan; g_prov_lock is given, taken
\* or not.
NextChannel ==
  LET channel == After(scan.curr_channel)
      on      == [scan EXCEPT !.curr_channel = channel, !.cfg_channel = channel]
  IN  /\ handler.pc = "next" /\ handler' = [pc |-> "idle"] /\ lock' = "free"
      /\ \/ /\ scan.channels_per_group = 0 /\ UNCHANGED driver
            /\ scan' = [scan EXCEPT !.scanning = FALSE]
         \/ /\ scan.channels_per_group # 0 /\ Over(channel) /\ UNCHANGED driver
            /\ scan' = [scan EXCEPT !.curr_channel = channel, !.scanning = FALSE]
         \/ /\ scan.channels_per_group # 0 /\ ~Over(channel)
            /\ \/ driver.station # "connecting" /\ driver' = [driver EXCEPT !.scanning = TRUE] /\ scan' = on
               \/ UNCHANGED driver /\ scan' = [on EXCEPT !.scanning = FALSE]
      /\ UNCHANGED <<sta, timer, events, late>> /\ HandlerEnv

Handler == Take \/ Arm \/ Disconnect \/ Reason \/ Count \/ Records \/ NextChannel

---------------------------------------------------------------------------
(* The timer and stop_prov_task.                                            *)

\* In its 30 seconds a phone that waits asks, and hears of a connection first.
TimerFires ==
  /\ timer = "armed" /\ ~(Waits /\ sta.state = "connected") /\ http.pc # "done"
  /\ timer' = "idle" /\ stop' = Ordered
  /\ UNCHANGED <<g_prov, lock, data, driver, events, http, handler, phone, late>>

\* prov_stop waits for the HTTP server's thread.
StopService ==
  /\ stop = "delay" /\ g_prov = "live" /\ http.pc = "idle" /\ stop' = "timer"
  /\ UNCHANGED <<g_prov, lock, data, timer, driver, events, http, handler, phone, late>>

\* esp_timer_delete refuses a timer that is armed.
StopTimer ==
  /\ stop = "timer" /\ stop' = "free"
  /\ timer' = (IF timer = "armed" THEN "armed" ELSE "none")
  /\ UNCHANGED <<g_prov, lock, data, driver, events, http, handler, phone, late>>

\* The lists and g_prov are freed; then the pointer is cleared.
StopFree ==
  /\ stop = "free" /\ lock = "free" /\ stop' = "clear"
  /\ g_prov' = "freed" /\ handler' = (IF handler.pc = "idle" THEN handler ELSE [pc |-> "freed"])
  /\ UNCHANGED <<lock, data, timer, driver, events, http, phone, late>>

StopClear ==
  /\ stop = "clear" /\ stop' = "none"
  /\ g_prov' = "null" /\ scan' = NewScan
  /\ UNCHANGED <<lock, sta, timer, driver, events, http, handler, phone, late>>

StopTask == StopService \/ StopTimer \/ StopFree \/ StopClear
Driver   == ScanDone \/ Attempt \/ Loss

Next ==
  \/ Start \/ Phone \/ StatusAsked \/ Work \/ Driver \/ Handler \/ TimerFires \/ StopTask

Spec == Init /\ [][Next]_vars

\* The tasks run, the driver brings a scan and an attempt to an end, the timer fires, and
\* a phone that waits asks again and again.
Fairness ==
  /\ WF_vars(Work) /\ WF_vars(Handler) /\ WF_vars(StopTask)
  /\ WF_vars(ScanDone) /\ WF_vars(Attempt)
  /\ WF_vars(TimerFires) /\ SF_vars(StatusAsked)

FairSpec == Spec /\ Fairness

---------------------------------------------------------------------------
(* Properties.                                                              *)

\* The type invariant.
ProvTypeOK ==
  /\ g_prov \in {"live", "freed", "null"} /\ lock \in {"free", "event"}
  /\ scan.scanning \in BOOLEAN /\ scan.curr_channel \in Channels /\ scan.channels_per_group \in Groups \cup {0}
  /\ sta.state \in {"connecting", "connected", "disconnected"}
  /\ sta.reason \in {"wrong_password", "absent"}
  /\ timer \in {"none", "idle", "armed"} /\ stop \in {"none", "delay", "timer", "free", "clear", "twice"}
  /\ http.pc \in {"idle", "start", "started", "poll", "copy", "applied", "done"}
  /\ handler.pc \in {"idle", "arm", "disconnect", "reason", "count", "records", "next", "freed"}

\* The HTTP server's thread has g_prov for as long as it uses it, and a scan result the
\* phone may ask for, or whose record is being copied without the lock, lies in a list
\* that is still there: a new scan frees the old lists one by one, long after
\* ap_list_sorted was cleared (conn_mgr_prov.c:202-254, 279-283, 474-477).
NothingFreedIsUsed ==
  /\ http.pc # "idle" => g_prov = "live"
  /\ g_prov = "live" => \A i \in Places : scan.sorted[i] # NULL => Live(scan.sorted[i])
  /\ http.pc = "copy" => Live(http.record)

\* Provisioning is stopped once, by wifi_prov_done or by the timer, unless the station
\* is connected anew when the stop has been ordered: that arms the timer again.
StoppedOnce == StoppedTwice => late

\* The stop task, of which there is one, frees what nobody uses any more.
FreedInTurn == ProvTypeOK /\ NothingFreedIsUsed /\ StoppedOnce

Listed == {i \in Places : scan.sorted[i] # NULL}

\* What the scan has found so far, on a channel and on all of them.
FoundOn(channel) ==
  LET list == scan.ap_list[channel]
  IN  IF list = NULL \/ list.id # scan.runs THEN {} ELSE {Pointer(channel, list, i) : i \in DOMAIN list.rssi}

FoundNow == UNION {FoundOn(channel) : channel \in Channels}

\* The results are in order of strength without a gap, and as long as there is room
\* for all that a scan has found it lists all (conn_mgr_prov.c:327-347).
StrongestFirst ==
  g_prov = "live" =>
    /\ \A j \in Listed : \A i \in 1..(j - 1) :
         i \in Listed /\ Rssi(scan.sorted[i]) >= Rssi(scan.sorted[j])
    /\ Cardinality(FoundNow) <= MaxResults => FoundNow \subseteq {scan.sorted[i] : i \in Listed}

\* With nothing under way, the state and the reason the phone is told are the
\* station's: no event is handled against a later attempt's outcome
\* (conn_mgr_prov.c:395-440, 688).
StateIsTrue ==
  g_prov = "live" /\ events = <<>> /\ handler.pc = "idle" /\ http.pc = "idle" /\ driver.network # "none" =>
    CASE driver.station = "connected"  -> sta.state = "connected"
      [] driver.station = "connecting" -> sta.state = "connecting"
      [] OTHER -> sta.state = "disconnected" /\ sta.reason = driver.why

\* A scan ends, also one of many channels of which one is empty or fails, and a
\* request that waits for it is answered (conn_mgr_prov.c:270-379, 519-531).
ScanEnds ==
  /\ scan.scanning ~> ~scan.scanning \/ Undefined
  /\ http.pc = "poll" ~> http.pc = "idle" \/ Undefined

\* A phone that waits for the outcome of its configuration hears of it, unless the
\* timer of a connection that was lost again stops the server first.
PhoneHears == phone.doing = "waits" ~> phone.doing # "waits" \/ g_prov # "live" \/ Undefined

\* Whatever the phone waits for, the device comes to answer.
PhoneAnswered == ScanEnds /\ PhoneHears

\* A device that is connected stops provisioning, whether the phone asks or is gone.
ProvisioningEnds ==
  g_prov = "live" /\ sta.state = "connected" ~> g_prov = "null" \/ sta.state # "connected" \/ Undefined
=============================================================================
