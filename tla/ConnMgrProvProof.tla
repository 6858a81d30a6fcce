-------------------------- MODULE ConnMgrProvProof --------------------------
(***************************************************************************)
(* Provisioning is stopped once and by then nobody uses g_prov; no list of   *)
(* results is freed that the table points into; results are listed by their  *)
(* strength, without gaps, and all of them while there is room; with nothing *)
(* under way the phone is told the station's state: for any number of        *)
(* channels, results, scans, networks tried and losses, with a driver slower *)
(* than its caller.                                                         *)
(***************************************************************************)
EXTENDS ConnMgrProv, FiniteSetTheorems, NaturalsInduction, WellFoundedInduction, TLAPS

Whys    == {"wrong_password", "absent", "other"}
Results == {"wrong_password", "absent"}

Lists    == [id : Nat, rssi : Seq(Nat)]
Pointers == [channel : Channels, id : Nat, i : Nat]
Scans    == [scanning : BOOLEAN, runs : Nat, channels_per_group : Groups \cup {0},
             curr_channel : Channels, cfg_channel : Channels,
             ap_list : [Channels -> Lists \cup {NULL}], sorted : [Places -> Pointers \cup {NULL}]]
Stations == [state : {"connecting", "connected", "disconnected"}, reason : Results]
Drivers  == [scanning : BOOLEAN, found : Found \cup {<<>>}, station : {"idle", "connecting", "connected"},
             network : {"none", "good"} \cup Results, why : {"none"} \cup Whys]
Events   == [id : {"start", "got_ip", "scan_done"}] \cup [id : {"disconnected"}, why : Whys]
Requests == [pc : {"idle", "poll", "applied", "done"}]
            \cup [pc : {"start", "started"}, blocking : BOOLEAN, group : Groups]
            \cup [pc : {"copy"}, record : Pointers]
Handlers == [pc : {"idle", "arm", "count", "records", "freed"}]
            \cup [pc : {"disconnect", "reason"}, why : Whys]
            \cup [pc : {"next"}, ok : BOOLEAN]
Phones   == [doing : {"absent", "nothing", "waits", "waits_in_vain", "gone"},
             scans : Nat, applies : Nat, losses : Nat]

Typed ==
  /\ g_prov \in {"live", "freed", "null"} /\ lock \in {"free", "event"}
  /\ scan \in Scans /\ sta \in Stations /\ driver \in Drivers
  /\ timer \in {"none", "idle", "armed"}
  /\ stop \in {"none", "delay", "timer", "free", "clear", "twice"}
  /\ events \in Seq(Events)
  /\ http \in Requests /\ handler \in Handlers /\ phone \in Phones /\ late \in BOOLEAN

\* Before provisioning is started nothing happens.
Before ==
  phone.doing = "absent" =>
    /\ stop = "none" /\ http.pc = "idle" /\ handler.pc = "idle" /\ lock = "free" /\ timer = "none"
    /\ events = <<>> /\ g_prov = "null"
    /\ ~driver.scanning /\ driver.station = "idle" /\ driver.network = "none" /\ driver.why = "none"

\* The stop task and the HTTP server's thread take turns.
InTurn ==
  /\ stop \in {"timer", "free", "clear"} => http.pc = "idle"
  /\ stop \in {"timer", "free"} => g_prov = "live"
  /\ stop = "clear" => g_prov = "freed"
  /\ g_prov = "freed" => stop \in {"clear", "twice"}
  /\ http.pc # "idle" => g_prov = "live"
  /\ g_prov # "live" => handler.pc \in {"idle", "freed"}
  /\ http.pc = "done" => phone.doing = "gone"

\* Nobody is about to order a second stop.
OneOrder ==
  ~late => /\ ~StoppedTwice
           /\ stop # "none" => timer # "armed" /\ http.pc # "done" /\ (Waits => sta.state # "connected")
           /\ g_prov = "null" => timer # "armed"

\* Such an event is in the queue: at most one of each kind, the start before all, and
\* a connection before its loss.
Queued(id) == \E k \in DOMAIN events : events[k].id = id

InOrder ==
  /\ \A k, l \in DOMAIN events : events[k].id = events[l].id => k = l
  /\ \A k \in DOMAIN events : events[k].id = "start" => k = 1
  /\ \A k, l \in DOMAIN events : events[k].id = "got_ip" /\ events[l].id = "disconnected" => k < l

InQueue == g_prov = "live" => InOrder

Handling == handler.pc \in {"count", "records", "next"}

\* A scan is at one place: with the driver, in the queue or with the event task.
OnePlace ==
  g_prov = "live" =>
    /\ driver.scanning => ~Queued("scan_done") /\ ~Handling
    /\ Queued("scan_done") => ~Handling
    /\ http.pc = "start" => ~scan.scanning
    /\ http.pc = "started" => ~scan.scanning /\ driver.scanning
    /\ ~scan.scanning /\ http.pc # "started" => ~driver.scanning /\ ~Queued("scan_done") /\ ~Handling

\* The channel's list is of an earlier scan.
Old(c) == scan.ap_list[c] # NULL => scan.ap_list[c].id < scan.runs

\* The channels to come have no list of this scan.
ToCome ==
  g_prov = "live" =>
    /\ \A c \in Channels : scan.ap_list[c] # NULL => scan.ap_list[c].id <= scan.runs
    /\ http.pc = "started" => \A c \in Channels : Old(c)
    /\ http.pc # "started" /\ (driver.scanning \/ Queued("scan_done") \/ handler.pc \in {"count", "records"}) =>
         \A c \in Channels : c >= scan.curr_channel => Old(c)
    /\ handler.pc \in {"count", "records"} => scan.ap_list[scan.curr_channel] = NULL
    /\ handler.pc = "next" => \A c \in Channels : c > scan.curr_channel => Old(c)

Current(p) == Live(p) /\ p.id = scan.runs

\* What is listed, or being copied, was found by this scan.
AllCurrent ==
  g_prov = "live" =>
    /\ \A i \in Places : scan.sorted[i] # NULL => Current(scan.sorted[i])
    /\ http.pc = "copy" => Current(http.record)

Cutting == handler.pc \in {"disconnect", "reason"}

\* The event task handles an event of the station: those after it are later ones.
NotTwice ==
  g_prov = "live" => /\ Cutting => ~Queued("got_ip")
                     /\ handler.pc = "disconnect" => ~Queued("disconnected")

\* Nothing is said of the station before a network is tried.
Untouched ==
  driver.network = "none" =>
    /\ driver.station = "idle"
    /\ g_prov = "live" => /\ driver.why = "none" /\ ~Cutting
                          /\ ~Queued("got_ip") /\ ~Queued("disconnected")

\* A station that is connected: that is yet to be told, or is what the state says.
IsConnected ==
  g_prov = "live" /\ driver.station = "connected" =>
    /\ ~Cutting /\ ~Queued("disconnected") /\ http.pc # "applied"
    /\ driver.network # "none"
    /\ \/ Queued("got_ip") /\ sta.state = "connecting"
       \/ ~Queued("got_ip") /\ ~Queued("start") /\ sta.state = "connected"

\* One that is connecting: nothing of an earlier attempt is left in the queue.
IsConnecting ==
  g_prov = "live" /\ driver.station = "connecting" =>
    /\ driver.network # "none"
    /\ ~Queued("got_ip") /\ ~Queued("disconnected")
    /\ Cutting => handler.why # "other"
    /\ http.pc = "applied" \/ sta.state = "connecting"

\* One that is idle: that is in the queue, the event task is at it, or it was noted.
Told ==
  /\ Queued("disconnected") /\ (Cutting => handler.why # "other")
  /\ \A k \in DOMAIN events : events[k].id = "disconnected" => events[k].why = driver.why
  /\ driver.why # "other" => sta.state = "connecting" /\ ~Queued("got_ip") /\ http.pc # "applied"

NoTidings == ~Queued("start") /\ ~Queued("got_ip") /\ ~Queued("disconnected")

Taken ==
  /\ NoTidings /\ Cutting /\ handler.why = driver.why
  /\ driver.why # "other" => sta.state = "disconnected" /\ http.pc # "applied"

Noted ==
  /\ NoTidings /\ ~Cutting /\ driver.why \in Results
  /\ sta.state = "disconnected" /\ sta.reason = driver.why /\ http.pc # "applied"

IsIdle ==
  g_prov = "live" /\ driver.station = "idle" /\ driver.network # "none" => Told \/ Taken \/ Noted

\* A phone that may try a network waits for nothing of the last one.
Orderly ==
  g_prov = "live" /\ phone.doing \in {"nothing", "waits_in_vain"} /\ driver.network # "none" =>
    /\ driver.station = "idle" /\ driver.why # "other" /\ ~Queued("disconnected")

\* The table of results: in order of strength without a gap, nothing twice, and as long
\* as there is room for all that the scan has found, all.
InStrength ==
  \A j \in Listed : \A i \in 1..(j - 1) : i \in Listed /\ Rssi(scan.sorted[i]) >= Rssi(scan.sorted[j])

Distinct == \A i, j \in Listed : scan.sorted[i] = scan.sorted[j] => i = j

AllListed ==
  /\ IsFiniteSet(FoundNow)
  /\ Cardinality(FoundNow) <= MaxResults => FoundNow \subseteq {scan.sorted[i] : i \in Listed}

TableInv == g_prov = "live" => InStrength /\ Distinct /\ AllListed

StopInv    == Before /\ InTurn /\ OneOrder
ScanInv    == OnePlace /\ ToCome /\ AllCurrent
StationInv == NotTwice /\ Untouched /\ IsConnected /\ IsConnecting /\ IsIdle /\ Orderly

IInv == Typed /\ StopInv /\ InQueue /\ ScanInv /\ StationInv

---------------------------------------------------------------------------
(* What the parts of the state look like.                                   *)

\* The fields of the state, each in its range.
LEMMA Known ==
  ASSUME Typed
  PROVE  /\ scan.scanning \in BOOLEAN /\ scan.runs \in Nat /\ scan.channels_per_group \in Groups \cup {0}
         /\ scan.curr_channel \in Channels /\ scan.cfg_channel \in Channels
         /\ scan.ap_list \in [Channels -> Lists \cup {NULL}]
         /\ scan.sorted \in [Places -> Pointers \cup {NULL}]
         /\ driver.scanning \in BOOLEAN /\ driver.found \in Found \cup {<<>>}
         /\ driver.station \in {"idle", "connecting", "connected"}
         /\ driver.why \in {"none", "wrong_password", "absent", "other"}
         /\ phone.scans \in Nat /\ phone.applies \in Nat /\ phone.losses \in Nat
         /\ handler.pc \in {"disconnect", "reason"} => handler.why \in Whys
         /\ http.pc = "copy" => http.record \in Pointers
         /\ http.pc \in {"start", "started"} => http.group \in Groups
         /\ DOMAIN events = 1..Len(events) /\ Len(events) \in Nat
<1>1. scan \in Scans /\ driver \in Drivers /\ phone \in Phones /\ events \in Seq(Events)
  BY DEF Typed
<1>2. http.pc = "copy" => http.record \in Pointers
  BY DEF Typed, Requests
<1>3. http.pc \in {"start", "started"} => http.group \in Groups
  BY DEF Typed, Requests
<1>4. handler.pc \in {"disconnect", "reason"} => handler.why \in Whys
  BY DEF Typed, Handlers
<1> QED BY <1>1, <1>2, <1>3, <1>4 DEF Scans, Drivers, Phones, Whys, Results

LEMMA Channel0 == 0 \in Channels /\ 1 \in Channels /\ Channels \subseteq Nat
BY ProvAssumption DEF Channels

\* A list is not the null pointer.
LEMMA ListNotNull ==
  ASSUME NEW id, NEW rssi
  PROVE  [id |-> id, rssi |-> rssi] # NULL
<1> DEFINE list == [id |-> id, rssi |-> rssi]
<1>1. DOMAIN list = {"id", "rssi"} /\ DOMAIN NULL = {"null"}
  BY DEF NULL
<1>2. "id" \notin {"null"}
  OBVIOUS
<1> HIDE DEF list
<1>3. list # NULL
  BY <1>1, <1>2
<1> QED BY <1>3 DEF list

LEMMA PhoneFits ==
  ASSUME phone \in Phones, NEW d \in {"absent", "nothing", "waits", "waits_in_vain", "gone"}, NEW n \in Nat
  PROVE  /\ [phone EXCEPT !.doing = d] \in Phones
         /\ [phone EXCEPT !.scans = n] \in Phones
         /\ [phone EXCEPT !.losses = n] \in Phones
         /\ [phone EXCEPT !.applies = n, !.doing = d] \in Phones
BY DEF Phones

\* An event that comes is the last; what was in the queue stays.
LEMMA Appended ==
  ASSUME events \in Seq(Events), NEW e \in Events, events' = Append(events, e)
  PROVE  /\ events' \in Seq(Events)
         /\ \A id : Queued(id)' <=> Queued(id) \/ e.id = id
         /\ \A k \in DOMAIN events' : events'[k] = e \/ \E l \in DOMAIN events : events[l] = events'[k]
<1>1. /\ events' \in Seq(Events) /\ Len(events') = Len(events) + 1 /\ Len(events) \in Nat
      /\ DOMAIN events = 1..Len(events) /\ DOMAIN events' = 1..(Len(events) + 1)
      /\ \A k \in 1..Len(events) : events'[k] = events[k]
      /\ events'[Len(events) + 1] = e
  OBVIOUS
<1>2. ASSUME NEW k \in DOMAIN events' PROVE events'[k] = e \/ \E l \in DOMAIN events : events[l] = events'[k]
  <2>1. k = Len(events) + 1 \/ k \in 1..Len(events)
    BY <1>1
  <2> QED BY <1>1, <2>1
<1>3. ASSUME NEW id PROVE Queued(id)' <=> Queued(id) \/ e.id = id
  <2>1. Queued(id)' => Queued(id) \/ e.id = id
    BY <1>2 DEF Queued
  <2>2. Queued(id) => Queued(id)'
    BY <1>1 DEF Queued
  <2>3. Len(events) + 1 \in DOMAIN events'
    BY <1>1
  <2>4. e.id = id => Queued(id)'
    BY <1>1, <2>3 DEF Queued
  <2> QED BY <2>1, <2>2, <2>4
<1> QED BY <1>1, <1>2, <1>3

\* It is the only one of its kind, not a start behind others and not a connection
\* behind a loss: the queue stays in order.
LEMMA AppendedInOrder ==
  ASSUME events \in Seq(Events), InOrder, NEW e \in Events, events' = Append(events, e),
         ~Queued(e.id), e.id = "start" => events = <<>>,
         e.id = "got_ip" => ~Queued("disconnected")
  PROVE  InOrder'
<1>1. /\ Len(events) \in Nat /\ DOMAIN events = 1..Len(events) /\ DOMAIN events' = 1..(Len(events) + 1)
      /\ \A k \in 1..Len(events) : events'[k] = events[k]
      /\ events'[Len(events) + 1] = e
  OBVIOUS
<1>2. \A k \in 1..Len(events) : events[k].id # e.id
  BY <1>1 DEF Queued
<1>3. \A k \in DOMAIN events' : k \in Nat /\ (k \in 1..Len(events) \/ k = Len(events) + 1)
  BY <1>1
<1>4. ASSUME NEW k \in DOMAIN events', NEW l \in DOMAIN events', events'[k].id = events'[l].id PROVE k = l
  BY <1>1, <1>2, <1>3, <1>4 DEF InOrder
<1>5. ASSUME NEW k \in DOMAIN events', events'[k].id = "start" PROVE k = 1
  <2>1. CASE k \in 1..Len(events)
    BY <1>1, <1>5, <2>1 DEF InOrder
  <2>2. CASE k = Len(events) + 1
    <3>1. Len(events) = 0
      BY <1>1, <1>5, <2>2
    <3> QED BY <2>2, <3>1
  <2> QED BY <1>3, <2>1, <2>2
<1>6. ASSUME NEW k \in DOMAIN events', NEW l \in DOMAIN events',
             events'[k].id = "got_ip", events'[l].id = "disconnected"
      PROVE  k < l
  <2>1. CASE k \in 1..Len(events) /\ l \in 1..Len(events)
    BY <1>1, <1>6, <2>1 DEF InOrder
  <2>2. CASE k \in 1..Len(events) /\ l = Len(events) + 1
    BY <1>1, <2>2
  <2>3. CASE k = Len(events) + 1
    <3>1. e.id = "got_ip" /\ l \in 1..Len(events)
      BY <1>1, <1>3, <1>6, <2>3
    <3> QED BY <1>1, <1>6, <3>1 DEF Queued
  <2> QED BY <1>3, <2>1, <2>2, <2>3
<1> QED BY <1>4, <1>5, <1>6 DEF InOrder

\* An event is taken: the others stay, each a place further on, and there is no start
\* among them.
LEMMA TakenOff ==
  ASSUME events \in Seq(Events), InOrder, events # <<>>, events' = Tail(events)
  PROVE  /\ events' \in Seq(Events) /\ InOrder'
         /\ Event \in Events /\ Queued(Event.id)
         /\ \A id : Queued(id)' <=> Queued(id) /\ id # Event.id
         /\ ~Queued("start")'
         /\ Event.id = "disconnected" => ~Queued("got_ip")
         /\ \A k \in DOMAIN events' : \E l \in DOMAIN events : events[l] = events'[k]
         /\ 1 \in DOMAIN events /\ events[1] = Event
<1>1. /\ Len(events) \in Nat \ {0} /\ DOMAIN events = 1..Len(events) /\ Event = events[1]
      /\ events' \in Seq(Events) /\ DOMAIN events' = 1..(Len(events) - 1)
      /\ \A k \in 1..(Len(events) - 1) : events'[k] = events[k + 1]
  BY DEF Event
<1>2. 1 \in DOMAIN events
  BY <1>1
<1>3. ASSUME NEW k \in DOMAIN events'
      PROVE  k \in Nat /\ k + 1 \in DOMAIN events /\ events'[k] = events[k + 1] /\ k + 1 # 1
  BY <1>1
<1>4. ASSUME NEW l \in DOMAIN events, l # 1 PROVE l - 1 \in DOMAIN events' /\ events'[l - 1] = events[l]
  <2>1. l \in 1..Len(events) /\ l - 1 \in 1..(Len(events) - 1) /\ (l - 1) + 1 = l
    BY <1>1, <1>4
  <2> QED BY <1>1, <2>1
<1>5. InOrder'
  <2>1. ASSUME NEW k \in DOMAIN events', NEW l \in DOMAIN events', events'[k].id = events'[l].id PROVE k = l
    <3>1. k + 1 = l + 1
      BY <1>3, <2>1 DEF InOrder
    <3> QED BY <1>3, <3>1
  <2>2. ASSUME NEW k \in DOMAIN events', events'[k].id = "start" PROVE k = 1
    BY <1>3, <2>2 DEF InOrder
  <2>3. ASSUME NEW k \in DOMAIN events', NEW l \in DOMAIN events',
               events'[k].id = "got_ip", events'[l].id = "disconnected"
        PROVE  k < l
    <3>1. k + 1 < l + 1
      BY <1>3, <2>3 DEF InOrder
    <3> QED BY <1>3, <3>1
  <2> QED BY <2>1, <2>2, <2>3 DEF InOrder
<1>6. ASSUME NEW id PROVE Queued(id)' <=> Queued(id) /\ id # Event.id
  <2>1. ASSUME Queued(id)' PROVE Queued(id) /\ id # Event.id
    <3>1. PICK k \in DOMAIN events' : events'[k].id = id
      BY <2>1 DEF Queued
    <3> QED BY <1>1, <1>2, <1>3, <3>1 DEF Queued, InOrder
  <2>2. ASSUME Queued(id), id # Event.id PROVE Queued(id)'
    <3>1. PICK l \in DOMAIN events : events[l].id = id
      BY <2>2 DEF Queued
    <3>2. l # 1
      BY <1>1, <2>2, <3>1
    <3> QED BY <1>4, <3>1, <3>2 DEF Queued
  <2> QED BY <2>1, <2>2
<1>7. ~Queued("start")'
  BY <1>3 DEF Queued, InOrder
<1>8. Event.id = "disconnected" => ~Queued("got_ip")
  <2> SUFFICES ASSUME Event.id = "disconnected", NEW k \in DOMAIN events, events[k].id = "got_ip" PROVE FALSE
    BY DEF Queued
  <2>1. k < 1
    BY <1>1, <1>2 DEF InOrder
  <2> QED BY <1>1, <2>1
<1>9. Queued(Event.id) /\ Event \in Events
  BY <1>1, <1>2 DEF Queued
<1> QED BY <1>1, <1>2, <1>3, <1>5, <1>6, <1>7, <1>8, <1>9

\* What the two loops leave in a place of the table is nothing, a new result, or what
\* was listed before.
LEMMA SortedFrom ==
  ASSUME Typed, NEW list, NEW channel, Len(list.rssi) \in Nat, NEW place \in Places
  PROVE  \/ Sorted(list, channel)[place] = NULL
         \/ \E i \in 1..Len(list.rssi) : Sorted(list, channel)[place] = Pointer(channel, list, i)
         \/ \E k \in Places : scan.sorted[k] # NULL /\ Sorted(list, channel)[place] = scan.sorted[k]
<1> DEFINE n    == Least(MaxResults, Len(list.rssi))
           new  == [i \in 1..n |-> Pointer(channel, list, i)]
           kept == {k \in 1..(MaxResults - Len(new)) : scan.sorted[k] # NULL}
           PlaceOfKept(k) == k + Cardinality({i \in DOMAIN new : list.rssi[i] >= Rssi(scan.sorted[k])})
           PlaceOfNew(i)  == i + Cardinality({k \in kept : Rssi(scan.sorted[k]) > list.rssi[i]})
           found == Sorted(list, channel)[place]
<1>1. n \in Nat /\ n <= Len(list.rssi) /\ Len(new) = n /\ DOMAIN new = 1..n /\ MaxResults \in Nat
  BY ProvAssumption DEF Least
<1>2. kept \subseteq Places
  BY <1>1 DEF Places
<1>3. found = IF \E i \in DOMAIN new : PlaceOfNew(i) = place
              THEN new[CHOOSE i \in DOMAIN new : PlaceOfNew(i) = place]
              ELSE IF \E k \in kept : PlaceOfKept(k) = place
              THEN scan.sorted[CHOOSE k \in kept : PlaceOfKept(k) = place] ELSE NULL
  BY DEF Sorted
<1>4. \A k \in kept : scan.sorted[k] # NULL
  OBVIOUS
<1>5. \A i \in DOMAIN new : new[i] = Pointer(channel, list, i) /\ i \in 1..Len(list.rssi)
  BY <1>1
<1> HIDE DEF n, new, kept, PlaceOfKept, PlaceOfNew, found
<1>6. CASE \E i \in DOMAIN new : PlaceOfNew(i) = place
  <2>1. PICK i \in DOMAIN new : found = new[i]
    BY <1>3, <1>6
  <2> QED BY <1>5, <2>1 DEF found
<1>7. CASE ~(\E i \in DOMAIN new : PlaceOfNew(i) = place) /\ \E k \in kept : PlaceOfKept(k) = place
  <2>1. PICK k \in kept : found = scan.sorted[k]
    BY <1>3, <1>7
  <2> QED BY <1>2, <1>4, <2>1 DEF found
<1>8. CASE ~(\E i \in DOMAIN new : PlaceOfNew(i) = place) /\ ~ \E k \in kept : PlaceOfKept(k) = place
  BY <1>3, <1>8 DEF found
<1> QED BY <1>6, <1>7, <1>8

---------------------------------------------------------------------------
(* What most steps leave alone.                                             *)

\* Steps that have nothing to do with the station.
StationStays ==
  /\ g_prov' = "live" => g_prov = "live"
  /\ sta' = sta /\ driver'.station = driver.station /\ driver'.network = driver.network /\ driver'.why = driver.why
  /\ \A id \in {"start", "got_ip", "disconnected"} : Queued(id)' <=> Queued(id)
  /\ \A k \in DOMAIN events' : events'[k].id = "disconnected" => \E l \in DOMAIN events : events[l] = events'[k]
  /\ Cutting' <=> Cutting
  /\ Cutting => handler' = handler
  /\ http'.pc = "applied" <=> http.pc = "applied"
  /\ phone'.doing \in {"nothing", "waits_in_vain"} => phone.doing \in {"nothing", "waits_in_vain"}

LEMMA StationKept ==
  ASSUME IInv, StationStays
  PROVE  StationInv'
<1> USE DEF IInv, StationInv, StationStays, Cutting
<1>1. NotTwice'
  BY DEF NotTwice
<1>2. Untouched'
  BY DEF Untouched
<1>3. IsConnected'
  BY DEF IsConnected
<1>4. IsConnecting'
  BY DEF IsConnecting
<1>5. Orderly'
  BY DEF Orderly
<1>6. IsIdle'
  <2> SUFFICES ASSUME (g_prov = "live")', (driver.station = "idle")', (driver.network # "none")'
               PROVE  Told' \/ Taken' \/ Noted'
    BY DEF IsIdle
  <2>1. CASE Told
    BY <2>1 DEF Told
  <2>2. CASE Taken
    BY <2>2 DEF Taken, NoTidings
  <2>3. CASE Noted
    BY <2>3 DEF Noted, NoTidings
  <2> QED BY <2>1, <2>2, <2>3 DEF IsIdle
<1> QED BY <1>1, <1>2, <1>3, <1>4, <1>5, <1>6

\* Steps that have nothing to do with a scan.
ScanStays ==
  /\ g_prov' = "live" => g_prov = "live"
  /\ scan' = scan /\ driver'.scanning = driver.scanning
  /\ Queued("scan_done")' <=> Queued("scan_done")
  /\ handler'.pc = handler.pc \/ (~Handling /\ ~Handling')
  /\ http'.pc \in {"start", "started", "copy"} => http' = http
  /\ http.pc = "started" => http' = http

LEMMA ScanKept ==
  ASSUME IInv, ScanStays
  PROVE  ScanInv'
<1> USE DEF IInv, ScanInv, ScanStays, Handling
<1>1. OnePlace'
  BY DEF OnePlace
<1>2. ToCome'
  BY DEF ToCome, Old
<1>3. AllCurrent'
  BY DEF AllCurrent, Current, Live
<1> QED BY <1>1, <1>2, <1>3

\* The station goes idle and that is queued: it is the last that was told of it.
LEMMA GoesIdle ==
  ASSUME IInv, NEW why \in Whys, g_prov' = g_prov, sta' = sta, http' = http, scan' = scan,
         phone'.doing = phone.doing, driver.station # "idle",
         driver' = Disconnected(driver, why),
         events' = Append(events, [id |-> "disconnected", why |-> why]),
         \/ handler' = handler /\ handler.pc = "idle"
         \/ handler.pc = "disconnect" /\ handler'.pc = "reason" /\ handler'.why = handler.why,
         why = "other" \/ (driver.station = "connecting" /\ http.pc # "applied")
  PROVE  /\ driver' \in Drivers /\ driver'.scanning = driver.scanning /\ driver'.network = driver.network
         /\ events' \in Seq(Events) /\ InQueue' /\ ScanInv' /\ StationInv'
<1> DEFINE e == [id |-> "disconnected", why |-> why]
<1>1. e \in Events /\ e.id = "disconnected" /\ e.why = why
  BY DEF Events
<1>2. /\ driver' \in Drivers /\ driver'.scanning = driver.scanning /\ driver'.network = driver.network
      /\ driver'.station = "idle" /\ driver'.why = why
  <2>1. driver \in Drivers
    BY DEF IInv, Typed
  <2>2. driver' \in Drivers
    BY <2>1 DEF Drivers, Disconnected
  <2>3. driver'.station = "idle" /\ driver'.why = why
    BY <2>1 DEF Drivers, Disconnected
  <2>4. driver'.scanning = driver.scanning /\ driver'.network = driver.network
    BY <2>1 DEF Drivers, Disconnected
  <2> QED BY <2>2, <2>3, <2>4
<1>3. events' = Append(events, e) /\ events \in Seq(Events)
  BY DEF IInv, Typed
<1> HIDE DEF e
<1>4. /\ events' \in Seq(Events)
      /\ \A id : Queued(id)' <=> Queued(id) \/ id = "disconnected"
      /\ \A k \in DOMAIN events' : events'[k] = e \/ \E l \in DOMAIN events : events[l] = events'[k]
  BY <1>1, <1>3, Appended
<1>5. driver.network # "none"
  BY DEF IInv, StationInv, Untouched
<1>6. g_prov = "live" =>
        /\ ~Queued("disconnected") /\ phone.doing \notin {"nothing", "waits_in_vain"}
        /\ handler.pc = "disconnect" => ~Queued("got_ip") /\ handler.why # "other"
        /\ why # "other" => sta.state = "connecting" /\ ~Queued("got_ip")
  <2> SUFFICES ASSUME g_prov = "live"
               PROVE  /\ ~Queued("disconnected") /\ phone.doing \notin {"nothing", "waits_in_vain"}
                      /\ handler.pc = "disconnect" => ~Queued("got_ip") /\ handler.why # "other"
                      /\ why # "other" => sta.state = "connecting" /\ ~Queued("got_ip")
    OBVIOUS
  <2>1. driver.station \in {"connecting", "connected"}
    BY Known DEF IInv
  <2>2. phone.doing \notin {"nothing", "waits_in_vain"}
    BY <1>5 DEF IInv, StationInv, Orderly
  <2>3. CASE driver.station = "connecting"
    BY <2>2, <2>3 DEF IInv, StationInv, IsConnecting, Cutting
  <2>4. CASE driver.station = "connected"
    BY <2>2, <2>4 DEF IInv, StationInv, IsConnected, Cutting
  <2> QED BY <2>1, <2>3, <2>4
<1>7. InQueue'
  <2> SUFFICES ASSUME g_prov = "live" PROVE InOrder'
    BY DEF InQueue
  <2>1. InOrder
    BY DEF IInv, InQueue
  <2> QED BY <1>1, <1>3, <1>6, <2>1, AppendedInOrder
<1>8. ScanInv'
  BY <1>2, <1>4, ScanKept DEF ScanStays, Handling
<1>9. StationInv'
  <2>1. Untouched'
    BY <1>2, <1>5 DEF Untouched
  <2> SUFFICES ASSUME g_prov = "live" PROVE NotTwice' /\ IsConnected' /\ IsConnecting' /\ IsIdle' /\ Orderly'
    BY <2>1 DEF StationInv, NotTwice, IsConnected, IsConnecting, IsIdle, Orderly
  <2>2. NotTwice'
    BY <1>4, <1>6 DEF NotTwice, Cutting
  <2>3. IsConnected' /\ IsConnecting'
    BY <1>2 DEF IsConnected, IsConnecting
  <2>4. Orderly'
    BY <1>6 DEF Orderly
  <2>5. ASSUME NEW k \in DOMAIN events', events'[k].id = "disconnected" PROVE events'[k].why = why
    BY <1>1, <1>4, <1>6, <2>5 DEF Queued
  <2>6. Cutting' => handler'.why # "other"
    BY <1>6 DEF Cutting
  <2>7. Told'
    BY <1>2, <1>4, <1>6, <2>5, <2>6 DEF Told
  <2> QED BY <2>2, <2>3, <2>4, <2>7 DEF IsIdle
<1> QED BY <1>2, <1>4, <1>7, <1>8, <1>9

---------------------------------------------------------------------------
(* Each step keeps the invariant.                                           *)

\* Provisioning is started: its data are new, nothing else has happened yet.
LEMMA StartStep ==
  ASSUME IInv, Start
  PROVE  IInv'
<1>1. /\ phone.doing = "absent" /\ g_prov' = "live" /\ scan' = NewScan /\ sta' = NewSta /\ timer' = "idle"
      /\ events' = Append(events, [id |-> "start"]) /\ phone' = [phone EXCEPT !.doing = "nothing"]
      /\ lock' = lock /\ driver' = driver /\ http' = http /\ handler' = handler
      /\ stop' = stop /\ late' = late
  BY DEF Start, tasks
<1>2. Typed'
  <2>1. scan' \in Scans
    BY <1>1, Channel0 DEF Scans, NewScan
  <2>2. phone' \in Phones
    BY <1>1, PhoneFits DEF IInv, Typed
  <2>3. sta' \in Stations
    BY <1>1 DEF NewSta, Stations, Results
  <2>4. events' \in Seq(Events)
    BY <1>1, Appended DEF IInv, Typed, Events
  <2> QED BY <1>1, <2>1, <2>2, <2>3, <2>4 DEF IInv, Typed
<1>3. StopInv'
  <2> USE DEF IInv, StopInv
  <2>1. Before'
    BY <1>1 DEF Before
  <2>2. InTurn'
    BY <1>1 DEF InTurn, Before
  <2>3. OneOrder'
    BY <1>1 DEF OneOrder, InTurn, StoppedTwice, Waits, Before
  <2> QED BY <2>1, <2>2, <2>3
<1>4. InQueue'
  <2>1. [id |-> "start"] \in Events /\ [id |-> "start"].id = "start" /\ events = <<>>
    BY <1>1 DEF Events, IInv, StopInv, Before
  <2>2. ~Queued("start") /\ InOrder
    BY <2>1 DEF Queued, InOrder
  <2> QED BY <1>1, <2>1, <2>2, AppendedInOrder DEF IInv, Typed, InQueue
<1>5. ScanInv'
  <2>1. ~Queued("scan_done")' /\ ~driver.scanning /\ http.pc = "idle" /\ handler.pc = "idle"
    BY <1>1, Appended DEF IInv, Typed, Events, StopInv, Before, Queued
  <2> QED BY <1>1, <2>1 DEF ScanInv, OnePlace, ToCome, AllCurrent, Handling, NewScan
<1>6. StationInv'
  <2>1. ~Queued("got_ip")' /\ ~Queued("disconnected")'
    BY <1>1, Appended DEF IInv, Typed, Events, StopInv, Before, Queued
  <2>2. handler.pc = "idle" /\ driver.station = "idle" /\ driver.network = "none" /\ driver.why = "none"
    BY <1>1 DEF IInv, StopInv, Before
  <2> QED BY <1>1, <2>1, <2>2 DEF StationInv, NotTwice, Untouched, IsConnected, IsConnecting, IsIdle, Orderly, Cutting
<1> QED BY <1>2, <1>3, <1>4, <1>5, <1>6 DEF IInv

\* The phone asks for a scan.
LEMMA ScanAskedStep ==
  ASSUME IInv, NEW blocking \in BOOLEAN, NEW group \in Groups, ScanAsked(blocking, group)
  PROVE  IInv'
<1>1. /\ g_prov = "live" /\ http.pc = "idle" /\ stop = "none" /\ phone.doing = "nothing"
      /\ phone' = [phone EXCEPT !.scans = phone.scans + 1]
      /\ http' = http \/ (~scan.scanning /\ http' = [pc |-> "start", blocking |-> blocking, group |-> group])
      /\ g_prov' = g_prov /\ lock' = lock /\ scan' = scan /\ sta' = sta /\ timer' = timer
      /\ driver' = driver /\ events' = events /\ handler' = handler /\ stop' = stop
      /\ late' = late
  BY DEF ScanAsked, Serve, data
<1>a. phone'.doing = phone.doing /\ http'.pc \in {"idle", "start"} /\ (http'.pc = "start" => ~scan.scanning)
  BY <1>1 DEF IInv, Typed, Phones
<1>2. Typed'
  <2>1. phone.scans + 1 \in Nat
    BY Known DEF IInv
  <2>2. phone' \in Phones
    BY <1>1, <2>1, PhoneFits DEF IInv, Typed
  <2>3. http' \in Requests
    BY <1>1 DEF IInv, Typed, Requests
  <2> QED BY <1>1, <2>2, <2>3 DEF IInv, Typed
<1>3. StopInv'
  <2> USE DEF IInv, StopInv
  <2>1. Before'
    BY <1>1, <1>a DEF Before
  <2>2. InTurn'
    BY <1>1, <1>a DEF InTurn
  <2>3. OneOrder'
    BY <1>1, <1>a DEF OneOrder, StoppedTwice, Waits
  <2> QED BY <2>1, <2>2, <2>3
<1>4. InQueue'
  BY <1>1 DEF IInv, InQueue, InOrder
<1>5. ScanInv'
  <2> USE DEF IInv, ScanInv
  <2>1. OnePlace'
    BY <1>1, <1>a DEF OnePlace, Queued, Handling
  <2>2. ToCome'
    BY <1>1, <1>a DEF ToCome, Old, Queued
  <2>3. AllCurrent'
    BY <1>1, <1>a DEF AllCurrent, Current, Live
  <2> QED BY <2>1, <2>2, <2>3
<1>6. StationInv'
  BY <1>1, <1>a, StationKept DEF StationStays, Cutting, Queued
<1> QED BY <1>2, <1>3, <1>4, <1>5, <1>6 DEF IInv

\* The driver is asked for a scan, and may refuse: what was listed is forgotten, all lists
\* are old.
LEMMA ScanStartStep ==
  ASSUME IInv, ScanStart
  PROVE  IInv'
<1>1. /\ http.pc = "start"
      /\ scan' = [scan EXCEPT !.runs = scan.runs + 1, !.sorted = Cleared, !.channels_per_group = http.group,
                              !.cfg_channel = IF http.group = 0 THEN 0 ELSE 1]
      /\ \/ driver' = [driver EXCEPT !.scanning = TRUE] /\ http' = [http EXCEPT !.pc = "started"]
         \/ driver' = driver /\ http' = [pc |-> "idle"]
      /\ g_prov' = g_prov /\ lock' = lock /\ sta' = sta /\ timer' = timer
      /\ events' = events /\ handler' = handler /\ stop' = stop /\ phone' = phone
      /\ late' = late
  BY DEF ScanStart
<1>a. /\ scan' \in Scans /\ scan'.scanning = scan.scanning /\ scan'.runs = scan.runs + 1
      /\ scan'.curr_channel = scan.curr_channel /\ scan'.ap_list = scan.ap_list
      /\ scan'.sorted = [i \in Places |-> NULL]
  <2> DEFINE n == scan.runs + 1
             g == http.group
             c == IF http.group = 0 THEN 0 ELSE 1
  <2>0. n \in Nat /\ g \in Groups /\ c \in Channels
    BY <1>1, Known, Channel0 DEF IInv
  <2>1. /\ scan' = [scan EXCEPT !.runs = n, !.sorted = Cleared, !.channels_per_group = g, !.cfg_channel = c]
        /\ n = scan.runs + 1
    BY <1>1
  <2> HIDE DEF n, g, c
  <2>2. Cleared \in [Places -> Pointers \cup {NULL}]
    BY DEF Cleared
  <2>3. scan \in Scans
    BY DEF IInv, Typed
  <2>4. scan' \in Scans
    BY <2>0, <2>1, <2>2, <2>3 DEF Scans
  <2> QED BY <2>0, <2>1, <2>3, <2>4 DEF Scans, Cleared
<1>b. http' \in Requests /\ http'.pc \in {"idle", "started"}
  BY <1>1 DEF IInv, Typed, Requests
<1>c. /\ http'.pc = "started" => driver'.scanning
      /\ http'.pc = "idle" => driver' = driver
      /\ driver'.station = driver.station /\ driver'.network = driver.network /\ driver'.why = driver.why
  BY <1>1 DEF IInv, Typed, Drivers, Requests
<1>2. Typed'
  <2>1. driver' \in Drivers
    BY <1>1 DEF IInv, Typed, Drivers
  <2> QED BY <1>1, <1>a, <1>b, <2>1 DEF IInv, Typed
<1>3. StopInv'
  <2> USE DEF IInv, StopInv
  <2>1. Before'
    BY <1>1 DEF Before
  <2>2. InTurn'
    BY <1>1, <1>b DEF InTurn
  <2>3. OneOrder'
    BY <1>1, <1>b DEF OneOrder, StoppedTwice, Waits
  <2> QED BY <2>1, <2>2, <2>3
<1>4. InQueue'
  BY <1>1 DEF IInv, InQueue, InOrder
<1>5. ScanInv'
  <2>1. g_prov' = "live" => ~scan.scanning /\ ~driver.scanning /\ ~Queued("scan_done") /\ ~Handling
    BY <1>1 DEF IInv, ScanInv, OnePlace
  <2>2. OnePlace'
    BY <1>1, <1>a, <1>b, <1>c, <2>1 DEF OnePlace, Queued, Handling
  <2>3. ASSUME g_prov' = "live", NEW c \in Channels, scan.ap_list[c] # NULL
        PROVE  scan.ap_list[c].id < scan.runs + 1 /\ scan.ap_list[c].id <= scan.runs + 1
    <3>1. scan.ap_list[c].id \in Nat /\ scan.runs \in Nat /\ scan.ap_list[c].id <= scan.runs
      BY <1>1, <2>3, Known DEF IInv, ScanInv, ToCome, Lists
    <3> QED BY <3>1
  <2>4. ToCome'
    BY <1>1, <1>a, <1>b, <1>c, <2>1, <2>3 DEF ToCome, Old, Queued, Handling
  <2>5. AllCurrent'
    BY <1>a, <1>b DEF AllCurrent
  <2> QED BY <2>2, <2>4, <2>5 DEF ScanInv
<1>6. StationInv'
  BY <1>1, <1>b, <1>c, StationKept DEF StationStays, Cutting, Queued
<1> QED BY <1>2, <1>3, <1>4, <1>5, <1>6 DEF IInv

\* The scan is known to run.
LEMMA ScanStartedStep ==
  ASSUME IInv, ScanStarted
  PROVE  IInv'
<1>1. /\ http.pc = "started" /\ scan' = [scan EXCEPT !.scanning = TRUE, !.curr_channel = scan.cfg_channel]
      /\ http' = [pc |-> IF http.blocking THEN "poll" ELSE "idle"]
      /\ g_prov' = g_prov /\ lock' = lock /\ sta' = sta /\ timer' = timer
      /\ driver' = driver /\ events' = events /\ handler' = handler /\ stop' = stop
      /\ phone' = phone /\ late' = late
  BY DEF ScanStarted
<1>a. /\ scan' \in Scans /\ scan'.scanning /\ scan'.runs = scan.runs
      /\ scan'.ap_list = scan.ap_list /\ scan'.sorted = scan.sorted
  BY <1>1 DEF IInv, Typed, Scans
<1>b. http' \in Requests /\ http'.pc \in {"idle", "poll"}
  BY <1>1 DEF Requests
<1>2. Typed'
  BY <1>1, <1>a, <1>b DEF IInv, Typed, Requests
<1>3. StopInv'
  <2> USE DEF IInv, StopInv
  <2>1. Before'
    BY <1>1 DEF Before
  <2>2. InTurn'
    BY <1>1, <1>b DEF InTurn
  <2>3. OneOrder'
    BY <1>1, <1>b DEF OneOrder, StoppedTwice, Waits
  <2> QED BY <2>1, <2>2, <2>3
<1>4. InQueue'
  BY <1>1 DEF IInv, InQueue, InOrder
<1>5. ScanInv'
  <2> USE DEF IInv, ScanInv
  <2>1. OnePlace'
    BY <1>1, <1>a, <1>b DEF OnePlace, Queued, Handling
  <2>2. ToCome'
    BY SMTT(40), <1>1, <1>a, <1>b DEF ToCome, Old, Queued, OnePlace, Handling
  <2>3. AllCurrent'
    BY <1>1, <1>a, <1>b DEF AllCurrent, Current, Live
  <2> QED BY <2>1, <2>2, <2>3
<1>6. StationInv'
  BY <1>1, <1>b, StationKept DEF StationStays, Cutting, Queued
<1> QED BY <1>2, <1>3, <1>4, <1>5, <1>6 DEF IInv

\* The caller of a scan hears that it is over.
LEMMA ScanPolledStep ==
  ASSUME IInv, ScanPolled
  PROVE  IInv'
<1>1. /\ http.pc = "poll" /\ http' = [pc |-> "idle"]
      /\ g_prov' = g_prov /\ lock' = lock /\ scan' = scan /\ sta' = sta /\ timer' = timer
      /\ driver' = driver /\ events' = events /\ handler' = handler /\ stop' = stop
      /\ phone' = phone /\ late' = late
  BY DEF ScanPolled, data
<1>2. Typed'
  BY <1>1 DEF IInv, Typed, Requests
<1>3. StopInv'
  <2> USE DEF IInv, StopInv
  <2>1. Before'
    BY <1>1 DEF Before
  <2>2. InTurn'
    BY <1>1 DEF InTurn, Before
  <2>3. OneOrder'
    BY <1>1 DEF OneOrder, InTurn, StoppedTwice, Waits, Before
  <2> QED BY <2>1, <2>2, <2>3
<1>4. InQueue'
  BY <1>1 DEF IInv, InQueue, InOrder
<1>5. ScanInv'
  BY <1>1, ScanKept DEF ScanStays, Handling, Queued
<1>6. StationInv'
  BY <1>1, StationKept DEF StationStays, Cutting, Queued
<1> QED BY <1>2, <1>3, <1>4, <1>5, <1>6 DEF IInv

\* The result was copied.
LEMMA ResultCopiedStep ==
  ASSUME IInv, ResultCopied
  PROVE  IInv'
<1>1. /\ http.pc = "copy" /\ http' = [pc |-> "idle"]
      /\ g_prov' = g_prov /\ lock' = lock /\ scan' = scan /\ sta' = sta /\ timer' = timer
      /\ driver' = driver /\ events' = events /\ handler' = handler /\ stop' = stop
      /\ phone' = phone /\ late' = late
  BY DEF ResultCopied, data
<1>2. Typed'
  BY <1>1 DEF IInv, Typed, Requests
<1>3. StopInv'
  <2> USE DEF IInv, StopInv
  <2>1. Before'
    BY <1>1 DEF Before
  <2>2. InTurn'
    BY <1>1 DEF InTurn, Before
  <2>3. OneOrder'
    BY <1>1 DEF OneOrder, InTurn, StoppedTwice, Waits, Before
  <2> QED BY <2>1, <2>2, <2>3
<1>4. InQueue'
  BY <1>1 DEF IInv, InQueue, InOrder
<1>5. ScanInv'
  BY <1>1, ScanKept DEF ScanStays, Handling, Queued
<1>6. StationInv'
  BY <1>1, StationKept DEF StationStays, Cutting, Queued
<1> QED BY <1>2, <1>3, <1>4, <1>5, <1>6 DEF IInv

\* The phone asks for a result, which is copied without the lock.
LEMMA ResultAskedStep ==
  ASSUME IInv, NEW index \in Places, ResultAsked(index)
  PROVE  IInv'
<1>1. /\ g_prov = "live" /\ http.pc = "idle" /\ stop = "none" /\ phone.doing = "nothing"
      /\ scan.sorted[index] # NULL /\ http' = [pc |-> "copy", record |-> scan.sorted[index]]
      /\ g_prov' = g_prov /\ lock' = lock /\ scan' = scan /\ sta' = sta /\ timer' = timer
      /\ driver' = driver /\ events' = events /\ handler' = handler /\ stop' = stop
      /\ phone' = phone /\ late' = late
  BY DEF ResultAsked, Serve, data
<1>2. Typed'
  <2>1. scan.sorted[index] \in Pointers
    BY <1>1, Known DEF IInv
  <2> QED BY <1>1, <2>1 DEF IInv, Typed, Requests
<1>3. StopInv'
  <2> USE DEF IInv, StopInv
  <2>1. Before'
    BY <1>1 DEF Before
  <2>2. InTurn'
    BY <1>1 DEF InTurn, Before
  <2>3. OneOrder'
    BY <1>1 DEF OneOrder, InTurn, StoppedTwice, Waits, Before
  <2> QED BY <2>1, <2>2, <2>3
<1>4. InQueue'
  BY <1>1 DEF IInv, InQueue, InOrder
<1>5. ScanInv'
  <2> USE DEF IInv, ScanInv
  <2>1. OnePlace'
    BY <1>1 DEF OnePlace, Queued, Handling
  <2>2. ToCome'
    BY SMTT(40), <1>1 DEF ToCome, Old, Queued
  <2>3. AllCurrent'
    BY <1>1 DEF AllCurrent, Current, Live
  <2> QED BY <2>1, <2>2, <2>3
<1>6. StationInv'
  BY <1>1, StationKept DEF StationStays, Cutting, Queued
<1> QED BY <1>2, <1>3, <1>4, <1>5, <1>6 DEF IInv

\* The phone has the station try a network, which the driver may refuse: nothing of the last
\* one is under way.
LEMMA ApplyStep ==
  ASSUME IInv, NEW network \in {"good", "wrong_password", "absent"}, Apply(network)
  PROVE  IInv'
<1>1. /\ g_prov = "live" /\ http.pc = "idle" /\ stop = "none" /\ phone.doing = "nothing"
      /\ \/ /\ driver' = [driver EXCEPT !.station = "connecting", !.network = network] /\ http' = [pc |-> "applied"]
            /\ phone' = [phone EXCEPT !.applies = phone.applies + 1, !.doing = "waits"]
         \/ /\ driver' = driver /\ http' = http
            /\ phone' = [phone EXCEPT !.applies = phone.applies + 1, !.doing = "waits_in_vain"]
      /\ g_prov' = g_prov /\ lock' = lock /\ scan' = scan /\ sta' = sta /\ timer' = timer
      /\ events' = events /\ handler' = handler /\ stop' = stop /\ late' = late
  BY DEF Apply, Serve, Connect, data
<1>a. /\ phone' \in Phones /\ phone'.doing \in {"waits", "waits_in_vain"}
      /\ http'.pc = "applied" => phone'.doing = "waits"
  <2> DEFINE n == phone.applies + 1
  <2>1. n \in Nat /\ phone \in Phones
    BY Known DEF IInv, Typed
  <2>2. PICK d \in {"waits", "waits_in_vain"} :
          /\ phone' = [phone EXCEPT !.applies = n, !.doing = d]
          /\ http'.pc = "applied" => d = "waits"
    BY <1>1
  <2> HIDE DEF n
  <2>3. phone' \in Phones
    BY <2>1, <2>2, PhoneFits
  <2>4. phone'.doing = d
    BY <2>1, <2>2 DEF Phones
  <2> QED BY <2>2, <2>3, <2>4
<1>b. /\ driver' \in Drivers /\ driver'.scanning = driver.scanning /\ driver'.why = driver.why
      /\ \/ driver'.station = "connecting" /\ driver'.network = network /\ http'.pc = "applied"
         \/ driver' = driver /\ http' = http
  <2>1. driver \in Drivers
    BY DEF IInv, Typed
  <2>2. CASE driver' = [driver EXCEPT !.station = "connecting", !.network = network] /\ http' = [pc |-> "applied"]
    <3>1. driver' \in Drivers
      BY <2>1, <2>2 DEF Drivers, Results
    <3>2. driver'.station = "connecting" /\ driver'.network = network
      BY <2>1, <2>2 DEF Drivers
    <3>3. driver'.scanning = driver.scanning /\ driver'.why = driver.why
      BY <2>1, <2>2 DEF Drivers
    <3> QED BY <2>2, <3>1, <3>2, <3>3
  <2> QED BY <1>1, <2>1, <2>2
<1>2. Typed'
  BY <1>1, <1>a, <1>b DEF IInv, Typed, Requests
<1>3. StopInv'
  <2> USE DEF IInv, StopInv
  <2>1. Before'
    BY <1>1, <1>a, <1>b DEF Before
  <2>2. InTurn'
    BY <1>1, <1>a, <1>b DEF InTurn
  <2>3. OneOrder'
    BY <1>1, <1>a, <1>b DEF OneOrder, StoppedTwice, Waits
  <2> QED BY <2>1, <2>2, <2>3
<1>4. InQueue'
  BY <1>1 DEF IInv, InQueue, InOrder
<1>5. ScanInv'
  BY <1>1, <1>b, ScanKept DEF ScanStays, Handling, Queued
<1>6. StationInv'
  <2>1. CASE driver' = driver /\ http' = http
    BY <1>1, <1>a, <2>1, StationKept DEF StationStays, Cutting, Queued
  <2>2. CASE driver'.station = "connecting" /\ driver'.network = network /\ http'.pc = "applied"
    <3>1. ~Queued("got_ip") /\ ~Queued("disconnected") /\ (Cutting => handler.why # "other")
      BY <1>1 DEF IInv, StationInv, Untouched, Orderly, IsIdle, Told, Taken, Noted, NoTidings
    <3> USE DEF Queued, Cutting
    <3>2. NotTwice'
      BY <1>1, <3>1 DEF NotTwice
    <3>3. Untouched' /\ IsConnected' /\ IsIdle' /\ Orderly'
      <4>1. driver'.network # "none"
        BY <2>2
      <4>2. Untouched'
        BY <4>1 DEF Untouched
      <4>3. IsConnected' /\ IsIdle'
        BY <2>2 DEF IsConnected, IsIdle
      <4>4. Orderly'
        BY <1>a, <2>2 DEF Orderly
      <4> QED BY <4>2, <4>3, <4>4
    <3>4. IsConnecting'
      BY <1>1, <2>2, <3>1 DEF IsConnecting
    <3> QED BY <3>2, <3>3, <3>4 DEF StationInv
  <2> QED BY <1>b, <2>1, <2>2
<1> QED BY <1>2, <1>3, <1>4, <1>5, <1>6 DEF IInv

\* The state is set back.
LEMMA AppliedStep ==
  ASSUME IInv, Applied
  PROVE  IInv'
<1>1. /\ http.pc = "applied" /\ http' = [pc |-> "idle"] /\ sta' = [sta EXCEPT !.state = "connecting"]
      /\ g_prov' = g_prov /\ lock' = lock /\ scan' = scan /\ timer' = timer
      /\ driver' = driver /\ events' = events /\ handler' = handler /\ stop' = stop
      /\ phone' = phone /\ late' = late
  BY DEF Applied
<1>a. sta'.state = "connecting"
  BY <1>1 DEF IInv, Typed, Stations
<1>2. Typed'
  BY <1>1 DEF IInv, Typed, Requests, Stations
<1>3. StopInv'
  <2> USE DEF IInv, StopInv
  <2>1. Before'
    BY <1>1, <1>a DEF Before
  <2>2. InTurn'
    BY <1>1, <1>a DEF InTurn
  <2>3. OneOrder'
    BY <1>1, <1>a DEF OneOrder, StoppedTwice, Waits
  <2> QED BY <2>1, <2>2, <2>3
<1>4. InQueue'
  BY <1>1 DEF IInv, InQueue, InOrder
<1>5. ScanInv'
  BY <1>1, ScanKept DEF ScanStays, Handling, Queued
<1>6. StationInv'
  <2> USE <1>1, <1>a DEF IInv, StationInv, Queued, Cutting
  <2>1. NotTwice' /\ Untouched' /\ Orderly'
    BY DEF NotTwice, Untouched, Orderly
  <2>2. IsConnected' /\ IsConnecting'
    BY DEF IsConnected, IsConnecting
  <2>3. IsIdle'
    BY DEF IsIdle, Told, Taken, Noted, NoTidings
  <2> QED BY <2>1, <2>2, <2>3
<1> QED BY <1>2, <1>3, <1>4, <1>5, <1>6 DEF IInv

\* The phone is told the state.  One that hears of a connection is gone, one that hears of a
\* failure may try another network: none is under way.
LEMMA StatusAskedStep ==
  ASSUME IInv, StatusAsked
  PROVE  IInv'
<1>1. /\ g_prov = "live" /\ http.pc = "idle" /\ stop \in {"none", "delay"} /\ Waits
      /\ \/ sta.state = "connected" /\ http' = [pc |-> "done"] /\ phone' = [phone EXCEPT !.doing = "gone"]
         \/ /\ sta.state = "disconnected" /\ http' = http
            /\ \/ driver.why = "other" /\ phone' = [phone EXCEPT !.doing = "gone"]
               \/ driver.why # "other" /\ phone' = [phone EXCEPT !.doing = "nothing"]
         \/ http' = http /\ phone' = phone
      /\ g_prov' = g_prov /\ lock' = lock /\ scan' = scan /\ sta' = sta /\ timer' = timer
      /\ driver' = driver /\ events' = events /\ handler' = handler /\ stop' = stop
      /\ late' = late
  BY DEF StatusAsked, Serve, data
<1>a. /\ phone' \in Phones
      /\ \/ sta.state = "connected" /\ http'.pc = "done" /\ phone'.doing = "gone"
         \/ http' = http /\ phone'.doing \in {"gone", phone.doing}
         \/ sta.state = "disconnected" /\ driver.why # "other" /\ http' = http /\ phone'.doing = "nothing"
  BY <1>1 DEF IInv, Typed, Phones
<1>2. Typed'
  BY <1>1, <1>a DEF IInv, Typed, Requests
<1>3. StopInv'
  <2> USE DEF IInv, StopInv
  <2>1. Before'
    BY <1>1, <1>a DEF Before, Waits
  <2>2. InTurn'
    BY <1>1, <1>a DEF InTurn
  <2>3. OneOrder'
    BY <1>1, <1>a DEF OneOrder, StoppedTwice, Waits
  <2> QED BY <2>1, <2>2, <2>3
<1>4. InQueue'
  BY <1>1 DEF IInv, InQueue, InOrder
<1>5. ScanInv'
  BY <1>1, <1>a, ScanKept DEF ScanStays, Handling, Queued
<1>6. StationInv'
  <2> USE <1>1 DEF Queued, Cutting, Waits
  <2>1. CASE phone'.doing \in {"gone", phone.doing}
    BY <1>a, <2>1, StationKept DEF StationStays
  <2>2. CASE sta.state = "disconnected" /\ driver.why # "other" /\ http' = http /\ phone'.doing = "nothing"
    <3> USE <2>2 DEF IInv, StationInv
    <3>1. NotTwice' /\ Untouched'
      BY DEF NotTwice, Untouched
    <3>2. IsConnected' /\ IsConnecting'
      BY DEF IsConnected, IsConnecting
    <3>3. IsIdle'
      BY DEF IsIdle, Told, Taken, Noted, NoTidings
    <3>4. driver.network # "none" => driver.station = "idle" /\ ~Queued("disconnected")
      BY Known DEF IsConnected, IsConnecting, IsIdle, Told, Taken, Noted, NoTidings
    <3>5. Orderly'
      BY <3>4 DEF Orderly
    <3> QED BY <3>1, <3>2, <3>3, <3>5
  <2> QED BY <1>a, <2>1, <2>2
<1> QED BY <1>2, <1>3, <1>4, <1>5, <1>6 DEF IInv

\* The phone is done: the stop is ordered and the timer stopped.
LEMMA ProvDoneStep ==
  ASSUME IInv, ProvDone
  PROVE  IInv'
<1>1. /\ http.pc = "done" /\ http' = [pc |-> "idle"] /\ stop' = Ordered
      /\ timer' = IF timer = "armed" THEN "idle" ELSE timer
      /\ g_prov' = g_prov /\ lock' = lock /\ scan' = scan /\ sta' = sta
      /\ driver' = driver /\ events' = events /\ handler' = handler /\ phone' = phone
      /\ late' = late
  BY DEF ProvDone, data
<1>2. Typed'
  BY <1>1 DEF IInv, Typed, Requests, Ordered
<1>3. StopInv'
  <2> USE DEF IInv, StopInv, Typed
  <2>1. Before'
    BY <1>1 DEF Before
  <2>2. InTurn'
    BY <1>1 DEF InTurn, Ordered
  <2>3. OneOrder'
    BY <1>1 DEF OneOrder, InTurn, StoppedTwice, Waits, Ordered
  <2> QED BY <2>1, <2>2, <2>3
<1>4. InQueue'
  BY <1>1 DEF IInv, InQueue, InOrder
<1>5. ScanInv'
  BY <1>1, ScanKept DEF ScanStays, Handling, Queued
<1>6. StationInv'
  BY <1>1, StationKept DEF StationStays, Cutting, Queued
<1> QED BY <1>2, <1>3, <1>4, <1>5, <1>6 DEF IInv

\* The phone leaves.
LEMMA LeaveStep ==
  ASSUME IInv, Leave
  PROVE  IInv'
<1>1. /\ phone.doing \notin {"absent", "gone"} /\ phone' = [phone EXCEPT !.doing = "gone"]
      /\ g_prov' = g_prov /\ lock' = lock /\ scan' = scan /\ sta' = sta /\ timer' = timer
      /\ driver' = driver /\ events' = events /\ http' = http /\ handler' = handler
      /\ stop' = stop /\ late' = late
  BY DEF Leave, data, tasks
<1>a. phone' \in Phones /\ phone'.doing = "gone"
  BY <1>1 DEF IInv, Typed, Phones
<1>2. Typed'
  BY <1>1, <1>a DEF IInv, Typed
<1>3. StopInv'
  <2> USE DEF IInv, StopInv
  <2>1. Before'
    BY <1>1, <1>a DEF Before
  <2>2. InTurn'
    BY <1>1, <1>a DEF InTurn
  <2>3. OneOrder'
    BY <1>1, <1>a DEF OneOrder, StoppedTwice, Waits
  <2> QED BY <2>1, <2>2, <2>3
<1>4. InQueue'
  BY <1>1 DEF IInv, InQueue, InOrder
<1>5. ScanInv'
  BY <1>1, ScanKept DEF ScanStays, Handling, Queued
<1>6. StationInv'
  BY <1>1, <1>a, StationKept DEF StationStays, Cutting, Queued
<1> QED BY <1>2, <1>3, <1>4, <1>5, <1>6 DEF IInv

\* The timer orders the stop.
LEMMA TimerFiresStep ==
  ASSUME IInv, TimerFires
  PROVE  IInv'
<1>1. /\ timer = "armed" /\ ~(Waits /\ sta.state = "connected") /\ http.pc # "done"
      /\ timer' = "idle" /\ stop' = Ordered
      /\ g_prov' = g_prov /\ lock' = lock /\ scan' = scan /\ sta' = sta
      /\ driver' = driver /\ events' = events /\ http' = http /\ handler' = handler
      /\ phone' = phone /\ late' = late
  BY DEF TimerFires, data
<1>2. Typed'
  BY <1>1 DEF IInv, Typed, Ordered
<1>3. StopInv'
  <2> USE DEF IInv, StopInv, Typed
  <2>1. Before'
    BY <1>1 DEF Before
  <2>2. InTurn'
    BY <1>1 DEF InTurn, OneOrder, Ordered
  <2>3. OneOrder'
    BY <1>1 DEF OneOrder, InTurn, StoppedTwice, Waits, Ordered
  <2> QED BY <2>1, <2>2, <2>3
<1>4. InQueue'
  BY <1>1 DEF IInv, InQueue, InOrder
<1>5. ScanInv'
  BY <1>1, ScanKept DEF ScanStays, Handling, Queued
<1>6. StationInv'
  BY <1>1, StationKept DEF StationStays, Cutting, Queued
<1> QED BY <1>2, <1>3, <1>4, <1>5, <1>6 DEF IInv

\* The stop task has waited for the HTTP server's thread.
LEMMA StopServiceStep ==
  ASSUME IInv, StopService
  PROVE  IInv'
<1>1. /\ stop = "delay" /\ g_prov = "live" /\ http.pc = "idle" /\ stop' = "timer"
      /\ g_prov' = g_prov /\ lock' = lock /\ scan' = scan /\ sta' = sta /\ timer' = timer
      /\ driver' = driver /\ events' = events /\ http' = http /\ handler' = handler
      /\ phone' = phone /\ late' = late
  BY DEF StopService, data
<1>2. Typed'
  BY <1>1 DEF IInv, Typed
<1>3. StopInv'
  <2> USE DEF IInv, StopInv
  <2>1. Before'
    BY <1>1 DEF Before
  <2>2. InTurn'
    BY <1>1 DEF InTurn, Before
  <2>3. OneOrder'
    BY <1>1 DEF OneOrder, InTurn, StoppedTwice, Waits, Before
  <2> QED BY <2>1, <2>2, <2>3
<1>4. InQueue'
  BY <1>1 DEF IInv, InQueue, InOrder
<1>5. ScanInv'
  BY <1>1, ScanKept DEF ScanStays, Handling, Queued
<1>6. StationInv'
  BY <1>1, StationKept DEF StationStays, Cutting, Queued
<1> QED BY <1>2, <1>3, <1>4, <1>5, <1>6 DEF IInv

\* The timer is deleted, if it is not armed.
LEMMA StopTimerStep ==
  ASSUME IInv, StopTimer
  PROVE  IInv'
<1>1. /\ stop = "timer" /\ stop' = "free" /\ timer' = IF timer = "armed" THEN "armed" ELSE "none"
      /\ g_prov' = g_prov /\ lock' = lock /\ scan' = scan /\ sta' = sta
      /\ driver' = driver /\ events' = events /\ http' = http /\ handler' = handler
      /\ phone' = phone /\ late' = late
  BY DEF StopTimer, data
<1>2. Typed'
  BY <1>1 DEF IInv, Typed
<1>3. StopInv'
  <2> USE DEF IInv, StopInv
  <2>1. Before'
    BY <1>1 DEF Before
  <2>2. InTurn'
    BY <1>1 DEF InTurn, Before
  <2>3. OneOrder'
    BY <1>1 DEF OneOrder, InTurn, StoppedTwice, Waits, Before
  <2> QED BY <2>1, <2>2, <2>3
<1>4. InQueue'
  BY <1>1 DEF IInv, InQueue, InOrder
<1>5. ScanInv'
  BY <1>1, ScanKept DEF ScanStays, Handling, Queued
<1>6. StationInv'
  BY <1>1, StationKept DEF StationStays, Cutting, Queued
<1> QED BY <1>2, <1>3, <1>4, <1>5, <1>6 DEF IInv

\* The lists and g_prov are freed.
LEMMA StopFreeStep ==
  ASSUME IInv, StopFree
  PROVE  IInv'
<1>1. /\ stop = "free" /\ stop' = "clear" /\ g_prov' = "freed"
      /\ handler' = IF handler.pc = "idle" THEN handler ELSE [pc |-> "freed"]
      /\ lock' = lock /\ scan' = scan /\ sta' = sta /\ timer' = timer /\ driver' = driver
      /\ events' = events /\ http' = http /\ phone' = phone /\ late' = late
  BY DEF StopFree, data
<1>2. Typed'
  BY <1>1 DEF IInv, Typed, Handlers
<1>3. StopInv'
  <2> USE DEF IInv, StopInv
  <2>1. Before'
    BY <1>1 DEF Before
  <2>2. InTurn'
    BY <1>1 DEF InTurn, Before
  <2>3. OneOrder'
    BY <1>1 DEF OneOrder, InTurn, StoppedTwice, Waits, Before
  <2> QED BY <2>1, <2>2, <2>3
<1>4. InQueue'
  BY <1>1 DEF IInv, InQueue, InOrder
<1>5. ScanInv'
  BY <1>1 DEF ScanInv, OnePlace, ToCome, AllCurrent
<1>6. StationInv'
  <2>1. driver.network = "none" => driver.station = "idle"
    BY DEF IInv, StationInv, Untouched
  <2> QED BY <1>1, <2>1 DEF StationInv, NotTwice, Untouched, IsConnected, IsConnecting, IsIdle, Orderly
<1> QED BY <1>2, <1>3, <1>4, <1>5, <1>6 DEF IInv

\* The pointer is cleared.
LEMMA StopClearStep ==
  ASSUME IInv, StopClear
  PROVE  IInv'
<1>1. /\ stop = "clear" /\ stop' = "none" /\ g_prov' = "null" /\ scan' = NewScan
      /\ lock' = lock /\ sta' = sta /\ timer' = timer /\ driver' = driver
      /\ events' = events /\ http' = http /\ handler' = handler /\ phone' = phone
      /\ late' = late
  BY DEF StopClear
<1>2. Typed'
  <2>1. scan' \in Scans
    BY <1>1, Channel0 DEF Scans, NewScan
  <2> QED BY <1>1, <2>1 DEF IInv, Typed
<1>3. StopInv'
  <2> USE DEF IInv, StopInv
  <2>1. Before'
    BY <1>1 DEF Before
  <2>2. InTurn'
    BY <1>1 DEF InTurn, Before
  <2>3. OneOrder'
    BY <1>1 DEF OneOrder, InTurn, StoppedTwice, Waits, Before
  <2> QED BY <2>1, <2>2, <2>3
<1>4. InQueue'
  BY <1>1 DEF IInv, InQueue, InOrder
<1>5. ScanInv'
  BY <1>1 DEF ScanInv, OnePlace, ToCome, AllCurrent
<1>6. StationInv'
  <2>1. driver.network = "none" => driver.station = "idle"
    BY DEF IInv, StationInv, Untouched
  <2> QED BY <1>1, <2>1 DEF StationInv, NotTwice, Untouched, IsConnected, IsConnecting, IsIdle, Orderly
<1> QED BY <1>2, <1>3, <1>4, <1>5, <1>6 DEF IInv

\* A scan is done: that goes from the driver into the queue.
LEMMA ScanDoneStep ==
  ASSUME Prompt, IInv, ScanDone
  PROVE  IInv'
<1>1. /\ driver.scanning /\ http.pc # "started" /\ events' = Append(events, [id |-> "scan_done"])
      /\ \E found \in Found : driver' = [driver EXCEPT !.scanning = FALSE, !.found = found]
      /\ g_prov' = g_prov /\ lock' = lock /\ scan' = scan /\ sta' = sta /\ timer' = timer
      /\ http' = http /\ handler' = handler /\ stop' = stop /\ phone' = phone
      /\ late' = late
  BY DEF ScanDone, DriverEnv, data, tasks
<1>a. /\ driver' \in Drivers /\ ~driver'.scanning
      /\ driver'.station = driver.station /\ driver'.network = driver.network /\ driver'.why = driver.why
  <2>1. PICK found \in Found : driver' = [driver EXCEPT !.scanning = FALSE, !.found = found]
    BY <1>1
  <2>2. driver' \in Drivers
    BY <2>1 DEF IInv, Typed, Drivers
  <2> QED BY <2>1, <2>2 DEF IInv, Typed, Drivers
<1>b. /\ events' \in Seq(Events)
      /\ \A id : Queued(id)' <=> Queued(id) \/ id = "scan_done"
      /\ \A k \in DOMAIN events' : events'[k].id # "scan_done" => \E l \in DOMAIN events : events[l] = events'[k]
  <2> DEFINE e == [id |-> "scan_done"]
  <2>1. e \in Events /\ e.id = "scan_done" /\ events' = Append(events, e) /\ events \in Seq(Events)
    BY <1>1 DEF Events, IInv, Typed
  <2> HIDE DEF e
  <2> QED BY <2>1, Appended
<1>c. g_prov' = "live" => ~Queued("scan_done") /\ ~Handling
  BY <1>1 DEF IInv, ScanInv, OnePlace
<1>2. Typed'
  BY <1>1, <1>a, <1>b DEF IInv, Typed
<1>3. StopInv'
  <2> USE DEF IInv, StopInv
  <2>1. Before'
    BY <1>1 DEF Before
  <2>2. InTurn'
    BY <1>1 DEF InTurn
  <2>3. OneOrder'
    BY <1>1 DEF OneOrder, StoppedTwice, Waits
  <2> QED BY <2>1, <2>2, <2>3
<1>4. InQueue'
  <2>1. [id |-> "scan_done"] \in Events /\ [id |-> "scan_done"].id = "scan_done"
    BY DEF Events
  <2>2. g_prov' = "live" => InOrder /\ ~Queued("scan_done")
    BY <1>1, <1>c DEF IInv, InQueue
  <2> QED BY <1>1, <2>1, <2>2, AppendedInOrder DEF IInv, Typed, InQueue
<1>5. ScanInv'
  <2> USE <1>1, <1>a, <1>b, <1>c DEF IInv, ScanInv, Handling
  <2>1. OnePlace'
    BY DEF OnePlace
  <2>2. ToCome'
    BY SMTT(40) DEF ToCome, Old
  <2>3. AllCurrent'
    BY DEF AllCurrent, Current, Live
  <2> QED BY <2>1, <2>2, <2>3
<1>6. StationInv'
  BY <1>1, <1>a, <1>b, StationKept DEF StationStays, Cutting
<1> QED BY <1>2, <1>3, <1>4, <1>5, <1>6 DEF IInv

\* The station is lost.
LEMMA LossStep ==
  ASSUME Prompt, IInv, Loss
  PROVE  IInv'
<1>1. /\ driver.station # "idle" /\ (driver.station = "connecting" => http.pc # "applied") /\ handler.pc = "idle"
      /\ driver' = Disconnected(driver, "other")
      /\ events' = Append(events, [id |-> "disconnected", why |-> "other"])
      /\ phone' = [phone EXCEPT !.losses = phone.losses + 1]
      /\ g_prov' = g_prov /\ lock' = lock /\ scan' = scan /\ sta' = sta /\ timer' = timer
      /\ http' = http /\ handler' = handler /\ stop' = stop /\ late' = late
  BY DEF Loss, DriverEnv, data, tasks
<1>a. phone' \in Phones /\ phone'.doing = phone.doing
  <2>1. phone.losses + 1 \in Nat /\ phone \in Phones
    BY Known DEF IInv, Typed
  <2> QED BY <1>1, <2>1 DEF Phones
<1>b. driver' \in Drivers /\ events' \in Seq(Events) /\ InQueue' /\ ScanInv' /\ StationInv'
  <2>1. "other" \in Whys
    BY DEF Whys
  <2> QED BY <1>1, <1>a, <2>1, GoesIdle
<1>2. Typed'
  BY <1>1, <1>a, <1>b DEF IInv, Typed
<1>3. StopInv'
  <2> USE DEF IInv, StopInv
  <2>1. Before'
    BY <1>1, <1>a DEF Before
  <2>2. InTurn'
    BY <1>1, <1>a DEF InTurn
  <2>3. OneOrder'
    BY <1>1, <1>a DEF OneOrder, StoppedTwice, Waits
  <2> QED BY <2>1, <2>2, <2>3
<1>4. InQueue'
  BY <1>b
<1>5. ScanInv'
  BY <1>b
<1>6. StationInv'
  BY <1>b
<1> QED BY <1>2, <1>3, <1>4, <1>5, <1>6 DEF IInv

\* An attempt ends, in a connection or not.
LEMMA AttemptStep ==
  ASSUME Prompt, IInv, Attempt
  PROVE  IInv'
<1>1. /\ driver.station = "connecting" /\ http.pc # "applied" /\ handler.pc = "idle"
      /\ \/ /\ driver.network = "good" /\ driver' = [driver EXCEPT !.station = "connected", !.why = "none"]
            /\ events' = Append(events, [id |-> "got_ip"])
         \/ /\ driver.network # "good" /\ driver' = Disconnected(driver, driver.network)
            /\ events' = Append(events, [id |-> "disconnected", why |-> driver.network])
      /\ g_prov' = g_prov /\ lock' = lock /\ scan' = scan /\ sta' = sta /\ timer' = timer
      /\ http' = http /\ handler' = handler /\ stop' = stop /\ phone' = phone
      /\ late' = late
  BY DEF Attempt, DriverEnv, data, tasks
<1>a. driver' \in Drivers /\ events' \in Seq(Events) /\ InQueue' /\ ScanInv' /\ StationInv'
  <2>1. CASE driver.network # "good"
    <3>1. driver.network \in Whys
      BY <1>1, <2>1 DEF IInv, Typed, Drivers, Results, Whys, StationInv, Untouched
    <3> QED BY <1>1, <2>1, <3>1, GoesIdle
  <2>2. CASE driver.network = "good"
    <3> DEFINE e == [id |-> "got_ip"]
    <3>1. e \in Events /\ e.id = "got_ip" /\ events' = Append(events, e) /\ events \in Seq(Events)
      BY <1>1, <2>2 DEF Events, IInv, Typed
    <3> HIDE DEF e
    <3>2. /\ events' \in Seq(Events)
          /\ \A id : Queued(id)' <=> Queued(id) \/ id = "got_ip"
      BY <3>1, Appended
    <3>3. /\ driver' \in Drivers /\ driver'.scanning = driver.scanning /\ driver'.network = "good"
          /\ driver'.station = "connected" /\ driver'.why = "none"
      <4>1. driver \in Drivers
        BY DEF IInv, Typed
      <4>2. driver' \in Drivers
        BY <1>1, <2>2, <4>1 DEF Drivers
      <4>3. driver'.station = "connected" /\ driver'.why = "none"
        BY <1>1, <2>2, <4>1 DEF Drivers
      <4>4. driver'.scanning = driver.scanning /\ driver'.network = "good"
        BY <1>1, <2>2, <4>1 DEF Drivers
      <4> QED BY <4>2, <4>3, <4>4
    <3>4. g_prov = "live" => /\ ~Queued("disconnected") /\ ~Queued("got_ip")
                             /\ sta.state = "connecting" /\ phone.doing \notin {"nothing", "waits_in_vain"}
      BY <1>1, <2>2 DEF IInv, StationInv, IsConnecting, Orderly
    <3>5. InQueue'
      <4> SUFFICES ASSUME g_prov = "live" PROVE InOrder'
        BY <1>1 DEF InQueue
      <4> QED BY <3>1, <3>4, AppendedInOrder DEF IInv, InQueue
    <3>6. ScanInv'
      BY <1>1, <3>2, <3>3, ScanKept DEF ScanStays, Handling
    <3>7. StationInv'
      <4> USE <1>1, <3>2, <3>3, <3>4 DEF Cutting
      <4>1. NotTwice' /\ Untouched' /\ IsConnecting' /\ IsIdle'
        BY DEF NotTwice, Untouched, IsConnecting, IsIdle
      <4>2. IsConnected' /\ Orderly'
        BY DEF IsConnected, Orderly
      <4> QED BY <4>1, <4>2 DEF StationInv
    <3> QED BY <3>2, <3>3, <3>5, <3>6, <3>7
  <2> QED BY <2>1, <2>2
<1>2. Typed'
  BY <1>1, <1>a DEF IInv, Typed
<1>3. StopInv'
  <2> USE DEF IInv, StopInv
  <2>1. Before'
    BY <1>1 DEF Before
  <2>2. InTurn'
    BY <1>1 DEF InTurn
  <2>3. OneOrder'
    BY <1>1 DEF OneOrder, StoppedTwice, Waits
  <2> QED BY <2>1, <2>2, <2>3
<1>4. InQueue'
  BY <1>a
<1>5. ScanInv'
  BY <1>a
<1>6. StationInv'
  BY <1>a
<1> QED BY <1>2, <1>3, <1>4, <1>5, <1>6 DEF IInv

\* The timer is armed.
LEMMA ArmStep ==
  ASSUME IInv, Arm
  PROVE  IInv'
<1>1. /\ handler.pc = "arm" /\ handler' = [pc |-> "idle"] /\ late' = (late \/ stop # "none")
      /\ timer' = IF timer = "none" THEN "none" ELSE "armed"
      /\ g_prov' = g_prov /\ lock' = lock /\ scan' = scan /\ sta' = sta
      /\ driver' = driver /\ events' = events /\ http' = http /\ stop' = stop
      /\ phone' = phone
  BY DEF Arm, HandlerEnv, data
<1>2. Typed'
  BY <1>1 DEF IInv, Typed, Handlers
<1>3. StopInv'
  <2> USE DEF IInv, StopInv, Typed
  <2>1. Before'
    BY <1>1 DEF Before
  <2>2. InTurn'
    BY <1>1 DEF InTurn
  <2>3. g_prov = "live"
    BY <1>1 DEF InTurn
  <2>4. OneOrder'
    BY <1>1, <2>3 DEF OneOrder, StoppedTwice, Waits
  <2> QED BY <2>1, <2>2, <2>4
<1>4. InQueue'
  BY <1>1 DEF IInv, InQueue, InOrder
<1>5. ScanInv'
  BY <1>1, ScanKept DEF ScanStays, Handling, Queued
<1>6. StationInv'
  BY <1>1, StationKept DEF StationStays, Cutting, Queued
<1> QED BY <1>2, <1>3, <1>4, <1>5, <1>6 DEF IInv

\* The station is cut off, which is told once more if it was not idle.
LEMMA DisconnectStep ==
  ASSUME IInv, Disconnect
  PROVE  IInv'
<1>1. /\ handler.pc = "disconnect" /\ handler' = [handler EXCEPT !.pc = "reason"]
      /\ \/ driver.station = "idle" /\ driver' = driver /\ events' = events
         \/ /\ driver.station # "idle" /\ driver' = Disconnected(driver, "other")
            /\ events' = Append(events, [id |-> "disconnected", why |-> "other"])
      /\ g_prov' = g_prov /\ lock' = lock /\ scan' = scan /\ sta' = sta /\ timer' = timer
      /\ http' = http /\ stop' = stop /\ phone' = phone /\ late' = late
  BY DEF Disconnect, HandlerEnv, data
<1>a. handler' \in Handlers /\ handler'.pc = "reason" /\ handler'.why = handler.why
  <2>1. handler \in Handlers
    BY DEF IInv, Typed
  <2>2. handler \in [pc : {"disconnect", "reason"}, why : Whys]
    BY <1>1, <2>1 DEF Handlers
  <2>3. handler' \in [pc : {"disconnect", "reason"}, why : Whys] /\ handler'.pc = "reason" /\ handler'.why = handler.why
    BY <1>1, <2>2
  <2> QED BY <2>3 DEF Handlers
<1>b. g_prov = "live"
  BY <1>1 DEF IInv, StopInv, InTurn
<1>c. driver' \in Drivers /\ events' \in Seq(Events) /\ InQueue' /\ ScanInv' /\ StationInv'
  <2>1. CASE driver.station # "idle"
    <3>1. "other" \in Whys
      BY DEF Whys
    <3> QED BY <1>1, <1>a, <2>1, <3>1, GoesIdle
  <2>2. CASE driver.station = "idle" /\ driver' = driver /\ events' = events
    <3> USE <1>1, <1>a, <1>b, <2>2 DEF IInv, StationInv
    <3>1. driver' \in Drivers /\ events' \in Seq(Events)
      BY DEF Typed
    <3>2. InQueue'
      BY DEF InQueue, InOrder
    <3>3. ScanInv'
      BY ScanKept DEF ScanStays, Handling, Queued
    <3>4. NotTwice' /\ Untouched' /\ Orderly'
      BY DEF NotTwice, Untouched, Orderly, Queued, Cutting
    <3>5. IsConnected' /\ IsConnecting'
      BY DEF IsConnected, IsConnecting
    <3>6. IsIdle'
      BY DEF IsIdle, Told, Taken, Noted, NoTidings, Queued, Cutting
    <3> QED BY <3>1, <3>2, <3>3, <3>4, <3>5, <3>6
  <2> QED BY <1>1, <2>1, <2>2
<1>2. Typed'
  BY <1>1, <1>a, <1>c DEF IInv, Typed
<1>3. StopInv'
  <2> USE DEF IInv, StopInv
  <2>1. Before'
    BY <1>1, <1>a, <1>b DEF Before
  <2>2. InTurn'
    BY <1>1, <1>a, <1>b DEF InTurn
  <2>3. OneOrder'
    BY <1>1, <1>a, <1>b DEF OneOrder, StoppedTwice, Waits
  <2> QED BY <2>1, <2>2, <2>3
<1>4. InQueue'
  BY <1>c
<1>5. ScanInv'
  BY <1>c
<1>6. StationInv'
  BY <1>c
<1> QED BY <1>2, <1>3, <1>4, <1>5, <1>6 DEF IInv

\* The reason is noted, or a station that is idle connects again.
LEMMA ReasonStep ==
  ASSUME IInv, Reason
  PROVE  IInv'
<1>1. /\ handler.pc = "reason" /\ handler' = [pc |-> "idle"]
      /\ \/ handler.why # "other" /\ sta' = [sta EXCEPT !.reason = handler.why] /\ driver' = driver
         \/ /\ handler.why = "other" /\ sta' = [sta EXCEPT !.state = "connecting"]
            /\ driver' = [driver EXCEPT !.station = "connecting", !.network = driver.network]
      /\ g_prov' = g_prov /\ lock' = lock /\ scan' = scan /\ timer' = timer
      /\ events' = events /\ http' = http /\ stop' = stop /\ phone' = phone
      /\ late' = late
  BY DEF Reason, HandlerEnv, data, Connect
<1>a. g_prov = "live" /\ handler.why \in Whys
  BY <1>1, Known DEF IInv, StopInv, InTurn
<1>b. /\ sta' \in Stations
      /\ handler.why # "other" => sta'.state = sta.state /\ sta'.reason = handler.why
      /\ handler.why = "other" => sta'.state = "connecting"
  <2>1. sta \in Stations
    BY DEF IInv, Typed
  <2> QED BY <1>1, <1>a, <2>1 DEF Stations, Whys, Results
<1>c. /\ driver' \in Drivers /\ driver'.scanning = driver.scanning
      /\ driver'.network = driver.network /\ driver'.why = driver.why
      /\ handler.why # "other" => driver' = driver
      /\ handler.why = "other" => driver'.station = "connecting"
  <2>1. driver \in Drivers
    BY DEF IInv, Typed
  <2>2. CASE handler.why = "other"
    <3>1. driver' = [driver EXCEPT !.station = "connecting", !.network = driver.network]
      BY <1>1, <2>2
    <3>2. driver' \in Drivers
      BY <2>1, <3>1 DEF Drivers
    <3>3. driver'.scanning = driver.scanning /\ driver'.station = "connecting"
      BY <2>1, <3>1 DEF Drivers
    <3>4. driver'.network = driver.network /\ driver'.why = driver.why
      BY <2>1, <3>1 DEF Drivers
    <3> QED BY <2>2, <3>2, <3>3, <3>4
  <2> QED BY <1>1, <2>1, <2>2
<1>2. Typed'
  BY <1>1, <1>b, <1>c DEF IInv, Typed, Handlers
<1>3. StopInv'
  <2> USE DEF IInv, StopInv
  <2>1. Before'
    BY <1>1, <1>a, <1>b, <1>c DEF Before
  <2>2. InTurn'
    BY <1>1, <1>a, <1>b, <1>c DEF InTurn
  <2>3. OneOrder'
    BY <1>1, <1>a, <1>b, <1>c DEF OneOrder, StoppedTwice, Waits
  <2> QED BY <2>1, <2>2, <2>3
<1>4. InQueue'
  BY <1>1 DEF IInv, InQueue, InOrder
<1>5. ScanInv'
  BY <1>1, <1>c, ScanKept DEF ScanStays, Handling, Queued
<1>6. StationInv'
  <2> USE <1>1, <1>a, <1>b, <1>c DEF IInv, StationInv, Queued, Cutting
  <2>1. NotTwice' /\ Untouched'
    BY DEF NotTwice, Untouched
  <2>2. driver.station # "connected" /\ driver.network # "none"
    BY DEF IsConnected, Untouched
  <2>3. CASE handler.why # "other"
    <3>1. IsConnected' /\ IsConnecting' /\ Orderly'
      BY <2>2, <2>3 DEF IsConnected, IsConnecting, Orderly
    <3>2. IsIdle'
      BY <2>3 DEF IsIdle, Told, Taken, Noted, NoTidings, Whys, Results
    <3> QED BY <2>1, <3>1, <3>2
  <2>4. CASE handler.why = "other"
    <3>1. driver.station = "idle"
      BY <2>2, <2>4, Known DEF IsConnecting
    <3>2. Taken
      BY <2>2, <2>4, <3>1 DEF IsIdle, Told, Noted
    <3>3. IsConnected' /\ IsIdle'
      BY <2>4 DEF IsConnected, IsIdle
    <3>4. IsConnecting'
      BY <2>2, <2>4, <3>2 DEF IsConnecting, Taken, NoTidings
    <3>5. Orderly'
      BY <2>2, <2>4, <3>2 DEF Orderly, Taken
    <3> QED BY <2>1, <3>3, <3>4, <3>5
  <2> QED BY <2>3, <2>4
<1> QED BY <1>2, <1>3, <1>4, <1>5, <1>6 DEF IInv

\* The results are counted.
LEMMA CountStep ==
  ASSUME IInv, Count
  PROVE  IInv'
<1>1. /\ handler.pc = "count"
      /\ \/ lock' = "event" /\ handler' = [pc |-> "records"]
         \/ \E ok \in BOOLEAN : handler' = [pc |-> "next", ok |-> ok] /\ lock' = lock
      /\ g_prov' = g_prov /\ scan' = scan /\ sta' = sta /\ timer' = timer
      /\ driver' = driver /\ events' = events /\ http' = http /\ stop' = stop
      /\ phone' = phone /\ late' = late
  BY DEF Count, HandlerEnv, data
<1>a. handler' \in Handlers /\ handler'.pc \in {"records", "next"}
  <2>1. ASSUME NEW ok \in BOOLEAN, handler' = [pc |-> "next", ok |-> ok]
        PROVE  handler' \in [pc : {"next"}, ok : BOOLEAN] /\ handler'.pc = "next"
    BY <2>1
  <2> QED BY <1>1, <2>1 DEF Handlers
<1>b. g_prov = "live"
  BY <1>1 DEF IInv, StopInv, InTurn
<1>2. Typed'
  BY <1>1, <1>a DEF IInv, Typed
<1>3. StopInv'
  <2> USE DEF IInv, StopInv
  <2>1. Before'
    BY <1>1, <1>a, <1>b DEF Before
  <2>2. InTurn'
    BY <1>1, <1>a, <1>b DEF InTurn
  <2>3. OneOrder'
    BY <1>1, <1>a, <1>b DEF OneOrder, StoppedTwice, Waits
  <2> QED BY <2>1, <2>2, <2>3
<1>4. InQueue'
  BY <1>1 DEF IInv, InQueue, InOrder
<1>5. ScanInv'
  <2> USE <1>1, <1>a, <1>b DEF IInv, ScanInv, Handling, Queued
  <2>1. OnePlace'
    BY DEF OnePlace
  <2>2. ASSUME NEW c \in Channels, c > scan.curr_channel PROVE c >= scan.curr_channel
    BY <2>2, Known, Channel0
  <2>3. ToCome'
    BY SMTT(40), <2>2 DEF ToCome, Old
  <2>4. AllCurrent'
    BY DEF AllCurrent, Current, Live
  <2> QED BY <2>1, <2>3, <2>4
<1>6. StationInv'
  BY <1>1, <1>a, StationKept DEF StationStays, Cutting, Queued
<1> QED BY <1>2, <1>3, <1>4, <1>5, <1>6 DEF IInv

\* The records are sorted in: the channel had no list, so what was listed lies in other lists.
LEMMA RecordsStep ==
  ASSUME IInv, Records
  PROVE  IInv'
<1>1. /\ handler.pc = "records"
      /\ \/ /\ scan' = [scan EXCEPT !.ap_list[scan.curr_channel] = [id |-> scan.runs, rssi |-> driver.found],
                                  !.sorted = Sorted([id |-> scan.runs, rssi |-> driver.found], scan.curr_channel)]
            /\ handler' = [pc |-> "next", ok |-> TRUE]
         \/ scan' = scan /\ handler' = [pc |-> "next", ok |-> FALSE]
      /\ g_prov' = g_prov /\ lock' = lock /\ sta' = sta /\ timer' = timer
      /\ driver' = driver /\ events' = events /\ http' = http /\ stop' = stop
      /\ phone' = phone /\ late' = late
  BY DEF Records, HandlerEnv, data
<1> DEFINE list == [id |-> scan.runs, rssi |-> driver.found]
           channel == scan.curr_channel
<1>a. handler' \in Handlers /\ handler'.pc = "next"
  <2>1. ASSUME NEW ok \in BOOLEAN, handler' = [pc |-> "next", ok |-> ok]
        PROVE  handler' \in [pc : {"next"}, ok : BOOLEAN] /\ handler'.pc = "next"
    BY <2>1
  <2>2. \E ok \in BOOLEAN : handler' = [pc |-> "next", ok |-> ok]
    BY <1>1
  <2> QED BY <2>1, <2>2 DEF Handlers
<1>b. /\ g_prov = "live" /\ channel \in Channels /\ scan.ap_list[channel] = NULL
      /\ http.pc # "started"
  <2>1. g_prov = "live"
    BY <1>1 DEF IInv, StopInv, InTurn
  <2> QED BY <1>1, <2>1, Known DEF IInv, ScanInv, OnePlace, ToCome, Handling
<1>c. /\ list \in Lists /\ list # NULL /\ list.id = scan.runs /\ list.rssi \in Seq(Nat)
      /\ Len(list.rssi) \in Nat /\ DOMAIN list.rssi = 1..Len(list.rssi)
  <2>1. driver.found \in Seq(Nat) /\ scan.runs \in Nat
    <3>1. driver.found \in Found \cup {<<>>} /\ scan.runs \in Nat
      BY Known DEF IInv
    <3>2. \A f \in Found : f \in Seq(Nat)
      BY ProvAssumption
    <3>3. <<>> \in Seq(Nat)
      OBVIOUS
    <3> QED BY <3>1, <3>2, <3>3
  <2> QED BY <2>1, ListNotNull DEF Lists
<1> HIDE DEF list
<1>d. /\ scan' \in Scans /\ scan'.scanning = scan.scanning /\ scan'.runs = scan.runs
      /\ scan'.curr_channel = channel
      /\ \/ /\ scan'.ap_list = [scan.ap_list EXCEPT ![channel] = list]
            /\ scan'.sorted = Sorted(list, channel)
         \/ scan' = scan
  <2>1. scan \in Scans
    BY DEF IInv, Typed
  <2>2. CASE scan' = scan
    BY <2>1, <2>2
  <2>3. CASE scan' = [scan EXCEPT !.ap_list[channel] = list, !.sorted = Sorted(list, channel)]
    <3>1. ASSUME NEW place \in Places PROVE Sorted(list, channel)[place] \in Pointers \cup {NULL}
      <4>1. ASSUME NEW i \in 1..Len(list.rssi) PROVE Pointer(channel, list, i) \in Pointers
        BY <1>b, <1>c DEF Pointer, Pointers, Lists
      <4>2. \A k \in Places : scan.sorted[k] \in Pointers \cup {NULL}
        BY Known DEF IInv
      <4> QED BY <1>c, <4>1, <4>2, SortedFrom DEF IInv
    <3>2. Sorted(list, channel) \in [Places -> Pointers \cup {NULL}]
      <4>1. Sorted(list, channel) = [place \in Places |-> Sorted(list, channel)[place]]
        BY DEF Sorted
      <4> HIDE DEF channel
      <4> QED BY <3>1, <4>1
    <3>3. [scan.ap_list EXCEPT ![channel] = list] \in [Channels -> Lists \cup {NULL}]
      BY <1>b, <1>c, Known DEF IInv
    <3>4. /\ scan'.ap_list = [scan.ap_list EXCEPT ![channel] = list]
          /\ scan'.sorted = Sorted(list, channel)
      BY <2>1, <2>3 DEF Scans
    <3>5. scan'.scanning = scan.scanning /\ scan'.runs = scan.runs /\ scan'.curr_channel = channel
      BY <2>1, <2>3 DEF Scans
    <3>6. scan' = [scan EXCEPT !.ap_list = scan'.ap_list, !.sorted = scan'.sorted]
      BY <2>1, <2>3, <3>4 DEF Scans
    <3>7. scan' \in Scans
      <4> DEFINE s == scan'.sorted
                 a == scan'.ap_list
      <4>1. s \in [Places -> Pointers \cup {NULL}] /\ a \in [Channels -> Lists \cup {NULL}]
        BY <3>2, <3>3, <3>4
      <4>2. scan' = [scan EXCEPT !.ap_list = a, !.sorted = s]
        BY <3>6
      <4> HIDE DEF s, a
      <4> QED BY <2>1, <4>1, <4>2 DEF Scans
    <3> QED BY <3>4, <3>5, <3>7
  <2> QED BY <1>1, <2>2, <2>3 DEF list
<1>e. ASSUME NEW p \in Pointers, Current(p) PROVE Current(p)'
  <2>1. p.channel \in Channels /\ p.channel # channel
    BY <1>b, <1>e DEF Pointers, Current, Live
  <2>2. scan'.ap_list[p.channel] = scan.ap_list[p.channel] /\ scan'.runs = scan.runs
    BY <1>d, <2>1, Known DEF IInv
  <2> QED BY <1>e, <2>2 DEF Current, Live
<1>2. Typed'
  BY <1>1, <1>a, <1>d DEF IInv, Typed
<1>3. StopInv'
  <2> USE DEF IInv, StopInv
  <2>1. Before'
    BY <1>1, <1>a, <1>b DEF Before
  <2>2. InTurn'
    BY <1>1, <1>a, <1>b DEF InTurn
  <2>3. OneOrder'
    BY <1>1, <1>a, <1>b DEF OneOrder, StoppedTwice, Waits
  <2> QED BY <2>1, <2>2, <2>3
<1>4. InQueue'
  BY <1>1 DEF IInv, InQueue, InOrder
<1>5. ScanInv'
  <2>1. OnePlace'
    BY <1>1, <1>a, <1>b, <1>d DEF IInv, ScanInv, OnePlace, Handling, Queued
  <2>2. ASSUME NEW c \in Channels
        PROVE  c # channel => scan'.ap_list[c] = scan.ap_list[c]
    BY <1>d, <2>2, Known DEF IInv
  <2>3. ASSUME NEW c \in Channels
        PROVE  scan'.ap_list[c] = scan.ap_list[c] \/ scan'.ap_list[c] = list
    BY <1>b, <1>d, <2>3, Known DEF IInv
  <2>4. ToCome'
    <3>1. ASSUME NEW c \in Channels, scan'.ap_list[c] # NULL PROVE scan'.ap_list[c].id <= scan'.runs
      BY <1>b, <1>c, <1>d, <2>3, <3>1, Known DEF IInv, ScanInv, ToCome
    <3>2. ASSUME NEW c \in Channels, c > channel PROVE Old(c)'
      <4>1. Old(c) /\ c # channel
        <5>1. c >= channel /\ c # channel
          <6>1. c \in Nat /\ channel \in Nat
            BY <1>b, Channel0
          <6> HIDE DEF channel
          <6> QED BY <3>2, <6>1
        <5> QED BY <1>1, <1>b, <5>1 DEF IInv, ScanInv, ToCome
      <4> QED BY <1>d, <2>2, <4>1 DEF Old
    <3>3. http'.pc # "started" /\ ~driver'.scanning /\ ~Queued("scan_done")'
      BY <1>1, <1>b DEF IInv, ScanInv, OnePlace, Handling, Queued
    <3> QED BY <1>a, <1>d, <3>1, <3>2, <3>3 DEF ToCome
  <2>5. AllCurrent'
    <3>1. ASSUME NEW place \in Places, scan'.sorted[place] # NULL PROVE Current(scan.sorted[place])'
      <4>1. ASSUME NEW i \in 1..Len(list.rssi), scan'.sorted[place] = Pointer(channel, list, i),
                   scan'.ap_list = [scan.ap_list EXCEPT ![channel] = list]
            PROVE  Current(scan.sorted[place])'
        <5>1. scan'.ap_list[channel] = list
          BY <1>b, <4>1, Known DEF IInv
        <5>2. /\ scan'.sorted[place].channel = channel /\ scan'.sorted[place].id = scan.runs
              /\ scan'.sorted[place].i \in DOMAIN list.rssi
          BY <1>c, <4>1 DEF Pointer
        <5> QED BY <1>c, <1>d, <5>1, <5>2 DEF Current, Live
      <4>2. ASSUME NEW k \in Places, scan.sorted[k] # NULL, scan'.sorted[place] = scan.sorted[k]
            PROVE  Current(scan.sorted[place])'
        <5>1. scan.sorted[k] \in Pointers /\ Current(scan.sorted[k])
          BY <1>b, <4>2, Known DEF IInv, ScanInv, AllCurrent
        <5>2. ASSUME NEW q \in Pointers, q = scan.sorted[k], q = scan'.sorted[place]
              PROVE  Current(scan.sorted[place])'
          <6>1. Current(q)'
            BY <1>e, <5>1, <5>2
          <6> QED BY <5>2, <6>1 DEF Current, Live
        <5> QED BY <4>2, <5>1, <5>2
      <4> QED BY SMTT(40), <1>c, <1>d, <3>1, <4>1, <4>2, SortedFrom DEF IInv
    <3>2. ASSUME http'.pc = "copy" PROVE Current(http.record)'
      <4>1. http.record \in Pointers /\ Current(http.record)
        BY <1>1, <1>b, <3>2, Known DEF IInv, ScanInv, AllCurrent
      <4>2. ASSUME NEW q \in Pointers, q = http.record, q = http'.record PROVE Current(http.record)'
        <5>1. Current(q)'
          BY <1>e, <4>1, <4>2
        <5> QED BY <4>2, <5>1 DEF Current, Live
      <4> QED BY <1>1, <4>1, <4>2
    <3> QED BY <3>1, <3>2 DEF AllCurrent
  <2> QED BY <2>1, <2>4, <2>5 DEF ScanInv
<1>6. StationInv'
  BY <1>1, <1>a, StationKept DEF StationStays, Cutting, Queued
<1> QED BY <1>2, <1>3, <1>4, <1>5, <1>6 DEF IInv

\* The scan goes on to the next channel, which has no list of it, or ends.
LEMMA NextChannelStep ==
  ASSUME IInv, NextChannel
  PROVE  IInv'
<1>1. /\ handler.pc = "next" /\ handler' = [pc |-> "idle"] /\ lock' = "free"
      /\ \/ scan' = [scan EXCEPT !.scanning = FALSE] /\ driver' = driver
         \/ /\ scan' = [scan EXCEPT !.curr_channel = After(scan.curr_channel), !.scanning = FALSE]
            /\ driver' = driver
         \/ /\ ~Over(After(scan.curr_channel)) /\ driver' = [driver EXCEPT !.scanning = TRUE]
            /\ scan' = [scan EXCEPT !.curr_channel = After(scan.curr_channel), !.cfg_channel = After(scan.curr_channel)]
         \/ /\ driver' = driver
            /\ scan' = [scan EXCEPT !.curr_channel = After(scan.curr_channel), !.cfg_channel = After(scan.curr_channel),
                                   !.scanning = FALSE]
      /\ g_prov' = g_prov /\ sta' = sta /\ timer' = timer /\ events' = events
      /\ http' = http /\ stop' = stop /\ phone' = phone /\ late' = late
  BY DEF NextChannel, HandlerEnv, data
<1> DEFINE channel == After(scan.curr_channel)
<1>a. /\ channel \in Channels /\ scan.curr_channel \in Channels
      /\ ~Over(channel) => channel = scan.curr_channel + 1
  <2>1. LastChannel \in Nat /\ scan.curr_channel \in 0..LastChannel
    BY Known, ProvAssumption DEF IInv, Channels
  <2>2. CASE scan.curr_channel < LastChannel
    <3>1. After(scan.curr_channel) = scan.curr_channel + 1
      BY <2>1, <2>2 DEF After
    <3> QED BY <2>1, <2>2, <3>1 DEF Channels
  <2>3. CASE scan.curr_channel = LastChannel
    <3>1. After(scan.curr_channel) = 0
      BY <2>1, <2>3 DEF After
    <3> QED BY <2>1, <3>1 DEF Channels, Over
  <2> QED BY <2>1, <2>2, <2>3
<1> HIDE DEF channel
<1>b. /\ g_prov = "live" /\ ~driver.scanning /\ ~Queued("scan_done") /\ scan.scanning
      /\ http.pc \notin {"start", "started"}
  <2>1. g_prov = "live"
    BY <1>1 DEF IInv, StopInv, InTurn
  <2> QED BY <1>1, <2>1 DEF IInv, ScanInv, OnePlace, Handling
<1>c. /\ driver' \in Drivers /\ driver'.station = driver.station
      /\ driver'.network = driver.network /\ driver'.why = driver.why
      /\ driver'.scanning = driver.scanning \/ driver'.scanning
  <2>1. driver \in Drivers
    BY DEF IInv, Typed
  <2>2. CASE driver' = driver
    BY <2>1, <2>2
  <2>3. CASE driver' = [driver EXCEPT !.scanning = TRUE]
    BY <2>1, <2>3 DEF Drivers
  <2> QED BY <1>1, <2>2, <2>3
<1>d. /\ scan' \in Scans /\ scan'.runs = scan.runs /\ scan'.ap_list = scan.ap_list /\ scan'.sorted = scan.sorted
      /\ driver' \in Drivers /\ driver'.station = driver.station
      /\ driver'.network = driver.network /\ driver'.why = driver.why
      /\ \/ ~scan'.scanning /\ ~driver'.scanning
         \/ scan'.scanning /\ scan'.curr_channel = scan.curr_channel + 1
  <2>1. scan \in Scans
    BY DEF IInv, Typed
  <2>2. CASE scan' = [scan EXCEPT !.scanning = FALSE] /\ driver' = driver
    <3>1. scan' \in Scans /\ ~scan'.scanning
      BY <2>1, <2>2 DEF Scans
    <3>2. scan'.runs = scan.runs /\ scan'.ap_list = scan.ap_list /\ scan'.sorted = scan.sorted
      BY <2>1, <2>2 DEF Scans
    <3> QED BY <1>b, <1>c, <2>2, <3>1, <3>2
  <2>3. CASE scan' = [scan EXCEPT !.curr_channel = channel, !.scanning = FALSE] /\ driver' = driver
    <3>1. scan' \in Scans /\ ~scan'.scanning
      BY <1>a, <2>1, <2>3 DEF Scans
    <3>2. scan'.runs = scan.runs /\ scan'.ap_list = scan.ap_list /\ scan'.sorted = scan.sorted
      BY <2>1, <2>3 DEF Scans
    <3> QED BY <1>b, <1>c, <2>3, <3>1, <3>2
  <2>4. CASE /\ ~Over(channel) /\ driver' = [driver EXCEPT !.scanning = TRUE]
             /\ scan' = [scan EXCEPT !.curr_channel = channel, !.cfg_channel = channel]
    <3>1. scan' \in Scans
      BY <1>a, <2>1, <2>4 DEF Scans
    <3>2. scan'.runs = scan.runs /\ scan'.ap_list = scan.ap_list /\ scan'.sorted = scan.sorted
      BY <2>1, <2>4 DEF Scans
    <3>3. scan'.scanning = scan.scanning /\ scan'.curr_channel = channel
      BY <2>1, <2>4 DEF Scans
    <3> QED BY <1>a, <1>b, <1>c, <2>4, <3>1, <3>2, <3>3
  <2>5. CASE /\ scan' = [scan EXCEPT !.curr_channel = channel, !.cfg_channel = channel, !.scanning = FALSE]
             /\ driver' = driver
    <3>1. scan' \in Scans /\ ~scan'.scanning
      BY <1>a, <2>1, <2>5 DEF Scans
    <3>2. scan'.runs = scan.runs /\ scan'.ap_list = scan.ap_list /\ scan'.sorted = scan.sorted
      BY <2>1, <2>5 DEF Scans
    <3> QED BY <1>b, <1>c, <2>5, <3>1, <3>2
  <2> QED BY <1>1, <2>2, <2>3, <2>4, <2>5 DEF channel
<1>2. Typed'
  BY <1>1, <1>d DEF IInv, Typed, Handlers
<1>3. StopInv'
  <2> USE DEF IInv, StopInv
  <2>1. Before'
    BY <1>1, <1>b, <1>d DEF Before
  <2>2. InTurn'
    BY <1>1, <1>b, <1>d DEF InTurn
  <2>3. OneOrder'
    BY <1>1, <1>b, <1>d DEF OneOrder, StoppedTwice, Waits
  <2> QED BY <2>1, <2>2, <2>3
<1>4. InQueue'
  BY <1>1 DEF IInv, InQueue, InOrder
<1>5. ScanInv'
  <2>1. OnePlace'
    BY <1>1, <1>b, <1>d DEF OnePlace, Handling, Queued
  <2>2. ToCome'
    <3>1. \A c \in Channels : scan.ap_list[c] # NULL => scan.ap_list[c].id <= scan.runs
      BY <1>b DEF IInv, ScanInv, ToCome
    <3>2. ~Queued("scan_done")' /\ handler'.pc = "idle" /\ http'.pc # "started"
      BY <1>1, <1>b DEF Queued
    <3>3. ASSUME driver'.scanning, NEW c \in Channels, c >= scan'.curr_channel PROVE Old(c)
      <4>1. c \in Nat /\ scan.curr_channel \in Nat /\ c >= scan.curr_channel + 1
        BY <1>a, <1>d, <3>3, Channel0
      <4>2. c > scan.curr_channel
        BY <4>1
      <4> QED BY <1>1, <1>b, <4>2 DEF IInv, ScanInv, ToCome
    <3> QED BY <1>d, <3>1, <3>2, <3>3 DEF ToCome, Old
  <2>3. AllCurrent'
    BY <1>1, <1>b, <1>d DEF IInv, ScanInv, AllCurrent, Current, Live
  <2> QED BY <2>1, <2>2, <2>3 DEF ScanInv
<1>6. StationInv'
  BY <1>1, <1>d, StationKept DEF StationStays, Cutting, Queued
<1> QED BY <1>2, <1>3, <1>4, <1>5, <1>6 DEF IInv

\* An event that comes when there is no g_prov is nobody's.
LEMMA TakeNobodysStep ==
  ASSUME IInv, Take, g_prov # "live"
  PROVE  IInv'
<1>1. /\ handler.pc = "idle" /\ events # <<>> /\ events' = Tail(events)
      /\ \/ g_prov = "null" /\ handler' = handler
         \/ g_prov = "freed" /\ handler' = [pc |-> "freed"]
      /\ g_prov' = g_prov /\ lock' = lock /\ scan' = scan /\ sta' = sta /\ timer' = timer
      /\ driver' = driver /\ http' = http /\ stop' = stop /\ phone' = phone
      /\ late' = (late \/ (g_prov = "live" /\ Event.id = "got_ip" /\ stop # "none"))
  BY DEF Take, HandlerEnv, data
<1>a. events' \in Seq(Events)
  BY <1>1 DEF IInv, Typed
<1>2. Typed'
  BY <1>1, <1>a DEF IInv, Typed, Handlers
<1>3. StopInv'
  <2> USE DEF IInv, StopInv
  <2>1. Before'
    BY <1>1 DEF Before
  <2>2. InTurn'
    BY <1>1 DEF InTurn, Before
  <2>3. OneOrder'
    BY <1>1 DEF OneOrder, InTurn, StoppedTwice, Waits, Before
  <2> QED BY <2>1, <2>2, <2>3
<1>4. InQueue'
  BY <1>1 DEF InQueue
<1>5. ScanInv'
  BY <1>1 DEF ScanInv, OnePlace, ToCome, AllCurrent
<1>6. StationInv'
  <2>1. driver.network = "none" => driver.station = "idle"
    BY DEF IInv, StationInv, Untouched
  <2> QED BY <1>1, <2>1 DEF StationInv, NotTwice, Untouched, IsConnected, IsConnecting, IsIdle, Orderly
<1> QED BY <1>2, <1>3, <1>4, <1>5, <1>6 DEF IInv

\* The station is started: nothing else was told of it before.
LEMMA TakeStartStep ==
  ASSUME IInv, Take, g_prov = "live", Event.id = "start"
  PROVE  IInv'
<1>1. /\ handler.pc = "idle" /\ events # <<>> /\ events' = Tail(events) /\ Event.id = "start"
      /\ g_prov = "live" /\ sta' = [sta EXCEPT !.state = "connecting"] /\ late' = (late \/ (g_prov = "live" /\ Event.id = "got_ip" /\ stop # "none"))
      /\ g_prov' = g_prov /\ lock' = lock /\ scan' = scan /\ timer' = timer
      /\ driver' = driver /\ http' = http /\ handler' = handler /\ stop' = stop
      /\ phone' = phone
  BY DEF Take, HandlerEnv, data
<1>a. sta' \in Stations /\ sta'.state = "connecting" /\ sta'.reason = sta.reason
  BY <1>1 DEF IInv, Typed, Stations
<1>b. /\ events \in Seq(Events) /\ events' \in Seq(Events) /\ InOrder' /\ Event \in Events
      /\ Queued(Event.id) /\ Event.id = "start"
      /\ \A id : Queued(id)' <=> Queued(id) /\ id # "start"
      /\ ~Queued("start")'
      /\ Event.id = "disconnected" => ~Queued("got_ip")
      /\ \A k \in DOMAIN events' : \E l \in DOMAIN events : events[l] = events'[k]
      /\ 1 \in DOMAIN events /\ events[1] = Event
  BY <1>1, TakenOff DEF IInv, Typed, InQueue
<1>2. Typed'
  BY <1>1, <1>a, <1>b DEF IInv, Typed
<1>3. StopInv'
  <2> USE DEF IInv, StopInv
  <2>1. Before'
    BY <1>1, <1>a, <1>b DEF Before
  <2>2. InTurn'
    BY <1>1, <1>a, <1>b DEF InTurn
  <2>3. OneOrder'
    BY <1>1, <1>a, <1>b DEF OneOrder, StoppedTwice, Waits
  <2> QED BY <2>1, <2>2, <2>3
<1>4. InQueue'
  BY <1>b DEF InQueue
<1>5. ScanInv'
  BY <1>1, <1>a, <1>b, ScanKept DEF ScanStays, Handling
<1>6. StationInv'
  <2> USE <1>1, <1>a, <1>b DEF IInv, StationInv, Cutting
  <2>1. NotTwice' /\ Untouched' /\ Orderly'
    BY DEF NotTwice, Untouched, Orderly
  <2>2. IsConnected' /\ IsConnecting'
    BY DEF IsConnected, IsConnecting
  <2>3. IsIdle'
    BY DEF IsIdle, Told, Taken, Noted, NoTidings
  <2> QED BY <2>1, <2>2, <2>3
<1> QED BY <1>2, <1>3, <1>4, <1>5, <1>6 DEF IInv

\* The station is connected, and no loss was told before.
LEMMA TakeGotIpStep ==
  ASSUME IInv, Take, g_prov = "live", Event.id = "got_ip"
  PROVE  IInv'
<1>1. /\ handler.pc = "idle" /\ events # <<>> /\ events' = Tail(events) /\ Event.id = "got_ip"
      /\ g_prov = "live" /\ sta' = [sta EXCEPT !.state = "connected"] /\ handler' = [pc |-> "arm"]
      /\ late' = (late \/ (g_prov = "live" /\ Event.id = "got_ip" /\ stop # "none"))
      /\ g_prov' = g_prov /\ lock' = lock /\ scan' = scan /\ timer' = timer
      /\ driver' = driver /\ http' = http /\ stop' = stop /\ phone' = phone
  BY DEF Take, HandlerEnv, data
<1>a. sta' \in Stations /\ sta'.state = "connected" /\ sta'.reason = sta.reason
  BY <1>1 DEF IInv, Typed, Stations
<1>b. /\ events \in Seq(Events) /\ events' \in Seq(Events) /\ InOrder' /\ Event \in Events
      /\ Queued(Event.id) /\ Event.id = "got_ip"
      /\ \A id : Queued(id)' <=> Queued(id) /\ id # "got_ip"
      /\ ~Queued("start")'
      /\ Event.id = "disconnected" => ~Queued("got_ip")
      /\ \A k \in DOMAIN events' : \E l \in DOMAIN events : events[l] = events'[k]
      /\ 1 \in DOMAIN events /\ events[1] = Event
  BY <1>1, TakenOff DEF IInv, Typed, InQueue
<1>2. Typed'
  BY <1>1, <1>a, <1>b DEF IInv, Typed, Handlers
<1>3. StopInv'
  <2> USE DEF IInv, StopInv
  <2>1. Before'
    BY <1>1, <1>a, <1>b DEF Before
  <2>2. InTurn'
    BY <1>1, <1>a, <1>b DEF InTurn
  <2>3. OneOrder'
    BY <1>1, <1>a, <1>b DEF OneOrder, StoppedTwice, Waits
  <2> QED BY <2>1, <2>2, <2>3
<1>4. InQueue'
  BY <1>b DEF InQueue
<1>5. ScanInv'
  BY <1>1, <1>a, <1>b, ScanKept DEF ScanStays, Handling
<1>6. StationInv'
  <2> USE <1>1, <1>a, <1>b DEF IInv, StationInv, Cutting
  <2>1. NotTwice' /\ Untouched' /\ Orderly'
    BY DEF NotTwice, Untouched, Orderly
  <2>2. IsConnected' /\ IsConnecting'
    BY DEF IsConnected, IsConnecting
  <2>3. IsIdle'
    BY DEF IsIdle, Told, Taken, Noted, NoTidings
  <2> QED BY <2>1, <2>2, <2>3
<1> QED BY <1>2, <1>3, <1>4, <1>5, <1>6 DEF IInv

\* The station was idle: it is the last that was told of it.
LEMMA TakeLostStep ==
  ASSUME IInv, Take, g_prov = "live", Event.id = "disconnected"
  PROVE  IInv'
<1>1. /\ handler.pc = "idle" /\ events # <<>> /\ events' = Tail(events) /\ Event.id = "disconnected"
      /\ g_prov = "live" /\ sta' = [sta EXCEPT !.state = "disconnected"]
      /\ handler' = [pc |-> "disconnect", why |-> Event.why] /\ late' = (late \/ (g_prov = "live" /\ Event.id = "got_ip" /\ stop # "none"))
      /\ g_prov' = g_prov /\ lock' = lock /\ scan' = scan /\ timer' = timer
      /\ driver' = driver /\ http' = http /\ stop' = stop /\ phone' = phone
  BY DEF Take, HandlerEnv, data
<1>a. sta' \in Stations /\ sta'.state = "disconnected" /\ sta'.reason = sta.reason
  BY <1>1 DEF IInv, Typed, Stations
<1>b. /\ events \in Seq(Events) /\ events' \in Seq(Events) /\ InOrder' /\ Event \in Events
      /\ Queued(Event.id) /\ Event.id = "disconnected"
      /\ \A id : Queued(id)' <=> Queued(id) /\ id # "disconnected"
      /\ ~Queued("start")'
      /\ Event.id = "disconnected" => ~Queued("got_ip")
      /\ \A k \in DOMAIN events' : \E l \in DOMAIN events : events[l] = events'[k]
      /\ 1 \in DOMAIN events /\ events[1] = Event
  BY <1>1, TakenOff DEF IInv, Typed, InQueue
<1>c. handler' \in Handlers /\ handler'.pc = "disconnect" /\ handler'.why = Event.why
  <2>1. Event.why \in Whys
    BY <1>b DEF Events
  <2>2. handler' \in [pc : {"disconnect", "reason"}, why : Whys]
    BY <1>1, <2>1
  <2> QED BY <1>1, <2>2 DEF Handlers
<1>2. Typed'
  BY <1>1, <1>a, <1>b, <1>c DEF IInv, Typed
<1>3. StopInv'
  <2> USE DEF IInv, StopInv
  <2>1. Before'
    BY <1>1, <1>a, <1>b, <1>c DEF Before
  <2>2. InTurn'
    BY <1>1, <1>a, <1>b, <1>c DEF InTurn
  <2>3. OneOrder'
    BY <1>1, <1>a, <1>b, <1>c DEF OneOrder, StoppedTwice, Waits
  <2> QED BY <2>1, <2>2, <2>3
<1>4. InQueue'
  BY <1>b DEF InQueue
<1>5. ScanInv'
  BY <1>1, <1>a, <1>b, <1>c, ScanKept DEF ScanStays, Handling
<1>6. StationInv'
  <2> USE <1>1, <1>a, <1>b, <1>c DEF IInv, StationInv, Cutting
  <2>1. NotTwice' /\ Untouched' /\ Orderly'
    BY DEF NotTwice, Untouched, Orderly
  <2>2. IsConnected' /\ IsConnecting'
    BY DEF IsConnected, IsConnecting
  <2>3. IsIdle'
    BY DEF IsIdle, Told, Taken, Noted, NoTidings
  <2> QED BY <2>1, <2>2, <2>3
<1> QED BY <1>2, <1>3, <1>4, <1>5, <1>6 DEF IInv

\* A scan's results come: the channel's old list is freed, in which nothing lies that is listed.
LEMMA TakeScanStep ==
  ASSUME IInv, Take, g_prov = "live", Event.id = "scan_done"
  PROVE  IInv'
<1>1. /\ handler.pc = "idle" /\ events # <<>> /\ events' = Tail(events) /\ Event.id = "scan_done"
      /\ g_prov = "live" /\ handler' = [pc |-> "count"] /\ late' = (late \/ (g_prov = "live" /\ Event.id = "got_ip" /\ stop # "none"))
      /\ scan' = [scan EXCEPT !.ap_list[scan.curr_channel] = NULL]
      /\ g_prov' = g_prov /\ lock' = lock /\ sta' = sta /\ timer' = timer
      /\ driver' = driver /\ http' = http /\ stop' = stop /\ phone' = phone
  BY DEF Take, HandlerEnv, data
<1>b. /\ events \in Seq(Events) /\ events' \in Seq(Events) /\ InOrder' /\ Event \in Events
      /\ Queued(Event.id) /\ Event.id = "scan_done"
      /\ \A id : Queued(id)' <=> Queued(id) /\ id # "scan_done"
      /\ ~Queued("start")'
      /\ Event.id = "disconnected" => ~Queued("got_ip")
      /\ \A k \in DOMAIN events' : \E l \in DOMAIN events : events[l] = events'[k]
      /\ 1 \in DOMAIN events /\ events[1] = Event
  BY <1>1, TakenOff DEF IInv, Typed, InQueue
<1>a. ~driver.scanning /\ http.pc \notin {"start", "started"} /\ scan.scanning
  BY <1>1, <1>b DEF IInv, ScanInv, OnePlace
<1>c. /\ scan' \in Scans /\ scan'.scanning = scan.scanning /\ scan'.runs = scan.runs
      /\ scan'.curr_channel = scan.curr_channel /\ scan'.sorted = scan.sorted
      /\ scan'.ap_list = [scan.ap_list EXCEPT ![scan.curr_channel] = NULL]
  <2>1. scan \in Scans /\ scan.curr_channel \in Channels
    BY Known DEF IInv, Typed
  <2>2. scan' \in Scans
    BY <1>1, <2>1 DEF Scans
  <2>3. scan'.ap_list = [scan.ap_list EXCEPT ![scan.curr_channel] = NULL]
    BY <1>1, <2>1 DEF Scans
  <2>4. scan'.scanning = scan.scanning /\ scan'.runs = scan.runs
    BY <1>1, <2>1 DEF Scans
  <2>5. scan'.curr_channel = scan.curr_channel /\ scan'.sorted = scan.sorted
    BY <1>1, <2>1 DEF Scans
  <2> QED BY <2>2, <2>3, <2>4, <2>5
<1>d. /\ scan'.ap_list[scan.curr_channel] = NULL
      /\ \A c \in Channels : scan'.ap_list[c] = scan.ap_list[c] \/ scan'.ap_list[c] = NULL
      /\ \A c \in Channels : c # scan.curr_channel => scan'.ap_list[c] = scan.ap_list[c]
  BY <1>c, Known DEF IInv
<1>e. ASSUME NEW p \in Pointers, Current(p) PROVE Current(p)'
  <2>1. Old(scan.curr_channel)
    <3>1. scan.curr_channel \in Nat /\ scan.curr_channel \in Channels
      BY Known, Channel0 DEF IInv
    <3> QED BY <1>1, <1>a, <1>b, <3>1 DEF IInv, ScanInv, ToCome
  <2>2. p.channel \in Channels /\ p.channel # scan.curr_channel
    <3>1. p.channel = scan.curr_channel => scan.runs < scan.runs
      BY <1>e, <2>1 DEF Current, Live, Old
    <3>2. scan.runs \in Nat
      BY Known DEF IInv
    <3> QED BY <1>e, <3>1, <3>2 DEF Pointers
  <2>3. scan'.ap_list[p.channel] = scan.ap_list[p.channel]
    BY <1>d, <2>2
  <2> QED BY <1>c, <1>e, <2>3 DEF Current, Live
<1>2. Typed'
  BY <1>1, <1>b, <1>c DEF IInv, Typed, Handlers
<1>3. StopInv'
  <2> USE DEF IInv, StopInv
  <2>1. Before'
    BY <1>1, <1>b DEF Before
  <2>2. InTurn'
    BY <1>1, <1>b DEF InTurn
  <2>3. OneOrder'
    BY <1>1, <1>b DEF OneOrder, StoppedTwice, Waits
  <2> QED BY <2>1, <2>2, <2>3
<1>4. InQueue'
  BY <1>b DEF InQueue
<1>5. ScanInv'
  <2>1. OnePlace'
    BY <1>1, <1>a, <1>b, <1>c DEF OnePlace, Handling
  <2>2. ToCome'
    <3>1. \A c \in Channels : scan.ap_list[c] # NULL => scan.ap_list[c].id <= scan.runs
      BY <1>1 DEF IInv, ScanInv, ToCome
    <3>2. \A c \in Channels : c >= scan.curr_channel => Old(c)
      BY SMTT(40), <1>1, <1>a, <1>b DEF IInv, ScanInv, ToCome
    <3> QED BY <1>1, <1>a, <1>c, <1>d, <3>1, <3>2 DEF ToCome, Old
  <2>3. AllCurrent'
    <3>1. ASSUME NEW q \in Pointers, Current(q) PROVE Live(q)' /\ q.id = scan'.runs
      BY <1>e, <3>1 DEF Current
    <3>2. \A place \in Places : scan.sorted[place] # NULL => scan.sorted[place] \in Pointers /\ Current(scan.sorted[place])
      BY <1>1, Known DEF IInv, ScanInv, AllCurrent
    <3>3. http.pc = "copy" => http.record \in Pointers /\ Current(http.record)
      BY <1>1, Known DEF IInv, ScanInv, AllCurrent
    <3> QED BY SMTT(40), <1>1, <1>c, <3>1, <3>2, <3>3 DEF AllCurrent, Current, Live
  <2> QED BY <2>1, <2>2, <2>3 DEF ScanInv
<1>6. StationInv'
  BY <1>1, <1>b, StationKept DEF StationStays, Cutting
<1> QED BY <1>2, <1>3, <1>4, <1>5, <1>6 DEF IInv

\* An event is taken.
LEMMA TakeStep ==
  ASSUME IInv, Take
  PROVE  IInv'
<1>1. CASE g_prov # "live"
  BY <1>1, TakeNobodysStep
<1>2. CASE g_prov = "live"
  <2>1. Event.id \in {"start", "got_ip", "disconnected", "scan_done"}
    BY <1>2 DEF Take
  <2> QED BY <1>2, <2>1, TakeStartStep, TakeGotIpStep, TakeLostStep, TakeScanStep
<1> QED BY <1>1, <1>2

---------------------------------------------------------------------------
(* How the results of a channel are sorted in.                              *)

\* A set of numbers has a least one.
LEMMA LeastExists ==
  ASSUME NEW S \in SUBSET Nat, S # {}
  PROVE  \E x \in S : \A y \in S : x <= y
<1>1. PICK x \in S : \A y \in S : <<y, x>> \notin OpToRel(<, Nat)
  BY WFMin, NatLessThanWellFounded
<1>2. \A y \in S : ~(y < x)
  BY <1>1 DEF OpToRel
<1> QED BY <1>2

\* A set of places without a gap is known by how many they are.
LEMMA Prefix ==
  ASSUME NEW n \in Nat, NEW S \in SUBSET (1..n), \A i \in S : \A j \in 1..(i - 1) : j \in S
  PROVE  /\ IsFiniteSet(S) /\ Cardinality(S) \in 0..n
         /\ \A i \in Nat \ {0} : i \in S <=> i <= Cardinality(S)
<1> DEFINE Beyond == {i \in Nat \ {0} : i \notin S}
<1>1. n + 1 \in Beyond /\ Beyond \in SUBSET Nat
  OBVIOUS
<1>2. PICK b \in Beyond : \A i \in Beyond : b <= i
  BY <1>1, LeastExists
<1>3. b \in Nat \ {0} /\ b \notin S /\ b <= n + 1
  BY <1>1, <1>2
<1>4. ASSUME NEW i \in Nat \ {0} PROVE i \in S <=> i < b
  <2>1. i < b => i \in S
    BY <1>2, <1>3
  <2>2. ASSUME i \in S PROVE i < b
    <3>1. i # b
      BY <1>3, <2>2
    <3>2. ~(b < i)
      <4> SUFFICES ASSUME b < i PROVE FALSE
        OBVIOUS
      <4>1. b \in 1..(i - 1)
        BY <1>3
      <4> QED BY <1>3, <2>2, <4>1
    <3> QED BY <1>3, <3>1, <3>2
  <2> QED BY <2>1, <2>2
<1>5. S = 1..(b - 1)
  <2>1. ASSUME NEW i PROVE i \in S <=> i \in 1..(b - 1)
    <3>1. i \in S => i \in Nat \ {0}
      OBVIOUS
    <3>2. i \in 1..(b - 1) <=> i \in Nat \ {0} /\ i < b
      BY <1>3
    <3> QED BY <1>4, <3>1, <3>2
  <2> QED BY <2>1
<1>6. IsFiniteSet(1..(b - 1)) /\ Cardinality(1..(b - 1)) = b - 1
  <2>1. 1 \in Int /\ b - 1 \in Int /\ (1 > b - 1 => b - 1 = 0)
    BY <1>3
  <2> QED BY <2>1, FS_Interval
<1> QED BY <1>3, <1>4, <1>5, <1>6

\* Two orders are merged: a kept result k has A[k] new ones before it, a new one i has
\* B[i] kept ones, and of two results one is before the other.
Merging(n, m, A, B) ==
  /\ n \in Nat /\ m \in Nat
  /\ \A k \in 1..m : A[k] \in 0..n
  /\ \A i \in 1..n : B[i] \in 0..m
  /\ \A k \in 1..m, i \in 1..n : i <= A[k] <=> B[i] < k

\* Then they keep their order, and no two get the same place.
LEMMA MergedInOrder ==
  ASSUME NEW n, NEW m, NEW A, NEW B, Merging(n, m, A, B)
  PROVE  /\ \A k, l \in 1..m : k < l => k + A[k] < l + A[l]
         /\ \A i, j \in 1..n : i < j => i + B[i] < j + B[j]
         /\ \A k \in 1..m, i \in 1..n : IF i <= A[k] THEN i + B[i] < k + A[k] ELSE k + A[k] < i + B[i]
         /\ \A k \in 1..m : k + A[k] \in 1..(n + m)
         /\ \A i \in 1..n : i + B[i] \in 1..(n + m)
<1>1. ASSUME NEW k \in 1..m, NEW l \in 1..m, k < l PROVE k + A[k] < l + A[l]
  <2>1. A[k] \in 0..n /\ A[l] \in 0..n /\ n \in Nat /\ m \in Nat
    BY DEF Merging
  <2>2. CASE A[k] = 0
    BY <1>1, <2>1, <2>2
  <2>3. CASE A[k] # 0
    <3>1. A[k] \in 1..n
      BY <2>1, <2>3
    <3>2. B[A[k]] < k /\ B[A[k]] \in 0..m
      BY <2>1, <3>1 DEF Merging
    <3>3. B[A[k]] < l
      BY <1>1, <2>1, <3>2
    <3>4. A[k] <= A[l]
      BY <3>1, <3>3 DEF Merging
    <3> QED BY <1>1, <2>1, <3>4
  <2> QED BY <2>2, <2>3
<1>2. ASSUME NEW i \in 1..n, NEW j \in 1..n, i < j PROVE i + B[i] < j + B[j]
  <2>1. B[i] \in 0..m /\ B[j] \in 0..m /\ n \in Nat /\ m \in Nat
    BY DEF Merging
  <2>2. CASE B[i] = 0
    BY <1>2, <2>1, <2>2
  <2>3. CASE B[i] # 0
    <3>1. B[i] \in 1..m
      BY <2>1, <2>3
    <3>2. ~(i <= A[B[i]]) /\ A[B[i]] \in 0..n
      <4>1. A[B[i]] \in 0..n /\ (i <= A[B[i]] <=> B[i] < B[i])
        BY <3>1 DEF Merging
      <4> QED BY <2>1, <4>1
    <3>3. ~(j <= A[B[i]])
      BY <1>2, <2>1, <3>2
    <3>4. ~(B[j] < B[i])
      BY <3>1, <3>3 DEF Merging
    <3> QED BY <1>2, <2>1, <3>4
  <2> QED BY <2>2, <2>3
<1>3. ASSUME NEW k \in 1..m, NEW i \in 1..n
      PROVE  IF i <= A[k] THEN i + B[i] < k + A[k] ELSE k + A[k] < i + B[i]
  <2>1. A[k] \in 0..n /\ B[i] \in 0..m /\ n \in Nat /\ m \in Nat /\ (i <= A[k] <=> B[i] < k)
    BY DEF Merging
  <2> QED BY <2>1
<1>4. ASSUME NEW k \in 1..m PROVE k + A[k] \in 1..(n + m)
  <2>1. A[k] \in 0..n /\ n \in Nat /\ m \in Nat
    BY DEF Merging
  <2> QED BY <2>1
<1>5. ASSUME NEW i \in 1..n PROVE i + B[i] \in 1..(n + m)
  <2>1. B[i] \in 0..m /\ n \in Nat /\ m \in Nat
    BY DEF Merging
  <2> QED BY <2>1
<1> QED BY <1>1, <1>2, <1>3, <1>4, <1>5

\* And a place that is taken has all before it taken.
MergedAt(n, m, A, B, p) == (\E k \in 1..m : k + A[k] = p) \/ \E i \in 1..n : i + B[i] = p

LEMMA MergedNext ==
  ASSUME NEW n, NEW m, NEW A, NEW B, Merging(n, m, A, B), NEW p \in Nat \ {0}, MergedAt(n, m, A, B, p + 1)
  PROVE  MergedAt(n, m, A, B, p)
<1>1. n \in Nat /\ m \in Nat
  BY DEF Merging
<1>2. ASSUME NEW k \in 1..m, k + A[k] = p + 1 PROVE MergedAt(n, m, A, B, p)
  <2>1. A[k] \in 0..n /\ k \in Nat
    BY <1>1 DEF Merging
  <2>2. CASE A[k] # 0 /\ B[A[k]] = k - 1
    <3>1. A[k] \in 1..n /\ A[k] + B[A[k]] = p
      BY <1>1, <1>2, <2>1, <2>2
    <3> QED BY <3>1 DEF MergedAt
  <2>3. CASE A[k] # 0 /\ B[A[k]] # k - 1
    <3>1. A[k] \in 1..n
      BY <1>1, <2>1, <2>3
    <3>2. B[A[k]] \in 0..m /\ B[A[k]] < k
      BY <2>1, <3>1 DEF Merging
    <3>3. k - 1 \in 1..m /\ B[A[k]] < k - 1
      BY <1>1, <2>1, <2>3, <3>2
    <3>4. A[k] <= A[k - 1] /\ A[k - 1] \in 0..n
      BY <3>1, <3>3 DEF Merging
    <3>5. A[k - 1] <= A[k]
      <4>1. (k - 1) + A[k - 1] < k + A[k]
        <5>1. k - 1 < k
          BY <2>1
        <5> QED BY <3>3, <5>1, MergedInOrder
      <4> QED BY <2>1, <3>4, <4>1
    <3>6. (k - 1) + A[k - 1] = p
      BY <1>2, <2>1, <3>4, <3>5
    <3> QED BY <3>3, <3>6 DEF MergedAt
  <2>4. CASE A[k] = 0
    <3>1. k - 1 = p /\ k - 1 \in 1..m
      BY <1>1, <1>2, <2>1, <2>4
    <3>2. A[k - 1] = 0
      <4>1. A[k - 1] \in 0..n
        BY <3>1 DEF Merging
      <4>2. (k - 1) + A[k - 1] < k + A[k]
        <5>1. k - 1 < k
          BY <2>1
        <5> QED BY <3>1, <5>1, MergedInOrder
      <4> QED BY <1>1, <2>1, <2>4, <4>1, <4>2
    <3>3. (k - 1) + A[k - 1] = p
      BY <2>1, <3>1, <3>2
    <3> QED BY <3>1, <3>3 DEF MergedAt
  <2> QED BY <2>2, <2>3, <2>4
<1>3. ASSUME NEW i \in 1..n, i + B[i] = p + 1 PROVE MergedAt(n, m, A, B, p)
  <2>1. B[i] \in 0..m /\ i \in Nat
    BY <1>1 DEF Merging
  <2>2. CASE B[i] # 0 /\ A[B[i]] = i - 1
    <3>1. B[i] \in 1..m /\ B[i] + A[B[i]] = p
      BY <1>1, <1>3, <2>1, <2>2
    <3> QED BY <3>1 DEF MergedAt
  <2>3. CASE B[i] # 0 /\ A[B[i]] # i - 1
    <3>1. B[i] \in 1..m
      BY <1>1, <2>1, <2>3
    <3>2. A[B[i]] \in 0..n /\ ~(i <= A[B[i]])
      <4>1. A[B[i]] \in 0..n /\ (i <= A[B[i]] <=> B[i] < B[i])
        BY <3>1 DEF Merging
      <4> QED BY <2>1, <4>1
    <3>3. i - 1 \in 1..n /\ ~(i - 1 <= A[B[i]])
      BY <1>1, <2>1, <2>3, <3>2
    <3>4. ~(B[i - 1] < B[i]) /\ B[i - 1] \in 0..m
      BY <3>1, <3>3 DEF Merging
    <3>5. (i - 1) + B[i - 1] < i + B[i]
      <4>1. i - 1 < i
        BY <2>1
      <4> QED BY <3>3, <4>1, MergedInOrder
    <3>6. (i - 1) + B[i - 1] = p
      BY <1>1, <1>3, <2>1, <3>4, <3>5
    <3> QED BY <3>3, <3>6 DEF MergedAt
  <2>4. CASE B[i] = 0
    <3>1. i - 1 = p /\ i - 1 \in 1..n
      BY <1>1, <1>3, <2>1, <2>4
    <3>2. B[i - 1] = 0
      <4>1. B[i - 1] \in 0..m
        BY <3>1 DEF Merging
      <4>2. (i - 1) + B[i - 1] < i + B[i]
        <5>1. i - 1 < i
          BY <2>1
        <5> QED BY <3>1, <5>1, MergedInOrder
      <4> QED BY <1>1, <2>1, <2>4, <4>1, <4>2
    <3>3. (i - 1) + B[i - 1] = p
      BY <2>1, <3>1, <3>2
    <3> QED BY <3>1, <3>3 DEF MergedAt
  <2> QED BY <2>2, <2>3, <2>4
<1> QED BY <1>2, <1>3 DEF MergedAt

LEMMA MergedWithoutGap ==
  ASSUME NEW n, NEW m, NEW A, NEW B, Merging(n, m, A, B),
         NEW q \in Nat, MergedAt(n, m, A, B, q), NEW p \in 1..(q - 1)
  PROVE  MergedAt(n, m, A, B, p)
<1> SUFFICES ASSUME ~MergedAt(n, m, A, B, p) PROVE FALSE
  OBVIOUS
<1> DEFINE T == {r \in Nat : p < r /\ MergedAt(n, m, A, B, r)}
<1>1. q \in T /\ T \in SUBSET Nat /\ p \in Nat \ {0}
  OBVIOUS
<1>2. PICK r \in T : \A s \in T : r <= s
  BY <1>1, LeastExists
<1>3. r \in Nat /\ p < r /\ MergedAt(n, m, A, B, r)
  BY <1>2
<1>4. r - 1 \in Nat \ {0} /\ (r - 1) + 1 = r /\ ~(r <= r - 1)
  BY <1>1, <1>3
<1>5. MergedAt(n, m, A, B, r - 1)
  <2> DEFINE s == r - 1
  <2>1. s \in Nat \ {0} /\ MergedAt(n, m, A, B, s + 1)
    BY <1>3, <1>4
  <2> HIDE DEF s
  <2>2. MergedAt(n, m, A, B, s)
    BY <2>1, MergedNext
  <2> QED BY <2>2 DEF s
<1>6. CASE r - 1 = p
  BY <1>5, <1>6
<1>7. CASE r - 1 # p
  <2>1. r - 1 \in T
    BY <1>1, <1>3, <1>4, <1>5, <1>7
  <2> QED BY <1>2, <1>4, <2>1
<1> QED BY <1>6, <1>7

\* Two series that fall, and what is counted of them: of the one what is as strong as
\* an element of the other, of the other what is stronger.
Counted(n, m, x, y, a, A, b, B) ==
  /\ n \in Nat /\ m \in Nat
  /\ \A i \in 1..n : x[i] \in Nat
  /\ \A k \in 1..m : y[k] \in Nat
  /\ \A i, j \in 1..n : i < j => x[i] >= x[j]
  /\ \A k, l \in 1..m : k < l => y[k] >= y[l]
  /\ \A k \in 1..m : a[k] \subseteq 1..n /\ A[k] = Cardinality(a[k])
  /\ \A k \in 1..m, i \in 1..n : i \in a[k] <=> x[i] >= y[k]
  /\ \A i \in 1..n : b[i] \subseteq 1..m /\ B[i] = Cardinality(b[i])
  /\ \A i \in 1..n, k \in 1..m : k \in b[i] <=> y[k] > x[i]

\* The counts are such a merging.
LEMMA CountsMerge ==
  ASSUME NEW n, NEW m, NEW x, NEW y, NEW a, NEW A, NEW b, NEW B, Counted(n, m, x, y, a, A, b, B)
  PROVE  Merging(n, m, A, B) /\ \A k \in 1..m, i \in 1..n : i <= A[k] <=> x[i] >= y[k]
<1> USE DEF Counted
<1>1. ASSUME NEW k \in 1..m
      PROVE  A[k] \in 0..n /\ \A i \in 1..n : x[i] >= y[k] <=> i <= A[k]
  <2> DEFINE S == a[k]
  <2>1. \A i \in S : \A j \in 1..(i - 1) : j \in S
    <3> SUFFICES ASSUME NEW i \in S, NEW j \in 1..(i - 1) PROVE j \in S
      OBVIOUS
    <3>1. i \in 1..n /\ j \in 1..n /\ j < i
      OBVIOUS
    <3>2. x[j] >= x[i] /\ x[j] \in Nat /\ x[i] \in Nat /\ y[k] \in Nat /\ x[i] >= y[k]
      BY <3>1
    <3> QED BY <3>1, <3>2
  <2>2. S \in SUBSET (1..n) /\ A[k] = Cardinality(S)
    OBVIOUS
  <2> HIDE DEF S
  <2>3. A[k] \in 0..n /\ \A i \in Nat \ {0} : i \in S <=> i <= A[k]
    BY <2>1, <2>2, Prefix
  <2>4. \A i \in 1..n : i \in Nat \ {0}
    OBVIOUS
  <2> QED BY <2>3, <2>4 DEF S
<1>2. ASSUME NEW i \in 1..n
      PROVE  B[i] \in 0..m /\ \A k \in 1..m : y[k] > x[i] <=> k <= B[i]
  <2> DEFINE S == b[i]
  <2>1. \A k \in S : \A l \in 1..(k - 1) : l \in S
    <3> SUFFICES ASSUME NEW k \in S, NEW l \in 1..(k - 1) PROVE l \in S
      OBVIOUS
    <3>1. k \in 1..m /\ l \in 1..m /\ l < k
      OBVIOUS
    <3>2. y[l] >= y[k] /\ y[l] \in Nat /\ y[k] \in Nat /\ x[i] \in Nat /\ y[k] > x[i]
      BY <3>1
    <3> QED BY <3>1, <3>2
  <2>2. S \in SUBSET (1..m) /\ B[i] = Cardinality(S)
    OBVIOUS
  <2> HIDE DEF S
  <2>3. B[i] \in 0..m /\ \A k \in Nat \ {0} : k \in S <=> k <= B[i]
    BY <2>1, <2>2, Prefix
  <2>4. \A k \in 1..m : k \in Nat \ {0}
    OBVIOUS
  <2> QED BY <2>3, <2>4 DEF S
<1>3. ASSUME NEW k \in 1..m, NEW i \in 1..n PROVE i <= A[k] <=> B[i] < k
  <2>1. A[k] \in Nat /\ B[i] \in Nat /\ x[i] \in Nat /\ y[k] \in Nat
    BY <1>1, <1>2
  <2>2. (x[i] >= y[k] <=> i <= A[k]) /\ (y[k] > x[i] <=> k <= B[i])
    BY <1>1, <1>2
  <2>3. x[i] >= y[k] <=> ~(y[k] > x[i])
    BY <2>1
  <2>4. B[i] < k <=> ~(k <= B[i])
    BY <2>1
  <2> QED BY <2>2, <2>3, <2>4
<1> QED BY <1>1, <1>2, <1>3 DEF Merging

\* What Sorted counts: the new results that go before a kept one, and the kept ones
\* that stay before a new one.
Counting(list, n, m, a, A, b, B) ==
  /\ n = Least(MaxResults, Len(list.rssi)) /\ n + m <= MaxResults
  /\ \A k \in Nat : k \in 1..m <=> k \in 1..(MaxResults - n) /\ scan.sorted[k] # NULL
  /\ \A k \in 1..m : a[k] \subseteq 1..n /\ A[k] = Cardinality(a[k])
  /\ \A k \in 1..m, i \in 1..n : i \in a[k] <=> list.rssi[i] >= Rssi(scan.sorted[k])
  /\ \A i \in 1..n : b[i] \subseteq 1..m /\ B[i] = Cardinality(b[i])
  /\ \A i \in 1..n, k \in 1..m : k \in b[i] <=> Rssi(scan.sorted[k]) > list.rssi[i]

\* Where the kept results and the new ones lie; the other places are empty.
LEMMA TableIs ==
  ASSUME NEW list, NEW channel, Len(list.rssi) \in Nat, NEW n, NEW m, NEW a, NEW A, NEW b, NEW B,
         Counting(list, n, m, a, A, b, B), Merging(n, m, A, B)
  PROVE  /\ \A k \in 1..m : k + A[k] \in Places /\ Sorted(list, channel)[k + A[k]] = scan.sorted[k]
         /\ \A i \in 1..n : i + B[i] \in Places /\ Sorted(list, channel)[i + B[i]] = Pointer(channel, list, i)
         /\ \A p \in Places : MergedAt(n, m, A, B, p) \/ Sorted(list, channel)[p] = NULL
<1> DEFINE new  == [i \in 1..Least(MaxResults, Len(list.rssi)) |-> Pointer(channel, list, i)]
           kept == {k \in 1..(MaxResults - Len(new)) : scan.sorted[k] # NULL}
           PlaceOfKept(k) == k + Cardinality({i \in DOMAIN new : list.rssi[i] >= Rssi(scan.sorted[k])})
           PlaceOfNew(i)  == i + Cardinality({k \in kept : Rssi(scan.sorted[k]) > list.rssi[i]})
           table == Sorted(list, channel)
<1>0. /\ n = Least(MaxResults, Len(list.rssi)) /\ n + m <= MaxResults
      /\ \A k \in Nat : k \in 1..m <=> k \in 1..(MaxResults - n) /\ scan.sorted[k] # NULL
      /\ \A k \in 1..m : a[k] \subseteq 1..n /\ A[k] = Cardinality(a[k])
      /\ \A k \in 1..m, i \in 1..n : i \in a[k] <=> list.rssi[i] >= Rssi(scan.sorted[k])
      /\ \A i \in 1..n : b[i] \subseteq 1..m /\ B[i] = Cardinality(b[i])
      /\ \A i \in 1..n, k \in 1..m : k \in b[i] <=> Rssi(scan.sorted[k]) > list.rssi[i]
  BY DEF Counting
<1>1. n \in Nat /\ m \in Nat /\ MaxResults \in Nat
  BY ProvAssumption DEF Merging
<1>2. DOMAIN new = 1..n /\ Len(new) = n /\ \A i \in 1..n : new[i] = Pointer(channel, list, i)
  BY <1>0, <1>1
<1>3. kept = 1..m
  <2>1. kept = {k \in 1..(MaxResults - n) : scan.sorted[k] # NULL}
    BY <1>2
  <2>2. 1..(MaxResults - n) \subseteq Nat /\ 1..m \subseteq Nat
    BY <1>1
  <2> HIDE DEF new, kept, table
  <2> QED BY <1>0, <2>1, <2>2
<1>4. \A p \in Places : table[p] = IF \E i \in DOMAIN new : PlaceOfNew(i) = p
                                   THEN new[CHOOSE i \in DOMAIN new : PlaceOfNew(i) = p]
                                   ELSE IF \E k \in kept : PlaceOfKept(k) = p
                                   THEN scan.sorted[CHOOSE k \in kept : PlaceOfKept(k) = p] ELSE NULL
  BY DEF Sorted
<1> HIDE DEF new, kept, table
<1>5. \A k \in 1..m : PlaceOfKept(k) = k + A[k]
  <2>1. \A k \in 1..m : {i \in DOMAIN new : list.rssi[i] >= Rssi(scan.sorted[k])} = a[k]
    BY <1>0, <1>2
  <2> QED BY <1>0, <2>1
<1>6. \A i \in 1..n : PlaceOfNew(i) = i + B[i]
  <2>1. \A i \in 1..n : {k \in kept : Rssi(scan.sorted[k]) > list.rssi[i]} = b[i]
    BY <1>0, <1>3
  <2> QED BY <1>0, <2>1
<1> HIDE DEF PlaceOfKept, PlaceOfNew
<1>7. /\ \A k, l \in 1..m : k < l => k + A[k] < l + A[l]
      /\ \A i, j \in 1..n : i < j => i + B[i] < j + B[j]
      /\ \A k \in 1..m, i \in 1..n : IF i <= A[k] THEN i + B[i] < k + A[k] ELSE k + A[k] < i + B[i]
      /\ \A k \in 1..m : A[k] \in Nat /\ k + A[k] \in 1..(n + m)
      /\ \A i \in 1..n : B[i] \in Nat /\ i + B[i] \in 1..(n + m)
  <2>1. \A k \in 1..m : A[k] \in Nat
    BY DEF Merging
  <2>2. \A i \in 1..n : B[i] \in Nat
    BY DEF Merging
  <2> QED BY <2>1, <2>2, MergedInOrder
<1>8. 1..(n + m) \subseteq Places
  BY <1>0, <1>1 DEF Places
<1>9. ASSUME NEW i \in 1..n PROVE i + B[i] \in Places /\ table[i + B[i]] = Pointer(channel, list, i)
  <2>1. i + B[i] \in Places
    BY <1>7, <1>8
  <2>2. PICK j \in 1..n : PlaceOfNew(j) = i + B[i] /\ table[i + B[i]] = new[j]
    BY <1>2, <1>4, <1>6, <2>1
  <2>3. j + B[j] = i + B[i]
    BY <1>6, <2>2
  <2>4. j = i
    <3>1. i \in Nat /\ j \in Nat /\ B[i] \in Nat /\ B[j] \in Nat
      BY <1>7
    <3>2. (i < j => i + B[i] < j + B[j]) /\ (j < i => j + B[j] < i + B[i])
      BY <1>7
    <3> QED BY <2>3, <3>1, <3>2
  <2> QED BY <1>2, <2>1, <2>2, <2>4
<1>10. ASSUME NEW k \in 1..m PROVE k + A[k] \in Places /\ table[k + A[k]] = scan.sorted[k]
  <2>1. k + A[k] \in Places
    BY <1>7, <1>8
  <2>2. ~ \E i \in DOMAIN new : PlaceOfNew(i) = k + A[k]
    <3> SUFFICES ASSUME NEW i \in 1..n, i + B[i] = k + A[k] PROVE FALSE
      BY <1>2, <1>6
    <3>1. i + B[i] \in Nat /\ k + A[k] \in Nat
      BY <1>7
    <3>2. i + B[i] < k + A[k] \/ k + A[k] < i + B[i]
      BY <1>7
    <3> QED BY <3>1, <3>2
  <2>3. PICK l \in 1..m : PlaceOfKept(l) = k + A[k] /\ table[k + A[k]] = scan.sorted[l]
    BY <1>3, <1>4, <1>5, <2>1, <2>2
  <2>4. l + A[l] = k + A[k]
    BY <1>5, <2>3
  <2>5. l = k
    <3>1. k \in Nat /\ l \in Nat /\ A[k] \in Nat /\ A[l] \in Nat
      BY <1>7
    <3>2. (k < l => k + A[k] < l + A[l]) /\ (l < k => l + A[l] < k + A[k])
      BY <1>7
    <3> QED BY <2>4, <3>1, <3>2
  <2> QED BY <2>1, <2>3, <2>5
<1>11. ASSUME NEW p \in Places, ~MergedAt(n, m, A, B, p) PROVE table[p] = NULL
  <2>1. ~(\E i \in DOMAIN new : PlaceOfNew(i) = p) /\ ~ \E k \in kept : PlaceOfKept(k) = p
    BY <1>2, <1>3, <1>5, <1>6, <1>11 DEF MergedAt
  <2> QED BY <1>4, <2>1
<1> QED BY <1>9, <1>10, <1>11 DEF table

\* What is listed are results of this scan, and what it has found are the places of the
\* lists of its channels.
LEMMA TableParts ==
  ASSUME IInv, TableInv, g_prov = "live"
  PROVE  /\ InStrength /\ Distinct /\ AllListed
         /\ \A k \in Listed : /\ k \in Places /\ k \in Nat \ {0} /\ scan.sorted[k] \in Pointers
                              /\ Current(scan.sorted[k]) /\ Rssi(scan.sorted[k]) \in Nat
                              /\ scan.sorted[k] \in FoundNow
         /\ Listed \subseteq Places
<1>1. InStrength /\ Distinct /\ AllListed /\ Listed \subseteq Places
  BY DEF TableInv, Listed
<1>2. ASSUME NEW k \in Listed
      PROVE  /\ k \in Places /\ k \in Nat \ {0} /\ scan.sorted[k] \in Pointers
             /\ Current(scan.sorted[k]) /\ Rssi(scan.sorted[k]) \in Nat
             /\ scan.sorted[k] \in FoundNow
  <2>1. k \in Places /\ k \in Nat \ {0}
    BY ProvAssumption DEF Listed, Places
  <2>2. scan.sorted[k] \in Pointers /\ Current(scan.sorted[k])
    BY <2>1, Known DEF IInv, ScanInv, AllCurrent, Listed
  <2>3. PICK p \in Pointers : p = scan.sorted[k]
    BY <2>2
  <2>4. /\ p.channel \in Channels /\ p = [channel |-> p.channel, id |-> p.id, i |-> p.i]
        /\ scan.ap_list[p.channel] \in Lists /\ p.id = scan.runs /\ scan.ap_list[p.channel].id = scan.runs
        /\ p.i \in DOMAIN scan.ap_list[p.channel].rssi /\ scan.ap_list[p.channel] # NULL
    <3>1. p.channel \in Channels /\ p = [channel |-> p.channel, id |-> p.id, i |-> p.i]
      BY SMTT(40) DEF Pointers
    <3> QED BY <2>2, <2>3, <3>1, Known DEF IInv, Current, Live
  <2>5. Rssi(scan.sorted[k]) \in Nat
    BY SMTT(40), <2>3, <2>4 DEF Rssi, Lists
  <2>6. p \in FoundOn(p.channel)
    BY <2>4 DEF FoundOn, Pointer
  <2>7. scan.sorted[k] \in FoundNow
    <3>1. p.channel \in Channels
      BY <2>4
    <3>2. \E c \in Channels : p \in FoundOn(c)
      BY <2>6, <3>1
    <3>3. p \in FoundNow
      BY <3>2 DEF FoundNow
    <3> QED BY <2>3, <3>3
  <2> QED BY <2>1, <2>2, <2>5, <2>7
<1> QED BY <1>1, <1>2

\* There are not more of them than were found.
LEMMA ListedAreFound ==
  ASSUME IInv, TableInv, g_prov = "live", NEW k \in Listed
  PROVE  k <= Cardinality(FoundNow)
<1> DEFINE f == [j \in 1..k |-> scan.sorted[j]]
<1>1. k \in Nat \ {0}
  BY TableParts
<1>2. \A j \in 1..k : j \in Listed
  BY <1>1, TableParts DEF InStrength
<1>3. f \in Injection(1..k, FoundNow)
  <2>1. \A j \in 1..k : scan.sorted[j] \in FoundNow
    BY <1>2, TableParts
  <2>2. \A i, j \in 1..k : scan.sorted[i] = scan.sorted[j] => i = j
    BY <1>2, TableParts DEF Distinct
  <2> QED BY <2>1, <2>2 DEF Injection, IsInjective
<1> HIDE DEF f
<1>4. Cardinality(1..k) <= Cardinality(FoundNow)
  BY <1>3, TableParts, FS_Injection DEF AllListed
<1>5. Cardinality(1..k) = k
  <2>1. 1 \in Int /\ k \in Int /\ ~(1 > k)
    BY <1>1
  <2> QED BY <2>1, FS_Interval
<1> QED BY <1>4, <1>5

\* As many of the last places as there are new results are lost; what is kept has no gap.
LEMMA KeptWithoutGap ==
  ASSUME IInv, TableInv, g_prov = "live", NEW n \in 0..MaxResults
  PROVE  \E m \in Nat : /\ {k \in 1..(MaxResults - n) : scan.sorted[k] # NULL} = 1..m
                        /\ n + m <= MaxResults
                        /\ \A k \in 1..m : k \in Listed
<1> DEFINE S == {k \in 1..(MaxResults - n) : scan.sorted[k] # NULL}
           r == MaxResults - n
<1>1. MaxResults \in Nat /\ r \in Nat /\ n \in Nat /\ r + n = MaxResults /\ 1..r \subseteq Places
  BY ProvAssumption DEF Places
<1>2. S \in SUBSET (1..r) /\ \A k \in S : k \in Listed
  BY <1>1 DEF Listed
<1>3. \A k \in S : \A j \in 1..(k - 1) : j \in S
  <2> SUFFICES ASSUME NEW k \in S, NEW j \in 1..(k - 1) PROVE j \in S
    OBVIOUS
  <2>1. k \in Listed /\ k \in 1..r
    BY <1>2
  <2>2. j \in Listed
    BY <2>1, TableParts DEF InStrength
  <2>3. j \in 1..r
    BY <1>1, <2>1
  <2> QED BY <2>2, <2>3 DEF Listed
<1> HIDE DEF S
<1> DEFINE m == Cardinality(S)
<1>4. m \in 0..r /\ \A k \in Nat \ {0} : k \in S <=> k <= m
  BY <1>1, <1>2, <1>3, Prefix DEF r
<1> HIDE DEF m, r
<1>5. S = 1..m
  <2>1. ASSUME NEW k PROVE k \in S <=> k \in 1..m
    <3>1. k \in S => k \in Nat \ {0}
      BY <1>1, <1>2
    <3>2. k \in 1..m <=> k \in Nat \ {0} /\ k <= m
      BY <1>1, <1>4
    <3> QED BY <1>4, <3>1, <3>2
  <2> QED BY <2>1
<1>6. m \in Nat /\ n + m <= MaxResults /\ \A k \in 1..m : k \in Listed
  BY <1>1, <1>2, <1>4, <1>5
<1> QED BY <1>5, <1>6 DEF S

\* The results of a channel are sorted in.
LEMMA SortedIn ==
  ASSUME IInv, TableInv, g_prov = "live",
         NEW channel \in Channels, scan.ap_list[channel] = NULL,
         NEW list \in Lists, list.id = scan.runs, list # NULL,
         \A i, j \in DOMAIN list.rssi : i < j => list.rssi[i] >= list.rssi[j],
         scan'.runs = scan.runs, scan'.ap_list = [scan.ap_list EXCEPT ![channel] = list],
         scan'.sorted = Sorted(list, channel)
  PROVE  InStrength' /\ Distinct' /\ AllListed'
<1> DEFINE L == Len(list.rssi)
           n == Least(MaxResults, L)
<1>1. /\ list.rssi \in Seq(Nat) /\ DOMAIN list.rssi = 1..L /\ L \in Nat
      /\ \A i \in 1..L : list.rssi[i] \in Nat
  BY DEF Lists
<1>2. MaxResults \in Nat /\ n \in 0..MaxResults /\ n <= L /\ (L <= MaxResults => n = L)
  BY <1>1, ProvAssumption DEF Least
<1>3. PICK m \in Nat : /\ {k \in 1..(MaxResults - n) : scan.sorted[k] # NULL} = 1..m
                       /\ n + m <= MaxResults
                       /\ \A k \in 1..m : k \in Listed
  <2> HIDE DEF n
  <2> QED BY <1>2, KeptWithoutGap
<1> DEFINE a == [k \in 1..m |-> {i \in 1..n : list.rssi[i] >= Rssi(scan.sorted[k])}]
           b == [i \in 1..n |-> {k \in 1..m : Rssi(scan.sorted[k]) > list.rssi[i]}]
           A == [k \in 1..m |-> Cardinality(a[k])]
           B == [i \in 1..n |-> Cardinality(b[i])]
           y == [k \in 1..m |-> Rssi(scan.sorted[k])]
<1>c. /\ \A k \in 1..m : a[k] \subseteq 1..n /\ A[k] = Cardinality(a[k])
      /\ \A k \in 1..m, i \in 1..n : i \in a[k] <=> list.rssi[i] >= Rssi(scan.sorted[k])
      /\ \A i \in 1..n : b[i] \subseteq 1..m /\ B[i] = Cardinality(b[i])
      /\ \A i \in 1..n, k \in 1..m : k \in b[i] <=> Rssi(scan.sorted[k]) > list.rssi[i]
  <2> HIDE DEF n
  <2> QED OBVIOUS
<1> HIDE DEF a, b, A, B
<1>4. /\ Merging(n, m, A, B)
      /\ \A k \in 1..m, i \in 1..n : i <= A[k] <=> list.rssi[i] >= Rssi(scan.sorted[k])
  <2> DEFINE x == list.rssi
  <2>1. \A i \in 1..n : i \in 1..L /\ x[i] \in Nat
    BY <1>1, <1>2
  <2>2. \A k \in 1..m : y[k] \in Nat /\ y[k] = Rssi(scan.sorted[k])
    BY <1>3, TableParts
  <2>3. \A i, j \in 1..n : i < j => x[i] >= x[j]
    BY <1>1, <2>1
  <2>4. \A k, l \in 1..m : k < l => y[k] >= y[l]
    <3> SUFFICES ASSUME NEW k \in 1..m, NEW l \in 1..m, k < l PROVE y[k] >= y[l]
      OBVIOUS
    <3>1. l \in Listed /\ k \in 1..(l - 1)
      BY <1>3
    <3>2. Rssi(scan.sorted[k]) >= Rssi(scan.sorted[l])
      BY <3>1, TableParts DEF InStrength
    <3> QED BY <2>2, <3>2
  <2>5. /\ \A k \in 1..m, i \in 1..n : i \in a[k] <=> x[i] >= y[k]
        /\ \A i \in 1..n, k \in 1..m : k \in b[i] <=> y[k] > x[i]
    BY <1>c, <2>2
  <2>6. n \in Nat
    BY <1>2
  <2> HIDE DEF x, y, n
  <2>7. Merging(n, m, A, B) /\ \A k \in 1..m, i \in 1..n : i <= A[k] <=> x[i] >= y[k]
    <3>1. Counted(n, m, x, y, a, A, b, B)
      BY <1>c, <2>1, <2>2, <2>3, <2>4, <2>5, <2>6 DEF Counted
    <3> QED BY <3>1, CountsMerge
  <2> QED BY <2>2, <2>7 DEF x
<1>5. /\ \A k \in 1..m : k + A[k] \in Places /\ scan'.sorted[k + A[k]] = scan.sorted[k]
      /\ \A i \in 1..n : i + B[i] \in Places /\ scan'.sorted[i + B[i]] = Pointer(channel, list, i)
      /\ \A p \in Places : MergedAt(n, m, A, B, p) \/ scan'.sorted[p] = NULL
  <2> DEFINE table == Sorted(list, channel)
  <2>1. /\ \A k \in 1..m : k + A[k] \in Places /\ table[k + A[k]] = scan.sorted[k]
        /\ \A i \in 1..n : i + B[i] \in Places /\ table[i + B[i]] = Pointer(channel, list, i)
        /\ \A p \in Places : MergedAt(n, m, A, B, p) \/ table[p] = NULL
    <3>1. Len(list.rssi) \in Nat
      BY <1>1
    <3>2. Counting(list, n, m, a, A, b, B)
      <4>1. n = Least(MaxResults, Len(list.rssi))
        OBVIOUS
      <4> HIDE DEF n, L
      <4>2. \A k \in Nat : k \in 1..m <=> k \in 1..(MaxResults - n) /\ scan.sorted[k] # NULL
        BY <1>3
      <4> QED BY <1>c, <1>3, <4>1, <4>2 DEF Counting
    <3> HIDE DEF n, L
    <3> QED BY <1>4, <3>1, <3>2, TableIs
  <2> HIDE DEF table
  <2>2. scan'.sorted = table
    BY DEF table
  <2> QED BY <2>1, <2>2
<1> HIDE DEF n, L, y
\* A kept result is in the list of another channel; a new one is in this list.
<1>6. \A k \in 1..m : /\ scan.sorted[k] # NULL /\ scan.sorted[k].channel # channel
                      /\ scan.sorted[k].channel \in Channels
                      /\ scan'.ap_list[scan.sorted[k].channel] = scan.ap_list[scan.sorted[k].channel]
  <2> SUFFICES ASSUME NEW k \in 1..m
               PROVE  /\ scan.sorted[k] # NULL /\ scan.sorted[k].channel # channel
                      /\ scan.sorted[k].channel \in Channels
                      /\ scan'.ap_list[scan.sorted[k].channel] = scan.ap_list[scan.sorted[k].channel]
    OBVIOUS
  <2>1. k \in Listed /\ scan.sorted[k] \in Pointers /\ Current(scan.sorted[k])
    BY <1>3, TableParts
  <2>2. scan.sorted[k] # NULL /\ scan.sorted[k].channel # channel /\ scan.sorted[k].channel \in Channels
    BY <2>1 DEF Listed, Current, Live, Pointers
  <2>3. scan.ap_list \in [Channels -> Lists \cup {NULL}]
    BY Known DEF IInv
  <2> QED BY <2>2, <2>3
<1>7. scan'.ap_list[channel] = list
  <2>1. scan.ap_list \in [Channels -> Lists \cup {NULL}]
    BY Known DEF IInv
  <2> QED BY <2>1
<1>8. \A i \in 1..n : /\ Pointer(channel, list, i) # NULL
                      /\ Pointer(channel, list, i).channel = channel /\ Pointer(channel, list, i).i = i
                      /\ Pointer(channel, list, i).id = scan.runs
  <2> SUFFICES ASSUME NEW i \in 1..n
               PROVE  /\ Pointer(channel, list, i) # NULL
                      /\ Pointer(channel, list, i).channel = channel /\ Pointer(channel, list, i).i = i
                      /\ Pointer(channel, list, i).id = scan.runs
    OBVIOUS
  <2>1. /\ Pointer(channel, list, i).channel = channel /\ Pointer(channel, list, i).i = i
        /\ Pointer(channel, list, i).id = scan.runs
    BY DEF Pointer
  <2>2. Pointer(channel, list, i) # NULL
    <3> DEFINE p == Pointer(channel, list, i)
    <3>1. DOMAIN p = {"channel", "id", "i"} /\ DOMAIN NULL = {"null"}
      BY DEF Pointer, NULL
    <3>2. "id" \notin {"null"}
      OBVIOUS
    <3> HIDE DEF p
    <3>3. p # NULL
      BY <3>1, <3>2
    <3> QED BY <3>3 DEF p
  <2> QED BY <2>1, <2>2
<1>9. \A p \in Places : scan'.sorted[p] # NULL <=> MergedAt(n, m, A, B, p)
  BY SMTT(40), <1>5, <1>6, <1>8 DEF MergedAt
\* How strong a result is.
<1> DEFINE Strength(p) == scan'.ap_list[scan'.sorted[p].channel].rssi[scan'.sorted[p].i]
<1>10. \A k \in 1..m : Strength(k + A[k]) = Rssi(scan.sorted[k])
  BY <1>5, <1>6 DEF Rssi
<1>11. \A i \in 1..n : Strength(i + B[i]) = list.rssi[i]
  BY <1>5, <1>7, <1>8
<1> HIDE DEF Strength
<1>12. /\ \A k, l \in 1..m : k < l => k + A[k] < l + A[l]
       /\ \A i, j \in 1..n : i < j => i + B[i] < j + B[j]
       /\ \A k \in 1..m, i \in 1..n : IF i <= A[k] THEN i + B[i] < k + A[k] ELSE k + A[k] < i + B[i]
  BY <1>4, MergedInOrder
<1>13. InStrength'
  <2> SUFFICES ASSUME NEW q \in Listed', NEW p \in 1..(q - 1)
               PROVE  p \in Listed' /\ Strength(p) >= Strength(q)
    BY DEF InStrength, Rssi, Strength
  <2>1. q \in Places /\ q \in Nat /\ MergedAt(n, m, A, B, q)
    BY <1>2, <1>9 DEF Listed, Places
  <2>2. MergedAt(n, m, A, B, p)
    BY <1>4, <2>1, MergedWithoutGap
  <2>3. p \in Places /\ p \in Nat /\ p < q
    BY <1>2, <2>1 DEF Places
  <2>4. p \in Listed'
    BY <1>9, <2>2, <2>3 DEF Listed
  <2>5. n \in Nat /\ \A k \in 1..m : A[k] \in 0..n
    BY <1>4 DEF Merging
  <2>6. \A i \in 1..n : B[i] \in 0..m
    BY <1>4 DEF Merging
  <2>7. ASSUME NEW k \in 1..m, k + A[k] = p, NEW l \in 1..m, l + A[l] = q PROVE Strength(p) >= Strength(q)
    <3>1. k < l
      <4>1. k = l \/ k < l \/ l < k
        BY <1>3
      <4> QED BY <1>12, <2>1, <2>3, <2>7, <4>1
    <3>2. l \in Listed /\ k \in 1..(l - 1)
      BY <1>3, <3>1
    <3>3. Rssi(scan.sorted[k]) >= Rssi(scan.sorted[l])
      BY <3>2, TableParts DEF InStrength
    <3> QED BY <1>10, <2>7, <3>3
  <2>8. ASSUME NEW i \in 1..n, i + B[i] = p, NEW j \in 1..n, j + B[j] = q PROVE Strength(p) >= Strength(q)
    <3>1. i < j
      <4>1. i = j \/ i < j \/ j < i
        BY <2>5
      <4> QED BY <1>12, <2>1, <2>3, <2>8, <4>1
    <3>2. i \in DOMAIN list.rssi /\ j \in DOMAIN list.rssi
      BY <1>1, <1>2
    <3>3. list.rssi[i] >= list.rssi[j]
      BY <3>1, <3>2
    <3> QED BY <1>11, <2>8, <3>3
  <2>9. ASSUME NEW k \in 1..m, k + A[k] = p, NEW i \in 1..n, i + B[i] = q PROVE Strength(p) >= Strength(q)
    <3>1. ~(i <= A[k])
      <4>1. i <= A[k] => q < p
        BY <1>12, <2>9
      <4> QED BY <2>1, <2>3, <4>1
    <3>2. list.rssi[i] \in Nat /\ Rssi(scan.sorted[k]) \in Nat
      BY <1>1, <1>2, <1>3, TableParts
    <3>3. Rssi(scan.sorted[k]) >= list.rssi[i]
      BY <1>4, <3>1, <3>2
    <3> QED BY <1>10, <1>11, <2>9, <3>3
  <2>10. ASSUME NEW i \in 1..n, i + B[i] = p, NEW k \in 1..m, k + A[k] = q PROVE Strength(p) >= Strength(q)
    <3>1. i <= A[k]
      <4>1. ~(i <= A[k]) => q < p
        BY <1>12, <2>10
      <4> QED BY <2>1, <2>3, <4>1
    <3>2. list.rssi[i] >= Rssi(scan.sorted[k])
      BY <1>4, <3>1
    <3> QED BY <1>10, <1>11, <2>10, <3>2
  <2>11. Strength(p) >= Strength(q)
    BY <2>1, <2>2, <2>7, <2>8, <2>9, <2>10 DEF MergedAt
  <2> QED BY <2>4, <2>11
<1>14. Distinct'
  <2> SUFFICES ASSUME NEW p \in Listed', NEW q \in Listed', scan'.sorted[p] = scan'.sorted[q] PROVE p = q
    BY DEF Distinct
  <2>1. MergedAt(n, m, A, B, p) /\ MergedAt(n, m, A, B, q)
    BY <1>9 DEF Listed
  <2>2. ASSUME NEW k \in 1..m, k + A[k] = p, NEW l \in 1..m, l + A[l] = q PROVE p = q
    <3>1. k \in Listed /\ l \in Listed /\ scan.sorted[k] = scan.sorted[l]
      BY <1>3, <1>5, <2>2
    <3>2. k = l
      BY <3>1, TableParts DEF Distinct
    <3> QED BY <2>2, <3>2
  <2>3. ASSUME NEW i \in 1..n, i + B[i] = p, NEW j \in 1..n, j + B[j] = q PROVE p = q
    <3>1. Pointer(channel, list, i) = Pointer(channel, list, j)
      BY <1>5, <2>3
    <3>2. i = j
      BY <1>8, <3>1
    <3> QED BY <2>3, <3>2
  <2>4. ASSUME NEW k \in 1..m, NEW i \in 1..n, scan.sorted[k] = Pointer(channel, list, i) PROVE FALSE
    BY <1>6, <1>8, <2>4
  <2>5. ASSUME NEW k \in 1..m, NEW i \in 1..n PROVE scan'.sorted[k + A[k]] # scan'.sorted[i + B[i]]
    BY <1>5, <2>4
  <2> QED BY <2>1, <2>2, <2>3, <2>5 DEF MergedAt
<1>15. AllListed'
  <2> DEFINE N == {Pointer(channel, list, i) : i \in 1..L}
  <2>1. FoundNow' = FoundNow \cup N
    <3>1. ASSUME NEW c \in Channels, c # channel PROVE FoundOn(c)' = FoundOn(c)
      <4>1. scan'.ap_list[c] = scan.ap_list[c]
        BY <3>1, Known DEF IInv
      <4> QED BY <4>1 DEF FoundOn
    <3>2. FoundOn(channel) = {}
      BY DEF FoundOn
    <3>3. FoundOn(channel)' = N
      BY <1>1, <1>7 DEF FoundOn
    <3> HIDE DEF N
    <3>4. ASSUME NEW p PROVE p \in FoundNow' <=> p \in FoundNow \/ p \in N
      <4>1. p \in FoundNow' <=> \E c \in Channels : p \in FoundOn(c)'
        BY DEF FoundNow
      <4>2. p \in FoundNow <=> \E c \in Channels : p \in FoundOn(c)
        BY DEF FoundNow
      <4> QED BY <3>1, <3>2, <3>3, <4>1, <4>2
    <3> QED BY <3>4
  <2>2. FoundNow \cap N = {}
    <3> SUFFICES ASSUME NEW c \in Channels, NEW p \in FoundOn(c), p \in N PROVE FALSE
      BY DEF FoundNow
    <3>1. p.channel = channel
      BY DEF Pointer
    <3>2. c # channel
      BY DEF FoundOn
    <3>3. p.channel = c
      BY DEF FoundOn, Pointer
    <3> QED BY <3>1, <3>2, <3>3
  <2>3. IsFiniteSet(N) /\ Cardinality(N) = L
    <3> DEFINE f == [i \in 1..L |-> Pointer(channel, list, i)]
    <3>1. \A i \in 1..L : Pointer(channel, list, i).i = i
      BY DEF Pointer
    <3>2. f \in Bijection(1..L, N)
      <4>1. f \in Injection(1..L, N)
        BY <3>1 DEF Injection, IsInjective
      <4>2. f \in Surjection(1..L, N)
        BY DEF Surjection
      <4> QED BY <4>1, <4>2 DEF Bijection
    <3> HIDE DEF f, N
    <3>3. ExistsBijection(1..L, N)
      BY <3>2 DEF ExistsBijection
    <3>4. IsFiniteSet(1..L) /\ Cardinality(1..L) = L
      <4>1. 1 \in Int /\ L \in Int /\ (1 > L => L = 0)
        BY <1>1
      <4> QED BY <4>1, FS_Interval
    <3> QED BY <3>3, <3>4, FS_Bijection
  <2>4. IsFiniteSet(FoundNow) /\ Cardinality(FoundNow) \in Nat
    BY TableParts, FS_CardinalityType DEF AllListed
  <2> HIDE DEF N
  <2>5. IsFiniteSet(FoundNow') /\ Cardinality(FoundNow') = Cardinality(FoundNow) + L
    <3>1. Cardinality(FoundNow \cap N) = 0
      BY <2>2, FS_EmptySet
    <3>2. /\ IsFiniteSet(FoundNow \cup N)
          /\ Cardinality(FoundNow \cup N) = Cardinality(FoundNow) + Cardinality(N) - Cardinality(FoundNow \cap N)
      BY <2>3, <2>4, FS_Union
    <3> QED BY <1>1, <2>1, <2>3, <2>4, <3>1, <3>2
  <2>6. ASSUME Cardinality(FoundNow') <= MaxResults, NEW p \in FoundNow'
        PROVE  \E q \in Listed' : scan'.sorted[q] = p
    <3>1. L = n /\ Cardinality(FoundNow) <= MaxResults - n /\ Cardinality(FoundNow) <= MaxResults
      BY <1>1, <1>2, <2>4, <2>5, <2>6
    <3>2. CASE p \in N
      <4>1. PICK i \in 1..n : p = Pointer(channel, list, i)
        BY <3>1, <3>2 DEF N
      <4>2. i + B[i] \in Listed' /\ scan'.sorted[i + B[i]] = p
        BY <1>5, <1>8, <4>1 DEF Listed
      <4> QED BY <4>2
    <3>3. CASE p \in FoundNow
      <4>1. PICK k \in Listed : scan.sorted[k] = p
        BY <3>1, <3>3, TableParts DEF AllListed
      <4>2. k <= Cardinality(FoundNow) /\ k \in Nat \ {0}
        BY TableParts, ListedAreFound
      <4>3. k \in 1..m
        BY <1>2, <1>3, <2>4, <3>1, <4>1, <4>2 DEF Listed
      <4>4. k + A[k] \in Listed' /\ scan'.sorted[k + A[k]] = p
        BY <1>5, <1>6, <4>1, <4>3 DEF Listed
      <4> QED BY <4>4
    <3> QED BY <2>1, <2>6, <3>2, <3>3
  <2> QED BY <2>5, <2>6 DEF AllListed
<1> QED BY <1>13, <1>14, <1>15

---------------------------------------------------------------------------
(* The table through the steps.                                             *)

\* The table, what was found and how strong it is stay.
LEMMA TableKept ==
  ASSUME TableInv, g_prov' = "live" => g_prov = "live", scan'.sorted = scan.sorted,
         \A c \in Channels : FoundOn(c)' = FoundOn(c),
         \A k \in Listed : Rssi(scan.sorted[k])' = Rssi(scan.sorted[k])
  PROVE  TableInv'
<1> SUFFICES ASSUME g_prov = "live", InStrength, Distinct, AllListed
             PROVE  InStrength' /\ Distinct' /\ AllListed'
  BY DEF TableInv
<1>1. Listed' = Listed
  BY DEF Listed
<1>2. FoundNow' = FoundNow
  <2>1. ASSUME NEW p PROVE p \in FoundNow' <=> p \in FoundNow
    BY DEF FoundNow
  <2> QED BY <2>1
<1>3. InStrength'
  <2> SUFFICES ASSUME NEW j \in Listed, NEW i \in 1..(j - 1)
               PROVE  i \in Listed /\ Rssi(scan.sorted[i])' >= Rssi(scan.sorted[j])'
    BY <1>1 DEF InStrength
  <2>1. i \in Listed /\ Rssi(scan.sorted[i]) >= Rssi(scan.sorted[j])
    BY DEF InStrength
  <2> QED BY <2>1
<1>4. Distinct'
  BY <1>1 DEF Distinct
<1>5. AllListed'
  BY <1>1, <1>2 DEF AllListed
<1> QED BY <1>3, <1>4, <1>5

\* So they do when the lists stay.
LEMMA TableAlone ==
  ASSUME TableInv, g_prov' = "live" => g_prov = "live",
         scan'.sorted = scan.sorted, scan'.ap_list = scan.ap_list, scan'.runs = scan.runs
  PROVE  TableInv'
<1>1. \A c \in Channels : FoundOn(c)' = FoundOn(c)
  BY DEF FoundOn
<1>2. \A k \in Listed : Rssi(scan.sorted[k])' = Rssi(scan.sorted[k])
  BY DEF Rssi
<1> QED BY <1>1, <1>2, TableKept

\* An empty table, and nothing found.
LEMMA TableEmpty ==
  ASSUME \A i \in Places : scan'.sorted[i] = NULL, \A c \in Channels : FoundOn(c)' = {}
  PROVE  TableInv'
<1>1. Listed' = {} /\ FoundNow' = {}
  BY DEF Listed, FoundNow
<1>2. IsFiniteSet(FoundNow')
  BY <1>1, FS_EmptySet
<1> QED BY <1>1, <1>2 DEF TableInv, InStrength, Distinct, AllListed

\* A scan is started: its results are none yet, and the lists are of earlier ones.
LEMMA ScanStartTable ==
  ASSUME IInv, ScanStart
  PROVE  TableInv'
<1>1. /\ http.pc = "start"
      /\ scan' = [scan EXCEPT !.runs = scan.runs + 1, !.sorted = [i \in Places |-> NULL],
                              !.channels_per_group = http.group,
                              !.cfg_channel = IF http.group = 0 THEN 0 ELSE 1]
  BY DEF ScanStart, Cleared
<1>2. scan'.ap_list = scan.ap_list /\ scan'.runs = scan.runs + 1 /\ \A i \in Places : scan'.sorted[i] = NULL
  <2>1. scan \in Scans
    BY DEF IInv, Typed
  <2>2. scan'.ap_list = scan.ap_list /\ scan'.runs = scan.runs + 1
    BY <1>1, <2>1 DEF Scans
  <2>3. scan'.sorted = [i \in Places |-> NULL]
    BY <1>1, <2>1 DEF Scans
  <2> QED BY <2>2, <2>3
<1>3. ASSUME NEW c \in Channels PROVE FoundOn(c)' = {}
  <2>1. g_prov = "live"
    BY <1>1 DEF IInv, StopInv, InTurn
  <2>2. scan.ap_list[c] # NULL => scan.ap_list[c].id <= scan.runs /\ scan.ap_list[c].id \in Nat
    BY <2>1, Known DEF IInv, ScanInv, ToCome, Lists
  <2>3. scan.ap_list[c] # NULL => scan.ap_list[c].id # scan.runs + 1
    BY <2>2, Known DEF IInv
  <2> QED BY <1>2, <2>3 DEF FoundOn
<1> QED BY <1>2, <1>3, TableEmpty

\* The list that is freed is of an earlier scan.
LEMMA TakeTable ==
  ASSUME IInv, TableInv, Take
  PROVE  TableInv'
<1>1. CASE scan' = scan
  BY <1>1, TableAlone DEF Take, HandlerEnv
<1>2. CASE /\ g_prov = "live" /\ g_prov' = g_prov /\ handler.pc = "idle" /\ events # <<>> /\ Event.id = "scan_done"
           /\ scan' = [scan EXCEPT !.ap_list[scan.curr_channel] = NULL]
  <2>1. scan \in Scans /\ scan.curr_channel \in Channels /\ scan.ap_list \in [Channels -> Lists \cup {NULL}]
    BY Known DEF IInv, Typed
  <2>2. scan'.ap_list = [scan.ap_list EXCEPT ![scan.curr_channel] = NULL]
    BY <1>2, <2>1 DEF Scans
  <2>3. scan'.runs = scan.runs /\ scan'.sorted = scan.sorted
    BY <1>2, <2>1 DEF Scans
  <2>4. /\ scan'.ap_list[scan.curr_channel] = NULL
        /\ \A c \in Channels : c # scan.curr_channel => scan'.ap_list[c] = scan.ap_list[c]
    BY <2>1, <2>2
  <2>5. Old(scan.curr_channel)
    <3>1. Queued("scan_done")
      <4>1. events \in Seq(Events) /\ 1 \in DOMAIN events /\ events[1] = Event
        <5>1. events \in Seq(Events)
          BY DEF IInv, Typed
        <5> QED BY <1>2, <5>1 DEF Event
      <4> QED BY <1>2, <4>1 DEF Queued
    <3>2. http.pc # "started"
      BY <1>2, <3>1 DEF IInv, ScanInv, OnePlace
    <3>3. scan.curr_channel \in Nat
      BY <2>1, Channel0
    <3> QED BY <1>2, <2>1, <3>1, <3>2, <3>3 DEF IInv, ScanInv, ToCome
  <2>6. scan.ap_list[scan.curr_channel] = NULL \/ scan.ap_list[scan.curr_channel].id # scan.runs
    <3>1. scan.runs \in Nat
      BY Known DEF IInv
    <3> QED BY <2>5, <3>1 DEF Old
  <2>7. ASSUME NEW c \in Channels PROVE FoundOn(c)' = FoundOn(c)
    <3>1. CASE c = scan.curr_channel
      BY <2>4, <2>6, <3>1 DEF FoundOn
    <3>2. CASE c # scan.curr_channel
      BY SMTT(40), <2>3, <2>4, <3>2 DEF FoundOn
    <3> QED BY <3>1, <3>2
  <2>8. ASSUME NEW k \in Listed PROVE Rssi(scan.sorted[k])' = Rssi(scan.sorted[k])
    <3>1. scan.sorted[k] \in Pointers /\ Current(scan.sorted[k])
      BY <1>2, TableParts
    <3>2. scan.sorted[k].channel \in Channels /\ scan.sorted[k].channel # scan.curr_channel
      BY <2>6, <3>1 DEF Pointers, Current, Live
    <3> QED BY <2>3, <2>4, <3>2 DEF Rssi
  <2> QED BY <1>2, <2>3, <2>7, <2>8, TableKept
<1> QED BY <1>1, <1>2 DEF Take, HandlerEnv, data

\* The records of a channel are sorted in.
LEMMA RecordsTable ==
  ASSUME IInv, TableInv, Records
  PROVE  TableInv'
<1> DEFINE list == [id |-> scan.runs, rssi |-> driver.found]
           channel == scan.curr_channel
<1>1. /\ handler.pc = "records" /\ g_prov' = g_prov
      /\ \/ scan' = [scan EXCEPT !.ap_list[channel] = list, !.sorted = Sorted(list, channel)]
         \/ scan' = scan
  BY DEF Records, HandlerEnv
<1>2. g_prov = "live" /\ channel \in Channels /\ scan.ap_list[channel] = NULL
  <2>1. g_prov = "live"
    BY <1>1 DEF IInv, StopInv, InTurn
  <2> QED BY <1>1, <2>1, Known DEF IInv, ScanInv, ToCome
<1>3. CASE scan' = scan
  BY <1>1, <1>3, TableAlone
<1>4. CASE scan' = [scan EXCEPT !.ap_list[channel] = list, !.sorted = Sorted(list, channel)]
  <2>1. driver.found \in Seq(Nat) /\ \A i, j \in DOMAIN driver.found : i < j => driver.found[i] >= driver.found[j]
    <3>1. CASE driver.found \in Found
      BY <3>1, ProvAssumption
    <3>2. CASE driver.found = <<>>
      BY <3>2
    <3> QED BY <3>1, <3>2, Known DEF IInv
  <2>2. list \in Lists /\ list # NULL /\ list.id = scan.runs /\ list.rssi = driver.found
    BY <2>1, ListNotNull, Known DEF IInv, Lists
  <2> HIDE DEF list
  <2>3. /\ scan'.ap_list = [scan.ap_list EXCEPT ![channel] = list]
        /\ scan'.sorted = Sorted(list, channel) /\ scan'.runs = scan.runs
    <3>1. scan \in Scans
      BY DEF IInv, Typed
    <3> QED BY <1>4, <3>1 DEF Scans
  <2> HIDE DEF channel
  <2> QED BY <1>2, <2>1, <2>2, <2>3, SortedIn DEF TableInv
<1> QED BY <1>1, <1>3, <1>4

\* The scan goes on to the next channel.
LEMMA NextChannelTable ==
  ASSUME IInv, TableInv, NextChannel
  PROVE  TableInv'
<1>1. scan \in Scans
  BY DEF IInv, Typed
<1>2. g_prov' = g_prov
  BY DEF NextChannel, HandlerEnv
<1>3. scan'.sorted = scan.sorted /\ scan'.ap_list = scan.ap_list /\ scan'.runs = scan.runs
  BY <1>1 DEF NextChannel, Scans
<1> QED BY <1>2, <1>3, TableAlone

LEMMA TableStep ==
  ASSUME IInv, TableInv, [Next]_vars
  PROVE  TableInv'
<1>1. CASE UNCHANGED vars
  BY <1>1, TableAlone DEF vars, data
<1>2. CASE Start
  <2>1. scan' = NewScan
    BY <1>2 DEF Start
  <2>2. \A c \in Channels : FoundOn(c)' = {}
    BY <2>1 DEF NewScan, FoundOn
  <2> QED BY <2>1, <2>2, TableEmpty DEF NewScan
<1>3. CASE Phone
  BY <1>3, TableAlone DEF Phone, ScanAsked, ResultAsked, Apply, Leave, data
<1>4. CASE StatusAsked
  BY <1>4, TableAlone DEF StatusAsked, data
<1>5. CASE Work
  <2>1. CASE ScanStart
    BY <2>1, ScanStartTable
  <2>2. CASE ScanStarted
    <3>1. scan \in Scans
      BY DEF IInv, Typed
    <3>2. scan'.sorted = scan.sorted /\ scan'.ap_list = scan.ap_list /\ scan'.runs = scan.runs
      BY <2>2, <3>1 DEF ScanStarted, Scans
    <3> QED BY <2>2, <3>2, TableAlone DEF ScanStarted
  <2>3. CASE ScanPolled \/ ResultCopied \/ Applied \/ ProvDone
    BY <2>3, TableAlone DEF ScanPolled, ResultCopied, Applied, ProvDone, data
  <2> QED BY <1>5, <2>1, <2>2, <2>3 DEF Work
<1>6. CASE Driver
  BY <1>6, TableAlone DEF Driver, ScanDone, Attempt, Loss, DriverEnv, data
<1>7. CASE Handler
  <2>1. CASE Take
    BY <2>1, TakeTable
  <2>2. CASE Arm \/ Disconnect \/ Reason \/ Count
    BY <2>2, TableAlone DEF Arm, Disconnect, Reason, Count, HandlerEnv, data
  <2>3. CASE Records
    BY <2>3, RecordsTable
  <2>4. CASE NextChannel
    BY <2>4, NextChannelTable
  <2> QED BY <1>7, <2>1, <2>2, <2>3, <2>4 DEF Handler
<1>8. CASE TimerFires
  BY <1>8, TableAlone DEF TimerFires, data
<1>9. CASE StopTask
  <2>1. CASE StopService \/ StopTimer
    BY <2>1, TableAlone DEF StopService, StopTimer, data
  <2>2. CASE StopFree \/ StopClear
    BY <2>2 DEF StopFree, StopClear, TableInv
  <2> QED BY <1>9, <2>1, <2>2 DEF StopTask
<1> QED BY <1>1, <1>2, <1>3, <1>4, <1>5, <1>6, <1>7, <1>8, <1>9 DEF Next

\* A step in which nothing changes.
LEMMA NoStep ==
  ASSUME IInv, UNCHANGED vars
  PROVE  IInv'
<1>1. /\ g_prov' = g_prov /\ lock' = lock /\ scan' = scan /\ sta' = sta /\ timer' = timer
      /\ driver' = driver /\ events' = events /\ http' = http /\ handler' = handler
      /\ stop' = stop /\ phone' = phone /\ late' = late
  BY DEF vars, data, tasks
<1>2. Typed'
  BY <1>1 DEF IInv, Typed
<1>3. StopInv'
  BY <1>1 DEF IInv, StopInv, Before, InTurn, OneOrder, StoppedTwice, Waits
<1>4. InQueue'
  BY <1>1 DEF IInv, InQueue, InOrder
<1>5. ScanInv'
  BY <1>1, ScanKept DEF ScanStays, Handling, Queued
<1>6. StationInv'
  BY <1>1, StationKept DEF StationStays, Cutting, Queued
<1> QED BY <1>2, <1>3, <1>4, <1>5, <1>6 DEF IInv

\* The invariant holds before provisioning is started.
LEMMA InitStep == Init => IInv
<1> SUFFICES ASSUME Init PROVE IInv
  OBVIOUS
<1>1. scan \in Scans
  BY Channel0 DEF Init, NewScan, Scans
<1>2. sta \in Stations /\ phone \in Phones
  BY DEF Init, NewSta, NewPhone, Stations, Phones, Results
<1>3. driver \in Drivers
  BY DEF Init, Drivers
<1>4. http \in Requests /\ handler \in Handlers
  BY DEF Init, Requests, Handlers
<1>5. events \in Seq(Events) /\ ~Queued("got_ip") /\ ~Queued("disconnected")
  BY DEF Init, Queued
<1>6. Typed
  BY <1>1, <1>2, <1>3, <1>4, <1>5 DEF Init, Typed
<1>7. StopInv
  BY DEF Init, StopInv, Before, InTurn, OneOrder, StoppedTwice, Waits, NewPhone, NewSta
<1>8. InQueue /\ ScanInv
  BY DEF Init, InQueue, ScanInv, OnePlace, ToCome, AllCurrent
<1>9. StationInv
  BY DEF Init, StationInv, NotTwice, Untouched, IsConnected, IsConnecting, IsIdle, Orderly
<1> QED BY <1>6, <1>7, <1>8, <1>9 DEF IInv

---------------------------------------------------------------------------
(* The theorems.                                                            *)

\* With a driver slower than its caller the invariant always holds.
THEOREM Invariance == Prompt => (Spec => []IInv)
<1> SUFFICES ASSUME Prompt PROVE Spec => []IInv
  OBVIOUS
<1>1. Init => IInv
  BY InitStep
<1>2. IInv /\ [Next]_vars => IInv'
  <2> SUFFICES ASSUME IInv, [Next]_vars PROVE IInv'
    OBVIOUS
  <2>1. CASE Start
    BY <2>1, StartStep
  <2>2. CASE Phone
    BY <2>2, ScanAskedStep, ResultAskedStep, ApplyStep, LeaveStep DEF Phone
  <2>3. CASE StatusAsked
    BY <2>3, StatusAskedStep
  <2>4. CASE Work
    BY <2>4, ScanStartStep, ScanStartedStep, ScanPolledStep, ResultCopiedStep, AppliedStep, ProvDoneStep DEF Work
  <2>5. CASE Driver
    BY <2>5, ScanDoneStep, AttemptStep, LossStep DEF Driver
  <2>6. CASE Handler
    BY <2>6, TakeStep, ArmStep, DisconnectStep, ReasonStep, CountStep, RecordsStep, NextChannelStep DEF Handler
  <2>7. CASE TimerFires
    BY <2>7, TimerFiresStep
  <2>8. CASE StopTask
    BY <2>8, StopServiceStep, StopTimerStep, StopFreeStep, StopClearStep DEF StopTask
  <2>9. CASE UNCHANGED vars
    BY <2>9, NoStep
  <2> QED BY <2>1, <2>2, <2>3, <2>4, <2>5, <2>6, <2>7, <2>8, <2>9 DEF Next
<1> QED BY <1>1, <1>2, PTL DEF Spec

\* The stop task, of which there is one, frees what nobody uses any more: no request is
\* served without g_prov, and a scan result that is listed or being copied lies in a list
\* that is still there (conn_mgr_prov.c:202-254, 279-283, 474-477).
THEOREM FreedTheorem == Prompt => (Spec => []FreedInTurn)
<1> SUFFICES ASSUME Prompt PROVE Spec => []FreedInTurn
  OBVIOUS
<1>1. IInv => FreedInTurn
  <2> SUFFICES ASSUME IInv PROVE FreedInTurn
    OBVIOUS
  <2>1. ProvTypeOK
    BY DEF IInv, Typed, ProvTypeOK, Scans, Stations, Results, Requests, Handlers
  <2>2. NothingFreedIsUsed
    BY DEF IInv, StopInv, InTurn, ScanInv, AllCurrent, Current, NothingFreedIsUsed
  <2>3. StoppedOnce
    BY DEF IInv, StopInv, OneOrder, StoppedOnce
  <2> QED BY <2>1, <2>2, <2>3 DEF FreedInTurn
<1> QED BY <1>1, Invariance, PTL

\* With nothing under way, the state and the reason the phone is told are the station's
\* (conn_mgr_prov.c:395-440, 688).
THEOREM StateTheorem == Prompt => (Spec => []StateIsTrue)
<1> SUFFICES ASSUME Prompt PROVE Spec => []StateIsTrue
  OBVIOUS
<1>1. IInv => StateIsTrue
  <2> SUFFICES ASSUME IInv, g_prov = "live", events = <<>>, handler.pc = "idle", http.pc = "idle", driver.network # "none"
               PROVE  CASE driver.station = "connected"  -> sta.state = "connected"
                        [] driver.station = "connecting" -> sta.state = "connecting"
                        [] OTHER -> sta.state = "disconnected" /\ sta.reason = driver.why
    BY DEF StateIsTrue
  <2>1. ~Queued("got_ip") /\ ~Queued("disconnected") /\ ~Cutting
    BY DEF Queued, Cutting
  <2>2. driver.station = "connected" => sta.state = "connected"
    BY <2>1 DEF IInv, StationInv, IsConnected
  <2>3. driver.station = "connecting" => sta.state = "connecting"
    BY DEF IInv, StationInv, IsConnecting
  <2>4. driver.station = "idle" => sta.state = "disconnected" /\ sta.reason = driver.why
    BY <2>1 DEF IInv, StationInv, IsIdle, Told, Taken, Noted
  <2>5. driver.station \in {"idle", "connecting", "connected"}
    BY Known DEF IInv
  <2> QED BY <2>2, <2>3, <2>4, <2>5
<1> QED BY <1>1, Invariance, PTL

\* The results are in order of strength without a gap, and as long as there is room for
\* all that a scan has found it lists all (conn_mgr_prov.c:327-347).
THEOREM StrongestTheorem == Prompt => (Spec => []StrongestFirst)
<1> SUFFICES ASSUME Prompt PROVE Spec => []StrongestFirst
  OBVIOUS
<1>1. Init => TableInv
  BY DEF Init, TableInv
<1>2. IInv /\ TableInv /\ [Next]_vars => TableInv'
  BY TableStep
<1>3. TableInv => StrongestFirst
  BY DEF TableInv, InStrength, AllListed, StrongestFirst
<1> QED BY <1>1, <1>2, <1>3, Invariance, PTL DEF Spec
=============================================================================
