--------------------------- MODULE ServiceProofs ----------------------------
(***************************************************************************)
(* What serves the clients around the plugins, proved for all numbers of   *)
(* ports, monitors, devices, actuators and connections: the reports of the *)
(* audio monitors (MonitorsReported), the HMI addressings                  *)
(* (AddressingsSound), the Control Chain assignments (AssignmentsSound),   *)
(* the stop of the socket server (ServerStops), the order in which the     *)
(* host starts and ends (NobodyOutlivesItsThings), the ring of bytes to    *)
(* the HMI service (SerialInOrder) and the commands that the bytes of the  *)
(* socket are cut into (CommandsArrive).                                   *)
(***************************************************************************)
EXTENDS AudioMonitors, HmiAddressings, Assignments, SocketServer, HostLife, SerialRing,
        CommandStream, Recursion, FiniteSetTheorems, SequenceTheorems

-----------------------------------------------------------------------------
(* The audio level monitors.                                               *)

AudioMonitorsSpec == MonitorsInit /\ [][MonitorsNext]_monitorVars

AudioMonitor == [port : SUBSET Port, registered : BOOLEAN, value : Nat]
PeakEvent == [index : Nat, value : Nat]

MonitorTypeInv ==
  /\ monitors \in Seq(AudioMonitor) /\ count \in Nat
  /\ peak_cycle \in Nat /\ monitor_mutex \in {"free", "cycle"}
  /\ peaks \in Seq(PeakEvent) /\ batch \in Seq(PeakEvent)
  /\ adding \in {Working} \union [at : {"fill"}, port : Port]
                \union [at : {"count", "release"}]

(* While the command is at work the array has one entry beyond the count,  *)
(* which is filled before it is counted; the entries that count have a     *)
(* port.                                                                   *)
ArrayInv ==
  /\ count <= Len(monitors)
  /\ adding.at # "idle" => count + 1 <= Len(monitors)
  /\ adding.at = "count" => /\ monitors[count + 1].registered = TRUE
                            /\ monitors[count + 1].value = 0
  /\ \A i \in 1..count : monitors[i].registered = TRUE

(* The cycle is in the array only with the mutex, and never beyond it.     *)
CycleInv ==
  /\ monitor_mutex = "free" => peak_cycle = 0
  /\ monitor_mutex = "cycle" => peak_cycle <= count + 1

(* Some event that is still to be reported has the level of entry i.       *)
WaitingFor(i) == ToSet(peaks) \union (IF i \in reported THEN {} ELSE ToSet(batch))

HeardInv ==
  \A i \in (1..count) \ unheard :
    monitors[i].value > 0 =>
      \E e \in WaitingFor(i) : e.index = i /\ e.value >= monitors[i].value

MonitorsInv == MonitorTypeInv /\ ArrayInv /\ CycleInv /\ HeardInv

-----------------------------------------------------------------------------
(* The events of a list, when one is added and when the last is taken.     *)

LEMMA AppendedEvents ==
  ASSUME NEW s \in Seq(PeakEvent), NEW e \in PeakEvent
  PROVE  /\ Append(s, e) \in Seq(PeakEvent)
         /\ e \in ToSet(Append(s, e)) /\ ToSet(s) \subseteq ToSet(Append(s, e))
<1>1. /\ Append(s, e) \in Seq(PeakEvent) /\ Len(Append(s, e)) = Len(s) + 1
      /\ Append(s, e)[Len(s) + 1] = e
      /\ \A i \in 1..Len(s) : Append(s, e)[i] = s[i]
  OBVIOUS
<1> QED
  BY <1>1 DEF ToSet

LEMMA LastEvent ==
  ASSUME NEW s \in Seq(PeakEvent), s # <<>>
  PROVE  /\ Last(s) \in PeakEvent /\ Front(s) \in Seq(PeakEvent)
         /\ ToSet(s) \subseteq ToSet(Front(s)) \union {Last(s)}
<1>1. Len(s) \in Nat /\ Len(s) > 0 /\ DOMAIN s = 1..Len(s)
  OBVIOUS
<1>2. Last(s) \in PeakEvent
  BY <1>1 DEF Last
<1>3. /\ Front(s) \in Seq(PeakEvent) /\ Len(Front(s)) = Len(s) - 1
      /\ \A i \in 1..(Len(s) - 1) : Front(s)[i] = s[i]
  BY <1>1 DEF Front
<1>4. DOMAIN Front(s) = 1..(Len(s) - 1)
  BY <1>3
<1>5. ASSUME NEW i \in 1..Len(s) PROVE s[i] \in ToSet(Front(s)) \union {Last(s)}
  <2>1. CASE i = Len(s)
    BY <2>1 DEF Last
  <2>2. CASE i # Len(s)
    <3>1. PICK n \in Nat : n = Len(s)
      BY <1>1
    <3>2. i \in 1..(n - 1)
      BY <2>2, <3>1
    <3>3. i \in DOMAIN Front(s) /\ Front(s)[i] = s[i]
      BY <1>3, <1>4, <3>1, <3>2
    <3>4. Front(s)[i] \in ToSet(Front(s))
      BY <3>3 DEF ToSet
    <3> QED
      BY <3>3, <3>4
  <2> QED
    BY <2>1, <2>2
<1> QED
  BY <1>1, <1>2, <1>3, <1>5 DEF ToSet

(* One field of one entry changes.                                         *)
LEMMA SetLevel ==
  ASSUME MonitorTypeInv, NEW i \in 1..Len(monitors), NEW v \in Nat,
         monitors' = [monitors EXCEPT ![i].value = v]
  PROVE  /\ monitors' \in Seq(AudioMonitor) /\ Len(monitors') = Len(monitors)
         /\ monitors'[i].value = v /\ monitors'[i].registered = monitors[i].registered
         /\ \A j \in 1..Len(monitors) : j # i => monitors'[j] = monitors[j]
<1> DEFINE r == monitors[i]
           q == [r EXCEPT !.value = v]
<1>1. monitors \in Seq(AudioMonitor)
  BY DEF MonitorTypeInv
<1>2. r \in AudioMonitor
  BY <1>1
<1>3. monitors' = [monitors EXCEPT ![i] = q]
  OBVIOUS
<1> HIDE DEF r
<1>4. /\ q \in [port : SUBSET Port, registered : BOOLEAN, value : Nat]
      /\ q.value = v /\ q.registered = r.registered
  BY <1>2 DEF AudioMonitor
<1> HIDE DEF q
<1>5. q \in AudioMonitor
  BY <1>4 DEF AudioMonitor
<1> QED
  BY <1>1, <1>3, <1>4, <1>5 DEF r

-----------------------------------------------------------------------------
(* Every step keeps the invariant.                                         *)

LEMMA GrowKeeps ==
  ASSUME MonitorsInv, NEW p \in Port, GrowMonitors(p)
  PROVE  MonitorsInv'
<1>1. Garbage \in AudioMonitor
  BY DEF Garbage, AudioMonitor
<1>2. /\ monitors' = Append(SubSeq(monitors, 1, count), Garbage)
      /\ adding' = [at |-> "fill", port |-> p] /\ count' = count
  BY DEF GrowMonitors
<1>3. monitors \in Seq(AudioMonitor) /\ count \in Nat /\ count <= Len(monitors)
  BY DEF MonitorsInv, MonitorTypeInv, ArrayInv
<1>4. /\ SubSeq(monitors, 1, count) \in Seq(AudioMonitor)
      /\ Len(SubSeq(monitors, 1, count)) = count
      /\ \A i \in 1..count : SubSeq(monitors, 1, count)[i] = monitors[i]
  BY <1>3
<1>5. /\ monitors' \in Seq(AudioMonitor) /\ Len(monitors') = count + 1
      /\ \A i \in 1..count : monitors'[i] = monitors[i]
  BY <1>1, <1>2, <1>3, <1>4
<1>6. adding' \in [at : {"fill"}, port : Port] /\ adding'.at = "fill"
  BY <1>2
<1>7. MonitorTypeInv'
  BY <1>2, <1>5, <1>6 DEF MonitorsInv, MonitorTypeInv, GrowMonitors
<1>8. ArrayInv'
  BY <1>2, <1>3, <1>5, <1>6 DEF MonitorsInv, ArrayInv
<1>9. CycleInv' /\ HeardInv'
  BY <1>2, <1>5 DEF MonitorsInv, CycleInv, HeardInv, WaitingFor, GrowMonitors
<1> QED
  BY <1>7, <1>8, <1>9 DEF MonitorsInv

LEMMA FillKeeps ==
  ASSUME MonitorsInv, FillMonitor
  PROVE  MonitorsInv'
<1>1. monitors \in Seq(AudioMonitor) /\ count \in Nat /\ count + 1 <= Len(monitors)
  BY DEF FillMonitor, MonitorsInv, MonitorTypeInv, ArrayInv
<1>2. adding.port \in Port
  BY DEF FillMonitor, MonitorsInv, MonitorTypeInv, Working
<1>3. CASE adding' = Working /\ UNCHANGED monitors
  BY <1>1, <1>3 DEF FillMonitor, MonitorsInv, MonitorTypeInv, ArrayInv, CycleInv, HeardInv,
                    WaitingFor, Working
<1>4. CASE /\ monitors' = [monitors EXCEPT ![count + 1] =
                            [port |-> {adding.port}, registered |-> TRUE, value |-> 0]]
           /\ adding' = [at |-> "count"]
  <2> DEFINE r == [port |-> {adding.port}, registered |-> TRUE, value |-> 0]
  <2>1. r \in AudioMonitor /\ r.registered = TRUE /\ r.value = 0
    BY <1>2 DEF AudioMonitor
  <2>2. monitors' = [monitors EXCEPT ![count + 1] = r]
    BY <1>4
  <2> HIDE DEF r
  <2>3. /\ monitors' \in Seq(AudioMonitor) /\ Len(monitors') = Len(monitors)
        /\ monitors'[count + 1] = r /\ \A i \in 1..count : monitors'[i] = monitors[i]
    BY <1>1, <2>1, <2>2
  <2>4. adding' \in [at : {"count", "release"}] /\ adding'.at = "count"
    BY <1>4
  <2>5. MonitorTypeInv'
    BY <2>3, <2>4 DEF FillMonitor, MonitorsInv, MonitorTypeInv
  <2>6. ArrayInv'
    BY <1>1, <2>1, <2>3, <2>4 DEF FillMonitor, MonitorsInv, ArrayInv
  <2>7. CycleInv' /\ HeardInv'
    BY <2>3 DEF FillMonitor, MonitorsInv, CycleInv, HeardInv, WaitingFor
  <2> QED
    BY <2>5, <2>6, <2>7 DEF MonitorsInv
<1> QED
  BY <1>3, <1>4 DEF FillMonitor

LEMMA CountKeeps ==
  ASSUME MonitorsInv, CountMonitor
  PROVE  MonitorsInv'
<1>1. /\ count' = count + 1 /\ unheard' = unheard \ {count + 1} /\ monitors' = monitors
      /\ adding' = Working /\ adding.at = "count"
      /\ UNCHANGED <<monitor_mutex, peak_cycle, peaks, batch, reported>>
  BY DEF CountMonitor
<1>2. count \in Nat /\ peak_cycle \in Nat
  BY DEF MonitorsInv, MonitorTypeInv
<1>3. MonitorTypeInv'
  BY <1>1 DEF MonitorsInv, MonitorTypeInv
<1>4. ArrayInv' /\ CycleInv'
  BY <1>1, <1>2 DEF MonitorsInv, ArrayInv, CycleInv, Working
<1>5. HeardInv'
  BY <1>1, <1>2 DEF MonitorsInv, ArrayInv, HeardInv, WaitingFor
<1> QED
  BY <1>3, <1>4, <1>5 DEF MonitorsInv

LEMMA UncountKeeps ==
  ASSUME MonitorsInv, UncountMonitor
  PROVE  MonitorsInv'
<1>1. /\ count' = count - 1 /\ count > 0 /\ adding' = [at |-> "release"]
      /\ monitor_mutex = "free"
      /\ UNCHANGED <<monitors, monitor_mutex, peak_cycle, peaks, batch, reported, unheard>>
  BY DEF UncountMonitor
<1>2. count \in Nat
  BY DEF MonitorsInv, MonitorTypeInv
<1>3. adding' \in [at : {"count", "release"}] /\ adding'.at = "release"
  BY <1>1
<1>4. MonitorTypeInv'
  BY <1>1, <1>2, <1>3 DEF MonitorsInv, MonitorTypeInv
<1>5. ArrayInv' /\ CycleInv'
  BY <1>1, <1>2, <1>3 DEF MonitorsInv, MonitorTypeInv, ArrayInv, CycleInv
<1>6. HeardInv'
  BY <1>1, <1>2 DEF MonitorsInv, HeardInv, WaitingFor
<1> QED
  BY <1>4, <1>5, <1>6 DEF MonitorsInv

LEMMA MonitorReleaseKeeps ==
  ASSUME MonitorsInv, ReleaseMonitor
  PROVE  MonitorsInv'
<1>1. monitors \in Seq(AudioMonitor) /\ count \in Nat /\ count + 1 <= Len(monitors)
  BY DEF ReleaseMonitor, MonitorsInv, MonitorTypeInv, ArrayInv
<1>2. /\ monitors' \in Seq(AudioMonitor) /\ count <= Len(monitors')
      /\ \A i \in 1..count : monitors'[i] = monitors[i]
  <2>1. CASE count = 0
    BY <1>1, <2>1 DEF ReleaseMonitor
  <2>2. CASE count # 0
    <3> DEFINE r == monitors[count + 1]
               q == [r EXCEPT !.registered = FALSE]
    <3>1. r \in AudioMonitor
      BY <1>1
    <3>2. monitors' = [monitors EXCEPT ![count + 1] = q]
      BY <2>2 DEF ReleaseMonitor
    <3> HIDE DEF r
    <3>3. q \in [port : SUBSET Port, registered : BOOLEAN, value : Nat]
      BY <3>1 DEF AudioMonitor
    <3> HIDE DEF q
    <3>4. q \in AudioMonitor
      BY <3>3 DEF AudioMonitor
    <3> QED
      BY <1>1, <3>2, <3>4
  <2> QED
    BY <2>1, <2>2
<1>3. adding' = Working /\ Working.at = "idle"
  BY DEF ReleaseMonitor, Working
<1>4. MonitorTypeInv'
  BY <1>2, <1>3 DEF ReleaseMonitor, MonitorsInv, MonitorTypeInv
<1>5. ArrayInv'
  BY <1>2, <1>3 DEF ReleaseMonitor, MonitorsInv, ArrayInv
<1>6. CycleInv' /\ HeardInv'
  BY <1>2 DEF ReleaseMonitor, MonitorsInv, CycleInv, HeardInv, WaitingFor
<1> QED
  BY <1>4, <1>5, <1>6 DEF MonitorsInv

LEMMA MonitorReadKeeps ==
  ASSUME MonitorsInv, NEW level \in 0..Peak, ReadPeak(level)
  PROVE  MonitorsInv'
<1>1. /\ peak_cycle \in 1..count /\ peak_cycle' = peak_cycle + 1
      /\ UNCHANGED <<count, monitor_mutex, adding, batch, reported>>
  BY DEF ReadPeak
<1>2. /\ count \in Nat /\ peak_cycle \in Nat /\ peak_cycle \in 1..Len(monitors)
      /\ level \in Nat /\ monitors \in Seq(AudioMonitor)
      /\ peaks \in Seq(PeakEvent) /\ count <= Len(monitors)
  BY <1>1, AudioMonitorsAssumption DEF MonitorsInv, MonitorTypeInv, ArrayInv
<1>3. CycleInv'
  BY <1>1, <1>2 DEF MonitorsInv, MonitorTypeInv, CycleInv
<1>4. CASE ~(level > monitors[peak_cycle].value)
  <2>1. UNCHANGED <<monitors, peaks, unheard>>
    BY <1>4 DEF ReadPeak
  <2> QED
    BY <1>1, <1>2, <1>3, <2>1
       DEF MonitorsInv, MonitorTypeInv, ArrayInv, HeardInv, WaitingFor
<1>5. CASE level > monitors[peak_cycle].value
  <2> DEFINE event == [index |-> peak_cycle, value |-> level]
  <2>1. monitors' = [monitors EXCEPT ![peak_cycle].value = level]
    BY <1>5 DEF ReadPeak
  <2>2. /\ monitors' \in Seq(AudioMonitor) /\ Len(monitors') = Len(monitors)
        /\ monitors'[peak_cycle].value = level
        /\ monitors'[peak_cycle].registered = monitors[peak_cycle].registered
        /\ \A j \in 1..Len(monitors) : j # peak_cycle => monitors'[j] = monitors[j]
    BY <1>2, <2>1, SetLevel DEF MonitorsInv
  <2>3. ArrayInv'
    <3>1. ASSUME adding.at = "count"
          PROVE  monitors'[count + 1] = monitors[count + 1]
      BY <1>1, <1>2, <2>2, <3>1 DEF MonitorsInv, ArrayInv
    <3>2. \A i \in 1..count : monitors'[i].registered = TRUE
      BY <1>1, <1>2, <2>2 DEF MonitorsInv, ArrayInv
    <3> QED
      BY <1>1, <1>2, <2>2, <3>1, <3>2 DEF MonitorsInv, ArrayInv
  <2>4. CASE unheard' = unheard \union {peak_cycle} /\ UNCHANGED peaks
    <3>1. MonitorTypeInv'
      BY <1>1, <1>2, <2>2, <2>4 DEF MonitorsInv, MonitorTypeInv
    <3>2. HeardInv'
      BY <1>1, <1>2, <2>2, <2>4 DEF MonitorsInv, HeardInv, WaitingFor
    <3> QED
      BY <1>3, <2>3, <3>1, <3>2 DEF MonitorsInv
  <2>5. CASE peaks' = Append(peaks, event) /\ unheard' = unheard \ {peak_cycle}
    <3>1. event \in PeakEvent /\ event.index = peak_cycle /\ event.value = level
      BY <1>2 DEF PeakEvent
    <3> HIDE DEF event
    <3>2. /\ peaks' \in Seq(PeakEvent) /\ event \in ToSet(peaks')
          /\ ToSet(peaks) \subseteq ToSet(peaks')
      BY <1>2, <2>5, <3>1, AppendedEvents
    <3>3. MonitorTypeInv'
      BY <1>1, <1>2, <2>2, <3>2 DEF MonitorsInv, MonitorTypeInv
    <3>4. HeardInv'
      <4> SUFFICES ASSUME NEW i \in ((1..count) \ unheard)', monitors'[i].value > 0
                   PROVE  \E e \in WaitingFor(i)' : e.index = i /\ e.value >= monitors'[i].value
        BY DEF HeardInv
      <4>1. CASE i = peak_cycle
        BY <1>2, <2>2, <3>1, <3>2, <4>1 DEF WaitingFor
      <4>2. CASE i # peak_cycle
        <5>1. i \in (1..count) \ unheard /\ monitors'[i] = monitors[i]
          BY <1>1, <1>2, <2>2, <2>5, <4>2
        <5>2. PICK e \in WaitingFor(i) : e.index = i /\ e.value >= monitors[i].value
          BY <5>1 DEF MonitorsInv, HeardInv
        <5>3. e \in WaitingFor(i)'
          BY <1>1, <3>2, <5>2 DEF WaitingFor
        <5> QED
          BY <5>1, <5>2, <5>3
      <4> QED
        BY <4>1, <4>2
    <3> QED
      BY <1>3, <2>3, <3>3, <3>4 DEF MonitorsInv
  <2> QED
    BY <1>5, <2>4, <2>5 DEF ReadPeak
<1> QED
  BY <1>4, <1>5

LEMMA TakeKeeps ==
  ASSUME MonitorsInv, TakePeaks
  PROVE  MonitorsInv'
<1>1. /\ batch = <<>> /\ batch' = peaks /\ peaks' = <<>> /\ reported' = {}
      /\ UNCHANGED <<monitors, count, monitor_mutex, adding, peak_cycle, unheard>>
  BY DEF TakePeaks
<1>2. MonitorTypeInv' /\ ArrayInv' /\ CycleInv'
  BY <1>1 DEF MonitorsInv, MonitorTypeInv, ArrayInv, CycleInv
<1>3. \A i : WaitingFor(i) \subseteq WaitingFor(i)'
  <2>1. ToSet(batch) = {}
    BY <1>1 DEF ToSet
  <2> QED
    BY <1>1, <2>1 DEF WaitingFor
<1>4. HeardInv'
  BY <1>1, <1>3 DEF MonitorsInv, HeardInv
<1> QED
  BY <1>2, <1>4 DEF MonitorsInv

LEMMA ReportKeeps ==
  ASSUME MonitorsInv, ReportPeak
  PROVE  MonitorsInv'
<1> DEFINE e == Last(batch)
<1>1. /\ batch # <<>> /\ batch' = Front(batch) /\ reported' = reported \union {e.index}
      /\ UNCHANGED <<count, monitor_mutex, adding, peak_cycle, peaks>>
  BY DEF ReportPeak
<1>2. /\ e \in PeakEvent /\ batch' \in Seq(PeakEvent)
      /\ ToSet(batch) \subseteq ToSet(batch') \union {e}
  BY <1>1, LastEvent DEF MonitorsInv, MonitorTypeInv
<1>3. /\ monitors \in Seq(AudioMonitor) /\ count \in Nat /\ count <= Len(monitors)
      /\ e.index \in Nat
  BY <1>2 DEF MonitorsInv, MonitorTypeInv, ArrayInv, PeakEvent
<1>4. /\ e.index \in 1..count /\ e.index \notin reported =>
           monitors' = [monitors EXCEPT ![e.index].value = 0]
      /\ ~(e.index \in 1..count /\ e.index \notin reported) => monitors' = monitors
      /\ unheard' = IF e.index \in reported THEN unheard ELSE unheard \ {e.index}
  BY DEF ReportPeak
<1> HIDE DEF e
<1>5. CycleInv'
  BY <1>1 DEF MonitorsInv, CycleInv
<1>6. ASSUME NEW i \in Nat, i # e.index
      PROVE  \A x \in WaitingFor(i) : x.index = i => x \in WaitingFor(i)'
  BY <1>1, <1>2, <1>6 DEF WaitingFor
<1>7. CASE e.index \in 1..count /\ e.index \notin reported
  <2> DEFINE k == e.index
  <2>1. k \in 1..count /\ k \in 1..Len(monitors)
    BY <1>3, <1>7
  <2>2. monitors' = [monitors EXCEPT ![k].value = 0]
    BY <1>4, <1>7
  <2> HIDE DEF k
  <2>3. /\ monitors' \in Seq(AudioMonitor) /\ Len(monitors') = Len(monitors)
        /\ monitors'[k].value = 0 /\ monitors'[k].registered = monitors[k].registered
        /\ \A j \in 1..Len(monitors) : j # k => monitors'[j] = monitors[j]
    BY <2>1, <2>2, SetLevel DEF MonitorsInv
  <2>4. /\ monitors' \in Seq(AudioMonitor) /\ Len(monitors') = Len(monitors)
        /\ monitors'[e.index].value = 0
        /\ monitors'[e.index].registered = monitors[e.index].registered
        /\ \A j \in 1..Len(monitors) : j # e.index => monitors'[j] = monitors[j]
    BY <2>3 DEF k
  <2>5. MonitorTypeInv'
    BY <1>1, <1>2, <2>4 DEF MonitorsInv, MonitorTypeInv
  <2>6. ArrayInv'
    <3>1. ASSUME NEW i \in 1..count PROVE monitors'[i].registered = TRUE
      <4>1. i \in 1..Len(monitors) /\ monitors[i].registered = TRUE
        BY <1>3, <3>1 DEF MonitorsInv, ArrayInv
      <4> QED
        BY <2>1, <2>3, <4>1
    <3>2. ASSUME adding.at = "count"
          PROVE  monitors'[count + 1] = monitors[count + 1]
      <4>1. count + 1 \in 1..Len(monitors) /\ count + 1 # k
        BY <1>3, <2>1, <3>2 DEF MonitorsInv, ArrayInv
      <4> QED
        BY <2>3, <4>1
    <3> QED
      BY <1>1, <1>3, <2>3, <3>1, <3>2 DEF MonitorsInv, ArrayInv
  <2>7. HeardInv'
    BY <1>1, <1>3, <1>4, <1>6, <1>7, <2>4 DEF MonitorsInv, HeardInv
  <2> QED
    BY <1>5, <2>5, <2>6, <2>7 DEF MonitorsInv
<1>8. CASE ~(e.index \in 1..count /\ e.index \notin reported)
  <2>1. monitors' = monitors
    BY <1>4, <1>8
  <2>2. MonitorTypeInv' /\ ArrayInv'
    BY <1>1, <1>2, <2>1 DEF MonitorsInv, MonitorTypeInv, ArrayInv
  <2>3. HeardInv'
    <3> SUFFICES ASSUME NEW i \in ((1..count) \ unheard)', monitors'[i].value > 0
                 PROVE  \E x \in WaitingFor(i)' : x.index = i /\ x.value >= monitors'[i].value
      BY DEF HeardInv
    <3>1. i \in (1..count) \ unheard /\ i \in Nat
      BY <1>1, <1>3, <1>4, <1>8
    <3>2. PICK x \in WaitingFor(i) : x.index = i /\ x.value >= monitors[i].value
      BY <2>1, <3>1 DEF MonitorsInv, HeardInv
    <3>3. x \in WaitingFor(i)'
      BY <1>1, <1>6, <1>8, <3>1, <3>2 DEF WaitingFor
    <3> QED
      BY <2>1, <3>2, <3>3
  <2> QED
    BY <1>5, <2>2, <2>3 DEF MonitorsInv
<1> QED
  BY <1>7, <1>8

LEMMA MonitorsNextKeep ==
  ASSUME MonitorsInv, [MonitorsNext]_monitorVars
  PROVE  MonitorsInv'
<1>1. CASE UNCHANGED monitorVars
  BY <1>1 DEF monitorVars, MonitorsInv, MonitorTypeInv, ArrayInv, CycleInv, HeardInv, WaitingFor
<1>2. ASSUME NEW p \in Port, GrowMonitors(p) PROVE MonitorsInv'
  BY <1>2, GrowKeeps
<1>3. CASE FillMonitor
  BY <1>3, FillKeeps
<1>4. CASE CountMonitor
  BY <1>4, CountKeeps
<1>5. CASE UncountMonitor
  BY <1>5, UncountKeeps
<1>6. CASE ReleaseMonitor
  BY <1>6, MonitorReleaseKeeps
<1>7. CASE MonitorsBegin
  BY <1>7 DEF MonitorsBegin, MonitorsInv, MonitorTypeInv, ArrayInv, CycleInv, HeardInv,
              WaitingFor
<1>8. CASE MonitorsEnd
  BY <1>8 DEF MonitorsEnd, MonitorsInv, MonitorTypeInv, ArrayInv, CycleInv, HeardInv,
              WaitingFor
<1>9. ASSUME NEW level \in 0..Peak, ReadPeak(level) PROVE MonitorsInv'
  BY <1>9, MonitorReadKeeps
<1>10. CASE TakePeaks
  BY <1>10, TakeKeeps
<1>11. CASE ReportPeak
  BY <1>11, ReportKeeps
<1> QED
  BY <1>1, <1>2, <1>3, <1>4, <1>5, <1>6, <1>7, <1>8, <1>9, <1>10, <1>11 DEF MonitorsNext

LEMMA MonitorsInitHolds ==
  ASSUME MonitorsInit
  PROVE  MonitorsInv
  BY DEF MonitorsInit, Working, MonitorsInv, MonitorTypeInv, ArrayInv, CycleInv, HeardInv

(* The cycle only ever looks at monitors that are filled and whose port    *)
(* JACK has; and a level that is not 0 has an event under way that resets  *)
(* it, so that no monitor falls silent unless the pool was empty           *)
(* (effects.c:3213-3252, 1320-1345, 9430-9494).                            *)
THEOREM MonitorsAreReported == AudioMonitorsSpec => []MonitorsReported
<1>1. MonitorsInit => MonitorsInv
  BY MonitorsInitHolds
<1>2. MonitorsInv /\ [MonitorsNext]_monitorVars => MonitorsInv'
  BY MonitorsNextKeep
<1>3. MonitorsInv => MonitorsReported
  <2>1. ArrayInv => \A i \in 1..count : monitors[i].registered
    BY DEF ArrayInv
  <2> QED
    BY <2>1 DEF MonitorsInv, CycleInv, HeardInv, WaitingFor, MonitorsReported
<1> QED
  BY <1>1, <1>2, <1>3, PTL DEF AudioMonitorsSpec

-----------------------------------------------------------------------------
(* The HMI addressings.                                                    *)

HmiSpec == HmiInit /\ [][HmiNext]_hmiVars

Entry == 1..HmiMax
Reading == [at : {"read"}, port : HmiPort, entry : Entry, late : BOOLEAN]
Sending == [at : {"send"}, port : HmiPort, late : BOOLEAN, actuator : Int]

HmiTypeInv ==
  /\ hmi_addressings \in [Entry -> Int]
  /\ hmi_port \in [HmiPort -> 0..HmiMax]
  /\ hmi_known \in [HmiPort -> 0..HmiMax]
  /\ hmi_widget \in {NoWidget} \union Reading \union Sending

(* A port with an entry is of an effect that exists, its entry is in use   *)
(* and nobody else's; and an entry in use has such a port.                 *)
UsersInv ==
  /\ \A p \in HmiPort :
       hmi_port[p] # 0 => HmiOwner[p] \in hmi_present /\ hmi_addressings[hmi_port[p]] # -1
  /\ \A p, q \in HmiPort : p # q /\ hmi_port[p] = hmi_port[q] => hmi_port[p] = 0
  /\ \A i \in Entry : hmi_addressings[i] # -1 => \E p \in HmiPort : hmi_port[p] = i

(* A plugin knows the entry of its port or none, and none while it is      *)
(* being unmapped.                                                         *)
HmiKnownInv ==
  /\ \A p \in HmiPort : hmi_known[p] \in {0, hmi_port[p]}
  /\ hmi_unmapping # {} => \E p \in HmiPort : hmi_unmapping = {p} /\ hmi_known[p] = 0

(* A widget call that is not late is about the entry of its port.          *)
WidgetInv ==
  hmi_widget.at # "idle" /\ ~hmi_widget.late =>
    /\ hmi_port[hmi_widget.port] # 0
    /\ hmi_widget.at = "read" => hmi_widget.entry = hmi_port[hmi_widget.port]
    /\ hmi_widget.at = "send" =>
         hmi_widget.actuator = hmi_addressings[hmi_port[hmi_widget.port]]

HmiInv == HmiTypeInv /\ UsersInv /\ HmiKnownInv /\ WidgetInv

-----------------------------------------------------------------------------
(* The entry that effects_hmi_map takes is the first free one.             *)

LEMMA MinIsIn ==
  ASSUME NEW T \in SUBSET Nat, T # {}
  PROVE  Min(T) \in T /\ \A y \in T : Min(T) <= y
<1>1. PICK x \in T : \A y \in T : ~(<<y, x>> \in OpToRel(<, Nat))
  BY WFMin, NatLessThanWellFounded
<1>2. \A y \in T : ~(y < x)
  BY <1>1 DEF OpToRel
<1>3. \A y \in T : x <= y
  BY <1>2
<1> QED
  BY <1>3 DEF Min

(* What freeing entries does to the others.                                *)
LEMMA FreedEntries ==
  ASSUME HmiTypeInv, NEW S
  PROVE  /\ Freed(S) \in [Entry -> Int]
         /\ \A i \in Entry : i \in S => Freed(S)[i] = -1
         /\ \A i \in Entry : i \notin S => Freed(S)[i] = hmi_addressings[i]
  BY DEF Freed, HmiTypeInv, Entry

LEMMA WidgetShape ==
  ASSUME HmiTypeInv, hmi_widget.at # "idle"
  PROVE  hmi_widget.port \in HmiPort /\ hmi_widget.late \in BOOLEAN
  BY DEF HmiTypeInv, NoWidget, Reading, Sending

(* The call of a plugin whose port is unmapped is late, any other is not   *)
(* touched.                                                                *)
LEMMA LateWidget ==
  ASSUME HmiTypeInv, NEW ports
  PROVE  /\ Late(ports) \in {NoWidget} \union Reading \union Sending
         /\ InWidget(ports) => Late(ports).late = TRUE
         /\ ~InWidget(ports) => Late(ports) = hmi_widget
<1>1. CASE ~InWidget(ports)
  BY <1>1 DEF Late, HmiTypeInv
<1>2. CASE InWidget(ports) /\ hmi_widget \in Reading
  BY <1>2 DEF Late, Reading
<1>3. CASE InWidget(ports) /\ hmi_widget \in Sending
  BY <1>3 DEF Late, Sending
<1>4. InWidget(ports) => hmi_widget \in Reading \/ hmi_widget \in Sending
  BY DEF HmiTypeInv, InWidget, NoWidget
<1> QED
  BY <1>1, <1>2, <1>3, <1>4

-----------------------------------------------------------------------------
(* Every step keeps the invariant.                                         *)

LEMMA MapKeeps ==
  ASSUME HmiInv, NEW p \in HmiPort, NEW a \in Actuator, HmiMap(p, a)
  PROVE  HmiInv'
<1> DEFINE free == {i \in 1..HmiMax : hmi_addressings[i] = -1}
           i == Min(free)
<1>1. i \in Entry /\ hmi_addressings[i] = -1 /\ i # 0 /\ a \in Nat
  <2>1. free \in SUBSET Nat /\ free # {}
    BY HmiAssumption DEF HmiMap
  <2>2. i \in free
    BY <2>1, MinIsIn
  <2> QED
    BY <2>2, HmiAssumption DEF Entry
<1>2. /\ hmi_addressings' = [hmi_addressings EXCEPT ![i] = a]
      /\ hmi_port' = [hmi_port EXCEPT ![p] = i] /\ hmi_known' = [hmi_known EXCEPT ![p] = i]
      /\ hmi_present' = hmi_present /\ hmi_unmapping' = hmi_unmapping
      /\ hmi_widget' = hmi_widget
      /\ HmiOwner[p] \in hmi_present /\ hmi_port[p] = 0 /\ hmi_unmapping = {}
  BY DEF HmiMap, HmiIdle
<1> HIDE DEF i
<1>3. HmiTypeInv'
  BY <1>1, <1>2, HmiAssumption DEF HmiInv, HmiTypeInv, Entry
<1>4. UsersInv'
  BY <1>1, <1>2, HmiAssumption DEF HmiInv, HmiTypeInv, UsersInv, Entry
<1>5. HmiKnownInv'
  BY <1>1, <1>2 DEF HmiInv, HmiTypeInv, HmiKnownInv
<1>6. WidgetInv'
  BY <1>1, <1>2, WidgetShape, HmiAssumption DEF HmiInv, HmiTypeInv, UsersInv, WidgetInv, Entry
<1> QED
  BY <1>3, <1>4, <1>5, <1>6 DEF HmiInv

LEMMA UnaddressKeeps ==
  ASSUME HmiInv, NEW p \in HmiPort, HmiUnaddress(p)
  PROVE  HmiInv'
<1>1. HmiTypeInv'
  BY HmiAssumption DEF HmiInv, HmiTypeInv, HmiUnaddress
<1>2. UsersInv' /\ WidgetInv'
  BY DEF HmiInv, UsersInv, WidgetInv, HmiUnaddress
<1>3. HmiKnownInv'
  BY DEF HmiInv, HmiTypeInv, HmiKnownInv, HmiUnaddress
<1> QED
  BY <1>1, <1>2, <1>3 DEF HmiInv

LEMMA HmiReleaseKeeps ==
  ASSUME HmiInv, HmiRelease
  PROVE  HmiInv'
<1>1. PICK p \in HmiPort : hmi_unmapping = {p} /\ hmi_known[p] = 0
  BY DEF HmiRelease, HmiInv, HmiKnownInv
<1>2. /\ hmi_addressings' = Freed({hmi_port[p]}) /\ hmi_port' = [hmi_port EXCEPT ![p] = 0]
      /\ hmi_unmapping' = {} /\ hmi_widget' = Late({p})
      /\ hmi_present' = hmi_present /\ hmi_known' = hmi_known
  BY <1>1 DEF HmiRelease
<1>3. /\ hmi_addressings' \in [Entry -> Int]
      /\ \A i \in Entry : i = hmi_port[p] => hmi_addressings'[i] = -1
      /\ \A i \in Entry : i # hmi_port[p] => hmi_addressings'[i] = hmi_addressings[i]
  BY <1>2, FreedEntries DEF HmiInv
<1>4. /\ hmi_widget' \in {NoWidget} \union Reading \union Sending
      /\ InWidget({p}) => hmi_widget'.late = TRUE
      /\ ~InWidget({p}) => hmi_widget' = hmi_widget
  BY <1>2, LateWidget DEF HmiInv
<1>5. HmiTypeInv'
  BY <1>2, <1>3, <1>4, HmiAssumption DEF HmiInv, HmiTypeInv
<1>6. /\ hmi_port'[p] = 0
      /\ \A q \in HmiPort : q # p => hmi_port'[q] = hmi_port[q]
  BY <1>2 DEF HmiInv, HmiTypeInv
<1>7. ASSUME NEW q \in HmiPort, q # p, hmi_port[q] # 0
      PROVE  /\ hmi_port[q] \in Entry /\ hmi_port[q] # hmi_port[p]
             /\ hmi_addressings'[hmi_port[q]] = hmi_addressings[hmi_port[q]]
  <2>1. hmi_port[q] \in Entry
    BY <1>7, HmiAssumption DEF HmiInv, HmiTypeInv, Entry
  <2>2. hmi_port[q] # hmi_port[p]
    BY <1>7 DEF HmiInv, UsersInv
  <2> QED
    BY <1>3, <2>1, <2>2
<1>8. UsersInv'
  <2>1. \A q \in HmiPort : hmi_port'[q] # 0 =>
          HmiOwner[q] \in hmi_present' /\ hmi_addressings'[hmi_port'[q]] # -1
    <3> SUFFICES ASSUME NEW q \in HmiPort, hmi_port'[q] # 0
                 PROVE  HmiOwner[q] \in hmi_present' /\ hmi_addressings'[hmi_port'[q]] # -1
      OBVIOUS
    <3>1. q # p /\ hmi_port'[q] = hmi_port[q] /\ hmi_port[q] # 0
      BY <1>6
    <3>2. HmiOwner[q] \in hmi_present /\ hmi_addressings[hmi_port[q]] # -1
      BY <3>1 DEF HmiInv, UsersInv
    <3> QED
      BY <1>2, <1>7, <3>1, <3>2
  <2>2. \A q, r \in HmiPort : q # r /\ hmi_port'[q] = hmi_port'[r] => hmi_port'[q] = 0
    BY <1>6 DEF HmiInv, UsersInv
  <2>3. ASSUME NEW i \in Entry, hmi_addressings'[i] # -1
        PROVE  \E q \in HmiPort : hmi_port'[q] = i
    BY <1>3, <1>6, <2>3 DEF HmiInv, UsersInv
  <2> QED
    BY <2>1, <2>2, <2>3 DEF UsersInv
<1>9. HmiKnownInv'
  BY <1>1, <1>2 DEF HmiInv, HmiTypeInv, HmiKnownInv
<1>10. WidgetInv'
  <2>1. CASE InWidget({p})
    BY <1>4, <2>1 DEF WidgetInv
  <2>2. CASE ~InWidget({p}) /\ hmi_widget.at # "idle"
    BY <1>4, <1>6, <1>7, <2>2, WidgetShape DEF HmiInv, WidgetInv, InWidget
  <2>3. CASE hmi_widget.at = "idle"
    BY <1>4, <2>3 DEF WidgetInv, InWidget
  <2> QED
    BY <2>1, <2>2, <2>3
<1> QED
  BY <1>5, <1>8, <1>9, <1>10 DEF HmiInv

LEMMA RemoveKeeps ==
  ASSUME HmiInv, NEW e, HmiRemove(e)
  PROVE  HmiInv'
<1> DEFINE S == {hmi_port[p] : p \in PortsOf(e)}
<1>1. /\ hmi_addressings' \in [Entry -> Int]
      /\ \A i \in Entry : i \in S => hmi_addressings'[i] = -1
      /\ \A i \in Entry : i \notin S => hmi_addressings'[i] = hmi_addressings[i]
  BY FreedEntries DEF HmiInv, HmiRemove
<1>2. /\ hmi_port' \in [HmiPort -> 0..HmiMax] /\ hmi_known' \in [HmiPort -> 0..HmiMax]
      /\ \A p \in HmiPort :
           IF HmiOwner[p] = e THEN hmi_port'[p] = 0 /\ hmi_known'[p] = 0
           ELSE hmi_port'[p] = hmi_port[p] /\ hmi_known'[p] = hmi_known[p]
      /\ hmi_present' = hmi_present \ {e}
      /\ hmi_unmapping' = {} /\ hmi_widget' = hmi_widget
      /\ ~InWidget(PortsOf(e))
  BY HmiAssumption DEF HmiInv, HmiTypeInv, HmiRemove, PortsOf, HmiIdle
<1>3. \A p \in HmiPort : HmiOwner[p] # e /\ hmi_port[p] # 0 => hmi_port[p] \notin S
  BY DEF HmiInv, UsersInv, PortsOf
<1>4. \A p \in HmiPort : HmiOwner[p] = e => hmi_port[p] \in S
  BY DEF PortsOf
<1> HIDE DEF S
<1>5. HmiTypeInv'
  BY <1>1, <1>2 DEF HmiInv, HmiTypeInv
<1>6. UsersInv'
  BY <1>1, <1>2, <1>3, <1>4 DEF HmiInv, HmiTypeInv, UsersInv, Entry
<1>7. HmiKnownInv'
  BY <1>2 DEF HmiInv, HmiKnownInv
<1>8. WidgetInv'
  BY <1>1, <1>2, <1>3, WidgetShape DEF HmiInv, HmiTypeInv, WidgetInv, InWidget, PortsOf, Entry
<1> QED
  BY <1>5, <1>6, <1>7, <1>8 DEF HmiInv

LEMMA RemoveAllKeeps ==
  ASSUME HmiInv, HmiRemoveAll
  PROVE  HmiInv'
<1>1. /\ hmi_addressings' \in [Entry -> Int]
      /\ \A i \in Entry : hmi_addressings'[i] = -1
  BY FreedEntries DEF HmiInv, HmiRemoveAll, Entry
<1>2. /\ \A p \in HmiPort : hmi_port'[p] = 0 /\ hmi_known'[p] = 0
      /\ hmi_port' \in [HmiPort -> 0..HmiMax] /\ hmi_known' \in [HmiPort -> 0..HmiMax]
      /\ hmi_unmapping' = {} /\ hmi_widget' = hmi_widget /\ hmi_widget.at = "idle"
  BY HmiAssumption DEF HmiRemoveAll, HmiIdle
<1> QED
  BY <1>1, <1>2 DEF HmiInv, HmiTypeInv, UsersInv, HmiKnownInv, WidgetInv

(* A widget call changes nothing but itself.                               *)
LEMMA CallKeeps ==
  ASSUME HmiInv, hmi_widget' \in {NoWidget} \union Reading \union Sending, WidgetInv',
         UNCHANGED <<hmi_present, hmi_addressings, hmi_port, hmi_known, hmi_unmapping>>
  PROVE  HmiInv'
  BY DEF HmiInv, HmiTypeInv, UsersInv, HmiKnownInv

LEMMA BeginKeeps ==
  ASSUME HmiInv, NEW p \in HmiPort, WidgetBegin(p)
  PROVE  HmiInv'
<1>1. hmi_widget' = [at |-> "read", port |-> p, entry |-> hmi_known[p], late |-> FALSE]
  BY DEF WidgetBegin
<1>2. hmi_known[p] \in Entry /\ hmi_known[p] = hmi_port[p] /\ hmi_port[p] # 0
  BY HmiAssumption DEF WidgetBegin, HmiInv, HmiTypeInv, HmiKnownInv, Entry
<1>3. hmi_widget' \in Reading
  BY <1>1, <1>2 DEF Reading
<1>4. WidgetInv'
  BY <1>1, <1>2 DEF WidgetBegin, WidgetInv
<1> QED
  BY <1>3, <1>4, CallKeeps DEF WidgetBegin

LEMMA HmiReadKeeps ==
  ASSUME HmiInv, WidgetRead
  PROVE  HmiInv'
<1>1. hmi_widget \in Reading
  BY DEF WidgetRead, HmiInv, HmiTypeInv, NoWidget, Sending
<1>2. hmi_widget' = [at |-> "send", port |-> hmi_widget.port, late |-> hmi_widget.late,
                     actuator |-> hmi_addressings[hmi_widget.entry]]
  BY DEF WidgetRead
<1>3. hmi_widget' \in Sending
  BY <1>1, <1>2 DEF Reading, Sending, HmiInv, HmiTypeInv
<1>4. WidgetInv'
  BY <1>1, <1>2 DEF WidgetRead, Reading, HmiInv, WidgetInv
<1> QED
  BY <1>3, <1>4, CallKeeps DEF WidgetRead

LEMMA SendKeeps ==
  ASSUME HmiInv, WidgetSend
  PROVE  HmiInv'
<1>1. hmi_widget'.at = "idle" /\ hmi_widget' \in {NoWidget}
  BY DEF WidgetSend, NoWidget
<1>2. WidgetInv'
  BY <1>1 DEF WidgetInv
<1> QED
  BY <1>1, <1>2, CallKeeps DEF WidgetSend

LEMMA HmiNextKeeps ==
  ASSUME HmiInv, [HmiNext]_hmiVars
  PROVE  HmiInv'
<1>1. CASE UNCHANGED hmiVars
  BY <1>1 DEF hmiVars, HmiInv, HmiTypeInv, UsersInv, HmiKnownInv, WidgetInv
<1>2. ASSUME NEW e \in HmiEffect, AddAddressable(e) PROVE HmiInv'
  BY <1>2 DEF AddAddressable, HmiInv, HmiTypeInv, UsersInv, HmiKnownInv, WidgetInv
<1>3. ASSUME NEW e \in HmiEffect, HmiRemove(e) PROVE HmiInv'
  BY <1>3, RemoveKeeps
<1>4. ASSUME NEW p \in HmiPort, NEW a \in Actuator, HmiMap(p, a) PROVE HmiInv'
  BY <1>4, MapKeeps
<1>5. ASSUME NEW p \in HmiPort, HmiUnaddress(p) PROVE HmiInv'
  BY <1>5, UnaddressKeeps
<1>6. ASSUME NEW p \in HmiPort, WidgetBegin(p) PROVE HmiInv'
  BY <1>6, BeginKeeps
<1>7. CASE HmiRelease
  BY <1>7, HmiReleaseKeeps
<1>8. CASE HmiRemoveAll
  BY <1>8, RemoveAllKeeps
<1>9. CASE WidgetRead
  BY <1>9, HmiReadKeeps
<1>10. CASE WidgetSend
  BY <1>10, SendKeeps
<1> QED
  BY <1>1, <1>2, <1>3, <1>4, <1>5, <1>6, <1>7, <1>8, <1>9, <1>10 DEF HmiNext

LEMMA HmiInitHolds ==
  ASSUME HmiInit
  PROVE  HmiInv
<1>1. hmi_widget = NoWidget /\ NoWidget.at = "idle" /\ hmi_unmapping = {}
  BY DEF HmiInit, NoWidget
<1>2. hmi_addressings \in [Entry -> Int] /\ \A i \in Entry : hmi_addressings[i] = -1
  BY DEF HmiInit, Entry
<1>3. /\ hmi_port \in [HmiPort -> 0..HmiMax] /\ hmi_known \in [HmiPort -> 0..HmiMax]
      /\ \A p \in HmiPort : hmi_port[p] = 0 /\ hmi_known[p] = 0
  BY HmiAssumption DEF HmiInit
<1> QED
  BY <1>1, <1>2, <1>3 DEF HmiInv, HmiTypeInv, UsersInv, HmiKnownInv, WidgetInv

LEMMA InvariantSuffices ==
  ASSUME HmiInv
  PROVE  AddressingsSound
<1> DEFINE Users(i) == {p \in HmiPort : hmi_port[p] = i /\ HmiOwner[p] \in hmi_present}
<1>1. \A i \in 1..HmiMax : hmi_addressings[i] # -1 <=> Cardinality(Users(i)) = 1
  <2> SUFFICES ASSUME NEW i \in 1..HmiMax
               PROVE  hmi_addressings[i] # -1 <=> Cardinality(Users(i)) = 1
    OBVIOUS
  <2>1. IsFiniteSet(Users(i))
    BY FS_Subset, HmiAssumption
  <2>2. Cardinality(Users(i)) = 1 <=> \E p : Users(i) = {p}
    BY <2>1, FS_Singleton
  <2>3. ASSUME hmi_addressings[i] # -1 PROVE \E p : Users(i) = {p}
    <3>1. PICK p \in HmiPort : hmi_port[p] = i
      BY <2>3 DEF HmiInv, UsersInv, Entry
    <3>2. \A q \in Users(i) : q = p
      BY <3>1 DEF HmiInv, UsersInv
    <3>3. p \in Users(i)
      BY <3>1 DEF HmiInv, UsersInv
    <3> QED
      BY <3>2, <3>3
  <2>4. ASSUME NEW p, Users(i) = {p} PROVE hmi_addressings[i] # -1
    <3>1. p \in HmiPort /\ hmi_port[p] = i
      BY <2>4
    <3> QED
      BY <3>1 DEF HmiInv, UsersInv
  <2> QED
    BY <2>2, <2>3, <2>4
<1>2. hmi_widget.at = "send" /\ ~hmi_widget.late =>
        hmi_port[hmi_widget.port] # 0
          /\ hmi_widget.actuator = hmi_addressings[hmi_port[hmi_widget.port]]
  BY DEF HmiInv, WidgetInv
<1> QED
  BY <1>1, <1>2 DEF AddressingsSound, HmiInv, UsersInv, HmiKnownInv

(* No entry of g_hmi_addressings leaks and none is shared by two ports,    *)
(* whatever is mapped, unmapped and removed; the pointer a plugin was told *)
(* is its port's; and a widget message goes to the actuator of that port   *)
(* unless it was unmapped under the call (effects.c:3754-3992, 6435,       *)
(* 8824-8928).                                                             *)
THEOREM AddressingsAreSound == HmiSpec => []AddressingsSound
<1>1. HmiInit => HmiInv
  BY HmiInitHolds
<1>2. HmiInv /\ [HmiNext]_hmiVars => HmiInv'
  BY HmiNextKeeps
<1>3. HmiInv => AddressingsSound
  BY InvariantSuffices
<1> QED
  BY <1>1, <1>2, <1>3, PTL DEF HmiSpec

-----------------------------------------------------------------------------
(* The Control Chain assignments.                                          *)

AssignmentsSpec == AssignmentsInit /\ [][AssignmentsNext]_ccVars

Held == [device : CcDevice, id : CcId, pair : CcId \union {-1}, port : CcPorts]
Slot == [effect : CcEffect \union {0, SlotUnused, SlotNull}, port : CcPorts \union {NoPort},
         pair : CcId \union {0, -1}]
SlotName == CcDevice \X CcId

Recording == [does : {"item", "pair"}, device : CcDevice, id : CcId, pair : CcId \union {-1},
              port : CcPorts]
Emptying == [does : {"zero", "mark"}, slots : SUBSET SlotName, key : SUBSET (CcId \union {-1}),
             gone : SUBSET CcEffect]
Naming == [does : {"value"}, device : CcDevice, id : CcId, port : CcPorts]

Coming == [at : {"sent", "port"}, device : CcDevice, id : CcId, meant : CcPorts, spoiled : BOOLEAN]
Looking == [at : {"effect"}, device : CcDevice, id : CcId, meant : CcPorts, spoiled : BOOLEAN,
            port : CcPorts]
Lost == [at : {"crashed"}, device : CcDevice, id : CcId, meant : CcPorts, spoiled : BOOLEAN]
Applied == [at : {"done"}, port : CcPorts, effect : Int, meant : CcPorts, spoiled : BOOLEAN,
            present : BOOLEAN]

CcTypeInv ==
  /\ cc_present \subseteq CcEffect
  /\ cc_held \subseteq Held
  /\ cc_list \in [CcDevice -> [CcId -> Slot]]
  /\ cc_task \in {CcIdle, [does |-> "reset"]} \union Recording \union Emptying \union Naming
  /\ cc_update \in {NoUpdate} \union Coming \union Looking \union Lost \union Applied

Ids(h) == {h.id, h.pair} \ {-1}
Other(h, i) == IF i = h.id THEN h.pair ELSE h.id

(* The slot i of device d is what is recorded of h.                        *)
Shows(h, d, i) ==
  h.device = d /\ i \in Ids(h) /\ cc_list[d][i] = Recorded(h.port, Other(h, i))

(* The library's assignments are of effects that exist, and no two of one  *)
(* device share an id.                                                     *)
HeldInv ==
  /\ \A h \in cc_held : h.port[1] \in cc_present
  /\ \A g, h \in cc_held : g.device = h.device /\ Ids(g) \cap Ids(h) # {} => g = h

(* The assignment that is being recorded, and the one being unmapped.      *)
Asked(h) ==
  /\ cc_task.does \in {"item", "pair"}
  /\ h = [device |-> cc_task.device, id |-> cc_task.id, pair |-> cc_task.pair, port |-> cc_task.port]

Unmapped(h) ==
  /\ cc_task.does \in {"zero", "mark"} /\ cc_task.gone = {}
  /\ h \in cc_held /\ cc_task.key = {h.id, h.pair}
  /\ \A x \in cc_task.slots : x[1] = h.device /\ x[2] \in Ids(h)
  /\ \A i \in Ids(h) : <<h.device, i>> \in cc_task.slots \/ cc_list[h.device][i].port = NoPort

(* The effect that is being removed has lost its assignments, and its      *)
(* slots are those to be cleared.                                          *)
Removed(e) ==
  /\ cc_task.does \in {"zero", "mark"} /\ cc_task.gone = {e} /\ cc_task.key = {}
  /\ e \in cc_present /\ \A h \in cc_held : h.port[1] # e
  /\ \A x \in cc_task.slots : cc_list[x[1]][x[2]].port = NoPort \/ cc_list[x[1]][x[2]].effect = e
  /\ \A d \in CcDevice, i \in CcId :
       cc_list[d][i].port # NoPort /\ cc_list[d][i].effect = e => <<d, i>> \in cc_task.slots

(* What each command relies on.                                            *)
TaskInv ==
  /\ cc_task.does \in {"item", "pair"} =>
       /\ \E h \in cc_held : Asked(h)
       /\ cc_task.does = "pair" => cc_task.pair # -1
       /\ \A i \in CcId : cc_list[cc_task.device][i].effect = SlotNull =>
            /\ i >= cc_task.id
            /\ cc_task.pair # -1 => i >= cc_task.pair \/ (cc_task.does = "item" /\ i = cc_task.id)
  /\ cc_task.does \in {"zero", "mark"} =>
       /\ cc_task.slots # {}
       /\ \A x \in cc_task.slots : cc_list[x[1]][x[2]].effect # SlotNull
       /\ cc_task.does = "mark" => cc_list[NextSlot[1]][NextSlot[2]].port = NoPort
       /\ (\E h \in cc_held : Unmapped(h)) \/ (\E e \in CcEffect : Removed(e))
  /\ cc_task.does = "reset" => cc_held = {}
  /\ cc_task.does = "value" =>
       \E h \in cc_held : h.device = cc_task.device /\ cc_task.id \in Ids(h) /\ h.port = cc_task.port

(* What a slot can be: nothing follows the end mark, a used one shows an   *)
(* assignment or is of the effect being removed, and a zeroed one is just  *)
(* being cleared.                                                          *)
SlotsInv ==
  \A d \in CcDevice, i \in CcId :
    /\ cc_list[d][i].effect = SlotNull => \A j \in CcId : j > i => cc_list[d][j].effect = SlotNull
    /\ cc_list[d][i].port # NoPort =>
         (\E h \in cc_held : Shows(h, d, i)) \/ (\E e \in CcEffect : Removed(e) /\ cc_list[d][i].effect = e)
    /\ cc_list[d][i].port = NoPort =>
         \/ cc_list[d][i] \in {Vacant(SlotNull), Vacant(SlotUnused)}
         \/ /\ cc_list[d][i] = Zeroed
            /\ cc_task.does = "reset" \/ (cc_task.does = "mark" /\ <<d, i>> = NextSlot)

(* Every id the library has is shown by its slot, is about to be, or is    *)
(* being unmapped.                                                         *)
ShownInv ==
  \A h \in cc_held : \A i \in Ids(h) :
    \/ Shows(h, h.device, i)
    \/ Asked(h) /\ (cc_task.does = "item" \/ i = cc_task.pair)
    \/ Unmapped(h)

(* An update that nobody spoiled finds its port or an empty slot.          *)
UpdateInv ==
  /\ cc_update.at \in {"sent", "port", "effect"} /\ ~cc_update.spoiled =>
       /\ cc_task.does # "reset"
       /\ UpdateSlot.port # NoPort =>
            UpdateSlot.port = cc_update.meant /\ UpdateSlot.effect = cc_update.meant[1]
  /\ cc_update.at = "effect" /\ ~cc_update.spoiled =>
       cc_update.port = cc_update.meant /\ UpdateSlot.port = cc_update.meant
  /\ cc_update.at = "done" /\ ~cc_update.spoiled =>
       cc_update.port = cc_update.meant /\ cc_update.effect = cc_update.port[1]
       /\ cc_update.present

AssignmentsInv ==
  CcTypeInv /\ HeldInv /\ TaskInv /\ SlotsInv /\ ShownInv /\ UpdateInv

-----------------------------------------------------------------------------
(* Ports, slots and ids.                                                   *)

LEMMA PortIs ==
  ASSUME NEW p \in CcPorts
  PROVE  p # NoPort /\ p[1] \in CcEffect /\ p[2] \in CcSymbol /\ p = <<p[1], p[2]>> /\ p[1] \in Nat
<1>1. PICK e \in CcEffect, s \in CcSymbol : p = <<e, s>>
  BY DEF CcPorts
<1>2. p # NoPort
  <2>1. Len(<<e, s>>) = 2 /\ Len(<<>>) = 0
    OBVIOUS
  <2> QED
    BY <1>1, <2>1 DEF NoPort
<1> QED
  BY <1>1, <1>2, AssignmentsAssumption

LEMMA HeldIs ==
  ASSUME CcTypeInv, NEW h \in cc_held
  PROVE  /\ h.device \in CcDevice /\ h.id \in CcId /\ h.pair \in CcId \union {-1} /\ h.port \in CcPorts
         /\ h.id \in Ids(h) /\ Ids(h) \subseteq CcId /\ -1 \notin CcId
         /\ \A i \in Ids(h) : Other(h, i) \in CcId \union {-1}
         /\ h.pair # -1 => h.pair \in Ids(h)
<1>1. h \in Held
  BY DEF CcTypeInv
<1>2. -1 \notin CcId /\ CcId \subseteq Nat
  BY AssignmentsAssumption DEF CcId
<1> QED
  BY <1>1, <1>2 DEF Held, Ids, Other

LEMMA SlotIs ==
  ASSUME CcTypeInv, NEW d \in CcDevice, NEW i \in CcId
  PROVE  cc_list[d][i] \in Slot
  BY DEF CcTypeInv

(* A slot that shows an assignment is the one of no other.                 *)
LEMMA ShownOnce ==
  ASSUME HeldInv, NEW g \in cc_held, NEW h \in cc_held, NEW d, NEW i,
         Shows(g, d, i), h.device = d, i \in Ids(h)
  PROVE  g = h
  BY DEF HeldInv, Shows

LEMMA ShownIs ==
  ASSUME CcTypeInv, NEW h \in cc_held, NEW d, NEW i, Shows(h, d, i)
  PROVE  /\ d \in CcDevice /\ i \in CcId /\ h.device = d /\ i \in Ids(h)
         /\ cc_list[d][i].port = h.port /\ cc_list[d][i].effect = h.port[1]
         /\ cc_list[d][i].pair = Other(h, i)
  BY HeldIs DEF Shows, Recorded

(* The first of the slots to be cleared.                                   *)
LEMMA NextSlotIs ==
  ASSUME CcTypeInv, TaskInv, cc_task.does \in {"zero", "mark"}
  PROVE  /\ NextSlot \in cc_task.slots /\ NextSlot[1] \in CcDevice /\ NextSlot[2] \in CcId
         /\ NextSlot = <<NextSlot[1], NextSlot[2]>>
<1>1. cc_task \in Emptying /\ cc_task.slots \subseteq SlotName /\ cc_task.slots # {}
  BY DEF CcTypeInv, TaskInv, CcIdle, Recording, Naming, Emptying
<1> DEFINE S == cc_task.slots
           T == {Rank(x) : x \in S}
<1>2. \A x \in S : Rank(x) \in Nat
  <2>1. \A x \in S : x[1] \in Nat /\ x[2] \in Nat
    <3>1. \A x \in SlotName : x[1] \in CcDevice /\ x[2] \in CcId
      BY DEF SlotName
    <3>2. CcDevice \subseteq Nat /\ CcId \subseteq Nat
      BY AssignmentsAssumption DEF CcId
    <3> QED
      BY <1>1, <3>1, <3>2
  <2>2. \A a, b \in Nat : a * b \in Nat /\ a + b \in Nat
    OBVIOUS
  <2> QED
    BY <2>1, <2>2, AssignmentsAssumption DEF Rank
<1>3. PICK r \in T : \A y \in T : ~(<<y, r>> \in OpToRel(<, Nat))
  <2>1. T \subseteq Nat /\ T # {}
    BY <1>1, <1>2
  <2> HIDE DEF T
  <2> QED
    BY <2>1, WFMin, NatLessThanWellFounded
<1>4. PICK x \in S : Rank(x) = r
  BY <1>3
<1>5. \A y \in S : ~(Rank(y) < Rank(x))
  BY <1>2, <1>3, <1>4 DEF OpToRel
<1>6. \A y \in S : Rank(x) <= Rank(y)
  BY <1>2, <1>5
<1>7. NextSlot \in S
  BY <1>6 DEF NextSlot
<1> QED
  BY <1>1, <1>7 DEF SlotName

(* The list at rest.                                                       *)
LEMMA ListAtRest ==
  ASSUME AssignmentsInv, cc_task.does \in {"nothing", "value"}, NEW d \in CcDevice, NEW i \in CcId
  PROVE  /\ cc_list[d][i].effect \in Int
         /\ cc_list[d][i].effect >= 0 <=> cc_list[d][i].port # NoPort
         /\ cc_list[d][i].port # NoPort => \E h \in cc_held : Shows(h, d, i)
         /\ cc_list[d][i].effect # SlotNull => i \in Visible(d)
<1>1. \A e : ~Removed(e)
  BY DEF Removed
<1>2. cc_list[d][i].port # NoPort => \E h \in cc_held : Shows(h, d, i)
  BY <1>1 DEF AssignmentsInv, SlotsInv
<1>3. cc_list[d][i].port # NoPort => cc_list[d][i].effect >= 0
  BY <1>2, HeldIs, ShownIs, PortIs DEF AssignmentsInv
<1>4. cc_list[d][i].port = NoPort => cc_list[d][i].effect \in {SlotNull, SlotUnused}
  BY DEF AssignmentsInv, SlotsInv, Vacant
<1>5. cc_list[d][i].effect # SlotNull => i \in Visible(d)
  <2>1. \A j \in 0..i : j \in CcId /\ (j = i \/ i > j)
    BY AssignmentsAssumption DEF CcId
  <2> QED
    BY <2>1 DEF AssignmentsInv, SlotsInv, Visible
<1>6. cc_list[d][i].effect \in Int
  <2>1. cc_list[d][i] \in Slot
    BY SlotIs DEF AssignmentsInv
  <2>2. CcEffect \subseteq Int
    BY AssignmentsAssumption
  <2>3. cc_list[d][i].effect \in CcEffect \union {0, SlotUnused, SlotNull}
    BY <2>1 DEF Slot
  <2>4. SlotNull \in Int /\ SlotUnused \in Int /\ 0 \in Int
    BY DEF SlotNull, SlotUnused
  <2> QED
    BY <2>2, <2>3, <2>4
<1> QED
  BY <1>2, <1>3, <1>4, <1>5, <1>6 DEF SlotNull, SlotUnused

LEMMA AssignmentsInitHolds == AssignmentsInit => AssignmentsInv
<1> SUFFICES ASSUME AssignmentsInit PROVE AssignmentsInv
  OBVIOUS
<1>1. /\ cc_present = {} /\ cc_held = {} /\ cc_task.does = "nothing" /\ cc_update.at = "idle"
      /\ cc_task = CcIdle /\ cc_update = NoUpdate
      /\ cc_list = [d \in CcDevice |-> [i \in CcId |-> Vacant(SlotNull)]]
  BY DEF AssignmentsInit, CcIdle, NoUpdate
<1>2. Vacant(SlotNull) \in Slot
  BY DEF Vacant, Slot
<1>3. \A d \in CcDevice, i \in CcId : cc_list[d][i] = Vacant(SlotNull)
  BY <1>1
<1>4. CcTypeInv
  BY <1>1, <1>2 DEF CcTypeInv
<1>5. HeldInv /\ TaskInv /\ ShownInv /\ UpdateInv
  BY <1>1 DEF HeldInv, TaskInv, ShownInv, UpdateInv
<1>6. Vacant(SlotNull).port = NoPort /\ Vacant(SlotNull).effect = SlotNull
  BY DEF Vacant
<1>7. SlotsInv
  BY <1>3, <1>6 DEF SlotsInv
<1> QED
  BY <1>4, <1>5, <1>7 DEF AssignmentsInv

-----------------------------------------------------------------------------
(* The updates.                                                            *)

LEMMA UpdateShape ==
  ASSUME CcTypeInv, cc_update.at \in {"sent", "port", "effect"}
  PROVE  /\ cc_update.device \in CcDevice /\ cc_update.id \in CcId
         /\ cc_update.meant \in CcPorts /\ cc_update.spoiled \in BOOLEAN
         /\ cc_update \in Coming \union Looking
         /\ cc_update.at = "effect" => cc_update \in Looking
  BY DEF CcTypeInv, NoUpdate, Coming, Looking, Lost, Applied

(* A command that leaves the update alone, and every slot as it is.        *)
LEMMA UpdateUntouched ==
  ASSUME UpdateInv, UNCHANGED <<cc_list, cc_update>>, cc_task'.does # "reset"
  PROVE  UpdateInv'
  BY DEF UpdateInv, UpdateSlot

(* A command that writes slots touches the update that is about them.      *)
LEMMA UpdateTouched ==
  ASSUME CcTypeInv, UpdateInv, NEW d, NEW ids, Touch(d, ids), cc_task'.does # "reset",
         \A b \in CcDevice, i \in CcId : ~(b = d /\ i \in ids) => cc_list'[b][i] = cc_list[b][i]
  PROVE  UpdateInv' /\ cc_update' \in {NoUpdate} \union Coming \union Looking \union Lost \union Applied
<1>1. CASE cc_update.at \in {"sent", "port", "effect"} /\ cc_update.device = d /\ cc_update.id \in ids
  <2>1. cc_update' = [cc_update EXCEPT !.spoiled = TRUE]
    BY <1>1 DEF Touch
  <2>2. cc_update' \in Coming \union Looking /\ cc_update'.spoiled
    BY <1>1, <2>1, UpdateShape DEF Coming, Looking
  <2>3. cc_update'.at # "done"
    BY <2>2 DEF Coming, Looking
  <2> QED
    BY <2>2, <2>3 DEF UpdateInv
<1>2. CASE ~(cc_update.at \in {"sent", "port", "effect"} /\ cc_update.device = d /\ cc_update.id \in ids)
  <2>1. cc_update' = cc_update
    BY <1>2 DEF Touch
  <2>2. cc_update.at \in {"sent", "port", "effect"} => UpdateSlot' = UpdateSlot
    BY <1>2, <2>1, UpdateShape DEF UpdateSlot
  <2>3. UpdateInv'
    BY <2>1, <2>2 DEF UpdateInv
  <2> QED
    BY <2>1, <2>3 DEF CcTypeInv
<1> QED
  BY <1>1, <1>2

(* What the list, the library and the command must not do is not about the *)
(* updates.                                                                *)
LEMMA OthersUntouched ==
  ASSUME HeldInv, TaskInv, SlotsInv, ShownInv, UNCHANGED <<cc_present, cc_list, cc_held, cc_task>>
  PROVE  HeldInv' /\ TaskInv' /\ SlotsInv' /\ ShownInv'
<1>1. HeldInv'
  BY DEF HeldInv
<1>2. /\ \A h : Asked(h)' <=> Asked(h)
      /\ \A h : Unmapped(h)' <=> Unmapped(h)
      /\ \A e : Removed(e)' <=> Removed(e)
      /\ \A h, d, i : Shows(h, d, i)' <=> Shows(h, d, i)
      /\ NextSlot' = NextSlot
  BY DEF Asked, Unmapped, Removed, Shows, NextSlot
<1>3. TaskInv'
  BY <1>2 DEF TaskInv
<1>4. SlotsInv'
  BY <1>2 DEF SlotsInv
<1>5. ShownInv'
  BY <1>2 DEF ShownInv
<1> QED
  BY <1>1, <1>3, <1>4, <1>5

(* A slot that is in use and has not been spoiled is of an effect that is  *)
(* there.                                                                  *)
LEMMA UsedIsPresent ==
  ASSUME AssignmentsInv, NEW d \in CcDevice, NEW i \in CcId, cc_list[d][i].port # NoPort
  PROVE  cc_list[d][i].effect \in cc_present
<1>1. CASE \E h \in cc_held : Shows(h, d, i)
  BY <1>1, ShownIs DEF AssignmentsInv, HeldInv
<1>2. CASE \E e \in CcEffect : Removed(e) /\ cc_list[d][i].effect = e
  BY <1>2 DEF Removed
<1> QED
  BY <1>1, <1>2 DEF AssignmentsInv, SlotsInv

LEMMA MoveKeeps ==
  ASSUME AssignmentsInv, NEW h \in cc_held, ActuatorMoves(h)
  PROVE  AssignmentsInv'
<1>1. PICK i \in Ids(h) :
        cc_update' = [at |-> "sent", device |-> h.device, id |-> i, meant |-> h.port,
                      spoiled |-> FALSE]
  BY DEF ActuatorMoves, Ids
<1>2. UNCHANGED <<cc_present, cc_list, cc_held, cc_task>>
  BY DEF ActuatorMoves
<1>3. h.device \in CcDevice /\ i \in CcId /\ h.port \in CcPorts
  BY HeldIs DEF AssignmentsInv
<1>4. cc_update' \in Coming
  BY <1>1, <1>3 DEF Coming
<1>5. CcTypeInv'
  BY <1>2, <1>4 DEF AssignmentsInv, CcTypeInv
<1>6. cc_task.does # "reset"
  BY DEF AssignmentsInv, TaskInv
<1>7. cc_list[h.device][i].port # NoPort =>
        cc_list[h.device][i].port = h.port /\ cc_list[h.device][i].effect = h.port[1]
  <2>1. SUFFICES ASSUME cc_list[h.device][i].port # NoPort
                 PROVE  Shows(h, h.device, i)
    BY ShownIs DEF AssignmentsInv
  <2>2. CASE \E g \in cc_held : Shows(g, h.device, i)
    BY <2>2, ShownOnce DEF AssignmentsInv
  <2>3. CASE \E e \in CcEffect : Removed(e) /\ cc_list[h.device][i].effect = e
    BY <2>3 DEF AssignmentsInv, ShownInv, Removed, Asked, Unmapped
  <2> QED
    BY <1>3, <2>1, <2>2, <2>3 DEF AssignmentsInv, SlotsInv
<1>8. UpdateInv'
  BY <1>1, <1>2, <1>6, <1>7 DEF UpdateInv, UpdateSlot
<1> QED
  BY <1>2, <1>5, <1>8, OthersUntouched DEF AssignmentsInv

LEMMA CheckKeeps ==
  ASSUME AssignmentsInv, UpdateCheck
  PROVE  AssignmentsInv'
<1>1. UNCHANGED <<cc_present, cc_list, cc_held, cc_task>> /\ cc_update.at = "sent"
  BY DEF UpdateCheck
<1>2. CASE cc_update' = NoUpdate
  <2>1. CcTypeInv' /\ UpdateInv'
    BY <1>1, <1>2 DEF AssignmentsInv, CcTypeInv, UpdateInv, NoUpdate
  <2> QED
    BY <1>1, <2>1, OthersUntouched DEF AssignmentsInv
<1>3. CASE cc_update' = [cc_update EXCEPT !.at = "port"]
  <2>1. cc_update \in Coming
    BY <1>1, UpdateShape DEF AssignmentsInv, Looking
  <2>2. /\ cc_update' \in Coming /\ cc_update'.at = "port" /\ cc_update'.device = cc_update.device
        /\ cc_update'.id = cc_update.id /\ cc_update'.meant = cc_update.meant
        /\ cc_update'.spoiled = cc_update.spoiled
    BY <1>3, <2>1 DEF Coming
  <2>3. CcTypeInv'
    BY <1>1, <2>2 DEF AssignmentsInv, CcTypeInv
  <2>4. UpdateSlot' = UpdateSlot
    BY <1>1, <2>2 DEF UpdateSlot
  <2>5. UpdateInv'
    BY <1>1, <2>2, <2>4 DEF AssignmentsInv, UpdateInv
  <2> QED
    BY <1>1, <2>3, <2>5, OthersUntouched DEF AssignmentsInv
<1> QED
  BY <1>2, <1>3 DEF UpdateCheck

LEMMA PortKeeps ==
  ASSUME AssignmentsInv, UpdatePort
  PROVE  AssignmentsInv'
<1>1. /\ UNCHANGED <<cc_present, cc_list, cc_held, cc_task>> /\ cc_update.at = "port"
      /\ cc_update \in Coming
  BY UpdateShape DEF AssignmentsInv, UpdatePort, Looking
<1>2. CASE UpdateSlot.port = NoPort
  <2>1. cc_update' = [cc_update EXCEPT !.at = "crashed"]
    BY <1>2 DEF UpdatePort
  <2>2. cc_update' \in Lost /\ cc_update'.at = "crashed"
    BY <1>1, <2>1 DEF Lost, Coming
  <2>3. CcTypeInv' /\ UpdateInv'
    BY <1>1, <2>2 DEF AssignmentsInv, CcTypeInv, UpdateInv
  <2> QED
    BY <1>1, <2>3, OthersUntouched DEF AssignmentsInv
<1>3. CASE UpdateSlot.port # NoPort
  <2>1. cc_update' = [at |-> "effect", device |-> cc_update.device, id |-> cc_update.id,
                      meant |-> cc_update.meant, spoiled |-> cc_update.spoiled,
                      port |-> UpdateSlot.port]
    BY <1>3 DEF UpdatePort
  <2>2. UpdateSlot \in Slot
    BY <1>1, UpdateShape, SlotIs DEF AssignmentsInv, UpdateSlot
  <2>3. UpdateSlot.port \in CcPorts
    BY <1>3, <2>2 DEF Slot
  <2>4. cc_update' \in Looking
    BY <1>1, <2>1, <2>3 DEF Looking, Coming
  <2>5. CcTypeInv'
    BY <1>1, <2>4 DEF AssignmentsInv, CcTypeInv
  <2>6. UpdateSlot' = UpdateSlot
    BY <1>1, <2>1 DEF UpdateSlot
  <2>7. UpdateInv'
    BY <1>1, <1>3, <2>1, <2>6 DEF AssignmentsInv, UpdateInv
  <2> QED
    BY <1>1, <2>5, <2>7, OthersUntouched DEF AssignmentsInv
<1> QED
  BY <1>2, <1>3

LEMMA ApplyKeeps ==
  ASSUME AssignmentsInv, UpdateApply
  PROVE  AssignmentsInv'
<1>1. /\ UNCHANGED <<cc_present, cc_list, cc_held, cc_task>> /\ cc_update.at = "effect"
      /\ cc_update \in Looking
  BY UpdateShape DEF AssignmentsInv, UpdateApply
<1>2. CASE cc_update' = NoUpdate
  <2>1. CcTypeInv' /\ UpdateInv'
    BY <1>1, <1>2 DEF AssignmentsInv, CcTypeInv, UpdateInv, NoUpdate
  <2> QED
    BY <1>1, <2>1, OthersUntouched DEF AssignmentsInv
<1>3. CASE cc_update' = [at |-> "done", port |-> cc_update.port, effect |-> UpdateSlot.effect,
                         meant |-> cc_update.meant, spoiled |-> cc_update.spoiled,
                         present |-> cc_update.port[1] \in cc_present]
  <2>1. cc_update.device \in CcDevice /\ cc_update.id \in CcId
    BY <1>1 DEF Looking
  <2>2. UpdateSlot \in Slot /\ UpdateSlot.effect \in Int
    <3>1. UpdateSlot \in Slot
      BY <2>1, SlotIs DEF AssignmentsInv, UpdateSlot
    <3>2. UpdateSlot.effect \in CcEffect \union {0, SlotUnused, SlotNull}
      BY <3>1 DEF Slot
    <3>3. SlotNull \in Int /\ SlotUnused \in Int /\ 0 \in Int /\ CcEffect \subseteq Int
      BY AssignmentsAssumption DEF SlotNull, SlotUnused
    <3> QED
      BY <3>1, <3>2, <3>3
  <2>3. cc_update' \in Applied
    BY <1>1, <1>3, <2>2 DEF Applied, Looking
  <2>4. CcTypeInv'
    BY <1>1, <2>3 DEF AssignmentsInv, CcTypeInv
  <2>5. ~cc_update.spoiled =>
          /\ cc_update.port = cc_update.meant /\ cc_update.meant \in CcPorts
          /\ UpdateSlot.port = cc_update.meant /\ UpdateSlot.effect = cc_update.meant[1]
    BY <1>1, PortIs DEF AssignmentsInv, UpdateInv, Looking
  <2>6. ~cc_update.spoiled => cc_update.port[1] \in cc_present
    <3>1. ~cc_update.spoiled => UpdateSlot.port # NoPort
      BY <2>5, PortIs
    <3> QED
      BY <2>1, <2>5, <3>1, UsedIsPresent DEF UpdateSlot
  <2>7. UpdateInv'
    BY <1>3, <2>5, <2>6 DEF UpdateInv
  <2> QED
    BY <1>1, <2>4, <2>7, OthersUntouched DEF AssignmentsInv
<1> QED
  BY <1>2, <1>3 DEF UpdateApply

-----------------------------------------------------------------------------
(* The commands.                                                           *)

LEMMA NothingUnderWay ==
  ASSUME cc_task.does \in {"nothing", "value", "reset"}
  PROVE  \A h : ~Asked(h) /\ ~Unmapped(h) /\ ~Removed(h)
  BY DEF Asked, Unmapped, Removed

LEMMA AddAssignableKeeps ==
  ASSUME AssignmentsInv, NEW e \in CcEffect, AddAssignable(e)
  PROVE  AssignmentsInv'
<1>1. /\ cc_present' = cc_present \union {e} /\ UNCHANGED <<cc_list, cc_held, cc_task, cc_update>>
      /\ cc_task.does = "nothing" /\ cc_task'.does = "nothing"
  BY DEF AddAssignable, CcIdle
<1>2. CcTypeInv' /\ HeldInv'
  BY <1>1 DEF AssignmentsInv, CcTypeInv, HeldInv
<1>3. UpdateInv'
  BY <1>1, UpdateUntouched DEF AssignmentsInv
<1>4. TaskInv'
  BY <1>1 DEF TaskInv
<1>5. \A h, d, i : Shows(h, d, i)' <=> Shows(h, d, i)
  BY <1>1 DEF Shows
<1>6. SlotsInv' /\ ShownInv'
  BY <1>1, <1>5, NothingUnderWay DEF AssignmentsInv, SlotsInv, ShownInv
<1> QED
  BY <1>2, <1>3, <1>4, <1>6 DEF AssignmentsInv

(* A slot of the port that is looked for.                                  *)
LEMMA FirstSlotIs ==
  ASSUME NEW e, NEW s, NEW x \in FirstSlot(e, s)
  PROVE  /\ x[1] \in CcDevice /\ x[2] \in CcId /\ x = <<x[1], x[2]>>
         /\ cc_list[x[1]][x[2]].effect = e /\ cc_list[x[1]][x[2]].port # NoPort
         /\ cc_list[x[1]][x[2]].port[2] = s
  BY DEF FirstSlot, Visible

LEMMA ValueSetKeeps ==
  ASSUME AssignmentsInv, NEW e \in CcEffect, NEW s \in CcSymbol, CcValueSet(e, s)
  PROVE  AssignmentsInv'
<1>1. PICK x \in FirstSlot(e, s) :
        /\ cc_task' = [does |-> "value", device |-> x[1], id |-> x[2], port |-> <<e, s>>]
        /\ UNCHANGED <<cc_present, cc_list, cc_held, cc_update>>
  BY DEF CcValueSet
<1>2. cc_task.does = "nothing" /\ cc_task'.does = "value"
  BY <1>1 DEF CcValueSet, CcIdle
<1>3. /\ x[1] \in CcDevice /\ x[2] \in CcId
      /\ cc_list[x[1]][x[2]].effect = e /\ cc_list[x[1]][x[2]].port # NoPort
      /\ cc_list[x[1]][x[2]].port[2] = s
  BY FirstSlotIs
<1>4. PICK h \in cc_held : Shows(h, x[1], x[2])
  BY <1>2, <1>3, ListAtRest
<1>5. /\ h.device = x[1] /\ x[2] \in Ids(h) /\ h.port \in CcPorts /\ h.port[1] = e /\ h.port[2] = s
  BY <1>3, <1>4, ShownIs, HeldIs DEF AssignmentsInv
<1>6. h.port = <<e, s>>
  BY <1>5, PortIs
<1>7. cc_task' \in Naming
  <2>1. <<e, s>> \in CcPorts
    BY DEF CcPorts
  <2> QED
    BY <1>1, <1>3, <2>1 DEF Naming
<1>8. CcTypeInv' /\ HeldInv'
  BY <1>1, <1>7 DEF AssignmentsInv, CcTypeInv, HeldInv
<1>9. UpdateInv'
  BY <1>1, <1>2, UpdateUntouched DEF AssignmentsInv
<1>10. TaskInv'
  <2>1. /\ h \in cc_held' /\ h.device = cc_task'.device /\ cc_task'.id \in Ids(h)
        /\ h.port = cc_task'.port
    BY <1>1, <1>5, <1>6
  <2> QED
    BY <1>2, <2>1 DEF TaskInv
<1>11. \A g, d, i : Shows(g, d, i)' <=> Shows(g, d, i)
  BY <1>1 DEF Shows
<1>12. SlotsInv' /\ ShownInv'
  BY <1>1, <1>2, <1>11, NothingUnderWay DEF AssignmentsInv, SlotsInv, ShownInv
<1> QED
  BY <1>8, <1>9, <1>10, <1>12 DEF AssignmentsInv

LEMMA ValueSentKeeps ==
  ASSUME AssignmentsInv, CcValueSent
  PROVE  AssignmentsInv'
<1>1. /\ UNCHANGED <<cc_present, cc_list, cc_held, cc_update>> /\ cc_task' = CcIdle
      /\ cc_task.does = "value" /\ cc_task'.does = "nothing"
  BY DEF CcValueSent, CcIdle
<1>2. CcTypeInv' /\ HeldInv'
  BY <1>1 DEF AssignmentsInv, CcTypeInv, HeldInv
<1>3. UpdateInv'
  BY <1>1, UpdateUntouched DEF AssignmentsInv
<1>4. TaskInv'
  BY <1>1 DEF TaskInv
<1>5. \A h, d, i : Shows(h, d, i)' <=> Shows(h, d, i)
  BY <1>1 DEF Shows
<1>6. SlotsInv' /\ ShownInv'
  BY <1>1, <1>5, NothingUnderWay DEF AssignmentsInv, SlotsInv, ShownInv
<1> QED
  BY <1>2, <1>3, <1>4, <1>6 DEF AssignmentsInv

(* The assignment that the library gives is of ids that it had not given,  *)
(* and of the lowest ones.                                                 *)
LEMMA LowestIds ==
  ASSUME CcTypeInv, NEW d \in CcDevice, NEW paired \in BOOLEAN, NEW id, NEW pair,
         Cardinality(FreeIds(d)) > (IF paired THEN 1 ELSE 0),
         id = Min(FreeIds(d)), pair = IF paired THEN Min(FreeIds(d) \ {id}) ELSE -1
  PROVE  /\ id \in FreeIds(d) /\ \A i \in FreeIds(d) : id <= i
         /\ pair = -1 \/ pair \in FreeIds(d)
         /\ pair # -1 => \A i \in FreeIds(d) : i = id \/ pair <= i
<1> DEFINE free == FreeIds(d)
<1>1. free \subseteq CcId /\ CcId \subseteq Nat /\ IsFiniteSet(CcId)
  <2> DEFINE top == CcMax - 1
  <2>1. top \in Int /\ 0 \in Int
    BY AssignmentsAssumption
  <2>2. CcId = 0..top
    BY DEF CcId
  <2> HIDE DEF top
  <2>3. IsFiniteSet(0..top)
    BY <2>1, FS_Interval
  <2> QED
    BY <2>1, <2>2, <2>3 DEF FreeIds
<1>2. free \in SUBSET Nat /\ IsFiniteSet(free)
  BY <1>1, FS_Subset
<1> HIDE DEF free
<1>3. Cardinality(free) > (IF paired THEN 1 ELSE 0)
  BY DEF free
<1>4. free # {}
  BY <1>3, FS_EmptySet
<1>5. id \in free /\ \A i \in free : id <= i
  BY <1>2, <1>4, MinIsIn DEF free
<1>6. CASE paired
  <2>1. Cardinality(free \ {id}) = Cardinality(free) - 1 /\ Cardinality(free) \in Nat
    BY <1>2, <1>5, FS_RemoveElement, FS_CardinalityType
  <2>2. free \ {id} # {}
    BY <1>3, <1>6, <2>1, FS_EmptySet
  <2>3. pair = Min(free \ {id})
    BY <1>6 DEF free
  <2>4. pair \in free \ {id} /\ \A i \in free \ {id} : pair <= i
    BY <1>2, <2>2, <2>3, MinIsIn
  <2> QED
    BY <1>5, <2>4 DEF free
<1>7. CASE ~paired
  BY <1>5, <1>7 DEF free
<1> QED
  BY <1>6, <1>7

LEMMA RequestKeeps ==
  ASSUME AssignmentsInv, NEW e \in CcEffect, NEW s \in CcSymbol, NEW d \in CcDevice,
         NEW paired \in BOOLEAN, CcRequest(e, s, d, paired)
  PROVE  AssignmentsInv'
<1>0. PICK id, pair : id = Min(FreeIds(d)) /\ pair = IF paired THEN Min(FreeIds(d) \ {id}) ELSE -1
  OBVIOUS
<1> DEFINE h == [device |-> d, id |-> id, pair |-> pair, port |-> <<e, s>>]
<1>1. /\ e \in cc_present /\ cc_held' = cc_held \union {h}
      /\ cc_task' = [does |-> "item", device |-> d, id |-> id, pair |-> pair, port |-> <<e, s>>]
      /\ UNCHANGED <<cc_present, cc_list, cc_update>>
  BY <1>0 DEF CcRequest
<1>2. cc_task.does = "nothing" /\ cc_task'.does = "item"
  BY <1>1 DEF CcRequest, CcIdle
<1>3. /\ id \in FreeIds(d) /\ \A i \in FreeIds(d) : id <= i
      /\ pair = -1 \/ pair \in FreeIds(d)
      /\ pair # -1 => \A i \in FreeIds(d) : i = id \/ pair <= i
  <2>1. CcTypeInv /\ Cardinality(FreeIds(d)) > (IF paired THEN 1 ELSE 0)
    BY DEF CcRequest, AssignmentsInv
  <2> QED
    BY <1>0, <2>1, LowestIds
<1>4. FreeIds(d) \subseteq CcId /\ \A g \in cc_held : g.device = d => Ids(g) \cap FreeIds(d) = {}
  BY DEF FreeIds, Ids
<1>5. /\ h.device = d /\ h.id = id /\ h.pair = pair /\ h.port = <<e, s>> /\ Ids(h) \subseteq FreeIds(d)
      /\ h \in Held /\ h.port[1] = e
  <2>1. <<e, s>> \in CcPorts
    BY DEF CcPorts
  <2> QED
    BY <1>3, <1>4, <2>1 DEF Held, Ids
<1>6. Asked(h)'
  BY <1>1, <1>2 DEF Asked
<1> HIDE DEF h
<1>7. CcTypeInv'
  <2>1. cc_task' \in Recording
    BY <1>1, <1>5 DEF Recording, Held
  <2> QED
    BY <1>1, <1>5, <2>1 DEF AssignmentsInv, CcTypeInv
<1>8. HeldInv'
  <2>1. \A g \in cc_held' : g.port[1] \in cc_present'
    BY <1>1, <1>5 DEF AssignmentsInv, HeldInv
  <2>2. \A g, k \in cc_held' : g.device = k.device /\ Ids(g) \cap Ids(k) # {} => g = k
    BY <1>1, <1>4, <1>5 DEF AssignmentsInv, HeldInv
  <2> QED
    BY <2>1, <2>2 DEF HeldInv
<1>9. \A i \in CcId : cc_list[d][i].effect = SlotNull => i \in FreeIds(d)
  <2>1. SUFFICES ASSUME NEW i \in CcId, i \notin FreeIds(d) PROVE cc_list[d][i].effect # SlotNull
    OBVIOUS
  <2>2. PICK g \in cc_held : g.device = d /\ i \in {g.id, g.pair}
    BY <2>1 DEF FreeIds
  <2>3. i \in Ids(g)
    BY <2>1, <2>2, HeldIs DEF AssignmentsInv, Ids
  <2>4. Shows(g, d, i)
    BY <1>2, <2>2, <2>3, NothingUnderWay DEF AssignmentsInv, ShownInv
  <2>5. cc_list[d][i].effect \in Nat
    BY <2>4, ShownIs, HeldIs, PortIs DEF AssignmentsInv
  <2> QED
    BY <2>5 DEF SlotNull
<1>10. TaskInv'
  <2>1. \E g \in cc_held' : Asked(g)'
    BY <1>1, <1>6
  <2>2. ASSUME NEW i \in CcId, cc_list[d][i].effect = SlotNull
        PROVE  i >= id /\ (pair # -1 => i >= pair \/ i = id)
    <3>1. i \in FreeIds(d) /\ i \in Int /\ id \in Int /\ pair \in Int
      BY <1>3, <1>4, <1>9, <2>2 DEF CcId
    <3> QED
      BY <1>3, <3>1
  <2>3. /\ cc_task'.device = d /\ cc_task'.id = id /\ cc_task'.pair = pair /\ cc_list' = cc_list
    BY <1>1
  <2> QED
    BY <1>2, <2>1, <2>2, <2>3 DEF TaskInv
<1>11. \A g, b, i : Shows(g, b, i)' <=> Shows(g, b, i)
  BY <1>1 DEF Shows
<1>12. SlotsInv'
  BY <1>1, <1>2, <1>11, NothingUnderWay DEF AssignmentsInv, SlotsInv
<1>13. ShownInv'
  <2>1. \A g \in cc_held : \A i \in Ids(g) : Shows(g, g.device, i)'
    BY <1>2, <1>11, NothingUnderWay DEF AssignmentsInv, ShownInv
  <2> QED
    BY <1>1, <1>2, <1>6, <2>1 DEF ShownInv
<1>14. UpdateInv'
  BY <1>1, <1>2, UpdateUntouched DEF AssignmentsInv
<1> QED
  BY <1>7, <1>8, <1>10, <1>12, <1>13, <1>14 DEF AssignmentsInv

OnlyWrites(d, k, new) == cc_list' = [cc_list EXCEPT ![d][k] = new]

LEMMA OneSlotWritten ==
  ASSUME CcTypeInv, NEW d \in CcDevice, NEW k \in CcId, NEW new \in Slot,
         OnlyWrites(d, k, new)
  PROVE  /\ cc_list' \in [CcDevice -> [CcId -> Slot]] /\ cc_list'[d][k] = new
         /\ \A b \in CcDevice, i \in CcId : ~(b = d /\ i = k) => cc_list'[b][i] = cc_list[b][i]
<1>1. cc_list \in [CcDevice -> [CcId -> Slot]] /\ cc_list[d] \in [CcId -> Slot]
  BY DEF CcTypeInv
<1> DEFINE row == [cc_list[d] EXCEPT ![k] = new]
<1>2. row \in [CcId -> Slot] /\ row[k] = new /\ \A i \in CcId : i # k => row[i] = cc_list[d][i]
  BY <1>1
<1>3. cc_list' = [cc_list EXCEPT ![d] = row]
  BY DEF OnlyWrites
<1> HIDE DEF row
<1>4. cc_list' \in [CcDevice -> [CcId -> Slot]] /\ cc_list'[d] = row
      /\ \A b \in CcDevice : b # d => cc_list'[b] = cc_list[b]
  BY <1>1, <1>2, <1>3
<1> QED
  BY <1>2, <1>4

(* Writing the slot of an id of the assignment that was asked for, with no *)
(* end mark before it.                                                     *)
LEMMA RecordedSlot ==
  ASSUME AssignmentsInv, NEW h \in cc_held, Asked(h), NEW k \in Ids(h),
         cc_list' = [cc_list EXCEPT ![h.device][k] = Recorded(h.port, Other(h, k))],
         \A i \in CcId : cc_list[h.device][i].effect = SlotNull => i >= k,
         cc_held' = cc_held, cc_present' = cc_present
  PROVE  /\ cc_list' \in [CcDevice -> [CcId -> Slot]] /\ HeldInv' /\ SlotsInv'
         /\ Shows(h, h.device, k)'
         /\ \A g \in cc_held, i \in CcId : Shows(g, g.device, i) => Shows(g, g.device, i)'
         /\ \A i \in CcId : cc_list'[h.device][i].effect = SlotNull =>
              i # k /\ cc_list[h.device][i].effect = SlotNull
<1> DEFINE d == h.device
           new == Recorded(h.port, Other(h, k))
<1>1. /\ d \in CcDevice /\ k \in CcId /\ h.port \in CcPorts /\ Other(h, k) \in CcId \union {-1}
      /\ CcId \subseteq Nat
  BY HeldIs, AssignmentsAssumption DEF AssignmentsInv, CcId
<1>2. /\ new.effect = h.port[1] /\ new.port = h.port /\ h.port # NoPort /\ new.effect \in Nat
      /\ new \in Slot
  <2>1. h.port # NoPort /\ h.port[1] \in CcEffect /\ h.port[1] \in Nat
    BY <1>1, PortIs
  <2> QED
    BY <1>1, <2>1 DEF Recorded, Slot
<1>4. cc_list' = [cc_list EXCEPT ![d][k] = new]
  OBVIOUS
<1> HIDE DEF d, new
<1>5. /\ cc_list' \in [CcDevice -> [CcId -> Slot]] /\ cc_list'[d][k] = new
      /\ \A b \in CcDevice, i \in CcId : ~(b = d /\ i = k) => cc_list'[b][i] = cc_list[b][i]
  <2>1. d \in CcDevice /\ k \in CcId /\ new \in Slot
    BY <1>1, <1>2
  <2> QED
    <3>1. CcTypeInv /\ OnlyWrites(d, k, new)
      BY <1>4 DEF AssignmentsInv, OnlyWrites
    <3> QED
      BY <2>1, <3>1, OneSlotWritten
<1>6. Shows(h, d, k)'
  <2>1. h.device = d /\ k \in Ids(h)
    BY DEF d
  <2> QED
    BY <1>5, <2>1 DEF Shows, new
<1>7. ASSUME NEW g \in cc_held, NEW b \in CcDevice, NEW i \in CcId, Shows(g, b, i)
      PROVE  Shows(g, b, i)'
  <2>1. CASE b = d /\ i = k
    <3>1. g = h
      BY <1>7, <2>1, ShownOnce DEF AssignmentsInv, d
    <3> QED
      BY <1>6, <2>1, <3>1
  <2>2. CASE ~(b = d /\ i = k)
    BY <1>5, <1>7, <2>2 DEF Shows
  <2> QED
    BY <2>1, <2>2
<1>8. HeldInv'
  BY DEF AssignmentsInv, HeldInv
<1>9. \A i \in CcId : cc_list'[d][i].effect = SlotNull => i # k /\ cc_list[d][i].effect = SlotNull
  BY <1>1, <1>2, <1>5 DEF SlotNull
<1>10. cc_task.does \in {"item", "pair"} /\ \A e : ~Removed(e)
  BY DEF Asked, Removed
<1>11. SlotsInv'
  <2>1. ASSUME NEW b \in CcDevice, NEW i \in CcId, cc_list'[b][i].effect = SlotNull,
               NEW j \in CcId, j > i
        PROVE  cc_list'[b][j].effect = SlotNull
    <3>1. cc_list[b][i].effect = SlotNull /\ cc_list[b][j].effect = SlotNull
      BY <1>5, <1>9, <2>1 DEF AssignmentsInv, SlotsInv
    <3>2. ~(b = d /\ j = k)
      BY <1>1, <2>1, <3>1 DEF d
    <3> QED
      BY <1>5, <3>1, <3>2
  <2>2. ASSUME NEW b \in CcDevice, NEW i \in CcId, cc_list'[b][i].port # NoPort
        PROVE  \E g \in cc_held' : Shows(g, b, i)'
    <3>1. CASE b = d /\ i = k
      BY <1>6, <3>1
    <3>2. CASE ~(b = d /\ i = k)
      <4>1. cc_list[b][i].port # NoPort
        BY <1>5, <2>2, <3>2
      <4>2. PICK g \in cc_held : Shows(g, b, i)
        BY <1>10, <4>1 DEF AssignmentsInv, SlotsInv
      <4> QED
        BY <1>7, <4>2
    <3> QED
      BY <3>1, <3>2
  <2>3. ASSUME NEW b \in CcDevice, NEW i \in CcId, cc_list'[b][i].port = NoPort
        PROVE  cc_list'[b][i] \in {Vacant(SlotNull), Vacant(SlotUnused)}
    <3>1. ~(b = d /\ i = k)
      BY <1>2, <1>5, <2>3
    <3>2. cc_list'[b][i] = cc_list[b][i]
      BY <1>5, <3>1
    <3> QED
      BY <1>10, <2>3, <3>2 DEF AssignmentsInv, SlotsInv
  <2> QED
    BY <2>1, <2>2, <2>3 DEF SlotsInv
<1> QED
  <2>1. \A g \in cc_held, i \in CcId : Shows(g, g.device, i) => Shows(g, g.device, i)'
    BY <1>7, HeldIs DEF AssignmentsInv
  <2> QED
    BY <1>5, <1>6, <1>8, <1>9, <1>11, <2>1 DEF d

LEMMA RecordKeeps ==
  ASSUME AssignmentsInv, CcRecord
  PROVE  AssignmentsInv'
<1>1. PICK h \in cc_held : Asked(h)
  BY DEF AssignmentsInv, TaskInv, CcRecord
<1>2. /\ h.device = cc_task.device /\ h.id = cc_task.id /\ h.pair = cc_task.pair
      /\ h.port = cc_task.port /\ cc_task.does = "item"
  BY <1>1 DEF Asked, CcRecord
<1>3. /\ h.device \in CcDevice /\ h.id \in CcId /\ h.id \in Ids(h) /\ Other(h, h.id) = h.pair
      /\ h.pair \in CcId \union {-1} /\ Ids(h) \subseteq CcId
  BY HeldIs DEF AssignmentsInv, Other
<1>4. /\ cc_list' = [cc_list EXCEPT ![h.device][h.id] = Recorded(h.port, h.pair)]
      /\ cc_task' = IF h.pair = -1 THEN CcIdle ELSE [cc_task EXCEPT !.does = "pair"]
      /\ Touch(h.device, {h.id}) /\ UNCHANGED <<cc_present, cc_held>>
  BY <1>2 DEF CcRecord
<1>5. \A i \in CcId : cc_list[h.device][i].effect = SlotNull =>
        i >= h.id /\ (h.pair # -1 => i >= h.pair \/ i = h.id)
  BY <1>2 DEF AssignmentsInv, TaskInv
<1>6. /\ cc_list' \in [CcDevice -> [CcId -> Slot]] /\ HeldInv' /\ SlotsInv'
      /\ Shows(h, h.device, h.id)'
      /\ \A g \in cc_held, i \in CcId : Shows(g, g.device, i) => Shows(g, g.device, i)'
      /\ \A i \in CcId : cc_list'[h.device][i].effect = SlotNull =>
           i # h.id /\ cc_list[h.device][i].effect = SlotNull
  BY <1>1, <1>3, <1>4, <1>5, RecordedSlot
<1>7. /\ cc_task' \in {CcIdle} \union Recording /\ cc_task'.does # "reset"
      /\ h.pair = -1 => cc_task'.does = "nothing"
      /\ h.pair # -1 => /\ cc_task'.does = "pair" /\ cc_task'.pair = h.pair
                        /\ cc_task'.device = h.device /\ Asked(h)'
  <2>1. cc_task \in Recording
    BY <1>2 DEF AssignmentsInv, CcTypeInv, CcIdle, Emptying, Naming
  <2>2. CASE h.pair = -1
    BY <1>4, <2>2 DEF CcIdle
  <2>3. CASE h.pair # -1
    <3>1. cc_task' = [cc_task EXCEPT !.does = "pair"]
      BY <1>4, <2>3
    <3>2. /\ cc_task' \in Recording /\ cc_task'.does = "pair" /\ cc_task'.pair = cc_task.pair
          /\ cc_task'.device = cc_task.device /\ cc_task'.id = cc_task.id
          /\ cc_task'.port = cc_task.port
      BY <2>1, <3>1 DEF Recording
    <3> QED
      BY <1>1, <1>2, <2>3, <3>2 DEF Asked
  <2> QED
    BY <2>2, <2>3
<1>8. TaskInv'
  <2>1. CASE h.pair = -1
    BY <1>7, <2>1 DEF TaskInv
  <2>2. CASE h.pair # -1
    <3>1. \A i \in CcId : cc_list'[h.device][i].effect = SlotNull => i >= h.id /\ i >= h.pair
      BY <1>5, <1>6, <2>2
    <3>2. cc_task'.id = h.id
      BY <1>7, <2>2 DEF Asked
    <3>3. \E g \in cc_held' : Asked(g)'
      BY <1>4, <1>7, <2>2
    <3> QED
      BY <1>7, <2>2, <3>1, <3>2, <3>3 DEF TaskInv
  <2> QED
    BY <2>1, <2>2
<1>9. ShownInv'
  <2>1. SUFFICES ASSUME NEW g \in cc_held, NEW i \in Ids(g)
                 PROVE  Shows(g, g.device, i)' \/ (Asked(g)' /\ cc_task'.does = "pair" /\ i = cc_task'.pair)
    BY <1>4 DEF ShownInv
  <2>2. i \in CcId
    BY HeldIs DEF AssignmentsInv
  <2>3. CASE Shows(g, g.device, i)
    BY <1>6, <2>2, <2>3
  <2>4. CASE ~Shows(g, g.device, i)
    <3>1. g = h
      BY <1>1, <1>2, <2>4 DEF AssignmentsInv, ShownInv, Asked, Unmapped
    <3>2. i = h.id \/ (i = h.pair /\ h.pair # -1)
      BY <3>1 DEF Ids
    <3> QED
      BY <1>6, <1>7, <3>1, <3>2
  <2> QED
    BY <2>3, <2>4
<1>10. /\ UpdateInv'
       /\ cc_update' \in {NoUpdate} \union Coming \union Looking \union Lost \union Applied
  <2>1. \A b \in CcDevice, i \in CcId :
          ~(b = h.device /\ i \in {h.id}) => cc_list'[b][i] = cc_list[b][i]
    BY <1>3, <1>4 DEF AssignmentsInv, CcTypeInv
  <2>2. CcTypeInv /\ UpdateInv
    BY DEF AssignmentsInv
  <2> QED
    BY <1>4, <1>7, <2>1, <2>2, UpdateTouched
<1>11. CcTypeInv'
  BY <1>4, <1>6, <1>7, <1>10 DEF AssignmentsInv, CcTypeInv
<1> QED
  BY <1>6, <1>8, <1>9, <1>10, <1>11 DEF AssignmentsInv

LEMMA RecordPairKeeps ==
  ASSUME AssignmentsInv, CcRecordPair
  PROVE  AssignmentsInv'
<1>1. PICK h \in cc_held : Asked(h)
  BY DEF AssignmentsInv, TaskInv, CcRecordPair
<1>2. /\ h.device = cc_task.device /\ h.id = cc_task.id /\ h.pair = cc_task.pair
      /\ h.port = cc_task.port /\ cc_task.does = "pair" /\ h.pair # -1
  BY <1>1 DEF Asked, CcRecordPair, AssignmentsInv, TaskInv
<1>3. /\ h.device \in CcDevice /\ h.pair \in CcId /\ h.pair \in Ids(h) /\ Other(h, h.pair) = h.id
      /\ Ids(h) \subseteq CcId
  BY <1>2, HeldIs DEF AssignmentsInv, Other
<1>4. /\ cc_list' = [cc_list EXCEPT ![h.device][h.pair] = Recorded(h.port, h.id)]
      /\ cc_task' = CcIdle /\ cc_task'.does = "nothing"
      /\ Touch(h.device, {h.pair}) /\ UNCHANGED <<cc_present, cc_held>>
  BY <1>2 DEF CcRecordPair, CcIdle
<1>5. \A i \in CcId : cc_list[h.device][i].effect = SlotNull => i >= h.pair
  BY <1>2 DEF AssignmentsInv, TaskInv
<1>6. /\ cc_list' \in [CcDevice -> [CcId -> Slot]] /\ HeldInv' /\ SlotsInv'
      /\ Shows(h, h.device, h.pair)'
      /\ \A g \in cc_held, i \in CcId : Shows(g, g.device, i) => Shows(g, g.device, i)'
  BY <1>1, <1>3, <1>4, <1>5, RecordedSlot
<1>7. TaskInv'
  BY <1>4 DEF TaskInv
<1>8. ShownInv'
  <2>1. SUFFICES ASSUME NEW g \in cc_held, NEW i \in Ids(g)
                 PROVE  Shows(g, g.device, i)'
    BY <1>4 DEF ShownInv
  <2>2. i \in CcId
    BY HeldIs DEF AssignmentsInv
  <2>3. CASE Shows(g, g.device, i)
    BY <1>6, <2>2, <2>3
  <2>4. CASE ~Shows(g, g.device, i)
    <3>1. Asked(g) /\ i = h.pair
      BY <1>2, <2>4 DEF AssignmentsInv, ShownInv, Unmapped
    <3>2. g = h
      BY <1>1, <3>1 DEF Asked
    <3> QED
      BY <1>6, <3>1, <3>2
  <2> QED
    BY <2>3, <2>4
<1>9. /\ UpdateInv'
      /\ cc_update' \in {NoUpdate} \union Coming \union Looking \union Lost \union Applied
  <2>1. \A b \in CcDevice, i \in CcId :
          ~(b = h.device /\ i \in {h.pair}) => cc_list'[b][i] = cc_list[b][i]
    BY <1>3, <1>4 DEF AssignmentsInv, CcTypeInv
  <2>2. CcTypeInv /\ UpdateInv
    BY DEF AssignmentsInv
  <2> QED
    BY <1>4, <2>1, <2>2, UpdateTouched
<1>10. CcTypeInv'
  BY <1>4, <1>6, <1>9 DEF AssignmentsInv, CcTypeInv
<1> QED
  BY <1>6, <1>7, <1>8, <1>9, <1>10 DEF AssignmentsInv

(* Clearing the next slot, by either of the two stores.                    *)
LEMMA ClearedSlot ==
  ASSUME AssignmentsInv, cc_task.does \in {"zero", "mark"},
         NEW x, x = NextSlot, NEW new \in {Zeroed, Vacant(SlotUnused)}, OnlyWrites(x[1], x[2], new)
  PROVE  /\ cc_list' \in [CcDevice -> [CcId -> Slot]] /\ cc_list'[x[1]][x[2]] = new
         /\ new.port = NoPort /\ new.effect # SlotNull
         /\ \A b \in CcDevice, i \in CcId : <<b, i>> # x => cc_list'[b][i] = cc_list[b][i]
         /\ \A b \in CcDevice, i \in CcId : cc_list'[b][i].effect = SlotNull =>
              \A j \in CcId : j > i => cc_list'[b][j].effect = SlotNull
         /\ \A g \in cc_held, b \in CcDevice, i \in CcId :
              Shows(g, b, i) => Shows(g, b, i)' \/ Unmapped(g)
         /\ \A b \in CcDevice, i \in CcId : <<b, i>> # x /\ cc_list'[b][i].port = NoPort =>
              cc_list'[b][i] \in {Vacant(SlotNull), Vacant(SlotUnused)}
<1>0. CcTypeInv /\ HeldInv /\ TaskInv /\ SlotsInv
  BY DEF AssignmentsInv
<1>1. /\ x \in cc_task.slots /\ x[1] \in CcDevice /\ x[2] \in CcId /\ x = <<x[1], x[2]>>
  BY <1>0, NextSlotIs
<1>2. new \in Slot /\ new.port = NoPort /\ new.effect # SlotNull
  BY DEF Slot, Zeroed, Vacant, SlotUnused, SlotNull
<1>3. /\ cc_list' \in [CcDevice -> [CcId -> Slot]] /\ cc_list'[x[1]][x[2]] = new
      /\ \A b \in CcDevice, i \in CcId : ~(b = x[1] /\ i = x[2]) => cc_list'[b][i] = cc_list[b][i]
  BY <1>0, <1>1, <1>2, OneSlotWritten
<1>4. \A b, i : b = x[1] /\ i = x[2] <=> <<b, i>> = x
  BY <1>1
<1>5. ASSUME NEW b \in CcDevice, NEW i \in CcId, <<b, i>> # x
      PROVE  cc_list'[b][i] = cc_list[b][i]
  <2>1. ~(b = x[1] /\ i = x[2])
    BY <1>4, <1>5, Zenon
  <2> QED
    BY <1>3, <2>1
<1>6. cc_list[x[1]][x[2]].effect # SlotNull
  BY <1>0, <1>1 DEF TaskInv
<1>7. ASSUME NEW b \in CcDevice, NEW i \in CcId, cc_list'[b][i].effect = SlotNull,
             NEW j \in CcId, j > i
      PROVE  cc_list'[b][j].effect = SlotNull
  <2>1. cc_list'[b][i] = cc_list[b][i]
    BY <1>2, <1>3, <1>7
  <2>2. cc_list[b][j].effect = SlotNull
    BY <1>0, <1>7, <2>1 DEF SlotsInv
  <2>3. ~(b = x[1] /\ j = x[2])
    BY <1>6, <2>2
  <2> QED
    BY <1>3, <2>2, <2>3
<1>8. ASSUME NEW g \in cc_held, NEW b \in CcDevice, NEW i \in CcId, Shows(g, b, i)
      PROVE  Shows(g, b, i)' \/ Unmapped(g)
  <2>1. CASE b = x[1] /\ i = x[2]
    <3>1. cc_list[b][i].port = g.port /\ g.port # NoPort /\ cc_list[b][i].effect = g.port[1]
      BY <1>0, <1>8, ShownIs, HeldIs, PortIs
    <3>2. CASE \E h \in cc_held : Unmapped(h)
      <4>1. PICK h \in cc_held : Unmapped(h)
        BY <3>2
      <4>2. h.device = b /\ i \in Ids(h)
        BY <1>1, <2>1, <4>1 DEF Unmapped
      <4>3. g = h
        BY <1>0, <1>8, <4>2, ShownOnce
      <4> QED
        BY <4>1, <4>3
    <3>3. CASE \E e \in CcEffect : Removed(e)
      BY <1>1, <2>1, <3>1, <3>3 DEF Removed
    <3> QED
      BY <1>0, <3>2, <3>3 DEF TaskInv
  <2>2. CASE ~(b = x[1] /\ i = x[2])
    BY <1>3, <1>8, <2>2 DEF Shows
  <2> QED
    BY <2>1, <2>2
<1>9. ASSUME NEW b \in CcDevice, NEW i \in CcId, <<b, i>> # x, cc_list'[b][i].port = NoPort
      PROVE  cc_list'[b][i] \in {Vacant(SlotNull), Vacant(SlotUnused)}
  <2>1. cc_list'[b][i] = cc_list[b][i] /\ <<b, i>> # NextSlot
    BY <1>9, <1>5
  <2> QED
    BY <1>0, <1>9, <2>1 DEF SlotsInv
<1> QED
  BY <1>2, <1>3, <1>7, <1>8, <1>9, <1>5

(* While a slot is being cleared, the ids of other assignments are shown.  *)
LEMMA ClearingShows ==
  ASSUME AssignmentsInv, cc_task.does \in {"zero", "mark"}, NEW g \in cc_held, NEW i \in Ids(g),
         ~Unmapped(g)
  PROVE  Shows(g, g.device, i) /\ g.device \in CcDevice /\ i \in CcId
  BY HeldIs DEF AssignmentsInv, ShownInv, Asked

LEMMA ClearingTask ==
  ASSUME AssignmentsInv, cc_task.does \in {"zero", "mark"}
  PROVE  cc_task \in Emptying
  BY DEF AssignmentsInv, CcTypeInv, CcIdle, Recording, Naming

LEMMA ZeroKeeps ==
  ASSUME AssignmentsInv, ZeroSlot
  PROVE  AssignmentsInv'
<1>1. PICK x : x = NextSlot
  OBVIOUS
<1>2. /\ cc_task.does = "zero" /\ OnlyWrites(x[1], x[2], Zeroed)
      /\ cc_task' = [cc_task EXCEPT !.does = "mark"]
      /\ Touch(x[1], {x[2]}) /\ UNCHANGED <<cc_present, cc_held>>
  BY <1>1 DEF ZeroSlot, OnlyWrites
<1>3. /\ cc_list' \in [CcDevice -> [CcId -> Slot]] /\ cc_list'[x[1]][x[2]] = Zeroed
      /\ Zeroed.port = NoPort /\ Zeroed.effect # SlotNull
      /\ \A b \in CcDevice, i \in CcId : <<b, i>> # x => cc_list'[b][i] = cc_list[b][i]
      /\ \A b \in CcDevice, i \in CcId : cc_list'[b][i].effect = SlotNull =>
           \A j \in CcId : j > i => cc_list'[b][j].effect = SlotNull
      /\ \A g \in cc_held, b \in CcDevice, i \in CcId :
           Shows(g, b, i) => Shows(g, b, i)' \/ Unmapped(g)
      /\ \A b \in CcDevice, i \in CcId : <<b, i>> # x /\ cc_list'[b][i].port = NoPort =>
           cc_list'[b][i] \in {Vacant(SlotNull), Vacant(SlotUnused)}
  BY <1>1, <1>2, ClearedSlot
<1>4. x \in cc_task.slots /\ x[1] \in CcDevice /\ x[2] \in CcId /\ x = <<x[1], x[2]>>
  BY <1>1, <1>2, NextSlotIs DEF AssignmentsInv
<1>5. /\ cc_task' \in Emptying /\ cc_task'.does = "mark" /\ cc_task'.slots = cc_task.slots
      /\ cc_task'.key = cc_task.key /\ cc_task'.gone = cc_task.gone
  <2>1. cc_task \in Emptying
    BY <1>2, ClearingTask
  <2> QED
    BY <1>2, <2>1 DEF Emptying
<1>6. NextSlot' = x
  BY <1>1, <1>5 DEF NextSlot
<1>7. cc_task.slots \subseteq SlotName
  BY <1>2, ClearingTask DEF Emptying
<1>8. \A y \in SlotName : y[1] \in CcDevice /\ y[2] \in CcId /\ y = <<y[1], y[2]>>
  BY DEF SlotName
<1>9. ASSUME NEW h, Unmapped(h) PROVE Unmapped(h)'
  <2>1. h \in cc_held /\ h.device \in CcDevice /\ Ids(h) \subseteq CcId
    BY <1>9, HeldIs DEF AssignmentsInv, Unmapped
  <2>2. \A i \in Ids(h) : <<h.device, i>> \in cc_task'.slots \/ cc_list'[h.device][i].port = NoPort
    BY <1>3, <1>4, <1>5, <1>9, <2>1 DEF Unmapped
  <2> QED
    BY <1>2, <1>5, <1>9, <2>2 DEF Unmapped
<1>10. ASSUME NEW e, Removed(e) PROVE Removed(e)'
  <2>1. \A y \in cc_task'.slots :
          cc_list'[y[1]][y[2]].port = NoPort \/ cc_list'[y[1]][y[2]].effect = e
    BY <1>3, <1>5, <1>7, <1>8, <1>10 DEF Removed
  <2>2. \A d \in CcDevice, i \in CcId :
          cc_list'[d][i].port # NoPort /\ cc_list'[d][i].effect = e => <<d, i>> \in cc_task'.slots
    BY <1>3, <1>4, <1>5, <1>10 DEF Removed
  <2> QED
    BY <1>2, <1>5, <1>10, <2>1, <2>2 DEF Removed
<1>11. TaskInv'
  <2>1. cc_task'.slots # {}
    BY <1>4, <1>5
  <2>2. \A y \in cc_task'.slots : cc_list'[y[1]][y[2]].effect # SlotNull
    BY <1>2, <1>3, <1>5, <1>7, <1>8 DEF AssignmentsInv, TaskInv
  <2>3. (\E h \in cc_held' : Unmapped(h)') \/ (\E e \in CcEffect : Removed(e)')
    BY <1>2, <1>9, <1>10 DEF AssignmentsInv, TaskInv
  <2>4. cc_list'[NextSlot'[1]][NextSlot'[2]].port = NoPort
    BY <1>3, <1>6
  <2> QED
    BY <1>5, <2>1, <2>2, <2>3, <2>4 DEF TaskInv
<1>12. SlotsInv'
  <2>1. ASSUME NEW b \in CcDevice, NEW i \in CcId, cc_list'[b][i].port # NoPort
        PROVE  (\E h \in cc_held' : Shows(h, b, i)')
               \/ (\E e \in CcEffect : Removed(e)' /\ cc_list'[b][i].effect = e)
    <3>1. <<b, i>> # x
      BY <1>3, <2>1
    <3>2. cc_list'[b][i] = cc_list[b][i]
      BY <1>3, <3>1
    <3>3. CASE \E h \in cc_held : Shows(h, b, i)
      BY <1>2, <3>2, <3>3 DEF Shows
    <3>4. CASE \E e \in CcEffect : Removed(e) /\ cc_list[b][i].effect = e
      BY <1>10, <3>2, <3>4
    <3> QED
      BY <2>1, <3>2, <3>3, <3>4 DEF AssignmentsInv, SlotsInv
  <2>2. ASSUME NEW b \in CcDevice, NEW i \in CcId, cc_list'[b][i].port = NoPort
        PROVE  \/ cc_list'[b][i] \in {Vacant(SlotNull), Vacant(SlotUnused)}
               \/ cc_list'[b][i] = Zeroed /\ cc_task'.does = "mark" /\ <<b, i>> = NextSlot'
    BY <1>3, <1>4, <1>5, <1>6, <2>2
  <2> QED
    BY <1>3, <2>1, <2>2 DEF SlotsInv
<1>13. ShownInv'
  <2>1. SUFFICES ASSUME NEW g \in cc_held, NEW i \in Ids(g)
                 PROVE  Shows(g, g.device, i)' \/ Unmapped(g)'
    BY <1>2 DEF ShownInv
  <2>2. CASE ~Unmapped(g)
    BY <1>2, <1>3, <2>2, ClearingShows
  <2> QED
    BY <1>9, <2>2
<1>14. UpdateInv' /\ cc_update' \in {NoUpdate} \union Coming \union Looking \union Lost \union Applied
  <2>1. \A b \in CcDevice, i \in CcId :
          ~(b = x[1] /\ i \in {x[2]}) => cc_list'[b][i] = cc_list[b][i]
    BY <1>3, <1>4
  <2>2. CcTypeInv /\ UpdateInv
    BY DEF AssignmentsInv
  <2> QED
    BY <1>2, <1>5, <2>1, <2>2, UpdateTouched
<1>15. CcTypeInv' /\ HeldInv'
  BY <1>2, <1>3, <1>5, <1>14 DEF AssignmentsInv, CcTypeInv, HeldInv
<1> QED
  BY <1>11, <1>12, <1>13, <1>14, <1>15 DEF AssignmentsInv

(* A slot that is marked was empty already: no update sees the difference. *)
LEMMA MarkedUpdate ==
  ASSUME AssignmentsInv, cc_task.does = "mark", cc_update' = cc_update, cc_task'.does # "reset",
         NEW x, x = NextSlot, OnlyWrites(x[1], x[2], Vacant(SlotUnused))
  PROVE  UpdateInv'
<1>1. /\ cc_list'[x[1]][x[2]].port = NoPort
      /\ \A b \in CcDevice, i \in CcId : <<b, i>> # x => cc_list'[b][i] = cc_list[b][i]
  BY ClearedSlot
<1>2. cc_list[x[1]][x[2]].port = NoPort /\ x = <<x[1], x[2]>>
  BY NextSlotIs DEF AssignmentsInv, TaskInv
<1>3. SUFFICES ASSUME cc_update.at \in {"sent", "port", "effect"}
               PROVE  UpdateInv'
  BY DEF AssignmentsInv, UpdateInv
<1>4. cc_update.device \in CcDevice /\ cc_update.id \in CcId /\ cc_update.meant # NoPort
  BY <1>3, UpdateShape, PortIs DEF AssignmentsInv
<1>5. CASE <<cc_update.device, cc_update.id>> = x
  <2>1. UpdateSlot.port = NoPort /\ UpdateSlot'.port = NoPort
    BY <1>1, <1>2, <1>5 DEF UpdateSlot
  <2> QED
    BY <1>3, <1>4, <2>1 DEF AssignmentsInv, UpdateInv
<1>6. CASE <<cc_update.device, cc_update.id>> # x
  <2>1. UpdateSlot' = UpdateSlot
    BY <1>1, <1>4, <1>6 DEF UpdateSlot
  <2> QED
    BY <1>3, <2>1 DEF AssignmentsInv, UpdateInv
<1> QED
  BY <1>5, <1>6

LEMMA MarkOneKeeps ==
  ASSUME AssignmentsInv, MarkSlot, cc_task.slots # {NextSlot}
  PROVE  AssignmentsInv'
<1>1. PICK x : x = NextSlot
  OBVIOUS
<1> DEFINE new == Vacant(SlotUnused)
<1>2. /\ cc_task.does = "mark" /\ OnlyWrites(x[1], x[2], new)
      /\ cc_task' = Clearing(cc_task.slots \ {x}, cc_task.key, cc_task.gone)
      /\ UNCHANGED <<cc_present, cc_held, cc_update>>
  BY <1>1 DEF MarkSlot, OnlyWrites
<1>3. /\ cc_list' \in [CcDevice -> [CcId -> Slot]] /\ cc_list'[x[1]][x[2]] = new
      /\ new.port = NoPort /\ new.effect # SlotNull
      /\ \A b \in CcDevice, i \in CcId : <<b, i>> # x => cc_list'[b][i] = cc_list[b][i]
      /\ \A b \in CcDevice, i \in CcId : cc_list'[b][i].effect = SlotNull =>
           \A j \in CcId : j > i => cc_list'[b][j].effect = SlotNull
      /\ \A g \in cc_held, b \in CcDevice, i \in CcId :
           Shows(g, b, i) => Shows(g, b, i)' \/ Unmapped(g)
      /\ \A b \in CcDevice, i \in CcId : <<b, i>> # x /\ cc_list'[b][i].port = NoPort =>
           cc_list'[b][i] \in {Vacant(SlotNull), Vacant(SlotUnused)}
  BY <1>1, <1>2, ClearedSlot
<1> HIDE DEF new
<1>4. x \in cc_task.slots /\ x[1] \in CcDevice /\ x[2] \in CcId /\ x = <<x[1], x[2]>>
  BY <1>1, <1>2, NextSlotIs DEF AssignmentsInv
<1>5. /\ cc_task' \in Emptying /\ cc_task'.does = "zero" /\ cc_task'.slots = cc_task.slots \ {x}
      /\ cc_task'.key = cc_task.key /\ cc_task'.gone = cc_task.gone
  <2>1. cc_task \in Emptying
    BY <1>2, ClearingTask
  <2> QED
    BY <1>2, <2>1 DEF Emptying, Clearing
<1>6. cc_task.slots \subseteq SlotName
  BY <1>2, ClearingTask DEF Emptying
<1>7. \A y \in SlotName : y[1] \in CcDevice /\ y[2] \in CcId /\ y = <<y[1], y[2]>>
  BY DEF SlotName
<1>8. ASSUME NEW h, Unmapped(h) PROVE Unmapped(h)'
  <2>1. h \in cc_held /\ h.device \in CcDevice /\ Ids(h) \subseteq CcId
    BY <1>8, HeldIs DEF AssignmentsInv, Unmapped
  <2>2. ASSUME NEW i \in Ids(h)
        PROVE  <<h.device, i>> \in cc_task'.slots \/ cc_list'[h.device][i].port = NoPort
    <3>1. CASE <<h.device, i>> = x
      <4>1. h.device = x[1] /\ i = x[2]
        BY <3>1
      <4> QED
        BY <1>3, <4>1
    <3>2. CASE <<h.device, i>> # x
      BY <1>3, <1>5, <1>8, <2>1, <3>2 DEF Unmapped
    <3> QED
      BY <3>1, <3>2
  <2> QED
    BY <1>2, <1>5, <1>8, <2>2 DEF Unmapped
<1>9. ASSUME NEW e, Removed(e) PROVE Removed(e)'
  <2>1. \A y \in cc_task'.slots :
          cc_list'[y[1]][y[2]].port = NoPort \/ cc_list'[y[1]][y[2]].effect = e
    BY <1>3, <1>5, <1>6, <1>7, <1>9 DEF Removed
  <2>2. \A d \in CcDevice, i \in CcId :
          cc_list'[d][i].port # NoPort /\ cc_list'[d][i].effect = e => <<d, i>> \in cc_task'.slots
    <3>1. SUFFICES ASSUME NEW d \in CcDevice, NEW i \in CcId,
                          cc_list'[d][i].port # NoPort, cc_list'[d][i].effect = e
                   PROVE  <<d, i>> \in cc_task'.slots
      OBVIOUS
    <3>2. <<d, i>> # x
      BY <1>3, <3>1
    <3> QED
      BY <1>3, <1>5, <1>9, <3>1, <3>2 DEF Removed
  <2> QED
    BY <1>2, <1>5, <1>9, <2>1, <2>2 DEF Removed
<1>10. TaskInv'
  <2>1. cc_task'.slots # {}
    BY <1>1, <1>4, <1>5
  <2>2. \A y \in cc_task'.slots : cc_list'[y[1]][y[2]].effect # SlotNull
    <3>1. \A y \in cc_task.slots : cc_list[y[1]][y[2]].effect # SlotNull
      BY <1>2 DEF AssignmentsInv, TaskInv
    <3>2. ASSUME NEW y \in cc_task.slots, y # x
          PROVE  cc_list'[y[1]][y[2]] = cc_list[y[1]][y[2]]
      <4>1. y[1] \in CcDevice /\ y[2] \in CcId /\ <<y[1], y[2]>> # x
        BY <1>6, <1>7, <3>2, Zenon
      <4> QED
        BY <1>3, <4>1
    <3> QED
      BY <1>5, <3>1, <3>2
  <2>3. (\E h \in cc_held' : Unmapped(h)') \/ (\E e \in CcEffect : Removed(e)')
    BY <1>2, <1>8, <1>9 DEF AssignmentsInv, TaskInv
  <2> QED
    BY <1>5, <2>1, <2>2, <2>3 DEF TaskInv
<1>11. SlotsInv'
  <2>1. ASSUME NEW b \in CcDevice, NEW i \in CcId, cc_list'[b][i].port # NoPort
        PROVE  (\E h \in cc_held' : Shows(h, b, i)')
               \/ (\E e \in CcEffect : Removed(e)' /\ cc_list'[b][i].effect = e)
    <3>1. <<b, i>> # x
      BY <1>3, <2>1
    <3>2. cc_list'[b][i] = cc_list[b][i]
      BY <1>3, <3>1
    <3>3. CASE \E h \in cc_held : Shows(h, b, i)
      BY <1>2, <3>2, <3>3 DEF Shows
    <3>4. CASE \E e \in CcEffect : Removed(e) /\ cc_list[b][i].effect = e
      BY <1>9, <3>2, <3>4
    <3> QED
      BY <2>1, <3>2, <3>3, <3>4 DEF AssignmentsInv, SlotsInv
  <2>2. ASSUME NEW b \in CcDevice, NEW i \in CcId, cc_list'[b][i].port = NoPort
        PROVE  cc_list'[b][i] \in {Vacant(SlotNull), Vacant(SlotUnused)}
    BY <1>3, <2>2 DEF new
  <2> QED
    BY <1>3, <2>1, <2>2 DEF SlotsInv
<1>12. ShownInv'
  <2>1. SUFFICES ASSUME NEW g \in cc_held, NEW i \in Ids(g)
                 PROVE  Shows(g, g.device, i)' \/ Unmapped(g)'
    BY <1>2 DEF ShownInv
  <2>2. CASE ~Unmapped(g)
    BY <1>2, <1>3, <2>2, ClearingShows
  <2> QED
    BY <1>8, <2>2
<1>13. UpdateInv'
  BY <1>1, <1>2, <1>5, MarkedUpdate DEF new
<1>14. CcTypeInv' /\ HeldInv'
  BY <1>2, <1>3, <1>5 DEF AssignmentsInv, CcTypeInv, HeldInv
<1> QED
  BY <1>10, <1>11, <1>12, <1>13, <1>14 DEF AssignmentsInv

(* The last slot: what the library still had is released, or the effect is *)
(* freed.                                                                  *)
LEMMA MarkLastKeeps ==
  ASSUME AssignmentsInv, MarkSlot, cc_task.slots = {NextSlot}
  PROVE  AssignmentsInv'
<1>1. PICK x : x = NextSlot
  OBVIOUS
<1> DEFINE new == Vacant(SlotUnused)
<1>2. /\ cc_task.does = "mark" /\ OnlyWrites(x[1], x[2], new) /\ cc_task' = CcIdle
      /\ cc_task'.does = "nothing" /\ cc_update' = cc_update
      /\ cc_held' = cc_held \ Released(x[1], cc_task.key)
      /\ cc_present' = cc_present \ cc_task.gone /\ cc_task.slots = {x}
  BY <1>1 DEF MarkSlot, OnlyWrites, CcIdle
<1>3. /\ cc_list' \in [CcDevice -> [CcId -> Slot]] /\ cc_list'[x[1]][x[2]] = new
      /\ new.port = NoPort /\ new.effect # SlotNull
      /\ \A b \in CcDevice, i \in CcId : <<b, i>> # x => cc_list'[b][i] = cc_list[b][i]
      /\ \A b \in CcDevice, i \in CcId : cc_list'[b][i].effect = SlotNull =>
           \A j \in CcId : j > i => cc_list'[b][j].effect = SlotNull
      /\ \A g \in cc_held, b \in CcDevice, i \in CcId :
           Shows(g, b, i) => Shows(g, b, i)' \/ Unmapped(g)
      /\ \A b \in CcDevice, i \in CcId : <<b, i>> # x /\ cc_list'[b][i].port = NoPort =>
           cc_list'[b][i] \in {Vacant(SlotNull), Vacant(SlotUnused)}
  BY <1>1, <1>2, ClearedSlot
<1> HIDE DEF new
<1>4. x[1] \in CcDevice /\ x[2] \in CcId /\ x = <<x[1], x[2]>>
  BY <1>1, <1>2, NextSlotIs DEF AssignmentsInv
<1>5. HeldInv /\ CcTypeInv
  BY DEF AssignmentsInv
<1>6. /\ \A h \in cc_held : h \in cc_held' <=> ~Unmapped(h)
      /\ \A h \in cc_held' : h.port[1] \in cc_present'
      /\ \A b \in CcDevice, i \in CcId : cc_list'[b][i].port # NoPort =>
           \E h \in cc_held' : Shows(h, b, i)'
  <2>1. CASE \E h \in cc_held : Unmapped(h)
    <3>1. PICK h \in cc_held : Unmapped(h)
      BY <2>1
    <3>2. /\ x[1] = h.device /\ x[2] \in Ids(h) /\ cc_task.key = {h.id, h.pair}
          /\ cc_task.gone = {} /\ h.id \in Ids(h)
          /\ \A i \in Ids(h) : <<h.device, i>> = x \/ cc_list[h.device][i].port = NoPort
      BY <1>2, <1>5, <3>1, HeldIs DEF Unmapped
    <3>3. \A g \in cc_held : g \in Released(x[1], cc_task.key) <=> g = h
      <4>1. \A g \in cc_held : g \in Released(x[1], cc_task.key) <=>
              g.device = h.device /\ Ids(g) \cap Ids(h) # {}
        BY <3>2 DEF Released, Ids
      <4> QED
        BY <1>5, <3>2, <4>1 DEF HeldInv
    <3>4. \A g \in cc_held : Unmapped(g) => g = h
      <4>1. \A g \in cc_held : Unmapped(g) => x[1] = g.device /\ x[2] \in Ids(g)
        BY <1>2 DEF Unmapped
      <4> QED
        BY <1>5, <3>2, <4>1 DEF HeldInv
    <3>5. \A g \in cc_held : g \in cc_held' <=> ~Unmapped(g)
      BY <1>2, <3>1, <3>3, <3>4
    <3>6. \A g \in cc_held' : g.port[1] \in cc_present'
      BY <1>2, <1>5, <3>2 DEF HeldInv
    <3>7. ASSUME NEW b \in CcDevice, NEW i \in CcId, cc_list'[b][i].port # NoPort
          PROVE  \E g \in cc_held' : Shows(g, b, i)'
      <4>1. <<b, i>> # x
        BY <1>3, <3>7
      <4>2. cc_list'[b][i] = cc_list[b][i]
        BY <1>3, <4>1
      <4>3. \A e : ~Removed(e)
        BY <3>2 DEF Removed
      <4>4. PICK g \in cc_held : Shows(g, b, i)
        BY <3>7, <4>2, <4>3 DEF AssignmentsInv, SlotsInv
      <4>5. g # h
        BY <3>2, <3>7, <4>1, <4>2, <4>4 DEF Shows
      <4>6. g \in cc_held'
        BY <1>2, <3>3, <4>5
      <4> QED
        BY <4>2, <4>4, <4>6 DEF Shows
    <3> QED
      BY <3>5, <3>6, <3>7
  <2>2. CASE \E e \in CcEffect : Removed(e)
    <3>1. PICK e \in CcEffect : Removed(e)
      BY <2>2
    <3>2. /\ cc_task.gone = {e} /\ cc_task.key = {} /\ \A h \in cc_held : h.port[1] # e
          /\ \A d \in CcDevice, i \in CcId :
               cc_list[d][i].port # NoPort /\ cc_list[d][i].effect = e => <<d, i>> = x
      BY <1>2, <3>1 DEF Removed
    <3>3. cc_held' = cc_held
      BY <1>2, <3>2 DEF Released
    <3>4. \A h : ~Unmapped(h)
      BY <3>2 DEF Unmapped
    <3>5. \A g \in cc_held' : g.port[1] \in cc_present'
      BY <1>2, <1>5, <3>2, <3>3 DEF HeldInv
    <3>6. ASSUME NEW b \in CcDevice, NEW i \in CcId, cc_list'[b][i].port # NoPort
          PROVE  \E g \in cc_held' : Shows(g, b, i)'
      <4>1. <<b, i>> # x
        BY <1>3, <3>6
      <4>2. cc_list'[b][i] = cc_list[b][i]
        BY <1>3, <4>1
      <4>3. cc_list[b][i].effect # e
        BY <3>2, <3>6, <4>1, <4>2
      <4>4. \A c : Removed(c) => c = e
        BY <3>2 DEF Removed
      <4>5. PICK g \in cc_held : Shows(g, b, i)
        BY <3>6, <4>2, <4>3, <4>4 DEF AssignmentsInv, SlotsInv
      <4> QED
        BY <3>3, <4>2, <4>5 DEF Shows
    <3> QED
      BY <3>3, <3>4, <3>5, <3>6
  <2> QED
    BY <1>2, <2>1, <2>2 DEF AssignmentsInv, TaskInv
<1>7. cc_held' \subseteq cc_held /\ cc_present' \subseteq cc_present
  BY <1>2
<1>8. CcTypeInv' /\ HeldInv'
  <2>1. CcTypeInv'
    BY <1>2, <1>3, <1>5, <1>7 DEF CcTypeInv
  <2>2. HeldInv'
    BY <1>5, <1>6, <1>7 DEF HeldInv
  <2> QED
    BY <2>1, <2>2
<1>9. TaskInv'
  BY <1>2 DEF TaskInv
<1>10. SlotsInv'
  <2>1. \A b \in CcDevice, i \in CcId : cc_list'[b][i].port = NoPort =>
          cc_list'[b][i] \in {Vacant(SlotNull), Vacant(SlotUnused)}
    BY <1>3 DEF new
  <2> QED
    BY <1>3, <1>6, <2>1 DEF SlotsInv
<1>11. ShownInv'
  <2>1. SUFFICES ASSUME NEW g \in cc_held', NEW i \in Ids(g)
                 PROVE  Shows(g, g.device, i)'
    BY DEF ShownInv
  <2>2. g \in cc_held /\ ~Unmapped(g)
    BY <1>6, <1>7
  <2> QED
    BY <1>2, <1>3, <2>2, ClearingShows
<1>12. UpdateInv'
  BY <1>1, <1>2, MarkedUpdate DEF new
<1> QED
  BY <1>8, <1>9, <1>10, <1>11, <1>12 DEF AssignmentsInv

(* What cc_unmap is about to clear is one assignment of the library.       *)
LEMMA UnmapKeeps ==
  ASSUME AssignmentsInv, NEW e \in CcEffect, NEW s \in CcSymbol, CcUnmap(e, s)
  PROVE  AssignmentsInv'
<1> DEFINE Half(x) == cc_list[x[1]][x[2]].pair
           Both(x) == IF Half(x) = -1 THEN {x} ELSE {x, <<x[1], Half(x)>>}
<1>0. PICK x \in FirstSlot(e, s) :
        /\ cc_task = CcIdle /\ cc_task' = Clearing(Both(x), {x[2], Half(x)}, {})
        /\ UNCHANGED <<cc_present, cc_list, cc_held, cc_update>>
  BY Zenon DEF CcUnmap
<1>1. PICK pair :
        /\ pair = cc_list[x[1]][x[2]].pair
        /\ cc_task' = Clearing(IF pair = -1 THEN {x} ELSE {x, <<x[1], pair>>}, {x[2], pair}, {})
        /\ UNCHANGED <<cc_present, cc_list, cc_held, cc_update>> /\ cc_task.does = "nothing"
  BY <1>0 DEF CcIdle
<1>2. /\ x[1] \in CcDevice /\ x[2] \in CcId /\ x = <<x[1], x[2]>>
      /\ cc_list[x[1]][x[2]].port # NoPort
  BY FirstSlotIs
<1>3. PICK h \in cc_held : Shows(h, x[1], x[2])
  BY <1>1, <1>2, ListAtRest
<1>4. /\ h.device = x[1] /\ x[2] \in Ids(h) /\ pair = Other(h, x[2]) /\ Ids(h) \subseteq CcId
      /\ h.id \in Ids(h) /\ -1 \notin CcId /\ h.pair \in CcId \union {-1} /\ h.id \in CcId
  BY <1>1, <1>3, ShownIs, HeldIs DEF AssignmentsInv
<1>5. /\ {x[2], pair} = {h.id, h.pair} /\ pair \in CcId \union {-1}
      /\ pair = -1 => Ids(h) = {x[2]}
      /\ pair # -1 => Ids(h) = {x[2], pair}
  BY <1>4 DEF Ids, Other
<1> DEFINE S == IF pair = -1 THEN {x} ELSE {x, <<x[1], pair>>}
<1>6. \A y : y \in S <=> \E i \in Ids(h) : y = <<h.device, i>>
  <2>1. CASE pair = -1
    BY <1>2, <1>4, <1>5, <2>1
  <2>2. CASE pair # -1
    BY <1>2, <1>4, <1>5, <2>2
  <2> QED
    BY <2>1, <2>2
<1>7. S \subseteq SlotName /\ S # {}
  BY <1>2, <1>4, <1>6 DEF SlotName
<1> HIDE DEF S
<1>8. /\ cc_task' \in Emptying /\ cc_task'.does = "zero" /\ cc_task'.slots = S
      /\ cc_task'.key = {h.id, h.pair} /\ cc_task'.gone = {}
  <2>1. cc_task' = Clearing(S, {x[2], pair}, {})
    BY <1>1 DEF S
  <2>2. {x[2], pair} \in SUBSET (CcId \union {-1})
    BY <1>2, <1>5
  <2> QED
    BY <1>5, <1>7, <2>1, <2>2 DEF Clearing, Emptying
<1>9. Unmapped(h)'
  <2>1. h \in cc_held' /\ \A y \in S : y[1] = h.device /\ y[2] \in Ids(h)
    BY <1>1, <1>6
  <2>2. \A i \in Ids(h) : <<h.device, i>> \in S
    BY <1>6
  <2> QED
    BY <1>8, <2>1, <2>2 DEF Unmapped
<1>10. TaskInv'
  <2>1. \A y \in S : cc_list'[y[1]][y[2]].effect # SlotNull
    <3>1. SUFFICES ASSUME NEW i \in Ids(h)
                   PROVE  cc_list[h.device][i].effect # SlotNull
      BY <1>1, <1>6
    <3>2. Shows(h, h.device, i)
      BY <1>1, NothingUnderWay DEF AssignmentsInv, ShownInv
    <3>3. cc_list[h.device][i].effect \in Nat
      BY <3>2, ShownIs, HeldIs, PortIs DEF AssignmentsInv
    <3> QED
      BY <3>3 DEF SlotNull
  <2>2. \E g \in cc_held' : Unmapped(g)'
    BY <1>1, <1>9
  <2> QED
    BY <1>7, <1>8, <2>1, <2>2 DEF TaskInv
<1>11. \A g, d, i : Shows(g, d, i)' <=> Shows(g, d, i)
  BY <1>1 DEF Shows
<1>12. SlotsInv' /\ ShownInv'
  BY <1>1, <1>11, NothingUnderWay DEF AssignmentsInv, SlotsInv, ShownInv
<1>13. UpdateInv'
  BY <1>1, <1>8, UpdateUntouched DEF AssignmentsInv
<1>14. CcTypeInv' /\ HeldInv'
  BY <1>1, <1>8 DEF AssignmentsInv, CcTypeInv, HeldInv
<1> QED
  BY <1>10, <1>12, <1>13, <1>14 DEF AssignmentsInv

(* Unassigning every slot of an effect takes its assignments and no other. *)
LEMMA UnassignKeeps ==
  ASSUME AssignmentsInv, NEW e \in CcEffect, CcRemove(e)
  PROVE  AssignmentsInv'
<1>1. PICK S :
        S = UNION {{<<d, i>> : i \in {j \in Visible(d) : cc_list[d][j].effect = e}} : d \in CcDevice}
  OBVIOUS
<1>2. /\ cc_task.does = "nothing" /\ e \in cc_present
      /\ cc_present' = IF S = {} THEN cc_present \ {e} ELSE cc_present
      /\ cc_held' = cc_held \ UNION {Released(x[1], {x[2], cc_list[x[1]][x[2]].pair}) : x \in S}
      /\ cc_task' = IF S = {} THEN CcIdle ELSE Clearing(S, {}, {e})
      /\ UNCHANGED <<cc_list, cc_update>>
  BY <1>1 DEF CcRemove, CcIdle
<1>3. HeldInv /\ CcTypeInv /\ e \in Nat
  BY AssignmentsAssumption DEF AssignmentsInv
<1>4. \A x \in S : /\ x[1] \in CcDevice /\ x[2] \in CcId /\ x = <<x[1], x[2]>>
                   /\ cc_list[x[1]][x[2]].effect = e
  BY <1>1 DEF Visible
<1>5. \A d \in CcDevice, i \in CcId : cc_list[d][i].effect = e => <<d, i>> \in S
  <2>1. SUFFICES ASSUME NEW d \in CcDevice, NEW i \in CcId, cc_list[d][i].effect = e
                 PROVE  i \in Visible(d)
    BY <1>1
  <2>2. cc_list[d][i].effect # SlotNull
    BY <1>3, <2>1 DEF SlotNull
  <2> QED
    BY <1>2, <2>2, ListAtRest
<1>6. \A g \in cc_held : \A i \in Ids(g) : Shows(g, g.device, i)
  BY <1>2, NothingUnderWay DEF AssignmentsInv, ShownInv
<1>7. cc_held' = {h \in cc_held : h.port[1] # e}
  <2>1. ASSUME NEW g \in cc_held, g.port[1] = e
        PROVE  \E x \in S : g \in Released(x[1], {x[2], cc_list[x[1]][x[2]].pair})
    <3>1. g.id \in Ids(g) /\ g.device \in CcDevice /\ g.id \in CcId /\ -1 \notin CcId
      BY <1>3, HeldIs
    <3>2. cc_list[g.device][g.id].effect = e
      BY <1>3, <1>6, <2>1, <3>1, ShownIs
    <3>3. <<g.device, g.id>> \in S
      BY <1>5, <3>1, <3>2
    <3>4. g \in Released(g.device, {g.id, cc_list[g.device][g.id].pair})
      BY <3>1 DEF Released
    <3> QED
      BY <3>3, <3>4
  <2>2. ASSUME NEW g \in cc_held, NEW x \in S,
               g \in Released(x[1], {x[2], cc_list[x[1]][x[2]].pair})
        PROVE  g.port[1] = e
    <3>1. /\ x[1] \in CcDevice /\ x[2] \in CcId /\ cc_list[x[1]][x[2]].effect = e
      BY <1>4
    <3>2. cc_list[x[1]][x[2]].port # NoPort
      BY <1>2, <1>3, <3>1, ListAtRest
    <3>3. PICK h \in cc_held : Shows(h, x[1], x[2])
      BY <1>2, <3>1, <3>2, ListAtRest
    <3>4. /\ h.device = x[1] /\ x[2] \in Ids(h) /\ cc_list[x[1]][x[2]].pair = Other(h, x[2])
          /\ h.port[1] = e
      BY <1>3, <3>1, <3>3, ShownIs
    <3>5. {x[2], Other(h, x[2])} \ {-1} \subseteq Ids(h)
      BY <3>4 DEF Ids, Other
    <3>6. g.device = h.device /\ Ids(g) \cap Ids(h) # {}
      BY <2>2, <3>4, <3>5 DEF Released, Ids
    <3> QED
      BY <1>3, <3>4, <3>6 DEF HeldInv
  <2> QED
    BY <1>2, <2>1, <2>2
<1>8. S \subseteq SlotName
  BY <1>4 DEF SlotName
<1>9. HeldInv'
  BY <1>2, <1>3, <1>7 DEF HeldInv
<1>10. \A g, d, i : Shows(g, d, i)' <=> Shows(g, d, i)
  BY <1>2 DEF Shows
<1>11. \A d \in CcDevice, i \in CcId : cc_list[d][i].port # NoPort =>
         cc_list[d][i].effect = e \/ \E h \in cc_held' : Shows(h, d, i)'
  <2>1. SUFFICES ASSUME NEW d \in CcDevice, NEW i \in CcId, cc_list[d][i].port # NoPort,
                        cc_list[d][i].effect # e
                 PROVE  \E h \in cc_held' : Shows(h, d, i)'
    OBVIOUS
  <2>2. PICK h \in cc_held : Shows(h, d, i)
    BY <1>2, <2>1, ListAtRest
  <2>3. h.port[1] # e
    BY <1>3, <2>1, <2>2, ShownIs
  <2> QED
    BY <1>7, <1>10, <2>2, <2>3
<1>12. ShownInv'
  BY <1>6, <1>7, <1>10 DEF ShownInv
<1>13. \A d \in CcDevice, i \in CcId :
         /\ cc_list[d][i].effect = SlotNull => \A j \in CcId : j > i => cc_list[d][j].effect = SlotNull
         /\ cc_list[d][i].port = NoPort => cc_list[d][i] \in {Vacant(SlotNull), Vacant(SlotUnused)}
  BY <1>2 DEF AssignmentsInv, SlotsInv
<1>14. CASE S = {}
  <2>1. cc_task' = CcIdle /\ cc_task'.does = "nothing" /\ cc_present' = cc_present \ {e}
    BY <1>2, <1>14 DEF CcIdle
  <2>2. CcTypeInv'
    BY <1>2, <1>3, <1>7, <2>1 DEF CcTypeInv
  <2>3. TaskInv'
    BY <2>1 DEF TaskInv
  <2>4. \A d \in CcDevice, i \in CcId : cc_list[d][i].effect # e
    BY <1>5, <1>14
  <2>5. SlotsInv'
    BY <1>2, <1>11, <1>13, <2>4 DEF SlotsInv
  <2>6. UpdateInv'
    BY <1>2, <2>1, UpdateUntouched DEF AssignmentsInv
  <2> QED
    BY <1>9, <1>12, <2>2, <2>3, <2>5, <2>6 DEF AssignmentsInv
<1>15. CASE S # {}
  <2>1. /\ cc_task' \in Emptying /\ cc_task'.does = "zero" /\ cc_task'.slots = S
        /\ cc_task'.key = {} /\ cc_task'.gone = {e} /\ cc_present' = cc_present
    BY <1>2, <1>8, <1>15 DEF Clearing, Emptying
  <2>2. CcTypeInv'
    BY <1>2, <1>3, <1>7, <2>1 DEF CcTypeInv
  <2>3. Removed(e)'
    BY <1>2, <1>4, <1>5, <1>7, <2>1 DEF Removed
  <2>4. TaskInv'
    <3>1. \A y \in S : cc_list'[y[1]][y[2]].effect # SlotNull
      BY <1>2, <1>3, <1>4 DEF SlotNull
    <3> QED
      BY <1>15, <2>1, <2>3, <3>1 DEF TaskInv
  <2>5. SlotsInv'
    BY <1>2, <1>11, <1>13, <2>3 DEF SlotsInv
  <2>6. UpdateInv'
    BY <1>2, <2>1, UpdateUntouched DEF AssignmentsInv
  <2> QED
    BY <1>9, <1>12, <2>2, <2>4, <2>5, <2>6 DEF AssignmentsInv
<1> QED
  BY <1>14, <1>15

(* Nothing that the library has escapes the removal of everything.         *)
LEMMA UnassignAllKeeps ==
  ASSUME AssignmentsInv, CcRemoveAll
  PROVE  AssignmentsInv'
<1>1. /\ cc_task.does = "nothing" /\ cc_task' = [does |-> "reset"] /\ cc_present' = cc_present
      /\ cc_held' = cc_held \ UNION {Released(d, UNION {{i, cc_list[d][i].pair} :
                                       i \in {j \in Visible(d) : cc_list[d][j].effect # SlotUnused}}) :
                                     d \in CcDevice}
      /\ cc_list' = [d \in CcDevice |-> [i \in CcId |-> Zeroed]]
      /\ cc_update' = IF "spoiled" \in DOMAIN cc_update THEN [cc_update EXCEPT !.spoiled = TRUE]
                      ELSE cc_update
  BY DEF CcRemoveAll, CcIdle
<1>2. HeldInv /\ CcTypeInv
  BY DEF AssignmentsInv
<1>3. cc_held' = {}
  <2>1. ASSUME NEW g \in cc_held
        PROVE  \E d \in CcDevice :
                 g \in Released(d, UNION {{i, cc_list[d][i].pair} :
                                  i \in {j \in Visible(d) : cc_list[d][j].effect # SlotUnused}})
    <3>1. g.id \in Ids(g) /\ g.device \in CcDevice /\ g.id \in CcId /\ -1 \notin CcId
      BY <1>2, HeldIs
    <3>2. Shows(g, g.device, g.id)
      BY <1>1, <3>1, NothingUnderWay DEF AssignmentsInv, ShownInv
    <3>3. cc_list[g.device][g.id].effect \in Nat
      BY <1>2, <3>2, ShownIs, HeldIs, PortIs
    <3>4. g.id \in Visible(g.device) /\ cc_list[g.device][g.id].effect # SlotUnused
      BY <1>1, <3>1, <3>3, ListAtRest DEF SlotNull, SlotUnused
    <3>5. g.id \in UNION {{i, cc_list[g.device][i].pair} :
                          i \in {j \in Visible(g.device) : cc_list[g.device][j].effect # SlotUnused}}
      BY <3>4
    <3> QED
      BY <3>1, <3>5 DEF Released
  <2> DEFINE Taken(d) == Released(d, UNION {{i, cc_list[d][i].pair} :
                                   i \in {j \in Visible(d) : cc_list[d][j].effect # SlotUnused}})
  <2>2. cc_held' = cc_held \ UNION {Taken(d) : d \in CcDevice}
    BY <1>1
  <2>3. \A g \in cc_held : \E d \in CcDevice : g \in Taken(d)
    BY <2>1
  <2> HIDE DEF Taken
  <2> QED
    BY <2>2, <2>3
<1>4. Zeroed \in Slot /\ Zeroed.port = NoPort /\ Zeroed.effect # SlotNull
  BY DEF Zeroed, Slot, SlotNull
<1>5. \A d \in CcDevice, i \in CcId : cc_list'[d][i] = Zeroed
  BY <1>1
<1>6. /\ cc_update' \in {NoUpdate} \union Coming \union Looking \union Lost \union Applied
      /\ cc_update'.at = "idle" \/ cc_update'.spoiled
  <2>1. CASE cc_update = NoUpdate
    <3>1. "spoiled" \notin DOMAIN cc_update
      BY <2>1 DEF NoUpdate
    <3> QED
      BY <1>1, <2>1, <3>1 DEF NoUpdate
  <2>2. CASE cc_update \in Coming \union Looking \union Lost \union Applied
    <3>1. "spoiled" \in DOMAIN cc_update
      BY <2>2 DEF Coming, Looking, Lost, Applied
    <3>2. cc_update' = [cc_update EXCEPT !.spoiled = TRUE]
      BY <1>1, <3>1
    <3> QED
      BY <2>2, <3>2 DEF Coming, Looking, Lost, Applied
  <2> QED
    BY <1>2, <2>1, <2>2 DEF CcTypeInv
<1>7. CcTypeInv'
  BY <1>1, <1>2, <1>3, <1>4, <1>6 DEF CcTypeInv
<1>8. HeldInv' /\ TaskInv' /\ ShownInv'
  BY <1>1, <1>3 DEF HeldInv, TaskInv, ShownInv
<1>9. SlotsInv'
  BY <1>1, <1>4, <1>5 DEF SlotsInv
<1>10. UpdateInv'
  BY <1>6 DEF UpdateInv
<1> QED
  BY <1>7, <1>8, <1>9, <1>10 DEF AssignmentsInv

LEMMA ResetKeeps ==
  ASSUME AssignmentsInv, CcReset
  PROVE  AssignmentsInv'
<1>1. /\ cc_task.does = "reset" /\ cc_task' = CcIdle /\ cc_task'.does = "nothing"
      /\ cc_list' = [d \in CcDevice |-> [i \in CcId |-> Vacant(SlotNull)]]
      /\ cc_present' = {} /\ UNCHANGED <<cc_held, cc_update>>
  BY DEF CcReset, CcIdle
<1>2. cc_held = {}
  BY <1>1 DEF AssignmentsInv, TaskInv
<1>3. Vacant(SlotNull) \in Slot /\ Vacant(SlotNull).port = NoPort /\ Vacant(SlotNull).effect = SlotNull
  BY DEF Vacant, Slot
<1>4. \A d \in CcDevice, i \in CcId : cc_list'[d][i] = Vacant(SlotNull)
  BY <1>1
<1>5. CcTypeInv'
  BY <1>1, <1>3 DEF AssignmentsInv, CcTypeInv
<1>6. HeldInv' /\ TaskInv' /\ ShownInv'
  BY <1>1, <1>2 DEF HeldInv, TaskInv, ShownInv
<1>7. SlotsInv'
  BY <1>3, <1>4 DEF SlotsInv
<1>8. UpdateInv'
  BY <1>1 DEF AssignmentsInv, UpdateInv
<1> QED
  BY <1>5, <1>6, <1>7, <1>8 DEF AssignmentsInv

-----------------------------------------------------------------------------
LEMMA AssignmentsStep == AssignmentsInv /\ [AssignmentsNext]_ccVars => AssignmentsInv'
<1> SUFFICES ASSUME AssignmentsInv, [AssignmentsNext]_ccVars PROVE AssignmentsInv'
  OBVIOUS
<1>1. CASE UNCHANGED ccVars
  <2>1. UNCHANGED <<cc_present, cc_list, cc_held, cc_task, cc_update>>
    BY <1>1 DEF ccVars
  <2>2. CcTypeInv' /\ UpdateInv'
    BY <2>1 DEF AssignmentsInv, CcTypeInv, UpdateInv, UpdateSlot
  <2> QED
    BY <2>1, <2>2, OthersUntouched DEF AssignmentsInv
<1>2. CASE \E e \in CcEffect : AddAssignable(e) \/ CcRemove(e)
  BY <1>2, AddAssignableKeeps, UnassignKeeps
<1>3. CASE \E e \in CcEffect, s \in CcSymbol, d \in CcDevice, p \in BOOLEAN : CcRequest(e, s, d, p)
  BY <1>3, RequestKeeps
<1>4. CASE \E e \in CcEffect, s \in CcSymbol : CcUnmap(e, s) \/ CcValueSet(e, s)
  BY <1>4, UnmapKeeps, ValueSetKeeps
<1>5. CASE CcRecord \/ CcRecordPair \/ CcReset \/ CcValueSent
  BY <1>5, RecordKeeps, RecordPairKeeps, ResetKeeps, ValueSentKeeps
<1>6. CASE ZeroSlot \/ MarkSlot \/ CcRemoveAll
  BY <1>6, ZeroKeeps, MarkOneKeeps, MarkLastKeeps, UnassignAllKeeps
<1>7. CASE (\E h \in cc_held : ActuatorMoves(h)) \/ UpdateCheck \/ UpdatePort \/ UpdateApply
  BY <1>7, MoveKeeps, CheckKeeps, PortKeeps, ApplyKeeps
<1> QED
  BY <1>1, <1>2, <1>3, <1>4, <1>5, <1>6, <1>7 DEF AssignmentsNext

LEMMA InvIsSound == AssignmentsInv => AssignmentsSound
<1> SUFFICES ASSUME AssignmentsInv PROVE AssignmentsSound
  OBVIOUS
<1>1. ASSUME cc_task = CcIdle, NEW d \in CcDevice, NEW i \in CcId, cc_list[d][i].effect >= 0
      PROVE  /\ i \in Visible(d) /\ cc_list[d][i].effect \in cc_present
             /\ cc_list[d][i].port[1] = cc_list[d][i].effect
             /\ \E h \in cc_held : /\ h.device = d /\ h.port = cc_list[d][i].port
                                   /\ <<i, cc_list[d][i].pair>> \in {<<h.id, h.pair>>,
                                                                    <<h.pair, h.id>>}
  <2>1. cc_task.does = "nothing"
    BY <1>1 DEF CcIdle
  <2>2. cc_list[d][i].port # NoPort /\ cc_list[d][i].effect # SlotNull
    BY <1>1, <2>1, ListAtRest DEF SlotNull
  <2>3. i \in Visible(d) /\ cc_list[d][i].effect \in cc_present
    BY <2>1, <2>2, ListAtRest, UsedIsPresent
  <2>4. PICK h \in cc_held : Shows(h, d, i)
    BY <2>1, <2>2, ListAtRest
  <2>5. /\ h.device = d /\ i \in Ids(h) /\ h.port = cc_list[d][i].port
        /\ cc_list[d][i].effect = h.port[1] /\ cc_list[d][i].pair = Other(h, i)
    BY <2>4, ShownIs DEF AssignmentsInv
  <2>6. <<i, cc_list[d][i].pair>> \in {<<h.id, h.pair>>, <<h.pair, h.id>>}
    BY <2>5 DEF Ids, Other
  <2> QED
    BY <2>3, <2>5, <2>6
<1>2. ASSUME cc_task = CcIdle, NEW h \in cc_held, NEW i \in Ids(h)
      PROVE  cc_list[h.device][i].effect >= 0
  <2>1. Shows(h, h.device, i)
    BY <1>2, NothingUnderWay DEF CcIdle, AssignmentsInv, ShownInv
  <2>2. cc_list[h.device][i].effect \in Nat
    BY <2>1, ShownIs, HeldIs, PortIs DEF AssignmentsInv
  <2> QED
    BY <2>2
<1>3. cc_task.does = "value" =>
        \E h \in cc_held : h.device = cc_task.device /\ cc_task.id \in {h.id, h.pair}
                           /\ h.port = cc_task.port
  BY DEF AssignmentsInv, TaskInv, Ids
<1>4. cc_update.at = "done" /\ ~cc_update.spoiled =>
        cc_update.port = cc_update.meant /\ cc_update.effect = cc_update.port[1]
        /\ cc_update.present
  BY DEF AssignmentsInv, UpdateInv
<1> QED
  BY <1>1, <1>2, <1>3, <1>4 DEF AssignmentsSound, Ids

(* The list and the library agree between two commands, and an update      *)
(* whose slot no command touched sets the port it was meant for, for every *)
(* number of devices, ids and effects (effects.c:4269, 6249, 6372, 8330,   *)
(* 8471).                                                                  *)
THEOREM AssignmentsAreSound == AssignmentsSpec => []AssignmentsSound
<1>1. AssignmentsInit => AssignmentsInv
  BY AssignmentsInitHolds
<1>2. AssignmentsInv /\ [AssignmentsNext]_ccVars => AssignmentsInv'
  BY AssignmentsStep
<1>3. AssignmentsInv => AssignmentsSound
  BY InvIsSound
<1> QED
  BY <1>1, <1>2, <1>3, PTL DEF AssignmentsSpec

-----------------------------------------------------------------------------
(* The socket server.                                                      *)

SocketSpec == SocketInit /\ [][SocketNext]_socketVars

Place == {"start", "accept", "await", "accept_fb", "await_fb", "publish", "loop", "recv",
          "close_fb", "close", "ended"}

SocketTypeOK ==
  /\ server \in [at : Place, c : Nat, f : Nat]
  /\ client \in Nat /\ fbclient \in Nat /\ connects \in Nat
  /\ connected \subseteq 1..connects
  /\ serverfd \subseteq Servers /\ listening \subseteq Servers
  /\ stopper \in {"idle", "finish", "clients", "servers", "done"}

(* The server knows every connection that is up, until it closes it.       *)
KnownInv ==
  /\ connected \subseteq {server.c, server.f}
  /\ server.at \in {"start", "accept", "await", "ended"} => server.c = 0 /\ server.f = 0
  /\ server.at \in {"accept_fb", "await_fb"} => server.f = 0
  /\ server.at = "close" => server.f \notin connected

(* The published connections are the server's own, from Publish on.        *)
PublishedInv ==
  /\ client = IF server.at \in {"loop", "recv", "close_fb", "close"} THEN server.c ELSE 0
  /\ fbclient = IF server.at \in {"loop", "recv", "close_fb"} THEN server.f ELSE 0

(* When the clients are shut down there is no server socket any more, so   *)
(* that the loop is not entered again: only a recv that waits already can  *)
(* be met, and its connection is down.                                     *)
StopInv ==
  /\ stopper \in {"clients", "servers", "done"} => serverfd = {}
  /\ stopper \in {"servers", "done"} /\ server.at = "recv" => server.c \notin connected

SocketInv == SocketTypeOK /\ KnownInv /\ PublishedInv /\ StopInv

-----------------------------------------------------------------------------
LEMMA SocketStep == SocketInv /\ [SocketNext]_socketVars => SocketInv'
<1> SUFFICES ASSUME SocketInv, [SocketNext]_socketVars PROVE SocketInv'
  OBVIOUS
<1> USE DEF SocketInv, SocketTypeOK, Place, KnownInv, PublishedInv, StopInv, GoTo, ServerOnly
<1>1. CASE ServerStart \/ LookForServer \/ AcceptFails \/ LookForFeedback
  BY <1>1 DEF ServerStart, LookForServer, AcceptFails, LookForFeedback
<1>2. CASE Accept
  <2>1. /\ connects' = connects + 1 /\ connected' = connected \union {connects + 1}
        /\ server' = [at |-> "accept_fb", c |-> connects + 1, f |-> server.f]
        /\ server.at = "await"
        /\ UNCHANGED <<serverfd, listening, client, fbclient, stopper>>
        BY <1>2 DEF Accept, Connected
  <2>2. SocketTypeOK'
    <3>1. 1..connects' = 1..connects \union {connects + 1}
          BY <2>1
    <3>2. connected' \subseteq 1..connects'
          BY <2>1, <3>1
    <3>3. server' \in [at : Place, c : Nat, f : Nat] /\ connects' \in Nat
          BY <2>1
    <3>4. QED
          BY <2>1, <3>2, <3>3 DEF Servers
  <2>3. /\ server'.at = "accept_fb" /\ server'.c = connects + 1
        /\ server'.f = server.f
        BY <2>1
  <2>4. KnownInv' /\ PublishedInv' /\ StopInv'
        BY <2>1, <2>3
  <2>5. QED
        BY <2>2, <2>4
<1>3. CASE AcceptFeedback
  <2>1. /\ connects' = connects + 1 /\ connected' = connected \union {connects + 1}
        /\ server' = [at |-> "publish", c |-> server.c, f |-> connects + 1]
        /\ server.at = "await_fb"
        /\ UNCHANGED <<serverfd, listening, client, fbclient, stopper>>
        BY <1>3 DEF AcceptFeedback, Connected
  <2>2. SocketTypeOK'
    <3>1. 1..connects' = 1..connects \union {connects + 1}
          BY <2>1
    <3>2. connected' \subseteq 1..connects'
          BY <2>1, <3>1
    <3>3. server' \in [at : Place, c : Nat, f : Nat] /\ connects' \in Nat
          BY <2>1
    <3>4. QED
          BY <2>1, <3>2, <3>3 DEF Servers
  <2>3. /\ server'.at = "publish" /\ server'.f = connects + 1
        /\ server'.c = server.c
        BY <2>1
  <2>4. KnownInv' /\ PublishedInv' /\ StopInv'
        BY <2>1, <2>3
  <2>5. QED
        BY <2>2, <2>4
<1>4. CASE AcceptFeedbackFails
  BY <1>4 DEF AcceptFeedbackFails
<1>5. CASE Publish
  BY <1>5 DEF Publish
<1>6. CASE ServerLoop \/ RecvCommand
  BY <1>6 DEF ServerLoop, RecvCommand
<1>7. CASE CloseFeedback
  BY <1>7 DEF CloseFeedback
<1>8. CASE CloseClient
  BY <1>8 DEF CloseClient
<1>9. ASSUME NEW c \in connected, ClientCloses(c) PROVE SocketInv'
  BY <1>9 DEF ClientCloses
<1>10. CASE StopRunning \/ ForgetServers
  BY <1>10 DEF StopRunning, ForgetServers
<1>11. CASE ShutdownClients
  BY <1>11 DEF ShutdownClients
<1>12. CASE CloseServers
  BY <1>12 DEF CloseServers
<1>13. CASE FeedbackTest \/ FeedbackSend
  BY <1>13 DEF FeedbackTest, FeedbackSend
<1>14. CASE Stopped \/ UNCHANGED socketVars
  BY <1>14 DEF Stopped, socketVars
<1>15. QED
  BY <1>1, <1>2, <1>3, <1>4, <1>5, <1>6, <1>7, <1>8, <1>9, <1>10, <1>11, <1>12, <1>13, <1>14
     DEF SocketNext

(* When socket_finish has returned, the thread that is joined next does    *)
(* not wait for a client that is still there; every round closes and       *)
(* forgets its connections (socket.c:206-236, 304-340, 451).               *)
THEOREM ServerIsStopped == SocketSpec => []ServerStops
<1>1. SocketInit => SocketInv
  BY SocketServerAssumption DEF SocketInit, SocketInv, SocketTypeOK, Place, KnownInv, PublishedInv,
     StopInv, Servers
<1>2. SocketInv => ServerStops
  BY DEF SocketInv, SocketTypeOK, Place, KnownInv, PublishedInv, StopInv, ServerStops
<1>3. QED
  BY <1>1, <1>2, SocketStep, PTL DEF SocketSpec

-----------------------------------------------------------------------------
(* The life of the host.                                                   *)

HostSpec == HostInit /\ [][HostNext]_hostVars

(* The steps of effects_finish, from the last one back, and those of       *)
(* effects_init before them.                                               *)
PoolGone     == {"free globals", "finished"}
MapsGone     == PoolGone \union {"destroy pool"}
ClientGone   == MapsGone \union {"free maps"}
ChainGone    == ClientGone \union {"close client"}
HmiGone      == ChainGone \union {"close control chain"}
MonitorGone  == HmiGone \union {"remove all", "join hmi"}
FeedbackGone == MonitorGone \union {"stop monitor"}
Finishing    == FeedbackGone \union {"join feedback"}
ChainPhase   == Finishing \union {"running"}
CyclePhase   == ChainPhase \union {"start socket"}
FeedbackPhase == CyclePhase \union {"activate"}
HmiPhase     == FeedbackPhase \union {"start feedback"}
SymapPhase   == HmiPhase \union {"open hmi"}
WorldPhase   == SymapPhase \union {"make symap"}
GlobalsPhase == WorldPhase \union {"load world"}
LocksPhase   == GlobalsPhase \union {"make globals"}
PoolPhase    == LocksPhase \union {"init locks"}
MonitorPhase == PoolPhase \union {"create pool"}
PortsPhase   == MonitorPhase \union {"open monitor"}
ClientPhase  == PortsPhase \union {"register ports"}
Step         == ClientPhase \union {"open client", "failed"}

Things == {"client", "ports", "monitor client", "pool", "locks", "globals", "world", "symap",
           "channel", "socket", "control chain"}

(* The host as a program of its own, or as a client of JACK.               *)
Kind == IF internal THEN "internal" ELSE "program"

(* What exists at each step.                                               *)
MadeAt(things, phase, kind) ==
  /\ things \subseteq Things
  /\ phase \in ClientPhase \ ClientGone => "client" \in things
  /\ phase \in PortsPhase \ ClientGone => "ports" \in things
  /\ phase \in PoolPhase \ PoolGone => "pool" \in things
  /\ phase \in LocksPhase \ PoolGone => "locks" \in things
  /\ phase \in GlobalsPhase \ {"finished"} => "globals" \in things
  /\ "world" \in things => phase \notin MapsGone
  /\ "symap" \in things => phase \notin MapsGone
  /\ "pool" \in things \/ "locks" \in things => phase \notin PoolGone
  /\ "globals" \in things => phase # "finished"
  /\ "socket" \in things => phase \notin Finishing
  /\ "channel" \in things => phase \notin HmiGone
  /\ "control chain" \in things => phase \notin ChainGone
  /\ kind = "program" /\ "monitor client" \in things => phase \notin MonitorGone
  /\ kind = "program" /\ ("client" \in things \/ "ports" \in things) => phase \notin ClientGone

MadeInv == MadeAt(made, life, Kind)

(* Which threads run at each step.                                         *)
AliveInv ==
  /\ alive \subseteq {"feedback", "cycle", "hmi", "monitor", "control_chain"}
  /\ "feedback" \in alive => life \in FeedbackPhase \ FeedbackGone
  /\ "cycle" \in alive =>
       life \in CyclePhase \ ClientGone /\ (Kind = "internal" => life \notin Finishing)
  /\ "hmi" \in alive => "channel" \in made
  /\ "monitor" \in alive => "monitor client" \in made
  /\ "control_chain" \in alive => life \in ChainPhase \ ChainGone

(* After an exit of effects_init on an error nothing is promised.          *)
HostInv == internal \in BOOLEAN /\ life \in Step /\ (life # "failed" => MadeInv /\ AliveInv)

LEMMA HostInitHolds == HostInit => HostInv
  BY DEF HostInit, HostInv, MadeInv, MadeAt, AliveInv, Things, Step, PoolGone, MapsGone, ClientGone,
     ChainGone, HmiGone, MonitorGone, FeedbackGone, Finishing, ChainPhase, CyclePhase,
     FeedbackPhase, HmiPhase, SymapPhase, WorldPhase, GlobalsPhase, LocksPhase, PoolPhase,
     MonitorPhase, PortsPhase, ClientPhase

(* effects_init, and the first cc_map.                                     *)
LEMMA InitStepsKeep ==
  ASSUME HostInv,
         OpenClient \/ RegisterPorts \/ OpenMonitor \/ CreatePool \/ InitLocks \/ MakeGlobals
            \/ LoadWorld \/ MakeSymap \/ OpenHmi \/ StartFeedback \/ Activate \/ StartSocket \/
            OpenControlChain
  PROVE  HostInv'
<1> USE DEF PoolGone, MapsGone, ClientGone, ChainGone, HmiGone, MonitorGone, FeedbackGone,
   Finishing, ChainPhase, CyclePhase, FeedbackPhase, HmiPhase, SymapPhase, WorldPhase,
   GlobalsPhase, LocksPhase, PoolPhase, MonitorPhase, PortsPhase, ClientPhase, Step
<1>0. internal' = internal /\ Kind' = Kind
  <2>1. internal' = internal
    BY DEF OpenClient, RegisterPorts, OpenMonitor, CreatePool, InitLocks, MakeGlobals, LoadWorld,
       MakeSymap, OpenHmi, StartFeedback, Activate, StartSocket, OpenControlChain, Make, Fail
  <2> QED
    BY <2>1, Zenon DEF Kind
<1>1. CASE OpenClient
  BY <1>0, <1>1 DEF OpenClient, Make, Fail, HostInv, MadeInv, MadeAt, AliveInv, Things
<1>2. CASE RegisterPorts
  BY <1>0, <1>2 DEF RegisterPorts, Make, Fail, HostInv, MadeInv, MadeAt, AliveInv, Things
<1>3. CASE OpenMonitor
  BY <1>0, <1>3 DEF OpenMonitor, Make, Fail, HostInv, MadeInv, MadeAt, AliveInv, Things
<1>4. CASE CreatePool
  BY <1>0, <1>4 DEF CreatePool, Make, Fail, HostInv, MadeInv, MadeAt, AliveInv, Things
<1>5. CASE InitLocks
  BY <1>0, <1>5 DEF InitLocks, Make, Fail, HostInv, MadeInv, MadeAt, AliveInv, Things
<1>6. CASE MakeGlobals
  BY <1>0, <1>6 DEF MakeGlobals, Make, Fail, HostInv, MadeInv, MadeAt, AliveInv, Things
<1>7. CASE LoadWorld
  BY <1>0, <1>7 DEF LoadWorld, Make, Fail, HostInv, MadeInv, MadeAt, AliveInv, Things
<1>8. CASE MakeSymap
  BY <1>0, <1>8 DEF MakeSymap, Make, Fail, HostInv, MadeInv, MadeAt, AliveInv, Things
<1>9. CASE OpenHmi
  BY <1>0, <1>9 DEF OpenHmi, Make, Fail, HostInv, MadeInv, MadeAt, AliveInv, Things
<1>10. CASE StartFeedback
  BY <1>0, <1>10 DEF StartFeedback, Make, Fail, HostInv, MadeInv, MadeAt, AliveInv, Things
<1>11. CASE Activate
  BY <1>0, <1>11 DEF Activate, Make, Fail, HostInv, MadeInv, MadeAt, AliveInv, Things
<1>12. CASE StartSocket
  BY <1>0, <1>12 DEF StartSocket, Make, Fail, HostInv, MadeInv, MadeAt, AliveInv, Things
<1>13. CASE OpenControlChain
  BY <1>0, <1>13 DEF OpenControlChain, Make, Fail, HostInv, MadeInv, MadeAt, AliveInv, Things
<1> QED
  BY <1>1, <1>2, <1>3, <1>4, <1>5, <1>6, <1>7, <1>8, <1>9, <1>10, <1>11, <1>12, <1>13

(* effects_finish.                                                         *)
LEMMA FinishStepsKeep ==
  ASSUME HostInv,
         Finish \/ JoinFeedback \/ StopMonitor \/ RemoveAllEffects \/ JoinHmi \/
            CloseControlChain \/ CloseGlobalClient \/ FreeMaps \/ DestroyPool \/ FreeGlobals
  PROVE  HostInv'
<1> USE DEF PoolGone, MapsGone, ClientGone, ChainGone, HmiGone, MonitorGone, FeedbackGone,
   Finishing, ChainPhase, CyclePhase, FeedbackPhase, HmiPhase, SymapPhase, WorldPhase,
   GlobalsPhase, LocksPhase, PoolPhase, MonitorPhase, PortsPhase, ClientPhase, Step
<1>0. internal' = internal /\ Kind' = Kind
  <2>1. internal' = internal
    BY DEF Finish, JoinFeedback, StopMonitor, RemoveAllEffects, JoinHmi, CloseControlChain,
       CloseGlobalClient, FreeMaps, DestroyPool, FreeGlobals, Discard
  <2> QED
    BY <2>1, Zenon DEF Kind
<1>1. CASE Finish
  <2>0. /\ life = "running"
        /\ \/ Kind = "internal" /\ Discard({"socket"}, {"cycle"}, "join feedback")
           \/ Kind = "program" /\ Discard({"socket"}, {}, "join feedback")
    BY <1>1 DEF Finish, Kind
  <2> QED
    BY <1>0, <2>0 DEF Discard, HostInv, MadeInv, MadeAt, AliveInv, Things
<1>2. CASE JoinFeedback
  BY <1>0, <1>2 DEF JoinFeedback, Discard, HostInv, MadeInv, MadeAt, AliveInv, Things
<1>3. CASE StopMonitor
  <2>0. /\ life = "stop monitor"
        /\ \/ Kind = "internal" /\ Discard({}, {}, "remove all")
           \/ Kind = "program" /\ Discard({"monitor client"}, {"monitor"}, "remove all")
    BY <1>3 DEF StopMonitor, Kind
  <2> QED
    BY <1>0, <2>0 DEF Discard, HostInv, MadeInv, MadeAt, AliveInv, Things
<1>4. CASE RemoveAllEffects
  BY <1>0, <1>4 DEF RemoveAllEffects, Discard, HostInv, MadeInv, MadeAt, AliveInv, Things
<1>5. CASE JoinHmi
  BY <1>0, <1>5 DEF JoinHmi, Discard, HostInv, MadeInv, MadeAt, AliveInv, Things
<1>6. CASE CloseControlChain
  BY <1>0, <1>6 DEF CloseControlChain, Discard, HostInv, MadeInv, MadeAt, AliveInv, Things
<1>7. CASE CloseGlobalClient
  <2>0. /\ life = "close client"
        /\ \/ Kind = "internal" /\ Discard({}, {}, "free maps")
           \/ Kind = "program" /\ Discard({"client", "ports"}, {"cycle"}, "free maps")
    BY <1>7 DEF CloseGlobalClient, Kind
  <2> QED
    BY <1>0, <2>0 DEF Discard, HostInv, MadeInv, MadeAt, AliveInv, Things
<1>8. CASE FreeMaps
  BY <1>0, <1>8 DEF FreeMaps, Discard, HostInv, MadeInv, MadeAt, AliveInv, Things
<1>9. CASE DestroyPool
  BY <1>0, <1>9 DEF DestroyPool, Discard, HostInv, MadeInv, MadeAt, AliveInv, Things
<1>10. CASE FreeGlobals
  BY <1>0, <1>10 DEF FreeGlobals, Discard, HostInv, MadeInv, MadeAt, AliveInv, Things
<1> QED
  BY <1>1, <1>2, <1>3, <1>4, <1>5, <1>6, <1>7, <1>8, <1>9, <1>10

LEMMA HostKeeps == HostInv /\ [HostNext]_hostVars => HostInv'
<1> SUFFICES ASSUME HostInv, [HostNext]_hostVars PROVE HostInv'
  OBVIOUS
<1>1. CASE UNCHANGED hostVars
  <2>1. made' = made /\ alive' = alive /\ life' = life /\ internal' = internal /\ Kind' = Kind
    BY <1>1 DEF hostVars, Kind
  <2>2. MadeInv => MadeInv'
    BY <2>1 DEF MadeInv
  <2>3. AliveInv => AliveInv'
    BY <2>1 DEF AliveInv
  <2> QED
    BY <2>1, <2>2, <2>3 DEF HostInv
<1>2. CASE HostNext
  BY <1>1, <1>2, InitStepsKeep, FinishStepsKeep DEF HostNext, Over
<1> QED
  BY <1>1, <1>2

(* A thread runs only while everything it touches exists, at every step of *)
(* effects_init and effects_finish, and nothing is left behind.            *)
THEOREM NobodyOutlives == HostSpec => []NobodyOutlivesItsThings
<1>1. HostInv => NobodyOutlivesItsThings
  <2> SUFFICES ASSUME HostInv, life # "failed" PROVE NobodyOutlivesItsThings
    BY DEF NobodyOutlivesItsThings
  <2>0. MadeInv /\ AliveInv
    BY DEF HostInv
  <2> USE DEF PoolGone, MapsGone, ClientGone, ChainGone, HmiGone, MonitorGone, FeedbackGone,
     Finishing, ChainPhase, CyclePhase, FeedbackPhase, HmiPhase, SymapPhase, WorldPhase,
     GlobalsPhase, LocksPhase, PoolPhase, MonitorPhase, PortsPhase, ClientPhase, Step
  <2>1. "feedback" \in alive => Needs["feedback"] \subseteq made
    BY <2>0 DEF MadeInv, MadeAt, AliveInv, Needs
  <2>2. "cycle" \in alive => Needs["cycle"] \subseteq made
    BY <2>0 DEF MadeInv, MadeAt, AliveInv, Needs
  <2>3. "hmi" \in alive => Needs["hmi"] \subseteq made
    BY <2>0 DEF AliveInv, Needs
  <2>4. "monitor" \in alive => Needs["monitor"] \subseteq made
    BY <2>0 DEF AliveInv, Needs
  <2>5. "control_chain" \in alive => Needs["control_chain"] \subseteq made
    BY <2>0 DEF MadeInv, MadeAt, AliveInv, Needs
  <2>6. \A t \in alive : Needs[t] \subseteq made
    BY <2>0, <2>1, <2>2, <2>3, <2>4, <2>5 DEF AliveInv
  <2>7. life = "finished" /\ ~internal => made = {}
    <3>1. ~internal => Kind = "program"
      BY DEF Kind
    <3> QED
      BY <2>0, <3>1 DEF MadeInv, MadeAt, Things
  <2>8. life = "finished" => alive \subseteq {"monitor"}
    BY <2>0 DEF MadeInv, MadeAt, AliveInv
  <2>9. life = "finished" /\ ~internal => alive = {}
    BY <2>0, <2>7, <2>8 DEF AliveInv
  <2> QED
    BY <2>6, <2>7, <2>8, <2>9 DEF NobodyOutlivesItsThings
<1>2. HostInit => HostInv
  BY HostInitHolds
<1>3. HostInv /\ [HostNext]_hostVars => HostInv'
  BY HostKeeps
<1> QED
  BY <1>1, <1>2, <1>3, PTL DEF HostSpec

-----------------------------------------------------------------------------
(* The channel to and from the HMI service.                                *)

AnyEvent == [page : {0, 1}, text : 0..TextMax]

\* The bytes of event e on a channel that is paged or not, without sequences.
Before(p) == IF p THEN 3 ELSE 1
Size(p, e) == Before(p) + e.text + 1
ByteOf(p, e, i) ==
  IF i = 0 THEN SpecialType
  ELSE IF p /\ i = 1 THEN e.page
  ELSE IF i < Before(p) THEN 0
  ELSE IF i < Before(p) + e.text THEN 1 ELSE 0

LEMMA SizeType ==
  ASSUME NEW p \in BOOLEAN, NEW e \in AnyEvent
  PROVE  Size(p, e) \in Nat /\ Size(p, e) >= 2 /\ e.text \in Nat /\ Before(p) \in {1, 3}
  BY SerialRingAssumption DEF AnyEvent, Size, Before

LEMMA BytesAre ==
  ASSUME NEW e \in AnyEvent, paged \in BOOLEAN
  PROVE  /\ Len(Bytes(e)) = Size(paged, e)
         /\ \A i \in 0..(Size(paged, e) - 1) : Bytes(e)[i + 1] = ByteOf(paged, e, i)
<1> DEFINE t == e.text
           ones == [i \in 1..t |-> 1]
           pages == IF paged THEN <<e.page, 0>> ELSE <<>>
           start == <<SpecialType>> \o pages
           B == Before(paged)
<1>1. t \in Nat /\ e.page \in Int /\ SpecialType \in Int
  BY SerialRingAssumption DEF AnyEvent
<1>2. ones \in Seq(Int) /\ Len(ones) = t /\ \A i \in 1..t : ones[i] = 1
  BY <1>1
<1>3. /\ start \in Seq(Int) /\ Len(start) = B /\ start[1] = SpecialType
      /\ paged => start[2] = e.page /\ start[3] = 0
  <2>1. <<SpecialType>> \in Seq(Int) /\ Len(<<SpecialType>>) = 1 /\ <<SpecialType>>[1] = SpecialType
    BY <1>1
  <2>2. pages \in Seq(Int) /\ Len(pages) = B - 1
    BY <1>1 DEF Before
  <2>3. paged => pages[1] = e.page /\ pages[2] = 0
    BY <1>1
  <2>4. B \in {1, 3} /\ (paged => B = 3)
    BY DEF Before
  <2> DEFINE special == <<SpecialType>>
  <2> HIDE DEF pages, B, special
  <2>5. special \o pages \in Seq(Int) /\ Len(special \o pages) = B
        /\ (special \o pages)[1] = SpecialType
        /\ \A i \in 2..B : (special \o pages)[i] = pages[i - 1]
    BY <2>1, <2>2, <2>4 DEF special
  <2>6. paged => (special \o pages)[2] = e.page /\ (special \o pages)[3] = 0
    BY <2>3, <2>4, <2>5
  <2> QED
    BY <2>5, <2>6 DEF special
<1>4. Bytes(e) = (start \o ones) \o <<0>>
  BY DEF Bytes
<1>5. B \in {1, 3} /\ (paged <=> B = 3)
  BY DEF Before
<1> HIDE DEF ones, start, t, B
<1>6. /\ start \o ones \in Seq(Int) /\ Len(start \o ones) = B + t
      /\ \A i \in 1..B : (start \o ones)[i] = start[i]
      /\ \A i \in (B + 1)..(B + t) : (start \o ones)[i] = ones[i - B]
  BY <1>1, <1>2, <1>3
<1>7. /\ Len(Bytes(e)) = B + t + 1 /\ Bytes(e)[B + t + 1] = 0
      /\ \A i \in 1..(B + t) : Bytes(e)[i] = (start \o ones)[i]
  BY <1>1, <1>4, <1>5, <1>6
<1>8. Size(paged, e) = B + t + 1
  BY DEF Size, B, t
<1>9. ASSUME NEW i \in 0..(B + t) PROVE Bytes(e)[i + 1] = ByteOf(paged, e, i)
  <2>1. CASE i = B + t
    BY <1>1, <1>5, <1>7, <2>1 DEF ByteOf, B, t
  <2>2. CASE i \in B..(B + t - 1)
    <3>1. Bytes(e)[i + 1] = 1
      <4> DEFINE j == i + 1
      <4>1. j \in (B + 1)..(B + t) /\ j \in 1..(B + t) /\ j - B \in 1..t
        BY <1>1, <1>5, <2>2
      <4> HIDE DEF j
      <4>2. ones[j - B] = 1
        BY <1>2, <4>1
      <4>3. (start \o ones)[j] = ones[j - B]
        BY <1>6, <4>1
      <4>4. Bytes(e)[j] = (start \o ones)[j]
        BY <1>7, <4>1
      <4> QED
        BY <4>2, <4>3, <4>4 DEF j
    <3>2. ByteOf(paged, e, i) = 1
      BY <1>1, <1>5, <2>2 DEF ByteOf, B, t
    <3> QED
      BY <3>1, <3>2
  <2>3. CASE i \in 0..(B - 1)
    <3>1. Bytes(e)[i + 1] = start[i + 1]
      <4> DEFINE j == i + 1
      <4>1. j \in 1..B /\ j \in 1..(B + t)
        BY <1>1, <1>5, <2>3
      <4> HIDE DEF j
      <4>2. Bytes(e)[j] = (start \o ones)[j]
        BY <1>7, <4>1
      <4>3. (start \o ones)[j] = start[j]
        BY <1>6, <4>1
      <4> QED
        BY <4>2, <4>3 DEF j
    <3>2. ByteOf(paged, e, i) = start[i + 1]
      BY <1>1, <1>3, <1>5, <2>3 DEF ByteOf, B
    <3> QED
      BY <3>1, <3>2
  <2> QED
    BY <1>1, <1>5, <2>1, <2>2, <2>3
<1> QED
  BY <1>1, <1>5, <1>7, <1>8, <1>9

-----------------------------------------------------------------------------
(* Where events end, counted from the tail.                                *)

IsEnds(o, es, p) ==
  /\ o \in [0..Len(es) -> Nat] /\ o[0] = 0
  /\ \A k \in 1..Len(es) : o[k] = o[k - 1] + Size(p, es[k])

LEMMA EndsGrow ==
  ASSUME NEW p \in BOOLEAN, NEW es \in Seq(AnyEvent), NEW o, IsEnds(o, es, p)
  PROVE  \A k \in 0..Len(es) : \A j \in 0..k : o[j] <= o[k]
<1> DEFINE n == Len(es)
           A == {k \in 0..n : \A j \in 0..k : o[j] <= o[k]}
<1>1. n \in Nat /\ o \in [0..n -> Nat] /\ \A k \in 1..n : es[k] \in AnyEvent
  BY DEF IsEnds
<1>2. 0 \in A
  BY <1>1
<1>3. ASSUME NEW k \in 0..(n - 1), k \in A PROVE k + 1 \in A
  <2>1. k + 1 \in 1..n /\ k + 1 \in 0..n /\ k \in 0..n /\ (k + 1) - 1 = k
    BY <1>1
  <2>2. o[k + 1] = o[k] + Size(p, es[k + 1])
    BY <2>1 DEF IsEnds
  <2>3. Size(p, es[k + 1]) \in Nat
    BY <1>1, <2>1, SizeType
  <2>4. o[k] <= o[k + 1] /\ o[k] \in Nat /\ o[k + 1] \in Nat
    BY <1>1, <2>1, <2>2, <2>3
  <2>5. \A j \in 0..k : o[j] <= o[k] /\ o[j] \in Nat
    BY <1>1, <1>3
  <2> QED
    BY <2>1, <2>4, <2>5
<1>4. 0..n \subseteq A
  <2>1. \A k \in 0..(n - 1) : k \in A => k + 1 \in A
    BY <1>3
  <2> HIDE DEF A, n
  <2> QED
    BY <1>1, <1>2, <2>1, BoundedInduction
<1> QED
  BY <1>4

EndsAppended(o, es, size) ==
  [k \in 0..(Len(es) + 1) |-> IF k = Len(es) + 1 THEN o[Len(es)] + size ELSE o[k]]

LEMMA EndsOfAppend ==
  ASSUME NEW p \in BOOLEAN, NEW es \in Seq(AnyEvent), NEW e \in AnyEvent,
         NEW o, IsEnds(o, es, p)
  PROVE  IsEnds(EndsAppended(o, es, Size(p, e)), Append(es, e), p)
<1> DEFINE n == Len(es)
           a == EndsAppended(o, es, Size(p, e))
           r == Append(es, e)
<1>1. /\ n \in Nat /\ o \in [0..n -> Nat] /\ o[0] = 0 /\ Size(p, e) \in Nat
      /\ \A k \in 1..n : o[k] = o[k - 1] + Size(p, es[k])
  BY SizeType DEF IsEnds
<1>2. Len(r) = n + 1 /\ r[n + 1] = e /\ \A k \in 1..n : r[k] = es[k]
  OBVIOUS
<1>3. a = [k \in 0..(n + 1) |-> IF k = n + 1 THEN o[n] + Size(p, e) ELSE o[k]]
  BY DEF EndsAppended
<1> HIDE DEF n, a, r
<1>4. a \in [0..(n + 1) -> Nat] /\ a[0] = 0 /\ a[n + 1] = o[n] + Size(p, e)
      /\ \A k \in 0..n : a[k] = o[k]
  BY <1>1, <1>3
<1>5. ASSUME NEW k \in 1..(n + 1) PROVE a[k] = a[k - 1] + Size(p, r[k])
  <2>1. CASE k = n + 1
    <3>1. k - 1 = n /\ n \in 0..n
      BY <1>1, <2>1
    <3> QED
      BY <1>2, <1>4, <2>1, <3>1
  <2>2. CASE k \in 1..n
    <3>1. k \in 0..n /\ k - 1 \in 0..n
      BY <1>1, <2>2
    <3> QED
      BY <1>1, <1>2, <1>4, <2>2, <3>1
  <2> QED
    BY <1>1, <2>1, <2>2
<1> QED
  BY <1>2, <1>4, <1>5 DEF IsEnds, a, r

EndsOfRest(o, es) == [k \in 0..(Len(es) - 1) |-> o[k + 1] - o[1]]

LEMMA EndsOfTail ==
  ASSUME NEW p \in BOOLEAN, NEW es \in Seq(AnyEvent), es # <<>>, NEW o, IsEnds(o, es, p)
  PROVE  IsEnds(EndsOfRest(o, es), Tail(es), p)
<1> DEFINE n == Len(es)
           a == EndsOfRest(o, es)
           r == Tail(es)
<1>1. /\ n \in Nat \ {0} /\ o \in [0..n -> Nat]
      /\ \A k \in 1..n : o[k] = o[k - 1] + Size(p, es[k])
  BY DEF IsEnds
<1>2. Len(r) = n - 1 /\ \A k \in 1..(n - 1) : r[k] = es[k + 1]
  OBVIOUS
<1>3. a = [k \in 0..(n - 1) |-> o[k + 1] - o[1]]
  BY DEF EndsOfRest
<1>4. ASSUME NEW k \in 0..(n - 1) PROVE o[k + 1] - o[1] \in Nat
  <2>1. k + 1 \in 0..n /\ 1 \in 0..(k + 1) /\ 1 \in 0..n
    BY <1>1
  <2>2. o[1] <= o[k + 1]
    BY <2>1, EndsGrow
  <2>3. o[1] \in Nat /\ o[k + 1] \in Nat
    BY <1>1, <2>1
  <2> QED
    BY <2>2, <2>3
<1> HIDE DEF n, a, r
<1>5. a \in [0..(n - 1) -> Nat] /\ a[0] = 0
  <2>1. 0 \in 0..(n - 1) /\ 1 \in 0..n
    BY <1>1
  <2> QED
    BY <1>1, <1>3, <1>4, <2>1
<1>6. ASSUME NEW k \in 1..(n - 1) PROVE a[k] = a[k - 1] + Size(p, r[k])
  <2>1. k \in 0..(n - 1) /\ k - 1 \in 0..(n - 1) /\ k + 1 \in 1..n /\ (k - 1) + 1 = k
        /\ (k + 1) - 1 = k /\ k \in 0..n /\ k + 1 \in 0..n /\ 1 \in 0..n
    BY <1>1
  <2>2. a[k] = o[k + 1] - o[1] /\ a[k - 1] = o[k] - o[1]
    BY <1>3, <2>1
  <2>3. o[k + 1] = o[k] + Size(p, r[k])
    BY <1>1, <1>2, <2>1
  <2>4. o[k + 1] \in Nat /\ o[k] \in Nat /\ o[1] \in Nat
    BY <1>1, <2>1
  <2> DEFINE s == Size(p, r[k])
  <2>5. s \in Int
    <3>1. r[k] \in AnyEvent
      BY <1>1, <1>2, <2>1 DEF n
    <3> QED
      BY <3>1, SizeType
  <2> HIDE DEF s
  <2>6. o[k + 1] = o[k] + s
    BY <2>3 DEF s
  <2>7. a[k] = a[k - 1] + s
    BY <2>2, <2>4, <2>5, <2>6
  <2> QED
    BY <2>7 DEF s
<1> QED
  BY <1>2, <1>5, <1>6 DEF IsEnds, a, r

LEMMA EndsAre ==
  ASSUME paged \in BOOLEAN, NEW es \in Seq(AnyEvent), NEW o, IsEnds(o, es, paged)
  PROVE  Ends(es)[Len(es)] = o[Len(es)]
<1> DEFINE L == Len(es)
           Def(g) == [k \in 0..L |-> IF k = 0 THEN 0 ELSE g[k - 1] + Len(Bytes(es[k]))]
           ends == CHOOSE g : g = Def(g)
           A == {k \in 0..L : ends[k] = o[k]}
<1>1. L \in Nat /\ o \in [0..L -> Nat] /\ o[0] = 0
  BY DEF IsEnds
<1>2. \A k \in 1..L : o[k] = o[k - 1] + Len(Bytes(es[k]))
  <2>1. \A k \in 1..L : Len(Bytes(es[k])) = Size(paged, es[k])
    BY BytesAre
  <2> QED
    BY <2>1 DEF IsEnds
<1>3. o = Def(o)
  <2>1. \A k \in 0..L : k = 0 \/ k \in 1..L
    BY <1>1
  <2> HIDE DEF L
  <2> QED
    BY <1>1, <1>2, <2>1
<1>4. ends = Def(ends)
  <2> HIDE DEF Def
  <2> QED
    BY <1>3
<1>5. Ends(es) = ends
  BY DEF Ends
<1> HIDE DEF ends
<1>6. 0 \in A
  BY <1>1, <1>4
<1>7. ASSUME NEW k \in 0..(L - 1), k \in A PROVE k + 1 \in A
  <2> DEFINE m == k + 1
  <2>1. m \in 0..L /\ m \in 1..L /\ m # 0 /\ m - 1 = k
    BY <1>1, <1>7
  <2> HIDE DEF m
  <2>2. ends[m] = ends[m - 1] + Len(Bytes(es[m]))
    BY <1>4, <2>1
  <2> QED
    BY <1>2, <1>7, <2>1, <2>2 DEF m
<1>8. L \in A
  <2>1. \A k \in 0..(L - 1) : k \in A => k + 1 \in A
    BY <1>7
  <2> HIDE DEF A, L
  <2>2. 0..L \subseteq A
    BY <1>1, <1>6, <2>1, BoundedInduction
  <2> QED
    BY <1>1, <2>2
<1> QED
  BY <1>5, <1>8

-----------------------------------------------------------------------------
(* Going around.                                                           *)

LEMMA AroundIs ==
  /\ \A x \in 0..(ShmSize - 1) : Around(x) = x
  /\ \A x \in ShmSize..(2 * ShmSize - 1) : Around(x) = x - ShmSize
  /\ \A x \in Int : Around(x) \in Cell
<1>1. ASSUME NEW x \in 0..(ShmSize - 1) PROVE x % ShmSize = x
  BY SerialRingAssumption
<1>2. ASSUME NEW x \in ShmSize..(2 * ShmSize - 1) PROVE x % ShmSize = x - ShmSize
  BY SerialRingAssumption
<1>3. ASSUME NEW x \in Int PROVE x % ShmSize \in 0..(ShmSize - 1)
  BY SerialRingAssumption
<1> QED
  BY <1>1, <1>2, <1>3 DEF Around, Cell

(* From a cell to one that is less than a round ahead, and back.           *)
LEMMA AroundAdds ==
  ASSUME NEW c \in Cell, NEW a \in Nat, NEW b \in Nat, a + b < ShmSize
  PROVE  /\ Around(c + a) \in Cell /\ Around(Around(c + a) + b) = Around(c + a + b)
         /\ Around(Around(c + a) - c + ShmSize) = a
         /\ a # b => Around(c + a) # Around(c + b)
<1>1. ShmSize \in Nat \ {0} /\ c \in 0..(ShmSize - 1) /\ a \in 0..(ShmSize - 1)
  BY SerialRingAssumption DEF Cell
<1>2. Around(c + a) = IF c + a < ShmSize THEN c + a ELSE c + a - ShmSize
  BY <1>1, AroundIs
<1>3. Around(c + b) = IF c + b < ShmSize THEN c + b ELSE c + b - ShmSize
  BY <1>1, AroundIs
<1>4. Around(c + a + b) = IF c + a + b < ShmSize THEN c + a + b ELSE c + a + b - ShmSize
  BY <1>1, AroundIs
<1> DEFINE d == Around(c + a)
<1>5. d \in 0..(ShmSize - 1)
  BY <1>1, <1>2
<1> HIDE DEF d
<1>6. Around(d + b) = IF d + b < ShmSize THEN d + b ELSE d + b - ShmSize
  BY <1>1, <1>5, AroundIs
<1>7. Around(d - c + ShmSize) = IF d < c THEN d - c + ShmSize ELSE d - c
  <2>1. d < c => d - c + ShmSize \in 0..(ShmSize - 1)
    BY <1>1, <1>5
  <2>2. ~(d < c) => d - c + ShmSize \in ShmSize..(2 * ShmSize - 1)
    BY <1>1, <1>5
  <2> QED
    BY <1>1, <1>5, <2>1, <2>2, AroundIs
<1>8. d = IF c + a < ShmSize THEN c + a ELSE c + a - ShmSize
  BY <1>2 DEF d
<1>9. Around(d + b) = Around(c + a + b)
  BY <1>1, <1>4, <1>5, <1>6, <1>8
<1>10. Around(d - c + ShmSize) = a
  BY <1>1, <1>5, <1>7, <1>8
<1>11. a # b => d # Around(c + b)
  BY <1>1, <1>3, <1>8
<1> QED
  BY <1>5, <1>9, <1>10, <1>11 DEF Cell, d

LEMMA AroundBehind ==
  ASSUME NEW c \in Cell, NEW a \in Nat, NEW b \in Nat, a < b, b < ShmSize
  PROVE  Around(Around(c + a) - Around(c + b) + ShmSize) = a - b + ShmSize
<1>1. ShmSize \in Nat \ {0} /\ c \in 0..(ShmSize - 1)
  BY SerialRingAssumption DEF Cell
<1>2. Around(c + a) = IF c + a < ShmSize THEN c + a ELSE c + a - ShmSize
  BY <1>1, AroundIs
<1>3. Around(c + b) = IF c + b < ShmSize THEN c + b ELSE c + b - ShmSize
  BY <1>1, AroundIs
<1> DEFINE d == Around(c + a) - Around(c + b) + ShmSize
<1>4. d = a - b + ShmSize \/ d = a - b + 2 * ShmSize
  BY <1>1, <1>2, <1>3
<1> HIDE DEF d
<1>5. a - b + ShmSize \in 0..(ShmSize - 1)
      /\ a - b + 2 * ShmSize \in ShmSize..(2 * ShmSize - 1)
  BY <1>1
<1>6. Around(d) = a - b + ShmSize
  BY <1>1, <1>4, <1>5, AroundIs
<1> QED
  BY <1>6 DEF d

-----------------------------------------------------------------------------
(* Where the events are: one behind the other from the tail on, whole.     *)

BeingWritten == IF writer = {} THEN 0 ELSE 1
BeingRead == IF reader = {} THEN 0 ELSE 1

Placed(o) ==
  /\ IsEnds(o, sent_events, paged) /\ o[Len(sent_events)] < ShmSize
  /\ \A k \in 1..Len(sent_events) : \A i \in 0..(Size(paged, sent_events[k]) - 1) :
       buffer[Around(tail + (o[k - 1] + i))] = ByteOf(paged, sent_events[k], i)
  /\ head = Around(tail + o[Len(sent_events) - BeingWritten])
  /\ writer # {} => writer = {Around(tail + o[Len(sent_events)])}
  /\ reader # {} => reader = {[got |-> "event", text |-> sent_events[1].text,
                               page |-> sent_events[1].page, tail |-> Around(tail + o[1])]}

SerialTypes ==
  /\ paged \in BOOLEAN /\ buffer \in [Cell -> Int] /\ head \in Cell /\ tail \in Cell
  /\ sem \in Nat /\ sent_events \in Seq(AnyEvent)
  /\ ~paged => \A k \in 1..Len(sent_events) : sent_events[k].page = 0
  /\ sem + BeingWritten + BeingRead = Len(sent_events)

SerialInv == SerialTypes /\ \E o : Placed(o)

LEMMA SerialInitHolds ==
  SerialInit => SerialInv
<1> SUFFICES ASSUME SerialInit PROVE SerialInv
  OBVIOUS
<1>1. 0 \in Cell /\ ShmSize \in Nat \ {0}
  BY SerialRingAssumption DEF Cell
<1>2. SerialTypes
  BY <1>1 DEF SerialInit, SerialTypes, BeingWritten, BeingRead
<1> DEFINE o == [k \in 0..0 |-> 0]
<1>3. o \in [0..0 -> Nat] /\ o[0] = 0
  OBVIOUS
<1>4. Around(0 + 0) = 0
  BY <1>1, AroundIs
<1> HIDE DEF o
<1>5. Placed(o)
  BY <1>1, <1>3, <1>4 DEF SerialInit, Placed, IsEnds, BeingWritten
<1> QED
  BY <1>2, <1>5 DEF SerialInv

(* What the reader makes of the bytes at a cell.                           *)
LEMMA TextIs ==
  ASSUME SerialTypes, NEW c \in Cell, NEW t \in 0..(ShmSize - 1), buffer[Around(c + t)] = 0,
         \A i \in 0..(t - 1) : buffer[Around(c + i)] # 0 /\ Around(c + i) # head
  PROVE  Text(c).length = t /\ Text(c).complete
<1> DEFINE byte(i) == buffer[Around(c + i)]
           ends == {i \in 0..(ShmSize - 1) : byte(i) = 0 \/ Around(c + i) = head}
           first == CHOOSE i \in ends : \A j \in ends : i <= j
           last == IF ends = {} THEN ShmSize ELSE first
           whole == ends # {} /\ byte(last) = 0
<1>1. t \in ends
  OBVIOUS
<1>2. \A j \in ends : t <= j
  OBVIOUS
<1>3. ends \subseteq Int
  BY SerialRingAssumption
<1>4. Text(c) = [length |-> last, complete |-> whole]
  BY DEF Text
<1>5. first \in ends /\ \A j \in ends : first <= j
  <2> HIDE DEF ends
  <2> QED
    BY <1>1, <1>2
<1>6. first = t
  <2> HIDE DEF ends, first
  <2> QED
    BY <1>1, <1>2, <1>3, <1>5
<1>7. last = t
  BY <1>1, <1>6
<1>8. ends # {} /\ byte(last) = 0
  BY <1>1, <1>7
<1>9. Text(c).length = last /\ (Text(c).complete <=> whole)
  <2> HIDE DEF last, whole
  <2> QED
    BY <1>4
<1> QED
  BY <1>7, <1>8, <1>9

(* The first event, as it is in the buffer.                                *)
LEMMA FirstIs ==
  ASSUME SerialTypes, NEW o, Placed(o), sent_events # <<>>
  PROVE  LET e == sent_events[1]
             B == Before(paged)
         IN  /\ e \in AnyEvent /\ o[1] = B + e.text + 1 /\ o[1] < ShmSize /\ B \in {1, 3}
             /\ e.text \in Nat
             /\ buffer[tail] = SpecialType
             /\ IF paged THEN buffer[Around(tail + 1)] = e.page ELSE e.page = 0
             /\ \A i \in 0..(e.text - 1) : buffer[Around(tail + (B + i))] = 1
             /\ buffer[Around(tail + (B + e.text))] = 0
             /\ \A k \in 1..Len(sent_events) :
                  o[k] \in Nat /\ o[k] >= o[1] /\ o[k] <= o[Len(sent_events)]
<1> DEFINE e == sent_events[1]
           B == Before(paged)
           n == Len(sent_events)
<1>1. n \in Nat \ {0} /\ e \in AnyEvent /\ 1 \in 1..n /\ paged \in BOOLEAN
  BY DEF SerialTypes
<1>2. IsEnds(o, sent_events, paged) /\ o[n] < ShmSize
  BY DEF Placed
<1>3. /\ \A k \in 0..n : o[k] \in Nat
      /\ o[0] = 0 /\ o[1] = o[0] + Size(paged, e)
  BY <1>1, <1>2 DEF IsEnds
<1>4. e.text \in Nat /\ B \in {1, 3} /\ Size(paged, e) = B + e.text + 1 /\ (paged <=> B = 3)
  BY <1>1, SizeType DEF Size, Before
<1>5. o[1] = B + e.text + 1
  BY <1>3, <1>4
<1>6. \A k \in 1..n : o[k] >= o[1] /\ o[k] <= o[n]
  <2>1. \A k \in 0..n : \A j \in 0..k : o[j] <= o[k]
    BY <1>1, <1>2, EndsGrow DEF SerialTypes
  <2>2. \A k \in 1..n : k \in 0..n /\ 1 \in 0..k /\ n \in 0..n /\ k \in 0..n
    BY <1>1
  <2>3. \A k \in 1..n : o[1] <= o[k] /\ o[k] <= o[n] /\ o[1] \in Nat /\ o[k] \in Nat
    BY <1>1, <1>3, <2>1, <2>2
  <2> QED
    BY <2>3
<1>7. \A i \in 0..(B + e.text) : buffer[Around(tail + i)] = ByteOf(paged, e, i)
  <2>1. ASSUME NEW i \in 0..(B + e.text) PROVE buffer[Around(tail + i)] = ByteOf(paged, e, i)
    <3>1. i \in 0..(Size(paged, e) - 1) /\ o[1 - 1] + i = i
      BY <1>3, <1>4
    <3>2. buffer[Around(tail + (o[1 - 1] + i))] = ByteOf(paged, e, i)
      BY <1>1, <3>1 DEF Placed
    <3> QED
      BY <3>1, <3>2
  <2> QED
    BY <2>1
<1>8. tail \in 0..(ShmSize - 1) /\ Around(tail + 0) = tail
  BY AroundIs DEF SerialTypes, Cell
<1>9. buffer[tail] = SpecialType
  <2>1. 0 \in 0..(B + e.text)
    BY <1>4
  <2> QED
    BY <1>7, <1>8, <2>1 DEF ByteOf
<1>10. IF paged THEN buffer[Around(tail + 1)] = e.page ELSE e.page = 0
  <2>1. 1 \in 0..(B + e.text)
    BY <1>4
  <2> QED
    BY <1>1, <1>7, <2>1 DEF ByteOf, SerialTypes
<1>11. \A i \in 0..(e.text - 1) : buffer[Around(tail + (B + i))] = 1
  <2>1. ASSUME NEW i \in 0..(e.text - 1) PROVE buffer[Around(tail + (B + i))] = 1
    <3>1. B + i \in 0..(B + e.text)
      BY <1>4
    <3>2. /\ B + i # 0 /\ ~(paged /\ B + i = 1) /\ ~(B + i < Before(paged))
          /\ B + i < Before(paged) + e.text
      BY <1>4
    <3>3. ByteOf(paged, e, B + i) = 1
      BY <3>2 DEF ByteOf
    <3> QED
      BY <1>7, <3>1, <3>3
  <2> QED
    BY <2>1
<1>12. buffer[Around(tail + (B + e.text))] = 0
  <2>1. B + e.text \in 0..(B + e.text) /\ ByteOf(paged, e, B + e.text) = 0
    BY <1>4 DEF ByteOf
  <2> QED
    BY <1>7, <2>1
<1>13. o[1] < ShmSize
  BY <1>1, <1>2, <1>3, <1>6, SerialRingAssumption
<1>14. \A k \in 1..n : o[k] \in Nat
  BY <1>1, <1>3
<1> QED
  BY <1>1, <1>4, <1>5, <1>6, <1>9, <1>10, <1>11, <1>12, <1>13, <1>14

LEMMA WriteKeeps ==
  ASSUME SerialInv, NEW e \in Event, WriteEvent(e)
  PROVE  SerialInv'
<1> DEFINE n == Len(sent_events)
           size == Size(paged, e)
<1>1. PICK o : Placed(o)
  BY DEF SerialInv
<1>0. PICK a : a = EndsAppended(o, sent_events, size)
  OBVIOUS
<1>2. /\ SerialTypes /\ n \in Nat /\ paged \in BOOLEAN /\ e \in AnyEvent /\ (~paged => e.page = 0)
      /\ sent_events \in Seq(AnyEvent)
  BY DEF SerialInv, SerialTypes, Event, AnyEvent
<1>3. size \in Nat /\ size >= 2
  BY <1>2, SizeType
<1>4. Len(Bytes(e)) = size /\ \A i \in 0..(size - 1) : Bytes(e)[i + 1] = ByteOf(paged, e, i)
  BY <1>2, BytesAre
<1>5. /\ writer = {} /\ Fits(size)
      /\ buffer' = [c \in Cell |-> IF Around(c - head + ShmSize) < size
                                   THEN Bytes(e)[Around(c - head + ShmSize) + 1] ELSE buffer[c]]
      /\ writer' = {Around(head + size)} /\ sent_events' = Append(sent_events, e)
      /\ paged' = paged /\ head' = head /\ tail' = tail /\ sem' = sem /\ reader' = reader
  BY <1>4 DEF WriteEvent
<1>6. /\ ShmSize \in Nat \ {0} /\ head \in Cell /\ tail \in Cell
      /\ o \in [0..n -> Nat] /\ o[n] \in Nat /\ o[n] < ShmSize /\ head = Around(tail + o[n])
      /\ n \in 0..n /\ o[0] = 0 /\ IsEnds(o, sent_events, paged)
  <2>1. Len(sent_events) - BeingWritten = n
    BY <1>2, <1>5 DEF BeingWritten
  <2> QED
    BY <1>1, <1>2, <2>1, SerialRingAssumption DEF Placed, IsEnds, SerialTypes
<1>7. o[n] + size < ShmSize
  <2>1. Around(tail + o[n]) = IF tail + o[n] < ShmSize THEN tail + o[n] ELSE tail + o[n] - ShmSize
    BY <1>6, AroundIs DEF Cell
  <2>2. size < (IF tail > head THEN 0 ELSE ShmSize) + tail - head
    BY <1>5 DEF Fits, Room
  <2> DEFINE u == o[n]
  <2>3. tail \in 0..(ShmSize - 1) /\ u \in Nat /\ u < ShmSize /\ size \in Nat
    BY <1>3, <1>6 DEF Cell
  <2>4. head = IF tail + u < ShmSize THEN tail + u ELSE tail + u - ShmSize
    BY <1>6, <2>1
  <2> HIDE DEF u, size
  <2>5. u + size < ShmSize
    BY <1>6, <2>2, <2>3, <2>4
  <2> QED
    BY <2>5 DEF u
<1>8. IsEnds(a, sent_events', paged')
  BY <1>0, <1>2, <1>5, <1>6, EndsOfAppend
<1>9. /\ Len(sent_events') = n + 1 /\ sent_events'[n + 1] = e
      /\ \A k \in 1..n : sent_events'[k] = sent_events[k]
      /\ sent_events' \in Seq(AnyEvent)
  BY <1>2, <1>5
<1>10. a[n + 1] = o[n] + size /\ \A k \in 0..n : a[k] = o[k]
  BY <1>0, <1>2 DEF EndsAppended
<1> HIDE DEF n, size
<1>11. ASSUME NEW x \in Nat, x < o[n]
       PROVE  buffer'[Around(tail + x)] = buffer[Around(tail + x)]
  <2>1. Around(tail + x) \in Cell
    BY <1>6, <1>11, AroundAdds
  <2>2. Around(Around(tail + x) - head + ShmSize) = x - o[n] + ShmSize
    BY <1>6, <1>11, AroundBehind
  <2>3. ~(Around(Around(tail + x) - head + ShmSize) < size)
    BY <1>3, <1>6, <1>7, <1>11, <2>2
  <2> QED
    BY <1>5, <2>1, <2>3
<1>12. ASSUME NEW i \in 0..(size - 1)
       PROVE  buffer'[Around(tail + (o[n] + i))] = ByteOf(paged, e, i)
  <2>1. i \in Nat /\ o[n] + i < ShmSize /\ i < ShmSize
    BY <1>3, <1>6, <1>7
  <2>2. Around(tail + (o[n] + i)) = Around(head + i)
    <3>1. Around(Around(tail + o[n]) + i) = Around(tail + o[n] + i)
      BY <1>6, <2>1, AroundAdds
    <3>2. tail + o[n] + i = tail + (o[n] + i)
      BY <1>6, <2>1 DEF Cell
    <3> QED
      BY <1>6, <3>1, <3>2
  <2>3. Around(head + i) \in Cell /\ Around(Around(head + i) - head + ShmSize) = i
    <3>1. 0 \in Nat /\ i + 0 < ShmSize
      BY <2>1
    <3> QED
      BY <1>6, <2>1, <3>1, AroundAdds
  <2>4. buffer'[Around(head + i)] = Bytes(e)[i + 1]
    BY <1>3, <1>5, <2>1, <2>3
  <2> QED
    BY <1>4, <2>2, <2>4
<1>13. ASSUME NEW k \in 1..Len(sent_events'), NEW i \in 0..(Size(paged', sent_events'[k]) - 1)
       PROVE  buffer'[Around(tail' + (a[k - 1] + i))] = ByteOf(paged', sent_events'[k], i)
  <2>1. CASE k = n + 1
    <3>1. k - 1 = n /\ a[k - 1] = o[n] /\ sent_events'[k] = e /\ i \in 0..(size - 1)
      BY <1>2, <1>5, <1>6, <1>9, <1>10, <1>13, <2>1 DEF size
    <3> QED
      BY <1>5, <1>12, <3>1
  <2>2. CASE k \in 1..n
    <3> DEFINE s == Size(paged, sent_events[k])
    <3>1. k - 1 \in 0..n /\ a[k - 1] = o[k - 1] /\ sent_events'[k] = sent_events[k] /\ k \in 0..n
      BY <1>2, <1>9, <1>10, <2>2
    <3>2. s \in Nat
      <4>1. sent_events[k] \in AnyEvent
        BY <1>2, <2>2 DEF n
      <4> QED
        BY <1>2, <4>1, SizeType
    <3>3. i \in 0..(s - 1) /\ o[k] = o[k - 1] + s
      BY <1>5, <1>6, <1>13, <2>2, <3>1 DEF IsEnds, n
    <3>4. o[k] <= o[n]
      BY <1>2, <1>6, <2>2, <3>1, EndsGrow DEF n
    <3> HIDE DEF s
    <3>5. o[k - 1] + i \in Nat /\ o[k - 1] + i < o[n]
      <4>1. o[k - 1] \in Nat /\ o[n] \in Nat /\ i \in Nat /\ i < s
        BY <1>6, <3>1, <3>2, <3>3
      <4>2. o[k - 1] + s <= o[n]
        BY <3>3, <3>4
      <4> QED
        BY <3>2, <4>1, <4>2
    <3>6. buffer[Around(tail + (o[k - 1] + i))] = ByteOf(paged, sent_events[k], i)
      BY <1>1, <2>2, <3>3 DEF Placed, n, s
    <3> QED
      BY <1>5, <1>11, <3>1, <3>5, <3>6
  <2> QED
    BY <1>2, <1>9, <2>1, <2>2
<1>14. /\ Len(sent_events') - BeingWritten' = n /\ BeingWritten' = 1 /\ BeingWritten = 0 /\ BeingRead' = BeingRead
  BY <1>2, <1>5, <1>9 DEF BeingWritten, BeingRead
<1>15. head' = Around(tail' + a[Len(sent_events') - BeingWritten'])
  BY <1>5, <1>6, <1>10, <1>14
<1>16. writer' = {Around(tail' + a[Len(sent_events')])}
  <2>1. Around(head + size) = Around(tail + o[n] + size)
    BY <1>3, <1>6, <1>7, AroundAdds
  <2>2. tail + o[n] + size = tail + (o[n] + size)
    BY <1>3, <1>6 DEF Cell
  <2> QED
    BY <1>5, <1>9, <1>10, <2>1, <2>2
<1>17. reader' # {} => reader' = {[got |-> "event", text |-> sent_events'[1].text,
          page |-> sent_events'[1].page, tail |-> Around(tail' + a[1])]}
  <2> SUFFICES ASSUME reader # {}
               PROVE  reader = {[got |-> "event", text |-> sent_events'[1].text,
                                 page |-> sent_events'[1].page, tail |-> Around(tail + a[1])]}
    BY <1>5
  <2>1. n >= 1
    BY <1>2, <1>14 DEF SerialTypes, BeingRead, n
  <2>2. sent_events'[1] = sent_events[1] /\ a[1] = o[1]
    BY <1>2, <1>9, <1>10, <2>1
  <2> QED
    BY <1>1, <2>2 DEF Placed
<1>18. a[Len(sent_events')] < ShmSize
  BY <1>7, <1>9, <1>10
<1>19. Placed(a)'
  <2>1. \A k \in 1..Len(sent_events') : \A i \in 0..(Size(paged', sent_events'[k]) - 1) :
          buffer'[Around(tail' + (a[k - 1] + i))] = ByteOf(paged', sent_events'[k], i)
    BY <1>13
  <2> QED
    BY <1>8, <1>15, <1>16, <1>17, <1>18, <2>1 DEF Placed
<1>20. SerialTypes'
  <2>1. buffer' \in [Cell -> Int]
    <3>1. ASSUME NEW c \in Cell, Around(c - head + ShmSize) < size
          PROVE  Bytes(e)[Around(c - head + ShmSize) + 1] \in Int
      <4> DEFINE i == Around(c - head + ShmSize)
      <4>1. i \in 0..(size - 1)
        <5>1. c - head + ShmSize \in Int
          BY <1>6 DEF Cell
        <5>2. i \in 0..(ShmSize - 1)
          BY <5>1, AroundIs DEF Cell
        <5> QED
          BY <1>3, <1>6, <3>1, <5>2
      <4>2. \A j \in 0..(size - 1) : ByteOf(paged, e, j) \in Int
        BY <1>2, SerialRingAssumption DEF ByteOf, AnyEvent
      <4> QED
        BY <1>4, <4>1, <4>2
    <3> QED
      BY <1>2, <1>5, <3>1 DEF SerialTypes
  <2>2. ~paged' => \A k \in 1..Len(sent_events') : sent_events'[k].page = 0
    BY <1>2, <1>5, <1>9 DEF SerialTypes, n
  <2>3. sem' + BeingWritten' + BeingRead' = Len(sent_events')
    <3>1. BeingRead \in Int /\ sem \in Int /\ sem + BeingWritten + BeingRead = n
      BY <1>2 DEF SerialTypes, BeingRead, n
    <3>2. sem' = sem /\ BeingWritten' = BeingWritten + 1 /\ BeingRead' = BeingRead /\ BeingWritten = 0
      BY <1>5, <1>14
    <3> QED
      BY <1>9, <3>1, <3>2
  <2> QED
    BY <1>2, <1>5, <1>9, <2>1, <2>2, <2>3 DEF SerialTypes
<1> QED
  BY <1>19, <1>20 DEF SerialInv

LEMMA WriteDoneKeeps ==
  ASSUME SerialInv, WriteDone
  PROVE  SerialInv'
<1>1. PICK o : Placed(o)
  BY DEF SerialInv
<1>2. /\ writer # {} /\ writer' = {} /\ head' \in writer /\ sem' = sem + 1
      /\ paged' = paged /\ buffer' = buffer /\ tail' = tail /\ reader' = reader
      /\ sent_events' = sent_events
  BY DEF WriteDone
<1>3. SerialTypes /\ Len(sent_events) \in Nat
  BY DEF SerialInv, SerialTypes
<1>4. BeingWritten = 1 /\ BeingWritten' = 0 /\ BeingRead' = BeingRead
  BY <1>2 DEF BeingWritten, BeingRead
<1>5. head' = Around(tail + o[Len(sent_events)])
  BY <1>1, <1>2 DEF Placed
<1>6. head' \in Cell
  <2>1. o[Len(sent_events)] \in Nat /\ tail \in Int
    BY <1>1, <1>3, SerialRingAssumption DEF Placed, IsEnds, SerialTypes, Cell
  <2> QED
    BY <1>5, <2>1, AroundIs
<1>7. Len(sent_events') - BeingWritten' = Len(sent_events)
  BY <1>2, <1>3, <1>4
<1>8. Placed(o)'
  BY <1>1, <1>2, <1>5, <1>7 DEF Placed
<1>9. SerialTypes'
  BY <1>2, <1>3, <1>4, <1>6 DEF SerialTypes, BeingRead
<1> QED
  BY <1>8, <1>9 DEF SerialInv

LEMMA ReadEventKeeps ==
  ASSUME SerialInv, ReadEvent
  PROVE  SerialInv'
<1> DEFINE e == sent_events[1]
           B == Before(paged)
           n == Len(sent_events)
           c == Around(tail + B)
<1>1. PICK o : Placed(o)
  BY DEF SerialInv
<1>2. SerialTypes /\ n \in Nat /\ paged \in BOOLEAN /\ tail \in Cell /\ ShmSize \in Nat \ {0}
  BY SerialRingAssumption DEF SerialInv, SerialTypes
<1>3. reader = {} /\ sem > 0 /\ sem' = sem - 1
      /\ UNCHANGED <<paged, buffer, head, tail, writer, sent_events>>
  BY DEF ReadEvent
<1>4. n - BeingWritten \in 1..n /\ sem + BeingWritten = n /\ BeingWritten \in {0, 1}
  <2>1. sem + BeingWritten + BeingRead = n /\ BeingWritten \in {0, 1} /\ sem \in Nat
    BY <1>2 DEF SerialTypes, BeingWritten
  <2>2. BeingRead = 0
    BY <1>3 DEF BeingRead
  <2> QED
    BY <1>2, <1>3, <2>1, <2>2
<1>5. sent_events # <<>>
  BY <1>2, <1>4 DEF SerialTypes
<1>6. /\ e \in AnyEvent /\ o[1] = B + e.text + 1 /\ o[1] < ShmSize /\ B \in {1, 3}
      /\ e.text \in Nat
      /\ buffer[tail] = SpecialType
      /\ IF paged THEN buffer[Around(tail + 1)] = e.page ELSE e.page = 0
      /\ \A i \in 0..(e.text - 1) : buffer[Around(tail + (B + i))] = 1
      /\ buffer[Around(tail + (B + e.text))] = 0
      /\ \A k \in 1..n : o[k] \in Nat /\ o[k] >= o[1] /\ o[k] <= o[n]
  BY <1>1, <1>2, <1>5, FirstIs
<1> DEFINE t == e.text
           h == o[n - BeingWritten]
<1>7. h \in Nat /\ h >= o[1] /\ h < ShmSize /\ head = Around(tail + h)
  <2>1. h \in Nat /\ h >= o[1] /\ o[n] < ShmSize /\ h <= o[n] /\ o[n] \in Nat
    <3>1. n \in 1..n
      BY <1>2, <1>4
    <3> QED
      BY <1>1, <1>4, <1>6, <3>1 DEF Placed
  <2> QED
    BY <1>1, <1>2, <2>1 DEF Placed
<1> HIDE DEF e, B, n, h
<1>8. head # tail
  <2>1. Around(tail + h) # Around(tail + 0)
    BY <1>2, <1>6, <1>7, AroundAdds
  <2>2. Around(tail + 0) = tail
    BY <1>2, AroundIs DEF Cell
  <2> QED
    BY <1>7, <2>1, <2>2
<1>9. c \in Cell /\ B + t < ShmSize
  <2>1. B + t < ShmSize /\ B \in Nat /\ t \in Nat
    BY <1>2, <1>6
  <2> QED
    BY <1>2, <2>1, AroundAdds
<1>10. ASSUME NEW i \in 0..t PROVE Around(c + i) = Around(tail + (B + i))
  <2>1. B \in Nat /\ i \in Nat /\ B + i < ShmSize
    BY <1>2, <1>6, <1>9, <1>10
  <2>2. Around(Around(tail + B) + i) = Around(tail + B + i)
    BY <1>2, <2>1, AroundAdds
  <2>3. tail + B + i = tail + (B + i)
    BY <1>2, <2>1 DEF Cell
  <2> QED
    BY <2>2, <2>3
<1>11. ASSUME NEW i \in 0..(t - 1) PROVE buffer[Around(c + i)] # 0 /\ Around(c + i) # head
  <2>1. i \in 0..t
    BY <1>6, <1>11
  <2>2. buffer[Around(c + i)] = 1
    BY <1>6, <1>10, <1>11, <2>1
  <2>3. B + i \in Nat /\ B + i < h
    BY <1>6, <1>7, <2>1
  <2>4. Around(tail + (B + i)) # Around(tail + h)
    <3> DEFINE x == B + i
    <3>1. x \in Nat /\ x < h
      BY <2>3
    <3> HIDE DEF x
    <3>2. x + 0 < ShmSize /\ h + 0 < ShmSize /\ x # h
      BY <1>2, <1>7, <3>1
    <3>3. Around(tail + x) = IF tail + x < ShmSize THEN tail + x ELSE tail + x - ShmSize
      BY <1>2, <3>1, <3>2, AroundIs DEF Cell
    <3>4. Around(tail + h) = IF tail + h < ShmSize THEN tail + h ELSE tail + h - ShmSize
      BY <1>2, <1>7, AroundIs DEF Cell
    <3>5. Around(tail + x) # Around(tail + h)
      BY <1>2, <1>7, <3>1, <3>2, <3>3, <3>4 DEF Cell
    <3> QED
      BY <3>5 DEF x
  <2> QED
    BY <1>7, <1>10, <2>1, <2>2, <2>4
<1>12. Text(c).length = t /\ Text(c).complete
  <2>1. t \in 0..(ShmSize - 1) /\ t \in 0..t
    BY <1>2, <1>6, <1>9
  <2>2. buffer[Around(c + t)] = 0
    BY <1>6, <1>10, <2>1
  <2> HIDE DEF c, t
  <2> QED
    BY <1>2, <1>9, <1>11, <2>1, <2>2, TextIs
<1>13. reader' = {[got |-> "event", text |-> t, page |-> e.page, tail |-> Around(tail + o[1])]}
  <2> DEFINE got == CASE head = tail                                   -> "nothing"
                      [] head # tail /\ buffer[tail] # SpecialType     -> "no type"
                      [] head # tail /\ buffer[tail] = SpecialType     ->
                           IF Text(c).complete THEN "event" ELSE "no end"
             to == CASE got = "nothing" -> tail
                     [] got = "no type" -> tail + 1
                     [] got = "no end"  -> head
                     [] got = "event"   -> Around(tail + B + Text(c).length + 1)
             page == IF paged THEN buffer[Around(tail + 1)] ELSE 0
  <2>1. reader' = {[got |-> got, text |-> Text(c).length, page |-> page, tail |-> to]}
    BY DEF ReadEvent, Before, B
  <2>2. got = "event"
    BY <1>6, <1>8, <1>12
  <2>3. to = Around(tail + B + Text(c).length + 1)
    <3> HIDE DEF got
    <3> QED
      BY <2>2
  <2>4. tail + B + t + 1 = tail + o[1]
    BY <1>2, <1>6 DEF Cell
  <2>5. page = e.page
    BY <1>6
  <2> HIDE DEF got, to, page
  <2> QED
    BY <1>12, <2>1, <2>2, <2>3, <2>4, <2>5
<1>14. BeingWritten' = BeingWritten /\ BeingRead' = 1 /\ BeingRead = 0
  BY <1>3, <1>13 DEF BeingWritten, BeingRead
<1>15. Placed(o)'
  BY <1>1, <1>3, <1>13, <1>14 DEF Placed, e
<1>16. SerialTypes'
  <2>1. sem' + BeingWritten' + BeingRead' = n /\ sem' \in Nat
    BY <1>2, <1>3, <1>4, <1>14 DEF SerialTypes
  <2> QED
    BY <1>2, <1>3, <2>1 DEF SerialTypes, n
<1> QED
  BY <1>15, <1>16 DEF SerialInv

LEMMA ReadEndKeeps ==
  ASSUME SerialInv, ReadEnd
  PROVE  SerialInv'
<1> DEFINE n == Len(sent_events)
<1>1. PICK o : Placed(o)
  BY DEF SerialInv
<1>2. /\ SerialTypes /\ n \in Nat /\ paged \in BOOLEAN /\ tail \in Cell /\ ShmSize \in Nat \ {0}
      /\ sent_events \in Seq(AnyEvent)
  BY SerialRingAssumption DEF SerialInv, SerialTypes
<1>3. /\ reader # {} /\ reader' = {} /\ UNCHANGED <<paged, buffer, head, sem, writer>>
      /\ tail' \in {r.tail : r \in reader}
  BY DEF ReadEnd
<1>4. sem + BeingWritten + 1 = n /\ n - BeingWritten \in 1..n /\ BeingWritten \in {0, 1} /\ n \in 1..n
  <2>1. sem + BeingWritten + BeingRead = n /\ BeingWritten \in {0, 1} /\ sem \in Nat
    BY <1>2 DEF SerialTypes, BeingWritten
  <2>2. BeingRead = 1
    BY <1>3 DEF BeingRead
  <2> QED
    BY <1>2, <1>3, <2>1, <2>2
<1>5. sent_events # <<>> /\ sent_events' = Tail(sent_events)
  BY <1>2, <1>4 DEF ReadEnd
<1>6. /\ sent_events' \in Seq(AnyEvent) /\ Len(sent_events') = n - 1
      /\ \A k \in 1..(n - 1) : sent_events'[k] = sent_events[k + 1]
  BY <1>2, <1>5
<1>7. tail' = Around(tail + o[1])
  <2>1. reader = {[got |-> "event", text |-> sent_events[1].text,
                   page |-> sent_events[1].page, tail |-> Around(tail + o[1])]}
    BY <1>1, <1>3 DEF Placed
  <2> QED
    BY <1>3, <2>1
<1>8. PICK a : a = EndsOfRest(o, sent_events)
  OBVIOUS
<1>9. /\ o \in [0..n -> Nat] /\ o[n] < ShmSize /\ head = Around(tail + o[n - BeingWritten])
      /\ writer # {} => writer = {Around(tail + o[n])}
      /\ IsEnds(o, sent_events, paged)
  BY <1>1 DEF Placed, IsEnds
<1>10. \A k \in 1..n : o[k] \in Nat /\ o[k] >= o[1] /\ o[k] <= o[n]
  BY <1>1, <1>2, <1>5, FirstIs
<1>11. IsEnds(a, sent_events', paged')
  BY <1>2, <1>3, <1>5, <1>8, <1>9, EndsOfTail
<1>12. \A k \in 0..(n - 1) : a[k] = o[k + 1] - o[1]
  BY <1>8 DEF EndsOfRest
<1> HIDE DEF n
<1>13. ASSUME NEW x \in Nat, x >= o[1], x < ShmSize
       PROVE  Around(tail' + (x - o[1])) = Around(tail + x)
  <2> DEFINE y == x - o[1]
  <2>1. o[1] \in Nat /\ y \in Nat /\ o[1] + y < ShmSize /\ o[1] + y = x
    BY <1>2, <1>4, <1>10, <1>13
  <2> HIDE DEF y
  <2>2. Around(Around(tail + o[1]) + y) = Around(tail + o[1] + y)
    BY <1>2, <2>1, AroundAdds
  <2>3. tail + o[1] + y = tail + x
    <3>1. tail \in Int
      BY <1>2 DEF Cell
    <3> QED
      BY <2>1, <3>1
  <2> QED
    BY <1>7, <2>2, <2>3 DEF y
<1>14. ASSUME NEW k \in 1..n PROVE Around(tail' + a[k - 1]) = Around(tail + o[k])
  <2>1. k - 1 \in 0..(n - 1) /\ (k - 1) + 1 = k
    BY <1>2
  <2>2. a[k - 1] = o[k] - o[1]
    BY <1>12, <2>1
  <2>3. o[k] \in Nat /\ o[k] >= o[1] /\ o[k] < ShmSize
    BY <1>2, <1>4, <1>9, <1>10
  <2> QED
    BY <1>13, <2>2, <2>3
<1>15. BeingWritten' = BeingWritten /\ BeingRead' = 0 /\ BeingRead = 1
  BY <1>3 DEF BeingWritten, BeingRead
<1>16. head' = Around(tail' + a[Len(sent_events') - BeingWritten'])
  <2>1. Len(sent_events') - BeingWritten' = (n - BeingWritten) - 1
    BY <1>2, <1>4, <1>6, <1>15
  <2> QED
    BY <1>3, <1>4, <1>9, <1>14, <2>1
<1>17. writer' # {} => writer' = {Around(tail' + a[Len(sent_events')])}
  BY <1>3, <1>4, <1>6, <1>9, <1>14
<1>18. a[Len(sent_events')] < ShmSize
  <2>1. n - 1 \in 0..(n - 1) /\ (n - 1) + 1 = n
    BY <1>2, <1>4
  <2>2. a[n - 1] = o[n] - o[1]
    BY <1>12, <2>1
  <2>3. o[n] \in Nat /\ o[1] \in Nat
    BY <1>2, <1>4, <1>10
  <2> QED
    BY <1>2, <1>6, <1>9, <2>2, <2>3
<1>19. ASSUME NEW k \in 1..Len(sent_events'), NEW i \in 0..(Size(paged', sent_events'[k]) - 1)
       PROVE  buffer'[Around(tail' + (a[k - 1] + i))] = ByteOf(paged', sent_events'[k], i)
  <2> DEFINE m == k + 1
             s == Size(paged, sent_events[m])
  <2>1. m \in 1..n /\ k \in 1..n /\ k - 1 \in 0..(n - 1) /\ (k - 1) + 1 = k /\ m - 1 = k
        /\ sent_events'[k] = sent_events[m]
    BY <1>2, <1>6
  <2>2. s \in Nat
    <3>1. sent_events[m] \in AnyEvent
      BY <1>2, <2>1 DEF n
    <3> QED
      BY <1>2, <3>1, SizeType
  <2>3. i \in 0..(s - 1)
    BY <1>3, <1>19, <2>1
  <2> HIDE DEF m
  <2>4. o[m] = o[m - 1] + s
    BY <1>9, <2>1 DEF IsEnds, n
  <2>5. buffer[Around(tail + (o[m - 1] + i))] = ByteOf(paged, sent_events[m], i)
    BY <1>1, <2>1, <2>3 DEF Placed, n
  <2> HIDE DEF s
  <2>6. a[k - 1] = o[k] - o[1]
    BY <1>12, <2>1
  <2> DEFINE x == o[k] + i
  <2>7. x \in Nat /\ x >= o[1] /\ x < ShmSize /\ a[k - 1] + i = x - o[1]
    <3>1. o[k] \in Nat /\ o[k] >= o[1] /\ o[1] \in Nat /\ o[m] <= o[n] /\ o[m] \in Nat
          /\ o[n] \in Nat
      BY <1>2, <1>4, <1>10, <2>1
    <3>2. o[m] = o[k] + s
      BY <2>1, <2>4
    <3>3. i \in Nat /\ i < s
      BY <2>2, <2>3
    <3>4. o[k] + i < o[n]
      BY <2>2, <3>1, <3>2, <3>3
    <3>5. o[n] < ShmSize /\ ShmSize \in Nat
      BY <1>2, <1>9
    <3>6. o[k] + i \in Nat /\ o[k] + i >= o[1] /\ o[k] + i < ShmSize
      BY <3>1, <3>3, <3>4, <3>5
    <3>7. a[k - 1] + i = (o[k] + i) - o[1]
      BY <2>6, <3>1, <3>3
    <3> QED
      BY <3>6, <3>7
  <2> HIDE DEF x
  <2>8. Around(tail' + (a[k - 1] + i)) = Around(tail + x)
    BY <1>13, <2>7
  <2>9. buffer[Around(tail + x)] = ByteOf(paged, sent_events[m], i)
    BY <2>1, <2>5 DEF x
  <2> QED
    BY <1>3, <2>1, <2>8, <2>9
<1>20. Placed(a)'
  <2>1. \A k \in 1..Len(sent_events') : \A i \in 0..(Size(paged', sent_events'[k]) - 1) :
          buffer'[Around(tail' + (a[k - 1] + i))] = ByteOf(paged', sent_events'[k], i)
    BY <1>19
  <2> QED
    BY <1>3, <1>11, <1>16, <1>17, <1>18, <2>1 DEF Placed
<1>21. SerialTypes'
  <2>1. tail' \in Cell
    BY <1>2, <1>4, <1>7, <1>10, AroundIs DEF Cell
  <2>2. sem' + BeingWritten' + BeingRead' = Len(sent_events')
    BY <1>2, <1>3, <1>4, <1>6, <1>15 DEF SerialTypes
  <2>3. ~paged' => \A k \in 1..Len(sent_events') : sent_events'[k].page = 0
    <3>1. \A k \in 1..(n - 1) : k + 1 \in 1..n
      BY <1>2
    <3>2. ~paged => \A k \in 1..n : sent_events[k].page = 0
      BY <1>2 DEF SerialTypes, n
    <3> QED
      BY <1>3, <1>6, <3>1, <3>2
  <2> QED
    BY <1>2, <1>3, <1>6, <2>1, <2>2, <2>3 DEF SerialTypes
<1> QED
  BY <1>20, <1>21 DEF SerialInv

(* For a ring of any size, texts of any length and either channel: every   *)
(* event is read whole, as it was written and in order, and the posts and  *)
(* the bytes in the ring are those of the events in it (sys_host.h:157,    *)
(* 249).                                                                   *)
THEOREM SerialIsInOrder ==
  SerialSpec => []SerialInOrder
<1>1. SerialInv => SerialInOrder
  <2> SUFFICES ASSUME SerialInv PROVE SerialInOrder
    OBVIOUS
  <2> DEFINE n == Len(sent_events)
             end == IF writer = {} THEN head ELSE CHOOSE h \in writer : TRUE
  <2>1. PICK o : Placed(o)
    BY DEF SerialInv
  <2>2. SerialTypes /\ n \in Nat /\ paged \in BOOLEAN /\ tail \in Cell
    BY DEF SerialInv, SerialTypes
  <2>3. o[n] \in Nat /\ o[n] < ShmSize /\ IsEnds(o, sent_events, paged)
    BY <2>1, <2>2 DEF Placed, IsEnds
  <2>4. end = Around(tail + o[n])
    <3>1. CASE writer = {}
      <4>1. n - BeingWritten = n
        BY <2>2, <3>1 DEF BeingWritten
      <4> QED
        BY <2>1, <3>1, <4>1 DEF Placed
    <3>2. CASE writer # {}
      BY <2>1, <3>2 DEF Placed
    <3> QED
      BY <3>1, <3>2
  <2>5. Around(end - tail + ShmSize) = o[n]
    <3>1. o[n] + 0 < ShmSize
      BY <2>3
    <3>2. Around(Around(tail + o[n]) - tail + ShmSize) = o[n]
      BY <2>2, <2>3, <3>1, AroundAdds
    <3> HIDE DEF end
    <3> QED
      BY <2>4, <3>2
  <2>6. Ends(sent_events)[n] = o[n]
    BY <2>2, <2>3, EndsAre DEF SerialTypes
  <2>7. ASSUME NEW r \in reader
        PROVE  /\ r.got = "event" /\ sent_events # <<>>
               /\ [page |-> r.page, text |-> r.text] = Head(sent_events)
    <3>1. sent_events # <<>> /\ sent_events[1] \in AnyEvent /\ Head(sent_events) = sent_events[1]
      <4>1. BeingRead = 1 /\ BeingWritten \in {0, 1} /\ sem \in Nat /\ sem + BeingWritten + BeingRead = n
        BY <2>2, <2>7 DEF SerialTypes, BeingRead, BeingWritten
      <4>2. n >= 1
        BY <2>2, <4>1
      <4> QED
        BY <2>2, <4>2 DEF SerialTypes
    <3>2. r = [got |-> "event", text |-> sent_events[1].text,
               page |-> sent_events[1].page, tail |-> Around(tail + o[1])]
      BY <2>1, <2>7 DEF Placed
    <3> QED
      BY <3>1, <3>2 DEF AnyEvent
  <2> HIDE DEF end
  <2>8. Around(end - tail + ShmSize) = Ends(sent_events)[n]
    BY <2>5, <2>6
  <2> QED
    BY <2>2, <2>7, <2>8 DEF SerialInOrder, SerialTypes, BeingWritten, BeingRead, end
<1>2. SerialInv /\ [SerialNext]_serialVars => SerialInv'
  <2> SUFFICES ASSUME SerialInv, [SerialNext]_serialVars PROVE SerialInv'
    OBVIOUS
  <2>1. CASE UNCHANGED serialVars
    BY <2>1 DEF serialVars, SerialInv, SerialTypes, Placed, BeingWritten, BeingRead
  <2> QED
    BY <2>1, WriteKeeps, WriteDoneKeeps, ReadEventKeeps, ReadEndKeeps DEF SerialNext
<1> QED
  BY <1>1, <1>2, SerialInitHolds, PTL DEF SerialSpec

-----------------------------------------------------------------------------
(* The commands of the socket.  SplitCommands as a function of the place   *)
(* its loop has come to.                                                   *)

SplitBody(bytes, f, i) ==
  IF i > Len(bytes) THEN <<>>
  ELSE IF bytes[i] = Nul THEN f[i + 1]
  ELSE <<SubSeq(bytes, i, NextNul(bytes, i) - 1)>> \o f[NextNul(bytes, i) + 1]

Walks(f, bytes) == \A i \in 1..(Len(bytes) + 1) : f[i] = SplitBody(bytes, f, i)

LEMMA NextNulIs ==
  ASSUME NEW bytes \in Seq(Nat), NEW i \in 1..Len(bytes), bytes[Len(bytes)] = Nul
  PROVE  /\ NextNul(bytes, i) \in i..Len(bytes) /\ bytes[NextNul(bytes, i)] = Nul
         /\ \A k \in i..(NextNul(bytes, i) - 1) : bytes[k] # Nul
<1> DEFINE T == {j \in i..Len(bytes) : bytes[j] = Nul}
<1>1. T \subseteq Nat /\ Len(bytes) \in T
  OBVIOUS
<1>2. PICK m \in T : \A k \in T : ~(<<k, m>> \in OpToRel(<, Nat))
  <2> HIDE DEF T
  <2> QED
    BY <1>1, WFMin, NatLessThanWellFounded
<1>3. \A k \in T : ~(k < m)
  <2> HIDE DEF T
  <2> QED
    BY <1>1, <1>2 DEF OpToRel
<1>4. m \in i..Len(bytes) /\ bytes[m] = Nul /\ \A k \in i..(m - 1) : bytes[k] # Nul
  BY <1>3
<1> QED
  BY <1>4 DEF NextNul

LEMMA SplitIs ==
  ASSUME NEW bytes \in Seq(Nat), bytes # <<>>, bytes[Len(bytes)] = Nul
  PROVE  \E f : Walks(f, bytes) /\ SplitCommands(bytes) = f[1]
<1> DEFINE L == Len(bytes)
           A == {n \in 0..L : \E f : f = [i \in (L + 1 - n)..(L + 1) |-> SplitBody(bytes, f, i)]}
<1>1. L \in Nat /\ L >= 1
  OBVIOUS
<1>2. 0 \in A
  <2> DEFINE f == [i \in (L + 1)..(L + 1) |-> <<>>]
  <2>1. f = [i \in (L + 1)..(L + 1) |-> SplitBody(bytes, f, i)]
    <3>1. \A g : \A i \in (L + 1)..(L + 1) : SplitBody(bytes, g, i) = <<>>
      BY <1>1 DEF SplitBody
    <3> QED
      BY <3>1
  <2>2. (L + 1 - 0) = L + 1 /\ 0 \in 0..L
    BY <1>1
  <2> HIDE DEF f, L
  <2> QED
    BY <2>1, <2>2
<1>3. ASSUME NEW n \in 0..(L - 1), n \in A PROVE n + 1 \in A
  <2>1. PICK f : f = [i \in (L + 1 - n)..(L + 1) |-> SplitBody(bytes, f, i)]
    BY <1>3
  <2> DEFINE S == (L - n)..(L + 1)
             g == [i \in S |-> IF i = L - n THEN SplitBody(bytes, f, i) ELSE f[i]]
  <2>2. ASSUME NEW i \in S PROVE SplitBody(bytes, g, i) = SplitBody(bytes, f, i)
    <3>1. CASE i = L + 1
      BY <1>1, <3>1 DEF SplitBody
    <3>2. CASE i # L + 1
      <4>1. i \in 1..L /\ i + 1 \in (L + 1 - n)..(L + 1)
        BY <1>1, <1>3, <3>2
      <4>2. NextNul(bytes, i) \in i..L
        BY <4>1, NextNulIs
      <4>3. NextNul(bytes, i) + 1 \in (L + 1 - n)..(L + 1)
        BY <1>1, <1>3, <4>1, <4>2, SMTT(20)
      <4>4. \A x \in (L + 1 - n)..(L + 1) : g[x] = f[x]
        BY <1>1, <1>3
      <4> HIDE DEF g, L
      <4> QED
        BY <4>1, <4>3, <4>4 DEF SplitBody
    <3> QED
      BY <3>1, <3>2
  <2>3. ASSUME NEW i \in S PROVE g[i] = SplitBody(bytes, g, i)
    <3>1. CASE i = L - n
      BY <2>2, <3>1
    <3>2. CASE i # L - n
      <4>1. i \in (L + 1 - n)..(L + 1)
        BY <1>1, <1>3, <3>2
      <4>2. f[i] = SplitBody(bytes, f, i)
        BY <2>1, <4>1
      <4> QED
        BY <2>2, <3>2, <4>2
    <3> QED
      BY <3>1, <3>2
  <2>4. g = [i \in S |-> SplitBody(bytes, g, i)]
    <3>1. g = [i \in S |-> g[i]]
      OBVIOUS
    <3> HIDE DEF g, S
    <3> QED
      BY <2>3, <3>1
  <2>5. S = (L + 1 - (n + 1))..(L + 1) /\ n + 1 \in 0..L
    BY <1>1, <1>3
  <2> HIDE DEF g, S, L
  <2> QED
    BY <2>4, <2>5
<1>4. L \in A
  <2>1. \A n \in 0..(L - 1) : n \in A => n + 1 \in A
    BY <1>3
  <2> HIDE DEF A, L
  <2>2. 0..L \subseteq A
    BY <1>1, <1>2, <2>1, BoundedInduction
  <2> QED
    BY <1>1, <2>2
<1>5. (L + 1 - L) = 1
  BY <1>1
<1>6. \E f : f = [i \in 1..(L + 1) |-> SplitBody(bytes, f, i)]
  <2> HIDE DEF L
  <2> QED
    BY <1>4, <1>5
<1> DEFINE from == CHOOSE f : f = [i \in 1..(L + 1) |-> SplitBody(bytes, f, i)]
<1>7. from = [i \in 1..(L + 1) |-> SplitBody(bytes, from, i)]
  BY <1>6
<1>8. SplitCommands(bytes) = from[1]
  BY DEF SplitCommands, SplitBody
<1> HIDE DEF from
<1> QED
  BY <1>7, <1>8 DEF Walks

(* Text t lies from a on, and a NUL is behind it.                          *)
TextAt(bytes, a, t) ==
  /\ a + Len(t) <= Len(bytes) /\ bytes[a + Len(t)] = Nul
  /\ \A i \in 1..Len(t) : bytes[a + i - 1] = t[i] /\ t[i] # Nul

TextsAt(bytes, p, cs, d, k) ==
  /\ p \in [d..k -> Nat \ {0}] /\ p[k] = Len(bytes) + 1
  /\ \A j \in (d + 1)..k :
       cs[j] # <<>> /\ p[j] = p[j - 1] + Len(cs[j]) + 1 /\ TextAt(bytes, p[j - 1], cs[j])

LEMMA TextFound ==
  ASSUME NEW bytes \in Seq(Nat), bytes # <<>>, bytes[Len(bytes)] = Nul,
         NEW t \in Seq(Nat), t # <<>>, NEW a \in Nat \ {0}, TextAt(bytes, a, t)
  PROVE  /\ a \in 1..Len(bytes) /\ bytes[a] # Nul /\ NextNul(bytes, a) = a + Len(t)
         /\ SubSeq(bytes, a, NextNul(bytes, a) - 1) = t
<1> DEFINE L == Len(bytes)
           n == Len(t)
           e == NextNul(bytes, a)
<1>1. L \in Nat /\ n \in Nat /\ n >= 1 /\ a + n <= L /\ a \in 1..L
  BY DEF TextAt
<1>2. bytes[a + n] = Nul /\ \A i \in 1..n : bytes[a + i - 1] = t[i] /\ t[i] # Nul
  BY DEF TextAt
<1>3. e \in a..L /\ bytes[e] = Nul /\ \A x \in a..(e - 1) : bytes[x] # Nul
  BY <1>1, NextNulIs
<1> HIDE DEF e
<1>4. ASSUME NEW x \in a..(a + n - 1) PROVE bytes[x] # Nul
  <2>1. x - a + 1 \in 1..n /\ a + (x - a + 1) - 1 = x
    BY <1>1
  <2> HIDE DEF n
  <2> QED
    BY <1>2, <2>1
<1>5. e = a + n
  <2>1. ~(e < a + n)
    BY <1>1, <1>3, <1>4
  <2>2. ~(a + n < e)
    BY <1>1, <1>2, <1>3
  <2> HIDE DEF n, L
  <2>3. e \in Int /\ a + n \in Int
    BY <1>1, <1>3
  <2> QED
    BY <2>1, <2>2, <2>3
<1>6. SubSeq(bytes, a, a + n - 1) = t
  <2> DEFINE u == SubSeq(bytes, a, a + n - 1)
  <2>1. u \in Seq(Nat) /\ Len(u) = n /\ \A i \in 1..n : u[i] = bytes[a + i - 1]
    BY <1>1
  <2> HIDE DEF u
  <2>2. t \in Seq(Nat) /\ Len(u) = Len(t) /\ \A i \in 1..Len(u) : u[i] = t[i]
    BY <1>2, <2>1
  <2>3. u = t
    BY <2>1, <2>2, SeqEqual
  <2> QED
    BY <2>3 DEF u
<1>7. e - 1 = a + n - 1
  BY <1>1, <1>5
<1>8. bytes[a] # Nul
  BY <1>1, <1>4
<1> QED
  BY <1>1, <1>5, <1>6, <1>7, <1>8 DEF e

(* Texts that lie one behind the other, each followed by a NUL, are what   *)
(* the loop finds.                                                         *)
LEMMA SplitFinds ==
  ASSUME NEW bytes \in Seq(Nat), bytes # <<>>, bytes[Len(bytes)] = Nul,
         NEW f, Walks(f, bytes), NEW cs \in Seq(Seq(Nat)),
         NEW k \in 0..Len(cs), NEW d \in 0..k, NEW p, TextsAt(bytes, p, cs, d, k)
  PROVE  f[p[d]] = SubSeq(cs, d + 1, k)
<1> DEFINE m == k - d
           A == {n \in 0..m : f[p[k - n]] = SubSeq(cs, k - n + 1, k)}
<1>1. m \in Nat /\ k \in Nat /\ d \in Nat /\ k <= Len(cs)
  OBVIOUS
<1>2. 0 \in A
  <2>1. f[p[k]] = <<>>
    <3>1. p[k] = Len(bytes) + 1
      BY DEF TextsAt
    <3>2. Len(bytes) + 1 \in 1..(Len(bytes) + 1) /\ Len(bytes) + 1 > Len(bytes)
      OBVIOUS
    <3>3. f[Len(bytes) + 1] = SplitBody(bytes, f, Len(bytes) + 1)
      BY <3>2 DEF Walks
    <3> QED
      BY <3>1, <3>2, <3>3 DEF SplitBody
  <2>2. SubSeq(cs, k + 1, k) = <<>>
    BY <1>1
  <2>3. k - 0 = k /\ k - 0 + 1 = k + 1 /\ 0 \in 0..m
    BY <1>1
  <2> QED
    BY <2>1, <2>2, <2>3
<1>3. ASSUME NEW n \in 0..(m - 1), n \in A PROVE n + 1 \in A
  <2>1. PICK j : j = k - n
    OBVIOUS
  <2>2. j \in (d + 1)..k /\ j - 1 \in d..k /\ j \in 1..Len(cs) /\ j \in Nat
        /\ k - (n + 1) = j - 1 /\ (j - 1) + 1 = j /\ n + 1 \in 0..m
    BY <1>1, <1>3, <2>1
  <2>3. f[p[j]] = SubSeq(cs, j + 1, k)
    BY <1>3, <2>1
  <2> HIDE DEF m, A
  <2>4. /\ p[j - 1] \in Nat \ {0} /\ cs[j] \in Seq(Nat) /\ cs[j] # <<>>
        /\ p[j] = p[j - 1] + Len(cs[j]) + 1 /\ TextAt(bytes, p[j - 1], cs[j])
    BY <2>2, SMTT(20) DEF TextsAt
  <2>5. PICK a, t : a = p[j - 1] /\ t = cs[j]
    OBVIOUS
  <2>6. /\ a \in 1..Len(bytes) /\ bytes[a] # Nul /\ NextNul(bytes, a) = a + Len(t)
        /\ SubSeq(bytes, a, NextNul(bytes, a) - 1) = t
    BY <2>4, <2>5, TextFound
  <2>7. f[a] = SplitBody(bytes, f, a) /\ ~(a > Len(bytes))
    BY <2>6 DEF Walks
  <2>8. f[a] = <<SubSeq(bytes, a, NextNul(bytes, a) - 1)>> \o f[NextNul(bytes, a) + 1]
    BY <2>6, <2>7 DEF SplitBody
  <2>9. f[a] = <<t>> \o SubSeq(cs, j + 1, k)
    BY <2>3, <2>4, <2>5, <2>6, <2>8
  <2>10. SubSeq(cs, j, k) = <<t>> \o SubSeq(cs, j + 1, k)
    BY <1>1, <2>2, <2>5
  <2>11. f[p[k - (n + 1)]] = SubSeq(cs, k - (n + 1) + 1, k)
    BY <2>2, <2>5, <2>9, <2>10
  <2> QED
    BY <2>2, <2>11 DEF A
<1>4. m \in A
  <2>1. \A n \in 0..(m - 1) : n \in A => n + 1 \in A
    BY <1>3
  <2> HIDE DEF A, m
  <2>2. 0..m \subseteq A
    BY <1>1, <1>2, <2>1, BoundedInduction
  <2> QED
    BY <1>1, <2>2
<1>5. k - m = d /\ k - m + 1 = d + 1
  BY <1>1
<1> HIDE DEF m
<1> QED
  BY <1>4, <1>5

LEMMA TrimmedIs ==
  ASSUME NEW bytes \in Seq(Nat), NEW e \in 1..Len(bytes), e = 1 \/ bytes[e] # Nul,
         \A i \in (e + 1)..Len(bytes) : bytes[i] = Nul
  PROVE  Trimmed(bytes) = SubSeq(bytes, 1, e)
<1> DEFINE T == {1} \union {i \in 1..Len(bytes) : bytes[i] # Nul}
<1>1. e \in T /\ \A x \in T : e >= x /\ x \in Int
  OBVIOUS
<1>2. Max(T) = e
  <2> HIDE DEF T
  <2>1. \A x \in T : (\A y \in T : x >= y) => x = e
    BY <1>1
  <2> QED
    BY <1>1, <2>1 DEF Max
<1> QED
  BY <1>2 DEF Trimmed

-----------------------------------------------------------------------------
(* Where the commands from d + 1 on are in the bytes w that have not been  *)
(* processed: command k ends at o[k], its NUL included.  The NUL of        *)
(* command d may be still there.                                           *)

AreTexts(cs) ==
  /\ cs \in Seq(Seq(Nat))
  /\ \A k \in 1..Len(cs) : cs[k] # <<>> /\ \A i \in 1..Len(cs[k]) : cs[k][i] = k

Gap(t) == IF t THEN 1 ELSE 0

Laid(w, cs, t, o, d) ==
  /\ d \in 0..Len(cs) /\ o \in [d..Len(cs) -> Nat]
  /\ o[d] = 0 \/ (t /\ o[d] = 1)
  /\ o[Len(cs)] = Len(w)
  /\ \A k \in (d + 1)..Len(cs) :
       /\ o[k] = o[k - 1] + Len(cs[k]) + Gap(t)
       /\ \A i \in 1..Len(cs[k]) : w[o[k - 1] + i] = k
  /\ t => \A k \in d..Len(cs) : o[k] > 0 => w[o[k]] = Nul
  /\ ~t => Len(cs) <= d + 1

LEMMA LaidGrows ==
  ASSUME NEW w, NEW cs, AreTexts(cs), NEW t \in BOOLEAN, NEW o, NEW d, Laid(w, cs, t, o, d)
  PROVE  \A k \in d..Len(cs) : \A j \in d..k : o[j] <= o[k]
<1> DEFINE n == Len(cs)
           A == {x \in 0..(n - d) : \A j \in d..(d + x) : o[j] <= o[d + x]}
<1>1. n \in Nat /\ d \in 0..n /\ o \in [d..n -> Nat] /\ n - d \in Nat
  BY DEF AreTexts, Laid
<1>2. 0 \in A
  BY <1>1
<1>3. ASSUME NEW x \in 0..(n - d - 1), x \in A PROVE x + 1 \in A
  <2>1. PICK k : k = d + x
    OBVIOUS
  <2>2. k \in d..n /\ k + 1 \in (d + 1)..n /\ k + 1 \in d..n /\ k + 1 \in 1..n
        /\ (k + 1) - 1 = k /\ d + (x + 1) = k + 1 /\ x + 1 \in 0..(n - d)
    BY <1>1, <2>1
  <2>3. o[k + 1] = o[k] + Len(cs[k + 1]) + Gap(t)
    BY <2>2 DEF Laid
  <2>4. Len(cs[k + 1]) \in Nat /\ Gap(t) \in Nat
    BY <2>2 DEF AreTexts, Gap
  <2>5. o[k] <= o[k + 1] /\ o[k] \in Nat /\ o[k + 1] \in Nat
    BY <1>1, <2>2, <2>3, <2>4
  <2>6. \A j \in d..k : o[j] <= o[k] /\ o[j] \in Nat
    BY <1>1, <1>3, <2>1
  <2>7. \A j \in d..(k + 1) : j = k + 1 \/ j \in d..k
    BY <1>1, <2>2
  <2>8. \A j \in d..(k + 1) : o[j] <= o[k + 1]
    BY <2>5, <2>6, <2>7
  <2> QED
    BY <2>2, <2>8
<1>4. 0..(n - d) \subseteq A
  <2>1. \A x \in 0..(n - d - 1) : x \in A => x + 1 \in A
    BY <1>3
  <2>2. n - d - 1 = (n - d) - 1
    BY <1>1
  <2> HIDE DEF A, n
  <2> QED
    BY <1>1, <1>2, <2>1, <2>2, BoundedInduction
<1>5. ASSUME NEW k \in d..n, NEW j \in d..k PROVE o[j] <= o[k]
  <2>1. k - d \in 0..(n - d) /\ d + (k - d) = k
    BY <1>1
  <2>2. k - d \in A
    BY <1>4, <2>1
  <2> HIDE DEF n
  <2> QED
    BY <2>1, <2>2
<1> QED
  BY <1>5

(* A recv that does not end inside of a command ends behind one, or        *)
(* between it and its NUL.                                                 *)
EndsAt(o, d, t, L, k) == L = o[k] \/ (t /\ k > d /\ L = o[k] - 1)

LEMMA LaidFind ==
  ASSUME NEW w \in Seq(Nat), NEW cs, AreTexts(cs), NEW t \in BOOLEAN, NEW o, NEW d,
         Laid(w, cs, t, o, d), NEW L \in 1..Len(w),
         L < Len(w) => (w[L] = Nul \/ w[L + 1] # w[L])
  PROVE  \E k \in d..Len(cs) : EndsAt(o, d, t, L, k)
<1> DEFINE n == Len(cs)
           T == {k \in d..n : o[k] < L}
<1>1. n \in Nat /\ d \in 0..n /\ o \in [d..n -> Nat] /\ o[n] = Len(w) /\ d \in d..n
  BY DEF AreTexts, Laid
<1>2. CASE T = {}
  <2>1. ~(o[d] < L)
    BY <1>1, <1>2
  <2>2. o[d] \in {0, 1}
    BY DEF Laid
  <2> QED
    BY <1>1, <2>1, <2>2 DEF EndsAt
<1>3. CASE T # {}
  <2>1. T \in SUBSET (0..n)
    BY <1>1
  <2>2. PICK j \in T : \A x \in T : x <= j
    <3> HIDE DEF T, n
    <3> QED
      BY <1>1, <1>3, <2>1, LargestIsThere
  <2>3. j \in d..n /\ o[j] < L /\ j # n
    BY <1>1, <2>2
  <2>4. PICK k : k = j + 1
    OBVIOUS
  <2>5. k \in (d + 1)..n /\ k \in d..n /\ k \in 1..n /\ k - 1 = j /\ k > d /\ k \in Nat
    BY <1>1, <2>3, <2>4
  <2>6. ~(k <= j)
    BY <1>1, <2>3, <2>4
  <2>7. ~(o[k] < L)
    BY <2>2, <2>5, <2>6
  <2>8. PICK len : len = Len(cs[k])
    OBVIOUS
  <2>9. len \in Nat /\ len >= 1
    BY <2>5, <2>8 DEF AreTexts
  <2>10. o[k] = o[j] + len + Gap(t) /\ \A i \in 1..len : w[o[j] + i] = k
    BY <2>5, <2>8 DEF Laid
  <2> HIDE DEF T, n
  <2>11. o[j] \in Nat /\ o[k] \in Nat /\ Gap(t) \in {0, 1}
    BY <1>1, <2>3, <2>5 DEF Gap
  <2>12. ~(L - o[j] < len)
    <3> SUFFICES ASSUME L - o[j] < len PROVE FALSE
      OBVIOUS
    <3>0. L \in Nat /\ L <= Len(w) /\ Len(w) \in Nat
      OBVIOUS
    <3>1. PICK i : i = L - o[j]
      OBVIOUS
    <3>10. i \in Int /\ i >= 1 /\ i < len /\ o[j] + i = L
      BY <2>3, <2>11, <3>0, <3>1
    <3>2. i \in 1..len /\ i + 1 \in 1..len /\ o[j] + i = L /\ o[j] + (i + 1) = L + 1
      BY <2>9, <2>11, <3>0, <3>10, SMTT(20)
    <3>3. w[L] = k /\ w[L + 1] = k
      BY <2>10, <3>2
    <3>4. k # Nul
      BY <2>5 DEF Nul
    <3>5. o[k] <= Len(w)
      <4>1. n \in d..n /\ k \in d..n
        BY <1>1, <2>5
      <4> QED
        BY <1>1, <4>1, LaidGrows, SMTT(20) DEF n
    <3>6. L < Len(w)
      BY <2>9, <2>10, <2>11, <3>2, <3>5, SMTT(20)
    <3> QED
      BY <3>3, <3>4, <3>6
  <2>13. L \in Nat
    OBVIOUS
  <2>14. PICK x, y, g : x = o[j] /\ y = o[k] /\ g = Gap(t)
    OBVIOUS
  <2>15. /\ x \in Nat /\ y \in Nat /\ g \in {0, 1} /\ x < L /\ ~(y < L)
         /\ y = x + len + g /\ ~(L - x < len)
    BY <2>3, <2>7, <2>10, <2>11, <2>12, <2>14
  <2>16. L = y \/ (L = y - 1 /\ g = 1)
    BY <2>9, <2>13, <2>15
  <2>17. Gap(t) = 1 => t
    BY DEF Gap
  <2> QED
    BY <2>5, <2>14, <2>16, <2>17 DEF n, EndsAt
<1> QED
  BY <1>2, <1>3

(* What the loop finds up to there is the commands up to there.            *)
FindsUpTo(w, cs, d, L, k) == CommandsIn(SubSeq(w, 1, L)) = SubSeq(cs, d + 1, k)

LEMMA LaidSplit ==
  ASSUME NEW w \in Seq(Nat), NEW cs, AreTexts(cs), NEW t \in BOOLEAN, NEW o, NEW d,
         Laid(w, cs, t, o, d), NEW L \in 1..Len(w), NEW k \in d..Len(cs),
         EndsAt(o, d, t, L, k)
  PROVE  FindsUpTo(w, cs, d, L, k)
<1> DEFINE n == Len(cs)
           b == SubSeq(w, 1, L)
<1>1. /\ n \in Nat /\ d \in 0..n /\ o \in [d..n -> Nat] /\ o[n] = Len(w)
      /\ (o[d] = 0 \/ (t /\ o[d] = 1))
      /\ k \in Nat /\ cs \in Seq(Seq(Nat)) /\ L \in Nat /\ L >= 1 /\ L <= Len(w)
  BY DEF AreTexts, Laid
<1>2. b \in Seq(Nat) /\ Len(b) = L /\ \A i \in 1..L : b[i] = w[i]
  BY <1>1
<1>3. CASE k = d
  <2>1. L = 1 /\ t /\ o[d] = 1
    BY <1>1, <1>3 DEF Laid, EndsAt
  <2>2. w[1] = Nul
    BY <1>1, <2>1 DEF Laid
  <2>3. b \in Seq(Nat) /\ Len(b) = 1 /\ b[1] = Nul
    BY <1>2, <2>1, <2>2
  <2> HIDE DEF b
  <2>4. Trimmed(b) = SubSeq(b, 1, 1)
    <3>1. 1 \in 1..Len(b) /\ \A i \in (1 + 1)..Len(b) : b[i] = Nul
      BY <2>3
    <3> QED
      BY <2>3, <3>1, TrimmedIs
  <2> DEFINE c == Append(Trimmed(b), Nul)
  <2>5. c \in Seq(Nat) /\ Len(c) = 2 /\ c[1] = Nul /\ c[2] = Nul
    BY <2>3, <2>4 DEF Nul
  <2> HIDE DEF c
  <2>10. c # <<>> /\ c[Len(c)] = Nul
    <3>1. c[Len(c)] = Nul
      BY <2>5, Zenon
    <3>2. c # <<>>
      <4>1. Len(<<>>) = 0 /\ 0 # 2
        OBVIOUS
      <4> QED
        BY <2>5, <4>1, Zenon
    <3> QED
      BY <3>1, <3>2, Zenon
  <2>6. PICK f : Walks(f, c) /\ SplitCommands(c) = f[1]
    BY <2>5, <2>10, SplitIs
  <2>7. f[1] = f[2] /\ f[2] = f[3] /\ f[3] = <<>>
    <3>1. \A i \in 1..3 : f[i] = SplitBody(c, f, i)
      BY <2>5, <2>6 DEF Walks
    <3>2. f[1] = SplitBody(c, f, 1) /\ f[2] = SplitBody(c, f, 2) /\ f[3] = SplitBody(c, f, 3)
      BY <3>1
    <3> QED
      BY <2>5, <3>2 DEF SplitBody
  <2>8. SubSeq(cs, d + 1, k) = <<>>
    BY <1>1, <1>3
  <2>9. CommandsIn(b) = SplitCommands(c)
    BY DEF CommandsIn, c
  <2> QED
    BY <2>6, <2>7, <2>8, <2>9 DEF b, FindsUpTo
<1>4. CASE k # d
  <2>1. k \in (d + 1)..n /\ k - 1 \in d..n /\ k > d /\ k \in 1..n
    BY <1>1, <1>4
  <2>2. PICK a, len, g : a = o[k - 1] /\ len = Len(cs[k]) /\ g = Gap(t)
    OBVIOUS
  <2>3. a \in Nat /\ len \in Nat /\ len >= 1 /\ g \in {0, 1} /\ (g = 1 => t) /\ (t => g = 1)
    <3>1. a \in Nat
      BY <1>1, <2>1, <2>2
    <3>2. len \in Nat /\ len >= 1
      BY <1>1, <2>1, <2>2, SMTT(20) DEF AreTexts
    <3>3. g \in {0, 1} /\ (g = 1 => t) /\ (t => g = 1)
      BY <2>2 DEF Gap
    <3> QED
      BY <3>1, <3>2, <3>3
  <2>4. o[k] = a + len + g /\ \A i \in 1..len : w[a + i] = k
    BY <2>1, <2>2 DEF Laid
  <2>5. PICK e : e = a + len
    OBVIOUS
  <2>6. e \in 1..L /\ e \in Nat /\ (L = e \/ (t /\ L = e + 1 /\ L = o[k]))
    <3>1. L = o[k] \/ (t /\ L = o[k] - 1)
      BY DEF EndsAt
    <3>2. PICK y : y = o[k]
      OBVIOUS
    <3>3. y = e + g /\ e \in Nat /\ e >= 1
      BY <2>3, <2>4, <2>5, <3>2
    <3>4. L = y \/ (L = y - 1 /\ g = 1)
      BY <2>3, <3>1, <3>2
    <3>5. L = e \/ (L = e + 1 /\ L = y /\ g = 1)
      BY <1>1, <2>3, <3>3, <3>4
    <3>6. e <= L
      BY <1>1, <3>3, <3>5
    <3>7. e \in 1..L
      BY <1>1, <3>3, <3>6
    <3> QED
      BY <2>3, <3>2, <3>3, <3>5, <3>7
  <2>7. w[e] = k /\ k # Nul
    <3>1. len \in 1..len
      BY <2>3
    <3>2. w[a + len] = k
      BY <2>4, <3>1
    <3>3. k # 0
      BY <1>1, <2>1
    <3> QED
      BY <2>5, <3>2, <3>3 DEF Nul
  <2>8. b[e] # Nul /\ \A i \in (e + 1)..Len(b) : b[i] = Nul
    <3>1. b[e] = w[e]
      BY <1>2, <2>6
    <3>2. CASE L = e
      BY <1>2, <2>6, <2>7, <3>1, <3>2
    <3>3. CASE t /\ L = e + 1 /\ L = o[k]
      <4>1. w[L] = Nul
        BY <1>1, <2>1, <3>3 DEF Laid
      <4>2. b[L] = Nul
        BY <1>1, <1>2, <4>1
      <4>3. \A i \in (e + 1)..Len(b) : i = L
        BY <1>1, <1>2, <2>6, <3>3
      <4> HIDE DEF b
      <4> QED
        BY <2>7, <3>1, <4>2, <4>3
    <3> QED
      BY <2>6, <3>2, <3>3
  <2> HIDE DEF b
  <2>9. Trimmed(b) = SubSeq(b, 1, e)
    BY <1>2, <2>6, <2>8, TrimmedIs
  <2> DEFINE c == Append(Trimmed(b), Nul)
  <2>10. c \in Seq(Nat) /\ Len(c) = e + 1 /\ c[e + 1] = Nul /\ \A i \in 1..e : c[i] = w[i]
    <3>1. SubSeq(b, 1, e) \in Seq(Nat) /\ Len(SubSeq(b, 1, e)) = e
          /\ \A i \in 1..e : SubSeq(b, 1, e)[i] = b[i]
      BY <1>2, <2>6
    <3>2. PICK u : u = SubSeq(b, 1, e)
      OBVIOUS
    <3>3. c = Append(u, Nul)
      BY <2>9, <3>2
    <3> HIDE DEF c
    <3>4. c \in Seq(Nat) /\ Len(c) = e + 1 /\ c[e + 1] = Nul /\ \A i \in 1..e : c[i] = u[i]
      BY <2>6, <3>1, <3>2, <3>3 DEF Nul
    <3>5. \A i \in 1..e : u[i] = b[i] /\ i \in 1..L
      BY <1>1, <2>6, <3>1, <3>2
    <3> QED
      BY <1>2, <3>4, <3>5
  <2> HIDE DEF c
  <2>11. PICK f : Walks(f, c) /\ SplitCommands(c) = f[1]
    BY <2>6, <2>10, SplitIs
  <2> DEFINE p == [j \in d..k |-> IF j = k THEN e + 2 ELSE o[j] + 1]
  <2>12. TextsAt(c, p, cs, d, k)
    <3>1. p \in [d..k -> Nat \ {0}] /\ p[k] = Len(c) + 1
      <4>1. ASSUME NEW j \in d..k PROVE (IF j = k THEN e + 2 ELSE o[j] + 1) \in Nat \ {0}
        <5>1. o[j] \in Nat
          <6>1. j \in d..n
            BY <1>1, <2>1
          <6> QED
            BY <1>1, <6>1
        <5> QED
          BY <2>6, <5>1
      <4>2. k \in d..k /\ e + 2 = (e + 1) + 1
        BY <1>1, <2>1, <2>6
      <4> QED
        BY <2>10, <4>1, <4>2
    <3>2. ASSUME NEW j \in (d + 1)..k
          PROVE  cs[j] # <<>> /\ p[j] = p[j - 1] + Len(cs[j]) + 1 /\ TextAt(c, p[j - 1], cs[j])
      <4>1. j \in (d + 1)..n /\ j - 1 \in d..k /\ j - 1 # k /\ j \in d..k /\ j \in d..n
            /\ j \in 1..n /\ j - 1 \in d..n /\ j \in Nat
        BY <1>1
      <4>2. PICK x, m : x = o[j - 1] /\ m = Len(cs[j])
        OBVIOUS
      <4>3. x \in Nat /\ m \in Nat /\ m >= 1 /\ cs[j] # <<>> /\ \A i \in 1..m : cs[j][i] = j
        <5>1. x \in Nat
          BY <1>1, <4>1, <4>2
        <5>2. cs[j] \in Seq(Nat) /\ cs[j] # <<>> /\ \A i \in 1..m : cs[j][i] = j
          BY <1>1, <4>1, <4>2 DEF AreTexts
        <5> QED
          BY <4>2, <5>1, <5>2, SMTT(20)
      <4>4. p[j - 1] = x + 1 /\ o[j] = x + m + g /\ \A i \in 1..m : w[x + i] = j
        BY <2>2, <4>1, <4>2 DEF Laid
      <4>5. p[j] = x + m + 2 /\ x + m <= e /\ c[x + m + 1] = Nul
        <5>1. CASE j = k
          <6>1. x = a /\ m = len
            BY <2>2, <4>2, <5>1
          <6>2. p[j] = e + 2
            BY <4>1, <5>1
          <6> HIDE DEF p
          <6> QED
            BY <2>3, <2>5, <2>6, <2>10, <6>1, <6>2
        <5>2. CASE j # k
          <6>1. k - 1 \in d..n /\ j \in d..(k - 1)
            BY <1>1, <2>1, <4>1, <5>2
          <6>2. o[j] <= a /\ o[j] \in Nat
            BY <1>1, <2>2, <4>1, <6>1, LaidGrows
          <6>3. ~(n <= d + 1)
            BY <1>1, <4>1, <6>1
          <6>4. t
            BY <6>3 DEF Laid
          <6>5. g = 1
            BY <2>3, <6>4
          <6>6. p[j] = o[j] + 1 /\ o[j] = x + m + 1
            BY <4>1, <4>4, <5>2, <6>5
          <6>9. o[j] > 0 /\ j \in d..n
            BY <4>1, <4>3, <6>6
          <6>7. w[o[j]] = Nul
            BY <6>4, <6>9 DEF Laid
          <6> HIDE DEF p
          <6>8. x + m + 1 \in 1..e
            BY <2>3, <2>5, <4>3, <6>2, <6>6, SMTT(20)
          <6>10. c[x + m + 1] = w[x + m + 1] /\ w[x + m + 1] = Nul
            BY <2>10, <6>6, <6>7, <6>8
          <6>11. p[j] = x + m + 2 /\ x + m <= e
            BY <2>6, <4>3, <6>6, <6>8
          <6> QED
            BY <6>10, <6>11
        <5> QED
          BY <5>1, <5>2
      <4> HIDE DEF p
      <4>6. ASSUME NEW i \in 1..m PROVE c[p[j - 1] + i - 1] = cs[j][i] /\ cs[j][i] # Nul
        <5>1. p[j - 1] + i - 1 = x + i
          BY <4>3, <4>4
        <5>2. x + i \in 1..e
          BY <2>6, <4>3, <4>5
        <5>4. c[x + i] = w[x + i] /\ w[x + i] = j
          BY <2>10, <4>4, <5>2
        <5>3. c[x + i] = j /\ cs[j][i] = j /\ j # Nul
          BY <4>1, <4>3, <5>4 DEF Nul
        <5> QED
          BY <5>1, <5>3
      <4>7. p[j - 1] + m = x + m + 1 /\ p[j - 1] + m <= Len(c)
        BY <2>6, <2>10, <4>3, <4>4, <4>5
      <4>8. TextAt(c, p[j - 1], cs[j])
        BY <4>2, <4>5, <4>6, <4>7 DEF TextAt
      <4>9. p[j] = p[j - 1] + m + 1
        BY <4>3, <4>4, <4>5
      <4> QED
        BY <4>2, <4>3, <4>8, <4>9
    <3> HIDE DEF p
    <3> QED
      BY <3>1, <3>2 DEF TextsAt
  <2>13. f[p[d]] = SubSeq(cs, d + 1, k)
    <3>1. c # <<>> /\ c[Len(c)] = Nul
      BY <2>6, <2>10
    <3>2. k \in 0..Len(cs) /\ d \in 0..k /\ cs \in Seq(Seq(Nat))
      BY <1>1, <2>1
    <3>3. Walks(f, c) /\ c \in Seq(Nat)
      BY <2>10, <2>11
    <3> HIDE DEF p, n
    <3>4. PICK bytes, q : bytes = c /\ q = p
      OBVIOUS
    <3>5. TextsAt(bytes, q, cs, d, k) /\ bytes # <<>> /\ bytes[Len(bytes)] = Nul /\ Walks(f, bytes)
          /\ bytes \in Seq(Nat)
      BY <2>12, <3>1, <3>3, <3>4
    <3>6. f[q[d]] = SubSeq(cs, d + 1, k)
      BY <3>2, <3>5, SplitFinds, SMTT(30)
    <3> QED
      BY <3>4, <3>6
  <2>14. p[d] = o[d] + 1
    BY <1>1, <1>4
  <2> HIDE DEF p
  <2>15. f[1] = f[p[d]]
    <3>1. CASE o[d] = 0
      BY <2>14, <3>1
    <3>2. CASE o[d] # 0
      <4>1. o[d] = 1 /\ t
        BY <1>1, <3>2
      <4>2. w[1] = Nul
        <5>1. d \in d..n
          BY <1>1
        <5>2. w[o[d]] = Nul
          BY <4>1, <5>1 DEF Laid
        <5> QED
          BY <4>1, <5>2
      <4>3. c[1] = Nul
        BY <2>6, <2>10, <4>2
      <4>4. 1 \in 1..(Len(c) + 1) /\ ~(1 > Len(c))
        BY <2>6, <2>10
      <4>5. f[1] = SplitBody(c, f, 1)
        BY <2>11, <4>4 DEF Walks
      <4>6. f[1] = f[2]
        BY <4>3, <4>4, <4>5 DEF SplitBody
      <4> QED
        BY <2>14, <4>1, <4>6
    <3> QED
      BY <3>1, <3>2
  <2>16. CommandsIn(b) = SplitCommands(c)
    BY DEF CommandsIn, c
  <2> QED
    BY <2>11, <2>13, <2>15, <2>16 DEF b, FindsUpTo
<1> QED
  BY <1>3, <1>4

(* The commands behind it lie in what is left, and nothing else.           *)
LEMMA LaidRest ==
  ASSUME NEW w \in Seq(Nat), NEW cs, AreTexts(cs), NEW t \in BOOLEAN, NEW o, NEW d,
         Laid(w, cs, t, o, d), NEW L \in 1..Len(w), NEW k \in d..Len(cs),
         EndsAt(o, d, t, L, k)
  PROVE  Laid(SubSeq(w, L + 1, Len(w)), cs, t, [j \in k..Len(cs) |-> o[j] - L], k)
<1> DEFINE n == Len(cs)
           r == SubSeq(w, L + 1, Len(w))
           q == [j \in k..n |-> o[j] - L]
<1>1. /\ n \in Nat /\ d \in 0..n /\ o \in [d..n -> Nat] /\ o[n] = Len(w)
      /\ k \in 0..n /\ k \in Nat /\ L \in Nat /\ L >= 1 /\ L <= Len(w) /\ Len(w) \in Nat
  BY DEF AreTexts, Laid
<1>2. r \in Seq(Nat) /\ Len(r) = Len(w) - L /\ \A i \in 1..(Len(w) - L) : r[i] = w[L + i]
  <2>1. L + 1 \in 1..(Len(w) + 1)
    BY <1>1
  <2> QED
    BY <1>1, <2>1
<1>3. L = o[k] \/ (t /\ L = o[k] - 1)
  BY DEF EndsAt
<1>4. ASSUME NEW j \in k..n
      PROVE  j \in d..n /\ o[j] \in Nat /\ L <= o[j] /\ o[j] <= Len(w)
  <2>1. j \in d..n /\ k \in d..j /\ n \in d..n /\ j \in d..n /\ k \in d..n
    BY <1>1
  <2>2. o[k] <= o[j] /\ o[j] <= o[n] /\ o[j] \in Nat /\ o[k] \in Nat
    BY <1>1, <2>1, LaidGrows
  <2>3. PICK y : y = o[k]
    OBVIOUS
  <2>4. L <= y
    BY <1>1, <1>3, <2>2, <2>3
  <2> QED
    BY <1>1, <2>1, <2>2, <2>3, <2>4
<1>5. q \in [k..n -> Nat] /\ \A j \in k..n : q[j] = o[j] - L
  <2>1. ASSUME NEW j \in k..n PROVE o[j] - L \in Nat
    BY <1>1, <1>4
  <2> QED
    BY <2>1
<1> HIDE DEF q, r
<1>6. k \in 0..n /\ (q[k] = 0 \/ (t /\ q[k] = 1)) /\ q[n] = Len(r)
  <2>1. k \in k..n /\ n \in k..n /\ k \in d..n
    BY <1>1
  <2>2. q[k] = o[k] - L /\ q[n] = Len(w) - L /\ o[k] \in Nat
    BY <1>1, <1>5, <2>1
  <2>3. L = o[k] => q[k] = 0
    BY <1>1, <2>2
  <2>4. L = o[k] - 1 => q[k] = 1
    BY <1>1, <2>2
  <2> QED
    BY <1>1, <1>2, <1>3, <2>2, <2>3, <2>4
<1>7. ASSUME NEW j \in (k + 1)..n
      PROVE  /\ q[j] = q[j - 1] + Len(cs[j]) + Gap(t)
             /\ \A i \in 1..Len(cs[j]) : r[q[j - 1] + i] = j
  <2>1. j \in (d + 1)..n /\ j - 1 \in k..n /\ j \in k..n /\ j \in 1..n
    BY <1>1
  <2>2. PICK x, y, m, g : x = o[j - 1] /\ y = o[j] /\ m = Len(cs[j]) /\ g = Gap(t)
    OBVIOUS
  <2>3. x \in Nat /\ y \in Nat /\ L <= x /\ y <= Len(w) /\ q[j - 1] = x - L /\ q[j] = y - L
    BY <1>4, <1>5, <2>1, <2>2
  <2>4. y = x + m + g /\ \A i \in 1..m : w[x + i] = j
    BY <2>1, <2>2 DEF Laid
  <2>5. m \in Nat /\ g \in Nat
    BY <1>1, <2>1, <2>2 DEF AreTexts, Gap
  <2>6. ASSUME NEW i \in 1..m PROVE r[q[j - 1] + i] = j
    <3>1. x - L + i \in 1..(Len(w) - L) /\ L + (x - L + i) = x + i
      BY <1>1, <2>3, <2>4, <2>5
    <3>2. r[x - L + i] = w[x + i]
      BY <1>2, <3>1
    <3> QED
      BY <2>3, <2>4, <3>2
  <2>7. q[j] = q[j - 1] + m + g
    BY <1>1, <2>3, <2>4, <2>5
  <2> QED
    BY <2>2, <2>6, <2>7
<1>8. ASSUME t, NEW j \in k..n, q[j] > 0 PROVE r[q[j]] = Nul
  <2>1. q[j] = o[j] - L /\ j \in d..n /\ o[j] \in Nat /\ o[j] <= Len(w)
    BY <1>4, <1>5
  <2>2. q[j] \in 1..(Len(w) - L) /\ L + q[j] = o[j] /\ o[j] > 0
    <3>1. PICK x, y : x = q[j] /\ y = o[j]
      OBVIOUS
    <3>2. x = y - L /\ y \in Nat /\ y <= Len(w) /\ x > 0
      BY <1>8, <2>1, <3>1
    <3>3. x \in 1..(Len(w) - L) /\ L + x = y /\ y > 0
      BY <1>1, <3>2
    <3> QED
      BY <3>1, <3>3
  <2>3. w[o[j]] = Nul
    BY <1>8, <2>1, <2>2 DEF Laid
  <2> QED
    BY <1>2, <2>2, <2>3
<1>9. ~t => n <= k + 1
  <2>1. ~t => n <= d + 1
    BY DEF Laid
  <2> QED
    BY <1>1, <2>1
<1>10. q \in [k..Len(cs) -> Nat]
  BY <1>5
<1>11. Laid(r, cs, t, q, k)
  BY <1>6, <1>7, <1>8, <1>9, <1>10 DEF Laid
<1> QED
  BY <1>11 DEF q, r

(* The next command lies behind the others.                                *)
LEMMA LaidMore ==
  ASSUME NEW w \in Seq(Nat), NEW cs, AreTexts(cs), NEW t \in BOOLEAN, NEW o, NEW d,
         Laid(w, cs, t, o, d), t \/ d = Len(cs),
         NEW c \in Seq(Nat), c # <<>>, \A i \in 1..Len(c) : c[i] = Len(cs) + 1
  PROVE  /\ AreTexts(Append(cs, c))
         /\ \E q : Laid(w \o c \o (IF t THEN <<Nul>> ELSE <<>>), Append(cs, c), t, q, d)
<1> DEFINE n == Len(cs)
           ds == Append(cs, c)
<1>1. /\ n \in Nat /\ d \in 0..n /\ o \in [d..n -> Nat] /\ o[n] = Len(w)
      /\ cs \in Seq(Seq(Nat)) /\ Len(w) \in Nat
  BY DEF AreTexts, Laid
<1>2. ds \in Seq(Seq(Nat)) /\ Len(ds) = n + 1 /\ ds[n + 1] = c /\ \A k \in 1..n : ds[k] = cs[k]
  BY <1>1
<1> HIDE DEF ds
<1>3. AreTexts(ds)
  <2>1. ASSUME NEW k \in 1..(n + 1) PROVE ds[k] # <<>> /\ \A i \in 1..Len(ds[k]) : ds[k][i] = k
    <3>1. CASE k = n + 1
      BY <1>2, <3>1
    <3>2. CASE k \in 1..n
      BY <1>2, <3>2 DEF AreTexts
    <3> QED
      BY <1>1, <3>1, <3>2
  <2> QED
    BY <1>2, <2>1 DEF AreTexts
<1> DEFINE z == IF t THEN <<Nul>> ELSE <<>>
           v == w \o c \o z
           g == Gap(t)
           m == Len(c)
           q == [j \in d..(n + 1) |-> IF j = n + 1 THEN Len(w) + m + g ELSE o[j]]
<1>4. z \in Seq(Nat) /\ Len(z) = g /\ g \in {0, 1} /\ (t => z[1] = Nul /\ g = 1)
  BY DEF Gap, Nul
<1>5. m \in Nat /\ m >= 1
  OBVIOUS
<1> HIDE DEF z, g
<1>6. /\ v \in Seq(Nat) /\ Len(v) = Len(w) + m + g
      /\ \A i \in 1..Len(w) : v[i] = w[i]
      /\ \A i \in 1..m : v[Len(w) + i] = c[i]
      /\ t => v[Len(w) + m + 1] = Nul
  <2>1. \A x, y \in Seq(Nat) :
          /\ x \o y \in Seq(Nat) /\ Len(x \o y) = Len(x) + Len(y)
          /\ \A i \in 1..Len(x) : (x \o y)[i] = x[i]
          /\ \A i \in 1..Len(y) : (x \o y)[Len(x) + i] = y[i]
    OBVIOUS
  <2>2. PICK u : u = w \o c
    OBVIOUS
  <2>3. PICK vv : vv = u \o z
    OBVIOUS
  <2>4. /\ u \in Seq(Nat) /\ Len(u) = Len(w) + m
        /\ \A i \in 1..Len(w) : u[i] = w[i]
        /\ \A i \in 1..m : u[Len(w) + i] = c[i]
    BY <2>1, <2>2
  <2>5. /\ vv \in Seq(Nat) /\ Len(vv) = Len(u) + Len(z)
        /\ \A i \in 1..Len(u) : vv[i] = u[i]
        /\ \A i \in 1..Len(z) : vv[Len(u) + i] = z[i]
    BY <1>4, <2>1, <2>3, <2>4, ZenonT(30)
  <2>6. ASSUME NEW i \in 1..m PROVE vv[Len(w) + i] = c[i]
    <3>1. Len(w) + i \in 1..Len(u)
      BY <1>1, <1>5, <2>4
    <3> QED
      BY <2>4, <2>5, <3>1
  <2>7. ASSUME t PROVE vv[Len(w) + m + 1] = Nul
    <3>1. 1 \in 1..Len(z) /\ z[1] = Nul
      BY <1>4, <2>7
    <3> HIDE DEF m
    <3> QED
      BY <2>4, <2>5, <3>1
  <2>9. \A i \in 1..Len(w) : vv[i] = w[i]
    <3> TAKE i \in 1..Len(w)
    <3>1. i \in 1..Len(u)
      BY <1>1, <1>5, <2>4
    <3> QED
      BY <2>4, <2>5, <3>1
  <2>8. v = vv
    BY <2>2, <2>3
  <2>10. vv \in Seq(Nat) /\ Len(vv) = Len(w) + m + g
    BY <1>4, <2>4, <2>5
  <2> QED
    BY <2>6, <2>7, <2>8, <2>9, <2>10
<1> HIDE DEF v, m
<1>7. q \in [d..(n + 1) -> Nat] /\ q[n + 1] = Len(w) + m + g /\ \A j \in d..n : q[j] = o[j]
  <2>1. ASSUME NEW j \in d..(n + 1)
        PROVE  (IF j = n + 1 THEN Len(w) + m + g ELSE o[j]) \in Nat
    <3>1. CASE j = n + 1
      BY <1>1, <1>4, <1>5, <3>1
    <3>2. CASE j # n + 1
      <4>1. j \in d..n
        BY <1>1, <3>2
      <4> QED
        BY <1>1, <3>2, <4>1
    <3> QED
      BY <3>1, <3>2
  <2>2. n + 1 \in d..(n + 1) /\ \A j \in d..n : j \in d..(n + 1) /\ j # n + 1
    BY <1>1
  <2> QED
    BY <2>1, <2>2
<1> HIDE DEF q
<1>8. d \in 0..(n + 1) /\ q[n + 1] = Len(v) /\ (q[d] = 0 \/ (t /\ q[d] = 1))
  <2>1. d \in d..n
    BY <1>1
  <2>2. o[d] = 0 \/ (t /\ o[d] = 1)
    BY DEF Laid
  <2> QED
    BY <1>1, <1>6, <1>7, <2>1, <2>2
<1>9. ASSUME NEW k \in (d + 1)..(n + 1)
      PROVE  /\ q[k] = q[k - 1] + Len(ds[k]) + g
             /\ \A i \in 1..Len(ds[k]) : v[q[k - 1] + i] = k
  <2>1. CASE k = n + 1
    <3>1. k - 1 = n /\ n \in d..n
      BY <1>1, <2>1
    <3>2. q[k - 1] = Len(w) /\ ds[k] = c /\ Len(ds[k]) = m
      BY <1>1, <1>2, <1>7, <2>1, <3>1 DEF m
    <3>3. \A i \in 1..m : c[i] = n + 1
      BY DEF m
    <3> QED
      BY <1>6, <1>7, <2>1, <3>2, <3>3
  <2>2. CASE k # n + 1
    <3>1. k \in (d + 1)..n /\ k - 1 \in d..n /\ k \in d..n /\ k \in 1..n
      BY <1>1, <2>2
    <3>2. q[k - 1] = o[k - 1] /\ q[k] = o[k] /\ ds[k] = cs[k] /\ o[k - 1] \in Nat
      BY <1>1, <1>2, <1>7, <3>1
    <3>3. o[k] = o[k - 1] + Len(cs[k]) + g /\ \A i \in 1..Len(cs[k]) : w[o[k - 1] + i] = k
      BY <3>1 DEF Laid, g
    <3>4. o[k] <= Len(w) /\ o[k] \in Nat /\ Len(cs[k]) \in Nat
      <4>1. n \in d..n /\ k \in d..n
        BY <1>1, <3>1
      <4>2. o[k] <= o[n]
        BY <4>1, LaidGrows
      <4>3. cs[k] \in Seq(Nat)
        BY <1>1, <3>1
      <4>4. o[k] \in Nat /\ o[n] = Len(w)
        BY <1>1, <4>1
      <4>5. Len(cs[k]) \in Nat
        BY <4>3
      <4> QED
        BY <4>2, <4>4, <4>5
    <3>5. ASSUME NEW i \in 1..Len(cs[k]) PROVE v[q[k - 1] + i] = k
      <4>1. o[k - 1] + i \in 1..Len(w)
        <5>1. PICK x, y, l : x = o[k - 1] /\ y = o[k] /\ l = Len(cs[k])
          OBVIOUS
        <5>2. x \in Nat /\ y <= Len(w) /\ y = x + l + g /\ l \in Nat /\ i \in 1..l
          BY <3>2, <3>3, <3>4, <5>1
        <5>3. x + i \in 1..Len(w)
          BY <1>1, <1>4, <5>2
        <5> QED
          BY <5>1, <5>3
      <4> QED
        BY <1>6, <3>2, <3>3, <4>1
    <3> QED
      BY <3>2, <3>3, <3>5
  <2> QED
    BY <2>1, <2>2
<1>10. ASSUME t, NEW k \in d..(n + 1), q[k] > 0 PROVE v[q[k]] = Nul
  <2>1. CASE k = n + 1
    BY <1>4, <1>6, <1>7, <1>10, <2>1
  <2>2. CASE k # n + 1
    <3>1. k \in d..n /\ n \in d..n
      BY <1>1, <2>2
    <3>2. q[k] = o[k] /\ o[k] \in Nat
      BY <1>1, <1>7, <3>1
    <3>3. o[k] <= o[n]
      BY <3>1, LaidGrows
    <3>4. w[o[k]] = Nul
      BY <1>10, <3>1, <3>2 DEF Laid
    <3>5. o[k] \in 1..Len(w)
      BY <1>1, <1>10, <3>2, <3>3
    <3> QED
      BY <1>6, <3>2, <3>4, <3>5
  <2> QED
    BY <2>1, <2>2
<1>11. ~t => n + 1 <= d + 1
  BY <1>1
<1>12. Laid(v, ds, t, q, d)
  <2>1. Len(ds) = n + 1
    BY <1>2
  <2> HIDE DEF n
  <2> QED
    BY <1>7, <1>8, <1>9, <1>10, <1>11, <2>1 DEF Laid, g
<1> QED
  BY <1>3, <1>12 DEF v, ds, z

-----------------------------------------------------------------------------
(* The invariant: what the inner loop holds back, and, while no recv has   *)
(* ended inside of a command, what is delivered and what lies before recv. *)

StreamTypes ==
  /\ terminates \in BOOLEAN /\ growing \in BOOLEAN
  /\ pipe \in Seq(Nat) /\ received \in Seq(Nat) /\ AreTexts(commands)

GrowInv ==
  /\ growing => received # <<>> /\ Len(received) % RecvSize = 0 /\ Last(received) # Nul
  /\ ~growing => received = <<>>

DeliveredInv ==
  \E d, o :
    /\ d \in 0..Len(commands) /\ delivered = SubSeq(commands, 1, d)
    /\ Laid(received \o pipe, commands, terminates, o, d)

StreamInv == StreamTypes /\ GrowInv /\ (~severed => DeliveredInv)

LEMMA SubSeqFrom ==
  ASSUME NEW s \in Seq(Nat), NEW m \in 0..Len(s)
  PROVE  /\ SubSeq(s, m + 1, Len(s)) \in Seq(Nat)
         /\ Len(SubSeq(s, m + 1, Len(s))) = Len(s) - m
         /\ \A i \in 1..(Len(s) - m) : SubSeq(s, m + 1, Len(s))[i] = s[m + i]
<1>1. m + 1 \in 1..(Len(s) + 1) /\ m \in Nat /\ Len(s) \in Nat /\ m <= Len(s)
  OBVIOUS
<1> QED
  BY <1>1

LEMMA CutAndJoin ==
  ASSUME NEW s \in Seq(Nat), NEW u \in Seq(Nat), NEW n \in 0..Len(u)
  PROVE  /\ SubSeq(u, 1, n) \in Seq(Nat) /\ SubSeq(u, n + 1, Len(u)) \in Seq(Nat)
         /\ s \o u \in Seq(Nat) /\ Len(s \o u) = Len(s) + Len(u)
         /\ s \o SubSeq(u, 1, n) \in Seq(Nat) /\ Len(s \o SubSeq(u, 1, n)) = Len(s) + n
         /\ (s \o SubSeq(u, 1, n)) \o SubSeq(u, n + 1, Len(u)) = s \o u
         /\ s \o SubSeq(u, 1, n) = SubSeq(s \o u, 1, Len(s) + n)
         /\ SubSeq(u, n + 1, Len(u)) = SubSeq(s \o u, Len(s) + n + 1, Len(s \o u))
<1> DEFINE a == SubSeq(u, 1, n)
           b == SubSeq(u, n + 1, Len(u))
           w == s \o u
           v == s \o a
<1>1. n \in Nat /\ Len(u) \in Nat /\ n <= Len(u) /\ Len(s) \in Nat
  OBVIOUS
<1>2. a \in Seq(Nat) /\ Len(a) = n /\ \A i \in 1..n : a[i] = u[i]
  BY <1>1
<1>3. b \in Seq(Nat) /\ Len(b) = Len(u) - n /\ \A i \in 1..(Len(u) - n) : b[i] = u[n + i]
  <2>1. n + 1 \in 1..(Len(u) + 1)
    BY <1>1
  <2> QED
    BY <1>1, <2>1
<1>4. \A x, y \in Seq(Nat) :
        /\ x \o y \in Seq(Nat) /\ Len(x \o y) = Len(x) + Len(y)
        /\ \A i \in 1..Len(x) : (x \o y)[i] = x[i]
        /\ \A i \in 1..Len(y) : (x \o y)[Len(x) + i] = y[i]
  OBVIOUS
<1>5. /\ w \in Seq(Nat) /\ Len(w) = Len(s) + Len(u)
      /\ \A i \in 1..Len(s) : w[i] = s[i]
      /\ \A i \in 1..Len(u) : w[Len(s) + i] = u[i]
  BY <1>4
<1> HIDE DEF a, b
<1>6. /\ v \in Seq(Nat) /\ Len(v) = Len(s) + n
      /\ \A i \in 1..Len(s) : v[i] = s[i]
      /\ \A i \in 1..n : v[Len(s) + i] = a[i]
  BY <1>2, <1>4
<1> HIDE DEF v, w
<1>7. \A i \in 1..(Len(s) + n) : v[i] = w[i]
  <2> TAKE i \in 1..(Len(s) + n)
  <2>1. CASE i \in 1..Len(s)
    BY <1>5, <1>6, <2>1
  <2>2. CASE i \notin 1..Len(s)
    <3>1. PICK j : j = i - Len(s)
      OBVIOUS
    <3>2. j \in 1..n /\ j \in 1..Len(u) /\ i = Len(s) + j
      BY <1>1, <2>2, <3>1
    <3> QED
      BY <1>2, <1>5, <1>6, <3>2
  <2> QED
    BY <2>1, <2>2
<1>8. v = SubSeq(w, 1, Len(s) + n)
  <2>1. PICK c : c = SubSeq(w, 1, Len(s) + n)
    OBVIOUS
  <2>2. c \in Seq(Nat) /\ Len(c) = Len(s) + n /\ \A i \in 1..(Len(s) + n) : c[i] = w[i]
    BY <1>1, <1>5, <2>1
  <2>3. v = c
    BY <1>6, <1>7, <2>2, SeqEqual
  <2> QED
    BY <2>1, <2>3
<1>9. b = SubSeq(w, Len(s) + n + 1, Len(w))
  <2>1. PICK m : m = Len(s) + n
    OBVIOUS
  <2>2. m \in Nat /\ m + 1 \in 1..(Len(w) + 1) /\ Len(w) \in Nat
    BY <1>1, <1>5, <2>1
  <2>7. PICK c : c = SubSeq(w, m + 1, Len(w))
    OBVIOUS
  <2>3. c \in Seq(Nat) /\ Len(c) = Len(w) - m /\ \A i \in 1..(Len(w) - m) : c[i] = w[m + i]
    <3>1. PICK x : x = w
      OBVIOUS
    <3>2. x \in Seq(Nat) /\ m \in 0..Len(x) /\ c = SubSeq(x, m + 1, Len(x))
      <4>1. m \in 0..Len(w)
        BY <2>2
      <4> QED
        BY <1>5, <2>7, <3>1, <4>1
    <3>3. c \in Seq(Nat) /\ Len(c) = Len(x) - m /\ \A i \in 1..(Len(x) - m) : c[i] = x[m + i]
      BY <3>2, SubSeqFrom
    <3> QED
      BY <3>1, <3>3
  <2>4. Len(b) = Len(c)
    BY <1>1, <1>3, <1>5, <2>1, <2>3
  <2>5. ASSUME NEW i \in 1..Len(b) PROVE b[i] = c[i]
    <3>1. i \in 1..(Len(u) - n) /\ n + i \in 1..Len(u) /\ i \in 1..(Len(w) - m)
          /\ m + i = Len(s) + (n + i)
      BY <1>1, <1>3, <1>5, <2>1
    <3> QED
      BY <1>3, <1>5, <2>3, <3>1
  <2>6. b = c
    BY <1>3, <2>3, <2>4, <2>5, SeqEqual
  <2> QED
    BY <2>1, <2>6, <2>7
<1>10. v \o b = w
  <2>1. PICK c : c = v \o b
    OBVIOUS
  <2>2. /\ c \in Seq(Nat) /\ Len(c) = Len(v) + Len(b)
        /\ \A i \in 1..Len(v) : c[i] = v[i]
        /\ \A i \in 1..Len(b) : c[Len(v) + i] = b[i]
    BY <1>3, <1>4, <1>6, <2>1, ZenonT(30)
  <2>3. Len(c) = Len(w)
    BY <1>1, <1>3, <1>5, <1>6, <2>2
  <2>4. ASSUME NEW i \in 1..Len(c) PROVE c[i] = w[i]
    <3>1. CASE i \in 1..(Len(s) + n)
      BY <1>6, <1>7, <2>2, <3>1
    <3>2. CASE i \notin 1..(Len(s) + n)
      <4>1. PICK j : j = i - (Len(s) + n)
        OBVIOUS
      <4>2. j \in 1..Len(b) /\ i = Len(v) + j /\ n + j \in 1..Len(u) /\ i = Len(s) + (n + j)
            /\ j \in 1..(Len(u) - n)
        <5>1. i \in Nat /\ i > Len(s) + n /\ i <= Len(s) + Len(u)
          BY <1>1, <1>5, <2>3, <3>2
        <5> QED
          BY <1>1, <1>3, <1>6, <4>1, <5>1
      <4>3. c[i] = b[j] /\ b[j] = u[n + j] /\ w[i] = u[n + j]
        BY <1>3, <1>5, <2>2, <4>2
      <4> QED
        BY <4>3
    <3> QED
      BY <3>1, <3>2
  <2>5. c = w
    BY <1>5, <2>2, <2>3, <2>4, SeqEqual
  <2> QED
    BY <2>1, <2>5
<1> QED
  BY <1>2, <1>3, <1>5, <1>6, <1>8, <1>9, <1>10 DEF a, b, v, w

LEMMA JoinThree ==
  ASSUME NEW x \in Seq(Nat), NEW y \in Seq(Nat), NEW z \in Seq(Nat)
  PROVE  (x \o y) \o z = x \o (y \o z)
  BY ConcatAssociative, SMTT(20)

LEMMA StreamInitHolds == StreamInit => StreamInv
<1> SUFFICES ASSUME StreamInit PROVE StreamInv
  OBVIOUS
<1>1. terminates \in BOOLEAN /\ pipe = <<>> /\ commands = <<>> /\ received = <<>>
      /\ ~growing /\ growing \in BOOLEAN /\ delivered = <<>>
  BY DEF StreamInit
<1>2. AreTexts(commands)
  BY <1>1 DEF AreTexts
<1>3. DeliveredInv
  <2> DEFINE o == [j \in 0..0 |-> 0]
  <2>1. o \in [0..0 -> Nat] /\ o[0] = 0
    OBVIOUS
  <2> HIDE DEF o
  <2>2. Len(commands) = 0 /\ Len(received \o pipe) = 0 /\ delivered = SubSeq(commands, 1, 0)
    BY <1>1
  <2>3. Laid(received \o pipe, commands, terminates, o, 0)
    BY <2>1, <2>2 DEF Laid
  <2> QED
    BY <2>2, <2>3 DEF DeliveredInv
<1> QED
  BY <1>1, <1>2, <1>3 DEF StreamInv, StreamTypes, GrowInv

LEMMA SendCommandKeeps ==
  ASSUME StreamInv, NEW length \in 1..LengthMax, SendCommand(length)
  PROVE  StreamInv'
<1> DEFINE c == [i \in 1..length |-> Len(commands) + 1]
           z == IF terminates THEN <<Nul>> ELSE <<>>
<1>1. StreamTypes /\ GrowInv /\ Len(commands) \in Nat /\ length \in Nat /\ length >= 1
  BY CommandStreamAssumption DEF StreamInv, StreamTypes, AreTexts
<1>2. /\ pipe' = pipe \o c \o z /\ commands' = Append(commands, c)
      /\ UNCHANGED <<terminates, received, growing, delivered, severed>>
      /\ terminates \/ Answered
  BY DEF SendCommand
<1>3. c \in Seq(Nat) /\ c # <<>> /\ Len(c) = length /\ \A i \in 1..Len(c) : c[i] = Len(commands) + 1
  <2>1. c \in [1..length -> Nat]
    BY <1>1
  <2>2. c \in Seq(Nat) /\ Len(c) = length
    BY <1>1, <2>1
  <2> QED
    BY <1>1, <2>2
<1>4. z \in Seq(Nat)
  BY DEF Nul
<1> HIDE DEF c
<1>5. AreTexts(commands')
  <2>1. PICK cs : cs = commands
    OBVIOUS
  <2>2. AreTexts(cs) /\ cs \in Seq(Seq(Nat)) /\ Len(cs) \in Nat
    BY <1>1, <2>1 DEF StreamTypes, AreTexts
  <2>3. /\ Append(cs, c) \in Seq(Seq(Nat)) /\ Len(Append(cs, c)) = Len(cs) + 1
        /\ \A k \in 1..Len(cs) : Append(cs, c)[k] = cs[k]
        /\ Append(cs, c)[Len(cs) + 1] = c
    BY <1>3, <2>2
  <2>4. ASSUME NEW k \in 1..(Len(cs) + 1)
        PROVE  Append(cs, c)[k] # <<>>
               /\ \A i \in 1..Len(Append(cs, c)[k]) : Append(cs, c)[k][i] = k
    <3>1. CASE k = Len(cs) + 1
      BY <1>3, <2>1, <2>3, <3>1
    <3>2. CASE k \in 1..Len(cs)
      BY <2>2, <2>3, <3>2 DEF AreTexts
    <3> QED
      BY <2>2, <3>1, <3>2
  <2>5. AreTexts(Append(cs, c))
    BY <2>3, <2>4 DEF AreTexts
  <2> QED
    BY <1>2, <2>1, <2>5
<1>6. pipe \o c \o z \in Seq(Nat)
  BY <1>1, <1>3, <1>4 DEF StreamTypes
<1>7. ASSUME ~severed PROVE DeliveredInv'
  <2>1. PICK d, o :
          /\ d \in 0..Len(commands) /\ delivered = SubSeq(commands, 1, d)
          /\ Laid(received \o pipe, commands, terminates, o, d)
    BY <1>7 DEF StreamInv, DeliveredInv
  <2>2. commands \in Seq(Seq(Nat)) /\ AreTexts(commands) /\ terminates \in BOOLEAN
        /\ received \in Seq(Nat) /\ pipe \in Seq(Nat) /\ received \o pipe \in Seq(Nat)
    <3>1. received \in Seq(Nat) /\ pipe \in Seq(Nat) /\ terminates \in BOOLEAN /\ AreTexts(commands)
      BY <1>1 DEF StreamTypes
    <3>2. received \o pipe \in Seq(Nat)
      BY <3>1
    <3>3. commands \in Seq(Seq(Nat))
      BY <3>1 DEF AreTexts
    <3> QED
      BY <3>1, <3>2, <3>3
  <2>3. terminates \/ d = Len(commands)
    <3>1. Len(delivered) = d
      BY <1>1, <2>1, <2>2
    <3> QED
      BY <1>2, <3>1 DEF Answered
  <2>4. \E q : Laid((received \o pipe) \o c \o z, Append(commands, c), terminates, q, d)
    BY <1>3, <2>1, <2>2, <2>3, LaidMore
  <2>5. (received \o pipe) \o c \o z = received \o (pipe \o c \o z)
    <3>1. PICK v, w, x, y : v = received /\ w = pipe /\ x = c /\ y = z
      OBVIOUS
    <3>2. v \in Seq(Nat) /\ w \in Seq(Nat) /\ x \in Seq(Nat) /\ y \in Seq(Nat)
      BY <1>3, <1>4, <2>2, <3>1
    <3> HIDE DEF z
    <3>3. (v \o w) \o x \o y = v \o (w \o x \o y)
      <4>1. w \o x \in Seq(Nat)
        BY <3>2
      <4>2. (v \o w) \o x = v \o (w \o x)
        BY <3>2, JoinThree
      <4>3. (v \o (w \o x)) \o y = v \o ((w \o x) \o y)
        BY <3>2, <4>1, JoinThree, ZenonT(30)
      <4> QED
        BY <4>2, <4>3, Zenon
    <3> QED
      BY <3>1, <3>3
  <2>6. Append(commands, c) \in Seq(Seq(Nat)) /\ Len(Append(commands, c)) = Len(commands) + 1
        /\ SubSeq(Append(commands, c), 1, d) = SubSeq(commands, 1, d)
    <3>1. PICK cs, e : cs = commands /\ e = d
      OBVIOUS
    <3>2. cs \in Seq(Seq(Nat)) /\ e \in 0..Len(cs) /\ c \in Seq(Nat)
      BY <1>3, <2>1, <2>2, <3>1
    <3>3. Append(cs, c) \in Seq(Seq(Nat)) /\ Len(Append(cs, c)) = Len(cs) + 1
          /\ SubSeq(Append(cs, c), 1, e) = SubSeq(cs, 1, e)
      BY <3>2
    <3> QED
      BY <3>1, <3>3
  <2>7. d \in 0..Len(commands')
    BY <1>1, <1>2, <2>1, <2>6
  <2>8. PICK q : Laid(received' \o pipe', commands', terminates', q, d)
    BY <1>2, <2>4, <2>5
  <2>9. delivered' = SubSeq(commands', 1, d)
    BY <1>2, <2>1, <2>6
  <2> QED
    BY <2>7, <2>8, <2>9 DEF DeliveredInv
<1>8. StreamTypes' /\ GrowInv'
  BY <1>1, <1>2, <1>5, <1>6 DEF StreamTypes, GrowInv
<1> QED
  BY <1>2, <1>7, <1>8 DEF StreamInv

LEMMA RoundAdds ==
  ASSUME NEW a \in Nat, NEW r \in Nat \ {0}, a % r = 0
  PROVE  (a + r) % r = 0
<1>1. \A x \in Nat : x \div r \in Int /\ x % r \in 0..(r - 1) /\ x = r * (x \div r) + (x % r)
  BY SMTT(30)
<1>2. PICK k \in Int : a = r * k
  <2>1. a \div r \in Int /\ a = r * (a \div r) + (a % r)
    BY <1>1
  <2>2. PICK k : k = a \div r
    OBVIOUS
  <2>3. k \in Int /\ a = r * k + 0
    BY <2>1, <2>2
  <2>4. r * k \in Int
    BY <2>3
  <2> QED
    BY <2>3, <2>4
<1>3. PICK q \in Int, m \in 0..(r - 1) : m = (a + r) % r /\ a + r = r * q + m
  <2>1. a + r \in Nat
    OBVIOUS
  <2> QED
    BY <1>1, <2>1
<1>4. PICK j \in Int : j = k + 1 - q
  OBVIOUS
<1>5. r * j = m
  <2>1. r * (k + 1 - q) = r * k + r - r * q
    BY <1>2, <1>3
  <2>2. r * k \in Int /\ r * q \in Int
    BY <1>2, <1>3
  <2> QED
    BY <1>2, <1>3, <1>4, <2>1, <2>2
<1>6. ~(j >= 1)
  <2>1. j >= 1 => r * j >= r
    BY SMTT(30)
  <2> QED
    BY <1>3, <1>5, <2>1
<1>7. ~(j <= -1)
  <2>1. j <= -1 => r * j <= -r
    BY SMTT(30)
  <2> QED
    BY <1>3, <1>5, <2>1
<1>8. j = 0
  BY <1>6, <1>7
<1>9. m = 0
  BY <1>5, <1>8
<1> QED
  BY <1>3, <1>9

(* A recv that fills the buffer and does not end with a NUL changes        *)
(* nothing of what is to be processed; another one processes the commands  *)
(* up to its end.                                                          *)
LEMMA RecvKeeps ==
  ASSUME StreamInv, NEW n \in 1..RecvSize, Recv(n)
  PROVE  StreamInv'
<1> DEFINE chunk == SubSeq(pipe, 1, n)
           bytes == received \o chunk
           rest == SubSeq(pipe, n + 1, Len(pipe))
           w == received \o pipe
           L == Len(received) + n
<1>1. StreamTypes /\ GrowInv /\ received \in Seq(Nat) /\ pipe \in Seq(Nat)
      /\ AreTexts(commands) /\ terminates \in BOOLEAN /\ Len(commands) \in Nat
  BY DEF StreamInv, StreamTypes, AreTexts
<1>2. n \in Nat /\ n >= 1 /\ n <= Len(pipe) /\ n \in 0..Len(pipe) /\ RecvSize \in Nat \ {0}
      /\ Len(pipe) \in Nat /\ Len(received) \in Nat
  BY <1>1, CommandStreamAssumption DEF Recv
<1>3. pipe' = rest /\ UNCHANGED <<terminates, commands>>
  BY DEF Recv
<1>4. /\ rest \in Seq(Nat) /\ bytes \in Seq(Nat) /\ Len(bytes) = L
      /\ w \in Seq(Nat) /\ Len(w) = Len(received) + Len(pipe)
      /\ bytes \o rest = w /\ bytes = SubSeq(w, 1, L) /\ rest = SubSeq(w, L + 1, Len(w))
  BY <1>1, <1>2, CutAndJoin, ZenonT(30)
<1>5. chunk \in Seq(Nat) /\ Len(chunk) = n /\ \A i \in 1..n : chunk[i] = pipe[i]
  BY <1>1, <1>2
<1>6. /\ w[L] = Last(chunk) /\ bytes # <<>> /\ Last(bytes) = Last(chunk)
      /\ rest # <<>> => w[L + 1] = Head(rest)
      /\ L < Len(w) => rest # <<>>
  <2>1. \A x, y \in Seq(Nat) :
          /\ Len(x \o y) = Len(x) + Len(y)
          /\ \A i \in 1..Len(y) : (x \o y)[Len(x) + i] = y[i]
    OBVIOUS
  <2>2. w[Len(received) + n] = pipe[n]
    <3>1. n \in 1..Len(pipe)
      BY <1>2
    <3> QED
      BY <1>1, <2>1, <3>1
  <2>3. n \in 1..n /\ chunk[n] = pipe[n] /\ Last(chunk) = chunk[n]
    BY <1>2, <1>5 DEF Last
  <2>4. bytes[Len(received) + n] = chunk[n] /\ Last(bytes) = bytes[Len(received) + n]
    <3>1. bytes[Len(received) + n] = chunk[n]
      BY <1>1, <1>5, <2>1, <2>3
    <3> HIDE DEF bytes, chunk
    <3> QED
      BY <1>4, <3>1 DEF Last
  <2>5. Len(rest) = Len(pipe) - n /\ \A i \in 1..(Len(pipe) - n) : rest[i] = pipe[n + i]
    BY <1>1, <1>2, SubSeqFrom
  <2>6. ASSUME rest # <<>> PROVE w[L + 1] = Head(rest)
    <3>1. Len(rest) # 0 /\ Head(rest) = rest[1]
      <4> HIDE DEF rest
      <4> QED
        BY <1>4, <2>6
    <3>2. 1 \in 1..(Len(pipe) - n) /\ n + 1 \in 1..Len(pipe) /\ L + 1 = Len(received) + (n + 1)
      BY <1>2, <2>5, <3>1
    <3>3. w[Len(received) + (n + 1)] = pipe[n + 1]
      BY <1>1, <2>1, <3>2
    <3>4. rest[1] = pipe[n + 1]
      BY <2>5, <3>2
    <3> QED
      BY <3>1, <3>2, <3>3, <3>4
  <2>7. ASSUME L < Len(w) PROVE rest # <<>>
    <3>1. Len(rest) # 0
      BY <1>2, <1>4, <2>5, <2>7
    <3> HIDE DEF rest
    <3> QED
      BY <3>1
  <2>8. bytes # <<>>
    <3>1. Len(bytes) # 0
      BY <1>2, <1>4
    <3> HIDE DEF bytes
    <3> QED
      BY <3>1
  <2> QED
    BY <2>2, <2>3, <2>4, <2>6, <2>7, <2>8
<1>7. CASE n = RecvSize /\ Last(chunk) # Nul
  <2>1. received' = bytes /\ growing' /\ growing' \in BOOLEAN /\ UNCHANGED <<delivered, severed>>
    BY <1>7 DEF Recv
  <2> HIDE DEF bytes, chunk, rest, w
  <2>2. StreamTypes'
    BY <1>1, <1>3, <1>4, <2>1 DEF StreamTypes
  <2>3. Len(received) % RecvSize = 0
    <3>1. CASE growing
      BY <1>1, <3>1 DEF GrowInv
    <3>2. CASE ~growing
      <4>1. Len(received) = 0
        BY <1>1, <3>2 DEF GrowInv
      <4> QED
        BY <1>2, <4>1
    <3> QED
      BY <3>1, <3>2
  <2>4. L % RecvSize = 0
    BY <1>2, <1>7, <2>3, RoundAdds
  <2>5. GrowInv'
    BY <1>4, <1>6, <1>7, <2>1, <2>4 DEF GrowInv
  <2>6. received' \o pipe' = received \o pipe
    BY <1>3, <1>4, <2>1 DEF w
  <2>7. DeliveredInv => DeliveredInv'
    BY <1>3, <2>1, <2>6 DEF DeliveredInv
  <2> QED
    BY <2>1, <2>2, <2>5, <2>7 DEF StreamInv
<1>8. CASE ~(n = RecvSize /\ Last(chunk) # Nul)
  <2>1. Process(bytes) /\ severed' = (severed \/ Cuts(chunk, pipe'))
    BY <1>8 DEF Recv
  <2>2. /\ delivered' = delivered \o CommandsIn(bytes)
        /\ received' = <<>> /\ ~growing' /\ growing' \in BOOLEAN
    BY <2>1 DEF Process
  <2> HIDE DEF bytes, chunk, rest, w
  <2>3. StreamTypes' /\ GrowInv'
    BY <1>1, <1>3, <1>4, <2>2 DEF StreamTypes, GrowInv
  <2>4. ASSUME ~severed' PROVE DeliveredInv'
    <3>1. ~severed /\ ~Cuts(chunk, rest)
      BY <1>3, <2>1, <2>4
    <3>2. PICK d, o : /\ d \in 0..Len(commands) /\ delivered = SubSeq(commands, 1, d)
                         /\ Laid(w, commands, terminates, o, d)
      BY <3>1 DEF StreamInv, DeliveredInv, w
    <3>3. L \in 1..Len(w)
      BY <1>2, <1>4
    <3>4. L < Len(w) => (w[L] = Nul \/ w[L + 1] # w[L])
      BY <1>6, <3>1 DEF Cuts
    <3> HIDE DEF L
    <3>12. PICK v, l, cs, t : v = w /\ l = L /\ cs = commands /\ t = terminates
      OBVIOUS
    <3>13. /\ v \in Seq(Nat) /\ AreTexts(cs) /\ t \in BOOLEAN /\ Laid(v, cs, t, o, d)
           /\ l \in 1..Len(v) /\ (l < Len(v) => (v[l] = Nul \/ v[l + 1] # v[l]))
      BY <1>1, <1>4, <3>2, <3>3, <3>4, <3>12
    <3>5. PICK k \in d..Len(cs) : EndsAt(o, d, t, l, k)
      BY <3>13, LaidFind
    <3>6. CommandsIn(bytes) = SubSeq(commands, d + 1, k)
      <4>1. FindsUpTo(v, cs, d, l, k)
        BY <3>5, <3>13, LaidSplit
      <4> QED
        BY <1>4, <3>12, <4>1 DEF FindsUpTo
    <3>7. \E q : Laid(rest, commands, terminates, q, k)
      <4>1. Laid(SubSeq(v, l + 1, Len(v)), cs, t, [j \in k..Len(cs) |-> o[j] - l], k)
        BY <3>5, <3>13, LaidRest
      <4> QED
        BY <1>4, <3>12, <4>1
    <3>8. delivered' = SubSeq(commands, 1, k)
      <4>1. d \in Nat /\ k \in Nat /\ d <= k /\ k <= Len(commands) /\ commands \in Seq(Seq(Nat))
        BY <1>1, <3>2, <3>5, <3>12 DEF AreTexts
      <4>2. SubSeq(commands, 1, d) \o SubSeq(commands, d + 1, k) = SubSeq(commands, 1, k)
        BY <4>1
      <4> QED
        BY <2>2, <3>2, <3>6, <4>2
    <3>9. <<>> \o rest = rest
      BY <1>4
    <3>10. received' \o pipe' = rest
      BY <1>3, <2>2, <3>9
    <3>11. k \in 0..Len(commands')
      BY <1>1, <1>3, <3>2, <3>5, <3>12
    <3> QED
      BY <1>3, <3>7, <3>8, <3>10, <3>11 DEF DeliveredInv
  <2> QED
    BY <2>3, <2>4 DEF StreamInv
<1> QED
  BY <1>7, <1>8

LEMMA DisconnectedKeeps == Disconnected => StreamInv'
<1> SUFFICES ASSUME Disconnected PROVE StreamInv'
  OBVIOUS
<1>1. /\ pipe' = <<>> /\ terminates' \in BOOLEAN /\ commands' = <<>> /\ received' = <<>>
      /\ ~growing' /\ growing' \in BOOLEAN /\ delivered' = <<>>
  BY DEF Disconnected
<1>2. AreTexts(commands')
  BY <1>1 DEF AreTexts
<1>3. DeliveredInv'
  <2>1. PICK o : o = [j \in 0..0 |-> 0]
    OBVIOUS
  <2>2. o \in [0..0 -> Nat] /\ o[0] = 0
    BY <2>1
  <2>3. Len(commands') = 0 /\ Len(received' \o pipe') = 0 /\ delivered' = SubSeq(commands', 1, 0)
    BY <1>1
  <2>4. Laid(received' \o pipe', commands', terminates', o, 0)
    BY <2>2, <2>3 DEF Laid
  <2>5. 0 \in 0..Len(commands')
    BY <2>3
  <2> QED
    BY <2>3, <2>4, <2>5 DEF DeliveredInv
<1> QED
  BY <1>1, <1>2, <1>3 DEF StreamInv, StreamTypes, GrowInv

(* For a buffer of any size, commands of any lengths and any cuts: the     *)
(* callback gets every command once, whole and in order, unless a recv     *)
(* ended inside of one (socket.c:337-410).                                 *)
THEOREM StreamIsCut ==
  StreamSpec => []CommandsArrive
<1>1. StreamInv => CommandsArrive
  <2> SUFFICES ASSUME StreamInv, ~severed
               PROVE  /\ IsPrefix(delivered, commands)
                      /\ pipe = <<>> /\ ~growing => delivered = commands
                      /\ pipe = <<>> /\ growing =>
                           Len(received) % RecvSize = 0 /\ Last(received) # Nul
    BY DEF CommandsArrive
  <2>1. PICK d, o :
          /\ d \in 0..Len(commands) /\ delivered = SubSeq(commands, 1, d)
          /\ Laid(received \o pipe, commands, terminates, o, d)
    BY DEF StreamInv, DeliveredInv
  <2>2. commands \in Seq(Seq(Nat)) /\ AreTexts(commands) /\ terminates \in BOOLEAN
        /\ GrowInv /\ Len(commands) \in Nat
    BY DEF StreamInv, StreamTypes, AreTexts
  <2>3. Len(delivered) = d /\ IsPrefix(delivered, commands)
    <3>1. /\ delivered \in Seq(Seq(Nat)) /\ Len(delivered) = d /\ d <= Len(commands)
          /\ \A i \in 1..d : delivered[i] = commands[i]
      BY <2>1, <2>2
    <3>2. SubSeq(delivered, 1, d) = delivered
      BY <3>1
    <3> QED
      BY <2>1, <3>1, <3>2 DEF IsPrefix
  <2>4. ASSUME pipe = <<>>, ~growing PROVE delivered = commands
    <3> DEFINE n == Len(commands)
    <3>1. Len(received \o pipe) = 0
      <4>1. received = <<>>
        BY <2>2, <2>4 DEF GrowInv
      <4> QED
        BY <2>4, <4>1
    <3>2. o[n] = 0 /\ o \in [d..n -> Nat]
      BY <2>1, <3>1 DEF Laid
    <3>3. ASSUME d # n PROVE FALSE
      <4>1. n \in (d + 1)..n /\ n - 1 \in d..n /\ n \in 1..n
        BY <2>1, <2>2, <3>3
      <4>2. o[n] = o[n - 1] + Len(commands[n]) + Gap(terminates)
        BY <2>1, <4>1 DEF Laid
      <4>3. o[n - 1] \in Nat
        BY <3>2, <4>1
      <4>4. Len(commands[n]) \in Nat /\ Len(commands[n]) >= 1
        BY <2>2, <4>1 DEF AreTexts
      <4>5. Gap(terminates) \in Nat
        BY DEF Gap
      <4> HIDE DEF n
      <4> QED
        BY <3>2, <4>2, <4>3, <4>4, <4>5
    <3> QED
      BY <2>1, <2>2, <3>3
  <2>5. growing => Len(received) % RecvSize = 0 /\ Last(received) # Nul
    BY <2>2 DEF GrowInv
  <2> QED
    BY <2>3, <2>4, <2>5
<1>2. StreamInv /\ [StreamNext]_streamVars => StreamInv'
  <2> SUFFICES ASSUME StreamInv, [StreamNext]_streamVars PROVE StreamInv'
    OBVIOUS
  <2>1. CASE UNCHANGED streamVars
    BY <2>1 DEF streamVars, StreamInv, StreamTypes, GrowInv, DeliveredInv
  <2> QED
    BY <2>1, SendCommandKeeps, RecvKeeps, DisconnectedKeeps DEF StreamNext
<1> QED
  BY <1>1, <1>2, StreamInitHolds, PTL DEF StreamSpec

=============================================================================
