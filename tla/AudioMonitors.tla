--------------------------- MODULE AudioMonitors ----------------------------
(***************************************************************************)
(* Audio level monitors: the array g_audio_monitors, its mutex, and the    *)
(* three threads that use it.  The command monitor_audio_levels adds and   *)
(* removes entries at its end; the cycle of the global client raises the   *)
(* level of each entry and queues an event; RunPostPonedEvents resets the  *)
(* level when it reports one.                                              *)
(***************************************************************************)
EXTENDS Integers, SequencesExt

CONSTANTS
  Port,         \* the ports that may be monitored
  Peak,         \* the highest level; 0 is silence
  MonitorMax,   \* a bound on the monitors
  PeakEventMax  \* a bound on the events in the list

ASSUME AudioMonitorsAssumption == {Peak, MonitorMax, PeakEventMax} \subseteq Nat

VARIABLES
  monitors,     \* the entries of the array, also those beyond the count
  count,        \* g_audio_monitor_count
  monitor_mutex,
  adding,       \* where the command is, and the port it is about
  peak_cycle,   \* the entry the cycle looks at, or none
  peaks,        \* the AUDIO_MONITOR events in the list
  batch,        \* those RunPostPonedEvents still has to look at, newest last
  reported,     \* the entries this batch has reported
  unheard       \* ghost: the entries whose last peak got no event

monitorVars == <<monitors, count, monitor_mutex, adding, peak_cycle, peaks, batch, reported,
                 unheard>>

(* An entry that realloc has made, but nobody has filled.                  *)
Garbage == [port |-> {}, registered |-> FALSE, value |-> 0]
Working == [at |-> "idle"]

MonitorsInit ==
  /\ monitors = <<>> /\ count = 0 /\ monitor_mutex = "free"
  /\ adding = Working /\ peak_cycle = 0 /\ peaks = <<>> /\ batch = <<>> /\ reported = {}
  /\ unheard = {}

-----------------------------------------------------------------------------
(* effects_monitor_audio_levels, on.                                       *)

(* A port that is monitored already is left alone.  The array grows under  *)
(* the mutex.                                                              *)
GrowMonitors(p) ==
  /\ adding = Working /\ monitor_mutex = "free" /\ count < MonitorMax
  /\ \A i \in 1..count : monitors[i].port # {p}
  /\ monitors' = Append(SubSeq(monitors, 1, count), Garbage)
  /\ adding' = [at |-> "fill", port |-> p]
  /\ UNCHANGED <<count, monitor_mutex, peak_cycle, peaks, batch, reported, unheard>>

(* JACK may refuse the port; the entry is left as it is then.              *)
FillMonitor ==
  /\ adding.at = "fill"
  /\ \/ monitors' = [monitors EXCEPT ![count + 1] =
                      [port |-> {adding.port}, registered |-> TRUE, value |-> 0]]
        /\ adding' = [at |-> "count"]
     \/ adding' = Working /\ UNCHANGED monitors
  /\ UNCHANGED <<count, monitor_mutex, peak_cycle, peaks, batch, reported, unheard>>

CountMonitor ==
  /\ adding.at = "count" /\ adding' = Working
  /\ count' = count + 1 /\ unheard' = unheard \ {count + 1}
  /\ UNCHANGED <<monitors, monitor_mutex, peak_cycle, peaks, batch, reported>>

-----------------------------------------------------------------------------
(* effects_monitor_audio_levels, off: only the last one can be removed.    *)

(* Wrong: the count goes down while the cycle may be in the array.         *)
UncountUnlocked ==
  /\ adding = Working /\ count > 0
  /\ count' = count - 1 /\ adding' = [at |-> "release"]
  /\ UNCHANGED <<monitors, monitor_mutex, peak_cycle, peaks, batch, reported, unheard>>

UncountMonitor ==
  /\ adding = Working /\ count > 0 /\ monitor_mutex = "free"
  /\ count' = count - 1 /\ adding' = [at |-> "release"]
  /\ UNCHANGED <<monitors, monitor_mutex, peak_cycle, peaks, batch, reported, unheard>>

(* The port is unregistered, the name freed, and the array with the last.  *)
ReleaseMonitor ==
  /\ adding.at = "release" /\ adding' = Working
  /\ monitors' = IF count = 0 THEN <<>>
                 ELSE [monitors EXCEPT ![count + 1] = [@ EXCEPT !.registered = FALSE]]
  /\ UNCHANGED <<count, monitor_mutex, peak_cycle, peaks, batch, reported, unheard>>

-----------------------------------------------------------------------------
(* ProcessGlobalClient.                                                    *)

MonitorsBegin ==
  /\ peak_cycle = 0 /\ monitor_mutex = "free"
  /\ monitor_mutex' = "cycle" /\ peak_cycle' = 1
  /\ UNCHANGED <<monitors, count, adding, peaks, batch, reported, unheard>>

(* One entry.  The level is stored before there is an event for it, and    *)
(* the pool may have none.                                                 *)
ReadPeak(level) ==
  /\ peak_cycle \in 1..count /\ peak_cycle' = peak_cycle + 1
  /\ IF level > monitors[peak_cycle].value
     THEN /\ monitors' = [monitors EXCEPT ![peak_cycle].value = level]
          /\ \/ /\ Len(peaks) < PeakEventMax
                /\ peaks' = Append(peaks, [index |-> peak_cycle, value |-> level])
                /\ unheard' = unheard \ {peak_cycle}
             \/ unheard' = unheard \cup {peak_cycle} /\ UNCHANGED peaks
     ELSE UNCHANGED <<monitors, peaks, unheard>>
  /\ UNCHANGED <<count, monitor_mutex, adding, batch, reported>>

MonitorsEnd ==
  /\ peak_cycle > count /\ peak_cycle' = 0 /\ monitor_mutex' = "free"
  /\ UNCHANGED <<monitors, count, adding, peaks, batch, reported, unheard>>

-----------------------------------------------------------------------------
(* RunPostPonedEvents.                                                     *)

TakePeaks ==
  /\ batch = <<>> /\ peaks # <<>>
  /\ batch' = peaks /\ peaks' = <<>> /\ reported' = {}
  /\ UNCHANGED <<monitors, count, monitor_mutex, adding, peak_cycle, unheard>>

(* Wrong: an entry that was reported in the batch is reset once more.      *)
ReportPeakAgain ==
  LET e == Last(batch)
  IN  /\ batch # <<>> /\ batch' = Front(batch) /\ monitor_mutex = "free"
      /\ reported' = reported \cup {e.index}
      /\ IF e.index \in 1..count /\ e.index \notin reported
         THEN monitors' = [monitors EXCEPT ![e.index].value = e.value] ELSE UNCHANGED monitors
      /\ UNCHANGED <<count, monitor_mutex, adding, peak_cycle, peaks, unheard>>

(* The newest event of an entry resets its level; older ones are ignored.  *)
ReportPeak ==
  LET e == Last(batch)
  IN  /\ batch # <<>> /\ batch' = Front(batch)
      /\ reported' = reported \cup {e.index}
      /\ e.index \notin reported => monitor_mutex = "free"
      /\ IF e.index \in 1..count /\ e.index \notin reported
         THEN monitors' = [monitors EXCEPT ![e.index].value = 0] ELSE UNCHANGED monitors
      /\ unheard' = IF e.index \in reported THEN unheard ELSE unheard \ {e.index}
      /\ UNCHANGED <<count, monitor_mutex, adding, peak_cycle, peaks>>

MonitorsNext ==
  \/ \E p \in Port : GrowMonitors(p)
  \/ FillMonitor \/ CountMonitor \/ UncountMonitor \/ ReleaseMonitor
  \/ MonitorsBegin \/ MonitorsEnd \/ \E level \in 0..Peak : ReadPeak(level)
  \/ TakePeaks \/ ReportPeak

-----------------------------------------------------------------------------
(* Properties.                                                             *)

(* Threads only ever use entries that are filled and whose port JACK has.  *)
(* A level is at most that of an event that will be reported, unless the   *)
(* pool was empty at the last peak: a monitor never falls silent because   *)
(* its level waits to be reset by an event that does not come.             *)
MonitorsReported ==
  /\ \A i \in 1..count : monitors[i].registered
  /\ monitor_mutex = "cycle" /\ peak_cycle > 0 => peak_cycle <= count + 1
  /\ \A i \in (1..count) \ unheard :
       LET waiting == ToSet(peaks) \cup (IF i \in reported THEN {} ELSE ToSet(batch))
       IN  monitors[i].value > 0 => \E e \in waiting : e.index = i /\ e.value >= monitors[i].value
=============================================================================
