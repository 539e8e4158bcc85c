---------------------------- MODULE PostFeedback ----------------------------
(***************************************************************************)
(* What RunPostPonedEvents of effects.c tells the client about a batch of  *)
(* postponed events.                                                       *)
(*                                                                         *)
(* The local queue is walked backwards, newest event first.  Of the events *)
(* that report a value only the newest per effect and symbol (or per       *)
(* effect, or at all) is sent; caches local to the run remember what was   *)
(* sent.  Events of the effect that is being removed, or of which a port   *)
(* stops being monitored, are not sent.  A second, forward walk sends the  *)
(* log messages in their order and frees the events.                       *)
(*                                                                         *)
(* Not here: audio_monitor, which shares state with the realtime thread,   *)
(* and patch_set, whose values are in a ring buffer of the effect and not  *)
(* in the event.                                                           *)
(*                                                                         *)
(* Module PostEvents models the threads around this; here one run happens  *)
(* at a time while producers go on queueing.                               *)
(***************************************************************************)
EXTENDS Naturals, Sequences

CONSTANTS
  Effect,        \* plugin instances
  Symbol,        \* port symbols
  Value,         \* what an event reports
  None,          \* "no effect", "no value"
  Kinds,         \* the kinds of events in this instance of the model
  MaxEvents,     \* bound: events that are ever queued
  OffEffects     \* effects that monitor_output_off is issued for

\* Kinds of which only the newest event per key is reported ...
Newest == {"param_set", "param_state", "output_set", "midi_program_change", "transport"}
\* ... those reported every time, and those the backward walk does not report.
Every  == {"midi_mapped", "midi_control_change"}
Silent == {"log", "jack_midi_connect"}

\* Kinds whose case compares the event's effect with ignored_effect_id.
OfEffect == {"param_set", "param_state", "output_set", "midi_mapped"}

ASSUME PostFeedbackAssumption ==
  /\ None \notin Effect \cup Value
  /\ Kinds \subseteq Newest \cup Every \cup Silent
  /\ MaxEvents \in Nat
  /\ OffEffects \subseteq Effect

(* The key of an event: effect and symbol.  Events that are not about an   *)
(* effect have the one key Global.                                         *)
Port   == Effect \X Symbol
Global == <<None, None>>
Event  == [kind : Kinds \cap OfEffect, key : Port, value : Value] \cup
          [kind : Kinds \ OfEffect, key : {Global}, value : Value]

Topic == Newest \X (Port \cup {Global})   \* what the client keeps a value of

VARIABLES
  pending,   \* g_rtsafe_list
  queue,     \* the local queue of the run
  at,        \* the position of the walk
  pc,        \* "idle", "backward" or "forward"
  ignored,   \* ignored_effect_id
  cached,    \* the topics in the caches of this run (cached_*, got_*)
  sent,      \* messages sent in this run
  client,    \* the client's value of each topic
  newest,    \* the value that was last queued for each topic
  removed,   \* effects that were removed
  monitored, \* output ports with HINT_MONITORED
  made       \* how many events were queued

walkVars == <<queue, at, pc, ignored, cached, sent>>
portVars == <<removed, monitored>>
vars == <<pending, walkVars, client, newest, portVars, made>>

TypeOK ==
  /\ pending \in Seq(Event) /\ queue \in Seq(Event)
  /\ at \in 0..(MaxEvents + 1)
  /\ pc \in {"idle", "backward", "forward"}
  /\ ignored \in Effect \cup {None}
  /\ cached \subseteq Topic
  /\ sent \in Seq(Event)
  /\ client \in [Topic -> Value \cup {None}] /\ newest \in [Topic -> Value \cup {None}]
  /\ removed \subseteq Effect /\ monitored \subseteq Port
  /\ made \in 0..MaxEvents

Init ==
  /\ pending = <<>> /\ queue = <<>> /\ sent = <<>>
  /\ at = 0
  /\ pc = "idle"
  /\ ignored = None
  /\ cached = {}
  /\ client = [t \in Topic |-> None]
  /\ newest = [t \in Topic |-> None]
  /\ removed = {} /\ monitored = {}
  /\ made = 0

TopicOf(e) == <<e.kind, e.key>>

\* The client's view v after it has read message e.
Read(v, e) == IF e.kind \in Newest THEN [v EXCEPT ![TopicOf(e)] = e.value] ELSE v

PutEvent(e) ==
  /\ made < MaxEvents
  /\ pending' = Append(pending, e)
  /\ newest' = Read(newest, e)
  /\ made' = made + 1

(* A producer queues an event.  Effects that were removed make none, and   *)
(* ProcessPlugin reports only the output ports that are monitored.         *)
Queue(e) ==
  /\ e.key[1] \notin removed
  /\ e.kind = "output_set" => e.key \in monitored
  /\ PutEvent(e)
  /\ UNCHANGED <<walkVars, client, portVars>>

(* effects_monitor_output_parameter of one port with enable = 1 queues the *)
(* port's current value.  Commands run one at a time: none in a flush.     *)
MonitorOn(p, v) ==
  /\ "output_set" \in Kinds
  /\ ignored = None
  /\ p[1] \notin removed /\ p \notin monitored
  /\ PutEvent([kind |-> "output_set", key |-> p, value |-> v])
  /\ monitored' = monitored \cup {p}
  /\ UNCHANGED <<walkVars, client, removed>>

(* RunPostPonedEvents(ignored_effect_id): the list is spliced, the caches  *)
(* start empty, and an empty queue is left at once.                        *)
Begin(e) ==
  /\ pc = "idle"
  /\ queue' = pending
  /\ pending' = <<>>
  /\ at' = Len(pending)
  /\ IF pending = <<>> THEN UNCHANGED <<pc, ignored>> ELSE pc' = "backward" /\ ignored' = e
  /\ cached' = {}
  /\ sent' = <<>>

(* PostPonedEventsThread runs it with -3, which is no effect.              *)
FeedbackRun ==
  /\ pending # <<>>
  /\ Begin(None)
  /\ UNCHANGED <<client, newest, portVars, made>>

(* effects_remove runs it for the removed effect; effects_remove_multi     *)
(* runs it with -3, and the client hears of the effects that go.           *)
Remove(T) ==
  /\ T # {} /\ T \cap removed = {}
  /\ \/ \E e \in T : T = {e} /\ Begin(e)
     \/ (\A e \in T : T # {e}) /\ Begin(None)
  /\ removed' = removed \cup T
  /\ UNCHANGED <<client, newest, monitored, made>>

(* effects_monitor_output_parameter of a monitored port, with enable = 0.  *)
MonitorOff(p) ==
  /\ p[1] \in OffEffects \ removed /\ p \in monitored
  /\ Begin(p[1])
  /\ monitored' = monitored \ {p}
  /\ UNCHANGED <<client, newest, removed, made>>

\* Wrong: the effect is not compared for one kind of event.
SkippedButSetsParam(e) ==
  \/ e.kind \in Silent
  \/ e.kind \in OfEffect \ {"param_set"} /\ e.key[1] = ignored
  \/ e.kind \in Newest /\ TopicOf(e) \in cached

(* The cases of the backward walk that send nothing ...                    *)
Skipped(e) ==
  \/ e.kind \in Silent
  \/ e.kind \in OfEffect /\ e.key[1] = ignored
  \/ e.kind \in Newest /\ TopicOf(e) \in cached

Skip ==
  /\ pc = "backward" /\ at > 0
  /\ Skipped(queue[at])
  /\ at' = at - 1
  /\ UNCHANGED <<pending, queue, pc, ignored, cached, sent, client, newest, portVars, made>>

(* ... and those that send a message and remember it.                      *)
Send ==
  /\ pc = "backward" /\ at > 0
  /\ ~Skipped(queue[at])
  /\ sent' = Append(sent, queue[at])
  /\ client' = Read(client, queue[at])
  /\ cached' = cached \cup ({TopicOf(queue[at])} \cap Topic)
  /\ at' = at - 1
  /\ UNCHANGED <<pending, queue, pc, ignored, newest, portVars, made>>

Turn ==
  /\ pc = "backward" /\ at = 0
  /\ pc' = "forward"
  /\ at' = 1
  /\ UNCHANGED <<pending, queue, ignored, cached, sent, client, newest, portVars, made>>

(* The forward walk: log messages are sent, every event is freed.          *)
Forward ==
  /\ pc = "forward" /\ at <= Len(queue)
  /\ sent' = IF queue[at].kind = "log" THEN Append(sent, queue[at]) ELSE sent
  /\ at' = at + 1
  /\ UNCHANGED <<pending, queue, pc, ignored, cached, client, newest, portVars, made>>

(* Wrong: the list is emptied at the end of the run and not at the splice. *)
ReturnClearsList ==
  /\ pc = "forward" /\ at > Len(queue)
  /\ pc' = "idle"
  /\ pending' = <<>>
  /\ queue' = <<>> /\ sent' = <<>>
  /\ at' = 0
  /\ ignored' = None
  /\ UNCHANGED <<cached, client, newest, portVars, made>>

Return ==
  /\ pc = "forward" /\ at > Len(queue)
  /\ pc' = "idle"
  /\ queue' = <<>> /\ sent' = <<>>
  /\ at' = 0
  /\ ignored' = None
  /\ UNCHANGED <<pending, cached, client, newest, portVars, made>>

Next ==
  \/ \E e \in Event : Queue(e)
  \/ FeedbackRun
  \/ \E T \in SUBSET Effect : Remove(T)
  \/ \E p \in Port : MonitorOff(p) \/ \E v \in Value : MonitorOn(p, v)
  \/ Skip \/ Send \/ Turn \/ Forward \/ Return

Spec == Init /\ [][Next]_vars

-----------------------------------------------------------------------------
(* Properties.                                                             *)

\* The walk of a run that ignores effect i should report event k of q.
Reported(q, i, k) ==
  /\ q[k].kind \notin Silent
  /\ q[k].kind \in OfEffect => q[k].key[1] # i
  /\ q[k].kind \in Newest => \A j \in (k + 1)..Len(q) : TopicOf(q[j]) # TopicOf(q[k])

\* Of the first k elements of q those at positions P, as a function of k.
Picked(q, P) ==
  LET picked[k \in 0..Len(q)] == IF k = 0 THEN <<>>
                                ELSE IF k \in P THEN Append(picked[k - 1], q[k])
                                ELSE picked[k - 1]
  IN  picked

Reversed(q) == [k \in 1..Len(q) |-> q[Len(q) + 1 - k]]
ReportedAt(q, i) == {k \in 1..Len(q) : Reported(q, i, Len(q) + 1 - k)}
LogsAt(q) == {k \in 1..Len(q) : q[k].kind = "log"}

(* What a batch should make of messages, stated without caches: what the   *)
(* walk reports, newest first, and then the logs, oldest first.            *)
Summary(q, i) ==
  Picked(Reversed(q), ReportedAt(q, i))[Len(q)] \o Picked(q, LogsAt(q))[Len(q)]

(* The two walks and their caches send exactly the summary of the batch.   *)
BatchIsSummarised == pc = "forward" /\ at > Len(queue) => sent = Summary(queue, ignored)

(* What the client wants to know: everything about effects that are there, *)
(* of output ports if they are monitored.                                  *)
Wanted(t) == t[2][1] \notin removed /\ (t[1] = "output_set" => t[2] \in monitored)

UpToDate(T) ==
  pc = "idle" /\ pending = <<>> => \A t \in T : Wanted(t) => client[t] = newest[t]

(* When everything that was queued has been handled, the client has the    *)
(* newest value of every topic it wants, over any number of batches,       *)
(* flushes and removals, of every effect that no monitor_output_off is     *)
(* issued for: no summary, cache or flush for one effect swallows a value  *)
(* of another ("flush events for all effects except this one").            *)
OthersUpToDate == UpToDate({t \in Topic : t[2][1] \notin OffEffects})

=============================================================================
