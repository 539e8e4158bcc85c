----------------------------- MODULE PostEvents -----------------------------
(***************************************************************************)
(* The postponed-event pipeline of effects.c.                              *)
(*                                                                         *)
(* Realtime threads may not touch the feedback socket.  They take a node   *)
(* of the realtime-safe pool, fill it with an event, append it to          *)
(* g_rtsafe_list and post g_postevents_semaphore; PostPonedEventsThread    *)
(* takes the whole list, reports the events on the feedback socket and     *)
(* gives the nodes back.  After a batch it reports "data_finish" and waits *)
(* for the client's "output_data_ready" before it reports anything more.   *)
(*                                                                         *)
(* The command thread stops (joins) the feedback thread, runs the same     *)
(* RunPostPonedEvents itself and starts the thread again when it removes   *)
(* effects or stops monitoring an output, and stops it for good when       *)
(* mod-host finishes.                                                      *)
(*                                                                         *)
(* What an event says is abstracted to the two things the control flow     *)
(* depends on: whether it makes feedback for the client (all events but    *)
(* the JACK MIDI connection requests do) and which effect it is about.     *)
(* Module PostFeedback has the messages that RunPostPonedEvents sends.     *)
(***************************************************************************)
EXTENDS Integers, Sequences, RtMemPool

CONSTANTS
  Effect,          \* plugin instances; each has a JACK client of its own
  Outside,         \* the producers that no effect's client runs: the global
                   \* client's process and notification threads, Control
                   \* Chain's thread and the UI's
  Global,          \* the one of them that is the global client's process thread
  None,            \* "no node", "no effect"
  Transport,       \* "a transport parameter", as a producer's task
  SemMax,          \* the semaphore saturates here (1 in the futex build)
  Ops,             \* the commands this instance of the model may execute
  DeactivateFails  \* whether jack_deactivate may return an error

Producer == Effect \cup Outside
Consumer == {"feedback", "command"}

Event == [feedback : BOOLEAN, effect : Effect \cup {None}]

OpName == {"remove", "remove_all", "remove_multi", "monitor_off", "finish"}

ASSUME PostEventsAssumption ==
  /\ SemMax \in Nat \ {0}
  /\ Global \in Outside /\ Outside \cap Effect = {}
  /\ None \notin Effect \cup Node \cup {Transport}
  /\ Transport \notin Effect
  /\ Ops \subseteq OpName \cup {"add", "map", "monitor_on", "transport", "spurious_ready"}
  /\ DeactivateFails \in BOOLEAN

VARIABLES
  event,        \* contents of the nodes in use
  stray,        \* history: queued about an effect whose assignments were gone
  silent,       \* history: queued by a call that does not post for it
  rtsafe,       \* g_rtsafe_list
  sem,          \* g_postevents_semaphore
  running,      \* g_postevents_running: 1, 0 (stopped) or -1 (closing)
  ready,        \* g_postevents_ready
  cpuLoad,      \* g_cpu_load_trigger
  owed,         \* a "data_finish" the client has not answered yet
  inst,         \* effects for which InstanceExist holds
  active,       \* effects whose JACK client runs ProcessPlugin
  mapped,       \* effects that a MIDI controller (learned or being learned)
                \* or a Control Chain device is assigned to
  holding,      \* the node a producer has allocated and not yet queued
  needsPost,    \* a producer's needs_post
  task,         \* the assignment an outside thread has looked up and not yet
                \* reported on: its effect, or Transport
  pc,           \* where the two consumer threads are
  local,        \* the local `queue' of RunPostPonedEvents, per thread
  onlyConnect,  \* got_only_jack_midi_requests, per thread
  op            \* the command being executed

noteVars == <<event, stray, silent>>
prodVars == <<holding, needsPost, task>>
flagVars == <<running, ready, cpuLoad, owed>>
instVars == <<inst, active, mapped>>
runVars  == <<pc, local, onlyConnect>>
vars == <<poolVars, noteVars, rtsafe, sem, flagVars, instVars, prodVars, runVars, op>>

NoOp == [name |-> "none", targets |-> {}]

FeedbackPC == {"dead", "test", "wait", "check", "splice", "deliver", "free", "notify"}
CommandPC  == {"idle", "post", "stop", "join", "deactivate", "pre", "drop",
               "splice", "deliver", "free", "notify", "cleanup", "restart", "finished"}

\* The program counters at which a thread is inside RunPostPonedEvents.
RunPC == {"splice", "deliver", "free", "notify"}

\* The nodes on a list.
NodesOf(s) == {s[i] : i \in 1..Len(s)}

TypeOK ==
  /\ PoolTypeOK
  /\ event \in [Node -> Event \cup {None}]
  /\ stray \subseteq Node /\ silent \subseteq Node
  /\ rtsafe \in Seq(Node)
  /\ sem \in 0..SemMax
  /\ running \in {-1, 0, 1}
  /\ ready \in BOOLEAN /\ cpuLoad \in BOOLEAN /\ owed \in BOOLEAN
  /\ inst \subseteq Effect /\ active \subseteq Effect /\ mapped \subseteq Effect
  /\ holding \in [Producer -> Node \cup {None}]
  /\ needsPost \in [Producer -> BOOLEAN]
  /\ task \in [Outside -> Effect \cup {None, Transport}]
  /\ pc \in [Consumer -> FeedbackPC \cup CommandPC]
  /\ pc["feedback"] \in FeedbackPC /\ pc["command"] \in CommandPC
  /\ local \in [Consumer -> Seq(Node)]
  /\ onlyConnect \in [Consumer -> BOOLEAN]
  /\ op \in [name : OpName \cup {"none"}, targets : SUBSET Effect]

(* effects_init: the pool and the list are created, the thread is started, *)
(* and it may report at once.                                              *)
Init ==
  /\ PoolInit
  /\ event = [n \in Node |-> None]
  /\ stray = {}
  /\ silent = {}
  /\ rtsafe = <<>>
  /\ sem = 0
  /\ running = 1
  /\ ready = TRUE
  /\ cpuLoad = FALSE
  /\ owed = FALSE
  /\ inst = {}
  /\ active = {}
  /\ mapped = {}
  /\ holding = [p \in Producer |-> None]
  /\ needsPost = [p \in Producer |-> FALSE]
  /\ task = [p \in Outside |-> None]
  /\ pc = [c \in Consumer |-> IF c = "feedback" THEN "test" ELSE "idle"]
  /\ local = [c \in Consumer |-> <<>>]
  /\ onlyConnect = [c \in Consumer |-> FALSE]
  /\ op = NoOp

(* sem_post.  In the futex build a post of a posted semaphore does nothing *)
(* (SemMax = 1); the POSIX count is cut off at SemMax, which only loses    *)
(* posts that a semaphore still posted does not need.                      *)
SemPost == sem' = IF sem < SemMax THEN sem + 1 ELSE sem

Goto(c, label) == pc' = [pc EXCEPT ![c] = label]

-----------------------------------------------------------------------------
(* Producers.                                                              *)

Runs(p) == p \in Outside \cup active

(* An outside thread is in the middle of a call about an assignment.       *)
Busy(p) == p \in Outside /\ task[p] # None

(* An outside thread finds the assignment of a MIDI controller or a device *)
(* actuator and takes the effect's number and the symbol from it: a slot   *)
(* of g_midi_cc_list that matches, g_midi_learning (copied before its      *)
(* mutex is released), or the record of g_assignments_list.  Nothing stops *)
(* these threads when an effect's own client is deactivated.               *)
LookUp(p) ==
  /\ p \in Outside /\ ~Busy(p)
  /\ holding[p] = None
  /\ \E e \in mapped : task' = [task EXCEPT ![p] = e]
  /\ UNCHANGED <<poolVars, noteVars, rtsafe, sem, flagVars, instVars, holding,
                 needsPost, runVars, op>>

(* The events that producer p makes.  ProcessPlugin and the plugin's own   *)
(* callbacks report on their effect.  An outside thread reports on the     *)
(* effect it looked up (the MIDI loop reads the slot a second time, and    *)
(* finds no effect once it has been cleared), on the transport, or on      *)
(* nobody's behalf, connection requests among them.                        *)
EventFrom(p) ==
  IF p \in Effect    THEN [feedback : {TRUE}, effect : {p}]
  ELSE IF ~Busy(p)   THEN [feedback : BOOLEAN, effect : {None}]
  ELSE [feedback : {TRUE},
        effect : (Effect \cap {task[p]}) \cup (IF task[p] \in mapped THEN {} ELSE {None})]

(* rtsafe_memory_pool_allocate_atomic and the assignments that fill the    *)
(* event.  When the pool is empty the producer drops the event: no step,   *)
(* or GiveUp.                                                              *)
Reserve(p) ==
  /\ Runs(p)
  /\ holding[p] = None
  /\ \E n \in unused, e \in EventFrom(p) :
       /\ AllocateAtomic(n)
       /\ holding' = [holding EXCEPT ![p] = n]
       /\ event' = [event EXCEPT ![n] = e]
  /\ task' = IF Busy(p) /\ task[p] # Transport THEN [task EXCEPT ![p] = None] ELSE task
  /\ UNCHANGED <<stray, silent, rtsafe, sem, flagVars, instVars, needsPost, runVars, op>>

(* "if (posteventptr == NULL) return false" in the middle of a call.       *)
GiveUp(p) ==
  /\ Busy(p)
  /\ holding[p] = None
  /\ unused = {}
  /\ task' = [task EXCEPT ![p] = None]
  /\ UNCHANGED <<poolVars, noteVars, rtsafe, sem, flagVars, instVars, holding,
                 needsPost, runVars, op>>

(* History: the node's event names an effect whose assignments have been   *)
(* cleared since the outside thread p looked one up.                       *)
Strays(p) ==
  IF p \in Outside /\ event[holding[p]].effect \notin mapped \cup {None}
  THEN {holding[p]} ELSE {}

(* Wrong: the producer forgets that it owes a post.                        *)
EnqueueWithoutPost(p) ==
  /\ holding[p] # None
  /\ rtsafe' = Append(rtsafe, holding[p])
  /\ holding' = [holding EXCEPT ![p] = None]
  /\ task' = IF Busy(p) THEN [task EXCEPT ![p] = None] ELSE task
  /\ stray' = stray \cup Strays(p)
  /\ UNCHANGED <<poolVars, event, silent, sem, flagVars, instVars, needsPost, runVars, op>>

(* Wrong: list_add where the code has list_add_tail.                       *)
EnqueueAtHead(p) ==
  /\ holding[p] # None
  /\ rtsafe' = <<holding[p]>> \o rtsafe
  /\ holding' = [holding EXCEPT ![p] = None]
  /\ needsPost' = [needsPost EXCEPT ![p] = TRUE]
  /\ task' = IF Busy(p) THEN [task EXCEPT ![p] = None] ELSE task
  /\ stray' = stray \cup Strays(p)
  /\ UNCHANGED <<poolVars, event, silent, sem, flagVars, instVars, runVars, op>>

(* list_add_tail under g_rtsafe_mutex; the post comes later.               *)
Enqueue(p) ==
  /\ holding[p] # None
  /\ rtsafe' = Append(rtsafe, holding[p])
  /\ holding' = [holding EXCEPT ![p] = None]
  /\ needsPost' = [needsPost EXCEPT ![p] = TRUE]
  /\ task' = IF Busy(p) THEN [task EXCEPT ![p] = None] ELSE task
  /\ stray' = stray \cup Strays(p)
  /\ UNCHANGED <<poolVars, event, silent, sem, flagVars, instVars, runVars, op>>

(* SetPortValue of a transport parameter: the event is queued, and what it *)
(* returns, the post, depends on the allocation for the second event that  *)
(* UpdateGlobalJackPosition makes (Reserve or GiveUp).                     *)
EnqueueTransport(p) ==
  /\ "transport" \in Ops
  /\ p \in Outside /\ ~Busy(p)
  /\ holding[p] # None
  /\ event[holding[p]] = [feedback |-> TRUE, effect |-> None]
  /\ rtsafe' = Append(rtsafe, holding[p])
  /\ silent' = silent \cup {holding[p]}
  /\ holding' = [holding EXCEPT ![p] = None]
  /\ task' = [task EXCEPT ![p] = Transport]
  /\ UNCHANGED <<poolVars, event, stray, sem, flagVars, instVars, needsPost, runVars, op>>

(* The global client asks for a CPU load report twice per second.          *)
TriggerCpuLoad ==
  /\ holding[Global] = None /\ ~Busy(Global)
  /\ ~cpuLoad
  /\ cpuLoad' = TRUE
  /\ needsPost' = [needsPost EXCEPT ![Global] = TRUE]
  /\ UNCHANGED <<poolVars, noteVars, rtsafe, sem, running, ready, owed, instVars,
                 holding, task, runVars, op>>

(* The end of a process cycle (or of the callback): "if (needs_post)".     *)
Post(p) ==
  /\ holding[p] = None /\ ~Busy(p)
  /\ needsPost[p]
  /\ SemPost
  /\ needsPost' = [needsPost EXCEPT ![p] = FALSE]
  /\ UNCHANGED <<poolVars, noteVars, rtsafe, flagVars, instVars, holding, task, runVars, op>>

-----------------------------------------------------------------------------
(* RunPostPonedEvents, executed by consumer c.                             *)

(* Where the caller continues when RunPostPonedEvents returns.             *)
ReturnPC(c) == IF c = "feedback" THEN "test"
               ELSE IF op.name = "monitor_off" THEN "restart" ELSE "cleanup"

(* Wrong: list_splice, which leaves the shared list as it was.             *)
SpliceWithoutInit(c) ==
  /\ pc[c] = "splice"
  /\ local' = [local EXCEPT ![c] = rtsafe]
  /\ Goto(c, "deliver")
  /\ UNCHANGED <<poolVars, noteVars, rtsafe, sem, flagVars, instVars, prodVars, onlyConnect,
                 op>>

(* list_splice_init under g_rtsafe_mutex.                                  *)
Splice(c) ==
  /\ pc[c] = "splice"
  /\ local' = [local EXCEPT ![c] = rtsafe]
  /\ rtsafe' = <<>>
  /\ Goto(c, "deliver")
  /\ UNCHANGED <<poolVars, noteVars, sem, flagVars, instVars, prodVars, onlyConnect, op>>

(* Nothing was queued and no CPU load report is due: return.               *)
NothingToDo(c) ==
  /\ pc[c] = "deliver"
  /\ ~cpuLoad /\ local[c] = <<>>
  /\ Goto(c, ReturnPC(c))
  /\ UNCHANGED <<poolVars, noteVars, rtsafe, sem, flagVars, instVars, prodVars, local,
                 onlyConnect, op>>

(* The backward pass over the local queue, which sends the messages.       *)
Deliver(c) ==
  /\ pc[c] = "deliver"
  /\ cpuLoad \/ local[c] # <<>>
  /\ cpuLoad' = FALSE
  /\ onlyConnect' = [onlyConnect EXCEPT ![c] =
                       ~cpuLoad /\ \A i \in 1..Len(local[c]) : ~event[local[c][i]].feedback]
  /\ Goto(c, "free")
  /\ UNCHANGED <<poolVars, noteVars, rtsafe, sem, running, ready, owed, instVars,
                 prodVars, local, op>>

(* The forward pass gives the nodes back, one at a time.                   *)
FreeNext(c) ==
  /\ pc[c] \in {"free", "drop"}
  /\ local[c] # <<>>
  /\ Deallocate(Head(local[c]))
  /\ event' = [event EXCEPT ![Head(local[c])] = None]
  /\ stray' = stray \ {Head(local[c])}
  /\ silent' = silent \ {Head(local[c])}
  /\ local' = [local EXCEPT ![c] = Tail(@)]
  /\ UNCHANGED <<rtsafe, sem, flagVars, instVars, prodVars, pc, onlyConnect, op>>

(* Wrong: the flag is cleared for a batch that sends no data_finish.       *)
EndBatchAlwaysClears(c) ==
  /\ pc[c] = "free"
  /\ local[c] = <<>>
  /\ ready' = FALSE
  /\ Goto(c, IF ready /\ ~onlyConnect[c] THEN "notify" ELSE ReturnPC(c))
  /\ UNCHANGED <<poolVars, noteVars, rtsafe, sem, running, cpuLoad, owed, instVars,
                 prodVars, local, onlyConnect, op>>

(* "if (g_postevents_ready && !got_only_jack_midi_requests)": the flag is  *)
(* cleared before the message that makes the client set it again is sent.  *)
EndBatch(c) ==
  /\ pc[c] = "free"
  /\ local[c] = <<>>
  /\ IF ready /\ ~onlyConnect[c]
     THEN ready' = FALSE /\ Goto(c, "notify")
     ELSE UNCHANGED ready /\ Goto(c, ReturnPC(c))
  /\ UNCHANGED <<poolVars, noteVars, rtsafe, sem, running, cpuLoad, owed, instVars,
                 prodVars, local, onlyConnect, op>>

(* socket_send_feedback("data_finish").                                    *)
DataFinish(c) ==
  /\ pc[c] = "notify"
  /\ owed' = TRUE
  /\ Goto(c, ReturnPC(c))
  /\ UNCHANGED <<poolVars, noteVars, rtsafe, sem, running, ready, cpuLoad, instVars,
                 prodVars, local, onlyConnect, op>>

Run(c) == Splice(c) \/ NothingToDo(c) \/ Deliver(c) \/ FreeNext(c) \/ EndBatch(c)
            \/ DataFinish(c)

-----------------------------------------------------------------------------
(* PostPonedEventsThread.                                                  *)

FeedbackMoves(from, to) ==
  /\ pc["feedback"] = from
  /\ Goto("feedback", to)
  /\ UNCHANGED <<poolVars, noteVars, rtsafe, flagVars, instVars, prodVars, local,
                 onlyConnect, op>>

(* while (g_postevents_running == 1)                                       *)
TestRunning == FeedbackMoves("test", IF running = 1 THEN "wait" ELSE "dead") /\ UNCHANGED sem

(* sem_timedwait_secs returns 0 having taken a post ...                    *)
TakePost == sem > 0 /\ sem' = sem - 1 /\ FeedbackMoves("wait", "check")

(* ... or times out after a second without one, and the loop starts again. *)
WaitTimeout == sem = 0 /\ FeedbackMoves("wait", "test") /\ UNCHANGED sem

CheckReady ==
  /\ FeedbackMoves("check", IF running = 1 /\ ready THEN "splice" ELSE "test")
  /\ UNCHANGED sem

FeedbackThread == TestRunning \/ TakePost \/ WaitTimeout \/ CheckReady \/ Run("feedback")

-----------------------------------------------------------------------------
(* The command thread.                                                     *)

Idle == pc["command"] = "idle"

CommandMoves(from, to) == pc["command"] = from /\ Goto("command", to)

(* effects_add reaches its end with the JACK client activated.             *)
Add(e) ==
  /\ "add" \in Ops
  /\ Idle /\ e \notin inst
  /\ inst' = inst \cup {e}
  /\ active' = active \cup {e}
  /\ UNCHANGED <<poolVars, noteVars, rtsafe, sem, flagVars, mapped, prodVars, runVars, op>>

(* effects_midi_learn, effects_midi_map or effects_cc_map.                 *)
Map(e) ==
  /\ "map" \in Ops
  /\ Idle /\ e \in inst
  /\ mapped' = mapped \cup {e}
  /\ UNCHANGED <<poolVars, noteVars, rtsafe, sem, flagVars, inst, active, prodVars,
                 runVars, op>>

(* effects_set_beats_per_bar and effects_set_beats_per_minute queue the    *)
(* new position, unless the pool is empty; only the first of them posts.   *)
SetTransport(posts) ==
  /\ "transport" \in Ops
  /\ CommandMoves("idle", IF posts THEN "post" ELSE "idle")
  /\ \E n \in unused :
       /\ AllocateAtomic(n)
       /\ event' = [event EXCEPT ![n] = [feedback |-> TRUE, effect |-> None]]
       /\ rtsafe' = Append(rtsafe, n)
       /\ silent' = IF posts THEN silent ELSE silent \cup {n}
  /\ UNCHANGED <<stray, sem, flagVars, instVars, prodVars, local, onlyConnect, op>>

(* "output_data_ready": the client has read everything up to the last      *)
(* data_finish.  A client may also send it unasked, when it connects.      *)
OutputDataReady ==
  /\ owed \/ "spurious_ready" \in Ops
  /\ CommandMoves("idle", IF ready THEN "idle" ELSE "post")
  /\ ready' = TRUE
  /\ owed' = FALSE
  /\ UNCHANGED <<poolVars, noteVars, rtsafe, sem, running, cpuLoad, instVars, prodVars,
                 local, onlyConnect, op>>

PostPending ==
  /\ CommandMoves("post", "idle")
  /\ SemPost
  /\ UNCHANGED <<poolVars, noteVars, rtsafe, flagVars, instVars, prodVars, local,
                 onlyConnect, op>>

(* effects_monitor_output_parameter with enable = 1 reports the current    *)
(* value of the port, unless the pool is empty.                            *)
EnableMonitor(e) ==
  /\ "monitor_on" \in Ops
  /\ e \in inst
  /\ CommandMoves("idle", "post")
  /\ \E n \in unused :
       /\ AllocateAtomic(n)
       /\ event' = [event EXCEPT ![n] = [feedback |-> TRUE, effect |-> e]]
       /\ rtsafe' = Append(rtsafe, n)
  /\ UNCHANGED <<stray, silent, sem, flagVars, instVars, prodVars, local, onlyConnect, op>>

(* The commands that stop the feedback thread.  effects_remove_multi of a  *)
(* single effect is effects_remove; remove and remove_multi accept effects *)
(* that do not exist; monitor_off is effects_monitor_output_parameter with *)
(* enable = 0 on a monitored port; REMOVE_ALL concerns every instance.     *)
Targets(name) ==
  CASE name = "remove"       -> {{e} : e \in Effect}
    [] name = "remove_multi" -> {T \in SUBSET Effect : \E d, e \in T : d # e}
    [] name = "monitor_off"  -> {{e} : e \in inst}
    [] OTHER                 -> {inst}

Begin(name, targets) ==
  /\ name \in Ops
  /\ targets \in Targets(name)
  /\ CommandMoves("idle", "stop")
  /\ op' = [name |-> name, targets |-> targets]
  /\ UNCHANGED <<poolVars, noteVars, rtsafe, sem, flagVars, instVars, prodVars, local,
                 onlyConnect>>

(* Where a command continues once the feedback thread is stopped.          *)
StoppedPC == IF op.name = "monitor_off" THEN "splice" ELSE "deactivate"

(* Wrong: the command does not join the thread it stopped.                 *)
StopThreadWithoutJoin ==
  /\ pc["command"] = "stop"
  /\ running' = IF op.name = "finish" THEN -1 ELSE 0
  /\ SemPost
  /\ Goto("command", StoppedPC)
  /\ UNCHANGED <<poolVars, noteVars, rtsafe, ready, cpuLoad, owed, instVars, prodVars,
                 local, onlyConnect, op>>

(* Wrong: join first, stop afterwards.                                     *)
StopThreadAfterJoin ==
  /\ pc["command"] = "stop"
  /\ Goto("command", "join")
  /\ UNCHANGED <<poolVars, noteVars, rtsafe, sem, flagVars, instVars, prodVars, local,
                 onlyConnect, op>>

(* "if (g_postevents_running == 1)" { running = 0, sem_post, join } in the *)
(* commands; effects_finish sets -1 and does not look at the flag first.   *)
StopThread ==
  /\ pc["command"] = "stop"
  /\ IF running = 1 \/ op.name = "finish"
     THEN /\ running' = IF op.name = "finish" THEN -1 ELSE 0
          /\ SemPost
          /\ Goto("command", "join")
     ELSE UNCHANGED <<running, sem>> /\ Goto("command", StoppedPC)
  /\ UNCHANGED <<poolVars, noteVars, rtsafe, ready, cpuLoad, owed, instVars, prodVars,
                 local, onlyConnect, op>>

JoinThread ==
  /\ pc["feedback"] = "dead"
  /\ CommandMoves("join", StoppedPC)
  /\ UNCHANGED <<poolVars, noteVars, rtsafe, sem, flagVars, instVars, prodVars, local,
                 onlyConnect, op>>

(* jack_deactivate waits for the end of the client's process cycle.        *)
Deactivate(e) ==
  /\ pc["command"] = "deactivate"
  /\ e \in op.targets \cap active
  /\ holding[e] = None /\ ~needsPost[e]
  /\ active' = active \ {e}
  /\ UNCHANGED <<poolVars, noteVars, rtsafe, sem, flagVars, inst, mapped, prodVars, runVars, op>>

(* effects_remove returns ERR_JACK_CLIENT_DEACTIVATION at once; within     *)
(* effects_finish the error is not looked at, and mod-host goes down.      *)
DeactivateFailed(e) ==
  /\ DeactivateFails
  /\ op.name \in {"remove", "remove_all", "finish"}
  /\ e \in op.targets \cap inst
  /\ CommandMoves("deactivate", IF op.name = "finish" THEN "finished" ELSE "idle")
  /\ op' = NoOp
  /\ UNCHANGED <<poolVars, noteVars, rtsafe, sem, flagVars, instVars, prodVars, local,
                 onlyConnect>>

Deactivated ==
  /\ op.targets \cap active = {}
  /\ CommandMoves("deactivate", "pre")
  /\ UNCHANGED <<poolVars, noteVars, rtsafe, sem, flagVars, instVars, prodVars, local,
                 onlyConnect, op>>

(* Wrong: the effect is deleted with its events still queued.              *)
RemoveWithoutFlush ==
  /\ mapped' = mapped \ op.targets
  /\ CommandMoves("pre", "cleanup")
  /\ UNCHANGED <<poolVars, noteVars, rtsafe, sem, flagVars, inst, active, prodVars, local,
                 onlyConnect, op>>

(* effects_remove_inner_pre clears the assignments of the effects.  For    *)
(* REMOVE_ALL it then takes the whole list and drops the events; otherwise *)
(* RunPostPonedEvents follows.                                             *)
RemoveInnerPre ==
  /\ mapped' = mapped \ op.targets
  /\ IF op.name \in {"remove_all", "finish"}
     THEN /\ CommandMoves("pre", "drop")
          /\ local' = [local EXCEPT !["command"] = rtsafe]
          /\ rtsafe' = <<>>
     ELSE CommandMoves("pre", "splice") /\ UNCHANGED <<local, rtsafe>>
  /\ UNCHANGED <<poolVars, noteVars, sem, flagVars, inst, active, prodVars,
                 onlyConnect, op>>

Dropped ==
  /\ local["command"] = <<>>
  /\ CommandMoves("drop", "cleanup")
  /\ UNCHANGED <<poolVars, noteVars, rtsafe, sem, flagVars, instVars, prodVars, local,
                 onlyConnect, op>>

(* effects_remove_inner_loop of every target that exists.                  *)
Cleanup ==
  /\ CommandMoves("cleanup", "restart")
  /\ inst' = inst \ op.targets
  /\ UNCHANGED <<poolVars, noteVars, rtsafe, sem, flagVars, active, mapped, prodVars,
                 local, onlyConnect, op>>

(* Wrong: the thread is started again without a look at the flag.          *)
RestartThreadAlways ==
  /\ pc["command"] = "restart"
  /\ running' = 1
  /\ pc' = [pc EXCEPT !["command"] = IF op.name = "finish" THEN "finished" ELSE "idle",
                      !["feedback"] = "test"]
  /\ op' = NoOp
  /\ UNCHANGED <<poolVars, noteVars, rtsafe, sem, ready, cpuLoad, owed, instVars,
                 prodVars, local, onlyConnect>>

(* Wrong: the thread is not started again.                                 *)
NoRestart ==
  /\ pc["command"] = "restart"
  /\ pc' = [pc EXCEPT !["command"] = "idle"]
  /\ op' = NoOp
  /\ UNCHANGED <<poolVars, noteVars, rtsafe, sem, flagVars, instVars,
                 prodVars, local, onlyConnect>>

(* "start thread again", unless mod-host is about to close.                *)
RestartThread ==
  /\ pc["command"] = "restart"
  /\ running' = IF running = 0 THEN 1 ELSE running
  /\ pc' = [pc EXCEPT !["command"] = IF op.name = "finish" THEN "finished" ELSE "idle",
                      !["feedback"] = IF running = 0 THEN "test" ELSE @]
  /\ op' = NoOp
  /\ UNCHANGED <<poolVars, noteVars, rtsafe, sem, ready, cpuLoad, owed, instVars,
                 prodVars, local, onlyConnect>>

Command ==
  \/ \E e \in Effect : Add(e) \/ Map(e) \/ EnableMonitor(e)
  \/ \E posts \in BOOLEAN : SetTransport(posts)
  \/ OutputDataReady
  \/ PostPending
  \/ \E name \in OpName, T \in SUBSET Effect : Begin(name, T)
  \/ StopThread
  \/ JoinThread
  \/ \E e \in Effect : Deactivate(e) \/ DeactivateFailed(e)
  \/ Deactivated
  \/ RemoveInnerPre
  \/ Dropped
  \/ Cleanup
  \/ RestartThread
  \/ Run("command")

-----------------------------------------------------------------------------
Produce(p) == LookUp(p) \/ Reserve(p) \/ GiveUp(p) \/ Enqueue(p) \/ EnqueueTransport(p)
                \/ Post(p)

Next == \/ \E p \in Producer : Produce(p)
        \/ TriggerCpuLoad
        \/ FeedbackThread
        \/ Command

Spec == Init /\ [][Next]_vars

(* Fairness.  The feedback thread and the command thread are scheduled; a  *)
(* process cycle ends, and with it the producer posts, however many events *)
(* it has queued; jack_deactivate returns once a cycle has ended; and the  *)
(* client answers every data_finish, its command being read in turn.       *)
(* Nothing makes producers produce or clients issue commands.              *)
Progress(p) ==
  \/ Enqueue(p) \/ EnqueueTransport(p)
  \/ Busy(p) /\ (Reserve(p) \/ GiveUp(p))

CommandSteps ==
  PostPending \/ StopThread \/ JoinThread \/ Deactivated \/ RemoveInnerPre \/ Dropped
    \/ Cleanup \/ RestartThread \/ Run("command")

Fairness ==
  /\ WF_vars(FeedbackThread)
  /\ WF_vars(CommandSteps)
  /\ \A p \in Producer : WF_vars(Progress(p)) /\ SF_vars(Post(p))
  /\ \A e \in Effect : SF_vars(Deactivate(e))
  /\ SF_vars(owed /\ OutputDataReady)

FairSpec == Spec /\ Fairness

-----------------------------------------------------------------------------
(* Properties.                                                             *)

Distinct(s) == \A i, j \in 1..Len(s) : s[i] = s[j] => i = j

HeldNodes == {holding[p] : p \in Producer} \ {None}

(* No event is lost and none is freed twice: a node in use is held by one  *)
(* producer, or is once on g_rtsafe_list, or once on the local queue of    *)
(* one consumer, and every other node is on the unused list.               *)
NodesAccounted ==
  /\ unused = Node \ used
  /\ used = HeldNodes \cup NodesOf(rtsafe) \cup NodesOf(local["feedback"])
                      \cup NodesOf(local["command"])
  /\ HeldNodes \cap NodesOf(rtsafe) = {}
  /\ (HeldNodes \cup NodesOf(rtsafe)) \cap
       (NodesOf(local["feedback"]) \cup NodesOf(local["command"])) = {}
  /\ NodesOf(local["feedback"]) \cap NodesOf(local["command"]) = {}
  /\ Distinct(rtsafe) /\ \A c \in Consumer : Distinct(local[c])
  /\ \A p, q \in Producer : holding[p] = holding[q] => p = q \/ holding[p] = None

(* RunPostPonedEvents and the instance table are never used by both        *)
(* threads: past the join, a command works with the feedback thread dead.  *)
ConsumerExclusion ==
  pc["command"] \in RunPC \cup {"deactivate", "pre", "drop", "cleanup", "restart"}
    => pc["feedback"] = "dead"

(* The nodes in the hands of threads that removing an effect cannot stop.  *)
HeldOutside == {holding[p] : p \in Outside}

(* What an event names outlives the event: effects_remove and              *)
(* effects_remove_multi stop the effects' own clients, clear the           *)
(* assignments and then flush the list, so whatever the effects' clients   *)
(* or the outside threads queue about an effect is off the list when it is *)
(* deleted.  The one exception is an event of an outside thread that had   *)
(* looked the assignment up before it was cleared and queues the event     *)
(* afterwards.                                                             *)
EventsNameInstances ==
  \A n \in used \ HeldOutside : event[n].effect \in inst \cup {None} \/ n \in stray

(* "as all effects are valid we set ignored_effect_id to -3" (the comment  *)
(* in PostPonedEventsThread): the feedback thread's batch is about effects *)
(* that exist.  The stray events of EventsNameInstances refute it.         *)
AllEffectsValid ==
  pc["feedback"] = "deliver"
    => \A i \in 1..Len(local["feedback"]) :
         event[local["feedback"][i]].effect \in inst \cup {None}

(* The feedback thread sends nothing between a data_finish and the         *)
(* client's output_data_ready (a flush by the command thread may).         *)
FeedbackOnlyWhenReady == pc["feedback"] \in {"splice", "deliver"} => ready

(* The client's turn cannot get lost: whenever the thread may not send, a  *)
(* data_finish is on its way to the client or waits for its answer.        *)
HandshakeNeverStalls == ready \/ owed \/ \E c \in Consumer : pc[c] = "notify"

(* There is a post, or there will be one without anybody's help.           *)
Woken == sem > 0 \/ pc["command"] = "post" \/ \E p \in Producer : needsPost[p]

(* The list has an event whose producer posts for it.  The others (set_bpm *)
(* and a transport parameter that found no second node) are left to the    *)
(* next post that anybody makes.                                           *)
Heralded == NodesOf(rtsafe) \ silent # {}

(* No lost wakeup: a queued event that may be sent, and whose producer     *)
(* posts at all, is never left to a sleeping thread without a post that is *)
(* pending or about to be made, whichever thread's batch or flush, stop or *)
(* restart comes between the two.                                          *)
NoLostWakeup ==
  Heralded /\ ready /\ running = 1 /\ pc["feedback"] \in {"test", "wait"} => Woken

(* "start thread again": when no command is being executed the feedback    *)
(* thread is running.                                                      *)
FeedbackRunsBetweenCommands == Idle => pc["feedback"] # "dead"

(* Once mod-host closes, the thread that effects_finish joined is never    *)
(* started again, although effects_remove(REMOVE_ALL) runs after it.       *)
NoRestartAfterClose ==
  [][running = -1 => running' = -1 /\ (pc["feedback"] = "dead" => pc'["feedback"] = "dead")]_vars

(* Every event that is posted for is taken off the list, and with it those *)
(* that are not, whatever commands stop and start the thread, as long as   *)
(* the client answers; and any post, whoever makes it, takes off the       *)
(* events that nobody posted for.                                          *)
QueueIsDrained == (Heralded \/ (rtsafe # <<>> /\ Woken)) ~> rtsafe = <<>>

(* Every command that stops the thread returns: the join does not wait for *)
(* a thread that sleeps, nor the flush for a client that does not answer.  *)
CommandsReturn == ~Idle ~> Idle

(* The pipeline is a first-in first-out queue of events: what is on the    *)
(* local queue of the thread in RunPostPonedEvents, then g_rtsafe_list.    *)
Contents(s) == [i \in 1..Len(s) |-> event[s[i]]]

Pipeline == local["feedback"] \o local["command"] \o rtsafe

Queue == INSTANCE EventQueue WITH Message <- Event, queue <- Contents(Pipeline)

ImplementsQueue == Queue!QueueSpec
=============================================================================
