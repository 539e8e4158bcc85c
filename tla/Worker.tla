------------------------------- MODULE Worker -------------------------------
(***************************************************************************)
(* worker.c: the non-realtime thread of one plugin.                        *)
(*                                                                         *)
(* The plugin schedules requests from its cycle (and, in a restore that    *)
(* excludes the cycle, from the command thread); a thread works on them    *)
(* and responds; the next cycle hands the responses to the plugin.  Both   *)
(* ways are JACK ring buffers (external: one reader, one writer, every     *)
(* write seen whole), in which a message is two writes, size and body.     *)
(***************************************************************************)
EXTENDS Integers, Sequences

CONSTANTS
  Request,      \* what a plugin may schedule
  Size,         \* the size of the body of each, as of the response to it
  Room,         \* what fits into a ring
  SemMax        \* a further post of the semaphore makes no difference

NoRequest == "none"

ASSUME WorkerAssumption ==
  /\ NoRequest \notin Request
  /\ Size \in [Request -> Nat \ {0}]
  /\ Room \in Nat /\ SemMax \in Nat \ {0}

VARIABLES
  requests, responses,  \* the rings, as what was written to them
  rings,                \* both have been created and not been freed
  sem,                  \* worker->sem
  exit,                 \* worker->exit
  thread,               \* what worker_func does: its label and its message
  scheduling,           \* the request whose size was written, or NoRequest
  client                \* the thread that creates and finishes the worker

workerVars == <<requests, responses, rings, sem, exit, thread, scheduling, client>>

Field == [part : {"size", "body"}, of : Request]
SizeOf(m) == [part |-> "size", of |-> m]
BodyOf(m) == [part |-> "body", of |-> m]

(* One unit for the size field.                                            *)
Taken(p) == IF p.part = "size" THEN 1 ELSE Size[p.of]

Used(ring) ==
  LET used[n \in 0..Len(ring)] == IF n = 0 THEN 0 ELSE used[n - 1] + Taken(ring[n])
  IN  used[Len(ring)]

WorkerTypeOK ==
  /\ requests \in Seq(Field) /\ responses \in Seq(Field)
  /\ Used(requests) <= Room /\ Used(responses) <= Room
  /\ rings \in BOOLEAN /\ sem \in 0..SemMax /\ exit \in BOOLEAN
  /\ thread \in [at : {"none", "sleep", "loop", "over"}, message : {NoRequest}]
        \cup [at : {"work", "respond"}, message : Request]
  /\ scheduling \in Request \cup {NoRequest}
  /\ client \in {"out", "rings", "in", "post", "join"}

ThreadAt(label) == [at |-> label, message |-> NoRequest]

WorkerInit ==
  /\ requests = <<>> /\ responses = <<>> /\ rings = FALSE
  /\ sem = 0 /\ exit = FALSE
  /\ thread = ThreadAt("none") /\ scheduling = NoRequest
  /\ client = "out"

PostSem == sem' = IF sem < SemMax THEN sem + 1 ELSE sem

Fits(m, ring) == Used(ring) + 1 + Size[m] <= Room

-----------------------------------------------------------------------------
(* worker_init creates the thread first and the rings then.                *)

WorkerCreate ==
  /\ client = "out" /\ client' = "rings"
  /\ sem' = 0 /\ exit' = FALSE /\ thread' = ThreadAt("sleep")
  /\ UNCHANGED <<requests, responses, rings, scheduling>>

WorkerRings ==
  /\ client = "rings" /\ client' = "in"
  /\ requests' = <<>> /\ responses' = <<>> /\ rings' = TRUE
  /\ UNCHANGED <<sem, exit, thread, scheduling>>

(* worker_finish, when the plugin is no longer run.                        *)
FinishExit ==
  /\ client = "in" /\ scheduling = NoRequest
  /\ client' = "post" /\ exit' = TRUE
  /\ UNCHANGED <<requests, responses, rings, sem, thread, scheduling>>

(* Wrong: the thread is only woken when there is work to be dropped.       *)
FinishPostLazy ==
  /\ client = "post" /\ client' = "join"
  /\ IF requests # <<>> THEN PostSem ELSE UNCHANGED sem
  /\ UNCHANGED <<requests, responses, rings, exit, thread, scheduling>>

FinishPost ==
  /\ client = "post" /\ client' = "join"
  /\ PostSem
  /\ UNCHANGED <<requests, responses, rings, exit, thread, scheduling>>

(* Wrong: the rings are freed while the thread may be at work.             *)
FinishUnjoined ==
  /\ client = "join" /\ client' = "out"
  /\ thread' = IF thread.at = "over" THEN ThreadAt("none") ELSE thread
  /\ requests' = <<>> /\ responses' = <<>> /\ rings' = FALSE
  /\ UNCHANGED <<sem, exit, scheduling>>

FinishJoin ==
  /\ client = "join" /\ thread.at = "over"
  /\ client' = "out" /\ thread' = ThreadAt("none")
  /\ requests' = <<>> /\ responses' = <<>> /\ rings' = FALSE
  /\ UNCHANGED <<sem, exit, scheduling>>

-----------------------------------------------------------------------------
(* worker_schedule.  A request for which there is no room is refused.      *)

ScheduleSize(m) ==
  /\ client = "in" /\ scheduling = NoRequest /\ Fits(m, requests)
  /\ requests' = Append(requests, SizeOf(m)) /\ scheduling' = m
  /\ UNCHANGED <<responses, rings, sem, exit, thread, client>>

ScheduleBody ==
  /\ scheduling # NoRequest
  /\ requests' = Append(requests, BodyOf(scheduling)) /\ scheduling' = NoRequest
  /\ PostSem
  /\ UNCHANGED <<responses, rings, exit, thread, client>>

(* worker_emit_responses stops at a response that is not complete.         *)
EmitResponse ==
  /\ client = "in" /\ Len(responses) >= 2
  /\ responses' = SubSeq(responses, 3, Len(responses))
  /\ UNCHANGED <<requests, rings, sem, exit, thread, scheduling, client>>

-----------------------------------------------------------------------------
(* worker_func.                                                            *)

Wake ==
  /\ thread.at = "sleep" /\ sem > 0
  /\ sem' = sem - 1
  /\ thread' = ThreadAt(IF exit THEN "over" ELSE "loop")
  /\ UNCHANGED <<requests, responses, rings, exit, scheduling, client>>

Drained ==
  /\ thread.at = "loop" /\ requests = <<>>
  /\ thread' = ThreadAt("sleep")
  /\ UNCHANGED <<requests, responses, rings, sem, exit, scheduling, client>>

(* Wrong: of a request for which there is no memory only the size is taken.*)
TakeRequestInPart ==
  /\ thread.at = "loop" /\ Len(requests) >= 2
  /\ \/ /\ requests' = SubSeq(requests, 3, Len(requests))
        /\ thread' = [at |-> "work", message |-> requests[1].of]
     \/ requests' = Tail(requests) /\ UNCHANGED thread
  /\ UNCHANGED <<responses, rings, sem, exit, scheduling, client>>

(* A size without its body is looked at again; realloc may fail, and the   *)
(* request is lost.                                                        *)
TakeRequest ==
  /\ thread.at = "loop" /\ Len(requests) >= 2
  /\ requests' = SubSeq(requests, 3, Len(requests))
  /\ thread' \in {[at |-> "work", message |-> requests[1].of], ThreadAt("loop")}
  /\ UNCHANGED <<responses, rings, sem, exit, scheduling, client>>

(* work() returns, or first responds with worker_respond, if there is room.*)
WorkEnd ==
  /\ thread.at = "work" /\ thread' = ThreadAt("loop")
  /\ UNCHANGED <<requests, responses, rings, sem, exit, scheduling, client>>

RespondSize ==
  /\ thread.at = "work" /\ Fits(thread.message, responses)
  /\ responses' = Append(responses, SizeOf(thread.message))
  /\ thread' = [thread EXCEPT !.at = "respond"]
  /\ UNCHANGED <<requests, rings, sem, exit, scheduling, client>>

RespondBody ==
  /\ thread.at = "respond" /\ thread' = ThreadAt("loop")
  /\ responses' = Append(responses, BodyOf(thread.message))
  /\ UNCHANGED <<requests, rings, sem, exit, scheduling, client>>

WorkerThread == Wake \/ Drained \/ TakeRequest \/ WorkEnd \/ RespondSize \/ RespondBody

WorkerClient ==
  \/ WorkerCreate \/ WorkerRings \/ FinishExit \/ FinishPost \/ FinishJoin
  \/ \E m \in Request : ScheduleSize(m)
  \/ ScheduleBody \/ EmitResponse

WorkerNext == WorkerThread \/ WorkerClient

(* The thread runs, a cycle that has begun to schedule ends, and so does   *)
(* worker_finish.                                                          *)
WorkerFairness ==
  /\ WF_workerVars(WorkerThread) /\ WF_workerVars(ScheduleBody)
  /\ WF_workerVars(FinishPost) /\ WF_workerVars(FinishJoin)

-----------------------------------------------------------------------------
(* Properties.                                                             *)

(* The thread sleeps on work only when it has been or will be woken.       *)
NoSleepOnWork ==
  thread.at = "sleep" /\ Len(requests) >= 2 /\ ~exit => sem > 0

(* The rings exist whenever the thread looks at them, from its creation,   *)
(* which comes before theirs, to the end of worker_finish.                 *)
RingsOutliveThread == thread.at \notin {"none", "sleep", "over"} => rings

(* The messages of a ring, without one whose body is still to be written.  *)
Messages(ring) == [i \in 1..(Len(ring) \div 2) |-> ring[2 * i].of]

(* Reader and writer agree where messages begin and end: in a ring every   *)
(* size is followed by its body, and only the message that is being        *)
(* written is incomplete.  This is what lets the reader of a ring take two *)
(* writes for one message.                                                 *)
Framed(ring, writing) ==
  /\ \A i \in DOMAIN ring :
       ring[i] = IF i % 2 = 1 THEN SizeOf(ring[i].of) ELSE BodyOf(ring[i - 1].of)
  /\ (Len(ring) % 2 = 1) = (writing # NoRequest)

RingsFramed ==
  /\ Framed(requests, scheduling)
  /\ Framed(responses, IF thread.at = "respond" THEN thread.message ELSE NoRequest)

(* The thread and the plugin read and write rings that exist, in whole     *)
(* messages, and the thread does not sleep on one.                         *)
RingsSound == WorkerTypeOK /\ RingsOutliveThread /\ RingsFramed /\ NoSleepOnWork

(* Between creation and exit the requests are a queue: every one that was  *)
(* accepted is taken off once, in order, until worker_finish drops the     *)
(* rest.                                                                   *)
PendingRequests == IF exit THEN <<>> ELSE Messages(requests)

RequestQueue == INSTANCE EventQueue WITH Message <- Request, queue <- PendingRequests

RequestsAreQueue ==
  [][RequestQueue!Put \/ RequestQueue!Get \/ exit' # exit]_PendingRequests

(* Requests are not left in the ring: unless the plugin is removed, the    *)
(* thread takes them off as long as there are any.  And worker_finish,     *)
(* which waits for the thread, comes to an end.                            *)
RequestsAreWorked ==
  \/ []<>(Len(requests) < 2 \/ exit)
  \/ []<><<TakeRequest>>_workerVars

FinishReturns == (client = "post") ~> (client = "out")

WorkerLives == RequestsAreWorked /\ FinishReturns
=============================================================================
