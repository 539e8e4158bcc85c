-------------------------- MODULE PostEventsProofs --------------------------
(***************************************************************************)
(* Proofs about the postponed-event pipeline, for any set of effects, any  *)
(* pool and any set of commands.                                           *)
(***************************************************************************)
EXTENDS PostEvents, SequenceTheorems, TLAPS

-----------------------------------------------------------------------------
(* Type correctness.                                                       *)

LEMMA InitTypeOK == Init => TypeOK
<1> SUFFICES ASSUME Init
             PROVE  TypeOK
  OBVIOUS
<1> USE DEF Init
<1>1. PoolTypeOK
  BY DEF PoolInit, PoolTypeOK
<1>2. /\ rtsafe \in Seq(Node)
      /\ local \in [Consumer -> Seq(Node)]
  BY EmptySeq
<1>3. /\ pc \in [Consumer -> FeedbackPC \cup CommandPC]
      /\ pc["feedback"] \in FeedbackPC
      /\ pc["command"] \in CommandPC
  BY DEF Consumer, FeedbackPC, CommandPC
<1>4. sem \in 0..SemMax
  BY PostEventsAssumption
<1>5. op \in [name : OpName \cup {"none"}, targets : SUBSET Effect]
  BY DEF NoOp
<1> QED
  BY <1>1, <1>2, <1>3, <1>4, <1>5 DEF TypeOK

LEMMA NextTypeOK == TypeOK /\ [Next]_vars => TypeOK'
<1> SUFFICES ASSUME TypeOK, [Next]_vars
             PROVE  TypeOK'
  OBVIOUS
<1> USE DEF TypeOK, PoolTypeOK
<1>1. ASSUME NEW p \in Producer, Reserve(p)
      PROVE  TypeOK'
  <2>1. PICK n \in unused, e \in EventFrom(p) :
          /\ AllocateAtomic(n)
          /\ holding' = [holding EXCEPT ![p] = n]
          /\ event' = [event EXCEPT ![n] = e]
    BY <1>1 DEF Reserve
  <2>2. Runs(p) /\ e \in Event
    BY <1>1 DEF Reserve, Runs, EventFrom, Event
  <2>3. task' \in [Outside -> Effect \cup {None, Transport}]
    BY <1>1 DEF Reserve, Busy
  <2> QED
    BY <1>1, <2>1, <2>2, <2>3 DEF Reserve, AllocateAtomic, flagVars, instVars, runVars
<1>2. ASSUME NEW p \in Producer, Enqueue(p)
      PROVE  TypeOK'
  <2>1. /\ holding[p] \in Node
        /\ stray' \subseteq Node
        /\ task' \in [Outside -> Effect \cup {None, Transport}]
    BY <1>2 DEF Enqueue, Strays, Busy
  <2> QED
    BY <1>2, <2>1 DEF Enqueue, poolVars, flagVars, instVars, runVars
<1>9. ASSUME NEW p \in Producer, EnqueueTransport(p)
      PROVE  TypeOK'
  <2>1. holding[p] \in Node
    BY <1>9 DEF EnqueueTransport
  <2> QED
    BY <1>9, <2>1 DEF EnqueueTransport, poolVars, flagVars, instVars, runVars
<1>10. ASSUME NEW p \in Producer, LookUp(p) \/ GiveUp(p)
       PROVE  TypeOK'
  BY <1>10 DEF LookUp, GiveUp, Busy, poolVars, noteVars, flagVars, instVars, runVars
<1>3. ASSUME NEW p \in Producer, Post(p)
      PROVE  TypeOK'
  BY <1>3, PostEventsAssumption
  DEF Post, SemPost, poolVars, noteVars, flagVars, instVars, runVars
<1>4. CASE TriggerCpuLoad
  BY <1>4 DEF TriggerCpuLoad, poolVars, noteVars, instVars, runVars, Producer
<1>5. ASSUME NEW c \in Consumer, Run(c)
      PROVE  TypeOK'
  <2> DEFINE TypeOfPC == /\ pc' \in [Consumer -> FeedbackPC \cup CommandPC]
                         /\ pc'["feedback"] \in FeedbackPC
                         /\ pc'["command"] \in CommandPC
  <2>1. \A label \in RunPC \cup {ReturnPC(c)} : Goto(c, label) => TypeOfPC
    BY DEF Goto, Consumer, ReturnPC, RunPC, FeedbackPC, CommandPC
  <2> HIDE DEF TypeOfPC
  <2>2. CASE Splice(c)
    <3>1. TypeOfPC
      BY <2>1, <2>2 DEF Splice, RunPC
    <3> QED
      BY <2>2, <3>1, EmptySeq DEF TypeOfPC, Splice, poolVars, noteVars, flagVars, instVars, prodVars
  <2>3. CASE NothingToDo(c)
    <3>1. TypeOfPC
      BY <2>1, <2>3 DEF NothingToDo
    <3> QED
      BY <2>3, <3>1 DEF TypeOfPC, NothingToDo, poolVars, noteVars, flagVars, instVars, prodVars
  <2>4. CASE Deliver(c)
    <3>1. TypeOfPC
      BY <2>1, <2>4 DEF Deliver, RunPC
    <3> QED
      BY <2>4, <3>1 DEF TypeOfPC, Deliver, poolVars, noteVars, instVars, prodVars
  <2>5. CASE FreeNext(c)
    <3>1. Head(local[c]) \in Node /\ Tail(local[c]) \in Seq(Node)
      BY <2>5 DEF FreeNext
    <3> QED
      BY <2>5, <3>1 DEF FreeNext, Deallocate, flagVars, instVars, prodVars
  <2>6. CASE EndBatch(c)
    <3>1. TypeOfPC
      BY <2>1, <2>6 DEF EndBatch, RunPC
    <3> QED
      BY <2>6, <3>1 DEF TypeOfPC, EndBatch, poolVars, noteVars, instVars, prodVars
  <2>7. CASE DataFinish(c)
    <3>1. TypeOfPC
      BY <2>1, <2>7 DEF DataFinish, RunPC
    <3> QED
      BY <2>7, <3>1 DEF TypeOfPC, DataFinish, poolVars, noteVars, instVars, prodVars
  <2> QED
    BY <1>5, <2>2, <2>3, <2>4, <2>5, <2>6, <2>7 DEF Run
<1>6. CASE FeedbackThread
  <2>1. \A to \in {"wait", "dead", "test", "check", "splice"} :
          Goto("feedback", to) => /\ pc' \in [Consumer -> FeedbackPC \cup CommandPC]
                                  /\ pc'["feedback"] \in FeedbackPC
                                  /\ pc'["command"] \in CommandPC
    BY DEF Goto, Consumer, FeedbackPC
  <2>2. CASE TestRunning
    BY <2>1, <2>2 DEF TestRunning, FeedbackMoves, poolVars, noteVars, flagVars, instVars, prodVars
  <2>3. CASE TakePost
    BY <2>1, <2>3, PostEventsAssumption
    DEF TakePost, FeedbackMoves, poolVars, noteVars, flagVars, instVars, prodVars
  <2>4. CASE WaitTimeout
    BY <2>1, <2>4 DEF WaitTimeout, FeedbackMoves, poolVars, noteVars, flagVars, instVars, prodVars
  <2>5. CASE CheckReady
    BY <2>1, <2>5 DEF CheckReady, FeedbackMoves, poolVars, noteVars, flagVars, instVars, prodVars
  <2> QED
    BY <1>5, <1>6, <2>2, <2>3, <2>4, <2>5 DEF FeedbackThread, Consumer
<1>7. CASE Command
  <2>1. \A to \in CommandPC :
          Goto("command", to) => /\ pc' \in [Consumer -> FeedbackPC \cup CommandPC]
                                 /\ pc'["feedback"] \in FeedbackPC
                                 /\ pc'["command"] \in CommandPC
    BY DEF Goto, Consumer
  <2>2. ASSUME NEW e \in Effect, Add(e)
        PROVE  TypeOK'
    BY <2>2 DEF Add, poolVars, noteVars, flagVars, prodVars, runVars
  <2>16. ASSUME NEW e \in Effect, Map(e)
         PROVE  TypeOK'
    BY <2>16 DEF Map, poolVars, noteVars, flagVars, prodVars, runVars
  <2>17. ASSUME NEW posts \in BOOLEAN, SetTransport(posts)
         PROVE  TypeOK'
    <3>1. PICK n \in unused :
            /\ AllocateAtomic(n)
            /\ event' = [event EXCEPT ![n] = [feedback |-> TRUE, effect |-> None]]
            /\ rtsafe' = Append(rtsafe, n)
            /\ silent' \subseteq silent \cup {n}
      BY <2>17 DEF SetTransport
    <3>2. [feedback |-> TRUE, effect |-> None] \in Event
      BY DEF Event
    <3>3. {"post", "idle"} \subseteq CommandPC
      BY DEF CommandPC
    <3> QED
      BY <2>1, <2>17, <3>1, <3>2, <3>3
      DEF SetTransport, CommandMoves, AllocateAtomic, flagVars, instVars, prodVars
  <2>3. ASSUME NEW e \in Effect, EnableMonitor(e)
        PROVE  TypeOK'
    <3>1. PICK n \in unused :
            /\ AllocateAtomic(n)
            /\ event' = [event EXCEPT ![n] = [feedback |-> TRUE, effect |-> e]]
            /\ rtsafe' = Append(rtsafe, n)
      BY <2>3 DEF EnableMonitor
    <3>2. [feedback |-> TRUE, effect |-> e] \in Event
      BY DEF Event
    <3>3. "post" \in CommandPC
      BY DEF CommandPC
    <3> QED
      BY <2>1, <2>3, <3>1, <3>2, <3>3
      DEF EnableMonitor, CommandMoves, AllocateAtomic, flagVars, instVars, prodVars
  <2>4. CASE OutputDataReady
    BY <2>1, <2>4 DEF OutputDataReady, CommandMoves, CommandPC, poolVars, noteVars, instVars, prodVars
  <2>5. CASE PostPending
    BY <2>1, <2>5, PostEventsAssumption
    DEF PostPending, CommandMoves, SemPost, CommandPC, poolVars, noteVars, flagVars, instVars, prodVars
  <2>6. ASSUME NEW name \in OpName, NEW T \in SUBSET Effect, Begin(name, T)
        PROVE  TypeOK'
    BY <2>1, <2>6
    DEF Begin, CommandMoves, CommandPC, poolVars, noteVars, flagVars, instVars, prodVars
  <2>7. CASE StopThread
    BY <2>1, <2>7, PostEventsAssumption
    DEF StopThread, StoppedPC, SemPost, CommandPC, poolVars, noteVars, instVars, prodVars
  <2>8. CASE JoinThread
    BY <2>1, <2>8
    DEF JoinThread, CommandMoves, StoppedPC, CommandPC, poolVars, noteVars, flagVars, instVars, prodVars
  <2>9. ASSUME NEW e \in Effect, Deactivate(e)
        PROVE  TypeOK'
    BY <2>9 DEF Deactivate, poolVars, noteVars, flagVars, prodVars, runVars
  <2>10. ASSUME NEW e \in Effect, DeactivateFailed(e)
         PROVE  TypeOK'
    BY <2>1, <2>10
    DEF DeactivateFailed, CommandMoves, NoOp, CommandPC, poolVars, noteVars, flagVars, instVars, prodVars
  <2>11. CASE Deactivated
    BY <2>1, <2>11
    DEF Deactivated, CommandMoves, CommandPC, poolVars, noteVars, flagVars, instVars, prodVars
  <2>12. CASE RemoveInnerPre
    <3>1. \E to \in CommandPC : Goto("command", to)
      BY <2>12 DEF RemoveInnerPre, CommandMoves, CommandPC
    <3>2. rtsafe' \in Seq(Node) /\ local' \in [Consumer -> Seq(Node)]
      BY <2>12, EmptySeq, ZenonT(60) DEF RemoveInnerPre
    <3> QED
      BY <2>1, <2>12, <3>1, <3>2
      DEF RemoveInnerPre, poolVars, noteVars, flagVars, instVars, prodVars
  <2>13. CASE Dropped
    BY <2>1, <2>13
    DEF Dropped, CommandMoves, CommandPC, poolVars, noteVars, flagVars, instVars, prodVars
  <2>14. CASE Cleanup
    BY <2>1, <2>14 DEF Cleanup, CommandMoves, CommandPC, poolVars, noteVars, flagVars, prodVars
  <2>15. CASE RestartThread
    BY <2>15
    DEF RestartThread, NoOp, Consumer, CommandPC, FeedbackPC, poolVars, noteVars, instVars, prodVars
  <2> QED
    BY <1>5, <1>7, <2>2, <2>3, <2>4, <2>5, <2>6, <2>7, <2>8, <2>9, <2>10, <2>11, <2>12,
       <2>13, <2>14, <2>15, <2>16, <2>17 DEF Command, Consumer
<1>8. CASE UNCHANGED vars
  BY <1>8 DEF vars, poolVars, noteVars, flagVars, instVars, prodVars, runVars
<1> QED
  BY <1>1, <1>2, <1>3, <1>4, <1>6, <1>7, <1>8, <1>9, <1>10 DEF Next, Produce

(* Every variable keeps its type, whatever the constants are.              *)
THEOREM TypeCorrect == Spec => []TypeOK
  BY InitTypeOK, NextTypeOK, PTL DEF Spec

-----------------------------------------------------------------------------
(* Control: who runs when.                                                 *)

(* The inductive strengthening of ConsumerExclusion.  g_postevents_running *)
(* tells the state of the feedback thread, except while a command is       *)
(* between clearing it and the end of the join; -1 belongs to finish.      *)
ControlInv ==
  /\ ConsumerExclusion
  /\ running = 0 /\ pc["command"] # "join" => pc["feedback"] = "dead"
  /\ running = 1 => /\ pc["feedback"] # "dead"
                    /\ pc["command"] \in {"idle", "post", "stop"}
  /\ running = -1 => \/ pc["command"] = "finished"
                     \/ op.name = "finish" /\ pc["command"] # "stop"
  /\ op.name = "finish" => running = -1 \/ pc["command"] = "stop"
  /\ pc["command"] \in {"idle", "post", "finished"} => op = NoOp

(* The steps that leave the control state alone.                           *)
Elsewhere == \/ \E p \in Producer : Produce(p)
             \/ TriggerCpuLoad
             \/ \E e \in Effect : Add(e) \/ Map(e) \/ Deactivate(e)

LEMMA ElsewhereFrame ==
  Elsewhere => UNCHANGED <<pc, running, ready, owed, op, local, onlyConnect>>
  BY DEF Elsewhere, Produce, LookUp, Reserve, GiveUp, Enqueue, EnqueueTransport, Post,
         TriggerCpuLoad, Add, Map, Deactivate, flagVars, runVars

(* The commands that queue an event themselves.                            *)
CommandReports == \/ \E e \in Effect : EnableMonitor(e)
                  \/ \E posts \in BOOLEAN : SetTransport(posts)

(* They queue event v in node n and continue at to.                        *)
Reports(n, v, to) ==
  /\ AllocateAtomic(n)
  /\ event' = [event EXCEPT ![n] = v]
  /\ rtsafe' = Append(rtsafe, n)
  /\ silent' = IF to = "post" THEN silent ELSE silent \cup {n}
  /\ pc["command"] = "idle" /\ Goto("command", to)
  /\ v.effect \in inst \cup {None}
  /\ UNCHANGED <<stray, sem, flagVars, instVars, prodVars, local, onlyConnect, op>>

LEMMA ReportsShape ==
  ASSUME CommandReports
  PROVE  \E n \in unused, v \in Event, to \in {"idle", "post"} : Reports(n, v, to)
<1>1. ASSUME NEW e \in Effect, EnableMonitor(e)
      PROVE  \E n \in unused, v \in Event, to \in {"idle", "post"} : Reports(n, v, to)
  <2> DEFINE v == [feedback |-> TRUE, effect |-> e]
  <2>1. PICK n \in unused : /\ AllocateAtomic(n)
                            /\ event' = [event EXCEPT ![n] = v]
                            /\ rtsafe' = Append(rtsafe, n)
    BY <1>1 DEF EnableMonitor
  <2>2. v \in Event /\ v.effect = e
    BY DEF Event
  <2> HIDE DEF v
  <2>3. Reports(n, v, "post")
    BY <1>1, <2>1, <2>2 DEF EnableMonitor, CommandMoves, Reports
  <2> QED
    BY <2>2, <2>3
<1>2. ASSUME NEW posts \in BOOLEAN, SetTransport(posts)
      PROVE  \E n \in unused, v \in Event, to \in {"idle", "post"} : Reports(n, v, to)
  <2> DEFINE v == [feedback |-> TRUE, effect |-> None]
  <2>1. PICK n \in unused : /\ AllocateAtomic(n)
                            /\ event' = [event EXCEPT ![n] = v]
                            /\ rtsafe' = Append(rtsafe, n)
                            /\ silent' = IF posts THEN silent ELSE silent \cup {n}
    BY <1>2 DEF SetTransport
  <2>2. v \in Event /\ v.effect = None
    BY DEF Event
  <2> HIDE DEF v
  <2>3. CASE posts
    <3>1. Reports(n, v, "post")
      BY <1>2, <2>1, <2>2, <2>3 DEF SetTransport, CommandMoves, Reports
    <3> QED
      BY <2>2, <3>1
  <2>4. CASE ~posts
    <3>1. Reports(n, v, "idle")
      BY <1>2, <2>1, <2>2, <2>4 DEF SetTransport, CommandMoves, Reports
    <3> QED
      BY <2>2, <3>1
  <2> QED
    BY <2>3, <2>4
<1> QED
  BY <1>1, <1>2 DEF CommandReports

(* Where the steps of one thread can take its program counter.             *)
LEMMA NextCases ==
  ASSUME [Next]_vars
  PROVE  \/ Elsewhere
         \/ \E c \in Consumer : Run(c)
         \/ TestRunning \/ TakePost \/ WaitTimeout \/ CheckReady
         \/ CommandReports
         \/ OutputDataReady \/ PostPending
         \/ \E name \in OpName, T \in SUBSET Effect : Begin(name, T)
         \/ StopThread \/ JoinThread
         \/ \E e \in Effect : DeactivateFailed(e)
         \/ Deactivated \/ RemoveInnerPre \/ Dropped \/ Cleanup \/ RestartThread
         \/ UNCHANGED vars
  BY DEF Next, Command, FeedbackThread, Elsewhere, Consumer, CommandReports

LEMMA InitControl == Init => ControlInv
  BY DEF Init, ControlInv, ConsumerExclusion, RunPC, NoOp, Consumer

LEMMA NextControl == TypeOK /\ ControlInv /\ [Next]_vars => ControlInv'
<1> SUFFICES ASSUME TypeOK, ControlInv, [Next]_vars
             PROVE  ControlInv'
  OBVIOUS
<1>1. /\ pc \in [Consumer -> FeedbackPC \cup CommandPC]
      /\ pc["feedback"] \in FeedbackPC
      /\ running \in {-1, 0, 1}
  BY DEF TypeOK
<1> USE DEF ControlInv, ConsumerExclusion, Consumer, RunPC
<1>2. CASE Elsewhere
  BY <1>2, ElsewhereFrame
<1>3. ASSUME NEW c \in Consumer, Run(c)
      PROVE  ControlInv'
  <2>1. UNCHANGED <<running, op>>
    BY <1>3 DEF Run, Splice, NothingToDo, Deliver, FreeNext, EndBatch, DataFinish, flagVars
  <2>2. /\ pc[c] \in RunPC \cup {"drop"}
        /\ \E to \in RunPC \cup {ReturnPC(c)} : pc' = [pc EXCEPT ![c] = to] \/ pc' = pc
    BY <1>3
    DEF Run, Splice, NothingToDo, Deliver, FreeNext, EndBatch, DataFinish, Goto
  <2>3. CASE c = "feedback"
    BY <1>1, <2>1, <2>2, <2>3 DEF ReturnPC, FeedbackPC
  <2>4. CASE c = "command"
    BY <1>1, <2>1, <2>2, <2>4 DEF ReturnPC
  <2> QED
    BY <2>3, <2>4
<1>4. CASE TestRunning
  BY <1>1, <1>4 DEF TestRunning, FeedbackMoves, Goto, flagVars
<1>5. CASE TakePost \/ WaitTimeout \/ CheckReady
  BY <1>1, <1>5 DEF TakePost, WaitTimeout, CheckReady, FeedbackMoves, Goto, flagVars
<1>6. CASE CommandReports
  BY <1>1, <1>6, ReportsShape DEF Reports, Goto, flagVars
<1>7. CASE OutputDataReady \/ PostPending
  BY <1>1, <1>7 DEF OutputDataReady, PostPending, CommandMoves, Goto, flagVars
<1>8. ASSUME NEW name \in OpName, NEW T \in SUBSET Effect, Begin(name, T)
      PROVE  ControlInv'
  BY <1>1, <1>8 DEF Begin, CommandMoves, Goto, flagVars, NoOp
<1>9. CASE StopThread
  BY <1>1, <1>9 DEF StopThread, StoppedPC, Goto
<1>10. CASE JoinThread
  BY <1>1, <1>10 DEF JoinThread, StoppedPC, CommandMoves, Goto, flagVars
<1>11. ASSUME NEW e \in Effect, DeactivateFailed(e)
       PROVE  ControlInv'
  BY <1>1, <1>11 DEF DeactivateFailed, CommandMoves, Goto, flagVars, NoOp
<1>12. CASE Deactivated \/ Dropped \/ Cleanup
  BY <1>1, <1>12 DEF Deactivated, Dropped, Cleanup, CommandMoves, Goto, flagVars
<1>13. CASE RemoveInnerPre
  BY <1>1, <1>13 DEF RemoveInnerPre, CommandMoves, Goto, flagVars
<1>14. CASE RestartThread
  BY <1>1, <1>14 DEF RestartThread, NoOp
<1>15. CASE UNCHANGED vars
  BY <1>15 DEF vars, flagVars, runVars
<1> QED
  BY NextCases, <1>2, <1>3, <1>4, <1>5, <1>6, <1>7, <1>8, <1>9, <1>10, <1>11, <1>12,
     <1>13, <1>14, <1>15

LEMMA ControlCorrect == Spec => []ControlInv
  BY InitControl, NextControl, TypeCorrect, PTL DEF Spec

(* The feedback thread and a command are never both inside                 *)
(* RunPostPonedEvents or at the instance table, whatever the commands.     *)
THEOREM ConsumersExclude == Spec => []ConsumerExclusion
  BY ControlCorrect, PTL DEF ControlInv

(* A thread joined by effects_finish stays down.                           *)
THEOREM StaysClosed == Spec => NoRestartAfterClose
<1> DEFINE Closed == running = -1 =>
                       /\ running' = -1
                       /\ pc["feedback"] = "dead" => pc'["feedback"] = "dead"
<1>1. TypeOK /\ ControlInv /\ [Next]_vars => [Closed]_vars
  <2> SUFFICES ASSUME TypeOK, ControlInv, [Next]_vars, running = -1
               PROVE  Closed
    BY DEF Closed
  <2>1. /\ pc \in [Consumer -> FeedbackPC \cup CommandPC]
        /\ pc["command"] \notin {"idle", "post", "stop"}
    BY DEF TypeOK, ControlInv, NoOp
  <2>2. CASE Elsewhere \/ UNCHANGED vars
    BY <2>2, ElsewhereFrame DEF vars, flagVars, runVars
  <2>3. ASSUME NEW c \in Consumer, Run(c)
        PROVE  Closed
    BY <2>1, <2>3
    DEF Run, Splice, NothingToDo, Deliver, FreeNext, EndBatch, DataFinish, Goto, flagVars,
        RunPC, Consumer
  <2>4. CASE TestRunning \/ TakePost \/ WaitTimeout \/ CheckReady
    BY <2>4
    DEF TestRunning, TakePost, WaitTimeout, CheckReady, FeedbackMoves, flagVars
  <2>5. ASSUME NEW e \in Effect, DeactivateFailed(e)
        PROVE  Closed
    BY <2>1, <2>5 DEF DeactivateFailed, CommandMoves, Goto, flagVars, Consumer
  <2>10. CASE CommandReports
    BY <2>1, <2>10, ReportsShape DEF Reports
  <2>6. CASE OutputDataReady \/ PostPending \/ StopThread
    BY <2>1, <2>6 DEF OutputDataReady, PostPending, StopThread, CommandMoves
  <2>7. ASSUME NEW name \in OpName, NEW T \in SUBSET Effect, Begin(name, T)
        PROVE  Closed
    BY <2>1, <2>7 DEF Begin, CommandMoves
  <2>8. CASE JoinThread \/ Deactivated \/ RemoveInnerPre \/ Dropped \/ Cleanup
    BY <2>1, <2>8
    DEF JoinThread, Deactivated, RemoveInnerPre, Dropped, Cleanup, CommandMoves, Goto,
        flagVars, Consumer
  <2>9. CASE RestartThread
    BY <2>1, <2>9 DEF RestartThread, Consumer
  <2> QED
    BY NextCases, <2>2, <2>3, <2>4, <2>5, <2>6, <2>7, <2>8, <2>9, <2>10
<1> QED
  BY <1>1, ControlCorrect, TypeCorrect, PTL DEF Spec, NoRestartAfterClose, Closed

(* If jack_deactivate never fails, the feedback thread runs whenever no    *)
(* command is being executed: every path but that error restarts it.       *)
THEOREM FeedbackRestarted ==
  ASSUME DeactivateFails = FALSE
  PROVE  Spec => []FeedbackRunsBetweenCommands
<1> DEFINE Up == pc["command"] \in {"idle", "post", "stop"} => running = 1
<1>1. Init => Up
  BY DEF Init, Consumer
<1>2. TypeOK /\ ControlInv /\ Up /\ [Next]_vars => Up'
  <2> SUFFICES ASSUME TypeOK, ControlInv, Up, [Next]_vars
               PROVE  Up'
    OBVIOUS
  <2>1. /\ pc \in [Consumer -> FeedbackPC \cup CommandPC]
        /\ running \in {-1, 0, 1}
    BY DEF TypeOK
  <2> USE DEF Consumer
  <2>2. CASE Elsewhere \/ UNCHANGED vars
    BY <2>2, ElsewhereFrame DEF vars, flagVars, runVars
  <2>3. ASSUME NEW c \in Consumer, Run(c)
        PROVE  Up'
    <3>1. /\ running' = running
          /\ pc'["command"] = pc["command"] \/ pc'["command"] \in RunPC \cup {ReturnPC("command")}
      BY <2>1, <2>3
      DEF Run, Splice, NothingToDo, Deliver, FreeNext, EndBatch, DataFinish, Goto, RunPC, flagVars
    <3> QED
      BY <3>1 DEF ReturnPC, RunPC
  <2>4. CASE TestRunning \/ TakePost \/ WaitTimeout \/ CheckReady
    BY <2>1, <2>4
    DEF TestRunning, TakePost, WaitTimeout, CheckReady, FeedbackMoves, Goto, flagVars
  <2>5. CASE CommandReports
    BY <2>1, <2>5, ReportsShape DEF Reports, Goto, flagVars
  <2>6. CASE OutputDataReady \/ PostPending
    BY <2>1, <2>6 DEF OutputDataReady, PostPending, CommandMoves, Goto, flagVars
  <2>7. ASSUME NEW name \in OpName, NEW T \in SUBSET Effect, Begin(name, T)
        PROVE  Up'
    BY <2>1, <2>7 DEF Begin, CommandMoves, Goto, flagVars
  <2>8. CASE StopThread
    BY <2>1, <2>8 DEF StopThread, StoppedPC, Goto
  <2>9. CASE JoinThread \/ Deactivated \/ RemoveInnerPre \/ Dropped \/ Cleanup
    BY <2>1, <2>9
    DEF JoinThread, Deactivated, RemoveInnerPre, Dropped, Cleanup, StoppedPC, CommandMoves,
        Goto, flagVars
  <2>10. ASSUME NEW e \in Effect, DeactivateFailed(e)
         PROVE  Up'
    BY <2>10 DEF DeactivateFailed
  <2>11. CASE RestartThread
    BY <2>1, <2>11 DEF RestartThread, ControlInv
  <2> QED
    BY NextCases, <2>2, <2>3, <2>4, <2>5, <2>6, <2>7, <2>8, <2>9, <2>10, <2>11
<1>3. ControlInv /\ Up => FeedbackRunsBetweenCommands
  BY DEF ControlInv, FeedbackRunsBetweenCommands, Idle
<1> QED
  BY <1>1, <1>2, <1>3, TypeCorrect, ControlCorrect, PTL DEF Spec

-----------------------------------------------------------------------------
(* The handshake with the client.                                          *)

HandshakeInv == HandshakeNeverStalls /\ FeedbackOnlyWhenReady

LEMMA NextHandshake ==
  TypeOK /\ ControlInv /\ HandshakeInv /\ [Next]_vars => HandshakeInv'
<1> SUFFICES ASSUME TypeOK, ControlInv, HandshakeInv, [Next]_vars
             PROVE  HandshakeInv'
  OBVIOUS
<1>1. /\ pc \in [Consumer -> FeedbackPC \cup CommandPC]
      /\ ready \in BOOLEAN /\ owed \in BOOLEAN
  BY DEF TypeOK
<1>2. pc["command"] \in RunPC => pc["feedback"] = "dead"
  BY DEF ControlInv, ConsumerExclusion
<1> USE DEF HandshakeInv, HandshakeNeverStalls, FeedbackOnlyWhenReady, Consumer
<1>3. CASE Elsewhere
  BY <1>3, ElsewhereFrame
<1>4. ASSUME NEW c \in Consumer, Run(c)
      PROVE  HandshakeInv'
  <2>1. ReturnPC(c) \notin {"splice", "deliver", "notify"}
    BY DEF ReturnPC
  <2>2. CASE Splice(c)
    BY <1>1, <2>2 DEF Splice, Goto, flagVars
  <2>3. CASE NothingToDo(c)
    BY <1>1, <2>1, <2>3 DEF NothingToDo, Goto, flagVars
  <2>4. CASE Deliver(c) \/ FreeNext(c)
    BY <1>1, <2>4 DEF Deliver, FreeNext, Goto, flagVars
  <2>5. CASE EndBatch(c)
    BY <1>1, <1>2, <2>1, <2>5 DEF EndBatch, Goto, RunPC
  <2>6. CASE DataFinish(c)
    BY <1>1, <2>1, <2>6 DEF DataFinish, Goto
  <2> QED
    BY <1>4, <2>2, <2>3, <2>4, <2>5, <2>6 DEF Run
<1>5. CASE TestRunning \/ TakePost \/ WaitTimeout \/ CheckReady
  BY <1>1, <1>5
  DEF TestRunning, TakePost, WaitTimeout, CheckReady, FeedbackMoves, Goto, flagVars
<1>6. ASSUME NEW e \in Effect, DeactivateFailed(e)
      PROVE  HandshakeInv'
  BY <1>1, <1>6 DEF DeactivateFailed, CommandMoves, Goto, flagVars
<1>13. CASE CommandReports
  BY <1>1, <1>13, ReportsShape DEF Reports, Goto, flagVars
<1>7. CASE OutputDataReady
  BY <1>1, <1>7 DEF OutputDataReady, CommandMoves, Goto
<1>8. CASE PostPending \/ StopThread
  BY <1>1, <1>8 DEF PostPending, StopThread, StoppedPC, CommandMoves, Goto, flagVars
<1>9. ASSUME NEW name \in OpName, NEW T \in SUBSET Effect, Begin(name, T)
      PROVE  HandshakeInv'
  BY <1>1, <1>9 DEF Begin, CommandMoves, Goto, flagVars
<1>10. CASE JoinThread \/ Deactivated \/ RemoveInnerPre \/ Dropped \/ Cleanup
  BY <1>1, <1>10
  DEF JoinThread, Deactivated, RemoveInnerPre, Dropped, Cleanup, StoppedPC, CommandMoves,
      Goto, flagVars
<1>11. CASE RestartThread
  <2>1. running = 0 => pc["feedback"] = "dead"
    BY <1>11 DEF RestartThread, ControlInv
  <2> QED
    BY <1>1, <1>11, <2>1 DEF RestartThread
<1>12. CASE UNCHANGED vars
  BY <1>12 DEF vars, flagVars, runVars
<1> QED
  BY NextCases, <1>3, <1>4, <1>5, <1>6, <1>7, <1>8, <1>9, <1>10, <1>11, <1>12, <1>13

(* Whatever the client and the commands do, the right to send is never     *)
(* lost between the thread that clears g_postevents_ready and the client.  *)
THEOREM HandshakeCorrect == Spec => [](HandshakeNeverStalls /\ FeedbackOnlyWhenReady)
<1>1. Init => HandshakeInv
  BY DEF Init, HandshakeInv, HandshakeNeverStalls, FeedbackOnlyWhenReady, Consumer
<1> QED
  BY <1>1, NextHandshake, TypeCorrect, ControlCorrect, PTL DEF Spec, HandshakeInv

-----------------------------------------------------------------------------
(* Conservation of the pool's nodes.                                       *)

LEMMA NodesOfEmpty == NodesOf(<<>>) = {} /\ Distinct(<<>>)
  BY DEF NodesOf, Distinct

LEMMA NodesOfAppend ==
  ASSUME NEW S, NEW s \in Seq(S), NEW x \in S
  PROVE  /\ NodesOf(Append(s, x)) = NodesOf(s) \cup {x}
         /\ Distinct(s) /\ x \notin NodesOf(s) => Distinct(Append(s, x))
<1>1. /\ Append(s, x) \in Seq(S)
      /\ Len(Append(s, x)) = Len(s) + 1
      /\ \A i \in 1..Len(s) : Append(s, x)[i] = s[i]
      /\ Append(s, x)[Len(s) + 1] = x
      /\ Len(s) \in Nat
  OBVIOUS
<1>2. 1..(Len(s) + 1) = 1..Len(s) \cup {Len(s) + 1}
  BY <1>1
<1>3. NodesOf(Append(s, x)) = NodesOf(s) \cup {x}
  <2>1. \A y : y \in NodesOf(Append(s, x)) <=> \E i \in 1..(Len(s) + 1) : y = Append(s, x)[i]
    BY <1>1 DEF NodesOf
  <2>2. \A y : y \in NodesOf(s) <=> \E i \in 1..Len(s) : y = s[i]
    BY DEF NodesOf
  <2> HIDE DEF NodesOf
  <2> QED
    BY <1>1, <1>2, <2>1, <2>2
<1>4. Distinct(s) /\ x \notin NodesOf(s) => Distinct(Append(s, x))
  BY <1>1, <1>2 DEF Distinct, NodesOf
<1> QED
  BY <1>3, <1>4

LEMMA NodesOfTail ==
  ASSUME NEW S, NEW s \in Seq(S), s # <<>>, Distinct(s)
  PROVE  /\ Head(s) \in NodesOf(s)
         /\ NodesOf(Tail(s)) = NodesOf(s) \ {Head(s)}
         /\ Distinct(Tail(s))
<1>1. /\ Len(s) \in Nat \ {0}
      /\ Head(s) = s[1]
      /\ Tail(s) \in Seq(S)
      /\ Len(Tail(s)) = Len(s) - 1
      /\ \A i \in 1..(Len(s) - 1) : Tail(s)[i] = s[i + 1]
  OBVIOUS
<1>2. Head(s) \in NodesOf(s)
  BY <1>1 DEF NodesOf
<1>3. \A i \in 2..Len(s) : s[i] = Tail(s)[i - 1] /\ s[i] # s[1]
  <2> TAKE i \in 2..Len(s)
  <2>1. i - 1 \in 1..(Len(s) - 1) /\ (i - 1) + 1 = i
    BY <1>1
  <2> QED
    BY <1>1, <2>1 DEF Distinct
<1>4. NodesOf(Tail(s)) = NodesOf(s) \ {Head(s)}
  <2>1. ASSUME NEW y \in NodesOf(Tail(s))
        PROVE  y \in NodesOf(s) /\ y # Head(s)
    <3>1. PICK i \in 1..(Len(s) - 1) : y = Tail(s)[i]
      BY <1>1 DEF NodesOf
    <3>2. i + 1 \in 2..Len(s) /\ y = s[i + 1]
      BY <1>1, <3>1
    <3> QED
      BY <1>1, <1>3, <3>2 DEF NodesOf
  <2>2. ASSUME NEW y \in NodesOf(s), y # Head(s)
        PROVE  y \in NodesOf(Tail(s))
    <3>1. PICK i \in 1..Len(s) : y = s[i]
      BY DEF NodesOf
    <3>2. i - 1 \in 1..(Len(s) - 1) /\ y = Tail(s)[i - 1]
      BY <1>1, <1>3, <2>2, <3>1
    <3> QED
      BY <1>1, <3>2 DEF NodesOf
  <2> QED
    BY <2>1, <2>2
<1>5. Distinct(Tail(s))
  <2> SUFFICES ASSUME NEW i \in 1..(Len(s) - 1), NEW j \in 1..(Len(s) - 1),
                      Tail(s)[i] = Tail(s)[j]
               PROVE  i = j
    BY <1>1 DEF Distinct
  <2>1. i + 1 \in 1..Len(s) /\ j + 1 \in 1..Len(s) /\ s[i + 1] = s[j + 1]
    BY <1>1
  <2> QED
    BY <2>1 DEF Distinct
<1> QED
  BY <1>2, <1>4, <1>5

(* Between two batches a consumer has nothing on its local queue.          *)
LocalInv == \A c \in Consumer : local[c] # <<>> => pc[c] \in {"deliver", "free", "drop"}

(* The steps that touch neither the nodes nor the lists.                   *)
Bookkeeping == \/ \E p \in Producer : LookUp(p) \/ GiveUp(p) \/ Post(p)
               \/ TriggerCpuLoad
               \/ \E e \in Effect : Add(e) \/ Map(e) \/ Deactivate(e) \/ DeactivateFailed(e)
               \/ \E c \in Consumer : NothingToDo(c) \/ Deliver(c) \/ EndBatch(c)
                                        \/ DataFinish(c)
               \/ TestRunning \/ TakePost \/ WaitTimeout \/ CheckReady
               \/ OutputDataReady \/ PostPending
               \/ \E name \in OpName, T \in SUBSET Effect : Begin(name, T)
               \/ StopThread \/ JoinThread \/ Deactivated \/ Dropped \/ Cleanup
               \/ RestartThread \/ UNCHANGED vars

(* The steps that do.                                                      *)
LEMMA NodeCases ==
  ASSUME [Next]_vars
  PROVE  \/ Bookkeeping
         \/ \E p \in Producer : Reserve(p)
         \/ \E p \in Producer : Enqueue(p) \/ EnqueueTransport(p)
         \/ \E c \in Consumer : Splice(c)
         \/ \E c \in Consumer : FreeNext(c)
         \/ CommandReports
         \/ RemoveInnerPre
  BY NextCases DEF Elsewhere, Produce, Run, Bookkeeping

LEMMA BookkeepingFrame == Bookkeeping => UNCHANGED <<unused, used, event, rtsafe, holding, local>>
<1> SUFFICES ASSUME Bookkeeping
             PROVE  UNCHANGED <<unused, used, event, rtsafe, holding, local>>
  OBVIOUS
<1> USE DEF poolVars, noteVars, prodVars, runVars
<1>1. CASE \E p \in Producer : LookUp(p) \/ GiveUp(p) \/ Post(p)
  BY <1>1 DEF LookUp, GiveUp, Post
<1>2. CASE TriggerCpuLoad
  BY <1>2 DEF TriggerCpuLoad
<1>3. CASE \E e \in Effect : Add(e) \/ Map(e) \/ Deactivate(e) \/ DeactivateFailed(e)
  BY <1>3 DEF Add, Map, Deactivate, DeactivateFailed
<1>4. CASE \E c \in Consumer : NothingToDo(c) \/ Deliver(c) \/ EndBatch(c) \/ DataFinish(c)
  BY <1>4 DEF NothingToDo, Deliver, EndBatch, DataFinish
<1>5. CASE TestRunning \/ TakePost \/ WaitTimeout \/ CheckReady
  BY <1>5 DEF TestRunning, TakePost, WaitTimeout, CheckReady, FeedbackMoves
<1>6. CASE \/ OutputDataReady \/ PostPending \/ StopThread \/ JoinThread \/ RestartThread
           \/ \E name \in OpName, T \in SUBSET Effect : Begin(name, T)
  BY <1>6 DEF OutputDataReady, PostPending, Begin, StopThread, JoinThread, RestartThread
<1>7. CASE Deactivated \/ Dropped \/ Cleanup
  BY <1>7 DEF Deactivated, Dropped, Cleanup
<1>8. CASE UNCHANGED vars
  BY <1>8 DEF vars
<1> QED
  BY <1>1, <1>2, <1>3, <1>4, <1>5, <1>6, <1>7, <1>8 DEF Bookkeeping

LEMMA NextLocal == TypeOK /\ ControlInv /\ LocalInv /\ [Next]_vars => LocalInv'
<1> SUFFICES ASSUME TypeOK, ControlInv, LocalInv, [Next]_vars
             PROVE  LocalInv'
  OBVIOUS
<1>1. /\ pc \in [Consumer -> FeedbackPC \cup CommandPC]
      /\ local \in [Consumer -> Seq(Node)]
  BY DEF TypeOK
<1> USE DEF LocalInv, Consumer
<1>2. CASE Elsewhere
  BY <1>2, ElsewhereFrame
<1>3. ASSUME NEW c \in Consumer, Run(c)
      PROVE  LocalInv'
  BY <1>1, <1>3
  DEF Run, Splice, NothingToDo, Deliver, FreeNext, EndBatch, DataFinish, Goto
<1>4. CASE TestRunning \/ TakePost \/ WaitTimeout \/ CheckReady
  BY <1>1, <1>4 DEF TestRunning, TakePost, WaitTimeout, CheckReady, FeedbackMoves, Goto
<1>5. ASSUME NEW e \in Effect, DeactivateFailed(e)
      PROVE  LocalInv'
  BY <1>1, <1>5 DEF DeactivateFailed, CommandMoves, Goto
<1>12. CASE CommandReports
  BY <1>1, <1>12, ReportsShape DEF Reports, Goto
<1>6. CASE OutputDataReady \/ PostPending \/ StopThread \/ JoinThread
  BY <1>1, <1>6 DEF OutputDataReady, PostPending, StopThread, JoinThread, CommandMoves, Goto
<1>7. ASSUME NEW name \in OpName, NEW T \in SUBSET Effect, Begin(name, T)
      PROVE  LocalInv'
  BY <1>1, <1>7 DEF Begin, CommandMoves, Goto
<1>8. CASE Deactivated \/ Dropped \/ Cleanup
  BY <1>1, <1>8 DEF Deactivated, Dropped, Cleanup, CommandMoves, Goto
<1>9. CASE RemoveInnerPre
  BY <1>1, <1>9 DEF RemoveInnerPre, CommandMoves, Goto
<1>10. CASE RestartThread
  <2>1. running = 0 => pc["feedback"] = "dead"
    BY <1>10 DEF RestartThread, ControlInv
  <2> QED
    BY <1>1, <1>10, <2>1 DEF RestartThread
<1>11. CASE UNCHANGED vars
  BY <1>11 DEF vars, runVars
<1> QED
  BY NextCases, <1>2, <1>3, <1>4, <1>5, <1>6, <1>7, <1>8, <1>9, <1>10, <1>11, <1>12

LEMMA LocalCorrect == Spec => []LocalInv
<1>1. Init => LocalInv
  BY DEF Init, LocalInv, Consumer
<1> QED
  BY <1>1, NextLocal, TypeCorrect, ControlCorrect, PTL DEF Spec

LEMMA NextNodes == TypeOK /\ LocalInv /\ NodesAccounted /\ [Next]_vars => NodesAccounted'
<1> SUFFICES ASSUME TypeOK, LocalInv, NodesAccounted, [Next]_vars
             PROVE  NodesAccounted'
  OBVIOUS
<1>1. /\ unused \subseteq Node /\ used \subseteq Node
      /\ rtsafe \in Seq(Node)
      /\ local \in [Consumer -> Seq(Node)]
      /\ holding \in [Producer -> Node \cup {None}]
      /\ pc \in [Consumer -> FeedbackPC \cup CommandPC]
      /\ None \notin Node
  BY PostEventsAssumption DEF TypeOK, PoolTypeOK
<1>2. CASE Bookkeeping
  BY <1>2, BookkeepingFrame DEF NodesAccounted, HeldNodes
<1>3. ASSUME NEW p \in Producer, Reserve(p)
      PROVE  NodesAccounted'
  <2>1. PICK n \in unused :
          /\ unused' = unused \ {n}
          /\ used' = used \cup {n}
          /\ holding' = [holding EXCEPT ![p] = n]
    BY <1>3 DEF Reserve, AllocateAtomic
  <2>2. holding[p] = None /\ UNCHANGED <<rtsafe, local>>
    BY <1>3 DEF Reserve, runVars
  <2>3. HeldNodes' = HeldNodes \cup {n}
    BY <1>1, <2>1, <2>2 DEF HeldNodes
  <2>4. n \in Node /\ n \notin used
    BY <1>1, <2>1 DEF NodesAccounted
  <2>5. \A q \in Producer : holding[q] # n
    BY <1>1, <2>1, <2>4 DEF NodesAccounted, HeldNodes
  <2>6. \A q, r \in Producer : holding'[q] = holding'[r] => q = r \/ holding'[q] = None
    BY <1>1, <2>1, <2>5 DEF NodesAccounted
  <2> QED
    BY <1>1, <2>1, <2>2, <2>3, <2>4, <2>6 DEF NodesAccounted
<1>4. ASSUME NEW p \in Producer, Enqueue(p) \/ EnqueueTransport(p)
      PROVE  NodesAccounted'
  <2> DEFINE n == holding[p]
  <2>1. /\ n # None /\ n \in Node
        /\ rtsafe' = Append(rtsafe, n)
        /\ holding' = [holding EXCEPT ![p] = None]
        /\ UNCHANGED <<unused, used, local>>
    BY <1>1, <1>4 DEF Enqueue, EnqueueTransport, poolVars, runVars
  <2>2. n \in HeldNodes /\ HeldNodes' = HeldNodes \ {n}
    BY <1>1, <2>1 DEF NodesAccounted, HeldNodes
  <2>3. NodesOf(rtsafe') = NodesOf(rtsafe) \cup {n} /\ Distinct(rtsafe')
    BY <1>1, <2>1, <2>2, NodesOfAppend DEF NodesAccounted
  <2>4. \A q, r \in Producer : holding'[q] = holding'[r] => q = r \/ holding'[q] = None
    BY <1>1, <2>1 DEF NodesAccounted
  <2> QED
    BY <2>1, <2>2, <2>3, <2>4 DEF NodesAccounted
<1>5. ASSUME NEW c \in Consumer,
             local[c] = <<>>,
             local' = [local EXCEPT ![c] = rtsafe],
             rtsafe' = <<>>,
             UNCHANGED <<unused, used, holding>>
      PROVE  NodesAccounted'
  <2>1. /\ NodesOf(local[c]) = {}
        /\ NodesOf(rtsafe') = {} /\ Distinct(rtsafe')
    BY <1>5, NodesOfEmpty
  <2>2. /\ local'[c] = rtsafe
        /\ \A d \in Consumer : d # c => local'[d] = local[d]
    BY <1>1, <1>5
  <2> QED
    BY <1>5, <2>1, <2>2 DEF NodesAccounted, HeldNodes, Consumer
<1>6. ASSUME NEW c \in Consumer, FreeNext(c)
      PROVE  NodesAccounted'
  <2> DEFINE n == Head(local[c])
  <2>1. /\ local[c] # <<>>
        /\ unused' = unused \cup {n} /\ used' = used \ {n}
        /\ local' = [local EXCEPT ![c] = Tail(local[c])]
        /\ UNCHANGED <<rtsafe, holding>>
    BY <1>1, <1>6 DEF FreeNext, Deallocate, prodVars
  <2>2. /\ n \in NodesOf(local[c])
        /\ NodesOf(Tail(local[c])) = NodesOf(local[c]) \ {n}
        /\ Distinct(Tail(local[c]))
    BY <1>1, <2>1, NodesOfTail DEF NodesAccounted
  <2>3. /\ local'[c] = Tail(local[c])
        /\ \A d \in Consumer : d # c => local'[d] = local[d]
    BY <1>1, <2>1
  <2>4. n \in used /\ used \subseteq Node
    BY <1>1, <2>2 DEF NodesAccounted, Consumer
  <2> HIDE DEF n
  <2> QED
    BY <1>1, <2>1, <2>2, <2>3, <2>4 DEF NodesAccounted, HeldNodes, Consumer
<1>7. CASE CommandReports
  <2>1. PICK n \in unused :
          /\ unused' = unused \ {n}
          /\ used' = used \cup {n}
          /\ rtsafe' = Append(rtsafe, n)
          /\ UNCHANGED <<holding, local>>
    BY <1>7, ReportsShape DEF Reports, AllocateAtomic, prodVars
  <2>2. UNCHANGED <<holding, local>>
    BY <2>1
  <2>3. n \in Node /\ n \notin used
    BY <1>1, <2>1 DEF NodesAccounted
  <2>4. NodesOf(rtsafe') = NodesOf(rtsafe) \cup {n} /\ Distinct(rtsafe')
    BY <1>1, <2>1, <2>3, NodesOfAppend DEF NodesAccounted
  <2> QED
    BY <1>1, <2>1, <2>2, <2>3, <2>4 DEF NodesAccounted, HeldNodes
<1>8. CASE RemoveInnerPre
  <2>1. "command" \in Consumer /\ local["command"] = <<>>
    BY <1>8 DEF RemoveInnerPre, CommandMoves, LocalInv, Consumer
  <2>2. UNCHANGED <<unused, used, holding>>
    BY <1>8 DEF RemoveInnerPre, poolVars, noteVars, prodVars
  <2>3. CASE UNCHANGED <<local, rtsafe>>
    BY <2>2, <2>3 DEF NodesAccounted, HeldNodes
  <2> QED
    BY <1>5, <1>8, <2>1, <2>2, <2>3 DEF RemoveInnerPre
<1>9. ASSUME NEW c \in Consumer, Splice(c)
      PROVE  NodesAccounted'
  <2>1. local[c] = <<>>
    BY <1>9 DEF Splice, LocalInv
  <2> QED
    BY <1>5, <1>9, <2>1 DEF Splice, poolVars, noteVars, prodVars
<1> QED
  BY NodeCases, <1>2, <1>3, <1>4, <1>6, <1>7, <1>8, <1>9

(* The pool neither leaks a node nor frees one twice, for any number of    *)
(* producers and nodes.                                                    *)
THEOREM NodesConserved == Spec => []NodesAccounted
<1>1. Init => NodesAccounted
  <2> SUFFICES ASSUME Init
               PROVE  NodesAccounted
    OBVIOUS
  <2>1. HeldNodes = {}
    BY DEF Init, HeldNodes
  <2>2. \A c \in Consumer : local[c] = <<>>
    BY DEF Init
  <2> QED
    BY <2>1, <2>2, NodesOfEmpty DEF Init, PoolInit, NodesAccounted, Consumer
<1> QED
  BY <1>1, NextNodes, TypeCorrect, LocalCorrect, PTL DEF Spec

-----------------------------------------------------------------------------
(* No lost wakeup.                                                         *)

(* The inductive strengthening of NoLostWakeup: from the moment either     *)
(* thread has spliced the list, an event on it that is posted for at all   *)
(* has a post of its own.  The feedback thread's batch covers events that  *)
(* are queued while it sends; the command's flush covers those queued      *)
(* while the thread is down.                                               *)
WakeInv ==
  /\ NoLostWakeup
  /\ pc["feedback"] \in {"deliver", "free", "notify"} /\ Heralded /\ running = 1
        => Woken
  /\ pc["command"] \in {"deliver", "free", "notify", "drop", "cleanup", "restart"}
        /\ Heralded => Woken

(* What the steps do to Heralded.                                          *)
LEMMA HeraldedFrame ==
  /\ UNCHANGED <<rtsafe, silent>> => Heralded' = Heralded
  /\ rtsafe' = <<>> => ~Heralded'
<1>1. rtsafe' = <<>> => NodesOf(rtsafe)' = {}
  BY DEF NodesOf
<1> QED
  BY <1>1 DEF Heralded

(* A node that is queued without a post heralds nothing.                   *)
LEMMA HeraldedAppend ==
  ASSUME TypeOK, NEW n \in Node, rtsafe' = Append(rtsafe, n), silent' = silent \cup {n}
  PROVE  Heralded' => Heralded
<1>1. NodesOf(rtsafe') = NodesOf(rtsafe) \cup {n}
  BY NodesOfAppend DEF TypeOK
<1> QED
  BY <1>1 DEF Heralded

LEMMA NextWake == TypeOK /\ ControlInv /\ NodesAccounted /\ WakeInv /\ [Next]_vars => WakeInv'
<1> SUFFICES ASSUME TypeOK, ControlInv, NodesAccounted, WakeInv, [Next]_vars
             PROVE  WakeInv'
  OBVIOUS
<1>1. /\ pc \in [Consumer -> FeedbackPC \cup CommandPC]
      /\ needsPost \in [Producer -> BOOLEAN]
      /\ sem \in Nat
      /\ pc["feedback"] \in FeedbackPC
  BY PostEventsAssumption DEF TypeOK
<1>2. /\ ConsumerExclusion
      /\ running = 0 /\ pc["command"] # "join" => pc["feedback"] = "dead"
      /\ running = 1 => pc["command"] \in {"idle", "post", "stop"}
  BY DEF ControlInv
<1>3. SemPost => sem' \in Nat /\ sem' > 0
  BY <1>1, PostEventsAssumption DEF SemPost
<1> USE DEF WakeInv, NoLostWakeup, Woken, Consumer
<1>4. ASSUME NEW p \in Producer, Produce(p)
      PROVE  WakeInv'
  <2>1. CASE LookUp(p) \/ Reserve(p) \/ GiveUp(p)
    BY <2>1, HeraldedFrame DEF LookUp, Reserve, GiveUp, noteVars, flagVars, runVars
  <2>2. CASE Enqueue(p)
    <3>1. needsPost'[p] = TRUE
      BY <1>1, <2>2 DEF Enqueue
    <3> QED
      BY <3>1
  <2>3. CASE Post(p)
    BY <1>3, <2>3 DEF Post
  <2>4. CASE EnqueueTransport(p)
    <3>1. /\ holding[p] \in Node
          /\ rtsafe' = Append(rtsafe, holding[p]) /\ silent' = silent \cup {holding[p]}
          /\ UNCHANGED <<needsPost, sem, pc, running, ready>>
      BY <2>4 DEF EnqueueTransport, TypeOK, flagVars, runVars
    <3>2. Heralded' => Heralded
      BY <3>1, HeraldedAppend
    <3> QED
      BY <3>1, <3>2
  <2> QED
    BY <1>4, <2>1, <2>2, <2>3, <2>4 DEF Produce
<1>5. CASE TriggerCpuLoad
  <2>1. \A p \in Producer : needsPost[p] => needsPost'[p]
    BY <1>1, <1>5 DEF TriggerCpuLoad
  <2> QED
    BY <1>5, <2>1, HeraldedFrame DEF TriggerCpuLoad, noteVars, runVars
<1>6. ASSUME NEW e \in Effect, Add(e) \/ Map(e) \/ Deactivate(e)
      PROVE  WakeInv'
  BY <1>6, HeraldedFrame DEF Add, Map, Deactivate, noteVars, flagVars, prodVars, runVars
<1>7. ASSUME NEW c \in Consumer, Run(c)
      PROVE  WakeInv'
  <2> USE <1>1, <1>2, HeraldedFrame DEF ConsumerExclusion, RunPC, FeedbackPC, noteVars
  <2>1. CASE Splice(c)
    BY <2>1 DEF Splice
  <2>2. CASE NothingToDo(c)
    BY <2>2 DEF NothingToDo, ReturnPC, Goto, flagVars, prodVars
  <2>3. CASE Deliver(c)
    BY <2>3 DEF Deliver, Goto, prodVars
  <2>4. CASE FreeNext(c)
    <3>1. /\ local[c] \in Seq(Node) /\ local[c] # <<>>
          /\ silent' = silent \ {Head(local[c])} /\ rtsafe' = rtsafe
      BY <2>4 DEF FreeNext, TypeOK
    <3>2. Head(local[c]) \notin NodesOf(rtsafe)
      BY <3>1, NodesOfTail DEF NodesAccounted, Consumer
    <3>3. Heralded' = Heralded
      BY <3>1, <3>2 DEF Heralded
    <3> QED
      BY <2>4, <3>3 DEF FreeNext, flagVars, prodVars
  <2>5. CASE EndBatch(c)
    BY <2>5 DEF EndBatch, ReturnPC, Goto, prodVars
  <2>6. CASE DataFinish(c)
    BY <2>6 DEF DataFinish, ReturnPC, Goto, prodVars
  <2> QED
    BY <1>7, <2>1, <2>2, <2>3, <2>4, <2>5, <2>6 DEF Run
<1>8. CASE TestRunning \/ WaitTimeout \/ CheckReady
  BY <1>1, <1>2, <1>8, HeraldedFrame
  DEF TestRunning, WaitTimeout, CheckReady, FeedbackMoves, Goto, noteVars, flagVars,
      prodVars, ConsumerExclusion, RunPC
<1>9. CASE TakePost
  BY <1>1, <1>2, <1>9, HeraldedFrame
  DEF TakePost, FeedbackMoves, Goto, noteVars, flagVars, prodVars, ConsumerExclusion, RunPC
<1>10. CASE CommandReports
  <2>1. PICK n \in unused, v \in Event, to \in {"idle", "post"} : Reports(n, v, to)
    BY <1>10, ReportsShape
  <2>2. CASE to = "post"
    BY <1>1, <2>1, <2>2 DEF Reports, Goto
  <2>3. CASE to = "idle"
    <3>1. /\ n \in Node /\ rtsafe' = Append(rtsafe, n) /\ silent' = silent \cup {n}
          /\ UNCHANGED <<needsPost, sem, pc, running, ready>>
      BY <1>1, <2>1, <2>3 DEF Reports, Goto, TypeOK, PoolTypeOK, flagVars, prodVars
    <3>2. Heralded' => Heralded
      BY <3>1, HeraldedAppend
    <3> QED
      BY <3>1, <3>2
  <2> QED
    BY <2>2, <2>3
<1>11. CASE OutputDataReady
  BY <1>1, <1>11, HeraldedFrame DEF OutputDataReady, CommandMoves, Goto, noteVars, prodVars
<1>12. CASE PostPending
  BY <1>3, <1>12 DEF PostPending
<1>13. ASSUME NEW name \in OpName, NEW T \in SUBSET Effect, Begin(name, T)
       PROVE  WakeInv'
  BY <1>1, <1>13, HeraldedFrame DEF Begin, CommandMoves, Goto, noteVars, flagVars, prodVars
<1>14. CASE StopThread
  BY <1>1, <1>3, <1>14, HeraldedFrame DEF StopThread, StoppedPC, Goto, noteVars, prodVars
<1>15. CASE JoinThread
  BY <1>1, <1>15, HeraldedFrame
  DEF JoinThread, StoppedPC, CommandMoves, Goto, noteVars, flagVars, prodVars
<1>16. ASSUME NEW e \in Effect, DeactivateFailed(e)
       PROVE  WakeInv'
  BY <1>1, <1>2, <1>16, HeraldedFrame
  DEF DeactivateFailed, CommandMoves, Goto, noteVars, flagVars, prodVars
<1>17. CASE Deactivated \/ Dropped \/ Cleanup
  BY <1>1, <1>17, HeraldedFrame
  DEF Deactivated, Dropped, Cleanup, CommandMoves, Goto, noteVars, flagVars, prodVars
<1>18. CASE RemoveInnerPre
  BY <1>1, <1>18, HeraldedFrame
  DEF RemoveInnerPre, CommandMoves, Goto, noteVars, flagVars, prodVars
<1>19. CASE RestartThread
  BY <1>1, <1>2, <1>19, HeraldedFrame DEF RestartThread, noteVars, prodVars
<1>20. CASE UNCHANGED vars
  BY <1>20, HeraldedFrame DEF vars, noteVars, flagVars, prodVars, runVars
<1> QED
  BY NextCases, <1>4, <1>5, <1>6, <1>7, <1>8, <1>9, <1>10, <1>11, <1>12, <1>13, <1>14,
     <1>15, <1>16, <1>17, <1>18, <1>19, <1>20 DEF Elsewhere

(* An event that may be sent and is posted for is never left to a sleeping *)
(* thread: not by a batch that ends, not by a flush, not by a thread       *)
(* stopped and restarted, and not by the events nobody posts for.          *)
THEOREM NoWakeupLost == Spec => []NoLostWakeup
<1>1. Init => WakeInv
  BY NodesOfEmpty DEF Init, WakeInv, NoLostWakeup, Heralded, Consumer
<1> QED
  BY <1>1, NextWake, TypeCorrect, ControlCorrect, NodesConserved, PTL DEF Spec, WakeInv

-----------------------------------------------------------------------------
(* Events and the life of the effects they name.                           *)

\* The command has taken or dropped the list for effects that it removes.
Removing == /\ op.name # "monitor_off"
            /\ pc["command"] \in {"deliver", "free", "notify", "drop", "cleanup"}

\* The targets of a removal have stopped processing.
Quiesced ==
  /\ pc["command"] \in {"pre", "drop", "splice", "deliver", "free", "notify", "cleanup"}
  /\ op.name # "monitor_off"
  => op.targets \cap active = {}

\* No assignment leads to them any more.
Unmapped ==
  /\ pc["command"] \in {"drop", "splice", "deliver", "free", "notify", "cleanup"}
  /\ op.name # "monitor_off"
  => op.targets \cap mapped = {}

(* The inductive strengthening of EventsNameInstances: an effect under     *)
(* removal has stopped producing and is assigned to nothing before the     *)
(* list is taken, and whoever queues an event about it after that has      *)
(* looked it up before.                                                    *)
EventInv ==
  /\ active \cup mapped \subseteq inst
  /\ \A e \in Effect : holding[e] # None => e \in active
  /\ \A n \in used : event[n] \in Event
  /\ \A e \in Effect : holding[e] # None => event[holding[e]].effect \in {e, None}
  /\ Quiesced
  /\ Unmapped
  /\ pc["command"] \in {"deactivate", "pre", "drop", "cleanup"} => op.name # "monitor_off"
  /\ Removing
       => \A n \in NodesOf(rtsafe) : event[n].effect \notin op.targets \/ n \in stray
  /\ EventsNameInstances

(* What a step that neither fills nor queues nor frees an event, and       *)
(* neither starts nor ends an effect, must do to preserve EventInv.        *)
LEMMA EventFrame ==
  ASSUME EventInv,
         UNCHANGED <<used, event, stray, holding, inst, active>>,
         mapped' \subseteq mapped,
         rtsafe' = rtsafe \/ rtsafe' = <<>>,
         Quiesced', Unmapped',
         pc'["command"] \in {"deactivate", "pre", "drop", "cleanup"}
            => op'.name # "monitor_off",
         Removing' => rtsafe' = <<>> \/ (Removing /\ op' = op)
  PROVE  EventInv'
<1>1. Removing' => \A n \in NodesOf(rtsafe') : event[n].effect \notin op'.targets \/ n \in stray
  BY NodesOfEmpty DEF EventInv
<1> QED
  BY <1>1 DEF EventInv, EventsNameInstances, HeldOutside, Event

LEMMA NextEvent ==
  TypeOK /\ ControlInv /\ LocalInv /\ NodesAccounted /\ EventInv /\ [Next]_vars => EventInv'
<1> SUFFICES ASSUME TypeOK, ControlInv, LocalInv, NodesAccounted, EventInv, [Next]_vars
             PROVE  EventInv'
  OBVIOUS
<1>1. /\ unused \subseteq Node /\ used \subseteq Node
      /\ event \in [Node -> Event \cup {None}]
      /\ rtsafe \in Seq(Node)
      /\ local \in [Consumer -> Seq(Node)]
      /\ holding \in [Producer -> Node \cup {None}]
      /\ pc \in [Consumer -> FeedbackPC \cup CommandPC]
      /\ inst \subseteq Effect
      /\ None \notin Node /\ None \notin Effect /\ Outside \cap Effect = {}
      /\ mapped \subseteq Effect /\ op.targets \subseteq Effect
  BY PostEventsAssumption DEF TypeOK, PoolTypeOK
<1>2. /\ HeldNodes \subseteq used
      /\ NodesOf(rtsafe) \subseteq used
      /\ \A c \in Consumer : NodesOf(local[c]) \subseteq used
      /\ unused \cap used = {}
  BY DEF NodesAccounted, Consumer
<1>3. ASSUME NEW p \in Producer, Reserve(p)
      PROVE  EventInv'
  <2>1. PICK n \in unused, e \in EventFrom(p) :
          /\ used' = used \cup {n}
          /\ holding' = [holding EXCEPT ![p] = n]
          /\ event' = [event EXCEPT ![n] = e]
    BY <1>3 DEF Reserve, AllocateAtomic
  <2>2. /\ Runs(p) /\ holding[p] = None
        /\ UNCHANGED <<rtsafe, stray, inst, active, mapped, pc, op>>
    BY <1>3 DEF Reserve, instVars, runVars
  <2>3. /\ e \in Event
        /\ p \in Effect => p \in active /\ e.effect = p
    BY <1>1, <2>2 DEF EventFrom, Runs, Event
  <2>4. /\ event'[n] = e
        /\ \A m \in used : event'[m] = event[m]
    BY <1>1, <1>2, <2>1
  <2>5. \A q \in Producer : holding[q] # None => holding[q] \in used
    BY <1>2 DEF HeldNodes
  <2>6. \A d \in Effect : holding'[d] # None => event'[holding'[d]].effect \in {d, None}
    BY <1>1, <2>1, <2>3, <2>4, <2>5 DEF EventInv, Producer
  <2>7. \A d \in Effect : holding'[d] # None => d \in active
    BY <1>1, <2>1, <2>3 DEF EventInv, Producer
  <2>8. \A m \in used' : event'[m] \in Event
    BY <2>1, <2>3, <2>4 DEF EventInv
  <2>9. \A m \in used' \ HeldOutside' : event'[m].effect \in inst \cup {None} \/ m \in stray
    <3>1. HeldOutside \subseteq HeldOutside' \cup {None}
      BY <1>1, <2>1, <2>2 DEF HeldOutside, Producer
    <3>2. p \in Outside => n \in HeldOutside'
      BY <1>1, <2>1 DEF HeldOutside
    <3>3. p \in Effect => e.effect \in inst
      BY <2>3 DEF EventInv
    <3>4. ASSUME NEW m \in used' \ HeldOutside'
          PROVE  event'[m].effect \in inst \cup {None} \/ m \in stray
      <4>1. CASE m = n
        BY <2>4, <3>2, <3>3, <3>4, <4>1 DEF Producer
      <4>2. CASE m # n
        <5>1. m \in used /\ m # None /\ m \notin HeldOutside
          BY <1>1, <2>1, <3>1, <3>4, <4>2
        <5> QED
          BY <2>4, <5>1 DEF EventInv, EventsNameInstances
      <4> QED
        BY <4>1, <4>2
    <3> QED
      BY <3>4
  <2>10. \A m \in NodesOf(rtsafe') : event'[m] = event[m]
    BY <1>2, <2>2, <2>4
  <2> QED
    BY <2>2, <2>6, <2>7, <2>8, <2>9, <2>10
    DEF EventInv, EventsNameInstances, Removing, Quiesced, Unmapped
<1>4. ASSUME NEW p \in Producer, Enqueue(p) \/ EnqueueTransport(p)
      PROVE  EventInv'
  <2> DEFINE n == holding[p]
  <2>1. /\ n # None /\ n \in Node
        /\ rtsafe' = Append(rtsafe, n)
        /\ holding' = [holding EXCEPT ![p] = None]
        /\ UNCHANGED <<used, event, inst, active, mapped, pc, op>>
    BY <1>1, <1>4 DEF Enqueue, EnqueueTransport, poolVars, instVars, runVars
  <2>2. NodesOf(rtsafe') = NodesOf(rtsafe) \cup {n}
    BY <1>1, <2>1, NodesOfAppend
  <2>3. stray \subseteq stray'
    BY <1>4 DEF Enqueue, EnqueueTransport
  <2>4. event[n].effect \in active \cup mapped \cup {None} \/ n \in stray'
    <3>1. CASE p \in Effect
      BY <2>1, <3>1 DEF EventInv
    <3>2. CASE p \in Outside /\ Enqueue(p)
      BY <3>2 DEF Enqueue, Strays
    <3>3. CASE EnqueueTransport(p)
      BY <3>3 DEF EnqueueTransport
    <3> QED
      BY <1>4, <3>1, <3>2, <3>3 DEF Producer
  <2>5. Removing => event[n].effect \notin op.targets \/ n \in stray'
    BY <1>1, <2>4 DEF Removing, EventInv, Quiesced, Unmapped
  <2>6. \A q \in Producer : holding'[q] = holding[q] \/ holding'[q] = None
    BY <1>1, <2>1
  <2>7. HeldOutside \subseteq HeldOutside' \cup {n}
    BY <1>1, <2>1 DEF HeldOutside, Producer
  <2> HIDE DEF n
  <2>8. \A d \in Effect : holding'[d] # None => d \in active
    BY <2>6 DEF EventInv, Producer
  <2>9. \A d \in Effect : holding'[d] # None => event[holding'[d]].effect \in {d, None}
    BY <2>6 DEF EventInv, Producer
  <2>10. Removing' => \A m \in NodesOf(rtsafe') : event[m].effect \notin op.targets \/ m \in stray'
    BY <2>1, <2>2, <2>3, <2>5 DEF EventInv, Removing
  <2>11. \A m \in used \ HeldOutside' : event[m].effect \in inst \cup {None} \/ m \in stray'
    BY <2>3, <2>4, <2>7 DEF EventInv, EventsNameInstances
  <2> QED
    BY <2>1, <2>8, <2>9, <2>10, <2>11 DEF EventInv, EventsNameInstances, Quiesced, Unmapped
<1>5. CASE \/ \E p \in Producer : LookUp(p) \/ GiveUp(p) \/ Post(p)
           \/ TriggerCpuLoad
           \/ TestRunning \/ TakePost \/ WaitTimeout \/ CheckReady
           \/ UNCHANGED vars
  <2>1. /\ UNCHANGED <<used, event, stray, holding, inst, active, mapped, rtsafe, op>>
        /\ pc'["command"] = pc["command"]
    BY <1>1, <1>5
    DEF LookUp, GiveUp, Post, TriggerCpuLoad, TestRunning, TakePost, WaitTimeout, CheckReady,
        FeedbackMoves, Goto, vars, poolVars, noteVars, prodVars, instVars, runVars, Consumer
  <2> QED
    BY <2>1, EventFrame DEF EventInv, Removing, Quiesced, Unmapped
<1>6. ASSUME NEW e \in Effect, Add(e) \/ Map(e)
      PROVE  EventInv'
  <2>1. /\ inst \subseteq inst' /\ active \subseteq active' /\ active' \cup mapped' \subseteq inst'
        /\ pc["command"] = "idle"
        /\ UNCHANGED <<used, event, stray, holding, rtsafe, pc, op>>
    BY <1>6 DEF Add, Map, Idle, poolVars, noteVars, prodVars, runVars, EventInv
  <2> QED
    BY <2>1 DEF EventInv, EventsNameInstances, HeldOutside, Removing, Quiesced, Unmapped
<1>7. ASSUME NEW e \in Effect, Deactivate(e)
      PROVE  EventInv'
  <2>1. /\ active' = active \ {e} /\ holding[e] = None
        /\ UNCHANGED <<used, event, stray, holding, rtsafe, inst, mapped, pc, op>>
    BY <1>7 DEF Deactivate, poolVars, noteVars, prodVars, runVars
  <2> QED
    BY <2>1 DEF EventInv, EventsNameInstances, HeldOutside, Removing, Quiesced, Unmapped
<1>8. ASSUME NEW c \in Consumer,
             Splice(c) \/ NothingToDo(c) \/ Deliver(c) \/ EndBatch(c) \/ DataFinish(c)
      PROVE  EventInv'
  <2>1. /\ UNCHANGED <<used, event, stray, holding, inst, active, mapped, op>>
        /\ rtsafe' = rtsafe \/ rtsafe' = <<>>
    BY <1>8
    DEF Splice, NothingToDo, Deliver, EndBatch, DataFinish, poolVars, noteVars, prodVars, instVars
  <2>2. CASE c = "feedback"
    <3>1. pc'["command"] = pc["command"]
      BY <1>1, <1>8, <2>2
      DEF Splice, NothingToDo, Deliver, EndBatch, DataFinish, Goto, Consumer
    <3> QED
      BY <2>1, <3>1, EventFrame DEF EventInv, Removing, Quiesced, Unmapped
  <2>3. CASE c = "command"
    <3>1. /\ pc["command"] \in {"splice", "deliver", "free", "notify"}
          /\ pc'["command"] \in {"deliver", "free", "notify", ReturnPC("command")}
          /\ pc["command"] = "splice" => rtsafe' = <<>>
      BY <1>1, <1>8, <2>3
      DEF Splice, NothingToDo, Deliver, EndBatch, DataFinish, Goto, Consumer
    <3>2. /\ pc'["command"] \in {"deliver", "free", "notify", "cleanup", "restart"}
          /\ pc'["command"] = "cleanup" => op.name # "monitor_off"
      BY <3>1 DEF ReturnPC
    <3>3. Removing' => rtsafe' = <<>> \/ Removing
      BY <2>1, <3>1 DEF Removing
    <3> QED
      BY <2>1, <3>1, <3>2, <3>3, EventFrame DEF EventInv, Quiesced, Unmapped
  <2> QED
    BY <2>2, <2>3 DEF Consumer
<1>9. ASSUME NEW c \in Consumer, FreeNext(c)
      PROVE  EventInv'
  <2> DEFINE n == Head(local[c])
  <2>1. /\ local[c] # <<>>
        /\ used' = used \ {n}
        /\ event' = [event EXCEPT ![n] = None]
        /\ stray' = stray \ {n}
        /\ UNCHANGED <<rtsafe, holding, inst, active, mapped, pc, op>>
    BY <1>9 DEF FreeNext, Deallocate, prodVars, instVars
  <2>2. n \in NodesOf(local[c])
    BY <1>1, <2>1, NodesOfTail DEF NodesAccounted
  <2>3. /\ n \notin NodesOf(rtsafe)
        /\ \A p \in Producer : holding[p] # None => holding[p] # n
    BY <2>2 DEF NodesAccounted, HeldNodes, Consumer
  <2>4. \A m : m \in NodesOf(rtsafe) \/ m \in used' \/ (m \in HeldNodes) => m # n
    BY <2>1, <2>3 DEF HeldNodes
  <2>5. \A m \in used : m # n => event'[m] = event[m]
    BY <1>1, <2>1
  <2>6. \A p \in Producer : holding[p] # None => event'[holding[p]] = event[holding[p]]
    BY <1>2, <2>3, <2>5 DEF HeldNodes
  <2>7. \A m \in NodesOf(rtsafe) : event'[m] = event[m]
    BY <1>2, <2>3, <2>5
  <2> HIDE DEF n
  <2>8. \A m \in used' \ HeldOutside' : event'[m].effect \in inst \cup {None} \/ m \in stray'
    BY <2>1, <2>5 DEF EventInv, EventsNameInstances, HeldOutside
  <2>9. Removing' => \A m \in NodesOf(rtsafe') :
                       event'[m].effect \notin op'.targets \/ m \in stray'
    BY <2>1, <2>3, <2>7 DEF EventInv, Removing
  <2>10. /\ \A m \in used' : event'[m] \in Event
         /\ \A e \in Effect : holding'[e] # None => event'[holding'[e]].effect \in {e, None}
    BY <2>1, <2>5, <2>6 DEF EventInv, Producer
  <2> QED
    BY <2>1, <2>8, <2>9, <2>10 DEF EventInv, EventsNameInstances, Quiesced, Unmapped
<1>10. CASE CommandReports
  <2>1. PICK n \in unused, v \in Event, to \in {"idle", "post"} : Reports(n, v, to)
    BY <1>10, ReportsShape
  <2>2. /\ used' = used \cup {n}
        /\ event' = [event EXCEPT ![n] = v]
        /\ v.effect \in inst \cup {None}
        /\ pc'["command"] \in {"idle", "post"}
        /\ UNCHANGED <<stray, holding, inst, active, mapped, op>>
    BY <1>1, <2>1 DEF Reports, AllocateAtomic, Goto, prodVars, instVars, Consumer
  <2>3. /\ event'[n] = v
        /\ \A m \in used : event'[m] = event[m]
    BY <1>1, <1>2, <2>2
  <2>4. \A p \in Producer : holding[p] # None => event'[holding[p]] = event[holding[p]]
    BY <1>2, <2>3 DEF HeldNodes
  <2>5. \A m \in used' \ HeldOutside' : event'[m].effect \in inst \cup {None} \/ m \in stray
    BY <2>2, <2>3 DEF EventInv, EventsNameInstances, HeldOutside
  <2> QED
    BY <2>2, <2>3, <2>4, <2>5
    DEF EventInv, EventsNameInstances, Removing, Quiesced, Unmapped, Producer
<1>11. CASE \/ OutputDataReady \/ PostPending \/ StopThread \/ JoinThread
            \/ \E name \in OpName, T \in SUBSET Effect : Begin(name, T)
            \/ \E e \in Effect : DeactivateFailed(e)
  <2>1. UNCHANGED <<used, event, stray, holding, inst, active, mapped, rtsafe>>
    BY <1>11
    DEF OutputDataReady, PostPending, StopThread, JoinThread, Begin, DeactivateFailed,
        poolVars, noteVars, prodVars, instVars
  <2>2. /\ pc'["command"] \in {"idle", "post", "stop", "join", "finished", StoppedPC}
        /\ pc'["command"] \in {"splice", "deactivate"} => op' = op /\ pc'["command"] = StoppedPC
    BY <1>1, <1>11
    DEF OutputDataReady, PostPending, StopThread, JoinThread, Begin, DeactivateFailed,
        CommandMoves, Goto, StoppedPC, Consumer
  <2> QED
    BY <2>1, <2>2, EventFrame DEF StoppedPC, Removing, Quiesced, Unmapped, EventInv
<1>12. CASE Deactivated \/ Dropped
  <2>1. /\ UNCHANGED <<used, event, stray, holding, inst, active, mapped, rtsafe, op>>
        /\ \/ /\ op.targets \cap active = {}
              /\ pc["command"] = "deactivate" /\ pc'["command"] = "pre"
           \/ pc["command"] = "drop" /\ pc'["command"] = "cleanup"
    BY <1>1, <1>12
    DEF Deactivated, Dropped, CommandMoves, Goto, poolVars, noteVars, prodVars, instVars, Consumer
  <2> QED
    BY <2>1, EventFrame DEF EventInv, Removing, Quiesced, Unmapped
<1>13. CASE RemoveInnerPre
  <2>1. /\ UNCHANGED <<used, event, stray, holding, inst, active, op>>
        /\ mapped' = mapped \ op.targets
        /\ pc["command"] = "pre"
        /\ \/ rtsafe' = <<>> /\ pc'["command"] = "drop"
           \/ rtsafe' = rtsafe /\ pc'["command"] = "splice"
    BY <1>1, <1>13
    DEF RemoveInnerPre, CommandMoves, Goto, poolVars, noteVars, prodVars, instVars, Consumer
  <2> QED
    BY <2>1, EventFrame DEF EventInv, Removing, Quiesced, Unmapped
<1>14. CASE Cleanup
  <2>1. /\ inst' = inst \ op.targets
        /\ pc["command"] = "cleanup" /\ pc'["command"] = "restart"
        /\ UNCHANGED <<used, event, stray, holding, active, mapped, rtsafe, op>>
    BY <1>1, <1>14 DEF Cleanup, CommandMoves, Goto, poolVars, noteVars, prodVars, Consumer
  <2>2. /\ op.name # "monitor_off" /\ Removing
        /\ op.targets \cap active = {} /\ op.targets \cap mapped = {}
    BY <2>1 DEF EventInv, Removing, Quiesced, Unmapped
  <2>3. pc["feedback"] = "dead"
    BY <2>1 DEF ControlInv, ConsumerExclusion
  <2>4. used = HeldNodes \cup NodesOf(rtsafe)
    <3>1. local["command"] = <<>> /\ local["feedback"] = <<>>
      BY <2>1, <2>3 DEF LocalInv, Consumer
    <3> QED
      BY <3>1, NodesOfEmpty DEF NodesAccounted
  <2>5. \A n \in HeldNodes \ HeldOutside : event[n].effect \in active \cup {None}
    <3>1. ASSUME NEW p \in Effect, holding[p] # None
          PROVE  event[holding[p]].effect \in active \cup {None}
      BY <3>1 DEF EventInv
    <3> QED
      BY <3>1 DEF HeldNodes, HeldOutside, Producer
  <2>6. \A n \in used \ HeldOutside : event[n].effect \in inst' \cup {None} \/ n \in stray
    <3>1. \A n \in used \ HeldOutside :
            event[n].effect \in inst \cup {None} \/ n \in stray
      BY DEF EventInv, EventsNameInstances
    <3>2. \A n \in NodesOf(rtsafe) : event[n].effect \notin op.targets \/ n \in stray
      BY <2>2 DEF EventInv
    <3>3. None \notin op.targets /\ active \subseteq inst /\ active \cap op.targets = {}
      BY <1>1, <2>2 DEF EventInv
    <3> QED
      BY <2>1, <2>4, <2>5, <3>1, <3>2, <3>3
  <2>7. active \cup mapped \subseteq inst'
    BY <2>1, <2>2 DEF EventInv
  <2> QED
    BY <2>1, <2>6, <2>7
    DEF EventInv, EventsNameInstances, HeldOutside, Removing, Quiesced, Unmapped
<1>15. CASE RestartThread
  <2>1. /\ UNCHANGED <<used, event, stray, holding, inst, active, mapped, rtsafe>>
        /\ pc'["command"] \in {"finished", "idle"}
    BY <1>1, <1>15 DEF RestartThread, poolVars, noteVars, prodVars, instVars, Consumer
  <2> QED
    BY <2>1, EventFrame DEF Removing, Quiesced, Unmapped
<1>16. ASSUME NEW p \in Producer, Produce(p)
       PROVE  EventInv'
  BY <1>3, <1>4, <1>5, <1>16 DEF Produce
<1>17. ASSUME NEW c \in Consumer, Run(c)
       PROVE  EventInv'
  BY <1>8, <1>9, <1>17 DEF Run
<1> QED
  BY NextCases, <1>5, <1>6, <1>7, <1>10, <1>11, <1>12, <1>13, <1>14, <1>15, <1>16, <1>17
  DEF Elsewhere

LEMMA EventCorrect == Spec => []EventInv
<1>1. Init => EventInv
  <2> SUFFICES ASSUME Init
               PROVE  EventInv
    OBVIOUS
  <2>1. pc["command"] = "idle" /\ \A p \in Producer : holding[p] = None
    BY DEF Init, Consumer
  <2> QED
    BY <2>1 DEF Init, PoolInit, EventInv, EventsNameInstances, Removing, Quiesced, Unmapped,
                Producer
<1> QED
  BY <1>1, NextEvent, TypeCorrect, ControlCorrect, LocalCorrect, NodesConserved, PTL DEF Spec

(* An event on the list or in a batch names an effect that exists, however *)
(* removal, the effect's last process cycles and the outside threads       *)
(* interleave; only what an outside thread looked up before the            *)
(* assignments were cleared, and queued after, is excepted.                *)
THEOREM EventsAreLive == Spec => []EventsNameInstances
  BY EventCorrect, PTL DEF EventInv

-----------------------------------------------------------------------------
(* The pipeline implements a first-in first-out queue.                     *)

Values(s, f) == [i \in 1..Len(s) |-> f[s[i]]]

LEMMA ValuesIsSeq ==
  ASSUME NEW s \in Seq(Node), NEW f \in [Node -> Event \cup {None}],
         \A x \in NodesOf(s) : f[x] \in Event
  PROVE  /\ Values(s, f) \in Seq(Event)
         /\ Len(Values(s, f)) = Len(s)
         /\ \A i \in 1..Len(s) : Values(s, f)[i] = f[s[i]]
  BY DEF Values, NodesOf

LEMMA ValuesSame ==
  ASSUME NEW s \in Seq(Node), NEW f \in [Node -> Event \cup {None}],
         NEW g \in [Node -> Event \cup {None}], \A x \in NodesOf(s) : f[x] = g[x]
  PROVE  Values(s, f) = Values(s, g)
  BY DEF Values, NodesOf

LEMMA ValuesAppend ==
  ASSUME NEW s \in Seq(Node), NEW x \in Node, NEW f \in [Node -> Event \cup {None}],
         \A y \in NodesOf(s) : f[y] \in Event, f[x] \in Event
  PROVE  Values(Append(s, x), f) = Append(Values(s, f), f[x])
<1> DEFINE t == Append(s, x)
           v == Values(s, f)
           w == Values(t, f)
<1>1. /\ t \in Seq(Node) /\ Len(t) = Len(s) + 1 /\ Len(s) \in Nat
      /\ \A i \in 1..Len(s) : t[i] = s[i]
      /\ t[Len(s) + 1] = x
  OBVIOUS
<1>2. \A y \in NodesOf(t) : f[y] \in Event
  BY NodesOfAppend
<1>3. v \in Seq(Event) /\ Len(v) = Len(s) /\ \A i \in 1..Len(s) : v[i] = f[s[i]]
  BY ValuesIsSeq
<1> HIDE DEF t
<1>4. w \in Seq(Event) /\ Len(w) = Len(t) /\ \A i \in 1..Len(t) : w[i] = f[t[i]]
  BY <1>1, <1>2, ValuesIsSeq
<1> HIDE DEF v, w
<1>5. Append(v, f[x]) \in Seq(Event) /\ Len(Append(v, f[x])) = Len(w)
  BY <1>1, <1>3, <1>4
<1>6. \A i \in 1..Len(w) : w[i] = Append(v, f[x])[i]
  BY <1>1, <1>3, <1>4
<1>7. w = Append(v, f[x])
  BY <1>4, <1>5, <1>6, SeqEqual
<1> QED
  BY <1>7 DEF t, v, w

LEMMA ValuesTail ==
  ASSUME NEW s \in Seq(Node), s # <<>>, NEW f \in [Node -> Event \cup {None}],
         \A x \in NodesOf(s) : f[x] \in Event
  PROVE  Values(s, f) # <<>> /\ Values(Tail(s), f) = Tail(Values(s, f))
<1> DEFINE t == Tail(s)
           v == Values(s, f)
           w == Values(t, f)
<1>1. /\ Len(s) \in Nat \ {0} /\ t \in Seq(Node) /\ Len(t) = Len(s) - 1
      /\ \A i \in 1..(Len(s) - 1) : t[i] = s[i + 1]
  OBVIOUS
<1>2. \A x \in NodesOf(t) : f[x] \in Event
  <2>1. \A i \in 1..(Len(s) - 1) : i + 1 \in 1..Len(s)
    BY <1>1
  <2> QED
    BY <1>1, <2>1 DEF NodesOf
<1>3. v \in Seq(Event) /\ Len(v) = Len(s) /\ \A i \in 1..Len(s) : v[i] = f[s[i]]
  BY ValuesIsSeq
<1> HIDE DEF t
<1>4. w \in Seq(Event) /\ Len(w) = Len(t) /\ \A i \in 1..Len(t) : w[i] = f[t[i]]
  BY <1>1, <1>2, ValuesIsSeq
<1> HIDE DEF v, w
<1>5. v # <<>>
  BY <1>1, <1>3
<1>6. Tail(v) \in Seq(Event) /\ Len(Tail(v)) = Len(w)
  BY <1>1, <1>3, <1>4, <1>5
<1>7. \A i \in 1..Len(w) : w[i] = Tail(v)[i]
  BY <1>1, <1>3, <1>4, <1>5
<1>8. w = Tail(v)
  BY <1>4, <1>6, <1>7, SeqEqual
<1> QED
  BY <1>5, <1>8 DEF t, v, w

LEMMA NodesOfConcat ==
  ASSUME NEW S, NEW s \in Seq(S), NEW t \in Seq(S)
  PROVE  NodesOf(s \o t) = NodesOf(s) \cup NodesOf(t)
<1>1. /\ Len(s) \in Nat /\ Len(t) \in Nat /\ Len(s \o t) = Len(s) + Len(t)
      /\ \A i \in 1..(Len(s) + Len(t)) :
           (s \o t)[i] = IF i <= Len(s) THEN s[i] ELSE t[i - Len(s)]
  OBVIOUS
<1>2. ASSUME NEW x \in NodesOf(s \o t)
      PROVE  x \in NodesOf(s) \cup NodesOf(t)
  <2>1. PICK i \in 1..(Len(s) + Len(t)) : x = (s \o t)[i]
    BY <1>1 DEF NodesOf
  <2>2. CASE i <= Len(s)
    BY <1>1, <2>1, <2>2 DEF NodesOf
  <2>3. CASE i > Len(s)
    <3>1. i - Len(s) \in 1..Len(t) /\ x = t[i - Len(s)]
      BY <1>1, <2>1, <2>3
    <3> QED
      BY <3>1 DEF NodesOf
  <2> QED
    BY <1>1, <2>2, <2>3
<1>3. ASSUME NEW x \in NodesOf(s)
      PROVE  x \in NodesOf(s \o t)
  BY <1>1 DEF NodesOf
<1>4. ASSUME NEW x \in NodesOf(t)
      PROVE  x \in NodesOf(s \o t)
  <2>1. PICK i \in 1..Len(t) : x = t[i]
    BY DEF NodesOf
  <2>2. Len(s) + i \in 1..(Len(s) + Len(t)) /\ (s \o t)[Len(s) + i] = x
    BY <1>1, <2>1
  <2> QED
    BY <1>1, <2>2 DEF NodesOf
<1> QED
  BY <1>2, <1>3, <1>4

LEMMA TailOfConcat ==
  ASSUME NEW S, NEW s \in Seq(S), NEW t \in Seq(S), s # <<>>
  PROVE  s \o t # <<>> /\ Tail(s \o t) = Tail(s) \o t
<1>1. /\ s \o t \in Seq(S) /\ Len(s \o t) = Len(s) + Len(t)
      /\ Len(s) \in Nat \ {0} /\ Len(t) \in Nat
      /\ Tail(s) \in Seq(S) /\ Len(Tail(s)) = Len(s) - 1
  OBVIOUS
<1>2. s \o t # <<>>
  BY <1>1
<1>3. /\ Tail(s \o t) \in Seq(S) /\ Len(Tail(s \o t)) = Len(s) + Len(t) - 1
      /\ Tail(s) \o t \in Seq(S) /\ Len(Tail(s) \o t) = Len(s) + Len(t) - 1
  BY <1>1, <1>2
<1>4. \A i \in 1..(Len(s) + Len(t) - 1) : Tail(s \o t)[i] = (Tail(s) \o t)[i]
  BY <1>1, <1>2
<1> QED
  BY <1>2, <1>3, <1>4, SeqEqual

(* What the steps do to the pipeline's nodes.                              *)
LEMMA PipelineFacts ==
  ASSUME TypeOK, ControlInv, LocalInv, NodesAccounted
  PROVE  /\ Pipeline \in Seq(Node)
         /\ NodesOf(Pipeline) \subseteq used
         /\ local["feedback"] \in Seq(Node) /\ local["command"] \in Seq(Node)
         /\ rtsafe \in Seq(Node)
         /\ local["feedback"] = <<>> \/ local["command"] = <<>>
         /\ \A c \in Consumer : pc[c] = "splice" \/ (c = "command" /\ pc[c] = "pre")
              => local["feedback"] = <<>> /\ local["command"] = <<>>
         /\ local["feedback"] = <<>> => Pipeline = local["command"] \o rtsafe
         /\ local["command"] = <<>> => Pipeline = local["feedback"] \o rtsafe
<1>1. /\ local["feedback"] \in Seq(Node) /\ local["command"] \in Seq(Node)
      /\ rtsafe \in Seq(Node)
  BY DEF TypeOK, Consumer
<1>2. local["feedback"] \o local["command"] \in Seq(Node) /\ Pipeline \in Seq(Node)
  BY <1>1 DEF Pipeline
<1>3. NodesOf(Pipeline) \subseteq used
  <2>1. NodesOf(local["feedback"] \o local["command"])
          = NodesOf(local["feedback"]) \cup NodesOf(local["command"])
    BY <1>1, NodesOfConcat
  <2>2. NodesOf(Pipeline)
          = NodesOf(local["feedback"] \o local["command"]) \cup NodesOf(rtsafe)
    BY <1>1, <1>2, NodesOfConcat, ZenonT(60) DEF Pipeline
  <2> QED
    BY <2>1, <2>2 DEF NodesAccounted
<1>4. /\ local["feedback"] = <<>> \/ local["command"] = <<>>
      /\ \A c \in Consumer : pc[c] = "splice" \/ (c = "command" /\ pc[c] = "pre")
           => local["feedback"] = <<>> /\ local["command"] = <<>>
  BY DEF LocalInv, ControlInv, ConsumerExclusion, RunPC, Consumer
<1>5. /\ local["feedback"] = <<>> => Pipeline = local["command"] \o rtsafe
      /\ local["command"] = <<>> => Pipeline = local["feedback"] \o rtsafe
  BY <1>1, ConcatEmptySeq DEF Pipeline
<1> QED
  BY <1>1, <1>2, <1>3, <1>4, <1>5

LEMMA PipelineAppend ==
  ASSUME TypeOK, NEW n \in Node, rtsafe' = Append(rtsafe, n), local' = local
  PROVE  Pipeline' = Append(Pipeline, n)
<1> DEFINE batch == local["feedback"] \o local["command"]
<1>1. batch \in Seq(Node) /\ rtsafe \in Seq(Node)
  BY DEF TypeOK, Consumer
<1> HIDE DEF batch
<1>2. batch \o Append(rtsafe, n) = Append(batch \o rtsafe, n)
  <2>1. Append(rtsafe, n) = rtsafe \o <<n>>
    BY <1>1, AppendIsConcat
  <2>2. batch \o rtsafe \in Seq(Node) /\ <<n>> \in Seq(Node)
    BY <1>1
  <2>3. Append(batch \o rtsafe, n) = (batch \o rtsafe) \o <<n>>
    BY <2>2, AppendIsConcat
  <2> QED
    BY <1>1, <2>1, <2>2, <2>3, ConcatAssociative
<1> QED
  BY <1>2 DEF Pipeline, batch

LEMMA QueueStep ==
  TypeOK /\ ControlInv /\ LocalInv /\ NodesAccounted /\ EventInv /\ [Next]_vars
    => [Queue!Put \/ Queue!Get]_(Contents(Pipeline))
<1> SUFFICES ASSUME TypeOK, ControlInv, LocalInv, NodesAccounted, EventInv, [Next]_vars
             PROVE  \/ \E m \in Event : Contents(Pipeline)' = Append(Contents(Pipeline), m)
                    \/ /\ Contents(Pipeline) # <<>>
                       /\ Contents(Pipeline)' = Tail(Contents(Pipeline))
                    \/ Contents(Pipeline)' = Contents(Pipeline)
  BY DEF Queue!Put, Queue!Get
<1> DEFINE Goal == \/ \E m \in Event : Contents(Pipeline)' = Append(Contents(Pipeline), m)
                   \/ /\ Contents(Pipeline) # <<>>
                      /\ Contents(Pipeline)' = Tail(Contents(Pipeline))
                   \/ Contents(Pipeline)' = Contents(Pipeline)
<1>1. /\ Contents(Pipeline) = Values(Pipeline, event)
      /\ Contents(Pipeline)' = Values(Pipeline', event')
  BY DEF Contents, Values
<1>2. /\ event \in [Node -> Event \cup {None}]
      /\ used \subseteq Node
      /\ unused \cap used = {} /\ unused \subseteq Node
      /\ \A n \in used : event[n] \in Event
      /\ local \in [Consumer -> Seq(Node)]
      /\ event' \in [Node -> Event \cup {None}]
  BY NextTypeOK DEF TypeOK, PoolTypeOK, EventInv, NodesAccounted
<1>3. Pipeline \in Seq(Node) /\ NodesOf(Pipeline) \subseteq used
  BY PipelineFacts
<1>4. \A n \in NodesOf(Pipeline) : event[n] \in Event
  BY <1>2, <1>3
<1>5. CASE Bookkeeping
  BY <1>1, <1>5, BookkeepingFrame DEF Pipeline
<1>6. ASSUME NEW p \in Producer, Reserve(p)
      PROVE  Goal
  <2>1. PICK n \in unused, e \in EventFrom(p) : event' = [event EXCEPT ![n] = e]
    BY <1>6 DEF Reserve
  <2>2. \A m \in NodesOf(Pipeline) : event'[m] = event[m]
    BY <1>2, <1>3, <2>1
  <2>3. Pipeline' = Pipeline
    BY <1>6 DEF Reserve, runVars, Pipeline
  <2>4. Values(Pipeline, event') = Values(Pipeline, event)
    BY <1>2, <1>3, <2>2, ValuesSame
  <2> QED
    BY <1>1, <2>3, <2>4
<1>7. ASSUME NEW p \in Producer, Enqueue(p) \/ EnqueueTransport(p)
      PROVE  Goal
  <2> DEFINE n == holding[p]
  <2>1. /\ n # None /\ n \in Node
        /\ rtsafe' = Append(rtsafe, n)
        /\ UNCHANGED <<event, local>>
    BY <1>7 DEF Enqueue, EnqueueTransport, runVars, TypeOK
  <2>2. event[n] \in Event
    BY <1>2, <2>1 DEF NodesAccounted, HeldNodes
  <2> HIDE DEF n
  <2>3. Pipeline' = Append(Pipeline, n)
    BY <2>1, PipelineAppend
  <2>4. Values(Append(Pipeline, n), event) = Append(Values(Pipeline, event), event[n])
    BY <1>2, <1>3, <1>4, <2>1, <2>2, ValuesAppend
  <2> QED
    BY <1>1, <2>1, <2>2, <2>3, <2>4
<1>8. CASE CommandReports
  <2>1. PICK n \in unused, ev \in Event, to \in {"idle", "post"} : Reports(n, ev, to)
    BY <1>8, ReportsShape
  <2>2. /\ local' = local
        /\ event' = [event EXCEPT ![n] = ev] /\ rtsafe' = Append(rtsafe, n)
    BY <2>1 DEF Reports
  <2>3. ev \in Event
    OBVIOUS
  <2>4. /\ event'[n] = ev /\ n \in Node
        /\ \A m \in NodesOf(Pipeline) : event'[m] = event[m]
    BY <1>2, <1>3, <2>2
  <2>5. Pipeline' = Append(Pipeline, n)
    BY <2>1, <2>2, <2>4, PipelineAppend
  <2>6. \A m \in NodesOf(Pipeline) : event'[m] \in Event
    BY <1>4, <2>4
  <2>7. Values(Append(Pipeline, n), event') = Append(Values(Pipeline, event'), event'[n])
    BY <1>2, <1>3, <2>3, <2>4, <2>6, ValuesAppend
  <2>8. Values(Pipeline, event') = Values(Pipeline, event)
    BY <1>2, <1>3, <2>4, ValuesSame
  <2> QED
    BY <1>1, <2>3, <2>4, <2>5, <2>7, <2>8
<1>9. ASSUME NEW c \in Consumer,
             pc[c] = "splice" \/ (c = "command" /\ pc[c] = "pre"),
             local' = [local EXCEPT ![c] = rtsafe], rtsafe' = <<>>, event' = event
      PROVE  Goal
  <2>1. local["feedback"] = <<>> /\ local["command"] = <<>> /\ rtsafe \in Seq(Node)
    BY <1>9, PipelineFacts
  <2>2. Pipeline = rtsafe
    BY <2>1, ConcatEmptySeq, PipelineFacts
  <2>3. \/ local'["feedback"] = rtsafe /\ local'["command"] = <<>>
        \/ local'["feedback"] = <<>> /\ local'["command"] = rtsafe
    BY <1>2, <1>9, <2>1 DEF Consumer
  <2>4. Pipeline' = rtsafe
    BY <1>9, <2>1, <2>3, ConcatEmptySeq DEF Pipeline
  <2> QED
    BY <1>1, <1>9, <2>2, <2>4
<1>10. ASSUME NEW c \in Consumer, FreeNext(c)
       PROVE  Goal
  <2> DEFINE n == Head(local[c])
  <2>1. /\ local[c] # <<>> /\ local[c] \in Seq(Node) /\ rtsafe \in Seq(Node)
        /\ event' = [event EXCEPT ![n] = None]
        /\ local' = [local EXCEPT ![c] = Tail(local[c])]
        /\ rtsafe' = rtsafe
    BY <1>2, <1>10, PipelineFacts DEF FreeNext
  <2>2. /\ Tail(local[c]) \in Seq(Node)
        /\ NodesOf(Tail(local[c])) = NodesOf(local[c]) \ {n}
        /\ n \in NodesOf(local[c])
    BY <2>1, NodesOfTail DEF NodesAccounted
  <2>3. Pipeline = local[c] \o rtsafe
    <3>1. CASE c = "feedback"
      BY <2>1, <3>1, PipelineFacts
    <3>2. CASE c = "command"
      BY <2>1, <3>2, PipelineFacts
    <3> QED
      BY <3>1, <3>2 DEF Consumer
  <2>4. Pipeline' = Tail(local[c]) \o rtsafe
    <3>1. CASE c = "feedback"
      <4>1. local["command"] = <<>>
        BY <2>1, <3>1, PipelineFacts
      <4>2. local'["feedback"] = Tail(local[c]) /\ local'["command"] = <<>>
        BY <1>2, <2>1, <3>1, <4>1 DEF Consumer
      <4> QED
        BY <2>1, <2>2, <4>2, ConcatEmptySeq DEF Pipeline
    <3>2. CASE c = "command"
      <4>1. local["feedback"] = <<>>
        BY <2>1, <3>2, PipelineFacts
      <4>2. local'["command"] = Tail(local[c]) /\ local'["feedback"] = <<>>
        BY <1>2, <2>1, <3>2, <4>1 DEF Consumer
      <4> QED
        BY <2>1, <2>2, <4>2, ConcatEmptySeq DEF Pipeline
    <3> QED
      BY <3>1, <3>2 DEF Consumer
  <2>5. Pipeline # <<>> /\ Tail(Pipeline) = Pipeline'
    BY <2>1, <2>3, <2>4, TailOfConcat
  <2>6. Pipeline' \in Seq(Node) /\ NodesOf(Pipeline') = NodesOf(Tail(local[c])) \cup NodesOf(rtsafe)
    <3> DEFINE t == Tail(local[c])
    <3>1. t \in Seq(Node)
      BY <2>2
    <3> HIDE DEF t
    <3>2. t \o rtsafe \in Seq(Node) /\ NodesOf(t \o rtsafe) = NodesOf(t) \cup NodesOf(rtsafe)
      BY <2>1, <3>1, NodesOfConcat
    <3> QED
      BY <2>4, <3>2 DEF t
  <2>7. \A m \in NodesOf(Pipeline') : m # n /\ m \in used
    <3>1. n \notin NodesOf(rtsafe)
      BY <2>2 DEF NodesAccounted, Consumer
    <3> QED
      BY <2>2, <2>6, <3>1 DEF NodesAccounted, Consumer
  <2>8. \A m \in NodesOf(Pipeline') : event'[m] = event[m]
    BY <1>2, <2>1, <2>7
  <2>9. Values(Pipeline', event') = Values(Pipeline', event)
    BY <1>2, <2>6, <2>8, ValuesSame
  <2>10. Values(Pipeline, event) # <<>> /\ Values(Tail(Pipeline), event) = Tail(Values(Pipeline, event))
    BY <1>2, <1>3, <1>4, <2>5, ValuesTail
  <2> QED
    BY <1>1, <2>5, <2>9, <2>10
<1>11. ASSUME NEW c \in Consumer, Splice(c)
       PROVE  Goal
  <2>1. /\ pc[c] = "splice" /\ event' = event
        /\ local' = [local EXCEPT ![c] = rtsafe] /\ rtsafe' = <<>>
    BY <1>11 DEF Splice, noteVars
  <2>2. pc[c] = "splice" \/ (c = "command" /\ pc[c] = "pre")
    BY <2>1
  <2> HIDE DEF Goal
  <2> QED
    BY <1>9, <2>1, <2>2, Zenon
<1>12. CASE RemoveInnerPre
  <2>1. "command" \in Consumer /\ pc["command"] = "pre" /\ event' = event
    BY <1>12 DEF RemoveInnerPre, noteVars, CommandMoves, Consumer
  <2>2. CASE UNCHANGED <<local, rtsafe>>
    BY <1>1, <2>1, <2>2 DEF Pipeline
  <2> QED
    BY <1>9, <1>12, <2>1, <2>2 DEF RemoveInnerPre
<1> QED
  BY NodeCases, <1>5, <1>6, <1>7, <1>8, <1>10, <1>11, <1>12

(* The pipeline implements the queue: events come off it in the order they *)
(* were queued, each once and as it was filled in, whichever thread takes  *)
(* them and however often the feedback thread is stopped and restarted.    *)
THEOREM PipelineIsQueue == Spec => ImplementsQueue
<1>1. Init => Queue!QueueInit
  <2> SUFFICES ASSUME Init
               PROVE  Contents(Pipeline) = <<>>
    BY DEF Queue!QueueInit
  <2>1. Pipeline = <<>>
    BY DEF Init, Pipeline, Consumer
  <2> QED
    BY <2>1 DEF Contents
<1>2. Spec => [](TypeOK /\ ControlInv /\ LocalInv /\ NodesAccounted /\ EventInv)
  BY TypeCorrect, ControlCorrect, LocalCorrect, NodesConserved, EventCorrect, PTL
<1> QED
  BY <1>1, <1>2, QueueStep, PTL DEF Spec, ImplementsQueue, Queue!QueueSpec
=============================================================================
