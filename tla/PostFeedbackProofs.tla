------------------------- MODULE PostFeedbackProofs -------------------------
(***************************************************************************)
(* Proofs about PostFeedback: the types, that the client has the newest    *)
(* value of every topic it wants (OthersUpToDate), and that a run sends    *)
(* what the summary of its batch says (BatchIsSummarised).                 *)
(***************************************************************************)
EXTENDS PostFeedback, Recursion

-----------------------------------------------------------------------------
(* Types.  No more is queued than was made, and a walk stays in its queue. *)

SizeInv == Len(pending) + Len(queue) <= made

WalkInv ==
  /\ pc = "idle" => queue = <<>> /\ sent = <<>> /\ at = 0 /\ ignored = None
  /\ pc = "backward" => at <= Len(queue)
  /\ pc = "forward" => at \in 1..(Len(queue) + 1)

BatchInv == TypeOK /\ SizeInv /\ WalkInv

LEMMA EventFields ==
  ASSUME NEW e \in Event
  PROVE  /\ e.kind \in Kinds /\ e.value \in Value
         /\ e.key \in Port \cup {Global}
         /\ e.kind \in OfEffect <=> e.key \in Port
         /\ e.kind \in Newest => TopicOf(e) \in Topic
<1>1. ASSUME NEW p \in Port PROVE p # Global
  BY <1>1, PostFeedbackAssumption DEF Port, Global
<1>2. e \in [kind : Kinds \cap OfEffect, key : Port, value : Value]
      \/ e \in [kind : Kinds \ OfEffect, key : {Global}, value : Value]
  BY DEF Event
<1>3. e.kind \in Kinds /\ e.value \in Value /\ e.key \in Port \cup {Global}
  BY <1>2
<1>4. e.kind \in OfEffect <=> e.key \in Port
  BY <1>1, <1>2
<1>5. e.kind \in Newest => TopicOf(e) \in Topic
  BY <1>3 DEF TopicOf, Topic
<1> QED
  BY <1>3, <1>4, <1>5

LEMMA ReadType ==
  ASSUME NEW v \in [Topic -> Value \cup {None}], NEW e \in Event
  PROVE  Read(v, e) \in [Topic -> Value \cup {None}]
  BY EventFields DEF Read

LEMMA AppendFacts ==
  ASSUME NEW S, NEW q \in Seq(S), NEW e \in S
  PROVE  /\ Append(q, e) \in Seq(S) /\ Len(Append(q, e)) = Len(q) + 1
         /\ Append(q, e)[Len(q) + 1] = e
         /\ \A i \in 1..Len(q) : Append(q, e)[i] = q[i]
  OBVIOUS

LEMMA TypesAtStart ==
  Init => BatchInv
  BY PostFeedbackAssumption
     DEF Init, BatchInv, TypeOK, SizeInv, WalkInv

LEMMA PutKeepsTypes ==
  ASSUME BatchInv, NEW e \in Event, PutEvent(e), UNCHANGED walkVars
  PROVE  /\ pending' \in Seq(Event) /\ Len(pending') = Len(pending) + 1
         /\ newest' \in [Topic -> Value \cup {None}]
         /\ made' \in 0..MaxEvents /\ SizeInv' /\ WalkInv'
<1>1. pending \in Seq(Event) /\ queue \in Seq(Event) /\ made \in 0..MaxEvents
      /\ newest \in [Topic -> Value \cup {None}] /\ SizeInv /\ WalkInv
  BY DEF BatchInv, TypeOK
<1>2. pending' = Append(pending, e) /\ newest' = Read(newest, e)
      /\ made' = made + 1 /\ made < MaxEvents
  BY DEF PutEvent
<1>3. queue' = queue /\ at' = at /\ pc' = pc /\ sent' = sent /\ ignored' = ignored
  BY DEF walkVars
<1>4. pending' \in Seq(Event) /\ Len(pending') = Len(pending) + 1
  BY <1>1, <1>2, AppendFacts
<1>5. newest' \in [Topic -> Value \cup {None}]
  BY <1>1, <1>2, ReadType
<1>6. made' \in 0..MaxEvents
  BY <1>1, <1>2, PostFeedbackAssumption
<1>7. SizeInv'
  BY <1>1, <1>2, <1>3, <1>4, PostFeedbackAssumption DEF SizeInv
<1>8. WalkInv'
  BY <1>1, <1>3 DEF WalkInv
<1> QED
  BY <1>4, <1>5, <1>6, <1>7, <1>8

LEMMA BeginKeepsTypes ==
  ASSUME BatchInv, NEW e \in Effect \cup {None}, Begin(e), made' = made
  PROVE  /\ pending' \in Seq(Event) /\ queue' \in Seq(Event) /\ sent' \in Seq(Event)
         /\ at' \in 0..(MaxEvents + 1) /\ pc' \in {"idle", "backward", "forward"}
         /\ ignored' \in Effect \cup {None} /\ cached' \subseteq Topic
         /\ SizeInv' /\ WalkInv'
<1>1. /\ pending \in Seq(Event) /\ queue = <<>> /\ made \in 0..MaxEvents /\ pc = "idle"
      /\ Len(pending) + Len(queue) <= made /\ ignored = None
  BY DEF BatchInv, TypeOK, SizeInv, WalkInv, Begin
<1>2. queue' = pending /\ pending' = <<>> /\ at' = Len(pending) /\ cached' = {} /\ sent' = <<>>
  BY DEF Begin
<1>3. Len(pending) \in 0..made /\ Len(queue') + Len(pending') <= made'
  BY <1>1, <1>2, PostFeedbackAssumption
<1>4. CASE pending = <<>>
  BY <1>1, <1>2, <1>3, <1>4, PostFeedbackAssumption DEF Begin, SizeInv, WalkInv
<1>5. CASE pending # <<>>
  <2>1. pc' = "backward" /\ ignored' = e
    BY <1>5 DEF Begin
  <2> QED
    BY <1>1, <1>2, <1>3, <2>1, PostFeedbackAssumption DEF SizeInv, WalkInv
<1> QED
  BY <1>4, <1>5

LEMMA TypesKept ==
  ASSUME BatchInv, [Next]_vars
  PROVE  BatchInv'
<1> USE DEF BatchInv
<1>1. ASSUME NEW e \in Event, Queue(e) PROVE BatchInv'
  BY <1>1, PutKeepsTypes DEF Queue, TypeOK, walkVars, portVars
<1>2. CASE FeedbackRun
  <2>1. Begin(None) /\ UNCHANGED <<client, newest, portVars, made>>
    BY <1>2 DEF FeedbackRun
  <2> QED
    BY <2>1, BeginKeepsTypes DEF TypeOK, portVars
<1>3. ASSUME NEW T \in SUBSET Effect, Remove(T) PROVE BatchInv'
  <2>1. PICK e \in Effect \cup {None} : Begin(e)
    BY <1>3 DEF Remove
  <2>2. removed' = removed \cup T /\ UNCHANGED <<client, newest, monitored, made>>
    BY <1>3 DEF Remove
  <2> QED
    BY <2>1, <2>2, BeginKeepsTypes DEF TypeOK
<1>4. ASSUME NEW p \in Port, MonitorOff(p) PROVE BatchInv'
  <2>1. p[1] \in Effect /\ Begin(p[1]) /\ monitored' = monitored \ {p}
        /\ UNCHANGED <<client, newest, removed, made>>
    BY <1>4 DEF MonitorOff, Port
  <2> QED
    BY <2>1, BeginKeepsTypes DEF TypeOK
<1>5. ASSUME NEW p \in Port, NEW v \in Value, MonitorOn(p, v) PROVE BatchInv'
  <2> DEFINE e == [kind |-> "output_set", key |-> p, value |-> v]
  <2>1. e \in Event /\ PutEvent(e) /\ UNCHANGED <<walkVars, client, removed>>
        /\ monitored' = monitored \cup {p}
    BY <1>5 DEF MonitorOn, Event, OfEffect
  <2> HIDE DEF e
  <2> QED
    BY <2>1, PutKeepsTypes DEF TypeOK, walkVars
<1>6. CASE Skip
  <2>1. at' = at - 1 /\ at \in 1..Len(queue) /\ pc = "backward"
        /\ UNCHANGED <<pending, queue, pc, ignored, cached, sent, client, newest, portVars, made>>
    BY <1>6 DEF Skip, TypeOK, WalkInv
  <2>2. at' \in 0..(MaxEvents + 1) /\ at' <= Len(queue)
    BY <2>1, PostFeedbackAssumption DEF TypeOK
  <2>3. TypeOK'
    BY <2>1, <2>2 DEF TypeOK, portVars
  <2> QED
    BY <2>1, <2>2, <2>3 DEF SizeInv, WalkInv
<1>7. CASE Send
  <2>1. queue[at] \in Event
    BY <1>7 DEF Send, TypeOK, WalkInv
  <2>2. sent' \in Seq(Event) /\ client' \in [Topic -> Value \cup {None}]
    BY <1>7, <2>1, ReadType, AppendFacts DEF Send, TypeOK
  <2>3. at' = at - 1 /\ at \in 1..Len(queue) /\ pc = "backward"
        /\ UNCHANGED <<pending, queue, pc, ignored, newest, portVars, made>>
        /\ cached' \subseteq Topic
    BY <1>7 DEF Send, TypeOK, WalkInv
  <2>4. at' \in 0..(MaxEvents + 1) /\ at' <= Len(queue)
    BY <2>3, PostFeedbackAssumption DEF TypeOK
  <2>5. TypeOK'
    BY <2>2, <2>3, <2>4 DEF TypeOK, portVars
  <2> QED
    BY <2>3, <2>4, <2>5 DEF SizeInv, WalkInv
<1>8. CASE Turn
  BY <1>8, PostFeedbackAssumption DEF Turn, TypeOK, SizeInv, WalkInv, portVars
<1>9. CASE Forward
  <2>1. at \in 1..Len(queue) /\ queue[at] \in Event
    BY <1>9 DEF Forward, TypeOK, WalkInv
  <2>2. sent' \in Seq(Event)
    BY <1>9, <2>1, AppendFacts DEF Forward, TypeOK
  <2>3. Len(queue) <= MaxEvents
    BY PostFeedbackAssumption DEF TypeOK, SizeInv
  <2>4. at' \in 0..(MaxEvents + 1) /\ at' \in 1..(Len(queue) + 1)
    BY <1>9, <2>1, <2>3, PostFeedbackAssumption DEF Forward, TypeOK
  <2> QED
    BY <1>9, <2>2, <2>4 DEF Forward, TypeOK, SizeInv, WalkInv, portVars
<1>10. CASE Return
  BY <1>10, PostFeedbackAssumption DEF Return, TypeOK, SizeInv, WalkInv, portVars
<1>11. CASE UNCHANGED vars
  BY <1>11 DEF vars, walkVars, portVars, TypeOK, SizeInv, WalkInv
<1> QED
  BY <1>1, <1>2, <1>3, <1>4, <1>5, <1>6, <1>7, <1>8, <1>9, <1>10, <1>11 DEF Next

(* The variables of the feedback keep their types (RunPostPonedEvents,     *)
(* effects.c:1342): no walk leaves its queue.                              *)
THEOREM FeedbackTypeCorrect ==
  Spec => []TypeOK
<1>1. Spec => []BatchInv
  BY TypesAtStart, TypesKept, PTL DEF Spec
<1> QED
  BY <1>1, PTL DEF BatchInv

-----------------------------------------------------------------------------
(* Where the newest value of a topic is: in the list, or in the part of    *)
(* the queue that the walk has not seen and not cached, or at the client.  *)

Carries(q, n, t) == \E i \in 1..n : TopicOf(q[i]) = t

LastIs(q, n, t, v) ==
  \E i \in 1..n : /\ TopicOf(q[i]) = t /\ q[i].value = v
                  /\ \A j \in (i + 1)..n : TopicOf(q[j]) # t

InList(t)  == LastIs(pending, Len(pending), t, newest[t])
NotInList(t) == ~Carries(pending, Len(pending), t)
InQueue(t) == pc = "backward" /\ t \notin cached /\ LastIs(queue, at, t, newest[t])
AtClient(t) ==
  /\ client[t] = newest[t]
  /\ pc = "backward" /\ t \notin cached => ~Carries(queue, at, t)

Others == {t \in Topic : t[2][1] \notin OffEffects}

IgnoredInv == ignored # None => ignored \in removed \cup OffEffects
TopicInv(t) ==
  \/ InList(t)
  \/ NotInList(t) /\ (InQueue(t) \/ AtClient(t))
OthersInv == \A t \in Others : Wanted(t) => TopicInv(t)

FeedbackInv == BatchInv /\ IgnoredInv /\ OthersInv

LEMMA FeedbackAtStart ==
  Init => FeedbackInv
<1> SUFFICES ASSUME Init PROVE FeedbackInv
  OBVIOUS
<1>1. \A t \in Topic : NotInList(t) /\ AtClient(t)
  BY DEF Init, NotInList, AtClient, Carries
<1> QED
  BY <1>1, TypesAtStart DEF Init, FeedbackInv, IgnoredInv, OthersInv, TopicInv, Others

(* Of a topic that is wanted no event is left out because of its effect.   *)
LEMMA WantedIsNotIgnored ==
  ASSUME FeedbackInv, NEW t \in Others, Wanted(t), NEW e \in Event, TopicOf(e) = t
  PROVE  ~(e.kind \in OfEffect /\ e.key[1] = ignored)
<1>1. t[2] = e.key /\ t[2][1] \notin removed \cup OffEffects
  BY DEF Wanted, Others, TopicOf
<1>2. e.kind \in OfEffect => e.key[1] \in Effect
  BY EventFields DEF Port
<1> QED
  BY <1>1, <1>2, PostFeedbackAssumption DEF FeedbackInv, IgnoredInv

(* An event that is queued is the newest of its topic.                     *)
LEMMA PutKeepsTopic ==
  ASSUME FeedbackInv, NEW e \in Event, PutEvent(e), UNCHANGED walkVars, UNCHANGED client,
         NEW t \in Topic, TopicInv(t) \/ TopicOf(e) = t
  PROVE  TopicInv(t)'
<1>1. pending \in Seq(Event) /\ newest \in [Topic -> Value \cup {None}]
  BY DEF FeedbackInv, BatchInv, TypeOK
<1>2. pending' = Append(pending, e) /\ newest' = Read(newest, e)
  BY DEF PutEvent
<1> DEFINE n == Len(pending)
<1>3. /\ n \in Nat /\ Len(pending') = n + 1 /\ pending'[n + 1] = e
      /\ \A i \in 1..n : pending'[i] = pending[i]
  BY <1>1, <1>2, AppendFacts
<1>4. queue' = queue /\ at' = at /\ pc' = pc /\ cached' = cached
  BY DEF walkVars
<1> HIDE DEF n
<1>5. CASE TopicOf(e) = t
  <2>1. e.kind \in Newest
    BY <1>5 DEF TopicOf, Topic
  <2>2. newest'[t] = e.value
    BY <1>1, <1>2, <1>5, <2>1 DEF Read
  <2>3. LastIs(pending', n + 1, t, newest'[t])
    BY <1>3, <1>5, <2>2 DEF LastIs
  <2>4. LastIs(pending', Len(pending'), t, newest'[t])
    BY <1>3, <2>3
  <2>5. InList(t)'
    BY <2>4 DEF InList, LastIs
  <2> QED
    BY <2>5 DEF TopicInv
<1>6. CASE TopicOf(e) # t
  <2>1. newest'[t] = newest[t]
    BY <1>1, <1>2, <1>6 DEF Read
  <2>2. InList(t) => InList(t)'
    <3> SUFFICES ASSUME InList(t) PROVE InList(t)'
      OBVIOUS
    <3>1. PICK i \in 1..n : /\ TopicOf(pending[i]) = t /\ pending[i].value = newest[t]
                            /\ \A j \in (i + 1)..n : TopicOf(pending[j]) # t
      BY DEF InList, LastIs, n
    <3>2. i \in 1..(n + 1) /\ TopicOf(pending'[i]) = t /\ pending'[i].value = newest'[t]
      BY <1>3, <2>1, <3>1
    <3>3. \A j \in (i + 1)..(n + 1) : TopicOf(pending'[j]) # t
      BY <1>3, <1>6, <3>1
    <3> QED
      BY <1>3, <3>2, <3>3 DEF InList, LastIs
  <2>3. NotInList(t) => NotInList(t)'
    BY <1>3, <1>6 DEF NotInList, Carries, n
  <2>4. (InQueue(t) => InQueue(t)') /\ (AtClient(t) => AtClient(t)')
    BY <1>4, <2>1 DEF InQueue, AtClient
  <2> QED
    BY <1>6, <2>2, <2>3, <2>4 DEF TopicInv
<1> QED
  BY <1>5, <1>6

(* The splice takes what is in the list into the queue.                    *)
LEMMA BeginKeepsTopic ==
  ASSUME FeedbackInv, NEW e, Begin(e), UNCHANGED <<client, newest>>,
         NEW t \in Topic, TopicInv(t)
  PROVE  TopicInv(t)'
<1>1. queue' = pending /\ pending' = <<>> /\ at' = Len(pending) /\ cached' = {} /\ pc = "idle"
  BY DEF Begin
<1>2. NotInList(t)'
  BY <1>1 DEF NotInList, Carries
<1>3. CASE InList(t)
  <2>1. pending # <<>>
    BY <1>3 DEF InList, LastIs
  <2>2. pc' = "backward"
    BY <2>1 DEF Begin
  <2>3. InQueue(t)'
    BY <1>1, <1>3, <2>2 DEF InList, InQueue
  <2> QED
    BY <1>2, <2>3 DEF TopicInv
<1>4. CASE NotInList(t) /\ AtClient(t)
  <2>1. AtClient(t)'
    BY <1>1, <1>4 DEF AtClient, NotInList
  <2> QED
    BY <1>2, <2>1 DEF TopicInv
<1> QED
  BY <1>1, <1>3, <1>4 DEF TopicInv, InQueue

(* The walk steps over an event that is not of the topic, or is cached.    *)
LEMMA PassKeepsTopic ==
  ASSUME FeedbackInv, NEW t \in Topic, TopicInv(t),
         pc = "backward", pc' = pc, at \in 1..Len(queue), at' = at - 1,
         UNCHANGED <<pending, queue, newest>>, client'[t] = client[t],
         t \in cached <=> t \in cached', TopicOf(queue[at]) # t \/ t \in cached
  PROVE  TopicInv(t)'
<1>1. (InList(t) => InList(t)') /\ (NotInList(t) => NotInList(t)')
  BY DEF InList, NotInList
<1>2. ASSUME InQueue(t) PROVE InQueue(t)'
  <2>1. PICK i \in 1..at : /\ TopicOf(queue[i]) = t /\ queue[i].value = newest[t]
                           /\ \A j \in (i + 1)..at : TopicOf(queue[j]) # t
    BY <1>2 DEF InQueue, LastIs
  <2>2. i # at
    BY <1>2, <2>1 DEF InQueue
  <2>3. i \in 1..(at - 1) /\ \A j \in (i + 1)..(at - 1) : TopicOf(queue[j]) # t
    BY <2>1, <2>2
  <2>4. LastIs(queue, at - 1, t, newest[t])
    BY <2>1, <2>3 DEF LastIs
  <2> QED
    BY <1>2, <2>4 DEF InQueue
<1>3. ASSUME AtClient(t) PROVE AtClient(t)'
  BY <1>3 DEF AtClient, Carries
<1> QED
  BY <1>1, <1>2, <1>3 DEF TopicInv

LEMMA FeedbackKept ==
  ASSUME FeedbackInv, [Next]_vars
  PROVE  FeedbackInv'
<1>1. BatchInv'
  BY TypesKept DEF FeedbackInv
<1>2. TypeOK /\ WalkInv /\ IgnoredInv /\ Others \subseteq Topic
  BY DEF FeedbackInv, BatchInv, Others
<1>3. \A t \in Others : Wanted(t) => TopicInv(t)
  BY DEF FeedbackInv, OthersInv
<1> DEFINE Kept == IgnoredInv' /\ \A t \in Others : Wanted(t)' => TopicInv(t)'
<1> SUFFICES Kept
  BY <1>1 DEF FeedbackInv, OthersInv
<1>4. ASSUME NEW e \in Event, Queue(e) PROVE Kept
  <2>1. PutEvent(e) /\ UNCHANGED <<walkVars, client, portVars>>
    BY <1>4 DEF Queue
  <2>2. IgnoredInv'
    BY <1>2, <2>1 DEF IgnoredInv, walkVars, portVars
  <2>3. \A t \in Others : Wanted(t)' => Wanted(t)
    BY <2>1 DEF Wanted, portVars
  <2>4. \A t \in Others : Wanted(t)' => TopicInv(t)'
    BY <1>2, <1>3, <2>1, <2>3, PutKeepsTopic
  <2> QED
    BY <2>2, <2>4
<1>5. CASE FeedbackRun
  <2>1. Begin(None) /\ UNCHANGED <<client, newest, portVars>> /\ ignored = None
    BY <1>2, <1>5 DEF FeedbackRun, Begin, WalkInv
  <2>2. IgnoredInv'
    BY <2>1 DEF IgnoredInv, Begin
  <2>3. \A t \in Others : Wanted(t)' => Wanted(t)
    BY <2>1 DEF Wanted, portVars
  <2>4. \A t \in Others : Wanted(t)' => TopicInv(t)'
    BY <1>2, <1>3, <2>1, <2>3, BeginKeepsTopic
  <2> QED
    BY <2>2, <2>4
<1>6. ASSUME NEW T \in SUBSET Effect, Remove(T) PROVE Kept
  <2>1. PICK e \in T \cup {None} : Begin(e)
    BY <1>6 DEF Remove
  <2>2. removed' = removed \cup T /\ UNCHANGED <<client, newest, monitored>> /\ ignored = None
    BY <1>2, <1>6, <2>1 DEF Remove, Begin, WalkInv
  <2>3. IgnoredInv'
    BY <2>1, <2>2 DEF IgnoredInv, Begin
  <2>4. \A t \in Others : Wanted(t)' => Wanted(t)
    BY <2>2 DEF Wanted
  <2>5. \A t \in Others : Wanted(t)' => TopicInv(t)'
    BY <1>2, <1>3, <2>1, <2>2, <2>4, BeginKeepsTopic
  <2> QED
    BY <2>3, <2>5
<1>7. ASSUME NEW p \in Port, MonitorOff(p) PROVE Kept
  <2>1. /\ Begin(p[1]) /\ p[1] \in OffEffects /\ monitored' = monitored \ {p}
        /\ UNCHANGED <<client, newest, removed>> /\ ignored = None
    BY <1>2, <1>7 DEF MonitorOff, Begin, WalkInv
  <2>2. IgnoredInv'
    BY <2>1 DEF IgnoredInv, Begin
  <2>3. \A t \in Others : Wanted(t)' => Wanted(t)
    BY <2>1 DEF Wanted
  <2>4. \A t \in Others : Wanted(t)' => TopicInv(t)'
    BY <1>2, <1>3, <2>1, <2>3, BeginKeepsTopic
  <2> QED
    BY <2>2, <2>4
<1>8. ASSUME NEW p \in Port, NEW v \in Value, MonitorOn(p, v) PROVE Kept
  <2> DEFINE e == [kind |-> "output_set", key |-> p, value |-> v]
  <2>1. /\ PutEvent(e) /\ UNCHANGED <<walkVars, client, removed>>
        /\ monitored' = monitored \cup {p} /\ e \in Event
    BY <1>8 DEF MonitorOn, Event, OfEffect
  <2>2. IgnoredInv'
    BY <1>2, <2>1 DEF IgnoredInv, walkVars
  <2>3. TopicOf(e) = <<"output_set", p>>
    BY DEF TopicOf
  <2>4. \A t \in Others : Wanted(t)' => Wanted(t) \/ t = <<"output_set", p>>
    BY <1>2, <2>1 DEF Wanted, Topic
  <2> HIDE DEF e
  <2>5. \A t \in Others : Wanted(t)' => TopicInv(t)'
    BY <1>2, <1>3, <2>1, <2>3, <2>4, PutKeepsTopic
  <2> QED
    BY <2>2, <2>5
<1>9. CASE Skip
  <2>1. /\ pc = "backward" /\ pc' = pc /\ at \in 1..Len(queue) /\ at' = at - 1
        /\ UNCHANGED <<pending, queue, ignored, cached, client, newest, portVars>>
        /\ Skipped(queue[at]) /\ queue[at] \in Event
    BY <1>2, <1>9 DEF Skip, TypeOK, WalkInv
  <2>2. IgnoredInv'
    BY <1>2, <2>1 DEF IgnoredInv, portVars
  <2>3. ASSUME NEW t \in Others, Wanted(t)' PROVE TopicInv(t)'
    <3>1. Wanted(t) /\ t \in Topic
      BY <1>2, <2>1, <2>3 DEF Wanted, portVars
    <3>2. ASSUME TopicOf(queue[at]) = t PROVE t \in cached
      <4>1. queue[at].kind \in Newest
        BY <3>1, <3>2 DEF TopicOf, Topic
      <4>2. queue[at].kind \notin Silent
        BY <4>1 DEF Newest, Silent
      <4>3. ~(queue[at].kind \in OfEffect /\ queue[at].key[1] = ignored)
        BY <2>1, <3>1, <3>2, WantedIsNotIgnored
      <4> QED
        BY <2>1, <3>2, <4>2, <4>3 DEF Skipped
    <3> QED
      BY <1>3, <2>1, <3>1, <3>2, PassKeepsTopic
  <2> QED
    BY <2>2, <2>3
<1>10. CASE Send
  <2> DEFINE e == queue[at]
  <2>1. /\ pc = "backward" /\ pc' = pc /\ at \in 1..Len(queue) /\ at' = at - 1
        /\ UNCHANGED <<pending, queue, ignored, newest, portVars>>
        /\ ~Skipped(e) /\ e \in Event
        /\ client' = Read(client, e) /\ cached' = cached \cup ({TopicOf(e)} \cap Topic)
        /\ client \in [Topic -> Value \cup {None}]
    BY <1>2, <1>10 DEF Send, TypeOK, WalkInv
  <2>2. IgnoredInv'
    BY <1>2, <2>1 DEF IgnoredInv, portVars
  <2>3. ASSUME NEW t \in Others, Wanted(t)' PROVE TopicInv(t)'
    <3>1. Wanted(t) /\ t \in Topic /\ TopicInv(t)
      BY <1>2, <1>3, <2>1, <2>3 DEF Wanted, portVars
    <3>2. CASE TopicOf(e) # t
      <4>1. client'[t] = client[t] /\ (t \in cached <=> t \in cached')
        BY <2>1, <3>1, <3>2 DEF Read
      <4> HIDE DEF e
      <4>2. TopicOf(queue[at]) # t
        BY <3>2 DEF e
      <4> QED
        BY <2>1, <3>1, <4>1, <4>2, PassKeepsTopic
    <3>3. CASE TopicOf(e) = t
      <4>1. e.kind \in Newest
        BY <3>1, <3>3 DEF TopicOf, Topic
      <4>2. t \notin cached /\ client'[t] = e.value /\ t \in cached'
        BY <2>1, <3>1, <3>3, <4>1 DEF Skipped, Read
      <4>3. (InList(t) => InList(t)') /\ (NotInList(t) => NotInList(t)')
        BY <2>1 DEF InList, NotInList
      <4>4. Carries(queue, at, t)
        BY <2>1, <3>3 DEF Carries
      <4>5. ASSUME InQueue(t) PROVE AtClient(t)'
        <5>1. PICK i \in 1..at : /\ TopicOf(queue[i]) = t /\ queue[i].value = newest[t]
                                 /\ \A j \in (i + 1)..at : TopicOf(queue[j]) # t
          BY <4>5 DEF InQueue, LastIs
        <5>2. i = at
          BY <2>1, <3>3, <5>1
        <5> QED
          BY <2>1, <4>2, <5>1, <5>2 DEF AtClient
      <4>6. ~AtClient(t)
        BY <2>1, <4>2, <4>4 DEF AtClient
      <4> QED
        BY <3>1, <4>3, <4>5, <4>6 DEF TopicInv
    <3> QED
      BY <3>2, <3>3
  <2> QED
    BY <2>2, <2>3
<1>11. CASE Turn
  <2>1. /\ at = 0 /\ pc' = "forward"
        /\ UNCHANGED <<pending, ignored, client, newest, portVars>>
    BY <1>11 DEF Turn
  <2>2. \A t \in Others : ~InQueue(t)
    BY <2>1 DEF InQueue, LastIs
  <2> QED
    BY <1>2, <1>3, <2>1, <2>2
       DEF TopicInv, InList, NotInList, AtClient, Wanted, IgnoredInv, portVars
<1>12. CASE Forward
  <2>1. /\ pc = "forward" /\ pc' = "forward"
        /\ UNCHANGED <<pending, ignored, client, newest, portVars>>
    BY <1>12 DEF Forward
  <2> QED
    BY <1>2, <1>3, <2>1
       DEF TopicInv, InQueue, InList, NotInList, AtClient, Wanted, IgnoredInv, portVars
<1>13. CASE Return
  <2>1. /\ pc = "forward" /\ pc' = "idle" /\ ignored' = None
        /\ UNCHANGED <<pending, client, newest, portVars>>
    BY <1>13 DEF Return
  <2> QED
    BY <1>3, <2>1
       DEF TopicInv, InQueue, InList, NotInList, AtClient, Wanted, IgnoredInv, portVars
<1>14. CASE UNCHANGED vars
  BY <1>2, <1>3, <1>14
     DEF vars, walkVars, portVars, TopicInv, InQueue, InList, NotInList, AtClient, Wanted,
         IgnoredInv
<1> QED
  BY <1>4, <1>5, <1>6, <1>7, <1>8, <1>9, <1>10, <1>11, <1>12, <1>13, <1>14 DEF Next

(* When nothing is queued and no run is under way, the client has the      *)
(* newest value of every topic it wants, of every effect that no           *)
(* monitor_output_off is issued for (effects.c:1342, 6616, 7732).          *)
THEOREM ClientHasNewest ==
  Spec => []OthersUpToDate
<1>1. FeedbackInv => OthersUpToDate
  <2> SUFFICES ASSUME FeedbackInv, pc = "idle", pending = <<>>, NEW t \in Others, Wanted(t)
               PROVE  client[t] = newest[t]
    BY DEF OthersUpToDate, UpToDate, Others
  <2>1. TopicInv(t)
    BY DEF FeedbackInv, OthersInv
  <2>2. ~InList(t) /\ ~InQueue(t)
    BY DEF InList, InQueue, LastIs
  <2> QED
    BY <2>1, <2>2 DEF TopicInv, AtClient
<1>2. Spec => []FeedbackInv
  BY FeedbackAtStart, FeedbackKept, PTL DEF Spec
<1> QED
  BY <1>1, <1>2, PTL

-----------------------------------------------------------------------------
(* What Picked and Reversed give.                                          *)

IsPicked(f, q, P, S) ==
  /\ f \in [0..Len(q) -> Seq(S)] /\ f[0] = <<>>
  /\ \A k \in 1..Len(q) : f[k] = IF k \in P THEN Append(f[k - 1], q[k]) ELSE f[k - 1]

LEMMA PickedIs ==
  ASSUME NEW S, NEW q \in Seq(S), NEW P
  PROVE  IsPicked(Picked(q, P), q, P, S)
<1> DEFINE L == Len(q)
           M == Seq(S)
           step == [k \in 1..L |-> [m \in M |-> IF k \in P THEN Append(m, q[k]) ELSE m]]
           Def(g) == [k \in 0..L |-> IF k = 0 THEN <<>>
                                     ELSE IF k \in P THEN Append(g[k - 1], q[k])
                                     ELSE g[k - 1]]
<1>1. L \in Nat /\ <<>> \in M /\ \A k \in 1..L : q[k] \in S
  OBVIOUS
<1>2. step \in [1..L -> [M -> M]]
  BY <1>1, AppendFacts
<1>3. PICK f : Follows(f, L, M, <<>>, step)
  <2>1. Steps(L, M, <<>>, step)
    BY <1>1, <1>2 DEF Steps
  <2> HIDE DEF L, M, step
  <2> QED
    BY <2>1, PrimitiveRecursion
<1>4. f \in [0..L -> M] /\ f[0] = <<>> /\ \A k \in 1..L : f[k - 1] \in M
  <2> HIDE DEF L, M, step
  <2>1. f \in [0..L -> M] /\ f[0] = <<>>
    BY <1>3 DEF Follows
  <2>2. \A k \in 1..L : k - 1 \in 0..L
    BY <1>1
  <2> QED
    BY <2>1, <2>2
<1>5. \A k \in 1..L : f[k] = IF k \in P THEN Append(f[k - 1], q[k]) ELSE f[k - 1]
  <2>1. \A k \in 1..L : f[k] = step[k][f[k - 1]]
    BY <1>3 DEF Follows
  <2> HIDE DEF L, M
  <2> QED
    BY <1>4, <2>1
<1>6. f = Def(f)
  <2>1. \A k \in 0..L : k = 0 \/ k \in 1..L
    BY <1>1
  <2> HIDE DEF L, M
  <2> QED
    BY <1>4, <1>5, <2>1
<1> DEFINE picked == CHOOSE g : g = Def(g)
<1>7. picked = Def(picked)
  <2> HIDE DEF Def
  <2> QED
    BY <1>6
<1>8. Picked(q, P) = picked
  BY DEF Picked
<1> HIDE DEF picked
<1>9. picked[0] = <<>> /\ \A k \in 1..L : picked[k] = IF k \in P THEN Append(picked[k - 1], q[k])
                                                      ELSE picked[k - 1]
  <2>1. 0 \in 0..L /\ \A k \in 1..L : k \in 0..L /\ k # 0
    BY <1>1
  <2> HIDE DEF L
  <2> QED
    BY <1>7, <2>1
<1> DEFINE A == {k \in 0..L : picked[k] \in M}
<1>10. 0 \in A
  <2>1. 0 \in 0..L
    BY <1>1
  <2> HIDE DEF L, M
  <2> QED
    BY <1>1, <1>9, <2>1
<1>11. ASSUME NEW k \in 0..(L - 1), k \in A PROVE k + 1 \in A
  <2> DEFINE m == k + 1
  <2>1. m \in 0..L /\ m \in 1..L /\ m - 1 = k /\ q[m] \in S
    BY <1>1, <1>11
  <2> HIDE DEF m, L
  <2>2. picked[m] = IF m \in P THEN Append(picked[k], q[m]) ELSE picked[k]
    BY <1>9, <2>1
  <2>3. picked[m] \in M
    BY <1>11, <2>1, <2>2, AppendFacts
  <2> QED
    BY <2>1, <2>3 DEF m
<1>12. 0..L \subseteq A
  <2>1. \A k \in 0..(L - 1) : k \in A => k + 1 \in A
    BY <1>11
  <2> HIDE DEF A, L
  <2> QED
    BY <1>1, <1>10, <2>1, BoundedInduction
<1>13. picked \in [0..L -> M]
  <2>1. \A k \in 0..L : picked[k] \in M
    BY <1>12
  <2>2. picked = [k \in 0..L |-> picked[k]]
    <3> HIDE DEF L
    <3> QED
      BY <1>7
  <2> HIDE DEF L, M
  <2> QED
    BY <2>1, <2>2
<1> QED
  BY <1>8, <1>9, <1>13 DEF IsPicked

LEMMA ReversedIs ==
  ASSUME NEW S, NEW q \in Seq(S)
  PROVE  /\ Reversed(q) \in Seq(S) /\ Len(Reversed(q)) = Len(q)
         /\ \A k \in 1..Len(q) : Reversed(q)[k] = q[Len(q) + 1 - k]
<1>1. \A k \in 1..Len(q) : Len(q) + 1 - k \in 1..Len(q)
  OBVIOUS
<1>2. \A k \in 1..Len(q) : q[Len(q) + 1 - k] \in S
  BY <1>1
<1> QED
  BY <1>2 DEF Reversed

-----------------------------------------------------------------------------
(* What was sent, by how far the walk is.                                  *)

Back(q, i) == Picked(Reversed(q), ReportedAt(q, i))
Logs(q) == Picked(q, LogsAt(q))

IsIgnored(e, i) == e.kind \in OfEffect /\ e.key[1] = i

\* The topic t was sent from the part of the queue behind position n.
WasSent(q, n, i, t) ==
  \E j \in (n + 1)..Len(q) : TopicOf(q[j]) = t /\ ~IsIgnored(q[j], i)

CacheInv == pc = "backward" => \A t \in Topic : t \in cached <=> WasSent(queue, at, ignored, t)

SentInv ==
  /\ pc = "backward" => sent = Back(queue, ignored)[Len(queue) - at]
  /\ pc = "forward" => sent = Back(queue, ignored)[Len(queue)] \o Logs(queue)[at - 1]

SummaryInv == BatchInv /\ CacheInv /\ SentInv

LEMMA BackIs ==
  ASSUME NEW q \in Seq(Event), NEW i
  PROVE  /\ Back(q, i) \in [0..Len(q) -> Seq(Event)] /\ Back(q, i)[0] = <<>>
         /\ \A n \in 1..Len(q) :
              Back(q, i)[Len(q) + 1 - n] =
                IF Reported(q, i, n) THEN Append(Back(q, i)[Len(q) - n], q[n])
                ELSE Back(q, i)[Len(q) - n]
<1> DEFINE r == Reversed(q)
           L == Len(q)
           f == Back(q, i)
           P == ReportedAt(q, i)
<1>1. r \in Seq(Event) /\ Len(r) = L /\ \A k \in 1..L : r[k] = q[L + 1 - k]
  BY ReversedIs
<1>2. IsPicked(f, r, P, Event)
  <2> HIDE DEF r, P
  <2>1. IsPicked(Picked(r, P), r, P, Event)
    BY <1>1, PickedIs
  <2> QED
    BY <2>1 DEF Back, r, P
<1> HIDE DEF r, f, P
<1>3. ASSUME NEW n \in 1..L
      PROVE  f[L + 1 - n] = IF Reported(q, i, n) THEN Append(f[L - n], q[n]) ELSE f[L - n]
  <2> DEFINE k == L + 1 - n
  <2>1. k \in 1..L /\ k - 1 = L - n /\ L + 1 - k = n
    OBVIOUS
  <2> HIDE DEF k
  <2>2. f[k] = IF k \in P THEN Append(f[k - 1], r[k]) ELSE f[k - 1]
    BY <1>1, <1>2, <2>1 DEF IsPicked
  <2>3. r[k] = q[n]
    BY <1>1, <2>1
  <2>4. k \in P <=> Reported(q, i, n)
    BY <2>1 DEF P, ReportedAt
  <2> QED
    BY <2>1, <2>2, <2>3, <2>4 DEF k
<1> QED
  BY <1>1, <1>2, <1>3 DEF IsPicked, f

LEMMA LogsIs ==
  ASSUME NEW q \in Seq(Event)
  PROVE  /\ Logs(q) \in [0..Len(q) -> Seq(Event)] /\ Logs(q)[0] = <<>>
         /\ \A n \in 1..Len(q) :
              Logs(q)[n] = IF q[n].kind = "log" THEN Append(Logs(q)[n - 1], q[n])
                           ELSE Logs(q)[n - 1]
<1> DEFINE P == LogsAt(q)
<1>1. IsPicked(Logs(q), q, P, Event)
  <2> HIDE DEF P
  <2>1. IsPicked(Picked(q, P), q, P, Event)
    BY PickedIs
  <2> QED
    BY <2>1 DEF Logs, P
<1>2. \A n \in 1..Len(q) : n \in P <=> q[n].kind = "log"
  BY DEF LogsAt
<1> HIDE DEF P
<1> QED
  BY <1>1, <1>2 DEF IsPicked

(* The caches tell the walk what the summary asks of the rest of the queue. *)
LEMMA SkippedIsNotReported ==
  ASSUME SummaryInv, pc = "backward", at \in 1..Len(queue)
  PROVE  Skipped(queue[at]) <=> ~Reported(queue, ignored, at)
<1> DEFINE e == queue[at]
<1>1. queue \in Seq(Event) /\ e \in Event
  BY DEF SummaryInv, BatchInv, TypeOK
<1>2. ASSUME e.kind \in Newest, ~IsIgnored(e, ignored)
      PROVE  TopicOf(e) \in cached
             <=> \E j \in (at + 1)..Len(queue) : TopicOf(queue[j]) = TopicOf(e)
  <2>1. TopicOf(e) \in Topic
    BY <1>1, <1>2, EventFields
  <2>2. \A j \in (at + 1)..Len(queue) :
          TopicOf(queue[j]) = TopicOf(e) => ~IsIgnored(queue[j], ignored)
    BY <1>2 DEF TopicOf, IsIgnored
  <2> QED
    BY <2>1, <2>2 DEF SummaryInv, CacheInv, WasSent
<1> QED
  BY <1>2 DEF Skipped, Reported, IsIgnored

LEMMA SummaryAtStart ==
  Init => SummaryInv
  BY TypesAtStart DEF Init, SummaryInv, CacheInv, SentInv

LEMMA BeginKeepsSummary ==
  ASSUME SummaryInv, NEW i, Begin(i)
  PROVE  CacheInv' /\ SentInv'
<1>1. /\ pending \in Seq(Event) /\ queue' = pending /\ at' = Len(pending)
      /\ cached' = {} /\ sent' = <<>> /\ pc' \in {"idle", "backward"}
  BY DEF SummaryInv, BatchInv, TypeOK, Begin
<1>2. CacheInv'
  BY <1>1 DEF CacheInv, WasSent
<1>3. Back(queue', ignored')[Len(queue') - at'] = <<>>
  BY <1>1, BackIs
<1>4. SentInv'
  BY <1>1, <1>3 DEF SentInv
<1> QED
  BY <1>2, <1>4

LEMMA QuietKeepsSummary ==
  ASSUME SummaryInv, UNCHANGED walkVars
  PROVE  CacheInv' /\ SentInv'
  BY DEF SummaryInv, CacheInv, SentInv, walkVars

LEMMA SkipKeepsSummary ==
  ASSUME SummaryInv, Skip
  PROVE  CacheInv' /\ SentInv'
<1> DEFINE e == queue[at]
           L == Len(queue)
           B == Back(queue, ignored)
<1>1. /\ queue \in Seq(Event) /\ at \in 1..L /\ pc = "backward" /\ e \in Event
      /\ Skipped(e) /\ pc' = pc /\ queue' = queue /\ ignored' = ignored
      /\ at' = at - 1 /\ sent' = sent /\ cached' = cached
  BY DEF Skip, SummaryInv, BatchInv, TypeOK, WalkInv
<1>2. ASSUME NEW t \in Topic, TopicOf(e) = t, ~IsIgnored(e, ignored) PROVE t \in cached
  <2>1. e.kind \in Newest
    BY <1>2 DEF TopicOf, Topic
  <2> QED
    BY <1>1, <1>2, <2>1 DEF Skipped, IsIgnored, Newest, Silent
<1>3. \A t \in Topic : WasSent(queue, at, ignored, t) => WasSent(queue, at - 1, ignored, t)
  BY <1>1 DEF WasSent
<1>4. \A t \in Topic : WasSent(queue, at - 1, ignored, t)
                       => \/ WasSent(queue, at, ignored, t)
                          \/ TopicOf(e) = t /\ ~IsIgnored(e, ignored)
  BY <1>1 DEF WasSent
<1>5. \A t \in Topic : t \in cached <=> WasSent(queue, at, ignored, t)
  BY <1>1 DEF SummaryInv, CacheInv
<1>6. \A t \in Topic : t \in cached <=> WasSent(queue, at - 1, ignored, t)
  BY <1>2, <1>3, <1>4, <1>5
<1>7. CacheInv'
  BY <1>1, <1>6 DEF CacheInv
<1>8. sent = B[L - at]
  BY <1>1 DEF SummaryInv, SentInv
<1>9. B[L + 1 - at] = B[L - at]
  BY <1>1, BackIs, SkippedIsNotReported
<1>10. L - (at - 1) = L + 1 - at
  BY <1>1
<1>11. SentInv'
  BY <1>1, <1>8, <1>9, <1>10 DEF SentInv
<1> QED
  BY <1>7, <1>11

LEMMA SendKeepsSummary ==
  ASSUME SummaryInv, Send
  PROVE  CacheInv' /\ SentInv'
<1> DEFINE e == queue[at]
           L == Len(queue)
           B == Back(queue, ignored)
<1>1. /\ queue \in Seq(Event) /\ at \in 1..L /\ pc = "backward" /\ e \in Event
      /\ ~Skipped(e) /\ pc' = pc /\ queue' = queue /\ ignored' = ignored
      /\ at' = at - 1 /\ sent' = Append(sent, e)
      /\ cached' = cached \cup ({TopicOf(e)} \cap Topic)
  BY DEF Send, SummaryInv, BatchInv, TypeOK, WalkInv
<1>2. ~IsIgnored(e, ignored)
  BY <1>1 DEF Skipped, IsIgnored
<1>3. \A t \in Topic : WasSent(queue, at - 1, ignored, t)
                       <=> WasSent(queue, at, ignored, t) \/ TopicOf(e) = t
  <2>1. ASSUME NEW t \in Topic, WasSent(queue, at - 1, ignored, t)
        PROVE  WasSent(queue, at, ignored, t) \/ TopicOf(e) = t
    BY <1>1, <2>1 DEF WasSent
  <2>2. ASSUME NEW t \in Topic, WasSent(queue, at, ignored, t)
        PROVE  WasSent(queue, at - 1, ignored, t)
    BY <1>1, <2>2 DEF WasSent
  <2>3. ASSUME NEW t \in Topic, TopicOf(e) = t
        PROVE  WasSent(queue, at - 1, ignored, t)
    BY <1>1, <1>2, <2>3 DEF WasSent
  <2> QED
    BY <2>1, <2>2, <2>3
<1>4. \A t \in Topic : t \in cached <=> WasSent(queue, at, ignored, t)
  BY <1>1 DEF SummaryInv, CacheInv
<1>5. \A t \in Topic : t \in cached' <=> WasSent(queue, at - 1, ignored, t)
  <2> HIDE DEF e
  <2> QED
    BY <1>1, <1>3, <1>4
<1>6. CacheInv'
  BY <1>1, <1>5 DEF CacheInv
<1>7. sent = B[L - at]
  BY <1>1 DEF SummaryInv, SentInv
<1>8. B[L + 1 - at] = Append(B[L - at], e)
  BY <1>1, BackIs, SkippedIsNotReported
<1>9. L - (at - 1) = L + 1 - at
  BY <1>1
<1>10. SentInv'
  BY <1>1, <1>7, <1>8, <1>9 DEF SentInv
<1> QED
  BY <1>6, <1>10

LEMMA TurnKeepsSummary ==
  ASSUME SummaryInv, Turn
  PROVE  CacheInv' /\ SentInv'
<1>1. /\ queue \in Seq(Event) /\ pc = "backward" /\ at = 0 /\ pc' = "forward" /\ at' = 1
      /\ queue' = queue /\ ignored' = ignored /\ sent' = sent
  BY DEF Turn, SummaryInv, BatchInv, TypeOK
<1>2. sent = Back(queue, ignored)[Len(queue)]
  BY <1>1 DEF SummaryInv, SentInv
<1>3. Back(queue, ignored)[Len(queue)] \in Seq(Event)
  BY <1>1, BackIs
<1>4. Logs(queue)[0] = <<>>
  BY <1>1, LogsIs
<1>5. sent = Back(queue, ignored)[Len(queue)] \o Logs(queue)[0]
  BY <1>2, <1>3, <1>4
<1> QED
  BY <1>1, <1>5 DEF CacheInv, SentInv

LEMMA ForwardKeepsSummary ==
  ASSUME SummaryInv, Forward
  PROVE  CacheInv' /\ SentInv'
<1> DEFINE e == queue[at]
           B == Back(queue, ignored)[Len(queue)]
           G == Logs(queue)
<1>1. /\ queue \in Seq(Event) /\ pc = "forward" /\ at \in 1..Len(queue) /\ e \in Event
      /\ pc' = pc /\ queue' = queue /\ ignored' = ignored /\ at' = at + 1
      /\ sent' = IF e.kind = "log" THEN Append(sent, e) ELSE sent
  BY DEF Forward, SummaryInv, BatchInv, TypeOK, WalkInv
<1>2. sent = B \o G[at - 1]
  BY <1>1 DEF SummaryInv, SentInv
<1>3. B \in Seq(Event) /\ G[at - 1] \in Seq(Event) /\ e \in Event
  <2>1. at - 1 \in 0..Len(queue) /\ Len(queue) \in 0..Len(queue)
    BY <1>1
  <2>2. /\ Back(queue, ignored) \in [0..Len(queue) -> Seq(Event)]
        /\ G \in [0..Len(queue) -> Seq(Event)]
    BY <1>1, BackIs, LogsIs
  <2> QED
    BY <1>1, <2>1, <2>2
<1>4. G[at] = IF e.kind = "log" THEN Append(G[at - 1], e) ELSE G[at - 1]
  BY <1>1, LogsIs
<1> HIDE DEF e, B, G
<1>5. Append(B \o G[at - 1], e) = B \o Append(G[at - 1], e)
  <2> DEFINE r == G[at - 1]
  <2>1. B \in Seq(Event) /\ r \in Seq(Event) /\ e \in Event
    BY <1>3
  <2> HIDE DEF r
  <2>2. Append(B \o r, e) = B \o Append(r, e)
    BY <2>1
  <2> QED
    BY <2>2 DEF r
<1>6. sent' = B \o G[at]
  BY <1>1, <1>2, <1>4, <1>5
<1>7. at' - 1 = at
  BY <1>1
<1> QED
  BY <1>1, <1>6, <1>7 DEF CacheInv, SentInv, B, G

LEMMA SummaryKept ==
  ASSUME SummaryInv, [Next]_vars
  PROVE  SummaryInv'
<1>1. BatchInv'
  BY TypesKept DEF SummaryInv
<1> DEFINE Kept == CacheInv' /\ SentInv'
<1> SUFFICES Kept
  BY <1>1 DEF SummaryInv
<1>2. ASSUME NEW e \in Event, Queue(e) PROVE Kept
  BY <1>2, QuietKeepsSummary DEF Queue
<1>3. CASE FeedbackRun
  BY <1>3, BeginKeepsSummary DEF FeedbackRun
<1>4. ASSUME NEW T \in SUBSET Effect, Remove(T) PROVE Kept
  BY <1>4, BeginKeepsSummary DEF Remove
<1>5. ASSUME NEW p \in Port, MonitorOff(p) PROVE Kept
  BY <1>5, BeginKeepsSummary DEF MonitorOff
<1>6. ASSUME NEW p \in Port, NEW v \in Value, MonitorOn(p, v) PROVE Kept
  BY <1>6, QuietKeepsSummary DEF MonitorOn
<1>7. CASE Return
  BY <1>7 DEF Return, CacheInv, SentInv
<1>8. CASE UNCHANGED vars
  BY <1>8, QuietKeepsSummary DEF vars
<1> QED
  BY <1>2, <1>3, <1>4, <1>5, <1>6, <1>7, <1>8, SkipKeepsSummary, SendKeepsSummary,
     TurnKeepsSummary, ForwardKeepsSummary DEF Next

(* For batches of any length and any kinds: the two walks with their       *)
(* caches send the newest event of every topic, newest first, and then the *)
(* logs, oldest first, and nothing else (effects.c:1342).                  *)
THEOREM WalksSendSummary ==
  Spec => []BatchIsSummarised
<1>1. SummaryInv => BatchIsSummarised
  <2> SUFFICES ASSUME SummaryInv, pc = "forward", at > Len(queue)
               PROVE  sent = Summary(queue, ignored)
    BY DEF BatchIsSummarised
  <2>1. at - 1 = Len(queue)
    BY DEF SummaryInv, BatchInv, TypeOK, WalkInv
  <2>2. sent = Back(queue, ignored)[Len(queue)] \o Logs(queue)[Len(queue)]
    BY <2>1 DEF SummaryInv, SentInv
  <2> QED
    BY <2>2 DEF Summary, Back, Logs
<1>2. Spec => []SummaryInv
  BY SummaryAtStart, SummaryKept, PTL DEF Spec
<1> QED
  BY <1>1, <1>2, PTL

=============================================================================
