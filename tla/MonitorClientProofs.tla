------------------------- MODULE MonitorClientProofs -------------------------
(***************************************************************************)
(* What the wait flags and semaphores of the monitor client promise, for   *)
(* every number of volume levels and every mix of commands, proved.        *)
(***************************************************************************)
EXTENDS MonitorClient, SequenceTheorems, TLAPS

(* TypeOK is inductive: levels stay levels, and semaphores stay within the *)
(* bound at which a post has no effect.                                    *)
LEMMA ProgramType == \A c \in CommandName : Program(c) \in Seq(Step)
<1>1. /\ <<"mute", "ask_volume", "wait_volume", "disable", "ask_proc", "wait_proc">> \in Seq(Step)
      /\ <<"mute", "flush", "disable">> \in Seq(Step)
      /\ <<"enable", "full", "unmute">> \in Seq(Step)
  BY DEF Step
<1>2. /\ <<"disable", "ask_proc", "wait_proc">> \in Seq(Step)
      /\ <<"ask_proc", "wait_proc">> \in Seq(Step)
      /\ <<"mute">> \in Seq(Step)
      /\ <<"enable">> \in Seq(Step)
      /\ <<>> \in Seq(Step)
  BY DEF Step
<1>3. QED
  BY <1>1, <1>2 DEF Program, CommandName

LEMMA MoveType == ASSUME NEW s \in Level, NEW v \in Level
                  PROVE  Move(s, v) \in Level
  BY MonitorClientAssumption DEF Level, Move

LEMMA DoesType ==
  ASSUME TypeOK, NEW step, Does(step)
  PROVE  todo # <<>> /\ todo' = Tail(todo) /\ todo' \in Seq(Step)
  BY DEF TypeOK, Does

LEMMA TypeStep == TypeOK /\ [Next]_vars => TypeOK'
<1> SUFFICES ASSUME TypeOK, [Next]_vars
             PROVE  TypeOK'
    OBVIOUS
<1> USE DEF TypeOK
<1>1. CASE CycleBegin
      BY <1>1, MoveType DEF CycleBegin, CyclePC, mixVars, procVars, volVars, cmdVars
<1>2. CASE StoreSmooth
      BY <1>2 DEF StoreSmooth, CyclePC, procVars, volVars, cmdVars
<1>3. CASE StoreMuted
      BY <1>3 DEF StoreMuted, CyclePC, procVars, volVars, cmdVars
<1>4. CASE AnswerProc
  <2>1. procSem' \in 0..SemMax
        BY <1>4, MonitorClientAssumption DEF AnswerProc, SemPost
  <2>2. rt' \in CyclePC
        BY <1>4 DEF AnswerProc, CyclePC
  <2>3. waitProc' \in BOOLEAN /\ cycled' \in BOOLEAN
        BY <1>4 DEF AnswerProc
  <2>4. QED
        BY <1>4, <2>1, <2>2, <2>3 DEF AnswerProc, mixVars, volVars, cmdVars
<1>5. CASE AnswerVolume
  <2>1. volumeSem' \in 0..SemMax
        BY <1>5, MonitorClientAssumption DEF AnswerVolume, SemPost, volVars
  <2>3. waitVolume' \in BOOLEAN
        BY <1>5 DEF AnswerVolume, volVars
  <2>2. rt' \in CyclePC
        BY <1>5 DEF AnswerVolume, CyclePC
  <2>4. QED
        BY <1>5, <2>1, <2>2, <2>3 DEF AnswerVolume, mixVars, procVars, cmdVars
<1>6. ASSUME NEW c \in CommandName, Begin(c) PROVE TypeOK'
      BY <1>6, ProgramType DEF Begin, mixVars, procVars, volVars, rtVars
<1>7. CASE StoreVolume
      BY <1>7, DoesType, MonitorClientAssumption DEF StoreVolume, Overlapping, Mishap, procVars, volVars, rtVars, Level
<1>8. CASE Unmute
      BY <1>8, DoesType DEF Unmute, Overlapping, Mishap, procVars, volVars, rtVars
<1>9. CASE FlushVolume
      BY <1>9, DoesType DEF FlushVolume, Overlapping, Mishap, procVars, volVars, rtVars
<1>10. CASE SetProcessing
      BY <1>10, DoesType DEF SetProcessing, mixVars, procVars, volVars, rtVars
<1>11. CASE Ask
      BY <1>11, DoesType DEF Ask, mixVars, rtVars
<1>12. CASE Answered
  <2>1. procSem' \in 0..SemMax /\ volumeSem' \in 0..SemMax
        BY <1>12, MonitorClientAssumption DEF Answered
  <2>4. answered' \in BOOLEAN
        BY <1>12 DEF Answered
  <2>2. todo' \in Seq(Step)
        BY <1>12, DoesType DEF Answered
  <2>3. QED
        BY <1>12, <2>1, <2>2, <2>4 DEF Answered, mixVars, rtVars
<1>13. CASE TimedOut
      BY <1>13, DoesType DEF TimedOut, Mishap, mixVars, procVars, volVars, rtVars
<1>14. CASE HmiStore
      BY <1>14 DEF HmiStore, Overlapping, Mishap, procVars, volVars, rtVars, cmdVars
<1>15. CASE HmiUnmute
      BY <1>15 DEF HmiUnmute, Overlapping, Mishap, procVars, volVars, rtVars, cmdVars
<1>16. CASE UNCHANGED vars
      BY <1>16 DEF vars, mixVars, procVars, volVars, rtVars, cmdVars
<1>17. QED
      BY <1>1, <1>2, <1>3, <1>4, <1>5, <1>6, <1>7, <1>8, <1>9, <1>10, <1>11, <1>12,
         <1>13, <1>14, <1>15, <1>16 DEF Next, ProcessMonitor, CommandSteps

LEMMA InitType == Init => TypeOK
<1>1. 0 \in 0..SemMax /\ Full \in Level
  BY MonitorClientAssumption DEF Level
<1>2. <<>> \in Seq(Step)
  BY EmptySeq
<1>3. QED
  BY <1>1, <1>2 DEF Init, TypeOK, CyclePC

(* Type correctness of the monitor client and of the commands that wait    *)
(* for it.                                                                 *)
THEOREM MonitorTypeCorrect == Spec => []TypeOK
  BY InitType, TypeStep, PTL DEF Spec

-----------------------------------------------------------------------------
(* A raised flag is followed by the wait for its answer.                   *)
FollowedBy(ask, wait) ==
  \A i \in 1..Len(todo) : todo[i] = ask => i + 1 \in 1..Len(todo) /\ todo[i + 1] = wait

Paired == FollowedBy("ask_proc", "wait_proc") /\ FollowedBy("ask_volume", "wait_volume")

Waiting(wait) == todo # <<>> /\ Head(todo) = wait

LEMMA SecondIsNext ==
  ASSUME NEW s \in Seq(Step), 2 <= Len(s)
  PROVE  Tail(s) # <<>> /\ Head(Tail(s)) = s[2]
<1>1. Tail(s) \in Seq(Step) /\ Len(Tail(s)) = Len(s) - 1 /\ Len(s) \in Nat
  OBVIOUS
<1>2. \A t \in Seq(Step) : Len(t) # 0 => t # <<>>
  BY EmptySeq
<1>4. Tail(s) # <<>>
  <2>1. Len(Tail(s)) # 0
        BY <1>1
  <2> DEFINE t == Tail(s)
  <2>2. t \in Seq(Step) /\ Len(t) # 0
        BY <1>1, <2>1
  <2> HIDE DEF t
  <2>3. t # <<>>
        BY <1>2, <2>2
  <2>4. QED
        BY <2>3 DEF t
<1>3. Tail(s)[1] = s[2]
  BY <1>1
<1>5. QED
  BY <1>1, <1>3, <1>4

(* The inductive form of AtMostOneStalePost: a thread that waits for a     *)
(* post of its own may find a stale one besides.                           *)
StaleInv ==
  /\ TypeOK
  /\ Paired
  /\ procSem + One(waitProc) <= (IF Waiting("wait_proc") THEN 2 ELSE 1)
  /\ volumeSem + One(waitVolume) <= (IF Waiting("wait_volume") THEN 2 ELSE 1)

LEMMA PairedStep == TypeOK /\ Paired /\ [Next]_vars => Paired'
<1> SUFFICES ASSUME TypeOK, Paired, [Next]_vars
             PROVE  Paired'
    OBVIOUS
<1>1. ASSUME UNCHANGED todo PROVE Paired'
      BY <1>1 DEF Paired, FollowedBy
<1>2. ASSUME todo # <<>>, todo' = Tail(todo) PROVE Paired'
  <2>1. todo \in Seq(Step) /\ Len(todo') = Len(todo) - 1 /\ Len(todo) \in Nat
        BY <1>2 DEF TypeOK
  <2>2. \A i \in 1..Len(todo') : todo'[i] = todo[i + 1]
        BY <1>2, <2>1
  <2>3. QED
        BY <2>1, <2>2, SMTT(30) DEF Paired, FollowedBy
<1>3. ASSUME NEW c \in CommandName, Begin(c) PROVE Paired'
      BY <1>3 DEF Begin, Program, CommandName, Paired, FollowedBy
<1>4. ASSUME CommandSteps \/ TimedOut PROVE todo # <<>> /\ todo' = Tail(todo)
      BY <1>4 DEF CommandSteps, StoreVolume, Unmute, FlushVolume, SetProcessing, Ask,
                  Answered, TimedOut, Does
<1>5. ASSUME ProcessMonitor \/ HmiStore \/ HmiUnmute \/ UNCHANGED vars PROVE UNCHANGED todo
      BY <1>5 DEF ProcessMonitor, CycleBegin, StoreSmooth, StoreMuted, AnswerProc,
                  AnswerVolume, HmiStore, HmiUnmute, vars, cmdVars
<1>6. QED
      BY <1>1, <1>2, <1>3, <1>4, <1>5 DEF Next

LEMMA StaleStep == StaleInv /\ [Next]_vars => StaleInv'
<1> SUFFICES ASSUME StaleInv, [Next]_vars
             PROVE  StaleInv'
    OBVIOUS
<1>1. TypeOK' /\ Paired'
      BY TypeStep, PairedStep DEF StaleInv
<1>2. procSem \in Nat /\ volumeSem \in Nat /\ waitProc \in BOOLEAN /\ waitVolume \in BOOLEAN
        /\ todo \in Seq(Step)
      BY MonitorClientAssumption DEF StaleInv, TypeOK
<1>3. ASSUME ProcessMonitor \/ HmiStore \/ HmiUnmute \/ UNCHANGED vars PROVE StaleInv'
  <2>1. UNCHANGED todo
        BY <1>3 DEF ProcessMonitor, CycleBegin, StoreSmooth, StoreMuted, AnswerProc,
                    AnswerVolume, HmiStore, HmiUnmute, vars, cmdVars
  <2>2. procSem' + One(waitProc') <= procSem + One(waitProc)
        BY <1>2, <1>3, MonitorClientAssumption DEF ProcessMonitor, CycleBegin, StoreSmooth, StoreMuted, AnswerProc,
                    AnswerVolume, HmiStore, HmiUnmute, vars, procVars, volVars, SemPost,
                    One
  <2>3. volumeSem' + One(waitVolume') <= volumeSem + One(waitVolume)
        BY <1>2, <1>3, MonitorClientAssumption DEF ProcessMonitor, CycleBegin, StoreSmooth, StoreMuted, AnswerProc,
                    AnswerVolume, HmiStore, HmiUnmute, vars, procVars, volVars, SemPost,
                    One
  <2>4. procSem' \in Nat /\ volumeSem' \in Nat
        BY <1>1, MonitorClientAssumption DEF TypeOK
  <2>6. waitProc' \in BOOLEAN /\ waitVolume' \in BOOLEAN
        BY <1>1 DEF TypeOK
  <2>7. /\ One(waitProc) \in Nat /\ One(waitVolume) \in Nat
        /\ One(waitProc') \in Nat /\ One(waitVolume') \in Nat
        BY DEF One
  <2>5. QED
    <3>1. /\ procSem' + One(waitProc') <= (IF Waiting("wait_proc") THEN 2 ELSE 1)
          /\ volumeSem' + One(waitVolume') <= (IF Waiting("wait_volume") THEN 2 ELSE 1)
          BY <1>2, <2>2, <2>3, <2>4, <2>7 DEF StaleInv
    <3>2. QED
          BY <1>1, <2>1, <3>1 DEF StaleInv, Waiting, One
<1>4. ASSUME NEW c \in CommandName, Begin(c) PROVE StaleInv'
      BY <1>1, <1>2, <1>4 DEF Begin, StaleInv, Waiting, procVars, volVars, One
<1>5. CASE StoreVolume \/ Unmute \/ FlushVolume \/ SetProcessing
      BY <1>1, <1>2, <1>5 DEF StoreVolume, Unmute, FlushVolume, SetProcessing, Does, StaleInv,
                    Waiting, procVars, volVars, One
<1>6. CASE Ask
  <2>1. CASE Does("ask_proc") /\ waitProc' = TRUE /\ UNCHANGED waitVolume
    <3>1. Head(todo) = todo[1] /\ 1 \in 1..Len(todo) /\ todo[1] = "ask_proc"
          BY <1>2, <2>1 DEF Does
    <3>2. 2 \in 1..Len(todo) /\ todo[2] = "wait_proc"
          BY <3>1 DEF StaleInv, Paired, FollowedBy
    <3>3. Waiting("wait_proc")'
      <4>0. todo' = Tail(todo) /\ Len(todo) \in Nat /\ 2 <= Len(todo)
            BY <1>2, <2>1, <3>1, <3>2 DEF Does
      <4>1. todo' # <<>> /\ Head(todo') = todo[2]
            BY <1>2, <4>0, SecondIsNext
      <4>2. QED
            BY <3>2, <4>1 DEF Waiting
    <3>4. UNCHANGED <<procSem, volumeSem>>
          BY <1>6 DEF Ask
    <3>5. QED
          BY <1>1, <1>2, <2>1, <3>1, <3>3, <3>4 DEF StaleInv, Waiting, One
  <2>2. CASE Does("ask_volume") /\ waitVolume' = TRUE /\ UNCHANGED waitProc
    <3>1. Head(todo) = todo[1] /\ 1 \in 1..Len(todo) /\ todo[1] = "ask_volume"
          BY <1>2, <2>2 DEF Does
    <3>2. 2 \in 1..Len(todo) /\ todo[2] = "wait_volume"
          BY <3>1 DEF StaleInv, Paired, FollowedBy
    <3>3. Waiting("wait_volume")'
      <4>0. todo' = Tail(todo) /\ Len(todo) \in Nat /\ 2 <= Len(todo)
            BY <1>2, <2>2, <3>1, <3>2 DEF Does
      <4>1. todo' # <<>> /\ Head(todo') = todo[2]
            BY <1>2, <4>0, SecondIsNext
      <4>2. QED
            BY <3>2, <4>1 DEF Waiting
    <3>4. UNCHANGED <<procSem, volumeSem>>
          BY <1>6 DEF Ask
    <3>5. QED
          BY <1>1, <1>2, <2>2, <3>1, <3>3, <3>4 DEF StaleInv, Waiting, One
  <2>3. QED
        BY <1>6, <2>1, <2>2 DEF Ask
<1>7. CASE Answered
  <2>1. CASE Does("wait_proc") /\ procSem > 0 /\ procSem' = procSem - 1 /\ UNCHANGED volumeSem
        BY <1>1, <1>2, <1>7, <2>1 DEF Answered, Does, StaleInv, Waiting, One
  <2>2. CASE Does("wait_volume") /\ volumeSem > 0 /\ volumeSem' = volumeSem - 1 /\ UNCHANGED procSem
        BY <1>1, <1>2, <1>7, <2>2 DEF Answered, Does, StaleInv, Waiting, One
  <2>3. QED
        BY <1>7, <2>1, <2>2 DEF Answered
<1>8. CASE TimedOut
      BY <1>1, <1>2, <1>8 DEF TimedOut, Does, StaleInv, Waiting, One, procVars, volVars
<1>9. QED
      BY <1>3, <1>4, <1>5, <1>6, <1>7, <1>8 DEF Next, CommandSteps

(* However many waits for a cycle or for a fade time out, at most one post *)
(* is ever left over to answer a later wait too early.                     *)
THEOREM StalePostsBounded == Spec => []AtMostOneStalePost
<1>1. Init => StaleInv
      BY InitType DEF Init, StaleInv, Paired, FollowedBy, Waiting, One
<1>2. StaleInv => AtMostOneStalePost
      BY DEF StaleInv, AtMostOneStalePost, Idle, Waiting
<1>3. QED
      BY <1>1, <1>2, StaleStep, PTL DEF Spec

-----------------------------------------------------------------------------
(* Until a wait times out no post is ever left over, ...                   *)
CycleInv ==
  /\ TypeOK
  /\ Paired
  /\ Without({"proc_timeout"}) =>
       /\ procSem + One(waitProc) <= (IF Waiting("wait_proc") THEN 1 ELSE 0)
       /\ procSem > 0 => cycled
       /\ answered => cycled

LEMMA TimeoutsStay ==
  ASSUME [Next]_vars, Without({"proc_timeout"})'
  PROVE  Without({"proc_timeout"}) /\ (TimedOut => UNCHANGED procVars /\ ~Does("wait_proc"))
<1>1. "proc_timeout" \notin history'
      BY DEF Without
<1>2. "proc_timeout" \notin history
      BY <1>1 DEF Next, ProcessMonitor, CycleBegin, StoreSmooth, StoreMuted, AnswerProc,
         AnswerVolume, Begin, CommandSteps, StoreVolume, Unmute, FlushVolume, SetProcessing,
         Ask, Answered, TimedOut, HmiStore, HmiUnmute, vars
<1>3. TimedOut => UNCHANGED procVars /\ ~Does("wait_proc")
      BY <1>1 DEF TimedOut, Does
<1>4. QED
      BY <1>2, <1>3 DEF Without

LEMMA CycleStep == CycleInv /\ [Next]_vars => CycleInv'
<1>0. SUFFICES ASSUME CycleInv, [Next]_vars, Without({"proc_timeout"})'
               PROVE  CycleInv'
  <2>1. CycleInv /\ [Next]_vars => TypeOK' /\ Paired'
        BY TypeStep, PairedStep DEF CycleInv
  <2>2. QED
        BY <2>1 DEF CycleInv
<1> USE <1>0
<1>1. TypeOK' /\ Paired' /\ Without({"proc_timeout"})
      BY TypeStep, PairedStep, TimeoutsStay DEF CycleInv
<1>2. procSem \in Nat /\ waitProc \in BOOLEAN /\ todo \in Seq(Step)
      BY MonitorClientAssumption DEF CycleInv, TypeOK
<1>3. CASE AnswerProc
      BY <1>1, <1>2, <1>3 DEF AnswerProc, CycleInv, Waiting, One, cmdVars, SemPost
<1>4. CASE CycleBegin \/ StoreSmooth \/ StoreMuted \/ AnswerVolume \/ HmiStore \/ HmiUnmute
             \/ UNCHANGED vars
      BY <1>1, <1>4 DEF CycleBegin, StoreSmooth, StoreMuted, AnswerVolume, HmiStore,
                    HmiUnmute, vars, procVars, cmdVars, CycleInv, One, Waiting
<1>5. ASSUME NEW c \in CommandName, Begin(c) PROVE CycleInv'
  <2>1. procSem = 0 /\ waitProc = FALSE
        BY <1>1, <1>2, <1>5 DEF Begin, CycleInv, One, Waiting
  <2>2. QED
        BY <1>1, <1>5, <2>1 DEF Begin, CycleInv, One, procVars
<1>6. CASE StoreVolume \/ Unmute \/ FlushVolume \/ SetProcessing
  <2>1. ~Waiting("wait_proc") /\ UNCHANGED <<procSem, waitProc, cycled, answered>>
        BY <1>6 DEF StoreVolume, Unmute, FlushVolume, SetProcessing, Does, Waiting, procVars
  <2>2. procSem = 0 /\ waitProc = FALSE
        BY <1>1, <1>2, <2>1 DEF CycleInv, One
  <2>3. QED
        BY <1>1, <2>1, <2>2 DEF CycleInv, One
<1>7. CASE Ask
  <2>1. CASE Does("ask_proc") /\ waitProc' = TRUE /\ cycled' = FALSE
    <3>1. Head(todo) = todo[1] /\ 1 \in 1..Len(todo) /\ todo[1] = "ask_proc"
          BY <1>2, <2>1 DEF Does
    <3>2. 2 \in 1..Len(todo) /\ todo[2] = "wait_proc"
          BY <3>1 DEF CycleInv, Paired, FollowedBy
    <3>3. Waiting("wait_proc")'
      <4>0. todo' = Tail(todo) /\ Len(todo) \in Nat /\ 2 <= Len(todo)
            BY <1>2, <2>1, <3>1, <3>2 DEF Does
      <4>1. todo' # <<>> /\ Head(todo') = todo[2]
            BY <1>2, <4>0, SecondIsNext
      <4>2. QED
            BY <3>2, <4>1 DEF Waiting
    <3>4. QED
          BY <1>1, <1>2, <1>7, <2>1, <3>1, <3>3 DEF Ask, CycleInv, One, Waiting
  <2>2. CASE Does("ask_volume") /\ UNCHANGED <<waitProc, cycled>>
        BY <1>1, <1>2, <1>7, <2>2 DEF Ask, Does, CycleInv, One, Waiting
  <2>3. QED
        BY <1>7, <2>1, <2>2 DEF Ask
<1>8. CASE Answered
  <2>1. CASE Does("wait_proc") /\ procSem > 0 /\ procSem' = procSem - 1 /\ answered' = TRUE
    <3>1. procSem' = 0 /\ waitProc' = FALSE
          BY <1>1, <1>2, <1>8, <2>1 DEF Answered, Does, CycleInv, One, Waiting
    <3>2. QED
          BY <1>1, <1>2, <1>8, <2>1, <3>1 DEF Answered, Does, CycleInv, One, Waiting
  <2>2. CASE Does("wait_volume") /\ UNCHANGED <<procSem, answered>>
        BY <1>1, <1>2, <1>8, <2>2 DEF Answered, Does, CycleInv, One, Waiting
  <2>3. QED
        BY <1>8, <2>1, <2>2 DEF Answered
<1>9. CASE TimedOut
      BY <1>1, <1>2, <1>9, TimeoutsStay DEF TimedOut, Does, CycleInv, One, Waiting, procVars
<1>10. QED
      BY <1>3, <1>4, <1>5, <1>6, <1>7, <1>8, <1>9 DEF Next, ProcessMonitor, CommandSteps

(* ... so until then every wait for an audio cycle that succeeds has seen  *)
(* one end.                                                                *)
THEOREM WaitsSeeCycles == Spec => []WaitSeesCycle
<1>1. Init => CycleInv
      BY InitType DEF Init, CycleInv, Paired, FollowedBy, Waiting, One
<1>2. CycleInv => WaitSeesCycle
      BY DEF CycleInv, WaitSeesCycle, EveryWaitSeesCycle
<1>3. QED
      BY <1>1, <1>2, CycleStep, PTL DEF Spec

-----------------------------------------------------------------------------
(* The fades.  What is left of a command is a tail of its program.         *)
Fade6 == <<"mute", "ask_volume", "wait_volume", "disable", "ask_proc", "wait_proc">>
Fade5 == <<"ask_volume", "wait_volume", "disable", "ask_proc", "wait_proc">>
Fade4 == <<"wait_volume", "disable", "ask_proc", "wait_proc">>
Fade3 == <<"disable", "ask_proc", "wait_proc">>
Fade2 == <<"ask_proc", "wait_proc">>
Fade1 == <<"wait_proc">>
Mute1 == <<"mute">>
Now3 == <<"mute", "flush", "disable">>
Now2 == <<"flush", "disable">>
Now1 == <<"disable">>
In3 == <<"enable", "full", "unmute">>
In2 == <<"full", "unmute">>
In1 == <<"unmute">>
On1 == <<"enable">>

Left(c) ==
  CASE c = "fade_out" -> {Fade6, Fade5, Fade4, Fade3, Fade2, Fade1, Mute1, <<>>}
    [] c = "mute_now" -> {Now3, Now2, Now1, <<>>}
    [] c = "fade_in"  -> {In3, In2, In1, <<>>}
    [] OTHER          -> {Fade3, Fade2, Fade1, On1, <<>>}

TodoInv == command \in CommandName \union {"none"} /\ todo \in Left(command)

(* Until a wait for a fade times out no post of its semaphore is left over.*)
VolumeWaitInv ==
  "volume_timeout" \notin history =>
    volumeSem + One(waitVolume) <= (IF Waiting("wait_volume") THEN 1 ELSE 0)

(* While no store falls into a cycle, the cycle works on the fields as     *)
(* they are, and the client is muted only when it is silent, or the HMI is *)
(* about to unmute it; and only at the mute level, or someone is.          *)
MixInv ==
  "overlap" \notin history =>
    /\ rt # "idle" => rtVolume = volume
    /\ rt = "smooth" => rtSmooth = Move(smooth, volume)
    /\ rt \in {"muted", "proc", "volume"} => smooth = rtSmooth
    /\ rt \in {"smooth", "muted"} => muted = FALSE /\ (rtSmooth = 0 => volume = 0)
    /\ rt \in {"silent_proc", "silent_volume"} => muted = TRUE
    /\ muted = TRUE => /\ smooth = 0 \/ hmi = "unmute"
                       /\ volume = 0 \/ hmi = "unmute" \/ todo = In1

(* The fade-out waits for silence, and mute_now makes it.                  *)
FadeOutSilent ==
  history \intersect {"overlap", "volume_timeout", "gain"} = {} /\ command = "fade_out" =>
    /\ todo \in {Fade5, Fade4, Fade3} => volume = 0
    /\ todo = Fade4 /\ volumeSem > 0 => smooth = 0
    /\ todo = Fade3 => smooth = 0

MuteNowSilent ==
  history \intersect {"overlap", "gain"} = {} /\ command = "mute_now" =>
    /\ todo \in {Now2, Now1, <<>>} => volume = 0
    /\ todo \in {Now1, <<>>} => smooth = 0

GainKnown == hmi = "unmute" => "gain" \in history

FadeInv ==
  TypeOK /\ TodoInv /\ VolumeWaitInv /\ MixInv /\ FadeOutSilent /\ MuteNowSilent /\ GainKnown

-----------------------------------------------------------------------------
LEMMA Lists ==
  /\ Fade6 # <<>> /\ Head(Fade6) = "mute" /\ Tail(Fade6) = Fade5
  /\ Fade5 # <<>> /\ Head(Fade5) = "ask_volume" /\ Tail(Fade5) = Fade4
  /\ Fade4 # <<>> /\ Head(Fade4) = "wait_volume" /\ Tail(Fade4) = Fade3
  /\ Fade3 # <<>> /\ Head(Fade3) = "disable" /\ Tail(Fade3) = Fade2
  /\ Fade2 # <<>> /\ Head(Fade2) = "ask_proc" /\ Tail(Fade2) = Fade1
  /\ Fade1 # <<>> /\ Head(Fade1) = "wait_proc" /\ Tail(Fade1) = <<>>
  /\ Mute1 # <<>> /\ Head(Mute1) = "mute" /\ Tail(Mute1) = <<>>
  /\ Now3 # <<>> /\ Head(Now3) = "mute" /\ Tail(Now3) = Now2
  /\ Now2 # <<>> /\ Head(Now2) = "flush" /\ Tail(Now2) = Now1
  /\ Now1 # <<>> /\ Head(Now1) = "disable" /\ Tail(Now1) = <<>>
  /\ In3 # <<>> /\ Head(In3) = "enable" /\ Tail(In3) = In2
  /\ In2 # <<>> /\ Head(In2) = "full" /\ Tail(In2) = In1
  /\ In1 # <<>> /\ Head(In1) = "unmute" /\ Tail(In1) = <<>>
  /\ On1 # <<>> /\ Head(On1) = "enable" /\ Tail(On1) = <<>>
<1>1. /\ Fade6 # <<>> /\ Head(Fade6) = "mute" /\ Tail(Fade6) = Fade5
      /\ Fade5 # <<>> /\ Head(Fade5) = "ask_volume" /\ Tail(Fade5) = Fade4
  BY DEF Fade6, Fade5, Fade4
<1>2. /\ Fade4 # <<>> /\ Head(Fade4) = "wait_volume" /\ Tail(Fade4) = Fade3
      /\ Fade3 # <<>> /\ Head(Fade3) = "disable" /\ Tail(Fade3) = Fade2
  BY DEF Fade4, Fade3, Fade2
<1>3. /\ Fade2 # <<>> /\ Head(Fade2) = "ask_proc" /\ Tail(Fade2) = Fade1
      /\ Fade1 # <<>> /\ Head(Fade1) = "wait_proc" /\ Tail(Fade1) = <<>>
  BY DEF Fade2, Fade1
<1>4. /\ Mute1 # <<>> /\ Head(Mute1) = "mute" /\ Tail(Mute1) = <<>>
      /\ On1 # <<>> /\ Head(On1) = "enable" /\ Tail(On1) = <<>>
  BY DEF Mute1, On1
<1>5. /\ Now3 # <<>> /\ Head(Now3) = "mute" /\ Tail(Now3) = Now2
      /\ Now2 # <<>> /\ Head(Now2) = "flush" /\ Tail(Now2) = Now1
      /\ Now1 # <<>> /\ Head(Now1) = "disable" /\ Tail(Now1) = <<>>
  BY DEF Now3, Now2, Now1
<1>6. /\ In3 # <<>> /\ Head(In3) = "enable" /\ Tail(In3) = In2
      /\ In2 # <<>> /\ Head(In2) = "full" /\ Tail(In2) = In1
      /\ In1 # <<>> /\ Head(In1) = "unmute" /\ Tail(In1) = <<>>
  BY DEF In3, In2, In1
<1> QED
  BY <1>1, <1>2, <1>3, <1>4, <1>5, <1>6

LEMMA ProgramLeft ==
  ASSUME NEW c \in CommandName
  PROVE  /\ Program(c) \in Left(c)
         /\ c = "fade_out" => Program(c) \in {Fade6, Mute1}
         /\ c = "mute_now" => Program(c) = Now3
<1>1. /\ c = "fade_out" => Program(c) \in {Fade6, Mute1}
      /\ c = "mute_now" => Program(c) = Now3
      /\ c = "fade_in" => Program(c) = In3
  BY DEF Program, Fade6, Mute1, Now3, In3
<1>2. /\ c = "off" => Program(c) \in {Fade3, <<>>}
      /\ c = "on" => Program(c) = On1
      /\ c = "wait_audio_cycle" => Program(c) = Fade2
  BY DEF Program, Fade3, Fade2, On1
<1> QED
  BY <1>1, <1>2 DEF CommandName, Left

(* Which command does a step, and what it leaves.                          *)
LEMMA DoesLeft ==
  ASSUME TodoInv, NEW step, Does(step)
  PROVE  /\ todo' \in Left(command)
         /\ step = "mute" => \/ command = "fade_out" /\ todo' \in {Fade5, <<>>}
                             \/ command = "mute_now" /\ todo' = Now2
         /\ step = "full" => command = "fade_in" /\ todo' = In1
         /\ step = "flush" => command = "mute_now" /\ todo = Now2 /\ todo' = Now1
         /\ step = "ask_volume" => command = "fade_out" /\ todo = Fade5 /\ todo' = Fade4
         /\ step = "wait_volume" => command = "fade_out" /\ todo = Fade4 /\ todo' = Fade3
         /\ step \in {"disable", "enable", "ask_proc", "wait_proc", "unmute"} =>
              /\ todo' \notin {Fade5, Fade4, Fade3, In1}
              /\ command = "mute_now" => todo = Now1 /\ todo' = <<>>
<1>1. todo # <<>> /\ Head(todo) = step /\ todo' = Tail(todo)
  BY DEF Does
<1>2. CASE command = "fade_out"
  BY <1>1, <1>2, Lists, ZenonT(60) DEF TodoInv, Left
<1>3. CASE command = "mute_now"
  BY <1>1, <1>3, Lists, ZenonT(60) DEF TodoInv, Left
<1>4. CASE command = "fade_in"
  BY <1>1, <1>4, Lists, ZenonT(60) DEF TodoInv, Left
<1>5. CASE command \notin {"fade_out", "mute_now", "fade_in"}
  <2>1. Left(command) = {Fade3, Fade2, Fade1, On1, <<>>}
    BY <1>5 DEF Left
  <2>2. todo \in {Fade3, Fade2, Fade1, On1}
    BY <1>1, <2>1 DEF TodoInv
  <2>3. todo' \in {Fade2, Fade1, <<>>} /\ step \in {"disable", "ask_proc", "wait_proc", "enable"}
    BY <1>1, <2>2, Lists, ZenonT(60)
  <2>4. todo' \notin {Fade5, Fade4, Fade3, In1}
    BY <2>3, Lists
  <2> QED
    BY <1>5, <2>1, <2>3, <2>4
<1> QED
  BY <1>2, <1>3, <1>4, <1>5

LEMMA TodoStep == TodoInv /\ [Next]_vars => TodoInv'
<1> SUFFICES ASSUME TodoInv, [Next]_vars
             PROVE  TodoInv'
  OBVIOUS
<1>1. ASSUME UNCHANGED <<todo, command>> PROVE TodoInv'
  BY <1>1 DEF TodoInv
<1>2. ASSUME NEW step, Does(step), command' = command PROVE TodoInv'
  BY <1>2, DoesLeft DEF TodoInv
<1>3. ASSUME NEW c \in CommandName, Begin(c) PROVE TodoInv'
  BY <1>3, ProgramLeft DEF Begin, TodoInv
<1>4. ASSUME CommandSteps \/ TimedOut PROVE (\E step : Does(step)) /\ command' = command
  BY <1>4 DEF CommandSteps, StoreVolume, Unmute, FlushVolume, SetProcessing, Ask,
              Answered, TimedOut
<1>5. ASSUME ProcessMonitor \/ HmiStore \/ HmiUnmute \/ UNCHANGED vars
      PROVE  UNCHANGED <<todo, command>>
  BY <1>5 DEF ProcessMonitor, CycleBegin, StoreSmooth, StoreMuted, AnswerProc,
              AnswerVolume, HmiStore, HmiUnmute, vars, cmdVars
<1> QED
  BY <1>1, <1>2, <1>3, <1>4, <1>5 DEF Next

LEMMA VolumeWaitStep == FadeInv /\ [Next]_vars => VolumeWaitInv'
<1> SUFFICES ASSUME FadeInv, [Next]_vars, "volume_timeout" \notin history'
             PROVE  VolumeWaitInv'
  BY DEF VolumeWaitInv
<1>1. "volume_timeout" \notin history
  BY DEF Next, ProcessMonitor, CycleBegin, StoreSmooth, StoreMuted, AnswerProc,
         AnswerVolume, Begin, CommandSteps, StoreVolume, Unmute, FlushVolume, SetProcessing,
         Ask, Answered, TimedOut, HmiStore, HmiUnmute, vars
<1>2. /\ volumeSem \in Nat /\ waitVolume \in BOOLEAN /\ TodoInv
      /\ volumeSem + One(waitVolume) <= (IF Waiting("wait_volume") THEN 1 ELSE 0)
  BY <1>1, MonitorClientAssumption DEF FadeInv, TypeOK, VolumeWaitInv
<1>3. CASE AnswerVolume
  BY <1>2, <1>3, MonitorClientAssumption
     DEF AnswerVolume, VolumeWaitInv, Waiting, One, cmdVars, volVars, SemPost
<1>4. CASE CycleBegin \/ StoreSmooth \/ StoreMuted \/ AnswerProc \/ HmiStore \/ HmiUnmute
             \/ UNCHANGED vars
  BY <1>2, <1>4 DEF CycleBegin, StoreSmooth, StoreMuted, AnswerProc, HmiStore,
                    HmiUnmute, vars, volVars, cmdVars, VolumeWaitInv, One, Waiting
<1>5. ASSUME NEW c \in CommandName, Begin(c) PROVE VolumeWaitInv'
  <2>1. volumeSem = 0 /\ waitVolume = FALSE
    BY <1>2, <1>5 DEF Begin, One, Waiting
  <2> QED
    BY <1>5, <2>1 DEF Begin, VolumeWaitInv, One, volVars
<1>6. CASE StoreVolume \/ Unmute \/ FlushVolume \/ SetProcessing
  <2>1. ~Waiting("wait_volume") /\ UNCHANGED <<volumeSem, waitVolume>>
    BY <1>6 DEF StoreVolume, Unmute, FlushVolume, SetProcessing, Does, Waiting, volVars
  <2>2. volumeSem = 0 /\ waitVolume = FALSE
    BY <1>2, <2>1 DEF One
  <2> QED
    BY <2>1, <2>2 DEF VolumeWaitInv, One
<1>7. CASE Ask
  <2>1. CASE Does("ask_volume") /\ waitVolume' = TRUE
    <3>1. todo' = Fade4 /\ todo = Fade5
      BY <1>2, <2>1, DoesLeft
    <3>2. Waiting("wait_volume")' /\ ~Waiting("wait_volume")
      BY <3>1, Lists DEF Waiting
    <3>3. volumeSem' = 0
      BY <1>2, <1>7, <3>2 DEF Ask, One
    <3> QED
      BY <2>1, <3>2, <3>3 DEF VolumeWaitInv, One
  <2>2. CASE Does("ask_proc") /\ UNCHANGED waitVolume
    BY <1>2, <1>7, <2>2 DEF Ask, Does, VolumeWaitInv, One, Waiting
  <2> QED
    BY <1>7, <2>1, <2>2 DEF Ask
<1>8. CASE Answered
  <2>1. CASE Does("wait_volume") /\ volumeSem > 0 /\ volumeSem' = volumeSem - 1
    BY <1>2, <1>8, <2>1 DEF Answered, Does, VolumeWaitInv, One, Waiting
  <2>2. CASE Does("wait_proc") /\ UNCHANGED volumeSem
    BY <1>2, <1>8, <2>2 DEF Answered, Does, VolumeWaitInv, One, Waiting
  <2> QED
    BY <1>8, <2>1, <2>2 DEF Answered
<1>9. CASE TimedOut
  <2>1. Does("wait_proc")
    BY <1>9 DEF TimedOut
  <2> QED
    BY <1>2, <1>9, <2>1 DEF TimedOut, Does, VolumeWaitInv, One, Waiting, volVars
<1> QED
  BY <1>3, <1>4, <1>5, <1>6, <1>7, <1>8, <1>9 DEF Next, ProcessMonitor, CommandSteps

LEMMA MixStep == FadeInv /\ [Next]_vars => MixInv'
<1> SUFFICES ASSUME FadeInv, [Next]_vars, "overlap" \notin history'
             PROVE  MixInv'
  BY DEF MixInv
<1>1. "overlap" \notin history
  BY DEF Next, ProcessMonitor, CycleBegin, StoreSmooth, StoreMuted, AnswerProc,
         AnswerVolume, Begin, CommandSteps, StoreVolume, Unmute, FlushVolume, SetProcessing,
         Ask, Answered, TimedOut, HmiStore, HmiUnmute, vars
<1>2. /\ rt # "idle" => rtVolume = volume
      /\ rt = "smooth" => rtSmooth = Move(smooth, volume)
      /\ rt \in {"muted", "proc", "volume"} => smooth = rtSmooth
      /\ rt \in {"smooth", "muted"} => muted = FALSE /\ (rtSmooth = 0 => volume = 0)
      /\ rt \in {"silent_proc", "silent_volume"} => muted = TRUE
      /\ muted = TRUE => /\ smooth = 0 \/ hmi = "unmute"
                         /\ volume = 0 \/ hmi = "unmute" \/ todo = In1
  BY <1>1 DEF FadeInv, MixInv
<1>3. /\ muted \in BOOLEAN /\ volume \in Level /\ smooth \in Level /\ TodoInv
      /\ rt \in CyclePC
  BY DEF FadeInv, TypeOK
<1>4. ASSUME UNCHANGED <<mixVars, rtVars, hmi>>, todo = In1 => todo' = In1 PROVE MixInv'
  BY <1>2, <1>4 DEF MixInv, mixVars, rtVars
<1>5. CASE CycleBegin
  <2>1. Move(smooth, volume) = 0 => volume = 0
    BY <1>3, MonitorClientAssumption DEF Move, Level
  <2>2. UNCHANGED <<volume, smooth, muted, hmi, todo>> /\ rtVolume' = volume
          /\ rtSmooth' = Move(smooth, volume)
    BY <1>5 DEF CycleBegin, mixVars, cmdVars
  <2>3. CASE muted = TRUE
    <3>1. rt' = "silent_proc"
      BY <1>5, <2>3 DEF CycleBegin
    <3> QED
      BY <1>2, <2>2, <2>3, <3>1 DEF MixInv
  <2>4. CASE muted = FALSE
    <3>1. rt' = "smooth"
      BY <1>5, <2>4 DEF CycleBegin
    <3> QED
      BY <1>2, <2>1, <2>2, <2>4, <3>1 DEF MixInv
  <2> QED
    BY <1>3, <2>3, <2>4
<1>6. CASE StoreSmooth
  BY <1>2, <1>6 DEF StoreSmooth, MixInv, cmdVars
<1>7. CASE StoreMuted
  <2>1. UNCHANGED <<volume, smooth, rtVolume, rtSmooth, hmi, todo>> /\ rt' = "proc"
          /\ rt = "muted"
    BY <1>7 DEF StoreMuted, cmdVars
  <2>2. muted' = TRUE => rtSmooth = 0
    BY <1>7 DEF StoreMuted
  <2> QED
    BY <1>2, <2>1, <2>2 DEF MixInv
<1>8. CASE AnswerProc \/ AnswerVolume
  BY <1>2, <1>8 DEF AnswerProc, AnswerVolume, MixInv, mixVars, cmdVars
<1>9. ASSUME NEW c \in CommandName, Begin(c) PROVE MixInv'
  <2>1. todo # In1
    BY <1>9, Lists DEF Begin
  <2> QED
    BY <1>4, <1>9, <2>1 DEF Begin
<1>10. ASSUME NEW step, Does(step), step \in {"disable", "enable", "ask_proc", "ask_volume",
                                              "wait_proc", "wait_volume"},
              UNCHANGED <<mixVars, rtVars, hmi>>
       PROVE  MixInv'
  <2>1. todo # In1
    BY <1>10, Lists DEF Does
  <2> QED
    BY <1>4, <1>10, <2>1
<1>11. CASE SetProcessing \/ Ask \/ Answered \/ TimedOut
  BY <1>10, <1>11 DEF SetProcessing, Ask, Answered, TimedOut
<1>12. ASSUME StoreVolume \/ Unmute \/ FlushVolume \/ HmiStore \/ HmiUnmute PROVE rt = "idle"
  BY <1>12 DEF StoreVolume, Unmute, FlushVolume, HmiStore, HmiUnmute, Overlapping
<1>13. CASE StoreVolume
  <2>1. CASE Does("mute") /\ volume' = 0
    <3>1. todo # In1
      BY <2>1, Lists DEF Does
    <3> QED
      BY <1>2, <1>12, <1>13, <2>1, <3>1 DEF StoreVolume, MixInv, rtVars
  <2>2. CASE Does("full") /\ volume' = Full
    <3>1. todo' = In1
      BY <1>3, <2>2, DoesLeft
    <3> QED
      BY <1>2, <1>12, <1>13, <2>2, <3>1 DEF StoreVolume, MixInv, rtVars
  <2> QED
    BY <1>13, <2>1, <2>2 DEF StoreVolume
<1>14. CASE Unmute \/ HmiUnmute
  BY <1>2, <1>12, <1>14 DEF Unmute, HmiUnmute, MixInv, rtVars
<1>15. CASE FlushVolume
  <2>1. todo = Now2 /\ todo # In1
    BY <1>3, <1>15, DoesLeft, Lists DEF FlushVolume
  <2> QED
    BY <1>2, <1>12, <1>15, <2>1 DEF FlushVolume, MixInv, rtVars
<1>16. CASE HmiStore
  <2>1. UNCHANGED <<smooth, muted, rt, rtVolume, rtSmooth, todo>>
          /\ (volume' = 0 \/ hmi' = "unmute") /\ hmi # "unmute"
    BY <1>16 DEF HmiStore, rtVars, cmdVars, Level
  <2> QED
    BY <1>2, <1>12, <1>16, <2>1 DEF MixInv
<1>17. CASE UNCHANGED vars
  BY <1>4, <1>17 DEF vars, cmdVars
<1> QED
  BY <1>5, <1>6, <1>7, <1>8, <1>9, <1>11, <1>13, <1>14, <1>15, <1>16, <1>17
     DEF Next, ProcessMonitor, CommandSteps

LEMMA GainStep == FadeInv /\ [Next]_vars => GainKnown'
<1> SUFFICES ASSUME FadeInv, [Next]_vars
             PROVE  GainKnown'
  OBVIOUS
<1>1. GainKnown
  BY DEF FadeInv
<1>2. CASE HmiStore
  BY <1>2 DEF HmiStore, GainKnown
<1>3. ASSUME NEW c \in CommandName, Begin(c) PROVE GainKnown'
  BY <1>1, <1>3 DEF Begin, GainKnown
<1>4. CASE ~HmiStore /\ ~(\E c \in CommandName : Begin(c))
  <2>1. history \subseteq history'
    BY <1>4 DEF Next, ProcessMonitor, CycleBegin, StoreSmooth, StoreMuted, AnswerProc,
         AnswerVolume, CommandSteps, StoreVolume, Unmute, FlushVolume, SetProcessing,
         Ask, Answered, TimedOut, HmiUnmute, vars
  <2>2. hmi' = "unmute" => hmi = "unmute"
    BY <1>4 DEF Next, ProcessMonitor, CycleBegin, StoreSmooth, StoreMuted, AnswerProc,
         AnswerVolume, CommandSteps, StoreVolume, Unmute, FlushVolume, SetProcessing,
         Ask, Answered, TimedOut, HmiUnmute, vars
  <2> QED
    BY <1>1, <2>1, <2>2 DEF GainKnown
<1> QED
  BY <1>2, <1>3, <1>4

(* What a step that is not the beginning of a command finds, when it       *)
(* leaves no mishap of "mishaps" behind.                                   *)
LEMMA NothingBefore ==
  ASSUME FadeInv, [Next]_vars, NEW mishaps, "gain" \in mishaps,
         history' \intersect mishaps = {}, ~(\E c \in CommandName : Begin(c))
  PROVE  /\ history \intersect mishaps = {} /\ command' = command
         /\ hmi # "unmute" /\ ~HmiStore /\ ~HmiUnmute
<1>1. history \subseteq history' /\ command' = command
  BY DEF Next, ProcessMonitor, CycleBegin, StoreSmooth, StoreMuted, AnswerProc,
         AnswerVolume, CommandSteps, StoreVolume, Unmute, FlushVolume, SetProcessing,
         Ask, Answered, TimedOut, HmiStore, HmiUnmute, vars, cmdVars
<1>2. hmi # "unmute"
  BY <1>1 DEF FadeInv, GainKnown
<1>3. ~HmiStore /\ ~HmiUnmute
  BY <1>2 DEF HmiStore, HmiUnmute
<1> QED
  BY <1>1, <1>2, <1>3

LEMMA FadeOutStep == FadeInv /\ [Next]_vars => FadeOutSilent'
<1> DEFINE mishaps == {"overlap", "volume_timeout", "gain"}
<1> SUFFICES ASSUME FadeInv, [Next]_vars, history' \intersect mishaps = {},
                    command' = "fade_out"
             PROVE  FadeOutSilent'
  BY DEF FadeOutSilent
<1>1. ASSUME NEW c \in CommandName, Begin(c) PROVE FadeOutSilent'
  <2>1. todo' \in {Fade6, Mute1}
    BY <1>1, ProgramLeft DEF Begin
  <2>2. todo' \notin {Fade5, Fade4, Fade3}
    BY <2>1, Lists, SMTT(30)
  <2> QED
    BY <2>2 DEF FadeOutSilent
<1> SUFFICES ASSUME ~(\E c \in CommandName : Begin(c))
             PROVE  FadeOutSilent'
  BY <1>1
<1>2. /\ history \intersect mishaps = {} /\ command = "fade_out"
      /\ hmi # "unmute" /\ ~HmiStore /\ ~HmiUnmute
  BY NothingBefore
<1>3. /\ todo \in {Fade5, Fade4, Fade3} => volume = 0
      /\ todo = Fade4 /\ volumeSem > 0 => smooth = 0
      /\ todo = Fade3 => smooth = 0
  BY <1>2 DEF FadeInv, FadeOutSilent
<1>4. /\ TodoInv /\ volumeSem \in Nat /\ waitVolume \in BOOLEAN
      /\ volumeSem + One(waitVolume) <= (IF Waiting("wait_volume") THEN 1 ELSE 0)
  BY <1>2, MonitorClientAssumption DEF FadeInv, TypeOK, VolumeWaitInv
<1>5. /\ rt # "idle" => rtVolume = volume
      /\ rt = "smooth" => rtSmooth = Move(smooth, volume)
      /\ rt \in {"muted", "proc", "volume"} => smooth = rtSmooth
      /\ rt = "silent_volume" => smooth = 0
  BY <1>2 DEF FadeInv, MixInv
<1>6. ASSUME UNCHANGED <<volume, smooth, volumeSem, todo>> PROVE FadeOutSilent'
  BY <1>3, <1>6 DEF FadeOutSilent
<1>7. CASE CycleBegin \/ StoreMuted \/ AnswerProc \/ UNCHANGED vars
  BY <1>6, <1>7 DEF CycleBegin, StoreMuted, AnswerProc, vars, mixVars, volVars, cmdVars
<1>8. CASE StoreSmooth
  <2>1. volume = 0 /\ smooth = 0 => smooth' = 0
    BY <1>5, <1>8 DEF StoreSmooth, Move
  <2>2. UNCHANGED <<volume, volumeSem, todo>>
    BY <1>8 DEF StoreSmooth, volVars, cmdVars
  <2> QED
    BY <1>3, <2>1, <2>2 DEF FadeOutSilent
<1>9. CASE AnswerVolume
  <2>1. UNCHANGED <<volume, smooth, todo>> /\ rt \in {"volume", "silent_volume"}
    BY <1>9 DEF AnswerVolume, mixVars, cmdVars
  <2>2. \/ UNCHANGED volumeSem
        \/ rt = "volume" => rtVolume = rtSmooth
    BY <1>9 DEF AnswerVolume, volVars
  <2>3. volumeSem' # volumeSem /\ volume = 0 => smooth = 0
    BY <1>5, <2>1, <2>2
  <2>4. todo = Fade4 => volume = 0
    BY <1>3
  <2>5. todo = Fade4 /\ volumeSem' > 0 => smooth = 0
    BY <1>3, <2>3, <2>4
  <2> QED
    BY <1>3, <2>1, <2>5 DEF FadeOutSilent
<1>10. ASSUME NEW step, Does(step),
              step \in {"disable", "enable", "ask_proc", "wait_proc", "unmute"}
       PROVE  FadeOutSilent'
  BY <1>4, <1>10, DoesLeft DEF FadeOutSilent
<1>11. ASSUME Does("mute"), volume' = 0 PROVE FadeOutSilent'
  <2>1. todo' \in {Fade5, <<>>}
    BY <1>2, <1>4, <1>11, DoesLeft
  <2>2. todo' # Fade4 /\ todo' # Fade3
    BY <2>1, Lists
  <2> QED
    BY <1>11, <2>2 DEF FadeOutSilent
<1>12. ~Does("full") /\ ~Does("flush")
  BY <1>2, <1>4, DoesLeft
<1>13. ASSUME Does("ask_volume"), Ask PROVE FadeOutSilent'
  <2>1. todo = Fade5 /\ todo' = Fade4
    BY <1>4, <1>13, DoesLeft
  <2>2. volumeSem = 0
    BY <1>4, <2>1, Lists, SMTT(30) DEF Waiting, One
  <2>3. UNCHANGED <<volume, volumeSem>>
    BY <1>13 DEF Ask, mixVars
  <2>4. Fade4 # Fade3
    BY Lists
  <2> QED
    BY <1>3, <2>1, <2>2, <2>3, <2>4 DEF FadeOutSilent
<1>14. ASSUME Does("wait_volume"), volumeSem > 0, UNCHANGED mixVars PROVE FadeOutSilent'
  <2>1. todo = Fade4 /\ todo' = Fade3
    BY <1>4, <1>14, DoesLeft
  <2>2. Fade4 # Fade3
    BY Lists
  <2> QED
    BY <1>3, <1>14, <2>1, <2>2 DEF FadeOutSilent, mixVars
<1>15. CASE CommandSteps
  <2>1. CASE StoreVolume
    BY <1>11, <1>12, <2>1 DEF StoreVolume
  <2>2. CASE Unmute
    BY <1>10, <2>2 DEF Unmute
  <2>3. CASE FlushVolume
    BY <1>12, <2>3 DEF FlushVolume
  <2>4. CASE SetProcessing
    BY <1>10, <2>4 DEF SetProcessing
  <2>5. CASE Ask
    BY <1>10, <1>13, <2>5 DEF Ask
  <2>6. CASE Answered
    BY <1>10, <1>14, <2>6 DEF Answered
  <2> QED
    BY <1>15, <2>1, <2>2, <2>3, <2>4, <2>5, <2>6 DEF CommandSteps
<1>16. CASE TimedOut
  BY <1>10, <1>16 DEF TimedOut
<1> QED
  BY <1>2, <1>7, <1>8, <1>9, <1>15, <1>16 DEF Next, ProcessMonitor

LEMMA MuteNowStep == FadeInv /\ [Next]_vars => MuteNowSilent'
<1> DEFINE mishaps == {"overlap", "gain"}
<1> SUFFICES ASSUME FadeInv, [Next]_vars, history' \intersect mishaps = {},
                    command' = "mute_now"
             PROVE  MuteNowSilent'
  BY DEF MuteNowSilent
<1>1. ASSUME NEW c \in CommandName, Begin(c) PROVE MuteNowSilent'
  <2>1. todo' = Now3
    BY <1>1, ProgramLeft DEF Begin
  <2>2. todo' \notin {Now2, Now1, <<>>}
    BY <2>1, Lists
  <2> QED
    BY <2>2 DEF MuteNowSilent
<1> SUFFICES ASSUME ~(\E c \in CommandName : Begin(c))
             PROVE  MuteNowSilent'
  BY <1>1
<1>2. /\ history \intersect mishaps = {} /\ command = "mute_now"
      /\ hmi # "unmute" /\ ~HmiStore /\ ~HmiUnmute
  BY NothingBefore
<1>3. /\ todo \in {Now2, Now1, <<>>} => volume = 0
      /\ todo \in {Now1, <<>>} => smooth = 0
  BY <1>2 DEF FadeInv, MuteNowSilent
<1>4. TodoInv /\ (rt = "smooth" => rtSmooth = Move(smooth, volume))
  BY <1>2 DEF FadeInv, MixInv
<1>5. ASSUME UNCHANGED <<volume, smooth, todo>> PROVE MuteNowSilent'
  BY <1>3, <1>5 DEF MuteNowSilent
<1>6. CASE CycleBegin \/ StoreMuted \/ AnswerProc \/ AnswerVolume \/ UNCHANGED vars
  BY <1>5, <1>6 DEF CycleBegin, StoreMuted, AnswerProc, AnswerVolume, vars, mixVars, cmdVars
<1>7. CASE StoreSmooth
  <2>1. volume = 0 /\ smooth = 0 => smooth' = 0
    BY <1>4, <1>7 DEF StoreSmooth, Move
  <2>2. UNCHANGED <<volume, todo>>
    BY <1>7 DEF StoreSmooth, cmdVars
  <2> QED
    BY <1>3, <2>1, <2>2 DEF MuteNowSilent
<1>8. ASSUME NEW step, Does(step), UNCHANGED <<volume, smooth>>,
             step \in {"disable", "enable", "ask_proc", "wait_proc", "unmute"}
      PROVE  MuteNowSilent'
  <2>1. todo = Now1 /\ todo' = <<>>
    BY <1>2, <1>4, <1>8, DoesLeft
  <2> QED
    BY <1>3, <1>8, <2>1 DEF MuteNowSilent
<1>9. ~Does("full") /\ ~Does("ask_volume") /\ ~Does("wait_volume")
  BY <1>2, <1>4, DoesLeft
<1>10. CASE StoreVolume
  <2>1. Does("mute") /\ volume' = 0
    BY <1>9, <1>10 DEF StoreVolume
  <2>2. todo' = Now2
    BY <1>2, <1>4, <2>1, DoesLeft
  <2>3. todo' \notin {Now1, <<>>}
    BY <2>2, Lists
  <2> QED
    BY <2>1, <2>3 DEF MuteNowSilent
<1>11. CASE FlushVolume
  <2>1. todo = Now2
    BY <1>4, <1>11, DoesLeft DEF FlushVolume
  <2> QED
    BY <1>3, <1>11, <2>1 DEF FlushVolume, MuteNowSilent
<1>12. CASE Unmute \/ SetProcessing \/ Ask \/ Answered \/ TimedOut
  BY <1>8, <1>9, <1>12 DEF Unmute, SetProcessing, Ask, Answered, TimedOut, mixVars
<1> QED
  BY <1>2, <1>6, <1>7, <1>10, <1>11, <1>12 DEF Next, ProcessMonitor, CommandSteps

(* The fades do what the commands ask of them, for every number of levels: *)
(* until a store falls into an audio cycle the client is not left muted    *)
(* above the mute level; the processing goes off when the fade-out is over *)
(* and not before; and "mute right away" mutes right away.                 *)
THEOREM FadesAreSound == Spec => []FadesSound
<1>1. Init => FadeInv
  <2>1. Init => TypeOK
    BY InitType
  <2>2. Init => TodoInv
    BY DEF Init, TodoInv, Left
  <2>3. Init => VolumeWaitInv /\ MixInv /\ FadeOutSilent /\ MuteNowSilent /\ GainKnown
    BY DEF Init, VolumeWaitInv, MixInv, FadeOutSilent, MuteNowSilent, GainKnown, One, Waiting
  <2> QED
    BY <2>1, <2>2, <2>3 DEF FadeInv
<1>2. FadeInv /\ [Next]_vars => FadeInv'
  <2>1. FadeInv /\ [Next]_vars => TypeOK' /\ TodoInv'
    BY TypeStep, TodoStep DEF FadeInv
  <2> QED
    BY <2>1, VolumeWaitStep, MixStep, FadeOutStep, MuteNowStep, GainStep DEF FadeInv
<1>3. FadeInv => FadesSound
  <2> SUFFICES ASSUME FadeInv
               PROVE  FadesSound
    OBVIOUS
  <2>1. muted \in BOOLEAN
    BY DEF FadeInv, TypeOK
  <2>2. MutedOnlyAtMute
    BY <2>1, Lists DEF FadeInv, MixInv, MutedOnlyAtMute, AudibleAfterFadeIn, Without, Idle
  <2>3. FadeOutBeforeOff
    <3> SUFFICES ASSUME command = "fade_out", todo # <<>>, Head(todo) = "disable",
                        history \intersect {"overlap", "volume_timeout", "gain"} = {}
                 PROVE  smooth = 0
      BY DEF FadeOutBeforeOff, Without
    <3>1. todo = Fade3
      BY Lists DEF FadeInv, TodoInv, Left
    <3> QED
      BY <3>1 DEF FadeInv, FadeOutSilent
  <2>4. MutedRightAway
    BY DEF FadeInv, MuteNowSilent, MutedRightAway, Without, Idle
  <2> QED
    BY <2>2, <2>3, <2>4 DEF FadesSound
<1> QED
  BY <1>1, <1>2, <1>3, PTL DEF Spec
=============================================================================
