---------------------------- MODULE MonitorClient ----------------------------
(***************************************************************************)
(* The mod-monitor JACK client of monitor-client.c, with the commands that *)
(* talk to it: effects_processing_enable, wait_audio_cycle and, from the   *)
(* HMI thread, the pedalboard gain.                                        *)
(*                                                                         *)
(* ProcessMonitor moves smooth_volume towards volume once per audio cycle, *)
(* mutes when it reaches the mute level, and posts a semaphore for a       *)
(* thread that has raised wait_proc or wait_volume.  volume, smooth_volume *)
(* and muted are plain fields that both sides read and write, so a cycle   *)
(* is modelled access by access, and so is monitor_client_setup_volume.    *)
(*                                                                         *)
(* Volumes are levels: 0 is MOD_MONITOR_VOLUME_MUTE and Full is 0 dB.  The *)
(* samples, the ports and apply_volume are left out.                       *)
(***************************************************************************)
EXTENDS Integers, Sequences

CONSTANTS
  Full,      \* the level of 0 dB
  SemMax,    \* a semaphore saturates here (1 in the futex build)
  Commands   \* the commands this instance of the model may execute

ASSUME MonitorClientAssumption ==
  /\ Full \in Nat \ {0}
  /\ SemMax \in Nat \ {0}

Level == 0..Full

\* What may have happened, for properties that hold unless it has.
Mishap == {"overlap", "proc_timeout", "volume_timeout", "gain"}

VARIABLES
  volume, smooth, muted,    \* the fields of monitor_client_t
  waitProc, waitVolume,     \* the atomic flags
  procSem, volumeSem,       \* wait_proc_sem, wait_volume_sem
  processing,               \* g_processing_enabled
  rt,                       \* where ProcessMonitor is
  rtVolume, rtSmooth,       \* its local variables
  command,                  \* the last command that was executed
  todo,                     \* what is left of it
  hmi,                      \* the HMI thread: "idle" or within setup_volume
  cycled,                   \* a cycle passed its wait_proc check during this wait
  answered,                 \* what the last wait for a cycle returned
  history                   \* the mishaps there were; a "gain" during this command

mixVars  == <<volume, smooth, muted>>
procVars == <<waitProc, procSem>>
volVars  == <<waitVolume, volumeSem>>
rtVars   == <<rt, rtVolume, rtSmooth>>
cmdVars  == <<processing, command, todo>>
vars == <<mixVars, procVars, volVars, rtVars, cmdVars, hmi, cycled, answered, history>>

(* The commands, step by step.  fade_out, mute_now and fade_in are the     *)
(* cases -1, -2 and 3 of effects_processing_enable, off and on are 0 and 1 *)
(* (and 2); setup_volume stores the volume and then, above the mute level, *)
(* clears muted.                                                           *)
CommandName == {"fade_out", "mute_now", "fade_in", "off", "on", "wait_audio_cycle"}

Program(c) ==
  CASE c = "fade_out" ->
         IF processing THEN <<"mute", "ask_volume", "wait_volume", "disable", "ask_proc", "wait_proc">>
                       ELSE <<"mute">>
    [] c = "mute_now"         -> <<"mute", "flush", "disable">>
    [] c = "fade_in"          -> <<"enable", "full", "unmute">>
    [] c = "off"              -> IF processing THEN <<"disable", "ask_proc", "wait_proc">> ELSE <<>>
    [] c = "on"               -> <<"enable">>
    [] c = "wait_audio_cycle" -> <<"ask_proc", "wait_proc">>

Step == {"mute", "full", "unmute", "flush", "disable", "enable",
         "ask_volume", "wait_volume", "ask_proc", "wait_proc"}

CyclePC == {"idle", "smooth", "muted", "proc", "volume", "silent_proc", "silent_volume"}

TypeOK ==
  /\ volume \in Level /\ smooth \in Level /\ muted \in BOOLEAN
  /\ waitProc \in BOOLEAN /\ waitVolume \in BOOLEAN
  /\ procSem \in 0..SemMax /\ volumeSem \in 0..SemMax
  /\ processing \in BOOLEAN
  /\ rt \in CyclePC /\ rtVolume \in Level /\ rtSmooth \in Level
  /\ command \in CommandName \cup {"none"} /\ todo \in Seq(Step)
  /\ hmi \in {"idle", "unmute"}
  /\ cycled \in BOOLEAN /\ answered \in BOOLEAN
  /\ history \subseteq Mishap

(* jack_initialize, and effects_init, which enables the processing.        *)
Init ==
  /\ volume = Full /\ smooth = Full /\ muted = FALSE
  /\ waitProc = FALSE /\ waitVolume = FALSE
  /\ procSem = 0 /\ volumeSem = 0
  /\ processing = TRUE
  /\ rt = "idle" /\ rtVolume = Full /\ rtSmooth = Full
  /\ command = "none" /\ todo = <<>>
  /\ hmi = "idle"
  /\ cycled = FALSE /\ answered = FALSE
  /\ history = {}

SemPost(sem) == IF sem < SemMax THEN sem + 1 ELSE sem

-----------------------------------------------------------------------------
(* ProcessMonitor.                                                         *)

\* One cycle moves s towards v; a fade takes Full cycles.
Move(s, v) == CASE s < v -> s + 1
                [] s > v -> s - 1
                [] s = v -> s

(* The cycle reads muted; if it is not muted, volume and smooth_volume.    *)
CycleBegin ==
  /\ rt = "idle"
  /\ rt' = IF muted THEN "silent_proc" ELSE "smooth"
  /\ rtVolume' = volume
  /\ rtSmooth' = Move(smooth, volume)
  /\ UNCHANGED <<mixVars, procVars, volVars, cmdVars, hmi, cycled, answered, history>>

StoreSmooth ==
  /\ rt = "smooth"
  /\ smooth' = rtSmooth
  /\ rt' = "muted"
  /\ UNCHANGED <<volume, muted, procVars, volVars, rtVolume, rtSmooth, cmdVars, hmi,
                 cycled, answered, history>>

StoreMuted ==
  /\ rt = "muted"
  /\ muted' = (rtSmooth = 0)
  /\ rt' = "proc"
  /\ UNCHANGED <<volume, smooth, procVars, volVars, rtVolume, rtSmooth, cmdVars, hmi,
                 cycled, answered, history>>

(* Wrong: a post at every cycle, whether a thread waits or not.            *)
AnswerProcAlways ==
  /\ rt \in {"proc", "silent_proc"}
  /\ waitProc' = FALSE
  /\ procSem' = SemPost(procSem)
  /\ rt' = IF rt = "proc" THEN "volume" ELSE "silent_volume"
  /\ cycled' = TRUE
  /\ UNCHANGED <<mixVars, volVars, rtVolume, rtSmooth, cmdVars, hmi, answered, history>>

(* Wrong: a load instead of the exchange.                                  *)
AnswerProcKeepsFlag ==
  /\ rt \in {"proc", "silent_proc"}
  /\ procSem' = IF waitProc THEN SemPost(procSem) ELSE procSem
  /\ rt' = IF rt = "proc" THEN "volume" ELSE "silent_volume"
  /\ cycled' = TRUE
  /\ UNCHANGED <<mixVars, waitProc, volVars, rtVolume, rtSmooth, cmdVars, hmi, answered,
                 history>>

(* atomic_exchange(&mon->wait_proc, false), and a post if it was set.      *)
AnswerProc ==
  /\ rt \in {"proc", "silent_proc"}
  /\ waitProc' = FALSE
  /\ procSem' = IF waitProc THEN SemPost(procSem) ELSE procSem
  /\ rt' = IF rt = "proc" THEN "volume" ELSE "silent_volume"
  /\ cycled' = TRUE
  /\ UNCHANGED <<mixVars, volVars, rtVolume, rtSmooth, cmdVars, hmi, answered, history>>

(* Wrong: a muted cycle does not look at wait_volume.                      *)
AnswerVolumeUnlessMuted ==
  /\ rt \in {"volume", "silent_volume"}
  /\ IF waitVolume /\ rt = "volume" /\ rtVolume = rtSmooth
     THEN waitVolume' = FALSE /\ volumeSem' = SemPost(volumeSem)
     ELSE UNCHANGED volVars
  /\ rt' = "idle"
  /\ UNCHANGED <<mixVars, procVars, rtVolume, rtSmooth, cmdVars, hmi, cycled, answered, history>>

(* Wrong: the fade need not be over.                                       *)
AnswerVolumeAtOnce ==
  /\ rt \in {"volume", "silent_volume"}
  /\ IF waitVolume
     THEN waitVolume' = FALSE /\ volumeSem' = SemPost(volumeSem)
     ELSE UNCHANGED volVars
  /\ rt' = "idle"
  /\ UNCHANGED <<mixVars, procVars, rtVolume, rtSmooth, cmdVars, hmi, cycled, answered, history>>

(* wait_volume is answered when the fade is over, or the client is muted.  *)
AnswerVolume ==
  /\ rt \in {"volume", "silent_volume"}
  /\ IF waitVolume /\ (rt = "volume" => rtVolume = rtSmooth)
     THEN waitVolume' = FALSE /\ volumeSem' = SemPost(volumeSem)
     ELSE UNCHANGED volVars
  /\ rt' = "idle"
  /\ UNCHANGED <<mixVars, procVars, rtVolume, rtSmooth, cmdVars, hmi, cycled, answered, history>>

ProcessMonitor == CycleBegin \/ StoreSmooth \/ StoreMuted \/ AnswerProc \/ AnswerVolume

-----------------------------------------------------------------------------
(* The command thread and the HMI thread.                                  *)

Begin(c) ==
  /\ todo = <<>>
  /\ c \in Commands
  /\ command' = c
  /\ todo' = Program(c)
  /\ history' = IF hmi = "idle" THEN history \ {"gain"} ELSE history
  /\ UNCHANGED <<mixVars, procVars, volVars, rtVars, processing, hmi, cycled, answered>>

Does(step) == todo # <<>> /\ Head(todo) = step /\ todo' = Tail(todo)

(* A store to a field that the running cycle reads and writes.             *)
Overlapping == IF rt = "idle" THEN {} ELSE {"overlap"}

(* monitor_client_setup_volume(MOD_MONITOR_VOLUME_MUTE) or (0.f): the      *)
(* fields are stored, and after a fence muted is cleared.                  *)
StoreVolume ==
  /\ \/ Does("mute") /\ volume' = 0
     \/ Does("full") /\ volume' = Full
  /\ history' = history \cup Overlapping
  /\ UNCHANGED <<smooth, muted, procVars, volVars, rtVars, processing, command, hmi,
                 cycled, answered>>

Unmute ==
  /\ Does("unmute")
  /\ muted' = FALSE
  /\ history' = history \cup Overlapping
  /\ UNCHANGED <<volume, smooth, procVars, volVars, rtVars, processing, command, hmi,
                 cycled, answered>>

(* monitor_client_flush_volume.                                            *)
FlushVolume ==
  /\ Does("flush")
  /\ smooth' = volume
  /\ history' = history \cup Overlapping
  /\ UNCHANGED <<volume, muted, procVars, volVars, rtVars, processing, command, hmi,
                 cycled, answered>>

SetProcessing ==
  /\ \/ Does("disable") /\ processing' = FALSE
     \/ Does("enable") /\ processing' = TRUE
  /\ UNCHANGED <<mixVars, procVars, volVars, rtVars, command, hmi, cycled, answered, history>>

(* monitor_client_wait_proc and _wait_volume raise a flag ...              *)
Ask ==
  /\ \/ Does("ask_proc") /\ waitProc' = TRUE /\ cycled' = FALSE /\ UNCHANGED waitVolume
     \/ Does("ask_volume") /\ waitVolume' = TRUE /\ UNCHANGED <<waitProc, cycled>>
  /\ answered' = FALSE
  /\ UNCHANGED <<mixVars, procSem, volumeSem, rtVars, processing, command, hmi, history>>

(* ... and take a post within a second, ...                                *)
Answered ==
  /\ \/ Does("wait_proc") /\ procSem > 0 /\ procSem' = procSem - 1
        /\ answered' = TRUE /\ UNCHANGED volumeSem
     \/ Does("wait_volume") /\ volumeSem > 0 /\ volumeSem' = volumeSem - 1
        /\ UNCHANGED <<procSem, answered>>
  /\ UNCHANGED <<mixVars, waitProc, waitVolume, rtVars, processing, command, hmi, cycled,
                 history>>

(* ... or return false, with the flag still raised.                        *)
TimedOut ==
  /\ \/ Does("wait_proc") /\ procSem = 0 /\ history' = history \cup {"proc_timeout"}
     \/ Does("wait_volume") /\ volumeSem = 0 /\ history' = history \cup {"volume_timeout"}
  /\ UNCHANGED <<mixVars, procVars, volVars, rtVars, processing, command, hmi, cycled,
                 answered>>

(* sys_serial_event_type_pedalboard_gain in HMIClientThread.               *)
HmiStore ==
  /\ hmi = "idle"
  /\ \E l \in Level : volume' = l /\ hmi' = IF l > 0 THEN "unmute" ELSE "idle"
  /\ history' = history \cup Overlapping \cup {"gain"}
  /\ UNCHANGED <<smooth, muted, procVars, volVars, rtVars, cmdVars, cycled, answered>>

HmiUnmute ==
  /\ hmi = "unmute"
  /\ muted' = FALSE
  /\ hmi' = "idle"
  /\ history' = history \cup Overlapping
  /\ UNCHANGED <<volume, smooth, procVars, volVars, rtVars, cmdVars, cycled, answered>>

CommandSteps == StoreVolume \/ Unmute \/ FlushVolume \/ SetProcessing \/ Ask \/ Answered

Next ==
  \/ ProcessMonitor
  \/ \E c \in CommandName : Begin(c)
  \/ CommandSteps
  \/ TimedOut
  \/ HmiStore
  \/ HmiUnmute

Spec == Init /\ [][Next]_vars

(* Fairness: JACK calls ProcessMonitor once per period, and the command    *)
(* thread runs.  No wait has to time out.                                  *)
FairSpec == Spec /\ WF_vars(ProcessMonitor) /\ WF_vars(CommandSteps)

-----------------------------------------------------------------------------
(* Properties.                                                             *)

Idle == todo = <<>>

One(flag) == IF flag THEN 1 ELSE 0

Without(mishaps) == history \cap mishaps = {}

(* Waits that time out leave a flag raised and so a post that a later wait *)
(* takes for its own; but never more than one, however many time out.      *)
AtMostOneStalePost ==
  Idle => /\ procSem + One(waitProc) <= 1
          /\ volumeSem + One(waitVolume) <= 1

(* "wait for at least 1 audio cycle to pass": a wait_audio_cycle that      *)
(* succeeds has seen the end of an audio cycle, and so has                 *)
(* effects_processing_enable when it turns the processing off.             *)
EveryWaitSeesCycle == answered => cycled

(* The same until a wait for a cycle has timed out.                        *)
WaitSeesCycle == Without({"proc_timeout"}) => EveryWaitSeesCycle

(* The client is not left muted when its volume is above the mute level:   *)
(* the fade-in that turns the processing on is heard.                      *)
AudibleAfterFadeIn == Idle /\ hmi = "idle" /\ rt = "idle" /\ muted => volume = 0

(* The same until a store falls into an audio cycle.                       *)
MutedOnlyAtMute == Without({"overlap"}) => AudibleAfterFadeIn

(* "use fade-out while turning off": the processing goes off when the fade *)
(* is over and not before, unless a store fell into a cycle, a wait for a  *)
(* fade timed out or the HMI changed the gain meanwhile.                   *)
FadeOutBeforeOff ==
  command = "fade_out" /\ todo # <<>> /\ Head(todo) = "disable"
    /\ Without({"overlap", "volume_timeout", "gain"}) => smooth = 0

(* "mute right away": after the command the volume is at the mute level,   *)
(* not on its way there, unless a store fell into a cycle or the HMI       *)
(* changed the gain since.                                                 *)
MutedRightAway ==
  command = "mute_now" /\ Idle /\ rt = "idle" /\ Without({"overlap", "gain"})
    => smooth = 0

(* The fades do what the commands ask of them.                             *)
FadesSound == MutedOnlyAtMute /\ FadeOutBeforeOff /\ MutedRightAway

(* The audio cycles alone answer every wait, without its timeout, while    *)
(* the HMI leaves the gain alone.                                          *)
WaitsReturn == ~Idle ~> (Idle \/ "gain" \in history)
=============================================================================
