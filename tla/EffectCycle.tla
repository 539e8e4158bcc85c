---------------------------- MODULE EffectCycle ----------------------------
(***************************************************************************)
(* One cycle of ProcessPlugin, read by read of what other threads write:   *)
(* effect->bypass, which it reads once per event port and once to run the  *)
(* plugin, and the CV sources of its ports.  Commands bypass the plugin,   *)
(* and map and unmap CV sources, at any moment; the pool of events may be  *)
(* empty at any moment.                                                    *)
(*                                                                         *)
(* MIDI is abstracted to notes that sound.  A note reaches the plugin, and *)
(* each MIDI output, whenever the plugin is not bypassed; it sounds until  *)
(* all-notes-off is written.  Levels of CV are "low" and "high".           *)
(***************************************************************************)
EXTENDS Naturals

CONSTANTS
  CyclePlugin,  \* plugins, as far as a cycle tells them apart, see below
  Source        \* the addresses malloc may return for a cv_source_t

NoSource == "none"     \* NULL

(* has_enabled: there is a port for lv2:enabled (enabled_index >= 0);      *)
(* through: no audio ports, and as many MIDI inputs as MIDI outputs.       *)
ASSUME EffectCycleAssumption ==
  /\ CyclePlugin \subseteq [outputs : Nat, has_enabled : BOOLEAN, through : BOOLEAN]
  /\ NoSource \notin Source

CvPort == {"control", "bypass"}     \* ports that may have a CV source

VARIABLES
  plugin,
  bypass,           \* effect->bypass > 0.5, the buffer of bypass_port
  prev_bypass,      \* its prev_value
  enabled,          \* the value of the port for lv2:enabled
  was_bypassed,
  control,          \* the buffer of a control port
  cv_source,        \* of each port, or NoSource
  source_prev,      \* prev_value of each source
  allocated,        \* the sources that are not freed
  cv_mutex,         \* the owner of each port's cv_source_mutex, or "free"
  step,             \* where the cycle is
  using,            \* the source it holds on to
  index,            \* i of the loop over the MIDI outputs
  command,          \* what the command thread does
  inside,           \* ghost: notes sound in the plugin
  outside,          \* ghost: the outputs behind which notes sound
  asked,            \* ghost: the bypass last asked for, whoever asked
  torn,             \* ghost: a cycle has seen bypass change
  starved           \* ghost: the ports whose source missed a change of the port,
                    \*   or that somebody else has changed since

portVars    == <<plugin, bypass, prev_bypass, enabled, control, asked>>
sourceVars  == <<cv_source, allocated>>
ghostVars   == <<inside, outside, torn, starved>>
cycleVars   == <<portVars, was_bypassed, sourceVars, source_prev, cv_mutex, step, using, index,
                 command, ghostVars>>

Enabled == plugin.has_enabled
OutPort == 0..(plugin.outputs - 1)

Level == {"low", "high"}

CommandType ==
  [at : {"idle"}]
    \cup [at : {"map", "unmap"}, port : CvPort, new : Source \cup {NoSource}]
    \cup [at : {"bypass"}, on : BOOLEAN]
    \cup [at : {"free"}, old : Source]

CycleStep ==
  {"idle", "midi", "cv_control", "cv_control_lock", "cv_control_use", "cv_bypass",
   "cv_bypass_lock", "cv_bypass_use", "run", "outputs", "end"}

PortTypeOK ==
  /\ plugin \in CyclePlugin /\ control \in Level
  /\ bypass \in BOOLEAN /\ prev_bypass \in BOOLEAN /\ enabled \in BOOLEAN
  /\ was_bypassed \in BOOLEAN /\ asked \in BOOLEAN

SourceTypeOK ==
  /\ cv_source \in [CvPort -> Source \cup {NoSource}] /\ source_prev \in [Source -> Level]
  /\ allocated \subseteq Source
  /\ cv_mutex \in [CvPort -> {"free", "cycle", "command"}]
  /\ using \in Source \cup {NoSource}

GhostTypeOK ==
  /\ inside \in BOOLEAN /\ outside \subseteq OutPort /\ torn \in BOOLEAN
  /\ starved \subseteq CvPort

CycleTypeOK ==
  /\ PortTypeOK /\ SourceTypeOK /\ GhostTypeOK
  /\ step \in CycleStep /\ index \in Nat /\ command \in CommandType

NoCommand == [at |-> "idle"]

CycleInit ==
  /\ plugin \in CyclePlugin
  /\ bypass = FALSE /\ prev_bypass = FALSE /\ enabled = TRUE /\ was_bypassed = FALSE
  /\ asked = FALSE /\ control = "low"
  /\ cv_source = [p \in CvPort |-> NoSource] /\ source_prev = [s \in Source |-> "low"]
  /\ allocated = {} /\ cv_mutex = [p \in CvPort |-> "free"]
  /\ step = "idle" /\ using = NoSource /\ index = 0
  /\ command = NoCommand
  /\ inside = FALSE /\ outside = {} /\ torn = FALSE /\ starved = {}

(* What the cycle takes for bypassed: a plugin with an enabled port is     *)
(* always run as usual.                                                    *)
Bypassed == bypass /\ ~Enabled

(* A cycle that has looked at bypass is torn when it changes.              *)
Tears(on) == torn' = (torn \/ (step # "idle" /\ on # bypass))

-----------------------------------------------------------------------------
(* Commands.                                                               *)

(* effects_bypass stores into bypass first, and into the enabled port then.*)
BypassStore(on) ==
  /\ command = NoCommand /\ bypass' = on /\ prev_bypass' = on /\ asked' = on /\ Tears(on)
  /\ command' = IF Enabled THEN [at |-> "bypass", on |-> on] ELSE NoCommand
  /\ UNCHANGED <<plugin, enabled, was_bypassed, control, sourceVars, source_prev, cv_mutex, step,
                 using, index, inside, outside, starved>>

BypassEnabled ==
  /\ command.at = "bypass" /\ command' = NoCommand
  /\ enabled' = ~command.on
  /\ UNCHANGED <<plugin, bypass, prev_bypass, was_bypassed, control, asked, sourceVars,
                 source_prev, cv_mutex, step, using, index, ghostVars>>

(* effects_bypass_multi never stores into bypass.                          *)
BypassMulti(on) ==
  /\ command = NoCommand /\ prev_bypass' = on /\ asked' = on
  /\ enabled' = IF Enabled THEN ~on ELSE enabled
  /\ UNCHANGED <<plugin, bypass, was_bypassed, control, sourceVars, source_prev, cv_mutex, step,
                 using, index, command, inside, outside, torn, starved>>

(* UpdateValueFromMidi, in the cycle of another client: the port does not  *)
(* hear of it.                                                             *)
BypassFromMidi(on) ==
  /\ bypass' = on /\ asked' = on /\ Tears(on)
  /\ enabled' = IF Enabled THEN ~on ELSE enabled
  /\ UNCHANGED <<plugin, prev_bypass, was_bypassed, control, sourceVars, source_prev, cv_mutex,
                 step, using, index, command, inside, outside, starved>>

(* Everybody else who writes the control port, at any moment: the commands *)
(* that set parameters (effects_set_parameter, effects_flush_parameters,   *)
(* effects_pre_run), the scheduled parameters, UpdateValueFromMidi, and a  *)
(* trigger that goes back.  The port's source does not hear of it.         *)
SetControl(l) ==
  /\ control' = l
  /\ starved' = IF l = control THEN starved ELSE starved \cup {"control"}
  /\ UNCHANGED <<plugin, bypass, prev_bypass, enabled, was_bypassed, asked, sourceVars,
                 source_prev, cv_mutex, step, using, index, command, inside, outside, torn>>

PortLevel(p) == IF p = "control" THEN control ELSE IF prev_bypass THEN "low" ELSE "high"

(* effects_cv_map allocates a source even if there is one already, stores  *)
(* it under the mutex, and then frees the one it replaced.                 *)
MapBegin(p, s) ==
  /\ command = NoCommand /\ s \notin allocated
  /\ command' = [at |-> "map", port |-> p, new |-> s]
  /\ allocated' = allocated \cup {s}
  /\ source_prev' = [source_prev EXCEPT ![s] = PortLevel(p)]
  /\ UNCHANGED <<portVars, was_bypassed, cv_source, cv_mutex, step, using, index, ghostVars>>

UnmapBegin(p) ==
  /\ command = NoCommand /\ command' = [at |-> "unmap", port |-> p, new |-> NoSource]
  /\ UNCHANGED <<portVars, was_bypassed, sourceVars, source_prev, cv_mutex, step, using, index,
                 ghostVars>>

(* cv_map has read the value of the port before it took the mutex; a cycle *)
(* may have changed it since.                                              *)
MapOvertaken ==
  LET p == command.port
  IN  starved' = IF command.new # NoSource /\ source_prev[command.new] # PortLevel(p)
                 THEN starved \cup {p} ELSE starved \ {p}

(* Wrong: the source is replaced while a cycle may use it.                 *)
SwapUnlocked ==
  /\ command.at \in {"map", "unmap"}
  /\ cv_source' = [cv_source EXCEPT ![command.port] = command.new]
  /\ command' = IF cv_source[command.port] = NoSource THEN NoCommand
                ELSE [at |-> "free", old |-> cv_source[command.port]]
  /\ MapOvertaken
  /\ UNCHANGED <<portVars, was_bypassed, source_prev, allocated, cv_mutex, step, using, index,
                 inside, outside, torn>>

(* Lock, swap, unlock: nothing else of this thread happens in between.     *)
Swap ==
  /\ command.at \in {"map", "unmap"} /\ cv_mutex[command.port] = "free"
  /\ cv_source' = [cv_source EXCEPT ![command.port] = command.new]
  /\ command' = IF cv_source[command.port] = NoSource THEN NoCommand
                ELSE [at |-> "free", old |-> cv_source[command.port]]
  /\ MapOvertaken
  /\ UNCHANGED <<portVars, was_bypassed, source_prev, allocated, cv_mutex, step, using, index,
                 inside, outside, torn>>

FreeSource ==
  /\ command.at = "free" /\ command' = NoCommand
  /\ allocated' = allocated \ {command.old}
  /\ source_prev' = [source_prev EXCEPT ![command.old] = "low"]
  /\ UNCHANGED <<portVars, was_bypassed, cv_source, cv_mutex, step, using, index,
                 ghostVars>>

-----------------------------------------------------------------------------
(* The cycle.                                                              *)

StepTo(from, to) == step = from /\ step' = to

CycleBegin ==
  /\ StepTo("idle", "midi")
  /\ torn' = (torn /\ was_bypassed)
  /\ UNCHANGED <<portVars, was_bypassed, sourceVars, source_prev, cv_mutex, using, index, command,
                 inside, outside, starved>>

(* The MIDI input: all-notes-off when the bypass begins, nothing while it  *)
(* lasts, and what JACK has otherwise.                                     *)
PrepareMidi ==
  /\ StepTo("midi", "cv_control")
  /\ \/ Bypassed /\ inside' = (inside /\ was_bypassed)
     \/ ~Bypassed /\ inside' \in {inside, TRUE}
  /\ UNCHANGED <<portVars, was_bypassed, sourceVars, source_prev, cv_mutex, using, index, command,
                 outside, torn, starved>>

CvPass(p) == CASE p = "control" -> "cv_bypass" [] p = "bypass" -> "run"
At(p)   == CASE p = "control" -> "cv_control" [] p = "bypass" -> "cv_bypass"
Lock(p) == CASE p = "control" -> "cv_control_lock" [] p = "bypass" -> "cv_bypass_lock"
Use(p)  == CASE p = "control" -> "cv_control_use" [] p = "bypass" -> "cv_bypass_use"

(* Is there a source?  This is asked without the mutex.                    *)
CvLook(p) ==
  /\ StepTo(At(p), IF cv_source[p] = NoSource THEN CvPass(p) ELSE Lock(p))
  /\ UNCHANGED <<portVars, was_bypassed, sourceVars, source_prev, cv_mutex, using, index, command,
                 ghostVars>>

(* pthread_mutex_trylock.  The source of a control port is looked at again,*)
(* that of the bypass is not.                                              *)
CvLock(p) ==
  /\ step = Lock(p)
  /\ IF cv_mutex[p] # "free" \/ (p = "control" /\ cv_source[p] = NoSource)
     THEN step' = CvPass(p) /\ UNCHANGED <<cv_mutex, using>>
     ELSE /\ step' = Use(p)
          /\ cv_mutex' = [cv_mutex EXCEPT ![p] = "cycle"]
          /\ using' = cv_source[p]
  /\ UNCHANGED <<portVars, was_bypassed, sourceVars, source_prev, index, command, ghostVars>>

(* SetPortValue.  The value of a source for the bypass is reversed.        *)
SetFromCv(p, l) ==
  LET on == l = "low"
  IN  IF p = "control" THEN control' = l /\ UNCHANGED <<bypass, prev_bypass, enabled, asked, torn>>
      ELSE /\ bypass' = on /\ prev_bypass' = on /\ asked' = on /\ Tears(on)
           /\ enabled' = IF Enabled THEN ~on ELSE enabled
           /\ UNCHANGED control

(* A value is the same as before if the source says so, whatever the port  *)
(* has; and the source remembers only what got an event from the pool.     *)
CvUse(p, l) ==
  /\ step = Use(p) /\ step' = CvPass(p)
  /\ cv_mutex' = [cv_mutex EXCEPT ![p] = "free"]
  /\ using' = NoSource
  /\ \/ using = NoSource /\ UNCHANGED <<portVars, source_prev, torn, starved>>
     \/ /\ using # NoSource /\ l = source_prev[using]
        /\ UNCHANGED <<portVars, source_prev, torn, starved>>
     \/ /\ using # NoSource /\ l # source_prev[using] /\ SetFromCv(p, l)
        /\ \/ source_prev' = [source_prev EXCEPT ![using] = l] /\ starved' = starved \ {p}
           \/ starved' = starved \cup {p} /\ UNCHANGED source_prev
  /\ UNCHANGED <<plugin, was_bypassed, sourceVars, index, command, inside, outside>>

(* lilv_instance_run.                                                      *)
RunPlugin ==
  /\ StepTo("run", "outputs")
  /\ UNCHANGED <<portVars, was_bypassed, sourceVars, source_prev, cv_mutex, using, index, command,
                 ghostVars>>

(* One MIDI output; events are those of the input of the same number.  The *)
(* loop that passes them through counts with the i of the outer loop.      *)
WriteOutput(events) ==
  /\ step = "outputs" /\ index \in OutPort /\ step' = step
  /\ \/ /\ ~Bypassed
        /\ outside' \in {outside, outside \cup {index}}
        /\ index' = index + 1
     \/ /\ Bypassed
        /\ outside' = IF was_bypassed THEN outside ELSE outside \ {index}
        /\ index' = IF plugin.through THEN events + 1 ELSE index + 1
  /\ UNCHANGED <<portVars, was_bypassed, sourceVars, source_prev, cv_mutex, using, command,
                 inside, torn, starved>>

OutputsDone ==
  /\ StepTo("outputs", "end") /\ index \notin OutPort /\ index' = 0
  /\ UNCHANGED <<portVars, was_bypassed, sourceVars, source_prev, cv_mutex, using, command,
                 ghostVars>>

(* Wrong: a bypass once noticed is never forgotten.                        *)
CycleEndKeeps ==
  /\ StepTo("end", "idle")
  /\ was_bypassed' = (was_bypassed \/ bypass)
  /\ UNCHANGED <<portVars, sourceVars, source_prev, cv_mutex, using, index, command,
                 ghostVars>>

CycleEnd ==
  /\ StepTo("end", "idle")
  /\ was_bypassed' = bypass
  /\ UNCHANGED <<portVars, sourceVars, source_prev, cv_mutex, using, index, command,
                 ghostVars>>

CycleCommand ==
  \/ \E on \in BOOLEAN : BypassStore(on) \/ BypassMulti(on)
  \/ BypassEnabled
  \/ \E p \in CvPort : UnmapBegin(p) \/ \E s \in Source : MapBegin(p, s)
  \/ Swap \/ FreeSource

ProcessCycle ==
  \/ CycleBegin
  \/ PrepareMidi
  \/ \E p \in CvPort : CvLook(p) \/ CvLock(p) \/ \E l \in Level : CvUse(p, l)
  \/ RunPlugin
  \/ \E events \in 0..1 : WriteOutput(events)
  \/ OutputsDone \/ CycleEnd

(* Of other threads, next to the commands and to the cycle.                *)
CycleElsewhere ==
  \/ \E on \in BOOLEAN : BypassFromMidi(on)
  \/ \E l \in Level : SetControl(l)

CycleNext == CycleCommand \/ ProcessCycle \/ CycleElsewhere

-----------------------------------------------------------------------------
(* Properties.                                                             *)

(* A cycle never uses a CV source that cv_map or cv_unmap has freed, and   *)
(* for a control port none that is not there; no source is lost.  The cycle*)
(* ignores a value that its source remembers, so what a source remembers   *)
(* is what the control port has, unless somebody else has changed the port *)
(* since (then the source stays silent until its own value changes), a     *)
(* change got no event from the pool, or one overtook cv_map.              *)
CvSourcesSound ==
  /\ CycleTypeOK
  /\ using # NoSource => using \in allocated
  /\ step = "cv_control_use" => using # NoSource
  /\ command = NoCommand => allocated = {cv_source[p] : p \in CvPort} \ {NoSource}
  /\ cv_source["control"] # NoSource /\ "control" \notin starved =>
       source_prev[cv_source["control"]] = control

(* No note is left sounding, in the plugin or behind one of its outputs,   *)
(* once a cycle has taken note of the bypass, unless bypass changed while  *)
(* that cycle ran: it ends notes where it first looks and remembers what   *)
(* it sees last.  Plugins that pass MIDI through are left out (see         *)
(* OutputsSilenced).                                                       *)
BypassEndsNotes ==
  step = "idle" /\ was_bypassed /\ ~torn /\ ~Enabled =>
    ~inside /\ (~plugin.through => outside = {})

(* All-notes-off goes to every output, if "effect is now bypassed, but     *)
(* wasn't before" (the comment in the section of the MIDI outputs).  Not   *)
(* so: the loop over the events passed through overwrites i.               *)
OutputsSilenced ==
  step = "idle" /\ was_bypassed /\ ~torn /\ ~Enabled => ~inside /\ outside = {}

(* multi_bypass bypasses, like bypass ("if bypass_value = 1 bypass         *)
(* effect").  Not so: it stores nothing into bypass.                       *)
BypassAsAsked ==
  command = NoCommand => asked = IF Enabled THEN ~enabled ELSE bypass
=============================================================================
