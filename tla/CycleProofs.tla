---------------------------- MODULE CycleProofs -----------------------------
(***************************************************************************)
(* What a cycle of the audio engine does for the plugins, proved for all   *)
(* numbers of ports, sources, notes, frames and values: the sources of CV  *)
(* ports and the notes at a bypass (CvSourcesSound, BypassEndsNotes), the  *)
(* transport (TransportReported, PositionAgrees) and the rings of the      *)
(* properties (OutputsNotStranded).                                        *)
(***************************************************************************)
EXTENDS EffectCycle, Transport, PropertyRings, SequenceTheorems, Recursion

-----------------------------------------------------------------------------
(* One cycle of a plugin: the CV sources of its ports, and the notes that  *)
(* sound when it is bypassed.                                              *)

CycleSpec == CycleInit /\ [][CycleNext]_cycleVars

Mapped == {cv_source[p] : p \in CvPort} \ {NoSource}

(* The mutex of a port is the cycle's exactly while it uses the source     *)
(* that the port has.                                                      *)
MutexIsUse ==
  /\ \A p \in CvPort : cv_mutex[p] = (IF step = Use(p) THEN "cycle" ELSE "free")
  /\ \A p \in CvPort : step = Use(p) => using = cv_source[p]
  /\ step = "cv_control_use" => using # NoSource
  /\ (\A p \in CvPort : step # Use(p)) => using = NoSource

(* What is allocated is what the ports have, with what the command is      *)
(* about to give one of them, or has just taken away.                      *)
OwnerInv ==
  /\ cv_source["control"] = cv_source["bypass"] => cv_source["control"] = NoSource
  /\ command.at \in {"idle", "bypass", "unmap"} => allocated = Mapped
  /\ command.at = "unmap" => command.new = NoSource
  /\ command.at = "map" => command.new \in Source \ Mapped /\ allocated = Mapped \union {command.new}
  /\ command.at = "free" => command.old \in Source \ Mapped /\ allocated = Mapped \union {command.old}

MemoryInv ==
  cv_source["control"] # NoSource /\ "control" \notin starved =>
    source_prev[cv_source["control"]] = control

CvInv == CycleTypeOK /\ MutexIsUse /\ OwnerInv /\ MemoryInv

LEMMA PortSteps ==
  /\ CvPort = {"control", "bypass"}
  /\ At("control") = "cv_control" /\ At("bypass") = "cv_bypass"
  /\ Lock("control") = "cv_control_lock" /\ Lock("bypass") = "cv_bypass_lock"
  /\ Use("control") = "cv_control_use" /\ Use("bypass") = "cv_bypass_use"
  /\ CvPass("control") = "cv_bypass" /\ CvPass("bypass") = "run"
  BY DEF CvPort, At, Lock, Use, CvPass

LEMMA CvInitHolds == CycleInit => CvInv
<1> SUFFICES ASSUME CycleInit PROVE CvInv
  OBVIOUS
<1>1. CycleTypeOK
  <2>1. PortTypeOK /\ GhostTypeOK
    BY DEF CycleInit, CycleTypeOK, NoCommand, PortTypeOK, GhostTypeOK, OutPort, Level
  <2>2. SourceTypeOK
    BY DEF CycleInit, CycleTypeOK, NoCommand, SourceTypeOK, Level
  <2>3. (step \in CycleStep /\ index \in Nat)
    BY DEF CycleInit, CycleTypeOK, NoCommand, CycleStep, OutPort
  <2>4. (command \in CommandType)
    BY DEF CycleInit, CycleTypeOK, NoCommand, CommandType
  <2> QED
    BY <2>1, <2>2, <2>3, <2>4 DEF CycleTypeOK
<1>2. MutexIsUse
  BY PortSteps DEF CycleInit, MutexIsUse
<1>3. OwnerInv /\ MemoryInv
  BY PortSteps DEF CycleInit, OwnerInv, MemoryInv, Mapped, NoCommand
<1> QED
  BY <1>1, <1>2, <1>3 DEF CvInv

LEMMA CvSourceTypes == CvInv => SourceTypeOK
  BY DEF CvInv, CycleTypeOK

(* Steps that have nothing to do with sources.                             *)
LEMMA CvUntouched ==
  ASSUME CvInv, CycleTypeOK',
         UNCHANGED <<cv_source, source_prev, allocated, cv_mutex, using, control, starved>>,
         step' = step \/ \A p \in CvPort : step # Use(p) /\ step' # Use(p),
         \/ command' = command
         \/ command.at \in {"idle", "bypass"} /\ command'.at \in {"idle", "bypass"}
  PROVE  CvInv'
<1>1. MutexIsUse'
  BY PortSteps DEF CvInv, MutexIsUse, Use
<1>2. OwnerInv' /\ MemoryInv'
  BY DEF CvInv, OwnerInv, MemoryInv, Mapped
<1> QED
  BY <1>1, <1>2 DEF CvInv

LEMMA CvCommands ==
  ASSUME CvInv, NEW on \in BOOLEAN,
         BypassStore(on) \/ BypassMulti(on) \/ BypassEnabled \/ BypassFromMidi(on)
  PROVE  CvInv'
<1>1. CASE BypassStore(on)
  <2>1. CycleTypeOK'
    <3>1. PortTypeOK' /\ GhostTypeOK'
      BY <1>1 DEF CvInv, CycleTypeOK, BypassStore, NoCommand, Tears, sourceVars, PortTypeOK,
         GhostTypeOK, OutPort, Level
    <3>2. SourceTypeOK'
      BY <1>1 DEF CvInv, CycleTypeOK, BypassStore, NoCommand, Tears, sourceVars, SourceTypeOK,
         Level
    <3>3. (step \in CycleStep /\ index \in Nat)'
      BY <1>1 DEF CvInv, CycleTypeOK, BypassStore, NoCommand, Tears, sourceVars, CycleStep,
         OutPort
    <3>4. (command \in CommandType)'
      BY <1>1 DEF CvInv, CycleTypeOK, BypassStore, NoCommand, Tears, sourceVars, CommandType
    <3> QED
      BY <3>1, <3>2, <3>3, <3>4 DEF CycleTypeOK
  <2> QED
    BY <1>1, <2>1, CvUntouched DEF BypassStore, NoCommand, sourceVars
<1>2. CASE BypassMulti(on)
  <2>1. CycleTypeOK'
    <3>1. PortTypeOK' /\ GhostTypeOK'
      BY <1>2 DEF CvInv, CycleTypeOK, BypassMulti, sourceVars, PortTypeOK, GhostTypeOK, OutPort, Level
    <3>2. SourceTypeOK'
      BY <1>2 DEF CvInv, CycleTypeOK, BypassMulti, sourceVars, SourceTypeOK, Level
    <3>3. (step \in CycleStep /\ index \in Nat)'
      BY <1>2 DEF CvInv, CycleTypeOK, BypassMulti, sourceVars, CycleStep, OutPort
    <3>4. (command \in CommandType)'
      BY <1>2 DEF CvInv, CycleTypeOK, BypassMulti, sourceVars, CommandType
    <3> QED
      BY <3>1, <3>2, <3>3, <3>4 DEF CycleTypeOK
  <2> QED
    BY <1>2, <2>1, CvUntouched DEF BypassMulti, sourceVars
<1>3. CASE BypassEnabled
  <2>1. CycleTypeOK'
    <3>1. PortTypeOK' /\ GhostTypeOK'
      BY <1>3 DEF CvInv, CycleTypeOK, BypassEnabled, NoCommand, sourceVars, ghostVars, PortTypeOK,
         GhostTypeOK, OutPort, Level
    <3>2. SourceTypeOK'
      BY <1>3 DEF CvInv, CycleTypeOK, BypassEnabled, NoCommand, sourceVars, ghostVars,
         SourceTypeOK, Level
    <3>3. (step \in CycleStep /\ index \in Nat)'
      BY <1>3 DEF CvInv, CycleTypeOK, BypassEnabled, NoCommand, sourceVars, ghostVars, CycleStep,
         OutPort
    <3>4. (command \in CommandType)'
      BY <1>3 DEF CvInv, CycleTypeOK, BypassEnabled, NoCommand, sourceVars, ghostVars, CommandType
    <3> QED
      BY <3>1, <3>2, <3>3, <3>4 DEF CycleTypeOK
  <2> QED
    BY <1>3, <2>1, CvUntouched DEF BypassEnabled, NoCommand, sourceVars, ghostVars
<1>4. CASE BypassFromMidi(on)
  <2>1. CycleTypeOK'
    <3>1. PortTypeOK' /\ GhostTypeOK'
      BY <1>4 DEF CvInv, CycleTypeOK, BypassFromMidi, Tears, sourceVars, PortTypeOK, GhostTypeOK, OutPort,
         Level
    <3>2. SourceTypeOK'
      BY <1>4 DEF CvInv, CycleTypeOK, BypassFromMidi, Tears, sourceVars, SourceTypeOK, Level
    <3>3. (step \in CycleStep /\ index \in Nat)'
      BY <1>4 DEF CvInv, CycleTypeOK, BypassFromMidi, Tears, sourceVars, CycleStep, OutPort
    <3>4. (command \in CommandType)'
      BY <1>4 DEF CvInv, CycleTypeOK, BypassFromMidi, Tears, sourceVars, CommandType
    <3> QED
      BY <3>1, <3>2, <3>3, <3>4 DEF CycleTypeOK
  <2> QED
    BY <1>4, <2>1, CvUntouched DEF BypassFromMidi, sourceVars
<1> QED
  BY <1>1, <1>2, <1>3, <1>4

LEMMA CvSteps ==
  ASSUME CvInv, NEW events \in 0..1,
         CycleBegin \/ PrepareMidi \/ RunPlugin \/ WriteOutput(events) \/ OutputsDone \/ CycleEnd
  PROVE  CvInv'
<1>0. /\ UNCHANGED <<cv_source, source_prev, allocated, cv_mutex, using, control, starved, command>>
      /\ step' = step \/ \A p \in CvPort : step # Use(p) /\ step' # Use(p)
  BY PortSteps DEF CycleBegin, PrepareMidi, RunPlugin, WriteOutput, OutputsDone, CycleEnd, StepTo,
     portVars, sourceVars, ghostVars
<1>1. CycleTypeOK'
  <2>1. PortTypeOK' /\ GhostTypeOK'
    <3>1. PortTypeOK'
      <4>1. UNCHANGED portVars /\ was_bypassed' \in {was_bypassed, bypass}
        BY DEF CycleBegin, PrepareMidi, RunPlugin, WriteOutput, OutputsDone, CycleEnd
      <4> QED
        BY <4>1 DEF CvInv, CycleTypeOK, PortTypeOK, portVars
    <3>2. GhostTypeOK'
      <4>0. OutPort' = OutPort
        BY DEF OutPort, CycleBegin, PrepareMidi, RunPlugin, WriteOutput, OutputsDone, CycleEnd, portVars
      <4>1. CASE PrepareMidi
        BY <4>0, <4>1 DEF CvInv, CycleTypeOK, PrepareMidi, GhostTypeOK
      <4>2. CASE WriteOutput(events)
        BY <4>0, <4>2 DEF CvInv, CycleTypeOK, WriteOutput, GhostTypeOK
      <4>3. CASE CycleBegin \/ RunPlugin \/ OutputsDone \/ CycleEnd
        <5>1. UNCHANGED <<inside, outside, starved>> /\ torn' \in {torn, torn /\ was_bypassed}
          BY <4>3 DEF CycleBegin, RunPlugin, OutputsDone, CycleEnd, ghostVars
        <5> QED
          BY <4>0, <5>1 DEF CvInv, CycleTypeOK, PortTypeOK, GhostTypeOK
      <4> QED
        BY <4>1, <4>2, <4>3
    <3> QED
      BY <3>1, <3>2
  <2>2. SourceTypeOK'
    BY DEF CvInv, CycleTypeOK, CycleBegin, PrepareMidi, RunPlugin, WriteOutput, OutputsDone,
       CycleEnd, StepTo, portVars, sourceVars, ghostVars, OutPort, SourceTypeOK, Level
  <2>3. step' \in CycleStep
    BY DEF CvInv, CycleTypeOK, CycleBegin, PrepareMidi, RunPlugin, WriteOutput, OutputsDone,
       CycleEnd, StepTo, CycleStep
  <2>4. index' \in Nat
    <3>1. index \in Nat /\ events \in Nat /\ index + 1 \in Nat /\ events + 1 \in Nat
      BY DEF CvInv, CycleTypeOK
    <3>2. index' \in {index, 0, index + 1, events + 1}
      BY DEF CycleBegin, PrepareMidi, RunPlugin, WriteOutput, OutputsDone, CycleEnd, portVars,
         sourceVars, ghostVars
    <3> QED
      BY <3>1, <3>2
  <2>5. (command \in CommandType)'
    BY <1>0 DEF CvInv, CycleTypeOK
  <2> QED
    BY <2>1, <2>2, <2>3, <2>4, <2>5 DEF CycleTypeOK
<1> QED
  BY <1>0, <1>1, CvUntouched

(* cv_map and cv_unmap.                                                    *)
LEMMA MapBeginKeeps ==
  ASSUME CvInv, NEW p \in CvPort, NEW s \in Source, MapBegin(p, s)
  PROVE  CvInv'
<1>1. /\ command = NoCommand /\ s \notin allocated
      /\ command' = [at |-> "map", port |-> p, new |-> s]
      /\ allocated' = allocated \union {s}
      /\ source_prev' = [source_prev EXCEPT ![s] = PortLevel(p)]
      /\ UNCHANGED <<cv_source, cv_mutex, using, control, starved, step>>
  BY DEF MapBegin, portVars, ghostVars
<1>2. CycleTypeOK'
  <2>1. PortTypeOK' /\ GhostTypeOK'
    BY <1>1 DEF CvInv, CycleTypeOK, MapBegin, portVars, ghostVars, PortLevel, PortTypeOK,
       GhostTypeOK, OutPort, Level
  <2>2. SourceTypeOK'
    <3>1. PortLevel(p) \in Level
      BY DEF CvInv, CycleTypeOK, PortTypeOK, PortLevel, Level
    <3> QED
      BY <1>1, <3>1 DEF CvInv, CycleTypeOK, SourceTypeOK
  <2>3. (step \in CycleStep /\ index \in Nat)'
    BY <1>1 DEF CvInv, CycleTypeOK, MapBegin, portVars, ghostVars, PortLevel, CycleStep, OutPort
  <2>4. (command \in CommandType)'
    BY <1>1 DEF CvInv, CycleTypeOK, MapBegin, portVars, ghostVars, PortLevel, CommandType
  <2> QED
    BY <2>1, <2>2, <2>3, <2>4 DEF CycleTypeOK
<1>3. MutexIsUse'
  BY <1>1 DEF CvInv, MutexIsUse, Use
<1>4. allocated = Mapped /\ Mapped' = Mapped
  BY <1>1 DEF CvInv, OwnerInv, Mapped, NoCommand
<1>5. OwnerInv'
  BY <1>1, <1>4 DEF CvInv, OwnerInv
<1>6. cv_source["control"] # NoSource => cv_source["control"] \in Mapped
  BY PortSteps DEF Mapped
<1>7. MemoryInv'
  BY <1>1, <1>4, <1>6 DEF CvInv, MemoryInv, CycleTypeOK, PortTypeOK, SourceTypeOK
<1> QED
  BY <1>2, <1>3, <1>5, <1>7 DEF CvInv

LEMMA UnmapBeginKeeps ==
  ASSUME CvInv, NEW p \in CvPort, UnmapBegin(p)
  PROVE  CvInv'
<1>1. /\ command = NoCommand /\ command' = [at |-> "unmap", port |-> p, new |-> NoSource]
      /\ UNCHANGED <<cv_source, source_prev, allocated, cv_mutex, using, control, starved, step>>
  BY DEF UnmapBegin, portVars, sourceVars, ghostVars
<1>2. CycleTypeOK'
  <2>1. PortTypeOK' /\ GhostTypeOK'
    BY <1>1 DEF CvInv, CycleTypeOK, UnmapBegin, portVars, ghostVars, PortTypeOK, GhostTypeOK, OutPort,
       Level
  <2>2. SourceTypeOK'
    BY <1>1 DEF CvInv, CycleTypeOK, UnmapBegin, portVars, ghostVars, SourceTypeOK, Level
  <2>3. (step \in CycleStep /\ index \in Nat)'
    BY <1>1 DEF CvInv, CycleTypeOK, UnmapBegin, portVars, ghostVars, CycleStep, OutPort
  <2>4. (command \in CommandType)'
    BY <1>1 DEF CvInv, CycleTypeOK, UnmapBegin, portVars, ghostVars, CommandType
  <2> QED
    BY <2>1, <2>2, <2>3, <2>4 DEF CycleTypeOK
<1>3. MutexIsUse'
  BY <1>1 DEF CvInv, MutexIsUse, Use
<1>4. OwnerInv' /\ MemoryInv'
  BY <1>1 DEF CvInv, OwnerInv, MemoryInv, Mapped, NoCommand
<1> QED
  BY <1>2, <1>3, <1>4 DEF CvInv

LEMMA SwapKeeps == ASSUME CvInv, Swap PROVE CvInv'
<1> DEFINE p == command.port
           old == cv_source[p]
           new == command.new
           other == IF p = "control" THEN "bypass" ELSE "control"
<1>1. /\ command.at \in {"map", "unmap"} /\ p \in CvPort /\ new \in Source \union {NoSource}
      /\ command = [at |-> command.at, port |-> p, new |-> new]
      /\ cv_mutex[p] = "free"
      /\ cv_source' = [cv_source EXCEPT ![p] = new]
      /\ command' = IF old = NoSource THEN NoCommand ELSE [at |-> "free", old |-> old]
      /\ UNCHANGED <<source_prev, allocated, cv_mutex, using, control, step>>
      /\ cv_source \in [CvPort -> Source \union {NoSource}]
      /\ starved' = IF new # NoSource /\ source_prev[new] # PortLevel(p)
                    THEN starved \union {p} ELSE starved \ {p}
  BY DEF Swap, MapOvertaken, portVars, CvInv, CycleTypeOK, SourceTypeOK, CommandType
<1>2. /\ old \in Source \union {NoSource} /\ cv_source' \in [CvPort -> Source \union {NoSource}]
      /\ p # other /\ CvPort = {p, other} /\ other \in CvPort
      /\ cv_source'[p] = new /\ cv_source'[other] = cv_source[other]
  BY <1>1, PortSteps
<1>3. CycleTypeOK'
  <2>1. PortTypeOK' /\ GhostTypeOK'
    BY <1>1, <1>2 DEF CvInv, CycleTypeOK, Swap, portVars, NoCommand, PortTypeOK, GhostTypeOK, OutPort,
       Level
  <2>2. SourceTypeOK'
    BY <1>1, <1>2 DEF CvInv, CycleTypeOK, Swap, portVars, NoCommand, SourceTypeOK, Level
  <2>3. (step \in CycleStep /\ index \in Nat)'
    BY <1>1, <1>2 DEF CvInv, CycleTypeOK, Swap, portVars, NoCommand, CycleStep, OutPort
  <2>4. (command \in CommandType)'
    BY <1>1, <1>2 DEF CvInv, CycleTypeOK, Swap, portVars, NoCommand, CommandType
  <2> QED
    BY <2>1, <2>2, <2>3, <2>4 DEF CycleTypeOK
<1>4. step # Use(p)
  BY <1>1 DEF CvInv, MutexIsUse
<1>5. MutexIsUse'
  BY <1>1, <1>2, <1>4 DEF CvInv, MutexIsUse, Use
<1>6. Mapped = {old, cv_source[other]} \ {NoSource} /\ Mapped' = {new, cv_source[other]} \ {NoSource}
  BY <1>2 DEF Mapped
<1>7. /\ old = cv_source[other] => old = NoSource
      /\ new # NoSource => new \notin Mapped
      /\ allocated = Mapped \union ({new} \ {NoSource})
  BY <1>1, <1>2, PortSteps, EffectCycleAssumption DEF CvInv, OwnerInv
<1> HIDE DEF p, old, new, other
<1>8. OwnerInv'
  <2>1. new = cv_source[other] => new = NoSource
    BY <1>6, <1>7
  <2>2. cv_source'["control"] = cv_source'["bypass"] => cv_source'["control"] = NoSource
    BY <1>2, <2>1, PortSteps
  <2>3. CASE old = NoSource
    <3>1. command'.at = "idle" /\ allocated' = Mapped'
      BY <1>1, <1>6, <1>7, <2>3 DEF NoCommand
    <3> QED
      BY <2>2, <3>1 DEF OwnerInv
  <2>4. CASE old # NoSource
    <3>1. command'.at = "free" /\ command'.old = old
      BY <1>1, <2>4
    <3>2. old \in Source /\ old \notin Mapped' /\ allocated' = Mapped' \union {old}
      BY <1>1, <1>2, <1>6, <1>7, <2>4
    <3> QED
      BY <2>2, <3>1, <3>2 DEF OwnerInv
  <2> QED
    BY <2>3, <2>4
<1>9. MemoryInv'
  <2>1. CASE p = "control"
    BY <1>1, <1>2, <2>1 DEF MemoryInv, PortLevel
  <2>2. CASE p = "bypass"
    <3>1. other = "control"
      BY <2>2 DEF other
    <3> QED
      BY <1>1, <1>2, <2>2, <3>1 DEF CvInv, MemoryInv
  <2> QED
    BY <1>1, <2>1, <2>2, PortSteps
<1> QED
  BY <1>3, <1>5, <1>8, <1>9 DEF CvInv

LEMMA FreeKeeps == ASSUME CvInv, FreeSource PROVE CvInv'
<1>1. /\ command.at = "free" /\ command' = NoCommand
      /\ allocated' = allocated \ {command.old}
      /\ source_prev' = [source_prev EXCEPT ![command.old] = "low"]
      /\ UNCHANGED <<cv_source, cv_mutex, using, control, starved, step>>
  BY DEF FreeSource, portVars, ghostVars
<1>2. CycleTypeOK'
  <2>1. PortTypeOK' /\ GhostTypeOK'
    BY <1>1 DEF CvInv, CycleTypeOK, FreeSource, portVars, ghostVars, NoCommand, PortTypeOK,
       GhostTypeOK, OutPort, Level
  <2>2. SourceTypeOK'
    BY <1>1 DEF CvInv, CycleTypeOK, FreeSource, portVars, ghostVars, NoCommand, SourceTypeOK,
       Level
  <2>3. (step \in CycleStep /\ index \in Nat)'
    BY <1>1 DEF CvInv, CycleTypeOK, FreeSource, portVars, ghostVars, NoCommand, CycleStep, OutPort
  <2>4. (command \in CommandType)'
    BY <1>1 DEF CvInv, CycleTypeOK, FreeSource, portVars, ghostVars, NoCommand, CommandType
  <2> QED
    BY <2>1, <2>2, <2>3, <2>4 DEF CycleTypeOK
<1>3. MutexIsUse'
  BY <1>1 DEF CvInv, MutexIsUse, Use
<1>4. command.old \in Source \ Mapped /\ allocated = Mapped \union {command.old} /\ Mapped' = Mapped
  BY <1>1 DEF CvInv, OwnerInv, Mapped
<1>5. OwnerInv'
  BY <1>1, <1>4 DEF CvInv, OwnerInv, NoCommand
<1>6. cv_source["control"] # NoSource => cv_source["control"] \in Mapped
  BY PortSteps DEF Mapped
<1>7. MemoryInv'
  BY <1>1, <1>4, <1>6 DEF CvInv, MemoryInv, CycleTypeOK, PortTypeOK, SourceTypeOK
<1> QED
  BY <1>2, <1>3, <1>5, <1>7 DEF CvInv

(* The cycle looks, locks and uses.                                        *)
LEMMA LookKeeps ==
  ASSUME CvInv, NEW p \in CvPort, CvLook(p)
  PROVE  CvInv'
<1>0. /\ UNCHANGED <<cv_source, source_prev, allocated, cv_mutex, using, control, starved, command>>
      /\ \A q \in CvPort : step # Use(q) /\ step' # Use(q)
  BY PortSteps DEF CvLook, StepTo, portVars, sourceVars, ghostVars
<1>1. CycleTypeOK'
  <2>1. PortTypeOK' /\ GhostTypeOK'
    BY PortSteps DEF CvInv, CycleTypeOK, CvLook, StepTo, portVars, sourceVars, ghostVars,
       PortTypeOK, GhostTypeOK, OutPort, Level
  <2>2. SourceTypeOK'
    BY PortSteps DEF CvInv, CycleTypeOK, CvLook, StepTo, portVars, sourceVars, ghostVars,
       SourceTypeOK, Level
  <2>3. (step \in CycleStep /\ index \in Nat)'
    BY PortSteps DEF CvInv, CycleTypeOK, CvLook, StepTo, portVars, sourceVars, ghostVars,
       CycleStep, OutPort
  <2>4. (command \in CommandType)'
    BY PortSteps DEF CvInv, CycleTypeOK, CvLook, StepTo, portVars, sourceVars, ghostVars,
       CommandType
  <2> QED
    BY <2>1, <2>2, <2>3, <2>4 DEF CycleTypeOK
<1> QED
  BY <1>0, <1>1, CvUntouched

LEMMA LockKeeps ==
  ASSUME CvInv, NEW p \in CvPort, CvLock(p)
  PROVE  CvInv'
<1>0. /\ UNCHANGED <<cv_source, source_prev, allocated, control, starved, command>>
      /\ step = Lock(p)
  BY DEF CvLock, portVars, sourceVars, ghostVars
<1>1. CASE step' = CvPass(p) /\ UNCHANGED <<cv_mutex, using>>
  <2>1. CycleTypeOK'
    <3>1. PortTypeOK' /\ GhostTypeOK'
      BY <1>1, PortSteps DEF CvInv, CycleTypeOK, CvLock, portVars, sourceVars, ghostVars,
         PortTypeOK, GhostTypeOK, OutPort, Level
    <3>2. SourceTypeOK'
      BY <1>1, PortSteps DEF CvInv, CycleTypeOK, CvLock, portVars, sourceVars, ghostVars,
         SourceTypeOK, Level
    <3>3. (step \in CycleStep /\ index \in Nat)'
      BY <1>1, PortSteps DEF CvInv, CycleTypeOK, CvLock, portVars, sourceVars, ghostVars,
         CycleStep, OutPort
    <3>4. (command \in CommandType)'
      BY <1>1, PortSteps DEF CvInv, CycleTypeOK, CvLock, portVars, sourceVars, ghostVars,
         CommandType
    <3> QED
      BY <3>1, <3>2, <3>3, <3>4 DEF CycleTypeOK
  <2>2. \A q \in CvPort : step # Use(q) /\ step' # Use(q)
    BY <1>0, <1>1, PortSteps
  <2> QED
    BY <1>0, <1>1, <2>1, <2>2, CvUntouched
<1>2. CASE /\ step' = Use(p) /\ cv_mutex' = [cv_mutex EXCEPT ![p] = "cycle"]
           /\ using' = cv_source[p] /\ ~(p = "control" /\ cv_source[p] = NoSource)
  <2>1. CycleTypeOK'
    <3>1. PortTypeOK' /\ GhostTypeOK'
      BY <1>2, PortSteps DEF CvInv, CycleTypeOK, CvLock, portVars, sourceVars, ghostVars,
         PortTypeOK, GhostTypeOK, OutPort, Level
    <3>2. SourceTypeOK'
      BY <1>2, PortSteps DEF CvInv, CycleTypeOK, CvLock, portVars, sourceVars, ghostVars,
         SourceTypeOK, Level
    <3>3. (step \in CycleStep /\ index \in Nat)'
      BY <1>2, PortSteps DEF CvInv, CycleTypeOK, CvLock, portVars, sourceVars, ghostVars,
         CycleStep, OutPort
    <3>4. (command \in CommandType)'
      BY <1>2, PortSteps DEF CvInv, CycleTypeOK, CvLock, portVars, sourceVars, ghostVars,
         CommandType
    <3> QED
      BY <3>1, <3>2, <3>3, <3>4 DEF CycleTypeOK
  <2>2. MutexIsUse'
    BY <1>0, <1>2, PortSteps DEF CvInv, MutexIsUse, CycleTypeOK, SourceTypeOK
  <2>3. OwnerInv' /\ MemoryInv'
    BY <1>0 DEF CvInv, OwnerInv, MemoryInv, Mapped
  <2> QED
    BY <2>1, <2>2, <2>3 DEF CvInv
<1> QED
  BY <1>1, <1>2 DEF CvLock

LEMMA UseKeeps ==
  ASSUME CvInv, NEW p \in CvPort, NEW l \in Level, CvUse(p, l)
  PROVE  CvInv'
<1>0. /\ UNCHANGED <<cv_source, allocated, command>> /\ step = Use(p) /\ step' = CvPass(p)
      /\ cv_mutex' = [cv_mutex EXCEPT ![p] = "free"] /\ using' = NoSource
      /\ using = cv_source[p]
  BY DEF CvUse, sourceVars, CvInv, MutexIsUse
<1>1. CycleTypeOK'
  <2>1. PortTypeOK' /\ GhostTypeOK'
    <3>1. /\ UNCHANGED <<plugin, was_bypassed, inside, outside>>
          /\ \/ UNCHANGED <<portVars, torn, starved>>
             \/ SetFromCv(p, l) /\ starved' \in {starved \ {p}, starved \union {p}}
      BY DEF CvUse
    <3>0. OutPort' = OutPort
      BY <3>1 DEF OutPort
    <3>2. CASE UNCHANGED <<portVars, torn, starved>>
      BY <3>0, <3>1, <3>2 DEF CvInv, CycleTypeOK, PortTypeOK, GhostTypeOK, portVars
    <3>3. CASE SetFromCv(p, l) /\ starved' \in {starved \ {p}, starved \union {p}}
      <4>1. control' \in Level /\ starved' \subseteq CvPort
        BY <3>3 DEF CvInv, CycleTypeOK, PortTypeOK, GhostTypeOK, SetFromCv
      <4>2. /\ bypass' \in BOOLEAN /\ prev_bypass' \in BOOLEAN /\ enabled' \in BOOLEAN
            /\ asked' \in BOOLEAN
        BY <3>3 DEF CvInv, CycleTypeOK, PortTypeOK, SetFromCv
      <4>3. torn' \in BOOLEAN
        BY <3>3 DEF CvInv, CycleTypeOK, GhostTypeOK, SetFromCv, Tears
      <4> QED
        BY <3>0, <3>1, <4>1, <4>2, <4>3 DEF CvInv, CycleTypeOK, PortTypeOK, GhostTypeOK
    <3> QED
      BY <3>1, <3>2, <3>3
  <2>2. SourceTypeOK'
    BY PortSteps DEF CvInv, CycleTypeOK, CvUse, SetFromCv, Tears, portVars, sourceVars,
       SourceTypeOK, Level
  <2>3. (step \in CycleStep /\ index \in Nat)'
    BY PortSteps DEF CvInv, CycleTypeOK, CvUse, SetFromCv, Tears, portVars, sourceVars, CycleStep,
       OutPort
  <2>4. (command \in CommandType)'
    BY PortSteps DEF CvInv, CycleTypeOK, CvUse, SetFromCv, Tears, portVars, sourceVars,
       CommandType
  <2> QED
    BY <2>1, <2>2, <2>3, <2>4 DEF CycleTypeOK
<1>2. MutexIsUse'
  BY <1>0, PortSteps DEF CvInv, MutexIsUse, CycleTypeOK, SourceTypeOK
<1>3. OwnerInv'
  BY <1>0 DEF CvInv, OwnerInv, Mapped
<1>4. MemoryInv'
  <2>1. CASE UNCHANGED <<portVars, source_prev, starved>>
    BY <1>0, <2>1 DEF CvInv, MemoryInv, portVars
  <2>2. CASE /\ using # NoSource /\ l # source_prev[using] /\ SetFromCv(p, l)
             /\ \/ source_prev' = [source_prev EXCEPT ![using] = l] /\ starved' = starved \ {p}
                \/ starved' = starved \union {p} /\ UNCHANGED source_prev
    <3>1. CASE p = "control"
      <4>1. control' = l
        BY <2>2, <3>1 DEF SetFromCv
      <4> QED
        BY <1>0, <2>2, <3>1, <4>1 DEF CvInv, MemoryInv, CycleTypeOK, PortTypeOK, SourceTypeOK
    <3>2. CASE p = "bypass"
      <4>1. control' = control /\ cv_source["control"] # using
        BY <1>0, <2>2, <3>2 DEF SetFromCv, CvInv, OwnerInv
      <4> QED
        <5> SUFFICES ASSUME cv_source["control"] # NoSource, "control" \notin starved'
                     PROVE  source_prev'[cv_source["control"]] = control
          BY <1>0, <4>1 DEF MemoryInv
        <5>1. "control" \notin starved
          BY <2>2, <3>2
        <5>2. source_prev[cv_source["control"]] = control
          BY <5>1 DEF CvInv, MemoryInv
        <5>3. cv_source["control"] \in Source /\ source_prev \in [Source -> Level]
          BY PortSteps, CvSourceTypes DEF SourceTypeOK
        <5> QED
          BY <2>2, <4>1, <5>2, <5>3
    <3> QED
      BY <3>1, <3>2, PortSteps
  <2> QED
    BY <2>1, <2>2 DEF CvUse
<1> QED
  BY <1>1, <1>2, <1>3, <1>4 DEF CvInv

(* A source whose port somebody else has changed is not trusted any more.  *)
LEMMA SetControlKeeps ==
  ASSUME CvInv, NEW l \in Level, SetControl(l)
  PROVE  CvInv'
<1>1. CycleTypeOK'
  <2>1. PortTypeOK' /\ GhostTypeOK'
    BY DEF CvInv, CycleTypeOK, SetControl, PortTypeOK, GhostTypeOK, OutPort, CvPort
  <2>2. SourceTypeOK'
    BY DEF CvInv, CycleTypeOK, SetControl, sourceVars, SourceTypeOK, Level
  <2>3. (step \in CycleStep /\ index \in Nat)'
    BY DEF CvInv, CycleTypeOK, SetControl
  <2>4. (command \in CommandType)'
    BY DEF CvInv, CycleTypeOK, SetControl, CommandType
  <2> QED
    BY <2>1, <2>2, <2>3, <2>4 DEF CycleTypeOK
<1>2. UNCHANGED <<cv_source, source_prev, allocated, cv_mutex, step, using, command>>
  BY DEF SetControl, sourceVars
<1>3. MutexIsUse'
  BY <1>2, PortSteps DEF CvInv, MutexIsUse, Use
<1>4. OwnerInv'
  BY <1>2 DEF CvInv, OwnerInv, Mapped
<1>5. MemoryInv'
  BY <1>2 DEF CvInv, MemoryInv, SetControl
<1> QED
  BY <1>1, <1>3, <1>4, <1>5 DEF CvInv

LEMMA CvKeeps == CvInv /\ [CycleNext]_cycleVars => CvInv'
<1> SUFFICES ASSUME CvInv, [CycleNext]_cycleVars PROVE CvInv'
  OBVIOUS
<1>1. CASE UNCHANGED cycleVars
  <2>1. CycleTypeOK'
    BY <1>1 DEF cycleVars, portVars, sourceVars, ghostVars, CvInv, CycleTypeOK, PortTypeOK,
       SourceTypeOK, GhostTypeOK, OutPort
  <2> QED
    BY <1>1, <2>1, CvUntouched DEF cycleVars, portVars, sourceVars, ghostVars
<1>2. CASE CycleCommand
  BY <1>2, CvCommands, MapBeginKeeps, UnmapBeginKeeps, SwapKeeps, FreeKeeps DEF CycleCommand
<1>3. CASE ProcessCycle
  BY <1>3, CvSteps, LookKeeps, LockKeeps, UseKeeps DEF ProcessCycle
<1>4. CASE CycleElsewhere
  BY <1>4, CvCommands, SetControlKeeps DEF CycleElsewhere
<1> QED
  BY <1>1, <1>2, <1>3, <1>4 DEF CycleNext

THEOREM CvInvariant == CycleSpec => []CvInv
<1>1. CycleInit => CvInv
  BY CvInitHolds
<1>2. CvInv /\ [CycleNext]_cycleVars => CvInv'
  BY CvKeeps
<1> QED
  BY <1>1, <1>2, PTL DEF CycleSpec

(* No cycle uses a CV source that cv_map or cv_unmap has freed, and a      *)
(* control port misses no value of its source, unless somebody else has    *)
(* written the port since (effects.c:2244, 2286, 6965).                    *)
THEOREM CvSourcesAreSound == CycleSpec => []CvSourcesSound
<1>1. CvInv => CvSourcesSound
  <2> SUFFICES ASSUME CvInv PROVE CvSourcesSound
    OBVIOUS
  <2>1. using # NoSource => using \in Mapped
    BY DEF CvInv, MutexIsUse, Mapped
  <2>2. Mapped \subseteq allocated
    BY DEF CvInv, OwnerInv, CycleTypeOK, CommandType
  <2>3. command = NoCommand => allocated = {cv_source[p] : p \in CvPort} \ {NoSource}
    BY DEF CvInv, OwnerInv, Mapped, NoCommand
  <2> QED
    BY <2>1, <2>2, <2>3 DEF CvInv, MutexIsUse, MemoryInv, CvSourcesSound
<1> QED
  BY <1>1, CvInvariant, PTL

-----------------------------------------------------------------------------
(* The notes.                                                              *)

LateStep == {"cv_control", "cv_control_lock", "cv_control_use", "cv_bypass", "cv_bypass_lock",
             "cv_bypass_use", "run"}

(* What the cycle owes the bypass at each of its steps, once it has looked *)
(* at it first and as long as nobody changes it: no note in the plugin     *)
(* after the MIDI input, none behind the outputs that are already written. *)
NotesInv ==
  /\ step # "outputs" => index = 0
  /\ ~torn /\ ~Enabled =>
       /\ step \in {"idle", "midi"} /\ was_bypassed => ~inside
       /\ step \in {"idle", "midi"} \union LateStep /\ was_bypassed /\ ~plugin.through => outside = {}
       /\ step \in LateStep \union {"outputs", "end"} /\ bypass => ~inside
       /\ step = "outputs" /\ bypass /\ ~plugin.through /\ was_bypassed => outside = {}
       /\ step = "outputs" /\ bypass /\ ~plugin.through => \A i \in outside : i >= index
       /\ step = "end" /\ bypass /\ ~plugin.through => outside = {}

(* A change of bypass that no cycle sees, or that tears the cycle.         *)
LEMMA NotesUntouched ==
  ASSUME NotesInv, CycleTypeOK,
         UNCHANGED <<plugin, was_bypassed, index, inside, outside>>,
         step' = step \/ {step, step'} \subseteq LateStep,
         torn' = (torn \/ (step # "idle" /\ bypass' # bypass))
  PROVE  NotesInv'
<1>1. step # "outputs" => index = 0
  BY DEF NotesInv
<1>2. (step # "outputs" => index = 0)'
  BY <1>1 DEF LateStep
<1>3. SUFFICES ASSUME ~torn', ~Enabled'
               PROVE  NotesInv'
  BY <1>2 DEF NotesInv
<1>4. ~torn /\ ~Enabled /\ (step = "idle" \/ bypass' = bypass)
  BY <1>3 DEF Enabled
<1>5. CASE step' = step
  BY <1>2, <1>4, <1>5 DEF NotesInv, LateStep
<1>6. CASE {step, step'} \subseteq LateStep
  BY <1>2, <1>4, <1>6 DEF NotesInv, LateStep
<1> QED
  BY <1>5, <1>6

LEMMA NotesCommands ==
  ASSUME NotesInv, CycleTypeOK, CycleCommand
  PROVE  NotesInv'
<1>1. /\ UNCHANGED <<plugin, was_bypassed, index, inside, outside, step>>
      /\ torn' = (torn \/ (step # "idle" /\ bypass' # bypass))
  <2>1. CASE \E on \in BOOLEAN : BypassStore(on)
    BY <2>1 DEF BypassStore, Tears, ghostVars
  <2>2. CASE \E on \in BOOLEAN : BypassMulti(on)
    BY <2>2 DEF BypassMulti, CycleTypeOK, GhostTypeOK
  <2>3. CASE BypassEnabled
    BY <2>3 DEF BypassEnabled, CycleTypeOK, GhostTypeOK, ghostVars
  <2>4. CASE \E p \in CvPort : UnmapBegin(p) \/ \E s \in Source : MapBegin(p, s)
    BY <2>4 DEF UnmapBegin, MapBegin, CycleTypeOK, GhostTypeOK, portVars, ghostVars
  <2>5. CASE Swap \/ FreeSource
    BY <2>5 DEF Swap, FreeSource, CycleTypeOK, GhostTypeOK, portVars, ghostVars
  <2> QED
    BY <2>1, <2>2, <2>3, <2>4, <2>5 DEF CycleCommand
<1> QED
  BY <1>1, NotesUntouched

LEMMA NotesOfPorts ==
  ASSUME NotesInv, CycleTypeOK, NEW p \in CvPort, NEW l \in Level,
         CvLook(p) \/ CvLock(p) \/ CvUse(p, l)
  PROVE  NotesInv'
<1>1. {step, step'} \subseteq LateStep
  BY PortSteps DEF CvLook, CvLock, CvUse, StepTo, LateStep
<1>2. /\ UNCHANGED <<plugin, was_bypassed, index, inside, outside>>
      /\ torn' = (torn \/ (step # "idle" /\ bypass' # bypass))
  <2>1. CASE CvLook(p) \/ CvLock(p)
    BY <2>1 DEF CvLook, CvLock, CycleTypeOK, GhostTypeOK, portVars, ghostVars
  <2>2. CASE CvUse(p, l)
    <3>1. UNCHANGED <<plugin, was_bypassed, index, inside, outside>>
      BY <2>2 DEF CvUse
    <3>2. CASE UNCHANGED <<bypass, torn>>
      BY <3>1, <3>2 DEF CycleTypeOK, GhostTypeOK
    <3>3. CASE SetFromCv(p, l)
      BY <3>1, <3>3 DEF SetFromCv, Tears, CycleTypeOK, GhostTypeOK
    <3> QED
      BY <2>2, <3>1, <3>2, <3>3 DEF CvUse, portVars
  <2> QED
    BY <2>1, <2>2
<1> QED
  BY <1>1, <1>2, NotesUntouched

LEMMA NotesSteps ==
  ASSUME NotesInv, CycleTypeOK, NEW events \in 0..1,
         CycleBegin \/ PrepareMidi \/ RunPlugin \/ WriteOutput(events) \/ OutputsDone \/ CycleEnd
  PROVE  NotesInv'
<1>1. CASE CycleBegin
  BY <1>1 DEF CycleBegin, StepTo, NotesInv, LateStep, Enabled, portVars, CycleTypeOK, GhostTypeOK
<1>2. CASE PrepareMidi
  BY <1>2 DEF PrepareMidi, StepTo, NotesInv, LateStep, Enabled, Bypassed, portVars
<1>3. CASE RunPlugin
  <2>1. index' = 0 /\ \A i \in outside : i >= 0
    BY <1>3 DEF RunPlugin, StepTo, NotesInv, CycleTypeOK, GhostTypeOK, OutPort
  <2> QED
    BY <1>3, <2>1 DEF RunPlugin, StepTo, NotesInv, LateStep, Enabled, portVars, ghostVars
<1>4. CASE WriteOutput(events)
  <2>1. /\ step = "outputs" /\ step' = step /\ index \in Nat /\ outside \subseteq Nat
        /\ UNCHANGED <<plugin, bypass, was_bypassed, inside, torn>>
    BY <1>4 DEF WriteOutput, portVars, CycleTypeOK, GhostTypeOK, OutPort
  <2> SUFFICES ASSUME ~torn, ~Enabled, bypass
               PROVE  /\ ~inside
                      /\ ~plugin.through /\ was_bypassed => outside' = {}
                      /\ ~plugin.through => \A i \in outside' : i >= index'
    BY <2>1 DEF NotesInv, LateStep, Enabled
  <2>2. Bypassed /\ ~inside
    BY <2>1 DEF NotesInv, LateStep, Bypassed
  <2>3. CASE plugin.through
    BY <2>2, <2>3
  <2>4. CASE ~plugin.through
    <3>1. /\ index' = index + 1
          /\ outside' = IF was_bypassed THEN outside ELSE outside \ {index}
          /\ was_bypassed => outside = {}
          /\ \A i \in outside : i >= index
      BY <1>4, <2>1, <2>2, <2>4 DEF WriteOutput, NotesInv
    <3>2. \A i \in outside' : i \in outside /\ i # index
      BY <3>1
    <3>3. \A i \in outside' : i >= index + 1
      BY <2>1, <3>1, <3>2
    <3> QED
      BY <2>2, <3>1, <3>3
  <2> QED
    BY <2>3, <2>4
<1>5. CASE OutputsDone
  <2>1. /\ step = "outputs" /\ step' = "end" /\ index \notin OutPort /\ index' = 0
        /\ UNCHANGED <<plugin, bypass, was_bypassed, inside, outside, torn>>
    BY <1>5 DEF OutputsDone, StepTo, portVars, ghostVars
  <2>2. index \in Nat /\ plugin.outputs \in Nat /\ outside \subseteq OutPort
    BY EffectCycleAssumption DEF CycleTypeOK, PortTypeOK, GhostTypeOK
  <2>3. \A i \in outside : i < index
    BY <2>1, <2>2 DEF OutPort
  <2>4. (\A i \in outside : i >= index) => outside = {}
    BY <2>2, <2>3 DEF OutPort
  <2> QED
    BY <2>1, <2>4 DEF NotesInv, LateStep, Enabled
<1>6. CASE CycleEnd
  BY <1>6 DEF CycleEnd, StepTo, NotesInv, LateStep, Enabled, portVars, ghostVars
<1> QED
  BY <1>1, <1>2, <1>3, <1>4, <1>5, <1>6

LEMMA NotesKeep == NotesInv /\ CycleTypeOK /\ [CycleNext]_cycleVars => NotesInv'
<1> SUFFICES ASSUME NotesInv, CycleTypeOK, [CycleNext]_cycleVars PROVE NotesInv'
  OBVIOUS
<1>1. CASE UNCHANGED cycleVars
  BY <1>1, NotesUntouched DEF cycleVars, portVars, ghostVars, CycleTypeOK, GhostTypeOK
<1>2. CASE CycleCommand
  BY <1>2, NotesCommands
<1>3. CASE \E on \in BOOLEAN : BypassFromMidi(on)
  BY <1>3, NotesUntouched DEF BypassFromMidi, Tears
<1>4. CASE \E p \in CvPort : CvLook(p) \/ CvLock(p) \/ \E l \in Level : CvUse(p, l)
  <2>1. \E l : l \in Level
    BY DEF Level
  <2> QED
    BY <1>4, <2>1, NotesOfPorts
<1>5. CASE \E events \in 0..1 : WriteOutput(events)
  BY <1>5, NotesSteps
<1>6. CASE CycleBegin \/ PrepareMidi \/ RunPlugin \/ OutputsDone \/ CycleEnd
  <2>1. 0 \in 0..1
    OBVIOUS
  <2> QED
    BY <1>6, <2>1, NotesSteps
<1>7. CASE \E l \in Level : SetControl(l)
  BY <1>7, NotesUntouched DEF SetControl, CycleTypeOK, GhostTypeOK
<1> QED
  BY <1>1, <1>2, <1>3, <1>4, <1>5, <1>6, <1>7 DEF CycleNext, ProcessCycle, CycleElsewhere

(* No note is left sounding once a cycle has taken note of the bypass,     *)
(* however many outputs there are.                                         *)
THEOREM BypassEndsTheNotes == CycleSpec => []BypassEndsNotes
<1>1. CycleInit => NotesInv
  BY DEF CycleInit, NotesInv, LateStep
<1>2. NotesInv /\ CvInv /\ [CycleNext]_cycleVars => NotesInv'
  BY NotesKeep DEF CvInv
<1>3. NotesInv => BypassEndsNotes
  BY DEF NotesInv, BypassEndsNotes
<1> QED
  BY <1>1, <1>2, <1>3, CvInvariant, PTL DEF CycleSpec

-----------------------------------------------------------------------------
(* Transport and tempo.                                                    *)

TransportSpec == TransportInit /\ [][TransportNext]_transportVars

-----------------------------------------------------------------------------
(* The reports.                                                            *)

(* What the client knows, or will when the list of events is read.         *)
Latest == IF reports = <<>> THEN told ELSE Head(reports)

NowWith(r) == [rolling |-> r, bpm |-> bpm, bpb |-> bpb]

Asks(t) == update[t].at = "query" /\ update[t].flag = "forced"

WillReport(t) ==
  /\ update[t].at = "query"
  /\ update[t].flag = "forced" \/ update[t].old # NowWith(update[t].seen)

HasReport(t) == update[t].at = "queue" /\ update[t].report = Now

(* A thread is in UpdateGlobalJackPosition only where the cycle and the    *)
(* command call it.                                                        *)
UpdateLinks ==
  /\ update = [t \in Thread |-> update[t]]
  /\ beat.at # "update" => update["cycle"] = Quiet
  /\ ordering # "update" => update["command"] = Quiet

(* A report that is still to come is in the hands of a thread, or of the   *)
(* command that has stored a tempo; and a thread that only looks for       *)
(* changes misses none that another thread has noted.                      *)
ReportInv ==
  /\ UpdateLinks
  /\ reports = <<>> \/ reports = <<Head(reports)>>
  /\ untold \in BOOLEAN
  /\ ~untold =>
       /\ \A t \in Thread : update[t].at = "query" /\ update[t].flag # "forced" =>
            update[t].old.rolling = rolling \/ update[t].seen = rolling
       /\ \/ Latest = Now \/ ordering = "reset"
          \/ \E t \in Thread : WillReport(t) \/ HasReport(t)

LEMMA NowIs ==
  /\ Now = NowWith(rolling)
  /\ \A r : [Now EXCEPT !.rolling = r] = NowWith(r)
  BY DEF Now, NowWith

LEMMA ReportInitHolds == TransportInit => ReportInv
<1> SUFFICES ASSUME TransportInit PROVE ReportInv
  OBVIOUS
<1>1. UpdateLinks /\ \A t \in Thread : update[t].at = "idle"
  BY DEF TransportInit, UpdateLinks, Thread, Quiet
<1>2. Latest = Now /\ reports = <<>> /\ untold = FALSE
  BY DEF TransportInit, Latest
<1> QED
  BY <1>1, <1>2 DEF ReportInv

(* Steps that report nothing.                                              *)
LEMMA NewsKept ==
  ASSUME ReportInv, UpdateLinks', untold' \in BOOLEAN, untold => untold',
         UNCHANGED <<rolling, reports, told>>,
         \A t \in Thread :
           \/ update'[t] = update[t]
           \/ /\ update[t].at \notin {"query", "queue"}
              /\ update'[t].at = "query" =>
                   update'[t].flag = "forced" \/ update'[t].old.rolling = rolling,
         untold' \/ UNCHANGED <<bpm, bpb>> \/ ordering' = "reset" \/ \E t \in Thread : Asks(t)',
         ordering = "reset" => ordering' = "reset" \/ \E t \in Thread : Asks(t)'
  PROVE  ReportInv'
<1>1. CASE untold'
  BY <1>1 DEF ReportInv
<1>2. CASE ~untold'
  <2>1. ~untold
    BY <1>2
  <2>2. \A t \in Thread : (update[t].at = "query" /\ update[t].flag # "forced" =>
                             update[t].old.rolling = rolling \/ update[t].seen = rolling)'
    BY <2>1 DEF ReportInv
  <2>3. CASE \E t \in Thread : Asks(t)'
    <3>1. \E t \in Thread : WillReport(t)'
      BY <2>3 DEF Asks, WillReport
    <3> QED
      BY <2>2, <3>1 DEF ReportInv
  <2>4. CASE ordering' = "reset"
    BY <2>2, <2>4 DEF ReportInv
  <2>5. CASE UNCHANGED <<bpm, bpb>> /\ ordering # "reset"
    <3>1. Now' = Now /\ Latest' = Latest /\ \A r : NowWith(r)' = NowWith(r)
      BY <2>5 DEF Now, Latest, NowWith
    <3>2. ASSUME NEW t \in Thread, WillReport(t) \/ HasReport(t)
          PROVE  (WillReport(t) \/ HasReport(t))'
      <4>1. update'[t] = update[t]
        BY <3>2 DEF WillReport, HasReport
      <4> QED
        BY <3>1, <3>2, <4>1 DEF WillReport, HasReport
    <3>3. Latest = Now \/ \E t \in Thread : WillReport(t) \/ HasReport(t)
      BY <2>1, <2>5 DEF ReportInv
    <3> QED
      BY <2>2, <3>1, <3>2, <3>3 DEF ReportInv
  <2> QED
    BY <1>2, <2>3, <2>4, <2>5
<1> QED
  BY <1>1, <1>2

(* UpdateGlobalJackPosition stores what it has seen of JACK.               *)
LEMMA ReportKept ==
  ASSUME ReportInv, NEW t \in Thread, UpdateReport(t)
  PROVE  ReportInv'
<1> DEFINE r == update[t].seen
           now == NowWith(r)
<1>1. /\ update[t].at = "query" /\ rolling' = r
      /\ UNCHANGED <<bpm, bpb, beat, ordering, reports, told>>
      /\ IF update[t].flag = "forced" \/ update[t].old # now THEN Report(t, now) ELSE NoReport(t)
  BY NowIs DEF UpdateReport, tempoVars, orderVars
<1>2. Now' = now /\ Latest' = Latest /\ \A q : NowWith(q)' = NowWith(q)
  BY <1>1 DEF Now, Latest, NowWith
<1>3. \/ /\ update' = [update EXCEPT ![t] = [at |-> "queue", report |-> now]]
         /\ untold' = (untold \/ Crosses(t, r)) /\ WillReport(t)
      \/ update' = [update EXCEPT ![t] = [at |-> "done"]] /\ untold' = TRUE
      \/ /\ update' = [update EXCEPT ![t] = [at |-> "done"]]
         /\ untold' = (untold \/ Crosses(t, r)) /\ ~WillReport(t)
  BY <1>1 DEF Report, NoReport, WillReport
<1>4. /\ \A u \in Thread : u # t => update'[u] = update[u]
      /\ update'[t].at # "query" /\ UpdateLinks'
  <2>1. update[t] # Quiet /\ update = [u \in Thread |-> update[u]]
    BY <1>1 DEF Quiet, ReportInv, UpdateLinks
  <2>2. \A u \in Thread : u # t => update'[u] = update[u]
    BY <1>3, <2>1
  <2>3. update'[t].at # "query"
    BY <1>3, <2>1
  <2>4. update' = [u \in Thread |-> update'[u]]
    BY <1>3, <2>1
  <2> QED
    BY <1>1, <2>1, <2>2, <2>3, <2>4 DEF ReportInv, UpdateLinks, Thread
<1> HIDE DEF r, now
<1>5. CASE untold' = TRUE
  BY <1>1, <1>4, <1>5 DEF ReportInv
<1>6. CASE untold' # TRUE
  <2>1. ~untold /\ ~Crosses(t, r) /\ untold' = FALSE
    BY <1>3, <1>6 DEF ReportInv
  <2>2. \A u \in Thread \ {t} : update[u].at = "query" => update[u].seen = r
    BY <2>1 DEF Crosses
  <2>3. ASSUME NEW u \in Thread, update'[u].at = "query"
        PROVE  update'[u].seen = rolling'
    BY <1>1, <1>4, <2>2, <2>3
  <2>4. CASE update' = [update EXCEPT ![t] = [at |-> "queue", report |-> now]]
    <3>1. HasReport(t)'
      BY <1>2, <2>4 DEF HasReport, ReportInv, UpdateLinks
    <3> QED
      BY <1>1, <1>4, <2>1, <2>3, <3>1 DEF ReportInv
  <2>5. CASE ~WillReport(t)
    <3>1. update[t].flag # "forced" /\ update[t].old = now
      BY <1>1, <2>5 DEF WillReport, now, r
    <3>2. now.rolling = r
      BY DEF now, NowWith
    <3>3. rolling = r
      BY <1>1, <2>1, <3>1, <3>2 DEF ReportInv, r
    <3>4. Now = now
      BY <3>3, NowIs DEF now
    <3>5. ASSUME NEW u \in Thread, WillReport(u) \/ HasReport(u)
          PROVE  (WillReport(u) \/ HasReport(u))'
      <4>1. u # t
        BY <1>1, <2>5, <3>5 DEF HasReport
      <4>2. update'[u] = update[u]
        BY <1>4, <4>1
      <4> QED
        BY <1>2, <3>4, <3>5, <4>2 DEF WillReport, HasReport
    <3>6. Latest = Now \/ ordering = "reset" \/ \E u \in Thread : WillReport(u) \/ HasReport(u)
      BY <2>1 DEF ReportInv
    <3>7. (Latest = Now \/ ordering = "reset" \/ \E u \in Thread : WillReport(u) \/ HasReport(u))'
      BY <1>1, <1>2, <3>4, <3>5, <3>6
    <3> QED
      BY <1>1, <1>4, <2>1, <2>3, <3>7 DEF ReportInv
  <2> QED
    BY <1>3, <1>6, <2>4, <2>5
<1> QED
  BY <1>5, <1>6

LEMMA QueueKept ==
  ASSUME ReportInv, NEW t \in Thread, UpdateQueue(t)
  PROVE  ReportInv'
<1>1. /\ update[t].at = "queue" /\ reports' = <<update[t].report>>
      /\ untold' = (update[t].report # Now \/ Crosses(t, rolling))
      /\ update' = [update EXCEPT ![t] = [at |-> "done"]]
      /\ UNCHANGED <<bpm, bpb, beat, ordering, rolling, told>>
  BY DEF UpdateQueue, tempoVars, orderVars
<1>2. Now' = Now /\ reports' = <<Head(reports')>> /\ Latest' = update[t].report
  BY <1>1 DEF Now, Latest
<1>3. /\ \A u \in Thread : u # t => update'[u] = update[u]
      /\ update'[t].at = "done" /\ UpdateLinks'
  <2>1. update[t] # Quiet /\ update = [u \in Thread |-> update[u]]
    BY <1>1 DEF Quiet, ReportInv, UpdateLinks
  <2>2. \A u \in Thread : u # t => update'[u] = update[u]
    BY <1>1, <2>1
  <2>3. update'[t] = [at |-> "done"] /\ update' = [u \in Thread |-> update'[u]]
    BY <1>1, <2>1
  <2> QED
    BY <1>1, <2>1, <2>2, <2>3 DEF ReportInv, UpdateLinks, Thread
<1>4. untold' \in BOOLEAN
  BY <1>1
<1>5. CASE ~untold'
  <2>1. update[t].report = Now /\ ~Crosses(t, rolling)
    BY <1>1, <1>5
  <2>2. \A u \in Thread : update'[u].at = "query" => update'[u].seen = rolling'
    BY <1>1, <1>3, <2>1 DEF Crosses
  <2>3. (Latest = Now)'
    BY <1>2, <2>1
  <2> QED
    BY <1>2, <1>3, <1>4, <2>2, <2>3 DEF ReportInv
<1> QED
  BY <1>2, <1>3, <1>4, <1>5 DEF ReportInv

LEMMA SendKept == ReportInv /\ SendReports => ReportInv'
<1> SUFFICES ASSUME ReportInv, SendReports PROVE ReportInv'
  OBVIOUS
<1>1. UNCHANGED <<bpm, bpb, beat, ordering, rolling, update, untold>> /\ reports' = <<>>
  BY DEF SendReports, tempoVars, orderVars
<1>2. Latest' = Latest /\ Now' = Now /\ \A q : NowWith(q)' = NowWith(q)
  BY <1>1 DEF SendReports, Latest, Now, NowWith
<1>3. \A u \in Thread : WillReport(u)' = WillReport(u) /\ HasReport(u)' = HasReport(u)
  BY <1>1, <1>2 DEF WillReport, HasReport
<1>4. UpdateLinks'
  BY <1>1 DEF ReportInv, UpdateLinks
<1> QED
  BY <1>1, <1>2, <1>3, <1>4 DEF ReportInv

(* A thread looks at JACK; it has stored a tempo before, or has not.       *)
LEMMA LooksKept ==
  ASSUME ReportInv, NEW t \in Thread, update[t] = Quiet, NEW flag, NEW old,
         update' = [update EXCEPT ![t] = Looks(flag, old)],
         flag = "forced" \/ old.rolling = rolling,
         UNCHANGED <<rolling, reports, told>>, untold' \in BOOLEAN, untold => untold',
         untold' \/ UNCHANGED <<bpm, bpb>> \/ flag = "forced",
         ordering' = ordering \/ flag = "forced",
         t = "cycle" => beat'.at = "update" /\ ordering' = ordering,
         t = "command" => beat' = beat /\ ordering' = "update"
  PROVE  ReportInv'
<1>1. update = [u \in Thread |-> update[u]]
  BY DEF ReportInv, UpdateLinks
<1>2. /\ update'[t] = Looks(flag, old) /\ \A u \in Thread : u # t => update'[u] = update[u]
      /\ update' = [u \in Thread |-> update'[u]]
  BY <1>1
<1>3. update'[t].at = "query" /\ update'[t].flag = flag /\ update'[t].old = old
  BY <1>2 DEF Looks
<1>4. UpdateLinks'
  BY <1>2 DEF ReportInv, UpdateLinks, Thread
<1>5. update[t].at = "idle"
  BY DEF Quiet
<1>6. flag = "forced" => Asks(t)'
  BY <1>3 DEF Asks
<1>7. \A u \in Thread :
        \/ update'[u] = update[u]
        \/ /\ update[u].at \notin {"query", "queue"}
           /\ update'[u].at = "query" => update'[u].flag = "forced" \/ update'[u].old.rolling = rolling
  BY <1>2, <1>3, <1>5
<1>8. untold' \/ UNCHANGED <<bpm, bpb>> \/ ordering' = "reset" \/ \E u \in Thread : Asks(u)'
  BY <1>6
<1>9. ordering = "reset" => ordering' = "reset" \/ \E u \in Thread : Asks(u)'
  BY <1>6
<1> QED
  BY <1>4, <1>7, <1>8, <1>9, NewsKept

LEMMA CycleLooks ==
  ASSUME ReportInv,
         \/ NoMidi \/ MidiStart \/ MidiStop \/ \E v \in Tempo : MidiTick(v)
         \/ \E on \in BOOLEAN : MidiRolling(on)
         \/ \E v \in Tempo, b \in Meter : MidiTempo(v, b)
  PROVE  ReportInv'
<1>1. /\ beat = Quiet /\ beat'.at = "update" /\ "cycle" \in Thread
      /\ UNCHANGED <<ordering, rolling, reports, told>>
  <2>1. beat = Quiet /\ beat' = [at |-> "update"]
    <3>1. CASE \E v \in Tempo : MidiTick(v)
      BY <3>1 DEF MidiTick, CycleUpdate
    <3>2. CASE \E v \in Tempo, b \in Meter : MidiTempo(v, b)
      BY <3>2 DEF MidiTempo
    <3>3. CASE NoMidi \/ MidiStart \/ MidiStop \/ \E on \in BOOLEAN : MidiRolling(on)
      BY <3>3 DEF NoMidi, MidiStart, MidiStop, MidiRolling, CycleUpdate
    <3> QED
      BY <3>1, <3>2, <3>3
  <2>2. UNCHANGED <<ordering, rolling, reports, told>>
    BY DEF NoMidi, MidiStart, MidiStop, MidiTick, MidiRolling, MidiTempo, orderVars
  <2> QED
    BY <2>1, <2>2 DEF Thread
<1>2. update["cycle"] = Quiet /\ untold \in BOOLEAN
  BY <1>1 DEF ReportInv, UpdateLinks, Quiet
<1>3. CASE NoMidi \/ MidiStart \/ MidiStop \/ \E on \in BOOLEAN : MidiRolling(on)
  <2>1. /\ UNCHANGED <<bpm, bpb, untold>>
        /\ update' = [update EXCEPT !["cycle"] = Looks("if_changed", Now)]
    BY <1>3 DEF NoMidi, MidiStart, MidiStop, MidiRolling, CycleUpdate, UpdateBegin, tempoVars
  <2>2. Now.rolling = rolling
    BY DEF Now
  <2> QED
    BY <1>1, <1>2, <2>1, <2>2, LooksKept
<1>4. CASE \E v \in Tempo : MidiTick(v)
  <2>1. UNCHANGED <<bpb, untold>>
    BY <1>4 DEF MidiTick
  <2>2. CASE bpm' = bpm /\ update' = [update EXCEPT !["cycle"] = Looks("if_changed", Now)]
    <3>1. Now.rolling = rolling
      BY DEF Now
    <3> QED
      BY <1>1, <1>2, <2>1, <2>2, <3>1, LooksKept
  <2>3. CASE update' = [update EXCEPT !["cycle"] = Looks("forced", "any")]
    <3> DEFINE any == "any"
    <3>1. update' = [update EXCEPT !["cycle"] = Looks("forced", any)]
      BY <2>3
    <3> QED
      BY <1>1, <1>2, <2>1, <3>1, LooksKept
  <2> QED
    BY <1>4, <2>2, <2>3 DEF MidiTick, CycleUpdate, UpdateBegin, UpdateForced
<1>5. ASSUME NEW v \in Tempo, NEW b \in Meter, MidiTempo(v, b) PROVE ReportInv'
  <2> DEFINE old == [Now EXCEPT !.bpm = v, !.bpb = b]
  <2>1. /\ untold' = (untold \/ bpm # v \/ bpb # b) /\ bpm' = v /\ bpb' = b
        /\ update' = [update EXCEPT !["cycle"] = Looks("if_changed", old)]
    BY <1>5 DEF MidiTempo, UpdateBegin
  <2>2. old.rolling = rolling
    BY DEF Now
  <2>3. untold' \in BOOLEAN /\ (untold => untold') /\ (untold' \/ UNCHANGED <<bpm, bpb>>)
    BY <1>2, <2>1
  <2> HIDE DEF old
  <2> QED
    BY <1>1, <1>2, <2>1, <2>2, <2>3, LooksKept
<1> QED
  BY <1>3, <1>4, <1>5

LEMMA CommandLooks ==
  ASSUME ReportInv,
         \/ SetTempoRest
         \/ PortUpdate /\ \E on \in BOOLEAN : PortRolling(on)
         \/ PortUpdate /\ \E v \in Tempo, b \in Meter : PortTempo(v, b)
  PROVE  ReportInv'
<1> DEFINE any == "any"
<1>1. /\ ordering # "update" /\ ordering' = "update" /\ "command" \in Thread
      /\ UNCHANGED <<beat, rolling, reports, told, untold>>
      /\ update' = [update EXCEPT !["command"] = Looks("forced", any)]
  <2>1. UNCHANGED untold
    BY DEF SetTempoRest, PortRolling, PortTempo, PortUpdate, PortNoUpdate, Orders
  <2> QED
    BY <2>1 DEF SetTempoRest, PortRolling, PortTempo, PortUpdate, Orders, UpdateForced, OtherVars,
       Thread
<1>2. update["command"] = Quiet /\ untold \in BOOLEAN
  BY <1>1 DEF ReportInv, UpdateLinks
<1> QED
  BY <1>1, <1>2, LooksKept

LEMMA TimebaseKept ==
  ASSUME ReportInv, TimebaseBegin
  PROVE  ReportInv'
<1>1. /\ beat.at = "update" /\ update["cycle"].at = "done"
      /\ update' = [update EXCEPT !["cycle"] = Quiet] /\ beat'.at # "update"
      /\ UNCHANGED <<bpm, bpb, ordering, rolling, reports, told, untold>>
  BY DEF TimebaseBegin, tempoVars, orderVars, Quiet
<1>2. update = [u \in Thread |-> update[u]] /\ untold \in BOOLEAN
  BY DEF ReportInv, UpdateLinks
<1>3. /\ update'["cycle"] = Quiet /\ update'["command"] = update["command"]
      /\ update' = [u \in Thread |-> update'[u]]
  BY <1>1, <1>2 DEF Thread
<1>4. UpdateLinks'
  BY <1>1, <1>3 DEF ReportInv, UpdateLinks
<1>5. \A u \in Thread :
        \/ update'[u] = update[u]
        \/ update[u].at \notin {"query", "queue"} /\ update'[u].at # "query"
  BY <1>1, <1>3 DEF Thread, Quiet
<1> QED
  BY <1>1, <1>2, <1>4, <1>5, NewsKept

LEMMA CommandDoneKept ==
  ASSUME ReportInv, CommandDone
  PROVE  ReportInv'
<1>1. /\ ordering = "update" /\ ordering' = "none" /\ update["command"].at = "done"
      /\ update' = [update EXCEPT !["command"] = Quiet]
      /\ UNCHANGED <<bpm, bpb, beat, rolling, reports, told, untold>>
  BY DEF CommandDone, tempoVars, OtherVars
<1>2. update = [u \in Thread |-> update[u]] /\ untold \in BOOLEAN
  BY DEF ReportInv, UpdateLinks
<1>3. /\ update'["command"] = Quiet /\ update'["cycle"] = update["cycle"]
      /\ update' = [u \in Thread |-> update'[u]]
  BY <1>1, <1>2 DEF Thread
<1>4. UpdateLinks'
  BY <1>1, <1>3 DEF ReportInv, UpdateLinks
<1>5. \A u \in Thread :
        \/ update'[u] = update[u]
        \/ update[u].at \notin {"query", "queue"} /\ update'[u].at # "query"
  BY <1>1, <1>3 DEF Thread, Quiet
<1> QED
  BY <1>1, <1>2, <1>4, <1>5, NewsKept

LEMMA StoresKept ==
  ASSUME ReportInv,
         \/ TimebaseEnd \/ SetTransportRest \/ \E mode \in {"none", "midi"} : SyncMode(mode)
         \/ \E v \in Tempo : SetBeatsPerMinute(v)
         \/ \E b \in Meter : SetBeatsPerBar(b)
         \/ \E v \in Tempo, b \in Meter, on \in BOOLEAN : SetTransport(on, v, b)
         \/ PortNoUpdate /\ \E on \in BOOLEAN : PortRolling(on)
         \/ PortNoUpdate /\ \E v \in Tempo, b \in Meter : PortTempo(v, b)
         \/ UNCHANGED transportVars
  PROVE  ReportInv'
<1>1. /\ UNCHANGED <<update, rolling, reports, told>>
      /\ beat'.at = "update" <=> beat.at = "update"
      /\ ordering' # "update" => ordering # "update"
  BY DEF TimebaseEnd, SetTransportRest, SyncMode, SetBeatsPerMinute, SetBeatsPerBar, SetTransport,
     PortRolling, PortTempo, PortNoUpdate, Orders, OtherVars, reportVars, orderVars, transportVars,
     Quiet
<1>2. untold \in BOOLEAN
  BY DEF ReportInv
<1>3. /\ untold' \in BOOLEAN
      /\ untold => untold'
      /\ untold' \/ UNCHANGED <<bpm, bpb>> \/ ordering' = "reset"
      /\ ordering = "reset" => ordering' = "reset"
  <2>1. CASE TimebaseEnd \/ UNCHANGED transportVars \/ \E mode \in {"none", "midi"} : SyncMode(mode)
    BY <1>2, <2>1 DEF TimebaseEnd, SyncMode, reportVars, orderVars, tempoVars, transportVars
  <2>2. CASE SetTransportRest
    BY <1>2, <2>2 DEF SetTransportRest
  <2>3. CASE \E v \in Tempo : SetBeatsPerMinute(v)
    BY <1>2, <2>3 DEF SetBeatsPerMinute, Orders
  <2>4. CASE \E b \in Meter : SetBeatsPerBar(b)
    BY <1>2, <2>4 DEF SetBeatsPerBar, Orders
  <2>5. CASE \E v \in Tempo, b \in Meter, on \in BOOLEAN : SetTransport(on, v, b)
    <3>1. PICK v \in Tempo, b \in Meter :
            /\ untold' = (untold \/ bpm # v \/ bpb # b) /\ bpm' = v /\ bpb' = b
            /\ ordering = "none"
      BY <2>5 DEF SetTransport, Orders
    <3> QED
      BY <1>2, <3>1
  <2>6. CASE PortNoUpdate /\ \E on \in BOOLEAN : PortRolling(on)
    BY <1>2, <2>6 DEF PortRolling, PortNoUpdate, Orders
  <2>7. CASE PortNoUpdate /\ \E v \in Tempo, b \in Meter : PortTempo(v, b)
    <3>1. PICK v \in Tempo, b \in Meter :
            /\ untold' = (untold \/ bpm # v \/ bpb # b) \/ ordering' = "update"
            /\ UNCHANGED untold \/ untold' = (untold \/ bpm # v \/ bpb # b)
            /\ bpm' = v /\ bpb' = b /\ ordering = "none" /\ ordering' = "none"
      BY <2>7 DEF PortTempo, PortUpdate, PortNoUpdate, Orders
    <3> QED
      BY <1>2, <3>1
  <2> QED
    BY <2>1, <2>2, <2>3, <2>4, <2>5, <2>6, <2>7
<1>4. UpdateLinks'
  BY <1>1 DEF ReportInv, UpdateLinks
<1> QED
  BY <1>1, <1>3, <1>4, NewsKept

(* No change of the transport or of the tempo is missed, whoever notices   *)
(* it first: the client knows it when nothing is under way.                *)
THEOREM TransportIsReported == TransportSpec => []TransportReported
<1>1. ReportInv /\ [TransportNext]_transportVars => ReportInv'
  BY ReportKept, QueueKept, SendKept, CycleLooks, CommandLooks, TimebaseKept, CommandDoneKept,
     StoresKept DEF TransportNext, PortRolling, PortTempo
<1>2. ReportInv => TransportReported
  <2> SUFFICES ASSUME ReportInv, ~untold, reports = <<>>, ordering = "none",
                      \A t \in Thread : update[t] = Quiet
               PROVE  told = Now
    BY DEF TransportReported
  <2>1. \A t \in Thread : ~WillReport(t) /\ ~HasReport(t)
    BY DEF WillReport, HasReport, Quiet
  <2> QED
    BY <2>1 DEF ReportInv, Latest
<1> QED
  BY <1>1, <1>2, ReportInitHolds, PTL DEF TransportSpec

-----------------------------------------------------------------------------
(* The position.                                                           *)

LEMMA DivIsUnique ==
  ASSUME NEW a \in Nat, NEW n \in Nat \ {0}, NEW q \in Nat, NEW r \in 0..(n - 1), a = n * q + r
  PROVE  a \div n = q /\ a % n = r
<1> DEFINE q2 == a \div n
           r2 == a % n
<1>1. q2 \in Int /\ r2 \in 0..(n - 1) /\ a = n * q2 + r2
  OBVIOUS
<1> HIDE DEF q2, r2
<1>2. n * (q - q2) = r2 - r
  BY <1>1
<1>3. r2 - r < n /\ r2 - r > -n
  BY <1>1
<1>4. q - q2 < 1
  <2>1. SUFFICES ASSUME q - q2 >= 1 PROVE FALSE
    BY <1>1
  <2>2. n * (q - q2) >= n
    BY <1>1, <2>1
  <2> QED
    BY <1>1, <1>2, <1>3, <2>2
<1>5. q - q2 > -1
  <2>1. SUFFICES ASSUME q2 - q >= 1 PROVE FALSE
    BY <1>1
  <2>2. n * (q2 - q) >= n
    BY <1>1, <2>1
  <2>3. n * (q2 - q) = r - r2
    BY <1>1
  <2> QED
    BY <1>1, <1>3, <2>2, <2>3
<1>6. q = q2
  BY <1>1, <1>4, <1>5
<1>7. r = r2
  BY <1>1, <1>2, <1>6
<1> QED
  BY <1>6, <1>7 DEF q2, r2

Position == [bar : Int, beat : Nat \ {0}, tick : 0..(TicksPerBeat - 1), start : Int]

(* The ticks up to the beat.                                               *)
Count(p, b) == (p.bar - 1) * b + (p.beat - 1) * TicksPerBeat

(* A bar of whole beats.                                                   *)
LEMMA WholeBar ==
  ASSUME NEW b \in Nat \ {0}, b % TicksPerBeat = 0
  PROVE  /\ BeatsPerBarInt(b) \in Nat \ {0}
         /\ b = TicksPerBeat * BeatsPerBarInt(b)
<1> DEFINE k == TicksPerBeat
           m == b \div k
<1>1. k \in Nat \ {0}
  BY TransportAssumption
<1> HIDE DEF k
<1>2. m \in Nat /\ b = k * m
  BY <1>1 DEF k
<1>3. m # 0
  BY <1>1, <1>2
<1> HIDE DEF m
<1>4. 2 * b + k = (2 * k) * m + k /\ k \in 0..(2 * k - 1)
  BY <1>1, <1>2
<1>5. 2 * b + k \in Nat /\ 2 * k \in Nat \ {0}
  BY <1>1
<1>6. (2 * b + k) \div (2 * k) = m
  BY <1>2, <1>4, <1>5, DivIsUnique
<1> QED
  BY <1>2, <1>3, <1>6 DEF BeatsPerBarInt, k

LEMMA FromFramePlaced ==
  ASSUME NEW f \in Nat, NEW v \in Nat, NEW b \in Nat \ {0}
  PROVE  /\ FromFrame(f, v, b) \in Position
         /\ b % TicksPerBeat = 0 =>
              /\ FromFrame(f, v, b).beat <= BeatsPerBarInt(b)
              /\ Count(FromFrame(f, v, b), b) = f * v - ((f * v) % TicksPerBeat)
<1> DEFINE k == TicksPerBeat
           t == f * v
           bar == t \div b
           r == t % b
           in_bar == r \div k
<1>1. k \in Nat \ {0}
  BY TransportAssumption
<1>2. t \in Nat
  OBVIOUS
<1> HIDE DEF k, t
<1>3. bar \in Nat /\ r \in 0..(b - 1) /\ t = b * bar + r
  BY <1>2
<1> HIDE DEF bar, r
<1>4. in_bar \in Nat /\ r % k \in 0..(k - 1) /\ r = k * in_bar + (r % k)
  BY <1>1, <1>3
<1>5. FromFrame(f, v, b) = [bar |-> bar + 1, beat |-> in_bar + 1, tick |-> 0,
                            start |-> bar * b + in_bar * k]
  BY DEF FromFrame, k, t, bar, r
<1> DEFINE e == r % k
<1> HIDE DEF in_bar, e
<1>6. FromFrame(f, v, b) \in Position
  <2>1. bar + 1 \in Int /\ in_bar + 1 \in Nat \ {0} /\ bar * b + in_bar * k \in Int
    BY <1>1, <1>3, <1>4
  <2>2. 0 \in 0..(k - 1)
    BY <1>1
  <2> QED
    BY <1>5, <2>1, <2>2 DEF Position, k
<1>7. ASSUME b % k = 0
      PROVE  /\ in_bar + 1 <= BeatsPerBarInt(b)
             /\ bar * b + in_bar * k = t - (t % k)
  <2> DEFINE m == BeatsPerBarInt(b)
  <2>1. m \in Nat \ {0} /\ b = k * m
    BY <1>7, WholeBar DEF k
  <2> HIDE DEF m
  <2>2. e \in 0..(k - 1) /\ r = k * in_bar + e
    BY <1>4 DEF e
  <2>3. in_bar < m
    <3>1. SUFFICES ASSUME in_bar >= m PROVE FALSE
      BY <1>4, <2>1
    <3>2. k * in_bar >= k * m
      BY <1>1, <1>4, <2>1, <3>1
    <3> QED
      BY <1>1, <1>3, <1>4, <2>1, <2>2, <3>2
  <2>4. t = k * (m * bar + in_bar) + e
    BY <1>1, <1>3, <1>4, <2>1, <2>2
  <2>5. m * bar + in_bar \in Nat
    BY <1>3, <1>4, <2>1
  <2>6. t % k = e
    BY <1>1, <1>2, <2>2, <2>4, <2>5, DivIsUnique
  <2>7. bar * b + in_bar * k = t - e
    BY <1>1, <1>2, <1>3, <1>4, <2>1, <2>2
  <2> QED
    BY <1>4, <2>1, <2>3, <2>6, <2>7 DEF m
<1>8. Count(FromFrame(f, v, b), b) = bar * b + in_bar * k
  BY <1>1, <1>3, <1>4, <1>5 DEF Count, k
<1> QED
  BY <1>5, <1>6, <1>7, <1>8 DEF k, t

LEMMA CarryPlaced ==
  ASSUME NEW p \in Position, NEW b \in Nat \ {0}
  PROVE  /\ Carry(p, b) \in Position /\ Carry(p, b).tick = p.tick
         /\ b % TicksPerBeat = 0 /\ p.beat <= BeatsPerBarInt(b) =>
              /\ Carry(p, b).beat <= BeatsPerBarInt(b)
              /\ Count(Carry(p, b), b) = Count(p, b) + TicksPerBeat
<1> DEFINE k == TicksPerBeat
           m == BeatsPerBarInt(b)
           c == Carry(p, b)
<1>1. k \in Nat \ {0}
  BY TransportAssumption
<1>2. p.bar \in Int /\ p.beat \in Nat \ {0} /\ p.start \in Int /\ p.tick \in 0..(k - 1)
  BY DEF Position
<1>3. CASE p.beat + 1 > m
  <2>1. c = [p EXCEPT !.beat = 1, !.start = p.start + b, !.bar = p.bar + 1]
    BY <1>3 DEF Carry
  <2> HIDE DEF c
  <2>2. c \in Position /\ c.tick = p.tick /\ c.beat = 1 /\ c.bar = p.bar + 1
    <3>1. c = [bar |-> p.bar + 1, beat |-> 1, tick |-> p.tick, start |-> p.start + b]
      BY <2>1 DEF Position
    <3>2. p.bar + 1 \in Int /\ 1 \in Nat \ {0} /\ p.start + b \in Int
      BY <1>2
    <3> QED
      BY <1>2, <3>1, <3>2 DEF Position
  <2> HIDE DEF c
  <2>3. ASSUME b % k = 0, p.beat <= m
        PROVE  c.beat <= m /\ Count(c, b) = Count(p, b) + k
    <3>1. m \in Nat \ {0} /\ b = k * m
      BY <2>3, WholeBar DEF k
    <3> HIDE DEF m
    <3>2. p.beat = m
      BY <1>2, <1>3, <2>3, <3>1
    <3>3. Count(c, b) = p.bar * b
      BY <1>1, <1>2, <2>2 DEF Count, k
    <3>4. Count(p, b) = (p.bar - 1) * b + (m - 1) * k
      BY <3>2 DEF Count, k
    <3> DEFINE x == p.bar
    <3>5. x \in Int
      BY <1>2
    <3> HIDE DEF k, x
    <3>6. x * b = (x - 1) * b + (m - 1) * k + k
      BY <1>1, <3>1, <3>5
    <3> QED
      BY <2>2, <3>1, <3>3, <3>4, <3>6 DEF x
  <2> QED
    BY <2>2, <2>3 DEF c, k, m
<1>4. CASE ~(p.beat + 1 > m)
  <2>1. c = [p EXCEPT !.beat = p.beat + 1]
    BY <1>4 DEF Carry
  <2>2. c \in Position /\ c.tick = p.tick /\ c.beat = p.beat + 1 /\ c.bar = p.bar
    BY <1>2, <2>1 DEF Position
  <2> HIDE DEF c
  <2>3. ASSUME b % k = 0
        PROVE  c.beat <= m /\ Count(c, b) = Count(p, b) + k
    <3>1. m \in Nat \ {0}
      BY <2>3, WholeBar DEF k
    <3>2. c.beat <= m
      BY <1>2, <1>4, <2>2, <3>1
    <3> DEFINE x == p.beat
               y == (p.bar - 1) * b
    <3>3. x \in Int /\ y \in Int
      BY <1>2
    <3>4. Count(c, b) = y + x * k /\ Count(p, b) = y + (x - 1) * k
      <4>1. c.beat - 1 = x /\ c.bar = p.bar
        BY <1>2, <2>2
      <4> QED
        BY <4>1 DEF Count, k
    <3> HIDE DEF x, y, k
    <3>5. x * k = (x - 1) * k + k
      BY <1>1, <3>3
    <3> QED
      BY <1>1, <3>2, <3>3, <3>4, <3>5
  <2> QED
    BY <2>2, <2>3 DEF c, k, m
<1> QED
  BY <1>3, <1>4

(* JackTimebase goes on from the last position by the ticks of a cycle.    *)
LEMMA AdvancePlaced ==
  ASSUME NEW p \in Position, NEW v \in Nat, NEW b \in Nat \ {0}
  PROVE  /\ Advance(p, v, b) \in Position
         /\ b % TicksPerBeat = 0 /\ p.beat <= BeatsPerBarInt(b) =>
              /\ Advance(p, v, b).beat <= BeatsPerBarInt(b)
              /\ Count(Advance(p, v, b), b) + Advance(p, v, b).tick = Count(p, b) + p.tick + v
<1> DEFINE k == TicksPerBeat
           m == BeatsPerBarInt(b)
           T == p.tick + v
           L == T \div k
           stride == [n \in 1..L |-> [q \in Position |-> Carry(q, b)]]
           Def(g) == [n \in 0..L |-> IF n = 0 THEN p ELSE Carry(g[n - 1], b)]
           carried == CHOOSE g : g = Def(g)
<1>1. k \in Nat \ {0} /\ T \in Nat
  BY TransportAssumption DEF Position
<1>2. L \in Nat /\ T % k \in 0..(k - 1) /\ T = k * L + (T % k)
  <2> HIDE DEF k, T
  <2> QED
    BY <1>1
<1> HIDE DEF L
<1>3. PICK f : Follows(f, L, Position, p, stride)
  <2>1. \A q \in Position : Carry(q, b) \in Position
    BY CarryPlaced
  <2>2. Steps(L, Position, p, stride)
    BY <1>2, <2>1 DEF Steps
  <2> HIDE DEF stride
  <2> QED
    BY <2>2, PrimitiveRecursion
<1>4. f = Def(f)
  <2>1. \A n \in 0..L : n = 0 \/ n \in 1..L
    BY <1>2
  <2>2. f \in [0..L -> Position] /\ f[0] = p /\ \A n \in 1..L : f[n - 1] \in Position
    BY <1>2, <1>3 DEF Follows
  <2>3. \A n \in 1..L : f[n] = Carry(f[n - 1], b)
    BY <1>3, <2>2 DEF Follows
  <2> QED
    BY <2>1, <2>2, <2>3
<1>5. carried = Def(carried)
  <2> HIDE DEF Def
  <2> QED
    BY <1>4
<1>6. Advance(p, v, b) = [carried[L] EXCEPT !.tick = T % k]
  BY DEF Advance, L
<1> HIDE DEF carried
<1> DEFINE Agrees(n) ==
             /\ carried[n] \in Position
             /\ b % k = 0 /\ p.beat <= m =>
                  carried[n].beat <= m /\ Count(carried[n], b) = Count(p, b) + n * k
           A == {n \in 0..L : Agrees(n)}
<1>7. 0 \in A
  <2>1. carried[0] = p
    BY <1>2, <1>5
  <2>2. Count(p, b) \in Int
    BY <1>1 DEF Count, Position
  <2>3. Count(p, b) = Count(p, b) + 0 * k
    BY <1>1, <2>2
  <2> QED
    BY <1>1, <1>2, <2>1, <2>3
<1>8. ASSUME NEW n \in 0..(L - 1), n \in A PROVE n + 1 \in A
  <2> DEFINE q == carried[n]
             j == n + 1
  <2>1. j \in 0..L /\ j # 0 /\ j - 1 = n
    BY <1>2
  <2>2. carried[j] = Carry(q, b)
    <3> HIDE DEF j
    <3> QED
      BY <1>5, <2>1
  <2>3. q \in Position /\ Agrees(n)
    BY <1>8
  <2> HIDE DEF q, j
  <2>4. carried[j] \in Position
    BY <2>2, <2>3, CarryPlaced
  <2>5. ASSUME b % k = 0, p.beat <= m
        PROVE  carried[j].beat <= m /\ Count(carried[j], b) = Count(p, b) + j * k
    <3>1. q.beat <= m /\ Count(q, b) = Count(p, b) + n * k
      BY <2>3, <2>5 DEF q
    <3>2. carried[j].beat <= m /\ Count(carried[j], b) = Count(q, b) + k
      BY <2>2, <2>3, <2>5, <3>1, CarryPlaced
    <3>3. Count(p, b) \in Int
      BY <1>1 DEF Count, Position
    <3> HIDE DEF k
    <3>4. j * k = n * k + k
      BY <1>1, <1>2, <2>1 DEF j
    <3>5. n * k \in Int /\ j * k \in Int
      BY <1>1, <1>2, <2>1
    <3> QED
      BY <1>1, <3>1, <3>2, <3>3, <3>4, <3>5
  <2> QED
    BY <2>1, <2>4, <2>5 DEF j
<1>9. L \in A
  <2>1. \A n \in 0..(L - 1) : n \in A => n + 1 \in A
    BY <1>8
  <2> HIDE DEF A
  <2>2. 0..L \subseteq A
    BY <1>2, <1>7, <2>1, BoundedInduction
  <2> QED
    BY <1>2, <2>2
<1> DEFINE z == carried[L]
           a == Advance(p, v, b)
<1>10. Agrees(L)
  BY <1>9
<1>11. z \in Position /\ a = [z EXCEPT !.tick = T % k]
  BY <1>6, <1>10
<1> HIDE DEF a, z
<1>12. a \in Position /\ a.beat = z.beat /\ a.bar = z.bar /\ a.tick = T % k
  BY <1>1, <1>2, <1>11 DEF Position
<1>13. Count(a, b) = Count(z, b)
  BY <1>12 DEF Count
<1>14. ASSUME b % k = 0, p.beat <= m
       PROVE  a.beat <= m /\ Count(a, b) + a.tick = Count(p, b) + p.tick + v
  <2>1. z.beat <= m /\ Count(z, b) = Count(p, b) + L * k
    BY <1>10, <1>14 DEF z
  <2> DEFINE c == Count(p, b)
             e == T % k
             t == p.tick
  <2>2. c \in Int /\ e \in Int /\ t \in Int /\ T = t + v
    BY <1>1, <1>2 DEF Count, Position
  <2> HIDE DEF c, e, t, k, T
  <2>3. L * k + e = T
    BY <1>1, <1>2, <2>2 DEF e
  <2>4. c + L * k + e = c + t + v
    BY <1>1, <1>2, <2>2, <2>3
  <2> QED
    BY <1>12, <1>13, <2>1, <2>4 DEF c, e, t
<1> QED
  BY <1>12, <1>14 DEF a, k, m

(* A position is where the frame f is, counted from the anchor.            *)
Placed(p, f, a) ==
  /\ p.beat <= BeatsPerBarInt(a.bpb)
  /\ Count(p, a.bpb) + p.tick = f * a.bpm - ((a.frame * a.bpm) % TicksPerBeat)

(* The frame the position was computed for: JACK has moved the frame when  *)
(* it calls JackTimebase.                                                  *)
PlacedFrame == IF beat.at = "timebase" /\ ~beat.new THEN frame - 1 ELSE frame

BeatType ==
  beat.at = "timebase" =>
    beat \in [at : {"timebase"}, bpm : Tempo, bpb : Meter, new : BOOLEAN]

PositionType ==
  /\ bpm \in Tempo /\ bpb \in Meter /\ frame \in Nat /\ drift \in BOOLEAN
  /\ pos \in Position
  /\ anchor \in [frame : Nat, bpm : Tempo, bpb : Meter]

PositionInv ==
  /\ PositionType /\ BeatType
  /\ wanted \in {"none", "start"} \/ (wanted = "stop" /\ locate # "none")
  /\ ~drift /\ anchor.bpb % TicksPerBeat = 0 /\ ~(beat.at = "timebase" /\ beat.new) =>
       Placed(pos, PlacedFrame, anchor)

LEMMA TempoTypes ==
  \A v \in Tempo, b \in Meter : v \in Nat \ {0} /\ b \in Nat \ {0}
  BY TransportAssumption

LEMMA AnchoredHere ==
  ASSUME NEW f \in Nat, NEW v \in Tempo, NEW b \in Meter, b % TicksPerBeat = 0
  PROVE  Placed(FromFrame(f, v, b), f, [frame |-> f, bpm |-> v, bpb |-> b])
<1>1. v \in Nat /\ b \in Nat \ {0}
  BY TempoTypes
<1> DEFINE p == FromFrame(f, v, b)
<1>2. /\ p.beat <= BeatsPerBarInt(b) /\ p.tick = 0 /\ p \in Position
      /\ Count(p, b) = f * v - ((f * v) % TicksPerBeat)
  BY <1>1, FromFramePlaced DEF FromFrame
<1>3. Count(p, b) \in Int
  BY <1>1, <1>2, TransportAssumption DEF Count, Position
<1> HIDE DEF p
<1>4. Count(p, b) + p.tick = f * v - ((f * v) % TicksPerBeat)
  BY <1>2, <1>3
<1> QED
  BY <1>2, <1>4 DEF Placed, p

LEMMA PositionInitHolds == TransportInit => PositionInv
<1> SUFFICES ASSUME TransportInit PROVE PositionInv
  OBVIOUS
<1>1. /\ bpm \in Tempo /\ bpb \in Meter /\ frame = 0 /\ drift = FALSE /\ beat.at = "idle"
      /\ pos = FromFrame(0, bpm, bpb) /\ anchor = [frame |-> 0, bpm |-> bpm, bpb |-> bpb]
      /\ wanted = "none"
  BY DEF TransportInit, Quiet
<1>2. pos \in Position
  BY <1>1, TempoTypes, FromFramePlaced
<1>3. anchor.bpb % TicksPerBeat = 0 => Placed(pos, 0, anchor)
  BY <1>1, AnchoredHere
<1>4. PlacedFrame = 0
  BY <1>1 DEF PlacedFrame
<1> QED
  BY <1>1, <1>2, <1>3, <1>4 DEF PositionInv, PositionType, BeatType

(* Steps that touch neither the frame nor the position.                    *)
LEMMA PositionUntouched ==
  ASSUME PositionInv, UNCHANGED <<frame, positionVars>>, bpm' \in Tempo, bpb' \in Meter,
         beat' = beat \/ (beat.at # "timebase" /\ beat'.at # "timebase"),
         wanted' \in {"none", "start"} \/ (wanted' = "stop" /\ locate' # "none")
  PROVE  PositionInv'
<1>1. PositionType'
  BY DEF PositionInv, PositionType, positionVars
<1>2. BeatType' /\ PlacedFrame' = PlacedFrame
  BY DEF PositionInv, BeatType, PlacedFrame
<1> QED
  BY <1>1, <1>2 DEF PositionInv, positionVars

LEMMA TimebaseBeginPlaced ==
  ASSUME PositionInv, TimebaseBegin
  PROVE  PositionInv'
<1> DEFINE to == CASE locate # "none"                                  -> locate
                   [] locate = "none" /\ transport /\ frame = FrameMax -> "zero"
                   [] OTHER                                            -> "none"
           rolls_on == transport /\ transport' /\ to = "none"
<1>1. /\ beat.at = "update" /\ wanted' = "none" /\ UNCHANGED <<bpm, bpb, positionVars>>
      /\ transport' = IF wanted = "none" THEN transport ELSE wanted = "start"
      /\ frame' = CASE to = "zero" -> 0
                    [] rolls_on    -> frame + 1
                    [] OTHER       -> frame
      /\ beat' = IF rolls_on \/ to # "none"
                 THEN [at |-> "timebase", bpm |-> bpm, bpb |-> bpb, new |-> to # "none"]
                 ELSE Quiet
  BY DEF TimebaseBegin, tempoVars
<1>2. frame \in Nat /\ PlacedFrame = frame /\ (wanted \in {"none", "start"} \/ (wanted = "stop" /\ locate # "none"))
  BY <1>1 DEF PositionInv, PositionType, PlacedFrame
<1>3. to = "none" => locate = "none"
  OBVIOUS
<1> HIDE DEF to
<1>4. frame' \in Nat
  BY <1>1, <1>2
<1>5. PositionType'
  BY <1>1, <1>4 DEF PositionInv, PositionType, positionVars
<1>6. BeatType'
  BY <1>1 DEF PositionInv, PositionType, BeatType, Quiet
<1>7. ASSUME ~(beat'.at = "timebase" /\ beat'.new)
      PROVE  PlacedFrame' = frame
  <2>1. to = "none"
    BY <1>1, <1>7
  <2>2. CASE rolls_on
    <3>1. frame' = frame + 1 /\ beat'.at = "timebase" /\ ~beat'.new
      BY <1>1, <2>1, <2>2
    <3> QED
      BY <1>2, <3>1 DEF PlacedFrame
  <2>3. CASE ~rolls_on
    <3>1. frame' = frame /\ beat' = Quiet
      BY <1>1, <2>1, <2>3
    <3> QED
      BY <3>1 DEF PlacedFrame, Quiet
  <2> QED
    BY <2>2, <2>3
<1> QED
  BY <1>1, <1>2, <1>5, <1>6, <1>7 DEF PositionInv, positionVars

LEMMA TimebaseEndPlaced ==
  ASSUME PositionInv, TimebaseEnd
  PROVE  PositionInv'
<1>1. /\ beat.at = "timebase" /\ beat'.at = "idle" /\ UNCHANGED <<frame, wanted, locate, bpm, bpb>>
  BY DEF TimebaseEnd, jackVars, Quiet
<1>2. /\ frame \in Nat /\ beat.bpm \in Tempo /\ beat.bpb \in Meter /\ pos \in Position
      /\ anchor \in [frame : Nat, bpm : Tempo, bpb : Meter] /\ drift \in BOOLEAN
  BY <1>1 DEF PositionInv, PositionType, BeatType
<1>3. beat.bpm \in Nat \ {0} /\ beat.bpb \in Nat \ {0}
  BY <1>2, TempoTypes
<1>4. PlacedFrame' = frame /\ BeatType'
  BY <1>1 DEF PlacedFrame, BeatType
<1>5. CASE beat.new \/ reset
  <2>1. /\ pos' = FromFrame(frame, beat.bpm, beat.bpb) /\ drift' = FALSE
        /\ anchor' = [frame |-> frame, bpm |-> beat.bpm, bpb |-> beat.bpb]
    BY <1>5 DEF TimebaseEnd
  <2>2. pos' \in Position
    BY <1>2, <1>3, <2>1, FromFramePlaced
  <2>3. anchor'.bpb % TicksPerBeat = 0 => Placed(pos', frame, anchor')
    BY <1>2, <2>1, AnchoredHere
  <2>4. PositionType'
    BY <1>1, <1>2, <2>1, <2>2 DEF PositionInv, PositionType
  <2> QED
    BY <1>1, <1>4, <2>3, <2>4 DEF PositionInv
<1>6. CASE ~(beat.new \/ reset)
  <2>1. /\ pos' = Advance(pos, beat.bpm, beat.bpb)
        /\ drift' = (drift \/ anchor.bpm # beat.bpm \/ anchor.bpb # beat.bpb)
        /\ anchor' = anchor
    BY <1>6 DEF TimebaseEnd
  <2>2. pos' \in Position
    BY <1>2, <1>3, <2>1, AdvancePlaced
  <2>3. PositionType'
    BY <1>1, <1>2, <2>1, <2>2 DEF PositionInv, PositionType
  <2>4. ASSUME ~drift', anchor.bpb % TicksPerBeat = 0 PROVE Placed(pos', frame, anchor)
    <3>1. ~drift /\ anchor.bpm = beat.bpm /\ anchor.bpb = beat.bpb
      BY <1>2, <2>1, <2>4
    <3>2. Placed(pos, PlacedFrame, anchor)
      BY <1>1, <1>6, <2>4, <3>1 DEF PositionInv
    <3> DEFINE b == beat.bpb
               v == beat.bpm
               q == Advance(pos, v, b)
               e == (anchor.frame * v) % TicksPerBeat
    <3>3. PlacedFrame = frame - 1
      BY <1>1, <1>6 DEF PlacedFrame
    <3>4. pos.beat <= BeatsPerBarInt(b) /\ Count(pos, b) + pos.tick = (frame - 1) * v - e
      BY <3>1, <3>2, <3>3 DEF Placed
    <3>5. q.beat <= BeatsPerBarInt(b) /\ Count(q, b) + q.tick = Count(pos, b) + pos.tick + v
      BY <1>2, <1>3, <2>4, <3>1, <3>4, AdvancePlaced
    <3>6. e \in Int /\ Count(pos, b) \in Int /\ pos.tick \in Int
      BY <1>2, <1>3, TransportAssumption DEF Count, Position
    <3>7. pos' = q
      BY <2>1
    <3> HIDE DEF e, q, b, v
    <3>8. v \in Nat
      BY <1>3 DEF v
    <3>9. (frame - 1) * v + v = frame * v
      BY <1>2, <3>8
    <3>10. Count(q, b) + q.tick = frame * v - e
      <4> DEFINE x == (frame - 1) * v
                 y == frame * v
                 c == Count(pos, b)
      <4>1. x \in Int /\ y \in Int
        BY <1>2, <3>8
      <4>2. Count(q, b) + q.tick = c + pos.tick + v /\ c + pos.tick = x - e /\ x + v = y /\ c \in Int
        BY <3>4, <3>5, <3>6, <3>9
      <4> HIDE DEF x, y, c
      <4> QED
        BY <3>6, <3>8, <4>1, <4>2 DEF y
    <3> QED
      BY <3>1, <3>5, <3>7, <3>10 DEF Placed, e, b, v
  <2> QED
    BY <1>1, <1>4, <2>1, <2>3, <2>4 DEF PositionInv
<1> QED
  BY <1>5, <1>6

LEMMA PositionKept ==
  ASSUME PositionInv, [TransportNext]_transportVars
  PROVE  PositionInv'
<1> DEFINE Silent == /\ UNCHANGED <<frame, positionVars>> /\ bpm' \in Tempo /\ bpb' \in Meter
                     /\ beat' = beat \/ (beat.at # "timebase" /\ beat'.at # "timebase")
                     /\ wanted' \in {"none", "start"} \/ (wanted' = "stop" /\ locate' # "none")
<1>1. bpm \in Tempo /\ bpb \in Meter /\ (wanted \in {"none", "start"} \/ (wanted = "stop" /\ locate # "none"))
  BY DEF PositionInv, PositionType
<1>2. CASE \/ \E t \in Thread : UpdateReport(t) \/ UpdateQueue(t)
           \/ SendReports \/ NoMidi \/ UNCHANGED transportVars
           \/ \E mode \in {"none", "midi"} : SyncMode(mode)
  <2>1. UNCHANGED <<jackVars, tempoVars, positionVars>>
    BY <1>2 DEF UpdateReport, UpdateQueue, SendReports, NoMidi, SyncMode, transportVars
  <2>2. beat' = beat \/ (beat.at # "timebase" /\ beat'.at # "timebase")
    <3>1. CASE NoMidi
      BY <3>1 DEF NoMidi, CycleUpdate, Quiet
    <3>2. CASE ~NoMidi
      BY <1>2, <3>2 DEF UpdateReport, UpdateQueue, SendReports, SyncMode, transportVars
    <3> QED
      BY <3>1, <3>2
  <2> QED
    BY <1>1, <2>1, <2>2, PositionUntouched DEF jackVars, tempoVars
<1>3. CASE MidiStart \/ MidiStop \/ \E v \in Tempo : MidiTick(v)
  <2>1. UNCHANGED <<frame, positionVars>>
    BY <1>3 DEF MidiStart, MidiStop, MidiTick, jackVars
  <2>2. bpm' \in Tempo /\ bpb' \in Meter
    BY <1>1, <1>3 DEF MidiStart, MidiStop, MidiTick, tempoVars
  <2>3. beat.at # "timebase" /\ beat'.at # "timebase"
    BY <1>3 DEF MidiStart, MidiStop, MidiTick, CycleUpdate, Quiet
  <2>4. wanted' \in {"none", "start"} \/ (wanted' = "stop" /\ locate' # "none")
    BY <1>1, <1>3 DEF MidiStart, MidiStop, MidiTick, Start, Stop, jackVars
  <2> QED
    BY <2>1, <2>2, <2>3, <2>4, PositionUntouched
<1>4. CASE \E on \in BOOLEAN : MidiRolling(on) \/ PortRolling(on)
  <2> Silent
    BY <1>1, <1>4 DEF MidiRolling, PortRolling, Roll, Start, Stop, CycleUpdate, OtherVars, Quiet
  <2> QED
    BY PositionUntouched
<1>5. CASE \/ \E v \in Tempo : SetBeatsPerMinute(v)
           \/ \E b \in Meter : SetBeatsPerBar(b)
           \/ \E v \in Tempo, b \in Meter :
                \/ MidiTempo(v, b) \/ PortTempo(v, b)
                \/ \E on \in BOOLEAN : SetTransport(on, v, b)
  <2>1. UNCHANGED <<frame, positionVars>> /\ bpm' \in Tempo /\ bpb' \in Meter
    BY <1>1, <1>5 DEF SetBeatsPerMinute, SetBeatsPerBar, MidiTempo, PortTempo, SetTransport,
       OtherVars, jackVars
  <2>2. beat' = beat \/ (beat.at # "timebase" /\ beat'.at # "timebase")
    <3>1. CASE \E v \in Tempo, b \in Meter : MidiTempo(v, b)
      BY <3>1 DEF MidiTempo, Quiet
    <3>2. CASE ~ \E v \in Tempo, b \in Meter : MidiTempo(v, b)
      <4> beat' = beat
        BY <1>5, <3>2 DEF SetBeatsPerMinute, SetBeatsPerBar, PortTempo, SetTransport, OtherVars
      <4> QED
        OBVIOUS
    <3> QED
      BY <3>1, <3>2
  <2>3. wanted' = wanted /\ locate' = locate
    BY <1>5 DEF SetBeatsPerMinute, SetBeatsPerBar, MidiTempo, PortTempo, SetTransport, jackVars
  <2> QED
    BY <1>1, <2>1, <2>2, <2>3, PositionUntouched
<1>6. CASE SetTempoRest \/ SetTransportRest \/ CommandDone
  <2>1. UNCHANGED <<frame, positionVars, beat, bpm, bpb>>
    BY <1>6 DEF SetTempoRest, SetTransportRest, CommandDone, OtherVars, jackVars, tempoVars
  <2>2. wanted' \in {"none", "start"} \/ (wanted' = "stop" /\ locate' # "none")
    <3>1. CASE SetTempoRest
      BY <1>1, <3>1 DEF SetTempoRest, Trigger
    <3>2. CASE SetTransportRest
      BY <1>1, <3>2 DEF SetTransportRest
    <3>3. CASE CommandDone
      BY <1>1, <3>3 DEF CommandDone, jackVars
    <3> QED
      BY <1>6, <3>1, <3>2, <3>3
  <2> QED
    BY <1>1, <2>1, <2>2, PositionUntouched
<1> QED
  BY <1>2, <1>3, <1>4, <1>5, <1>6, TimebaseBeginPlaced, TimebaseEndPlaced DEF TransportNext

(* The position that the clients are given is the one of their frame, for  *)
(* every tempo and meter, however long the transport rolls.                *)
THEOREM PositionIsOfFrame == TransportSpec => []PositionAgrees
<1>1. PositionInv => PositionAgrees
  <2> SUFFICES ASSUME PositionInv PROVE PositionAgrees
    OBVIOUS
  <2>1. pos.beat \in Nat \ {0} /\ pos.tick \in 0..(TicksPerBeat - 1)
    BY DEF PositionInv, PositionType, Position
  <2>2. beat.at # "timebase" => PlacedFrame = frame
    BY DEF PlacedFrame
  <2> QED
    BY <2>1, <2>2 DEF PositionInv, PositionAgrees, Placed, Count
<1>2. PositionInv /\ [TransportNext]_transportVars => PositionInv'
  BY PositionKept
<1> QED
  BY <1>1, <1>2, PositionInitHolds, PTL DEF TransportSpec

-----------------------------------------------------------------------------
(* The rings of the properties.                                            *)

RingsSpec == RingsInit /\ [][RingsNext]_ringVars

(* The values that are in the ring, or were begun.                         *)
Kept == written - Len(sent)

InUnit == [part : {"head", "body"}, of : {"in"}]

(* A write that has begun has room, and an event is queued for what was    *)
(* written.                                                                *)
RoomInv ==
  /\ RingsTypeOK
  /\ writing # "idle" => written > 0
  /\ writing = "atom" => Len(out_ring) + 2 <= RingRoom
  /\ pending + (IF writing = "idle" THEN 0 ELSE 1) <= written
  /\ in_ring \in Seq(InUnit)

(* The ring holds the values that are not sent yet, in order; of the last  *)
(* one only the key while its atom is still to be written.                 *)
OrderInv ==
  ~split =>
    /\ sent = [i \in 1..Len(sent) |-> i] /\ Len(sent) <= written
    /\ Len(out_ring) = 3 * Kept - (IF writing = "atom" THEN 2 ELSE 0)
    /\ \A i \in 0..(Kept - 1) : out_ring[3 * i + 1].of = Len(sent) + i + 1

ReadInv ==
  writing = "idle" /\ out_ring # <<>> /\ ~stranded /\ ~split =>
    pending > 0 \/ reading.at = "batch" \/ reading.left >= Len(out_ring)

WholeInv ==
  ~cut => /\ Len(in_ring) % 2 = 0
          /\ \A i \in 1..Len(in_ring) :
               in_ring[i] = [part |-> IF i % 2 = 1 THEN "head" ELSE "body", of |-> "in"]

(* What the concatenation and a suffix of sequences are made of.           *)
LEMMA Joined ==
  ASSUME NEW S, NEW s \in Seq(S), NEW t \in Seq(S)
  PROVE  /\ s \o t \in Seq(S) /\ Len(s \o t) = Len(s) + Len(t)
         /\ \A i \in 1..Len(s) : (s \o t)[i] = s[i]
         /\ \A i \in 1..Len(t) : (s \o t)[Len(s) + i] = t[i]
<1>1. Len(s) \in Nat /\ Len(t) \in Nat
  OBVIOUS
<1>2. s \o t \in Seq(S) /\ Len(s \o t) = Len(s) + Len(t)
  BY ConcatProperties
<1>3. \A i \in 1..(Len(s) + Len(t)) :
        (s \o t)[i] = IF i <= Len(s) THEN s[i] ELSE t[i - Len(s)]
  BY ConcatProperties
<1>4. ASSUME NEW i \in 1..Len(t) PROVE (s \o t)[Len(s) + i] = t[i]
  <2>1. Len(s) + i \in 1..(Len(s) + Len(t)) /\ ~(Len(s) + i <= Len(s)) /\ Len(s) + i - Len(s) = i
    BY <1>1
  <2> QED
    BY <1>3, <2>1
<1>5. ASSUME NEW i \in 1..Len(s) PROVE (s \o t)[i] = s[i]
  BY <1>1, <1>3
<1> QED
  BY <1>2, <1>4, <1>5

LEMMA Suffix ==
  ASSUME NEW S, NEW s \in Seq(S), NEW k \in Nat, k <= Len(s), NEW m, m = k + 1
  PROVE  /\ SubSeq(s, m, Len(s)) \in Seq(S)
         /\ Len(SubSeq(s, m, Len(s))) = Len(s) - k
         /\ \A i \in 1..(Len(s) - k) : SubSeq(s, m, Len(s))[i] = s[k + i]
<1>1. Len(s) \in Nat /\ \A i \in (k + 1)..Len(s) : s[i] \in S
  OBVIOUS
<1> DEFINE L == Len(s)
<1>2. L \in Nat /\ L = Len(s)
  BY <1>1
<1> HIDE DEF L
<1>3. \A i \in (k + 1)..L : s[i] \in S
  BY <1>1, <1>2
<1>4. /\ SubSeq(s, k + 1, L) \in Seq(S)
      /\ Len(SubSeq(s, k + 1, L)) = IF k + 1 <= L THEN L - (k + 1) + 1 ELSE 0
      /\ \A i \in 1..(L - (k + 1) + 1) : SubSeq(s, k + 1, L)[i] = s[k + 1 + i - 1]
  BY <1>2, <1>3, SubSeqProperties
<1>5. Len(SubSeq(s, k + 1, L)) = L - k
  BY <1>2, <1>4
<1>6. ASSUME NEW i \in 1..(L - k) PROVE SubSeq(s, k + 1, L)[i] = s[k + i]
  <2>1. i \in 1..(L - (k + 1) + 1) /\ k + 1 + i - 1 = k + i
    BY <1>2
  <2> QED
    BY <1>4, <2>1
<1> QED
  BY <1>2, <1>4, <1>5, <1>6

LEMMA RingsInitHolds == RingsInit => RoomInv /\ OrderInv /\ ReadInv /\ WholeInv
<1> SUFFICES ASSUME RingsInit PROVE RoomInv /\ OrderInv /\ ReadInv /\ WholeInv
  OBVIOUS
<1>1. RoomInv
  <2>1. reading \in [at : {"idle", "batch"}, left : {0}]
    BY DEF RingsInit, Reader
  <2>2. /\ out_ring = <<>> /\ written = 0 /\ writing = "idle" /\ pending = 0 /\ sent = <<>>
        /\ stranded = FALSE /\ split = FALSE /\ in_ring = <<>> /\ in_left = 0 /\ hangs = FALSE
        /\ cut = FALSE
    BY DEF RingsInit
  <2>3. out_ring \in Seq(Unit) /\ sent \in Seq(1..ValueMax) /\ Len(out_ring) = 0 /\ Len(in_ring) = 0
    BY <2>2
  <2>4. RingsTypeOK
    <3>1. reading \in [at : {"idle", "batch"}, left : {0}] \union [at : {"ring"}, left : Int]
      BY <2>1
    <3>2. writing \in {"idle", "atom", "event"} /\ {stranded, split, hangs, cut} \subseteq BOOLEAN
      BY <2>2
    <3>3. /\ 0 \in Nat /\ Len(out_ring) <= RingRoom /\ Len(in_ring) <= RingRoom
          /\ {written, pending} \subseteq 0..ValueMax /\ in_left \in 0..RingRoom
      BY <2>2, <2>3, PropertyRingsAssumption
    <3> QED
      BY <2>3, <3>1, <3>2, <3>3 DEF RingsTypeOK
  <2> QED
    BY <2>2, <2>4 DEF RoomInv
<1>2. OrderInv
  BY DEF RingsInit, OrderInv, Kept
<1>3. ReadInv /\ WholeInv
  BY DEF RingsInit, ReadInv, WholeInv
<1> QED
  BY <1>1, <1>2, <1>3

-----------------------------------------------------------------------------
(* events_out_buffer.                                                      *)

OutInv == RoomInv /\ OrderInv /\ ReadInv

LEMMA OutUntouched ==
  ASSUME OutInv, UNCHANGED outVars,
         Len(in_ring') <= RingRoom, in_left' \in 0..RingRoom,
         hangs' \in BOOLEAN, cut' \in BOOLEAN, in_ring' \in Seq(InUnit)
  PROVE  OutInv'
<1>1. RingsTypeOK'
  BY DEF OutInv, RoomInv, RingsTypeOK, outVars
<1>2. RoomInv'
  BY <1>1 DEF OutInv, RoomInv, outVars
<1>3. OrderInv' /\ ReadInv'
  BY DEF OutInv, OrderInv, ReadInv, Kept, outVars
<1> QED
  BY <1>2, <1>3 DEF OutInv

LEMMA WriteKeyKeeps ==
  ASSUME OutInv, WriteKey
  PROVE  OutInv'
<1> DEFINE new == Key(written + 1)
           L == Len(out_ring)
<1>1. /\ writing = "idle" /\ written < ValueMax /\ L + 3 <= RingRoom
      /\ written' = written + 1 /\ writing' = "atom" /\ out_ring' = Append(out_ring, new)
      /\ UNCHANGED <<pending, reading, sent, stranded, split, in_ring, in_left, hangs, cut>>
  BY DEF WriteKey, inVars
<1>2. /\ out_ring \in Seq(Unit) /\ written \in 0..ValueMax /\ RingRoom \in Nat /\ ValueMax \in Nat
      /\ pending <= written /\ pending \in 0..ValueMax
  BY <1>1, PropertyRingsAssumption DEF OutInv, RoomInv, RingsTypeOK
<1>3. L \in Nat
  BY <1>2
<1>4. new \in Unit
  BY <1>1, <1>2 DEF Key, Unit
<1>5. /\ out_ring' \in Seq(Unit) /\ Len(out_ring') = L + 1 /\ out_ring'[L + 1] = new
      /\ \A i \in 1..L : out_ring'[i] = out_ring[i]
  <2> HIDE DEF new
  <2> QED
    BY <1>1, <1>2, <1>4
<1>6. RoomInv'
  <2>1. RingsTypeOK'
    BY <1>1, <1>2, <1>3, <1>5 DEF OutInv, RoomInv, RingsTypeOK
  <2> QED
    BY <1>1, <1>2, <1>3, <1>5, <2>1 DEF OutInv, RoomInv
<1>7. OrderInv'
  <2> SUFFICES ASSUME ~split PROVE OrderInv'
    BY <1>1 DEF OrderInv
  <2>1. /\ sent = [i \in 1..Len(sent) |-> i] /\ Len(sent) <= written /\ L = 3 * Kept
        /\ \A i \in 0..(Kept - 1) : out_ring[3 * i + 1].of = Len(sent) + i + 1
    BY <1>1, <1>2, <1>3 DEF OutInv, OrderInv, Kept
  <2>2. Len(sent) \in Nat /\ Kept \in Nat /\ Kept' = Kept + 1
    BY <1>1, <1>2, <2>1 DEF OutInv, RoomInv, RingsTypeOK, Kept
  <2>3. ASSUME NEW i \in 0..(Kept' - 1)
        PROVE  out_ring'[3 * i + 1].of = Len(sent) + i + 1
    <3>1. CASE i = Kept
      <4>1. out_ring'[3 * i + 1] = new
        BY <1>5, <2>1, <2>2, <3>1
      <4>2. new.of = written + 1 /\ written = Len(sent) + Kept
        BY <1>2, <2>2 DEF Key, Kept
      <4> QED
        BY <1>2, <2>2, <3>1, <4>1, <4>2
    <3>2. CASE i # Kept
      <4>1. i \in 0..(Kept - 1) /\ 3 * i + 1 \in 1..L
        BY <2>1, <2>2, <2>3, <3>2
      <4> QED
        BY <1>5, <2>1, <4>1
    <3> QED
      BY <3>1, <3>2
  <2>4. Len(out_ring') = 3 * Kept' - 2
    BY <1>3, <1>5, <2>1, <2>2
  <2>5. sent' = sent /\ Len(sent) <= written'
    BY <1>1, <1>2, <2>1, <2>2
  <2>6. writing' = "atom"
    BY <1>1
  <2> QED
    BY <2>1, <2>3, <2>4, <2>5, <2>6 DEF OrderInv
<1>8. ReadInv'
  BY <1>1 DEF ReadInv
<1> QED
  BY <1>6, <1>7, <1>8 DEF OutInv

LEMMA WriteAtomKeeps ==
  ASSUME OutInv, WriteAtom
  PROVE  OutInv'
<1> DEFINE new == Atom(written)
           L == Len(out_ring)
<1>1. /\ writing = "atom" /\ writing' = "event" /\ out_ring' = out_ring \o new
      /\ UNCHANGED <<written, pending, reading, sent, stranded, split, in_ring, in_left, hangs, cut>>
  BY DEF WriteAtom, inVars
<1>2. /\ out_ring \in Seq(Unit) /\ written \in 1..ValueMax /\ RingRoom \in Nat
      /\ L + 2 <= RingRoom
  BY <1>1, PropertyRingsAssumption DEF OutInv, RoomInv, RingsTypeOK
<1>3. L \in Nat
  BY <1>2
<1>4. new \in Seq(Unit) /\ Len(new) = 2
  BY <1>2 DEF Atom, Unit
<1>5. /\ out_ring' \in Seq(Unit) /\ Len(out_ring') = L + 2
      /\ \A i \in 1..L : out_ring'[i] = out_ring[i]
  <2> HIDE DEF new
  <2>1. out_ring \o new \in Seq(Unit)
    BY <1>2, <1>4
  <2>2. Len(out_ring \o new) = L + 2
    <3>1. Len(out_ring \o new) = Len(out_ring) + Len(new)
      BY <1>2, <1>4, Joined
    <3> QED
      BY <1>4, <3>1
  <2>3. \A i \in 1..L : (out_ring \o new)[i] = out_ring[i]
    BY <1>2, <1>3, <1>4
  <2> QED
    BY <1>1, <2>1, <2>2, <2>3
<1>6. RoomInv'
  <2>1. RingsTypeOK'
    BY <1>1, <1>2, <1>3, <1>5 DEF OutInv, RoomInv, RingsTypeOK
  <2> QED
    BY <1>1, <1>2, <1>3, <1>5, <2>1 DEF OutInv, RoomInv
<1>7. OrderInv'
  <2> SUFFICES ASSUME ~split PROVE OrderInv'
    BY <1>1 DEF OrderInv
  <2>1. /\ sent = [i \in 1..Len(sent) |-> i] /\ Len(sent) <= written /\ L = 3 * Kept - 2
        /\ \A i \in 0..(Kept - 1) : out_ring[3 * i + 1].of = Len(sent) + i + 1
    BY <1>1 DEF OutInv, OrderInv
  <2>2. Len(sent) \in Nat /\ Kept \in Nat /\ Kept' = Kept
    BY <1>1, <1>2, <2>1 DEF OutInv, RoomInv, RingsTypeOK, Kept
  <2>3. ASSUME NEW i \in 0..(Kept - 1)
        PROVE  out_ring'[3 * i + 1].of = Len(sent) + i + 1
    <3>1. 3 * i + 1 \in 1..L
      BY <2>1, <2>2
    <3> QED
      BY <1>5, <2>1, <3>1
  <2> QED
    BY <1>1, <1>3, <1>5, <2>1, <2>2, <2>3 DEF OrderInv
<1>8. ReadInv'
  BY <1>1 DEF ReadInv
<1> QED
  BY <1>6, <1>7, <1>8 DEF OutInv

(* The reader takes the events, looks, or is done; the writer queues one.  *)
LEMMA EventsKeep ==
  ASSUME OutInv,
         DropValue \/ QueueOutput \/ TakeOutputs \/ FlushOutputs \/ ReadSpace \/ ReadDone
  PROVE  OutInv'
<1>0. /\ UNCHANGED <<out_ring, written, sent, split, in_ring, in_left, hangs, cut>>
      /\ writing = "atom" <=> writing' = "atom"
  BY DEF DropValue, QueueOutput, TakeOutputs, FlushOutputs, ReadSpace, ReadDone, ringVars, outVars,
     inVars
<1>1. OrderInv'
  BY <1>0 DEF OutInv, OrderInv, Kept
<1>2. /\ out_ring \in Seq(Unit) /\ written \in 0..ValueMax /\ ValueMax \in Nat /\ pending \in 0..ValueMax
      /\ pending + (IF writing = "idle" THEN 0 ELSE 1) <= written
      /\ writing # "idle" => written > 0
  BY PropertyRingsAssumption DEF OutInv, RoomInv, RingsTypeOK
<1>3. Len(out_ring) \in Nat
  BY <1>2
<1>4. CASE DropValue
  <2>1. UNCHANGED outVars
    BY <1>4 DEF DropValue, ringVars
  <2> QED
    BY <1>0, <2>1, OutUntouched DEF OutInv, RoomInv, RingsTypeOK
<1>5. CASE QueueOutput
  <2>1. /\ writing = "event" /\ writing' = "idle" /\ UNCHANGED reading
        /\ \/ pending' = pending + 1 /\ UNCHANGED stranded
           \/ stranded' = (stranded \/ out_ring # <<>>) /\ UNCHANGED pending
    BY <1>5 DEF QueueOutput
  <2>2. pending' \in 0..ValueMax /\ pending' <= written
    BY <1>2, <2>1
  <2>3. stranded' \in BOOLEAN
    BY <2>1 DEF OutInv, RoomInv, RingsTypeOK
  <2>4. RoomInv'
    <3>1. RingsTypeOK'
      BY <1>0, <2>1, <2>2, <2>3 DEF OutInv, RoomInv, RingsTypeOK
    <3>2. pending' + (IF writing' = "idle" THEN 0 ELSE 1) <= written'
      BY <1>0, <2>1, <2>2
    <3> QED
      BY <1>0, <2>1, <3>1, <3>2 DEF OutInv, RoomInv
  <2>5. ReadInv'
    <3>1. out_ring # <<>> => pending' > 0 \/ stranded'
      <4>1. CASE pending' = pending + 1
        BY <1>2, <4>1
      <4>2. CASE stranded' = (stranded \/ out_ring # <<>>)
        BY <4>2
      <4> QED
        BY <2>1, <4>1, <4>2
    <3> QED
      BY <1>0, <3>1 DEF ReadInv
  <2> QED
    BY <1>1, <2>4, <2>5 DEF OutInv
<1>6. CASE TakeOutputs \/ FlushOutputs
  <2>1. /\ pending' = 0 /\ UNCHANGED writing
        /\ \/ reading' = Reader("batch") /\ UNCHANGED stranded
           \/ stranded' = (stranded \/ out_ring # <<>>) /\ UNCHANGED reading
    BY <1>6 DEF TakeOutputs, FlushOutputs
  <2>2. pending' \in 0..ValueMax /\ pending' + (IF writing = "idle" THEN 0 ELSE 1) <= written
    BY <1>2, <2>1
  <2>3. stranded' \in BOOLEAN
    BY <2>1 DEF OutInv, RoomInv, RingsTypeOK
  <2>4. reading' \in [at : {"idle", "batch"}, left : {0}] \union [at : {"ring"}, left : Int]
    BY <2>1 DEF OutInv, RoomInv, RingsTypeOK, Reader
  <2>5. RoomInv'
    <3>1. RingsTypeOK'
      BY <1>0, <2>1, <2>2, <2>3, <2>4 DEF OutInv, RoomInv, RingsTypeOK
    <3> QED
      BY <1>0, <2>1, <2>2, <3>1 DEF OutInv, RoomInv
  <2>6. ReadInv'
    <3>1. CASE reading' = Reader("batch")
      BY <3>1 DEF ReadInv, Reader
    <3>2. CASE stranded' = (stranded \/ out_ring # <<>>)
      BY <1>0, <3>2 DEF ReadInv
    <3> QED
      BY <2>1, <3>1, <3>2
  <2> QED
    BY <1>1, <2>5, <2>6 DEF OutInv
<1>7. CASE ReadSpace \/ ReadDone
  <2>1. /\ UNCHANGED <<writing, pending, stranded>>
        /\ \/ reading' = [at |-> "ring", left |-> Len(out_ring)]
           \/ reading.at = "ring" /\ reading.left <= 0 /\ reading' = Reader("idle")
    BY <1>7 DEF ReadSpace, ReadDone
  <2>2. reading' \in [at : {"idle", "batch"}, left : {0}] \union [at : {"ring"}, left : Int]
    BY <1>3, <2>1 DEF Reader
  <2>3. RoomInv'
    BY <1>0, <2>1, <2>2 DEF OutInv, RoomInv, RingsTypeOK
  <2>4. ReadInv'
    <3>1. CASE reading' = [at |-> "ring", left |-> Len(out_ring)]
      BY <1>0, <1>3, <3>1 DEF ReadInv
    <3>2. CASE reading.at = "ring" /\ reading.left <= 0
      <4>1. out_ring # <<>> => Len(out_ring) > 0
        BY <1>2, <1>3
      <4>2. reading.left \in Int
        BY <3>2 DEF OutInv, RoomInv, RingsTypeOK
      <4> QED
        BY <1>0, <1>3, <2>1, <3>2, <4>1, <4>2 DEF OutInv, ReadInv
    <3> QED
      BY <2>1, <3>1, <3>2
  <2> QED
    BY <1>1, <2>3, <2>4 DEF OutInv
<1> QED
  BY <1>4, <1>5, <1>6, <1>7

(* One value is read, or what is there of it.                              *)
LEMMA ReadValueKeeps ==
  ASSUME OutInv, ReadValue
  PROVE  OutInv'
<1> DEFINE L == Len(out_ring)
           rest == SubSeq(out_ring, 4, L)
           new == Append(sent, out_ring[1].of)
<1>1. /\ reading.at = "ring" /\ reading.left > 0
      /\ reading' = [reading EXCEPT !.left = reading.left - 3]
      /\ stranded' = (stranded /\ out_ring' # <<>>)
      /\ UNCHANGED <<written, writing, pending, in_ring, in_left, hangs, cut>>
      /\ IF L >= 3 THEN sent' = new /\ out_ring' = rest /\ UNCHANGED split
         ELSE out_ring' = <<>> /\ split' = TRUE /\ UNCHANGED sent
  BY DEF ReadValue, inVars
<1>2. /\ out_ring \in Seq(Unit) /\ sent \in Seq(1..ValueMax) /\ L \in Nat /\ L <= RingRoom
      /\ written \in 0..ValueMax /\ ValueMax \in Nat /\ RingRoom \in Nat
  BY PropertyRingsAssumption DEF OutInv, RoomInv, RingsTypeOK
<1>3. reading.left \in Int /\ reading' = [at |-> "ring", left |-> reading.left - 3]
  BY <1>1 DEF OutInv, RoomInv, RingsTypeOK
<1>4. reading' \in [at : {"idle", "batch"}, left : {0}] \union [at : {"ring"}, left : Int]
  BY <1>3
<1>5. stranded' \in BOOLEAN /\ (stranded => stranded' \/ out_ring' = <<>>)
  BY <1>1 DEF OutInv, RoomInv, RingsTypeOK
<1>6. CASE L < 3
  <2>1. out_ring' = <<>> /\ split' = TRUE /\ sent' = sent
    BY <1>1, <1>2, <1>6
  <2>2. out_ring' \in Seq(Unit) /\ Len(out_ring') = 0
    BY <2>1
  <2>3. RingsTypeOK'
    BY <1>1, <1>2, <1>4, <1>5, <2>1, <2>2 DEF OutInv, RoomInv, RingsTypeOK
  <2>4. writing = "atom" => Len(out_ring') + 2 <= RingRoom
    BY <1>2, <2>2 DEF OutInv, RoomInv
  <2>5. RoomInv'
    BY <1>1, <2>3, <2>4 DEF OutInv, RoomInv
  <2> QED
    BY <2>1, <2>5 DEF OutInv, OrderInv, ReadInv
<1>7. CASE L >= 3
  <2>1. sent' = new /\ out_ring' = rest /\ split' = split
    BY <1>1, <1>7
  <2>2. out_ring[1].of \in 1..ValueMax
    <3>1. out_ring[1] \in Unit
      BY <1>2, <1>7
    <3> QED
      BY <3>1 DEF Unit
  <2> DEFINE v == out_ring[1].of
  <2> HIDE DEF v
  <2>3. /\ new \in Seq(1..ValueMax) /\ Len(new) = Len(sent) + 1 /\ new[Len(sent) + 1] = v
        /\ \A i \in 1..Len(sent) : new[i] = sent[i]
    BY <1>2, <2>2 DEF v
  <2>0. 3 \in Nat /\ 3 <= Len(out_ring) /\ 4 = 3 + 1
    BY <1>7
  <2>4. /\ rest \in Seq(Unit) /\ Len(rest) = L - 3
        /\ \A i \in 1..(L - 3) : rest[i] = out_ring[3 + i]
    <3> DEFINE k == 3
               m == 4
    <3>1. k \in Nat /\ k <= Len(out_ring) /\ m = k + 1 /\ out_ring \in Seq(Unit)
      BY <1>2, <2>0
    <3> HIDE DEF k, m
    <3>2. /\ SubSeq(out_ring, m, Len(out_ring)) \in Seq(Unit)
          /\ Len(SubSeq(out_ring, m, Len(out_ring))) = Len(out_ring) - k
          /\ \A i \in 1..(Len(out_ring) - k) : SubSeq(out_ring, m, Len(out_ring))[i] = out_ring[k + i]
      BY <3>1, Suffix
    <3> QED
      BY <3>2 DEF k, m
  <2> HIDE DEF new, rest
  <2>7. RingsTypeOK'
    BY <1>1, <1>2, <1>4, <1>5, <2>1, <2>3, <2>4 DEF OutInv, RoomInv, RingsTypeOK
  <2>8. writing = "atom" => Len(out_ring') + 2 <= RingRoom
    BY <1>2, <2>1, <2>4 DEF OutInv, RoomInv
  <2>9. RoomInv'
    BY <1>1, <2>7, <2>8 DEF OutInv, RoomInv
  <2>10. OrderInv'
    <3> SUFFICES ASSUME ~split PROVE OrderInv'
      BY <2>1 DEF OrderInv
    <3> DEFINE n == Len(sent)
               less == IF writing = "atom" THEN 2 ELSE 0
    <3>1. /\ sent = [i \in 1..n |-> i] /\ n <= written /\ L = 3 * Kept - less
          /\ \A i \in 0..(Kept - 1) : out_ring[3 * i + 1].of = n + i + 1
      BY DEF OutInv, OrderInv
    <3>2. n \in Nat /\ Kept \in Nat /\ less \in {0, 2} /\ Kept = written - n
      BY <1>2, <3>1 DEF Kept
    <3>3. Kept >= 1
      BY <1>2, <1>7, <3>1, <3>2
    <3>4. Len(new) = n + 1 /\ Kept' = Kept - 1
      BY <1>1, <1>2, <2>1, <2>3, <3>2 DEF Kept
    <3> HIDE DEF less
    <3>5. v = n + 1
      <4>1. 0 \in 0..(Kept - 1) /\ 3 * 0 + 1 = 1 /\ n + 0 + 1 = n + 1
        BY <3>2, <3>3
      <4> QED
        BY <3>1, <4>1 DEF v
    <3> HIDE DEF n
    <3>6. new = [i \in 1..(n + 1) |-> i]
      <4>1. \A i \in 1..(n + 1) : new[i] = i
        <5> TAKE i \in 1..(n + 1)
        <5>1. CASE i = n + 1
          BY <2>3, <3>5, <5>1 DEF n
        <5>2. CASE i \in 1..n
          <6>1. new[i] = sent[i]
            BY <2>3, <5>2 DEF n
          <6> QED
            BY <3>1, <5>2, <6>1
        <5> QED
          BY <3>2, <5>1, <5>2
      <4>2. new = [i \in 1..(n + 1) |-> new[i]]
        BY <2>3, <3>4
      <4> QED
        BY <4>1, <4>2
    <3>7. Len(rest) = 3 * (Kept - 1) - less
      BY <1>2, <2>4, <3>1, <3>2
    <3>8. ASSUME NEW i \in 0..(Kept - 1 - 1)
          PROVE  rest[3 * i + 1].of = n + 1 + i + 1
      <4>0. i \in Nat /\ i <= Kept - 2
        BY <3>2, <3>8
      <4>1. 3 * i + 1 \in 1..(L - 3) /\ i + 1 \in 0..(Kept - 1)
        <5>1. L = 3 * Kept - less /\ less \in {0, 2} /\ Kept \in Nat
          BY <3>1, <3>2
        <5> HIDE DEF L
        <5>2. i + 1 \in 0..(Kept - 1)
          BY <4>0, <5>1
        <5>3. 3 * i + 1 <= L - 3
          BY <4>0, <5>1
        <5> QED
          BY <4>0, <5>1, <5>2, <5>3
      <4>2. rest[3 * i + 1] = out_ring[3 * (i + 1) + 1]
        <5>1. 3 + (3 * i + 1) = 3 * (i + 1) + 1
          BY <3>8
        <5> QED
          BY <2>4, <4>1, <5>1
      <4>3. out_ring[3 * (i + 1) + 1].of = n + (i + 1) + 1
        BY <3>1, <4>1
      <4> QED
        BY <3>2, <3>8, <4>2, <4>3
    <3>9. n + 1 <= written
      BY <1>2, <3>2, <3>3
    <3>10. writing' = writing /\ written' = written
      BY <1>1
    <3> QED
      BY <2>1, <3>4, <3>6, <3>7, <3>8, <3>9, <3>10 DEF OrderInv, less
  <2>11. ReadInv'
    <3> SUFFICES ASSUME writing = "idle", rest # <<>>, ~stranded', ~split
                 PROVE  pending > 0 \/ reading.left - 3 >= L - 3
      BY <1>1, <1>3, <2>1, <2>4 DEF ReadInv
    <3>1. ~stranded /\ out_ring # <<>>
      BY <1>2, <1>5, <1>7, <2>1
    <3>2. pending > 0 \/ reading.left >= L
      BY <1>1, <3>1 DEF OutInv, ReadInv
    <3> QED
      BY <1>2, <1>3, <3>2
  <2> QED
    BY <2>9, <2>10, <2>11 DEF OutInv
<1> QED
  BY <1>2, <1>6, <1>7

-----------------------------------------------------------------------------
(* events_in_buffer.                                                       *)

LEMMA AppendAtom ==
  ASSUME RoomInv
  PROVE  LET both == in_ring \o Atom("in") IN
           /\ both \in Seq(InUnit) /\ Len(both) = Len(in_ring) + 2 /\ Len(in_ring) \in Nat
           /\ \A i \in 1..Len(in_ring) : both[i] = in_ring[i]
           /\ both[Len(in_ring) + 1] = [part |-> "head", of |-> "in"]
           /\ both[Len(in_ring) + 2] = [part |-> "body", of |-> "in"]
<1> DEFINE new == Atom("in")
<1>1. new \in Seq(InUnit) /\ Len(new) = 2
  BY DEF Atom, InUnit
<1>2. new[1] = [part |-> "head", of |-> "in"] /\ new[2] = [part |-> "body", of |-> "in"]
  BY DEF Atom
<1>3. in_ring \in Seq(InUnit) /\ Len(in_ring) \in Nat
  BY DEF RoomInv
<1> HIDE DEF new
<1>4. /\ in_ring \o new \in Seq(InUnit) /\ Len(in_ring \o new) = Len(in_ring) + Len(new)
      /\ \A i \in 1..Len(in_ring) : (in_ring \o new)[i] = in_ring[i]
      /\ \A i \in 1..Len(new) : (in_ring \o new)[Len(in_ring) + i] = new[i]
  BY <1>1, <1>3, Joined
<1>5. /\ (in_ring \o new)[Len(in_ring) + 1] = [part |-> "head", of |-> "in"]
      /\ (in_ring \o new)[Len(in_ring) + 2] = [part |-> "body", of |-> "in"]
  BY <1>1, <1>2, <1>4
<1> QED
  BY <1>1, <1>3, <1>4, <1>5 DEF new

LEMMA WriteKeeps ==
  ASSUME OutInv, WholeInv, WriteProperty
  PROVE  OutInv' /\ WholeInv'
<1> DEFINE both == in_ring \o Atom("in")
           L == Len(in_ring)
<1>1. L + 2 <= RingRoom /\ in_ring' = both /\ UNCHANGED <<in_left, hangs, cut>> /\ UNCHANGED outVars
  BY DEF WriteProperty
<1>2. /\ both \in Seq(InUnit) /\ Len(both) = L + 2 /\ L \in Nat
      /\ \A i \in 1..L : both[i] = in_ring[i]
      /\ both[L + 1] = [part |-> "head", of |-> "in"]
      /\ both[L + 2] = [part |-> "body", of |-> "in"]
  BY AppendAtom DEF OutInv
<1> HIDE DEF both
<1>3. OutInv'
  BY <1>1, <1>2, OutUntouched DEF OutInv, RoomInv, RingsTypeOK
<1>4. WholeInv'
  <2> SUFFICES ASSUME ~cut PROVE WholeInv'
    BY <1>1 DEF WholeInv
  <2>1. /\ L % 2 = 0
        /\ \A i \in 1..L :
             in_ring[i] = [part |-> IF i % 2 = 1 THEN "head" ELSE "body", of |-> "in"]
    BY DEF WholeInv
  <2>2. (L + 2) % 2 = 0 /\ (L + 1) % 2 = 1
    BY <1>2, <2>1
  <2>3. ASSUME NEW i \in 1..(L + 2)
        PROVE  both[i] = [part |-> IF i % 2 = 1 THEN "head" ELSE "body", of |-> "in"]
    <3>1. CASE i \in 1..L
      BY <1>2, <2>1, <3>1
    <3>2. CASE i = L + 1
      BY <1>2, <2>2, <3>2
    <3>3. CASE i = L + 2
      BY <1>2, <2>2, <3>3
    <3> QED
      BY <1>2, <3>1, <3>2, <3>3
  <2> QED
    BY <1>1, <1>2, <2>2, <2>3 DEF WholeInv
<1> QED
  BY <1>3, <1>4

(* A patch_get writes the atom whole where there is room for it.           *)
LEMMA GetKeeps ==
  ASSUME OutInv, WholeInv, GetProperty
  PROVE  OutInv' /\ WholeInv'
<1> DEFINE both == in_ring \o Atom("in")
           L == Len(in_ring)
<1>1. /\ ~hangs /\ in_ring' = CutOff(both) /\ cut' = (cut \/ L + 2 > RingRoom)
      /\ UNCHANGED <<in_left, hangs>> /\ UNCHANGED outVars
  BY DEF GetProperty
<1>2. both \in Seq(InUnit) /\ Len(both) = L + 2 /\ L \in Nat
  BY AppendAtom DEF OutInv
<1>3. CASE L + 2 <= RingRoom
  <2>1. in_ring' = both
    BY <1>1, <1>2, <1>3 DEF CutOff
  <2>2. cut' = cut
    BY <1>1, <1>2, <1>3, PropertyRingsAssumption DEF OutInv, RoomInv, RingsTypeOK
  <2>3. WriteProperty
    BY <1>1, <1>3, <2>1, <2>2 DEF WriteProperty
  <2> QED
    BY <2>3, WriteKeeps
<1>4. CASE ~(L + 2 <= RingRoom)
  <2>1. cut' = TRUE
    <3>1. L + 2 > RingRoom
      BY <1>2, <1>4, PropertyRingsAssumption
    <3> QED
      BY <1>1, <3>1, Zenon
  <2>2. in_ring' = SubSeq(both, 1, RingRoom)
    BY <1>1, <1>2, <1>4 DEF CutOff
  <2> HIDE DEF both
  <2>3. RingRoom \in Nat /\ RingRoom <= L + 2
    BY <1>2, <1>4, PropertyRingsAssumption
  <2>4. \A i \in 1..RingRoom : both[i] \in InUnit
    BY <1>2, <2>3
  <2>5. in_ring' \in Seq(InUnit) /\ Len(in_ring') <= RingRoom
    <3>1. /\ SubSeq(both, 1, RingRoom) \in Seq(InUnit)
          /\ Len(SubSeq(both, 1, RingRoom)) = IF 1 <= RingRoom THEN RingRoom - 1 + 1 ELSE 0
      BY <2>3, <2>4, SubSeqProperties
    <3> QED
      BY <2>2, <2>3, <3>1
  <2>6. OutInv'
    BY <1>1, <2>1, <2>5, OutUntouched DEF OutInv, RoomInv, RingsTypeOK
  <2> QED
    BY <2>1, <2>6 DEF WholeInv
<1> QED
  BY <1>3, <1>4

(* The cycle reads pairs, and the ring holds pairs.                        *)
LEMMA ReadPropertyKeeps ==
  ASSUME OutInv, WholeInv, ReadProperty
  PROVE  OutInv' /\ WholeInv'
<1> DEFINE L == Len(in_ring)
           rest == SubSeq(in_ring, 3, L)
<1>1. /\ in_left > 0 /\ in_ring' = rest
      /\ in_left' = IF in_left > 2 THEN in_left - 2 ELSE 0
      /\ UNCHANGED <<hangs, cut>> /\ UNCHANGED outVars
  BY DEF ReadProperty
<1>2. /\ in_ring \in Seq(InUnit) /\ L \in Nat /\ L <= RingRoom /\ RingRoom \in Nat
      /\ in_left \in 0..RingRoom
  BY PropertyRingsAssumption DEF OutInv, RoomInv, RingsTypeOK
<1>3. in_left' \in 0..RingRoom
  BY <1>1, <1>2
<1>4. CASE L < 2
  <2>1. rest = <<>>
    <3>1. L \in Int /\ L < 3
      BY <1>2, <1>4
    <3> HIDE DEF L
    <3> QED
      BY <3>1, SubSeqEmpty
  <2>2. rest \in Seq(InUnit) /\ Len(rest) = 0
    BY <2>1
  <2> HIDE DEF rest
  <2>3. OutInv'
    BY <1>1, <1>2, <1>3, <2>2, OutUntouched DEF OutInv, RoomInv, RingsTypeOK
  <2> QED
    BY <1>1, <2>2, <2>3 DEF WholeInv
<1>5. CASE L >= 2
  <2>0. 2 \in Nat /\ 2 <= Len(in_ring) /\ 3 = 2 + 1
    BY <1>5
  <2>1. /\ rest \in Seq(InUnit) /\ Len(rest) = L - 2
        /\ \A i \in 1..(L - 2) : rest[i] = in_ring[2 + i]
    <3> DEFINE k == 2
               m == 3
    <3>1. k \in Nat /\ k <= Len(in_ring) /\ m = k + 1 /\ in_ring \in Seq(InUnit)
      BY <1>2, <2>0
    <3> HIDE DEF k, m
    <3>2. /\ SubSeq(in_ring, m, Len(in_ring)) \in Seq(InUnit)
          /\ Len(SubSeq(in_ring, m, Len(in_ring))) = Len(in_ring) - k
          /\ \A i \in 1..(Len(in_ring) - k) : SubSeq(in_ring, m, Len(in_ring))[i] = in_ring[k + i]
      BY <3>1, Suffix
    <3> QED
      BY <3>2 DEF k, m
  <2> HIDE DEF rest
  <2>2. OutInv'
    BY <1>1, <1>2, <1>3, <2>1, OutUntouched DEF OutInv, RoomInv, RingsTypeOK
  <2>3. WholeInv'
    <3> SUFFICES ASSUME ~cut PROVE WholeInv'
      BY <1>1 DEF WholeInv
    <3>1. /\ L % 2 = 0
          /\ \A i \in 1..L :
               in_ring[i] = [part |-> IF i % 2 = 1 THEN "head" ELSE "body", of |-> "in"]
      BY DEF WholeInv
    <3>2. (L - 2) % 2 = 0
      BY <1>2, <1>5, <3>1
    <3>3. ASSUME NEW i \in 1..(L - 2)
          PROVE  rest[i] = [part |-> IF i % 2 = 1 THEN "head" ELSE "body", of |-> "in"]
      <4>1. 2 + i \in 1..L /\ (2 + i) % 2 = i % 2
        BY <1>2, <1>5
      <4> QED
        BY <2>1, <3>1, <4>1
    <3> QED
      BY <1>1, <2>1, <3>2, <3>3 DEF WholeInv
  <2> QED
    BY <2>2, <2>3
<1> QED
  BY <1>2, <1>4, <1>5

LEMMA RingsNextKeeps ==
  ASSUME OutInv, WholeInv, [RingsNext]_ringVars
  PROVE  OutInv' /\ WholeInv'
<1>1. CASE \/ DropValue \/ WriteKey \/ WriteAtom \/ QueueOutput \/ TakeOutputs
           \/ FlushOutputs \/ ReadSpace \/ ReadValue \/ ReadDone
  <2>1. OutInv'
    BY <1>1, WriteKeyKeeps, WriteAtomKeeps, EventsKeep, ReadValueKeeps
  <2>2. UNCHANGED inVars
    BY <1>1 DEF DropValue, WriteKey, WriteAtom, QueueOutput, TakeOutputs, FlushOutputs, ReadSpace,
       ReadValue, ReadDone, ringVars
  <2> QED
    BY <2>1, <2>2 DEF WholeInv, inVars
<1>2. CASE SetProperty
  BY <1>2, WriteKeeps DEF SetProperty
<1>3. CASE GetProperty
  BY <1>3, GetKeeps
<1>4. CASE ReadProperty
  BY <1>4, ReadPropertyKeeps
<1>5. CASE LookForProperties
  <2>1. /\ in_left' = Len(in_ring) /\ UNCHANGED <<in_ring, hangs, cut>> /\ UNCHANGED outVars
    BY <1>5 DEF LookForProperties
  <2>2. Len(in_ring) \in 0..RingRoom
    BY PropertyRingsAssumption DEF OutInv, RoomInv, RingsTypeOK
  <2>3. OutInv'
    BY <2>1, <2>2, OutUntouched DEF OutInv, RoomInv, RingsTypeOK
  <2> QED
    BY <2>1, <2>3 DEF WholeInv
<1>6. ASSUME NEW number \in 1..2, NEW elements \in 1..2, SetVector(number, elements)
      PROVE  OutInv' /\ WholeInv'
  <2>1. CASE WriteProperty
    BY <2>1, WriteKeeps
  <2>2. CASE hangs' = TRUE /\ UNCHANGED <<in_ring, in_left, cut, outVars>>
    <3>1. OutInv'
      BY <2>2, OutUntouched DEF OutInv, RoomInv, RingsTypeOK
    <3> QED
      BY <2>2, <3>1 DEF WholeInv
  <2> QED
    BY <1>6, <2>1, <2>2 DEF SetVector
<1>7. CASE UNCHANGED ringVars
  <2>1. UNCHANGED <<in_ring, in_left, hangs, cut>> /\ UNCHANGED outVars
    BY <1>7 DEF ringVars, inVars
  <2>2. OutInv'
    BY <2>1, OutUntouched DEF OutInv, RoomInv, RingsTypeOK
  <2> QED
    BY <2>1, <2>2 DEF WholeInv
<1> QED
  BY <1>1, <1>2, <1>3, <1>4, <1>5, <1>6, <1>7 DEF RingsNext

-----------------------------------------------------------------------------
LEMMA HalvesAreWhole ==
  ASSUME RoomInv, WholeInv, ~cut
  PROVE  Whole(in_ring)
<1> DEFINE L == Len(in_ring)
           n == L \div 2
<1>1. L \in Nat /\ L % 2 = 0
  BY DEF RoomInv, WholeInv
<1> HIDE DEF L
<1>2. n \in 0..L /\ L = 2 * n
  BY <1>1
<1> HIDE DEF n
<1>3. ASSUME NEW i \in 1..n PROVE SubSeq(in_ring, 2 * i - 1, 2 * i) = Atom("in")
  <2> DEFINE a == 2 * i - 1
             b == 2 * i
             pair == SubSeq(in_ring, a, b)
  <2>1. a \in 1..L /\ b \in 1..L /\ a % 2 = 1 /\ b % 2 = 0 /\ b = a + 1 /\ a \in Int /\ b \in Int
    BY <1>1, <1>2
  <2>2. /\ in_ring[a] = [part |-> "head", of |-> "in"]
        /\ in_ring[b] = [part |-> "body", of |-> "in"]
    BY <2>1 DEF WholeInv, L
  <2> HIDE DEF a, b
  <2>3. \A j \in a..b : in_ring[j] \in InUnit
    BY <2>1, <2>2 DEF InUnit
  <2>4. /\ pair \in Seq(InUnit)
        /\ Len(pair) = IF a <= b THEN b - a + 1 ELSE 0
        /\ \A j \in 1..(b - a + 1) : pair[j] = in_ring[a + j - 1]
    BY <2>1, <2>3, SubSeqProperties
  <2> HIDE DEF pair
  <2>5. Len(pair) = 2
    BY <2>1, <2>4
  <2>6. pair[1] = in_ring[a] /\ pair[2] = in_ring[b]
    <3>1. 1 \in 1..(b - a + 1) /\ 2 \in 1..(b - a + 1) /\ a + 1 - 1 = a /\ a + 2 - 1 = b
      BY <2>1
    <3> QED
      BY <2>4, <3>1
  <2>7. pair = <<in_ring[a], in_ring[b]>>
    BY <2>4, <2>5, <2>6
  <2> QED
    BY <2>2, <2>7 DEF Atom, pair, a, b
<1> QED
  BY <1>2, <1>3 DEF Whole, L

LEMMA SentIsPrefix ==
  ASSUME RoomInv, OrderInv, ~split
  PROVE  IsPrefix(sent, [i \in 1..written |-> i])
<1> DEFINE n == Len(sent)
           all == [i \in 1..written |-> i]
<1>1. sent = [i \in 1..n |-> i] /\ n <= written /\ n \in Nat /\ written \in Nat
  BY PropertyRingsAssumption DEF RoomInv, RingsTypeOK, OrderInv
<1>2. all \in Seq(Nat) /\ Len(all) = written /\ \A i \in 1..written : all[i] = i
  BY <1>1
<1> HIDE DEF all
<1>3. SubSeq(all, 1, n) = sent
  <2>1. \A i \in 1..n : all[i] \in Nat
    BY <1>1, <1>2
  <2> DEFINE m == n
  <2>2. m = n /\ m \in Int
    BY <1>1
  <2> HIDE DEF m
  <2>3. \A i \in 1..m : all[i] \in Nat
    BY <2>1, <2>2
  <2>4. /\ SubSeq(all, 1, m) \in Seq(Nat) /\ Len(SubSeq(all, 1, m)) = IF 1 <= m THEN m - 1 + 1 ELSE 0
        /\ \A i \in 1..(m - 1 + 1) : SubSeq(all, 1, m)[i] = all[1 + i - 1]
    BY <2>2, <2>3, SubSeqProperties
  <2>5. Len(SubSeq(all, 1, n)) = n
    BY <1>1, <2>2, <2>4
  <2>6. \A i \in 1..n : SubSeq(all, 1, n)[i] = i
    <3> TAKE i \in 1..n
    <3>1. i \in 1..(m - 1 + 1) /\ 1 + i - 1 = i /\ i \in 1..written
      BY <1>1, <2>2
    <3> QED
      BY <1>2, <2>2, <2>4, <3>1
  <2>7. SubSeq(all, 1, n) = [i \in 1..n |-> SubSeq(all, 1, n)[i]]
    BY <2>2, <2>4, <2>5
  <2> QED
    BY <1>1, <2>6, <2>7
<1>4. SubSeq(sent, 1, Len(sent)) = sent
  BY DEF RoomInv, RingsTypeOK
<1> QED
  BY <1>1, <1>2, <1>3, <1>4 DEF IsPrefix, all

(* A value a plugin has set is sent, once and in its turn, unless the pool *)
(* had no node or a flush dropped its event; and what the client sets      *)
(* reaches the plugin whole, unless a patch_get met a full ring.           *)
THEOREM NothingStaysInTheRings == RingsSpec => []OutputsNotStranded
<1>1. RingsInit => OutInv /\ WholeInv
  BY RingsInitHolds DEF OutInv
<1>2. OutInv /\ WholeInv /\ [RingsNext]_ringVars => OutInv' /\ WholeInv'
  BY RingsNextKeeps
<1>3. OutInv /\ WholeInv => OutputsNotStranded
  <2> SUFFICES ASSUME OutInv, WholeInv PROVE OutputsNotStranded
    OBVIOUS
  <2>1. RingsTypeOK
    BY DEF OutInv, RoomInv
  <2>2. ~split => IsPrefix(sent, [i \in 1..written |-> i])
    BY SentIsPrefix DEF OutInv
  <2>3. ~cut => Whole(in_ring)
    BY HalvesAreWhole DEF OutInv
  <2> QED
    BY <2>1, <2>2, <2>3 DEF OutInv, ReadInv, OutputsNotStranded
<1> QED
  BY <1>1, <1>2, <1>3, PTL DEF RingsSpec

=============================================================================
