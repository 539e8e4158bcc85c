---------------------------- MODULE PluginProofs ----------------------------
(***************************************************************************)
(* A plugin's life, its worker and its parameters, proved for all numbers of*)
(* effects, ring sizes, symbols and values, and for all lists of parameters:*)
(* CallsAreAlone and what it leans on, NothingLeft, UsedIsHeld and         *)
(* FlagsTellTruth;                                                         *)
(* RingsSound and RequestsAreQueue; RemoveLeavesNoDangling and             *)
(* LastValueWins.                                                          *)
(***************************************************************************)
EXTENDS EffectLife, Worker, SyncParams, Recursion, FiniteSetTheorems, SequenceTheorems

-----------------------------------------------------------------------------
(* Who is in a plugin: nobody while somebody else runs or restores it.     *)

LifeSpec == LifeInit /\ [][LifeNext]_lifeVars

Adding == {"plugin", "instance", "ports", "buffers", "jack", "fail"}

Freeing == {"free_lists", "free_features", "free_ports", "free_instance", "close", "clear"}

(* JACK calls nobody whose client it does not run; in an empty slot, while *)
(* an effect is made and when one is freed there is no such client, unless *)
(* effects_remove_multi frees what JACK has not let go.                    *)
ClientInv ==
  /\ ~jack => cycle = "idle"
  /\ pc \in Adding \cup {"clear"} => ~jack
  /\ pc \in Freeing \cup {"remove_to_lv2"} /\ ~JackFailed => ~jack
  /\ ~exists => pc \in {"idle", "wait"} /\ held = {} /\ ~jack /\ mutex = "free"

(* What a plugin in use is made of, and how far effects_add has come.      *)
Parts == {"client", "ports", "buffers", "instance"}

BuiltInv ==
  /\ pc \in Adding \cup {"deactivate"} => "client" \in held
  /\ pc \in {"ports", "buffers", "jack"} => "instance" \in held
  /\ pc \in {"buffers", "jack"} => "ports" \in held
  /\ pc = "jack" => "buffers" \in held
  /\ exists /\ pc \notin Adding \cup Freeing \cup {"deactivate"} => Parts \subseteq held
  /\ jack /\ pc \notin Freeing => Parts \subseteq held

(* How far effects_remove has come: an item that has been freed is not held*)
(* any more.  The rest is freed by the last step.                          *)
FreedInv ==
  /\ "uri" \in held => pc \in {"instance", "ports", "buffers", "fail"}
  /\ pc \in {"plugin", "instance"} => "mutex" \notin held
  /\ "mutex" \in held => "unsafe" \in hints
  /\ pc \in Freeing \ {"free_lists"} => "raw_midi" \notin held
  /\ pc \in Freeing \ {"free_lists", "free_features"} =>
       "features" \notin held /\ "worker" \notin held
  /\ pc \in {"free_instance", "close", "clear"} => "ports" \notin held
  /\ pc \in {"close", "clear"} => "instance" \notin held
  /\ pc \in Freeing \ {"clear"} => "client" \in held
  /\ pc = "clear" => "client" \notin held /\ "jack_port" \notin held
  /\ leaked \subseteq {"monitors", "cv_source"}

(* A worker has its instance and a port its client.                        *)
OwnerInv ==
  /\ "worker" \in held => "instance" \in held
  /\ "jack_port" \in held => "client" \in held

(* plugin_uri is freed once on the way to AddJack, and not before.         *)
UriInv ==
  /\ pc \in {"instance", "ports", "buffers"} => "uri" \in held
  /\ pc = "fail" /\ "uri" \notin held => "jack_activate" \in mishap
  /\ "double_free" \in mishap => "jack_activate" \in mishap

(* The mutex is held by the cycle of a plugin that is not live, or by a    *)
(* command that calls into the plugin.                                     *)
MutexInv ==
  /\ mutex = "audio" => cycle = "run" /\ "unsafe" \in hints /\ "live" \notin hints
  /\ mutex = "command" => pc \in {"prerun", "restore"} /\ "unsafe" \in hints
  /\ pc \in {"prerun_lock", "restore_lock"} => "unsafe" \in hints
  /\ CallsHoldMutex

(* What jack_activated says of the client, and lv2_activated of the plugin.*)
FlagInv ==
  ~JackFailed =>
    /\ jack => jack_activated /\ lv2_activated
    /\ pc \notin Adding \cup Freeing
              \cup {"deactivate", "to_jack", "multi_to_lv2", "remove_to_lv2"} /\ exists =>
         jack = jack_activated
    /\ pc \in {"to_jack", "to_lv2", "multi_to_lv2", "remove_to_lv2"} => ~jack
    /\ pc = "to_jack" => lv2_activated /\ jack_activated
    /\ pc \in Adding => lv2_activated /\ jack_activated = activate
    /\ pc = "presets" => lv2_activated /\ jack_activated = activate
    /\ (pc \notin Adding \cup Freeing \cup {"deactivate"} \/ jack) /\ exists /\ cycle # "resize" =>
         lv2_activated = (lv2 = "active")
    /\ pc = "jack" => lv2 = "active"

(* A pre-run found the plugin active and no cycle that could run it, and   *)
(* none begins; a cycle that ran when processing was turned off is over.   *)
PreRunInv ==
  /\ pc \in {"prerun", "prerun_lock"} /\ ~JackFailed => lv2_activated
  /\ pc \in {"prerun", "prerun_lock"} => ~(jack_activated /\ ("live" \in hints \/ processing))
  /\ pc = "wait" => ~processing
  /\ mishap \cap {"no_wait", "apart"} = {} /\ ~processing /\ "live" \notin hints /\ pc # "wait" => cycle # "run"

LifeInv ==
  /\ LifeTypeOK /\ ClientInv /\ BuiltInv /\ FreedInv /\ OwnerInv
  /\ UriInv /\ MutexInv /\ FlagInv /\ PreRunInv

-----------------------------------------------------------------------------
(* Types, in the four parts that the prover takes at once.                 *)

HeldType == held \subseteq Resource /\ leaked \subseteq Resource /\ hints \in Plugin \cup {{}}

FlagType ==
  /\ exists \in BOOLEAN /\ lv2_activated \in BOOLEAN /\ jack_activated \in BOOLEAN
  /\ jack \in BOOLEAN /\ processing \in BOOLEAN /\ activate \in BOOLEAN
  /\ upstream \in BOOLEAN

OutsideType ==
  /\ lv2 \in {"none", "inactive", "active"} /\ mutex \in {"free", "command", "audio"}
  /\ cycle \in {"idle", "run", "resize"}
  /\ mishap \subseteq {"jack_activate", "jack_deactivate", "no_wait", "apart", "double_free"}

LabelType ==
  pc \in {"idle", "plugin", "instance", "ports", "buffers", "jack", "presets",
          "fail", "deactivate", "remove_to_lv2", "free_lists", "free_features",
          "free_ports", "free_instance", "close", "clear",
          "to_jack", "to_lv2", "multi_to_lv2", "wait", "prerun", "prerun_lock", "restore", "restore_lock", "preset"}

(* A slot owns resources, and its hints are those of a plugin.             *)
LEMMA HeldStep ==
  ASSUME HeldType, OutsideType, LabelType, Plugin \subseteq SUBSET Hint, [LifeNext]_lifeVars
  PROVE  HeldType'
<1> USE DEF HeldType, OutsideType, LabelType, Resource, Hint, AddStep, Goto, slotVars
<1>1. CASE \/ \E a \in BOOLEAN : AddOpen(a)
           \/ AddBuffers \/ AddJack \/ AddFail
  BY <1>1 DEF AddOpen, AddBuffers, AddJack, AddFail
<1>2. CASE \/ AddPlugin \/ \E h \in Plugin : AddInstance(h)
           \/ AddPortsDone \/ AddPresets
  BY <1>2 DEF AddPlugin, AddInstance, AddPortsDone, AddPresets
<1>3. CASE AddAudioPort \/ AddControlPort \/ AddCvPort \/ AddEventPort
  BY <1>3 DEF AddAudioPort, AddControlPort, AddCvPort, AddEventPort, AddPort
<1>4. CASE RemoveBegin \/ RemoveDeactivate \/ RemoveOfMulti
  BY <1>4 DEF RemoveBegin, RemoveDeactivate, RemoveOfMulti, JackDeactivate, CallbackOver
<1>5. CASE FreeLists \/ FreeFeatures \/ FreePorts \/ FreeInstance \/ FreeClient \/ FreeRest
  BY <1>5 DEF FreeLists, FreeFeatures, FreePorts, FreeInstance, FreeClient, FreeRest,
               FreeStep, CallbackOver
<1>6. CASE MonitorParameter \/ CvMap \/ CvUnmap
  BY <1>6 DEF MonitorParameter, CvMap, CvUnmap, OwnStep
<1>7. CASE ActivateOn \/ ToJack \/ ActivateOff
  BY <1>7 DEF ActivateOn, Lv2Activate, ToJack, ActivateOff, JackDeactivate, CallbackOver
<1>8. CASE MultiOff \/ ToLv2 \/ MultiToLv2
  BY <1>8 DEF MultiOff, ToLv2, MultiToLv2, Lv2Deactivate, JackDeactivate, CallbackOver
<1>9. CASE ProcessingOn \/ ProcessingOff \/ Waited
  BY <1>9 DEF ProcessingOn, ProcessingOff, Waited, CallbackOver, callVars
<1>10. CASE \/ PreRunBegin \/ StateLoadBegin \/ PresetLoadBegin
           \/ CallLock \/ CallEnd
  BY <1>10 DEF PreRunBegin, StateLoadBegin, PresetLoadBegin, CallLock, CallEnd, Unlock, callVars
<1>11. CASE LifeCallback
  BY <1>11 DEF LifeCallback, ProcessBegin, ProcessEnd, ResizeBegin, ResizeEnd, Reorder,
              Unlock, callVars
<1>12. CASE UNCHANGED lifeVars
  BY <1>12 DEF lifeVars
<1>13. QED
  BY <1>1, <1>2, <1>3, <1>4, <1>5, <1>6, <1>7, <1>8, <1>9, <1>10, <1>11, <1>12
  DEF LifeNext, LifeCommand

(* The flags are flags.                                                    *)
LEMMA FlagTypeStep ==
  ASSUME FlagType, LabelType, [LifeNext]_lifeVars
  PROVE  FlagType'
<1> USE DEF FlagType, LabelType, AddStep, Goto, slotVars
<1>1. CASE \/ \E a \in BOOLEAN : AddOpen(a)
           \/ AddBuffers \/ AddJack \/ AddFail
  BY <1>1 DEF AddOpen, AddBuffers, AddJack, AddFail
<1>2. CASE \/ AddPlugin \/ \E h \in Plugin : AddInstance(h)
           \/ AddPortsDone \/ AddPresets
  BY <1>2 DEF AddPlugin, AddInstance, AddPortsDone, AddPresets
<1>3. CASE AddAudioPort \/ AddControlPort \/ AddCvPort \/ AddEventPort
  BY <1>3 DEF AddAudioPort, AddControlPort, AddCvPort, AddEventPort, AddPort
<1>4. CASE RemoveBegin \/ RemoveDeactivate \/ RemoveOfMulti
  BY <1>4 DEF RemoveBegin, RemoveDeactivate, RemoveOfMulti, JackDeactivate, CallbackOver
<1>5. CASE FreeLists \/ FreeFeatures \/ FreePorts \/ FreeInstance \/ FreeClient \/ FreeRest
  BY <1>5 DEF FreeLists, FreeFeatures, FreePorts, FreeInstance, FreeClient, FreeRest,
               FreeStep, CallbackOver
<1>6. CASE MonitorParameter \/ CvMap \/ CvUnmap
  BY <1>6 DEF MonitorParameter, CvMap, CvUnmap, OwnStep
<1>7. CASE ActivateOn \/ ToJack \/ ActivateOff
  BY <1>7 DEF ActivateOn, Lv2Activate, ToJack, ActivateOff, JackDeactivate, CallbackOver
<1>8. CASE MultiOff \/ ToLv2 \/ MultiToLv2
  BY <1>8 DEF MultiOff, ToLv2, MultiToLv2, Lv2Deactivate, JackDeactivate, CallbackOver
<1>9. CASE ProcessingOn \/ ProcessingOff \/ Waited
  BY <1>9 DEF ProcessingOn, ProcessingOff, Waited, CallbackOver, callVars
<1>10. CASE \/ PreRunBegin \/ StateLoadBegin \/ PresetLoadBegin
           \/ CallLock \/ CallEnd
  BY <1>10 DEF PreRunBegin, StateLoadBegin, PresetLoadBegin, CallLock, CallEnd, Unlock, callVars
<1>11. CASE LifeCallback
  BY <1>11 DEF LifeCallback, ProcessBegin, ProcessEnd, ResizeBegin, ResizeEnd, Reorder,
              Unlock, callVars
<1>12. CASE UNCHANGED lifeVars
  BY <1>12 DEF lifeVars
<1>13. QED
  BY <1>1, <1>2, <1>3, <1>4, <1>5, <1>6, <1>7, <1>8, <1>9, <1>10, <1>11, <1>12
  DEF LifeNext, LifeCommand

(* What the plugin, JACK and the mutex may be in.                          *)
LEMMA OutsideStep ==
  ASSUME OutsideType, LabelType, [LifeNext]_lifeVars
  PROVE  OutsideType'
<1> USE DEF OutsideType, LabelType, AddStep, Goto, slotVars
<1>1. CASE \/ \E a \in BOOLEAN : AddOpen(a)
           \/ AddBuffers \/ AddJack \/ AddFail
  BY <1>1 DEF AddOpen, AddBuffers, AddJack, AddFail
<1>2. CASE \/ AddPlugin \/ \E h \in Plugin : AddInstance(h)
           \/ AddPortsDone \/ AddPresets
  BY <1>2 DEF AddPlugin, AddInstance, AddPortsDone, AddPresets
<1>3. CASE AddAudioPort \/ AddControlPort \/ AddCvPort \/ AddEventPort
  BY <1>3 DEF AddAudioPort, AddControlPort, AddCvPort, AddEventPort, AddPort
<1>4. CASE RemoveBegin \/ RemoveDeactivate \/ RemoveOfMulti
  BY <1>4 DEF RemoveBegin, RemoveDeactivate, RemoveOfMulti, JackDeactivate, CallbackOver
<1>5. CASE FreeLists \/ FreeFeatures \/ FreePorts \/ FreeInstance \/ FreeClient \/ FreeRest
  BY <1>5 DEF FreeLists, FreeFeatures, FreePorts, FreeInstance, FreeClient, FreeRest,
               FreeStep, CallbackOver
<1>6. CASE MonitorParameter \/ CvMap \/ CvUnmap
  BY <1>6 DEF MonitorParameter, CvMap, CvUnmap, OwnStep
<1>7. CASE ActivateOn \/ ToJack \/ ActivateOff
  BY <1>7 DEF ActivateOn, Lv2Activate, ToJack, ActivateOff, JackDeactivate, CallbackOver
<1>8. CASE MultiOff \/ ToLv2 \/ MultiToLv2
  BY <1>8 DEF MultiOff, ToLv2, MultiToLv2, Lv2Deactivate, JackDeactivate, CallbackOver
<1>9. CASE ProcessingOn \/ ProcessingOff \/ Waited
  BY <1>9 DEF ProcessingOn, ProcessingOff, Waited, CallbackOver, callVars
<1>10. CASE \/ PreRunBegin \/ StateLoadBegin \/ PresetLoadBegin
           \/ CallLock \/ CallEnd
  BY <1>10 DEF PreRunBegin, StateLoadBegin, PresetLoadBegin, CallLock, CallEnd, Unlock, callVars
<1>11. CASE LifeCallback
  BY <1>11 DEF LifeCallback, ProcessBegin, ProcessEnd, ResizeBegin, ResizeEnd, Reorder,
              Unlock, callVars
<1>12. CASE UNCHANGED lifeVars
  BY <1>12 DEF lifeVars
<1>13. QED
  BY <1>1, <1>2, <1>3, <1>4, <1>5, <1>6, <1>7, <1>8, <1>9, <1>10, <1>11, <1>12
  DEF LifeNext, LifeCommand

(* The command thread is at one of its labels.                             *)
LEMMA LabelStep ==
  ASSUME LabelType, [LifeNext]_lifeVars
  PROVE  LabelType'
<1> USE DEF LabelType, AddStep, Goto, slotVars
<1>1. CASE \/ \E a \in BOOLEAN : AddOpen(a)
           \/ AddBuffers \/ AddJack \/ AddFail
  BY <1>1 DEF AddOpen, AddBuffers, AddJack, AddFail
<1>2. CASE \/ AddPlugin \/ \E h \in Plugin : AddInstance(h)
           \/ AddPortsDone \/ AddPresets
  BY <1>2 DEF AddPlugin, AddInstance, AddPortsDone, AddPresets
<1>3. CASE AddAudioPort \/ AddControlPort \/ AddCvPort \/ AddEventPort
  BY <1>3 DEF AddAudioPort, AddControlPort, AddCvPort, AddEventPort, AddPort
<1>4. CASE RemoveBegin \/ RemoveDeactivate \/ RemoveOfMulti
  BY <1>4 DEF RemoveBegin, RemoveDeactivate, RemoveOfMulti, JackDeactivate, CallbackOver
<1>5. CASE FreeLists \/ FreeFeatures \/ FreePorts \/ FreeInstance \/ FreeClient \/ FreeRest
  BY <1>5 DEF FreeLists, FreeFeatures, FreePorts, FreeInstance, FreeClient, FreeRest,
               FreeStep, CallbackOver
<1>6. CASE MonitorParameter \/ CvMap \/ CvUnmap
  BY <1>6 DEF MonitorParameter, CvMap, CvUnmap, OwnStep
<1>7. CASE ActivateOn \/ ToJack \/ ActivateOff
  BY <1>7 DEF ActivateOn, Lv2Activate, ToJack, ActivateOff, JackDeactivate, CallbackOver
<1>8. CASE MultiOff \/ ToLv2 \/ MultiToLv2
  BY <1>8 DEF MultiOff, ToLv2, MultiToLv2, Lv2Deactivate, JackDeactivate, CallbackOver
<1>9. CASE ProcessingOn \/ ProcessingOff \/ Waited
  BY <1>9 DEF ProcessingOn, ProcessingOff, Waited, CallbackOver, callVars
<1>10. CASE \/ PreRunBegin \/ StateLoadBegin \/ PresetLoadBegin
           \/ CallLock \/ CallEnd
  BY <1>10 DEF PreRunBegin, StateLoadBegin, PresetLoadBegin, CallLock, CallEnd, Unlock, callVars
<1>11. CASE LifeCallback
  BY <1>11 DEF LifeCallback, ProcessBegin, ProcessEnd, ResizeBegin, ResizeEnd, Reorder,
              Unlock, callVars
<1>12. CASE UNCHANGED lifeVars
  BY <1>12 DEF lifeVars
<1>13. QED
  BY <1>1, <1>2, <1>3, <1>4, <1>5, <1>6, <1>7, <1>8, <1>9, <1>10, <1>11, <1>12
  DEF LifeNext, LifeCommand

LEMMA TypeStep ==
  ASSUME LifeTypeOK, [LifeNext]_lifeVars PROVE LifeTypeOK'
<1>1. Plugin \subseteq SUBSET Hint
  BY EffectLifeAssumption DEF PluginKinds
<1>2. HeldType /\ FlagType /\ OutsideType /\ LabelType
  BY DEF LifeTypeOK, HeldType, FlagType, OutsideType, LabelType
<1>3. HeldType' /\ FlagType' /\ OutsideType' /\ LabelType'
  BY <1>1, <1>2, HeldStep, FlagTypeStep, OutsideStep, LabelStep
<1>4. QED
  BY <1>3 DEF LifeTypeOK, HeldType, FlagType, OutsideType, LabelType

-----------------------------------------------------------------------------
(* The parts of the invariant.                                             *)

(* A client of JACK begins and ends where ClientInv says so.               *)
LEMMA ClientStep ==
  ASSUME LifeTypeOK, ClientInv, FlagInv, [LifeNext]_lifeVars
  PROVE  ClientInv'
<1> USE DEF LifeTypeOK, ClientInv, FlagInv, Adding, Freeing, JackFailed, AddStep, Goto, slotVars
<1>1. CASE \/ \E a \in BOOLEAN : AddOpen(a)
           \/ AddBuffers \/ AddJack \/ AddFail
  BY <1>1 DEF AddOpen, AddBuffers, AddJack, AddFail
<1>2. CASE \/ AddPlugin \/ \E h \in Plugin : AddInstance(h)
           \/ AddPortsDone \/ AddPresets
  BY <1>2 DEF AddPlugin, AddInstance, AddPortsDone, AddPresets
<1>3. CASE AddAudioPort \/ AddControlPort \/ AddCvPort \/ AddEventPort
  BY <1>3 DEF AddAudioPort, AddControlPort, AddCvPort, AddEventPort, AddPort
<1>4. CASE RemoveBegin \/ RemoveDeactivate \/ RemoveOfMulti
  BY <1>4 DEF RemoveBegin, RemoveDeactivate, RemoveOfMulti, JackDeactivate, CallbackOver
<1>5. CASE FreeLists \/ FreeFeatures \/ FreePorts \/ FreeInstance \/ FreeClient \/ FreeRest
  BY <1>5 DEF FreeLists, FreeFeatures, FreePorts, FreeInstance, FreeClient, FreeRest,
               FreeStep, CallbackOver
<1>6. CASE MonitorParameter \/ CvMap \/ CvUnmap
  BY <1>6 DEF MonitorParameter, CvMap, CvUnmap, OwnStep
<1>7. CASE ActivateOn \/ ToJack \/ ActivateOff
  BY <1>7 DEF ActivateOn, Lv2Activate, ToJack, ActivateOff, JackDeactivate, CallbackOver
<1>8. CASE MultiOff \/ ToLv2 \/ MultiToLv2
  BY <1>8 DEF MultiOff, ToLv2, MultiToLv2, Lv2Deactivate, JackDeactivate, CallbackOver
<1>9. CASE ProcessingOn \/ ProcessingOff \/ Waited
  BY <1>9 DEF ProcessingOn, ProcessingOff, Waited, CallbackOver, callVars
<1>10. CASE \/ PreRunBegin \/ StateLoadBegin \/ PresetLoadBegin
           \/ CallLock \/ CallEnd
  BY <1>10 DEF PreRunBegin, StateLoadBegin, PresetLoadBegin, CallLock, CallEnd, Unlock, callVars
<1>11. CASE LifeCallback
  BY <1>11 DEF LifeCallback, ProcessBegin, ProcessEnd, ResizeBegin, ResizeEnd, Reorder,
              Unlock, callVars
<1>12. CASE UNCHANGED lifeVars
  BY <1>12 DEF lifeVars
<1>13. QED
  BY <1>1, <1>2, <1>3, <1>4, <1>5, <1>6, <1>7, <1>8, <1>9, <1>10, <1>11, <1>12
  DEF LifeNext, LifeCommand

(* Nothing is taken from a plugin that is in use.                          *)
LEMMA BuiltStep ==
  ASSUME LifeTypeOK, ClientInv, BuiltInv, [LifeNext]_lifeVars
  PROVE  BuiltInv'
<1> USE DEF LifeTypeOK, ClientInv, BuiltInv, Parts, Adding, Freeing, JackFailed, AddStep, Goto, slotVars
<1>1. CASE \/ \E a \in BOOLEAN : AddOpen(a)
           \/ AddBuffers \/ AddJack \/ AddFail
  BY <1>1 DEF AddOpen, AddBuffers, AddJack, AddFail
<1>2. CASE \/ AddPlugin \/ \E h \in Plugin : AddInstance(h)
           \/ AddPortsDone \/ AddPresets
  BY <1>2 DEF AddPlugin, AddInstance, AddPortsDone, AddPresets
<1>3. CASE AddAudioPort \/ AddControlPort \/ AddCvPort \/ AddEventPort
  BY <1>3 DEF AddAudioPort, AddControlPort, AddCvPort, AddEventPort, AddPort
<1>4. CASE RemoveBegin \/ RemoveDeactivate \/ RemoveOfMulti
  BY <1>4 DEF RemoveBegin, RemoveDeactivate, RemoveOfMulti, JackDeactivate, CallbackOver
<1>5. CASE FreeLists \/ FreeFeatures \/ FreePorts \/ FreeInstance \/ FreeClient \/ FreeRest
  BY <1>5 DEF FreeLists, FreeFeatures, FreePorts, FreeInstance, FreeClient, FreeRest,
               FreeStep, CallbackOver
<1>6. CASE MonitorParameter \/ CvMap \/ CvUnmap
  BY <1>6 DEF MonitorParameter, CvMap, CvUnmap, OwnStep
<1>7. CASE ActivateOn \/ ToJack \/ ActivateOff
  BY <1>7 DEF ActivateOn, Lv2Activate, ToJack, ActivateOff, JackDeactivate, CallbackOver
<1>8. CASE MultiOff \/ ToLv2 \/ MultiToLv2
  BY <1>8 DEF MultiOff, ToLv2, MultiToLv2, Lv2Deactivate, JackDeactivate, CallbackOver
<1>9. CASE ProcessingOn \/ ProcessingOff \/ Waited
  BY <1>9 DEF ProcessingOn, ProcessingOff, Waited, CallbackOver, callVars
<1>10. CASE \/ PreRunBegin \/ StateLoadBegin \/ PresetLoadBegin
           \/ CallLock \/ CallEnd
  BY <1>10 DEF PreRunBegin, StateLoadBegin, PresetLoadBegin, CallLock, CallEnd, Unlock, callVars
<1>11. CASE LifeCallback
  BY <1>11 DEF LifeCallback, ProcessBegin, ProcessEnd, ResizeBegin, ResizeEnd, Reorder,
              Unlock, callVars
<1>12. CASE UNCHANGED lifeVars
  BY <1>12 DEF lifeVars
<1>13. QED
  BY <1>1, <1>2, <1>3, <1>4, <1>5, <1>6, <1>7, <1>8, <1>9, <1>10, <1>11, <1>12
  DEF LifeNext, LifeCommand

(* What effects_remove frees stays freed, and only two things are forgotten.*)
LEMMA FreedStep ==
  ASSUME LifeTypeOK, ClientInv, BuiltInv, FreedInv, UriInv, [LifeNext]_lifeVars
  PROVE  FreedInv'
<1> USE DEF LifeTypeOK, ClientInv, BuiltInv, FreedInv, UriInv, Parts, Adding, Freeing, Resource,
            AddStep, Goto, slotVars
<1>1. CASE \/ \E a \in BOOLEAN : AddOpen(a)
           \/ AddBuffers \/ AddJack \/ AddFail
  BY <1>1 DEF AddOpen, AddBuffers, AddJack, AddFail
<1>2. CASE \/ AddPlugin \/ \E h \in Plugin : AddInstance(h)
           \/ AddPortsDone \/ AddPresets
  BY <1>2 DEF AddPlugin, AddInstance, AddPortsDone, AddPresets
<1>3. CASE AddAudioPort \/ AddControlPort \/ AddCvPort \/ AddEventPort
  BY <1>3 DEF AddAudioPort, AddControlPort, AddCvPort, AddEventPort, AddPort
<1>4. CASE RemoveBegin \/ RemoveDeactivate \/ RemoveOfMulti
  BY <1>4 DEF RemoveBegin, RemoveDeactivate, RemoveOfMulti, JackDeactivate, CallbackOver
<1>5. CASE FreeLists \/ FreeFeatures \/ FreePorts \/ FreeInstance \/ FreeClient \/ FreeRest
  BY <1>5 DEF FreeLists, FreeFeatures, FreePorts, FreeInstance, FreeClient, FreeRest,
               FreeStep, CallbackOver
<1>6. CASE MonitorParameter \/ CvMap \/ CvUnmap
  BY <1>6 DEF MonitorParameter, CvMap, CvUnmap, OwnStep
<1>7. CASE ActivateOn \/ ToJack \/ ActivateOff
  BY <1>7 DEF ActivateOn, Lv2Activate, ToJack, ActivateOff, JackDeactivate, CallbackOver
<1>8. CASE MultiOff \/ ToLv2 \/ MultiToLv2
  BY <1>8 DEF MultiOff, ToLv2, MultiToLv2, Lv2Deactivate, JackDeactivate, CallbackOver
<1>9. CASE ProcessingOn \/ ProcessingOff \/ Waited
  BY <1>9 DEF ProcessingOn, ProcessingOff, Waited, CallbackOver, callVars
<1>10. CASE PreRunBegin \/ StateLoadBegin \/ PresetLoadBegin
  BY <1>10 DEF PreRunBegin, StateLoadBegin, PresetLoadBegin, callVars
<1>11. CASE CallLock \/ CallEnd
  BY <1>11 DEF CallLock, CallEnd, Unlock, callVars
<1>12. CASE LifeCallback
  <2>1. CASE ProcessBegin \/ ProcessEnd
    BY <2>1 DEF ProcessBegin, ProcessEnd, Unlock, callVars
  <2>2. CASE ResizeBegin \/ ResizeEnd
    BY <2>2 DEF ResizeBegin, ResizeEnd
  <2>3. CASE Reorder
    BY <2>3 DEF Reorder
  <2>4. QED
    BY <1>12, <2>1, <2>2, <2>3 DEF LifeCallback
<1>13. CASE UNCHANGED lifeVars
  BY <1>13 DEF lifeVars
<1>14. QED
  BY <1>1, <1>2, <1>3, <1>4, <1>5, <1>6, <1>7, <1>8, <1>9, <1>10, <1>11, <1>12, <1>13
  DEF LifeNext, LifeCommand

(* A worker is finished before its instance is freed.                      *)
LEMMA OwnerStep ==
  ASSUME LifeTypeOK, BuiltInv, FreedInv, OwnerInv, [LifeNext]_lifeVars
  PROVE  OwnerInv'
<1> USE DEF LifeTypeOK, BuiltInv, FreedInv, OwnerInv, Parts, Adding, Freeing, AddStep, Goto, slotVars
<1>1. CASE \/ \E a \in BOOLEAN : AddOpen(a)
           \/ AddBuffers \/ AddJack \/ AddFail
  BY <1>1 DEF AddOpen, AddBuffers, AddJack, AddFail
<1>2. CASE \/ AddPlugin \/ \E h \in Plugin : AddInstance(h)
           \/ AddPortsDone \/ AddPresets
  BY <1>2 DEF AddPlugin, AddInstance, AddPortsDone, AddPresets
<1>3. CASE AddAudioPort \/ AddControlPort \/ AddCvPort \/ AddEventPort
  BY <1>3 DEF AddAudioPort, AddControlPort, AddCvPort, AddEventPort, AddPort
<1>4. CASE RemoveBegin \/ RemoveDeactivate \/ RemoveOfMulti
  BY <1>4 DEF RemoveBegin, RemoveDeactivate, RemoveOfMulti, JackDeactivate, CallbackOver
<1>5. CASE FreeLists \/ FreeFeatures \/ FreePorts \/ FreeInstance \/ FreeClient \/ FreeRest
  BY <1>5 DEF FreeLists, FreeFeatures, FreePorts, FreeInstance, FreeClient, FreeRest,
               FreeStep, CallbackOver
<1>6. CASE MonitorParameter \/ CvMap \/ CvUnmap
  BY <1>6 DEF MonitorParameter, CvMap, CvUnmap, OwnStep
<1>7. CASE ActivateOn \/ ToJack \/ ActivateOff
  BY <1>7 DEF ActivateOn, Lv2Activate, ToJack, ActivateOff, JackDeactivate, CallbackOver
<1>8. CASE MultiOff \/ ToLv2 \/ MultiToLv2
  BY <1>8 DEF MultiOff, ToLv2, MultiToLv2, Lv2Deactivate, JackDeactivate, CallbackOver
<1>9. CASE ProcessingOn \/ ProcessingOff \/ Waited
  BY <1>9 DEF ProcessingOn, ProcessingOff, Waited, CallbackOver, callVars
<1>10. CASE \/ PreRunBegin \/ StateLoadBegin \/ PresetLoadBegin
           \/ CallLock \/ CallEnd
  BY <1>10 DEF PreRunBegin, StateLoadBegin, PresetLoadBegin, CallLock, CallEnd, Unlock, callVars
<1>11. CASE LifeCallback
  BY <1>11 DEF LifeCallback, ProcessBegin, ProcessEnd, ResizeBegin, ResizeEnd, Reorder,
              Unlock, callVars
<1>12. CASE UNCHANGED lifeVars
  BY <1>12 DEF lifeVars
<1>13. QED
  BY <1>1, <1>2, <1>3, <1>4, <1>5, <1>6, <1>7, <1>8, <1>9, <1>10, <1>11, <1>12
  DEF LifeNext, LifeCommand

(* Only a failing jack_activate makes effects_add free plugin_uri twice.   *)
LEMMA UriStep ==
  ASSUME LifeTypeOK, UriInv, [LifeNext]_lifeVars
  PROVE  UriInv'
<1> USE DEF LifeTypeOK, UriInv, AddStep, Goto, slotVars
<1>1. CASE \/ \E a \in BOOLEAN : AddOpen(a)
           \/ AddBuffers \/ AddJack \/ AddFail
  BY <1>1 DEF AddOpen, AddBuffers, AddJack, AddFail
<1>2. CASE \/ AddPlugin \/ \E h \in Plugin : AddInstance(h)
           \/ AddPortsDone \/ AddPresets
  BY <1>2 DEF AddPlugin, AddInstance, AddPortsDone, AddPresets
<1>3. CASE AddAudioPort \/ AddControlPort \/ AddCvPort \/ AddEventPort
  BY <1>3 DEF AddAudioPort, AddControlPort, AddCvPort, AddEventPort, AddPort
<1>4. CASE RemoveBegin \/ RemoveDeactivate \/ RemoveOfMulti
  BY <1>4 DEF RemoveBegin, RemoveDeactivate, RemoveOfMulti, JackDeactivate, CallbackOver
<1>5. CASE FreeLists \/ FreeFeatures \/ FreePorts \/ FreeInstance \/ FreeClient \/ FreeRest
  BY <1>5 DEF FreeLists, FreeFeatures, FreePorts, FreeInstance, FreeClient, FreeRest,
               FreeStep, CallbackOver
<1>6. CASE MonitorParameter \/ CvMap \/ CvUnmap
  BY <1>6 DEF MonitorParameter, CvMap, CvUnmap, OwnStep
<1>7. CASE ActivateOn \/ ToJack \/ ActivateOff
  BY <1>7 DEF ActivateOn, Lv2Activate, ToJack, ActivateOff, JackDeactivate, CallbackOver
<1>8. CASE MultiOff \/ ToLv2 \/ MultiToLv2
  BY <1>8 DEF MultiOff, ToLv2, MultiToLv2, Lv2Deactivate, JackDeactivate, CallbackOver
<1>9. CASE ProcessingOn \/ ProcessingOff \/ Waited
  BY <1>9 DEF ProcessingOn, ProcessingOff, Waited, CallbackOver, callVars
<1>10. CASE \/ PreRunBegin \/ StateLoadBegin \/ PresetLoadBegin
           \/ CallLock \/ CallEnd
  BY <1>10 DEF PreRunBegin, StateLoadBegin, PresetLoadBegin, CallLock, CallEnd, Unlock, callVars
<1>11. CASE LifeCallback
  BY <1>11 DEF LifeCallback, ProcessBegin, ProcessEnd, ResizeBegin, ResizeEnd, Reorder,
              Unlock, callVars
<1>12. CASE UNCHANGED lifeVars
  BY <1>12 DEF lifeVars
<1>13. QED
  BY <1>1, <1>2, <1>3, <1>4, <1>5, <1>6, <1>7, <1>8, <1>9, <1>10, <1>11, <1>12
  DEF LifeNext, LifeCommand

(* Who holds the mutex gives it back himself.                              *)
LEMMA MutexStep ==
  ASSUME LifeTypeOK, ClientInv, MutexInv, [LifeNext]_lifeVars
  PROVE  MutexInv'
<1> USE DEF LifeTypeOK, ClientInv, MutexInv, CallsHoldMutex, Adding, Freeing, AddStep, Goto, slotVars
<1>1. CASE \/ \E a \in BOOLEAN : AddOpen(a)
           \/ AddBuffers \/ AddJack \/ AddFail
  BY <1>1 DEF AddOpen, AddBuffers, AddJack, AddFail
<1>2. CASE \/ AddPlugin \/ \E h \in Plugin : AddInstance(h)
           \/ AddPortsDone \/ AddPresets
  BY <1>2 DEF AddPlugin, AddInstance, AddPortsDone, AddPresets
<1>3. CASE AddAudioPort \/ AddControlPort \/ AddCvPort \/ AddEventPort
  BY <1>3 DEF AddAudioPort, AddControlPort, AddCvPort, AddEventPort, AddPort
<1>4. CASE RemoveBegin \/ RemoveDeactivate \/ RemoveOfMulti
  BY <1>4 DEF RemoveBegin, RemoveDeactivate, RemoveOfMulti, JackDeactivate, CallbackOver
<1>5. CASE FreeLists \/ FreeFeatures \/ FreePorts \/ FreeInstance \/ FreeClient \/ FreeRest
  BY <1>5 DEF FreeLists, FreeFeatures, FreePorts, FreeInstance, FreeClient, FreeRest,
               FreeStep, CallbackOver
<1>6. CASE MonitorParameter \/ CvMap \/ CvUnmap
  BY <1>6 DEF MonitorParameter, CvMap, CvUnmap, OwnStep
<1>7. CASE ActivateOn \/ ToJack \/ ActivateOff
  BY <1>7 DEF ActivateOn, Lv2Activate, ToJack, ActivateOff, JackDeactivate, CallbackOver
<1>8. CASE MultiOff \/ ToLv2 \/ MultiToLv2
  BY <1>8 DEF MultiOff, ToLv2, MultiToLv2, Lv2Deactivate, JackDeactivate, CallbackOver
<1>9. CASE ProcessingOn \/ ProcessingOff \/ Waited
  BY <1>9 DEF ProcessingOn, ProcessingOff, Waited, CallbackOver, callVars
<1>10. CASE \/ PreRunBegin \/ StateLoadBegin \/ PresetLoadBegin
           \/ CallLock \/ CallEnd
  BY <1>10 DEF PreRunBegin, StateLoadBegin, PresetLoadBegin, CallLock, CallEnd, Unlock, callVars
<1>11. CASE LifeCallback
  BY <1>11 DEF LifeCallback, ProcessBegin, ProcessEnd, ResizeBegin, ResizeEnd, Reorder,
              Unlock, callVars
<1>12. CASE UNCHANGED lifeVars
  BY <1>12 DEF lifeVars
<1>13. QED
  BY <1>1, <1>2, <1>3, <1>4, <1>5, <1>6, <1>7, <1>8, <1>9, <1>10, <1>11, <1>12
  DEF LifeNext, LifeCommand

(* The flags follow what is done, as long as JACK does what it is asked.   *)
LEMMA FlagStep ==
  ASSUME LifeTypeOK, ClientInv, FlagInv, [LifeNext]_lifeVars
  PROVE  FlagInv'
<1> USE DEF LifeTypeOK, ClientInv, FlagInv, JackFailed, Adding, Freeing, AddStep, Goto, slotVars
<1>1. CASE \/ \E a \in BOOLEAN : AddOpen(a)
           \/ AddBuffers \/ AddJack \/ AddFail
  BY <1>1 DEF AddOpen, AddBuffers, AddJack, AddFail
<1>2. CASE \/ AddPlugin \/ \E h \in Plugin : AddInstance(h)
           \/ AddPortsDone \/ AddPresets
  BY <1>2 DEF AddPlugin, AddInstance, AddPortsDone, AddPresets
<1>3. CASE AddAudioPort \/ AddControlPort \/ AddCvPort \/ AddEventPort
  BY <1>3 DEF AddAudioPort, AddControlPort, AddCvPort, AddEventPort, AddPort
<1>4. CASE RemoveBegin \/ RemoveDeactivate \/ RemoveOfMulti
  BY <1>4 DEF RemoveBegin, RemoveDeactivate, RemoveOfMulti, JackDeactivate, CallbackOver
<1>5. CASE FreeLists \/ FreeFeatures \/ FreePorts \/ FreeInstance \/ FreeClient \/ FreeRest
  BY <1>5 DEF FreeLists, FreeFeatures, FreePorts, FreeInstance, FreeClient, FreeRest,
               FreeStep, CallbackOver
<1>6. CASE MonitorParameter \/ CvMap \/ CvUnmap
  BY <1>6 DEF MonitorParameter, CvMap, CvUnmap, OwnStep
<1>7. CASE ActivateOn \/ ToJack \/ ActivateOff
  <2>1. CASE ActivateOn
    BY <2>1 DEF ActivateOn, Lv2Activate, CallbackOver
  <2>2. CASE ToJack
    BY <2>2 DEF ToJack, CallbackOver
  <2>3. CASE ActivateOff
    BY <2>3 DEF ActivateOff, JackDeactivate, CallbackOver
  <2> QED
    BY <1>7, <2>1, <2>2, <2>3
<1>8. CASE MultiOff \/ ToLv2 \/ MultiToLv2
  BY <1>8 DEF MultiOff, ToLv2, MultiToLv2, Lv2Deactivate, JackDeactivate, CallbackOver
<1>9. CASE ProcessingOn \/ ProcessingOff \/ Waited
  BY <1>9 DEF ProcessingOn, ProcessingOff, Waited, CallbackOver, callVars
<1>10. CASE \/ PreRunBegin \/ StateLoadBegin \/ PresetLoadBegin
           \/ CallLock \/ CallEnd
  BY <1>10 DEF PreRunBegin, StateLoadBegin, PresetLoadBegin, CallLock, CallEnd, Unlock, callVars
<1>11. CASE LifeCallback
  BY <1>11 DEF LifeCallback, ProcessBegin, ProcessEnd, ResizeBegin, ResizeEnd, Reorder,
              Unlock, callVars
<1>12. CASE UNCHANGED lifeVars
  BY <1>12 DEF lifeVars
<1>13. QED
  BY <1>1, <1>2, <1>3, <1>4, <1>5, <1>6, <1>7, <1>8, <1>9, <1>10, <1>11, <1>12
  DEF LifeNext, LifeCommand

(* No cycle begins that could run the plugin next to a pre-run.            *)
LEMMA PreRunStep ==
  ASSUME LifeTypeOK, ClientInv, FlagInv, PreRunInv, [LifeNext]_lifeVars
  PROVE  PreRunInv'
<1> USE DEF LifeTypeOK, ClientInv, FlagInv, PreRunInv, JackFailed, Adding, Freeing, AddStep, Goto, slotVars
<1>1. CASE \/ \E a \in BOOLEAN : AddOpen(a)
           \/ AddBuffers \/ AddJack \/ AddFail
  BY <1>1 DEF AddOpen, AddBuffers, AddJack, AddFail
<1>2. CASE \/ AddPlugin \/ \E h \in Plugin : AddInstance(h)
           \/ AddPortsDone \/ AddPresets
  BY <1>2 DEF AddPlugin, AddInstance, AddPortsDone, AddPresets
<1>3. CASE AddAudioPort \/ AddControlPort \/ AddCvPort \/ AddEventPort
  BY <1>3 DEF AddAudioPort, AddControlPort, AddCvPort, AddEventPort, AddPort
<1>4. CASE RemoveBegin \/ RemoveDeactivate \/ RemoveOfMulti
  BY <1>4 DEF RemoveBegin, RemoveDeactivate, RemoveOfMulti, JackDeactivate, CallbackOver
<1>5. CASE FreeLists \/ FreeFeatures \/ FreePorts \/ FreeInstance \/ FreeClient \/ FreeRest
  BY <1>5 DEF FreeLists, FreeFeatures, FreePorts, FreeInstance, FreeClient, FreeRest,
               FreeStep, CallbackOver
<1>6. CASE MonitorParameter \/ CvMap \/ CvUnmap
  BY <1>6 DEF MonitorParameter, CvMap, CvUnmap, OwnStep
<1>7. CASE ActivateOn \/ ToJack \/ ActivateOff
  BY <1>7 DEF ActivateOn, Lv2Activate, ToJack, ActivateOff, JackDeactivate, CallbackOver
<1>8. CASE MultiOff \/ ToLv2 \/ MultiToLv2
  BY <1>8 DEF MultiOff, ToLv2, MultiToLv2, Lv2Deactivate, JackDeactivate, CallbackOver
<1>9. CASE ProcessingOn \/ ProcessingOff \/ Waited
  BY <1>9 DEF ProcessingOn, ProcessingOff, Waited, CallbackOver, callVars
<1>10. CASE \/ PreRunBegin \/ StateLoadBegin \/ PresetLoadBegin
           \/ CallLock \/ CallEnd
  BY <1>10 DEF PreRunBegin, StateLoadBegin, PresetLoadBegin, CallLock, CallEnd, Unlock, callVars
<1>11. CASE LifeCallback
  BY <1>11 DEF LifeCallback, ProcessBegin, ProcessEnd, ResizeBegin, ResizeEnd, Reorder,
              Unlock, callVars
<1>12. CASE UNCHANGED lifeVars
  BY <1>12 DEF lifeVars
<1>13. QED
  BY <1>1, <1>2, <1>3, <1>4, <1>5, <1>6, <1>7, <1>8, <1>9, <1>10, <1>11, <1>12
  DEF LifeNext, LifeCommand

-----------------------------------------------------------------------------
LEMMA LifeInvariant == LifeSpec => []LifeInv
<1>1. LifeInit => LifeInv
  BY DEF LifeInit, LifeInv, LifeTypeOK, ClientInv, BuiltInv, FreedInv, OwnerInv, UriInv,
         MutexInv, CallsHoldMutex, FlagInv, PreRunInv, Adding, Freeing, JackFailed
<1>2. LifeInv /\ [LifeNext]_lifeVars => LifeInv'
  BY TypeStep, ClientStep, BuiltStep, FreedStep, OwnerStep, UriStep, MutexStep, FlagStep, PreRunStep DEF LifeInv
<1>3. QED
  BY <1>1, <1>2, PTL DEF LifeSpec

(* Item by item, effects_remove frees all that effects_add has made, after *)
(* whatever failed, and forgets only the monitors and a mapped port's CV   *)
(* source; only a failing jack_activate makes effects_add free plugin_uri  *)
(* twice (effects.c:6077, 6404, 7707, 8570).                               *)
THEOREM NothingIsLeft == LifeSpec => []NothingLeft
<1>1. LifeInv => NothingLeft
  BY DEF LifeInv, ClientInv, FreedInv, UriInv, NothingLeft
<1>2. QED
  BY <1>1, LifeInvariant, PTL

(* Nothing is freed that a worker's thread or a callback of JACK still     *)
(* uses (effects.c:3640, 6477, 6485).                                      *)
THEOREM NothingUsedIsFreed == LifeSpec => []UsedIsHeld
<1>1. LifeInv => UsedIsHeld
  BY DEF LifeInv, LifeTypeOK, ClientInv, BuiltInv, OwnerInv, Parts, Freeing, UsedIsHeld
<1>2. QED
  BY <1>1, LifeInvariant, PTL

(* The flags of effect_t can be trusted between commands, unless JACK has  *)
(* refused to activate or deactivate the client (effects.c:6748, 6790).    *)
THEOREM FlagsAreTrue == LifeSpec => []FlagsTellTruth
<1>1. LifeInv => FlagsTellTruth
  BY DEF LifeInv, LifeTypeOK, ClientInv, FlagInv, FlagsTellTruth, Adding, Freeing
<1>2. QED
  BY <1>1, LifeInvariant, PTL

(* Nobody is in the plugin while it is run or restored by somebody else,   *)
(* or while it is not active (effects.c:2048, 7257, 9107).                 *)
THEOREM PluginIsAlone == LifeSpec => []CallsAreAlone
<1>1. LifeInv => RunsOnlyActive
  BY DEF LifeInv, LifeTypeOK, ClientInv, FlagInv, PreRunInv, RunsOnlyActive, Adding, Freeing
<1>2. LifeInv => RestoresAlone
  BY DEF LifeInv, MutexInv, CallsHoldMutex, RestoresAlone
<1>3. LifeInv => PreRunsAlone
  BY DEF LifeInv, LifeTypeOK, ClientInv, FlagInv, PreRunInv, PreRunsAlone
<1>4. LifeInv => LifeTypeOK /\ CallsHoldMutex
  BY DEF LifeInv, MutexInv
<1>5. QED
  BY <1>1, <1>2, <1>3, <1>4, LifeInvariant, PTL DEF CallsAreAlone

-----------------------------------------------------------------------------
(* What the fields in a ring take.                                         *)

Sums(f, ring) ==
  f[0] = 0 /\ \A n \in 1..Len(ring) : f[n] = f[n - 1] + Taken(ring[n])

LEMMA TakenType ==
  ASSUME NEW p \in Field
  PROVE  Taken(p) \in Nat
  BY WorkerAssumption DEF Field, Taken

LEMMA UsedSums ==
  ASSUME NEW ring \in Seq(Field)
  PROVE  \E f \in [0..Len(ring) -> Nat] : Sums(f, ring) /\ Used(ring) = f[Len(ring)]
<1> DEFINE L == Len(ring)
           step == [n \in 1..L |-> [k \in Nat |-> k + Taken(ring[n])]]
           Def(g) == [n \in 0..L |-> IF n = 0 THEN 0 ELSE g[n - 1] + Taken(ring[n])]
<1>1. L \in Nat /\ \A n \in 1..L : Taken(ring[n]) \in Nat
  BY TakenType
<1>2. step \in [1..L -> [Nat -> Nat]]
  BY <1>1
<1>3. PICK f : Follows(f, L, Nat, 0, step)
  <2>1. Steps(L, Nat, 0, step)
    BY <1>1, <1>2 DEF Steps
  <2> HIDE DEF L, step
  <2> QED
    BY <2>1, PrimitiveRecursion
<1>4. f \in [0..L -> Nat] /\ \A n \in 1..L : f[n - 1] \in Nat
  <2> HIDE DEF L, step
  <2>1. f \in [0..L -> Nat]
    BY <1>3 DEF Follows
  <2>2. \A n \in 1..L : n - 1 \in 0..L
    BY <1>1
  <2> QED
    BY <2>1, <2>2
<1>5. f[0] = 0 /\ \A n \in 1..L : f[n] = f[n - 1] + Taken(ring[n])
  BY <1>3, <1>4 DEF Follows
<1>6. f = Def(f)
  <2>1. \A n \in 0..L : n = 0 \/ n \in 1..L
    BY <1>1
  <2> HIDE DEF L
  <2> QED
    BY <1>4, <1>5, <2>1
<1> DEFINE used == CHOOSE g : g = Def(g)
<1>7. used = Def(used)
  <2> HIDE DEF Def
  <2> QED
    BY <1>6
<1>8. Used(ring) = used[L]
  BY DEF Used
<1> HIDE DEF used
<1> DEFINE A == {n \in 0..L : used[n] = f[n]}
<1>9. 0 \in A
  BY <1>1, <1>5, <1>7
<1>10. ASSUME NEW n \in 0..(L - 1), n \in A PROVE n + 1 \in A
  <2> DEFINE m == n + 1
  <2>1. m \in 0..L /\ m \in 1..L /\ m # 0 /\ m - 1 = n
    BY <1>1, <1>10
  <2> HIDE DEF m
  <2>2. used[m] = used[m - 1] + Taken(ring[m])
    BY <1>7, <2>1
  <2> QED
    BY <1>5, <1>10, <2>1, <2>2 DEF m
<1>11. L \in A
  <2>1. \A n \in 0..(L - 1) : n \in A => n + 1 \in A
    BY <1>10
  <2> HIDE DEF A, L
  <2>2. 0..L \subseteq A
    BY <1>1, <1>9, <2>1, BoundedInduction
  <2> QED
    BY <1>1, <2>2
<1> QED
  BY <1>4, <1>5, <1>8, <1>11 DEF Sums

(* Any function with these sums tells what is used.                        *)
LEMMA UsedIsSum ==
  ASSUME NEW ring \in Seq(Field), NEW g, Sums(g, ring)
  PROVE  Used(ring) = g[Len(ring)] /\ Used(ring) \in Nat
<1> DEFINE L == Len(ring)
<1>1. PICK f \in [0..L -> Nat] : Sums(f, ring) /\ Used(ring) = f[L]
  BY UsedSums
<1>2. L \in Nat
  OBVIOUS
<1> DEFINE A == {n \in 0..L : g[n] = f[n]}
<1>3. 0 \in A
  BY <1>1, <1>2 DEF Sums
<1>4. ASSUME NEW n \in 0..(L - 1), n \in A PROVE n + 1 \in A
  <2>1. n + 1 \in 1..L /\ (n + 1) - 1 = n /\ n + 1 \in 0..L
    BY <1>2
  <2>2. g[n + 1] = g[n] + Taken(ring[n + 1]) /\ f[n + 1] = f[n] + Taken(ring[n + 1])
    BY <1>1, <2>1 DEF Sums
  <2> QED
    BY <1>4, <2>1, <2>2
<1>5. L \in A
  <2>1. \A n \in 0..(L - 1) : n \in A => n + 1 \in A
    BY <1>4
  <2> HIDE DEF A, L
  <2>2. 0..L \subseteq A
    BY <1>2, <1>3, <2>1, BoundedInduction
  <2> QED
    BY <1>2, <2>2
<1> QED
  BY <1>1, <1>2, <1>5

LEMMA UsedEmpty == Used(<<>>) = 0
<1> DEFINE g == [n \in {0} |-> 0]
<1>1. <<>> \in Seq(Field) /\ Len(<<>>) = 0 /\ Sums(g, <<>>)
  BY DEF Sums
<1> HIDE DEF g
<1>2. Used(<<>>) = g[0]
  BY <1>1, UsedIsSum
<1> QED
  BY <1>2 DEF g

LEMMA UsedAppend ==
  ASSUME NEW ring \in Seq(Field), NEW p \in Field
  PROVE  /\ Append(ring, p) \in Seq(Field)
         /\ Used(Append(ring, p)) = Used(ring) + Taken(p) /\ Used(ring) \in Nat
<1> DEFINE L == Len(ring)
           new == Append(ring, p)
<1>1. PICK f \in [0..L -> Nat] : Sums(f, ring) /\ Used(ring) = f[L]
  BY UsedSums
<1>2. /\ L \in Nat /\ new \in Seq(Field) /\ Len(new) = L + 1
      /\ new[L + 1] = p /\ \A n \in 1..L : new[n] = ring[n]
  OBVIOUS
<1> DEFINE g == [n \in 0..(L + 1) |-> IF n = L + 1 THEN f[L] + Taken(p) ELSE f[n]]
<1>3. /\ \A n \in 0..L : g[n] = f[n]
      /\ g[L + 1] = f[L] + Taken(p)
  BY <1>2
<1>4. \A n \in 1..(L + 1) : g[n] = g[n - 1] + Taken(new[n])
  <2>0. L \in Nat
    BY <1>2
  <2> HIDE DEF new, g, L
  <2> SUFFICES ASSUME NEW n \in 1..(L + 1) PROVE g[n] = g[n - 1] + Taken(new[n])
    OBVIOUS
  <2>1. CASE n = L + 1
    <3>1. n - 1 = L /\ L \in 0..L
      BY <2>0, <2>1
    <3> QED
      BY <1>2, <1>3, <2>1, <3>1
  <2>2. CASE n # L + 1
    <3>1. n \in 1..L /\ n - 1 \in 0..L /\ n \in 0..L
      BY <1>2, <2>2
    <3>2. f[n] = f[n - 1] + Taken(ring[n])
      BY <1>1, <3>1 DEF Sums, L
    <3> QED
      BY <1>2, <1>3, <3>1, <3>2
  <2> QED
    BY <2>1, <2>2
<1>5. Sums(g, new)
  <2>1. g[0] = 0
    BY <1>1, <1>2 DEF Sums
  <2> HIDE DEF new, g, L
  <2> QED
    BY <1>2, <1>4, <2>1 DEF Sums
<1> HIDE DEF g, new
<1>6. Used(new) = g[L + 1]
  BY <1>2, <1>5, UsedIsSum
<1>7. L \in 0..L
  BY <1>2
<1> QED
  BY <1>1, <1>2, <1>3, <1>6, <1>7 DEF new

(* A message that is taken off takes no more room.                         *)
LEMMA UsedDrop ==
  ASSUME NEW ring \in Seq(Field), Len(ring) >= 2
  PROVE  LET rest == SubSeq(ring, 3, Len(ring))
         IN  /\ rest \in Seq(Field) /\ Len(rest) = Len(ring) - 2
             /\ \A i \in 1..(Len(ring) - 2) : rest[i] = ring[i + 2]
             /\ Used(rest) <= Used(ring) /\ Used(rest) \in Nat /\ Used(ring) \in Nat
<1> DEFINE L == Len(ring)
           rest == SubSeq(ring, 3, L)
<1>1. PICK f \in [0..L -> Nat] : Sums(f, ring) /\ Used(ring) = f[L]
  BY UsedSums
<1>2. /\ L \in Nat /\ L >= 2 /\ rest \in Seq(Field) /\ Len(rest) = L - 2
      /\ \A n \in 1..(L - 2) : rest[n] = ring[n + 2]
  OBVIOUS
<1> DEFINE g == [n \in 0..(L - 2) |-> f[n + 2] - f[2]]
<1>3. \A n \in 0..(L - 2) : n + 2 \in 0..L /\ f[n + 2] \in Nat /\ f[2] \in Nat
  BY <1>1, <1>2
<1>4. g[0] = 0
  BY <1>2, <1>3
<1>5. ASSUME NEW n \in 1..(L - 2)
      PROVE  g[n] = g[n - 1] + Taken(rest[n])
  <2>1. /\ n \in 0..(L - 2) /\ n - 1 \in 0..(L - 2) /\ (n - 1) + 2 = n + 1
        /\ n + 2 \in 1..L /\ (n + 2) - 1 = n + 1
    BY <1>2
  <2>2. g[n] = f[n + 2] - f[2] /\ g[n - 1] = f[n + 1] - f[2]
    BY <2>1
  <2>3. f[n + 2] = f[n + 1] + Taken(ring[n + 2])
    BY <1>1, <2>1 DEF Sums
  <2>4. Taken(rest[n]) = Taken(ring[n + 2]) /\ Taken(ring[n + 2]) \in Nat
    BY <1>2, <2>1, TakenType
  <2>5. f[n + 1] \in Nat /\ f[n + 2] \in Nat /\ f[2] \in Nat
    BY <1>3, <2>1
  <2> QED
    BY <2>2, <2>3, <2>4, <2>5
<1>6. Sums(g, rest)
  <2> HIDE DEF g, rest, L
  <2> QED
    BY <1>2, <1>4, <1>5 DEF Sums
<1>7. g[L - 2] = f[L] - f[2] /\ f[L] \in Nat /\ f[2] \in Nat
  <2>1. L - 2 \in 0..(L - 2) /\ (L - 2) + 2 = L
    BY <1>2
  <2> QED
    BY <1>3, <2>1
<1> HIDE DEF g, rest
<1>8. Used(rest) = g[L - 2] /\ Used(rest) \in Nat
  BY <1>2, <1>6, UsedIsSum
<1>9. Used(rest) <= Used(ring)
  BY <1>1, <1>7, <1>8
<1> QED
  BY <1>1, <1>2, <1>7, <1>8, <1>9 DEF rest

-----------------------------------------------------------------------------
(* Messages in a ring.                                                     *)

(* What is in a ring, with the body that is still to come, fits into it.   *)
Whole(ring, writing) ==
  /\ ring \in Seq(Field) /\ Framed(ring, writing)
  /\ Used(ring) + (IF writing = NoRequest THEN 0 ELSE Size[writing]) <= Room
  /\ writing # NoRequest => ring[Len(ring)] = SizeOf(writing)

LEMMA WholeEmpty == Whole(<<>>, NoRequest)
<1>1. Framed(<<>>, NoRequest)
  BY DEF Framed
<1> QED
  BY <1>1, UsedEmpty, WorkerAssumption DEF Whole

LEMMA WholeSize ==
  ASSUME NEW ring, Whole(ring, NoRequest), NEW m \in Request, Fits(m, ring)
  PROVE  /\ Whole(Append(ring, SizeOf(m)), m)
         /\ Len(ring) % 2 = 0 /\ Len(Append(ring, SizeOf(m))) = Len(ring) + 1
         /\ Messages(Append(ring, SizeOf(m))) = Messages(ring)
<1> DEFINE L == Len(ring)
           new == Append(ring, SizeOf(m))
<1>1. /\ ring \in Seq(Field) /\ L \in Nat /\ SizeOf(m) \in Field /\ m # NoRequest
      /\ L % 2 = 0 /\ (L + 1) % 2 = 1
  <2>1. ring \in Seq(Field) /\ L \in Nat
    BY DEF Whole
  <2>2. L % 2 # 1
    BY DEF Whole, Framed
  <2>3. L % 2 = 0 /\ (L + 1) % 2 = 1
    BY <2>1, <2>2
  <2>4. SizeOf(m) \in Field /\ m # NoRequest
    BY WorkerAssumption DEF SizeOf, Field
  <2> QED
    BY <2>1, <2>3, <2>4
<1>2. /\ new \in Seq(Field) /\ Len(new) = L + 1 /\ new[L + 1] = SizeOf(m)
      /\ \A i \in 1..L : new[i] = ring[i]
      /\ DOMAIN new = 1..(L + 1) /\ DOMAIN ring = 1..L
  <2>1. ring \in Seq(Field) /\ DOMAIN ring = 1..L
    BY <1>1
  <2>2. new \in Seq(Field) /\ Len(new) = L + 1
    BY <1>1
  <2>3. DOMAIN new = 1..(L + 1)
    BY <1>1, <2>2
  <2>4. \A i \in 1..L : new[i] = ring[i]
    BY <1>1
  <2>5. new[L + 1] = SizeOf(m)
    BY <1>1
  <2> QED
    BY <2>1, <2>2, <2>3, <2>4, <2>5
<1>3. \A i \in 1..L : ring[i] = IF i % 2 = 1 THEN SizeOf(ring[i].of) ELSE BodyOf(ring[i - 1].of)
  <2>1. DOMAIN ring = 1..L
    BY <1>1
  <2> HIDE DEF L
  <2> QED
    BY <2>1 DEF Whole, Framed
<1>4. \A i \in 1..(L + 1) : new[i] = IF i % 2 = 1 THEN SizeOf(new[i].of) ELSE BodyOf(new[i - 1].of)
  <2> SUFFICES ASSUME NEW i \in 1..(L + 1)
               PROVE  new[i] = IF i % 2 = 1 THEN SizeOf(new[i].of) ELSE BodyOf(new[i - 1].of)
    OBVIOUS
  <2> HIDE DEF new, L
  <2>1. CASE i = L + 1
    BY <1>1, <1>2, <2>1 DEF SizeOf
  <2>2. CASE i \in 1..L /\ i % 2 = 1
    BY <1>2, <1>3, <2>2
  <2>3. CASE i \in 1..L /\ i % 2 # 1
    <3>1. i - 1 \in 1..L
      BY <1>1, <2>3
    <3> QED
      BY <1>2, <1>3, <2>3, <3>1
  <2> QED
    BY <1>1, <2>1, <2>2, <2>3
<1>5. Framed(new, m)
  <2> HIDE DEF new, L
  <2> QED
    BY <1>1, <1>2, <1>4 DEF Framed
<1>6. Used(new) = Used(ring) + 1 /\ Used(ring) \in Nat
  BY <1>1, UsedAppend DEF Taken, SizeOf
<1>7. Used(new) + Size[m] <= Room
  BY <1>6, WorkerAssumption DEF Fits
<1>8. Messages(new) = Messages(ring)
  <2> DEFINE k == L \div 2
  <2>1. k \in Nat /\ L = 2 * k /\ (L + 1) \div 2 = k
    BY <1>1
  <2>2. \A i \in 1..k : 2 * i \in 1..L
    BY <1>1, <2>1
  <2> HIDE DEF new
  <2>3. \A i \in 1..k : new[2 * i] = ring[2 * i]
    BY <1>2, <2>2
  <2> HIDE DEF L, k
  <2>4. Messages(new) = [i \in 1..k |-> new[2 * i].of] /\ Messages(ring) = [i \in 1..k |-> ring[2 * i].of]
    BY <1>2, <2>1 DEF Messages, L, k
  <2> QED
    BY <2>3, <2>4
<1> QED
  BY <1>1, <1>2, <1>5, <1>7, <1>8 DEF Whole

LEMMA WholeBody ==
  ASSUME NEW ring, NEW m \in Request, Whole(ring, m)
  PROVE  /\ Whole(Append(ring, BodyOf(m)), NoRequest)
         /\ Messages(Append(ring, BodyOf(m))) = Append(Messages(ring), m)
<1> DEFINE L == Len(ring)
           new == Append(ring, BodyOf(m))
<1>1. /\ ring \in Seq(Field) /\ L \in Nat /\ BodyOf(m) \in Field /\ m # NoRequest
      /\ L % 2 = 1 /\ (L + 1) % 2 = 0 /\ ring[L] = SizeOf(m) /\ L >= 1
  <2>1. ring \in Seq(Field) /\ L \in Nat
    BY DEF Whole
  <2>2. BodyOf(m) \in Field /\ m # NoRequest
    BY WorkerAssumption DEF BodyOf, Field
  <2>3. L % 2 = 1 /\ ring[L] = SizeOf(m)
    BY <2>2 DEF Whole, Framed
  <2>4. (L + 1) % 2 = 0 /\ L >= 1
    BY <2>1, <2>3
  <2> QED
    BY <2>1, <2>2, <2>3, <2>4
<1>2. /\ new \in Seq(Field) /\ Len(new) = L + 1 /\ new[L + 1] = BodyOf(m)
      /\ \A i \in 1..L : new[i] = ring[i]
      /\ DOMAIN new = 1..(L + 1) /\ DOMAIN ring = 1..L
  <2>1. ring \in Seq(Field) /\ DOMAIN ring = 1..L
    BY <1>1
  <2>2. new \in Seq(Field) /\ Len(new) = L + 1
    BY <1>1
  <2>3. DOMAIN new = 1..(L + 1)
    BY <1>1, <2>2
  <2>4. \A i \in 1..L : new[i] = ring[i]
    BY <1>1
  <2>5. new[L + 1] = BodyOf(m)
    BY <1>1
  <2> QED
    BY <2>1, <2>2, <2>3, <2>4, <2>5
<1>3. \A i \in 1..L : ring[i] = IF i % 2 = 1 THEN SizeOf(ring[i].of) ELSE BodyOf(ring[i - 1].of)
  <2>1. DOMAIN ring = 1..L
    BY <1>1
  <2> HIDE DEF L
  <2> QED
    BY <2>1 DEF Whole, Framed
<1>4. \A i \in 1..(L + 1) : new[i] = IF i % 2 = 1 THEN SizeOf(new[i].of) ELSE BodyOf(new[i - 1].of)
  <2> SUFFICES ASSUME NEW i \in 1..(L + 1)
               PROVE  new[i] = IF i % 2 = 1 THEN SizeOf(new[i].of) ELSE BodyOf(new[i - 1].of)
    OBVIOUS
  <2> HIDE DEF new, L
  <2>1. CASE i = L + 1
    <3>1. new[i - 1] = SizeOf(m)
      BY <1>1, <1>2, <2>1 DEF L
    <3> QED
      BY <1>1, <1>2, <2>1, <3>1 DEF SizeOf
  <2>2. CASE i \in 1..L /\ i % 2 = 1
    BY <1>2, <1>3, <2>2
  <2>3. CASE i \in 1..L /\ i % 2 # 1
    <3>1. i - 1 \in 1..L
      BY <1>1, <2>3
    <3> QED
      BY <1>2, <1>3, <2>3, <3>1
  <2> QED
    BY <1>1, <2>1, <2>2, <2>3
<1>5. Framed(new, NoRequest)
  <2> HIDE DEF new, L
  <2> QED
    BY <1>1, <1>2, <1>4 DEF Framed
<1>6. Used(new) = Used(ring) + Size[m] /\ Used(ring) \in Nat
  BY <1>1, UsedAppend DEF Taken, BodyOf
<1>7. Used(new) <= Room
  BY <1>1, <1>6, WorkerAssumption DEF Whole
<1>8. Messages(new) = Append(Messages(ring), m)
  <2> DEFINE k == L \div 2
  <2>1. k \in Nat /\ L = 2 * k + 1 /\ (L + 1) \div 2 = k + 1
    BY <1>1
  <2>2. \A i \in 1..k : 2 * i \in 1..L
    BY <1>1, <2>1
  <2> HIDE DEF new
  <2>3. \A i \in 1..k : new[2 * i] = ring[2 * i]
    BY <1>2, <2>2
  <2>4. new[2 * (k + 1)].of = m
    BY <1>2, <2>1 DEF BodyOf
  <2> HIDE DEF L, k
  <2>5. /\ Messages(new) = [i \in 1..(k + 1) |-> new[2 * i].of]
        /\ Messages(ring) = [i \in 1..k |-> ring[2 * i].of]
    BY <1>2, <2>1 DEF Messages, L, k
  <2> QED
    BY <2>1, <2>3, <2>4, <2>5
<1>9. Used(new) + 0 <= Room
  BY <1>6, <1>7, WorkerAssumption
<1> QED
  BY <1>2, <1>5, <1>7, <1>8, <1>9 DEF Whole

LEMMA WholeDrop ==
  ASSUME NEW ring, NEW m \in Request \union {NoRequest}, Whole(ring, m), Len(ring) >= 2
  PROVE  LET rest == SubSeq(ring, 3, Len(ring))
         IN  /\ Whole(rest, m)
             /\ Messages(ring) # <<>> /\ Messages(rest) = Tail(Messages(ring))
             /\ ring[1].of \in Request
<1> DEFINE L == Len(ring)
           rest == SubSeq(ring, 3, L)
<1>1. ring \in Seq(Field) /\ L \in Nat /\ L >= 2
  BY DEF Whole
<1>2. /\ rest \in Seq(Field) /\ Len(rest) = L - 2
      /\ \A i \in 1..(L - 2) : rest[i] = ring[i + 2]
      /\ Used(rest) <= Used(ring) /\ Used(rest) \in Nat /\ Used(ring) \in Nat
      /\ DOMAIN rest = 1..(L - 2) /\ DOMAIN ring = 1..L
  <2>1. rest \in Seq(Field) /\ Len(rest) = L - 2 /\ DOMAIN rest = 1..(L - 2) /\ DOMAIN ring = 1..L
    <3>1. rest \in Seq(Field) /\ Len(rest) = L - 2
      BY <1>1, UsedDrop
    <3> HIDE DEF rest
    <3> QED
      BY <1>1, <3>1
  <2> QED
    BY <1>1, <2>1, UsedDrop
<1>3. \A i \in 1..L : ring[i] = IF i % 2 = 1 THEN SizeOf(ring[i].of) ELSE BodyOf(ring[i - 1].of)
  BY <1>2 DEF Whole, Framed
<1> HIDE DEF rest
<1>4. \A i \in 1..(L - 2) : rest[i] = IF i % 2 = 1 THEN SizeOf(rest[i].of) ELSE BodyOf(rest[i - 1].of)
  <2> SUFFICES ASSUME NEW i \in 1..(L - 2)
               PROVE  rest[i] = IF i % 2 = 1 THEN SizeOf(rest[i].of) ELSE BodyOf(rest[i - 1].of)
    OBVIOUS
  <2>1. i + 2 \in 1..L /\ (i + 2) % 2 = i % 2 /\ rest[i] = ring[i + 2]
    BY <1>1, <1>2
  <2>2. CASE i % 2 = 1
    BY <1>3, <2>1, <2>2
  <2>3. CASE i % 2 # 1
    <3>1. i - 1 \in 1..(L - 2) /\ (i - 1) + 2 = (i + 2) - 1
      BY <1>1, <2>3
    <3>2. rest[i - 1] = ring[(i + 2) - 1]
      BY <1>2, <3>1
    <3> QED
      BY <1>3, <2>1, <2>3, <3>2
  <2> QED
    BY <2>2, <2>3
<1>5. Framed(rest, m)
  <2>1. (L - 2) % 2 = L % 2
    BY <1>1
  <2>2. (L % 2 = 1) = (m # NoRequest)
    BY DEF Whole, Framed
  <2> HIDE DEF L
  <2> QED
    BY <1>2, <1>4, <2>1, <2>2 DEF Framed
<1>6. m # NoRequest => rest[Len(rest)] = SizeOf(m)
  <2> SUFFICES ASSUME m # NoRequest PROVE rest[L - 2] = SizeOf(m)
    BY <1>2
  <2>1. L % 2 = 1
    BY DEF Whole, Framed
  <2>2. L - 2 \in 1..(L - 2) /\ (L - 2) + 2 = L
    BY <1>1, <2>1
  <2> QED
    BY <1>2, <2>2 DEF Whole
<1>7. Used(rest) + (IF m = NoRequest THEN 0 ELSE Size[m]) <= Room
  BY <1>2, WorkerAssumption DEF Whole
<1>8. Messages(ring) # <<>> /\ Messages(rest) = Tail(Messages(ring))
  <2> DEFINE k == L \div 2
  <2>1. k \in Nat /\ k >= 1 /\ (L - 2) \div 2 = k - 1 /\ 2 * k <= L
    BY <1>1
  <2>2. \A i \in 1..(k - 1) : 2 * i \in 1..(L - 2) /\ 2 * i + 2 = 2 * (i + 1)
    BY <1>1, <2>1
  <2>3. \A i \in 1..(k - 1) : rest[2 * i] = ring[2 * (i + 1)]
    BY <1>2, <2>2
  <2> HIDE DEF L, k
  <2>4. /\ Messages(rest) = [i \in 1..(k - 1) |-> rest[2 * i].of]
        /\ Messages(ring) = [i \in 1..k |-> ring[2 * i].of]
    BY <1>2, <2>1 DEF Messages, L, k
  <2>5. /\ Tail(Messages(ring)) = [i \in 1..(k - 1) |-> ring[2 * (i + 1)].of]
        /\ Messages(ring) # <<>>
    <3> DEFINE M == Messages(ring)
               T == {ring[2 * i].of : i \in 1..k}
    <3>1. M = [i \in 1..k |-> ring[2 * i].of]
      BY <2>4
    <3> HIDE DEF M
    <3>2. Len(M) = k
      BY <2>1, <3>1
    <3>3. M \in Seq(T)
      <4>1. k \in Nat /\ \A i \in 1..k : ring[2 * i].of \in T
        BY <2>1
      <4> HIDE DEF T
      <4> QED
        BY <3>1, <4>1
    <3> HIDE DEF T
    <3>4. M # <<>> /\ Tail(M) = [i \in 1..(k - 1) |-> M[i + 1]]
      <4>1. M # <<>>
        BY <2>1, <3>2
      <4>2. /\ Tail(M) \in Seq(T) /\ Len(Tail(M)) = Len(M) - 1
            /\ \A i \in 1..Len(Tail(M)) : Tail(M)[i] = M[i + 1]
        BY <3>3, <4>1, HeadTailProperties, Zenon
      <4>3. Tail(M) = [i \in 1..(k - 1) |-> Tail(M)[i]]
        <5>1. Tail(M) = [i \in 1..Len(Tail(M)) |-> Tail(M)[i]]
          <6> DEFINE t == Tail(M)
          <6>1. t \in Seq(T)
            BY <4>2
          <6> HIDE DEF t
          <6>2. t = [i \in 1..Len(t) |-> t[i]]
            BY <6>1
          <6> QED
            BY <6>2 DEF t
        <5> QED
          BY <3>2, <4>2, <5>1
      <4> QED
        BY <3>2, <4>1, <4>2, <4>3
    <3>5. \A i \in 1..(k - 1) : M[i + 1] = ring[2 * (i + 1)].of
      <4> TAKE i \in 1..(k - 1)
      <4>1. i + 1 \in 1..k
        BY <2>1
      <4> QED
        BY <3>1, <4>1
    <3> QED
      BY <3>4, <3>5 DEF M
  <2> QED
    BY <2>3, <2>4, <2>5
<1>9. ring[1].of \in Request
  <2>1. ring[1] \in Field
    BY <1>1
  <2> QED
    BY <2>1 DEF Field
<1> QED
  BY <1>2, <1>5, <1>6, <1>7, <1>8, <1>9 DEF Whole, rest

-----------------------------------------------------------------------------
(* Every step keeps the invariant.                                         *)

Responding == IF thread.at = "respond" THEN thread.message ELSE NoRequest

(* Where the client is says whether there are a thread, rings and a        *)
(* request in the making, and whether the thread is to end.                *)
PhaseInv ==
  /\ client \in {"out", "rings"} =>
       requests = <<>> /\ responses = <<>> /\ ~rings /\ scheduling = NoRequest
  /\ client \in {"in", "post", "join"} => rings
  /\ client = "out" <=> thread.at = "none"
  /\ client = "rings" => thread.at = "sleep" /\ sem = 0
  /\ client \in {"rings", "in"} => ~exit
  /\ client \in {"post", "join"} => exit /\ scheduling = NoRequest
  /\ thread.at = "over" => client \in {"post", "join"}

WorkerInv ==
  /\ WorkerTypeOK /\ PhaseInv /\ NoSleepOnWork
  /\ Whole(requests, scheduling) /\ Whole(responses, Responding)

LEMMA WorkerInitHolds == WorkerInit => WorkerInv
<1> SUFFICES ASSUME WorkerInit PROVE WorkerInv
  OBVIOUS
<1>1. WorkerTypeOK
  <2>1. requests = <<>> /\ responses = <<>> /\ <<>> \in Seq(Field) /\ Used(<<>>) <= Room
    BY UsedEmpty, WorkerAssumption DEF WorkerInit
  <2>2. sem \in 0..SemMax
    BY WorkerAssumption DEF WorkerInit
  <2> QED
    BY <2>1, <2>2 DEF WorkerInit, WorkerTypeOK, ThreadAt
<1>2. Whole(requests, scheduling) /\ Whole(responses, Responding)
  BY WholeEmpty DEF WorkerInit, Responding, ThreadAt
<1>3. PhaseInv /\ NoSleepOnWork
  BY DEF WorkerInit, PhaseInv, NoSleepOnWork, ThreadAt
<1> QED
  BY <1>1, <1>2, <1>3 DEF WorkerInv

(* The part of the invariant that is about one ring.                       *)
LEMMA WholeFits ==
  ASSUME NEW ring, NEW m \in Request \union {NoRequest}, Whole(ring, m)
  PROVE  ring \in Seq(Field) /\ Used(ring) <= Room
<1>1. ring \in Seq(Field)
  BY DEF Whole
<1>2. Used(ring) \in Nat
  BY <1>1, UsedSums
<1> QED
  BY <1>1, <1>2, WorkerAssumption DEF Whole

LEMMA WorkerFacts ==
  ASSUME WorkerInv
  PROVE  /\ scheduling \in Request \union {NoRequest} /\ Responding \in Request \union {NoRequest}
         /\ thread.at = "respond" => Responding = thread.message /\ thread.message \in Request
         /\ thread.at # "respond" => Responding = NoRequest
         /\ requests \in Seq(Field) /\ Len(requests) \in Nat
         /\ sem \in Nat /\ SemMax \in Nat \ {0}
<1> QED
  BY WorkerAssumption DEF WorkerInv, WorkerTypeOK, Responding

(* What is left to show when both rings are whole after a step.            *)
LEMMA WorkerTypes ==
  ASSUME Whole(requests', scheduling'), Whole(responses', Responding'),
         rings' \in BOOLEAN, sem' \in 0..SemMax, exit' \in BOOLEAN,
         thread' \in [at : {"none", "sleep", "loop", "over"}, message : {NoRequest}]
                       \cup [at : {"work", "respond"}, message : Request],
         scheduling' \in Request \cup {NoRequest},
         client' \in {"out", "rings", "in", "post", "join"}
  PROVE  WorkerTypeOK'
<1>1. Responding' \in Request \cup {NoRequest}
  BY DEF Responding
<1>2. /\ requests' \in Seq(Field) /\ Used(requests') <= Room
      /\ responses' \in Seq(Field) /\ Used(responses') <= Room
  BY <1>1, WholeFits
<1> QED
  BY <1>2 DEF WorkerTypeOK

LEMMA CreateKeeps == ASSUME WorkerInv, WorkerCreate PROVE WorkerInv'
<1>1. Responding' = NoRequest /\ Responding = NoRequest
  BY DEF WorkerInv, PhaseInv, WorkerCreate, Responding, ThreadAt
<1>2. Whole(requests', scheduling') /\ Whole(responses', Responding')
  BY <1>1 DEF WorkerCreate, WorkerInv
<1>3. WorkerTypeOK'
  <2>1. sem' \in 0..SemMax
    BY WorkerAssumption DEF WorkerCreate
  <2>2. rings' \in BOOLEAN /\ exit' \in BOOLEAN /\ scheduling' \in Request \cup {NoRequest}
    BY DEF WorkerCreate, WorkerInv, WorkerTypeOK
  <2>3. thread' = [at |-> "sleep", message |-> NoRequest] /\ client' = "rings"
    BY DEF WorkerCreate, ThreadAt
  <2> QED
    BY <1>2, <2>1, <2>2, <2>3, WorkerTypes
<1>4. PhaseInv'
  BY DEF WorkerCreate, WorkerInv, PhaseInv, ThreadAt
<1>5. NoSleepOnWork'
  BY DEF WorkerCreate, WorkerInv, PhaseInv, NoSleepOnWork
<1> QED
  BY <1>2, <1>3, <1>4, <1>5 DEF WorkerInv

LEMMA RingsKeeps == ASSUME WorkerInv, WorkerRings PROVE WorkerInv'
<1>1. Responding' = NoRequest /\ scheduling' = NoRequest
  BY DEF WorkerInv, PhaseInv, WorkerRings, Responding
<1>2. Whole(requests', scheduling') /\ Whole(responses', Responding')
  BY <1>1, WholeEmpty DEF WorkerRings
<1>3. WorkerTypeOK'
  BY <1>2, WorkerTypes DEF WorkerRings, WorkerInv, WorkerTypeOK
<1>4. PhaseInv'
  BY DEF WorkerRings, WorkerInv, PhaseInv
<1>5. NoSleepOnWork'
  BY DEF WorkerRings, NoSleepOnWork
<1> QED
  BY <1>2, <1>3, <1>4, <1>5 DEF WorkerInv

(* worker_finish.                                                          *)
LEMMA FinishKeeps ==
  ASSUME WorkerInv, FinishExit \/ FinishPost
  PROVE  WorkerInv'
<1>0. /\ UNCHANGED <<requests, responses, rings, thread, scheduling>>
      /\ sem' \in {sem, sem + 1} /\ sem' \in 0..SemMax /\ sem' >= sem
      /\ client' \in {"post", "join"} /\ exit' \in BOOLEAN
  <2>1. sem \in 0..SemMax /\ exit \in BOOLEAN
    BY DEF WorkerInv, WorkerTypeOK
  <2>2. CASE FinishExit
    BY <2>1, <2>2, WorkerFacts DEF FinishExit
  <2>3. CASE FinishPost
    BY <2>1, <2>3, WorkerFacts DEF FinishPost, PostSem
  <2> QED
    BY <2>2, <2>3
<1>1. Responding' = Responding
  BY <1>0 DEF Responding
<1>2. Whole(requests', scheduling') /\ Whole(responses', Responding')
  BY <1>0, <1>1 DEF WorkerInv
<1>3. WorkerTypeOK'
  BY <1>0, <1>2, WorkerTypes DEF WorkerInv, WorkerTypeOK
<1>4. PhaseInv'
  BY <1>0 DEF FinishExit, FinishPost, WorkerInv, PhaseInv
<1>5. exit'
  BY DEF FinishExit, FinishPost, WorkerInv, PhaseInv
<1> QED
  BY <1>2, <1>3, <1>4, <1>5 DEF WorkerInv, NoSleepOnWork

LEMMA JoinKeeps == ASSUME WorkerInv, FinishJoin PROVE WorkerInv'
<1>1. Responding' = NoRequest /\ scheduling' = NoRequest
  BY DEF WorkerInv, PhaseInv, FinishJoin, Responding, ThreadAt
<1>2. Whole(requests', scheduling') /\ Whole(responses', Responding')
  BY <1>1, WholeEmpty DEF FinishJoin
<1>3. WorkerTypeOK'
  BY <1>2, WorkerTypes DEF FinishJoin, WorkerInv, WorkerTypeOK, ThreadAt
<1>4. PhaseInv' /\ NoSleepOnWork'
  BY DEF FinishJoin, WorkerInv, PhaseInv, ThreadAt, NoSleepOnWork
<1> QED
  BY <1>2, <1>3, <1>4 DEF WorkerInv

(* worker_schedule.                                                        *)
LEMMA ScheduleSizeKeeps ==
  ASSUME WorkerInv, NEW m \in Request, ScheduleSize(m)
  PROVE  WorkerInv'
<1>1. /\ scheduling = NoRequest /\ scheduling' = m /\ requests' = Append(requests, SizeOf(m))
      /\ Fits(m, requests) /\ UNCHANGED <<responses, rings, sem, exit, thread, client>>
      /\ client = "in"
  BY DEF ScheduleSize
<1>2. Whole(requests', m) /\ Len(requests) % 2 = 0 /\ Len(requests') = Len(requests) + 1
  BY <1>1, WholeSize DEF WorkerInv
<1>3. Responding' = Responding
  BY <1>1 DEF Responding
<1>4. Whole(requests', scheduling') /\ Whole(responses', Responding')
  BY <1>1, <1>2, <1>3 DEF WorkerInv
<1>5. WorkerTypeOK'
  BY <1>1, <1>4, WorkerTypes DEF WorkerInv, WorkerTypeOK
<1>6. PhaseInv'
  BY <1>1 DEF WorkerInv, PhaseInv
<1>7. NoSleepOnWork'
  <2>1. Len(requests') >= 2 => Len(requests) >= 2
    BY <1>2, WorkerFacts
  <2> QED
    BY <1>1, <2>1 DEF WorkerInv, NoSleepOnWork
<1> QED
  BY <1>4, <1>5, <1>6, <1>7 DEF WorkerInv

LEMMA ScheduleBodyKeeps == ASSUME WorkerInv, ScheduleBody PROVE WorkerInv'
<1>1. /\ scheduling \in Request /\ scheduling' = NoRequest
      /\ requests' = Append(requests, BodyOf(scheduling))
      /\ UNCHANGED <<responses, rings, exit, thread, client>>
      /\ sem' \in 0..SemMax /\ sem' > 0
  BY WorkerFacts DEF ScheduleBody, PostSem, WorkerInv, WorkerTypeOK
<1>2. Whole(requests', NoRequest)
  BY <1>1, WholeBody DEF WorkerInv
<1>3. Responding' = Responding
  BY <1>1 DEF Responding
<1>4. Whole(requests', scheduling') /\ Whole(responses', Responding')
  BY <1>1, <1>2, <1>3 DEF WorkerInv
<1>5. WorkerTypeOK'
  BY <1>1, <1>4, WorkerTypes DEF WorkerInv, WorkerTypeOK
<1>6. client = "in"
  BY DEF ScheduleBody, WorkerInv, PhaseInv, WorkerTypeOK
<1>7. PhaseInv' /\ NoSleepOnWork'
  BY <1>1, <1>6 DEF WorkerInv, PhaseInv, NoSleepOnWork
<1> QED
  BY <1>4, <1>5, <1>7 DEF WorkerInv

(* worker_emit_responses.                                                  *)
LEMMA EmitKeeps == ASSUME WorkerInv, EmitResponse PROVE WorkerInv'
<1>1. /\ UNCHANGED <<requests, rings, sem, exit, thread, scheduling, client>>
      /\ responses' = SubSeq(responses, 3, Len(responses)) /\ Len(responses) >= 2
      /\ client = "in"
  BY DEF EmitResponse
<1>2. Responding' = Responding
  BY <1>1 DEF Responding
<1>3. Whole(requests', scheduling') /\ Whole(responses', Responding')
  BY <1>1, <1>2, WorkerFacts, WholeDrop DEF WorkerInv
<1>4. WorkerTypeOK'
  BY <1>1, <1>3, WorkerTypes DEF WorkerInv, WorkerTypeOK
<1>5. PhaseInv' /\ NoSleepOnWork'
  BY <1>1 DEF WorkerInv, PhaseInv, NoSleepOnWork
<1> QED
  BY <1>3, <1>4, <1>5 DEF WorkerInv

(* worker_func, where it touches neither ring.                             *)
LEMMA WakeKeeps == ASSUME WorkerInv, Wake \/ Drained \/ WorkEnd PROVE WorkerInv'
<1>1. /\ UNCHANGED <<requests, responses, rings, exit, scheduling, client>>
      /\ sem' \in 0..SemMax /\ thread.at # "respond"
      /\ \/ thread.at = "sleep" /\ exit /\ thread' = ThreadAt("over")
         \/ thread.at = "sleep" /\ ~exit /\ thread' = ThreadAt("loop") /\ sem > 0
         \/ thread.at = "loop" /\ requests = <<>> /\ thread' = ThreadAt("sleep") /\ sem' = sem
         \/ thread.at = "work" /\ thread' = ThreadAt("loop") /\ sem' = sem
  BY WorkerFacts DEF Wake, Drained, WorkEnd, WorkerInv, WorkerTypeOK
<1>2. Responding' = NoRequest /\ Responding = NoRequest
  BY <1>1 DEF Responding, ThreadAt
<1>3. Whole(requests', scheduling') /\ Whole(responses', Responding')
  BY <1>1, <1>2 DEF WorkerInv
<1>4. WorkerTypeOK'
  BY <1>1, <1>3, WorkerTypes DEF WorkerInv, WorkerTypeOK, ThreadAt
<1>5. PhaseInv'
  BY <1>1, WorkerFacts DEF WorkerInv, WorkerTypeOK, PhaseInv, ThreadAt
<1>6. NoSleepOnWork'
  BY <1>1 DEF NoSleepOnWork, ThreadAt
<1> QED
  BY <1>3, <1>4, <1>5, <1>6 DEF WorkerInv

LEMMA TakeKeeps == ASSUME WorkerInv, TakeRequest PROVE WorkerInv'
<1>1. /\ UNCHANGED <<responses, rings, sem, exit, scheduling, client>>
      /\ requests' = SubSeq(requests, 3, Len(requests)) /\ Len(requests) >= 2
      /\ thread.at = "loop"
      /\ thread' \in {[at |-> "work", message |-> requests[1].of], ThreadAt("loop")}
  BY DEF TakeRequest
<1>2. Responding' = NoRequest /\ Responding = NoRequest
  BY <1>1 DEF Responding, ThreadAt
<1>3. Whole(requests', scheduling') /\ requests[1].of \in Request
  BY <1>1, WorkerFacts, WholeDrop DEF WorkerInv
<1>4. Whole(responses', Responding')
  BY <1>1, <1>2 DEF WorkerInv
<1>5. WorkerTypeOK'
  BY <1>1, <1>3, <1>4, WorkerTypes DEF WorkerInv, WorkerTypeOK, ThreadAt
<1>6. PhaseInv' /\ NoSleepOnWork'
  BY <1>1 DEF WorkerInv, PhaseInv, ThreadAt, NoSleepOnWork
<1> QED
  BY <1>3, <1>4, <1>5, <1>6 DEF WorkerInv

LEMMA RespondKeeps == ASSUME WorkerInv, RespondSize \/ RespondBody PROVE WorkerInv'
<1>0. UNCHANGED <<requests, rings, sem, exit, scheduling, client>>
  BY DEF RespondSize, RespondBody
<1>1. CASE RespondSize
  <2>1. /\ thread.at = "work" /\ Fits(thread.message, responses)
        /\ responses' = Append(responses, SizeOf(thread.message))
        /\ thread' = [thread EXCEPT !.at = "respond"]
    BY <1>1 DEF RespondSize
  <2>2. thread = [at |-> "work", message |-> thread.message] /\ thread.message \in Request
    BY <2>1 DEF WorkerInv, WorkerTypeOK
  <2>3. thread' = [at |-> "respond", message |-> thread.message]
    BY <2>1, <2>2
  <2>4. Responding = NoRequest /\ Responding' = thread.message
    BY <2>1, <2>3 DEF Responding
  <2>5. Whole(responses, NoRequest)
    BY <2>4 DEF WorkerInv
  <2>6. Whole(requests', scheduling') /\ Whole(responses', Responding')
    BY <1>0, <2>1, <2>2, <2>4, <2>5, WholeSize DEF WorkerInv
  <2>7. WorkerTypeOK'
    BY <1>0, <2>2, <2>3, <2>6, WorkerTypes DEF WorkerInv, WorkerTypeOK
  <2>8. PhaseInv' /\ NoSleepOnWork'
    BY <1>0, <2>1, <2>3 DEF WorkerInv, PhaseInv, NoSleepOnWork
  <2> QED
    BY <2>6, <2>7, <2>8 DEF WorkerInv
<1>2. CASE RespondBody
  <2>1. /\ thread.at = "respond" /\ thread' = ThreadAt("loop")
        /\ responses' = Append(responses, BodyOf(thread.message))
        /\ Responding = thread.message /\ thread.message \in Request
    BY <1>2, WorkerFacts DEF RespondBody
  <2>2. Responding' = NoRequest
    BY <2>1 DEF Responding, ThreadAt
  <2>3. Whole(responses, thread.message)
    BY <2>1 DEF WorkerInv
  <2>4. Whole(requests', scheduling') /\ Whole(responses', Responding')
    BY <1>0, <2>1, <2>2, <2>3, WholeBody DEF WorkerInv
  <2>5. WorkerTypeOK'
    BY <1>0, <2>1, <2>4, WorkerTypes DEF WorkerInv, WorkerTypeOK, ThreadAt
  <2>6. PhaseInv' /\ NoSleepOnWork'
    BY <1>0, <2>1 DEF WorkerInv, PhaseInv, NoSleepOnWork, ThreadAt
  <2> QED
    BY <2>4, <2>5, <2>6 DEF WorkerInv
<1> QED
  BY <1>1, <1>2

LEMMA WorkerKeeps == WorkerInv /\ [WorkerNext]_workerVars => WorkerInv'
<1> SUFFICES ASSUME WorkerInv, [WorkerNext]_workerVars PROVE WorkerInv'
  OBVIOUS
<1>1. CASE UNCHANGED workerVars
  BY <1>1 DEF workerVars, WorkerInv, WorkerTypeOK, PhaseInv, NoSleepOnWork, Responding
<1>2. CASE WorkerThread
  BY <1>2, WakeKeeps, TakeKeeps, RespondKeeps DEF WorkerThread
<1>3. CASE WorkerClient
  BY <1>3, CreateKeeps, RingsKeeps, FinishKeeps, JoinKeeps, ScheduleSizeKeeps,
     ScheduleBodyKeeps, EmitKeeps DEF WorkerClient
<1> QED
  BY <1>1, <1>2, <1>3 DEF WorkerNext

-----------------------------------------------------------------------------
(* What follows for every behaviour.                                       *)

WorkerSpec == WorkerInit /\ [][WorkerNext]_workerVars

THEOREM WorkerInvariant == WorkerSpec => []WorkerInv
<1>1. WorkerInit => WorkerInv
  BY WorkerInitHolds
<1>2. WorkerInv /\ [WorkerNext]_workerVars => WorkerInv'
  BY WorkerKeeps
<1> QED
  BY <1>1, <1>2, PTL DEF WorkerSpec

(* Whatever a plugin schedules and however large, the rings of its worker  *)
(* hold whole messages, never more than they have room for, exist whenever *)
(* the thread looks at them, and are not slept on.                         *)
THEOREM WorkerRingsSound == WorkerSpec => []RingsSound
<1>1. WorkerInv => RingsSound
  <2> SUFFICES ASSUME WorkerInv PROVE RingsSound
    OBVIOUS
  <2>1. RingsFramed
    BY DEF WorkerInv, Whole, Responding, RingsFramed
  <2>2. RingsOutliveThread
    BY DEF WorkerInv, WorkerTypeOK, PhaseInv, RingsOutliveThread
  <2> QED
    BY <2>1, <2>2 DEF WorkerInv, RingsSound
<1> QED
  BY <1>1, WorkerInvariant, PTL

(* worker.c implements a queue of requests.                                *)
LEMMA RequestStep ==
  ASSUME WorkerInv, WorkerNext
  PROVE  \/ RequestQueue!Put \/ RequestQueue!Get \/ exit' # exit
         \/ PendingRequests' = PendingRequests
<1>a. exit /\ exit' => PendingRequests' = PendingRequests
  BY DEF PendingRequests
<1>b. exit \in BOOLEAN /\ exit' \in BOOLEAN
  BY WorkerKeeps DEF WorkerInv, WorkerTypeOK
<1> SUFFICES ASSUME ~exit, ~exit'
             PROVE  RequestQueue!Put \/ RequestQueue!Get \/ PendingRequests' = PendingRequests
  BY <1>a, <1>b
<1>0. PendingRequests = Messages(requests) /\ PendingRequests' = Messages(requests')
  BY DEF PendingRequests
<1>1. CASE UNCHANGED requests
  BY <1>0, <1>1
<1>2. ASSUME NEW m \in Request, ScheduleSize(m) PROVE Messages(requests') = Messages(requests)
  BY <1>2, WholeSize DEF WorkerInv, ScheduleSize
<1>3. CASE ScheduleBody
  <2>1. scheduling \in Request /\ Messages(requests') = Append(Messages(requests), scheduling)
    BY <1>3, WorkerFacts, WholeBody DEF WorkerInv, ScheduleBody
  <2> QED
    BY <1>0, <2>1 DEF RequestQueue!Put
<1>4. CASE TakeRequest
  <2>1. Messages(requests) # <<>> /\ Messages(requests') = Tail(Messages(requests))
    BY <1>4, WorkerFacts, WholeDrop DEF WorkerInv, TakeRequest
  <2> QED
    BY <1>0, <2>1 DEF RequestQueue!Get
<1>5. CASE WorkerRings
  BY <1>0, <1>5 DEF WorkerInv, PhaseInv, WorkerRings
<1>6. ~FinishJoin
  BY DEF WorkerInv, PhaseInv, FinishJoin
<1>7. CASE WorkerThread
  <2>1. CASE Wake \/ Drained \/ WorkEnd \/ RespondSize \/ RespondBody
    BY <1>1, <2>1 DEF Wake, Drained, WorkEnd, RespondSize, RespondBody
  <2> QED
    BY <1>4, <1>7, <2>1 DEF WorkerThread
<1>8. CASE WorkerClient
  <2>1. CASE WorkerCreate \/ FinishExit \/ FinishPost \/ EmitResponse
    BY <1>1, <2>1 DEF WorkerCreate, FinishExit, FinishPost, EmitResponse
  <2> QED
    BY <1>0, <1>2, <1>3, <1>5, <1>6, <1>8, <2>1 DEF WorkerClient
<1> QED
  BY <1>7, <1>8 DEF WorkerNext

(* The requests of a plugin are a first-in first-out queue from the        *)
(* creation of its worker to the end of it: none is lost, duplicated or    *)
(* overtaken.                                                              *)
THEOREM WorkerIsQueue == WorkerSpec => RequestsAreQueue
<1>1. WorkerInv /\ [WorkerNext]_workerVars =>
        [RequestQueue!Put \/ RequestQueue!Get \/ exit' # exit]_PendingRequests
  BY RequestStep DEF workerVars, PendingRequests, Messages
<1> QED
  BY <1>1, WorkerInvariant, PTL DEF WorkerSpec, RequestsAreQueue

-----------------------------------------------------------------------------
(* Immediate and scheduled values of control ports.                        *)

KnownParam == [symbol : Symbol \ Unknown, value : Value]

-----------------------------------------------------------------------------
(* The last write.                                                         *)

LEMMA MaxIsIn ==
  ASSUME NEW n \in Nat, NEW T \in SUBSET (1..n), T # {}
  PROVE  Max(T) \in T /\ \A j \in T : j <= Max(T)
<1>0. T \in SUBSET (0..n)
  OBVIOUS
<1>1. PICK i \in T : \A j \in T : j <= i
  BY <1>0, LargestIsThere
<1>2. \A j \in T : i >= j
  BY <1>1
<1> QED
  BY <1>1, <1>2 DEF Max

(* The last of the writes to a port, if there is one.                      *)
LEMMA LastWrite ==
  ASSUME NEW entries \in Seq(Entry), NEW p \in Port, Writes(entries, p) # {}
  PROVE  LET w == Max(Writes(entries, p))
         IN  /\ w \in DOMAIN entries /\ entries[w].to = Live(p) /\ entries[w].value \in Value
             /\ \A i \in DOMAIN entries : entries[i].to = Live(p) => i <= w
<1>1. Len(entries) \in Nat /\ DOMAIN entries = 1..Len(entries)
  OBVIOUS
<1>2. Writes(entries, p) \in SUBSET (1..Len(entries))
  BY <1>1 DEF Writes
<1>3. /\ Max(Writes(entries, p)) \in Writes(entries, p)
      /\ \A j \in Writes(entries, p) : j <= Max(Writes(entries, p))
  BY <1>1, <1>2, MaxIsIn
<1>4. \A i \in DOMAIN entries : entries[i] \in Entry
  BY <1>1
<1>5. \A i \in DOMAIN entries : entries[i].value \in Value
  BY <1>4 DEF Entry
<1> QED
  BY <1>3, <1>5 DEF Writes

(* And how to find it.                                                     *)
LEMMA WriteIsLast ==
  ASSUME NEW b, NEW entries \in Seq(Entry), NEW p \in Port, NEW w \in DOMAIN entries,
         entries[w].to = Live(p),
         \A i \in DOMAIN entries : entries[i].to = Live(p) => i <= w
  PROVE  Applied(b, entries)[p] = entries[w].value
<1>1. w \in Writes(entries, p)
  BY DEF Writes
<1>2. /\ Max(Writes(entries, p)) \in DOMAIN entries
      /\ Max(Writes(entries, p)) <= w /\ w <= Max(Writes(entries, p))
  BY <1>1, LastWrite
<1>3. Len(entries) \in Nat /\ DOMAIN entries = 1..Len(entries)
  OBVIOUS
<1>4. Max(Writes(entries, p)) = w
  BY <1>2, <1>3
<1> QED
  BY <1>1, <1>4 DEF Applied

LEMMA NoWrite ==
  ASSUME NEW b, NEW entries, NEW p \in Port, Writes(entries, p) = {}
  PROVE  Applied(b, entries)[p] = b[p]
  BY DEF Applied

LEMMA AppliedType ==
  ASSUME NEW V, NEW b \in [Port -> V], NEW entries \in Seq(Entry), Value \subseteq V
  PROVE  Applied(b, entries) \in [Port -> V]
  BY LastWrite DEF Applied

(* What is left to the ports by a list and one after it.                   *)
LEMMA AppliedConcat ==
  ASSUME NEW b, NEW s \in Seq(Entry), NEW t \in Seq(Entry), NEW p \in Port
  PROVE  /\ Writes(t, p) # {} => Applied(b, s \o t)[p] = Applied(b, t)[p]
         /\ Writes(t, p) = {} => Applied(b, s \o t)[p] = Applied(b, s)[p]
<1>1. /\ s \o t \in Seq(Entry) /\ Len(s \o t) = Len(s) + Len(t)
      /\ Len(s) \in Nat /\ Len(t) \in Nat
      /\ DOMAIN s = 1..Len(s) /\ DOMAIN t = 1..Len(t) /\ DOMAIN (s \o t) = 1..(Len(s) + Len(t))
  OBVIOUS
<1>2. /\ \A i \in 1..Len(s) : (s \o t)[i] = s[i]
      /\ \A i \in (Len(s) + 1)..(Len(s) + Len(t)) : (s \o t)[i] = t[i - Len(s)]
  OBVIOUS
<1>3. CASE Writes(t, p) # {}
  <2> DEFINE w == Max(Writes(t, p))
  <2>1. /\ w \in DOMAIN t /\ t[w].to = Live(p)
        /\ \A i \in DOMAIN t : t[i].to = Live(p) => i <= w
    BY <1>3, LastWrite
  <2> HIDE DEF w
  <2>2. Len(s) + w \in DOMAIN (s \o t) /\ (s \o t)[Len(s) + w] = t[w]
    BY <1>1, <1>2, <2>1
  <2>3. ASSUME NEW i \in DOMAIN (s \o t), (s \o t)[i].to = Live(p)
        PROVE  i <= Len(s) + w
    <3>1. CASE i <= Len(s)
      BY <1>1, <2>1, <2>3, <3>1
    <3>2. CASE i > Len(s)
      <4>1. i \in (Len(s) + 1)..(Len(s) + Len(t)) /\ i - Len(s) \in 1..Len(t)
        BY <1>1, <2>3, <3>2
      <4>2. i - Len(s) <= w
        BY <1>1, <1>2, <2>1, <2>3, <4>1
      <4> QED
        BY <1>1, <2>1, <4>1, <4>2
    <3> QED
      BY <1>1, <3>1, <3>2
  <2>4. Applied(b, s \o t)[p] = t[w].value
    <3> DEFINE c == s \o t
               k == Len(s) + w
    <3>1. /\ c \in Seq(Entry) /\ k \in DOMAIN c /\ c[k] = t[w] /\ c[k].to = Live(p)
          /\ \A i \in DOMAIN c : c[i].to = Live(p) => i <= k
      BY <1>1, <2>1, <2>2, <2>3
    <3> HIDE DEF c, k
    <3>2. Applied(b, c)[p] = c[k].value
      BY <3>1, WriteIsLast
    <3> QED
      BY <3>1, <3>2 DEF c
  <2>5. Applied(b, t)[p] = t[w].value
    BY <2>1, WriteIsLast
  <2> QED
    BY <1>3, <2>4, <2>5
<1>4. CASE Writes(t, p) = {}
  <2>1. \A i \in DOMAIN (s \o t) : (s \o t)[i].to = Live(p) => i \in DOMAIN s
    <3> SUFFICES ASSUME NEW i \in DOMAIN (s \o t), (s \o t)[i].to = Live(p), i > Len(s)
                 PROVE  FALSE
      BY <1>1
    <3>1. i \in (Len(s) + 1)..(Len(s) + Len(t)) /\ i - Len(s) \in DOMAIN t
      BY <1>1
    <3>2. t[i - Len(s)].to = Live(p)
      BY <1>2, <3>1
    <3> QED
      BY <1>4, <3>1, <3>2 DEF Writes
  <2>2. CASE Writes(s, p) = {}
    <3>1. Writes(s \o t, p) = {}
      BY <1>1, <1>2, <2>1, <2>2 DEF Writes
    <3> QED
      BY <1>4, <2>2, <3>1, NoWrite
  <2>3. CASE Writes(s, p) # {}
    <3> DEFINE w == Max(Writes(s, p))
    <3>1. /\ w \in DOMAIN s /\ s[w].to = Live(p)
          /\ \A i \in DOMAIN s : s[i].to = Live(p) => i <= w
      BY <2>3, LastWrite
    <3> HIDE DEF w
    <3>2. w \in DOMAIN (s \o t) /\ (s \o t)[w] = s[w]
      BY <1>1, <1>2, <3>1
    <3>3. \A i \in DOMAIN (s \o t) : (s \o t)[i].to = Live(p) => i <= w
      BY <1>1, <1>2, <2>1, <3>1
    <3>4. Applied(b, s)[p] = s[w].value
      BY <3>1, WriteIsLast
    <3>5. Applied(b, s \o t)[p] = s[w].value
      <4> DEFINE c == s \o t
      <4>1. /\ c \in Seq(Entry) /\ w \in DOMAIN c /\ c[w] = s[w] /\ c[w].to = Live(p)
            /\ \A i \in DOMAIN c : c[i].to = Live(p) => i <= w
        BY <1>1, <3>1, <3>2, <3>3
      <4> HIDE DEF c
      <4>2. Applied(b, c)[p] = c[w].value
        BY <4>1, WriteIsLast
      <4> QED
        BY <4>1, <4>2 DEF c
    <3> QED
      BY <1>4, <3>4, <3>5
  <2> QED
    BY <2>2, <2>3
<1> QED
  BY <1>3, <1>4

-----------------------------------------------------------------------------
(* What the lists of a command are made of.                                *)

LEMMA ResetType ==
  ASSUME NEW reset \in Value
  PROVE  /\ Reset(reset) \in Seq(KnownParam)
         /\ Len(Reset(reset)) = IF reset = 0 THEN 0 ELSE 1
<1>1. [symbol |-> ResetPort, value |-> reset] \in KnownParam
  BY SyncParamsAssumption DEF KnownParam
<1> QED
  BY <1>1 DEF Reset

(* The equations of found, for those whose values are in a set.            *)
LEMMA NamedType ==
  ASSUME NEW params \in Seq(Param)
  PROVE  Named(params) \in Seq(KnownParam) /\ Len(Named(params)) <= Len(params)
<1> DEFINE L == Len(params)
           S == Seq(KnownParam)
           step == [n \in 1..L |-> [s \in S |->
                      IF params[n].symbol \in Unknown THEN s ELSE Append(s, params[n])]]
           Def(k) == [n \in 0..L |->
                        IF n = 0 THEN <<>>
                        ELSE IF params[n].symbol \in Unknown THEN k[n - 1]
                        ELSE Append(k[n - 1], params[n])]
<1>1. L \in Nat /\ <<>> \in S /\ \A n \in 1..L : params[n] \in Param
  OBVIOUS
<1>2. ASSUME NEW n \in 1..L, NEW s \in S, params[n].symbol \notin Unknown
      PROVE  Append(s, params[n]) \in S /\ Len(Append(s, params[n])) = Len(s) + 1
  <2>1. params[n] \in KnownParam
    BY <1>1, <1>2 DEF Param, KnownParam
  <2> QED
    BY <2>1
<1>3. step \in [1..L -> [S -> S]]
  BY <1>2
<1>4. PICK f : Follows(f, L, S, <<>>, step)
  <2>1. Steps(L, S, <<>>, step)
    BY <1>1, <1>3 DEF Steps
  <2> HIDE DEF L, S, step
  <2> QED
    BY <2>1, PrimitiveRecursion
<1>5. f \in [0..L -> S] /\ f[0] = <<>> /\ \A n \in 1..L : f[n] = step[n][f[n - 1]]
  <2> HIDE DEF L, S, step
  <2> QED
    BY <1>4 DEF Follows
<1>6. f = Def(f)
  <2>0. \A n \in 1..L : f[n - 1] \in S
    BY <1>1, <1>5
  <2>1. \A n \in 1..L : f[n] = IF params[n].symbol \in Unknown THEN f[n - 1]
                               ELSE Append(f[n - 1], params[n])
    BY <1>5, <2>0
  <2>2. \A n \in 0..L : n = 0 \/ n \in 1..L
    BY <1>1
  <2> HIDE DEF S, L
  <2> QED
    BY <1>5, <2>1, <2>2
<1> DEFINE found == CHOOSE k : k = Def(k)
<1>7. found = Def(found)
  <2> HIDE DEF Def
  <2> QED
    BY <1>6
<1>8. Named(params) = found[L]
  BY DEF Named
<1> HIDE DEF found
<1> DEFINE A == {n \in 0..L : found[n] \in S /\ Len(found[n]) <= n}
<1>9. 0 \in A
  BY <1>1, <1>7
<1>10. ASSUME NEW n \in 0..(L - 1), n \in A PROVE n + 1 \in A
  <2>1. n + 1 \in 1..L /\ n + 1 \in 0..L /\ (n + 1) - 1 = n /\ found[n] \in S /\ Len(found[n]) <= n
    BY <1>1, <1>10
  <2>2. found[n + 1] = IF params[n + 1].symbol \in Unknown THEN found[n]
                       ELSE Append(found[n], params[n + 1])
    <3>1. n + 1 # 0
      BY <1>10
    <3> DEFINE m == n + 1
    <3>2. m \in 0..L /\ m # 0 /\ m - 1 = n
      BY <2>1, <3>1
    <3> HIDE DEF m
    <3>3. found[m] = IF params[m].symbol \in Unknown THEN found[m - 1]
                     ELSE Append(found[m - 1], params[m])
      BY <1>7, <3>2
    <3> QED
      BY <3>2, <3>3 DEF m
  <2>3. Len(found[n]) \in Nat /\ n \in Nat
    BY <2>1
  <2>4. found[n + 1] \in S /\ Len(found[n + 1]) <= n + 1
    <3>1. CASE params[n + 1].symbol \in Unknown
      BY <2>1, <2>2, <2>3, <3>1
    <3>2. CASE params[n + 1].symbol \notin Unknown
      <4>1. /\ Append(found[n], params[n + 1]) \in S
            /\ Len(Append(found[n], params[n + 1])) = Len(found[n]) + 1
        BY <1>2, <2>1, <3>2
      <4> QED
        BY <2>1, <2>2, <2>3, <3>2, <4>1
    <3> QED
      BY <3>1, <3>2
  <2> QED
    BY <2>1, <2>4
<1>11. L \in A
  <2>1. \A n \in 0..(L - 1) : n \in A => n + 1 \in A
    BY <1>10
  <2> HIDE DEF A, L
  <2>2. 0..L \subseteq A
    BY <1>1, <1>9, <2>1, BoundedInduction
  <2> QED
    BY <1>1, <2>2
<1> QED
  BY <1>8, <1>11

LEMMA FoundType ==
  ASSUME NEW params \in Seq(Param)
  PROVE  Found(params) \in Seq(KnownParam) /\ Len(Found(params)) <= Len(params)
<1>1. /\ Named(params) \in Seq(KnownParam) /\ Len(Named(params)) \in Nat
      /\ Len(Named(params)) <= Len(params)
  BY NamedType
<1>2. ASSUME NEW k \in 1..Len(Named(params))
      PROVE  [symbol |-> Named(params)[k].symbol, value |-> params[k].value] \in KnownParam
  <2>1. Named(params)[k] \in KnownParam /\ params[k] \in Param
    BY <1>1
  <2> QED
    BY <2>1 DEF KnownParam, Param
<1> QED
  BY <1>1, <1>2 DEF Found

(* The effects of a set, in some order.                                    *)
LEMMA SetToSeqRange ==
  ASSUME NEW T, IsFiniteSet(T)
  PROVE  SetToSeq(T) \in Seq(T) /\ Len(SetToSeq(T)) = Cardinality(T)
<1>1. Cardinality(T) \in Nat /\ ExistsBijection(1..Cardinality(T), T)
  BY FS_CardinalityType
<1>2. \E f \in [1..Cardinality(T) -> T] : IsInjective(f)
  BY <1>1 DEF ExistsBijection, Bijection, Injection
<1>3. SetToSeq(T) \in [1..Cardinality(T) -> T]
  BY <1>2 DEF SetToSeq
<1> QED
  BY <1>1, <1>3

(* Every entry of a list for the effects of T is for one of them.          *)
EntriesOf(T) == {entry \in Entry : entry.to.state = "live" /\ entry.to.port[1] \in T}

LEMMA ForAllType ==
  ASSUME NEW T \in SUBSET Effect, NEW params \in Seq(KnownParam)
  PROVE  /\ ForAll(T, params) \in Seq(EntriesOf(T)) /\ ForAll(T, params) \in Seq(Entry)
         /\ Cardinality(T) \in Nat /\ Len(ForAll(T, params)) = Cardinality(T) * Len(params)
<1> DEFINE s == SetToSeq(T)
           n == Len(params)
<1>1. s \in Seq(T) /\ n \in Nat /\ Len(s) \in Nat /\ Len(s) = Cardinality(T)
  <2>1. IsFiniteSet(T)
    BY SyncParamsAssumption, FS_Subset
  <2> QED
    BY <2>1, SetToSeqRange
<1>2. ASSUME NEW i \in 1..(Len(s) * n)
      PROVE  [to |-> Live(<<s[((i - 1) \div n) + 1], params[((i - 1) % n) + 1].symbol>>),
              value |-> params[((i - 1) % n) + 1].value] \in EntriesOf(T)
  <2> DEFINE j == ((i - 1) \div n) + 1
             k == ((i - 1) % n) + 1
  <2>1. n # 0
    BY <1>1
  <2>2. j \in 1..Len(s) /\ k \in 1..n
    <3> DEFINE m == Len(s)
    <3>1. m \in Nat /\ n \in Nat \ {0} /\ i \in 1..(m * n)
      BY <1>1, <2>1
    <3> HIDE DEF m, n
    <3>2. /\ i - 1 = n * ((i - 1) \div n) + ((i - 1) % n)
          /\ (i - 1) % n \in 0..(n - 1) /\ (i - 1) \div n \in Int
      BY <3>1
    <3>3. (i - 1) \div n \in 0..(m - 1)
      BY <3>1, <3>2
    <3> QED
      BY <3>2, <3>3, <3>1 DEF m
  <2> HIDE DEF j, k
  <2>3. s[j] \in T /\ params[k] \in KnownParam
    BY <1>1, <2>2
  <2>4. <<s[j], params[k].symbol>> \in Port /\ params[k].value \in Value
    BY <2>3 DEF Port, KnownParam
  <2>5. [to |-> Live(<<s[j], params[k].symbol>>), value |-> params[k].value] \in EntriesOf(T)
    BY <2>3, <2>4 DEF Live, EntriesOf, Entry, Pointer
  <2> QED
    BY <2>5 DEF j, k
<1>3. Len(s) * n \in Nat
  BY <1>1
<1>4. ForAll(T, params) \in Seq(EntriesOf(T)) /\ Len(ForAll(T, params)) = Len(s) * n
  BY <1>2, <1>3 DEF ForAll
<1>5. EntriesOf(T) \subseteq Entry
  BY DEF EntriesOf
<1> QED
  BY <1>1, <1>4, <1>5

-----------------------------------------------------------------------------
(* What is still to be written: all that is scheduled, or what the cycle   *)
(* that has the mutex has not yet come to.                                 *)
Remaining == IF at = 0 THEN scheduled ELSE SubSeq(scheduled, at, Len(scheduled))

(* LastValueWins holds at any time if the rest is taken as written.        *)
ValueInv ==
  \A p \in Port :
    p[1] \in inst /\ latest[p] # None => Applied(buffer, Remaining)[p] = latest[p]

SyncInv == TypeOK /\ RemoveLeavesNoDangling /\ ValueInv

LEMMA RemainingType ==
  ASSUME TypeOK
  PROVE  /\ Remaining \in Seq(Entry)
         /\ \A p \in Port : p \notin Pending => Writes(Remaining, p) = {}
         /\ \A ptr : (\E i \in DOMAIN Remaining : Remaining[i].to = ptr) => ptr \in Pointers
<1>1. /\ scheduled \in Seq(Entry) /\ Len(scheduled) \in Nat /\ at \in 0..Len(scheduled)
      /\ DOMAIN scheduled = 1..Len(scheduled)
  BY DEF TypeOK
<1>2. CASE at = 0
  <2>1. Remaining = scheduled
    BY <1>2 DEF Remaining
  <2>2. \A p \in Port, i \in DOMAIN scheduled : scheduled[i].to = Live(p) => p \in Pending
    BY <1>1, <1>2 DEF Pending, Live
  <2> QED
    BY <1>1, <2>1, <2>2 DEF Writes, Pointers
<1>3. CASE at # 0
  <2>1. Remaining = SubSeq(scheduled, at, Len(scheduled))
    BY <1>3 DEF Remaining
  <2>2. /\ Remaining \in Seq(Entry) /\ Len(Remaining) = Len(scheduled) - at + 1
        /\ \A i \in 1..(Len(scheduled) - at + 1) : Remaining[i] = scheduled[at + i - 1]
    BY <1>1, <1>3, <2>1
  <2>3. ASSUME NEW i \in DOMAIN Remaining
        PROVE  /\ at + i - 1 \in DOMAIN scheduled /\ at + i - 1 >= at
               /\ Remaining[i] = scheduled[at + i - 1]
    <3>1. DOMAIN Remaining = 1..Len(Remaining)
      BY <2>2
    <3>2. i \in 1..(Len(scheduled) - at + 1) /\ at \in Nat
      BY <1>1, <2>2, <3>1
    <3>3. at + i - 1 \in 1..Len(scheduled) /\ at + i - 1 >= at
      BY <1>1, <1>3, <3>2
    <3> QED
      BY <1>1, <2>2, <3>2, <3>3
  <2>4. \A p \in Port, i \in DOMAIN Remaining : Remaining[i].to = Live(p) => p \in Pending
    BY <2>3 DEF Pending, Live
  <2> QED
    BY <2>2, <2>3, <2>4 DEF Writes, Pointers
<1> QED
  BY <1>2, <1>3

(* Values that are written at once.                                        *)
LEMMA WriteNowKeeps ==
  ASSUME SyncInv, NEW entries \in Seq(Entry), NEW wanted \in Seq(Entry),
         WriteNow(entries, wanted), UNCHANGED <<inst, at>>
  PROVE  /\ buffer' \in [Port -> Value] /\ latest' \in [Port -> Value \union {None}]
         /\ scheduled' = scheduled /\ ValueInv'
<1>1. buffer \in [Port -> Value] /\ latest \in [Port -> Value \union {None}]
  BY DEF SyncInv, TypeOK
<1>2. /\ buffer' = Applied(buffer, entries) /\ scheduled' = scheduled
      /\ Remaining' = Remaining
  BY DEF WriteNow, Remaining
<1>3. /\ Remaining \in Seq(Entry)
      /\ \A p \in Port : p \notin Pending => Writes(Remaining, p) = {}
  BY RemainingType DEF SyncInv
<1>4. buffer' \in [Port -> Value]
  BY <1>1, <1>2, AppliedType
<1>5. Applied(latest, wanted) \in [Port -> Value \union {None}]
  BY <1>1, AppliedType
<1>6. latest' \in [Port -> Value \union {None}]
  BY <1>1, <1>5 DEF WriteNow, Unjudged
<1>7. ASSUME NEW q \in Port, NEW list \in Seq(Entry), q \notin Targets(list)
      PROVE  Writes(list, q) = {}
  BY <1>7 DEF Targets, Writes, Live
<1>8. ASSUME NEW p \in Port, p[1] \in inst', latest'[p] # None
      PROVE  Applied(buffer', Remaining')[p] = latest'[p]
  <2>1. \/ /\ entries = wanted /\ latest'[p] = Applied(latest, wanted)[p]
           /\ p \notin Targets(wanted) \intersect Pending
        \/ p \notin Targets(entries \o wanted) /\ latest'[p] = latest[p]
    BY <1>8 DEF WriteNow, Unjudged
  <2>2. CASE Writes(entries, p) = {} /\ latest'[p] = latest[p]
    <3>1. buffer'[p] = buffer[p]
      BY <1>2, <2>2, NoWrite
    <3>2. Applied(buffer', Remaining)[p] = Applied(buffer, Remaining)[p]
      BY <3>1 DEF Applied
    <3>3. Applied(buffer, Remaining)[p] = latest[p]
      BY <1>8, <2>2 DEF SyncInv, ValueInv
    <3> QED
      BY <1>2, <2>2, <3>2, <3>3
  <2>3. CASE /\ Writes(entries, p) # {} /\ entries = wanted
             /\ latest'[p] = Applied(latest, wanted)[p] /\ p \notin Targets(wanted) \intersect Pending
    <3>1. p \in Targets(wanted)
      BY <1>7, <2>3
    <3>2. Writes(Remaining, p) = {}
      BY <1>3, <2>3, <3>1
    <3>3. Applied(buffer', Remaining)[p] = Applied(buffer, entries)[p]
      BY <1>2, <3>2, NoWrite
    <3>4. Applied(buffer, entries)[p] = Applied(latest, wanted)[p]
      BY <2>3 DEF Applied
    <3> QED
      BY <1>2, <2>3, <3>3, <3>4
  <2>4. CASE p \notin Targets(entries \o wanted) /\ latest'[p] = latest[p]
    <3>1. p \notin Targets(entries)
      <4> SUFFICES ASSUME NEW i \in DOMAIN entries, entries[i].to.port = p PROVE FALSE
        BY DEF Targets
      <4>1. i \in DOMAIN (entries \o wanted) /\ (entries \o wanted)[i] = entries[i]
        OBVIOUS
      <4> QED
        BY <2>4, <4>1 DEF Targets
    <3> QED
      BY <1>7, <2>2, <2>4, <3>1
  <2>5. CASE /\ Writes(entries, p) = {} /\ entries = wanted
             /\ latest'[p] = Applied(latest, wanted)[p]
    <3>1. latest'[p] = latest[p]
      BY <2>5, NoWrite
    <3> QED
      BY <2>2, <2>5, <3>1
  <2> QED
    BY <2>1, <2>3, <2>4, <2>5
<1> QED
  BY <1>2, <1>4, <1>6, <1>8 DEF ValueInv

(* Values that are scheduled.                                              *)
LEMMA WriteLaterKeeps ==
  ASSUME SyncInv, NEW entries \in Seq(Entry), NEW wanted \in Seq(Entry),
         WriteLater(entries, wanted), UNCHANGED <<inst, at>>, at = 0
  PROVE  /\ buffer' = buffer /\ latest' \in [Port -> Value \union {None}]
         /\ scheduled' = scheduled \o entries /\ ValueInv'
<1>1. buffer \in [Port -> Value] /\ latest \in [Port -> Value \union {None}]
  BY DEF SyncInv, TypeOK
<1>2. /\ buffer' = buffer /\ scheduled' = scheduled \o entries
      /\ Remaining = scheduled /\ Remaining' = scheduled \o entries
  BY DEF WriteLater, Remaining
<1>3. scheduled \in Seq(Entry)
  BY DEF SyncInv, TypeOK
<1>5. Applied(latest, wanted) \in [Port -> Value \union {None}]
  BY <1>1, AppliedType
<1>6. latest' \in [Port -> Value \union {None}]
  BY <1>1, <1>5 DEF WriteLater, Unjudged
<1>7. ASSUME NEW q \in Port, NEW list \in Seq(Entry), q \notin Targets(list)
      PROVE  Writes(list, q) = {}
  BY <1>7 DEF Targets, Writes, Live
<1>8. ASSUME NEW p \in Port, p[1] \in inst', latest'[p] # None
      PROVE  Applied(buffer', Remaining')[p] = latest'[p]
  <2>1. \/ entries = wanted /\ latest'[p] = Applied(latest, wanted)[p]
        \/ p \notin Targets(entries \o wanted) /\ latest'[p] = latest[p]
    BY <1>8 DEF WriteLater, Unjudged
  <2>2. CASE Writes(entries, p) = {} /\ latest'[p] = latest[p]
    <3>1. Applied(buffer, scheduled \o entries)[p] = Applied(buffer, scheduled)[p]
      BY <1>3, <2>2, AppliedConcat
    <3>2. Applied(buffer, Remaining)[p] = latest[p]
      BY <1>8, <2>2 DEF SyncInv, ValueInv
    <3> QED
      BY <1>2, <2>2, <3>1, <3>2
  <2>3. CASE /\ Writes(entries, p) # {} /\ entries = wanted
             /\ latest'[p] = Applied(latest, wanted)[p]
    <3>1. Applied(buffer, scheduled \o entries)[p] = Applied(buffer, entries)[p]
      <4>1. Writes(entries, p) # {}
        BY <2>3
      <4> QED
        BY <1>3, <4>1, AppliedConcat, Zenon
    <3>2. Applied(buffer, entries)[p] = Applied(latest, wanted)[p]
      BY <2>3 DEF Applied
    <3> QED
      BY <1>2, <2>3, <3>1, <3>2
  <2>4. CASE p \notin Targets(entries \o wanted) /\ latest'[p] = latest[p]
    <3>1. p \notin Targets(entries)
      <4> SUFFICES ASSUME NEW i \in DOMAIN entries, entries[i].to.port = p PROVE FALSE
        BY DEF Targets
      <4>1. i \in DOMAIN (entries \o wanted) /\ (entries \o wanted)[i] = entries[i]
        OBVIOUS
      <4> QED
        BY <2>4, <4>1 DEF Targets
    <3> QED
      BY <1>7, <2>2, <2>4, <3>1
  <2>5. CASE /\ Writes(entries, p) = {} /\ entries = wanted
             /\ latest'[p] = Applied(latest, wanted)[p]
    <3>1. latest'[p] = latest[p]
      BY <2>5, NoWrite
    <3> QED
      BY <2>2, <2>5, <3>1
  <2> QED
    BY <2>1, <2>3, <2>4, <2>5
<1> QED
  BY <1>2, <1>6, <1>8 DEF ValueInv

(* Only the entry of a port itself counts, and lists may be written in two *)
(* goes.                                                                   *)
LEMMA AppliedSame ==
  ASSUME NEW b, NEW c, NEW entries, NEW p \in Port, b[p] = c[p]
  PROVE  Applied(b, entries)[p] = Applied(c, entries)[p]
  BY DEF Applied

LEMMA AppliedInTwo ==
  ASSUME NEW b, NEW s \in Seq(Entry), NEW t \in Seq(Entry), NEW p \in Port
  PROVE  Applied(Applied(b, s), t)[p] = Applied(b, s \o t)[p]
<1>1. CASE Writes(t, p) = {}
  BY <1>1, NoWrite, AppliedConcat
<1>2. CASE Writes(t, p) # {}
  <2>1. Applied(Applied(b, s), t)[p] = Applied(b, t)[p]
    BY <1>2 DEF Applied
  <2> QED
    BY <1>2, <2>1, AppliedConcat
<1> QED
  BY <1>1, <1>2

-----------------------------------------------------------------------------
(* Every step keeps the invariant.                                         *)

LEMMA SyncInit == Init => SyncInv
<1> SUFFICES ASSUME Init PROVE SyncInv
  OBVIOUS
<1>1. TypeOK
  BY SyncParamsAssumption DEF Init, TypeOK
<1>2. RemoveLeavesNoDangling
  BY DEF Init, RemoveLeavesNoDangling, Pointers
<1>3. ValueInv
  BY NoWrite DEF Init, ValueInv, Remaining, Writes
<1> QED
  BY <1>1, <1>2, <1>3 DEF SyncInv

(* The pointers of a list for effects that exist are in order.             *)
LEMMA EntriesAreSound ==
  ASSUME NEW T \in SUBSET inst, NEW entries \in Seq(EntriesOf(T)), NEW i \in DOMAIN entries
  PROVE  entries[i].to.state = "live" /\ entries[i].to.port[1] \in inst
  BY DEF EntriesOf

(* effects_set_parameter_multi and effects_flush_parameters_multi.         *)
LEMMA ScheduleKeeps ==
  ASSUME SyncInv, NEW T \in SUBSET inst,
         NEW entries \in Seq(EntriesOf(T)), entries \in Seq(Entry), NEW wanted \in Seq(Entry),
         NEW n \in Nat, Len(entries) <= n, Schedule(n, entries, wanted)
  PROVE  SyncInv'
<1>1. at = 0 /\ UNCHANGED <<inst, at, cache>>
  BY DEF Schedule, Unlocked
<1>2. CASE Len(scheduled) + n <= MaxScheduled
  <2>1. WriteLater(entries, wanted)
    BY <1>2 DEF Schedule
  <2>2. /\ buffer' = buffer /\ latest' \in [Port -> Value \union {None}]
        /\ scheduled' = scheduled \o entries /\ ValueInv'
    BY <1>1, <2>1, WriteLaterKeeps
  <2>3. /\ scheduled \in Seq(Entry) /\ Len(scheduled) \in Nat /\ Len(entries) \in Nat
        /\ DOMAIN entries = 1..Len(entries) /\ DOMAIN scheduled = 1..Len(scheduled)
    BY DEF SyncInv, TypeOK
  <2>4. /\ scheduled' \in Seq(Entry) /\ Len(scheduled') = Len(scheduled) + Len(entries)
        /\ DOMAIN scheduled' = 1..(Len(scheduled) + Len(entries))
    BY <2>2, <2>3
  <2>5. TypeOK'
    BY <1>1, <1>2, <2>2, <2>3, <2>4, SyncParamsAssumption DEF SyncInv, TypeOK
  <2>6. ASSUME NEW i \in DOMAIN scheduled'
        PROVE  \/ i \in DOMAIN scheduled /\ scheduled'[i] = scheduled[i]
               \/ \E j \in DOMAIN entries : scheduled'[i] = entries[j]
    <3>1. CASE i <= Len(scheduled)
      BY <2>2, <2>3, <2>4, <3>1
    <3>2. CASE i > Len(scheduled)
      <4>1. i - Len(scheduled) \in DOMAIN entries
        BY <2>3, <2>4, <3>2
      <4>2. scheduled'[i] = entries[i - Len(scheduled)]
        BY <2>2, <2>3, <2>4, <3>2
      <4> QED
        BY <4>1, <4>2
    <3> QED
      BY <2>3, <2>4, <3>1, <3>2
  <2>7. RemoveLeavesNoDangling'
    BY <1>1, <2>6, EntriesAreSound DEF SyncInv, RemoveLeavesNoDangling, Pointers
  <2> QED
    BY <2>2, <2>5, <2>7 DEF SyncInv
<1>3. CASE ~(Len(scheduled) + n <= MaxScheduled)
  <2>1. WriteNow(entries, wanted)
    BY <1>3 DEF Schedule
  <2>2. /\ buffer' \in [Port -> Value] /\ latest' \in [Port -> Value \union {None}]
        /\ scheduled' = scheduled /\ ValueInv'
    BY <1>1, <2>1, WriteNowKeeps
  <2>3. TypeOK' /\ RemoveLeavesNoDangling'
    BY <1>1, <2>2 DEF SyncInv, TypeOK, RemoveLeavesNoDangling, Pointers
  <2> QED
    BY <2>2, <2>3 DEF SyncInv
<1> QED
  BY <1>2, <1>3

(* The commands that write at once.                                        *)
LEMMA WriteNowIsSafe ==
  ASSUME SyncInv, NEW entries \in Seq(Entry), NEW wanted \in Seq(Entry),
         WriteNow(entries, wanted), UNCHANGED <<inst, at>>,
         \/ cache' = cache
         \/ cache' \in Pointer /\ cache'.state = "live" /\ cache'.port[1] \in inst
  PROVE  SyncInv'
<1>1. /\ buffer' \in [Port -> Value] /\ latest' \in [Port -> Value \union {None}]
      /\ scheduled' = scheduled /\ ValueInv'
  BY WriteNowKeeps
<1>2. TypeOK' /\ RemoveLeavesNoDangling'
  BY <1>1 DEF SyncInv, TypeOK, RemoveLeavesNoDangling, Pointers
<1> QED
  BY <1>1, <1>2 DEF SyncInv

LEMMA AddKeeps ==
  ASSUME SyncInv, NEW e \in Effect, Add(e)
  PROVE  SyncInv'
<1>1. TypeOK'
  BY SyncParamsAssumption DEF SyncInv, TypeOK, Add
<1>2. RemoveLeavesNoDangling'
  BY DEF SyncInv, RemoveLeavesNoDangling, Pointers, Add
<1>3. Remaining' = Remaining
  BY DEF Add, Remaining
<1>4. ASSUME NEW p \in Port, p[1] \in inst', latest'[p] # None
      PROVE  Applied(buffer', Remaining)[p] = latest'[p]
  <2>1. CASE p[1] = e
    <3>1. Writes(Remaining, p) = {}
      <4> SUFFICES ASSUME NEW i \in DOMAIN Remaining, Remaining[i].to = Live(p)
                   PROVE  FALSE
        BY DEF Writes
      <4>1. Live(p) \in Pointers
        BY RemainingType DEF SyncInv
      <4>2. p[1] \in inst
        BY <4>1 DEF SyncInv, RemoveLeavesNoDangling, Live
      <4> QED
        BY <2>1, <4>2 DEF Add
    <3>2. buffer'[p] = latest'[p]
      BY <2>1 DEF Add
    <3> QED
      BY <3>1, <3>2, NoWrite
  <2>2. CASE p[1] # e
    <3>1. buffer'[p] = buffer[p] /\ latest'[p] = latest[p] /\ p[1] \in inst
      BY <1>4, <2>2 DEF Add
    <3>2. Applied(buffer, Remaining)[p] = latest[p]
      BY <1>4, <3>1 DEF SyncInv, ValueInv
    <3> QED
      BY <3>1, <3>2, AppliedSame
  <2> QED
    BY <2>1, <2>2
<1> QED
  BY <1>1, <1>2, <1>3, <1>4 DEF SyncInv, ValueInv

LEMMA SetParameterKeeps ==
  ASSUME SyncInv, NEW e \in Effect, NEW s \in Symbol, NEW v \in Value, SetParameter(e, s, v)
  PROVE  SyncInv'
<1> DEFINE wanted == <<[to |-> Live(<<e, s>>), value |-> v]>>
           kept   == <<[to |-> cache, value |-> v]>>
<1>0. UNCHANGED <<inst, at>>
  BY DEF SetParameter
<1>1. s \notin Unknown => Live(<<e, s>>) \in Pointer /\ wanted \in Seq(Entry)
  BY DEF Live, Pointer, Port, Entry
<1>2. CASE /\ e \in inst /\ cache # None /\ cache.port = <<e, s>>
           /\ WriteNow(kept, wanted) /\ UNCHANGED cache
  <2>1. cache \in Pointer
    BY <1>2 DEF SyncInv, TypeOK
  <2>2. s \notin Unknown
    BY <1>2, <2>1 DEF Pointer, Port
  <2>3. kept \in Seq(Entry)
    BY <2>1 DEF Entry
  <2> HIDE DEF kept, wanted
  <2> QED
    BY <1>0, <1>1, <1>2, <2>2, <2>3, WriteNowIsSafe
<1>3. CASE /\ e \in inst /\ s \notin Unknown
           /\ WriteNow(wanted, wanted) /\ cache' = Live(<<e, s>>)
  <2>1. cache' \in Pointer /\ cache'.state = "live" /\ cache'.port[1] \in inst
    BY <1>1, <1>3 DEF Live
  <2> HIDE DEF wanted
  <2> QED
    BY <1>0, <1>1, <1>3, <2>1, WriteNowIsSafe
<1>4. CASE cache' = None /\ UNCHANGED <<buffer, latest, scheduled>>
  <2>1. TypeOK' /\ RemoveLeavesNoDangling'
    BY <1>0, <1>4 DEF SyncInv, TypeOK, RemoveLeavesNoDangling, Pointers
  <2>2. ValueInv'
    BY <1>0, <1>4 DEF SyncInv, ValueInv, Remaining
  <2> QED
    BY <2>1, <2>2 DEF SyncInv
<1> QED
  BY <1>2, <1>3, <1>4 DEF SetParameter

LEMMA SetParameterMultiKeeps ==
  ASSUME SyncInv, NEW T \in SUBSET Effect, NEW s \in Symbol, NEW v \in Value,
         SetParameterMulti(T, s, v)
  PROVE  SyncInv'
<1> DEFINE params == IF s \in Unknown THEN <<>> ELSE <<[symbol |-> s, value |-> v]>>
           entries == ForAll(T \cap inst, params)
<1>1. params \in Seq(KnownParam)
  <2>1. s \notin Unknown => [symbol |-> s, value |-> v] \in KnownParam
    BY DEF KnownParam
  <2> QED
    BY <2>1
<1>2. /\ T \cap inst \in SUBSET inst /\ T \cap inst \in SUBSET Effect
      /\ Schedule(Len(entries), entries, entries)
  BY DEF SetParameterMulti
<1> HIDE DEF params
<1>3. entries \in Seq(EntriesOf(T \cap inst)) /\ entries \in Seq(Entry)
  BY <1>1, <1>2, ForAllType
<1> HIDE DEF entries
<1>4. Len(entries) \in Nat /\ Len(entries) <= Len(entries)
  BY <1>3
<1> QED
  BY <1>2, <1>3, <1>4, ScheduleKeeps

LEMMA FlushParametersKeeps ==
  ASSUME SyncInv, NEW e \in Effect, NEW reset \in Value, NEW params \in ParamList,
         FlushParameters(e, reset, params)
  PROVE  SyncInv'
<1> DEFINE list == Reset(reset) \o Named(params) \o Reset(reset)
           entries == ForAll({e}, list)
<1>1. params \in Seq(Param)
  BY SyncParamsAssumption
<1>2. list \in Seq(KnownParam)
  BY <1>1, ResetType, NamedType
<1>3. WriteNow(entries, entries) /\ UNCHANGED <<inst, at, cache>>
  BY DEF FlushParameters
<1> HIDE DEF list
<1>4. entries \in Seq(Entry)
  BY <1>2, ForAllType
<1> HIDE DEF entries
<1> QED
  BY <1>3, <1>4, WriteNowIsSafe

LEMMA PreRunKeeps ==
  ASSUME SyncInv, NEW T \in SUBSET Effect, NEW reset \in Value, NEW params \in ParamList,
         PreRun(T, reset, params)
  PROVE  SyncInv'
<1> DEFINE resets == IF params = <<>> /\ Cardinality(T) > 1 THEN <<>> ELSE Reset(reset)
           list == Named(params) \o resets
           entries == ForAll(T \cap inst, list)
<1>1. params \in Seq(Param) /\ T \cap inst \in SUBSET Effect
  BY SyncParamsAssumption
<1>2. resets \in Seq(KnownParam)
  BY ResetType
<1>3. WriteNow(entries, entries) /\ UNCHANGED <<inst, at, cache>>
  BY DEF PreRun
<1> HIDE DEF resets
<1>4. list \in Seq(KnownParam)
  BY <1>1, <1>2, NamedType
<1> HIDE DEF list
<1>5. entries \in Seq(Entry)
  BY <1>1, <1>4, ForAllType
<1> HIDE DEF entries
<1> QED
  BY <1>3, <1>5, WriteNowIsSafe

(* The room that effects_flush_parameters_multi computes is enough.        *)
LEMMA FlushParametersMultiKeeps ==
  ASSUME SyncInv, NEW T \in SUBSET Effect, NEW reset \in Value, NEW params \in ParamList,
         FlushParametersMulti(T, reset, params)
  PROVE  SyncInv'
<1> DEFINE U == T \cap inst
           c == Cardinality(U)
           r == IF reset = 0 THEN 0 ELSE 1
           found == Found(params) \o Reset(reset)
           named == Named(params) \o Reset(reset)
           entries == ForAll(U, found)
           wanted == ForAll(U, named)
<1>1. params \in Seq(Param) /\ U \in SUBSET Effect /\ U \in SUBSET inst
  BY SyncParamsAssumption
<1>2. /\ Reset(reset) \in Seq(KnownParam) /\ Len(Reset(reset)) = r
      /\ Found(params) \in Seq(KnownParam) /\ Len(Found(params)) <= Len(params)
      /\ Named(params) \in Seq(KnownParam)
  BY <1>1, ResetType, FoundType, NamedType
<1>3. Schedule((Len(params) + r) * c, entries, wanted)
  BY DEF FlushParametersMulti
<1>4. found \in Seq(KnownParam) /\ named \in Seq(KnownParam) /\ Len(found) = Len(Found(params)) + r
  <2> DEFINE x == Found(params)
             y == Reset(reset)
             z == Named(params)
  <2>1. /\ x \in Seq(KnownParam) /\ y \in Seq(KnownParam) /\ z \in Seq(KnownParam)
        /\ Len(y) = r
    BY <1>2
  <2> HIDE DEF x, y, z, r
  <2>2. x \o y \in Seq(KnownParam) /\ z \o y \in Seq(KnownParam) /\ Len(x \o y) = Len(x) + r
    BY <2>1
  <2> QED
    BY <2>2 DEF x, y, z
<1>5. Len(found) <= Len(params) + r /\ Len(found) \in Nat /\ Len(params) + r \in Nat
  BY <1>1, <1>2, <1>4
<1> HIDE DEF U, found, named, r
<1>6. /\ entries \in Seq(EntriesOf(U)) /\ entries \in Seq(Entry)
      /\ c \in Nat /\ Len(entries) = c * Len(found)
      /\ wanted \in Seq(Entry)
  BY <1>1, <1>4, ForAllType
<1> HIDE DEF entries, wanted, c
<1>7. (Len(params) + r) * c \in Nat /\ Len(entries) <= (Len(params) + r) * c
  <2> DEFINE a == Len(found)
             b == Len(params) + r
  <2>1. a \in Nat /\ b \in Nat /\ a <= b /\ c \in Nat
    BY <1>5, <1>6
  <2> HIDE DEF a, b
  <2>2. c * a <= b * c /\ b * c \in Nat
    BY <2>1
  <2> QED
    BY <1>6, <2>2 DEF a, b
<1> QED
  BY <1>1, <1>3, <1>6, <1>7, ScheduleKeeps

(* effects_remove writes what is scheduled first.                          *)
LEMMA RemoveEffectKeeps ==
  ASSUME SyncInv, NEW e \in Effect, RemoveEffect(e)
  PROVE  SyncInv'
<1>1. /\ at = 0 /\ at' = 0 /\ scheduled' = <<>> /\ latest' = latest
      /\ buffer' = Applied(buffer, scheduled)
      /\ inst' \subseteq inst /\ (cache' = None \/ UNCHANGED <<inst, cache>>)
  BY DEF RemoveEffect, Unlocked
<1>2. scheduled \in Seq(Entry) /\ buffer \in [Port -> Value]
  BY DEF SyncInv, TypeOK
<1>3. buffer' \in [Port -> Value]
  BY <1>1, <1>2, AppliedType
<1>4. TypeOK'
  BY <1>1, <1>3, SyncParamsAssumption DEF SyncInv, TypeOK
<1>5. RemoveLeavesNoDangling'
  BY <1>1 DEF SyncInv, RemoveLeavesNoDangling, Pointers
<1>6. Remaining = scheduled /\ Remaining' = <<>>
  BY <1>1 DEF Remaining
<1>7. ASSUME NEW p \in Port, p[1] \in inst', latest'[p] # None
      PROVE  Applied(buffer', Remaining')[p] = latest'[p]
  <2>1. Writes(<<>>, p) = {}
    BY DEF Writes
  <2>2. Applied(buffer', <<>>)[p] = Applied(buffer, scheduled)[p]
    BY <1>1, <2>1, NoWrite
  <2> QED
    BY <1>1, <1>6, <1>7, <2>2 DEF SyncInv, ValueInv
<1> QED
  BY <1>4, <1>5, <1>7 DEF SyncInv, ValueInv

LEMMA RemoveAllKeeps ==
  ASSUME SyncInv, RemoveAll
  PROVE  SyncInv'
<1>1. /\ at = 0 /\ at' = 0 /\ scheduled' = <<>> /\ buffer' = buffer
      /\ latest' = Unjudged(Pending)
      /\ inst' \subseteq inst /\ (cache' = None \/ UNCHANGED <<inst, cache>>)
  BY DEF RemoveAll, Unlocked
<1>2. latest' \in [Port -> Value \union {None}]
  BY <1>1 DEF SyncInv, TypeOK, Unjudged
<1>3. TypeOK'
  BY <1>1, <1>2, SyncParamsAssumption DEF SyncInv, TypeOK
<1>4. RemoveLeavesNoDangling'
  BY <1>1 DEF SyncInv, RemoveLeavesNoDangling, Pointers
<1>5. ASSUME NEW p \in Port, p[1] \in inst', latest'[p] # None
      PROVE  Applied(buffer', Remaining')[p] = latest'[p]
  <2>1. p \notin Pending /\ latest'[p] = latest[p]
    BY <1>1, <1>5 DEF Unjudged
  <2>2. Writes(Remaining, p) = {} /\ Writes(Remaining', p) = {}
    BY <1>1, <2>1, RemainingType DEF SyncInv, Remaining, Writes
  <2>3. Applied(buffer', Remaining')[p] = buffer[p] /\ Applied(buffer, Remaining)[p] = buffer[p]
    BY <1>1, <2>2, NoWrite
  <2> QED
    BY <1>1, <1>5, <2>1, <2>3 DEF SyncInv, ValueInv
<1> QED
  BY <1>3, <1>4, <1>5 DEF SyncInv, ValueInv

(* effects_remove_multi leaves the entries for other effects alone.        *)
LEMMA RemoveMultiKeeps ==
  ASSUME SyncInv, NEW T \in SUBSET Effect, RemoveMulti(T)
  PROVE  SyncInv'
<1> DEFINE U == T \cap inst
<1>1. /\ inst' = inst \ T /\ UNCHANGED <<buffer, at, latest>>
      /\ scheduled' = FreeScheduled(U, "multi_removed")
      /\ cache' = IF cache = None THEN None ELSE Freed(cache, U, "multi_removed")
  BY DEF RemoveMulti
<1>2. /\ scheduled \in Seq(Entry) /\ Len(scheduled) \in Nat /\ DOMAIN scheduled = 1..Len(scheduled)
      /\ \A i \in DOMAIN scheduled : scheduled[i] \in Entry
      /\ at \in 0..Len(scheduled)
  BY DEF SyncInv, TypeOK
<1>3. ASSUME NEW ptr \in Pointer
      PROVE  /\ Freed(ptr, U, "multi_removed") \in Pointer
             /\ (ptr.state = "multi_removed" \/ (ptr.state = "live" /\ ptr.port[1] \in inst))
                => LET new == Freed(ptr, U, "multi_removed")
                   IN  new.state = "multi_removed" \/ (new.state = "live" /\ new.port[1] \in inst')
             /\ \A p \in Port : p[1] \in inst' =>
                  (Freed(ptr, U, "multi_removed") = Live(p) <=> ptr = Live(p))
  BY <1>1 DEF Freed, Pointer, Live
<1>4. /\ Len(scheduled') = Len(scheduled) /\ DOMAIN scheduled' = DOMAIN scheduled
      /\ scheduled' \in Seq(Entry)
      /\ \A i \in DOMAIN scheduled :
           /\ scheduled'[i].to = Freed(scheduled[i].to, U, "multi_removed")
           /\ scheduled'[i].value = scheduled[i].value
  <2>1. \A i \in DOMAIN scheduled :
          LET new == [scheduled[i] EXCEPT !.to = Freed(@, U, "multi_removed")]
          IN  /\ new \in Entry /\ new.value = scheduled[i].value
              /\ new.to = Freed(scheduled[i].to, U, "multi_removed")
    BY <1>2, <1>3 DEF Entry
  <2>2. scheduled' = [i \in 1..Len(scheduled) |->
                        [scheduled[i] EXCEPT !.to = Freed(@, U, "multi_removed")]]
    BY <1>1, <1>2 DEF FreeScheduled
  <2> DEFINE new(i) == [scheduled[i] EXCEPT !.to = Freed(@, U, "multi_removed")]
  <2>3. /\ scheduled' = [i \in 1..Len(scheduled) |-> new(i)]
        /\ \A i \in 1..Len(scheduled) : new(i) \in Entry
    BY <1>2, <2>1, <2>2
  <2>4. \A i \in DOMAIN scheduled : scheduled'[i] = new(i)
    BY <1>2, <2>3
  <2>5. \A i \in DOMAIN scheduled : /\ new(i).value = scheduled[i].value
                                   /\ new(i).to = Freed(scheduled[i].to, U, "multi_removed")
    BY <2>1
  <2>6. \A i \in DOMAIN scheduled : /\ scheduled'[i].value = scheduled[i].value
                                   /\ scheduled'[i].to = Freed(scheduled[i].to, U, "multi_removed")
    BY <2>4, <2>5
  <2> HIDE DEF new, U
  <2>7. /\ scheduled' \in Seq(Entry) /\ Len(scheduled') = Len(scheduled)
        /\ DOMAIN scheduled' = DOMAIN scheduled
    BY <1>2, <2>3
  <2> QED
    BY <2>6, <2>7
<1>5. TypeOK'
  BY <1>1, <1>3, <1>4 DEF SyncInv, TypeOK
<1>6. \A i \in DOMAIN scheduled : scheduled[i].to \in Pointer /\ scheduled[i].to \in Pointers
  BY <1>2 DEF Entry, Pointers
<1>7. ASSUME NEW new \in Pointers'
      PROVE  \E ptr \in Pointers : ptr \in Pointer /\ new = Freed(ptr, U, "multi_removed")
  <2>1. CASE new \in {cache'} \ {None}
    <3>1. cache # None /\ new = Freed(cache, U, "multi_removed")
      BY <1>1, <2>1
    <3>2. cache \in Pointers /\ cache \in Pointer
      BY <3>1 DEF Pointers, SyncInv, TypeOK
    <3> QED
      BY <3>1, <3>2
  <2>2. CASE \E i \in DOMAIN scheduled' : new = scheduled'[i].to
    BY <1>4, <1>6, <2>2
  <2> QED
    BY <1>7, <2>1, <2>2 DEF Pointers
<1>8. RemoveLeavesNoDangling'
  <2> HIDE DEF U
  <2> QED
    BY <1>3, <1>7 DEF SyncInv, RemoveLeavesNoDangling
<1>9. ASSUME NEW p \in Port, p[1] \in inst', latest'[p] # None
      PROVE  Applied(buffer', Remaining')[p] = latest'[p]
  <2>1. /\ DOMAIN Remaining' = DOMAIN Remaining
        /\ \A i \in DOMAIN Remaining :
             /\ Remaining'[i].to = Live(p) <=> Remaining[i].to = Live(p)
             /\ Remaining'[i].value = Remaining[i].value
    <3>1. \A i \in DOMAIN scheduled :
            /\ scheduled'[i].to = Live(p) <=> scheduled[i].to = Live(p)
            /\ scheduled'[i].value = scheduled[i].value
      BY <1>3, <1>4, <1>6, <1>9
    <3>2. CASE at = 0
      BY <1>1, <1>4, <3>1, <3>2 DEF Remaining
    <3>3. CASE at # 0
      <4> DEFINE L == Len(scheduled)
                 k == L - at + 1
      <4>1. L \in Nat /\ at \in 1..L /\ Remaining = SubSeq(scheduled, at, L)
            /\ Remaining' = SubSeq(scheduled', at, L)
        <5>1. at' = at /\ Len(scheduled') = L
          BY <1>1, <1>4
        <5> QED
          BY <1>2, <3>3, <5>1 DEF Remaining
      <4>2. /\ DOMAIN Remaining = 1..k /\ DOMAIN Remaining' = 1..k
            /\ \A i \in 1..k : Remaining[i] = scheduled[at + i - 1]
            /\ \A i \in 1..k : Remaining'[i] = scheduled'[at + i - 1]
        BY <1>2, <1>4, <4>1
      <4>3. \A i \in 1..k : at + i - 1 \in DOMAIN scheduled
        BY <1>2, <4>1
      <4> HIDE DEF k
      <4> QED
        BY <3>1, <4>2, <4>3
    <3> QED
      BY <3>2, <3>3
  <2>2. Writes(Remaining', p) = Writes(Remaining, p)
    BY <2>1 DEF Writes
  <2>3. Applied(buffer, Remaining')[p] = Applied(buffer, Remaining)[p]
    <3>1. CASE Writes(Remaining, p) = {}
      BY <2>2, <3>1, NoWrite
    <3>2. CASE Writes(Remaining, p) # {}
      <4>1. Max(Writes(Remaining, p)) \in DOMAIN Remaining
        BY <3>2, RemainingType, LastWrite DEF SyncInv
      <4> QED
        BY <2>1, <2>2, <3>2, <4>1 DEF Applied
    <3> QED
      BY <3>1, <3>2
  <2> QED
    BY <1>1, <1>9, <2>3 DEF SyncInv, ValueInv
<1> QED
  BY <1>5, <1>8, <1>9 DEF SyncInv, ValueInv

(* The audio cycle.                                                        *)
LEMMA TryLockKeeps ==
  ASSUME SyncInv, TryLock
  PROVE  SyncInv'
<1>1. /\ at = 0 /\ at' = 1 /\ scheduled # <<>> /\ scheduled \in Seq(Entry)
      /\ UNCHANGED <<inst, buffer, scheduled, cache, latest>>
  BY DEF TryLock, Unlocked, SyncInv, TypeOK
<1>2. Len(scheduled) \in Nat /\ Len(scheduled) # 0
  BY <1>1
<1>3. TypeOK' /\ RemoveLeavesNoDangling'
  BY <1>1, <1>2 DEF SyncInv, TypeOK, RemoveLeavesNoDangling, Pointers
<1>4. SubSeq(scheduled, 1, Len(scheduled)) = scheduled
  BY <1>1, <1>2
<1>5. Remaining' = Remaining
  BY <1>1, <1>4 DEF Remaining
<1> QED
  BY <1>1, <1>3, <1>5 DEF SyncInv, ValueInv

LEMMA ApplyNextKeeps ==
  ASSUME SyncInv, ApplyNext
  PROVE  SyncInv'
<1> DEFINE L == Len(scheduled)
           first == <<scheduled[at]>>
<1>1. /\ scheduled \in Seq(Entry) /\ L \in Nat /\ at \in 1..L /\ scheduled[at] \in Entry
      /\ buffer \in [Port -> Value]
  BY DEF SyncInv, TypeOK, ApplyNext, Unlocked
<1>2. /\ buffer' = Applied(buffer, first) /\ UNCHANGED <<inst, cache, latest>>
      /\ IF at < L THEN at' = at + 1 /\ scheduled' = scheduled ELSE at' = 0 /\ scheduled' = <<>>
  BY DEF ApplyNext
<1>3. first \in Seq(Entry)
  BY <1>1
<1>4. buffer' \in [Port -> Value]
  BY <1>1, <1>2, <1>3, AppliedType
<1>5. TypeOK' /\ RemoveLeavesNoDangling'
  <2>1. CASE at < L
    <3>1. at' \in 0..L /\ scheduled' = scheduled
      BY <1>1, <1>2, <2>1
    <3> QED
      BY <1>2, <1>4, <3>1 DEF SyncInv, TypeOK, RemoveLeavesNoDangling, Pointers
  <2>2. CASE ~(at < L)
    <3>1. at' = 0 /\ scheduled' = <<>>
      BY <1>2, <2>2
    <3> QED
      BY <1>2, <1>4, <3>1, SyncParamsAssumption
         DEF SyncInv, TypeOK, RemoveLeavesNoDangling, Pointers
  <2> QED
    BY <2>1, <2>2
<1>6. Remaining' \in Seq(Entry) /\ Remaining = first \o Remaining'
  <2>1. Remaining = SubSeq(scheduled, at, L)
    BY <1>1 DEF Remaining
  <2>2. CASE at < L
    <3>1. Remaining' = SubSeq(scheduled, at + 1, L)
      BY <1>1, <1>2, <2>2 DEF Remaining
    <3>2. SubSeq(scheduled, at, L) = first \o SubSeq(scheduled, at + 1, L)
      BY <1>1, <2>2
    <3> QED
      BY <1>1, <2>1, <2>2, <3>1, <3>2
  <2>3. CASE at = L
    <3>1. Remaining' = <<>>
      BY <1>1, <1>2, <2>3 DEF Remaining
    <3> DEFINE rest == SubSeq(scheduled, L, L)
    <3>2. /\ rest \in Seq(Entry) /\ Len(rest) = 1 /\ rest[1] = scheduled[L]
      BY <1>1, <2>3
    <3> HIDE DEF rest
    <3>3. rest = <<rest[1]>>
      BY <3>2
    <3>4. SubSeq(scheduled, at, L) = first
      BY <2>3, <3>2, <3>3 DEF rest
    <3> QED
      BY <1>3, <2>1, <3>1, <3>4
  <2> QED
    BY <1>1, <2>2, <2>3
<1>7. ASSUME NEW p \in Port, p[1] \in inst', latest'[p] # None
      PROVE  Applied(buffer', Remaining')[p] = latest'[p]
  <2>1. Applied(buffer, Remaining)[p] = latest[p]
    BY <1>2, <1>7 DEF SyncInv, ValueInv
  <2> HIDE DEF first
  <2>2. Applied(buffer', Remaining')[p] = Applied(buffer, Remaining)[p]
    BY <1>2, <1>3, <1>6, AppliedInTwo
  <2> QED
    BY <1>2, <2>1, <2>2
<1> QED
  BY <1>5, <1>7 DEF SyncInv, ValueInv

LEMMA SyncNext == SyncInv /\ [Next]_vars => SyncInv'
<1> SUFFICES ASSUME SyncInv, [Next]_vars PROVE SyncInv'
  OBVIOUS
<1>1. ASSUME NEW e \in Effect, Add(e) \/ RemoveEffect(e) PROVE SyncInv'
  BY <1>1, AddKeeps, RemoveEffectKeeps
<1>2. ASSUME NEW e \in Effect, NEW s \in Symbol, NEW v \in Value, SetParameter(e, s, v)
      PROVE  SyncInv'
  BY <1>2, SetParameterKeeps
<1>3. ASSUME NEW e \in Effect, NEW r \in Value, NEW ps \in ParamList, FlushParameters(e, r, ps)
      PROVE  SyncInv'
  BY <1>3, FlushParametersKeeps
<1>4. ASSUME NEW T \in Multi, NEW s \in Symbol, NEW v \in Value, SetParameterMulti(T, s, v)
      PROVE  SyncInv'
  BY <1>4, SetParameterMultiKeeps DEF Multi
<1>5. ASSUME NEW T \in Multi, NEW r \in Value, NEW ps \in ParamList,
             FlushParametersMulti(T, r, ps)
      PROVE  SyncInv'
  BY <1>5, FlushParametersMultiKeeps DEF Multi
<1>6. ASSUME NEW T \in SUBSET Effect \ {{}}, NEW r \in Value, NEW ps \in ParamList,
             PreRun(T, r, ps)
      PROVE  SyncInv'
  BY <1>6, PreRunKeeps
<1>7. ASSUME NEW T \in Multi, RemoveMulti(T) PROVE SyncInv'
  BY <1>7, RemoveMultiKeeps DEF Multi
<1>8. CASE RemoveAll
  BY <1>8, RemoveAllKeeps
<1>9. CASE TryLock
  BY <1>9, TryLockKeeps
<1>10. CASE ApplyNext
  BY <1>10, ApplyNextKeeps
<1>11. CASE UNCHANGED vars
  BY <1>11 DEF vars, SyncInv, TypeOK, RemoveLeavesNoDangling, Pointers, ValueInv, Remaining
<1> QED
  BY <1>1, <1>2, <1>3, <1>4, <1>5, <1>6, <1>7, <1>8, <1>9, <1>10, <1>11 DEF Next, Command

-----------------------------------------------------------------------------
(* What follows for every behaviour.                                       *)

THEOREM SyncInvariant == Spec => []SyncInv
<1>1. Init => SyncInv
  BY SyncInit
<1>2. SyncInv /\ [Next]_vars => SyncInv'
  BY SyncNext
<1> QED
  BY <1>1, <1>2, PTL DEF Spec

(* The parameters keep their types: in particular, the entries of          *)
(* multi_param_set and multi_params_flush never overrun the array of       *)
(* g_sync_scheduled_params, though the room for a list is computed before  *)
(* its symbols are looked up.                                              *)
THEOREM SyncTypeCorrect == Spec => []TypeOK
<1>1. SyncInv => TypeOK
  BY DEF SyncInv
<1> QED
  BY <1>1, SyncInvariant, PTL

(* No pointer of effects_set_parameter's cache, and none that is           *)
(* scheduled, dangles because of effects_remove.                           *)
THEOREM NothingDangles == Spec => []RemoveLeavesNoDangling
<1>1. SyncInv => RemoveLeavesNoDangling
  BY DEF SyncInv
<1> QED
  BY <1>1, SyncInvariant, PTL

(* Scheduled and immediate values arrive in the order of the commands.     *)
THEOREM LastValueIsSet == Spec => []LastValueWins
<1>1. SyncInv => LastValueWins
  <2> SUFFICES ASSUME SyncInv, at = 0, scheduled = <<>>, NEW p \in Port, p[1] \in inst,
                      latest[p] # None
               PROVE  latest[p] = buffer[p]
    BY DEF LastValueWins, Unlocked
  <2>1. Remaining = <<>> /\ Writes(<<>>, p) = {}
    BY DEF Remaining, Writes
  <2>2. Applied(buffer, Remaining)[p] = buffer[p]
    BY <2>1, NoWrite
  <2> QED
    BY <2>2 DEF SyncInv, ValueInv
<1> QED
  BY <1>1, SyncInvariant, PTL

=============================================================================
