----------------------------- MODULE EffectLife -----------------------------
(***************************************************************************)
(* The life of one plugin instance in effects.c: effects_add with all its  *)
(* error exits, effects_activate and its multi variant, effects_remove,    *)
(* and what may call into the plugin meanwhile - the JACK callbacks, the   *)
(* pre-run, and the restore of a state or of a preset.                     *)
(*                                                                         *)
(* Two records of the same facts are kept apart: what effects.c believes   *)
(* (lv2_activated, jack_activated), and what the plugin and JACK are in    *)
(* (lv2, jack).  JACK is external: jack_deactivate and jack_client_close   *)
(* wait for a callback that runs, JACK never runs two callbacks of a       *)
(* client at once, and it runs a client before those that hear it.         *)
(***************************************************************************)
EXTENDS FiniteSets

CONSTANT Plugin     \* kinds of plugins, see PluginKinds

Hint == {"live", "no_pre_run", "state", "unsafe", "worker"}

(* HINT_STATE_UNSAFE is only set with HINT_HAS_STATE.                      *)
PluginKinds == {h \in SUBSET Hint : "unsafe" \in h => "state" \in h}

ASSUME EffectLifeAssumption == Plugin \subseteq PluginKinds

Resource == {"client", "uri", "features", "instance", "worker", "mutex", "ports",
             "jack_port", "raw_midi", "buffers", "presets", "monitors", "cv_source"}

VARIABLES
  exists,         \* InstanceExist: the slot has a jack_client
  hints,          \* effect->hints
  lv2_activated, jack_activated,   \* the flags of effect_t
  held,           \* what the slot's pointers own, and has not been freed
  leaked,         \* ghost: what was still held when the slot was cleared
  lv2, jack,      \* the plugin: "none", "inactive" or "active"; the client
  mutex,          \* owner of state_restore_mutex, or "free"
  processing,     \* g_processing_enabled
  pc,             \* what the command thread does
  activate,       \* the argument of effects_add
  cycle,          \* what JACK's callbacks do
  upstream,       \* JACK runs the plugin before the monitor client
  mishap          \* ghost: what failed or was misused in this life of the slot

slotVars  == <<exists, hints, lv2_activated, jack_activated, held, leaked>>
lifeVars  == <<slotVars, lv2, jack, mutex, processing, pc, activate, cycle, upstream, mishap>>

LifeTypeOK ==
  /\ exists \in BOOLEAN /\ hints \in Plugin \cup {{}}
  /\ lv2_activated \in BOOLEAN /\ jack_activated \in BOOLEAN
  /\ held \subseteq Resource /\ leaked \subseteq Resource
  /\ lv2 \in {"none", "inactive", "active"} /\ jack \in BOOLEAN
  /\ mutex \in {"free", "command", "audio"}
  /\ processing \in BOOLEAN /\ activate \in BOOLEAN /\ upstream \in BOOLEAN
  /\ pc \in {"idle", "plugin", "instance", "ports", "buffers", "jack", "presets",
             "fail", "deactivate", "remove_to_lv2", "free_lists", "free_features",
             "free_ports", "free_instance", "close", "clear",
             "to_jack", "to_lv2", "multi_to_lv2", "wait", "prerun", "prerun_lock", "restore", "restore_lock", "preset"}
  /\ cycle \in {"idle", "run", "resize"}
  /\ mishap \subseteq {"jack_activate", "jack_deactivate", "no_wait", "apart", "double_free"}

LifeInit ==
  /\ exists = FALSE /\ hints = {}
  /\ lv2_activated = FALSE /\ jack_activated = FALSE /\ held = {}
  /\ leaked = {} /\ upstream = FALSE
  /\ lv2 = "none" /\ jack = FALSE /\ mutex = "free"
  /\ processing = TRUE
  /\ pc = "idle" /\ activate = FALSE /\ cycle = "idle" /\ mishap = {}

-----------------------------------------------------------------------------
(* effects_add.                                                            *)

Goto(from, to) == pc = from /\ pc' = to

AddStep(from, to, gained) ==
  /\ Goto(from, to)
  /\ held' = held \cup gained
  /\ UNCHANGED <<exists, lv2_activated, jack_activated, leaked, mutex, processing,
                 activate, cycle, upstream>>

(* The slot is cleared and its flags are set before anything exists.  When *)
(* no client can be had, effects_remove finds no instance and does nothing.*)
AddOpen(a) ==
  /\ pc = "idle" /\ ~exists
  /\ hints' = {} /\ lv2_activated' = TRUE /\ jack_activated' = a /\ activate' = a
  /\ \/ pc' = "plugin" /\ exists' = TRUE /\ held' = {"client"}
     \/ pc' = "idle" /\ UNCHANGED <<exists, held>>
  /\ leaked' = {} /\ mishap' = {}
  /\ UNCHANGED <<lv2, jack, mutex, processing, cycle, upstream>>

(* The plugin is looked up by its URI, and gets its features.              *)
AddPlugin ==
  /\ \/ AddStep("plugin", "instance", {"uri", "features"})
     \/ AddStep("plugin", "fail", {"uri"})
  /\ UNCHANGED <<hints, lv2, jack, mishap>>

(* lilv_plugin_instantiate, worker_init, the state interface.              *)
AddInstance(h) ==
  /\ \/ /\ AddStep("instance", "ports", {"instance"} \cup (h \cap {"worker"})
                     \cup (IF "unsafe" \in h THEN {"mutex"} ELSE {}))
        /\ hints' = h /\ lv2' = "inactive"
     \/ AddStep("instance", "fail", {}) /\ UNCHANGED <<hints, lv2>>
  /\ UNCHANGED <<jack, mishap>>

(* The loop over the ports.  Audio and CV ports may lack memory or a port  *)
(* of JACK, control ports memory, event ports a port of JACK.              *)
AddPort(gained) ==
  /\ \/ AddStep("ports", "ports", gained)
     \/ AddStep("ports", "fail", {"ports"})
  /\ UNCHANGED <<hints, lv2, jack, mishap>>

AddAudioPort   == AddPort({"ports", "jack_port"})
AddControlPort == AddPort({"ports"})
AddCvPort      == AddPort({"ports", "jack_port"})

(* The first event port that asks for it is listed in g_raw_midi_port_list.*)
AddEventPort == \E raw \in {{}, {"raw_midi"}} : AddPort({"ports", "jack_port"} \cup raw)

AddPortsDone ==
  /\ AddStep("ports", "buffers", {"ports"})
  /\ UNCHANGED <<hints, lv2, jack, mishap>>

(* Index arrays, event buffers, properties and rings; plugin_uri is freed. *)
AddBuffers ==
  /\ Goto("buffers", "jack")
  /\ held' = (held \cup {"buffers"}) \ {"uri"}
  /\ lv2' = "active"
  /\ UNCHANGED <<exists, hints, lv2_activated, jack_activated, leaked, jack, mutex,
                 processing, activate, cycle, upstream, mishap>>

(* From jack_activate on the callbacks run.                                *)
AddJack ==
  /\ \/ Goto("jack", "presets") /\ jack' = activate /\ UNCHANGED mishap
     \/ /\ activate /\ Goto("jack", "fail")
        /\ mishap' = mishap \cup {"jack_activate"} /\ UNCHANGED jack
  /\ UNCHANGED <<slotVars, lv2, mutex, processing, activate, cycle, upstream>>

AddPresets ==
  /\ AddStep("presets", "idle", {"presets"})
  /\ UNCHANGED <<hints, lv2, jack, mishap>>

(* error: plugin_uri is freed, even if it has been, then effects_remove.   *)
AddFail ==
  /\ Goto("fail", "deactivate")
  /\ held' = held \ {"uri"}
  /\ mishap' = IF "uri" \in held THEN mishap ELSE mishap \cup {"double_free"}
  /\ UNCHANGED <<exists, hints, lv2_activated, jack_activated, leaked, lv2, jack, mutex,
                 processing, activate, cycle, upstream>>

-----------------------------------------------------------------------------
(* effects_remove and effects_remove_multi, as far as they concern the     *)
(* instance: what the slot's pointers own is freed in the code's order.    *)

CallbackOver == cycle = "idle"

RemoveBegin ==
  /\ exists /\ Goto("idle", "deactivate")
  /\ UNCHANGED <<slotVars, lv2, jack, mutex, processing, activate, cycle, upstream, mishap>>

JackDeactivate(next, failed) ==
  \/ /\ jack => CallbackOver
     /\ jack' = FALSE /\ pc' = next /\ UNCHANGED mishap
  \/ /\ jack
     /\ pc' = failed /\ mishap' = mishap \cup {"jack_deactivate"} /\ UNCHANGED jack

RemoveDeactivate ==
  /\ pc = "deactivate" /\ JackDeactivate("free_lists", "idle")
  /\ UNCHANGED <<slotVars, lv2, mutex, processing, activate, cycle, upstream>>

(* effects_remove_multi turns JACK off where the flag says that it is on,  *)
(* and goes on when JACK fails.                                            *)
RemoveOfMulti ==
  /\ pc = "idle" /\ exists
  /\ IF jack_activated THEN JackDeactivate("remove_to_lv2", "remove_to_lv2")
                       ELSE pc' = "free_lists" /\ UNCHANGED <<jack, mishap>>
  /\ UNCHANGED <<slotVars, lv2, mutex, processing, activate, cycle, upstream>>

FreeStep(from, to, freed) ==
  /\ Goto(from, to)
  /\ held' = held \ freed
  /\ UNCHANGED <<exists, hints, lv2_activated, jack_activated, leaked, mutex, processing,
                 activate, cycle, upstream, mishap>>

(* Wrong: the plugin's port stays on the list of raw MIDI ports.           *)
FreeListsNot == FreeStep("free_lists", "free_features", {}) /\ UNCHANGED <<lv2, jack>>

(* effects_remove_inner_pre.                                               *)
FreeLists == FreeStep("free_lists", "free_features", {"raw_midi"}) /\ UNCHANGED <<lv2, jack>>

(* Wrong: the worker's thread is not joined.                               *)
FreeFeaturesOnly == FreeStep("free_features", "free_ports", {"features"}) /\ UNCHANGED <<lv2, jack>>

(* effects_remove_inner_loop: FreeFeatures, which finishes the worker,     *)
FreeFeatures ==
  FreeStep("free_features", "free_ports", {"worker", "features"}) /\ UNCHANGED <<lv2, jack>>

(* the ports, but not what they point to,                                  *)
FreePorts == FreeStep("free_ports", "free_instance", {"ports"}) /\ UNCHANGED <<lv2, jack>>

(* the instance,                                                           *)
FreeInstance ==
  FreeStep("free_instance", "close", {"instance"}) /\ lv2' = "none" /\ UNCHANGED jack

(* the client with its ports,                                              *)
FreeClient ==
  /\ jack => CallbackOver
  /\ FreeStep("close", "clear", {"client", "jack_port"}) /\ jack' = FALSE /\ UNCHANGED lv2

(* and the rest, the mutex if the plugin has one.  InstanceDelete forgets  *)
(* every pointer.                                                          *)
FreeRest ==
  LET freed == {"buffers", "presets"} \cup (IF "unsafe" \in hints THEN {"mutex"} ELSE {})
  IN  /\ Goto("clear", "idle")
      /\ leaked' = held \ freed /\ held' = {}
      /\ exists' = FALSE /\ hints' = {}
      /\ lv2_activated' = FALSE /\ jack_activated' = FALSE /\ mutex' = "free"
      /\ UNCHANGED <<lv2, jack, processing, activate, cycle, upstream, mishap>>

-----------------------------------------------------------------------------
(* effects_activate, and effects_activate_multi, whose threads go on when  *)
(* JACK fails, turn off only what JACK runs, and lower the flag last.      *)

Lv2Activate ==
  /\ lv2_activated' = TRUE
  /\ lv2' = IF lv2_activated THEN lv2 ELSE "active"

ActivateOn ==
  /\ pc = "idle" /\ exists
  /\ Lv2Activate
  /\ IF jack_activated THEN pc' = "idle" ELSE pc' = "to_jack"
  /\ jack_activated' = TRUE
  /\ UNCHANGED <<exists, hints, held, leaked, jack, mutex, processing, activate, cycle,
                 upstream, mishap>>

ToJack ==
  /\ Goto("to_jack", "idle")
  /\ \/ jack' = TRUE /\ UNCHANGED mishap
     \/ mishap' = mishap \cup {"jack_activate"} /\ UNCHANGED jack
  /\ UNCHANGED <<slotVars, lv2, mutex, processing, activate, cycle, upstream>>

ActivateOff ==
  /\ pc = "idle" /\ exists
  /\ jack_activated' = FALSE
  /\ IF jack_activated THEN JackDeactivate("to_lv2", "idle")
                       ELSE pc' = "to_lv2" /\ UNCHANGED <<jack, mishap>>
  /\ UNCHANGED <<exists, hints, lv2_activated, held, leaked, lv2, mutex, processing,
                 activate, cycle, upstream>>

MultiOff ==
  /\ pc = "idle" /\ exists /\ jack_activated
  /\ JackDeactivate("multi_to_lv2", "multi_to_lv2")
  /\ UNCHANGED <<slotVars, lv2, mutex, processing, activate, cycle, upstream>>

(* A plugin that is not pre-run need not stay active without JACK.         *)
Lv2Deactivate ==
  LET off == lv2_activated /\ "no_pre_run" \in hints
  IN  /\ lv2_activated' = (lv2_activated /\ ~off)
      /\ lv2' = IF off THEN "inactive" ELSE lv2
      /\ UNCHANGED <<exists, hints, held, leaked, jack, mutex, processing, activate, cycle,
                     upstream, mishap>>

ToLv2 == Goto("to_lv2", "idle") /\ Lv2Deactivate /\ UNCHANGED jack_activated

(* effects_deactivate_thread, of effects_activate_multi and of             *)
(* effects_remove_multi.                                                   *)
MultiToLv2 ==
  /\ Goto("multi_to_lv2", "idle") \/ Goto("remove_to_lv2", "free_lists")
  /\ Lv2Deactivate /\ jack_activated' = FALSE

-----------------------------------------------------------------------------
(* Commands that give the slot more to own.                                *)

OwnStep(owned) ==
  /\ exists /\ "ports" \in held /\ Goto("idle", "idle")
  /\ held' = owned
  /\ UNCHANGED <<exists, hints, lv2_activated, jack_activated, leaked, lv2, jack, mutex,
                 processing, activate, cycle, upstream, mishap>>

(* effects_monitor_parameter.                                              *)
MonitorParameter == OwnStep(held \cup {"monitors"})

(* effects_cv_map, which replaces a source that the port has.              *)
CvMap == OwnStep(held \cup {"cv_source", "jack_port"})

CvUnmap == "cv_source" \in held /\ OwnStep(held \ {"cv_source"})

-----------------------------------------------------------------------------
(* Commands that call into the plugin.                                     *)

callVars == <<slotVars, lv2, jack, activate, upstream>>

ProcessingOn ==
  /\ Goto("idle", "idle") /\ processing' = TRUE
  /\ UNCHANGED <<callVars, mutex, cycle, mishap>>

(* Off: with a wait for a cycle of the monitor client, or without one, or  *)
(* with one that times out.                                                *)
ProcessingOff ==
  /\ pc = "idle" /\ processing' = FALSE
  /\ \/ pc' = "wait" /\ UNCHANGED mishap
     \/ pc' = "idle" /\ mishap' = mishap \cup {"no_wait"}
  /\ UNCHANGED <<callVars, mutex, cycle>>

(* The answer comes from a cycle of the monitor client.  JACK runs a plugin*)
(* that the monitor client hears before it; another one may still run.     *)
Waited ==
  /\ Goto("wait", "idle") /\ (upstream => CallbackOver)
  /\ mishap' = IF CallbackOver THEN mishap ELSE mishap \cup {"apart"}
  /\ UNCHANGED <<callVars, mutex, processing, cycle>>

(* effects_pre_run.                                                        *)
PreRunBegin ==
  /\ pc = "idle" /\ exists
  /\ "no_pre_run" \notin hints
  /\ ~(jack_activated /\ ("live" \in hints \/ processing))
  /\ lv2_activated
  /\ pc' = IF "unsafe" \in hints THEN "prerun_lock" ELSE "prerun"
  /\ UNCHANGED <<callVars, mutex, processing, cycle, mishap>>

(* effects_state_load of a plugin that has a state.                        *)
StateLoadBegin ==
  /\ pc = "idle" /\ "instance" \in held /\ "state" \in hints
  /\ pc' = IF "unsafe" \in hints THEN "restore_lock" ELSE "restore"
  /\ UNCHANGED <<callVars, mutex, processing, cycle, mishap>>

(* effects_preset_load restores without the mutex.                         *)
PresetLoadBegin ==
  /\ exists /\ "instance" \in held /\ Goto("idle", "preset")
  /\ UNCHANGED <<callVars, mutex, processing, cycle, mishap>>

CallLock ==
  /\ Goto("prerun_lock", "prerun") \/ Goto("restore_lock", "restore")
  /\ mutex = "free" /\ mutex' = "command"
  /\ UNCHANGED <<callVars, processing, cycle, mishap>>

Unlock == IF "unsafe" \in hints THEN mutex' = "free" ELSE UNCHANGED mutex

CallEnd ==
  /\ \/ pc \in {"prerun", "restore"} /\ Unlock
     \/ pc = "preset" /\ UNCHANGED mutex
  /\ pc' = "idle"
  /\ UNCHANGED <<callVars, processing, cycle, mishap>>

-----------------------------------------------------------------------------
(* The JACK callbacks.                                                     *)

(* Wrong: the plugin is run although its state is being restored.          *)
ProcessBeginUnlocked ==
  /\ jack /\ cycle = "idle"
  /\ "live" \in hints \/ processing
  /\ cycle' = "run"
  /\ UNCHANGED <<callVars, mutex, processing, pc, mishap>>

(* ProcessPlugin.  Where it only writes silence, nothing happens here.     *)
(* The mutex is not taken for a live plugin.                               *)
ProcessBegin ==
  /\ jack /\ cycle = "idle"
  /\ \/ "live" \in hints /\ UNCHANGED mutex
     \/ /\ "live" \notin hints /\ processing
        /\ IF "unsafe" \in hints THEN mutex = "free" /\ mutex' = "audio" ELSE UNCHANGED mutex
  /\ cycle' = "run"
  /\ UNCHANGED <<callVars, processing, pc, mishap>>

ProcessEnd ==
  /\ cycle = "run" /\ cycle' = "idle"
  /\ Unlock
  /\ UNCHANGED <<callVars, processing, pc, mishap>>

(* BufferSize of a plugin with options: it is deactivated and activated.   *)
ResizeBegin ==
  /\ jack /\ cycle = "idle" /\ lv2_activated
  /\ cycle' = "resize" /\ lv2' = "inactive"
  /\ UNCHANGED <<slotVars, jack, mutex, processing, pc, activate, upstream, mishap>>

(* Wrong: the plugin is not activated again.                               *)
ResizeEndInactive ==
  /\ cycle = "resize"
  /\ cycle' = "idle" /\ UNCHANGED lv2
  /\ UNCHANGED <<slotVars, jack, mutex, processing, pc, activate, upstream, mishap>>

ResizeEnd ==
  /\ cycle = "resize"
  /\ cycle' = "idle" /\ lv2' = IF lv2_activated THEN "active" ELSE lv2
  /\ UNCHANGED <<slotVars, jack, mutex, processing, pc, activate, upstream, mishap>>

(* Connections change the order in which JACK runs its clients, from one   *)
(* cycle to the next.                                                      *)
Reorder ==
  /\ exists /\ cycle = "idle"
  /\ upstream' = ~upstream
  /\ UNCHANGED <<slotVars, lv2, jack, mutex, processing, pc, activate, cycle, mishap>>

LifeCommand ==
  \/ \E a \in BOOLEAN : AddOpen(a)
  \/ AddPlugin \/ (\E h \in Plugin : AddInstance(h))
  \/ AddAudioPort \/ AddControlPort \/ AddCvPort \/ AddEventPort \/ AddPortsDone \/ AddBuffers
  \/ AddJack \/ AddPresets \/ AddFail
  \/ RemoveBegin \/ RemoveDeactivate \/ RemoveOfMulti
  \/ FreeLists \/ FreeFeatures \/ FreePorts \/ FreeInstance \/ FreeClient \/ FreeRest
  \/ ActivateOn \/ ToJack \/ ActivateOff \/ MultiOff \/ ToLv2 \/ MultiToLv2
  \/ MonitorParameter \/ CvMap \/ CvUnmap
  \/ ProcessingOn \/ ProcessingOff \/ Waited
  \/ PreRunBegin \/ StateLoadBegin \/ PresetLoadBegin \/ CallLock \/ CallEnd

LifeCallback == ProcessBegin \/ ProcessEnd \/ ResizeBegin \/ ResizeEnd \/ Reorder

LifeNext == LifeCommand \/ LifeCallback

-----------------------------------------------------------------------------
(* Properties.                                                             *)

JackFailed == mishap \cap {"jack_activate", "jack_deactivate"} # {}

(* Whichever call of effects_add failed and however the plugin was removed,*)
(* all that its slot has ever owned is freed, item by item, except the     *)
(* monitors of effects_monitor_parameter and the CV source of a port that  *)
(* is still mapped: nobody frees those.  The client of an empty slot is    *)
(* closed and its mutex free.  And nothing is freed twice, except          *)
(* plugin_uri when jack_activate fails in effects_add.                     *)
NothingLeft ==
  /\ leaked \subseteq {"monitors", "cv_source"}
  /\ ~exists => held = {} /\ ~jack /\ mutex = "free"
  /\ "double_free" \in mishap => "jack_activate" \in mishap

(* What somebody uses is not freed: a worker's thread never outlives the   *)
(* instance that it works for, nor a port its client, and while a callback *)
(* runs it has its client, its ports, its buffers and the instance, unless *)
(* JACK has failed: effects_remove_multi then frees them all the same.     *)
UsedIsHeld ==
  /\ "worker" \in held => "instance" \in held
  /\ "jack_port" \in held => "client" \in held
  /\ cycle # "idle" /\ ~JackFailed =>
       exists /\ {"client", "ports", "buffers", "instance"} \subseteq held

(* Between commands the flags of effect_t say what the plugin and JACK are *)
(* in, unless a call of JACK has failed: jack_activated is set before the  *)
(* call and not taken back.                                                *)
FlagsTellTruth ==
  pc = "idle" /\ exists /\ cycle # "resize" /\ ~JackFailed =>
    /\ lv2_activated = (lv2 = "active")
    /\ jack_activated = jack

(* run() is only called of an activated plugin, by JACK or by a pre-run;   *)
(* a pre-run while JACK changes the buffer size is the exception.          *)
RunsOnlyActive ==
  ~JackFailed => /\ cycle = "run" => lv2 = "active"
                 /\ pc = "prerun" /\ cycle # "resize" => lv2 = "active"

(* A state that must not be restored while the plugin runs is not, if it   *)
(* comes from effects_state_load and the plugin is not a live one.         *)
RestoresAlone ==
  pc = "restore" /\ "unsafe" \in hints /\ "live" \notin hints => cycle # "run"

(* A pre-run and a cycle do not run the plugin at the same time, as long   *)
(* as processing was only turned off with a wait, no wait was answered     *)
(* while a plugin ran that the monitor client does not hear, and JACK never*)
(* failed.                                                                 *)
PreRunsAlone ==
  pc = "prerun" /\ mishap \cap {"no_wait", "apart"} = {} /\ ~JackFailed => cycle # "run"

(* Whoever runs or restores an unsafe plugin has its mutex, and so nobody  *)
(* unlocks what another one has locked; live plugins are the exception,    *)
(* for which ProcessPlugin unlocks what it has not locked.                 *)
CallsHoldMutex ==
  "unsafe" \in hints /\ "live" \notin hints =>
    /\ cycle = "run" => mutex = "audio"
    /\ pc \in {"prerun", "restore"} => mutex = "command"

(* So nobody is in the plugin while somebody else restores or runs it, and *)
(* nobody is in it while it is not active.                                 *)
CallsAreAlone == LifeTypeOK /\ RunsOnlyActive /\ RestoresAlone /\ PreRunsAlone /\ CallsHoldMutex
=============================================================================
