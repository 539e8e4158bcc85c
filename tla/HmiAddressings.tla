--------------------------- MODULE HmiAddressings ---------------------------
(***************************************************************************)
(* HMI addressings: the array g_hmi_addressings, whose free entries have   *)
(* actuator -1, and the pointers to it that the ports and the plugins      *)
(* hold.  Commands map and unmap; a plugin that was told of an addressing  *)
(* asks for a LED, a label or a value of its widget while it runs.         *)
(***************************************************************************)
EXTENDS Integers, FiniteSetsExt

CONSTANTS
  HmiPort,     \* the ports that may be addressed, of any effect
  HmiOwner,    \* the effect of each
  Actuator,    \* the hardware ids
  HmiMax       \* MAX_HMI_ADDRESSINGS

ASSUME HmiAssumption == Actuator \subseteq Nat /\ HmiMax \in Nat \ {0} /\ IsFiniteSet(HmiPort)

VARIABLES
  hmi_present,      \* the effects that exist
  hmi_addressings,  \* actuator_id of each entry
  hmi_port,         \* hmi_addressing of each port, 0 is NULL
  hmi_known,        \* the addressing each plugin was told of, 0 for none
  hmi_unmapping,    \* the port whose plugin was told to forget, or nothing
  hmi_widget        \* the plugin's call under way

hmiVars == <<hmi_present, hmi_addressings, hmi_port, hmi_known, hmi_unmapping, hmi_widget>>

HmiEffect == {HmiOwner[p] : p \in HmiPort}
PortsOf(e) == {p \in HmiPort : HmiOwner[p] = e}
NoWidget == [at |-> "idle"]

HmiInit ==
  /\ hmi_present = {} /\ hmi_addressings = [i \in 1..HmiMax |-> -1]
  /\ hmi_port = [p \in HmiPort |-> 0] /\ hmi_known = [p \in HmiPort |-> 0]
  /\ hmi_unmapping = {} /\ hmi_widget = NoWidget

HmiIdle == hmi_unmapping = {}

AddAddressable(e) ==
  /\ HmiIdle /\ e \notin hmi_present /\ hmi_present' = hmi_present \union {e}
  /\ UNCHANGED <<hmi_addressings, hmi_port, hmi_known, hmi_unmapping, hmi_widget>>

(* effects_hmi_map: refused for a port that is addressed already and when  *)
(* no entry is free; the plugin is told in the end.                        *)
HmiMap(p, a) ==
  LET free == {i \in 1..HmiMax : hmi_addressings[i] = -1}
  IN /\ HmiIdle /\ HmiOwner[p] \in hmi_present /\ hmi_port[p] = 0 /\ free # {}
     /\ hmi_addressings' = [hmi_addressings EXCEPT ![Min(free)] = a]
     /\ hmi_port' = [hmi_port EXCEPT ![p] = Min(free)]
     /\ hmi_known' = [hmi_known EXCEPT ![p] = Min(free)]
     /\ UNCHANGED <<hmi_present, hmi_unmapping, hmi_widget>>

(* effects_hmi_unmap: the plugin is told first, addressed or not.          *)
HmiUnaddress(p) ==
  /\ HmiIdle /\ HmiOwner[p] \in hmi_present
  /\ hmi_known' = [hmi_known EXCEPT ![p] = 0]
  /\ hmi_unmapping' = {p}
  /\ UNCHANGED <<hmi_present, hmi_addressings, hmi_port, hmi_widget>>

Freed(slots) == [i \in 1..HmiMax |-> IF i \in slots THEN -1 ELSE hmi_addressings[i]]

InWidget(ports) == hmi_widget.at # "idle" /\ hmi_widget.port \in ports

(* Ghost: a plugin that is in a widget call about p while p is unmapped.   *)
Late(ports) ==
  IF InWidget(ports) THEN [hmi_widget EXCEPT !.late = TRUE] ELSE hmi_widget

HmiRelease ==
  /\ \E p \in hmi_unmapping : /\ hmi_addressings' = Freed({hmi_port[p]})
                              /\ hmi_port' = [hmi_port EXCEPT ![p] = 0]
  /\ hmi_unmapping' = {} /\ hmi_widget' = Late(hmi_unmapping)
  /\ UNCHANGED <<hmi_present, hmi_known>>

(* Wrong: the entries of a removed effect stay in use.                     *)
HmiRemoveKeeps(e) ==
  /\ HmiIdle /\ e \in hmi_present
  /\ ~InWidget(PortsOf(e))
  /\ hmi_present' = hmi_present \ {e}
  /\ hmi_port' = [p \in HmiPort |-> IF p \in PortsOf(e) THEN 0 ELSE hmi_port[p]]
  /\ hmi_known' = [p \in HmiPort |-> IF p \in PortsOf(e) THEN 0 ELSE hmi_known[p]]
  /\ UNCHANGED <<hmi_addressings, hmi_unmapping, hmi_widget>>

(* effects_remove of one effect, or of all of them, when every entry is    *)
(* freed at once as well: jack_deactivate has waited for its last cycle.   *)
HmiRemove(e) ==
  /\ HmiIdle /\ e \in hmi_present
  /\ ~InWidget(PortsOf(e))
  /\ hmi_present' = hmi_present \ {e}
  /\ hmi_addressings' = Freed({hmi_port[p] : p \in PortsOf(e)})
  /\ hmi_port' = [p \in HmiPort |-> IF p \in PortsOf(e) THEN 0 ELSE hmi_port[p]]
  /\ hmi_known' = [p \in HmiPort |-> IF p \in PortsOf(e) THEN 0 ELSE hmi_known[p]]
  /\ UNCHANGED <<hmi_unmapping, hmi_widget>>

HmiRemoveAll ==
  /\ HmiIdle /\ hmi_widget.at = "idle"
  /\ hmi_present' = {} /\ hmi_addressings' = Freed(1..HmiMax)
  /\ hmi_port' = [p \in HmiPort |-> 0] /\ hmi_known' = [p \in HmiPort |-> 0]
  /\ UNCHANGED <<hmi_unmapping, hmi_widget>>

-----------------------------------------------------------------------------
(* HMIWidgetsSetLedWithBlink, SetLedWithBrightness, SetLabel, SetValue,    *)
(* SetUnit, SetIndicator, PopupMessage: the plugin passes the pointer it   *)
(* was told, the actuator is read from the entry, and the message goes out *)
(* under g_hmi_mutex.                                                      *)
WidgetBegin(p) ==
  /\ hmi_widget.at = "idle" /\ HmiOwner[p] \in hmi_present /\ hmi_known[p] # 0
  /\ hmi_widget' = [at |-> "read", port |-> p, entry |-> hmi_known[p], late |-> FALSE]
  /\ UNCHANGED <<hmi_present, hmi_addressings, hmi_port, hmi_known, hmi_unmapping>>

WidgetRead ==
  /\ hmi_widget.at = "read"
  /\ hmi_widget' = [at |-> "send", port |-> hmi_widget.port, late |-> hmi_widget.late,
                    actuator |-> hmi_addressings[hmi_widget.entry]]
  /\ UNCHANGED <<hmi_present, hmi_addressings, hmi_port, hmi_known, hmi_unmapping>>

WidgetSend ==
  /\ hmi_widget.at = "send" /\ hmi_widget' = NoWidget
  /\ UNCHANGED <<hmi_present, hmi_addressings, hmi_port, hmi_known, hmi_unmapping>>

HmiNext ==
  \/ \E e \in HmiEffect : AddAddressable(e) \/ HmiRemove(e)
  \/ \E p \in HmiPort : (\E a \in Actuator : HmiMap(p, a)) \/ HmiUnaddress(p) \/ WidgetBegin(p)
  \/ HmiRelease \/ HmiRemoveAll \/ WidgetRead \/ WidgetSend

-----------------------------------------------------------------------------
(* An entry is in use exactly when one port points to it, a port of an     *)
(* effect that exists, so that none leaks and none is shared; a plugin     *)
(* knows the entry of its port; and a message goes to the actuator the     *)
(* port is mapped to, unless the port was unmapped while the plugin was in *)
(* the call (effects.c:3754-3992, 6435, 8824-8859, 8909-8928).             *)
AddressingsSound ==
  /\ \A i \in 1..HmiMax :
       hmi_addressings[i] # -1
         <=> Cardinality({p \in HmiPort : hmi_port[p] = i /\ HmiOwner[p] \in hmi_present}) = 1
  /\ \A p \in HmiPort : hmi_port[p] # 0 => hmi_addressings[hmi_port[p]] # -1
  /\ \A p \in HmiPort : hmi_known[p] \in {0, hmi_port[p]}
  /\ hmi_widget.at = "send" /\ ~hmi_widget.late =>
       hmi_port[hmi_widget.port] # 0
         /\ hmi_widget.actuator = hmi_addressings[hmi_port[hmi_widget.port]]
=============================================================================
