----------------------------- MODULE GlobalMidi -----------------------------
(***************************************************************************)
(* MIDI on the global client, store by store: ProcessGlobalClient looks a  *)
(* controller up in g_midi_cc_list without a lock while midi_map and       *)
(* midi_unmap write its slots one field after the other; what no slot      *)
(* claims is reported for the channels that are monitored.  Which slot a   *)
(* command takes, and learning, are in MidiMap.                            *)
(***************************************************************************)
EXTENDS Integers, Sequences

CONSTANTS
  CcPort,      \* the ports that may be mapped
  CcSlots,     \* how many slots g_midi_cc_list has
  Channel,     \* the MIDI channels
  CcNumber     \* the controllers; 0 is what a cleared slot has

NoCcPort == "none"

ASSUME GlobalMidiAssumption ==
  /\ CcSlots \in Nat /\ Channel \subseteq Nat /\ CcNumber \subseteq Nat
  /\ NoCcPort \notin CcPort

VARIABLES
  slots,       \* g_midi_cc_list
  stores,      \* the command under way and what it stores next
  message,     \* the MIDI event the cycle works on
  monitored,   \* g_monitored_midi_programs
  listening_to \* g_monitored_midi_controls

globalMidiVars == <<slots, stores, message, monitored, listening_to>>

CcSlot == 1..CcSlots
Cleared == [effect |-> NoCcPort, symbol |-> NoCcPort, channel |-> -1, controller |-> 0]

GlobalMidiInit ==
  /\ slots = [s \in CcSlot |-> Cleared] /\ stores = <<>> /\ message = [at |-> "none"]
  /\ monitored = {} /\ listening_to = {}

-----------------------------------------------------------------------------
(* The commands.  A store is a slot, a field and its new value.            *)

MappingOf(p) == {s \in CcSlot : slots[s].effect = p}
Unassigned == {s \in CcSlot : slots[s].effect = NoCcPort}

Stores(s, fields) == [i \in DOMAIN fields |-> <<s, fields[i][1], fields[i][2]>>]

(* Wrong: the new slot is published before it is filled.                   *)
MapPublishFirst(p, ch, cc) ==
  /\ stores = <<>>
  /\ \/ \E s \in MappingOf(p) :
          stores' = Stores(s, <<<<"channel", ch>>, <<"controller", cc>>>>)
     \/ /\ MappingOf(p) = {}
        /\ \E s \in Unassigned :
             stores' = Stores(s, <<<<"effect", p>>, <<"channel", ch>>, <<"controller", cc>>,
                                   <<"symbol", p>>>>)
  /\ UNCHANGED <<slots, message, monitored, listening_to>>

(* effects_midi_map: the slot of the port gets the new controller, or a    *)
(* free slot is filled, its effect_id last.                                *)
MapController(p, ch, cc) ==
  /\ stores = <<>>
  /\ \/ \E s \in MappingOf(p) :
          stores' = Stores(s, <<<<"channel", ch>>, <<"controller", cc>>>>)
     \/ /\ MappingOf(p) = {}
        /\ \E s \in Unassigned :
             stores' = Stores(s, <<<<"symbol", p>>, <<"channel", ch>>, <<"controller", cc>>,
                                   <<"effect", p>>>>)
  /\ UNCHANGED <<slots, message, monitored, listening_to>>

(* effects_midi_unmap and the clearing in effects_remove.                  *)
UnmapController(p) ==
  /\ stores = <<>>
  /\ \E s \in MappingOf(p) :
       stores' = Stores(s, <<<<"channel", -1>>, <<"controller", 0>>, <<"effect", NoCcPort>>,
                             <<"symbol", NoCcPort>>>>)
  /\ UNCHANGED <<slots, message, monitored, listening_to>>

(* One store.  Ghost: one to a slot in use spoils the lookup that is at it.*)
Store ==
  LET slot == stores[1][1] field == stores[1][2] value == stores[1][3]
  IN /\ stores # <<>>
     /\ slots' = [slots EXCEPT ![slot][field] = value]
     /\ stores' = Tail(stores)
     /\ message' = IF message.at \in {"look", "apply", "report"}
                      /\ slots[slot].effect # NoCcPort /\ slot = message.slot
                   THEN [message EXCEPT !.spoiled = TRUE] ELSE message
     /\ UNCHANGED <<monitored, listening_to>>

(* monitor_midi_program and monitor_midi_control.                          *)
MonitorPrograms(ch, on) ==
  /\ stores = <<>> /\ monitored' = (IF on THEN monitored \union {ch} ELSE monitored \ {ch})
  /\ UNCHANGED <<slots, stores, message, listening_to>>

MonitorControls(ch, on) ==
  /\ stores = <<>>
  /\ listening_to' = (IF on THEN listening_to \union {ch} ELSE listening_to \ {ch})
  /\ UNCHANGED <<slots, stores, message, monitored>>

-----------------------------------------------------------------------------
(* ProcessGlobalClient.                                                    *)

CycleMidi == UNCHANGED <<slots, stores, monitored, listening_to>>

ProgramChange(ch) ==
  /\ message.at \in {"none", "done"}
  /\ message' = [at |-> "done", kind |-> "program", channel |-> ch,
                 result |-> IF ch \in monitored THEN "program reported" ELSE "discarded"]
  /\ CycleMidi

Searching(from) == [at |-> "search", channel |-> message.channel,
                    controller |-> message.controller, slot |-> from]

HearController(ch, cc) ==
  /\ message.at \in {"none", "done"}
  /\ message' = [at |-> "search", channel |-> ch, controller |-> cc, slot |-> 1]
  /\ CycleMidi

(* The slots are passed in turn.  One that is in use, of the channel, is   *)
(* asked for its controller.                                               *)
SearchSlot ==
  LET slot == slots[message.slot]
  IN /\ message.at = "search" /\ message.slot \in CcSlot
     /\ message' = IF slot.effect # NoCcPort /\ slot.channel = message.channel
                   THEN [at |-> "look", channel |-> message.channel,
                         controller |-> message.controller, slot |-> message.slot,
                         spoiled |-> FALSE]
                   ELSE Searching(message.slot + 1)
     /\ CycleMidi

LookController ==
  /\ message.at = "look"
  /\ message' = IF slots[message.slot].controller = message.controller
                THEN [message EXCEPT !.at = "apply"] ELSE Searching(message.slot + 1)
  /\ CycleMidi

(* UpdateValueFromMidi compares the symbol, and NULL ends the program.     *)
ApplyController ==
  /\ message.at = "apply"
  /\ message' = [message EXCEPT !.at = IF slots[message.slot].symbol = NoCcPort THEN "crashed"
                                       ELSE "report"]
  /\ CycleMidi

ReportController ==
  /\ message.at = "report"
  /\ message' = [at |-> "done", kind |-> "param_set", channel |-> message.channel,
                 controller |-> message.controller, slot |-> message.slot,
                 port |-> slots[message.slot].effect, spoiled |-> message.spoiled]
  /\ CycleMidi

(* No slot claims the controller and no port is being learned.             *)
SearchEnds ==
  /\ message.at = "search" /\ message.slot > CcSlots
  /\ message' = [at |-> "done", kind |-> "control", channel |-> message.channel,
                 result |-> IF message.channel \in monitored THEN "control reported"
                            ELSE "discarded"]
  /\ CycleMidi

GlobalMidiNext ==
  \/ message.at = "crashed" /\ UNCHANGED globalMidiVars
  \/ /\ message.at # "crashed"
     /\ \/ \E p \in CcPort, ch \in Channel, cc \in CcNumber : MapController(p, ch, cc)
        \/ \E p \in CcPort : UnmapController(p)
        \/ \E ch \in Channel, on \in BOOLEAN : MonitorPrograms(ch, on) \/ MonitorControls(ch, on)
        \/ \E ch \in Channel : ProgramChange(ch)
        \/ \E ch \in Channel, cc \in CcNumber : HearController(ch, cc)
        \/ SearchSlot \/ LookController \/ ApplyController \/ ReportController \/ SearchEnds
        \/ Store

-----------------------------------------------------------------------------
(* A lookup whose slot was not in use when a command wrote it sees it      *)
(* whole: no NULL symbol, and a param_set of the port that the controller  *)
(* is mapped to.  Only a slot that is unmapped or mapped anew under the    *)
(* lookup may tear it (effects.c:3057-3110, 8056-8106).                    *)
LookupsAreWhole ==
  /\ message.at = "crashed" => message.spoiled
  /\ message.at = "report" /\ ~message.spoiled =>
       LET slot == slots[message.slot]
       IN slot.effect \in CcPort /\ slot.symbol = slot.effect
          /\ slot.channel = message.channel /\ slot.controller = message.controller
=============================================================================
