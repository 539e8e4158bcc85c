------------------------------- MODULE MidiMap -------------------------------
(***************************************************************************)
(* The MIDI controller assignments of effects.c: g_midi_cc_list, the slot  *)
(* g_midi_learning that waits for a controller, the commands midi_learn,   *)
(* midi_map and midi_unmap, the removal of effects, and the realtime       *)
(* thread (ProcessGlobalClient) that looks controllers up and learns them. *)
(*                                                                         *)
(* Every loop over the list stops at the first slot marked                 *)
(* ASSIGNMENT_NULL, "item never used before, thus signaling the end of     *)
(* valid items"; a freed slot is marked ASSIGNMENT_UNUSED.                 *)
(*                                                                         *)
(* A controller stands for channel and controller number.  Ranges and the  *)
(* values that reach the ports are left out.                               *)
(***************************************************************************)
EXTENDS Integers

CONSTANTS
  Plugin,        \* plugin instances
  GlobalEffect,  \* GLOBAL_EFFECT_ID, which owns the transport ports
  Symbol,        \* port symbols that commands name
  Unknown,       \* those that no effect has
  Controller,    \* channel and controller number
  None,          \* NULL symbol, channel -1
  Slots          \* MAX_MIDI_CC_ASSIGN

Effect == Plugin \cup {GlobalEffect}
Slot   == 1..Slots

Unused == "ASSIGNMENT_UNUSED"
Null   == "ASSIGNMENT_NULL"

ASSUME MidiMapAssumption ==
  /\ Slots \in Nat \ {0}
  /\ GlobalEffect \notin Plugin
  /\ Unused \notin Effect /\ Null \notin Effect
  /\ None \notin Symbol \cup Controller
  /\ Unknown \subseteq Symbol

\* The results of effects.h that the commands return.
SUCCESS                      == 0
ERR_INSTANCE_NON_EXISTS      == -3
ERR_LV2_INVALID_PARAM_SYMBOL == -103
ERR_ASSIGNMENT_LIST_FULL     == -303

VARIABLES
  inst,      \* effects for which InstanceExist holds
  owner,     \* effect_id of each slot
  symbol,    \* symbol of each slot
  cc,        \* channel and controller of each slot
  learning,  \* the slot of g_midi_learning, 0 for NULL
  learn,     \* the effect and symbol of a midi_learn in progress
  heard,     \* a controller that the realtime thread found in no slot
  result     \* what the last midi command returned

slotVars == <<owner, symbol, cc>>
vars == <<inst, slotVars, learning, learn, heard, result>>

NoLearn == <<None, None>>

TypeOK ==
  /\ inst \subseteq Effect
  /\ owner \in [Slot -> Effect \cup {Unused, Null}]
  /\ symbol \in [Slot -> Symbol \cup {None}]
  /\ cc \in [Slot -> Controller \cup {None}]
  /\ learning \in 0..Slots
  /\ learn \in (Effect \X Symbol) \cup {NoLearn}
  /\ heard \in Controller \cup {None}
  /\ result \in {SUCCESS, ERR_INSTANCE_NON_EXISTS, ERR_LV2_INVALID_PARAM_SYMBOL,
                 ERR_ASSIGNMENT_LIST_FULL}

Init ==
  /\ inst = {GlobalEffect}
  /\ owner = [i \in Slot |-> Null]
  /\ symbol = [i \in Slot |-> None]
  /\ cc = [i \in Slot |-> None]
  /\ learning = 0
  /\ learn = NoLearn
  /\ heard = None
  /\ result = SUCCESS

-----------------------------------------------------------------------------
(* Slots.                                                                  *)

IsFirst(i, S) == i \in S /\ \A j \in S : i <= j

InUse == {i \in Slot : owner[i] \in Effect}
Free  == Slot \ InUse

\* The slots that a loop over the list gets to, if it goes to the end.
Reached == {i \in Slot : \A j \in 1..i : owner[j] # Null}

Mapped(e, s) == {i \in Reached : owner[i] = e /\ symbol[i] = s}

SetSlot(i, e, s, c) ==
  /\ owner' = [owner EXCEPT ![i] = e]
  /\ symbol' = [symbol EXCEPT ![i] = s]
  /\ cc' = [cc EXCEPT ![i] = c]

Return(code) == result' = code /\ UNCHANGED inst

-----------------------------------------------------------------------------
(* The command thread; commands run one at a time.                         *)

Idle == learn = NoLearn

(* effects_add and effects_remove, as far as the list is concerned.        *)
Add(e) ==
  /\ Idle
  /\ inst' = inst \cup {e}
  /\ UNCHANGED <<slotVars, learning, learn, heard, result>>

(* effects_remove_inner_pre of one effect, which is then deleted.  The     *)
(* slot that learns is freed first, with its controller left in it.        *)
RemovePlugin(e) ==
  /\ Idle
  /\ LET Gone == {i \in Reached : owner[i] = e}
     IN  /\ owner' = [i \in Slot |-> IF i \in Gone THEN Unused ELSE owner[i]]
         /\ symbol' = [i \in Slot |-> IF i \in Gone THEN None ELSE symbol[i]]
         /\ cc' = [i \in Slot |-> IF i \in Gone \ {learning} THEN None ELSE cc[i]]
  /\ learning' = IF learning # 0 /\ owner[learning] = e THEN 0 ELSE learning
  /\ inst' = inst \ {e}
  /\ UNCHANGED <<learn, heard, result>>

(* Wrong: every slot that is freed becomes the end of the list.            *)
RemoveAllToNull ==
  /\ Idle
  /\ LET Kept == {i \in Slot : owner[i] = GlobalEffect}
     IN  /\ owner' = [i \in Slot |-> IF i \in Kept THEN owner[i] ELSE Null]
         /\ symbol' = [i \in Slot |-> IF i \in Kept THEN symbol[i] ELSE None]
         /\ cc' = [i \in Slot |-> IF i \in Kept THEN cc[i] ELSE None]
  /\ learning' = 0
  /\ inst' = inst \ Plugin
  /\ UNCHANGED <<learn, heard, result>>

(* For REMOVE_ALL the slots of the global effect stay, and a freed slot    *)
(* ends the list only if none of them comes after it.                      *)
RemoveAll ==
  /\ Idle
  /\ LET Kept == {i \in Slot : owner[i] = GlobalEffect}
         Freed(i) == IF \E j \in Kept : j > i THEN Unused ELSE Null
     IN  /\ owner' = [i \in Slot |-> IF i \in Kept THEN owner[i] ELSE Freed(i)]
         /\ symbol' = [i \in Slot |-> IF i \in Kept THEN symbol[i] ELSE None]
         /\ cc' = [i \in Slot |-> IF i \in Kept THEN cc[i] ELSE None]
  /\ learning' = 0
  /\ inst' = inst \ Plugin
  /\ UNCHANGED <<learn, heard, result>>

(* midi_learn, midi_map and midi_unmap of an effect that does not exist.   *)
NoInstance ==
  /\ Idle
  /\ inst # Effect
  /\ Return(ERR_INSTANCE_NON_EXISTS)
  /\ UNCHANGED <<slotVars, learning, learn, heard>>

(* effects_midi_learn first cancels, under the learning mutex, whatever    *)
(* was being learned; ...                                                  *)
LearnBegin(e, s) ==
  /\ Idle
  /\ e \in inst
  /\ IF learning # 0 THEN SetSlot(learning, Unused, None, cc[learning])
                     ELSE UNCHANGED slotVars
  /\ learning' = 0
  /\ learn' = <<e, s>>
  /\ UNCHANGED <<inst, heard, result>>

(* ... then takes the slot that maps the port already, or a free one, and  *)
(* hands it to the realtime thread.                                        *)
LearnEnd ==
  /\ ~Idle
  /\ LET e == learn[1]
         s == learn[2]
     IN  \/ \E i \in Slot :
              /\ \/ IsFirst(i, Mapped(e, s))
                 \/ Mapped(e, s) = {} /\ IsFirst(i, Free) /\ s \notin Unknown
              /\ SetSlot(i, e, s, None)
              /\ learning' = i
              /\ Return(SUCCESS)
         \/ /\ Mapped(e, s) = {}
            /\ Return(IF Free = {} THEN ERR_ASSIGNMENT_LIST_FULL ELSE ERR_LV2_INVALID_PARAM_SYMBOL)
            /\ Free # {} => s \in Unknown
            /\ UNCHANGED <<slotVars, learning>>
  /\ learn' = NoLearn
  /\ UNCHANGED heard

(* effects_midi_map.  A slot that is being learned keeps being learned.    *)
Map(e, s, c) ==
  /\ Idle
  /\ e \in inst
  /\ \/ \E i \in Slot :
          /\ \/ IsFirst(i, Mapped(e, s))
             \/ Mapped(e, s) = {} /\ IsFirst(i, Free) /\ s \notin Unknown
          /\ SetSlot(i, e, s, c)
          /\ Return(SUCCESS)
     \/ /\ Mapped(e, s) = {}
        /\ Return(IF Free = {} THEN ERR_ASSIGNMENT_LIST_FULL ELSE ERR_LV2_INVALID_PARAM_SYMBOL)
        /\ Free # {} => s \in Unknown
        /\ UNCHANGED slotVars
  /\ UNCHANGED <<learning, learn, heard>>

(* effects_midi_unmap.                                                     *)
Unmap(e, s) ==
  /\ Idle
  /\ e \in inst
  /\ \/ \E i \in Slot :
          /\ IsFirst(i, Mapped(e, s))
          /\ SetSlot(i, Unused, None, None)
          /\ learning' = IF learning = i THEN 0 ELSE learning
          /\ Return(SUCCESS)
     \/ /\ Mapped(e, s) = {}
        /\ Return(ERR_LV2_INVALID_PARAM_SYMBOL)
        /\ UNCHANGED <<slotVars, learning>>
  /\ UNCHANGED <<learn, heard>>

-----------------------------------------------------------------------------
(* The realtime thread, at a controller message.                           *)

(* No slot has the controller; one that has it would make a param_set.     *)
HearUnassigned(c) ==
  /\ heard = None
  /\ \A i \in Reached : owner[i] # Unused => cc[i] # c
  /\ heard' = c
  /\ UNCHANGED <<inst, slotVars, learning, learn, result>>

(* Under the learning mutex, the slot that waits gets it.                  *)
LearnController ==
  /\ heard # None
  /\ IF learning # 0 THEN cc' = [cc EXCEPT ![learning] = heard] ELSE UNCHANGED cc
  /\ learning' = 0
  /\ heard' = None
  /\ UNCHANGED <<inst, owner, symbol, learn, result>>

Command ==
  \/ \E e \in Plugin : Add(e) \/ RemovePlugin(e)
  \/ RemoveAll
  \/ NoInstance
  \/ \E e \in Effect, s \in Symbol :
       LearnBegin(e, s) \/ Unmap(e, s) \/ \E c \in Controller : Map(e, s, c)
  \/ LearnEnd

Next == Command \/ LearnController \/ \E c \in Controller : HearUnassigned(c)

Spec == Init /\ [][Next]_vars

-----------------------------------------------------------------------------
(* Properties.                                                             *)

(* ASSIGNMENT_NULL signals the end: no slot in use, nor a freed one, comes *)
(* after it, so no loop that stops there misses a mapping.                 *)
NullEndsList == \A i, j \in Slot : i < j /\ owner[i] = Null => owner[j] = Null

(* A port has one slot at most, however it was learned, mapped, removed    *)
(* and mapped again: unmapping it once unmaps it.                          *)
OneSlotPerPort ==
  \A i, j \in InUse : owner[i] = owner[j] /\ symbol[i] = symbol[j] => i = j

(* Slots in use name ports of effects that exist, so that the realtime     *)
(* thread finds a symbol and a port behind every controller it looks up.   *)
SlotsNamePorts == \A i \in InUse : owner[i] \in inst /\ symbol[i] \in Symbol \ Unknown

(* The slot that waits for a controller is in use: what the client is told *)
(* was learned is a mapping of an effect that exists.                      *)
LearningSlotInUse == learning # 0 => learning \in InUse

(* The list stays well formed through every sequence of commands and what  *)
(* the realtime thread learns between their steps.                         *)
MappingsSound == NullEndsList /\ OneSlotPerPort /\ SlotsNamePorts /\ LearningSlotInUse

=============================================================================
