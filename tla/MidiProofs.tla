----------------------------- MODULE MidiProofs -----------------------------
(***************************************************************************)
(* The MIDI controllers, proved for every number of slots, ports, channels *)
(* and controllers: the list an effect's ports are assigned in, the lookup *)
(* of a controller that takes no lock (LookupsAreWhole), and the values    *)
(* that controllers and CV sources are converted to (ConversionsSound).    *)
(***************************************************************************)
EXTENDS MidiMap, GlobalMidi, Conversions, TLAPS

-----------------------------------------------------------------------------
(* The list of assignments.                                                *)

SlotType ==
  /\ owner \in [Slot -> Effect \cup {Unused, Null}]
  /\ symbol \in [Slot -> Symbol \cup {None}]
  /\ cc \in [Slot -> Controller \cup {None}]

(* What every assignment to the list keeps; the four depend on each other: *)
(* one slot per port needs a list with no slot in use behind its end.      *)
ListInv == SlotType /\ NullEndsList /\ OneSlotPerPort /\ SlotsNamePorts

MapInv ==
  /\ TypeOK
  /\ ListInv
  /\ LearningSlotInUse
  /\ GlobalEffect \in inst
  /\ learn # NoLearn => learn \in inst \X Symbol

LEMMA SlotOrder == \A i, j \in Slot : i \in Int /\ (i < j \/ i = j \/ j < i)
  BY MidiMapAssumption DEF Slot

(* A list whose end is marked by Null is read in full by every loop.       *)
LEMMA InUseReached ==
  ASSUME ListInv
  PROVE  Reached = {i \in Slot : owner[i] # Null} /\ InUse \subseteq Reached
<1>1. ASSUME NEW i \in Slot, owner[i] # Null PROVE i \in Reached
  <2>1. \A j \in 1..i : j \in Slot /\ (j < i \/ j = i)
        BY MidiMapAssumption DEF Slot
  <2>2. \A j \in 1..i : owner[j] # Null
        BY <1>1, <2>1 DEF ListInv, NullEndsList
  <2>3. QED
        BY <2>2 DEF Reached
<1>2. \A i \in Reached : i \in 1..i
  BY MidiMapAssumption DEF Reached, Slot
<1>3. QED
  BY <1>1, <1>2, MidiMapAssumption DEF Reached, InUse

(* Taking a slot for a port: the one that has it or, if none has, the      *)
(* first that is free.                                                     *)
LEMMA TakeSlot ==
  ASSUME ListInv, UNCHANGED inst,
         NEW i \in Slot, NEW e \in inst \cap Effect, NEW s \in Symbol \ Unknown,
         NEW c \in Controller \cup {None},
         IsFirst(i, Mapped(e, s)) \/ (Mapped(e, s) = {} /\ IsFirst(i, Free)),
         SetSlot(i, e, s, c)
  PROVE  ListInv' /\ InUse' = InUse \cup {i}
<1>1. SlotType'
      BY DEF ListInv, SlotType, SetSlot
<1>2. owner' = [owner EXCEPT ![i] = e] /\ symbol' = [symbol EXCEPT ![i] = s]
      BY DEF SetSlot
<1>3. \A j \in Slot : /\ owner'[j] = IF j = i THEN e ELSE owner[j]
                      /\ symbol'[j] = IF j = i THEN s ELSE symbol[j]
      BY <1>2 DEF ListInv, SlotType
<1>4. InUse' = InUse \cup {i}
      BY <1>3 DEF InUse
<1>5. e # Null /\ \A k \in Slot : k < i => owner[k] # Null
  <2>1. e # Null
        BY MidiMapAssumption
  <2>2. CASE i \in Reached
        BY <2>1, <2>2, MidiMapAssumption DEF Reached, Slot
  <2>3. CASE IsFirst(i, Free)
    <3>1. \A k \in Slot : k < i => k \in InUse
          BY <2>3, SlotOrder DEF IsFirst, Free
    <3>2. QED
          BY <2>1, <3>1, MidiMapAssumption DEF InUse
  <2>4. QED
        BY <2>2, <2>3 DEF IsFirst, Mapped
<1>6. NullEndsList'
  <2>1. SUFFICES ASSUME NEW k \in Slot, NEW j \in Slot, k < j, owner'[k] = Null
                 PROVE  owner'[j] = Null
        BY DEF NullEndsList
  <2>2. k # i /\ owner[k] = Null
        BY <1>3, <1>5, <2>1
  <2>3. ~(j = i)
        BY <1>5, <2>1, <2>2
  <2>4. QED
        BY <1>3, <2>1, <2>2, <2>3 DEF ListInv, NullEndsList
<1>7. OneSlotPerPort'
  <2>1. \A j \in InUse : owner[j] = e /\ symbol[j] = s => j \in Mapped(e, s)
        BY InUseReached DEF Mapped
  <2>2. \A j \in InUse : owner[j] = e /\ symbol[j] = s => j = i
    <3>1. CASE Mapped(e, s) = {}
          BY <2>1, <3>1
    <3>2. CASE i \in Mapped(e, s)
          BY <3>2 DEF Mapped, ListInv, OneSlotPerPort, InUse
    <3>3. QED
          BY <3>1, <3>2 DEF IsFirst
  <2>3. QED
        BY <1>3, <1>4, <2>2 DEF OneSlotPerPort, ListInv, InUse
<1>8. SlotsNamePorts'
      BY <1>3, <1>4 DEF SlotsNamePorts, ListInv, InUse
<1>9. QED
      BY <1>1, <1>4, <1>6, <1>7, <1>8 DEF ListInv

(* Freeing slots that are in use.                                          *)
LEMMA FreeSlots ==
  ASSUME ListInv, SlotType', NEW S,
         S \cap InUse \subseteq S, \A i \in S : i \in Slot /\ owner[i] # Null,
         \A i \in Slot : i \in S => owner'[i] = Unused,
         \A i \in Slot : i \notin S => owner'[i] = owner[i] /\ symbol'[i] = symbol[i],
         \A i \in InUse \ S : owner[i] \in inst'
  PROVE  ListInv' /\ InUse' = InUse \ S
<1>1. Unused # Null /\ Unused \notin Effect
      BY MidiMapAssumption DEF Unused, Null
<1>2. InUse' = InUse \ S
      BY <1>1 DEF InUse
<1>3. NullEndsList'
      BY <1>1 DEF NullEndsList, ListInv
<1>4. OneSlotPerPort'
      BY <1>2 DEF OneSlotPerPort, ListInv, InUse
<1>5. SlotsNamePorts'
      BY <1>2 DEF SlotsNamePorts, ListInv, InUse
<1>6. QED
      BY <1>2, <1>3, <1>4, <1>5 DEF ListInv

LEMMA InitMapInv == Init => MapInv
<1>1. Init => TypeOK
      BY MidiMapAssumption DEF Init, TypeOK, NoLearn, Effect
<1>2. Init => ListInv
      BY MidiMapAssumption DEF Init, ListInv, SlotType, NullEndsList, OneSlotPerPort,
         SlotsNamePorts, InUse
<1>3. QED
      BY <1>1, <1>2 DEF Init, MapInv, LearningSlotInUse

LEMMA NextMapInv == MapInv /\ [Next]_vars => MapInv'
<1> SUFFICES ASSUME MapInv, [Next]_vars PROVE MapInv'
    OBVIOUS
<1>0. /\ TypeOK /\ ListInv /\ LearningSlotInUse /\ GlobalEffect \in inst
      /\ learn # NoLearn => learn \in inst \X Symbol
      /\ SlotType /\ NullEndsList /\ OneSlotPerPort /\ SlotsNamePorts
      BY DEF MapInv, ListInv
<1>1. ASSUME NEW e \in Plugin, Add(e) PROVE MapInv'
  <2>1. UNCHANGED slotVars /\ inst \subseteq inst' /\ inst' \subseteq Effect
        BY <1>0, <1>1 DEF Add, TypeOK, Effect
  <2>2. ListInv' /\ InUse' = InUse
        BY <1>0, <2>1 DEF ListInv, SlotType, NullEndsList, OneSlotPerPort, SlotsNamePorts,
                          InUse, slotVars
  <2>3. QED
        BY <1>0, <1>1, <2>1, <2>2 DEF Add, MapInv, TypeOK, LearningSlotInUse, slotVars
<1>2. ASSUME NEW e \in Plugin, RemovePlugin(e) PROVE MapInv'
  <2> DEFINE Gone == {i \in Reached : owner[i] = e}
  <2>1. /\ owner' = [i \in Slot |-> IF i \in Gone THEN Unused ELSE owner[i]]
        /\ symbol' = [i \in Slot |-> IF i \in Gone THEN None ELSE symbol[i]]
        /\ cc' = [i \in Slot |-> IF i \in Gone \ {learning} THEN None ELSE cc[i]]
        /\ learning' = IF learning # 0 /\ owner[learning] = e THEN 0 ELSE learning
        /\ inst' = inst \ {e} /\ UNCHANGED <<learn, heard, result>> /\ Idle
        BY <1>2 DEF RemovePlugin
  <2>2. SlotType'
        BY <1>0, <2>1 DEF SlotType
  <2>3. \A i \in Gone : i \in Slot /\ owner[i] # Null
        BY <1>0, InUseReached
  <2>4. \A i \in InUse \ Gone : owner[i] \in inst'
        BY <1>0, <2>1, InUseReached DEF SlotsNamePorts
  <2>5. ListInv' /\ InUse' = InUse \ Gone
    <3> HIDE DEF Gone
    <3>1. QED
          BY <1>0, <2>1, <2>2, <2>3, <2>4, FreeSlots
  <2>6. LearningSlotInUse'
        BY <1>0, <2>1, <2>5 DEF LearningSlotInUse
  <2>7. e # GlobalEffect
        BY MidiMapAssumption
  <2>8. TypeOK'
        BY <1>0, <2>1, <2>2, MidiMapAssumption DEF TypeOK, SlotType
  <2>9. QED
        BY <1>0, <2>1, <2>5, <2>6, <2>7, <2>8 DEF MapInv, Idle
<1>3. CASE RemoveAll
  <2> DEFINE Kept == {i \in Slot : owner[i] = GlobalEffect}
             Freed(i) == IF \E j \in Kept : j > i THEN Unused ELSE Null
  <2>1. /\ owner' = [i \in Slot |-> IF i \in Kept THEN owner[i] ELSE Freed(i)]
        /\ symbol' = [i \in Slot |-> IF i \in Kept THEN symbol[i] ELSE None]
        /\ cc' = [i \in Slot |-> IF i \in Kept THEN cc[i] ELSE None]
        /\ learning' = 0
        /\ inst' = inst \ Plugin /\ UNCHANGED <<learn, heard, result>> /\ Idle
        BY <1>3 DEF RemoveAll
  <2>2. SlotType'
        BY <1>0, <2>1 DEF SlotType
  <2>3. Unused \notin Effect /\ Null \notin Effect /\ Unused # Null /\ GlobalEffect \in Effect
        BY MidiMapAssumption DEF Effect, Unused, Null
  <2>4. InUse' = Kept
        BY <2>1, <2>3 DEF InUse
  <2>5. NullEndsList'
    <3>1. SUFFICES ASSUME NEW i \in Slot, NEW j \in Slot, i < j, owner'[i] = Null
                   PROVE  owner'[j] = Null
          BY DEF NullEndsList
    <3>2. i \notin Kept /\ \A k \in Kept : ~(k > i)
          BY <2>1, <2>3, <3>1
    <3>3. j \notin Kept /\ \A k \in Kept : ~(k > j)
          BY <3>1, <3>2, SlotOrder
    <3>4. QED
          BY <2>1, <3>3
  <2>6. OneSlotPerPort'
        BY <1>0, <2>1, <2>3, <2>4 DEF OneSlotPerPort, InUse
  <2>7. SlotsNamePorts'
        BY <1>0, <2>1, <2>3, <2>4, MidiMapAssumption DEF SlotsNamePorts, InUse
  <2>8. TypeOK'
        BY <1>0, <2>1, <2>2, MidiMapAssumption DEF TypeOK, SlotType
  <2>9. QED
        BY <1>0, <2>1, <2>2, <2>5, <2>6, <2>7, <2>8, MidiMapAssumption
        DEF MapInv, ListInv, LearningSlotInUse, Idle
<1>4. CASE NoInstance
      BY <1>0, <1>4 DEF NoInstance, Return, MapInv, TypeOK, ListInv, SlotType, NullEndsList,
                   OneSlotPerPort, SlotsNamePorts, LearningSlotInUse, InUse, slotVars
<1>5. ASSUME NEW e \in Effect, NEW s \in Symbol, LearnBegin(e, s) PROVE MapInv'
  <2>1. /\ learning' = 0 /\ learn' = <<e, s>> /\ e \in inst
        /\ UNCHANGED <<inst, heard, result>>
        BY <1>5 DEF LearnBegin
  <2>2. CASE learning # 0
    <3>1. SetSlot(learning, Unused, None, cc[learning]) /\ learning \in InUse
          BY <1>0, <1>5, <2>2 DEF LearnBegin, LearningSlotInUse
    <3>2. SlotType'
          BY <1>0, <3>1 DEF SlotType, SetSlot, InUse
    <3>3. \A i \in Slot : /\ i \in {learning} => owner'[i] = Unused
                          /\ i \notin {learning} => owner'[i] = owner[i] /\ symbol'[i] = symbol[i]
          BY <1>0, <3>1 DEF SlotType, SetSlot
    <3>4. \A i \in {learning} : i \in Slot /\ owner[i] # Null
          BY <3>1, MidiMapAssumption DEF InUse
    <3>5. \A i \in InUse \ {learning} : owner[i] \in inst'
          BY <1>0, <2>1 DEF SlotsNamePorts
    <3>6. ListInv'
          BY <1>0, <3>2, <3>3, <3>4, <3>5, FreeSlots
    <3>7. QED
          BY <1>0, <2>1, <3>2, <3>6, MidiMapAssumption DEF MapInv, TypeOK, SlotType, LearningSlotInUse
  <2>3. CASE UNCHANGED slotVars
    <3>1. ListInv' /\ SlotType'
          BY <1>0, <2>1, <2>3 DEF ListInv, SlotType, NullEndsList, OneSlotPerPort,
                                  SlotsNamePorts, InUse, slotVars
    <3>2. QED
          BY <1>0, <2>1, <3>1, MidiMapAssumption DEF MapInv, TypeOK, SlotType, LearningSlotInUse
  <2>4. QED
        BY <1>5, <2>2, <2>3 DEF LearnBegin
<1>6. CASE LearnEnd
  <2> DEFINE e == learn[1]
             s == learn[2]
  <2>1. e \in inst /\ s \in Symbol /\ learn' = NoLearn /\ UNCHANGED <<inst, heard>>
        /\ result' \in {SUCCESS, ERR_LV2_INVALID_PARAM_SYMBOL, ERR_ASSIGNMENT_LIST_FULL}
        BY <1>0, <1>6 DEF LearnEnd, Idle, Return
  <2>2. ASSUME NEW i \in Slot,
               \/ IsFirst(i, Mapped(e, s))
               \/ Mapped(e, s) = {} /\ IsFirst(i, Free) /\ s \notin Unknown,
               SetSlot(i, e, s, None), learning' = i
        PROVE  MapInv'
    <3> HIDE DEF e, s
    <3>1. s \notin Unknown
          BY <1>0, <2>1, <2>2 DEF IsFirst, Mapped, SlotsNamePorts, InUse, TypeOK
    <3>2. ListInv' /\ InUse' = InUse \cup {i}
          BY <1>0, <2>1, <2>2, <3>1, TakeSlot DEF TypeOK
    <3>3. QED
          BY <1>0, <2>1, <2>2, <3>2 DEF MapInv, TypeOK, ListInv, SlotType, LearningSlotInUse, Slot
  <2>3. CASE UNCHANGED <<slotVars, learning>>
    <3> HIDE DEF e, s
    <3>1. ListInv' /\ InUse' = InUse
          BY <1>0, <2>1, <2>3 DEF ListInv, SlotType, NullEndsList, OneSlotPerPort,
                                  SlotsNamePorts, InUse, slotVars
    <3>2. QED
          BY <1>0, <2>1, <2>3, <3>1 DEF MapInv, TypeOK, ListInv, SlotType, LearningSlotInUse
  <2>4. QED
        BY <1>6, <2>2, <2>3 DEF LearnEnd
<1>7. ASSUME NEW e \in Effect, NEW s \in Symbol, NEW c \in Controller, Map(e, s, c)
      PROVE  MapInv'
  <2>1. e \in inst /\ UNCHANGED <<inst, learning, learn, heard>>
        /\ result' \in {SUCCESS, ERR_LV2_INVALID_PARAM_SYMBOL, ERR_ASSIGNMENT_LIST_FULL}
        BY <1>7 DEF Map, Return
  <2>2. ASSUME NEW i \in Slot,
               \/ IsFirst(i, Mapped(e, s))
               \/ Mapped(e, s) = {} /\ IsFirst(i, Free) /\ s \notin Unknown,
               SetSlot(i, e, s, c)
        PROVE  MapInv'
    <3>1. s \notin Unknown
          BY <1>0, <2>1, <2>2 DEF IsFirst, Mapped, SlotsNamePorts, InUse, TypeOK
    <3>2. ListInv' /\ InUse' = InUse \cup {i}
          BY <1>0, <2>1, <2>2, <3>1, TakeSlot
    <3>3. QED
          BY <1>0, <2>1, <3>2 DEF MapInv, TypeOK, ListInv, SlotType, LearningSlotInUse
  <2>3. CASE UNCHANGED slotVars
    <3>1. ListInv' /\ InUse' = InUse
          BY <1>0, <2>1, <2>3 DEF ListInv, SlotType, NullEndsList, OneSlotPerPort,
                                  SlotsNamePorts, InUse, slotVars
    <3>2. QED
          BY <1>0, <2>1, <3>1 DEF MapInv, TypeOK, ListInv, SlotType, LearningSlotInUse
  <2>4. QED
        BY <1>7, <2>2, <2>3 DEF Map
<1>8. ASSUME NEW e \in Effect, NEW s \in Symbol, Unmap(e, s) PROVE MapInv'
  <2>1. UNCHANGED <<inst, learn, heard>> /\ result' \in {SUCCESS, ERR_LV2_INVALID_PARAM_SYMBOL}
        BY <1>8 DEF Unmap, Return
  <2>2. ASSUME NEW i \in Slot, IsFirst(i, Mapped(e, s)), SetSlot(i, Unused, None, None),
               learning' = IF learning = i THEN 0 ELSE learning
        PROVE  MapInv'
    <3>1. SlotType'
          BY <1>0, <2>2 DEF SlotType, SetSlot
    <3>2. \A j \in Slot : /\ j \in {i} => owner'[j] = Unused
                          /\ j \notin {i} => owner'[j] = owner[j] /\ symbol'[j] = symbol[j]
          BY <1>0, <2>2 DEF SlotType, SetSlot
    <3>3. \A j \in {i} : j \in Slot /\ owner[j] # Null
          BY <2>2, MidiMapAssumption DEF IsFirst, Mapped
    <3>4. \A j \in InUse \ {i} : owner[j] \in inst'
          BY <1>0, <2>1 DEF SlotsNamePorts
    <3>5. ListInv' /\ InUse' = InUse \ {i}
          BY <1>0, <3>1, <3>2, <3>3, <3>4, FreeSlots
    <3>6. QED
          BY <1>0, <2>1, <2>2, <3>1, <3>5, MidiMapAssumption DEF MapInv, TypeOK, SlotType, LearningSlotInUse
  <2>3. CASE UNCHANGED <<slotVars, learning>>
    <3>1. ListInv' /\ InUse' = InUse
          BY <1>0, <2>1, <2>3 DEF ListInv, SlotType, NullEndsList, OneSlotPerPort,
                                  SlotsNamePorts, InUse, slotVars
    <3>2. QED
          BY <1>0, <2>1, <2>3, <3>1 DEF MapInv, TypeOK, ListInv, SlotType, LearningSlotInUse
  <2>4. QED
        BY <1>8, <2>2, <2>3 DEF Unmap
<1>9. CASE LearnController
  <2>1. /\ UNCHANGED <<inst, owner, symbol, learn, result>>
        /\ learning' = 0 /\ heard' = None
        BY <1>9 DEF LearnController
  <2>2. cc' \in [Slot -> Controller \cup {None}]
        BY <1>0, <1>9 DEF LearnController, TypeOK
  <2>3. QED
        BY <1>0, <2>1, <2>2, MidiMapAssumption DEF MapInv, TypeOK, ListInv, SlotType, NullEndsList,
                   OneSlotPerPort, SlotsNamePorts, LearningSlotInUse, InUse
<1>10. ASSUME NEW c \in Controller, HearUnassigned(c) PROVE MapInv'
      BY <1>0, <1>10 DEF HearUnassigned, MapInv, TypeOK, ListInv, SlotType, NullEndsList,
                   OneSlotPerPort, SlotsNamePorts, LearningSlotInUse, InUse, slotVars
<1>11. CASE UNCHANGED vars
      BY <1>0, <1>11 DEF vars, MapInv, TypeOK, ListInv, SlotType, NullEndsList,
                   OneSlotPerPort, SlotsNamePorts, LearningSlotInUse, InUse, slotVars
<1>12. QED
      BY <1>1, <1>2, <1>3, <1>4, <1>5, <1>6, <1>7, <1>8, <1>9, <1>10, <1>11
      DEF Next, Command

(* The list is always well formed: its end is marked, a port has one slot, *)
(* slots name ports of effects that exist, and the slot that learns is one *)
(* of them, whatever the commands and the realtime thread do in turn.      *)
THEOREM MidiListCorrect == Spec => []MappingsSound
<1>1. MapInv => MappingsSound
      BY DEF MapInv, ListInv, MappingsSound
<1>2. QED
      BY InitMapInv, NextMapInv, <1>1, PTL DEF Spec

(* Type correctness of the controller list.                                *)
THEOREM MidiTypeCorrect == Spec => []TypeOK
<1>1. MapInv => TypeOK
      BY DEF MapInv
<1>2. QED
      BY InitMapInv, NextMapInv, <1>1, PTL DEF Spec

-----------------------------------------------------------------------------
(* The lookup without a lock.                                              *)

GlobalMidiSpec == GlobalMidiInit /\ [][GlobalMidiNext]_globalMidiVars

MaybePort == CcPort \union {NoCcPort}
SlotRecord == [effect : MaybePort, symbol : MaybePort, channel : Int, controller : Nat]

Lookup == [at : {"look", "apply", "report", "crashed"}, channel : Nat, controller : Nat,
           slot : CcSlot, spoiled : BOOLEAN]

MidiTypeInv ==
  /\ slots \in [CcSlot -> SlotRecord]
  /\ \/ message.at \in {"none", "done"}
     \/ message \in [at : {"search"}, channel : Nat, controller : Nat, slot : Nat]
     \/ message \in Lookup

(* What a command has still to store, and where it has got to: the symbol  *)
(* is stored while the slot is not in use, and the effect when the symbol  *)
(* is there.                                                               *)
FillLeft(s, p, ch, num, left) ==
  /\ slots[s].effect = NoCcPort
  /\ \/ left = 4 /\ stores = << <<s, "symbol", p>>, <<s, "channel", ch>>,
                               <<s, "controller", num>>, <<s, "effect", p>> >>
     \/ /\ slots[s].symbol = p
        /\ \/ left = 3 /\ stores = << <<s, "channel", ch>>, <<s, "controller", num>>,
                                      <<s, "effect", p>> >>
           \/ left = 2 /\ stores = << <<s, "controller", num>>, <<s, "effect", p>> >>
           \/ left = 1 /\ stores = << <<s, "effect", p>> >>

MoveLeft(s, ch, num, left) ==
  \/ left = 2 /\ stores = << <<s, "channel", ch>>, <<s, "controller", num>> >>
  \/ left = 1 /\ stores = << <<s, "controller", num>> >>

ClearLeft(s, left) ==
  \/ left = 4 /\ stores = << <<s, "channel", -1>>, <<s, "controller", 0>>,
                             <<s, "effect", NoCcPort>>, <<s, "symbol", NoCcPort>> >>
  \/ left = 3 /\ stores = << <<s, "controller", 0>>, <<s, "effect", NoCcPort>>,
                             <<s, "symbol", NoCcPort>> >>
  \/ left = 2 /\ stores = << <<s, "effect", NoCcPort>>, <<s, "symbol", NoCcPort>> >>
  \/ left = 1 /\ stores = << <<s, "symbol", NoCcPort>> >> /\ slots[s].effect = NoCcPort

StoresInv ==
  \/ stores = <<>>
  \/ \E s \in CcSlot, p \in CcPort, ch \in Nat, num \in Nat, left \in {1, 2, 3, 4} :
       FillLeft(s, p, ch, num, left) \/ MoveLeft(s, ch, num, left) \/ ClearLeft(s, left)

(* So a slot in use has the symbol of its port.                            *)
InUseInv == \A s \in CcSlot : slots[s].effect # NoCcPort => slots[s].symbol = slots[s].effect

(* A lookup that no store has spoiled still sees what it has seen.         *)
LookupInv ==
  /\ message.at \in {"look", "apply", "report"} /\ ~message.spoiled =>
       /\ slots[message.slot].effect # NoCcPort
       /\ slots[message.slot].channel = message.channel
       /\ message.at # "look" => slots[message.slot].controller = message.controller
  /\ message.at = "crashed" => message.spoiled

MidiInv == MidiTypeInv /\ StoresInv /\ InUseInv /\ LookupInv

-----------------------------------------------------------------------------
(* What a list of stores is, and what is left after the first.             *)

LEMMA Stores2 ==
  ASSUME NEW s, NEW f1, NEW v1, NEW f2, NEW v2
  PROVE  Stores(s, <<<<f1, v1>>, <<f2, v2>>>>) = << <<s, f1, v1>>, <<s, f2, v2>> >>
  BY DEF Stores

LEMMA Stores4 ==
  ASSUME NEW s, NEW f1, NEW v1, NEW f2, NEW v2, NEW f3, NEW v3, NEW f4, NEW v4
  PROVE  Stores(s, <<<<f1, v1>>, <<f2, v2>>, <<f3, v3>>, <<f4, v4>>>>)
           = << <<s, f1, v1>>, <<s, f2, v2>>, <<s, f3, v3>>, <<s, f4, v4>> >>
  BY DEF Stores

LEMMA Tail1 == ASSUME NEW a PROVE <<a>> # <<>> /\ <<a>>[1] = a /\ Tail(<<a>>) = <<>>
  OBVIOUS

LEMMA Tail2 ==
  ASSUME NEW a, NEW b PROVE <<a, b>> # <<>> /\ <<a, b>>[1] = a /\ Tail(<<a, b>>) = <<b>>
  OBVIOUS

LEMMA Tail3 ==
  ASSUME NEW a, NEW b, NEW c
  PROVE  <<a, b, c>> # <<>> /\ <<a, b, c>>[1] = a /\ Tail(<<a, b, c>>) = <<b, c>>
  OBVIOUS

LEMMA Tail4 ==
  ASSUME NEW a, NEW b, NEW c, NEW d
  PROVE  /\ <<a, b, c, d>> # <<>> /\ <<a, b, c, d>>[1] = a
         /\ Tail(<<a, b, c, d>>) = <<b, c, d>>
  OBVIOUS

-----------------------------------------------------------------------------
(* A store changes one field of one slot.                                  *)

LEMMA SetEffect ==
  ASSUME slots \in [CcSlot -> SlotRecord], NEW s \in CcSlot, NEW v \in MaybePort,
         slots' = [slots EXCEPT ![s]["effect"] = v]
  PROVE  /\ slots' \in [CcSlot -> SlotRecord]
         /\ \A t \in CcSlot : t # s => slots'[t] = slots[t]
         /\ slots'[s].effect = v /\ slots'[s].symbol = slots[s].symbol
         /\ slots'[s].channel = slots[s].channel /\ slots'[s].controller = slots[s].controller
<1> DEFINE r == slots[s]
           q == [r EXCEPT !["effect"] = v]
<1>1. r \in [effect : MaybePort, symbol : MaybePort, channel : Int, controller : Nat]
  BY DEF SlotRecord
<1>2. slots' = [slots EXCEPT ![s] = q]
  OBVIOUS
<1> HIDE DEF r
<1>3. q \in [effect : MaybePort, symbol : MaybePort, channel : Int, controller : Nat]
  BY <1>1
<1>4. /\ q.effect = v /\ q.symbol = r.symbol /\ q.channel = r.channel
      /\ q.controller = r.controller
  BY <1>1
<1> HIDE DEF q
<1>5. q \in SlotRecord
  BY <1>3 DEF SlotRecord
<1>6. slots'[s] = q /\ (\A t \in CcSlot : t # s => slots'[t] = slots[t])
  BY <1>2
<1>7. slots' \in [CcSlot -> SlotRecord]
  BY <1>2, <1>5
<1> QED
  BY <1>4, <1>6, <1>7 DEF r

LEMMA SetSymbol ==
  ASSUME slots \in [CcSlot -> SlotRecord], NEW s \in CcSlot, NEW v \in MaybePort,
         slots' = [slots EXCEPT ![s]["symbol"] = v]
  PROVE  /\ slots' \in [CcSlot -> SlotRecord]
         /\ \A t \in CcSlot : t # s => slots'[t] = slots[t]
         /\ slots'[s].symbol = v /\ slots'[s].effect = slots[s].effect
         /\ slots'[s].channel = slots[s].channel /\ slots'[s].controller = slots[s].controller
<1> DEFINE r == slots[s]
           q == [r EXCEPT !["symbol"] = v]
<1>1. r \in [effect : MaybePort, symbol : MaybePort, channel : Int, controller : Nat]
  BY DEF SlotRecord
<1>2. slots' = [slots EXCEPT ![s] = q]
  OBVIOUS
<1> HIDE DEF r
<1>3. q \in [effect : MaybePort, symbol : MaybePort, channel : Int, controller : Nat]
  BY <1>1
<1>4. /\ q.symbol = v /\ q.effect = r.effect /\ q.channel = r.channel
      /\ q.controller = r.controller
  BY <1>1
<1> HIDE DEF q
<1>5. q \in SlotRecord
  BY <1>3 DEF SlotRecord
<1>6. slots'[s] = q /\ (\A t \in CcSlot : t # s => slots'[t] = slots[t])
  BY <1>2
<1>7. slots' \in [CcSlot -> SlotRecord]
  BY <1>2, <1>5
<1> QED
  BY <1>4, <1>6, <1>7 DEF r

LEMMA SetChannel ==
  ASSUME slots \in [CcSlot -> SlotRecord], NEW s \in CcSlot, NEW v \in Int,
         slots' = [slots EXCEPT ![s]["channel"] = v]
  PROVE  /\ slots' \in [CcSlot -> SlotRecord]
         /\ \A t \in CcSlot : t # s => slots'[t] = slots[t]
         /\ slots'[s].channel = v /\ slots'[s].effect = slots[s].effect
         /\ slots'[s].symbol = slots[s].symbol /\ slots'[s].controller = slots[s].controller
<1> DEFINE r == slots[s]
           q == [r EXCEPT !["channel"] = v]
<1>1. r \in [effect : MaybePort, symbol : MaybePort, channel : Int, controller : Nat]
  BY DEF SlotRecord
<1>2. slots' = [slots EXCEPT ![s] = q]
  OBVIOUS
<1> HIDE DEF r
<1>3. q \in [effect : MaybePort, symbol : MaybePort, channel : Int, controller : Nat]
  BY <1>1
<1>4. /\ q.channel = v /\ q.effect = r.effect /\ q.symbol = r.symbol
      /\ q.controller = r.controller
  BY <1>1
<1> HIDE DEF q
<1>5. q \in SlotRecord
  BY <1>3 DEF SlotRecord
<1>6. slots'[s] = q /\ (\A t \in CcSlot : t # s => slots'[t] = slots[t])
  BY <1>2
<1>7. slots' \in [CcSlot -> SlotRecord]
  BY <1>2, <1>5
<1> QED
  BY <1>4, <1>6, <1>7 DEF r

LEMMA SetController ==
  ASSUME slots \in [CcSlot -> SlotRecord], NEW s \in CcSlot, NEW v \in Nat,
         slots' = [slots EXCEPT ![s]["controller"] = v]
  PROVE  /\ slots' \in [CcSlot -> SlotRecord]
         /\ \A t \in CcSlot : t # s => slots'[t] = slots[t]
         /\ slots'[s].controller = v /\ slots'[s].effect = slots[s].effect
         /\ slots'[s].symbol = slots[s].symbol /\ slots'[s].channel = slots[s].channel
<1> DEFINE r == slots[s]
           q == [r EXCEPT !["controller"] = v]
<1>1. r \in [effect : MaybePort, symbol : MaybePort, channel : Int, controller : Nat]
  BY DEF SlotRecord
<1>2. slots' = [slots EXCEPT ![s] = q]
  OBVIOUS
<1> HIDE DEF r
<1>3. q \in [effect : MaybePort, symbol : MaybePort, channel : Int, controller : Nat]
  BY <1>1
<1>4. /\ q.controller = v /\ q.effect = r.effect /\ q.symbol = r.symbol
      /\ q.channel = r.channel
  BY <1>1
<1> HIDE DEF q
<1>5. q \in SlotRecord
  BY <1>3 DEF SlotRecord
<1>6. slots'[s] = q /\ (\A t \in CcSlot : t # s => slots'[t] = slots[t])
  BY <1>2
<1>7. slots' \in [CcSlot -> SlotRecord]
  BY <1>2, <1>5
<1> QED
  BY <1>4, <1>6, <1>7 DEF r

-----------------------------------------------------------------------------
(* What one store does: it changes its slot alone, which still has the     *)
(* symbol of its port if it is in use; what is left is again one of the    *)
(* lists of StoresInv.                                                     *)

StoreDone(s) ==
  /\ stores[1][1] = s
  /\ slots' \in [CcSlot -> SlotRecord]
  /\ \A t \in CcSlot : t # s => slots'[t] = slots[t]
  /\ slots'[s].effect # NoCcPort => slots'[s].symbol = slots'[s].effect
  /\ StoresInv'

LEMMA Fill4 ==
  ASSUME MidiInv, Store, NEW s \in CcSlot, NEW p \in CcPort, NEW ch \in Nat, NEW num \in Nat,
         stores = << <<s, "symbol", p>>, <<s, "channel", ch>>,
                     <<s, "controller", num>>, <<s, "effect", p>> >>,
         slots[s].effect = NoCcPort
  PROVE  StoreDone(s)
<1>1. /\ stores[1] = <<s, "symbol", p>>
      /\ Tail(stores) = << <<s, "channel", ch>>, <<s, "controller", num>>,
                            <<s, "effect", p>> >>
  BY Tail4
<1>2. stores' = Tail(stores) /\ slots' = [slots EXCEPT ![s]["symbol"] = p]
  BY <1>1 DEF Store
<1>3. p \in MaybePort
  BY DEF MaybePort
<1>4. slots \in [CcSlot -> SlotRecord]
  BY DEF MidiInv, MidiTypeInv
<1>5. /\ slots' \in [CcSlot -> SlotRecord]
      /\ \A t \in CcSlot : t # s => slots'[t] = slots[t]
      /\ slots'[s].symbol = p
      /\ slots'[s].effect = slots[s].effect /\ slots'[s].channel = slots[s].channel
  BY <1>2, <1>3, <1>4, SetSymbol
<1>6. slots'[s].effect # NoCcPort => slots'[s].symbol = slots'[s].effect
  BY <1>5 DEF MidiInv, InUseInv
<1>7. FillLeft(s, p, ch, num, 3)'
  BY <1>1, <1>2, <1>5 DEF FillLeft
<1>8. StoresInv'
  BY <1>7 DEF StoresInv
<1> QED
  BY <1>1, <1>5, <1>6, <1>8 DEF StoreDone

LEMMA Fill3 ==
  ASSUME MidiInv, Store, NEW s \in CcSlot, NEW p \in CcPort, NEW ch \in Nat, NEW num \in Nat,
         stores = << <<s, "channel", ch>>, <<s, "controller", num>>,
                     <<s, "effect", p>> >>,
         slots[s].effect = NoCcPort, slots[s].symbol = p
  PROVE  StoreDone(s)
<1>1. /\ stores[1] = <<s, "channel", ch>>
      /\ Tail(stores) = << <<s, "controller", num>>, <<s, "effect", p>> >>
  BY Tail3
<1>2. stores' = Tail(stores) /\ slots' = [slots EXCEPT ![s]["channel"] = ch]
  BY <1>1 DEF Store
<1>3. ch \in Int
  BY DEF MaybePort
<1>4. slots \in [CcSlot -> SlotRecord]
  BY DEF MidiInv, MidiTypeInv
<1>5. /\ slots' \in [CcSlot -> SlotRecord]
      /\ \A t \in CcSlot : t # s => slots'[t] = slots[t]
      /\ slots'[s].channel = ch
      /\ slots'[s].effect = slots[s].effect /\ slots'[s].symbol = slots[s].symbol
  BY <1>2, <1>3, <1>4, SetChannel
<1>6. slots'[s].effect # NoCcPort => slots'[s].symbol = slots'[s].effect
  BY <1>5 DEF MidiInv, InUseInv
<1>7. FillLeft(s, p, ch, num, 2)'
  BY <1>1, <1>2, <1>5 DEF FillLeft
<1>8. StoresInv'
  BY <1>7 DEF StoresInv
<1> QED
  BY <1>1, <1>5, <1>6, <1>8 DEF StoreDone

LEMMA Fill2 ==
  ASSUME MidiInv, Store, NEW s \in CcSlot, NEW p \in CcPort, NEW ch \in Nat, NEW num \in Nat,
         stores = << <<s, "controller", num>>, <<s, "effect", p>> >>,
         slots[s].effect = NoCcPort, slots[s].symbol = p
  PROVE  StoreDone(s)
<1>1. stores[1] = <<s, "controller", num>> /\ Tail(stores) = << <<s, "effect", p>> >>
  BY Tail2
<1>2. stores' = Tail(stores) /\ slots' = [slots EXCEPT ![s]["controller"] = num]
  BY <1>1 DEF Store
<1>3. num \in Nat
  BY DEF MaybePort
<1>4. slots \in [CcSlot -> SlotRecord]
  BY DEF MidiInv, MidiTypeInv
<1>5. /\ slots' \in [CcSlot -> SlotRecord]
      /\ \A t \in CcSlot : t # s => slots'[t] = slots[t]
      /\ slots'[s].controller = num
      /\ slots'[s].effect = slots[s].effect /\ slots'[s].symbol = slots[s].symbol
  BY <1>2, <1>3, <1>4, SetController
<1>6. slots'[s].effect # NoCcPort => slots'[s].symbol = slots'[s].effect
  BY <1>5 DEF MidiInv, InUseInv
<1>7. FillLeft(s, p, ch, num, 1)'
  BY <1>1, <1>2, <1>5 DEF FillLeft
<1>8. StoresInv'
  BY <1>7 DEF StoresInv
<1> QED
  BY <1>1, <1>5, <1>6, <1>8 DEF StoreDone

LEMMA Fill1 ==
  ASSUME MidiInv, Store, NEW s \in CcSlot, NEW p \in CcPort, NEW ch \in Nat, NEW num \in Nat,
         stores = << <<s, "effect", p>> >>,
         slots[s].effect = NoCcPort, slots[s].symbol = p
  PROVE  StoreDone(s)
<1>1. stores[1] = <<s, "effect", p>> /\ Tail(stores) = <<>>
  BY Tail1
<1>2. stores' = Tail(stores) /\ slots' = [slots EXCEPT ![s]["effect"] = p]
  BY <1>1 DEF Store
<1>3. p \in MaybePort
  BY DEF MaybePort
<1>4. slots \in [CcSlot -> SlotRecord]
  BY DEF MidiInv, MidiTypeInv
<1>5. /\ slots' \in [CcSlot -> SlotRecord]
      /\ \A t \in CcSlot : t # s => slots'[t] = slots[t]
      /\ slots'[s].effect = p
      /\ slots'[s].symbol = slots[s].symbol /\ slots'[s].channel = slots[s].channel
  BY <1>2, <1>3, <1>4, SetEffect
<1>6. slots'[s].effect # NoCcPort => slots'[s].symbol = slots'[s].effect
  BY <1>5 DEF MidiInv, InUseInv
<1>7. StoresInv'
  BY <1>1, <1>2 DEF StoresInv
<1> QED
  BY <1>1, <1>5, <1>6, <1>7 DEF StoreDone

LEMMA Move2 ==
  ASSUME MidiInv, Store, NEW s \in CcSlot, NEW p \in CcPort, NEW ch \in Nat, NEW num \in Nat,
         stores = << <<s, "channel", ch>>, <<s, "controller", num>> >>
  PROVE  StoreDone(s)
<1>1. stores[1] = <<s, "channel", ch>> /\ Tail(stores) = << <<s, "controller", num>> >>
  BY Tail2
<1>2. stores' = Tail(stores) /\ slots' = [slots EXCEPT ![s]["channel"] = ch]
  BY <1>1 DEF Store
<1>3. ch \in Int
  BY DEF MaybePort
<1>4. slots \in [CcSlot -> SlotRecord]
  BY DEF MidiInv, MidiTypeInv
<1>5. /\ slots' \in [CcSlot -> SlotRecord]
      /\ \A t \in CcSlot : t # s => slots'[t] = slots[t]
      /\ slots'[s].channel = ch
      /\ slots'[s].effect = slots[s].effect /\ slots'[s].symbol = slots[s].symbol
  BY <1>2, <1>3, <1>4, SetChannel
<1>6. slots'[s].effect # NoCcPort => slots'[s].symbol = slots'[s].effect
  BY <1>5 DEF MidiInv, InUseInv
<1>7. MoveLeft(s, ch, num, 1)'
  BY <1>1, <1>2, <1>5 DEF MoveLeft
<1>8. StoresInv'
  BY <1>7 DEF StoresInv
<1> QED
  BY <1>1, <1>5, <1>6, <1>8 DEF StoreDone

LEMMA Move1 ==
  ASSUME MidiInv, Store, NEW s \in CcSlot, NEW p \in CcPort, NEW ch \in Nat, NEW num \in Nat,
         stores = << <<s, "controller", num>> >>
  PROVE  StoreDone(s)
<1>1. stores[1] = <<s, "controller", num>> /\ Tail(stores) = <<>>
  BY Tail1
<1>2. stores' = Tail(stores) /\ slots' = [slots EXCEPT ![s]["controller"] = num]
  BY <1>1 DEF Store
<1>3. num \in Nat
  BY DEF MaybePort
<1>4. slots \in [CcSlot -> SlotRecord]
  BY DEF MidiInv, MidiTypeInv
<1>5. /\ slots' \in [CcSlot -> SlotRecord]
      /\ \A t \in CcSlot : t # s => slots'[t] = slots[t]
      /\ slots'[s].controller = num
      /\ slots'[s].effect = slots[s].effect /\ slots'[s].symbol = slots[s].symbol
  BY <1>2, <1>3, <1>4, SetController
<1>6. slots'[s].effect # NoCcPort => slots'[s].symbol = slots'[s].effect
  BY <1>5 DEF MidiInv, InUseInv
<1>7. StoresInv'
  BY <1>1, <1>2 DEF StoresInv
<1> QED
  BY <1>1, <1>5, <1>6, <1>7 DEF StoreDone

LEMMA Clear4 ==
  ASSUME MidiInv, Store, NEW s \in CcSlot, NEW p \in CcPort, NEW ch \in Nat, NEW num \in Nat,
         stores = << <<s, "channel", -1>>, <<s, "controller", 0>>,
                     <<s, "effect", NoCcPort>>, <<s, "symbol", NoCcPort>> >>
  PROVE  StoreDone(s)
<1>1. /\ stores[1] = <<s, "channel", -1>>
      /\ Tail(stores) = << <<s, "controller", 0>>, <<s, "effect", NoCcPort>>,
                            <<s, "symbol", NoCcPort>> >>
  BY Tail4
<1>2. stores' = Tail(stores) /\ slots' = [slots EXCEPT ![s]["channel"] = -1]
  BY <1>1 DEF Store
<1>3. -1 \in Int
  BY DEF MaybePort
<1>4. slots \in [CcSlot -> SlotRecord]
  BY DEF MidiInv, MidiTypeInv
<1>5. /\ slots' \in [CcSlot -> SlotRecord]
      /\ \A t \in CcSlot : t # s => slots'[t] = slots[t]
      /\ slots'[s].channel = -1
      /\ slots'[s].effect = slots[s].effect /\ slots'[s].symbol = slots[s].symbol
  BY <1>2, <1>3, <1>4, SetChannel
<1>6. slots'[s].effect # NoCcPort => slots'[s].symbol = slots'[s].effect
  BY <1>5 DEF MidiInv, InUseInv
<1>7. ClearLeft(s, 3)'
  BY <1>1, <1>2, <1>5 DEF ClearLeft
<1>8. StoresInv'
  BY <1>7 DEF StoresInv
<1> QED
  BY <1>1, <1>5, <1>6, <1>8 DEF StoreDone

LEMMA Clear3 ==
  ASSUME MidiInv, Store, NEW s \in CcSlot, NEW p \in CcPort, NEW ch \in Nat, NEW num \in Nat,
         stores = << <<s, "controller", 0>>, <<s, "effect", NoCcPort>>,
                     <<s, "symbol", NoCcPort>> >>
  PROVE  StoreDone(s)
<1>1. /\ stores[1] = <<s, "controller", 0>>
      /\ Tail(stores) = << <<s, "effect", NoCcPort>>, <<s, "symbol", NoCcPort>> >>
  BY Tail3
<1>2. stores' = Tail(stores) /\ slots' = [slots EXCEPT ![s]["controller"] = 0]
  BY <1>1 DEF Store
<1>3. 0 \in Nat
  BY DEF MaybePort
<1>4. slots \in [CcSlot -> SlotRecord]
  BY DEF MidiInv, MidiTypeInv
<1>5. /\ slots' \in [CcSlot -> SlotRecord]
      /\ \A t \in CcSlot : t # s => slots'[t] = slots[t]
      /\ slots'[s].controller = 0
      /\ slots'[s].effect = slots[s].effect /\ slots'[s].symbol = slots[s].symbol
  BY <1>2, <1>3, <1>4, SetController
<1>6. slots'[s].effect # NoCcPort => slots'[s].symbol = slots'[s].effect
  BY <1>5 DEF MidiInv, InUseInv
<1>7. ClearLeft(s, 2)'
  BY <1>1, <1>2, <1>5 DEF ClearLeft
<1>8. StoresInv'
  BY <1>7 DEF StoresInv
<1> QED
  BY <1>1, <1>5, <1>6, <1>8 DEF StoreDone

LEMMA Clear2 ==
  ASSUME MidiInv, Store, NEW s \in CcSlot, NEW p \in CcPort, NEW ch \in Nat, NEW num \in Nat,
         stores = << <<s, "effect", NoCcPort>>, <<s, "symbol", NoCcPort>> >>
  PROVE  StoreDone(s)
<1>1. stores[1] = <<s, "effect", NoCcPort>> /\ Tail(stores) = << <<s, "symbol", NoCcPort>> >>
  BY Tail2
<1>2. stores' = Tail(stores) /\ slots' = [slots EXCEPT ![s]["effect"] = NoCcPort]
  BY <1>1 DEF Store
<1>3. NoCcPort \in MaybePort
  BY DEF MaybePort
<1>4. slots \in [CcSlot -> SlotRecord]
  BY DEF MidiInv, MidiTypeInv
<1>5. /\ slots' \in [CcSlot -> SlotRecord]
      /\ \A t \in CcSlot : t # s => slots'[t] = slots[t]
      /\ slots'[s].effect = NoCcPort
      /\ slots'[s].symbol = slots[s].symbol /\ slots'[s].channel = slots[s].channel
  BY <1>2, <1>3, <1>4, SetEffect
<1>6. slots'[s].effect # NoCcPort => slots'[s].symbol = slots'[s].effect
  BY <1>5 DEF MidiInv, InUseInv
<1>7. ClearLeft(s, 1)'
  BY <1>1, <1>2, <1>5 DEF ClearLeft
<1>8. StoresInv'
  BY <1>7 DEF StoresInv
<1> QED
  BY <1>1, <1>5, <1>6, <1>8 DEF StoreDone

LEMMA Clear1 ==
  ASSUME MidiInv, Store, NEW s \in CcSlot, NEW p \in CcPort, NEW ch \in Nat, NEW num \in Nat,
         stores = << <<s, "symbol", NoCcPort>> >>,
         slots[s].effect = NoCcPort
  PROVE  StoreDone(s)
<1>1. stores[1] = <<s, "symbol", NoCcPort>> /\ Tail(stores) = <<>>
  BY Tail1
<1>2. stores' = Tail(stores) /\ slots' = [slots EXCEPT ![s]["symbol"] = NoCcPort]
  BY <1>1 DEF Store
<1>3. NoCcPort \in MaybePort
  BY DEF MaybePort
<1>4. slots \in [CcSlot -> SlotRecord]
  BY DEF MidiInv, MidiTypeInv
<1>5. /\ slots' \in [CcSlot -> SlotRecord]
      /\ \A t \in CcSlot : t # s => slots'[t] = slots[t]
      /\ slots'[s].symbol = NoCcPort
      /\ slots'[s].effect = slots[s].effect /\ slots'[s].channel = slots[s].channel
  BY <1>2, <1>3, <1>4, SetSymbol
<1>6. slots'[s].effect # NoCcPort => slots'[s].symbol = slots'[s].effect
  BY <1>5 DEF MidiInv, InUseInv
<1>7. StoresInv'
  BY <1>1, <1>2 DEF StoresInv
<1> QED
  BY <1>1, <1>5, <1>6, <1>7 DEF StoreDone

LEMMA StoreIsDone ==
  ASSUME MidiInv, Store
  PROVE  \E s \in CcSlot : StoreDone(s)
<1>1. PICK s \in CcSlot, p \in CcPort, ch \in Nat, num \in Nat, left \in {1, 2, 3, 4} :
        FillLeft(s, p, ch, num, left) \/ MoveLeft(s, ch, num, left) \/ ClearLeft(s, left)
  BY DEF MidiInv, StoresInv, Store
<1>2. CASE FillLeft(s, p, ch, num, left)
  BY <1>2, Fill1, Fill2, Fill3, Fill4 DEF FillLeft
<1>3. CASE MoveLeft(s, ch, num, left)
  BY <1>3, Move1, Move2 DEF MoveLeft
<1>4. CASE ClearLeft(s, left)
  BY <1>4, Clear1, Clear2, Clear3, Clear4 DEF ClearLeft
<1> QED
  BY <1>1, <1>2, <1>3, <1>4

LEMMA StoreKeeps ==
  ASSUME MidiInv, Store
  PROVE  MidiInv'
<1>1. PICK s \in CcSlot : StoreDone(s)
  BY StoreIsDone
<1> DEFINE spoils == /\ message.at \in {"look", "apply", "report"}
                     /\ slots[s].effect # NoCcPort /\ s = message.slot
<1>2. message' = IF spoils THEN [message EXCEPT !.spoiled = TRUE] ELSE message
  BY <1>1 DEF Store, StoreDone
<1>3. InUseInv'
  BY <1>1 DEF StoreDone, MidiInv, InUseInv
<1>4. CASE spoils
  <2>1. message \in [at : {"look", "apply", "report", "crashed"}, channel : Nat,
                     controller : Nat, slot : CcSlot, spoiled : BOOLEAN]
    BY <1>4 DEF MidiInv, MidiTypeInv, Lookup
  <2>2. /\ message' \in [at : {"look", "apply", "report", "crashed"}, channel : Nat,
                         controller : Nat, slot : CcSlot, spoiled : BOOLEAN]
        /\ message'.at = message.at /\ message'.spoiled = TRUE
    BY <1>2, <1>4, <2>1
  <2>3. MidiTypeInv'
    BY <1>1, <2>2 DEF StoreDone, MidiTypeInv, Lookup
  <2>4. LookupInv'
    BY <2>2 DEF LookupInv
  <2> QED
    BY <1>1, <1>3, <2>3, <2>4 DEF MidiInv, StoreDone
<1>5. CASE ~spoils
  <2>1. message' = message
    BY <1>2, <1>5
  <2>2. MidiTypeInv'
    BY <1>1, <2>1 DEF StoreDone, MidiInv, MidiTypeInv
  <2>3. ASSUME message.at \in {"look", "apply", "report"}, ~message.spoiled
        PROVE  slots'[message.slot] = slots[message.slot]
    <3>1. message \in Lookup
      BY <2>3 DEF MidiInv, MidiTypeInv
    <3>2. message.slot \in CcSlot /\ message.slot # s
      BY <1>5, <2>3, <3>1 DEF Lookup, MidiInv, LookupInv
    <3> QED
      BY <1>1, <3>2 DEF StoreDone
  <2>4. LookupInv'
    BY <2>1, <2>3 DEF MidiInv, LookupInv
  <2> QED
    BY <1>1, <1>3, <2>1, <2>2, <2>4 DEF MidiInv, StoreDone
<1> QED
  BY <1>4, <1>5

-----------------------------------------------------------------------------
(* Every step keeps the invariant.                                         *)

LEMMA MapKeeps ==
  ASSUME MidiInv, NEW p \in CcPort, NEW ch \in Channel, NEW num \in CcNumber,
         MapController(p, ch, num)
  PROVE  MidiInv'
<1>1. ch \in Nat /\ num \in Nat
  BY GlobalMidiAssumption
<1>2. slots' = slots /\ message' = message
  BY DEF MapController
<1>3. CASE \E s \in MappingOf(p) :
             stores' = Stores(s, <<<<"channel", ch>>, <<"controller", num>>>>)
  <2>1. PICK s \in CcSlot : stores' = Stores(s, <<<<"channel", ch>>, <<"controller", num>>>>)
    BY <1>3 DEF MappingOf
  <2>2. stores' = << <<s, "channel", ch>>, <<s, "controller", num>> >>
    BY <2>1, Stores2
  <2>3. MoveLeft(s, ch, num, 2)'
    BY <2>2 DEF MoveLeft
  <2> QED
    BY <1>1, <2>3 DEF StoresInv, MidiInv, MidiTypeInv, InUseInv, LookupInv, MapController
<1>4. CASE \E s \in Unassigned :
             stores' = Stores(s, <<<<"symbol", p>>, <<"channel", ch>>, <<"controller", num>>,
                                   <<"effect", p>>>>)
  <2>1. PICK s \in Unassigned :
             stores' = Stores(s, <<<<"symbol", p>>, <<"channel", ch>>, <<"controller", num>>,
                                   <<"effect", p>>>>)
    BY <1>4
  <2>2. stores' = << <<s, "symbol", p>>, <<s, "channel", ch>>,
                     <<s, "controller", num>>, <<s, "effect", p>> >>
    BY <2>1, Stores4
  <2>3. s \in CcSlot /\ slots'[s].effect = NoCcPort
    BY <1>2, <2>1 DEF Unassigned
  <2>4. FillLeft(s, p, ch, num, 4)'
    BY <2>2, <2>3 DEF FillLeft
  <2>5. StoresInv'
    BY <1>1, <2>3, <2>4 DEF StoresInv
  <2> QED
    BY <1>2, <2>5 DEF MidiInv, MidiTypeInv, InUseInv, LookupInv
<1> QED
  BY <1>3, <1>4 DEF MapController

LEMMA UnmapKeeps ==
  ASSUME MidiInv, NEW p \in CcPort, UnmapController(p)
  PROVE  MidiInv'
<1>1. PICK s \in CcSlot :
        stores' = Stores(s, <<<<"channel", -1>>, <<"controller", 0>>, <<"effect", NoCcPort>>,
                              <<"symbol", NoCcPort>>>>)
  BY DEF UnmapController, MappingOf
<1>2. stores' = << <<s, "channel", -1>>, <<s, "controller", 0>>,
                   <<s, "effect", NoCcPort>>, <<s, "symbol", NoCcPort>> >>
  BY <1>1, Stores4
<1>3. ClearLeft(s, 4)'
  BY <1>2 DEF ClearLeft
<1>4. StoresInv'
  <2>1. p \in CcPort /\ 0 \in Nat /\ 4 \in {1, 2, 3, 4}
    OBVIOUS
  <2> QED
    BY <1>3, <2>1 DEF StoresInv
<1> QED
  BY <1>4 DEF UnmapController, MidiInv, MidiTypeInv, InUseInv, LookupInv

(* The steps of the cycle change the message alone.                        *)
LEMMA CycleKeeps ==
  ASSUME MidiInv, CycleMidi, MidiTypeInv', LookupInv'
  PROVE  MidiInv'
  BY DEF MidiInv, CycleMidi, StoresInv, FillLeft, MoveLeft, ClearLeft, InUseInv

LEMMA MessageDone ==
  ASSUME MidiInv, CycleMidi, message'.at = "done"
  PROVE  MidiInv'
<1>1. MidiTypeInv' /\ LookupInv'
  BY DEF MidiInv, CycleMidi, MidiTypeInv, LookupInv
<1> QED
  BY <1>1, CycleKeeps

LEMMA MessageSearches ==
  ASSUME MidiInv, CycleMidi, NEW ch \in Nat, NEW num \in Nat, NEW from \in Nat,
         message' = [at |-> "search", channel |-> ch, controller |-> num, slot |-> from]
  PROVE  MidiInv'
<1>1. message'.at = "search"
  OBVIOUS
<1>2. message' \in [at : {"search"}, channel : Nat, controller : Nat, slot : Nat]
  OBVIOUS
<1>3. MidiTypeInv' /\ LookupInv'
  BY <1>1, <1>2 DEF MidiInv, CycleMidi, MidiTypeInv, LookupInv
<1> QED
  BY <1>3, CycleKeeps

LEMMA SearchKeeps ==
  ASSUME MidiInv, SearchSlot
  PROVE  MidiInv'
<1>1. message \in [at : {"search"}, channel : Nat, controller : Nat, slot : Nat]
  BY DEF SearchSlot, MidiInv, MidiTypeInv, Lookup
<1>2. CycleMidi /\ message.slot \in CcSlot
  BY DEF SearchSlot
<1> DEFINE hit == /\ slots[message.slot].effect # NoCcPort
                  /\ slots[message.slot].channel = message.channel
<1>3. CASE hit
  <2>1. message' = [at |-> "look", channel |-> message.channel,
                    controller |-> message.controller, slot |-> message.slot,
                    spoiled |-> FALSE]
    BY <1>3 DEF SearchSlot
  <2>2. message' \in Lookup
    BY <1>1, <1>2, <2>1 DEF Lookup
  <2>3. /\ message'.at = "look" /\ message'.slot = message.slot
        /\ message'.channel = message.channel
    BY <2>1
  <2>4. MidiTypeInv' /\ LookupInv'
    BY <1>2, <1>3, <2>2, <2>3 DEF MidiInv, CycleMidi, MidiTypeInv, LookupInv
  <2> QED
    BY <1>2, <2>4, CycleKeeps
<1>4. CASE ~hit
  <2>1. message' = [at |-> "search", channel |-> message.channel,
                    controller |-> message.controller, slot |-> message.slot + 1]
    BY <1>4 DEF SearchSlot, Searching
  <2> QED
    BY <1>1, <1>2, <2>1, MessageSearches
<1> QED
  BY <1>3, <1>4

LEMMA LookKeeps ==
  ASSUME MidiInv, LookController
  PROVE  MidiInv'
<1>1. message \in [at : {"look", "apply", "report", "crashed"}, channel : Nat,
                   controller : Nat, slot : CcSlot, spoiled : BOOLEAN]
  BY DEF LookController, MidiInv, MidiTypeInv, Lookup
<1>2. CycleMidi /\ message.at = "look" /\ message.slot \in Nat
  BY <1>1, GlobalMidiAssumption DEF LookController, CcSlot
<1>3. CASE slots[message.slot].controller = message.controller
  <2>1. message' = [message EXCEPT !.at = "apply"]
    BY <1>3 DEF LookController
  <2>2. /\ message' \in [at : {"look", "apply", "report", "crashed"}, channel : Nat,
                         controller : Nat, slot : CcSlot, spoiled : BOOLEAN]
        /\ message'.at = "apply" /\ message'.slot = message.slot
        /\ message'.channel = message.channel /\ message'.controller = message.controller
        /\ message'.spoiled = message.spoiled
    BY <1>1, <2>1
  <2>3. message' \in Lookup
    BY <2>2 DEF Lookup
  <2>4. MidiTypeInv' /\ LookupInv'
    BY <1>2, <1>3, <2>2, <2>3 DEF MidiInv, CycleMidi, MidiTypeInv, LookupInv
  <2> QED
    BY <1>2, <2>4, CycleKeeps
<1>4. CASE slots[message.slot].controller # message.controller
  <2>1. message' = [at |-> "search", channel |-> message.channel,
                    controller |-> message.controller, slot |-> message.slot + 1]
    BY <1>4 DEF LookController, Searching
  <2> QED
    BY <1>1, <1>2, <2>1, MessageSearches
<1> QED
  BY <1>3, <1>4

LEMMA ApplyKeeps ==
  ASSUME MidiInv, ApplyController
  PROVE  MidiInv'
<1>1. message \in [at : {"look", "apply", "report", "crashed"}, channel : Nat,
                   controller : Nat, slot : CcSlot, spoiled : BOOLEAN]
  BY DEF ApplyController, MidiInv, MidiTypeInv, Lookup
<1> DEFINE next == IF slots[message.slot].symbol = NoCcPort THEN "crashed" ELSE "report"
<1>2. CycleMidi /\ message.at = "apply" /\ message' = [message EXCEPT !.at = next]
  BY DEF ApplyController
<1>3. /\ message' \in [at : {"look", "apply", "report", "crashed"}, channel : Nat,
                       controller : Nat, slot : CcSlot, spoiled : BOOLEAN]
      /\ message'.at = next /\ message'.slot = message.slot
      /\ message'.channel = message.channel /\ message'.controller = message.controller
      /\ message'.spoiled = message.spoiled
  BY <1>1, <1>2
<1>4. message' \in Lookup
  BY <1>3 DEF Lookup
<1>5. next = "crashed" => message.spoiled
  BY <1>1, <1>2 DEF MidiInv, LookupInv, InUseInv
<1>6. MidiTypeInv' /\ LookupInv'
  BY <1>2, <1>3, <1>4, <1>5 DEF MidiInv, CycleMidi, MidiTypeInv, LookupInv
<1> QED
  BY <1>2, <1>6, CycleKeeps

LEMMA NextKeeps ==
  ASSUME MidiInv, [GlobalMidiNext]_globalMidiVars
  PROVE  MidiInv'
<1>1. CASE UNCHANGED globalMidiVars
  BY <1>1 DEF globalMidiVars, MidiInv, MidiTypeInv, StoresInv, FillLeft, MoveLeft, ClearLeft,
              InUseInv, LookupInv
<1>2. ASSUME NEW p \in CcPort, NEW ch \in Channel, NEW num \in CcNumber,
             MapController(p, ch, num)
      PROVE  MidiInv'
  BY <1>2, MapKeeps
<1>3. ASSUME NEW p \in CcPort, UnmapController(p) PROVE MidiInv'
  BY <1>3, UnmapKeeps
<1>4. ASSUME NEW ch \in Channel, NEW on \in BOOLEAN,
             MonitorPrograms(ch, on) \/ MonitorControls(ch, on)
      PROVE  MidiInv'
  BY <1>4 DEF MonitorPrograms, MonitorControls, MidiInv, MidiTypeInv, StoresInv, FillLeft,
              MoveLeft, ClearLeft, InUseInv, LookupInv
<1>5. ASSUME NEW ch \in Channel, ProgramChange(ch) PROVE MidiInv'
  BY <1>5, MessageDone DEF ProgramChange
<1>6. ASSUME NEW ch \in Channel, NEW num \in CcNumber, HearController(ch, num)
      PROVE  MidiInv'
  BY <1>6, GlobalMidiAssumption, MessageSearches DEF HearController
<1>7. CASE SearchSlot
  BY <1>7, SearchKeeps
<1>8. CASE LookController
  BY <1>8, LookKeeps
<1>9. CASE ApplyController
  BY <1>9, ApplyKeeps
<1>10. CASE ReportController
  BY <1>10, MessageDone DEF ReportController
<1>11. CASE SearchEnds
  BY <1>11, MessageDone DEF SearchEnds
<1>12. CASE Store
  BY <1>12, StoreKeeps
<1> QED
  BY <1>1, <1>2, <1>3, <1>4, <1>5, <1>6, <1>7, <1>8, <1>9, <1>10, <1>11, <1>12
     DEF GlobalMidiNext

LEMMA InitHolds ==
  ASSUME GlobalMidiInit
  PROVE  MidiInv
<1>1. Cleared \in SlotRecord /\ Cleared.effect = NoCcPort
  BY DEF Cleared, SlotRecord, MaybePort
<1>2. message.at = "none" /\ slots \in [CcSlot -> SlotRecord]
  BY <1>1 DEF GlobalMidiInit
<1>3. \A s \in CcSlot : slots[s].effect = NoCcPort
  BY <1>1 DEF GlobalMidiInit
<1> QED
  BY <1>2, <1>3 DEF GlobalMidiInit, MidiInv, MidiTypeInv, StoresInv, InUseInv, LookupInv

LEMMA InvariantSuffices ==
  ASSUME MidiInv
  PROVE  LookupsAreWhole
<1>1. message.at = "crashed" => message.spoiled
  BY DEF MidiInv, LookupInv
<1>2. ASSUME message.at = "report", ~message.spoiled
      PROVE  LET slot == slots[message.slot]
             IN slot.effect \in CcPort /\ slot.symbol = slot.effect
                /\ slot.channel = message.channel /\ slot.controller = message.controller
  <2>1. message.slot \in CcSlot
    BY <1>2 DEF MidiInv, MidiTypeInv, Lookup
  <2>2. slots[message.slot].effect \in MaybePort
    BY <2>1 DEF MidiInv, MidiTypeInv, SlotRecord
  <2> QED
    BY <1>2, <2>1, <2>2 DEF MidiInv, LookupInv, InUseInv, MaybePort
<1> QED
  BY <1>1, <1>2 DEF LookupsAreWhole

(* A lookup whose slot nobody wrote while it was in use sees it whole:     *)
(* ProcessGlobalClient needs no lock against midi_map, whose last store is *)
(* the effect_id, nor against midi_unmap of another slot                   *)
(* (effects.c:3057-3110, 8056-8106).                                       *)
THEOREM LookupNeedsNoLock == GlobalMidiSpec => []LookupsAreWhole
<1>1. GlobalMidiInit => MidiInv
  BY InitHolds
<1>2. MidiInv /\ [GlobalMidiNext]_globalMidiVars => MidiInv'
  BY NextKeeps
<1>3. MidiInv => LookupsAreWhole
  BY InvariantSuffices
<1> QED
  BY <1>1, <1>2, <1>3, PTL DEF GlobalMidiSpec

-----------------------------------------------------------------------------
(* Conversions: division and rounding.                                     *)

LEMMA Divided ==
  ASSUME NEW a \in Int, NEW d \in Nat \ {0}
  PROVE  \E r \in 0..(d - 1) : a \div d \in Int /\ a = d * (a \div d) + r
<1>1. a \div d \in Int /\ a % d \in 0..(d - 1) /\ a = d * (a \div d) + (a % d)
  OBVIOUS
<1> QED
  BY <1>1

LEMMA TimesMono ==
  ASSUME NEW d \in Nat, NEW a \in Int, NEW b \in Int, a <= b
  PROVE  d * a <= d * b /\ a * d <= b * d
  OBVIOUS

LEMMA QuotientsCompare ==
  ASSUME NEW d \in Nat \ {0}, NEW q \in Int, NEW p \in Int,
         NEW r \in 0..(d - 1), NEW s \in 0..(d - 1), d * q + r <= d * p + s
  PROVE  q <= p
<1> SUFFICES ASSUME p + 1 <= q PROVE FALSE
  OBVIOUS
<1>1. d * (p + 1) <= d * q
  BY TimesMono
<1>2. d * (p + 1) = d * p + d
  OBVIOUS
<1> DEFINE x == d * p
           y == d * q
<1>3. x \in Int /\ y \in Int
  OBVIOUS
<1>4. x + d <= y /\ y + r <= x + s
  BY <1>1, <1>2
<1> HIDE DEF x, y
<1> QED
  BY <1>3, <1>4

LEMMA DivMono ==
  ASSUME NEW d \in Nat \ {0}, NEW a \in Int, NEW b \in Int, a <= b
  PROVE  a \div d <= b \div d
<1>1. PICK r \in 0..(d - 1) : a \div d \in Int /\ a = d * (a \div d) + r
  BY Divided
<1>2. PICK s \in 0..(d - 1) : b \div d \in Int /\ b = d * (b \div d) + s
  BY Divided
<1> DEFINE q == a \div d
           p == b \div d
<1>3. d * q + r <= d * p + s /\ q \in Int /\ p \in Int
  BY <1>1, <1>2
<1> HIDE DEF q, p
<1>4. q <= p
  BY <1>3, QuotientsCompare
<1> QED
  BY <1>4 DEF q, p

LEMMA DivIs ==
  ASSUME NEW d \in Nat \ {0}, NEW k \in Int, NEW s \in 0..(d - 1), NEW a, a = d * k + s
  PROVE  a \div d = k
<1>1. a \in Int
  OBVIOUS
<1>2. PICK r \in 0..(d - 1) : a \div d \in Int /\ a = d * (a \div d) + r
  BY <1>1, Divided
<1> DEFINE q == a \div d
<1>3. q \in Int /\ d * q + r = d * k + s
  BY <1>2
<1> HIDE DEF q
<1>4. q <= k
  <2>1. d * q + r <= d * k + s
    BY <1>3
  <2> QED
    BY <1>3, <2>1, QuotientsCompare
<1>5. k <= q
  <2>1. d * k + s <= d * q + r
    BY <1>3
  <2> QED
    BY <1>3, <2>1, QuotientsCompare
<1> QED
  BY <1>3, <1>4, <1>5 DEF q

(* The part a/d of a width.                                                *)
LEMMA PartIs ==
  ASSUME NEW d \in Nat \ {0}, NEW w \in Nat, NEW a \in 0..d
  PROVE  (a * w) \div d \in 0..w
<1>1. 0 <= a * w /\ a * w <= d * w /\ a * w \in Int /\ d * w \in Int
  BY TimesMono
<1>2. 0 \div d = 0
  BY DivIs
<1>3. (d * w) \div d = w
  BY DivIs
<1>4. (a * w) \div d \in Int
  BY <1>1
<1>5. 0 \div d <= (a * w) \div d /\ (a * w) \div d <= (d * w) \div d
  BY <1>1, DivMono
<1> QED
  BY <1>2, <1>3, <1>4, <1>5

LEMMA PartMono ==
  ASSUME NEW d \in Nat \ {0}, NEW w \in Nat, NEW a \in Nat, NEW b \in Nat, a <= b
  PROVE  (a * w) \div d <= (b * w) \div d
<1>1. a * w <= b * w /\ a * w \in Int /\ b * w \in Int
  BY TimesMono
<1> QED
  BY <1>1, DivMono

RoundUp(y) == (2 * y + One) \div (2 * One)

LEMMA RoundUpIs ==
  /\ \A y \in Nat : RoundUp(y) \in Nat
  /\ \A x, y \in Nat : x <= y => RoundUp(x) <= RoundUp(y)
  /\ \A k \in Nat : RoundUp(One * k) = k
<1>1. 2 * One \in Nat \ {0} /\ One \in Nat \ {0}
  BY ConversionsAssumption
<1> DEFINE d == 2 * One
<1>2. ASSUME NEW x \in Int, NEW y \in Int, x <= y
      PROVE  RoundUp(x) <= RoundUp(y) /\ RoundUp(y) \in Int
  <2>1. 2 * x + One <= 2 * y + One /\ 2 * x + One \in Int /\ 2 * y + One \in Int
    BY <1>1, <1>2
  <2> HIDE DEF d
  <2>2. (2 * x + One) \div d <= (2 * y + One) \div d /\ (2 * y + One) \div d \in Int
    BY <1>1, <2>1, DivMono DEF d
  <2> QED
    BY <2>2 DEF RoundUp, d
<1>3. ASSUME NEW k \in Nat PROVE RoundUp(One * k) = k
  <2>1. 2 * (One * k) + One = d * k + One /\ One \in 0..(d - 1)
    BY <1>1
  <2> DEFINE a == 2 * (One * k) + One
  <2> HIDE DEF a, d
  <2>2. a \div d = k
    BY <1>1, <2>1, DivIs DEF a, d
  <2> QED
    BY <2>2 DEF RoundUp, a, d
<1>4. RoundUp(0) = 0
  BY <1>1, <1>3
<1>5. ASSUME NEW y \in Nat PROVE RoundUp(y) \in Nat
  BY <1>2, <1>4
<1> QED
  BY <1>2, <1>3, <1>5

LEMMA RoundedIs ==
  /\ \A x \in Int : Rounded(x) \in Int
  /\ \A x, y \in Int : x <= y => Rounded(x) <= Rounded(y)
  /\ \A x \in Int : x % One = 0 => Rounded(x) = x
<1>1. One \in Nat \ {0}
  BY ConversionsAssumption
<1> DEFINE whole(x) == IF x >= 0 THEN RoundUp(x) ELSE -RoundUp(-x)
<1>2. ASSUME NEW x \in Int PROVE whole(x) \in Int /\ Rounded(x) = One * whole(x)
  <2>1. x >= 0 => x \in Nat
    OBVIOUS
  <2>2. ~(x >= 0) => -x \in Nat
    OBVIOUS
  <2> QED
    BY <2>1, <2>2, RoundUpIs DEF Rounded, RoundUp
<1>3. ASSUME NEW x \in Int, NEW y \in Int, x <= y PROVE whole(x) <= whole(y)
  <2>1. CASE x >= 0
    BY <1>3, <2>1, RoundUpIs
  <2>2. CASE y < 0
    <3>1. -y \in Nat /\ -x \in Nat /\ -y <= -x
      BY <1>3, <2>2
    <3>2. RoundUp(-y) <= RoundUp(-x) /\ RoundUp(-y) \in Nat /\ RoundUp(-x) \in Nat
      BY <3>1, RoundUpIs
    <3> QED
      BY <1>3, <2>2, <3>2
  <2>3. CASE x < 0 /\ y >= 0
    <3>1. y \in Nat /\ -x \in Nat
      BY <2>3
    <3>2. RoundUp(y) \in Nat /\ RoundUp(-x) \in Nat
      BY <3>1, RoundUpIs
    <3> QED
      BY <2>3, <3>2
  <2> QED
    BY <2>1, <2>2, <2>3
<1>4. ASSUME NEW x \in Int, x % One = 0 PROVE Rounded(x) = x
  <2>1. x \div One \in Int /\ x = One * (x \div One) + (x % One)
    BY <1>1
  <2> DEFINE k == x \div One
  <2>2. k \in Int /\ x = One * k
    BY <1>1, <1>4, <2>1
  <2> HIDE DEF k
  <2>3. CASE k >= 0
    <3>1. x >= 0
      BY <1>1, <2>2, <2>3
    <3>2. RoundUp(x) = k
      BY <2>2, <2>3, RoundUpIs
    <3> QED
      BY <1>2, <2>2, <3>1, <3>2
  <2>4. CASE k < 0
    <3>1. -k \in Nat /\ -x = One * (-k)
      BY <1>1, <2>2, <2>4
    <3>2. RoundUp(-x) = -k
      BY <3>1, RoundUpIs
    <3>3. x < 0
      <4>1. One * 1 <= One * (-k)
        BY <1>1, <2>2, <2>4, TimesMono
      <4> QED
        BY <1>1, <3>1, <4>1
    <3>4. whole(x) = k
      BY <2>2, <3>2, <3>3
    <3> QED
      BY <1>2, <2>2, <3>4
  <2> QED
    BY <2>2, <2>3, <2>4
<1>5. ASSUME NEW x \in Int, NEW y \in Int, x <= y PROVE Rounded(x) <= Rounded(y)
  <2>1. whole(x) \in Int /\ whole(y) \in Int /\ whole(x) <= whole(y)
    BY <1>2, <1>3, <1>5
  <2>2. Rounded(x) = One * whole(x) /\ Rounded(y) = One * whole(y)
    BY <1>2
  <2> HIDE DEF whole
  <2> QED
    BY <1>1, <2>1, <2>2, TimesMono
<1>6. ASSUME NEW x \in Int PROVE Rounded(x) \in Int
  <2> HIDE DEF whole
  <2> QED
    BY <1>1, <1>2
<1> QED
  BY <1>4, <1>5, <1>6

-----------------------------------------------------------------------------
(* Ranges.                                                                 *)

IsRange(r) == r.min \in Int /\ r.max \in Int /\ r.min < r.max
IsEven(r) == r.min % 2 = 0 /\ r.max % 2 = 0

(* A port of a control with the range of a mapping.                        *)
IsPort(p) ==
  /\ IsRange(p) /\ p.toggle \in BOOLEAN /\ p.integer \in BOOLEAN
  /\ p.integer => p.min % One = 0 /\ p.max % One = 0

IsSource(s) == IsRange(s.range) /\ s.diff \in Nat \ {0}

LEMMA ApartIs ==
  ASSUME NEW lo \in Int, NEW hi \in Int
  PROVE  IsRange(Apart(lo, hi)) /\ (lo % 2 = 0 /\ hi % 2 = 0 => IsEven(Apart(lo, hi)))
<1>1. One \in Nat \ {0} /\ One % 20 = 0
  BY ConversionsAssumption
<1> DEFINE tenth == One \div 10
<1>2. tenth \in Nat \ {0} /\ tenth % 2 = 0
  BY <1>1
<1>3. Apart(lo, hi) = [min |-> lo, max |-> IF lo >= hi THEN lo + tenth ELSE hi]
  BY DEF Apart
<1> HIDE DEF tenth
<1>4. lo % 2 = 0 => (lo + tenth) % 2 = 0
  BY <1>2
<1> QED
  BY <1>2, <1>3, <1>4 DEF IsRange, IsEven

LEMMA GivenIs ==
  ASSUME NEW S, NEW limit \in Declared(S), NEW default
  PROVE  Given(limit, default) \in S \cup {default}
  BY DEF Given, Declared

LEMMA SourceIs ==
  ASSUME NEW source \in CvOrigin
  PROVE  LET s == Source0(source)
         IN  IsRange(s.range) /\ IsEven(s.range) /\ s.known \in BOOLEAN
<1>1. One \in Nat \ {0} /\ One % 20 = 0 /\ CvLimit \subseteq Int
      /\ \A x \in CvLimit : x % 2 = 0
  BY ConversionsAssumption
<1>2. One % 2 = 0 /\ (5 * One) % 2 = 0 /\ (10 * One) % 2 = 0 /\ (-5 * One) % 2 = 0
  BY <1>1
<1> DEFINE s == Source0(source)
<1>3. CASE source.from = "exp_pedal"
  <2>1. s = [range |-> [min |-> 0, max |-> 5 * One], known |-> TRUE]
    BY <1>3 DEF Source0
  <2> HIDE DEF s
  <2> QED
    BY <1>1, <1>2, <2>1 DEF IsRange, IsEven, s
<1>4. CASE source.from = "spi"
  <2>1. s = [range |-> [min |-> 0, max |-> 10 * One], known |-> TRUE]
    BY <1>4 DEF Source0
  <2> HIDE DEF s
  <2> QED
    BY <1>1, <1>2, <2>1 DEF IsRange, IsEven, s
<1>5. CASE source.from = "other"
  <2>1. s = [range |-> [min |-> -5 * One, max |-> 5 * One], known |-> FALSE]
    BY <1>5 DEF Source0
  <2> HIDE DEF s
  <2> QED
    BY <1>1, <1>2, <2>1 DEF IsRange, IsEven, s
<1>6. CASE source.from = "metadata"
  <2>1. s = [range |-> Apart(source.lo, source.hi), known |-> TRUE]
    BY <1>6 DEF Source0
  <2>2. source.lo \in CvLimit /\ source.hi \in CvLimit
    BY <1>6 DEF CvOrigin
  <2>3. IsRange(Apart(source.lo, source.hi)) /\ IsEven(Apart(source.lo, source.hi))
    BY <1>1, <2>2, ApartIs
  <2> HIDE DEF s
  <2> QED
    BY <2>1, <2>3 DEF s
<1>7. CASE source.from = "effect"
  <2>1. source.lo \in Declared(CvLimit) /\ source.hi \in Declared(CvLimit) /\ source.mod \in BOOLEAN
    BY <1>7 DEF CvOrigin
  <2> DEFINE a == Given(source.lo, -5 * One)
             b == Given(source.hi, 5 * One)
             p == CvPortRange(source.lo, source.hi)
  <2>2. a \in Int /\ b \in Int /\ a % 2 = 0 /\ b % 2 = 0
    <3>1. a \in CvLimit \cup {-5 * One}
      BY <2>1, GivenIs
    <3>2. b \in CvLimit \cup {5 * One}
      BY <2>1, GivenIs
    <3> HIDE DEF a, b
    <3> QED
      BY <1>1, <1>2, <3>1, <3>2
  <2>3. p = [range |-> Apart(a, b), declared |-> source.lo # {} /\ source.hi # {} /\ a < b]
    BY DEF CvPortRange
  <2>4. s = [range |-> p.range, known |-> source.mod \/ p.declared]
    BY <1>7 DEF Source0
  <2> HIDE DEF s, p, a, b
  <2>5. IsRange(Apart(a, b)) /\ IsEven(Apart(a, b))
    BY <2>2, ApartIs
  <2> QED
    BY <2>3, <2>4, <2>5 DEF s
<1> QED
  BY <1>3, <1>4, <1>5, <1>6, <1>7 DEF CvOrigin

LEMMA CvSourceIs ==
  ASSUME NEW source \in CvOrigin, NEW mode \in {"=", "-", "+", "b"}
  PROVE  IsSource(CvSource(source, mode))
<1> DEFINE s == Source0(source)
           w == IF s.known THEN Width(s.range) ELSE One
           r == ModeRange(mode, s)
<1>1. IsRange(s.range) /\ IsEven(s.range) /\ s.known \in BOOLEAN
  BY SourceIs
<1>2. One \in Nat \ {0} /\ One % 20 = 0
  BY ConversionsAssumption
<1>3. Width(s.range) \in Nat \ {0} /\ Width(s.range) % 2 = 0
  BY <1>1 DEF IsRange, IsEven, Width
<1>4. w \in Nat \ {0} /\ w % 2 = 0
  BY <1>2, <1>3
<1>5. CvSource(source, mode) = [range |-> r, diff |-> Width(s.range)]
  BY DEF CvSource
<1>6. r = CASE mode = "=" -> s.range
            [] mode = "-" -> [min |-> -w, max |-> 0]
            [] mode = "+" -> [min |-> 0, max |-> w]
            [] mode = "b" -> IF ~s.known THEN [min |-> -One, max |-> One]
                             ELSE IF s.range.min < 0 /\ s.range.max > 0 THEN s.range
                             ELSE [min |-> -(w \div 2), max |-> w \div 2]
  BY DEF ModeRange
<1> HIDE DEF s, w, r
<1>7. w \div 2 \in Nat \ {0}
  BY <1>4
<1>8. IsRange(r)
  BY <1>1, <1>2, <1>4, <1>6, <1>7 DEF IsRange
<1> QED
  BY <1>3, <1>5, <1>8 DEF IsSource

LEMMA ControlPortIs ==
  ASSUME NEW p \in ControlPort
  PROVE  IsRange(p) /\ p.toggle \in BOOLEAN /\ p.integer \in BOOLEAN /\ p.trigger \in BOOLEAN
         /\ ~(p.toggle /\ p.integer)
<1>1. PICK lo, hi \in Declared(PortLimit), k \in {"toggle", "integer", "trigger", "float"} :
        p = [min |-> ControlRange(lo, hi).min, max |-> ControlRange(lo, hi).max,
             toggle |-> k = "toggle", integer |-> k = "integer", trigger |-> k = "trigger"]
  BY DEF ControlPort
<1>2. Given(lo, 0) \in Int /\ Given(hi, One) \in Int
  BY GivenIs, ConversionsAssumption
<1>3. IsRange(ControlRange(lo, hi))
  BY <1>2, ApartIs DEF ControlRange
<1> QED
  BY <1>1, <1>3 DEF IsRange

-----------------------------------------------------------------------------
(* Values.                                                                 *)

(* A part of the way through the range, for a port that is no toggle.      *)
Through(p, a, d) ==
  IF p.integer THEN Rounded(p.min + ((a * Width(p)) \div d)) ELSE p.min + ((a * Width(p)) \div d)

LEMMA ThroughIs ==
  ASSUME NEW p, IsPort(p), NEW d \in Nat \ {0}, NEW a \in 0..d
  PROVE  Through(p, a, d) \in Int /\ Between(Through(p, a, d), p)
         /\ \A b \in 0..d : a <= b => Through(p, a, d) <= Through(p, b, d)
<1> DEFINE w == Width(p)
           part(b) == (b * w) \div d
           x(b) == p.min + part(b)
<1>1. /\ p.min \in Int /\ p.max \in Int /\ w \in Nat /\ p.max = p.min + w
      /\ p.integer \in BOOLEAN /\ (p.integer => p.min % One = 0 /\ p.max % One = 0)
  BY DEF IsPort, IsRange, Width
<1> HIDE DEF w
<1>2. \A b \in 0..d : part(b) \in 0..w
  BY <1>1, PartIs
<1>3. \A b \in 0..d : a <= b => part(a) <= part(b)
  BY <1>1, PartMono
<1> HIDE DEF part
<1>4. \A b \in 0..d : x(b) \in Int /\ p.min <= x(b) /\ x(b) <= p.max
  BY <1>1, <1>2
<1>5. \A b \in 0..d : a <= b => x(a) <= x(b)
  BY <1>1, <1>2, <1>3
<1>6. \A b \in 0..d : Through(p, b, d) = IF p.integer THEN Rounded(x(b)) ELSE x(b)
  BY DEF Through, part, w
<1> HIDE DEF x
<1>7. CASE p.integer
  <2>1. \A b \in 0..d : /\ Rounded(x(b)) \in Int /\ Rounded(p.min) <= Rounded(x(b))
                        /\ Rounded(x(b)) <= Rounded(p.max)
    BY <1>1, <1>4, RoundedIs
  <2>2. Rounded(p.min) = p.min /\ Rounded(p.max) = p.max
    BY <1>1, <1>7, RoundedIs
  <2>3. \A b \in 0..d : a <= b => Rounded(x(a)) <= Rounded(x(b))
    BY <1>4, <1>5, RoundedIs
  <2> QED
    BY <1>6, <1>7, <2>1, <2>2, <2>3 DEF Between
<1>8. CASE ~p.integer
  BY <1>4, <1>5, <1>6, <1>8 DEF Between
<1> QED
  BY <1>1, <1>7, <1>8

LEMMA CvValueIs ==
  ASSUME NEW p, NEW s, IsPort(p), IsSource(s), NEW level \in Int
  PROVE  LET above == level - s.range.min
         IN  /\ level <= s.range.min =>
                  CvValue(p, s, level) = p.min /\ CvBypass(p, s, level) = p.max
             /\ level >= s.range.max =>
                  CvValue(p, s, level) = p.max /\ CvBypass(p, s, level) = p.min
             /\ s.range.min < level /\ level < s.range.max =>
                  /\ CvValue(p, s, level) =
                       IF p.toggle THEN IF 2 * above > s.diff THEN p.max ELSE p.min
                       ELSE Through(p, above, s.diff)
                  /\ CvBypass(p, s, level) = IF 2 * above > s.diff THEN p.min ELSE p.max
<1>1. s.range.min \in Int /\ s.range.max \in Int /\ s.range.min < s.range.max
  BY DEF IsSource, IsRange
<1>2. CASE level <= s.range.min
  BY <1>1, <1>2 DEF CvValue, CvBypass
<1>3. CASE level >= s.range.max
  BY <1>1, <1>3 DEF CvValue, CvBypass
<1>4. CASE s.range.min < level /\ level < s.range.max
  BY <1>1, <1>4 DEF CvValue, CvBypass, Through
<1> QED
  BY <1>1, <1>2, <1>3, <1>4

LEMMA CvIsSound ==
  ASSUME NEW p, NEW s, IsPort(p), IsSource(s), Width(s.range) <= s.diff,
         NEW x \in Int, NEW y \in Int, x <= y
  PROVE  /\ Between(CvValue(p, s, x), p) /\ CvValue(p, s, x) <= CvValue(p, s, y)
         /\ CvValue(p, s, s.range.min) = p.min /\ CvValue(p, s, s.range.max) = p.max
         /\ CvBypass(p, s, x) \in {p.min, p.max}
         /\ CvBypass(p, s, x) >= CvBypass(p, s, y)
<1> DEFINE lo == s.range.min
           hi == s.range.max
           d  == s.diff
           v(l) == CvValue(p, s, l)
           b(l) == CvBypass(p, s, l)
<1>1. lo \in Int /\ hi \in Int /\ lo < hi /\ d \in Nat \ {0} /\ hi - lo <= d
  BY DEF IsSource, IsRange, Width
<1>2. p.min \in Int /\ p.max \in Int /\ p.min < p.max /\ p.toggle \in BOOLEAN
  BY DEF IsPort, IsRange
<1>3. \A l \in Int : l <= lo => v(l) = p.min /\ b(l) = p.max
  BY CvValueIs
<1>4. \A l \in Int : l >= hi => v(l) = p.max /\ b(l) = p.min
  BY CvValueIs
<1>5. \A l \in Int : lo < l /\ l < hi =>
        /\ v(l) = IF p.toggle THEN IF 2 * (l - lo) > d THEN p.max ELSE p.min
                  ELSE Through(p, l - lo, d)
        /\ b(l) = IF 2 * (l - lo) > d THEN p.min ELSE p.max
  BY CvValueIs
<1> HIDE DEF lo, hi, d, v, b
<1>6. \A l \in Int : lo < l /\ l < hi => l - lo \in 0..d
  BY <1>1
<1>7. ASSUME NEW l \in Int
      PROVE  /\ v(l) \in Int /\ p.min <= v(l) /\ v(l) <= p.max
             /\ b(l) \in {p.min, p.max}
  <2>1. CASE l <= lo \/ l >= hi
    BY <1>2, <1>3, <1>4, <2>1
  <2>2. CASE lo < l /\ l < hi
    <3>1. Through(p, l - lo, d) \in Int /\ p.min <= Through(p, l - lo, d)
          /\ Through(p, l - lo, d) <= p.max
      BY <1>1, <1>6, <2>2, ThroughIs DEF Between
    <3> QED
      BY <1>2, <1>5, <2>2, <3>1
  <2> QED
    BY <1>1, <2>1, <2>2
<1>8. v(x) <= v(y) /\ b(x) >= b(y)
  <2>1. CASE x <= lo \/ y >= hi
    BY <1>2, <1>3, <1>4, <1>7, <2>1
  <2>2. CASE x >= hi \/ y <= lo
    <3>1. (x >= hi => y >= hi) /\ (y <= lo => x <= lo)
      BY <1>1
    <3> QED
      BY <1>2, <1>3, <1>4, <2>2, <3>1
  <2>3. CASE lo < x /\ x < hi /\ lo < y /\ y < hi
    <3>1. x - lo \in 0..d /\ y - lo \in 0..d /\ x - lo <= y - lo
      BY <1>1, <1>6, <2>3
    <3>2. Through(p, x - lo, d) <= Through(p, y - lo, d)
      BY <1>1, <3>1, ThroughIs
    <3>3. 2 * (x - lo) > d => 2 * (y - lo) > d
      BY <1>1
    <3>4. v(x) = (IF p.toggle THEN IF 2 * (x - lo) > d THEN p.max ELSE p.min
                  ELSE Through(p, x - lo, d))
          /\ b(x) = IF 2 * (x - lo) > d THEN p.min ELSE p.max
      BY <1>5, <2>3
    <3>5. v(y) = (IF p.toggle THEN IF 2 * (y - lo) > d THEN p.max ELSE p.min
                  ELSE Through(p, y - lo, d))
          /\ b(y) = IF 2 * (y - lo) > d THEN p.min ELSE p.max
      BY <1>5, <2>3
    <3>6. b(x) >= b(y)
      BY <1>2, <3>3, <3>4, <3>5
    <3>7. v(x) <= v(y)
      BY <1>2, <3>2, <3>3, <3>4, <3>5
    <3> QED
      BY <3>6, <3>7
  <2> QED
    BY <1>1, <2>1, <2>2, <2>3
<1>9. v(lo) = p.min /\ v(hi) = p.max
  BY <1>1, <1>3, <1>4
<1> QED
  BY <1>7, <1>8, <1>9 DEF Between, v, b, lo, hi

LEMMA MidiIsSound ==
  ASSUME NEW p, NEW m, NEW top \in Nat \ {0}, NEW x \in 0..top,
         IsRange(p), p.toggle \in BOOLEAN, ~p.trigger, IsRange(m),
         p.integer \in BOOLEAN, p.integer => m.min % One = 0 /\ m.max % One = 0
  PROVE  LET r == IF p.toggle THEN [min |-> p.min, max |-> p.max] ELSE m
         IN  /\ Between(MidiValue(p, m, x, top), r)
             /\ MidiValue(p, m, 0, top) = r.min /\ MidiValue(p, m, top, top) = r.max
             /\ x < top => MidiValue(p, m, x, top) <= MidiValue(p, m, x + 1, top)
<1> DEFINE v(i) == MidiValue(p, m, i, top)
           q == [min |-> m.min, max |-> m.max, toggle |-> FALSE, integer |-> p.integer]
           part(i) == Through(q, i, top)
<1>1. CASE p.toggle
  <2>1. \A i \in 0..top : v(i) = IF 2 * i >= top + 1 THEN p.max ELSE p.min
    BY <1>1 DEF MidiValue
  <2>2. x + 1 \in 0..top \/ ~(x < top)
    OBVIOUS
  <2>3. v(0) = p.min
    BY <2>1
  <2>4. v(top) = p.max
    BY <2>1
  <2>5. v(x) \in {p.min, p.max}
    BY <2>1
  <2>6. x < top => v(x) <= v(x + 1)
    BY <2>1, <2>2 DEF IsRange
  <2> HIDE DEF v
  <2> QED
    BY <1>1, <2>3, <2>4, <2>5, <2>6 DEF v, Between, IsRange
<1>2. CASE ~p.toggle
  <2>1. IsPort(q) /\ Width(q) = Width(m) /\ q.min = m.min /\ q.max = m.max /\ q.integer = p.integer
    BY DEF IsPort, IsRange, Width
  <2>2. ASSUME NEW i \in 0..top
        PROVE  v(i) = IF i = 0 THEN m.min ELSE IF i >= top THEN m.max ELSE part(i)
    <3>1. Through(q, i, top) =
            LET y == m.min + ((i * Width(m)) \div top)
            IN  IF p.integer THEN Rounded(y) ELSE y
      <4> HIDE DEF q
      <4> QED
        BY <2>1 DEF Through
    <3> HIDE DEF q
    <3> QED
      BY <1>2, <3>1 DEF MidiValue
  <2> HIDE DEF q, v
  <2>3. \A i \in 0..top : part(i) \in Int /\ m.min <= part(i) /\ part(i) <= m.max
    BY <2>1, ThroughIs DEF Between
  <2>4. \A i, j \in 0..top : i <= j => part(i) <= part(j)
    BY <2>1, ThroughIs
  <2> HIDE DEF part
  <2>5. m.min \in Int /\ m.max \in Int /\ m.min < m.max
    BY DEF IsRange
  <2>6. v(0) = m.min /\ v(top) = m.max
    BY <2>2
  <2>7. m.min <= v(x) /\ v(x) <= m.max
    BY <2>2, <2>3, <2>5
  <2>8. ASSUME x < top PROVE v(x) <= v(x + 1)
    <3>1. x + 1 \in 0..top /\ x + 1 # 0 /\ x <= x + 1
      BY <2>8
    <3>2. v(x) = IF x = 0 THEN m.min ELSE part(x)
      BY <2>2, <2>8
    <3>3. v(x + 1) = IF x + 1 >= top THEN m.max ELSE part(x + 1)
      BY <2>2, <3>1
    <3>4. part(x) <= part(x + 1)
      BY <2>4, <3>1
    <3>5. part(x) <= m.max /\ m.min <= part(x + 1)
      BY <2>3, <3>1
    <3> QED
      BY <2>5, <3>2, <3>3, <3>4, <3>5
  <2> QED
    BY <1>2, <2>6, <2>7, <2>8 DEF Between, v
<1> QED
  BY <1>1, <1>2

-----------------------------------------------------------------------------
(* The mappings.                                                           *)

ConversionsInv ==
  \/ conversion \in [at : Int, map : CvMapping]
  \/ conversion \in [at : Nat, map : MidiMapping] /\ conversion.at <= conversion.map.top

LEMMA CvMappingIs ==
  ASSUME NEW c \in CvMapping
  PROVE  c.by = "cv" /\ IsPort(c.port) /\ IsSource(CvSource(c.source, c.mode))
<1>1. PICK p \in ControlPort :
        c \in [by : {"cv"}, source : CvOrigin, mode : {"=", "-", "+", "b"},
               port : {[min |-> m.min, max |-> m.max, toggle |-> p.toggle,
                        integer |-> p.integer] : m \in Mapping(p)}]
  BY DEF CvMapping
<1>2. PICK m \in Mapping(p) :
        c.port = [min |-> m.min, max |-> m.max, toggle |-> p.toggle, integer |-> p.integer]
  BY <1>1
<1>3. m.min \in Int /\ m.max \in Int /\ m.min < m.max
      /\ (p.integer => m.min % One = 0 /\ m.max % One = 0)
  BY ConversionsAssumption DEF Mapping, Limits
<1>4. IsPort(c.port)
  BY <1>2, <1>3, ControlPortIs DEF IsPort, IsRange
<1> QED
  BY <1>1, <1>4, CvSourceIs

LEMMA MidiMappingIs ==
  ASSUME NEW c \in MidiMapping
  PROVE  /\ c.by = "midi" /\ c.top \in Nat \ {0} /\ IsRange(c.port) /\ IsRange(c.limits)
         /\ c.port.toggle \in BOOLEAN /\ c.port.integer \in BOOLEAN
         /\ c.port.integer => c.limits.min % One = 0 /\ c.limits.max % One = 0
<1>1. PICK p \in ControlPort :
        c \in [by : {"midi"}, port : {p}, limits : Mapping(p), top : MidiTop]
  BY DEF MidiMapping
<1>2. c.by = "midi" /\ c.port = p /\ c.limits \in Mapping(p) /\ c.top \in MidiTop
  BY <1>1
<1>3. c.top \in Nat \ {0}
  <2> DEFINE top == c.top
  <2>1. top \in Nat /\ top % 2 = 1
    BY <1>2, ConversionsAssumption
  <2> HIDE DEF top
  <2>2. top # 0
    BY <2>1
  <2> QED
    BY <2>1, <2>2 DEF top
<1>4. IsRange(c.limits) /\ (p.integer => c.limits.min % One = 0 /\ c.limits.max % One = 0)
  BY <1>2, ConversionsAssumption DEF Mapping, Limits, IsRange
<1> QED
  BY <1>2, <1>3, <1>4, ControlPortIs

LEMMA ConversionsInitHolds ==
  ConversionsInit => ConversionsInv
<1> SUFFICES ASSUME ConversionsInit PROVE ConversionsInv
  OBVIOUS
<1>1. CASE \E c \in CvMapping : conversion = [at |-> -CvLevel, map |-> c]
  BY <1>1, ConversionsAssumption DEF ConversionsInv
<1>2. ASSUME NEW c \in MidiMapping, conversion = [at |-> 0, map |-> c] PROVE ConversionsInv
  BY <1>2, MidiMappingIs DEF ConversionsInv
<1> QED
  BY <1>1, <1>2 DEF ConversionsInit

LEMMA ConversionsKept ==
  ASSUME ConversionsInv, [ConversionsNext]_conversion
  PROVE  ConversionsInv'
<1>1. CASE RaiseCv
  <2>1. conversion \in [at : Int, map : CvMapping]
    BY <1>1, MidiMappingIs DEF ConversionsInv, RaiseCv
  <2>2. conversion' \in [at : Int, map : CvMapping]
    BY <1>1, <2>1, ConversionsAssumption DEF RaiseCv
  <2> QED
    BY <2>2 DEF ConversionsInv
<1>2. CASE RaiseMidi
  <2>1. conversion \in [at : Nat, map : MidiMapping]
    BY <1>2, CvMappingIs DEF ConversionsInv, RaiseMidi
  <2> DEFINE top == conversion.map.top
             next == (conversion.at + 1) % (top + 1)
  <2>2. top \in Nat \ {0}
    BY <2>1, MidiMappingIs
  <2>3. next \in 0..top
    <3> HIDE DEF top
    <3> QED
      BY <2>1, <2>2
  <2>4. conversion' = [conversion EXCEPT !.at = next]
    BY <1>2 DEF RaiseMidi
  <2> HIDE DEF next
  <2>5. conversion' \in [at : Nat, map : MidiMapping] /\ conversion'.at = next
        /\ conversion'.map.top = top
    BY <2>1, <2>2, <2>3, <2>4
  <2> QED
    BY <2>2, <2>3, <2>5 DEF ConversionsInv
<1> QED
  BY <1>1, <1>2 DEF ConversionsNext, ConversionsInv

(* For all ranges, limits, modes and levels: what a CV source or a         *)
(* controller makes of a parameter is in the range of its mapping, rises   *)
(* with it and gets to both ends (effects.c:2257, 2308, 2691, 8596).       *)
THEOREM ConversionsAreSound ==
  ConversionsSpec => []ConversionsSound
<1>1. ConversionsInv => ConversionsSound
  <2> SUFFICES ASSUME ConversionsInv PROVE ConversionsSound
    OBVIOUS
  <2> DEFINE c == conversion.map
             at == conversion.at
             s == CvSource(c.source, c.mode)
  <2>1. ASSUME c.by = "cv", Normal(c)
        PROVE  /\ Between(CvIn(c, at), c.port) /\ CvIn(c, at) <= CvIn(c, at + CvStep)
               /\ CvIn(c, s.range.min) = c.port.min /\ CvIn(c, s.range.max) = c.port.max
               /\ BypassIn(c, at) \in {c.port.min, c.port.max}
               /\ BypassIn(c, at) >= BypassIn(c, at + CvStep)
    <3>1. at \in Int /\ c \in CvMapping
      BY <2>1, MidiMappingIs DEF ConversionsInv
    <3>2. IsPort(c.port) /\ IsSource(s)
      BY <3>1, CvMappingIs
    <3>3. Width(s.range) <= s.diff
      BY <2>1 DEF Normal
    <3>4. at + CvStep \in Int /\ at <= at + CvStep
      BY <3>1, ConversionsAssumption
    <3> HIDE DEF at, s
    <3> QED
      BY <3>1, <3>2, <3>3, <3>4, CvIsSound DEF CvIn, BypassIn, s
  <2>2. ASSUME c.by = "midi", ~c.port.trigger
        PROVE  LET r == IF c.port.toggle THEN [min |-> c.port.min, max |-> c.port.max]
                        ELSE c.limits
               IN  /\ Between(MidiIn(c, at), r) /\ MidiIn(c, 0) = r.min
                   /\ MidiIn(c, c.top) = r.max
                   /\ at < c.top => MidiIn(c, at) <= MidiIn(c, at + 1)
    <3>1. at \in Nat /\ c \in MidiMapping /\ at <= c.top
      BY <2>2, CvMappingIs DEF ConversionsInv
    <3>2. /\ c.top \in Nat \ {0} /\ IsRange(c.port) /\ IsRange(c.limits)
          /\ c.port.toggle \in BOOLEAN /\ c.port.integer \in BOOLEAN
          /\ c.port.integer => c.limits.min % One = 0 /\ c.limits.max % One = 0
      BY <3>1, MidiMappingIs
    <3>3. at \in 0..c.top
      BY <3>1, <3>2
    <3> HIDE DEF at, c
    <3> QED
      BY <2>2, <3>2, <3>3, MidiIsSound DEF MidiIn
  <2> QED
    BY <2>1, <2>2 DEF ConversionsSound
<1> QED
  BY <1>1, ConversionsInitHolds, ConversionsKept, PTL DEF ConversionsSpec

=============================================================================
