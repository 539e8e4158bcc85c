---------------------------- MODULE Assignments -----------------------------
(***************************************************************************)
(* Control Chain assignments: g_assignments_list, written by the commands  *)
(* cc_map, cc_unmap and the removals, read by CCDataUpdate, which the      *)
(* Control Chain library calls on a thread of its own when an actuator     *)
(* moves.  The library (external) numbers the assignments of a device with *)
(* the lowest free ids, which the list's end mark relies on; a foot switch *)
(* with two sides gets a pair of them.                                     *)
(***************************************************************************)
EXTENDS Integers, FiniteSetsExt

CONSTANTS
  CcEffect,   \* the instance numbers in use; 0 is what a cleared slot says
  CcSymbol,   \* the symbols of their control ports
  CcDevice,   \* the devices, numbers below CC_MAX_DEVICES
  CcMax       \* CC_MAX_ASSIGNMENTS

ASSUME AssignmentsAssumption == CcEffect \subseteq Nat /\ CcDevice \subseteq Nat /\ CcMax \in Nat

VARIABLES
  cc_present,   \* the effects that exist
  cc_list,      \* g_assignments_list
  cc_held,      \* the assignments the library has
  cc_task,      \* the command under way
  cc_update     \* the update the library's thread works on

ccVars == <<cc_present, cc_list, cc_held, cc_task, cc_update>>

CcId == 0..(CcMax - 1)
SlotUnused == -1
SlotNull == -2
NoPort == <<>>
CcPorts == CcEffect \X CcSymbol

Vacant(mark) == [effect |-> mark, port |-> NoPort, pair |-> -1]
Zeroed == [effect |-> 0, port |-> NoPort, pair |-> 0]

CcIdle == [does |-> "nothing"]
NoUpdate == [at |-> "idle"]

AssignmentsInit ==
  /\ cc_present = {} /\ cc_held = {} /\ cc_task = CcIdle /\ cc_update = NoUpdate
  /\ cc_list = [d \in CcDevice |-> [i \in CcId |-> Vacant(SlotNull)]]

(* What follows the end mark is not looked at.                             *)
Visible(d) == {i \in CcId : \A j \in 0..i : cc_list[d][j].effect # SlotNull}

(* The order in which a loop over the devices and their slots meets them,  *)
(* and the slot of a port that it meets first.                             *)
Rank(x) == x[1] * CcMax + x[2]

FirstSlot(e, s) ==
  LET slots == UNION {{<<d, i>> : i \in {j \in Visible(d) : /\ cc_list[d][j].effect = e
                                                            /\ cc_list[d][j].port # NoPort
                                                            /\ cc_list[d][j].port[2] = s}} :
                      d \in CcDevice}
  IN {x \in slots : \A y \in slots : Rank(x) <= Rank(y)}

Released(d, ids) ==
  {h \in cc_held : h.device = d /\ ({h.id, h.pair} \cap ids) \ {-1} # {}}

(* Ghost: a slot that changes under an update spoils the update.           *)
Touch(d, ids) ==
  cc_update' = IF cc_update.at \in {"sent", "port", "effect"} /\ cc_update.device = d
                  /\ cc_update.id \in ids
               THEN [cc_update EXCEPT !.spoiled = TRUE] ELSE cc_update

-----------------------------------------------------------------------------
(* effects_add.                                                            *)
AddAssignable(e) ==
  /\ cc_task = CcIdle /\ e \notin cc_present
  /\ cc_present' = cc_present \union {e} /\ UNCHANGED <<cc_list, cc_held, cc_task, cc_update>>

(* External: cc_client_assignment.  The library refuses, or gives the      *)
(* lowest ids that are free; from now on the actuator sends updates.       *)
FreeIds(d) ==
  CcId \ UNION {{h.id, h.pair} : h \in {g \in cc_held : g.device = d}}

CcRequest(e, s, d, paired) ==
  LET free == FreeIds(d)
      id == Min(free)
      pair == IF paired THEN Min(free \ {id}) ELSE -1
  IN /\ cc_task = CcIdle /\ e \in cc_present
     /\ Cardinality(free) > (IF paired THEN 1 ELSE 0)
     /\ cc_held' = cc_held \union {[device |-> d, id |-> id, pair |-> pair, port |-> <<e, s>>]}
     /\ cc_task' = [does |-> "item", device |-> d, id |-> id, pair |-> pair, port |-> <<e, s>>]
     /\ UNCHANGED <<cc_present, cc_list, cc_update>>

Recorded(port, pair) == [effect |-> port[1], port |-> port, pair |-> pair]

(* The first slot is written, then the device is asked for its version,    *)
(* then the slot of the pair.                                              *)
CcRecord ==
  /\ cc_task.does = "item"
  /\ cc_list' = [cc_list EXCEPT ![cc_task.device][cc_task.id] =
                                   Recorded(cc_task.port, cc_task.pair)]
  /\ cc_task' = IF cc_task.pair = -1 THEN CcIdle ELSE [cc_task EXCEPT !.does = "pair"]
  /\ Touch(cc_task.device, {cc_task.id}) /\ UNCHANGED <<cc_present, cc_held>>

CcRecordPair ==
  /\ cc_task.does = "pair"
  /\ cc_list' = [cc_list EXCEPT ![cc_task.device][cc_task.pair] =
                                   Recorded(cc_task.port, cc_task.id)]
  /\ cc_task' = CcIdle
  /\ Touch(cc_task.device, {cc_task.pair}) /\ UNCHANGED <<cc_present, cc_held>>

-----------------------------------------------------------------------------
(* Clearing a slot: it is zeroed, then marked unused.  "slots" are the     *)
(* ones to clear, in their order; afterwards the ids of "key" are          *)
(* unassigned and the effects "gone" are freed.                            *)
Clearing(slots, key, gone) == [does |-> "zero", slots |-> slots, key |-> key, gone |-> gone]

(* Wrong: the slot of the pair stays.                                      *)
CcUnmapOneSide(e, s) ==
  \E x \in FirstSlot(e, s) :
    /\ cc_task = CcIdle /\ e \in cc_present
    /\ cc_task' = Clearing({x}, {x[2], cc_list[x[1]][x[2]].pair}, {})
    /\ UNCHANGED <<cc_present, cc_list, cc_held, cc_update>>

(* effects_cc_unmap: both slots are cleared before the library hears of it.*)
CcUnmap(e, s) ==
  \E x \in FirstSlot(e, s) :
    /\ cc_task = CcIdle /\ e \in cc_present
    /\ LET pair == cc_list[x[1]][x[2]].pair
       IN cc_task' = Clearing(IF pair = -1 THEN {x} ELSE {x, <<x[1], pair>>}, {x[2], pair}, {})
    /\ UNCHANGED <<cc_present, cc_list, cc_held, cc_update>>

(* effects_remove of one effect: every slot of it is unassigned with the   *)
(* key it holds and cleared, so that a pair is unassigned twice.           *)
CcRemove(e) ==
  LET slots == UNION {{<<d, i>> : i \in {j \in Visible(d) : cc_list[d][j].effect = e}} :
                      d \in CcDevice}
  IN /\ cc_task = CcIdle /\ e \in cc_present
     /\ cc_present' = IF slots = {} THEN cc_present \ {e} ELSE cc_present
     /\ cc_held' = cc_held \ UNION {Released(x[1], {x[2], cc_list[x[1]][x[2]].pair}) : x \in slots}
     /\ cc_task' = IF slots = {} THEN CcIdle
                   ELSE Clearing(slots, {}, {e})
     /\ UNCHANGED <<cc_list, cc_update>>

NextSlot == CHOOSE x \in cc_task.slots : \A y \in cc_task.slots : Rank(x) <= Rank(y)

ZeroSlot ==
  LET x == NextSlot
  IN /\ cc_task.does = "zero"
     /\ cc_list' = [cc_list EXCEPT ![x[1]][x[2]] = Zeroed]
     /\ cc_task' = [cc_task EXCEPT !.does = "mark"]
     /\ Touch(x[1], {x[2]}) /\ UNCHANGED <<cc_present, cc_held>>

MarkSlot ==
  LET x == NextSlot
      last == cc_task.slots = {x}
  IN /\ cc_task.does = "mark"
     /\ cc_list' = [cc_list EXCEPT ![x[1]][x[2]] = Vacant(SlotUnused)]
     /\ cc_held' = IF last THEN cc_held \ Released(x[1], cc_task.key) ELSE cc_held
     /\ cc_task' = IF last THEN CcIdle ELSE Clearing(cc_task.slots \ {x}, cc_task.key, cc_task.gone)
     /\ cc_present' = IF last THEN cc_present \ cc_task.gone ELSE cc_present
     /\ UNCHANGED cc_update

(* remove -1: everything is unassigned, the list zeroed and then marked as *)
(* never used.                                                             *)
CcRemoveAll ==
  /\ cc_task = CcIdle
  /\ cc_held' = cc_held \ UNION {Released(d, UNION {{i, cc_list[d][i].pair} :
                                   i \in {j \in Visible(d) : cc_list[d][j].effect # SlotUnused}}) :
                                 d \in CcDevice}
  /\ cc_list' = [d \in CcDevice |-> [i \in CcId |-> Zeroed]]
  /\ cc_task' = [does |-> "reset"]
  /\ cc_update' = IF "spoiled" \in DOMAIN cc_update THEN [cc_update EXCEPT !.spoiled = TRUE]
                  ELSE cc_update
  /\ UNCHANGED cc_present

CcReset ==
  /\ cc_task.does = "reset" /\ cc_task' = CcIdle
  /\ cc_list' = [d \in CcDevice |-> [i \in CcId |-> Vacant(SlotNull)]]
  /\ cc_present' = {} /\ UNCHANGED <<cc_held, cc_update>>

(* effects_cc_value_set names the first slot found to the library.         *)
CcValueSet(e, s) ==
  \E x \in FirstSlot(e, s) :
    /\ cc_task = CcIdle /\ e \in cc_present
    /\ cc_task' = [does |-> "value", device |-> x[1], id |-> x[2], port |-> <<e, s>>]
    /\ UNCHANGED <<cc_present, cc_list, cc_held, cc_update>>

CcValueSent ==
  /\ cc_task.does = "value" /\ cc_task' = CcIdle
  /\ UNCHANGED <<cc_present, cc_list, cc_held, cc_update>>

-----------------------------------------------------------------------------
(* CCDataUpdate.                                                           *)

(* External: an actuator moves, and the library will call with its id.     *)
ActuatorMoves(h) ==
  /\ cc_update.at \in {"idle", "done"} /\ h \in cc_held
  /\ \E i \in {h.id, h.pair} \ {-1} :
       cc_update' = [at |-> "sent", device |-> h.device, id |-> i, meant |-> h.port,
                     spoiled |-> FALSE]
  /\ UNCHANGED <<cc_present, cc_list, cc_held, cc_task>>

UpdateSlot == cc_list[cc_update.device][cc_update.id]

(* The port is tested here and read again for the symbol and the call; a   *)
(* slot zeroed in between is a NULL dereference, which ends the program.   *)
UpdateCheck ==
  /\ cc_update.at = "sent"
  /\ cc_update' = IF UpdateSlot.port = NoPort THEN NoUpdate ELSE [cc_update EXCEPT !.at = "port"]
  /\ UNCHANGED <<cc_present, cc_list, cc_held, cc_task>>

UpdatePort ==
  /\ cc_update.at = "port"
  /\ cc_update' = IF UpdateSlot.port = NoPort THEN [cc_update EXCEPT !.at = "crashed"]
                  ELSE [at |-> "effect", device |-> cc_update.device, id |-> cc_update.id,
                        meant |-> cc_update.meant, spoiled |-> cc_update.spoiled,
                        port |-> UpdateSlot.port]
  /\ UNCHANGED <<cc_present, cc_list, cc_held, cc_task>>

(* A value that the port has already is ignored, any other one is set and  *)
(* reported as one of the effect the slot names now.                       *)
UpdateApply ==
  /\ cc_update.at = "effect"
  /\ \/ cc_update' = NoUpdate
     \/ cc_update' = [at |-> "done", port |-> cc_update.port, effect |-> UpdateSlot.effect,
                      meant |-> cc_update.meant, spoiled |-> cc_update.spoiled,
                      present |-> cc_update.port[1] \in cc_present]
  /\ UNCHANGED <<cc_present, cc_list, cc_held, cc_task>>

AssignmentsNext ==
  \/ cc_update.at = "crashed" /\ UNCHANGED ccVars
  \/ /\ cc_update.at # "crashed"
     /\ \/ \E e \in CcEffect : AddAssignable(e) \/ CcRemove(e)
        \/ \E e \in CcEffect, s \in CcSymbol, d \in CcDevice, p \in BOOLEAN : CcRequest(e, s, d, p)
        \/ \E e \in CcEffect, s \in CcSymbol : CcUnmap(e, s) \/ CcValueSet(e, s)
        \/ CcRecord \/ CcRecordPair \/ ZeroSlot \/ MarkSlot \/ CcRemoveAll \/ CcReset
        \/ CcValueSent
        \/ \E h \in cc_held : ActuatorMoves(h)
        \/ UpdateCheck \/ UpdatePort \/ UpdateApply

-----------------------------------------------------------------------------
(* Between two commands the list and the library agree: a slot is in use   *)
(* exactly when the library has an assignment of its id, for the same port *)
(* and with the same pair, of an effect that exists, and before the end    *)
(* mark, so that every later command finds it.  A value goes out only with *)
(* an id the library has for that port.  And an update whose slot no       *)
(* command touched on its way sets the port its actuator was assigned to,  *)
(* in the name of the port's own effect, which is still there              *)
(* (effects.c:4269, 6249, 6372, 8330, 8471).                               *)
AssignmentsSound ==
  /\ cc_task = CcIdle =>
       /\ \A d \in CcDevice, i \in CcId :
            cc_list[d][i].effect >= 0 =>
              /\ i \in Visible(d) /\ cc_list[d][i].effect \in cc_present
              /\ cc_list[d][i].port[1] = cc_list[d][i].effect
              /\ \E h \in cc_held : /\ h.device = d /\ h.port = cc_list[d][i].port
                                    /\ <<i, cc_list[d][i].pair>> \in {<<h.id, h.pair>>,
                                                                     <<h.pair, h.id>>}
       /\ \A h \in cc_held : \A i \in {h.id, h.pair} \ {-1} : cc_list[h.device][i].effect >= 0
  /\ cc_task.does = "value" =>
       \E h \in cc_held : h.device = cc_task.device /\ cc_task.id \in {h.id, h.pair}
                          /\ h.port = cc_task.port
  /\ cc_update.at = "done" /\ ~cc_update.spoiled =>
       cc_update.port = cc_update.meant /\ cc_update.effect = cc_update.port[1]
       /\ cc_update.present

=============================================================================
