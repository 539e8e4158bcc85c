--------------------------- MODULE PropertyRings ---------------------------
(***************************************************************************)
(* The two rings by which one effect exchanges properties (patch:Set) with *)
(* the client.                                                             *)
(*                                                                         *)
(* events_out_buffer: ProcessPlugin writes each value the plugin sets, key *)
(* first and the atom then, and queues an event; RunPostPonedEvents reads  *)
(* the ring when it finds such an event.  events_in_buffer: the commands   *)
(* patch_set and patch_get write whole atoms, the next cycle reads them.   *)
(*                                                                         *)
(* JACK's ring buffers are external: one reader and one writer, a write is *)
(* seen whole or not at all, and is cut off where the ring is full.  What  *)
(* the forge makes of the words of a patch_set is in Forged.               *)
(***************************************************************************)
EXTENDS Integers, SequencesExt

CONSTANTS
  RingRoom,     \* units that fit into a ring: a key, a header and a body are one each
  ValueMax      \* a bound on the values the plugin sets, numbered as they come

ASSUME PropertyRingsAssumption == RingRoom \in Nat /\ ValueMax \in Nat

VARIABLES
  out_ring,     \* events_out_buffer, unit by unit
  written,      \* the number of values the plugin has set
  writing,      \* what ProcessPlugin does: its label, the value it has
  pending,      \* the number of PROCESS_OUTPUT_BUFFER events in the list
  reading,      \* what RunPostPonedEvents does, and the space it has seen left
  sent,         \* the values the client was sent
  stranded,     \* ghost: an event was dropped since the ring was last empty
  split,        \* ghost: a read came between a key and its atom
  in_ring,      \* events_in_buffer, unit by unit
  in_left,      \* what the cycle has still to read of it
  hangs,        \* the command thread is in a loop that does not end
  cut           \* ghost: a patch_get was cut off

outVars  == <<out_ring, written, writing, pending, reading, sent, stranded, split>>
inVars   == <<in_ring, in_left, hangs, cut>>
ringVars == <<outVars, inVars>>

Key(v)  == [part |-> "key", of |-> v]
Atom(v) == <<[part |-> "head", of |-> v], [part |-> "body", of |-> v]>>

(* A ring that holds whole atoms from the client.                          *)
Whole(s) ==
  \E n \in 0..Len(s) :
    Len(s) = 2 * n /\ \A i \in 1..n : SubSeq(s, 2 * i - 1, 2 * i) = Atom("in")

(* What a write leaves in a ring that need not have room for it.           *)
CutOff(s) == IF Len(s) <= RingRoom THEN s ELSE SubSeq(s, 1, RingRoom)

Unit == [part : {"key", "head", "body"}, of : 1..ValueMax]

RingsTypeOK ==
  /\ out_ring \in Seq(Unit) /\ Len(out_ring) <= RingRoom
  /\ written \in 0..ValueMax
  /\ writing \in {"idle", "atom", "event"}
  /\ pending \in 0..ValueMax
  /\ reading \in [at : {"idle", "batch"}, left : {0}] \cup [at : {"ring"}, left : Int]
  /\ sent \in Seq(1..ValueMax)
  /\ stranded \in BOOLEAN /\ split \in BOOLEAN
  /\ Len(in_ring) <= RingRoom /\ in_left \in 0..RingRoom
  /\ hangs \in BOOLEAN /\ cut \in BOOLEAN

Reader(label) == [at |-> label, left |-> 0]

RingsInit ==
  /\ out_ring = <<>> /\ written = 0 /\ writing = "idle" /\ pending = 0
  /\ reading = Reader("idle") /\ sent = <<>> /\ stranded = FALSE /\ split = FALSE
  /\ in_ring = <<>> /\ in_left = 0 /\ hangs = FALSE /\ cut = FALSE

-----------------------------------------------------------------------------
(* ProcessPlugin.  A value for which there is no room is dropped, and so,  *)
(* by the bound, is one more than ValueMax.                                *)

DropValue ==
  /\ writing = "idle" /\ (Len(out_ring) + 3 > RingRoom \/ written = ValueMax)
  /\ UNCHANGED ringVars

WriteKey ==
  /\ writing = "idle" /\ written < ValueMax /\ Len(out_ring) + 3 <= RingRoom
  /\ written' = written + 1 /\ writing' = "atom"
  /\ out_ring' = Append(out_ring, Key(written + 1))
  /\ UNCHANGED <<pending, reading, sent, stranded, split, inVars>>

WriteAtom ==
  /\ writing = "atom" /\ writing' = "event"
  /\ out_ring' = out_ring \o Atom(written)
  /\ UNCHANGED <<written, pending, reading, sent, stranded, split, inVars>>

(* Wrong: no event is queued while the ring is read.                       *)
QueueUnlessRead ==
  /\ writing = "event" /\ writing' = "idle"
  /\ pending' = IF reading.at = "ring" THEN pending ELSE pending + 1
  /\ UNCHANGED <<out_ring, written, reading, sent, stranded, split, inVars>>

(* The event, for which the pool may have no node.                         *)
QueueOutput ==
  /\ writing = "event" /\ writing' = "idle"
  /\ \/ pending' = pending + 1 /\ UNCHANGED stranded
     \/ stranded' = (stranded \/ out_ring # <<>>) /\ UNCHANGED pending
  /\ UNCHANGED <<out_ring, written, reading, sent, split, inVars>>

-----------------------------------------------------------------------------
(* RunPostPonedEvents, in the feedback thread or in a command that flushes *)
(* (only one at a time, see PostEvents).                                   *)

TakeOutputs ==
  /\ reading.at = "idle" /\ pending > 0
  /\ pending' = 0 /\ reading' = Reader("batch")
  /\ UNCHANGED <<out_ring, written, writing, sent, stranded, split, inVars>>

(* A flush that ignores the effect, for monitor_output_off or a removal.   *)
FlushOutputs ==
  /\ reading.at = "idle" /\ pending > 0
  /\ pending' = 0
  /\ stranded' = (stranded \/ out_ring # <<>>)
  /\ UNCHANGED <<out_ring, written, writing, reading, sent, split, inVars>>

(* The newest event of the effect makes it read the ring, as far as it has *)
(* been written by now; the older ones are skipped.                        *)
ReadSpace ==
  /\ reading.at = "batch"
  /\ reading' = [at |-> "ring", left |-> Len(out_ring)]
  /\ UNCHANGED <<out_ring, written, writing, pending, sent, stranded, split, inVars>>

(* One value: key, header and body.  When only the key is there, the       *)
(* header and the size are those of the value before, or garbage.  From    *)
(* then on the ring is read at the wrong places; the sizes read there are  *)
(* not followed.                                                           *)
ReadValue ==
  /\ reading.at = "ring" /\ reading.left > 0
  /\ reading' = [reading EXCEPT !.left = @ - 3]
  /\ IF Len(out_ring) >= 3
     THEN /\ sent' = Append(sent, out_ring[1].of)
          /\ out_ring' = SubSeq(out_ring, 4, Len(out_ring))
          /\ UNCHANGED split
     ELSE out_ring' = <<>> /\ split' = TRUE /\ UNCHANGED sent
  /\ stranded' = (stranded /\ out_ring' # <<>>)
  /\ UNCHANGED <<written, writing, pending, inVars>>

ReadDone ==
  /\ reading.at = "ring" /\ reading.left <= 0
  /\ reading' = Reader("idle")
  /\ UNCHANGED <<out_ring, written, writing, pending, sent, stranded, split, inVars>>

-----------------------------------------------------------------------------
(* lv2_atom_forge_property_set, of a vector.  The words of a patch_set are *)
(* the number of elements, their type, and the elements after the second   *)
(* "-", with ":" between them.  The loop that counts the elements goes     *)
(* from a ":" to the next, which is the one it is at: it ends for a single *)
(* element only.                                                           *)

Forged(number, elements) ==
  CASE elements > 1 -> "forever"
    [] elements = 1 /\ number # 1 -> "refused"
    [] OTHER -> "forged"

-----------------------------------------------------------------------------
(* events_in_buffer.                                                       *)

(* effects_set_property: the atom is written if it fits.                   *)
WriteProperty ==
  /\ ~hangs /\ Len(in_ring) + 2 <= RingRoom
  /\ in_ring' = in_ring \o Atom("in")
  /\ UNCHANGED <<in_left, hangs, cut, outVars>>

(* A scalar, for which the forge writes what atoi and the like make of it. *)
SetProperty == WriteProperty

SetVector(number, elements) ==
  \/ Forged(number, elements) = "forged" /\ WriteProperty
  \/ /\ Forged(number, elements) = "forever" /\ ~hangs /\ hangs' = TRUE
     /\ UNCHANGED <<in_ring, in_left, cut, outVars>>

(* effects_get_property does not look whether it fits.                     *)
GetProperty ==
  /\ ~hangs
  /\ in_ring' = CutOff(in_ring \o Atom("in"))
  /\ cut' = (cut \/ Len(in_ring) + 2 > RingRoom)
  /\ UNCHANGED <<in_left, hangs, outVars>>

(* The cycle looks how much there is, and reads atom by atom.  After a cut *)
(* it takes what comes next for the rest of the atom.                      *)
LookForProperties ==
  /\ in_left = 0 /\ in_ring # <<>> /\ in_left' = Len(in_ring)
  /\ UNCHANGED <<in_ring, hangs, cut, outVars>>

ReadProperty ==
  /\ in_left > 0
  /\ in_ring' = SubSeq(in_ring, 3, Len(in_ring))
  /\ in_left' = IF in_left > 2 THEN in_left - 2 ELSE 0
  /\ UNCHANGED <<hangs, cut, outVars>>

RingsNext ==
  \/ DropValue \/ WriteKey \/ WriteAtom \/ QueueOutput
  \/ TakeOutputs \/ FlushOutputs \/ ReadSpace \/ ReadValue \/ ReadDone
  \/ SetProperty \/ GetProperty \/ LookForProperties \/ ReadProperty
  \/ \E number, elements \in 1..2 : SetVector(number, elements)

-----------------------------------------------------------------------------
(* Properties.                                                             *)

(* A value in the ring is read: there is an event for it, or a reader who  *)
(* has not yet looked at how much there is, or one who reads it now.       *)
(* Values are stranded when the pool was empty or a flush dropped the      *)
(* event.  Values are sent once and in order, and the client's properties  *)
(* reach the plugin whole, while no read split a value and no patch_get    *)
(* met a full ring.                                                        *)
OutputsNotStranded ==
  /\ RingsTypeOK
  /\ writing = "idle" /\ out_ring # <<>> /\ ~stranded /\ ~split =>
       pending > 0 \/ reading.at = "batch" \/ reading.left >= Len(out_ring)
  /\ ~split => IsPrefix(sent, [i \in 1..written |-> i])
  /\ ~cut => Whole(in_ring)

(* A vector is a "string format as: ${num_elems}-${value_type_char}-       *)
(* ${data:separated:by:colon}" (the comment in the forge), so that one of  *)
(* two elements is set or refused.  Not so: the command never returns.     *)
VectorsAreSet == ~hangs
=============================================================================
