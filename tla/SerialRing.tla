---------------------------- MODULE SerialRing -----------------------------
(***************************************************************************)
(* One channel of the shared memory between mod-host and the HMI service:  *)
(* sys_serial_write and sys_serial_read, byte by byte.  One process writes *)
(* (under g_hmi_mutex, in mod-host), the other reads after each post of    *)
(* the semaphore.  The channel to the service has a page and a subpage in  *)
(* each event (paged), the one from it has not.                            *)
(***************************************************************************)
EXTENDS Integers, Sequences

CONSTANTS
  ShmSize,      \* SYS_SERIAL_SHM_DATA_SIZE
  TextMax,      \* the longest text that is written
  SpecialType   \* the byte of the event type

ASSUME SerialRingAssumption ==
  ShmSize \in Nat \ {0} /\ TextMax \in Nat /\ SpecialType \in Nat \ {0, 1}

VARIABLES
  paged,        \* which of the two channels it is
  buffer, head, tail,
  sem,          \* the semaphore
  writer,       \* idle, or the head it is about to store
  reader,       \* idle, or the event it has read and the tail it is about to store
  sent_events   \* ghost: the events that are written and not yet read

serialVars == <<paged, buffer, head, tail, sem, writer, reader, sent_events>>

Cell == 0..(ShmSize - 1)
Around(n) == n % ShmSize

(* An event, and the bytes it takes.  Texts are told apart by their length,*)
(* events of the same length by their page.                                *)
Event == [page : IF paged THEN {0, 1} ELSE {0}, text : 0..TextMax]
Bytes(e) ==
  <<SpecialType>> \o (IF paged THEN <<e.page, 0>> ELSE <<>>) \o [i \in 1..e.text |-> 1] \o <<0>>

SerialInit ==
  /\ paged \in BOOLEAN
  /\ buffer = [c \in Cell |-> 0] /\ head = 0 /\ tail = 0 /\ sem = 0
  /\ writer = {} /\ reader = {} /\ sent_events = <<>>

-----------------------------------------------------------------------------
(* sys_serial_write.                                                       *)

Room == (IF tail > head THEN 0 ELSE ShmSize) + tail - head

(* Wrong: an event that fills the ring makes it look empty.                *)
FitsExactly(size) == size <= Room

Fits(size) == size < Room

(* The bytes are in the buffer before the head is stored.                  *)
WriteEvent(e) ==
  LET bytes == Bytes(e)
  IN  /\ writer = {} /\ e.text < ShmSize /\ (paged \/ e.text > 0)
      /\ Fits(Len(bytes))
      /\ buffer' = [c \in Cell |->
           LET i == Around(c - head + ShmSize)
           IN  IF i < Len(bytes) THEN bytes[i + 1] ELSE buffer[c]]
      /\ writer' = {Around(head + Len(bytes))}
      /\ sent_events' = Append(sent_events, e)
      /\ UNCHANGED <<paged, head, tail, sem, reader>>

WriteDone ==
  /\ writer # {} /\ writer' = {}
  /\ head' \in writer /\ sem' = sem + 1
  /\ UNCHANGED <<paged, buffer, tail, reader, sent_events>>

-----------------------------------------------------------------------------
(* sys_serial_read.                                                        *)

(* The bytes from the cell c on, as far as a 0 or the head; the whole ring *)
(* if there is neither.                                                    *)
Text(c) ==
  LET byte(i) == buffer[Around(c + i)]
      ends == {i \in 0..(ShmSize - 1) : byte(i) = 0 \/ Around(c + i) = head}
      last == IF ends = {} THEN ShmSize ELSE CHOOSE i \in ends : \A j \in ends : i <= j
  IN  [length |-> last, complete |-> ends # {} /\ byte(last) = 0]

(* What is read, and where the tail goes then: behind an event, to the     *)
(* head if it has no end, to the next byte if it has no type.              *)
ReadEvent ==
  LET skip == IF paged THEN 3 ELSE 1
      text == Text(Around(tail + skip))
      got  == CASE head = tail                                          -> "nothing"
                [] head # tail /\ buffer[tail] # SpecialType            -> "no type"
                [] head # tail /\ buffer[tail] = SpecialType            ->
                     IF text.complete THEN "event" ELSE "no end"
  IN  /\ reader = {} /\ sem > 0 /\ sem' = sem - 1
      /\ reader' = {[got |-> got, text |-> text.length,
                     page |-> IF paged THEN buffer[Around(tail + 1)] ELSE 0,
                     tail |-> CASE got = "nothing" -> tail
                                [] got = "no type" -> tail + 1
                                [] got = "no end"  -> head
                                [] got = "event"   -> Around(tail + skip + text.length + 1)]}
      /\ UNCHANGED <<paged, buffer, head, tail, writer, sent_events>>

ReadEnd ==
  /\ reader # {} /\ reader' = {}
  /\ tail' \in {r.tail : r \in reader}
  /\ sent_events' = IF sent_events = <<>> THEN <<>> ELSE Tail(sent_events)
  /\ UNCHANGED <<paged, buffer, head, sem, writer>>

SerialNext == (\E e \in Event : WriteEvent(e)) \/ WriteDone \/ ReadEvent \/ ReadEnd

SerialSpec == SerialInit /\ [][SerialNext]_serialVars

-----------------------------------------------------------------------------
(* Properties.                                                             *)

(* How many bytes the first k of the events take, as a function of k.      *)
Ends(events) ==
  LET ends[k \in 0..Len(events)] ==
        IF k = 0 THEN 0 ELSE ends[k - 1] + Len(Bytes(events[k]))
  IN  ends

(* The reader gets each event as it was written, in order, wherever the    *)
(* ends of the buffer fall, also while the next one is written; there are  *)
(* as many posts as events, and as many bytes as they take.                *)
SerialInOrder ==
  /\ head \in Cell /\ tail \in Cell
  /\ \A r \in reader :
       /\ r.got = "event" /\ sent_events # <<>>
       /\ [page |-> r.page, text |-> r.text] = Head(sent_events)
  /\ sem + (IF writer # {} THEN 1 ELSE 0) + (IF reader # {} THEN 1 ELSE 0) = Len(sent_events)
  /\ LET end == IF writer = {} THEN head ELSE CHOOSE h \in writer : TRUE
     IN  Around(end - tail + ShmSize) = Ends(sent_events)[Len(sent_events)]
=============================================================================
