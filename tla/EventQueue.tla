----------------------------- MODULE EventQueue -----------------------------
(***************************************************************************)
(* What the postponed-event pipeline of effects.c promises to the threads  *)
(* that report events: a first-in first-out queue.  Whatever number of     *)
(* producers append, and whichever of the two consumer threads takes the   *)
(* events off, none is lost, duplicated, altered or overtaken.             *)
(***************************************************************************)
EXTENDS Sequences

CONSTANT Message

VARIABLE queue      \* the events reported and not yet disposed of, oldest first

QueueInit == queue = <<>>

Put == \E m \in Message : queue' = Append(queue, m)

Get == queue # <<>> /\ queue' = Tail(queue)

QueueSpec == QueueInit /\ [][Put \/ Get]_queue
=============================================================================
