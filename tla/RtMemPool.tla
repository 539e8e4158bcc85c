------------------------------ MODULE RtMemPool ------------------------------
(***************************************************************************)
(* The realtime-safe memory pool of rtmempool/rtmempool.c.                 *)
(*                                                                         *)
(* A fixed set of nodes is allocated when the pool is created.  Each node  *)
(* is on one of two lists, `unused' and `used', and the two operations     *)
(* move one node across while they hold the pool's mutex, so each is one   *)
(* step here.  The nodes are interchangeable, so the lists are sets: the   *)
(* code takes the head of `unused', the model takes any of its nodes.      *)
(***************************************************************************)
CONSTANT Node       \* the nodes that rtsafe_memory_pool_create could allocate

VARIABLES unused,   \* nodes on poolPtr->unused
          used      \* nodes on poolPtr->used

poolVars == <<unused, used>>

PoolTypeOK == /\ unused \subseteq Node
              /\ used \subseteq Node

(* Every node starts on the unused list.  Allocation of the nodes stops at *)
(* the first malloc that fails, so Node is what was obtained.              *)
PoolInit == /\ unused = Node
            /\ used = {}

(* rtsafe_memory_pool_allocate_atomic returns node n.  When there is no    *)
(* unused node it returns NULL and changes nothing.                        *)
AllocateAtomic(n) == /\ n \in unused
                     /\ unused' = unused \ {n}
                     /\ used' = used \cup {n}

(* rtsafe_memory_pool_deallocate of node n: list_del unlinks the node from *)
(* whatever list it is on, so nothing guards the operation.  That the *)
(* caller owns the node is part of NodesAccounted in module PostEvents.    *)
Deallocate(n) == /\ unused' = unused \cup {n}
                 /\ used' = used \ {n}

=============================================================================
