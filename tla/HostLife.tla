------------------------------ MODULE HostLife ------------------------------
(***************************************************************************)
(* The life of the host: effects_init with its error exits, socket_start,  *)
(* and effects_finish, as a program of its own or as an internal client of *)
(* JACK.  Every step makes or frees what other threads use, and starts or  *)
(* stops such threads; an exit on an error undoes what its code undoes.    *)
(***************************************************************************)
EXTENDS Naturals, FiniteSets

VARIABLES
  internal,   \* jack_initialize: the client belongs to JACK
  made,       \* what exists
  alive,      \* the threads that run
  life        \* the step that comes next, or how the life ended

hostVars == <<internal, made, alive, life>>

(* What each thread touches while it runs.  The cycle stands for the       *)
(* process callback of the global client and for its other callbacks.      *)
Needs == [feedback |-> {"pool", "locks"},
          cycle |-> {"client", "ports", "pool", "locks", "globals"},
          hmi |-> {"channel"},
          monitor |-> {"monitor client"},
          control_chain |-> {"pool", "locks"}]

HostInit ==
  /\ internal \in BOOLEAN /\ made = (IF internal THEN {"client"} ELSE {}) /\ alive = {}
  /\ life = "open client"

Make(things, starts, next) ==
  /\ made' = made \union things /\ alive' = alive \union starts /\ life' = next
  /\ UNCHANGED internal

(* An error exit closes the client unless it is JACK's; "closes" is        *)
(* whether its code does so at all.                                        *)
Fail(closes) ==
  /\ made' = IF closes /\ ~internal THEN made \ {"client"} ELSE made
  /\ life' = "failed" /\ UNCHANGED <<internal, alive>>

-----------------------------------------------------------------------------
(* effects_init.                                                           *)

OpenClient ==
  /\ life = "open client"
  /\ \/ Make({"client"}, {}, "register ports")
     \/ ~internal /\ Fail(FALSE)

RegisterPorts ==
  /\ life = "register ports"
  /\ Make({"ports"}, {}, "open monitor") \/ Fail(TRUE)

(* Only a client that is called mod-host opens the monitor client; when    *)
(* that fails the client stays open.                                       *)
OpenMonitor ==
  /\ life = "open monitor"
  /\ \/ Make({"monitor client"}, {"monitor"}, "create pool")
     \/ Make({}, {}, "create pool")
     \/ Fail(FALSE)

CreatePool ==
  /\ life = "create pool"
  /\ Make({"pool"}, {}, "init locks") \/ Fail(TRUE)

InitLocks == life = "init locks" /\ Make({"locks"}, {}, "make globals")

(* The three ports of the transport, as ports of the effect 9995.          *)
MakeGlobals == life = "make globals" /\ Make({"globals"}, {}, "load world")

LoadWorld == life = "load world" /\ Make({"world"}, {}, "make symap")

MakeSymap == life = "make symap" /\ Make({"symap"}, {}, "open hmi")

(* An internal client only, and a failure is survived.                     *)
OpenHmi ==
  /\ life = "open hmi"
  /\ \/ internal /\ Make({"channel"}, {"hmi"}, "start feedback")
     \/ Make({}, {}, "start feedback")

StartFeedback == life = "start feedback" /\ Make({}, {"feedback"}, "activate")

Activate ==
  /\ life = "activate"
  /\ Make({}, {"cycle"}, "start socket") \/ Fail(TRUE)

(* mod_host_init goes on with socket_start, and undoes nothing.            *)
StartSocket ==
  /\ life = "start socket"
  /\ Make({"socket"}, {}, "running") \/ Fail(FALSE)

(* The first cc_map connects to the Control Chain daemon.                  *)
OpenControlChain ==
  /\ life = "running" /\ "control chain" \notin made
  /\ Make({"control chain"}, {"control_chain"}, "running")

-----------------------------------------------------------------------------
(* effects_finish.  JACK (external) stops the cycles of an internal client *)
(* before it calls jack_finish.                                            *)

Discard(things, stops, next) ==
  /\ made' = made \ things /\ alive' = alive \ stops /\ life' = next /\ UNCHANGED internal

Finish ==
  /\ life = "running"
  /\ Discard({"socket"}, IF internal THEN {"cycle"} ELSE {}, "join feedback")

(* Wrong: the thread is told to stop, and not waited for.                  *)
ForgetFeedback == life = "join feedback" /\ Discard({}, {}, "stop monitor")

JoinFeedback == life = "join feedback" /\ Discard({}, {"feedback"}, "stop monitor")

StopMonitor ==
  /\ life = "stop monitor"
  /\ IF internal THEN Discard({}, {}, "remove all")
     ELSE Discard({"monitor client"}, {"monitor"}, "remove all")

(* effects_remove(REMOVE_ALL): see EffectLife.  The plugins use the URI    *)
(* map, the world and the pool to the end.                                 *)
RemoveAllEffects ==
  life = "remove all" /\ {"symap", "world", "pool", "locks", "client"} \subseteq made
  /\ Discard({}, {}, "join hmi")

JoinHmi == life = "join hmi" /\ Discard({"channel"}, {"hmi"}, "close control chain")

CloseControlChain ==
  life = "close control chain" /\ Discard({"control chain"}, {"control_chain"}, "close client")

CloseGlobalClient ==
  /\ life = "close client"
  /\ IF internal THEN Discard({}, {}, "free maps")
     ELSE Discard({"client", "ports"}, {"cycle"}, "free maps")

FreeMaps == life = "free maps" /\ Discard({"symap", "world"}, {}, "destroy pool")

DestroyPool == life = "destroy pool" /\ Discard({"pool", "locks"}, {}, "free globals")

FreeGlobals == life = "free globals" /\ Discard({"globals"}, {}, "finished")

Over == life \in {"finished", "failed"} /\ UNCHANGED hostVars

HostNext ==
  \/ OpenClient \/ RegisterPorts \/ OpenMonitor \/ CreatePool \/ InitLocks \/ MakeGlobals
  \/ LoadWorld \/ MakeSymap \/ OpenHmi \/ StartFeedback \/ Activate \/ StartSocket
  \/ OpenControlChain \/ Finish \/ JoinFeedback \/ StopMonitor \/ RemoveAllEffects \/ JoinHmi
  \/ CloseControlChain \/ CloseGlobalClient \/ FreeMaps \/ DestroyPool \/ FreeGlobals \/ Over

-----------------------------------------------------------------------------
(* A thread runs only while everything it touches exists, in every order   *)
(* of making, failing and freeing, until effects_init exits on an error:   *)
(* the threads it leaves then end with the program, but not with an        *)
(* internal client, which JACK only unloads.  And a program of its own that*)
(* finishes leaves nothing behind (effects.c:4442-5014, 5016-5128).        *)
NobodyOutlivesItsThings ==
  /\ life # "failed" => \A t \in alive : Needs[t] \subseteq made
  /\ life = "finished" /\ ~internal => made = {} /\ alive = {}
  /\ life = "finished" => alive \subseteq {"monitor"}
=============================================================================
