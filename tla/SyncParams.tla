----------------------------- MODULE SyncParams -----------------------------
(***************************************************************************)
(* How the commands of effects.c set control ports.                        *)
(*                                                                         *)
(* param_set writes the port at once, through pointers that it keeps from  *)
(* one call to the next.  multi_param_set and multi_params_flush schedule  *)
(* their values instead: at the start of the next audio cycle of           *)
(* monitor-client.c, effect_sync_scheduled_params applies them, so that    *)
(* all effects change together; when there is no room they are written at  *)
(* once.  Scheduled values name ports by pointer, and effects_remove       *)
(* applies them before it deletes an effect.                               *)
(*                                                                         *)
(* The instances of a multi command are instances of one plugin and are    *)
(* activated, as its documentation demands.  The writes of one command are *)
(* one step; ports' ranges are left out.                                   *)
(***************************************************************************)
EXTENDS Integers, SequencesExt

CONSTANTS
  Effect,        \* plugin instances, of one plugin
  Symbol,        \* port symbols that commands name
  Unknown,       \* those that the plugin has not
  ResetPort,     \* the symbol of the port at reset_index
  Value,         \* values of ports
  Default,       \* the value a port starts with
  None,          \* no pointer kept; no value judged
  ParamList,     \* bound: the lists of symbols and values that commands give
  MaxScheduled   \* MAX_SYNC_SCHEDULED_PARAMS

Port  == Effect \X (Symbol \ Unknown)
Param == [symbol : Symbol, value : Value]

ASSUME SyncParamsAssumption ==
  /\ IsFiniteSet(Effect)
  /\ ResetPort \in Symbol \ Unknown
  /\ Value \subseteq Nat /\ Default \in Value
  /\ None \notin Value
  /\ ParamList \subseteq Seq(Param)
  /\ MaxScheduled \in Nat

(* A pointer to a port is live until its effect is deleted, by             *)
(* effects_remove or by effects_remove_multi.                              *)
Pointer == [port : Port, state : {"live", "removed", "multi_removed"}]
Entry   == [to : Pointer, value : Value]

VARIABLES
  inst,       \* effects for which InstanceExist holds
  buffer,     \* the values of the ports
  scheduled,  \* g_sync_scheduled_params, up to its count
  at,         \* the entry the audio cycle applies next, 0 without the mutex
  cache,      \* the pointers that effects_set_parameter keeps
  latest      \* ghost: the value that was last asked for each port, None if
              \* it did not wait for older ones that are scheduled, or came
              \* from a list that names a symbol the plugin has not

vars == <<inst, buffer, scheduled, at, cache, latest>>

TypeOK ==
  /\ inst \subseteq Effect
  /\ buffer \in [Port -> Value] /\ latest \in [Port -> Value \cup {None}]
  /\ scheduled \in Seq(Entry) /\ Len(scheduled) <= MaxScheduled
  /\ at \in 0..Len(scheduled)
  /\ cache \in Pointer \cup {None}

Init ==
  /\ inst = {}
  /\ buffer = [p \in Port |-> Default] /\ latest = [p \in Port |-> Default]
  /\ scheduled = <<>> /\ at = 0
  /\ cache = None

-----------------------------------------------------------------------------
(* Values and pointers.                                                    *)

Live(p) == [port |-> p, state |-> "live"]

Writes(entries, p) == {i \in DOMAIN entries : entries[i].to = Live(p)}

(* The values of the ports once entries are written, in order, over b: the *)
(* last one for a port stays.  What is written through a dangling pointer  *)
(* reaches no port.                                                        *)
Applied(b, entries) ==
  [p \in Port |-> IF Writes(entries, p) = {} THEN b[p]
                  ELSE entries[Max(Writes(entries, p))].value]

Targets(entries) == {entries[i].to.port : i \in DOMAIN entries}

Unlocked == at = 0

\* Ports with a value that is still to be applied.
Pending == {scheduled[i].to.port : i \in {j \in DOMAIN scheduled : j >= at}}

\* Pointers into effects of T are left dangling by their deletion.
Freed(ptr, T, how) ==
  IF ptr.port[1] \in T /\ ptr.state = "live" THEN [ptr EXCEPT !.state = how] ELSE ptr

FreeScheduled(T, how) ==
  [i \in DOMAIN scheduled |-> [scheduled[i] EXCEPT !.to = Freed(@, T, how)]]

\* The ports of T have no value that the properties judge.
Unjudged(T) == [p \in Port |-> IF p \in T THEN None ELSE latest[p]]

(* The values of entries, which should be those of wanted, are written now *)
(* or, if there is room for n of them, by the next audio cycle.            *)
WriteNow(entries, wanted) ==
  /\ buffer' = Applied(buffer, entries)
  /\ latest' = IF entries = wanted
               THEN LET asked == Applied(latest, wanted)
                    IN  [p \in Port |-> IF p \in Targets(wanted) \cap Pending THEN None ELSE asked[p]]
               ELSE Unjudged(Targets(entries \o wanted))
  /\ UNCHANGED scheduled

WriteLater(entries, wanted) ==
  /\ scheduled' = scheduled \o entries
  /\ latest' = IF entries = wanted THEN Applied(latest, wanted)
                                   ELSE Unjudged(Targets(entries \o wanted))
  /\ UNCHANGED buffer

Schedule(n, entries, wanted) ==
  /\ Unlocked
  /\ IF Len(scheduled) + n <= MaxScheduled THEN WriteLater(entries, wanted)
                                           ELSE WriteNow(entries, wanted)
  /\ UNCHANGED <<inst, at, cache>>

-----------------------------------------------------------------------------
(* The commands.                                                           *)

Reset(reset) == IF reset = 0 THEN <<>> ELSE <<[symbol |-> ResetPort, value |-> reset]>>

(* The parameters whose port is found, in order.                           *)
Named(params) ==
  LET found[n \in 0..Len(params)] ==
        IF n = 0 THEN <<>>
        ELSE IF params[n].symbol \in Unknown THEN found[n - 1]
        ELSE Append(found[n - 1], params[n])
  IN  found[Len(params)]

(* What effects_flush_parameters_multi makes of them: the k-th port that   *)
(* was found gets the k-th value of the list.                              *)
Found(params) ==
  [k \in DOMAIN Named(params) |-> [symbol |-> Named(params)[k].symbol, value |-> params[k].value]]

(* A list for every effect of T, one effect after the other.               *)
ForAll(T, params) ==
  LET s == SetToSeq(T)
      n == Len(params)
      effect(i) == s[((i - 1) \div n) + 1]
      param(i) == params[((i - 1) % n) + 1]
  IN  [i \in 1..(Len(s) * n) |->
         [to |-> Live(<<effect(i), param(i).symbol>>), value |-> param(i).value]]

Add(e) ==
  /\ e \notin inst
  /\ inst' = inst \cup {e}
  /\ buffer' = [p \in Port |-> IF p[1] = e THEN Default ELSE buffer[p]]
  /\ latest' = [p \in Port |-> IF p[1] = e THEN Default ELSE latest[p]]
  /\ UNCHANGED <<scheduled, at, cache>>

(* effects_set_parameter.  The pointers are used again when effect and     *)
(* symbol are the same; the symbol is compared through a pointer, too, so  *)
(* that a dangling one may be seen to differ.                              *)
SetParameter(e, s, v) ==
  LET same == cache # None /\ cache.port = <<e, s>>
      entry(to) == [to |-> to, value |-> v]
      wanted == <<entry(Live(<<e, s>>))>>
  IN  /\ \/ e \in inst /\ same /\ WriteNow(<<entry(cache)>>, wanted) /\ UNCHANGED cache
         \/ /\ e \in inst /\ s \notin Unknown
            /\ same => cache.state # "live"
            /\ WriteNow(wanted, wanted)
            /\ cache' = Live(<<e, s>>)
         \/ /\ e \notin inst \/ s \in Unknown
            /\ cache' = None
            /\ UNCHANGED <<buffer, latest, scheduled>>
      /\ UNCHANGED <<inst, at>>

(* effects_set_parameter_multi of two or more effects.                     *)
SetParameterMulti(T, s, v) ==
  LET entries == ForAll(T \cap inst,
                        IF s \in Unknown THEN <<>> ELSE <<[symbol |-> s, value |-> v]>>)
  IN  Schedule(Len(entries), entries, entries)

(* effects_flush_parameters: the reset comes first, and once more last.    *)
FlushParameters(e, reset, params) ==
  /\ e \in inst
  /\ LET entries == ForAll({e}, Reset(reset) \o Named(params) \o Reset(reset))
     IN  WriteNow(entries, entries)
  /\ UNCHANGED <<inst, at, cache>>

(* effects_flush_parameters_multi.  The room is computed from the length   *)
(* of the list, whatever was found of it.                                  *)
FlushParametersMulti(T, reset, params) ==
  LET n == (Len(params) + IF reset = 0 THEN 0 ELSE 1) * Cardinality(T \cap inst)
  IN  Schedule(n, ForAll(T \cap inst, Found(params) \o Reset(reset)),
                  ForAll(T \cap inst, Named(params) \o Reset(reset)))

(* effects_pre_run, and effects_pre_run_multi, which resets once more      *)
(* after every parameter but not if there are none.                        *)
PreRun(T, reset, params) ==
  /\ LET resets == IF params = <<>> /\ Cardinality(T) > 1 THEN <<>> ELSE Reset(reset)
         entries == ForAll(T \cap inst, Named(params) \o resets)
     IN  WriteNow(entries, entries)
  /\ UNCHANGED <<inst, at, cache>>

(* Wrong: the scheduled values are left to the next cycle.                 *)
RemoveLeavesScheduled(e) ==
  /\ Unlocked
  /\ inst' = inst \ {e}
  /\ cache' = None
  /\ scheduled' = FreeScheduled({e}, "removed")
  /\ UNCHANGED <<buffer, at, latest>>

(* Wrong: they are dropped, as they are when all effects are removed.      *)
RemoveDropsScheduled(e) ==
  /\ Unlocked
  /\ scheduled' = <<>>
  /\ inst' = inst \ {e} /\ cache' = None
  /\ UNCHANGED <<buffer, at, latest>>

(* effects_remove: "trigger sync scheduled params now for no dangling      *)
(* pointers", the deletion, "clear param_set cache".  When jack_deactivate *)
(* fails it returns with the values applied and nothing else done.         *)
RemoveEffect(e) ==
  /\ Unlocked
  /\ buffer' = Applied(buffer, scheduled)
  /\ scheduled' = <<>>
  /\ \/ inst' = inst \ {e} /\ cache' = None
     \/ e \in inst /\ UNCHANGED <<inst, cache>>
  /\ UNCHANGED <<at, latest>>

(* effects_remove(REMOVE_ALL) drops them, and so loses values of effects   *)
(* that a jack_deactivate which fails leaves in place.                     *)
RemoveAll ==
  /\ Unlocked
  /\ scheduled' = <<>>
  /\ \/ inst' = {} /\ cache' = None
     \/ inst # {} /\ UNCHANGED <<inst, cache>>
  /\ latest' = Unjudged(Pending)
  /\ UNCHANGED <<buffer, at>>

(* effects_remove_multi looks neither at the scheduled values nor at the   *)
(* pointers of effects_set_parameter.                                      *)
RemoveMulti(T) ==
  /\ inst' = inst \ T
  /\ scheduled' = FreeScheduled(T \cap inst, "multi_removed")
  /\ cache' = IF cache = None THEN None ELSE Freed(cache, T \cap inst, "multi_removed")
  /\ UNCHANGED <<buffer, at, latest>>

-----------------------------------------------------------------------------
(* effect_sync_scheduled_params(true) in the audio cycle.                  *)

TryLock ==
  /\ Unlocked /\ scheduled # <<>>
  /\ at' = 1
  /\ UNCHANGED <<inst, buffer, scheduled, cache, latest>>

ApplyNext ==
  /\ ~Unlocked
  /\ buffer' = Applied(buffer, <<scheduled[at]>>)
  /\ IF at < Len(scheduled) THEN at' = at + 1 /\ UNCHANGED scheduled
                            ELSE at' = 0 /\ scheduled' = <<>>
  /\ UNCHANGED <<inst, cache, latest>>

Multi == {T \in SUBSET Effect : Cardinality(T) > 1}

Command ==
  \/ \E e \in Effect : Add(e) \/ RemoveEffect(e)
  \/ \E e \in Effect, s \in Symbol, v \in Value : SetParameter(e, s, v)
  \/ \E e \in Effect, r \in Value, ps \in ParamList : FlushParameters(e, r, ps)
  \/ \E T \in Multi, s \in Symbol, v \in Value : SetParameterMulti(T, s, v)
  \/ \E T \in Multi, r \in Value, ps \in ParamList : FlushParametersMulti(T, r, ps)
  \/ \E T \in SUBSET Effect \ {{}}, r \in Value, ps \in ParamList : PreRun(T, r, ps)
  \/ \E T \in Multi : RemoveMulti(T)
  \/ RemoveAll

Next == Command \/ TryLock \/ ApplyNext

Spec == Init /\ [][Next]_vars

-----------------------------------------------------------------------------
(* Properties.                                                             *)

Pointers == {scheduled[i].to : i \in DOMAIN scheduled} \cup ({cache} \ {None})

(* No dangling pointers: what is scheduled, and what effects_set_parameter  *)
(* keeps, points into effects that exist, however effects are added and     *)
(* removed while the audio cycle applies values; effects that               *)
(* effects_remove_multi deleted are the exception.                          *)
RemoveLeavesNoDangling ==
  \A ptr \in Pointers :
    ptr.state = "multi_removed" \/ (ptr.state = "live" /\ ptr.port[1] \in inst)

(* Once everything scheduled is applied, every port has the value that was *)
(* last asked for it: scheduled values are applied in order, every one to  *)
(* its port.  Excepted are ports set while older values for them were      *)
(* scheduled, and those of a multi_params_flush with an unknown symbol.    *)
LastValueWins ==
  Unlocked /\ scheduled = <<>> =>
    \A p \in Port : p[1] \in inst => latest[p] \in {buffer[p], None}
=============================================================================
