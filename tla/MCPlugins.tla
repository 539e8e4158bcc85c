----------------------------- MODULE MCPlugins -----------------------------
(* One plugin instance, one worker thread, and the parameters of several   *)
(* effects: their checks share a run, a behaviour is one of one of them.   *)
EXTENDS EffectLife, Worker, SyncParams

VARIABLE part

CONSTANTS e1, e2, gain, wrong

MCPlugin ==
  {{}, {"worker", "no_pre_run"}, {"state", "unsafe"}, {"state", "unsafe", "live"},
   {"live", "worker"}, {"state", "unsafe", "no_pre_run", "worker"}}

MCSize == [m \in Request |-> IF m = "short" THEN 1 ELSE 2]

Give(s, v) == [symbol |-> s, value |-> v]

(* No parameter; one; one twice; and an unknown one before a known.        *)
MCParamList ==
  { <<>>,
    <<Give(gain, 1)>>,
    <<Give(gain, 1), Give(gain, 0)>>,
    <<Give(wrong, 1), Give(gain, 0)>> }

PluginsInit == part \in {"life", "worker", "params"} /\ LifeInit /\ WorkerInit /\ Init

PluginsNext ==
  /\ UNCHANGED part
  /\ IF part = "life" THEN LifeNext ELSE UNCHANGED lifeVars
  /\ IF part = "worker" THEN WorkerNext ELSE UNCHANGED workerVars
  /\ IF part = "params" THEN Next ELSE UNCHANGED vars

PluginsSpec ==
  /\ PluginsInit
  /\ [][PluginsNext]_<<part, lifeVars, workerVars, vars>>
  /\ part = "worker" => WorkerFairness
=============================================================================
