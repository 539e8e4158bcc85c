------------------------------ MODULE MCEngine ------------------------------
(* Thirteen parts of the host whose states are disjoint share a run: a     *)
(* behaviour is one of one part, while the others keep their first state.  *)
EXTENDS EffectCycle, PropertyRings, Transport, Conversions, SerialRing, AudioMonitors,
        Assignments, HmiAddressings, CommandStream, SocketServer, HostLife, GlobalMidi, MidiMap,
        TLC

VARIABLE part

CONSTANTS m1, m2, gain, wrong, c1, c2

MCCyclePlugin == {[outputs |-> 2, has_enabled |-> FALSE, through |-> FALSE],
                  [outputs |-> 0, has_enabled |-> TRUE, through |-> FALSE]}
MCCvLimit == {-20, 0, 98}
MCPortLimit == {-20, 10, 60}
MCHmiOwner == [p \in HmiPort |-> IF p = CHOOSE q \in HmiPort : TRUE THEN "b" ELSE "a"]

MCSymmetry == Permutations(Source) \union Permutations(Port)

Still == [at |-> 0, map |-> [by |-> "none"]]

EngineInit ==
  /\ part \in {"cycle", "rings", "transport", "conversions", "serial", "monitors", "assignments",
               "addressings", "commands", "sockets", "host", "midi", "controllers"}
  /\ CycleInit /\ (part # "cycle" => ~plugin.has_enabled)
  /\ RingsInit
  /\ TransportInit /\ bpm = 1 /\ bpb = 4
  /\ SerialInit /\ (part # "serial" => paged)
  /\ MonitorsInit /\ AssignmentsInit /\ HmiInit
  /\ StreamInit /\ (part # "commands" => terminates)
  /\ SocketInit
  /\ HostInit /\ (part # "host" => internal)
  /\ GlobalMidiInit /\ Init
  /\ IF part = "conversions" THEN ConversionsInit ELSE conversion = Still

engineVars == <<part, cycleVars, ringVars, transportVars, conversion, serialVars, monitorVars,
                ccVars, hmiVars, streamVars, socketVars, hostVars, globalMidiVars, vars>>

EngineNext ==
  /\ UNCHANGED part
  /\ IF part = "cycle" THEN CycleNext ELSE UNCHANGED cycleVars
  /\ IF part = "rings" THEN RingsNext ELSE UNCHANGED ringVars
  /\ IF part = "transport" THEN TransportNext ELSE UNCHANGED transportVars
  /\ IF part = "conversions" THEN ConversionsNext ELSE UNCHANGED conversion
  /\ IF part = "serial" THEN SerialNext ELSE UNCHANGED serialVars
  /\ IF part = "monitors" THEN MonitorsNext ELSE UNCHANGED monitorVars
  /\ IF part = "assignments" THEN AssignmentsNext ELSE UNCHANGED ccVars
  /\ IF part = "addressings" THEN HmiNext ELSE UNCHANGED hmiVars
  /\ IF part = "commands" THEN StreamNext ELSE UNCHANGED streamVars
  /\ IF part = "sockets" THEN SocketNext ELSE UNCHANGED socketVars
  /\ IF part = "host" THEN HostNext ELSE UNCHANGED hostVars
  /\ IF part = "midi" THEN GlobalMidiNext ELSE UNCHANGED globalMidiVars
  /\ IF part = "controllers" THEN Next ELSE UNCHANGED vars

EngineSpec == EngineInit /\ [][EngineNext]_engineVars
=============================================================================
