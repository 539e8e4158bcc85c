----------------------------- MODULE Transport -----------------------------
(***************************************************************************)
(* Transport and tempo: JACK's transport, the copies mod-host keeps of     *)
(* it, the reports to the client, and the position that mod-host, as the   *)
(* timebase master, gives to all clients.                                  *)
(*                                                                         *)
(* The cycle of the global client runs MIDI (clock, start, stop, mapped    *)
(* controllers), UpdateGlobalJackPosition and JackTimebase in this order.  *)
(* Commands, and controllers by way of SetPortValue, run at any moment;    *)
(* they share UpdateGlobalJackPosition with the cycle.  Ableton Link is a  *)
(* build option and left out.                                              *)
(*                                                                         *)
(* One frame is one cycle, and a tempo is the ticks that pass in it; beats *)
(* per bar are counted in ticks too.  JACK is external: requests are       *)
(* applied when its next cycle begins.                                     *)
(***************************************************************************)
EXTENDS Integers, Sequences

CONSTANTS
  TicksPerBeat,   \* TRANSPORT_TICKS_PER_BEAT
  Tempo,          \* values of g_transport_bpm
  Meter,          \* values of g_transport_bpb
  FrameMax,       \* a bound on the transport's frames
  OrderMax        \* a bound on the commands, mapped controllers and MIDI clock events,
                  \* but for those that change no tempo and start or stop nothing

ASSUME TransportAssumption ==
  /\ TicksPerBeat \in Nat \ {0} /\ FrameMax \in Nat /\ OrderMax \in Nat
  /\ Tempo \subseteq Nat \ {0} /\ Meter \subseteq Nat \ {0}

VARIABLES
  transport,      \* JACK's: is it rolling?
  wanted,         \* start or stop, as asked of JACK since its last cycle
  locate,         \* a reposition asked of JACK
  frame,
  pos,            \* bar, beat, tick and bar_start_tick
  bpm, bpb,       \* g_transport_bpm, g_transport_bpb
  reset,          \* g_transport_reset
  rolling,        \* g_jack_rolling
  clock,          \* MIDI clock: "off", "first" before a tick that counts, "on"
  beat,           \* where the cycle is, and what of the tempo it has read
  update,         \* what each thread does in UpdateGlobalJackPosition
  ordering,       \* the command that runs, or "none"
  orders,         \* the number of orders so far
  reports,        \* the newest transport event in the list, as a sequence
  told,           \* what the client was told last
  untold,         \* ghost: the last report was not queued, or overtaken
  anchor,         \* ghost: frame and tempo when pos was last computed anew
  drift           \* ghost: the tempo has changed since

orderVars == <<ordering, orders>>
jackVars == <<transport, wanted, locate, frame>>
tempoVars == <<bpm, bpb, reset>>
reportVars == <<rolling, update, reports, told, untold>>
positionVars == <<pos, anchor, drift>>
transportVars == <<jackVars, tempoVars, reportVars, positionVars, clock, beat, orderVars>>

Now == [rolling |-> rolling, bpm |-> bpm, bpb |-> bpb]
Thread == {"cycle", "command"}
Quiet == [at |-> "idle"]

(* JackTimebase, when it computes the position from the frame.  The tick   *)
(* is what is left when all the ticks are taken away.                      *)
FromFrame(f, v, b) ==
  LET t == f * v
      bar == t \div b
      in_bar == (t % b) \div TicksPerBeat
  IN  [bar |-> bar + 1, beat |-> in_bar + 1, tick |-> 0,
       start |-> bar * b + in_bar * TicksPerBeat]

BeatsPerBarInt(b) == (2 * b + TicksPerBeat) \div (2 * TicksPerBeat)

(* Wrong: the bar ends one beat early.                                     *)
CarryEarly(p, b) ==
  IF p.beat + 1 >= BeatsPerBarInt(b)
  THEN [p EXCEPT !.beat = 1, !.start = @ + b, !.bar = @ + 1]
  ELSE [p EXCEPT !.beat = @ + 1]

(* A beat has ended.                                                       *)
Carry(p, b) ==
  IF p.beat + 1 > BeatsPerBarInt(b)
  THEN [p EXCEPT !.beat = 1, !.start = @ + b, !.bar = @ + 1]
  ELSE [p EXCEPT !.beat = @ + 1]

(* JackTimebase, when it goes on from the last position.                   *)
Advance(p, v, b) ==
  LET tick == p.tick + v
      beats == tick \div TicksPerBeat
      carried[n \in 0..beats] == IF n = 0 THEN p ELSE Carry(carried[n - 1], b)
  IN  [carried[beats] EXCEPT !.tick = tick % TicksPerBeat]

TransportInit ==
  /\ transport = FALSE /\ wanted = "none" /\ locate = "none" /\ frame = 0
  /\ bpm \in Tempo /\ bpb \in Meter /\ reset = TRUE
  /\ rolling = FALSE /\ clock = "off"
  /\ pos = FromFrame(0, bpm, bpb)
  /\ anchor = [frame |-> 0, bpm |-> bpm, bpb |-> bpb] /\ drift = FALSE
  /\ beat = Quiet /\ update = [t \in Thread |-> Quiet] /\ ordering = "none" /\ orders = 0
  /\ reports = <<>> /\ told = Now /\ untold = FALSE

-----------------------------------------------------------------------------
(* JACK.                                                                   *)

Order == orders < OrderMax /\ orders' = orders + 1

Start == wanted' = "start" /\ UNCHANGED locate
Stop  == wanted' = "stop" /\ locate' = "zero"
Roll(on) == IF on THEN Start ELSE Stop

(* TriggerJackTimebase: a stopped transport is repositioned, to have the   *)
(* timebase called.                                                        *)
Trigger(to_zero) ==
  locate' = IF transport THEN locate ELSE IF to_zero THEN "zero" ELSE "here"

-----------------------------------------------------------------------------
(* UpdateGlobalJackPosition, in the thread t: what was there before, and   *)
(* what JACK says.                                                         *)

Looks(flag, old) == [at |-> "query", flag |-> flag, old |-> old, seen |-> transport]
UpdateBegin(t, old) == update' = [update EXCEPT ![t] = Looks("if_changed", old)]
UpdateForced(t) == update' = [update EXCEPT ![t] = Looks("forced", "any")]

(* The other thread has looked, and what it stores need not be news to it. *)
Crosses(t, r) == \E u \in Thread \ {t} : update[u].at = "query" /\ update[u].seen # r

(* The report, unless the pool is empty.                                   *)
Report(t, now) ==
  \/ update' = [update EXCEPT ![t] = [at |-> "queue", report |-> now]]
     /\ untold' = (untold \/ Crosses(t, update[t].seen))
  \/ update' = [update EXCEPT ![t] = [at |-> "done"]] /\ untold' = TRUE

NoReport(t) ==
  /\ update' = [update EXCEPT ![t] = [at |-> "done"]]
  /\ untold' = (untold \/ Crosses(t, update[t].seen))

(* Wrong: what was there before is read after the query.                   *)
UpdateReportLate(t) ==
  /\ update[t].at = "query" /\ rolling' = update[t].seen
  /\ LET now == [Now EXCEPT !.rolling = update[t].seen]
     IN  IF update[t].flag = "forced" \/ [update[t].old EXCEPT !.rolling = now.rolling] # now
         THEN Report(t, now) ELSE NoReport(t)
  /\ UNCHANGED <<jackVars, tempoVars, positionVars, clock, beat, orderVars, reports, told>>

(* Nothing is reported if nothing has changed since UpdateBegin.           *)
UpdateReport(t) ==
  /\ update[t].at = "query" /\ rolling' = update[t].seen
  /\ LET now == [Now EXCEPT !.rolling = update[t].seen]
     IN  IF update[t].flag = "forced" \/ update[t].old # now
         THEN Report(t, now) ELSE NoReport(t)
  /\ UNCHANGED <<jackVars, tempoVars, positionVars, clock, beat, orderVars, reports, told>>

UpdateQueue(t) ==
  /\ update[t].at = "queue"
  /\ reports' = <<update[t].report>>
  /\ untold' = (update[t].report # Now \/ Crosses(t, rolling))
  /\ update' = [update EXCEPT ![t] = [at |-> "done"]]
  /\ UNCHANGED <<jackVars, tempoVars, positionVars, clock, beat, orderVars, rolling, told>>

(* RunPostPonedEvents: only the newest report of a batch is sent, so it    *)
(* stands for all of them.                                                 *)
SendReports ==
  /\ reports # <<>> /\ told' = Head(reports) /\ reports' = <<>>
  /\ UNCHANGED <<jackVars, tempoVars, positionVars, clock, beat, orderVars, rolling, update,
                 untold>>

-----------------------------------------------------------------------------
(* ProcessGlobalClient.  One MIDI event at most, then the update, which is *)
(* forced if the clock has changed the tempo.                              *)

CycleUpdate == beat = Quiet /\ beat' = [at |-> "update"] /\ UpdateBegin("cycle", Now)

NoMidi ==
  /\ CycleUpdate
  /\ UNCHANGED <<jackVars, tempoVars, positionVars, clock, orderVars, rolling, reports, told,
                 untold>>

(* A tick of the MIDI clock changes the tempo if it follows another one in *)
(* time, and if the filtered tempo has changed.                            *)
MidiTick(v) ==
  /\ clock # "off" /\ clock' = "on"
  /\ IF clock = "on" /\ v # bpm
     THEN /\ bpm' = v /\ Order
          /\ beat = Quiet /\ beat' = [at |-> "update"] /\ UpdateForced("cycle")
     ELSE CycleUpdate /\ UNCHANGED <<bpm, orders>>
  /\ UNCHANGED <<jackVars, bpb, reset, positionVars, ordering, rolling, reports, told, untold>>

MidiStart ==
  /\ Order /\ clock # "off" /\ clock' = "first" /\ Start /\ CycleUpdate
  /\ UNCHANGED <<transport, frame, tempoVars, positionVars, ordering, rolling, reports, told,
                 untold>>

MidiStop ==
  /\ Order /\ clock # "off" /\ Stop /\ CycleUpdate
  /\ UNCHANGED <<transport, frame, tempoVars, positionVars, clock, ordering, rolling, reports,
                 told, untold>>

(* UpdateValueFromMidi, for the ports of the transport.  A tempo that was  *)
(* set here is reported as a parameter only.                               *)
MidiTempo(v, b) ==
  /\ Order /\ bpm' = v /\ bpb' = b /\ untold' = (untold \/ bpm # v \/ bpb # b)
  /\ beat = Quiet /\ beat' = [at |-> "update"]
  /\ UpdateBegin("cycle", [Now EXCEPT !.bpm = v, !.bpb = b])
  /\ UNCHANGED <<jackVars, reset, positionVars, clock, ordering, rolling, reports, told>>

MidiRolling(on) ==
  /\ Order /\ Roll(on) /\ reset' = TRUE /\ CycleUpdate
  /\ UNCHANGED <<transport, frame, bpm, bpb, positionVars, clock, ordering, rolling, reports,
                 told, untold>>

(* JACK's part of the cycle, and the tempo that JackTimebase reads first.  *)
(* JACK calls it to fill in the position of the next frame: when it is a   *)
(* new one, or when the transport rolls on to it.  A transport that is only*)
(* about to roll stays where it is and calls nobody.  At the bound some    *)
(* other client relocates to the start.                                    *)
TimebaseBegin ==
  LET to == CASE locate # "none"                                       -> locate
              [] locate = "none" /\ transport /\ frame = FrameMax      -> "zero"
              [] OTHER                                                 -> "none"
      rolls_on == transport /\ transport' /\ to = "none"
  IN  /\ beat.at = "update" /\ update["cycle"].at = "done"
      /\ transport' = IF wanted = "none" THEN transport ELSE wanted = "start"
      /\ frame' = CASE to = "zero" -> 0
                    [] rolls_on    -> frame + 1
                    [] OTHER       -> frame
      /\ wanted' = "none" /\ locate' = "none"
      /\ update' = [update EXCEPT !["cycle"] = Quiet]
      /\ beat' = IF rolls_on \/ to # "none"
                 THEN [at |-> "timebase", bpm |-> bpm, bpb |-> bpb, new |-> to # "none"]
                 ELSE Quiet
      /\ UNCHANGED <<tempoVars, positionVars, clock, orderVars, rolling, reports, told, untold>>

(* The rest of JackTimebase: the position is computed anew, or goes on by  *)
(* one cycle from what it was at the last call.                            *)
TimebaseEnd ==
  /\ beat.at = "timebase" /\ beat' = Quiet
  /\ IF beat.new \/ reset
     THEN /\ pos' = FromFrame(frame, beat.bpm, beat.bpb) /\ reset' = FALSE
          /\ anchor' = [frame |-> frame, bpm |-> beat.bpm, bpb |-> beat.bpb]
          /\ drift' = FALSE
     ELSE /\ pos' = Advance(pos, beat.bpm, beat.bpb)
          /\ drift' = (drift \/ anchor.bpm # beat.bpm \/ anchor.bpb # beat.bpb)
          /\ UNCHANGED <<reset, anchor>>
  /\ UNCHANGED <<jackVars, bpm, bpb, reportVars, clock, orderVars>>

-----------------------------------------------------------------------------
(* Commands, one at a time; each stores first and does the rest later.     *)

Orders(c) == ordering = "none" /\ ordering' = c /\ Order
OtherVars == <<positionVars, clock, beat, rolling, reports, told>>

SetBeatsPerMinute(v) ==
  /\ Orders("reset") /\ bpm' = v
  /\ UNCHANGED <<jackVars, bpb, reset, update, untold, OtherVars>>

SetBeatsPerBar(b) ==
  /\ Orders("reset") /\ bpb' = b
  /\ UNCHANGED <<jackVars, bpm, reset, update, untold, OtherVars>>

SetTempoRest ==
  /\ ordering = "reset" /\ ordering' = "update"
  /\ reset' = TRUE /\ Trigger(FALSE) /\ UpdateForced("command")
  /\ UNCHANGED <<transport, wanted, frame, bpm, bpb, untold, orders, OtherVars>>

(* SetPortValue, for the ports of the transport.  Without a node for the   *)
(* parameter's event it returns before the update.                         *)
PortUpdate   == Orders("update") /\ UpdateForced("command")
PortNoUpdate == Orders("none") /\ UNCHANGED update

PortTempo(v, b) ==
  /\ bpm' = v /\ bpb' = b
  /\ \/ PortUpdate /\ UNCHANGED untold
     \/ PortNoUpdate /\ untold' = (untold \/ bpm # v \/ bpb # b)
  /\ UNCHANGED <<jackVars, reset, OtherVars>>

PortRolling(on) ==
  /\ Roll(on) /\ reset' = TRUE
  /\ PortUpdate \/ PortNoUpdate
  /\ UNCHANGED <<transport, frame, bpm, bpb, untold, OtherVars>>

(* effects_transport, which reports nothing: a tempo that the client has   *)
(* set is not reported.                                                    *)
SetTransport(on, v, b) ==
  /\ Orders(IF on THEN "start" ELSE "stop") /\ bpm' = v /\ bpb' = b
  /\ untold' = (untold \/ bpm # v \/ bpb # b)
  /\ UNCHANGED <<jackVars, reset, update, OtherVars>>

SetTransportRest ==
  /\ ordering \in {"start", "stop"} /\ ordering' = "none"
  /\ LET on == ordering = "start"
         changed == rolling # on \/ rolling # transport
     IN  /\ wanted' = IF changed THEN ordering ELSE wanted
         /\ reset' = (reset \/ changed)
         /\ locate' = CASE ~transport -> IF changed THEN "zero" ELSE "here"
                        [] transport /\ changed /\ ~on -> "zero"
                        [] OTHER -> locate
  /\ UNCHANGED <<transport, frame, bpm, bpb, update, untold, orders, OtherVars>>

CommandDone ==
  /\ ordering = "update" /\ update["command"].at = "done" /\ ordering' = "none"
  /\ update' = [update EXCEPT !["command"] = Quiet]
  /\ UNCHANGED <<jackVars, tempoVars, untold, orders, OtherVars>>

SyncMode(mode) ==
  /\ ordering = "none" /\ clock' = IF mode = "midi" THEN "first" ELSE "off"
  /\ UNCHANGED <<jackVars, tempoVars, reportVars, positionVars, beat, orderVars>>

TransportNext ==
  \/ \E t \in Thread : UpdateReport(t) \/ UpdateQueue(t)
  \/ SendReports
  \/ NoMidi \/ MidiStart \/ MidiStop \/ \E v \in Tempo : MidiTick(v)
  \/ \E on \in BOOLEAN : MidiRolling(on) \/ PortRolling(on)
  \/ TimebaseBegin \/ TimebaseEnd
  \/ \E v \in Tempo : SetBeatsPerMinute(v)
  \/ \E b \in Meter : SetBeatsPerBar(b)
  \/ \E v \in Tempo, b \in Meter :
       \/ MidiTempo(v, b) \/ PortTempo(v, b)
       \/ \E on \in BOOLEAN : SetTransport(on, v, b)
  \/ SetTempoRest \/ SetTransportRest \/ CommandDone
  \/ \E mode \in {"none", "midi"} : SyncMode(mode)

-----------------------------------------------------------------------------
(* Properties.                                                             *)

(* When nothing is under way, the client knows what mod-host knows of the  *)
(* transport, whether it rolls and how fast: no change is missed, although *)
(* two threads look for changes and either may take note of the one the    *)
(* other should report.  The exceptions are a report for which the pool    *)
(* had no node, one that was queued after a newer one, tempos the client   *)
(* has set, and the case that one thread stores into g_jack_rolling what   *)
(* the other has not seen when it began and sees when it ends.             *)
TransportReported ==
  /\ reports = <<>> /\ ordering = "none" /\ beat = Quiet
  /\ \A t \in Thread : update[t] = Quiet
  /\ ~untold
  => told = Now

(* The position, counted on from cycle to cycle, stays the one its frame   *)
(* has, less the part of a beat that is lost when it is computed from the  *)
(* frame: while the tempo has not changed since then, and bars have whole  *)
(* beats.                                                                  *)
PositionAgrees ==
  /\ pos.beat \in Nat \ {0} /\ pos.tick \in 0..(TicksPerBeat - 1)
  /\ ~drift /\ beat.at # "timebase" /\ anchor.bpb % TicksPerBeat = 0 =>
       /\ pos.beat <= BeatsPerBarInt(anchor.bpb)
       /\ (pos.bar - 1) * anchor.bpb + (pos.beat - 1) * TicksPerBeat + pos.tick
            = frame * anchor.bpm - ((anchor.frame * anchor.bpm) % TicksPerBeat)
=============================================================================
