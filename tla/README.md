# Formal models of mod-host

mod-host is an LV2 host that runs as a set of JACK clients and is driven over a
socket (`src/src/mod-host.c`, `effects.c`).  Almost everything hard in it happens
between a few threads that share plain fields, three lists and two pools: the
command thread that executes socket messages, the realtime threads that JACK
calls once per cycle (one per plugin, a global one and the monitor client's), the
feedback thread that reports to the client, and the HMI thread.  This directory
holds TLA+ models of those parts, their TLC configurations, and proofs for TLAPS.

Paths below are relative to `src/`; line numbers are those of the modelled commit.

## 1. Inventory

| Component | State it keeps | Operations | Interacts with |
|---|---|---|---|
| **Postponed-event pipeline** (`effects.c` 626-760, 1211-1850, 2592-2608, 6520-6780, 7720-7790, 9660-9680; `rtmempool.c`; `mod-semaphore.h`) | node pool `g_rtsafe_mem_pool`, list `g_rtsafe_list`, `g_postevents_semaphore`, `g_postevents_running`, `g_postevents_ready`, `g_cpu_load_trigger`, the feedback thread | allocate/queue/post by realtime threads; `RunPostPonedEvents`; `effects_remove`, `effects_remove_multi`, `effects_monitor_output_parameter`, `effects_output_data_ready`, `effects_finish` | every JACK callback (producer), the feedback socket (consumer), every command that deletes an effect |
| **Feedback messages of a batch** (`effects.c` 1211-1820) | per-run caches `cached_*`, `got_*`, the ignored effect | backward walk, forward walk | the client's view of parameters, outputs, transport |
| **Monitor client** (`monitor/monitor-client.c`; `effects_processing_enable`, `wait_audio_cycle`) | `volume`, `smooth_volume`, `muted`, `wait_proc`, `wait_volume` and two semaphores | `ProcessMonitor`, `setup_volume`, `flush_volume`, `wait_proc`, `wait_volume` | command thread, HMI thread, JACK |
| **MIDI assignments** (`effects.c` 190-203, 3071-3160, 6225-6370, 7960-8147) | `g_midi_cc_list`, `g_midi_learning` | `midi_learn`, `midi_map`, `midi_unmap`, removal, the realtime lookup and learning | removal of effects, the pipeline (`midi_mapped`) |
| **Scheduled parameters** (`effects.c` 6942-7328, 9638-9663) | the pointers kept by `effects_set_parameter`, `g_sync_scheduled_params` (512 values) and its mutex | `param_set`, `params_flush`, pre-run and their multi variants, `effect_sync_scheduled_params` | the monitor client's cycle, removal of effects |
| **Life of a plugin** (`effects.c` 5131-6090, 6520-6935, 7240-7330, 9080-9130) | the slot of the instance table, `lv2_activated`, `jack_activated`, what the slot owns, the state mutex | `effects_add` with its error exits, `effects_activate` and its multi variant, pre-run, state and preset restore, `effects_remove` | JACK's callbacks, the worker, the pipeline |
| **Cycle of a plugin** (`effects.c` 2030-2610, 7790-7860, 8600-8790) | `bypass`, `was_bypassed`, the CV sources of the ports | `ProcessPlugin`, `bypass`, `multi_bypass`, `cv_map`, `cv_unmap` | commands, the pool |
| **Worker** (`worker.c`) | two rings, a semaphore, a thread per plugin | `schedule`, `respond`, `emit_responses`, `finish` | plugin callbacks, the audio cycle |
| **Property rings** (`effects.c` 1557-1715, 2500-2560, 7340-7680) | `events_out_buffer`, `events_in_buffer` per effect | `ProcessPlugin`, `patch_set`, `patch_get`, the feedback run | the pipeline |
| **Audio level monitors** (`effects.c` 3190-3250, 9440-9510) | `g_audio_monitors`, its mutex and count | `monitor_audio_levels`, the peak meter, the report | the pipeline |
| **Transport** (`effects.c` 2620-3060, 3260-3420, 8170-8260) | rolling, tempo, meter, the position, `g_transport_reset`, sync mode | `transport`, `transport_sync`, `set_bpm`, `set_bpb`, MIDI clock, `JackTimebase` | JACK, the pipeline |
| **Control Chain and HMI** (`effects.c` 3754-4250, 4262-4420, 8260-8930; `sys_host.h`) | assignments per device, addressings, a shared-memory ring | `cc_map`, `cc_value_set`, `cc_unmap`, the updates, `hmi_map`, `hmi_unmap`, the widget calls | the device library, the HMI service, plugins |
| **Socket server** (`socket.c`, `mod-host.c`) | descriptors, the receive buffers | accept, cut the stream into commands, send, stop | command and feedback threads |
| **Start and end** (`effects.c` 4442-5128, `mod-host.c`) | what exists, which threads run | `effects_init`, `effects_finish`, as a program or as an internal client of JACK | everything |
| Loading, presets, bundles, command dispatch, URI map, event buffers, DSP, prompt | little state of its own | calls of lilv, files, matching, arithmetic | - |

### What is hard here

* Two threads run `RunPostPonedEvents` and use the instance table; only a
  stop-and-join, written out in three places, keeps them apart.
* Events name effects by number and ports by pointer and are read long after they
  were made; a removal has to flush them between two other steps, and the threads
  of the global client and of Control Chain, which report on effects too, are not
  stopped with the effect.
* The feedback thread sleeps on a semaphore that producers post after they have
  queued, and takes turns with the client over a plain flag.
* A wait that times out leaves its request behind, and the late answer is taken
  by the next one.
* The audio cycle and the commands store to the same plain fields.
* A freed slot's mark decides whether the realtime thread sees the slots after it.
* Commands can fail half way (`jack_deactivate`, an empty pool, any call that
  `effects_add` makes).
* Rings carry a message in two writes; rings, pools and byte streams are full or
  cut at any byte.
* Assignments are cleared field by field while another thread follows them.

`PROJECT.json` lists each of these under "hazards" with its line.

## 2. The modules

    EventQueue          what the pipeline promises: a FIFO queue
        ^  implemented by
    PostEvents          pool, list, semaphore, threads, commands; EXTENDS RtMemPool
    PostFeedback        what one RunPostPonedEvents makes of a batch
    MonitorClient       fades, mute and waits
    SyncParams          immediate and scheduled values of control ports
    EffectLife          a plugin from effects_add to effects_remove
    Worker              the thread of a plugin; implements EventQueue
    EffectCycle         one cycle of ProcessPlugin against bypass and CV
    PropertyRings       the two property rings of an effect
    AudioMonitors       the level monitors
    Transport           transport, tempo, position and their reports
    Conversions         values of CV sources and controllers
    MidiMap             the list of MIDI controllers
    GlobalMidi          its lookup, store by store
    Assignments         the Control Chain assignments
    HmiAddressings      the HMI addressings and the widgets
    SerialRing          the bytes between mod-host and the HMI service
    CommandStream       the bytes of the command socket
    SocketServer        connections and the stop of the server
    HostLife            start and end of the host

    PostEventsProofs    PostEvents
    MonitorClientProofs MonitorClient
    PluginProofs        EffectLife, Worker, SyncParams
    CycleProofs         EffectCycle, Transport, PropertyRings
    MidiProofs          MidiMap, GlobalMidi, Conversions
    PostFeedbackProofs  PostFeedback
    ServiceProofs       AudioMonitors, HmiAddressings, Assignments, SocketServer,
                        HostLife, SerialRing, CommandStream
    Recursion           induction and recursive functions, for the others

    MCPlugins           EffectLife, Worker and SyncParams in one run
    MCEngine            thirteen of the others in one run
    MC<module>          instances for TLC

**RtMemPool** - the two lists of `rtmempool.c` as sets of nodes; each operation
is one step because it holds the pool's mutex.

**PostEvents** - one action per atomic step of the code.  Producers do `Reserve`
(allocate and fill), `Enqueue` (`list_add_tail` under the mutex) and `Post` (the
`if (needs_post)` at the end of the cycle) separately, since the feedback thread runs
in between.  They are the effects' own clients and the threads `Outside` of them: the
global client's, Control Chain's, the UI's.  An outside thread finds an assignment
first (`LookUp`: a MIDI slot, the learning slot, a Control Chain record) and reports on
its effect later; only `RemoveInnerPre`, which clears the assignments (`mapped`), keeps
it from finding more, and what it has found stays in `task`.  `stray` remembers the events
queued after that.  Events that nobody posts for are in `silent`: those of `set_bpm`
(`SetTransport`) and those of a transport parameter (`EnqueueTransport`), unless the
second event, which the post depends on, finds a node (`Reserve`, or else `GiveUp`).
`RunPostPonedEvents` is `Splice`, `Deliver` (the backward walk), `FreeNext` (one
node of the forward walk), `EndBatch` and `DataFinish`, for either consumer.  The
feedback thread is `TestRunning`, `TakePost`/`WaitTimeout`, `CheckReady`.  A command
goes through the labels of `pc["command"]`: stop (flag and post), join,
deactivate, pre (`effects_remove_inner_pre`), the flush or the drop of all events,
cleanup, restart.  `running` keeps its three values, since the restart after
`effects_finish` is decided by -1.  An event is reduced to "makes feedback" and
the effect it names.

**PostFeedback** - kinds, keys and values of events; `Begin` splices and clears
the caches, `Skip`/`Send` are the cases of the backward walk, `Forward` the logs,
`Return` the end.  `Remove`, `MonitorOff` and `FeedbackRun` are the three callers with
the effect each ignores.  `Summary` says without caches what a batch should yield.

**MonitorClient** - `ProcessMonitor` access by access (read the fields, store
`smooth_volume`, store `muted`, answer `wait_proc`, answer `wait_volume`) against the
steps of `effects_processing_enable`, `wait_audio_cycle` and the HMI's gain.  A
command is the sequence of its steps (`Program`).  The variable `history` records
what may have gone wrong - a store within a cycle, a timeout, a change of the gain -
for properties that hold until it has.

**SyncParams** - one action per command (`SetParameter`, `SetParameterMulti`,
`FlushParameters`, `FlushParametersMulti`, `PreRun`, the three removals) against the
audio cycle that takes the mutex (`TryLock`) and writes one value after another
(`ApplyNext`).  A pointer remembers how its effect was deleted, if it was.  The
variable `latest` is what each port was last asked to be; it is given up for a
port that was set at once while older values for it were scheduled (they are
applied after it), and for one set by a `multi_params_flush` that names an
unknown symbol (the values after it shift by one port, `effects.c:7180`).

**EffectLife** - `effects_add` is one action per group of calls that can fail, each
with its error exit (`AddFail`, then the removal); the ports are added by kind.
What `effects.c` believes (`lv2_activated`, `jack_activated`) and what is the case (`lv2`,
`jack`) are separate variables, since every call of JACK may fail.  `held` is what
the slot owns, including what later commands add to it (`MonitorParameter`, `CvMap`,
`CvUnmap`).  The removal, alone (`RemoveBegin`) or of several (`RemoveOfMulti`), frees it
in the order of the code (`FreeLists` to `FreeRest`) while callbacks may run as far as
JACK was not stopped; what is still held when `InstanceDelete` clears the slot is
`leaked`.  A wait for the processing to be off (`Waited`) ends with a cycle of the monitor
client: a plugin that JACK runs before it (`upstream`) is over then, another one need not
be.  Commands that enter the plugin (`PreRunBegin`, `StateLoadBegin`,
`PresetLoadBegin`, `CallLock`, `CallEnd`) and JACK's callbacks (`ProcessBegin`,
`ResizeBegin` and their ends) meet over `mutex`.

**Worker** - a message is two writes (`ScheduleSize`/`ScheduleBody`,
`RespondSize`/`RespondBody`) and is read as one (`TakeRequest`, `EmitResponse`); creation
and end are split where the thread can run in between (`WorkerCreate` before
`WorkerRings`; `FinishExit`, `FinishPost`, `FinishJoin`).

**EffectCycle** - `ProcessPlugin` as a sequence of the reads of what others write:
`CvLook`/`CvLock`/`CvUse` for each CV port, `RunPlugin`, `WriteOutput` for each MIDI
output, `CycleEnd`.  The commands are `BypassStore`, `BypassEnabled`, `BypassMulti` and the
two halves of `cv_map`/`cv_unmap` (`Swap`, `FreeSource`).  `SetControl` is everybody else
who sets the port that a source is mapped to, at any moment.  Notes and levels of CV are
reduced to "sounds" and "low/high".

**PropertyRings** - `WriteKey`, `WriteAtom`, `QueueOutput` of the cycle against
`TakeOutputs`, `ReadSpace`, `ReadValue`, `ReadDone` of the feedback run and the flush of
other commands; `SetProperty`, `SetVector`, `GetProperty` against `ReadProperty` of the
cycle.  `Forged` is what the code makes of the words of a command.

**AudioMonitors** - the command in its parts (`GrowMonitors`, `FillMonitor`,
`CountMonitor`; `UncountMonitor`, `ReleaseMonitor`), the cycle entry by entry, the
reports one by one.

**Transport** - `UpdateGlobalJackPosition` is run by two threads (`UpdateBegin`,
`UpdateReport`, `UpdateQueue` with the thread as a parameter); the cycle is MIDI, update
and timebase in this order; `Carry` and `Advance` are the arithmetic of the position.
Every call of `JackTimebase` that does not compute the position anew advances it; the
calls are JACK's, which makes one per cycle while the transport rolls on, none in the
cycle in which it is only about to roll, and one for a new position.

**Conversions** - pure arithmetic in fixed point, with limits that are even in its unit: `CvPortRange`, `ControlRange`,
`CvSource` are the ranges, `CvValue`, `CvBypass`, `MidiValue` the conversions.  The initial
states are all mappings of the limits given, the steps raise the source's value.

**MidiMap** - the list as functions from slots to owner, symbol and controller,
with the two marks; `LearnBegin`/`LearnEnd` are the two halves of
`effects_midi_learn` between which the realtime thread can run, `HearUnassigned` and
`LearnController` the two halves of the realtime thread.  Other writes of a command
to one slot are one step here and are split in **GlobalMidi**: there a command is a
sequence of stores, executed one by one while the lookup goes through `SearchSlot`,
`LookController`, `ApplyController` and `ReportController`.

**Assignments** - the list per device and the library's own assignments
(`cc_held`, external); a removal of everything zeroes and marks slot after slot
(`ZeroSlot`, `MarkSlot`, in the order of the loops), an update reads field after field (`UpdateSlot` to `UpdateApply`).

**HmiAddressings** - the array, the pointers of ports and of plugins, and a
plugin's widget call in two reads (`WidgetBegin`, `WidgetRead`).

**SerialRing**, **CommandStream** - bytes.  `WriteEvent` publishes its bytes with
the store of `head`; `Recv` gets any prefix of what has arrived, `CommandsIn` and `Cuts`
are the loop that cuts it.

**SocketServer** - `socket_run` descriptor by descriptor, `socket_finish` in its five
steps, the two reads of `socket_send_feedback`.

**HostLife** - one action per thing that `effects_init` makes, with its error exit,
and per thing that `effects_finish` frees; `Needs` says what each thread touches.

## 3. What TLC checks

Times are for two workers.

| Run | Question | Bound | States |
|---|---|---|---|
| `post_events_safety` | the safety properties and the refinement of `EventQueue`, with transport events, removal, remove-all, monitoring on and off, shutdown, unasked `output_data_ready` and failing deactivation | 1 effect and an outside thread, 2 nodes, semaphore counts to 2 | 3.9 M, 2 min |
| `post_events_removal` | does an event outlive its effect? removals of one, of two together (is one flush enough?) and of all, with assignments that the outside thread reports on | 2 effects, 1 outside thread, 2 nodes (both symmetric), binary semaphore, no failing deactivation | 5.3 M, 2 min |
| `post_events_live` | drained queue, returning commands, thread running afterwards, with events that nobody posts for | 1 effect, 1 outside thread, 1 node, binary semaphore, no failing deactivation | 0.17 M, 2 min |
| `post_feedback` | batches against `Summary`; the client's final view | 2 effects, 1 symbol, 2 values (symmetric), 5 kinds, 4 events | 6.2 M, 1.5 min |
| `monitor_client` | waits, fades, mute, all threads, timeouts | 3 levels, semaphores count to 2 | 0.95 M, 1.2 min |
| `plugins` | `EffectLife`, `Worker` and `SyncParams` | see below | 0.5 M, 1 min |
| `engine` | thirteen modules | see below | 1.7 M, 2.4 min |
| `monitor_client_muted`, `bypass_multi`, `outputs_silenced`, `vector_hangs`, `post_events_stray` | *violations*, see the findings | | |

**Runs of several parts.**  The parts of `plugins` and of `engine` have no variable in
common and no actor who is in two of them.  The initial state chooses the part
that moves, and the others keep one initial state: the state space is the sum of
theirs and not the product.  Each part is explored in full, and the properties of
the others hold trivially meanwhile.  A model whose components share state would
need the product; these are split along the data that the code shares, so that
every interleaving the code has over one piece of data is within one part.

| Part | Bound | Why it is enough |
|---|---|---|
| `EffectLife` | six of the twenty-four kinds of plugins | between them every hint, and an unsafe state with and without a live plugin; the proof is for all kinds |
| `Worker` | requests of two sizes, a ring for six units, semaphore to 3 | two requests that fit, a third that does not; a body of another size |
| `SyncParams` | 2 effects of one plugin, 1 port and an unknown symbol, 2 values, lists of up to 2, 3 scheduled | room is left for one, two or no values by commands for one and for two effects; a cycle is interrupted between any two values; the one port is also the reset port |
| `EffectCycle` | two outputs without, none with a port for `lv2:enabled`; 2 sources | a source is freed while the other is in use; an output is passed by after one is done |
| `PropertyRings` | a ring of 7 units, 3 values | a value fits, a second is cut or dropped |
| `Transport` | 2 ticks per beat, 2 tempos, meters of 3 and 4 ticks, 3 frames, 2 orders | a bar with half a beat, a tick that skips a beat, two threads that report at once |
| `Conversions` | limits below, at and above the defaults, a step of 0.5 and values past the ends | all modes, all flags of a port |
| `SerialRing` | 11 bytes, texts of up to 2 | an event that fits exactly, one that wraps in every field |
| `AudioMonitors` | 2 ports (symmetric), 2 levels, 2 events | a monitor removed while another reports |
| `MidiMap` | 2 plugins and the global effect, 3 slots, 2 controllers, a known and an unknown symbol | a freed slot before, between and after used ones |
| `GlobalMidi` | 2 ports, 2 slots, 1 channel, controllers 0 and 1 | 0 is what a cleared slot has |
| `Assignments` | 2 effects, 1 symbol, 1 device, 3 ids | a pair and a single |
| `HmiAddressings` | 3 ports of 2 effects, 2 actuators, 2 entries | an entry is given again, none is left |
| `CommandStream` | a buffer of 2 bytes, 3 commands of up to 4 bytes | commands shorter than, as long as and longer than the buffer, several in one |
| `SocketServer` | 4 connections | two clients one after the other, each with its feedback |
| `HostLife` | none | finite |

Why the bounds are enough.  Two nodes make a batch with an order, an empty pool and
a node freed while another is queued; two producers, one that a removal stops and one
that it does not, compete for them.  A third
thing can only repeat a role: there are two consumers and the events of further
effects are alike.  A counting semaphore saturated at 2 keeps every state that
matters: a post that is lost at the limit is one that the pending posts make
superfluous; the limit 1 is the futex build's own.  One node is enough for
liveness, since a longer queue is drained by the same splice; with it a transport
parameter never finds its second node, with two (`post_events_safety`) it may.  In `PostFeedback`
four events suffice for an old and a new value of one topic with another topic
and a run of a different kind around them; five kinds stand for the five
treatments.  In `MonitorClient` three levels give a fade that lasts longer than
one cycle.

What the passing runs show beyond the obvious: that the three hand-written
stop-flush-restart sequences do exclude the feedback thread and flush the right
events; that the one way for an event to outlive its effect is an assignment looked up
before and reported on after the removal (`EventsNameInstances`, `AllEffectsValid`); that
a post may be consumed while the client is not ready, but then the client's answer
posts again (`NoLostWakeup`, `QueueIsDrained`), and that an event without a post is taken
by the next post of anybody; that the flag is never
cleared without a `data_finish` on its way (`HandshakeNeverStalls`); that a wait may
be answered early after a timeout, but by one stale post at most; that the cached
summary is the uncached one; that remove-all leaves no hole before the global
effect's mappings; that a lookup is torn only by a command for the very mapping it
has found; that two writes are read as one message because there is one writer,
and a worker never touches rings that are not there yet; that all a plugin owns is
freed in an order in which nobody uses it any more, but for two things that are never
freed; that a plugin is not run
while its state is restored, live plugins excepted; that the notes of a bypassed
plugin end however the bypass falls into a cycle; that the transport is reported
although either thread may take note of the other's change; and that every
conversion is monotonic and reaches both ends of its range.

Some properties hold but for exceptions that the code has, named in their
comments and remembered in ghost variables (`stray`, `silent`, `leaked`, `mishap`, `torn`, `starved`, `stranded`,
`split`, `cut`, `untold`, `drift`, `spoiled`, `late`, `severed`).  Each was found by the run that
fails without it.

### Fairness

`PostEvents!Fairness`: the feedback and command threads are scheduled (weak
fairness); a process cycle ends, so a reserved node, the second half of a transport
parameter, the report on an assignment that was looked up, and a due post are not kept
(weak for `Progress`, strong for `Post` and `Deactivate`, because both are disabled
while the same producer goes on queueing within a cycle, and cycles end);
the client answers `data_finish` (strong, since the command thread may be busy
when it does).  Nothing forces producers to produce or commands to be issued.
The answer of the client is an assumption about the client; without one,
`HandshakeNeverStalls` still says whose turn it is.  `MonitorClient!FairSpec`: JACK
goes on calling the process callback and the command thread runs; no wait is
made to time out.

`Worker!WorkerFairness`: the thread runs, a cycle that has begun to write a request
writes its body, and the command that removes the plugin goes on.  That a plugin
is ever removed is not assumed.

### Findings

Each of the first five is a counterexample to what a comment or the README of
the repository says, shown by a run.

1. A cycle ending a fade-out stores `muted` over the clear of a fade-in
   (`monitor-client.c:374`): the client stays muted at full volume.
   *monitor_client_muted*.
2. `multi_bypass` does not store into `effect->bypass` (`effects.c:7844`): a plugin
   without a port for `lv2:enabled` goes on as before.  *bypass_multi*.
3. The loop over the events that pass through a bypassed plugin overwrites the
   index of the loop over its outputs (`effects.c:2493`): outputs are jumped over
   and their notes go on.  *outputs_silenced*.
4. `patch_set` of a vector of two elements never returns (`effects.c:7408`).
   *vector_hangs*.
5. The realtime thread that has looked up an assignment (`effects.c:3119`, 3089; Control
   Chain's at 4295) can queue its event after the removal has flushed the list: the next
   batch is about an effect that is gone, and its symbol is in freed memory, although
   "all effects are valid" (1836).  *post_events_stray*.

The rest were met in the same way, and are excepted from the properties that they
would break:

* `effects_remove` returns in the middle when `jack_deactivate` fails
  (`effects.c:6609`), after stopping the feedback thread, which is "start[ed] again"
  only at the end (`FeedbackRunsBetweenCommands` with `DeactivateFails`).
* `monitor_output_off` for one port flushes with the effect as the ignored one
  (`effects.c:7750`): every queued value of the effect's other ports is dropped.
* `monitor_client_wait_proc` leaves its flag raised when it times out
  (`monitor-client.c:759`); the next wait takes the late post and returns before a
  cycle has passed.  A cycle that began before the volume was set answers
  `wait_volume` at once, and a cycle stores its `smooth_volume` over the one
  `flush_volume` set.
* `midi_map` of a port being learned leaves it learning (`effects.c:8068`), and the
  next unassigned controller replaces the mapping.
* `effects_remove_multi`, unlike `effects_remove` (`effects.c:6597` and 6627), neither
  applies the scheduled values nor clears the pointers of
  `effects_set_parameter`; `multi_params_flush` with an unknown symbol gives the
  later values to the wrong ports (7180).
* The monitors of `monitor_parameter` (`effects.c:7707`) and the CV source of a port that
  is still mapped (8580) are not freed with their plugin (6404-6543).
* `monitor_midi_control` stores into an array that nothing reads (`effects.c:9516`); the
  cycle asks the one of the programs (3161).
* `effects_add` frees `plugin_uri` twice when `jack_activate` fails (5984, 6077), and a
  failing JACK call leaves `jack_activated` raised.
* A live plugin with an unsafe state is processed without the state mutex and
  unlocks it afterwards (2048).
* A CV source declared narrower than the range of its mode is divided by the
  wrong width (8684), so that the value leaves the port's range.
* `patch_get` writes into the ring without asking for room (7667); a property
  whose event found no node in the pool stays in the ring (2549).
* `set_bpm` queues a transport event and posts nobody (8188); a transport parameter
  that finds a node for its own event and none for the position's posts nobody either
  (2685, 2815).  Both wait for the next post of anybody.
* A CV source that comes back to the value it remembers is ignored (2286), although
  somebody else has set the port since (6989).
* `processing_enable` waits for a cycle of the monitor client (`monitor-client.c:301`,
  377), which need not have waited for plugins that it does not hear: a pre-run may meet
  their cycle.
* A command of exactly the size of the receive buffer, without a NUL, waits for
  more (`socket.c:351`), and `socket_send` to a connection that is gone never ends
  (`socket.c:269`).
* An error exit of `effects_init` leaves threads behind, which an internal client, unlike
  a program, does not end; and as an internal client the monitor client survives
  `effects_finish` (5022).
* `midi_learn_cb`, `midi_map_cb` and `midi_unmap_cb` (`mod-host.c:448-469`) respond with
  the logical negation of the result, never with a negative number.

## 4. What is proved

All theorems hold for every value of the constants that satisfies the module's
assumptions (a non-empty semaphore range, distinct markers, a finite set of ports, rings at
least as large as a header; no bound on the number of effects, nodes, levels, slots,
messages or connections).

**PostEventsProofs.** The invariants build on each other:

* `TypeCorrect`: types.
* `ControlInv`: how the program counters, `running` and `op` go together - past the join
  the feedback thread is dead; with `running = 1` it is not and no command is past its
  stop; `running = -1` belongs to `finish` alone.  It gives `ConsumersExclude` and
  `StaysClosed`, and, if deactivation never fails, `FeedbackRestarted`.
* `HandshakeInv`: `HandshakeNeverStalls` and `FeedbackOnlyWhenReady` together, inductive
  given that a command that clears the flag has a dead feedback thread (`ControlInv`).
  It gives `HandshakeCorrect`.
* `WakeInv`: strengthens `NoLostWakeup` to the time a batch is being sent: an event that
  its producer posts for and that was queued after the splice already has its post,
  pending or due, so that the end of the batch (by the thread, or by a command that then
  restarts it) loses none.
* `LocalInv`: a local queue is empty outside of the labels that use it; with it
  `NodesConserved` is inductive.
* `EventInv`: the producers that a removal stops are active effects, and active effects
  exist; an effect with an assignment exists until its assignments are cleared.  From the
  end of processing on the removed effects' own clients make no events, from the clearing
  on nobody finds their assignments, and after the flush (`Removing`) none on the list
  names them but the strays, queued by a thread that had found one before.  It gives
  `EventsAreLive`.
* `PipelineIsQueue`: the refinement.  `Enqueue` maps to `Put`, `FreeNext` to `Get`, the
  splice moves events along the concatenation, and everything else stutters; that
  the other consumer's local queue is empty at that time comes from `LocalInv`.

**MonitorClientProofs.** `StaleInv` strengthens `AtMostOneStalePost` by what holds during
a wait: flag and count together are at most two while the thread waits, one
otherwise; that every ask is followed by its wait (`Paired`) is part of it.  `CycleInv`
says the same with one less until a wait has timed out, and that a post is then
proof of a cycle.

`FadeInv` is the invariant behind `FadesAreSound`: what is left of a command is a tail of
its program (`TodoInv`); without a timeout no post for a fade is left over
(`VolumeWaitInv`); without a store inside of a cycle the cycle works on the fields as
they are, and `muted` implies silence or an HMI thread about to unmute (`MixInv`); so the
post that a fade-out takes was made at silence (`FadeOutSilent`, `MuteNowSilent`).  That
the HMI thread is never about to unmute unnoticed (`GainKnown`) closes the induction.

**MidiProofs, the list.** `MapInv`: the end mark ends the list, ports have one slot, slots
name existing ports, and the learning slot is in use, together; none is inductive
by itself (that `Mapped` only looks at reached slots needs the first for the second).
`MidiListCorrect` states them as `MappingsSound`.

**MidiProofs, the lookup.** `StoresInv` says which stores a command has left and what those
before have made of its slot: the symbol is stored while the slot is not in use, and
the `effect_id` when the symbol is there.  So a slot in use has the symbol of its port
(`InUseInv`), and a lookup that nobody spoiled still sees what it has seen
(`LookupInv`).  It gives `LookupNeedsNoLock`.

**ServiceProofs, the HMI.** `HmiInv`: an addressed port is one of an effect that exists, its entry is in
use and its own, and every entry in use has one (`UsersInv`); a plugin knows the entry of
its port or none (`KnownInv`); a widget call that is not late is about that entry
(`WidgetInv`).  `MinIsIn`, that the first free entry is a free one, comes from the
well-foundedness of the natural numbers.  It gives `AddressingsAreSound`; the number of
ports has to be finite for the count in the property.

**ServiceProofs, the monitors.** `HeardInv` is the property's last conjunct; it needs that the cycle
is in the array only with the mutex (`CycleInv`), so that an entry is not removed under
it, and that an entry is filled with level 0 before it is counted (`ArrayInv`).

**PluginProofs, the life.** `LifeInv`: types; JACK calls nobody whose client it does not run, and
there is no client while an effect is made or freed, unless a deactivation failed
(`ClientInv`); what a plugin in use is made of is held (`BuiltInv`), what the removal has
freed so far is not (`FreedInv`), and a worker has its instance, a port its client
(`OwnerInv`); `plugin_uri` is freed once (`UriInv`); who has the mutex at each step of a cycle, a restore and a pre-run
(`MutexInv`); what the flags say until a call of JACK has failed (`FlagInv`); and that a
pre-run found the plugin active and no cycle that could run it (`PreRunInv`).  It gives
`NothingIsLeft`, `NothingUsedIsFreed`, `FlagsAreTrue` and `PluginIsAlone` for every set of kinds of plugins; the
run has six.

**ServiceProofs, the socket.** The server knows every connection that is up until it closes it
(`KnownInv`), the published ones are its own (`PublishedInv`), and there is no server
socket any more when the clients are shut down, so that only a `recv` that waits already
can be met, and its connection is down (`StopInv`).  It gives `ServerIsStopped` for every
number of connections.

**PluginProofs, the worker.** `PhaseInv` says where the client is by whether there are a
thread, rings and a request in the making; `Whole` says of a ring that it is a
sequence of headers each followed by its own body, the last one perhaps by what the
writer still owes.  Together with `NoSleepOnWork` (`WorkerInv`) they are inductive and give
`RingsSound`.  For `WorkerIsQueue` the ring is read as the sequence of requests behind its
headers: `ScheduleBody` maps to `Put`, `TakeRequest` to `Get`, everything else stutters.

**PluginProofs, the parameters.** `SyncInv`: types (the fixed array of scheduled values is
not overrun), `RemoveLeavesNoDangling`, which is inductive once a removal is known to drop
the entries of its effects, and `ValueInv`: `LastValueWins` holds at every moment if what
is still to be written (`Remaining`) is taken as written (`Applied`).  A cycle that is
interrupted between two values moves one entry from the one side to the other.

**CycleProofs, CV.** `CvInv`: a port's mutex is the cycle's exactly while it uses the source
the port has (`MutexIsUse`); what is allocated is what the ports have, with what a
command is about to give or has just taken away (`OwnerInv`); what a source remembers is
the port's value unless somebody else has set the port or a change missed its source
(`MemoryInv`).

**CycleProofs, the notes.** `NotesInv` says what a cycle owes the bypass at each of its steps
when nobody changes it meanwhile: no note inside the plugin after the MIDI input, none
behind the outputs already written.  One disjunct per step, since the code ends
notes in three places.

**CycleProofs, the transport.** `ReportInv`: either the newest report is the state of the
transport, or a thread is about to make it; and a thread that only looks for changes
misses none that the other has noted.  `PositionInv`: the position is where its frame is,
counted from the last frame at which the tempo changed (`Placed`), also between JACK's
move of the frame and `JackTimebase` (`PlacedFrame`); that the frame moves exactly when
`JackTimebase` is called is the rule of JACK that the proof rests on.  The arithmetic of `FromFrame` and
`Advance` is proved for all tempos, meters and resolutions; the run has two of each.

**CycleProofs, the property rings.** A write that has begun has room (`RoomInv`), the ring
holds the values not yet sent, three units each and in order, of the last one perhaps
the key alone (`OrderInv`), and a non-empty ring has an event or a reader (`ReadInv`);
`WholeInv` is the same for the ring to the plugin.

**PostFeedbackProofs.** `BatchInv` are types and the place of the walk.  `TopicInv`: the
newest value of a topic is on the list, or in the part of the queue that the walk has not
seen while its topic is not cached, or at the client.  It gives `OthersUpToDate`.  For
`BatchIsSummarised`, `Summary` is a recursive function on prefixes, and `SummaryInv` says that
the caches hold exactly the topics sent so far (`CacheInv`) and that what was sent is the
summary of the part walked (`SentInv`), first of the backward and then of the forward
walk.

**ServiceProofs, the assignments.** The library's ids are disjoint (`HeldInv`); a slot in
use shows an assignment or is of the effect being removed, and nothing follows the end
mark (`SlotsInv`); every id is shown, about to be, or being unmapped (`ShownInv`); each
command's own reliance on this is `TaskInv`; an update that nobody spoiled finds its
port or an empty slot (`UpdateInv`), since a slot is emptied before it is marked.

**ServiceProofs, start and end.** `MadeInv` and `AliveInv` say which things exist and which
threads run at each step of `effects_init` and `effects_finish`.  The model has no
constants, so the run is exhaustive; the proof is there for its reasons.

**ServiceProofs, the serial ring.** `Placed(o)`: the events lie one behind the other from the
tail on, `o` being their ends; each byte is that of its event; head, writer and reader are
at such ends.  The lemmas are about going around a ring of any size.

**ServiceProofs, the stream.** `Laid` says where the commands not yet delivered begin in what
is received followed by what is in the pipe.  A `recv` that does not cut ends behind a
command, or between a command and its NUL (`LaidFind`); the loop then finds exactly those
commands (`LaidSplit`), and what remains is laid again (`LaidRest`, `LaidMore`).
`StreamInv` adds what the inner loop holds back while the buffer grows (`GrowInv`).

**MidiProofs, the conversions.** `ConversionsInv` only says which mappings there are; the
work is in lemmas about integer division and rounding (`DivMono`, `PartIs`, `RoundedIs`) from
which each conversion's range, ends and monotonicity follow.  The limits of CV are
assumed even in units of the fixed-point grid, so that the half of a range is on it.

**Recursion.** Induction with a set in the place of the predicate (`SetInduction`,
`BoundedInduction`) from the well-foundedness of the natural numbers, and the existence of
functions defined by recursion (`PrimitiveRecursion`).  This is how the proofs above treat
sequences of any length, without the library's induction theorems.

Only model-checked: the temporal properties `QueueIsDrained`, `CommandsReturn`,
`WaitsReturn` and `WorkerLives`, since the installed provers treat neither fairness nor
ENABLED.  Every safety invariant and refinement of the passing runs is stated by a theorem.  The
findings are counterexamples of runs and have no theorem.

## 5. Not modelled

Samples, and the copies of buffers between JACK and LV2; lilv, JACK and the file
system beyond the calls that the control flow depends on; the text of messages.
The following parts of the code are left out:

* `protocol.c` and the callbacks of `mod-host.c`: matching of command strings and one
  call each, without state.  `HMIClientThread` (`effects.c:1846-1926`), which turns each
  event it reads into one such call.
* Ports, compressor and life of the monitor client; the aggregated MIDI client
  (`effects.c:9258-9364`); CPU load.
* The log and the requests of plugins to change a port (`effects.c:4062-4254`), the
  former being one event each in `PostEvents`.
* `symap.c`, `uridmap.c`, `lv2_evbuf.c`: sequential data structures.  `completer.c`, `filter.c`, `monitor.c`, `fake-input.c`, `state-paths.c`, the
  DSP: no interleaving and little state.
* Ableton Link and the variants of one device, which are build options; the
  logarithmic scale of CV.

A semaphore's internal futex protocol is taken as a semaphore.  In `PostEvents` an
assignment is a flag per effect, and what an outside thread finds is the effect alone;
which slot it came from, and slots read half cleared, are in `GlobalMidi` and `Assignments`.
`EffectLife`, `EffectCycle` and `PostEvents` meet in the instance, but are not composed:
`PostEvents` takes from the others only that an active plugin may queue events.

## 6. Plan

1. Abstract specifications to refine: a mailbox of last values for `SyncParams`, a
   lossless stream cut into messages for `CommandStream`, with their mappings proved.
2. Action properties of the parts that have invariants alone (what a step of the audio
   cycle may never store, what a removal may never touch).
3. *Symap* (the index stays sorted under insertion) and *EvBuf*.
4. The composition of `EffectLife` and `PostEvents`, with the pool as their interface.
