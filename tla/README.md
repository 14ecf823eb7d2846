# TLA+ models of the auteur mixer and stream producer

This directory holds TLA+ specifications of the two parts of `src/`: the
media fan-out `StreamProducer` (`src/server/src/utils/stream_producer.rs`) and
the `Mixer` node (`src/server/src/mixer.rs`). It also holds TLC models that
check them on small instances, and TLAPS proofs of the producer's safety
properties for every instance.

## 1. The system

**StreamProducer (C1).** This is a GStreamer `appsink` whose samples are
dispatched to the `appsrc`s of its consumers. Its state is a
`StreamConsumers` record behind one mutex:
- the map from link id to `StreamConsumer`, each with its appsrc and two
  atomic flags, `forwarded_latency` and `first_buffer`;
- `discard`, `current_latency` and `latency_updated`.

Three kinds of threads touch the record:
- The node actors call `add_consumer`, `remove_consumer` and `forward`.
- The appsink's streaming thread runs the `new_sample` and `eos` callbacks.
- Whichever thread delivers an upstream Latency event runs the sink-pad probe.
  A downstream ForceKeyUnit event reaches the appsink through a probe on each
  consumer's appsrc.

`new_sample` takes the lock, forwards the latency and the keyframe requests,
snapshots the appsrcs, **drops the lock** and then pushes the sample to each
snapshotted appsrc.

**Mixer (C5 to C8).** This is an actix actor, so one handler runs at a time
on the actor thread. It owns:
- a pipeline with a `compositor` and an `audiomixer`;
- a map of `ConsumerSlot`s, one per link, each with its two request pads and,
  once connected, two bins fed by appsrcs that are consumers of upstream
  `StreamProducer`s;
- settings, among them the controllable `fallback-timeout`;
- a state machine Initial, Starting, Started, Stopping, Stopped;
- two mixing states, each behind a mutex. They hold:
  - the slot controllers, keyed by `slot_id + property`;
  - the mixer controllers, keyed by setting name;
  - the base-plate fallback state;
  - `last_pts`.

The compositor's and the audiomixer's streaming threads run the
samples-selected callbacks, which hold the mixing-state mutex for the whole
callback.

The handlers are Connect, Disconnect, slot AddControlPoint and
RemoveControlPoint, mixer AddControlPoint and RemoveControlPoint, Start,
Schedule, Stop, the ErrorMessage sent to itself, GetNodeInfo and
GetProducer.

**How the parts interact.**
- Connect and Disconnect add and remove the slot's appsrcs as consumers of
  the upstream producers.
- `start_pipeline` connects every existing slot, links the base plate to a
  new compositor pad, and assumes that pad is named `sink_0`.
- The video callback finds the base plate by the name `sink_0` and decides
  from the other pads whether only the base plate produces.
- Control points are pushed by the actor and applied by the callbacks.

**Hard behaviours.**
- Actor steps interleave with streaming-thread steps.
- The producer pushes with no lock held.
- Request pads are named by a serial that GstAggregator never reuses.
- Failures happen midway through a handler.
- A setting's value is captured at start and then changed by a controller.
- A `.unwrap()` runs in a streaming thread.
- The asynchronous Playing request can fail.
- The actor can stop while the callbacks still run.

## 2. Modules

| module | models | state | actions |
|---|---|---|---|
| `StreamProducer` | stream_producer.rs | consumers map; discard; latency; per-appsrc flags; pending pushes of the current tick; and, outside the producer, each appsrc's latency, whether it has received samples or EOS, and whether a ForceKeyUnit reached the appsink while it was attached | AddConsumer, RemoveConsumer, Forward, LatencyEvent, ForwardKeyUnit, NewSample (the locked part), PushSample (one push), EndOfStream |
| `StreamFanout` | the producer's contract (spec §4.1) | the same state without the per-consumer flags and `latency_updated` | Attach, Detach, StartForwarding, LatencyChange, RequestKeyframe, Tick, Push, EndStream |
| `StreamProducerProofs` | proofs | | TypeCorrect, IInvHolds, LatencyUpToDateHolds, KeyframeBeforeFirstSampleHolds, FanoutRefinement |
| `MCStreamProducer` | TLC model | 2 ids, 3 appsrcs, 2 latencies, 3 samples | |
| `Mixer` | mixer.rs | actor state and schedule flags; an ErrorMessage waiting in the mailbox; pipeline status; slots (pad serial, bins); pad serial counter; requested pads; base plate pad; upstream consumers; the three controller maps (point-id sets and the target pad); fallback-timeout setting and the value captured at start; base-plate state; `sink_0`'s alpha; last_pts; the history variable `alone_since` (start of the current run of ticks with only the base plate) | one action per handler, Actor::stopped inside Stop, EndTime and ErrorReceived; StartPipeline and StartPipelineFails; PipelineFailed; PipelinePlaying, PipelineReady, PipelineNull; VideoSamplesSelected, VideoCallbackPanics, AudioSamplesSelected |
| `MixerSlots` | the actor's contract with the producers (spec §7, §4.3) | lifecycle phase; links with a slot; links attached as consumers | AddSlot, RemoveSlot, Begin, AttachSome, Ready, Halt, Abort |
| `MixerProofs` | proofs | | IInvHolds, TypeCorrect, UpstreamMatchesSlotsHolds, BasePlateAfterIdleRunHolds, RunningPhaseHolds, SlotsRefinement |
| `MCMixer` | TLC model | 2 links, one video, audio and mixer property, one point, timeouts {0,1}, 3 pad serials, pts 0..3, symmetry over links | |

### How the models correspond to the code

**StreamProducer.**
- Every critical section of the producer is one step.
- `new_sample` is split where it drops the lock. The snapshot step
  (`NewSample`) does everything under the lock:
  - the `discard` early return;
  - `mem::replace` of `latency_updated`;
  - the `forwarded_latency` compare-exchange with `set_latency` (`SetsLatency`);
  - the `first_buffer` compare-exchange with one ForceKeyUnit per tick
    (`RequestsKeyframe`).
- Each later push is a `PushSample` step. A push may fail; the code only
  logs it.
- A consumer is identified by its appsrc. The Mixer makes a fresh appsrc for
  every Connect, so an appsrc is added at most once (`used`).
- The pull_sample failure path returns before touching any state and is left
  out.

**Mixer.**
- *Pads.* A request pad is its serial. Connect, `start_pipeline` and
  Disconnect request or release the compositor and audiomixer pads together,
  so one set stands for both.
- *Controllers.* A controller is abstracted to the set of its pending point
  ids, plus its target pad for slot controllers. `synchronize` removes the
  points that came due and drops the controllers that are done.
- *Time.* pts counts frames.
- *Settings.* Only `fallback-timeout` keeps a value. A due point on it sets
  one of the point values.
- *connect_slot.* It is part of Connect (when Started) and of
  StartPipeline. Its failure in Connect returns after the pads were taken
  and before the slot is stored or a consumer added (mixer.rs:884): the same
  effect as a rejected config, so it is the `~configValid` disjunct of
  Connect. Its failure in start_pipeline's loop (mixer.rs:752) is
  `StartPipelineFails(done, failed)`: the slots in `done` were connected
  (bins, consumers), `failed` and the rest were not, the pipeline is left
  half built and the transition queues an ErrorMessage. `done = {}` also
  stands for an element-creation or linking error before the loop.
- *Errors.* `do_send(ErrorMessage)` only queues the message
  (`error_pending`); other messages run before `ErrorReceived`, which is
  Handler<ErrorMessage>: `ctx.stop()` and then Actor::stopped. A failed
  `set_state(Playing)` in the call_async closure is `PipelineFailed`.
- *The Schedulable state machine and the PipelineManager.* Their code is not
  under `src/`. `Start`, `Reschedule`, `PipelineReady`, `EndTime` and
  `PipelineNull` are modelled from the spec, §4.3.
- *Panics.* A panic in a streaming thread aborts the process
  (`VideoCallbackPanics`).

## 3. Runs

**`stream_producer`** (pass, 288k distinct states, 18 steps deep, `FairSpec`)
checks two invariants and two temporal properties.
- `LatencyUpToDate`: an attached appsrc that has accepted a sample runs with
  the current latency, unless an update waits for the next tick.
- `KeyframeBeforeFirstSample`: no appsrc accepts a sample unless a
  ForceKeyUnit was sent upstream since it was attached, in the tick of its
  first push or earlier. The sample pushed in that tick was pulled before the
  request, so this shows that the request is made, not that a consumer's first
  sample is a keyframe, and it does not check spec §8's "exactly one request
  per consumer".
- `LatencyEventuallyForwarded`: while samples flow, an attached appsrc
  eventually runs with the current latency (or leaves, or EOS comes).
- `FanoutRefined`: the model implements `StreamFanout` with the identity
  mapping (`latency <- current_latency`, `inflight <- pending`); the flags
  are hidden. Every snapshot tick is a `Tick`, every push a `Push`.

Three samples and three appsrcs are enough for the cases that matter:
- an appsrc added between two ticks;
- a Latency event between the snapshot and the pushes;
- a consumer removed and another added while pushes are pending;
- a failed first push.

**`mixer`** (pass, about 605k distinct states) checks two invariants and a
refinement.
- `UpstreamMatchesSlots`: a link is a consumer of its producers exactly when
  its slot exists with bins. This covers Connect, StartPipeline, Disconnect,
  the error path and Actor::stopped.
- `BasePlateAfterIdleRun`: while the base plate is shown, it has been the
  only pad with a sample on every tick of the video callback since more than
  the captured timeout ago. The idle run is recorded by the history variable
  `alone_since`: the pts of the first tick of the callback's latest run of
  ticks where only the base plate had a sample, and `None` after a tick where
  another pad had one. It is updated in the same step as the callback and is
  read by no action. The callback itself decides with its stored
  `base_plate_timeout`, so the property fails when that value stops matching
  the run: a missing reset when another pad has a sample (mixer.rs:584), or
  `>=` in the comparison (mixer.rs:572).
- `SlotsRefined`: the model implements `MixerSlots` under the mapping
  phase = the state machine's state while the actor runs and "Stopped"
  after; slots = the links with a slot; attached = `upstream`. Connect is
  `AddSlot` (or a stutter when it fails), Disconnect `RemoveSlot`,
  StartPipeline `Begin`, a start failing in its slot loop `AttachSome`,
  PipelineReady `Ready`, Stop, EndTime and ErrorReceived `Halt`, the
  streaming-thread panic `Abort`; everything else stutters. The contract
  attaches a slot added while Starting only at a later start, which never
  comes: that is the `connect_while_starting` finding seen from the
  producers' side.

Three pad serials allow two slots plus the base plate. Four pts values allow
three idle ticks after a real sample: set, wait, show. Timeouts {0,1} make
"after" and "at" the timeout differ.

Deadlock checking is off for the mixer, because the actor really terminates.
After Stop and PipelineNull nothing is enabled, and that is the intended end
of a mixer's life (spec §7: "Once Stopped, a mixer is discarded").

**`mixer_start`** (pass, 344k distinct states, `FairSpec`, no symmetry)
checks `StartSettles`: once the pipeline is being started, or a start has
failed, the mixer ends Started or stopped. Two links make a partial
start_pipeline failure possible (one slot connected, one not); `MaxPts = 1`
keeps the callbacks short, since the property is about the actor.
Symmetry is left out because it is unsound for liveness.

**`eos_late_consumer`** (violation, `FairSpec`) checks
`EndOfStreamReachesConsumers`: an appsrc attached at or after EOS is
eventually ended or detached. TLC finds EndOfStream followed by AddConsumer,
after which no step ever ends the new appsrc. Spec §4.1 says EOS is
signalled to every consumer source; the code snapshots the consumers once.

**Violation runs of the Mixer.** Each checks one property that the spec
states and the code breaks. They share MCMixer's constants.

| run | property | what TLC finds |
|---|---|---|
| connect_while_starting | SlotsAttachedWhenStarted | A Connect while Starting leaves a slot that is never attached |
| request_pad_leak | NoLeakedRequestPads | A rejected config or a Disconnect before start leaks pads |
| base_plate_on_slot_pad | BasePlateOpaqueIffShown | A slot connected before start owns `sink_0`, so the base plate is opaque when not "shown" |
| sink0_panic | NoCallbackPanic | Disconnecting the `sink_0` slot makes the video callback panic |
| stale_slot_controller | SlotControllersOnSlotPads | A controller created for a link outlives Disconnect; after the link id is reconnected it still targets the old pad (before start, a pad still requested but no longer the slot's) |
| remove_mixer_point | RemovedMixerPointsGone | Mixer RemoveControlPoint removes nothing |
| stale_fallback_timeout | FallbackTimeoutHonoured | After a control point changes fallback-timeout, the base plate still follows the value captured at start (a gap in the spec: §4.4 step 1 prescribes that snapshot, §8 makes the setting controllable) |

Each of these is listed as a finding in `PROJECT.json`, with the line it
comes from.

**Mutants.** Each passing property is broken by a plausible bug in the
mapped code.
- `SetsLatencyOnce`: latency is set only on the first sample.
- `RequestsKeyframeInverted`: the `first_buffer` exchange tests the wrong
  value (kills `KeyframeBeforeFirstSample` and `FanoutRefined`).
- `SetsLatencyOnce` also kills `LatencyEventuallyForwarded`.
- `PipelineFailedSilent`: a failed set_state(Playing) sends no
  ErrorMessage (kills `StartSettles`).
- `StoppedNoDrain`: stopped forgets `remove_consumer`.
- `DisconnectKeepsConsumer`: disconnect forgets `remove_consumer` (kills
  `SlotsRefined`).
- `HideBasePlateNoReset`: when another pad has a sample, the base plate is
  hidden but `base_plate_timeout` is not reset (kills
  `BasePlateAfterIdleRun`: after an interruption the old start of the wait
  shows the base plate at once).

**Fairness.** Only the liveness runs assume any, and only where the code
guarantees progress:
- StreamProducer: weak fairness of `NewSample` and of each `PushSample`.
  The appsink's streaming thread calls new_sample while samples are
  available, and the pushes are a loop in the same callback. Nothing is
  assumed of consumers, Latency events or EOS.
- Mixer: weak fairness of `ErrorReceived` (an actix actor handles every
  message in its mailbox while it runs), of the call_async closure's
  `set_state` (`PipelinePlaying \/ PipelineFailed`), and of `PipelineReady`
  (the pipeline manager reports a pipeline in Playing). Nothing is assumed
  of user messages, timers or callbacks.

## 4. Proofs

`StreamProducerProofs` proves the following for every value of the constants.
It uses only `StreamProducerAssumption`: `None` is not an appsrc or a latency,
and `MaxSamples` is a natural.
- `TypeCorrect`: `Spec => []TypeOK`.
- `LatencyUpToDateHolds`: `Spec => []LatencyUpToDate`.
- `KeyframeBeforeFirstSampleHolds`: `Spec => []KeyframeBeforeFirstSample`.

Neither property is inductive. Each is derived from the inductive invariant
`IInv` (`IInvHolds`), which TLC also checked on the MCStreamProducer instance
before it was proved. `IInv` is TypeOK plus:
- `Provenance`: attached, received and pending appsrcs were all added. This
  makes the appsrc of a new `AddConsumer` fresh, so no old fact constrains it.
- `LatencyForwarded`: a set `forwarded_latency` implies a known latency, and
  that the appsrc's latency is the current one unless an update is pending.
- `FedConsumersForwarded`: an attached appsrc that is received or pending has
  forwarded the latency once one is known and no update is pending. This is
  what lets a sample pushed from an older snapshot keep `LatencyUpToDate`.
- `KeyframeRequested`: a cleared `first_buffer` and every pending or received
  appsrc is in `keyframe_since`. This is needed because `new_sample` sends a
  ForceKeyUnit only if *some* snapshotted consumer flips its flag; the others
  rely on an earlier tick.

The step proof has one case per action. Each case establishes how `Attached`
changes, using the lemmas `AttachedAdd` and `AttachedRemove`, and then proves
each conjunct. The `new_sample` case splits further on `discard` and on
whether a keyframe is requested.

`StreamProducerProofs` also proves `FanoutRefinement`:
`Spec => FanoutRefined`. Initial states map to `FInit`; under `IInv` each
step maps to a `StreamFanout` step or a stutter. The hard step is
`NewSample`: the flags decide per consumer whether set_latency and a
ForceKeyUnit happen, yet the result must equal the abstract `Tick`, which
does both for all attached appsrcs. The lemmas `TickLatency` and
`TickKeyframe` show this from `LatencyForwarded` and `KeyframeRequested`.

`MixerProofs` proves, from `MixerAssumption` (the bounds and timeouts are
naturals, point values are timeouts, and `None` is no number, slot or controller):
- `IInvHolds`: `Spec => []IInv`, where `IInv` is the type invariant, plus
  `PadBound` (the pad counter is at most `MaxPads` while no pipeline exists,
  which keeps Connect's serials in range), plus `UpstreamMatchesSlots`.
  `UpstreamMatchesSlots` is inductive only together with the typing of
  slots.
- `TypeCorrect` and `UpstreamMatchesSlotsHolds` follow from it.
- `BasePlateAfterIdleRunHolds`: `Spec => []BasePlateAfterIdleRun`. It goes
  through `BInv`, which adds two conjuncts. `IdleTracked` says that the
  callback's stored `base_plate_timeout` equals `alone_since`: it is set on
  the first idle tick and reset on every other tick. This links the history
  to the value the code compares. `TimeoutCaptured` says that a timeout has
  been captured whenever a pipeline exists, and while the base plate is
  shown. Without it, the step where the video callback shows the base plate
  cannot compare against the timeout.
- `SlotsRefinement`: `Spec => SlotsRefined`. The initial state maps to
  `SInit`; under `IInv` and `RunningPhase` every step maps to a `MixerSlots`
  step or a stutter. `RunningPhaseHolds` proves `RunningPhase`: a running
  actor's state is Initial, Starting or Started, so a stop is a `Halt` from
  a phase that is not Stopped. The start steps need that setting the bins
  keeps a slot a slot, so the set of slotted links is unchanged.
The step proofs have one lemma or step per group of actions (connect,
disconnect, control points, the three stopping actions, the two start
actions, the video callback, and the rest).

Note on the tools: tlapm reads `SUBSET A \cup B` as `SUBSET (A \cup B)`
while TLC reads `(SUBSET A) \cup B`, so such expressions are written with
parentheses.

Out of the prover's reach, and left to TLC:
- liveness and ENABLED;
- what a recursive definition computes for every input;
- any module with a RECURSIVE operator.
So `LatencyEventuallyForwarded` and `StartSettles` are model-checked only.

## 5. Not modelled, and why

- **Element plumbing.** Element creation, linking, caps, `build_base_plate`,
  and the width, height and sample-rate settings. These calls either succeed
  or return `Err` before a modelled state change; where they fail midway
  (connect_slot), the effect is modelled, as above.
- **Control-point values, interpolation, and the validation of values and
  namespaces.** These are data. A bad namespace or value enters the model as
  the `configValid` choice or as an absent action.
- **GetNodeInfo and GetProducer.** They are read-only.
- **Output producers.** The mixer's own output producers and the `Stopped`
  message. The `Stopped` message sends the video producer twice (mixer.rs:132),
  a bug in a value nobody reads back in this code.
- **Composition with real producers.** Slots are consumers of abstract
  producers (`upstream`); the Mixer is not composed with StreamProducer
  instances. With two producers and a mixer the state space is beyond a
  five-minute run.
- **A second start_pipeline.** `pipeline = "null"` guards StartPipeline;
  the code would try to add the same elements again, which fails.
- **Key collisions.** Slot controller keys `slot_id + property` can collide,
  for example slot `"a"` with `"lpha"`. The model keys by pairs.

## 6. Plan for the next sittings

1. Compose the Mixer's slots with two StreamProducer instances (one link
   each, one appsrc per Connect), so that Connect and Disconnect drive
   `AddConsumer` and `RemoveConsumer`; check it on a reduced instance.
2. Liveness of the base plate: while only it produces, it is eventually
   shown, under weak fairness of the video callback.
3. Extend `MixerSlots` with the base plate (shown only after idleness) and
   the request pads, and carry the refinement proof along.
4. Prove `TimeoutCaptured`-style invariants for the findings' positive
   counterparts once the code is fixed.
