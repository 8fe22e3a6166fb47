# policy-health-monitor in TLA+

A verification development of the policy health monitor: TLA+ modules
translated from the C++ sources, TLC configurations that check them on small
instances, and TLAPS proofs of the properties that matter most for every value
of the constants. Source paths below are relative to the repository's `src/`
directory; `PROJECT.json` maps every definition to the lines it stands for.

## 1. The system

A learned policy drives a robot. The monitor watches it from outside, as a
pipeline of ROS 2 processes:

    embeddings, topics, metrics
        |  OOD node(s), detectors node, Go2 monitors
        v
    /phm/verdicts     reliable, keep-last 10, volatile
        |  arbiter: latest verdict per source, worst wins, 20 Hz
        v
    /phm/health       reliable, keep-last 1, transient-local
        |  recovery: map to an action, enable switch, cooldown, hold
        v
    zero Twist at the publish rate; rewind hook

Every node runs a single-threaded executor, so a callback is never interrupted
by another of its process: concurrency is between processes, and between the
timer, message and lifecycle callbacks of one process in whatever order they
come.

### Inventory

| Component | State it keeps | Operations | Hard behaviour | What makes it correct |
|---|---|---|---|---|
| Recovery controller and node (`phm_core/src/recovery.cpp`, `phm_recovery`) | hold flag of the mapper, hold flag of the controller, last accepted time per (action, key), enable switch | health callback, publish timer, launch | two flags of two objects; a cooldown per key that must damp flapping and still not leave a fault unheld | a hold under way is never dropped by a fault message; new holds are spaced; the time a fault goes unheld is bounded; a persistent fault stops the robot |
| Arbiter (`phm_core/src/arbiter.cpp`, `phm_arbiter`) | latest verdict and receive time per source, first-seen order | verdict callback, arbitration timer, launch | staleness, non-finite scores, ties by arrival order, actions that outlive their detector | silence never relaxes health; OK only if all clear; INTERVENE or STOP exactly on demand; rewind only on fresh request |
| Severity scale (`phm_core/src/severity.cpp`) | none | bands, actions, normalisation, hysteresis counter | boundaries, non-finite values | bands are monotone |
| Topics between the nodes | waiting samples, the retained health sample | publish, take, lose | keep-last queues, late joiners, crashes of arbiter or recovery | recovery is in step with health; a demand reaches the robot; quiet releases it |
| OOD core (`phm_core/src/ood_core.cpp`) | ring of frames, pinned dimension, frame counter, hysteresis run, cached verdict, threshold | update, reset, set threshold | empty, malformed and oversized frames, a compute gate that replays a cached verdict, NaN in the window | verdicts speak of the last frames of the current episode; a confirmed alarm had its run; poison surfaces and never reads as healthy |
| OOD lifecycle node (`phm_ood_cpp`, `phm_ood`) | lifecycle state, core, endpoints; two profiles | configure, activate, deactivate, cleanup, shutdown, embedding callback | frames in every lifecycle state; windows across off-duty gaps; malformed frames | nothing is scored off duty; a fresh activation starts from an empty window (in the profile that says so) |
| Detector adapters and node (`phm_core/src/adapters.cpp`, `phm_detectors`) | per-topic counters, baseline, last-seen times, hysteresis, bindings | message callback, tick, late binding | learning phase, start-up grace, first window, bursts of verdicts per tick | silence raises a dead-topic STOP after grace; a steady topic is not flagged |
| System metrics (`phm_core/src/system_metrics.cpp`) | previous CPU counters | read | first read has no delta | no value out of range |
| Calibration (`phm_core/src/calibration.cpp`, `numerics.cpp`, `integrations/go2/src/probe.cpp`) | none | rolling spread, percentile threshold, leave-one-out false positives | windows that mix frame sizes, corpora too short for a window, a sum split in blocks | a threshold rests on whole windows and is the percentile asked for; each window counts once |
| Spread backends (`phm_core/src/backend_plain.cpp`, `backend_eigen.cpp`, `backend_torch.cpp`, `spread_kernel.hpp`) | none | choice of backend, kernels | floating point | not modelled |
| Simulated stream (`phm_core/src/sim.cpp`, `phm_sim`) | position | timer, service | a service call between or after the frames | the policy collapses once, and an early collapse was announced once |
| Go2 stale monitor (`integrations/go2/src/stale_monitor_node.cpp`) | run per signal group, last message time | low-state callback, tick | repeats per message, silence per tick | a frozen or silent robot state surfaces |
| Go2 shadow embedder (`integrations/go2/src/shadow_embedder_node.cpp`, `observation.cpp`) | newest low state, stepper history | low-state callback, tick | stale input, injected faults | no embedding from a stale state |
| Chain benchmark (`phm_sim/src/chain_bench.cpp`) | phases, trials, table of sent frames, counts | timer, three callbacks, drain, report | late callbacks, answers lost or after the next phase, a table that is cleared | a time is credited to the fault that caused it; missing means unanswered |
| Go2 probe and session tools (`integrations/go2/src/probe.cpp`, `integrations/go2/tools/session.cpp`) | ring of frames, recording; directories of trials | record, calibrate, summarise | three topics with different delays, a clock set back, compressed copies, lost recordings | detections add up; a spread is of a whole window; a trial counts once |
| npz files (`phm_core/src/npy.cpp`) | a file | save, load | a crash while writing, other writers (ZIP64, deflate, comments) | a file is read whole or refused |
| JSON of the tools (`json.hpp`) | a value; a parser | set, dump, parse | nesting, escapes, a line cut off | what was written is read back, or refused |
| Random numbers (`numpy_random.cpp`) | two generators with kept halves; a shuffle | gauss, 32- and 64-bit draws, normal, randint, shuffle, choice | calls that keep half of a value mixed with calls that do not; rejection | no word is used twice; picks are fair |
| Replay, plotting, formatting, micro-benchmark, demo, figures | file and console I/O | | | not modelled |

`PROJECT.json` lists the hazards at their lines. The ones that drove the
properties: the two hold flags falling out of step; the cooldown keys of several
sources adding up to a long exposure; continuations judged as new holds; a stale
STOP looking healthier than a fresh one; NaN scores in comparisons; ties decided
by arrival order; queues that drop a STOP; crashes of the arbiter or of recovery
during a fault; the compute gate replaying the verdict of an earlier window; a
window that straddles an off-duty gap; files cut by a crash of the recorder; a
verdict credited to the wrong fault.

## 2. Modules and how they correspond to the code

Constants and time. Scores are hundredths (the bands of `severity.hpp` are 25,
50 and 80). Clocks are relative: where the code stores a time and compares
`now - then` with a limit, the model keeps the difference in ticks, saturating
where the comparison no longer changes, so the state space is finite without
bounding a run.

| Module | Code | Correspondence |
|---|---|---|
| `Severity` | `severity.hpp/.cpp`, action constants | `ScoreToState` is `score_to_state`; `NonFinite` stands for NaN and infinity |
| `HoldGate` | none: the promise of the recovery layer | abstract hold: demands may start it and never drop it, releases drop it |
| `Recovery` | `recovery.cpp`, `recovery_node.cpp` | `Resume` and `Actuate` are `on_health` with the mapper, the envelope and the actuation step inlined in their order; `PublishTick` is `on_publish_tick`; `Restart` a new process |
| `RecoveryCooldown` | an observer of `Recovery` | sees starts of holds and time under an unheld fault, never the envelope's stamps |
| `RecoveryClaims` | an observer for two documented claims | the two violation runs |
| `Arbiter` | `arbiter.cpp`, `arbiter_node.cpp` | `OnVerdict`, `Publish` (timer), `Restart`; `Candidate` and `Wins` state the result of the loop declaratively |
| `ArbiterLoop` | the loop of `arbitrate()` over `latest_` in first-seen order | `Incumbent[n]` is what the loop holds after `n` sources; shown to publish what `Arbiter` says |
| `PhmSystem` | the three processes and two topics | `Arbiter` and `Recovery` are INSTANCEs; channels follow the QoS of the nodes; each process takes its samples in order; crashes lose process state, its queue and the retained sample of a crashed writer |
| `OodCore` | `ood_core.cpp` | `Update` is one call of `update()`, split by the branch it returns from: `Reject`, `WarmUp`, `Replay`, `JudgePoison`, `JudgeSpread`; `Appended` is the part all but the first share (pin, allocate, append, count); `Reset`, `SetThreshold` |
| `SlidingWindow` | none: the promise of the buffer | the last frames of the episode; shown to be what the ring holds |
| `OodHistory` | an observer of `OodCore` | counts accepted frames and judgements; never reads the core's counters |
| `OodNode` | `ood_lifecycle_node.cpp`, the two mains | EXTENDS the core; one action per transition callback, `OnEmbedding` for the subscription; `profile` holds the three switches that make `phm_ood_cpp` and `phm_ood` of one class |
| `Detectors` | `detectors_node.cpp`, three adapters of `adapters.cpp` | `OnMessage`, `Tick`, `Resolve` are the callbacks; `Elapse` is time, in units finer than a tick, so that messages, ticks and late ticks fall where they like |
| `SteadyTopic` | `Detectors` with topics like clockwork | for the violation run on rates |
| `Go2Shadow` | `stale_monitor_node.cpp`, `shadow_embedder_node.cpp`, the stepper of `observation.cpp`, the stale-signal adapter | `LowState` and `Tick` (`Wait`, `MonitorTick`, `Silent`, `EmbedderTick`); the embedder's fault is a step of the reading between the two |
| `SimStream` | `sim.cpp`, `embedding_publisher.cpp` | `StreamTick` is the timer, `TriggerOod` the service |
| `ChainBench` | `chain_bench.cpp` | `BenchTick` (`Finish`, `PublishTick`) is `tick()`, `OnVerdict`, `OnHealth`, `OnCmd` the subscriptions, `Drain` the end of `main`; the monitor answers within `Reaction` or never |
| `Session` | `session.cpp` | operators: the summary of one fault trial |
| `Recorder` | `probe.cpp` with `Session` | one action per callback of the probe; topics deliver in their own order and time, the clock may be set back once; the recording is summarised by `Session` |
| `SessionDir` | `session.cpp` over a directory | trials run, files compressed or lost; `Session` over what is left |
| `Numerics` | `numerics.cpp` | operators: sums of first parts, and `Nth`, what `nth_element` leaves at a position |
| `Npz` | `npy.cpp` | the layout as records at offsets; writer, crash, and the reader entry by entry |
| `Json` | `json.hpp` | the recursive-descent parser as a stack of open calls, one action per branch; `Dump` is the writer |
| `Calibration` | `calibration.cpp`, `numerics.cpp`, `probe.cpp` | recordings grow frame by frame; the percentile, the rolling spreads and the leave-one-out folds over them |
| `NumpyRandom` | `numpy_random.cpp` | one action per kind of draw; a value is named by the words it is made of; the shuffle step by step |
| `RecoveryProofs`, `ArbiterProofs`, `SystemProofs`, `OodProofs`, `OodNodeProofs`, `DetectorsProofs`, `Go2Proofs`, `ToolsProofs` | | theorems of the components (section 4) |
| `MC...` | | constants for TLC |

Abstractions common to all: reason strings are reduced to a kind or left out;
logging and parameter descriptions are left out; message stamps are left out
because no consumer compares them. The spread of a window is any value the
backends can return for it: non-finite exactly when a frame of the window is,
zero for frames of size zero, otherwise anything. Policy networks, the ROS graph
and the host's metrics are external. History variables (marked so where they are
declared) record what a property compares and never enable a step.

The middleware is external: delivery order, keep-last depth, volatile and
transient-local durability are modelled from the QoS the nodes ask for
(`arbiter_node.cpp:27-35`, `recovery_node.cpp`), with smaller depths.

## 3. Runs

| Run | Module / cfg | Question | Bounds |
|---|---|---|---|
| `recovery` | `MCRecovery` | the two hold flags; the abstract hold as a refinement; spacing of new holds; bounded exposure; a persistent fault stops the robot | three fault keys (a name, another, the unknown name of an empty source), both hold commands, every state with one undefined value, cooldown of 3 ticks |
| `recovery_refire` | `MCRecoveryClaims` | is the documented cooldown claim true of the code? No: a counterexample | as above |
| `arbiter` | `MCArbiter` | the arbitration properties, the loop against its declarative result, silence surfaces | two detectors, scores in each interesting band and non-finite, an action outside the allowlist, staleness of 1 tick |
| `system` | `MCPhmSystem` | recovery in step with health, no hold without a cause, over queues that overflow and crashes | two detectors, two queued verdicts, one queued health status, one crash |
| `system_live` | `MCPhmSystemLive` | a persistent demand stops the robot; quiet releases it | one detector that can also send a poisoned score, one crash |
| `ood_core` | `MCOodHistory` | the ring as a sliding window; alarms are confirmed and not late; poison surfaces | window 3, run 3, every second frame computed, frame sizes 0, allowed, other and too large, finite and poisoned contents, thresholds of zero, a positive one and infinity, set at any time |
| `ood_consecutive` | `MCOodHistory`, `MCOodConsecutive.cfg` | does an alarm need consecutive violating frames? No: a counterexample | as above |
| `ood_node` | `MCOodNode` | nothing scored off duty; no alarm from an earlier duty; bad frames unheard | window 2, run 2, gate 2, both profiles |
| `detectors` | `MCDetectors` | silence is reported dead in time and fails the rate check; a topic that stays is bound, whatever was bound before it | two topics that come and go; one speaks and has both checks, the other is silent; one metric, two units to a tick, ticks up to one unit late, two learning samples, two messages to a window |
| `steady_topic` | `MCSteadyTopic` | is a topic of constant rate never flagged? No: a counterexample | one message a tick, four units to a tick, ten learning samples as in the code |
| `go2_shadow` | `MCGo2Shadow` | alarms exactly on frozen groups; silence and injected faults surface within their limits | both programs, every fault, two groups with limits of 1 and 3 repeats, two contents and NaN, symmetric contents |
| `tools` | `MCTools` | each program around the monitor on its own: one collapse; credit and count of the benchmark; detections, spreads and trials of a session; files and lines whole or refused; thresholds and folds; random draws fresh and fair | see below |

Why the bounds are enough. The cooldown interacts only through pairs of keys:
two named sources and the empty one, under both commands, already give every
way in which one key's hold can continue under, be released from, and be
suppressed by another; three ticks separate "just started", "in between" and
"last tick". Arbitration compares candidates pairwise, and ties need two
sources. A tick of staleness gives fresh, at the limit and beyond. Keep-last
queues of depth one and two overflow within a few steps. Restarts are bounded
by `MaxRestarts` because each one forgets everything a run has built up.
A window of three is the smallest whose ring has a first, a middle and a last
slot; a gate of two with a run of three lets the first judgement be out of step
with the gate and the later ones in step. The lifecycle adds paths, not window
arithmetic, so two suffice there. Topics of the detectors node share no state but the
tick and the binding timer, so one topic that speaks meets every case of the checks, and
one more that only comes and goes meets those of the binding: bound before the other,
after it, or still to come; messages do not touch the bindings. Two units to a tick put
messages on either side of it. Stale groups interact only by which is worst relative to
its limit, for which two different limits suffice; the history of a group is kept two
frames past its limit, the length the property quantifies over.
The `tools` run chooses one program and runs it alone: they share no state, so their
product would show nothing more. The stream has two healthy frames of five. The
benchmark runs two cycles, for each fault, with a timer one unit late, a reaction of one
unit, one lost frame and a table cleared beyond one frame, which a lost frame or a late
answer reaches: a late tick can swallow most of a phase, an answer can arrive after it.
A trial of the probe carries three messages over three topics and a clock of two units
that can be set back, so that stamps and receipts disagree. A session has two trials of
a kind and one of another, with an outcome that never saw a fault. Archives hold up to
two arrays (`MaxMembers`) around the padding of 64 bytes, by this program and by NumPy
with extra fields, deflate, ZIP64 or a comment, cut at any length. Documents take three
`set` calls over two keys with nested, empty and escaped values, two deep at most, cut
anywhere. Corpora have at most one, one and six frames, some of another size, with
windows of two: none, one and several whole windows, up to five held out, so that sums
over blocks of four are split in halves. Words have three bits, populations three
elements and either stream eight values, so that masks reject and rejected draws are
consumed; every range of a word is checked for fairness. The mask's shifts by 4, 8 and
16 move no bit of so short a word: what they do is proved (section 4).

Deadlock is checked in every run but `ood_node`, where a finalized node stops for
good, and `tools`, whose programs end.

Fairness. Timers are periodic (`WF` on `Publish`, `PublishTick`, `Arbitrate`,
`Command`) and clocks run (`WF` on ticks). In `Recovery` alone, health keeps
arriving because the arbiter publishes every period. In the pipeline detectors
keep speaking (they publish per frame or per tick) and executors drain their
queues; taking a given detector's verdict is strongly fair, since a sample that
waits may give way to newer ones, but not every time. Nothing is assumed of
crashes, nor, in `Arbiter`, of detectors: that they may fall silent is the point.
`Detectors` assumes only that the binding timer fires while it runs (`WF` on `Resolve`),
and nothing of topics.

### Disagreements met

- `phm_recovery/config/recovery.yaml:8-9` promises that a hold command cannot
  re-fire within the cooldown of a fault that cleared. The stamp is set when a
  hold starts and is not renewed by continuations, so a hold that lasted past
  the cooldown re-fires at once (`recovery_refire`). What the code does keep is
  `NewHoldsSpaced`.
- `phm_ood/config/phm_ood.yaml:23-24` asks for consecutive violating frames before
  an alarm. A non-finite spread returns before the hysteresis counter
  (`ood_core.cpp:155`), so low spreads on both sides of a poisoned stretch add up
  (`ood_consecutive`). What the code does keep is `NoEarlyAlarm`.
- `phm_detectors/config/detectors.yaml:9` has a topic healthy while its rate stays
  above the baseline less the tolerance, and `detectors_node.hpp:12` takes the
  rate over the last tick window. The first window opens at the first message
  and counts it (`detectors_node.cpp:203-208`), so its rate can be several times
  the true one, and the learned baseline with it: a topic of constant rate is
  flagged (`steady_topic`).

## 4. Proofs

All theorems are checked by TLAPS with no step left open, for every value of the
constants the named ASSUMEs of the modules allow; TLC evaluates the ASSUMEs in every
run of a module that extends them. They are of three kinds. Sizes and times are
positive, and a budget of floats holds a window, as the constructors demand. The
markers are no values: what stands for no verdict, no reading, no time or an empty
slot is none of the verdicts, readings, times or contents. And what comes from outside has its type:
spreads of a window of frames are numbers (`CalibrationAssumption`), source names are
strings (`RecorderAssumption`), strings of JSON are UTF-8 and its values finitely deep
(`JsonAssumption`). Two assumptions relate constants: `DetectorsAssumption` has every
message rate a whole number in the model's scale, and `BenchAssumption`
gives each fault of the benchmark a tick and the monitor time to settle before the
next, without which a late answer is credited to the wrong fault.

`RecoveryProofs`. One inductive invariant, `Safe`, joins the types, `HoldBacked`
(the controller's flag implies the mapper's flag and the switch) and
`RewindUnderHold`; `TypeCorrect`, `HoldIsBacked` and `RewindIsHeld` follow.
`ImplementsHoldGate`: under the mapping fault <- mapper's flag, hold <-
controller's flag, every step is a step of `HoldGate` or a stutter.
`NewHoldsAreSpaced` needs more than the property: the observer's start time of a
hold is never behind the envelope's stamp of its key. `ExposureBounded` needs
the deeper strengthening: while a fault is unheld nothing is stamped, so every
stamp is at least as old as the exposure, and a message refused since the last
tick names a key that has not cooled down.

`ArbiterProofs`. `TypeCorrect`; then `SilenceIsMonotone`, by the invariant
`Backed`: while no verdict has arrived since the last publication, what was
published is nominal or backed by a contribution at least as bad as it (ageing
leaves a contribution or makes it worse). `NominalIsAllClear`, `EscalationExact` and `RewindFresh`
follow from the shape of a candidate and from the winner being beaten by none.
`LoopIsPublished` says that the declarative winner is what the loop ends with. The
sources heard hold the first positions of `latest_`, one each (`OneToAPosition`). The
recursion has a solution, since a shortest prefix without one would follow a prefix
that has one (`LoopExists`). The incumbent of a prefix beats every other contributor
in it, by being worse or, if as bad, by its earlier position (`Leads`). A whole pass
then ends with a winner, and no two can win (`OneWinner`).

`OodProofs`. One inductive invariant, `RingInv`: the types; the pinned dimension
has room in the buffer at all times, not only while frames count (`Fits`); and
while the window fills, the next slot is the number of filled ones (`InOrder`),
without which the wrapping index would say nothing of where the oldest frame is.
`TypeCorrect` and `RingAlwaysFits` follow. `WindowIsSliding` maps the ring, read
from its next slot, to the window of `SlidingWindow`: in each case of
an accepted frame (it starts the window over, joins one that is filling, replaces
the oldest of a full one) the new window is compared with the old element by
element.

The observer `OodHistory` counts frames and never reads the core's counters, so what
it sees must be tied to them. `ObserverOnlyWatches` first: its steps are steps of the
core, whose theorems hold of it. `HistoryInv` then adds to `RingInv` that a run of low
spreads has taken the frames the gate puts between its judgements (`RunIsSpread`, the
lower bound behind `NoAlarmIsEarly`); that frames calm for whole periods of the gate
have been judged as often (`CalmIsRun`, the upper bound behind `AlarmIsNotLate`); that
poison in the window is judged at the next turn of the gate (`ToxicIsBad`, for
`PoisonAlwaysSurfaces`); and that a replayed verdict is the one last computed, of
this episode (`Idle`, `Cached`). The upper bound needs the full run as well: once
it is full, the verdict cached since is an alarm or below the floor.

`SystemProofs`. The invariant, `SysInv`, follows the newest message: if the channel
to recovery is empty, its hold request is the one the last published status asks
for, and otherwise the last message in the channel is that status, whatever depth
the channel has and whatever older samples gave way (`RecoveryIsInStep`). For
`HoldHasCause` it adds that a settled arbiter published a hold only on account of a
verdict it has (`Accounted`), and the `HoldBacked` of the recovery node that is
part of the pipeline. Crashes re-establish both: an arbiter that restarts has
published nothing, a recovery node that restarts takes the retained sample.

`OodNodeProofs` builds on `RingInv`, which every transition keeps as well
(`NewCoreRing` for a configure that changes the expected size). `NodeInv` adds the
node's types and that its parts match its state, for which the endpoints must also
be known while inactive (`Ready`): a publisher is activated only while active, and
each profile has its endpoints by then. `PartsAlwaysMatch`, `BadFramesNeverHeard`
and `NothingIsScoredOffDuty` follow. `AlarmsAreOfThisDuty` is the arithmetic of the
gate: a run of `r` low spreads takes `Spacing(r)` frames beyond the first full
window, plus those skipped since its last one (`DutyInv`); each judgement after the
first finds the gate at the end of its period, so the bound moves with the run, and
the history counter saturates beyond anything it can ask.

`DetectorsProofs`. One invariant, `SilenceInv`, for any lateness of the ticks up to
one tick. `DeadInTime` is not inductive as it stands: what the last tick judged is the
silence less the time since that tick, which is longer when a tick is due and late
(`DeadTicks`). `SilenceFailsFrequency` is a race of two counts: every tick after the
window of the last message takes a learning sample or lengthens the run, so a silence
is bounded by the progress made (`SilenceProgresses`), until the run is full and
every further tick says slow (`FullRunSaysSlow`). The window that still holds the
last message is the exception, and is no older than the last tick (`BusyIsFresh`).

`Go2Proofs`. `Go2Inv` ties the adapter's runs to what was shown (`RunsAreShown`: as far
back as the history goes, a run is the number of contents that repeat, NaN repeating
nothing), and a quiet or held input to the next tick (`QuietRepeats`, `HeldRepeats`:
the next tick would check what the last one did). A snapshot of a fault must
exist when it is used (`FrozenByFault`). `StaleVerdictsAreExact` needs one more fact: the
verdict is of the worst group, so a group over its limit must be found by the
maximum; a finite set with a total preorder has a greatest element (`GreatestExists`).

`ToolsProofs`, one section for each program. The stream: until the collapse the
healthy frames sent are its index. The benchmark's counts: frames in flight are older
than the next one, so answers and counted frames in flight never exceed what was
sent. Its credits (`CreditInv`): no fault goes by between two ticks, so the n-th trial is
of the n-th fault, and the last tick was in it or among the healthy ones that follow.
The probe (`RecInv`): its ring holds the last frames of the last size, as many as there
are in a row up to a window; and while the clock has not been set back, nothing is
received before it is stamped, which makes the summary's two views of a trial agree
(`SummaryAddsUp`). Thresholds: the n-th smallest of finitely many values exists
(`NthExists`: a least value with enough at or below it), so fewer than n values are below
it and at least n at or below; interpolation lies between neighbours, and if the
values differ no third one lies between (`PercentileShares`). The random draws: a value is
named by words already consumed, the rejected ones before it counted, and of a kept word
only the other half was handed out.

The folds (`FoldsAlwaysCountEachWindow`): sums of integers of a sequence split wherever the
sequence does, and lanes, remainder and halves of the pairwise sum are such splits
(`PairwiseAddsUp`), so that a mean over flags is a count of windows. The directory
(`TrialsCountOnce`): logs and trials of a kind map one to one (`LogsAre`), and the
median is the order statistic whose existence the percentile needs as well. The shuffle
(`ShufflesAreFair`): each shift of the mask over itself doubles the uppermost bits that are
set (`ShiftFills`), so that five fill a mask of up to 32 bits (`MaskIs`, which needs
`WordBits` at most 32); a word under such a mask is its remainder (`MaskedIs`); a power of
two is a whole number of each smaller one, so that words divide evenly; and each step of the shuffle makes one more place final,
from which its pick is read off backwards (`ShuffleInv`).

The archive (`FilesAreWholeOrRefused`). A recursive function over a sequence is first given
values (`ElementsAre`, `Offsets`), after which offsets are the starts of consecutive
records (`LaidOut`) and no two coincide (`OffsetsApart`, `RecordsApart`): so a record is
found at its offset, and nothing else is (`ArchiveHolds`). What a crash leaves has the end
record and everything before it, or no end record at all (`WhatIsLeft`): the latter is
refused, and of the former every entry passes every check (`EntryIsRead`). The invariant
`NpzInv` has as loaded the last array of each name among the entries read so far. Offsets
are natural numbers: an archive is taken to fit the 32-bit fields of the writer (less than
4 GiB, at most 65534 arrays).

The line (`LinesAreWholeOrRefused`). The values are any set closed under what is in them,
each with a depth above theirs (`Depth`, bounded by any `MaxDepth`), so that the writer is a
recursive function over that set and facts about it are proved depth by depth
(`WrittenTyped`). What is written of an array or object holds the text of each value in it,
in its place, between signs (`Enclosed`, `Shaped`), and a nested text stands in the outer
one at an offset (`StandsIn`). The invariant `JsonInv` keeps the parser in step with what
was written: some list of arrays and objects, each in the one before, has in the call open
for it the first of its items (`Chain`), and the position is where the innermost of them
continues (`Place`). One lemma per parser step shows that the token written there is met,
or is missing (`TokenMet`), in which case the step fails or the next one does (`AfterStep`:
part of a number still reads as one). That set() never repeats a key (`SetKeepsDocument`)
is what makes the item read land at the end of its object.

Left to TLC:

- every liveness property (`PersistentFaultStops`, `SilenceSurfaces` of the arbiter,
  `DemandStopsTheRobot`, `QuietReleasesTheRobot`, `PresentTopicsBind`): fairness and
  ENABLED are out of the prover's reach.

Every invariant and action property a run checks has a theorem.

## 5. Not modelled, and what is left

Not modelled:

- Spread kernels and the choice of backend (`backend_*.cpp`, `spread_kernel.hpp`), the seeding and
  arithmetic of the random generators and the ziggurat tables, standard deviations
  and bootstrap intervals: floating-point arithmetic, outside the reach of TLC. The
  modules take a spread, or a word, to be any value these can return.
- Replay and plotting tools, text formatting, figures, the micro-benchmark and the
  demo: loops over the components modelled here, drawing and layout, with no state
  of their own.
- The summary of stationary and live sessions, and rounding in every report.
- Inflate and the character level of npy headers and JSON numbers.

Left to model, in order of weight: the detectors node's burst of verdicts per tick
against the keep-last depth of `/phm/verdicts`, composed with the arbiter (a hazard
without a property); the node clock behind the cooldown, which can be set back
(another); the recurrent-temporal-spread adapter, whose control is that of
`OodCore`.
