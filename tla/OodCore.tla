------------------------------- MODULE OodCore -------------------------------
(***************************************************************************)
(* phm_core: OodCore, the rolling-spread detector behind both OOD nodes.   *)
(*                                                                         *)
(* update() takes one embedding frame: its size is checked, it goes into a *)
(* ring of Window frames, and once the ring is full the spread of the      *)
(* window is compared with the threshold, except on the frames a gate      *)
(* skips, which repeat the last computed verdict.                          *)
(*                                                                         *)
(* A frame is its size and a content; contents in Poisoned hold a NaN or   *)
(* an infinity.  The spread of a full window is any of Spreads, 0 for      *)
(* frames of size zero, and non-finite exactly when the window holds a     *)
(* poisoned frame (every backend accumulates float32 in double).  Three    *)
(* counters are kept up to what the code can tell apart: frame_count_      *)
(* modulo ComputeEvery, the hysteresis run up to MinConsecutive, and       *)
(* has_last_ with last_ as one variable.                                   *)
(***************************************************************************)
EXTENDS Severity

CONSTANTS Window, MinConsecutive, ComputeEvery,
          EmbedDims,        \* embed_dim: expected frame sizes; 0 pins a frame's
          MaxWindowFloats,  \* kMaxWindowFloats
          Sizes,            \* sizes of arriving frames
          Contents,         \* contents of arriving frames
          Poisoned,         \* the contents that are not finite
          Blank,            \* an empty frame, or a ring slot never written
          Spreads,          \* spreads of a finite window
          Thresholds,       \* thresholds an operator can set
          Infinity,         \* the threshold +inf
          NoVerdict         \* nothing computed, or nothing returned, yet

ASSUME OodAssumption ==
  /\ Window \in Nat /\ Window >= 2
  /\ MinConsecutive \in Nat \ {0} /\ ComputeEvery \in Nat \ {0}
  /\ MaxWindowFloats \in Nat /\ Window <= MaxWindowFloats
  /\ EmbedDims \subseteq 0 .. (MaxWindowFloats \div Window)
  /\ Sizes \subseteq Nat
  /\ Poisoned \subseteq Contents /\ Blank \notin Contents
  /\ Spreads \subseteq Nat
  /\ Thresholds \subseteq Int \cup {Infinity} /\ Infinity \notin Int

VARIABLES threshold, expected,   \* configuration: threshold and embed_dim
          dim,        \* dim_, pinned_ when it is not zero
          ring,       \* slot -> content
          ringDim,    \* the frame size the ring is allocated for
          nextSlot, filled,
          phase,      \* frame_count_ % ComputeEvery
          run,        \* the hysteresis count
          last,       \* the cached verdict, NoVerdict when has_last_ is false
          accepted,   \* last_status_ = kOk
          verdict     \* what update() returned

bufferVars == <<dim, ring, ringDim, nextSlot, filled, phase>>

config == <<threshold, expected>>

oodVars == <<config, bufferVars, run, last, accepted, verdict>>

Slots == 0 .. Window - 1

Frame == [size : Sizes \cap {0}, content : {Blank}]
           \cup [size : Sizes \ {0}, content : Contents]

OodVerdict == [score : (0 .. 100) \cup {NonFinite}, violating : BOOLEAN, action : AllowedActions]

ASSUME VerdictAssumption == NoVerdict \notin OodVerdict

TypeOK ==
  /\ threshold \in Thresholds
  /\ expected \in EmbedDims
  /\ dim \in Sizes \cup EmbedDims \cup {0} /\ ringDim \in Sizes \cup {0}
  /\ ring \in [Slots -> Contents \cup {Blank}]
  /\ nextSlot \in Slots /\ filled \in 0 .. Window
  /\ phase \in 0 .. ComputeEvery - 1
  /\ run \in 0 .. MinConsecutive
  /\ last \in OodVerdict \cup {NoVerdict}
  /\ accepted \in BOOLEAN
  /\ verdict \in OodVerdict \cup {NoVerdict}
-----------------------------------------------------------------------------
Quiet(score) == [score |-> score, violating |-> FALSE, action |-> ACTION_NONE]

Alarm(score, action) == [score |-> score, violating |-> TRUE, action |-> action]

BadInput == Quiet(BAD_INPUT_SCORE)

WarmingUp == Quiet(0)

\* spread < threshold; an infinite threshold is above every spread.
Below(spread) == threshold = Infinity \/ spread < threshold

(***************************************************************************)
(* normalize(spread, threshold, 0) in hundredths: 0 at the threshold, 100  *)
(* at zero spread.  Against an infinite threshold it is inf / inf.  The    *)
(* branch for a threshold <= 0 is not reached: no spread is below it.      *)
(***************************************************************************)
Score(spread) ==
  IF threshold = Infinity THEN NonFinite
  ELSE ((threshold - spread) * 100) \div threshold

\* The action of a confirmed alarm; comparisons with a NaN score all fail.
AlarmAction(score) ==
  CASE score = NonFinite                          -> ACTION_LOG_ONLY
    [] score # NonFinite /\ score >= STOP_THRESHOLD -> ACTION_STOP_AND_HOLD
    [] score # NonFinite /\ score \in INTERVENE_THRESHOLD .. STOP_THRESHOLD - 1 -> ACTION_HOLD
    [] score # NonFinite /\ score < INTERVENE_THRESHOLD -> ACTION_LOG_ONLY

BelowFloor(score) == score # NonFinite /\ score < DEGRADED_THRESHOLD

\* make_verdict: the fired run of a low spread becomes an alarm or is floored.
MakeVerdict(spread, fired) ==
  CASE ~Below(spread) -> Quiet(0)
    [] Below(spread) /\ (~fired \/ BelowFloor(Score(spread))) -> Quiet(Score(spread))
    [] Below(spread) /\ fired /\ ~BelowFloor(Score(spread)) ->
         Alarm(Score(spread), AlarmAction(Score(spread)))
-----------------------------------------------------------------------------
Pinned == dim # 0

\* Neither the pinned size nor, while unpinned, one the buffer can hold.
Refused(f) ==
  \/ Pinned /\ f.size # dim
  \/ ~Pinned /\ f.size > MaxWindowFloats \div Window

\* Mutated: the pinning frame joins the empty ones already in the window.
StartsOverNever(f) == FALSE

\* The first frame with content restarts a window of empty ones.
StartsOver(f) == ~Pinned /\ f.size > 0 /\ filled > 0

Allocated(f) == IF ringDim = f.size THEN ring ELSE [i \in Slots |-> Blank]

\* Mutated: the last slot is left out when the index wraps.
NextSlotShort(slot) == (slot + 1) % (Window - 1)

NextSlot(slot) == (slot + 1) % Window

\* Steps 1 and 2 of update(): pin, allocate, append, count.
Appended(f) ==
  LET slot == IF StartsOver(f) THEN 0 ELSE nextSlot
      kept == IF StartsOver(f) THEN 0 ELSE filled
  IN  /\ dim' = f.size
      /\ ringDim' = f.size
      /\ ring' = [Allocated(f) EXCEPT ![slot] = f.content]
      /\ nextSlot' = NextSlot(slot)
      /\ filled' = IF kept < Window THEN kept + 1 ELSE kept
      /\ phase' = ((IF StartsOver(f) THEN 0 ELSE phase) + 1) % ComputeEvery

\* The spreads a backend can return for a full ring of frames of that size.
SpreadsOf(slots, size) ==
  IF \E i \in Slots : slots[i] \in Poisoned THEN {NonFinite}
  ELSE IF size = 0 THEN {0} ELSE Spreads
-----------------------------------------------------------------------------
InitCore ==
  /\ dim = expected
  /\ ring = [i \in Slots |-> Blank]
  /\ ringDim = 0
  /\ nextSlot = 0 /\ filled = 0 /\ phase = 0 /\ run = 0
  /\ last = NoVerdict
  /\ accepted = TRUE
  /\ verdict = NoVerdict

Init == threshold \in Thresholds /\ expected \in EmbedDims /\ InitCore

\* Mutated: a refused frame breaks the run.
RejectBreaking(f) ==
  /\ Refused(f)
  /\ accepted' = FALSE
  /\ verdict' = BadInput
  /\ run' = 0
  /\ UNCHANGED <<config, bufferVars, last>>

\* The size is wrong: a bad-input verdict, the frame does not enter.
Reject(f) ==
  /\ Refused(f)
  /\ accepted' = FALSE
  /\ verdict' = BadInput
  /\ UNCHANGED <<config, bufferVars, run, last>>

\* Mutated: a window that starts over keeps its hysteresis run and its cache.
WarmUpRemembering(f) ==
  /\ ~Refused(f) /\ Appended(f) /\ filled' < Window
  /\ accepted' = TRUE
  /\ verdict' = WarmingUp
  /\ UNCHANGED <<config, run, last>>

\* The window is not full yet.
WarmUp(f) ==
  /\ ~Refused(f) /\ Appended(f) /\ filled' < Window
  /\ accepted' = TRUE
  /\ verdict' = WarmingUp
  /\ run' = IF StartsOver(f) THEN 0 ELSE run
  /\ last' = IF StartsOver(f) THEN NoVerdict ELSE last
  /\ UNCHANGED config

Skipped == last # NoVerdict /\ phase' # 0

\* The gate skips this frame: the last computed verdict again.
Replay(f) ==
  /\ ~Refused(f) /\ Appended(f) /\ filled' = Window
  /\ Skipped
  /\ accepted' = TRUE
  /\ verdict' = last
  /\ UNCHANGED <<config, run, last>>

Computes(f) ==
  /\ ~Refused(f) /\ Appended(f) /\ filled' = Window
  /\ ~Skipped
  /\ accepted' = TRUE
  /\ UNCHANGED config

\* Mutated: the bad-input verdict is returned but not cached.
JudgePoisonUncached(f) ==
  /\ Computes(f)
  /\ NonFinite \in SpreadsOf(ring', dim')
  /\ verdict' = BadInput
  /\ UNCHANGED <<run, last>>

\* The spread is not finite: cached, and the run is left as it is.
JudgePoison(f) ==
  /\ Computes(f)
  /\ NonFinite \in SpreadsOf(ring', dim')
  /\ last' = BadInput
  /\ verdict' = last'
  /\ UNCHANGED run

\* Mutated: the run is halved, not ended, by a healthy spread.
ExtendedOrHalved(low) == IF low THEN (IF run < MinConsecutive THEN run + 1 ELSE run) ELSE run \div 2

\* Hysteresis::observe.
Extended(low) ==
  IF ~low THEN 0 ELSE IF run < MinConsecutive THEN run + 1 ELSE run

\* Threshold, hysteresis and banding of one spread.
JudgeSpread(f, spread) ==
  /\ Computes(f)
  /\ spread \in SpreadsOf(ring', dim')
  /\ run' = Extended(Below(spread))
  /\ last' = MakeVerdict(spread, run' >= MinConsecutive)
  /\ verdict' = last'

Update(f) ==
  \/ Reject(f)
  \/ WarmUp(f)
  \/ Replay(f)
  \/ JudgePoison(f)
  \/ \E spread \in Spreads \cup {0} : JudgeSpread(f, spread)

\* Mutated: the run and the cached verdict survive a reset.
ResetBuffer ==
  /\ dim' = expected
  /\ nextSlot' = 0 /\ filled' = 0 /\ phase' = 0
  /\ accepted' = TRUE
  /\ verdict' = NoVerdict
  /\ UNCHANGED <<config, ring, ringDim, run, last>>

\* OodCore::reset.  The ring keeps its frames; none counts as filled.
Reset ==
  /\ dim' = expected
  /\ nextSlot' = 0 /\ filled' = 0 /\ phase' = 0 /\ run' = 0
  /\ last' = NoVerdict
  /\ accepted' = TRUE
  /\ verdict' = NoVerdict
  /\ UNCHANGED <<config, ring, ringDim>>

\* set_threshold and calibrate_from_data: nothing else is recomputed.
SetThreshold ==
  /\ threshold' \in Thresholds
  /\ UNCHANGED <<expected, bufferVars, run, last, accepted, verdict>>

Next == (\E f \in Frame : Update(f)) \/ Reset \/ SetThreshold

Spec == Init /\ [][Next]_oodVars
-----------------------------------------------------------------------------
Alarming == verdict # NoVerdict /\ verdict.violating

\* The fewest frames, first and last included, that a run of MinConsecutive
\* computed spreads takes: the first may be out of step with the gate.
Earliest == IF MinConsecutive = 1 THEN 1 ELSE 2 + (MinConsecutive - 2) * ComputeEvery

(***************************************************************************)
(* The ring read from its next slot is the sliding window: the last frames *)
(* accepted in this episode, in order, and nothing of an earlier episode,  *)
(* through wraps, restarts at a new size and resets that leave the old     *)
(* frames in memory (ood_core.cpp:106-119, 142).                           *)
(***************************************************************************)
WindowFrames ==
  [i \in 1 .. filled |-> ring[(nextSlot + Window - filled + i - 1) % Window]]

Sliding == INSTANCE SlidingWindow
  WITH window <- WindowFrames, size <- dim, Size <- Window,
       Frames <- Contents \cup {Blank}, fixed <- expected

WindowSlides == Sliding!Spec

(***************************************************************************)
(* Every frame copied into the ring has the size the ring was allocated    *)
(* for, and a window with frames in it is the size of the pinned frame:    *)
(* the copy at ood_core.cpp:113 stays inside the buffer.                   *)
(***************************************************************************)
RingFits == filled > 0 => ringDim = dim /\ dim <= MaxWindowFloats \div Window
=============================================================================
