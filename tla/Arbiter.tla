------------------------------- MODULE Arbiter -------------------------------
(***************************************************************************)
(* phm_arbiter: ArbiterNode over phm_core's arbitrate().                   *)
(*                                                                         *)
(* The node keeps the latest verdict of every source with its receive      *)
(* time, in first-seen order, and a timer fuses them into one health       *)
(* status, worst wins.  One single-threaded executor: OnVerdict is the     *)
(* whole verdict callback and Publish the whole timer callback.            *)
(*                                                                         *)
(* Receive times are kept as ages on the node's monotonic clock, in ticks, *)
(* saturating one above Staleness: beyond it the strict comparison with    *)
(* staleness_sec no longer changes.  The reason text is abstracted to its  *)
(* kind.  Scores arrive as float32 and leave as the same float32 or as an  *)
(* exact sentinel, so no rounding separates them.                          *)
(***************************************************************************)
EXTENDS Severity, FiniteSets

CONSTANTS Detectors,    \* verdict sources
          NoSource,     \* the empty source of a nominal health status
          Scores,       \* finite verdict scores, in hundredths
          WireActions,  \* values of the uint8 suggested_action field
          Staleness,    \* staleness_sec, in ticks
          NoVerdict,    \* a source that has not been heard
          NoHealth      \* nothing published yet

Kinds == {"nominal", "bad-score", "stale", "verdict"}

Health == [state : SeverityStates, score : Scores \cup {0, 25, BAD_INPUT_SCORE},
           kind : Kinds, source : Detectors \cup {NoSource}, action : AllowedActions]

ASSUME ArbiterAssumption ==
  /\ IsFiniteSet(Detectors) /\ NoSource \notin Detectors
  /\ Scores \subseteq Int
  /\ WireActions \subseteq Nat
  /\ Staleness \in Nat
  /\ NoHealth \notin Health

VARIABLES latest,     \* source -> its latest verdict: ArbiterNode::latest_
          rank,       \* source -> its position in latest_, 0 when absent: index_
          age,        \* source -> ticks since that verdict was received
          published,  \* the last health status on /phm/health
          settled     \* no verdict has arrived since it was published (history)

arbiterVars == <<latest, rank, age, published, settled>>

Verdict == [score : Scores \cup {NonFinite}, violating : BOOLEAN, action : WireActions]

Heard == {d \in Detectors : rank[d] # 0}

TypeOK ==
  /\ rank \in [Detectors -> 0 .. Cardinality(Detectors)]
  /\ latest \in [Detectors -> Verdict \cup {NoVerdict}]
  /\ \A d \in Heard : latest[d] \in Verdict
  /\ age \in [Detectors -> 0 .. Staleness + 1]
  /\ published \in Health \cup {NoHealth}
  /\ settled \in BOOLEAN
-----------------------------------------------------------------------------
STALE_SCORE == DEGRADED_THRESHOLD

Finite(d) == latest[d].score # NonFinite

\* Mutated: one more tick before a verdict is stale.
StaleLate(d) == age[d] > Staleness + 1

Stale(d) == age[d] > Staleness

\* Mutated: a stale non-violating verdict is dropped.
ContributesUnlessQuiet(d) == ~Finite(d) \/ latest[d].violating

\* A fresh, finite, non-violating verdict contributes nothing.
Contributes(d) == ~Finite(d) \/ Stale(d) \/ latest[d].violating

Contributors == {d \in Heard : Contributes(d)}

SuggestedAction(d) ==
  IF latest[d].action \in AllowedActions THEN latest[d].action ELSE ACTION_NONE

\* Mutated: the sentinel score is read through the severity bands.
BadScoreBanded(d) ==
  [state |-> ScoreToState(BAD_INPUT_SCORE), score |-> BAD_INPUT_SCORE,
   kind |-> "bad-score", source |-> d, action |-> ACTION_NONE]

BadScore(d) ==
  [state |-> STATE_DEGRADED, score |-> BAD_INPUT_SCORE, kind |-> "bad-score",
   source |-> d, action |-> ACTION_NONE]

StaleHealthy(d) ==
  [state |-> STATE_DEGRADED, score |-> STALE_SCORE, kind |-> "stale",
   source |-> d, action |-> ACTION_LOG_ONLY]

ViolatingState(d) == AtLeast(STATE_DEGRADED, ScoreToState(latest[d].score))

\* Mutated: a stale verdict is DEGRADED at the floor, violating or not.
StaleViolatingFloored(d) ==
  [state |-> STATE_DEGRADED, score |-> STALE_SCORE, kind |-> "stale",
   source |-> d, action |-> ACTION_LOG_ONLY]

\* Mutated: a stale violating verdict keeps the action it asked for.
StaleViolatingActing(d) ==
  [state |-> ViolatingState(d), score |-> AtLeast(STALE_SCORE, latest[d].score),
   kind |-> "stale", source |-> d, action |-> SuggestedAction(d)]

StaleViolating(d) ==
  [state |-> ViolatingState(d), score |-> AtLeast(STALE_SCORE, latest[d].score),
   kind |-> "stale", source |-> d, action |-> ACTION_LOG_ONLY]

FreshViolating(d) ==
  [state |-> ViolatingState(d), score |-> latest[d].score, kind |-> "verdict",
   source |-> d, action |-> SuggestedAction(d)]

Candidate(d) ==
  CASE ~Finite(d) -> BadScore(d)
    [] Finite(d) /\ Stale(d)  /\ ~latest[d].violating -> StaleHealthy(d)
    [] Finite(d) /\ Stale(d)  /\ latest[d].violating  -> StaleViolating(d)
    [] Finite(d) /\ ~Stale(d) -> FreshViolating(d)

\* Lexicographic order on (state, score).
Worse(a, b) == a.state > b.state \/ (a.state = b.state /\ a.score > b.score)

\* Mutated: the last of equal candidates wins.
WinsLastOfEquals(d) ==
  \A e \in Contributors \ {d} :
    \/ Worse(Candidate(d), Candidate(e))
    \/ ~Worse(Candidate(e), Candidate(d)) /\ rank[d] > rank[e]

\* The candidate the loop ends with: the worst, the first heard among equals.
Wins(d) ==
  \A e \in Contributors \ {d} :
    \/ Worse(Candidate(d), Candidate(e))
    \/ ~Worse(Candidate(e), Candidate(d)) /\ rank[d] < rank[e]

Nominal ==
  [state |-> STATE_OK, score |-> 0, kind |-> "nominal",
   source |-> NoSource, action |-> ACTION_NONE]
-----------------------------------------------------------------------------
Init ==
  /\ latest = [d \in Detectors |-> NoVerdict]
  /\ rank = [d \in Detectors |-> 0]
  /\ age = [d \in Detectors |-> 0]
  /\ published = NoHealth
  /\ settled = FALSE

\* ArbiterNode::on_verdict: last write wins, a new source goes last.
OnVerdict(d, v) ==
  /\ latest' = [latest EXCEPT ![d] = v]
  /\ rank' = IF d \in Heard THEN rank
             ELSE [rank EXCEPT ![d] = Cardinality(Heard) + 1]
  /\ age' = [age EXCEPT ![d] = 0]
  /\ settled' = FALSE
  /\ UNCHANGED published

Receive == \E d \in Detectors, v \in Verdict : OnVerdict(d, v)

\* ArbiterNode::arbitrate_and_publish with nothing to report.
PublishNominal == Contributors = {} /\ published' = Nominal

\* ArbiterNode::arbitrate_and_publish with a winner.
PublishWorst ==
  \E d \in Contributors : Wins(d) /\ published' = Candidate(d)

Publish ==
  /\ settled' = TRUE
  /\ UNCHANGED <<latest, rank, age>>
  /\ PublishNominal \/ PublishWorst

\* The monotonic clock advances by one tick.
ClockTick ==
  /\ age' = [d \in Detectors |->
               IF d \in Heard /\ age[d] <= Staleness THEN age[d] + 1 ELSE age[d]]
  /\ UNCHANGED <<latest, rank, published, settled>>

\* The process dies and is launched again: every verdict is forgotten, and
\* the transient-local sample goes with its writer.
Restart ==
  /\ latest' = [d \in Detectors |-> NoVerdict]
  /\ rank' = [d \in Detectors |-> 0]
  /\ age' = [d \in Detectors |-> 0]
  /\ published' = NoHealth
  /\ settled' = FALSE

Next == Receive \/ Publish \/ ClockTick \/ Restart

Spec == Init /\ [][Next]_arbiterVars

(***************************************************************************)
(* The arbitration timer is periodic and the clock runs.  Nothing is       *)
(* assumed of the detectors: that they may fall silent is the point.       *)
(***************************************************************************)
Fairness == WF_arbiterVars(Publish) /\ WF_arbiterVars(ClockTick)

FairSpec == Spec /\ Fairness
-----------------------------------------------------------------------------
(***************************************************************************)
(* Silence never relaxes health.  Between two publications with no verdict *)
(* in between, whatever time has passed, (state, score) does not decrease: *)
(* staleness may escalate a source, it never de-escalates or drops one     *)
(* (arbiter.hpp:8-12).  The recovery layer releases its hold on OK and     *)
(* DEGRADED, so a detector that dies after a STOP must not look healthier. *)
(***************************************************************************)
SilenceNeverRelaxes ==
  [][Publish /\ settled => ~Worse(published, published')]_arbiterVars

(***************************************************************************)
(* An OK is never published over a source that is silent, poisoned or      *)
(* violating, in whatever order the verdicts arrived (arbiter.hpp:17-20).  *)
(***************************************************************************)
AllClear(d) == Finite(d) /\ age[d] <= Staleness /\ ~latest[d].violating

NominalMeansAllClear ==
  [][Publish => (published'.state = STATE_OK <=> \A d \in Heard : AllClear(d))]_arbiterVars

(***************************************************************************)
(* Health reaches INTERVENE or STOP exactly when some source's latest      *)
(* verdict is finite, violating and in that band or above: a poisoned      *)
(* score neither forces a stop nor hides another source's (arbiter.hpp:5-7,*)
(* test_arbiter.cpp:192-207), and age plays no part.                       *)
(***************************************************************************)
Demands(d, state) ==
  Finite(d) /\ latest[d].violating /\ ScoreToState(latest[d].score) >= state

EscalationIsExact ==
  [][Publish => \A s \in {STATE_INTERVENE, STATE_STOP} :
       published'.state >= s <=> \E d \in Heard : Demands(d, s)]_arbiterVars

(***************************************************************************)
(* A rewind, the one action that moves the robot, is asked for only by a   *)
(* fresh verdict of a source that asked for it, and never by a source that *)
(* has since gone silent or poisoned (arbiter.hpp:8-9, 16).                *)
(***************************************************************************)
RewindIsFresh ==
  [][Publish /\ published'.action = ACTION_REWIND =>
       \E d \in Heard : /\ published'.source = d
                        /\ age[d] <= Staleness
                        /\ latest[d].action = ACTION_REWIND]_arbiterVars

(***************************************************************************)
(* A detector that falls silent is eventually reflected in health for as   *)
(* long as it stays silent: it cannot be outlived by old good news.        *)
(***************************************************************************)
SilenceSurfaces ==
  \A d \in Detectors :
    <>[](d \in Heard /\ age[d] > 0)
      => <>[](published # NoHealth /\ published.state # STATE_OK)
=============================================================================
