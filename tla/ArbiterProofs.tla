---------------------------- MODULE ArbiterProofs ----------------------------
(***************************************************************************)
(* Proofs about the arbiter, for every finite set of sources, every set of *)
(* integer scores and every staleness.  Publish picks a candidate that     *)
(* wins; that there is exactly one, the loop's, is proved last.            *)
(***************************************************************************)
EXTENDS ArbiterLoop, FiniteSetTheorems, WellFoundedInduction, TLAPS

LEMMA BandType == ASSUME NEW s \in Int PROVE ScoreToState(s) \in SeverityStates
BY DEF ScoreToState, SeverityStates, STATE_OK, STATE_DEGRADED, STATE_INTERVENE,
       STATE_STOP, STOP_THRESHOLD, INTERVENE_THRESHOLD, DEGRADED_THRESHOLD

(* What a verdict that is neither poisoned nor healthy competes with.      *)
LEMMA ViolatingStateType ==
  ASSUME TypeOK, NEW d \in Heard, Finite(d)
  PROVE  /\ latest[d].score \in Scores /\ latest[d].score \in Int
         /\ ViolatingState(d) \in {STATE_DEGRADED, STATE_INTERVENE, STATE_STOP}
         /\ ViolatingState(d) >= ScoreToState(latest[d].score)
         /\ \A s \in {STATE_INTERVENE, STATE_STOP} :
              ViolatingState(d) >= s => ScoreToState(latest[d].score) >= s
<1>1. latest[d].score \in Scores /\ latest[d].score \in Int
  BY ArbiterAssumption DEF TypeOK, Verdict, Finite
<1>2. ScoreToState(latest[d].score) \in SeverityStates
  BY <1>1, BandType
<1> HIDE DEF ScoreToState
<1> QED BY <1>1, <1>2 DEF ViolatingState, AtLeast, SeverityStates, STATE_OK,
             STATE_DEGRADED, STATE_INTERVENE, STATE_STOP

(* The four shapes of a contribution, with what the proofs below need of   *)
(* each.                                                                   *)
LEMMA CandidateShape ==
  ASSUME TypeOK, NEW d \in Contributors
  PROVE  /\ ~Finite(d) => Candidate(d) = BadScore(d)
         /\ Finite(d) /\ Stale(d) /\ ~latest[d].violating
              => Candidate(d) = StaleHealthy(d)
         /\ Finite(d) /\ Stale(d) /\ latest[d].violating
              => Candidate(d) = StaleViolating(d)
         /\ Finite(d) /\ ~Stale(d)
              => Candidate(d) = FreshViolating(d) /\ latest[d].violating
<1>1. d \in Heard /\ Contributes(d)
  BY DEF Contributors
<1> QED BY <1>1 DEF Candidate, Contributes

LEMMA CandidateType ==
  ASSUME TypeOK, NEW d \in Contributors
  PROVE  /\ Candidate(d) \in Health
         /\ Candidate(d).state \in {STATE_DEGRADED, STATE_INTERVENE, STATE_STOP}
         /\ Candidate(d).state \in Int /\ Candidate(d).score \in Int
         /\ Candidate(d).source = d
<1>1. d \in Heard /\ d \in Detectors /\ latest[d] \in Verdict
  BY DEF Contributors, Heard, TypeOK
<1> USE DEF STATE_OK, STATE_DEGRADED, STATE_INTERVENE, STATE_STOP, ACTION_NONE,
            ACTION_LOG_ONLY, ACTION_REWIND, AllowedActions, SeverityStates,
            STALE_SCORE, DEGRADED_THRESHOLD, BAD_INPUT_SCORE, Kinds, Health
<1>2. CASE ~Finite(d)
  BY <1>1, <1>2, CandidateShape DEF BadScore
<1>3. CASE Finite(d) /\ Stale(d) /\ ~latest[d].violating
  BY <1>1, <1>3, CandidateShape DEF StaleHealthy
<1>4. CASE Finite(d) /\ Stale(d) /\ latest[d].violating
  <2>1. AtLeast(STALE_SCORE, latest[d].score) \in Scores \cup {25}
    BY <1>1, <1>4, ViolatingStateType DEF AtLeast
  <2>2. AtLeast(STALE_SCORE, latest[d].score) \in Int
    BY <1>1, <1>4, ViolatingStateType DEF AtLeast
  <2> QED BY <1>1, <1>4, <2>1, <2>2, CandidateShape, ViolatingStateType
          DEF StaleViolating
<1>5. CASE Finite(d) /\ ~Stale(d)
  <2>1. SuggestedAction(d) \in AllowedActions
    BY DEF SuggestedAction
  <2> QED BY <1>1, <1>5, <2>1, CandidateShape, ViolatingStateType DEF FreshViolating
<1> QED BY <1>2, <1>3, <1>4, <1>5

-----------------------------------------------------------------------------
(* Types.  A new source takes the next position of latest_, which exists   *)
(* because the sources heard so far are a proper subset of all of them.    *)
LEMMA InitType == Init => TypeOK
<1>1. Cardinality(Detectors) \in Nat
  BY ArbiterAssumption, FS_CardinalityType
<1>2. Init => Heard = {}
  BY DEF Init, Heard
<1>3. Init => /\ rank \in [Detectors -> 0 .. Cardinality(Detectors)]
              /\ age \in [Detectors -> 0 .. Staleness + 1]
  BY <1>1, ArbiterAssumption DEF Init
<1> QED BY <1>2, <1>3, Zenon DEF Init, TypeOK

LEMMA NextRank ==
  ASSUME TypeOK, NEW d \in Detectors, d \notin Heard
  PROVE  Cardinality(Heard) + 1 \in 1 .. Cardinality(Detectors)
<1>1. Heard \subseteq Detectors /\ Heard # Detectors
  BY DEF Heard
<1>2. /\ IsFiniteSet(Heard) /\ Cardinality(Heard) <= Cardinality(Detectors)
      /\ Cardinality(Heard) # Cardinality(Detectors)
  BY <1>1, ArbiterAssumption, FS_Subset
<1>3. Cardinality(Heard) \in Nat /\ Cardinality(Detectors) \in Nat
  BY <1>2, ArbiterAssumption, FS_CardinalityType
<1> QED BY <1>2, <1>3

LEMMA ReceiveType == TypeOK /\ Receive => TypeOK'
<1> SUFFICES ASSUME TypeOK, NEW d \in Detectors, NEW v \in Verdict, OnVerdict(d, v)
             PROVE  TypeOK'
  BY DEF Receive
<1>1. rank' \in [Detectors -> 0 .. Cardinality(Detectors)]
  <2>1. CASE d \in Heard      BY <2>1 DEF OnVerdict, TypeOK
  <2>2. CASE d \notin Heard
    BY <2>2, NextRank DEF OnVerdict, TypeOK
  <2> QED BY <2>1, <2>2
<1>2. Heard' \subseteq Heard \cup {d}
  <2>1. CASE d \in Heard      BY <2>1 DEF OnVerdict, Heard
  <2>2. CASE d \notin Heard   BY <2>2 DEF OnVerdict, Heard, TypeOK
  <2> QED BY <2>1, <2>2
<1>3. latest' \in [Detectors -> Verdict \cup {NoVerdict}]
  BY DEF OnVerdict, TypeOK
<1>4. \A e \in Heard' : latest'[e] \in Verdict
  BY <1>2 DEF OnVerdict, TypeOK, Heard
<1>5. age' \in [Detectors -> 0 .. Staleness + 1]
  BY ArbiterAssumption DEF OnVerdict, TypeOK
<1>6. published' \in Health \cup {NoHealth} /\ settled' \in BOOLEAN
  BY DEF OnVerdict, TypeOK
<1> QED BY <1>1, <1>3, <1>4, <1>5, <1>6 DEF TypeOK

LEMMA PublishType == TypeOK /\ Publish => TypeOK'
<1> SUFFICES ASSUME TypeOK, Publish PROVE TypeOK'
  OBVIOUS
<1>1. Nominal \in Health
  BY DEF Nominal, Health, Kinds, SeverityStates, AllowedActions, STATE_OK,
         STATE_STOP, ACTION_NONE, ACTION_REWIND
<1>2. published' \in Health
  BY <1>1, CandidateType DEF Publish, PublishNominal, PublishWorst
<1> QED BY <1>2 DEF Publish, TypeOK, Heard

LEMMA ClockTickType == TypeOK /\ ClockTick => TypeOK'
<1> SUFFICES ASSUME TypeOK, ClockTick PROVE TypeOK'
  OBVIOUS
<1>1. age' \in [Detectors -> 0 .. Staleness + 1]
  BY ArbiterAssumption DEF ClockTick, TypeOK
<1> QED BY <1>1 DEF ClockTick, TypeOK, Heard

LEMMA RestartType == TypeOK /\ Restart => TypeOK'
<1>1. Cardinality(Detectors) \in Nat
  BY ArbiterAssumption, FS_CardinalityType
<1>2. Restart => Heard' = {}
  BY DEF Restart, Heard
<1>3. Restart => /\ rank' \in [Detectors -> 0 .. Cardinality(Detectors)]
                 /\ age' \in [Detectors -> 0 .. Staleness + 1]
  BY <1>1, ArbiterAssumption DEF Restart
<1> QED BY <1>2, <1>3, Zenon DEF Restart, TypeOK

LEMMA StepType == TypeOK /\ [Next]_arbiterVars => TypeOK'
<1>1. TypeOK /\ UNCHANGED arbiterVars => TypeOK'
  BY DEF arbiterVars, TypeOK, Heard
<1> QED BY ReceiveType, PublishType, ClockTickType, RestartType, <1>1 DEF Next

(* The arbiter never leaves its types: what it publishes is a health       *)
(* status with a defined state, a finite score and an allowed action.      *)
THEOREM TypeCorrect == Spec => []TypeOK
BY InitType, StepType, PTL DEF Spec
-----------------------------------------------------------------------------
(* Worse is a strict weak order on contributions: its complement chains.   *)
LEMMA NotWorseChains ==
  ASSUME NEW a, NEW b, NEW c,
         a.state \in Int, a.score \in Int, b.state \in Int, b.score \in Int,
         c.state \in Int, c.score \in Int,
         ~Worse(a, b), ~Worse(b, c)
  PROVE  ~Worse(a, c)
BY DEF Worse

(* The winner is at least as bad as every contribution.                    *)
LEMMA WinnerIsWorst ==
  ASSUME TypeOK, NEW w \in Contributors, Wins(w), NEW d \in Contributors
  PROVE  ~Worse(Candidate(d), Candidate(w))
<1>1. /\ Candidate(w).state \in Int /\ Candidate(w).score \in Int
      /\ Candidate(d).state \in Int /\ Candidate(d).score \in Int
  BY CandidateType
<1>2. CASE d = w   BY <1>1, <1>2 DEF Worse
<1>3. CASE d # w
  <2>1. Worse(Candidate(w), Candidate(d)) \/ ~Worse(Candidate(d), Candidate(w))
    BY <1>3 DEF Wins
  <2> QED BY <1>1, <2>1 DEF Worse
<1> QED BY <1>2, <1>3

(* What a publication is: nothing contributes and it is nominal, or some   *)
(* winner is published and every contribution is at most as bad.           *)
LEMMA PublicationIs ==
  ASSUME TypeOK, Publish
  PROVE  \/ Contributors = {} /\ published' = Nominal
         \/ \E w \in Contributors :
              /\ published' = Candidate(w)
              /\ \A d \in Contributors : ~Worse(Candidate(d), Candidate(w))
BY WinnerIsWorst DEF Publish, PublishNominal, PublishWorst

(* The same for the contributions of any state, to be read of the next.    *)
Comparable == \A d \in Contributors :
                Candidate(d).state \in Int /\ Candidate(d).score \in Int

LEMMA ContributionsComparable == TypeOK => Comparable
BY CandidateType DEF Comparable

(* The published status, of a running arbiter, is comparable.              *)
LEMMA HealthType ==
  ASSUME TypeOK, published # NoHealth
  PROVE  published.state \in Int /\ published.score \in Int
<1>1. published \in Health
  BY DEF TypeOK
<1>2. published.state \in SeverityStates
  BY <1>1 DEF Health
<1>3. published.score \in Scores \cup {0, 25, BAD_INPUT_SCORE}
  BY <1>1 DEF Health
<1>4. Scores \subseteq Int
  BY ArbiterAssumption
<1>5. published.state \in Int
  BY <1>2 DEF SeverityStates, STATE_OK, STATE_STOP
<1>6. published.score \in Int
  <2>1. CASE published.score \in Scores
    BY <1>4, <2>1
  <2>2. CASE published.score \in {0, 25, BAD_INPUT_SCORE}
    BY <2>2 DEF BAD_INPUT_SCORE
  <2> QED BY <1>3, <2>1, <2>2
<1> QED BY <1>5, <1>6

(* Age alone never takes a contribution away and never lowers it.          *)
LEMMA AgeingEscalates ==
  ASSUME TypeOK, ClockTick, NEW d \in Contributors
  PROVE  /\ d \in Contributors'
         /\ ~Worse(Candidate(d), Candidate(d)')
<1>1. d \in Heard /\ d \in Detectors /\ Contributes(d)
  BY DEF Contributors, Heard
<1>2. Heard' = Heard /\ (Finite(d)' <=> Finite(d)) /\ latest' = latest
  BY DEF ClockTick, Heard, Finite
<1>3. Stale(d) => Stale(d)'
  BY <1>1, ArbiterAssumption DEF ClockTick, Stale, TypeOK
<1>4. Contributes(d)'
  BY <1>1, <1>2, <1>3 DEF Contributes
<1>5. d \in Contributors'
  BY <1>1, <1>2, <1>4 DEF Contributors
<1>6. TypeOK'
  BY ClockTickType
<1>7. ViolatingState(d)' = ViolatingState(d)
  BY <1>2 DEF ViolatingState
<1>8. CASE ~Finite(d)
  <2>1. Candidate(d) = BadScore(d) /\ Candidate(d)' = BadScore(d)
    BY <1>2, <1>8, CandidateShape DEF Candidate, BadScore
  <2> QED BY <1>5, <2>1 DEF Worse, BadScore, STATE_DEGRADED, BAD_INPUT_SCORE
<1>9. CASE Finite(d) /\ ~latest[d].violating
  <2>1. Stale(d)
    BY <1>1, <1>9 DEF Contributes
  <2>2. Candidate(d) = StaleHealthy(d) /\ Candidate(d)' = StaleHealthy(d)
    BY <1>2, <1>3, <1>9, <2>1, CandidateShape DEF Candidate, StaleHealthy
  <2> QED BY <1>5, <2>2 DEF Worse, StaleHealthy, STATE_DEGRADED, STALE_SCORE,
                            DEGRADED_THRESHOLD
<1>10. CASE Finite(d) /\ latest[d].violating
  <2>1. latest[d].score \in Int /\ ViolatingState(d) \in Int
    BY <1>1, <1>10, ViolatingStateType DEF STATE_DEGRADED, STATE_INTERVENE, STATE_STOP
  <2>2. /\ Candidate(d).state = ViolatingState(d)
        /\ Candidate(d).score = IF Stale(d) THEN AtLeast(STALE_SCORE, latest[d].score)
                                ELSE latest[d].score
    BY <1>10, CandidateShape DEF StaleViolating, FreshViolating
  <2>3. /\ Candidate(d)'.state = ViolatingState(d)
        /\ Candidate(d)'.score = IF Stale(d)' THEN AtLeast(STALE_SCORE, latest[d].score)
                                 ELSE latest[d].score
    <3>1. CASE Stale(d)'
      <4>1. Candidate(d)' = StaleViolating(d)'
        BY <1>2, <1>10, <3>1 DEF Candidate
      <4> QED BY <1>2, <1>7, <3>1, <4>1 DEF StaleViolating
    <3>2. CASE ~Stale(d)'
      <4>1. Candidate(d)' = FreshViolating(d)'
        BY <1>2, <1>10, <3>2 DEF Candidate
      <4> QED BY <1>2, <1>7, <3>2, <4>1 DEF FreshViolating
    <3> QED BY <3>1, <3>2
  <2> QED BY <1>3, <1>5, <2>1, <2>2, <2>3
          DEF Worse, AtLeast, STALE_SCORE, DEGRADED_THRESHOLD
<1> QED BY <1>5, <1>8, <1>9, <1>10

-----------------------------------------------------------------------------
(***************************************************************************)
(* Silence never relaxes health.  The inductive invariant: while no        *)
(* verdict has arrived since the last publication, what was published is   *)
(* nominal or is still backed by a contribution at least as bad.  Ageing   *)
(* keeps the backing, and the next winner is at least as bad as it.        *)
(***************************************************************************)
BackedBy(d) == d \in Contributors /\ ~Worse(published, Candidate(d))

Backed ==
  settled => /\ published # NoHealth
             /\ published = Nominal \/ \E d \in Detectors : BackedBy(d)

(* A record is not the unpublished marker: the constant is a fresh value.  *)
LEMMA PublishedIsHealth ==
  ASSUME TypeOK, Publish
  PROVE  published' \in Health
<1>1. Nominal \in Health
  BY DEF Nominal, Health, Kinds, SeverityStates, AllowedActions, STATE_OK,
         STATE_STOP, ACTION_NONE, ACTION_REWIND
<1> QED BY <1>1, CandidateType DEF Publish, PublishNominal, PublishWorst

LEMMA PublishBacked == TypeOK /\ Publish => Backed'
<1> SUFFICES ASSUME TypeOK, Publish PROVE Backed'
  OBVIOUS
<1>1. published' # NoHealth
  BY PublishedIsHealth, ArbiterAssumption
<1>2. Contributors' = Contributors /\ \A d : Candidate(d)' = Candidate(d)
  BY DEF Publish, Contributors, Contributes, Heard, Finite, Stale, Candidate,
         BadScore, StaleHealthy, StaleViolating, FreshViolating, ViolatingState,
         SuggestedAction
<1>3. CASE published' = Nominal
  BY <1>1, <1>3 DEF Backed, Nominal
<1>4. CASE \E w \in Contributors : published' = Candidate(w)
  <2>1. PICK w \in Contributors : published' = Candidate(w)
    BY <1>4
  <2>2. Candidate(w).state \in Int /\ Candidate(w).score \in Int /\ w \in Detectors
    BY CandidateType DEF Contributors, Heard
  <2>3. BackedBy(w)'
    BY <1>2, <2>1, <2>2 DEF BackedBy, Worse
  <2> QED BY <1>1, <2>2, <2>3 DEF Backed
<1> QED BY <1>3, <1>4, PublicationIs

LEMMA ClockTickBacked == TypeOK /\ Backed /\ ClockTick => Backed'
<1> SUFFICES ASSUME TypeOK, Backed, ClockTick, settled PROVE Backed'
  BY DEF ClockTick, Backed
<1>1. published' = published /\ published # NoHealth
  BY DEF ClockTick, Backed
<1>2. CASE published = Nominal
  BY <1>1, <1>2 DEF Backed, Nominal
<1>3. ASSUME NEW d \in Detectors, BackedBy(d) PROVE Backed'
  <2>1. d \in Contributors' /\ ~Worse(Candidate(d), Candidate(d)')
    BY <1>3, AgeingEscalates DEF BackedBy
  <2>2. Candidate(d)'.state \in Int /\ Candidate(d)'.score \in Int
    <3>1. TypeOK'
      BY ClockTickType
    <3>2. (TypeOK => Comparable)'
      BY ContributionsComparable, PTL
    <3> QED BY <2>1, <3>1, <3>2 DEF Comparable
  <2>3. ~Worse(published, Candidate(d)')
    BY <1>1, <1>3, <2>1, <2>2, HealthType, CandidateType, NotWorseChains DEF BackedBy
  <2> QED BY <1>1, <1>3, <2>1, <2>3 DEF Backed, BackedBy
<1> QED BY <1>2, <1>3 DEF Backed

LEMMA StepBacked == TypeOK /\ Backed /\ [Next]_arbiterVars => Backed'
<1> SUFFICES ASSUME TypeOK, Backed, [Next]_arbiterVars PROVE Backed'
  OBVIOUS
<1>1. CASE Receive         BY <1>1 DEF Receive, OnVerdict, Backed
<1>2. CASE Publish         BY <1>2, PublishBacked
<1>3. CASE ClockTick       BY <1>3, ClockTickBacked
<1>4. CASE Restart         BY <1>4 DEF Restart, Backed
<1>5. CASE UNCHANGED arbiterVars
  BY <1>5 DEF arbiterVars, Backed, BackedBy, Contributors, Contributes, Heard,
         Finite, Stale, Candidate, BadScore, StaleHealthy, StaleViolating,
         FreshViolating, ViolatingState, SuggestedAction
<1> QED BY <1>1, <1>2, <1>3, <1>4, <1>5 DEF Next

LEMMA SettledPublishEscalates ==
  ASSUME TypeOK, Backed, Publish, settled
  PROVE  ~Worse(published, published')
<1>1. published # NoHealth
  BY DEF Backed
<1>2. /\ published.state \in Int /\ published.score \in Int
  BY <1>1, HealthType
<1>3. published' = Nominal \/ \E w \in Contributors : published' = Candidate(w)
  BY PublicationIs
<1>4. CASE published = Nominal
  <2>1. CASE published' = Nominal
    BY <1>4, <2>1 DEF Worse, Nominal, STATE_OK
  <2>2. CASE \E w \in Contributors : published' = Candidate(w)
    BY <1>4, <2>2, CandidateType
    DEF Worse, Nominal, STATE_OK, STATE_DEGRADED, STATE_INTERVENE, STATE_STOP
  <2> QED BY <1>3, <2>1, <2>2
<1>5. ASSUME NEW d \in Detectors, BackedBy(d) PROVE ~Worse(published, published')
  <2>1. PICK w \in Contributors : /\ published' = Candidate(w)
                                  /\ \A e \in Contributors : ~Worse(Candidate(e), Candidate(w))
    BY <1>5, PublicationIs DEF BackedBy
  <2>2. ~Worse(published, Candidate(d)) /\ ~Worse(Candidate(d), Candidate(w))
    BY <1>5, <2>1 DEF BackedBy
  <2>3. d \in Contributors
    BY <1>5 DEF BackedBy
  <2>4. /\ Candidate(w).state \in Int /\ Candidate(w).score \in Int
        /\ Candidate(d).state \in Int /\ Candidate(d).score \in Int
    BY <2>3, CandidateType
  <2>5. ~Worse(published, Candidate(w))
    BY <1>2, <2>2, <2>4, NotWorseChains
  <2> QED BY <2>1, <2>5
<1> QED BY <1>4, <1>5 DEF Backed

(* However long the detectors stay silent, the published health never      *)
(* improves: only a new verdict or a new process can lower it.             *)
THEOREM SilenceIsMonotone == Spec => SilenceNeverRelaxes
<1>1. Init => Backed
  BY DEF Init, Backed
<1>2. TypeOK /\ Backed /\ [Next]_arbiterVars
        => [Publish /\ settled => ~Worse(published, published')]_arbiterVars
  BY SettledPublishEscalates
<1> QED BY InitType, StepType, StepBacked, <1>1, <1>2, PTL DEF Spec, SilenceNeverRelaxes

-----------------------------------------------------------------------------
(* The action properties below need no more than the types: each is a      *)
(* fact about one publication over the verdicts it reads.                  *)

(* A source contributes exactly when it is not all clear.                  *)
LEMMA ContributesUnlessClear ==
  ASSUME TypeOK, NEW d \in Heard
  PROVE  d \in Contributors <=> ~AllClear(d)
BY ArbiterAssumption DEF Contributors, Contributes, AllClear, Stale, TypeOK, Heard

LEMMA PublishNominalExact ==
  ASSUME TypeOK, Publish
  PROVE  published'.state = STATE_OK <=> \A d \in Heard : AllClear(d)
<1>1. CASE Contributors = {} /\ published' = Nominal
  <2>1. published'.state = STATE_OK
    BY <1>1 DEF Nominal
  <2>2. \A d \in Heard : AllClear(d)
    BY <1>1, ContributesUnlessClear
  <2> QED BY <2>1, <2>2
<1>2. ASSUME NEW w \in Contributors, published' = Candidate(w)
      PROVE  published'.state # STATE_OK /\ ~AllClear(w) /\ w \in Heard
  <2>1. w \in Heard
    BY DEF Contributors
  <2>2. published'.state # STATE_OK
    BY <1>2, CandidateType
    DEF STATE_OK, STATE_DEGRADED, STATE_INTERVENE, STATE_STOP
  <2> QED BY <2>1, <2>2, ContributesUnlessClear
<1> QED BY <1>1, <1>2, PublicationIs

(* An OK never hides a silent, poisoned or violating source.               *)
THEOREM NominalIsAllClear == Spec => NominalMeansAllClear
<1>1. TypeOK /\ [Next]_arbiterVars =>
        [Publish => (published'.state = STATE_OK <=> \A d \in Heard : AllClear(d))]_arbiterVars
  BY PublishNominalExact
<1> QED BY InitType, StepType, <1>1, PTL DEF Spec, NominalMeansAllClear

(* A contribution is in an actuating band exactly when its verdict is.     *)
LEMMA ContributionDemands ==
  ASSUME TypeOK, NEW d \in Contributors, NEW s \in {STATE_INTERVENE, STATE_STOP}
  PROVE  Candidate(d).state >= s <=> Demands(d, s)
<1>1. d \in Heard
  BY DEF Contributors
<1> HIDE DEF ScoreToState
<1>2. CASE ~Finite(d)
  BY <1>2, CandidateShape
  DEF Demands, BadScore, STATE_DEGRADED, STATE_INTERVENE, STATE_STOP
<1>3. CASE Finite(d) /\ ~latest[d].violating
  <2>1. Candidate(d).state = STATE_DEGRADED
    BY <1>3, CandidateShape DEF StaleHealthy
  <2> QED BY <1>3, <2>1 DEF Demands, STATE_DEGRADED, STATE_INTERVENE, STATE_STOP
<1>4. CASE Finite(d) /\ latest[d].violating
  <2>1. Candidate(d).state = ViolatingState(d)
    BY <1>4, CandidateShape DEF StaleViolating, FreshViolating
  <2>2. ScoreToState(latest[d].score) \in SeverityStates
    BY <1>1, <1>4, BandType, ViolatingStateType
  <2> QED BY <1>1, <1>4, <2>1, <2>2, ViolatingStateType
          DEF Demands, SeverityStates, STATE_OK, STATE_DEGRADED, STATE_INTERVENE, STATE_STOP
<1> QED BY <1>2, <1>3, <1>4

LEMMA PublishEscalationExact ==
  ASSUME TypeOK, Publish, NEW s \in {STATE_INTERVENE, STATE_STOP}
  PROVE  published'.state >= s <=> \E d \in Heard : Demands(d, s)
<1>1. \A d \in Heard : Demands(d, s) => d \in Contributors
  BY DEF Demands, Contributors, Contributes
<1>2. CASE Contributors = {} /\ published' = Nominal
  <2>1. ~(published'.state >= s)
    BY <1>2 DEF Nominal, STATE_OK, STATE_INTERVENE, STATE_STOP
  <2> QED BY <1>1, <1>2, <2>1
<1>3. ASSUME NEW w \in Contributors, published' = Candidate(w),
             \A d \in Contributors : ~Worse(Candidate(d), Candidate(w))
      PROVE  published'.state >= s <=> \E d \in Heard : Demands(d, s)
  <2>1. w \in Heard
    BY DEF Contributors
  <2>2. published'.state >= s => Demands(w, s)
    BY <1>3, ContributionDemands
  <2>3. ASSUME NEW d \in Heard, Demands(d, s) PROVE published'.state >= s
    <3>1. d \in Contributors
      BY <1>1, <2>3
    <3>2. Candidate(d).state >= s
      BY <2>3, <3>1, ContributionDemands
    <3>3. /\ Candidate(w).state \in Int /\ Candidate(d).state \in Int
          /\ ~Worse(Candidate(d), Candidate(w))
      BY <1>3, <3>1, CandidateType
    <3> QED BY <1>3, <3>2, <3>3 DEF Worse, STATE_INTERVENE, STATE_STOP
  <2> QED BY <2>1, <2>2, <2>3
<1> QED BY <1>2, <1>3, PublicationIs

(* Health is at INTERVENE or STOP exactly on the word of a finite,         *)
(* violating verdict in that band, however old and whatever the others say.*)
THEOREM EscalationExact == Spec => EscalationIsExact
<1>1. TypeOK /\ [Next]_arbiterVars =>
        [Publish => \A s \in {STATE_INTERVENE, STATE_STOP} :
           published'.state >= s <=> \E d \in Heard : Demands(d, s)]_arbiterVars
  BY PublishEscalationExact
<1> QED BY InitType, StepType, <1>1, PTL DEF Spec, EscalationIsExact

LEMMA RewindComesFresh ==
  ASSUME TypeOK, Publish, published'.action = ACTION_REWIND
  PROVE  \E d \in Heard : /\ published'.source = d
                          /\ age[d] <= Staleness
                          /\ latest[d].action = ACTION_REWIND
<1> USE DEF ACTION_NONE, ACTION_LOG_ONLY, ACTION_REWIND
<1>1. PICK w \in Contributors : published' = Candidate(w)
  BY PublicationIs DEF Nominal
<1>2. w \in Heard /\ w \in Detectors
  BY DEF Contributors, Heard
<1>3. Finite(w) /\ ~Stale(w)
  BY <1>1, CandidateShape DEF BadScore, StaleHealthy, StaleViolating
<1>4. SuggestedAction(w) = ACTION_REWIND
  BY <1>1, <1>3, CandidateShape DEF FreshViolating
<1>5. latest[w].action = ACTION_REWIND
  BY <1>4 DEF SuggestedAction
<1>6. age[w] <= Staleness
  BY <1>2, <1>3, ArbiterAssumption DEF Stale, TypeOK
<1>7. published'.source = w
  BY <1>1, CandidateType
<1> QED BY <1>2, <1>5, <1>6, <1>7

(* A rewind is asked for only by a source that still says so.              *)
THEOREM RewindFresh == Spec => RewindIsFresh
<1>1. TypeOK /\ [Next]_arbiterVars =>
        [Publish /\ published'.action = ACTION_REWIND =>
           \E d \in Heard : /\ published'.source = d
                            /\ age[d] <= Staleness
                            /\ latest[d].action = ACTION_REWIND]_arbiterVars
  BY RewindComesFresh
<1> QED BY InitType, StepType, <1>1, PTL DEF Spec, RewindIsFresh
-----------------------------------------------------------------------------
(***************************************************************************)
(* The loop over latest_.  The sources heard hold the first positions, one *)
(* each, so that the loop sees every one of them once.                     *)
(***************************************************************************)
OneToEach(S, r, n) ==
  /\ \A d \in S : r[d] \in 1 .. n
  /\ \A i \in 1 .. n : \E d \in S : r[d] = i
  /\ \A d, e \in S : r[d] = r[e] => d = e

OneToAPosition == OneToEach(Heard, rank, Cardinality(Heard))

LEMMA HeardCount == IsFiniteSet(Heard) /\ Cardinality(Heard) \in Nat
<1>1. Heard \subseteq Detectors
  BY DEF Heard
<1> QED BY <1>1, ArbiterAssumption, FS_Subset, FS_CardinalityType

LEMMA NobodyHeard == ASSUME Heard = {} PROVE OneToAPosition
<1>1. Cardinality(Heard) = 0
  BY FS_EmptySet
<1> QED BY <1>1 DEF OneToAPosition, OneToEach

\* A new source takes the position after the last.
LEMMA NewPosition ==
  ASSUME NEW S, IsFiniteSet(S), NEW n \in Nat, n = Cardinality(S),
         NEW r, OneToEach(S, r, n), NEW d, d \notin S,
         NEW q, q[d] = n + 1, \A e \in S : q[e] = r[e]
  PROVE  Cardinality(S \cup {d}) = n + 1 /\ OneToEach(S \cup {d}, q, n + 1)
<1>1. Cardinality(S \cup {d}) = n + 1
  BY FS_AddElement
<1>2. \A i \in 1 .. n + 1 : i \in 1 .. n \/ i = n + 1
  OBVIOUS
<1>3. \A e \in S \cup {d} : q[e] \in 1 .. n + 1
  BY DEF OneToEach
<1>4. \A i \in 1 .. n + 1 : \E e \in S \cup {d} : q[e] = i
  BY <1>2 DEF OneToEach
<1>5. \A e, f \in S \cup {d} : q[e] = q[f] => e = f
  <2>1. \A e \in S : q[e] # n + 1
    BY DEF OneToEach
  <2> QED BY <2>1 DEF OneToEach
<1> QED BY <1>1, <1>3, <1>4, <1>5 DEF OneToEach

LEMMA StepPosition == TypeOK /\ OneToAPosition /\ [Next]_arbiterVars => OneToAPosition'
<1> SUFFICES ASSUME TypeOK, OneToAPosition, [Next]_arbiterVars PROVE OneToAPosition'
  OBVIOUS
<1>1. CASE Restart
  <2>1. Heard' = {}
    BY <1>1 DEF Restart, Heard
  <2>2. Cardinality(Heard') = 0
    BY <2>1, FS_EmptySet
  <2> QED BY <2>1, <2>2 DEF OneToAPosition, OneToEach
<1>2. CASE rank' = rank
  BY <1>2 DEF OneToAPosition, OneToEach, Heard
<1>3. ASSUME NEW d \in Detectors, NEW v \in Verdict, OnVerdict(d, v), d \notin Heard
      PROVE  OneToAPosition'
  <2>1. PICK n \in Nat : n = Cardinality(Heard)
    BY HeardCount
  <2>2. rank' = [rank EXCEPT ![d] = n + 1]
    BY <1>3, <2>1 DEF OnVerdict
  <2>3. rank'[d] = n + 1 /\ \A e \in Detectors \ {d} : rank'[e] = rank[e]
    BY <2>2 DEF TypeOK
  <2>4. Heard' = Heard \cup {d}
    BY <1>3, <2>1, <2>3 DEF Heard
  <2>5. \A e \in Heard : rank'[e] = rank[e]
    BY <1>3, <2>3 DEF Heard
  <2>6. PICK S, r, q : S = Heard /\ r = rank /\ q = rank'
    OBVIOUS
  <2>7. IsFiniteSet(S) /\ d \notin S /\ n = Cardinality(S)
    BY <1>3, <2>1, <2>6, HeardCount
  <2>8. OneToEach(S, r, n)
    BY <2>1, <2>6 DEF OneToAPosition, OneToEach
  <2>9. q[d] = n + 1 /\ \A e \in S : q[e] = r[e]
    BY <2>3, <2>5, <2>6
  <2>10. Cardinality(S \cup {d}) = n + 1 /\ OneToEach(S \cup {d}, q, n + 1)
    BY <2>7, <2>8, <2>9, NewPosition
  <2> QED BY <2>4, <2>6, <2>10 DEF OneToAPosition, OneToEach
<1>4. ASSUME Next PROVE Restart \/ rank' = rank
                   \/ \E d \in Detectors, v \in Verdict : OnVerdict(d, v) /\ d \notin Heard
  BY <1>4 DEF Next, Receive, OnVerdict, Publish, ClockTick
<1>5. ASSUME UNCHANGED arbiterVars PROVE rank' = rank
  BY <1>5 DEF arbiterVars
<1> QED BY <1>1, <1>2, <1>3, <1>4, <1>5

\* The source at a position is the one of that rank.
LEMMA SourceIsAt ==
  ASSUME TypeOK, OneToAPosition, NEW d \in Heard
  PROVE  SourceAt(rank[d]) = d
BY DEF SourceAt, OneToAPosition, OneToEach

LEMMA SourceHasRank ==
  ASSUME TypeOK, OneToAPosition, NEW i \in 1 .. Cardinality(Heard)
  PROVE  SourceAt(i) \in Heard /\ rank[SourceAt(i)] = i
BY DEF SourceAt, OneToAPosition, OneToEach

LEMMA LeastNat ==
  ASSUME NEW T \in SUBSET Nat, T # {}
  PROVE  \E m \in T : \A x \in T : m <= x
<1>1. PICK m \in T : \A x \in T : <<x, m>> \notin OpToRel(<, Nat)
  BY NatLessThanWellFounded, WFMin
<1>2. \A x \in T : ~(x < m)
  BY <1>1 DEF OpToRel
<1> QED BY <1>2

(***************************************************************************)
(* The loop ends: there is a function that is its recursion, by taking the *)
(* least number of sources for which there would be none.                  *)
(***************************************************************************)
IsLoop(f, n) ==
  f = [i \in 0 .. n |-> IF i = 0 THEN NoHealth ELSE KeepWorst(f[i - 1], SourceAt(i))]

LEMMA LoopGoesOn ==
  ASSUME NEW n \in Nat \ {0}, NEW g, IsLoop(g, n - 1)
  PROVE  \E f : IsLoop(f, n)
<1> DEFINE f == [i \in 0 .. n |-> IF i = n THEN KeepWorst(g[n - 1], SourceAt(n)) ELSE g[i]]
<1>1. g = [i \in 0 .. n - 1 |-> IF i = 0 THEN NoHealth ELSE KeepWorst(g[i - 1], SourceAt(i))]
  BY DEF IsLoop
<1>2. \A i \in 0 .. n - 1 : f[i] = g[i]
  OBVIOUS
<1>3. f[n] = KeepWorst(f[n - 1], SourceAt(n))
  BY <1>2
<1>4. \A i \in 1 .. n - 1 : g[i] = KeepWorst(g[i - 1], SourceAt(i)) /\ f[i - 1] = g[i - 1]
  BY <1>1, <1>2
<1>5. f[0] = NoHealth
  BY <1>1, <1>2
<1>6. \A i \in 1 .. n : f[i] = KeepWorst(f[i - 1], SourceAt(i))
  BY <1>2, <1>3, <1>4
<1>7. f = [i \in 0 .. n |-> f[i]]
  OBVIOUS
<1> DEFINE h == [i \in 0 .. n |-> IF i = 0 THEN NoHealth ELSE KeepWorst(f[i - 1], SourceAt(i))]
<1> HIDE DEF f
<1>8. \A i \in 0 .. n : h[i] = f[i]
  <2>1. \A i \in 0 .. n : i = 0 \/ i \in 1 .. n
    OBVIOUS
  <2>2. h[0] = f[0]
    BY <1>5
  <2>3. \A i \in 1 .. n : h[i] = f[i]
    BY <1>6
  <2> QED BY <2>1, <2>2, <2>3
<1>9. h = [i \in 0 .. n |-> h[i]]
  OBVIOUS
<1>10. h = f
  <2> HIDE DEF h
  <2> QED BY <1>7, <1>8, <1>9
<1>11. IsLoop(f, n)
  BY <1>10 DEF IsLoop
<1> QED BY <1>11

LEMMA LoopExists == \A n \in Nat : \E f : IsLoop(f, n)
<1> DEFINE T == {n \in Nat : ~ \E f : IsLoop(f, n)}
<1> SUFFICES ASSUME T # {} PROVE FALSE
  OBVIOUS
<1>1. PICK m \in T : \A x \in T : m <= x
  BY LeastNat
<1>2. CASE m = 0
  <2>1. IsLoop([i \in 0 .. 0 |-> NoHealth], 0)
    BY DEF IsLoop
  <2> QED BY <1>1, <1>2, <2>1
<1>3. CASE m # 0
  <2>1. m - 1 \in Nat /\ m - 1 \notin T /\ m \in Nat \ {0}
    BY <1>1, <1>3
  <2>2. PICK g : IsLoop(g, m - 1)
    BY <2>1
  <2> QED BY <1>1, <2>1, <2>2, LoopGoesOn
<1> QED BY <1>2, <1>3

LEMMA Incumbents ==
  /\ Incumbent[0] = NoHealth
  /\ \A n \in 1 .. Cardinality(Heard) : Incumbent[n] = KeepWorst(Incumbent[n - 1], SourceAt(n))
<1>1. PICK n \in Nat : n = Cardinality(Heard)
  BY HeardCount
<1>2. IsLoop(Incumbent, n)
  BY <1>1, LoopExists DEF Incumbent, IsLoop
<1>3. Incumbent = [i \in 0 .. n |->
                     IF i = 0 THEN NoHealth ELSE KeepWorst(Incumbent[i - 1], SourceAt(i))]
  BY <1>2 DEF IsLoop
<1> HIDE DEF Incumbent
<1> QED BY <1>1, <1>3

(***************************************************************************)
(* After n sources the incumbent is the candidate that beats the others of *)
(* the first n, if one of them contributes.                                *)
(***************************************************************************)
FirstOnes(n) == {d \in Contributors : rank[d] <= n}

Beats(w, e) ==
  \/ Worse(Candidate(w), Candidate(e))
  \/ ~Worse(Candidate(e), Candidate(w)) /\ rank[w] < rank[e]

Leads(n) ==
  \/ FirstOnes(n) = {} /\ Incumbent[n] = NoHealth
  \/ \E w \in FirstOnes(n) : /\ Incumbent[n] = Candidate(w)
                             /\ \A e \in FirstOnes(n) \ {w} : Beats(w, e)

LEMMA CandidateIsHealth ==
  ASSUME TypeOK, NEW d \in Contributors PROVE Candidate(d) # NoHealth
BY CandidateType, ArbiterAssumption

LEMMA LeadPasses ==
  ASSUME TypeOK, OneToAPosition, NEW n \in 1 .. Cardinality(Heard), Leads(n - 1)
  PROVE  Leads(n)
<1> DEFINE d == SourceAt(n)
<1>0. Cardinality(Heard) \in Nat /\ n \in Nat
  BY HeardCount
<1>1. d \in Heard /\ rank[d] = n
  BY SourceHasRank
<1>2. Incumbent[n] = KeepWorst(Incumbent[n - 1], d)
  BY Incumbents
<1>3. \A e \in Heard : rank[e] \in Nat /\ (rank[e] <= n <=> rank[e] <= n - 1 \/ e = d)
  <2>1. \A e \in Heard : rank[e] \in Nat /\ (rank[e] = n => e = d)
    BY <1>0, <1>1 DEF OneToAPosition, OneToEach
  <2> QED BY <1>0, <1>1, <2>1
<1>4. Contributors \subseteq Heard /\ (Contributes(d) <=> d \in Contributors)
  BY <1>1 DEF Contributors
<1> HIDE DEF d
<1>5. CASE d \notin Contributors
  <2>1. FirstOnes(n) = FirstOnes(n - 1)
    BY <1>3, <1>4, <1>5 DEF FirstOnes
  <2>2. Incumbent[n] = Incumbent[n - 1]
    BY <1>2, <1>4, <1>5 DEF KeepWorst
  <2> QED BY <2>1, <2>2 DEF Leads
<1>6. CASE d \in Contributors
  <2>1. FirstOnes(n) = FirstOnes(n - 1) \cup {d}
    BY <1>3, <1>4, <1>6 DEF FirstOnes
  <2>2. CASE FirstOnes(n - 1) = {}
    <3>1. Incumbent[n - 1] = NoHealth
      BY <2>2 DEF Leads
    <3>2. Incumbent[n] = Candidate(d)
      BY <1>2, <1>4, <1>6, <3>1 DEF KeepWorst
    <3> QED BY <2>1, <2>2, <3>2 DEF Leads
  <2>3. CASE FirstOnes(n - 1) # {}
    <3>1. PICK w \in FirstOnes(n - 1) : /\ Incumbent[n - 1] = Candidate(w)
                                        /\ \A e \in FirstOnes(n - 1) \ {w} : Beats(w, e)
      BY <2>3 DEF Leads
    <3>2. w \in Contributors /\ rank[w] < rank[d] /\ rank[w] <= n - 1
      BY <1>0, <1>1, <1>3, <1>4, <3>1 DEF FirstOnes
    <3>3. Incumbent[n - 1] # NoHealth
      BY <3>1, <3>2, CandidateIsHealth
    <3>4. CASE Worse(Candidate(d), Candidate(w))
      <4>1. Incumbent[n] = Candidate(d)
        BY <1>2, <1>4, <1>6, <3>1, <3>4 DEF KeepWorst
      <4>2. ASSUME NEW e \in FirstOnes(n) \ {d} PROVE Beats(d, e)
        <5>1. e \in FirstOnes(n - 1) /\ e \in Contributors
          BY <2>1, <4>2 DEF FirstOnes
        <5>2. CASE e = w   BY <3>4, <5>2 DEF Beats
        <5>3. CASE e # w
          <6>1. Worse(Candidate(w), Candidate(e)) \/ ~Worse(Candidate(e), Candidate(w))
            BY <3>1, <5>1, <5>3 DEF Beats
          <6>2. /\ Candidate(d).state \in Int /\ Candidate(d).score \in Int
                /\ Candidate(w).state \in Int /\ Candidate(w).score \in Int
                /\ Candidate(e).state \in Int /\ Candidate(e).score \in Int
            BY <1>6, <3>2, <5>1, CandidateType
          <6>3. Worse(Candidate(d), Candidate(e))
            BY <3>4, <6>1, <6>2 DEF Worse
          <6> QED BY <6>3 DEF Beats
        <5> QED BY <5>2, <5>3
      <4> QED BY <2>1, <4>1, <4>2 DEF Leads
    <3>5. CASE ~Worse(Candidate(d), Candidate(w))
      <4>1. Incumbent[n] = Candidate(w)
        BY <1>2, <3>1, <3>3, <3>5 DEF KeepWorst
      <4>2. Beats(w, d)
        BY <3>2, <3>5 DEF Beats
      <4> QED BY <2>1, <3>1, <4>1, <4>2 DEF Leads
    <3> QED BY <3>4, <3>5
  <2> QED BY <2>2, <2>3
<1> QED BY <1>5, <1>6

LEMMA AlwaysLeads ==
  ASSUME TypeOK, OneToAPosition PROVE Leads(Cardinality(Heard))
<1>0. PICK last \in Nat : last = Cardinality(Heard)
  BY HeardCount
<1> DEFINE T == {n \in 0 .. last : ~Leads(n)}
<1> SUFFICES ASSUME T # {} PROVE FALSE
  BY <1>0
<1>1. PICK m \in T : \A x \in T : m <= x
  <2>1. T \in SUBSET Nat
    OBVIOUS
  <2> HIDE DEF T
  <2> QED BY <2>1, LeastNat
<1>2. CASE m = 0
  <2>1. FirstOnes(0) = {}
    BY <1>0 DEF FirstOnes, Contributors, OneToAPosition, OneToEach
  <2> QED BY <1>1, <1>2, <2>1, Incumbents DEF Leads
<1>3. CASE m # 0
  <2>1. m \in 1 .. last /\ m - 1 \in 0 .. last /\ m - 1 \notin T /\ ~Leads(m)
    BY <1>1, <1>3
  <2>2. Leads(m - 1)
    BY <2>1
  <2> QED BY <1>0, <2>1, <2>2, LeadPasses
<1> QED BY <1>2, <1>3

\* Two winners are one: of equals, the first heard.
LEMMA OneWinner ==
  ASSUME TypeOK, OneToAPosition,
         NEW v \in Contributors, NEW w \in Contributors, Wins(v), Wins(w)
  PROVE  v = w
<1> SUFFICES ASSUME v # w PROVE FALSE
  OBVIOUS
<1>1. Beats(v, w) /\ Beats(w, v)
  BY DEF Wins, Beats
<1>2. /\ Candidate(v).state \in Int /\ Candidate(v).score \in Int
      /\ Candidate(w).state \in Int /\ Candidate(w).score \in Int
  BY CandidateType
<1>3. rank[v] \in Int /\ rank[w] \in Int
  BY DEF Contributors, OneToAPosition, OneToEach
<1>4. ~(Worse(Candidate(v), Candidate(w)) /\ Worse(Candidate(w), Candidate(v)))
  BY <1>2 DEF Worse
<1>5. rank[v] < rank[w] /\ rank[w] < rank[v]
  BY <1>1, <1>4 DEF Beats
<1> QED BY <1>3, <1>5

LEMMA LoopIsWinner ==
  ASSUME TypeOK, OneToAPosition
  PROVE  /\ Contributors = {} => LoopResult = Nominal
         /\ \A w \in Contributors : Wins(w) => LoopResult = Candidate(w)
<1>1. FirstOnes(Cardinality(Heard)) = Contributors
  BY HeardCount DEF FirstOnes, Contributors, OneToAPosition, OneToEach
<1>2. Leads(Cardinality(Heard))
  BY AlwaysLeads
<1>3. CASE Contributors = {}
  BY <1>1, <1>2, <1>3 DEF Leads, LoopResult
<1>4. ASSUME NEW w \in Contributors, Wins(w) PROVE LoopResult = Candidate(w)
  <2>1. PICK v \in Contributors : /\ Incumbent[Cardinality(Heard)] = Candidate(v)
                                  /\ \A e \in Contributors \ {v} : Beats(v, e)
    BY <1>1, <1>2 DEF Leads
  <2>2. Wins(v)
    BY <2>1 DEF Wins, Beats
  <2>3. v = w
    BY <1>4, <2>2, OneWinner
  <2>4. Candidate(w) # NoHealth
    BY CandidateIsHealth
  <2> QED BY <2>1, <2>3, <2>4 DEF LoopResult
<1> QED BY <1>3, <1>4

(***************************************************************************)
(* The arbiter publishes what the loop over latest_ computes, for any      *)
(* number of sources heard in any order, ties included: the declarative    *)
(* winner is the code's incumbent (arbiter.cpp:33-73).                     *)
(***************************************************************************)
THEOREM LoopIsPublished == Spec => PublishesTheLoop
<1>1. Init => OneToAPosition
  BY NobodyHeard DEF Init, Heard
<1>2. TypeOK /\ OneToAPosition /\ [Next]_arbiterVars =>
        [Publish => published' = LoopResult]_arbiterVars
  BY LoopIsWinner DEF Publish, PublishNominal, PublishWorst
<1> QED BY <1>1, <1>2, InitType, StepType, StepPosition, PTL DEF Spec, PublishesTheLoop
=============================================================================
