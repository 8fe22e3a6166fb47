---------------------------- MODULE SystemProofs ----------------------------
(***************************************************************************)
(* Proofs about the pipeline, for every set of detectors, every set of     *)
(* verdicts, every depth of the channels and any number of crashes.  The   *)
(* inductive invariant says what each message on its way to recovery is    *)
(* worth: the newest one is the last status published, and a status that   *)
(* is settled asks for a hold only if a verdict the arbiter has does.      *)
(***************************************************************************)
EXTENDS PhmSystem, SequenceTheorems, TLAPS

IsSeq(q) == \E S : q \in Seq(S)

\* The arbiter's table, and what is on the way to it.
Tables ==
  /\ DOMAIN rank = Detectors /\ DOMAIN latest = Detectors
  /\ \A d \in A!Heard : latest[d] \in Words
  /\ verdicts \in Seq(Detectors \X Words)
  /\ IsSeq(healths)

\* The newest status on its way to recovery, or else the one it has.
Newest ==
  published # NoHealth =>
    /\ healths # <<>> => healths[Len(healths)] = Message(published)
    /\ healths = <<>> => holdActive = R!WantsHold(published.state)

\* A settled status demands a hold only on account of some verdict.
Accounted ==
  settled => /\ published # NoHealth
             /\ R!WantsHold(published.state) => \E d \in Detectors : Demands(latest[d])

SysInv == Tables /\ Newest /\ Accounted /\ R!HoldBacked
-----------------------------------------------------------------------------
(* A channel keeps the newest of what it is given.                         *)
LEMMA KeepLastKeeps ==
  ASSUME NEW S, NEW q \in Seq(S), q # <<>>, NEW depth \in Nat \ {0}
  PROVE  /\ KeepLast(depth, q) \in Seq(S) /\ KeepLast(depth, q) # <<>>
         /\ KeepLast(depth, q)[Len(KeepLast(depth, q))] = q[Len(q)]
<1>1. CASE Len(q) <= depth
  BY <1>1 DEF KeepLast
<1>2. CASE ~(Len(q) <= depth)
  <2> DEFINE k == SubSeq(q, Len(q) - depth + 1, Len(q))
  <2>1. /\ Len(q) \in Nat /\ Len(q) > depth /\ depth \in Nat \ {0}
        /\ Len(q) \in Int /\ Len(q) - depth + 1 \in Int
        /\ Len(q) - depth + 1 \in 1 .. Len(q) /\ Len(q) \in 1 .. Len(q)
    BY <1>2
  <2>2. \A i \in Len(q) - depth + 1 .. Len(q) : q[i] \in S
    BY <2>1
  <2>3. /\ k \in Seq(S) /\ Len(k) = depth
        /\ \A i \in 1 .. depth : k[i] = q[Len(q) - depth + i]
    <3>1. SubSeq(q, Len(q) - depth + 1, Len(q)) \in Seq(S)
      BY <2>1, <2>2, SubSeqProperties
    <3>2. Len(k) = Len(q) - (Len(q) - depth + 1) + 1
      BY <2>1, <2>2, SubSeqProperties
    <3>3. \A i \in 1 .. Len(q) - (Len(q) - depth + 1) + 1 :
            k[i] = q[Len(q) - depth + 1 + i - 1]
      BY <2>2, SubSeqProperties
    <3> QED
      BY <2>1, <3>1, <3>2, <3>3
  <2>4. k # <<>> /\ k[Len(k)] = q[Len(q)]
    <3>1. depth \in 1 .. depth /\ Len(q) - depth + depth = Len(q)
      BY <2>1
    <3>2. k[depth] = q[Len(q)]
      BY <2>3, <3>1
    <3>3. k # <<>>
      <4> HIDE DEF k
      <4> QED
        BY <2>3, EmptySeq
    <3> QED
      BY <2>3, <3>2, <3>3
  <2> QED
    BY <1>2, <2>3, <2>4 DEF KeepLast
<1> QED
  BY <1>1, <1>2

(* Appending to a sequence of anything, and taking its head.               *)
LEMMA AppendIsSeq ==
  ASSUME NEW q, IsSeq(q), NEW e
  PROVE  \E S : Append(q, e) \in Seq(S) /\ Append(q, e) # <<>>
                /\ Append(q, e)[Len(Append(q, e))] = e
<1>1. PICK S : q \in Seq(S)
  BY DEF IsSeq
<1>2. q \in Seq(S \cup {e})
  BY <1>1
<1>3. /\ Append(q, e) \in Seq(S \cup {e}) /\ Append(q, e) # <<>>
      /\ Append(q, e)[Len(Append(q, e))] = e
  BY <1>2
<1> QED
  BY <1>3

LEMMA TailIsSeq ==
  ASSUME NEW q, IsSeq(q), q # <<>>
  PROVE  /\ IsSeq(Tail(q))
         /\ Tail(q) # <<>> => Tail(q)[Len(Tail(q))] = q[Len(q)]
         /\ Tail(q) = <<>> => Head(q) = q[Len(q)]
<1>1. PICK S : q \in Seq(S)
  BY DEF IsSeq
<1>2. Tail(q) \in Seq(S) /\ Len(Tail(q)) = Len(q) - 1 /\ Len(q) \in Nat \ {0}
  BY <1>1
<1>3. \A i \in 1 .. Len(q) - 1 : Tail(q)[i] = q[i + 1]
  BY <1>1
<1>4. Tail(q) # <<>> => Len(q) - 1 \in 1 .. Len(q) - 1
  BY <1>2
<1>5. ASSUME Tail(q) = <<>> PROVE Len(q) = 1
  <2> DEFINE n == Len(q)
             t == Tail(q)
  <2>1. n \in Nat \ {0} /\ Len(t) = n - 1
    BY <1>2
  <2>2. Len(t) = 0
    BY <1>5
  <2>3. n = 1
    <3> HIDE DEF n, t
    <3> QED
      BY <2>1, <2>2
  <2> QED
    BY <2>3
<1>6. Head(q) = q[1]
  BY <1>1
<1>7. IsSeq(Tail(q))
  BY <1>2 DEF IsSeq
<1>8. ASSUME Tail(q) # <<>> PROVE Tail(q)[Len(Tail(q))] = q[Len(q)]
  <2>1. Tail(q)[Len(q) - 1] = q[Len(q) - 1 + 1]
    BY <1>3, <1>4, <1>8
  <2>2. Len(q) - 1 + 1 = Len(q)
    BY <1>2
  <2> QED
    BY <1>2, <2>1, <2>2
<1> QED
  BY <1>5, <1>6, <1>7, <1>8
-----------------------------------------------------------------------------
(* What the arbiter knows of a source it has heard.                        *)
LEMMA HeardVerdict ==
  ASSUME Tables, NEW d \in A!Heard
  PROVE  /\ latest[d] \in Words /\ latest[d] # NoVerdict
         /\ latest[d].score \in Scores \cup {NonFinite} /\ latest[d].violating \in BOOLEAN
         /\ latest[d].score # NonFinite => latest[d].score \in Int
  BY SystemAssumption DEF Tables, A!Verdict

LEMMA BandIsState == ASSUME NEW s \in Int PROVE ScoreToState(s) \in SeverityStates
  BY DEF ScoreToState, SeverityStates, STATE_OK, STATE_DEGRADED, STATE_INTERVENE,
         STATE_STOP, STOP_THRESHOLD, INTERVENE_THRESHOLD, DEGRADED_THRESHOLD

(* The parts of the pipeline share one scale.                              *)
LEMMA OneScale ==
  /\ A!SeverityStates = SeverityStates /\ A!AllowedActions = AllowedActions
  /\ A!STATE_OK = STATE_OK /\ A!STATE_DEGRADED = STATE_DEGRADED
  /\ R!STATE_OK = STATE_OK /\ R!STATE_DEGRADED = STATE_DEGRADED
  /\ \A s : A!ScoreToState(s) = ScoreToState(s)
  /\ \A a, b : A!AtLeast(a, b) = AtLeast(a, b)
<1> USE DEF A!SeverityStates, SeverityStates, A!AllowedActions, AllowedActions,
            A!STATE_OK, STATE_OK, A!STATE_DEGRADED, STATE_DEGRADED, A!STATE_STOP, STATE_STOP,
            R!STATE_OK, R!STATE_DEGRADED, A!STATE_INTERVENE, STATE_INTERVENE,
            A!ACTION_NONE, ACTION_NONE, A!ACTION_REWIND, ACTION_REWIND
<1>1. ASSUME NEW s PROVE A!ScoreToState(s) = ScoreToState(s)
  BY DEF A!ScoreToState, ScoreToState, A!STOP_THRESHOLD, STOP_THRESHOLD,
         A!INTERVENE_THRESHOLD, INTERVENE_THRESHOLD, A!DEGRADED_THRESHOLD, DEGRADED_THRESHOLD
<1>2. ASSUME NEW a, NEW b PROVE A!AtLeast(a, b) = AtLeast(a, b)
  BY DEF A!AtLeast, AtLeast
<1> QED
  BY <1>1, <1>2

(* The state of a violating source is held exactly when its verdict asks.  *)
LEMMA ViolatingIsDemand ==
  ASSUME Tables, NEW d \in A!Heard, A!Finite(d), latest[d].violating
  PROVE  /\ A!ViolatingState(d) \in SeverityStates
         /\ A!AtLeast(A!STALE_SCORE, latest[d].score) \in Scores \cup {25}
         /\ R!WantsHold(A!ViolatingState(d)) => Demands(latest[d])
<1>1. latest[d].score \in Scores /\ latest[d].score \in Int /\ latest[d] # NoVerdict
  BY HeardVerdict DEF A!Finite
<1>2. ScoreToState(latest[d].score) \in SeverityStates
  BY <1>1, BandIsState
<1>3. A!ViolatingState(d) = AtLeast(STATE_DEGRADED, ScoreToState(latest[d].score))
  BY OneScale DEF A!ViolatingState
<1>4. A!AtLeast(A!STALE_SCORE, latest[d].score) \in Scores \cup {25}
  BY <1>1 DEF A!AtLeast, A!STALE_SCORE, A!DEGRADED_THRESHOLD
<1>5. A!ViolatingState(d) \in SeverityStates
  BY <1>2, <1>3 DEF AtLeast, SeverityStates, STATE_OK, STATE_DEGRADED, STATE_STOP
<1>6. ASSUME R!WantsHold(A!ViolatingState(d)) PROVE Demands(latest[d])
  <2>1. ScoreToState(latest[d].score) >= STATE_INTERVENE
    BY <1>2, <1>3, <1>6, OneScale
       DEF R!WantsHold, AtLeast, SeverityStates, STATE_OK, STATE_DEGRADED, STATE_INTERVENE,
           STATE_STOP
  <2> QED
    BY <1>1, <2>1 DEF Demands, A!Finite
<1> QED
  BY <1>4, <1>5, <1>6

(* Each shape of a contribution is a status, and asks for a hold only if   *)
(* the verdict behind it does.                                             *)
LEMMA CandidateAccounted ==
  ASSUME Tables, NEW d \in A!Contributors
  PROVE  /\ A!Candidate(d) \in A!Health
         /\ R!WantsHold(A!Candidate(d).state) => Demands(latest[d])
<1>1. d \in A!Heard /\ d \in Detectors /\ A!Contributes(d)
  BY DEF A!Contributors, A!Heard
<1>2. ~R!WantsHold(A!STATE_DEGRADED) /\ A!STATE_DEGRADED \in SeverityStates
  BY OneScale DEF R!WantsHold, SeverityStates, STATE_OK, STATE_DEGRADED, STATE_STOP
<1>3. {A!ACTION_NONE, A!ACTION_LOG_ONLY} \subseteq A!AllowedActions
  BY DEF A!AllowedActions, A!ACTION_NONE, A!ACTION_LOG_ONLY, A!ACTION_REWIND
<1> USE <1>1, <1>2, <1>3, OneScale DEF A!Health, A!Kinds
<1>4. CASE ~A!Finite(d)
  <2>1. A!Candidate(d) = A!BadScore(d)
    BY <1>4 DEF A!Candidate
  <2> QED
    BY <2>1 DEF A!BadScore
<1>5. CASE A!Finite(d) /\ A!Stale(d) /\ ~latest[d].violating
  <2>1. A!Candidate(d) = A!StaleHealthy(d)
    BY <1>5 DEF A!Candidate
  <2> QED
    BY <2>1 DEF A!StaleHealthy, A!STALE_SCORE, A!DEGRADED_THRESHOLD
<1>6. CASE A!Finite(d) /\ A!Stale(d) /\ latest[d].violating
  <2>1. A!Candidate(d) = A!StaleViolating(d)
    BY <1>6 DEF A!Candidate
  <2> QED
    BY <1>6, <2>1, ViolatingIsDemand DEF A!StaleViolating
<1>7. CASE A!Finite(d) /\ ~A!Stale(d)
  <2>1. A!Candidate(d) = A!FreshViolating(d)
    BY <1>7 DEF A!Candidate
  <2>2. latest[d].violating /\ latest[d].score \in Scores
    BY <1>7, HeardVerdict DEF A!Contributes, A!Finite
  <2>3. A!SuggestedAction(d) \in A!AllowedActions
    BY DEF A!SuggestedAction
  <2> QED
    BY <1>7, <2>1, <2>2, <2>3, ViolatingIsDemand DEF A!FreshViolating
<1> QED
  BY <1>4, <1>5, <1>6, <1>7

(* What the arbiter publishes is a status, and demands what it has to.     *)
LEMMA PublishAccounted ==
  ASSUME Tables, A!Publish
  PROVE  /\ published' # NoHealth
         /\ R!WantsHold(published'.state) => \E d \in Detectors : Demands(latest[d])
<1>1. CASE A!PublishNominal
  <2>1. A!Nominal \in A!Health
    BY DEF A!Nominal, A!Health, A!Kinds, A!SeverityStates, A!AllowedActions, A!STATE_OK,
           A!STATE_STOP, A!ACTION_NONE, A!ACTION_REWIND
  <2>2. ~R!WantsHold(A!Nominal.state)
    BY OneScale DEF A!Nominal, R!WantsHold
  <2> QED
    BY <1>1, <2>1, <2>2, SystemAssumption DEF A!PublishNominal
<1>2. CASE A!PublishWorst
  <2>1. PICK d \in A!Contributors : published' = A!Candidate(d)
    BY <1>2 DEF A!PublishWorst
  <2>2. d \in Detectors
    BY DEF A!Contributors, A!Heard
  <2> QED
    BY <2>1, <2>2, CandidateAccounted, SystemAssumption
<1> QED
  BY <1>1, <1>2 DEF A!Publish

(* Recovery asks for a hold exactly when the status it took does.          *)
LEMMA HealthDecidesHold ==
  ASSUME NEW m, R!OnHealth(m)
  PROVE  /\ holdActive' = R!WantsHold(m.state)
         /\ R!HoldBacked => R!HoldBacked'
<1>1. CASE R!Resume(m)
  <2>1. /\ ~R!WantsHold(m.state) /\ holdActive' = FALSE
        /\ holdActuating' = (holdActuating /\ ~enabled)
    BY <1>1 DEF R!Resume, R!ResumeAccepted
  <2>2. R!WantsHold(m.state) = FALSE
    BY <2>1 DEF R!WantsHold
  <2>3. R!HoldBacked => R!HoldBacked'
    BY <2>1, Zenon DEF R!HoldBacked
  <2> QED
    BY <2>1, <2>2, <2>3
<1>2. CASE R!Actuate(m)
  <2> DEFINE accept == R!Accepted(R!HoldAction(m), R!FaultKey(m.source), holdActuating)
  <2>1. /\ R!WantsHold(m.state) /\ holdActive' = TRUE
        /\ holdActuating' = (holdActuating \/ accept) /\ enabled' = enabled
    BY <1>2 DEF R!Actuate
  <2>2. R!WantsHold(m.state) = TRUE
    BY <2>1 DEF R!WantsHold
  <2>3. accept => enabled
    BY DEF R!Accepted
  <2>4. R!HoldBacked => R!HoldBacked'
    <3> HIDE DEF accept
    <3> QED
      BY <2>1, <2>3, Zenon DEF R!HoldBacked
  <2> QED
    BY <2>1, <2>2, <2>4
<1> QED
  BY <1>1, <1>2 DEF R!OnHealth
-----------------------------------------------------------------------------
LEMMA InitInv == Init => SysInv
<1> SUFFICES ASSUME Init PROVE SysInv
  OBVIOUS
<1>1. Tables
  <2>1. \A d \in Detectors : rank[d] = 0
    BY DEF Init, A!Init
  <2>2. A!Heard = {}
    BY <2>1 DEF A!Heard
  <2>3. DOMAIN rank = Detectors /\ DOMAIN latest = Detectors
    BY DEF Init, A!Init
  <2>4. verdicts \in Seq(Detectors \X Words) /\ healths \in Seq({})
    BY EmptySeq DEF Init
  <2> QED
    BY <2>2, <2>3, <2>4 DEF Tables, IsSeq
<1>2. Newest /\ Accounted
  BY DEF Init, A!Init, Newest, Accounted
<1>3. R!HoldBacked
  BY DEF Init, R!Init, R!HoldBacked
<1> QED
  BY <1>1, <1>2, <1>3 DEF SysInv

\* A detector speaks: only the channel to the arbiter changes.
LEMMA EmitKeeps ==
  ASSUME SysInv, NEW d \in Detectors, Emit(d)
  PROVE  SysInv'
<1>1. PICK v \in Words : verdicts' = KeepLast(VerdictDepth, Append(verdicts, <<d, v>>))
  BY DEF Emit
<1>2. UNCHANGED <<arbiterState, healths, recoveryState>>
  BY DEF Emit
<1>3. verdicts' \in Seq(Detectors \X Words)
  <2> DEFINE q == Append(verdicts, <<d, v>>)
  <2>1. q \in Seq(Detectors \X Words) /\ q # <<>>
    <3>1. verdicts \in Seq(Detectors \X Words) /\ <<d, v>> \in Detectors \X Words
      BY DEF SysInv, Tables
    <3> QED
      BY <3>1, AppendProperties, Zenon
  <2>2. verdicts' = KeepLast(VerdictDepth, q)
    BY <1>1
  <2> HIDE DEF q
  <2> QED
    BY <2>1, <2>2, KeepLastKeeps, SystemAssumption
<1> QED
  BY <1>2, <1>3 DEF SysInv, Tables, Newest, Accounted, R!HoldBacked, A!Heard, IsSeq,
     arbiterState, recoveryState

\* The arbiter takes a verdict: it is one of Words, and nothing is settled.
LEMMA TakeVerdictKeeps ==
  ASSUME SysInv, NEW d \in Detectors, TakeVerdict(d)
  PROVE  SysInv'
<1> DEFINE v == Head(verdicts)[2]
<1>1. /\ v \in Words /\ verdicts' \in Seq(Detectors \X Words)
  BY HeadTailProperties DEF TakeVerdict, SysInv, Tables
<1>2. /\ latest' = [latest EXCEPT ![d] = v] /\ settled' = FALSE /\ published' = published
      /\ rank' = IF d \in A!Heard THEN rank ELSE [rank EXCEPT ![d] = A!Cardinality(A!Heard) + 1]
  BY DEF TakeVerdict, A!OnVerdict
<1>3. UNCHANGED <<healths, recoveryState>>
  BY DEF TakeVerdict
<1> HIDE DEF v
<1>4. DOMAIN rank' = Detectors /\ DOMAIN latest' = Detectors
  BY <1>2 DEF SysInv, Tables
<1>5. ASSUME NEW e \in A!Heard' PROVE latest'[e] \in Words
  <2>1. CASE e = d
    BY <1>1, <1>2, <2>1 DEF SysInv, Tables
  <2>2. CASE e # d
    <3>1. e \in Detectors /\ rank'[e] = rank[e] /\ latest'[e] = latest[e]
      BY <1>2, <2>2 DEF A!Heard, SysInv, Tables
    <3> QED
      BY <3>1 DEF A!Heard, SysInv, Tables
  <2> QED
    BY <2>1, <2>2
<1>6. Tables' /\ Accounted'
  BY <1>1, <1>2, <1>3, <1>4, <1>5 DEF SysInv, Tables, Accounted, IsSeq
<1> QED
  BY <1>2, <1>3, <1>6 DEF SysInv, Newest, R!HoldBacked, recoveryState

\* The arbiter publishes: what it publishes becomes the newest status.
LEMMA ArbitrateKeeps ==
  ASSUME SysInv, Arbitrate
  PROVE  SysInv'
<1>1. UNCHANGED <<latest, rank, verdicts, recoveryState>>
  BY DEF Arbitrate, A!Publish
<1>2. /\ published' # NoHealth
      /\ R!WantsHold(published'.state) => \E d \in Detectors : Demands(latest[d])
  BY PublishAccounted DEF Arbitrate, SysInv
<1>3. /\ IsSeq(healths') /\ healths' # <<>>
      /\ healths'[Len(healths')] = Message(published')
  <2> DEFINE q == Append(healths, Message(published'))
  <2>1. PICK S : q \in Seq(S) /\ q # <<>> /\ q[Len(q)] = Message(published')
    BY AppendIsSeq DEF SysInv, Tables
  <2>2. healths' = KeepLast(HealthDepth, q)
    BY DEF Arbitrate
  <2> HIDE DEF q
  <2> QED
    BY <2>1, <2>2, KeepLastKeeps, SystemAssumption DEF IsSeq
<1>4. Tables'
  BY <1>1, <1>3 DEF SysInv, Tables, A!Heard
<1>5. Newest'
  BY <1>3 DEF Newest
<1>6. Accounted'
  BY <1>1, <1>2 DEF Accounted, Demands, R!WantsHold
<1> QED
  BY <1>1, <1>4, <1>5, <1>6 DEF SysInv, R!HoldBacked, recoveryState

\* Recovery takes a status: if it was the newest, it is in step with it.
LEMMA TakeHealthKeeps ==
  ASSUME SysInv, TakeHealth
  PROVE  SysInv'
<1>1. UNCHANGED <<verdicts, arbiterState>> /\ healths # <<>> /\ healths' = Tail(healths)
  BY DEF TakeHealth
<1>2. holdActive' = R!WantsHold(Head(healths).state) /\ (R!HoldBacked => R!HoldBacked')
  BY HealthDecidesHold DEF TakeHealth
<1>3. /\ IsSeq(Tail(healths))
      /\ Tail(healths) # <<>> => Tail(healths)[Len(Tail(healths))] = healths[Len(healths)]
      /\ Tail(healths) = <<>> => Head(healths) = healths[Len(healths)]
  BY <1>1, TailIsSeq DEF SysInv, Tables
<1>4. Tables' /\ Accounted'
  BY <1>1, <1>3 DEF SysInv, Tables, Accounted, A!Heard, arbiterState, Demands, R!WantsHold
<1>5. Newest'
  <2> SUFFICES ASSUME published' # NoHealth
               PROVE  /\ healths' # <<>> => healths'[Len(healths')] = Message(published')
                      /\ healths' = <<>> => holdActive' = R!WantsHold(published'.state)
    BY DEF Newest, R!WantsHold
  <2>1. published' = published /\ healths[Len(healths)] = Message(published)
    BY <1>1 DEF arbiterState, SysInv, Newest
  <2>2. Message(published).state = published.state
    BY DEF Message
  <2>3. ASSUME healths' = <<>> PROVE Head(healths).state = published.state
    BY <1>1, <1>3, <2>1, <2>2, <2>3
  <2>4. Message(published') = Message(published)
    BY <2>1
  <2> QED
    BY <1>1, <1>2, <1>3, <2>1, <2>3, <2>4
<1> QED
  BY <1>2, <1>4, <1>5 DEF SysInv

\* What leaves the tables, the channels and recovery's flags alone keeps all.
LEMMA OtherKeeps ==
  ASSUME SysInv,
         UNCHANGED <<latest, rank, published, settled, verdicts, healths, enabled, holdActive,
                     holdActuating>>
  PROVE  SysInv'
BY DEF SysInv, Tables, Newest, Accounted, R!HoldBacked, A!Heard, IsSeq, Message, Demands,
       R!WantsHold

\* A new arbiter knows nothing and has published nothing.
LEMMA ArbiterRestartKeeps ==
  ASSUME SysInv, ArbiterRestart
  PROVE  SysInv'
<1>1. /\ latest' = [d \in Detectors |-> NoVerdict] /\ rank' = [d \in Detectors |-> 0]
      /\ published' = NoHealth /\ settled' = FALSE /\ verdicts' = <<>>
      /\ UNCHANGED <<healths, recoveryState>>
  BY DEF ArbiterRestart, A!Restart
<1>2. A!Heard' = {}
  BY <1>1 DEF A!Heard
<1>3. Tables'
  BY <1>1, <1>2, EmptySeq DEF SysInv, Tables, IsSeq
<1>4. Newest' /\ Accounted'
  BY <1>1 DEF Newest, Accounted
<1> QED
  BY <1>1, <1>3, <1>4 DEF SysInv, R!HoldBacked, recoveryState

\* A new recovery node is given the retained status, if there is one.
LEMMA RecoveryRestartKeeps ==
  ASSUME SysInv, RecoveryRestart
  PROVE  SysInv'
<1>1. /\ UNCHANGED <<verdicts, arbiterState>> /\ holdActuating' = FALSE
      /\ healths' = Retained
  BY DEF RecoveryRestart, R!Restart, R!Start
<1>2. published # NoHealth => healths' = <<Message(published)>>
  BY <1>1 DEF Retained
<1>3. IsSeq(healths')
  <2> DEFINE m == Message(published)
  <2>1. <<>> \in Seq({m}) /\ <<m>> \in Seq({m})
    <3> HIDE DEF m
    <3> QED
      OBVIOUS
  <2>2. healths' \in Seq({m})
    BY <1>1, <2>1 DEF Retained
  <2> QED
    BY <2>2 DEF IsSeq
<1>4. Tables' /\ Accounted'
  BY <1>1, <1>3 DEF SysInv, Tables, Accounted, A!Heard, arbiterState, Demands, R!WantsHold
<1>5. Newest'
  <2> DEFINE m == Message(published)
  <2>1. <<m>> # <<>> /\ <<m>>[Len(<<m>>)] = m
    <3> HIDE DEF m
    <3> QED
      OBVIOUS
  <2>2. published' = published /\ Message(published') = m
    BY <1>1 DEF arbiterState, Message
  <2>3. published # NoHealth => healths' # <<>> /\ healths'[Len(healths')] = m
    BY <1>2, <2>1
  <2> QED
    BY <2>2, <2>3 DEF Newest
<1>6. R!HoldBacked'
  BY <1>1 DEF R!HoldBacked
<1> QED
  BY <1>4, <1>5, <1>6 DEF SysInv

LEMMA StepInv == SysInv /\ [Next]_vars => SysInv'
<1> SUFFICES ASSUME SysInv, [Next]_vars PROVE SysInv'
  OBVIOUS
<1>1. ASSUME NEW d \in Detectors, Emit(d) PROVE SysInv'
  BY <1>1, EmitKeeps
<1>2. ASSUME NEW d \in Detectors, TakeVerdict(d) PROVE SysInv'
  BY <1>2, TakeVerdictKeeps
<1>3. CASE Arbitrate
  BY <1>3, ArbitrateKeeps
<1>4. CASE TakeHealth
  BY <1>4, TakeHealthKeeps
<1>5. CASE Command
  BY <1>5, OtherKeeps DEF Command, R!PublishTick, channels, arbiterState
<1>6. CASE Tick
  BY <1>6, OtherKeeps DEF Tick, A!ClockTick, R!ClockTick, channels
<1>7. CASE ArbiterRestart
  BY <1>7, ArbiterRestartKeeps
<1>8. CASE RecoveryRestart
  BY <1>8, RecoveryRestartKeeps
<1>9. CASE UNCHANGED vars
  BY <1>9, OtherKeeps DEF vars
<1> QED
  BY <1>1, <1>2, <1>3, <1>4, <1>5, <1>6, <1>7, <1>8, <1>9 DEF Next

LEMMA Inductive == Spec => []SysInv
BY InitInv, StepInv, PTL DEF Spec

(***************************************************************************)
(* Whatever crashes, and however far the channels lag, a recovery node     *)
(* with nothing on its way holds exactly when the last status asks for it  *)
(* (arbiter_node.hpp:11-13, recovery_node.cpp:62-93).                      *)
(***************************************************************************)
THEOREM RecoveryIsInStep == Spec => []RecoveryInStep
<1>1. SysInv => RecoveryInStep
  BY DEF SysInv, Newest, RecoveryInStep
<1> QED
  BY Inductive, <1>1, PTL

(***************************************************************************)
(* No hold without a cause: once every detector's last word has reached    *)
(* the arbiter, none of them asks for a hold, and the status that came of  *)
(* it has reached recovery, the robot is not held (arbiter.cpp:31-82,      *)
(* recovery.cpp:109-203).                                                  *)
(***************************************************************************)
THEOREM HoldHasCause == Spec => []NoHoldWithoutCause
<1>1. SysInv => NoHoldWithoutCause
  <2> SUFFICES ASSUME SysInv, \A d \in Detectors : Through(d) /\ ~Demands(word[d]),
                      settled, healths = <<>>
               PROVE  ~holdActuating
    BY DEF NoHoldWithoutCause
  <2>1. \A d \in Detectors : ~Demands(latest[d])
    BY DEF Through
  <2>2. published # NoHealth /\ ~R!WantsHold(published.state)
    BY <2>1 DEF SysInv, Accounted
  <2>3. holdActive = R!WantsHold(published.state)
    BY <2>2 DEF SysInv, Newest
  <2>4. ~holdActive
    BY <2>2, <2>3
  <2> QED
    BY <2>4 DEF SysInv, R!HoldBacked
<1> QED
  BY Inductive, <1>1, PTL
=============================================================================
