------------------------------ MODULE PhmSystem ------------------------------
(***************************************************************************)
(* The monitor as launched: detectors, the arbiter and the recovery node,  *)
(* three kinds of process joined by two topics.                            *)
(*                                                                         *)
(*   detectors --/phm/verdicts--> arbiter --/phm/health--> recovery        *)
(*                                                                         *)
(* /phm/verdicts is reliable, keep-last, volatile: in order, nothing for a *)
(* reader that was not there, and the oldest sample gives way when more    *)
(* than VerdictDepth wait.  /phm/health is reliable, keep-last 1 at its    *)
(* writer and transient-local: a recovery node that joins late is given    *)
(* the writer's last sample.  Crashes take a process's state, its queue    *)
(* and, for the arbiter, the retained sample.  The middleware itself is    *)
(* outside the repository and modelled from the QoS the nodes ask for.     *)
(***************************************************************************)
EXTENDS Severity, Sequences, FiniteSets

CONSTANTS Detectors, NoSource, UnknownKey, Scores, WireActions,
          Staleness, Cooldown, NoVerdict, NoHealth,
          Words,         \* the verdicts detectors send
          VerdictDepth,  \* samples waiting at the arbiter
          HealthDepth,   \* samples waiting at the recovery node
          MaxRestarts    \* bound on the number of crashes

VARIABLES word,        \* detector -> the verdict it last sent
          verdicts,    \* /phm/verdicts: <<detector, verdict>> on the way
          latest, rank, age, published, settled,
          healths,     \* /phm/health: statuses on the way to recovery
          enabled, since, holdActive, holdActuating, rewound, zeroVelocity,
          restarts     \* crashes so far

arbiterState  == <<latest, rank, age, published, settled>>
recoveryState == <<enabled, since, holdActive, holdActuating, rewound, zeroVelocity>>
channels      == <<verdicts, healths>>

vars == <<word, verdicts, latest, rank, age, published, settled, healths,
          enabled, since, holdActive, holdActuating, rewound, zeroVelocity, restarts>>

A == INSTANCE Arbiter

R == INSTANCE Recovery WITH Sources <- Detectors \cup {NoSource},
                            WireStates <- SeverityStates,
                            WireActions <- AllowedActions

ASSUME SystemAssumption ==
  /\ Scores \subseteq Int
  /\ Words \subseteq A!Verdict /\ NoVerdict \notin Words
  /\ NoHealth \notin A!Health
  /\ VerdictDepth \in Nat \ {0} /\ HealthDepth \in Nat \ {0} /\ MaxRestarts \in Nat

\* What the recovery node reads of a health status.
Message(h) == [state |-> h.state, action |-> h.action, source |-> h.source]

\* Mutated: the newest sample gives way in place of the oldest.
KeepOldest(depth, queue) ==
  IF Len(queue) <= depth THEN queue ELSE SubSeq(queue, 1, depth)

\* Keep-last: the newest depth samples of the queue.
KeepLast(depth, queue) ==
  IF Len(queue) <= depth THEN queue
  ELSE SubSeq(queue, Len(queue) - depth + 1, Len(queue))

-----------------------------------------------------------------------------
Init ==
  /\ A!Init
  /\ R!Init
  /\ word = [d \in Detectors |-> NoVerdict]
  /\ verdicts = <<>>
  /\ healths = <<>>
  /\ restarts = 0

\* A detector says something: what it sees decides what.
Emit(d) ==
  \E v \in Words :
    /\ word' = [word EXCEPT ![d] = v]
    /\ verdicts' = KeepLast(VerdictDepth, Append(verdicts, <<d, v>>))
    /\ UNCHANGED <<arbiterState, healths, recoveryState, restarts>>

\* The arbiter takes the oldest verdict waiting, one of d's.
TakeVerdict(d) ==
  /\ verdicts # <<>> /\ Head(verdicts)[1] = d
  /\ A!OnVerdict(d, Head(verdicts)[2])
  /\ verdicts' = Tail(verdicts)
  /\ UNCHANGED <<word, healths, recoveryState, restarts>>

\* Mutated: a status equal to the last one is not sent again.
ArbitrateOnChange ==
  /\ A!Publish
  /\ healths' = IF published' = published THEN healths
                ELSE KeepLast(HealthDepth, Append(healths, Message(published')))
  /\ UNCHANGED <<word, verdicts, recoveryState, restarts>>

\* The arbitration timer: the status goes out to recovery.
Arbitrate ==
  /\ A!Publish
  /\ healths' = KeepLast(HealthDepth, Append(healths, Message(published')))
  /\ UNCHANGED <<word, verdicts, recoveryState, restarts>>

\* Recovery takes the oldest status waiting.
TakeHealth ==
  /\ healths # <<>>
  /\ R!OnHealth(Head(healths))
  /\ healths' = Tail(healths)
  /\ UNCHANGED <<word, verdicts, arbiterState, restarts>>

Command == R!PublishTick /\ UNCHANGED <<word, channels, arbiterState, restarts>>

\* Time passes for every process alike.
Tick == A!ClockTick /\ R!ClockTick /\ UNCHANGED <<word, channels, restarts>>

\* The arbiter crashes and comes back; verdicts sent meanwhile are gone.
ArbiterRestart ==
  /\ restarts < MaxRestarts
  /\ restarts' = restarts + 1
  /\ A!Restart
  /\ verdicts' = <<>>
  /\ UNCHANGED <<word, healths, recoveryState>>

\* Mutated: the health topic is volatile for recovery.
RetainedNothing == <<>>

\* What a recovery node that joins now is given.
Retained == IF published = NoHealth THEN <<>> ELSE <<Message(published)>>

\* Recovery crashes and comes back, and is given the retained sample.
RecoveryRestart ==
  /\ restarts < MaxRestarts
  /\ restarts' = restarts + 1
  /\ R!Restart
  /\ healths' = Retained
  /\ UNCHANGED <<word, verdicts, arbiterState>>

Next ==
  \/ \E d \in Detectors : Emit(d)
  \/ \E d \in Detectors : TakeVerdict(d)
  \/ Arbitrate
  \/ TakeHealth
  \/ Command
  \/ Tick
  \/ ArbiterRestart
  \/ RecoveryRestart

Spec == Init /\ [][Next]_vars

(***************************************************************************)
(* Detectors publish per frame or per tick, both nodes' timers are         *)
(* periodic, executors drain their queues and time passes.  Taking a       *)
(* verdict is strongly fair: a waiting sample may give way to newer ones,  *)
(* but no detector's samples give way every time.                          *)
(***************************************************************************)
Fairness ==
  /\ \A d \in Detectors : WF_vars(Emit(d)) /\ SF_vars(TakeVerdict(d))
  /\ WF_vars(Arbitrate) /\ WF_vars(TakeHealth)
  /\ WF_vars(Command) /\ WF_vars(Tick)

FairSpec == Spec /\ Fairness
-----------------------------------------------------------------------------
Demands(v) == /\ v # NoVerdict /\ v.score # NonFinite /\ v.violating
              /\ ScoreToState(v.score) >= STATE_INTERVENE

(***************************************************************************)
(* Recovery is never out of step with what it has been sent: with nothing  *)
(* on the way, its hold request is exactly what the last published status  *)
(* asks for.  This is what transient-local delivery buys a recovery node   *)
(* that restarts while a fault is on (arbiter_node.hpp:11-13).             *)
(***************************************************************************)
RecoveryInStep ==
  healths = <<>> /\ published # NoHealth
    => holdActive = R!WantsHold(published.state)

(***************************************************************************)
(* The hold is never a whim of the pipeline: a robot is held only if some  *)
(* detector has asked for it or a newer word of that detector is not yet   *)
(* through: while every detector's last word is healthy or poisoned, all   *)
(* of them delivered and the last arbitration handled, there is no hold.   *)
(***************************************************************************)
Through(d) == latest[d] = word[d] /\ \A i \in DOMAIN verdicts : verdicts[i][1] # d

NoHoldWithoutCause ==
  /\ \A d \in Detectors : Through(d) /\ ~Demands(word[d])
  /\ settled /\ healths = <<>>
  => ~holdActuating

(***************************************************************************)
(* A detector that keeps asking for INTERVENE or STOP gets its hold: with  *)
(* recovery armed, the robot is eventually sent zero velocity for as long  *)
(* as it keeps asking, through crashes of the arbiter and of recovery,     *)
(* samples that gave way in a queue, and the cooldown.                     *)
(***************************************************************************)
DemandStopsTheRobot ==
  (\E d \in Detectors : <>[](Demands(word[d]) /\ enabled)) => <>[]zeroVelocity

(***************************************************************************)
(* And when all of them stop asking, whatever else they say, the robot is  *)
(* eventually released.                                                    *)
(***************************************************************************)
QuietReleasesTheRobot ==
  (<>[](\A d \in Detectors : word[d] # NoVerdict /\ ~Demands(word[d]))) => <>[]~zeroVelocity
=============================================================================
