----------------------------- MODULE ChainBench -----------------------------
(***************************************************************************)
(* phm_chain_bench: publishes healthy frames and faults in turn, and times *)
(* what comes back from a running monitor.  Times stored are abstracted to *)
(* the fact that they are stored: nothing reads them again before the      *)
(* report.                                                                 *)
(*                                                                         *)
(* The monitor is external.  It answers a frame once, within Reaction, or  *)
(* never; and it alarms, raises health or commands the robot only because  *)
(* of a fault, from its first tick until Reaction after its last one.      *)
(***************************************************************************)
EXTENDS Integers, FiniteSets, Sequences

CONSTANTS HealthyTime, FaultTime, WarmUpTime,  \* the phases, in periods
          Trials,       \* trials
          Late,         \* how late the timer's callback may run
          Reaction,     \* how long the monitor may take
          DrainTime,    \* main()'s drain
          KeepSent,     \* the size at which sent_times_ is cleared
          MaxLost       \* bound on the frames the monitor never answers

ASSUME BenchAssumption ==
  /\ {HealthyTime, FaultTime, Trials} \subseteq Nat \ {0}
  /\ {WarmUpTime, Late, Reaction, DrainTime, KeepSent, MaxLost} \subseteq Nat
  /\ 1 + Late <= FaultTime
  /\ 1 + Late + Reaction <= HealthyTime

VARIABLES faultKind,    \* fault_
          benchClock, sinceTick,
          finished, draining,
          active, seq, sentTimes, sentAfterWarmup, latencies, trialsLog,
          inFlight,     \* frames the monitor may still answer
          lost, cleared, answered   \* history

benchVars == <<faultKind, benchClock, sinceTick, finished, draining, active, seq, sentTimes,
               sentAfterWarmup, latencies, trialsLog, inFlight, lost, cleared, answered>>

bookkeeping == <<seq, sentTimes, sentAfterWarmup, latencies, inFlight, lost, cleared, answered>>

Signals == {"verdict", "intervene", "stop", "cmd"}

Cycle == HealthyTime + FaultTime

\* phase, last: which fault this is, and its last tick (history).
Trial == [start : Nat, hits : SUBSET Signals, phase : Nat, last : Nat]

BenchInit ==
  /\ faultKind \in {"collapse", "silence"}
  /\ benchClock = 0 /\ sinceTick = 0 /\ finished = FALSE /\ draining = 0
  /\ active = FALSE /\ seq = 0 /\ sentTimes = {} /\ sentAfterWarmup = 0 /\ latencies = 0
  /\ trialsLog = <<>> /\ inFlight = {}
  /\ lost = 0 /\ cleared = FALSE /\ answered = 0
-----------------------------------------------------------------------------
\* The timer has a period of one and runs late at most by Late.
BenchElapse ==
  /\ ~finished /\ sinceTick <= Late
  /\ \A f \in inFlight : benchClock < f.time + Reaction
  /\ benchClock' = benchClock + 1 /\ sinceTick' = sinceTick + 1
  /\ UNCHANGED <<faultKind, finished, draining, active, trialsLog, bookkeeping>>

Phase == benchClock \div Cycle

InFault == benchClock - Phase * Cycle >= HealthyTime

\* Mutated: one trial for the whole run.
TrialOnce(log, k) ==
  IF log = <<>>
  THEN <<[start |-> benchClock, hits |-> {}, phase |-> k, last |-> benchClock]>>
  ELSE [log EXCEPT ![Len(log)].last = benchClock]

\* The first fault tick of a cycle opens its trial.
TrialOf(log, k) ==
  IF Len(log) < k + 1
  THEN Append(log, [start |-> benchClock, hits |-> {}, phase |-> k, last |-> benchClock])
  ELSE [log EXCEPT ![Len(log)].last = benchClock]

Publish ==
  LET frame == [seq |-> seq + 1, time |-> benchClock,
                counted |-> benchClock >= WarmUpTime /\ ~InFault]
      full  == Cardinality(sentTimes) > KeepSent
  IN  /\ seq' = seq + 1
      /\ sentTimes' = (IF full THEN {} ELSE sentTimes) \cup {frame}
      /\ cleared' = (cleared \/ full)
      /\ inFlight' = inFlight \cup {frame}
      /\ sentAfterWarmup' = sentAfterWarmup + (IF frame.counted THEN 1 ELSE 0)

\* tick() past the last cycle leaves active_ as it is.
Finish ==
  /\ Phase >= Trials
  /\ finished' = TRUE
  /\ UNCHANGED <<active, trialsLog, bookkeeping>>

PublishTick ==
  /\ Phase < Trials
  /\ active' = InFault
  /\ trialsLog' = IF InFault THEN TrialOf(trialsLog, Phase) ELSE trialsLog
  /\ IF InFault /\ faultKind = "silence"
     THEN UNCHANGED bookkeeping
     ELSE Publish /\ UNCHANGED <<latencies, lost, answered>>
  /\ UNCHANGED finished

BenchTick ==
  /\ ~finished /\ sinceTick >= 1
  /\ sinceTick' = 0
  /\ Finish \/ PublishTick
  /\ UNCHANGED <<faultKind, benchClock, draining>>

\* main() drains late messages before the report.
Drain ==
  /\ finished /\ draining < DrainTime
  /\ draining' = draining + 1 /\ benchClock' = benchClock + 1
  /\ UNCHANGED <<faultKind, sinceTick, finished, active, trialsLog, bookkeeping>>
-----------------------------------------------------------------------------
Listening == ~finished \/ draining < DrainTime

\* The faults the monitor may still be reacting to.
InEffect == {i \in DOMAIN trialsLog : benchClock <= trialsLog[i].last + Reaction}

\* The first time of a signal is credited to the newest trial.
Credit(signals) ==
  trialsLog' = IF active /\ trialsLog # <<>>
               THEN [trialsLog EXCEPT ![Len(trialsLog)].hits = @ \cup signals]
               ELSE trialsLog

\* Mutated: every matched frame is measured.
MeasuredAll(f) == IF f \in sentTimes THEN latencies + 1 ELSE latencies

Measured(f) == IF f \in sentTimes /\ f.counted THEN latencies + 1 ELSE latencies

\* on_verdict for the OOD source, its reason naming a frame.
OnVerdict ==
  /\ Listening
  /\ \E f \in inFlight :
       /\ latencies' = Measured(f)
       /\ sentTimes' = sentTimes \ {f}
       /\ inFlight' = inFlight \ {f}
       /\ answered' = answered + (IF f.counted THEN 1 ELSE 0)
  /\ \/ UNCHANGED trialsLog
     \/ InEffect # {} /\ Credit({"verdict"})
  /\ UNCHANGED <<faultKind, benchClock, sinceTick, finished, draining, active, seq,
                 sentAfterWarmup, lost, cleared>>

\* A frame whose verdict gave way to newer ones.
Lose ==
  /\ lost < MaxLost
  /\ \E f \in inFlight : inFlight' = inFlight \ {f}
  /\ lost' = lost + 1
  /\ UNCHANGED <<faultKind, benchClock, sinceTick, finished, draining, active, trialsLog, seq,
                 sentTimes, sentAfterWarmup, latencies, cleared, answered>>

\* on_health at INTERVENE or STOP, and on_cmd.
OnHealth ==
  /\ Listening /\ InEffect # {}
  /\ Credit({"intervene"}) \/ Credit({"intervene", "stop"})
  /\ UNCHANGED <<faultKind, benchClock, sinceTick, finished, draining, active, bookkeeping>>

OnCmd ==
  /\ Listening /\ InEffect # {}
  /\ Credit({"cmd"})
  /\ UNCHANGED <<faultKind, benchClock, sinceTick, finished, draining, active, bookkeeping>>

BenchNext ==
  BenchElapse \/ BenchTick \/ Drain \/ OnVerdict \/ Lose \/ OnHealth \/ OnCmd

BenchSpec == BenchInit /\ [][BenchNext]_benchVars
-----------------------------------------------------------------------------
(***************************************************************************)
(* A time is credited to the trial of the fault that caused it, one trial  *)
(* to a fault, and before the next healthy tick, or the end of the drain   *)
(* after the last fault (chain_bench.cpp:219-305).                         *)
(***************************************************************************)
CreditIsDue ==
  [][\A i \in DOMAIN trialsLog :
       trialsLog'[i].hits # trialsLog[i].hits =>
         /\ InEffect = {i}
         /\ trialsLog[i].phase = i - 1
         /\ benchClock - trialsLog[i].start <= FaultTime + Late + DrainTime]_benchVars

\* What report() calls missing.
Missing == IF sentAfterWarmup >= latencies THEN sentAfterWarmup - latencies ELSE 0

(***************************************************************************)
(* Verdicts reported missing are those of counted frames that never came   *)
(* or came too late, as long as the table of sent frames was not cleared;  *)
(* and no frame is measured twice (chain_bench.cpp:149-153, 245-276).      *)
(***************************************************************************)
MissingIsLost ==
  /\ latencies <= sentAfterWarmup
  /\ ~cleared => Missing = sentAfterWarmup - answered
=============================================================================
