----------------------------- MODULE SteadyTopic -----------------------------
(***************************************************************************)
(* The detectors node watching topics that publish like clockwork: each    *)
(* from the start of the node, every Period units, at a phase of its own   *)
(* that never falls on a tick.  Ticks are exact (Late = 0) and Period      *)
(* divides TickUnits, so every full tick window holds the same number of   *)
(* messages.                                                               *)
(***************************************************************************)
EXTENDS Detectors

CONSTANT Period   \* units between two messages of a topic

\* What makes every full tick window hold the same number of messages.
EvenWindows == Period \in Nat \ {0} /\ TickUnits % Period = 0 /\ Late = 0

VARIABLE wait     \* units until the next message of a topic

steadyVars == <<detectorVars, wait>>

SteadyInit ==
  /\ EvenWindows
  /\ Init /\ graph = Topics
  /\ wait \in [Topics -> 1 .. Period - 1]

SteadyElapse ==
  /\ \A t \in Topics : wait[t] > 0
  /\ Elapse
  /\ wait' = [t \in Topics |-> wait[t] - 1]

SteadyMessage(t) ==
  /\ wait[t] = 0
  /\ OnMessage(t)
  /\ wait' = [wait EXCEPT ![t] = Period]

SteadyTick == Tick /\ UNCHANGED wait

SteadyNext ==
  \/ SteadyElapse
  \/ \E t \in Topics : SteadyMessage(t)
  \/ SteadyTick

SteadySpec == SteadyInit /\ [][SteadyNext]_steadyVars

(***************************************************************************)
(* config/detectors.yaml:9 has a topic healthy while it stays above        *)
(* baseline * (1 - tolerance/100), and detectors_node.hpp:9-12 takes       *)
(* the rate over the last tick window: a topic whose rate never changes is *)
(* never flagged.                                                          *)
(***************************************************************************)
SteadyNeverFlagged == \A t \in FreqTopics : ~Alarmed(freqSaid[t])
=============================================================================
