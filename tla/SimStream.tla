------------------------------ MODULE SimStream ------------------------------
(***************************************************************************)
(* The simulated policy: the node phm_sim publishes frames of an           *)
(* EmbeddingStream, n_in_dist healthy ones and then collapsed ones for     *)
(* good, and a service makes it collapse now.  Frames are abstracted to    *)
(* the scale they are drawn with.                                          *)
(***************************************************************************)
EXTENDS Integers

CONSTANTS NInDist,    \* n_in_dist
          MaxFrames   \* bound on the frames published

ASSUME StreamAssumption == NInDist \in Nat \ {0} /\ MaxFrames \in Nat

VARIABLES frameIndex,   \* frame_index_
          healthySent,  \* healthy frames published (history)
          collapsed,    \* a collapsed frame was published (history)
          answers       \* "Switched" answers given by the service (history)

streamVars == <<frameIndex, healthySent, collapsed, answers>>

StreamTypeOK ==
  /\ frameIndex \in Nat /\ healthySent \in Nat /\ answers \in Nat
  /\ collapsed \in BOOLEAN

InOodPhase == frameIndex >= NInDist

StreamInit ==
  /\ frameIndex = 0 /\ healthySent = 0
  /\ collapsed = FALSE /\ answers = 0

\* The scale is chosen before the index moves.
StreamTick ==
  /\ frameIndex < MaxFrames
  /\ healthySent' = IF InOodPhase THEN healthySent ELSE healthySent + 1
  /\ collapsed' = (collapsed \/ InOodPhase)
  /\ frameIndex' = frameIndex + 1
  /\ UNCHANGED answers

\* Mutated: a trigger in the OOD phase starts it over.
TriggerOodAgain ==
  /\ answers' = IF InOodPhase THEN answers ELSE answers + 1
  /\ frameIndex' = IF InOodPhase THEN 0 ELSE NInDist
  /\ UNCHANGED <<healthySent, collapsed>>

\* The service: jumps to the OOD phase, or answers that it was active.
TriggerOod ==
  /\ answers' = IF InOodPhase THEN answers ELSE answers + 1
  /\ frameIndex' = IF InOodPhase THEN frameIndex ELSE NInDist
  /\ UNCHANGED <<healthySent, collapsed>>

StreamNext == StreamTick \/ TriggerOod

StreamSpec == StreamInit /\ [][StreamNext]_streamVars
-----------------------------------------------------------------------------
(***************************************************************************)
(* The policy collapses once: after its first collapsed frame it publishes *)
(* no healthy one, and it collapses early only because one caller, and     *)
(* only one, was told that it switched (sim.cpp:33-52,                     *)
(* embedding_publisher.cpp:69-76).                                         *)
(***************************************************************************)
CollapsesOnce ==
  /\ healthySent <= NInDist
  /\ collapsed => InOodPhase
  /\ answers = (IF InOodPhase /\ healthySent < NInDist THEN 1 ELSE 0)
=============================================================================
