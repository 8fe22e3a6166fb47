------------------------------- MODULE OodNode -------------------------------
(***************************************************************************)
(* OodLifecycleNode: the managed node around OodCore, in its two profiles. *)
(* One single-threaded executor runs the lifecycle transitions and the     *)
(* embedding callback, so each is one step.                                *)
(*                                                                         *)
(* The embedding topic is best-effort: a frame may or may not arrive, and  *)
(* one published before a transition may be taken after it.  OnEmbedding   *)
(* is therefore possible whenever the subscription exists.  A configure    *)
(* that fails (a parameter out of range, a core that cannot be built)      *)
(* leaves the node as it was, and is left out; a calibration file that     *)
(* fails to load falls back to the threshold parameter, so either way the  *)
(* threshold is one of Thresholds.  The lifecycle state machine is rclcpp's*)
(* and outside the repository.                                             *)
(***************************************************************************)
EXTENDS OodCore

VARIABLES profile,     \* OodNodeProfile: the binary that was launched
          lifecycle,   \* state of the managed node
          core,        \* core_ exists
          endpoints,   \* sub_ and pub_ exist
          activated,   \* pub_->is_activated()
          sent,        \* the verdict the last callback published, if it did
          dutyFrames   \* frames accepted since activation (history)

nodeVars == <<profile, lifecycle, core, endpoints, activated, sent, dutyFrames>>

allVars == <<oodVars, nodeVars>>

phm_ood_cpp ==
  [drop_malformed |-> TRUE, endpoints_on_activate |-> FALSE, reset_on_deactivate |-> TRUE]

phm_ood ==
  [drop_malformed |-> FALSE, endpoints_on_activate |-> TRUE, reset_on_deactivate |-> FALSE]

\* The frames of a duty that no property needs to count beyond.
LongDuty == Window + MinConsecutive * ComputeEvery

TypeOKNode ==
  /\ TypeOK
  /\ profile \in {phm_ood_cpp, phm_ood}
  /\ lifecycle \in {"unconfigured", "inactive", "active", "finalized"}
  /\ core \in BOOLEAN /\ endpoints \in BOOLEAN /\ activated \in BOOLEAN
  /\ sent \in OodVerdict \cup {NoVerdict}
  /\ dutyFrames \in 0 .. LongDuty
-----------------------------------------------------------------------------
InitNode ==
  /\ Init
  /\ profile \in {phm_ood_cpp, phm_ood}
  /\ profile = phm_ood_cpp => expected = 0
  /\ lifecycle = "unconfigured"
  /\ core = FALSE /\ endpoints = FALSE /\ activated = FALSE
  /\ sent = NoVerdict
  /\ dutyFrames = 0

\* A core built from the parameters; only phm_ood has embed_dim.
NewCore ==
  /\ threshold' \in Thresholds
  /\ expected' \in IF profile = phm_ood_cpp THEN {0} ELSE EmbedDims
  /\ dim' = expected'
  /\ ring' = [i \in Slots |-> Blank]
  /\ ringDim' = 0
  /\ nextSlot' = 0 /\ filled' = 0 /\ phase' = 0 /\ run' = 0
  /\ last' = NoVerdict
  /\ accepted' = TRUE
  /\ verdict' = NoVerdict

\* on_configure succeeds.
Configure ==
  /\ lifecycle = "unconfigured"
  /\ lifecycle' = "inactive"
  /\ core' = TRUE
  /\ NewCore
  /\ endpoints' = ~profile.endpoints_on_activate
  /\ UNCHANGED <<profile, activated, sent, dutyFrames>>

\* on_activate: endpoints in one profile, then the publisher.
Activate ==
  /\ lifecycle = "inactive" /\ core
  /\ lifecycle' = "active"
  /\ endpoints' = (endpoints \/ profile.endpoints_on_activate)
  /\ activated' = TRUE
  /\ dutyFrames' = 0
  /\ UNCHANGED <<oodVars, profile, core, sent>>

\* Mutated: no profile resets the core.
DeactivateKeeping ==
  /\ lifecycle = "active"
  /\ lifecycle' = "inactive"
  /\ activated' = FALSE
  /\ endpoints' = (endpoints /\ ~profile.endpoints_on_activate)
  /\ sent' = NoVerdict
  /\ UNCHANGED <<oodVars, profile, core, dutyFrames>>

\* on_deactivate: one profile drops its endpoints, the other its window.
Deactivate ==
  /\ lifecycle = "active"
  /\ lifecycle' = "inactive"
  /\ activated' = FALSE
  /\ endpoints' = (endpoints /\ ~profile.endpoints_on_activate)
  /\ IF profile.reset_on_deactivate /\ core THEN Reset ELSE UNCHANGED oodVars
  /\ sent' = NoVerdict
  /\ UNCHANGED <<profile, core, dutyFrames>>

\* Endpoints and core go; the fields of the dead core are what they were.
Dismantle ==
  /\ endpoints' = FALSE
  /\ core' = FALSE
  /\ activated' = FALSE
  /\ sent' = NoVerdict
  /\ UNCHANGED <<oodVars, profile, dutyFrames>>

\* on_cleanup.
Cleanup == lifecycle = "inactive" /\ lifecycle' = "unconfigured" /\ Dismantle

\* on_shutdown, from any state, without a deactivation first.
Shutdown == lifecycle # "finalized" /\ lifecycle' = "finalized" /\ Dismantle

\* Mutated: frames are scored as soon as there is a core.
OnDutyConfigured == core /\ endpoints

OnDuty == core /\ endpoints /\ activated

\* Mutated: an empty frame passes when its dim field says so.
MalformedUnlessEmpty(f, declared) == declared # f.size

\* The dim field disagrees with the array, or there is nothing in it.
Malformed(f, declared) == declared # f.size \/ f.size = 0

\* Not on duty: the frame is not looked at.
Ignore == ~OnDuty /\ UNCHANGED <<oodVars, dutyFrames>> /\ sent' = NoVerdict

\* One profile drops a malformed frame unseen.
Drop(f, declared) ==
  /\ OnDuty /\ profile.drop_malformed /\ Malformed(f, declared)
  /\ UNCHANGED <<oodVars, dutyFrames>>
  /\ sent' = NoVerdict

\* The verdict on a refused frame is published in one profile only.
Published ==
  IF ~accepted' /\ profile.drop_malformed THEN NoVerdict ELSE verdict'

ScoreFrame(f, declared) ==
  /\ OnDuty /\ ~(profile.drop_malformed /\ Malformed(f, declared))
  /\ Update(f)
  /\ sent' = Published
  /\ dutyFrames' =
       IF accepted' /\ dutyFrames < LongDuty THEN dutyFrames + 1 ELSE dutyFrames

\* on_embedding.
OnEmbedding(f, declared) ==
  /\ endpoints
  /\ Ignore \/ Drop(f, declared) \/ ScoreFrame(f, declared)
  /\ UNCHANGED <<profile, lifecycle, core, endpoints, activated>>

Arrive == \E f \in Frame, declared \in Sizes : OnEmbedding(f, declared)

NextNode ==
  \/ Configure
  \/ Activate
  \/ Deactivate
  \/ Cleanup
  \/ Shutdown
  \/ Arrive

SpecNode == InitNode /\ [][NextNode]_allVars
-----------------------------------------------------------------------------
(***************************************************************************)
(* The node's parts agree with its lifecycle state in both profiles and on *)
(* every path, shutdown while active included: a core exactly while        *)
(* configured (so the "Core not initialized" refusal of on_activate is     *)
(* never met), a live publisher exactly while active, and no subscription  *)
(* that could call back without a core (ood_lifecycle_node.cpp:117-263).   *)
(***************************************************************************)
PartsMatchState ==
  /\ core <=> lifecycle \in {"inactive", "active"}
  /\ (endpoints /\ activated) <=> lifecycle = "active"
  /\ endpoints => core

(***************************************************************************)
(* README.md:412-414: frames that arrive while the node is not active are  *)
(* not scored.  Off duty, an arriving frame changes nothing of the core.   *)
(***************************************************************************)
NothingScoredOffDuty ==
  [][lifecycle' = lifecycle /\ lifecycle # "active" => UNCHANGED oodVars]_allVars

(***************************************************************************)
(* README.md:413-414: in phm_ood_cpp, no alarm rests on frames from before *)
(* the activation: window, hysteresis run and cached verdict are of this   *)
(* duty, which has lasted a full window and a full run of low spreads.     *)
(***************************************************************************)
AlarmOfThisDuty ==
  profile.reset_on_deactivate /\ Alarming => dutyFrames >= Window + Earliest - 1

(***************************************************************************)
(* In phm_ood_cpp a bad frame is never heard of: none without content gets *)
(* into the window, where a stream of them would read as a collapse and    *)
(* stop the robot, and no verdict on a refused frame is published.         *)
(***************************************************************************)
BadFramesUnheard ==
  profile.drop_malformed =>
    /\ filled > 0 => dim > 0
    /\ sent # NoVerdict => accepted
=============================================================================
