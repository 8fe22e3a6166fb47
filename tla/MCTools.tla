------------------------------ MODULE MCTools -------------------------------
(* TLC instance of the tools, one after the other: `job` is the one that   *)
(* runs, the others stay in their initial states.                          *)
EXTENDS SimStream, ChainBench, Recorder, SessionDir, Npz, Json, Calibration, NumpyRandom

VARIABLE job

Jobs == {"stream", "bench", "recorder", "session", "npz", "json", "calibration", "random"}

\* A trial with embeddings of two sizes, one with health, one with verdicts.
MCTraffic ==
  {[health |-> {}, verdicts |-> {}, embedding |-> {0, 1}],
   [health |-> {3}, verdicts |-> {}, embedding |-> {1}],
   [health |-> {3}, verdicts |-> {"phm_ood_cpp"}, embedding |-> {}]}

HealthRow(t, stamp, state) == [Row(t, "health", stamp) EXCEPT !.state = state]

\* An embedder that never injected, a fault seen at once, one seen late.
MCOutcomes ==
  {[tf |-> None, rows |-> <<HealthRow(0, 0, 3)>>],
   [tf |-> 1, rows |-> <<HealthRow(0, 0, 0), HealthRow(2, 1, 3)>>],
   [tf |-> 1, rows |-> <<HealthRow(0, 0, 0), HealthRow(3, 3, 3), HealthRow(1, 1, 2)>>]}

MCTrialKeys == {<<"freeze", 1>>, <<"freeze", 2>>, <<"gyro", 1>>}

MCKeyLen == [threshold |-> 9, n |-> 1]

\* Headers that just fit 64 bytes, that just do not, and no data at all.
MCArrays ==
  {[key |-> "threshold", width |-> 8, shape |-> <<>>, text |-> 53],
   [key |-> "n", width |-> 4, shape |-> <<2, 1>>, text |-> 54],
   [key |-> "n", width |-> 4, shape |-> <<0>>, text |-> 60]}

\* This program, NumPy compressing, NumPy with ZIP64.
MCLayouts ==
  {[local |-> 0, zip64 |-> FALSE, deflated |-> FALSE, comment |-> 0],
   [local |-> 20, zip64 |-> FALSE, deflated |-> TRUE, comment |-> 3],
   [local |-> 20, zip64 |-> TRUE, deflated |-> FALSE, comment |-> 0]}

MCValues ==
  {Scalar("null", "none"), Scalar("int", "1"), Scalar("double", "finite"), Scalar("double", "nan"),
   Scalar("string", <<"plain", "astral", "astral">>), Scalar("string", <<>>), Array(<<>>),
   Array(<<Scalar("int", "1"), Object(<<>>), Scalar("true", "none")>>),
   Object(<< <<"k", Array(<<Scalar("double", "-inf")>>)>>,
             <<"t", Scalar("string", <<"bmp", "control">>)>> >>)}

RECURSIVE DepthOf(_)
DepthOf(v) == IF Inner(v) = <<>> THEN 0 ELSE 1 + Max({DepthOf(x) : x \in Range(Inner(v))})

RECURSIVE Subvalues(_)
Subvalues(v) == {v} \cup UNION {Subvalues(x) : x \in Range(Inner(v))}

MCDepth == [v \in UNION {Subvalues(x) : x \in MCValues} |-> DepthOf(v)]

\* Frames of one number, the spread of a window their range; one of another
\* size.
MCFrames == {[content |-> c, size |-> 1] : c \in {0, 1, 4}} \cup {[content |-> 0, size |-> 2]}

MCSpreadOf(rows) ==
  Max({rows[i].content : i \in DOMAIN rows}) - Min({rows[i].content : i \in DOMAIN rows})

MCMaxCorpus == <<1, 1, 6>>

MCRanges == {<<-1, 0>>, <<0, 8>>, <<-2, 3>>}

ToolsInit ==
  /\ job \in Jobs
  /\ StreamInit /\ BenchInit /\ RecInit /\ DirInit /\ NpzInit /\ JsonInit /\ CalInit /\ RandomInit
  /\ job # "bench" => faultKind = "silence"
  /\ job # "recorder" => carried = CHOOSE c \in MCTraffic : TRUE

ToolsNext ==
  \/ /\ job = "stream" /\ StreamNext
     /\ UNCHANGED <<job, benchVars, recVars, dirVars, npzVars, jsonVars, calVars, randomVars>>
  \/ /\ job = "bench" /\ BenchNext
     /\ UNCHANGED <<job, streamVars, recVars, dirVars, npzVars, jsonVars, calVars, randomVars>>
  \/ /\ job = "recorder" /\ RecNext
     /\ UNCHANGED <<job, streamVars, benchVars, dirVars, npzVars, jsonVars, calVars, randomVars>>
  \/ /\ job = "session" /\ DirNext
     /\ UNCHANGED <<job, streamVars, benchVars, recVars, npzVars, jsonVars, calVars, randomVars>>
  \/ /\ job = "npz" /\ NpzNext
     /\ UNCHANGED <<job, streamVars, benchVars, recVars, dirVars, jsonVars, calVars, randomVars>>
  \/ /\ job = "json" /\ JsonNext
     /\ UNCHANGED <<job, streamVars, benchVars, recVars, dirVars, npzVars, calVars, randomVars>>
  \/ /\ job = "calibration" /\ CalNext
     /\ UNCHANGED <<job, streamVars, benchVars, recVars, dirVars, npzVars, jsonVars, randomVars>>
  \/ /\ job = "random" /\ RandomNext
     /\ UNCHANGED <<job, streamVars, benchVars, recVars, dirVars, npzVars, jsonVars, calVars>>

toolsVars ==
  <<job, streamVars, benchVars, recVars, dirVars, npzVars, jsonVars, calVars, randomVars>>

ToolsSpec == ToolsInit /\ [][ToolsNext]_toolsVars
=============================================================================
