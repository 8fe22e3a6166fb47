----------------------------- MODULE SessionDir ------------------------------
(***************************************************************************)
(* A session directory and its summary.  Each trial leaves an embedder log *)
(* and a recording; either may be compressed, with or without its plain    *)
(* copy kept, and a recording may get lost.  The script that runs trials   *)
(* and the user who compresses files are external.                         *)
(***************************************************************************)
EXTENDS Session

CONSTANTS TrialKeys,   \* the trials of the session: <<kind, number>>
          Outcomes     \* what a trial may leave: [tf, rows]

ASSUME SessionDirAssumption ==
  /\ TrialKeys \subseteq FaultKinds \X Nat /\ IsFiniteSet(TrialKeys)
  /\ None \notin Outcomes
  /\ \A o \in Outcomes : o.tf \in Nat \cup {None} /\ o.rows \in Seq(Line)

VARIABLES outcome,     \* what each trial left (None: not run)
          logForms,    \* the copies of its log
          rowForms     \* the copies of its recording

dirVars == <<outcome, logForms, rowForms>>

Forms == {"plain", "gz"}

DirInit ==
  /\ outcome = [key \in TrialKeys |-> None]
  /\ logForms = [key \in TrialKeys |-> {}] /\ rowForms = logForms

RunTrial ==
  \E key \in TrialKeys, o \in Outcomes :
    /\ outcome[key] = None
    /\ outcome' = [outcome EXCEPT ![key] = o]
    /\ logForms' = [logForms EXCEPT ![key] = {"plain"}]
    /\ rowForms' = [rowForms EXCEPT ![key] = {"plain"}]

CompressLog ==
  \E key \in TrialKeys, rest \in SUBSET {"plain"} :
    /\ logForms[key] = {"plain"}
    /\ logForms' = [logForms EXCEPT ![key] = {"gz"} \cup rest]
    /\ UNCHANGED <<outcome, rowForms>>

CompressRows ==
  \E key \in TrialKeys, rest \in SUBSET {"plain"} :
    /\ rowForms[key] = {"plain"}
    /\ rowForms' = [rowForms EXCEPT ![key] = {"gz"} \cup rest]
    /\ UNCHANGED <<outcome, logForms>>

LoseRows ==
  \E key \in TrialKeys :
    /\ rowForms[key] # {}
    /\ rowForms' = [rowForms EXCEPT ![key] = {}]
    /\ UNCHANGED <<outcome, logForms>>

DirNext == RunTrial \/ CompressLog \/ CompressRows \/ LoseRows

DirSpec == DirInit /\ [][DirNext]_dirVars
-----------------------------------------------------------------------------
\* Mutated: a log with a compressed copy is listed once for each.
EmbedderLogsTwice(kind) ==
  {name \in {<<key[2], form>> : key \in {k \in TrialKeys : k[1] = kind}, form \in Forms} :
     name[2] \in logForms[<<kind, name[1]>>]}

\* The logs in any form, named without it.
EmbedderLogs(kind) ==
  {<<key[2], "plain">> : key \in {k \in TrialKeys : k[1] = kind /\ logForms[k] # {}}}

\* A missing recording reads as one without lines.
LoadRows(key) == IF rowForms[key] = {} THEN <<>> ELSE outcome[key].rows

\* The time of the first FAULT INJECTED line; no log, no time.
TimeOfFault(key) == IF logForms[key] = {} THEN None ELSE outcome[key].tf

TrialSummary(kind, n) ==
  FaultSummary(LoadRows(<<kind, n>>), TimeOfFault(<<kind, n>>), FaultSources(kind))

\* Kinds added later are left out of sessions without trials of them.
Reported(kind) == kind \in {"freeze", "stop"} \/ EmbedderLogs(kind) # {}

SummarizeSession ==
  [kind \in {k \in FaultKinds : Reported(k)} |->
     Aggregate([log \in EmbedderLogs(kind) |-> TrialSummary(kind, log[1])])]
-----------------------------------------------------------------------------
RunOf(kind) == {k \in TrialKeys : k[1] = kind /\ outcome[k] # None}

SawStop(o) ==
  /\ o.tf # None
  /\ \E i \in DOMAIN o.rows : /\ o.rows[i].topic = "health" /\ o.rows[i].state = 3
                              /\ o.rows[i].t >= o.tf

(***************************************************************************)
(* The aggregate of a fault kind is of every trial that was run, each once *)
(* in whatever form its files are kept; a trial without its recording      *)
(* counts as not detected, one without a fault line as well.  No more than *)
(* half of the detections are slower than the median, or faster            *)
(* (session.cpp:247-266, 537-570, 686-746).                                *)
(***************************************************************************)
EveryTrialCountsOnce ==
  \A kind \in {key[1] : key \in {k \in TrialKeys : outcome[k] # None}} :
    LET all  == SummarizeSession[kind]
        seen == {k \in RunOf(kind) : rowForms[k] # {} /\ SawStop(outcome[k])}
        Latency(k) == HealthAtLeast(outcome[k].rows, outcome[k].tf, 3).latency
    IN  /\ all.trials = Cardinality(RunOf(kind))
        /\ all.stat["stop"].detected = Cardinality(seen)
        /\ all.stat["stop"].total = all.trials
        /\ seen # {} =>
             /\ 2 * Cardinality({k \in seen : Latency(k) > all.stat["stop"].median}) <= Cardinality(seen)
             /\ 2 * Cardinality({k \in seen : Latency(k) < all.stat["stop"].median}) <= Cardinality(seen)
=============================================================================
