------------------------------- MODULE Session -------------------------------
(***************************************************************************)
(* The summary of a fault-injection trial: what the session tools compute  *)
(* from the rows of one recording and the time of the fault in the log.    *)
(* Rounding, reasons and the layout of the report are left out; a first    *)
(* hit keeps the row it was found in.                                      *)
(***************************************************************************)
EXTENDS Numerics

CONSTANTS SettleTime,   \* kSettleSec
          None          \* an optional that is not there

States == 0 .. 3   \* the states with a name

FaultKinds == {"freeze", "stop", "sensors", "gyro", "joint"}

\* One recorded line.  A field its topic does not write has its default.
Row(t, topic, stamp) ==
  [t |-> t, topic |-> topic, stamp |-> stamp, state |-> -1, source |-> None,
   violating |-> 0, spread |-> None]

Line == [t : Nat, topic : {"health", "verdicts", "embedding"}, stamp : Nat,
         state : States \cup {-1}, source : {"arbiter", None} \cup STRING, violating : {0, 1},
         spread : Int \cup {None}]

\* What a search in the lines finds.
Hit == [latency : Int, row : Line]

ASSUME SessionAssumption == SettleTime \in Nat /\ None \notin Int \cup Hit

\* Of some lines, by their positions, those of a topic.
OfTopic(rows, lines, topic) == {i \in lines : rows[i].topic = topic}
-----------------------------------------------------------------------------
\* The code throws on a state without a name; the arbiter publishes none.
HealthSummary(rows, lines) ==
  LET health == OfTopic(rows, lines, "health")
      nonOk  == {i \in health : rows[i].state # 0}
  IN  [msgs   |-> Cardinality(health),
       nonOk  |-> Cardinality(nonOk),
       causes |-> {<<rows[i].state, rows[i].source>> : i \in nonOk}]

\* Sorted, the element at half the length: the upper one of two.
Median(values) == Nth(values, (Cardinality(DOMAIN values) \div 2) + 1)

OodSummary(rows, lines) ==
  LET ood   == {i \in OfTopic(rows, lines, "verdicts") : rows[i].source = "phm_ood_cpp"}
      emb   == OfTopic(rows, lines, "embedding")
      whole == {i \in emb : rows[i].spread # None}
      span  == IF emb = {} THEN 0 ELSE rows[Max(emb)].stamp - rows[Min(emb)].stamp
  IN  [verdicts   |-> Cardinality(ood),
       violating  |-> Cardinality({i \in ood : rows[i].violating # 0}),
       embeddings |-> Cardinality(emb),
       rate       |-> IF span > 0 THEN <<Cardinality(emb) - 1, span>> ELSE None,
       median     |-> IF whole = {} THEN None
                      ELSE Median([i \in whole |-> rows[i].spread])]

\* The sources that may detect a fault of a kind: the code's prefixes, each
\* standing for the sources that start with it.
FaultSources(kind) ==
  CASE kind \in {"freeze", "sensors"} -> {"phm_ood_cpp"}
    [] kind \in {"gyro", "joint"}     -> {"phm_ood_cpp", "stale:/lowstate"}
    [] kind = "stop"                  -> {"dead:/policy/embedding", "freq:/policy/embedding",
                                          "phm_ood_cpp"}
    [] OTHER                          -> {}
-----------------------------------------------------------------------------
\* The first row of the matching ones in receive order, stably sorted, at or
\* after t0.
FirstAfter(rows, t0, matching) ==
  LET hits == {i \in matching : rows[i].t >= t0}
      IsFirst(i) == \A j \in hits : rows[i].t < rows[j].t \/ (rows[i].t = rows[j].t /\ i <= j)
  IN  IF hits = {} THEN None
      ELSE LET i == CHOOSE j \in hits : IsFirst(j)
           IN  [latency |-> rows[i].t - t0, row |-> rows[i]]

\* The end of the settling time: after the least embedding stamp.
Settled(rows, tf) ==
  LET stamps == {rows[i].stamp : i \in OfTopic(rows, DOMAIN rows, "embedding")}
  IN  SettleTime + (IF stamps = {} THEN tf ELSE CHOOSE s \in stamps : \A x \in stamps : s <= x)

\* Mutated: everything before the fault, by receive time.
BeforeByReceipt(rows, tf) ==
  {i \in DOMAIN rows : Settled(rows, tf) <= rows[i].t /\ rows[i].t < tf}

Before(rows, tf) ==
  {i \in DOMAIN rows : Settled(rows, tf) <= rows[i].stamp /\ rows[i].stamp < tf}

After(rows, tf) == {i \in DOMAIN rows : rows[i].stamp >= tf}

HealthAtLeast(rows, tf, level) ==
  FirstAfter(rows, tf, {i \in OfTopic(rows, DOMAIN rows, "health") : rows[i].state >= level})

FirstViolating(rows, tf, sources) ==
  FirstAfter(rows, tf, {i \in OfTopic(rows, DOMAIN rows, "verdicts") :
                          rows[i].violating # 0 /\ rows[i].source \in sources})

FaultSummary(rows, tf, sources) ==
  IF tf = None
  THEN [missing |-> TRUE, violating |-> None, degraded |-> None, intervene |-> None,
        stop |-> None]
  ELSE [missing   |-> FALSE,
        before    |-> HealthSummary(rows, Before(rows, tf)),
        beforeOod |-> OodSummary(rows, Before(rows, tf)),
        after     |-> HealthSummary(rows, After(rows, tf)),
        violating |-> FirstViolating(rows, tf, sources),
        degraded  |-> HealthAtLeast(rows, tf, 1),
        intervene |-> HealthAtLeast(rows, tf, 2),
        stop      |-> HealthAtLeast(rows, tf, 3)]
-----------------------------------------------------------------------------
\* Of the summaries of some trials, by their logs.
LatencyStat(trials, key) ==
  LET found   == {log \in DOMAIN trials : trials[log][key] # None}
      latency == [log \in found |-> trials[log][key].latency]
  IN  [detected |-> Cardinality(found), total |-> Cardinality(DOMAIN trials),
       median   |-> IF found = {} THEN None ELSE Median(latency)]

Aggregate(trials) ==
  LET usable == {log \in DOMAIN trials : ~trials[log].missing}
  IN  [trials   |-> Cardinality(DOMAIN trials),
       stat     |-> [key \in {"violating", "degraded", "intervene", "stop"} |->
                       LatencyStat(trials, key)],
       preNonOk |-> MapThenSumSet(LAMBDA log : trials[log].before.nonOk, usable)]
=============================================================================
