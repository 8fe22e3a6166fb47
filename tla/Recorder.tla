------------------------------ MODULE Recorder -------------------------------
(***************************************************************************)
(* A trial on the robot: the probe records the three topics to a file, in  *)
(* the order its one executor takes them, while a fault is injected; then  *)
(* the recording is summarised.  Every stamp and every receive time is     *)
(* read from the system clock, which may be set back once.  What is        *)
(* published, when, and the delay of each topic are external.              *)
(***************************************************************************)
EXTENDS Session

CONSTANTS ProbeWindow,   \* --window
          Traffic,       \* what the trials to check publish: for each topic,
                         \* health states, sources or embedding sizes
          MaxRecClock,   \* bound on the clock
          MaxMessages    \* bound on the messages of a trial

ASSUME RecorderAssumption ==
  /\ ProbeWindow \in Nat \ {0}
  /\ \A c \in Traffic : /\ c.health \subseteq States /\ c.verdicts \subseteq STRING
                        /\ c.embedding \subseteq Nat
  /\ {MaxRecClock, MaxMessages} \subseteq Nat

VARIABLES carried,    \* the traffic of this trial
          recClock,   \* the system clock
          stepped,    \* it was set back (history)
          injectedAt, \* the time in the FAULT INJECTED line, or None
          wire,       \* messages of each topic on their way
          published,  \* messages published
          ringDim, ringFilled,   \* dim, filled
          recRows,    \* the lines written
          recFrames   \* the sizes and the lines of the embeddings recorded (history)

recVars == <<carried, recClock, stepped, injectedAt, wire, published, ringDim, ringFilled,
             recRows, recFrames>>

RecTopics == {"health", "verdicts", "embedding"}

RecInit ==
  /\ carried \in Traffic
  /\ recClock = 0 /\ stepped = FALSE /\ injectedAt = None
  /\ wire = [topic \in RecTopics |-> <<>>] /\ published = 0
  /\ ringDim = 0 /\ ringFilled = 0
  /\ recRows = <<>> /\ recFrames = <<>>
-----------------------------------------------------------------------------
probe == <<ringDim, ringFilled, recRows, recFrames>>

RecElapse ==
  /\ recClock < MaxRecClock
  /\ recClock' = recClock + 1
  /\ UNCHANGED <<carried, stepped, injectedAt, wire, published, probe>>

SetBack ==
  /\ ~stepped /\ recClock > 0
  /\ stepped' = TRUE /\ recClock' = recClock - 1
  /\ UNCHANGED <<carried, injectedAt, wire, published, probe>>

InjectFault ==
  /\ injectedAt = None
  /\ injectedAt' = recClock
  /\ UNCHANGED <<carried, recClock, stepped, wire, published, probe>>

Send(topic, msg) ==
  /\ published < MaxMessages
  /\ published' = published + 1
  /\ wire' = [wire EXCEPT ![topic] = Append(@, msg)]
  /\ UNCHANGED <<carried, recClock, stepped, injectedAt, probe>>

SendHealth ==
  \E state \in carried.health : Send("health", [stamp |-> recClock, state |-> state])

SendVerdict ==
  \E source \in carried.verdicts :
    Send("verdicts", [stamp |-> recClock, source |-> source])

SendEmbedding == \E dim \in carried.embedding : Send("embedding", [stamp |-> recClock, dim |-> dim])
-----------------------------------------------------------------------------
Heard(topic) == Head(wire[topic])

Take(topic) ==
  /\ wire[topic] # <<>>
  /\ wire' = [wire EXCEPT ![topic] = Tail(@)]
  /\ UNCHANGED <<carried, recClock, stepped, injectedAt, published>>

RecordHealth ==
  /\ Take("health")
  /\ LET msg == Heard("health")
     IN  recRows' = Append(recRows, [Row(recClock, "health", msg.stamp)
                                       EXCEPT !.state = msg.state, !.source = "arbiter"])
  /\ UNCHANGED <<ringDim, ringFilled, recFrames>>

RecordVerdict ==
  /\ Take("verdicts")
  /\ LET msg == Heard("verdicts")
     IN  recRows' = Append(recRows, [Row(recClock, "verdicts", msg.stamp)
                                       EXCEPT !.source = msg.source, !.violating = 1])
  /\ UNCHANGED <<ringDim, ringFilled, recFrames>>

\* Mutated: a new size reallocates the ring and keeps the count.
FilledAnyway(dim) == IF ringFilled < ProbeWindow THEN ringFilled + 1 ELSE ProbeWindow

\* A new size starts the ring over.  The ring has no slots before the first
\* frame, which matters only when the frames are not empty.
Filled(dim) ==
  LET before == IF dim # ringDim THEN 0 ELSE ringFilled
  IN  IF before < ProbeWindow THEN before + 1 ELSE ProbeWindow

RecordEmbedding ==
  /\ Take("embedding")
  /\ LET msg == Heard("embedding")
     IN  /\ ringDim' = msg.dim /\ ringFilled' = Filled(msg.dim)
         /\ recFrames' = Append(recFrames, [dim |-> msg.dim, line |-> Len(recRows) + 1])
         /\ recRows' = Append(recRows,
              [Row(recClock, "embedding", msg.stamp) EXCEPT
                 !.spread = IF ringFilled' = ProbeWindow THEN 1 ELSE None])

\* Embeddings travel best effort.
LoseEmbedding == Take("embedding") /\ UNCHANGED probe

RecNext ==
  \/ RecElapse \/ SetBack \/ InjectFault
  \/ SendHealth \/ SendVerdict \/ SendEmbedding
  \/ RecordHealth \/ RecordVerdict \/ RecordEmbedding \/ LoseEmbedding

RecSpec == RecInit /\ [][RecNext]_recVars
-----------------------------------------------------------------------------
Summary == FaultSummary(recRows, injectedAt, FaultSources("freeze"))

(***************************************************************************)
(* The parts of a summary, split by stamp and by receive time, agree:      *)
(* health that is not OK after the fault is a detection, unless the clock  *)
(* was set back; and a detection by a row from before the fault shows in   *)
(* the count of health before the fault or lies in the settling time       *)
(* (session.cpp:474-535).                                                  *)
(***************************************************************************)
DetectionsAddUp ==
  LET s == Summary
  IN  (injectedAt # None) =>
        /\ (s.after.nonOk > 0 /\ ~stepped) => s.degraded # None
        /\ (s.degraded # None /\ s.degraded.row.stamp < injectedAt) =>
              s.before.nonOk > 0 \/ s.degraded.row.stamp < Settled(recRows, injectedAt)
        /\ s.stop # None => s.intervene # None /\ s.intervene.latency <= s.stop.latency
        /\ (s.degraded # None /\ ~stepped) =>
              \A i \in DOMAIN recRows :
                (recRows[i].topic = "health" /\ recRows[i].state # 0
                   /\ recRows[i].stamp >= injectedAt) =>
                  s.degraded.latency <= recRows[i].t - injectedAt

(***************************************************************************)
(* A recorded spread is of a whole window: it is there exactly when the    *)
(* last ProbeWindow recorded embeddings have one size (probe.cpp:190-210). *)
(***************************************************************************)
SpreadsAreWhole ==
  \A i \in DOMAIN recFrames :
    recRows[recFrames[i].line].spread # None <=>
      /\ i >= ProbeWindow
      /\ \A j \in i - ProbeWindow + 1 .. i : recFrames[j].dim = recFrames[i].dim
=============================================================================
