----------------------------- MODULE Calibration -----------------------------
(***************************************************************************)
(* Where a threshold comes from: the probe listens for a while and takes a *)
(* percentile of the rolling spreads it saw; and the leave-one-corpus-out  *)
(* check that says how often such a threshold would alarm on data it was   *)
(* not made from.  The spread of a window is a parameter.  Thresholds are  *)
(* in hundredths, so that the interpolation is exact; rounding is left     *)
(* out.                                                                    *)
(***************************************************************************)
EXTENDS Numerics

CONSTANTS CalWindow,      \* window
          Percent,        \* percentile
          Frames,         \* the frames there are: [content, size]
          SpreadOf(_),    \* the spread of a window
          Lanes, Block,   \* the 8 and the 128 of the pairwise sum
          MaxCorpus       \* bounds on the frames of each corpus

ASSUME CalibrationAssumption ==
  /\ CalWindow \in Nat \ {0} /\ Percent \in 0 .. 100
  /\ Lanes \in Nat \ {0} /\ Block \in Nat /\ Block >= 2 * Lanes
  /\ MaxCorpus \in Seq(Nat)
  /\ \A rows \in [1 .. CalWindow -> Frames] : SpreadOf(rows) \in Int

VARIABLES corpora,     \* recordings of frames, the probe's the last one
          calOutcome,  \* what calibrate() came to
          threshold    \* what it wrote

calVars == <<corpora, calOutcome, threshold>>

CalInit == corpora = <<>> /\ calOutcome = "listening" /\ threshold = 0
-----------------------------------------------------------------------------
\* rolling_spread: one value from the window-th row on; before it NaN, which
\* every caller drops.
RollingSpread(rows) ==
  [i \in 1 .. Len(rows) - CalWindow + 1 |-> SpreadOf(SubSeq(rows, i, i + CalWindow - 1))]

\* Mutated: the index of the percentile in n values instead of n - 1.
PercentileOfN(values) ==
  LET at  == Len(values) * Percent
      low == IF at \div 100 < Len(values) THEN at \div 100 ELSE Len(values) - 1
  IN  100 * Nth(values, low + 1)

\* Linear interpolation between order statistics, in hundredths.
Percentile(values) ==
  LET last == Len(values) - 1
      at   == last * Percent
      low  == at \div 100
  IN  IF at >= 100 * last
      THEN 100 * Nth(values, last + 1)
      ELSE 100 * Nth(values, low + 1)
             + (Nth(values, low + 2) - Nth(values, low + 1)) * (at - 100 * low)

Hear ==
  \E frame \in Frames :
    /\ calOutcome = "listening" /\ corpora # <<>>
    /\ Len(Last(corpora)) < MaxCorpus[Len(corpora)]
    /\ corpora' = [corpora EXCEPT ![Len(corpora)] = Append(@, frame)]
    /\ UNCHANGED <<calOutcome, threshold>>

NewCorpus ==
  /\ calOutcome = "listening" /\ Len(corpora) < Len(MaxCorpus)
  /\ corpora' = Append(corpora, <<>>)
  /\ UNCHANGED <<calOutcome, threshold>>

\* calibrate(), when its time is over.
Calibrate ==
  /\ calOutcome = "listening" /\ corpora # <<>>
  /\ LET frames == Last(corpora)
     IN  \/ /\ Len(frames) < 2 * CalWindow
            /\ calOutcome' = "too few" /\ UNCHANGED threshold
         \/ /\ Len(frames) >= 2 * CalWindow
            /\ \E i \in DOMAIN frames : frames[i].size # frames[1].size
            /\ calOutcome' = "changed" /\ UNCHANGED threshold
         \/ /\ Len(frames) >= 2 * CalWindow
            /\ \A i \in DOMAIN frames : frames[i].size = frames[1].size
            /\ calOutcome' = "written"
            /\ threshold' = Percentile(RollingSpread(frames))
  /\ UNCHANGED corpora

CalNext == NewCorpus \/ Hear \/ Calibrate

CalSpec == CalInit /\ [][CalNext]_calVars
-----------------------------------------------------------------------------
Plain(a) == Sums(a)[Len(a)]

\* Mutated: what does not fill the lanes is left out.
InLanesOnly(a) == Plain(SubSeq(a, 1, Len(a) - (Len(a) % Lanes)))

\* The lanes of a block, and what does not fill one.
InLanes(a) ==
  LET full == Len(a) - (Len(a) % Lanes)
      lane == [j \in 1 .. Lanes |->
                 Plain([k \in 1 .. full \div Lanes |-> a[(k - 1) * Lanes + j]])]
  IN  Plain(lane) + Plain(SubSeq(a, full + 1, Len(a)))

\* Half of n, down to whole lanes.
Half(n) == (n \div 2) - ((n \div 2) % Lanes)

PairwiseSum[a \in Seq(Int)] ==
  IF Len(a) < Lanes THEN Plain(a)
  ELSE IF Len(a) <= Block THEN InLanes(a)
  ELSE PairwiseSum[SubSeq(a, 1, Half(Len(a)))] + PairwiseSum[SubSeq(a, Half(Len(a)) + 1, Len(a))]

Others(k) == SelectSeq([i \in DOMAIN corpora |-> i], LAMBDA i : i # k)

\* One fold: calibrated on the others, stacked, so that windows straddle two
\* of them; how many of the held-out windows alarm, of how many.
LocoFold(k) ==
  LET stacked == FlattenSeq([i \in DOMAIN Others(k) |-> corpora[Others(k)[i]]])
      limit   == Percentile(RollingSpread(stacked))
      held    == RollingSpread(corpora[k])
  IN  [limit |-> limit, windows |-> Len(held),
       alarms |-> PairwiseSum[[i \in DOMAIN held |-> IF 100 * held[i] < limit THEN 1 ELSE 0]]]

\* The check throws on corpora of different sizes, and when there are no
\* windows to calibrate on.
LocoRuns ==
  /\ Cardinality({frame.size : frame \in Range(FlattenSeq(corpora))}) <= 1
  /\ \A k \in DOMAIN corpora :
       Len(FlattenSeq([i \in DOMAIN Others(k) |-> corpora[Others(k)[i]]])) >= CalWindow
-----------------------------------------------------------------------------
Below(values, limit) == Cardinality({i \in DOMAIN values : 100 * values[i] < limit})

(***************************************************************************)
(* A threshold is written only for enough frames of one size, and on the   *)
(* data it was made from it alarms on no more than the percentage asked    *)
(* for, rounded up to a window, and on no fewer if the spreads differ      *)
(* (probe.cpp:72-140, calibration.cpp:61-74, numerics.cpp:64-132).         *)
(***************************************************************************)
ThresholdIsCalibrated ==
  calOutcome = "written" =>
    LET values == RollingSpread(Last(corpora))
        last   == Len(values) - 1
        below  == Below(values, threshold)
    IN  /\ last >= CalWindow
        /\ Cardinality({frame.size : frame \in Range(Last(corpora))}) = 1
        /\ 100 * below < last * Percent + 100
        /\ (\A i, j \in DOMAIN values : values[i] = values[j] => i = j) =>
             100 * below >= last * Percent

(***************************************************************************)
(* The rate of false alarms of a fold counts each held-out window once,    *)
(* however the sum is split (calibration.cpp:76-116, numerics.cpp:22-52).  *)
(***************************************************************************)
FoldsCountEachWindow ==
  LocoRuns =>
    \A k \in DOMAIN corpora :
      LocoFold(k).alarms = Below(RollingSpread(corpora[k]), LocoFold(k).limit)
=============================================================================
