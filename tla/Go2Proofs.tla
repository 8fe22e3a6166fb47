------------------------------ MODULE Go2Proofs ------------------------------
(***************************************************************************)
(* Proofs about the Go2 programs' stale-input check, for any channel       *)
(* groups and limits: its one verdict is exact, and a robot that stops     *)
(* reporting or a sensor that is held is flagged within its group's limit. *)
(***************************************************************************)
EXTENDS Go2Shadow, FiniteSetTheorems, SequenceTheorems, TLAPS

Typed ==
  /\ program \in {"stale_monitor", "shadow_embedder"} /\ fault \in Faults
  /\ faultActive \in BOOLEAN /\ frozen \in BOOLEAN
  /\ {latest, frozenReading, input, prev} \subseteq Reading \cup {NoReading}
  /\ runs \in [Groups -> Nat] /\ \A g \in Groups : runs[g] <= 2 * Limit[g] + 1
  /\ shown \in [Groups -> Seq(Contents \cup {NaN})]
  /\ quietFor \in 0 .. LongEnough /\ faultFor \in 0 .. LongEnough

\* A snapshot is of a fault that is on, and there when it is needed.
FrozenByFault ==
  /\ frozen => faultActive /\ program = "shadow_embedder" /\ fault \in Held \cup {"freeze_obs"}
  /\ frozen => latest # NoReading
  /\ frozen /\ fault \in Held => frozenReading # NoReading
  /\ frozen /\ fault = "freeze_obs" => input # NoReading
  /\ fault = "none" => ~faultActive
  /\ program = "stale_monitor" => fault = "none"

\* The j-th last content of a sequence.
Back(contents, j) == contents[Len(contents) - j]

\* Its last k + 1 contents are one number.
Steady(contents, k) ==
  \A j \in 0 .. k : Back(contents, j) # NaN /\ Back(contents, j) = Back(contents, 0)

(***************************************************************************)
(* StaleIsExact as it is inductive: as far as the contents shown go back,  *)
(* a run is the number of them that repeat the one before.                 *)
(***************************************************************************)
RunIsShown(g) ==
  /\ Len(shown[g]) <= Limit[g] + 2
  /\ Len(shown[g]) = 0 <=> prev = NoReading
  /\ Len(shown[g]) = 0 => runs[g] = 0
  /\ Len(shown[g]) > 0 => prev[g] = Back(shown[g], 0)
  /\ Len(shown[g]) \in 1 .. Limit[g] + 1 => runs[g] < Len(shown[g])
  /\ \A k \in 1 .. Len(shown[g]) - 1 : runs[g] >= k <=> Steady(shown[g], k)

RunsAreShown == \A g \in Groups : RunIsShown(g)

Published == verdict # NoVerdict => verdict = StaleVerdict(runs)

\* The reading the next tick would check.
NextInput ==
  IF program = "stale_monitor" \/ ~faultActive THEN latest
  ELSE IF fault \in Held THEN HeldInput(IF frozen THEN frozenReading ELSE latest)
  ELSE IF frozen THEN input ELSE latest

\* As many repeats as ticks, but the first, up to saturation.
LongRun(g, ticks) == prev[g] # NaN => runs[g] >= AtMost(2 * Limit[g] + 1, ticks - 1)

(***************************************************************************)
(* SilenceSurfaces and StuckIsFlagged as they are inductive: the next tick *)
(* would check what the last one did, and the run is as long as that has   *)
(* been going on.                                                          *)
(***************************************************************************)
QuietRepeats ==
  latest # NoReading /\ ~Stopped /\ quietFor >= 1 =>
    /\ prev = NextInput /\ verdict # NoVerdict
    /\ \A g \in Groups : LongRun(g, quietFor)

HeldRepeats ==
  faultFor >= 1 =>
    /\ frozen /\ verdict # NoVerdict /\ prev # NoReading
    /\ \A g \in HeldGroups : prev[g] = NextInput[g] /\ LongRun(g, faultFor)

Go2Inv == 
  Typed /\ FrozenByFault /\ RunsAreShown /\ Published /\ QuietRepeats /\ HeldRepeats
-----------------------------------------------------------------------------
(* Greatest elements of finite sets. *)

(***************************************************************************)
(* A finite set with a total preorder has a greatest element: of the       *)
(* subsets without one, a smallest would gain or lose one with a member.   *)
(***************************************************************************)
LEMMA GreatestExists ==
  ASSUME NEW S, IsFiniteSet(S), S # {}, NEW R,
         \A x, y \in S : <<x, y>> \in R \/ <<y, x>> \in R,
         \A x, y, z \in S : <<x, y>> \in R /\ <<y, z>> \in R => <<x, z>> \in R
  PROVE  \E x \in S : \A y \in S : <<x, y>> \in R
<1> DEFINE Has(X) == \E x \in X : \A y \in X : <<x, y>> \in R
           Without == {X \in SUBSET S : X # {} /\ ~Has(X)}
<1> SUFFICES ASSUME ~Has(S) PROVE FALSE
  OBVIOUS
<1>1. S \in Without
  OBVIOUS
<1>2. Without \subseteq FiniteSubsetsOf(S)
  BY FS_FiniteSubsetsOfFinite
<1> HIDE DEF Without
<1>3. PICK X \in Without : \A Y \in Without : <<Y, X>> \notin StrictSubsetOrdering(S)
  BY <1>1, <1>2, FS_StrictSubsetOrderingWellFounded, WFMin
<1> USE DEF Without
<1>4. PICK a : a \in X
  OBVIOUS
<1> DEFINE Rest == X \ {a}
<1>5. Rest \in SUBSET S /\ Rest \subseteq X /\ Rest # X /\ X \in SUBSET S
  BY <1>4
<1>6. Rest \notin Without
  <2> HIDE DEF Rest, Without
  <2> QED BY <1>3, <1>5 DEF StrictSubsetOrdering
<1>7. <<a, a>> \in R
  BY <1>4
<1>8. CASE Rest = {}
  <2>1. \A y \in X : y = a
    BY <1>8
  <2> QED BY <1>4, <1>7, <2>1
<1>9. CASE Has(Rest)
  <2>1. PICK m \in Rest : \A y \in Rest : <<m, y>> \in R
    BY <1>9
  <2>2. CASE <<m, a>> \in R
    <3>1. \A y \in X : <<m, y>> \in R
      BY <2>1, <2>2
    <3> QED BY <2>1, <3>1
  <2>3. CASE <<a, m>> \in R
    <3>1. \A y \in X : <<a, y>> \in R
      BY <1>4, <1>5, <1>7, <2>1, <2>3
    <3> QED BY <1>4, <3>1
  <2> QED BY <1>4, <1>5, <2>1, <2>2, <2>3
<1> QED BY <1>5, <1>6, <1>8, <1>9

LEMMA Limits ==
  /\ IsFiniteSet(Groups) /\ Groups # {} /\ {Gyro, Calf} \subseteq Groups
  /\ \A g \in Groups : Limit[g] \in Nat /\ Limit[g] >= 1
BY Go2Assumption

LEMMA LongEnoughIs ==
  LongEnough \in Nat /\ \A g \in Groups : LongEnough >= Limit[g] + 2
<1> DEFINE R == {p \in Groups \X Groups : Limit[p[1]] >= Limit[p[2]]}
           S == {Limit[g] : g \in Groups}
<1>1. \A x, y \in Groups : <<x, y>> \in R <=> Limit[x] >= Limit[y]
  OBVIOUS
<1> HIDE DEF R
<1>2. \A x, y \in Groups : <<x, y>> \in R \/ <<y, x>> \in R
  <2>1. \A x, y \in Groups : Limit[x] >= Limit[y] \/ Limit[y] >= Limit[x]
    BY Limits
  <2> QED BY <1>1, <2>1
<1>3. \A x, y, z \in Groups : <<x, y>> \in R /\ <<y, z>> \in R => <<x, z>> \in R
  BY <1>1, Limits
<1>4. PICK g \in Groups : \A h \in Groups : <<g, h>> \in R
  BY <1>2, <1>3, Limits, GreatestExists
<1>5. Limit[g] \in S /\ \A y \in S : Limit[g] >= y
  BY <1>1, <1>4
<1>6. Max(S) \in S /\ \A y \in S : Max(S) >= y
  <2> HIDE DEF S
  <2> QED BY <1>5 DEF Max
<1>7. \A h \in Groups : Max(S) >= Limit[h]
  BY <1>6
<1>8. Max(S) \in Nat
  BY <1>6, Limits
<1> HIDE DEF S
<1>9. LongEnough = 2 + Max(S)
  BY DEF LongEnough, S
<1> QED BY <1>7, <1>8, <1>9, Limits

-----------------------------------------------------------------------------
(* The worst group. *)
RunsOf == [Groups -> Nat]

LEMMA WorstExists ==
  ASSUME NEW run \in RunsOf
  PROVE  \E g \in Groups : IsWorst(g, run)
<1> DEFINE R == {p \in Groups \X Groups : run[p[2]] * Limit[p[1]] <= run[p[1]] * Limit[p[2]]}
<1>1. \A x, y \in Groups : <<x, y>> \in R <=> run[y] * Limit[x] <= run[x] * Limit[y]
  OBVIOUS
<1>2. \A x \in Groups : run[x] \in Nat /\ Limit[x] \in Nat /\ Limit[x] >= 1
  BY Limits DEF RunsOf
<1> HIDE DEF R
<1>3. \A x, y \in Groups : <<x, y>> \in R \/ <<y, x>> \in R
  <2> SUFFICES ASSUME NEW x \in Groups, NEW y \in Groups
               PROVE  run[y] * Limit[x] <= run[x] * Limit[y]
                        \/ run[x] * Limit[y] <= run[y] * Limit[x]
    BY <1>1
  <2>1. run[y] * Limit[x] \in Int /\ run[x] * Limit[y] \in Int
    BY <1>2, Z3
  <2> QED BY <2>1
<1>4. \A x, y, z \in Groups : <<x, y>> \in R /\ <<y, z>> \in R => <<x, z>> \in R
  <2> SUFFICES ASSUME NEW x \in Groups, NEW y \in Groups, NEW z \in Groups,
                      run[y] * Limit[x] <= run[x] * Limit[y],
                      run[z] * Limit[y] <= run[y] * Limit[z]
               PROVE  run[z] * Limit[x] <= run[x] * Limit[z]
    BY <1>1
  <2>1. PICK a, b, c, i, j, k \in Nat :
          /\ a = run[x] /\ b = run[y] /\ c = run[z]
          /\ i = Limit[x] /\ j = Limit[y] /\ k = Limit[z]
    BY <1>2
  <2>2. j >= 1 /\ b * i <= a * j /\ c * j <= b * k
    BY <1>2, <2>1
  <2>3. (c * j) * i <= (b * k) * i /\ (b * i) * k <= (a * j) * k
    BY <2>2, Z3
  <2>4. (c * i) * j <= (a * k) * j
    BY <2>3, Z3
  <2>5. c * i <= a * k
    BY <2>2, <2>4, Z3
  <2> QED BY <2>1, <2>5
<1>5. PICK g \in Groups : \A h \in Groups : <<g, h>> \in R
  BY <1>3, <1>4, Limits, GreatestExists
<1> QED BY <1>1, <1>5 DEF IsWorst

LEMMA ActionType ==
  ASSUME NEW score \in 0 .. 100
  PROVE  SuggestedAction(score) \in AllowedActions
<1> USE DEF STATE_STOP, STATE_INTERVENE, STATE_DEGRADED, STATE_OK
<1>1. ScoreToState(score) \in {STATE_STOP, STATE_INTERVENE, STATE_DEGRADED, STATE_OK}
  BY DEF ScoreToState, STOP_THRESHOLD, INTERVENE_THRESHOLD, DEGRADED_THRESHOLD
<1> QED BY <1>1
        DEF SuggestedAction, AllowedActions, ACTION_NONE, ACTION_LOG_ONLY, ACTION_HOLD,
            ACTION_STOP_AND_HOLD, ACTION_REWIND

\* One verdict stands for all groups.
LEMMA VerdictIsExact ==
  ASSUME NEW run \in RunsOf
  PROVE  /\ StaleVerdict(run) # NoVerdict
         /\ StaleVerdict(run).violating <=> \E g \in Groups : Over(g, run)
<1> DEFINE worst == CHOOSE g \in Groups : IsWorst(g, run)
           q == (run[worst] * 100) \div (2 * Limit[worst])
           score == AtMost(100, q)
           v == [score |-> score, violating |-> Over(worst, run),
                 action |-> SuggestedAction(score)]
<1>1. worst \in Groups /\ IsWorst(worst, run)
  BY WorstExists
<1>2. StaleVerdict(run) = v
  BY DEF StaleVerdict
<1> HIDE DEF worst
<1>3. run[worst] \in Nat /\ Limit[worst] \in Nat /\ Limit[worst] >= 1
  BY <1>1, Limits DEF RunsOf
<1>4. score \in 0 .. 100
  <2>1. run[worst] * 100 \in Nat /\ 2 * Limit[worst] \in Nat /\ 2 * Limit[worst] > 0
    BY <1>3
  <2>2. q \in Nat
    BY <2>1, Z3
  <2> HIDE DEF q
  <2> QED BY <2>2 DEF AtMost
<1> HIDE DEF score
<1>5. v \in [score : 0 .. 100, violating : BOOLEAN, action : AllowedActions]
  <2>1. SuggestedAction(score) \in AllowedActions
    BY <1>4, ActionType
  <2>2. Over(worst, run) \in BOOLEAN
    BY DEF Over
  <2> QED BY <1>4, <2>1, <2>2
<1>6. v.violating <=> Over(worst, run)
  OBVIOUS
<1>7. ASSUME NEW g \in Groups, Over(g, run) PROVE Over(worst, run)
  <2>1. run[g] \in Nat /\ Limit[g] \in Nat /\ Limit[g] >= 1 /\ run[g] > Limit[g]
    BY <1>7, Limits DEF RunsOf, Over
  <2>2. run[g] * Limit[worst] <= run[worst] * Limit[g]
    BY <1>1 DEF IsWorst
  <2>3. PICK a, b, i, j \in Nat :
          a = run[g] /\ b = run[worst] /\ i = Limit[g] /\ j = Limit[worst]
    BY <1>3, <2>1
  <2>4. i >= 1 /\ j >= 1 /\ a >= i + 1 /\ a * j <= b * i
    BY <1>3, <2>1, <2>2, <2>3
  <2>5. (i + 1) * j <= a * j
    BY <2>4, Z3
  <2>6. (i + 1) * j = i * j + j
    BY Z3
  <2>7. b > j
    <3> SUFFICES ASSUME b <= j PROVE FALSE
      OBVIOUS
    <3>1. b * i <= j * i
      BY Z3
    <3>2. j * i = i * j /\ i * j \in Int /\ a * j \in Int /\ b * i \in Int
      BY Z3
    <3> QED BY <2>4, <2>5, <2>6, <3>1, <3>2
  <2> QED BY <2>3, <2>7 DEF Over
<1> HIDE DEF v
<1>8. v # NoVerdict
  BY <1>5, Go2Assumption
<1> QED BY <1>1, <1>2, <1>6, <1>7, <1>8

-----------------------------------------------------------------------------
(* The contents shown. *)
LEMMA RecentIs ==
  ASSUME NEW g \in Groups, NEW S, NEW c \in Seq(S), NEW x \in S, Len(c) <= Limit[g] + 2,
         NEW d, d = Recent(g, Append(c, x))
  PROVE  /\ d \in Seq(S) /\ Len(d) \in Nat
         /\ Len(d) = IF Len(c) = Limit[g] + 2 THEN Len(c) ELSE Len(c) + 1
         /\ \A j \in 0 .. Len(d) - 1 : Back(d, j) = IF j = 0 THEN x ELSE Back(c, j - 1)
<1> DEFINE a == Append(c, x)
           n == Len(c)
<1>0. d = Recent(g, a)
  OBVIOUS
<1>1. n \in Nat /\ Limit[g] \in Nat /\ Limit[g] >= 1
  BY LenProperties, Limits
<1>2. /\ a \in Seq(S) /\ Len(a) = n + 1 /\ a # <<>>
      /\ \A i \in 1 .. n : a[i] = c[i]
      /\ a[n + 1] = x
  BY AppendProperties
<1> HIDE DEF a
<1>3. CASE n = Limit[g] + 2
  <2>1. d = Tail(a)
    <3>1. Len(a) > Limit[g] + 2
      BY <1>1, <1>2, <1>3
    <3> QED BY <1>0, <3>1 DEF Recent
  <2>2. /\ Tail(a) \in Seq(S) /\ Len(Tail(a)) = n
        /\ \A i \in 1 .. n : Tail(a)[i] = a[i + 1]
    <3>1. /\ Tail(a) \in Seq(S) /\ Len(Tail(a)) = Len(a) - 1
          /\ \A i \in 1 .. Len(Tail(a)) : Tail(a)[i] = a[i + 1]
      BY <1>2, HeadTailProperties
    <3>2. Len(Tail(a)) = n
      BY <1>1, <1>2, <3>1
    <3> QED BY <3>1, <3>2
  <2>3. d \in Seq(S) /\ Len(d) = n /\ \A i \in 1 .. n : d[i] = a[i + 1]
    BY <2>1, <2>2
  <2>4. ASSUME NEW j \in 0 .. n - 1
        PROVE  Back(d, j) = IF j = 0 THEN x ELSE Back(c, j - 1)
    <3>1. n - j \in 1 .. n /\ Back(d, j) = a[n - j + 1]
      BY <1>1, <2>3 DEF Back
    <3>2. CASE j = 0
      BY <1>1, <1>2, <3>1, <3>2
    <3>3. CASE j > 0
      <4>1. n - j + 1 \in 1 .. n /\ n - (j - 1) = n - j + 1
        BY <1>1, <3>3
      <4> QED BY <1>2, <3>1, <3>3, <4>1 DEF Back
    <3> QED BY <3>2, <3>3
  <2> QED BY <1>1, <1>3, <2>3, <2>4
<1>4. CASE n # Limit[g] + 2
  <2>1. d = a
    BY <1>0, <1>1, <1>2, <1>4 DEF Recent
  <2>2. d \in Seq(S) /\ Len(d) = n + 1
    BY <1>2, <2>1
  <2>3. ASSUME NEW j \in 0 .. n
        PROVE  Back(d, j) = IF j = 0 THEN x ELSE Back(c, j - 1)
    <3>1. Back(d, j) = a[n + 1 - j]
      BY <1>1, <2>1, <2>2 DEF Back
    <3>2. CASE j = 0
      BY <1>1, <1>2, <3>1, <3>2
    <3>3. CASE j > 0
      <4>1. n + 1 - j \in 1 .. n /\ n - (j - 1) = n + 1 - j
        BY <1>1, <3>3
      <4> QED BY <1>2, <3>1, <3>3, <4>1 DEF Back
    <3> QED BY <3>2, <3>3
  <2> QED BY <1>1, <1>4, <2>2, <2>3
<1> QED BY <1>3, <1>4

LEMMA SteadyShifts ==
  ASSUME NEW c, NEW d, NEW n \in Nat, NEW k \in 2 .. n,
         \A j \in 0 .. n : Back(d, j) = IF j = 0 THEN Back(c, 0) ELSE Back(c, j - 1)
  PROVE  Steady(d, k) <=> Steady(c, k - 1)
<1>1. \A j \in 0 .. k - 1 : Back(d, j + 1) = Back(c, j)
  OBVIOUS
<1>2. Back(d, 0) = Back(c, 0)
  OBVIOUS
<1>3. Steady(d, k) => Steady(c, k - 1)
  <2>1. \A j \in 0 .. k - 1 : j + 1 \in 0 .. k
    OBVIOUS
  <2> QED BY <1>1, <1>2, <2>1 DEF Steady
<1>4. ASSUME Steady(c, k - 1), NEW j \in 0 .. k
      PROVE  Back(d, j) # NaN /\ Back(d, j) = Back(d, 0)
  <2>1. CASE j = 0
    BY <1>2, <1>4, <2>1 DEF Steady
  <2>2. CASE j > 0
    <3>1. j - 1 \in 0 .. k - 1 /\ Back(d, j) = Back(c, j - 1)
      BY <2>2
    <3> QED BY <1>2, <1>4, <3>1 DEF Steady
  <2> QED BY <2>1, <2>2
<1> QED BY <1>3, <1>4 DEF Steady

\* What a reading does to one group's run and history.
LEMMA CheckShows ==
  ASSUME Typed, NEW reading \in Reading, Check(reading), NEW g \in Groups, RunIsShown(g)
  PROVE  RunIsShown(g)'
<1> DEFINE S == Contents \cup {NaN}
           c == shown[g]
           x == reading[g]
           d == Recent(g, Append(c, x))
           n == Len(c)
           stale == prev # NoReading /\ Repeats(x, prev[g])
<1>1. /\ c \in Seq(S) /\ x \in S /\ n \in Nat /\ Limit[g] \in Nat /\ Limit[g] >= 1
      /\ runs[g] \in Nat
  BY LenProperties, Limits DEF Typed, Reading
<1>2. /\ n <= Limit[g] + 2 /\ (n = 0 <=> prev = NoReading) /\ (n = 0 => runs[g] = 0)
      /\ n > 0 => prev[g] = Back(c, 0)
      /\ n \in 1 .. Limit[g] + 1 => runs[g] < n
      /\ \A k \in 1 .. n - 1 : runs[g] >= k <=> Steady(c, k)
  BY DEF RunIsShown
<1>3. /\ shown'[g] = d /\ prev' = reading /\ reading # NoReading
      /\ runs'[g] = IF stale THEN AtMost(2 * Limit[g] + 1, runs[g] + 1) ELSE 0
  BY NoReadingAssumption DEF Check, Extended
<1>4. /\ d \in Seq(S) /\ Len(d) \in Nat
      /\ Len(d) = (IF n = Limit[g] + 2 THEN n ELSE n + 1)
      /\ \A j \in 0 .. Len(d) - 1 : Back(d, j) = IF j = 0 THEN x ELSE Back(c, j - 1)
  <2>1. c \in Seq(S) /\ x \in S /\ Len(c) <= Limit[g] + 2
    BY <1>1, <1>2
  <2>2. PICK e : e = d
    OBVIOUS
  <2>3. e = Recent(g, Append(c, x))
    BY <2>2
  <2>4. n = Len(c)
    OBVIOUS
  <2> HIDE DEF S, x, c, d, n
  <2>5. /\ e \in Seq(S) /\ Len(e) \in Nat
        /\ Len(e) = IF Len(c) = Limit[g] + 2 THEN Len(c) ELSE Len(c) + 1
        /\ \A j \in 0 .. Len(e) - 1 : Back(e, j) = IF j = 0 THEN x ELSE Back(c, j - 1)
    BY <2>1, <2>3, RecentIs
  <2> QED BY <2>2, <2>4, <2>5
<1> HIDE DEF c, x, d, S
<1>5. n \in Nat /\ n = Len(c)
  BY <1>1
<1> HIDE DEF n
<1>6. Len(d) > 0 /\ Len(d) <= Limit[g] + 2 /\ Back(d, 0) = x
  BY <1>1, <1>2, <1>4
<1>7. runs'[g] \in Nat
  BY <1>1, <1>3 DEF AtMost
<1>8. CASE stale
  <2>1. runs'[g] = AtMost(2 * Limit[g] + 1, runs[g] + 1)
    BY <1>3, <1>8
  <2>2. n > 0 /\ x # NaN /\ x = Back(c, 0)
    BY <1>1, <1>2, <1>8 DEF Repeats
  <2>3. Len(d) \in 1 .. Limit[g] + 1 => runs'[g] < Len(d)
    BY <1>1, <1>2, <1>4, <2>1, <2>2 DEF AtMost
  <2>4. \A j \in 0 .. Len(d) - 1 : Back(d, j) = IF j = 0 THEN Back(c, 0) ELSE Back(c, j - 1)
    BY <1>4, <2>2
  <2>5. ASSUME NEW k \in 1 .. Len(d) - 1
        PROVE  runs'[g] >= k <=> Steady(d, k)
    <3>1. CASE k = 1
      <4>1. runs'[g] >= 1
        BY <1>1, <2>1 DEF AtMost
      <4>2. Back(d, 0) = x /\ Back(d, 1) = x
        BY <1>4, <1>6, <2>2, <3>1
      <4>3. \A j \in 0 .. 1 : j = 0 \/ j = 1
        OBVIOUS
      <4>4. Steady(d, 1)
        BY <2>2, <4>2, <4>3 DEF Steady
      <4> QED BY <3>1, <4>1, <4>4
    <3>2. CASE k >= 2
      <4>1. k - 1 \in 1 .. n - 1 /\ k <= Limit[g] + 1
        BY <1>1, <1>2, <1>4, <1>5, <3>2
      <4>2. runs'[g] >= k <=> runs[g] >= k - 1
        BY <1>1, <2>1, <3>2, <4>1 DEF AtMost
      <4>3. runs[g] >= k - 1 <=> Steady(c, k - 1)
        BY <1>2, <4>1
      <4>4. Steady(d, k) <=> Steady(c, k - 1)
        <5>1. PICK m \in Nat : m = Len(d) - 1
          BY <1>4, <1>6
        <5>2. k \in 2 .. m
          BY <3>2, <5>1
        <5> QED BY <2>4, <5>1, <5>2, SteadyShifts
      <4> QED BY <4>2, <4>3, <4>4
    <3> QED BY <1>4, <3>1, <3>2
  <2> QED BY <1>3, <1>6, <2>3, <2>5 DEF RunIsShown, Back, Steady, x
<1>9. CASE ~stale
  <2>1. runs'[g] = 0
    BY <1>3, <1>9
  <2>2. ASSUME NEW k \in 1 .. Len(d) - 1
        PROVE  ~Steady(d, k)
    <3>1. n > 0 /\ 1 \in 0 .. k /\ 1 \in 0 .. Len(d) - 1
      BY <1>1, <1>4, <1>5
    <3>2. Back(d, 1) = Back(c, 0) /\ prev # NoReading /\ prev[g] = Back(c, 0)
      BY <1>2, <1>4, <1>5, <3>1
    <3>3. x = NaN \/ x # Back(c, 0)
      BY <1>9, <3>2 DEF Repeats
    <3>4. Back(d, 1) # Back(d, 0) \/ Back(d, 1) = NaN
      BY <1>6, <3>2, <3>3
    <3> QED BY <3>1, <3>4 DEF Steady
  <2>3. \A k \in 1 .. Len(d) - 1 : runs'[g] >= k <=> Steady(d, k)
    <3> SUFFICES ASSUME NEW k \in 1 .. Len(d) - 1 PROVE ~(0 >= k) /\ ~Steady(d, k)
      BY <2>1
    <3> QED BY <1>4, <2>2
  <2>4. Len(d) \in 1 .. Limit[g] + 1 => runs'[g] < Len(d)
    BY <1>4, <2>1
  <2> QED BY <1>3, <1>6, <2>3, <2>4 DEF RunIsShown, Back, Steady, x
<1> QED BY <1>8, <1>9

-----------------------------------------------------------------------------
(* The reading the next tick checks. *)
LEMMA NextInputType ==
  ASSUME Typed, FrozenByFault, latest # NoReading
  PROVE  NextInput \in Reading
<1>1. latest \in Reading /\ Gyro \in Groups /\ Calf \in Groups
  BY Limits DEF Typed
<1>2. ASSUME NEW r \in Reading, fault \in Held PROVE HeldInput(r) \in Reading
  <2>1. /\ r[Gyro] \in Contents \cup {NaN} /\ r[Calf] \in Contents \cup {NaN}
    BY <1>1, <1>2 DEF Reading
  <2>2. /\ [latest EXCEPT ![Gyro] = r[Gyro]] \in Reading
        /\ [latest EXCEPT ![Calf] = r[Calf]] \in Reading
    BY <1>1, <2>1 DEF Reading
  <2> QED BY <1>2, <2>2 DEF HeldInput, Held
<1>3. CASE program # "stale_monitor" /\ faultActive /\ fault \in Held
  <2> DEFINE r == IF frozen THEN frozenReading ELSE latest
  <2>1. r \in Reading
    BY <1>1, <1>3 DEF Typed, FrozenByFault
  <2>2. NextInput = HeldInput(r)
    BY <1>3 DEF NextInput
  <2> HIDE DEF r
  <2> QED BY <1>2, <1>3, <2>1, <2>2
<1>4. CASE ~(program # "stale_monitor" /\ faultActive /\ fault \in Held)
  <2>1. frozen /\ faultActive /\ fault \notin Held => input \in Reading
    BY <1>4 DEF Typed, FrozenByFault
  <2> QED BY <1>1, <1>4, <2>1 DEF NextInput
<1> QED BY <1>3, <1>4

\* A tick that publishes a verdict checks that reading, and the next tick
\* would check it again.
LEMMA TickChecks ==
  ASSUME Typed, FrozenByFault, MonitorTick \/ EmbedderTick,
         UNCHANGED <<config, faultActive, latest>>
  PROVE  /\ latest # NoReading /\ NextInput \in Reading
         /\ Check(NextInput) /\ NextInput' = NextInput
         /\ ~Stopped
<1>1. latest # NoReading /\ NextInput \in Reading
  BY NextInputType DEF MonitorTick, EmbedderTick
<1>2. CASE MonitorTick
  <2>1. NextInput = latest /\ NextInput' = latest /\ Check(latest) /\ fault = "none"
    BY <1>2 DEF MonitorTick, NextInput, FrozenByFault, config
  <2> QED BY <1>1, <2>1 DEF Stopped
<1>3. CASE EmbedderTick
  <2>1. program = "shadow_embedder" /\ program' = program /\ Check(input')
    BY <1>3 DEF EmbedderTick, config
  <2>2. CASE StepHeld
    <3>1. fault \in Held /\ faultActive /\ frozen' /\ fault # "stop"
      BY <2>2 DEF StepHeld, Held
    <3>2. frozenReading' = (IF frozen THEN frozenReading ELSE latest)
      BY <2>2 DEF StepHeld
    <3>3. input' = HeldInput(frozenReading')
      BY <2>2 DEF StepHeld
    <3>4. NextInput = HeldInput(IF frozen THEN frozenReading ELSE latest)
      BY <2>1, <3>1 DEF NextInput
    <3>5. NextInput' = HeldInput(frozenReading')
      BY <2>1, <3>1 DEF NextInput, HeldInput, config
    <3>6. input' = NextInput /\ NextInput' = NextInput
      BY <3>2, <3>3, <3>4, <3>5
    <3> QED BY <1>1, <2>1, <3>1, <3>6 DEF Stopped
  <2>3. CASE StepFreezeObs
    <3>1. input' = NextInput /\ NextInput' = NextInput /\ fault # "stop"
      BY <2>1, <2>3 DEF StepFreezeObs, NextInput, Held, config
    <3> QED BY <1>1, <2>1, <3>1 DEF Stopped
  <2>4. CASE StepLive
    <3>1. input' = NextInput /\ NextInput' = NextInput /\ ~faultActive
      BY <2>1, <2>4 DEF StepLive, NextInput
    <3> QED BY <1>1, <2>1, <3>1 DEF Stopped
  <2> QED BY <1>3, <2>2, <2>3, <2>4 DEF EmbedderTick
<1> QED BY <1>2, <1>3

\* What is checked again makes the run longer, up to saturation.
LEMMA RunGrows ==
  ASSUME Typed, NEW reading \in Reading, Check(reading), NEW g \in Groups,
         NEW t \in Nat, NEW u \in Nat, u <= t + 1,
         t >= 1 => prev # NoReading /\ prev[g] = reading[g] /\ LongRun(g, t)
  PROVE  LongRun(g, u)'
<1>1. /\ runs[g] \in Nat /\ Limit[g] \in Nat /\ Limit[g] >= 1
      /\ runs'[g] = Extended(g, prev # NoReading /\ Repeats(reading[g], prev[g]))
      /\ prev' = reading
  BY Limits DEF Typed, Check
<1>2. runs'[g] \in Nat
  BY <1>1 DEF Extended, AtMost
<1>3. SUFFICES ASSUME reading[g] # NaN
               PROVE  runs'[g] >= AtMost(2 * Limit[g] + 1, u - 1)
  BY <1>1 DEF LongRun
<1>4. CASE t = 0
  BY <1>1, <1>2, <1>4 DEF AtMost
<1>5. CASE t >= 1
  <2>1. runs[g] >= AtMost(2 * Limit[g] + 1, t - 1)
    BY <1>3, <1>5 DEF LongRun
  <2>2. runs'[g] = AtMost(2 * Limit[g] + 1, runs[g] + 1)
    BY <1>1, <1>3, <1>5 DEF Extended, Repeats
  <2> QED BY <1>1, <2>1, <2>2 DEF AtMost
<1> QED BY <1>4, <1>5

-----------------------------------------------------------------------------
(* Go2Inv is an invariant. *)
LEMMA Starts == Init => Go2Inv
<1> SUFFICES ASSUME Init PROVE Go2Inv
  OBVIOUS
<1>1. \A g \in Groups : shown[g] = <<>> /\ Len(shown[g]) = 0
  BY DEF Init
<1>2. Typed
  <2>1. <<>> \in Seq(Contents \cup {NaN})
    OBVIOUS
  <2>2. shown \in [Groups -> Seq(Contents \cup {NaN})]
    BY <2>1 DEF Init
  <2>3. fault \in Faults
    BY DEF Init, Faults
  <2>4. runs \in [Groups -> Nat] /\ \A g \in Groups : runs[g] <= 2 * Limit[g] + 1
    <3>1. \A g \in Groups : runs[g] = 0
      BY DEF Init
    <3> QED BY <3>1, Limits DEF Init
  <2>5. quietFor \in 0 .. LongEnough /\ faultFor \in 0 .. LongEnough
    BY LongEnoughIs DEF Init
  <2>6. faultActive \in BOOLEAN /\ frozen \in BOOLEAN
    BY DEF Init
  <2>7. {latest, frozenReading, input, prev} \subseteq Reading \cup {NoReading}
    BY DEF Init
  <2>8. program \in {"stale_monitor", "shadow_embedder"}
    BY DEF Init
  <2> QED BY <2>2, <2>3, <2>4, <2>5, <2>6, <2>7, <2>8 DEF Typed
<1>3. FrozenByFault
  BY DEF Init, FrozenByFault
<1>4. RunsAreShown
  <2> SUFFICES ASSUME NEW g \in Groups PROVE RunIsShown(g)
    BY DEF RunsAreShown
  <2>1. runs[g] = 0 /\ prev = NoReading /\ Limit[g] \in Nat
    BY Limits DEF Init
  <2> QED BY <1>1, <2>1 DEF RunIsShown
<1>5. Published /\ QuietRepeats /\ HeldRepeats
  BY DEF Init, Published, QuietRepeats, HeldRepeats
<1> QED BY <1>2, <1>3, <1>4, <1>5 DEF Go2Inv

LEMMA FaultTimeKeeps ==
  ASSUME Go2Inv, FaultTime PROVE Go2Inv'
<1> USE DEF Go2Inv
<1>1. /\ fault # "none" /\ ~faultActive /\ faultActive' /\ ~frozen
      /\ UNCHANGED <<program, fault, latest, frozen, frozenReading, input, prev, runs, shown,
                     verdict, quietFor, faultFor>>
  BY DEF FaultTime, FrozenByFault, config, stepper, adapter
<1>2. Typed'
  BY <1>1 DEF Typed
<1>3. FrozenByFault'
  BY <1>1 DEF FrozenByFault
<1>4. RunsAreShown'
  BY <1>1 DEF RunsAreShown, RunIsShown
<1>5. Published'
  BY <1>1 DEF Published
<1>6. QuietRepeats'
  <2> SUFFICES ASSUME latest # NoReading, fault # "stop", quietFor >= 1
               PROVE  QuietRepeats'
    BY <1>1 DEF QuietRepeats, Stopped
  <2>1. /\ prev = NextInput /\ verdict # NoVerdict
        /\ \A g \in Groups : LongRun(g, quietFor)
    BY <1>1 DEF QuietRepeats, Stopped
  <2>2. NextInput = latest
    BY <1>1 DEF NextInput
  <2>3. latest \in Reading
    BY DEF Typed
  <2>4. fault \in Held => HeldInput(latest)' = latest
    <3>1. [latest EXCEPT ![Gyro] = latest[Gyro]] = latest
          /\ [latest EXCEPT ![Calf] = latest[Calf]] = latest
      BY <2>3 DEF Reading
    <3> QED BY <1>1, <3>1 DEF HeldInput, Held
  <2>5. NextInput' = latest
    BY <1>1, <2>4 DEF NextInput
  <2> QED BY <1>1, <2>1, <2>2, <2>5 DEF QuietRepeats, LongRun
<1>7. HeldRepeats'
  BY <1>1 DEF HeldRepeats
<1> QED BY <1>2, <1>3, <1>4, <1>5, <1>6, <1>7

LEMMA LowStateKeeps ==
  ASSUME Go2Inv, LowState PROVE Go2Inv'
<1> USE DEF Go2Inv
<1>1. /\ latest' \in Reading /\ latest' # NoReading /\ quietFor' = 0
      /\ UNCHANGED <<program, fault, faultActive, frozen, frozenReading, input, prev, runs, shown,
                     verdict, faultFor>>
  BY NoReadingAssumption DEF LowState, config, stepper, adapter
<1>2. Typed'
  BY <1>1, LongEnoughIs DEF Typed
<1>3. FrozenByFault'
  BY <1>1 DEF FrozenByFault
<1>4. RunsAreShown'
  BY <1>1 DEF RunsAreShown, RunIsShown
<1>5. Published'
  BY <1>1 DEF Published
<1>6. QuietRepeats'
  BY <1>1 DEF QuietRepeats
<1>7. HeldRepeats'
  <2> SUFFICES ASSUME faultFor >= 1, NEW g \in HeldGroups
               PROVE  NextInput'[g] = NextInput[g]
    BY <1>1 DEF HeldRepeats, HeldGroups, LongRun
  <2>1. /\ frozen /\ faultActive /\ program = "shadow_embedder"
        /\ latest # NoReading /\ fault \in Held \cup {"freeze_obs"}
    BY DEF HeldRepeats, FrozenByFault
  <2>2. latest \in Reading /\ Gyro \in Groups /\ Calf \in Groups
    BY <2>1, Limits DEF Typed
  <2>3. CASE fault = "freeze_obs"
    BY <1>1, <2>1, <2>3 DEF NextInput, Held
  <2>4. CASE fault \in Held
    <3>1. NextInput = HeldInput(frozenReading) /\ NextInput' = HeldInput(frozenReading)'
      BY <1>1, <2>1, <2>4 DEF NextInput
    <3>2. CASE fault = "freeze_sensors"
      BY <1>1, <3>1, <3>2 DEF HeldInput
    <3>3. CASE fault = "gyro_stuck"
      <4>1. g = Gyro
        BY <3>3 DEF HeldGroups
      <4>2. /\ NextInput = [latest EXCEPT ![Gyro] = frozenReading[Gyro]]
            /\ NextInput' = [latest' EXCEPT ![Gyro] = frozenReading[Gyro]]
        BY <1>1, <3>1, <3>3 DEF HeldInput
      <4> QED BY <1>1, <2>2, <4>1, <4>2 DEF Reading
    <3>4. CASE fault = "joint_stuck"
      <4>1. g = Calf
        BY <3>4 DEF HeldGroups
      <4>2. /\ NextInput = [latest EXCEPT ![Calf] = frozenReading[Calf]]
            /\ NextInput' = [latest' EXCEPT ![Calf] = frozenReading[Calf]]
        BY <1>1, <3>1, <3>4 DEF HeldInput
      <4> QED BY <1>1, <2>2, <4>1, <4>2 DEF Reading
    <3> QED BY <2>4, <3>2, <3>3, <3>4 DEF Held
  <2> QED BY <2>1, <2>3, <2>4
<1> QED BY <1>2, <1>3, <1>4, <1>5, <1>6, <1>7

\* A tick that publishes nothing.
LEMMA QuietTickKeeps ==
  ASSUME Go2Inv, Wait \/ Silent, quietFor' = AtMost(LongEnough, quietFor + 1),
         UNCHANGED <<config, faultActive, latest>>
  PROVE  Go2Inv'
<1> USE DEF Go2Inv
<1>1. /\ UNCHANGED <<program, fault, faultActive, latest, frozen, frozenReading, input, prev,
                     runs, shown, faultFor>>
      /\ (latest = NoReading /\ verdict' = verdict) \/ (Stopped /\ verdict' = NoVerdict)
  BY DEF Wait, Silent, config, stepper, adapter
<1>2. quietFor' \in 0 .. LongEnough
  BY LongEnoughIs DEF Typed, AtMost
<1>3. Typed'
  BY <1>1, <1>2 DEF Typed
<1>4. FrozenByFault'
  BY <1>1 DEF FrozenByFault
<1>5. RunsAreShown'
  BY <1>1 DEF RunsAreShown, RunIsShown
<1>6. Published'
  BY <1>1 DEF Published
<1>7. QuietRepeats'
  BY <1>1 DEF QuietRepeats, Stopped
<1>8. HeldRepeats'
  <2>1. Stopped => faultFor = 0
    BY DEF HeldRepeats, FrozenByFault, Stopped, Held, Typed
  <2>2. NextInput' = NextInput
    BY <1>1 DEF NextInput, HeldInput
  <2>3. faultFor >= 1 => verdict' = verdict
    BY <1>1, <2>1
  <2>4. HeldGroups' = HeldGroups
    BY <1>1 DEF HeldGroups
  <2> QED BY <1>1, <2>2, <2>3, <2>4 DEF HeldRepeats, LongRun
<1> QED BY <1>3, <1>4, <1>5, <1>6, <1>7, <1>8

\* A tick that publishes a verdict.
LEMMA CheckingTickKeeps ==
  ASSUME Go2Inv, MonitorTick \/ EmbedderTick, quietFor' = AtMost(LongEnough, quietFor + 1),
         UNCHANGED <<config, faultActive, latest>>
  PROVE  Go2Inv'
<1> USE DEF Go2Inv
<1>1. /\ latest # NoReading /\ NextInput \in Reading
      /\ Check(NextInput) /\ NextInput' = NextInput
      /\ ~Stopped
  BY TickChecks
<1>2. UNCHANGED <<program, fault, faultActive, latest>>
  BY DEF config
<1>3. PICK reading \in Reading : reading = NextInput /\ Check(reading)
  BY <1>1
<1>4. /\ prev' = reading /\ prev' # NoReading /\ NextInput' = reading
      /\ verdict' = StaleVerdict(runs')
      /\ shown' = [g \in Groups |-> Recent(g, Append(shown[g], reading[g]))]
  BY <1>1, <1>3, NoReadingAssumption DEF Check
<1>5. runs' \in [Groups -> Nat] /\ \A g \in Groups : runs'[g] <= 2 * Limit[g] + 1
  <2> DEFINE extended == [g \in Groups |->
               Extended(g, prev # NoReading /\ Repeats(reading[g], prev[g]))]
  <2>1. runs' = extended
    BY <1>3 DEF Check
  <2>2. ASSUME NEW g \in Groups
        PROVE  extended[g] \in Nat /\ extended[g] <= 2 * Limit[g] + 1
    <3>1. runs[g] \in Nat /\ Limit[g] \in Nat
      BY Limits DEF Typed
    <3>2. extended[g] = Extended(g, prev # NoReading /\ Repeats(reading[g], prev[g]))
      OBVIOUS
    <3> QED BY <3>1, <3>2 DEF Extended, AtMost
  <2>3. extended \in [Groups -> Nat]
    BY <2>2
  <2> QED BY <2>1, <2>2, <2>3
<1>6. verdict' # NoVerdict
  <2>1. PICK run \in RunsOf : run = runs'
    BY <1>5 DEF RunsOf
  <2> QED BY <1>4, <2>1, VerdictIsExact
<1>7. RunsAreShown'
  <2>1. ASSUME NEW g \in Groups PROVE RunIsShown(g)'
    BY <1>3, CheckShows DEF RunsAreShown
  <2> QED BY <2>1 DEF RunsAreShown
<1>8. shown' \in [Groups -> Seq(Contents \cup {NaN})]
  <2> DEFINE S == Contents \cup {NaN}
  <2>1. ASSUME NEW g \in Groups PROVE Recent(g, Append(shown[g], reading[g])) \in Seq(S)
    <3>1. PICK c \in Seq(S) : c = shown[g]
      BY DEF Typed
    <3>2. PICK x \in S : x = reading[g]
      BY DEF Reading
    <3>3. Len(c) <= Limit[g] + 2
      BY <3>1 DEF RunsAreShown, RunIsShown
    <3>4. PICK d : d = Recent(g, Append(c, x))
      OBVIOUS
    <3> HIDE DEF S
    <3>5. d \in Seq(S)
      BY <3>3, <3>4, RecentIs
    <3> QED BY <3>1, <3>2, <3>4, <3>5
  <2> HIDE DEF S
  <2>2. shown' \in [Groups -> Seq(S)]
    BY <1>4, <2>1
  <2> QED BY <2>2 DEF S
<1>9. quietFor' \in 0 .. LongEnough /\ quietFor' <= quietFor + 1 /\ quietFor \in Nat
  BY LongEnoughIs DEF Typed, AtMost
<1>10. /\ faultFor' \in 0 .. LongEnough /\ faultFor' <= faultFor + 1 /\ faultFor \in Nat
       /\ faultFor' >= 1 => frozen'
  <2>1. faultFor \in 0 .. LongEnough
    BY DEF Typed
  <2>2. CASE MonitorTick
    <3>1. faultFor' = faultFor /\ frozen' = frozen
      BY <2>2 DEF MonitorTick, stepper
    <3> QED BY <2>1, <3>1, LongEnoughIs DEF HeldRepeats
  <2>3. CASE EmbedderTick
    <3>1. faultFor' = IF frozen' THEN AtMost(LongEnough, faultFor + 1) ELSE 0
      BY <2>3 DEF EmbedderTick
    <3> QED BY <2>1, <3>1, LongEnoughIs DEF AtMost
  <2> QED BY <2>2, <2>3
<1>11. /\ frozen' \in BOOLEAN
       /\ {frozenReading, input}' \subseteq Reading \cup {NoReading}
       /\ frozen' => /\ faultActive /\ program = "shadow_embedder"
                     /\ fault \in Held \cup {"freeze_obs"}
       /\ frozen' /\ fault \in Held => frozenReading' # NoReading
       /\ frozen' /\ fault = "freeze_obs" => input' # NoReading
  <2>1. CASE MonitorTick
    <3>1. UNCHANGED <<frozen, frozenReading, input>>
      BY <2>1 DEF MonitorTick, stepper
    <3> QED BY <3>1 DEF Typed, FrozenByFault
  <2>2. CASE EmbedderTick
    <3>1. program = "shadow_embedder" /\ input' = reading /\ reading # NoReading
      <4>1. Check(input')
        BY <2>2 DEF EmbedderTick
      <4>2. prev' = input'
        BY <4>1 DEF Check
      <4> QED BY <1>4, <2>2, <4>2 DEF EmbedderTick
    <3>2. latest \in Reading
      BY <1>1 DEF Typed
    <3>3. CASE StepHeld
      <4>1. /\ faultActive /\ fault \in Held /\ frozen' = TRUE
            /\ frozenReading' = IF frozen THEN frozenReading ELSE latest
        BY <3>3 DEF StepHeld
      <4>2. frozenReading' \in Reading
        BY <3>2, <4>1 DEF Typed, FrozenByFault
      <4> QED BY <3>1, <4>1, <4>2, NoReadingAssumption DEF Held
    <3>4. CASE StepFreezeObs
      BY <3>1, <3>4 DEF StepFreezeObs, Typed, Held
    <3>5. CASE StepLive
      BY <3>1, <3>5 DEF StepLive, Typed, FrozenByFault
    <3> QED BY <2>2, <3>3, <3>4, <3>5 DEF EmbedderTick
  <2> QED BY <2>1, <2>2
<1>12. Typed'
  <2>1. {latest, prev}' \subseteq Reading \cup {NoReading}
    BY <1>2, <1>4 DEF Typed
  <2>2. /\ (program \in {"stale_monitor", "shadow_embedder"})' /\ (fault \in Faults)'
        /\ (faultActive \in BOOLEAN)'
    BY <1>2 DEF Typed
  <2> QED BY <1>5, <1>8, <1>9, <1>10, <1>11, <2>1, <2>2 DEF Typed
<1>13. FrozenByFault'
  BY <1>1, <1>2, <1>11 DEF FrozenByFault
<1>14. Published'
  BY <1>4 DEF Published
<1>15. QuietRepeats'
  <2>1. ASSUME NEW g \in Groups, NEW u \in Nat, u = quietFor' PROVE LongRun(g, u)'
    <3>1. quietFor >= 1 => prev # NoReading /\ prev[g] = reading[g] /\ LongRun(g, quietFor)
      BY <1>1, <1>3, NoReadingAssumption DEF QuietRepeats
    <3>2. PICK t \in Nat : t = quietFor
      BY <1>9
    <3> QED BY <1>3, <1>9, <2>1, <3>1, <3>2, RunGrows
  <2>2. PICK u \in Nat : u = quietFor'
    BY <1>9
  <2> QED BY <1>4, <1>6, <2>1, <2>2 DEF QuietRepeats, LongRun
<1>16. HeldRepeats'
  <2>1. ASSUME NEW g \in HeldGroups, NEW u \in Nat, u = faultFor' PROVE LongRun(g, u)'
    <3>1. faultFor >= 1 => prev # NoReading /\ prev[g] = reading[g] /\ LongRun(g, faultFor)
      BY <1>3 DEF HeldRepeats
    <3>2. PICK t \in Nat : t = faultFor
      BY <1>10
    <3>3. g \in Groups
      BY Limits DEF HeldGroups, Typed, Faults, Held
    <3> QED BY <1>3, <1>10, <2>1, <3>1, <3>2, <3>3, RunGrows
  <2>2. PICK u \in Nat : u = faultFor'
    BY <1>10
  <2>3. HeldGroups' = HeldGroups
    BY <1>2 DEF HeldGroups
  <2> QED BY <1>4, <1>6, <1>10, <2>1, <2>2, <2>3 DEF HeldRepeats, LongRun
<1> QED BY <1>7, <1>12, <1>13, <1>14, <1>15, <1>16

LEMMA StutterKeeps ==
  ASSUME Go2Inv, UNCHANGED go2Vars PROVE Go2Inv'
<1>1. UNCHANGED <<program, fault, faultActive, latest, frozen, frozenReading, input, prev, runs,
                  shown, verdict, quietFor, faultFor>>
  BY DEF go2Vars, config, stepper, adapter
<1>2. Typed' /\ FrozenByFault' /\ RunsAreShown' /\ Published'
  BY <1>1 DEF Go2Inv, Typed, FrozenByFault, RunsAreShown, RunIsShown, Published
<1>3. NextInput' = NextInput /\ HeldGroups' = HeldGroups
  BY <1>1 DEF NextInput, HeldInput, HeldGroups
<1>4. QuietRepeats' /\ HeldRepeats'
  BY <1>1, <1>3 DEF Go2Inv, QuietRepeats, HeldRepeats, LongRun, Stopped
<1> QED BY <1>2, <1>4 DEF Go2Inv

LEMMA Go2Invariant == Spec => []Go2Inv
<1>1. Init => Go2Inv
  BY Starts
<1>2. Go2Inv /\ [Next]_go2Vars => Go2Inv'
  <2> SUFFICES ASSUME Go2Inv, [Next]_go2Vars PROVE Go2Inv'
    OBVIOUS
  <2>1. CASE FaultTime
    BY <2>1, FaultTimeKeeps
  <2>2. CASE LowState
    BY <2>2, LowStateKeeps
  <2>3. CASE Tick
    BY <2>3, QuietTickKeeps, CheckingTickKeeps DEF Tick
  <2>4. CASE UNCHANGED go2Vars
    BY <2>4, StutterKeeps
  <2> QED BY <2>1, <2>2, <2>3, <2>4 DEF Next
<1> QED BY <1>1, <1>2, PTL DEF Spec
-----------------------------------------------------------------------------
\* A run over the limit is a full history of one number.
LEMMA OverIsUnchanged ==
  ASSUME Go2Inv, NEW g \in Groups
  PROVE  Over(g, runs) <=> Unchanged(g)
<1> DEFINE c == shown[g]
           n == Limit[g] + 2
<1>1. /\ c \in Seq(Contents \cup {NaN}) /\ Len(c) \in Nat
      /\ Limit[g] \in Nat /\ Limit[g] >= 1 /\ runs[g] \in Nat
  BY LenProperties, Limits DEF Go2Inv, Typed
<1>2. /\ Len(c) <= n
      /\ Len(c) = 0 => runs[g] = 0
      /\ Len(c) \in 1 .. Limit[g] + 1 => runs[g] < Len(c)
      /\ \A k \in 1 .. Len(c) - 1 : runs[g] >= k <=> Steady(c, k)
  BY DEF Go2Inv, RunsAreShown, RunIsShown
<1>3. Unchanged(g) <=> Len(c) = n /\ \A i \in 1 .. n : c[i] # NaN /\ c[i] = c[1]
  BY DEF Unchanged
<1> HIDE DEF c
<1>4. CASE Len(c) < n
  BY <1>1, <1>2, <1>3, <1>4 DEF Over
<1>5. CASE Len(c) = n
  <2>1. Over(g, runs) <=> runs[g] >= Limit[g] + 1
    BY <1>1 DEF Over
  <2>2. runs[g] >= Limit[g] + 1 <=> Steady(c, Limit[g] + 1)
    <3>1. Limit[g] + 1 \in 1 .. Len(c) - 1
      BY <1>1, <1>5
    <3> QED BY <1>2, <3>1
  <2>3. ASSUME Steady(c, Limit[g] + 1), NEW i \in 1 .. n
        PROVE  c[i] # NaN /\ c[i] = c[1]
    <3>1. n - i \in 0 .. Limit[g] + 1 /\ n - 1 \in 0 .. Limit[g] + 1
          /\ n - (n - i) = i /\ n - (n - 1) = 1
      BY <1>1
    <3>2. Back(c, n - i) = c[i] /\ Back(c, n - 1) = c[1]
      BY <1>5, <3>1 DEF Back
    <3>3. \A j \in 0 .. Limit[g] + 1 : Back(c, j) # NaN /\ Back(c, j) = Back(c, 0)
      BY <2>3 DEF Steady
    <3> HIDE DEF n
    <3> QED BY <3>1, <3>2, <3>3
  <2>4. ASSUME \A i \in 1 .. n : c[i] # NaN /\ c[i] = c[1], NEW j \in 0 .. Limit[g] + 1
        PROVE  Back(c, j) # NaN /\ Back(c, j) = Back(c, 0)
    <3>1. n - j \in 1 .. n /\ n - 0 \in 1 .. n
      BY <1>1
    <3>2. Back(c, j) = c[n - j] /\ Back(c, 0) = c[n - 0]
      BY <1>5 DEF Back
    <3> HIDE DEF n
    <3> QED BY <2>4, <3>1, <3>2
  <2> QED BY <1>3, <1>5, <2>1, <2>2, <2>3, <2>4 DEF Steady
<1> QED BY <1>1, <1>2, <1>4, <1>5

LEMMA AlarmingIsOver ==
  ASSUME Go2Inv, verdict # NoVerdict
  PROVE  Alarming <=> \E g \in Groups : Over(g, runs)
<1>1. runs \in [Groups -> Nat]
  BY DEF Go2Inv, Typed
<1>2. verdict = StaleVerdict(runs)
  BY DEF Go2Inv, Published
<1>3. PICK run \in RunsOf : run = runs
  BY <1>1 DEF RunsOf
<1> QED BY <1>2, <1>3, VerdictIsExact DEF Alarming

\* A long run is over the limit.
LEMMA LongRunIsOver ==
  ASSUME Go2Inv, NEW g \in Groups, NEW ticks \in Nat, ticks > Limit[g] + 1,
         prev[g] # NaN, LongRun(g, ticks)
  PROVE  Over(g, runs)
<1>1. Limit[g] \in Nat /\ runs[g] \in Nat
  BY Limits DEF Go2Inv, Typed
<1> QED BY <1>1 DEF LongRun, AtMost, Over

(***************************************************************************)
(* StaleSignalAdapter's one verdict (adapters.cpp:317-337) violates        *)
(* exactly when some group was shown unchanged beyond its limit, for any   *)
(* groups and limits.                                                      *)
(***************************************************************************)
THEOREM StaleVerdictsAreExact == Spec => []StaleIsExact
<1>1. Go2Inv => StaleIsExact
  BY AlarmingIsOver, OverIsUnchanged DEF StaleIsExact
<1> QED BY <1>1, Go2Invariant, PTL

(***************************************************************************)
(* A robot that stops reporting alarms after the limit of each group that  *)
(* is a number, whatever the limits and whatever fault is injected.        *)
(***************************************************************************)
THEOREM SilenceAlarms == Spec => []SilenceSurfaces
<1>1. Go2Inv => SilenceSurfaces
  <2> SUFFICES ASSUME Go2Inv, latest # NoReading, ~Stopped, NEW g \in Groups,
                      quietFor > Limit[g] + 1, prev[g] # NaN
               PROVE  Alarming
    BY DEF SilenceSurfaces
  <2>1. quietFor \in Nat /\ quietFor >= 1 /\ Limit[g] \in Nat
    BY Limits, LongEnoughIs DEF Go2Inv, Typed
  <2>2. verdict # NoVerdict /\ LongRun(g, quietFor)
    BY <2>1 DEF Go2Inv, QuietRepeats
  <2> QED BY <2>1, <2>2, AlarmingIsOver, LongRunIsOver
<1> QED BY <1>1, Go2Invariant, PTL

(***************************************************************************)
(* A sensor that an injected fault holds is flagged within its group's     *)
(* limit, whatever the rest of the readings do meanwhile.                  *)
(***************************************************************************)
THEOREM HeldSensorsAlarm == Spec => []StuckIsFlagged
<1>1. Go2Inv => StuckIsFlagged
  <2> SUFFICES ASSUME Go2Inv, NEW g \in HeldGroups, faultFor > Limit[g] + 1, prev[g] # NaN
               PROVE  Alarming
    BY DEF StuckIsFlagged
  <2>1. g \in Groups
    BY Limits DEF HeldGroups, Go2Inv, Typed, Faults, Held
  <2>2. faultFor \in Nat /\ faultFor >= 1 /\ Limit[g] \in Nat
    BY <2>1, Limits, LongEnoughIs DEF Go2Inv, Typed
  <2>3. verdict # NoVerdict /\ LongRun(g, faultFor)
    BY <2>2 DEF Go2Inv, HeldRepeats
  <2> QED BY <2>1, <2>2, <2>3, AlarmingIsOver, LongRunIsOver
<1> QED BY <1>1, Go2Invariant, PTL
=============================================================================
