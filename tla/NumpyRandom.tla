---------------------------- MODULE NumpyRandom ------------------------------
(***************************************************************************)
(* The random numbers that must agree with NumPy draw for draw: which      *)
(* words of the generator each call consumes, and what is kept for the     *)
(* next call.  RandomState and Generator each own a stream of words, which *)
(* is external: a word is any value.  Arithmetic on doubles is left out; a *)
(* value drawn is named by the words it is made of.                        *)
(***************************************************************************)
EXTENDS Integers, Sequences, FiniteSets, SequencesExt

CONSTANTS WordBits,     \* the bits of a word, 32
          Population,   \* n of permutation and choice
          Ranges,       \* the low and high randint is called with
          NoValue,      \* has_gauss_ and has_u32_ unset
          MaxWords,     \* bound on the values of either stream
          MaxDraws      \* bound on the draws named

\* 2^k.
Power[k \in 0 .. WordBits] == IF k = 0 THEN 1 ELSE 2 * Power[k - 1]

ASSUME RandomAssumption ==
  /\ WordBits \in 1 .. 32 /\ Population \in Nat \ {0} /\ Population <= Power[WordBits]
  /\ \A r \in Ranges :
       r[1] \in Int /\ r[2] \in Int /\ r[1] < r[2] /\ r[2] - r[1] <= Power[WordBits]
  /\ {MaxWords, MaxDraws} \subseteq Nat

VARIABLES words,      \* words drawn from the legacy stream
          gaussKept,  \* gauss_, by the words of its pair
          longs,      \* 64-bit values drawn from PCG64
          halfKept,   \* u32_, by the value it is a half of
          drawn,      \* the values handed out, named (history)
          perm,       \* arr of the permutation being shuffled
          swapAt,     \* i
          picks       \* the intervals drawn for it (history)

randomVars == <<words, gaussKept, longs, halfKept, drawn, perm, swapAt, picks>>

Words == 0 .. Power[WordBits] - 1

Identity == [i \in 1 .. Population |-> i - 1]

RandomInit ==
  /\ words = 0 /\ gaussKept = NoValue /\ longs = 0 /\ halfKept = NoValue /\ drawn = <<>>
  /\ perm = Identity /\ swapAt = Population - 1 /\ picks = <<>>
-----------------------------------------------------------------------------
shuffling == <<perm, swapAt, picks>>

\* n words of the legacy stream, n values of PCG64.
Consume(n) == words + n <= MaxWords /\ words' = words + n

ConsumeLongs(n) == longs + n <= MaxWords /\ longs' = longs + n

Hand(value) == Len(drawn) < MaxDraws /\ drawn' = Append(drawn, value)

\* Mutated: the flag is left set.
GaussStale ==
  /\ gaussKept # NoValue
  /\ Hand(<<"gauss", gaussKept, "first">>)
  /\ UNCHANGED <<words, gaussKept>>

\* The second value of a pair is the next call's.
GaussFromKept ==
  /\ gaussKept # NoValue
  /\ Hand(<<"gauss", gaussKept, "first">>)
  /\ gaussKept' = NoValue
  /\ UNCHANGED words

\* Polar method: a pair takes two samples of two words.  The pairs outside
\* the circle before it are only consumed.
GaussPair ==
  /\ gaussKept = NoValue
  /\ \E outside \in 0 .. MaxWords : Consume(4 * (outside + 1))
  /\ gaussKept' = words'
  /\ Hand(<<"gauss", words', "second">>)

Gauss ==
  /\ GaussFromKept \/ GaussPair
  /\ UNCHANGED <<longs, halfKept, shuffling>>

\* PCG64: 32-bit draws take a 64-bit value in halves, low first; 64-bit
\* draws and doubles leave a kept half where it is.
NextU32 ==
  /\ \/ /\ halfKept # NoValue
        /\ Hand(<<"pcg", halfKept, "high">>)
        /\ halfKept' = NoValue /\ UNCHANGED longs
     \/ /\ halfKept = NoValue
        /\ ConsumeLongs(1) /\ halfKept' = longs'
        /\ Hand(<<"pcg", longs', "low">>)
  /\ UNCHANGED <<words, gaussKept, shuffling>>

NextU64 ==
  /\ ConsumeLongs(1)
  /\ Hand(<<"pcg", longs', "whole">>)
  /\ UNCHANGED <<words, gaussKept, halfKept, shuffling>>

\* The ziggurat: a value decides nearly always; at an edge one more accepts
\* it, or rejects both and the next is tried; in the tail pairs are drawn
\* until one accepts it.
StandardNormal ==
  /\ \E rejected \in 0 .. MaxWords,
        more \in {0, 1} \cup {2 * pairs : pairs \in 1 .. MaxWords} :
       /\ ConsumeLongs(2 * rejected + 1 + more)
       /\ Hand(<<"pcg", longs' - more, "whole">>)
  /\ UNCHANGED <<words, gaussKept, halfKept, shuffling>>
-----------------------------------------------------------------------------
\* The bits of n that are set, the lowest being 0.
Bits(n) == {b \in 0 .. WordBits - 1 : (n \div Power[b]) % 2 = 1}

\* mask |= mask >> s
OrShifted(mask, s) == mask \cup {b \in 0 .. WordBits - 1 : b + s \in mask}

\* Mutated: the shift by 2 is missing.
MaskOfFour(max) == OrShifted(OrShifted(OrShifted(OrShifted(Bits(max), 1), 4), 8), 16)

\* The bits of max, shifted over itself.  interval() has one shift more, by
\* 32, which moves no bit of a word.
MaskOf(max) ==
  OrShifted(OrShifted(OrShifted(OrShifted(OrShifted(Bits(max), 1), 2), 4), 8), 16)

\* The number with these bits.
NumberOf(bits) ==
  LET low[k \in 0 .. WordBits] ==
        IF k = 0 THEN 0 ELSE low[k - 1] + (IF k - 1 \in bits THEN Power[k - 1] ELSE 0)
  IN  low[WordBits]

\* Masked rejection: the bits of a word under the mask, if not above max.
Interval(max, word) == NumberOf(Bits(word) \cap MaskOf(max))

Swap(arr, i, j) == [arr EXCEPT ![i] = arr[j], ![j] = arr[i]]

\* One step of the shuffle, and a word it rejects.
Shuffle ==
  /\ swapAt > 0
  /\ \E word \in Words :
       /\ Consume(1)
       /\ LET j == Interval(swapAt, word)
          IN  IF j > swapAt
              THEN UNCHANGED shuffling
              ELSE /\ perm' = Swap(perm, j + 1, swapAt + 1)
                   /\ picks' = Append(picks, j)
                   /\ swapAt' = swapAt - 1
  /\ UNCHANGED <<gaussKept, longs, halfKept, drawn>>

\* choice without replacement: a first part of the permutation.
Choice(size) == SubSeq(perm, 1, size)

\* randint of one value: a range of one draws nothing; the words above the
\* range are drawn and rejected, a range of all words having none.
RandInt ==
  /\ \E r \in Ranges, rejected \in 0 .. MaxWords :
       LET range == r[2] - 1 - r[1]
       IN  /\ range > 0
           /\ Consume(rejected + 1)
           /\ Hand(<<"int", words', "whole">>)
           /\ rejected > 0 => \E word \in Words : Interval(range, word) > range
  /\ UNCHANGED <<gaussKept, longs, halfKept, shuffling>>

RandomNext ==
  \/ Gauss \/ NextU32 \/ NextU64 \/ StandardNormal
  \/ Shuffle \/ RandInt

RandomSpec == RandomInit /\ [][RandomNext]_randomVars
-----------------------------------------------------------------------------
(***************************************************************************)
(* No word is handed out twice, however calls that keep half of a value    *)
(* and calls that do not are mixed, and a kept half is one that is still   *)
(* due (numpy_random.cpp:144-162, 177-212, 258-279).                       *)
(***************************************************************************)
DrawsAreFresh ==
  /\ \A i, j \in DOMAIN drawn :
       (i # j /\ drawn[i][1] = drawn[j][1] /\ drawn[i][2] = drawn[j][2]) =>
         /\ drawn[i][3] # drawn[j][3] /\ "whole" \notin {drawn[i][3], drawn[j][3]}
  /\ gaussKept # NoValue => <<"gauss", gaussKept, "first">> \notin Range(drawn)
  /\ halfKept # NoValue => <<"pcg", halfKept, "high">> \notin Range(drawn)

\* Every number of a range is reached by as many words.
FairRange(max) ==
  LET WordsFor(k) == Cardinality({w \in Words : Interval(max, w) = k})
  IN  \A k \in 0 .. max : WordsFor(k) = WordsFor(0) /\ WordsFor(k) > 0

RangesFair == \A max \in Words : FairRange(max)

\* The shuffle that leads to a finished permutation, read off it: what each
\* step leaves in its last place is final.
Undone(final, state, i) ==
  LET j == CHOOSE k \in 1 .. i + 1 : state.arr[k] = final[i + 1]
  IN  [arr |-> Swap(state.arr, j, i + 1), picks |-> Append(state.picks, j - 1)]

Undo(final) ==
  LET undo[n \in 0 .. Population - 1] ==
        IF n = 0 THEN [arr |-> Identity, picks |-> <<>>]
        ELSE Undone(final, undo[n - 1], Population - n)
  IN  undo

(***************************************************************************)
(* The shuffle is fair: in every range each number is reached by as many   *)
(* words as any other, and by one; different picks lead to different       *)
(* permutations; and a sample drawn from one has no element twice          *)
(* (numpy_random.cpp:281-309, 345-380).                                    *)
(***************************************************************************)
ShuffleIsFair ==
  /\ RangesFair
  /\ swapAt = 0 => Undo(perm)[Population - 1].picks = picks
  /\ \A size \in 1 .. Population : Cardinality(Range(Choice(size))) = size
=============================================================================
