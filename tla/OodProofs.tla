------------------------------ MODULE OodProofs ------------------------------
(***************************************************************************)
(* Proofs about the OOD core, for every window, gate, hysteresis run,      *)
(* buffer limit, and every set of frames, spreads and thresholds: its      *)
(* types, the bounds of the ring, the ring as a sliding window, and when   *)
(* its alarms and bad-input verdicts come, as the observer counts frames.  *)
(***************************************************************************)
EXTENDS OodHistory, SequenceTheorems, TLAPS

\* The largest frame the buffer has room for.
Room == MaxWindowFloats \div Window

(***************************************************************************)
(* RingFits as it is inductive: the pinned dimension has room at all       *)
(* times.  InOrder places the next slot while the window fills: the slots  *)
(* from 0 up to it hold the frames of the episode.                         *)
(***************************************************************************)
Fits == dim <= Room /\ (filled > 0 => ringDim = dim)

InOrder == filled < Window => nextSlot = filled

RingInv == TypeOK /\ Fits /\ InOrder

-----------------------------------------------------------------------------
(* Arithmetic. *)

(* A share of a positive whole, in hundredths.                             *)
LEMMA Hundredths ==
  ASSUME NEW t \in Int, NEW s \in Nat, s < t
  PROVE  ((t - s) * 100) \div t \in 0 .. 100
<1> DEFINE q == ((t - s) * 100) \div t
<1>1. t > 0
  OBVIOUS
<1>2. (t - s) * 100 \in 0 .. 100 * t
  OBVIOUS
<1>3. q \in Int /\ t * q <= (t - s) * 100 /\ (t - s) * 100 < t * (q + 1)
  BY <1>1, Z3
<1> QED BY <1>1, <1>2, <1>3, Z3

LEMMA RoomType == Room \in Nat /\ EmbedDims \subseteq 0 .. Room
<1>1. Window \in Nat /\ Window > 0 /\ MaxWindowFloats \in Nat
  BY OodAssumption
<1>2. Room \in Nat
  BY <1>1, Z3 DEF Room
<1> QED BY <1>2, OodAssumption DEF Room

(* Indices of the ring: once around at most.                               *)
LEMMA AroundOnce ==
  ASSUME NEW size \in Nat \ {0}, NEW x \in 0 .. 2 * size - 1
  PROVE  x % size = IF x < size THEN x ELSE x - size
<1>1. CASE x \in 0 .. size - 1
  BY <1>1, Z3
<1>2. CASE x \in size .. 2 * size - 1
  BY <1>2, Z3
<1> QED BY <1>1, <1>2

LEMMA Around ==
  ASSUME NEW x \in 0 .. 2 * Window - 1
  PROVE  x % Window = IF x < Window THEN x ELSE x - Window
<1>1. Window \in Nat \ {0}
  BY OodAssumption
<1> QED BY <1>1, AroundOnce

LEMMA NextSlotIs ==
  ASSUME NEW slot \in Slots
  PROVE  NextSlot(slot) = IF slot = Window - 1 THEN 0 ELSE slot + 1
BY Around, OodAssumption DEF NextSlot, Slots

-----------------------------------------------------------------------------
(* Verdicts. *)

LEMMA ScoreType ==
  ASSUME threshold \in Thresholds, NEW spread \in Nat, Below(spread)
  PROVE  Score(spread) \in (0 .. 100) \cup {NonFinite}
BY OodAssumption, Hundredths DEF Score, Below

LEMMA FixedVerdicts == {BadInput, WarmingUp} \subseteq OodVerdict
BY DEF BadInput, WarmingUp, Quiet, OodVerdict, BAD_INPUT_SCORE, AllowedActions,
       ACTION_NONE, ACTION_REWIND

LEMMA AlarmActionType ==
  ASSUME NEW score \in (0 .. 100) \cup {NonFinite}
  PROVE  AlarmAction(score) \in AllowedActions
<1> USE DEF AllowedActions, ACTION_NONE, ACTION_LOG_ONLY, ACTION_HOLD,
            ACTION_STOP_AND_HOLD, ACTION_REWIND
<1>1. CASE score = NonFinite
  BY <1>1, NonFiniteAssumption DEF AlarmAction
<1>2. CASE score \in 0 .. 100
  BY <1>2, NonFiniteAssumption
     DEF AlarmAction, STOP_THRESHOLD, INTERVENE_THRESHOLD
<1> QED BY <1>1, <1>2

LEMMA VerdictType ==
  ASSUME threshold \in Thresholds, NEW spread \in Nat, NEW fired \in BOOLEAN
  PROVE  MakeVerdict(spread, fired) \in OodVerdict
<1> USE DEF OodVerdict, Quiet, AllowedActions, ACTION_NONE, ACTION_REWIND
<1>1. CASE ~Below(spread)
  BY <1>1 DEF MakeVerdict
<1>2. CASE Below(spread) /\ (~fired \/ BelowFloor(Score(spread)))
  BY <1>2, ScoreType DEF MakeVerdict
<1>3. CASE Below(spread) /\ fired /\ ~BelowFloor(Score(spread))
  <2>1. Score(spread) \in (0 .. 100) \cup {NonFinite}
    BY <1>3, ScoreType
  <2>2. AlarmAction(Score(spread)) \in AllowedActions
    BY <2>1, AlarmActionType
  <2> QED BY <1>3, <2>1, <2>2 DEF MakeVerdict, Alarm
<1> QED BY <1>1, <1>2, <1>3

-----------------------------------------------------------------------------
(* What one accepted frame does to the ring, in its four cases.            *)
LEMMA Accepting ==
  ASSUME RingInv, NEW f \in Frame, ~Refused(f), Appended(f)
  PROVE  /\ f.size \in Sizes /\ f.size \in Nat /\ f.size <= Room
         /\ f.content \in Contents \cup {Blank}
         /\ Pinned => f.size = dim
         /\ nextSlot \in Slots /\ filled \in 0 .. Window
<1>1. f.size \in Sizes /\ f.content \in Contents \cup {Blank}
  BY DEF Frame
<1>2. dim <= Room /\ nextSlot \in Slots /\ filled \in 0 .. Window
  BY DEF RingInv, Fits, TypeOK
<1>3. f.size \in Nat /\ (~Pinned => f.size <= Room)
  <2>1. ~Pinned => ~(f.size > Room)
    BY DEF Refused, Room
  <2>2. f.size \in Nat
    BY <1>1, OodAssumption
  <2> QED BY <2>1, <2>2, RoomType
<1> QED BY <1>1, <1>2, <1>3 DEF Refused

LEMMA AcceptingKeepsRing ==
  ASSUME RingInv, NEW f \in Frame, ~Refused(f), Appended(f)
  PROVE  /\ dim' \in Sizes \cup EmbedDims \cup {0} /\ ringDim' \in Sizes \cup {0}
         /\ ring' \in [Slots -> Contents \cup {Blank}]
         /\ nextSlot' \in Slots /\ filled' \in 0 .. Window
         /\ phase' \in 0 .. ComputeEvery - 1
         /\ Fits' /\ InOrder'
<1> DEFINE slot == IF StartsOver(f) THEN 0 ELSE nextSlot
           kept == IF StartsOver(f) THEN 0 ELSE filled
<1>1. /\ dim' = f.size /\ ringDim' = f.size
      /\ ring' = [Allocated(f) EXCEPT ![slot] = f.content]
      /\ nextSlot' = NextSlot(slot)
      /\ filled' = IF kept < Window THEN kept + 1 ELSE kept
      /\ phase' = ((IF StartsOver(f) THEN 0 ELSE phase) + 1) % ComputeEvery
  BY DEF Appended
<1>2. slot \in Slots /\ kept \in 0 .. Window /\ (kept < Window => slot = kept)
  <2>1. 0 \in Slots /\ 0 \in 0 .. Window /\ 0 < Window
    BY OodAssumption DEF Slots
  <2>2. nextSlot \in Slots /\ filled \in 0 .. Window /\ (filled < Window => nextSlot = filled)
    BY Accepting DEF RingInv, InOrder
  <2>3. CASE StartsOver(f)
    BY <2>1, <2>3
  <2>4. CASE ~StartsOver(f)
    BY <2>2, <2>4
  <2> QED BY <2>3, <2>4
<1>3. Allocated(f) \in [Slots -> Contents \cup {Blank}]
  BY DEF Allocated, RingInv, TypeOK
<1>4. ring' \in [Slots -> Contents \cup {Blank}]
  BY <1>1, <1>2, <1>3, Accepting
<1>5. nextSlot' = (IF slot = Window - 1 THEN 0 ELSE slot + 1) /\ nextSlot' \in Slots
  <2> HIDE DEF slot
  <2>1. nextSlot' = (IF slot = Window - 1 THEN 0 ELSE slot + 1)
    BY <1>1, <1>2, NextSlotIs
  <2> QED BY <2>1, <1>2, OodAssumption DEF Slots
<1>6. phase' \in 0 .. ComputeEvery - 1
  <2>1. ComputeEvery \in Nat /\ ComputeEvery > 0
    BY OodAssumption
  <2>2. phase \in Nat
    BY <2>1 DEF RingInv, TypeOK
  <2>3. \A x \in Nat : x % ComputeEvery \in 0 .. ComputeEvery - 1
    BY <2>1, Z3
  <2> QED BY <1>1, <2>2, <2>3
<1>7. Fits'
  BY <1>1, Accepting DEF Fits
<1>8. InOrder' /\ filled' \in 0 .. Window
  <2> HIDE DEF slot, kept
  <2>1. filled' \in 0 .. Window
    BY <1>1, <1>2, OodAssumption
  <2>2. ASSUME filled' < Window PROVE nextSlot' = filled'
    BY <2>2, <1>1, <1>2, <1>5, OodAssumption DEF Slots
  <2> QED BY <2>1, <2>2 DEF InOrder
<1> QED BY <1>1, <1>4, <1>5, <1>6, <1>7, <1>8, Accepting

(* The two values an update computes beside the ring.                      *)
LEMMA RunType ==
  ASSUME RingInv, NEW low \in BOOLEAN
  PROVE  Extended(low) \in 0 .. MinConsecutive
BY OodAssumption DEF RingInv, TypeOK, Extended

LEMMA SpreadType == Spreads \cup {0} \subseteq Nat
BY OodAssumption

LEMMA InitRing == Init => RingInv
<1> SUFFICES ASSUME Init PROVE RingInv
  OBVIOUS
<1> USE OodAssumption DEF Init, InitCore
<1>1. TypeOK
  BY DEF TypeOK, Slots
<1>2. Fits /\ InOrder
  BY RoomType DEF Fits, InOrder
<1> QED BY <1>1, <1>2 DEF RingInv

LEMMA StepRing == RingInv /\ [Next]_oodVars => RingInv'
<1> SUFFICES ASSUME RingInv, [Next]_oodVars PROVE RingInv'
  OBVIOUS
<1> USE DEF RingInv
<1>1. ASSUME NEW f \in Frame, Reject(f) PROVE RingInv'
  BY <1>1, FixedVerdicts DEF Reject, TypeOK, Fits, InOrder, config, bufferVars
<1>2. ASSUME NEW f \in Frame, WarmUp(f) PROVE RingInv'
  BY <1>2, FixedVerdicts, AcceptingKeepsRing, OodAssumption DEF WarmUp, TypeOK, config
<1>3. ASSUME NEW f \in Frame, Replay(f) PROVE RingInv'
  BY <1>3, AcceptingKeepsRing DEF Replay, Skipped, TypeOK, config
<1>4. ASSUME NEW f \in Frame, JudgePoison(f) PROVE RingInv'
  BY <1>4, FixedVerdicts, AcceptingKeepsRing DEF JudgePoison, Computes, TypeOK, config
<1>5. ASSUME NEW f \in Frame, NEW spread \in Spreads \cup {0}, JudgeSpread(f, spread)
      PROVE  RingInv'
  <2>1. run' \in 0 .. MinConsecutive
    BY <1>5, RunType DEF JudgeSpread, Below
  <2>2. MakeVerdict(spread, run' >= MinConsecutive) \in OodVerdict
    <3>1. spread \in Nat /\ threshold \in Thresholds
      BY SpreadType DEF TypeOK
    <3>2. (run' >= MinConsecutive) \in BOOLEAN
      BY <2>1, OodAssumption
    <3> QED BY <3>1, <3>2, VerdictType
  <2> QED BY <1>5, <2>1, <2>2, AcceptingKeepsRing DEF JudgeSpread, Computes, TypeOK, config
<1>6. CASE Reset
  BY <1>6, RoomType, OodAssumption DEF Reset, TypeOK, Fits, InOrder, Slots, config
<1>7. CASE SetThreshold
  BY <1>7 DEF SetThreshold, TypeOK, Fits, InOrder, bufferVars
<1>8. CASE UNCHANGED oodVars
  BY <1>8 DEF oodVars, config, bufferVars, TypeOK, Fits, InOrder
<1> QED BY <1>1, <1>2, <1>3, <1>4, <1>5, <1>6, <1>7, <1>8 DEF Next, Update

LEMMA AlwaysRing == Spec => []RingInv
BY InitRing, StepRing, PTL DEF Spec

(* The core keeps its types: scores in range or non-finite, counters and   *)
(* slots within their bounds, whatever is fed to it.                       *)
THEOREM TypeCorrect == Spec => []TypeOK
<1>1. RingInv => TypeOK
  BY DEF RingInv
<1> QED BY AlwaysRing, <1>1, PTL

(* Every copy into the ring stays inside the buffer.                       *)
THEOREM RingAlwaysFits == Spec => []RingFits
<1>1. RingInv => RingFits
  BY DEF RingInv, Fits, RingFits, Room
<1> QED BY AlwaysRing, <1>1, PTL

-----------------------------------------------------------------------------
(* The ring as a window: where its i-th oldest frame is.                   *)
SlotOf(i) ==
  IF filled < Window THEN i - 1
  ELSE IF nextSlot + i <= Window THEN nextSlot + i - 1 ELSE nextSlot + i - 1 - Window

LEMMA WindowAt ==
  ASSUME RingInv, NEW i \in 1 .. filled
  PROVE  SlotOf(i) \in Slots /\ WindowFrames[i] = ring[SlotOf(i)]
<1>1. /\ Window \in Nat /\ Window >= 2 /\ filled \in 0 .. Window
      /\ nextSlot \in 0 .. Window - 1 /\ (filled < Window => nextSlot = filled)
  BY OodAssumption DEF RingInv, TypeOK, InOrder, Slots
<1> DEFINE x == nextSlot + Window - filled + i - 1
<1>2. x \in 0 .. 2 * Window - 1
  BY <1>1
<1>3. x % Window = IF x < Window THEN x ELSE x - Window
  BY <1>2, Around
<1>4. x % Window = SlotOf(i) /\ SlotOf(i) \in 0 .. Window - 1
  BY <1>1, <1>2, <1>3 DEF SlotOf
<1> QED BY <1>4 DEF WindowFrames, Slots

LEMMA WindowType ==
  ASSUME RingInv
  PROVE  /\ WindowFrames \in Seq(Contents \cup {Blank})
         /\ Len(WindowFrames) = filled
<1>1. filled \in Nat
  BY DEF RingInv, TypeOK
<1>2. \A i \in 1 .. filled : WindowFrames[i] \in Contents \cup {Blank}
  BY WindowAt DEF RingInv, TypeOK
<1>3. WindowFrames = [i \in 1 .. filled |-> WindowFrames[i]]
  BY DEF WindowFrames
<1>4. WindowFrames \in [1 .. filled -> Contents \cup {Blank}]
  BY <1>2, <1>3
<1> QED BY <1>1, <1>4, SeqDef

(* Both, as implications, so that they can be said of the next state.      *)
LEMMA WindowIs ==
  RingInv =>
    /\ \A i \in 1 .. filled : SlotOf(i) \in Slots /\ WindowFrames[i] = ring[SlotOf(i)]
    /\ WindowFrames \in Seq(Contents \cup {Blank})
    /\ Len(WindowFrames) = filled
BY WindowAt, WindowType

LEMMA NextWindowIs ==
  (RingInv =>
     /\ \A i \in 1 .. filled : SlotOf(i) \in Slots /\ WindowFrames[i] = ring[SlotOf(i)]
     /\ WindowFrames \in Seq(Contents \cup {Blank})
     /\ Len(WindowFrames) = filled)'
BY WindowIs, PTL

LEMMA NextWindowAt ==
  ASSUME RingInv', NEW i \in 1 .. filled'
  PROVE  WindowFrames'[i] = ring'[SlotOf(i)']
BY NextWindowIs

LEMMA NextWindowType ==
  ASSUME RingInv'
  PROVE  /\ WindowFrames' \in Seq(Contents \cup {Blank})
         /\ Len(WindowFrames') = filled'
BY NextWindowIs

(* The first frame with content: a window of that frame alone.             *)
LEMMA FirstFrame ==
  ASSUME RingInv, RingInv', NEW f \in Frame, ~Refused(f), Appended(f),
         ~Pinned, f.size > 0
  PROVE  WindowFrames' = <<f.content>>
<1>1. filled \in 0 .. Window /\ Window >= 2 /\ Window \in Nat /\ 0 \in Slots
  BY OodAssumption DEF RingInv, TypeOK, Slots
<1>2. (IF StartsOver(f) THEN 0 ELSE nextSlot) = 0 /\ (IF StartsOver(f) THEN 0 ELSE filled) = 0
  BY <1>1 DEF StartsOver, RingInv, InOrder
<1> DEFINE slot == IF StartsOver(f) THEN 0 ELSE nextSlot
           kept == IF StartsOver(f) THEN 0 ELSE filled
<1>3. ring' = [Allocated(f) EXCEPT ![0] = f.content] /\ filled' = 1
  <2>1. /\ ring' = [Allocated(f) EXCEPT ![slot] = f.content]
        /\ filled' = IF kept < Window THEN kept + 1 ELSE kept
    BY DEF Appended
  <2>2. slot = 0 /\ kept = 0
    BY <1>2
  <2> HIDE DEF slot, kept
  <2> QED BY <1>1, <2>1, <2>2
<1>4. SlotOf(1)' = 0
  BY <1>1, <1>3 DEF SlotOf
<1>5. WindowFrames'[1] = ring'[0]
  BY <1>3, <1>4, NextWindowAt
<1>6. ring'[0] = f.content
  BY <1>1, <1>3 DEF Allocated, RingInv, TypeOK
<1>7. Len(WindowFrames') = 1 /\ WindowFrames' \in Seq(Contents \cup {Blank})
  BY <1>3, NextWindowType
<1> QED BY <1>5, <1>6, <1>7

(* A frame of the window's own size while the window fills.                *)
LEMMA FillingWindow ==
  ASSUME RingInv, RingInv', NEW f \in Frame, ~Refused(f), Appended(f),
         Pinned \/ f.size = 0, filled < Window
  PROVE  WindowFrames' = Append(WindowFrames, f.content)
<1> DEFINE C == Contents \cup {Blank}
<1>1. /\ Window \in Nat /\ Window >= 2 /\ filled \in Nat
      /\ nextSlot = filled /\ filled \in Slots
  BY OodAssumption DEF RingInv, TypeOK, InOrder, Slots
<1>2. ~StartsOver(f)
  BY DEF StartsOver
<1>3. f.size = dim
  BY Accepting, RoomType DEF Pinned, RingInv, TypeOK
<1>4. filled > 0 => Allocated(f) = ring
  BY <1>3 DEF Allocated, RingInv, Fits
<1>5. /\ ring' = [Allocated(f) EXCEPT ![filled] = f.content]
      /\ filled' = filled + 1 /\ nextSlot' = NextSlot(filled)
  BY <1>1, <1>2 DEF Appended
<1>6. nextSlot' = IF filled = Window - 1 THEN 0 ELSE filled + 1
  BY <1>1, <1>5, NextSlotIs
<1>7. Allocated(f) \in [Slots -> C]
  BY DEF Allocated, RingInv, TypeOK
<1>8. f.content \in C
  BY Accepting
<1>9. \A i \in 1 .. filled + 1 : SlotOf(i)' = i - 1
  BY <1>1, <1>5, <1>6 DEF SlotOf
<1>10. \A i \in 1 .. filled : WindowFrames'[i] = WindowFrames[i]
  <2> SUFFICES ASSUME NEW i \in 1 .. filled PROVE WindowFrames'[i] = WindowFrames[i]
    OBVIOUS
  <2>1. i \in 1 .. filled' /\ i - 1 \in Slots /\ i - 1 # filled /\ filled > 0
    BY <1>1, <1>5 DEF Slots
  <2>2. WindowFrames'[i] = ring'[i - 1]
    BY <1>1, <1>5, <1>9, <2>1, NextWindowAt
  <2>3. ring'[i - 1] = ring[i - 1]
    BY <1>4, <1>5, <1>7, <2>1
  <2>4. WindowFrames[i] = ring[i - 1]
    BY WindowAt DEF SlotOf
  <2> QED BY <2>2, <2>3, <2>4
<1>11. WindowFrames'[filled + 1] = f.content
  <2> SUFFICES ASSUME NEW i \in 1 .. filled + 1, i = filled + 1
               PROVE  WindowFrames'[i] = f.content
    BY <1>1
  <2>1. i \in 1 .. filled' /\ SlotOf(i)' = filled
    BY <1>1, <1>5, <1>9
  <2>2. WindowFrames'[i] = ring'[filled]
    BY <2>1, NextWindowAt
  <2> QED BY <1>1, <1>5, <1>7, <2>2
<1>12. WindowFrames \in Seq(C) /\ Len(WindowFrames) = filled
  BY WindowType
<1>13. WindowFrames' \in Seq(C) /\ Len(WindowFrames') = filled + 1
  BY <1>5, NextWindowType
<1>14. /\ Append(WindowFrames, f.content) \in Seq(C)
       /\ Len(Append(WindowFrames, f.content)) = filled + 1
       /\ \A i \in 1 .. filled : Append(WindowFrames, f.content)[i] = WindowFrames[i]
       /\ Append(WindowFrames, f.content)[filled + 1] = f.content
  BY <1>8, <1>12, AppendProperties
<1>15. \A i \in 1 .. filled + 1 :
         WindowFrames'[i] = Append(WindowFrames, f.content)[i]
  BY <1>1, <1>10, <1>11, <1>14
<1> QED BY <1>13, <1>14, <1>15, SeqEqual

(* A frame of the window's own size into a full window.                    *)
LEMMA FullWindow ==
  ASSUME RingInv, RingInv', NEW f \in Frame, ~Refused(f), Appended(f),
         Pinned \/ f.size = 0, filled = Window
  PROVE  WindowFrames' = Append(Tail(WindowFrames), f.content)
<1> DEFINE C == Contents \cup {Blank}
           rest == Tail(WindowFrames)
<1>1. Window \in Nat /\ Window >= 2 /\ nextSlot \in Slots
  BY OodAssumption DEF RingInv, TypeOK
<1>2. ~StartsOver(f)
  BY DEF StartsOver
<1>3. f.size = dim
  BY Accepting, RoomType DEF Pinned, RingInv, TypeOK
<1>4. Allocated(f) = ring
  BY <1>1, <1>3 DEF Allocated, RingInv, Fits
<1>5. /\ ring' = [ring EXCEPT ![nextSlot] = f.content]
      /\ filled' = Window /\ nextSlot' = NextSlot(nextSlot)
  BY <1>1, <1>2, <1>4 DEF Appended
<1>6. nextSlot' = IF nextSlot = Window - 1 THEN 0 ELSE nextSlot + 1
  BY <1>1, <1>5, NextSlotIs
<1>7. ring \in [Slots -> C] /\ f.content \in C
  BY Accepting DEF RingInv, TypeOK
<1>8. \A i \in 1 .. Window - 1 : SlotOf(i)' = SlotOf(i + 1) /\ SlotOf(i + 1) # nextSlot
  BY <1>1, <1>5, <1>6 DEF SlotOf, Slots
<1>9. SlotOf(Window)' = nextSlot
  BY <1>1, <1>5, <1>6 DEF SlotOf, Slots
<1>10. WindowFrames \in Seq(C) /\ Len(WindowFrames) = Window /\ WindowFrames # <<>>
  BY <1>1, WindowType
<1>11. /\ rest \in Seq(C) /\ Len(rest) = Window - 1
       /\ \A i \in 1 .. Window - 1 : rest[i] = WindowFrames[i + 1]
  BY <1>10, HeadTailProperties
<1>12. \A i \in 1 .. Window - 1 : WindowFrames'[i] = rest[i]
  <2> SUFFICES ASSUME NEW i \in 1 .. Window - 1 PROVE WindowFrames'[i] = rest[i]
    OBVIOUS
  <2>1. i \in 1 .. filled' /\ i + 1 \in 1 .. filled
    BY <1>1, <1>5
  <2>2. WindowFrames'[i] = ring'[SlotOf(i + 1)]
    BY <1>8, <2>1, NextWindowAt
  <2>3. SlotOf(i + 1) \in Slots /\ WindowFrames[i + 1] = ring[SlotOf(i + 1)]
    BY <2>1, WindowAt
  <2>4. ring'[SlotOf(i + 1)] = ring[SlotOf(i + 1)]
    BY <1>5, <1>7, <1>8, <2>3
  <2> QED BY <1>11, <2>2, <2>3, <2>4
<1>13. WindowFrames'[Window] = f.content
  <2>1. Window \in 1 .. filled'
    BY <1>1, <1>5
  <2>2. WindowFrames'[Window] = ring'[nextSlot]
    BY <1>9, <2>1, NextWindowAt
  <2> QED BY <1>1, <1>5, <1>7, <2>2
<1>14. WindowFrames' \in Seq(C) /\ Len(WindowFrames') = Window
  BY <1>5, NextWindowType
<1> HIDE DEF rest
<1>15. /\ Append(rest, f.content) \in Seq(C)
       /\ Len(Append(rest, f.content)) = Window
       /\ \A i \in 1 .. Window - 1 : Append(rest, f.content)[i] = rest[i]
       /\ Append(rest, f.content)[Window] = f.content
  BY <1>1, <1>7, <1>11, AppendProperties
<1>16. \A i \in 1 .. Window : WindowFrames'[i] = Append(rest, f.content)[i]
  BY <1>1, <1>12, <1>13, <1>15
<1>17. WindowFrames' = Append(rest, f.content)
  BY <1>14, <1>15, <1>16, SeqEqual
<1> QED BY <1>17 DEF rest

LEMMA AcceptSlides ==
  ASSUME RingInv, RingInv', NEW f \in Frame, ~Refused(f), Appended(f),
         UNCHANGED expected
  PROVE  Sliding!Next
<1>1. f.content \in Contents \cup {Blank} /\ f.size \in Nat /\ dim' = f.size
  BY Accepting DEF Appended
<1>2. Len(WindowFrames) = filled /\ filled \in 0 .. Window /\ Window \in Nat
  BY WindowType, OodAssumption DEF RingInv, TypeOK
<1>3. CASE ~Pinned /\ f.size > 0
  <2>1. WindowFrames' = <<f.content>>
    BY <1>3, FirstFrame
  <2>2. dim = 0 /\ dim' \in Nat \ {0}
    BY <1>1, <1>3 DEF Pinned
  <2>3. Sliding!StartOver(f.content)
    BY <2>1, <2>2 DEF Sliding!StartOver
  <2> QED BY <1>1, <2>3 DEF Sliding!Next
<1>4. CASE Pinned \/ f.size = 0
  <2>1. dim' = dim
    BY <1>1, <1>4, Accepting DEF Pinned
  <2>2. WindowFrames' =
          Append(IF Len(WindowFrames) < Window THEN WindowFrames ELSE Tail(WindowFrames), f.content)
    BY <1>2, <1>4, FillingWindow, FullWindow
  <2>3. Sliding!Slide(f.content)
    BY <2>1, <2>2 DEF Sliding!Slide
  <2> QED BY <1>1, <2>3 DEF Sliding!Next
<1> QED BY <1>1, <1>3, <1>4

(* The window and its size do not see the rest of the state.               *)
LEMMA WindowStutters ==
  ASSUME UNCHANGED <<ring, nextSlot, filled, dim, expected>>
  PROVE  UNCHANGED <<WindowFrames, dim, expected>>
BY DEF WindowFrames

(* The ring implements the sliding window: what the spread is taken of are *)
(* the last frames accepted in this episode, in order.                     *)
THEOREM WindowIsSliding == Spec => WindowSlides
<1>1. Init => Sliding!Init
  <2> SUFFICES ASSUME Init PROVE Sliding!Init
    OBVIOUS
  <2>1. RingInv /\ filled = 0 /\ dim = expected
    BY InitRing DEF Init, InitCore
  <2>2. WindowFrames = <<>>
    BY <2>1, WindowType, EmptySeq
  <2> QED BY <2>1, <2>2 DEF Sliding!Init
<1>2. RingInv /\ RingInv' /\ [Next]_oodVars => [Sliding!Next]_(Sliding!windowVars)
  <2> SUFFICES ASSUME RingInv, RingInv', [Next]_oodVars
               PROVE  Sliding!Next \/ UNCHANGED <<WindowFrames, dim, expected>>
    BY DEF Sliding!windowVars
  <2>1. ASSUME NEW f \in Frame, Update(f)
        PROVE  Sliding!Next \/ UNCHANGED <<WindowFrames, dim, expected>>
    <3>1. CASE Reject(f)
      BY <3>1, WindowStutters DEF Reject, config, bufferVars
    <3>2. CASE ~Reject(f)
      <4>1. ~Refused(f) /\ Appended(f) /\ UNCHANGED expected
        BY <2>1, <3>2 DEF Update, WarmUp, Replay, JudgePoison, JudgeSpread, Computes, config
      <4> QED BY <4>1, AcceptSlides
    <3> QED BY <3>1, <3>2
  <2>2. CASE Reset
    <3>1. filled' = 0 /\ dim' = expected /\ UNCHANGED expected
      BY <2>2 DEF Reset, config
    <3>2. WindowFrames' = <<>>
      BY <3>1, NextWindowType, EmptySeq
    <3> QED BY <3>1, <3>2 DEF Sliding!Next, Sliding!Forget
  <2>3. CASE SetThreshold
    BY <2>3, WindowStutters DEF SetThreshold, bufferVars
  <2>4. CASE UNCHANGED oodVars
    BY <2>4, WindowStutters DEF oodVars, config, bufferVars
  <2> QED BY <2>1, <2>2, <2>3, <2>4 DEF Next
<1> QED BY AlwaysRing, <1>1, <1>2, PTL DEF Spec, WindowSlides, Sliding!Spec
-----------------------------------------------------------------------------
(* The gate and the run, counted in frames. *)

LEMMA GateTurns ==
  ASSUME RingInv, NEW f \in Frame, Appended(f), ~StartsOver(f)
  PROVE  /\ filled \in 0 .. Window /\ filled' = (IF filled < Window THEN filled + 1 ELSE filled)
         /\ phase \in 0 .. ComputeEvery - 1
         /\ phase' = IF phase = ComputeEvery - 1 THEN 0 ELSE phase + 1
<1>1. filled \in 0 .. Window /\ filled' = (IF filled < Window THEN filled + 1 ELSE filled)
  BY DEF Appended, RingInv, TypeOK
<1>2. phase \in 0 .. ComputeEvery - 1 /\ phase' = (phase + 1) % ComputeEvery
  BY DEF Appended, RingInv, TypeOK
<1> DEFINE next == phase + 1
<1>3. ComputeEvery \in Nat \ {0} /\ next \in 0 .. 2 * ComputeEvery - 1
  BY <1>2, OodAssumption
<1>4. phase' = next % ComputeEvery
  BY <1>2
<1> HIDE DEF next
<1>5. next % ComputeEvery = IF next < ComputeEvery THEN next ELSE next - ComputeEvery
  BY <1>3, AroundOnce
<1>6. phase' = IF next < ComputeEvery THEN next ELSE next - ComputeEvery
  BY <1>4, <1>5
<1> QED BY <1>1, <1>2, <1>3, <1>6 DEF next

\* The frames after its first that a run of r low spreads takes at the least.
Spacing(r) == IF r < 2 THEN 0 ELSE 1 + (r - 2) * ComputeEvery

LEMMA SpacingGrows ==
  /\ \A r \in 0 .. MinConsecutive :
       Spacing(r) \in Nat /\ Spacing(r) + ComputeEvery <= MinConsecutive * ComputeEvery
  /\ Spacing(0) = 0 /\ Spacing(1) = 0 /\ Spacing(2) = 1
  /\ \A r \in Nat : r >= 2 => Spacing(r + 1) = Spacing(r) + ComputeEvery
  /\ Spacing(MinConsecutive) = Earliest - 1
<1>1. ComputeEvery \in Nat /\ ComputeEvery >= 1 /\ MinConsecutive \in Nat /\ MinConsecutive >= 1
  BY OodAssumption
<1>2. ASSUME NEW r \in 0 .. MinConsecutive
      PROVE  Spacing(r) \in Nat /\ Spacing(r) + ComputeEvery <= MinConsecutive * ComputeEvery
  <2>1. CASE r < 2
    <3>1. MinConsecutive * ComputeEvery >= ComputeEvery
      BY <1>1, Z3
    <3> QED BY <1>1, <2>1, <3>1 DEF Spacing
  <2>2. CASE r >= 2
    <3> DEFINE k == r - 2
               m == MinConsecutive - 2
    <3>1. k \in Nat /\ m \in Nat /\ k <= m
      BY <1>1, <2>2
    <3>2. k * ComputeEvery \in Nat /\ k * ComputeEvery <= m * ComputeEvery
      <4> HIDE DEF k, m
      <4> QED BY <1>1, <3>1, Z3
    <3>3. MinConsecutive * ComputeEvery = m * ComputeEvery + 2 * ComputeEvery
      BY <1>1, Z3
    <3> HIDE DEF m
    <3> QED BY <1>1, <2>2, <3>2, <3>3 DEF Spacing
  <2> QED BY <1>1, <2>1, <2>2
<1>3. Spacing(0) = 0 /\ Spacing(1) = 0 /\ Spacing(2) = 1
  BY <1>1 DEF Spacing
<1>4. ASSUME NEW r \in Nat, r >= 2
      PROVE  Spacing(r + 1) = Spacing(r) + ComputeEvery
  <2>1. (r + 1 - 2) * ComputeEvery = (r - 2) * ComputeEvery + ComputeEvery
    BY <1>1, <1>4, Z3
  <2> QED BY <1>1, <1>4, <2>1 DEF Spacing
<1>5. Spacing(MinConsecutive) = Earliest - 1
  BY <1>1 DEF Spacing, Earliest
<1> QED BY <1>2, <1>3, <1>4, <1>5

LEMMA NotViolating == ~BadInput.violating /\ ~WarmingUp.violating
BY DEF BadInput, WarmingUp, Quiet

LEMMA FixedAreVerdicts == BadInput # NoVerdict /\ WarmingUp # NoVerdict
BY FixedVerdicts, VerdictAssumption

\* A verdict that fires has a full run behind it; one that does not, a floor.
LEMMA FiringNeedsRun ==
  ASSUME NEW spread, NEW fired \in BOOLEAN, MakeVerdict(spread, fired).violating
  PROVE  fired
BY DEF MakeVerdict, Quiet

LEMMA FiredOrFloored ==
  ASSUME NEW spread, Below(spread)
  PROVE  LET judged == MakeVerdict(spread, TRUE)
         IN  judged.violating \/ BelowFloor(judged.score)
<1>1. CASE BelowFloor(Score(spread))
  BY <1>1 DEF MakeVerdict, Quiet
<1>2. CASE ~BelowFloor(Score(spread))
  BY <1>2 DEF MakeVerdict, Alarm
<1> QED BY <1>1, <1>2

\* What one computed spread leaves behind, whichever it is.
LEMMA JudgedSpread ==
  ASSUME RingInv, NEW f \in Frame, NEW spread \in Spreads \cup {0}, JudgeSpread(f, spread)
  PROVE  /\ run' \in 0 .. MinConsecutive
         /\ ~Below(spread) => run' = 0
         /\ Below(spread) => run' = IF run < MinConsecutive THEN run + 1 ELSE run
         /\ last' # NoVerdict /\ verdict' = last'
         /\ last'.violating => run' = MinConsecutive
         /\ Below(spread) /\ run' = MinConsecutive =>
              last'.violating \/ BelowFloor(last'.score)
<1>1. /\ run \in 0 .. MinConsecutive /\ MinConsecutive \in Nat /\ spread \in Nat
      /\ threshold \in Thresholds
  BY OodAssumption, SpreadType DEF RingInv, TypeOK
<1>2. /\ verdict' = last' /\ run' = Extended(Below(spread))
      /\ last' = MakeVerdict(spread, run' >= MinConsecutive)
  BY DEF JudgeSpread
<1>3. /\ ~Below(spread) => run' = 0
      /\ Below(spread) => run' = IF run < MinConsecutive THEN run + 1 ELSE run
  BY <1>2 DEF Extended
<1>4. run' \in 0 .. MinConsecutive
  BY <1>1, <1>3
<1>5. (run' >= MinConsecutive) \in BOOLEAN /\ (run' >= MinConsecutive <=> run' = MinConsecutive)
  BY <1>1, <1>4
<1>6. last' # NoVerdict
  <2>1. last' \in OodVerdict
    BY <1>1, <1>2, <1>5, VerdictType
  <2> QED BY <2>1, VerdictAssumption
<1>7. last'.violating => run' = MinConsecutive
  <2>1. last'.violating => run' >= MinConsecutive
    BY <1>2, <1>5, FiringNeedsRun
  <2> QED BY <1>5, <2>1
<1>8. ASSUME Below(spread), run' = MinConsecutive
      PROVE  last'.violating \/ BelowFloor(last'.score)
  <2>1. (run' >= MinConsecutive) = TRUE
    BY <1>5, <1>8
  <2>2. last' = MakeVerdict(spread, TRUE)
    BY <1>2, <2>1
  <2> QED BY <1>8, <2>2, FiredOrFloored
<1> QED BY <1>2, <1>3, <1>4, <1>6, <1>7, <1>8

-----------------------------------------------------------------------------
(***************************************************************************)
(* What the observer has seen, as it is inductive.  Idle: a window that is *)
(* not full has no judgement behind it.  Cached: an accepted frame of a    *)
(* full window returns the cached verdict, and only a full run fires.      *)
(* RunIsSpread: a run of low spreads has taken the frames the gate puts    *)
(* between them, and those skipped since the last.  CalmIsRun: calm frames *)
(* are low judgements, a period of the gate each, and once the run is full *)
(* the verdict cached since is an alarm or floored.  ToxicIsBad: a poison  *)
(* in the window is judged at the next turn of the gate.                   *)
(***************************************************************************)
ObserverTypeOK == {lowFor, calm, toxic} \subseteq 0 .. Horizon

Idle ==
  filled < Window => last = NoVerdict /\ run = 0 /\ lowFor = 0 /\ calm = 0 /\ toxic = 0

Cached ==
  /\ last = NoVerdict => run = 0 /\ calm = 0 /\ toxic = 0
  /\ accepted /\ filled = Window => verdict = last /\ last # NoVerdict
  /\ last # NoVerdict /\ last.violating => run = MinConsecutive
  /\ Alarming => run = MinConsecutive

RunIsSpread ==
  run >= 1 => lowFor >= 1 + Spacing(run) + (IF run >= 2 THEN phase ELSE 0)

CalmIsRun ==
  /\ run < MinConsecutive => calm <= run * ComputeEvery + phase
  /\ run = MinConsecutive /\ calm > phase => last.violating \/ BelowFloor(last.score)

ToxicIsBad == toxic > phase => last = BadInput

HistoryInv ==
  RingInv /\ ObserverTypeOK /\ Idle /\ Cached /\ RunIsSpread /\ CalmIsRun /\ ToxicIsBad

(* The numbers these are about.                                            *)
LEMMA Counts ==
  ASSUME RingInv
  PROVE  /\ ComputeEvery \in Nat /\ ComputeEvery >= 1 /\ Window \in Nat /\ Window >= 2
         /\ MinConsecutive \in Nat /\ MinConsecutive >= 1
         /\ Horizon \in Nat /\ Horizon >= ComputeEvery
         /\ run \in 0 .. MinConsecutive /\ filled \in 0 .. Window
         /\ phase \in 0 .. ComputeEvery - 1
<1>1. /\ ComputeEvery \in Nat /\ ComputeEvery >= 1 /\ Window \in Nat /\ Window >= 2
      /\ MinConsecutive \in Nat /\ MinConsecutive >= 1
  BY OodAssumption
<1>2. MinConsecutive * ComputeEvery \in Nat
      /\ MinConsecutive * ComputeEvery >= ComputeEvery
  BY <1>1, Z3
<1> QED BY <1>1, <1>2 DEF Horizon, RingInv, TypeOK

LEMMA UpCounts ==
  ASSUME RingInv, NEW counter \in 0 .. Horizon
  PROVE  /\ Up(counter) \in 0 .. Horizon
         /\ counter < Horizon => Up(counter) = counter + 1
         /\ counter = Horizon => Up(counter) = Horizon
BY Counts DEF Up

LEMMA ObservedIsNext == ObservedNext => Next
BY DEF ObservedNext, ObservedReject, ObservedSkip, ObservedPoison, ObservedSpread, ObservedReset,
       ObservedSetThreshold, Next, Update

LEMMA InitHistory == ObservedInit => HistoryInv
<1> SUFFICES ASSUME ObservedInit PROVE HistoryInv
  OBVIOUS
<1>1. RingInv
  BY InitRing DEF ObservedInit
<1>2. /\ filled = 0 /\ phase = 0 /\ run = 0 /\ last = NoVerdict /\ verdict = NoVerdict
      /\ lowFor = 0 /\ calm = 0 /\ toxic = 0
  BY DEF ObservedInit, Init, InitCore
<1>3. ObserverTypeOK /\ Idle /\ Cached
  BY <1>1, <1>2, Counts DEF ObserverTypeOK, Idle, Cached, Alarming
<1>4. RunIsSpread /\ CalmIsRun /\ ToxicIsBad
  BY <1>1, <1>2, Counts DEF RunIsSpread, CalmIsRun, ToxicIsBad
<1> QED BY <1>1, <1>3, <1>4 DEF HistoryInv

\* A window that is not full, whatever made it so.
LEMMA IdleIsFine ==
  ASSUME RingInv, RingInv', filled' < Window, last' = NoVerdict, run' = 0, ~Alarming',
         lowFor' = 0, calm' = 0, toxic' = 0
  PROVE  HistoryInv'
<1>1. /\ MinConsecutive >= 1 /\ MinConsecutive \in Nat /\ Horizon \in Nat /\ Window \in Nat
      /\ ComputeEvery \in Nat
  BY Counts
<1>2. phase' \in Nat /\ filled' \in Nat
  BY <1>1 DEF RingInv, TypeOK
<1>3. ObserverTypeOK' /\ Idle'
  BY <1>1 DEF ObserverTypeOK, Idle, Horizon
<1>4. Cached'
  BY <1>1, <1>2 DEF Cached
<1>5. RunIsSpread' /\ ToxicIsBad'
  BY <1>1, <1>2 DEF RunIsSpread, ToxicIsBad
<1>6. CalmIsRun'
  <2>1. run' * ComputeEvery = 0
    BY <1>1, Z3
  <2>2. calm' <= run' * ComputeEvery + phase'
    BY <1>2, <2>1
  <2>3. run' # MinConsecutive
    BY <1>1
  <2> QED BY <2>2, <2>3 DEF CalmIsRun
<1> QED BY <1>3, <1>4, <1>5, <1>6 DEF HistoryInv

\* Steps that leave the run, the cache and the observer alone.
LEMMA AsideIsFine ==
  ASSUME HistoryInv, RingInv', UNCHANGED <<filled, phase, run, last, observer>>,
         UNCHANGED <<accepted, verdict>> \/ (~accepted' /\ ~Alarming')
  PROVE  HistoryInv'
<1>1. UNCHANGED <<filled, phase, run, last, lowFor, calm, toxic>>
  BY DEF observer
<1>2. ObserverTypeOK' /\ Idle' /\ RunIsSpread' /\ CalmIsRun' /\ ToxicIsBad'
  BY <1>1 DEF HistoryInv, ObserverTypeOK, Idle, RunIsSpread, CalmIsRun, ToxicIsBad, BelowFloor
<1>3. Cached'
  BY <1>1 DEF HistoryInv, Cached, Alarming
<1> QED BY <1>2, <1>3 DEF HistoryInv

\* A frame accepted into a window that is full with it.
LEMMA FullTurn ==
  ASSUME HistoryInv, NEW f \in Frame, Appended(f), filled' = Window
  PROVE  /\ phase' = IF phase = ComputeEvery - 1 THEN 0 ELSE phase + 1
         /\ phase' \in 0 .. ComputeEvery - 1
         /\ last # NoVerdict => filled = Window
<1>1. RingInv
  BY DEF HistoryInv
<1>2. /\ Window >= 2 /\ Window \in Nat /\ filled \in 0 .. Window
      /\ ComputeEvery >= 1 /\ ComputeEvery \in Nat /\ phase \in 0 .. ComputeEvery - 1
  BY <1>1, Counts
<1>3. ~StartsOver(f)
  BY <1>2 DEF Appended
<1>4. phase' = IF phase = ComputeEvery - 1 THEN 0 ELSE phase + 1
  BY <1>1, <1>3, GateTurns
<1>5. last # NoVerdict => filled = Window
  BY <1>2 DEF HistoryInv, Idle
<1> QED BY <1>2, <1>4, <1>5

\* The run's frames, when it is neither broken nor longer.
LEMMA KeptRunIsSpread ==
  ASSUME HistoryInv, NEW f \in Frame, Appended(f), filled' = Window, run' = run,
         lowFor' = IF lowFor = 0 THEN 0 ELSE Up(lowFor)
  PROVE  lowFor' \in 0 .. Horizon /\ RunIsSpread'
<1>1. RingInv /\ lowFor \in 0 .. Horizon
  BY DEF HistoryInv, ObserverTypeOK
<1>2. /\ ComputeEvery \in Nat /\ phase \in 0 .. ComputeEvery - 1 /\ run \in 0 .. MinConsecutive
      /\ Horizon \in Nat /\ MinConsecutive \in Nat
  BY <1>1, Counts
<1>3. phase' \in 0 .. ComputeEvery - 1 /\ phase' <= phase + 1
  BY <1>2, FullTurn
<1>4. Spacing(run) \in Nat /\ Spacing(run) + ComputeEvery <= Horizon
  BY <1>2, SpacingGrows DEF Horizon
<1>5. /\ Up(lowFor) \in 0 .. Horizon
      /\ lowFor < Horizon => Up(lowFor) = lowFor + 1
      /\ lowFor = Horizon => Up(lowFor) = Horizon
  BY <1>1, UpCounts
<1>6. lowFor' \in 0 .. Horizon
  BY <1>2, <1>5
<1>7. ASSUME run >= 1
      PROVE  lowFor' >= 1 + Spacing(run) + (IF run >= 2 THEN phase' ELSE 0)
  <2>1. lowFor >= 1 + Spacing(run) + (IF run >= 2 THEN phase ELSE 0)
    BY <1>7 DEF HistoryInv, RunIsSpread
  <2>2. lowFor # 0 /\ lowFor' = Up(lowFor)
    BY <1>1, <1>2, <1>4, <2>1
  <2>3. CASE lowFor < Horizon
    BY <1>1, <1>2, <1>3, <1>4, <1>5, <2>1, <2>2, <2>3
  <2>4. CASE lowFor = Horizon
    BY <1>1, <1>2, <1>3, <1>4, <1>5, <2>1, <2>2, <2>4
  <2> QED BY <1>1, <1>2, <2>3, <2>4
<1>8. RunIsSpread'
  BY <1>7 DEF RunIsSpread
<1> QED BY <1>6, <1>8

LEMMA ReplayKeepsHistory ==
  ASSUME HistoryInv, RingInv', NEW f \in Frame, Replay(f), Observe("none")
  PROVE  HistoryInv'
<1>1. /\ RingInv /\ lowFor \in 0 .. Horizon /\ calm \in 0 .. Horizon /\ toxic \in 0 .. Horizon
  BY DEF HistoryInv, ObserverTypeOK
<1>2. /\ ComputeEvery \in Nat /\ ComputeEvery >= 1 /\ phase \in 0 .. ComputeEvery - 1
      /\ run \in 0 .. MinConsecutive /\ Horizon \in Nat /\ MinConsecutive \in Nat
      /\ Horizon >= ComputeEvery
  BY <1>1, Counts
<1>3. /\ Appended(f) /\ filled' = Window /\ last # NoVerdict /\ phase' # 0
      /\ accepted' /\ verdict' = last /\ run' = run /\ last' = last
  BY DEF Replay, Skipped
<1>4. phase' = phase + 1 /\ phase' \in 0 .. ComputeEvery - 1
  BY <1>2, <1>3, FullTurn
<1>5. /\ lowFor' = IF lowFor = 0 THEN 0 ELSE Up(lowFor)
      /\ calm' = Up(calm)
      /\ toxic' = Up(toxic) \/ toxic' = 0
  BY <1>3 DEF Observe, Full
<1>6. lowFor' \in 0 .. Horizon /\ RunIsSpread'
  BY <1>3, <1>5, KeptRunIsSpread
<1>7. /\ calm' \in 0 .. Horizon
      /\ calm < Horizon => calm' = calm + 1
      /\ calm = Horizon => calm' = Horizon
  BY <1>1, <1>5, UpCounts
<1>8. /\ toxic' \in 0 .. Horizon
      /\ toxic < Horizon => toxic' <= toxic + 1
  BY <1>1, <1>2, <1>5, UpCounts
<1>9. ObserverTypeOK' /\ Idle'
  BY <1>2, <1>3, <1>6, <1>7, <1>8, OodAssumption DEF ObserverTypeOK, Idle, Horizon
<1>10. Cached'
  BY <1>3 DEF HistoryInv, Cached, Alarming
<1>11. CalmIsRun'
  <2>1. ASSUME run' < MinConsecutive PROVE calm' <= run' * ComputeEvery + phase'
    <3>1. calm <= run * ComputeEvery + phase
      BY <1>3, <2>1 DEF HistoryInv, CalmIsRun
    <3>2. run * ComputeEvery \in Nat
      BY <1>2, Z3
    <3>3. run' * ComputeEvery = run * ComputeEvery
      BY <1>3
    <3> QED BY <1>1, <1>2, <1>4, <1>7, <3>1, <3>2, <3>3
  <2>2. ASSUME run' = MinConsecutive, calm' > phase'
        PROVE  last'.violating \/ BelowFloor(last'.score)
    <3>1. calm > phase
      BY <1>1, <1>2, <1>4, <1>7, <2>2
    <3>2. last.violating \/ BelowFloor(last.score)
      BY <1>3, <2>2, <3>1 DEF HistoryInv, CalmIsRun
    <3> QED BY <1>3, <3>2
  <2> QED BY <2>1, <2>2 DEF CalmIsRun, BelowFloor
<1>12. ToxicIsBad'
  <2> SUFFICES ASSUME toxic' > phase' PROVE last = BadInput
    BY <1>3 DEF ToxicIsBad, BadInput, Quiet
  <2>1. toxic > phase
    BY <1>1, <1>2, <1>4, <1>8
  <2> QED BY <2>1 DEF HistoryInv, ToxicIsBad
<1> QED BY <1>6, <1>9, <1>10, <1>11, <1>12 DEF HistoryInv

LEMMA PoisonKeepsHistory ==
  ASSUME HistoryInv, RingInv', NEW f \in Frame, JudgePoison(f), Observe("poison")
  PROVE  HistoryInv'
<1>1. RingInv /\ toxic \in 0 .. Horizon
  BY DEF HistoryInv, ObserverTypeOK
<1>2. /\ ComputeEvery \in Nat /\ Horizon \in Nat /\ MinConsecutive \in Nat
      /\ run \in 0 .. MinConsecutive
  BY <1>1, Counts
<1>3. /\ Appended(f) /\ filled' = Window /\ accepted'
      /\ verdict' = BadInput /\ run' = run /\ last' = BadInput
  BY DEF JudgePoison, Computes
<1>4. phase' \in 0 .. ComputeEvery - 1
  BY <1>3, FullTurn
<1>5. /\ lowFor' = IF lowFor = 0 THEN 0 ELSE Up(lowFor)
      /\ calm' = 0
      /\ toxic' = Up(toxic) \/ toxic' = 0
  BY <1>3 DEF Observe, Full
<1>6. lowFor' \in 0 .. Horizon /\ RunIsSpread'
  BY <1>3, <1>5, KeptRunIsSpread
<1>7. toxic' \in 0 .. Horizon
  BY <1>1, <1>2, <1>5, UpCounts
<1>8. ObserverTypeOK' /\ Idle'
  BY <1>2, <1>3, <1>5, <1>6, <1>7, OodAssumption DEF ObserverTypeOK, Idle, Horizon
<1>9. Cached'
  BY <1>3, NotViolating, FixedAreVerdicts DEF Cached, Alarming
<1>10. CalmIsRun'
  <2>1. run' * ComputeEvery \in Nat
    BY <1>2, <1>3, Z3
  <2> QED BY <1>2, <1>4, <1>5, <2>1 DEF CalmIsRun
<1>11. ToxicIsBad'
  BY <1>3 DEF ToxicIsBad, BadInput, Quiet
<1> QED BY <1>6, <1>8, <1>9, <1>10, <1>11 DEF HistoryInv

\* Spreads are finite: one that is judged is of a window without poison.
LEMMA SpreadIsClean ==
  ASSUME NEW f \in Frame, NEW spread \in Spreads \cup {0}, JudgeSpread(f, spread)
  PROVE  ~PoisonInside'
<1>1. spread # NonFinite
  BY SpreadType, NonFiniteAssumption
<1> QED BY <1>1 DEF JudgeSpread, SpreadsOf, PoisonInside

LEMMA SpreadKeepsHistory ==
  ASSUME HistoryInv, RingInv', NEW f \in Frame, NEW spread \in Spreads \cup {0},
         JudgeSpread(f, spread), Observe(IF Below(spread) THEN "low" ELSE "high")
  PROVE  HistoryInv'
<1>1. RingInv /\ lowFor \in 0 .. Horizon /\ calm \in 0 .. Horizon
  BY DEF HistoryInv, ObserverTypeOK
<1>2. /\ ComputeEvery \in Nat /\ ComputeEvery >= 1 /\ phase \in 0 .. ComputeEvery - 1
      /\ MinConsecutive \in Nat /\ MinConsecutive >= 1 /\ run \in 0 .. MinConsecutive
      /\ Horizon \in Nat /\ Horizon >= ComputeEvery /\ Window \in Nat
  BY <1>1, Counts
<1>3. Appended(f) /\ filled' = Window /\ accepted' /\ (last = NoVerdict \/ phase' = 0)
  BY DEF JudgeSpread, Computes, Skipped
<1>4. /\ phase' = IF phase = ComputeEvery - 1 THEN 0 ELSE phase + 1
      /\ phase' \in 0 .. ComputeEvery - 1
  BY <1>3, FullTurn
<1>5. /\ run' \in 0 .. MinConsecutive
      /\ ~Below(spread) => run' = 0
      /\ Below(spread) => run' = IF run < MinConsecutive THEN run + 1 ELSE run
      /\ last' # NoVerdict /\ verdict' = last'
      /\ last'.violating => run' = MinConsecutive
      /\ Below(spread) /\ run' = MinConsecutive => last'.violating \/ BelowFloor(last'.score)
  BY <1>1, JudgedSpread
<1>6. toxic' = 0
  BY SpreadIsClean DEF Observe
<1>7. ToxicIsBad'
  BY <1>2, <1>4, <1>6 DEF ToxicIsBad
<1>8. Cached'
  BY <1>3, <1>5 DEF Cached, Alarming
<1>9. CASE ~Below(spread)
  <2>1. lowFor' = 0 /\ calm' = 0 /\ run' = 0
    BY <1>3, <1>5, <1>9 DEF Observe, Full
  <2>2. ObserverTypeOK' /\ Idle'
    BY <1>2, <1>3, <1>6, <2>1 DEF ObserverTypeOK, Idle, Horizon
  <2>3. RunIsSpread' /\ CalmIsRun'
    BY <1>2, <1>4, <2>1 DEF RunIsSpread, CalmIsRun
  <2> QED BY <1>7, <1>8, <2>2, <2>3 DEF HistoryInv
<1>10. CASE Below(spread)
  <2>1. lowFor' = Up(lowFor) /\ calm' = Up(calm)
    BY <1>3, <1>10 DEF Observe, Full
  <2>2. run' = IF run < MinConsecutive THEN run + 1 ELSE run
    BY <1>5, <1>10
  <2>3. /\ lowFor' \in 0 .. Horizon /\ (lowFor < Horizon => lowFor' = lowFor + 1)
        /\ (lowFor = Horizon => lowFor' = Horizon)
        /\ calm' \in 0 .. Horizon /\ calm' <= calm + 1
    BY <1>1, <1>2, <2>1, UpCounts
  <2>4. ObserverTypeOK' /\ Idle'
    BY <1>2, <1>3, <1>6, <2>3 DEF ObserverTypeOK, Idle, Horizon
  <2>5. Spacing(run') \in Nat /\ Spacing(run') + ComputeEvery <= Horizon
    BY <1>5, SpacingGrows DEF Horizon
  <2>6. run >= 1 => phase' = 0 /\ phase = ComputeEvery - 1
    BY <1>2, <1>3, <1>4 DEF HistoryInv, Cached
  <2>7. RunIsSpread'
    <3> SUFFICES lowFor' >= 1 + Spacing(run') + (IF run' >= 2 THEN phase' ELSE 0)
      BY DEF RunIsSpread
    <3>1. CASE run = 0
      <4>1. run' = 1 /\ Spacing(run') = 0
        BY <1>2, <2>2, <3>1, SpacingGrows
      <4> QED BY <1>1, <1>2, <2>3, <4>1
    <3>2. CASE run >= 1 /\ MinConsecutive = 1
      <4>1. run' = 1 /\ Spacing(run') = 0
        BY <1>2, <2>2, <3>2, SpacingGrows
      <4> QED BY <1>1, <1>2, <2>3, <4>1
    <3>3. CASE run = 1 /\ MinConsecutive >= 2
      <4>1. run' = 2 /\ Spacing(run') = 1 /\ Spacing(run) = 0
        BY <1>2, <2>2, <3>3, SpacingGrows
      <4>2. lowFor >= 1
        BY <1>1, <3>3, <4>1 DEF HistoryInv, RunIsSpread
      <4> QED BY <1>1, <1>2, <2>3, <2>5, <2>6, <3>3, <4>1, <4>2
    <3>4. CASE run >= 2
      <4>1. run' >= 2 /\ (run' = run \/ run' = run + 1)
        BY <1>2, <2>2, <3>4
      <4>2. Spacing(run) \in Nat /\ Spacing(run') <= Spacing(run) + ComputeEvery
        BY <1>2, <3>4, <4>1, SpacingGrows
      <4>3. lowFor >= 1 + Spacing(run) + phase
        BY <1>2, <3>4 DEF HistoryInv, RunIsSpread
      <4> QED BY <1>1, <1>2, <2>3, <2>5, <2>6, <3>4, <4>1, <4>2, <4>3
    <3> QED BY <1>2, <3>1, <3>2, <3>3, <3>4
  <2>8. CalmIsRun'
    <3>1. ASSUME run' < MinConsecutive PROVE calm' <= run' * ComputeEvery + phase'
      <4>1. run' = run + 1 /\ run < MinConsecutive
        BY <1>2, <2>2, <3>1
      <4>2. calm <= run * ComputeEvery + phase
        BY <4>1 DEF HistoryInv, CalmIsRun
      <4>3. run' * ComputeEvery = run * ComputeEvery + ComputeEvery /\ run * ComputeEvery \in Nat
        BY <1>2, <4>1, Z3
      <4> QED BY <1>1, <1>2, <1>4, <2>3, <4>2, <4>3
    <3>2. ASSUME run' = MinConsecutive PROVE last'.violating \/ BelowFloor(last'.score)
      BY <1>5, <1>10, <3>2
    <3> QED BY <3>1, <3>2 DEF CalmIsRun, BelowFloor
  <2> QED BY <1>7, <1>8, <2>4, <2>7, <2>8 DEF HistoryInv
<1> QED BY <1>9, <1>10

LEMMA StepHistory == HistoryInv /\ [ObservedNext]_historyVars => HistoryInv'
<1> SUFFICES ASSUME HistoryInv, [ObservedNext]_historyVars PROVE HistoryInv'
  OBVIOUS
<1>1. RingInv /\ RingInv'
  <2>1. [Next]_oodVars
    BY ObservedIsNext DEF historyVars
  <2> QED BY <2>1, StepRing DEF HistoryInv
<1>2. Window \in Nat /\ Window >= 2 /\ filled \in Nat
  BY <1>1, Counts
<1>3. ASSUME NEW f \in Frame, ObservedReject(f) PROVE HistoryInv'
  <2>1. UNCHANGED <<filled, phase, run, last, observer>> /\ ~accepted' /\ ~Alarming'
    BY <1>3, NotViolating DEF ObservedReject, Reject, bufferVars, Alarming
  <2> QED BY <1>1, <2>1, AsideIsFine
<1>4. ASSUME NEW f \in Frame, WarmUp(f), Observe("none") PROVE HistoryInv'
  <2>1. filled' < Window /\ Appended(f) /\ verdict' = WarmingUp
    BY <1>4 DEF WarmUp
  <2>2. ~StartsOver(f) => filled < Window
    BY <1>1, <1>2, <2>1, GateTurns
  <2>3. last' = NoVerdict /\ run' = 0
    BY <1>4, <2>2 DEF WarmUp, HistoryInv, Idle
  <2>4. lowFor' = 0 /\ calm' = 0 /\ toxic' = 0
    <3>1. ~Full'
      BY <1>2, <2>1 DEF Full
    <3> QED BY <1>4, <3>1 DEF Observe
  <2>5. ~Alarming'
    BY <2>1, NotViolating DEF Alarming
  <2> QED BY <1>1, <2>1, <2>3, <2>4, <2>5, IdleIsFine
<1>5. ASSUME NEW f \in Frame, Replay(f), Observe("none") PROVE HistoryInv'
  BY <1>1, <1>5, ReplayKeepsHistory
<1>6. ASSUME NEW f \in Frame, ObservedPoison(f) PROVE HistoryInv'
  BY <1>1, <1>6, PoisonKeepsHistory DEF ObservedPoison
<1>7. ASSUME NEW f \in Frame, ObservedSpread(f) PROVE HistoryInv'
  <2>1. PICK spread \in Spreads \cup {0} :
          JudgeSpread(f, spread) /\ Observe(IF Below(spread) THEN "low" ELSE "high")
    BY <1>7 DEF ObservedSpread
  <2> QED BY <1>1, <2>1, SpreadKeepsHistory
<1>8. CASE ObservedReset
  <2>1. /\ filled' = 0 /\ last' = NoVerdict /\ run' = 0 /\ ~Alarming'
        /\ lowFor' = 0 /\ calm' = 0 /\ toxic' = 0
    BY <1>8 DEF ObservedReset, Reset, Alarming
  <2> QED BY <1>1, <1>2, <2>1, IdleIsFine
<1>9. CASE ObservedSetThreshold \/ UNCHANGED historyVars
  <2>1. UNCHANGED <<filled, phase, run, last, observer, accepted, verdict>>
    BY <1>9 DEF ObservedSetThreshold, SetThreshold, historyVars, oodVars, bufferVars
  <2> QED BY <1>1, <2>1, AsideIsFine
<1> QED BY <1>3, <1>4, <1>5, <1>6, <1>7, <1>8, <1>9 DEF ObservedNext, ObservedSkip

LEMMA AlwaysHistory == ObservedSpec => []HistoryInv
BY InitHistory, StepHistory, PTL DEF ObservedSpec

(***************************************************************************)
(* The observer only watches: with it, the core does what it does without. *)
(* What is proved of Spec holds of ObservedSpec.                           *)
(***************************************************************************)
THEOREM ObserverOnlyWatches == ObservedSpec => Spec
<1>1. ObservedInit => Init
  BY DEF ObservedInit
<1>2. [ObservedNext]_historyVars => [Next]_oodVars
  BY ObservedIsNext DEF historyVars
<1> QED BY <1>1, <1>2, PTL DEF ObservedSpec, Spec

(***************************************************************************)
(* No alarm before the spreads of a full hysteresis run have had the time  *)
(* to be low, through refused, skipped and poisoned frames, windows that   *)
(* start over and thresholds that change (ood_core.cpp:136-187).           *)
(***************************************************************************)
THEOREM NoAlarmIsEarly == ObservedSpec => []NoEarlyAlarm
<1>1. HistoryInv => NoEarlyAlarm
  <2> SUFFICES ASSUME HistoryInv, Alarming PROVE lowFor >= Earliest
    BY DEF NoEarlyAlarm
  <2>1. /\ run = MinConsecutive /\ RunIsSpread /\ RingInv /\ lowFor \in 0 .. Horizon
    BY DEF HistoryInv, Cached, ObserverTypeOK
  <2>2. MinConsecutive \in Nat /\ MinConsecutive >= 1 /\ phase \in Nat /\ Horizon \in Nat
    BY <2>1, Counts
  <2>3. lowFor >= 1 + Spacing(MinConsecutive) + (IF run >= 2 THEN phase ELSE 0)
    BY <2>1, <2>2 DEF RunIsSpread
  <2>4. Spacing(MinConsecutive) = Earliest - 1 /\ Spacing(MinConsecutive) \in Nat
    BY <2>2, SpacingGrows
  <2>5. Earliest \in Int
    BY OodAssumption DEF Earliest
  <2> QED BY <2>1, <2>2, <2>3, <2>4, <2>5
<1> QED BY AlwaysHistory, <1>1, PTL

(***************************************************************************)
(* An alarm is not late: after MinConsecutive periods of the gate with no  *)
(* judgement but low, an accepted frame returns it, unless it is floored.  *)
(***************************************************************************)
THEOREM AlarmIsNotLate == ObservedSpec => []AlarmIsTimely
<1>1. HistoryInv => AlarmIsTimely
  <2> SUFFICES ASSUME HistoryInv, accepted, calm >= MinConsecutive * ComputeEvery
               PROVE  Alarming \/ Floored
    BY DEF AlarmIsTimely
  <2>1. RingInv /\ calm \in 0 .. Horizon
    BY DEF HistoryInv, ObserverTypeOK
  <2>2. /\ ComputeEvery \in Nat /\ ComputeEvery >= 1 /\ phase \in 0 .. ComputeEvery - 1
        /\ MinConsecutive \in Nat /\ run \in 0 .. MinConsecutive /\ Horizon \in Nat
        /\ Horizon >= ComputeEvery /\ filled \in 0 .. Window /\ Window \in Nat
    BY <2>1, Counts
  <2>3. calm > phase /\ calm >= ComputeEvery
    BY <2>1, <2>2 DEF Horizon
  <2>4. run = MinConsecutive
    <3> SUFFICES ASSUME run < MinConsecutive PROVE FALSE
      BY <2>2
    <3>1. calm <= run * ComputeEvery + phase
      BY DEF HistoryInv, CalmIsRun
    <3>2. (run + 1) * ComputeEvery <= MinConsecutive * ComputeEvery
      BY <2>2, Z3
    <3>3. (run + 1) * ComputeEvery = run * ComputeEvery + ComputeEvery
          /\ run * ComputeEvery \in Nat /\ MinConsecutive * ComputeEvery \in Nat
      BY <2>2, Z3
    <3> QED BY <2>1, <2>2, <3>1, <3>2, <3>3
  <2>5. last.violating \/ BelowFloor(last.score)
    BY <2>3, <2>4 DEF HistoryInv, CalmIsRun
  <2>6. verdict = last /\ last # NoVerdict
    <3>1. filled = Window
      BY <2>1, <2>2, <2>3 DEF HistoryInv, Idle
    <3> QED BY <3>1 DEF HistoryInv, Cached
  <2> QED BY <2>5, <2>6 DEF Alarming, Floored
<1> QED BY AlwaysHistory, <1>1, PTL

(***************************************************************************)
(* A poisoned window reads as bad input from one period of the gate on,    *)
(* and for as long as it is poisoned (ood_core.cpp:149-172).               *)
(***************************************************************************)
THEOREM PoisonAlwaysSurfaces == ObservedSpec => []PoisonSurfaces
<1>1. HistoryInv => PoisonSurfaces
  <2> SUFFICES ASSUME HistoryInv, accepted, toxic >= ComputeEvery
               PROVE  verdict = BadInput
    BY DEF PoisonSurfaces
  <2>1. RingInv /\ toxic \in 0 .. Horizon
    BY DEF HistoryInv, ObserverTypeOK
  <2>2. /\ ComputeEvery \in Nat /\ ComputeEvery >= 1 /\ phase \in 0 .. ComputeEvery - 1
        /\ Horizon \in Nat /\ filled \in 0 .. Window /\ Window \in Nat
    BY <2>1, Counts
  <2>3. toxic > phase /\ toxic # 0
    BY <2>1, <2>2
  <2>4. last = BadInput
    BY <2>3 DEF HistoryInv, ToxicIsBad
  <2>5. filled = Window
    BY <2>2, <2>3 DEF HistoryInv, Idle
  <2> QED BY <2>4, <2>5 DEF HistoryInv, Cached
<1> QED BY AlwaysHistory, <1>1, PTL

=============================================================================
