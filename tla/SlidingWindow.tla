--------------------------- MODULE SlidingWindow ---------------------------
(***************************************************************************)
(* What the OOD core's buffer promises: the spread is taken over the last  *)
(* Size frames accepted in this episode, oldest first.  All frames of an   *)
(* episode have one dimension.  An episode ends when the core is reset, or *)
(* when the first frame with content pins the dimension of an episode of   *)
(* empty ones.                                                             *)
(***************************************************************************)
EXTENDS Naturals, Sequences

CONSTANTS Size,     \* frames the window holds
          Frames    \* contents of a frame

VARIABLES window,   \* the frames of the episode, at most Size of them
          size,     \* their dimension
          fixed     \* the configured dimension, 0 when frames choose it

windowVars == <<window, size, fixed>>

Init == window = <<>> /\ size = fixed

\* The newest frame goes in, the oldest gives way once the window is full.
Slide(x) ==
  /\ window' = Append(IF Len(window) < Size THEN window ELSE Tail(window), x)
  /\ UNCHANGED <<size, fixed>>

\* The first frame with content starts the episode over at its dimension.
StartOver(x) ==
  /\ size = 0
  /\ size' \in Nat \ {0}
  /\ window' = <<x>>
  /\ UNCHANGED fixed

Forget == window' = <<>> /\ size' = fixed /\ UNCHANGED fixed

Next == (\E x \in Frames : Slide(x) \/ StartOver(x)) \/ Forget

Spec == Init /\ [][Next]_windowVars
=============================================================================
