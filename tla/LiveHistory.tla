----------------------------- MODULE LiveHistory -----------------------------
(***************************************************************************)
(* What a live history promises its readers, who keep offsets while the    *)
(* download goes on: a window over the download that only moves forward    *)
(* and never holds more than its capacity; what an offset holds does not   *)
(* change while the window covers it; the pictures that can be sought are  *)
(* inside, forgotten oldest first and found newest last; and with a new    *)
(* timeline none of the old pictures remains.  Timeshift is shown to       *)
(* implement it, and so is the history LivePlayback takes for granted.     *)
(***************************************************************************)
EXTENDS Integers

CONSTANT Capacity

VARIABLES
  begin, end,   \* the window: begin .. end - 1
  generation,   \* the number of the timeline
  marks,        \* the offsets of the pictures that can be sought
  data          \* what the window holds

vars == <<begin, end, generation, marks, data>>

Init ==
  /\ begin = 0 /\ end = 0 /\ generation = 0 /\ marks = {}
  /\ DOMAIN data = {}

Slide ==
  /\ begin <= begin' /\ end <= end' /\ begin' <= end' /\ end' - begin' <= Capacity
  /\ DOMAIN data' = begin' .. end' - 1
  /\ \A o \in DOMAIN data \cap DOMAIN data' : data'[o] = data[o]
  /\ marks' \subseteq begin' .. end' - 1

\* The timeline goes on: the oldest pictures are forgotten, new ones found.
GoOn ==
  /\ Slide
  /\ generation' = generation
  /\ \A m \in marks \ marks', n \in marks \cap marks' : m < n
  /\ \A m \in marks, n \in marks' \ marks : m < n

\* A provider's break, a clock that jumps, another video stream.
NewTimeline ==
  /\ Slide
  /\ generation' = generation + 1
  /\ marks \cap marks' = {}

Next == GoOn \/ NewTimeline
Spec == Init /\ [][Next]_vars
=============================================================================
