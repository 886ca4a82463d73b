------------------------------ MODULE MCTimeshift ------------------------------
(* Small instances of Timeshift: a ring of four units on a clock of 32 ticks. *)
EXTENDS Timeshift

H264(pid) == [pid |-> pid, codec |-> "h264"]
Picture(pid, ticks, random) ==
  [sync |-> TRUE, pid |-> pid, ticks |-> ticks, random |-> random,
   programme |-> NoProgramme]
Table(programme) == [sync |-> TRUE, pid |-> 0, ticks |-> 0, random |-> FALSE,
                     programme |-> programme]
Other == Table(NoProgramme)

MCModes == {"plain", "replay", "webm"}
\* One unit at a time, a resynchronisation, a programme change, and a burst longer than the ring.
MCInputs ==
  {<<u>> : u \in {Picture(1, 0, TRUE), Picture(1, 30, TRUE), Table(H264(1))}}
  \cup {<<Junk, Picture(1, 3, FALSE), Picture(1, 5, TRUE)>>,
        <<Table(H264(2)), Picture(2, 3, TRUE)>>,
        <<Picture(1, 0, TRUE), Other, Picture(1, 3, FALSE), Picture(1, 5, TRUE), Other>>}
\* Pictures in decoding order across the wrap of the clock: 31 is shown before 1.
WrapInputs == {<<Table(H264(1)), Picture(1, 30, TRUE), Picture(1, 1, FALSE),
                 Picture(1, 31, FALSE), Picture(1, 3, FALSE)>>}
MCBlocks ==
  {[video |-> 1, pts |-> 0, units |-> 1, key |-> TRUE],
   [video |-> 1, pts |-> 60, units |-> 2, key |-> TRUE],
   [video |-> 1, pts |-> 60, units |-> 1, key |-> FALSE],
   [video |-> 2, pts |-> 100, units |-> 1, key |-> TRUE],
   [video |-> 2, pts |-> 100, units |-> 3, key |-> FALSE]}
MCTargets == {40, 1000}
================================================================================
