----------------------------- MODULE MCRecording -----------------------------
(***************************************************************************)
(* A programme, its second half on another channel, and a reminder.        *)
(***************************************************************************)
EXTENDS Recording

MCProgrammes ==
  {[start |-> 0, end |-> 2, recording |-> TRUE],
   [start |-> 1, end |-> 2, recording |-> TRUE],
   [start |-> 1, end |-> 2, recording |-> FALSE]}
=============================================================================
