---------------------------- MODULE MCSelfUpdate ----------------------------
(* An entry the release drops, two it replaces and one it adds. *)
EXTENDS SelfUpdate

CONSTANTS owners, sys, bin, added

MCOld == {owners, sys, bin}
MCNew == {sys, bin, added}
=============================================================================
