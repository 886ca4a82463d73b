-------------------------- MODULE MCCatalogRefresh --------------------------
(* Two sources, the first a playlist; two accounts; one new revision. *)
EXTENDS CatalogRefresh

CONSTANTS playlist, portal

MCSources == {playlist, portal}
MCPlaylists == {playlist}
=============================================================================
