--------------------------- MODULE MCCatalogStore ---------------------------
(* An instance of CatalogStore: three saves, and storage that may refuse   *)
(* any operation, each time anew. *)
EXTENDS CatalogStore

AnyOperation == FileOps
=============================================================================
