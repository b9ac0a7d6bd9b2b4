--------------------------- MODULE MCSingleFlight ---------------------------
(***************************************************************************)
(* Small instances of SingleFlight for TLC.                                *)
(***************************************************************************)
EXTENDS SingleFlight, TLC

\* Statements are interchangeable.
Interchangeable == Permutations(Statement)
=============================================================================
