----------------------------- MODULE MCBackends -----------------------------
(***************************************************************************)
(* Small instances of Backends for TLC.                                    *)
(***************************************************************************)
EXTENDS Backends, TLC

\* Callers are interchangeable.
Interchangeable == Permutations(Client)
=============================================================================
