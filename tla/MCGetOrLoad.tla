---------------------------- MODULE MCGetOrLoad ----------------------------
(***************************************************************************)
(* Small instances of GetOrLoad for TLC: one key of one namespace.         *)
(***************************************************************************)
EXTENDS GetOrLoad, TLC

CONSTANT n1

OneNamespace == [k \in Key |-> n1]

\* Requests are interchangeable, and so are writers.
Interchangeable == Permutations(Request) \cup Permutations(Writer)
=============================================================================
