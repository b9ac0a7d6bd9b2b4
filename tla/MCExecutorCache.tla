--------------------------- MODULE MCExecutorCache ---------------------------
(***************************************************************************)
(* Small instances of ExecutorCache for TLC.                               *)
(***************************************************************************)
EXTENDS ExecutorCache, TLC

\* Sessions are interchangeable.
Interchangeable == Permutations(Session)

\* The default policy, where nothing fails.
DefaultPolicy == {[transaction |-> "bypass", failure |-> "open", faults |-> {}]}

\* Bypass, fail closed, where every call may fail; Defer, fail open, where the
\* calls of the flush fail and entries are lost.
BothModes ==
  {[transaction |-> "bypass", failure |-> "closed",
    faults |-> {"generation", "get", "put", "bump", "query"}],
   [transaction |-> "defer", failure |-> "open", faults |-> {"bump", "put", "loss"}]}
=============================================================================
