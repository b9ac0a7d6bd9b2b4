--------------------------- MODULE MCLocalBackend ---------------------------
(***************************************************************************)
(* Small instances of LocalBackend for TLC.                                *)
(***************************************************************************)
EXTENDS LocalBackend, TLC

\* Threads and digests are interchangeable.
Interchangeable == Permutations(Client) \cup Permutations(Key)

\* Racing LFU searches need entries that were used before, and no clock; the limits and
\* expiry are those of the other strategies.
Scopes ==
  [s \in Strategies |->
     IF s = "lfu" THEN [limits |-> {2}, numbers |-> MaxSeq, ticks |-> 0]
     ELSE [limits |-> {1, 2}, numbers |-> 4, ticks |-> MaxTime]]

\* The digests hash to different shards, the debugging entry to the last.
Apart ==
  {f \in [Slot -> 1..Shards] : f[Debug] = Shards /\ \A j, k \in Key : j # k => f[j] # f[k]}
=============================================================================
