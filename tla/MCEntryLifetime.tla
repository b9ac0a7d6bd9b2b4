---------------------------- MODULE MCEntryLifetime ----------------------------
(***************************************************************************)
(* Small instances of EntryLifetime for TLC.                               *)
(***************************************************************************)
EXTENDS EntryLifetime, TLC

\* What before builds: version "1", data source "default", no tenant, no
\* statement id.  The bytes of a parameter array begin with its length, 144 + n.
Question(kinds, canonical, locking, generation, parameters) ==
  [version |-> <<49>>, data_source |-> <<100>>, driver |-> <<109>>, tenant |-> NoTenant,
   namespace |-> <<110>>, statement_id |-> <<>>, generation |-> generation,
   sql |-> [canonical |-> canonical, kinds |-> kinds, locking |-> locking],
   parameters |-> parameters]

\* Two queries whose texts, generation and parameters run together to the same
\* bytes, and a locking read.
Questions ==
  {Question(<<"query">>, <<115>>, FALSE, 145, <<145, 144>>),
   Question(<<"query">>, <<115, 145>>, FALSE, 145, <<144>>),
   Question(<<"query">>, <<115, 117>>, TRUE, 145, <<144>>)}

\* Executors are interchangeable.
Interchangeable == Permutations(Executor)
=============================================================================
