----------------------------- MODULE MokaBackend -----------------------------
(***************************************************************************)
(* MokaCacheBackend (src/rbatis-cache-moka/src/lib.rs).  One atomic counts *)
(* the bumps of all namespaces; generation does not read it but an entry   *)
(* of the moka cache, which a bump inserts in a second step and which      *)
(* expires and is evicted like any other.                                  *)
(***************************************************************************)
EXTENDS BackendCalls

VARIABLES
  issued,  \* the AtomicU64
  shown    \* the namespace's generation entry in the cache, None when absent

mokaVars == <<issued, shown>>

MokaInit ==
  /\ issued = 0
  /\ shown = None

Shown == IF shown = None THEN 0 ELSE shown

\* The bound on bumps.
MokaRoom ==
  issued + Cardinality({p \in Bumping : At(p, "begun")}) < MaxGeneration

MokaBegin(p, op) ==
  /\ op = "bump" => MokaRoom
  /\ Begin(p, op)
  /\ UNCHANGED mokaVars

\* generation, get, put.
Read(p) ==
  /\ At(p, "begun") /\ ~Doing(p, "bump")
  /\ Receive(p, "read", IF Doing(p, "generation") THEN Shown ELSE 0)
  /\ UNCHANGED <<backend, historyVars, mokaVars>>

ReturnRead(p) ==
  /\ At(p, "read")
  /\ Succeed(p)
  /\ UNCHANGED mokaVars

\* bump_generation: fetch_add ...
Count(p) ==
  /\ At(p, "begun") /\ Doing(p, "bump")
  /\ issued' = issued + 1
  /\ Receive(p, "counted", issued + 1)
  /\ UNCHANGED <<backend, historyVars, shown>>

\* ... and the insertion of the entry that generation reads.
Show(p) ==
  /\ At(p, "counted")
  /\ shown' = call[p].value
  /\ Succeed(p)
  /\ UNCHANGED issued

\* The caller drops the future; a counted bump is then never shown.
Abandon(p) ==
  /\ call[p].at \in {"begun", "counted", "read"}
  /\ Fail(p)
  /\ UNCHANGED mokaVars

\* A bump of another namespace takes a number.
BumpElsewhere ==
  /\ MokaRoom
  /\ issued' = issued + 1
  /\ UNCHANGED <<callerVars, shown>>

\* The TTL of the cache passes, or its capacity is reached.
MokaLose ==
  /\ shown # None
  /\ shown' = None
  /\ Forget
  /\ UNCHANGED issued

MokaNext ==
  \/ \E p \in Client :
       \/ \E op \in Op : MokaBegin(p, op)
       \/ Read(p) \/ ReturnRead(p) \/ Count(p) \/ Show(p) \/ Abandon(p)
  \/ BumpElsewhere \/ MokaLose

-----------------------------------------------------------------------------
(* Properties.                                                             *)

\* After concurrent bumps the generation is the last one: with no bump in progress,
\* the entry, unless it was lost, is not older than any bump returned (contract 3 of
\* src/src/testing.rs, 92).
ShowsLatestBump ==
  Bumping = {} /\ shown # None => best <= shown
=============================================================================
