------------------------------- MODULE Backends -------------------------------
(***************************************************************************)
(* A deployment: the interceptor's Arc<dyn CacheBackend> is one of the     *)
(* external backends, chosen once.                                         *)
(***************************************************************************)
EXTENDS RedisBackend, MemcachedBackend, MokaBackend

vars == <<callerVars, redisVars, memcachedVars, mokaVars>>

Init == CallInit /\ RedisInit /\ MemcachedInit /\ MokaInit

Next ==
  \/ backend = "redis" /\ RedisNext /\ UNCHANGED <<memcachedVars, mokaVars>>
  \/ backend = "memcached" /\ MemcachedNext /\ UNCHANGED <<redisVars, mokaVars>>
  \/ backend = "moka" /\ MokaNext /\ UNCHANGED <<redisVars, memcachedVars>>

Spec == Init /\ [][Next]_vars

-----------------------------------------------------------------------------
(* Properties.                                                             *)

Label == {"idle", "begun", "sent", "answered", "failed", "opening", "storing", "resetting",
          "added", "done", "counted", "read"}

\* Type invariant; a vouched generation was issued by the key that is still there.
TypeOK ==
  /\ backend \in Deployments
  /\ call \in [Client -> [op : Op \cup {"none"}, at : Label, begun : Generation,
                          value : 0..Larger(MaxGeneration, Cooldown), vouches : BOOLEAN]]
  /\ floor \in Generation /\ best \in Generation /\ taken \subseteq 1..floor
  /\ \A p \in Client : call[p].begun <= floor
  /\ counter \in Generation /\ late \in 0..MaxLate /\ openFor \in 0..Cooldown
  /\ failures \in 0..Limit + Cardinality(Client) - 1
  /\ stored \in Generation \cup {None} /\ Left <= MaxLate
  /\ issued \in Generation /\ shown \in Generation \cup {None}

GenerationOp(p) == call[p].op \in {"generation", "bump"}

Promise == INSTANCE GenerationPromise WITH
  serial <- Serial,
  op <- [p \in Client |-> IF GenerationOp(p) THEN call[p].op ELSE "none"],
  begun <- [p \in Client |-> IF GenerationOp(p) THEN call[p].begun ELSE 0],
  vouches <- [p \in Client |-> call[p].vouches]

\* Every backend keeps the promise of the trait (backend.rs 141-148): through
\* timeouts, late commands, dropped futures and racing bumps no generation is gone
\* back behind unless the cache lost it, and no two bumps return the same one.
PromiseSpec == Promise!Spec
=============================================================================
