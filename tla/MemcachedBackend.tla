--------------------------- MODULE MemcachedBackend ---------------------------
(***************************************************************************)
(* MemcachedCacheBackend (src/rbatis-cache-memcached/src/memcached_cache.rs*)
(* and client_wrapper.rs).  A call runs on a thread of spawn_blocking,     *)
(* which goes on when the caller drops its future.  bump_generation is two *)
(* commands, add and increment, and other calls and the loss of the key    *)
(* fall between them.  The server is external.                             *)
(***************************************************************************)
EXTENDS BackendCalls

VARIABLES
  stored,   \* the server's generation key, None when absent
  orphans   \* orphans[label]: bumps at label whose caller has left

memcachedVars == <<stored, orphans>>

MemcachedInit ==
  /\ stored = None
  /\ orphans = [label \in {"begun", "added"} |-> 0]

Stored == IF stored = None THEN 0 ELSE stored
Left == orphans["begun"] + orphans["added"]

\* The bound on bumps.
MemcachedRoom == Stored + Left + Cardinality(Bumping) < MaxGeneration

MemcachedBegin(p, op) ==
  /\ op = "bump" => MemcachedRoom
  /\ Begin(p, op)
  /\ UNCHANGED memcachedVars

\* client_get_u64, get_object or put_object.
Command(p) ==
  /\ At(p, "begun") /\ ~Doing(p, "bump")
  /\ Receive(p, "done", IF Doing(p, "generation") THEN Stored ELSE 0)
  /\ UNCHANGED <<backend, historyVars, memcachedVars>>

\* Mutant of Add: set instead of add.
Set(p) ==
  /\ At(p, "begun") /\ Doing(p, "bump")
  /\ stored' = 0
  /\ Goto(p, "added")
  /\ UNCHANGED <<backend, historyVars, orphans>>

\* client_incr: add 0, which does nothing to a key that exists; its error, with or
\* without effect, is ignored ...
Add(p) ==
  /\ At(p, "begun") /\ Doing(p, "bump")
  /\ stored' \in {stored, Stored}
  /\ Goto(p, "added")
  /\ UNCHANGED <<backend, historyVars, orphans>>

\* ... and increment, which fails on a key that does not exist.
Increment(p) ==
  /\ At(p, "added")
  /\ IF stored = None
       THEN Fail(p) /\ UNCHANGED stored
       ELSE /\ stored' = stored + 1
            /\ Receive(p, "done", stored + 1)
            /\ UNCHANGED <<backend, historyVars>>
  /\ UNCHANGED orphans

Return(p) ==
  /\ At(p, "done")
  /\ Succeed(p)
  /\ UNCHANGED memcachedVars

\* The connection fails or its timeout passes, before or after the command.
ConnectionFails(p) ==
  /\ call[p].at \in {"begun", "added", "done"}
  /\ Fail(p)
  /\ UNCHANGED memcachedVars

\* The caller drops the future; the thread of a bump goes on alone.
Leave(p) ==
  /\ call[p].at \in {"begun", "added"}
  /\ IF Doing(p, "bump")
       THEN Left < MaxLate /\ orphans' = [orphans EXCEPT ![call[p].at] = @ + 1]
       ELSE UNCHANGED orphans
  /\ Fail(p)
  /\ UNCHANGED stored

OrphanAdds ==
  /\ orphans["begun"] > 0
  /\ stored' \in {stored, Stored}
  /\ orphans' = [orphans EXCEPT !["begun"] = @ - 1, !["added"] = @ + 1]
  /\ UNCHANGED callerVars

OrphanIncrements ==
  /\ orphans["added"] > 0
  /\ stored' = IF stored = None THEN None ELSE stored + 1
  /\ orphans' = [orphans EXCEPT !["added"] = @ - 1]
  /\ UNCHANGED callerVars

\* The server evicts the key or restarts.
MemcachedLose ==
  /\ stored # None
  /\ stored' = None
  /\ Forget
  /\ UNCHANGED orphans

MemcachedNext ==
  \/ \E p \in Client :
       \/ \E op \in Op : MemcachedBegin(p, op)
       \/ Command(p) \/ Add(p) \/ Increment(p) \/ Return(p)
       \/ ConnectionFails(p) \/ Leave(p)
  \/ OrphanAdds \/ OrphanIncrements \/ MemcachedLose
=============================================================================
