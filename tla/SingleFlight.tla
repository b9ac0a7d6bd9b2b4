----------------------------- MODULE SingleFlight -----------------------------
(***************************************************************************)
(* The leader election of the executor integration: SingleFlight and       *)
(* LoadState of src/src/singleflight.rs, driven by the blocking loop of    *)
(* before and by the complete_load of after (src/src/rbatis_intercept.rs). *)
(*                                                                         *)
(* All statements run the same SQL with the same arguments, so a digest is *)
(* told apart by its generation alone.  A LoadState has a value behind a   *)
(* tokio Mutex and a Notify; the table is a DashMap whose shard is read-   *)
(* locked while complete_load holds a reference into it, and write-locked  *)
(* by an election or a removal.  Executor session caches and transactions  *)
(* are in ExecutorCache.                                                   *)
(***************************************************************************)
EXTENDS Naturals

CONSTANTS Statement,      \* tasks running the query, one call at a time each
          LoadState,      \* identities of the Arc<LoadState> ever allocated
          None,           \* absent table entry or LoadState, free mutex
          Faults,         \* the failures that may happen, see FaultKind
          MaxAttempts,    \* MAX_SINGLEFLIGHT_ATTEMPTS
          MaxGeneration   \* bound on bumps by other sessions

Generation == 0..MaxGeneration

\* generation: the backend cannot tell it; query: the database returns Err;
\* store: the write to L2 is refused or too large; loss: an entry of L2 goes;
\* cancel: the caller drops the statement's future at an await.
FaultKind == {"generation", "query", "store", "loss", "cancel"}

ASSUME SingleFlightAssumption ==
  /\ MaxAttempts \in Nat \ {0}
  /\ MaxGeneration \in Nat
  /\ Faults \subseteq FaultKind
  /\ None \notin LoadState \cup Statement

VARIABLES
  call,        \* call[p]: the locals of statement p, see Idle
  table,       \* the map, by digest
  value,       \* value[s]: LoadValue of the LoadState s
  mutex,       \* mutex[s]: who holds the lock of value[s]
  generation,  \* the backend's generation
  cached       \* the generations under which L2 has a fresh entry

vars == <<call, table, value, mutex, generation, cached>>
flightVars == <<table, value, mutex>>
cacheVars == <<generation, cached>>

\* A statement that is not running.
Idle == [at        |-> "idle",
         digest    |-> 0,      \* generation of the digest computed by before
         target    |-> 0,      \* generation of the key computed last
         attempts  |-> 0,      \* rounds lost in the loop of before
         held      |-> None,   \* the LoadState it follows, or completes
         leads     |-> None,   \* history: the LoadState it was elected to load
         notified  |-> FALSE,  \* its Notified future has been woken
         succeeded |-> FALSE]  \* its query returned Ok

Init ==
  /\ call = [p \in Statement |-> Idle]
  /\ table = [g \in Generation |-> None]
  /\ value = [s \in LoadState |-> "loading"]
  /\ mutex = [s \in LoadState |-> None]
  /\ generation = 0
  /\ cached = {}

At(p, label) == call[p].at = label
Goto(p, label) == call' = [call EXCEPT ![p].at = label]
Finish(p) == call' = [call EXCEPT ![p] = Idle]

\* complete_load holds its reference into the map from get to drop(state).
ShardUnread == \A p \in Statement : call[p].at \notin {"mark", "notify"}

Unallocated(s) ==
  /\ \A g \in Generation : table[g] # s
  /\ \A p \in Statement : call[p].held # s /\ call[p].leads # s

-----------------------------------------------------------------------------
(* before                                                                  *)

Begin(p) ==
  /\ At(p, "idle")
  /\ Goto(p, "resolve")
  /\ UNCHANGED <<flightVars, cacheVars>>

\* resolve_key, before the loop ("resolve") and after each wait ("reresolve");
\* only the first one sets the digest that the elections use.
Resolve(p) ==
  /\ \/ /\ At(p, "resolve")
        /\ call' = [call EXCEPT ![p].at = "lookup", ![p].target = generation,
                                ![p].digest = generation]
     \/ /\ At(p, "reresolve")
        /\ call' = [call EXCEPT ![p].at = "lookup", ![p].target = generation]
  /\ UNCHANGED <<flightVars, cacheVars>>

\* The generation is unavailable: Action::Next, the statement goes to the
\* database (fail open before the loop; whatever the failure mode inside it).
ResolveFails(p) ==
  /\ "generation" \in Faults
  /\ At(p, "resolve") \/ At(p, "reresolve")
  /\ call' = [call EXCEPT ![p].at = "query", ![p].held = None]
  /\ UNCHANGED <<flightVars, cacheVars>>

\* lookup_value: a hit answers the statement.
Lookup(p) ==
  /\ At(p, "lookup")
  /\ IF call[p].target \in cached THEN Finish(p) ELSE Goto(p, "elect")
  /\ UNCHANGED <<flightVars, cacheVars>>

\* try_begin_load finds the digest vacant: the statement leads.
BecomeLeader(p) ==
  /\ At(p, "elect")
  /\ ShardUnread
  /\ table[call[p].digest] = None
  /\ \E s \in LoadState :
       /\ Unallocated(s)
       /\ s = CHOOSE free \in LoadState : Unallocated(free)
       /\ table' = [table EXCEPT ![call[p].digest] = s]
       /\ value' = [value EXCEPT ![s] = "loading"]
       /\ mutex' = [mutex EXCEPT ![s] = None]
       /\ call' = [call EXCEPT ![p].at = "query", ![p].held = None, ![p].leads = s]
  /\ UNCHANGED cacheVars

\* Mutants of BecomeFollower: one round too many; rounds are not counted.
GivesUpLate(p) ==
  /\ At(p, "elect")
  /\ ShardUnread
  /\ table[call[p].digest] # None
  /\ LET lost == call[p].attempts + 1
     IN  call' = [call EXCEPT
           ![p].at = IF lost > MaxAttempts THEN "query" ELSE "check",
           ![p].held = IF lost > MaxAttempts THEN None ELSE table[call[p].digest],
           ![p].attempts = lost]
  /\ UNCHANGED <<flightVars, cacheVars>>

NeverGivesUp(p) ==
  /\ At(p, "elect")
  /\ ShardUnread
  /\ table[call[p].digest] # None
  /\ call' = [call EXCEPT ![p].at = "check", ![p].held = table[call[p].digest]]
  /\ UNCHANGED <<flightVars, cacheVars>>

\* try_begin_load finds a load in progress: wait, or give up after MaxAttempts.
BecomeFollower(p) ==
  /\ At(p, "elect")
  /\ ShardUnread
  /\ table[call[p].digest] # None
  /\ LET lost == call[p].attempts + 1
     IN  call' = [call EXCEPT
           ![p].at = IF lost >= MaxAttempts THEN "query" ELSE "check",
           ![p].held = IF lost >= MaxAttempts THEN None ELSE table[call[p].digest],
           ![p].attempts = lost]
  /\ UNCHANGED <<flightVars, cacheVars>>

\* LoadState::wait: lock the value ...
CheckLock(p) ==
  /\ At(p, "check")
  /\ mutex[call[p].held] = None
  /\ mutex' = [mutex EXCEPT ![call[p].held] = p]
  /\ Goto(p, "checking")
  /\ UNCHANGED <<table, value, cacheVars>>

\* ... look at it, unlock, and return at once unless it is Loading ...
CheckRead(p) ==
  /\ At(p, "checking")
  /\ mutex' = [mutex EXCEPT ![call[p].held] = None]
  /\ Goto(p, IF value[call[p].held] = "loading" THEN "subscribe" ELSE "reresolve")
  /\ UNCHANGED <<table, value, cacheVars>>

\* ... then create the Notified future, which later notify_waiters calls reach.
Subscribe(p) ==
  /\ At(p, "subscribe")
  /\ Goto(p, "wait")
  /\ UNCHANGED <<flightVars, cacheVars>>

\* The wait ends: woken, or after FOLLOWER_WAIT_TIMEOUT.
Wake(p) ==
  /\ At(p, "wait")
  /\ call[p].notified
  /\ call' = [call EXCEPT ![p].at = "reresolve", ![p].notified = FALSE]
  /\ UNCHANGED <<flightVars, cacheVars>>

Timeout(p) ==
  /\ At(p, "wait")
  /\ ~call[p].notified
  /\ Goto(p, "reresolve")
  /\ UNCHANGED <<flightVars, cacheVars>>

-----------------------------------------------------------------------------
(* The database, then after.                                               *)

Query(p) ==
  /\ At(p, "query")
  /\ \E ok \in {TRUE} \cup (IF "query" \in Faults THEN {FALSE} ELSE {}) :
       call' = [call EXCEPT ![p].at = "resolveAfter", ![p].succeeded = ok]
  /\ UNCHANGED <<flightVars, cacheVars>>

\* resolve_key again: the generation may have moved since before.
ResolveAfter(p) ==
  /\ At(p, "resolveAfter")
  /\ call' = [call EXCEPT ![p].at = "find", ![p].target = generation]
  /\ UNCHANGED <<flightVars, cacheVars>>

\* ... or fails, and after returns without completing the load.
ResolveAfterFails(p) ==
  /\ "generation" \in Faults
  /\ At(p, "resolveAfter")
  /\ Finish(p)
  /\ UNCHANGED <<flightVars, cacheVars>>

\* complete_load: map.get(digest), by the leader or by any other statement.
Find(p) ==
  /\ At(p, "find")
  /\ LET s == table[call[p].target]
     IN  call' = [call EXCEPT ![p].at = IF s = None THEN "store" ELSE "mark", ![p].held = s]
  /\ UNCHANGED <<flightVars, cacheVars>>

\* The value is set only if try_lock succeeds.
Mark(p) ==
  /\ At(p, "mark")
  /\ value' = IF mutex[call[p].held] = None
                THEN [value EXCEPT ![call[p].held] =
                       IF call[p].succeeded THEN "done" ELSE "failed"]
                ELSE value
  /\ Goto(p, "notify")
  /\ UNCHANGED <<table, mutex, cacheVars>>

\* notify_waiters reaches the Notified futures that exist; drop(state).
Notify(p) ==
  /\ At(p, "notify")
  /\ call' = [q \in Statement |->
       IF q = p THEN [call[p] EXCEPT !.at = "remove", !.held = None]
       ELSE IF At(q, "wait") /\ call[q].held = call[p].held
              THEN [call[q] EXCEPT !.notified = TRUE]
              ELSE call[q]]
  /\ UNCHANGED <<flightVars, cacheVars>>

\* Mutant of Remove: the entry stays while a follower still refers to it.
RemoveUnshared(p) ==
  /\ At(p, "remove")
  /\ ShardUnread
  /\ table' = IF \E q \in Statement \ {p} : call[q].held = table[call[p].target]
                THEN table
                ELSE [table EXCEPT ![call[p].target] = None]
  /\ Goto(p, "store")
  /\ UNCHANGED <<value, mutex, cacheVars>>

\* map.remove(digest), whatever LoadState is there by now.
Remove(p) ==
  /\ At(p, "remove")
  /\ ShardUnread
  /\ table' = [table EXCEPT ![call[p].target] = None]
  /\ Goto(p, "store")
  /\ UNCHANGED <<value, mutex, cacheVars>>

\* store_value, after the followers have been woken.
Store(p) ==
  /\ At(p, "store")
  /\ \/ call[p].succeeded /\ cached' = cached \cup {call[p].target}
     \/ (~call[p].succeeded \/ "store" \in Faults) /\ UNCHANGED cached
  /\ Finish(p)
  /\ UNCHANGED <<flightVars, generation>>

\* The statement's future is dropped at an await; the table is not told.
Cancel(p) ==
  /\ "cancel" \in Faults
  /\ call[p].at \in {"resolve", "reresolve", "lookup", "check", "wait", "query",
                     "resolveAfter", "store"}
  /\ Finish(p)
  /\ UNCHANGED <<flightVars, cacheVars>>

\* A DML of another session bumps the generation.
Bump ==
  /\ generation < MaxGeneration
  /\ generation' = generation + 1
  /\ UNCHANGED <<call, flightVars, cached>>

\* The entry of L2 expires or is evicted.
Lose(g) ==
  /\ "loss" \in Faults
  /\ g \in cached
  /\ cached' = cached \ {g}
  /\ UNCHANGED <<call, flightVars, generation>>

Step(p) ==
  \/ Resolve(p) \/ ResolveFails(p) \/ Lookup(p) \/ BecomeLeader(p) \/ BecomeFollower(p)
  \/ CheckLock(p) \/ CheckRead(p) \/ Subscribe(p) \/ Wake(p) \/ Timeout(p)
  \/ Query(p) \/ ResolveAfter(p) \/ ResolveAfterFails(p) \/ Find(p) \/ Mark(p)
  \/ Notify(p) \/ Remove(p) \/ Store(p)

Next ==
  \/ \E p \in Statement : Begin(p) \/ Step(p) \/ Cancel(p)
  \/ Bump
  \/ \E g \in Generation : Lose(g)

Spec == Init /\ [][Next]_vars

\* A started statement keeps being polled, timers fire, the database answers,
\* the tokio Mutex is granted in turn and a DashMap shard's write lock is
\* granted although readers keep coming.
Fairness ==
  \A p \in Statement :
    /\ WF_vars(Step(p))
    /\ SF_vars(CheckLock(p))
    /\ SF_vars(BecomeLeader(p) \/ BecomeFollower(p))
    /\ SF_vars(Remove(p))

FairSpec == Spec /\ Fairness

-----------------------------------------------------------------------------
(* Properties.                                                             *)

\* Type invariant: counters and references stay within their domains, and the
\* mutex of a LoadState is held only by a follower looking at its value.
TypeOK ==
  /\ \A p \in Statement :
       /\ call[p].digest \in Generation /\ call[p].target \in Generation
       /\ call[p].attempts \in 0..MaxAttempts
       /\ call[p].held \in LoadState \cup {None}
       /\ call[p].leads \in LoadState \cup {None}
       /\ call[p].at \in {"check", "checking", "subscribe", "wait", "mark", "notify"} =>
            call[p].held # None
  /\ table \in [Generation -> LoadState \cup {None}]
  /\ value \in [LoadState -> {"loading", "done", "failed"}]
  /\ \A s \in LoadState :
       mutex[s] # None => At(mutex[s], "checking") /\ call[mutex[s]].held = s
  /\ generation \in Generation
  /\ cached \subseteq Generation

\* A load in the table has a leader that is still on its way to complete it
\* (try_begin_load and complete_load): else every later miss of that digest
\* would wait for nobody.
HasLeader(g) == table[g] # None => \E p \in Statement : call[p].leads = table[g]

\* A bump leaves loads behind that have none (after completes the digest of the
\* generation it finds, rbatis_intercept.rs 372), but never under the current
\* generation, where the next statement would meet them.
CurrentEntryHasLeader == HasLeader(generation)

\* Every statement ends: a follower waits for a bounded time, a bounded number
\* of rounds, and then asks the database itself.
EveryStatementEnds == \A p \in Statement : ~At(p, "idle") ~> At(p, "idle")
=============================================================================
