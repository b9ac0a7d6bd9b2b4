---------------------------- MODULE ExecutorCache ----------------------------
(***************************************************************************)
(* RbatisCacheInterceptor: the before and after hooks that rbatis calls    *)
(* around every statement (src/src/rbatis_intercept.rs), the L1 cache of   *)
(* each executor (l1.rs), the buffer of each transaction (transactional.rs) *)
(* and the transaction listener (listener.rs), over a backend whose calls  *)
(* are atomic.  The election of a leader among missing statements is in    *)
(* SingleFlight: here every statement that misses asks the database.       *)
(*                                                                         *)
(* A session runs one executor at a time, a plain connection or a          *)
(* transaction, and one statement at a time on it.  All queries belong to  *)
(* the one namespace of the interceptor.  The database is external: one    *)
(* transaction writes at a time, the others read what is committed.  Every *)
(* DML makes a new version of the data, and a result is the query together *)
(* with the version it was read from.                                      *)
(*                                                                         *)
(* The policy is chosen once, by Init, with the failures that may happen;  *)
(* loss covers TTL, eviction and capacity of both levels.                  *)
(***************************************************************************)
EXTENDS Naturals, FiniteSets

CONSTANTS Session,          \* users of the executor, one statement at a time
          Query,            \* cacheable SELECTs with their arguments
          None,             \* absent entry, result, buffer or writer
          Policies,         \* the policies to choose from, see Policy
          MaxVersion,       \* bound on DML statements
          MaxGeneration     \* bound on bumps

Version == 0..MaxVersion
Generation == 0..MaxGeneration
Digest == Query \X Generation
Result == [query : Query, version : Version]
Buffer == [pending : [Digest -> Result \cup {None}], marked : BOOLEAN]

FaultKind == {"generation", "get", "put", "bump", "query", "loss"}

\* transaction_mode and failure_mode of CachePolicy, and the failures to come.
Policy == [transaction : {"bypass", "defer"}, failure : {"open", "closed"},
           faults : SUBSET FaultKind]

ASSUME ExecutorAssumption ==
  /\ MaxVersion \in Nat /\ MaxGeneration \in Nat
  /\ Policies \subseteq Policy
  /\ None \notin Result \cup Buffer \cup Session

VARIABLES
  policy,      \* the interceptor's policy
  session,     \* session[s]: its executor and the locals of its statement
  l1,          \* l1[s]: the single entry of the current executor of s
  l2,          \* the backend's entries, by digest
  generation,  \* the backend's generation of the namespace
  buffers,     \* buffers[s]: the transaction's buffer, None without one
  committed,   \* the version other sessions read
  latest,      \* the newest version ever written
  writer,      \* the session whose open transaction has written
  fate,        \* fate[v]: what became of version v
  announced    \* history: newest version whose invalidation has returned

vars == <<policy, session, l1, l2, generation, buffers, committed, latest, writer,
          fate, announced>>
cacheVars == <<l1, l2, generation, buffers>>
databaseVars == <<committed, latest, writer, fate>>

Closed == [mode    |-> "closed",  \* the executor: closed, plain or tx
           at      |-> "idle",    \* where its statement stands
           query   |-> None,      \* the query it runs
           target  |-> 0,         \* generation of the key it computed last
           result  |-> None,      \* what it answers, or the query returned
           wrote   |-> 0]         \* version its invalidation is about

Init ==
  /\ policy \in Policies
  /\ session = [s \in Session |-> Closed]
  /\ l1 = [s \in Session |-> None]
  /\ l2 = [d \in Digest |-> None]
  /\ generation = 0
  /\ buffers = [s \in Session |-> None]
  /\ committed = 0
  /\ latest = 0
  /\ writer = None
  /\ fate = [v \in Version |-> IF v = 0 THEN "committed" ELSE "unused"]
  /\ announced = 0

At(s, label) == session[s].mode # "closed" /\ session[s].at = label
InTx(s) == session[s].mode = "tx"
Goto(s, label) == session' = [session EXCEPT ![s].at = label]
Answer(s, result) ==
  session' = [session EXCEPT ![s].at = "idle", ![s].result = result]

\* A backend call fails: the statement goes on, or ends without a result.
MeetError(s, next) ==
  IF policy.failure = "open" THEN Goto(s, next) ELSE Answer(s, None)

\* The bound on generations: no more work that ends in a bump.
Bumping == {s \in Session : session[s].at \in {"bump", "flush"}}
RoomToBump == generation + Cardinality(Bumping) < MaxGeneration

Visible(s) == IF writer = s THEN latest ELSE committed
Larger(a, b) == IF a < b THEN b ELSE a
EmptyBuffer == [pending |-> [d \in Digest |-> None], marked |-> FALSE]

-----------------------------------------------------------------------------
(* Executors.                                                              *)

\* A new executor, with an id of its own; on_event(Begin) makes the buffer.
Open(s, mode) ==
  /\ session[s].mode = "closed"
  /\ session' = [session EXCEPT ![s] = [Closed EXCEPT !.mode = mode]]
  /\ l1' = [l1 EXCEPT ![s] = None]
  /\ buffers' = [buffers EXCEPT ![s] =
                   IF mode = "tx" /\ policy.transaction = "defer" THEN EmptyBuffer ELSE None]
  /\ UNCHANGED <<l2, generation, databaseVars, announced, policy>>

Close(s) ==
  /\ At(s, "idle") /\ ~InTx(s)
  /\ session' = [session EXCEPT ![s] = Closed]
  /\ UNCHANGED <<cacheVars, databaseVars, announced, policy>>

-----------------------------------------------------------------------------
(* A query: before, the database, after.                                   *)

Start(s, q, label, result) ==
  session' = [session EXCEPT ![s] =
    [Closed EXCEPT !.mode = session[s].mode, !.at = label, !.query = q, !.result = result]]

\* Mutant of Ask: a Bypass transaction looks into the cache.
AskWithoutBypass(s, q) ==
  /\ At(s, "idle")
  /\ Start(s, q, "generation", None)
  /\ UNCHANGED <<cacheVars, databaseVars, announced, policy>>

\* before: a Bypass transaction goes to the database; a Defer transaction looks
\* into its buffer, under a key built with generation 0.
Ask(s, q) ==
  /\ At(s, "idle")
  /\ IF InTx(s) /\ policy.transaction = "bypass"
       THEN Start(s, q, "query", None)
       ELSE IF buffers[s] # None /\ buffers[s].pending[<<q, 0>>] # None
              THEN Start(s, q, "idle", buffers[s].pending[<<q, 0>>])
              ELSE Start(s, q, "generation", None)
  /\ UNCHANGED <<cacheVars, databaseVars, announced, policy>>

ReadGeneration(s) ==
  /\ At(s, "generation")
  /\ session' = [session EXCEPT ![s].at = "lookup", ![s].target = generation]
  /\ UNCHANGED <<cacheVars, databaseVars, announced, policy>>

GenerationFails(s) ==
  /\ "generation" \in policy.faults
  /\ At(s, "generation")
  /\ MeetError(s, "query")
  /\ UNCHANGED <<cacheVars, databaseVars, announced, policy>>

\* lookup_value: whatever entry L1 holds for the executor, then L2, whose hit
\* is promoted to L1.
Lookup(s) ==
  /\ At(s, "lookup")
  /\ LET shared == l2[<<session[s].query, session[s].target>>]
     IN  IF l1[s] # None
           THEN Answer(s, l1[s]) /\ UNCHANGED l1
           ELSE IF shared # None
                  THEN Answer(s, shared) /\ l1' = [l1 EXCEPT ![s] = shared]
                  ELSE Goto(s, "query") /\ UNCHANGED l1
  /\ UNCHANGED <<l2, generation, buffers, databaseVars, announced, policy>>

LookupFails(s) ==
  /\ "get" \in policy.faults
  /\ At(s, "lookup")
  /\ l1[s] = None
  /\ MeetError(s, "query")
  /\ UNCHANGED <<cacheVars, databaseVars, announced, policy>>

\* The database executes the SELECT; after does nothing with its error.
RunQuery(s) ==
  /\ At(s, "query")
  /\ \/ session' = [session EXCEPT ![s].at = "after",
          ![s].result = [query |-> session[s].query, version |-> Visible(s)]]
     \/ "query" \in policy.faults /\ Goto(s, "idle")
  /\ UNCHANGED <<cacheVars, databaseVars, announced, policy>>

\* Mutant of After: the buffer of a Defer transaction is not used.
AfterUnbuffered(s) ==
  /\ At(s, "after")
  /\ l1' = [l1 EXCEPT ![s] = session[s].result]
  /\ session' = [session EXCEPT ![s].at = "store", ![s].target = generation]
  /\ UNCHANGED <<l2, generation, buffers, databaseVars, announced, policy>>

\* after: the key is resolved again; L1 is filled; a Defer transaction buffers
\* the result, any other executor goes on to L2 unless the value is too large,
\* or empty and empty results are not cached.
After(s) ==
  /\ At(s, "after")
  /\ l1' = [l1 EXCEPT ![s] = session[s].result]
  /\ \E label \in {"store", "idle"} :
       IF buffers[s] # None /\ label = "store"
         THEN /\ buffers' = [buffers EXCEPT
                   ![s].pending[<<session[s].query, generation>>] = session[s].result]
              /\ session' = [session EXCEPT ![s].at = "idle", ![s].target = generation]
         ELSE /\ session' = [session EXCEPT ![s].at = label, ![s].target = generation]
              /\ UNCHANGED buffers
  /\ UNCHANGED <<l2, generation, databaseVars, announced, policy>>

\* The key cannot be resolved: after returns Ok whatever the failure mode.
AfterFails(s) ==
  /\ "generation" \in policy.faults
  /\ At(s, "after")
  /\ Goto(s, "idle")
  /\ UNCHANGED <<cacheVars, databaseVars, announced, policy>>

\* store_value.
Store(s) ==
  /\ At(s, "store")
  /\ \/ /\ l2' = [l2 EXCEPT ![<<session[s].query, session[s].target>>] = session[s].result]
        /\ Goto(s, "idle")
     \/ /\ "put" \in policy.faults
        /\ MeetError(s, "idle")
        /\ UNCHANGED l2
  /\ UNCHANGED <<l1, generation, buffers, databaseVars, announced, policy>>

-----------------------------------------------------------------------------
(* DML.                                                                    *)

\* Outside a transaction: the database commits, after clears L1.
Update(s) ==
  /\ At(s, "idle") /\ ~InTx(s)
  /\ writer = None
  /\ latest < MaxVersion
  /\ RoomToBump
  /\ latest' = latest + 1
  /\ committed' = latest + 1
  /\ fate' = [fate EXCEPT ![latest + 1] = "committed"]
  /\ session' = [session EXCEPT ![s] =
       [Closed EXCEPT !.mode = "plain", !.at = "bump", !.wrote = latest + 1]]
  /\ l1' = [l1 EXCEPT ![s] = None]
  /\ UNCHANGED <<l2, generation, buffers, writer, announced, policy>>

\* ... and bumps the generation.
Bump(s) ==
  /\ At(s, "bump")
  /\ generation < MaxGeneration
  /\ generation' = generation + 1
  /\ announced' = Larger(announced, session[s].wrote)
  /\ Goto(s, "idle")
  /\ UNCHANGED <<l1, l2, buffers, databaseVars, policy>>

\* The bump returns Err, with or without effect.
BumpFails(s) ==
  /\ "bump" \in policy.faults
  /\ At(s, "bump")
  /\ generation' \in {generation, generation + 1} \cap Generation
  /\ MeetError(s, "idle")
  /\ UNCHANGED <<l1, l2, buffers, databaseVars, announced, policy>>

\* Mutant of UpdateInTx: clear_namespace is not called.
UpdateUnmarked(s) ==
  /\ At(s, "idle") /\ InTx(s)
  /\ writer \in {None, s}
  /\ latest < MaxVersion
  /\ writer' = s
  /\ latest' = latest + 1
  /\ fate' = [v \in Version |-> IF v = latest + 1 THEN "open"
                                ELSE IF fate[v] = "open" THEN "overwritten" ELSE fate[v]]
  /\ session' = [session EXCEPT ![s] = [Closed EXCEPT !.mode = "tx"]]
  /\ l1' = [l1 EXCEPT ![s] = None]
  /\ UNCHANGED <<l2, generation, committed, announced, buffers, policy>>

\* Inside a transaction: after clears L1 and marks the namespace in the buffer.
UpdateInTx(s) ==
  /\ At(s, "idle") /\ InTx(s)
  /\ writer \in {None, s}
  /\ latest < MaxVersion
  /\ writer' = s
  /\ latest' = latest + 1
  /\ fate' = [v \in Version |-> IF v = latest + 1 THEN "open"
                                ELSE IF fate[v] = "open" THEN "overwritten" ELSE fate[v]]
  /\ session' = [session EXCEPT ![s] = [Closed EXCEPT !.mode = "tx"]]
  /\ l1' = [l1 EXCEPT ![s] = None]
  /\ buffers' = IF buffers[s] = None THEN buffers ELSE [buffers EXCEPT ![s].marked = TRUE]
  /\ UNCHANGED <<l2, generation, committed, announced, policy>>

-----------------------------------------------------------------------------
(* The end of a transaction: the database, then the listener's on_event.   *)

\* CommitSuccess.
Commit(s) ==
  /\ At(s, "idle") /\ InTx(s)
  /\ RoomToBump
  /\ session' = [session EXCEPT ![s] =
       [Closed EXCEPT !.mode = "tx", !.at = "flush", !.wrote = IF writer = s THEN latest ELSE 0]]
  /\ IF writer = s
       THEN /\ committed' = latest
            /\ fate' = [fate EXCEPT ![latest] = "committed"]
            /\ writer' = None
       ELSE UNCHANGED <<committed, fate, writer>>
  /\ UNCHANGED <<cacheVars, latest, announced, policy>>

\* Mutant of Rollback: the buffer stays in the table.
RollbackKeepsBuffer(s) ==
  /\ At(s, "idle") /\ InTx(s)
  /\ session' = [session EXCEPT ![s] = Closed]
  /\ IF writer = s
       THEN /\ writer' = None
            /\ fate' = [v \in Version |-> IF v \in committed+1..latest THEN "aborted" ELSE fate[v]]
       ELSE UNCHANGED <<writer, fate>>
  /\ UNCHANGED <<l1, l2, generation, buffers, committed, latest, announced, policy>>

\* Rollback, or CommitFailed or RollbackFailed with the same effect: the buffer
\* is thrown away.  Versions overwritten in the transaction go with it.
Rollback(s) ==
  /\ At(s, "idle") /\ InTx(s)
  /\ session' = [session EXCEPT ![s] = Closed]
  /\ IF writer = s
       THEN /\ writer' = None
            /\ fate' = [v \in Version |-> IF v \in committed+1..latest THEN "aborted" ELSE fate[v]]
       ELSE UNCHANGED <<writer, fate>>
  /\ buffers' = [buffers EXCEPT ![s] = None]
  /\ UNCHANGED <<l1, l2, generation, committed, latest, announced, policy>>

\* flush_to bumps the marked namespace; without Defer the listener bumps on
\* every commit.
MustBump(s) == IF buffers[s] = None THEN TRUE ELSE buffers[s].marked

FlushBump(s) ==
  /\ At(s, "flush")
  /\ IF MustBump(s)
       THEN /\ generation < MaxGeneration
            /\ generation' = generation + 1
            /\ announced' = Larger(announced, session[s].wrote)
       ELSE UNCHANGED <<generation, announced>>
  /\ Goto(s, "flushing")
  /\ UNCHANGED <<l1, l2, buffers, databaseVars, policy>>

\* The bump fails, with or without effect: logged, and the entries are dropped.
FlushFails(s) ==
  /\ "bump" \in policy.faults
  /\ At(s, "flush")
  /\ MustBump(s)
  /\ generation' \in {generation, generation + 1} \cap Generation
  /\ session' = [session EXCEPT ![s] = Closed]
  /\ buffers' = [buffers EXCEPT ![s] = None]
  /\ UNCHANGED <<l1, l2, databaseVars, announced, policy>>

Pending(s) ==
  IF buffers[s] = None THEN {} ELSE {d \in Digest : buffers[s].pending[d] # None}

\* The pending entries are put one by one, under the keys they were read with.
FlushPut(s, d) ==
  /\ At(s, "flushing")
  /\ d \in Pending(s)
  /\ \/ /\ l2' = [l2 EXCEPT ![d] = buffers[s].pending[d]]
        /\ buffers' = [buffers EXCEPT ![s].pending[d] = None]
     \/ /\ "put" \in policy.faults
        /\ UNCHANGED l2
        /\ buffers' = [buffers EXCEPT ![s] = EmptyBuffer]
  /\ UNCHANGED <<session, l1, generation, databaseVars, announced, policy>>

FlushEnds(s) ==
  /\ At(s, "flushing")
  /\ Pending(s) = {}
  /\ session' = [session EXCEPT ![s] = Closed]
  /\ buffers' = [buffers EXCEPT ![s] = None]
  /\ UNCHANGED <<l1, l2, generation, databaseVars, announced, policy>>

\* TTL, eviction or capacity, in L1 and in L2.
LoseL1(s) ==
  /\ "loss" \in policy.faults
  /\ l1[s] # None
  /\ l1' = [l1 EXCEPT ![s] = None]
  /\ UNCHANGED <<session, l2, generation, buffers, databaseVars, announced, policy>>

LoseL2(d) ==
  /\ "loss" \in policy.faults
  /\ l2[d] # None
  /\ l2' = [l2 EXCEPT ![d] = None]
  /\ UNCHANGED <<session, l1, generation, buffers, databaseVars, announced, policy>>

Next ==
  \/ \E s \in Session :
       \/ \E mode \in {"plain", "tx"} : Open(s, mode)
       \/ \E q \in Query : Ask(s, q)
       \/ \E d \in Digest : FlushPut(s, d)
       \/ Close(s) \/ ReadGeneration(s) \/ GenerationFails(s) \/ Lookup(s) \/ LookupFails(s)
       \/ RunQuery(s) \/ After(s) \/ AfterFails(s) \/ Store(s)
       \/ Update(s) \/ Bump(s) \/ BumpFails(s) \/ UpdateInTx(s)
       \/ Commit(s) \/ Rollback(s) \/ FlushBump(s) \/ FlushFails(s) \/ FlushEnds(s)
       \/ LoseL1(s)
  \/ \E d \in Digest : LoseL2(d)

Spec == Init /\ [][Next]_vars

-----------------------------------------------------------------------------
(* Properties.                                                             *)

Label == {"idle", "generation", "lookup", "query", "after", "store", "bump",
          "flush", "flushing"}

\* Type invariant; a transaction has a buffer exactly in Defer mode, for as
\* long as it and its flush last, and only an open transaction holds writes.
TypeOK ==
  /\ policy \in Policies
  /\ session \in [Session ->
       [mode : {"closed", "plain", "tx"}, at : Label, query : Query \cup {None},
        target : Generation, result : Result \cup {None}, wrote : Version]]
  /\ l1 \in [Session -> Result \cup {None}]
  /\ l2 \in [Digest -> Result \cup {None}]
  /\ generation \in Generation
  /\ buffers \in [Session -> Buffer \cup {None}]
  /\ \A s \in Session : buffers[s] # None <=> InTx(s) /\ policy.transaction = "defer"
  /\ writer \in Session \cup {None}
  /\ writer # None => InTx(writer) /\ fate[latest] = "open"
  /\ latest \in Version /\ committed \in 0..latest /\ announced \in 0..committed
  /\ fate \in [Version -> {"unused", "open", "overwritten", "committed", "aborted"}]

Answered(s) == session[s].at = "idle" /\ session[s].result # None

\* A Bypass transaction that has written reads its own last write: before sends it
\* past the caches, whatever fails (rbatis_intercept.rs 297).
BypassReadsOwnWrites ==
  policy.transaction = "bypass" =>
    \A s \in Session :
      writer = s /\ Answered(s) => session[s].result.version = latest

\* Nothing an open or rolled-back transaction wrote is in L2, under any key.
StoreUnpolluted ==
  \A d \in Digest :
    l2[d] # None => l2[d].version <= committed /\ fate[l2[d].version] # "aborted"

\* A Defer transaction keeps it: its results wait in the buffer and go with it
\* (transactional.rs, listener.rs).
DeferUnpolluted == policy.transaction = "defer" => StoreUnpolluted

\* What a later statement can find in L2 was a committed state: an entry read
\* between two writes of a Defer transaction is flushed only under a dead generation.
DeferCommitted ==
  policy.transaction = "defer" =>
    \A q \in Query :
      LET entry == l2[<<q, generation>>]
      IN  entry # None => fate[entry.version] = "committed"

\* The entries of the current generation carry every commit whose invalidation
\* has returned: reads after the commit see the new data (listener.rs 8).
StoreCurrent ==
  \A q \in Query :
    LET entry == l2[<<q, generation>>]
    IN  entry # None => announced <= entry.version

\* A statement is answered with the result of its own query (key.rs 21).
AnswersTheQuery ==
  \A s \in Session :
    Answered(s) => session[s].result.query = session[s].query
=============================================================================
