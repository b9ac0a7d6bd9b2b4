-------------------------------- MODULE L1Cache --------------------------------
(***************************************************************************)
(* L1Cache (src/src/l1.rs): one entry for each executor, in a DashMap with *)
(* a limit on executors.  An operation on the map is atomic; get and put   *)
(* make several, and the calls of other executors fall between them.       *)
(*                                                                         *)
(* A deadline is kept as the time left until it, and an age in ticks, so   *)
(* the clock has no bound.  Whoever calls get and put is in EntryLifetime. *)
(***************************************************************************)
EXTENDS Naturals, FiniteSets

CONSTANTS Executor,   \* executors of one interceptor, one statement at a time each
          None,       \* absent entry, input or victim
          MaxEntries, \* l1_max_entries
          TTL         \* CachePolicy::ttl, which is also the TTL of L1

ASSUME L1Assumption ==
  /\ MaxEntries \in Nat /\ TTL \in Nat \ {0}
  /\ IsFiniteSet(Executor) /\ None \notin Executor

VARIABLES
  call,  \* call[e]: the locals of the statement of e
  l1     \* l1[e]: the entry of e, or None

Idle == [at     |-> "idle",
         input  |-> None,    \* what it asks for
         served |-> None,    \* the input L2 has answered it for
         kind   |-> "rows",  \* of the value in hand: rows, or an empty result
         age    |-> 0,       \* of the value in hand
         left   |-> 0,       \* until the deadline of its new entry
         victim |-> None]    \* the executor whose entry it will remove

L1Init == l1 = [e \in Executor |-> None]

At(e, label) == call[e].at = label
Goto(e, label) == call' = [call EXCEPT ![e].at = label]
Present == {e \in Executor : l1[e] # None}
Limit == IF MaxEntries < 1 THEN 1 ELSE MaxEntries

-----------------------------------------------------------------------------
(* get: a fresh entry is a hit; an expired one is removed in a second      *)
(* access, with whatever has replaced it.                                  *)

Hit(e) == l1[e] # None /\ l1[e].left > 0

GetHit(e) ==
  /\ At(e, "get")
  /\ Hit(e)
  /\ call' = [call EXCEPT ![e] = Idle]
  /\ UNCHANGED l1

GetMiss(e) ==
  /\ At(e, "get")
  /\ ~Hit(e)
  /\ Goto(e, IF l1[e] = None THEN "shared" ELSE "clean")
  /\ UNCHANGED l1

Clean(e) ==
  /\ At(e, "clean")
  /\ l1' = [l1 EXCEPT ![e] = None]
  /\ Goto(e, "shared")

-----------------------------------------------------------------------------
(* put: replace the entry of the executor, or make room and insert one.    *)

NewEntry(e) == [kind |-> call[e].kind, age |-> call[e].age, left |-> call[e].left]
Insert(e) ==
  /\ l1' = [l1 EXCEPT ![e] = NewEntry(e)]
  /\ Goto(e, "filled")

\* What call[e] becomes when the put of a value begins.
PutOf(locals, kind, age) ==
  [locals EXCEPT !.at = "replace", !.kind = kind, !.age = age, !.left = TTL]

Replace(e) ==
  /\ At(e, "replace")
  /\ l1[e] # None
  /\ Insert(e)

Absent(e) ==
  /\ At(e, "replace")
  /\ l1[e] = None
  /\ Goto(e, "room")
  /\ UNCHANGED l1

Room(e) ==
  /\ At(e, "room")
  /\ Goto(e, IF Cardinality(Present) >= Limit THEN "oldest" ELSE "insert")
  /\ UNCHANGED l1

\* iter().min_by_key: one victim, not as many as the limit asks for.
Oldest(e) ==
  /\ At(e, "oldest")
  /\ \/ /\ Present = {}
        /\ Goto(e, "insert")
     \/ \E v \in Present :
          /\ \A other \in Present : l1[v].left <= l1[other].left
          /\ call' = [call EXCEPT ![e].at = "evict", ![e].victim = v]
  /\ UNCHANGED l1

Evict(e) ==
  /\ At(e, "evict")
  /\ l1' = [l1 EXCEPT ![call[e].victim] = None]
  /\ call' = [call EXCEPT ![e].at = "insert", ![e].victim = None]

InsertNew(e) ==
  /\ At(e, "insert")
  /\ Insert(e)

\* clear_for_executor, after a DML that changed rows.
Clear(e) ==
  /\ At(e, "idle")
  /\ l1[e] # None
  /\ l1' = [l1 EXCEPT ![e] = None]
  /\ UNCHANGED call

L1Step(e) ==
  \/ GetHit(e) \/ GetMiss(e) \/ Clean(e)
  \/ Replace(e) \/ Absent(e) \/ Room(e) \/ Oldest(e) \/ Evict(e) \/ InsertNew(e)
=============================================================================
