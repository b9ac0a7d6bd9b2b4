---------------------------- MODULE CacheContract ----------------------------
(***************************************************************************)
(* What a caller of the cache may rely on, whatever the cache does inside. *)
(*                                                                         *)
(* The rows of a namespace are abstracted to a version number that every   *)
(* committed DML raises.  An invalidation is ANNOUNCED when                *)
(* invalidate_after_commit returns Ok to the writer.  A query that starts  *)
(* after that moment must not be answered from data older than the         *)
(* announced version, and no query is answered from data that was never    *)
(* committed.  A query may also end without an answer (loader error,       *)
(* cancelled future).                                                      *)
(***************************************************************************)
EXTENDS Naturals

CONSTANTS Request,      \* callers of the cache
          Key,          \* queries, as CacheKeyInput tells them apart
          Namespace,    \* invalidation scopes
          NamespaceOf,  \* the scope of each query
          None,         \* "no answer"
          MaxVersion    \* bound on committed DMLs per namespace

VARIABLES db,         \* db[n]: latest committed version of namespace n
          announced,  \* announced[n]: latest version whose invalidation returned
          waiting,    \* the requests that are being served
          want,       \* want[r]: the query of the last request of r
          floor,      \* floor[r]: what was announced when that request began
          answer      \* answer[r]: the version it was answered from, or None

vars == <<db, announced, waiting, want, floor, answer>>

Version == 0..MaxVersion

Init ==
  /\ db = [n \in Namespace |-> 0]
  /\ announced = [n \in Namespace |-> 0]
  /\ waiting = {}
  /\ want \in [Request -> Key]
  /\ floor = [r \in Request |-> 0]
  /\ answer = [r \in Request |-> None]

Ask(r, k) ==
  /\ r \notin waiting
  /\ waiting' = waiting \cup {r}
  /\ want' = [want EXCEPT ![r] = k]
  /\ floor' = [floor EXCEPT ![r] = announced[NamespaceOf[k]]]
  /\ answer' = [answer EXCEPT ![r] = None]
  /\ UNCHANGED <<db, announced>>

Answer(r, v) ==
  /\ r \in waiting
  /\ floor[r] <= v
  /\ v <= db[NamespaceOf[want[r]]]
  /\ waiting' = waiting \ {r}
  /\ answer' = [answer EXCEPT ![r] = v]
  /\ UNCHANGED <<db, announced, want, floor>>

GiveUp(r) ==
  /\ r \in waiting
  /\ waiting' = waiting \ {r}
  /\ UNCHANGED <<db, announced, want, floor, answer>>

Commit(n) ==
  /\ db[n] < MaxVersion
  /\ db' = [db EXCEPT ![n] = @ + 1]
  /\ UNCHANGED <<announced, waiting, want, floor, answer>>

Announce(n, v) ==
  /\ announced[n] < v
  /\ v <= db[n]
  /\ announced' = [announced EXCEPT ![n] = v]
  /\ UNCHANGED <<db, waiting, want, floor, answer>>

Next ==
  \/ \E r \in Request, k \in Key : Ask(r, k)
  \/ \E r \in Request, v \in Version : Answer(r, v)
  \/ \E r \in Request : GiveUp(r)
  \/ \E n \in Namespace : Commit(n)
  \/ \E n \in Namespace, v \in Version : Announce(n, v)

Spec == Init /\ [][Next]_vars
==============================================================================
