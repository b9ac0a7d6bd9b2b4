----------------------------- MODULE BackendCalls -----------------------------
(***************************************************************************)
(* The calls of the CacheBackend trait (src/src/backend.rs) as their       *)
(* callers see them, for one namespace and any number of callers.  A get   *)
(* or a put is an "entry" call: what it does to the entries of one backend *)
(* is in LocalBackend, what they hold in GetOrLoad.  Here such a call only *)
(* takes part in what all calls of a backend share.                        *)
(*                                                                         *)
(* RedisBackend, MemcachedBackend and MokaBackend say what a call does     *)
(* between its beginning and its end; a deployment hands one of them to    *)
(* the interceptor as its Arc<dyn CacheBackend>.                           *)
(***************************************************************************)
EXTENDS Naturals, FiniteSets

CONSTANTS Client,         \* tasks calling the backend, one call at a time each
          None,           \* absent key
          Deployments,    \* the backends to choose from
          MaxGeneration,  \* bound on bumps
          MaxLate         \* bound on bumps in flight without a caller

Generation == 0..MaxGeneration
Op == {"entry", "generation", "bump"}

ASSUME BackendAssumption ==
  /\ IsFiniteSet(Client)
  /\ MaxGeneration \in Nat /\ MaxLate \in Nat
  /\ None \notin Generation
  /\ Deployments \subseteq {"redis", "memcached", "moka"}

VARIABLES
  backend,  \* the deployed backend
  call,     \* call[p]: the locals of the call of p
  floor,    \* history: the largest generation a call has vouched for
  taken,    \* history: the generations bumps have vouched for
  best      \* history: the largest generation a bump has returned

callerVars == <<backend, call, floor, taken, best>>
historyVars == <<floor, taken, best>>

Idle == [op      |-> "none",
         at      |-> "idle",
         value   |-> 0,      \* the generation, counter or clock it has in hand
         begun   |-> 0,      \* history: floor when it began
         vouches |-> FALSE]  \* history: its value will bind later calls

CallInit ==
  /\ backend \in Deployments
  /\ call = [p \in Client |-> Idle]
  /\ floor = 0
  /\ taken = {}
  /\ best = 0

At(p, label) == call[p].at = label
Doing(p, op) == call[p].op = op
Goto(p, label) == call' = [call EXCEPT ![p].at = label]
Receive(p, label, v) == call' = [call EXCEPT ![p].at = label, ![p].value = v]
Bumping == {p \in Client : Doing(p, "bump")}
Larger(a, b) == IF a < b THEN b ELSE a

\* Moka's promise is the serial one, see GenerationPromise.
Serial == backend = "moka"

\* A future is created and polled for the first time.
Begin(p, op) ==
  /\ At(p, "idle")
  /\ call' = [q \in Client |->
       IF q = p
         THEN [op |-> op, at |-> "begun", value |-> 0, begun |-> floor,
               vouches |-> \/ op = "bump" /\ (Serial => Bumping = {})
                           \/ op = "generation" /\ ~Serial]
         ELSE [call[q] EXCEPT !.vouches =
                 @ /\ ~(Serial /\ op = "bump" /\ Doing(q, "bump"))]]
  /\ UNCHANGED <<backend, historyVars>>

\* A call ends with Ok and the value it has in hand ...
Succeed(p) ==
  LET v == call[p].value
      bump == Doing(p, "bump")
  IN  /\ floor' = IF call[p].vouches THEN Larger(floor, v) ELSE floor
      /\ taken' = IF call[p].vouches /\ bump THEN taken \cup {v} ELSE taken
      /\ best' = IF bump THEN Larger(best, v) ELSE best
      /\ call' = [call EXCEPT ![p] = Idle]
      /\ UNCHANGED backend

\* ... or with Err(CacheError::Backend), or its future is dropped.
Fail(p) ==
  /\ call' = [call EXCEPT ![p] = Idle]
  /\ UNCHANGED <<backend, historyVars>>

\* The counter is lost.
Forget ==
  /\ floor' = 0 /\ taken' = {} /\ best' = 0
  /\ call' = [p \in Client |-> [call[p] EXCEPT !.begun = 0, !.vouches = FALSE]]
  /\ UNCHANGED backend
=============================================================================
