--------------------------- MODULE GenerationPromise ---------------------------
(***************************************************************************)
(* What the two generation calls of CacheBackend promise about a namespace *)
(* (src/src/backend.rs): a generation a finished call has returned is not  *)
(* gone back behind, and every bump returns a new one.  The counters live  *)
(* in caches, which may lose them: then the promise starts again.          *)
(*                                                                         *)
(* A serial backend promises less: only a bump that no other bump          *)
(* overlapped vouches for its value.                                       *)
(***************************************************************************)
EXTENDS Naturals

CONSTANTS Client,         \* tasks calling the backend, one call at a time each
          MaxGeneration   \* bound on the values

VARIABLES
  serial,   \* the promise is the serial one
  op,       \* op[p]: "none", "generation" or "bump"
  begun,    \* begun[p]: the floor when the call of p began
  vouches,  \* vouches[p]: what the call of p returns will bind later calls
  floor,    \* the largest value returned by a call that vouches for it
  taken     \* the values returned by bumps that vouch for them

vars == <<serial, op, begun, vouches, floor, taken>>

Generation == 0..MaxGeneration
Larger(a, b) == IF a < b THEN b ELSE a

Init ==
  /\ serial \in BOOLEAN
  /\ op = [p \in Client |-> "none"]
  /\ begun = [p \in Client |-> 0]
  /\ vouches = [p \in Client |-> FALSE]
  /\ floor = 0
  /\ taken = {}

\* In a serial backend a bump spoils the bumps it overlaps and is spoilt by them.
Begin(p, kind) ==
  /\ op[p] = "none"
  /\ op' = [op EXCEPT ![p] = kind]
  /\ begun' = [begun EXCEPT ![p] = floor]
  /\ vouches' = [q \in Client |->
       IF q = p
         THEN serial => kind = "bump" /\ \A r \in Client : op[r] # "bump"
         ELSE vouches[q] /\ ~(serial /\ kind = "bump" /\ op[q] = "bump")]
  /\ UNCHANGED <<serial, floor, taken>>

Finish(p) ==
  /\ op' = [op EXCEPT ![p] = "none"]
  /\ begun' = [begun EXCEPT ![p] = 0]
  /\ vouches' = [vouches EXCEPT ![p] = FALSE]
  /\ UNCHANGED serial

\* generation returns v.
Read(p, v) ==
  /\ op[p] = "generation"
  /\ begun[p] <= v
  /\ floor' = IF vouches[p] THEN Larger(floor, v) ELSE floor
  /\ Finish(p)
  /\ UNCHANGED taken

\* bump_generation returns v.
Bump(p, v) ==
  /\ op[p] = "bump"
  /\ begun[p] < v
  /\ vouches[p] => v \notin taken
  /\ floor' = IF vouches[p] THEN Larger(floor, v) ELSE floor
  /\ taken' = IF vouches[p] THEN taken \cup {v} ELSE taken
  /\ Finish(p)

\* Err: nothing is known about the generation.
Fail(p) ==
  /\ op[p] # "none"
  /\ Finish(p)
  /\ UNCHANGED <<floor, taken>>

\* The counter is lost; calls in progress may still return values of before.
Forget ==
  /\ floor' = 0
  /\ taken' = {}
  /\ begun' = [p \in Client |-> 0]
  /\ vouches' = [p \in Client |-> FALSE]
  /\ UNCHANGED <<serial, op>>

Next ==
  \/ \E p \in Client :
       \/ \E kind \in {"generation", "bump"} : Begin(p, kind)
       \/ \E v \in Generation : Read(p, v) \/ Bump(p, v)
       \/ Fail(p)
  \/ Forget

Spec == Init /\ [][Next]_vars
=============================================================================
