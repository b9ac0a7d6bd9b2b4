----------------------------- MODULE RedisBackend -----------------------------
(***************************************************************************)
(* RedisCacheBackend (src/rbatis-cache-redis/src/redis_cache.rs): every    *)
(* call goes through run, which refuses it while the circuit is open,      *)
(* bounds it by operation_timeout and counts consecutive failures.         *)
(*                                                                         *)
(* The server is external: a command is applied at once, never, or, after  *)
(* its caller has left, late.  The three accesses to the two atomics of    *)
(* the breaker in record_failure, and the reading of the clock, interleave *)
(* with those of other calls.  The generation key has no TTL: it goes only *)
(* when the server evicts it or restarts.  A deadline is kept as the time  *)
(* left until it, so the clock has no bound.                               *)
(***************************************************************************)
EXTENDS BackendCalls

CONSTANTS Threshold,  \* circuit_failure_threshold
          Cooldown    \* circuit_cooldown, in ticks

ASSUME RedisAssumption == Threshold \in Nat /\ Cooldown \in Nat

VARIABLES
  counter,    \* the server's generation key, 0 when absent
  late,       \* INCRs still in flight that nobody waits for
  failures,   \* consecutive_failures
  openFor,    \* circuit_open_until_ms - now_ms(), 0 when past
  streak,     \* history: failures counted since the last success
  unopened    \* history: those counted since the circuit was last opened too

redisVars == <<counter, late, failures, openFor, streak, unopened>>
serverVars == <<counter, late>>
breakerVars == <<failures, openFor, streak, unopened>>

RedisInit ==
  /\ counter = 0
  /\ late = 0
  /\ failures = 0
  /\ openFor = 0
  /\ streak = 0
  /\ unopened = 0

Limit == Larger(Threshold, 1)

\* The failures that callers can lose to late resets: each resets the others' count
\* once, short of the threshold.
MostLost == Cardinality(Client) * (Limit - 1)

\* A history count stops where the properties below are decided.
Counted(n) == IF n <= MostLost THEN n + 1 ELSE n

\* The bound on bumps: what was, will be and may still be applied.
RedisRoom == counter + late + Cardinality(Bumping) < MaxGeneration

RedisBegin(p, op) ==
  /\ op = "bump" => RedisRoom
  /\ Begin(p, op)
  /\ UNCHANGED redisVars

\* run refuses the call, or sends the command.
Refuse(p) ==
  /\ At(p, "begun")
  /\ openFor > 0
  /\ Fail(p)
  /\ UNCHANGED redisVars

Send(p) ==
  /\ At(p, "begun")
  /\ openFor = 0
  /\ Goto(p, "sent")
  /\ UNCHANGED <<backend, historyVars, redisVars>>

\* GET, PSETEX or INCR.
Apply(p) ==
  /\ At(p, "sent")
  /\ counter' = IF Doing(p, "bump") THEN counter + 1 ELSE counter
  /\ Receive(p, "answered", IF Doing(p, "entry") THEN 0 ELSE counter')
  /\ UNCHANGED <<backend, historyVars, late, breakerVars>>

\* Mutant of Ok: a success leaves the count of failures.
OkUncounted(p) ==
  /\ At(p, "answered")
  /\ Succeed(p)
  /\ streak' = 0 /\ unopened' = 0
  /\ UNCHANGED <<serverVars, failures, openFor>>

\* The answer arrives: the count of failures starts again.
Ok(p) ==
  /\ At(p, "answered")
  /\ Succeed(p)
  /\ failures' = 0
  /\ streak' = 0 /\ unopened' = 0
  /\ UNCHANGED <<serverVars, openFor>>

\* The client reports an error; the command was applied, or was not.
Error(p) ==
  /\ call[p].at \in {"sent", "answered"}
  /\ Goto(p, "failed")
  /\ UNCHANGED <<backend, historyVars, redisVars>>

\* The command stays in flight; only an INCR that comes late does anything.
Orphan(p) ==
  IF At(p, "sent") /\ Doing(p, "bump")
    THEN late < MaxLate /\ late' = late + 1
    ELSE UNCHANGED late

\* operation_timeout passes: the command may still be applied.
Timeout(p) ==
  /\ call[p].at \in {"sent", "answered"}
  /\ Orphan(p)
  /\ Goto(p, "failed")
  /\ UNCHANGED <<backend, historyVars, counter, breakerVars>>

\* The caller drops the future: no failure is recorded.
Drop(p) ==
  /\ call[p].at \in {"sent", "answered"}
  /\ Orphan(p)
  /\ Fail(p)
  /\ UNCHANGED <<counter, breakerVars>>

ApplyLate ==
  /\ late > 0
  /\ late' = late - 1
  /\ counter' = counter + 1
  /\ UNCHANGED <<callerVars, breakerVars>>

Vanish ==
  /\ late > 0
  /\ late' = late - 1
  /\ UNCHANGED <<callerVars, counter, breakerVars>>

\* record_failure: fetch_add, and at the threshold go on to open the circuit.
\* Mutant of RecordFailure: the threshold itself does not open it.
RecordFailureLate(p) ==
  /\ At(p, "failed")
  /\ failures' = failures + 1
  /\ streak' = Counted(streak) /\ unopened' = Counted(unopened)
  /\ IF failures + 1 > Limit
       THEN Goto(p, "opening") /\ UNCHANGED <<backend, historyVars>>
       ELSE Fail(p)
  /\ UNCHANGED <<serverVars, openFor>>

RecordFailure(p) ==
  /\ At(p, "failed")
  /\ failures' = failures + 1
  /\ streak' = Counted(streak) /\ unopened' = Counted(unopened)
  /\ IF failures + 1 >= Limit
       THEN Goto(p, "opening") /\ UNCHANGED <<backend, historyVars>>
       ELSE Fail(p)
  /\ UNCHANGED <<serverVars, openFor>>

\* now_ms(), the store of the deadline, and the store of 0 failures.
ReadClock(p) ==
  /\ At(p, "opening")
  /\ Receive(p, "storing", Cooldown)
  /\ UNCHANGED <<backend, historyVars, redisVars>>

OpenCircuit(p) ==
  /\ At(p, "storing")
  /\ openFor' = call[p].value
  /\ unopened' = 0
  /\ Goto(p, "resetting")
  /\ UNCHANGED <<backend, historyVars, serverVars, failures, streak>>

\* Mutant of ResetFailures: the count stays at the threshold.
ResetForgotten(p) ==
  /\ At(p, "resetting")
  /\ Fail(p)
  /\ UNCHANGED <<serverVars, failures, openFor, streak, unopened>>

ResetFailures(p) ==
  /\ At(p, "resetting")
  /\ failures' = 0
  /\ Fail(p)
  /\ UNCHANGED <<serverVars, openFor, streak, unopened>>

\* The server evicts the key or restarts.
RedisLose ==
  /\ counter > 0
  /\ counter' = 0
  /\ Forget
  /\ UNCHANGED <<late, breakerVars>>

\* The clock advances towards every deadline.
Less(n) == IF n > 0 THEN n - 1 ELSE 0

RedisTick ==
  /\ openFor > 0 \/ \E p \in Client : At(p, "storing") /\ call[p].value > 0
  /\ openFor' = Less(openFor)
  /\ call' = [p \in Client |->
       IF At(p, "storing") THEN [call[p] EXCEPT !.value = Less(@)] ELSE call[p]]
  /\ UNCHANGED <<backend, historyVars, serverVars, failures, streak, unopened>>

RedisStep(p) ==
  \/ Refuse(p) \/ Send(p) \/ Apply(p) \/ Ok(p) \/ Error(p) \/ Timeout(p)
  \/ RecordFailure(p) \/ ReadClock(p) \/ OpenCircuit(p) \/ ResetFailures(p)

RedisNext ==
  \/ \E p \in Client : (\E op \in Op : RedisBegin(p, op)) \/ RedisStep(p) \/ Drop(p)
  \/ ApplyLate \/ Vanish \/ RedisLose \/ RedisTick

-----------------------------------------------------------------------------
(* Properties of the breaker.                                              *)

Opening == {p \in Client : call[p].at \in {"opening", "storing", "resetting"}}

\* The breaker opens: a late reset of one call can wipe out failures of others, but
\* not more than the threshold less one for each caller before the circuit opens again
\* (record_failure, 131-144).
BreakerOpens == Opening = {} => unopened <= MostLost

\* It opens on consecutive failures only: whoever goes on to open it counts at
\* least Limit failures since the last success (run, 113-117; record_failure, 132-136).
OpensOnConsecutiveFailures ==
  [][\A p \in Client : At(p, "failed") /\ call'[p].at = "opening" => streak' >= Limit]_callerVars
=============================================================================
