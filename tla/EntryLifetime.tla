----------------------------- MODULE EntryLifetime -----------------------------
(***************************************************************************)
(* The way of a result through the two levels of the cache, in time:       *)
(* lookup_value, the fills of after and store_value of                     *)
(* src/src/rbatis_intercept.rs, with L1Cache, CacheKey and CacheEnvelope   *)
(* (src/src/envelope.rs).                                                  *)
(*                                                                         *)
(* The hosts that share L2 have clocks of their own: a reading of one may  *)
(* be up to Skew ticks ahead of another.  L1 measures by a monotonic clock. *)
(*                                                                         *)
(* L2 is a slot for one entry, any other being lost; it loses that one at  *)
(* any time too, which covers the TTLs the backends enforce on their own.  *)
(* Nothing waits between the freshness test of an L2 entry and the         *)
(* deadline of its L1 copy, so no tick falls there.                        *)
(***************************************************************************)
EXTENDS L1Cache, CacheKey

CONSTANTS Asked,     \* the inputs statements may have
          NullTTL,   \* CachePolicy::null_ttl
          CacheNull, \* CachePolicy::cache_null
          Skew       \* how far apart two clock readings may be

ASSUME LifetimeAssumption ==
  /\ NullTTL \in Nat \ {0} /\ Skew \in Nat /\ CacheNull \in BOOLEAN
  /\ Asked \subseteq Input /\ None \notin Asked

VARIABLE l2  \* the envelope in the backend, with the input it was stored for

vars == <<call, l1, l2>>

Kind == {"rows", "empty"}
Lifetime(kind) == IF kind = "empty" THEN NullTTL ELSE TTL
Reading == 0..Skew  \* now_ms() minus the clock that is the most behind

\* Ages are counted up to one at which no envelope is fresh, and no entry of L1.
MaxShared == (IF NullTTL < TTL THEN TTL ELSE NullTTL) + Skew
MaxAge == MaxShared + TTL

Init ==
  /\ call = [e \in Executor |-> Idle]
  /\ L1Init
  /\ l2 = None

\* Mutant of Ask: the classification of the statement is ignored.
AskAnything(e, input) ==
  /\ At(e, "idle")
  /\ call' = [call EXCEPT ![e].at = "get", ![e].input = input]
  /\ UNCHANGED <<l1, l2>>

\* before: only a cacheable statement looks into the cache.
Ask(e, input) ==
  /\ At(e, "idle")
  /\ Cacheable(input.sql)
  /\ call' = [call EXCEPT ![e].at = "get", ![e].input = input]
  /\ UNCHANGED <<l1, l2>>

\* CacheEnvelope::new and is_fresh: left is expires_at_ms minus that clock's time.
NewEnvelope(input, kind, error) ==
  [input |-> input, kind |-> kind, age |-> 0, left |-> Lifetime(kind) + error]
IsFresh(envelope, generation, error) ==
  envelope.input.generation = generation /\ envelope.left > error

\* The backend has an entry under the digest of the question.
Shared(e) == l2 # None /\ Digest(l2.input) = Digest(call[e].input)
Promote(e) ==
  /\ call' = [call EXCEPT ![e] = [PutOf(@, l2.kind, l2.age) EXCEPT !.served = l2.input]]
  /\ UNCHANGED <<l1, l2>>

\* Mutant of GetShared: an entry is served whatever its deadline.
GetSharedAnyway(e) ==
  /\ At(e, "shared")
  /\ Shared(e)
  /\ Promote(e)

\* A fresh entry of L2 is a hit and is promoted to L1 ...
GetShared(e) ==
  /\ At(e, "shared")
  /\ Shared(e)
  /\ \E error \in Reading : IsFresh(l2, call[e].input.generation, error)
  /\ Promote(e)

\* ... else, or when the backend fails, the database is asked and after fills L1.
Load(e) ==
  /\ At(e, "shared")
  /\ \E kind \in Kind : call' = [call EXCEPT ![e] = PutOf(@, kind, 0)]
  /\ UNCHANGED <<l1, l2>>

\* A statement of a Bypass transaction, or one whose key before cannot resolve,
\* does not look into the cache but fills it.
LoadUnasked(e, input) ==
  /\ At(e, "idle")
  /\ Cacheable(input.sql)
  /\ \E kind \in Kind :
       call' = [call EXCEPT ![e] = PutOf([@ EXCEPT !.input = input], kind, 0)]
  /\ UNCHANGED <<l1, l2>>

\* What came from the database goes to L2 (store_value), unless it is empty and
\* such values are not cached, or too large, or the backend fails.
Finish(e) ==
  /\ At(e, "filled")
  /\ \/ /\ call[e].served = None
        /\ call[e].kind = "rows" \/ CacheNull
        /\ \E error \in Reading : l2' = NewEnvelope(call[e].input, call[e].kind, error)
     \/ UNCHANGED l2
  /\ call' = [call EXCEPT ![e] = Idle]
  /\ UNCHANGED l1

LoseShared ==
  /\ l2 # None
  /\ l2' = None
  /\ UNCHANGED <<call, l1>>

Less(n) == IF n > 0 THEN n - 1 ELSE 0
Older(age, bound) == IF age < bound THEN age + 1 ELSE age

\* An entry of L1, stored or about to be; an expired one has no age any more.
Aged(entry) ==
  [entry EXCEPT !.left = Less(@), !.age = IF entry.left > 1 THEN Older(@, MaxAge) ELSE 0]

Tick ==
  /\ l1' = [e \in Executor |-> IF l1[e] = None THEN None ELSE Aged(l1[e])]
  /\ l2' = IF l2 = None THEN None
           ELSE [l2 EXCEPT !.left = Less(@), !.age = Older(@, MaxShared)]
  /\ call' = [e \in Executor |->
       IF call[e].at \in {"replace", "room", "oldest", "evict", "insert"}
         THEN Aged(call[e]) ELSE call[e]]

Next ==
  \/ \E e \in Executor :
       \/ \E input \in Asked : Ask(e, input) \/ LoadUnasked(e, input)
       \/ GetShared(e) \/ Load(e) \/ Finish(e)
       \/ (L1Step(e) \/ Clear(e)) /\ UNCHANGED l2
  \/ LoseShared \/ Tick

Spec == Init /\ [][Next]_vars

-----------------------------------------------------------------------------
(* Properties.                                                             *)

Entry == [kind : Kind, age : 0..MaxAge, left : 0..TTL]

\* Entries and calls keep their shape, and a removal is under way only while its
\* call holds a victim (l1.rs 67-74).
TypeOK ==
  /\ \A e \in Executor :
       /\ call[e].kind \in Kind /\ call[e].age \in 0..MaxAge /\ call[e].left \in 0..TTL
       /\ call[e].input \in Asked \cup {None} /\ call[e].served \in Asked \cup {None}
       /\ At(e, "evict") <=> call[e].victim \in Executor
       /\ l1[e] \in Entry \cup {None}
  /\ l2 # None => /\ l2.input \in Asked /\ Cacheable(l2.input.sql)
                  /\ l2.kind \in Kind /\ l2.age \in 0..MaxShared

\* No value is served longer than its own lifetime, plus one TTL of L1, plus what
\* two clocks differ (envelope.rs 66-68, the promotion at rbatis_intercept.rs
\* 211, l1.rs 47): each promotion starts the TTL of L1 afresh, for an empty
\* result too, but no copy goes back to L2.
LifetimeBounded ==
  \A e \in Executor : Hit(e) => l1[e].age < Lifetime(l1[e].kind) + TTL + Skew

\* What L2 answers was stored for the same question: no two questions with other
\* boundaries share a digest (key.rs 60-85, 113-117).
SharedAnswersTheQuestion ==
  \A e \in Executor : call[e].served # None =>
    Boundaries(call[e].served) = Boundaries(call[e].input)
=============================================================================
