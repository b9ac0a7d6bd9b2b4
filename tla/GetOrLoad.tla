------------------------------ MODULE GetOrLoad ------------------------------
(***************************************************************************)
(* CacheInterceptor: get_or_load and invalidate_after_commit of            *)
(* src/src/interceptor.rs, over a backend that keeps the promise of the    *)
(* CacheBackend trait (get, put, generation and bump_generation are atomic *)
(* and the generation of a namespace never goes back).                     *)
(*                                                                         *)
(* Every await of get_or_load, and every touch of the shared flight table, *)
(* is the border of an action, so any number of requests, commits and      *)
(* invalidations interleave there.  A request is cacheable or bypasses the *)
(* cache (unparsable SQL, not a SELECT, inside a transaction).             *)
(*                                                                         *)
(* Data: the rows of a namespace are a version number raised by committed  *)
(* DML, a payload is the version it was read from.  An entry whose         *)
(* deadline has passed is treated as an absent one, which is all is_fresh  *)
(* lets a reader see.  Faults names the failures a run allows.             *)
(***************************************************************************)
EXTENDS Naturals

CONSTANTS Request,        \* tasks calling get_or_load, one call at a time each
          Writer,         \* tasks committing DML, then invalidating
          Key,            \* queries, as CacheKeyInput tells them apart
          Namespace,      \* CacheKeyInput::namespace
          NamespaceOf,    \* [Key -> Namespace]
          Flight,         \* identities of the Arc<Mutex<()>> ever allocated
          None,           \* absent envelope, flight, payload, holder or commit
          Faults,         \* the failures that may happen, see FaultKind
          MaxVersion,     \* bound on commits per namespace
          MaxGeneration   \* bound on bumps per namespace

Version == 0..MaxVersion
Generation == 0..MaxGeneration
Digest == Key \X Generation
Epoch == Namespace \X Generation
Envelope == [generation : Generation, version : Version]

\* generation/get/put/bump: that backend call returns Err; load: the loader
\* fails or the caller drops the future; loss: eviction, TTL, outside flush.
FaultKind == {"generation", "get", "put", "bump", "load", "loss"}

ASSUME BoundsAssumption == MaxVersion \in Nat /\ MaxGeneration \in Nat
ASSUME NamespaceAssumption == NamespaceOf \in [Key -> Namespace]
ASSUME FaultsAssumption == Faults \subseteq FaultKind
ASSUME NoneAssumption ==
  None \notin Envelope \cup Flight \cup Version \cup Request
              \cup [namespace : Namespace, version : Version]

VARIABLES
  pc,          \* pc[r]: where the call of r stands
  want,        \* want[r]: the query of r
  gen,         \* gen[r]: the generation its key was built with
  payload,     \* payload[r]: the version it holds or was answered with
  flight,      \* flight[r]: the Arc it holds a clone of
  flights,     \* the single-flight table, by digest
  owner,       \* owner[m]: the request holding the guard of mutex m
  store,       \* the backend's entries, by digest
  generation,  \* the backend's generation of each namespace
  db,          \* latest committed version of each namespace
  dml,         \* dml[w]: what w has committed and not yet invalidated
  announced,   \* history: newest version whose invalidation had returned
               \* when the namespace was at a given generation
  floor        \* history: floor[r], what was announced when r began

vars == <<pc, want, gen, payload, flight, flights, owner, store, generation,
          db, dml, announced, floor>>
callVars == <<want, gen, floor>>
flightVars == <<flight, flights, owner>>
dataVars == <<store, generation, db, dml, announced>>

Init ==
  /\ pc = [r \in Request |-> "idle"]
  /\ want \in [Request -> Key]
  /\ gen = [r \in Request |-> 0]
  /\ payload = [r \in Request |-> None]
  /\ flight = [r \in Request |-> None]
  /\ flights = [d \in Digest |-> None]
  /\ owner = [m \in Flight |-> None]
  /\ store = [d \in Digest |-> None]
  /\ generation = [n \in Namespace |-> 0]
  /\ db = [n \in Namespace |-> 0]
  /\ dml = [w \in Writer |-> None]
  /\ announced = [epoch \in Epoch |-> 0]
  /\ floor = [r \in Request |-> 0]

-----------------------------------------------------------------------------
(* Helpers.                                                                *)

Home(r) == NamespaceOf[want[r]]
DigestOf(r) == <<want[r], gen[r]>>
Announced(n) == announced[<<n, generation[n]>>]
Larger(a, b) == IF a < b THEN b ELSE a

Goto(r, label) == pc' = [pc EXCEPT ![r] = label]

\* The lookup of the digest d, cached(): the version of a fresh envelope, or
\* None for a miss and for a backend error.
IsFresh(e, g) == e # None /\ e.generation = g
Cached(d) ==
  {IF IsFresh(store[d], d[2]) THEN store[d].version ELSE None}
    \cup (IF "get" \in Faults THEN {None} ELSE {})

\* Arc::strong_count(flight) = 2 while the table holds it: r is its only holder.
OnlySharer(r) == \A q \in Request \ {r} : flight[q] # flight[r]

Unallocated(m) ==
  /\ \A d \in Digest : flights[d] # m
  /\ \A r \in Request : flight[r] # m

-----------------------------------------------------------------------------
(* get_or_load.                                                            *)

\* A call arrives; parse and the bypass test decide whether it is cacheable.
Begin(r, k) ==
  /\ pc[r] = "idle"
  /\ want' = [want EXCEPT ![r] = k]
  /\ gen' = [gen EXCEPT ![r] = 0]
  /\ floor' = [floor EXCEPT ![r] = Announced(NamespaceOf[k])]
  /\ payload' = [payload EXCEPT ![r] = None]
  /\ \E label \in {"generation", "direct"} : Goto(r, label)
  /\ UNCHANGED <<flightVars, dataVars>>

\* Mutants of ReadGeneration: the generation the bump will give; a constant.
ReadGenerationAhead(r) ==
  /\ pc[r] = "generation"
  /\ gen' = [gen EXCEPT ![r] = generation[Home(r)] + 1]
  /\ Goto(r, "lookup")
  /\ UNCHANGED <<want, floor, payload, flightVars, dataVars>>

ReadGenerationZero(r) ==
  /\ pc[r] = "generation"
  /\ gen' = [gen EXCEPT ![r] = 0]
  /\ Goto(r, "lookup")
  /\ UNCHANGED <<want, floor, payload, flightVars, dataVars>>

\* generation().await, then CacheKey::build with the generation read.
ReadGeneration(r) ==
  /\ pc[r] = "generation"
  /\ gen' = [gen EXCEPT ![r] = generation[Home(r)]]
  /\ Goto(r, "lookup")
  /\ UNCHANGED <<want, floor, payload, flightVars, dataVars>>

\* The generation is unavailable: fail open, load without the cache.
GenerationFails(r) ==
  /\ pc[r] = "generation"
  /\ "generation" \in Faults
  /\ Goto(r, "direct")
  /\ UNCHANGED <<callVars, payload, flightVars, dataVars>>

\* The load of a bypassing or fail-open request: nothing is stored.
LoadDirect(r) ==
  /\ pc[r] = "direct"
  /\ payload' = [payload EXCEPT ![r] = db[Home(r)]]
  /\ Goto(r, "idle")
  /\ UNCHANGED <<callVars, flightVars, dataVars>>

\* First cached(): a hit answers the call.
Lookup(r) ==
  /\ pc[r] = "lookup"
  /\ \E v \in Cached(DigestOf(r)) :
       /\ payload' = [payload EXCEPT ![r] = v]
       /\ Goto(r, IF v = None THEN "join" ELSE "idle")
  /\ UNCHANGED <<callVars, flightVars, dataVars>>

\* flights.entry(digest).or_insert_with(..).clone()
Join(r) ==
  /\ pc[r] = "join"
  /\ \/ /\ flights[DigestOf(r)] # None
        /\ flight' = [flight EXCEPT ![r] = flights[DigestOf(r)]]
        /\ UNCHANGED flights
     \/ /\ flights[DigestOf(r)] = None
        /\ \E m \in Flight :
             /\ Unallocated(m)
             /\ m = CHOOSE free \in Flight : Unallocated(free)
             /\ flight' = [flight EXCEPT ![r] = m]
             /\ flights' = [flights EXCEPT ![DigestOf(r)] = m]
  /\ Goto(r, "lock")
  /\ UNCHANGED <<callVars, payload, owner, dataVars>>

\* flight.lock().await
Lock(r) ==
  /\ pc[r] = "lock"
  /\ owner[flight[r]] = None
  /\ owner' = [owner EXCEPT ![flight[r]] = r]
  /\ Goto(r, "recheck")
  /\ UNCHANGED <<callVars, payload, flight, flights, dataVars>>

\* Mutant of Recheck: no second lookup.
RecheckSkipped(r) ==
  /\ pc[r] = "recheck"
  /\ Goto(r, "load")
  /\ UNCHANGED <<callVars, payload, flightVars, dataVars>>

\* Second cached(), under the guard.
Recheck(r) ==
  /\ pc[r] = "recheck"
  /\ \E v \in Cached(DigestOf(r)) :
       /\ payload' = [payload EXCEPT ![r] = v]
       /\ Goto(r, IF v = None THEN "load" ELSE "unlock")
  /\ UNCHANGED <<callVars, flightVars, dataVars>>

\* loader().await returns what the database held when it read it; a payload
\* larger than max_value_size skips the put.
Load(r) ==
  /\ pc[r] = "load"
  /\ payload' = [payload EXCEPT ![r] = db[Home(r)]]
  /\ \E label \in {"put", "unlock"} : Goto(r, label)
  /\ UNCHANGED <<callVars, flightVars, dataVars>>

\* Mutant of Put: key and envelope built with the generation of now, as store()
\* does.
PutUnderCurrentGeneration(r) ==
  /\ pc[r] = "put"
  /\ LET g == generation[Home(r)]
     IN  store' = [store EXCEPT ![<<want[r], g>>] =
                    [generation |-> g, version |-> payload[r]]]
  /\ Goto(r, "unlock")
  /\ UNCHANGED <<callVars, payload, flightVars, generation, db, dml, announced>>

\* put(digest, envelope).await: the key AND the envelope carry the generation
\* read before the load.  An error is counted and otherwise ignored.
Put(r) ==
  /\ pc[r] = "put"
  /\ \/ store' = [store EXCEPT ![DigestOf(r)] =
                    [generation |-> gen[r], version |-> payload[r]]]
     \/ "put" \in Faults /\ UNCHANGED store
  /\ Goto(r, "unlock")
  /\ UNCHANGED <<callVars, payload, flightVars, generation, db, dml, announced>>

\* Mutant of Unlock: the answer is read back from the cache, which a payload
\* too large for it never reaches.
UnlockThenLookup(r) ==
  /\ pc[r] = "unlock"
  /\ owner' = [owner EXCEPT ![flight[r]] = None]
  /\ Goto(r, "lookup")
  /\ UNCHANGED <<callVars, payload, flight, flights, dataVars>>

\* drop(guard)
Unlock(r) ==
  /\ pc[r] = "unlock"
  /\ owner' = [owner EXCEPT ![flight[r]] = None]
  /\ Goto(r, "release")
  /\ UNCHANGED <<callVars, payload, flight, flights, dataVars>>

\* Mutant of ReleaseFlight: the entry is removed whoever shares it.
ReleaseAlways(r) ==
  /\ pc[r] = "release"
  /\ flights' = [flights EXCEPT ![DigestOf(r)] = None]
  /\ Goto(r, "leave")
  /\ UNCHANGED <<callVars, payload, flight, owner, dataVars>>

\* release_flight: under the lock of the table's shard, remove the entry if it
\* is this Arc and nobody else holds it.
ReleaseFlight(r) ==
  /\ pc[r] = "release"
  /\ flights' = IF flights[DigestOf(r)] = flight[r] /\ OnlySharer(r)
                  THEN [flights EXCEPT ![DigestOf(r)] = None]
                  ELSE flights
  /\ Goto(r, "leave")
  /\ UNCHANGED <<callVars, payload, flight, owner, dataVars>>

\* The clone of the Arc is dropped when the call returns.
Leave(r) ==
  /\ pc[r] = "leave"
  /\ flight' = [flight EXCEPT ![r] = None]
  /\ Goto(r, "idle")
  /\ UNCHANGED <<callVars, payload, flights, owner, dataVars>>

\* The call ends early without an answer: the loader returns Err, or the caller
\* drops the future at an await.  The guard is dropped before the Arc clone, and
\* release_flight does not run.
Abandon(r) ==
  /\ "load" \in Faults
  /\ pc[r] \in {"generation", "direct", "lookup", "lock", "recheck", "load", "put"}
  /\ payload' = [payload EXCEPT ![r] = None]
  /\ owner' = [m \in Flight |-> IF owner[m] = r THEN None ELSE owner[m]]
  /\ Goto(r, IF flight[r] = None THEN "idle" ELSE "leave")
  /\ UNCHANGED <<callVars, flight, flights, dataVars>>

-----------------------------------------------------------------------------
(* Writers and the backend.                                                *)

\* The database commits a DML of the namespace n.
Commit(w, n) ==
  /\ dml[w] = None
  /\ db[n] < MaxVersion
  /\ db' = [db EXCEPT ![n] = @ + 1]
  /\ dml' = [dml EXCEPT ![w] = [namespace |-> n, version |-> db[n] + 1]]
  /\ UNCHANGED <<pc, callVars, payload, flightVars, store, generation, announced>>

\* invalidate_after_commit: the bump is applied and, if its answer arrives,
\* the commit's version is announced.
Invalidate(w) ==
  /\ dml[w] # None
  /\ LET n == dml[w].namespace
         g == generation[n]
     IN  /\ g < MaxGeneration
         /\ generation' = [generation EXCEPT ![n] = g + 1]
         /\ \/ announced' = [announced EXCEPT ![<<n, g + 1>>] =
                              Larger(Announced(n), dml[w].version)]
            \/ /\ "bump" \in Faults
               /\ announced' = [announced EXCEPT ![<<n, g + 1>>] = Announced(n)]
  /\ dml' = [dml EXCEPT ![w] = None]
  /\ UNCHANGED <<pc, callVars, payload, flightVars, store, db>>

\* The bump fails without effect: the caller gets Err, nothing is announced.
InvalidateFails(w) ==
  /\ "bump" \in Faults
  /\ dml[w] # None
  /\ dml' = [dml EXCEPT ![w] = None]
  /\ UNCHANGED <<pc, callVars, payload, flightVars, store, generation, db, announced>>

\* The backend loses an entry, or its deadline passes.
Lose(d) ==
  /\ "loss" \in Faults
  /\ store[d] # None
  /\ store' = [store EXCEPT ![d] = None]
  /\ UNCHANGED <<pc, callVars, payload, flightVars, generation, db, dml, announced>>

GetOrLoadStep(r) ==
  \/ ReadGeneration(r) \/ GenerationFails(r) \/ LoadDirect(r) \/ Lookup(r)
  \/ Join(r) \/ Lock(r) \/ Recheck(r) \/ Load(r) \/ Put(r)
  \/ Unlock(r) \/ ReleaseFlight(r) \/ Leave(r)

Next ==
  \/ \E r \in Request, k \in Key : Begin(r, k)
  \/ \E r \in Request : GetOrLoadStep(r)
  \/ \E r \in Request : Abandon(r)
  \/ \E w \in Writer, n \in Namespace : Commit(w, n)
  \/ \E w \in Writer : Invalidate(w) \/ InvalidateFails(w)
  \/ \E d \in Digest : Lose(d)

Spec == Init /\ [][Next]_vars

\* tokio polls a ready task, the loader and the backend calls end, and the
\* tokio Mutex is fair (first come, first served), so a waiting task whose
\* mutex is free again and again gets it.
Fairness ==
  \A r \in Request :
    /\ WF_vars(GetOrLoadStep(r))
    /\ SF_vars(Lock(r))

FairSpec == Spec /\ Fairness

-----------------------------------------------------------------------------
(* Properties.                                                             *)

Label == {"idle", "generation", "direct", "lookup", "join", "lock", "recheck",
          "load", "put", "unlock", "release", "leave"}

\* Type invariant of the interceptor, the backend it uses and the history.
TypeOK ==
  /\ pc \in [Request -> Label]
  /\ want \in [Request -> Key]
  /\ gen \in [Request -> Generation]
  /\ payload \in [Request -> Version \cup {None}]
  /\ flight \in [Request -> Flight \cup {None}]
  /\ flights \in [Digest -> Flight \cup {None}]
  /\ owner \in [Flight -> Request \cup {None}]
  /\ store \in [Digest -> Envelope \cup {None}]
  /\ generation \in [Namespace -> Generation]
  /\ db \in [Namespace -> Version]
  /\ dml \in [Writer -> [namespace : Namespace, version : Version] \cup {None}]
  /\ announced \in [Epoch -> Version]
  /\ floor \in [Request -> Version]
  /\ \A r \in Request : pc[r] = "put" => payload[r] # None

\* A request that starts after an invalidation has returned is never answered
\* from data older than the invalidated commit, however its lookups, load and
\* put interleave with later commits and bumps (get_or_load, interceptor.rs).
NoStaleAnswer ==
  \A r \in Request :
    pc[r] = "idle" /\ payload[r] # None => floor[r] <= payload[r]

\* Two requests never run the loader, or write back, for the same key at the
\* same time: the flight table hands both the same mutex (interceptor.rs 108-137).
Loading(r) == pc[r] \in {"recheck", "load", "put", "unlock"}
SingleLoader ==
  \A r, q \in Request :
    r # q /\ Loading(r) /\ Loading(q) => DigestOf(r) # DigestOf(q)

\* release_flight never removes an entry that someone still queues on: as long
\* as a request waits for or holds a flight, the table maps its digest to it.
NoWrongRelease ==
  \A r \in Request :
    pc[r] \in {"lock", "recheck", "load", "put", "unlock", "release"} =>
      flights[DigestOf(r)] = flight[r]

\* With a backend that answers, the loader runs only if no fresh entry exists:
\* the second lookup under the guard sees what the previous holder stored.
LoadOnlyOnMiss ==
  \A r \in Request : pc[r] = "load" => store[DigestOf(r)] = None

\* The cached entries of the current generation carry every announced commit.
StoreCurrent ==
  \A k \in Key :
    LET n == NamespaceOf[k]
        e == store[<<k, generation[n]>>]
    IN  e # None => Announced(n) <= e.version

\* Every call ends, with an answer or an error, whatever other calls do.
EveryCallEnds == \A r \in Request : pc[r] # "idle" ~> pc[r] = "idle"

\* What callers may rely on, stated without generations, flights or entries.
Contract == INSTANCE CacheContract WITH
  announced <- [n \in Namespace |-> Announced(n)],
  waiting   <- {r \in Request : pc[r] # "idle"},
  answer    <- [r \in Request |-> IF pc[r] = "idle" THEN payload[r] ELSE None]

\* get_or_load with invalidate_after_commit implements the contract.
ContractSpec == Contract!Spec
=============================================================================
