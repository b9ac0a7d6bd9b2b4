---------------------------- MODULE LocalBackend ----------------------------
(***************************************************************************)
(* LocalBackend, the in-process backend (src/src/local/mod.rs) with its    *)
(* size limit and the eviction policies of fifo.rs, lru.rs and lfu.rs.     *)
(*                                                                         *)
(* Calls of several threads interleave at every access to the entries map. *)
(* The map, a DashMap, is external: its entries are spread over shards,    *)
(* each behind a lock.  An iterator goes from shard to shard and holds the *)
(* one it is at until it has the next; an entry it gave out, like the best *)
(* so far of a search, keeps the shard of that entry locked.  retain locks *)
(* one shard after the other, and len is taken in one step.                *)
(*                                                                         *)
(* Values are left out, an entry is its bookkeeping; the entry that        *)
(* bump_generation keeps for debugging takes room like any other.  All     *)
(* puts use one TTL.  The configuration and the shards of the entries are  *)
(* chosen once, by Init.                                                   *)
(***************************************************************************)
EXTENDS Integers, FiniteSets

CONSTANTS Client,      \* threads calling the backend
          Key,         \* digests
          Debug,       \* storage key of the namespace's debugging entry
          None,        \* absent entry, or no victim
          Strategies,  \* values of LocalBackendConfig::eviction
          Scope,       \* Scope[s]: with the strategy s, values of max_entries and bounds
          Shards,      \* number of shards of the map
          Layouts,     \* ways to spread the entries over them
          TTL,         \* of every put, in ticks
          MaxTime,     \* bound on the clock, for every strategy
          MaxSeq       \* bound on insertions and accesses, for every strategy

Slot == Key \cup {Debug}
Never == MaxTime + TTL + 1  \* u64::MAX, later than every deadline

ASSUME LocalAssumption ==
  /\ TTL \in Nat \ {0} /\ MaxTime \in Nat /\ MaxSeq \in Nat
  /\ Strategies \subseteq {"fifo", "lru", "lfu"}
  /\ Scope \in [Strategies -> [limits : SUBSET Nat, numbers : 0..MaxSeq, ticks : 0..MaxTime]]
  /\ Shards \in Nat \ {0} /\ Layouts \subseteq [Slot -> 1..Shards]
  /\ Debug \notin Key /\ None \notin Slot \cup Nat
  /\ IsFiniteSet(Client)

VARIABLES
  limit,       \* max_entries of this backend
  strategy,    \* eviction of this backend
  shardOf,     \* the shard each storage key hashes to
  call,        \* call[p]: the locals of the call of p
  entries,     \* the map: an entry or None, by slot
  generation,  \* the namespace's AtomicU64
  seq,         \* the global sequence number
  now,         \* the clock
  read,        \* history: read[p], the entries that are as the search of p read them
  counts       \* history: counts[p][k], the accesses of k when p began to look for an
               \* LFU victim, None once k was used, replaced or removed since

config == <<limit, strategy, shardOf>>
state == <<entries, generation, seq, now, config>>
vars == <<call, state, read, counts>>

Idle == [at     |-> "idle",
         slot   |-> None,  \* the storage key
         began  |-> 0,     \* now_ms() at the start of the call
         shard  |-> 0,     \* the shard an iteration has come to, 0 before the first
         least  |-> None,  \* the least number of accesses LFU has seen
         victim |-> None,  \* the key the search has chosen so far
         stamp  |-> 0]     \* the sequence number drawn for the insertion

Uncounted == [k \in Slot |-> None]

Init ==
  /\ strategy \in Strategies
  /\ limit \in Scope[strategy].limits
  /\ shardOf \in Layouts
  /\ call = [p \in Client |-> Idle]
  /\ entries = [k \in Slot |-> None]
  /\ generation = 0
  /\ seq = 0
  /\ now = 0
  /\ read = [p \in Client |-> {}]
  /\ counts = [p \in Client |-> Uncounted]

At(p, label) == call[p].at = label
Goto(p, label) == call' = [call EXCEPT ![p].at = label]
Present == {k \in Slot : entries[k] # None}
Expired(k, time) == entries[k].expires <= time
Without(gone) == [k \in Slot |-> IF k \in gone THEN None ELSE entries[k]]

\* The locks of the map: the shards a call holds between two of its steps.
Reading(p) ==
  IF At(p, "least") THEN {call[p].shard}
  ELSE IF At(p, "search")
         THEN {call[p].shard} \cup {shardOf[k] : k \in {call[p].victim} \ {None}} ELSE {}

\* Mutant of Writing: the entries are collected first, and locked one at a time.
WritingBriefly(p) == {}

Writing(p) == IF At(p, "age") THEN {call[p].shard} ELSE {}
Readable(s) == \A p \in Client : s \notin Writing(p)
Writable(s) == \A p \in Client : s \notin Writing(p) \cup Reading(p)

\* The bound on seq: each call in progress takes at most one number.
MayCall ==
  seq + Cardinality({p \in Client : ~At(p, "idle")}) < Scope[strategy].numbers

Start(p, label, k) ==
  /\ At(p, "idle")
  /\ MayCall
  /\ call' = [call EXCEPT ![p] =
       [Idle EXCEPT !.at = label, !.slot = k, !.began = now]]

-----------------------------------------------------------------------------
(* get: the value is read in the first access; then an expired entry is    *)
(* removed, and whatever entry is there by then is touched.                *)

GetRead(p, k) ==
  /\ Start(p, "clean", k)
  /\ Readable(shardOf[k])
  /\ UNCHANGED state

GetClean(p) ==
  /\ At(p, "clean")
  /\ LET k == call[p].slot
     IN  IF k \in Present /\ Expired(k, call[p].began)
           THEN Writable(shardOf[k]) /\ entries' = Without({k})
           ELSE Readable(shardOf[k]) /\ UNCHANGED entries
  /\ Goto(p, "touch")
  /\ UNCHANGED <<generation, seq, now, config>>

GetTouch(p) ==
  /\ At(p, "touch")
  /\ LET k == call[p].slot
     IN  /\ Writable(shardOf[k])
         /\ IF k \in Present
              THEN /\ entries' = [entries EXCEPT ![k].accessed = seq, ![k].accesses = @ + 1]
                   /\ seq' = seq + 1
              ELSE UNCHANGED <<entries, seq>>
  /\ call' = [call EXCEPT ![p] = Idle]
  /\ UNCHANGED <<generation, now, config>>

-----------------------------------------------------------------------------
(* put and bump_generation: make room, then insert.                        *)

Put(p, k) ==
  /\ Start(p, "room", k)
  /\ UNCHANGED state

\* fetch_add on the generation comes first.
Bump(p) ==
  /\ Start(p, "room", Debug)
  /\ generation' = generation + 1
  /\ UNCHANGED <<entries, seq, now, config>>

\* Mutant of Room: the limit itself counts as room.
RoomAtLimit(p) ==
  /\ At(p, "room")
  /\ Goto(p, IF Cardinality(Present) <= limit THEN "stamp" ELSE "retain")
  /\ UNCHANGED state

\* evict_if_needed: nothing to do below the limit ...
Room(p) ==
  /\ At(p, "room")
  /\ Goto(p, IF Cardinality(Present) < limit THEN "stamp" ELSE "retain")
  /\ UNCHANGED state

\* An iteration goes on to its next shard; after the last it is over.
NextShard(p) == call[p].shard + 1
In(s) == {k \in Present : shardOf[k] = s}
Visit(p, locals, after) ==
  call' = [call EXCEPT ![p] =
    IF NextShard(p) < Shards THEN [locals EXCEPT !.shard = @ + 1]
    ELSE [locals EXCEPT !.shard = 0, !.at = after]]

\* ... else drop the expired entries ...
Retain(p) ==
  /\ At(p, "retain")
  /\ Writable(NextShard(p))
  /\ entries' = Without({k \in In(NextShard(p)) : Expired(k, call[p].began)})
  /\ Visit(p, call[p], "loop")
  /\ UNCHANGED <<generation, seq, now, config>>

\* ... and while the map is full, choose a victim.
Full(p) ==
  /\ At(p, "loop")
  /\ Goto(p, IF Cardinality(Present) < limit THEN "stamp"
             ELSE IF strategy = "lfu" THEN "least" ELSE "search")
  /\ UNCHANGED state

\* LFU looks for the least number of accesses in one pass ...
Least(p) ==
  /\ At(p, "least")
  /\ Readable(NextShard(p))
  /\ LET seen == {entries[k].accesses : k \in In(NextShard(p))} \cup ({call[p].least} \ {None})
     IN  \/ seen = {} /\ Visit(p, call[p], "search")
         \/ \E n \in seen :
              /\ \A m \in seen : n <= m
              /\ Visit(p, [call[p] EXCEPT !.least = n], "age")
  /\ UNCHANGED state

\* ... takes it off every entry in the next, though it may be stale by then ...
Less(n, m) == IF n < m THEN 0 ELSE n - m
Age(p) ==
  /\ At(p, "age")
  /\ Writable(NextShard(p))
  /\ entries' = [k \in Slot |->
       IF k \in In(NextShard(p))
         THEN [entries[k] EXCEPT !.accesses = Less(@, call[p].least)] ELSE entries[k]]
  /\ Visit(p, call[p], "search")
  /\ UNCHANGED <<generation, seq, now, config>>

\* The order of eviction; for LFU, fewest accesses, then oldest insertion.
Before(e, f) ==
  CASE strategy = "fifo" -> e.inserted < f.inserted
    [] strategy = "lru"  -> e.accessed < f.accessed
    [] strategy = "lfu"  -> \/ e.accesses < f.accesses
                            \/ e.accesses = f.accesses /\ e.inserted < f.inserted

\* Mutant of Search: the last shard decides.
SearchLastShard(p) ==
  /\ At(p, "search")
  /\ Readable(NextShard(p))
  /\ LET pool == IF In(NextShard(p)) # {} THEN In(NextShard(p)) ELSE {call[p].victim} \ {None}
     IN  \/ pool = {} /\ Visit(p, [call[p] EXCEPT !.least = None], "stamp")
         \/ \E k \in pool :
              /\ \A j \in pool : ~Before(entries[j], entries[k])
              /\ Visit(p, [call[p] EXCEPT !.victim = k, !.least = None], "remove")
  /\ UNCHANGED state

\* ... and all policies search the first entry of their order; there is none in an
\* empty map, which ends the loop.
Search(p) ==
  /\ At(p, "search")
  /\ Readable(NextShard(p))
  /\ LET pool == In(NextShard(p)) \cup ({call[p].victim} \ {None})
     IN  \/ pool = {} /\ Visit(p, [call[p] EXCEPT !.least = None], "stamp")
         \/ \E k \in pool :
              /\ \A j \in pool : ~Before(entries[j], entries[k])
              /\ Visit(p, [call[p] EXCEPT !.victim = k, !.least = None], "remove")
  /\ UNCHANGED state

\* What the key of the victim maps to by then is removed.
Remove(p) ==
  /\ At(p, "remove")
  /\ Writable(shardOf[call[p].victim])
  /\ entries' = Without({call[p].victim})
  /\ call' = [call EXCEPT ![p].at = "loop", ![p].victim = None]
  /\ UNCHANGED <<generation, seq, now, config>>

\* Mutant of Stamp: the sequence number is read but not advanced.
StampSame(p) ==
  /\ At(p, "stamp")
  /\ call' = [call EXCEPT ![p].at = "insert", ![p].stamp = seq]
  /\ UNCHANGED state

\* fetch_add on the sequence number ...
Stamp(p) ==
  /\ At(p, "stamp")
  /\ call' = [call EXCEPT ![p].at = "insert", ![p].stamp = seq]
  /\ seq' = seq + 1
  /\ UNCHANGED <<entries, generation, now, config>>

\* ... and the entry replaces what its key maps to.
Insert(p) ==
  /\ At(p, "insert")
  /\ LET k == call[p].slot
         stamp == call[p].stamp
     IN  /\ Writable(shardOf[k])
         /\ entries' = [entries EXCEPT ![k] =
              [expires |-> IF k = Debug THEN Never ELSE call[p].began + TTL,
               inserted |-> stamp, accessed |-> stamp, accesses |-> 0]]
  /\ call' = [call EXCEPT ![p] = Idle]
  /\ UNCHANGED <<generation, seq, now, config>>

\* The cleanup thread comes to a shard, with the time it read before.
Prune(s, time) ==
  /\ Writable(s)
  /\ \E k \in In(s) : Expired(k, time)
  /\ entries' = Without({k \in In(s) : Expired(k, time)})
  /\ UNCHANGED <<call, generation, seq, now, config>>

Tick ==
  /\ now < Scope[strategy].ticks
  /\ now' = now + 1
  /\ UNCHANGED <<call, entries, generation, seq, config>>

Evict(p) ==
  Room(p) \/ Retain(p) \/ Full(p) \/ Least(p) \/ Age(p) \/ Search(p) \/ Remove(p)

-----------------------------------------------------------------------------
(* The history variables follow every step.                                *)

Untouched(k) ==
  entries[k] # None /\ entries'[k] # None /\ entries'[k].accessed = entries[k].accessed

ReadBy(p) ==
  IF call'[p].at \notin {"search", "remove"} THEN {}
  ELSE {k \in read[p] : entries'[k] = entries[k]} \cup
       IF At(p, "search") /\ call'[p] # call[p] THEN In(NextShard(p)) ELSE {}

HalfAged == \E q \in Client : At(q, "age") /\ call[q].shard > 0

CountedBy(p) ==
  IF strategy # "lfu" \/ call'[p].at \notin {"least", "age", "search", "remove"} THEN Uncounted
  ELSE IF At(p, "loop")
         THEN [k \in Slot |-> IF k \in Present /\ ~HalfAged THEN entries[k].accesses ELSE None]
         ELSE [k \in Slot |-> IF Untouched(k) THEN counts[p][k] ELSE None]

Observe ==
  /\ read' = [p \in Client |-> ReadBy(p)]
  /\ counts' = [p \in Client |-> CountedBy(p)]

Next ==
  \/ \E p \in Client :
       /\ \/ \E k \in Key : GetRead(p, k) \/ Put(p, k)
          \/ GetClean(p) \/ GetTouch(p) \/ Bump(p) \/ Evict(p) \/ Stamp(p) \/ Insert(p)
       /\ Observe
  \/ \E s \in 1..Shards, time \in 0..now : Prune(s, time) /\ Observe
  \/ Tick /\ Observe

Spec == Init /\ [][Next]_vars

-----------------------------------------------------------------------------
(* Properties.                                                             *)

Entry == [expires : 0..Never, inserted : 0..MaxSeq, accessed : 0..MaxSeq,
          accesses : 0..MaxSeq]

\* Type invariant; an entry is accessed no earlier than it is inserted.
TypeOK ==
  /\ \A p \in Client :
       /\ call[p].slot \in Slot \cup {None} /\ call[p].victim \in Slot \cup {None}
       /\ call[p].began \in 0..now
       /\ At(p, "insert") => call[p].stamp < seq
       /\ At(p, "remove") => call[p].victim # None
       /\ call[p].least \in 0..MaxSeq \cup {None} /\ call[p].shard \in 0..Shards-1
  /\ entries \in [Slot -> Entry \cup {None}]
  /\ \A k \in Present : entries[k].inserted <= entries[k].accessed /\ entries[k].accessed < seq
  /\ strategy \in Strategies /\ limit \in Scope[strategy].limits
  /\ generation \in 0..MaxSeq /\ seq \in 0..MaxSeq /\ now \in 0..MaxTime

Larger(a, b) == IF a < b THEN b ELSE a

\* Racing puts and bumps exceed the limit by less than one entry per thread:
\* each makes room before it inserts, but not in the same step (mod.rs 209-228).
\* One thread alone keeps max_entries exactly.
BoundedOvershoot ==
  Cardinality(Present) <= Larger(limit, 1) + Cardinality(Client) - 1

\* When a call is about to remove its victim, no entry comes before the victim of
\* those that are as the search read them, unless the victim itself has changed:
\* whatever the other threads have done to the shards behind and before the search
\* (fifo.rs, lru.rs, lfu.rs 30-33).
EvictionFollowsPolicy ==
  \A p \in Client : At(p, "remove") /\ call[p].victim \in read[p] =>
    \A k \in read[p] : ~Before(entries[k], entries[call[p].victim])

\* The LFU victim, unless it was used since its search began ...
Unused(p) == At(p, "remove") /\ counts[p][call[p].victim] # None

\* However many threads take their counts off the entries at a time, an entry that is
\* older and had no more accesses is not spared for a younger one (lfu.rs 21-34).
AgingKeepsOrder ==
  \A p \in Client : Unused(p) =>
    \A k \in Slot : counts[p][k] # None /\ counts[p][k] <= counts[p][call[p].victim] =>
      entries[call[p].victim].inserted <= entries[k].inserted
=============================================================================
