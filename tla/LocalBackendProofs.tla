------------------------- MODULE LocalBackendProofs -------------------------
(***************************************************************************)
(* Proofs about LocalBackend: its types, the bound on the entries that     *)
(* racing calls leave, and the choice of the victims, for any finite set   *)
(* of threads and any keys, shards, limits, TTL and bounds.                *)
(***************************************************************************)
EXTENDS LocalBackend, FiniteSetTheorems, TLAPS

-----------------------------------------------------------------------------
(* The inductive invariant.                                                *)

Label == {"idle", "clean", "touch", "room", "retain", "loop", "least", "age", "search",
          "remove", "stamp", "insert"}

CallType == [at : Label, slot : Slot \cup {None}, began : Nat, shard : 0..Shards-1,
             least : Nat \cup {None}, victim : Slot \cup {None}, stamp : Nat]

\* An entry without the bound on its counters.
Bookkeeping == [expires : 0..Never, inserted : Nat, accessed : Nat, accesses : Nat]

\* The locals of a call fit its label, and its numbers were drawn before.
Fits(c, time, drawn) ==
  /\ c.began <= time
  /\ c.at # "idle" => c.slot \in Slot
  /\ c.at = "insert" => c.stamp < drawn
  /\ c.least # None => c.least < drawn
  /\ c.at = "age" => c.least # None
  /\ c.at = "remove" => c.victim # None
  /\ c.victim # None => c.at \in {"search", "remove"}
  /\ c.shard # 0 => c.at \in {"retain", "least", "age", "search"}
  /\ c.at = "search" /\ c.shard = 0 => c.victim = None

CallsOK ==
  /\ call \in [Client -> CallType]
  /\ \A p \in Client : Fits(call[p], now, seq)

EntriesOK ==
  /\ entries \in [Slot -> Bookkeeping \cup {None}]
  /\ \A k \in Present :
       /\ entries[k].inserted <= entries[k].accessed
       /\ entries[k].accesses <= entries[k].accessed
       /\ entries[k].accessed < seq

Shape ==
  /\ CallsOK /\ EntriesOK
  /\ limit \in Scope[strategy].limits /\ strategy \in Strategies /\ shardOf \in [Slot -> 1..Shards]
  /\ generation \in Nat /\ seq \in Nat /\ now \in 0..MaxTime

\* The calls that may still draw a number, and those of them that insert.
Drawing == {p \in Client : ~At(p, "idle") /\ ~At(p, "insert")}
Storing == {p \in Drawing : ~At(p, "clean") /\ ~At(p, "touch")}

\* The numbers drawn and to be drawn stay within the bound.
Budget ==
  /\ seq + Cardinality(Drawing) <= MaxSeq
  /\ generation <= seq + Cardinality(Storing)

\* The calls that found room, and the searches that have found nothing in the first
\* s shards: they will have found room if nothing is behind those.
Clears(c, s) ==
  \/ c.at \in {"stamp", "insert"}
  \/ c.at = "search" /\ c.victim = None /\ s <= c.shard

Inserters == [s \in 0..Shards |-> {p \in Client : Clears(call[p], s)}]
UpTo(s) == {k \in Present : shardOf[k] <= s}

\* The overshoot, counted up to every shard with what is about to be inserted.
Overshoot ==
  /\ IsFiniteSet(Present)
  /\ \A s \in 0..Shards :
       Cardinality(UpTo(s)) + Cardinality(Inserters[s])
         <= Larger(limit, 1) + Cardinality(Client) - 1

\* No entry of S comes before that of k.
First(k, S) == k \in S => \A j \in S : ~Before(entries[j], entries[k])

\* A search holds the best entry it has read, and it has read none without one.
Held(p) ==
  /\ ~At(p, "search") /\ ~At(p, "remove") => read[p] = {}
  /\ At(p, "search") => IF call[p].victim = None THEN read[p] = {} ELSE call[p].victim \in read[p]

Chosen ==
  \A p \in Client : /\ read[p] \subseteq Present /\ Held(p)
                     /\ First(call[p].victim, read[p])

Inv == Shape /\ Budget /\ Overshoot /\ Chosen

-----------------------------------------------------------------------------
(* Counting, the constants, and the steps of a call.                       *)

\* The bounds are naturals, and the threads are finitely many.
LEMMA Numbers ==
  /\ TTL \in Nat \ {0} /\ MaxTime \in Nat /\ MaxSeq \in Nat
  /\ Never \in Nat /\ Debug \in Slot /\ None \notin Slot /\ None \notin Nat /\ Key \subseteq Slot
  /\ Shards \in Nat \ {0} /\ Layouts \subseteq [Slot -> 1..Shards]
  /\ strategy \in Strategies =>
       /\ strategy \in {"fifo", "lru", "lfu"} /\ Scope[strategy].limits \subseteq Nat
       /\ Scope[strategy].numbers \in 0..MaxSeq /\ Scope[strategy].ticks \in 0..MaxTime
  /\ IsFiniteSet(Client) /\ Cardinality(Client) \in Nat
<1>1. IsFiniteSet(Client) /\ Cardinality(Client) \in Nat
  BY LocalAssumption, FS_CardinalityType
<1>2. /\ TTL \in Nat \ {0} /\ MaxTime \in Nat /\ MaxSeq \in Nat
      /\ Never \in Nat /\ Shards \in Nat \ {0} /\ Layouts \subseteq [Slot -> 1..Shards]
  BY LocalAssumption DEF Never
<1>3. Debug \in Slot /\ None \notin Slot /\ None \notin Nat /\ Key \subseteq Slot
  BY LocalAssumption DEF Slot
<1>4. ASSUME strategy \in Strategies
      PROVE  /\ strategy \in {"fifo", "lru", "lfu"} /\ Scope[strategy].limits \subseteq Nat
             /\ Scope[strategy].numbers \in 0..MaxSeq /\ Scope[strategy].ticks \in 0..MaxTime
  <2>1. Scope[strategy] \in [limits : SUBSET Nat, numbers : 0..MaxSeq, ticks : 0..MaxTime]
    BY <1>4, LocalAssumption
  <2> QED
    BY <1>4, <2>1, LocalAssumption
<1> QED
  BY <1>1, <1>2, <1>3, <1>4

\* A part of a finite set is finite and no larger.
LEMMA Part ==
  ASSUME NEW T, IsFiniteSet(T), NEW S, S \subseteq T
  PROVE  /\ IsFiniteSet(S) /\ Cardinality(S) \in Nat /\ Cardinality(T) \in Nat
         /\ Cardinality(S) <= Cardinality(T)
BY FS_Subset, FS_CardinalityType

\* One element makes a set larger by at most one ...
LEMMA Joined ==
  ASSUME NEW T, IsFiniteSet(T), NEW x, NEW S, S \subseteq T \cup {x}
  PROVE  /\ IsFiniteSet(S) /\ Cardinality(S) \in Nat /\ Cardinality(T) \in Nat
         /\ Cardinality(S) <= Cardinality(T) + 1
<1>1. /\ IsFiniteSet(T \cup {x}) /\ Cardinality(T) \in Nat
      /\ Cardinality(T \cup {x}) <= Cardinality(T) + 1
  BY FS_AddElement, FS_CardinalityType
<1> QED
  BY <1>1, Part

\* ... and a set without one of its elements is smaller.
LEMMA Left ==
  ASSUME NEW T, IsFiniteSet(T), NEW x \in T, NEW S, S \subseteq T \ {x}
  PROVE  /\ IsFiniteSet(S) /\ Cardinality(S) \in Nat /\ Cardinality(T) \in Nat
         /\ Cardinality(S) <= Cardinality(T) - 1
<1>1. /\ IsFiniteSet(T \ {x}) /\ Cardinality(T) \in Nat
      /\ Cardinality(T \ {x}) = Cardinality(T) - 1
  BY FS_RemoveElement, FS_CardinalityType
<1> QED
  BY <1>1, Part

\* What the step of one call changes.
LEMMA Changed ==
  ASSUME call \in [Client -> CallType], NEW p \in Client, NEW c \in CallType,
         call' = [call EXCEPT ![p] = c]
  PROVE  /\ call' \in [Client -> CallType]
         /\ call'[p] = c
         /\ \A q \in Client : q # p => call'[q] = call[q]
BY DEF CallType

\* The calls that a step of p adds to a set of calls, and the one it takes out.
LEMMA Counts ==
  ASSUME call \in [Client -> CallType], NEW p \in Client, NEW c \in CallType,
         call' = [call EXCEPT ![p] = c]
  PROVE  /\ Drawing' = IF c.at \in {"idle", "insert"} THEN Drawing \ {p} ELSE Drawing \cup {p}
         /\ Storing' = IF c.at \in {"idle", "insert", "clean", "touch"}
                         THEN Storing \ {p} ELSE Storing \cup {p}
<1>1. call' \in [Client -> CallType] /\ call'[p] = c /\ \A q \in Client : q # p => call'[q] = call[q]
  BY Changed
<1>2. Drawing' = IF c.at \in {"idle", "insert"} THEN Drawing \ {p} ELSE Drawing \cup {p}
  BY <1>1 DEF Drawing, At
<1>3. Storing' = IF c.at \in {"idle", "insert", "clean", "touch"}
                  THEN Storing \ {p} ELSE Storing \cup {p}
  BY <1>1 DEF Storing, Drawing, At
<1> QED
  BY <1>2, <1>3

\* Dropping entries leaves the others as they were.
LEMMA Dropped ==
  ASSUME entries \in [Slot -> Bookkeeping \cup {None}], NEW gone, entries' = Without(gone)
  PROVE  /\ entries' \in [Slot -> Bookkeeping \cup {None}]
         /\ Present' \subseteq Present
         /\ \A k \in Present' : entries'[k] = entries[k]
         /\ \A k \in Slot : k \notin gone => entries'[k] = entries[k]
BY DEF Without, Present

\* A call that is not running.
LEMMA IdleCall == Idle \in CallType /\ Idle.at = "idle" /\ (now \in Nat => Fits(Idle, now, seq'))
BY Numbers DEF Idle, CallType, Label, Fits

-----------------------------------------------------------------------------
(* The next call record of each kind of step, and the types.               *)

\* What the steps of a call start from.
LEMMA Known ==
  ASSUME Shape, NEW p \in Client
  PROVE  /\ call \in [Client -> CallType] /\ call[p] \in CallType /\ Fits(call[p], now, seq)
         /\ seq \in Nat /\ now \in Nat /\ call[p].shard \in 0..Shards-1
         /\ NextShard(p) \in 1..Shards
BY Numbers DEF Shape, CallsOK, CallType, NextShard

\* A call begins at its label with the time it read.
LEMMA Starts ==
  ASSUME Shape, NEW p \in Client, NEW l \in {"clean", "room"}, NEW k \in Slot, Start(p, l, k)
  PROVE  \E c \in CallType :
           /\ call' = [call EXCEPT ![p] = c]
           /\ c.at = l /\ Fits(c, now, seq)
<1> DEFINE c == [Idle EXCEPT !.at = l, !.slot = k, !.began = now]
<1>0. now \in Nat
  BY Numbers DEF Shape
<1>1. /\ c.at = l /\ c.slot = k /\ c.began = now /\ c.shard = 0 /\ c.least = None
      /\ c.victim = None /\ c.stamp = 0
  BY DEF Idle
<1>2. 0 \in 0..Shards-1
  BY Numbers
<1>3. c \in CallType
  BY <1>0, <1>2 DEF Idle, CallType, Label
<1>4. Fits(c, now, seq)
  BY <1>0, <1>1, Numbers DEF Fits
<1>5. call' = [call EXCEPT ![p] = c]
  BY DEF Start
<1> QED
  BY <1>1, <1>3, <1>4, <1>5

\* A call goes on to another label outside of its iterations.
LEMMA Goes ==
  ASSUME Shape, NEW p \in Client, call[p].at \in {"clean", "room", "loop"},
         NEW l \in {"touch", "stamp", "retain", "least", "search"}, Goto(p, l)
  PROVE  \E c \in CallType :
           /\ call' = [call EXCEPT ![p] = c]
           /\ c.at = l /\ c.shard = 0 /\ Fits(c, now, seq)
<1> DEFINE c == [call[p] EXCEPT !.at = l]
<1>2. call[p] \in CallType /\ Fits(call[p], now, seq)
  BY Known
<1>3. /\ c \in CallType
      /\ c.at = l /\ c.slot = call[p].slot /\ c.began = call[p].began /\ c.shard = call[p].shard
      /\ c.victim = call[p].victim /\ c.least = call[p].least /\ c.stamp = call[p].stamp
  BY <1>2 DEF CallType, Label
<1>4. Fits(c, now, seq) /\ c.shard = 0
  BY <1>2, <1>3 DEF Fits
<1>5. call' = [call EXCEPT ![p] = c]
  BY DEF Goto
<1> QED
  BY <1>3, <1>4, <1>5

\* An iteration goes to its next shard, or is over.
LEMMA Visits ==
  ASSUME Shape, NEW p \in Client, NEW locals \in CallType, NEW after \in Label,
         locals.shard = call[p].shard, Visit(p, locals, after)
  PROVE  \E c \in CallType :
           /\ call' = [call EXCEPT ![p] = c]
           /\ \/ c.at = locals.at /\ NextShard(p) < Shards /\ c.shard = NextShard(p)
              \/ c.at = after /\ NextShard(p) = Shards /\ c.shard = 0
           /\ c.slot = locals.slot /\ c.began = locals.began /\ c.least = locals.least
           /\ c.victim = locals.victim /\ c.stamp = locals.stamp
<1>0. NextShard(p) \in 1..Shards /\ NextShard(p) = call[p].shard + 1 /\ Shards \in Nat
  BY Known, Numbers DEF NextShard
<1>1. CASE NextShard(p) < Shards
  <2> DEFINE c == [locals EXCEPT !.shard = locals.shard + 1]
  <2>1. c \in CallType /\ c.at = locals.at /\ c.shard = NextShard(p)
    BY <1>0, <1>1 DEF CallType
  <2>2. call' = [call EXCEPT ![p] = c]
    BY <1>1 DEF Visit
  <2>3. /\ c.slot = locals.slot /\ c.began = locals.began /\ c.least = locals.least
        /\ c.victim = locals.victim /\ c.stamp = locals.stamp
    BY DEF CallType
  <2> QED
    BY <1>1, <2>1, <2>2, <2>3
<1>2. CASE ~(NextShard(p) < Shards)
  <2> DEFINE c == [locals EXCEPT !.shard = 0, !.at = after]
  <2>1. c \in CallType /\ c.at = after /\ c.shard = 0
    <3>1. 0 \in 0..Shards-1
      BY Numbers
    <3> QED
      BY <3>1 DEF CallType
  <2>2. call' = [call EXCEPT ![p] = c]
    BY <1>2 DEF Visit
  <2>3. /\ c.slot = locals.slot /\ c.began = locals.began /\ c.least = locals.least
        /\ c.victim = locals.victim /\ c.stamp = locals.stamp
    BY DEF CallType
  <2>4. NextShard(p) = Shards
    BY <1>0, <1>2
  <2> QED
    BY <2>1, <2>2, <2>3, <2>4
<1> QED
  BY <1>1, <1>2

\* retain has come to a shard.
LEMMA Retains ==
  ASSUME Shape, NEW p \in Client, Retain(p)
  PROVE  \E c \in CallType :
           call' = [call EXCEPT ![p] = c] /\ c.at \in {"retain", "loop"} /\ Fits(c, now, seq)
<1>1. call[p] \in CallType /\ Fits(call[p], now, seq) /\ call[p].at = "retain"
  BY Known DEF Retain, At
<1>2. PICK c \in CallType :
        /\ call' = [call EXCEPT ![p] = c]
        /\ c.at = "retain" \/ (c.at = "loop" /\ c.shard = 0)
        /\ c.slot = call[p].slot /\ c.began = call[p].began /\ c.least = call[p].least
        /\ c.victim = call[p].victim /\ c.stamp = call[p].stamp
  BY <1>1, Visits DEF Retain, Label
<1> QED
  BY <1>1, <1>2 DEF Fits

\* The search of the least number of accesses has come to a shard.
LEMMA Leasts ==
  ASSUME Shape, NEW p \in Client, Least(p)
  PROVE  \E c \in CallType :
           /\ call' = [call EXCEPT ![p] = c]
           /\ c.at \in {"least", "age"} \/ (c.at = "search" /\ c.shard = 0)
           /\ Fits(c, now, seq)
<1> DEFINE seen == {entries[k].accesses : k \in In(NextShard(p))} \cup ({call[p].least} \ {None})
<1>1. call[p] \in CallType /\ Fits(call[p], now, seq) /\ call[p].at = "least"
  BY Known DEF Least, At
<1>2. CASE seen = {} /\ Visit(p, call[p], "search")
  <2>1. PICK c \in CallType :
          /\ call' = [call EXCEPT ![p] = c]
          /\ c.at = "least" \/ (c.at = "search" /\ c.shard = 0)
          /\ c.slot = call[p].slot /\ c.began = call[p].began /\ c.least = call[p].least
          /\ c.victim = call[p].victim /\ c.stamp = call[p].stamp
    BY <1>1, <1>2, Visits DEF Label
  <2> QED
    BY <1>1, <2>1 DEF Fits
<1>3. CASE \E n \in seen : Visit(p, [call[p] EXCEPT !.least = n], "age")
  <2>1. PICK n \in seen : Visit(p, [call[p] EXCEPT !.least = n], "age")
    BY <1>3
  <2>2. n \in Nat /\ n < seq
    <3>1. CASE n \in {call[p].least} \ {None}
      BY <1>1, <3>1 DEF Fits, CallType
    <3>2. CASE \E k \in In(NextShard(p)) : n = entries[k].accesses
      <4>1. PICK k \in Present : n = entries[k].accesses
        BY <3>2 DEF In
      <4>2. /\ entries[k] \in Bookkeeping /\ entries[k].accesses <= entries[k].accessed
            /\ entries[k].accessed < seq /\ seq \in Nat
        BY <4>1 DEF Shape, EntriesOK, Present
      <4> QED
        BY <4>1, <4>2 DEF Bookkeeping
    <3> QED
      BY <2>1, <3>1, <3>2
  <2> DEFINE locals == [call[p] EXCEPT !.least = n]
  <2>3. /\ locals \in CallType /\ locals.at = "least" /\ locals.shard = call[p].shard
        /\ locals.slot = call[p].slot /\ locals.began = call[p].began /\ locals.least = n
        /\ locals.victim = call[p].victim /\ locals.stamp = call[p].stamp
    BY <1>1, <2>2 DEF CallType
  <2> HIDE DEF locals
  <2>4. Visit(p, locals, "age")
    BY <2>1 DEF locals
  <2>5. PICK c \in CallType :
          /\ call' = [call EXCEPT ![p] = c]
          /\ c.at = "least" \/ (c.at = "age" /\ c.shard = 0)
          /\ c.slot = locals.slot /\ c.began = locals.began /\ c.least = locals.least
          /\ c.victim = locals.victim /\ c.stamp = locals.stamp
    BY <2>3, <2>4, Visits DEF Label
  <2> QED
    BY <1>1, <2>2, <2>3, <2>5, Numbers DEF Fits
<1> QED
  BY <1>2, <1>3 DEF Least

\* The ageing has come to a shard.
LEMMA Ages ==
  ASSUME Shape, NEW p \in Client, Age(p)
  PROVE  \E c \in CallType :
           /\ call' = [call EXCEPT ![p] = c]
           /\ c.at = "age" \/ (c.at = "search" /\ c.shard = 0)
           /\ Fits(c, now, seq)
<1>1. call[p] \in CallType /\ Fits(call[p], now, seq) /\ call[p].at = "age"
  BY Known DEF Age, At
<1>2. PICK c \in CallType :
        /\ call' = [call EXCEPT ![p] = c]
        /\ c.at = "age" \/ (c.at = "search" /\ c.shard = 0)
        /\ c.slot = call[p].slot /\ c.began = call[p].began /\ c.least = call[p].least
        /\ c.victim = call[p].victim /\ c.stamp = call[p].stamp
  BY <1>1, Visits DEF Age, Label
<1> QED
  BY <1>1, <1>2 DEF Fits

\* The search of a victim has come to a shard: it has none yet if there is none, or it
\* holds the first of this shard and the victim so far.
LEMMA Searches ==
  ASSUME Shape, NEW p \in Client, Search(p)
  PROVE  LET pool == In(NextShard(p)) \cup ({call[p].victim} \ {None})
         IN  \E c \in CallType :
               /\ call' = [call EXCEPT ![p] = c] /\ Fits(c, now, seq) /\ c # call[p]
               /\ \/ /\ pool = {} /\ c.victim = None
                     /\ \/ c.at = "search" /\ c.shard = NextShard(p)
                        \/ c.at = "stamp" /\ NextShard(p) = Shards
                  \/ /\ c.victim \in pool /\ c.victim # None /\ c.at \in {"search", "remove"}
                     /\ \A j \in pool : ~Before(entries[j], entries[c.victim])
<1> DEFINE pool == In(NextShard(p)) \cup ({call[p].victim} \ {None})
<1>1. /\ call[p] \in CallType /\ Fits(call[p], now, seq) /\ call[p].at = "search"
      /\ call[p].shard \in Nat /\ NextShard(p) # call[p].shard /\ NextShard(p) # 0
  <2>1. /\ call[p] \in CallType /\ Fits(call[p], now, seq) /\ call[p].shard \in 0..Shards-1
        /\ call[p].at = "search"
    BY Known DEF Search, At
  <2> QED
    BY <2>1 DEF NextShard
<1>2. CASE pool = {} /\ Visit(p, [call[p] EXCEPT !.least = None], "stamp")
  <2> DEFINE locals == [call[p] EXCEPT !.least = None]
  <2>1. /\ locals \in CallType /\ locals.at = "search" /\ locals.shard = call[p].shard
        /\ locals.slot = call[p].slot /\ locals.began = call[p].began /\ locals.least = None
        /\ locals.victim = call[p].victim /\ locals.stamp = call[p].stamp
    BY <1>1 DEF CallType
  <2>2. Visit(p, locals, "stamp")
    BY <1>2
  <2> HIDE DEF locals
  <2>3. PICK c \in CallType :
          /\ call' = [call EXCEPT ![p] = c]
          /\ \/ c.at = "search" /\ c.shard = NextShard(p)
             \/ c.at = "stamp" /\ NextShard(p) = Shards /\ c.shard = 0
          /\ c.slot = locals.slot /\ c.began = locals.began /\ c.least = locals.least
          /\ c.victim = locals.victim /\ c.stamp = locals.stamp
    BY <2>1, <2>2, Visits DEF Label
  <2>4. call[p].victim = None
    BY <1>2
  <2>5. Fits(c, now, seq) /\ c # call[p] /\ c.victim = None
    BY <1>1, <2>1, <2>3, <2>4 DEF Fits
  <2> QED
    BY <1>2, <2>3, <2>5
<1>3. CASE \E k \in pool : /\ \A j \in pool : ~Before(entries[j], entries[k])
                           /\ Visit(p, [call[p] EXCEPT !.victim = k, !.least = None], "remove")
  <2>1. PICK k \in pool : /\ \A j \in pool : ~Before(entries[j], entries[k])
                          /\ Visit(p, [call[p] EXCEPT !.victim = k, !.least = None], "remove")
    BY <1>3
  <2>2. k \in Slot /\ k # None
    BY <1>1, <2>1, Numbers DEF In, Present, CallType
  <2> DEFINE locals == [call[p] EXCEPT !.victim = k, !.least = None]
  <2>3. /\ locals \in CallType /\ locals.at = "search" /\ locals.shard = call[p].shard
        /\ locals.slot = call[p].slot /\ locals.began = call[p].began /\ locals.least = None
        /\ locals.victim = k /\ locals.stamp = call[p].stamp
    BY <1>1, <2>2 DEF CallType
  <2>4. Visit(p, locals, "remove")
    BY <2>1
  <2> HIDE DEF locals
  <2>5. PICK c \in CallType :
          /\ call' = [call EXCEPT ![p] = c]
          /\ (c.at = "search" /\ c.shard = NextShard(p)) \/ (c.at = "remove" /\ c.shard = 0)
          /\ c.slot = locals.slot /\ c.began = locals.began /\ c.least = locals.least
          /\ c.victim = locals.victim /\ c.stamp = locals.stamp
    BY <2>3, <2>4, Visits DEF Label
  <2>6. Fits(c, now, seq) /\ c # call[p] /\ c.victim = k
    BY <1>1, <2>2, <2>3, <2>5 DEF Fits
  <2> QED
    BY <2>1, <2>2, <2>5, <2>6
<1> QED
  BY <1>2, <1>3 DEF Search

\* The removal of a victim ends its turn of the loop.
LEMMA Removes ==
  ASSUME Shape, NEW p \in Client, Remove(p)
  PROVE  \E c \in CallType :
           call' = [call EXCEPT ![p] = c] /\ c.at = "loop" /\ Fits(c, now, seq)
<1> DEFINE c == [call[p] EXCEPT !.at = "loop", !.victim = None]
<1>1. /\ call[p] \in CallType /\ call \in [Client -> CallType] /\ Fits(call[p], now, seq)
      /\ call[p].at = "remove"
  BY Known DEF Remove, At
<1>2. /\ c \in CallType /\ c.at = "loop" /\ c.slot = call[p].slot /\ c.began = call[p].began
      /\ c.least = call[p].least /\ c.victim = None /\ c.shard = call[p].shard
  BY <1>1 DEF CallType, Label
<1>3. call' = [call EXCEPT ![p] = c]
  BY <1>1 DEF Remove, CallType
<1>4. Fits(c, now, seq)
  BY <1>1, <1>2 DEF Fits
<1> QED
  BY <1>2, <1>3, <1>4

\* A call about to insert holds the number it drew.
LEMMA Stamps ==
  ASSUME Shape, NEW p \in Client, Stamp(p)
  PROVE  /\ seq' = seq + 1
         /\ \E c \in CallType :
              call' = [call EXCEPT ![p] = c] /\ c.at = "insert" /\ Fits(c, now, seq')
<1> DEFINE c == [call[p] EXCEPT !.at = "insert", !.stamp = seq]
<1>1. /\ call[p] \in CallType /\ call \in [Client -> CallType] /\ Fits(call[p], now, seq)
      /\ call[p].at = "stamp" /\ seq \in Nat /\ seq' = seq + 1
  BY Known DEF Stamp, At
<1>2. /\ c \in CallType /\ c.at = "insert" /\ c.slot = call[p].slot /\ c.began = call[p].began
      /\ c.least = call[p].least /\ c.victim = call[p].victim /\ c.shard = call[p].shard
      /\ c.stamp = seq
  BY <1>1 DEF CallType, Label
<1>3. call' = [call EXCEPT ![p] = c]
  BY <1>1 DEF Stamp, CallType
<1>4. call[p].least # None => call[p].least < seq'
  BY <1>1 DEF Fits, CallType
<1>5. Fits(c, now, seq')
  BY <1>1, <1>2, <1>4 DEF Fits
<1> QED
  BY <1>1, <1>2, <1>3, <1>5

\* The calls keep fitting a sequence and a clock that only grow.
LEMMA CallsKept ==
  ASSUME Shape, NEW p \in Client, NEW c \in CallType, call' = [call EXCEPT ![p] = c],
         seq' \in Nat, seq <= seq', now' = now, Fits(c, now, seq')
  PROVE  CallsOK'
<1>1. call' \in [Client -> CallType] /\ call'[p] = c /\ \A q \in Client : q # p => call'[q] = call[q]
  BY Changed DEF Shape, CallsOK
<1>2. ASSUME NEW q \in Client
      PROVE  Fits(call'[q], now', seq')
  <2>1. CASE q = p
    BY <1>1, <2>1
  <2>2. CASE q # p
    <3>1. /\ call'[q] = call[q] /\ call[q] \in CallType /\ Fits(call[q], now, seq)
          /\ seq \in Nat
      BY <1>1, <2>2, Known
    <3>2. /\ call[q].stamp \in Nat /\ call[q].least \in Nat \cup {None}
      BY <3>1 DEF CallType
    <3> QED
      BY <3>1, <3>2 DEF Fits
  <2> QED
    BY <2>1, <2>2
<1> QED
  BY <1>1, <1>2 DEF CallsOK

\* Dropping entries keeps the rest well formed.
LEMMA EntriesKept ==
  ASSUME Shape, NEW gone, entries' = Without(gone) \/ entries' = entries, seq' \in Nat, seq <= seq'
  PROVE  EntriesOK' /\ Present' \subseteq Present
<1>1. /\ entries' \in [Slot -> Bookkeeping \cup {None}]
      /\ Present' \subseteq Present /\ \A k \in Present' : entries'[k] = entries[k]
  <2>1. CASE entries' = Without(gone)
    BY <2>1, Dropped DEF Shape, EntriesOK
  <2>2. CASE entries' = entries
    BY <2>2 DEF Shape, EntriesOK, Present
  <2> QED
    BY <2>1, <2>2
<1>2. ASSUME NEW k \in Present'
      PROVE  /\ entries'[k].inserted <= entries'[k].accessed
             /\ entries'[k].accesses <= entries'[k].accessed
             /\ entries'[k].accessed < seq'
  <2>1. entries'[k] = entries[k] /\ k \in Present
    BY <1>1
  <2>2. /\ entries[k] \in Bookkeeping
        /\ entries[k].inserted <= entries[k].accessed
        /\ entries[k].accesses <= entries[k].accessed
        /\ entries[k].accessed < seq
    BY <2>1 DEF Shape, EntriesOK, Present
  <2>3. entries[k].accessed \in Nat /\ seq \in Nat
    BY <2>2 DEF Shape, Bookkeeping
  <2> QED
    BY <2>1, <2>2, <2>3
<1> QED
  BY <1>1, <1>2 DEF EntriesOK

\* A touch advances the access number and the count of one entry.
LEMMA Touched ==
  ASSUME Shape, NEW k \in Present,
         entries' = [entries EXCEPT ![k].accessed = seq, ![k].accesses = @ + 1],
         seq' = seq + 1
  PROVE  /\ EntriesOK' /\ Present' \subseteq Present
         /\ \A j \in Slot : j # k => entries'[j] = entries[j]
<1> DEFINE e == [entries[k] EXCEPT !.accessed = seq, !.accesses = @ + 1]
<1>1. /\ k \in Slot /\ entries \in [Slot -> Bookkeeping \cup {None}] /\ entries[k] \in Bookkeeping
      /\ seq \in Nat /\ entries[k].inserted <= entries[k].accessed
      /\ entries[k].accesses <= entries[k].accessed /\ entries[k].accessed < seq
  BY DEF Shape, EntriesOK, Present
<1>2. /\ entries[k].inserted \in Nat /\ entries[k].accessed \in Nat /\ entries[k].accesses \in Nat
  BY <1>1 DEF Bookkeeping
<1>3. /\ e \in Bookkeeping /\ e.accessed = seq /\ e.inserted = entries[k].inserted
      /\ e.accesses = entries[k].accesses + 1
  BY <1>1, <1>2 DEF Bookkeeping
<1>4. entries' = [entries EXCEPT ![k] = e]
  BY <1>1 DEF Bookkeeping
<1> HIDE DEF e
<1>5. /\ entries' \in [Slot -> Bookkeeping \cup {None}] /\ entries'[k] = e
      /\ \A j \in Slot : j # k => entries'[j] = entries[j]
  BY <1>1, <1>3, <1>4
<1>6. Present' \subseteq Present
  BY <1>5 DEF Present
<1>7. ASSUME NEW j \in Present'
      PROVE  /\ entries'[j].inserted <= entries'[j].accessed
             /\ entries'[j].accesses <= entries'[j].accessed
             /\ entries'[j].accessed < seq'
  <2>1. CASE j = k
    BY <1>1, <1>2, <1>3, <1>5, <2>1
  <2>2. CASE j # k
    <3>1. j \in Present /\ j \in Slot /\ entries'[j] = entries[j] /\ entries[j] \in Bookkeeping
      BY <1>1, <1>5, <1>6, <2>2 DEF Present
    <3>2. /\ entries[j].inserted <= entries[j].accessed
          /\ entries[j].accesses <= entries[j].accessed
          /\ entries[j].accessed < seq
      BY <3>1 DEF Shape, EntriesOK
    <3>3. entries[j].accessed \in Nat
      BY <3>1 DEF Bookkeeping
    <3>4. entries[j].accessed < seq'
      BY <1>1, <3>2, <3>3
    <3> QED
      BY <3>1, <3>2, <3>4
  <2> QED
    BY <2>1, <2>2
<1> QED
  BY <1>3, <1>5, <1>6, <1>7 DEF EntriesOK

\* What is left when at most everything is taken off.
LEMMA Lessens ==
  ASSUME NEW n \in Nat, NEW m \in Nat
  PROVE  Less(n, m) \in Nat /\ Less(n, m) <= n
BY DEF Less

\* Ageing a shard changes nothing but the accesses of its entries, which get fewer.
LEMMA Aged ==
  ASSUME Shape, NEW p \in Client, Age(p)
  PROVE  /\ EntriesOK' /\ Present' \subseteq Present
         /\ \A k \in Slot : shardOf[k] # NextShard(p) => entries'[k] = entries[k]
<1> DEFINE n == call[p].least
           aged(k) == [entries[k] EXCEPT !.accesses = Less(@, n)]
<1>1. /\ entries \in [Slot -> Bookkeeping \cup {None}] /\ seq \in Nat /\ seq' = seq
      /\ \A k \in Present : k \in Slot /\ entries[k] \in Bookkeeping
  BY DEF Shape, EntriesOK, Present, Age
<1>2. n \in Nat
  <2>1. Fits(call[p], now, seq) /\ call[p] \in CallType /\ call[p].at = "age"
    BY Known DEF Age, At
  <2> QED
    BY <2>1 DEF Fits, CallType
<1>3. entries' = [k \in Slot |-> IF k \in In(NextShard(p)) THEN aged(k) ELSE entries[k]]
  BY DEF Age
<1>4. ASSUME NEW k \in Present
      PROVE  /\ aged(k) \in Bookkeeping /\ aged(k).inserted = entries[k].inserted
             /\ aged(k).accessed = entries[k].accessed /\ aged(k).accesses \in Nat
             /\ aged(k).accesses <= entries[k].accesses
  <2>1. entries[k] \in Bookkeeping /\ entries[k].accesses \in Nat
    BY <1>1 DEF Bookkeeping
  <2>2. Less(entries[k].accesses, n) \in Nat /\ Less(entries[k].accesses, n) <= entries[k].accesses
    BY <1>2, <2>1, Lessens
  <2> QED
    BY <2>1, <2>2 DEF Bookkeeping
<1> HIDE DEF aged
<1>5. In(NextShard(p)) \subseteq Present /\ \A k \in In(NextShard(p)) : shardOf[k] = NextShard(p)
  BY DEF In
<1>6. entries' \in [Slot -> Bookkeeping \cup {None}]
  BY <1>1, <1>3, <1>4, <1>5
<1>7. Present' \subseteq Present
  BY <1>3, <1>5 DEF Present
<1>8. ASSUME NEW k \in Present'
      PROVE  /\ entries'[k].inserted <= entries'[k].accessed
             /\ entries'[k].accesses <= entries'[k].accessed
             /\ entries'[k].accessed < seq'
  <2>1. /\ entries[k].inserted <= entries[k].accessed
        /\ entries[k].accesses <= entries[k].accessed
        /\ entries[k].accessed < seq
        /\ entries[k].accesses \in Nat /\ entries[k].accessed \in Nat
    BY <1>1, <1>7 DEF Shape, EntriesOK, Bookkeeping
  <2>2. entries'[k] = aged(k) \/ entries'[k] = entries[k]
    BY <1>1, <1>3, <1>7
  <2> QED
    BY <1>1, <1>4, <1>7, <2>1, <2>2
<1> QED
  BY <1>3, <1>5, <1>6, <1>7, <1>8 DEF EntriesOK

\* An insertion replaces one entry by a new one.
LEMMA Inserted ==
  ASSUME Shape, NEW p \in Client, Insert(p)
  PROVE  LET k == call[p].slot
         IN  /\ EntriesOK' /\ k \in Slot /\ Present' \subseteq Present \cup {k}
             /\ \A j \in Slot : j # k => entries'[j] = entries[j]
<1> DEFINE k == call[p].slot
           stamp == call[p].stamp
           e == [expires |-> IF k = Debug THEN Never ELSE call[p].began + TTL,
                 inserted |-> stamp, accessed |-> stamp, accesses |-> 0]
<1>1. /\ call[p] \in CallType /\ k \in Slot /\ stamp < seq
      /\ call[p].began <= now /\ now \in 0..MaxTime /\ seq \in Nat /\ seq' = seq
  <2>1. Fits(call[p], now, seq) /\ call[p] \in CallType /\ call[p].at = "insert"
    BY Known DEF Insert, At
  <2> QED
    BY <2>1 DEF Fits, Insert, Shape
<1>2. stamp \in Nat /\ call[p].began \in Nat
  BY <1>1 DEF CallType
<1>3. (IF k = Debug THEN Never ELSE call[p].began + TTL) \in 0..Never
  BY <1>1, <1>2, Numbers DEF Never
<1>4. e \in Bookkeeping /\ e.inserted = stamp /\ e.accessed = stamp /\ e.accesses = 0
  BY <1>2, <1>3 DEF Bookkeeping
<1>5. entries' = [entries EXCEPT ![k] = e] /\ entries \in [Slot -> Bookkeeping \cup {None}]
  BY DEF Insert, Shape, EntriesOK
<1> HIDE DEF e
<1>6. /\ entries' \in [Slot -> Bookkeeping \cup {None}] /\ entries'[k] = e
      /\ \A j \in Slot : j # k => entries'[j] = entries[j]
  BY <1>1, <1>4, <1>5
<1>7. Present' \subseteq Present \cup {k}
  BY <1>6 DEF Present
<1>8. ASSUME NEW j \in Present'
      PROVE  /\ entries'[j].inserted <= entries'[j].accessed
             /\ entries'[j].accesses <= entries'[j].accessed
             /\ entries'[j].accessed < seq'
  <2>1. CASE j = k
    BY <1>1, <1>2, <1>4, <1>6, <2>1
  <2>2. CASE j # k
    <3>1. j \in Present /\ entries'[j] = entries[j]
      BY <1>6, <1>7, <2>2 DEF Present
    <3> QED
      BY <1>1, <3>1 DEF Shape, EntriesOK
  <2> QED
    BY <2>1, <2>2
<1> QED
  BY <1>1, <1>4, <1>6, <1>7, <1>8 DEF EntriesOK

\* A step of a call changes its locals, draws at most a number, and keeps the
\* configuration and the clock.
LEMMA Steps ==
  ASSUME Shape, NEW p \in Client,
         \/ \E k \in Key : GetRead(p, k) \/ Put(p, k)
         \/ GetClean(p) \/ GetTouch(p) \/ Bump(p) \/ Evict(p) \/ Stamp(p) \/ Insert(p)
  PROVE  /\ \E c \in CallType :
              /\ call' = [call EXCEPT ![p] = c] /\ Fits(c, now, seq')
              /\ c.at = "search" => call[p].at = "search" \/ c.shard = 0
         /\ UNCHANGED <<now, limit, strategy, shardOf>> /\ generation' \in Nat
         /\ seq' = seq \/ seq' = seq + 1
<1>1. seq \in Nat /\ generation \in Nat /\ now \in Nat /\ Key \subseteq Slot /\ Debug \in Slot
  BY Numbers DEF Shape
<1>2. CASE (\E k \in Key : GetRead(p, k) \/ Put(p, k)) \/ Bump(p)
  <2>1. \E l \in {"clean", "room"}, k \in Slot : Start(p, l, k)
    BY <1>1, <1>2 DEF GetRead, Put, Bump
  <2>2. /\ UNCHANGED <<now, limit, strategy, shardOf, seq>>
        /\ generation' = generation \/ generation' = generation + 1
    BY <1>2 DEF GetRead, Put, Bump, state, config
  <2> QED
    BY <1>1, <2>1, <2>2, Starts
<1>3. CASE GetClean(p) \/ Room(p) \/ Full(p)
  <2>1. call[p].at \in {"clean", "room", "loop"} /\
        \E l \in {"touch", "stamp", "retain", "least", "search"} : Goto(p, l)
    BY <1>3 DEF GetClean, Room, Full, At
  <2>2. UNCHANGED <<now, limit, strategy, shardOf, seq, generation>>
    BY <1>3 DEF GetClean, Room, Full, state, config
  <2> QED
    BY <1>1, <2>1, <2>2, Goes
<1>4. CASE Retain(p) \/ Least(p) \/ Age(p) \/ Search(p) \/ Remove(p)
  <2>1. UNCHANGED <<now, limit, strategy, shardOf, seq, generation>>
    BY <1>4 DEF Retain, Least, Age, Search, Remove, state, config
  <2>2. \E c \in CallType :
          /\ call' = [call EXCEPT ![p] = c] /\ Fits(c, now, seq)
          /\ c.at = "search" => call[p].at = "search" \/ c.shard = 0
    <3>1. Search(p) => call[p].at = "search"
      BY DEF Search, At
    <3> QED
      BY <1>4, <3>1, Retains, Leasts, Ages, Searches, Removes
  <2> QED
    BY <1>1, <2>1, <2>2
<1>5. CASE Stamp(p)
  <2>1. UNCHANGED <<now, limit, strategy, shardOf, generation>>
    BY <1>5 DEF Stamp, config
  <2> QED
    BY <1>1, <1>5, <2>1, Stamps
<1>6. CASE GetTouch(p) \/ Insert(p)
  <2>1. /\ UNCHANGED <<now, limit, strategy, shardOf, generation>>
        /\ seq' = seq \/ seq' = seq + 1
        /\ call' = [call EXCEPT ![p] = Idle]
    BY <1>6 DEF GetTouch, Insert, config
  <2> QED
    BY <1>1, <2>1, IdleCall
<1> QED
  BY <1>2, <1>3, <1>4, <1>5, <1>6 DEF Evict

\* Every step keeps the entries well formed.
LEMMA EntriesNext ==
  ASSUME Shape, NEW p \in Client,
         \/ \E k \in Key : GetRead(p, k) \/ Put(p, k)
         \/ GetClean(p) \/ GetTouch(p) \/ Bump(p) \/ Evict(p) \/ Stamp(p) \/ Insert(p)
  PROVE  EntriesOK'
<1>1. CASE Age(p)
  BY <1>1, Aged
<1>2. CASE Insert(p)
  BY <1>2, Inserted
<1>3. CASE GetTouch(p) /\ call[p].slot \in Present
  BY <1>3, Touched DEF GetTouch
<1>4. CASE (\E gone : entries' = Without(gone)) \/ entries' = entries
  <2>1. seq' = seq \/ seq' = seq + 1
    BY Steps
  <2>2. seq' \in Nat /\ seq <= seq'
    BY <2>1 DEF Shape
  <2> QED
    BY <1>4, <2>2, EntriesKept
<1>5. \/ Age(p) \/ Insert(p) \/ (GetTouch(p) /\ call[p].slot \in Present)
      \/ (\E gone : entries' = Without(gone)) \/ entries' = entries
  <2>1. CASE \/ (\E k \in Key : GetRead(p, k) \/ Put(p, k)) \/ Bump(p) \/ Stamp(p)
             \/ Room(p) \/ Full(p) \/ Least(p) \/ Search(p)
    BY <2>1 DEF GetRead, Put, Bump, Stamp, Room, Full, Least, Search, state
  <2>2. CASE GetClean(p) \/ Retain(p) \/ Remove(p)
    BY <2>2 DEF GetClean, Retain, Remove
  <2>3. CASE GetTouch(p)
    BY <2>3 DEF GetTouch
  <2> QED
    BY <2>1, <2>2, <2>3 DEF Evict
<1> QED
  BY <1>1, <1>2, <1>3, <1>4, <1>5

\* Every step keeps the types.
LEMMA ShapeNext ==
  ASSUME Shape, [Next]_vars
  PROVE  Shape'
<1>0. /\ CallsOK /\ EntriesOK /\ seq \in Nat /\ generation \in Nat /\ now \in Nat
      /\ now \in 0..MaxTime /\ limit \in Scope[strategy].limits /\ strategy \in Strategies
      /\ shardOf \in [Slot -> 1..Shards]
  BY Numbers DEF Shape
<1>1. ASSUME NEW p \in Client,
             \/ \E k \in Key : GetRead(p, k) \/ Put(p, k)
             \/ GetClean(p) \/ GetTouch(p) \/ Bump(p) \/ Evict(p) \/ Stamp(p) \/ Insert(p)
      PROVE  Shape'
  <2>1. /\ UNCHANGED <<now, limit, strategy, shardOf>> /\ generation' \in Nat
        /\ seq' \in Nat /\ seq <= seq'
    BY <1>0, <1>1, Steps
  <2>2. PICK c \in CallType : call' = [call EXCEPT ![p] = c] /\ Fits(c, now, seq')
    BY <1>1, Steps
  <2>3. CallsOK'
    BY <2>1, <2>2, CallsKept
  <2>4. EntriesOK'
    BY <1>1, EntriesNext
  <2> QED
    BY <1>0, <2>1, <2>3, <2>4 DEF Shape
<1>2. ASSUME NEW s \in 1..Shards, NEW time \in 0..now, Prune(s, time)
      PROVE  Shape'
  <2>1. /\ UNCHANGED <<call, generation, seq, now, limit, strategy, shardOf>>
        /\ \E gone : entries' = Without(gone)
    BY <1>2 DEF Prune, config
  <2>2. CallsOK'
    BY <1>0, <2>1 DEF CallsOK
  <2>3. EntriesOK'
    BY <1>0, <2>1, EntriesKept
  <2> QED
    BY <1>0, <2>1, <2>2, <2>3 DEF Shape
<1>3. CASE Tick
  <2>1. /\ UNCHANGED <<call, entries, generation, seq, limit, strategy, shardOf>>
        /\ now' = now + 1 /\ now' \in 0..MaxTime
    BY <1>0, <1>3, Numbers DEF Tick, config
  <2>2. ASSUME NEW p \in Client
        PROVE  Fits(call[p], now', seq)
    <3>1. Fits(call[p], now, seq) /\ call[p].began \in Nat
      BY Known DEF CallType
    <3> QED
      BY <1>0, <2>1, <3>1 DEF Fits
  <2>3. CallsOK'
    BY <1>0, <2>1, <2>2 DEF CallsOK
  <2>4. EntriesOK'
    BY <1>0, <2>1 DEF EntriesOK, Present
  <2> QED
    BY <1>0, <2>1, <2>3, <2>4 DEF Shape
<1>4. CASE UNCHANGED vars
  BY <1>4 DEF vars, state, config, Shape, CallsOK, EntriesOK, Present
<1> QED
  BY <1>1, <1>2, <1>3, <1>4 DEF Next

\* Every step keeps the numbers drawn within the bound.
LEMMA BudgetNext ==
  ASSUME Shape, Budget, [Next]_vars
  PROVE  Budget'
<1>1. /\ call \in [Client -> CallType] /\ seq \in Nat /\ generation \in Nat /\ MaxSeq \in Nat
      /\ IsFiniteSet(Client) /\ Key \subseteq Slot /\ Debug \in Slot
      /\ seq + Cardinality(Drawing) <= MaxSeq /\ generation <= seq + Cardinality(Storing)
  BY Numbers DEF Shape, CallsOK, Budget
<1>2. /\ IsFiniteSet(Drawing) /\ Cardinality(Drawing) \in Nat
      /\ IsFiniteSet(Storing) /\ Cardinality(Storing) \in Nat
  <2>1. Drawing \subseteq Client /\ Storing \subseteq Client
    BY DEF Drawing, Storing
  <2> QED
    BY <1>1, <2>1, Part
<1>3. ASSUME Drawing' = Drawing, Storing' = Storing, seq' = seq, generation' = generation
      PROVE  Budget'
  BY <1>1, <1>3 DEF Budget
<1>4. ASSUME NEW p \in Client, NEW k \in Slot, NEW l \in {"clean", "room"}, Start(p, l, k),
             seq' = seq, generation' = generation \/ (l = "room" /\ generation' = generation + 1)
      PROVE  Budget'
  <2>1. PICK c \in CallType : call' = [call EXCEPT ![p] = c] /\ c.at = l
    BY <1>4, Starts
  <2>2. Drawing' = Drawing \cup {p} /\ Storing' = IF l = "clean" THEN Storing \ {p} ELSE Storing \cup {p}
    BY <1>1, <2>1, Counts
  <2>3. /\ At(p, "idle") /\ seq + Cardinality({q \in Client : ~At(q, "idle")}) < Scope[strategy].numbers
        /\ Scope[strategy].numbers <= MaxSeq /\ Scope[strategy].numbers \in Nat
    BY <1>4, Numbers DEF Start, MayCall, Shape
  <2>4. p \notin Drawing /\ p \notin Storing
    BY <2>3 DEF Drawing, Storing
  <2>5. Cardinality(Drawing') = Cardinality(Drawing) + 1
    BY <1>2, <2>2, <2>4, FS_AddElement
  <2>6. /\ Cardinality(Drawing) <= Cardinality({q \in Client : ~At(q, "idle")})
        /\ Cardinality({q \in Client : ~At(q, "idle")}) \in Nat
    <3>1. /\ Drawing \subseteq {q \in Client : ~At(q, "idle")}
          /\ {q \in Client : ~At(q, "idle")} \subseteq Client
      BY DEF Drawing
    <3>2. IsFiniteSet({q \in Client : ~At(q, "idle")})
      BY <1>1, <3>1, Part
    <3> QED
      BY <3>1, <3>2, Part
  <2>7. Cardinality(Storing') = IF l = "clean" THEN Cardinality(Storing) ELSE Cardinality(Storing) + 1
    <3>1. CASE l = "clean"
      <4>1. Storing' = Storing
        BY <2>2, <2>4, <3>1
      <4> QED
        BY <3>1, <4>1
    <3>2. CASE l = "room"
      <4>1. Storing' = Storing \cup {p}
        BY <2>2, <3>2
      <4> QED
        BY <1>2, <2>4, <3>2, <4>1, FS_AddElement
    <3> QED
      BY <3>1, <3>2
  <2>8. seq' + Cardinality(Drawing') <= MaxSeq
    BY <1>1, <1>2, <1>4, <2>3, <2>5, <2>6
  <2>9. generation' <= seq' + Cardinality(Storing')
    BY <1>1, <1>2, <1>4, <2>7
  <2> QED
    BY <2>8, <2>9 DEF Budget
<1>5. ASSUME NEW p \in Client, NEW k \in Key, GetRead(p, k) \/ Put(p, k)
      PROVE  Budget'
  <2>1. /\ Start(p, "clean", k) \/ Start(p, "room", k)
        /\ seq' = seq /\ generation' = generation
    BY <1>5 DEF GetRead, Put, state
  <2> QED
    BY <1>1, <1>4, <2>1
<1>6. ASSUME NEW p \in Client, Bump(p)
      PROVE  Budget'
  <2>1. Start(p, "room", Debug) /\ seq' = seq /\ generation' = generation + 1
    BY <1>6 DEF Bump
  <2> QED
    BY <1>1, <1>4, <2>1
<1>7. ASSUME NEW p \in Client, GetClean(p)
      PROVE  Budget'
  <2>1. PICK c \in CallType : call' = [call EXCEPT ![p] = c] /\ c.at = "touch"
    <3>1. call[p].at \in {"clean", "room", "loop"} /\ Goto(p, "touch")
      BY <1>7 DEF GetClean, At
    <3> QED
      BY <3>1, Goes
  <2>2. At(p, "clean") /\ seq' = seq /\ generation' = generation
    BY <1>7 DEF GetClean
  <2>3. p \in Drawing /\ p \notin Storing
    BY <2>2 DEF Drawing, Storing, At
  <2>4. Drawing' = Drawing \cup {p} /\ Storing' = Storing \ {p}
    BY <1>1, <2>1, Counts
  <2>5. Drawing' = Drawing /\ Storing' = Storing
    BY <2>3, <2>4
  <2> QED
    BY <1>3, <2>2, <2>5
<1>8. ASSUME NEW p \in Client, GetTouch(p)
      PROVE  Budget'
  <2>1. /\ call' = [call EXCEPT ![p] = Idle] /\ At(p, "touch") /\ generation' = generation
        /\ seq' = seq \/ seq' = seq + 1
    BY <1>8 DEF GetTouch
  <2>2. p \in Drawing /\ p \notin Storing
    BY <2>1 DEF Drawing, Storing, At
  <2>3. Drawing' = Drawing \ {p} /\ Storing' = Storing
    <3>1. Drawing' = Drawing \ {p} /\ Storing' = Storing \ {p}
      BY <1>1, <2>1, IdleCall, Counts
    <3> QED
      BY <2>2, <3>1
  <2>4. Cardinality(Drawing') = Cardinality(Drawing) - 1
    BY <1>2, <2>2, <2>3, FS_RemoveElement
  <2> QED
    BY <1>1, <1>2, <2>1, <2>3, <2>4 DEF Budget
<1>9. ASSUME NEW p \in Client, Evict(p)
      PROVE  Budget'
  <2>1. PICK c \in CallType :
          /\ call' = [call EXCEPT ![p] = c]
          /\ c.at \in {"stamp", "retain", "loop", "least", "age", "search", "remove"}
    <3>1. CASE Room(p) \/ Full(p)
      <4>1. /\ call[p].at \in {"clean", "room", "loop"}
            /\ \E l \in {"stamp", "retain", "least", "search"} : Goto(p, l)
        BY <3>1 DEF Room, Full, At
      <4> QED
        BY <4>1, Goes
    <3>2. CASE Retain(p)
      BY <3>2, Retains
    <3>3. CASE Least(p) \/ Age(p)
      BY <3>3, Leasts, Ages
    <3>4. CASE Search(p)
      BY <3>4, Searches
    <3>5. CASE Remove(p)
      BY <3>5, Removes
    <3> QED
      BY <1>9, <3>1, <3>2, <3>3, <3>4, <3>5 DEF Evict
  <2>2. /\ call[p].at \in {"room", "retain", "loop", "least", "age", "search", "remove"}
        /\ seq' = seq /\ generation' = generation
    BY <1>9 DEF Evict, Room, Full, Retain, Least, Age, Search, Remove, At, state
  <2>3. p \in Drawing /\ p \in Storing
    BY <2>2 DEF Drawing, Storing, At
  <2>4. Drawing' = Drawing \cup {p} /\ Storing' = Storing \cup {p}
    BY <1>1, <2>1, Counts
  <2>5. Drawing' = Drawing /\ Storing' = Storing
    BY <2>3, <2>4
  <2> QED
    BY <1>3, <2>2, <2>5
<1>10. ASSUME NEW p \in Client, Stamp(p)
       PROVE  Budget'
  <2>1. PICK c \in CallType : call' = [call EXCEPT ![p] = c] /\ c.at = "insert"
    BY <1>10, Stamps
  <2>2. At(p, "stamp") /\ seq' = seq + 1 /\ generation' = generation
    BY <1>10 DEF Stamp
  <2>3. p \in Drawing /\ p \in Storing
    BY <2>2 DEF Drawing, Storing, At
  <2>4. Drawing' = Drawing \ {p} /\ Storing' = Storing \ {p}
    BY <1>1, <2>1, Counts
  <2>5. /\ Cardinality(Drawing') = Cardinality(Drawing) - 1
        /\ Cardinality(Storing') = Cardinality(Storing) - 1
    BY <1>2, <2>3, <2>4, FS_RemoveElement
  <2> QED
    BY <1>1, <1>2, <2>2, <2>5 DEF Budget
<1>11. ASSUME NEW p \in Client, Insert(p)
       PROVE  Budget'
  <2>1. /\ call' = [call EXCEPT ![p] = Idle] /\ At(p, "insert")
        /\ seq' = seq /\ generation' = generation
    BY <1>11 DEF Insert
  <2>2. p \notin Drawing /\ p \notin Storing
    BY <2>1 DEF Drawing, Storing
  <2>3. Drawing' = Drawing /\ Storing' = Storing
    <3>1. Drawing' = Drawing \ {p} /\ Storing' = Storing \ {p}
      BY <1>1, <2>1, IdleCall, Counts
    <3> QED
      BY <2>2, <3>1
  <2> QED
    BY <1>3, <2>1, <2>3
<1>12. CASE (\E s \in 1..Shards, time \in 0..now : Prune(s, time)) \/ Tick \/ UNCHANGED vars
  <2>1. call' = call /\ seq' = seq /\ generation' = generation
    BY <1>12 DEF Prune, Tick, vars, state
  <2>2. Drawing' = Drawing /\ Storing' = Storing
    BY <2>1 DEF Drawing, Storing, At
  <2> QED
    BY <1>3, <2>1, <2>2
<1> QED
  BY <1>5, <1>6, <1>7, <1>8, <1>9, <1>10, <1>11, <1>12 DEF Next

\* What a step of one call does to the calls counted as inserting.
LEMMA Inserting ==
  ASSUME call \in [Client -> CallType], NEW p \in Client, NEW c \in CallType,
         call' = [call EXCEPT ![p] = c], NEW s \in 0..Shards
  PROVE  Inserters'[s] = IF Clears(c, s) THEN Inserters[s] \cup {p} ELSE Inserters[s] \ {p}
<1>1. call'[p] = c /\ \A q \in Client : q # p => call'[q] = call[q]
  BY Changed
<1>2. /\ Inserters[s] = {q \in Client : Clears(call[q], s)}
      /\ Inserters'[s] = {q \in Client : Clears(call'[q], s)}
  BY DEF Inserters, Clears
<1> QED
  BY <1>1, <1>2

\* Every step keeps the bound on the entries: a call that finds room, or is about to, is
\* counted with the entry that it will insert.
LEMMA OvershootNext ==
  ASSUME Shape, Overshoot, [Next]_vars
  PROVE  Overshoot'
<1> DEFINE bound == Larger(limit, 1) + Cardinality(Client) - 1
<1>1. /\ call \in [Client -> CallType] /\ limit \in Nat /\ IsFiniteSet(Client)
      /\ Cardinality(Client) \in Nat /\ IsFiniteSet(Present) /\ Shards \in Nat \ {0}
      /\ shardOf \in [Slot -> 1..Shards]
      /\ Larger(limit, 1) \in Nat /\ limit <= Larger(limit, 1) /\ 1 <= Larger(limit, 1)
  BY Numbers DEF Shape, CallsOK, Overshoot, Larger
<1>2. ASSUME NEW s \in 0..Shards
      PROVE  /\ UpTo(s) \subseteq Present /\ Inserters[s] \subseteq Client
             /\ IsFiniteSet(UpTo(s)) /\ IsFiniteSet(Inserters[s])
             /\ Cardinality(UpTo(s)) \in Nat /\ Cardinality(Inserters[s]) \in Nat
             /\ Cardinality(Inserters[s]) <= Cardinality(Client)
             /\ Cardinality(UpTo(s)) + Cardinality(Inserters[s]) <= bound
  <2>1. UpTo(s) \subseteq Present /\ Inserters[s] \subseteq Client
    BY DEF UpTo, Inserters
  <2> QED
    BY <1>1, <2>1, Part DEF Overshoot
<1>3. ASSUME NEW s \in 0..Shards, NEW r \in 0..Shards, limit' = limit,
             UpTo(s)' \subseteq UpTo(r), Inserters'[s] \subseteq Inserters[r]
      PROVE  Cardinality(UpTo(s)') + Cardinality(Inserters'[s]) <= bound'
  <2>1. /\ Cardinality(UpTo(s)') \in Nat /\ Cardinality(UpTo(s)') <= Cardinality(UpTo(r))
        /\ Cardinality(Inserters'[s]) \in Nat
        /\ Cardinality(Inserters'[s]) <= Cardinality(Inserters[r])
    BY <1>2, <1>3, Part
  <2>2. bound' = bound /\ bound \in Int
    BY <1>1, <1>3 DEF Larger
  <2> QED
    BY <1>2, <2>1, <2>2
<1>4. ASSUME Present' \subseteq Present, shardOf' = shardOf, limit' = limit, NEW s \in 0..Shards
      PROVE  IsFiniteSet(Present') /\ UpTo(s)' \subseteq UpTo(s)
  BY <1>1, <1>4, Part DEF UpTo
<1>5. ASSUME Present' \subseteq Present, shardOf' = shardOf, limit' = limit,
             \A s \in 0..Shards : Inserters'[s] \subseteq Inserters[s]
      PROVE  Overshoot'
  <2>1. IsFiniteSet(Present')
    BY <1>1, <1>5, Part
  <2>2. ASSUME NEW s \in 0..Shards
        PROVE  Cardinality(UpTo(s)') + Cardinality(Inserters'[s]) <= bound'
    BY <1>3, <1>4, <1>5, <2>2
  <2> QED
    BY <2>1, <2>2 DEF Overshoot
<1>6. ASSUME Present' = Present, shardOf' = shardOf, limit' = limit, Cardinality(Present) < limit,
             \A s \in 0..Shards : Inserters'[s] \subseteq Client
      PROVE  Overshoot'
  <2>1. Cardinality(Present) \in Nat
    BY <1>1, Part
  <2>2. ASSUME NEW s \in 0..Shards
        PROVE  Cardinality(UpTo(s)') + Cardinality(Inserters'[s]) <= bound'
    <3>1. UpTo(s)' \subseteq Present
      BY <1>6 DEF UpTo
    <3>2. /\ Cardinality(UpTo(s)') \in Nat /\ Cardinality(UpTo(s)') <= Cardinality(Present)
          /\ Cardinality(Inserters'[s]) \in Nat
          /\ Cardinality(Inserters'[s]) <= Cardinality(Client)
      BY <1>1, <1>6, <3>1, Part
    <3>3. bound' = bound
      BY <1>6 DEF Larger
    <3> QED
      BY <1>1, <1>6, <2>1, <3>2, <3>3
  <2> QED
    BY <1>1, <1>6, <2>2 DEF Overshoot
<1>7. ASSUME NEW p \in Client, NEW c \in CallType, call' = [call EXCEPT ![p] = c],
             c.at \notin {"search", "stamp", "insert"}, NEW s \in 0..Shards
      PROVE  Inserters'[s] \subseteq Inserters[s] \ {p}
  <2>1. Inserters'[s] = IF Clears(c, s) THEN Inserters[s] \cup {p} ELSE Inserters[s] \ {p}
    BY <1>1, <1>7, Inserting
  <2>2. ~Clears(c, s)
    BY <1>7 DEF Clears
  <2> QED
    BY <2>1, <2>2
<1>8. ASSUME NEW p \in Client, NEW c \in CallType, call' = [call EXCEPT ![p] = c],
             c.at = "search", c.shard = 0, Present' \subseteq Present, shardOf' = shardOf,
             limit' = limit
      PROVE  Overshoot'
  <2>1. ASSUME NEW s \in 0..Shards
        PROVE  Cardinality(UpTo(s)') + Cardinality(Inserters'[s]) <= bound'
    <3>1. CASE s = 0
      <4>1. UpTo(0)' = {}
        BY <1>1, <1>8 DEF UpTo, Present
      <4>2. Inserters'[s] \subseteq Client
        BY DEF Inserters
      <4>3. Cardinality(Inserters'[s]) \in Nat /\ Cardinality(Inserters'[s]) <= Cardinality(Client)
        BY <1>1, <4>2, Part
      <4>4. bound' = bound
        BY <1>8 DEF Larger
      <4>5. Cardinality({}) = 0
        BY FS_EmptySet
      <4> QED
        BY <1>1, <3>1, <4>1, <4>3, <4>5, <4>4
    <3>2. CASE s # 0
      <4>1. ~(s <= c.shard)
        BY <1>1, <1>8, <3>2
      <4>2. ~Clears(c, s)
        BY <1>8, <4>1 DEF Clears
      <4>3. Inserters'[s] \subseteq Inserters[s]
        BY <1>1, <1>8, <4>2, Inserting
      <4> QED
        BY <1>3, <1>4, <1>8, <4>3
    <3> QED
      BY <3>1, <3>2
  <2> QED
    BY <1>1, <1>8, <2>1, Part DEF Overshoot
<1>9. ASSUME NEW p \in Client, (\E k \in Key : GetRead(p, k) \/ Put(p, k)) \/ Bump(p)
      PROVE  Overshoot'
  <2>1. \E l \in {"clean", "room"}, k \in Slot : Start(p, l, k)
    BY <1>9, Numbers DEF GetRead, Put, Bump
  <2>2. PICK c \in CallType : call' = [call EXCEPT ![p] = c] /\ c.at \in {"clean", "room"}
    BY <2>1, Starts
  <2>3. Present' = Present /\ limit' = limit /\ shardOf' = shardOf
    BY <1>9 DEF GetRead, Put, Bump, Present, state, config
  <2> QED
    BY <1>5, <1>7, <2>2, <2>3
<1>10. ASSUME NEW p \in Client, GetClean(p) \/ Retain(p) \/ Remove(p)
       PROVE  Overshoot'
  <2>1. PICK c \in CallType : /\ call' = [call EXCEPT ![p] = c]
                              /\ c.at \in {"touch", "retain", "loop"}
    <3>1. CASE GetClean(p)
      <4>1. call[p].at \in {"clean", "room", "loop"} /\ Goto(p, "touch")
        BY <3>1 DEF GetClean, At
      <4> QED
        BY <4>1, Goes
    <3>2. CASE Retain(p) \/ Remove(p)
      BY <3>2, Retains, Removes
    <3> QED
      BY <1>10, <3>1, <3>2
  <2>2. Present' \subseteq Present
    <3>1. (\E gone : entries' = Without(gone) \/ entries' = entries) /\ seq' = seq /\ seq \in Nat
      BY <1>10 DEF GetClean, Retain, Remove, Shape
    <3> QED
      BY <3>1, EntriesKept
  <2>3. limit' = limit /\ shardOf' = shardOf
    BY <1>10 DEF GetClean, Retain, Remove, config
  <2> QED
    BY <1>5, <1>7, <2>1, <2>2, <2>3
<1>11. ASSUME NEW p \in Client, GetTouch(p)
       PROVE  Overshoot'
  <2>1. call' = [call EXCEPT ![p] = Idle] /\ limit' = limit /\ shardOf' = shardOf
    BY <1>11 DEF GetTouch, config
  <2>2. Present' \subseteq Present
    <3>1. CASE call[p].slot \in Present
      BY <1>11, <3>1, Touched DEF GetTouch
    <3>2. CASE call[p].slot \notin Present
      BY <1>11, <3>2 DEF GetTouch, Present
    <3> QED
      BY <3>1, <3>2
  <2> QED
    BY <1>5, <1>7, <2>1, <2>2, IdleCall
<1>12. ASSUME NEW p \in Client, Room(p) \/ Full(p)
       PROVE  Overshoot'
  <2>1. /\ Present' = Present /\ limit' = limit /\ shardOf' = shardOf
        /\ call[p].at \in {"clean", "room", "loop"}
        /\ \/ Cardinality(Present) < limit
           \/ \E l \in {"retain", "least", "search"} : Goto(p, l)
    BY <1>12 DEF Room, Full, Present, state, config, At
  <2>2. CASE Cardinality(Present) < limit
    BY <1>6, <2>1, <2>2 DEF Inserters
  <2>3. CASE \E l \in {"retain", "least", "search"} : Goto(p, l)
    <3>1. PICK c \in CallType : /\ call' = [call EXCEPT ![p] = c] /\ c.shard = 0
                                /\ c.at \in {"retain", "least", "search"}
      BY <2>1, <2>3, Goes
    <3> QED
      BY <1>5, <1>7, <1>8, <2>1, <3>1
  <2> QED
    BY <2>1, <2>2, <2>3
<1>13. ASSUME NEW p \in Client, Least(p) \/ Age(p)
       PROVE  Overshoot'
  <2>1. PICK c \in CallType : /\ call' = [call EXCEPT ![p] = c]
                              /\ c.at \in {"least", "age"} \/ (c.at = "search" /\ c.shard = 0)
    BY <1>13, Leasts, Ages
  <2>2. Present' \subseteq Present
    <3>1. CASE Least(p)
      BY <3>1 DEF Least, state, Present
    <3>2. CASE Age(p)
      BY <3>2, Aged
    <3> QED
      BY <1>13, <3>1, <3>2
  <2>3. limit' = limit /\ shardOf' = shardOf
    BY <1>13 DEF Least, Age, state, config
  <2> QED
    BY <1>5, <1>7, <1>8, <2>1, <2>2, <2>3
<1>14. ASSUME NEW p \in Client, Search(p)
       PROVE  Overshoot'
  <2> DEFINE pool == In(NextShard(p)) \cup ({call[p].victim} \ {None})
  <2>1. PICK c \in CallType :
          /\ call' = [call EXCEPT ![p] = c]
          /\ \/ /\ pool = {} /\ c.victim = None
                /\ \/ c.at = "search" /\ c.shard = NextShard(p)
                   \/ c.at = "stamp" /\ NextShard(p) = Shards
             \/ c.victim # None /\ c.at \in {"search", "remove"}
    BY <1>14, Searches
  <2>2. Present' = Present /\ limit' = limit /\ shardOf' = shardOf /\ At(p, "search")
    BY <1>14 DEF Search, state, config, Present
  <2>3. CASE c.victim # None /\ c.at \in {"search", "remove"}
    <3>1. \A s \in 0..Shards : ~Clears(c, s)
      BY <2>3 DEF Clears
    <3>2. \A s \in 0..Shards : Inserters'[s] \subseteq Inserters[s]
      BY <1>1, <2>1, <3>1, Inserting
    <3> QED
      BY <1>5, <2>2, <3>2
  <2>4. CASE /\ pool = {} /\ c.victim = None
             /\ \/ c.at = "search" /\ c.shard = NextShard(p)
                \/ c.at = "stamp" /\ NextShard(p) = Shards
    <3>1. /\ call[p].shard \in 0..Shards-1 /\ NextShard(p) = call[p].shard + 1
          /\ In(NextShard(p)) = {} /\ call[p].victim = None
      BY <2>4, Known DEF NextShard
    <3>2. ASSUME NEW s \in 0..Shards
          PROVE  Cardinality(UpTo(s)') + Cardinality(Inserters'[s]) <= bound'
      <4>1. Inserters'[s] \subseteq Inserters[s] \cup {p}
        BY <1>1, <2>1, Inserting
      <4>2. CASE s <= call[p].shard
        <5>1. p \in Inserters[s]
          BY <2>2, <3>1, <4>2 DEF Inserters, Clears, At
        <5> QED
          BY <1>3, <1>4, <2>2, <4>1, <5>1
      <4>3. CASE s = NextShard(p)
        <5>1. call[p].shard \in 0..Shards
          BY <1>1, <3>1
        <5>2. UpTo(s)' \subseteq UpTo(call[p].shard)
          <6>1. ASSUME NEW k \in Present, shardOf[k] <= s
                PROVE  shardOf[k] <= call[p].shard
            <7>1. shardOf[k] # NextShard(p) /\ shardOf[k] \in 1..Shards
              BY <1>1, <3>1, <6>1 DEF In, Present
            <7> QED
              BY <1>1, <3>1, <4>3, <6>1, <7>1
          <6> QED
            BY <2>2, <6>1 DEF UpTo
        <5>3. Inserters[s] \subseteq Inserters[call[p].shard]
          <6>1. ASSUME NEW q \in Client, s <= call[q].shard
                PROVE  call[p].shard <= call[q].shard
            BY <3>1, <4>3, <6>1, Known
          <6>2. \A q \in Client : Clears(call[q], s) => Clears(call[q], call[p].shard)
            BY <6>1 DEF Clears
          <6> QED
            BY <5>1, <6>2 DEF Inserters
        <5>4. p \in Inserters[call[p].shard]
          <6>1. call[p].shard <= call[p].shard
            BY <3>1
          <6>2. Clears(call[p], call[p].shard)
            BY <2>2, <3>1, <6>1 DEF Clears, At
          <6> QED
            BY <5>1, <6>2 DEF Inserters
        <5>5. Inserters'[s] \subseteq Inserters[call[p].shard]
          BY <4>1, <5>3, <5>4
        <5> QED
          BY <1>3, <2>2, <5>1, <5>2, <5>5
      <4>4. CASE NextShard(p) < s
        <5>1. c.at = "search" /\ ~(s <= c.shard)
          BY <1>1, <2>4, <3>1, <4>4
        <5>2. ~Clears(c, s)
          BY <5>1 DEF Clears
        <5>3. Inserters'[s] \subseteq Inserters[s]
          BY <1>1, <2>1, <5>2, Inserting
        <5> QED
          BY <1>3, <1>4, <2>2, <5>3
      <4> QED
        BY <1>1, <3>1, <4>2, <4>3, <4>4
    <3> QED
      BY <1>1, <2>2, <3>2 DEF Overshoot
  <2> QED
    BY <2>1, <2>3, <2>4
<1>15. ASSUME NEW p \in Client, Stamp(p)
       PROVE  Overshoot'
  <2>1. PICK c \in CallType : call' = [call EXCEPT ![p] = c] /\ c.at = "insert"
    BY <1>15, Stamps
  <2>2. /\ Present' = Present /\ limit' = limit /\ shardOf' = shardOf
        /\ \A s \in 0..Shards : p \in Inserters[s]
    BY <1>15 DEF Stamp, At, Inserters, Clears, Present, config
  <2>3. ASSUME NEW s \in 0..Shards
        PROVE  Inserters'[s] \subseteq Inserters[s]
    <3>1. p \in Inserters[s]
      BY <2>2
    <3>2. Inserters'[s] \subseteq Inserters[s] \cup {p}
      BY <1>1, <2>1, Inserting
    <3> QED
      BY <3>1, <3>2
  <2> QED
    BY <1>5, <2>2, <2>3
<1>16. ASSUME NEW p \in Client, Insert(p)
       PROVE  Overshoot'
  <2>1. /\ call' = [call EXCEPT ![p] = Idle] /\ limit' = limit /\ shardOf' = shardOf
        /\ \A s \in 0..Shards : p \in Inserters[s]
    BY <1>16 DEF Insert, At, Inserters, Clears, config
  <2>2. Present' \subseteq Present \cup {call[p].slot}
    BY <1>16, Inserted
  <2>3. IsFiniteSet(Present')
    BY <1>1, <2>2, Joined
  <2>4. ASSUME NEW s \in 0..Shards
        PROVE  Cardinality(UpTo(s)') + Cardinality(Inserters'[s]) <= bound'
    <3>1. UpTo(s)' \subseteq UpTo(s) \cup {call[p].slot}
      BY <2>1, <2>2 DEF UpTo
    <3>2. Cardinality(UpTo(s)') \in Nat /\ Cardinality(UpTo(s)') <= Cardinality(UpTo(s)) + 1
      BY <1>2, <3>1, Joined
    <3>3. Inserters'[s] \subseteq Inserters[s] \ {p} /\ p \in Inserters[s]
      BY <1>7, <2>1, IdleCall
    <3>4. /\ Cardinality(Inserters'[s]) \in Nat
          /\ Cardinality(Inserters'[s]) <= Cardinality(Inserters[s]) - 1
      BY <1>2, <3>3, Left
    <3>5. bound' = bound
      BY <2>1 DEF Larger
    <3> QED
      BY <1>1, <1>2, <3>2, <3>4, <3>5
  <2> QED
    BY <2>3, <2>4 DEF Overshoot
<1>17. CASE (\E s \in 1..Shards, time \in 0..now : Prune(s, time)) \/ Tick \/ UNCHANGED vars
  <2>1. call' = call /\ limit' = limit /\ shardOf' = shardOf /\ seq' = seq /\ seq \in Nat
    BY <1>17 DEF Prune, Tick, vars, state, Shape, config
  <2>2. \A s \in 0..Shards : Inserters'[s] = Inserters[s]
    BY <2>1 DEF Inserters
  <2>3. Present' \subseteq Present
    <3>1. \E gone : entries' = Without(gone) \/ entries' = entries
      BY <1>17 DEF Prune, Tick, vars, state
    <3> QED
      BY <2>1, <3>1, EntriesKept
  <2> QED
    BY <1>5, <2>1, <2>2, <2>3
<1> QED
  BY <1>9, <1>10, <1>11, <1>12, <1>13, <1>14, <1>15, <1>16, <1>17 DEF Next, Evict

-----------------------------------------------------------------------------
(* The choice of the victims.                                              *)

\* No step changes an entry in a shard that a call holds.
LEMMA Locked ==
  ASSUME Shape, [Next]_vars, NEW j \in Slot, ~Writable(shardOf[j])
  PROVE  entries'[j] = entries[j]
<1>1. entries \in [Slot -> Bookkeeping \cup {None}]
  BY DEF Shape, EntriesOK
<1>2. ASSUME NEW gone, j \notin gone, entries' = Without(gone)
      PROVE  entries'[j] = entries[j]
  BY <1>1, <1>2, Dropped
<1>3. ASSUME NEW p \in Client, GetClean(p)
      PROVE  entries'[j] = entries[j]
  <2>1. \/ entries' = entries
        \/ entries' = Without({call[p].slot}) /\ Writable(shardOf[call[p].slot])
    BY <1>3 DEF GetClean
  <2> QED
    BY <1>2, <2>1
<1>4. ASSUME NEW p \in Client, GetTouch(p)
      PROVE  entries'[j] = entries[j]
  <2>1. call[p].slot # j
    BY <1>4 DEF GetTouch
  <2>2. CASE call[p].slot \in Present
    BY <1>4, <2>1, <2>2, Touched DEF GetTouch
  <2>3. CASE call[p].slot \notin Present
    BY <1>4, <2>3 DEF GetTouch
  <2> QED
    BY <2>2, <2>3
<1>5. ASSUME NEW p \in Client, Retain(p)
      PROVE  entries'[j] = entries[j]
  <2>1. j \notin In(NextShard(p))
    BY <1>5 DEF Retain, In
  <2> QED
    BY <1>2, <1>5, <2>1 DEF Retain
<1>6. ASSUME NEW p \in Client, Age(p)
      PROVE  entries'[j] = entries[j]
  <2>1. shardOf[j] # NextShard(p)
    BY <1>6 DEF Age
  <2> QED
    BY <1>6, <2>1, Aged
<1>7. ASSUME NEW p \in Client, Remove(p)
      PROVE  entries'[j] = entries[j]
  <2>1. j # call[p].victim
    BY <1>7 DEF Remove
  <2> QED
    BY <1>2, <1>7, <2>1 DEF Remove
<1>8. ASSUME NEW p \in Client, Insert(p)
      PROVE  entries'[j] = entries[j]
  <2>1. j # call[p].slot
    BY <1>8 DEF Insert
  <2> QED
    BY <1>8, <2>1, Inserted
<1>9. ASSUME NEW s \in 1..Shards, NEW time \in 0..now, Prune(s, time)
      PROVE  entries'[j] = entries[j]
  <2>1. j \notin In(s)
    BY <1>9 DEF Prune, In
  <2> QED
    BY <1>2, <1>9, <2>1 DEF Prune
<1>10. ASSUME NEW p \in Client,
              \/ \E k \in Key : GetRead(p, k) \/ Put(p, k)
              \/ Bump(p) \/ Room(p) \/ Full(p) \/ Least(p) \/ Search(p) \/ Stamp(p)
       PROVE  entries'[j] = entries[j]
  BY <1>10 DEF GetRead, Put, Bump, Room, Full, Least, Search, Stamp, state
<1>11. CASE Tick \/ UNCHANGED vars
  BY <1>11 DEF Tick, vars, state
<1>12. ASSUME NEW p \in Client,
              \/ \E k \in Key : GetRead(p, k) \/ Put(p, k)
              \/ GetClean(p) \/ GetTouch(p) \/ Bump(p) \/ Evict(p) \/ Stamp(p) \/ Insert(p)
       PROVE  entries'[j] = entries[j]
  BY <1>3, <1>4, <1>5, <1>6, <1>7, <1>8, <1>10, <1>12 DEF Evict
<1> QED
  BY <1>9, <1>11, <1>12 DEF Next

\* The order of eviction is a strict weak order.
LEMMA Ordered ==
  ASSUME strategy \in Strategies, NEW d \in Bookkeeping, NEW e \in Bookkeeping, NEW f \in Bookkeeping,
         ~Before(d, e), ~Before(e, f)
  PROVE  ~Before(d, f)
<1>1. /\ strategy \in {"fifo", "lru", "lfu"}
      /\ \A g \in {d, e, f} : g.inserted \in Nat /\ g.accessed \in Nat /\ g.accesses \in Nat
  BY Numbers DEF Bookkeeping
<1>2. CASE strategy = "fifo"
  BY <1>1, <1>2 DEF Before
<1>3. CASE strategy = "lru"
  BY <1>1, <1>3 DEF Before
<1>4. CASE strategy = "lfu"
  BY <1>1, <1>4 DEF Before
<1> QED
  BY <1>1, <1>2, <1>3, <1>4

\* What a call has read stays the first of what is left of it while another steps.
LEMMA ChosenKept ==
  ASSUME Shape, Chosen, [Next]_vars, NEW p \in Client, call'[p] = call[p], strategy' = strategy,
         shardOf' = shardOf, read'[p] = ReadBy(p)
  PROVE  /\ read'[p] \subseteq Present' /\ Held(p)'
         /\ First(call[p].victim, read[p])'
<1>1. /\ read[p] \subseteq Present /\ Held(p) /\ First(call[p].victim, read[p])
  BY DEF Chosen
<1>2. read'[p] = IF call[p].at \in {"search", "remove"}
                   THEN {k \in read[p] : entries'[k] = entries[k]} ELSE {}
  BY DEF ReadBy
<1>3. read'[p] \subseteq read[p] /\ \A k \in read'[p] : entries'[k] = entries[k]
  BY <1>2
<1>4. read'[p] \subseteq Present'
  BY <1>1, <1>3 DEF Present
<1>5. First(call[p].victim, read[p])'
  BY <1>1, <1>3 DEF First, Before
<1>6. CASE call[p].at = "search" /\ call[p].victim # None
  <2>1. call[p].victim \in read[p] /\ call[p].victim \in Slot
    BY <1>1, <1>6 DEF Held, At, Present
  <2>2. ~Writable(shardOf[call[p].victim])
    BY <1>6 DEF Writable, Reading, At
  <2>3. entries'[call[p].victim] = entries[call[p].victim]
    BY <2>1, <2>2, Locked
  <2> QED
    BY <1>2, <1>4, <1>5, <1>6, <2>1, <2>3 DEF Held, At
<1>7. CASE ~(call[p].at = "search" /\ call[p].victim # None)
  BY <1>1, <1>2, <1>3, <1>4, <1>5, <1>7 DEF Held, At
<1> QED
  BY <1>6, <1>7

\* Every step keeps what the searches have chosen.
LEMMA ChosenNext ==
  ASSUME Shape, Chosen, [Next]_vars
  PROVE  Chosen'
<1>1. CASE UNCHANGED vars
  BY <1>1 DEF vars, state, config, Chosen, Held, First, Before, Present, At
<1>2. CASE (\E s \in 1..Shards, time \in 0..now : Prune(s, time) /\ Observe) \/ (Tick /\ Observe)
  <2>1. /\ call' = call /\ strategy' = strategy /\ shardOf' = shardOf
        /\ \A p \in Client : read'[p] = ReadBy(p)
    BY <1>2 DEF Prune, Tick, Observe, config
  <2>2. ASSUME NEW p \in Client
        PROVE  read'[p] \subseteq Present' /\ Held(p)' /\ First(call[p].victim, read[p])'
    BY <2>1, ChosenKept
  <2> QED
    BY <2>2 DEF Chosen
<1>3. ASSUME NEW p \in Client, Observe,
             \/ \E k \in Key : GetRead(p, k) \/ Put(p, k)
             \/ GetClean(p) \/ GetTouch(p) \/ Bump(p) \/ Evict(p) \/ Stamp(p) \/ Insert(p)
      PROVE  Chosen'
  <2>1. PICK c \in CallType : /\ call' = [call EXCEPT ![p] = c] /\ Fits(c, now, seq')
                              /\ c.at = "search" => call[p].at = "search" \/ c.shard = 0
    BY <1>3, Steps
  <2>2. /\ strategy' = strategy /\ shardOf' = shardOf /\ \A q \in Client : read'[q] = ReadBy(q)
        /\ strategy \in Strategies
    BY <1>3, Steps DEF Observe, Shape
  <2>3. call'[p] = c /\ \A q \in Client : q # p => call'[q] = call[q]
    BY <2>1, Changed DEF Shape, CallsOK
  <2>4. ASSUME NEW q \in Client, q # p
        PROVE  read'[q] \subseteq Present' /\ Held(q)' /\ First(call[q].victim, read[q])'
    BY <2>2, <2>3, <2>4, ChosenKept
  <2>5. /\ read[p] \subseteq Present /\ Held(p) /\ First(call[p].victim, read[p])
    BY DEF Chosen
  <2>6. read'[p] \subseteq Present' /\ Held(p)' /\ First(call[p].victim, read[p])'
    <3>1. CASE Search(p)
      <4> DEFINE v == call[p].victim
                 pool == In(NextShard(p)) \cup ({v} \ {None})
      <4>1. /\ call[p].at = "search" /\ entries' = entries /\ Present' = Present
            /\ None \notin Present
        BY <3>1, Numbers DEF Search, At, state, Present
      <4>2. /\ c # call[p]
            /\ \/ pool = {} /\ c.victim = None /\ c.at \in {"search", "stamp"}
               \/ /\ c.victim \in pool /\ c.victim # None /\ c.at \in {"search", "remove"}
                  /\ \A j \in pool : ~Before(entries[j], entries[c.victim])
        <5>1. PICK d \in CallType :
                /\ call' = [call EXCEPT ![p] = d] /\ d # call[p]
                /\ \/ pool = {} /\ d.victim = None /\ d.at \in {"search", "stamp"}
                   \/ /\ d.victim \in pool /\ d.victim # None /\ d.at \in {"search", "remove"}
                      /\ \A j \in pool : ~Before(entries[j], entries[d.victim])
          BY <3>1, Searches
        <5>2. call'[p] = d
          BY <5>1, Changed DEF Shape, CallsOK
        <5>3. d = c
          BY <2>3, <5>2
        <5> QED
          BY <5>1, <5>3
      <4>3. IF v = None THEN read[p] = {} ELSE v \in read[p]
        BY <2>5, <4>1 DEF Held, At
      <4>4. read'[p] = IF c.at \in {"search", "remove"} THEN read[p] \cup In(NextShard(p)) ELSE {}
        BY <2>2, <2>3, <4>1, <4>2 DEF ReadBy, At
      <4>5. read'[p] \subseteq Present'
        BY <2>5, <4>1, <4>4 DEF In
      <4>6. CASE pool = {} /\ c.victim = None /\ c.at \in {"search", "stamp"}
        <5>1. read'[p] = {}
          BY <4>3, <4>4, <4>6
        <5> QED
          BY <2>3, <4>6, <5>1 DEF Held, First, At
      <4>7. CASE /\ c.victim \in pool /\ c.victim # None /\ c.at \in {"search", "remove"}
                 /\ \A j \in pool : ~Before(entries[j], entries[c.victim])
        <5>1. c.victim \in read'[p] /\ pool \subseteq Present
          BY <2>5, <4>3, <4>4, <4>7 DEF In
        <5>2. ASSUME NEW j \in read'[p]
              PROVE  ~Before(entries[j], entries[c.victim])
          <6>1. CASE j \in In(NextShard(p))
            BY <4>7, <6>1
          <6>2. CASE j \in read[p]
            <7>1. v \in read[p] /\ v \in pool /\ ~Before(entries[j], entries[v])
              BY <2>5, <4>1, <4>3, <6>2 DEF First
            <7>2. ~Before(entries[v], entries[c.victim])
              BY <4>7, <7>1
            <7>3. /\ entries[j] \in Bookkeeping /\ entries[v] \in Bookkeeping
                  /\ entries[c.victim] \in Bookkeeping
              <8>1. j \in Present /\ v \in Present /\ c.victim \in Present
                BY <2>5, <4>7, <5>1, <6>2, <7>1
              <8> QED
                BY <8>1 DEF Shape, EntriesOK, Present
            <7> QED
              BY <2>2, <7>1, <7>2, <7>3, Ordered
          <6> QED
            BY <4>4, <6>1, <6>2
        <5>3. First(call[p].victim, read[p])'
          BY <2>2, <2>3, <4>1, <5>2 DEF First, Before
        <5> QED
          BY <2>3, <4>5, <4>7, <5>1, <5>3 DEF Held, At
      <4> QED
        BY <4>2, <4>6, <4>7
    <3>2. CASE ~Search(p)
      <4>1. call[p].at # "search" /\ (call[p].at = "remove" => c.at = "loop")
        <5>1. call[p].at # "search" /\ (call[p].at = "remove" => Remove(p))
          BY <1>3, <3>2 DEF Evict, GetRead, Put, GetClean, GetTouch, Bump, Room, Full, Retain,
             Least, Age, Remove, Stamp, Insert, Start, At
        <5>2. Remove(p) => \E d \in CallType : call' = [call EXCEPT ![p] = d] /\ d.at = "loop"
          BY Removes
        <5>3. Remove(p) => c.at = "loop"
          BY <2>3, <5>2, Changed DEF Shape, CallsOK
        <5> QED
          BY <5>1, <5>3
      <4>2. read'[p] = {}
        <5>1. call[p].at # "remove" => read[p] = {}
          BY <2>5, <4>1 DEF Held, At
        <5> QED
          BY <2>2, <2>3, <4>1, <5>1 DEF ReadBy, At
      <4>3. c.at = "search" => c.victim = None
        BY <2>1, <4>1 DEF Fits
      <4> QED
        BY <2>3, <4>2, <4>3 DEF Held, First, At
    <3> QED
      BY <3>1, <3>2
  <2> QED
    BY <2>4, <2>6 DEF Chosen
<1> QED
  BY <1>1, <1>2, <1>3 DEF Next

-----------------------------------------------------------------------------
(* The theorems.                                                           *)

\* The empty backend satisfies the invariant.
LEMMA InvInit ==
  Init => Inv
<1> SUFFICES ASSUME Init PROVE Inv
  OBVIOUS
<1>1. /\ call = [p \in Client |-> Idle] /\ entries = [k \in Slot |-> None]
      /\ read = [p \in Client |-> {}]
      /\ seq = 0 /\ generation = 0 /\ now = 0 /\ limit \in Scope[strategy].limits /\ strategy \in Strategies
      /\ shardOf \in [Slot -> 1..Shards]
  BY Numbers DEF Init
<1>2. \A p \in Client : call[p] = Idle /\ read[p] = {}
  BY <1>1
<1>3. Present = {}
  BY <1>1 DEF Present
<1>4. CallsOK
  <2>1. Fits(Idle, now, seq)
    BY <1>1 DEF Fits, Idle
  <2> QED
    BY <1>1, <1>2, <2>1, IdleCall DEF CallsOK
<1>5. EntriesOK
  BY <1>1, <1>3 DEF EntriesOK
<1>6. Shape
  BY <1>1, <1>4, <1>5, Numbers DEF Shape
<1>7. Drawing = {} /\ Storing = {} /\ \A s \in 0..Shards : Inserters[s] = {} /\ UpTo(s) = {}
  BY <1>2, <1>3, IdleCall DEF Drawing, Storing, Inserters, Clears, UpTo, At
<1>8. Budget
  BY <1>1, <1>7, Numbers, FS_EmptySet DEF Budget
<1>9. Overshoot
  <2>1. limit \in Nat /\ Cardinality(Client) \in Nat /\ Cardinality({}) = 0 /\ IsFiniteSet({})
    BY <1>1, Numbers, FS_EmptySet
  <2>2. Larger(limit, 1) \in Nat /\ 1 <= Larger(limit, 1)
    BY <2>1 DEF Larger
  <2>3. ASSUME NEW s \in 0..Shards
        PROVE  Cardinality(UpTo(s)) + Cardinality(Inserters[s])
                 <= Larger(limit, 1) + Cardinality(Client) - 1
    <3>1. Cardinality(UpTo(s)) = 0 /\ Cardinality(Inserters[s]) = 0
      BY <1>7, <2>1
    <3> QED
      BY <2>1, <2>2, <3>1
  <2> QED
    BY <1>3, <2>1, <2>3 DEF Overshoot
<1>10. Chosen
  BY <1>2, IdleCall DEF Chosen, Held, First, At
<1> QED
  BY <1>6, <1>8, <1>9, <1>10 DEF Inv

\* The inductive invariant: types, the budget of sequence numbers, the entries that
\* racing calls leave, and the best entry of what each search has read, whose shard
\* stays locked.
THEOREM LocalInductive ==
  Spec => []Inv
<1>1. Inv /\ [Next]_vars => Inv'
  <2> SUFFICES ASSUME Inv, [Next]_vars PROVE Inv'
    OBVIOUS
  <2>1. Shape /\ Budget /\ Overshoot /\ Chosen
    BY DEF Inv
  <2>2. Shape' /\ Budget' /\ Overshoot' /\ Chosen'
    BY <2>1, ShapeNext, BudgetNext, OvershootNext, ChosenNext
  <2> QED
    BY <2>2 DEF Inv
<1> QED
  BY <1>1, InvInit, PTL DEF Spec

\* Types, for any finite set of threads: a number is used only after it was drawn, an
\* entry is accessed no earlier than it is inserted (Entry, put and get of mod.rs).
THEOREM LocalTyped ==
  Spec => []TypeOK
<1>1. Inv => TypeOK
  <2> SUFFICES ASSUME Inv PROVE TypeOK
    OBVIOUS
  <2>1. Shape /\ Budget /\ CallsOK /\ EntriesOK /\ seq \in Nat /\ generation \in Nat
    BY DEF Inv, Shape
  <2>2. seq <= MaxSeq /\ generation <= MaxSeq
    <3>1. Drawing \subseteq Client /\ Storing \subseteq Drawing
      BY DEF Drawing, Storing
    <3>2. IsFiniteSet(Drawing) /\ Cardinality(Drawing) \in Nat
      BY <3>1, Numbers, Part
    <3>3. Cardinality(Storing) \in Nat /\ Cardinality(Storing) <= Cardinality(Drawing)
      BY <3>1, <3>2, Part
    <3> QED
      BY <2>1, <3>2, <3>3, Numbers DEF Budget
  <2>3. ASSUME NEW p \in Client
        PROVE  /\ call[p].slot \in Slot \cup {None} /\ call[p].victim \in Slot \cup {None}
               /\ call[p].began \in 0..now
               /\ At(p, "insert") => call[p].stamp < seq
               /\ At(p, "remove") => call[p].victim # None
               /\ call[p].least \in 0..MaxSeq \cup {None} /\ call[p].shard \in 0..Shards-1
    <3>1. call[p] \in CallType /\ Fits(call[p], now, seq) /\ call[p].began <= now /\ now \in Nat
      BY Known DEF Inv, Fits
    <3>2. /\ call[p].slot \in Slot \cup {None} /\ call[p].victim \in Slot \cup {None}
          /\ call[p].began \in 0..now
      BY <3>1 DEF CallType
    <3>3. /\ At(p, "insert") => call[p].stamp < seq
          /\ At(p, "remove") => call[p].victim # None
      BY <3>1 DEF Fits, At
    <3>4. call[p].least \in 0..MaxSeq \cup {None} /\ call[p].shard \in 0..Shards-1
      BY <2>1, <2>2, <3>1, Numbers DEF Fits, CallType
    <3> QED
      BY <3>2, <3>3, <3>4
  <2>4. ASSUME NEW k \in Slot
        PROVE  entries[k] \in Entry \cup {None}
    <3>1. CASE k \in Present
      <4>1. /\ entries[k] \in Bookkeeping
            /\ entries[k].inserted <= entries[k].accessed
            /\ entries[k].accesses <= entries[k].accessed /\ entries[k].accessed < seq
        BY <2>1, <3>1 DEF EntriesOK, Present
      <4>2. /\ entries[k].inserted \in 0..MaxSeq /\ entries[k].accessed \in 0..MaxSeq
            /\ entries[k].accesses \in 0..MaxSeq
        BY <2>1, <2>2, <4>1, Numbers DEF Bookkeeping
      <4> QED
        BY <4>1, <4>2 DEF Bookkeeping, Entry
    <3>2. CASE k \notin Present
      BY <3>2 DEF Present
    <3> QED
      BY <3>1, <3>2
  <2>5. entries \in [Slot -> Entry \cup {None}]
    BY <2>1, <2>4 DEF EntriesOK
  <2>6. \A k \in Present : entries[k].inserted <= entries[k].accessed /\ entries[k].accessed < seq
    BY <2>1 DEF EntriesOK
  <2>7. limit \in Scope[strategy].limits /\ strategy \in Strategies /\ now \in 0..MaxTime
    BY <2>1 DEF Shape
  <2>8. generation \in 0..MaxSeq /\ seq \in 0..MaxSeq
    BY <2>1, <2>2, Numbers
  <2> QED
    BY <2>3, <2>5, <2>6, <2>7, <2>8 DEF TypeOK
<1> QED
  BY <1>1, LocalInductive, PTL

\* However many threads race, the entries exceed the limit by less than one per
\* thread (evict_if_needed, then insert).
THEOREM OvershootBounded ==
  Spec => []BoundedOvershoot
<1>1. Inv => BoundedOvershoot
  <2> SUFFICES ASSUME Inv PROVE BoundedOvershoot
    OBVIOUS
  <2>1. /\ IsFiniteSet(Present) /\ limit \in Nat /\ Shards \in Nat /\ shardOf \in [Slot -> 1..Shards]
        /\ \A s \in 0..Shards :
             Cardinality(UpTo(s)) + Cardinality(Inserters[s])
               <= Larger(limit, 1) + Cardinality(Client) - 1
    BY Numbers DEF Inv, Overshoot, Shape
  <2>2. UpTo(Shards) = Present
    BY <2>1 DEF UpTo, Present
  <2>3. Inserters[Shards] \subseteq Client
    BY <2>1 DEF Inserters
  <2>4. /\ Cardinality(Present) \in Nat /\ Cardinality(Inserters[Shards]) \in Nat
        /\ Cardinality(Client) \in Nat
    BY <2>1, <2>3, Numbers, Part
  <2>5. Larger(limit, 1) \in Nat
    BY <2>1 DEF Larger
  <2> QED
    BY <2>1, <2>2, <2>4, <2>5 DEF BoundedOvershoot
<1> QED
  BY <1>1, LocalInductive, PTL

\* However many threads race, a victim about to be removed is the first in the order of
\* eviction of all entries that are as its search read them (pick_victim, remove).
THEOREM EvictionOrdered ==
  Spec => []EvictionFollowsPolicy
<1>1. Inv => EvictionFollowsPolicy
  BY DEF Inv, Chosen, First, EvictionFollowsPolicy
<1> QED
  BY <1>1, LocalInductive, PTL
=============================================================================
