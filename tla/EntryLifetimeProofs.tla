-------------------------- MODULE EntryLifetimeProofs --------------------------
(***************************************************************************)
(* Proofs about EntryLifetime, for any finite set of executors, any inputs *)
(* and any limit, TTLs and skew.                                           *)
(***************************************************************************)
EXTENDS EntryLifetime, CacheKeyProofs

-----------------------------------------------------------------------------
(* The inductive invariant.                                                *)

Label == {"idle", "get", "shared", "clean", "replace", "room", "oldest", "evict",
          "insert", "filled"}
CallType == [at : Label, input : Asked \cup {None}, served : Asked \cup {None},
             kind : Kind, age : 0..MaxAge, left : 0..TTL, victim : Executor \cup {None}]
Envelope == [input : Asked, kind : Kind, age : 0..MaxShared, left : 0..MaxShared]

TypeInv ==
  /\ call \in [Executor -> CallType]
  /\ l1 \in [Executor -> Entry \cup {None}]
  /\ l2 \in Envelope \cup {None}

\* A call under way asks a cacheable question, and holds a victim only to remove it;
\* what L2 has answered it was found under the digest of that question.
AskOK(c) ==
  /\ c.at = "idle" => c.served = None
  /\ c.at # "idle" => c.input \in Asked /\ Cacheable(c.input.sql)
  /\ c.at = "evict" <=> c.victim \in Executor
  /\ c.served # None => Digest(c.served) = Digest(c.input)
AskInv ==
  /\ \A e \in Executor : AskOK(call[e])
  /\ l2 # None => Cacheable(l2.input.sql)

\* As long as an entry is fresh, its age and the time it has left add up to no more
\* than its lifetimes in the levels it has passed.
Lasts(entry) == entry.left > 0 => entry.age + entry.left < Lifetime(entry.kind) + TTL + Skew
Putting(e) == call[e].at \in {"replace", "room", "oldest", "evict", "insert"}
AgeInv ==
  /\ \A e \in Executor : /\ l1[e] # None => Lasts(l1[e])
                         /\ Putting(e) => Lasts(call[e])
  /\ l2 # None /\ l2.left > 0 => l2.age + l2.left <= Lifetime(l2.kind) + Skew

Inv == TypeInv /\ AskInv /\ AgeInv

-----------------------------------------------------------------------------
(* Types.                                                                  *)

\* The ranges of lifetimes and ages.
LEMMA Ranges ==
  /\ TTL \in Nat /\ TTL > 0 /\ NullTTL \in Nat /\ NullTTL > 0 /\ Skew \in Nat
  /\ MaxShared \in Nat /\ MaxAge \in Nat /\ MaxShared <= MaxAge
  /\ \A kind \in Kind : /\ Lifetime(kind) \in Nat /\ Lifetime(kind) > 0
                        /\ Lifetime(kind) + Skew <= MaxShared
BY L1Assumption, LifetimeAssumption DEF MaxShared, MaxAge, Lifetime

\* A call and an entry grow older within their types.
LEMMA AgedTyped ==
  /\ \A entry \in Entry : Aged(entry) \in Entry
  /\ \A locals \in CallType : Aged(locals) \in CallType
<1>1. \A n \in 0..TTL : Less(n) \in 0..TTL
  BY Ranges DEF Less
<1>2. \A n \in 0..MaxAge : Older(n, MaxAge) \in 0..MaxAge
  BY Ranges DEF Older
<1>3. 0 \in 0..MaxAge
  BY Ranges
<1> QED
  BY <1>1, <1>2, <1>3 DEF Aged, Entry, CallType

\* A value about to be put has the type of a call.
LEMMA PutTyped ==
  ASSUME NEW locals \in CallType, NEW kind \in Kind, NEW age \in 0..MaxAge
  PROVE  PutOf(locals, kind, age) \in CallType
<1>1. "replace" \in Label /\ TTL \in 0..TTL
  BY Ranges DEF Label
<1> QED
  BY <1>1 DEF PutOf, CallType

\* So has a call at rest.
LEMMA IdleTyped == Idle \in CallType
<1>1. "idle" \in Label /\ "rows" \in Kind /\ 0 \in 0..MaxAge /\ 0 \in 0..TTL
  BY Ranges DEF Label, Kind
<1> QED
  BY <1>1 DEF Idle, CallType

\* A call keeps its type when it goes on, with or without a victim.
LEMMA GotoTyped ==
  ASSUME NEW c \in [Executor -> CallType], NEW e \in Executor, NEW label \in Label
  PROVE  /\ [c EXCEPT ![e].at = label] \in [Executor -> CallType]
         /\ \A v \in Executor \cup {None} :
              [c EXCEPT ![e].at = label, ![e].victim = v] \in [Executor -> CallType]
<1>1. [c EXCEPT ![e].at = label] \in [Executor -> CallType]
  BY DEF CallType
<1>2. ASSUME NEW v \in Executor \cup {None}, NEW d \in [Executor -> CallType]
      PROVE  [d EXCEPT ![e].victim = v] \in [Executor -> CallType]
  BY DEF CallType
<1>3. ASSUME NEW v \in Executor \cup {None}
      PROVE  [c EXCEPT ![e].at = label, ![e].victim = v] \in [Executor -> CallType]
  BY <1>1, <1>2, <1>3
<1> QED
  BY <1>1, <1>3

\* The initial state is well typed.
LEMMA TypeInit == Init => TypeInv
BY IdleTyped DEF Init, L1Init, TypeInv

\* Every step preserves the types.
LEMMA TypeStep == TypeInv /\ AskInv /\ [Next]_vars => TypeInv'
<1> SUFFICES ASSUME TypeInv, AskInv, [Next]_vars PROVE TypeInv'
  OBVIOUS
<1> USE DEF TypeInv, At
<1>a. Idle \in CallType
  BY IdleTyped
<1>b. ASSUME NEW e \in Executor, NEW label \in Label, Goto(e, label)
      PROVE  call' \in [Executor -> CallType]
  BY <1>b, GotoTyped DEF Goto
<1>c. ASSUME NEW e \in Executor, Insert(e), UNCHANGED l2 PROVE TypeInv'
  <2>1. NewEntry(e) \in Entry
    BY DEF NewEntry, Entry, CallType
  <2>2. "filled" \in Label
    BY DEF Label
  <2>3. call' \in [Executor -> CallType]
    BY <1>b, <1>c, <2>2 DEF Insert
  <2> QED
    BY <1>c, <2>1, <2>3 DEF Insert
<1>1. ASSUME NEW e \in Executor, NEW input \in Asked, Ask(e, input) PROVE TypeInv'
  <2>1. [call EXCEPT ![e].at = "get"] \in [Executor -> CallType]
    BY GotoTyped DEF Label
  <2>2. ASSUME NEW c \in [Executor -> CallType]
        PROVE  [c EXCEPT ![e].input = input] \in [Executor -> CallType]
    BY DEF CallType
  <2>3. [call EXCEPT ![e].at = "get", ![e].input = input] \in [Executor -> CallType]
    BY <2>1, <2>2
  <2> QED
    BY <1>1, <2>3 DEF Ask
<1>2. ASSUME NEW e \in Executor, NEW input \in Asked, LoadUnasked(e, input) PROVE TypeInv'
  <2>1. PICK kind \in Kind : call' = [call EXCEPT ![e] = PutOf([@ EXCEPT !.input = input], kind, 0)]
    BY <1>2 DEF LoadUnasked
  <2>2. [call[e] EXCEPT !.input = input] \in CallType
    BY DEF CallType
  <2>3. PutOf([call[e] EXCEPT !.input = input], kind, 0) \in CallType
    BY <2>2, PutTyped, Ranges
  <2> QED
    BY <1>2, <2>1, <2>3 DEF LoadUnasked
<1>3. ASSUME NEW e \in Executor, GetShared(e) PROVE TypeInv'
  <2>1. l2 \in Envelope
    BY <1>3 DEF GetShared, Shared
  <2>2. PutOf(call[e], l2.kind, l2.age) \in CallType
    BY <2>1, PutTyped, Ranges DEF Envelope
  <2>3. [PutOf(call[e], l2.kind, l2.age) EXCEPT !.served = l2.input] \in CallType
    BY <2>1, <2>2 DEF CallType, Envelope
  <2> QED
    BY <1>3, <2>3 DEF GetShared, Promote
<1>4. ASSUME NEW e \in Executor, Load(e) PROVE TypeInv'
  <2>1. PICK kind \in Kind : call' = [call EXCEPT ![e] = PutOf(@, kind, 0)]
    BY <1>4 DEF Load
  <2>2. PutOf(call[e], kind, 0) \in CallType
    BY PutTyped, Ranges
  <2> QED
    BY <1>4, <2>1, <2>2 DEF Load
<1>5. ASSUME NEW e \in Executor, Finish(e) PROVE TypeInv'
  <2>1. ASSUME NEW error \in Reading
        PROVE  NewEnvelope(call[e].input, call[e].kind, error) \in Envelope
    <3>1. /\ error \in Nat /\ error <= Skew /\ call[e].kind \in Kind
      BY Ranges DEF Reading, CallType
    <3>2. Lifetime(call[e].kind) + error \in 0..MaxShared /\ 0 \in 0..MaxShared
      BY <3>1, Ranges
    <3>3. call[e].input \in Asked
      BY <1>5 DEF Finish, AskInv, AskOK
    <3> QED
      BY <3>1, <3>2, <3>3 DEF NewEnvelope, Envelope
  <2> QED
    BY <1>5, <1>a, <2>1 DEF Finish
<1>6. ASSUME NEW e \in Executor, L1Step(e), UNCHANGED l2 PROVE TypeInv'
  <2>1. CASE GetHit(e)
    BY <1>6, <1>a, <2>1 DEF GetHit
  <2>2. CASE GetMiss(e)
    BY <1>6, <1>b, <2>2 DEF GetMiss, Label
  <2>3. CASE Clean(e)
    BY <1>6, <1>b, <2>3 DEF Clean, Label
  <2>4. CASE Replace(e) \/ InsertNew(e)
    BY <1>6, <1>c, <2>4 DEF Replace, InsertNew
  <2>5. CASE Absent(e)
    BY <1>6, <1>b, <2>5 DEF Absent, Label
  <2>6. CASE Room(e)
    BY <1>6, <1>b, <2>6 DEF Room, Label
  <2>7. CASE Oldest(e)
    <3>1. CASE Goto(e, "insert")
      BY <1>6, <1>b, <2>7, <3>1 DEF Oldest, Label
    <3>2. ASSUME NEW v \in Present, call' = [call EXCEPT ![e].at = "evict", ![e].victim = v]
          PROVE  call' \in [Executor -> CallType]
      BY <3>2, GotoTyped DEF Label, Present
    <3> QED
      BY <1>6, <2>7, <3>1, <3>2 DEF Oldest
  <2>8. CASE Evict(e)
    <3>1. [call EXCEPT ![e].at = "insert", ![e].victim = None] \in [Executor -> CallType]
      BY GotoTyped DEF Label
    <3>2. [l1 EXCEPT ![call[e].victim] = None] \in [Executor -> Entry \cup {None}]
      OBVIOUS
    <3> QED
      BY <1>6, <2>8, <3>1, <3>2 DEF Evict
  <2> QED
    BY <1>6, <2>1, <2>2, <2>3, <2>4, <2>5, <2>6, <2>7, <2>8 DEF L1Step
<1>7. ASSUME NEW e \in Executor, Clear(e), UNCHANGED l2 PROVE TypeInv'
  BY <1>7 DEF Clear
<1>8. CASE LoseShared
  BY <1>8 DEF LoseShared
<1>9. CASE Tick
  <2>1. call' \in [Executor -> CallType] /\ l1' \in [Executor -> Entry \cup {None}]
    BY <1>9, AgedTyped DEF Tick
  <2>2. \A n \in 0..MaxShared : Less(n) \in 0..MaxShared /\ Older(n, MaxShared) \in 0..MaxShared
    BY Ranges DEF Less, Older
  <2>3. l2' \in Envelope \cup {None}
    BY <1>9, <2>2 DEF Tick, Envelope
  <2> QED
    BY <1>9, <2>1, <2>3 DEF Tick
<1>10. CASE UNCHANGED vars
  BY <1>10 DEF vars
<1> QED
  BY <1>1, <1>2, <1>3, <1>4, <1>5, <1>6, <1>7, <1>8, <1>9, <1>10 DEF Next

-----------------------------------------------------------------------------
(* What is asked, and what L2 answers.                                     *)

\* Nothing is asked in the initial state.
LEMMA AskInit == Init => AskInv
BY L1Assumption DEF Init, Idle, AskInv, AskOK

\* A step of one call disturbs no other.
LEMMA AskOthers ==
  ASSUME TypeInv, AskInv, NEW e \in Executor, NEW c, call' = [call EXCEPT ![e] = c],
         AskOK(c), l2' # None => Cacheable(l2'.input.sql)
  PROVE  AskInv'
<1>1. \A f \in Executor : call'[f] = IF f = e THEN c ELSE call[f]
  BY DEF TypeInv
<1> QED
  BY <1>1 DEF AskInv

\* A call that goes on, not to a removal, asks the same.
LEMMA AskGoesOn ==
  ASSUME NEW c \in CallType, AskOK(c), c.at \notin {"idle", "evict"},
         NEW label, label \notin {"idle", "evict"}
  PROVE  AskOK([c EXCEPT !.at = label])
BY DEF AskOK, CallType

\* A call at rest is in order.
LEMMA AskIdle == AskOK(Idle)
BY L1Assumption DEF AskOK, Idle

\* Every step preserves it.
LEMMA AskStep == TypeInv /\ AskInv /\ [Next]_vars => AskInv'
<1> SUFFICES ASSUME TypeInv, AskInv, [Next]_vars PROVE AskInv'
  OBVIOUS
<1> USE DEF At
<1>a. /\ \A e \in Executor : call[e] \in CallType /\ AskOK(call[e])
      /\ call \in [Executor -> CallType]
  BY DEF TypeInv, AskInv
<1>b. ASSUME NEW e \in Executor, NEW label, Goto(e, label), UNCHANGED l2,
             call[e].at \notin {"idle", "evict"}, label \notin {"idle", "evict"}
      PROVE  AskInv'
  <2>1. call' = [call EXCEPT ![e] = [call[e] EXCEPT !.at = label]]
    BY <1>a, <1>b DEF Goto
  <2>2. l2' # None => Cacheable(l2'.input.sql)
    BY <1>b DEF AskInv
  <2> QED
    BY <1>a, <1>b, <2>1, <2>2, AskGoesOn, AskOthers
<1>c. ASSUME NEW e \in Executor, call' = [call EXCEPT ![e] = Idle],
             l2' # None => Cacheable(l2'.input.sql)
      PROVE  AskInv'
  BY <1>c, AskIdle, AskOthers
<1>1. ASSUME NEW e \in Executor, NEW input \in Asked, Ask(e, input) PROVE AskInv'
  <2> DEFINE c == [call[e] EXCEPT !.at = "get", !.input = input]
  <2>1. call' = [call EXCEPT ![e] = c]
    BY <1>1, <1>a DEF Ask
  <2>2. AskOK(c)
    BY <1>1, <1>a DEF Ask, AskOK, CallType
  <2> QED
    BY <1>1, <2>1, <2>2, AskOthers DEF Ask, AskInv
<1>2. ASSUME NEW e \in Executor, NEW input \in Asked, LoadUnasked(e, input) PROVE AskInv'
  <2>1. PICK kind \in Kind : call' = [call EXCEPT ![e] = PutOf([@ EXCEPT !.input = input], kind, 0)]
    BY <1>2 DEF LoadUnasked
  <2>2. AskOK(PutOf([call[e] EXCEPT !.input = input], kind, 0))
    BY <1>2, <1>a DEF LoadUnasked, PutOf, AskOK, CallType
  <2> QED
    BY <1>2, <2>1, <2>2, AskOthers DEF LoadUnasked, AskInv
<1>3. ASSUME NEW e \in Executor, GetShared(e) PROVE AskInv'
  <2> DEFINE c == [PutOf(call[e], l2.kind, l2.age) EXCEPT !.served = l2.input]
  <2>1. call' = [call EXCEPT ![e] = c]
    BY <1>3 DEF GetShared, Promote
  <2>2. AskOK(c)
    BY <1>3, <1>a DEF GetShared, Shared, PutOf, AskOK, CallType
  <2> QED
    BY <1>3, <2>1, <2>2, AskOthers DEF GetShared, Promote, AskInv
<1>4. ASSUME NEW e \in Executor, Load(e) PROVE AskInv'
  <2>1. PICK kind \in Kind : call' = [call EXCEPT ![e] = PutOf(@, kind, 0)]
    BY <1>4 DEF Load
  <2>2. AskOK(PutOf(call[e], kind, 0))
    BY <1>4, <1>a DEF Load, PutOf, AskOK, CallType
  <2> QED
    BY <1>4, <2>1, <2>2, AskOthers DEF Load, AskInv
<1>5. ASSUME NEW e \in Executor, Finish(e) PROVE AskInv'
  <2>1. Cacheable(call[e].input.sql)
    BY <1>5, <1>a DEF Finish, AskOK
  <2>2. ASSUME NEW error, l2' = NewEnvelope(call[e].input, call[e].kind, error)
        PROVE  Cacheable(l2'.input.sql)
    BY <2>1, <2>2 DEF NewEnvelope
  <2>3. l2' # None => Cacheable(l2'.input.sql)
    BY <1>5, <2>2 DEF Finish, AskInv
  <2> QED
    BY <1>5, <1>c, <2>3 DEF Finish
<1>6. ASSUME NEW e \in Executor, L1Step(e), UNCHANGED l2 PROVE AskInv'
  <2>a. l2' # None => Cacheable(l2'.input.sql)
    BY <1>6 DEF AskInv
  <2>1. CASE GetHit(e)
    BY <1>c, <2>1, <2>a DEF GetHit
  <2>2. CASE GetMiss(e)
    BY <1>6, <1>b, <2>2 DEF GetMiss
  <2>3. CASE Clean(e)
    BY <1>6, <1>b, <2>3 DEF Clean
  <2>4. CASE Replace(e) \/ InsertNew(e)
    BY <1>6, <1>b, <2>4 DEF Replace, InsertNew, Insert
  <2>5. CASE Absent(e)
    BY <1>6, <1>b, <2>5 DEF Absent
  <2>6. CASE Room(e)
    BY <1>6, <1>b, <2>6 DEF Room
  <2>7. CASE Oldest(e)
    <3>1. CASE Goto(e, "insert")
      BY <1>6, <1>b, <2>7, <3>1 DEF Oldest
    <3>2. ASSUME NEW v \in Present, call' = [call EXCEPT ![e].at = "evict", ![e].victim = v]
          PROVE  AskInv'
      <4> DEFINE c == [call[e] EXCEPT !.at = "evict", !.victim = v]
      <4>1. call' = [call EXCEPT ![e] = c]
        BY <1>a, <3>2
      <4>2. AskOK(c)
        BY <1>a, <2>7 DEF Oldest, AskOK, CallType, Present
      <4> QED
        BY <2>a, <4>1, <4>2, AskOthers
    <3> QED
      BY <2>7, <3>1, <3>2 DEF Oldest
  <2>8. CASE Evict(e)
    <3> DEFINE c == [call[e] EXCEPT !.at = "insert", !.victim = None]
    <3>1. call' = [call EXCEPT ![e] = c]
      BY <1>a, <2>8 DEF Evict
    <3>2. AskOK(c)
      BY <1>a, <2>8, L1Assumption DEF Evict, AskOK, CallType
    <3> QED
      BY <2>a, <3>1, <3>2, AskOthers
  <2> QED
    BY <1>6, <2>1, <2>2, <2>3, <2>4, <2>5, <2>6, <2>7, <2>8 DEF L1Step
<1>7. ASSUME NEW e \in Executor, Clear(e), UNCHANGED l2 PROVE AskInv'
  BY <1>7 DEF Clear, AskInv
<1>8. CASE LoseShared
  BY <1>8 DEF LoseShared, AskInv
<1>9. CASE Tick
  <2>1. ASSUME NEW e \in Executor PROVE AskOK(call'[e])
    <3>1. call'[e] = call[e] \/ call'[e] = Aged(call[e])
      BY <1>9 DEF Tick
    <3>2. AskOK(Aged(call[e]))
      BY <1>a DEF Aged, AskOK, CallType
    <3> QED
      BY <1>a, <3>1, <3>2
  <2>2. l2' # None => Cacheable(l2'.input.sql)
    BY <1>9 DEF Tick, AskInv, TypeInv, Envelope
  <2> QED
    BY <2>1, <2>2 DEF AskInv
<1>10. CASE UNCHANGED vars
  BY <1>10 DEF vars, AskInv
<1> QED
  BY <1>1, <1>2, <1>3, <1>4, <1>5, <1>6, <1>7, <1>8, <1>9, <1>10 DEF Next

-----------------------------------------------------------------------------
(* How long a value lives.                                                 *)

\* Nothing is cached in the initial state.
LEMMA AgeInit == Init => AgeInv
BY DEF Init, L1Init, Idle, AgeInv, Putting, At

\* A step that stores or ages nothing, and puts nothing new.
LEMMA AgeKept ==
  ASSUME TypeInv, AgeInv, UNCHANGED l2,
         \A e \in Executor : l1'[e] = l1[e] \/ l1'[e] = None,
         \A e \in Executor :
           Putting(e)' => Putting(e) /\ /\ call'[e].kind = call[e].kind
                                       /\ call'[e].age = call[e].age
                                       /\ call'[e].left = call[e].left
  PROVE  AgeInv'
<1>1. \A e \in Executor : l1'[e] # None => Lasts(l1'[e])
  BY DEF AgeInv
<1>2. \A e \in Executor : Putting(e)' => Lasts(call'[e])
  BY DEF AgeInv, Lasts
<1>3. l2' # None /\ l2'.left > 0 => l2'.age + l2'.left <= Lifetime(l2'.kind) + Skew
  BY DEF AgeInv
<1> QED
  BY <1>1, <1>2, <1>3 DEF AgeInv

\* A put of a value that is fresh enough begins.
LEMMA AgePut ==
  ASSUME TypeInv, AgeInv, UNCHANGED <<l1, l2>>, NEW e \in Executor, NEW c,
         call' = [call EXCEPT ![e] = c], Lasts(c)
  PROVE  AgeInv'
<1>1. \A f \in Executor : call'[f] = IF f = e THEN c ELSE call[f]
  BY DEF TypeInv
<1>2. \A f \in Executor : Putting(f)' => Lasts(call'[f])
  BY <1>1 DEF AgeInv, Putting
<1>3. l2' # None /\ l2'.left > 0 => l2'.age + l2'.left <= Lifetime(l2'.kind) + Skew
  BY DEF AgeInv
<1> QED
  BY <1>2, <1>3 DEF AgeInv

\* An entry that grows older lasts no longer, nor does a value about to be put.
LEMMA AgedLasts ==
  /\ \A entry \in Entry : Lasts(entry) => Lasts(Aged(entry))
  /\ \A locals \in CallType : Lasts(locals) => Lasts(Aged(locals))
<1>1. ASSUME NEW entry \in Entry, Lasts(entry) PROVE Lasts(Aged(entry))
  <2>1. /\ Aged(entry).left = Less(entry.left) /\ Aged(entry).kind = entry.kind
        /\ entry.left > 1 => Aged(entry).age = Older(entry.age, MaxAge)
    BY <1>1 DEF Entry, Aged
  <2> QED
    BY <1>1, <2>1, Ranges DEF Entry, Lasts, Less, Older
<1>2. ASSUME NEW locals \in CallType, Lasts(locals) PROVE Lasts(Aged(locals))
  <2>1. /\ Aged(locals).left = Less(locals.left) /\ Aged(locals).kind = locals.kind
        /\ locals.left > 1 => Aged(locals).age = Older(locals.age, MaxAge)
    BY <1>2 DEF CallType, Aged
  <2> QED
    BY <1>2, <2>1, Ranges DEF CallType, Lasts, Less, Older
<1> QED
  BY <1>1, <1>2

\* Every step preserves it.
LEMMA AgeStep == TypeInv /\ AgeInv /\ [Next]_vars => AgeInv'
<1> SUFFICES ASSUME TypeInv, AgeInv, [Next]_vars PROVE AgeInv'
  OBVIOUS
<1> USE DEF At
<1>a. /\ \A e \in Executor : call[e] \in CallType
      /\ call \in [Executor -> CallType]
      /\ l1 \in [Executor -> Entry \cup {None}]
  BY DEF TypeInv
<1>b. ASSUME NEW kind \in Kind PROVE 0 + TTL < Lifetime(kind) + TTL + Skew
  BY Ranges
<1>c. ASSUME NEW e \in Executor, NEW label, Goto(e, label), UNCHANGED l2,
             \A f \in Executor : l1'[f] = l1[f] \/ l1'[f] = None,
             label \in {"replace", "room", "oldest", "evict", "insert"} => Putting(e)
      PROVE  AgeInv'
  <2>1. ASSUME NEW f \in Executor, Putting(f)'
        PROVE  Putting(f) /\ /\ call'[f].kind = call[f].kind
                             /\ call'[f].age = call[f].age
                             /\ call'[f].left = call[f].left
    <3>1. CASE f = e
      BY <1>a, <1>c, <2>1, <3>1 DEF Goto, Putting, CallType
    <3>2. CASE f # e
      BY <1>a, <1>c, <2>1, <3>2 DEF Goto, Putting
    <3> QED
      BY <3>1, <3>2
  <2> QED
    BY <1>c, <2>1, AgeKept
<1>d. ASSUME NEW e \in Executor, NEW c, call' = [call EXCEPT ![e] = c], UNCHANGED l2,
             \A f \in Executor : l1'[f] = l1[f] \/ l1'[f] = None,
             c.at \notin {"replace", "room", "oldest", "evict", "insert"}
      PROVE  AgeInv'
  <2>1. ASSUME NEW f \in Executor, Putting(f)'
        PROVE  Putting(f) /\ call'[f] = call[f]
    BY <1>a, <1>d, <2>1 DEF Putting
  <2> QED
    BY <1>d, <2>1, AgeKept
<1>e. ASSUME NEW e \in Executor, Insert(e), Putting(e), UNCHANGED l2 PROVE AgeInv'
  <2>1. Lasts(NewEntry(e))
    BY <1>e DEF AgeInv, Lasts, NewEntry
  <2>2. \A f \in Executor : l1'[f] = IF f = e THEN NewEntry(e) ELSE l1[f]
    BY <1>a, <1>e DEF Insert
  <2>3. \A f \in Executor : l1'[f] # None => Lasts(l1'[f])
    BY <2>1, <2>2 DEF AgeInv
  <2>4. \A f \in Executor : Putting(f)' => Putting(f) /\ call'[f] = call[f]
    BY <1>a, <1>e DEF Insert, Goto, Putting, CallType
  <2>5. \A f \in Executor : Putting(f)' => Lasts(call'[f])
    BY <2>4 DEF AgeInv
  <2>6. l2' # None /\ l2'.left > 0 => l2'.age + l2'.left <= Lifetime(l2'.kind) + Skew
    BY <1>e DEF AgeInv
  <2> QED
    BY <2>3, <2>5, <2>6 DEF AgeInv
<1>1. ASSUME NEW e \in Executor, NEW input \in Asked, Ask(e, input) PROVE AgeInv'
  <2> DEFINE c == [call[e] EXCEPT !.at = "get", !.input = input]
  <2>1. call' = [call EXCEPT ![e] = c]
    BY <1>1, <1>a DEF Ask
  <2>2. c.at = "get"
    BY <1>a DEF CallType
  <2> QED
    BY <1>1, <1>d, <2>1, <2>2 DEF Ask
<1>2. ASSUME NEW e \in Executor, NEW input \in Asked, LoadUnasked(e, input) PROVE AgeInv'
  <2>1. PICK kind \in Kind : call' = [call EXCEPT ![e] = PutOf([@ EXCEPT !.input = input], kind, 0)]
    BY <1>2 DEF LoadUnasked
  <2>2. Lasts(PutOf([call[e] EXCEPT !.input = input], kind, 0))
    BY <1>a, <1>b DEF PutOf, Lasts, CallType
  <2> QED
    BY <1>2, <2>1, <2>2, AgePut DEF LoadUnasked
<1>3. ASSUME NEW e \in Executor, GetShared(e) PROVE AgeInv'
  <2> DEFINE c == [PutOf(call[e], l2.kind, l2.age) EXCEPT !.served = l2.input]
  <2>1. call' = [call EXCEPT ![e] = c]
    BY <1>3 DEF GetShared, Promote
  <2>2. l2 \in Envelope /\ l2.left > 0
    <3>1. PICK error \in Reading : IsFresh(l2, call[e].input.generation, error)
      BY <1>3 DEF GetShared
    <3> QED
      BY <1>3, <3>1, Ranges DEF GetShared, Shared, TypeInv, Envelope, IsFresh, Reading
  <2>3. l2.age + l2.left <= Lifetime(l2.kind) + Skew
    BY <1>3, <2>2 DEF GetShared, Shared, AgeInv
  <2>4. l2.age + TTL < Lifetime(l2.kind) + TTL + Skew
    BY <2>2, <2>3, Ranges DEF Envelope
  <2>5. c.age = l2.age /\ c.left = TTL /\ c.kind = l2.kind
    BY <1>a DEF PutOf, CallType
  <2>6. Lasts(c)
    BY <2>4, <2>5 DEF Lasts
  <2> QED
    BY <1>3, <2>1, <2>6, AgePut DEF GetShared, Promote
<1>4. ASSUME NEW e \in Executor, Load(e) PROVE AgeInv'
  <2>1. PICK kind \in Kind : call' = [call EXCEPT ![e] = PutOf(@, kind, 0)]
    BY <1>4 DEF Load
  <2>2. Lasts(PutOf(call[e], kind, 0))
    BY <1>a, <1>b DEF PutOf, Lasts, CallType
  <2> QED
    BY <1>4, <2>1, <2>2, AgePut DEF Load
<1>5. ASSUME NEW e \in Executor, Finish(e) PROVE AgeInv'
  <2>1. call' = [call EXCEPT ![e] = Idle] /\ UNCHANGED l1
    BY <1>5 DEF Finish
  <2>2. CASE UNCHANGED l2
    BY <1>d, <2>1, <2>2 DEF Idle
  <2>3. ASSUME NEW error \in Reading, l2' = NewEnvelope(call[e].input, call[e].kind, error)
        PROVE  AgeInv'
    <3>1. l2'.age = 0 /\ l2'.left = Lifetime(call[e].kind) + error /\ l2'.kind = call[e].kind
      BY <2>3 DEF NewEnvelope
    <3>2. call[e].kind \in Kind /\ error \in Nat /\ error <= Skew
      BY <1>a, Ranges DEF CallType, Reading
    <3>3. l2'.age + l2'.left <= Lifetime(l2'.kind) + Skew
      BY <3>1, <3>2, Ranges
    <3>4. \A f \in Executor : Putting(f)' => Putting(f) /\ call'[f] = call[f]
      BY <1>a, <2>1 DEF Putting, Idle
    <3> QED
      BY <2>1, <3>3, <3>4 DEF AgeInv
  <2> QED
    BY <1>5, <2>2, <2>3 DEF Finish
<1>6. ASSUME NEW e \in Executor, L1Step(e), UNCHANGED l2 PROVE AgeInv'
  <2>1. CASE GetHit(e)
    BY <1>6, <1>d, <2>1 DEF GetHit, Idle
  <2>2. CASE GetMiss(e)
    BY <1>6, <1>c, <2>2 DEF GetMiss
  <2>3. CASE Clean(e)
    BY <1>6, <1>a, <1>c, <2>3 DEF Clean
  <2>4. CASE Replace(e) \/ InsertNew(e)
    BY <1>6, <1>e, <2>4 DEF Replace, InsertNew, Putting
  <2>5. CASE Absent(e)
    BY <1>6, <1>c, <2>5 DEF Absent, Putting
  <2>6. CASE Room(e)
    BY <1>6, <1>c, <2>6 DEF Room, Putting
  <2>7. CASE Oldest(e) \/ Evict(e)
    <3>1. Putting(e) /\ \A f \in Executor : l1'[f] = l1[f] \/ l1'[f] = None
      BY <1>a, <2>7 DEF Oldest, Evict, Putting
    <3>2. ASSUME NEW f \in Executor
          PROVE  /\ f # e => call'[f] = call[f]
                 /\ /\ call'[f].kind = call[f].kind
                    /\ call'[f].age = call[f].age
                    /\ call'[f].left = call[f].left
      BY <1>a, <2>7 DEF Oldest, Evict, Goto, CallType
    <3> QED
      BY <1>6, <3>1, <3>2, AgeKept DEF Putting
  <2> QED
    BY <1>6, <2>1, <2>2, <2>3, <2>4, <2>5, <2>6, <2>7 DEF L1Step
<1>7. ASSUME NEW e \in Executor, Clear(e), UNCHANGED l2 PROVE AgeInv'
  <2>1. \A f \in Executor : l1'[f] = l1[f] \/ l1'[f] = None
    BY <1>7, <1>a DEF Clear
  <2>2. \A f \in Executor : Putting(f)' => Putting(f) /\ call'[f] = call[f]
    BY <1>7 DEF Clear, Putting
  <2> QED
    BY <1>7, <2>1, <2>2, AgeKept
<1>8. CASE LoseShared
  BY <1>8 DEF LoseShared, AgeInv, Putting
<1>9. CASE Tick
  <2>1. ASSUME NEW e \in Executor, l1'[e] # None PROVE Lasts(l1'[e])
    <3>1. l1[e] # None /\ l1'[e] = Aged(l1[e])
      BY <1>9, <2>1 DEF Tick
    <3> QED
      BY <1>a, <3>1, AgedLasts DEF AgeInv
  <2>2. ASSUME NEW e \in Executor, Putting(e)' PROVE Lasts(call'[e])
    <3>1. CASE Putting(e)
      <4>1. call'[e] = Aged(call[e])
        BY <1>9, <3>1 DEF Tick, Putting
      <4> QED
        BY <1>a, <3>1, <4>1, AgedLasts DEF AgeInv
    <3>2. CASE ~Putting(e)
      BY <1>9, <2>2, <3>2 DEF Tick, Putting
    <3> QED
      BY <3>1, <3>2
  <2>3. ASSUME l2' # None, l2'.left > 0
        PROVE  l2'.age + l2'.left <= Lifetime(l2'.kind) + Skew
    <3>1. l2 \in Envelope /\ l2' = [l2 EXCEPT !.left = Less(@), !.age = Older(@, MaxShared)]
      BY <1>9, <2>3 DEF Tick, TypeInv
    <3>2. /\ l2'.left = Less(l2.left) /\ l2'.age = Older(l2.age, MaxShared)
          /\ l2'.kind = l2.kind
      BY <3>1 DEF Envelope
    <3>3. l2.left \in Nat /\ l2.age \in Nat /\ l2.kind \in Kind
      BY <3>1, Ranges DEF Envelope
    <3>4. l2.left > 0 /\ l2'.age + l2'.left <= l2.age + l2.left
      BY <2>3, <3>2, <3>3, Ranges DEF Less, Older
    <3>5. l2.age + l2.left <= Lifetime(l2.kind) + Skew
      BY <1>9, <2>3, <3>4 DEF AgeInv, Tick
    <3>6. l2'.age + l2'.left \in Nat
      BY <3>2, <3>3, Ranges DEF Less, Older
    <3> QED
      BY <3>2, <3>3, <3>4, <3>5, <3>6, Ranges
  <2> QED
    BY <2>1, <2>2, <2>3 DEF AgeInv
<1>10. CASE UNCHANGED vars
  BY <1>10 DEF vars, AgeInv, Putting
<1> QED
  BY <1>1, <1>2, <1>3, <1>4, <1>5, <1>6, <1>7, <1>8, <1>9, <1>10 DEF Next

-----------------------------------------------------------------------------
(* Theorems.                                                               *)

\* The invariant: what is asked and answered under which digest, and how long an
\* entry lasts, hold in every reachable state.
THEOREM Invariance == Spec => []Inv
<1>1. Init => Inv
  BY TypeInit, AskInit, AgeInit DEF Inv
<1>2. Inv /\ [Next]_vars => Inv'
  BY TypeStep, AskStep, AgeStep DEF Inv
<1> QED
  BY <1>1, <1>2, PTL DEF Spec

\* Calls and entries keep their shape, a removal has a victim, and only cacheable
\* statements reach L2.
THEOREM TypeCorrect == Spec => []TypeOK
<1>1. Inv => TypeOK
  <2> SUFFICES ASSUME Inv PROVE TypeOK
    OBVIOUS
  <2>1. ASSUME NEW e \in Executor
        PROVE  /\ call[e].kind \in Kind /\ call[e].age \in 0..MaxAge /\ call[e].left \in 0..TTL
               /\ call[e].input \in Asked \cup {None} /\ call[e].served \in Asked \cup {None}
               /\ At(e, "evict") <=> call[e].victim \in Executor
               /\ l1[e] \in Entry \cup {None}
    BY DEF Inv, TypeInv, CallType, AskInv, AskOK, At
  <2>2. l2 # None => /\ l2.input \in Asked /\ Cacheable(l2.input.sql)
                     /\ l2.kind \in Kind /\ l2.age \in 0..MaxShared
    BY DEF Inv, TypeInv, Envelope, AskInv
  <2> QED
    BY <2>1, <2>2 DEF TypeOK, Inv, TypeInv
<1> QED
  BY <1>1, Invariance, PTL

\* However often it is promoted, no value is served longer than its own lifetime,
\* one TTL of L1 and what two clocks differ.
THEOREM NothingOutlives == Spec => []LifetimeBounded
<1>1. Inv => LifetimeBounded
  <2> SUFFICES ASSUME Inv, NEW e \in Executor, Hit(e)
               PROVE  l1[e].age < Lifetime(l1[e].kind) + TTL + Skew
    BY DEF LifetimeBounded
  <2>1. l1[e] \in Entry /\ l1[e].left > 0
    BY DEF Hit, Inv, TypeInv
  <2>2. l1[e].age + l1[e].left < Lifetime(l1[e].kind) + TTL + Skew
    BY <2>1 DEF Hit, Inv, AgeInv, Lasts
  <2> QED
    BY <2>1, <2>2, Ranges DEF Entry
<1> QED
  BY <1>1, Invariance, PTL

\* What L2 answers was stored for the same question.
THEOREM AnswersTheQuestion == Spec => []SharedAnswersTheQuestion
<1>1. Inv => SharedAnswersTheQuestion
  <2> SUFFICES ASSUME Inv, NEW e \in Executor, call[e].served # None
               PROVE  Boundaries(call[e].served) = Boundaries(call[e].input)
    BY DEF SharedAnswersTheQuestion
  <2>1. Digest(call[e].served) = Digest(call[e].input)
    BY DEF Inv, AskInv, AskOK
  <2>2. call[e].served \in Asked /\ call[e].input \in Asked
    BY DEF Inv, TypeInv, CallType, AskInv, AskOK
  <2>3. call[e].served \in Input /\ call[e].input \in Input
    BY <2>2, LifetimeAssumption
  <2> QED
    BY <2>1, <2>3, DigestSeparates
<1> QED
  BY <1>1, Invariance, PTL
=============================================================================
