--------------------------- MODULE BackendsProofs ---------------------------
(***************************************************************************)
(* Proofs about the external backends: types, the circuit breaker of       *)
(* Redis, and that Redis, Memcached and Moka each implement                *)
(* GenerationPromise, for any finite set of callers and any threshold,     *)
(* cooldown and bounds.                                                    *)
(***************************************************************************)
EXTENDS Backends, FiniteSetTheorems, TLAPS

-----------------------------------------------------------------------------
(* The inductive invariant.                                                *)

CallType == [op : Op \cup {"none"}, at : Label, begun : Generation,
             value : 0..Larger(MaxGeneration, Cooldown), vouches : BOOLEAN]

\* Where a call has the value that it will return.
Returning == {"answered", "done", "counted", "read"}
InHand(p) == call[p].at \in Returning

\* What holds of every call of every backend: its value is not behind its beginning.
CallsOK ==
  /\ backend \in Deployments
  /\ call \in [Client -> CallType]
  /\ floor \in Generation /\ best \in Generation /\ taken \subseteq 1..floor
  /\ \A p \in Client :
       /\ call[p].op = "none" <=> call[p].at = "idle"
       /\ call[p].begun <= floor
       /\ call[p].vouches => GenerationOp(p)
       /\ InHand(p) =>
            /\ call[p].value <= MaxGeneration
            /\ Doing(p, "generation") => call[p].begun <= call[p].value
            /\ Doing(p, "bump") => call[p].begun < call[p].value

\* The counter of a backend whose bumps are one command of the server.
Current == IF backend = "redis" THEN counter ELSE Stored

Vouched(p) == InHand(p) /\ call[p].vouches

\* The counter is not behind what was vouched for, nor behind what will be, and a
\* bump will vouch for a value of its own.
Fresh ==
  ~Serial =>
    /\ floor <= Current
    /\ \A p \in Client : Vouched(p) =>
         /\ call[p].value <= Current
         /\ Doing(p, "bump") =>
              /\ call[p].value \notin taken
              /\ \A q \in Client : q # p /\ Vouched(q) /\ Doing(q, "bump") =>
                   call[q].value # call[p].value

\* The bumps that a backend has still to apply.
Unapplied(labels) == {p \in Client : Doing(p, "bump") /\ call[p].at \in labels}

RedisOK ==
  /\ counter \in Generation /\ late \in 0..MaxLate /\ openFor \in 0..Cooldown
  /\ backend = "redis" =>
       /\ \A p \in Client : call[p].at \in {"idle", "begun", "sent", "answered", "failed",
                                            "opening", "storing", "resetting"}
       /\ \A p \in Client : At(p, "storing") => call[p].value <= Cooldown
       /\ counter + late + Cardinality(Unapplied({"begun", "sent"})) <= MaxGeneration

MemcachedOK ==
  /\ stored \in Generation \cup {None}
  /\ orphans \in [{"begun", "added"} -> Nat] /\ Left <= MaxLate
  /\ backend = "memcached" =>
       /\ \A p \in Client : call[p].at \in {"idle", "begun", "added", "done"}
       /\ \A p \in Client : At(p, "added") => Doing(p, "bump")
       /\ Stored + Left + Cardinality(Unapplied({"begun", "added"})) <= MaxGeneration

\* While a bump that has its number goes on, no other bump raises the floor.
MokaOK ==
  /\ issued \in Generation /\ shown \in Generation \cup {None}
  /\ backend = "moka" =>
       /\ \A p \in Client : call[p].at \in {"idle", "begun", "counted", "read"}
       /\ \A p \in Client : At(p, "counted") =>
            Doing(p, "bump") /\ floor < call[p].value /\ call[p].value <= issued
       /\ \A p \in Client : At(p, "read") => ~Doing(p, "bump")
       /\ \A p \in Client : call[p].vouches => Bumping = {p}
       /\ floor <= Shown /\ Shown <= issued
       /\ issued + Cardinality(Unapplied({"begun"})) <= MaxGeneration

\* The breaker counts failures short of the threshold, or a call is opening it.
\* Each call about to reset the count can still wipe out as many.
Resetting == {p \in Client : At(p, "resetting")}
Short == Limit - 1
Smaller(a, b) == IF a < b THEN a ELSE b

BreakerOK ==
  /\ failures \in Nat /\ streak \in Nat /\ unopened \in Nat
  /\ streak <= MostLost + 1 /\ unopened <= MostLost + 1
  /\ failures <= streak \/ streak = MostLost + 1
  /\ backend # "redis" => failures = 0 /\ unopened = 0
  /\ backend = "redis" =>
       /\ failures <= Short + Cardinality(Opening)
       /\ Opening = Resetting =>
            \/ unopened = 0
            \/ unopened + Cardinality(Resetting) * Short + Short
                 <= MostLost + Smaller(failures, Short)

Inv == CallsOK /\ Fresh /\ RedisOK /\ MemcachedOK /\ MokaOK /\ BreakerOK

-----------------------------------------------------------------------------
(* The constants, and what each kind of step does to the calls.            *)

\* The bounds are naturals, and the callers are finitely many.
LEMMA Numbers ==
  /\ IsFiniteSet(Client) /\ Cardinality(Client) \in Nat
  /\ MaxGeneration \in Nat /\ MaxLate \in Nat /\ Cooldown \in Nat
  /\ None \notin Generation /\ 0 \in Generation
  /\ Limit \in Nat /\ Limit >= 1 /\ Short \in Nat /\ Limit = Short + 1
  /\ MostLost = Cardinality(Client) * Short /\ MostLost \in Nat
<1>1. IsFiniteSet(Client) /\ Cardinality(Client) \in Nat
  BY BackendAssumption, FS_CardinalityType
<1>2. /\ MaxGeneration \in Nat /\ MaxLate \in Nat /\ Cooldown \in Nat /\ Threshold \in Nat
      /\ None \notin Generation
  BY BackendAssumption, RedisAssumption
<1>3. 0 \in Generation
  BY <1>2 DEF Generation
<1>4. Limit \in Nat /\ Limit >= 1
  BY <1>2 DEF Limit, Larger
<1>5. Short \in Nat /\ Limit = Short + 1
  BY <1>4 DEF Short
<1>6. MostLost = Cardinality(Client) * Short
  BY DEF MostLost, Short
<1>7. MostLost \in Nat
  BY <1>1, <1>5, <1>6
<1> QED
  BY <1>1, <1>2, <1>3, <1>4, <1>5, <1>6, <1>7

\* The larger of two naturals.
LEMMA LargerFacts ==
  ASSUME NEW a \in Nat, NEW b \in Nat
  PROVE  /\ Larger(a, b) \in Nat /\ a <= Larger(a, b) /\ b <= Larger(a, b)
         /\ Larger(a, b) = a \/ Larger(a, b) = b
BY DEF Larger

\* A part of a finite set is finite and no larger.
LEMMA Part ==
  ASSUME NEW T, IsFiniteSet(T), NEW S, S \subseteq T
  PROVE  /\ IsFiniteSet(S) /\ Cardinality(S) \in Nat /\ Cardinality(T) \in Nat
         /\ Cardinality(S) <= Cardinality(T)
BY FS_Subset, FS_CardinalityType

\* The values that a call can have in hand.
Value == 0..Larger(MaxGeneration, Cooldown)

LEMMA Values ==
  /\ Value \subseteq Nat /\ Generation \subseteq Nat
  /\ \A g \in Generation : g \in Value /\ g <= MaxGeneration
  /\ \A n \in 0..Cooldown : n \in Value
  /\ \A n \in Nat : n <= MaxGeneration => n \in Generation
  /\ \A v \in Value : v <= MaxGeneration => v \in Generation
<1>1. /\ MaxGeneration \in Nat /\ Cooldown \in Nat /\ Larger(MaxGeneration, Cooldown) \in Nat
      /\ MaxGeneration <= Larger(MaxGeneration, Cooldown)
      /\ Cooldown <= Larger(MaxGeneration, Cooldown)
  BY Numbers, LargerFacts
<1> QED
  BY <1>1 DEF Value, Generation

\* p alone goes to a label with a value ...
Moved(p, label, v) ==
  /\ call' \in [Client -> CallType]
  /\ call'[p].at = label /\ call'[p].value = v
  /\ call'[p].op = call[p].op /\ call'[p].begun = call[p].begun
  /\ call'[p].vouches = call[p].vouches
  /\ \A q \in Client : q # p => call'[q] = call[q]
  /\ UNCHANGED <<backend, floor, taken, best>>

\* ... or alone ends.
Ended(p) ==
  /\ call' \in [Client -> CallType]
  /\ call'[p] = Idle
  /\ \A q \in Client : q # p => call'[q] = call[q]

\* A call that is not running.
LEMMA IdleCall ==
  /\ Idle \in CallType /\ Idle.op = "none" /\ Idle.at = "idle" /\ Idle.begun = 0
  /\ Idle.value = 0 /\ Idle.vouches = FALSE
BY Numbers, Values DEF Idle, CallType, Label, Value

\* Goto and Receive.
LEMMA Moves ==
  ASSUME CallsOK, NEW p \in Client, NEW label \in Label, NEW v \in Value,
         \/ Goto(p, label) /\ v = call[p].value
         \/ Receive(p, label, v),
         UNCHANGED <<backend, historyVars>>
  PROVE  Moved(p, label, v)
<1> DEFINE c == [call[p] EXCEPT !.at = label, !.value = v]
<1>1. call \in [Client -> CallType] /\ call[p] \in CallType
  BY DEF CallsOK
<1>2. /\ c \in CallType /\ c.at = label /\ c.value = v
      /\ c.op = call[p].op /\ c.begun = call[p].begun /\ c.vouches = call[p].vouches
  BY <1>1 DEF CallType, Value
<1>3. call' = [call EXCEPT ![p] = c]
  <2>1. CASE Goto(p, label) /\ v = call[p].value
    BY <1>1, <2>1 DEF Goto, CallType
  <2>2. CASE Receive(p, label, v)
    BY <1>1, <2>2 DEF Receive, CallType
  <2> QED
    BY <2>1, <2>2
<1> HIDE DEF c
<1>4. call' \in [Client -> CallType] /\ call'[p] = c /\ \A q \in Client : q # p => call'[q] = call[q]
  BY <1>1, <1>2, <1>3
<1> QED
  BY <1>2, <1>4 DEF Moved, historyVars

\* Fail and Succeed.
LEMMA Ends ==
  ASSUME CallsOK, NEW p \in Client, call' = [call EXCEPT ![p] = Idle]
  PROVE  Ended(p)
BY IdleCall DEF Ended, CallsOK

\* Begin.
LEMMA Begins ==
  ASSUME CallsOK, NEW p \in Client, NEW op \in Op, Begin(p, op)
  PROVE  /\ call' \in [Client -> CallType] /\ At(p, "idle")
         /\ call'[p].op = op /\ call'[p].at = "begun" /\ call'[p].value = 0
         /\ call'[p].begun = floor
         /\ call'[p].vouches <=> (\/ op = "bump" /\ (Serial => Bumping = {})
                                  \/ op = "generation" /\ ~Serial)
         /\ \A q \in Client : q # p =>
              /\ call'[q].op = call[q].op /\ call'[q].at = call[q].at
              /\ call'[q].value = call[q].value /\ call'[q].begun = call[q].begun
              /\ call'[q].vouches <=>
                   (call[q].vouches /\ ~(Serial /\ op = "bump" /\ Doing(q, "bump")))
         /\ UNCHANGED <<backend, floor, taken, best>>
<1> DEFINE b == \/ op = "bump" /\ (Serial => Bumping = {})
                \/ op = "generation" /\ ~Serial
           c == [op |-> op, at |-> "begun", value |-> 0, begun |-> floor, vouches |-> b]
           w(q) == call[q].vouches /\ ~(Serial /\ op = "bump" /\ Doing(q, "bump"))
<1>1. call \in [Client -> CallType] /\ floor \in Generation
  BY DEF CallsOK
<1>2. b \in BOOLEAN /\ \A q \in Client : w(q) \in BOOLEAN
  BY <1>1 DEF CallType
<1>3. call' = [q \in Client |-> IF q = p THEN c ELSE [call[q] EXCEPT !.vouches = w(q)]]
  BY <1>1 DEF Begin, CallType
<1> HIDE DEF b, w
<1>4. c \in CallType /\ c.op = op /\ c.at = "begun" /\ c.value = 0 /\ c.begun = floor /\ c.vouches = b
  BY <1>1, <1>2, Numbers, Values DEF CallType, Label, Value
<1> HIDE DEF c
<1>5. ASSUME NEW q \in Client
      PROVE  /\ [call[q] EXCEPT !.vouches = w(q)] \in CallType
             /\ [call[q] EXCEPT !.vouches = w(q)].op = call[q].op
             /\ [call[q] EXCEPT !.vouches = w(q)].at = call[q].at
             /\ [call[q] EXCEPT !.vouches = w(q)].value = call[q].value
             /\ [call[q] EXCEPT !.vouches = w(q)].begun = call[q].begun
             /\ [call[q] EXCEPT !.vouches = w(q)].vouches = w(q)
  BY <1>1, <1>2 DEF CallType
<1>6. call' \in [Client -> CallType] /\ call'[p] = c
  BY <1>3, <1>4, <1>5
<1>7. \A q \in Client : q # p =>
              /\ call'[q].op = call[q].op /\ call'[q].at = call[q].at
              /\ call'[q].value = call[q].value /\ call'[q].begun = call[q].begun
              /\ call'[q].vouches = w(q)
  BY <1>3, <1>5
<1> QED
  BY <1>4, <1>6, <1>7 DEF Begin, historyVars, b, w

\* Forget.
LEMMA Forgets ==
  ASSUME CallsOK, Forget
  PROVE  /\ call' \in [Client -> CallType]
         /\ \A q \in Client :
              /\ call'[q].op = call[q].op /\ call'[q].at = call[q].at
              /\ call'[q].value = call[q].value /\ call'[q].begun = 0 /\ call'[q].vouches = FALSE
         /\ floor' = 0 /\ taken' = {} /\ best' = 0 /\ backend' = backend
<1>1. call \in [Client -> CallType]
  BY DEF CallsOK
<1>2. ASSUME NEW q \in Client
      PROVE  /\ [call[q] EXCEPT !.begun = 0, !.vouches = FALSE] \in CallType
             /\ [call[q] EXCEPT !.begun = 0, !.vouches = FALSE].op = call[q].op
             /\ [call[q] EXCEPT !.begun = 0, !.vouches = FALSE].at = call[q].at
             /\ [call[q] EXCEPT !.begun = 0, !.vouches = FALSE].value = call[q].value
             /\ [call[q] EXCEPT !.begun = 0, !.vouches = FALSE].begun = 0
             /\ [call[q] EXCEPT !.begun = 0, !.vouches = FALSE].vouches = FALSE
  BY <1>1, Numbers DEF CallType
<1>3. call' = [q \in Client |-> [call[q] EXCEPT !.begun = 0, !.vouches = FALSE]]
  BY DEF Forget
<1> QED
  BY <1>2, <1>3 DEF Forget

-----------------------------------------------------------------------------
(* The promise, one kind of step at a time.                                *)

\* What the promise sees of the calls.
opBar == [p \in Client |-> IF GenerationOp(p) THEN call[p].op ELSE "none"]
begunBar == [p \in Client |-> IF GenerationOp(p) THEN call[p].begun ELSE 0]
vouchesBar == [p \in Client |-> call[p].vouches]

\* A step that changes neither whom a call is for nor what it vouches for is not seen.
LEMMA PromiseSame ==
  ASSUME UNCHANGED <<backend, floor, taken>>,
         \A q \in Client : /\ call'[q].op = call[q].op /\ call'[q].begun = call[q].begun
                           /\ call'[q].vouches = call[q].vouches
  PROVE  UNCHANGED Promise!vars
<1>1. /\ opBar' = opBar /\ begunBar' = begunBar /\ vouchesBar' = vouchesBar
  BY DEF opBar, begunBar, vouchesBar, GenerationOp
<1>2. Serial' = Serial
  BY DEF Serial
<1> QED
  BY <1>1, <1>2 DEF Promise!vars, opBar, begunBar, vouchesBar

LEMMA PromiseMoved ==
  ASSUME CallsOK, NEW p \in Client, NEW label, NEW v, Moved(p, label, v)
  PROVE  UNCHANGED Promise!vars
BY PromiseSame DEF Moved

\* A generation or a bump that begins, begins for the promise.
LEMMA PromiseBegins ==
  ASSUME CallsOK, NEW p \in Client, NEW op \in Op, Begin(p, op)
  PROVE  [Promise!Next]_(Promise!vars)
<1>1. /\ call[p].op = "none" /\ ~GenerationOp(p) /\ call[p].vouches = FALSE
  <2>1. At(p, "idle")
    BY DEF Begin
  <2>2. call[p].op = "none" /\ ~GenerationOp(p)
    BY <2>1 DEF CallsOK, At, GenerationOp
  <2>3. call[p].vouches \in BOOLEAN /\ (call[p].vouches => GenerationOp(p))
    BY DEF CallsOK, CallType
  <2> QED
    BY <2>2, <2>3
<1>2. /\ call'[p].op = op /\ call'[p].begun = floor
      /\ call'[p].vouches <=> (\/ op = "bump" /\ (Serial => Bumping = {})
                               \/ op = "generation" /\ ~Serial)
      /\ \A q \in Client : q # p =>
           /\ call'[q].op = call[q].op /\ call'[q].begun = call[q].begun
           /\ call'[q].vouches <=> (call[q].vouches /\ ~(Serial /\ op = "bump" /\ Doing(q, "bump")))
      /\ UNCHANGED <<backend, floor, taken>>
  BY Begins
<1>3. Serial' = Serial
  BY <1>2 DEF Serial
<1>4. CASE op = "entry"
  <2>1. \A q \in Client : call[q].vouches \in BOOLEAN /\ call'[q].vouches \in BOOLEAN
    BY Begins DEF CallsOK, CallType
  <2>2. /\ opBar' = opBar /\ begunBar' = begunBar
    BY <1>1, <1>2, <1>4 DEF opBar, begunBar, GenerationOp
  <2>3. \A q \in Client : call'[q].vouches = call[q].vouches
    BY <1>1, <1>2, <1>4, <2>1
  <2>4. vouchesBar' = vouchesBar
    BY <2>3 DEF vouchesBar
  <2> QED
    BY <1>2, <1>3, <2>2, <2>4 DEF Promise!vars, opBar, begunBar, vouchesBar
<1>5. CASE op \in {"generation", "bump"}
  <2>1. opBar[p] = "none" /\ opBar' = [opBar EXCEPT ![p] = op]
    BY <1>1, <1>2, <1>5 DEF opBar, GenerationOp
  <2>2. begunBar' = [begunBar EXCEPT ![p] = floor]
    BY <1>1, <1>2, <1>5 DEF begunBar, GenerationOp
  <2>3. \A q \in Client : /\ opBar[q] = "bump" <=> Doing(q, "bump")
                          /\ vouchesBar[q] = call[q].vouches
    BY DEF opBar, vouchesBar, GenerationOp, Doing
  <2>4. Bumping = {} <=> \A r \in Client : opBar[r] # "bump"
    BY <2>3 DEF Bumping
  <2>5. \A q \in Client : vouchesBar'[q] =
          IF q = p
            THEN Serial => op = "bump" /\ \A r \in Client : opBar[r] # "bump"
            ELSE vouchesBar[q] /\ ~(Serial /\ op = "bump" /\ opBar[q] = "bump")
    <3>1. ASSUME NEW q \in Client
          PROVE  vouchesBar'[q] = call'[q].vouches
      BY DEF vouchesBar
    <3>2. Serial \in BOOLEAN
      BY DEF Serial
    <3>4. \A q \in Client : call[q].vouches \in BOOLEAN /\ call'[q].vouches \in BOOLEAN
      BY Begins DEF CallsOK, CallType
    <3>3. call'[p].vouches <=> (Serial => op = "bump" /\ \A r \in Client : opBar[r] # "bump")
      BY <1>2, <1>5, <2>4, <3>2
    <3> QED
      BY <1>2, <2>3, <3>1, <3>3, <3>4
  <2>6. vouchesBar' = [q \in Client |->
          IF q = p
            THEN Serial => op = "bump" /\ \A r \in Client : opBar[r] # "bump"
            ELSE vouchesBar[q] /\ ~(Serial /\ op = "bump" /\ opBar[q] = "bump")]
    <3>1. vouchesBar' = [q \in Client |-> vouchesBar'[q]]
      BY DEF vouchesBar
    <3> QED
      BY <2>5, <3>1
  <2>7. Promise!Begin(p, op)
    BY <1>2, <1>3, <2>1, <2>2, <2>6 DEF Promise!Begin, opBar, begunBar, vouchesBar
  <2> QED
    BY <1>5, <2>7 DEF Promise!Next
<1> QED
  BY <1>4, <1>5 DEF Op

\* What the end of a call does to what the promise sees.
LEMMA PromiseEnds ==
  ASSUME CallsOK, NEW p \in Client, Ended(p), backend' = backend
  PROVE  /\ opBar' = [opBar EXCEPT ![p] = "none"]
         /\ begunBar' = [begunBar EXCEPT ![p] = 0]
         /\ vouchesBar' = [vouchesBar EXCEPT ![p] = FALSE]
         /\ Serial' = Serial
         /\ ~GenerationOp(p) =>
              opBar' = opBar /\ begunBar' = begunBar /\ vouchesBar' = vouchesBar
<1>1. /\ call'[p].op = "none" /\ call'[p].vouches = FALSE
      /\ \A q \in Client : q # p => call'[q] = call[q]
  BY IdleCall DEF Ended
<1>2. opBar' = [opBar EXCEPT ![p] = "none"] /\ (~GenerationOp(p) => opBar' = opBar)
  BY <1>1 DEF opBar, GenerationOp
<1>3. begunBar' = [begunBar EXCEPT ![p] = 0] /\ (~GenerationOp(p) => begunBar' = begunBar)
  BY <1>1 DEF begunBar, GenerationOp
<1>4. ~GenerationOp(p) => call[p].vouches = FALSE
  BY DEF CallsOK, CallType
<1>5. vouchesBar' = [vouchesBar EXCEPT ![p] = FALSE] /\ (~GenerationOp(p) => vouchesBar' = vouchesBar)
  BY <1>1, <1>4 DEF vouchesBar
<1> QED
  BY <1>2, <1>3, <1>5 DEF Serial

\* A failed call tells the promise nothing.
LEMMA PromiseFails ==
  ASSUME CallsOK, NEW p \in Client, Fail(p)
  PROVE  [Promise!Next]_(Promise!vars)
<1>1. Ended(p) /\ UNCHANGED <<backend, floor, taken>>
  BY Ends DEF Fail, historyVars
<1>2. CASE GenerationOp(p)
  <2>1. opBar[p] # "none"
    BY <1>2 DEF opBar, GenerationOp
  <2>2. Promise!Fail(p)
    BY <1>1, <2>1, PromiseEnds DEF Promise!Fail, Promise!Finish, opBar, begunBar, vouchesBar
  <2> QED
    BY <2>2 DEF Promise!Next
<1>3. CASE ~GenerationOp(p)
  BY <1>1, <1>3, PromiseEnds DEF Promise!vars, opBar, begunBar, vouchesBar
<1> QED
  BY <1>2, <1>3

\* A call returns a value that is not behind its beginning; a bump vouches for a new one.
LEMMA PromiseSucceeds ==
  ASSUME CallsOK, NEW p \in Client, Succeed(p), InHand(p),
         call[p].vouches /\ Doing(p, "bump") => call[p].value \notin taken
  PROVE  [Promise!Next]_(Promise!vars)
<1> DEFINE v == call[p].value
<1>1. Ended(p) /\ backend' = backend
  BY Ends DEF Succeed
<1>2. /\ floor' = IF call[p].vouches THEN Larger(floor, v) ELSE floor
      /\ taken' = IF call[p].vouches /\ Doing(p, "bump") THEN taken \cup {v} ELSE taken
  BY DEF Succeed
<1>3. call[p] \in CallType /\ v <= MaxGeneration
  BY DEF CallsOK
<1>4. v \in Generation
  BY <1>3, Values DEF CallType, Value
<1>5. vouchesBar[p] = call[p].vouches
  BY DEF vouchesBar
<1>6. Promise!Larger(floor, v) = Larger(floor, v) /\ Promise!Generation = Generation
  BY DEF Promise!Larger, Larger, Promise!Generation, Generation
<1>7. CASE Doing(p, "generation")
  <2>1. opBar[p] = "generation" /\ begunBar[p] <= v
    BY <1>7 DEF opBar, begunBar, GenerationOp, Doing, CallsOK
  <2>2. taken' = taken
    BY <1>2, <1>7 DEF Doing
  <2>3. Promise!Read(p, v)
    BY <1>1, <1>2, <1>5, <1>6, <2>1, <2>2, PromiseEnds
    DEF Promise!Read, Promise!Finish, opBar, begunBar, vouchesBar
  <2> QED
    BY <1>4, <1>6, <2>3 DEF Promise!Next
<1>8. CASE Doing(p, "bump")
  <2>1. opBar[p] = "bump" /\ begunBar[p] < v
    BY <1>8 DEF opBar, begunBar, GenerationOp, Doing, CallsOK
  <2>2. vouchesBar[p] => v \notin taken
    BY <1>5, <1>8
  <2>3. Promise!Bump(p, v)
    BY <1>1, <1>2, <1>5, <1>6, <1>8, <2>1, <2>2, PromiseEnds
    DEF Promise!Bump, Promise!Finish, opBar, begunBar, vouchesBar
  <2> QED
    BY <1>4, <1>6, <2>3 DEF Promise!Next
<1>9. CASE ~GenerationOp(p)
  <2>1. ~call[p].vouches
    BY <1>9 DEF CallsOK
  <2>2. floor' = floor /\ taken' = taken
    BY <1>2, <2>1
  <2> QED
    BY <1>1, <1>9, <2>2, PromiseEnds DEF Promise!vars, opBar, begunBar, vouchesBar
<1> QED
  BY <1>7, <1>8, <1>9 DEF GenerationOp, Doing

\* The loss of the counter starts the promise again.
LEMMA PromiseForgets ==
  ASSUME CallsOK, Forget
  PROVE  [Promise!Next]_(Promise!vars)
<1>1. /\ \A q \in Client : /\ call'[q].op = call[q].op /\ call'[q].begun = 0
                           /\ call'[q].vouches = FALSE
      /\ floor' = 0 /\ taken' = {} /\ backend' = backend
  BY Forgets
<1>2. opBar' = opBar
  BY <1>1 DEF opBar, GenerationOp
<1>3. begunBar' = [q \in Client |-> 0]
  BY <1>1 DEF begunBar
<1>4. vouchesBar' = [q \in Client |-> FALSE]
  BY <1>1 DEF vouchesBar
<1>5. Promise!Forget
  BY <1>1, <1>2, <1>3, <1>4 DEF Promise!Forget, Serial, opBar, begunBar, vouchesBar
<1> QED
  BY <1>5 DEF Promise!Next

-----------------------------------------------------------------------------
(* What holds of every call, one kind of step at a time.                   *)

\* The invariant of one call.
CallOK(p) ==
  /\ call[p].op = "none" <=> call[p].at = "idle"
  /\ call[p].begun <= floor
  /\ call[p].vouches => GenerationOp(p)
  /\ InHand(p) =>
       /\ call[p].value <= MaxGeneration
       /\ Doing(p, "generation") => call[p].begun <= call[p].value
       /\ Doing(p, "bump") => call[p].begun < call[p].value

LEMMA CallOKFacts ==
  ASSUME CallsOK, NEW p \in Client
  PROVE  /\ CallOK(p) /\ call[p] \in CallType /\ call[p].begun \in Nat /\ call[p].value \in Nat
         /\ call[p].value \in Value /\ floor \in Nat /\ floor \in Generation
<1>1. call[p] \in CallType /\ floor \in Generation
  BY DEF CallsOK
<1>2. CallOK(p)
  BY DEF CallsOK, CallOK
<1>3. call[p].value \in Value /\ call[p].begun \in Generation
  BY <1>1 DEF CallType, Value
<1> QED
  BY <1>1, <1>2, <1>3, Values

\* A call that a step leaves alone stays well formed when the floor does not fall.
LEMMA CallOKKept ==
  ASSUME CallsOK, NEW p \in Client, call'[p] = call[p], floor' \in Nat, floor <= floor'
  PROVE  CallOK(p)'
<1>1. CallOK(p) /\ call[p].begun \in Nat /\ floor \in Nat
  BY CallOKFacts
<1>2. call'[p].begun <= floor'
  BY <1>1 DEF CallOK
<1> QED
  BY <1>1, <1>2 DEF CallOK, InHand, Doing, GenerationOp

LEMMA CallsBegin ==
  ASSUME CallsOK, NEW p \in Client, NEW op \in Op, Begin(p, op)
  PROVE  CallsOK'
<1>1. /\ call' \in [Client -> CallType]
      /\ call'[p].op = op /\ call'[p].at = "begun" /\ call'[p].begun = floor
      /\ call'[p].vouches => op \in {"bump", "generation"}
      /\ UNCHANGED <<backend, floor, taken, best>>
  BY Begins
<1>2. \A q \in Client : q # p =>
        /\ call'[q].op = call[q].op /\ call'[q].at = call[q].at
        /\ call'[q].value = call[q].value /\ call'[q].begun = call[q].begun
        /\ call'[q].vouches => call[q].vouches
  BY Begins
<1>3. CallOK(p)'
  <2>1. op # "none" /\ floor \in Nat
    BY CallOKFacts DEF Op
  <2> QED
    BY <1>1, <2>1 DEF CallOK, InHand, Returning, GenerationOp
<1>4. ASSUME NEW q \in Client, q # p
      PROVE  CallOK(q)'
  <2>1. CallOK(q)
    BY CallOKFacts
  <2> QED
    BY <1>1, <1>2, <1>4, <2>1 DEF CallOK, InHand, Doing, GenerationOp
<1> QED
  BY <1>1, <1>3, <1>4 DEF CallsOK, CallOK

LEMMA CallsMoved ==
  ASSUME CallsOK, NEW p \in Client, NEW label, NEW v, Moved(p, label, v),
         ~At(p, "idle"), label # "idle", best' = best,
         label \in Returning =>
           /\ v <= MaxGeneration
           /\ Doing(p, "generation") => call[p].begun <= v
           /\ Doing(p, "bump") => call[p].begun < v
  PROVE  CallsOK'
<1>1. CallOK(p)'
  <2>1. CallOK(p)
    BY CallOKFacts
  <2> QED
    BY <2>1 DEF Moved, CallOK, InHand, Doing, GenerationOp, At
<1>2. \A q \in Client : q # p => CallOK(q)'
  <2>1. floor \in Nat /\ floor' = floor
    BY CallOKFacts DEF Moved
  <2> QED
    BY <2>1, CallOKKept DEF Moved
<1> QED
  BY <1>1, <1>2 DEF CallsOK, CallOK, Moved

\* A call that is over is well formed.
LEMMA EndedOK ==
  ASSUME NEW p \in Client, Ended(p), floor' \in Nat
  PROVE  CallOK(p)'
BY IdleCall DEF Ended, CallOK, InHand, Returning

LEMMA CallsFail ==
  ASSUME CallsOK, NEW p \in Client, Fail(p)
  PROVE  CallsOK'
<1>1. Ended(p) /\ UNCHANGED <<backend, floor, taken, best>>
  BY Ends DEF Fail, historyVars
<1>2. floor' \in Nat /\ floor <= floor'
  BY <1>1, CallOKFacts
<1>3. \A q \in Client : CallOK(q)'
  BY <1>1, <1>2, EndedOK, CallOKKept DEF Ended
<1> QED
  BY <1>1, <1>3 DEF CallsOK, CallOK, Ended

LEMMA CallsSucceed ==
  ASSUME CallsOK, NEW p \in Client, Succeed(p), InHand(p)
  PROVE  CallsOK' /\ Ended(p) /\ floor <= floor'
<1> DEFINE v == call[p].value
<1>1. Ended(p) /\ backend' = backend
  BY Ends DEF Succeed
<1>2. /\ v \in Nat /\ v \in Generation /\ floor \in Nat /\ floor \in Generation /\ call[p].begun \in Nat
      /\ Doing(p, "bump") => call[p].begun < v
      /\ best \in Generation /\ best \in Nat /\ taken \subseteq 1..floor
  BY CallOKFacts, Values DEF CallOK, CallsOK
<1>3. /\ Larger(floor, v) \in Generation /\ Larger(best, v) \in Generation
      /\ Larger(floor, v) \in Nat /\ floor <= Larger(floor, v) /\ v <= Larger(floor, v)
  BY <1>2, LargerFacts
<1>4. /\ floor' = floor \/ floor' = Larger(floor, v)
      /\ best' = best \/ best' = Larger(best, v)
      /\ taken' = taken \/ (taken' = taken \cup {v} /\ Doing(p, "bump") /\ floor' = Larger(floor, v))
  BY DEF Succeed
<1>5. floor' \in Nat /\ floor' \in Generation /\ floor <= floor' /\ best' \in Generation
  BY <1>2, <1>3, <1>4
<1>6. taken' \subseteq 1..floor'
  <2>1. \A t \in taken : t \in 1..floor'
    BY <1>2, <1>5
  <2>2. Doing(p, "bump") /\ floor' = Larger(floor, v) => v \in 1..floor'
    BY <1>2, <1>3
  <2> QED
    BY <1>4, <2>1, <2>2
<1>7. \A q \in Client : CallOK(q)'
  BY <1>1, <1>5, EndedOK, CallOKKept DEF Ended
<1> QED
  BY <1>1, <1>5, <1>6, <1>7 DEF CallsOK, CallOK, Ended

LEMMA CallsForget ==
  ASSUME CallsOK, Forget
  PROVE  CallsOK'
<1>1. /\ call' \in [Client -> CallType]
      /\ floor' = 0 /\ taken' = {} /\ best' = 0 /\ backend' = backend
  BY Forgets
<1>2. ASSUME NEW q \in Client
      PROVE  CallOK(q)'
  <2>1. /\ call'[q].op = call[q].op /\ call'[q].at = call[q].at
        /\ call'[q].value = call[q].value /\ call'[q].begun = 0 /\ call'[q].vouches = FALSE
    BY Forgets
  <2>2. CallOK(q) /\ call[q].begun \in Nat /\ call[q].value \in Nat
    BY CallOKFacts
  <2>3. Doing(q, "bump") /\ InHand(q) => 0 < call[q].value
    BY <2>2 DEF CallOK
  <2> QED
    BY <1>1, <2>1, <2>2, <2>3 DEF CallOK, InHand, Doing, GenerationOp
<1> QED
  BY <1>1, <1>2, Numbers DEF CallsOK, CallOK

LEMMA CallsSame ==
  ASSUME CallsOK, UNCHANGED callerVars
  PROVE  CallsOK'
<1>1. UNCHANGED <<backend, call, floor, taken, best>>
  BY DEF callerVars
<1> QED
  BY <1>1 DEF CallsOK, InHand, Doing, GenerationOp

-----------------------------------------------------------------------------
(* The values still to be vouched for.                                     *)

\* A step that only moves the counter forward, and hands out no value, keeps them fresh.
LEMMA FreshKept ==
  ASSUME CallsOK, Fresh, backend' = backend, floor' = floor, taken' = taken,
         ~Serial => Current \in Nat /\ Current' \in Nat /\ Current <= Current',
         \A q \in Client : Vouched(q)' =>
           Vouched(q) /\ call'[q].value = call[q].value /\ call'[q].op = call[q].op
  PROVE  Fresh'
<1> SUFFICES ASSUME ~Serial'
             PROVE  Fresh'
  BY DEF Fresh
<1>1. ~Serial /\ Current \in Nat /\ Current' \in Nat /\ Current <= Current'
  BY DEF Serial
<1>2. floor' <= Current'
  <2>1. floor \in Nat
    BY DEF CallsOK, Generation
  <2>2. floor <= Current /\ floor' = floor
    BY <1>1 DEF Fresh
  <2> QED
    BY <1>1, <2>1, <2>2
<1>3. ASSUME NEW q \in Client, Vouched(q)'
      PROVE  /\ call'[q].value <= Current'
             /\ Doing(q, "bump")' =>
                  /\ call'[q].value \notin taken'
                  /\ \A r \in Client : r # q /\ Vouched(r)' /\ Doing(r, "bump")' =>
                       call'[r].value # call'[q].value
  <2>1. Vouched(q) /\ call'[q].value = call[q].value /\ call'[q].op = call[q].op
    BY <1>3
  <2>2. call[q].value <= Current /\ call[q].value \in Nat
    BY <1>1, <2>1, CallOKFacts DEF Fresh
  <2>3. call'[q].value <= Current'
    BY <1>1, <2>1, <2>2
  <2>4. Doing(q, "bump")' => Doing(q, "bump") /\ call[q].value \notin taken
    BY <1>1, <2>1 DEF Fresh, Doing
  <2>5. ASSUME NEW r \in Client, r # q, Vouched(r)', Doing(r, "bump")', Doing(q, "bump")'
        PROVE  call'[r].value # call'[q].value
    <3>1. Vouched(r) /\ call'[r].value = call[r].value /\ call'[r].op = call[r].op
      BY <2>5
    <3> QED
      BY <1>1, <2>1, <2>5, <3>1 DEF Fresh, Doing
  <2> QED
    BY <2>1, <2>3, <2>4, <2>5
<1> QED
  BY <1>2, <1>3 DEF Fresh

LEMMA FreshSucceed ==
  ASSUME CallsOK, Fresh, NEW p \in Client, Succeed(p), InHand(p),
         ~Serial => Current \in Nat /\ Current' = Current
  PROVE  Fresh'
<1> DEFINE v == call[p].value
<1> SUFFICES ASSUME ~Serial'
             PROVE  Fresh'
  BY DEF Fresh
<1>1. Ended(p) /\ backend' = backend
  BY Ends DEF Succeed
<1>2. ~Serial /\ Current \in Nat /\ Current' = Current
  BY <1>1 DEF Serial
<1>3. v \in Nat /\ floor \in Nat
  BY CallOKFacts
<1>4. /\ floor' = IF call[p].vouches THEN Larger(floor, v) ELSE floor
      /\ taken' = IF call[p].vouches /\ Doing(p, "bump") THEN taken \cup {v} ELSE taken
  BY DEF Succeed
<1>5. floor' <= Current'
  <2>1. floor <= Current /\ (call[p].vouches => v <= Current)
    BY <1>2 DEF Fresh, Vouched
  <2> QED
    BY <1>2, <1>3, <1>4, <2>1, LargerFacts
<1>6. ~Vouched(p)'
  BY <1>1, IdleCall DEF Ended, Vouched
<1>7. ASSUME NEW q \in Client, Vouched(q)'
      PROVE  /\ call'[q].value <= Current'
             /\ Doing(q, "bump")' =>
                  /\ call'[q].value \notin taken'
                  /\ \A r \in Client : r # q /\ Vouched(r)' /\ Doing(r, "bump")' =>
                       call'[r].value # call'[q].value
  <2>1. q # p /\ call'[q] = call[q]
    BY <1>1, <1>6, <1>7 DEF Ended
  <2>2. Vouched(q) /\ call[q].value <= Current
    BY <1>2, <1>7, <2>1 DEF Fresh, Vouched, InHand
  <2>3. Doing(q, "bump") => call[q].value \notin taken'
    <3>1. Doing(q, "bump") => call[q].value \notin taken
      BY <1>2, <2>2 DEF Fresh
    <3>2. Doing(q, "bump") /\ call[p].vouches /\ Doing(p, "bump") => call[q].value # v
      BY <1>2, <2>1, <2>2 DEF Fresh, Vouched
    <3> QED
      BY <1>4, <3>1, <3>2
  <2>4. ASSUME NEW r \in Client, r # q, Vouched(r)', Doing(r, "bump")', Doing(q, "bump")'
        PROVE  call'[r].value # call'[q].value
    <3>1. call'[r] = call[r]
      BY <1>1, <1>6, <2>4 DEF Ended
    <3>2. Vouched(r) /\ Doing(r, "bump") /\ Doing(q, "bump")
      BY <2>1, <2>4, <3>1 DEF Vouched, InHand, Doing
    <3> QED
      BY <1>2, <2>1, <2>2, <2>4, <3>1, <3>2 DEF Fresh
  <2> QED
    BY <1>2, <2>1, <2>2, <2>3, <2>4 DEF Doing
<1> QED
  BY <1>5, <1>7 DEF Fresh

\* The command of a call hands it the counter, after it was advanced for a bump.
LEMMA FreshReceived ==
  ASSUME CallsOK, Fresh, NEW p \in Client, NEW label, NEW v, Moved(p, label, v), ~InHand(p),
         ~Serial, Current \in Nat,
         \/ Doing(p, "bump") /\ Current' = Current + 1 /\ v = Current + 1
         \/ Doing(p, "generation") /\ Current' = Current /\ v = Current
         \/ Doing(p, "entry") /\ Current' = Current
  PROVE  Fresh'
<1>1. /\ call'[p].value = v /\ call'[p].op = call[p].op /\ call'[p].vouches = call[p].vouches
      /\ \A q \in Client : q # p => call'[q] = call[q]
      /\ UNCHANGED <<floor, taken, backend>>
  BY DEF Moved
<1>2. Current' \in Nat /\ Current <= Current' /\ floor \in Nat
  BY CallOKFacts
<1>3. /\ floor <= Current /\ taken \subseteq 1..floor
      /\ \A q \in Client : Vouched(q) => call[q].value <= Current /\ call[q].value \in Nat
  BY CallOKFacts DEF Fresh, CallsOK
<1>4. floor' <= Current'
  BY <1>1, <1>2, <1>3
<1>5. Vouched(p)' =>
        \/ Doing(p, "bump") /\ Current' = Current + 1 /\ v = Current + 1
        \/ Doing(p, "generation") /\ Current' = Current /\ v = Current
  <2>1. CallOK(p)
    BY CallOKFacts
  <2>2. Vouched(p)' => GenerationOp(p)
    BY <1>1, <2>1 DEF Vouched, CallOK
  <2>3. GenerationOp(p) => ~Doing(p, "entry")
    BY DEF GenerationOp, Doing
  <2> QED
    BY <2>2, <2>3
<1>6. ASSUME NEW q \in Client, Vouched(q)'
      PROVE  call'[q].value <= Current'
  <2>1. CASE q = p
    BY <1>1, <1>2, <1>5, <1>6, <2>1
  <2>2. CASE q # p
    <3>1. call'[q] = call[q] /\ Vouched(q)
      BY <1>1, <1>6, <2>2 DEF Vouched, InHand
    <3> QED
      BY <1>2, <1>3, <3>1
  <2> QED
    BY <2>1, <2>2
<1>7. ASSUME NEW q \in Client, Vouched(q)', Doing(q, "bump")'
      PROVE  call'[q].value \notin taken'
  <2>1. CASE q = p
    <3>1. v = Current + 1
      BY <1>1, <1>5, <1>7, <2>1 DEF Doing
    <3> QED
      BY <1>1, <1>2, <1>3, <2>1, <3>1
  <2>2. CASE q # p
    <3>1. call'[q] = call[q] /\ Vouched(q) /\ Doing(q, "bump")
      BY <1>1, <1>7, <2>2 DEF Vouched, InHand, Doing
    <3> QED
      BY <1>1, <3>1 DEF Fresh
  <2> QED
    BY <2>1, <2>2
<1>8. ASSUME NEW q \in Client, NEW r \in Client, r # q, q # p, Vouched(q)', Vouched(r)',
             Doing(q, "bump")', Doing(r, "bump")'
      PROVE  call'[r].value # call'[q].value
  <2>1. call'[q] = call[q] /\ Vouched(q) /\ Doing(q, "bump")
    BY <1>1, <1>8 DEF Vouched, InHand, Doing
  <2>2. CASE r = p
    <3>1. v = Current + 1
      BY <1>1, <1>5, <1>8, <2>2 DEF Doing
    <3> QED
      BY <1>1, <1>3, <2>1, <2>2, <3>1
  <2>3. CASE r # p
    <3>1. call'[r] = call[r] /\ Vouched(r) /\ Doing(r, "bump")
      BY <1>1, <1>8, <2>3 DEF Vouched, InHand, Doing
    <3> QED
      BY <1>8, <2>1, <3>1 DEF Fresh
  <2> QED
    BY <2>2, <2>3
<1>9. ASSUME NEW q \in Client, NEW r \in Client, r # q, Vouched(q)', Vouched(r)',
             Doing(q, "bump")', Doing(r, "bump")'
      PROVE  call'[r].value # call'[q].value
  BY <1>8, <1>9
<1> QED
  BY <1>4, <1>6, <1>7, <1>9 DEF Fresh

\* When the counter is lost, nothing is vouched for.
LEMMA FreshForget ==
  ASSUME CallsOK, Forget, ~Serial => Current' \in Nat
  PROVE  Fresh'
<1>1. /\ floor' = 0 /\ backend' = backend
      /\ \A q \in Client : call'[q].vouches = FALSE
  BY Forgets
<1> QED
  BY <1>1 DEF Fresh, Vouched, Serial

\* Another backend's promise is not about this counter.
LEMMA FreshSerial ==
  ASSUME Serial, backend' = backend
  PROVE  Fresh'
BY DEF Fresh, Serial

-----------------------------------------------------------------------------
(* The kinds of step, and all that a kind keeps.                           *)

\* What the calls owe the promise, before and after a step.
Faithful == CallsOK' /\ Fresh' /\ [Promise!Next]_(Promise!vars)

\* The counter does not go back.
Advances == ~Serial => Current \in Nat /\ Current' \in Nat /\ Current <= Current'

LEMMA BeginFaithful ==
  ASSUME CallsOK, Fresh, Advances, NEW p \in Client, NEW op \in Op, Begin(p, op)
  PROVE  Faithful
<1>1. /\ call'[p].at = "begun"
      /\ \A q \in Client : q # p =>
           /\ call'[q].op = call[q].op /\ call'[q].at = call[q].at
           /\ call'[q].value = call[q].value
           /\ call'[q].vouches => call[q].vouches
      /\ UNCHANGED <<backend, floor, taken>>
  BY Begins
<1>2. \A q \in Client : Vouched(q)' =>
        Vouched(q) /\ call'[q].value = call[q].value /\ call'[q].op = call[q].op
  BY <1>1 DEF Vouched, InHand, Returning
<1>3. Fresh'
  BY <1>1, <1>2, FreshKept DEF Advances
<1> QED
  BY <1>3, CallsBegin, PromiseBegins DEF Faithful

\* A call goes on without a value to return.
LEMMA MoveFaithful ==
  ASSUME CallsOK, Fresh, Advances, NEW p \in Client, NEW label, NEW v, Moved(p, label, v),
         ~At(p, "idle"), label # "idle", label \notin Returning
  PROVE  Faithful
<1>1. \A q \in Client : Vouched(q)' =>
        Vouched(q) /\ call'[q].value = call[q].value /\ call'[q].op = call[q].op
  BY DEF Moved, Vouched, InHand
<1>2. UNCHANGED <<backend, floor, taken, best>>
  BY DEF Moved
<1>3. Fresh'
  BY <1>1, <1>2, FreshKept DEF Advances
<1>4. CallsOK'
  BY <1>2, CallsMoved
<1>5. UNCHANGED Promise!vars
  BY PromiseMoved
<1> QED
  BY <1>3, <1>4, <1>5 DEF Faithful

LEMMA FailFaithful ==
  ASSUME CallsOK, Fresh, Advances, NEW p \in Client, Fail(p)
  PROVE  Faithful
<1>1. Ended(p) /\ UNCHANGED <<backend, floor, taken, best>>
  BY Ends DEF Fail, historyVars
<1>2. ~Vouched(p)'
  BY <1>1, IdleCall DEF Ended, Vouched
<1>3. \A q \in Client : Vouched(q)' =>
        Vouched(q) /\ call'[q].value = call[q].value /\ call'[q].op = call[q].op
  BY <1>1, <1>2 DEF Ended, Vouched, InHand
<1>4. Fresh'
  BY <1>1, <1>3, FreshKept DEF Advances
<1> QED
  BY <1>4, CallsFail, PromiseFails DEF Faithful

\* The server hands a call its counter.
LEMMA ReceiveFaithful ==
  ASSUME CallsOK, Fresh, NEW p \in Client, NEW label \in Returning, NEW v, Moved(p, label, v),
         ~InHand(p), ~At(p, "idle"), ~Serial, Current \in Nat, v \in Nat, v <= MaxGeneration,
         \/ Doing(p, "bump") /\ Current' = Current + 1 /\ v = Current + 1
         \/ Doing(p, "generation") /\ Current' = Current /\ v = Current
         \/ Doing(p, "entry") /\ Current' = Current
  PROVE  Faithful
<1>1. call[p].begun <= floor /\ call[p].begun \in Nat /\ floor \in Nat /\ floor <= Current
  BY CallOKFacts DEF CallOK, Fresh
<1>2. Doing(p, "generation") => call[p].begun <= v
  BY <1>1 DEF Doing
<1>3. Doing(p, "bump") => call[p].begun < v
  BY <1>1 DEF Doing
<1>4. label # "idle" /\ best' = best
  BY DEF Moved, Returning
<1>5. CallsOK'
  BY <1>2, <1>3, <1>4, CallsMoved
<1>6. Fresh'
  BY FreshReceived
<1>7. UNCHANGED Promise!vars
  BY PromiseMoved
<1> QED
  BY <1>5, <1>6, <1>7 DEF Faithful

LEMMA SucceedFaithful ==
  ASSUME CallsOK, Fresh, NEW p \in Client, Succeed(p), InHand(p), ~Serial,
         Current \in Nat, Current' = Current
  PROVE  Faithful
<1>1. call[p].vouches /\ Doing(p, "bump") => call[p].value \notin taken
  BY DEF Fresh, Vouched
<1> QED
  BY <1>1, CallsSucceed, FreshSucceed, PromiseSucceeds DEF Faithful

LEMMA ForgetFaithful ==
  ASSUME CallsOK, Forget, ~Serial => Current' \in Nat
  PROVE  Faithful
BY CallsForget, FreshForget, PromiseForgets DEF Faithful

\* The server acts alone.
LEMMA SameFaithful ==
  ASSUME CallsOK, Fresh, Advances, UNCHANGED callerVars
  PROVE  Faithful
<1>1. UNCHANGED <<backend, call, floor, taken>>
  BY DEF callerVars
<1>2. Fresh'
  BY <1>1, FreshKept DEF Advances, Vouched, InHand
<1>3. UNCHANGED Promise!vars
  BY <1>1, PromiseSame
<1> QED
  BY <1>2, <1>3, CallsSame DEF Faithful

-----------------------------------------------------------------------------
(* Redis.                                                                  *)

\* A call holds nothing to apply once its command is applied, and then its value.
LEMMA RedisFacts ==
  ASSUME CallsOK, RedisOK, backend = "redis"
  PROVE  /\ ~Serial /\ Current = counter /\ counter \in Nat /\ late \in Nat
         /\ \A S : IsFiniteSet(Unapplied(S)) /\ Cardinality(Unapplied(S)) \in Nat
<1>1. counter \in Nat /\ late \in Nat
  BY Values, Numbers DEF RedisOK
<1>2. ASSUME NEW S
      PROVE  IsFiniteSet(Unapplied(S)) /\ Cardinality(Unapplied(S)) \in Nat
  BY Numbers, Part DEF Unapplied
<1> QED
  BY <1>1, <1>2 DEF Serial, Current

\* A step that adds no bump leaves no more of them to apply; one that ends or sends
\* such a bump on has one fewer.
LEMMA UnappliedPart ==
  ASSUME NEW S, \A q \in Client : Doing(q, "bump")' /\ call'[q].at \in S =>
                                    Doing(q, "bump") /\ call[q].at \in S
  PROVE  Cardinality(Unapplied(S)') <= Cardinality(Unapplied(S))
<1>1. IsFiniteSet(Unapplied(S)) /\ Unapplied(S)' \subseteq Unapplied(S)
  BY Numbers, Part DEF Unapplied, Doing
<1> QED
  BY <1>1, Part

LEMMA UnappliedLess ==
  ASSUME NEW S, NEW p \in Client, Doing(p, "bump"), call[p].at \in S, call'[p].at \notin S,
         \A q \in Client : Doing(q, "bump")' /\ call'[q].at \in S =>
                             Doing(q, "bump") /\ call[q].at \in S
  PROVE  Cardinality(Unapplied(S)') + 1 <= Cardinality(Unapplied(S))
<1>1. IsFiniteSet(Unapplied(S)) /\ p \in Unapplied(S) /\ Unapplied(S)' \subseteq Unapplied(S) \ {p}
  BY Numbers, Part DEF Unapplied, Doing
<1>2. /\ Cardinality(Unapplied(S) \ {p}) = Cardinality(Unapplied(S)) - 1
      /\ IsFiniteSet(Unapplied(S) \ {p})
  BY <1>1, FS_RemoveElement
<1>3. /\ Cardinality(Unapplied(S)') <= Cardinality(Unapplied(S) \ {p})
      /\ Cardinality(Unapplied(S)') \in Nat /\ Cardinality(Unapplied(S)) \in Nat
  BY <1>1, <1>2, Part
<1> QED
  BY <1>2, <1>3

LEMMA UnappliedBegun ==
  ASSUME CallsOK, NEW S, "begun" \in S, NEW p \in Client, NEW op \in Op, Begin(p, op)
  PROVE  /\ op # "bump" => Cardinality(Unapplied(S)') <= Cardinality(Unapplied(S))
         /\ Cardinality(Unapplied(S)') <= Cardinality(Unapplied(S)) + 1
<1>1. /\ call'[p].op = op /\ call'[p].at = "begun"
      /\ \A q \in Client : q # p => call'[q].op = call[q].op /\ call'[q].at = call[q].at
  BY Begins
<1>2. op # "bump" => Cardinality(Unapplied(S)') <= Cardinality(Unapplied(S))
  BY <1>1, UnappliedPart DEF Doing
<1>3. IsFiniteSet(Unapplied(S)) /\ Unapplied(S)' \subseteq Unapplied(S) \cup {p}
  BY <1>1, Numbers, Part DEF Unapplied, Doing
<1>4. /\ IsFiniteSet(Unapplied(S) \cup {p}) /\ Cardinality(Unapplied(S)) \in Nat
      /\ Cardinality(Unapplied(S) \cup {p}) <= Cardinality(Unapplied(S)) + 1
  <2>1. Cardinality(Unapplied(S)) \in Nat
    BY <1>3, FS_CardinalityType
  <2>2. /\ IsFiniteSet(Unapplied(S) \cup {p})
        /\ \/ Cardinality(Unapplied(S) \cup {p}) = Cardinality(Unapplied(S))
           \/ Cardinality(Unapplied(S) \cup {p}) = Cardinality(Unapplied(S)) + 1
    BY <1>3, FS_AddElement
  <2> QED
    BY <2>1, <2>2
<1>5. Cardinality(Unapplied(S)') <= Cardinality(Unapplied(S) \cup {p}) /\ Cardinality(Unapplied(S)') \in Nat
  BY <1>3, <1>4, Part
<1>6. Cardinality(Unapplied(S) \cup {p}) \in Nat
  BY <1>4, FS_CardinalityType
<1> QED
  BY <1>2, <1>4, <1>5, <1>6

\* The commands that a call of Redis has still to be applied.
Sending == Unapplied({"begun", "sent"})
RedisLabel == {"idle", "begun", "sent", "answered", "failed", "opening", "storing", "resetting"}

\* A step of one call keeps what holds of the server.
LEMMA RedisRest ==
  ASSUME CallsOK, RedisOK, backend = "redis", backend' = backend, NEW p \in Client,
         call'[p].at \in RedisLabel, call'[p].at = "storing" => call'[p].value <= Cooldown,
         \A q \in Client : q # p => call'[q].at = call[q].at /\ call'[q].value = call[q].value,
         openFor' \in 0..Cooldown, late' \in 0..MaxLate, counter' \in Nat,
         counter' + late' + Cardinality(Sending') <= MaxGeneration
  PROVE  RedisOK'
<1>1. \A q \in Client : call'[q].at \in RedisLabel
  BY DEF RedisOK, RedisLabel
<1>2. \A q \in Client : call'[q].at = "storing" => call'[q].value <= Cooldown
  BY DEF RedisOK, At
<1>3. Cardinality(Sending') \in Nat /\ late' \in Nat
  BY Numbers, Part DEF Sending, Unapplied
<1>4. counter' \in Generation
  BY <1>3, Values, Numbers
<1> QED
  BY <1>1, <1>2, <1>4 DEF RedisOK, RedisLabel, Sending, At

\* ... if it neither applies nor adds a bump.
LEMMA RedisQuiet ==
  ASSUME CallsOK, RedisOK, backend = "redis", backend' = backend, NEW p \in Client,
         call'[p].at \in RedisLabel, call'[p].at = "storing" => call'[p].value <= Cooldown,
         \A q \in Client : q # p => call'[q] = call[q],
         call'[p].at \in {"begun", "sent"} /\ Doing(p, "bump")' =>
           call[p].at \in {"begun", "sent"} /\ Doing(p, "bump"),
         openFor' \in 0..Cooldown, UNCHANGED serverVars
  PROVE  RedisOK'
<1>1. counter' = counter /\ late' = late /\ counter \in Nat /\ late \in 0..MaxLate
      /\ late \in Nat /\ Cardinality(Sending) \in Nat
  BY RedisFacts DEF serverVars, RedisOK, Sending
<1>2. Cardinality(Sending') <= Cardinality(Sending)
  BY UnappliedPart DEF Sending, Doing
<1>3. Cardinality(Sending') \in Nat
  BY Numbers, Part DEF Sending, Unapplied
<1>4. counter + late + Cardinality(Sending) <= MaxGeneration
  BY DEF RedisOK, Sending
<1>5. counter' + late' + Cardinality(Sending') <= MaxGeneration
  BY <1>1, <1>2, <1>3, <1>4, Numbers
<1> QED
  BY <1>1, <1>5, RedisRest

LEMMA RedisBegins ==
  ASSUME CallsOK, Fresh, RedisOK, backend = "redis", NEW p \in Client, NEW op \in Op,
         RedisBegin(p, op)
  PROVE  Faithful /\ RedisOK'
<1>1. Begin(p, op) /\ UNCHANGED <<counter, late, openFor>> /\ (op = "bump" => RedisRoom)
  BY DEF RedisBegin, redisVars
<1>2. backend' = backend
  BY <1>1 DEF Begin
<1>3. Advances
  BY <1>1, <1>2, RedisFacts DEF Advances, Current
<1>4. Faithful
  BY <1>1, <1>3, BeginFaithful
<1>5. /\ counter \in Nat /\ late \in Nat /\ late \in 0..MaxLate /\ openFor \in 0..Cooldown
      /\ Cardinality(Sending) \in Nat /\ counter + late + Cardinality(Sending) <= MaxGeneration
  BY RedisFacts DEF RedisOK, Sending
<1>6. Cardinality(Sending') \in Nat
  BY Numbers, Part DEF Sending, Unapplied
<1>7. counter' + late' + Cardinality(Sending') <= MaxGeneration
  <2>1. CASE op = "bump"
    <3>1. Cardinality(Sending') <= Cardinality(Sending) + 1
      BY <1>1, UnappliedBegun DEF Sending
    <3>2. Cardinality(Sending) <= Cardinality(Bumping) /\ Cardinality(Bumping) \in Nat
      BY Numbers, Part DEF Sending, Unapplied, Bumping
    <3>3. counter + late + Cardinality(Bumping) < MaxGeneration
      BY <1>1, <2>1 DEF RedisRoom
    <3> QED
      BY <1>1, <1>5, <1>6, <3>1, <3>2, <3>3, Numbers
  <2>2. CASE op # "bump"
    <3>1. Cardinality(Sending') <= Cardinality(Sending)
      BY <1>1, <2>2, UnappliedBegun DEF Sending
    <3> QED
      BY <1>1, <1>5, <1>6, <3>1, Numbers
  <2> QED
    BY <2>1, <2>2
<1>8. /\ call'[p].at = "begun"
      /\ \A q \in Client : q # p => call'[q].at = call[q].at /\ call'[q].value = call[q].value
  BY <1>1, Begins
<1>9. call'[p].at \in RedisLabel /\ call'[p].at # "storing"
  BY <1>8 DEF RedisLabel
<1>10. openFor' \in 0..Cooldown /\ late' \in 0..MaxLate /\ counter' \in Nat
  BY <1>1, <1>5
<1>11. RedisOK'
  BY <1>2, <1>7, <1>8, <1>9, <1>10, RedisRest
<1> QED
  BY <1>4, <1>11

\* Send, Error, Timeout, ReadClock and the like: a call goes on, or fails, and the
\* server is as it was or is sent a command that nobody waits for.
LEMMA RedisMoves ==
  ASSUME CallsOK, Fresh, RedisOK, backend = "redis", NEW p \in Client, NEW label, NEW v,
         Moved(p, label, v), ~At(p, "idle"), label \in RedisLabel \ {"idle", "begun", "answered"},
         label = "storing" => v <= Cooldown, label = "sent" => At(p, "begun"),
         openFor' \in 0..Cooldown, UNCHANGED serverVars
  PROVE  Faithful /\ RedisOK'
<1>1. backend' = backend /\ counter' = counter
  BY DEF Moved, serverVars
<1>2. Advances
  BY <1>1, RedisFacts DEF Advances, Current
<1>3. label \notin Returning /\ label # "idle"
  BY DEF Returning, RedisLabel
<1>4. Faithful
  BY <1>2, <1>3, MoveFaithful
<1>5. /\ call'[p].at = label /\ call'[p].value = v /\ call'[p].op = call[p].op
      /\ \A q \in Client : q # p => call'[q] = call[q]
  BY DEF Moved
<1>6. RedisOK'
  BY <1>1, <1>5, RedisQuiet DEF Doing, At, RedisLabel
<1> QED
  BY <1>4, <1>6

LEMMA RedisFails ==
  ASSUME CallsOK, Fresh, RedisOK, backend = "redis", NEW p \in Client, Fail(p),
         openFor' \in 0..Cooldown, UNCHANGED serverVars
  PROVE  Faithful /\ RedisOK'
<1>1. backend' = backend /\ counter' = counter
  BY DEF Fail, serverVars
<1>2. Advances
  BY <1>1, RedisFacts DEF Advances, Current
<1>3. Faithful
  BY <1>2, FailFaithful
<1>4. Ended(p)
  BY Ends DEF Fail
<1>5. RedisOK'
  BY <1>1, <1>4, IdleCall, RedisQuiet DEF Ended, RedisLabel
<1> QED
  BY <1>3, <1>5

\* Timeout and Drop of a command in flight: the bump may come late.
LEMMA RedisOrphans ==
  ASSUME CallsOK, Fresh, RedisOK, backend = "redis", NEW p \in Client, Orphan(p),
         call[p].at \in {"sent", "answered"},
         UNCHANGED <<counter, openFor>>,
         \/ Moved(p, "failed", call[p].value)
         \/ Fail(p)
  PROVE  Faithful /\ RedisOK'
<1>1. /\ counter \in Nat /\ late \in Nat /\ late \in 0..MaxLate /\ openFor \in 0..Cooldown
      /\ Cardinality(Sending) \in Nat /\ counter + late + Cardinality(Sending) <= MaxGeneration
  BY RedisFacts DEF RedisOK, Sending
<1>2. backend' = backend
  BY DEF Moved, Fail
<1>3. Advances
  BY <1>1, <1>2, RedisFacts DEF Advances, Current
<1>4. ~At(p, "idle") /\ "failed" # "idle" /\ "failed" \notin Returning
  BY DEF At, Returning
<1>5. Faithful
  <2>1. CASE Moved(p, "failed", call[p].value)
    BY <1>3, <1>4, <2>1, MoveFaithful
  <2>2. CASE Fail(p)
    BY <1>3, <2>2, FailFaithful
  <2> QED
    BY <2>1, <2>2
<1>6. Fail(p) => Ended(p)
  BY Ends DEF Fail
<1>7. call'[p].at \in {"failed", "idle"} /\ \A q \in Client : q # p => call'[q] = call[q]
  BY <1>6, IdleCall DEF Moved, Ended
<1>8. Cardinality(Sending') \in Nat
  BY Numbers, Part DEF Sending, Unapplied
<1>9. call'[p].at \in RedisLabel /\ call'[p].at # "storing" /\ call'[p].at \notin {"begun", "sent"}
  BY <1>7 DEF RedisLabel
<1>10. late' \in 0..MaxLate /\ counter' + late' + Cardinality(Sending') <= MaxGeneration
  <2>1. CASE At(p, "sent") /\ Doing(p, "bump")
    <3>1. late < MaxLate /\ late' = late + 1
      BY <2>1 DEF Orphan
    <3>2. Cardinality(Sending') + 1 <= Cardinality(Sending)
      BY <1>7, <1>9, <2>1, UnappliedLess DEF Sending, Doing, At
    <3>3. late' \in 0..MaxLate
      BY <1>1, <3>1, Numbers
    <3> QED
      BY <1>1, <1>8, <3>1, <3>2, <3>3, Numbers
  <2>2. CASE ~(At(p, "sent") /\ Doing(p, "bump"))
    <3>1. late' = late
      BY <2>2 DEF Orphan
    <3>2. Cardinality(Sending') <= Cardinality(Sending)
      BY <1>7, <1>9, UnappliedPart DEF Sending, Doing
    <3> QED
      BY <1>1, <1>8, <3>1, <3>2, Numbers
  <2> QED
    BY <2>1, <2>2
<1>11. openFor' \in 0..Cooldown /\ counter' \in Nat
  BY <1>1
<1>12. RedisOK'
  BY <1>2, <1>7, <1>9, <1>10, <1>11, RedisRest
<1> QED
  BY <1>5, <1>12

LEMMA RedisApplies ==
  ASSUME CallsOK, Fresh, RedisOK, backend = "redis", NEW p \in Client, Apply(p)
  PROVE  Faithful /\ RedisOK'
<1> DEFINE v == IF Doing(p, "entry") THEN 0 ELSE counter'
<1>1. /\ At(p, "sent") /\ UNCHANGED <<backend, historyVars, late, openFor>>
      /\ counter' = IF Doing(p, "bump") THEN counter + 1 ELSE counter
      /\ Receive(p, "answered", v)
  BY DEF Apply, breakerVars
<1>2. /\ counter \in Nat /\ late \in Nat /\ late \in 0..MaxLate /\ openFor \in 0..Cooldown
      /\ Cardinality(Sending) \in Nat /\ counter + late + Cardinality(Sending) <= MaxGeneration
      /\ ~Serial /\ Current = counter
  BY RedisFacts DEF RedisOK, Sending
<1>3. Doing(p, "bump") => Cardinality(Sending) >= 1
  <2>1. Doing(p, "bump") => p \in Sending
    BY <1>1 DEF Sending, Unapplied, At
  <2>2. IsFiniteSet(Sending) /\ (Sending # {} => Cardinality(Sending) # 0)
    BY RedisFacts, FS_EmptySet DEF Sending
  <2> QED
    BY <1>2, <2>1, <2>2
<1>4. counter' \in Nat /\ counter' <= MaxGeneration
  BY <1>1, <1>2, <1>3, Numbers
<1>5. v \in Nat /\ v <= MaxGeneration /\ v \in Value
  BY <1>4, Numbers, Values
<1> HIDE DEF v
<1>6. Moved(p, "answered", v)
  BY <1>1, <1>5, Moves DEF Label
<1>7. Current' = counter'
  BY <1>1 DEF Current
<1>8. \/ Doing(p, "bump") /\ Current' = Current + 1 /\ v = Current + 1
      \/ Doing(p, "generation") /\ Current' = Current /\ v = Current
      \/ Doing(p, "entry") /\ Current' = Current
  <2>1. call[p].op \in {"entry", "generation", "bump"}
    BY <1>1, CallOKFacts DEF CallOK, At, CallType, Op
  <2> QED
    BY <1>1, <1>2, <1>7, <2>1 DEF Doing, v
<1>9. "answered" \in Returning /\ ~InHand(p) /\ ~At(p, "idle")
  BY <1>1 DEF Returning, InHand, At
<1>10. Faithful
  BY <1>2, <1>5, <1>6, <1>8, <1>9, ReceiveFaithful
<1>11. /\ call'[p].at = "answered"
       /\ \A q \in Client : q # p => call'[q] = call[q]
  BY <1>6 DEF Moved
<1>12. Cardinality(Sending') \in Nat
  BY Numbers, Part DEF Sending, Unapplied
<1>13. counter' + late' + Cardinality(Sending') <= MaxGeneration
  <2>1. CASE Doing(p, "bump")
    <3>1. Cardinality(Sending') + 1 <= Cardinality(Sending)
      BY <1>1, <1>11, <2>1, UnappliedLess DEF Sending, Doing, At
    <3> QED
      BY <1>1, <1>2, <1>12, <2>1, <3>1, Numbers
  <2>2. CASE ~Doing(p, "bump")
    <3>1. Cardinality(Sending') <= Cardinality(Sending)
      BY <1>11, UnappliedPart DEF Sending, Doing
    <3> QED
      BY <1>1, <1>2, <1>12, <2>2, <3>1, Numbers
  <2> QED
    BY <2>1, <2>2
<1>14. "answered" \in RedisLabel /\ openFor' \in 0..Cooldown /\ late' \in 0..MaxLate
  BY <1>1, <1>2 DEF RedisLabel
<1>15. RedisOK'
  BY <1>1, <1>4, <1>11, <1>13, <1>14, RedisRest
<1> QED
  BY <1>10, <1>15

LEMMA RedisSucceeds ==
  ASSUME CallsOK, Fresh, RedisOK, backend = "redis", NEW p \in Client, Ok(p)
  PROVE  Faithful /\ RedisOK'
<1>1. Succeed(p) /\ At(p, "answered") /\ UNCHANGED <<counter, late, openFor>>
  BY DEF Ok, serverVars
<1>2. /\ InHand(p) /\ backend' = backend /\ call' = [call EXCEPT ![p] = Idle]
  BY <1>1 DEF InHand, Returning, At, Succeed
<1>3. ~Serial /\ Current \in Nat /\ Current' = Current /\ openFor \in 0..Cooldown
  BY <1>1, <1>2, RedisFacts DEF Current, RedisOK
<1>4. Faithful
  BY <1>1, <1>2, <1>3, SucceedFaithful
<1>5. Ended(p)
  BY <1>2, Ends
<1>6. UNCHANGED serverVars /\ openFor' \in 0..Cooldown
  BY <1>1, <1>3 DEF serverVars
<1>7. RedisOK'
  BY <1>2, <1>5, <1>6, IdleCall, RedisQuiet DEF Ended, RedisLabel
<1> QED
  BY <1>4, <1>7

\* ApplyLate and Vanish.
LEMMA RedisAlone ==
  ASSUME CallsOK, Fresh, RedisOK, backend = "redis", ApplyLate \/ Vanish
  PROVE  Faithful /\ RedisOK'
<1>1. /\ late > 0 /\ late' = late - 1 /\ counter' \in {counter, counter + 1}
      /\ UNCHANGED <<callerVars, openFor>>
  BY DEF ApplyLate, Vanish, breakerVars
<1>2. /\ counter \in Nat /\ late \in Nat /\ late \in 0..MaxLate /\ openFor \in 0..Cooldown
      /\ Cardinality(Sending) \in Nat /\ counter + late + Cardinality(Sending) <= MaxGeneration
      /\ ~Serial /\ Current = counter
  BY RedisFacts DEF RedisOK, Sending
<1>3. UNCHANGED <<backend, call>>
  BY <1>1 DEF callerVars
<1>4. Current' = counter' /\ counter' \in Nat /\ counter <= counter'
  BY <1>1, <1>2, <1>3 DEF Current
<1>5. Faithful
  BY <1>1, <1>2, <1>4, SameFaithful DEF Advances
<1>6. Sending' = Sending
  BY <1>3 DEF Sending, Unapplied, Doing
<1>7. late' \in 0..MaxLate /\ counter' + late' + Cardinality(Sending) <= MaxGeneration
  BY <1>1, <1>2, Numbers
<1>8. late' \in Nat /\ counter' <= MaxGeneration
  BY <1>2, <1>4, <1>7, Numbers
<1>9. counter' \in Generation
  BY <1>4, <1>8, Values
<1> QED
  BY <1>1, <1>2, <1>3, <1>5, <1>6, <1>7, <1>9 DEF RedisOK, Sending, At

LEMMA RedisLoses ==
  ASSUME CallsOK, Fresh, RedisOK, backend = "redis", RedisLose
  PROVE  Faithful /\ RedisOK'
<1>1. Forget /\ counter' = 0 /\ late' = late /\ openFor' = openFor
  BY DEF RedisLose, breakerVars
<1>2. /\ counter \in Nat /\ late \in Nat /\ late \in 0..MaxLate /\ openFor \in 0..Cooldown
      /\ Cardinality(Sending) \in Nat /\ counter + late + Cardinality(Sending) <= MaxGeneration
  BY RedisFacts DEF RedisOK, Sending
<1>3. /\ backend' = backend
      /\ \A q \in Client : /\ call'[q].op = call[q].op /\ call'[q].at = call[q].at
                           /\ call'[q].value = call[q].value
  BY <1>1, Forgets
<1>4. Current' \in Nat
  BY <1>1, <1>3 DEF Current
<1>5. Faithful
  BY <1>1, <1>4, ForgetFaithful
<1>6. Sending' = Sending
  BY <1>3 DEF Sending, Unapplied, Doing
<1>7. counter' + late' + Cardinality(Sending') <= MaxGeneration /\ counter' \in Generation
  BY <1>1, <1>2, <1>6, Numbers
<1> QED
  BY <1>1, <1>2, <1>3, <1>5, <1>7 DEF RedisOK, Sending, At

\* What a tick leaves of the calls.
LEMMA RedisTicked ==
  ASSUME CallsOK, RedisOK, backend = "redis", RedisTick
  PROVE  /\ call' \in [Client -> CallType]
         /\ \A q \in Client :
              /\ call'[q].op = call[q].op /\ call'[q].at = call[q].at
              /\ call'[q].begun = call[q].begun /\ call'[q].vouches = call[q].vouches
              /\ call[q].at # "storing" => call'[q].value = call[q].value
              /\ call[q].at = "storing" => call'[q].value <= Cooldown
<1>1. call \in [Client -> CallType]
  BY DEF CallsOK
<1>2. call' = [q \in Client |->
        IF call[q].at = "storing" THEN [call[q] EXCEPT !.value = Less(call[q].value)] ELSE call[q]]
  BY <1>1 DEF RedisTick, At, CallType
<1>3. ASSUME NEW q \in Client, call[q].at = "storing"
      PROVE  Less(call[q].value) \in Value /\ Less(call[q].value) <= Cooldown
  <2>1. call[q].value \in Nat /\ call[q].value <= Cooldown /\ Cooldown \in Nat
    BY <1>3, CallOKFacts, Numbers DEF RedisOK, At
  <2>2. Less(call[q].value) \in 0..Cooldown
    BY <2>1 DEF Less
  <2> QED
    BY <2>2, Values
<1>4. ASSUME NEW q \in Client, call[q].at = "storing"
      PROVE  LET c == [call[q] EXCEPT !.value = Less(call[q].value)]
             IN  /\ c \in CallType /\ c.op = call[q].op /\ c.at = call[q].at
                 /\ c.begun = call[q].begun /\ c.vouches = call[q].vouches
                 /\ c.value = Less(call[q].value)
  BY <1>1, <1>3, <1>4 DEF CallType, Value
<1>5. call' \in [Client -> CallType]
  BY <1>1, <1>2, <1>4
<1> QED
  BY <1>2, <1>3, <1>4, <1>5

LEMMA RedisTicks ==
  ASSUME CallsOK, Fresh, RedisOK, backend = "redis", RedisTick
  PROVE  Faithful /\ RedisOK'
<1>1. /\ openFor' = Less(openFor)
      /\ UNCHANGED <<backend, floor, taken, best, counter, late>>
  BY DEF RedisTick, historyVars, serverVars
<1>2. /\ counter \in Nat /\ late \in Nat /\ late \in 0..MaxLate /\ openFor \in 0..Cooldown
      /\ Cardinality(Sending) \in Nat /\ counter + late + Cardinality(Sending) <= MaxGeneration
      /\ ~Serial /\ Current = counter
  BY RedisFacts DEF RedisOK, Sending
<1>3. openFor' \in 0..Cooldown
  BY <1>1, <1>2, Numbers DEF Less
<1>4. ASSUME NEW q \in Client
      PROVE  CallOK(q)'
  <2>1. CallOK(q)
    BY CallOKFacts
  <2>2. InHand(q) => call[q].at # "storing"
    BY DEF InHand, Returning
  <2> QED
    BY <1>1, <2>1, <2>2, RedisTicked DEF CallOK, InHand, Doing, GenerationOp
<1>5. CallsOK'
  BY <1>1, <1>4, RedisTicked DEF CallsOK, CallOK
<1>6. ASSUME NEW q \in Client, Vouched(q)'
      PROVE  Vouched(q) /\ call'[q].value = call[q].value /\ call'[q].op = call[q].op
  <2>1. call[q].at # "storing" /\ Vouched(q)
    BY <1>6, RedisTicked DEF Vouched, InHand, Returning
  <2> QED
    BY <2>1, RedisTicked
<1>7. Current' = counter'
  BY <1>1 DEF Current
<1>8. Fresh'
  BY <1>1, <1>2, <1>6, <1>7, FreshKept
<1>9. UNCHANGED Promise!vars
  BY <1>1, RedisTicked, PromiseSame
<1>10. Sending' = Sending
  BY RedisTicked DEF Sending, Unapplied, Doing
<1>11. counter' + late' + Cardinality(Sending') <= MaxGeneration
  BY <1>1, <1>2, <1>10
<1>12. RedisOK'
  <2>1. \A q \in Client : call'[q].at \in RedisLabel
    BY RedisTicked DEF RedisOK, RedisLabel
  <2>2. \A q \in Client : call'[q].at = "storing" => call'[q].value <= Cooldown
    BY RedisTicked
  <2>3. counter' \in Generation
    BY <1>1 DEF RedisOK
  <2> QED
    BY <1>1, <1>2, <1>3, <1>11, <2>1, <2>2, <2>3 DEF RedisOK, RedisLabel, Sending, At
<1> QED
  BY <1>5, <1>8, <1>9, <1>12 DEF Faithful

\* Every step of Redis.
LEMMA RedisFaithful ==
  ASSUME CallsOK, Fresh, RedisOK, backend = "redis", RedisNext
  PROVE  Faithful /\ RedisOK'
<1>1. openFor \in 0..Cooldown
  BY DEF RedisOK
<1>2. ASSUME NEW p \in Client, RedisStep(p) \/ Drop(p)
      PROVE  Faithful /\ RedisOK'
  <2>1. call[p].value \in Value /\ Cooldown \in Value /\ Cooldown <= Cooldown
    BY CallOKFacts, Values, Numbers
  <2>2. CASE Refuse(p)
    <3>1. Fail(p) /\ openFor' \in 0..Cooldown /\ UNCHANGED serverVars
      BY <1>1, <2>2 DEF Refuse, redisVars, serverVars
    <3> QED
      BY <3>1, RedisFails
  <2>3. CASE Send(p)
    <3>1. /\ At(p, "begun") /\ Goto(p, "sent") /\ UNCHANGED <<backend, historyVars>>
          /\ openFor' \in 0..Cooldown /\ UNCHANGED serverVars
      BY <1>1, <2>3 DEF Send, redisVars, serverVars
    <3>2. Moved(p, "sent", call[p].value)
      BY <2>1, <3>1, Moves DEF Label
    <3> QED
      BY <3>1, <3>2, RedisMoves DEF RedisLabel, At
  <2>4. CASE Apply(p)
    BY <2>4, RedisApplies
  <2>5. CASE Ok(p)
    BY <2>5, RedisSucceeds
  <2>6. CASE Error(p)
    <3>1. /\ call[p].at \in {"sent", "answered"} /\ Goto(p, "failed") /\ UNCHANGED <<backend, historyVars>>
          /\ openFor' \in 0..Cooldown /\ UNCHANGED serverVars
      BY <1>1, <2>6 DEF Error, redisVars, serverVars
    <3>2. Moved(p, "failed", call[p].value)
      BY <2>1, <3>1, Moves DEF Label
    <3> QED
      BY <3>1, <3>2, RedisMoves DEF RedisLabel, At
  <2>7. CASE Timeout(p)
    <3>1. /\ call[p].at \in {"sent", "answered"} /\ Goto(p, "failed") /\ UNCHANGED <<backend, historyVars>>
          /\ Orphan(p) /\ UNCHANGED <<counter, openFor>>
      BY <2>7 DEF Timeout, breakerVars
    <3>2. Moved(p, "failed", call[p].value)
      BY <2>1, <3>1, Moves DEF Label
    <3> QED
      BY <3>1, <3>2, RedisOrphans
  <2>8. CASE Drop(p)
    <3>1. /\ call[p].at \in {"sent", "answered"} /\ Orphan(p) /\ Fail(p) /\ UNCHANGED <<counter, openFor>>
      BY <2>8 DEF Drop, breakerVars
    <3> QED
      BY <3>1, RedisOrphans
  <2>9. CASE RecordFailure(p)
    <3>1. At(p, "failed") /\ UNCHANGED serverVars /\ openFor' \in 0..Cooldown
      BY <1>1, <2>9 DEF RecordFailure
    <3>2. CASE Goto(p, "opening") /\ UNCHANGED <<backend, historyVars>>
      <4>1. Moved(p, "opening", call[p].value)
        BY <2>1, <3>2, Moves DEF Label
      <4> QED
        BY <3>1, <4>1, RedisMoves DEF RedisLabel, At
    <3>3. CASE Fail(p)
      BY <3>1, <3>3, RedisFails
    <3> QED
      BY <2>9, <3>2, <3>3 DEF RecordFailure
  <2>10. CASE ReadClock(p)
    <3>1. /\ At(p, "opening") /\ Receive(p, "storing", Cooldown) /\ UNCHANGED <<backend, historyVars>>
          /\ openFor' \in 0..Cooldown /\ UNCHANGED serverVars
      BY <1>1, <2>10 DEF ReadClock, redisVars, serverVars
    <3>2. Moved(p, "storing", Cooldown)
      BY <2>1, <3>1, Moves DEF Label
    <3> QED
      BY <2>1, <3>1, <3>2, RedisMoves DEF RedisLabel, At
  <2>11. CASE OpenCircuit(p)
    <3>1. /\ At(p, "storing") /\ Goto(p, "resetting") /\ UNCHANGED <<backend, historyVars>>
          /\ openFor' = call[p].value /\ UNCHANGED serverVars
      BY <2>11 DEF OpenCircuit
    <3>2. Moved(p, "resetting", call[p].value)
      BY <2>1, <3>1, Moves DEF Label
    <3>3. openFor' \in 0..Cooldown
      BY <3>1, CallOKFacts, Numbers DEF RedisOK
    <3> QED
      BY <3>1, <3>2, <3>3, RedisMoves DEF RedisLabel, At
  <2>12. CASE ResetFailures(p)
    <3>1. Fail(p) /\ openFor' \in 0..Cooldown /\ UNCHANGED serverVars
      BY <1>1, <2>12 DEF ResetFailures
    <3> QED
      BY <3>1, RedisFails
  <2> QED
    BY <1>2, <2>2, <2>3, <2>4, <2>5, <2>6, <2>7, <2>8, <2>9, <2>10, <2>11, <2>12 DEF RedisStep
<1> QED
  BY <1>2, RedisBegins, RedisAlone, RedisLoses, RedisTicks DEF RedisNext

-----------------------------------------------------------------------------
(* Memcached.                                                              *)

Pending == Unapplied({"begun", "added"})
MemcachedLabel == {"idle", "begun", "added", "done"}

LEMMA StoredFacts ==
  ASSUME NEW s \in Generation \cup {None}
  PROVE  LET n == IF s = None THEN 0 ELSE s
         IN  n \in Nat /\ n \in Generation /\ n # None /\ (s # None => n = s)
BY Numbers, Values

LEMMA MemcachedFacts ==
  ASSUME CallsOK, MemcachedOK, backend = "memcached"
  PROVE  /\ ~Serial /\ Current = Stored /\ Stored \in Nat /\ Stored \in Generation
         /\ stored # None => stored = Stored
         /\ orphans["begun"] \in Nat /\ orphans["added"] \in Nat /\ Left \in Nat /\ Left <= MaxLate
         /\ Cardinality(Pending) \in Nat /\ Stored + Left + Cardinality(Pending) <= MaxGeneration
<1>1. /\ Stored \in Nat /\ Stored \in Generation /\ (stored # None => stored = Stored)
  BY StoredFacts DEF MemcachedOK, Stored
<1>2. orphans["begun"] \in Nat /\ orphans["added"] \in Nat
  BY DEF MemcachedOK
<1>3. Left \in Nat /\ Left <= MaxLate
  BY <1>2 DEF Left, MemcachedOK
<1>4. Cardinality(Pending) \in Nat
  BY Numbers, Part DEF Pending, Unapplied
<1> QED
  BY <1>1, <1>2, <1>3, <1>4 DEF Serial, Current, MemcachedOK, Pending

\* A step of one call keeps what holds of the server.
LEMMA MemcachedRest ==
  ASSUME CallsOK, MemcachedOK, backend = "memcached", backend' = backend, NEW p \in Client,
         call'[p].at \in MemcachedLabel, call'[p].at = "added" => Doing(p, "bump")',
         \A q \in Client : q # p => call'[q].at = call[q].at /\ call'[q].op = call[q].op,
         orphans' \in [{"begun", "added"} -> Nat], Left' <= MaxLate,
         stored' \in Generation \cup {None},
         Stored' + Left' + Cardinality(Pending') <= MaxGeneration
  PROVE  MemcachedOK'
<1>1. \A q \in Client : call'[q].at \in MemcachedLabel
  BY DEF MemcachedOK, MemcachedLabel
<1>2. \A q \in Client : call'[q].at = "added" => Doing(q, "bump")'
  BY DEF MemcachedOK, At, Doing
<1> QED
  BY <1>1, <1>2 DEF MemcachedOK, MemcachedLabel, Pending, At

\* ... if it neither applies nor adds a bump.
LEMMA MemcachedQuiet ==
  ASSUME CallsOK, MemcachedOK, backend = "memcached", backend' = backend, NEW p \in Client,
         call'[p].at \in MemcachedLabel, call'[p].at = "added" => Doing(p, "bump")',
         \A q \in Client : q # p => call'[q] = call[q],
         call'[p].at \in {"begun", "added"} /\ Doing(p, "bump")' =>
           call[p].at \in {"begun", "added"} /\ Doing(p, "bump"),
         orphans' = orphans, stored' \in Generation \cup {None}, Stored' = Stored
  PROVE  MemcachedOK'
<1>1. /\ Stored \in Nat /\ Left \in Nat /\ Left <= MaxLate /\ Cardinality(Pending) \in Nat
      /\ Stored + Left + Cardinality(Pending) <= MaxGeneration
  BY MemcachedFacts
<1>2. Cardinality(Pending') <= Cardinality(Pending)
  BY UnappliedPart DEF Pending, Doing
<1>3. Cardinality(Pending') \in Nat
  BY Numbers, Part DEF Pending, Unapplied
<1>4. Left' = Left /\ orphans' \in [{"begun", "added"} -> Nat]
  BY DEF Left, MemcachedOK
<1>5. Stored' + Left' + Cardinality(Pending') <= MaxGeneration
  BY <1>1, <1>2, <1>3, <1>4, Numbers
<1> QED
  BY <1>1, <1>4, <1>5, MemcachedRest

LEMMA MemcachedBegins ==
  ASSUME CallsOK, Fresh, MemcachedOK, backend = "memcached", NEW p \in Client, NEW op \in Op,
         MemcachedBegin(p, op)
  PROVE  Faithful /\ MemcachedOK'
<1>1. Begin(p, op) /\ UNCHANGED <<stored, orphans>> /\ (op = "bump" => MemcachedRoom)
  BY DEF MemcachedBegin, memcachedVars
<1>2. backend' = backend
  BY <1>1 DEF Begin
<1>3. Stored' = Stored /\ Left' = Left
  BY <1>1 DEF Stored, Left
<1>4. /\ ~Serial /\ Current = Stored /\ Stored \in Nat
      /\ Left \in Nat /\ Left <= MaxLate /\ Cardinality(Pending) \in Nat
      /\ Stored + Left + Cardinality(Pending) <= MaxGeneration
  BY MemcachedFacts
<1>5. Advances
  BY <1>2, <1>3, <1>4 DEF Advances, Current
<1>6. Faithful
  BY <1>1, <1>5, BeginFaithful
<1>7. Cardinality(Pending') \in Nat
  BY Numbers, Part DEF Pending, Unapplied
<1>8. Stored' + Left' + Cardinality(Pending') <= MaxGeneration
  <2>1. CASE op = "bump"
    <3>1. Cardinality(Pending') <= Cardinality(Pending) + 1
      BY <1>1, UnappliedBegun DEF Pending
    <3>2. Cardinality(Pending) <= Cardinality(Bumping) /\ Cardinality(Bumping) \in Nat
      BY Numbers, Part DEF Pending, Unapplied, Bumping
    <3>3. Stored + Left + Cardinality(Bumping) < MaxGeneration
      BY <1>1, <2>1 DEF MemcachedRoom
    <3> QED
      BY <1>3, <1>4, <1>7, <3>1, <3>2, <3>3, Numbers
  <2>2. CASE op # "bump"
    <3>1. Cardinality(Pending') <= Cardinality(Pending)
      BY <1>1, <2>2, UnappliedBegun DEF Pending
    <3> QED
      BY <1>3, <1>4, <1>7, <3>1, Numbers
  <2> QED
    BY <2>1, <2>2
<1>9. /\ call'[p].at = "begun"
      /\ \A q \in Client : q # p => call'[q].at = call[q].at /\ call'[q].op = call[q].op
  BY <1>1, Begins
<1>10. call'[p].at \in MemcachedLabel /\ call'[p].at # "added"
  BY <1>9 DEF MemcachedLabel
<1>11. orphans' \in [{"begun", "added"} -> Nat] /\ stored' \in Generation \cup {None} /\ Left' <= MaxLate
  BY <1>1, <1>3, <1>4 DEF MemcachedOK
<1>12. MemcachedOK'
  BY <1>2, <1>8, <1>9, <1>10, <1>11, MemcachedRest
<1> QED
  BY <1>6, <1>12

LEMMA MemcachedReads ==
  ASSUME CallsOK, Fresh, MemcachedOK, backend = "memcached", NEW p \in Client, Command(p)
  PROVE  Faithful /\ MemcachedOK'
<1> DEFINE v == IF Doing(p, "generation") THEN Stored ELSE 0
<1>1. /\ At(p, "begun") /\ ~Doing(p, "bump") /\ Receive(p, "done", v)
      /\ UNCHANGED <<backend, historyVars, stored, orphans>>
  BY DEF Command, memcachedVars
<1>2. ~Serial /\ Current = Stored /\ Stored \in Nat /\ Stored \in Generation
  BY MemcachedFacts
<1>3. v \in Nat /\ v <= MaxGeneration /\ v \in Value
  BY <1>2, Numbers, Values
<1> HIDE DEF v
<1>4. Moved(p, "done", v)
  BY <1>1, <1>3, Moves DEF Label
<1>5. Stored' = Stored /\ Current' = Current
  BY <1>1, <1>2 DEF Stored, Current
<1>6. \/ Doing(p, "generation") /\ v = Current
      \/ Doing(p, "entry")
  <2>1. call[p].op \in {"entry", "generation", "bump"}
    BY <1>1, CallOKFacts DEF CallOK, At, CallType, Op
  <2> QED
    BY <1>1, <1>2, <2>1 DEF Doing, v
<1>7. "done" \in Returning /\ ~InHand(p) /\ ~At(p, "idle")
  BY <1>1 DEF Returning, InHand, At
<1>8. Faithful
  BY <1>2, <1>3, <1>4, <1>5, <1>6, <1>7, ReceiveFaithful
<1>9. call'[p].at = "done" /\ \A q \in Client : q # p => call'[q] = call[q]
  BY <1>4 DEF Moved
<1>10. "done" \in MemcachedLabel /\ stored' \in Generation \cup {None}
  BY <1>1 DEF MemcachedLabel, MemcachedOK
<1>11. MemcachedOK'
  BY <1>1, <1>5, <1>9, <1>10, MemcachedQuiet
<1> QED
  BY <1>8, <1>11

LEMMA MemcachedAdds ==
  ASSUME CallsOK, Fresh, MemcachedOK, backend = "memcached", NEW p \in Client, Add(p)
  PROVE  Faithful /\ MemcachedOK'
<1>1. /\ At(p, "begun") /\ Doing(p, "bump") /\ stored' \in {stored, Stored} /\ Goto(p, "added")
      /\ UNCHANGED <<backend, historyVars, orphans>>
  BY DEF Add
<1>2. ~Serial /\ Current = Stored /\ Stored \in Nat /\ Stored \in Generation
  BY MemcachedFacts
<1>3. stored' \in Generation \cup {None}
  BY <1>1, <1>2 DEF MemcachedOK
<1>4. Stored' = Stored
  BY <1>1, <1>2, Numbers DEF Stored
<1>5. Moved(p, "added", call[p].value)
  BY <1>1, CallOKFacts, Moves DEF Label
<1>6. Advances
  BY <1>1, <1>2, <1>4 DEF Advances, Current
<1>7. "added" \notin Returning /\ "added" # "idle" /\ ~At(p, "idle")
  BY <1>1 DEF Returning, At
<1>8. Faithful
  BY <1>5, <1>6, <1>7, MoveFaithful
<1>9. /\ call'[p].at = "added" /\ call'[p].op = call[p].op
      /\ \A q \in Client : q # p => call'[q] = call[q]
  BY <1>5 DEF Moved
<1>10. MemcachedOK'
  BY <1>1, <1>3, <1>4, <1>9, MemcachedQuiet DEF MemcachedLabel, Doing, At
<1> QED
  BY <1>8, <1>10

\* A call fails: its bump is not applied, or its thread goes on without it.
LEMMA MemcachedFails ==
  ASSUME CallsOK, Fresh, MemcachedOK, backend = "memcached", NEW p \in Client, Fail(p),
         UNCHANGED <<stored, orphans>>
  PROVE  Faithful /\ MemcachedOK'
<1>1. backend' = backend /\ Ended(p)
  BY Ends DEF Fail
<1>2. Stored' = Stored /\ stored' \in Generation \cup {None}
  BY DEF Stored, MemcachedOK
<1>3. Advances
  BY <1>1, <1>2, MemcachedFacts DEF Advances, Current
<1>4. Faithful
  BY <1>3, FailFaithful
<1>5. MemcachedOK'
  BY <1>1, <1>2, IdleCall, MemcachedQuiet DEF Ended, MemcachedLabel
<1> QED
  BY <1>4, <1>5

LEMMA MemcachedLeaves ==
  ASSUME CallsOK, Fresh, MemcachedOK, backend = "memcached", NEW p \in Client, Leave(p)
  PROVE  Faithful /\ MemcachedOK'
<1>1. CASE ~Doing(p, "bump")
  BY <1>1, MemcachedFails DEF Leave
<1>2. CASE Doing(p, "bump")
  <2>1. /\ call[p].at \in {"begun", "added"} /\ Fail(p) /\ stored' = stored
        /\ Left < MaxLate /\ orphans' = [orphans EXCEPT ![call[p].at] = @ + 1]
    BY <1>2 DEF Leave
  <2>2. backend' = backend /\ Ended(p)
    BY <2>1, Ends DEF Fail
  <2>3. /\ ~Serial /\ Current = Stored /\ Stored \in Nat
        /\ Left \in Nat /\ Left <= MaxLate /\ Cardinality(Pending) \in Nat
        /\ Stored + Left + Cardinality(Pending) <= MaxGeneration
        /\ orphans["begun"] \in Nat /\ orphans["added"] \in Nat
    BY MemcachedFacts
  <2>4. Stored' = Stored /\ stored' \in Generation \cup {None}
    BY <2>1 DEF Stored, MemcachedOK
  <2>5. Advances
    BY <2>2, <2>3, <2>4 DEF Advances, Current
  <2>6. Faithful
    BY <2>1, <2>5, FailFaithful
  <2>7. orphans' \in [{"begun", "added"} -> Nat] /\ Left' = Left + 1
    BY <2>1, <2>3 DEF MemcachedOK, Left
  <2>8. call'[p].at = "idle" /\ \A q \in Client : q # p => call'[q] = call[q]
    BY <2>2, IdleCall DEF Ended
  <2>9. Cardinality(Pending') + 1 <= Cardinality(Pending)
    BY <1>2, <2>1, <2>8, UnappliedLess DEF Pending, Doing
  <2>10. Cardinality(Pending') \in Nat
    BY Numbers, Part DEF Pending, Unapplied
  <2>11. Left' <= MaxLate /\ Stored' + Left' + Cardinality(Pending') <= MaxGeneration
    BY <2>1, <2>3, <2>4, <2>7, <2>9, <2>10, Numbers
  <2>12. call'[p].at \in MemcachedLabel
    BY <2>8 DEF MemcachedLabel
  <2>13. MemcachedOK'
    BY <2>2, <2>4, <2>7, <2>8, <2>11, <2>12, MemcachedRest
  <2> QED
    BY <2>6, <2>13
<1> QED
  BY <1>1, <1>2

LEMMA MemcachedIncrements ==
  ASSUME CallsOK, Fresh, MemcachedOK, backend = "memcached", NEW p \in Client, Increment(p)
  PROVE  Faithful /\ MemcachedOK'
<1>1. CASE stored = None
  BY <1>1, MemcachedFails DEF Increment
<1>2. CASE stored # None
  <2> DEFINE v == stored + 1
  <2>1. /\ At(p, "added") /\ stored' = v /\ Receive(p, "done", v)
        /\ UNCHANGED <<backend, historyVars, orphans>>
    BY <1>2 DEF Increment
  <2>2. Doing(p, "bump") /\ p \in Pending
    BY <2>1 DEF MemcachedOK, At, Pending, Unapplied
  <2>3. /\ ~Serial /\ Current = Stored /\ Stored \in Nat /\ stored = Stored
        /\ Left \in Nat /\ Left <= MaxLate /\ Cardinality(Pending) \in Nat
        /\ Stored + Left + Cardinality(Pending) <= MaxGeneration
    BY <1>2, MemcachedFacts
  <2>4. Cardinality(Pending) >= 1
    <3>1. IsFiniteSet(Pending)
      BY Numbers, Part DEF Pending, Unapplied
    <3>2. Cardinality(Pending) # 0
      BY <2>2, <3>1, FS_EmptySet
    <3> QED
      BY <2>3, <3>2
  <2>5. v = Stored + 1 /\ v \in Nat /\ v <= MaxGeneration
    BY <2>3, <2>4, Numbers
  <2>6. v \in Value /\ v \in Generation
    BY <2>5, Values
  <2> HIDE DEF v
  <2>7. Moved(p, "done", v)
    BY <2>1, <2>6, Moves DEF Label
  <2>8. Stored' = v
    BY <2>1, <2>6, Numbers DEF Stored
  <2>9. Current' = v
    BY <2>1, <2>3, <2>8 DEF Current, Serial
  <2>10. "done" \in Returning /\ ~InHand(p) /\ ~At(p, "idle")
    BY <2>1 DEF Returning, InHand, At
  <2>11. Current \in Nat /\ Current' = Current + 1 /\ v = Current + 1
    BY <2>3, <2>5, <2>9
  <2>12. Faithful
    BY <2>2, <2>3, <2>5, <2>7, <2>10, <2>11, ReceiveFaithful
  <2>13. call'[p].at = "done" /\ \A q \in Client : q # p => call'[q] = call[q]
    BY <2>7 DEF Moved
  <2>14. Cardinality(Pending') + 1 <= Cardinality(Pending)
    BY <2>1, <2>2, <2>13, UnappliedLess DEF Pending, Doing, At
  <2>15. Cardinality(Pending') \in Nat
    BY Numbers, Part DEF Pending, Unapplied
  <2>16. Left' = Left
    BY <2>1 DEF Left
  <2>17. Left' <= MaxLate /\ Stored' + Left' + Cardinality(Pending') <= MaxGeneration
    BY <2>3, <2>5, <2>8, <2>14, <2>15, <2>16, Numbers
  <2>18. /\ "done" \in MemcachedLabel /\ orphans' \in [{"begun", "added"} -> Nat]
         /\ stored' \in Generation \cup {None}
    BY <2>1, <2>6 DEF MemcachedLabel, MemcachedOK
  <2>19. MemcachedOK'
    BY <2>1, <2>13, <2>17, <2>18, MemcachedRest
  <2> QED
    BY <2>12, <2>19
<1> QED
  BY <1>1, <1>2

LEMMA MemcachedReturns ==
  ASSUME CallsOK, Fresh, MemcachedOK, backend = "memcached", NEW p \in Client, Return(p)
  PROVE  Faithful /\ MemcachedOK'
<1>1. Succeed(p) /\ At(p, "done") /\ UNCHANGED <<stored, orphans>>
  BY DEF Return, memcachedVars
<1>2. /\ InHand(p) /\ backend' = backend /\ call' = [call EXCEPT ![p] = Idle]
  BY <1>1 DEF InHand, Returning, At, Succeed
<1>3. Stored' = Stored /\ stored' \in Generation \cup {None}
  BY <1>1 DEF Stored, MemcachedOK
<1>4. ~Serial /\ Current \in Nat /\ Current' = Current
  BY <1>2, <1>3, MemcachedFacts DEF Current
<1>5. Faithful
  BY <1>1, <1>2, <1>4, SucceedFaithful
<1>6. Ended(p)
  BY <1>2, Ends
<1>7. MemcachedOK'
  BY <1>1, <1>2, <1>3, <1>6, IdleCall, MemcachedQuiet DEF Ended, MemcachedLabel
<1> QED
  BY <1>5, <1>7

\* An orphan moves at most what it leaves to the counter.
LEMMA Sums ==
  ASSUME NEW a \in Nat, NEW b \in Nat, NEW c \in Nat, NEW d \in Nat, NEW e \in Nat,
         NEW m \in Nat, NEW n \in Nat,
         b <= d, d <= n, a + b <= c + d, c + d + e <= m
  PROVE  b <= n /\ a + b + e <= m
OBVIOUS

\* OrphanAdds and OrphanIncrements.
LEMMA MemcachedAlone ==
  ASSUME CallsOK, Fresh, MemcachedOK, backend = "memcached", OrphanAdds \/ OrphanIncrements
  PROVE  Faithful /\ MemcachedOK'
<1>1. /\ ~Serial /\ Current = Stored /\ Stored \in Nat /\ Stored \in Generation
      /\ stored # None => stored = Stored
      /\ Left \in Nat /\ Left <= MaxLate /\ Cardinality(Pending) \in Nat
      /\ Stored + Left + Cardinality(Pending) <= MaxGeneration
      /\ orphans["begun"] \in Nat /\ orphans["added"] \in Nat
      /\ orphans \in [{"begun", "added"} -> Nat]
  BY MemcachedFacts DEF MemcachedOK
<1>2. UNCHANGED <<backend, call>> /\ UNCHANGED callerVars
  BY DEF OrphanAdds, OrphanIncrements, callerVars
<1>3. Pending' = Pending
  BY <1>2 DEF Pending, Unapplied, Doing
<1>4. /\ orphans' \in [{"begun", "added"} -> Nat] /\ Left' <= Left
      /\ stored' \in Generation \cup {None} /\ Stored' \in Nat /\ Stored <= Stored'
      /\ Stored' + Left' <= Stored + Left /\ Left' \in Nat
  <2>1. CASE OrphanAdds
    <3>1. /\ orphans["begun"] > 0 /\ stored' \in {stored, Stored}
          /\ orphans' = [orphans EXCEPT !["begun"] = @ - 1, !["added"] = @ + 1]
      BY <2>1 DEF OrphanAdds
    <3>2. /\ orphans' \in [{"begun", "added"} -> Nat]
          /\ orphans'["begun"] = orphans["begun"] - 1 /\ orphans'["added"] = orphans["added"] + 1
      BY <1>1, <3>1
    <3>3. Left' = Left
      BY <1>1, <3>2 DEF Left
    <3>4. Stored' = Stored /\ stored' \in Generation \cup {None}
      BY <1>1, <3>1, Numbers DEF Stored, MemcachedOK
    <3> QED
      BY <1>1, <3>2, <3>3, <3>4
  <2>2. CASE OrphanIncrements
    <3>1. /\ orphans["added"] > 0 /\ stored' = IF stored = None THEN None ELSE stored + 1
          /\ orphans' = [orphans EXCEPT !["added"] = @ - 1]
      BY <2>2 DEF OrphanIncrements
    <3>2. /\ orphans' \in [{"begun", "added"} -> Nat]
          /\ orphans'["begun"] = orphans["begun"] /\ orphans'["added"] = orphans["added"] - 1
      BY <1>1, <3>1
    <3>3. Left' = Left - 1 /\ Left' \in Nat
      BY <1>1, <3>1, <3>2 DEF Left
    <3>4. CASE stored = None
      <4>1. stored' = None /\ Stored' = Stored
        BY <3>1, <3>4 DEF Stored
      <4> QED
        BY <1>1, <3>2, <3>3, <4>1
    <3>5. CASE stored # None
      <4>1. stored' = Stored + 1 /\ Stored + 1 \in Nat /\ Stored + 1 <= MaxGeneration
        BY <1>1, <3>1, <3>3, <3>5, Numbers
      <4>2. stored' \in Generation
        BY <4>1, Values
      <4>3. Stored' = Stored + 1
        BY <4>1, <4>2, Numbers DEF Stored
      <4> QED
        BY <1>1, <3>2, <3>3, <4>2, <4>3
    <3> QED
      BY <3>4, <3>5
  <2> QED
    BY <2>1, <2>2
<1>5. Current' = Stored'
  BY <1>1, <1>2, MemcachedFacts DEF Current
<1>6. Faithful
  BY <1>1, <1>2, <1>4, <1>5, SameFaithful DEF Advances
<1>7. Left' <= MaxLate /\ Stored' + Left' + Cardinality(Pending) <= MaxGeneration
  <2>1. MaxGeneration \in Nat /\ MaxLate \in Nat
    BY Numbers
  <2>2. /\ Stored' \in Nat /\ Left' \in Nat /\ Left' <= Left
        /\ Stored' + Left' <= Stored + Left
    BY <1>4
  <2>3. /\ Stored \in Nat /\ Left \in Nat /\ Left <= MaxLate /\ Cardinality(Pending) \in Nat
        /\ Stored + Left + Cardinality(Pending) <= MaxGeneration
    BY <1>1
  <2> QED
    BY <2>1, <2>2, <2>3, Sums
<1> QED
  BY <1>2, <1>3, <1>4, <1>6, <1>7 DEF MemcachedOK, Pending, At, Doing

LEMMA MemcachedLoses ==
  ASSUME CallsOK, Fresh, MemcachedOK, backend = "memcached", MemcachedLose
  PROVE  Faithful /\ MemcachedOK'
<1>1. Forget /\ stored' = None /\ orphans' = orphans
  BY DEF MemcachedLose
<1>2. /\ Stored \in Nat
      /\ Left \in Nat /\ Left <= MaxLate /\ Cardinality(Pending) \in Nat
      /\ Stored + Left + Cardinality(Pending) <= MaxGeneration
  BY MemcachedFacts
<1>3. /\ backend' = backend
      /\ \A q \in Client : call'[q].op = call[q].op /\ call'[q].at = call[q].at
  BY <1>1, Forgets
<1>4. Stored' = 0 /\ Left' = Left
  BY <1>1 DEF Stored, Left
<1>5. Current' \in Nat
  BY <1>3, <1>4 DEF Current
<1>6. Faithful
  BY <1>1, <1>5, ForgetFaithful
<1>7. Pending' = Pending
  BY <1>3 DEF Pending, Unapplied, Doing
<1>8. Left' <= MaxLate /\ Stored' + Left' + Cardinality(Pending') <= MaxGeneration
  BY <1>2, <1>4, <1>7, Numbers
<1> QED
  BY <1>1, <1>3, <1>6, <1>8 DEF MemcachedOK, Pending, At, Doing

\* Every step of Memcached.
LEMMA MemcachedFaithful ==
  ASSUME CallsOK, Fresh, MemcachedOK, backend = "memcached", MemcachedNext
  PROVE  Faithful /\ MemcachedOK'
<1>1. ASSUME NEW p \in Client, ConnectionFails(p)
      PROVE  Faithful /\ MemcachedOK'
  BY <1>1, MemcachedFails DEF ConnectionFails, memcachedVars
<1> QED
  BY <1>1, MemcachedBegins, MemcachedReads, MemcachedAdds, MemcachedIncrements, MemcachedReturns,
     MemcachedLeaves, MemcachedAlone, MemcachedLoses DEF MemcachedNext

-----------------------------------------------------------------------------
(* Moka.                                                                   *)

Uncounted == Unapplied({"begun"})
MokaLabel == {"idle", "begun", "counted", "read"}

LEMMA MokaFacts ==
  ASSUME CallsOK, MokaOK, backend = "moka"
  PROVE  /\ Serial /\ Fresh /\ Advances
         /\ Shown \in Nat /\ issued \in Nat /\ issued \in Generation /\ floor \in Nat
         /\ floor <= Shown /\ Shown <= issued
         /\ Cardinality(Uncounted) \in Nat /\ issued + Cardinality(Uncounted) <= MaxGeneration
         /\ \A q \in Client : call[q].vouches => Bumping = {q}
<1>1. Serial
  BY DEF Serial
<1>2. Shown \in Nat
  BY StoredFacts DEF MokaOK, Shown
<1>3. issued \in Nat /\ floor \in Nat
  BY Values DEF MokaOK, CallsOK
<1>4. Cardinality(Uncounted) \in Nat
  BY Numbers, Part DEF Uncounted, Unapplied
<1> QED
  BY <1>1, <1>2, <1>3, <1>4 DEF MokaOK, Uncounted, Fresh, Advances

\* What a step of one call leaves true of the others.
LEMMA MokaRest ==
  ASSUME CallsOK, MokaOK, backend = "moka", backend' = backend, NEW p \in Client,
         call'[p].at \in MokaLabel,
         call'[p].at = "counted" =>
           Doing(p, "bump")' /\ floor' < call'[p].value /\ call'[p].value <= issued',
         call'[p].at = "read" => ~Doing(p, "bump")',
         \A q \in Client : call'[q].vouches => Bumping' = {q},
         \A q \in Client : q # p => /\ call'[q].at = call[q].at /\ call'[q].op = call[q].op
                                    /\ call'[q].value = call[q].value,
         floor' = floor \/ \A q \in Client : q # p => ~At(q, "counted"),
         issued' \in Generation, issued <= issued', shown' \in Generation \cup {None},
         floor' <= Shown', Shown' <= issued',
         issued' + Cardinality(Uncounted') <= MaxGeneration
  PROVE  MokaOK'
<1>1. \A q \in Client : call'[q].at \in MokaLabel
  BY DEF MokaOK, MokaLabel
<1>2. ASSUME NEW q \in Client, call'[q].at = "counted"
      PROVE  Doing(q, "bump")' /\ floor' < call'[q].value /\ call'[q].value <= issued'
  <2>1. CASE q = p
    BY <1>2, <2>1
  <2>2. CASE q # p
    <3>1. At(q, "counted") /\ call'[q].value = call[q].value /\ call'[q].op = call[q].op
      BY <1>2, <2>2 DEF At
    <3>2. Doing(q, "bump") /\ floor < call[q].value /\ call[q].value <= issued /\ floor' = floor
      BY <2>2, <3>1 DEF MokaOK
    <3>3. call[q].value \in Nat /\ issued \in Nat /\ issued' \in Nat
      BY CallOKFacts, MokaFacts, Values
    <3> QED
      BY <3>1, <3>2, <3>3 DEF Doing
  <2> QED
    BY <2>1, <2>2
<1>3. \A q \in Client : call'[q].at = "read" => ~Doing(q, "bump")'
  BY DEF MokaOK, At, Doing
<1> QED
  BY <1>1, <1>2, <1>3 DEF MokaOK, MokaLabel, Uncounted, At

LEMMA MokaBegins ==
  ASSUME CallsOK, MokaOK, backend = "moka", NEW p \in Client, NEW op \in Op, MokaBegin(p, op)
  PROVE  Faithful /\ MokaOK'
<1>1. Begin(p, op) /\ UNCHANGED <<issued, shown>> /\ (op = "bump" => MokaRoom)
  BY DEF MokaBegin, mokaVars
<1>2. Faithful
  BY <1>1, MokaFacts, BeginFaithful
<1>3. /\ call'[p].at = "begun" /\ call'[p].op = op /\ At(p, "idle")
      /\ UNCHANGED <<backend, floor>>
      /\ \A q \in Client : q # p => /\ call'[q].at = call[q].at /\ call'[q].op = call[q].op
                                    /\ call'[q].value = call[q].value
  BY <1>1, Begins
<1>4. ~Doing(p, "bump")
  BY <1>3, CallOKFacts DEF CallOK, At, Doing
<1>5. Bumping' = IF op = "bump" THEN Bumping \cup {p} ELSE Bumping
  BY <1>3, <1>4 DEF Bumping, Doing
<1>6. ASSUME NEW q \in Client, call'[q].vouches
      PROVE  Bumping' = {q}
  <2>1. Serial
    BY MokaFacts
  <2>2. CASE q = p
    <3>1. op = "bump" /\ Bumping = {}
      BY <1>1, <1>6, <2>1, <2>2, Begins
    <3> QED
      BY <1>5, <2>2, <3>1
  <2>3. CASE q # p
    <3>1. call[q].vouches /\ ~(op = "bump" /\ Doing(q, "bump"))
      BY <1>1, <1>6, <2>1, <2>3, Begins
    <3>2. Bumping = {q}
      BY <3>1, MokaFacts
    <3>3. Doing(q, "bump")
      BY <3>2 DEF Bumping
    <3> QED
      BY <1>5, <3>1, <3>2, <3>3
  <2> QED
    BY <2>2, <2>3
<1>7. /\ issued \in Nat /\ Cardinality(Uncounted) \in Nat
      /\ issued + Cardinality(Uncounted) <= MaxGeneration
      /\ floor <= Shown /\ Shown <= issued /\ Shown' = Shown
  BY <1>1, MokaFacts DEF Shown
<1>8. Cardinality(Uncounted') \in Nat
  BY Numbers, Part DEF Uncounted, Unapplied
<1>9. issued' + Cardinality(Uncounted') <= MaxGeneration
  <2>1. CASE op = "bump"
    <3>1. Cardinality(Uncounted') <= Cardinality(Uncounted) + 1
      BY <1>1, UnappliedBegun DEF Uncounted
    <3>2. {q \in Bumping : At(q, "begun")} = Uncounted
      BY DEF Uncounted, Unapplied, Bumping, At
    <3>3. issued + Cardinality(Uncounted) < MaxGeneration
      BY <1>1, <2>1, <3>2 DEF MokaRoom
    <3> QED
      BY <1>1, <1>7, <1>8, <3>1, <3>3, Numbers
  <2>2. CASE op # "bump"
    <3>1. Cardinality(Uncounted') <= Cardinality(Uncounted)
      BY <1>1, <2>2, UnappliedBegun DEF Uncounted
    <3> QED
      BY <1>1, <1>7, <1>8, <3>1, Numbers
  <2> QED
    BY <2>1, <2>2
<1>10. call'[p].at \in MokaLabel /\ call'[p].at # "counted" /\ call'[p].at # "read"
  BY <1>3 DEF MokaLabel
<1>11. /\ issued' \in Generation /\ issued <= issued' /\ shown' \in Generation \cup {None}
       /\ floor' <= Shown' /\ Shown' <= issued'
  BY <1>1, <1>3, <1>7 DEF MokaOK
<1>12. MokaOK'
  BY <1>3, <1>6, <1>9, <1>10, <1>11, MokaRest
<1> QED
  BY <1>2, <1>12

LEMMA MokaReads ==
  ASSUME CallsOK, MokaOK, backend = "moka", NEW p \in Client, Read(p)
  PROVE  Faithful /\ MokaOK'
<1> DEFINE v == IF Doing(p, "generation") THEN Shown ELSE 0
<1>1. /\ At(p, "begun") /\ ~Doing(p, "bump") /\ Receive(p, "read", v)
      /\ UNCHANGED <<backend, historyVars, issued, shown>>
  BY DEF Read, mokaVars
<1>2. /\ Serial /\ Shown \in Nat /\ issued \in Nat /\ floor <= Shown /\ Shown <= issued
      /\ issued <= MaxGeneration /\ Cardinality(Uncounted) \in Nat /\ floor \in Nat
      /\ issued + Cardinality(Uncounted) <= MaxGeneration
  BY MokaFacts, Values DEF MokaOK
<1>3. v \in Nat /\ v <= MaxGeneration /\ (Doing(p, "generation") => v = Shown)
  BY <1>2, Numbers
<1> HIDE DEF v
<1>4. Moved(p, "read", v)
  <2>1. v \in Value
    BY <1>3, Values
  <2> QED
    BY <1>1, <2>1, Moves DEF Label
<1>5. call[p].begun <= floor /\ call[p].begun \in Nat
  BY CallOKFacts DEF CallOK
<1>6. Doing(p, "generation") => call[p].begun <= v
  BY <1>2, <1>3, <1>5
<1>7. ~At(p, "idle") /\ "read" # "idle" /\ best' = best /\ backend' = backend
  BY <1>1 DEF At, historyVars
<1>8. CallsOK'
  BY <1>1, <1>3, <1>4, <1>6, <1>7, CallsMoved
<1>9. Faithful
  BY <1>2, <1>4, <1>7, <1>8, FreshSerial, PromiseMoved DEF Faithful
<1>10. /\ call'[p].at = "read" /\ call'[p].op = call[p].op /\ floor' = floor
       /\ \A q \in Client : q # p => call'[q] = call[q]
       /\ \A q \in Client : call'[q].op = call[q].op /\ call'[q].vouches = call[q].vouches
  BY <1>4 DEF Moved
<1>11. \A q \in Client : call'[q].vouches => Bumping' = {q}
  <2>1. Bumping' = Bumping
    BY <1>10 DEF Bumping, Doing
  <2> QED
    BY <1>10, <2>1, MokaFacts
<1>12. Cardinality(Uncounted') <= Cardinality(Uncounted) /\ Cardinality(Uncounted') \in Nat
  <2>1. Cardinality(Uncounted') \in Nat
    BY Numbers, Part DEF Uncounted, Unapplied
  <2> QED
    BY <1>10, <2>1, UnappliedPart DEF Uncounted, Doing
<1>13. issued' + Cardinality(Uncounted') <= MaxGeneration
  BY <1>1, <1>2, <1>12, Numbers
<1>14. /\ issued' \in Generation /\ issued <= issued' /\ shown' \in Generation \cup {None}
       /\ floor' <= Shown' /\ Shown' <= issued'
  BY <1>1, <1>2, <1>10 DEF MokaOK, Shown
<1>15. call'[p].at \in MokaLabel /\ call'[p].at # "counted" /\ ~Doing(p, "bump")'
  BY <1>1, <1>10 DEF MokaLabel, Doing
<1>16. MokaOK'
  BY <1>1, <1>10, <1>11, <1>13, <1>14, <1>15, MokaRest
<1> QED
  BY <1>9, <1>16

\* The end of a call that is not vouched for, or whose bump goes unfinished.
LEMMA MokaEnds ==
  ASSUME CallsOK, MokaOK, backend = "moka", NEW p \in Client, Ended(p), backend' = backend,
         floor' = floor \/ (call[p].vouches /\ Doing(p, "bump")),
         issued' = issued, shown' \in Generation \cup {None}, floor' <= Shown', Shown' <= issued
  PROVE  MokaOK'
<1>1. /\ issued \in Nat /\ issued \in Generation /\ Cardinality(Uncounted) \in Nat
      /\ issued + Cardinality(Uncounted) <= MaxGeneration
      /\ \A q \in Client : call[q].vouches => Bumping = {q}
  BY MokaFacts
<1>2. /\ call'[p].at = "idle" /\ call'[p].vouches = FALSE /\ call'[p].op = "none"
      /\ \A q \in Client : q # p => call'[q] = call[q]
  BY IdleCall DEF Ended
<1>3. ASSUME NEW q \in Client, call'[q].vouches
      PROVE  Bumping' = {q}
  <2>1. q # p /\ Bumping = {q}
    BY <1>1, <1>2, <1>3
  <2>2. ~Doing(p, "bump")
    BY <2>1 DEF Bumping
  <2>3. Bumping' = Bumping
    BY <1>2, <2>2 DEF Bumping, Doing
  <2> QED
    BY <2>1, <2>3
<1>4. floor' = floor \/ \A q \in Client : q # p => ~At(q, "counted")
  <2>1. ASSUME NEW q \in Client, q # p, At(q, "counted"), call[p].vouches
        PROVE  FALSE
    <3>1. Doing(q, "bump") /\ Bumping = {p}
      BY <1>1, <2>1 DEF MokaOK
    <3> QED
      BY <2>1, <3>1 DEF Bumping
  <2> QED
    BY <2>1
<1>5. Cardinality(Uncounted') <= Cardinality(Uncounted) /\ Cardinality(Uncounted') \in Nat
  <2>1. Cardinality(Uncounted') \in Nat
    BY Numbers, Part DEF Uncounted, Unapplied
  <2> QED
    BY <1>2, <2>1, UnappliedPart DEF Uncounted, Doing
<1>6. issued' + Cardinality(Uncounted') <= MaxGeneration
  BY <1>1, <1>5, Numbers
<1>7. call'[p].at \in MokaLabel /\ call'[p].at # "counted" /\ call'[p].at # "read"
  BY <1>2 DEF MokaLabel
<1>8. issued' \in Generation /\ issued <= issued' /\ Shown' <= issued'
  BY <1>1
<1> QED
  BY <1>2, <1>3, <1>4, <1>6, <1>7, <1>8, MokaRest

LEMMA MokaReturnsRead ==
  ASSUME CallsOK, MokaOK, backend = "moka", NEW p \in Client, ReturnRead(p)
  PROVE  Faithful /\ MokaOK'
<1>1. Succeed(p) /\ At(p, "read") /\ UNCHANGED <<issued, shown>>
  BY DEF ReturnRead, mokaVars
<1>2. /\ InHand(p) /\ backend' = backend /\ call' = [call EXCEPT ![p] = Idle]
      /\ floor' = IF call[p].vouches THEN Larger(floor, call[p].value) ELSE floor
  BY <1>1 DEF InHand, Returning, At, Succeed
<1>3. ~Doing(p, "bump") /\ ~call[p].vouches
  <2>1. ~Doing(p, "bump")
    BY <1>1 DEF MokaOK
  <2> QED
    BY <2>1, MokaFacts DEF Bumping
<1>4. CallsOK' /\ [Promise!Next]_(Promise!vars)
  BY <1>1, <1>2, <1>3, CallsSucceed, PromiseSucceeds
<1>5. Faithful
  BY <1>2, <1>4, MokaFacts, FreshSerial DEF Faithful
<1>6. Ended(p)
  BY <1>2, Ends
<1>7. /\ floor' = floor /\ Shown' = Shown /\ shown' \in Generation \cup {None}
      /\ floor' <= Shown' /\ Shown' <= issued
  BY <1>1, <1>2, <1>3, MokaFacts DEF Shown, MokaOK
<1>8. floor' = floor \/ (call[p].vouches /\ Doing(p, "bump"))
  BY <1>7
<1>9. issued' = issued
  BY <1>1
<1>10. MokaOK'
  BY <1>2, <1>6, <1>7, <1>8, <1>9, MokaEnds
<1> QED
  BY <1>5, <1>10

LEMMA MokaCounts ==
  ASSUME CallsOK, MokaOK, backend = "moka", NEW p \in Client, Count(p)
  PROVE  Faithful /\ MokaOK'
<1> DEFINE v == issued + 1
<1>1. /\ At(p, "begun") /\ Doing(p, "bump") /\ issued' = v /\ Receive(p, "counted", v)
      /\ UNCHANGED <<backend, historyVars, shown>>
  BY DEF Count
<1>2. /\ Serial /\ Shown \in Nat /\ issued \in Nat /\ floor \in Nat
      /\ floor <= Shown /\ Shown <= issued
      /\ Cardinality(Uncounted) \in Nat /\ issued + Cardinality(Uncounted) <= MaxGeneration
  BY MokaFacts
<1>3. Cardinality(Uncounted) >= 1
  <2>1. p \in Uncounted
    BY <1>1 DEF Uncounted, Unapplied, At
  <2>2. IsFiniteSet(Uncounted)
    BY Numbers, Part DEF Uncounted, Unapplied
  <2>3. Cardinality(Uncounted) # 0
    BY <2>1, <2>2, FS_EmptySet
  <2> QED
    BY <1>2, <2>3
<1>4. v \in Nat /\ v <= MaxGeneration /\ issued < v /\ v = issued + 1
  BY <1>2, <1>3, Numbers
<1>5. v \in Value /\ v \in Generation
  BY <1>4, Values
<1> HIDE DEF v
<1>6. Moved(p, "counted", v)
  BY <1>1, <1>5, Moves DEF Label
<1>7. call[p].begun <= floor /\ call[p].begun \in Nat
  BY CallOKFacts DEF CallOK
<1>8. call[p].begun < v /\ call[p].begun <= v
  BY <1>2, <1>4, <1>7
<1>9. ~At(p, "idle") /\ "counted" # "idle" /\ best' = best /\ backend' = backend
  BY <1>1 DEF At, historyVars
<1>10. CallsOK'
  BY <1>4, <1>6, <1>8, <1>9, CallsMoved
<1>11. Faithful
  BY <1>2, <1>6, <1>9, <1>10, FreshSerial, PromiseMoved DEF Faithful
<1>12. /\ call'[p].at = "counted" /\ call'[p].op = call[p].op /\ call'[p].value = v /\ floor' = floor
       /\ \A q \in Client : q # p => call'[q] = call[q]
       /\ \A q \in Client : call'[q].op = call[q].op /\ call'[q].vouches = call[q].vouches
  BY <1>6 DEF Moved
<1>13. \A q \in Client : call'[q].vouches => Bumping' = {q}
  <2>1. Bumping' = Bumping
    BY <1>12 DEF Bumping, Doing
  <2> QED
    BY <1>12, <2>1, MokaFacts
<1>14. Cardinality(Uncounted') + 1 <= Cardinality(Uncounted)
  BY <1>1, <1>12, UnappliedLess DEF Uncounted, Doing, At
<1>15. Cardinality(Uncounted') \in Nat
  BY Numbers, Part DEF Uncounted, Unapplied
<1>16. issued' + Cardinality(Uncounted') <= MaxGeneration
  BY <1>1, <1>2, <1>4, <1>14, <1>15, Numbers
<1>17. Shown' = Shown /\ shown' \in Generation \cup {None}
  BY <1>1 DEF Shown, MokaOK
<1>18. /\ issued' \in Generation /\ issued <= issued' /\ floor' <= Shown' /\ Shown' <= issued'
       /\ floor' < v /\ v <= issued'
  BY <1>1, <1>2, <1>4, <1>5, <1>12, <1>17
<1>19. call'[p].at \in MokaLabel /\ call'[p].at # "read" /\ Doing(p, "bump")'
  BY <1>1, <1>12 DEF MokaLabel, Doing
<1>20. MokaOK'
  BY <1>1, <1>12, <1>13, <1>16, <1>17, <1>18, <1>19, MokaRest
<1> QED
  BY <1>11, <1>20

LEMMA MokaShows ==
  ASSUME CallsOK, MokaOK, backend = "moka", NEW p \in Client, Show(p)
  PROVE  Faithful /\ MokaOK'
<1> DEFINE v == call[p].value
<1>1. Succeed(p) /\ At(p, "counted") /\ shown' = v /\ issued' = issued
  BY DEF Show
<1>2. /\ InHand(p) /\ backend' = backend /\ call' = [call EXCEPT ![p] = Idle]
      /\ floor' = IF call[p].vouches THEN Larger(floor, v) ELSE floor
  BY <1>1 DEF InHand, Returning, At, Succeed
<1>3. Doing(p, "bump") /\ floor < v /\ v <= issued
  BY <1>1 DEF MokaOK
<1>4. v \in Nat /\ floor \in Nat /\ issued \in Nat /\ v <= MaxGeneration
  BY <1>2, CallOKFacts, MokaFacts DEF CallOK
<1>5. v \notin taken
  BY <1>3, <1>4 DEF CallsOK
<1>6. CallsOK' /\ [Promise!Next]_(Promise!vars)
  BY <1>1, <1>2, <1>5, CallsSucceed, PromiseSucceeds
<1>7. Faithful
  BY <1>2, <1>6, MokaFacts, FreshSerial DEF Faithful
<1>8. Ended(p)
  BY <1>2, Ends
<1>9. v \in Generation /\ v # None
  BY <1>4, Values, Numbers
<1>10. Shown' = v
  BY <1>1, <1>9 DEF Shown
<1>11. floor' <= v
  BY <1>2, <1>3, <1>4 DEF Larger
<1>12. floor' = floor \/ (call[p].vouches /\ Doing(p, "bump"))
  BY <1>2, <1>3
<1>13. MokaOK'
  BY <1>1, <1>2, <1>3, <1>8, <1>9, <1>10, <1>11, <1>12, MokaEnds
<1> QED
  BY <1>7, <1>13

LEMMA MokaAbandons ==
  ASSUME CallsOK, MokaOK, backend = "moka", NEW p \in Client, Abandon(p)
  PROVE  Faithful /\ MokaOK'
<1>1. Fail(p) /\ UNCHANGED <<issued, shown>>
  BY DEF Abandon, mokaVars
<1>2. Faithful
  BY <1>1, MokaFacts, FailFaithful
<1>3. Ended(p) /\ backend' = backend /\ floor' = floor
  BY <1>1, Ends DEF Fail, historyVars
<1>4. /\ Shown' = Shown /\ shown' \in Generation \cup {None} /\ floor' <= Shown' /\ Shown' <= issued
  BY <1>1, <1>3, MokaFacts DEF Shown, MokaOK
<1>5. floor' = floor \/ (call[p].vouches /\ Doing(p, "bump"))
  BY <1>3
<1>6. issued' = issued
  BY <1>1
<1>7. MokaOK'
  BY <1>3, <1>4, <1>5, <1>6, MokaEnds
<1> QED
  BY <1>2, <1>7

LEMMA MokaElsewhere ==
  ASSUME CallsOK, MokaOK, backend = "moka", BumpElsewhere
  PROVE  Faithful /\ MokaOK'
<1>1. MokaRoom /\ issued' = issued + 1 /\ UNCHANGED callerVars /\ shown' = shown
  BY DEF BumpElsewhere
<1>2. UNCHANGED <<backend, call, floor>>
  BY <1>1 DEF callerVars
<1>3. Faithful
  BY <1>1, MokaFacts, SameFaithful
<1>4. {q \in Bumping : At(q, "begun")} = Uncounted
  BY DEF Uncounted, Unapplied, Bumping, At
<1>5. /\ Shown \in Nat /\ issued \in Nat /\ floor <= Shown /\ Shown <= issued
      /\ Cardinality(Uncounted) \in Nat /\ issued + Cardinality(Uncounted) < MaxGeneration
  BY <1>1, <1>4, MokaFacts DEF MokaRoom
<1>6. Uncounted' = Uncounted /\ Shown' = Shown /\ Bumping' = Bumping
  BY <1>1, <1>2 DEF Uncounted, Unapplied, Doing, Shown, Bumping
<1>7. /\ issued' \in Nat /\ issued' <= MaxGeneration /\ Shown <= issued'
      /\ issued' + Cardinality(Uncounted) <= MaxGeneration
  BY <1>1, <1>5, Numbers
<1>8. issued' \in Generation
  BY <1>7, Values
<1>9. \A q \in Client : At(q, "counted") => call[q].value <= issued'
  <2>1. \A q \in Client : At(q, "counted") => call[q].value <= issued /\ call[q].value \in Nat
    BY CallOKFacts DEF MokaOK
  <2> QED
    BY <1>1, <1>5, <2>1
<1> QED
  BY <1>1, <1>2, <1>3, <1>5, <1>6, <1>7, <1>8, <1>9 DEF MokaOK, Uncounted, At, Doing

LEMMA MokaLoses ==
  ASSUME CallsOK, MokaOK, backend = "moka", MokaLose
  PROVE  Faithful /\ MokaOK'
<1>1. Forget /\ shown' = None /\ issued' = issued
  BY DEF MokaLose
<1>2. /\ backend' = backend /\ floor' = 0
      /\ \A q \in Client : /\ call'[q].op = call[q].op /\ call'[q].at = call[q].at
                           /\ call'[q].value = call[q].value /\ call'[q].vouches = FALSE
  BY <1>1, Forgets
<1>3. Faithful
  <2>1. Serial' /\ Serial
    BY <1>2 DEF Serial
  <2> QED
    BY <1>1, <1>2, <2>1, CallsForget, FreshSerial, PromiseForgets DEF Faithful
<1>4. Shown' = 0 /\ issued \in Nat /\ issued' \in Generation
  BY <1>1, MokaFacts DEF Shown
<1>5. Uncounted' = Uncounted
  BY <1>2 DEF Uncounted, Unapplied, Doing
<1>6. ASSUME NEW q \in Client, At(q, "counted")
      PROVE  Doing(q, "bump") /\ 0 < call[q].value /\ call[q].value <= issued
  <2>1. Doing(q, "bump") /\ floor < call[q].value /\ call[q].value <= issued
    BY <1>6 DEF MokaOK
  <2> QED
    BY <2>1, CallOKFacts
<1> QED
  BY <1>1, <1>2, <1>3, <1>4, <1>5, <1>6 DEF MokaOK, Uncounted, At, Doing

\* Every step of Moka.
LEMMA MokaFaithful ==
  ASSUME CallsOK, MokaOK, backend = "moka", MokaNext
  PROVE  Faithful /\ MokaOK'
BY MokaBegins, MokaReads, MokaReturnsRead, MokaCounts, MokaShows, MokaAbandons, MokaElsewhere,
   MokaLoses DEF MokaNext

-----------------------------------------------------------------------------
(* The circuit breaker of Redis.                                           *)

\* Where a call is on the way to opening the circuit.
Breaking == {"opening", "storing", "resetting"}

\* What a step leaves of the breaker that is not about it.
Unbroken ==
  /\ UNCHANGED <<backend, failures, streak, unopened>>
  /\ Opening' = Opening /\ Resetting' = Resetting
  /\ \A q \in Client : call'[q].at = "opening" => call[q].at = "opening"

LEMMA Bystanders ==
  ASSUME UNCHANGED <<backend, failures, streak, unopened>>,
         \A q \in Client : \/ call'[q].at = call[q].at
                           \/ call[q].at \notin Breaking /\ call'[q].at \notin Breaking
  PROVE  Unbroken
BY DEF Unbroken, Opening, Resetting, Breaking, At

\* A step of Redis goes on from one failure to the next, or the breaker stays as it is.
LEMMA BreakerSteps ==
  ASSUME CallsOK, RedisOK, backend = "redis", RedisNext
  PROVE  \/ Unbroken
         \/ \E p \in Client : \/ RecordFailure(p) \/ OpenCircuit(p) \/ ResetFailures(p) \/ Ok(p)
<1>1. ASSUME NEW p \in Client, NEW op \in Op, RedisBegin(p, op)
      PROVE  Unbroken
  <2>1. Begin(p, op) /\ UNCHANGED <<failures, streak, unopened>>
    BY <1>1 DEF RedisBegin, redisVars
  <2>2. /\ backend' = backend /\ call[p].at = "idle" /\ call'[p].at = "begun"
        /\ \A q \in Client : q # p => call'[q].at = call[q].at
    BY <2>1, Begins DEF At
  <2> QED
    BY <2>1, <2>2, Bystanders DEF Breaking
<1>2. ASSUME NEW p \in Client, Fail(p), call[p].at \in {"begun", "sent", "answered"},
             UNCHANGED <<failures, streak, unopened>>
      PROVE  Unbroken
  <2>1. Ended(p) /\ backend' = backend
    BY <1>2, Ends DEF Fail
  <2>2. call'[p].at = "idle" /\ \A q \in Client : q # p => call'[q] = call[q]
    BY <2>1, IdleCall DEF Ended
  <2> QED
    BY <1>2, <2>1, <2>2, Bystanders DEF Breaking
<1>3. ASSUME NEW p \in Client, NEW label, NEW v, Moved(p, label, v),
             call[p].at \in {"begun", "sent", "answered"}, label \in {"sent", "answered", "failed"},
             UNCHANGED <<failures, streak, unopened>>
      PROVE  Unbroken
  <2>1. /\ backend' = backend /\ call'[p].at = label
        /\ \A q \in Client : q # p => call'[q] = call[q]
    BY <1>3 DEF Moved
  <2> QED
    BY <1>3, <2>1, Bystanders DEF Breaking
<1>4. ASSUME NEW p \in Client, Refuse(p)
      PROVE  Unbroken
  <2>1. Fail(p) /\ call[p].at \in {"begun", "sent", "answered"} /\ UNCHANGED <<failures, streak, unopened>>
    BY <1>4 DEF Refuse, redisVars, At
  <2> QED
    BY <1>2, <2>1
<1>5. ASSUME NEW p \in Client, Drop(p)
      PROVE  Unbroken
  <2>1. Fail(p) /\ call[p].at \in {"begun", "sent", "answered"} /\ UNCHANGED <<failures, streak, unopened>>
    BY <1>5 DEF Drop, breakerVars
  <2> QED
    BY <1>2, <2>1
<1>6. ASSUME NEW p \in Client, Send(p) \/ Error(p) \/ Timeout(p)
      PROVE  Unbroken
  <2>1. PICK label \in {"sent", "failed"} : Goto(p, label)
    BY <1>6 DEF Send, Error, Timeout
  <2>2. /\ call[p].at \in {"begun", "sent", "answered"}
        /\ UNCHANGED <<backend, historyVars, failures, streak, unopened>>
    BY <1>6 DEF Send, Error, Timeout, At, redisVars, breakerVars
  <2>3. label \in Label /\ label \in {"sent", "answered", "failed"} /\ call[p].value \in Value
    BY CallOKFacts DEF Label
  <2>4. Moved(p, label, call[p].value)
    BY <2>1, <2>2, <2>3, Moves
  <2> QED
    BY <1>3, <2>2, <2>3, <2>4
<1>7. ASSUME NEW p \in Client, Apply(p)
      PROVE  Unbroken
  <2>1. At(p, "sent") /\ UNCHANGED <<backend, failures, streak, unopened>>
    BY <1>7 DEF Apply, breakerVars
  <2>2. PICK v : Receive(p, "answered", v)
    BY <1>7 DEF Apply
  <2>3. call'[p].at = "answered" /\ \A q \in Client : q # p => call'[q] = call[q]
    BY <2>2 DEF Receive, CallsOK, CallType
  <2> QED
    BY <2>1, <2>3, Bystanders DEF At, Breaking
<1>8. ASSUME NEW p \in Client, ReadClock(p)
      PROVE  Unbroken
  <2>1. At(p, "opening") /\ Receive(p, "storing", Cooldown) /\ UNCHANGED <<backend, historyVars, failures, streak, unopened>>
    BY <1>8 DEF ReadClock, redisVars
  <2>2. Moved(p, "storing", Cooldown)
    BY <2>1, Moves, Numbers, Values DEF Label
  <2>3. call'[p].at = "storing" /\ \A q \in Client : q # p => call'[q] = call[q]
    BY <2>2 DEF Moved
  <2> QED
    BY <2>1, <2>3 DEF Unbroken, Opening, Resetting, At
<1>9. ASSUME ApplyLate \/ Vanish
      PROVE  Unbroken
  BY <1>9, Bystanders DEF ApplyLate, Vanish, callerVars, breakerVars
<1>10. ASSUME RedisLose
       PROVE  Unbroken
  <2>1. Forget /\ UNCHANGED <<failures, streak, unopened>>
    BY <1>10 DEF RedisLose, breakerVars
  <2> QED
    BY <2>1, Forgets, Bystanders
<1>11. ASSUME RedisTick
       PROVE  Unbroken
  <2>1. UNCHANGED <<backend, failures, streak, unopened>>
    BY <1>11 DEF RedisTick
  <2> QED
    BY <1>11, <2>1, RedisTicked, Bystanders
<1>12. ASSUME NEW p \in Client, RedisStep(p)
       PROVE  Unbroken \/ RecordFailure(p) \/ OpenCircuit(p) \/ ResetFailures(p) \/ Ok(p)
  BY <1>4, <1>6, <1>7, <1>8, <1>12 DEF RedisStep
<1> QED
  BY <1>1, <1>5, <1>9, <1>10, <1>11, <1>12 DEF RedisNext

\* One more caller costs one threshold less one more.
LEMMA Products ==
  ASSUME NEW r \in Nat, NEW n \in Nat, NEW s \in Nat, r <= n
  PROVE  r * s \in Nat /\ (r + 1) * s = r * s + s /\ 0 * s = 0 /\ r * s <= n * s
<1>1. r * s \in Nat /\ (r + 1) * s = r * s + s /\ 0 * s = 0
  OBVIOUS
<1>2. PICK d \in Nat : n = r + d
  <2>1. n - r \in Nat /\ n = r + (n - r)
    OBVIOUS
  <2> QED
    BY <2>1
<1>3. n * s = r * s + d * s /\ d * s \in Nat
  BY <1>2
<1> QED
  BY <1>1, <1>3

\* The callers about to reset the count.
LEMMA ResettingFacts ==
  /\ IsFiniteSet(Opening) /\ Cardinality(Opening) \in Nat
  /\ IsFiniteSet(Resetting) /\ Cardinality(Resetting) \in Nat
  /\ Cardinality(Opening) <= Cardinality(Client)
  /\ Resetting \subseteq Opening
BY Numbers, Part DEF Opening, Resetting, At

LEMMA BreakerRecords ==
  ASSUME CallsOK, BreakerOK, backend = "redis", NEW p \in Client, RecordFailure(p)
  PROVE  BreakerOK'
<1>1. /\ At(p, "failed") /\ failures' = failures + 1
      /\ streak' = Counted(streak) /\ unopened' = Counted(unopened)
      /\ IF failures + 1 >= Limit
           THEN Goto(p, "opening") /\ UNCHANGED <<backend, historyVars>>
           ELSE Fail(p)
  BY DEF RecordFailure
<1>2. /\ failures \in Nat /\ streak \in Nat /\ unopened \in Nat
      /\ streak <= MostLost + 1 /\ unopened <= MostLost + 1
      /\ failures <= streak \/ streak = MostLost + 1
      /\ failures <= Short + Cardinality(Opening)
  BY DEF BreakerOK
<1>3. /\ failures' \in Nat /\ streak' \in Nat /\ unopened' \in Nat
      /\ streak' <= MostLost + 1 /\ unopened' <= MostLost + 1 /\ unopened' <= unopened + 1
      /\ failures' <= streak' \/ streak' = MostLost + 1
  BY <1>1, <1>2, Numbers DEF Counted
<1>4. p \notin Opening /\ p \notin Resetting
  BY <1>1 DEF Opening, Resetting, At
<1>5. CASE failures + 1 >= Limit
  <2>1. Moved(p, "opening", call[p].value)
    BY <1>1, <1>5, CallOKFacts, Moves DEF Label
  <2>2. call'[p].at = "opening" /\ backend' = backend /\ \A q \in Client : q # p => call'[q] = call[q]
    BY <2>1 DEF Moved
  <2>3. Opening' = Opening \cup {p} /\ p \in Opening' /\ p \notin Resetting'
    BY <2>2 DEF Opening, Resetting, At
  <2>4. Cardinality(Opening') = Cardinality(Opening) + 1
    BY <1>4, <2>3, ResettingFacts, FS_AddElement
  <2>5. failures' <= Short + Cardinality(Opening')
    BY <1>1, <1>2, <2>4, Numbers, ResettingFacts
  <2> QED
    BY <1>3, <2>2, <2>3, <2>5 DEF BreakerOK
<1>6. CASE failures + 1 < Limit
  <2>1. ~(failures + 1 >= Limit)
    BY <1>2, <1>6, Numbers
  <2>2. Fail(p) /\ Ended(p) /\ backend' = backend
    BY <1>1, <2>1, Ends DEF Fail
  <2>3. call'[p].at = "idle" /\ \A q \in Client : q # p => call'[q] = call[q]
    BY <2>2, IdleCall DEF Ended
  <2>4. Opening' = Opening /\ Resetting' = Resetting
    BY <1>1, <2>3 DEF Opening, Resetting, At
  <2>5. failures' <= Short + Cardinality(Opening)
    BY <1>1, <1>2, <1>6, Numbers, ResettingFacts
  <2>6. Smaller(failures', Short) = failures + 1 /\ Smaller(failures, Short) = failures
    BY <1>1, <1>2, <1>6, Numbers DEF Smaller
  <2> DEFINE R == Cardinality(Resetting) * Short
  <2>7. R \in Nat /\ R + Short <= MostLost
    <3>1. Resetting \subseteq Client \ {p}
      BY <1>4 DEF Resetting
    <3>2. Cardinality(Client \ {p}) = Cardinality(Client) - 1 /\ IsFiniteSet(Client \ {p})
      BY Numbers, FS_RemoveElement
    <3>3. Cardinality(Resetting) + 1 <= Cardinality(Client)
      BY <3>1, <3>2, Numbers, Part
    <3>4. (Cardinality(Resetting) + 1) * Short = R + Short /\ R \in Nat
      BY ResettingFacts, Numbers, Products
    <3>5. (Cardinality(Resetting) + 1) * Short <= Cardinality(Client) * Short
      BY <3>3, ResettingFacts, Numbers, Products
    <3> QED
      BY <3>4, <3>5, Numbers
  <2> HIDE DEF R
  <2>8. ASSUME Opening = Resetting
        PROVE  unopened' + R + Short <= MostLost + (failures + 1)
    <3>1. unopened = 0 \/ unopened + R + Short <= MostLost + failures
      BY <2>6, <2>8 DEF BreakerOK, R
    <3> QED
      BY <1>2, <1>3, <2>7, <3>1, Numbers
  <2> QED
    BY <1>3, <2>2, <2>4, <2>5, <2>6, <2>8 DEF BreakerOK, R
<1> QED
  BY <1>2, <1>5, <1>6, Numbers

LEMMA BreakerResets ==
  ASSUME CallsOK, BreakerOK, backend = "redis", NEW p \in Client, ResetFailures(p)
  PROVE  BreakerOK'
<1>1. At(p, "resetting") /\ failures' = 0 /\ Fail(p) /\ UNCHANGED <<streak, unopened>>
  BY DEF ResetFailures
<1>2. Ended(p) /\ backend' = backend
  BY <1>1, Ends DEF Fail
<1>3. call'[p].at = "idle" /\ \A q \in Client : q # p => call'[q] = call[q]
  BY <1>2, IdleCall DEF Ended
<1>4. /\ Opening' = Opening \ {p} /\ Resetting' = Resetting \ {p}
      /\ p \in Opening /\ p \in Resetting
  BY <1>1, <1>3 DEF Opening, Resetting, At
<1>5. Cardinality(Resetting) = Cardinality(Resetting') + 1 /\ Cardinality(Resetting') \in Nat
  <2>1. Cardinality(Resetting \ {p}) = Cardinality(Resetting) - 1 /\ IsFiniteSet(Resetting \ {p})
    BY <1>4, ResettingFacts, FS_RemoveElement
  <2> QED
    BY <1>4, <2>1, ResettingFacts, FS_CardinalityType
<1>6. Cardinality(Opening') \in Nat
  BY <1>4, ResettingFacts, Part
<1> DEFINE R == Cardinality(Resetting') * Short
<1>7. Cardinality(Resetting) * Short = R + Short /\ R \in Nat
  BY <1>5, Numbers, Products
<1>8. Smaller(failures', Short) = 0 /\ Smaller(failures, Short) <= Short /\ Smaller(failures, Short) \in Nat
  BY <1>1, Numbers DEF Smaller, BreakerOK
<1>9. ASSUME Opening' = Resetting'
      PROVE  unopened' = 0 \/ unopened' + R + Short <= MostLost + Smaller(failures', Short)
  <2>1. Opening = Resetting
    BY <1>4, <1>9
  <2>2. unopened = 0 \/ unopened + (R + Short) + Short <= MostLost + Smaller(failures, Short)
    BY <1>7, <2>1 DEF BreakerOK
  <2>3. unopened \in Nat /\ unopened' = unopened
    BY <1>1 DEF BreakerOK
  <2> QED
    BY <1>7, <1>8, <2>2, <2>3, Numbers
<1>10. failures' \in Nat /\ failures' <= Short + Cardinality(Opening') /\ failures' <= streak'
  BY <1>1, <1>6, Numbers DEF BreakerOK
<1> QED
  BY <1>1, <1>2, <1>9, <1>10 DEF BreakerOK

LEMMA BreakerStands ==
  ASSUME BreakerOK, Unbroken
  PROVE  BreakerOK'
BY DEF Unbroken, BreakerOK

LEMMA BreakerOpened ==
  ASSUME CallsOK, BreakerOK, backend = "redis", NEW p \in Client, OpenCircuit(p)
  PROVE  BreakerOK'
<1>1. /\ At(p, "storing") /\ Goto(p, "resetting") /\ unopened' = 0
      /\ UNCHANGED <<backend, historyVars, failures, streak>>
  BY DEF OpenCircuit
<1>2. Moved(p, "resetting", call[p].value)
  BY <1>1, CallOKFacts, Moves DEF Label
<1>3. call'[p].at = "resetting" /\ \A q \in Client : q # p => call'[q] = call[q]
  BY <1>2 DEF Moved
<1>4. Opening' = Opening
  BY <1>1, <1>3 DEF Opening, At
<1>5. 0 <= MostLost + 1 /\ 0 \in Nat
  BY Numbers
<1> QED
  BY <1>1, <1>4, <1>5 DEF BreakerOK

LEMMA BreakerSucceeds ==
  ASSUME CallsOK, BreakerOK, backend = "redis", NEW p \in Client, Ok(p)
  PROVE  BreakerOK'
<1>1. failures' = 0 /\ streak' = 0 /\ unopened' = 0 /\ backend' = backend
  BY DEF Ok, Succeed
<1>2. Cardinality(Opening') \in Nat
  BY Numbers, Part DEF Opening
<1> QED
  BY <1>1, <1>2, Numbers DEF BreakerOK

-----------------------------------------------------------------------------
(* The invariant.                                                          *)

LEMMA InitInv == Init => Inv
<1> SUFFICES ASSUME Init
             PROVE  Inv
  OBVIOUS
<1>1. /\ backend \in Deployments /\ call = [p \in Client |-> Idle]
      /\ floor = 0 /\ taken = {} /\ best = 0
      /\ counter = 0 /\ late = 0 /\ failures = 0 /\ openFor = 0 /\ streak = 0 /\ unopened = 0
      /\ stored = None /\ orphans = [label \in {"begun", "added"} |-> 0]
      /\ issued = 0 /\ shown = None
  BY DEF Init, CallInit, RedisInit, MemcachedInit, MokaInit
<1>2. /\ call \in [Client -> CallType]
      /\ \A p \in Client : call[p].op = "none" /\ call[p].at = "idle" /\ call[p].begun = 0
                           /\ call[p].value = 0 /\ call[p].vouches = FALSE
  BY <1>1, IdleCall
<1>3. CallsOK
  BY <1>1, <1>2, Numbers DEF CallsOK, InHand, Returning
<1>4. Stored = 0 /\ Shown = 0 /\ Current = 0 /\ Left = 0
  BY <1>1 DEF Stored, Shown, Current, Left
<1>5. Fresh
  BY <1>1, <1>2, <1>4 DEF Fresh, Vouched
<1>6. ASSUME NEW S
      PROVE  Cardinality(Unapplied(S)) = 0
  <2>1. Unapplied(S) = {}
    BY <1>2 DEF Unapplied, Doing
  <2> QED
    BY <2>1, FS_EmptySet
<1>7. RedisOK
  BY <1>1, <1>2, <1>6, Numbers DEF RedisOK, At
<1>8. MemcachedOK
  BY <1>1, <1>2, <1>4, <1>6, Numbers DEF MemcachedOK, At
<1>9. MokaOK
  BY <1>1, <1>2, <1>4, <1>6, Numbers DEF MokaOK, At
<1>10. BreakerOK
  BY <1>1, Numbers, ResettingFacts DEF BreakerOK
<1> QED
  BY <1>3, <1>5, <1>7, <1>8, <1>9, <1>10 DEF Inv

\* No step replaces the deployed backend.
LEMMA BackendKept ==
  ASSUME RedisNext \/ MemcachedNext \/ MokaNext
  PROVE  backend' = backend
<1>1. ASSUME NEW p \in Client, NEW op \in Op, RedisBegin(p, op) \/ MemcachedBegin(p, op) \/ MokaBegin(p, op)
      PROVE  backend' = backend
  BY <1>1 DEF RedisBegin, MemcachedBegin, MokaBegin, Begin
<1>2. ASSUME NEW p \in Client, RedisStep(p) \/ Drop(p)
      PROVE  backend' = backend
  BY <1>2 DEF RedisStep, Drop, Refuse, Send, Apply, Ok, Error, Timeout, RecordFailure, ReadClock,
     OpenCircuit, ResetFailures, Fail, Succeed
<1>3. ASSUME NEW p \in Client,
             Command(p) \/ Add(p) \/ Increment(p) \/ Return(p) \/ ConnectionFails(p) \/ Leave(p)
      PROVE  backend' = backend
  BY <1>3 DEF Command, Add, Increment, Return, ConnectionFails, Leave, Fail, Succeed
<1>4. ASSUME NEW p \in Client,
             Read(p) \/ ReturnRead(p) \/ Count(p) \/ Show(p) \/ Abandon(p)
      PROVE  backend' = backend
  BY <1>4 DEF Read, ReturnRead, Count, Show, Abandon, Fail, Succeed
<1>5. ApplyLate \/ Vanish \/ RedisLose \/ RedisTick => backend' = backend
  BY DEF ApplyLate, Vanish, RedisLose, RedisTick, Forget, callerVars
<1>6. OrphanAdds \/ OrphanIncrements \/ MemcachedLose => backend' = backend
  BY DEF OrphanAdds, OrphanIncrements, MemcachedLose, Forget, callerVars
<1>7. BumpElsewhere \/ MokaLose => backend' = backend
  BY DEF BumpElsewhere, MokaLose, Forget, callerVars
<1> QED
  BY <1>1, <1>2, <1>3, <1>4, <1>5, <1>6, <1>7 DEF RedisNext, MemcachedNext, MokaNext

\* Each backend keeps its own part, and leaves alone the state of those not deployed.
LEMMA StepInv == Inv /\ [Next]_vars => Inv' /\ [Promise!Next]_(Promise!vars)
<1> SUFFICES ASSUME Inv, [Next]_vars
             PROVE  Inv' /\ [Promise!Next]_(Promise!vars)
  OBVIOUS
<1>1. CallsOK /\ Fresh /\ RedisOK /\ MemcachedOK /\ MokaOK /\ BreakerOK
  BY DEF Inv
<1>2. ASSUME UNCHANGED <<counter, late, openFor>>, backend # "redis", backend' = backend
      PROVE  RedisOK'
  BY <1>1, <1>2 DEF RedisOK
<1>3. ASSUME UNCHANGED <<failures, streak, unopened>>, backend # "redis", backend' = backend
      PROVE  BreakerOK'
  BY <1>1, <1>3 DEF BreakerOK
<1>4. ASSUME UNCHANGED <<stored, orphans>>, backend # "memcached", backend' = backend
      PROVE  MemcachedOK'
  BY <1>1, <1>4 DEF MemcachedOK, Left
<1>5. ASSUME UNCHANGED <<issued, shown>>, backend # "moka", backend' = backend
      PROVE  MokaOK'
  BY <1>1, <1>5 DEF MokaOK
<1>6. CASE backend = "redis" /\ RedisNext /\ UNCHANGED <<memcachedVars, mokaVars>>
  <2>1. Faithful /\ RedisOK'
    BY <1>1, <1>6, RedisFaithful
  <2>2. Unbroken \/ \E p \in Client : RecordFailure(p) \/ OpenCircuit(p) \/ ResetFailures(p) \/ Ok(p)
    BY <1>1, <1>6, BreakerSteps
  <2>3. BreakerOK'
    BY <1>1, <1>6, <2>2, BreakerStands, BreakerRecords, BreakerOpened, BreakerResets, BreakerSucceeds
  <2>4. backend' = backend
    BY <1>6, <2>2, BackendKept
  <2>5. UNCHANGED <<stored, orphans, issued, shown>>
    BY <1>6 DEF memcachedVars, mokaVars
  <2>6. MemcachedOK' /\ MokaOK'
    BY <1>4, <1>5, <1>6, <2>4, <2>5
  <2> QED
    BY <2>1, <2>3, <2>6 DEF Inv, Faithful
<1>7. CASE backend = "memcached" /\ MemcachedNext /\ UNCHANGED <<redisVars, mokaVars>>
  <2>1. Faithful /\ MemcachedOK'
    BY <1>1, <1>7, MemcachedFaithful
  <2>2. backend' = backend
    BY <1>7, BackendKept
  <2>3. UNCHANGED <<counter, late, openFor, failures, streak, unopened, issued, shown>>
    BY <1>7 DEF redisVars, mokaVars
  <2>4. RedisOK' /\ BreakerOK' /\ MokaOK'
    BY <1>2, <1>3, <1>5, <1>7, <2>2, <2>3
  <2> QED
    BY <2>1, <2>4 DEF Inv, Faithful
<1>8. CASE backend = "moka" /\ MokaNext /\ UNCHANGED <<redisVars, memcachedVars>>
  <2>1. Faithful /\ MokaOK'
    BY <1>1, <1>8, MokaFaithful
  <2>2. backend' = backend
    BY <1>8, BackendKept
  <2>3. UNCHANGED <<counter, late, openFor, failures, streak, unopened, stored, orphans>>
    BY <1>8 DEF redisVars, memcachedVars
  <2>4. RedisOK' /\ BreakerOK' /\ MemcachedOK'
    BY <1>2, <1>3, <1>4, <1>8, <2>2, <2>3
  <2> QED
    BY <2>1, <2>4 DEF Inv, Faithful
<1>9. CASE UNCHANGED vars
  <2>1. /\ UNCHANGED <<backend, call, floor, taken, best>> /\ UNCHANGED callerVars
        /\ UNCHANGED <<counter, late, failures, openFor, streak, unopened>>
        /\ UNCHANGED <<stored, orphans, issued, shown>>
    BY <1>9 DEF vars, callerVars, redisVars, memcachedVars, mokaVars
  <2>2. CallsOK'
    BY <1>1, <2>1, CallsSame
  <2>3. Fresh'
    BY <1>1, <2>1 DEF Fresh, Vouched, InHand, Doing, Current, Stored, Serial
  <2>4. RedisOK'
    BY <1>1, <2>1 DEF RedisOK, Unapplied, Doing, At
  <2>5. MemcachedOK'
    BY <1>1, <2>1 DEF MemcachedOK, Unapplied, Doing, At, Stored, Left
  <2>6. MokaOK'
    BY <1>1, <2>1 DEF MokaOK, Unapplied, Doing, At, Shown, Bumping
  <2>7. BreakerOK'
    BY <1>1, <2>1 DEF BreakerOK, Opening, Resetting, At
  <2>8. UNCHANGED Promise!vars
    BY <2>1, PromiseSame
  <2> QED
    BY <2>2, <2>3, <2>4, <2>5, <2>6, <2>7, <2>8 DEF Inv
<1> QED
  BY <1>6, <1>7, <1>8, <1>9 DEF Next
\* Without Redis the breaker has nothing to count.
LEMMA BreakerDeployed ==
  ASSUME BreakerOK
  PROVE  /\ failures \in Nat /\ (failures = 0 \/ failures <= Short + Cardinality(Opening))
         /\ Opening = Resetting =>
              \/ unopened = 0
              \/ unopened + Cardinality(Resetting) * Short + Short
                   <= MostLost + Smaller(failures, Short)
BY DEF BreakerOK

-----------------------------------------------------------------------------
(* The theorems.                                                           *)

\* The invariant holds of every deployment.
THEOREM BackendsInductive == Spec => []Inv
<1>1. Inv /\ [Next]_vars => Inv'
  BY StepInv
<1> QED
  BY InitInv, <1>1, PTL DEF Spec

\* Type correctness of every backend; the count of failures stays within one for each
\* caller of the threshold, however the accesses of record_failure interleave.
THEOREM BackendsTyped == Spec => []TypeOK
<1>1. Inv => TypeOK
  <2> SUFFICES ASSUME Inv
               PROVE  TypeOK
    OBVIOUS
  <2>1. CallsOK /\ RedisOK /\ MemcachedOK /\ MokaOK /\ BreakerOK
    BY DEF Inv
  <2>2. failures \in 0..Limit + Cardinality(Client) - 1
    <3>1. failures \in Nat /\ (failures = 0 \/ failures <= Short + Cardinality(Opening))
      BY <2>1, BreakerDeployed
    <3>2. failures <= Limit + Cardinality(Client) - 1
      BY <3>1, Numbers, ResettingFacts
    <3> QED
      BY <3>1, <3>2, Numbers
  <2> QED
    BY <2>1, <2>2 DEF TypeOK, CallsOK, CallType, RedisOK, MemcachedOK, MokaOK
<1> QED
  BY BackendsInductive, <1>1, PTL

\* However late the resets of record_failure come, failures open the circuit: with no
\* call left to open it, each caller has cost at most the threshold less one.
THEOREM BreakerStillOpens == Spec => []BreakerOpens
<1>1. Inv => BreakerOpens
  <2> SUFFICES ASSUME Inv, Opening = {}
               PROVE  unopened <= MostLost
    BY DEF BreakerOpens
  <2>1. BreakerOK /\ unopened \in Nat
    BY DEF Inv, BreakerOK
  <2>2. Resetting = {} /\ Cardinality(Resetting) = 0
    <3>1. Resetting = {}
      BY ResettingFacts
    <3> QED
      BY <3>1, FS_EmptySet
  <2>3. Cardinality(Resetting) * Short = 0
    BY <2>2, Numbers, Products
  <2>4. Smaller(failures, Short) <= Short /\ Smaller(failures, Short) \in Nat
    BY <2>1, Numbers DEF Smaller, BreakerOK
  <2>5. unopened = 0 \/ unopened + 0 + Short <= MostLost + Smaller(failures, Short)
    BY <2>1, <2>2, <2>3, BreakerDeployed
  <2> QED
    BY <2>1, <2>4, <2>5, Numbers
<1> QED
  BY BackendsInductive, <1>1, PTL

\* Only consecutive failures open the circuit: whoever goes on to open it has counted
\* the threshold since the last success.
THEOREM OpenedByConsecutiveFailures == Spec => OpensOnConsecutiveFailures
<1>1. Inv /\ [Next]_vars =>
        [\A p \in Client : At(p, "failed") /\ call'[p].at = "opening" => streak' >= Limit]_callerVars
  <2> SUFFICES ASSUME Inv, [Next]_vars, NEW p \in Client, At(p, "failed"), call'[p].at = "opening"
               PROVE  streak' >= Limit
    OBVIOUS
  <2>1. CallsOK /\ RedisOK /\ MemcachedOK /\ MokaOK /\ BreakerOK
    BY DEF Inv
  <2>2. call'[p].at # call[p].at /\ call[p].at = "failed"
    BY DEF At
  <2>3. backend = "redis" /\ RedisNext
    <3>1. backend # "memcached"
      BY <2>1, <2>2 DEF MemcachedOK
    <3>2. backend # "moka"
      BY <2>1, <2>2 DEF MokaOK
    <3>3. ~UNCHANGED vars
      BY <2>2 DEF vars, callerVars
    <3> QED
      BY <3>1, <3>2, <3>3 DEF Next
  <2>4. PICK q \in Client : RecordFailure(q) \/ OpenCircuit(q) \/ ResetFailures(q) \/ Ok(q)
    <3>1. ~Unbroken
      BY <2>2 DEF Unbroken
    <3> QED
      BY <2>1, <2>3, <3>1, BreakerSteps
  <2>5. RecordFailure(p)
    <3>1. CASE RecordFailure(q)
      <4>1. q = p
        <5>1. call' = [call EXCEPT ![q].at = "opening"] \/ call' = [call EXCEPT ![q] = Idle]
          BY <3>1 DEF RecordFailure, Goto, Fail
        <5> QED
          BY <2>1, <2>2, <5>1 DEF CallsOK
      <4> QED
        BY <3>1, <4>1
    <3>2. CASE OpenCircuit(q)
      <4>1. call' = [call EXCEPT ![q].at = "resetting"]
        BY <3>2 DEF OpenCircuit, Goto
      <4>2. call'[p].at \in {call[p].at, "resetting"}
        BY <2>1, <4>1 DEF CallsOK, CallType
      <4> QED
        BY <2>2, <4>2
    <3>3. CASE ResetFailures(q) \/ Ok(q)
      <4>1. call' = [call EXCEPT ![q] = Idle]
        BY <3>3 DEF ResetFailures, Ok, Fail, Succeed
      <4>2. call'[p].at \in {call[p].at, "idle"}
        BY <2>1, <4>1, IdleCall DEF CallsOK
      <4> QED
        BY <2>2, <4>2
    <3> QED
      BY <2>4, <3>1, <3>2, <3>3
  <2>6. failures + 1 >= Limit
    <3>1. ~Fail(p)
      <4>1. Fail(p) => call'[p].at = "idle"
        BY <2>1, Ends, IdleCall DEF Fail, Ended
      <4> QED
        BY <2>2, <4>1
    <3> QED
      BY <2>5, <3>1 DEF RecordFailure
  <2>7. /\ failures \in Nat /\ streak \in Nat /\ streak' = Counted(streak)
        /\ failures <= streak \/ streak = MostLost + 1
    BY <2>1, <2>5 DEF BreakerOK, RecordFailure
  <2>8. MostLost >= Short
    <3>1. Cardinality(Client) # 0
      BY Numbers, FS_EmptySet
    <3>2. 1 <= Cardinality(Client)
      BY <3>1, Numbers
    <3>3. 1 * Short <= Cardinality(Client) * Short
      BY <3>2, Numbers, Products
    <3> QED
      BY <3>3, Numbers
  <2>9. CASE streak <= MostLost
    BY <2>6, <2>7, <2>9, Numbers DEF Counted
  <2>10. CASE streak > MostLost
    BY <2>7, <2>8, <2>10, Numbers DEF Counted
  <2> QED
    BY <2>7, <2>9, <2>10, Numbers
<1> QED
  BY BackendsInductive, <1>1, PTL DEF Spec, OpensOnConsecutiveFailures

\* Each backend implements the promise of the trait: its first state is a first state
\* of the promise, and each of its steps is a step of it or is not seen by it.
THEOREM PromiseKept == Spec => PromiseSpec
<1>1. Init => Promise!Init
  <2> SUFFICES ASSUME Init
               PROVE  Promise!Init
    OBVIOUS
  <2>1. call = [p \in Client |-> Idle] /\ floor = 0 /\ taken = {}
    BY DEF Init, CallInit
  <2>2. \A p \in Client : ~GenerationOp(p) /\ call[p].vouches = FALSE
    BY <2>1, IdleCall DEF GenerationOp
  <2>3. Serial \in BOOLEAN
    BY DEF Serial
  <2> QED
    BY <2>1, <2>2, <2>3 DEF Promise!Init
<1>2. Inv /\ [Next]_vars => [Promise!Next]_(Promise!vars)
  BY StepInv
<1> QED
  BY BackendsInductive, <1>1, <1>2, PTL DEF Spec, PromiseSpec, Promise!Spec
=============================================================================
