------------------------- MODULE SingleFlightProofs -------------------------
(***************************************************************************)
(* Proofs about SingleFlight: its types, with the bound on the rounds a    *)
(* statement loses and the owner of each mutex, and that the current       *)
(* generation never keeps a load that nobody will complete, for any number *)
(* of statements, LoadStates, rounds and generations.                      *)
(***************************************************************************)
EXTENDS SingleFlight, TLAPS

-----------------------------------------------------------------------------
(* The inductive invariant.                                                *)

\* The labels of before, whose loop is not over, and those after it.
Before == {"idle", "resolve", "reresolve", "lookup", "elect", "check", "checking",
           "subscribe", "wait"}
Label == Before \cup {"query", "resolveAfter", "find", "mark", "notify", "remove", "store"}
Holding == {"check", "checking", "subscribe", "wait", "mark", "notify"}

CallType == [at : Label, digest : Generation, target : Generation, attempts : 0..MaxAttempts,
             held : LoadState \cup {None}, leads : LoadState \cup {None},
             notified : BOOLEAN, succeeded : BOOLEAN]

\* In the loop there is a round left, and a LoadState is held while it is used.
LocalsOK(c) ==
  /\ c.at \in Before => c.attempts < MaxAttempts
  /\ c.at \in Holding => c.held # None

Shape ==
  /\ call \in [Statement -> CallType]
  /\ \A p \in Statement : LocalsOK(call[p])
  /\ table \in [Generation -> LoadState \cup {None}]
  /\ value \in [LoadState -> {"loading", "done", "failed"}]
  /\ mutex \in [LoadState -> Statement \cup {None}]
  /\ \A s \in LoadState :
       mutex[s] # None => At(mutex[s], "checking") /\ call[mutex[s]].held = s
  /\ generation \in Generation
  /\ cached \subseteq Generation

\* A leader is past before, and completes no digest older than its own; where it
\* ends, its LoadState has left the table or was put there under another digest.
LeadOK(c) ==
  /\ c.digest <= generation /\ c.target <= generation
  /\ c.leads # None =>
       /\ c.at \notin Before
       /\ c.at \in {"find", "mark", "notify", "remove", "store"} => c.digest <= c.target
       /\ c.at = "store" => table[c.target] # c.leads
       /\ \A g \in Generation : table[g] = c.leads => g = c.digest

LeadInv ==
  /\ \A p \in Statement : LeadOK(call[p])
  /\ \A g \in Generation : table[g] # None => g <= generation
  /\ CurrentEntryHasLeader

\* The bounds are naturals.
LEMMA Numbers ==
  /\ MaxAttempts \in Nat /\ MaxAttempts > 0 /\ MaxGeneration \in Nat
  /\ 0 \in Generation /\ \A g \in Generation : g \in Nat
BY SingleFlightAssumption DEF Generation

\* A statement that is not running is well formed.
LEMMA IdleTyped == Idle \in CallType /\ LocalsOK(Idle)
<1>1. Idle \in CallType
  BY Numbers DEF Idle, CallType, Label, Before
<1> QED
  BY <1>1, Numbers DEF Idle, LocalsOK, Before, Holding

\* The moves that also take or drop a LoadState.
LEMMA HeldMoves ==
  ASSUME call \in [Statement -> CallType], NEW p \in Statement, NEW label \in Label,
         NEW h \in LoadState \cup {None}
  PROVE  /\ call' = [call EXCEPT ![p].at = label, ![p].held = h] =>
              call' = [call EXCEPT ![p] = [call[p] EXCEPT !.at = label, !.held = h]]
         /\ [call[p] EXCEPT !.at = label, !.held = h] \in CallType
         /\ \A n \in 0..MaxAttempts :
              /\ call' = [call EXCEPT ![p].at = label, ![p].held = h, ![p].attempts = n] =>
                 call' = [call EXCEPT ![p] = [call[p] EXCEPT !.at = label, !.held = h, !.attempts = n]]
              /\ [call[p] EXCEPT !.at = label, !.held = h, !.attempts = n] \in CallType
         /\ \A s \in LoadState :
              /\ call' = [call EXCEPT ![p].at = label, ![p].held = h, ![p].leads = s] =>
                 call' = [call EXCEPT ![p] = [call[p] EXCEPT !.at = label, !.held = h, !.leads = s]]
              /\ [call[p] EXCEPT !.at = label, !.held = h, !.leads = s] \in CallType
<1>1. call[p] \in CallType
  OBVIOUS
<1>2. ASSUME NEW c \in CallType PROVE [call EXCEPT ![p] = c][p] = c
  OBVIOUS
<1>3. [call[p] EXCEPT !.at = label, !.held = h] \in CallType
  BY <1>1 DEF CallType
<1>4. ASSUME NEW n \in 0..MaxAttempts
      PROVE  [call[p] EXCEPT !.at = label, !.held = h, !.attempts = n] \in CallType
  BY <1>1 DEF CallType
<1>5. ASSUME NEW s \in LoadState
      PROVE  [call[p] EXCEPT !.at = label, !.held = h, !.leads = s] \in CallType
  BY <1>1 DEF CallType
<1> QED
  BY <1>3, <1>4, <1>5

\* The moves that learn a generation, or whether the query succeeded.
LEMMA LearningMoves ==
  ASSUME call \in [Statement -> CallType], NEW p \in Statement, NEW label \in Label
  PROVE  /\ \A g \in Generation :
              /\ call' = [call EXCEPT ![p].at = label, ![p].target = g] =>
                 call' = [call EXCEPT ![p] = [call[p] EXCEPT !.at = label, !.target = g]]
              /\ [call[p] EXCEPT !.at = label, !.target = g] \in CallType
         /\ \A ok \in BOOLEAN :
              /\ call' = [call EXCEPT ![p].at = label, ![p].succeeded = ok] =>
                 call' = [call EXCEPT ![p] = [call[p] EXCEPT !.at = label, !.succeeded = ok]]
              /\ [call[p] EXCEPT !.at = label, !.succeeded = ok] \in CallType
<1>1. call[p] \in CallType
  OBVIOUS
<1>2. ASSUME NEW c \in CallType PROVE [call EXCEPT ![p] = c][p] = c
  OBVIOUS
<1>3. ASSUME NEW g \in Generation PROVE [call[p] EXCEPT !.at = label, !.target = g] \in CallType
  BY <1>1 DEF CallType
<1>4. ASSUME NEW ok \in BOOLEAN PROVE [call[p] EXCEPT !.at = label, !.succeeded = ok] \in CallType
  BY <1>1 DEF CallType
<1> QED
  BY <1>3, <1>4

-----------------------------------------------------------------------------
(* Types.                                                                  *)

\* p moves from one typed call to another, and the others stay where they are.
Moves(p) ==
  /\ call' \in [Statement -> CallType]
  /\ \A q \in Statement \ {p} : call'[q] = call[q]
  /\ LocalsOK(call'[p])

\* A move away from the mutexes keeps the shape.
LEMMA ShapeKept ==
  ASSUME Shape, NEW p \in Statement, Moves(p), call[p].at # "checking", mutex' = mutex,
         table' \in [Generation -> LoadState \cup {None}],
         value' \in [LoadState -> {"loading", "done", "failed"}],
         generation' \in Generation, cached' \subseteq Generation
  PROVE  Shape'
<1>1. ASSUME NEW s \in LoadState, mutex'[s] # None
      PROVE  At(mutex[s], "checking")' /\ call'[mutex'[s]].held = s
  <2>1. mutex[s] \in Statement /\ call[mutex[s]].at = "checking" /\ call[mutex[s]].held = s
    BY <1>1 DEF Shape, At
  <2>2. call'[mutex[s]] = call[mutex[s]]
    BY <2>1 DEF Moves
  <2> QED
    BY <2>1, <2>2 DEF At
<1>2. \A q \in Statement : LocalsOK(call'[q])
  BY DEF Moves, Shape
<1> QED
  BY <1>1, <1>2 DEF Shape, Moves

\* Every step keeps the shape.
LEMMA ShapeStep == Shape /\ [Next]_vars => Shape'
<1> SUFFICES ASSUME Shape, [Next]_vars PROVE Shape'
  OBVIOUS
<1> USE DEF At
<1>a. /\ call \in [Statement -> CallType] /\ \A p \in Statement : call[p] \in CallType /\ LocalsOK(call[p])
      /\ generation \in Generation /\ table \in [Generation -> LoadState \cup {None}]
      /\ mutex \in [LoadState -> Statement \cup {None}]
  BY DEF Shape
<1>b. \A p \in Statement :
        call[p].attempts \in Nat /\ call[p].digest \in Generation /\ call[p].target \in Generation
  BY <1>a, Numbers DEF CallType
\* A move of p that writes nothing else.
<1>c. ASSUME NEW p \in Statement, Moves(p), call[p].at # "checking", UNCHANGED <<flightVars, cacheVars>>
      PROVE  Shape'
  BY <1>c, ShapeKept DEF flightVars, cacheVars, Shape
<1>d. ASSUME NEW p \in Statement, Finish(p) PROVE Moves(p)
  BY <1>a, <1>d, IdleTyped DEF Finish, Moves
<1>e. ASSUME NEW p \in Statement, NEW label \in Label, Goto(p, label),
             label \in Before => call[p].attempts < MaxAttempts,
             label \in Holding => call[p].held # None
      PROVE  Moves(p)
  <2>1. call' \in [Statement -> CallType] /\ \A q \in Statement \ {p} : call'[q] = call[q]
    BY <1>a, <1>e DEF Goto, CallType
  <2>2. /\ call'[p].at = label /\ call'[p].attempts = call[p].attempts
        /\ call'[p].held = call[p].held
    BY <1>a, <1>e DEF Goto, CallType
  <2> QED
    BY <1>e, <2>1, <2>2 DEF Moves, LocalsOK
<1>1. ASSUME NEW p \in Statement, Begin(p) PROVE Shape'
  BY <1>1, <1>a, <1>c, <1>e DEF Begin, LocalsOK, Before, Holding, Label
<1>2. ASSUME NEW p \in Statement, Resolve(p) PROVE Shape'
  <2>1. /\ call' \in [Statement -> CallType] /\ \A q \in Statement \ {p} : call'[q] = call[q]
        /\ call'[p].at = "lookup" /\ call'[p].attempts = call[p].attempts
    BY <1>2, <1>a DEF Resolve, CallType, Label, Before
  <2>2. Moves(p)
    BY <1>2, <1>a, <2>1 DEF Moves, LocalsOK, Resolve, Before, Holding
  <2> QED
    BY <1>2, <1>c, <2>2 DEF Resolve
<1>3. ASSUME NEW p \in Statement, ResolveFails(p) PROVE Shape'
  <2>1. /\ call' \in [Statement -> CallType] /\ \A q \in Statement \ {p} : call'[q] = call[q]
        /\ call'[p].at = "query"
    <3>1. "query" \in Label
      BY DEF Label
    <3> DEFINE c == [call[p] EXCEPT !.at = "query", !.held = None]
    <3>2. call' = [call EXCEPT ![p] = c] /\ c \in CallType /\ c.at = "query"
      <4>1. call' = [call EXCEPT ![p] = c] /\ c \in CallType
        BY <1>3, <1>a, <3>1, HeldMoves DEF ResolveFails
      <4>2. c.at = "query"
        BY <1>a DEF CallType
      <4> QED
        BY <4>1, <4>2
    <3> QED
      BY <1>a, <3>2
  <2>2. Moves(p)
    BY <2>1 DEF Moves, LocalsOK, Before, Holding
  <2> QED
    BY <1>3, <1>c, <2>2 DEF ResolveFails
<1>4. ASSUME NEW p \in Statement, Lookup(p) PROVE Shape'
  <2>1. CASE Finish(p)
    BY <1>4, <1>c, <1>d, <2>1 DEF Lookup
  <2>2. CASE Goto(p, "elect")
    BY <1>4, <1>a, <1>c, <1>e, <2>2 DEF Lookup, LocalsOK, Before, Holding, Label
  <2> QED
    BY <1>4, <2>1, <2>2 DEF Lookup
<1>5. ASSUME NEW p \in Statement, BecomeLeader(p) PROVE Shape'
  <2>1. PICK s \in LoadState :
          /\ Unallocated(s)
          /\ table' = [table EXCEPT ![call[p].digest] = s]
          /\ value' = [value EXCEPT ![s] = "loading"]
          /\ mutex' = [mutex EXCEPT ![s] = None]
          /\ call' = [call EXCEPT ![p].at = "query", ![p].held = None, ![p].leads = s]
    BY <1>5 DEF BecomeLeader
  <2>2. /\ call' \in [Statement -> CallType] /\ \A q \in Statement \ {p} : call'[q] = call[q]
        /\ call'[p].at = "query"
    <3>1. "query" \in Label
      BY DEF Label
    <3> DEFINE c == [call[p] EXCEPT !.at = "query", !.held = None, !.leads = s]
    <3>2. call' = [call EXCEPT ![p] = c] /\ c \in CallType /\ c.at = "query"
      <4>1. /\ call' = [call EXCEPT ![p].at = "query", ![p].held = None, ![p].leads = s] =>
               call' = [call EXCEPT ![p] = c]
            /\ c \in CallType
        BY <1>a, <3>1, HeldMoves
      <4>2. c.at = "query"
        BY <1>a DEF CallType
      <4> QED
        BY <2>1, <4>1, <4>2
    <3> QED
      BY <1>a, <3>2
  <2>3. LocalsOK(call'[p])
    BY <2>2 DEF LocalsOK, Before, Holding
  <2>4. ASSUME NEW r \in LoadState, mutex'[r] # None
        PROVE  call'[mutex'[r]].at = "checking" /\ call'[mutex'[r]].held = r
    <3>1. mutex'[r] = mutex[r] /\ mutex[r] \in Statement
      BY <1>a, <2>1, <2>4
    <3>2. call[mutex[r]].at = "checking" /\ call[mutex[r]].held = r
      BY <2>4, <3>1 DEF Shape
    <3>3. mutex[r] # p
      BY <1>5, <3>2 DEF BecomeLeader
    <3> QED
      BY <2>2, <3>1, <3>2, <3>3
  <2>5. /\ table' \in [Generation -> LoadState \cup {None}]
        /\ value' \in [LoadState -> {"loading", "done", "failed"}]
        /\ mutex' \in [LoadState -> Statement \cup {None}]
    BY <2>1 DEF Shape
  <2>6. UNCHANGED cacheVars
    BY <1>5 DEF BecomeLeader
  <2>7. \A q \in Statement : LocalsOK(call'[q])
    BY <1>a, <2>2, <2>3
  <2> QED
    BY <2>2, <2>4, <2>5, <2>6, <2>7 DEF Shape, cacheVars
<1>6. ASSUME NEW p \in Statement, BecomeFollower(p) PROVE Shape'
  <2> DEFINE lost == call[p].attempts + 1
             over == lost >= MaxAttempts
  <2>1. call' = [call EXCEPT ![p].at = IF over THEN "query" ELSE "check",
                             ![p].held = IF over THEN None ELSE table[call[p].digest],
                             ![p].attempts = lost]
    BY <1>6 DEF BecomeFollower
  <2>2. /\ table[call[p].digest] \in LoadState \cup {None} /\ table[call[p].digest] # None
        /\ call[p].attempts < MaxAttempts
    BY <1>6, <1>a, <1>b DEF BecomeFollower, LocalsOK, Before
  <2>3. lost \in 0..MaxAttempts /\ lost \in Nat
    BY <1>b, <2>2, Numbers
  <2>4. /\ call' \in [Statement -> CallType] /\ \A q \in Statement \ {p} : call'[q] = call[q]
        /\ call'[p].at = (IF over THEN "query" ELSE "check")
        /\ call'[p].held = (IF over THEN None ELSE table[call[p].digest])
        /\ call'[p].attempts = lost
    <3> HIDE DEF lost
    <3> QED
      <4> DEFINE label == IF over THEN "query" ELSE "check"
                 h == IF over THEN None ELSE table[call[p].digest]
                 c == [call[p] EXCEPT !.at = label, !.held = h, !.attempts = lost]
      <4>1. label \in Label /\ h \in LoadState \cup {None}
        BY <2>2 DEF Label, Before
      <4>2. call' = [call EXCEPT ![p].at = label, ![p].held = h, ![p].attempts = lost]
        BY <2>1
      <4> HIDE DEF label, h
      <4>3. call' = [call EXCEPT ![p] = c] /\ c \in CallType
        <5>1. /\ call' = [call EXCEPT ![p].at = label, ![p].held = h, ![p].attempts = lost] =>
                 call' = [call EXCEPT ![p] = c]
              /\ c \in CallType
          BY <1>a, <2>3, <4>1, HeldMoves
        <5> QED
          BY <4>2, <5>1
      <4>4. c.at = label /\ c.held = h /\ c.attempts = lost
        BY <1>a DEF CallType
      <4>5. call' \in [Statement -> CallType] /\ call'[p] = c /\ \A q \in Statement \ {p} : call'[q] = call[q]
        BY <1>a, <4>3
      <4> QED
        BY <4>4, <4>5 DEF label, h
  <2>5. Moves(p)
    BY <2>2, <2>3, <2>4, Numbers DEF Moves, LocalsOK, Before, Holding
  <2> QED
    BY <1>6, <1>c, <2>5 DEF BecomeFollower
<1>7. ASSUME NEW p \in Statement, CheckLock(p) PROVE Shape'
  <2> DEFINE h == call[p].held
  <2>1. h \in LoadState /\ call[p].at = "check"
    BY <1>7, <1>a DEF CheckLock, LocalsOK, CallType, Holding
  <2>2. /\ call' \in [Statement -> CallType] /\ \A q \in Statement \ {p} : call'[q] = call[q]
        /\ call'[p].at = "checking" /\ call'[p].held = h
        /\ call'[p].attempts = call[p].attempts
    BY <1>7, <1>a DEF CheckLock, Goto, CallType, Label, Before
  <2>3. LocalsOK(call'[p])
    BY <1>a, <2>1, <2>2 DEF LocalsOK, Before, Holding
  <2>4. mutex' = [mutex EXCEPT ![h] = p]
    BY <1>7 DEF CheckLock
  <2>5. ASSUME NEW r \in LoadState, mutex'[r] # None
        PROVE  call'[mutex'[r]].at = "checking" /\ call'[mutex'[r]].held = r
    <3>1. CASE r = h
      BY <1>a, <2>2, <2>4, <3>1
    <3>2. CASE r # h
      <4>1. mutex'[r] = mutex[r] /\ mutex[r] \in Statement
        BY <1>a, <2>4, <2>5, <3>2
      <4>2. call[mutex[r]].at = "checking" /\ call[mutex[r]].held = r
        BY <2>5, <4>1 DEF Shape
      <4> QED
        BY <2>1, <2>2, <4>1, <4>2
    <3> QED
      BY <3>1, <3>2
  <2>6. mutex' \in [LoadState -> Statement \cup {None}] /\ UNCHANGED <<table, value, cacheVars>>
    BY <1>7, <1>a DEF CheckLock
  <2>7. \A q \in Statement : LocalsOK(call'[q])
    BY <1>a, <2>2, <2>3
  <2> QED
    BY <2>2, <2>5, <2>6, <2>7 DEF Shape, cacheVars
<1>8. ASSUME NEW p \in Statement, CheckRead(p) PROVE Shape'
  <2> DEFINE h == call[p].held
             label == IF value[h] = "loading" THEN "subscribe" ELSE "reresolve"
  <2>1. h \in LoadState /\ h # None /\ call[p].at = "checking" /\ label \in {"subscribe", "reresolve"}
    BY <1>8, <1>a DEF CheckRead, LocalsOK, CallType, Holding
  <2>2. Goto(p, label)
    BY <1>8 DEF CheckRead
  <2> HIDE DEF label
  <2>3. Moves(p)
    BY <1>a, <1>e, <2>1, <2>2 DEF Label, Before, Holding, LocalsOK
  <2>4. mutex' = [mutex EXCEPT ![h] = None]
    BY <1>8 DEF CheckRead
  <2>5. ASSUME NEW r \in LoadState, mutex'[r] # None
        PROVE  call'[mutex'[r]].at = "checking" /\ call'[mutex'[r]].held = r
    <3>1. mutex'[r] = mutex[r] /\ mutex[r] \in Statement /\ r # h
      BY <1>a, <2>4, <2>5
    <3>2. call[mutex[r]].at = "checking" /\ call[mutex[r]].held = r
      BY <2>5, <3>1 DEF Shape
    <3>3. call'[mutex[r]] = call[mutex[r]]
      BY <2>3, <3>1, <3>2 DEF Moves
    <3> QED
      BY <3>1, <3>2, <3>3
  <2>6. mutex' \in [LoadState -> Statement \cup {None}] /\ UNCHANGED <<table, value, cacheVars>>
    BY <1>8, <1>a DEF CheckRead
  <2>7. \A q \in Statement : LocalsOK(call'[q])
    BY <1>a, <2>3 DEF Moves
  <2> QED
    BY <2>3, <2>5, <2>6, <2>7 DEF Shape, cacheVars, Moves
<1>9. ASSUME NEW p \in Statement, Subscribe(p) \/ Timeout(p) PROVE Shape'
  <2>1. call[p].at \in {"subscribe", "wait"} /\ call[p].attempts < MaxAttempts /\ call[p].held # None
    BY <1>9, <1>a DEF Subscribe, Timeout, LocalsOK, Before, Holding
  <2>2. PICK label \in {"wait", "reresolve"} : Goto(p, label)
    BY <1>9 DEF Subscribe, Timeout
  <2>3. Moves(p)
    BY <1>e, <2>1, <2>2 DEF Label, Before
  <2> QED
    BY <1>9, <1>c, <2>1, <2>3 DEF Subscribe, Timeout
<1>10. ASSUME NEW p \in Statement, Wake(p) PROVE Shape'
  <2>1. /\ call' \in [Statement -> CallType] /\ \A q \in Statement \ {p} : call'[q] = call[q]
        /\ call'[p].at = "reresolve" /\ call'[p].attempts = call[p].attempts
    BY <1>10, <1>a DEF Wake, CallType, Label, Before
  <2>2. Moves(p)
    BY <1>10, <1>a, <2>1 DEF Moves, LocalsOK, Wake, Before, Holding
  <2> QED
    BY <1>10, <1>c, <2>2 DEF Wake
<1>11. ASSUME NEW p \in Statement, Query(p) PROVE Shape'
  <2>1. PICK ok \in BOOLEAN :
          call' = [call EXCEPT ![p].at = "resolveAfter", ![p].succeeded = ok]
    BY <1>11 DEF Query
  <2>2. /\ call' \in [Statement -> CallType] /\ \A q \in Statement \ {p} : call'[q] = call[q]
        /\ call'[p].at = "resolveAfter"
    <3>1. "resolveAfter" \in Label
      BY DEF Label
    <3> DEFINE c == [call[p] EXCEPT !.at = "resolveAfter", !.succeeded = ok]
    <3>2. call' = [call EXCEPT ![p] = c] /\ c \in CallType /\ c.at = "resolveAfter"
      <4>1. /\ call' = [call EXCEPT ![p].at = "resolveAfter", ![p].succeeded = ok] =>
               call' = [call EXCEPT ![p] = c]
            /\ c \in CallType
        BY <1>a, <3>1, LearningMoves
      <4>2. c.at = "resolveAfter"
        BY <1>a DEF CallType
      <4> QED
        BY <2>1, <4>1, <4>2
    <3> QED
      BY <1>a, <3>2
  <2>3. Moves(p)
    BY <2>2 DEF Moves, LocalsOK, Before, Holding
  <2> QED
    BY <1>11, <1>c, <2>3 DEF Query
<1>12. ASSUME NEW p \in Statement, ResolveAfter(p) PROVE Shape'
  <2>1. /\ call' \in [Statement -> CallType] /\ \A q \in Statement \ {p} : call'[q] = call[q]
        /\ call'[p].at = "find"
    <3>1. "find" \in Label
      BY DEF Label
    <3> DEFINE c == [call[p] EXCEPT !.at = "find", !.target = generation]
    <3>2. call' = [call EXCEPT ![p] = c] /\ c \in CallType /\ c.at = "find"
      <4>1. call' = [call EXCEPT ![p] = c] /\ c \in CallType
        BY <1>12, <1>a, <3>1, LearningMoves DEF ResolveAfter
      <4>2. c.at = "find"
        BY <1>a DEF CallType
      <4> QED
        BY <4>1, <4>2
    <3> QED
      BY <1>a, <3>2
  <2>2. Moves(p)
    BY <2>1 DEF Moves, LocalsOK, Before, Holding
  <2> QED
    BY <1>12, <1>c, <2>2 DEF ResolveAfter
<1>13. ASSUME NEW p \in Statement, ResolveAfterFails(p) \/ Cancel(p) PROVE Shape'
  BY <1>13, <1>c, <1>d DEF ResolveAfterFails, Cancel
<1>14. ASSUME NEW p \in Statement, Find(p) PROVE Shape'
  <2> DEFINE s == table[call[p].target]
             label == IF s = None THEN "store" ELSE "mark"
  <2>1. s \in LoadState \cup {None} /\ label \in Label
    BY <1>a, <1>b DEF Label
  <2>2. call' = [call EXCEPT ![p].at = label, ![p].held = s]
    BY <1>14 DEF Find
  <2>3. label \in {"store", "mark"} /\ (label = "mark" => s # None)
    OBVIOUS
  <2> HIDE DEF s, label
  <2> DEFINE c == [call[p] EXCEPT !.at = label, !.held = s]
  <2>4. call' = [call EXCEPT ![p] = c] /\ c \in CallType
    <3>1. /\ call' = [call EXCEPT ![p].at = label, ![p].held = s] => call' = [call EXCEPT ![p] = c]
          /\ c \in CallType
      BY <1>a, <2>1, HeldMoves
    <3> QED
      BY <2>2, <3>1
  <2>5. c.at = label /\ c.held = s
    BY <1>a DEF CallType
  <2>6. Moves(p)
    <3>1. LocalsOK(c)
      BY <2>3, <2>5 DEF LocalsOK, Before, Holding
    <3>2. call'[p] = c /\ call' \in [Statement -> CallType] /\ \A q \in Statement \ {p} : call'[q] = call[q]
      BY <1>a, <2>4
    <3> QED
      BY <3>1, <3>2 DEF Moves
  <2> QED
    BY <1>14, <1>c, <2>6 DEF Find
<1>15. ASSUME NEW p \in Statement, Mark(p) PROVE Shape'
  <2>1. call[p].held # None /\ call[p].at = "mark"
    BY <1>15, <1>a DEF Mark, LocalsOK, Holding
  <2>2. Moves(p)
    BY <1>15, <1>e, <2>1 DEF Mark, Label, Before
  <2>3. value' \in [LoadState -> {"loading", "done", "failed"}]
    BY <1>15 DEF Mark, Shape
  <2>4. mutex' = mutex /\ table' = table /\ UNCHANGED cacheVars
    BY <1>15 DEF Mark
  <2> QED
    BY <1>a, <2>1, <2>2, <2>3, <2>4, ShapeKept DEF Shape, cacheVars
<1>16. ASSUME NEW p \in Statement, Notify(p) PROVE Shape'
  <2>1. \A q \in Statement \ {p} :
          /\ call'[q].at = call[q].at /\ call'[q].held = call[q].held
          /\ call'[q].attempts = call[q].attempts
    BY <1>16, <1>a DEF Notify, CallType
  <2>2. call' \in [Statement -> CallType]
    <3>1. \A q \in Statement : [call[q] EXCEPT !.notified = TRUE] \in CallType
      BY <1>a DEF CallType
    <3>2. [call[p] EXCEPT !.at = "remove", !.held = None] \in CallType
      BY <1>a DEF CallType, Label
    <3> QED
      BY <1>16, <1>a, <3>1, <3>2 DEF Notify
  <2>3. call'[p].at = "remove" /\ call[p].at = "notify"
    BY <1>16, <1>a DEF Notify, CallType
  <2>4. \A q \in Statement : LocalsOK(call'[q])
    BY <1>a, <2>1, <2>3 DEF LocalsOK, Before, Holding
  <2>5. UNCHANGED <<table, value, mutex, generation, cached>>
    BY <1>16 DEF Notify, flightVars, cacheVars
  <2>6. ASSUME NEW r \in LoadState, mutex'[r] # None
        PROVE  call'[mutex'[r]].at = "checking" /\ call'[mutex'[r]].held = r
    <3>1. mutex'[r] = mutex[r] /\ mutex[r] \in Statement
      BY <1>a, <2>5, <2>6
    <3>2. call[mutex[r]].at = "checking" /\ call[mutex[r]].held = r
      BY <2>5, <2>6 DEF Shape
    <3> QED
      BY <2>1, <2>3, <3>1, <3>2
  <2> QED
    BY <2>2, <2>4, <2>5, <2>6 DEF Shape
<1>17. ASSUME NEW p \in Statement, Remove(p) PROVE Shape'
  <2>1. Moves(p)
    BY <1>17, <1>e DEF Remove, Label, Before, Holding
  <2>2. table' \in [Generation -> LoadState \cup {None}]
    BY <1>17, <1>a DEF Remove
  <2>3. value' = value /\ mutex' = mutex /\ UNCHANGED cacheVars /\ call[p].at = "remove"
    BY <1>17 DEF Remove
  <2> QED
    BY <2>1, <2>2, <2>3, ShapeKept DEF Shape, cacheVars
<1>18. ASSUME NEW p \in Statement, Store(p) PROVE Shape'
  <2>1. Moves(p) /\ call[p].at = "store" /\ UNCHANGED <<flightVars, generation>>
    BY <1>18, <1>d DEF Store
  <2>2. cached' \subseteq Generation
    BY <1>18, <1>b DEF Store, Shape
  <2> QED
    BY <2>1, <2>2, ShapeKept DEF Shape, flightVars
<1>19. CASE Bump
  <2>1. generation' \in Generation
    BY <1>19, SingleFlightAssumption DEF Bump, Shape, Generation
  <2> QED
    BY <1>19, <2>1 DEF Bump, Shape, flightVars
<1>20. ASSUME NEW g \in Generation, Lose(g) PROVE Shape'
  BY <1>20 DEF Lose, Shape, flightVars
<1>21. CASE UNCHANGED vars
  BY <1>21 DEF vars, Shape
<1> QED
  BY <1>1, <1>2, <1>3, <1>4, <1>5, <1>6, <1>7, <1>8, <1>9, <1>10, <1>11, <1>12, <1>13, <1>14,
     <1>15, <1>16, <1>17, <1>18, <1>19, <1>20, <1>21 DEF Next, Step

-----------------------------------------------------------------------------
(* Leaders.                                                                *)

\* Nothing fails that makes a statement leave its load behind.
Diligent == Faults \cap {"generation", "cancel"} = {}

\* What a step that adds no load, of statement p, keeps.
LEMMA LeadKept ==
  ASSUME Shape, Shape', LeadInv, NEW p \in Statement,
         \A q \in Statement \ {p} :
           /\ call'[q].at = call[q].at /\ call'[q].leads = call[q].leads
           /\ call'[q].digest = call[q].digest /\ call'[q].target = call[q].target,
         generation' = generation,
         \A g \in Generation : table'[g] \in {table[g], None},
         LeadOK(call[p])',
         \/ call[p].leads = None
         \/ call'[p].leads = call[p].leads
         \/ table'[generation] # call[p].leads
  PROVE  LeadInv'
<1>a. /\ generation \in Generation /\ \A q \in Statement : call'[q].target \in Generation
      /\ \A q \in Statement : LeadOK(call[q])
  BY DEF Shape, CallType, LeadInv
<1>1. ASSUME NEW q \in Statement PROVE LeadOK(call[q])'
  <2>1. CASE q = p
    BY <2>1
  <2>2. CASE q # p
    BY <1>a, <2>2 DEF LeadOK
  <2> QED
    BY <2>1, <2>2
<1>2. \A g \in Generation : table'[g] # None => g <= generation'
  BY DEF LeadInv
<1>3. ASSUME table'[generation'] # None
      PROVE  \E q \in Statement : call'[q].leads = table'[generation']
  <2>1. table'[generation] = table[generation] /\ table[generation] # None
    BY <1>a, <1>3
  <2>2. PICK q \in Statement : call[q].leads = table[generation]
    BY <2>1 DEF LeadInv, CurrentEntryHasLeader, HasLeader
  <2>3. call'[q].leads = call[q].leads
    BY <2>1, <2>2
  <2> QED
    BY <2>1, <2>2, <2>3
<1> QED
  BY <1>1, <1>2, <1>3 DEF LeadInv, CurrentEntryHasLeader, HasLeader

\* Every step keeps the leaders.
LEMMA LeadStep == Diligent /\ Shape /\ Shape' /\ LeadInv /\ [Next]_vars => LeadInv'
<1> SUFFICES ASSUME Diligent, Shape, Shape', LeadInv, [Next]_vars PROVE LeadInv'
  OBVIOUS
<1> USE DEF At
<1>a. /\ call \in [Statement -> CallType] /\ \A p \in Statement : call[p] \in CallType
      /\ generation \in Generation /\ generation \in Nat
      /\ table \in [Generation -> LoadState \cup {None}]
  BY Numbers DEF Shape
<1>b. \A p \in Statement :
        /\ LeadOK(call[p])
        /\ call[p].digest \in Generation /\ call[p].target \in Generation
        /\ call[p].digest \in Nat /\ call[p].target \in Nat
  BY <1>a, Numbers DEF CallType, LeadInv
<1>c. LeadOK(Idle)'
  BY Numbers, <1>a DEF LeadOK, Idle, Shape
\* A move in which p neither learns a generation nor touches the table.
<1>d. ASSUME NEW p \in Statement, UNCHANGED <<table, generation>>,
             \A q \in Statement \ {p} :
               /\ call'[q].at = call[q].at /\ call'[q].leads = call[q].leads
               /\ call'[q].digest = call[q].digest /\ call'[q].target = call[q].target,
             call'[p].leads = call[p].leads, call'[p].digest = call[p].digest,
             call'[p].target = call[p].target,
             call[p].leads # None => call'[p].at \notin Before,
             call'[p].at \in {"find", "mark", "notify", "remove", "store"} =>
               call[p].at \in {"find", "mark", "notify", "remove"},
             call'[p].at = "store" => table[call[p].target] = None
      PROVE  LeadInv'
  <2>1. LeadOK(call[p])'
    BY <1>b, <1>d DEF LeadOK
  <2> QED
    BY <1>d, <2>1, LeadKept
\* A statement that leads nothing the table has under the current generation ends.
<1>e. ASSUME NEW p \in Statement, Finish(p), UNCHANGED <<table, generation>>,
             call[p].leads = None \/ table[generation] # call[p].leads
      PROVE  LeadInv'
  <2>1. call'[p] = Idle /\ \A q \in Statement \ {p} : call'[q] = call[q]
    BY <1>a, <1>e DEF Finish
  <2>2. LeadOK(call[p])'
    BY <1>c, <2>1 DEF LeadOK
  <2> QED
    BY <1>e, <2>1, <2>2, LeadKept
<1>f. ASSUME NEW p \in Statement, call[p].at \in Before PROVE call[p].leads = None
  BY <1>b, <1>f DEF LeadOK
<1>1. ASSUME NEW p \in Statement, Begin(p) \/ Subscribe(p) \/ Timeout(p) \/ CheckLock(p) \/ CheckRead(p)
      PROVE  LeadInv'
  <2>1. call[p].leads = None
    BY <1>1, <1>f DEF Begin, Subscribe, Timeout, CheckLock, CheckRead, Before
  <2>2. PICK label \in Before : Goto(p, label)
    BY <1>1 DEF Begin, Subscribe, Timeout, CheckLock, CheckRead, Before
  <2>3. /\ \A q \in Statement \ {p} : call'[q] = call[q]
        /\ call'[p].at = label /\ call'[p].leads = call[p].leads
        /\ call'[p].digest = call[p].digest /\ call'[p].target = call[p].target
    BY <1>a, <2>2 DEF Goto, CallType
  <2>4. UNCHANGED <<table, generation>>
    BY <1>1 DEF Begin, Subscribe, Timeout, CheckLock, CheckRead, flightVars, cacheVars
  <2> QED
    BY <1>d, <2>1, <2>3, <2>4 DEF Before
<1>2. ASSUME NEW p \in Statement, Resolve(p) PROVE LeadInv'
  <2>1. call[p].leads = None
    BY <1>2, <1>f DEF Resolve, Before
  <2>2. /\ \A q \in Statement \ {p} : call'[q] = call[q]
        /\ call'[p].leads = call[p].leads
        /\ call'[p].digest \in {generation, call[p].digest} /\ call'[p].target = generation
    BY <1>2, <1>a DEF Resolve, CallType
  <2>3. UNCHANGED <<table, generation>>
    BY <1>2 DEF Resolve, flightVars, cacheVars
  <2>4. LeadOK(call[p])'
    BY <1>a, <1>b, <2>1, <2>2, <2>3 DEF LeadOK
  <2> QED
    BY <2>1, <2>2, <2>3, <2>4, LeadKept
<1>3. ASSUME NEW p \in Statement, Lookup(p) PROVE LeadInv'
  <2>1. call[p].leads = None /\ UNCHANGED <<table, generation>>
    BY <1>3, <1>f DEF Lookup, Before, flightVars, cacheVars
  <2>2. CASE Finish(p)
    BY <1>e, <2>1, <2>2
  <2>3. CASE Goto(p, "elect")
    <3>1. /\ \A q \in Statement \ {p} : call'[q] = call[q]
          /\ call'[p].at = "elect" /\ call'[p].leads = call[p].leads
          /\ call'[p].digest = call[p].digest /\ call'[p].target = call[p].target
      BY <1>a, <2>3 DEF Goto, CallType
    <3> QED
      BY <1>d, <2>1, <3>1
  <2> QED
    BY <1>3, <2>2, <2>3 DEF Lookup
<1>4. ASSUME NEW p \in Statement, BecomeFollower(p) \/ Wake(p) \/ Query(p) PROVE LeadInv'
  <2>1. /\ \A q \in Statement \ {p} : call'[q] = call[q]
        /\ call'[p].at \in {"query", "check", "reresolve", "resolveAfter"}
        /\ call'[p].leads = call[p].leads
        /\ call'[p].digest = call[p].digest /\ call'[p].target = call[p].target
    <3>1. CASE BecomeFollower(p)
      BY <1>a, <3>1 DEF BecomeFollower, CallType
    <3>2. CASE Wake(p)
      BY <1>a, <3>2 DEF Wake, CallType
    <3>3. CASE Query(p)
      BY <1>a, <3>3 DEF Query, CallType
    <3> QED
      BY <1>4, <3>1, <3>2, <3>3
  <2>2. call[p].leads # None => call'[p].at \notin Before
    <3>1. CASE BecomeFollower(p) \/ Wake(p)
      BY <1>f, <3>1 DEF BecomeFollower, Wake, Before
    <3>2. CASE Query(p)
      BY <1>a, <3>2 DEF Query, Before, CallType
    <3> QED
      BY <1>4, <3>1, <3>2
  <2>3. UNCHANGED <<table, generation>>
    BY <1>4 DEF BecomeFollower, Wake, Query, flightVars, cacheVars
  <2> QED
    BY <1>d, <2>1, <2>2, <2>3
<1>5. ASSUME NEW p \in Statement, BecomeLeader(p) PROVE LeadInv'
  <2>1. PICK s \in LoadState :
          /\ Unallocated(s)
          /\ table' = [table EXCEPT ![call[p].digest] = s]
          /\ call' = [call EXCEPT ![p].at = "query", ![p].held = None, ![p].leads = s]
    BY <1>5 DEF BecomeLeader
  <2>2. /\ \A q \in Statement \ {p} : call'[q] = call[q]
        /\ call'[p].at = "query" /\ call'[p].leads = s
        /\ call'[p].digest = call[p].digest /\ call'[p].target = call[p].target
    BY <1>a, <2>1 DEF CallType
  <2>3. generation' = generation
    BY <1>5 DEF BecomeLeader, cacheVars
  <2>4. /\ table'[call[p].digest] = s
        /\ \A g \in Generation : g # call[p].digest => table'[g] = table[g]
    BY <1>a, <1>b, <2>1
  <2>5. ASSUME NEW q \in Statement PROVE LeadOK(call[q])'
    <3>1. CASE q = p
      <4>1. \A g \in Generation : table'[g] = s => g = call[p].digest
        BY <2>1, <2>4 DEF Unallocated
      <4> QED
        BY <1>b, <2>2, <2>3, <3>1, <4>1 DEF LeadOK, Before
    <3>2. CASE q # p
      <4>1. call[q].leads # s
        BY <2>1 DEF Unallocated
      <4>2. \A g \in Generation : table'[g] = call[q].leads => table[g] = call[q].leads
        BY <2>4, <4>1
      <4> QED
        BY <1>b, <2>2, <2>3, <3>2, <4>2 DEF LeadOK
    <3> QED
      BY <3>1, <3>2
  <2>6. \A g \in Generation : table'[g] # None => g <= generation'
    BY <1>b, <2>3, <2>4 DEF LeadInv, LeadOK
  <2>7. ASSUME table'[generation'] # None
        PROVE  \E q \in Statement : call'[q].leads = table'[generation']
    <3>1. CASE generation = call[p].digest
      BY <2>2, <2>3, <2>4, <3>1
    <3>2. CASE generation # call[p].digest
      <4>1. table'[generation] = table[generation] /\ table[generation] # None
        BY <1>a, <2>3, <2>4, <2>7, <3>2
      <4>2. PICK q \in Statement : call[q].leads = table[generation]
        BY <4>1 DEF LeadInv, CurrentEntryHasLeader, HasLeader
      <4>3. call[p].leads = None
        BY <1>5, <1>f DEF BecomeLeader, Before
      <4>4. q # p
        BY <4>1, <4>2, <4>3
      <4> QED
        BY <2>2, <2>3, <4>1, <4>2, <4>4
    <3> QED
      BY <3>1, <3>2
  <2> QED
    BY <2>5, <2>6, <2>7 DEF LeadInv, CurrentEntryHasLeader, HasLeader
<1>6. ASSUME NEW p \in Statement, ResolveAfter(p) PROVE LeadInv'
  <2>1. /\ \A q \in Statement \ {p} : call'[q] = call[q]
        /\ call'[p].at = "find" /\ call'[p].leads = call[p].leads
        /\ call'[p].digest = call[p].digest /\ call'[p].target = generation
    BY <1>6, <1>a DEF ResolveAfter, CallType
  <2>2. UNCHANGED <<table, generation>>
    BY <1>6 DEF ResolveAfter, flightVars, cacheVars
  <2>3. LeadOK(call[p])'
    BY <1>a, <1>b, <2>1, <2>2 DEF LeadOK, Before
  <2> QED
    BY <2>1, <2>2, <2>3, LeadKept
<1>7. ASSUME NEW p \in Statement, Find(p) PROVE LeadInv'
  <2>1. /\ \A q \in Statement \ {p} : call'[q] = call[q]
        /\ call'[p].at = (IF table[call[p].target] = None THEN "store" ELSE "mark")
        /\ call'[p].leads = call[p].leads
        /\ call'[p].digest = call[p].digest /\ call'[p].target = call[p].target
    BY <1>7, <1>a DEF Find, CallType
  <2>2. UNCHANGED <<table, generation>> /\ call[p].at = "find"
    BY <1>7 DEF Find, flightVars, cacheVars
  <2>3. /\ call'[p].at \in {"store", "mark"}
        /\ call'[p].at = "store" => table[call[p].target] = None
    BY <2>1
  <2> QED
    BY <1>d, <2>1, <2>2, <2>3 DEF Before
<1>8. ASSUME NEW p \in Statement, Mark(p) PROVE LeadInv'
  <2>1. /\ \A q \in Statement \ {p} : call'[q] = call[q]
        /\ call'[p].at = "notify" /\ call'[p].leads = call[p].leads
        /\ call'[p].digest = call[p].digest /\ call'[p].target = call[p].target
    BY <1>8, <1>a DEF Mark, Goto, CallType
  <2>2. UNCHANGED <<table, generation>> /\ call[p].at = "mark"
    BY <1>8 DEF Mark, cacheVars
  <2> QED
    BY <1>d, <2>1, <2>2 DEF Before
<1>9. ASSUME NEW p \in Statement, Notify(p) PROVE LeadInv'
  <2>1. \A q \in Statement \ {p} :
          /\ call'[q].at = call[q].at /\ call'[q].leads = call[q].leads
          /\ call'[q].digest = call[q].digest /\ call'[q].target = call[q].target
    BY <1>9, <1>a DEF Notify, CallType
  <2>2. /\ call'[p].at = "remove" /\ call'[p].leads = call[p].leads
        /\ call'[p].digest = call[p].digest /\ call'[p].target = call[p].target
    BY <1>9, <1>a DEF Notify, CallType
  <2>3. UNCHANGED <<table, generation>> /\ call[p].at = "notify"
    BY <1>9 DEF Notify, flightVars, cacheVars
  <2> QED
    BY <1>d, <2>1, <2>2, <2>3 DEF Before
<1>10. ASSUME NEW p \in Statement, Remove(p) PROVE LeadInv'
  <2>1. /\ \A q \in Statement \ {p} : call'[q] = call[q]
        /\ call'[p].at = "store" /\ call'[p].leads = call[p].leads
        /\ call'[p].digest = call[p].digest /\ call'[p].target = call[p].target
    BY <1>10, <1>a DEF Remove, Goto, CallType
  <2>2. /\ table'[call[p].target] = None /\ generation' = generation /\ call[p].at = "remove"
        /\ \A g \in Generation : table'[g] \in {table[g], None}
    BY <1>10, <1>a, <1>b DEF Remove, cacheVars
  <2>3. LeadOK(call[p])'
    BY <1>b, <2>1, <2>2 DEF LeadOK, Before
  <2> QED
    BY <2>1, <2>2, <2>3, LeadKept
<1>11. ASSUME NEW p \in Statement, Store(p) PROVE LeadInv'
  <2>1. Finish(p) /\ UNCHANGED <<table, generation>> /\ call[p].at = "store"
    BY <1>11 DEF Store, flightVars
  <2>2. call[p].leads = None \/ table[generation] # call[p].leads
    <3>1. SUFFICES ASSUME call[p].leads # None, table[generation] = call[p].leads PROVE FALSE
      OBVIOUS
    <3>2. generation = call[p].digest /\ table[call[p].target] # call[p].leads
      BY <1>a, <1>b, <2>1, <3>1 DEF LeadOK
    <3>3. call[p].digest <= call[p].target /\ call[p].target <= generation
      BY <1>b, <2>1, <3>1 DEF LeadOK
    <3> QED
      BY <1>a, <1>b, <3>1, <3>2, <3>3
  <2> QED
    BY <1>e, <2>1, <2>2
<1>12. CASE Bump
  <2>1. UNCHANGED <<call, table>> /\ generation' = generation + 1 /\ generation' \in Generation
    BY <1>12 DEF Bump, flightVars, Shape
  <2>2. \A p \in Statement : LeadOK(call[p])'
    BY <1>a, <1>b, <2>1 DEF LeadOK
  <2>3. \A g \in Generation : table'[g] # None => g <= generation /\ g <= generation'
    BY <1>a, <2>1, Numbers DEF LeadInv
  <2>4. table'[generation'] = None
    BY <1>a, <2>1, <2>3
  <2> QED
    BY <2>2, <2>3, <2>4 DEF LeadInv, CurrentEntryHasLeader, HasLeader
<1>13. ASSUME UNCHANGED <<call, table, generation>> PROVE LeadInv'
  BY <1>13 DEF LeadInv, LeadOK, CurrentEntryHasLeader, HasLeader
<1>14. ASSUME NEW g \in Generation, Lose(g) PROVE LeadInv'
  BY <1>13, <1>14 DEF Lose, flightVars
<1>15. CASE UNCHANGED vars
  BY <1>13, <1>15 DEF vars
<1>16. \A p \in Statement : ~ResolveFails(p) /\ ~ResolveAfterFails(p) /\ ~Cancel(p)
  BY DEF Diligent, ResolveFails, ResolveAfterFails, Cancel
<1> QED
  BY <1>1, <1>2, <1>3, <1>4, <1>5, <1>6, <1>7, <1>8, <1>9, <1>10, <1>11, <1>12, <1>14, <1>15,
     <1>16 DEF Next, Step

-----------------------------------------------------------------------------
(* The specification.                                                      *)

\* The invariants hold at first.
LEMMA InitShape == Init => Shape
<1> SUFFICES ASSUME Init PROVE Shape
  OBVIOUS
<1>1. /\ call = [p \in Statement |-> Idle] /\ mutex = [s \in LoadState |-> None]
      /\ table = [g \in Generation |-> None] /\ value = [s \in LoadState |-> "loading"]
      /\ generation = 0 /\ cached = {}
  BY DEF Init
<1> QED
  BY <1>1, IdleTyped, Numbers DEF Shape

\* No load is in progress at first.
LEMMA InitLead == Init => LeadInv
<1> SUFFICES ASSUME Init PROVE LeadInv
  OBVIOUS
<1>1. /\ call = [p \in Statement |-> Idle]
      /\ table = [g \in Generation |-> None]
      /\ generation = 0
  BY DEF Init
<1>2. Idle.digest = 0 /\ Idle.target = 0 /\ Idle.leads = None
  BY DEF Idle
<1>3. LeadOK(Idle)
  <2>1. 0 <= generation
    BY <1>1
  <2> QED
    BY <1>2, <2>1 DEF LeadOK
<1>4. \A p \in Statement : LeadOK(call[p])
  BY <1>1, <1>3
<1> QED
  BY <1>1, <1>4, Numbers DEF LeadInv, CurrentEntryHasLeader, HasLeader

\* The shape holds in every reachable state.
THEOREM ShapeHolds == Spec => []Shape
BY InitShape, ShapeStep, PTL DEF Spec

\* Types; a statement loses at most MaxAttempts rounds, and a mutex is held only by
\* a follower looking at its value (singleflight.rs, rbatis_intercept.rs).
THEOREM SingleFlightTyped == Spec => []TypeOK
<1>1. Shape => TypeOK
  BY DEF Shape, TypeOK, LocalsOK, CallType, Holding
<1> QED
  BY <1>1, ShapeHolds, PTL

\* So do the leaders, when nobody fails or goes away without completing its load.
THEOREM LeadHolds == Diligent => (Spec => [](Shape /\ LeadInv))
<1> SUFFICES ASSUME Diligent PROVE Spec => [](Shape /\ LeadInv)
  OBVIOUS
<1>1. Init => Shape /\ LeadInv
  BY InitShape, InitLead
<1>2. Shape /\ LeadInv /\ [Next]_vars => (Shape /\ LeadInv)'
  BY ShapeStep, LeadStep
<1> QED
  BY <1>1, <1>2, PTL DEF Spec

\* Unless a generation is unavailable or a future is dropped, the load that the next
\* statement would wait for has a leader on its way to complete_load
\* (singleflight.rs, rbatis_intercept.rs 372).
THEOREM CurrentLoadHasItsLeader ==
  Faults \cap {"generation", "cancel"} = {} => (Spec => []CurrentEntryHasLeader)
<1> SUFFICES ASSUME Diligent PROVE Spec => []CurrentEntryHasLeader
  BY DEF Diligent
<1>1. Shape /\ LeadInv => CurrentEntryHasLeader
  BY DEF LeadInv
<1> QED
  BY <1>1, LeadHolds, PTL
==============================================================================
