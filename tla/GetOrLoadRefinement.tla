------------------------- MODULE GetOrLoadRefinement -------------------------
(***************************************************************************)
(* GetOrLoad implements CacheContract: every step of the interceptor, the  *)
(* backend or a writer is one step of the contract or leaves what callers  *)
(* see unchanged.                                                          *)
(***************************************************************************)
EXTENDS GetOrLoadProofs

\* The contract's variables, as functions of the interceptor's.
announcedBar == [n \in Namespace |-> Announced(n)]
waitingBar == {r \in Request : pc[r] # "idle"}
answerBar == [r \in Request |-> IF pc[r] = "idle" THEN payload[r] ELSE None]

\* The initial states are initial states of the contract.
LEMMA ContractInit == Init => Contract!Init
<1> SUFFICES ASSUME Init PROVE Contract!Init
  OBVIOUS
<1>1. announcedBar = [n \in Namespace |-> 0]
  BY BoundsAssumption DEF announcedBar, Announced, Init, Epoch, Generation
<1>2. waitingBar = {}
  BY DEF waitingBar, Init
<1>3. answerBar = [r \in Request |-> None]
  BY DEF answerBar, Init
<1> QED
  BY <1>1, <1>2, <1>3 DEF Contract!Init, Init, announcedBar, waitingBar, answerBar

\* What a step of the call of r can change of what callers see.
LEMMA CallSeen ==
  ASSUME TypeOK, TypeOK', NEW r \in Request, OnlyCall(r)
  PROVE  /\ announcedBar' = announcedBar /\ db' = db
         /\ pc[r] # "idle" /\ pc'[r] # "idle" =>
              waitingBar' = waitingBar /\ answerBar' = answerBar
         /\ pc[r] # "idle" /\ pc'[r] = "idle" =>
              /\ r \in waitingBar
              /\ waitingBar' = waitingBar \ {r}
              /\ answerBar' = [answerBar EXCEPT ![r] = payload'[r]]
         /\ pc[r] = "idle" /\ pc'[r] # "idle" =>
              /\ r \notin waitingBar
              /\ waitingBar' = waitingBar \cup {r}
              /\ answerBar' = [answerBar EXCEPT ![r] = None]
<1> USE DEF OnlyCall, announcedBar, waitingBar, answerBar, Announced
<1>1. announcedBar' = announcedBar /\ db' = db
  OBVIOUS
<1>2. ASSUME pc[r] # "idle", pc'[r] # "idle"
      PROVE  waitingBar' = waitingBar /\ answerBar' = answerBar
  BY <1>2
<1>3. ASSUME pc[r] # "idle", pc'[r] = "idle"
      PROVE  /\ r \in waitingBar
             /\ waitingBar' = waitingBar \ {r}
             /\ answerBar' = [answerBar EXCEPT ![r] = payload'[r]]
  BY <1>3
<1>4. ASSUME pc[r] = "idle", pc'[r] # "idle"
      PROVE  /\ r \notin waitingBar
             /\ waitingBar' = waitingBar \cup {r}
             /\ answerBar' = [answerBar EXCEPT ![r] = None]
  BY <1>4
<1> QED
  BY <1>1, <1>2, <1>3, <1>4

\* Beginning a call asks; returning from it answers, with a version no older
\* than what was announced, or gives up; anything between is not seen.
LEMMA CallRefines ==
  ASSUME Inv, Inv', NEW r \in Request,
         (\E k \in Key : Begin(r, k)) \/ GetOrLoadStep(r) \/ Abandon(r)
  PROVE  [Contract!Next]_(Contract!vars)
<1> USE DEF Goto, callVars, flightVars, dataVars
<1>1. TypeOK /\ TypeOK' /\ OnlyCall(r)
  BY CallStep DEF Inv
<1>2. ASSUME NEW k \in Key, Begin(r, k) PROVE Contract!Ask(r, k)
  <2>1. pc[r] = "idle" /\ pc'[r] # "idle"
    BY <1>1, <1>2 DEF Begin, TypeOK
  <2>2. NamespaceOf[k] \in Namespace
    BY NamespaceAssumption
  <2>3. floor' = [floor EXCEPT ![r] = announcedBar[NamespaceOf[k]]]
    BY <1>2, <2>2 DEF Begin, announcedBar
  <2> QED
    BY <1>1, <1>2, <2>1, <2>3, CallSeen DEF Contract!Ask, Begin, announcedBar, waitingBar, answerBar
<1>3. ASSUME GetOrLoadStep(r) \/ Abandon(r)
      PROVE  [Contract!Next]_(Contract!vars)
  <2>1. pc[r] # "idle" /\ want' = want
    BY <1>1, <1>3 DEF GetOrLoadStep, Abandon, ReadGeneration, GenerationFails, LoadDirect,
      Lookup, Join, Lock, Recheck, Load, Put, Unlock, ReleaseFlight, Leave
  <2>2. floor' = floor
    BY <1>3 DEF GetOrLoadStep, Abandon, ReadGeneration, GenerationFails, LoadDirect,
      Lookup, Join, Lock, Recheck, Load, Put, Unlock, ReleaseFlight, Leave
  <2>3. CASE pc'[r] # "idle"
    BY <1>1, <2>1, <2>2, <2>3, CallSeen DEF Contract!vars, announcedBar, waitingBar, answerBar
  <2>4. CASE pc'[r] = "idle" /\ payload'[r] # None
    <3>1. PICK v \in Version :
            v = payload'[r] /\ floor[r] <= v /\ v <= db[NamespaceOf[want[r]]]
      <4>1. CallOK(r)'
        BY DEF Inv, DataInv, CallInv
      <4>2. payload'[r] \in Version
        BY <1>1, <2>4 DEF TypeOK
      <4> QED
        BY <1>1, <2>1, <2>2, <2>4, <4>1, <4>2 DEF CallOK, Home, OnlyCall
    <3>2. Contract!Answer(r, v)
      BY <1>1, <2>1, <2>2, <2>4, <3>1, CallSeen
         DEF Contract!Answer, announcedBar, waitingBar, answerBar
    <3>3. v \in Contract!Version
      BY <3>1 DEF Contract!Version, Version
    <3> QED
      BY <3>2, <3>3 DEF Contract!Next
  <2>5. CASE pc'[r] = "idle" /\ payload'[r] = None
    <3>1. answerBar' = answerBar
      <4>1. answerBar' = [answerBar EXCEPT ![r] = None]
        BY <1>1, <2>1, <2>5, CallSeen
      <4>2. answerBar[r] = None
        BY <2>1 DEF answerBar
      <4> QED
        BY <4>1, <4>2 DEF answerBar
    <3>2. Contract!GiveUp(r)
      BY <1>1, <2>1, <2>2, <2>5, <3>1, CallSeen
         DEF Contract!GiveUp, announcedBar, waitingBar, answerBar
    <3> QED
      BY <3>2 DEF Contract!Next
  <2> QED
    BY <2>3, <2>4, <2>5
<1> QED
  BY <1>2, <1>3 DEF Contract!Next

\* A commit is the contract's; a bump announces what its answer promises, if
\* that is news; a bump that fails, and a lost entry, are not seen.
LEMMA WriterRefines ==
  ASSUME Inv, Inv',
         \/ \E w \in Writer, n \in Namespace : Commit(w, n)
         \/ \E w \in Writer : Invalidate(w) \/ InvalidateFails(w)
         \/ \E d \in Digest : Lose(d)
         \/ UNCHANGED vars
  PROVE  [Contract!Next]_(Contract!vars)
<1> USE DEF callVars, flightVars
<1>a. TypeOK /\ TypeOK' /\ DataInv
  BY DEF Inv
<1>1. ASSUME NEW w \in Writer, NEW n \in Namespace, Commit(w, n)
      PROVE  Contract!Commit(n)
  BY <1>1 DEF Commit, Contract!Commit, Announced
<1>2. ASSUME NEW w \in Writer, Invalidate(w)
      PROVE  [Contract!Next]_(Contract!vars)
  <2>1. PICK n \in Namespace, g \in Generation, v \in Version :
          /\ g = generation[n] /\ g + 1 \in Generation
          /\ generation' = [generation EXCEPT ![n] = g + 1]
          /\ announced' = [announced EXCEPT ![<<n, g + 1>>] = v]
    <3> DEFINE n == dml[w].namespace
               g == generation[n]
    <3>1. n \in Namespace /\ g \in Generation /\ dml[w].version \in Version
      BY <1>2, <1>a DEF Invalidate, TypeOK
    <3>2. generation' = [generation EXCEPT ![n] = g + 1] /\ g + 1 \in Generation
      BY <1>2, <3>1, BoundsAssumption DEF Invalidate, Generation
    <3>3. Announced(n) \in Version /\ Larger(Announced(n), dml[w].version) \in Version
      BY <1>a, <3>1 DEF Announced, Larger, TypeOK, Epoch
    <3>4. \E v \in Version : announced' = [announced EXCEPT ![<<n, g + 1>>] = v]
      BY <1>2, <3>3 DEF Invalidate
    <3>5. g = generation[n]
      OBVIOUS
    <3> HIDE DEF n, g
    <3> QED
      BY <3>1, <3>2, <3>4, <3>5
  <2>2. UNCHANGED <<pc, want, floor, payload, db>>
    BY <1>2 DEF Invalidate
  <2>3. waitingBar' = waitingBar /\ answerBar' = answerBar
    BY <2>2 DEF waitingBar, answerBar
  <2>4. Announced(n)' = v
    BY <1>a, <2>1 DEF Announced, TypeOK, Epoch
  <2>5. \A m \in Namespace \ {n} : Announced(m)' = Announced(m)
    BY <1>a, <2>1 DEF Announced, TypeOK, Epoch
  <2>6. Announced(n) <= v /\ v <= db[n] /\ Announced(n) \in Version
    <3>1. Grows /\ AnnouncedCommitted'
      BY <1>2, <1>a, InvalidateStep
    <3>2. Announced(n) <= Announced(n)'
      BY <3>1 DEF Grows
    <3>3. announced'[<<n, g + 1>>] <= db[n]
      BY <2>1, <2>2, <3>1 DEF AnnouncedCommitted
    <3>4. announced'[<<n, g + 1>>] = v
      BY <1>a, <2>1 DEF TypeOK, Epoch
    <3> QED
      BY <1>a, <2>1, <2>4, <3>2, <3>3, <3>4 DEF TypeOK, Announced, Epoch
  <2>7. announcedBar' = [announcedBar EXCEPT ![n] = v]
    BY <2>4, <2>5 DEF announcedBar
  <2>8. CASE v = Announced(n)
    <3>1. announcedBar' = announcedBar
      BY <2>7, <2>8 DEF announcedBar
    <3> QED
      BY <2>2, <2>3, <3>1 DEF Contract!vars, announcedBar, waitingBar, answerBar
  <2>9. CASE v # Announced(n)
    <3>1. announcedBar[n] < v
      BY <2>6, <2>9 DEF Version, announcedBar
    <3>2. Contract!Announce(n, v)
      BY <2>2, <2>3, <2>6, <2>7, <3>1 DEF Contract!Announce, announcedBar, waitingBar, answerBar
    <3>3. v \in Contract!Version
      BY DEF Contract!Version, Version
    <3> QED
      BY <3>2, <3>3 DEF Contract!Next
  <2> QED
    BY <2>8, <2>9
<1>3. ASSUME \/ \E w \in Writer : InvalidateFails(w)
             \/ \E d \in Digest : Lose(d)
             \/ UNCHANGED vars
      PROVE  UNCHANGED Contract!vars
  <2>1. UNCHANGED <<pc, want, floor, payload, db, generation, announced>>
    BY <1>3 DEF InvalidateFails, Lose, vars
  <2> QED
    BY <2>1 DEF Contract!vars, Announced
<1> QED
  BY <1>1, <1>2, <1>3 DEF Contract!Next

\* get_or_load and invalidate_after_commit implement the contract.
THEOREM ImplementsContract == Spec => ContractSpec
<1>1. Inv /\ Inv' /\ [Next]_vars => [Contract!Next]_(Contract!vars)
  BY CallRefines, WriterRefines DEF Next
<1> QED
  BY <1>1, ContractInit, Invariance, PTL DEF Spec, ContractSpec, Contract!Spec
==============================================================================
