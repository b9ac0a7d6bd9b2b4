--------------------------- MODULE GetOrLoadProofs ---------------------------
(***************************************************************************)
(* Proofs about GetOrLoad, for any sets of requests, writers and keys, any *)
(* set of faults and any bounds.                                           *)
(***************************************************************************)
EXTENDS GetOrLoad, TLAPS

-----------------------------------------------------------------------------
(* The inductive invariant.                                                *)

\* From Join to release_flight a request holds the flight of its digest; the
\* one that has passed Lock owns its mutex; the others hold no flight.
InFlight(r) == pc[r] \in {"lock", "recheck", "load", "put", "unlock", "release"}
HoldsFlight ==
  \A r \in Request :
    /\ InFlight(r) => flight[r] \in Flight /\ flights[DigestOf(r)] = flight[r]
    /\ pc[r] = "leave" => flight[r] \in Flight
    /\ ~InFlight(r) /\ pc[r] # "leave" => flight[r] = None
OwnsMutex == \A r \in Request : Loading(r) => owner[flight[r]] = r
FlightInv == HoldsFlight /\ OwnsMutex

\* What is announced, or will be, has been committed.
AnnouncedCommitted ==
  /\ \A n \in Namespace, g \in Generation : announced[<<n, g>>] <= db[n]
  /\ \A w \in Writer : dml[w] # None => dml[w].version <= db[dml[w].namespace]

\* An entry belongs to a generation that has begun, and carries whatever was
\* announced when that generation began.
StoreInv ==
  \A k \in Key, g \in Generation :
    store[<<k, g>>] # None =>
      /\ g <= generation[NamespaceOf[k]]
      /\ store[<<k, g>>].generation = g
      /\ announced[<<NamespaceOf[k], g>>] <= store[<<k, g>>].version
      /\ store[<<k, g>>].version <= db[NamespaceOf[k]]

\* A request with a key reads and writes under a generation at which what it
\* was promised had been announced, and what it holds keeps that promise.
Keyed(r) == InFlight(r) \/ pc[r] \in {"lookup", "join", "leave"}
CallOK(r) ==
  /\ floor[r] <= Announced(Home(r))
  /\ Keyed(r) => /\ gen[r] <= generation[Home(r)]
                 /\ floor[r] <= announced[<<Home(r), gen[r]>>]
  /\ payload[r] # None => floor[r] <= payload[r] /\ payload[r] <= db[Home(r)]
  /\ pc[r] = "put" => announced[<<Home(r), gen[r]>>] <= payload[r]
CallInv == \A r \in Request : CallOK(r)

DataInv == AnnouncedCommitted /\ StoreInv /\ CallInv

Inv == TypeOK /\ FlightInv /\ DataInv

-----------------------------------------------------------------------------
(* Types.                                                                  *)

\* The initial state is well typed.
LEMMA TypeInit == Init => TypeOK
<1> SUFFICES ASSUME Init PROVE TypeOK
  OBVIOUS
<1>1. 0 \in Version /\ 0 \in Generation
  BY BoundsAssumption DEF Version, Generation
<1> QED
  BY <1>1 DEF Init, TypeOK, Label

\* Every step preserves the types, whatever the sets and the faults.
LEMMA TypeStep == TypeOK /\ [Next]_vars => TypeOK'
<1> SUFFICES ASSUME TypeOK, [Next]_vars PROVE TypeOK'
  OBVIOUS
<1> USE DEF TypeOK, Epoch, Label, Goto, callVars, flightVars, dataVars
<1>a. Version \subseteq Nat /\ Generation \subseteq Nat /\ 0 \in Version /\ 0 \in Generation
  BY BoundsAssumption DEF Version, Generation
<1>b. \A r \in Request : Home(r) \in Namespace /\ DigestOf(r) \in Digest
  BY NamespaceAssumption DEF Home, DigestOf, Digest
<1>c. \A d \in Digest : Cached(d) \subseteq Version \cup {None}
  BY DEF Cached, IsFresh, Envelope
<1>1. ASSUME NEW r \in Request, NEW k \in Key, Begin(r, k) PROVE TypeOK'
  <2>1. NamespaceOf[k] \in Namespace
    BY NamespaceAssumption
  <2>2. Announced(NamespaceOf[k]) \in Version
    BY <2>1 DEF Announced
  <2> QED
    BY <1>1, <1>a, <2>2 DEF Begin
<1>2. ASSUME NEW r \in Request, ReadGeneration(r) PROVE TypeOK'
  BY <1>2, <1>b DEF ReadGeneration
<1>3. ASSUME NEW r \in Request, GenerationFails(r) PROVE TypeOK'
  BY <1>3 DEF GenerationFails
<1>4. ASSUME NEW r \in Request, LoadDirect(r) PROVE TypeOK'
  BY <1>4, <1>b DEF LoadDirect
<1>5. ASSUME NEW r \in Request, Lookup(r) PROVE TypeOK'
  BY <1>5, <1>b, <1>c DEF Lookup
<1>6. ASSUME NEW r \in Request, Join(r) PROVE TypeOK'
  <2>1. PICK m \in Flight \cup {None} :
          /\ flight' = [flight EXCEPT ![r] = m]
          /\ flights' \in {flights, [flights EXCEPT ![DigestOf(r)] = m]}
    BY <1>6, <1>b DEF Join
  <2>2. flight' \in [Request -> Flight \cup {None}] /\ flights' \in [Digest -> Flight \cup {None}]
    BY <1>b, <2>1
  <2>3. pc' = [pc EXCEPT ![r] = "lock"] /\ UNCHANGED <<callVars, payload, owner, dataVars>>
    BY <1>6 DEF Join
  <2> QED
    BY <2>2, <2>3
<1>7. ASSUME NEW r \in Request, Lock(r) PROVE TypeOK'
  BY <1>7 DEF Lock
<1>8. ASSUME NEW r \in Request, Recheck(r) PROVE TypeOK'
  BY <1>8, <1>b, <1>c DEF Recheck
<1>9. ASSUME NEW r \in Request, Load(r) PROVE TypeOK'
  BY <1>9, <1>a, <1>b, NoneAssumption DEF Load
<1>10. ASSUME NEW r \in Request, Put(r) PROVE TypeOK'
  <2>1. CASE UNCHANGED store
    BY <1>10, <2>1 DEF Put
  <2>2. CASE store' = [store EXCEPT ![DigestOf(r)] =
                        [generation |-> gen[r], version |-> payload[r]]]
    BY <1>10, <1>b, <2>2 DEF Put, Envelope
  <2> QED
    BY <1>10, <2>1, <2>2 DEF Put
<1>11. ASSUME NEW r \in Request, Unlock(r) PROVE TypeOK'
  BY <1>11 DEF Unlock
<1>12. ASSUME NEW r \in Request, ReleaseFlight(r) PROVE TypeOK'
  BY <1>12 DEF ReleaseFlight
<1>13. ASSUME NEW r \in Request, Leave(r) PROVE TypeOK'
  BY <1>13 DEF Leave
<1>14. ASSUME NEW r \in Request, Abandon(r) PROVE TypeOK'
  BY <1>14 DEF Abandon
<1>15. ASSUME NEW w \in Writer, NEW n \in Namespace, Commit(w, n) PROVE TypeOK'
  <2>1. db[n] + 1 \in Version
    BY <1>15, BoundsAssumption DEF Commit, Version
  <2> QED
    BY <1>15, <2>1 DEF Commit
<1>16. ASSUME NEW w \in Writer, Invalidate(w) PROVE TypeOK'
  <2> DEFINE n == dml[w].namespace
             g == generation[n]
  <2>1. n \in Namespace /\ dml[w].version \in Version /\ g \in Generation
    BY <1>16 DEF Invalidate
  <2>2. g + 1 \in Generation
    BY <1>16, <2>1, BoundsAssumption DEF Invalidate, Generation
  <2>3. announced[<<n, g>>] \in Version /\ Larger(announced[<<n, g>>], dml[w].version) \in Version
    BY <2>1 DEF Larger
  <2>4. announced' \in [Epoch -> Version]
    <3> HIDE DEF n, g
    <3>1. \E v \in Version : announced' = [announced EXCEPT ![<<n, g + 1>>] = v]
      BY <1>16, <2>3 DEF Invalidate, Announced, n, g
    <3> QED
      BY <2>1, <2>2, <3>1
  <2> QED
    BY <1>16, <2>1, <2>2, <2>4 DEF Invalidate
<1>17. ASSUME NEW w \in Writer, InvalidateFails(w) PROVE TypeOK'
  BY <1>17 DEF InvalidateFails
<1>18. ASSUME NEW d \in Digest, Lose(d) PROVE TypeOK'
  BY <1>18 DEF Lose
<1>19. CASE UNCHANGED vars
  BY <1>19 DEF vars
<1> QED
  BY <1>1, <1>2, <1>3, <1>4, <1>5, <1>6, <1>7, <1>8, <1>9, <1>10, <1>11, <1>12, <1>13, <1>14, <1>15, <1>16, <1>17, <1>18, <1>19 DEF Next, GetOrLoadStep

-----------------------------------------------------------------------------
(* The flight table.                                                       *)

\* No flight is held, or in the table, at first.
LEMMA FlightInit == Init => FlightInv
  BY DEF Init, FlightInv, HoldsFlight, OwnsMutex, InFlight, Loading

\* Every step keeps a request's flight in the table while it uses it, and the
\* mutex with the request that locked it.
LEMMA FlightStep == TypeOK /\ FlightInv /\ [Next]_vars => FlightInv'
<1> SUFFICES ASSUME TypeOK, FlightInv, [Next]_vars PROVE FlightInv'
  OBVIOUS
<1> USE DEF FlightInv, HoldsFlight, OwnsMutex, InFlight, Loading, DigestOf
<1> USE DEF Goto, callVars, flightVars, dataVars
<1>a. \A r \in Request : DigestOf(r) \in Digest
  BY DEF TypeOK, Digest
<1>b. None \notin Flight /\ None \notin Request
  BY NoneAssumption
<1>1. ASSUME NEW r \in Request, NEW k \in Key, Begin(r, k) PROVE FlightInv'
  BY <1>1 DEF Begin, TypeOK
<1>2. ASSUME NEW r \in Request, ReadGeneration(r) PROVE FlightInv'
  BY <1>2, <1>a, <1>b DEF ReadGeneration, TypeOK
<1>3. ASSUME NEW r \in Request, GenerationFails(r) PROVE FlightInv'
  BY <1>3, <1>a, <1>b DEF GenerationFails, TypeOK
<1>4. ASSUME NEW r \in Request, LoadDirect(r) PROVE FlightInv'
  BY <1>4, <1>a, <1>b DEF LoadDirect, TypeOK
<1>5. ASSUME NEW r \in Request, Lookup(r) PROVE FlightInv'
  BY <1>5, <1>a, <1>b DEF Lookup, TypeOK
<1>6. ASSUME NEW r \in Request, Join(r) PROVE FlightInv'
  <2>1. CASE flights[DigestOf(r)] # None
    <3>1. /\ flight' = [flight EXCEPT ![r] = flights[DigestOf(r)]]
          /\ UNCHANGED <<flights, owner, want, gen>>
          /\ pc' = [pc EXCEPT ![r] = "lock"]
      BY <1>6, <2>1 DEF Join
    <3>2. flights[DigestOf(r)] \in Flight
      BY <1>a, <2>1 DEF TypeOK
    <3> QED
      BY <1>6, <3>1, <3>2 DEF Join, TypeOK
  <2>2. CASE flights[DigestOf(r)] = None
    <3>1. PICK m \in Flight : /\ flight' = [flight EXCEPT ![r] = m]
                             /\ flights' = [flights EXCEPT ![DigestOf(r)] = m]
      BY <1>6, <2>2 DEF Join
    <3>2. \A q \in Request : InFlight(q) => DigestOf(q) # DigestOf(r)
      BY <1>b, <2>2
    <3> QED
      BY <1>6, <1>a, <3>1, <3>2 DEF Join, TypeOK
  <2> QED
    BY <2>1, <2>2
<1>7. ASSUME NEW r \in Request, Lock(r) PROVE FlightInv'
  <2>1. flight[r] \in Flight
    BY <1>7 DEF Lock
  <2>2. \A q \in Request \ {r} : Loading(q) => flight[q] # flight[r]
    BY <1>7, <1>b DEF Lock
  <2> QED
    BY <1>7, <1>a, <2>1, <2>2 DEF Lock, TypeOK
<1>8. ASSUME NEW r \in Request, Recheck(r) PROVE FlightInv'
  <2>1. /\ pc[r] = "recheck"
        /\ pc' = [pc EXCEPT ![r] = "load"] \/ pc' = [pc EXCEPT ![r] = "unlock"]
        /\ UNCHANGED <<want, gen, flight, flights, owner>>
    BY <1>8 DEF Recheck
  <2> QED
    BY <2>1 DEF TypeOK
<1>9. ASSUME NEW r \in Request, Load(r) PROVE FlightInv'
  BY <1>9, <1>a, <1>b DEF Load, TypeOK
<1>10. ASSUME NEW r \in Request, Put(r) PROVE FlightInv'
  BY <1>10, <1>a, <1>b DEF Put, TypeOK
<1>11. ASSUME NEW r \in Request, Unlock(r) PROVE FlightInv'
  <2>1. \A q \in Request \ {r} : Loading(q) => flight[q] # flight[r]
    BY <1>11 DEF Unlock
  <2> QED
    BY <1>11, <1>a, <2>1 DEF Unlock, TypeOK
<1>12. ASSUME NEW r \in Request, ReleaseFlight(r) PROVE FlightInv'
  <2>1. CASE flights' = flights
    BY <1>12, <1>a, <2>1 DEF ReleaseFlight, TypeOK
  <2>2. CASE flights' # flights
    <3>1. OnlySharer(r) /\ flights' = [flights EXCEPT ![DigestOf(r)] = None]
      BY <1>12, <2>2 DEF ReleaseFlight
    <3>2. \A q \in Request \ {r} : InFlight(q) => DigestOf(q) # DigestOf(r)
      BY <1>12, <3>1 DEF ReleaseFlight, OnlySharer
    <3> QED
      BY <1>12, <1>a, <3>1, <3>2 DEF ReleaseFlight, TypeOK
  <2> QED
    BY <2>1, <2>2
<1>13. ASSUME NEW r \in Request, Leave(r) PROVE FlightInv'
  BY <1>13, <1>a, <1>b DEF Leave, TypeOK
<1>14. ASSUME NEW r \in Request, Abandon(r) PROVE FlightInv'
  BY <1>14, <1>a, <1>b DEF Abandon, TypeOK
<1>15. ASSUME NEW w \in Writer, NEW n \in Namespace, Commit(w, n) PROVE FlightInv'
  BY <1>15 DEF Commit
<1>16. ASSUME NEW w \in Writer, Invalidate(w) PROVE FlightInv'
  BY <1>16 DEF Invalidate
<1>17. ASSUME NEW w \in Writer, InvalidateFails(w) PROVE FlightInv'
  BY <1>17 DEF InvalidateFails
<1>18. ASSUME NEW d \in Digest, Lose(d) PROVE FlightInv'
  BY <1>18 DEF Lose
<1>19. CASE UNCHANGED vars
  BY <1>19 DEF vars
<1> QED
  BY <1>1, <1>2, <1>3, <1>4, <1>5, <1>6, <1>7, <1>8, <1>9, <1>10, <1>11, <1>12, <1>13, <1>14, <1>15, <1>16, <1>17, <1>18, <1>19 DEF Next, GetOrLoadStep

-----------------------------------------------------------------------------
(* Versions and generations.                                               *)

\* Nothing is announced, stored or answered at first.
LEMMA DataInit == Init => DataInv
<1> SUFFICES ASSUME Init PROVE DataInv
  OBVIOUS
<1>1. \A k \in Key : NamespaceOf[k] \in Namespace
  BY NamespaceAssumption
<1>2. 0 \in Generation
  BY BoundsAssumption DEF Generation
<1>3. AnnouncedCommitted
  BY DEF Init, AnnouncedCommitted, Epoch
<1>4. StoreInv
  BY DEF Init, StoreInv, Digest
<1>5. CallInv
  <2> SUFFICES ASSUME NEW r \in Request
               PROVE  /\ floor[r] <= Announced(Home(r))
                      /\ pc[r] = "idle"
                      /\ payload[r] = None
    BY DEF CallInv, CallOK, Keyed, InFlight
  <2>1. Home(r) \in Namespace
    BY <1>1 DEF Init, Home
  <2>2. Announced(Home(r)) = 0
    BY <1>2, <2>1 DEF Init, Announced, Epoch
  <2> QED
    BY <2>1, <2>2 DEF Init
<1> QED
  BY <1>3, <1>4, <1>5 DEF DataInv

\* Commits and bumps only raise the numbers the other conjuncts compare with:
\* what is already announced for a generation that has begun stays as it is.
Grows ==
  /\ \A n \in Namespace : db[n] <= db'[n] /\ generation[n] <= generation'[n]
  /\ \A n \in Namespace, g \in Generation :
       g <= generation[n] => announced'[<<n, g>>] = announced[<<n, g>>]
  /\ \A n \in Namespace : Announced(n) <= Announced(n)'

\* The numbers compared are natural numbers.
LEMMA Numbers ==
  ASSUME TypeOK
  PROVE  /\ \A n \in Namespace : db[n] \in Nat /\ generation[n] \in Nat
         /\ \A n \in Namespace, g \in Generation : announced[<<n, g>>] \in Nat
         /\ \A w \in Writer : dml[w] # None => /\ dml[w].namespace \in Namespace
                                              /\ dml[w].version \in Nat
         /\ Generation \subseteq Nat
  BY DEF TypeOK, Epoch, Version, Generation

\* A commit, and a bump with or without its announcement, is such a step.
LEMMA CommitStep ==
  ASSUME TypeOK, TypeOK', DataInv, NEW w \in Writer, NEW n \in Namespace, Commit(w, n)
  PROVE  Grows /\ AnnouncedCommitted'
<1>1. db' = [db EXCEPT ![n] = @ + 1] /\ generation' = generation /\ announced' = announced
  BY DEF Commit
<1>2. \A m \in Namespace : db[m] \in Nat /\ db[m] <= db'[m]
  BY <1>1, Numbers DEF TypeOK
<1>3. Grows
  BY <1>1, <1>2, Numbers DEF Grows, Announced, TypeOK
<1>4. \A m \in Namespace, g \in Generation : announced'[<<m, g>>] <= db'[m]
  <2>1. ASSUME NEW m \in Namespace, NEW g \in Generation
        PROVE  announced[<<m, g>>] <= db'[m]
    <3>1. announced[<<m, g>>] <= db[m] /\ announced[<<m, g>>] \in Nat /\ db'[m] \in Nat
      BY <1>1, Numbers DEF DataInv, AnnouncedCommitted, TypeOK
    <3> QED
      BY <1>2, <3>1
  <2> QED
    BY <1>1, <2>1
<1>5. ASSUME NEW v \in Writer, dml'[v] # None
      PROVE  dml'[v].version <= db'[dml'[v].namespace]
  <2>1. CASE v = w
    <3>1. dml'[v] = [namespace |-> n, version |-> db[n] + 1]
      BY <2>1 DEF Commit, TypeOK
    <3> QED
      BY <1>1, <1>2, <3>1 DEF TypeOK
  <2>2. CASE v # w
    <3>1. dml'[v] = dml[v]
      BY <2>2 DEF Commit, TypeOK
    <3>2. /\ dml[v].namespace \in Namespace /\ dml[v].version \in Nat
          /\ dml[v].version <= db[dml[v].namespace]
      BY <1>5, <3>1, Numbers DEF DataInv, AnnouncedCommitted
    <3>3. db'[dml[v].namespace] \in Nat
      BY <1>1, <3>2, Numbers DEF TypeOK
    <3> QED
      BY <1>2, <3>1, <3>2, <3>3
  <2> QED
    BY <2>1, <2>2
<1> QED
  BY <1>3, <1>4, <1>5 DEF AnnouncedCommitted

\* The bump raises the generation and hands what was announced on to it.
LEMMA InvalidateStep ==
  ASSUME TypeOK, TypeOK', DataInv, NEW w \in Writer, Invalidate(w)
  PROVE  Grows /\ AnnouncedCommitted'
<1> DEFINE n == dml[w].namespace
           g == generation[n]
<1>1. n \in Namespace /\ dml[w].version \in Nat /\ dml[w].version <= db[n]
  BY Numbers DEF Invalidate, DataInv, AnnouncedCommitted
<1>2. g \in Generation /\ g + 1 \in Generation /\ g \in Nat
  BY <1>1, BoundsAssumption DEF Invalidate, TypeOK, Generation
<1>3. announced[<<n, g>>] \in Nat /\ announced[<<n, g>>] <= db[n]
  BY <1>1, <1>2, Numbers DEF DataInv, AnnouncedCommitted
<1>4. PICK v \in Nat :
        /\ announced[<<n, g>>] <= v /\ v <= db[n]
        /\ announced' = [announced EXCEPT ![<<n, g + 1>>] = v]
  <2>1. CASE announced' = [announced EXCEPT ![<<n, g + 1>>] = Larger(announced[<<n, g>>], dml[w].version)]
    <3> DEFINE v == Larger(announced[<<n, g>>], dml[w].version)
    <3>1. v \in Nat /\ announced[<<n, g>>] <= v /\ v <= db[n]
      BY <1>1, <1>3 DEF Larger
    <3>2. announced' = [announced EXCEPT ![<<n, g + 1>>] = v]
      BY <2>1
    <3> QED
      BY <3>1, <3>2, Zenon
  <2>2. CASE announced' = [announced EXCEPT ![<<n, g + 1>>] = announced[<<n, g>>]]
    <3>1. announced[<<n, g>>] <= announced[<<n, g>>]
      BY <1>3
    <3> QED
      BY <1>3, <2>2, <3>1, Zenon
  <2> QED
    BY <2>1, <2>2 DEF Invalidate, Announced
<1>5. generation' = [generation EXCEPT ![n] = g + 1] /\ db' = db
  BY DEF Invalidate
<1>6. g = generation[n]
  OBVIOUS
<1> HIDE DEF n, g
<1>7. announced'[<<n, g + 1>>] = v
  BY <1>1, <1>2, <1>4 DEF TypeOK, Epoch
<1>8. ASSUME NEW m \in Namespace, NEW h \in Generation, m # n \/ h # g + 1
      PROVE  announced'[<<m, h>>] = announced[<<m, h>>]
  BY <1>4, <1>8 DEF TypeOK, Epoch
<1>9. Grows
  <2>1. \A m \in Namespace : db[m] <= db'[m] /\ generation[m] <= generation'[m]
    BY <1>1, <1>2, <1>5, <1>6, Numbers DEF TypeOK
  <2>2. ASSUME NEW m \in Namespace, NEW h \in Generation, h <= generation[m]
        PROVE  announced'[<<m, h>>] = announced[<<m, h>>]
    <3>1. m # n \/ h # g + 1
      BY <1>2, <1>6, <2>2, Numbers
    <3> QED
      BY <1>8, <3>1
  <2>3. ASSUME NEW m \in Namespace PROVE Announced(m) <= Announced(m)'
    <3>1. CASE m = n
      BY <1>1, <1>2, <1>4, <1>5, <1>6, <1>7, <3>1 DEF Announced, TypeOK
    <3>2. CASE m # n
      <4>1. generation'[m] = generation[m] /\ generation[m] \in Generation
        BY <1>5, <3>2 DEF TypeOK
      <4>2. announced'[<<m, generation[m]>>] = announced[<<m, generation[m]>>]
        BY <1>8, <3>2, <4>1
      <4> QED
        BY <4>1, <4>2, Numbers DEF Announced
    <3> QED
      BY <3>1, <3>2
  <2> QED
    BY <2>1, <2>2, <2>3 DEF Grows
<1>10. ASSUME NEW m \in Namespace, NEW h \in Generation
       PROVE  announced'[<<m, h>>] <= db'[m]
  <2>1. CASE m = n /\ h = g + 1
    BY <1>4, <1>5, <1>7, <2>1
  <2>2. CASE m # n \/ h # g + 1
    BY <1>5, <1>8, <2>2 DEF DataInv, AnnouncedCommitted
  <2> QED
    BY <2>1, <2>2
<1>11. \A x \in Writer : dml'[x] # None => dml'[x] = dml[x]
  BY DEF Invalidate, TypeOK
<1>12. \A x \in Writer : dml'[x] # None => dml'[x].version <= db'[dml'[x].namespace]
  BY <1>5, <1>11 DEF DataInv, AnnouncedCommitted
<1> QED
  BY <1>9, <1>10, <1>12 DEF AnnouncedCommitted

\* A step of a writer leaves the calls and the store alone, so that Grows is
\* all that their invariants need.
LEMMA WriterKeepsCalls ==
  ASSUME TypeOK, TypeOK', CallInv, Grows,
         UNCHANGED <<pc, want, gen, payload, floor>>
  PROVE  CallInv'
<1> SUFFICES ASSUME NEW r \in Request PROVE CallOK(r)'
  BY DEF CallInv
<1>1. CallOK(r)
  BY DEF CallInv
<1>2. Home(r) \in Namespace /\ Home(r)' = Home(r)
  BY NamespaceAssumption DEF Home, TypeOK
<1>3. (Keyed(r)' <=> Keyed(r)) /\ (pc'[r] = "put" => Keyed(r) /\ payload[r] # None)
  BY DEF Keyed, InFlight, TypeOK
<1>4. floor[r] \in Nat /\ gen[r] \in Generation /\ gen[r] \in Nat /\ (payload[r] # None => payload[r] \in Nat)
  BY DEF TypeOK, Version, Generation
<1> DEFINE n == Home(r)
<1>5. /\ db[n] \in Nat /\ db'[n] \in Nat /\ db[n] <= db'[n]
      /\ generation[n] \in Nat /\ generation'[n] \in Nat /\ generation[n] <= generation'[n]
  BY <1>2, Numbers DEF Grows, TypeOK, Version, Generation
<1>6. Announced(n) \in Nat /\ Announced(n)' \in Nat /\ Announced(n) <= Announced(n)'
  BY <1>2 DEF Grows, TypeOK, Version, Announced, Epoch
<1>7. gen[r] <= generation[n] => announced'[<<n, gen[r]>>] = announced[<<n, gen[r]>>]
  BY <1>2, <1>4 DEF Grows
<1>8. floor[r] <= Announced(n)'
  BY <1>1, <1>4, <1>6 DEF CallOK
<1>9. Keyed(r) => /\ gen[r] <= generation'[n]
                  /\ floor[r] <= announced'[<<n, gen[r]>>]
  BY <1>1, <1>4, <1>5, <1>7 DEF CallOK
<1>10. payload[r] # None => floor[r] <= payload[r] /\ payload[r] <= db'[n]
  BY <1>1, <1>4, <1>5 DEF CallOK
<1>11. pc[r] = "put" => announced'[<<n, gen[r]>>] <= payload[r]
  BY <1>1, <1>3, <1>7 DEF CallOK
<1> QED
  BY <1>2, <1>3, <1>8, <1>9, <1>10, <1>11 DEF CallOK

\* Commits and bumps leave the stored entries their promise.
LEMMA WriterKeepsStore ==
  ASSUME TypeOK, TypeOK', StoreInv, Grows, UNCHANGED store
  PROVE  StoreInv'
<1> SUFFICES ASSUME NEW k \in Key, NEW g \in Generation, store[<<k, g>>] # None
             PROVE  /\ g <= generation'[NamespaceOf[k]]
                    /\ store[<<k, g>>].generation = g
                    /\ announced'[<<NamespaceOf[k], g>>] <= store[<<k, g>>].version
                    /\ store[<<k, g>>].version <= db'[NamespaceOf[k]]
  BY DEF StoreInv
<1> DEFINE n == NamespaceOf[k]
<1>1. n \in Namespace /\ g \in Nat
  BY NamespaceAssumption DEF Generation
<1>2. store[<<k, g>>].version \in Nat
  BY DEF TypeOK, Digest, Envelope, Version
<1>3. /\ g <= generation[n]
      /\ store[<<k, g>>].generation = g
      /\ announced[<<n, g>>] <= store[<<k, g>>].version
      /\ store[<<k, g>>].version <= db[n]
  BY DEF StoreInv
<1>4. /\ db[n] \in Nat /\ db'[n] \in Nat /\ db[n] <= db'[n]
      /\ generation[n] \in Nat /\ generation'[n] \in Nat /\ generation[n] <= generation'[n]
  BY <1>1 DEF Grows, TypeOK, Version, Generation
<1>5. announced'[<<n, g>>] = announced[<<n, g>>]
  BY <1>1, <1>3 DEF Grows
<1> QED
  BY <1>1, <1>2, <1>3, <1>4, <1>5

\* What a request may rely on: a lookup under its key returns nothing, or a
\* version that keeps its promise.
LEMMA CachedOK ==
  ASSUME TypeOK, StoreInv, CallInv, NEW r \in Request, Keyed(r),
         NEW v \in Cached(DigestOf(r)), v # None
  PROVE  v \in Nat /\ floor[r] <= v /\ v <= db[Home(r)]
<1> DEFINE k == want[r]
           g == gen[r]
<1>1. k \in Key /\ g \in Generation /\ NamespaceOf[k] \in Namespace
  BY NamespaceAssumption DEF TypeOK
<1>2. store[<<k, g>>] # None /\ v = store[<<k, g>>].version
  BY DEF Cached, IsFresh, DigestOf
<1>3. announced[<<NamespaceOf[k], g>>] <= v /\ v <= db[NamespaceOf[k]]
  BY <1>1, <1>2 DEF StoreInv
<1>4. v \in Nat
  BY <1>1, <1>2 DEF TypeOK, Digest, Envelope, Version
<1>5. floor[r] <= announced[<<NamespaceOf[k], g>>]
  BY DEF CallInv, CallOK, Home
<1>6. floor[r] \in Nat /\ announced[<<NamespaceOf[k], g>>] \in Nat
  BY <1>1, Numbers DEF TypeOK, Version
<1> QED
  BY <1>3, <1>4, <1>5, <1>6 DEF Home

\* A load returns at least what is announced for the generation of the key.
LEMMA LoadOK ==
  ASSUME TypeOK, AnnouncedCommitted, CallInv, NEW r \in Request
  PROVE  /\ db[Home(r)] \in Version
         /\ floor[r] <= db[Home(r)]
         /\ announced[<<Home(r), gen[r]>>] <= db[Home(r)]
<1>1. Home(r) \in Namespace /\ gen[r] \in Generation /\ generation[Home(r)] \in Generation
  BY NamespaceAssumption DEF Home, TypeOK
<1>2. floor[r] <= Announced(Home(r)) /\ Announced(Home(r)) <= db[Home(r)]
  BY <1>1 DEF CallInv, CallOK, AnnouncedCommitted, Announced
<1>3. floor[r] \in Nat /\ Announced(Home(r)) \in Nat /\ db[Home(r)] \in Nat
  BY <1>1, Numbers DEF TypeOK, Version, Announced
<1> QED
  BY <1>1, <1>2, <1>3 DEF AnnouncedCommitted, TypeOK

\* What a step of the call of r leaves alone.
OnlyCall(r) ==
  /\ UNCHANGED <<generation, db, dml, announced>>
  /\ \A q \in Request \ {r} :
       /\ pc'[q] = pc[q]
       /\ want'[q] = want[q]
       /\ gen'[q] = gen[q]
       /\ payload'[q] = payload[q]
       /\ floor'[q] = floor[q]

\* A step of another call does not touch the promise of this one.
LEMMA OnlyCallKeeps ==
  ASSUME TypeOK, CallInv, AnnouncedCommitted,
         NEW r \in Request, OnlyCall(r), CallOK(r)'
  PROVE  CallInv' /\ AnnouncedCommitted'
<1>1. AnnouncedCommitted'
  BY DEF OnlyCall, AnnouncedCommitted
<1>2. ASSUME NEW q \in Request \ {r} PROVE CallOK(q)'
  <2>1. CallOK(q)
    BY DEF CallInv
  <2> QED
    BY <1>2, <2>1 DEF OnlyCall, CallOK, Home, Announced, Keyed, InFlight
<1> QED
  BY <1>1, <1>2 DEF CallInv

\* Every step of a call keeps its promise and disturbs no other call.
LEMMA CallStep ==
  ASSUME TypeOK, TypeOK', FlightInv, DataInv, NEW r \in Request,
         (\E k \in Key : Begin(r, k)) \/ GetOrLoadStep(r) \/ Abandon(r)
  PROVE  OnlyCall(r) /\ CallOK(r)'
<1> USE DEF Goto, callVars, flightVars, dataVars, OnlyCall
<1>a. CallOK(r)
  BY DEF DataInv, CallInv
<1>b. Home(r) \in Namespace /\ gen[r] \in Generation
  BY NamespaceAssumption DEF Home, TypeOK
<1>c. db[Home(r)] \in Version /\ floor[r] <= db[Home(r)]
      /\ announced[<<Home(r), gen[r]>>] <= db[Home(r)]
  BY LoadOK DEF DataInv
<1>d. floor[r] \in Nat /\ db[Home(r)] \in Nat
  BY <1>b, Numbers DEF TypeOK, Version
<1> USE DEF CallOK, Home, Announced, Keyed, InFlight
<1>1. ASSUME NEW k \in Key, Begin(r, k) PROVE OnlyCall(r) /\ CallOK(r)'
  <2>1. OnlyCall(r)
    BY <1>1 DEF Begin, TypeOK
  <2>2. /\ want'[r] = k /\ payload'[r] = None /\ pc'[r] \in {"generation", "direct"}
        /\ floor'[r] = Announced(NamespaceOf[k])
    BY <1>1 DEF Begin, TypeOK
  <2>3. Announced(NamespaceOf[k]) \in Nat
    BY NamespaceAssumption, Numbers DEF TypeOK
  <2> QED
    BY <2>1, <2>2, <2>3
<1>2. ASSUME ReadGeneration(r) PROVE OnlyCall(r) /\ CallOK(r)'
  <2>1. OnlyCall(r)
    BY <1>2 DEF ReadGeneration, TypeOK
  <2>2. /\ gen'[r] = generation[Home(r)] /\ generation[Home(r)] \in Nat
        /\ want'[r] = want[r] /\ floor'[r] = floor[r] /\ payload'[r] = payload[r]
        /\ pc'[r] = "lookup"
    BY <1>2, <1>b, Numbers DEF ReadGeneration, TypeOK
  <2> QED
    BY <1>a, <2>1, <2>2
<1>3. ASSUME GenerationFails(r) PROVE OnlyCall(r) /\ CallOK(r)'
  <2>1. OnlyCall(r)
    BY <1>3 DEF GenerationFails, TypeOK
  <2>2. /\ want'[r] = want[r] /\ floor'[r] = floor[r] /\ gen'[r] = gen[r]
        /\ payload'[r] = payload[r] /\ pc'[r] = "direct"
        /\ pc[r] # "idle"
    BY <1>3 DEF GenerationFails, TypeOK
  <2> QED
    BY <1>a, <1>3, <2>1, <2>2 DEF GenerationFails
<1>4. ASSUME LoadDirect(r) PROVE OnlyCall(r) /\ CallOK(r)'
  <2>1. OnlyCall(r)
    BY <1>4 DEF LoadDirect, TypeOK
  <2>2. /\ want'[r] = want[r] /\ floor'[r] = floor[r] /\ gen'[r] = gen[r]
        /\ payload'[r] = db[Home(r)] /\ pc'[r] = "idle"
    BY <1>4 DEF LoadDirect, TypeOK
  <2> QED
    BY <1>a, <1>c, <1>d, <2>1, <2>2
<1>5. ASSUME Lookup(r) PROVE OnlyCall(r) /\ CallOK(r)'
  <2>1. OnlyCall(r)
    BY <1>5 DEF Lookup, TypeOK
  <2>2. PICK v \in Cached(DigestOf(r)) :
          /\ payload' = [payload EXCEPT ![r] = v]
          /\ pc' = [pc EXCEPT ![r] = IF v = None THEN "join" ELSE "idle"]
    BY <1>5 DEF Lookup
  <2>3. v # None => v \in Nat /\ floor[r] <= v /\ v <= db[Home(r)]
    BY <1>5, CachedOK DEF Lookup, DataInv
  <2>4. /\ payload'[r] = v /\ pc'[r] \in {"join", "idle"}
        /\ want'[r] = want[r] /\ floor'[r] = floor[r] /\ gen'[r] = gen[r]
    BY <1>5, <2>2 DEF Lookup, TypeOK
  <2> QED
    BY <1>a, <1>5, <2>1, <2>3, <2>4 DEF Lookup
<1>6. ASSUME Join(r) PROVE OnlyCall(r) /\ CallOK(r)'
  <2>1. OnlyCall(r)
    BY <1>6 DEF Join, TypeOK
  <2>2. /\ want'[r] = want[r] /\ floor'[r] = floor[r] /\ gen'[r] = gen[r]
        /\ payload'[r] = payload[r] /\ pc'[r] = "lock"
        /\ pc[r] # "idle"
    BY <1>6 DEF Join, TypeOK
  <2> QED
    BY <1>a, <1>6, <2>1, <2>2 DEF Join
<1>7. ASSUME Lock(r) PROVE OnlyCall(r) /\ CallOK(r)'
  <2>1. OnlyCall(r)
    BY <1>7 DEF Lock, TypeOK
  <2>2. /\ want'[r] = want[r] /\ floor'[r] = floor[r] /\ gen'[r] = gen[r]
        /\ payload'[r] = payload[r] /\ pc'[r] = "recheck"
        /\ pc[r] # "idle"
    BY <1>7 DEF Lock, TypeOK
  <2> QED
    BY <1>a, <1>7, <2>1, <2>2 DEF Lock
<1>8. ASSUME Recheck(r) PROVE OnlyCall(r) /\ CallOK(r)'
  <2>1. OnlyCall(r)
    BY <1>8 DEF Recheck, TypeOK
  <2>2. PICK v \in Cached(DigestOf(r)) :
          /\ payload' = [payload EXCEPT ![r] = v]
          /\ pc' = [pc EXCEPT ![r] = IF v = None THEN "load" ELSE "unlock"]
    BY <1>8 DEF Recheck
  <2>3. v # None => v \in Nat /\ floor[r] <= v /\ v <= db[Home(r)]
    BY <1>8, CachedOK DEF Recheck, DataInv
  <2>4. /\ payload'[r] = v /\ pc'[r] \in {"load", "unlock"}
        /\ want'[r] = want[r] /\ floor'[r] = floor[r] /\ gen'[r] = gen[r]
    BY <1>8, <2>2 DEF Recheck, TypeOK
  <2> QED
    BY <1>a, <1>8, <2>1, <2>3, <2>4 DEF Recheck
<1>9. ASSUME Load(r) PROVE OnlyCall(r) /\ CallOK(r)'
  <2>1. OnlyCall(r)
    BY <1>9 DEF Load, TypeOK
  <2>2. /\ want'[r] = want[r] /\ floor'[r] = floor[r] /\ gen'[r] = gen[r]
        /\ payload'[r] = db[Home(r)] /\ pc'[r] \in {"put", "unlock"}
    BY <1>9 DEF Load, TypeOK
  <2> QED
    BY <1>a, <1>c, <1>d, <1>9, <2>1, <2>2 DEF Load
<1>10. ASSUME Put(r) PROVE OnlyCall(r) /\ CallOK(r)'
  <2>1. OnlyCall(r)
    BY <1>10 DEF Put, TypeOK
  <2>2. /\ want'[r] = want[r] /\ floor'[r] = floor[r] /\ gen'[r] = gen[r]
        /\ payload'[r] = payload[r] /\ pc'[r] = "unlock"
        /\ pc[r] # "idle"
    BY <1>10 DEF Put, TypeOK
  <2> QED
    BY <1>a, <1>10, <2>1, <2>2 DEF Put
<1>11. ASSUME Unlock(r) PROVE OnlyCall(r) /\ CallOK(r)'
  <2>1. OnlyCall(r)
    BY <1>11 DEF Unlock, TypeOK
  <2>2. /\ want'[r] = want[r] /\ floor'[r] = floor[r] /\ gen'[r] = gen[r]
        /\ payload'[r] = payload[r] /\ pc'[r] = "release"
        /\ pc[r] # "idle"
    BY <1>11 DEF Unlock, TypeOK
  <2> QED
    BY <1>a, <1>11, <2>1, <2>2 DEF Unlock
<1>12. ASSUME ReleaseFlight(r) PROVE OnlyCall(r) /\ CallOK(r)'
  <2>1. OnlyCall(r)
    BY <1>12 DEF ReleaseFlight, TypeOK
  <2>2. /\ want'[r] = want[r] /\ floor'[r] = floor[r] /\ gen'[r] = gen[r]
        /\ payload'[r] = payload[r] /\ pc'[r] = "leave"
        /\ pc[r] # "idle"
    BY <1>12 DEF ReleaseFlight, TypeOK
  <2> QED
    BY <1>a, <1>12, <2>1, <2>2 DEF ReleaseFlight
<1>13. ASSUME Leave(r) PROVE OnlyCall(r) /\ CallOK(r)'
  <2>1. OnlyCall(r)
    BY <1>13 DEF Leave, TypeOK
  <2>2. /\ want'[r] = want[r] /\ floor'[r] = floor[r] /\ gen'[r] = gen[r]
        /\ payload'[r] = payload[r] /\ pc'[r] = "idle"
        /\ pc[r] # "idle"
    BY <1>13 DEF Leave, TypeOK
  <2> QED
    BY <1>a, <1>13, <2>1, <2>2 DEF Leave
<1>14. ASSUME Abandon(r) PROVE OnlyCall(r) /\ CallOK(r)'
  <2>1. OnlyCall(r)
    BY <1>14 DEF Abandon, TypeOK
  <2>2. /\ want'[r] = want[r] /\ floor'[r] = floor[r] /\ gen'[r] = gen[r]
        /\ payload'[r] = None
        /\ pc'[r] = "idle" \/ (pc'[r] = "leave" /\ flight[r] # None)
    BY <1>14 DEF Abandon, TypeOK
  <2>3. pc'[r] = "leave" => Keyed(r)
    BY <1>14, <2>2 DEF Abandon, FlightInv, HoldsFlight
  <2> QED
    BY <1>a, <2>1, <2>2, <2>3
<1> QED
  BY <1>1, <1>2, <1>3, <1>4, <1>5, <1>6, <1>7, <1>8, <1>9, <1>10, <1>11, <1>12, <1>13, <1>14 DEF GetOrLoadStep

\* Only a put adds an entry: it is of the generation of its key, and carries
\* what was announced for that generation.
LEMMA StoreStep ==
  ASSUME TypeOK, TypeOK', DataInv, Grows,
         \/ UNCHANGED store
         \/ \E r \in Request : Put(r)
         \/ \E d \in Digest : Lose(d)
  PROVE  StoreInv'
<1>1. CASE UNCHANGED store
  BY <1>1, WriterKeepsStore DEF DataInv
<1>2. ASSUME NEW r \in Request, Put(r) PROVE StoreInv'
  <2> SUFFICES ASSUME store' # store PROVE StoreInv'
    BY <1>1
  <2>1. store' = [store EXCEPT ![DigestOf(r)] = [generation |-> gen[r], version |-> payload[r]]]
    BY <1>2 DEF Put
  <2>2. UNCHANGED <<generation, db, announced>>
    BY <1>2 DEF Put
  <2>3. /\ Home(r) \in Namespace /\ want[r] \in Key /\ gen[r] \in Generation
        /\ gen[r] <= generation[Home(r)]
        /\ announced[<<Home(r), gen[r]>>] <= payload[r]
        /\ payload[r] <= db[Home(r)]
    BY <1>2, NamespaceAssumption DEF Put, TypeOK, DataInv, CallInv, CallOK, Keyed, InFlight, Home
  <2> SUFFICES ASSUME NEW k \in Key, NEW g \in Generation, store'[<<k, g>>] # None
               PROVE  /\ g <= generation[NamespaceOf[k]]
                      /\ store'[<<k, g>>].generation = g
                      /\ announced[<<NamespaceOf[k], g>>] <= store'[<<k, g>>].version
                      /\ store'[<<k, g>>].version <= db[NamespaceOf[k]]
    BY <2>2 DEF StoreInv
  <2>4. CASE k = want[r] /\ g = gen[r]
    <3>1. store'[<<k, g>>] = [generation |-> gen[r], version |-> payload[r]]
      BY <2>1, <2>3, <2>4 DEF DigestOf, TypeOK, Digest
    <3> QED
      BY <2>3, <2>4, <3>1 DEF Home
  <2>5. CASE k # want[r] \/ g # gen[r]
    <3>1. store'[<<k, g>>] = store[<<k, g>>]
      BY <2>1, <2>5 DEF DigestOf, TypeOK, Digest
    <3> QED
      BY <3>1 DEF DataInv, StoreInv
  <2> QED
    BY <2>4, <2>5
<1>3. ASSUME NEW d \in Digest, Lose(d) PROVE StoreInv'
  <2>1. UNCHANGED <<generation, db, announced>>
    BY <1>3 DEF Lose
  <2>2. \A k \in Key, g \in Generation :
          store'[<<k, g>>] # None => store'[<<k, g>>] = store[<<k, g>>]
    BY <1>3 DEF Lose, TypeOK, Digest
  <2> QED
    BY <2>1, <2>2 DEF DataInv, StoreInv
<1> QED
  BY <1>1, <1>2, <1>3

\* Every step keeps versions and generations in order.
LEMMA DataStep == TypeOK /\ TypeOK' /\ FlightInv /\ DataInv /\ [Next]_vars => DataInv'
<1> SUFFICES ASSUME TypeOK, TypeOK', FlightInv, DataInv, [Next]_vars PROVE DataInv'
  OBVIOUS
<1>a. ASSUME UNCHANGED <<generation, db, announced>> PROVE Grows
  BY <1>a, Numbers DEF Grows, Announced, TypeOK
<1>1. ASSUME NEW r \in Request,
             (\E k \in Key : Begin(r, k)) \/ GetOrLoadStep(r) \/ Abandon(r)
      PROVE  DataInv'
  <2>1. OnlyCall(r) /\ CallOK(r)'
    BY <1>1, CallStep
  <2>2. CallInv' /\ AnnouncedCommitted'
    BY <2>1, OnlyCallKeeps DEF DataInv
  <2>3. Grows
    BY <1>a, <2>1 DEF OnlyCall
  <2>4. UNCHANGED store \/ Put(r)
    BY <1>1 DEF Begin, Abandon, GetOrLoadStep, ReadGeneration, GenerationFails,
      LoadDirect, Lookup, Join, Lock, Recheck, Load, Unlock, ReleaseFlight, Leave,
      callVars, flightVars, dataVars
  <2>5. StoreInv'
    BY <2>3, <2>4, StoreStep
  <2> QED
    BY <2>2, <2>5 DEF DataInv
<1>2. ASSUME NEW w \in Writer,
             (\E n \in Namespace : Commit(w, n)) \/ Invalidate(w)
      PROVE  DataInv'
  <2>1. Grows /\ AnnouncedCommitted'
    BY <1>2, CommitStep, InvalidateStep
  <2>2. UNCHANGED <<pc, want, gen, payload, floor, store>>
    BY <1>2 DEF Commit, Invalidate, callVars, flightVars, dataVars
  <2>3. CallInv' /\ StoreInv'
    BY <2>1, <2>2, StoreStep, WriterKeepsCalls DEF DataInv
  <2> QED
    BY <2>1, <2>3 DEF DataInv
<1>3. ASSUME NEW w \in Writer, InvalidateFails(w) PROVE DataInv'
  <2>1. UNCHANGED <<pc, want, gen, payload, floor, store, generation, db, announced>>
    BY <1>3 DEF InvalidateFails, callVars, flightVars, dataVars
  <2>2. \A x \in Writer : dml'[x] # None => dml'[x] = dml[x]
    BY <1>3 DEF InvalidateFails, TypeOK
  <2>3. AnnouncedCommitted'
    BY <2>1, <2>2 DEF DataInv, AnnouncedCommitted
  <2>4. CallInv' /\ StoreInv'
    BY <1>a, <2>1, StoreStep, WriterKeepsCalls DEF DataInv
  <2> QED
    BY <2>3, <2>4 DEF DataInv
<1>4. ASSUME NEW d \in Digest, Lose(d) PROVE DataInv'
  <2>1. UNCHANGED <<pc, want, gen, payload, floor, generation, db, dml, announced>>
    BY <1>4 DEF Lose, callVars, flightVars, dataVars
  <2>2. AnnouncedCommitted'
    BY <2>1 DEF DataInv, AnnouncedCommitted
  <2>3. CallInv' /\ StoreInv'
    BY <1>4, <1>a, <2>1, StoreStep, WriterKeepsCalls DEF DataInv
  <2> QED
    BY <2>2, <2>3 DEF DataInv
<1>5. CASE UNCHANGED vars
  <2>1. UNCHANGED <<pc, want, gen, payload, floor, store, generation, db, dml, announced>>
    BY <1>5 DEF vars
  <2>2. AnnouncedCommitted'
    BY <2>1 DEF DataInv, AnnouncedCommitted
  <2>3. CallInv' /\ StoreInv'
    BY <1>a, <2>1, StoreStep, WriterKeepsCalls DEF DataInv
  <2> QED
    BY <2>2, <2>3 DEF DataInv
<1> QED
  BY <1>1, <1>2, <1>3, <1>4, <1>5 DEF Next

-----------------------------------------------------------------------------
(* The theorems.                                                           *)

\* The inductive invariant holds of every behaviour.
THEOREM Invariance == Spec => []Inv
<1>1. Init => Inv
  BY TypeInit, FlightInit, DataInit DEF Inv
<1>2. Inv /\ [Next]_vars => Inv'
  BY TypeStep, FlightStep, DataStep DEF Inv
<1> QED
  BY <1>1, <1>2, PTL DEF Spec

\* Type correctness, for any sets of requests, writers, keys and faults.
THEOREM TypeCorrect == Spec => []TypeOK
  BY Invariance, PTL DEF Inv

\* A call that starts after an invalidation returned is never answered from
\* older data (get_or_load and invalidate_after_commit, interceptor.rs).
THEOREM NeverStale == Spec => []NoStaleAnswer
<1>1. Inv => NoStaleAnswer
  BY DEF Inv, DataInv, CallInv, CallOK, NoStaleAnswer
<1> QED
  BY <1>1, Invariance, PTL

\* The entries of the current generation carry every announced commit.
THEOREM StoreNeverStale == Spec => []StoreCurrent
<1>1. Inv => StoreCurrent
  BY NamespaceAssumption DEF Inv, DataInv, StoreInv, StoreCurrent, Announced, TypeOK
<1> QED
  BY <1>1, Invariance, PTL

\* release_flight never removes an entry somebody still uses.
THEOREM ReleaseIsSafe == Spec => []NoWrongRelease
<1>1. Inv => NoWrongRelease
  BY DEF Inv, FlightInv, HoldsFlight, InFlight, NoWrongRelease
<1> QED
  BY <1>1, Invariance, PTL

\* Two calls never load, or write back, the same key at the same time.
THEOREM OneLoader == Spec => []SingleLoader
<1>1. Inv => SingleLoader
  BY DEF Inv, FlightInv, HoldsFlight, OwnsMutex, InFlight, Loading, SingleLoader
<1> QED
  BY <1>1, Invariance, PTL

-----------------------------------------------------------------------------
(* The second lookup.                                                      *)

MissInv == "get" \notin Faults => LoadOnlyOnMiss

\* No other call puts under a digest while its holder loads it.
LEMMA MissStep == Inv /\ Inv' /\ MissInv /\ [Next]_vars => MissInv'
<1> SUFFICES ASSUME Inv, Inv', MissInv, [Next]_vars, "get" \notin Faults,
                    NEW r \in Request, pc'[r] = "load"
             PROVE  store'[DigestOf(r)'] = None
  BY DEF MissInv, LoadOnlyOnMiss
<1> USE DEF Goto, callVars, flightVars, dataVars
<1>a. TypeOK /\ DigestOf(r) \in Digest
  BY DEF Inv, TypeOK, DigestOf, Digest
<1>b. pc[r] = "load" => store[DigestOf(r)] = None
  BY DEF MissInv, LoadOnlyOnMiss
<1>1. CASE Recheck(r)
  <2>1. PICK v \in Cached(DigestOf(r)) :
          pc' = [pc EXCEPT ![r] = IF v = None THEN "load" ELSE "unlock"]
    BY <1>1 DEF Recheck
  <2>2. v = None
    BY <1>a, <2>1 DEF TypeOK
  <2>3. store[DigestOf(r)] # None =>
          store[DigestOf(r)].version # None /\ store[DigestOf(r)].generation = gen[r]
    <3>1. store[DigestOf(r)] # None => store[DigestOf(r)].version \in Version
      BY <1>a DEF TypeOK, Envelope
    <3>2. want[r] \in Key /\ gen[r] \in Generation
      BY <1>a DEF TypeOK
    <3>3. store[DigestOf(r)] # None => store[DigestOf(r)].generation = gen[r]
      BY <3>2 DEF Inv, DataInv, StoreInv, DigestOf
    <3> QED
      BY <3>1, <3>3, NoneAssumption
  <2>4. store[DigestOf(r)] = None
    BY <2>2, <2>3 DEF Cached, IsFresh, DigestOf
  <2> QED
    BY <1>1, <2>4 DEF Recheck, DigestOf
<1>2. ASSUME ~Recheck(r)
      PROVE  pc[r] = "load" /\ DigestOf(r)' = DigestOf(r)
  <2> USE DEF DigestOf, TypeOK
  <2>1. ASSUME NEW q \in Request, GetOrLoadStep(q)
        PROVE  pc[r] = "load" /\ DigestOf(r)' = DigestOf(r)
    <3>1. CASE Join(q)
      BY <1>a, <3>1 DEF Join
    <3>2. CASE ReadGeneration(q) \/ GenerationFails(q) \/ LoadDirect(q) \/ Lookup(q) \/ Lock(q)
      BY <1>a, <3>2 DEF ReadGeneration, GenerationFails, LoadDirect, Lookup, Lock
    <3>3. CASE Recheck(q)
      BY <1>a, <1>2, <3>3 DEF Recheck
    <3>4. CASE Load(q) \/ Put(q) \/ Unlock(q) \/ ReleaseFlight(q) \/ Leave(q)
      BY <1>a, <3>4 DEF Load, Put, Unlock, ReleaseFlight, Leave
    <3> QED
      BY <2>1, <3>1, <3>2, <3>3, <3>4 DEF GetOrLoadStep
  <2>2. CASE (\E q \in Request, k \in Key : Begin(q, k)) \/ (\E q \in Request : Abandon(q))
    BY <1>a, <2>2 DEF Begin, Abandon
  <2>3. CASE \/ \E w \in Writer, n \in Namespace : Commit(w, n)
             \/ \E w \in Writer : Invalidate(w) \/ InvalidateFails(w)
             \/ \E d \in Digest : Lose(d)
             \/ UNCHANGED vars
    BY <1>a, <2>3 DEF Commit, Invalidate, InvalidateFails, Lose, vars
  <2> QED
    BY <2>1, <2>2, <2>3 DEF Next
<1>3. ASSUME NEW q \in Request, Put(q), ~Recheck(r) PROVE store'[DigestOf(r)'] = None
  <2>1. q # r
    BY <1>2, <1>3 DEF Put
  <2>2. SingleLoader
    BY DEF Inv, FlightInv, HoldsFlight, OwnsMutex, InFlight, Loading, SingleLoader
  <2>3. DigestOf(q) # DigestOf(r)
    BY <1>2, <1>3, <2>1, <2>2 DEF SingleLoader, Loading, Put
  <2> QED
    BY <1>2, <1>3, <1>a, <1>b, <2>3 DEF Put, TypeOK
<1>4. ASSUME UNCHANGED store \/ (\E d \in Digest : Lose(d)), ~Recheck(r)
      PROVE store'[DigestOf(r)'] = None
  BY <1>2, <1>4, <1>a, <1>b DEF Lose, TypeOK
<1>5. \/ UNCHANGED store
      \/ \E d \in Digest : Lose(d)
      \/ \E q \in Request : Put(q)
  BY DEF Next, Begin, GetOrLoadStep, Abandon, Commit, Invalidate, InvalidateFails, vars,
    ReadGeneration, GenerationFails, LoadDirect, Lookup, Join, Lock, Recheck, Load,
    Unlock, ReleaseFlight, Leave
<1> QED
  BY <1>1, <1>3, <1>4, <1>5

\* When the backend's reads answer, the loader runs only if no entry exists:
\* concurrent misses of one key cost one load while its entry lives.
THEOREM LoadsOnce ==
  ASSUME "get" \notin Faults
  PROVE  Spec => []LoadOnlyOnMiss
<1>1. Init => MissInv
  BY DEF Init, MissInv, LoadOnlyOnMiss
<1>2. MissInv => LoadOnlyOnMiss
  BY DEF MissInv
<1> QED
  BY <1>1, <1>2, MissStep, Invariance, PTL DEF Spec
==============================================================================
