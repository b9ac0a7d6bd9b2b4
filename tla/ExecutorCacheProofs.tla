---------------------- MODULE ExecutorCacheProofs ----------------------
(***************************************************************************)
(* Proofs about ExecutorCache: its types, and what its two transaction     *)
(* modes promise, for any number of sessions, queries, versions and        *)
(* generations, and any set of policies and failures.                      *)
(*                                                                         *)
(* The inductive invariant Inv has a part for each of the things the       *)
(* promises rest on: what the locals of a statement mean (StatementInv),   *)
(* what becomes of versions (FateInv), the statements of a Bypass          *)
(* transaction (BypassInv), and what a Defer transaction holds and has     *)
(* stored (DeferInv).  A step moves one session; what it leaves to the     *)
(* others is in the lemmas named ...Kept.                                  *)
(***************************************************************************)
EXTENDS ExecutorCache, TLAPS

Mode == {"closed", "plain", "tx"}
SessionType == [mode : Mode, at : Label, query : Query \cup {None}, target : Generation,
                result : Result \cup {None}, wrote : Version]

Fresh(c) == c.at \in {"after", "store"}

\* What the session s with the locals c stands for.
StatementOK(s, c) ==
  /\ c.target <= generation
  /\ c.at \in {"generation", "lookup", "query", "after", "store"} => c.query \in Query
  /\ Fresh(c) => c.result # None
  /\ c.at \in {"bump", "flush"} => c.wrote <= committed
  /\ c.at = "bump" => c.mode = "plain"
  /\ c.at \in {"flush", "flushing"} => c.mode = "tx" /\ writer # s
  /\ c.mode = "closed" => c.at = "idle"
StatementInv == \A s \in Session : StatementOK(s, session[s])

-----------------------------------------------------------------------------
(* Types.                                                                  *)

\* The bounds are naturals, and so are versions and generations.
LEMMA Numbers ==
  /\ MaxVersion \in Nat /\ MaxGeneration \in Nat
  /\ 0 \in Version /\ 0 \in Generation
  /\ \A v \in Version : v \in Nat
  /\ \A g \in Generation : g \in Nat
BY ExecutorAssumption DEF Version, Generation

\* A session stays a session when its statement goes on ...
LEMMA Retyped ==
  ASSUME NEW c \in SessionType
  PROVE  /\ \A label \in Label : [c EXCEPT !.at = label] \in SessionType
         /\ \A label \in Label, g \in Generation :
              [c EXCEPT !.at = label, !.target = g] \in SessionType
         /\ \A label \in Label, r \in Result \cup {None} :
              [c EXCEPT !.at = label, !.result = r] \in SessionType
BY DEF SessionType

\* ... and when another one begins.
LEMMA ClosedTyped ==
  /\ Closed \in SessionType
  /\ \A mode \in Mode : [Closed EXCEPT !.mode = mode] \in SessionType
  /\ \A mode \in Mode, label \in Label, v \in Version :
       [Closed EXCEPT !.mode = mode, !.at = label, !.wrote = v] \in SessionType
  /\ \A mode \in Mode, label \in Label, q \in Query, r \in Result \cup {None} :
       [Closed EXCEPT !.mode = mode, !.at = label, !.query = q, !.result = r] \in SessionType
BY Numbers DEF Closed, SessionType, Mode, Label

\* The empty buffer is a buffer.
LEMMA EmptyTyped == EmptyBuffer \in Buffer /\ EmptyBuffer # None
<1>1. EmptyBuffer \in Buffer
  BY DEF EmptyBuffer, Buffer
<1> QED
  BY <1>1, ExecutorAssumption

\* The three ways in which statements go on.
LEMMA Moves ==
  ASSUME session \in [Session -> SessionType], NEW s \in Session
  PROVE  /\ \A label \in Label : Goto(s, label) =>
              session' = [session EXCEPT ![s] = [session[s] EXCEPT !.at = label]]
         /\ \A label \in Label, g \in Generation :
              session' = [session EXCEPT ![s].at = label, ![s].target = g] =>
              session' = [session EXCEPT ![s] = [session[s] EXCEPT !.at = label, !.target = g]]
         /\ \A label \in Label, r \in Result \cup {None} :
              session' = [session EXCEPT ![s].at = label, ![s].result = r] =>
              session' = [session EXCEPT ![s] = [session[s] EXCEPT !.at = label, !.result = r]]
<1>1. ASSUME NEW c \in SessionType PROVE [session EXCEPT ![s] = c] \in [Session -> SessionType]
  OBVIOUS
<1>2. session[s] \in SessionType
  OBVIOUS
<1>3. \A label \in Label : [session EXCEPT ![s].at = label] =
        [session EXCEPT ![s] = [session[s] EXCEPT !.at = label]]
  OBVIOUS
<1>4. \A label \in Label, g \in Generation : [session EXCEPT ![s].at = label, ![s].target = g] =
        [session EXCEPT ![s] = [session[s] EXCEPT !.at = label, !.target = g]]
  BY <1>1, Retyped
<1>5. \A label \in Label, r \in Result \cup {None} :
        [session EXCEPT ![s].at = label, ![s].result = r] =
        [session EXCEPT ![s] = [session[s] EXCEPT !.at = label, !.result = r]]
  BY <1>1, Retyped
<1>6. \A label \in Label : Goto(s, label) =>
        session' = [session EXCEPT ![s] = [session[s] EXCEPT !.at = label]]
  BY <1>3 DEF Goto
<1> QED
  BY <1>4, <1>5, <1>6

\* ... and how they end.
LEMMA Answers ==
  ASSUME session \in [Session -> SessionType], NEW s \in Session, "idle" \in Label,
         NEW r \in Result \cup {None}, Answer(s, r)
  PROVE  session' = [session EXCEPT ![s] = [session[s] EXCEPT !.at = "idle", !.result = r]]
BY Moves DEF Answer

\* In a step that writes nothing to the database and that neither opens nor ends
\* a transaction, types are those of what it writes to the caches.
LEMMA TypeKept ==
  ASSUME TypeOK, UNCHANGED <<policy, databaseVars, announced>>,
         NEW s \in Session, NEW c \in SessionType,
         session' = [session EXCEPT ![s] = c], c.mode = "tx" <=> InTx(s),
         l1' \in [Session -> Result \cup {None}],
         l2' \in [Digest -> Result \cup {None}],
         generation' \in Generation,
         buffers' \in [Session -> Buffer \cup {None}],
         \A t \in Session : buffers'[t] = None <=> buffers[t] = None
  PROVE  TypeOK'
<1>a. session' \in [Session -> SessionType] /\ \A t \in Session : InTx(t)' = InTx(t)
  <2>1. session \in [Session -> SessionType]
    BY DEF TypeOK, SessionType, Mode
  <2> QED
    BY <2>1 DEF InTx
<1>1. writer # None => InTx(writer)' /\ fate[latest] = "open"
  BY <1>a DEF TypeOK, InTx, databaseVars
<1>2. \A t \in Session : buffers'[t] # None <=> InTx(t)' /\ policy'.transaction = "defer"
  BY <1>a DEF TypeOK
<1>3. session' \in [Session -> [mode : {"closed", "plain", "tx"}, at : Label, query : Query \cup {None},
        target : Generation, result : Result \cup {None}, wrote : Version]]
  BY <1>a DEF SessionType, Mode
<1>4. /\ policy' \in Policies /\ fate' \in [Version -> {"unused", "open", "overwritten", "committed", "aborted"}]
      /\ latest' \in Version /\ committed' \in 0..latest' /\ announced' \in 0..committed'
  BY DEF TypeOK, databaseVars
<1>5. /\ writer' \in Session \cup {None}
      /\ writer' # None => InTx(writer)' /\ fate'[latest'] = "open"
  BY <1>1 DEF InTx, databaseVars, TypeOK
<1> QED
  BY <1>2, <1>3, <1>4, <1>5 DEF TypeOK

\* ... and what it must write otherwise.
LEMMA TypeMade ==
  ASSUME TypeOK, policy' = policy,
         NEW s \in Session, NEW c \in SessionType, session' = [session EXCEPT ![s] = c],
         l1' \in [Session -> Result \cup {None}], l2' = l2, generation' \in Generation,
         buffers' \in [Session -> Buffer \cup {None}],
         \A t \in Session \ {s} : buffers'[t] = buffers[t],
         buffers'[s] # None <=> c.mode = "tx" /\ policy.transaction = "defer",
         writer' \in Session \cup {None},
         writer' # None => fate'[latest'] = "open",
         writer' = s => c.mode = "tx",
         writer' \notin {None, s} => writer' = writer,
         latest' \in Version /\ committed' \in 0..latest' /\ announced' \in 0..committed',
         fate' \in [Version -> {"unused", "open", "overwritten", "committed", "aborted"}]
  PROVE  TypeOK'
<1>1. session \in [Session -> SessionType]
  BY DEF TypeOK, SessionType, Mode
<1>2. /\ session' \in [Session -> SessionType] /\ session'[s] = c
      /\ \A t \in Session \ {s} : session'[t] = session[t]
  BY <1>1
<1>3. \A t \in Session : buffers'[t] # None <=> InTx(t)' /\ policy'.transaction = "defer"
  BY <1>2 DEF TypeOK, InTx
<1>4. writer' # None => InTx(writer)'
  <2>1. CASE writer' = s
    BY <1>2, <2>1 DEF InTx
  <2>2. CASE writer' \in Session \ {s}
    BY <1>2, <2>2, ExecutorAssumption DEF InTx, TypeOK
  <2> QED
    BY <2>1, <2>2
<1>5. policy' \in Policies /\ l2' \in [Digest -> Result \cup {None}]
  BY DEF TypeOK
<1> QED
  BY <1>2, <1>3, <1>4, <1>5 DEF TypeOK, SessionType, Mode

\* When one session moves on, what the others stand for is not disturbed.
LEMMA StatementKept ==
  ASSUME TypeOK, TypeOK', StatementInv,
         NEW s \in Session, NEW c \in SessionType, session' = [session EXCEPT ![s] = c],
         generation <= generation', committed <= committed', writer' \in {writer, None, s},
         StatementOK(s, session[s])'
  PROVE  StatementInv'
<1> SUFFICES ASSUME NEW t \in Session, t # s PROVE StatementOK(t, session[t])'
  BY DEF StatementInv
<1>1. session'[t] = session[t] /\ session[t] \in SessionType
  BY DEF TypeOK, SessionType, Mode
<1>2. /\ generation \in Nat /\ generation' \in Nat /\ committed \in Nat /\ committed' \in Nat
      /\ session[t].target \in Nat /\ session[t].wrote \in Nat
  BY <1>1, Numbers DEF TypeOK, SessionType
<1>3. StatementOK(t, session[t])
  BY DEF StatementInv
<1> QED
  BY <1>1, <1>2, <1>3, ExecutorAssumption DEF StatementOK

\* Every step preserves the types and what the statements stand for.
LEMMA TypeStep == TypeOK /\ StatementInv /\ [Next]_vars => TypeOK' /\ StatementInv'
<1> SUFFICES ASSUME TypeOK, StatementInv, [Next]_vars PROVE TypeOK' /\ StatementInv'
  OBVIOUS
<1> USE DEF At, InTx, cacheVars
<1>a. /\ session \in [Session -> SessionType]
      /\ \A s \in Session : session[s] \in SessionType /\ StatementOK(s, session[s])
  BY DEF TypeOK, SessionType, Mode, StatementInv
<1>b. generation \in Nat /\ committed \in Nat
  BY Numbers DEF TypeOK
\* A step of s that writes to no cache but its own L1.
<1>c. ASSUME NEW s \in Session, NEW c \in SessionType, session' = [session EXCEPT ![s] = c],
             c.mode = "tx" <=> InTx(s), StatementOK(s, c),
             UNCHANGED <<l2, generation, buffers, databaseVars, announced, policy>>,
             l1' \in [Session -> Result \cup {None}]
      PROVE  TypeOK' /\ StatementInv'
  <2>1. session'[s] = c
    BY <1>c, <1>a
  <2>2. StatementOK(s, session[s])'
    BY <1>c, <2>1 DEF StatementOK, databaseVars
  <2>3. TypeOK'
    BY <1>c, TypeKept DEF TypeOK
  <2>4. generation <= generation' /\ committed <= committed' /\ writer' \in {writer, None, s}
    BY <1>b, <1>c DEF databaseVars
  <2> QED
    BY <1>c, <2>2, <2>3, <2>4, StatementKept
\* ... and goes on at label, or ends without a result.
<1>d. ASSUME NEW s \in Session, NEW label \in Label, Goto(s, label), session[s].mode # "closed",
             label # "bump", label \notin {"flush", "flushing"},
             label \in {"generation", "lookup", "query", "after", "store"} => session[s].query \in Query,
             label \in {"after", "store"} => session[s].result # None,
             UNCHANGED <<cacheVars, databaseVars, announced, policy>>
      PROVE  TypeOK' /\ StatementInv'
  <2> DEFINE c == [session[s] EXCEPT !.at = label]
  <2>1. session' = [session EXCEPT ![s] = c] /\ c \in SessionType
    BY <1>a, <1>d, Moves, Retyped
  <2>2. StatementOK(s, c) /\ c.mode = session[s].mode
    BY <1>a, <1>d DEF StatementOK, Fresh, SessionType
  <2> QED
    BY <1>c, <1>d, <2>1, <2>2 DEF TypeOK
<1>e. ASSUME NEW s \in Session, NEW result \in Result \cup {None}, Answer(s, result),
             session[s].mode # "closed",
             UNCHANGED <<l2, generation, buffers, databaseVars, announced, policy>>,
             l1' \in [Session -> Result \cup {None}]
      PROVE  TypeOK' /\ StatementInv'
  <2> DEFINE c == [session[s] EXCEPT !.at = "idle", !.result = result]
  <2>0. "idle" \in Label
    BY DEF Label
  <2>1. session' = [session EXCEPT ![s] = c] /\ c \in SessionType
    <3>1. session' = [session EXCEPT ![s] = c]
      BY <1>a, <1>e, <2>0, Moves DEF Answer
    <3>2. c \in SessionType
      BY <1>a, <2>0, Retyped
    <3> QED
      BY <3>1, <3>2
  <2>2. StatementOK(s, c) /\ c.mode = session[s].mode
    BY <1>a DEF StatementOK, Fresh, SessionType
  <2> QED
    BY <1>c, <1>e, <2>1, <2>2
<1>1. ASSUME NEW s \in Session, NEW mode \in {"plain", "tx"}, Open(s, mode)
      PROVE  TypeOK' /\ StatementInv'
  <2> DEFINE c == [Closed EXCEPT !.mode = mode]
  <2>1. session' = [session EXCEPT ![s] = c] /\ c \in SessionType
    BY <1>1, ClosedTyped DEF Open, Mode
  <2>2. session'[s] = c /\ c.mode = mode /\ c.at = "idle" /\ c.target = 0
    BY <1>a, <2>1 DEF Closed, SessionType
  <2>3. EmptyBuffer \in Buffer /\ EmptyBuffer # None
    BY EmptyTyped
  <2>4. \A t \in Session : buffers'[t] # None <=> InTx(t)' /\ policy'.transaction = "defer"
    BY <1>1, <1>a, <2>1, <2>2, <2>3 DEF Open, TypeOK
  <2>5. writer' # None => InTx(writer)' /\ fate'[latest'] = "open"
    BY <1>1, <1>a, <2>1, <2>2 DEF Open, TypeOK, databaseVars
  <2>6. buffers' \in [Session -> Buffer \cup {None}] /\ l1' \in [Session -> Result \cup {None}]
    BY <1>1, <2>3 DEF Open, TypeOK
  <2>7. session' \in [Session -> SessionType]
    BY <1>a, <2>1
  <2>8. TypeOK'
    BY <1>1, <2>4, <2>5, <2>6, <2>7 DEF Open, TypeOK, databaseVars, SessionType, Mode
  <2>9. StatementOK(s, session[s])'
    <3>1. session'[s].mode # "closed" /\ session'[s].at = "idle" /\ session'[s].target = 0
      BY <1>1, <2>2
    <3>2. generation' = generation
      BY <1>1 DEF Open
    <3> QED
      BY <1>b, <3>1, <3>2 DEF StatementOK, Fresh
  <2>10. generation <= generation' /\ committed <= committed' /\ writer' \in {writer, None, s}
    BY <1>b, <1>1 DEF Open, databaseVars
  <2> QED
    BY <2>1, <2>8, <2>9, <2>10, StatementKept
<1>2. ASSUME NEW s \in Session, NEW q \in Query, Ask(s, q) PROVE TypeOK' /\ StatementInv'
  <2>1. ASSUME NEW label \in {"idle", "query", "generation"}, NEW r \in Result \cup {None},
               Start(s, q, label, r)
        PROVE  TypeOK' /\ StatementInv'
    <3> DEFINE c == [Closed EXCEPT !.mode = session[s].mode, !.at = label, !.query = q, !.result = r]
    <3>0. session[s].mode \in Mode /\ label \in Label
      BY <1>a DEF SessionType, Label
    <3>1. session' = [session EXCEPT ![s] = c] /\ c \in SessionType
      BY <2>1, <3>0, ClosedTyped DEF Start
    <3>2. c.mode = session[s].mode /\ c.at = label /\ c.query = q /\ c.result = r /\ c.target = 0
      BY DEF Closed
    <3>3. StatementOK(s, c)
      BY <1>2, <1>b, <3>2 DEF Ask, StatementOK, Fresh
    <3> QED
      BY <1>2, <1>c, <3>1, <3>2, <3>3 DEF Ask, TypeOK
  <2>2. ASSUME buffers[s] # None PROVE buffers[s].pending[<<q, 0>>] \in Result \cup {None}
    BY <2>2, Numbers DEF TypeOK, Buffer, Digest
  <2> QED
    BY <1>2, <2>1, <2>2 DEF Ask
<1>3. ASSUME NEW s \in Session, NEW d \in Digest, FlushPut(s, d) PROVE TypeOK' /\ StatementInv'
  <2>1. buffers[s] \in Buffer /\ buffers[s].pending[d] \in Result
    BY <1>3 DEF FlushPut, Pending, TypeOK, Buffer
  <2>2. EmptyBuffer \in Buffer /\ [buffers[s] EXCEPT !.pending[d] = None] \in Buffer
    BY <2>1 DEF EmptyBuffer, Buffer
  <2>3. \E b \in Buffer : buffers' = [buffers EXCEPT ![s] = b]
    BY <1>3, <2>2 DEF FlushPut, TypeOK
  <2>4. /\ buffers' \in [Session -> Buffer \cup {None}]
        /\ \A t \in Session : buffers'[t] = None <=> buffers[t] = None
    BY <2>1, <2>3, ExecutorAssumption DEF TypeOK
  <2>5. l2' \in [Digest -> Result \cup {None}]
    BY <1>3, <2>1 DEF FlushPut, TypeOK
  <2>6. session' = [session EXCEPT ![s] = session[s]] /\ session'[s] = session[s]
    BY <1>3, <1>a DEF FlushPut
  <2>7. TypeOK'
    <3>1. /\ UNCHANGED <<policy, databaseVars, announced>>
          /\ generation' \in Generation /\ l1' \in [Session -> Result \cup {None}]
      BY <1>3 DEF FlushPut, TypeOK
    <3> QED
      BY <1>a, <2>4, <2>5, <2>6, <3>1, TypeKept
  <2>8. StatementOK(s, session[s])'
    BY <1>3, <1>a, <2>6 DEF FlushPut, StatementOK, databaseVars
  <2>9. generation <= generation' /\ committed <= committed' /\ writer' \in {writer, None, s}
    BY <1>b, <1>3 DEF FlushPut, databaseVars
  <2> QED
    BY <1>a, <2>6, <2>7, <2>8, <2>9, StatementKept
<1>4. ASSUME NEW s \in Session, Close(s) PROVE TypeOK' /\ StatementInv'
  <2>1. Closed \in SessionType /\ Closed.mode = "closed"
    BY ClosedTyped DEF Closed
  <2>2. StatementOK(s, Closed)
    BY <1>b DEF StatementOK, Fresh, Closed
  <2> QED
    BY <1>4, <1>c, <2>1, <2>2 DEF Close, TypeOK
<1>5. ASSUME NEW s \in Session, ReadGeneration(s) PROVE TypeOK' /\ StatementInv'
  <2> DEFINE c == [session[s] EXCEPT !.at = "lookup", !.target = generation]
  <2>1. generation \in Generation /\ "lookup" \in Label
    BY DEF TypeOK, Label
  <2>2. session' = [session EXCEPT ![s] = c] /\ c \in SessionType
    BY <1>5, <1>a, <2>1, Moves, Retyped DEF ReadGeneration
  <2>3. c.mode = session[s].mode /\ StatementOK(s, c)
    BY <1>5, <1>a, <1>b DEF ReadGeneration, StatementOK, Fresh, SessionType
  <2> QED
    BY <1>5, <1>c, <2>2, <2>3 DEF ReadGeneration, TypeOK
<1>6. ASSUME NEW s \in Session, GenerationFails(s) \/ LookupFails(s) PROVE TypeOK' /\ StatementInv'
  <2>1. CASE Goto(s, "query")
    BY <1>6, <1>a, <1>d, <2>1 DEF GenerationFails, LookupFails, StatementOK, Label
  <2>2. CASE Answer(s, None)
    BY <1>6, <1>e, <2>2 DEF GenerationFails, LookupFails, TypeOK
  <2> QED
    BY <1>6, <2>1, <2>2 DEF GenerationFails, LookupFails, MeetError
<1>7. ASSUME NEW s \in Session, Lookup(s) PROVE TypeOK' /\ StatementInv'
  <2> DEFINE shared == l2[<<session[s].query, session[s].target>>]
  <2>1. shared \in Result \cup {None}
    BY <1>7, <1>a DEF Lookup, StatementOK, SessionType, Digest, TypeOK
  <2>2. CASE l1[s] # None
    BY <1>7, <1>e, <2>2 DEF Lookup, TypeOK
  <2>3. CASE l1[s] = None /\ shared # None
    BY <1>7, <1>e, <2>1, <2>3 DEF Lookup, TypeOK
  <2>4. CASE l1[s] = None /\ shared = None
    BY <1>7, <1>a, <1>d, <2>4 DEF Lookup, StatementOK, Label
  <2> QED
    BY <2>2, <2>3, <2>4
<1>8. ASSUME NEW s \in Session, RunQuery(s) PROVE TypeOK' /\ StatementInv'
  <2> DEFINE r == [query |-> session[s].query, version |-> Visible(s)]
             c == [session[s] EXCEPT !.at = "after", !.result = r]
  <2>1. r \in Result /\ "after" \in Label /\ r # None
    BY <1>8, <1>a, ExecutorAssumption DEF RunQuery, StatementOK, SessionType, Result, Visible, TypeOK, Version, Label
  <2>2. CASE session' = [session EXCEPT ![s].at = "after", ![s].result = r]
    <3>1. session' = [session EXCEPT ![s] = c] /\ c \in SessionType
      BY <1>a, <2>1, <2>2, Moves, Retyped
    <3>2. c.mode = session[s].mode /\ StatementOK(s, c)
      BY <1>8, <1>a, <2>1 DEF RunQuery, StatementOK, Fresh, SessionType
    <3> QED
      BY <1>8, <1>c, <3>1, <3>2 DEF RunQuery, TypeOK
  <2>3. CASE Goto(s, "idle")
    BY <1>8, <1>d, <2>3 DEF RunQuery, Label
  <2> QED
    BY <1>8, <2>2, <2>3 DEF RunQuery
<1>f. ASSUME NEW s \in Session PROVE l1[s] \in Result \cup {None} /\ [l1 EXCEPT ![s] = None] \in [Session -> Result \cup {None}]
  BY DEF TypeOK
<1>9. ASSUME NEW s \in Session, After(s) PROVE TypeOK' /\ StatementInv'
  <2> DEFINE d == <<session[s].query, generation>>
             r == session[s].result
  <2>1. generation \in Generation /\ d \in Digest /\ r \in Result /\ r # None
    BY <1>9, <1>a DEF After, StatementOK, Fresh, SessionType, Digest, TypeOK
  <2>2. l1' \in [Session -> Result \cup {None}]
    BY <1>9, <2>1 DEF After, TypeOK
  <2>3. ASSUME NEW label \in {"store", "idle"},
               session' = [session EXCEPT ![s].at = label, ![s].target = generation]
        PROVE  \E c \in SessionType : /\ session' = [session EXCEPT ![s] = c]
                                      /\ c.mode = session[s].mode /\ StatementOK(s, c)
    <3> DEFINE c == [session[s] EXCEPT !.at = label, !.target = generation]
    <3>1. label \in Label
      BY DEF Label
    <3>2. session' = [session EXCEPT ![s] = c] /\ c \in SessionType
      BY <1>a, <2>1, <2>3, <3>1, Moves, Retyped
    <3>3. c.mode = session[s].mode /\ StatementOK(s, c)
      BY <1>9, <1>a, <1>b, <2>1 DEF After, StatementOK, Fresh, SessionType
    <3> QED
      BY <3>2, <3>3
  <2>4. CASE UNCHANGED buffers
    <3>1. PICK c \in SessionType : /\ session' = [session EXCEPT ![s] = c]
                                   /\ c.mode = session[s].mode /\ StatementOK(s, c)
      BY <1>9, <2>3, <2>4 DEF After
    <3> QED
      BY <1>9, <1>c, <2>2, <2>4, <3>1 DEF After
  <2>5. CASE /\ buffers[s] # None
             /\ buffers' = [buffers EXCEPT ![s].pending[d] = r]
             /\ session' = [session EXCEPT ![s].at = "idle", ![s].target = generation]
    <3>1. PICK c \in SessionType : /\ session' = [session EXCEPT ![s] = c]
                                   /\ c.mode = session[s].mode /\ StatementOK(s, c)
      BY <2>3, <2>5
    <3>2. session'[s] = c
      BY <1>a, <3>1
    <3>3. buffers[s] \in Buffer /\ [buffers[s] EXCEPT !.pending[d] = r] \in Buffer
      BY <2>1, <2>5 DEF TypeOK, Buffer
    <3>4. /\ buffers' \in [Session -> Buffer \cup {None}]
          /\ \A t \in Session : buffers'[t] = None <=> buffers[t] = None
      BY <2>5, <3>3, ExecutorAssumption DEF TypeOK
    <3>5. /\ UNCHANGED <<policy, databaseVars, announced>>
          /\ generation' \in Generation /\ l2' \in [Digest -> Result \cup {None}]
      BY <1>9 DEF After, TypeOK
    <3>6. TypeOK'
      BY <2>2, <3>1, <3>4, <3>5, TypeKept
    <3>7. generation <= generation' /\ committed <= committed' /\ writer' \in {writer, None, s}
      BY <1>9, <1>b DEF After, databaseVars
    <3>8. StatementOK(s, session[s])'
      BY <1>9, <3>1, <3>2 DEF After, databaseVars, StatementOK
    <3> QED
      BY <3>1, <3>6, <3>7, <3>8, StatementKept
  <2> QED
    BY <1>9, <2>4, <2>5 DEF After
<1>10. ASSUME NEW s \in Session, AfterFails(s) PROVE TypeOK' /\ StatementInv'
  BY <1>10, <1>d DEF AfterFails, Label
<1>11. ASSUME NEW s \in Session, Store(s) PROVE TypeOK' /\ StatementInv'
  <2> DEFINE d == <<session[s].query, session[s].target>>
  <2>1. d \in Digest /\ session[s].result \in Result
    BY <1>11, <1>a DEF Store, StatementOK, Fresh, SessionType, Digest
  <2>2. l2' \in [Digest -> Result \cup {None}]
    BY <1>11, <2>1 DEF Store, TypeOK
  <2>3. PICK c \in SessionType : /\ session' = [session EXCEPT ![s] = c]
                                 /\ c.mode = session[s].mode /\ StatementOK(s, c)
    <3> DEFINE c1 == [session[s] EXCEPT !.at = "idle"]
               c2 == [session[s] EXCEPT !.at = "idle", !.result = None]
    <3>0. "idle" \in Label
      BY DEF Label
    <3>1. c1 \in SessionType /\ c2 \in SessionType
      BY <1>a, <3>0, Retyped
    <3>2. session' = [session EXCEPT ![s] = c1] \/ session' = [session EXCEPT ![s] = c2]
      <4>1. CASE Goto(s, "idle")
        BY <4>1 DEF Goto
      <4>2. CASE Answer(s, None)
        <5>1. None \in Result \cup {None} /\ session \in [Session -> SessionType]
          BY <1>a
        <5> QED
          BY <3>0, <4>2, <5>1, Answers
      <4> QED
        BY <1>11, <4>1, <4>2 DEF Store, MeetError
    <3>3. /\ c1.mode = session[s].mode /\ StatementOK(s, c1)
          /\ c2.mode = session[s].mode /\ StatementOK(s, c2)
      BY <1>a DEF StatementOK, Fresh, SessionType
    <3> QED
      BY <3>1, <3>2, <3>3
  <2>4. /\ UNCHANGED <<policy, databaseVars, announced>>
        /\ generation' \in Generation /\ l1' \in [Session -> Result \cup {None}]
        /\ buffers' \in [Session -> Buffer \cup {None}]
        /\ \A t \in Session : buffers'[t] = None <=> buffers[t] = None
    BY <1>11 DEF Store, TypeOK
  <2>5. TypeOK'
    BY <2>2, <2>3, <2>4, TypeKept
  <2>6. generation <= generation' /\ committed <= committed' /\ writer' \in {writer, None, s}
    BY <1>11, <1>b DEF Store, databaseVars
  <2>7. StatementOK(s, session[s])'
    <3>1. session'[s] = c
      BY <1>a, <2>3
    <3> QED
      BY <1>11, <2>3, <3>1 DEF Store, databaseVars, StatementOK
  <2> QED
    BY <2>3, <2>5, <2>6, <2>7, StatementKept
\* A step of s in which the backend's generation may grow.
<1>g. ASSUME NEW s \in Session, NEW c \in SessionType, session' = [session EXCEPT ![s] = c],
             c.mode = session[s].mode, StatementOK(s, c)',
             UNCHANGED <<l1, l2, buffers, databaseVars, policy>>,
             generation' \in {generation, generation + 1} \cap Generation,
             announced' \in 0..committed
      PROVE  TypeOK' /\ StatementInv'
  <2>1. session'[s] = c
    BY <1>g, <1>a
  <2>2. TypeOK'
    <3>1. /\ l1' \in [Session -> Result \cup {None}] /\ generation' \in Generation
          /\ buffers' \in [Session -> Buffer \cup {None}]
          /\ \A t \in Session \ {s} : buffers'[t] = buffers[t]
          /\ buffers'[s] # None <=> c.mode = "tx" /\ policy.transaction = "defer"
      BY <1>g DEF TypeOK
    <3>2. /\ policy' = policy /\ l2' = l2
          /\ writer' \in Session \cup {None}
          /\ writer' # None => fate'[latest'] = "open"
          /\ writer' = s => c.mode = "tx"
          /\ writer' \notin {None, s} => writer' = writer
          /\ latest' \in Version /\ committed' \in 0..latest' /\ announced' \in 0..committed'
          /\ fate' \in [Version -> {"unused", "open", "overwritten", "committed", "aborted"}]
      BY <1>g, ExecutorAssumption DEF TypeOK, databaseVars
    <3> QED
      BY <1>g, <3>1, <3>2, TypeMade
  <2>3. generation <= generation' /\ committed <= committed' /\ writer' \in {writer, None, s}
    BY <1>b, <1>g DEF databaseVars
  <2>4. StatementOK(s, session[s])'
    BY <1>g, <2>1 DEF StatementOK
  <2> QED
    BY <1>g, <2>2, <2>3, <2>4, StatementKept
<1>12. ASSUME NEW s \in Session, Update(s) PROVE TypeOK' /\ StatementInv'
  <2> DEFINE c == [Closed EXCEPT !.mode = "plain", !.at = "bump", !.wrote = latest + 1]
  <2>1. latest \in Nat /\ latest + 1 \in Version
    BY <1>12, Numbers DEF Update, TypeOK, Version
  <2>2. c \in SessionType
    BY <2>1, ClosedTyped DEF Mode, Label
  <2>3. c.mode = "plain" /\ c.at = "bump" /\ c.wrote = latest + 1 /\ c.target = 0
    BY DEF Closed
  <2>4. session' = [session EXCEPT ![s] = c] /\ session'[s] = c
    BY <1>12, <1>a DEF Update
  <2>5. TypeOK'
    <3>1. /\ l1' \in [Session -> Result \cup {None}] /\ generation' \in Generation
          /\ buffers' \in [Session -> Buffer \cup {None}]
          /\ \A t \in Session \ {s} : buffers'[t] = buffers[t]
          /\ buffers'[s] # None <=> c.mode = "tx" /\ policy.transaction = "defer"
      BY <1>12, <1>f, <2>3 DEF Update, TypeOK
    <3>2. /\ policy' = policy /\ l2' = l2 /\ writer' = None
          /\ latest' \in Version /\ committed' \in 0..latest' /\ announced' \in 0..committed'
          /\ fate' \in [Version -> {"unused", "open", "overwritten", "committed", "aborted"}]
      BY <1>12, <2>1 DEF Update, TypeOK
    <3>3. writer' = s => c.mode = "tx"
      BY <3>2, ExecutorAssumption
    <3> QED
      BY <2>2, <2>4, <3>1, <3>2, <3>3, TypeMade
  <2>6. generation <= generation' /\ committed <= committed' /\ writer' \in {writer, None, s}
    BY <1>12, <1>b, <2>1 DEF Update, TypeOK
  <2>7. StatementOK(s, session[s])'
    <3>1. generation' = generation /\ committed' = latest + 1
      BY <1>12 DEF Update
    <3>2. /\ session'[s].mode = "plain" /\ session'[s].at = "bump"
          /\ session'[s].wrote = latest + 1 /\ session'[s].target = 0
      BY <2>3, <2>4
    <3> QED
      BY <1>b, <2>1, <3>1, <3>2 DEF StatementOK, Fresh
  <2> QED
    BY <2>2, <2>4, <2>5, <2>6, <2>7, StatementKept
<1>13. ASSUME NEW s \in Session, Bump(s) PROVE TypeOK' /\ StatementInv'
  <2>1. PICK c \in SessionType : /\ session' = [session EXCEPT ![s] = c]
                                 /\ c.mode = session[s].mode /\ c.at = "idle"
                                 /\ c.target = session[s].target
    <3> DEFINE c1 == [session[s] EXCEPT !.at = "idle"]
    <3>1. session' = [session EXCEPT ![s] = c1] /\ c1 \in SessionType
      BY <1>13, <1>a, Moves, Retyped DEF Bump, Label
    <3>2. c1.mode = session[s].mode /\ c1.at = "idle" /\ c1.target = session[s].target
      BY <1>a DEF SessionType
    <3> QED
      BY <3>1, <3>2
  <2>2. StatementOK(s, c)'
    <3>1. c.target <= generation'
      BY <1>13, <1>a, <1>b, <2>1, Numbers DEF Bump, StatementOK, SessionType
    <3> QED
      BY <2>1, <3>1 DEF StatementOK, Fresh
  <2>3. announced' \in 0..committed
    BY <1>13, <1>a, Numbers DEF Bump, Larger, StatementOK, SessionType, TypeOK
  <2>4. generation' \in {generation, generation + 1} \cap Generation
    BY <1>13, <1>b, Numbers DEF Bump, Generation
  <2>5. UNCHANGED <<l1, l2, buffers, databaseVars, policy>>
    BY <1>13 DEF Bump
  <2> QED
    BY <1>g, <2>1, <2>2, <2>3, <2>4, <2>5
<1>14. ASSUME NEW s \in Session, BumpFails(s) PROVE TypeOK' /\ StatementInv'
  <2>0. "idle" \in Label /\ announced' \in 0..committed
    BY <1>14 DEF Label, BumpFails, TypeOK
  <2>1. PICK c \in SessionType : /\ session' = [session EXCEPT ![s] = c]
                                 /\ c.mode = session[s].mode /\ c.at = "idle"
                                 /\ c.target = session[s].target
    <3> DEFINE c1 == [session[s] EXCEPT !.at = "idle"]
               c2 == [session[s] EXCEPT !.at = "idle", !.result = None]
    <3>1. c1 \in SessionType /\ c2 \in SessionType
      BY <1>a, <2>0, Retyped
    <3>2. session' = [session EXCEPT ![s] = c1] \/ session' = [session EXCEPT ![s] = c2]
      <4>1. CASE Goto(s, "idle")
        BY <4>1 DEF Goto
      <4>2. CASE Answer(s, None)
        <5>1. None \in Result \cup {None} /\ session \in [Session -> SessionType]
          BY <1>a
        <5> QED
          BY <2>0, <4>2, <5>1, Answers
      <4> QED
        BY <1>14, <4>1, <4>2 DEF BumpFails, MeetError
    <3>3. /\ c1.mode = session[s].mode /\ c1.at = "idle" /\ c1.target = session[s].target
          /\ c2.mode = session[s].mode /\ c2.at = "idle" /\ c2.target = session[s].target
      BY <1>a DEF SessionType
    <3> QED
      BY <3>1, <3>2, <3>3
  <2>2. StatementOK(s, c)'
    <3>1. c.target <= generation'
      BY <1>14, <1>a, <1>b, <2>1, Numbers DEF BumpFails, StatementOK, SessionType
    <3> QED
      BY <2>1, <3>1 DEF StatementOK, Fresh
  <2> QED
    BY <1>14, <1>g, <2>0, <2>1, <2>2 DEF BumpFails
<1>15. ASSUME NEW s \in Session, UpdateInTx(s) PROVE TypeOK' /\ StatementInv'
  <2> DEFINE c == [Closed EXCEPT !.mode = "tx"]
  <2>1. latest \in Nat /\ latest + 1 \in Version
    BY <1>15, Numbers DEF UpdateInTx, TypeOK, Version
  <2>2. c \in SessionType
    BY ClosedTyped DEF Mode
  <2>3. c.mode = "tx" /\ c.at = "idle" /\ c.target = 0
    BY DEF Closed
  <2>4. session' = [session EXCEPT ![s] = c] /\ session'[s] = c
    BY <1>15, <1>a DEF UpdateInTx
  <2>5. /\ buffers' \in [Session -> Buffer \cup {None}]
        /\ \A t \in Session \ {s} : buffers'[t] = buffers[t]
        /\ buffers'[s] # None <=> buffers[s] # None
    <3>1. CASE buffers[s] = None
      BY <1>15, <3>1 DEF UpdateInTx, TypeOK
    <3>2. CASE buffers[s] # None
      <4>1. [buffers[s] EXCEPT !.marked = TRUE] \in Buffer
        <5>1. buffers[s] \in Buffer
          BY <3>2 DEF TypeOK
        <5> QED
          BY <5>1 DEF Buffer
      <4>2. PICK b \in Buffer : buffers' = [buffers EXCEPT ![s] = b]
        BY <1>15, <3>2, <4>1 DEF UpdateInTx
      <4>3. b # None
        BY ExecutorAssumption
      <4>4. buffers \in [Session -> Buffer \cup {None}]
        BY DEF TypeOK
      <4>5. buffers' \in [Session -> Buffer \cup {None}]
        BY <4>2, <4>4
      <4>6. buffers'[s] = b /\ \A t \in Session \ {s} : buffers'[t] = buffers[t]
        BY <4>2, <4>4
      <4> QED
        BY <3>2, <4>3, <4>5, <4>6
    <3> QED
      BY <3>1, <3>2
  <2>6. TypeOK'
    <3>1. /\ l1' \in [Session -> Result \cup {None}] /\ generation' \in Generation
          /\ buffers'[s] # None <=> c.mode = "tx" /\ policy.transaction = "defer"
      BY <1>15, <1>f, <2>3, <2>5 DEF UpdateInTx, TypeOK
    <3>2. /\ policy' = policy /\ l2' = l2 /\ writer' = s /\ latest' = latest + 1
          /\ latest' \in Version /\ committed' \in 0..latest' /\ announced' \in 0..committed'
      BY <1>15, <2>1 DEF UpdateInTx, TypeOK
    <3>3. /\ fate' \in [Version -> {"unused", "open", "overwritten", "committed", "aborted"}]
          /\ fate'[latest'] = "open"
      BY <1>15, <2>1 DEF UpdateInTx, TypeOK
    <3> QED
      BY <2>2, <2>3, <2>4, <2>5, <3>1, <3>2, <3>3, TypeMade
  <2>7. generation <= generation' /\ committed <= committed' /\ writer' \in {writer, None, s}
    BY <1>15, <1>b DEF UpdateInTx
  <2>8. StatementOK(s, session[s])'
    <3>1. generation' = generation
      BY <1>15 DEF UpdateInTx
    <3>2. session'[s].mode = "tx" /\ session'[s].at = "idle" /\ session'[s].target = 0
      BY <2>3, <2>4
    <3> QED
      BY <1>b, <3>1, <3>2 DEF StatementOK, Fresh
  <2> QED
    BY <2>2, <2>4, <2>6, <2>7, <2>8, StatementKept
<1>16. ASSUME NEW s \in Session, Commit(s) PROVE TypeOK' /\ StatementInv'
  <2> DEFINE w == IF writer = s THEN latest ELSE 0
             c == [Closed EXCEPT !.mode = "tx", !.at = "flush", !.wrote = w]
  <2>1. w \in Version
    BY Numbers DEF TypeOK
  <2>2. c \in SessionType
    BY <2>1, ClosedTyped DEF Mode, Label
  <2>3. c.mode = "tx" /\ c.at = "flush" /\ c.target = 0 /\ c.wrote = w
    BY DEF Closed
  <2>4. session' = [session EXCEPT ![s] = c] /\ session'[s] = c
    BY <1>16, <1>a DEF Commit
  <2>5. /\ latest' = latest /\ committed' \in {committed, latest} /\ writer' \in {writer, None}
        /\ writer' # s /\ w <= committed' /\ committed <= committed' /\ committed' <= latest
        /\ fate' \in [Version -> {"unused", "open", "overwritten", "committed", "aborted"}]
        /\ writer' # None => fate' = fate
    <3>0. s # None /\ latest \in Nat /\ committed <= latest /\ 0 <= committed
      BY <1>b, Numbers, ExecutorAssumption DEF TypeOK
    <3>1. CASE writer = s
      <4>1. /\ latest' = latest /\ committed' = latest /\ writer' = None /\ w = latest
            /\ fate' = [fate EXCEPT ![latest] = "committed"]
        BY <1>16, <3>1 DEF Commit
      <4> QED
        BY <1>b, <3>0, <4>1 DEF TypeOK
    <3>2. CASE writer # s
      BY <1>16, <1>b, <3>0, <3>2 DEF Commit, TypeOK
    <3> QED
      BY <3>1, <3>2
  <2>6. TypeOK'
    <3>1. /\ l1' \in [Session -> Result \cup {None}] /\ generation' \in Generation
          /\ buffers' \in [Session -> Buffer \cup {None}]
          /\ \A t \in Session \ {s} : buffers'[t] = buffers[t]
          /\ buffers'[s] # None <=> c.mode = "tx" /\ policy.transaction = "defer"
      BY <1>16, <2>3 DEF Commit, TypeOK
    <3>2. /\ policy' = policy /\ l2' = l2
          /\ latest' \in Version /\ committed' \in 0..latest' /\ announced' \in 0..committed'
      BY <1>16, <1>b, <2>5, Numbers DEF Commit, TypeOK
    <3>3. /\ writer' \in Session \cup {None}
          /\ writer' # None => fate'[latest'] = "open"
      BY <2>5 DEF TypeOK
    <3> QED
      BY <2>2, <2>3, <2>4, <2>5, <3>1, <3>2, <3>3, TypeMade
  <2>7. generation <= generation' /\ committed <= committed' /\ writer' \in {writer, None, s}
    BY <1>16, <1>b, <2>5 DEF Commit
  <2>8. StatementOK(s, session[s])'
    <3>1. generation' = generation
      BY <1>16 DEF Commit
    <3>2. /\ session'[s].mode = "tx" /\ session'[s].at = "flush"
          /\ session'[s].wrote = w /\ session'[s].target = 0
      BY <2>3, <2>4
    <3> QED
      BY <1>b, <2>5, <3>1, <3>2 DEF StatementOK, Fresh
  <2> QED
    BY <2>2, <2>4, <2>6, <2>7, <2>8, StatementKept
\* A step of s that closes its executor and throws its buffer away.
<1>h. ASSUME NEW s \in Session, session' = [session EXCEPT ![s] = Closed],
             buffers' = [buffers EXCEPT ![s] = None], writer' \in {None, writer}, writer' # s,
             writer' # None => fate' = fate,
             fate' \in [Version -> {"unused", "open", "overwritten", "committed", "aborted"}],
             generation' \in {generation, generation + 1} \cap Generation,
             UNCHANGED <<l1, l2, committed, latest, announced, policy>>
      PROVE  TypeOK' /\ StatementInv'
  <2>1. Closed \in SessionType /\ session'[s] = Closed
    BY <1>a, <1>h, ClosedTyped
  <2>2. Closed.mode = "closed" /\ Closed.at = "idle" /\ Closed.target = 0
    BY DEF Closed
  <2>3. TypeOK'
    <3>1. /\ buffers' \in [Session -> Buffer \cup {None}]
          /\ \A t \in Session \ {s} : buffers'[t] = buffers[t]
          /\ buffers'[s] # None <=> Closed.mode = "tx" /\ policy.transaction = "defer"
      BY <1>h, <2>2 DEF TypeOK
    <3>2. /\ policy' = policy /\ l2' = l2 /\ writer' \in Session \cup {None}
          /\ writer' # None => fate'[latest'] = "open"
          /\ writer' = s => Closed.mode = "tx"
          /\ writer' \notin {None, s} => writer' = writer
      BY <1>h DEF TypeOK
    <3>3. /\ l1' \in [Session -> Result \cup {None}] /\ generation' \in Generation
          /\ latest' \in Version /\ committed' \in 0..latest' /\ announced' \in 0..committed'
      BY <1>h DEF TypeOK
    <3> QED
      BY <1>h, <2>1, <3>1, <3>2, <3>3, TypeMade
  <2>4. generation <= generation' /\ committed <= committed' /\ writer' \in {writer, None, s}
    BY <1>h, <1>b
  <2>5. StatementOK(s, session[s])'
    <3>1. session'[s].mode = "closed" /\ session'[s].at = "idle" /\ session'[s].target = 0
      BY <2>1, <2>2
    <3> QED
      BY <1>b, <2>4, <3>1, Numbers, <1>h DEF StatementOK, Fresh
  <2> QED
    BY <1>h, <2>1, <2>3, <2>4, <2>5, StatementKept
<1>17. ASSUME NEW s \in Session, Rollback(s) PROVE TypeOK' /\ StatementInv'
  <2>1. /\ writer' \in {None, writer} /\ writer' # s /\ (writer' # None => fate' = fate)
        /\ fate' \in [Version -> {"unused", "open", "overwritten", "committed", "aborted"}]
    BY <1>17, ExecutorAssumption DEF Rollback, TypeOK
  <2>2. generation' \in {generation, generation + 1} \cap Generation
    BY <1>17 DEF Rollback, TypeOK
  <2> QED
    BY <1>17, <1>h, <2>1, <2>2 DEF Rollback
<1>18. ASSUME NEW s \in Session, FlushFails(s) \/ FlushEnds(s) PROVE TypeOK' /\ StatementInv'
  <2>1. writer # s
    BY <1>18, <1>a DEF FlushFails, FlushEnds, StatementOK
  <2>2. /\ writer' \in {None, writer} /\ writer' # s /\ (writer' # None => fate' = fate)
        /\ fate' \in [Version -> {"unused", "open", "overwritten", "committed", "aborted"}]
    BY <1>18, <2>1 DEF FlushFails, FlushEnds, TypeOK, databaseVars
  <2>3. generation' \in {generation, generation + 1} \cap Generation
    BY <1>18 DEF FlushFails, FlushEnds, TypeOK
  <2>4. /\ session' = [session EXCEPT ![s] = Closed] /\ buffers' = [buffers EXCEPT ![s] = None]
        /\ UNCHANGED <<l1, l2, committed, latest, announced, policy>>
    BY <1>18 DEF FlushFails, FlushEnds, databaseVars
  <2> QED
    BY <1>h, <2>2, <2>3, <2>4
<1>19. ASSUME NEW s \in Session, FlushBump(s) PROVE TypeOK' /\ StatementInv'
  <2>1. PICK c \in SessionType : /\ session' = [session EXCEPT ![s] = c]
                                 /\ c.mode = session[s].mode /\ c.at = "flushing"
                                 /\ c.target = session[s].target
    <3> DEFINE c1 == [session[s] EXCEPT !.at = "flushing"]
    <3>1. "flushing" \in Label
      BY DEF Label
    <3>2. session' = [session EXCEPT ![s] = c1] /\ c1 \in SessionType
      BY <1>19, <1>a, <3>1, Moves, Retyped DEF FlushBump
    <3>3. c1.mode = session[s].mode /\ c1.at = "flushing" /\ c1.target = session[s].target
      BY <1>a DEF SessionType
    <3> QED
      BY <3>2, <3>3
  <2>2. generation' \in {generation, generation + 1} \cap Generation /\ generation <= generation'
    BY <1>19, <1>b, Numbers DEF FlushBump, Generation, TypeOK
  <2>3. announced' \in 0..committed
    BY <1>19, <1>a, Numbers DEF FlushBump, Larger, StatementOK, SessionType, TypeOK
  <2>4. StatementOK(s, c)'
    <3>1. session[s].mode = "tx" /\ writer' # s
      BY <1>19, <1>a DEF FlushBump, StatementOK, databaseVars
    <3>2. session[s].target <= generation'
      BY <1>a, <1>b, <2>2, Numbers DEF StatementOK, SessionType
    <3> QED
      BY <2>1, <3>1, <3>2 DEF StatementOK, Fresh
  <2>5. UNCHANGED <<l1, l2, buffers, databaseVars, policy>>
    BY <1>19 DEF FlushBump
  <2> QED
    BY <1>g, <2>1, <2>2, <2>3, <2>4, <2>5
<1>20. ASSUME UNCHANGED <<session, generation, buffers, databaseVars, announced, policy>>,
              l1' \in [Session -> Result \cup {None}], l2' \in [Digest -> Result \cup {None}]
       PROVE  TypeOK' /\ StatementInv'
  BY <1>20 DEF TypeOK, StatementInv, StatementOK, Fresh, databaseVars
<1>21. ASSUME NEW s \in Session, LoseL1(s) PROVE TypeOK' /\ StatementInv'
  BY <1>20, <1>21, <1>f DEF LoseL1, TypeOK
<1>22. ASSUME NEW d \in Digest, LoseL2(d) PROVE TypeOK' /\ StatementInv'
  BY <1>20, <1>22 DEF LoseL2, TypeOK
<1>23. CASE UNCHANGED vars
  BY <1>20, <1>23 DEF vars, TypeOK, databaseVars
<1> QED
  BY <1>1, <1>2, <1>3, <1>4, <1>5, <1>6, <1>7, <1>8, <1>9, <1>10, <1>11, <1>12, <1>13, <1>14,
     <1>15, <1>16, <1>17, <1>18, <1>19, <1>21, <1>22, <1>23 DEF Next

-----------------------------------------------------------------------------
(* What becomes of versions.                                               *)

\* The committed version is one that was committed, none newer was, and versions
\* not written yet have no fate.
FateInv ==
  /\ fate[committed] = "committed"
  /\ \A v \in Version : /\ fate[v] = "committed" => v <= committed
                        /\ v > latest => fate[v] = "unused"

\* The steps that write to the database, and those that do not.
Writes(s) == Update(s) \/ UpdateInTx(s) \/ Commit(s) \/ Rollback(s)

\* Every other step leaves the database alone.
LEMMA WritesOrNot ==
  [Next]_vars => UNCHANGED databaseVars \/ \E s \in Session : Writes(s)
BY DEF Next, vars, databaseVars, Writes, cacheVars, Open, Close, Ask, ReadGeneration,
   GenerationFails, Lookup, LookupFails, RunQuery, After, AfterFails, Store, Bump, BumpFails,
   FlushBump, FlushFails, FlushPut, FlushEnds, LoseL1, LoseL2

\* FateInv is preserved.
LEMMA FateStep == TypeOK /\ TypeOK' /\ FateInv /\ [Next]_vars => FateInv'
<1> SUFFICES ASSUME TypeOK, TypeOK', FateInv, [Next]_vars PROVE FateInv'
  OBVIOUS
<1>a. /\ latest \in Nat /\ committed \in Nat /\ committed <= latest
      /\ latest \in Version /\ committed \in Version /\ \A v \in Version : v \in Nat
      /\ fate \in [Version -> {"unused", "open", "overwritten", "committed", "aborted"}]
  BY Numbers DEF TypeOK, Version
<1>b. latest' \in Version /\ committed' \in Version
  BY Numbers DEF TypeOK, Version
<1>1. CASE UNCHANGED databaseVars
  BY <1>1 DEF databaseVars, FateInv
<1>2. ASSUME NEW s \in Session, Update(s) PROVE FateInv'
  <2>1. /\ latest' = latest + 1 /\ committed' = latest + 1
        /\ fate' = [fate EXCEPT ![latest + 1] = "committed"]
    BY <1>2 DEF Update
  <2> QED
    BY <1>a, <1>b, <2>1 DEF FateInv
<1>3. ASSUME NEW s \in Session, UpdateInTx(s) PROVE FateInv'
  <2>1. /\ latest' = latest + 1 /\ committed' = committed
        /\ fate' = [v \in Version |-> IF v = latest + 1 THEN "open"
                                      ELSE IF fate[v] = "open" THEN "overwritten" ELSE fate[v]]
    BY <1>3 DEF UpdateInTx
  <2> QED
    BY <1>a, <1>b, <2>1 DEF FateInv
<1>4. ASSUME NEW s \in Session, Commit(s) PROVE FateInv'
  <2>1. CASE writer = s
    <3>1. /\ latest' = latest /\ committed' = latest
          /\ fate' = [fate EXCEPT ![latest] = "committed"]
      BY <1>4, <2>1 DEF Commit
    <3> QED
      BY <1>a, <1>b, <3>1 DEF FateInv
  <2>2. CASE writer # s
    BY <1>4, <1>a, <2>2 DEF Commit, FateInv
  <2> QED
    BY <2>1, <2>2
<1>5. ASSUME NEW s \in Session, Rollback(s) PROVE FateInv'
  <2>1. CASE writer = s
    <3>1. /\ latest' = latest /\ committed' = committed
          /\ fate' = [v \in Version |-> IF v \in committed+1..latest THEN "aborted" ELSE fate[v]]
      BY <1>5, <2>1 DEF Rollback
    <3> QED
      BY <1>a, <1>b, <3>1 DEF FateInv
  <2>2. CASE writer # s
    BY <1>5, <1>a, <2>2 DEF Rollback, FateInv
  <2> QED
    BY <2>1, <2>2
<1> QED
  BY <1>1, <1>2, <1>3, <1>4, <1>5, WritesOrNot DEF Writes

\* What the database does for one session keeps what another can read.
DatabaseKept(s) ==
  /\ Visible(s) <= Visible(s)'
  /\ \A v \in Version : v <= Visible(s) =>
       /\ fate[v] # "aborted" => fate'[v] # "aborted"
       /\ fate[v] = "committed" => fate'[v] = "committed"
  /\ writer' = s <=> writer = s

\* A step that leaves the database alone keeps everything ...
LEMMA QuietDatabase ==
  ASSUME TypeOK, UNCHANGED databaseVars, NEW s \in Session PROVE DatabaseKept(s)
BY Numbers DEF TypeOK, databaseVars, DatabaseKept, Visible

\* ... and so does a write, for every session but the one that writes.
LEMMA DatabaseStep ==
  ASSUME TypeOK, TypeOK', FateInv, NEW t \in Session, Writes(t), NEW s \in Session \ {t}
  PROVE  DatabaseKept(s)
<1>a. /\ latest \in Nat /\ committed \in Nat /\ committed <= latest
      /\ latest \in Version /\ committed \in Version /\ \A v \in Version : v \in Nat
      /\ fate \in [Version -> {"unused", "open", "overwritten", "committed", "aborted"}]
      /\ s # None /\ t # None
  BY Numbers, ExecutorAssumption DEF TypeOK, Version
<1>1. CASE Update(t)
  <2>1. /\ latest' = latest + 1 /\ committed' = latest + 1 /\ writer' = None /\ writer = None
        /\ fate' = [fate EXCEPT ![latest + 1] = "committed"]
    BY <1>1 DEF Update
  <2> QED
    BY <1>a, <2>1 DEF DatabaseKept, Visible
<1>2. CASE UpdateInTx(t)
  <2>1. /\ latest' = latest + 1 /\ committed' = committed /\ writer' = t /\ writer # s
        /\ fate' = [v \in Version |-> IF v = latest + 1 THEN "open"
                                      ELSE IF fate[v] = "open" THEN "overwritten" ELSE fate[v]]
    BY <1>2, <1>a DEF UpdateInTx
  <2> QED
    BY <1>a, <2>1 DEF DatabaseKept, Visible
<1>3. CASE Commit(t) /\ writer = t
  <2>1. /\ latest' = latest /\ committed' = latest /\ writer' = None
        /\ fate' = [fate EXCEPT ![latest] = "committed"]
    BY <1>3 DEF Commit
  <2> QED
    BY <1>3, <1>a, <2>1 DEF DatabaseKept, Visible
<1>4. CASE Rollback(t) /\ writer = t
  <2>1. /\ latest' = latest /\ committed' = committed /\ writer' = None
        /\ fate' = [v \in Version |-> IF v \in committed+1..latest THEN "aborted" ELSE fate[v]]
    BY <1>4 DEF Rollback
  <2> QED
    BY <1>4, <1>a, <2>1 DEF DatabaseKept, Visible
<1>5. CASE (Commit(t) \/ Rollback(t)) /\ writer # t
  <2>1. UNCHANGED databaseVars
    BY <1>5 DEF Commit, Rollback, databaseVars
  <2> QED
    BY <2>1, QuietDatabase
<1> QED
  BY <1>1, <1>2, <1>3, <1>4, <1>5 DEF Writes

\* The committed version only moves forward, and what was committed stays so.
LEMMA CommittedKept ==
  ASSUME TypeOK, TypeOK', FateInv, [Next]_vars
  PROVE  /\ committed <= committed'
         /\ \A v \in Version : v <= committed =>
              /\ fate[v] # "aborted" => fate'[v] # "aborted"
              /\ fate[v] = "committed" => fate'[v] = "committed"
<1>a. /\ latest \in Nat /\ committed \in Nat /\ committed <= latest
      /\ latest \in Version /\ committed \in Version /\ \A v \in Version : v \in Nat
      /\ fate \in [Version -> {"unused", "open", "overwritten", "committed", "aborted"}]
  BY Numbers DEF TypeOK, Version
<1>1. CASE UNCHANGED databaseVars
  BY <1>1, <1>a DEF databaseVars
<1>2. ASSUME NEW t \in Session, Writes(t)
      PROVE  /\ committed' \in {committed, latest, latest + 1}
             /\ \A v \in Version : v <= committed =>
                  /\ fate[v] # "aborted" => fate'[v] # "aborted"
                  /\ fate[v] = "committed" => fate'[v] = "committed"
  <2>1. CASE Update(t)
    BY <1>a, <2>1 DEF Update
  <2>2. CASE UpdateInTx(t)
    BY <1>a, <2>2 DEF UpdateInTx
  <2>3. CASE Commit(t)
    BY <1>a, <2>3 DEF Commit
  <2>4. CASE Rollback(t)
    BY <1>a, <2>4 DEF Rollback
  <2> QED
    BY <1>2, <2>1, <2>2, <2>3, <2>4 DEF Writes
<1> QED
  BY <1>a, <1>1, <1>2, WritesOrNot

-----------------------------------------------------------------------------
(* One session moves at a time.                                            *)

\* The steps that move a statement or its executor along, and those that touch the
\* transaction's buffer.
MovesStatement(s) ==
  \/ \E mode \in {"plain", "tx"} : Open(s, mode)
  \/ \E q \in Query : Ask(s, q)
  \/ Close(s) \/ ReadGeneration(s) \/ GenerationFails(s) \/ Lookup(s) \/ LookupFails(s)
  \/ RunQuery(s) \/ AfterFails(s) \/ Store(s) \/ Bump(s) \/ BumpFails(s)
MovesBuffer(s) ==
  \/ \E d \in Digest : FlushPut(s, d)
  \/ After(s) \/ FlushBump(s) \/ FlushFails(s) \/ FlushEnds(s)
Step(s) == MovesStatement(s) \/ MovesBuffer(s) \/ Writes(s) \/ LoseL1(s)

\* A step is one of a session, or the loss of a shared entry.
LEMMA OneMoves ==
  [Next]_vars => \/ \E s \in Session : Step(s)
                 \/ \E d \in Digest : LoseL2(d)
                 \/ UNCHANGED vars
BY DEF Next, Step, MovesStatement, MovesBuffer, Writes

\* No step changes the policy.
LEMMA PolicyKept == [Next]_vars => policy' = policy
BY DEF Next, vars, Open, Close, Ask, ReadGeneration,
   GenerationFails, Lookup, LookupFails, RunQuery, After, AfterFails, Store, Bump, BumpFails,
   FlushBump, FlushFails, FlushPut, FlushEnds, LoseL1, LoseL2, Update, UpdateInTx, Commit, Rollback

\* What another session has in hand is left alone.
LEMMA OthersAlone ==
  ASSUME TypeOK, NEW t \in Session, Step(t), NEW s \in Session \ {t}
  PROVE  session'[s] = session[s] /\ buffers'[s] = buffers[s]
<1>a. session \in [Session -> SessionType] /\ buffers \in [Session -> Buffer \cup {None}]
  BY DEF TypeOK, SessionType, Mode
<1>1. ASSUME NEW c, session' = [session EXCEPT ![t] = c] PROVE session'[s] = session[s]
  BY <1>1, <1>a
<1>2. CASE MovesStatement(t)
  <2>1. CASE \E mode \in {"plain", "tx"} : Open(t, mode)
    BY <1>a, <2>1 DEF Open
  <2>2. CASE \E q \in Query : Ask(t, q)
    BY <1>a, <2>2 DEF Ask, Start, cacheVars
  <2>3. CASE Close(t) \/ ReadGeneration(t) \/ Store(t) \/ RunQuery(t) \/ AfterFails(t)
    BY <1>a, <2>3 DEF Close, ReadGeneration, Store, RunQuery, AfterFails, Goto, MeetError, Answer, cacheVars
  <2>4. CASE GenerationFails(t) \/ Lookup(t) \/ LookupFails(t) \/ Bump(t) \/ BumpFails(t)
    BY <1>a, <2>4 DEF GenerationFails, Lookup, LookupFails, Bump, BumpFails, Goto, MeetError,
       Answer, cacheVars
  <2> QED
    BY <1>2, <2>1, <2>2, <2>3, <2>4 DEF MovesStatement
<1>3. CASE MovesBuffer(t)
  <2>1. CASE \E d \in Digest : FlushPut(t, d)
    BY <1>a, <2>1 DEF FlushPut
  <2>2. CASE After(t)
    BY <1>a, <2>2 DEF After
  <2>3. CASE FlushBump(t) \/ FlushFails(t) \/ FlushEnds(t)
    BY <1>a, <2>3 DEF FlushBump, FlushFails, FlushEnds, Goto
  <2> QED
    BY <1>3, <2>1, <2>2, <2>3 DEF MovesBuffer
<1>4. CASE Writes(t)
  BY <1>a, <1>4 DEF Writes, Update, UpdateInTx, Commit, Rollback, cacheVars
<1>5. CASE LoseL1(t)
  BY <1>5 DEF LoseL1
<1> QED
  BY <1>2, <1>3, <1>4, <1>5 DEF Step

-----------------------------------------------------------------------------
(* Bypass.                                                                 *)

\* The statements of a Bypass transaction that has written stay away from the
\* caches, and what they hold was read after the last write.
BypassInv ==
  policy.transaction = "bypass" =>
    \A s \in Session : writer = s =>
      /\ session[s].at \in {"idle", "query", "after", "store"}
      /\ session[s].result # None => session[s].result.version = latest

\* BypassInv is preserved: before sends the transaction past the caches.
LEMMA BypassStep ==
  TypeOK /\ TypeOK' /\ StatementInv /\ BypassInv /\ [Next]_vars => BypassInv'
<1> SUFFICES ASSUME TypeOK, TypeOK', StatementInv, BypassInv, [Next]_vars,
                    policy'.transaction = "bypass", NEW s \in Session, writer' = s
             PROVE  /\ session'[s].at \in {"idle", "query", "after", "store"}
                    /\ session'[s].result # None => session'[s].result.version = latest'
  BY DEF BypassInv
<1> USE DEF At, InTx
<1>a. /\ session \in [Session -> SessionType] /\ session[s] \in SessionType /\ s # None
      /\ policy.transaction = "bypass" /\ buffers[s] = None
  BY ExecutorAssumption, PolicyKept DEF TypeOK, SessionType, Mode
<1>1. CASE UpdateInTx(s)
  <2>1. session'[s] = [Closed EXCEPT !.mode = "tx"]
    BY <1>1, <1>a DEF UpdateInTx
  <2> QED
    BY <2>1 DEF Closed
<1>2. CASE writer # s
  <2>1. PICK t \in Session : Writes(t)
    BY <1>2, WritesOrNot DEF databaseVars
  <2>2. UpdateInTx(t) /\ t = s
    BY <1>2, <1>a, <2>1 DEF Writes, Update, UpdateInTx, Commit, Rollback
  <2> QED
    BY <1>1, <2>2
<1>3. CASE writer = s
  <2>1. /\ session[s].mode = "tx" /\ session[s].at \in {"idle", "query", "after", "store"}
        /\ session[s].result # None => session[s].result.version = latest
    BY <1>3, <1>a DEF BypassInv, TypeOK
  <2>2. ASSUME UNCHANGED <<session, latest>>
        PROVE  /\ session'[s].at \in {"idle", "query", "after", "store"}
               /\ session'[s].result # None => session'[s].result.version = latest'
    BY <2>1, <2>2
  <2>3. CASE UNCHANGED vars \/ \E d \in Digest : LoseL2(d)
    BY <2>2, <2>3 DEF vars, LoseL2, databaseVars
  <2>4. ASSUME NEW t \in Session \ {s}, Step(t)
        PROVE  /\ session'[s].at \in {"idle", "query", "after", "store"}
               /\ session'[s].result # None => session'[s].result.version = latest'
    <3>1. session'[s] = session[s]
      BY <2>4, OthersAlone
    <3>2. CASE Writes(t)
      <4>1. UNCHANGED latest
        BY <1>3, <1>a, <2>4, <3>2 DEF Writes, Update, UpdateInTx, Commit, Rollback
      <4> QED
        BY <2>1, <3>1, <4>1
    <3>3. CASE ~Writes(t)
      <4>1. UNCHANGED latest
        BY <2>4, <3>3 DEF Step, MovesStatement, MovesBuffer, databaseVars, Open, Close, Ask, ReadGeneration,
           GenerationFails, Lookup, LookupFails, RunQuery, After, AfterFails, Store, Bump,
           BumpFails, FlushBump, FlushFails, FlushPut, FlushEnds, LoseL1
      <4> QED
        BY <2>1, <3>1, <4>1
    <3> QED
      BY <3>2, <3>3
  <2>5. CASE \E q \in Query : Ask(s, q)
    <3>1. PICK q \in Query : Start(s, q, "query", None)
      BY <1>a, <2>1, <2>5 DEF Ask
    <3>2. session'[s].at = "query" /\ session'[s].result = None
      BY <1>a, <3>1 DEF Start, Closed
    <3> QED
      BY <3>2
  <2>6. CASE RunQuery(s)
    <3>1. Visible(s) = latest /\ latest' = latest
      BY <1>3, <2>6 DEF Visible, RunQuery, databaseVars
    <3>2. CASE session' = [session EXCEPT ![s].at = "after",
                 ![s].result = [query |-> session[s].query, version |-> Visible(s)]]
      <4>1. /\ session'[s].at = "after"
            /\ session'[s].result = [query |-> session[s].query, version |-> Visible(s)]
        BY <1>a, <3>2 DEF SessionType
      <4> QED
        BY <3>1, <4>1
    <3>3. CASE Goto(s, "idle")
      BY <1>a, <2>1, <3>1, <3>3 DEF Goto, SessionType
    <3> QED
      BY <2>6, <3>2, <3>3 DEF RunQuery
  <2>7. CASE After(s) \/ AfterFails(s)
    <3>1. session'[s].at \in {"store", "idle"} /\ session'[s].result = session[s].result
      BY <1>a, <2>7 DEF After, AfterFails, Goto, SessionType
    <3> QED
      BY <2>1, <2>7, <3>1 DEF After, AfterFails, databaseVars
  <2>8. CASE Store(s)
    <3>1. session'[s].at = "idle" /\ session'[s].result \in {session[s].result, None}
      BY <1>a, <2>8 DEF Store, Goto, MeetError, Answer, SessionType
    <3> QED
      BY <2>1, <2>8, <3>1 DEF Store, databaseVars
  <2>9. CASE LoseL1(s)
    BY <2>2, <2>9 DEF LoseL1, databaseVars
  <2>10. CASE Writes(s) /\ ~UpdateInTx(s)
    BY <1>3, <1>a, <2>1, <2>10 DEF Writes, Update, Commit, Rollback
  <2>11. MovesStatement(s) => (\E q \in Query : Ask(s, q)) \/ RunQuery(s) \/ AfterFails(s) \/ Store(s)
    BY <2>1 DEF MovesStatement, Open, Close, ReadGeneration, GenerationFails, Lookup, LookupFails, Bump,
       BumpFails
  <2>12. MovesBuffer(s) => After(s)
    BY <2>1 DEF MovesBuffer, FlushPut, FlushBump, FlushFails, FlushEnds
  <2>13. ASSUME Step(s)
         PROVE  /\ session'[s].at \in {"idle", "query", "after", "store"}
                /\ session'[s].result # None => session'[s].result.version = latest'
    BY <1>1, <2>5, <2>6, <2>7, <2>8, <2>9, <2>10, <2>11, <2>12, <2>13 DEF Step
  <2> QED
    BY <2>3, <2>4, <2>13, OneMoves
<1> QED
  BY <1>2, <1>3

-----------------------------------------------------------------------------
(* Defer.                                                                  *)

\* What s may hold: nothing another session has yet to commit, nothing rolled back.
Sound(s, v) == v <= Visible(s) /\ fate[v] # "aborted"

\* A buffered entry that is not of a committed version is under a generation that
\* the flush kills before it stores the entry.
PendingOK(s, d) ==
  /\ d[2] <= generation
  /\ Sound(s, buffers[s].pending[d].version)
  /\ \/ fate[buffers[s].pending[d].version] = "committed"
     \/ IF session[s].at = "flushing" THEN d[2] < generation ELSE buffers[s].marked

DeferSession(s) ==
  /\ Fresh(session[s]) => Sound(s, session[s].result.version)
  /\ Fresh(session[s]) => fate[session[s].result.version] = "committed" \/ writer = s
  /\ session[s].at = "store" => ~InTx(s)
  /\ writer = s => buffers[s].marked
  /\ \A d \in Pending(s) : PendingOK(s, d)

\* ... and so an entry of a live generation is committed.
DeferStore ==
  /\ StoreUnpolluted
  /\ \A d \in Digest : l2[d] # None =>
       /\ d[2] <= generation
       /\ d[2] = generation => fate[l2[d].version] = "committed"

DeferInv ==
  policy.transaction = "defer" => DeferStore /\ \A s \in Session : DeferSession(s)

\* What s may hold it may go on holding while the database keeps what it reads.
LEMMA SoundKept ==
  ASSUME TypeOK, TypeOK', NEW s \in Session, DatabaseKept(s), NEW v \in Version, Sound(s, v)
  PROVE  Sound(s, v)' /\ (fate[v] = "committed" => fate'[v] = "committed")
<1>1. Visible(s) \in Nat /\ Visible(s)' \in Nat /\ Visible(s) <= Visible(s)' /\ v \in Nat
  BY Numbers DEF TypeOK, Visible, DatabaseKept
<1> QED
  BY <1>1 DEF Sound, DatabaseKept

\* So for the result of a statement ...
LEMMA ResultKept ==
  ASSUME TypeOK, TypeOK', NEW s \in Session, DeferSession(s), DatabaseKept(s),
         Fresh(session[s]), session[s].result # None, session'[s].result = session[s].result
  PROVE  /\ Sound(s, session[s].result.version)'
         /\ fate'[session'[s].result.version] = "committed" \/ writer' = s
<1>1. session[s].result.version \in Version
  BY DEF TypeOK, Result
<1>2. /\ Sound(s, session[s].result.version)
      /\ fate[session[s].result.version] = "committed" \/ writer = s
  BY DEF DeferSession
<1> QED
  BY <1>1, <1>2, SoundKept DEF DatabaseKept

\* ... and for the buffer.
LEMMA PendingKept ==
  ASSUME TypeOK, TypeOK', NEW s \in Session, DeferSession(s), DatabaseKept(s),
         generation <= generation', buffers'[s] = buffers[s],
         session'[s].at = "flushing" <=> session[s].at = "flushing"
  PROVE  /\ writer' = s => buffers'[s].marked
         /\ \A d \in Pending(s)' : PendingOK(s, d)'
<1>1. writer' = s => buffers'[s].marked
  BY DEF DeferSession, DatabaseKept
<1>2. Pending(s)' = Pending(s)
  BY DEF Pending
<1>3. ASSUME NEW d \in Pending(s) PROVE PendingOK(s, d)'
  <2>1. d \in Digest /\ buffers[s] \in Buffer /\ buffers[s].pending[d] \in Result
    BY <1>3 DEF Pending, TypeOK, Buffer
  <2>2. buffers[s].pending[d].version \in Version /\ d[2] \in Nat
    BY <2>1, Numbers DEF Result, Digest
  <2>3. PendingOK(s, d)
    BY <1>3 DEF DeferSession
  <2>4. d[2] <= generation' /\ (d[2] < generation => d[2] < generation')
    <3>1. generation \in Nat /\ generation' \in Nat
      BY Numbers DEF TypeOK
    <3> QED
      BY <2>2, <2>3, <3>1 DEF PendingOK
  <2> QED
    BY <2>2, <2>3, <2>4, SoundKept DEF PendingOK
<1> QED
  BY <1>1, <1>2, <1>3

\* A session that reads no result and leaves its buffer alone stands for what it did.
LEMMA DeferKept ==
  ASSUME TypeOK, TypeOK', NEW s \in Session, DeferSession(s), DatabaseKept(s),
         generation <= generation', buffers'[s] = buffers[s],
         session'[s].at = "flushing" <=> session[s].at = "flushing",
         \/ ~Fresh(session[s])'
         \/ /\ Fresh(session[s]) /\ session[s].result # None
            /\ session'[s].result = session[s].result
            /\ session'[s].at = "store" => ~InTx(s)'
  PROVE  DeferSession(s)'
<1>1. ASSUME Fresh(session[s])'
      PROVE  /\ Sound(s, session[s].result.version)'
             /\ fate'[session'[s].result.version] = "committed" \/ writer' = s
             /\ session'[s].at = "store" => ~InTx(s)'
  BY <1>1, ResultKept
<1> QED
  BY <1>1, PendingKept DEF DeferSession, Fresh

\* The store is kept when nothing is put there.
LEMMA DeferStoreKept ==
  ASSUME TypeOK, TypeOK', FateInv, [Next]_vars, DeferStore, l2' = l2,
         generation <= generation'
  PROVE  DeferStore'
<1>a. /\ committed \in Nat /\ generation \in Nat /\ generation' \in Nat /\ committed' \in Nat
      /\ \A v \in Version : v \in Nat
      /\ l2 \in [Digest -> Result \cup {None}]
  BY Numbers DEF TypeOK
<1> SUFFICES ASSUME NEW d \in Digest, l2[d] # None
             PROVE  /\ l2[d].version <= committed' /\ fate'[l2[d].version] # "aborted"
                    /\ d[2] <= generation'
                    /\ d[2] = generation' => fate'[l2[d].version] = "committed"
  BY DEF DeferStore, StoreUnpolluted
<1>1. l2[d].version \in Version /\ d[2] \in Nat
  BY <1>a, Numbers DEF Result, Digest
<1>2. l2[d].version <= committed /\ fate[l2[d].version] # "aborted"
  BY DEF DeferStore, StoreUnpolluted
<1>3. d[2] <= generation /\ (d[2] = generation => fate[l2[d].version] = "committed")
  BY DEF DeferStore
<1>4. /\ committed <= committed' /\ fate'[l2[d].version] # "aborted"
      /\ fate[l2[d].version] = "committed" => fate'[l2[d].version] = "committed"
  BY <1>1, <1>2, CommittedKept
<1> QED
  BY <1>a, <1>1, <1>2, <1>3, <1>4

\* No step lowers the generation.
LEMMA GenerationGrows == TypeOK /\ [Next]_vars => generation <= generation'
<1> SUFFICES ASSUME TypeOK, [Next]_vars PROVE generation <= generation'
  OBVIOUS
<1>1. generation' \in {generation, generation + 1}
  BY DEF Next, vars, Open, Close, Ask, ReadGeneration, cacheVars,
     GenerationFails, Lookup, LookupFails, RunQuery, After, AfterFails, Store, Bump, BumpFails,
     FlushBump, FlushFails, FlushPut, FlushEnds, LoseL1, LoseL2, Update, UpdateInTx, Commit, Rollback
<1>2. generation \in Nat
  BY Numbers DEF TypeOK
<1> QED
  BY <1>1, <1>2

\* What the steps of s that are not about its buffer or the database do to it.
LEMMA DeferMovesStatement ==
  ASSUME TypeOK, TypeOK', StatementInv, FateInv, generation <= generation',
         policy.transaction = "defer", DeferStore,
         NEW s \in Session, DeferSession(s), MovesStatement(s)
  PROVE  DeferSession(s)' /\ UNCHANGED databaseVars
<1> USE DEF At, InTx
<1>a. /\ session \in [Session -> SessionType] /\ session[s] \in SessionType
      /\ buffers \in [Session -> Buffer \cup {None}] /\ StatementOK(s, session[s])
  BY DEF TypeOK, SessionType, Mode, StatementInv
<1>b. UNCHANGED databaseVars /\ DatabaseKept(s)
  BY QuietDatabase DEF MovesStatement, Open, Close, Ask, ReadGeneration,
     GenerationFails, Lookup, LookupFails, RunQuery, AfterFails, Store, Bump, BumpFails
<1>c. s # None
  BY ExecutorAssumption
<1>1. ASSUME NEW mode \in {"plain", "tx"}, Open(s, mode) PROVE DeferSession(s)'
  <2>1. session'[s].at = "idle" /\ writer' # s
    <3>1. [Closed EXCEPT !.mode = mode].at = "idle"
      BY DEF Closed
    <3>2. session'[s].at = "idle"
      BY <1>1, <1>a, <3>1 DEF Open
    <3>3. writer' = writer /\ writer # s
      BY <1>1, <1>b, <1>c DEF Open, TypeOK, databaseVars
    <3> QED
      BY <3>2, <3>3
  <2>2. Pending(s)' = {}
    BY <1>1, <1>a DEF Open, Pending, EmptyBuffer
  <2> QED
    BY <2>1, <2>2 DEF DeferSession, Fresh
<1>2. ASSUME buffers' = buffers, session[s].at # "flushing",
             session'[s].at \notin {"flushing", "after", "store"}
      PROVE  DeferSession(s)'
  BY <1>2, <1>b, DeferKept DEF Fresh
<1>3. CASE (\E q \in Query : Ask(s, q)) \/ Close(s)
  <2>1. session'[s].at \in {"idle", "query", "generation"}
    <3>1. CASE Close(s)
      BY <1>a, <3>1 DEF Close, Closed
    <3>2. ASSUME NEW q \in Query, NEW label, NEW r, Start(s, q, label, r)
          PROVE  session'[s].at = label
      BY <1>a, <3>2 DEF Start, Closed
    <3> QED
      BY <1>3, <3>1, <3>2 DEF Ask
  <2> QED
    BY <1>2, <1>3, <2>1 DEF Ask, Close, cacheVars
<1>4. CASE ReadGeneration(s) \/ GenerationFails(s) \/ Lookup(s) \/ LookupFails(s)
  <2>1. session'[s].at \in {"idle", "query", "lookup"}
    BY <1>4, <1>a DEF ReadGeneration, GenerationFails, Lookup, LookupFails, MeetError, Goto, Answer,
       SessionType
  <2> QED
    BY <1>2, <1>4, <2>1 DEF ReadGeneration, GenerationFails, Lookup, LookupFails, cacheVars
<1>5. CASE AfterFails(s) \/ Store(s) \/ Bump(s) \/ BumpFails(s)
  <2>1. session'[s].at = "idle"
    BY <1>5, <1>a DEF AfterFails, Store, Bump, BumpFails, MeetError, Goto, Answer, SessionType
  <2> QED
    BY <1>2, <1>5, <2>1 DEF AfterFails, Store, Bump, BumpFails, cacheVars
<1>6. CASE RunQuery(s)
  <2>1. CASE Goto(s, "idle")
    <3>1. session'[s].at = "idle"
      BY <1>a, <2>1 DEF Goto, SessionType
    <3> QED
      BY <1>2, <1>6, <3>1 DEF RunQuery, cacheVars
  <2>2. CASE session' = [session EXCEPT ![s].at = "after",
               ![s].result = [query |-> session[s].query, version |-> Visible(s)]]
    <3>1. session'[s].at = "after" /\ session'[s].result.version = Visible(s)
      BY <1>a, <2>2 DEF SessionType
    <3>2. Visible(s)' = Visible(s) /\ Visible(s) \in Nat
      BY <1>b, Numbers DEF Visible, databaseVars, TypeOK
    <3>3. /\ fate[Visible(s)] # "aborted"
          /\ fate[Visible(s)] = "committed" \/ writer = s
      BY <1>c DEF Visible, TypeOK, FateInv
    <3>4. Sound(s, Visible(s))' /\ (fate'[Visible(s)] = "committed" \/ writer' = s)
      BY <1>b, <3>2, <3>3 DEF Sound, databaseVars
    <3>5. buffers'[s] = buffers[s] /\ (session'[s].at = "flushing" <=> session[s].at = "flushing")
      BY <1>6, <3>1 DEF RunQuery, cacheVars
    <3>6. /\ writer' = s => buffers'[s].marked
          /\ \A d \in Pending(s)' : PendingOK(s, d)'
      BY <1>b, <3>5, PendingKept
    <3>7. Sound(s, session[s].result.version)'
      BY <3>1, <3>2, <3>4 DEF Sound
    <3>8. fate'[session'[s].result.version] = "committed" \/ writer' = s
      BY <3>1, <3>4
    <3>9. session'[s].at # "store"
      BY <3>1
    <3> QED
      BY <1>b, <3>6, <3>7, <3>8, <3>9 DEF DeferSession
  <2> QED
    BY <1>6, <2>1, <2>2 DEF RunQuery
<1> QED
  BY <1>b, <1>1, <1>3, <1>4, <1>5, <1>6 DEF MovesStatement

\* ... and what the other steps do.
LEMMA DeferMovesBuffer ==
  ASSUME TypeOK, TypeOK', StatementInv, FateInv, generation <= generation',
         policy.transaction = "defer",
         NEW s \in Session, DeferSession(s), MovesBuffer(s)
  PROVE  DeferSession(s)' /\ UNCHANGED databaseVars
<1> USE DEF At, InTx
<1>a. /\ session \in [Session -> SessionType] /\ session[s] \in SessionType
      /\ buffers \in [Session -> Buffer \cup {None}] /\ StatementOK(s, session[s])
      /\ generation \in Generation /\ generation \in Nat /\ generation' \in Nat
  BY Numbers DEF TypeOK, SessionType, Mode, StatementInv
<1>b. UNCHANGED databaseVars /\ DatabaseKept(s)
  BY QuietDatabase DEF MovesBuffer, FlushPut, After, FlushBump, FlushFails, FlushEnds
<1>c. s # None /\ \A b \in Buffer : b # None
  BY ExecutorAssumption
<1>1. ASSUME session[s].at \in {"flush", "flushing"}, session'[s].at \in {"idle", "flushing"},
             \A d \in Pending(s)' : PendingOK(s, d)'
      PROVE  DeferSession(s)'
  <2>1. writer' # s
    BY <1>a, <1>b, <1>1 DEF StatementOK, databaseVars
  <2> QED
    BY <1>1, <2>1 DEF DeferSession, Fresh
<1>2. ASSUME NEW d \in Digest, FlushPut(s, d) PROVE DeferSession(s)'
  <2>1. session' = session /\ generation' = generation
    BY <1>2 DEF FlushPut
  <2>2. buffers[s] \in Buffer
    BY <1>2, <1>a DEF FlushPut, Pending
  <2>3. ASSUME NEW e \in Pending(s)'
        PROVE  e \in Pending(s) /\ buffers'[s].pending[e] = buffers[s].pending[e]
    <3>1. CASE buffers' = [buffers EXCEPT ![s].pending[d] = None]
      <4>1. /\ buffers[s].pending \in [Digest -> Result \cup {None}] /\ buffers[s] # None
            /\ buffers'[s].pending = [buffers[s].pending EXCEPT ![d] = None]
        BY <1>a, <1>c, <2>2, <3>1 DEF Buffer
      <4>2. \A x \in Digest : buffers'[s].pending[x] # None =>
              buffers[s].pending[x] # None /\ buffers'[s].pending[x] = buffers[s].pending[x]
        BY <4>1
      <4> QED
        BY <2>3, <4>1, <4>2 DEF Pending
    <3>2. CASE buffers' = [buffers EXCEPT ![s] = EmptyBuffer]
      BY <1>a, <2>3, <3>2 DEF Pending, EmptyBuffer
    <3> QED
      BY <1>2, <3>1, <3>2 DEF FlushPut
  <2>4. ASSUME NEW e \in Pending(s)' PROVE PendingOK(s, e)'
    <3>1. PendingOK(s, e) /\ session[s].at = "flushing"
      BY <1>2, <2>3, <2>4 DEF DeferSession, FlushPut
    <3>2. buffers'[s].pending[e].version = buffers[s].pending[e].version
      BY <2>3, <2>4
    <3> QED
      BY <1>b, <2>1, <3>1, <3>2 DEF PendingOK, Sound, Visible, databaseVars
  <2> QED
    BY <1>1, <1>2, <2>1, <2>4 DEF FlushPut
<1>3. ASSUME FlushFails(s) \/ FlushEnds(s) PROVE DeferSession(s)'
  <2>1. session'[s].at = "idle" /\ buffers'[s] = None
    BY <1>3, <1>a DEF FlushFails, FlushEnds, Closed
  <2>2. Pending(s)' = {}
    BY <2>1 DEF Pending
  <2> QED
    BY <1>1, <1>3, <2>1, <2>2 DEF FlushFails, FlushEnds
<1>4. ASSUME FlushBump(s) PROVE DeferSession(s)'
  <2>1. session[s].at = "flush" /\ session'[s].at = "flushing" /\ buffers' = buffers
    BY <1>4, <1>a DEF FlushBump, Goto, SessionType
  <2>2. ASSUME NEW d \in Pending(s)' PROVE PendingOK(s, d)'
    <3>1. d \in Pending(s) /\ d \in Digest /\ buffers[s] # None
      BY <2>1, <2>2 DEF Pending
    <3>2. d[2] \in Nat
      BY <3>1, Numbers DEF Digest
    <3>3. /\ d[2] <= generation
          /\ Sound(s, buffers[s].pending[d].version)
          /\ fate[buffers[s].pending[d].version] = "committed" \/ buffers[s].marked
      BY <2>1, <3>1 DEF DeferSession, PendingOK
    <3>4. Sound(s, buffers[s].pending[d].version)'
      BY <1>b, <2>1, <3>3 DEF Sound, Visible, databaseVars
    <3>5. CASE buffers[s].marked
      <4>1. generation' = generation + 1
        BY <1>4, <3>1, <3>5 DEF FlushBump, MustBump
      <4>2. d[2] < generation' /\ d[2] <= generation'
        BY <1>a, <3>2, <3>3, <4>1
      <4> QED
        BY <2>1, <3>4, <4>2 DEF PendingOK
    <3>6. CASE fate[buffers[s].pending[d].version] = "committed"
      <4>1. d[2] <= generation' /\ fate' = fate
        BY <1>a, <1>b, <3>2, <3>3 DEF databaseVars
      <4> QED
        BY <2>1, <3>4, <3>6, <4>1 DEF PendingOK
    <3> QED
      BY <3>3, <3>5, <3>6
  <2> QED
    BY <1>1, <2>1, <2>2
<1>5. ASSUME After(s) PROVE DeferSession(s)'
  <2>0. Fresh(session[s]) /\ session[s].result \in Result /\ session[s].query \in Query
    BY <1>5, <1>a DEF After, Fresh, StatementOK, SessionType
  <2>1. /\ session'[s].result = session[s].result /\ session'[s].at \in {"store", "idle"}
        /\ generation' = generation
    BY <1>5, <1>a DEF After, SessionType
  <2>2. PICK label \in {"store", "idle"} :
          IF buffers[s] # None /\ label = "store"
            THEN /\ buffers' = [buffers EXCEPT
                      ![s].pending[<<session[s].query, generation>>] = session[s].result]
                 /\ session' = [session EXCEPT ![s].at = "idle", ![s].target = generation]
            ELSE /\ session' = [session EXCEPT ![s].at = label, ![s].target = generation]
                 /\ UNCHANGED buffers
    BY <1>5 DEF After
  <2>4. CASE ~(buffers[s] # None /\ label = "store")
    <3>1. buffers' = buffers /\ session'[s].at = label
      <4>1. session' = [session EXCEPT ![s].at = label, ![s].target = generation] /\ buffers' = buffers
        BY <2>2, <2>4
      <4>2. label \in Label
        BY DEF Label
      <4>3. session' = [session EXCEPT ![s] = [session[s] EXCEPT !.at = label, !.target = generation]]
        BY <1>a, <4>1, <4>2, Moves
      <4>4. session'[s].at = label
        BY <1>a, <4>3 DEF SessionType
      <4> QED
        BY <4>1, <4>4
    <3>2. session'[s].at = "store" => ~InTx(s)'
      <4>1. policy' = policy
        BY <1>5 DEF After
      <4> QED
        BY <2>4, <3>1, <4>1 DEF TypeOK
    <3>3. Fresh(session[s]) /\ session[s].result # None
      BY <2>0, <1>c, ExecutorAssumption
    <3>4. session'[s].at = "flushing" <=> session[s].at = "flushing"
      BY <1>5, <3>1 DEF After
    <3>5. buffers'[s] = buffers[s]
      BY <3>1
    <3> QED
      BY <1>b, <2>1, <3>2, <3>3, <3>4, <3>5, DeferKept
  <2> DEFINE d == <<session[s].query, generation>>
  <2>3. CASE /\ buffers[s] # None /\ label = "store"
             /\ buffers' = [buffers EXCEPT ![s].pending[d] = session[s].result]
             /\ session'[s].at = "idle"
    <3>1. d \in Digest /\ buffers[s] \in Buffer
      BY <1>a, <2>0, <2>3 DEF Digest
    <3>2. /\ buffers'[s].marked = buffers[s].marked
          /\ buffers'[s].pending[d] = session[s].result
          /\ \A e \in Digest : e # d => buffers'[s].pending[e] = buffers[s].pending[e]
          /\ buffers'[s] # None
      BY <1>a, <2>3, <3>1, <1>c DEF Buffer, TypeOK
    <3>3. ASSUME NEW e \in Pending(s)' PROVE PendingOK(s, e)'
      <4>1. CASE e = d
        <5>1. /\ Sound(s, session[s].result.version)
              /\ fate[session[s].result.version] = "committed" \/ buffers[s].marked
          BY <2>0 DEF DeferSession
        <5>2. Sound(s, session[s].result.version)'
          BY <1>b, <2>1, <5>1 DEF Sound, Visible, databaseVars
        <5>3. d[2] = generation' /\ generation <= generation' /\ fate' = fate
          BY <1>a, <1>b, <2>1 DEF databaseVars
        <5> QED
          BY <1>a, <2>1, <2>3, <3>2, <4>1, <5>1, <5>2, <5>3 DEF PendingOK, Sound
      <4>2. CASE e # d
        <5>1. e \in Pending(s) /\ session[s].at # "flushing"
          BY <1>5, <2>3, <3>2, <3>3, <4>2 DEF Pending, After
        <5>2. PendingOK(s, e)
          BY <5>1 DEF DeferSession
        <5>3. buffers'[s].pending[e] = buffers[s].pending[e]
          BY <3>2, <4>2, <5>1 DEF Pending
        <5>4. UNCHANGED <<committed, latest, writer, fate, generation>>
          BY <1>b, <2>1 DEF databaseVars
        <5> QED
          BY <2>3, <3>2, <5>1, <5>2, <5>3, <5>4 DEF PendingOK, Sound, Visible
      <4> QED
        BY <4>1, <4>2
    <3>4. writer' = s => buffers'[s].marked
      BY <1>b, <3>2 DEF DeferSession, databaseVars
    <3> QED
      BY <2>3, <3>3, <3>4 DEF DeferSession, Fresh
  <2> QED
    BY <1>a, <2>2, <2>3, <2>4 DEF SessionType
<1> QED
  BY <1>b, <1>2, <1>3, <1>4, <1>5 DEF MovesBuffer

\* ... and its DML, and the end of its transaction.
LEMMA DeferWrites ==
  ASSUME TypeOK, TypeOK', FateInv, FateInv', policy.transaction = "defer",
         NEW s \in Session, DeferSession(s), Writes(s)
  PROVE  DeferSession(s)'
<1> USE DEF At, InTx
<1>a. /\ session \in [Session -> SessionType] /\ session[s] \in SessionType
      /\ buffers \in [Session -> Buffer \cup {None}]
      /\ latest \in Nat /\ committed \in Nat /\ committed <= latest
      /\ latest \in Version /\ committed \in Version /\ \A v \in Version : v \in Nat
      /\ fate \in [Version -> {"unused", "open", "overwritten", "committed", "aborted"}]
  BY Numbers DEF TypeOK, Version, SessionType, Mode
<1>c. s # None /\ \A b \in Buffer : b # None
  BY ExecutorAssumption
<1>d. ASSUME NEW d \in Pending(s)
      PROVE  /\ d \in Digest /\ buffers[s] # None /\ buffers[s] \in Buffer
             /\ buffers[s].pending[d].version \in Version
  <2>1. d \in Digest /\ buffers[s] # None /\ buffers[s].pending[d] # None
    BY <1>d DEF Pending
  <2>2. buffers[s] \in Buffer
    BY <1>a, <2>1
  <2>3. buffers[s].pending[d] \in Result
    BY <2>1, <2>2 DEF Buffer
  <2> QED
    BY <2>1, <2>2, <2>3 DEF Result
<1>1. CASE Update(s)
  <2>1. session'[s].at = "bump" /\ writer' # s /\ buffers'[s] = None
    BY <1>1, <1>a, <1>c DEF Update, Closed, TypeOK
  <2>2. Pending(s)' = {}
    BY <2>1 DEF Pending
  <2> QED
    BY <2>1, <2>2 DEF DeferSession, Fresh
<1>2. CASE UpdateInTx(s)
  <2>1. /\ session[s].at = "idle" /\ session'[s].at = "idle" /\ buffers[s] \in Buffer
    BY <1>2, <1>a DEF UpdateInTx, Closed, TypeOK
  <2>2. /\ buffers'[s].marked /\ buffers'[s].pending = buffers[s].pending /\ buffers'[s] # None
    BY <1>2, <1>a, <1>c, <2>1 DEF UpdateInTx, Buffer
  <2>3. /\ latest' = latest + 1 /\ writer' = s /\ generation' = generation
        /\ fate' = [v \in Version |-> IF v = latest + 1 THEN "open"
                                      ELSE IF fate[v] = "open" THEN "overwritten" ELSE fate[v]]
    BY <1>2 DEF UpdateInTx
  <2>4. ASSUME NEW d \in Pending(s)' PROVE PendingOK(s, d)'
    <3>1. d \in Pending(s)
      BY <1>c, <2>1, <2>2, <2>4 DEF Pending
    <3> DEFINE v == buffers[s].pending[d].version
    <3>2. v \in Version /\ d[2] <= generation /\ v <= Visible(s) /\ fate[v] # "aborted"
      BY <1>d, <3>1 DEF DeferSession, PendingOK, Sound
    <3>3. v <= latest /\ v <= latest' /\ fate'[v] # "aborted" /\ Visible(s)' = latest'
      <4>0. Visible(s) <= latest /\ Visible(s) \in Nat
        BY <1>a DEF Visible
      <4> HIDE DEF v
      <4>1. v <= latest /\ v \in Nat /\ v # latest + 1
        BY <1>a, <3>2, <4>0
      <4>2. fate'[v] = IF fate[v] = "open" THEN "overwritten" ELSE fate[v]
        BY <2>3, <3>2, <4>1
      <4> QED
        BY <1>a, <2>3, <3>2, <4>1, <4>2 DEF Visible
    <3> QED
      BY <2>1, <2>2, <2>3, <3>2, <3>3 DEF PendingOK, Sound
  <2> QED
    BY <2>1, <2>2, <2>4 DEF DeferSession, Fresh
<1>3. CASE Commit(s)
  <2>1. /\ session[s].at = "idle" /\ session'[s].at = "flush" /\ writer' # s
        /\ buffers' = buffers /\ generation' = generation
    BY <1>3, <1>a, <1>c DEF Commit, Closed, cacheVars
  <2>2. /\ committed' = Visible(s) /\ committed' \in Nat
        /\ \A v \in Version : fate[v] # "aborted" => fate'[v] # "aborted"
        /\ \A v \in Version : fate[v] = "committed" => fate'[v] = "committed"
    BY <1>3, <1>a DEF Commit, Visible
  <2>3. ASSUME NEW d \in Pending(s)' PROVE PendingOK(s, d)'
    <3>1. d \in Pending(s)
      BY <2>1, <2>3 DEF Pending
    <3> DEFINE v == buffers[s].pending[d].version
    <3>2. /\ v \in Version /\ d[2] <= generation /\ v <= Visible(s) /\ fate[v] # "aborted"
          /\ fate[v] = "committed" \/ buffers[s].marked
      BY <1>d, <2>1, <3>1 DEF DeferSession, PendingOK, Sound
    <3>3. Visible(s)' = committed' /\ fate'[v] # "aborted"
      BY <2>1, <2>2, <3>2 DEF Visible
    <3> QED
      BY <2>1, <2>2, <3>2, <3>3 DEF PendingOK, Sound
  <2> QED
    BY <2>1, <2>3 DEF DeferSession, Fresh
<1>4. CASE Rollback(s)
  <2>1. session'[s].at = "idle" /\ writer' # s /\ buffers'[s] = None
    BY <1>4, <1>a, <1>c DEF Rollback, Closed
  <2>2. Pending(s)' = {}
    BY <2>1 DEF Pending
  <2> QED
    BY <2>1, <2>2 DEF DeferSession, Fresh
<1> QED
  BY <1>1, <1>2, <1>3, <1>4 DEF Writes

\* What a step of s does to the store.
LEMMA DeferStoreStep ==
  ASSUME TypeOK, TypeOK', StatementInv, FateInv, [Next]_vars, generation <= generation',
         policy.transaction = "defer", DeferStore, \A s \in Session : DeferSession(s)
  PROVE  DeferStore'
<1> USE DEF At, InTx
<1>a. /\ committed \in Nat /\ generation \in Nat
      /\ \A v \in Version : v \in Nat
      /\ l2 \in [Digest -> Result \cup {None}]
      /\ \A s \in Session : session[s] \in SessionType /\ StatementOK(s, session[s])
  BY Numbers DEF TypeOK, SessionType, Mode, StatementInv
\* An entry that may be stored under d.
<1>b. ASSUME UNCHANGED <<committed, fate, generation>>, NEW d \in Digest, NEW r \in Result,
             l2' = [l2 EXCEPT ![d] = r], r.version <= committed, fate[r.version] # "aborted",
             d[2] <= generation, d[2] = generation => fate[r.version] = "committed"
      PROVE  DeferStore'
  <2>1. ASSUME NEW e \in Digest, l2'[e] # None
        PROVE  /\ l2'[e].version <= committed' /\ fate'[l2'[e].version] # "aborted"
               /\ e[2] <= generation'
               /\ e[2] = generation' => fate'[l2'[e].version] = "committed"
    <3>1. CASE e = d
      <4>1. l2'[e] = r
        BY <1>a, <1>b, <3>1
      <4> QED
        BY <1>b, <3>1, <4>1
    <3>2. CASE e # d
      <4>1. l2'[e] = l2[e]
        BY <1>a, <1>b, <3>2
      <4>2. /\ l2[e].version <= committed /\ fate[l2[e].version] # "aborted"
            /\ e[2] <= generation
            /\ e[2] = generation => fate[l2[e].version] = "committed"
        BY <2>1, <4>1 DEF DeferStore, StoreUnpolluted
      <4> QED
        BY <1>b, <4>1, <4>2
    <3> QED
      BY <3>1, <3>2
  <2> QED
    BY <2>1 DEF DeferStore, StoreUnpolluted
<1>1. CASE l2' = l2
  BY <1>1, DeferStoreKept
<1>2. ASSUME NEW s \in Session, Store(s) PROVE DeferStore'
  <2> DEFINE d == <<session[s].query, session[s].target>>
             r == session[s].result
  <2>1. /\ session[s].at = "store" /\ r \in Result /\ d \in Digest /\ d[2] <= generation
    BY <1>2, <1>a DEF Store, StatementOK, Fresh, SessionType, Digest
  <2>2. ~InTx(s) /\ writer # s
    <3>1. session[s].mode # "tx"
      BY <2>1 DEF DeferSession
    <3> QED
      BY <3>1, ExecutorAssumption DEF TypeOK
  <2>3. /\ r.version <= Visible(s) /\ fate[r.version] # "aborted"
        /\ fate[r.version] = "committed" \/ writer = s
    BY <2>1 DEF DeferSession, Sound, Fresh
  <2>4. r.version <= committed /\ fate[r.version] = "committed"
    BY <2>2, <2>3 DEF Visible
  <2>5. UNCHANGED <<committed, fate, generation>>
    BY <1>2 DEF Store, databaseVars
  <2> QED
    BY <1>1, <1>2, <1>b, <2>1, <2>3, <2>4, <2>5 DEF Store
<1>3. ASSUME NEW s \in Session, NEW d \in Digest, FlushPut(s, d) PROVE DeferStore'
  <2> DEFINE r == buffers[s].pending[d]
  <2>1. d \in Pending(s) /\ session[s].at = "flushing" /\ writer # s
    BY <1>3, <1>a DEF FlushPut, StatementOK
  <2>2. r \in Result
    BY <2>1 DEF Pending, TypeOK, Buffer
  <2>3. PendingOK(s, d) /\ d[2] \in Nat
    BY <2>1, Numbers DEF DeferSession, Digest
  <2>4. /\ d[2] <= generation /\ r.version <= committed /\ fate[r.version] # "aborted"
        /\ d[2] = generation => fate[r.version] = "committed"
    BY <1>a, <2>1, <2>3 DEF PendingOK, Sound, Visible
  <2>5. UNCHANGED <<committed, fate, generation>>
    BY <1>3 DEF FlushPut, databaseVars
  <2> QED
    BY <1>1, <1>3, <1>b, <2>2, <2>4, <2>5 DEF FlushPut
<1>4. ASSUME NEW d \in Digest, LoseL2(d) PROVE DeferStore'
  <2>1. \A e \in Digest : l2'[e] # None => l2'[e] = l2[e]
    BY <1>4, <1>a DEF LoseL2
  <2>2. UNCHANGED <<committed, fate, generation>>
    BY <1>4 DEF LoseL2, databaseVars
  <2> QED
    BY <2>1, <2>2 DEF DeferStore, StoreUnpolluted
<1>5. \/ l2' = l2 \/ (\E s \in Session : Store(s))
      \/ (\E s \in Session, d \in Digest : FlushPut(s, d)) \/ \E d \in Digest : LoseL2(d)
  BY DEF Next, vars, Open, Close, Ask, ReadGeneration, cacheVars,
     GenerationFails, Lookup, LookupFails, RunQuery, After, AfterFails, Bump, BumpFails,
     FlushBump, FlushFails, FlushEnds, LoseL1, Update, UpdateInTx, Commit, Rollback
<1> QED
  BY <1>1, <1>2, <1>3, <1>4, <1>5

\* DeferInv is preserved.
LEMMA DeferStep ==
  /\ TypeOK /\ TypeOK' /\ StatementInv /\ FateInv /\ FateInv' /\ DeferInv /\ [Next]_vars
  => DeferInv'
<1> SUFFICES ASSUME TypeOK, TypeOK', StatementInv, FateInv, FateInv', DeferInv, [Next]_vars,
                    policy'.transaction = "defer"
             PROVE  DeferStore' /\ \A s \in Session : DeferSession(s)'
  BY DEF DeferInv
<1>a. /\ policy.transaction = "defer" /\ DeferStore /\ \A s \in Session : DeferSession(s)
      /\ generation <= generation'
  BY PolicyKept, GenerationGrows DEF DeferInv
<1>1. DeferStore'
  BY <1>a, DeferStoreStep
<1>2. ASSUME NEW s \in Session, session'[s] = session[s], buffers'[s] = buffers[s],
             DatabaseKept(s)
      PROVE  DeferSession(s)'
  <2>1. Fresh(session[s]) => session[s].result # None
    BY DEF StatementInv, StatementOK
  <2>2. session'[s].at = "store" => ~InTx(s)'
    BY <1>2, <1>a DEF DeferSession, InTx
  <2>3. \/ ~Fresh(session[s])'
        \/ /\ Fresh(session[s]) /\ session[s].result # None
           /\ session'[s].result = session[s].result
           /\ session'[s].at = "store" => ~InTx(s)'
    BY <1>2, <2>1, <2>2 DEF Fresh
  <2>4. session'[s].at = "flushing" <=> session[s].at = "flushing"
    BY <1>2
  <2> QED
    BY <1>2, <1>a, <2>3, <2>4, DeferKept
<1>3. ASSUME NEW s \in Session, NEW t \in Session, Step(t) PROVE DeferSession(s)'
  <2>1. CASE s = t
    <3>1. CASE MovesStatement(s)
      BY <1>a, <3>1, DeferMovesStatement
    <3>2. CASE MovesBuffer(s)
      BY <1>a, <3>2, DeferMovesBuffer
    <3>3. CASE Writes(s)
      BY <1>a, <3>3, DeferWrites
    <3>4. CASE LoseL1(s)
      BY <1>2, <3>4, QuietDatabase DEF LoseL1
    <3> QED
      BY <1>3, <2>1, <3>1, <3>2, <3>3, <3>4 DEF Step
  <2>2. CASE s # t
    <3>1. session'[s] = session[s] /\ buffers'[s] = buffers[s]
      BY <1>3, <2>2, OthersAlone
    <3>2. DatabaseKept(s)
      <4>1. CASE Writes(t)
        BY <2>2, <4>1, DatabaseStep
      <4>2. CASE MovesStatement(t) \/ MovesBuffer(t) \/ LoseL1(t)
        <5>1. UNCHANGED databaseVars
          BY <1>a, <4>2, DeferMovesStatement, DeferMovesBuffer DEF LoseL1
        <5> QED
          BY <5>1, QuietDatabase
      <4> QED
        BY <1>3, <4>1, <4>2 DEF Step
    <3> QED
      BY <1>2, <3>1, <3>2
  <2> QED
    BY <2>1, <2>2
<1>4. ASSUME NEW s \in Session, UNCHANGED <<session, buffers, databaseVars>> PROVE DeferSession(s)'
  BY <1>2, <1>4, QuietDatabase
<1>5. ASSUME NEW s \in Session PROVE DeferSession(s)'
  BY <1>3, <1>4, OneMoves DEF vars, LoseL2, databaseVars
<1> QED
  BY <1>1, <1>5

-----------------------------------------------------------------------------
(* The specification.                                                      *)

\* The inductive invariant.
Inv == TypeOK /\ StatementInv /\ FateInv /\ BypassInv /\ DeferInv

\* The invariant holds at first ...
LEMMA InitInv == Init => Inv
<1> SUFFICES ASSUME Init PROVE Inv
  OBVIOUS
<1>a. /\ session = [s \in Session |-> Closed] /\ writer = None
      /\ committed = 0 /\ latest = 0 /\ announced = 0 /\ generation = 0
      /\ policy \in Policies /\ l1 = [s \in Session |-> None] /\ l2 = [d \in Digest |-> None]
      /\ buffers = [s \in Session |-> None]
      /\ fate = [v \in Version |-> IF v = 0 THEN "committed" ELSE "unused"]
  BY DEF Init
<1>b. Closed \in SessionType /\ Closed.mode = "closed" /\ Closed.at = "idle" /\ Closed.target = 0
  BY ClosedTyped DEF Closed
<1>c. \A s \in Session : session[s] = Closed /\ writer # s /\ s # None
  BY <1>a, ExecutorAssumption
<1>1. TypeOK
  BY <1>a, <1>b, <1>c, Numbers DEF TypeOK, SessionType, Mode, InTx
<1>2. StatementInv
  BY <1>a, <1>b, <1>c DEF StatementInv, StatementOK, Fresh
<1>3. FateInv
  BY <1>a, Numbers DEF FateInv
<1>4. BypassInv
  BY <1>c DEF BypassInv
<1>5. DeferInv
  <2>1. DeferStore
    BY <1>a DEF DeferStore, StoreUnpolluted
  <2>2. ASSUME NEW s \in Session PROVE DeferSession(s)
    BY <1>a, <1>b, <1>c DEF DeferSession, Fresh, Pending
  <2> QED
    BY <2>1, <2>2 DEF DeferInv
<1> QED
  BY <1>1, <1>2, <1>3, <1>4, <1>5 DEF Inv

\* ... and after every step.
LEMMA StepInv == Inv /\ [Next]_vars => Inv'
BY TypeStep, FateStep, BypassStep, DeferStep DEF Inv

\* The inductive invariant holds in every reachable state.
THEOREM ExecutorInductive == Spec => []Inv
BY InitInv, StepInv, PTL DEF Spec

\* Types; a transaction has a buffer exactly in Defer mode, and only an open
\* transaction holds writes (listener.rs, transactional.rs).
THEOREM ExecutorTyped == Spec => []TypeOK
<1>1. Inv => TypeOK
  BY DEF Inv
<1> QED
  BY <1>1, ExecutorInductive, PTL

\* A Bypass transaction that has written reads its own last write, whatever fails
\* (rbatis_intercept.rs 297).
THEOREM BypassTransactionsReadOwnWrites == Spec => []BypassReadsOwnWrites
<1>1. Inv => BypassReadsOwnWrites
  BY DEF Inv, BypassInv, BypassReadsOwnWrites, Answered
<1> QED
  BY <1>1, ExecutorInductive, PTL

\* In Defer mode nothing an open or rolled-back transaction wrote is ever in L2,
\* under any key (transactional.rs, listener.rs).
THEOREM DeferKeepsTheStoreUnpolluted == Spec => []DeferUnpolluted
<1>1. Inv => DeferUnpolluted
  BY DEF Inv, DeferInv, DeferStore, DeferUnpolluted
<1> QED
  BY <1>1, ExecutorInductive, PTL

\* In Defer mode what a later statement can find in L2 was a committed state: the
\* flush bumps before it stores what was read between two writes.
THEOREM DeferPublishesCommittedStates == Spec => []DeferCommitted
<1>1. Inv => DeferCommitted
  <2>1. TypeOK => generation \in Generation /\ \A q \in Query : <<q, generation>> \in Digest
    BY DEF TypeOK, Digest
  <2>2. DeferStore /\ TypeOK => \A q \in Query : LET entry == l2[<<q, generation>>]
                                      IN  entry # None => fate[entry.version] = "committed"
    BY <2>1 DEF DeferStore
  <2> QED
    BY <2>2 DEF Inv, DeferInv, DeferCommitted
<1> QED
  BY <1>1, ExecutorInductive, PTL
==============================================================================
