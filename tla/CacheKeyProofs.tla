---------------------------- MODULE CacheKeyProofs ----------------------------
(***************************************************************************)
(* Proofs about CacheKey: what is framed one after the other can be taken  *)
(* apart again, so a digest determines every boundary it is built from.    *)
(***************************************************************************)
EXTENDS CacheKey, TLAPS, SequenceTheorems

\* A frame is a text that begins with the length of its bytes.
LEMMA FrameIsText ==
  ASSUME NEW a \in Text
  PROVE  /\ Frame(a) \in Text
         /\ Len(Frame(a)) = Len(a) + 1
         /\ Frame(a)[1] = Len(a)
         /\ \A i \in 1..Len(a) : Frame(a)[i + 1] = a[i]
BY DEF Frame, Text

\* A frame before other text.
Before(a, s) == Frame(a) \o s

\* It reads: its length, its bytes, and the rest.
LEMMA FrameBefore ==
  ASSUME NEW a \in Text, NEW s \in Text
  PROVE  /\ Before(a, s) \in Text
         /\ Len(Before(a, s)) = Len(a) + 1 + Len(s)
         /\ Before(a, s)[1] = Len(a)
         /\ \A i \in 1..Len(a) : Before(a, s)[i + 1] = a[i]
         /\ \A i \in 1..Len(s) : Before(a, s)[i + Len(a) + 1] = s[i]
<1> DEFINE f == Frame(a)
<1>1. /\ f \in Seq(Nat) /\ s \in Seq(Nat)
      /\ Len(f) = Len(a) + 1 /\ Len(a) \in Nat /\ Len(s) \in Nat
      /\ f[1] = Len(a) /\ \A i \in 1..Len(a) : f[i + 1] = a[i]
  BY FrameIsText, LenProperties DEF Text
<1> HIDE DEF f
<1>2. /\ f \o s \in Seq(Nat)
      /\ Len(f \o s) = Len(f) + Len(s)
      /\ \A i \in 1..Len(f) + Len(s) :
           (f \o s)[i] = IF i <= Len(f) THEN f[i] ELSE s[i - Len(f)]
  <2>1. f \in Seq(Nat) /\ s \in Seq(Nat)
    BY <1>1
  <2> QED
    BY ONLY <2>1, ConcatProperties, Zenon
<1>3. (f \o s)[1] = Len(a) /\ \A i \in 1..Len(a) : (f \o s)[i + 1] = a[i]
  BY <1>1, <1>2
<1>4. \A i \in 1..Len(s) : (f \o s)[i + Len(a) + 1] = s[i]
  <2> TAKE i \in 1..Len(s)
  <2>1. i + Len(a) + 1 \in 1..Len(f) + Len(s) /\ ~(i + Len(a) + 1 <= Len(f))
        /\ i + Len(a) + 1 - Len(f) = i
    BY <1>1
  <2> QED
    BY <1>2, <2>1
<1> QED
  BY <1>1, <1>2, <1>3, <1>4 DEF f, Before, Text

\* The first component of framed text can be read off, and so can the rest.
LEMMA FrameDecodes ==
  ASSUME NEW a \in Text, NEW b \in Text, NEW s \in Text, NEW t \in Text,
         Before(a, s) = Before(b, t)
  PROVE  a = b /\ s = t
<1> DEFINE u == Before(a, s)
<1>1. /\ Len(u) = Len(a) + 1 + Len(s) /\ u[1] = Len(a)
      /\ \A i \in 1..Len(a) : u[i + 1] = a[i]
      /\ \A i \in 1..Len(s) : u[i + Len(a) + 1] = s[i]
  BY FrameBefore
<1>2. /\ Len(u) = Len(b) + 1 + Len(t) /\ u[1] = Len(b)
      /\ \A i \in 1..Len(b) : u[i + 1] = b[i]
      /\ \A i \in 1..Len(t) : u[i + Len(b) + 1] = t[i]
  <2> DEFINE v == Before(b, t)
  <2>1. u = v
    OBVIOUS
  <2>2. /\ Len(v) = Len(b) + 1 + Len(t) /\ v[1] = Len(b)
        /\ \A i \in 1..Len(b) : v[i + 1] = b[i]
        /\ \A i \in 1..Len(t) : v[i + Len(b) + 1] = t[i]
    BY FrameBefore
  <2> HIDE DEF u, v
  <2> QED
    BY <2>1, <2>2
<1> HIDE DEF u
<1>3. /\ Len(a) \in Nat /\ Len(b) \in Nat /\ Len(s) \in Nat /\ Len(t) \in Nat
      /\ a \in Seq(Nat) /\ b \in Seq(Nat) /\ s \in Seq(Nat) /\ t \in Seq(Nat)
  BY LenProperties DEF Text
<1>4. Len(a) = Len(b) /\ \A i \in 1..Len(a) : a[i] = b[i]
  BY <1>1, <1>2
<1>5. a = b
  BY <1>3, <1>4, SeqEqual
<1>6. Len(s) = Len(t)
  BY <1>1, <1>2, <1>3, <1>4
<1>7. \A i \in 1..Len(s) : s[i] = t[i]
  BY <1>1, <1>2, <1>4, <1>6
<1> QED
  BY <1>3, <1>5, <1>6, <1>7, SeqEqual

\* The last component stands alone.
LEMMA FrameInjective ==
  ASSUME NEW a \in Text, NEW b \in Text, Frame(a) = Frame(b)
  PROVE  a = b
<1> DEFINE f == Frame(a)
<1>1. /\ f[1] = Len(a) /\ \A i \in 1..Len(a) : f[i + 1] = a[i]
  BY FrameIsText
<1>2. /\ f[1] = Len(b) /\ \A i \in 1..Len(b) : f[i + 1] = b[i]
  <2>1. f = Frame(b)
    OBVIOUS
  <2> HIDE DEF f
  <2> QED
    BY <2>1, FrameIsText
<1> HIDE DEF f
<1>3. Len(a) = Len(b) /\ \A i \in 1..Len(a) : a[i] = b[i]
  BY <1>1, <1>2
<1>4. a \in Seq(Nat) /\ b \in Seq(Nat)
  BY DEF Text
<1> QED
  BY <1>3, <1>4, SeqEqual

-----------------------------------------------------------------------------
(* What the digest determines.                                             *)

\* Every component of an input is text.
LEMMA ComponentsAreText ==
  ASSUME NEW z \in Input
  PROVE  /\ z.version \in Text /\ z.data_source \in Text /\ z.driver \in Text
         /\ Tenant(z) \in Text /\ z.namespace \in Text /\ z.statement_id \in Text
         /\ z.sql.canonical \in Text /\ <<z.generation>> \in Text
         /\ z.parameters \in Text
<1>1. /\ z.version \in Text /\ z.data_source \in Text /\ z.driver \in Text
      /\ z.namespace \in Text /\ z.statement_id \in Text /\ z.parameters \in Text
      /\ z.tenant \in Text \cup {NoTenant} /\ z.sql \in Sql /\ z.generation \in Nat
  BY DEF Input
<1>2. z.sql.canonical \in Text
  BY <1>1 DEF Sql
<1>3. Dash \in Text /\ <<z.generation>> \in Text
  BY <1>1 DEF Dash, Text
<1> QED
  BY <1>1, <1>2, <1>3 DEF Tenant

\* Two inputs have one digest exactly if all their boundaries are equal.
THEOREM DigestSeparates ==
  ASSUME NEW x \in Input, NEW y \in Input
  PROVE  Digest(x) = Digest(y) <=> Boundaries(x) = Boundaries(y)
<1> DEFINE
  From9(z) == Frame(z.parameters)
  From8(z) == Before(<<z.generation>>, From9(z))
  From7(z) == Before(z.sql.canonical, From8(z))
  From6(z) == Before(z.statement_id, From7(z))
  From5(z) == Before(z.namespace, From6(z))
  From4(z) == Before(Tenant(z), From5(z))
  From3(z) == Before(z.driver, From4(z))
  From2(z) == Before(z.data_source, From3(z))
  From1(z) == Before(z.version, From2(z))
<1>1. Digest(x) = From1(x) /\ Digest(y) = From1(y)
  BY DEF Digest, Before
<1>2. ASSUME NEW z \in Input
      PROVE  /\ From9(z) \in Text /\ From8(z) \in Text /\ From7(z) \in Text
             /\ From6(z) \in Text /\ From5(z) \in Text /\ From4(z) \in Text
             /\ From3(z) \in Text /\ From2(z) \in Text
  <2> USE ComponentsAreText
  <2>9. From9(z) \in Text
    BY FrameIsText
  <2>8. From8(z) \in Text
    BY <2>9, FrameBefore
  <2>7. From7(z) \in Text
    BY <2>8, FrameBefore
  <2>6. From6(z) \in Text
    BY <2>7, FrameBefore
  <2>5. From5(z) \in Text
    BY <2>6, FrameBefore
  <2>4. From4(z) \in Text
    BY <2>5, FrameBefore
  <2>3. From3(z) \in Text
    BY <2>4, FrameBefore
  <2>2. From2(z) \in Text
    BY <2>3, FrameBefore
  <2> QED
    BY <2>2, <2>3, <2>4, <2>5, <2>6, <2>7, <2>8, <2>9
<1>3. ASSUME Digest(x) = Digest(y) PROVE Boundaries(x) = Boundaries(y)
  <2>1. x.version = y.version /\ From2(x) = From2(y)
    <3>1. Before(x.version, From2(x)) = Before(y.version, From2(y))
      BY <1>1, <1>3
    <3>2. x.version \in Text /\ y.version \in Text
      BY ComponentsAreText
    <3>3. From2(x) \in Text /\ From2(y) \in Text
      BY <1>2
    <3> HIDE DEF From2
    <3> QED
      BY ONLY <3>1, <3>2, <3>3, FrameDecodes
  <2>2. x.data_source = y.data_source /\ From3(x) = From3(y)
    <3>1. Before(x.data_source, From3(x)) = Before(y.data_source, From3(y))
      BY <2>1
    <3>2. x.data_source \in Text /\ y.data_source \in Text
      BY ComponentsAreText
    <3>3. From3(x) \in Text /\ From3(y) \in Text
      BY <1>2
    <3> HIDE DEF From3
    <3> QED
      BY ONLY <3>1, <3>2, <3>3, FrameDecodes
  <2>3. x.driver = y.driver /\ From4(x) = From4(y)
    <3>1. Before(x.driver, From4(x)) = Before(y.driver, From4(y))
      BY <2>2
    <3>2. x.driver \in Text /\ y.driver \in Text
      BY ComponentsAreText
    <3>3. From4(x) \in Text /\ From4(y) \in Text
      BY <1>2
    <3> HIDE DEF From4
    <3> QED
      BY ONLY <3>1, <3>2, <3>3, FrameDecodes
  <2>4. Tenant(x) = Tenant(y) /\ From5(x) = From5(y)
    <3>1. Before(Tenant(x), From5(x)) = Before(Tenant(y), From5(y))
      BY <2>3
    <3>2. Tenant(x) \in Text /\ Tenant(y) \in Text
      BY ComponentsAreText
    <3>3. From5(x) \in Text /\ From5(y) \in Text
      BY <1>2
    <3> HIDE DEF From5
    <3> QED
      BY ONLY <3>1, <3>2, <3>3, FrameDecodes
  <2>5. x.namespace = y.namespace /\ From6(x) = From6(y)
    <3>1. Before(x.namespace, From6(x)) = Before(y.namespace, From6(y))
      BY <2>4
    <3>2. x.namespace \in Text /\ y.namespace \in Text
      BY ComponentsAreText
    <3>3. From6(x) \in Text /\ From6(y) \in Text
      BY <1>2
    <3> HIDE DEF From6
    <3> QED
      BY ONLY <3>1, <3>2, <3>3, FrameDecodes
  <2>6. x.statement_id = y.statement_id /\ From7(x) = From7(y)
    <3>1. Before(x.statement_id, From7(x)) = Before(y.statement_id, From7(y))
      BY <2>5
    <3>2. x.statement_id \in Text /\ y.statement_id \in Text
      BY ComponentsAreText
    <3>3. From7(x) \in Text /\ From7(y) \in Text
      BY <1>2
    <3> HIDE DEF From7
    <3> QED
      BY ONLY <3>1, <3>2, <3>3, FrameDecodes
  <2>7. x.sql.canonical = y.sql.canonical /\ From8(x) = From8(y)
    <3>1. Before(x.sql.canonical, From8(x)) = Before(y.sql.canonical, From8(y))
      BY <2>6
    <3>2. x.sql.canonical \in Text /\ y.sql.canonical \in Text
      BY ComponentsAreText
    <3>3. From8(x) \in Text /\ From8(y) \in Text
      BY <1>2
    <3> HIDE DEF From8
    <3> QED
      BY ONLY <3>1, <3>2, <3>3, FrameDecodes
  <2>8. <<x.generation>> = <<y.generation>> /\ From9(x) = From9(y)
    <3>1. Before(<<x.generation>>, From9(x)) = Before(<<y.generation>>, From9(y))
      BY <2>7
    <3>2. <<x.generation>> \in Text /\ <<y.generation>> \in Text
      BY ComponentsAreText
    <3>3. From9(x) \in Text /\ From9(y) \in Text
      BY <1>2
    <3> HIDE DEF From9
    <3> QED
      BY ONLY <3>1, <3>2, <3>3, FrameDecodes
  <2>9. x.generation = y.generation /\ x.parameters = y.parameters
    BY <2>8, ComponentsAreText, FrameInjective
  <2> QED
    BY <2>1, <2>2, <2>3, <2>4, <2>5, <2>6, <2>7, <2>9 DEF Boundaries
<1>4. ASSUME Boundaries(x) = Boundaries(y) PROVE Digest(x) = Digest(y)
  <2>1. /\ x.version = y.version /\ x.data_source = y.data_source /\ x.driver = y.driver
        /\ Tenant(x) = Tenant(y) /\ x.namespace = y.namespace
        /\ x.statement_id = y.statement_id /\ x.sql.canonical = y.sql.canonical
        /\ x.generation = y.generation /\ x.parameters = y.parameters
    BY <1>4 DEF Boundaries
  <2> QED
    BY <2>1 DEF Digest
<1> QED
  BY <1>3, <1>4
=============================================================================
