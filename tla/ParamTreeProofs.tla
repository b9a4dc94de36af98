--------------------------- MODULE ParamTreeProofs ---------------------------
(***************************************************************************)
(* Lemmas about the paths of ParamTree and the numbers of a table's rows,  *)
(* for the proofs about the modules that use the tree.                     *)
(***************************************************************************)
EXTENDS ParamTree, SequenceTheorems, FiniteSetTheorems, TLAPS

-----------------------------------------------------------------------------
(* Paths *)

\* Paths: a parent and a name.
LEMMA AppendPath ==
    ASSUME NEW p \in Seq(Names), NEW x \in Names
    PROVE  /\ Append(p, x) \in Seq(Names) /\ Append(p, x) # <<>>
           /\ Front(Append(p, x)) = p /\ Last(Append(p, x)) = x
  BY DEF Front, Last

LEMMA AppendItems ==
    ASSUME NEW S, NEW p \in Seq(S), NEW x \in S, NEW a, a = Append(p, x)
    PROVE  /\ a \in Seq(S) /\ Len(a) = Len(p) + 1 /\ a[Len(p) + 1] = x
           /\ \A i \in 1 .. Len(p) : a[i] = p[i]
  BY AppendProperties

LEMMA FrontItems ==
    ASSUME NEW q \in Seq(Names), q # <<>>
    PROVE  /\ Front(q) \in Seq(Names) /\ Len(q) \in Nat \ {0} /\ Len(Front(q)) = Len(q) - 1
           /\ \A i \in 1 .. Len(q) - 1 : Front(q)[i] = q[i]
  <1>1. Len(q) \in Nat \ {0}
    BY EmptySeq
  <1>2. \A i \in 1 .. Len(q) - 1 : q[i] \in Names
    BY <1>1
  <1>3. PICK f : f = SubSeq(q, 1, Len(q) - 1)
    OBVIOUS
  <1>4. /\ f \in Seq(Names)
        /\ Len(f) = IF 1 <= Len(q) - 1 THEN Len(q) - 1 - 1 + 1 ELSE 0
        /\ \A i \in 1 .. Len(q) - 1 - 1 + 1 : f[i] = q[1 + i - 1]
    BY <1>1, <1>2, <1>3, SubSeqProperties
  <1>5. Front(q) = f
    BY <1>3 DEF Front
  <1> QED BY <1>1, <1>4, <1>5

LEMMA FrontPath ==
    ASSUME NEW q \in Seq(Names), q # <<>>
    PROVE  /\ Front(q) \in Seq(Names) /\ Last(q) \in Names
           /\ q = Append(Front(q), Last(q))
  <1>1. Last(q) \in Names
    BY FrontItems, ElementOfSeq DEF Last
  <1>2. PICK a : a = Append(Front(q), Last(q))
    OBVIOUS
  <1>3. /\ a \in Seq(Names) /\ Len(a) = Len(q)
        /\ \A i \in 1 .. Len(q) - 1 : a[i] = q[i]
        /\ a[Len(q)] = q[Len(q)]
    BY <1>1, <1>2, FrontItems, AppendProperties DEF Last
  <1>4. \A i \in 1 .. Len(q) : a[i] = q[i]
    BY <1>3, FrontItems
  <1>5. a = q
    BY <1>3, <1>4, SeqEqual
  <1> QED BY <1>1, <1>2, <1>5, FrontItems

\* A path is one of its parent and its name.
LEMMA PathUnique ==
    ASSUME NEW p \in Seq(Names), NEW q \in Seq(Names), p # <<>>, q # <<>>,
           Front(p) = Front(q), Last(p) = Last(q)
    PROVE  p = q
  BY FrontPath

LEMMA PrefixIff ==
    ASSUME NEW p \in Seq(Names), NEW q \in Seq(Names)
    PROVE  IsPrefix(p, q) <=> Len(p) <= Len(q) /\ \A i \in 1 .. Len(p) : p[i] = q[i]
  BY DEF IsPrefix

\* A path below another is it, or its parent is below it.
LEMMA PrefixFront ==
    ASSUME NEW p \in Seq(Names), NEW q \in Seq(Names), q # <<>>
    PROVE  IsPrefix(p, q) <=> p = q \/ IsPrefix(p, Front(q))
  <1>1. /\ Front(q) \in Seq(Names) /\ Len(q) \in Nat \ {0} /\ Len(Front(q)) = Len(q) - 1
        /\ \A i \in 1 .. Len(q) - 1 : Front(q)[i] = q[i]
        /\ Len(p) \in Nat
    BY FrontItems
  <1>2. IsPrefix(p, q) <=> Len(p) <= Len(q) /\ \A i \in 1 .. Len(p) : p[i] = q[i]
    BY PrefixIff
  <1>3. IsPrefix(p, Front(q)) <=>
          Len(p) <= Len(q) - 1 /\ \A i \in 1 .. Len(p) : p[i] = Front(q)[i]
    BY <1>1, PrefixIff
  <1>4. CASE Len(p) = Len(q)
    <2>1. IsPrefix(p, q) => p = q
      BY <1>2, <1>4, SeqEqual
    <2> QED BY <1>1, <1>2, <1>3, <1>4, <2>1
  <1>5. CASE Len(p) # Len(q)
    BY <1>1, <1>2, <1>3, <1>5
  <1> QED BY <1>4, <1>5

\* A path inside a subtree that hangs at p.
LEMMA ConcatPath ==
    ASSUME NEW p \in Seq(Names), NEW r \in Seq(Names)
    PROVE  /\ p \o r \in Seq(Names) /\ IsPrefix(p, p \o r)
           /\ SubSeq(p \o r, Len(p) + 1, Len(p \o r)) = r
  <1>1. PICK c : c = p \o r
    OBVIOUS
  <1>2. /\ c \in Seq(Names) /\ Len(c) = Len(p) + Len(r)
        /\ \A i \in 1 .. Len(p) : c[i] = p[i]
        /\ \A i \in 1 .. Len(r) : c[Len(p) + i] = r[i]
    BY <1>1
  <1>3. IsPrefix(p, c)
    BY <1>2, PrefixIff
  <1>4. SubSeq(c, Len(p) + 1, Len(c)) = r
    <2>1. PICK s : s = SubSeq(c, Len(p) + 1, Len(c))
      OBVIOUS
    <2>2. \A i \in Len(p) + 1 .. Len(c) : c[i] \in Names
      BY <1>2
    <2>3. /\ s \in Seq(Names) /\ Len(s) = Len(r)
          /\ \A i \in 1 .. Len(r) : s[i] = c[Len(p) + i]
      BY <1>2, <2>1, <2>2, SubSeqProperties
    <2>4. s = r
      BY <1>2, <2>3, SeqEqual
    <2> QED BY <2>1, <2>4
  <1> QED BY <1>1, <1>2, <1>3, <1>4

LEMMA ConcatCancel ==
    ASSUME NEW p \in Seq(Names), NEW r \in Seq(Names), NEW s \in Seq(Names), p \o r = p \o s
    PROVE  r = s
  <1>1. PICK c : c = p \o r /\ c = p \o s
    OBVIOUS
  <1>2. SubSeq(c, Len(p) + 1, Len(c)) = r
    BY <1>1, ConcatPath
  <1>3. SubSeq(c, Len(p) + 1, Len(c)) = s
    BY <1>1, ConcatPath
  <1> QED BY <1>2, <1>3

LEMMA ConcatFront ==
    ASSUME NEW p \in Seq(Names), NEW r \in Seq(Names), r # <<>>
    PROVE  p \o r # <<>> /\ Front(p \o r) = p \o Front(r) /\ Last(p \o r) = Last(r)
  <1>1. PICK a \in Seq(Names), x \in Names :
          a = Front(r) /\ x = Last(r) /\ r = Append(a, x)
    BY FrontPath
  <1>2. PICK c \in Seq(Names) : c = p \o a
    <2>1. p \o a \in Seq(Names)
      BY ConcatProperties
    <2> QED BY <2>1
  <1>3. <<x>> \in Seq(Names)
    OBVIOUS
  <1>4. r = a \o <<x>> /\ Append(c, x) = c \o <<x>>
    BY <1>1, <1>2, AppendIsConcat
  <1>5. p \o r = Append(c, x)
    BY <1>2, <1>3, <1>4, ConcatAssociative
  <1> QED BY <1>1, <1>2, <1>5, AppendPath

LEMMA PrefixesOf ==
    ASSUME NEW p \in Seq(Names), NEW q \in Seq(Names)
    PROVE  p \in Prefixes(q) <=> IsPrefix(p, q)
  BY DEF Prefixes, IsPrefix

\* What is on the way to a path inside a subtree at p.
LEMMA PrefixOfConcat ==
    ASSUME NEW p \in Seq(Names), NEW r \in Seq(Names), NEW q \in Seq(Names), IsPrefix(q, p \o r)
    PROVE  IsPrefix(q, p) \/ \E s \in Seq(Names) : q = p \o s /\ IsPrefix(s, r)
  <1>1. PICK c : c = p \o r
    OBVIOUS
  <1>2. /\ c \in Seq(Names) /\ Len(c) = Len(p) + Len(r)
        /\ \A i \in 1 .. Len(p) : c[i] = p[i]
        /\ \A i \in 1 .. Len(r) : c[Len(p) + i] = r[i]
    BY <1>1
  <1>3. Len(q) <= Len(c) /\ \A i \in 1 .. Len(q) : q[i] = c[i]
    BY <1>1, <1>2, PrefixIff
  <1>4. CASE Len(q) <= Len(p)
    BY <1>2, <1>3, <1>4, PrefixIff
  <1>5. CASE Len(q) > Len(p)
    <2>1. PICK s : s = SubSeq(q, Len(p) + 1, Len(q))
      OBVIOUS
    <2>2. \A i \in Len(p) + 1 .. Len(q) : q[i] \in Names
      BY <1>5
    <2>3. /\ s \in Seq(Names) /\ Len(s) = Len(q) - Len(p)
          /\ \A i \in 1 .. Len(s) : s[i] = q[Len(p) + i]
      BY <1>5, <2>1, <2>2, SubSeqProperties
    <2>4. PICK d : d = p \o s
      OBVIOUS
    <2>5. /\ d \in Seq(Names) /\ Len(d) = Len(q)
          /\ \A i \in 1 .. Len(p) : d[i] = p[i]
          /\ \A i \in 1 .. Len(s) : d[Len(p) + i] = s[i]
      BY <1>5, <2>3, <2>4
    <2>6. \A i \in 1 .. Len(q) : q[i] = d[i]
      <3> SUFFICES ASSUME NEW i \in 1 .. Len(q)
                   PROVE  q[i] = d[i]
        OBVIOUS
      <3>1. CASE i <= Len(p)
        BY <1>2, <1>3, <2>5, <3>1
      <3>2. CASE i > Len(p)
        <4>1. i - Len(p) \in 1 .. Len(s) /\ i = Len(p) + (i - Len(p))
          BY <1>5, <2>3, <3>2
        <4> QED BY <2>3, <2>5, <4>1
      <3> QED BY <3>1, <3>2
    <2>7. q = d
      BY <2>5, <2>6, SeqEqual
    <2>8. Len(s) \in Nat /\ Len(r) \in Nat /\ Len(p) \in Nat /\ Len(s) <= Len(r)
      BY <1>2, <1>3, <2>3
    <2>9. \A i \in 1 .. Len(s) : s[i] = r[i]
      <3> SUFFICES ASSUME NEW i \in 1 .. Len(s)
                   PROVE  s[i] = r[i]
        OBVIOUS
      <3>1. Len(p) + i \in 1 .. Len(q) /\ i \in 1 .. Len(r)
        BY <2>3, <2>8
      <3> QED BY <1>2, <1>3, <2>3, <3>1
    <2>10. IsPrefix(s, r)
      BY <2>3, <2>8, <2>9, PrefixIff
    <2>11. q = p \o s
      BY <2>4, <2>7
    <2>12. s \in Seq(Names)
      BY <2>3
    <2>13. \E u \in Seq(Names) : q = p \o u /\ IsPrefix(u, r)
      BY <2>10, <2>11, <2>12, Zenon
    <2> QED BY <2>13
  <1>6. Len(q) <= Len(p) \/ Len(q) > Len(p)
    OBVIOUS
  <1> QED BY <1>4, <1>5, <1>6, Zenon
LEMMA PrefixTransitive ==
    ASSUME NEW p \in Seq(Names), NEW q \in Seq(Names), NEW r \in Seq(Names),
           IsPrefix(p, q), IsPrefix(q, r)
    PROVE  IsPrefix(p, r)
  BY PrefixIff

LEMMA PrefixesType ==
    ASSUME NEW q \in Seq(Names)
    PROVE  \A y \in Prefixes(q) : y \in Seq(Names) /\ IsPrefix(y, q)
  <1> SUFFICES ASSUME NEW l \in 0 .. Len(q)
               PROVE  SubSeq(q, 1, l) \in Seq(Names)
    BY PrefixesOf DEF Prefixes
  <1>1. \A i \in 1 .. l : q[i] \in Names
    OBVIOUS
  <1> QED BY <1>1, SubSeqProperties

LEMMA EmptyPath ==
    ASSUME NEW p \in Seq(Names)
    PROVE  <<>> \in Seq(Names) /\ p \o <<>> = p /\ (IsPrefix(p, <<>>) => p = <<>>)
  <1>1. <<>> \in Seq(Names) /\ Len(<<>>) = 0 /\ (p # <<>> => Len(p) \in Nat \ {0})
    BY EmptySeq
  <1>2. p \o <<>> = p
    BY ConcatEmptySeq
  <1>3. IsPrefix(p, <<>>) => Len(p) <= 0
    BY <1>1, PrefixIff
  <1> QED BY <1>1, <1>2, <1>3

LEMMA InstanceBound == MaxInstance = 4
  BY DEF MaxInstance, Digits

\* A table with room for another row has a smallest unused number.
LEMMA FreeInstanceExists ==
    ASSUME NEW t, NEW p, \E n \in 1 .. MaxInstance : Append(p, Itoa(n)) \notin DOMAIN t
    PROVE  /\ FreeInstance(t, p) \in 1 .. MaxInstance
           /\ Append(p, Itoa(FreeInstance(t, p))) \notin DOMAIN t
           /\ Itoa(FreeInstance(t, p)) \in InstanceNames
  <1> DEFINE Open(n) == Append(p, Itoa(n)) \notin DOMAIN t
  <1>1. MaxInstance = 4
    BY InstanceBound
  <1>2. Open(1) \/ Open(2) \/ Open(3) \/ Open(4)
    <2>1. PICK n \in 1 .. 4 : Open(n)
      BY <1>1
    <2>3. n = 1 \/ n = 2 \/ n = 3 \/ n = 4
      OBVIOUS
    <2> QED BY <2>1, <2>3
  <1> HIDE DEF Open
  <1>3. \E n \in 1 .. 4 : Open(n) /\ \A m \in 1 .. n - 1 : ~Open(m)
    <2>1. CASE Open(1)
      BY <2>1
    <2>2. CASE ~Open(1) /\ Open(2)
      BY <2>2
    <2>3. CASE ~Open(1) /\ ~Open(2) /\ Open(3)
      <3>1. \A m \in 1 .. 3 - 1 : m = 1 \/ m = 2
        OBVIOUS
      <3> QED BY <2>3, <3>1
    <2>4. CASE ~Open(1) /\ ~Open(2) /\ ~Open(3) /\ Open(4)
      <3>1. \A m \in 1 .. 4 - 1 : m = 1 \/ m = 2 \/ m = 3
        OBVIOUS
      <3> QED BY <2>4, <3>1
    <2> QED BY <1>2, <2>1, <2>2, <2>3, <2>4
  <1>4. FreeInstance(t, p) = CHOOSE n \in 1 .. 4 : Open(n) /\ \A m \in 1 .. n - 1 : ~Open(m)
    BY <1>1 DEF FreeInstance, Open
  <1>5. FreeInstance(t, p) \in 1 .. 4 /\ Open(FreeInstance(t, p))
    BY <1>3, <1>4
  <1> QED BY <1>1, <1>5 DEF Open, InstanceNames
==============================================================================
