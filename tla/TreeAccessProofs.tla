-------------------------- MODULE TreeAccessProofs --------------------------
(***************************************************************************)
(* Theorems about TreeAccess: whatever its handlers, the device and the    *)
(* observers do at once, counters agree with their tables, no half-built   *)
(* instance stays behind, an observer that re-reads misses nothing that is *)
(* announced, and a batch accepted for the end of the session still fits   *)
(* the tree then.                                                          *)
(***************************************************************************)
EXTENDS TreeAccess, ParamTreeProofs

-----------------------------------------------------------------------------
(* Trees *)

\* What every tree of the program satisfies between two critical sections, the
\* tables in U left uncounted.
TreeOK(t, U) ==
    /\ WellFormed(t)
    /\ Counted(t, U)
    /\ \A w \in Watched : isLeaf(t, w)

\* u is t with some leaves rewritten, in place, and no counter made writable.
Rewrites(t, u) ==
    /\ DOMAIN u = DOMAIN t
    /\ \A q \in DOMAIN t :
          \/ u[q] = t[q]
          \/ /\ t[q].kind = "leaf" /\ u[q].kind = "leaf" /\ DOMAIN u[q] = DOMAIN t[q]
             /\ isCounter(q) => u[q].writable = t[q].writable

LEMMA RewriteShape ==
    ASSUME NEW t, NEW u, WellFormed(t), Rewrites(t, u)
    PROVE  /\ WellFormed(u)
           /\ \A q : isLeaf(u, q) <=> isLeaf(t, q)
           /\ \A q : isTable(u, q) <=> isTable(t, q)
           /\ \A q : Instances(u, q) = Instances(t, q)
           /\ \A q : HasCounter(u, q) <=> HasCounter(t, q)
           /\ TableRows(u) = TableRows(t)
  <1>1. \A q : isLeaf(u, q) <=> isLeaf(t, q)
    BY DEF Rewrites, isLeaf
  <1>2. \A q : isTable(u, q) <=> isTable(t, q)
    BY DEF Rewrites, isTable
  <1>3. \A q : Instances(u, q) = Instances(t, q)
    BY DEF Rewrites, Instances, Children
  <1>4. \A q : HasCounter(u, q) <=> HasCounter(t, q)
    BY <1>1 DEF HasCounter
  <1>5. TableRows(u) = TableRows(t)
    BY <1>2, <1>3, Zenon DEF TableRows
  <1>6. WellFormed(u)
    <2>1. \A q \in DOMAIN u : isTable(u, q) => u[q].template = t[q].template
      BY DEF Rewrites, isTable
    <2>2. \A q \in DOMAIN u : isLeaf(u, q) => DOMAIN u[q] = DOMAIN t[q]
      BY DEF Rewrites, isLeaf
    <2>3. u[<<>>].kind = "branch"
      BY DEF Rewrites, WellFormed
    <2>4. \A q \in DOMAIN u : isLeaf(u, q) /\ isCounter(q) => u[q].writable = t[q].writable
      BY DEF Rewrites
    <2> QED BY <1>1, <1>2, <2>1, <2>2, <2>3, <2>4 DEF WellFormed, Rewrites
  <1> QED BY <1>1, <1>2, <1>3, <1>4, <1>5, <1>6

LEMMA RewriteOK ==
    ASSUME NEW U, NEW t, NEW u, TreeOK(t, U), Rewrites(t, u),
           \A c \in TableCounters : c \in DOMAIN t => u[c].raw = t[c].raw
    PROVE  TreeOK(u, U) /\ TableRows(u) = TableRows(t)
  <1>1. \A p \in Tables : HasCounter(t, p) => CounterOf(p) \in TableCounters \cap DOMAIN t
    BY DEF HasCounter, TableCounters, isLeaf
  <1>2. Counted(u, U)
    BY <1>1, RewriteShape DEF TreeOK, Counted, EntryCount
  <1> QED BY <1>2, RewriteShape DEF TreeOK

-----------------------------------------------------------------------------
(* Calls on the tree *)

IsSeq(s) == \E S : s \in Seq(S)

LEMMA SeqIs == \A S : \A s \in Seq(S) : IsSeq(s)
  BY Zenon DEF IsSeq

LEMMA ShortSeq == IsSeq(<<>>) /\ \A x : IsSeq(<<x>>)
  <1>1. <<>> \in Seq({}) /\ \A x : <<x>> \in Seq({x})
    OBVIOUS
  <1> QED BY <1>1, SeqIs

\* A watched leaf that moved is among the changes of the call.
Announced(t, r) ==
    \A w \in Watched : r.tree[w].raw # t[w].raw =>
        \E i \in 1 .. Len(r.changes) : r.changes[i].path = w

GoodCall(t, r, U) == TreeOK(r.tree, U) /\ IsSeq(r.changes) /\ Announced(t, r)

LEMMA FailedOK ==
    ASSUME NEW U, NEW t, TreeOK(t, U), NEW err
    PROVE  GoodCall(t, Failed(t, err), U) /\ TableRows(Failed(t, err).tree) = TableRows(t)
  BY ShortSeq DEF GoodCall, Failed, Announced

\* A path in a well-formed tree.
LEMMA PathIn ==
    ASSUME NEW t, WellFormed(t), NEW q \in DOMAIN t
    PROVE  /\ q \in Seq(Names) /\ parsePath(q)
           /\ \A p \in Seq(Names) : IsPrefix(p, q) => p \in DOMAIN t
           /\ q # <<>> => Front(q) \in DOMAIN t
  <1>1. q \in Seq(Names) /\ Prefixes(q) \subseteq DOMAIN t
    BY DEF WellFormed
  <1>2. \A p \in Seq(Names) : IsPrefix(p, q) => p \in DOMAIN t
    BY <1>1, PrefixesOf
  <1>3. parsePath(q)
    <2>1. \A x \in DOMAIN q : q[x] \in Names
      BY <1>1
    <2> QED BY <2>1, NamesAssumption DEF parsePath, Range
  <1>4. q # <<>> => Front(q) \in DOMAIN t
    <2>1. q # <<>> => Front(q) \in Seq(Names) /\ IsPrefix(Front(q), Front(q))
      BY <1>1, FrontPath, PrefixIff
    <2> QED BY <1>1, <1>2, <2>1, PrefixFront
  <1> QED BY <1>1, <1>2, <1>3, <1>4

\* r replaces the leaf at p by n, a leaf with the same flag, and announces it if its
\* raw value moved.
LeafCall(t, p, n, r) ==
    /\ isLeaf(t, p) /\ n.kind = "leaf" /\ DOMAIN n = DOMAIN t[p]
    /\ n.writable = t[p].writable
    /\ p \in TableCounters => n.raw = t[p].raw
    /\ r = Done([t EXCEPT ![p] = n], IF t[p].raw = n.raw THEN <<>> ELSE <<ValueChange(p)>>)

LEMMA LeafWrite ==
    ASSUME NEW U, NEW t, TreeOK(t, U), NEW p, NEW n, NEW r, LeafCall(t, p, n, r)
    PROVE  GoodCall(t, r, U) /\ TableRows(r.tree) = TableRows(t)
  <1> DEFINE u == [t EXCEPT ![p] = n]
             c == IF t[p].raw = n.raw THEN <<>> ELSE <<ValueChange(p)>>
  <1>1. /\ p \in DOMAIN t /\ t[p].kind = "leaf" /\ n.kind = "leaf"
        /\ DOMAIN n = DOMAIN t[p] /\ n.writable = t[p].writable
        /\ p \in TableCounters => n.raw = t[p].raw
    BY DEF isLeaf, LeafCall
  <1>2. Rewrites(t, u)
    BY <1>1 DEF Rewrites
  <1>3. TreeOK(u, U) /\ TableRows(u) = TableRows(t)
    BY <1>1, <1>2, RewriteOK
  <1>5. IsSeq(c)
    BY ShortSeq
  <1>6. \A w \in Watched : u[w].raw # t[w].raw => c = <<ValueChange(p)>> /\ w = p
    BY <1>1 DEF TreeOK, isLeaf
  <1>7. \A w \in Watched : u[w].raw # t[w].raw => \E i \in 1 .. Len(c) : c[i].path = w
    BY <1>6 DEF ValueChange
  <1> HIDE DEF u, c
  <1>8. Done(u, c).tree = u /\ Done(u, c).changes = c
    BY DEF Done
  <1>9. GoodCall(t, Done(u, c), U)
    BY <1>3, <1>5, <1>7, <1>8 DEF GoodCall, Announced
  <1>10. r = Done(u, c)
    BY DEF LeafCall, u, c
  <1> QED BY <1>3, <1>8, <1>9, <1>10

LEMMA ReadOnlyCounter ==
    ASSUME NEW U, NEW t, TreeOK(t, U), NEW p \in TableCounters, isLeaf(t, p)
    PROVE  ~t[p].writable
  <1>1. PICK q \in Tables : Last(q) \in DOMAIN Counters /\ p = CounterOf(q)
    BY DEF TableCounters
  <1>2. Front(q) \in Seq(Names) /\ Counters[Last(q)] \in Names
    BY <1>1, TablesAssumption, NamesAssumption, FrontPath
  <1>3. p # <<>> /\ Last(p) = Counters[Last(q)]
    BY <1>1, <1>2, AppendPath DEF CounterOf
  <1>4. isCounter(p)
    BY <1>1, <1>3 DEF isCounter, Range
  <1> QED BY <1>4 DEF TreeOK, WellFormed, isLeaf

LEMMA SetOK ==
    ASSUME NEW U, NEW t, TreeOK(t, U), NEW p, NEW v, v.writable = t[p].writable
    PROVE  GoodCall(t, Set(t, p, v), U) /\ TableRows(Set(t, p, v).tree) = TableRows(t)
  <1>1. CASE \E err : Set(t, p, v) = Failed(t, err)
    BY <1>1, FailedOK
  <1>2. CASE /\ isLeaf(t, p) /\ t[p].writable
             /\ Set(t, p, v) = Done([t EXCEPT ![p].raw = v.raw, ![p].writable = v.writable],
                                    Moved(t, p, v.raw))
    <2> DEFINE n == [t[p] EXCEPT !.raw = v.raw, !.writable = v.writable]
    <2>1. p \in DOMAIN t /\ DOMAIN t[p] = {"kind", "type", "raw", "writable", "attrs"}
          /\ t[p].kind = "leaf"
      BY <1>2 DEF TreeOK, WellFormed, isLeaf
    <2>2. /\ DOMAIN n = DOMAIN t[p] /\ n.kind = "leaf" /\ n.writable = t[p].writable
          /\ n.raw = v.raw
      BY <2>1
    <2>3. p \notin TableCounters
      BY <1>2, ReadOnlyCounter
    <2>4. [t EXCEPT ![p].raw = v.raw, ![p].writable = v.writable] = [t EXCEPT ![p] = n]
      BY <2>1
    <2>5. Set(t, p, v) = Done([t EXCEPT ![p] = n],
                              IF t[p].raw = n.raw THEN <<>> ELSE <<ValueChange(p)>>)
      BY <1>2, <2>2, <2>4 DEF Moved
    <2> HIDE DEF n
    <2>9. LeafCall(t, p, n, Set(t, p, v))
      BY <1>2, <2>2, <2>3, <2>5 DEF LeafCall
    <2> QED BY <2>9, LeafWrite, Zenon
  <1> QED BY <1>1, <1>2 DEF Set

LEMMA SetSystemOK ==
    ASSUME NEW U, NEW t, TreeOK(t, U), NEW p, NEW raw, p \notin TableCounters
    PROVE  /\ GoodCall(t, SetSystem(t, p, raw), U)
           /\ TableRows(SetSystem(t, p, raw).tree) = TableRows(t)
  <1>1. CASE \E err : SetSystem(t, p, raw) = Failed(t, err)
    BY <1>1, FailedOK
  <1>2. CASE /\ isLeaf(t, p)
             /\ SetSystem(t, p, raw) = Done([t EXCEPT ![p].raw = raw], Moved(t, p, raw))
    <2> DEFINE n == [t[p] EXCEPT !.raw = raw]
    <2>1. p \in DOMAIN t /\ DOMAIN t[p] = {"kind", "type", "raw", "writable", "attrs"}
          /\ t[p].kind = "leaf"
      BY <1>2 DEF TreeOK, WellFormed, isLeaf
    <2>2. /\ DOMAIN n = DOMAIN t[p] /\ n.kind = "leaf" /\ n.writable = t[p].writable
          /\ n.raw = raw
      BY <2>1
    <2>3. SetSystem(t, p, raw) = Done([t EXCEPT ![p] = n],
                                      IF t[p].raw = n.raw THEN <<>> ELSE <<ValueChange(p)>>)
      BY <1>2, <2>1, <2>2 DEF Moved
    <2> HIDE DEF n
    <2>9. LeafCall(t, p, n, SetSystem(t, p, raw))
      BY <1>2, <2>2, <2>3 DEF LeafCall
    <2> QED BY <2>9, LeafWrite, Zenon
  <1> QED BY <1>1, <1>2 DEF SetSystem

LEMMA SetAttributesOK ==
    ASSUME NEW U, NEW t, TreeOK(t, U), NEW p, NEW attrs
    PROVE  /\ GoodCall(t, SetAttributes(t, p, attrs), U)
           /\ TableRows(SetAttributes(t, p, attrs).tree) = TableRows(t)
  <1>1. CASE \E err : SetAttributes(t, p, attrs) = Failed(t, err)
    BY <1>1, FailedOK
  <1>2. CASE /\ isLeaf(t, p)
             /\ SetAttributes(t, p, attrs) = Done([t EXCEPT ![p].attrs = attrs], <<>>)
    <2> DEFINE n == [t[p] EXCEPT !.attrs = attrs]
    <2>1. p \in DOMAIN t /\ DOMAIN t[p] = {"kind", "type", "raw", "writable", "attrs"}
          /\ t[p].kind = "leaf"
      BY <1>2 DEF TreeOK, WellFormed, isLeaf
    <2>2. /\ DOMAIN n = DOMAIN t[p] /\ n.kind = "leaf" /\ n.writable = t[p].writable
          /\ n.raw = t[p].raw
      BY <2>1
    <2>3. SetAttributes(t, p, attrs) = Done([t EXCEPT ![p] = n],
                                      IF t[p].raw = n.raw THEN <<>> ELSE <<ValueChange(p)>>)
      BY <1>2, <2>1, <2>2
    <2> HIDE DEF n
    <2>9. LeafCall(t, p, n, SetAttributes(t, p, attrs))
      BY <1>2, <2>2, <2>3 DEF LeafCall
    <2> QED BY <2>9, LeafWrite, Zenon
  <1> QED BY <1>1, <1>2 DEF SetAttributes

\* SetBatch writes only leaves that are writable: no counter.
LEMMA SetBatchOK ==
    ASSUME NEW U, NEW t, TreeOK(t, U), NEW batch
    PROVE  /\ TreeOK(SetBatch(t, batch).tree, U)
           /\ TableRows(SetBatch(t, batch).tree) = TableRows(t)
  <1>1. CASE ~CheckBatch(t, batch)
    BY <1>1, FailedOK DEF SetBatch, GoodCall
  <1>2. CASE CheckBatch(t, batch)
    <2> DEFINE u == WriteBatch(t, batch)
               W(q) == \E i \in 1 .. Len(batch) : batch[i].path = q
    <2>1. SetBatch(t, batch).tree = u
      BY <1>2 DEF SetBatch, Done
    <2>2. \A i \in 1 .. Len(batch) : EntryFault(t, batch, i) = ""
      BY <1>2 DEF CheckBatch, preflight
    <2>3. \A i \in 1 .. Len(batch) : isLeaf(t, batch[i].path) /\ t[batch[i].path].writable
      BY <2>2 DEF EntryFault
    <2>4. \A q : W(q) => isLeaf(t, q) /\ t[q].writable
      BY <2>3
    <2>5. DOMAIN u = DOMAIN t /\ \A q \in DOMAIN t : ~W(q) => u[q] = t[q]
      BY DEF WriteBatch
    <2>6. \A q \in DOMAIN t : W(q) => u[q].kind = "leaf" /\ DOMAIN u[q] = DOMAIN t[q]
      <3> SUFFICES ASSUME NEW q \in DOMAIN t, W(q)
                   PROVE  u[q].kind = "leaf" /\ DOMAIN u[q] = DOMAIN t[q]
        OBVIOUS
      <3>1. DOMAIN t[q] = {"kind", "type", "raw", "writable", "attrs"} /\ t[q].kind = "leaf"
        BY <2>4 DEF TreeOK, WellFormed, isLeaf
      <3>2. \E a, b : u[q] = [t[q] EXCEPT !.raw = a, !.writable = b]
        BY DEF WriteBatch
      <3> QED BY <3>1, <3>2
    <2>7. \A q \in DOMAIN t : W(q) => ~isCounter(q) /\ q \notin TableCounters
      BY <2>4, ReadOnlyCounter DEF TreeOK, WellFormed
    <2> HIDE DEF u, W
    <2>8. Rewrites(t, u)
      BY <2>4, <2>5, <2>6, <2>7 DEF Rewrites, isLeaf
    <2>9. \A c \in TableCounters : c \in DOMAIN t => u[c].raw = t[c].raw
      BY <2>5, <2>7
    <2> QED BY <2>1, <2>8, <2>9, RewriteOK
  <1> QED BY <1>1, <1>2


-----------------------------------------------------------------------------
(* Rows and counters *)

\* Every counter outside U agrees but for that of p.
CountedBut(t, p, U) ==
    \A q \in Tables \ U : q # p /\ isTable(t, q) /\ HasCounter(t, q) =>
        t[CounterOf(q)].raw = EntryCount(t, q)

LEMMA CounterPath ==
    ASSUME NEW p \in Seq(Names), p # <<>>, Last(p) \in DOMAIN Counters
    PROVE  /\ CounterOf(p) \in Seq(Names) /\ CounterOf(p) # <<>>
           /\ Front(CounterOf(p)) = Front(p) /\ Last(CounterOf(p)) = Counters[Last(p)]
  BY NamesAssumption, FrontPath, AppendPath DEF CounterOf

LEMMA CounterInjective ==
    ASSUME NEW p \in Seq(Names), p # <<>>, Last(p) \in DOMAIN Counters,
           NEW q \in Seq(Names), q # <<>>, Last(q) \in DOMAIN Counters,
           CounterOf(p) = CounterOf(q)
    PROVE  p = q
  BY CounterPath, NamesAssumption, PathUnique

LEMMA SyncOK ==
    ASSUME NEW U, NEW t, WellFormed(t), \A w \in Watched : isLeaf(t, w),
           NEW p \in Seq(Names), p # <<>>, CountedBut(t, p, U)
    PROVE  /\ GoodCall(t, syncEntryCount(t, p), U \ {p})
           /\ TableRows(syncEntryCount(t, p).tree) = TableRows(t)
  <1> DEFINE r == syncEntryCount(t, p)
  <1>1. CASE ~HasCounter(t, p)
    <2>1. r.tree = t /\ r.changes = <<>>
      BY <1>1 DEF syncEntryCount, Done
    <2>2. TreeOK(t, U \ {p})
      BY <1>1 DEF TreeOK, Counted, CountedBut
    <2> HIDE DEF r
    <2>3. GoodCall(t, r, U \ {p}) /\ TableRows(r.tree) = TableRows(t)
      BY <2>1, <2>2, ShortSeq DEF GoodCall, Announced
    <2> QED BY <2>3 DEF r
  <1>2. CASE HasCounter(t, p)
    <2> DEFINE c == CounterOf(p)
               u == [t EXCEPT ![c].raw = EntryCount(t, p)]
    <2>1. /\ Last(p) \in DOMAIN Counters /\ c \in DOMAIN t /\ t[c].kind = "leaf"
          /\ DOMAIN t[c] = {"kind", "type", "raw", "writable", "attrs"}
      BY <1>2 DEF HasCounter, isLeaf, WellFormed
    <2>2. r.tree = u /\ r.changes = Moved(t, c, EntryCount(t, p))
      BY <1>2 DEF syncEntryCount, Done
    <2> HIDE DEF r
    <2>3. /\ DOMAIN u = DOMAIN t /\ u[c].raw = EntryCount(t, p) /\ u[c].kind = "leaf"
          /\ u[c].writable = t[c].writable /\ DOMAIN u[c] = DOMAIN t[c]
          /\ \A q \in DOMAIN t : q # c => u[q] = t[q]
      BY <2>1
    <2> HIDE DEF c, u
    <2>4. Rewrites(t, u)
      BY <2>1, <2>3 DEF Rewrites
    <2>5. \A q \in Tables : q # p /\ HasCounter(t, q) => CounterOf(q) # c /\ CounterOf(q) \in DOMAIN t
      BY <2>1, TablesAssumption, CounterInjective DEF HasCounter, c, isLeaf
    <2>6. \A q : EntryCount(u, q) = EntryCount(t, q)
      BY <2>4, RewriteShape DEF EntryCount
    <2>7. Counted(u, U \ {p})
      <3> SUFFICES ASSUME NEW q \in Tables, q \notin U \ {p}, isTable(u, q), HasCounter(u, q)
                   PROVE  u[CounterOf(q)].raw = EntryCount(u, q)
        BY DEF Counted
      <3>1. isTable(t, q) /\ HasCounter(t, q)
        BY <2>4, RewriteShape
      <3>2. CASE q = p
        BY <2>3, <2>6, <3>2 DEF c
      <3>3. CASE q # p
        BY <2>3, <2>5, <2>6, <3>1, <3>3 DEF CountedBut
      <3> QED BY <3>2, <3>3
    <2>8. TreeOK(u, U \ {p}) /\ TableRows(u) = TableRows(t)
      BY <2>4, <2>7, RewriteShape DEF TreeOK
    <2>9. IsSeq(r.changes)
      BY <2>2, ShortSeq DEF Moved
    <2>10. \A w \in Watched : u[w].raw # t[w].raw => w = c /\ r.changes = <<ValueChange(c)>>
      BY <2>2, <2>3 DEF Moved, isLeaf
    <2>11. Announced(t, r)
      BY <2>2, <2>10 DEF Announced, ValueChange
    <2> QED BY <2>2, <2>8, <2>9, <2>11 DEF GoodCall, r
  <1> QED BY <1>1, <1>2


\* u is t with a copy of s at new.
Attached(t, new, s, u) ==
    /\ DOMAIN u = DOMAIN t \cup {new \o r : r \in DOMAIN s}
    /\ \A q \in DOMAIN t : u[q] = t[q]
    /\ \A r \in DOMAIN s : new \o r \notin DOMAIN t /\ u[new \o r] = s[r]
    /\ \A r \in DOMAIN s : r # <<>> =>
         /\ Front(new \o r) = new \o Front(r) /\ Front(new \o r) \notin DOMAIN t
         /\ Last(new \o r) = Last(r)
    /\ u[new] = s[<<>>]

\* AddObject's clone of the template s at new, a path the tree lacks.
LEMMA AttachNodes ==
    ASSUME NEW t, WellFormed(t), NEW s, WellFormed(s), NEW new \in Seq(Names),
           new # <<>>, new \notin DOMAIN t, Front(new) \in DOMAIN t,
           NEW u, u = Attach(t, new, s)
    PROVE  Attached(t, new, s, u)
  <1>1. \A r \in DOMAIN s : /\ r \in Seq(Names) /\ new \o r \in Seq(Names)
                            /\ IsPrefix(new, new \o r)
                            /\ SubSeq(new \o r, Len(new) + 1, Len(new \o r)) = r
    BY PathIn, ConcatPath
  <1>2. \A r \in DOMAIN s : new \o r \notin DOMAIN t
    BY <1>1, PathIn
  <1>3. /\ DOMAIN u = DOMAIN t \cup {new \o r : r \in DOMAIN s}
        /\ \A q \in DOMAIN t : u[q] = t[q]
    BY DEF Attach
  <1>4. \A r \in DOMAIN s : u[new \o r] = s[r]
    <2> SUFFICES ASSUME NEW r \in DOMAIN s
                 PROVE  u[new \o r] = s[r]
      OBVIOUS
    <2>1. PICK q : q = new \o r
      OBVIOUS
    <2>2. q \in DOMAIN u /\ q \notin DOMAIN t /\ SubSeq(q, Len(new) + 1, Len(q)) = r
      BY <1>1, <1>2, <1>3, <2>1
    <2>3. u[q] = s[r]
      BY <2>2 DEF Attach
    <2> QED BY <2>1, <2>3
  <1>5. ASSUME NEW r \in DOMAIN s, r # <<>>
        PROVE  /\ Front(new \o r) = new \o Front(r) /\ Front(new \o r) \notin DOMAIN t
               /\ Last(new \o r) = Last(r)
    <2>1. Front(r) \in DOMAIN s
      BY <1>5, PathIn
    <2>2. Front(new \o r) = new \o Front(r) /\ Last(new \o r) = Last(r)
      BY <1>1, <1>5, ConcatFront
    <2> QED BY <1>2, <2>1, <2>2
  <1>6. u[new] = s[<<>>]
    BY <1>4, EmptyPath DEF WellFormed
  <1> QED BY <1>2, <1>3, <1>4, <1>5, <1>6 DEF Attached

LEMMA AttachWellFormed ==
    ASSUME NEW t, WellFormed(t), NEW s, WellFormed(s), NEW new \in Seq(Names),
           new # <<>>, new \notin DOMAIN t, Front(new) \in DOMAIN t
    PROVE  WellFormed(Attach(t, new, s))
  <1>1. PICK u : u = Attach(t, new, s)
    OBVIOUS
  <1>2. /\ DOMAIN u = DOMAIN t \cup {new \o r : r \in DOMAIN s}
        /\ \A q \in DOMAIN t : u[q] = t[q]
        /\ \A r \in DOMAIN s : new \o r \notin DOMAIN t /\ u[new \o r] = s[r]
        /\ u[new] = s[<<>>]
    <2>1. Attached(t, new, s, u)
      BY <1>1, AttachNodes
    <2> QED BY <2>1 DEF Attached
  <1>3. \A r \in DOMAIN s : r \in Seq(Names) /\ new \o r \in Seq(Names)
    BY PathIn, ConcatPath
  <1>4. ASSUME NEW r \in DOMAIN s
        PROVE  Prefixes(new \o r) \subseteq DOMAIN u
    <2> SUFFICES ASSUME NEW y \in Prefixes(new \o r)
                 PROVE  y \in DOMAIN u
      OBVIOUS
    <2>1. y \in Seq(Names) /\ IsPrefix(y, new \o r)
      BY <1>3, PrefixesType
    <2>2. CASE IsPrefix(y, new)
      <3>1. CASE y = new
        BY <1>2, <3>1, EmptyPath DEF WellFormed
      <3>2. CASE y # new
        BY <1>2, <2>1, <2>2, <3>2, PrefixFront, PathIn
      <3> QED BY <3>1, <3>2
    <2>3. CASE ~IsPrefix(y, new)
      <3>1. PICK v \in Seq(Names) : y = new \o v /\ IsPrefix(v, r)
        BY <1>3, <2>1, <2>3, PrefixOfConcat
      <3> QED BY <1>2, <3>1, PathIn
    <2> QED BY <2>2, <2>3
  <1>5. ASSUME NEW q \in DOMAIN u
        PROVE  q \in Seq(Names) /\ Prefixes(q) \subseteq DOMAIN u
    <2>1. CASE q \in DOMAIN t
      BY <1>2, <2>1 DEF WellFormed
    <2>2. CASE q \notin DOMAIN t
      <3>1. PICK r \in DOMAIN s : q = new \o r
        BY <1>2, <2>2
      <3> QED BY <1>3, <1>4, <3>1
    <2> QED BY <2>1, <2>2
  <1>6. <<>> \in DOMAIN u /\ u[<<>>].kind = "branch"
    BY <1>2 DEF WellFormed
  <1>7. ASSUME NEW q \in DOMAIN u
        PROVE  /\ isLeaf(u, q) => DOMAIN u[q] = {"kind", "type", "raw", "writable", "attrs"}
               /\ isTable(u, q) => u[q].template \in Templates
               /\ isLeaf(u, q) /\ isCounter(q) => ~u[q].writable
    <2>1. CASE q \in DOMAIN t
      BY <1>2, <2>1 DEF WellFormed, isLeaf, isTable
    <2>2. ASSUME NEW r \in DOMAIN s, q = new \o r
          PROVE  /\ isLeaf(u, q) => DOMAIN u[q] = {"kind", "type", "raw", "writable", "attrs"}
                 /\ isTable(u, q) => u[q].template \in Templates
                 /\ isLeaf(u, q) /\ isCounter(q) => ~u[q].writable
      <3>1. u[q] = s[r]
        BY <1>2, <2>2
      <3>2. CASE r = <<>>
        BY <3>1, <3>2 DEF WellFormed, isLeaf, isTable
      <3>3. CASE r # <<>>
        <4>1. isCounter(q) <=> isCounter(r)
          BY <1>3, <2>2, <3>3, ConcatFront DEF isCounter
        <4> QED BY <3>1, <4>1 DEF WellFormed, isLeaf, isTable
      <3> QED BY <3>2, <3>3
    <2> QED BY <1>2, <2>1, <2>2
  <1> QED BY <1>1, <1>5, <1>6, <1>7 DEF WellFormed


\* The clone adds a row to p's table and to no other, and its own tables are
\* empty, with their counters at 0.
LEMMA AttachOK ==
    ASSUME NEW U, NEW t, TreeOK(t, U), NEW p, isTable(t, p), NEW x \in InstanceNames,
           Append(p, x) \notin DOMAIN t, NEW u, u = Attach(t, Append(p, x), t[p].template)
    PROVE  /\ WellFormed(u) /\ CountedBut(u, p, U)
           /\ \A w \in Watched : isLeaf(u, w) /\ u[w] = t[w]
           /\ TableRows(u) \subseteq TableRows(t) \cup {Append(p, x)}
  <1>1. PICK new, s : new = Append(p, x) /\ s = t[p].template
    OBVIOUS
  <1>2. p \in DOMAIN t /\ p \in Seq(Names) /\ WellFormed(t) /\ s \in Templates /\ x \in Names
    BY <1>1, PathIn, NamesAssumption DEF TreeOK, WellFormed, isTable
  <1>3. WellFormed(s) /\ Bare(s)
    BY <1>2, TreesAssumption
  <1>4. /\ new \in Seq(Names) /\ new # <<>> /\ Front(new) = p /\ Last(new) = x
        /\ new \notin DOMAIN t /\ u = Attach(t, new, s)
    BY <1>1, <1>2, AppendPath
  <1>5. WellFormed(u)
    BY <1>2, <1>3, <1>4, AttachWellFormed
  <1>6. /\ DOMAIN u = DOMAIN t \cup {new \o r : r \in DOMAIN s}
        /\ \A q \in DOMAIN t : u[q] = t[q]
        /\ \A r \in DOMAIN s : new \o r \notin DOMAIN t /\ u[new \o r] = s[r]
        /\ \A r \in DOMAIN s : r # <<>> =>
                /\ Front(new \o r) = new \o Front(r) /\ Front(new \o r) \notin DOMAIN t
                /\ Last(new \o r) = Last(r)
        /\ u[new] = s[<<>>]
    <2>1. Attached(t, new, s, u)
      BY <1>2, <1>3, <1>4, AttachNodes
    <2> QED BY <2>1 DEF Attached
  <1>7. \A w \in Watched : isLeaf(u, w) /\ u[w] = t[w]
    BY <1>6 DEF TreeOK, isLeaf
  <1>8. new \o <<>> = new /\ <<>> \in DOMAIN s /\ u[new].kind = "branch"
    BY <1>3, <1>4, <1>6, EmptyPath DEF WellFormed
  \* A node whose parent the tree had is one it had, or the new instance.
  <1>9. \A y \in DOMAIN u : y # <<>> /\ Front(y) \in DOMAIN t => y \in DOMAIN t \/ y = new
    BY <1>6, <1>8
  <1>10. \A q \in DOMAIN t : q # p => Instances(u, q) = Instances(t, q)
    BY <1>4, <1>6, <1>9 DEF Instances, Children
  <1>11. Instances(u, p) \subseteq Instances(t, p) \cup {new}
    BY <1>2, <1>6, <1>9 DEF Instances, Children
  <1>12. ASSUME NEW r \in DOMAIN s, isTable(s, r)
         PROVE  r # <<>> /\ Instances(u, new \o r) = {}
    <2>1. r # <<>>
      BY <1>3, <1>12 DEF WellFormed, isTable
    <2>2. ASSUME NEW y \in DOMAIN u, y # <<>>, Front(y) = new \o r, Last(y) \in InstanceNames
          PROVE  FALSE
      <3>1. y \notin DOMAIN t
        BY <1>2, <1>6, <2>2, PathIn
      <3>2. PICK v \in DOMAIN s : y = new \o v
        BY <1>6, <3>1
      <3>3. v # <<>>
        BY <1>2, <1>4, <1>6, <1>8, <2>2, <3>2
      <3>4. new \o Front(v) = new \o r /\ Last(v) = Last(y)
        BY <1>6, <2>2, <3>2, <3>3
      <3>5. Front(v) \in Seq(Names) /\ r \in Seq(Names)
        BY <1>3, <3>3, PathIn, FrontPath
      <3>6. Front(v) = r
        BY <1>4, <3>4, <3>5, ConcatCancel
      <3>7. v \in Instances(s, r)
        BY <2>2, <3>3, <3>4, <3>6 DEF Instances, Children
      <3> QED BY <1>3, <1>12, <3>7 DEF Bare
    <2> QED BY <2>1, <2>2 DEF Instances, Children
  <1>13. \A q \in DOMAIN u : isTable(u, q) =>
           \/ q \in DOMAIN t /\ isTable(t, q)
           \/ \E r \in DOMAIN s : q = new \o r /\ isTable(s, r)
    <2> SUFFICES ASSUME NEW q \in DOMAIN u, isTable(u, q), q \notin DOMAIN t
                 PROVE  \E r \in DOMAIN s : q = new \o r /\ isTable(s, r)
      BY <1>6 DEF isTable
    <2>1. PICK r \in DOMAIN s : q = new \o r
      BY <1>6
    <2>2. isTable(s, r)
      BY <1>6, <2>1 DEF isTable
    <2> QED BY <2>1, <2>2
  <1>14. TableRows(u) \subseteq TableRows(t) \cup {new}
    <2> SUFFICES ASSUME NEW q \in Tables, isTable(u, q), NEW y \in Instances(u, q)
                 PROVE  y \in TableRows(t) \cup {new}
      BY DEF TableRows
    <2>1. CASE q \in DOMAIN t /\ isTable(t, q)
      <3>1. y \in Instances(t, q) \cup {new}
        BY <1>10, <1>11, <2>1
      <3> QED BY <2>1, <3>1 DEF TableRows
    <2>2. CASE \E r \in DOMAIN s : q = new \o r /\ isTable(s, r)
      BY <1>12, <2>2
    <2>3. q \in DOMAIN u
      BY DEF isTable
    <2> QED BY <1>13, <2>1, <2>2, <2>3
  <1>15. CountedBut(u, p, U)
    <2> SUFFICES ASSUME NEW q \in Tables, q \notin U, q # p, isTable(u, q), HasCounter(u, q)
                 PROVE  u[CounterOf(q)].raw = EntryCount(u, q)
      BY DEF CountedBut
    <2>1. PICK c : c = CounterOf(q)
      OBVIOUS
    <2>2. /\ q \in Seq(Names) /\ q # <<>> /\ Last(q) \in DOMAIN Counters /\ c # <<>>
          /\ c \in Seq(Names) /\ Front(c) = Front(q) /\ c \in DOMAIN u /\ u[c].kind = "leaf"
          /\ q \in DOMAIN u
      BY <2>1, TablesAssumption, CounterPath DEF HasCounter, isLeaf, isTable
    <2>3. CASE q \in DOMAIN t /\ isTable(t, q)
      <3>1. c \in DOMAIN t
        BY <1>2, <1>8, <1>9, <2>2, <2>3, PathIn
      <3>2. HasCounter(t, q)
        BY <1>6, <2>1, <2>2, <3>1 DEF HasCounter, isLeaf
      <3> QED BY <1>6, <1>10, <2>1, <2>3, <3>1, <3>2 DEF TreeOK, Counted, EntryCount
    <2>4. ASSUME NEW r \in DOMAIN s, q = new \o r, isTable(s, r)
          PROVE  u[c].raw = EntryCount(u, q)
      <3>1. r # <<>> /\ Instances(u, q) = {} /\ r \in Seq(Names)
        BY <1>3, <1>12, <2>4, PathIn
      <3>2. Front(c) = new \o Front(r) /\ Front(c) \notin DOMAIN t /\ Last(q) = Last(r)
        BY <1>6, <2>2, <2>4, <3>1
      <3>3. c \notin DOMAIN t
        BY <1>2, <2>2, <3>2, PathIn
      <3>4. PICK v \in DOMAIN s : c = new \o v
        BY <1>6, <2>2, <3>3
      <3>5. v # <<>> /\ v \in Seq(Names)
        BY <1>2, <1>3, <1>4, <1>8, <2>2, <3>2, <3>4, PathIn
      <3>6. new \o Front(v) = new \o Front(r) /\ Last(v) = Last(c)
        BY <1>6, <3>2, <3>4, <3>5
      <3>7. Front(v) = Front(r)
        BY <1>4, <3>1, <3>5, <3>6, ConcatCancel, FrontPath
      <3>8. v = CounterOf(r)
        BY <2>1, <2>2, <3>1, <3>2, <3>5, <3>6, <3>7, CounterPath, PathUnique
      <3>9. HasCounter(s, r) /\ s[v].raw = Itoa(0)
        BY <1>3, <1>6, <2>2, <2>4, <3>2, <3>4, <3>8 DEF Bare, HasCounter, isLeaf
      <3>10. EntryCount(u, q) = Itoa(0)
        BY <3>1, FS_EmptySet DEF EntryCount
      <3> QED BY <1>6, <3>4, <3>9, <3>10
    <2> QED BY <1>13, <2>1, <2>2, <2>3, <2>4, Zenon
  <1> QED BY <1>1, <1>5, <1>7, <1>14, <1>15


\* Cutting the subtree at p out takes p's row from its parent's table and no
\* other row of a table that stays.
LEMMA DetachOK ==
    ASSUME NEW U, NEW t, TreeOK(t, U), NEW p \in DOMAIN t, p # <<>>,
           \A w \in Watched : ~IsPrefix(p, w), NEW u, u = Detach(t, p)
    PROVE  /\ WellFormed(u) /\ CountedBut(u, Front(p), U)
           /\ ~(isTable(t, Front(p)) /\ Last(p) \in InstanceNames) => Counted(u, U)
           /\ \A w \in Watched : isLeaf(u, w) /\ u[w] = t[w]
           /\ TableRows(u) \subseteq TableRows(t) \ {p}
  <1>1. WellFormed(t) /\ p \in Seq(Names) /\ IsPrefix(p, p)
    BY PathIn, PrefixIff DEF TreeOK
  <1>2. /\ DOMAIN u = {r \in DOMAIN t : ~IsPrefix(p, r)}
        /\ \A q \in DOMAIN u : u[q] = t[q]
    BY DEF Detach
  <1>3. \A w \in Watched : isLeaf(u, w) /\ u[w] = t[w]
    BY <1>2 DEF TreeOK, isLeaf
  <1>4. <<>> \in DOMAIN u
    BY <1>1, <1>2, EmptyPath DEF WellFormed
  <1>5. ASSUME NEW q \in DOMAIN u
        PROVE  q \in Seq(Names) /\ Prefixes(q) \subseteq DOMAIN u
    <2>1. q \in DOMAIN t /\ q \in Seq(Names) /\ ~IsPrefix(p, q)
      BY <1>1, <1>2, PathIn
    <2>2. \A y \in Prefixes(q) : y \in Seq(Names) /\ IsPrefix(y, q) /\ y \in DOMAIN t
      BY <1>1, <2>1, PrefixesType, PathIn
    <2>3. \A y \in Prefixes(q) : ~IsPrefix(p, y)
      BY <1>1, <2>1, <2>2, PrefixTransitive
    <2> QED BY <1>2, <2>1, <2>2, <2>3
  <1>6. \A q \in DOMAIN u : /\ isLeaf(u, q) <=> isLeaf(t, q)
                            /\ isTable(u, q) <=> isTable(t, q)
    BY <1>2 DEF isLeaf, isTable
  <1>7. WellFormed(u)
    BY <1>1, <1>2, <1>4, <1>5, <1>6 DEF WellFormed
  <1>8. \A q : Instances(u, q) \subseteq Instances(t, q)
    BY <1>2 DEF Instances, Children
  <1>9. ASSUME NEW q \in DOMAIN u, q # Front(p)
        PROVE  Instances(u, q) = Instances(t, q)
    <2>1. q \in Seq(Names) /\ ~IsPrefix(p, q)
      BY <1>1, <1>2, PathIn
    <2>2. ASSUME NEW y \in DOMAIN t, y # <<>>, Front(y) = q
          PROVE  y \in DOMAIN u
      <3>1. y \in Seq(Names)
        BY <1>1, PathIn
      <3>2. ~IsPrefix(p, y)
        BY <1>1, <1>9, <2>1, <2>2, <3>1, PrefixFront
      <3> QED BY <1>2, <3>2
    <2> QED BY <1>2, <2>2 DEF Instances, Children
  <1>10. CountedBut(u, Front(p), U)
    <2> SUFFICES ASSUME NEW q \in Tables, q \notin U, q # Front(p), isTable(u, q), HasCounter(u, q)
                 PROVE  u[CounterOf(q)].raw = EntryCount(u, q)
      BY DEF CountedBut
    <2>1. q \in DOMAIN u /\ CounterOf(q) \in DOMAIN u
      BY DEF isTable, HasCounter, isLeaf
    <2>2. isTable(t, q) /\ HasCounter(t, q)
      BY <1>6, <2>1 DEF HasCounter
    <2> QED BY <1>2, <1>9, <2>1, <2>2 DEF TreeOK, Counted, EntryCount
  <1>11. p \notin DOMAIN u
    BY <1>1, <1>2
  <1>12. TableRows(u) \subseteq TableRows(t) \ {p}
    <2> SUFFICES ASSUME NEW q \in Tables, isTable(u, q), NEW y \in Instances(u, q)
                 PROVE  y \in TableRows(t) /\ y # p
      BY DEF TableRows
    <2>1. isTable(t, q) /\ y \in Instances(t, q) /\ y \in DOMAIN u
      BY <1>6, <1>8 DEF isTable, Instances, Children
    <2> QED BY <1>11, <2>1 DEF TableRows
  <1>13. ASSUME ~(isTable(t, Front(p)) /\ Last(p) \in InstanceNames)
         PROVE  Counted(u, U)
    <2> SUFFICES ASSUME NEW q \in Tables, q \notin U, q = Front(p), isTable(u, q),
                        HasCounter(u, q)
                 PROVE  u[CounterOf(q)].raw = EntryCount(u, q)
      BY <1>10 DEF Counted, CountedBut
    <2>1. q \in DOMAIN u /\ CounterOf(q) \in DOMAIN u
      BY DEF isTable, HasCounter, isLeaf
    <2>2. isTable(t, q) /\ HasCounter(t, q) /\ Last(p) \notin InstanceNames
      BY <1>6, <1>13, <2>1 DEF HasCounter
    <2>3. q \in Seq(Names) /\ ~IsPrefix(p, q)
      BY <1>1, <1>2, <2>1, PathIn
    <2>4. ASSUME NEW y \in DOMAIN t, y # <<>>, Front(y) = q, Last(y) \in InstanceNames
          PROVE  y \in DOMAIN u
      <3>1. y \in Seq(Names) /\ y # p
        BY <1>1, <2>2, <2>4, PathIn
      <3>2. ~IsPrefix(p, y)
        BY <1>1, <2>3, <2>4, <3>1, PrefixFront
      <3> QED BY <1>2, <3>2
    <2>5. Instances(u, q) = Instances(t, q)
      BY <1>2, <2>4 DEF Instances, Children
    <2> QED BY <1>2, <2>1, <2>2, <2>5 DEF TreeOK, Counted, EntryCount
  <1> QED BY <1>3, <1>7, <1>10, <1>12, <1>13

\* u is t after surgery on a row of p, its counter still to be brought up to date.
Surgery(t, u, p, U) ==
    /\ WellFormed(u) /\ CountedBut(u, p, U)
    /\ \A w \in Watched : isLeaf(u, w) /\ u[w] = t[w]

\* r is the call that ends in this sync.
Synced(u, p, r) ==
    /\ r.tree = syncEntryCount(u, p).tree
    /\ \E c : r.changes = <<c>> \o syncEntryCount(u, p).changes

\* A call's announcements cover what a sync after surgery changed.
LEMMA SyncAfter ==
    ASSUME NEW U, NEW t, TreeOK(t, U), NEW u, NEW p \in Seq(Names), p # <<>>, Surgery(t, u, p, U),
           NEW r, Synced(u, p, r)
    PROVE  GoodCall(t, r, U \ {p}) /\ TableRows(r.tree) = TableRows(u)
  <1>0. PICK c : r.changes = <<c>> \o syncEntryCount(u, p).changes
    BY DEF Synced
  <1>1. PICK d : d = syncEntryCount(u, p) /\ r.tree = d.tree /\ r.changes = <<c>> \o d.changes
    BY <1>0 DEF Synced
  <1>2. GoodCall(u, d, U \ {p}) /\ TableRows(d.tree) = TableRows(u)
    BY <1>1, SyncOK DEF Surgery
  <1>3. PICK S : d.changes \in Seq(S)
    BY <1>2 DEF GoodCall, IsSeq
  <1>4. PICK T : T = S \cup {c}
    OBVIOUS
  <1>5. d.changes \in Seq(T) /\ <<c>> \in Seq(T)
    BY <1>3, <1>4, SeqMonotonic
  <1>6. /\ r.changes \in Seq(T) /\ Len(r.changes) = Len(d.changes) + 1
        /\ \A i \in 1 .. Len(d.changes) : r.changes[i + 1] = d.changes[i]
    <2>1. PICK e : e = d.changes
      OBVIOUS
    <2>2. e \in Seq(T) /\ <<c>> \in Seq(T) /\ r.changes = <<c>> \o e
      BY <1>1, <1>5, <2>1
    <2>3. /\ <<c>> \o e \in Seq(T) /\ Len(<<c>> \o e) = Len(e) + 1
          /\ \A i \in 1 .. Len(e) : (<<c>> \o e)[i + 1] = e[i]
      BY <2>2
    <2> QED BY <2>1, <2>2, <2>3
  <1>7. Announced(t, r)
    <2> SUFFICES ASSUME NEW w \in Watched, r.tree[w].raw # t[w].raw
                 PROVE  \E i \in 1 .. Len(r.changes) : r.changes[i].path = w
      BY DEF Announced
    <2>1. PICK i \in 1 .. Len(d.changes) : d.changes[i].path = w
      BY <1>1, <1>2 DEF GoodCall, Announced, Surgery
    <2>2. i + 1 \in 1 .. Len(r.changes) /\ r.changes[i + 1].path = w
      BY <1>5, <1>6, <2>1
    <2> QED BY <2>2
  <1> QED BY <1>1, <1>2, <1>6, <1>7, SeqIs DEF GoodCall


-----------------------------------------------------------------------------
(* AddObject and DeleteObject *)

\* The path of a row.
Row(q) == q \in Seq(Names) /\ q # <<>> /\ Last(q) \in InstanceNames

\* r is a call that cloned the template of p's table into row x.
Added(t, p, x, r) ==
    /\ isTable(t, p) /\ x \in InstanceNames /\ Append(p, x) \notin DOMAIN t
    /\ \E u, c : /\ u = Attach(t, Append(p, x), t[p].template)
                 /\ r.tree = syncEntryCount(u, p).tree
                 /\ r.changes = <<c>> \o syncEntryCount(u, p).changes

LEMMA AddedOK ==
    ASSUME NEW U, NEW t, TreeOK(t, U), NEW p, NEW x, NEW r, Added(t, p, x, r)
    PROVE  /\ GoodCall(t, r, U \ {p}) /\ Row(Append(p, x))
           /\ TableRows(r.tree) \subseteq TableRows(t) \cup {Append(p, x)}
  <1>0. /\ isTable(t, p) /\ x \in InstanceNames /\ Append(p, x) \notin DOMAIN t
    BY DEF Added
  <1> PICK u, c : /\ u = Attach(t, Append(p, x), t[p].template)
                  /\ r.tree = syncEntryCount(u, p).tree
                  /\ r.changes = <<c>> \o syncEntryCount(u, p).changes
    BY DEF Added
  <1>1. /\ WellFormed(u) /\ CountedBut(u, p, U)
        /\ \A w \in Watched : isLeaf(u, w) /\ u[w] = t[w]
        /\ TableRows(u) \subseteq TableRows(t) \cup {Append(p, x)}
    BY <1>0, AttachOK
  <1>2. p \in Seq(Names) /\ p # <<>>
    BY <1>0, PathIn DEF TreeOK, WellFormed, isTable
  <1>3. GoodCall(t, r, U \ {p}) /\ TableRows(r.tree) = TableRows(u)
    <2>1. Surgery(t, u, p, U) /\ Synced(u, p, r)
      BY <1>1 DEF Surgery, Synced
    <2> QED BY <1>2, <2>1, SyncAfter
  <1>4. Row(Append(p, x))
    BY <1>0, <1>2, AppendPath, NamesAssumption DEF Row
  <1> QED BY <1>1, <1>3, <1>4

LEMMA RoomLeft ==
    ASSUME NEW t, NEW p, \E n \in 1 .. MaxRows : Append(p, Itoa(n)) \notin DOMAIN t
    PROVE  \E n \in 1 .. MaxInstance : Append(p, Itoa(n)) \notin DOMAIN t
  BY RoomAssumption, InstanceBound

LEMMA AddObjectAdds ==
    ASSUME NEW t, NEW p, NEW r, r = AddObject(t, p), r.err = "",
           \E n \in 1 .. MaxRows : Append(p, Itoa(n)) \notin DOMAIN t
    PROVE  Added(t, p, Itoa(r.instance), r)
  <1>1. PICK n, x, u, c :
          /\ n = FreeInstance(t, p) /\ x = Itoa(n)
          /\ u = Attach(t, Append(p, x), t[p].template) /\ c = Created(Append(p, x))
    OBVIOUS
  <1>2. /\ isTable(t, p) /\ r.instance = n
        /\ r.tree = syncEntryCount(u, p).tree
        /\ r.changes = <<c>> \o syncEntryCount(u, p).changes
    BY <1>1 DEF AddObject, NotAdded
  <1>3. \E k \in 1 .. MaxInstance : Append(p, Itoa(k)) \notin DOMAIN t
    BY RoomLeft
  <1>4. x \in InstanceNames /\ Append(p, x) \notin DOMAIN t
    BY <1>1, <1>3, FreeInstanceExists
  <1> QED BY <1>1, <1>2, <1>4 DEF Added

LEMMA AddObjectOK ==
    ASSUME NEW U, NEW t, TreeOK(t, U), NEW p, NEW r, r = AddObject(t, p),
           r.err = "" => \E n \in 1 .. MaxRows : Append(p, Itoa(n)) \notin DOMAIN t
    PROVE  /\ GoodCall(t, r, IF r.err = "" THEN U \ {p} ELSE U)
           /\ r.err # "" => TableRows(r.tree) = TableRows(t)
           /\ r.err = "" => /\ Row(Append(p, Itoa(r.instance)))
                            /\ TableRows(r.tree) \subseteq
                                 TableRows(t) \cup {Append(p, Itoa(r.instance))}
  <1>1. CASE r.err # ""
    <2>1. r.tree = t /\ r.changes = <<>>
      BY <1>1 DEF AddObject, NotAdded
    <2>2. GoodCall(t, r, U)
      BY <2>1, ShortSeq DEF GoodCall, Announced
    <2> QED BY <1>1, <2>1, <2>2
  <1>2. CASE r.err = ""
    <2>1. Added(t, p, Itoa(r.instance), r)
      BY <1>2, AddObjectAdds
    <2> QED BY <1>2, <2>1, AddedOK
  <1> QED BY <1>1, <1>2

\* A row that is deleted is gone, and a row that could not be deleted was not there.
LEMMA DeleteObjectOK ==
    ASSUME NEW U, NEW t, TreeOK(t, U), NEW p, NEW r, r = DeleteObject(t, p)
    PROVE  /\ GoodCall(t, r, IF r.err = "" THEN U \ {Front(p)} ELSE U)
           /\ TableRows(r.tree) \subseteq TableRows(t)
           /\ r.err = "" \/ Row(p) => p \notin TableRows(r.tree)
  <1>1. CASE r.err # ""
    <2>1. r.tree = t /\ r.changes = <<>>
      BY <1>1 DEF DeleteObject, Failed, Done
    <2>2. GoodCall(t, r, U)
      BY <2>1, ShortSeq DEF GoodCall, Announced
    <2>3. ASSUME Row(p), p \in TableRows(t)
          PROVE  FALSE
      <3>1. p \in DOMAIN t /\ isTable(t, Front(p))
        BY <2>3 DEF TableRows, Instances, Children
      <3>2. parsePath(p) /\ Front(p) \in DOMAIN t
        BY <2>3, <3>1, PathIn DEF Row, TreeOK
      <3> QED BY <1>1, <2>3, <3>1, <3>2 DEF DeleteObject, Done, Row
    <2> QED BY <1>1, <2>1, <2>2, <2>3
  <1>2. CASE r.err = ""
    <2>1. PICK u : u = Detach(t, p)
      OBVIOUS
    <2>2. /\ p # <<>> /\ p \in DOMAIN t /\ Last(p) \in InstanceNames /\ isTable(t, Front(p))
          /\ r.tree = syncEntryCount(u, Front(p)).tree
          /\ r.changes = <<Deleted(p)>> \o syncEntryCount(u, Front(p)).changes
      BY <1>2, <2>1 DEF DeleteObject, Failed, Done
    <2>3. p \in Seq(Names) /\ Len(p) \in Nat \ {0}
      BY <2>2, PathIn, FrontItems DEF TreeOK
    <2>4. ASSUME NEW w \in Watched, IsPrefix(p, w)
          PROVE  FALSE
      <3>1. w \in Seq(Names)
        BY PathIn DEF TreeOK, isLeaf
      <3>2. Len(p) \in 1 .. Len(w) /\ w[Len(p)] = Last(p)
        BY <2>3, <2>4, <3>1, PrefixIff DEF Last
      <3>3. w[Len(p)] \in Range(w)
        BY <3>1, <3>2 DEF Range
      <3> QED BY <2>2, <3>2, <3>3, WatchedAssumption
    <2>5. /\ WellFormed(u) /\ CountedBut(u, Front(p), U)
          /\ \A w \in Watched : isLeaf(u, w) /\ u[w] = t[w]
          /\ TableRows(u) \subseteq TableRows(t) \ {p}
      BY <2>1, <2>2, <2>4, DetachOK
    <2>6. Front(p) \in Seq(Names) /\ Front(p) # <<>>
      BY <2>2, <2>3, FrontPath DEF TreeOK, WellFormed, isTable
    <2>7. GoodCall(t, r, U \ {Front(p)}) /\ TableRows(r.tree) = TableRows(u)
      <3>1. Surgery(t, u, Front(p), U) /\ Synced(u, Front(p), r)
        BY <2>2, <2>5 DEF Surgery, Synced
      <3> QED BY <2>6, <3>1, SyncAfter
    <2> QED BY <1>2, <2>5, <2>7
  <1> QED BY <1>1, <1>2


-----------------------------------------------------------------------------
(* Graft, Unmount, Reset *)

LEMMA ProfileOK == TreeOK(Profile, {})
  BY TreesAssumption, ProfileAssumption, WatchedAssumption DEF TreeOK

\* An app changes no table but those it brings, or brings rows or a counter to.
LEMMA GraftOK ==
    ASSUME NEW U, NEW t, TreeOK(t, U), NEW app \in Apps, NEW r, r = Graft(t, app)
    PROVE  GoodCall(t, r, U \cup GraftedTables(t, r.tree))
  <1>1. CASE GraftConflict(t, app)
    <2>1. GoodCall(t, r, U)
      BY <1>1, FailedOK DEF Graft
    <2> QED BY <2>1 DEF GoodCall, TreeOK, Counted
  <1>2. CASE ~GraftConflict(t, app)
    <2>1. PICK u : u = [q \in DOMAIN t \cup DOMAIN app |->
                          IF q \in DOMAIN t THEN t[q] ELSE app[q]]
      OBVIOUS
    <2>2. PICK k : k = Cardinality(GraftPoints(t, app))
      OBVIOUS
    <2>3. k \in Nat
      <3>1. GraftPoints(t, app) \subseteq DOMAIN app
        BY DEF GraftPoints
      <3>2. IsFiniteSet(GraftPoints(t, app))
        BY <3>1, TreesAssumption, FS_Subset
      <3> QED BY <2>2, <3>2, FS_CardinalityType
    <2>4. r.tree = u /\ \E f : r.changes = [i \in 1 .. k |-> f[i]]
      <3>1. PICK f : f = [i \in 1 .. k |-> GraftChange(app, SetToSeq(GraftPoints(t, app))[i])]
        OBVIOUS
      <3>2. r.tree = u /\ r.changes = f /\ f = [i \in 1 .. k |-> f[i]]
        BY <1>2, <2>1, <2>2, <3>1 DEF Graft, Done
      <3> QED BY <3>2
    <2>5. IsSeq(r.changes)
      <3>1. PICK f : r.changes = [i \in 1 .. k |-> f[i]]
        BY <2>4
      <3>2. [i \in 1 .. k |-> f[i]] \in Seq({f[i] : i \in 1 .. k})
        BY <2>3
      <3> QED BY <3>1, <3>2, SeqIs
    <2>6. WellFormed(t) /\ WellFormed(app)
      BY TreesAssumption DEF TreeOK
    <2>7. /\ DOMAIN u = DOMAIN t \cup DOMAIN app
          /\ \A q \in DOMAIN t : u[q] = t[q]
          /\ \A q \in DOMAIN app : q \notin DOMAIN t => u[q] = app[q]
      BY <2>1
    <2>8. WellFormed(u)
      <3>1. \A q \in DOMAIN u : q \in Seq(Names) /\ Prefixes(q) \subseteq DOMAIN u
        BY <2>6, <2>7 DEF WellFormed
      <3>2. <<>> \in DOMAIN u /\ u[<<>>].kind = "branch"
        BY <2>6, <2>7 DEF WellFormed
      <3>3. ASSUME NEW q \in DOMAIN u
            PROVE  /\ isLeaf(u, q) => DOMAIN u[q] = {"kind", "type", "raw", "writable", "attrs"}
                   /\ isTable(u, q) => u[q].template \in Templates
                   /\ isLeaf(u, q) /\ isCounter(q) => ~u[q].writable
        <4>1. CASE q \in DOMAIN t
          BY <2>6, <2>7, <4>1 DEF WellFormed, isLeaf, isTable
        <4>2. CASE q \notin DOMAIN t
          BY <2>6, <2>7, <4>2 DEF WellFormed, isLeaf, isTable
        <4> QED BY <4>1, <4>2
      <3> QED BY <3>1, <3>2, <3>3 DEF WellFormed
    <2>9. PICK V : V = U \cup GraftedTables(t, u)
      OBVIOUS
    <2>10. Counted(u, V)
      <3> SUFFICES ASSUME NEW q \in Tables, q \notin V, isTable(u, q), HasCounter(u, q)
                   PROVE  u[CounterOf(q)].raw = EntryCount(u, q)
        BY DEF Counted
      <3>1. \A y \in DOMAIN u \ DOMAIN t :
              y # q /\ Front(y) # q /\ (Last(q) \in DOMAIN Counters => y # CounterOf(q))
        BY <2>9, Zenon DEF GraftedTables
      <3>2. Instances(u, q) = Instances(t, q)
        BY <2>7, <3>1 DEF Instances, Children
      <3>3. q \in DOMAIN t /\ CounterOf(q) \in DOMAIN t
        BY <3>1 DEF isTable, HasCounter, isLeaf
      <3>4. isTable(t, q) /\ HasCounter(t, q)
        BY <2>7, <3>3 DEF HasCounter, isLeaf, isTable
      <3> QED BY <2>7, <2>9, <3>2, <3>3, <3>4 DEF TreeOK, Counted, EntryCount
    <2>11. \A w \in Watched : isLeaf(u, w) /\ u[w] = t[w]
      BY <2>7 DEF TreeOK, isLeaf
    <2>13. TreeOK(u, V)
      BY <2>8, <2>10, <2>11 DEF TreeOK
    <2>14. Announced(t, r)
      BY <2>4, <2>11 DEF Announced
    <2> QED BY <2>4, <2>5, <2>9, <2>13, <2>14 DEF GoodCall
  <1> QED BY <1>1, <1>2

\* An app's root that the profile lacks holds no watched leaf.
LEMMA UnmountOK ==
    ASSUME NEW U, NEW t, TreeOK(t, U), NEW app \in Apps, NEW p \in GraftPoints(Profile, app),
           NEW r, r = Unmount(t, p)
    PROVE  GoodCall(t, r, U) /\ TableRows(r.tree) \subseteq TableRows(t)
  <1>1. CASE \E err : r = Failed(t, err)
    BY <1>1, FailedOK
  <1>2. CASE /\ p \in DOMAIN t /\ p # <<>>
             /\ ~(isTable(t, Front(p)) /\ Last(p) \in InstanceNames)
             /\ r = Done(Detach(t, p), IF isLeaf(t, p) THEN <<>> ELSE <<Deleted(p)>>)
    <2>1. PICK u, c : /\ u = Detach(t, p)
                      /\ c = IF isLeaf(t, p) THEN <<>> ELSE <<Deleted(p)>>
      OBVIOUS
    <2>2. r.tree = u /\ (r.changes = <<>> \/ r.changes = <<Deleted(p)>>)
      <3>1. r = Done(u, c)
        BY <1>2, <2>1
      <3>2. Done(u, c).tree = u /\ Done(u, c).changes = c
        BY DEF Done
      <3>3. c = <<>> \/ c = <<Deleted(p)>>
        BY <2>1
      <3> QED BY <3>1, <3>2, <3>3
    <2>3. p \in Seq(Names) /\ p \notin DOMAIN Profile
      BY TreesAssumption, PathIn DEF GraftPoints
    <2>4. \A w \in Watched : ~IsPrefix(p, w)
      BY <2>3, WatchedAssumption, TreesAssumption, PathIn DEF isLeaf
    <2>5. /\ WellFormed(u) /\ Counted(u, U)
          /\ \A w \in Watched : isLeaf(u, w) /\ u[w] = t[w]
          /\ TableRows(u) \subseteq TableRows(t) \ {p}
      BY <1>2, <2>1, <2>4, DetachOK
    <2>7. TreeOK(u, U)
      BY <2>5 DEF TreeOK
    <2>8. IsSeq(r.changes)
      BY <2>2, ShortSeq
    <2> QED BY <2>2, <2>5, <2>7, <2>8 DEF GoodCall, Announced
  <1> QED BY <1>1, <1>2 DEF Unmount


-----------------------------------------------------------------------------
(* The tree and its observer *)

\* The tree, the observer's view and what it is still to be told.
TreeInv ==
    /\ TreeOK(tree, uncounted)
    /\ DOMAIN view = Watched
    /\ DOMAIN todo = Goroutines /\ \A g \in Goroutines : IsSeq(todo[g])
    /\ ObserverCatchesUp

LEMMA TailOf ==
    ASSUME NEW s, IsSeq(s), s # <<>>
    PROVE  /\ IsSeq(Tail(s)) /\ Head(s) = s[1]
           /\ \A i \in 1 .. Len(s) : i # 1 => i - 1 \in 1 .. Len(Tail(s)) /\ Tail(s)[i - 1] = s[i]
  <1>1. PICK S : s \in Seq(S)
    BY DEF IsSeq
  <1>2. Tail(s) \in Seq(S) /\ Head(s) = s[1]
    BY <1>1
  <1>3. \A i \in 1 .. Len(s) : i # 1 => i - 1 \in 1 .. Len(Tail(s)) /\ Tail(s)[i - 1] = s[i]
    BY <1>1, HeadTailProperties
  <1> QED BY <1>2, <1>3, SeqIs

LEMMA WriteKeeps ==
    ASSUME TreeInv, NEW g \in Goroutines, Free(g), NEW r, GoodCall(tree, r, uncounted'), Announce(g, r)
    PROVE  TreeInv'
  <1>1. /\ tree' = r.tree /\ registered' = registered /\ view' = view /\ silent' = silent
        /\ todo' = [todo EXCEPT ![g] = IF registered THEN r.changes ELSE <<>>]
    BY DEF Announce
  <1>2. TreeOK(tree', uncounted')
    BY <1>1 DEF GoodCall
  <1>3. DOMAIN todo' = Goroutines /\ \A h \in Goroutines : IsSeq(todo'[h])
    <2>1. IsSeq(r.changes) /\ IsSeq(<<>>)
      BY ShortSeq DEF GoodCall
    <2> QED BY <1>1, <2>1 DEF TreeInv
  <1>4. ObserverCatchesUp'
    <2> SUFFICES ASSUME registered, NEW w \in Watched, w \notin silent,
                        view[w] # RawOf(tree', w)
                 PROVE  \E h \in Goroutines : \E i \in 1 .. Len(todo'[h]) : todo'[h][i].path = w
      BY <1>1 DEF ObserverCatchesUp
    <2>1. RawOf(tree', w) = tree'[w].raw /\ RawOf(tree, w) = tree[w].raw
      BY <1>2 DEF TreeInv, TreeOK, RawOf
    <2>2. todo'[g] = r.changes /\ \A h \in Goroutines : h # g => todo'[h] = todo[h]
      BY <1>1 DEF TreeInv
    <2>3. CASE tree'[w].raw # tree[w].raw
      BY <1>1, <2>2, <2>3 DEF GoodCall, Announced
    <2>4. CASE tree'[w].raw = tree[w].raw
      <3>1. PICK h \in Goroutines : \E i \in 1 .. Len(todo[h]) : todo[h][i].path = w
        BY <2>1, <2>4 DEF TreeInv, ObserverCatchesUp
      <3>2. h # g
        BY <3>1 DEF Free
      <3> QED BY <2>2, <3>1, <3>2
    <2> QED BY <2>3, <2>4
  <1> QED BY <1>1, <1>2, <1>3, <1>4 DEF TreeInv

LEMMA SilentWriteKeeps ==
    ASSUME TreeInv, NEW r, TreeOK(r.tree, uncounted'), WriteSilently(r)
    PROVE  TreeInv'
  <1>1. /\ tree' = r.tree /\ registered' = registered /\ view' = view /\ todo' = todo
        /\ silent' = silent \cup Unread(r.tree)
    BY DEF WriteSilently
  <1>2. ObserverCatchesUp'
    <2> SUFFICES ASSUME registered, NEW w \in Watched, w \notin silent',
                        view[w] # RawOf(tree', w)
                 PROVE  \E h \in Goroutines : \E i \in 1 .. Len(todo[h]) : todo[h][i].path = w
      BY <1>1 DEF ObserverCatchesUp
    <2>1. RawOf(tree', w) = RawOf(tree, w) /\ w \notin silent
      BY <1>1 DEF Unread
    <2> QED BY <2>1 DEF TreeInv, ObserverCatchesUp
  <1> QED BY <1>1, <1>2 DEF TreeInv

LEMMA ReadKeeps ==
    ASSUME TreeInv, Read
    PROVE  TreeInv'
  BY DEF TreeInv, Read, ObserverCatchesUp

LEMMA ObserverKeeps ==
    ASSUME TreeInv, ObserverNext
    PROVE  TreeInv'
  <1>1. CASE Observe
    BY <1>1 DEF Observe, TreeInv, ObserverCatchesUp
  <1>2. CASE CancelObserver
    BY <1>2 DEF CancelObserver, NoView, TreeInv, ObserverCatchesUp
  <1>3. ASSUME NEW g \in Goroutines, Notify(g)
        PROVE  TreeInv'
    <2>1. PICK s, p : s = todo[g] /\ p = Head(s).path
      OBVIOUS
    <2>2. /\ s # <<>> /\ tree' = tree /\ registered' = registered
          /\ todo' = [todo EXCEPT ![g] = Tail(s)]
          /\ IF registered /\ p \in Watched
             THEN view' = [view EXCEPT ![p] = RawOf(tree, p)] /\ silent' = silent \ {p}
             ELSE view' = view /\ silent' = silent
      BY <1>3, <2>1 DEF Notify
    <2>3. /\ IsSeq(Tail(s)) /\ Head(s) = s[1]
          /\ \A i \in 1 .. Len(s) : i # 1 => i - 1 \in 1 .. Len(Tail(s)) /\ Tail(s)[i - 1] = s[i]
      BY <2>1, <2>2, TailOf DEF TreeInv
    <2>4. /\ DOMAIN todo' = Goroutines /\ todo'[g] = Tail(s)
          /\ \A h \in Goroutines : h # g => todo'[h] = todo[h]
      BY <2>2 DEF TreeInv
    <2>5. ObserverCatchesUp'
      <3> SUFFICES ASSUME registered, NEW w \in Watched, w \notin silent',
                          view'[w] # RawOf(tree, w)
                   PROVE  \E h \in Goroutines : \E i \in 1 .. Len(todo'[h]) : todo'[h][i].path = w
        BY <2>2 DEF ObserverCatchesUp
      <3>1. w # p /\ view'[w] = view[w] /\ w \notin silent
        BY <2>2 DEF TreeInv
      <3>2. PICK h \in Goroutines : \E i \in 1 .. Len(todo[h]) : todo[h][i].path = w
        BY <3>1 DEF TreeInv, ObserverCatchesUp
      <3>3. CASE h # g
        BY <2>4, <3>2, <3>3
      <3>4. CASE h = g
        <4>1. PICK i \in 1 .. Len(s) : s[i].path = w /\ i # 1
          BY <2>1, <2>3, <3>1, <3>2, <3>4
        <4>2. i - 1 \in 1 .. Len(todo'[g]) /\ todo'[g][i - 1].path = w
          BY <2>3, <2>4, <4>1
        <4>3. PICK j : j = i - 1
          OBVIOUS
        <4>4. j \in 1 .. Len(todo'[g]) /\ todo'[g][j].path = w
          BY <4>2, <4>3
        <4> QED BY <4>4, Zenon
      <3> QED BY <3>3, <3>4
    <2>6. DOMAIN view' = Watched
      BY <2>2 DEF TreeInv
    <2>7. \A h \in Goroutines : IsSeq(todo'[h])
      BY <2>3, <2>4 DEF TreeInv
    <2>8. uncounted' = uncounted
      BY <1>3 DEF Notify
    <2> QED BY <2>2, <2>4, <2>5, <2>6, <2>7, <2>8 DEF TreeInv
  <1> QED BY <1>1, <1>2, <1>3 DEF ObserverNext


-----------------------------------------------------------------------------
(* Rows and who was told of them *)

\* A USP Add under way knows the row it builds.
UspOK ==
    /\ "pc" \in DOMAIN usp
    /\ usp.pc \in {"add", "rollback"} => "instance" \in DOMAIN usp /\ Row(usp.instance)
RowInv == UspOK /\ NoUnreportedInstance

Inv == TreeInv /\ RowInv

LEMMA RowsKept ==
    ASSUME RowInv, TableRows(tree') \subseteq TableRows(tree), usp' = usp, told' = told
    PROVE  RowInv'
  BY DEF RowInv, UspOK, NoUnreportedInstance

LEMMA ReadOnly ==
    ASSUME Inv, Read, UNCHANGED <<usp, told>>
    PROVE  Inv'
  <1>1. TableRows(tree') \subseteq TableRows(tree)
    BY DEF Read
  <1> QED BY <1>1, ReadKeeps, RowsKept DEF Inv

\* Writes that add no row.
LEMMA PlainWrite ==
    ASSUME Inv, NEW g \in Goroutines, Free(g), NEW r, GoodCall(tree, r, uncounted), Write(g, r),
           TableRows(r.tree) \subseteq TableRows(tree), UNCHANGED <<usp, told>>
    PROVE  Inv'
  <1>1. TableRows(tree') \subseteq TableRows(tree)
    BY DEF Write, Announce
  <1> QED BY <1>1, WriteKeeps, RowsKept DEF Inv, Write

LEMMA BatchKeeps ==
    ASSUME Inv, NEW batch, WriteSilently(SetBatch(tree, batch)),
           UNCHANGED <<usp, told, uncounted>>
    PROVE  Inv'
  <1>1. PICK r : r = SetBatch(tree, batch)
    OBVIOUS
  <1>2. TreeOK(r.tree, uncounted') /\ TableRows(r.tree) = TableRows(tree) /\ WriteSilently(r)
    BY <1>1, SetBatchOK DEF Inv, TreeInv
  <1>3. TableRows(tree') \subseteq TableRows(tree)
    BY <1>2 DEF WriteSilently
  <1> QED BY <1>2, <1>3, SilentWriteKeeps, RowsKept DEF Inv

LEMMA AddObjectKeeps ==
    ASSUME Inv, NEW p, HandleAddObject(p)
    PROVE  Inv'
  <1>1. PICK r : r = AddObject(tree, p)
    OBVIOUS
  <1>2. /\ Free("acs") /\ HasRoom(p) /\ WriteRow("acs", r, p) /\ usp' = usp
        /\ told' = IF r.err = "" THEN told \cup {Append(p, Itoa(r.instance))} ELSE told
    BY <1>1 DEF HandleAddObject, AcsReady
  <1>3. /\ GoodCall(tree, r, uncounted')
        /\ r.err # "" => TableRows(r.tree) = TableRows(tree)
        /\ r.err = "" => TableRows(r.tree) \subseteq TableRows(tree) \cup {Append(p, Itoa(r.instance))}
    BY <1>1, <1>2, AddObjectOK DEF HasRoom, Inv, TreeInv, WriteRow
  <1>4. TreeInv'
    BY <1>2, <1>3, WriteKeeps DEF Goroutines, Inv, WriteRow
  <1>5. RowInv'
    BY <1>2, <1>3 DEF WriteRow, Announce, Inv, RowInv, UspOK, NoUnreportedInstance
  <1> QED BY <1>4, <1>5 DEF Inv

LEMMA DeleteObjectKeeps ==
    ASSUME Inv, NEW p, HandleDeleteObject(p)
    PROVE  Inv'
  <1>1. PICK r : r = DeleteObject(tree, p)
    OBVIOUS
  <1>2. /\ Free("acs") /\ WriteRow("acs", r, Front(p)) /\ usp' = usp
        /\ told' = IF r.err = "" THEN told \ {p} ELSE told
    <2>1. CASE r.err = ""
      BY <1>1, <2>1 DEF HandleDeleteObject, AcsReady
    <2>2. CASE r.err # ""
      BY <1>1, <2>2 DEF HandleDeleteObject, AcsReady
    <2> QED BY <2>1, <2>2
  <1>3. /\ GoodCall(tree, r, uncounted') /\ TableRows(r.tree) \subseteq TableRows(tree)
        /\ r.err = "" => p \notin TableRows(r.tree)
    BY <1>1, <1>2, DeleteObjectOK DEF Inv, TreeInv, WriteRow
  <1>4. TreeInv'
    BY <1>2, <1>3, WriteKeeps DEF Goroutines, Inv, WriteRow
  <1>5. RowInv'
    BY <1>2, <1>3 DEF WriteRow, Announce, Inv, RowInv, UspOK, NoUnreportedInstance
  <1> QED BY <1>4, <1>5 DEF Inv

LEMMA AcsKeeps ==
    ASSUME Inv, AcsNext
    PROVE  Inv'
  <1>1. ASSUME NEW r \in Reads, GetParameterValues(r)
        PROVE  Inv'
    BY <1>1, ReadOnly DEF GetParameterValues
  <1>2. ASSUME NEW r \in Reads, NEW b \in BOOLEAN, GetParameterNames(r, b)
        PROVE  Inv'
    BY <1>2, ReadOnly DEF GetParameterNames
  <1>3. ASSUME NEW r \in Reads, GetParameterAttributes(r)
        PROVE  Inv'
    BY <1>3, ReadOnly DEF GetParameterAttributes
  <1>4. CASE ReadAttributes
    BY <1>4, ReadOnly DEF ReadAttributes
  <1>5. CASE SpaWrite
    <2>1. CASE Read
      BY <1>5, <2>1, ReadOnly DEF SpaWrite
    <2>2. CASE ~Read
      <3>1. PICK p, a : Write("acs", SetAttributes(tree, p, a))
        BY <1>5, <2>2 DEF SpaWrite
      <3>2. PICK r : r = SetAttributes(tree, p, a)
        OBVIOUS
      <3>3. GoodCall(tree, r, uncounted) /\ TableRows(r.tree) \subseteq TableRows(tree)
        BY <3>2, SetAttributesOK DEF Inv, TreeInv
      <3>4. Free("acs") /\ UNCHANGED <<usp, told>> /\ Write("acs", r)
        BY <1>5, <3>1, <3>2 DEF SpaWrite
      <3> QED BY <3>3, <3>4, PlainWrite DEF Goroutines
    <2> QED BY <2>1, <2>2
  <1>6. ASSUME NEW req \in SpaRequests, SetParameterAttributes(req)
        PROVE  Inv'
    BY <1>6, ReadOnly DEF SetParameterAttributes
  <1>7. ASSUME NEW req \in SpvRequests, SetParameterValues(req)
        PROVE  Inv'
    BY <1>7, ReadOnly DEF SetParameterValues
  <1>8. CASE ApplyOrDefer
    <2>1. CASE defers(acs.batch)
      BY <1>8, <2>1, ReadOnly DEF ApplyOrDefer
    <2>2. CASE ~defers(acs.batch)
      <3>1. PICK b : b = acs.batch
        OBVIOUS
      <3>2. WriteSilently(SetBatch(tree, b)) /\ UNCHANGED <<usp, told, uncounted>>
        BY <1>8, <2>2, <3>1 DEF ApplyOrDefer
      <3> QED BY <3>2, BatchKeeps
    <2> QED BY <2>1, <2>2
  <1>9. CASE RunAfterSession
    BY <1>9, BatchKeeps DEF RunAfterSession
  <1>10. CASE GetRPCMethods \/ Refuse
    BY <1>10, ReadOnly DEF GetRPCMethods, Refuse
  <1> QED
    BY <1>1, <1>2, <1>3, <1>4, <1>5, <1>6, <1>7, <1>8, <1>9, <1>10,
       AddObjectKeeps, DeleteObjectKeeps
    DEF AcsNext, MalformedValues, MalformedAttributes, MalformedNames, MalformedObjectName


LEMMA ApplyOneOK ==
    ASSUME TreeOK(tree, uncounted), NEW p, NEW raw, NEW r, r = applyOne(p, raw)
    PROVE  GoodCall(tree, r, uncounted) /\ TableRows(r.tree) = TableRows(tree)
  <1>1. CASE \E err : r = Failed(tree, err)
    BY <1>1, FailedOK
  <1>2. CASE ~\E err : r = Failed(tree, err)
    <2>1. PICK v : v = [type |-> tree[p].type, raw |-> raw, writable |-> tree[p].writable]
      OBVIOUS
    <2>2. r = Set(tree, p, v)
      BY <1>2, <2>1 DEF applyOne
    <2>3. v.writable = tree[p].writable
      BY <2>1
    <2> QED BY <2>2, <2>3, SetOK
  <1> QED BY <1>1, <1>2

\* Where no Add is under way, every row is one a manager was told of.
LEMMA AllTold ==
    ASSUME RowInv, usp.pc \notin {"add", "rollback"}
    PROVE  \A p \in TableRows(tree) : p \in told
  BY DEF RowInv, NoUnreportedInstance

LEMMA StillTold ==
    ASSUME "pc" \in DOMAIN usp', usp'.pc \notin {"add", "rollback"},
           \A p \in TableRows(tree') : p \in told'
    PROVE  RowInv'
  BY DEF RowInv, UspOK, NoUnreportedInstance

LEMMA IdlePc == "pc" \in DOMAIN Idle /\ Idle.pc = "idle" /\ Idle.pc \notin {"add", "rollback"}
  BY DEF Idle

LEMMA UspWrites ==
    ASSUME Inv, NEW r, Free("usp"), Announce("usp", r), GoodCall(tree, r, uncounted')
    PROVE  TreeInv' /\ tree' = r.tree
  <1>1. "usp" \in Goroutines
    BY DEF Goroutines
  <1>2. TreeInv'
    BY <1>1, WriteKeeps DEF Inv
  <1> QED BY <1>2 DEF Announce

LEMMA HandleSetKeeps ==
    ASSUME Inv, NEW req, HandleSet(req)
    PROVE  Inv'
  <1>1. usp = Idle /\ Read /\ told' = told
    BY DEF HandleSet, UspReady
  <1>2. "pc" \in DOMAIN usp' /\ usp'.pc \notin {"add", "rollback"}
    BY IdlePc DEF HandleSet
  <1>3. \A p \in TableRows(tree') : p \in told'
    BY <1>1, IdlePc, AllTold DEF Read, Inv
  <1> QED BY <1>1, <1>2, <1>3, ReadKeeps, StillTold DEF Inv

LEMMA SetStepKeeps ==
    ASSUME Inv, SetStep
    PROVE  Inv'
  <1>1. usp.pc = "set" /\ Free("usp") /\ told' = told /\ "pc" \in DOMAIN usp
    BY DEF SetStep, Inv, RowInv, UspOK
  <1>2. "pc" \in DOMAIN usp' /\ usp'.pc \notin {"add", "rollback"}
    <2>1. usp' = Idle \/ \E w : usp' = [usp EXCEPT !.work = w]
      BY DEF SetStep
    <2>2. \A w : LET u == [usp EXCEPT !.work = w] IN "pc" \in DOMAIN u /\ u.pc = usp.pc
      BY <1>1
    <2> QED BY <1>1, <2>1, <2>2, IdlePc
  <1>3. TreeInv' /\ TableRows(tree') = TableRows(tree)
    <2>1. CASE Read
      BY <2>1, ReadKeeps DEF Inv, Read
    <2>2. CASE ~Read
      <3>1. PICK p, raw : Write("usp", applyOne(p, raw))
        BY <2>2 DEF SetStep
      <3>2. PICK r : r = applyOne(p, raw)
        OBVIOUS
      <3>3. GoodCall(tree, r, uncounted) /\ TableRows(r.tree) = TableRows(tree) /\ Write("usp", r)
        BY <3>1, <3>2, ApplyOneOK DEF Inv, TreeInv
      <3> QED BY <1>1, <3>3, UspWrites DEF Write
    <2> QED BY <2>1, <2>2
  <1>4. \A p \in TableRows(tree') : p \in told'
    BY <1>1, <1>3, AllTold DEF Inv
  <1> QED BY <1>2, <1>3, <1>4, StillTold DEF Inv

LEMMA HandleAddKeeps ==
    ASSUME Inv, NEW req, HandleAdd(req)
    PROVE  Inv'
  <1>1. PICK p, r : p = (CHOOSE q \in ExpandSearchPath(req.path) : TRUE) /\ r = AddObject(tree, p)
    OBVIOUS
  <1>2. usp = Idle /\ Free("usp") /\ told' = told
    BY DEF HandleAdd, UspReady
  <1>3. \A q \in TableRows(tree) : q \in told
    BY <1>2, IdlePc, AllTold DEF Inv
  <1>4. CASE Read /\ usp' = Idle
    <2>1. TreeInv' /\ \A q \in TableRows(tree') : q \in told'
      BY <1>2, <1>3, <1>4, ReadKeeps DEF Inv, Read
    <2> QED BY <1>4, <2>1, IdlePc, StillTold DEF Inv
  <1>5. CASE ~(Read /\ usp' = Idle)
    <2>1. PICK new, w : /\ r.err = "" /\ HasRoom(p) /\ WriteRow("usp", r, p)
                        /\ new = Append(p, Itoa(r.instance))
                        /\ usp' = [pc |-> "add", instance |-> new, work |-> w]
      BY <1>1, <1>5 DEF HandleAdd
    <2>2. GoodCall(tree, r, uncounted') /\ Row(new) /\ TableRows(r.tree) \subseteq TableRows(tree) \cup {new}
      <3>1. \E n \in 1 .. MaxRows : Append(p, Itoa(n)) \notin DOMAIN tree
        BY <2>1 DEF HasRoom
      <3>2. TreeOK(tree, uncounted) /\ uncounted' = uncounted \ {p}
        BY <2>1 DEF Inv, TreeInv, WriteRow
      <3>3. /\ GoodCall(tree, r, IF r.err = "" THEN uncounted \ {p} ELSE uncounted)
            /\ r.err = "" => /\ Row(Append(p, Itoa(r.instance)))
                             /\ TableRows(r.tree) \subseteq
                                  TableRows(tree) \cup {Append(p, Itoa(r.instance))}
        <4>1. r = AddObject(tree, p)
          BY <1>1
        <4> QED BY <3>1, <3>2, <4>1, AddObjectOK
      <3> QED BY <2>1, <3>2, <3>3
    <2>3. TreeInv' /\ tree' = r.tree
      BY <1>2, <2>1, <2>2, UspWrites DEF WriteRow
    <2>4. "pc" \in DOMAIN usp' /\ "instance" \in DOMAIN usp' /\ usp'.instance = new /\ usp'.pc = "add"
      BY <2>1
    <2>5. RowInv'
      BY <1>2, <1>3, <2>2, <2>3, <2>4 DEF RowInv, UspOK, NoUnreportedInstance
    <2> QED BY <2>3, <2>5 DEF Inv
  <1> QED BY <1>4, <1>5

LEMMA AddStepKeeps ==
    ASSUME Inv, AddStep
    PROVE  Inv'
  <1>1. /\ usp.pc = "add" /\ Free("usp") /\ "pc" \in DOMAIN usp /\ "instance" \in DOMAIN usp
        /\ Row(usp.instance) /\ \A q \in TableRows(tree) : q \in told \/ q = usp.instance
    BY DEF AddStep, Inv, RowInv, UspOK, NoUnreportedInstance
  <1>2. CASE usp.work = <<>>
    <2>1. Read /\ usp' = Idle /\ told' = told \cup {usp.instance}
      BY <1>2 DEF AddStep
    <2>2. TreeInv' /\ \A q \in TableRows(tree') : q \in told'
      BY <1>1, <2>1, ReadKeeps DEF Inv, Read
    <2> QED BY <2>1, <2>2, IdlePc, StillTold DEF Inv
  <1>3. CASE usp.work # <<>>
    <2>1. PICK p, raw, r : r = applyOne(p, raw) /\ Write("usp", r)
      BY <1>3 DEF AddStep
    <2>2. GoodCall(tree, r, uncounted) /\ TableRows(r.tree) = TableRows(tree)
      BY <2>1, ApplyOneOK DEF Inv, TreeInv
    <2>3. TreeInv' /\ tree' = r.tree
      BY <1>1, <2>1, <2>2, UspWrites DEF Write
    <2>4. told' = told
      BY <1>3 DEF AddStep
    <2>5. usp' = AddFails \/ \E w : usp' = [usp EXCEPT !.work = w]
      BY <1>3 DEF AddStep
    <2>6. /\ "pc" \in DOMAIN usp' /\ usp'.pc \in {"add", "rollback"}
          /\ "instance" \in DOMAIN usp' /\ usp'.instance = usp.instance
      <3>1. CASE usp' = AddFails
        BY <3>1 DEF AddFails
      <3>2. ASSUME NEW w, usp' = [usp EXCEPT !.work = w]
            PROVE  /\ "pc" \in DOMAIN usp' /\ usp'.pc \in {"add", "rollback"}
                   /\ "instance" \in DOMAIN usp' /\ usp'.instance = usp.instance
        BY <1>1, <3>2
      <3> QED BY <2>5, <3>1, <3>2
    <2>7. RowInv'
      BY <1>1, <2>2, <2>3, <2>4, <2>6 DEF RowInv, UspOK, NoUnreportedInstance
    <2> QED BY <2>3, <2>7 DEF Inv
  <1> QED BY <1>2, <1>3

\* The rollback finds its row or nothing: the row is gone either way.
LEMMA RollBackKeeps ==
    ASSUME Inv, RollBack
    PROVE  Inv'
  <1>1. /\ Free("usp") /\ Row(usp.instance) /\ usp' = Idle /\ told' = told
        /\ \A q \in TableRows(tree) : q \in told \/ q = usp.instance
    BY DEF RollBack, Inv, RowInv, UspOK, NoUnreportedInstance
  <1>2. PICK p, r : p = usp.instance /\ r = DeleteObject(tree, p)
    OBVIOUS
  <1>3. WriteRow("usp", r, Front(p))
    BY <1>2 DEF RollBack
  <1>4. /\ GoodCall(tree, r, uncounted') /\ TableRows(r.tree) \subseteq TableRows(tree)
        /\ p \notin TableRows(r.tree)
    BY <1>1, <1>2, <1>3, DeleteObjectOK DEF Inv, TreeInv, WriteRow
  <1>5. TreeInv' /\ tree' = r.tree
    BY <1>1, <1>3, <1>4, UspWrites DEF WriteRow
  <1>6. \A q \in TableRows(tree') : q \in told'
    BY <1>1, <1>2, <1>4, <1>5
  <1> QED BY <1>1, <1>5, <1>6, IdlePc, StillTold DEF Inv


LEMMA HandleDeleteKeeps ==
    ASSUME Inv, NEW p, HandleDelete(p)
    PROVE  Inv'
  <1>1. usp = Idle /\ Read /\ told' = told
    BY DEF HandleDelete, UspReady
  <1>2. "pc" \in DOMAIN usp' /\ usp'.pc \notin {"add", "rollback"}
    BY DEF HandleDelete
  <1>3. \A q \in TableRows(tree') : q \in told'
    BY <1>1, IdlePc, AllTold DEF Read, Inv
  <1> QED BY <1>1, <1>2, <1>3, ReadKeeps, StillTold DEF Inv

LEMMA DeleteStepKeeps ==
    ASSUME Inv, DeleteStep
    PROVE  Inv'
  <1>1. usp.pc = "delete" /\ Free("usp") /\ "pc" \in DOMAIN usp
    BY DEF DeleteStep, Inv, RowInv, UspOK
  <1>2. \A q \in TableRows(tree) : q \in told
    BY <1>1, AllTold DEF Inv
  <1>3. CASE usp.work = <<>>
    <2>1. Read /\ usp' = Idle /\ told' = told
      BY <1>3 DEF DeleteStep
    <2>2. TreeInv' /\ \A q \in TableRows(tree') : q \in told'
      BY <1>2, <2>1, ReadKeeps DEF Inv, Read
    <2> QED BY <2>1, <2>2, IdlePc, StillTold DEF Inv
  <1>4. CASE usp.work # <<>>
    <2>1. PICK p, r : p = Head(usp.work) /\ r = DeleteObject(tree, p)
      OBVIOUS
    <2>2. /\ WriteRow("usp", r, Front(p)) /\ told' = IF r.err = "" THEN told \ {p} ELSE told
          /\ \E v, w : usp' = [usp EXCEPT !.work = v, !.affected = w]
      BY <1>4, <2>1 DEF DeleteStep
    <2>3. /\ GoodCall(tree, r, uncounted') /\ TableRows(r.tree) \subseteq TableRows(tree)
          /\ r.err = "" => p \notin TableRows(r.tree)
      <3>1. /\ TreeOK(tree, uncounted)
            /\ uncounted' = IF r.err = "" THEN uncounted \ {Front(p)} ELSE uncounted
        BY <2>2 DEF Inv, TreeInv, WriteRow
      <3>2. /\ GoodCall(tree, r, IF r.err = "" THEN uncounted \ {Front(p)} ELSE uncounted)
            /\ TableRows(r.tree) \subseteq TableRows(tree)
            /\ r.err = "" \/ Row(p) => p \notin TableRows(r.tree)
        BY <2>1, <3>1, DeleteObjectOK, Zenon
      <3> QED BY <3>1, <3>2
    <2>4. TreeInv' /\ tree' = r.tree
      BY <1>1, <2>2, <2>3, UspWrites DEF WriteRow
    <2>5. "pc" \in DOMAIN usp' /\ usp'.pc = "delete"
      BY <1>1, <2>2
    <2>6. \A q \in TableRows(tree') : q \in told'
      BY <1>2, <2>2, <2>3, <2>4
    <2> QED BY <2>4, <2>5, <2>6, StillTold DEF Inv
  <1> QED BY <1>3, <1>4

LEMMA UspKeeps ==
    ASSUME Inv, UspNext
    PROVE  Inv'
  <1>1. ASSUME NEW r \in Reads, HandleGet(r)
        PROVE  Inv'
    BY <1>1, ReadOnly DEF HandleGet
  <1>2. ASSUME NEW r \in Reads, NEW b \in BOOLEAN, HandleGetInstances(r.path, b)
        PROVE  Inv'
    BY <1>2, ReadOnly DEF HandleGetInstances
  <1>3. ASSUME NEW r \in Reads, NEW b \in BOOLEAN, HandleGetSupportedDM(r.path, b)
        PROVE  Inv'
    BY <1>3, ReadOnly DEF HandleGetSupportedDM
  <1> QED
    BY <1>1, <1>2, <1>3, HandleSetKeeps, SetStepKeeps, HandleAddKeeps, AddStepKeeps,
       RollBackKeeps, HandleDeleteKeeps, DeleteStepKeeps
    DEF UspNext

LEMMA DeviceKeeps ==
    ASSUME Inv, DeviceNext
    PROVE  Inv'
  <1>1. "device" \in Goroutines /\ TreeOK(tree, uncounted)
    BY DEF Goroutines, Inv, TreeInv
  <1>2. ASSUME NEW w \in DeviceWrites, DeviceWrite(w)
        PROVE  Inv'
    <2>1. PICK p, raw, r : p = w.path /\ raw = w.raw /\ r = SetSystem(tree, p, raw)
      OBVIOUS
    <2>2. GoodCall(tree, r, uncounted) /\ TableRows(r.tree) \subseteq TableRows(tree)
      BY <1>1, <2>1, TablesAssumption, SetSystemOK
    <2>3. Free("device") /\ Write("device", r) /\ UNCHANGED <<usp, told>>
      BY <1>2, <2>1 DEF DeviceWrite, DeviceIdle
    <2> QED BY <1>1, <2>2, <2>3, PlainWrite
  <1>3. ASSUME NEW app \in Apps, GraftApp(app)
        PROVE  Inv'
    <2>1. PICK r : r = Graft(tree, app)
      OBVIOUS
    <2>2. /\ Free("device") /\ Announce("device", r) /\ usp' = usp
          /\ uncounted' = uncounted \cup GraftedTables(tree, r.tree)
          /\ told' = told \cup (TableRows(r.tree) \ TableRows(tree))
      BY <1>3, <2>1 DEF GraftApp, DeviceIdle
    <2>3. GoodCall(tree, r, uncounted')
      BY <1>1, <2>1, <2>2, GraftOK
    <2>4. TreeInv'
      BY <1>1, <2>2, <2>3, WriteKeeps DEF Inv
    <2>5. tree' = r.tree
      BY <2>2 DEF Announce
    <2>6. RowInv'
      BY <2>2, <2>5 DEF Inv, RowInv, UspOK, NoUnreportedInstance
    <2> QED BY <2>4, <2>6 DEF Inv
  <1>4. ASSUME NEW app \in Apps, UnmountApp(app)
        PROVE  Inv'
    <2>1. PICK p \in GraftPoints(Profile, app) : Write("device", Unmount(tree, p))
      BY <1>4 DEF UnmountApp
    <2>2. PICK r : r = Unmount(tree, p)
      OBVIOUS
    <2>3. GoodCall(tree, r, uncounted) /\ TableRows(r.tree) \subseteq TableRows(tree)
      BY <1>1, <2>1, <2>2, UnmountOK
    <2>4. Free("device") /\ Write("device", r) /\ UNCHANGED <<usp, told>>
      BY <1>4, <2>1, <2>2 DEF UnmountApp, DeviceIdle
    <2> QED BY <1>1, <2>3, <2>4, PlainWrite
  <1>5. CASE FactoryReset
    <2>1. PICK r : r = Reset(tree, Profile)
      OBVIOUS
    <2>2. r.tree = Profile
      BY <2>1 DEF Reset, Done
    <2>3. WriteSilently(r) /\ usp' = usp /\ told' = TableRows(Profile) /\ uncounted' = {}
      BY <1>5, <2>1 DEF FactoryReset, DeviceIdle
    <2>4. TreeInv'
      BY <2>2, <2>3, ProfileOK, SilentWriteKeeps DEF Inv
    <2>5. RowInv'
      BY <2>2, <2>3 DEF WriteSilently, Inv, RowInv, UspOK, NoUnreportedInstance
    <2> QED BY <2>4, <2>5 DEF Inv
  <1> QED BY <1>2, <1>3, <1>4, <1>5 DEF DeviceNext

LEMMA ObserverNextKeeps ==
    ASSUME Inv, ObserverNext
    PROVE  Inv'
  <1>1. tree' = tree /\ usp' = usp /\ told' = told /\ uncounted' = uncounted
    BY DEF ObserverNext, Observe, CancelObserver, Notify
  <1>2. TableRows(tree') \subseteq TableRows(tree)
    BY <1>1
  <1> QED BY <1>1, <1>2, ObserverKeeps, RowsKept DEF Inv

-----------------------------------------------------------------------------
LEMMA InitInv == Init => Inv
  <1> SUFFICES ASSUME Init PROVE Inv
    OBVIOUS
  <1>1. TreeInv
    BY ProfileOK, ShortSeq DEF Init, NoView, TreeInv, ObserverCatchesUp
  <1>2. RowInv
    BY IdlePc DEF Init, RowInv, UspOK, NoUnreportedInstance
  <1> QED BY <1>1, <1>2 DEF Inv

LEMMA StepInv == Inv /\ [Next]_vars => Inv'
  <1> SUFFICES ASSUME Inv, [Next]_vars PROVE Inv'
    OBVIOUS
  <1>1. CASE Next
    BY <1>1, AcsKeeps, UspKeeps, DeviceKeeps, ObserverNextKeeps DEF Next
  <1>2. CASE UNCHANGED vars
    BY <1>2, ReadOnly DEF vars, Read
  <1> QED BY <1>1, <1>2

LEMMA InvAlways == Spec => []Inv
  BY InitInv, StepInv, PTL DEF Spec

\* Whatever managers, device and app stores do at once, a table's entry
\* counter is the number of its rows (syncEntryCount under the tree's lock),
\* but for a table a graft changed and no manager has counted again.
THEOREM CountersHonest == Spec => []CountersAgree
  <1>1. Inv => CountersAgree
    BY DEF Inv, TreeInv, TreeOK, CountersAgree
  <1> QED BY <1>1, InvAlways, PTL

\* A row is one some manager was told of, or the one the Add under way is
\* still building: a failed Add takes its row away again (HandleAdd).
THEOREM NothingHalfBuilt == Spec => []NoUnreportedInstance
  <1>1. Inv => NoUnreportedInstance
    BY DEF Inv, RowInv
  <1> QED BY <1>1, InvAlways, PTL

\* Where an observer's view is stale, and not because of a silent write, a
\* notification for that leaf is still on its way (Tree.notify).
THEOREM ObserversCatchUp == Spec => []ObserverCatchesUp
  <1>1. Inv => ObserverCatchesUp
    BY DEF Inv, TreeInv
  <1> QED BY <1>1, InvAlways, PTL


-----------------------------------------------------------------------------
(* What paths are declared as *)

\* A pattern is a path with other names.
LEMMA PatternItems ==
    ASSUME NEW q \in Seq(Names)
    PROVE  /\ Pattern(q) \in Seq(Names \cup {"index"}) /\ Len(Pattern(q)) = Len(q)
           /\ \A i \in 1 .. Len(q) :
                Pattern(q)[i] = IF q[i] \in InstanceNames THEN "index" ELSE q[i]
  <1>1. \A i \in 1 .. Len(q) :
          (IF q[i] \in InstanceNames THEN "index" ELSE q[i]) \in Names \cup {"index"}
    OBVIOUS
  <1> QED BY <1>1 DEF Pattern

\* The pattern of a path in row x of the table at p.
LEMMA PatternOfRow ==
    ASSUME NEW p \in Seq(Names), NEW x \in InstanceNames, NEW r \in Seq(Names)
    PROVE  Pattern(Append(p, x) \o r) = (Pattern(p) \o <<"index">>) \o Pattern(r)
  <1>1. PICK S : S = Names \cup {"index"}
    OBVIOUS
  <1>2. x \in Names
    BY NamesAssumption
  <1>3. PICK a : a = Append(p, x)
    OBVIOUS
  <1>4. PICK c : c = a \o r
    OBVIOUS
  <1>5. /\ a \in Seq(Names) /\ Len(a) = Len(p) + 1
        /\ \A i \in 1 .. Len(p) : a[i] = p[i]
        /\ a[Len(p) + 1] = x
    BY <1>2, <1>3
  <1>6. /\ c \in Seq(Names) /\ Len(c) = Len(a) + Len(r)
        /\ \A i \in 1 .. Len(a) : c[i] = a[i]
        /\ \A i \in 1 .. Len(r) : c[Len(a) + i] = r[i]
    <2>1. a \in Seq(Names)
      BY <1>5
    <2> QED BY <1>4, <2>1, ConcatProperties
  <1>7. PICK P, R, C : P = Pattern(p) /\ R = Pattern(r) /\ C = Pattern(c)
    OBVIOUS
  <1>8. /\ P \in Seq(S) /\ Len(P) = Len(p)
        /\ \A i \in 1 .. Len(p) : P[i] = IF p[i] \in InstanceNames THEN "index" ELSE p[i]
    BY <1>1, <1>7, PatternItems
  <1>9. /\ R \in Seq(S) /\ Len(R) = Len(r)
        /\ \A i \in 1 .. Len(r) : R[i] = IF r[i] \in InstanceNames THEN "index" ELSE r[i]
    BY <1>1, <1>7, PatternItems
  <1>10. /\ C \in Seq(S) /\ Len(C) = Len(c)
         /\ \A i \in 1 .. Len(c) : C[i] = IF c[i] \in InstanceNames THEN "index" ELSE c[i]
    BY <1>1, <1>6, <1>7, PatternItems
  <1>11. PICK A : A = P \o <<"index">>
    OBVIOUS
  <1>12. /\ A \in Seq(S) /\ Len(A) = Len(p) + 1
         /\ \A i \in 1 .. Len(p) : A[i] = P[i]
         /\ A[Len(p) + 1] = "index"
    BY <1>1, <1>8, <1>11
  <1>13. PICK B : B = A \o R
    OBVIOUS
  <1>14. /\ B \in Seq(S) /\ Len(B) = Len(A) + Len(R)
         /\ \A i \in 1 .. Len(A) : B[i] = A[i]
         /\ \A i \in 1 .. Len(R) : B[Len(A) + i] = R[i]
    <2>1. A \in Seq(S) /\ R \in Seq(S)
      BY <1>9, <1>12
    <2> QED BY <1>13, <2>1, ConcatProperties
  <1>15. ASSUME NEW i \in 1 .. Len(C)
         PROVE  C[i] = B[i]
    <2>1. CASE i \in 1 .. Len(p)
      <3>1. c[i] = p[i] /\ B[i] = P[i]
        BY <1>5, <1>6, <1>12, <1>14, <2>1
      <3> QED BY <1>8, <1>10, <2>1, <3>1
    <2>2. CASE i = Len(p) + 1
      <3>1. c[i] = x /\ B[i] = "index"
        BY <1>5, <1>6, <1>12, <1>14, <2>2
      <3> QED BY <1>10, <3>1
    <2>3. CASE i > Len(p) + 1
      <3>1. PICK j \in 1 .. Len(r) : i = Len(a) + j /\ i = Len(A) + j
        <4>1. i - (Len(p) + 1) \in 1 .. Len(r)
          BY <1>5, <1>6, <1>10, <2>3
        <4>2. i = Len(a) + (i - (Len(p) + 1)) /\ i = Len(A) + (i - (Len(p) + 1))
          BY <1>5, <1>12
        <4> QED BY <4>1, <4>2
      <3>2. c[i] = r[j] /\ B[i] = R[j]
        BY <1>6, <1>9, <1>14, <3>1
      <3> QED BY <1>9, <1>10, <3>1, <3>2
    <2> QED BY <1>5, <1>8, <2>1, <2>2, <2>3
  <1>16. Len(C) = Len(B)
    BY <1>5, <1>6, <1>9, <1>10, <1>12, <1>14
  <1>17. C = B
    BY <1>10, <1>14, <1>15, <1>16, SeqEqual
  <1> QED BY <1>3, <1>4, <1>7, <1>11, <1>13, <1>17

\* Every node is what its path is declared as, and the fixed leaves are there.
TreeDeclared(t) == Declared(t) /\ \A w \in Fixed : isLeaf(t, w)

\* Two nodes of one declaration.
SameDeclaration(m, n) ==
    /\ n.kind = m.kind
    /\ n.kind = "leaf" => n.type = m.type /\ n.writable = m.writable
    /\ n.kind = "table" => n.template = m.template

\* u holds nothing but nodes of t, rewritten or not, and nodes as declared, and
\* lost no fixed leaf.
Evolves(t, u) ==
    /\ \A q \in DOMAIN u : \/ q \in DOMAIN t /\ SameDeclaration(t[q], u[q])
                           \/ Declares(Pattern(q), u[q])
    /\ \A w \in Fixed : w \in DOMAIN t => w \in DOMAIN u /\ u[w].kind = t[w].kind

LEMMA EvolvesOK ==
    ASSUME NEW t, NEW u, TreeDeclared(t), Evolves(t, u)
    PROVE  TreeDeclared(u)
  <1>1. ASSUME NEW q \in DOMAIN u
        PROVE  Declares(Pattern(q), u[q])
    <2>1. CASE q \in DOMAIN t /\ SameDeclaration(t[q], u[q])
      <3>1. Declares(Pattern(q), t[q])
        BY <2>1 DEF TreeDeclared, Declared
      <3> QED BY <2>1, <3>1 DEF Declares, SameDeclaration
    <2> QED BY <2>1 DEF Evolves
  <1>2. \A w \in Fixed : isLeaf(u, w)
    BY DEF TreeDeclared, Evolves, isLeaf
  <1> QED BY <1>1, <1>2 DEF TreeDeclared, Declared

\* A tree whose nodes are rewritten in place, types, flags and templates kept.
LEMMA InPlace ==
    ASSUME NEW t, NEW u, DOMAIN u = DOMAIN t,
           \A q \in DOMAIN t : SameDeclaration(t[q], u[q])
    PROVE  Evolves(t, u)
  BY DEF Evolves, SameDeclaration, Fixed

LEMMA EvolvesTrivially == \A t : Evolves(t, t)
  BY DEF Evolves, SameDeclaration

LEMMA LeafInPlace ==
    ASSUME NEW t, WellFormed(t), NEW p, isLeaf(t, p), NEW n, DOMAIN n = DOMAIN t[p],
           n.kind = "leaf", n.type = t[p].type, n.writable = t[p].writable
    PROVE  Evolves(t, [t EXCEPT ![p] = n])
  <1>1. PICK u : u = [t EXCEPT ![p] = n]
    OBVIOUS
  <1>2. p \in DOMAIN t /\ t[p].kind = "leaf"
    BY DEF isLeaf
  <1>3. DOMAIN u = DOMAIN t /\ u[p] = n /\ \A q \in DOMAIN t : q # p => u[q] = t[q]
    BY <1>1, <1>2
  <1>4. SameDeclaration(t[p], n)
    BY <1>2 DEF SameDeclaration
  <1>5. \A q \in DOMAIN t : SameDeclaration(t[q], u[q])
    BY <1>3, <1>4 DEF SameDeclaration
  <1> QED BY <1>1, <1>3, <1>5, InPlace


LEMMA SetDeclared ==
    ASSUME NEW t, WellFormed(t), NEW p, NEW v, v.writable = t[p].writable
    PROVE  Evolves(t, Set(t, p, v).tree)
  <1>1. CASE Set(t, p, v).tree = t
    BY <1>1, EvolvesTrivially
  <1>2. CASE /\ isLeaf(t, p)
             /\ Set(t, p, v).tree = [t EXCEPT ![p].raw = v.raw, ![p].writable = v.writable]
    <2> DEFINE n == [t[p] EXCEPT !.raw = v.raw, !.writable = v.writable]
    <2>1. p \in DOMAIN t /\ DOMAIN t[p] = {"kind", "type", "raw", "writable", "attrs"}
          /\ t[p].kind = "leaf"
      BY <1>2 DEF WellFormed, isLeaf
    <2>2. /\ DOMAIN n = DOMAIN t[p] /\ n.kind = "leaf" /\ n.writable = t[p].writable
          /\ n.type = t[p].type
      BY <2>1
    <2>3. [t EXCEPT ![p].raw = v.raw, ![p].writable = v.writable] = [t EXCEPT ![p] = n]
      BY <2>1
    <2> HIDE DEF n
    <2> QED BY <1>2, <2>2, <2>3, LeafInPlace
  <1> QED BY <1>1, <1>2 DEF Set, Failed, Done

\* Writing the raw value or the attributes of a leaf, and nothing else of it.
LEMMA FieldDeclared ==
    ASSUME NEW t, WellFormed(t), NEW p, isLeaf(t, p), NEW a,
           NEW u, u = [t EXCEPT ![p].raw = a] \/ u = [t EXCEPT ![p].attrs = a]
    PROVE  Evolves(t, u)
  <1> DEFINE m == [t[p] EXCEPT !.raw = a]
             n == [t[p] EXCEPT !.attrs = a]
  <1>1. p \in DOMAIN t /\ DOMAIN t[p] = {"kind", "type", "raw", "writable", "attrs"}
        /\ t[p].kind = "leaf"
    BY DEF WellFormed, isLeaf
  <1>2. /\ DOMAIN m = DOMAIN t[p] /\ m.kind = "leaf" /\ m.writable = t[p].writable
        /\ m.type = t[p].type
    BY <1>1
  <1>3. /\ DOMAIN n = DOMAIN t[p] /\ n.kind = "leaf" /\ n.writable = t[p].writable
        /\ n.type = t[p].type
    BY <1>1
  <1>4. /\ [t EXCEPT ![p].raw = a] = [t EXCEPT ![p] = m]
        /\ [t EXCEPT ![p].attrs = a] = [t EXCEPT ![p] = n]
    BY <1>1
  <1> HIDE DEF m, n
  <1>5. Evolves(t, [t EXCEPT ![p] = m])
    BY <1>2, LeafInPlace
  <1>6. Evolves(t, [t EXCEPT ![p] = n])
    BY <1>3, LeafInPlace
  <1> QED BY <1>4, <1>5, <1>6

LEMMA SetSystemDeclared ==
    ASSUME NEW t, WellFormed(t), NEW p, NEW raw
    PROVE  Evolves(t, SetSystem(t, p, raw).tree)
  <1>1. CASE SetSystem(t, p, raw).tree = t
    BY <1>1, EvolvesTrivially
  <1>2. CASE isLeaf(t, p) /\ SetSystem(t, p, raw).tree = [t EXCEPT ![p].raw = raw]
    <2>1. PICK u : u = SetSystem(t, p, raw).tree
      OBVIOUS
    <2>2. u = [t EXCEPT ![p].raw = raw]
      BY <1>2, <2>1
    <2>3. Evolves(t, u)
      BY <1>2, <2>2, FieldDeclared
    <2> QED BY <2>1, <2>3
  <1> QED BY <1>1, <1>2 DEF SetSystem, Failed, Done

LEMMA SetAttributesDeclared ==
    ASSUME NEW t, WellFormed(t), NEW p, NEW a
    PROVE  Evolves(t, SetAttributes(t, p, a).tree)
  <1>1. CASE SetAttributes(t, p, a).tree = t
    BY <1>1, EvolvesTrivially
  <1>2. CASE isLeaf(t, p) /\ SetAttributes(t, p, a).tree = [t EXCEPT ![p].attrs = a]
    <2>1. PICK u : u = SetAttributes(t, p, a).tree
      OBVIOUS
    <2>2. u = [t EXCEPT ![p].attrs = a]
      BY <1>2, <2>1
    <2>3. Evolves(t, u)
      BY <1>2, <2>2, FieldDeclared
    <2> QED BY <2>1, <2>3
  <1> QED BY <1>1, <1>2 DEF SetAttributes, Failed, Done

LEMMA SyncDeclared ==
    ASSUME NEW t, WellFormed(t), NEW p
    PROVE  Evolves(t, syncEntryCount(t, p).tree)
  <1>1. CASE syncEntryCount(t, p).tree = t
    BY <1>1, EvolvesTrivially
  <1>2. CASE HasCounter(t, p)
    <2>1. PICK c, a, u : c = CounterOf(p) /\ a = EntryCount(t, p) /\ u = syncEntryCount(t, p).tree
      OBVIOUS
    <2>2. isLeaf(t, c) /\ u = [t EXCEPT ![c].raw = a]
      BY <1>2, <2>1 DEF syncEntryCount, Done, HasCounter
    <2>3. Evolves(t, u)
      BY <2>2, FieldDeclared
    <2> QED BY <2>1, <2>3
  <1> QED BY <1>1, <1>2 DEF syncEntryCount, Done

\* A batch as prepareSetters makes it: each entry with the type and the flag its
\* path is declared with.
Fits(batch) ==
    \A i \in 1 .. Len(batch) :
        LET d == DataModel[Pattern(batch[i].path)]
        IN  batch[i].value.type = d.type /\ batch[i].value.writable = d.writable

\* A leaf of a declared tree has the type and the flag of its declaration.
LEMMA LeafDeclared ==
    ASSUME NEW t, TreeDeclared(t), NEW p, isLeaf(t, p)
    PROVE  LET d == DataModel[Pattern(p)]
           IN  t[p].type = d.type /\ t[p].writable = d.writable
  <1>1. p \in DOMAIN t /\ t[p].kind = "leaf"
    BY DEF isLeaf
  <1>2. PICK x, n : x = Pattern(p) /\ n = t[p]
    OBVIOUS
  <1>3. Declares(x, n)
    BY <1>1, <1>2 DEF TreeDeclared, Declared
  <1>4. DataModel[x] = [type |-> n.type, writable |-> n.writable]
    BY <1>1, <1>2, <1>3 DEF Declares
  <1>5. DataModel[x].type = n.type /\ DataModel[x].writable = n.writable
    BY <1>4
  <1> QED BY <1>2, <1>5

LEMMA BatchDeclared ==
    ASSUME NEW t, WellFormed(t), TreeDeclared(t), NEW batch, Fits(batch)
    PROVE  Evolves(t, SetBatch(t, batch).tree)
  <1>1. CASE ~CheckBatch(t, batch)
    BY <1>1, EvolvesTrivially DEF SetBatch, Failed
  <1>2. CASE CheckBatch(t, batch)
    <2>1. PICK u : u = WriteBatch(t, batch)
      OBVIOUS
    <2>2. SetBatch(t, batch).tree = u
      BY <1>2, <2>1 DEF SetBatch, Done
    <2>3. ASSUME NEW q \in DOMAIN t
          PROVE  SameDeclaration(t[q], u[q])
      <3>1. CASE \E i \in 1 .. Len(batch) : batch[i].path = q
        <4>1. PICK i \in 1 .. Len(batch) :
                batch[i].path = q /\ u[q] = [t[q] EXCEPT !.raw = batch[i].value.raw,
                                                         !.writable = batch[i].value.writable]
          BY <2>1, <3>1 DEF WriteBatch
        <4>2. isLeaf(t, q)
          <5>1. EntryFault(t, batch, i) = ""
            BY <1>2 DEF CheckBatch, preflight
          <5> QED BY <4>1, <5>1 DEF EntryFault
        <4>3. DOMAIN t[q] = {"kind", "type", "raw", "writable", "attrs"} /\ t[q].kind = "leaf"
          BY <4>2 DEF WellFormed, isLeaf
        <4>4. batch[i].value.writable = t[q].writable
          BY <4>1, <4>2, LeafDeclared DEF Fits
        <4>5. u[q].kind = "leaf" /\ u[q].type = t[q].type /\ u[q].writable = batch[i].value.writable
          BY <4>1, <4>3
        <4> QED BY <4>3, <4>4, <4>5 DEF SameDeclaration
      <3>2. CASE ~\E i \in 1 .. Len(batch) : batch[i].path = q
        <4>1. u[q] = t[q]
          BY <2>1, <3>2 DEF WriteBatch
        <4> QED BY <4>1 DEF SameDeclaration
      <3> QED BY <3>1, <3>2
    <2>4. DOMAIN u = DOMAIN t
      BY <2>1 DEF WriteBatch
    <2> QED BY <2>2, <2>3, <2>4, InPlace
  <1> QED BY <1>1, <1>2


\* A row's nodes are declared: their template's declaration is of every row.
LEMMA AddedDeclared ==
    ASSUME NEW U, NEW t, TreeOK(t, U), TreeDeclared(t), NEW p, NEW x, NEW r, Added(t, p, x, r)
    PROVE  TreeDeclared(r.tree)
  <1>1. /\ isTable(t, p) /\ x \in InstanceNames /\ Append(p, x) \notin DOMAIN t
    BY DEF Added
  <1>2. PICK u, c : /\ u = Attach(t, Append(p, x), t[p].template)
                    /\ r.tree = syncEntryCount(u, p).tree
                    /\ r.changes = <<c>> \o syncEntryCount(u, p).changes
    BY DEF Added
  <1>3. WellFormed(u)
    BY <1>1, <1>2, AttachOK
  <1>4. PICK new, s, y : new = Append(p, x) /\ s = t[p].template /\ y = Pattern(p)
    OBVIOUS
  <1>5. /\ p \in DOMAIN t /\ p \in Seq(Names) /\ WellFormed(t) /\ s \in Templates /\ x \in Names
        /\ t[p].kind = "table"
    BY <1>1, <1>4, PathIn, NamesAssumption DEF TreeOK, WellFormed, isTable
  <1>6. WellFormed(s)
    BY <1>5, TreesAssumption
  <1>7. /\ new \in Seq(Names) /\ new # <<>> /\ Front(new) \in DOMAIN t
        /\ new \notin DOMAIN t /\ u = Attach(t, new, s)
    BY <1>1, <1>2, <1>4, <1>5, AppendPath
  <1>8. Attached(t, new, s, u)
    BY <1>5, <1>6, <1>7, AttachNodes
  <1>9. y \in DOMAIN DataModel /\ DataModel[y] = [template |-> s]
    BY <1>4, <1>5 DEF TreeDeclared, Declared, Declares
  <1>10. ASSUME NEW q \in DOMAIN s
         PROVE  Declares(Pattern(new \o q), s[q])
    <2>1. q \in Seq(Names)
      BY <1>6, PathIn
    <2>2. Pattern(new \o q) = (y \o <<"index">>) \o Pattern(q)
      BY <1>1, <1>4, <1>5, <2>1, PatternOfRow
    <2>3. Declares((y \o <<"index">>) \o Pattern(q), s[q])
      BY <1>5, <1>9, DataModelAssumption
    <2> QED BY <2>2, <2>3
  <1>11. Evolves(t, u)
    <2>1. ASSUME NEW q \in DOMAIN u
          PROVE  \/ q \in DOMAIN t /\ SameDeclaration(t[q], u[q])
                 \/ Declares(Pattern(q), u[q])
      <3>1. CASE q \in DOMAIN t
        <4>1. u[q] = t[q]
          BY <1>8, <3>1 DEF Attached
        <4> QED BY <3>1, <4>1 DEF SameDeclaration
      <3>2. CASE q \notin DOMAIN t
        <4>1. PICK z \in DOMAIN s : q = new \o z
          BY <1>8, <3>2 DEF Attached
        <4>2. u[q] = s[z]
          BY <1>8, <4>1 DEF Attached
        <4> QED BY <1>10, <4>1, <4>2
      <3> QED BY <3>1, <3>2
    <2>2. \A w \in DOMAIN t : w \in DOMAIN u /\ u[w] = t[w]
      BY <1>8 DEF Attached
    <2> QED BY <2>1, <2>2 DEF Evolves
  <1>12. TreeDeclared(u)
    BY <1>11, EvolvesOK
  <1> QED BY <1>2, <1>3, <1>12, SyncDeclared, EvolvesOK

LEMMA AddObjectDeclared ==
    ASSUME NEW U, NEW t, TreeOK(t, U), TreeDeclared(t), NEW p, NEW r, r = AddObject(t, p),
           r.err = "" => \E n \in 1 .. MaxRows : Append(p, Itoa(n)) \notin DOMAIN t
    PROVE  TreeDeclared(r.tree)
  <1>1. CASE r.err # ""
    BY <1>1 DEF AddObject, NotAdded
  <1>2. CASE r.err = ""
    <2>1. Added(t, p, Itoa(r.instance), r)
      BY <1>2, AddObjectAdds
    <2> QED BY <2>1, AddedDeclared
  <1> QED BY <1>1, <1>2

\* Cutting a subtree out leaves the rest, and no fixed leaf was in it.
LEMMA DetachDeclared ==
    ASSUME NEW t, TreeDeclared(t), NEW p, \A w \in Fixed : ~IsPrefix(p, w)
    PROVE  TreeDeclared(Detach(t, p))
  <1>1. PICK u : u = Detach(t, p)
    OBVIOUS
  <1>2. /\ DOMAIN u = {r \in DOMAIN t : ~IsPrefix(p, r)}
        /\ \A q \in DOMAIN u : u[q] = t[q]
    BY <1>1 DEF Detach
  <1>3. Evolves(t, u)
    BY <1>2 DEF Evolves, SameDeclaration
  <1> QED BY <1>1, <1>3, EvolvesOK

LEMMA DeleteObjectDeclared ==
    ASSUME NEW U, NEW t, TreeOK(t, U), TreeDeclared(t), NEW p, NEW r, r = DeleteObject(t, p)
    PROVE  TreeDeclared(r.tree)
  <1>1. CASE r.err # ""
    BY <1>1 DEF DeleteObject, Failed, Done
  <1>2. CASE r.err = ""
    <2>1. PICK u : u = Detach(t, p)
      OBVIOUS
    <2>2. /\ p # <<>> /\ p \in DOMAIN t /\ Last(p) \in InstanceNames
          /\ r.tree = syncEntryCount(u, Front(p)).tree
      BY <1>2, <2>1 DEF DeleteObject, Failed, Done
    <2>3. p \in Seq(Names) /\ Len(p) \in Nat \ {0}
      BY <2>2, PathIn, FrontItems DEF TreeOK
    <2>4. \A w \in Fixed : w \in Seq(Names) /\ Range(w) \cap InstanceNames = {}
      BY TreesAssumption, PathIn DEF Fixed
    <2>5. ASSUME NEW w \in Fixed, IsPrefix(p, w)
          PROVE  FALSE
      <3>1. Len(p) \in 1 .. Len(w) /\ w[Len(p)] = Last(p)
        BY <2>3, <2>4, <2>5, PrefixIff DEF Last
      <3>2. w[Len(p)] \in Range(w)
        BY <2>4, <3>1 DEF Range
      <3> QED BY <2>2, <2>4, <3>1, <3>2
    <2>6. TreeDeclared(u)
      BY <2>1, <2>5, DetachDeclared
    <2>7. \A w \in Watched : w \in Fixed
      BY WatchedAssumption DEF Fixed, isLeaf
    <2>8. WellFormed(u)
      BY <2>1, <2>2, <2>5, <2>7, DetachOK
    <2> QED BY <2>2, <2>6, <2>8, SyncDeclared, EvolvesOK
  <1> QED BY <1>1, <1>2

\* An app that declares a path otherwise is refused.
LEMMA GraftDeclared ==
    ASSUME NEW t, TreeDeclared(t), NEW app \in Apps
    PROVE  TreeDeclared(Graft(t, app).tree)
  <1>1. CASE GraftConflict(t, app)
    BY <1>1 DEF Graft, Failed
  <1>2. CASE ~GraftConflict(t, app)
    <2>1. PICK u : u = [q \in DOMAIN t \cup DOMAIN app |->
                          IF q \in DOMAIN t THEN t[q] ELSE app[q]]
      OBVIOUS
    <2>2. Graft(t, app).tree = u
      BY <1>2, <2>1 DEF Graft, Done
    <2>3. /\ DOMAIN u = DOMAIN t \cup DOMAIN app
          /\ \A q \in DOMAIN t : u[q] = t[q]
          /\ \A q \in DOMAIN app : q \notin DOMAIN t => u[q] = app[q]
      BY <2>1
    <2>4. DOMAIN app \cap Fixed = {}
      BY <1>2 DEF GraftConflict, TreeDeclared, isLeaf
    <2>5. \A q \in DOMAIN app : Declares(Pattern(q), app[q])
      BY <2>4, DataModelAssumption DEF Declared
    <2>6. Evolves(t, u)
      BY <2>3, <2>5 DEF Evolves, SameDeclaration
    <2> QED BY <2>2, <2>6, EvolvesOK
  <1> QED BY <1>1, <1>2

LEMMA UnmountDeclared ==
    ASSUME NEW t, TreeDeclared(t), NEW app \in Apps, NEW p \in DOMAIN app,
           p \notin DOMAIN Profile
    PROVE  TreeDeclared(Unmount(t, p).tree)
  <1>1. CASE Unmount(t, p).tree = t
    BY <1>1
  <1>2. CASE Unmount(t, p).tree = Detach(t, p)
    <2>1. p \in Seq(Names)
      BY TreesAssumption, PathIn
    <2>2. \A w \in Fixed : ~IsPrefix(p, w)
      BY <2>1, TreesAssumption, PathIn DEF Fixed
    <2> QED BY <1>2, <2>2, DetachDeclared
  <1> QED BY <1>1, <1>2 DEF Unmount, Failed, Done

LEMMA ProfileDeclared == TreeDeclared(Profile)
  BY DataModelAssumption DEF TreeDeclared, Fixed


-----------------------------------------------------------------------------
(* Deferred batches *)

\* A batch that passed preflight, but for what only the tree decides: whether
\* its leaves are there.
Sound(batch) ==
    /\ Fits(batch)
    /\ \A i \in 1 .. Len(batch) :
         /\ parsePath(batch[i].path) /\ batch[i].value.writable = TRUE
         /\ Validate(batch[i].value.type, batch[i].value.raw)
         /\ \A j \in 1 .. i - 1 : batch[j].path # batch[i].path

\* The tree is as declared, and so is the batch the handler prepared; every
\* batch it deferred is sound.
AcceptedInv ==
    /\ TreeDeclared(tree)
    /\ "pc" \in DOMAIN acs /\ (acs.pc = "spv" => Fits(acs.batch))
    /\ IsSeq(after) /\ \A i \in 1 .. Len(after) : Sound(after[i])

\* A batch that CheckBatch accepts is sound.
LEMMA AcceptedSound ==
    ASSUME NEW t, TreeDeclared(t), NEW batch, Fits(batch), CheckBatch(t, batch)
    PROVE  Sound(batch)
  <1> SUFFICES ASSUME NEW i \in 1 .. Len(batch)
               PROVE  /\ parsePath(batch[i].path) /\ batch[i].value.writable = TRUE
                      /\ Validate(batch[i].value.type, batch[i].value.raw)
                      /\ \A j \in 1 .. i - 1 : batch[j].path # batch[i].path
    BY DEF Sound
  <1>1. EntryFault(t, batch, i) = ""
    BY DEF CheckBatch, preflight
  <1>2. PICK p, v : p = batch[i].path /\ v = batch[i].value
    OBVIOUS
  <1>3. /\ parsePath(p) /\ isLeaf(t, p) /\ t[p].writable /\ Validate(v.type, v.raw)
        /\ \A j \in 1 .. i - 1 : batch[j].path # p
    BY <1>1, <1>2 DEF EntryFault
  <1>4. v.writable = t[p].writable
    BY <1>2, <1>3, LeafDeclared DEF Fits
  <1> QED BY <1>2, <1>3, <1>4

\* A sound batch fails only where one of its leaves is gone.
LEMMA SoundApplies ==
    ASSUME NEW t, TreeDeclared(t), NEW batch, Sound(batch), ~CheckBatch(t, batch)
    PROVE  \E i \in 1 .. Len(batch) : ~isLeaf(t, batch[i].path)
  <1>1. PICK i \in 1 .. Len(batch) : EntryFault(t, batch, i) # ""
    BY DEF CheckBatch, preflight
  <1>2. PICK p, v : p = batch[i].path /\ v = batch[i].value
    OBVIOUS
  <1>3. /\ parsePath(p) /\ v.writable = TRUE /\ Validate(v.type, v.raw)
        /\ \A j \in 1 .. i - 1 : batch[j].path # p
    BY <1>2 DEF Sound
  <1>4. ASSUME isLeaf(t, p)
        PROVE  FALSE
    <2>1. v.type = t[p].type /\ v.writable = t[p].writable
      BY <1>2, <1>4, LeafDeclared DEF Sound, Fits
    <2>2. t[p].writable
      BY <1>3, <2>1
    <2> QED BY <1>1, <1>2, <1>3, <1>4, <2>1, <2>2 DEF EntryFault
  <1> QED BY <1>2, <1>4

LEMMA DeclaredWrite ==
    ASSUME NEW g, NEW r, Announce(g, r), TreeDeclared(r.tree)
    PROVE  TreeDeclared(tree')
  BY DEF Announce

LEMMA DeclaredRead ==
    ASSUME AcceptedInv, Read
    PROVE  TreeDeclared(tree')
  BY DEF AcceptedInv, Read

LEMMA AcsUnmoved ==
    ASSUME AcceptedInv, TreeDeclared(tree'), UNCHANGED <<acs, after>>
    PROVE  AcceptedInv'
  BY DEF AcceptedInv

\* The handler moves on, and not to a batch.
LEMMA AcsMoves ==
    ASSUME AcceptedInv, TreeDeclared(tree'), after' = after,
           "pc" \in DOMAIN acs', acs'.pc # "spv"
    PROVE  AcceptedInv'
  BY DEF AcceptedInv

LEMMA SpvAccepted ==
    ASSUME AcceptedInv, NEW req \in SpvRequests, SetParameterValues(req)
    PROVE  AcceptedInv'
  <1>1. Read /\ after' = after /\ TreeDeclared(tree')
    BY DeclaredRead DEF SetParameterValues
  <1>2. CASE acs' = Idle
    BY <1>1, <1>2, AcsMoves, IdlePc
  <1>3. CASE /\ \A i \in 1 .. Len(req) : isLeaf(tree, req[i].path)
             /\ acs' = [pc |-> "spv", batch |-> prepareSetters(req)]
    <2>1. PICK b : b = prepareSetters(req)
      OBVIOUS
    <2>2. Len(req) \in Nat
      BY RequestsAssumption
    <2>3. /\ Len(b) = Len(req)
          /\ \A i \in 1 .. Len(req) : /\ b[i].path = req[i].path
                                      /\ b[i].value.type = tree[req[i].path].type
                                      /\ b[i].value.writable = tree[req[i].path].writable
      BY <2>1, <2>2 DEF prepareSetters
    <2>4. Fits(b)
      BY <1>3, <2>3, LeafDeclared DEF Fits, AcceptedInv
    <2>5. "pc" \in DOMAIN acs' /\ acs'.batch = b
      BY <1>3, <2>1
    <2> QED BY <1>1, <2>4, <2>5 DEF AcceptedInv
  <1> QED BY <1>2, <1>3 DEF SetParameterValues

LEMMA ApplyAccepted ==
    ASSUME Inv, AcceptedInv, ApplyOrDefer
    PROVE  AcceptedInv'
  <1>1. PICK b : b = acs.batch
    OBVIOUS
  <1>2. acs' = Idle /\ Fits(b)
    BY <1>1 DEF ApplyOrDefer, AcceptedInv
  <1>3. CASE defers(b)
    <2>1. TreeDeclared(tree')
      BY <1>1, <1>3, DeclaredRead DEF ApplyOrDefer
    <2>2. CASE after' = after
      BY <1>2, <2>1, <2>2, AcsMoves, IdlePc
    <2>3. CASE CheckBatch(tree, b) /\ after' = Append(after, b)
      <3>1. Sound(b)
        BY <1>2, <2>3, AcceptedSound DEF AcceptedInv
      <3>2. PICK S : after \in Seq(S)
        BY DEF AcceptedInv, IsSeq
      <3>3. PICK T : T = S \cup {b}
        OBVIOUS
      <3>4. after \in Seq(T) /\ b \in T
        BY <3>2, <3>3, SeqMonotonic
      <3>5. /\ after' \in Seq(T) /\ Len(after') = Len(after) + 1 /\ Len(after) \in Nat
            /\ \A i \in 1 .. Len(after) : after'[i] = after[i]
            /\ after'[Len(after) + 1] = b
        BY <2>3, <3>4, AppendProperties
      <3>6. \A i \in 1 .. Len(after') : Sound(after'[i])
        <4>1. \A i \in 1 .. Len(after') : i \in 1 .. Len(after) \/ i = Len(after) + 1
          BY <3>5
        <4> QED BY <3>1, <3>5, <4>1 DEF AcceptedInv
      <3>7. IsSeq(after')
        BY <3>5, SeqIs
      <3> QED BY <1>2, <2>1, <3>6, <3>7, IdlePc DEF AcceptedInv
    <2> QED BY <1>1, <1>3, <2>2, <2>3 DEF ApplyOrDefer, Accepted
  <1>4. CASE ~defers(b)
    <2>1. tree' = SetBatch(tree, b).tree /\ after' = after
      BY <1>1, <1>4 DEF ApplyOrDefer, WriteSilently
    <2>2. WellFormed(tree) /\ TreeDeclared(tree)
      BY DEF Inv, TreeInv, TreeOK, AcceptedInv
    <2>3. TreeDeclared(tree')
      BY <1>2, <2>1, <2>2, BatchDeclared, EvolvesOK
    <2> QED BY <1>2, <2>1, <2>3, AcsMoves, IdlePc
  <1> QED BY <1>3, <1>4

LEMMA RunAfterAccepted ==
    ASSUME Inv, AcceptedInv, RunAfterSession
    PROVE  AcceptedInv'
  <1>1. after # <<>> /\ after' = Tail(after) /\ tree' = SetBatch(tree, Head(after)).tree
    BY DEF RunAfterSession, WriteSilently
  <1>2. /\ IsSeq(Tail(after)) /\ Head(after) = after[1]
        /\ 1 \in 1 .. Len(after)
        /\ \A i \in 1 .. Len(Tail(after)) :
             i + 1 \in 1 .. Len(after) /\ Tail(after)[i] = after[i + 1]
    <2>1. PICK S : after \in Seq(S)
      BY DEF AcceptedInv, IsSeq
    <2>2. /\ Tail(after) \in Seq(S) /\ Len(after) \in Nat \ {0} /\ Len(Tail(after)) = Len(after) - 1
          /\ \A i \in 1 .. Len(Tail(after)) : Tail(after)[i] = after[i + 1]
      BY <1>1, <2>1, HeadTailProperties, EmptySeq
    <2>3. Head(after) = after[1]
      BY <1>1, <2>1
    <2>4. 1 \in 1 .. Len(after) /\ \A i \in 1 .. Len(Tail(after)) : i + 1 \in 1 .. Len(after)
      BY <2>2
    <2>5. IsSeq(Tail(after))
      BY <2>2, SeqIs
    <2> QED BY <2>2, <2>3, <2>4, <2>5
  <1>3. PICK b : b = Head(after)
    OBVIOUS
  <1>4. Fits(b)
    BY <1>2, <1>3 DEF AcceptedInv, Sound
  <1>5. WellFormed(tree) /\ TreeDeclared(tree)
    BY DEF Inv, TreeInv, TreeOK, AcceptedInv
  <1>6. TreeDeclared(tree')
    BY <1>1, <1>3, <1>4, <1>5, BatchDeclared, EvolvesOK
  <1>7. "pc" \in DOMAIN acs' /\ acs'.pc # "spv"
    <2>1. acs' = Idle \/ acs' = [pc |-> "after"]
      BY DEF RunAfterSession
    <2> QED BY <2>1, IdlePc
  <1>8. \A i \in 1 .. Len(after') : Sound(after'[i])
    BY <1>1, <1>2 DEF AcceptedInv
  <1> QED BY <1>1, <1>2, <1>6, <1>7, <1>8 DEF AcceptedInv


LEMMA AcsAccepted ==
    ASSUME Inv, AcceptedInv, AcsNext
    PROVE  AcceptedInv'
  <1>1. TreeOK(tree, uncounted) /\ WellFormed(tree) /\ TreeDeclared(tree)
    BY DEF Inv, TreeInv, TreeOK, AcceptedInv
  <1>2. ASSUME NEW r \in Reads, GetParameterValues(r)
        PROVE  AcceptedInv'
    BY <1>2, DeclaredRead, AcsUnmoved DEF GetParameterValues
  <1>3. ASSUME NEW r \in Reads, NEW b \in BOOLEAN, GetParameterNames(r, b)
        PROVE  AcceptedInv'
    BY <1>3, DeclaredRead, AcsUnmoved DEF GetParameterNames
  <1>4. ASSUME NEW r \in Reads, GetParameterAttributes(r)
        PROVE  AcceptedInv'
    <2>1. Read /\ after' = after /\ (acs' = Idle \/ \E l : acs' = [pc |-> "gpa", leaves |-> l])
      BY <1>4 DEF GetParameterAttributes
    <2>2. "pc" \in DOMAIN acs' /\ acs'.pc # "spv"
      BY <2>1, IdlePc
    <2> QED BY <2>1, <2>2, DeclaredRead, AcsMoves
  <1>5. CASE ReadAttributes
    BY <1>5, DeclaredRead, AcsMoves, IdlePc DEF ReadAttributes
  <1>6. ASSUME NEW p \in AddRequests, HandleAddObject(p)
        PROVE  AcceptedInv'
    <2>1. PICK r : r = AddObject(tree, p)
      OBVIOUS
    <2>2. HasRoom(p) /\ Announce("acs", r) /\ UNCHANGED <<acs, after>>
      BY <1>6, <2>1 DEF HandleAddObject, Write, WriteRow
    <2>3. TreeDeclared(r.tree)
      BY <1>1, <2>1, <2>2, AddObjectDeclared DEF HasRoom
    <2> QED BY <2>2, <2>3, DeclaredWrite, AcsUnmoved
  <1>7. ASSUME NEW p \in DeleteRequests, HandleDeleteObject(p)
        PROVE  AcceptedInv'
    <2>1. PICK r : r = DeleteObject(tree, p)
      OBVIOUS
    <2>2. Announce("acs", r) /\ UNCHANGED <<acs, after>>
      BY <1>7, <2>1 DEF HandleDeleteObject, Write, WriteRow
    <2>3. TreeDeclared(r.tree)
      BY <1>1, <2>1, DeleteObjectDeclared
    <2> QED BY <2>2, <2>3, DeclaredWrite, AcsUnmoved
  <1>8. ASSUME NEW req \in SpaRequests, SetParameterAttributes(req)
        PROVE  AcceptedInv'
    <2>1. Read /\ after' = after /\ (acs' = Idle \/ \E l : acs' = [pc |-> "spa", pending |-> l])
      BY <1>8 DEF SetParameterAttributes
    <2>2. "pc" \in DOMAIN acs' /\ acs'.pc # "spv"
      BY <2>1, IdlePc
    <2> QED BY <2>1, <2>2, DeclaredRead, AcsMoves
  <1>9. CASE SpaWrite
    <2>1. after' = after /\ acs.pc = "spa" /\ "pc" \in DOMAIN acs
      BY <1>9 DEF SpaWrite, AcceptedInv
    <2>2. acs' = Idle \/ \E l : acs' = [acs EXCEPT !.pending = l]
      BY <1>9 DEF SpaWrite, Write, WriteRow
    <2>3. "pc" \in DOMAIN acs' /\ acs'.pc # "spv"
      BY <2>1, <2>2, IdlePc
    <2>4. TreeDeclared(tree')
      <3>1. CASE Read
        BY <3>1, DeclaredRead
      <3>2. CASE ~Read
        <4>1. PICK p, a : Announce("acs", SetAttributes(tree, p, a))
          BY <1>9, <3>2 DEF SpaWrite, Write, WriteRow
        <4>2. TreeDeclared(SetAttributes(tree, p, a).tree)
          BY <1>1, SetAttributesDeclared, EvolvesOK
        <4> QED BY <4>1, <4>2, DeclaredWrite
      <3> QED BY <3>1, <3>2
    <2> QED BY <2>1, <2>3, <2>4, AcsMoves
  <1>10. CASE GetRPCMethods \/ Refuse
    BY <1>10, DeclaredRead, AcsUnmoved DEF GetRPCMethods, Refuse
  <1> QED
    BY <1>2, <1>3, <1>4, <1>5, <1>6, <1>7, <1>8, <1>9, <1>10,
       SpvAccepted, ApplyAccepted, RunAfterAccepted
    DEF AcsNext, MalformedValues, MalformedAttributes, MalformedNames, MalformedObjectName

LEMMA ApplyOneDeclared ==
    ASSUME WellFormed(tree), TreeDeclared(tree), NEW p, NEW raw, NEW r, r = applyOne(p, raw)
    PROVE  TreeDeclared(r.tree)
  <1>1. CASE r.tree = tree
    BY <1>1
  <1>2. CASE r.tree # tree
    <2>1. PICK v : v = [type |-> tree[p].type, raw |-> raw, writable |-> tree[p].writable]
      OBVIOUS
    <2>2. r = Set(tree, p, v)
      BY <1>2, <2>1 DEF applyOne, Failed
    <2>3. v.writable = tree[p].writable
      BY <2>1
    <2> QED BY <2>2, <2>3, SetDeclared, EvolvesOK
  <1> QED BY <1>1, <1>2

\* Neither the USP handlers nor the device touch the ACS's batches.
LEMMA UspAccepted ==
    ASSUME Inv, AcceptedInv, UspNext
    PROVE  AcceptedInv'
  <1>1. TreeOK(tree, uncounted) /\ WellFormed(tree) /\ TreeDeclared(tree)
    BY DEF Inv, TreeInv, TreeOK, AcceptedInv
  <1>2. ASSUME Read PROVE TreeDeclared(tree')
    BY <1>2, DeclaredRead
  <1>3. ASSUME NEW p, NEW raw, Announce("usp", applyOne(p, raw))
        PROVE  TreeDeclared(tree')
    <2>1. PICK r : r = applyOne(p, raw)
      OBVIOUS
    <2> QED BY <1>1, <1>3, <2>1, ApplyOneDeclared, DeclaredWrite
  <1>4. ASSUME NEW p, Announce("usp", DeleteObject(tree, p))
        PROVE  TreeDeclared(tree')
    <2>1. PICK r : r = DeleteObject(tree, p)
      OBVIOUS
    <2> QED BY <1>1, <1>4, <2>1, DeleteObjectDeclared, DeclaredWrite
  <1>5. ASSUME NEW req, HandleAdd(req)
        PROVE  TreeDeclared(tree')
    <2>1. PICK p, r : p = (CHOOSE q \in ExpandSearchPath(req.path) : TRUE) /\ r = AddObject(tree, p)
      OBVIOUS
    <2>2. CASE Read
      BY <1>2, <2>2
    <2>3. CASE ~Read
      <3>1. HasRoom(p) /\ Announce("usp", r)
        BY <1>5, <2>1, <2>3 DEF HandleAdd, Write, WriteRow
      <3>2. TreeDeclared(r.tree)
        BY <1>1, <2>1, <3>1, AddObjectDeclared DEF HasRoom
      <3> QED BY <3>1, <3>2, DeclaredWrite
    <2> QED BY <2>2, <2>3
  <1>6. CASE SetStep
    <2>1. Read \/ \E p, raw : Announce("usp", applyOne(p, raw))
      BY <1>6 DEF SetStep, Write, WriteRow
    <2> QED BY <1>2, <1>3, <1>6, <2>1, AcsUnmoved DEF SetStep, Write, WriteRow
  <1>7. CASE AddStep
    <2>1. Read \/ \E p, raw : Announce("usp", applyOne(p, raw))
      BY <1>7 DEF AddStep, Write, WriteRow
    <2> QED BY <1>2, <1>3, <1>7, <2>1, AcsUnmoved DEF AddStep, Write, WriteRow
  <1>8. CASE RollBack
    BY <1>4, <1>8, AcsUnmoved DEF RollBack, Write, WriteRow
  <1>9. CASE DeleteStep
    <2>1. Read \/ \E p : Announce("usp", DeleteObject(tree, p))
      BY <1>9 DEF DeleteStep, Write, WriteRow
    <2> QED BY <1>2, <1>4, <1>9, <2>1, AcsUnmoved DEF DeleteStep, Write, WriteRow
  <1>10. ASSUME NEW req, HandleAdd(req)
         PROVE  AcceptedInv'
    BY <1>5, <1>10, AcsUnmoved DEF HandleAdd, Write, WriteRow
  <1>11. ASSUME NEW req, HandleSet(req)
         PROVE  AcceptedInv'
    BY <1>2, <1>11, AcsUnmoved DEF HandleSet
  <1>12. ASSUME NEW p, HandleDelete(p)
         PROVE  AcceptedInv'
    BY <1>2, <1>12, AcsUnmoved DEF HandleDelete
  <1>13. ASSUME NEW r \in Reads, HandleGet(r)
         PROVE  AcceptedInv'
    BY <1>2, <1>13, AcsUnmoved DEF HandleGet
  <1>14. ASSUME NEW r \in Reads, NEW b \in BOOLEAN,
                HandleGetInstances(r.path, b) \/ HandleGetSupportedDM(r.path, b)
         PROVE  AcceptedInv'
    BY <1>2, <1>14, AcsUnmoved DEF HandleGetInstances, HandleGetSupportedDM
  <1> QED
    BY <1>6, <1>7, <1>8, <1>9, <1>10, <1>11, <1>12, <1>13, <1>14 DEF UspNext

LEMMA DeviceAccepted ==
    ASSUME Inv, AcceptedInv, DeviceNext
    PROVE  AcceptedInv'
  <1>1. TreeOK(tree, uncounted) /\ WellFormed(tree) /\ TreeDeclared(tree)
    BY DEF Inv, TreeInv, TreeOK, AcceptedInv
  <1>2. ASSUME NEW w \in DeviceWrites, DeviceWrite(w)
        PROVE  AcceptedInv'
    <2>1. PICK p, raw, r : p = w.path /\ raw = w.raw /\ r = SetSystem(tree, p, raw)
      OBVIOUS
    <2>2. TreeDeclared(r.tree)
      BY <1>1, <2>1, SetSystemDeclared, EvolvesOK
    <2>3. Announce("device", r) /\ UNCHANGED <<acs, after>>
      BY <1>2, <2>1 DEF DeviceWrite, DeviceIdle, Write, WriteRow
    <2> QED BY <2>2, <2>3, DeclaredWrite, AcsUnmoved
  <1>3. ASSUME NEW app \in Apps, GraftApp(app)
        PROVE  AcceptedInv'
    <2>1. Announce("device", Graft(tree, app)) /\ UNCHANGED <<acs, after>>
      BY <1>3 DEF GraftApp, DeviceIdle, Write, WriteRow
    <2> QED BY <1>1, <2>1, GraftDeclared, DeclaredWrite, AcsUnmoved
  <1>4. ASSUME NEW app \in Apps, UnmountApp(app)
        PROVE  AcceptedInv'
    <2>1. PICK p \in DOMAIN app : p \notin DOMAIN Profile /\ Announce("device", Unmount(tree, p))
      BY <1>4 DEF UnmountApp, Write, GraftPoints
    <2>2. UNCHANGED <<acs, after>>
      BY <1>4 DEF UnmountApp, DeviceIdle
    <2> QED BY <1>1, <2>1, <2>2, UnmountDeclared, DeclaredWrite, AcsUnmoved
  <1>5. CASE FactoryReset
    <2>1. tree' = Profile /\ UNCHANGED <<acs, after>>
      BY <1>5 DEF FactoryReset, WriteSilently, Reset, Done, DeviceIdle
    <2> QED BY <2>1, ProfileDeclared, AcsUnmoved
  <1> QED BY <1>2, <1>3, <1>4, <1>5 DEF DeviceNext

LEMMA AcceptedAlways == Spec => [](Inv /\ AcceptedInv)
  <1>1. Init => AcceptedInv
    BY ProfileDeclared, IdlePc, ShortSeq DEF Init, AcceptedInv
  <1>2. Inv /\ AcceptedInv /\ [Next]_vars => AcceptedInv'
    <2> SUFFICES ASSUME Inv, AcceptedInv, [Next]_vars
                 PROVE  AcceptedInv'
      OBVIOUS
    <2>1. CASE ObserverNext
      <3>1. UNCHANGED <<tree, acs, after>>
        BY <2>1 DEF ObserverNext, Observe, CancelObserver, Notify
      <3> QED BY <3>1, AcsUnmoved DEF AcceptedInv
    <2>2. CASE UNCHANGED vars
      BY <2>2 DEF vars, AcceptedInv
    <2> QED BY <2>1, <2>2, AcsAccepted, UspAccepted, DeviceAccepted DEF Next
  <1> QED BY <1>1, <1>2, InitInv, StepInv, PTL DEF Spec

\* A batch answered with Status 1 is dropped when the session has ended only if
\* a leaf of it is gone by then, whatever managers, apps and resets did in
\* between (CheckBatch against SetBatch, AfterSession.Run).
THEOREM DeferredWritesKept == Spec => AcceptedWritesKeep
  <1>1. Inv /\ AcceptedInv /\ [Next]_vars =>
          [(RunAfterSession /\ ~reply'.ok) =>
             \E i \in 1 .. Len(Head(after)) : ~isLeaf(tree, Head(after)[i].path)]_vars
    <2> SUFFICES ASSUME AcceptedInv, RunAfterSession, ~reply'.ok
                 PROVE  \E i \in 1 .. Len(Head(after)) : ~isLeaf(tree, Head(after)[i].path)
      OBVIOUS
    <2>1. PICK b : b = Head(after)
      OBVIOUS
    <2>2. Sound(b)
      <3>1. PICK S : after \in Seq(S)
        BY DEF AcceptedInv, IsSeq
      <3>2. after # <<>>
        BY DEF RunAfterSession
      <3>3. Head(after) = after[1] /\ 1 \in 1 .. Len(after)
        BY <3>1, <3>2, EmptySeq
      <3> QED BY <2>1, <3>3 DEF AcceptedInv
    <2>3. ~CheckBatch(tree, b)
      <3>1. reply' = [op |-> "after", ok |-> SetBatch(tree, b).err = ""]
        BY <2>1 DEF RunAfterSession, Answer
      <3>2. SetBatch(tree, b).err # ""
        BY <3>1
      <3> QED BY <3>2 DEF SetBatch, Done
    <2> QED BY <2>1, <2>2, <2>3, SoundApplies DEF AcceptedInv
  <1> QED BY <1>1, AcceptedAlways, PTL DEF Spec, AcceptedWritesKeep

=============================================================================
