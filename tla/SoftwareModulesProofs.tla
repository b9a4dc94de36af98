------------------------ MODULE SoftwareModulesProofs ------------------------
(***************************************************************************)
(* Theorems about SoftwareModules: between two operations the inventory is *)
(* the truth, and what an operation reports is what it did, for any        *)
(* profile, apps, requests and commands, whatever faults strike.           *)
(***************************************************************************)
EXTENDS SoftwareModules, ParamTreeProofs, NaturalsInduction, WellFoundedInduction

LEMMA LeastElement ==
    ASSUME NEW S \in SUBSET Nat, S # {}
    PROVE  \E n \in S : \A m \in S : n <= m
  <1>1. PICK x \in S : \A y \in S : ~(<<y, x>> \in OpToRel(<, Nat))
    BY NatLessThanWellFounded, WFMin
  <1>2. \A y \in S : ~(y < x)
    BY <1>1 DEF OpToRel
  <1> QED BY <1>2

-----------------------------------------------------------------------------
(* What the tree looks like *)

DURows == {Append(DeploymentUnitTable, n) : n \in InstanceNames}
EURows == {Append(ExecutionUnitTable, n) : n \in InstanceNames}
Unit(p) == Factory[p].template
App(m) == Manifests[m].tree

\* The same node, but perhaps for the value and the attributes of a leaf.
Like(a, b) ==
    /\ a.kind = b.kind
    /\ IF a.kind = "leaf" THEN a.type = b.type /\ DOMAIN a = Fields ELSE a = b

UnitRows == DURows \cup EURows

\* The paths of row d, cloned from the template of its table.
Below(d) == {d \o r : r \in DOMAIN Unit(Front(d))}

\* t is the profile's tree with the apps ms grafted in and the given rows in its
\* tables of units, and nothing else.
Shape(t, ms, units) ==
    /\ ms \subseteq DOMAIN Manifests /\ units \subseteq UnitRows
    /\ DOMAIN t = (DOMAIN Factory \cup UNION {DOMAIN App(m) : m \in ms})
                    \cup UNION {Below(d) : d \in units}
    /\ \A q \in DOMAIN Factory : Like(t[q], Factory[q])
    /\ \A m \in ms : \A q \in DOMAIN App(m) \ DOMAIN Factory : Like(t[q], App(m)[q])
    /\ \A d \in units : \A r \in DOMAIN Unit(Front(d)) :
          Like(t[d \o r], Unit(Front(d))[r])

-----------------------------------------------------------------------------
(* Paths of the software modules object *)

LEMMA Closed ==
    ASSUME NEW t, IsTree(t), NEW q \in DOMAIN t
    PROVE  /\ q \in Seq(Names)
           /\ \A p \in Seq(Names) : IsPrefix(p, q) => p \in DOMAIN t
           /\ q # <<>> => Front(q) \in DOMAIN t /\ Front(q) \in Seq(Names)
  <1>1. q \in Seq(Names) /\ Prefixes(q) \subseteq DOMAIN t
    BY DEF IsTree
  <1>2. \A p \in Seq(Names) : IsPrefix(p, q) => p \in DOMAIN t
    BY <1>1, PrefixesOf
  <1>3. ASSUME q # <<>>
        PROVE  Front(q) \in DOMAIN t /\ Front(q) \in Seq(Names)
    <2>1. Front(q) \in Seq(Names) /\ IsPrefix(Front(q), Front(q))
      BY <1>1, <1>3, FrontItems, PrefixIff
    <2>2. IsPrefix(Front(q), q)
      BY <1>1, <1>3, <2>1, PrefixFront
    <2> QED BY <1>2, <2>1, <2>2
  <1> QED BY <1>1, <1>2, <1>3

LEMMA TablePaths ==
    /\ Root \in Seq(Names) /\ Len(Root) = 1
    /\ DeploymentUnitTable \in Seq(Names) /\ ExecutionUnitTable \in Seq(Names)
    /\ Len(DeploymentUnitTable) = 2 /\ Len(ExecutionUnitTable) = 2
    /\ DeploymentUnitTable # <<>> /\ ExecutionUnitTable # <<>>
    /\ DeploymentUnitTable # ExecutionUnitTable
    /\ Front(DeploymentUnitTable) = Root /\ Front(ExecutionUnitTable) = Root
    /\ DeploymentUnitTable[1] = "SM" /\ ExecutionUnitTable[1] = "SM"
  <1>1. DeploymentUnitTable \in Seq(Names) /\ ExecutionUnitTable \in Seq(Names)
    BY FactoryAssumption DEF IsTree, IsUnitTable, isTable
  <1>2. /\ Len(DeploymentUnitTable) = 2 /\ Len(ExecutionUnitTable) = 2
        /\ DeploymentUnitTable[2] = "DU" /\ ExecutionUnitTable[2] = "EU"
        /\ DeploymentUnitTable[1] = "SM" /\ ExecutionUnitTable[1] = "SM"
    <2>1. PICK r : r = Root
      OBVIOUS
    <2>2. r \in Seq({"SM", "DU", "EU"}) /\ Len(r) = 1 /\ r[1] = "SM"
      BY <2>1 DEF Root
    <2>3. DeploymentUnitTable = Append(r, "DU") /\ ExecutionUnitTable = Append(r, "EU")
      BY <2>1 DEF DeploymentUnitTable, ExecutionUnitTable
    <2>4. ASSUME NEW x \in {"SM", "DU", "EU"}, NEW a, a = Append(r, x)
          PROVE  Len(a) = 2 /\ a[1] = "SM" /\ a[2] = x
      <3>1. Len(a) = Len(r) + 1 /\ a[Len(r) + 1] = x /\ \A i \in 1 .. Len(r) : a[i] = r[i]
        BY <2>2, <2>4, AppendItems
      <3> QED BY <2>2, <3>1
    <2>5. "DU" \in {"SM", "DU", "EU"} /\ "EU" \in {"SM", "DU", "EU"}
      OBVIOUS
    <2> QED BY <2>3, <2>4, <2>5
  <1>3. "SM" \in Names /\ "DU" \in Names /\ "EU" \in Names
    <2>1. \A i \in 1 .. 2 : DeploymentUnitTable[i] \in Names /\ ExecutionUnitTable[i] \in Names
      BY <1>1, <1>2
    <2> QED BY <1>2, <2>1
  <1>4. Root \in Seq(Names) /\ Len(Root) = 1
    BY <1>3 DEF Root
  <1>6. /\ Front(DeploymentUnitTable) = Root /\ Front(ExecutionUnitTable) = Root
        /\ DeploymentUnitTable # <<>> /\ ExecutionUnitTable # <<>>
    BY <1>3, <1>4, AppendPath DEF DeploymentUnitTable, ExecutionUnitTable
  <1> QED BY <1>1, <1>2, <1>4, <1>6

Tabled(p) == p \in {DeploymentUnitTable, ExecutionUnitTable}
RequiredOf(p) == IF p = DeploymentUnitTable THEN requiredDULeaves ELSE requiredEULeaves

LEMMA RowFacts ==
    ASSUME NEW p, Tabled(p), NEW x \in InstanceNames
    PROVE  /\ Append(p, x) \in Seq(Names) /\ Append(p, x) # <<>> /\ Len(Append(p, x)) = 3
           /\ Front(Append(p, x)) = p /\ Last(Append(p, x)) = x
           /\ IsPrefix(Root, Append(p, x)) /\ Append(p, x) \in UnitRows
  <1>1. x \in Names /\ p \in Seq(Names) /\ Len(p) = 2 /\ p[1] = "SM"
    BY NamesAssumption, TablePaths DEF Tabled
  <1>2. PICK a : a = Append(p, x)
    OBVIOUS
  <1>3. a \in Seq(Names) /\ Len(a) = 3 /\ a[1] = "SM"
    <2>1. a \in Seq(Names) /\ Len(a) = Len(p) + 1 /\ \A i \in 1 .. Len(p) : a[i] = p[i]
      BY <1>1, <1>2, AppendItems
    <2> QED BY <1>1, <2>1
  <1>4. Root \in Seq(Names) /\ Len(Root) = 1 /\ Root[1] = "SM"
    BY TablePaths DEF Root
  <1>5. IsPrefix(Root, a)
    BY <1>3, <1>4, PrefixIff
  <1>6. a \in UnitRows
    BY <1>2 DEF UnitRows, DURows, EURows, Tabled
  <1> QED BY <1>1, <1>2, <1>3, <1>5, <1>6, AppendPath

LEMMA RowIs ==
    ASSUME NEW d \in UnitRows
    PROVE  /\ d \in Seq(Names) /\ d # <<>> /\ Len(d) = 3 /\ IsPrefix(Root, d)
           /\ Tabled(Front(d)) /\ Last(d) \in InstanceNames
           /\ d = Append(Front(d), Last(d))
           /\ d \in DURows <=> Front(d) = DeploymentUnitTable
           /\ d \in EURows <=> Front(d) = ExecutionUnitTable
  <1>1. PICK p, x : Tabled(p) /\ x \in InstanceNames /\ d = Append(p, x)
    BY DEF UnitRows, DURows, EURows, Tabled
  <1>2. /\ d \in Seq(Names) /\ d # <<>> /\ Len(d) = 3 /\ Front(d) = p /\ Last(d) = x
        /\ IsPrefix(Root, d)
    BY <1>1, RowFacts
  <1>3. d \in DURows => p = DeploymentUnitTable
    BY <1>2, RowFacts DEF DURows, Tabled
  <1>4. d \in EURows => p = ExecutionUnitTable
    BY <1>2, RowFacts DEF EURows, Tabled
  <1>5. p = DeploymentUnitTable => d \in DURows
    BY <1>1 DEF DURows
  <1>6. p = ExecutionUnitTable => d \in EURows
    BY <1>1 DEF EURows
  <1> QED BY <1>1, <1>2, <1>3, <1>4, <1>5, <1>6

LEMMA OneRow ==
    ASSUME NEW a \in UnitRows, NEW b \in UnitRows, NEW q \in Seq(Names),
           IsPrefix(a, q), IsPrefix(b, q)
    PROVE  a = b
  <1>1. a \in Seq(Names) /\ b \in Seq(Names) /\ Len(a) = 3 /\ Len(b) = 3
    BY RowIs
  <1>2. \A i \in 1 .. 3 : a[i] = q[i] /\ b[i] = q[i]
    BY <1>1, PrefixIff
  <1> QED BY <1>1, <1>2, SeqEqual

\* Neither the profile nor an app has anything in a row of the unit tables.
LEMMA RowsApart ==
    ASSUME NEW a \in UnitRows, NEW q \in Seq(Names), IsPrefix(a, q)
    PROVE  /\ q \notin DOMAIN Factory /\ IsPrefix(Root, q)
           /\ \A m \in DOMAIN Manifests : q \notin DOMAIN App(m)
  <1>1. /\ a \in Seq(Names) /\ a # <<>> /\ IsPrefix(Root, a) /\ Tabled(Front(a))
        /\ Last(a) \in InstanceNames
    BY RowIs
  <1>2. IsPrefix(Root, q)
    BY <1>1, TablePaths, PrefixTransitive
  <1>3. a \notin DOMAIN Factory
    BY <1>1, FactoryAssumption DEF IsUnitTable, Instances, Children, Tabled
  <1>4. q \notin DOMAIN Factory
    BY <1>1, <1>3, FactoryAssumption, Closed
  <1> QED BY <1>2, <1>4, ManifestsAssumption DEF App

LEMMA Templates ==
    ASSUME NEW p, Tabled(p)
    PROVE  /\ isTable(Factory, p) /\ p \in DOMAIN Factory /\ IsTree(Unit(p))
           /\ \A r \in DOMAIN Unit(p) : r \in Seq(Names)
           /\ <<>> \in DOMAIN Unit(p)
           /\ \A name \in RequiredOf(p) : /\ name \in Names /\ <<name>> \in DOMAIN Unit(p)
                                          /\ Unit(p)[<<name>>].kind = "leaf"
                                          /\ Unit(p)[<<name>>].type = "string"
  <1>1. IsUnitTable(p, RequiredOf(p))
    BY FactoryAssumption, TablePaths DEF Tabled, RequiredOf
  <1>2. isTable(Factory, p) /\ p \in DOMAIN Factory /\ IsTree(Unit(p))
    BY <1>1 DEF IsUnitTable, isTable, Unit
  <1>3. \A r \in DOMAIN Unit(p) : r \in Seq(Names)
    BY <1>2, Closed
  <1>4. ASSUME NEW name \in RequiredOf(p)
        PROVE  /\ name \in Names /\ <<name>> \in DOMAIN Unit(p)
               /\ Unit(p)[<<name>>].kind = "leaf" /\ Unit(p)[<<name>>].type = "string"
    <2>1. /\ <<name>> \in DOMAIN Unit(p)
          /\ Unit(p)[<<name>>].kind = "leaf" /\ Unit(p)[<<name>>].type = "string"
      BY <1>1 DEF IsUnitTable, isLeaf, Unit
    <2>2. <<name>> \in Seq(Names)
      BY <1>3, <2>1
    <2> QED BY <2>1, <2>2
  <1> QED BY <1>2, <1>3, <1>4 DEF IsTree

\* A path in a row.
LEMMA InRow ==
    ASSUME NEW d \in UnitRows, NEW r \in DOMAIN Unit(Front(d))
    PROVE  /\ r \in Seq(Names) /\ d \o r \in Seq(Names) /\ IsPrefix(d, d \o r)
           /\ SubSeq(d \o r, Len(d) + 1, Len(d \o r)) = r
           /\ d \o r \notin DOMAIN Factory
           /\ \A m \in DOMAIN Manifests : d \o r \notin DOMAIN App(m)
  <1>1. r \in Seq(Names) /\ d \in Seq(Names)
    BY RowIs, Templates
  <1> QED BY <1>1, ConcatPath, RowsApart

LEMMA LeafInRow ==
    ASSUME NEW d \in UnitRows, NEW name \in RequiredOf(Front(d))
    PROVE  leaf(d, name) = d \o <<name>> /\ <<name>> \in DOMAIN Unit(Front(d)) /\ name \in Names
  <1>1. d \in Seq(Names) /\ name \in Names /\ <<name>> \in DOMAIN Unit(Front(d))
    BY RowIs, Templates
  <1> QED BY <1>1, AppendIsConcat DEF leaf

LEMMA LeafPath ==
    ASSUME NEW d \in Seq(Names), NEW name \in Names
    PROVE  leaf(d, name) \in Seq(Names) /\ IsPrefix(d, leaf(d, name))
  <1>1. PICK a : a = Append(d, name)
    OBVIOUS
  <1>2. a \in Seq(Names) /\ a # <<>> /\ Front(a) = d
    BY <1>1, AppendPath
  <1>3. IsPrefix(d, d)
    BY PrefixIff
  <1>4. IsPrefix(d, a)
    BY <1>2, <1>3, PrefixFront
  <1> QED BY <1>1, <1>2, <1>4 DEF leaf

-----------------------------------------------------------------------------
(* What a shape says *)

LEMMA LikeTrans ==
    ASSUME NEW a, NEW b, NEW c, Like(a, b), Like(b, c)
    PROVE  Like(a, c)
  BY DEF Like

LEMMA ShapeUnits ==
    ASSUME NEW t, NEW ms, NEW units, Shape(t, ms, units)
    PROVE  units \subseteq UnitRows /\ ms \subseteq DOMAIN Manifests
  BY DEF Shape

\* Where a path of the tree comes from.
LEMMA ShapePaths ==
    ASSUME NEW t, NEW ms, NEW units, Shape(t, ms, units)
    PROVE  /\ units \subseteq UnitRows
           /\ \A q \in DOMAIN t : q \in Seq(Names)
           /\ \A q \in DOMAIN t : \/ q \in DOMAIN Factory
                                  \/ \E m \in ms : q \in DOMAIN App(m)
                                  \/ \E d \in units : \E r \in DOMAIN Unit(Front(d)) :
                                        q = d \o r
           /\ DOMAIN Factory \subseteq DOMAIN t
           /\ \A m \in ms : DOMAIN App(m) \subseteq DOMAIN t
           /\ \A d \in units : \A r \in DOMAIN Unit(Front(d)) :
                 d \o r \in DOMAIN t /\ Like(t[d \o r], Unit(Front(d))[r])
  <1>1. units \subseteq UnitRows
    BY DEF Shape
  <1>4. ASSUME NEW q \in DOMAIN t
        PROVE  \/ q \in DOMAIN Factory
               \/ \E m \in ms : q \in DOMAIN App(m)
               \/ \E d \in units : \E r \in DOMAIN Unit(Front(d)) : q = d \o r
    <2>1. \/ q \in DOMAIN Factory
          \/ \E m \in ms : q \in DOMAIN App(m)
          \/ \E d \in units : q \in Below(d)
      BY DEF Shape
    <2> QED BY <2>1 DEF Below
  <1>5. /\ DOMAIN Factory \subseteq DOMAIN t
        /\ \A m \in ms : DOMAIN App(m) \subseteq DOMAIN t
    BY DEF Shape
  <1>6. ASSUME NEW d \in units, NEW r \in DOMAIN Unit(Front(d))
        PROVE  d \o r \in DOMAIN t /\ Like(t[d \o r], Unit(Front(d))[r])
    <2>1. d \o r \in Below(d)
      BY DEF Below
    <2>2. Below(d) \subseteq DOMAIN t
      BY DEF Shape
    <2> QED BY <2>1, <2>2 DEF Shape
  <1>7. ASSUME NEW q \in DOMAIN t
        PROVE  q \in Seq(Names)
    <2>1. CASE q \in DOMAIN Factory
      BY <2>1, FactoryAssumption DEF IsTree
    <2>2. CASE \E m \in ms : q \in DOMAIN App(m)
      BY <2>2, ManifestsAssumption DEF IsTree, App, Shape
    <2>3. CASE \E d \in units : \E r \in DOMAIN Unit(Front(d)) : q = d \o r
      BY <1>1, <2>3, InRow
    <2> QED BY <1>4, <2>1, <2>2, <2>3
  <1> QED BY <1>1, <1>4, <1>5, <1>6, <1>7

LEMMA ShapeOrigin ==
    ASSUME NEW t, NEW ms, NEW units, Shape(t, ms, units), NEW q \in DOMAIN t
    PROVE  \/ q \in DOMAIN Factory
           \/ \E m \in ms : q \in DOMAIN App(m)
           \/ \E d \in units : \E r \in DOMAIN Unit(Front(d)) : q = d \o r
  <1>1. \/ q \in DOMAIN Factory
        \/ \E m \in ms : q \in DOMAIN App(m)
        \/ \E d \in units : q \in Below(d)
    BY DEF Shape
  <1> QED BY <1>1 DEF Below

\* The rows of the unit tables are the units.
LEMMA ShapeRows ==
    ASSUME NEW t, NEW ms, NEW units, Shape(t, ms, units),
           NEW d \in UnitRows, NEW q \in DOMAIN t, IsPrefix(d, q)
    PROVE  /\ d \in units
           /\ \E r \in DOMAIN Unit(Front(d)) : q = d \o r
  <1>1. q \in Seq(Names)
    BY ShapePaths
  <1>2. /\ q \notin DOMAIN Factory
        /\ \A m \in DOMAIN Manifests : q \notin DOMAIN App(m)
    BY <1>1, RowsApart
  <1>3. PICK e \in units : \E r \in DOMAIN Unit(Front(e)) : q = e \o r
    <2>1. \/ q \in DOMAIN Factory
          \/ \E m \in ms : q \in DOMAIN App(m)
          \/ \E d2 \in units : \E r \in DOMAIN Unit(Front(d2)) : q = d2 \o r
      BY ShapePaths
    <2>2. \A m \in ms : q \notin DOMAIN App(m)
      BY <1>2, ShapeUnits
    <2> QED BY <1>2, <2>1, <2>2
  <1>4. e \in UnitRows
    BY <1>3, ShapeUnits
  <1>5. IsPrefix(e, q)
    BY <1>3, <1>4, InRow
  <1>6. d = e
    BY <1>1, <1>4, <1>5, OneRow
  <1> QED BY <1>3, <1>6

LEMMA RowPresent ==
    ASSUME NEW t, NEW ms, NEW units, Shape(t, ms, units), NEW d \in UnitRows
    PROVE  d \in DOMAIN t <=> d \in units
  <1>1. d \in Seq(Names) /\ IsPrefix(d, d)
    BY RowIs, PrefixIff
  <1>2. d \in DOMAIN t => d \in units
    BY <1>1, ShapeRows
  <1>3. d \in units => d \in DOMAIN t
    <2>1. Tabled(Front(d))
      BY RowIs
    <2>2. <<>> \in DOMAIN Unit(Front(d))
      BY <2>1, Templates
    <2>3. d \o <<>> = d
      BY <1>1, EmptyPath
    <2>4. d \in units => d \o <<>> \in DOMAIN t
      BY <2>2, ShapePaths
    <2> QED BY <2>3, <2>4
  <1> QED BY <1>2, <1>3

LEMMA ShapeInstances ==
    ASSUME NEW t, NEW ms, NEW units, Shape(t, ms, units)
    PROVE  /\ Instances(t, DeploymentUnitTable) = units \cap DURows
           /\ Instances(t, ExecutionUnitTable) = units \cap EURows
  <1>1. ASSUME NEW p, Tabled(p), NEW q
        PROVE  q \in Instances(t, p) <=> q \in units /\ Front(q) = p
    <2>1. ASSUME q \in Instances(t, p)
          PROVE  q \in units /\ Front(q) = p
      <3>1. q \in DOMAIN t /\ q # <<>> /\ Front(q) = p /\ Last(q) \in InstanceNames
        BY <2>1 DEF Instances, Children
      <3>2. q = Append(p, Last(q))
        BY <3>1, ShapePaths, FrontPath
      <3>3. q \in UnitRows
        BY <1>1, <3>1, <3>2, RowFacts
      <3> QED BY <3>1, <3>3, RowPresent
    <2>2. ASSUME q \in units, Front(q) = p
          PROVE  q \in Instances(t, p)
      <3>1. q \in UnitRows
        BY <2>2, ShapePaths
      <3> QED BY <2>2, <3>1, RowIs, RowPresent DEF Instances, Children
    <2> QED BY <2>1, <2>2
  <1>2. \A q \in units : /\ Front(q) = DeploymentUnitTable <=> q \in DURows
                         /\ Front(q) = ExecutionUnitTable <=> q \in EURows
    <2> SUFFICES ASSUME NEW q \in units
                 PROVE  /\ Front(q) = DeploymentUnitTable <=> q \in DURows
                        /\ Front(q) = ExecutionUnitTable <=> q \in EURows
      OBVIOUS
    <2>1. q \in UnitRows
      BY ShapeUnits
    <2>2. q \in DURows <=> Front(q) = DeploymentUnitTable
      BY <2>1, RowIs
    <2>3. q \in EURows <=> Front(q) = ExecutionUnitTable
      BY <2>1, RowIs
    <2> QED BY <2>2, <2>3
  <1>3. Tabled(DeploymentUnitTable) /\ Tabled(ExecutionUnitTable)
    BY DEF Tabled
  <1>4. \A q : q \in Instances(t, DeploymentUnitTable) <=>
                q \in units /\ Front(q) = DeploymentUnitTable
    BY <1>1, <1>3
  <1>5. \A q : q \in Instances(t, ExecutionUnitTable) <=>
                q \in units /\ Front(q) = ExecutionUnitTable
    BY <1>1, <1>3
  <1>6. Instances(t, DeploymentUnitTable) = units \cap DURows
    BY <1>2, <1>4
  <1>7. Instances(t, ExecutionUnitTable) = units \cap EURows
    BY <1>2, <1>5
  <1> QED BY <1>6, <1>7

LEMMA ShapeOutside ==
    ASSUME NEW t, NEW ms, NEW units, Shape(t, ms, units)
    PROVE  Outside(t) = Outside(Factory) \cup UNION {DOMAIN App(m) : m \in ms}
  <1>1. \A d \in units : \A r \in DOMAIN Unit(Front(d)) : IsPrefix(Root, d \o r)
    BY ShapePaths, InRow, RowsApart
  <1>2. \A m \in ms : \A q \in DOMAIN App(m) : ~IsPrefix(Root, q)
    BY ManifestsAssumption DEF App, Shape
  <1>3. ASSUME NEW q \in Outside(t)
        PROVE  q \in Outside(Factory) \cup UNION {DOMAIN App(m) : m \in ms}
    <2>1. q \in DOMAIN t /\ ~IsPrefix(Root, q)
      BY <1>3 DEF Outside
    <2>2. \/ q \in DOMAIN Factory
          \/ \E m \in ms : q \in DOMAIN App(m)
          \/ \E d \in units : \E r \in DOMAIN Unit(Front(d)) : q = d \o r
      BY <2>1, ShapePaths
    <2>3. q \in DOMAIN Factory \/ \E m \in ms : q \in DOMAIN App(m)
      BY <1>1, <2>1, <2>2
    <2> QED BY <2>1, <2>3 DEF Outside
  <1>4. ASSUME NEW q \in Outside(Factory) \cup UNION {DOMAIN App(m) : m \in ms}
        PROVE  q \in Outside(t)
    BY <1>2, <1>4, ShapePaths DEF Outside
  <1> QED BY <1>3, <1>4

\* Every leaf of a tree has its fields.
Plain(t) == \A q \in DOMAIN t : t[q].kind = "leaf" => DOMAIN t[q] = Fields

LEMMA ShapePlain ==
    ASSUME NEW t, NEW ms, NEW units, Shape(t, ms, units)
    PROVE  Plain(t)
  <1> SUFFICES ASSUME NEW q \in DOMAIN t
               PROVE  \E n : Like(t[q], n)
    BY DEF Plain, Like
  <1>1. CASE q \in DOMAIN Factory
    BY <1>1 DEF Shape
  <1>2. CASE q \notin DOMAIN Factory /\ \E m \in ms : q \in DOMAIN App(m)
    BY <1>2 DEF Shape
  <1>3. CASE \E d \in units : \E r \in DOMAIN Unit(Front(d)) : q = d \o r
    BY <1>3, ShapePaths
  <1> QED BY <1>1, <1>2, <1>3, ShapePaths

\* The leaves the lifecycle needs are there, and take any value.
LEMMA ShapeLeaves ==
    ASSUME NEW t, NEW ms, NEW units, Shape(t, ms, units),
           NEW d \in units, NEW name \in RequiredOf(Front(d))
    PROVE  /\ isLeaf(t, leaf(d, name)) /\ t[leaf(d, name)].type = "string"
           /\ name \in Names /\ leaf(d, name) \in DOMAIN t
  <1>1. d \in UnitRows
    BY ShapePaths
  <1>2. leaf(d, name) = d \o <<name>> /\ <<name>> \in DOMAIN Unit(Front(d)) /\ name \in Names
    BY <1>1, LeafInRow
  <1>3. leaf(d, name) \in DOMAIN t /\ Like(t[leaf(d, name)], Unit(Front(d))[<<name>>])
    BY <1>2, ShapePaths
  <1>4. /\ Unit(Front(d))[<<name>>].kind = "leaf"
        /\ Unit(Front(d))[<<name>>].type = "string"
    BY <1>1, RowIs, Templates
  <1> QED BY <1>2, <1>3, <1>4 DEF Like, isLeaf


-----------------------------------------------------------------------------
(* Writes *)

\* The same tree, but for what its leaves say.
Same(t, u) == DOMAIN u = DOMAIN t /\ \A q \in DOMAIN t : Like(u[q], t[q])

LEMMA SameShape ==
    ASSUME NEW t, NEW u, NEW ms, NEW units, Shape(t, ms, units), Same(t, u)
    PROVE  Shape(u, ms, units)
  <1>1. \A q \in DOMAIN Factory : Like(u[q], Factory[q])
    BY LikeTrans DEF Shape, Same
  <1>2. \A m \in ms : \A q \in DOMAIN App(m) \ DOMAIN Factory : Like(u[q], App(m)[q])
    BY LikeTrans DEF Shape, Same
  <1>3. ASSUME NEW d \in units, NEW r \in DOMAIN Unit(Front(d))
        PROVE  Like(u[d \o r], Unit(Front(d))[r])
    <2>1. d \o r \in DOMAIN t /\ Like(t[d \o r], Unit(Front(d))[r])
      BY ShapePaths
    <2>2. Like(u[d \o r], t[d \o r])
      BY <2>1 DEF Same
    <2> QED BY <2>1, <2>2, LikeTrans
  <1> QED BY <1>1, <1>2, <1>3 DEF Shape, Same

\* What the properties read of a row.
Tracked == {"UUID", "Name", "Status", "Version"}

LEMMA TrackedNames == \A name \in Tracked : name \in Names
  <1>1. Tabled(DeploymentUnitTable) /\ RequiredOf(DeploymentUnitTable) = Tracked
    BY DEF Tabled, RequiredOf, requiredDULeaves, Tracked
  <1> QED BY <1>1, Templates

\* The rows read the same in u as in t.
KeepsRaw(t, u, rows) ==
    \A d \in rows : \A name \in Tracked : Raw(u, d, name) = Raw(t, d, name)

LEMMA KeepsTrans ==
    ASSUME NEW t, NEW u, NEW v, NEW rows, KeepsRaw(t, u, rows), KeepsRaw(u, v, rows)
    PROVE  KeepsRaw(t, v, rows)
  BY DEF KeepsRaw

LEMMA SetLeavesSame ==
    ASSUME NEW t, Plain(t), NEW row, NEW values, NEW u, u = setLeaves(t, row, values)
    PROVE  Same(t, u) /\ Plain(u)
  <1>1. DOMAIN u = DOMAIN t
    BY DEF setLeaves
  <1>2. ASSUME NEW q \in DOMAIN t
        PROVE  Like(u[q], t[q]) /\ (u[q].kind = "leaf" => DOMAIN u[q] = Fields)
    <2>1. CASE u[q] = t[q]
      BY <2>1 DEF Like, Plain
    <2>2. CASE u[q] # t[q]
      <3>1. t[q].kind = "leaf" /\ \E v : u[q] = [t[q] EXCEPT !.raw = v]
        BY <2>2 DEF setLeaves, isLeaf
      <3>2. PICK v : u[q] = [t[q] EXCEPT !.raw = v]
        BY <3>1
      <3>3. DOMAIN t[q] = Fields
        BY <3>1 DEF Plain
      <3>4. /\ DOMAIN u[q] = Fields /\ u[q].kind = t[q].kind /\ u[q].type = t[q].type
        BY <3>2, <3>3 DEF Fields
      <3> QED BY <3>1, <3>4 DEF Like
    <2> QED BY <2>1, <2>2
  <1> QED BY <1>1, <1>2 DEF Same, Plain

LEMMA SetLeavesRaw ==
    ASSUME NEW t, Plain(t), NEW row, NEW values, NEW u, u = setLeaves(t, row, values),
           NEW p \in Seq(Names), NEW name \in Names
    PROVE  /\ p # row \/ name \notin DOMAIN values => Raw(u, p, name) = Raw(t, p, name)
           /\ /\ p = row /\ name \in DOMAIN values
              /\ isLeaf(t, leaf(p, name)) /\ t[leaf(p, name)].type = "string"
              => Raw(u, p, name) = values[name]
  <1>1. PICK q : q = leaf(p, name)
    OBVIOUS
  <1>2. q # <<>> /\ Front(q) = p /\ Last(q) = name
    BY <1>1, AppendPath DEF leaf
  <1>3. DOMAIN u = DOMAIN t /\ (isLeaf(u, q) <=> isLeaf(t, q))
    BY SetLeavesSame DEF Same, Like, isLeaf
  <1>4. ASSUME p # row \/ name \notin DOMAIN values
        PROVE  Raw(u, p, name) = Raw(t, p, name)
    <2>1. q \in DOMAIN t => u[q] = t[q]
      BY <1>2, <1>4 DEF setLeaves
    <2> QED BY <1>1, <1>3, <2>1 DEF Raw, isLeaf
  <1>5. ASSUME p = row, name \in DOMAIN values, isLeaf(t, q), t[q].type = "string"
        PROVE  Raw(u, p, name) = values[name]
    <2>1. q \in DOMAIN t /\ Validate(t[q].type, values[Last(q)])
      BY <1>5 DEF isLeaf, Validate
    <2>2. u[q] = [t[q] EXCEPT !.raw = values[name]]
      BY <1>2, <1>5, <2>1 DEF setLeaves
    <2>3. DOMAIN t[q] = Fields
      BY <1>5 DEF Plain, isLeaf
    <2>4. u[q].raw = values[name]
      BY <2>2, <2>3 DEF Fields
    <2> QED BY <1>1, <1>3, <1>5, <2>4 DEF Raw
  <1> QED BY <1>1, <1>4, <1>5

LEMMA SetLeavesKeeps ==
    ASSUME NEW t, Plain(t), NEW row, NEW values, NEW u, u = setLeaves(t, row, values),
           NEW rows, rows \subseteq UnitRows
    PROVE  /\ KeepsRaw(t, u, rows \ {row})
           /\ DOMAIN values \cap Tracked = {} => KeepsRaw(t, u, rows)
  <1>1. \A d \in rows : d \in Seq(Names)
    BY RowIs
  <1>2. \A d \in rows : \A name \in Tracked :
           d # row \/ name \notin DOMAIN values => Raw(u, d, name) = Raw(t, d, name)
    BY <1>1, TrackedNames, SetLeavesRaw
  <1> QED BY <1>2 DEF KeepsRaw

LEMMA SyncSame ==
    ASSUME NEW t, Plain(t), NEW p, Tabled(p), NEW u, u = syncEntryCount(t, p).tree,
           NEW rows, rows \subseteq UnitRows
    PROVE  Same(t, u) /\ Plain(u) /\ KeepsRaw(t, u, rows)
  <1>1. CASE ~HasCounter(t, p)
    <2>1. u = t
      BY <1>1 DEF syncEntryCount, Done
    <2> QED BY <2>1 DEF Same, Plain, Like, KeepsRaw
  <1>2. CASE HasCounter(t, p)
    <2>1. PICK c, v : c = CounterOf(p) /\ v = EntryCount(t, p)
      OBVIOUS
    <2>2. u = [t EXCEPT ![c].raw = v]
      BY <1>2, <2>1 DEF syncEntryCount, Done
    <2>3. c \in DOMAIN t /\ t[c].kind = "leaf" /\ DOMAIN t[c] = Fields
      BY <1>2, <2>1 DEF HasCounter, isLeaf, Plain
    <2>4. /\ DOMAIN u = DOMAIN t /\ \A q \in DOMAIN t : q # c => u[q] = t[q]
          /\ DOMAIN u[c] = Fields /\ u[c].kind = t[c].kind /\ u[c].type = t[c].type
      BY <2>2, <2>3 DEF Fields
    <2>5. Same(t, u) /\ Plain(u)
      BY <2>3, <2>4 DEF Same, Plain, Like
    <2>6. ASSUME NEW d \in rows, NEW name \in Tracked
          PROVE  Raw(u, d, name) = Raw(t, d, name)
      <3>1. d \in Seq(Names) /\ Len(d) = 3 /\ name \in Names
        BY RowIs, TrackedNames
      <3>2. Len(leaf(d, name)) = 4
        <4>1. PICK a : a = Append(d, name)
          OBVIOUS
        <4>2. Len(a) = Len(d) + 1
          BY <3>1, <4>1, AppendItems
        <4>3. leaf(d, name) = a
          BY <4>1 DEF leaf
        <4> QED BY <3>1, <4>2, <4>3
      <3>3. Front(p) = Root /\ Last(p) \in DOMAIN Counters
        BY <1>2, TablePaths DEF HasCounter, Tabled
      <3>4. Len(c) = 2
        <4>1. Counters[Last(p)] \in Names
          BY <3>3, NamesAssumption
        <4>2. c = Append(Root, Counters[Last(p)])
          BY <2>1, <3>3 DEF CounterOf
        <4>3. Len(c) = Len(Root) + 1
          BY <4>1, <4>2, TablePaths, AppendItems
        <4> QED BY <4>3, TablePaths
      <3>5. leaf(d, name) # c
        BY <3>2, <3>4
      <3>6. leaf(d, name) \in DOMAIN t => u[leaf(d, name)] = t[leaf(d, name)]
        BY <2>4, <3>5
      <3> QED BY <2>4, <3>6 DEF Raw, isLeaf
    <2> QED BY <2>5, <2>6 DEF KeepsRaw
  <1> QED BY <1>1, <1>2


-----------------------------------------------------------------------------
(* Rows come and go *)

LEMMA Parses ==
    ASSUME NEW p \in Seq(Names)
    PROVE  parsePath(p)
  <1>1. \A x \in DOMAIN p : p[x] \in Names
    OBVIOUS
  <1> QED BY <1>1, NamesAssumption DEF parsePath, Range

LEMMA TableInShape ==
    ASSUME NEW t, NEW ms, NEW units, Shape(t, ms, units), NEW p, Tabled(p)
    PROVE  p \in DOMAIN t /\ isTable(t, p) /\ t[p].template = Unit(p) /\ parsePath(p)
  <1>1. p \in DOMAIN Factory /\ Factory[p].kind = "table"
    BY Templates DEF isTable
  <1>2. Like(t[p], Factory[p]) /\ p \in DOMAIN t
    BY <1>1, ShapePaths DEF Shape
  <1>3. t[p] = Factory[p]
    BY <1>1, <1>2 DEF Like
  <1>4. parsePath(p)
    BY Parses, TablePaths DEF Tabled
  <1> QED BY <1>1, <1>2, <1>3, <1>4 DEF isTable, Unit

\* u is t with a fresh row.
Grown(t, row, u) ==
    /\ row \in UnitRows /\ row \notin DOMAIN t
    /\ DOMAIN u = DOMAIN t \cup Below(row)
    /\ \A q \in DOMAIN t : Like(u[q], t[q])
    /\ \A r \in DOMAIN Unit(Front(row)) : Like(u[row \o r], Unit(Front(row))[r])
    /\ KeepsRaw(t, u, UnitRows \ {row})

LEMMA GrownShape ==
    ASSUME NEW t, NEW ms, NEW units, Shape(t, ms, units), NEW row, NEW u, Grown(t, row, u)
    PROVE  Shape(u, ms, units \cup {row}) /\ row \notin units
  <1>1. row \in UnitRows /\ row \notin units
    BY RowPresent DEF Grown
  <1>2. DOMAIN u = (DOMAIN Factory \cup UNION {DOMAIN App(m) : m \in ms})
                    \cup UNION {Below(d) : d \in units \cup {row}}
    BY DEF Grown, Shape
  <1>3. \A q \in DOMAIN Factory : Like(u[q], Factory[q])
    BY LikeTrans DEF Shape, Grown
  <1>4. \A m \in ms : \A q \in DOMAIN App(m) \ DOMAIN Factory : Like(u[q], App(m)[q])
    BY LikeTrans DEF Shape, Grown
  <1>5. ASSUME NEW d \in units \cup {row}, NEW r \in DOMAIN Unit(Front(d))
        PROVE  Like(u[d \o r], Unit(Front(d))[r])
    <2>1. CASE d \in units
      <3>1. d \o r \in DOMAIN t /\ Like(t[d \o r], Unit(Front(d))[r])
        BY <2>1, ShapePaths
      <3>2. Like(u[d \o r], t[d \o r])
        BY <3>1 DEF Grown
      <3> QED BY <3>1, <3>2, LikeTrans
    <2>2. CASE d = row
      BY <2>2 DEF Grown
    <2> QED BY <2>1, <2>2
  <1> QED BY <1>1, <1>2, <1>3, <1>4, <1>5 DEF Shape

\* AddObject's clone of the template at a row the tree lacks.
LEMMA AttachGrows ==
    ASSUME NEW t, NEW ms, NEW units, Shape(t, ms, units),
           NEW row \in UnitRows, row \notin DOMAIN t,
           NEW u, u = Attach(t, row, Unit(Front(row)))
    PROVE  Grown(t, row, u) /\ Plain(u)
  <1>1. \A r \in DOMAIN Unit(Front(row)) :
           /\ row \o r \in Seq(Names) /\ IsPrefix(row, row \o r)
           /\ SubSeq(row \o r, Len(row) + 1, Len(row \o r)) = r
    BY InRow
  <1>2. \A q \in DOMAIN t : ~IsPrefix(row, q)
    BY ShapeRows, RowPresent
  <1>3. DOMAIN u = DOMAIN t \cup Below(row) /\ \A q \in DOMAIN t : u[q] = t[q]
    BY DEF Attach, Below
  <1>4. ASSUME NEW r \in DOMAIN Unit(Front(row))
        PROVE  u[row \o r] = Unit(Front(row))[r]
    <2>1. PICK q : q = row \o r
      OBVIOUS
    <2>2. q \in Below(row) /\ q \notin DOMAIN t /\ SubSeq(q, Len(row) + 1, Len(q)) = r
      BY <1>1, <1>2, <2>1 DEF Below
    <2>3. u[q] = Unit(Front(row))[r]
      BY <1>3, <2>2 DEF Attach
    <2> QED BY <2>1, <2>3
  <1>5. Plain(Unit(Front(row)))
    <2>1. Tabled(Front(row))
      BY RowIs
    <2>2. IsTree(Unit(Front(row)))
      BY <2>1, Templates
    <2> QED BY <2>2 DEF IsTree, Plain, isLeaf
  <1>6. Plain(u)
    <2> SUFFICES ASSUME NEW q \in DOMAIN u, u[q].kind = "leaf"
                 PROVE  DOMAIN u[q] = Fields
      BY DEF Plain
    <2>1. CASE q \in DOMAIN t
      BY <1>3, <2>1, ShapePlain DEF Plain
    <2>2. CASE q \in Below(row)
      <3>1. PICK r \in DOMAIN Unit(Front(row)) : q = row \o r
        BY <2>2 DEF Below
      <3> QED BY <1>4, <1>5, <3>1 DEF Plain
    <2> QED BY <1>3, <2>1, <2>2
  <1>7. /\ \A q \in DOMAIN t : Like(u[q], t[q])
        /\ \A r \in DOMAIN Unit(Front(row)) : Like(u[row \o r], Unit(Front(row))[r])
    BY <1>3, <1>4, <1>5, ShapePlain DEF Like, Plain
  <1>8. ASSUME NEW d \in UnitRows \ {row}, NEW name \in Tracked
        PROVE  Raw(u, d, name) = Raw(t, d, name)
    <2>1. d \in Seq(Names) /\ name \in Names
      BY RowIs, TrackedNames
    <2>2. leaf(d, name) \in Seq(Names) /\ IsPrefix(d, leaf(d, name))
      BY <2>1, LeafPath
    <2>3. ~IsPrefix(row, leaf(d, name))
      BY <2>2, OneRow
    <2>4. leaf(d, name) \notin Below(row)
      BY <1>1, <2>3 DEF Below
    <2> QED BY <1>3, <2>4 DEF Raw, isLeaf
  <1> QED BY <1>3, <1>6, <1>7, <1>8 DEF Grown, KeepsRaw

LEMMA GrownSynced ==
    ASSUME NEW t, NEW row, NEW u, Grown(t, row, u), NEW v, Same(u, v),
           KeepsRaw(u, v, UnitRows)
    PROVE  Grown(t, row, v)
  <1>1. \A q \in DOMAIN t : Like(v[q], t[q])
    BY LikeTrans DEF Grown, Same
  <1>2. ASSUME NEW r \in DOMAIN Unit(Front(row))
        PROVE  Like(v[row \o r], Unit(Front(row))[r])
    <2>1. row \o r \in DOMAIN u
      BY DEF Grown, Below
    <2> QED BY <2>1, LikeTrans DEF Grown, Same
  <1>3. KeepsRaw(t, v, UnitRows \ {row})
    BY DEF Grown, KeepsRaw
  <1> QED BY <1>1, <1>2, <1>3 DEF Grown, Same

LEMMA RowRecord ==
    ASSUME NEW a, NEW v, NEW row, NEW f, a = [tree |-> v, row |-> row, fault |-> f]
    PROVE  a.tree = v /\ a.row = row /\ a.fault = f
  OBVIOUS

\* addRow adds a row, where there is room: the templates have what it asks for.
LEMMA AddRowOK ==
    ASSUME NEW t, NEW ms, NEW units, Shape(t, ms, units), NEW p, Tabled(p),
           HasRoom(t, p), NEW a, a = addRow(t, p, RequiredOf(p))
    PROVE  a.fault = "" /\ Grown(t, a.row, a.tree) /\ Front(a.row) = p
  <1>1. p \in DOMAIN t /\ isTable(t, p) /\ t[p].template = Unit(p) /\ parsePath(p)
    BY TableInShape
  <1>2. PICK n, x, row, u, v :
          /\ n = FreeInstance(t, p) /\ x = Itoa(n) /\ row = Append(p, x)
          /\ u = Attach(t, row, Unit(p)) /\ v = syncEntryCount(u, p).tree
    OBVIOUS
  <1>3. x \in InstanceNames /\ row \notin DOMAIN t
    BY <1>2, FreeInstanceExists DEF HasRoom
  <1>4. row \in UnitRows /\ Front(row) = p
    BY <1>2, <1>3, RowFacts
  <1>5. Grown(t, row, u) /\ Plain(u)
    BY <1>2, <1>3, <1>4, AttachGrows
  <1>6. Same(u, v) /\ KeepsRaw(u, v, UnitRows)
    BY <1>2, <1>5, SyncSame
  <1>7. Grown(t, row, v)
    BY <1>5, <1>6, GrownSynced
  <1>8. Shape(v, ms, units \cup {row})
    BY <1>7, GrownShape
  <1>9. \A name \in RequiredOf(p) : isLeaf(v, leaf(row, name))
    BY <1>4, <1>8, ShapeLeaves
  <1>10. PICK o : o = AddObject(t, p)
    OBVIOUS
  <1>11. o.err = "" /\ o.instance = n /\ o.tree = v
    BY <1>1, <1>2, <1>10 DEF AddObject
  <1>12. a = Complete(v, row, RequiredOf(p))
    BY <1>2, <1>10, <1>11 DEF addRow
  <1>13. a = [tree |-> v, row |-> row, fault |-> ""]
    <2>1. ~ \E name \in RequiredOf(p) : ~isLeaf(v, leaf(row, name))
      BY <1>9
    <2> QED BY <1>12, <2>1, Zenon DEF Complete
  <1>14. a.tree = v /\ a.row = row /\ a.fault = ""
    BY <1>13, RowRecord
  <1> QED BY <1>4, <1>7, <1>14


\* A tree with part of the paths of another: rows read the same where they stay.
LEMMA CutKeeps ==
    ASSUME NEW t, NEW u, NEW rows, rows \subseteq UnitRows,
           DOMAIN u \subseteq DOMAIN t, \A q \in DOMAIN u : u[q] = t[q],
           \A d \in rows : \A q \in DOMAIN t : IsPrefix(d, q) => q \in DOMAIN u
    PROVE  KeepsRaw(t, u, rows)
  <1> SUFFICES ASSUME NEW d \in rows, NEW name \in Tracked
               PROVE  Raw(u, d, name) = Raw(t, d, name)
    BY DEF KeepsRaw
  <1>1. d \in Seq(Names) /\ name \in Names
    BY RowIs, TrackedNames
  <1>2. IsPrefix(d, leaf(d, name))
    BY <1>1, LeafPath
  <1>3. leaf(d, name) \in DOMAIN t <=> leaf(d, name) \in DOMAIN u
    BY <1>2
  <1> QED BY <1>3 DEF Raw, isLeaf

LEMMA LikeSelf ==
    ASSUME NEW t, Plain(t), NEW q \in DOMAIN t
    PROVE  Like(t[q], t[q])
  BY DEF Plain, Like

\* Cutting a row out.
LEMMA DetachShape ==
    ASSUME NEW t, NEW ms, NEW units, Shape(t, ms, units), NEW row \in units,
           NEW u, u = Detach(t, row)
    PROVE  Shape(u, ms, units \ {row}) /\ KeepsRaw(t, u, UnitRows \ {row})
  <1>1. row \in UnitRows /\ units \subseteq UnitRows /\ ms \subseteq DOMAIN Manifests
    BY ShapeUnits
  <1>2. DOMAIN u = {q \in DOMAIN t : ~IsPrefix(row, q)} /\ \A q \in DOMAIN u : u[q] = t[q]
    BY DEF Detach
  <1>3. \A q \in DOMAIN t : q \in Seq(Names)
    BY ShapePaths
  <1>4. \A q \in DOMAIN Factory : q \in DOMAIN u
    BY <1>1, <1>2, <1>3, ShapePaths, RowsApart
  <1>5. \A m \in ms : \A q \in DOMAIN App(m) : q \in DOMAIN u
    <2> SUFFICES ASSUME NEW m \in ms, NEW q \in DOMAIN App(m)
                 PROVE  q \in DOMAIN u
      OBVIOUS
    <2>1. q \in DOMAIN t /\ q \in Seq(Names) /\ m \in DOMAIN Manifests
      BY <1>1, <1>3, ShapePaths
    <2> QED BY <1>1, <1>2, <2>1, RowsApart
  <1>6. ASSUME NEW d \in units \ {row}, NEW r \in DOMAIN Unit(Front(d))
        PROVE  d \o r \in DOMAIN u /\ Like(u[d \o r], Unit(Front(d))[r])
    <2>1. d \o r \in DOMAIN t /\ Like(t[d \o r], Unit(Front(d))[r])
      BY ShapePaths
    <2>2. d \in UnitRows /\ IsPrefix(d, d \o r) /\ d \o r \in Seq(Names)
      BY <1>1, InRow
    <2>3. ~IsPrefix(row, d \o r)
      BY <1>1, <2>2, OneRow
    <2> QED BY <1>2, <2>1, <2>3
  <1>7. ASSUME NEW q \in DOMAIN u
        PROVE  q \in (DOMAIN Factory \cup UNION {DOMAIN App(m) : m \in ms})
                    \cup UNION {Below(d) : d \in units \ {row}}
    <2>0. q \in DOMAIN t
      BY <1>2
    <2>1. \/ q \in DOMAIN Factory
          \/ \E m \in ms : q \in DOMAIN App(m)
          \/ \E d \in units : \E r \in DOMAIN Unit(Front(d)) : q = d \o r
      BY <2>0, ShapeOrigin
    <2>2. \A r \in DOMAIN Unit(Front(row)) : q # row \o r
      BY <1>1, <1>2, InRow
    <2>3. \/ q \in DOMAIN Factory
          \/ \E m \in ms : q \in DOMAIN App(m)
          \/ \E d \in units \ {row} : q \in Below(d)
      BY <2>1, <2>2 DEF Below
    <2> QED BY <2>3
  <1>8. DOMAIN u = (DOMAIN Factory \cup UNION {DOMAIN App(m) : m \in ms})
                    \cup UNION {Below(d) : d \in units \ {row}}
    <2>1. ASSUME NEW d \in units \ {row}
          PROVE  Below(d) \subseteq DOMAIN u
      BY <1>6 DEF Below
    <2> QED BY <1>4, <1>5, <1>7, <2>1
  <1>9. Shape(u, ms, units \ {row})
    <2>1. \A q \in DOMAIN Factory : Like(u[q], Factory[q])
      BY <1>2, <1>4 DEF Shape
    <2>2. \A m \in ms : \A q \in DOMAIN App(m) \ DOMAIN Factory : Like(u[q], App(m)[q])
      BY <1>2, <1>5 DEF Shape
    <2> QED BY <1>1, <1>6, <1>8, <2>1, <2>2 DEF Shape
  <1>10. ASSUME NEW d \in UnitRows \ {row}, NEW q \in DOMAIN t, IsPrefix(d, q)
         PROVE  q \in DOMAIN u
    BY <1>1, <1>2, <1>3, <1>10, OneRow
  <1>11. KeepsRaw(t, u, UnitRows \ {row})
    BY <1>2, <1>10, CutKeeps
  <1> QED BY <1>9, <1>11

\* DeleteObject of a row that is there.
LEMMA DeleteRowOK ==
    ASSUME NEW t, NEW ms, NEW units, Shape(t, ms, units), NEW row \in units,
           NEW u, u = DeleteObject(t, row).tree
    PROVE  Shape(u, ms, units \ {row}) /\ KeepsRaw(t, u, UnitRows \ {row})
  <1>1. row \in UnitRows
    BY ShapeUnits
  <1>2. /\ row \in Seq(Names) /\ row # <<>> /\ Tabled(Front(row))
        /\ Last(row) \in InstanceNames
    BY <1>1, RowIs
  <1>3. Front(row) \in DOMAIN t /\ isTable(t, Front(row)) /\ row \in DOMAIN t
    BY <1>1, <1>2, TableInShape, RowPresent
  <1>4. parsePath(row)
    BY <1>2, Parses
  <1>5. PICK v, o : v = Detach(t, row) /\ o = syncEntryCount(v, Front(row))
    OBVIOUS
  <1>6. u = o.tree
    BY <1>2, <1>3, <1>4, <1>5 DEF DeleteObject, Done
  <1>7. Shape(v, ms, units \ {row}) /\ KeepsRaw(t, v, UnitRows \ {row})
    BY <1>5, DetachShape
  <1>8. Same(v, u) /\ KeepsRaw(v, u, UnitRows \ {row})
    <2>1. Plain(v)
      BY <1>7, ShapePlain
    <2> QED BY <1>2, <1>5, <1>6, <2>1, SyncSame
  <1> QED BY <1>7, <1>8, SameShape, KeepsTrans

\* There is room where a row is missing.
LEMMA RoomIff ==
    ASSUME NEW t, NEW ms, NEW units, Shape(t, ms, units), NEW p, Tabled(p)
    PROVE  HasRoom(t, p) <=> \E d \in UnitRows \ units : Front(d) = p
  <1>1. ASSUME HasRoom(t, p)
        PROVE  \E d \in UnitRows \ units : Front(d) = p
    <2>1. PICK n \in 1 .. MaxInstance : Append(p, Itoa(n)) \notin DOMAIN t
      BY <1>1 DEF HasRoom
    <2>2. Itoa(n) \in InstanceNames
      BY DEF InstanceNames
    <2>3. Append(p, Itoa(n)) \in UnitRows /\ Front(Append(p, Itoa(n))) = p
      BY <2>2, RowFacts
    <2> QED BY <2>1, <2>3, RowPresent
  <1>2. ASSUME NEW d \in UnitRows \ units, Front(d) = p
        PROVE  HasRoom(t, p)
    <2>1. d = Append(p, Last(d)) /\ Last(d) \in InstanceNames /\ d \notin DOMAIN t
      BY <1>2, RowIs, RowPresent
    <2>2. PICK n \in 1 .. MaxInstance : Last(d) = Itoa(n)
      BY <2>1 DEF InstanceNames
    <2> QED BY <2>1, <2>2 DEF HasRoom
  <1> QED BY <1>1, <1>2


-----------------------------------------------------------------------------
(* Apps come and go *)

\* App m can join the apps ms.
Fits(ms, m) == /\ ~Clash(Factory, App(m))
               /\ \A n \in ms : ~Clash(App(n), App(m))

Joins(ms, m) == Fits(ms, m) /\ Apart(ms, m)

\* The apps ms fit the profile.
AllFit(ms) == \A n \in ms : ~Clash(Factory, App(n))

\* Apps that fit share only what the profile has.
LEMMA FitsApart ==
    ASSUME NEW t, NEW ms, NEW units, Shape(t, ms, units), NEW m \in DOMAIN Manifests,
           Fits(ms, m), Apart(ms, m)
    PROVE  \A q \in DOMAIN App(m) : q \in DOMAIN t => q \in DOMAIN Factory
  <1> SUFFICES ASSUME NEW q \in DOMAIN App(m), q \in DOMAIN t, q \notin DOMAIN Factory
               PROVE  FALSE
    OBVIOUS
  <1>1. ASSUME NEW d \in units, NEW r \in DOMAIN Unit(Front(d))
        PROVE  q # d \o r
    <2>1. d \in UnitRows
      BY ShapeUnits
    <2>2. d \o r \notin DOMAIN App(m)
      BY <2>1, InRow
    <2> QED BY <2>2
  <1>2. PICK n \in ms : q \in DOMAIN App(n)
    BY <1>1, ShapePaths
  <1>3. n \in DOMAIN Manifests
    BY ShapeUnits
  <1>4. ~Clash(App(n), App(m))
    BY DEF Fits
  <1>5. DOMAIN App(n) \cap DOMAIN App(m) \subseteq DOMAIN Factory
    BY <1>2, <1>4 DEF Apart, Separate, App
  <1> QED BY <1>2, <1>5

\* The tree refuses a graft exactly of an app that does not fit.
LEMMA ConflictIff ==
    ASSUME NEW t, NEW ms, NEW units, Shape(t, ms, units), AllFit(ms),
           NEW m \in DOMAIN Manifests, Apart(ms, m)
    PROVE  GraftConflict(t, App(m)) <=> ~Fits(ms, m)
  <1>1. ASSUME NEW p \in DOMAIN Factory
        PROVE  p \in DOMAIN t /\ (isLeaf(t, p) <=> isLeaf(Factory, p))
    <2>1. p \in DOMAIN t /\ Like(t[p], Factory[p])
      BY ShapePaths DEF Shape
    <2> QED BY <2>1 DEF Like, isLeaf
  <1>2. ASSUME NEW n \in ms, NEW p \in DOMAIN App(n), p \notin DOMAIN Factory
        PROVE  p \in DOMAIN t /\ (isLeaf(t, p) <=> isLeaf(App(n), p))
    <2>1. p \in DOMAIN t
      BY ShapePaths
    <2>2. Like(t[p], App(n)[p])
      BY <1>2 DEF Shape
    <2> QED BY <2>1, <2>2 DEF Like, isLeaf
  <1>3. ASSUME GraftConflict(t, App(m)), Fits(ms, m)
        PROVE  FALSE
    <2>1. PICK p \in DOMAIN App(m) \cap DOMAIN t : isLeaf(t, p) \/ isLeaf(App(m), p)
      BY <1>3 DEF GraftConflict
    <2>2. p \in DOMAIN Factory
      BY <1>3, FitsApart
    <2>3. Clash(Factory, App(m))
      BY <1>1, <2>1, <2>2 DEF Clash
    <2> QED BY <1>3, <2>3 DEF Fits
  <1>4. ASSUME Clash(Factory, App(m))
        PROVE  GraftConflict(t, App(m))
    <2>1. PICK p \in DOMAIN Factory \cap DOMAIN App(m) : isLeaf(Factory, p) \/ isLeaf(App(m), p)
      BY <1>4 DEF Clash
    <2> QED BY <1>1, <2>1 DEF GraftConflict
  <1>5. ASSUME NEW n \in ms, Clash(App(n), App(m)), ~Clash(Factory, App(m))
        PROVE  GraftConflict(t, App(m))
    <2>1. PICK p \in DOMAIN App(n) \cap DOMAIN App(m) : isLeaf(App(n), p) \/ isLeaf(App(m), p)
      BY <1>5 DEF Clash
    <2>2. p \notin DOMAIN Factory
      <3>1. ~Clash(Factory, App(n))
        BY DEF AllFit
      <3> QED BY <1>5, <2>1, <3>1 DEF Clash
    <2>3. p \in DOMAIN t /\ (isLeaf(t, p) <=> isLeaf(App(n), p))
      BY <1>2, <2>1, <2>2
    <2> QED BY <2>1, <2>3 DEF GraftConflict
  <1> QED BY <1>3, <1>4, <1>5 DEF Fits

\* A graft of an app that fits.
LEMMA GraftOK ==
    ASSUME NEW t, NEW ms, NEW units, Shape(t, ms, units), AllFit(ms),
           NEW m \in DOMAIN Manifests, Fits(ms, m), Apart(ms, m),
           NEW o, o = Graft(t, App(m))
    PROVE  /\ o.err = "" /\ Shape(o.tree, ms \cup {m}, units)
           /\ KeepsRaw(t, o.tree, UnitRows)
           /\ GraftPoints(t, App(m)) = GraftPoints(Factory, App(m))
  <1>1. ~GraftConflict(t, App(m))
    BY ConflictIff
  <1>2. PICK u : u = [q \in DOMAIN t \cup DOMAIN App(m) |->
                       IF q \in DOMAIN t THEN t[q] ELSE App(m)[q]]
    OBVIOUS
  <1>3. o.err = "" /\ o.tree = u
    BY <1>1, <1>2 DEF Graft, Done
  <1>4. \A q \in DOMAIN App(m) : q \in DOMAIN t <=> q \in DOMAIN Factory
    BY FitsApart, ShapePaths
  <1>5. Plain(App(m)) /\ IsTree(App(m))
    BY ManifestsAssumption DEF App, IsTree, Plain, isLeaf
  <1>6. Shape(u, ms \cup {m}, units)
    <2>1. ms \cup {m} \subseteq DOMAIN Manifests /\ units \subseteq UnitRows
      BY ShapeUnits
    <2>2. DOMAIN u = (DOMAIN Factory \cup UNION {DOMAIN App(n) : n \in ms \cup {m}})
                    \cup UNION {Below(d) : d \in units}
      <3>1. DOMAIN u = DOMAIN t \cup DOMAIN App(m)
        BY <1>2
      <3> QED BY <3>1 DEF Shape
    <2>3. \A q \in DOMAIN t : u[q] = t[q]
      BY <1>2
    <2>4. \A q \in DOMAIN Factory : Like(u[q], Factory[q])
      BY <2>3, ShapePaths DEF Shape
    <2>5. ASSUME NEW n \in ms \cup {m}, NEW q \in DOMAIN App(n) \ DOMAIN Factory
          PROVE  Like(u[q], App(n)[q])
      <3>1. CASE n \in ms
        <4>1. q \in DOMAIN t /\ Like(t[q], App(n)[q])
          BY <3>1, ShapePaths DEF Shape
        <4> QED BY <2>3, <4>1
      <3>2. CASE n = m
        <4>1. u[q] = App(m)[q]
          BY <1>2, <1>4, <3>2
        <4> QED BY <1>5, <3>2, <4>1, LikeSelf
      <3> QED BY <3>1, <3>2
    <2>6. \A d \in units : \A r \in DOMAIN Unit(Front(d)) :
             Like(u[d \o r], Unit(Front(d))[r])
      BY <2>3, ShapePaths
    <2> QED BY <2>1, <2>2, <2>4, <2>5, <2>6 DEF Shape
  <1>7. KeepsRaw(t, u, UnitRows)
    <2> SUFFICES ASSUME NEW d \in UnitRows, NEW name \in Tracked
                 PROVE  Raw(u, d, name) = Raw(t, d, name)
      BY DEF KeepsRaw
    <2>1. d \in Seq(Names) /\ name \in Names
      BY RowIs, TrackedNames
    <2>2. IsPrefix(d, leaf(d, name)) /\ leaf(d, name) \in Seq(Names)
      BY <2>1, LeafPath
    <2>3. leaf(d, name) \notin DOMAIN App(m)
      BY <2>2, RowsApart
    <2> QED BY <1>2, <2>3 DEF Raw, isLeaf
  <1>8. GraftPoints(t, App(m)) = GraftPoints(Factory, App(m))
    <2>1. \A q \in DOMAIN App(m) : q # <<>> => Front(q) \in DOMAIN App(m)
      BY <1>5, Closed
    <2> QED BY <1>4, <2>1 DEF GraftPoints
  <1> QED BY <1>3, <1>6, <1>7, <1>8


\* What an app adds hangs below the points it was grafted at.
LEMMA GraftedBelow ==
    ASSUME NEW m \in DOMAIN Manifests, NEW q \in DOMAIN App(m), q \notin DOMAIN Factory
    PROVE  \E r \in GraftPoints(Factory, App(m)) : IsPrefix(r, q)
  <1>1. IsTree(App(m)) /\ IsTree(Factory)
    BY ManifestsAssumption, FactoryAssumption DEF App
  <1>2. q \in Seq(Names) /\ IsPrefix(q, q)
    BY <1>1, Closed, PrefixIff
  <1> DEFINE Way == {p \in DOMAIN App(m) : p \notin DOMAIN Factory /\ IsPrefix(p, q)}
             S == {Len(p) : p \in Way}
  <1>3. ASSUME NEW p \in Way
        PROVE  p \in Seq(Names) /\ Len(p) \in Nat
    <2>1. p \in Seq(Names)
      BY <1>1, Closed
    <2> QED BY <2>1
  <1>4. S \in SUBSET Nat /\ S # {}
    BY <1>2, <1>3
  <1>5. PICK n \in S : \A k \in S : n <= k
    BY <1>4, LeastElement
  <1>6. PICK p \in Way : Len(p) = n
    BY <1>5
  <1>7. p # <<>>
    BY <1>1, <1>6 DEF IsTree
  <1>8. /\ Front(p) \in DOMAIN App(m) /\ Front(p) \in Seq(Names)
        /\ Len(Front(p)) = n - 1 /\ n \in Nat
    BY <1>1, <1>3, <1>6, <1>7, Closed, FrontItems
  <1>9. IsPrefix(Front(p), q)
    <2>1. IsPrefix(Front(p), p)
      BY <1>3, <1>7, <1>8, PrefixFront, PrefixIff
    <2> QED BY <1>2, <1>3, <1>6, <1>8, <2>1, PrefixTransitive
  <1>10. Front(p) \in DOMAIN Factory
    <2>1. Front(p) \in DOMAIN Factory \/ Len(Front(p)) \in S
      BY <1>8, <1>9
    <2> QED BY <1>5, <1>8, <2>1
  <1>11. p \in GraftPoints(Factory, App(m))
    BY <1>6, <1>7, <1>10 DEF GraftPoints
  <1> QED BY <1>6, <1>11

\* The points of a graft can all be taken out again.
LEMMA RootsGo ==
    ASSUME NEW t, NEW ms, NEW units, Shape(t, ms, units), NEW m \in ms,
           ~Clash(Factory, App(m)), OwnRows(m), NEW r \in GraftPoints(Factory, App(m))
    PROVE  Unmount(t, r).err = ""
  <1>1. m \in DOMAIN Manifests /\ IsTree(App(m))
    BY ShapeUnits, ManifestsAssumption DEF App
  <1>2. /\ r \in DOMAIN App(m) /\ r # <<>> /\ r \notin DOMAIN Factory
        /\ Front(r) \in DOMAIN Factory /\ Front(r) \in DOMAIN App(m)
        /\ r \in Seq(Names)
    BY <1>1, Closed DEF GraftPoints
  <1>3. parsePath(r)
    BY <1>2, Parses
  <1>4. r \in DOMAIN t /\ Front(r) \in DOMAIN t
    BY <1>2, ShapePaths
  <1>5. Like(t[Front(r)], Factory[Front(r)])
    BY <1>2 DEF Shape
  <1>6. ~isLeaf(t, Front(r))
    BY <1>2, <1>5 DEF Like, isLeaf, Clash
  <1>7. ~(isTable(t, Front(r)) /\ Last(r) \in InstanceNames)
    <2>1. Last(r) \in InstanceNames => ~isTable(Factory, Front(r))
      BY <1>2 DEF OwnRows, App
    <2> QED BY <1>2, <1>5, <2>1 DEF Like, isTable
  <1> QED BY <1>2, <1>3, <1>4, <1>6, <1>7 DEF Unmount, Done

\* Nothing but the app is below its points.
LEMMA RootsApart ==
    ASSUME NEW m \in DOMAIN Manifests, NEW r \in GraftPoints(Factory, App(m)),
           NEW q \in Seq(Names), IsPrefix(r, q)
    PROVE  /\ q \notin DOMAIN Factory
           /\ \A n \in DOMAIN Manifests :
                ~Clash(App(n), App(m)) /\ Separate(n, m) => q \notin DOMAIN App(n)
           /\ \A d \in UnitRows : ~IsPrefix(d, q)
  <1>1. IsTree(App(m)) /\ IsTree(Factory)
    BY ManifestsAssumption, FactoryAssumption DEF App
  <1>2. r \in DOMAIN App(m) /\ r # <<>> /\ r \notin DOMAIN Factory /\ r \in Seq(Names)
    BY <1>1, Closed DEF GraftPoints
  <1>3. q \notin DOMAIN Factory
    BY <1>1, <1>2, Closed
  <1>4. ASSUME NEW n \in DOMAIN Manifests, ~Clash(App(n), App(m)), Separate(n, m),
               q \in DOMAIN App(n)
        PROVE  FALSE
    <2>1. IsTree(App(n)) /\ DOMAIN App(n) \cap DOMAIN App(m) \subseteq DOMAIN Factory
      BY <1>4, ManifestsAssumption DEF Separate, App
    <2>2. r \in DOMAIN App(n)
      BY <1>2, <1>4, <2>1, Closed
    <2> QED BY <1>2, <2>1, <2>2
  <1>5. ASSUME NEW d \in UnitRows, IsPrefix(d, q)
        PROVE  FALSE
    <2>1. /\ d \in Seq(Names) /\ d # <<>> /\ Tabled(Front(d))
          /\ Front(d) \in DOMAIN Factory /\ Front(d) \in Seq(Names)
      BY RowIs, Templates, FrontPath
    <2>2. IsPrefix(r, d) \/ IsPrefix(d, r)
      <3>1. /\ Len(r) <= Len(q) /\ \A i \in 1 .. Len(r) : r[i] = q[i]
            /\ Len(d) <= Len(q) /\ \A i \in 1 .. Len(d) : d[i] = q[i]
            /\ Len(r) \in Nat /\ Len(d) \in Nat
        BY <1>2, <1>5, <2>1, PrefixIff
      <3>2. CASE Len(r) <= Len(d)
        <4>1. \A i \in 1 .. Len(r) : r[i] = d[i]
          BY <3>1, <3>2
        <4> QED BY <1>2, <2>1, <3>2, <4>1, PrefixIff
      <3>3. CASE Len(d) <= Len(r)
        <4>1. \A i \in 1 .. Len(d) : d[i] = r[i]
          BY <3>1, <3>3
        <4> QED BY <1>2, <2>1, <3>3, <4>1, PrefixIff
      <3> QED BY <3>1, <3>2, <3>3
    <2>3. ~IsPrefix(d, r)
      BY <1>2, RowsApart
    <2>4. IsPrefix(r, d) /\ r # d
      BY <1>2, <2>1, <2>2, <2>3, PrefixIff
    <2>5. IsPrefix(r, Front(d))
      BY <1>2, <2>1, <2>4, PrefixFront
    <2> QED BY <1>1, <1>2, <2>1, <2>5, Closed
  <1> QED BY <1>3, <1>4, <1>5


\* unmount takes the app out, and nothing else.
LEMMA UnmountOK ==
    ASSUME NEW t, NEW ms, NEW m \in DOMAIN Manifests, NEW units,
           Shape(t, ms \cup {m}, units), Fits(ms, m), Apart(ms, m),
           NEW u, u = unmount(t, GraftPoints(Factory, App(m)))
    PROVE  Shape(u, ms, units) /\ KeepsRaw(t, u, UnitRows)
  <1>1. /\ ms \subseteq DOMAIN Manifests /\ units \subseteq UnitRows /\ ~Clash(Factory, App(m))
        /\ OwnRows(m) /\ \A n \in ms : ~Clash(App(n), App(m)) /\ Separate(n, m)
    BY ShapeUnits DEF Fits, Apart
  <1>2. {r \in GraftPoints(Factory, App(m)) : Unmount(t, r).err = ""}
          = GraftPoints(Factory, App(m))
    <2>1. \A r \in GraftPoints(Factory, App(m)) : Unmount(t, r).err = ""
      BY <1>1, RootsGo
    <2> QED BY <2>1
  <1>3. PICK R : R = GraftPoints(Factory, App(m))
    OBVIOUS
  <1>4. u = [q \in {p \in DOMAIN t : \A r \in R : ~IsPrefix(r, p)} |-> t[q]]
    BY <1>2, <1>3 DEF unmount
  <1>5. /\ DOMAIN u = {p \in DOMAIN t : \A r \in R : ~IsPrefix(r, p)}
        /\ \A q \in DOMAIN u : u[q] = t[q]
    BY <1>4
  <1>6. \A q \in DOMAIN t : q \in Seq(Names)
    BY ShapePaths
  <1>7. \A q \in DOMAIN t, r \in R : IsPrefix(r, q) =>
           /\ q \notin DOMAIN Factory
           /\ \A n \in DOMAIN Manifests :
                ~Clash(App(n), App(m)) /\ Separate(n, m) => q \notin DOMAIN App(n)
           /\ \A d \in UnitRows : ~IsPrefix(d, q)
    BY <1>3, <1>6, RootsApart
  <1>8. \A q \in DOMAIN Factory : q \in DOMAIN u
    BY <1>5, <1>7, ShapePaths
  <1>9. ASSUME NEW n \in ms, NEW q \in DOMAIN App(n)
        PROVE  q \in DOMAIN u
    <2>1. q \in DOMAIN t
      BY ShapePaths
    <2> QED BY <1>1, <1>5, <1>7, <2>1
  <1>10. ASSUME NEW d \in UnitRows, NEW q \in DOMAIN t, IsPrefix(d, q)
         PROVE  q \in DOMAIN u
    BY <1>5, <1>7, <1>10
  <1>11. ASSUME NEW d \in units, NEW r \in DOMAIN Unit(Front(d))
         PROVE  d \o r \in DOMAIN u /\ Like(u[d \o r], Unit(Front(d))[r])
    <2>1. d \o r \in DOMAIN t /\ Like(t[d \o r], Unit(Front(d))[r])
      BY ShapePaths
    <2>2. d \in UnitRows /\ IsPrefix(d, d \o r)
      BY <1>1, InRow
    <2> QED BY <1>5, <1>10, <2>1, <2>2
  <1>12. ASSUME NEW q \in DOMAIN u
         PROVE  \/ q \in DOMAIN Factory
                \/ \E n \in ms : q \in DOMAIN App(n)
                \/ \E d \in units : \E r \in DOMAIN Unit(Front(d)) : q = d \o r
    <2>1. q \in DOMAIN t
      BY <1>5
    <2>2. \/ q \in DOMAIN Factory
          \/ \E n \in ms \cup {m} : q \in DOMAIN App(n)
          \/ \E d \in units : \E r \in DOMAIN Unit(Front(d)) : q = d \o r
      BY <2>1, ShapeOrigin
    <2>3. q \in DOMAIN App(m) => q \in DOMAIN Factory
      BY <1>3, <1>5, GraftedBelow
    <2> QED BY <2>2, <2>3
  <1>13. DOMAIN u = (DOMAIN Factory \cup UNION {DOMAIN App(n) : n \in ms})
                      \cup UNION {Below(d) : d \in units}
    <2>1. ASSUME NEW d \in units
          PROVE  Below(d) \subseteq DOMAIN u
      BY <1>11 DEF Below
    <2>2. ASSUME NEW q \in DOMAIN u
          PROVE  \/ q \in DOMAIN Factory
                 \/ \E n \in ms : q \in DOMAIN App(n)
                 \/ \E d \in units : q \in Below(d)
      BY <1>12 DEF Below
    <2> QED BY <1>8, <1>9, <2>1, <2>2
  <1>14. Shape(u, ms, units)
    <2>1. \A q \in DOMAIN Factory : Like(u[q], Factory[q])
      BY <1>5, <1>8 DEF Shape
    <2>2. \A n \in ms : \A q \in DOMAIN App(n) \ DOMAIN Factory : Like(u[q], App(n)[q])
      BY <1>5, <1>9 DEF Shape
    <2> QED BY <1>1, <1>11, <1>13, <2>1, <2>2 DEF Shape
  <1>15. KeepsRaw(t, u, UnitRows)
    BY <1>5, <1>10, CutKeeps
  <1> QED BY <1>14, <1>15

-----------------------------------------------------------------------------
(* Units start and stop *)

\* The tree once a unit is stopped and its execution unit gone.
Stopped(t, g, unit) == DeleteObject(stop(t, g, unit).tree, unit.eu).tree

LEMMA StopOK ==
    ASSUME NEW t, NEW ms, NEW units, NEW m \in DOMAIN Manifests,
           Shape(t, ms \cup {m}, units), Fits(ms, m), Apart(ms, m), NEW eu \in units,
           NEW g, NEW unit, unit.manifest = m, unit.eu = eu,
           unit.roots = GraftPoints(Factory, App(m))
    PROVE  /\ Shape(Stopped(t, g, unit), ms, units \ {eu})
           /\ KeepsRaw(t, Stopped(t, g, unit), UnitRows \ {eu})
  <1>1. PICK s, u : s = stop(t, g, unit) /\ u = DeleteObject(s.tree, eu).tree
    OBVIOUS
  <1>2. PICK v, w : v = unmount(t, GraftPoints(Factory, App(m)))
                    /\ w = setLeaves(v, eu, [Status |-> "Idle", References |-> {}])
    OBVIOUS
  <1>3. s.tree = w
    BY <1>1, <1>2 DEF stop
  <1>4. Shape(v, ms, units) /\ KeepsRaw(t, v, UnitRows)
    BY <1>2, UnmountOK
  <1>5. KeepsRaw(t, v, UnitRows \ {eu})
    BY <1>4 DEF KeepsRaw
  <1>6. Same(v, w) /\ KeepsRaw(v, w, UnitRows \ {eu})
    <2>1. Plain(v)
      BY <1>4, ShapePlain
    <2> QED BY <1>2, <2>1, SetLeavesSame, SetLeavesKeeps
  <1>7. Shape(w, ms, units)
    BY <1>4, <1>6, SameShape
  <1>8. Shape(u, ms, units \ {eu}) /\ KeepsRaw(w, u, UnitRows \ {eu})
    BY <1>1, <1>3, <1>7, DeleteRowOK
  <1>9. KeepsRaw(t, u, UnitRows \ {eu})
    BY <1>5, <1>6, <1>8, KeepsTrans
  <1>10. u = Stopped(t, g, unit)
    BY <1>1 DEF Stopped
  <1> QED BY <1>8, <1>9, <1>10

LEMMA StopGens ==
    ASSUME NEW t, NEW g, NEW unit
    PROVE  stop(t, g, unit).gens = g \ Manifests[unit.manifest].gens
  BY DEF stop

\* start fails exactly on an app that does not fit, and then changes nothing.
Unstarted(t, g, s) == s.fault # "" /\ s.tree = t /\ s.gens = g

LEMMA StartFails ==
    ASSUME NEW t, NEW ms, NEW units, Shape(t, ms, units), AllFit(ms),
           NEW m \in DOMAIN Manifests, ~Fits(ms, m), Apart(ms, m), NEW g, NEW ee,
           NEW s \in {start(t, g, m, ee)}
    PROVE  Unstarted(t, g, s)
  <1>1. GraftConflict(t, App(m))
    BY ConflictIff
  <1>2. PICK o : o = Graft(t, App(m))
    OBVIOUS
  <1>3. o.err # ""
    BY <1>1, <1>2 DEF Graft, Failed
  <1>4. s = NotStarted(t, g, "ee-mismatch")
    BY <1>2, <1>3 DEF start, App
  <1> QED BY <1>4 DEF NotStarted, Unstarted

\* s is what starting app m did to a tree with the apps ms and the rows units.
Started(t, ms, units, g, m, s) ==
    /\ s.fault = "" /\ s.gens = g \cup Manifests[m].gens
    /\ s.roots = GraftPoints(Factory, App(m))
    /\ s.eu \in EURows /\ s.eu \notin units
    /\ Shape(s.tree, ms \cup {m}, units \cup {s.eu})
    /\ Raw(s.tree, s.eu, "Status") = "Active"
    /\ Raw(s.tree, s.eu, "Name") = Manifests[m].name
    /\ KeepsRaw(t, s.tree, UnitRows \ {s.eu})

\* An app that fits starts, where there is room for its unit.
LEMMA StartOK ==
    ASSUME NEW t, NEW ms, NEW units, Shape(t, ms, units), AllFit(ms),
           NEW m \in DOMAIN Manifests, Fits(ms, m), Apart(ms, m),
           HasRoom(t, ExecutionUnitTable), NEW g, NEW ee, NEW s \in {start(t, g, m, ee)}
    PROVE  Started(t, ms, units, g, m, s)
  <1>1. Tabled(ExecutionUnitTable) /\ RequiredOf(ExecutionUnitTable) = requiredEULeaves
    BY TablePaths DEF Tabled, RequiredOf
  <1>2. PICK o : o = Graft(t, App(m))
    OBVIOUS
  <1>3. PICK v : v = o.tree
    OBVIOUS
  <1>4. /\ o.err = "" /\ Shape(v, ms \cup {m}, units) /\ KeepsRaw(t, v, UnitRows)
        /\ GraftPoints(t, App(m)) = GraftPoints(Factory, App(m))
    BY <1>2, <1>3, GraftOK
  <1>5. HasRoom(v, ExecutionUnitTable)
    <2>1. \E d \in UnitRows \ units : Front(d) = ExecutionUnitTable
      BY <1>1, RoomIff
    <2> QED BY <1>1, <1>4, <2>1, RoomIff
  <1>6. PICK a : a = addRow(v, ExecutionUnitTable, requiredEULeaves)
    OBVIOUS
  <1>7. PICK row, w : row = a.row /\ w = a.tree
    OBVIOUS
  <1>8. a.fault = "" /\ Grown(v, row, w) /\ Front(row) = ExecutionUnitTable
    BY <1>1, <1>4, <1>5, <1>6, <1>7, AddRowOK
  <1>9. /\ Shape(w, ms \cup {m}, units \cup {row}) /\ row \notin units
        /\ row \in UnitRows /\ KeepsRaw(v, w, UnitRows \ {row})
    BY <1>4, <1>8, GrownShape DEF Grown
  <1>10. row \in EURows
    BY <1>8, <1>9, RowIs
  <1>11. PICK values : values = [Name |-> Manifests[m].name, Version |-> Manifests[m].version,
                    References |-> GraftPoints(t, App(m)), ExecutionEnvRef |-> ee,
                    Status |-> "Active"]
    OBVIOUS
  <1>12. /\ DOMAIN values = {"Name", "Version", "References", "ExecutionEnvRef", "Status"}
         /\ values["Name"] = Manifests[m].name /\ values["Status"] = "Active"
    BY <1>11
  <1>13. PICK x : x = setLeaves(w, row, values)
    OBVIOUS
  <1>14. s = StartUnit(a, GraftPoints(t, App(m)), g, m, ee)
    BY <1>2, <1>3, <1>4, <1>6 DEF start, App
  <1>15. /\ s.tree = x /\ s.gens = g \cup Manifests[m].gens /\ s.eu = row
         /\ s.roots = GraftPoints(t, App(m)) /\ s.fault = ""
    <2>1. PICK y : y = setLeaves(a.tree, a.row,
                         [Name |-> Manifests[m].name, Version |-> Manifests[m].version,
                          References |-> GraftPoints(t, App(m)), ExecutionEnvRef |-> ee,
                          Status |-> "Active"])
      OBVIOUS
    <2>2. s = [tree |-> y, gens |-> g \cup Manifests[m].gens,
               roots |-> GraftPoints(t, App(m)), eu |-> a.row, fault |-> ""]
      BY <1>8, <1>14, <2>1 DEF StartUnit
    <2>3. y = x
      BY <1>7, <1>11, <1>13, <2>1, Zenon
    <2>4. /\ s.tree = y /\ s.gens = g \cup Manifests[m].gens /\ s.eu = a.row
          /\ s.roots = GraftPoints(t, App(m)) /\ s.fault = ""
      BY <2>2
    <2> QED BY <1>7, <2>3, <2>4, Zenon
  <1>16. Plain(w)
    BY <1>9, ShapePlain
  <1>17. Same(w, x) /\ KeepsRaw(w, x, UnitRows \ {row})
    BY <1>13, <1>16, SetLeavesSame, SetLeavesKeeps
  <1>18. Shape(x, ms \cup {m}, units \cup {row})
    BY <1>9, <1>17, SameShape
  <1>19. ASSUME NEW name \in {"Name", "Status"}
         PROVE  Raw(x, row, name) = values[name]
    <2>1. name \in RequiredOf(Front(row))
      BY <1>1, <1>8 DEF requiredEULeaves
    <2>2. /\ isLeaf(w, leaf(row, name)) /\ w[leaf(row, name)].type = "string"
          /\ name \in Names
      BY <1>9, <2>1, ShapeLeaves
    <2>3. row \in Seq(Names)
      BY <1>9, RowIs
    <2> QED BY <1>12, <1>13, <1>16, <2>2, <2>3, SetLeavesRaw
  <1>20. KeepsRaw(t, x, UnitRows \ {row})
    <2>1. KeepsRaw(t, v, UnitRows \ {row})
      BY <1>4 DEF KeepsRaw
    <2> QED BY <1>9, <1>17, <2>1, KeepsTrans
  <1> QED BY <1>4, <1>9, <1>10, <1>12, <1>15, <1>18, <1>19, <1>20 DEF Started


-----------------------------------------------------------------------------
(* What the manager has on record *)

Apps(inst, S) == {inst[d].manifest : d \in S}
EUs(inst, S) == {inst[d].eu : d \in S}
Gens(inst, S) == UNION {Manifests[inst[d].manifest].gens : d \in S}

RecordOK(r) ==
    /\ r.manifest \in DOMAIN Manifests /\ r.url \in DOMAIN Serves /\ r.eu \in EURows
    /\ r.roots = GraftPoints(Factory, App(r.manifest))
    /\ ~Clash(Factory, App(r.manifest)) /\ OwnRows(r.manifest)

\* The records fit together.
Records(inst) ==
    /\ DOMAIN inst \subseteq DURows
    /\ \A d \in DOMAIN inst : RecordOK(inst[d])
    /\ \A d, e \in DOMAIN inst : d # e =>
          /\ inst[d].eu # inst[e].eu
          /\ ~Clash(App(inst[d].manifest), App(inst[e].manifest))
          /\ Separate(inst[d].manifest, inst[e].manifest)

\* No two rows of S have the same UUID.
Named(t, S) == \A d, e \in S : d # e => Raw(t, d, "UUID") # Raw(t, e, "UUID")

UnitOK(t, d, r) ==
    /\ Raw(t, d, "Status") = "Installed"
    /\ Raw(t, d, "Version") = Manifests[r.manifest].version
    /\ Raw(t, r.eu, "Status") = "Active"
    /\ Raw(t, r.eu, "Name") = Manifests[r.manifest].name

\* The units of S run, and the deployment units of the tree are those of dus.
Runs(t, inst, g, S, dus) ==
    /\ Shape(t, Apps(inst, S), dus \cup EUs(inst, S))
    /\ \A d \in S : UnitOK(t, d, inst[d])
    /\ g = Gens(inst, S)

LEMMA RowsDiffer == DURows \cap EURows = {} /\ DURows \subseteq UnitRows /\ EURows \subseteq UnitRows
  <1>1. DURows \subseteq UnitRows /\ EURows \subseteq UnitRows
    BY DEF UnitRows
  <1>2. ASSUME NEW d \in DURows, d \in EURows
        PROVE  FALSE
    BY <1>1, <1>2, RowIs, TablePaths
  <1> QED BY <1>1, <1>2

LEMMA ClashSymmetric ==
    ASSUME NEW a, NEW b
    PROVE  Clash(a, b) <=> Clash(b, a)
  BY DEF Clash

LEMMA SeparateSymmetric ==
    ASSUME NEW n, NEW m
    PROVE  Separate(n, m) <=> Separate(m, n)
  BY ClashSymmetric DEF Separate

LEMMA RecordsFit ==
    ASSUME NEW inst, Records(inst), NEW S, S \subseteq DOMAIN inst
    PROVE  /\ AllFit(Apps(inst, S)) /\ Apps(inst, S) \subseteq DOMAIN Manifests
           /\ S \subseteq DURows /\ EUs(inst, S) \subseteq EURows
           /\ \A d \in DOMAIN inst \ S : /\ Fits(Apps(inst, S), inst[d].manifest)
                                         /\ Apart(Apps(inst, S), inst[d].manifest)
                                         /\ inst[d].eu \notin EUs(inst, S)
  <1>1. \A d \in S : RecordOK(inst[d])
    BY DEF Records
  <1>2. AllFit(Apps(inst, S)) /\ Apps(inst, S) \subseteq DOMAIN Manifests
    BY <1>1 DEF AllFit, Apps, RecordOK
  <1>3. S \subseteq DURows /\ EUs(inst, S) \subseteq EURows
    BY <1>1 DEF EUs, RecordOK, Records
  <1>4. ASSUME NEW d \in DOMAIN inst \ S
        PROVE  /\ Fits(Apps(inst, S), inst[d].manifest)
               /\ Apart(Apps(inst, S), inst[d].manifest) /\ inst[d].eu \notin EUs(inst, S)
    <2>1. RecordOK(inst[d])
      BY DEF Records
    <2>2. \A e \in S : /\ inst[d].eu # inst[e].eu
                       /\ ~Clash(App(inst[e].manifest), App(inst[d].manifest))
                       /\ Separate(inst[e].manifest, inst[d].manifest)
      BY DEF Records
    <2> QED BY <2>1, <2>2 DEF Fits, Apart, Apps, EUs, RecordOK
  <1> QED BY <1>2, <1>3, <1>4

\* The units still run where the tree keeps its shape and what their rows say.
LEMMA RunsKeeps ==
    ASSUME NEW t, NEW inst, NEW g, NEW S, NEW dus, Runs(t, inst, g, S, dus),
           NEW u, NEW dus2, Shape(u, Apps(inst, S), dus2 \cup EUs(inst, S)),
           KeepsRaw(t, u, S \cup EUs(inst, S))
    PROVE  Runs(u, inst, g, S, dus2)
  <1>1. ASSUME NEW d \in S
        PROVE  UnitOK(u, d, inst[d])
    <2>1. UnitOK(t, d, inst[d])
      BY DEF Runs
    <2>2. d \in S \cup EUs(inst, S) /\ inst[d].eu \in S \cup EUs(inst, S)
      BY DEF EUs
    <2>3. "Status" \in Tracked /\ "Version" \in Tracked /\ "Name" \in Tracked
      BY DEF Tracked
    <2> QED BY <2>1, <2>2, <2>3 DEF UnitOK, KeepsRaw
  <1> QED BY <1>1 DEF Runs

LEMMA RunsAgree ==
    ASSUME NEW t, NEW inst, NEW g, NEW S, NEW dus, Runs(t, inst, g, S, dus),
           NEW inst2, \A d \in S : inst2[d] = inst[d]
    PROVE  Runs(t, inst2, g, S, dus)
  <1>1. Apps(inst2, S) = Apps(inst, S) /\ EUs(inst2, S) = EUs(inst, S)
        /\ Gens(inst2, S) = Gens(inst, S)
    BY DEF Apps, EUs, Gens
  <1> QED BY <1>1 DEF Runs

SameUuids(t, u, S) == \A d \in S : Raw(u, d, "UUID") = Raw(t, d, "UUID")

LEMMA NamedKeeps ==
    ASSUME NEW t, NEW u, NEW S, Named(t, S), SameUuids(t, u, S)
    PROVE  Named(u, S)
  BY DEF Named, SameUuids

LEMMA KeepsUuids ==
    ASSUME NEW t, NEW u, NEW rows, KeepsRaw(t, u, rows), NEW S, S \subseteq rows
    PROVE  SameUuids(t, u, S) /\ KeepsRaw(t, u, S)
  BY DEF KeepsRaw, SameUuids, Tracked


-----------------------------------------------------------------------------
(* What the steps of an operation do *)

\* A write to the row of a deployment unit.
LEMMA WriteUnit ==
    ASSUME NEW t, NEW ms, NEW units, Shape(t, ms, units), NEW d \in units, d \in DURows,
           NEW values, NEW u, u = setLeaves(t, d, values)
    PROVE  /\ Shape(u, ms, units) /\ KeepsRaw(t, u, UnitRows \ {d})
           /\ \A name \in Tracked :
                 Raw(u, d, name) = IF name \in DOMAIN values THEN values[name]
                                   ELSE Raw(t, d, name)
  <1>1. Plain(t)
    BY ShapePlain
  <1>2. Same(t, u) /\ KeepsRaw(t, u, UnitRows \ {d})
    BY <1>1, SetLeavesSame, SetLeavesKeeps
  <1>3. Shape(u, ms, units)
    BY <1>2, SameShape
  <1>4. d \in UnitRows /\ d \in Seq(Names) /\ Front(d) = DeploymentUnitTable
    BY RowsDiffer, RowIs
  <1>5. ASSUME NEW name \in Tracked
        PROVE  Raw(u, d, name) = IF name \in DOMAIN values THEN values[name]
                                 ELSE Raw(t, d, name)
    <2>1. name \in RequiredOf(Front(d))
      BY <1>4 DEF RequiredOf, requiredDULeaves, Tracked
    <2>2. /\ isLeaf(t, leaf(d, name)) /\ t[leaf(d, name)].type = "string"
          /\ name \in Names
      BY <2>1, ShapeLeaves
    <2> QED BY <1>1, <1>4, <2>2, SetLeavesRaw
  <1> QED BY <1>2, <1>3, <1>5

\* A write of leaves that no property reads.
LEMMA WriteAside ==
    ASSUME NEW t, NEW ms, NEW units, Shape(t, ms, units), NEW row, NEW values,
           DOMAIN values \cap Tracked = {}, NEW u, u = setLeaves(t, row, values)
    PROVE  Shape(u, ms, units) /\ KeepsRaw(t, u, UnitRows)
  <1>1. Plain(t)
    BY ShapePlain
  <1>2. Same(t, u) /\ KeepsRaw(t, u, UnitRows)
    BY <1>1, SetLeavesSame, SetLeavesKeeps
  <1> QED BY <1>2, SameShape

LEMMA SyncActive ==
    ASSUME NEW t, NEW ms, NEW units, Shape(t, ms, units), NEW inst, NEW ee,
           NEW u, u = syncActiveUnits(t, inst, ee)
    PROVE  Shape(u, ms, units) /\ KeepsRaw(t, u, UnitRows)
  <1>1. PICK values : values = [ActiveExecutionUnits |->
           {inst[d].eu : d \in {e \in DOMAIN inst :
              inst[e].ee = ee /\ Raw(t, inst[e].eu, "Status") = "Active"}}]
    OBVIOUS
  <1>2. DOMAIN values \cap Tracked = {}
    BY <1>1 DEF Tracked
  <1>3. u = setLeaves(t, ee, values)
    BY <1>1 DEF syncActiveUnits
  <1> QED BY <1>2, <1>3, WriteAside

\* The row of a unit that does not run goes.
LEMMA RowGoes ==
    ASSUME NEW inst, Records(inst), NEW S, S \subseteq DOMAIN inst, NEW du \in DURows \ S,
           NEW t, NEW g, Runs(t, inst, g, S, S \cup {du}),
           NEW u, u = DeleteObject(t, du).tree
    PROVE  Runs(u, inst, g, S, S) /\ SameUuids(t, u, S)
  <1>1. /\ S \subseteq UnitRows \ {du} /\ EUs(inst, S) \subseteq UnitRows \ {du}
    BY RecordsFit, RowsDiffer
  <1>2. PICK units : units = (S \cup {du}) \cup EUs(inst, S)
    OBVIOUS
  <1>3. Shape(t, Apps(inst, S), units) /\ du \in units
    BY <1>2 DEF Runs
  <1>4. Shape(u, Apps(inst, S), units \ {du}) /\ KeepsRaw(t, u, UnitRows \ {du})
    BY <1>3, DeleteRowOK
  <1>5. units \ {du} = S \cup EUs(inst, S)
    BY <1>1, <1>2
  <1>6. KeepsRaw(t, u, S \cup EUs(inst, S)) /\ SameUuids(t, u, S)
    BY <1>1, <1>4, KeepsUuids
  <1>7. Shape(u, Apps(inst, S), S \cup EUs(inst, S))
    BY <1>4, <1>5
  <1>8. Runs(u, inst, g, S, S)
    BY <1>6, <1>7, RunsKeeps
  <1> QED BY <1>6, <1>8

\* There is a row to be had for a deployment unit.
LEMMA DURowAdded ==
    ASSUME NEW t, NEW inst, NEW g, NEW S, Runs(t, inst, g, S, S),
           HasRoom(t, DeploymentUnitTable),
           NEW a, a = addRow(t, DeploymentUnitTable, requiredDULeaves)
    PROVE  a.fault = "" /\ Grown(t, a.row, a.tree) /\ Front(a.row) = DeploymentUnitTable
  <1>1. Tabled(DeploymentUnitTable) /\ RequiredOf(DeploymentUnitTable) = requiredDULeaves
    BY DEF Tabled, RequiredOf
  <1>2. Shape(t, Apps(inst, S), S \cup EUs(inst, S))
    BY DEF Runs
  <1> QED BY <1>1, <1>2, AddRowOK

\* A row for a new unit.
LEMMA RowComes ==
    ASSUME NEW inst, Records(inst), NEW S, S = DOMAIN inst,
           NEW t, NEW g, Runs(t, inst, g, S, S),
           HasRoom(t, ExecutionUnitTable),
           NEW row, NEW v, Grown(t, row, v), Front(row) = DeploymentUnitTable,
           NEW values, NEW u, u = setLeaves(v, row, values)
    PROVE  /\ row \in DURows \ S
           /\ Runs(u, inst, g, S, S \cup {row}) /\ SameUuids(t, u, S)
           /\ HasRoom(u, ExecutionUnitTable)
  <1>1. Tabled(ExecutionUnitTable)
    BY DEF Tabled
  <1>2. PICK units : units = S \cup EUs(inst, S)
    OBVIOUS
  <1>3. Shape(t, Apps(inst, S), units)
    BY <1>2 DEF Runs
  <1>6. /\ Shape(v, Apps(inst, S), units \cup {row}) /\ row \notin units
        /\ row \in UnitRows /\ KeepsRaw(t, v, UnitRows \ {row})
    BY <1>3, GrownShape DEF Grown
  <1>7. row \in DURows
    BY <1>6, RowIs
  <1>9. Shape(u, Apps(inst, S), units \cup {row}) /\ KeepsRaw(v, u, UnitRows \ {row})
    BY <1>6, <1>7, WriteUnit
  <1>10. KeepsRaw(t, u, UnitRows \ {row})
    BY <1>6, <1>9, KeepsTrans
  <1>11. S \cup EUs(inst, S) \subseteq UnitRows \ {row}
    BY <1>2, <1>6, RecordsFit, RowsDiffer
  <1>12. KeepsRaw(t, u, S \cup EUs(inst, S)) /\ SameUuids(t, u, S)
    BY <1>10, <1>11, KeepsUuids
  <1>13. units \cup {row} = (S \cup {row}) \cup EUs(inst, S)
    BY <1>2
  <1>14. Shape(u, Apps(inst, S), (S \cup {row}) \cup EUs(inst, S))
    BY <1>9, <1>13
  <1>15. Runs(u, inst, g, S, S \cup {row})
    BY <1>12, <1>14, RunsKeeps
  <1>16. HasRoom(u, ExecutionUnitTable)
    <2>1. PICK d \in UnitRows \ units : Front(d) = ExecutionUnitTable
      BY <1>1, <1>3, RoomIff
    <2>2. d # row
      BY <2>1, TablePaths
    <2>3. \E e \in UnitRows \ (units \cup {row}) : Front(e) = ExecutionUnitTable
      BY <2>1, <2>2
    <2> QED BY <1>1, <1>9, <2>3, RoomIff
  <1>17. row \notin S
    BY <1>2, <1>6
  <1> QED BY <1>7, <1>12, <1>15, <1>16, <1>17


\* Apps that run together have no generator in common.
LEMMA GensApart ==
    ASSUME NEW inst, Records(inst), NEW d \in DOMAIN inst, NEW e \in DOMAIN inst, d # e
    PROVE  Manifests[inst[d].manifest].gens \cap Manifests[inst[e].manifest].gens = {}
  <1>1. /\ inst[d].manifest \in DOMAIN Manifests /\ inst[e].manifest \in DOMAIN Manifests
        /\ ~Clash(App(inst[d].manifest), App(inst[e].manifest))
    BY DEF Records, RecordOK
  <1>2. ASSUME NEW x \in Manifests[inst[d].manifest].gens,
               x \in Manifests[inst[e].manifest].gens
        PROVE  FALSE
    <2>1. isLeaf(App(inst[d].manifest), x) /\ isLeaf(App(inst[e].manifest), x)
      BY <1>1, <1>2, ManifestsAssumption DEF App
    <2> QED BY <1>1, <2>1 DEF Clash, isLeaf
  <1> QED BY <1>2

\* A unit that runs is marked and stopped, and its execution unit goes.
LEMMA UnitLeaves ==
    ASSUME NEW inst, Records(inst), NEW S, S = DOMAIN inst, NEW du \in S,
           NEW t, NEW g, Runs(t, inst, g, S, S), NEW values, "UUID" \notin DOMAIN values,
           NEW v, v = setLeaves(t, du, values),
           NEW u, u = Stopped(v, g, inst[du]),
           NEW h, h = stop(v, g, inst[du]).gens
    PROVE  /\ Runs(u, inst, h, S \ {du}, S) /\ SameUuids(t, u, S)
           /\ HasRoom(u, ExecutionUnitTable)
  <1>1. PICK T, unit, units : T = S \ {du} /\ unit = inst[du] /\ units = S \cup EUs(inst, S)
    OBVIOUS
  <1>2. /\ unit.manifest \in DOMAIN Manifests /\ unit.eu \in EURows /\ unit.eu \in units
        /\ unit.roots = GraftPoints(Factory, App(unit.manifest))
    BY <1>1 DEF Records, RecordOK, EUs
  <1>3. /\ Fits(Apps(inst, T), unit.manifest) /\ Apart(Apps(inst, T), unit.manifest)
        /\ unit.eu \notin EUs(inst, T)
        /\ EUs(inst, T) \subseteq EURows /\ S \subseteq DURows
    BY <1>1, RecordsFit
  <1>4. Apps(inst, S) = Apps(inst, T) \cup {unit.manifest}
        /\ EUs(inst, S) = EUs(inst, T) \cup {unit.eu}
    BY <1>1 DEF Apps, EUs
  <1>5. Shape(t, Apps(inst, T) \cup {unit.manifest}, units)
    BY <1>1, <1>4 DEF Runs
  <1>6. du \in units /\ du \in DURows
    BY <1>1, <1>3
  <1>7. /\ Shape(v, Apps(inst, T) \cup {unit.manifest}, units)
        /\ KeepsRaw(t, v, UnitRows \ {du})
        /\ \A name \in Tracked : name \notin DOMAIN values =>
              Raw(v, du, name) = Raw(t, du, name)
    BY <1>5, <1>6, WriteUnit
  <1>8. u = Stopped(v, g, unit) /\ h = stop(v, g, unit).gens
    BY <1>1
  <1>9. /\ Shape(u, Apps(inst, T), units \ {unit.eu}) /\ KeepsRaw(v, u, UnitRows \ {unit.eu})
        /\ h = g \ Manifests[unit.manifest].gens
    <2>1. PICK ms, m, eu : ms = Apps(inst, T) /\ m = unit.manifest /\ eu = unit.eu
      OBVIOUS
    <2>2. Shape(v, ms \cup {m}, units) /\ Fits(ms, m) /\ Apart(ms, m)
      BY <1>3, <1>7, <2>1, Zenon
    <2>3. /\ m \in DOMAIN Manifests /\ eu \in units
          /\ unit.roots = GraftPoints(Factory, App(m))
      BY <1>2, <2>1, Zenon
    <2>4. /\ Shape(Stopped(v, g, unit), ms, units \ {eu})
          /\ KeepsRaw(v, Stopped(v, g, unit), UnitRows \ {eu})
      BY <2>1, <2>2, <2>3, StopOK
    <2>5. h = g \ Manifests[unit.manifest].gens
      BY <1>8, StopGens
    <2> QED BY <1>8, <2>1, <2>4, <2>5, Zenon
  <1>10. units \ {unit.eu} = S \cup EUs(inst, T)
    <2>1. PICK e, F : e = unit.eu /\ F = EUs(inst, T)
      OBVIOUS
    <2>2. units = S \cup (F \cup {e})
      BY <1>1, <1>4, <2>1
    <2>3. e \notin F /\ e \notin S
      BY <1>2, <1>3, <2>1, RowsDiffer
    <2>4. units \ {e} = S \cup F
      BY <2>2, <2>3
    <2> QED BY <2>1, <2>4
  <1>11. KeepsRaw(t, u, T \cup EUs(inst, T))
    <2>1. T \cup EUs(inst, T) \subseteq UnitRows \ {du}
      BY <1>1, <1>3, <1>6, RowsDiffer
    <2>2. T \cup EUs(inst, T) \subseteq UnitRows \ {unit.eu}
      BY <1>1, <1>2, <1>3, RowsDiffer
    <2>3. KeepsRaw(t, v, T \cup EUs(inst, T)) /\ KeepsRaw(v, u, T \cup EUs(inst, T))
      BY <1>7, <1>9, <2>1, <2>2, KeepsUuids
    <2> QED BY <2>3, KeepsTrans
  <1>12. SameUuids(t, u, S)
    <2>1. ASSUME NEW d \in S
          PROVE  Raw(u, d, "UUID") = Raw(t, d, "UUID")
      <3>1. d \in UnitRows \ {unit.eu} /\ "UUID" \in Tracked
        BY <1>2, <1>3, RowsDiffer DEF Tracked
      <3>2. Raw(u, d, "UUID") = Raw(v, d, "UUID")
        BY <1>9, <3>1 DEF KeepsRaw
      <3>3. Raw(v, d, "UUID") = Raw(t, d, "UUID")
        BY <1>7, <3>1 DEF KeepsRaw
      <3> QED BY <3>2, <3>3
    <2> QED BY <2>1 DEF SameUuids
  <1>13. h = Gens(inst, T)
    <2>1. g = Gens(inst, S)
      BY DEF Runs
    <2>2. \A d \in T : Manifests[inst[d].manifest].gens \cap Manifests[unit.manifest].gens = {}
      BY <1>1, GensApart
    <2>3. Gens(inst, S) = Gens(inst, T) \cup Manifests[unit.manifest].gens
      BY <1>1 DEF Gens
    <2>4. Gens(inst, T) \cap Manifests[unit.manifest].gens = {}
      BY <2>2 DEF Gens
    <2> QED BY <1>9, <2>1, <2>3, <2>4
  <1>14. Runs(u, inst, h, T, S)
    <2>2. \A d \in T : UnitOK(u, d, inst[d])
      <3> SUFFICES ASSUME NEW d \in T
                   PROVE  UnitOK(u, d, inst[d])
        OBVIOUS
      <3>1. UnitOK(t, d, inst[d])
        BY <1>1 DEF Runs
      <3>2. d \in T \cup EUs(inst, T) /\ inst[d].eu \in T \cup EUs(inst, T)
        BY DEF EUs
      <3>3. "Status" \in Tracked /\ "Version" \in Tracked /\ "Name" \in Tracked
        BY DEF Tracked
      <3> QED BY <1>11, <3>1, <3>2, <3>3 DEF UnitOK, KeepsRaw
    <2> QED BY <1>9, <1>10, <1>13, <2>2 DEF Runs
  <1>15. HasRoom(u, ExecutionUnitTable)
    <2>1. unit.eu \in UnitRows \ (units \ {unit.eu}) /\ Front(unit.eu) = ExecutionUnitTable
      BY <1>2, RowsDiffer, RowIs
    <2>2. Tabled(ExecutionUnitTable)
      BY DEF Tabled
    <2> QED BY <1>9, <2>1, <2>2, RoomIff
  <1> QED BY <1>1, <1>12, <1>14, <1>15


\* A unit with its row in place starts, and joins the others.
LEMMA UnitJoins ==
    ASSUME NEW inst, Records(inst), NEW S, S \subseteq DOMAIN inst, NEW du \in DURows \ S,
           NEW t, NEW g, Runs(t, inst, g, S, S \cup {du}), HasRoom(t, ExecutionUnitTable),
           NEW m \in DOMAIN Manifests, Joins(Apps(inst, S), m),
           NEW ee, NEW s \in {start(t, g, m, ee)},
           NEW unit, unit.manifest = m, unit.eu = s.eu, unit.roots = s.roots,
           unit.url \in DOMAIN Serves,
           NEW inst2, DOMAIN inst2 = S \cup {du}, \A d \in S : inst2[d] = inst[d],
           inst2[du] = unit,
           NEW values, "Status" \in DOMAIN values, values["Status"] = "Installed",
           "UUID" \notin DOMAIN values,
           IF "Version" \in DOMAIN values THEN values["Version"] = Manifests[m].version
           ELSE Raw(t, du, "Version") = Manifests[m].version,
           NEW w, w = syncActiveUnits(setLeaves(s.tree, du, values), inst2, ee)
    PROVE  /\ Records(inst2) /\ Runs(w, inst2, s.gens, S \cup {du}, S \cup {du})
           /\ SameUuids(t, w, S \cup {du})
  <1>1. PICK units, ms, eu, x, v :
          /\ units = (S \cup {du}) \cup EUs(inst, S) /\ ms = Apps(inst, S)
          /\ eu = s.eu /\ x = s.tree /\ v = setLeaves(x, du, values)
    OBVIOUS
  <1>2. /\ AllFit(ms) /\ S \subseteq DURows /\ EUs(inst, S) \subseteq EURows
        /\ \A d \in S : RecordOK(inst[d])
    BY <1>1, RecordsFit DEF Records
  <1>3. Shape(t, ms, units) /\ Fits(ms, m) /\ Apart(ms, m)
    BY <1>1 DEF Runs, Joins
  <1>4. /\ s.gens = g \cup Manifests[m].gens
        /\ s.roots = GraftPoints(Factory, App(m))
        /\ eu \in EURows /\ eu \notin units
        /\ Shape(x, ms \cup {m}, units \cup {eu})
        /\ Raw(x, eu, "Status") = "Active" /\ Raw(x, eu, "Name") = Manifests[m].name
        /\ KeepsRaw(t, x, UnitRows \ {eu})
    <2>1. Started(t, ms, units, g, m, s)
      BY <1>2, <1>3, StartOK
    <2> QED BY <1>1, <2>1, Zenon DEF Started
  <1>5. du \in units \cup {eu} /\ du # eu
    BY <1>1, <1>4
  <1>6. /\ Shape(v, ms \cup {m}, units \cup {eu}) /\ KeepsRaw(x, v, UnitRows \ {du})
        /\ \A name \in Tracked :
              Raw(v, du, name) = IF name \in DOMAIN values THEN values[name]
                                 ELSE Raw(x, du, name)
    BY <1>1, <1>4, <1>5, WriteUnit
  <1>7. w = syncActiveUnits(v, inst2, ee)
    BY <1>1
  <1>8. Shape(w, ms \cup {m}, units \cup {eu}) /\ KeepsRaw(v, w, UnitRows)
    BY <1>6, <1>7, SyncActive
  <1>9. ASSUME NEW d \in UnitRows \ {du}, d # eu, NEW name \in Tracked
        PROVE  Raw(w, d, name) = Raw(t, d, name)
    BY <1>4, <1>6, <1>8, <1>9 DEF KeepsRaw
  <1>10. \A name \in Tracked :
            Raw(w, du, name) = IF name \in DOMAIN values THEN values[name]
                               ELSE Raw(t, du, name)
    <2>1. du \in UnitRows /\ du \in UnitRows \ {eu}
      BY <1>5, RowsDiffer
    <2> QED BY <1>4, <1>6, <1>8, <2>1 DEF KeepsRaw
  <1>11. \A name \in Tracked : Raw(w, eu, name) = Raw(x, eu, name)
    <2>1. eu \in UnitRows /\ eu \in UnitRows \ {du}
      BY <1>4, <1>5, RowsDiffer
    <2> QED BY <1>6, <1>8, <2>1 DEF KeepsRaw
  <1>12. /\ "UUID" \in Tracked /\ "Status" \in Tracked /\ "Version" \in Tracked
         /\ "Name" \in Tracked
    BY DEF Tracked
  <1>13. SameUuids(t, w, S \cup {du})
    <2>1. ASSUME NEW d \in S
          PROVE  Raw(w, d, "UUID") = Raw(t, d, "UUID")
      <3>1. d \in UnitRows \ {du} /\ d # eu
        BY <1>2, <1>4, RowsDiffer
      <3> QED BY <1>9, <1>12, <3>1
    <2>2. Raw(w, du, "UUID") = Raw(t, du, "UUID")
      BY <1>10, <1>12
    <2> QED BY <2>1, <2>2 DEF SameUuids
  <1>14. Records(inst2)
    <2>1. RecordOK(unit)
      BY <1>1, <1>3, <1>4 DEF RecordOK, Fits, Apart
    <2>2. \A d \in DOMAIN inst2 : RecordOK(inst2[d])
      BY <1>2, <2>1
    <2>3. DOMAIN inst2 \subseteq DURows
      BY <1>2
    <2>4. ASSUME NEW d \in S
          PROVE  /\ inst[d].eu # unit.eu /\ Separate(inst[d].manifest, unit.manifest)
                 /\ ~Clash(App(inst[d].manifest), App(unit.manifest))
      <3>1. inst[d].eu \in units /\ inst[d].manifest \in ms
        BY <1>1 DEF EUs, Apps
      <3> QED BY <1>1, <1>3, <1>4, <3>1 DEF Fits, Apart
    <2>5. ASSUME NEW d \in DOMAIN inst2, NEW e \in DOMAIN inst2, d # e
          PROVE  /\ inst2[d].eu # inst2[e].eu
                 /\ ~Clash(App(inst2[d].manifest), App(inst2[e].manifest))
                 /\ Separate(inst2[d].manifest, inst2[e].manifest)
      <3>1. CASE d \in S /\ e \in S
        BY <2>5, <3>1 DEF Records
      <3>2. CASE d \in S /\ e = du
        BY <2>4, <3>2
      <3>3. CASE d = du /\ e \in S
        BY <2>4, <3>3, ClashSymmetric, SeparateSymmetric
      <3> QED BY <2>5, <3>1, <3>2, <3>3
    <2> QED BY <2>2, <2>3, <2>5 DEF Records
  <1>15. /\ Apps(inst2, S \cup {du}) = ms \cup {m}
         /\ EUs(inst2, S \cup {du}) = EUs(inst, S) \cup {eu}
         /\ Gens(inst2, S \cup {du}) = s.gens
    <2>1. Apps(inst2, S \cup {du}) = ms \cup {m}
      BY <1>1 DEF Apps
    <2>2. EUs(inst2, S \cup {du}) = EUs(inst, S) \cup {eu}
      BY <1>1 DEF EUs
    <2>3. g = Gens(inst, S)
      BY DEF Runs
    <2>4. Gens(inst2, S \cup {du}) = Gens(inst, S) \cup Manifests[m].gens
      BY DEF Gens
    <2> QED BY <1>4, <2>1, <2>2, <2>3, <2>4
  <1>16. Shape(w, Apps(inst2, S \cup {du}), (S \cup {du}) \cup EUs(inst2, S \cup {du}))
    <2>1. units \cup {eu} = (S \cup {du}) \cup EUs(inst2, S \cup {du})
      BY <1>1, <1>15
    <2> QED BY <1>8, <1>15, <2>1
  <1>17. ASSUME NEW d \in S
         PROVE  UnitOK(w, d, inst2[d])
    <2>1. UnitOK(t, d, inst[d])
      BY DEF Runs
    <2>2. d \in UnitRows \ {du} /\ d # eu
      BY <1>2, <1>4, RowsDiffer
    <2>3. inst[d].eu \in UnitRows \ {du} /\ inst[d].eu # eu
      <3>1. inst[d].eu \in EURows /\ inst[d].eu \in units
        BY <1>1, <1>2 DEF RecordOK, EUs
      <3> QED BY <1>4, <3>1, RowsDiffer
    <2>4. /\ Raw(w, d, "Status") = Raw(t, d, "Status")
          /\ Raw(w, d, "Version") = Raw(t, d, "Version")
      BY <1>9, <1>12, <2>2
    <2>5. /\ Raw(w, inst[d].eu, "Status") = Raw(t, inst[d].eu, "Status")
          /\ Raw(w, inst[d].eu, "Name") = Raw(t, inst[d].eu, "Name")
      BY <1>9, <1>12, <2>3
    <2> QED BY <2>1, <2>4, <2>5 DEF UnitOK
  <1>18. UnitOK(w, du, inst2[du])
    BY <1>1, <1>4, <1>10, <1>11, <1>12 DEF UnitOK
  <1>19. Runs(w, inst2, s.gens, S \cup {du}, S \cup {du})
    BY <1>15, <1>16, <1>17, <1>18 DEF Runs
  <1> QED BY <1>13, <1>14, <1>19


-----------------------------------------------------------------------------
(* The inductive invariant *)

UuidOf(op, m) == IF op.uuid = "" THEN AppUUID[Manifests[m].name] ELSE op.uuid

\* Where an operation h stands, and what it has done so far.
Installing(t, inst, g, h) ==
    /\ h.step \in {"fetch", "start"} /\ h.op.kind = "install" /\ h.op.url # ""
    /\ h.du \in DURows \ DOMAIN inst /\ HasRoom(t, ExecutionUnitTable)
    /\ Runs(t, inst, g, DOMAIN inst, DOMAIN inst \cup {h.du})
    /\ h.step = "start" =>
          /\ h.manifest \in DOMAIN Manifests
          /\ Raw(t, h.du, "UUID") = UuidOf(h.op, h.manifest)
          /\ Raw(t, h.du, "Version") = Manifests[h.manifest].version
          /\ \A d \in DOMAIN inst : Raw(t, d, "UUID") # UuidOf(h.op, h.manifest)
OnUnit(t, inst, h) == h.du \in DOMAIN inst /\ Raw(t, h.du, "UUID") = h.op.uuid
Updating(t, inst, g, h) ==
    /\ h.step = "fetch" /\ h.op.kind = "update" /\ OnUnit(t, inst, h)
    /\ Runs(t, inst, g, DOMAIN inst, DOMAIN inst)
Replacing(t, inst, g, h) ==
    /\ h.step = "start" /\ h.op.kind = "update" /\ OnUnit(t, inst, h)
    /\ h.manifest \in DOMAIN Manifests /\ HasRoom(t, ExecutionUnitTable)
    /\ Runs(t, inst, g, DOMAIN inst \ {h.du}, DOMAIN inst)
Removing(t, inst, g, h) ==
    /\ h.step = "remove" /\ h.op.kind = "uninstall" /\ OnUnit(t, inst, h)
    /\ Runs(t, inst, g, DOMAIN inst \ {h.du}, DOMAIN inst)
Operating(t, inst, g, h) ==
    \/ h.step = "begin" /\ Runs(t, inst, g, DOMAIN inst, DOMAIN inst)
    \/ Installing(t, inst, g, h)
    \/ Updating(t, inst, g, h)
    \/ Replacing(t, inst, g, h)
    \/ Removing(t, inst, g, h)

\* Between two steps of the manager.
ManagerOK(t, inst, g, h) ==
    /\ Records(inst) /\ Named(t, DOMAIN inst)
    /\ h = Free => Runs(t, inst, g, DOMAIN inst, DOMAIN inst)
    /\ h # Free => Operating(t, inst, g, h)

\* What is asked for has a URL that answers.
OpOK(op) == op.url \in DOMAIN Serves \cup {""}
JobOK(job) ==
    /\ DOMAIN job = {"phase", "ops", "results"} /\ \E R : job.results \in Seq(R)
    /\ \A i \in DOMAIN job.ops : OpOK(job.ops[i])
JobsOK(c) == DOMAIN c = Jobs /\ \A j \in Jobs : JobOK(c[j])
AgentOK(a) ==
    /\ DOMAIN a = {"handler", "op", "async", "run", "result"}
    /\ a.handler = "check" => OpOK(a.op)
    /\ a.async = "run" => OpOK(a.run)
HolderOK(h) == h # Free => h.by \in Jobs \cup {"usp"} /\ OpOK(h.op)

InventoryInv ==
    ~disturbed => /\ ManagerOK(tree, installed, gens, mu)
                  /\ JobsOK(cwmp) /\ AgentOK(usp) /\ HolderOK(mu)

-----------------------------------------------------------------------------
(* The callers *)

LEMMA HeldIs ==
    ASSUME NEW by, NEW op, NEW step, NEW du, NEW ee, NEW m, NEW h,
           h = [by |-> by, op |-> op, step |-> step, du |-> du, ee |-> ee, manifest |-> m]
    PROVE  /\ h # Free /\ h.by = by /\ h.op = op /\ h.step = step /\ h.du = du
           /\ h.ee = ee /\ h.manifest = m
  <1>1. "op" \in DOMAIN h /\ "op" \notin DOMAIN Free
    BY DEF Free
  <1> QED BY <1>1

LEMMA ResultAppended ==
    ASSUME NEW job, JobOK(job), NEW res, NEW k, k = [job EXCEPT !.results = Append(@, res)]
    PROVE  JobOK(k) /\ Last(k.results) = res /\ k.results # <<>>
  <1>1. PICK R : job.results \in Seq(R)
    BY DEF JobOK
  <1>2. PICK S, s, a : S = R \cup {res} /\ s = job.results /\ a = Append(s, res)
    OBVIOUS
  <1>3. s \in Seq(S)
    BY <1>1, <1>2, SeqMonotonic
  <1>4. a \in Seq(S) /\ Len(a) = Len(s) + 1 /\ a[Len(s) + 1] = res /\ Len(s) \in Nat
    BY <1>2, <1>3, AppendItems
  <1>5. /\ DOMAIN k = DOMAIN job /\ k.results = a /\ k.ops = job.ops
    BY <1>2 DEF JobOK
  <1>6. Last(a) = res /\ a # <<>>
    BY <1>4 DEF Last
  <1> QED BY <1>4, <1>5, <1>6 DEF JobOK

\* Return hands the result to the caller that holds the lock.
LEMMA ReturnOK ==
    ASSUME JobsOK(cwmp), AgentOK(usp), mu.by \in Jobs \cup {"usp"},
           NEW res, Return(mu.by, res)
    PROVE  JobsOK(cwmp') /\ AgentOK(usp') /\ mu' = Free /\ Returned = res
  <1>1. CASE mu.by = "usp"
    <2>1. cwmp' = cwmp /\ usp' = [usp EXCEPT !.async = "ran", !.result = res] /\ mu' = Free
      BY <1>1 DEF Return
    <2>2. /\ DOMAIN usp' = DOMAIN usp /\ usp'.async = "ran" /\ usp'.result = res
          /\ usp'.handler = usp.handler /\ usp'.op = usp.op
      BY <2>1 DEF AgentOK
    <2> QED BY <1>1, <2>1, <2>2 DEF AgentOK, Returned
  <1>2. CASE mu.by # "usp"
    <2>1. PICK j \in Jobs : j = mu.by
      BY <1>2
    <2>2. usp' = usp /\ cwmp' = [cwmp EXCEPT ![j].results = Append(@, res)] /\ mu' = Free
      BY <1>2, <2>1 DEF Return
    <2>3. /\ DOMAIN cwmp' = Jobs /\ cwmp'[j] = [cwmp[j] EXCEPT !.results = Append(@, res)]
          /\ \A k \in Jobs \ {j} : cwmp'[k] = cwmp[k]
      BY <2>2 DEF JobsOK
    <2>4. JobOK(cwmp'[j]) /\ Last(cwmp'[j].results) = res
      <3>1. PICK job, k : job = cwmp[j] /\ k = cwmp'[j]
        OBVIOUS
      <3>2. k = [job EXCEPT !.results = Append(@, res)] /\ JobOK(job)
        BY <2>3, <3>1 DEF JobsOK
      <3>3. JobOK(k) /\ Last(k.results) = res
        BY <3>2, ResultAppended
      <3> QED BY <3>1, <3>3
    <2>5. JobsOK(cwmp')
      BY <2>3, <2>4 DEF JobsOK
    <2> QED BY <1>2, <2>1, <2>2, <2>4, <2>5 DEF Returned
  <1> QED BY <1>1, <1>2


-----------------------------------------------------------------------------
(* The steps of the manager *)

\* What ResultsTrue says of a result.
TrueReport(res, inst, inst2, t) ==
    IF res.fault # ""
    THEN /\ DOMAIN inst2 = DOMAIN inst
         /\ \A d \in DOMAIN inst : inst2[d].manifest = inst[d].manifest
    ELSE IF res.kind = "uninstall"
    THEN \A d \in DOMAIN inst2 : Raw(t, d, "UUID") # res.uuid
    ELSE \E d \in DOMAIN inst2 :
           Raw(t, d, "UUID") = res.uuid /\ Manifests[inst2[d].manifest].version = res.version
Reported == mu' = Free => TrueReport(Returned, installed, installed', tree')

Reports(res, op, uuid, version, fault) ==
    /\ res.kind = op.kind /\ res.version = version /\ res.fault = fault
    /\ res.uuid = IF uuid = "" THEN op.uuid ELSE uuid

LEMMA ResultIs ==
    ASSUME NEW op, NEW uuid, NEW version, NEW state, NEW fault, NEW res,
           res = Result(op, uuid, version, state, fault)
    PROVE  Reports(res, op, uuid, version, fault)
  BY DEF Result, Reports

LEMMA FailedIs ==
    ASSUME NEW op, NEW fault
    PROVE  FailedResult(op, fault).fault = fault
  BY DEF FailedResult, Result

\* A step that ends the operation.
LEMMA Returns ==
    ASSUME InventoryInv, ~disturbed, mu # Free, NEW res, Return(mu.by, res),
           Records(installed'), Named(tree', DOMAIN installed'),
           Runs(tree', installed', gens', DOMAIN installed', DOMAIN installed'),
           TrueReport(res, installed, installed', tree')
    PROVE  InventoryInv' /\ Reported
  <1>1. JobsOK(cwmp) /\ AgentOK(usp) /\ mu.by \in Jobs \cup {"usp"}
    BY DEF InventoryInv, HolderOK
  <1>2. JobsOK(cwmp') /\ AgentOK(usp') /\ mu' = Free /\ Returned = res
    BY <1>1, ReturnOK
  <1>3. ManagerOK(tree', installed', gens', mu') /\ HolderOK(mu')
    BY <1>2 DEF ManagerOK, HolderOK
  <1> QED BY <1>2, <1>3 DEF InventoryInv, Reported

\* A fault that leaves everything as it is.
LEMMA ReturnsFault ==
    ASSUME InventoryInv, ~disturbed, mu # Free, NEW res, Return(mu.by, res), res.fault # "",
           installed' = installed, SameUuids(tree, tree', DOMAIN installed),
           Runs(tree', installed, gens', DOMAIN installed, DOMAIN installed)
    PROVE  InventoryInv' /\ Reported
  <1>1. Records(installed) /\ Named(tree, DOMAIN installed)
    BY DEF InventoryInv, ManagerOK
  <1>2. Named(tree', DOMAIN installed)
    BY <1>1, NamedKeeps
  <1>3. TrueReport(res, installed, installed', tree')
    BY DEF TrueReport
  <1> QED BY <1>1, <1>2, <1>3, Returns

\* A step that goes on to another wait.
LEMMA Holds ==
    ASSUME InventoryInv, ~disturbed, mu # Free, UNCHANGED <<installed, cwmp, usp>>,
           NEW step, NEW du, NEW ee, NEW m, Hold(mu.by, mu.op, step, du, ee, m),
           SameUuids(tree, tree', DOMAIN installed),
           Operating(tree', installed, gens', mu')
    PROVE  InventoryInv' /\ Reported
  <1>1. /\ JobsOK(cwmp) /\ AgentOK(usp) /\ mu.by \in Jobs \cup {"usp"} /\ OpOK(mu.op)
        /\ Records(installed) /\ Named(tree, DOMAIN installed)
    BY DEF InventoryInv, HolderOK, ManagerOK
  <1>2. mu' # Free /\ mu'.by = mu.by /\ mu'.op = mu.op
    BY HeldIs DEF Hold
  <1>3. Named(tree', DOMAIN installed)
    BY <1>1, NamedKeeps
  <1>4. ManagerOK(tree', installed', gens', mu') /\ HolderOK(mu')
    BY <1>1, <1>2, <1>3 DEF ManagerOK, HolderOK
  <1> QED BY <1>1, <1>2, <1>4 DEF InventoryInv, Reported

LEMMA SameUuidsSelf == ASSUME NEW t, NEW S PROVE SameUuids(t, t, S)
  BY DEF SameUuids

LEMMA Starting ==
    ASSUME InventoryInv, ~disturbed, mu # Free, mu.step = "begin"
    PROVE  /\ Records(installed) /\ Named(tree, DOMAIN installed)
           /\ Runs(tree, installed, gens, DOMAIN installed, DOMAIN installed)
  <1>1. /\ Records(installed) /\ Named(tree, DOMAIN installed)
        /\ Operating(tree, installed, gens, mu)
    BY DEF InventoryInv, ManagerOK
  <1>2. /\ ~Installing(tree, installed, gens, mu) /\ ~Updating(tree, installed, gens, mu)
        /\ ~Replacing(tree, installed, gens, mu) /\ ~Removing(tree, installed, gens, mu)
    BY DEF Installing, Updating, Replacing, Removing
  <1> QED BY <1>1, <1>2 DEF Operating

LEMMA BeginInstallOK ==
    ASSUME InventoryInv, ~disturbed, mu # Free, mu.step = "begin", BeginInstall(mu.by, mu.op)
    PROVE  InventoryInv' /\ Reported
  <1>1. /\ Records(installed) /\ Named(tree, DOMAIN installed)
        /\ Runs(tree, installed, gens, DOMAIN installed, DOMAIN installed)
    BY Starting
  <1>2. PICK op, ee, row, f :
          /\ op = mu.op /\ ee = execEnv(tree, op.ee)
          /\ row = addRow(tree, DeploymentUnitTable, requiredDULeaves)
          /\ f = IF checkInstallArgs(op) # "" THEN checkInstallArgs(op)
                 ELSE IF ee.fault # "" THEN ee.fault ELSE row.fault
    OBVIOUS
  <1>3. CASE f # ""
    <2>1. /\ Return(mu.by, FailedResult(op, f))
          /\ tree' = tree /\ installed' = installed /\ gens' = gens
      BY <1>2, <1>3 DEF BeginInstall
    <2>2. PICK res : res = FailedResult(op, f)
      OBVIOUS
    <2>3. res.fault # ""
      BY <1>3, <2>2, FailedIs
    <2> QED BY <1>1, <2>1, <2>2, <2>3, SameUuidsSelf, ReturnsFault
  <1>4. CASE f = ""
    <2>1. PICK values, p : values = [UUID |-> op.uuid, Status |-> "Installing",
                            URL |-> op.url, Resolved |-> "false",
                            ExecutionEnvRef |-> ee.path] /\ p = ee.path
      OBVIOUS
    <2>2. /\ tree' = setLeaves(row.tree, row.row, values)
          /\ Hold(mu.by, op, "fetch", row.row, p, NoManifest) /\ Keep
          /\ HasRoom(tree, DeploymentUnitTable) /\ HasRoom(tree, ExecutionUnitTable)
          /\ op.kind = "install"
      BY <1>2, <1>4, <2>1 DEF BeginInstall
    <2>3. op.url # ""
      BY <1>2, <1>4 DEF checkInstallArgs
    <2>4. PICK r, v : r = row.row /\ v = row.tree
      OBVIOUS
    <2>5. /\ r \in DURows \ DOMAIN installed
          /\ Runs(tree', installed, gens, DOMAIN installed, DOMAIN installed \cup {r})
          /\ SameUuids(tree, tree', DOMAIN installed) /\ HasRoom(tree', ExecutionUnitTable)
      <3>1. Grown(tree, r, v) /\ Front(r) = DeploymentUnitTable
        BY <1>1, <1>2, <2>2, <2>4, DURowAdded
      <3>2. tree' = setLeaves(v, r, values)
        BY <2>2, <2>4
      <3> QED BY <1>1, <2>2, <3>1, <3>2, RowComes
    <2>6. /\ mu'.op = op /\ mu'.step = "fetch" /\ mu'.du = r
      BY <2>2, <2>4, HeldIs DEF Hold
    <2>7. installed' = installed /\ gens' = gens /\ cwmp' = cwmp /\ usp' = usp
      BY <2>2 DEF Keep
    <2>8. Installing(tree', installed, gens', mu')
      BY <2>2, <2>3, <2>5, <2>6, <2>7 DEF Installing
    <2> QED BY <1>2, <2>2, <2>5, <2>7, <2>8, Holds DEF Operating
  <1> QED BY <1>3, <1>4


IsFound(du, t, inst, uuid, version) ==
    \E f : /\ f = findLocked(t, inst, uuid, version)
          /\ f.fault = "" /\ f.du = du

LEMMA Found ==
    ASSUME NEW t, NEW inst, NEW uuid, NEW version, NEW du,
           IsFound(du, t, inst, uuid, version)
    PROVE  du \in DOMAIN inst /\ Raw(t, du, "UUID") = uuid
  <1>1. PICK found : found = Matches(t, inst, uuid, version)
    OBVIOUS
  <1>2. found # {} /\ du = CHOOSE d \in found : TRUE
    <2>1. PICK f, x : /\ f = findLocked(t, inst, uuid, version)
                      /\ f.fault = "" /\ f.du = du /\ x = CHOOSE d \in found : TRUE
      BY DEF IsFound
    <2>2. f = IF found = {} THEN [du |-> <<>>, fault |-> "unknown-du"]
              ELSE IF Cardinality(found) = 1 THEN [du |-> x, fault |-> ""]
              ELSE [du |-> <<>>, fault |-> "invalid-arguments"]
      BY <1>1, <2>1 DEF findLocked
    <2>3. f.fault = "" /\ f.du = du
      BY <2>1
    <2>4. found # {} /\ du = x
      BY <2>2, <2>3
    <2> QED BY <2>1, <2>4
  <1>3. du \in found
    BY <1>2
  <1> QED BY <1>1, <1>3 DEF Matches

LEMMA WithVersionIs ==
    ASSUME NEW op, NEW found, NEW fault
    PROVE  WithVersion(op, found, fault).fault = fault
  BY DEF WithVersion, FailedResult, Result

LEMMA BeginUpdateOK ==
    ASSUME InventoryInv, ~disturbed, mu # Free, mu.step = "begin", BeginUpdate(mu.by, mu.op)
    PROVE  InventoryInv' /\ Reported
  <1>1. /\ Records(installed) /\ Named(tree, DOMAIN installed)
        /\ Runs(tree, installed, gens, DOMAIN installed, DOMAIN installed)
    BY Starting
  <1>2. PICK op, found, f :
          /\ op = mu.op /\ found = findLocked(tree, installed, op.uuid, op.version)
          /\ f = IF found.fault # "" THEN found.fault
                 ELSE IF StatusFault(tree, found.du) # "" THEN StatusFault(tree, found.du)
                 ELSE execEnv(tree, installed[found.du].ee).fault
    OBVIOUS
  <1>3. tree' = tree /\ op.kind = "update"
    BY <1>2 DEF BeginUpdate
  <1>4. CASE f # ""
    <2>1. /\ Return(mu.by, WithVersion(op, found, f))
          /\ installed' = installed /\ gens' = gens
      BY <1>2, <1>4 DEF BeginUpdate
    <2>2. PICK res : res = WithVersion(op, found, f)
      OBVIOUS
    <2>3. res.fault # ""
      BY <1>4, <2>2, WithVersionIs
    <2> QED BY <1>1, <1>3, <2>1, <2>2, <2>3, SameUuidsSelf, ReturnsFault
  <1>5. CASE f = ""
    <2>1. PICK du, ee : du = found.du /\ ee = installed[found.du].ee
      OBVIOUS
    <2>2. Hold(mu.by, op, "fetch", du, ee, NoManifest) /\ Keep
      BY <1>2, <1>5, <2>1 DEF BeginUpdate
    <2>3. found.fault = ""
      BY <1>2, <1>5
    <2>4. du \in DOMAIN installed /\ Raw(tree, du, "UUID") = op.uuid
      <3>1. IsFound(du, tree, installed, op.uuid, op.version)
        BY <1>2, <2>1, <2>3 DEF IsFound
      <3> QED BY <3>1, Found
    <2>5. mu'.op = op /\ mu'.step = "fetch" /\ mu'.du = du
      BY <2>2, HeldIs DEF Hold
    <2>6. installed' = installed /\ gens' = gens /\ cwmp' = cwmp /\ usp' = usp
      BY <2>2 DEF Keep
    <2>7. Updating(tree', installed, gens', mu')
      BY <1>1, <1>3, <2>4, <2>5, <2>6 DEF Updating, OnUnit
    <2> QED BY <1>2, <1>3, <2>2, <2>6, <2>7, SameUuidsSelf, Holds DEF Operating
  <1> QED BY <1>4, <1>5

\* Bringing the list of active units up to date disturbs nothing.
LEMMA RunsSynced ==
    ASSUME NEW inst, Records(inst), NEW S, S \subseteq DOMAIN inst,
           NEW t, NEW g, NEW dus, Runs(t, inst, g, S, dus),
           NEW inst2, NEW ee, NEW u, u = syncActiveUnits(t, inst2, ee)
    PROVE  /\ Runs(u, inst, g, S, dus) /\ SameUuids(t, u, DOMAIN inst)
           /\ KeepsRaw(t, u, UnitRows)
  <1>1. Shape(t, Apps(inst, S), dus \cup EUs(inst, S))
    BY DEF Runs
  <1>2. Shape(u, Apps(inst, S), dus \cup EUs(inst, S)) /\ KeepsRaw(t, u, UnitRows)
    BY <1>1, SyncActive
  <1>3. S \cup EUs(inst, S) \subseteq UnitRows /\ DOMAIN inst \subseteq UnitRows
    BY RecordsFit, RowsDiffer DEF Records
  <1>4. KeepsRaw(t, u, S \cup EUs(inst, S)) /\ SameUuids(t, u, DOMAIN inst)
    BY <1>2, <1>3, KeepsUuids
  <1> QED BY <1>2, <1>4, RunsKeeps

LEMMA BeginUninstallOK ==
    ASSUME InventoryInv, ~disturbed, mu # Free, mu.step = "begin", BeginUninstall(mu.by, mu.op)
    PROVE  InventoryInv' /\ Reported
  <1>1. /\ Records(installed) /\ Named(tree, DOMAIN installed)
        /\ Runs(tree, installed, gens, DOMAIN installed, DOMAIN installed)
    BY Starting
  <1>2. PICK op, found, unit, f :
          /\ op = mu.op /\ found = findLocked(tree, installed, op.uuid, op.version)
          /\ unit = installed[found.du]
          /\ f = IF found.fault # "" THEN found.fault
                 ELSE IF op.ee # <<>> /\ op.ee # unit.ee THEN "unknown-du"
                 ELSE StatusFault(tree, found.du)
    OBVIOUS
  <1>3. op.kind = "uninstall"
    BY <1>2 DEF BeginUninstall
  <1>4. CASE f # ""
    <2>1. PICK res : res = IF f = "unknown-du" THEN FailedResult(op, f)
                           ELSE WithVersion(op, found, f)
      OBVIOUS
    <2>2. /\ Return(mu.by, res)
          /\ tree' = tree /\ installed' = installed /\ gens' = gens
      BY <1>2, <1>4, <2>1 DEF BeginUninstall
    <2>3. res.fault # ""
      <3>1. res = FailedResult(op, f) \/ res = WithVersion(op, found, f)
        BY <2>1
      <3>2. FailedResult(op, f).fault = f /\ WithVersion(op, found, f).fault = f
        BY FailedIs, WithVersionIs
      <3> QED BY <1>4, <3>1, <3>2, Zenon
    <2> QED BY <1>1, <2>2, <2>3, SameUuidsSelf, ReturnsFault
  <1>5. CASE f = ""
    <2>1. PICK du, values, v : /\ du = found.du /\ values = [Status |-> "Uninstalling"]
                               /\ v = setLeaves(tree, du, values)
      OBVIOUS
    <2>2. PICK u, h, ee : u = Stopped(v, gens, unit) /\ h = stop(v, gens, unit).gens
                          /\ ee = unit.ee
      OBVIOUS
    <2>3. /\ tree' = syncActiveUnits(u, installed, ee) /\ gens' = h
          /\ Hold(mu.by, op, "remove", du, ee, unit.manifest)
          /\ installed' = installed /\ cwmp' = cwmp /\ usp' = usp
      BY <1>2, <1>5, <2>1, <2>2 DEF BeginUninstall, Stopped
    <2>4. found.fault = ""
      BY <1>2, <1>5
    <2>5. du \in DOMAIN installed /\ Raw(tree, du, "UUID") = op.uuid
      <3>1. IsFound(du, tree, installed, op.uuid, op.version)
        BY <1>2, <2>1, <2>4 DEF IsFound
      <3> QED BY <3>1, Found
    <2>6. "UUID" \notin DOMAIN values
      BY <2>1
    <2>7. u = Stopped(v, gens, installed[du]) /\ h = stop(v, gens, installed[du]).gens
      BY <1>2, <2>1, <2>2
    <2>8. /\ Runs(u, installed, h, DOMAIN installed \ {du}, DOMAIN installed)
          /\ SameUuids(tree, u, DOMAIN installed)
      BY <1>1, <2>1, <2>5, <2>6, <2>7, UnitLeaves
    <2>9. /\ Runs(tree', installed, h, DOMAIN installed \ {du}, DOMAIN installed)
          /\ SameUuids(u, tree', DOMAIN installed)
      BY <1>1, <2>3, <2>8, RunsSynced
    <2>10. SameUuids(tree, tree', DOMAIN installed)
      BY <2>8, <2>9 DEF SameUuids
    <2>11. mu'.op = op /\ mu'.step = "remove" /\ mu'.du = du
      BY <2>3, HeldIs DEF Hold
    <2>12. Raw(tree', du, "UUID") = op.uuid
      BY <2>5, <2>10 DEF SameUuids
    <2>13. Removing(tree', installed, gens', mu')
      BY <1>3, <2>3, <2>5, <2>9, <2>11, <2>12 DEF Removing, OnUnit
    <2> QED BY <1>2, <2>3, <2>10, <2>13, Holds DEF Operating
  <1> QED BY <1>4, <1>5


\* A write to the row of the unit that is being set up.
Written(t, du, values, u) ==
    /\ HasRoom(t, ExecutionUnitTable) => HasRoom(u, ExecutionUnitTable)
    /\ \A name \in Tracked :
          Raw(u, du, name) = IF name \in DOMAIN values THEN values[name]
                             ELSE Raw(t, du, name)

LEMMA RunsWritten ==
    ASSUME NEW inst, Records(inst), NEW S, S \subseteq DOMAIN inst, NEW du \in DURows \ S,
           NEW t, NEW g, Runs(t, inst, g, S, S \cup {du}),
           NEW values, NEW u, u = setLeaves(t, du, values)
    PROVE  /\ Runs(u, inst, g, S, S \cup {du}) /\ SameUuids(t, u, S)
           /\ Written(t, du, values, u)
  <1>1. PICK units : units = (S \cup {du}) \cup EUs(inst, S)
    OBVIOUS
  <1>2. Shape(t, Apps(inst, S), units) /\ du \in units
    BY <1>1 DEF Runs
  <1>3. /\ Shape(u, Apps(inst, S), units) /\ KeepsRaw(t, u, UnitRows \ {du})
        /\ \A name \in Tracked :
              Raw(u, du, name) = IF name \in DOMAIN values THEN values[name]
                                 ELSE Raw(t, du, name)
    BY <1>2, WriteUnit
  <1>4. S \cup EUs(inst, S) \subseteq UnitRows \ {du}
    BY RecordsFit, RowsDiffer
  <1>5. KeepsRaw(t, u, S \cup EUs(inst, S)) /\ SameUuids(t, u, S)
    BY <1>3, <1>4, KeepsUuids
  <1>6. Shape(u, Apps(inst, S), (S \cup {du}) \cup EUs(inst, S))
    BY <1>1, <1>3
  <1>7. Runs(u, inst, g, S, S \cup {du})
    BY <1>5, <1>6, RunsKeeps
  <1>8. HasRoom(t, ExecutionUnitTable) => HasRoom(u, ExecutionUnitTable)
    <2>1. DOMAIN u = DOMAIN t
      BY DEF setLeaves
    <2> QED BY <2>1 DEF HasRoom
  <1> QED BY <1>3, <1>5, <1>7, <1>8 DEF Written

LEMMA Answers ==
    ASSUME NEW url \in DOMAIN Serves, NEW answer \in Serves[url], answer.fault = ""
    PROVE  answer.manifest \in DOMAIN Manifests
  BY OperationsAssumption

LEMMA FetchedInstallOK ==
    ASSUME InventoryInv, ~disturbed, mu # Free, mu.step = "fetch",
           NEW answer \in Serves[SourceOf(mu.op, mu.du)], FetchedInstall(answer)
    PROVE  InventoryInv' /\ Reported
  <1>1. PICK op, du, m, R : op = mu.op /\ du = mu.du /\ m = answer.manifest
                            /\ R = DOMAIN installed
    OBVIOUS
  <1>2. op.kind = "install" /\ installed' = installed /\ gens' = gens
    BY <1>1 DEF FetchedInstall
  <1>3. Installing(tree, installed, gens, mu) /\ Records(installed) /\ Named(tree, R)
        /\ OpOK(op)
    <2>1. ~Updating(tree, installed, gens, mu) /\ ~Replacing(tree, installed, gens, mu)
          /\ ~Removing(tree, installed, gens, mu)
      BY <1>1, <1>2 DEF Updating, Replacing, Removing
    <2>2. Operating(tree, installed, gens, mu) /\ Records(installed)
          /\ Named(tree, DOMAIN installed) /\ OpOK(mu.op)
      BY DEF InventoryInv, ManagerOK, HolderOK
    <2> QED BY <1>1, <2>1, <2>2 DEF Operating
  <1>4. /\ op.url # "" /\ du \in DURows \ R /\ HasRoom(tree, ExecutionUnitTable)
        /\ Runs(tree, installed, gens, R, R \cup {du})
    BY <1>1, <1>3 DEF Installing
  <1>5. op.url \in DOMAIN Serves /\ answer \in Serves[op.url]
    BY <1>1, <1>3, <1>4 DEF OpOK, SourceOf
  <1>6. PICK uuid, values, named, f :
          /\ uuid = UuidOf(op, m) /\ values = [UUID |-> uuid]
          /\ named = setLeaves(tree, du, values)
          /\ f = checkManifest(named, installed, m, uuid, <<>>)
    OBVIOUS
  <1>7. /\ Runs(named, installed, gens, R, R \cup {du}) /\ SameUuids(tree, named, R)
        /\ HasRoom(named, ExecutionUnitTable)
        /\ Raw(named, du, "UUID") = uuid
    <2>1. "UUID" \in DOMAIN values /\ values["UUID"] = uuid /\ "UUID" \in Tracked
      BY <1>6 DEF Tracked
    <2>2. R \subseteq DOMAIN installed
      BY <1>1
    <2>3. /\ Runs(named, installed, gens, R, R \cup {du}) /\ SameUuids(tree, named, R)
          /\ Written(tree, du, values, named)
      BY <1>3, <1>4, <1>6, <2>2, RunsWritten
    <2> QED BY <1>4, <2>1, <2>3 DEF Written
  <1>8. CASE answer.fault # ""
    <2>1. /\ tree' = DeleteObject(tree, du).tree
          /\ Return(mu.by, FailedResult(op, answer.fault))
      BY <1>1, <1>8 DEF FetchedInstall, undo
    <2>2. Runs(tree', installed, gens, R, R) /\ SameUuids(tree, tree', R)
      BY <1>1, <1>3, <1>4, <2>1, RowGoes
    <2>3. PICK res : res = FailedResult(op, answer.fault)
      OBVIOUS
    <2>4. res.fault # ""
      BY <1>8, <2>3, FailedIs
    <2> QED BY <1>1, <1>2, <2>1, <2>2, <2>3, <2>4, ReturnsFault
  <1>9. CASE answer.fault = "" /\ f # ""
    <2>1. PICK version, res : /\ version = Manifests[m].version
                              /\ res = Result(op, uuid, version, "Failed", f)
      OBVIOUS
    <2>2. tree' = DeleteObject(named, du).tree /\ Return(mu.by, res)
      BY <1>1, <1>6, <1>9, <2>1 DEF FetchedInstall, undo, UuidOf
    <2>3. Runs(tree', installed, gens, R, R) /\ SameUuids(named, tree', R)
      BY <1>1, <1>3, <1>4, <1>7, <2>2, RowGoes
    <2>4. SameUuids(tree, tree', R)
      BY <1>7, <2>3 DEF SameUuids
    <2>5. res.fault # ""
      <3>1. res = Result(op, uuid, version, "Failed", f)
        BY <2>1
      <3>2. Reports(res, op, uuid, version, f)
        BY ONLY <3>1, ResultIs
      <3> QED BY ONLY <1>9, <3>2 DEF Reports
    <2> QED BY <1>1, <1>2, <2>2, <2>3, <2>4, <2>5, ReturnsFault
  <1>10. CASE answer.fault = "" /\ f = ""
    <2>1. PICK fields : fields = [Name |-> Manifests[m].name, Version |-> Manifests[m].version]
      OBVIOUS
    <2>2. /\ tree' = setLeaves(named, du, fields)
          /\ Hold(mu.by, op, "start", du, mu.ee, m) /\ cwmp' = cwmp /\ usp' = usp
      BY <1>1, <1>6, <1>10, <2>1 DEF FetchedInstall, UuidOf
    <2>3. m \in DOMAIN Manifests
      BY <1>1, <1>5, <1>10, Answers
    <2>4. /\ "Version" \in DOMAIN fields /\ fields["Version"] = Manifests[m].version
          /\ "UUID" \notin DOMAIN fields /\ "UUID" \in Tracked /\ "Version" \in Tracked
      BY <2>1 DEF Tracked
    <2>5. R \subseteq DOMAIN installed
      BY <1>1
    <2>6. /\ Runs(tree', installed, gens, R, R \cup {du}) /\ SameUuids(named, tree', R)
          /\ Written(named, du, fields, tree')
      BY <1>3, <1>4, <1>7, <2>2, <2>5, RunsWritten
    <2>7. /\ Raw(tree', du, "UUID") = uuid /\ Raw(tree', du, "Version") = Manifests[m].version
          /\ HasRoom(tree', ExecutionUnitTable)
      BY <1>7, <2>4, <2>6 DEF Written
    <2>8. \A d \in R : Raw(tree', d, "UUID") # uuid
      <3>1. \A d \in R : d # <<>>
        BY <1>1, <1>3, RowsDiffer, RowIs DEF Records
      <3>2. \A d \in R : Raw(named, d, "UUID") # uuid
        BY <1>1, <1>6, <1>10, <3>1 DEF checkManifest
      <3> QED BY <2>6, <3>2 DEF SameUuids
    <2>9. mu'.op = op /\ mu'.step = "start" /\ mu'.du = du /\ mu'.manifest = m
      BY <2>2, HeldIs DEF Hold
    <2>10. Installing(tree', installed, gens', mu')
      BY <1>1, <1>2, <1>4, <1>6, <2>3, <2>6, <2>7, <2>8, <2>9 DEF Installing
    <2>11. SameUuids(tree, tree', R)
      BY <1>7, <2>6 DEF SameUuids
    <2> QED BY <1>1, <1>2, <2>2, <2>10, <2>11, Holds DEF Operating
  <1> QED BY <1>8, <1>9, <1>10

LEMMA FetchedUpdateOK ==
    ASSUME InventoryInv, ~disturbed, mu # Free, mu.step = "fetch",
           NEW answer \in Serves[SourceOf(mu.op, mu.du)], FetchedUpdate(answer)
    PROVE  InventoryInv' /\ Reported
  <1>1. PICK op, du, m, R, unit : /\ op = mu.op /\ du = mu.du /\ m = answer.manifest
                                  /\ R = DOMAIN installed /\ unit = installed[du]
    OBVIOUS
  <1>2. op.kind = "update" /\ installed' = installed
    BY <1>1 DEF FetchedUpdate
  <1>3. Updating(tree, installed, gens, mu) /\ Records(installed) /\ OpOK(op)
    <2>1. ~Installing(tree, installed, gens, mu) /\ ~Replacing(tree, installed, gens, mu)
          /\ ~Removing(tree, installed, gens, mu)
      BY <1>1, <1>2 DEF Installing, Replacing, Removing
    <2>2. Operating(tree, installed, gens, mu) /\ Records(installed) /\ OpOK(mu.op)
      BY DEF InventoryInv, ManagerOK, HolderOK
    <2> QED BY <1>1, <2>1, <2>2 DEF Operating
  <1>4. /\ du \in R /\ Raw(tree, du, "UUID") = op.uuid
        /\ Runs(tree, installed, gens, R, R)
    BY <1>1, <1>3 DEF Updating, OnUnit
  <1>5. PICK old, f : /\ old = Manifests[unit.manifest].version
                      /\ f = IF answer.fault # "" THEN answer.fault
                             ELSE IF checkManifest(tree, installed, m, op.uuid, du) # ""
                             THEN checkManifest(tree, installed, m, op.uuid, du)
                             ELSE IF Manifests[m].version = old
                             THEN "version-exists" ELSE ""
    OBVIOUS
  <1>6. CASE f # ""
    <2>1. PICK res : res = Result(op, op.uuid, old, "Installed", f)
      OBVIOUS
    <2>2. Return(mu.by, res) /\ tree' = tree /\ gens' = gens
      BY <1>1, <1>5, <1>6, <2>1 DEF FetchedUpdate
    <2>3. res.fault # ""
      <3>1. PICK uuid : uuid = op.uuid
        OBVIOUS
      <3>2. res = Result(op, uuid, old, "Installed", f)
        BY <2>1, <3>1
      <3>3. Reports(res, op, uuid, old, f)
        BY ONLY <3>2, ResultIs
      <3> QED BY ONLY <1>6, <3>3 DEF Reports
    <2>4. /\ SameUuids(tree, tree', DOMAIN installed)
          /\ Runs(tree', installed, gens', DOMAIN installed, DOMAIN installed)
      BY <1>1, <1>4, <2>2, SameUuidsSelf
    <2> QED BY <1>2, <2>2, <2>3, <2>4, ReturnsFault
  <1>7. CASE f = ""
    <2>1. PICK values, v, u, h :
            /\ values = [Status |-> "Updating", URL |-> SourceOf(op, du)]
            /\ v = setLeaves(tree, du, values)
            /\ u = Stopped(v, gens, unit) /\ h = stop(v, gens, unit).gens
      OBVIOUS
    <2>2. /\ tree' = u /\ gens' = h
          /\ Hold(mu.by, op, "start", du, mu.ee, m) /\ cwmp' = cwmp /\ usp' = usp
      BY <1>1, <1>5, <1>7, <2>1 DEF FetchedUpdate, Stopped
    <2>3. m \in DOMAIN Manifests
      <3>1. RecordOK(installed[du])
        BY <1>1, <1>3, <1>4 DEF Records
      <3>2. SourceOf(op, du) \in DOMAIN Serves
        BY <1>3, <3>1 DEF OpOK, SourceOf, RecordOK
      <3>3. answer.fault = ""
        BY <1>5, <1>7
      <3> QED BY <1>1, <3>2, <3>3, Answers
    <2>4. "UUID" \notin DOMAIN values
      BY <2>1
    <2>5. /\ v = setLeaves(tree, du, values) /\ R = DOMAIN installed
          /\ u = Stopped(v, gens, installed[du]) /\ h = stop(v, gens, installed[du]).gens
      BY <1>1, <2>1
    <2>6. /\ Runs(u, installed, h, R \ {du}, R) /\ SameUuids(tree, u, R)
          /\ HasRoom(u, ExecutionUnitTable)
      BY <1>3, <1>4, <2>4, <2>5, UnitLeaves
    <2>7. mu'.op = op /\ mu'.step = "start" /\ mu'.du = du /\ mu'.manifest = m
      BY <2>2, HeldIs DEF Hold
    <2>8. Raw(tree', du, "UUID") = op.uuid
      BY <1>4, <2>2, <2>6 DEF SameUuids
    <2>9. Replacing(tree', installed, gens', mu')
      BY <1>1, <1>2, <1>4, <2>2, <2>3, <2>6, <2>7, <2>8 DEF Replacing, OnUnit
    <2> QED BY <1>1, <1>2, <2>2, <2>6, <2>9, Holds DEF Operating
  <1> QED BY <1>6, <1>7


LEMMA RemovedOK ==
    ASSUME InventoryInv, ~disturbed, Removed
    PROVE  InventoryInv' /\ Reported
  <1>1. PICK op, du, R, S : /\ op = mu.op /\ du = mu.du
                            /\ R = DOMAIN installed /\ S = R \ {du}
    OBVIOUS
  <1>2. PICK uuid, version, res :
          /\ uuid = op.uuid /\ version = Manifests[mu.manifest].version
          /\ res = Result(op, uuid, version, "Uninstalled", "")
    OBVIOUS
  <1>3. /\ mu # Free /\ mu.step = "remove" /\ tree' = DeleteObject(tree, du).tree
        /\ installed' = Forget(du) /\ Return(mu.by, res) /\ gens' = gens
    BY <1>1, <1>2 DEF Removed
  <1>4. Removing(tree, installed, gens, mu) /\ Records(installed) /\ Named(tree, R)
    <2>1. ~Installing(tree, installed, gens, mu) /\ ~Replacing(tree, installed, gens, mu)
          /\ ~Updating(tree, installed, gens, mu)
      BY <1>3 DEF Installing, Replacing, Updating
    <2>2. Operating(tree, installed, gens, mu) /\ Records(installed)
          /\ Named(tree, DOMAIN installed)
      BY <1>3 DEF InventoryInv, ManagerOK
    <2> QED BY <1>1, <1>3, <2>1, <2>2 DEF Operating
  <1>5. /\ du \in R /\ Raw(tree, du, "UUID") = uuid /\ op.kind = "uninstall"
        /\ Runs(tree, installed, gens, S, R)
    BY <1>1, <1>2, <1>4 DEF Removing, OnUnit
  <1>6. S \subseteq DOMAIN installed /\ du \in DURows \ S /\ S \cup {du} = R
    BY <1>1, <1>4, <1>5 DEF Records
  <1>7. Runs(tree', installed, gens, S, S) /\ SameUuids(tree, tree', S)
    BY <1>3, <1>4, <1>5, <1>6, RowGoes
  <1>8. DOMAIN installed' = S /\ \A d \in S : installed'[d] = installed[d]
    BY <1>1, <1>3 DEF Forget
  <1>9. Runs(tree', installed', gens', DOMAIN installed', DOMAIN installed')
    BY <1>3, <1>7, <1>8, RunsAgree
  <1>10. Records(installed')
    BY <1>4, <1>6, <1>8 DEF Records
  <1>11. Named(tree', DOMAIN installed')
    BY <1>1, <1>4, <1>7, <1>8 DEF Named, SameUuids
  <1>12. \A d \in DOMAIN installed' : Raw(tree', d, "UUID") # uuid
    BY <1>1, <1>4, <1>5, <1>7, <1>8 DEF Named, SameUuids
  <1>13. res.kind = op.kind /\ res.fault = "" /\ res.uuid = uuid
    <2>1. res = Result(op, uuid, version, "Uninstalled", "")
      BY <1>2
    <2>2. Reports(res, op, uuid, version, "")
      BY ONLY <2>1, ResultIs
    <2>3. uuid = op.uuid
      BY <1>2
    <2> QED BY ONLY <2>2, <2>3 DEF Reports
  <1>14. TrueReport(res, installed, installed', tree')
    BY <1>5, <1>12, <1>13 DEF TrueReport
  <1> QED BY <1>3, <1>9, <1>10, <1>11, <1>14, Returns


\* start changes nothing unless the app fits, and then it succeeds.
Decided(inst, S, t, g, m, s) ==
    /\ Fits(Apps(inst, S), m) => s.fault = ""
    /\ ~Fits(Apps(inst, S), m) => Unstarted(t, g, s)

LEMMA StartDecided ==
    ASSUME NEW inst, Records(inst), NEW S, S \subseteq DOMAIN inst, NEW dus,
           NEW t, NEW g, Runs(t, inst, g, S, dus), HasRoom(t, ExecutionUnitTable),
           NEW m \in DOMAIN Manifests, Apart(Apps(inst, S), m),
           NEW ee, NEW s \in {start(t, g, m, ee)}
    PROVE  Decided(inst, S, t, g, m, s)
  <1>1. PICK ms, units : ms = Apps(inst, S) /\ units = dus \cup EUs(inst, S)
    OBVIOUS
  <1>2. Shape(t, ms, units) /\ AllFit(ms) /\ Apart(ms, m)
    BY <1>1, RecordsFit DEF Runs
  <1>3. CASE Fits(ms, m)
    <2>1. Started(t, ms, units, g, m, s)
      BY <1>2, <1>3, StartOK
    <2>2. s.fault = ""
      BY <2>1 DEF Started
    <2> QED BY <1>1, <1>3, <2>2 DEF Decided
  <1>4. CASE ~Fits(ms, m)
    <2>1. Unstarted(t, g, s)
      BY <1>2, <1>4, StartFails
    <2> QED BY <1>1, <1>4, <2>1 DEF Decided
  <1> QED BY <1>3, <1>4

RecordIs(unit, m, url, roots, eu) ==
    unit.manifest = m /\ unit.url = url /\ unit.roots = roots /\ unit.eu = eu

LEMMA UnitRecord ==
    ASSUME NEW m, NEW url, NEW roots, NEW eu, NEW ee, NEW unit,
           unit = [manifest |-> m, url |-> url, roots |-> roots, eu |-> eu, ee |-> ee]
    PROVE  RecordIs(unit, m, url, roots, eu)
  BY DEF RecordIs

LEMMA FinishInstallOK ==
    ASSUME InventoryInv, ~disturbed, mu # Free, mu.step = "start", Apart(Others, mu.manifest),
           NEW s \in {start(tree, gens, mu.manifest, mu.ee)}, FinishInstall(s)
    PROVE  InventoryInv' /\ Reported
  <1>1. PICK op, du, m, R, ee, uuid :
          /\ op = mu.op /\ du = mu.du /\ m = mu.manifest /\ R = DOMAIN installed
          /\ ee = mu.ee /\ uuid = UuidOf(op, m)
    OBVIOUS
  <1>2. op.kind = "install"
    BY <1>1 DEF FinishInstall
  <1>3. Installing(tree, installed, gens, mu) /\ Records(installed) /\ Named(tree, R)
        /\ OpOK(op)
    <2>1. ~Updating(tree, installed, gens, mu) /\ ~Replacing(tree, installed, gens, mu)
          /\ ~Removing(tree, installed, gens, mu)
      BY <1>1, <1>2 DEF Updating, Replacing, Removing
    <2>2. Operating(tree, installed, gens, mu) /\ Records(installed)
          /\ Named(tree, DOMAIN installed) /\ OpOK(mu.op)
      BY DEF InventoryInv, ManagerOK, HolderOK
    <2> QED BY <1>1, <2>1, <2>2 DEF Operating
  <1>4. /\ op.url \in DOMAIN Serves /\ du \in DURows \ R /\ HasRoom(tree, ExecutionUnitTable)
        /\ Runs(tree, installed, gens, R, R \cup {du}) /\ m \in DOMAIN Manifests
        /\ Raw(tree, du, "UUID") = uuid /\ Raw(tree, du, "Version") = Manifests[m].version
        /\ \A d \in R : Raw(tree, d, "UUID") # uuid
    BY <1>1, <1>3 DEF Installing, OpOK
  <1>5. /\ s \in {start(tree, gens, m, ee)} /\ R \subseteq DOMAIN installed
        /\ Apart(Apps(installed, R), m)
    <2>1. Others = Apps(installed, R \ {du}) /\ R \ {du} = R
      BY <1>1, <1>4 DEF Others, Apps
    <2> QED BY <1>1, <2>1
  <1>6. Decided(installed, R, tree, gens, m, s)
    BY <1>3, <1>4, <1>5, StartDecided
  <1>7. PICK version, fault, res :
          /\ version = Manifests[m].version /\ fault = s.fault
          /\ res = Result(op, uuid, version, "Installed", fault)
    OBVIOUS
  <1>8. Return(mu.by, res)
    BY <1>1, <1>7 DEF FinishInstall, UuidOf
  <1>9. Reports(res, op, uuid, version, fault)
    <2>1. res = Result(op, uuid, version, "Installed", fault)
      BY <1>7
    <2> QED BY ONLY <2>1, ResultIs
  <1>10. res.kind = op.kind /\ res.fault = fault /\ res.version = version /\ res.uuid = uuid
    <2>1. uuid = "" => op.uuid = ""
      BY <1>1 DEF UuidOf
    <2> QED BY ONLY <1>9, <2>1 DEF Reports
  <1>11. CASE ~Fits(Apps(installed, R), m)
    <2>1. s.fault # "" /\ s.tree = tree /\ s.gens = gens
      BY <1>6, <1>11 DEF Decided, Unstarted
    <2>2. tree' = DeleteObject(s.tree, du).tree /\ installed' = installed /\ gens' = gens
      BY <1>1, <2>1 DEF FinishInstall, undo
    <2>3. tree' = DeleteObject(tree, du).tree
      BY <2>1, <2>2, Zenon
    <2>4. Runs(tree', installed, gens, R, R) /\ SameUuids(tree, tree', R)
      BY <1>3, <1>4, <1>5, <2>3, RowGoes
    <2>5. res.fault # ""
      BY <1>7, <1>10, <2>1
    <2>6. /\ SameUuids(tree, tree', DOMAIN installed)
          /\ Runs(tree', installed, gens', DOMAIN installed, DOMAIN installed)
      BY <1>1, <2>2, <2>4
    <2> QED BY <1>8, <2>2, <2>5, <2>6, ReturnsFault
  <1>12. CASE Fits(Apps(installed, R), m)
    <2>1. s.fault = ""
      BY <1>6, <1>12 DEF Decided
    <2>2. PICK url, roots, eu, unit, values, inst2 :
            /\ url = op.url /\ roots = s.roots /\ eu = s.eu
            /\ unit = [manifest |-> m, url |-> url, roots |-> roots, eu |-> eu, ee |-> ee]
            /\ values = [Status |-> "Installed", Resolved |-> "true",
                         ExecutionUnitList |-> eu]
            /\ inst2 = installed'
      OBVIOUS
    <2>3. /\ inst2 = [d \in R \cup {du} |-> IF d = du THEN unit ELSE installed[d]]
          /\ tree' = syncActiveUnits(setLeaves(s.tree, du, values), inst2, ee)
          /\ gens' = s.gens
      BY <1>1, <2>1, <2>2 DEF FinishInstall
    <2>4. /\ DOMAIN inst2 = R \cup {du} /\ inst2[du] = unit
          /\ \A d \in R : inst2[d] = installed[d]
      BY <1>4, <2>3
    <2>5. RecordIs(unit, m, url, roots, eu)
      <3>1. unit = [manifest |-> m, url |-> url, roots |-> roots, eu |-> eu, ee |-> ee]
        BY <2>2
      <3> QED BY ONLY <3>1, UnitRecord
    <2>6. unit.manifest = m /\ unit.url \in DOMAIN Serves /\ unit.eu = s.eu /\ unit.roots = s.roots
      BY <1>4, <2>2, <2>5 DEF RecordIs
    <2>7. /\ "Status" \in DOMAIN values /\ values["Status"] = "Installed"
          /\ "UUID" \notin DOMAIN values /\ "Version" \notin DOMAIN values
      BY <2>2
    <2>0. Joins(Apps(installed, R), m)
      BY <1>5, <1>12 DEF Joins
    <2>8. /\ Records(inst2) /\ Runs(tree', inst2, s.gens, R \cup {du}, R \cup {du})
          /\ SameUuids(tree, tree', R \cup {du})
      BY <1>3, <1>4, <1>5, <2>0, <2>3, <2>4, <2>6, <2>7, UnitJoins
    <2>9. Named(tree', R \cup {du})
      BY <1>3, <1>4, <2>8 DEF Named, SameUuids
    <2>10. Raw(tree', du, "UUID") = uuid
      BY <1>4, <2>8 DEF SameUuids
    <2>11. /\ du \in DOMAIN inst2 /\ Raw(tree', du, "UUID") = res.uuid
           /\ Manifests[inst2[du].manifest].version = res.version
      BY <1>7, <1>10, <2>4, <2>6, <2>10
    <2>12. TrueReport(res, installed, inst2, tree')
      BY <1>2, <1>7, <1>10, <2>1, <2>11 DEF TrueReport
    <2> QED BY <1>8, <2>2, <2>3, <2>4, <2>8, <2>9, <2>12, Returns
  <1> QED BY <1>11, <1>12


\* The unit of an update runs again, as app k.
Rejoined(du, k) ==
    /\ Records(installed') /\ Named(tree', DOMAIN installed')
    /\ Runs(tree', installed', gens', DOMAIN installed', DOMAIN installed')
    /\ SameUuids(tree, tree', DOMAIN installed)
    /\ DOMAIN installed' = DOMAIN installed /\ installed'[du].manifest = k
    /\ \A d \in DOMAIN installed \ {du} : installed'[d] = installed[d]

LEMMA UnitRejoins ==
    ASSUME Records(installed), NEW R, R = DOMAIN installed, Named(tree, R), NEW du \in R,
           Runs(tree, installed, gens, R \ {du}, R), HasRoom(tree, ExecutionUnitTable),
           NEW k \in DOMAIN Manifests, Fits(Apps(installed, R \ {du}), k),
           Apart(Apps(installed, R \ {du}), k),
           NEW ee, NEW s \in {start(tree, gens, k, ee)}, NEW url \in DOMAIN Serves,
           NEW roots, NEW eu, roots = s.roots, eu = s.eu,
           NEW unit, RecordIs(unit, k, url, roots, eu),
           NEW values, values = [Name |-> Manifests[k].name, Version |-> Manifests[k].version,
                                 Status |-> "Installed", ExecutionUnitList |-> eu],
           installed' = [installed EXCEPT ![du] = unit],
           tree' = syncActiveUnits(setLeaves(s.tree, du, values), installed', ee),
           gens' = s.gens
    PROVE  Rejoined(du, k)
  <1>1. PICK S, inst2 : S = R \ {du} /\ inst2 = installed'
    OBVIOUS
  <1>2. S \subseteq DOMAIN installed /\ du \in DURows \ S /\ S \cup {du} = R
    BY <1>1 DEF Records
  <1>3. /\ Runs(tree, installed, gens, S, S \cup {du}) /\ Joins(Apps(installed, S), k)
    BY <1>1, <1>2 DEF Joins
  <1>4. /\ unit.manifest = k /\ unit.url \in DOMAIN Serves /\ unit.eu = s.eu
        /\ unit.roots = s.roots
    BY DEF RecordIs
  <1>5. /\ DOMAIN inst2 = S \cup {du} /\ inst2[du] = unit
        /\ \A d \in S : inst2[d] = installed[d]
    BY <1>1, <1>2
  <1>6. /\ "Status" \in DOMAIN values /\ values["Status"] = "Installed"
        /\ "UUID" \notin DOMAIN values /\ "Version" \in DOMAIN values
        /\ values["Version"] = Manifests[k].version
    OBVIOUS
  <1>7. tree' = syncActiveUnits(setLeaves(s.tree, du, values), inst2, ee)
    BY <1>1
  <1>8. /\ Records(inst2) /\ Runs(tree', inst2, s.gens, S \cup {du}, S \cup {du})
        /\ SameUuids(tree, tree', S \cup {du})
    BY <1>2, <1>3, <1>4, <1>5, <1>6, <1>7, UnitJoins
  <1>9. Named(tree', R)
    BY <1>2, <1>8, NamedKeeps
  <1> QED BY <1>1, <1>2, <1>4, <1>5, <1>8, <1>9 DEF Rejoined

LEMMA FinishUpdateOK ==
    ASSUME InventoryInv, ~disturbed, mu # Free, mu.step = "start", mu.op.kind = "update",
           Apart(Others, mu.manifest), NEW s \in {start(tree, gens, mu.manifest, mu.ee)}, NEW now \in {PutBack(s)},
           FinishUpdate(s, now)
    PROVE  InventoryInv' /\ Reported
  <1>1. PICK op, du, m, R, ee, old :
          /\ op = mu.op /\ du = mu.du /\ m = mu.manifest /\ R = DOMAIN installed
          /\ ee = mu.ee /\ old = installed[du].manifest
    OBVIOUS
  <1>2. Replacing(tree, installed, gens, mu) /\ Records(installed) /\ Named(tree, R)
        /\ OpOK(op)
    <2>1. ~Updating(tree, installed, gens, mu) /\ ~Installing(tree, installed, gens, mu)
          /\ ~Removing(tree, installed, gens, mu)
      BY DEF Updating, Installing, Removing
    <2>2. Operating(tree, installed, gens, mu) /\ Records(installed)
          /\ Named(tree, DOMAIN installed) /\ OpOK(mu.op)
      BY DEF InventoryInv, ManagerOK, HolderOK
    <2> QED BY <1>1, <2>1, <2>2 DEF Operating
  <1>3. /\ du \in R /\ Raw(tree, du, "UUID") = op.uuid /\ m \in DOMAIN Manifests
        /\ HasRoom(tree, ExecutionUnitTable) /\ Runs(tree, installed, gens, R \ {du}, R)
        /\ op.kind = "update"
    BY <1>1, <1>2 DEF Replacing, OnUnit
  <1>4. PICK S : S = R \ {du}
    OBVIOUS
  <1>5. /\ S \subseteq DOMAIN installed /\ s \in {start(tree, gens, m, ee)}
        /\ Runs(tree, installed, gens, S, R) /\ du \in DOMAIN installed \ S
        /\ Apart(Apps(installed, S), m)
    <2>1. Others = Apps(installed, S)
      BY <1>1, <1>4 DEF Others, Apps
    <2> QED BY <1>1, <1>3, <1>4, <2>1
  <1>6. Decided(installed, S, tree, gens, m, s)
    BY <1>2, <1>3, <1>5, StartDecided
  <1>7. /\ installed[du].url \in DOMAIN Serves /\ SourceOf(op, du) \in DOMAIN Serves
        /\ old \in DOMAIN Manifests
    <2>1. RecordOK(installed[du])
      BY <1>1, <1>2, <1>3 DEF Records
    <2> QED BY <1>1, <1>2, <2>1 DEF RecordOK, OpOK, SourceOf
  <1>8. PICK k, url, uuid, version, fault, res :
          /\ k = IF s.fault = "" THEN m ELSE old
          /\ url = IF s.fault = "" THEN SourceOf(op, du) ELSE installed[du].url
          /\ uuid = op.uuid /\ version = Manifests[k].version /\ fault = s.fault
          /\ res = Result(op, uuid, version, "Installed", fault)
    OBVIOUS
  <1>9. Return(mu.by, res) /\ gens' = now.gens
    BY <1>1, <1>8 DEF FinishUpdate
  <1>10. Reports(res, op, uuid, version, fault)
    <2>1. res = Result(op, uuid, version, "Installed", fault)
      BY <1>8
    <2> QED BY ONLY <2>1, ResultIs
  <1>11. res.kind = op.kind /\ res.fault = fault /\ res.version = version /\ res.uuid = uuid
    <2>1. uuid = op.uuid
      BY <1>8
    <2> QED BY ONLY <1>10, <2>1 DEF Reports
  <1>12. /\ now \in {start(tree, gens, k, ee)} /\ Fits(Apps(installed, S), k)
         /\ Apart(Apps(installed, S), k)
    <2>1. CASE Fits(Apps(installed, S), m)
      <3>1. s.fault = ""
        BY <1>6, <2>1 DEF Decided
      <3>2. now = s
        BY <3>1 DEF PutBack
      <3> QED BY <1>5, <1>8, <2>1, <3>1, <3>2
    <2>2. CASE ~Fits(Apps(installed, S), m)
      <3>1. s.fault # "" /\ s.tree = tree /\ s.gens = gens
        BY <1>6, <2>2 DEF Decided, Unstarted
      <3>2. now = start(s.tree, s.gens, old, ee)
        BY <1>1, <3>1 DEF PutBack
      <3>3. now = start(tree, gens, old, ee)
        BY <3>1, <3>2, Zenon
      <3>4. Fits(Apps(installed, S), old) /\ Apart(Apps(installed, S), old)
        BY <1>1, <1>2, <1>5, RecordsFit
      <3> QED BY <1>8, <3>1, <3>3, <3>4
    <2> QED BY <2>1, <2>2
  <1>13. k \in DOMAIN Manifests /\ url \in DOMAIN Serves
    BY <1>3, <1>7, <1>8
  <1>14. now.fault = ""
    <2>1. Decided(installed, S, tree, gens, k, now)
      BY <1>2, <1>3, <1>5, <1>12, <1>13, StartDecided
    <2> QED BY <1>12, <2>1 DEF Decided
  <1>15. PICK roots, eu, unit, values :
           /\ roots = now.roots /\ eu = now.eu
           /\ unit = [manifest |-> k, url |-> url, roots |-> roots, eu |-> eu, ee |-> ee]
           /\ values = [Name |-> Manifests[k].name, Version |-> Manifests[k].version,
                        Status |-> "Installed", ExecutionUnitList |-> eu]
    OBVIOUS
  <1>16. /\ installed' = [installed EXCEPT ![du] = unit]
         /\ tree' = syncActiveUnits(setLeaves(now.tree, du, values), installed', ee)
    BY <1>1, <1>8, <1>14, <1>15 DEF FinishUpdate
  <1>17. RecordIs(unit, k, url, roots, eu)
    <2>1. unit = [manifest |-> k, url |-> url, roots |-> roots, eu |-> eu, ee |-> ee]
      BY <1>15
    <2> QED BY ONLY <2>1, UnitRecord
  <1>18. Rejoined(du, k)
    BY <1>1, <1>2, <1>3, <1>4, <1>9, <1>12, <1>13, <1>15, <1>16, <1>17, UnitRejoins
  <1>19. TrueReport(res, installed, installed', tree')
    <2>1. CASE s.fault # ""
      <3>1. res.fault # "" /\ k = installed[du].manifest
        BY <1>1, <1>8, <1>11, <2>1
      <3> QED BY <1>18, <3>1 DEF TrueReport, Rejoined
    <2>2. CASE s.fault = ""
      <3>1. /\ res.fault = "" /\ res.kind = "update" /\ res.uuid = op.uuid
            /\ res.version = Manifests[k].version
        BY <1>3, <1>8, <1>11, <2>2
      <3>2. /\ du \in DOMAIN installed' /\ Raw(tree', du, "UUID") = op.uuid
            /\ installed'[du].manifest = k
        BY <1>1, <1>3, <1>18 DEF Rejoined, SameUuids
      <3> QED BY <3>1, <3>2 DEF TrueReport
    <2> QED BY <2>1, <2>2
  <1> QED BY <1>9, <1>18, <1>19, Returns DEF Rejoined


-----------------------------------------------------------------------------
(* The steps of everybody else *)

LEMMA AsideKeeps ==
    ASSUME NEW inst, Records(inst), NEW t, NEW row, NEW values,
           DOMAIN values \cap Tracked = {}, NEW u, u = setLeaves(t, row, values),
           NEW g, NEW S, S \subseteq DOMAIN inst, NEW dus, Runs(t, inst, g, S, dus)
    PROVE  Runs(u, inst, g, S, dus) /\ KeepsRaw(t, u, UnitRows)
  <1>1. PICK ms, units : ms = Apps(inst, S) /\ units = dus \cup EUs(inst, S)
    OBVIOUS
  <1>2. Shape(t, ms, units)
    BY <1>1 DEF Runs
  <1>3. Shape(u, ms, units) /\ KeepsRaw(t, u, UnitRows)
    BY <1>2, WriteAside
  <1>4. S \cup EUs(inst, S) \subseteq UnitRows
    BY RecordsFit, RowsDiffer
  <1>5. KeepsRaw(t, u, S \cup EUs(inst, S))
    BY <1>3, <1>4, KeepsUuids
  <1>6. Runs(u, inst, g, S, dus)
    BY <1>1, <1>3, <1>5, RunsKeeps
  <1> QED BY <1>3, <1>6

\* A write of leaves that no property reads, while the manager is at work or not.
LEMMA AsideOK ==
    ASSUME NEW t, NEW inst, NEW g, NEW h, ManagerOK(t, inst, g, h), NEW row, NEW values,
           DOMAIN values \cap Tracked = {}, NEW u, u = setLeaves(t, row, values)
    PROVE  ManagerOK(u, inst, g, h)
  <1>1. Records(inst) /\ Named(t, DOMAIN inst) /\ DOMAIN inst \subseteq DURows
    BY DEF ManagerOK, Records
  <1>2. PICK S, dus : S \subseteq DOMAIN inst /\ Runs(t, inst, g, S, dus)
    BY DEF ManagerOK, Operating, Installing, Updating, Replacing, Removing
  <1>3. KeepsRaw(t, u, UnitRows)
    BY <1>1, <1>2, AsideKeeps
  <1>4. \A d \in DURows : \A name \in Tracked : Raw(u, d, name) = Raw(t, d, name)
    BY <1>3, RowsDiffer DEF KeepsRaw
  <1>5. \A d \in DURows : /\ Raw(u, d, "UUID") = Raw(t, d, "UUID")
                          /\ Raw(u, d, "Version") = Raw(t, d, "Version")
    BY <1>4 DEF Tracked
  <1>6. Named(u, DOMAIN inst)
    BY <1>1, <1>5 DEF Named
  <1>7. HasRoom(t, ExecutionUnitTable) => HasRoom(u, ExecutionUnitTable)
    <2>1. DOMAIN u = DOMAIN t
      BY DEF setLeaves
    <2> QED BY <2>1 DEF HasRoom
  <1>8. \A T, rows : T \subseteq DOMAIN inst /\ Runs(t, inst, g, T, rows)
                     => Runs(u, inst, g, T, rows)
    BY <1>1, AsideKeeps
  <1>9. h = Free => Runs(u, inst, g, DOMAIN inst, DOMAIN inst)
    BY <1>8 DEF ManagerOK
  <1>10. ASSUME h # Free
         PROVE  Operating(u, inst, g, h)
    <2>1. Operating(t, inst, g, h)
      BY <1>10 DEF ManagerOK
    <2>2. CASE h.step = "begin" /\ Runs(t, inst, g, DOMAIN inst, DOMAIN inst)
      BY <1>8, <2>2 DEF Operating
    <2>3. CASE Installing(t, inst, g, h)
      <3>1. Runs(u, inst, g, DOMAIN inst, DOMAIN inst \cup {h.du})
        BY <1>8, <2>3 DEF Installing
      <3>2. h.du \in DURows
        BY <2>3 DEF Installing
      <3>3. Installing(u, inst, g, h)
        BY <1>1, <1>5, <1>7, <2>3, <3>1, <3>2 DEF Installing
      <3> QED BY <3>3 DEF Operating
    <2>4. CASE Updating(t, inst, g, h)
      <3>1. Updating(u, inst, g, h)
        BY <1>1, <1>5, <1>8, <2>4 DEF Updating, OnUnit
      <3> QED BY <3>1 DEF Operating
    <2>5. CASE Replacing(t, inst, g, h)
      <3>1. Runs(u, inst, g, DOMAIN inst \ {h.du}, DOMAIN inst)
        BY <1>8, <2>5 DEF Replacing
      <3>2. Replacing(u, inst, g, h)
        BY <1>1, <1>5, <1>7, <2>5, <3>1 DEF Replacing, OnUnit
      <3> QED BY <3>2 DEF Operating
    <2>6. CASE Removing(t, inst, g, h)
      <3>1. Runs(u, inst, g, DOMAIN inst \ {h.du}, DOMAIN inst)
        BY <1>8, <2>6 DEF Removing
      <3>2. Removing(u, inst, g, h)
        BY <1>1, <1>5, <2>6, <3>1 DEF Removing, OnUnit
      <3> QED BY <3>2 DEF Operating
    <2> QED BY <2>1, <2>2, <2>3, <2>4, <2>5, <2>6 DEF Operating
  <1> QED BY <1>1, <1>6, <1>9, <1>10 DEF ManagerOK

LEMMA ToggleOK ==
    ASSUME InventoryInv, ~disturbed, ToggleExecEnv
    PROVE  InventoryInv' /\ mu' = mu
  <1>1. PICK v : tree' = setLeaves(tree, Append(ExecEnvTable, "1"), [Enable |-> v])
    BY DEF ToggleExecEnv
  <1>2. PICK values : values = [Enable |-> v]
    OBVIOUS
  <1>3. DOMAIN values \cap Tracked = {}
    BY <1>2 DEF Tracked
  <1>4. tree' = setLeaves(tree, Append(ExecEnvTable, "1"), values)
    BY <1>1, <1>2
  <1>5. ManagerOK(tree, installed, gens, mu) /\ JobsOK(cwmp) /\ AgentOK(usp) /\ HolderOK(mu)
    BY DEF InventoryInv
  <1>6. ManagerOK(tree', installed, gens, mu)
    BY <1>3, <1>4, <1>5, AsideOK
  <1>7. UNCHANGED <<installed, gens, mu, cwmp, usp, disturbed>>
    BY DEF ToggleExecEnv
  <1> QED BY <1>5, <1>6, <1>7 DEF InventoryInv

\* A row somebody else asks for and does not get changes nothing.
LEMMA RefusedOK ==
    ASSUME InventoryInv, ~disturbed, UNCHANGED <<tree, installed, gens, mu, cwmp, usp>>
    PROVE  InventoryInv'
  BY DEF InventoryInv

LEMMA AddInstanceOK ==
    ASSUME InventoryInv, ~disturbed, NEW p, AddInstance(p)
    PROVE  InventoryInv' /\ mu' = mu
  <1>1. UNCHANGED <<installed, gens, mu, cwmp, usp>>
    BY DEF AddInstance
  <1>2. CASE AddObject(tree, p).err = ""
    <2>1. disturbed'
      BY <1>2 DEF AddInstance
    <2> QED BY <1>1, <2>1 DEF InventoryInv
  <1>3. CASE AddObject(tree, p).err # ""
    <2>1. AddObject(tree, p).tree = tree
      BY <1>3 DEF AddObject, NotAdded
    <2>2. tree' = tree
      BY <2>1 DEF AddInstance
    <2> QED BY <1>1, <2>2, RefusedOK
  <1> QED BY <1>2, <1>3

LEMMA DeleteInstanceOK ==
    ASSUME InventoryInv, ~disturbed, NEW p, DeleteInstance(p)
    PROVE  InventoryInv' /\ mu' = mu
  <1>1. UNCHANGED <<installed, gens, mu, cwmp, usp>>
    BY DEF DeleteInstance
  <1>2. CASE DeleteObject(tree, p).err = ""
    <2>1. disturbed'
      BY <1>2 DEF DeleteInstance
    <2> QED BY <1>1, <2>1 DEF InventoryInv
  <1>3. CASE DeleteObject(tree, p).err # ""
    <2>1. DeleteObject(tree, p).tree = tree
      BY <1>3 DEF DeleteObject, Failed, Done
    <2>2. tree' = tree
      BY <2>1 DEF DeleteInstance
    <2> QED BY <1>1, <2>2, RefusedOK
  <1> QED BY <1>2, <1>3

\* The lock is taken for an operation somebody has asked for.
LEMMA LockOK ==
    ASSUME InventoryInv, ~disturbed, UNCHANGED <<tree, installed, gens, cwmp, usp, disturbed>>,
           NEW by \in Jobs \cup {"usp"}, NEW op, OpOK(op), Lock(by, op)
    PROVE  InventoryInv' /\ mu' # Free
  <1>1. mu' # Free /\ mu'.by = by /\ mu'.op = op /\ mu'.step = "begin"
    BY HeldIs DEF Lock, Hold
  <1>2. /\ mu = Free /\ ManagerOK(tree, installed, gens, mu) /\ JobsOK(cwmp) /\ AgentOK(usp)
    BY DEF InventoryInv, Lock
  <1>3. Records(installed) /\ Named(tree, DOMAIN installed)
        /\ Runs(tree, installed, gens, DOMAIN installed, DOMAIN installed)
    BY <1>2 DEF ManagerOK
  <1>4. ManagerOK(tree, installed, gens, mu')
    BY <1>1, <1>3 DEF ManagerOK, Operating
  <1>5. HolderOK(mu')
    BY <1>1 DEF HolderOK
  <1> QED BY <1>1, <1>2, <1>4, <1>5 DEF InventoryInv

\* The callers change nothing but what they have asked for.
LEMMA CallersOK ==
    ASSUME InventoryInv, ~disturbed, UNCHANGED <<tree, installed, gens, mu, disturbed>>,
           JobsOK(cwmp'), AgentOK(usp')
    PROVE  InventoryInv' /\ mu' = mu
  BY DEF InventoryInv


LEMMA CwmpOK ==
    ASSUME InventoryInv, ~disturbed, NEW j \in Jobs,
           ChangeDUState(j) \/ CwmpRun(j) \/ CwmpReport(j)
    PROVE  InventoryInv' /\ (mu' = mu \/ mu' # Free)
  <1>1. JobsOK(cwmp) /\ AgentOK(usp) /\ JobOK(cwmp[j])
    BY DEF InventoryInv, JobsOK
  <1>2. ASSUME NEW job, JobOK(job), cwmp' = [cwmp EXCEPT ![j] = job]
        PROVE  JobsOK(cwmp')
    BY <1>1, <1>2 DEF JobsOK
  <1>3. CASE ChangeDUState(j)
    <2>1. PICK req \in Requests :
            cwmp' = [cwmp EXCEPT ![j] = [phase |-> "running", ops |-> req, results |-> <<>>]]
      BY <1>3 DEF ChangeDUState
    <2>2. PICK job : job = [phase |-> "running", ops |-> req, results |-> <<>>]
      OBVIOUS
    <2>3. JobOK(job)
      <3>1. <<>> \in Seq({})
        OBVIOUS
      <3>2. \A i \in DOMAIN req : OpOK(req[i])
        BY OperationsAssumption DEF OpOK
      <3>3. DOMAIN job = {"phase", "ops", "results"} /\ job.ops = req /\ job.results = <<>>
        BY <2>2
      <3> QED BY <3>1, <3>2, <3>3 DEF JobOK
    <2>4. JobsOK(cwmp')
      BY <1>2, <2>1, <2>2, <2>3
    <2>5. UNCHANGED <<tree, installed, gens, mu, usp, disturbed>>
      BY <1>3 DEF ChangeDUState
    <2> QED BY <1>1, <2>4, <2>5, CallersOK
  <1>4. CASE CwmpRun(j)
    <2>1. PICK op : op = cwmp[j].ops[Len(cwmp[j].results) + 1]
      OBVIOUS
    <2>2. /\ Lock(j, op) /\ UNCHANGED <<tree, installed, gens, cwmp, usp, disturbed>>
          /\ Len(cwmp[j].results) + 1 \in DOMAIN cwmp[j].ops
      BY <1>4, <2>1 DEF CwmpRun
    <2>3. OpOK(op)
      BY <1>1, <2>1, <2>2 DEF JobOK
    <2> QED BY <2>2, <2>3, LockOK
  <1>5. CASE CwmpReport(j)
    <2>1. PICK job : job = [NoJob EXCEPT !.phase = "reported"]
      OBVIOUS
    <2>2. JobOK(job)
      <3>1. <<>> \in Seq({})
        OBVIOUS
      <3>2. DOMAIN job = {"phase", "ops", "results"} /\ job.ops = <<>> /\ job.results = <<>>
        BY <2>1 DEF NoJob
      <3> QED BY <3>1, <3>2 DEF JobOK
    <2>3. JobsOK(cwmp')
      BY <1>2, <1>5, <2>1, <2>2 DEF CwmpReport
    <2>4. UNCHANGED <<tree, installed, gens, mu, usp, disturbed>>
      BY <1>5 DEF CwmpReport
    <2> QED BY <1>1, <2>3, <2>4, CallersOK
  <1> QED BY <1>3, <1>4, <1>5

LEMMA UspOK ==
    ASSUME InventoryInv, ~disturbed,
           UspOperate \/ UspCheck \/ UspRun \/ UspReport \/ UspRelease
    PROVE  InventoryInv' /\ (mu' = mu \/ mu' # Free)
  <1>1. JobsOK(cwmp) /\ AgentOK(usp)
    BY DEF InventoryInv
  <1>2. CASE UspOperate
    <2>1. PICK c, op :
            /\ c \in Commands
            /\ op = IF c.kind = "install" THEN c
                    ELSE [c EXCEPT !.uuid = Raw(tree, c.du, "UUID")]
            /\ usp' = usp \/ usp' = [usp EXCEPT !.handler = "check", !.op = op]
      BY <1>2 DEF UspOperate
    <2>2. OpOK(op)
      BY <2>1, OperationsAssumption DEF OpOK
    <2>3. AgentOK(usp')
      BY <1>1, <2>1, <2>2 DEF AgentOK
    <2>4. UNCHANGED <<tree, installed, gens, mu, cwmp, disturbed>>
      BY <1>2 DEF UspOperate
    <2> QED BY <1>1, <2>3, <2>4, CallersOK
  <1>3. CASE UspCheck
    <2>1. \/ usp' = [usp EXCEPT !.handler = "idle", !.op = <<>>]
          \/ usp' = [usp EXCEPT !.handler = "idle", !.op = <<>>, !.async = "run",
                                !.run = usp.op]
      BY <1>3 DEF UspCheck
    <2>2. OpOK(usp.op)
      BY <1>1, <1>3 DEF UspCheck, AgentOK
    <2>3. AgentOK(usp')
      BY <1>1, <2>1, <2>2 DEF AgentOK
    <2>4. UNCHANGED <<tree, installed, gens, mu, cwmp, disturbed>>
      BY <1>3 DEF UspCheck
    <2> QED BY <1>1, <2>3, <2>4, CallersOK
  <1>4. CASE UspRun
    <2>1. /\ Lock("usp", usp.run) /\ UNCHANGED <<tree, installed, gens, cwmp, usp, disturbed>>
          /\ usp.async = "run"
      BY <1>4 DEF UspRun
    <2>2. OpOK(usp.run)
      BY <1>1, <2>1 DEF AgentOK
    <2> QED BY <2>1, <2>2, LockOK
  <1>5. CASE UspReport
    <2>1. AgentOK(usp')
      BY <1>1, <1>5 DEF UspReport, AgentOK
    <2>2. UNCHANGED <<tree, installed, gens, mu, cwmp, disturbed>>
      BY <1>5 DEF UspReport
    <2> QED BY <1>1, <2>1, <2>2, CallersOK
  <1>6. CASE UspRelease
    <2>1. AgentOK(usp')
      BY <1>1, <1>6 DEF UspRelease, AgentOK
    <2>2. UNCHANGED <<tree, installed, gens, mu, cwmp, disturbed>>
      BY <1>6 DEF UspRelease
    <2> QED BY <1>1, <2>1, <2>2, CallersOK
  <1> QED BY <1>2, <1>3, <1>4, <1>5, <1>6

\* A step of the operation that holds the lock.
Operate == Begin \/ Fetch \/ Start \/ Removed

LEMMA OperateOK ==
    ASSUME InventoryInv, ~disturbed, Operate
    PROVE  InventoryInv' /\ (~disturbed' => Reported)
  <1>1. CASE Begin
    <2>1. /\ mu # Free /\ mu.step = "begin"
          /\ \/ BeginInstall(mu.by, mu.op)
             \/ BeginUpdate(mu.by, mu.op)
             \/ BeginUninstall(mu.by, mu.op)
      BY <1>1 DEF Begin
    <2> QED BY <2>1, BeginInstallOK, BeginUpdateOK, BeginUninstallOK
  <1>2. CASE Fetch
    <2>1. mu # Free /\ mu.step = "fetch"
      BY <1>2 DEF Fetch
    <2>2. PICK answer \in Serves[SourceOf(mu.op, mu.du)] :
            FetchedInstall(answer) \/ FetchedUpdate(answer)
      BY <1>2 DEF Fetch
    <2> QED BY <2>1, <2>2, FetchedInstallOK, FetchedUpdateOK
  <1>3. CASE Start
    <2>1. mu # Free /\ mu.step = "start"
      BY <1>3 DEF Start
    <2>2. PICK s \in {start(tree, gens, mu.manifest, mu.ee)} :
            \/ FinishInstall(s)
            \/ /\ mu.op.kind = "update"
               /\ \E now \in {PutBack(s)} : FinishUpdate(s, now)
      BY <1>3 DEF Start
    <2>3. CASE Apart(Others, mu.manifest)
      BY <2>1, <2>2, <2>3, FinishInstallOK, FinishUpdateOK
    <2>4. CASE ~Apart(Others, mu.manifest)
      <3>1. disturbed'
        BY <1>3, <2>4 DEF Start
      <3> QED BY <3>1 DEF InventoryInv
    <2> QED BY <2>3, <2>4
  <1>4. CASE Removed
    BY <1>4, RemovedOK
  <1> QED BY <1>1, <1>2, <1>3, <1>4 DEF Operate

LEMMA InventoryInit == Init => InventoryInv
  <1> SUFFICES ASSUME Init PROVE InventoryInv
    OBVIOUS
  <1>1. tree = Factory /\ installed = <<>> /\ gens = {} /\ mu = Free
        /\ cwmp = [j \in Jobs |-> NoJob] /\ usp = Idle
    BY DEF Init
  <1>2. DOMAIN installed = {}
    BY <1>1
  <1>3. /\ Apps(installed, DOMAIN installed) = {} /\ EUs(installed, DOMAIN installed) = {}
        /\ Gens(installed, DOMAIN installed) = {}
    BY <1>2 DEF Apps, EUs, Gens
  <1>4. Shape(Factory, {}, {})
    <2>1. \A q \in DOMAIN Factory : Factory[q].kind = "leaf" => DOMAIN Factory[q] = Fields
      BY FactoryAssumption DEF IsTree, isLeaf
    <2> QED BY <2>1 DEF Shape, Like
  <1>5. Runs(tree, installed, gens, DOMAIN installed, DOMAIN installed)
    BY <1>1, <1>2, <1>3, <1>4 DEF Runs
  <1>6. ManagerOK(tree, installed, gens, mu)
    BY <1>1, <1>2, <1>5 DEF ManagerOK, Records, Named
  <1>7. JobsOK(cwmp)
    <2>1. JobOK(NoJob)
      <3>1. <<>> \in Seq({})
        OBVIOUS
      <3> QED BY <3>1 DEF JobOK, NoJob
    <2> QED BY <1>1, <2>1 DEF JobsOK
  <1>8. AgentOK(usp)
    BY <1>1 DEF AgentOK, Idle
  <1>9. HolderOK(mu)
    BY <1>1 DEF HolderOK
  <1> QED BY <1>6, <1>7, <1>8, <1>9 DEF InventoryInv

LEMMA InventoryStep ==
    ASSUME InventoryInv, [Next]_vars
    PROVE  InventoryInv' /\ (Returning /\ ~disturbed' => Reported)
  <1>1. CASE disturbed
    <2>1. disturbed'
      BY <1>1 DEF Next, vars, ChangeDUState, CwmpRun, CwmpReport, UspOperate, UspCheck,
                  UspRun, UspReport, UspRelease, Begin, Fetch, Start, Removed,
                  ToggleExecEnv, FactoryReset, AddInstance, DeleteInstance, Settled
    <2> QED BY <1>1, <2>1 DEF InventoryInv
  <1>2. CASE ~disturbed
    <2>1. CASE \E j \in Jobs : ChangeDUState(j) \/ CwmpRun(j) \/ CwmpReport(j)
      BY <1>2, <2>1, CwmpOK DEF Returning
    <2>2. CASE UspOperate \/ UspCheck \/ UspRun \/ UspReport \/ UspRelease
      BY <1>2, <2>2, UspOK DEF Returning
    <2>3. CASE Begin \/ Fetch \/ Start \/ Removed
      BY <1>2, <2>3, OperateOK DEF Operate
    <2>4. CASE ToggleExecEnv
      BY <1>2, <2>4, ToggleOK DEF Returning
    <2>5. CASE FactoryReset
      <3>1. disturbed' = TRUE /\ mu' = mu
        BY <2>5 DEF FactoryReset
      <3> QED BY <3>1 DEF InventoryInv, Returning
    <2>6. CASE \E p \in RowAdds : AddInstance(p)
      BY <1>2, <2>6, AddInstanceOK DEF Returning
    <2>7. CASE \E p \in RowDeletes : DeleteInstance(p)
      BY <1>2, <2>7, DeleteInstanceOK DEF Returning
    <2>8. CASE UNCHANGED vars
      <3>1. /\ UNCHANGED <<tree, installed, gens, mu, disturbed>>
            /\ UNCHANGED <<cwmp, usp>>
        BY <2>8 DEF vars
      <3>2. JobsOK(cwmp') /\ AgentOK(usp')
        BY <1>2, <3>1 DEF InventoryInv
      <3> QED BY <1>2, <3>1, <3>2, CallersOK DEF Returning
    <2> QED BY <2>1, <2>2, <2>3, <2>4, <2>5, <2>6, <2>7, <2>8 DEF Next, Settled
  <1> QED BY <1>1, <1>2

LEMMA InventoryHolds ==
    ASSUME InventoryInv
    PROVE  Inventory
  <1> SUFFICES ASSUME mu = Free, ~disturbed PROVE Inventory
    BY DEF Inventory
  <1>1. PICK R, units : R = DOMAIN installed /\ units = R \cup EUs(installed, R)
    OBVIOUS
  <1>2. Records(installed) /\ Named(tree, R) /\ Runs(tree, installed, gens, R, R)
    BY <1>1 DEF InventoryInv, ManagerOK
  <1>3. R \subseteq DURows /\ EUs(installed, R) \subseteq EURows
    BY <1>1, <1>2, RecordsFit
  <1>4. Shape(tree, Apps(installed, R), units)
    BY <1>1, <1>2 DEF Runs
  <1>5. Rows(DeploymentUnitTable) = R
    <2>1. Instances(tree, DeploymentUnitTable) = units \cap DURows
      BY <1>4, ShapeInstances
    <2> QED BY <1>1, <1>3, <2>1, RowsDiffer DEF Rows
  <1>6. Rows(ExecutionUnitTable) = {installed[d].eu : d \in R}
    <2>1. Instances(tree, ExecutionUnitTable) = units \cap EURows
      BY <1>4, ShapeInstances
    <2>2. units \cap EURows = EUs(installed, R)
      BY <1>1, <1>3, RowsDiffer
    <2> QED BY <2>1, <2>2 DEF Rows, EUs
  <1>7. \A d \in R : UnitOK(tree, d, installed[d])
    BY <1>2 DEF Runs
  <1>8. \A d \in R : /\ Raw(tree, d, "Status") = "Installed"
                     /\ Raw(tree, d, "Version") = Installation(d).version
                     /\ Raw(tree, installed[d].eu, "Status") = "Active"
                     /\ Raw(tree, installed[d].eu, "Name") = Installation(d).name
    BY <1>7 DEF UnitOK, Installation
  <1>9. \A d \in R : \A e \in R \ {d} : /\ Raw(tree, e, "UUID") # Raw(tree, d, "UUID")
                                        /\ installed[e].eu # installed[d].eu
    BY <1>1, <1>2 DEF Records, Named
  <1>10. Outside(tree) = Outside(Factory) \cup
           UNION {DOMAIN Installation(d).tree : d \in R}
    <2>1. Outside(tree) = Outside(Factory) \cup
            UNION {DOMAIN App(m) : m \in Apps(installed, R)}
      BY <1>4, ShapeOutside
    <2>2. UNION {DOMAIN App(m) : m \in Apps(installed, R)}
          = UNION {DOMAIN Installation(d).tree : d \in R}
      BY DEF Apps, App, Installation
    <2> QED BY <2>1, <2>2
  <1>11. gens = UNION {Installation(d).gens : d \in R}
    BY <1>2 DEF Runs, Gens, Installation
  <1> QED BY <1>1, <1>5, <1>6, <1>8, <1>9, <1>10, <1>11 DEF Inventory

-----------------------------------------------------------------------------
(* The theorems *)

\* Between two operations the inventory is the truth, for any profile, apps and
\* requests: the rows of the unit tables, their states and versions, the data
\* model outside the software modules object and the generators are those of the
\* units on record, whatever fault struck an install, an update or an uninstall
\* (manager.go: every fault path takes back what it had added).  The exceptions
\* are those of Inventory: a factory reset, a row somebody else added or deleted
\* (AddObject, DeleteObject, Add, Delete), an app that is not Apart.
THEOREM InventoryTrue == Spec => []Inventory
  <1>1. Init => InventoryInv
    BY InventoryInit
  <1>2. InventoryInv /\ [Next]_vars => InventoryInv'
    BY InventoryStep
  <1>3. InventoryInv => Inventory
    BY InventoryHolds
  <1> QED BY <1>1, <1>2, <1>3, PTL DEF Spec

\* What an operation reports is what it did: with a fault the units and their
\* versions are the ones it found, the version an update could not replace put
\* back; without one the unit is installed at the version named, or gone
\* (manager.go install, update, uninstall).  Excepted as in Inventory.
THEOREM ReportsTrue == Spec => ResultsTrue
  <1>1. Init => InventoryInv
    BY InventoryInit
  <1>2. InventoryInv /\ [Next]_vars => InventoryInv'
    BY InventoryStep
  <1>3. ASSUME InventoryInv, Next, Returning, ~disturbed'
        PROVE  TrueReport(Returned, installed, installed', tree')
    BY <1>3, InventoryStep DEF Returning, Reported
  <1>4. InventoryInv /\ [Next]_vars =>
          [Returning /\ ~disturbed' =>
             LET res == Returned
                 at(d) == Manifests[installed'[d].manifest].version
             IN  IF res.fault # ""
                 THEN /\ DOMAIN installed' = DOMAIN installed
                      /\ \A d \in DOMAIN installed :
                           installed'[d].manifest = installed[d].manifest
                 ELSE IF res.kind = "uninstall"
                 THEN \A d \in DOMAIN installed' : Raw(tree', d, "UUID") # res.uuid
                 ELSE \E d \in DOMAIN installed' :
                        Raw(tree', d, "UUID") = res.uuid /\ at(d) = res.version]_vars
    BY <1>3 DEF TrueReport
  <1> QED BY <1>1, <1>2, <1>4, PTL DEF Spec, ResultsTrue


=============================================================================
