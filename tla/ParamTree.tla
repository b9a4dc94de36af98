------------------------------ MODULE ParamTree ------------------------------
(***************************************************************************)
(* The parameter tree of one CPE (internal/paramtree): values, tables and  *)
(* their templates, attributes, atomic batches, grafts.  A tree is a       *)
(* function from paths (sequences of names) to nodes whose domain is       *)
(* closed under prefixes and holds the root <<>>.  Every operator below is *)
(* one critical section of Tree.mu.  A writer returns                      *)
(*                                                                         *)
(*    [tree, err, changes]                                                 *)
(*                                                                         *)
(* with the tree after it, "" or the kind of its error, and the changes it *)
(* hands to the observers once the lock is free, in order.                 *)
(***************************************************************************)
EXTENDS Naturals, Sequences, FiniteSets, SequencesExt

CONSTANTS
  Counters,   \* the name of a table |-> the name of its entry counter
  Names       \* the names paths are made of

(***************************************************************************)
(* Itoa(n) is strconv.Itoa for the numbers a small instance reaches; a     *)
(* name is an instance number when it is one of them other than "0".       *)
(***************************************************************************)
Digits == <<"0", "1", "2", "3", "4">>
Itoa(n) == Digits[n + 1]
MaxInstance == Len(Digits) - 1
InstanceNames == {Itoa(n) : n \in 1 .. MaxInstance}

(* A path has no empty segment, and two tables never share a counter. *)
ASSUME NamesAssumption ==
  /\ InstanceNames \subseteq Names /\ "" \notin Names
  /\ \A n \in DOMAIN Counters : n \in Names /\ Counters[n] \in Names
  /\ \A m, n \in DOMAIN Counters : Counters[m] = Counters[n] => m = n

(***************************************************************************)
(* Nodes.  A leaf has a type, a raw value, the Writable flag and its       *)
(* attributes; a table keeps the template its instances are cloned from.   *)
(***************************************************************************)
NoAttributes == [notification |-> 0, access |-> "default"]
NewLeaf(type, raw, writable) ==
  [kind |-> "leaf", type |-> type, raw |-> raw, writable |-> writable,
   attrs |-> NoAttributes]
NewBranch == [kind |-> "branch"]
NewTable(template) == [kind |-> "table", template |-> template]

(* What each type accepts: a string any value, a number digits, a boolean its
   four lexical forms; and the canonical form an answer carries. *)
Truths == {"1", "true"}
Falsehoods == {"0", "false"}
Validate(type, raw) ==
  \/ type = "string"
  \/ type = "unsignedInt" /\ raw \in Range(Digits)
  \/ type = "boolean" /\ raw \in Truths \cup Falsehoods
marshalBoolean(raw) == IF raw \in Truths THEN "true" ELSE "false"
Marshal(type, raw) == IF type = "boolean" THEN marshalBoolean(raw) ELSE raw

(* parsePath refuses an empty segment; every other name here is well formed. *)
parsePath(p) == "" \notin Range(p)

isLeaf(t, p) == p \in DOMAIN t /\ t[p].kind = "leaf"
isTable(t, p) == p \in DOMAIN t /\ t[p].kind = "table"
Children(t, p) == {q \in DOMAIN t : q # <<>> /\ Front(q) = p}
Leaves(t, p) == {q \in DOMAIN t : IsPrefix(p, q) /\ isLeaf(t, q)}
Instances(t, p) == {q \in Children(t, p) : Last(q) \in InstanceNames}

(***************************************************************************)
(* Tree surgery: clone a subtree in at p, cut the subtree at p out.        *)
(***************************************************************************)
Attach(t, p, sub) ==
  [q \in DOMAIN t \cup {p \o r : r \in DOMAIN sub} |->
     IF q \in DOMAIN t THEN t[q] ELSE sub[SubSeq(q, Len(p) + 1, Len(q))]]
Detach(t, p) == [q \in {r \in DOMAIN t : ~IsPrefix(p, r)} |-> t[q]]
Subtree(t, p) ==
  [r \in {SubSeq(q, Len(p) + 1, Len(q)) : q \in {s \in DOMAIN t : IsPrefix(p, s)}}
     |-> t[p \o r]]

Failed(t, err) == [tree |-> t, err |-> err, changes |-> <<>>]
Done(t, changes) == [tree |-> t, err |-> "", changes |-> changes]
ValueChange(p) == [path |-> p, kind |-> "value"]
Created(p) == [path |-> p, kind |-> "created"]
Deleted(p) == [path |-> p, kind |-> "deleted"]

(* A change is announced only where the raw value moved. *)
Moved(t, p, raw) == IF t[p].raw = raw THEN <<>> ELSE <<ValueChange(p)>>

(***************************************************************************)
(* Set: the whole Value is replaced, its Writable flag with it.  SetSystem *)
(* ignores Writable and keeps everything but the raw value.                *)
(***************************************************************************)
Set(t, p, v) ==
  IF ~parsePath(p) THEN Failed(t, "invalid")
  ELSE IF ~isLeaf(t, p) THEN Failed(t, "notFound")
  ELSE IF \/ ~t[p].writable
          \/ t[p].type # v.type
          \/ ~Validate(v.type, v.raw)
       THEN Failed(t, "invalid")
  ELSE Done([t EXCEPT ![p].raw = v.raw, ![p].writable = v.writable],
            Moved(t, p, v.raw))

SetSystem(t, p, raw) ==
  IF ~parsePath(p) THEN Failed(t, "invalid")
  ELSE IF ~isLeaf(t, p) THEN Failed(t, "notFound")
  ELSE IF ~Validate(t[p].type, raw) THEN Failed(t, "invalid")
  ELSE Done([t EXCEPT ![p].raw = raw], Moved(t, p, raw))

SetAttributes(t, p, attrs) ==
  IF ~parsePath(p) THEN Failed(t, "invalid")
  ELSE IF ~isLeaf(t, p) THEN Failed(t, "notFound")
  ELSE Done([t EXCEPT ![p].attrs = attrs], <<>>)

(***************************************************************************)
(* preflight: the fault of the i-th entry of a batch, "" when it is good;  *)
(* every failing entry is listed.  SetBatch applies all or nothing and     *)
(* tells no observer.                                                      *)
(***************************************************************************)
EntryFault(t, batch, i) ==
  LET s == batch[i]
  IN  IF ~parsePath(s.path) THEN "notFound"
      ELSE IF \E j \in 1 .. i - 1 : batch[j].path = s.path THEN "duplicate"
      ELSE IF ~isLeaf(t, s.path) THEN "notFound"
      ELSE IF ~t[s.path].writable THEN "notWritable"
      ELSE IF t[s.path].type # s.value.type THEN "typeMismatch"
      ELSE IF ~Validate(s.value.type, s.value.raw) THEN "invalidValue"
      ELSE ""
preflight(t, batch) ==
  {i \in 1 .. Len(batch) : EntryFault(t, batch, i) # ""}

CheckBatch(t, batch) == preflight(t, batch) = {}

WriteBatch(t, batch) ==
  [q \in DOMAIN t |->
     IF \E i \in 1 .. Len(batch) : batch[i].path = q
     THEN LET i == CHOOSE j \in 1 .. Len(batch) : batch[j].path = q
          IN  [t[q] EXCEPT !.raw = batch[i].value.raw,
                           !.writable = batch[i].value.writable]
     ELSE t[q]]
SetBatch(t, batch) ==
  IF CheckBatch(t, batch) THEN Done(WriteBatch(t, batch), <<>>)
  ELSE Failed(t, "batch")

(***************************************************************************)
(* syncEntryCount rewrites the sibling <Table>NumberOfEntries leaf, if     *)
(* there is one, in the critical section that changed the table.           *)
(***************************************************************************)
CounterOf(p) == Append(Front(p), Counters[Last(p)])
HasCounter(t, p) == Last(p) \in DOMAIN Counters /\ isLeaf(t, CounterOf(p))
EntryCount(t, p) == Itoa(Cardinality(Instances(t, p)))

(* A sync that forgets to announce the counter it rewrote. *)
syncEntryCountSilent(t, p) ==
  IF HasCounter(t, p)
  THEN Done([t EXCEPT ![CounterOf(p)].raw = EntryCount(t, p)], <<>>)
  ELSE Done(t, <<>>)

syncEntryCount(t, p) ==
  IF HasCounter(t, p)
  THEN Done([t EXCEPT ![CounterOf(p)].raw = EntryCount(t, p)],
            Moved(t, CounterOf(p), EntryCount(t, p)))
  ELSE Done(t, <<>>)

(***************************************************************************)
(* AddObject clones the template into the smallest unused number; instance *)
(* is 0 when it fails.                                                     *)
(***************************************************************************)
FreeInstance(t, p) ==
  CHOOSE n \in 1 .. MaxInstance :
    /\ Append(p, Itoa(n)) \notin DOMAIN t
    /\ \A m \in 1 .. n - 1 : Append(p, Itoa(m)) \in DOMAIN t

NotAdded(t, err) == [tree |-> t, err |-> err, changes |-> <<>>, instance |-> 0]

AddObject(t, p) ==
  IF ~parsePath(p) THEN NotAdded(t, "invalid")
  ELSE IF p \notin DOMAIN t THEN NotAdded(t, "notFound")
  ELSE IF ~isTable(t, p) THEN NotAdded(t, "invalid")
  ELSE LET n == FreeInstance(t, p)
           new == Append(p, Itoa(n))
           synced == syncEntryCount(Attach(t, new, t[p].template), p)
       IN  [tree |-> synced.tree, err |-> "", instance |-> n,
            changes |-> <<Created(new)>> \o synced.changes]

(* A deletion whose counter is not brought up to date. *)
DeleteObjectUncounted(t, p) ==
  IF p \notin DOMAIN t THEN Failed(t, "notFound")
  ELSE Done(Detach(t, p), <<Deleted(p)>>)

DeleteObject(t, p) ==
  IF ~parsePath(p) \/ p = <<>> THEN Failed(t, "invalid")
  ELSE IF Last(p) \notin InstanceNames THEN Failed(t, "invalid")
  ELSE IF Front(p) \notin DOMAIN t THEN Failed(t, "notFound")
  ELSE IF ~isTable(t, Front(p)) THEN Failed(t, "invalid")
  ELSE IF p \notin DOMAIN t THEN Failed(t, "notFound")
  ELSE LET synced == syncEntryCount(Detach(t, p), Front(p))
       IN  Done(synced.tree, <<Deleted(p)>> \o synced.changes)

(***************************************************************************)
(* Graft merges another tree in.  GraftPoints are its topmost nodes that   *)
(* the tree lacks; a path both have must be interior on both sides, or the *)
(* whole graft is refused.  Unmount takes a grafted node out again.        *)
(***************************************************************************)
GraftPoints(t, other) ==
  {p \in DOMAIN other : p # <<>> /\ p \notin DOMAIN t /\ Front(p) \in DOMAIN t}
GraftConflict(t, other) ==
  \E p \in DOMAIN other \cap DOMAIN t : isLeaf(t, p) \/ isLeaf(other, p)
GraftChange(other, p) == IF isLeaf(other, p) THEN ValueChange(p) ELSE Created(p)

Graft(t, other) ==
  IF GraftConflict(t, other) THEN Failed(t, "invalid")
  ELSE Done([q \in DOMAIN t \cup DOMAIN other |->
               IF q \in DOMAIN t THEN t[q] ELSE other[q]],
            [i \in 1 .. Cardinality(GraftPoints(t, other)) |->
               GraftChange(other, SetToSeq(GraftPoints(t, other))[i])])

Unmount(t, p) ==
  IF ~parsePath(p) \/ p = <<>> THEN Failed(t, "invalid")
  ELSE IF Front(p) \notin DOMAIN t THEN Failed(t, "notFound")
  ELSE IF isLeaf(t, Front(p)) THEN Failed(t, "invalid")
  ELSE IF p \notin DOMAIN t THEN Failed(t, "notFound")
  ELSE IF isTable(t, Front(p)) /\ Last(p) \in InstanceNames
       THEN Failed(t, "invalid")
  ELSE Done(Detach(t, p), IF isLeaf(t, p) THEN <<>> ELSE <<Deleted(p)>>)

(***************************************************************************)
(* Mount and AddTable, the operations profiles are built with: missing     *)
(* interior nodes on the way are created.                                  *)
(***************************************************************************)
Interior(t, p) == \A q \in Prefixes(p) : ~isLeaf(t, q)
WithBranches(t, p) ==
  [q \in DOMAIN t \cup Prefixes(p) |-> IF q \in DOMAIN t THEN t[q] ELSE NewBranch]

Mount(t, p, sub) ==
  IF ~parsePath(p) \/ p = <<>> \/ ~Interior(t, Front(p)) \/ p \in DOMAIN t
  THEN Failed(t, "invalid")
  ELSE Done(Attach(WithBranches(t, Front(p)), p, sub), <<>>)

AddTable(t, p, template) ==
  IF ~parsePath(p) \/ p = <<>> \/ ~Interior(t, p) \/ isTable(t, p)
  THEN Failed(t, "invalid")
  ELSE Done([WithBranches(t, p) EXCEPT ![p] = NewTable(template)], <<>>)

New == (<<>> :> NewBranch)
Reset(t, other) == Done(other, <<>>)
=============================================================================
