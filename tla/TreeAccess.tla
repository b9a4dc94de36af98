----------------------------- MODULE TreeAccess -----------------------------
(***************************************************************************)
(* One parameter tree and everyone who uses it at once: the CWMP session   *)
(* with its RPC handlers (internal/cwmp/handlers), the USP agent's message *)
(* handler (internal/usp/agent/operations.go, messages.go), the device's   *)
(* own goroutines (generators, software modules, factory reset) and the    *)
(* observers that follow the tree (paramtree/observe.go).  A handler takes *)
(* the tree's lock once per call it makes, so the steps of two handlers    *)
(* interleave between those calls; observers run after the lock is free.   *)
(*                                                                         *)
(* A request names paths as sequences of names.  partial says that the     *)
(* path was written with a trailing dot.                                   *)
(***************************************************************************)
EXTENDS ParamTree

CONSTANTS
  Profile,        \* the tree a CPE is built with and reset to
  Apps,           \* trees of app manifests the device may graft
  Watched,        \* leaves the observer follows
  Deferred,       \* leaves an SPV applies only after the session
  Tables,         \* the tables AddObject and Add are asked for
  Reads,          \* [path, partial] requests of the readers
  SpvRequests,    \* sequences of [path, raw]
  SpaRequests,    \* sequences of [path, partial, notificationChange, notification,
                  \* accessChange, access]
  AddRequests,    \* paths of CWMP AddObject
  DeleteRequests, \* paths of CWMP DeleteObject
  UspSets,        \* [path, settings], settings a sequence of [param, raw, required]
  UspAdds,        \* [path, settings]
  UspDeletes,     \* search paths
  DeviceWrites,   \* [path, raw] of SetSystem
  Expressions,    \* the search expressions used: name |-> [key, raw, equal],
                  \* the key "" where one cannot be parsed
  Configurations, \* sets of goroutines: which of them a CPE runs
  Templates,      \* the templates of the profile's and the apps' tables, nested ones too
  DataModel,      \* what each path is declared as: path with "index" |-> declaration
  MaxRows,        \* bound: instances of one table
  MaxDeferred     \* bound: batches waiting for the end of the session

(***************************************************************************)
(* What the profile loader, AddTable and the manifests build (applyRows,   *)
(* parseProfilePath).  A tree holds its root and is closed under prefixes; *)
(* its tables have a template, its leaves all fields, and the counter of a *)
(* table that managers add rows to is read-only.  A template is an object  *)
(* that holds no row yet: the loader allows one {i} in a path, and the     *)
(* nested tables that Go code builds start empty, with a counter of 0.     *)
(***************************************************************************)
isCounter(q) ==
  /\ q # <<>>
  /\ \E p \in Tables : Last(p) \in DOMAIN Counters /\ Last(q) = Counters[Last(p)]
WellFormed(t) ==
  /\ \A q \in DOMAIN t : q \in Seq(Names) /\ Prefixes(q) \subseteq DOMAIN t
  /\ <<>> \in DOMAIN t /\ t[<<>>].kind = "branch"
  /\ \A q \in DOMAIN t :
       /\ isLeaf(t, q) => DOMAIN t[q] = {"kind", "type", "raw", "writable", "attrs"}
       /\ isTable(t, q) => t[q].template \in Templates
       /\ isLeaf(t, q) /\ isCounter(q) => ~t[q].writable
Bare(s) ==
  \A r \in DOMAIN s : isTable(s, r) =>
    Instances(s, r) = {} /\ (HasCounter(s, r) => s[CounterOf(r)].raw = Itoa(0))

(* The counters of t agree with its tables, those in except left out. *)
TableCounters == {CounterOf(p) : p \in {q \in Tables : Last(q) \in DOMAIN Counters}}
Counted(t, except) ==
  \A p \in Tables \ except : isTable(t, p) /\ HasCounter(t, p) =>
    t[CounterOf(p)].raw = EntryCount(t, p)

ASSUME RoomAssumption == MaxRows \in 1 .. MaxInstance
ASSUME TreesAssumption ==
  /\ \A t \in {Profile} \cup Apps \cup Templates : WellFormed(t)
  /\ \A s \in Templates : Bare(s)
  /\ \A app \in Apps : IsFiniteSet(DOMAIN app)
(* A boot-time counter that is wrong stays wrong: nothing checks it. *)
ASSUME ProfileAssumption == Counted(Profile, {})
(* An observer here follows leaves of the profile that are in no table row. *)
ASSUME WatchedAssumption ==
  \A p \in Watched : isLeaf(Profile, p) /\ Range(p) \cap InstanceNames = {}
(* No generator drives a counter. *)
ASSUME TablesAssumption ==
  /\ \A p \in Tables : p \in Seq(Names) /\ p # <<>>
  /\ \A w \in DeviceWrites : w.path \notin TableCounters


(***************************************************************************)
(* What a path is declared as.  A profile writes {i}, here "index", for    *)
(* the number of a row, and the parameter it states once gives both the    *)
(* rows that exist at boot and the template later rows are cloned from     *)
(* their types and flags (applyRows, buildInstanceTemplate).               *)
(***************************************************************************)
Pattern(q) == [i \in 1 .. Len(q) |-> IF q[i] \in InstanceNames THEN "index" ELSE q[i]]
Declares(x, n) ==
  /\ n.kind = "leaf" => /\ x \in DOMAIN DataModel
                        /\ DataModel[x] = [type |-> n.type, writable |-> n.writable]
  /\ n.kind = "table" => x \in DOMAIN DataModel /\ DataModel[x] = [template |-> n.template]
Declared(t) == \A q \in DOMAIN t : Declares(Pattern(q), t[q])

(* Leaves of the profile that are in no row: nothing takes them away. *)
Fixed == {p \in DOMAIN Profile : isLeaf(Profile, p) /\ Range(p) \cap InstanceNames = {}}

(* Every path is declared once, by the profile, a template or the apps; an app that
   declares one otherwise asks for a leaf that stays, and is never grafted. *)
ASSUME DataModelAssumption ==
  /\ Declared(Profile)
  /\ \A app \in Apps : Declared(app) \/ DOMAIN app \cap Fixed # {}
  /\ \A x \in DOMAIN DataModel : \A s \in Templates :
       DataModel[x] = [template |-> s] =>
         \A r \in DOMAIN s : Declares((x \o <<"index">>) \o Pattern(r), s[r])
ASSUME RequestsAssumption == \A req \in SpvRequests : Len(req) \in Nat

VARIABLES
  running,        \* the configuration of this CPE
  tree,
  registered,     \* an observer is registered
  view,           \* what it read last of each watched leaf
  silent,         \* watched leaves changed since then by a call that announces nothing
  todo,           \* changes each goroutine still has to hand to the observer
  acs,            \* the CWMP handler's progress
  after,          \* AfterSession: the deferred batches
  usp,            \* the USP handler's progress
  told,           \* instances some manager was told exist, or an app brought
  uncounted,      \* history: tables a graft changed and no AddObject or DeleteObject
                  \* has counted again since
  reply           \* the answer given in the last step

vars == <<running, tree, registered, view, silent, todo, acs, after, usp, told,
          uncounted, reply>>

Goroutines == {"acs", "usp", "device"}
Idle == [pc |-> "idle"]
NoReply == [op |-> "none"]
Missing == "missing"
NoView == [p \in Watched |-> Missing]   \* no observer is registered

RawOf(t, p) == IF isLeaf(t, p) THEN t[p].raw ELSE Missing
TableRows(t) == UNION {Instances(t, p) : p \in {q \in Tables : isTable(t, q)}}

Init ==
  /\ running \in Configurations
  /\ tree = Profile
  /\ registered = FALSE
  /\ view = NoView
  /\ silent = {}
  /\ todo = [g \in Goroutines |-> <<>>]
  /\ acs = Idle /\ usp = Idle
  /\ after = <<>>
  /\ told = TableRows(Profile)
  /\ uncounted = {}
  /\ reply = NoReply

(***************************************************************************)
(* A goroutine goes on only once it has run the observers for the last     *)
(* change it made.                                                         *)
(***************************************************************************)
Free(g) == todo[g] = <<>>
(* The watched leaves that t changes, as long as anyone watches. *)
Unread(t) == {p \in Watched : registered /\ RawOf(t, p) # RawOf(tree, p)}

(* g's call r on the tree, one that announces what it changes. *)
Announce(g, r) ==
  /\ tree' = r.tree
  /\ todo' = [todo EXCEPT ![g] = IF registered THEN r.changes ELSE <<>>]
  /\ UNCHANGED <<registered, view, silent>>
Write(g, r) == Announce(g, r) /\ UNCHANGED uncounted
(* AddObject or DeleteObject on a row of table: it counts the rows anew. *)
WriteRow(g, r, table) ==
  /\ Announce(g, r)
  /\ uncounted' = IF r.err = "" THEN uncounted \ {table} ELSE uncounted
(* A call that announces nothing: SetBatch, Reset. *)
WriteSilently(r) ==
  /\ tree' = r.tree
  /\ silent' = silent \cup Unread(r.tree)
  /\ UNCHANGED <<registered, view, todo>>
Read == UNCHANGED <<tree, registered, view, silent, todo, uncounted>>

(***************************************************************************)
(* Observe and its cancel function; notify.  The observers of this program *)
(* read the tree again when they are called.                               *)
(***************************************************************************)
Observe ==
  /\ ~registered
  /\ registered' = TRUE
  /\ view' = [p \in Watched |-> RawOf(tree, p)]
  /\ silent' = {}
  /\ reply' = NoReply
  /\ UNCHANGED <<tree, todo, acs, after, usp, told, uncounted>>

CancelObserver ==
  /\ registered
  /\ registered' = FALSE
  /\ view' = NoView
  /\ silent' = {}
  /\ reply' = NoReply
  /\ UNCHANGED <<tree, todo, acs, after, usp, told, uncounted>>

Notify(g) ==
  /\ todo[g] # <<>>
  /\ todo' = [todo EXCEPT ![g] = Tail(@)]
  /\ LET p == Head(todo[g]).path
     IN  IF registered /\ p \in Watched
         THEN /\ view' = [view EXCEPT ![p] = RawOf(tree, p)]
              /\ silent' = silent \ {p}
         ELSE UNCHANGED <<view, silent>>
  /\ UNCHANGED <<tree, registered, acs, after, usp, told, uncounted>>
  /\ reply' = NoReply

-----------------------------------------------------------------------------
(***************************************************************************)
(* The CWMP handlers.                                                      *)
(***************************************************************************)
AcsReady == acs = Idle /\ Free("acs")
Answer(r) == reply' = r
(* A reader changes nothing and answers from the tree alone: asking it where
   nothing else is under way loses no behaviour of the tree and keeps the
   answers from multiplying the states. *)
Quiet == /\ acs = Idle /\ usp = Idle /\ after = <<>> /\ ~registered
         /\ \A g \in Goroutines : Free(g)
Fault(code) == [op |-> "fault", code |-> code]
RequestDenied == 9001
InternalError == 9002
InvalidArguments == 9003
InvalidParameterName == 9005
NotificationRejected == 9009

(* A request that does not decode, or names no object, is refused untouched. *)
Refuse ==
  /\ Quiet
  /\ Read
  /\ Answer(Fault(InvalidArguments))
  /\ UNCHANGED <<acs, after, usp, told>>
MalformedValues == Refuse       \* decodeSPVRequest
MalformedAttributes == Refuse   \* decodeSPARequest
MalformedNames == Refuse        \* readStringList, or an empty list
MalformedObjectName == Refuse   \* decodeObjectNameAndKey, or an empty name

(* Expanding a requested name: a partial path stands for the leaves below. *)
resolves(r) == IF r.partial THEN parsePath(r.path) /\ r.path \in DOMAIN tree
               ELSE parsePath(r.path) /\ isLeaf(tree, r.path)
resolveLeaves(r) == IF r.partial THEN Leaves(tree, r.path) ELSE {r.path}

GetParameterValues(r) ==
  /\ Quiet
  /\ Read
  /\ Answer(IF resolves(r)
            THEN [op |-> "values", of |-> [p \in resolveLeaves(r) |->
                                              Marshal(tree[p].type, tree[p].raw)]]
            ELSE Fault(InvalidParameterName))
  /\ UNCHANGED <<acs, after, usp, told>>

(* NextLevel lists the children of an interior node, otherwise every leaf. *)
GetParameterNames(r, nextLevel) ==
  /\ Quiet
  /\ Read
  /\ Answer(IF r.path \notin DOMAIN tree \/ (nextLevel /\ isLeaf(tree, r.path))
            THEN Fault(InvalidParameterName)
            ELSE [op |-> "names",
                  of |-> [p \in IF nextLevel THEN Children(tree, r.path)
                                ELSE Leaves(tree, r.path) |->
                            isLeaf(tree, p) /\ tree[p].writable]])
  /\ UNCHANGED <<acs, after, usp, told>>

(* The names are resolved first and the attributes read one leaf at a time. *)
GetParameterAttributes(r) ==
  /\ Quiet
  /\ Read
  /\ IF resolves(r)
     THEN /\ acs' = [pc |-> "gpa", leaves |-> resolveLeaves(r)]
          /\ reply' = NoReply
     ELSE /\ acs' = Idle
          /\ Answer(Fault(InvalidParameterName))
  /\ UNCHANGED <<after, usp, told>>
ReadAttributes ==
  /\ acs.pc = "gpa" /\ Free("acs")
  /\ Read
  /\ acs' = Idle
  /\ Answer(IF \A p \in acs.leaves : isLeaf(tree, p)
            THEN [op |-> "attributes", of |-> [p \in acs.leaves |-> tree[p].attrs]]
            ELSE Fault(InvalidParameterName))
  /\ UNCHANGED <<after, usp, told>>

(* AddObject and DeleteObject: one call on the tree, its error as a fault. *)
HasRoom(p) == \E n \in 1 .. MaxRows : Append(p, Itoa(n)) \notin DOMAIN tree
AddObjectFault(err) == Fault(IF err = "notFound" THEN InvalidParameterName ELSE RequestDenied)
HandleAddObject(p) ==
  /\ AcsReady
  /\ HasRoom(p)
  /\ LET r == AddObject(tree, p)
     IN  /\ WriteRow("acs", r, p)
         /\ IF r.err = ""
            THEN /\ told' = told \cup {Append(p, Itoa(r.instance))}
                 /\ Answer([op |-> "added", instance |-> r.instance])
            ELSE /\ told' = told
                 /\ Answer(AddObjectFault(r.err))
  /\ UNCHANGED <<acs, after, usp>>

HandleDeleteObject(p) ==
  /\ AcsReady
  /\ LET r == DeleteObject(tree, p)
     IN  /\ WriteRow("acs", r, Front(p))
         /\ IF r.err = ""
            THEN told' = told \ {p} /\ Answer([op |-> "deleted"])
            ELSE told' = told /\ Answer(Fault(InvalidParameterName))
  /\ UNCHANGED <<acs, after, usp>>

(***************************************************************************)
(* SetParameterAttributes: every entry is checked and resolved before any  *)
(* attribute is written; the writes then go leaf by leaf.                  *)
(***************************************************************************)
SpaEntryFault(e) ==
  IF e.notificationChange /\ e.notification \notin 0 .. 2 THEN NotificationRejected
  ELSE IF ~resolves(e) THEN InvalidParameterName ELSE 0
SpaFault(req) ==
  LET bad == {i \in 1 .. Len(req) : SpaEntryFault(req[i]) # 0}
  IN  IF bad = {} THEN 0 ELSE SpaEntryFault(req[CHOOSE i \in bad : \A j \in bad : i <= j])
SpaWrites(e) ==
  LET ps == SetToSeq(resolveLeaves(e))
  IN  [i \in 1 .. Len(ps) |-> [path |-> ps[i], entry |-> e]]

SetParameterAttributes(req) ==
  /\ AcsReady
  /\ Read
  /\ IF SpaFault(req) = 0
     THEN /\ acs' = [pc |-> "spa",
                     pending |-> FlattenSeq([i \in 1 .. Len(req) |-> SpaWrites(req[i])])]
          /\ reply' = NoReply
     ELSE acs' = Idle /\ Answer(Fault(SpaFault(req)))
  /\ UNCHANGED <<after, usp, told>>

layered(attrs, e) ==
  [notification |-> IF e.notificationChange THEN e.notification ELSE attrs.notification,
   access |-> IF e.accessChange THEN e.access ELSE attrs.access]

(* The leaf resolved before may be gone: an internal error, with the leaves before
   it already written. *)
SpaWrite ==
  /\ acs.pc = "spa" /\ Free("acs")
  /\ IF acs.pending = <<>>
     THEN Read /\ acs' = Idle /\ Answer([op |-> "spa"])
     ELSE LET w == Head(acs.pending)
          IN  IF isLeaf(tree, w.path)
              THEN /\ Write("acs", SetAttributes(tree, w.path,
                                                 layered(tree[w.path].attrs, w.entry)))
                   /\ acs' = [acs EXCEPT !.pending = Tail(@)]
                   /\ reply' = NoReply
              ELSE Read /\ acs' = Idle /\ Answer(Fault(InternalError))
  /\ UNCHANGED <<after, usp, told>>

(***************************************************************************)
(* SetParameterValues.  prepareSetters reads each leaf for its type and    *)
(* flag; an unknown path faults the batch.  A batch that touches a         *)
(* deferred leaf is checked, answered Status 1 and applied, whole or not   *)
(* at all, when the session has ended.                                     *)
(***************************************************************************)
prepareSetters(req) ==
  [i \in 1 .. Len(req) |->
     [path |-> req[i].path,
      value |-> [type |-> tree[req[i].path].type, raw |-> req[i].raw,
                 writable |-> tree[req[i].path].writable]]]
defers(batch) == \E i \in 1 .. Len(batch) : batch[i].path \in Deferred

(* The paths whose change the session's tracker is told of. *)
Changed(batch) ==
  {p \in {batch[i].path : i \in 1 .. Len(batch)} :
     RawOf(WriteBatch(tree, batch), p) # tree[p].raw}
Notified(batch) == {p \in Changed(batch) : tree[p].attrs.notification > 0}

SetParameterValues(req) ==
  /\ AcsReady
  /\ Len(after) < MaxDeferred
  /\ Read
  /\ IF \A i \in 1 .. Len(req) : isLeaf(tree, req[i].path)
     THEN acs' = [pc |-> "spv", batch |-> prepareSetters(req)] /\ reply' = NoReply
     ELSE acs' = Idle /\ Answer(Fault(InvalidArguments))
  /\ UNCHANGED <<after, usp, told>>

(* Deferring a batch whose entries merely exist. *)
AcceptedUnchecked(batch) == \A i \in 1 .. Len(batch) : isLeaf(tree, batch[i].path)
Accepted(batch) == CheckBatch(tree, batch)

ApplyOrDefer ==
  /\ acs.pc = "spv" /\ Free("acs")
  /\ acs' = Idle
  /\ IF defers(acs.batch)
     THEN /\ Read
          /\ IF Accepted(acs.batch)
             THEN after' = Append(after, acs.batch) /\ Answer([op |-> "spv", status |-> 1])
             ELSE after' = after /\ Answer(Fault(InvalidArguments))
     ELSE LET r == SetBatch(tree, acs.batch)
          IN  /\ WriteSilently(r) /\ UNCHANGED uncounted
              /\ after' = after
              /\ Answer(IF r.err = ""
                        THEN [op |-> "spv", status |-> 0, notified |-> Notified(acs.batch)]
                        ELSE Fault(InvalidArguments))
  /\ UNCHANGED <<usp, told>>

(* AfterSession.Run: the deferred batches in order; one that fails is dropped. *)
RunAfterSession ==
  /\ acs.pc \in {"idle", "after"} /\ Free("acs")
  /\ after # <<>>
  /\ LET r == SetBatch(tree, Head(after))
     IN  /\ WriteSilently(r) /\ UNCHANGED uncounted
         /\ Answer([op |-> "after", ok |-> r.err = ""])
  /\ after' = Tail(after)
  /\ acs' = IF Tail(after) = <<>> THEN Idle ELSE [pc |-> "after"]
  /\ UNCHANGED <<usp, told>>

GetRPCMethods ==
  /\ Quiet
  /\ Read
  /\ Answer([op |-> "methods"])
  /\ UNCHANGED <<acs, after, usp, told>>

-----------------------------------------------------------------------------
(***************************************************************************)
(* The USP handlers.  Messages are handled one at a time.  ExpandSearchPath *)
(* resolves "*" and search expressions to the paths that exist now; what   *)
(* follows the last of them is taken as written.                           *)
(***************************************************************************)
UspReady == usp = Idle /\ Free("usp")
isSearch(name) == name = "*" \/ name \in DOMAIN Expressions
searchIndices(p) == {i \in 1 .. Len(p) : isSearch(p[i])}

parseSearchExpression(name) == Expressions[name].key # ""
match(q, e) ==
  /\ isLeaf(tree, Append(q, e.key))
  /\ (tree[Append(q, e.key)].raw = e.raw) = e.equal
segmentMatches(p, q, i) ==
  IF ~isSearch(p[i]) THEN q[i] = p[i]
  ELSE /\ q[i] \in Range(Digits)
       /\ p[i] # "*" => /\ parseSearchExpression(p[i])
                        /\ match(SubSeq(q, 1, i), Expressions[p[i]])

ExpandSearchPath(p) ==
  IF searchIndices(p) = {} THEN {p}
  ELSE LET k == CHOOSE i \in searchIndices(p) : \A j \in searchIndices(p) : j <= i
       IN  {q \o SubSeq(p, k + 1, Len(p)) :
              q \in {r \in DOMAIN tree : /\ Len(r) = k
                                         /\ \A i \in 1 .. k : segmentMatches(p, r, i)}}

(* applyOne: Get and then Set; 7026, 7010 and 7008 are all failures here. *)
applyOne(p, raw) ==
  IF ~isLeaf(tree, p) THEN Failed(tree, "invalidPath")
  ELSE IF ~tree[p].writable THEN Failed(tree, "readOnly")
  ELSE Set(tree, p, [type |-> tree[p].type, raw |-> raw, writable |-> tree[p].writable])

Settings(p, settings) ==
  [i \in 1 .. Len(settings) |->
     [path |-> Append(p, settings[i].param), raw |-> settings[i].raw,
      required |-> settings[i].required]]

(***************************************************************************)
(* HandleSet: every setting on every target, until a required one fails;   *)
(* what was written before stays written.                                  *)
(***************************************************************************)
HandleSet(req) ==
  /\ UspReady
  /\ Read
  /\ LET targets == SetToSeq(ExpandSearchPath(req.path))
     IN  IF targets = <<>>
         THEN usp' = Idle /\ Answer([op |-> "set", ok |-> FALSE])
         ELSE /\ usp' = [pc |-> "set",
                         work |-> FlattenSeq([i \in 1 .. Len(targets) |->
                                                Settings(targets[i], req.settings)])]
              /\ reply' = NoReply
  /\ UNCHANGED <<acs, after, told>>

SetStep ==
  /\ usp.pc = "set" /\ Free("usp")
  /\ IF usp.work = <<>>
     THEN Read /\ usp' = Idle /\ Answer([op |-> "set", ok |-> TRUE])
     ELSE LET s == Head(usp.work)
              r == applyOne(s.path, s.raw)
          IN  /\ Write("usp", r)
              /\ IF r.err # "" /\ s.required
                 THEN usp' = Idle /\ Answer([op |-> "set", ok |-> FALSE])
                 ELSE usp' = [usp EXCEPT !.work = Tail(@)] /\ reply' = NoReply
  /\ UNCHANGED <<acs, after, told>>

(***************************************************************************)
(* HandleAdd: the path must resolve to one table; the new instance is      *)
(* given its settings one by one and deleted again if a required one does  *)
(* not apply.                                                              *)
(***************************************************************************)
HandleAdd(req) ==
  /\ UspReady
  /\ LET targets == ExpandSearchPath(req.path)
         p == CHOOSE q \in targets : TRUE
         r == AddObject(tree, p)
     IN  IF Cardinality(targets) # 1 \/ r.err # ""
         THEN Read /\ usp' = Idle /\ Answer([op |-> "add", ok |-> FALSE])
         ELSE /\ HasRoom(p)
              /\ WriteRow("usp", r, p)
              /\ LET new == Append(p, Itoa(r.instance))
                 IN  usp' = [pc |-> "add", instance |-> new,
                             work |-> Settings(new, req.settings)]
              /\ reply' = NoReply
  /\ UNCHANGED <<acs, after, told>>

(* A required failure that only reports the error. *)
AddFailsInPlace == [pc |-> "idle"]
AddFails == [pc |-> "rollback", instance |-> usp.instance]

AddStep ==
  /\ usp.pc = "add" /\ Free("usp")
  /\ IF usp.work = <<>>
     THEN /\ Read
          /\ usp' = Idle
          /\ told' = told \cup {usp.instance}
          /\ Answer([op |-> "add", ok |-> TRUE])
     ELSE LET s == Head(usp.work)
              r == applyOne(s.path, s.raw)
          IN  /\ Write("usp", r)
              /\ usp' = IF r.err # "" /\ s.required THEN AddFails
                        ELSE [usp EXCEPT !.work = Tail(@)]
              /\ told' = told
              /\ reply' = NoReply
  /\ UNCHANGED <<acs, after>>

RollBack ==
  /\ usp.pc = "rollback" /\ Free("usp")
  /\ WriteRow("usp", DeleteObject(tree, usp.instance), Front(usp.instance))
  /\ usp' = Idle
  /\ Answer([op |-> "add", ok |-> FALSE])
  /\ UNCHANGED <<acs, after, told>>

(* HandleDelete: every target on its own; a failure only if none went. *)
HandleDelete(p) ==
  /\ UspReady
  /\ Read
  /\ usp' = [pc |-> "delete", work |-> SetToSeq(ExpandSearchPath(p)), affected |-> {}]
  /\ reply' = NoReply
  /\ UNCHANGED <<acs, after, told>>

DeleteStep ==
  /\ usp.pc = "delete" /\ Free("usp")
  /\ IF usp.work = <<>>
     THEN /\ Read
          /\ usp' = Idle /\ told' = told
          /\ Answer([op |-> "delete", ok |-> usp.affected # {}])
     ELSE LET p == Head(usp.work)
              r == DeleteObject(tree, p)
          IN  /\ WriteRow("usp", r, Front(p))
              /\ usp' = [usp EXCEPT !.work = Tail(@),
                                    !.affected = IF r.err = "" THEN @ \cup {p} ELSE @]
              /\ told' = IF r.err = "" THEN told \ {p} ELSE told
              /\ reply' = NoReply
  /\ UNCHANGED <<acs, after>>

(* HandleGet: no match of a path with "*" is an empty answer, not an error; a
   path with an expression but no "*" is looked up as written. *)
resolveForGet(r, p) ==
  IF r.partial THEN IF p \in DOMAIN tree THEN Leaves(tree, p) ELSE {}
  ELSE IF isLeaf(tree, p) THEN {p} ELSE {}
HandleGet(r) ==
  /\ Quiet
  /\ Read
  /\ LET search == "*" \in Range(r.path)
         ps == UNION {resolveForGet(r, p) :
                        p \in IF search THEN ExpandSearchPath(r.path) ELSE {r.path}}
     IN  Answer(IF ~search /\ ~resolves(r)
                THEN [op |-> "get", ok |-> FALSE]
                ELSE [op |-> "get", ok |-> TRUE, of |-> [p \in ps |-> tree[p].raw]])
  /\ UNCHANGED <<acs, after, usp, told>>

(***************************************************************************)
(* HandleGetInstances lists the numbered objects below a path, nested ones *)
(* too unless first_level_only; a nested one counts where every step down  *)
(* is a table row or an object inside one.                                 *)
(***************************************************************************)
instancePathsUnder(p, firstLevelOnly) ==
  {q \in DOMAIN tree :
     /\ IsStrictPrefix(p, q) /\ Last(q) \in Range(Digits)
     /\ IF firstLevelOnly THEN Len(q) = Len(p) + 1
        ELSE /\ (Len(q) - Len(p)) % 2 = 1
             /\ \A i \in Len(p) + 1 .. Len(q) :
                  (i - Len(p)) % 2 = 1 => q[i] \in Range(Digits)}
uniqueKeysFor(q) ==
  {k \in {"Alias", "SSID", "MACAddress", "Name", "Interface"} :
     isLeaf(tree, Append(q, k)) /\ tree[Append(q, k)].raw # ""}
HandleGetInstances(p, firstLevelOnly) ==
  /\ Quiet
  /\ Read
  /\ LET found == UNION {instancePathsUnder(q, firstLevelOnly) : q \in ExpandSearchPath(p)}
         failed == \E q \in ExpandSearchPath(p) : q \notin DOMAIN tree \/ isLeaf(tree, q)
     IN  Answer(IF failed /\ found = {} THEN [op |-> "instances", ok |-> FALSE]
                ELSE [op |-> "instances", ok |-> TRUE,
                      of |-> [q \in found |-> uniqueKeysFor(q)]])
  /\ UNCHANGED <<acs, after, usp, told>>

(* HandleGetSupportedDM groups the leaves under the objects that hold them. *)
supportedObjects(p, firstLevelOnly) ==
  {Front(q) : q \in {l \in Leaves(tree, p) :
                       (firstLevelOnly /\ ~isLeaf(tree, p)) => Len(l) = Len(p) + 1}}
isMultiInstancePath(o) == Len(o) > 1 /\ Last(o) \in Range(Digits)
HandleGetSupportedDM(p, firstLevelOnly) ==
  /\ Quiet
  /\ Read
  /\ LET found == UNION {supportedObjects(q, firstLevelOnly) : q \in ExpandSearchPath(p)}
         failed == \E q \in ExpandSearchPath(p) : q \notin DOMAIN tree
     IN  Answer(IF failed /\ found = {} THEN [op |-> "dm", ok |-> FALSE]
                ELSE [op |-> "dm", ok |-> TRUE,
                      of |-> [o \in found |-> isMultiInstancePath(o)]])
  /\ UNCHANGED <<acs, after, usp, told>>

-----------------------------------------------------------------------------
(***************************************************************************)
(* The device's own goroutines: generators and firmware write values,      *)
(* software modules graft and unmount app trees, a factory reset swaps the *)
(* whole tree for a fresh clone of the profile.                            *)
(***************************************************************************)
DeviceIdle == Free("device") /\ reply' = NoReply /\ UNCHANGED <<acs, after, usp>>

DeviceWrite(w) ==
  /\ DeviceIdle
  /\ Write("device", SetSystem(tree, w.path, w.raw))
  /\ told' = told

(* The tables that are new in u, or have a row or a counter that t lacks: Graft
   calls syncEntryCount for none of them. *)
GraftedTables(t, u) ==
  {p \in Tables : \E q \in DOMAIN u \ DOMAIN t :
     \/ q = p \/ Front(q) = p
     \/ Last(p) \in DOMAIN Counters /\ q = CounterOf(p)}
GraftApp(app) ==
  /\ DeviceIdle
  /\ LET r == Graft(tree, app)
     IN  /\ Announce("device", r)
         /\ uncounted' = uncounted \cup GraftedTables(tree, r.tree)
         /\ told' = told \cup (TableRows(r.tree) \ TableRows(tree))
(* The roots an earlier graft returned; Unmount refuses a row. *)
UnmountApp(app) ==
  /\ DeviceIdle
  /\ \E p \in GraftPoints(Profile, app) : Write("device", Unmount(tree, p))
  /\ told' = told
FactoryReset ==
  /\ DeviceIdle
  /\ WriteSilently(Reset(tree, Profile))
  /\ uncounted' = {}
  /\ told' = TableRows(Profile)

AcsNext ==
  \/ \E r \in Reads : \/ GetParameterValues(r)
                      \/ \E b \in BOOLEAN : GetParameterNames(r, b)
                      \/ GetParameterAttributes(r)
  \/ ReadAttributes
  \/ \E p \in AddRequests : HandleAddObject(p)
  \/ \E p \in DeleteRequests : HandleDeleteObject(p)
  \/ \E req \in SpaRequests : SetParameterAttributes(req)
  \/ SpaWrite
  \/ \E req \in SpvRequests : SetParameterValues(req)
  \/ ApplyOrDefer
  \/ RunAfterSession
  \/ GetRPCMethods
  \/ MalformedValues \/ MalformedAttributes \/ MalformedNames \/ MalformedObjectName
UspNext ==
  \/ \E req \in UspSets : HandleSet(req)
  \/ SetStep
  \/ \E req \in UspAdds : HandleAdd(req)
  \/ AddStep
  \/ RollBack
  \/ \E p \in UspDeletes : HandleDelete(p)
  \/ DeleteStep
  \/ \E r \in Reads : \/ HandleGet(r)
                      \/ \E b \in BOOLEAN : \/ HandleGetInstances(r.path, b)
                                            \/ HandleGetSupportedDM(r.path, b)
DeviceNext ==
  \/ \E w \in DeviceWrites : DeviceWrite(w)
  \/ \E app \in Apps : GraftApp(app) \/ UnmountApp(app)
  \/ FactoryReset
ObserverNext ==
  \/ Observe
  \/ CancelObserver
  \/ \E g \in Goroutines : Notify(g)

Next ==
  /\ \/ "acs" \in running /\ AcsNext
     \/ "usp" \in running /\ UspNext
     \/ "device" \in running /\ DeviceNext
     \/ ObserverNext
  /\ UNCHANGED running
Spec == Init /\ [][Next]_vars

-----------------------------------------------------------------------------
(***************************************************************************)
(* The entry counter next to a table is the number of its instances, in    *)
(* every state any interleaving of AddObject, DeleteObject, USP Add with   *)
(* its rollback, batches, grafts, unmounts and resets can reach            *)
(* (syncEntryCount).  Excepted is a table a graft brought rows or a        *)
(* counter to, which Graft leaves uncounted, until the next row is added   *)
(* to it or deleted from it.                                               *)
(***************************************************************************)
CountersAgree == Counted(tree, uncounted)

(***************************************************************************)
(* No half-built object is left behind: an instance in a table is one some *)
(* manager was told of, or the one the USP Add under way is still          *)
(* building (HandleAdd's rollback).                                        *)
(***************************************************************************)
NoUnreportedInstance ==
  \A p \in TableRows(tree) :
    p \in told \/ (usp.pc \in {"add", "rollback"} /\ p = usp.instance)

(***************************************************************************)
(* An observer that reads the tree again when it is called misses nothing  *)
(* but what SetBatch and Reset change: where its view is out of date, a    *)
(* notification for that leaf is still to be run (Tree.notify runs after   *)
(* the lock is released, in any order across goroutines).                  *)
(***************************************************************************)
ObserverCatchesUp ==
  registered =>
    \A p \in Watched \ silent :
      view[p] # RawOf(tree, p) =>
        \E g \in Goroutines : \E i \in 1 .. Len(todo[g]) : todo[g][i].path = p

(***************************************************************************)
(* Status 1 is a promise: a deferred batch that was accepted is dropped at *)
(* the end of the session only if one of its leaves is gone by then, never *)
(* for a fault the acceptance check should have found (CheckBatch runs the *)
(* same preflight as SetBatch).                                            *)
(***************************************************************************)
AcceptedWritesKeep ==
  [][(RunAfterSession /\ ~reply'.ok) =>
       \E i \in 1 .. Len(Head(after)) : ~isLeaf(tree, Head(after)[i].path)]_vars
=============================================================================
