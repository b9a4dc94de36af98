--------------------------- MODULE SoftwareModules ---------------------------
(***************************************************************************)
(* The software module lifecycle (internal/softwaremodules) over the       *)
(* parameter tree: installs, updates and uninstalls asked for by CWMP's    *)
(* ChangeDUState (one goroutine per request) and by the USP commands (one  *)
(* at a time).  Manager.mu serialises the operations; an operation is cut  *)
(* into steps at its waits: the lock, the fetch of the manifest, and the   *)
(* install or uninstall delay.  Between two waits it only makes calls on   *)
(* its own rows and apps, and is one step.  The others who reach those     *)
(* rows take Tree.mu and not Manager.mu, so they act during the waits:     *)
(* AddObject and Add, DeleteObject and Delete, and the factory reset that  *)
(* replaces the tree.  The rows' leaves are read-only to them.  Every      *)
(* caller passes context.Background(), so no delay is cut short.           *)
(***************************************************************************)
EXTENDS ParamTree

CONSTANTS Factory,    \* the tree the profile builds
          Manifests,  \* manifest |-> [name, version, tree, gens]
          Serves,     \* URL |-> the manifests and fetch faults it may answer with
          AppUUID,    \* app name |-> the UUID derived from it
          Injected,   \* app names the profile injects a fault for
          Requests,   \* the ChangeDUState requests, as sequences of operations
          Commands,   \* the USP commands, as operations; du names the row
          Jobs,       \* the goroutines of ChangeDUState requests
          RowAdds,    \* tables the managers of the device ask a new row of
          RowDeletes, \* rows they ask to delete
          Budgets     \* how many requests, commands, toggles, resets, rows there may be

Root == <<"SM">>
ExecEnvTable == Append(Root, "EE")
DeploymentUnitTable == Append(Root, "DU")
ExecutionUnitTable == Append(Root, "EU")
requiredDULeaves == {"UUID", "Name", "Status", "Version"}
requiredEULeaves == {"Name", "Status", "References"}

(***************************************************************************)
(* What a profile with a softwareModules block and the manifests of its    *)
(* apps build.  The tables of units start empty, and their templates have  *)
(* the leaves the lifecycle cannot do without, as strings.  An app grafts  *)
(* outside the software modules object, and its generators drive its own   *)
(* leaves.                                                                 *)
(***************************************************************************)
Fields == {"kind", "type", "raw", "writable", "attrs"}
IsTree(t) ==
  /\ <<>> \in DOMAIN t /\ t[<<>>].kind # "leaf"
  /\ \A q \in DOMAIN t : /\ q \in Seq(Names) /\ Prefixes(q) \subseteq DOMAIN t
                         /\ isLeaf(t, q) => DOMAIN t[q] = Fields
IsUnitTable(p, required) ==
  /\ isTable(Factory, p) /\ Instances(Factory, p) = {}
  /\ IsTree(Factory[p].template)
  /\ \A name \in required : /\ isLeaf(Factory[p].template, <<name>>)
                            /\ Factory[p].template[<<name>>].type = "string"

ASSUME FactoryAssumption ==
  /\ IsTree(Factory)
  /\ IsUnitTable(DeploymentUnitTable, requiredDULeaves)
  /\ IsUnitTable(ExecutionUnitTable, requiredEULeaves)
ASSUME ManifestsAssumption ==
  \A m \in DOMAIN Manifests :
    /\ IsTree(Manifests[m].tree)
    /\ \A q \in DOMAIN Manifests[m].tree : ~IsPrefix(Root, q)
    /\ \A g \in Manifests[m].gens : isLeaf(Manifests[m].tree, g)
(* A URL somebody asks for answers with a manifest or a fault. *)
ASSUME OperationsAssumption ==
  /\ \A req \in Requests : \A i \in DOMAIN req : req[i].url \in DOMAIN Serves \cup {""}
  /\ \A c \in Commands : "url" \in DOMAIN c /\ c.url \in DOMAIN Serves \cup {""}
  /\ \A url \in DOMAIN Serves : \A answer \in Serves[url] :
       answer.fault = "" => answer.manifest \in DOMAIN Manifests

VARIABLES tree,       \* the CPE's parameter tree
          installed,  \* Manager.installed: row |-> [manifest, url, roots, eu, ee]
          gens,       \* the generator paths in the CPE's Runner
          mu,         \* Manager.mu: the operation it is held for, or Free
          cwmp,       \* job |-> its progress
          usp,        \* the USP command handler and its asynchronous operation
          busy,       \* cpeStack.uspSoftwareModulesBusy
          disturbed,  \* history: a factory reset replaced the tree, somebody else
                      \* added or deleted a row, or an app that is not Apart started
          inputs      \* requests, commands, toggles, resets and rows still to come

vars == <<tree, installed, gens, mu, cwmp, usp, busy, disturbed, inputs>>

(***************************************************************************)
(* Paths and states.                                                       *)
(***************************************************************************)
leaf(row, name) == Append(row, name)
Raw(t, row, name) ==
  IF isLeaf(t, leaf(row, name)) THEN t[leaf(row, name)].raw ELSE "none"

UUIDs == Range(AppUUID)
NoManifest == "none"
Free == [by |-> "nobody"]

(* setLeaves writes the leaves the row declares and skips the others. *)
setLeaves(t, row, values) ==
  [q \in DOMAIN t |->
     IF /\ q # <<>> /\ Front(q) = row /\ Last(q) \in DOMAIN values /\ isLeaf(t, q)
        /\ Validate(t[q].type, values[Last(q)])
     THEN [t[q] EXCEPT !.raw = values[Last(q)]]
     ELSE t[q]]

(* addRow: a new instance, taken back when its template lacks a leaf. *)
RowDenied(t) == [tree |-> t, row |-> <<>>, fault |-> "request-denied"]
Complete(t, row, required) ==
  IF \E name \in required : ~isLeaf(t, leaf(row, name))
  THEN RowDenied(DeleteObject(t, row).tree)
  ELSE [tree |-> t, row |-> row, fault |-> ""]
addRow(t, table, required) ==
  LET added == AddObject(t, table)
  IN  IF added.err # "" THEN RowDenied(t)
      ELSE Complete(added.tree, Append(table, Itoa(added.instance)), required)

(* execEnv: the environment named, the first declared one when none is. *)
execEnv(t, ref) ==
  LET envs == Instances(t, ExecEnvTable)
      want == IF ref = <<>> THEN Append(ExecEnvTable, "1") ELSE ref
  IN  IF want \notin envs THEN [path |-> <<>>, fault |-> "unknown-ee"]
      ELSE IF \/ Raw(t, want, "Enable") \notin Truths \cup {"none"}
              \/ Raw(t, want, "Status") \notin {"Up", "none"}
      THEN [path |-> want, fault |-> "disabled-ee"]
      ELSE [path |-> want, fault |-> ""]

(* findLocked: the installed unit with this UUID, and version when given. *)
Matches(t, inst, uuid, version) ==
  {d \in DOMAIN inst :
     /\ version \in {"", Manifests[inst[d].manifest].version}
     /\ Raw(t, d, "UUID") = uuid}
findLocked(t, inst, uuid, version) ==
  LET found == Matches(t, inst, uuid, version)
  IN  IF found = {} THEN [du |-> <<>>, fault |-> "unknown-du"]
      ELSE IF Cardinality(found) = 1
      THEN [du |-> CHOOSE d \in found : TRUE, fault |-> ""]
      ELSE [du |-> <<>>, fault |-> "invalid-arguments"]

checkInstallArgs(op) ==
  IF op.url = "" \/ (op.uuid # "" /\ op.uuid \notin UUIDs)
  THEN "invalid-arguments" ELSE ""

(* checkManifest: the profile's injected fault, then the duplicate rule over
   every unit on record except the one being updated. *)
checkManifest(t, inst, m, uuid, except) ==
  IF Manifests[m].name \in Injected THEN "injected"
  ELSE IF \E d \in DOMAIN inst \ {except} : Raw(t, d, "UUID") = uuid
  THEN "duplicate" ELSE ""

(* unmount takes the grafted roots out one by one; a refusal is only logged.
   No root of a graft lies below another, so none depends on those before it. *)
unmount(t, roots) ==
  LET gone == {r \in roots : Unmount(t, r).err = ""}
  IN  [q \in {p \in DOMAIN t : \A r \in gone : ~IsPrefix(r, p)} |-> t[q]]

(* start grafts the model, adds the execution unit and its generators; an
   execution unit that cannot be added takes the graft back.  A path that has
   a generator already keeps it. *)
NotStarted(t, g, fault) ==
  [tree |-> t, gens |-> g, roots |-> {}, eu |-> <<>>, fault |-> fault]
StartUnit(row, roots, g, m, ee) ==
  IF row.fault # "" THEN NotStarted(unmount(row.tree, roots), g, row.fault)
  ELSE [tree |-> setLeaves(row.tree, row.row,
                   [Name |-> Manifests[m].name, Version |-> Manifests[m].version,
                    References |-> roots, ExecutionEnvRef |-> ee,
                    Status |-> "Active"]),
        gens |-> g \cup Manifests[m].gens, roots |-> roots, eu |-> row.row,
        fault |-> ""]
start(t, g, m, ee) ==
  LET grafted == Graft(t, Manifests[m].tree)
  IN  IF grafted.err # "" THEN NotStarted(t, g, "ee-mismatch")
      ELSE StartUnit(addRow(grafted.tree, ExecutionUnitTable, requiredEULeaves),
                     GraftPoints(t, Manifests[m].tree), g, m, ee)

(* stop drops the generators, takes the model out and idles the unit. *)
stop(t, g, unit) ==
  [tree |-> setLeaves(unmount(t, unit.roots), unit.eu,
              [Status |-> "Idle", References |-> {}]),
   gens |-> g \ Manifests[unit.manifest].gens]

(* syncActiveUnits rewrites the environment's list of active units. *)
syncActiveUnits(t, inst, ee) ==
  setLeaves(t, ee, [ActiveExecutionUnits |->
    {inst[d].eu : d \in {e \in DOMAIN inst :
       inst[e].ee = ee /\ Raw(t, inst[e].eu, "Status") = "Active"}}])

(***************************************************************************)
(* Manager.Run.  held(by, op, step, ...) is an operation between two of    *)
(* its waits; Return unlocks and hands the result to the caller.           *)
(***************************************************************************)
Result(op, uuid, version, state, fault) ==
  [kind |-> op.kind, uuid |-> IF uuid = "" THEN op.uuid ELSE uuid,
   version |-> version, state |-> IF fault = "" THEN state ELSE "Failed",
   fault |-> fault]
FailedResult(op, fault) == Result(op, "", "", "Failed", fault)

Return(by, res) ==
  /\ mu' = Free
  /\ IF by = "usp"
     THEN /\ usp' = [usp EXCEPT !.async = "ran", !.result = res]
          /\ cwmp' = cwmp
     ELSE /\ cwmp' = [cwmp EXCEPT ![by].results = Append(@, res)]
          /\ usp' = usp

Keep == UNCHANGED <<installed, gens, cwmp, usp>>
Hold(by, op, step, du, ee, m) ==
  mu' = [by |-> by, op |-> op, step |-> step, du |-> du, ee |-> ee, manifest |-> m]

(* Bound: rows are numbered 1 to MaxInstance. *)
HasRoom(t, table) == \E n \in 1 .. MaxInstance : Append(table, Itoa(n)) \notin DOMAIN t

(* Install up to the fetch: the row exists, Installing, from here on. *)
BeginInstall(by, op) ==
  LET ee == execEnv(tree, op.ee)
      row == addRow(tree, DeploymentUnitTable, requiredDULeaves)
      fault == IF checkInstallArgs(op) # "" THEN checkInstallArgs(op)
               ELSE IF ee.fault # "" THEN ee.fault ELSE row.fault
  IN  /\ op.kind = "install"
      /\ HasRoom(tree, DeploymentUnitTable) /\ HasRoom(tree, ExecutionUnitTable)
      /\ IF fault # ""
         THEN /\ Return(by, FailedResult(op, fault))
              /\ UNCHANGED <<tree, installed, gens>>
         ELSE /\ tree' = setLeaves(row.tree, row.row,
                           [UUID |-> op.uuid, Status |-> "Installing",
                            URL |-> op.url, Resolved |-> "false",
                            ExecutionEnvRef |-> ee.path])
              /\ Hold(by, op, "fetch", row.row, ee.path, NoManifest)
              /\ Keep

(* A unit that is found is reported with its version, whatever the fault. *)
WithVersion(op, found, fault) ==
  IF found.fault # "" THEN FailedResult(op, fault)
  ELSE Result(op, op.uuid, Manifests[installed[found.du].manifest].version,
              "Failed", fault)

StatusFault(t, du) ==
  IF Raw(t, du, "Status") \in {"Installed", "none"} THEN "" ELSE "invalid-state"

(* Update up to the fetch: find the unit, check its state and environment. *)
BeginUpdate(by, op) ==
  LET found == findLocked(tree, installed, op.uuid, op.version)
      fault == IF found.fault # "" THEN found.fault
               ELSE IF StatusFault(tree, found.du) # ""
               THEN StatusFault(tree, found.du)
               ELSE execEnv(tree, installed[found.du].ee).fault
  IN  /\ op.kind = "update"
      /\ tree' = tree
      /\ IF fault # ""
         THEN Return(by, WithVersion(op, found, fault)) /\ UNCHANGED <<installed, gens>>
         ELSE /\ Hold(by, op, "fetch", found.du, installed[found.du].ee, NoManifest)
              /\ Keep

(* Uninstall up to its delay: stopped, and its execution unit gone. *)
BeginUninstall(by, op) ==
  LET found == findLocked(tree, installed, op.uuid, op.version)
      unit == installed[found.du]
      fault == IF found.fault # "" THEN found.fault
               ELSE IF op.ee # <<>> /\ op.ee # unit.ee THEN "unknown-du"
               ELSE StatusFault(tree, found.du)
      stopped == stop(setLeaves(tree, found.du, [Status |-> "Uninstalling"]),
                      gens, unit)
  IN  /\ op.kind = "uninstall"
      /\ IF fault # ""
         THEN /\ Return(by, IF fault = "unknown-du" THEN FailedResult(op, fault)
                            ELSE WithVersion(op, found, fault))
              /\ UNCHANGED <<tree, installed, gens>>
         ELSE /\ tree' = syncActiveUnits(DeleteObject(stopped.tree, unit.eu).tree,
                                         installed, unit.ee)
              /\ gens' = stopped.gens
              /\ Hold(by, op, "remove", found.du, unit.ee, unit.manifest)
              /\ UNCHANGED <<installed, cwmp, usp>>

(* Run, from the lock to the first wait. *)
Lock(by, op) == mu = Free /\ Hold(by, op, "begin", <<>>, <<>>, NoManifest)
Begin ==
  /\ mu # Free /\ mu.step = "begin"
  /\ \/ BeginInstall(mu.by, mu.op)
     \/ BeginUpdate(mu.by, mu.op)
     \/ BeginUninstall(mu.by, mu.op)
  /\ UNCHANGED <<busy, disturbed, inputs>>

(* An undo that leaves the row behind. *)
undoNothing(t, du) == t

(* undo: no deployment unit survives a failed install. *)
undo(t, du) == DeleteObject(t, du).tree

(* Install, once the fetch answers. *)
FetchedInstall(answer) ==
  LET op == mu.op
      m == answer.manifest
      uuid == IF op.uuid = "" THEN AppUUID[Manifests[m].name] ELSE op.uuid
      named == setLeaves(tree, mu.du, [UUID |-> uuid])
      fault == checkManifest(named, installed, m, uuid, <<>>)
  IN  /\ op.kind = "install"
      /\ IF answer.fault # ""
         THEN tree' = undo(tree, mu.du) /\ Return(mu.by, FailedResult(op, answer.fault))
         ELSE IF fault # ""
         THEN /\ tree' = undo(named, mu.du)
              /\ Return(mu.by, Result(op, uuid, Manifests[m].version, "Failed", fault))
         ELSE /\ tree' = setLeaves(named, mu.du,
                           [Name |-> Manifests[m].name,
                            Version |-> Manifests[m].version])
              /\ Hold(mu.by, op, "start", mu.du, mu.ee, m)
              /\ UNCHANGED <<cwmp, usp>>
      /\ UNCHANGED <<installed, gens>>

(* Update fetches from where the unit came when it is given no URL. *)
SourceOf(op, du) == IF op.url = "" THEN installed[du].url ELSE op.url

(* Update, once the fetch answers: the running version is stopped here. *)
FetchedUpdate(answer) ==
  LET op == mu.op
      m == answer.manifest
      unit == installed[mu.du]
      old == Manifests[unit.manifest].version
      fault == IF answer.fault # "" THEN answer.fault
               ELSE IF checkManifest(tree, installed, m, op.uuid, mu.du) # ""
               THEN checkManifest(tree, installed, m, op.uuid, mu.du)
               ELSE IF Manifests[m].version = old
               THEN "version-exists" ELSE ""
      marked == setLeaves(tree, mu.du, [Status |-> "Updating",
                                        URL |-> SourceOf(op, mu.du)])
      stopped == stop(marked, gens, unit)
  IN  /\ op.kind = "update"
      /\ IF fault # ""
         THEN /\ Return(mu.by, Result(op, op.uuid, old, "Installed", fault))
              /\ UNCHANGED <<tree, gens>>
         ELSE /\ tree' = DeleteObject(stopped.tree, unit.eu).tree
              /\ gens' = stopped.gens
              /\ Hold(mu.by, op, "start", mu.du, mu.ee, m)
              /\ UNCHANGED <<cwmp, usp>>
      /\ installed' = installed

Fetch ==
  /\ mu # Free /\ mu.step = "fetch"
  /\ \E answer \in Serves[SourceOf(mu.op, mu.du)] :
       FetchedInstall(answer) \/ FetchedUpdate(answer)
  /\ UNCHANGED <<busy, disturbed, inputs>>

(* Install, after its delay; started is what start did. *)
FinishInstall(started) ==
  LET op == mu.op
      m == mu.manifest
      uuid == IF op.uuid = "" THEN AppUUID[Manifests[m].name] ELSE op.uuid
      unit == [manifest |-> m, url |-> op.url, roots |-> started.roots,
               eu |-> started.eu, ee |-> mu.ee]
  IN  /\ op.kind = "install"
      /\ IF started.fault # ""
         THEN /\ tree' = undo(started.tree, mu.du)
              /\ UNCHANGED <<installed, gens>>
         ELSE /\ installed' = [d \in DOMAIN installed \cup {mu.du} |->
                               IF d = mu.du THEN unit ELSE installed[d]]
              /\ tree' = syncActiveUnits(
                           setLeaves(started.tree, mu.du,
                             [Status |-> "Installed", Resolved |-> "true",
                              ExecutionUnitList |-> started.eu]),
                           installed', mu.ee)
              /\ gens' = started.gens
      /\ Return(mu.by, Result(op, uuid, Manifests[m].version, "Installed",
                              started.fault))

Forget(du) == [d \in DOMAIN installed \ {du} |-> installed[d]]

(* An update that gives up on the unit when its new version does not start. *)
FinishUpdateOnce(new, now) ==
  LET unit == [installed[mu.du] EXCEPT !.manifest = mu.manifest, !.eu = new.eu,
                                       !.roots = new.roots]
  IN  /\ installed' = IF new.fault = "" THEN [installed EXCEPT ![mu.du] = unit]
                      ELSE Forget(mu.du)
      /\ tree' = IF new.fault = ""
                 THEN setLeaves(new.tree, mu.du,
                        [Version |-> Manifests[mu.manifest].version,
                         Status |-> "Installed"])
                 ELSE undo(new.tree, mu.du)
      /\ gens' = new.gens
      /\ Return(mu.by, Result(mu.op, mu.op.uuid, Manifests[mu.manifest].version,
                              "Installed", new.fault))

(* Update, after its delay: a version that does not start puts the previous one
   back, and when that fails too the unit is gone.  new is what the start of the
   new version did, now what is running after it. *)
PutBack(new) ==
  IF new.fault = "" THEN new
  ELSE start(new.tree, new.gens, installed[mu.du].manifest, mu.ee)
FinishUpdate(new, now) ==
  LET op == mu.op
      unit == installed[mu.du]
      kept == IF new.fault = "" THEN mu.manifest ELSE unit.manifest
      url == IF new.fault = "" THEN SourceOf(op, mu.du) ELSE unit.url
  IN  /\ IF now.fault # ""
         THEN /\ installed' = Forget(mu.du)
              /\ tree' = undo(now.tree, mu.du)
         ELSE /\ installed' = [installed EXCEPT ![mu.du] =
                    [manifest |-> kept, url |-> url, roots |-> now.roots,
                     eu |-> now.eu, ee |-> mu.ee]]
              /\ tree' = syncActiveUnits(
                           setLeaves(now.tree, mu.du,
                             [Name |-> Manifests[kept].name,
                              Version |-> Manifests[kept].version,
                              Status |-> "Installed",
                              ExecutionUnitList |-> now.eu]),
                           installed', mu.ee)
      /\ gens' = now.gens
      /\ Return(mu.by, Result(op, op.uuid, Manifests[kept].version, "Installed",
                              new.fault))

(***************************************************************************)
(* Graft lets an app add instances to a table of the profile, which        *)
(* Unmount refuses to take out, and hang objects below those of another    *)
(* app, with which they are then taken out.  An app is apart from the apps *)
(* ms when it does neither: each of them wants a leaf it has too, and one  *)
(* of the two is refused, or has nothing in common with it but what the    *)
(* profile has.                                                            *)
(***************************************************************************)
Clash(a, b) == \E p \in DOMAIN a \cap DOMAIN b : isLeaf(a, p) \/ isLeaf(b, p)
OwnRows(m) ==
  \A q \in DOMAIN Manifests[m].tree \ {<<>>} :
    Last(q) \in InstanceNames => ~isTable(Factory, Front(q))
Separate(n, m) ==
  \/ Clash(Manifests[n].tree, Manifests[m].tree)
  \/ DOMAIN Manifests[n].tree \cap DOMAIN Manifests[m].tree \subseteq DOMAIN Factory
Apart(ms, m) == OwnRows(m) /\ \A n \in ms : Separate(n, m)
Others == {installed[d].manifest : d \in DOMAIN installed \ {mu.du}}

Start ==
  /\ mu # Free /\ mu.step = "start"
  /\ \E started \in {start(tree, gens, mu.manifest, mu.ee)} :
       \/ FinishInstall(started)
       \/ /\ mu.op.kind = "update"
          /\ \E now \in {PutBack(started)} : FinishUpdate(started, now)
  /\ disturbed' = (disturbed \/ ~Apart(Others, mu.manifest))
  /\ UNCHANGED <<busy, inputs>>

(* Uninstall, after its delay: the row goes, and the record with it. *)
Removed ==
  /\ mu # Free /\ mu.step = "remove"
  /\ tree' = DeleteObject(tree, mu.du).tree
  /\ installed' = Forget(mu.du)
  /\ Return(mu.by, Result(mu.op, mu.op.uuid, Manifests[mu.manifest].version,
                          "Uninstalled", ""))
  /\ UNCHANGED <<gens, busy, disturbed, inputs>>

(***************************************************************************)
(* CWMP.  ChangeDUState is refused when an operation lacks what its kind   *)
(* needs; an accepted request runs its operations in order on a goroutine  *)
(* of its own and queues one report.                                       *)
(***************************************************************************)
Handle(req) ==
  /\ req # <<>>
  /\ \A i \in DOMAIN req :
       CASE req[i].kind = "install" -> req[i].url # ""
         [] req[i].kind = "update" -> req[i].uuid # "" \/ req[i].url # ""
         [] OTHER -> req[i].uuid # ""

NoJob == [phase |-> "idle", ops |-> <<>>, results |-> <<>>]
ChangeDUState(j) ==
  /\ cwmp[j].phase = "idle" /\ inputs.requests > 0
  /\ \E req \in Requests :
       /\ Handle(req)
       /\ cwmp' = [cwmp EXCEPT ![j] =
            [phase |-> "running", ops |-> req, results |-> <<>>]]
  /\ inputs' = [inputs EXCEPT !.requests = @ - 1]
  /\ UNCHANGED <<tree, installed, gens, mu, usp, busy, disturbed>>

CwmpRun(j) ==
  LET next == Len(cwmp[j].results) + 1
  IN  /\ cwmp[j].phase = "running"
      /\ next \in DOMAIN cwmp[j].ops
      /\ Lock(j, cwmp[j].ops[next])
      /\ UNCHANGED <<tree, installed, gens, cwmp, usp, busy, disturbed, inputs>>

CwmpReport(j) ==
  /\ cwmp[j].phase = "running"
  /\ Len(cwmp[j].results) = Len(cwmp[j].ops)
  /\ cwmp' = [cwmp EXCEPT ![j] = [NoJob EXCEPT !.phase = "reported"]]
  /\ UNCHANGED <<tree, installed, gens, mu, usp, busy, disturbed, inputs>>

(***************************************************************************)
(* USP.  The commands are handled one at a time.  Update() and Uninstall() *)
(* name a row; Check takes Manager.mu for them, so the handler waits for a *)
(* running operation before it can refuse.  Only malformed arguments are   *)
(* refused here.  busy admits one operation, until its report is out.      *)
(***************************************************************************)
Idle == [handler |-> "idle", op |-> <<>>, async |-> "none", run |-> <<>>,
         result |-> <<>>]

UspOperate ==
  /\ usp.handler = "idle"
  /\ inputs.commands > 0
  /\ \E c \in Commands :
       LET op == IF c.kind = "install" THEN c
                 ELSE [c EXCEPT !.uuid = Raw(tree, c.du, "UUID")]
       IN  usp' = IF c.kind = "install" \/ c.du \in DOMAIN tree
                  THEN [usp EXCEPT !.handler = "check", !.op = op]
                  ELSE usp
  /\ inputs' = [inputs EXCEPT !.commands = @ - 1]
  /\ UNCHANGED <<tree, installed, gens, mu, cwmp, busy, disturbed>>

Check(op) ==
  IF op.kind = "install" THEN checkInstallArgs(op)
  ELSE IF op.uuid = "" THEN "invalid-arguments"
  ELSE findLocked(tree, installed, op.uuid, op.version).fault

UspCheck ==
  /\ usp.handler = "check"
  /\ usp.op.kind = "install" \/ usp.op.uuid = "" \/ mu = Free
  /\ IF Check(usp.op) = "invalid-arguments" \/ busy
     THEN usp' = [usp EXCEPT !.handler = "idle", !.op = <<>>] /\ busy' = busy
     ELSE /\ usp' = [usp EXCEPT !.handler = "idle", !.op = <<>>,
                                !.async = "run", !.run = usp.op]
          /\ busy' = TRUE
  /\ UNCHANGED <<tree, installed, gens, mu, cwmp, disturbed, inputs>>

UspRun ==
  /\ usp.async = "run"
  /\ Lock("usp", usp.run)
  /\ UNCHANGED <<tree, installed, gens, cwmp, usp, busy, disturbed, inputs>>

(* OperationComplete, then DUStateChange!. *)
UspReport ==
  /\ usp.async = "ran"
  /\ usp' = [usp EXCEPT !.async = "reported"]
  /\ UNCHANGED <<tree, installed, gens, mu, cwmp, busy, disturbed, inputs>>

(* A release that forgets the busy flag. *)
UspReleaseBusy ==
  /\ usp.async = "reported"
  /\ usp' = [usp EXCEPT !.async = "none", !.run = <<>>, !.result = <<>>]
  /\ UNCHANGED <<tree, installed, gens, mu, cwmp, busy, disturbed, inputs>>

UspRelease ==
  /\ usp.async = "reported"
  /\ busy' = FALSE
  /\ usp' = [usp EXCEPT !.async = "none", !.run = <<>>, !.result = <<>>]
  /\ UNCHANGED <<tree, installed, gens, mu, cwmp, disturbed, inputs>>

(***************************************************************************)
(* The rest of the device.  The ACS flips the environment's Enable; CWMP   *)
(* AddObject and USP Add, CWMP DeleteObject and USP Delete change any      *)
(* table, and a factory reset replaces the tree, none of them with a word  *)
(* to the manager.                                                         *)
(***************************************************************************)
ToggleExecEnv ==
  /\ inputs.toggles > 0
  /\ \E v \in {"true", "false"} :
       tree' = setLeaves(tree, Append(ExecEnvTable, "1"), [Enable |-> v])
  /\ inputs' = [inputs EXCEPT !.toggles = @ - 1]
  /\ UNCHANGED <<installed, gens, mu, cwmp, usp, busy, disturbed>>

AddInstance(p) ==
  /\ inputs.rows > 0 /\ HasRoom(tree, p)
  /\ tree' = AddObject(tree, p).tree
  /\ disturbed' = (disturbed \/ AddObject(tree, p).err = "")
  /\ inputs' = [inputs EXCEPT !.rows = @ - 1]
  /\ UNCHANGED <<installed, gens, mu, cwmp, usp, busy>>

DeleteInstance(p) ==
  /\ inputs.rows > 0
  /\ tree' = DeleteObject(tree, p).tree
  /\ disturbed' = (disturbed \/ DeleteObject(tree, p).err = "")
  /\ inputs' = [inputs EXCEPT !.rows = @ - 1]
  /\ UNCHANGED <<installed, gens, mu, cwmp, usp, busy>>

FactoryReset ==
  /\ inputs.resets > 0
  /\ disturbed' = TRUE
  /\ tree' = Reset(tree, Factory).tree
  /\ inputs' = [inputs EXCEPT !.resets = @ - 1]
  /\ UNCHANGED <<installed, gens, mu, cwmp, usp, busy>>

Init ==
  /\ tree = Factory
  /\ installed = <<>> /\ gens = {}
  /\ mu = Free
  /\ cwmp = [j \in Jobs |-> NoJob]
  /\ usp = Idle /\ busy = FALSE
  /\ inputs \in Budgets /\ disturbed = FALSE

Settled == \* every input spent and answered
  /\ \A j \in Jobs : cwmp[j].phase # "running"
  /\ inputs.requests = 0 /\ inputs.commands = 0 /\ usp = Idle
  /\ UNCHANGED vars

Next ==
  \/ \E j \in Jobs : ChangeDUState(j) \/ CwmpRun(j) \/ CwmpReport(j)
  \/ UspOperate \/ UspCheck \/ UspRun \/ UspReport \/ UspRelease
  \/ Begin \/ Fetch \/ Start \/ Removed
  \/ ToggleExecEnv \/ FactoryReset
  \/ \E p \in RowAdds : AddInstance(p)
  \/ \E p \in RowDeletes : DeleteInstance(p)
  \/ Settled

(* A fetch ends within its timeout, a delay runs out, a goroutine that can run
   is run, and Go's mutex hands itself to a waiter that has starved.  One of the
   manager's steps is enabled exactly while the lock is held and each moves mu:
   OperationFair is their weak fairness, written so that TLC need not evaluate
   ENABLED of them. *)
OperationFair == []<>(mu = Free) \/ []<><<mu' # mu>>_vars
Fairness ==
  /\ OperationFair
  /\ WF_vars(UspReport) /\ WF_vars(UspRelease)
  /\ SF_vars(UspCheck) /\ SF_vars(UspRun)
  /\ \A j \in Jobs : SF_vars(CwmpRun(j)) /\ WF_vars(CwmpReport(j))

Spec == Init /\ [][Next]_vars /\ Fairness

(***************************************************************************)
(* Properties                                                              *)
(***************************************************************************)
Rows(table) == Instances(tree, table)
Installation(d) == Manifests[installed[d].manifest]
Outside(t) == {q \in DOMAIN t : ~IsPrefix(Root, q)}

(* While no operation is in flight the inventory is the truth: the deployment
   units are the ones on record, each Installed with the version that runs, its
   execution unit Active and its own; the data model is the factory's and the
   installed apps', no more and no less, and so are the generators; and no UUID
   is installed twice.  (manager.go install, update, uninstall: every fault
   path takes back what it had added.)  Excepted, for good: a factory reset, a
   row somebody else added or deleted, an app that is not Apart. *)
Inventory ==
  mu = Free /\ ~disturbed =>
    /\ Rows(DeploymentUnitTable) = DOMAIN installed
    /\ Rows(ExecutionUnitTable) = {installed[d].eu : d \in DOMAIN installed}
    /\ \A d \in DOMAIN installed :
         /\ Raw(tree, d, "Status") = "Installed"
         /\ Raw(tree, d, "Version") = Installation(d).version
         /\ Raw(tree, installed[d].eu, "Status") = "Active"
         /\ Raw(tree, installed[d].eu, "Name") = Installation(d).name
         /\ \A e \in DOMAIN installed \ {d} :
              /\ Raw(tree, e, "UUID") # Raw(tree, d, "UUID")
              /\ installed[e].eu # installed[d].eu
    /\ Outside(tree) = Outside(Factory) \cup
         UNION {DOMAIN Installation(d).tree : d \in DOMAIN installed}
    /\ gens = UNION {Installation(d).gens : d \in DOMAIN installed}

(* The result of the operation whose step unlocks the manager. *)
Returned == IF mu.by = "usp" THEN usp'.result ELSE Last(cwmp'[mu.by].results)
Returning == mu # Free /\ mu' = Free

(* What an operation reports is what it did: a fault means the installed units
   and their versions are the ones it found, a success that the unit it names is
   installed at the version it names, or is gone.  (manager.go update: a version
   that does not start puts the previous one back.)  Excepted as in Inventory: a
   deployment unit deleted during its install's delay is reported Installed. *)
ResultsTrue ==
  [][Returning /\ ~disturbed' =>
       LET res == Returned
           at(d) == Manifests[installed'[d].manifest].version
       IN  IF res.fault # ""
           THEN /\ DOMAIN installed' = DOMAIN installed
                /\ \A d \in DOMAIN installed :
                     installed'[d].manifest = installed[d].manifest
           ELSE IF res.kind = "uninstall"
           THEN \A d \in DOMAIN installed' : Raw(tree', d, "UUID") # res.uuid
           ELSE \E d \in DOMAIN installed' :
                  Raw(tree', d, "UUID") = res.uuid /\ at(d) = res.version]_vars

(* Every accepted request is reported, and the USP side is never left refusing
   commands as busy. *)
OperationsReported ==
  /\ \A j \in Jobs : cwmp[j].phase = "running" ~> cwmp[j].phase = "reported"
  /\ busy ~> ~busy
=============================================================================
