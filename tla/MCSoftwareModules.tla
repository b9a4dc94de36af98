-------------------------- MODULE MCSoftwareModules --------------------------
(* Two apps: hub, with versions 1 and 2 and a version 3 that collides with a
   leaf of the device; cam; bad, which the profile injects a fault for.  ext is
   not apart: one version hangs below hub, another has a row of the device's T. *)
EXTENDS SoftwareModules

MCCounters == [DU |-> "DUNumberOfEntries", EU |-> "EUNumberOfEntries"]
MCNames ==
  InstanceNames \cup Range(MCCounters) \cup
    {"SM", "EE", "DU", "EU", "Own", "hub", "cam", "bad", "T", "L", "M", "Enable",
     "UUID", "Name", "Status", "Version", "References"}
text(v) == NewLeaf("string", v, FALSE)
DUTemplate ==
  (<<>> :> NewBranch) @@ (<<"UUID">> :> text("")) @@ (<<"Name">> :> text(""))
    @@ (<<"Status">> :> text("")) @@ (<<"Version">> :> text(""))
EUTemplate ==
  (<<>> :> NewBranch) @@ (<<"Name">> :> text("")) @@ (<<"Status">> :> text(""))
    @@ (<<"References">> :> text(""))
MCFactory ==
  (<<>> :> NewBranch) @@ (<<"Own">> :> text("x"))
    @@ (<<"T">> :> NewTable((<<>> :> NewBranch))) @@ (<<"SM">> :> NewBranch)
    @@ (<<"SM", "DU">> :> NewTable(DUTemplate))
    @@ (<<"SM", "EU">> :> NewTable(EUTemplate))
    @@ (<<"SM", "DUNumberOfEntries">> :> NewLeaf("unsignedInt", "0", FALSE))
    @@ (<<"SM", "EE">> :> NewTable((<<>> :> NewBranch)))
    @@ (<<"SM", "EE", "1">> :> NewBranch)
    @@ (<<"SM", "EE", "1", "Enable">> :> NewLeaf("boolean", "true", TRUE))

App(name, version, paths) ==
  [name |-> name, version |-> version, gens |-> {<<name, "L">>} \cap paths,
   tree |-> [q \in paths |-> IF Last(<<"">> \o q) \in {"L", "M", "Own"}
                            THEN text("v") ELSE NewBranch]]
MCManifests ==
  [hub1 |-> App("hub", "1", {<<>>, <<"hub">>, <<"hub", "L">>}),
   hub2 |-> App("hub", "2", {<<>>, <<"hub">>, <<"hub", "L">>, <<"hub", "M">>}),
   hub3 |-> App("hub", "3", {<<>>, <<"hub">>, <<"hub", "L">>, <<"Own">>}),
   cam1 |-> App("cam", "1", {<<>>, <<"cam">>, <<"cam", "L">>}),
   bad1 |-> App("bad", "1", {<<>>, <<"bad">>, <<"bad", "L">>}),
   ext1 |-> App("ext", "1", {<<>>, <<"hub">>, <<"hub", "Own">>}),
   ext2 |-> App("ext", "2", {<<>>, <<"T">>, <<"T", "1">>, <<"T", "1", "L">>})]
Ok(m) == [fault |-> "", manifest |-> m]
NoFile == [fault |-> "server-unreachable", manifest |-> "hub1"]
MCServes ==
  [hub |-> {Ok("hub1"), Ok("hub2"), Ok("hub3"), NoFile},
   cam |-> {Ok("cam1")}, bad |-> {Ok("bad1")}, ext |-> {Ok("ext1"), Ok("ext2")}]
MCAppUUID == [hub |-> "u1", cam |-> "u2", bad |-> "u3", ext |-> "u4"]

Op(kind, url, uuid, du) ==
  [kind |-> kind, url |-> url, uuid |-> uuid, version |-> "", ee |-> <<>>, du |-> du]
Install(url, uuid) == Op("install", url, uuid, <<>>)
MCRequests ==
  {<<Install("hub", "")>>, <<Install("cam", "u1")>>,
   <<Install("cam", ""), Install("bad", "")>>, <<Install("ext", "")>>,
   <<Op("update", "", "u1", <<>>), Op("uninstall", "", "u1", <<>>)>>,
   <<Op("uninstall", "", "", <<>>)>>}
Budget(r, c, t, w, n) ==
  [requests |-> r, commands |-> c, toggles |-> t, resets |-> w, rows |-> n]
MCBudgets ==
  {Budget(1, 2, 0, 0, 0), Budget(2, 0, 1, 0, 0), Budget(2, 0, 0, 1, 0),
   Budget(2, 0, 0, 0, 1), Budget(1, 1, 0, 0, 1)}
MCRowAdds == {<<"SM", "DU">>, <<"SM">>}
MCRowDeletes == {<<"SM", "DU", "1">>, <<"SM", "EU", "1">>, <<"T", "1">>}
MCCommands ==
  {Install("hub", ""), Install("", ""),
   Op("update", "", "", <<"SM", "DU", "1">>),
   Op("uninstall", "", "", <<"SM", "DU", "1">>)}
=============================================================================
