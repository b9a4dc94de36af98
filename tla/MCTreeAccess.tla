---------------------------- MODULE MCTreeAccess ----------------------------
(***************************************************************************)
(* A profile with one deferred leaf, a leaf the device drives, a table     *)
(* with its counter and one row, an app that may be grafted and one that   *)
(* brings the table a row.                                                 *)
(***************************************************************************)
EXTENDS TreeAccess

MCCounters == [Row |-> "RowNumberOfEntries"]

Url == <<"Url">>
Level == <<"Level">>
Row == <<"Row">>
Count == <<"RowNumberOfEntries">>
Template == (<<>> :> NewBranch) @@ (<<"v">> :> NewLeaf("unsignedInt", "0", TRUE))
RowLeaf(n) == <<"Row", n, "v">>

MCProfile ==
  LET leaf(t, p, l) == Mount(t, p, (<<>> :> l)).tree
      t1 == leaf(New, Url, NewLeaf("string", "a", TRUE))
      t2 == leaf(t1, Level, NewLeaf("boolean", "0", TRUE))
      t3 == leaf(t2, Count, NewLeaf("unsignedInt", "0", FALSE))
  IN  AddObject(AddTable(t3, Row, Template).tree, Row).tree
AppTree == Mount(New, <<"App", "on">>, (<<>> :> NewLeaf("string", "x", TRUE))).tree
AppRow == Mount(New, RowLeaf("2"), (<<>> :> NewLeaf("unsignedInt", "0", TRUE))).tree
Clash == Mount(New, Level, (<<>> :> NewLeaf("string", "x", TRUE))).tree

MCNames == InstanceNames \cup {"Url", "Level", "Row", "RowNumberOfEntries", "v", "App", "on"}
MCDataModel ==
  LET leaf(type, writable) == [type |-> type, writable |-> writable]
  IN  (Url :> leaf("string", TRUE)) @@ (Level :> leaf("boolean", TRUE))
        @@ (Count :> leaf("unsignedInt", FALSE)) @@ (Row :> [template |-> Template])
        @@ (RowLeaf("index") :> leaf("unsignedInt", TRUE)) @@ (<<"App", "on">> :> leaf("string", TRUE))
MCTemplates == {Template}
MCApps == {AppTree, AppRow, Clash}
MCWatched == {Level, Count}
MCDeferred == {Url}
MCTables == {Row}
MCExpressions == ("[v==1]" :> [key |-> "v", raw |-> "1", equal |-> TRUE])
                   @@ ("[]" :> [key |-> "", raw |-> "", equal |-> TRUE])

entry(p, raw) == [path |-> p, raw |-> raw]
MCReads == {[path |-> <<>>, partial |-> TRUE], [path |-> <<"Nope">>, partial |-> FALSE],
            [path |-> <<"Row", "*">>, partial |-> TRUE],
            [path |-> <<"Row", "[]">>, partial |-> TRUE]}
MCSpvRequests == {<<entry(Url, "b"), entry(RowLeaf("1"), "1")>>,
                  <<entry(Url, "a"), entry(Count, "3")>>,
                  <<entry(Level, "1"), entry(RowLeaf("2"), "1")>>,
                  <<entry(Level, "0"), entry(Level, "1")>>}
MCSpaRequests ==
  LET spa(p, partial, n) ==
        <<[path |-> p, partial |-> partial, notificationChange |-> TRUE, notification |-> n,
           accessChange |-> FALSE, access |-> "default"]>>
  IN  {spa(<<"App">>, TRUE, 1), spa(Level, FALSE, 3)}
MCAddRequests == {Row, <<"Nope">>, Level}
MCDeleteRequests == {<<"Row", "1">>, Row}
setting(p, raw, required) == [param |-> p, raw |-> raw, required |-> required]
MCUspSets == {[path |-> <<"Row", "*">>, settings |-> <<setting("v", "1", TRUE)>>],
              [path |-> <<>>, settings |-> <<setting("Level", "1", FALSE),
                                             setting("RowNumberOfEntries", "3", TRUE)>>]}
MCUspAdds == {[path |-> Row, settings |-> <<setting("v", "1", FALSE), setting("v", "no", TRUE)>>],
              [path |-> Row, settings |-> <<setting("v", "1", TRUE)>>],
              [path |-> <<"Row", "[v==1]", "Nope">>, settings |-> <<>>]}
MCUspDeletes == {<<"Row", "*">>, <<"Row", "2">>}
MCDeviceWrites == {entry(Level, "0"), entry(Level, "1")}
(* A CWMP-only, a USP-only and a dual-stack CPE; the last with a quiet device. *)
MCConfigurations == {{"acs", "device"}, {"usp", "device"}, {"acs", "usp"}}
=============================================================================
