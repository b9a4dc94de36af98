--------------------------- MODULE MCTreeWriters ---------------------------
(* CPE r1 has a counter whose path is given to a drift once it is removed, as
   an update of an app does; CPE r2 has an enum.  One plan leaves the generators
   out and lets the ACS trigger a diagnostic. *)
EXTENDS TreeWriters
CONSTANTS r1, r2, a, b, c, w1, w2
MCRunnerOf == (a :> r1) @@ (b :> r1) @@ (c :> r2)
MCPath == (a :> "p") @@ (b :> "p") @@ (c :> "q")
MCInterval == (a :> 1) @@ (b :> 2) @@ (c :> 1)
MCConfig ==
  (a :> [type |-> "counter", min |-> 1, max |-> 3, step |-> 3, span |-> 1])
    @@ (b :> [type |-> "drift", min |-> 2, max |-> 4, stepMax |-> 1])
    @@ (c :> [type |-> "enum", values |-> <<7, 8>>, mode |-> "cycle"])
Plan(gens, removes, stops, shutdown, pool) ==
  [gens |-> gens, removes |-> removes, stops |-> stops, shutdown |-> shutdown,
   pool |-> pool, diag |-> [writes |-> 0, resets |-> 0]]
Diagnosed == [writes |-> 4, resets |-> 1]
MCPlans ==
  {Plan({a, b}, {"p"}, {}, FALSE, {w1}), Plan({a, c}, {}, {r1}, FALSE, {w1}),
   Plan({a}, {}, {r1}, TRUE, {w1, w2}),
   [Plan({}, {}, {}, FALSE, {}) EXCEPT !.diag = Diagnosed]}
=============================================================================
