-------------------------- MODULE MCPeriodicDelay --------------------------
(* A small instance: references before, at and after the start of the clock. *)
EXTENDS PeriodicDelay

MCReferences == {-5, 0, 7, 30}
=============================================================================
