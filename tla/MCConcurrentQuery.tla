-------------------------- MODULE MCConcurrentQuery ------------------------
(* Finite instances of ConcurrentQuery for TLC. *)
EXTENDS ConcurrentQuery

OneTsdb == {1}
TwoTsdbs == {1, 2}
=============================================================================
