------------------------------ MODULE MCQuery ------------------------------
(* Finite instances of Query for TLC. *)
EXTENDS Query

OneTsdb == {1}
TwoTsdbs == {1, 2}
=============================================================================
