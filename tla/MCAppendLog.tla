---------------------------- MODULE MCAppendLog ----------------------------
(* Finite instances of AppendLog for TLC. *)
EXTENDS AppendLog

OneTsdb == {1}
TwoTsdbs == {1, 2}
=============================================================================
