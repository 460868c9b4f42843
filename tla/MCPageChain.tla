---------------------------- MODULE MCPageChain ----------------------------
(* Finite instances of PageChain for TLC. *)
EXTENDS PageChain

OneTsdb == {1}
TwoTsdbs == {1, 2}
=============================================================================
