----------------------------- MODULE MCRegistry -----------------------------
(* Finite instances of Registry for TLC. *)
EXTENDS Registry

OneField == {<<"f">>, <<Value>>}
TwoFields == {<<"f">>, <<"f", "g">>, <<"g", "f">>}
OnlyLine == {"line"}
Both == {"put", "line"}
=============================================================================
