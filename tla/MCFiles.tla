------------------------------ MODULE MCFiles ------------------------------
(* Finite instances of Files for TLC. *)
EXTENDS Files

Grows == {0, 3}       \* the index file grows, neither id has its last entry
LastEntry == {0, 1}   \* id 1 has the last of two entries
=============================================================================
