--------------------------- MODULE MCSymChannel ---------------------------
(* Small instances of SymChannel for TLC. *)
EXTENDS SymChannel

OnlyOpener == {A}
============================================================================
