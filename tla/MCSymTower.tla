----------------------------- MODULE MCSymTower -----------------------------
(* Small instances of SymTower for TLC. *)
EXTENDS SymTower
=============================================================================
