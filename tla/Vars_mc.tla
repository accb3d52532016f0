----------------------------- MODULE Vars_mc -----------------------------
(* The constants of Vars for TLC: two texts, one of which is a number. *)
EXTENDS Vars

Texts == {"x", "7"}
ParseTexts == [v \in Texts |-> IF v = "x" THEN NoInt ELSE 7]
ShowNumbers == [i \in {7} |-> "7"]
==========================================================================
