---------------------------- MODULE MCProfileStore ----------------------------
(* ProfileStore for TLC: names that sanitize and the file system confuse,    *)
(* one that they keep apart, and one that is only space.                     *)
EXTENDS ProfileStore, TLC

MCNames == {<<"a">>, <<" ", "A">>, <<"a", "?">>, <<" ">>}
MCFold == [c \in {"A"} |-> "a"]
Symmetry == Permutations(Handlers)
===============================================================================
