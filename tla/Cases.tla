------------------------------- MODULE Cases -------------------------------
(***************************************************************************)
(* What the modules that apply the algorithms of the run time to inputs    *)
(* have in common: a state is one case, a record with the name of the      *)
(* algorithm and what it is applied to.                                    *)
(***************************************************************************)
CONSTANT Null    \* a missing value or file

VARIABLE input   \* [case, ...]
=============================================================================
