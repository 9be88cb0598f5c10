---------------------------- MODULE MCConfServer ----------------------------
(* ConfServer for TLC: neither the names of the accounts nor those of the     *)
(* sessions matter.  Only runs without liveness properties use Symmetry.      *)
EXTENDS ConfServer, TLC

Symmetry == Permutations(Account) \cup Permutations(SessName)
=============================================================================
