----------------------------- MODULE MCAccounts -----------------------------
(* A small instance of Accounts for TLC: one address in two spellings, and  *)
(* another.                                                                *)
EXTENDS Accounts, TLC

CONSTANTS a1, A1, a2

MCLower == (a1 :> a1) @@ (A1 :> a1) @@ (a2 :> a2)

Symmetry == Permutations(User) \cup Permutations(Phone)
              \cup Permutations(Link) \cup Permutations(Worker)
=============================================================================
