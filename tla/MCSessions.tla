----------------------------- MODULE MCSessions -----------------------------
(* Small instances of Sessions for TLC. *)
EXTENDS Sessions, TLC

\* Users, tokens, reset tokens and workers are interchangeable: no operator of
\* Sessions chooses among them.
Symmetry == Permutations(User) \cup Permutations(Token)
              \cup Permutations(ResetToken) \cup Permutations(Worker)
=============================================================================
