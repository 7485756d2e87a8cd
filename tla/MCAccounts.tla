----------------------------- MODULE MCAccounts -----------------------------
(***************************************************************************)
(* The constants of the runs of Accounts.                                  *)
(***************************************************************************)
EXTENDS Accounts, TLC

CONSTANTS m1, m2, g1, g2

\* Two people; the address of the first passed to the second one.
MCProfiles == {[sub |-> g1, email |-> m1], [sub |-> g2, email |-> m1], [sub |-> g2, email |-> m2]}

Symmetry == Permutations(Workers) \cup Permutations(Passwords)
=============================================================================
