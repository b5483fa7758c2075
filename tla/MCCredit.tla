------------------------------- MODULE MCCredit -------------------------------
(* CreditLedger for TLC: runs and steps are interchangeable.                *)
EXTENDS CreditLedger, TLC

Symmetry == Permutations(Runs) \cup Permutations(Steps)

\* No limit given, and one that is refused.
AskedFor == {0, -1}
===============================================================================
