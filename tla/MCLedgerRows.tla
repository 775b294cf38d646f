---------------------------- MODULE MCLedgerRows ----------------------------
EXTENDS LedgerRows, TLC

\* Legs, event types and edits are interchangeable.
Symmetry == Permutations(Legs) \cup Permutations(Types) \cup Permutations(Edits)
=============================================================================
