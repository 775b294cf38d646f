--------------------------- MODULE MCOpenDidLogin ---------------------------
EXTENDS OpenDidLogin, TLC

\* Browsers, holders, attempts and handler slots are interchangeable.
Symmetry == Permutations(Browsers) \cup Permutations(Holders)
              \cup Permutations(Ids) \cup Permutations(Reqs)
=============================================================================
