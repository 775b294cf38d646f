---------------------------- MODULE MCWalletSync ----------------------------
EXTENDS WalletSync, TLC

\* Wallets, binding ids, chains, processes and clients are interchangeable.
Symmetry == Permutations(Ids) \cup Permutations(Chains) \cup Permutations(Procs)
            \cup Permutations(Clients) \cup Permutations(Wallets)
=============================================================================
