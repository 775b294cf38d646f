---------------------------- MODULE MCPortfolio ----------------------------
EXTENDS Portfolio, TLC

\* Two wallets.  On chain 1 t1 is in the ledger with a wrong guess of its decimals, t2 is
\* spam there and t3 is unknown; chain 2 has an allowlisted token, chain 3 a weaponized
\* one, and chain 4 more tokens than are listed or looked up.
MCWallets == <<"w1", "w2">>
MCScopes == {"all"}
MCAssetList == <<"n1", "t1", "t2", "t3", "n2", "u1", "x1", "y1", "y2", "y3">>
MCNative == {"n1", "n2"}
MCChainOf == [a \in ToSet(MCAssetList) |->
  CASE a \in {"n1", "t1", "t2", "t3"} -> 1 [] a \in {"n2", "u1"} -> 2 [] a = "x1" -> 3 [] OTHER -> 4]
MCBalance ==
  "w1" :> [a \in ToSet(MCAssetList) |-> CASE a = "n1" -> 2 [] a \in {"t1", "u1"} -> 3
                                          [] a \in {"t2", "x1", "y1", "y2", "y3"} -> 1 [] OTHER -> 0]
  @@ "w2" :> [a \in ToSet(MCAssetList) |-> IF a \in {"n1", "n2", "t1", "t3", "y2"} THEN 1 ELSE 0]
MCDecimals == [a \in ToSet(MCAssetList) |-> IF a = "t1" THEN 0 ELSE 1]
MCGuess == [a \in ToSet(MCAssetList) |-> 2]
MCSource == [a \in ToSet(MCAssetList) |-> IF a \in MCNative THEN "wrapped" ELSE a]
MCPrice == [a \in ToSet(MCAssetList) |-> IF a \in MCNative THEN 5 ELSE 2]
MCRowsOf == [v \in 0..MaxVersion |-> IF v = 0 THEN {} ELSE
  {[asset |-> "t1", spam |-> TRUE, usable |-> TRUE], [asset |-> "t1", spam |-> FALSE, usable |-> TRUE],
   [asset |-> "t2", spam |-> TRUE, usable |-> TRUE], [asset |-> "t3", spam |-> FALSE, usable |-> FALSE]}]

\* Every lookup may fail or answer otherwise than usual, at most two at a time.
Lookups ==
  {<<"chain", w, c>> : w \in ToSet(MCWallets), c \in {1, 2, 4}}
  \cup {<<"meta", a, x>> : a \in {"t1", "t3", "x1"}, x \in {"null", "failed"}}
  \cup {<<"market", k, x>> : k \in {"t1", "t3", "u1", "wrapped"}, x \in {"illiquid", "no_market", "failed", "garbled"}}
  \cup {<<"reverting", "w1", "t1">>}
Answering(odd) ==
  [chain |-> [w \in ToSet(MCWallets) |-> [c \in 1..4 |-> <<"chain", w, c>> \notin odd]],
   reverting |-> {<<o[2], o[3]>> : o \in {o \in odd : o[1] = "reverting"}},
   meta |-> [a \in ToSet(MCAssetList) |-> IF \E x \in {"null", "failed"} : <<"meta", a, x>> \in odd
     THEN (CHOOSE o \in odd : o[1] = "meta" /\ o[2] = a)[3] ELSE "answer"],
   market |-> [k \in ToSet(MCAssetList) \cup {"wrapped"} |-> IF \E o \in odd : o[1] = "market" /\ o[2] = k
     THEN (CHOOSE o \in odd : o[1] = "market" /\ o[2] = k)[3] ELSE "priced"]]
MCAnswers == {Answering(odd) : odd \in {{o, p} : o, p \in Lookups}}

Symmetry == {p @@ q : p \in Permutations(Readers), q \in Permutations(Arrays)}
=============================================================================
