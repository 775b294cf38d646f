----------------------------- MODULE MCChainScan -----------------------------
EXTENDS ChainScan

Token(type, list, symbol, n) == [type |-> type, list |-> list, symbol |-> symbol, n |-> n]
Usdc  == Token("ERC20", "allow", "plain", 1)
Coin  == Token("ERC20", "none", "plain", 2)
Fake  == Token("ERC20", "deny", "plain", 3)
Eth20 == Token("ERC20", "none", "native", 4)
Blank == Token("ERC20", "none", "blank", 5)
Nft   == Token("ERC721", "none", "plain", 6)
Multi == Token("ERC1155", "none", "plain", 7)
MultiB == Token("ERC1155", "none", "plain", 8)

Log(asset, amount, from, to) ==
  [category |-> CASE asset.type = "ERC20" -> "erc20" [] asset.type = "ERC721" -> "erc721" [] OTHER -> "erc1155",
   from |-> from, to |-> to,
   items |-> <<[asset |-> asset, amount |-> amount]>>]
In(asset, amount) == Log(asset, amount, Other, Wallet)
Out(asset, amount) == Log(asset, amount, Wallet, Other)
Pair == [category |-> "erc1155", from |-> Other, to |-> Wallet,
         items |-> <<[asset |-> Multi, amount |-> 1], [asset |-> MultiB, amount |-> 2]>>]

Call(type, from, to, value, err, parent) ==
  [type |-> type, from |-> from, to |-> to, value |-> value, err |-> err, parent |-> parent]

Tx(hash, block, from, to, value, tokens, frames) ==
  [hash |-> hash, block |-> block, from |-> from, to |-> to, value |-> value, ok |-> TRUE,
   gas |-> 1, price |-> 1, txPrice |-> None, extra |-> 1, tokens |-> tokens, frames |-> frames]

World(txs, internal, sources, gatedSources, faults, n, start, top) ==
  [txs |-> txs, internal |-> internal, sources |-> sources, gated |-> gatedSources, faults |-> faults,
   scans |-> n, start |-> start, top |-> top]
Full(txs) == World(txs, TRUE, <<>>, {}, {}, 1, 1, 1)
Recovering(txs, gatedSources, faults, n, start, top) ==
  World(txs, FALSE, <<"alchemy-debug", "balance-diff">>, gatedSources, faults, n, start, top)

\* One transaction with up to three logs in any order, and perhaps a top-level value: every shape of a group.
Logs ==
  {In(Usdc, 1), In(Usdc, 2), Out(Usdc, 2), In(Coin, 1), Out(Coin, 2), Out(Usdc, 3), Log(Coin, 1, Wallet, Wallet),
   In(Fake, 1), Out(Fake, 1), Out(Eth20, 1), In(Blank, 1), Out(Blank, 1), In(Nft, 1), Pair,
   Log(Usdc, 1, Bridge, Wallet), Log(Coin, 1, Wallet, Bridge)}
Shapes ==
  {Full({Tx(1, 1, Wallet, Other, value, logs, <<>>)}) : value \in {0, 2}, logs \in UNION {[1..n -> Logs] : n \in 0..3}}

\* A trade of a token for native coin paid by an inner call, a refund, calls that revert or only delegate.
Sell(hash, block) ==
  Tx(hash, block, Wallet, Other, 0, <<Out(Usdc, 2)>>, <<Call("CALL", Other, Wallet, 4, FALSE, 0)>>)
Buy(hash, block) ==
  Tx(hash, block, Wallet, Other, 2, <<In(Coin, 1)>>, <<Call("CALL", Other, Wallet, 1, FALSE, 0)>>)
Calls ==
  {<<Call("CALL", Other, Wallet, 1, FALSE, 0), Call("CALL", Wallet, Other, 2, FALSE, 1)>>,
   <<Call("CALL", Other, Other, 0, TRUE, 0), Call("CALL", Other, Wallet, 1, FALSE, 1)>>,
   <<Call("DELEGATECALL", Wallet, Other, 2, FALSE, 0), Call("CALL", Other, Wallet, 1, FALSE, 1)>>,
   <<Call("CALL", Wallet, Wallet, 1, FALSE, 0), Call("SELFDESTRUCT", Other, Wallet, 2, FALSE, 0)>>}
Priced(tx) == {tx, [tx EXCEPT !.price = None, !.txPrice = 2], [tx EXCEPT !.price = None], [tx EXCEPT !.ok = FALSE]}
Traces ==
  UNION {{Recovering({tx}, closed, {}, 1, 1, 1) :
            tx \in UNION {Priced(Tx(1, 1, from, to, value, logs, calls)) : calls \in Calls}} :
         closed \in {{}, {"alchemy-debug"}, {"alchemy-debug", "balance-diff"}},
         from \in {Wallet, Other}, to \in {Wallet, Other, None}, value \in {0, 2},
         logs \in {<<>>, <<Out(Usdc, 2)>>, <<In(Coin, 1)>>}}

\* Two or three transactions, scans that overlap and a provider that fails in every way.
Deposit(hash, block) == Tx(hash, block, Other, Wallet, 2, <<>>, <<>>)
Busy ==
  {Recovering({Sell(1, 1), Buy(2, 2)}, closed, faults, 1, 1, 2) :
     closed \in {{}, {"alchemy-debug"}, {"alchemy-debug", "balance-diff"}},
     faults \in {{"busy"}, {"error", "archive"}, {"spoiled"}, {"upgrade", "busy"}}}
  \cup {Recovering({Sell(1, 1), Buy(2, block)}, {"alchemy-debug"}, {"archive"}, 1, 2, 2) : block \in {1, 2}}
  \cup {Recovering({Sell(1, 1), Deposit(2, 2)}, {"alchemy-debug"}, {"upgrade"}, 2, 1, 2),
        Recovering({Buy(1, 1)}, Sources, {}, 2, 1, 1),
        Recovering({Buy(1, 1), Buy(2, 2)}, {}, {}, 2, 1, 2)}
  \cup {World({Sell(1, 1), Buy(2, 1), Deposit(3, 2)}, TRUE, <<>>, {}, {"repeat", "error"}, 2, 1, 2)}

\* A key that may not trace, until its plan is upgraded between two scans.
Switching == {Recovering({Sell(1, 1)}, {"alchemy-debug"}, {"upgrade"}, 2, 1, 1)}

MCWorlds == Shapes \cup Traces \cup Busy
=============================================================================
