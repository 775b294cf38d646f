SPECIFICATION Spec
CONSTANTS
  Readers = {h1, h2}
  Arrays = {a1, a2, a3}
  MaxVersion = 1
  Ttl = 2
  MaxLoad = 1
  Horizon = 4
  None = None
  HoldingsTtl = 1
  Wallets <- MCWallets
  Scopes <- MCScopes
  AssetList <- MCAssetList
  Native <- MCNative
  ChainOf <- MCChainOf
  Balance <- MCBalance
  Decimals <- MCDecimals
  Guess <- MCGuess
  Weaponized = {"x1"}
  Allowlist = {"u1"}
  Source <- MCSource
  Price <- MCPrice
  RowsOf <- MCRowsOf
  MaxListed = 2
  MaxUnknown = 1
  MaxDecimals = 2
  ProviderAnswers <- MCAnswers
SYMMETRY Symmetry
INVARIANTS ServedIsRecent FoldsAsProbed HoldingsHonest
PROPERTY EntriesKept
CHECK_DEADLOCK FALSE
