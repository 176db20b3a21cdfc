\* Two requests of any tokens, two merchants with one phrase, one restart, forks.
SPECIFICATION Spec
CONSTANTS
  m1 = m1
  m2 = m2
  sepolia = sepolia
  base_sepolia = base_sepolia
  devnet = devnet
  signet = signet
  mainnet = mainnet
  i1 = i1
  i2 = i2
  Merchants = {m1, m2}
  Invoices = {i1, i2}
  Tokens <- AllTokens
  Registered <- Handled
  Nameless = {"USDC_ETH", "ETH_BASE_SEPOLIA"}
  TestMnemonic = {"USDC_ETH"}
  Clients = {sepolia, base_sepolia, devnet, signet, mainnet}
  ClientOf <- Holder
  FamilyOf <- Kind
  MintOf <- Mints
  PhraseOf <- SamePhrase
  TestPhrase = TestPhrase
  NoMint = NoMint
  NoClient = NoClient
  NoMerchant = NoMerchant
  NoToken = NoToken
  NoPhrase = NoPhrase
  Chains = {devnet}
  MaxTip = 2
  MaxCrashes = 1
INVARIANT CreationTypeOK
INVARIANT AddressesApart
INVARIANT PaysItsMerchant
INVARIANT AnsweredIsWatched
INVARIANT FloorBelowPayments
SYMMETRY Alike
CHECK_DEADLOCK FALSE
