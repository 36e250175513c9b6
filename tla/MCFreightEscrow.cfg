SPECIFICATION Spec
CONSTANTS
  NTenders = 2
  Accounts = {a1, a2}
  ZeroAddress = zero
  Escrow = escrow
  Hashes = {h1, h2, h3, h4, h5}
  Manifests = {m1}
  ZeroHash = zeroHash
  MaxHts = 3
  Supply = 5
SYMMETRY HashSymmetry
INVARIANTS
  TotalIsSumOfBalances
  TokensBackTotal
  TenderConserved
  AuthorizationSingleUse
PROPERTIES
  SettledIsFinal
  ImplementsTenderMoney
CHECK_DEADLOCK FALSE
