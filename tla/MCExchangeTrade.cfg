SPECIFICATION Spec
CONSTANTS
  zkr = zkr
  night = night
  alice = alice
  bob = bob
  Assets = {zkr, night}
  Night = night
  Owners = {alice, bob}
  NoCommitment = NoCommitment
  OrderIds = {o1, o2, o3}
  QuoteIds = {q1}
  AdminIds = {adm}
  InitialAdmin = adm
  Commitments <- TradeCommitments
  QuoteTerms <- TradeTerms
  Amounts = {0, 1, 2}
  MaxUint = 15
  FieldOrder = 115
  MaxSeq = 4
  MaxTime = 2
INVARIANTS
  EveryFillHasACounterparty
  SettledPairsSound
PROPERTIES
  ImplementsChainOrders
