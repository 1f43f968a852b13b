SPECIFICATION Spec
CONSTANTS
  zkr = zkr
  night = night
  alice = alice
  bob = bob
  Assets = {zkr, night}
  Night = night
  Owners = {alice, bob}
  NoCommitment = NoCommitment
  OrderIds = {o1, o2}
  QuoteIds = {q1, q2}
  AdminIds = {adm, adm2}
  InitialAdmin = adm
  Commitments <- TreasuryCommitments
  QuoteTerms <- TreasuryTerms
  Amounts = {1, 2}
  MaxUint = 3
  FieldOrder = 7
  MaxSeq = 6
  MaxTime = 1
INVARIANTS
  BalanceIsCustody
  ReservedIsSumOfOpen
  HistoryExplainsReserved
  ReservationsCovered
