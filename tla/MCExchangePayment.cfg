SPECIFICATION Spec
CONSTANTS
  zkr = zkr
  night = night
  alice = alice
  bob = bob
  Assets = {zkr, night}
  Night = night
  Owners = {alice, bob}
  NoCommitment = NoCommitment
  OrderIds = {o1}
  QuoteIds = {q1, q2}
  AdminIds = {adm}
  InitialAdmin = adm
  Commitments <- WideCommitments
  QuoteTerms <- WideTerms
  Amounts = {9}
  MaxUint = 15
  FieldOrder = 115
  MaxSeq = 4
  MaxTime = 1
PROPERTIES
  PaymentIsExact
