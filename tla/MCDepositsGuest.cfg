CONSTANTS
  card = card  coin = coin  token = token
  Deposits = {card, coin}
  Crypto = {coin}
  Calls = {c1, c2}
  MaxCuts = 2
  Ivories = {token}
  Revived = {token}
  Settlers = {c1, c2}
  MaxEntries = 2
SPECIFICATION MCSpec
INVARIANTS CreditedOnce
CHECK_DEADLOCK FALSE
