CONSTANTS
  ann = ann  farm = farm
  bank = bank  coin = coin  bank2 = bank2  old = old
  Users <- MCUsers
  Platform = farm
  InitialBalance <- MCInitialBalance
  Withdrawals <- MCTwo
  Owner <- MCTwoOwner
  Amount <- MCTwoAmount
  Fee <- MCTwoFee
  Crypto = {coin}
  Legacy = {}
  ByHand = {}
  Calls = {c1}
SPECIFICATION FairSpec
PROPERTIES OutcomeReachesUser
CHECK_DEADLOCK FALSE
