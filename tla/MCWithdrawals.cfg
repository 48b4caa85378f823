CONSTANTS
  ann = ann  farm = farm
  bank = bank  coin = coin  bank2 = bank2  old = old
  Users <- MCUsers
  Platform = farm
  InitialBalance <- MCInitialBalance
  Withdrawals <- MCWithdrawals4
  Owner <- MCOwner
  Amount <- MCAmount
  Fee <- MCFee
  Crypto = {coin}
  Legacy = {old}
  ByHand = {bank2, old}
  Calls = {c1, c2}
SYMMETRY Symmetry
SPECIFICATION MCSpec
INVARIANTS FundsInv PayoutsInv
CHECK_DEADLOCK FALSE
