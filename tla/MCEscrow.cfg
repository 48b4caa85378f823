CONSTANTS
  ann = ann  bob = bob  farm = farm
  e1 = e1  e2 = e2
  Users <- MCUsers
  Platform = farm
  Escrows <- MCEscrows
  Buyer <- MCBuyer
  Seller <- MCSeller
  Amount <- MCAmount
  MaxAmount = 2
  CreationFee <- MCFee
  ReleaseFee <- MCFee
  InitialBalance <- MCInitialBalance
  Calls = {c1, c2}
SPECIFICATION FairSpec
INVARIANTS TypeOK Solvent LockBacked Settled Conserved
PROPERTIES DueIsSettled DisputeFreezes ContractsKept
CHECK_DEADLOCK FALSE
