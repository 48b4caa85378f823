CONSTANTS
  ann = ann  bob = bob  farm = farm
  gift = gift  back = back  rent = rent
  Users <- MCUsers
  Platform = farm
  InitialBalance <- MCInitialBalance
  Transfers = {gift, back}
  Requests = {rent}
  From <- MCFrom
  To <- MCTo
  Amount <- MCAmount
  Fee <- MCFee
  MerchantFee <- MCMerchantFee
  Repeats = 2
  Calls = {c1, c2}
SYMMETRY Symmetry
SPECIFICATION Spec
INVARIANTS NoOverdraft
CHECK_DEADLOCK FALSE
