CONSTANTS
  owner = owner  customer = customer  farm = farm
  shop1 = shop1  shop2 = shop2
  online = online  till = till
  coffee = coffee  lunch = lunch
  order = order  topup = topup
  sale_failed = sale_failed  sale_paid = sale_paid
  basket = basket  basket_failed = basket_failed  basket_paid = basket_paid
  topup_paid = topup_paid  topup_less = topup_less
  Users <- MCUsers
  Platform = farm
  InitialBalance <- MCInitialBalance
  Calls = {c1, c2}
  Owner = owner  Customer = customer
  Shops = {shop1, shop2}
  Sales = {online}
  Purchases = {till}
  Paystack = {}
  ShopOf <- MCShopOf
  Price <- MCPrice
  Cut <- MCCut
  Surcharge <- MCSurcharge
  Taps = {coffee, lunch}
  TapPayee <- MCTapPayee
  TapPrice <- MCTapPrice
  TapCut <- MCTapCut
  TapFee <- MCTapFee
  Payments = {order, topup, basket}
  Ivory = {topup}
  Now = {basket}
  QrPayments = {order, basket}
  Events = {sale_failed, sale_paid, topup_paid, topup_less,
            basket_failed, basket_paid}
  EventOf <- MCEventOf
  Successes = {sale_paid, topup_paid, topup_less, basket_paid}
  Mismatched = {topup_less}
  Sends <- MCSends
  Workers = {w1, w2}
  MaxRestarts = 1
SPECIFICATION FairSpec
INVARIANTS QrSalesInv NfcTapsInv WebhookIntakeInv
PROPERTIES SettledStays RememberedIsReflected
CHECK_DEADLOCK FALSE
