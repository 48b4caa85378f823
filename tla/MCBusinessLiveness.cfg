CONSTANTS
  bill = bill  donate = donate
  webBill = webBill  laterBill = laterBill  webDonate = webDonate  webAgain = webAgain
  Offices = {"links", "webhooks"}
  Failing = {webBill, webDonate}
  Invoices = {bill}
  Links = {donate}
  MaxUses <- MCMaxUses
  Checkouts = {webDonate, webAgain}
  WebFor <- MCWebForLinks
  Servers = {s1, s2}
  Keys = {k1, k2}
  Clients = {c1, c2, c3}
  Deliveries = {d1}
  Posters = {p1, p2}
  MAX_ATTEMPTS = 3
  ByHand = 1
  ann = ann  ben = ben  grower = grower  farm = farm
  i1 = i1  i2 = i2  i3 = i3  i4 = i4
  Users <- MCUsers
  Platform = farm
  InitialBalance <- MCInitialBalance
  Calls = {c1}
  Stakes = {i1, i2, i3, i4}
  Backer <- MCBacker
  Put <- MCPut
  BusinessOwner = grower
  Target = 4
  MaxPerBacker = 3
  INVESTMENT_FEE = 1
  RESERVE_PERCENT = 50
  Plans <- MCPlans
  Clerks = {t1, t2, t3}
  MaxAssets = 3
SPECIFICATION FairSpec
PROPERTIES ArrivedIsSettled DeliveryEnds
CHECK_DEADLOCK FALSE
