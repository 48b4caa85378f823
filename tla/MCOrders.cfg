CONSTANTS
  buyer = buyer  vendor = vendor  farm = farm
  flight = flight  room = room
  seeds = seeds  tools = tools
  tip = tip  stay = stay  bill = bill  again = again
  meal = meal
  usdc = usdc  algo = algo
  Parts = {"bookings", "agents", "x402", "assistant", "outbox", "accounts", "sessions"}
  Users <- MCUsers
  Platform = farm
  InitialBalance <- MCInitialBalance
  Calls = {c1, c2}
  Bookings = {flight, room}
  Hotels = {room}
  Guest <- MCGuest
  Fare <- MCFare
  GivenBack <- MCGivenBack
  Intents = {seeds, tools}
  Asked <- MCAsked
  Seller = vendor
  Grantor = buyer
  Requests = {r1, r2}
  DayCap = 2
  Portions = {1}
  Signed = {x1, x2}
  Facilitated = {x2}
  Handlers = {c1, c2, c3}
  Actions = {tip, stay, bill, again}
  Cost <- MCCost
  Repeatable = {tip}
  AiIntents = {meal}
  Due <- MCDue
  IntentOf <- MCIntentOf
  Master = buyer
  Others = vendor
  AiCap = 2
  Legs = {g1}
  Senders = {e1, e2, e3}
  Attempts = 2
  Holders = {buyer}
  Payments = {usdc, algo}
  Payee <- MCPayee
  Native = {algo}
  LastRound = 4
  Logins = {l1}
  Tasks = {c1, c2}
  MaxSessions = 3
  MaxLinks = 2
SPECIFICATION Spec
INVARIANTS BookingsInv AgentPaymentsInv X402Inv AiActionsInv
           ChainTransfersInv ChainDepositsInv SessionsInv
SYMMETRY Symmetry
CHECK_DEADLOCK FALSE
