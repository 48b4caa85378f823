CONSTANTS
  order = order
  Requests = {order}
  Milestones <- MCMilestones
  Total <- MCTotal
  Attempts = 2
  NoContract = NoContract
  Calls = {c1, c2}
  Checks = {s1, s2}
  Desks = {c1, c2}
  MaxSubmissions = 2
  MaxEdits = 1
  MaxEvents = 2
  owner = owner
  Applicants = {owner}
  Notices = {n1, n2}
  Papers = {s1, s2}
  Clerks = {c1, c2}
  NoPaper = NoPaper
SYMMETRY Symmetry
SPECIFICATION MCSpec
INVARIANTS RequestsInv ReleasesInv ApplicationsInv VerificationsInv
CHECK_DEADLOCK FALSE
