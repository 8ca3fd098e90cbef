CONSTANTS
  Clients = {c1}
  Admins = {a1, a2}
  FirstAdmin = a1
  Links = {l1, l2}
  Requests = {r1, r2}
  None = None
  Tickets = {t1}
  MaxMessages = 3
SYMMETRY Symmetry
SPECIFICATION Spec
INVARIANTS
  DeskTypeOK
  AccountsUsable
  TicketsInOneHand
CHECK_DEADLOCK FALSE
