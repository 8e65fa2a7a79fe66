SPECIFICATION Spec
CONSTANTS
  m1 = m1
  m2 = m2
  u1 = u1
  o1 = o1
  r1 = r1
  r2 = r2
  cust = cust
  cust2 = cust2
  s1 = s1
  s2 = s2
  s3 = s3
  Users = {m1, m2, o1, u1}
  Founders = {m1, m2}
  Staff = {o1}
  Requests = {r1, r2}
  Operations = {"create", "update", "delete", "grant", "checkout", "confirm", "onboard"}
  Customers = {cust, cust2}
  Sessions = {s1, s2, s3}
  None = None
  Uncapped = Uncapped
  Foreign = Foreign
  RoleInputs = {"MANAGER", "OFFICE"}
  GrantLists <- MCGrantLists
  SeatOrders = {2, 3}
  MaxPaid = 2
CHECK_DEADLOCK FALSE
INVARIANTS SeatsExceededByRacersOnly LastManagerFallsToRacersOnly EditsUndoneByRacersOnly EffectiveIsLastSave SubscriptionIsOwn CheckoutsConfirmable
SYMMETRY Interchangeable
