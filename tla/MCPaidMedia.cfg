SPECIFICATION Spec
CONSTANTS
  r1 = r1
  r2 = r2
  r3 = r3
  plus = plus
  pro = pro
  part = part
  rest = rest
  other = other
  c1 = c1
  c2 = c2
  u1 = u1
  u2 = u2
  device = device
  phone = phone
  v1 = v1
  v2 = v2
  None = None
  Requests = {r1, r2, r3}
  ItemOf <- MCItemOf
  Steady = TRUE
  Ids = {part, rest, other}
  AmountOf <- MCAmountOf
  ByHand = {other}
  Clerks = {c1, c2}
  Price = 3
  Credits = 5
  Last = 4
  Assets = {1, 2}
  Users = {u1, u2}
  DevicesOf <- MCDevicesOf
  Phones = {phone}
  Visits = {v1, v2}
  Amount <- MCAmount
  Cap = 4
  DailyDays = 1
  CapDays = 1
  MaxDay = 1
INVARIANTS
  PaidIsPermanent
CHECK_DEADLOCK FALSE
