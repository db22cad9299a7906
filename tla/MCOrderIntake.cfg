SPECIFICATION IntakeSpec
CONSTANTS
  k1 = k1
  k2 = k2
  ph1 = ph1
  ph2 = ph2
  p1 = p1
  s1 = s1
  c1 = c1
  c2 = c2
  NoSalesman = NoSalesman
  NoPhone = NoPhone
  NoKey = NoKey
  Requests = {r1, r2, r3}
  Keys = {k1, k2}
  Products = {p1}
  Calls = {c1, c2}
  OrderOf <- MCOrderOf
  Salesmen <- MCSalesmen
  PhoneOf <- MCPhoneOf
  PoolSize = 2
  ApiPoolSize = 1
INVARIANTS
  OrdersWhole
  OneOrderPerKey
PROPERTIES
  OrdersFinish
CHECK_DEADLOCK FALSE
