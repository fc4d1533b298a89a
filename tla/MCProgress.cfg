CONSTANTS
  p1 = p1
  p2 = p2
  c1 = c1
  c2 = c2
  k1 = k1
  t1 = t1
  n1 = n1
  n2 = n2
  NoOne = NoOne
  Events = {e1, e2}
  Replicas = {p1, p2}
  BatchSize = 2
SPECIFICATION ProgressSpec
PROPERTY ImplementsDelivery CallsEnd ClaimsComeFree
