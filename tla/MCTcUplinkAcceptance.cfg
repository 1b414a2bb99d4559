CONSTANTS
  tc1 = tc1
  tc2 = tc2
  bad = bad
  lost = lost
  v1 = v1
  v2 = v2
  Telecommand = {tc1, bad, lost}
  WellFormed = {tc1, lost}
  Service = {v1, v2}
  ServiceOf <- MCServiceOf
  NSlots = 3
  DistributorDepth = 1
  RequestDepth = 1
  VerificationDepth = 1
  Free = Free
  Reserved = Reserved
SPECIFICATION Spec
INVARIANT AcceptanceNamesTelecommand
