CONSTANTS
  None = None
  Bad = Bad
  Partial = Partial
  gw = gw
  app = app
  web = web
  vpn = vpn
  edge = edge
  m = m
  m2 = m2
  t0 = t0
  t1 = t1
  t2 = t2
  a1 = a1
  a2 = a2
  rtr = rtr
  lan = lan
  ula = ula
  Name <- LiveName
  GatewayName <- LiveGatewayName
  Tag <- MCEmpty
  Mark <- LiveMark
  Table <- LiveTable
  ForeignTable = t0
  ForeignMarks <- MCEmpty
  Interface <- MCEmpty
  NextHop <- MCAddr4
  AutoMark <- LiveAutoMark
  AutoTable <- LiveAutoTable
  Addr4 <- MCAddr4
  Addr6 <- MCEmpty
  Net4 <- MCNet4
  Net6 <- MCNet6
  DefaultLocals <- MCNet4
  Declared <- LiveDeclared
  Leases <- LiveLeases
  MaxRunning = 2
  File <- LiveFile
  Config <- LiveConfig
  World <- LiveWorld
  MaxAlien = 0
  Overlap = FALSE
SPECIFICATION LiveSystemSpec
PROPERTIES Loop EventuallyAsAsked
