CONSTANTS
  None = None
  Bad = Bad
  Partial = Partial
  gw = gw
  app = app
  web = web
  vpn = vpn
  edge = edge
  m = m
  m2 = m2
  t0 = t0
  t1 = t1
  t2 = t2
  a1 = a1
  a2 = a2
  rtr = rtr
  lan = lan
  ula = ula
  Name <- MCName
  GatewayName <- MCGatewayName
  Tag <- MCEmpty
  Mark <- MCMark
  Table <- MCTable
  ForeignTable = t0
  ForeignMarks <- MCEmpty
  Interface <- MCEmpty
  NextHop <- MCNextHop
  AutoMark <- MCAutoMark
  AutoTable <- MCAutoTable
  Addr4 <- MCAddr4
  Addr6 <- MCEmpty
  Net4 <- MCNet4
  Net6 <- MCNet6
  DefaultLocals <- MCNet4
  Declared <- MCDeclared
  Leases <- MCLeases
  MaxRunning = 2
  File <- MCFile
  Config <- MCConfig
  World <- MCWorld
  MaxAlien = 0
  Overlap = FALSE
SPECIFICATION SystemSpec
INVARIANTS AsAsked AsPlanned
VIEW Seen
