CONSTANTS
  None = None
  Bad = Bad
  Nothing = Nothing
  Partial = Partial
  app = app
  gw = gw
  alt = alt
  typo = typo
  typp = typp
  vpn = vpn
  other = other
  nope = nope
  ma = ma
  mb = mb
  ta = ta
  tb = tb
  a1 = a1
  a2 = a2
  a3 = a3
  a4 = a4
  u1 = u1
  lan = lan
  ula = ula
  Name <- MCName
  GatewayName <- MCGatewayName
  Tag <- MCEmpty
  Mark <- MCMark
  Table <- MCTable
  AutoMark <- MCAutoMark
  AutoTable <- MCAutoTable
  Addr4 <- MCAddr4
  Addr6 <- MCEmpty
  Net4 <- MCNet4
  Net6 <- MCNet6
  DefaultLocals <- MCNet4
  Config <- MCConfig
  Snapshot <- MCSnapshot
  MaxFlight = 2
SPECIFICATION LiveReportSpec
INVARIANTS
  TypeOK NoLostWakeup LogTells UnresolvedWarned GaugesTell
PROPERTIES
  CatchesUp Obeys OperatorCatchesUp
