CONSTANTS
  None = None
  Bad = Bad
  app = app
  web = web
  gw = gw
  gwb = gwb
  alt = alt
  svc = svc
  vpn = vpn
  other = other
  file = file
  host = host
  wg = wg
  tag = tag
  ma = ma
  mb = mb
  mc = mc
  md = md
  ta = ta
  tb = tb
  tc = tc
  td = td
  a1 = a1
  a2 = a2
  a3 = a3
  a4 = a4
  a5 = a5
  b6 = b6
  lan = lan
  ula = ula
  internet = internet
  Name <- MCName
  GatewayName <- MCGatewayName
  Tag <- MCTag
  Mark <- MCMark
  Table <- MCTable
  AutoMark <- MCAutoMark
  AutoTable <- MCAutoTable
  Net4 <- MCNet4
  Net6 <- MCNet6
  DefaultLocals <- MCDefaultLocals
  Sanitized <- MCSanitized
  Internet = internet
  Addr4 <- MCAddr4
  Addr6 <- MCAddr6
  Declared <- MCDeclared
  Leases <- MCLeases
  Config <- NoConfig
  MaxRunning = 4
SPECIFICATION Spec
INVARIANT OptedInStaysMarked
