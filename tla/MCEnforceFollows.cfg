CONSTANTS
  m1 = m1
  m2 = m2
  m3 = m3
  m4 = m4
  t1 = t1
  t2 = t2
  t3 = t3
  t0 = t0
  wg = wg
  ctr = ctr
  ctr2 = ctr2
  a1 = a1
  a2 = a2
  b6 = b6
  Mark <- PairMark
  Table <- PairTable
  ForeignTable = t0
  ForeignMarks <- PairForeignMarks
  Interface <- MCInterface
  NextHop <- MCNextHop
  Addr4 <- MCAddr4
  Addr6 <- NoAddr6
  World <- PairWorld
  Config <- PairConfig
  MaxAlien = 0
  Overlap = FALSE
SPECIFICATION LiveSpec
PROPERTY RouteFollowsContainer
