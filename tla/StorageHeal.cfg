SPECIFICATION HealSpec
CONSTANTS
  o1 = o1  c1 = c1  c2 = c2  c3 = c3  k1 = k1  k2 = k2
  r1 = r1  r2 = r2  NoConfig = NoConfig  NoConn = NoConn  Drive = Drive
  Orgs = {o1}
  Conns = {c1, c2, c3}
  OrgOf <- OneOrg
  Configs = {k1, k2}
  Reqs = {r1}
  MaxOAuth = 0
  MayBe <- MayHang
  TickBudget = 1
  MaxLost = 1
  MaxClock = 3
PROPERTIES MonitorHeals
