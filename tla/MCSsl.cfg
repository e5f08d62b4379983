SPECIFICATION SSpec
CONSTANTS
  None = None
  t1 = t1
  t2 = t2
  p1 = p1
  p2 = p2
  Remotes = {r1}
  WireCap = 4
  MaxWireEvents = 2
  MaxFlows = 1
  MaxRecvCtxs = 1
  Sizes = {6}
  UserBufs = {"raw"}
  TcpSteps = {}
  MaxIo = 0
  MaxLife = 1
  Threads = {t1, t2}
  Pids = {p1, p2}
  PidOf <- TwoProcesses
  Fds = {f1}
  Socks = {s1, s2}
  Ptrs = {x1, x2}
  PlainSizes = {5}
  SslBufs = {"ok"}
  RingCap = 1
  DataCap = 4
  MaxStats = 1
  MaxSslCtxs = 1
  FreeKinds = {TRUE, FALSE}
  MaxSess = 3
  MaxOps = 2
INVARIANT STypeOK
INVARIANT PrxOfLiveSessions
INVARIANT StatsHaveOwner
INVARIANT SslPaired
SYMMETRY Symmetry
CHECK_DEADLOCK FALSE
