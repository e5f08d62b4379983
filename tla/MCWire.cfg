SPECIFICATION WSpec
CONSTANTS
  None = None
  p1 = p1
  Pids = {p1}
  PidOf <- OneProcess
  Fds = {f1, f2}
  Remotes = {r1}
  Sizes = {6}
  UserBufs = {"record", "raw", "partial", "null"}
  WireCap = 4
  MaxWireEvents = 2
  RingCap = 1
  Threads = {t1, t2}
  Socks = {s1, s2}
  MaxFlows = 1
  MaxRecvCtxs = 1
  TcpSteps = {"open", "fin", "close", "done"}
  MaxLife = 2
  MaxIo = 2
INVARIANT PairedReturn
INVARIANT WTypeOK
INVARIANT CapturedAfterTls
INVARIANT RxNeverOvercounts
SYMMETRY Symmetry
CHECK_DEADLOCK FALSE
