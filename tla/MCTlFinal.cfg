SPECIFICATION Spec
CONSTANTS
  None = None
  p1 = p1
  PidOf <- OneProcess
  Socks = {s1}
  Threads = {t1}
  Pids = {p1}
  Fds = {f1}
  Remotes = {r1}
  UserBufs = {"hello", "raw"}
  Sizes = {12}
  WireCap = 16
  MaxWireEvents = 2
  MaxFlows = 2
  MaxRecvCtxs = 1
  TcpSteps = {}
  MaxLife = 1
  MaxIo = 1
  RingCap = 2
  Ptrs = {x1}
  PlainSizes = {5}
  SslBufs = {"ok"}
  DataCap = 16
  MaxStats = 2
  MaxSslCtxs = 1
  FreeKinds = {TRUE}
  MaxSess = 1
  MaxOps = 1
  MaxWireBuf = 16
  HelloMin = 11
  MaxHistory = 1
  PeekBytes = 8
  Attachments = {5}
  ProcOutcomes = {TRUE}
PROPERTY FinalLeftAlone
