SPECIFICATION Spec
CONSTANTS
  None = None
  p1 = p1
  PidOf <- OneProcess
  Socks = {s1}
  Threads = {t1}
  Pids = {p1}
  Fds = {f1}
  Remotes = {r1}
  UserBufs = {"hello"}
  Sizes <- MCSizes
  WireCap = 16
  MaxWireEvents = 3
  MaxFlows = 2
  MaxRecvCtxs = 1
  TcpSteps = {"open", "fin", "done"}
  MaxLife = 1
  MaxIo = 3
  RingCap = 2
  Ptrs = {}
  PlainSizes = {5}
  SslBufs = {"ok"}
  DataCap = 16
  MaxStats = 2
  MaxSslCtxs = 1
  FreeKinds = {TRUE}
  MaxSess = 1
  MaxOps = 1
  MaxWireBuf = 19
  HelloMin = 11
  MaxHistory = 1
  PeekBytes = 8
  Attachments = {5}
  ProcOutcomes = {TRUE}
INVARIANT TypeOK
INVARIANT PreexistingSound
INVARIANT HistoryBounded
INVARIANT ReassemblyInOrder
INVARIANT WireBufBounded
INVARIANT OpenRowsBacked
PROPERTY ImplementsLifecycle
PROPERTY ImplementsWire
