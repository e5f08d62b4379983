--------------------------- MODULE Tlstat_proofs ---------------------------
(***************************************************************************)
(* Proofs about Tlstat, for all constants: the probes, the ring, the two   *)
(* goroutines and the table together.                                      *)
(***************************************************************************)
EXTENDS Tlstat, SslProbes_proofs, FiniteSetTheorems, SequenceTheorems
-----------------------------------------------------------------------------
(* What a step of the host does to the flows map and to the ring.          *)

(* Captures counted for a direction; none without an entry.                *)
Count(f, d) == IF f = None THEN 0 ELSE f.wire[d]

(* A wire event of sk is queued: it carries the count of its direction,    *)
(* which moves on by one.                                                  *)
Captures(sk, e) ==
  /\ e.sk = sk /\ events' = Append(events, e)
  /\ e.k = Count(flows[sk], e.direction) /\ Count(flows'[sk], e.direction) = e.k + 1
  /\ \A d \in Dirs \ {e.direction} : Count(flows'[sk], d) = Count(flows[sk], d)

(* Only the entry of sk changes: it stays, or it is made open.             *)
EntryStep(sk) ==
  /\ \A s \in Socks \ {sk} : flows'[s] = flows[s]
  /\ flows[sk] = None /\ flows'[sk] # None => ~flows'[sk].closed
  /\ flows[sk] # None => flows'[sk] # None
  /\ \/ UNCHANGED events /\ \A d \in Dirs : Count(flows'[sk], d) = Count(flows[sk], d)
     \/ \E e \in WireEvent : Captures(sk, e)

(* flow_get keeps the capture counters and the closed mark of an entry.    *)
LEMMA FlowGetKeeps ==
  ASSUME WTypeOK, NEW sk \in Socks, NEW pid, flow_get(sk, pid) # None
  PROVE  LET f == flow_get(sk, pid) IN
           /\ \A d \in Dirs : f.wire[d] = Count(flows[sk], d)
           /\ IF flows[sk] = None THEN ~f.closed ELSE f.closed = flows[sk].closed
<1> DEFINE e == IF flows[sk] = None THEN ZeroFlow ELSE flows[sk]
           g == [e EXCEPT !.pid = pid, !.tuple = read_tuple(sk)]
<1>1. /\ \A d \in Dirs : e.wire[d] = Count(flows[sk], d)
      /\ IF flows[sk] = None THEN ~e.closed ELSE e.closed = flows[sk].closed
  BY DEF Count, ZeroFlow
<1>2. g.wire = e.wire /\ g.closed = e.closed
  BY DEF WTypeOK, Flow, ZeroFlow
<1>3. flow_get(sk, pid) \in {e, g}
  BY DEF flow_get
<1> HIDE DEF e, g
<1> QED
  BY <1>1, <1>2, <1>3

(* A send or a receive that finds or makes an entry.                       *)
LEMMA CaptureEntry ==
  ASSUME WInv, NEW sk \in Socks, NEW pid \in Pids, flow_get(sk, pid) # None, NEW g \in Flow,
         g.wire = flow_get(sk, pid).wire, g.closed = flow_get(sk, pid).closed,
         NEW b, NEW n \in Nat, NEW dir \in Dirs, capture_wire(g, sk, b, n, dir)
  PROVE  EntryStep(sk)
<1> DEFINE e == wire_event(g, sk, b, n, dir)
<1>1. /\ \A d \in Dirs : g.wire[d] = Count(flows[sk], d)
      /\ flows[sk] = None => ~g.closed
  BY FlowGetKeeps DEF WInv
<1>2. /\ flows'[sk] \in Flow /\ flows'[sk].closed = g.closed
      /\ \A s \in Socks \ {sk} : flows'[s] = flows[s]
  BY CaptureWire DEF WInv
<1>3. flows'[sk] # None
  BY <1>2, FlowAssumption
<1>4. CASE UNCHANGED <<events, armed>> /\ flows'[sk].wire = g.wire
  BY <1>1, <1>2, <1>3, <1>4 DEF EntryStep, Count
<1>5. CASE /\ e \in WireEvent
           /\ events' = Append(events, e)
           /\ flows'[sk].wire[dir] = g.wire[dir] + 1
           /\ \A d \in Dirs \ {dir} : flows'[sk].wire[d] = g.wire[d]
  <2>1. e.sk = sk /\ e.direction = dir /\ e.k = g.wire[dir]
    BY DEF wire_event
  <2> HIDE DEF e
  <2>2. Captures(sk, e)
    BY <1>1, <1>3, <1>5, <2>1 DEF Captures, Count
  <2> QED
    BY <1>1, <1>2, <1>3, <1>5, <2>2 DEF EntryStep
<1>6. \/ UNCHANGED <<events, armed>> /\ flows'[sk].wire = g.wire
      \/ /\ e \in WireEvent
         /\ events' = Append(events, e)
         /\ armed' = IF g.wire[dir] = 0 THEN armed \cup {<<sk, sock[sk].life, dir>>} ELSE armed
         /\ flows'[sk].wire[dir] = g.wire[dir] + 1
         /\ \A d \in Dirs \ {dir} : flows'[sk].wire[d] = g.wire[d]
  BY CaptureEvents DEF WInv
<1> HIDE DEF e
<1> QED
  BY <1>4, <1>5, <1>6

(* The tracepoint makes an open entry, or changes a mark of one.           *)
LEMMA SetStateEntry ==
  ASSUME WInv, NEW sk \in Socks, NEW old, NEW new, tp_inet_sock_set_state(sk, old, new),
         UNCHANGED events
  PROVE  EntryStep(sk)
<1> DEFINE D == IF old = "syn_recv" THEN DIR_IN ELSE DIR_OUT
           z == [ZeroFlow EXCEPT !.direction = D]
           m == [flows[sk] EXCEPT !.direction = D]
           c == [flows[sk] EXCEPT !.closed = TRUE]
<1>1. \/ flows[sk] # None /\ flows' = [flows EXCEPT ![sk] = m]
      \/ flows[sk] = None /\ flows' = [flows EXCEPT ![sk] = z]
      \/ flows[sk] # None /\ flows' = [flows EXCEPT ![sk] = c]
      \/ UNCHANGED flows
  BY DEF tp_inet_sock_set_state
<1>2. D \in Dirs
  BY DEF Dirs
<1> HIDE DEF D
<1>3. z \in Flow /\ ~z.closed /\ \A d \in Dirs : z.wire[d] = 0
  <2>1. ZeroFlow \in Flow /\ ~ZeroFlow.closed /\ \A d \in Dirs : ZeroFlow.wire[d] = 0
    BY WireAssumption DEF ZeroFlow, Flow, Dirs, DIR_OUT, DIR_IN
  <2> QED
    BY <1>2, <2>1 DEF Flow
<1>4. flows[sk] # None => m \in Flow /\ c \in Flow /\ m.wire = flows[sk].wire /\ c.wire = flows[sk].wire
  BY <1>2 DEF WInv, WTypeOK, Flow
<1> HIDE DEF z, m, c
<1>5. z # None /\ (flows[sk] # None => m # None /\ c # None)
  BY <1>3, <1>4, FlowAssumption
<1> QED
  BY <1>1, <1>3, <1>4, <1>5 DEF WInv, WTypeOK, EntryStep, Count

(* Every step of the observed programs and of their connections touches    *)
(* one entry at most.                                                      *)
LEMMA TrafficEntry ==
  ASSUME WInv, Traffic
  PROVE  UNCHANGED <<flows, events>> \/ \E sk \in Socks : EntryStep(sk)
<1>1. ASSUME NEW t \in Threads, NEW sk \in Socks, NEW b \in UserBufs, NEW n \in Sizes,
             k_tcp_sendmsg(t, sk, b, n)
      PROVE  UNCHANGED <<flows, events>> \/ EntryStep(sk)
  <2> DEFINE f == flow_get(sk, PidOf[t])
             g == [f EXCEPT !.tx = @ + n]
  <2>1. n \in Nat /\ PidOf[t] \in Pids /\ sock[sk].fd # None /\ DIR_OUT \in Dirs
    BY <1>1, WireAssumption DEF k_tcp_sendmsg, HoldsFd, Dirs
  <2>2. UNCHANGED <<flows, events>> \/ (f # None /\ capture_wire(g, sk, b, n, DIR_OUT))
    BY <1>1 DEF k_tcp_sendmsg
  <2>3. f # None => f \in Flow
    BY <2>1, FlowGet
  <2>4. f # None => g \in Flow /\ g.wire = f.wire /\ g.closed = f.closed
    <3> HIDE DEF f
    <3> QED
      BY <2>1, <2>3 DEF Flow
  <2> HIDE DEF g
  <2> QED
    BY <2>1, <2>2, <2>4, CaptureEntry
<1>2. ASSUME NEW t \in Threads, NEW ret \in Sizes \cup {0}, NEW b \in UserBufs,
             kr_tcp_recvmsg(t, ret, b)
      PROVE  UNCHANGED <<flows, events>> \/ \E sk \in Socks : EntryStep(sk)
  <2> DEFINE sk == recv_ctxs[t].sk
             f == flow_get(sk, PidOf[t])
             g == [f EXCEPT !.rx = @ + ret]
  <2>1. ret \in Nat /\ PidOf[t] \in Pids /\ DIR_IN \in Dirs
    BY WireAssumption DEF Dirs
  <2>2. CASE recv_ctxs[t] # None /\ f # None /\ capture_wire(g, sk, b, ret, DIR_IN)
    <3>1. sk \in Socks /\ sk = call[t].sk
      BY <1>2, <2>2 DEF kr_tcp_recvmsg, WInv, WTypeOK, PairedReturn, RecvCtx
    <3>2. sock[sk].fd # None
      BY <1>2, <3>1 DEF kr_tcp_recvmsg, WInv, CallOpen, HoldsFd
    <3> HIDE DEF sk
    <3>3. f \in Flow
      BY <2>1, <2>2, <3>1, <3>2, FlowGet
    <3>4. g \in Flow /\ g.wire = f.wire /\ g.closed = f.closed
      <4> HIDE DEF f
      <4> QED
        BY <2>1, <3>3 DEF Flow
    <3> HIDE DEF g
    <3> QED
      BY <2>1, <2>2, <3>1, <3>4, CaptureEntry
  <2> QED
    BY <1>2, <2>2 DEF kr_tcp_recvmsg
<1>3. CASE Calls
  BY <1>3, <1>1, <1>2 DEF Calls, k_tcp_recvmsg, UnseenReturn
<1>4. CASE Tcp
  BY <1>4, SetStateEntry, ZenonT(30) DEF Tcp, Accept, Connect, Incoming, Establish, PeerFin, CloseFd, Done
<1> QED
  BY <1>3, <1>4 DEF Traffic
-----------------------------------------------------------------------------
(* What the operations of the store do to a row.                           *)

(* The row of a connection and the entry behind it: a parsed handshake     *)
(* shows as TLS and not as pre-existing, the buffers keep to their cap,    *)
(* and an open row with an endpoint has its entry.                         *)
RowOK(c, f) ==
  /\ c.info => c.isTLS /\ ~c.preexisting
  /\ \A d \in Dirs : Fits(c.wire[d])
  /\ ~c.closed /\ f = None => c.tuple = None

(* A change of the plaintext totals and samples alone.                     *)
SameWire(c, g) ==
  /\ g \in Conn
  /\ g.closed = c.closed /\ g.tuple = c.tuple /\ g.wire = c.wire
  /\ g.info = c.info /\ g.isTLS = c.isTLS /\ g.preexisting = c.preexisting

PlainOnly ==
  \A sk \in Socks : conns'[sk] = conns[sk] \/ (conns[sk] # None /\ SameWire(conns[sk], conns'[sk]))

(* A row starts out empty.                                                 *)
LEMMA NewRow ==
  /\ NewConn \in Conn /\ NewConn # None /\ NoSample \in Sample
  /\ \A f : RowOK(NewConn, f)
  /\ ~NewConn.closed /\ \A d \in Dirs : NewConn.wire[d] = [chunks |-> <<>>, len |-> 0]
<1>1. NoSample \in Sample
  BY DEF NoSample, NoPlain, Sample
<1> DEFINE w == [d \in Dirs |-> [chunks |-> <<>>, len |-> 0]]
<1>2. w \in [Dirs -> [chunks : Seq(WireChunk), len : Nat]]
  OBVIOUS
<1>3. NewConn \in Conn
  <2> HIDE DEF w
  <2> QED
    BY <1>1, <1>2 DEF NewConn, Conn, w
<1>4. NewConn # None
  BY <1>3, ConnAssumption
<1>5. /\ ~NewConn.closed /\ ~NewConn.info /\ NewConn.tuple = None
      /\ \A d \in Dirs : NewConn.wire[d] = [chunks |-> <<>>, len |-> 0]
  BY DEF NewConn
<1>6. 0 < MaxWireBuf + WireCap - 1 /\ Len(<<>>) = 0
  BY WireAssumption, StoreAssumption
<1>7. \A d \in Dirs : Fits(NewConn.wire[d])
  BY <1>5, <1>6 DEF Fits
<1>8. \A f : RowOK(NewConn, f)
  BY <1>5, <1>7 DEF RowOK
<1> QED
  BY <1>1, <1>3, <1>4, <1>5, <1>8

(* UpdateFlows keeps what the wire events have told of a connection.       *)
LEMMA MergeRow ==
  ASSUME NEW c \in Conn, NEW f \in Flow
  PROVE  /\ Merge(c, f) \in Conn /\ Merge(c, f) # None
         /\ Merge(c, f).closed = f.closed /\ Merge(c, f).wire = c.wire
         /\ Merge(c, f).info = c.info
         /\ c.isTLS => Merge(c, f).isTLS
         /\ c.info => ~Merge(c, f).preexisting
<1> DEFINE tls == c.isTLS \/ f.is_tls
           pre == tls /\ ~c.info
           dir == IF f.direction # 0 THEN f.direction ELSE c.direction
<1>1. Merge(c, f) = [c EXCEPT !.pid = f.pid, !.tuple = f.tuple, !.direction = dir,
                              !.isTLS = tls, !.tx = f.tx, !.rx = f.rx, !.closed = f.closed,
                              !.preexisting = pre]
  BY DEF Merge
<1>2. /\ dir \in Dirs \cup {0} /\ tls \in BOOLEAN /\ pre \in BOOLEAN
      /\ f.pid \in Pids \cup {None} /\ f.tuple \in Tuple \cup {None}
      /\ f.tx \in Nat /\ f.rx \in Nat /\ f.closed \in BOOLEAN
  BY DEF Conn, Flow
<1> HIDE DEF dir, tls, pre
<1>3. Merge(c, f) \in Conn
  BY <1>1, <1>2, ZenonT(40) DEF Conn
<1>4. /\ Merge(c, f).closed = f.closed /\ Merge(c, f).wire = c.wire
      /\ Merge(c, f).info = c.info
  BY <1>1 DEF Conn
<1>5. (c.isTLS => Merge(c, f).isTLS) /\ (c.info => ~Merge(c, f).preexisting)
  <2>1. Merge(c, f).isTLS = tls /\ Merge(c, f).preexisting = pre
    BY <1>1 DEF Conn
  <2> QED
    BY <2>1, Zenon DEF pre, tls
<1>6. Merge(c, f) # None
  BY <1>3, ConnAssumption
<1> QED
  BY <1>3, <1>4, <1>5, <1>6

WireBuf == [chunks : Seq(WireChunk), len : Nat]

(* One more capture in a buffer, unless it has reached maxWireBuf.         *)
LEMMA AppendBuf ==
  ASSUME NEW buf \in WireBuf, NEW w \in WireEvent
  PROVE  /\ AppendWire(buf, w) \in WireBuf
         /\ Fits(buf) => Fits(AppendWire(buf, w))
         /\ \/ AppendWire(buf, w) = buf /\ ~(buf.len < MaxWireBuf)
            \/ /\ buf.len < MaxWireBuf
               /\ AppendWire(buf, w).chunks = Append(buf.chunks, [k |-> w.k, kind |-> w.kind])
<1>1. [k |-> w.k, kind |-> w.kind] \in WireChunk /\ w.len \in 1..(WireCap - 1)
  BY DEF WireEvent, WireChunk
<1>2. Append(buf.chunks, [k |-> w.k, kind |-> w.kind]) \in Seq(WireChunk) /\ buf.len + w.len \in Nat
  BY <1>1, WireAssumption DEF WireBuf
<1>3. CASE buf.len < MaxWireBuf
  <2>1. AppendWire(buf, w) = [chunks |-> Append(buf.chunks, [k |-> w.k, kind |-> w.kind]),
                              len |-> buf.len + w.len]
    BY <1>3 DEF AppendWire
  <2>2. buf.len + w.len < MaxWireBuf + WireCap - 1
    BY <1>1, <1>3, WireAssumption, StoreAssumption DEF WireBuf
  <2>3. Fits(buf) => Fits(AppendWire(buf, w))
    <3>1. /\ buf.chunks \in Seq(WireChunk) /\ buf.len \in Nat /\ Len(buf.chunks) \in Nat
          /\ Len(Append(buf.chunks, [k |-> w.k, kind |-> w.kind])) = Len(buf.chunks) + 1
          /\ w.len \in Nat /\ w.len >= 1
      BY <1>1, WireAssumption DEF WireBuf
    <3>2. /\ AppendWire(buf, w).len = buf.len + w.len
          /\ Len(AppendWire(buf, w).chunks) = Len(buf.chunks) + 1
      BY <2>1, <3>1
    <3> QED
      BY <2>2, <3>1, <3>2 DEF Fits
  <2> QED
    BY <1>2, <1>3, <2>1, <2>3 DEF WireBuf
<1>4. CASE ~(buf.len < MaxWireBuf)
  BY <1>4 DEF AppendWire
<1> QED
  BY <1>3, <1>4

(* The row ApplyWire makes of c when it reads w.                           *)
WireRow(c, w) ==
  LET buf == AppendWire(c.wire[w.direction], w)
      info == Parse(buf, c.info) IN
  [c EXCEPT !.wire[w.direction] = buf, !.info = info,
            !.isTLS = @ \/ info, !.preexisting = @ /\ ~info]

(* A capture reaches its row: the buffer of its direction takes it, and a  *)
(* Hello found in it clears the pre-existing mark.                         *)
LEMMA WireRowOK ==
  ASSUME NEW c \in Conn, NEW w \in WireEvent
  PROVE  /\ WireRow(c, w) \in Conn /\ WireRow(c, w) # None
         /\ WireRow(c, w).closed = c.closed
         /\ WireRow(c, w).wire = [c.wire EXCEPT ![w.direction] = AppendWire(c.wire[w.direction], w)]
         /\ \A f : RowOK(c, f) => RowOK(WireRow(c, w), f)
<1> DEFINE d == w.direction
           buf == AppendWire(c.wire[d], w)
           info == Parse(buf, c.info)
           tls == c.isTLS \/ info
           pre == c.preexisting /\ ~info
           W == [c.wire EXCEPT ![d] = buf]
           g == [c EXCEPT !.wire = W, !.info = info, !.isTLS = tls, !.preexisting = pre]
<1>1. WireRow(c, w) = g
  BY DEF WireRow, Conn
<1>2. d \in Dirs /\ c.wire \in [Dirs -> WireBuf]
  BY DEF WireEvent, Conn, WireBuf
<1>3. /\ buf \in WireBuf
      /\ Fits(c.wire[d]) => Fits(buf)
  <2> HIDE DEF d
  <2> QED
    BY <1>2, AppendBuf
<1>4. info \in BOOLEAN /\ tls \in BOOLEAN /\ pre \in BOOLEAN
  BY DEF Parse, Conn
<1>5. (info => tls) /\ (info => ~pre)
  <2> HIDE DEF info
  <2> QED
    BY Zenon
<1> HIDE DEF buf, info, tls, pre
<1>6. W \in [Dirs -> WireBuf] /\ \A x \in Dirs : W[x] = IF x = d THEN buf ELSE c.wire[x]
  BY <1>2, <1>3
<1> HIDE DEF W, d
<1>7. g \in Conn
  BY <1>4, <1>6 DEF Conn, WireBuf
<1>8. /\ g.closed = c.closed /\ g.tuple = c.tuple /\ g.wire = W
      /\ g.info = info /\ g.isTLS = tls /\ g.preexisting = pre
  BY DEF Conn
<1> HIDE DEF g
<1>9. \A f : RowOK(c, f) => RowOK(g, f)
  <2> SUFFICES ASSUME NEW f, RowOK(c, f) PROVE RowOK(g, f)
    OBVIOUS
  <2>1. g.info => g.isTLS /\ ~g.preexisting
    BY <1>5, <1>8, Zenon
  <2>2. \A x \in Dirs : Fits(g.wire[x])
    BY <1>3, <1>6, <1>8 DEF RowOK
  <2>3. ~g.closed /\ f = None => g.tuple = None
    BY <1>8 DEF RowOK
  <2> QED
    BY <2>1, <2>2, <2>3 DEF RowOK
<1>10. g # None
  BY <1>7, ConnAssumption
<1>11. W = [c.wire EXCEPT ![w.direction] = AppendWire(c.wire[w.direction], w)]
  BY DEF W, buf, d
<1> QED
  BY <1>1, <1>7, <1>8, <1>9, <1>10, <1>11

Cache == [Pids -> [Fds -> Socks \cup {None}]]

(* resolve() answers nil or a row that is there.                           *)
LEMMA ResolveOK ==
  ASSUME pidfd \in Cache, NEW pid \in Pids, NEW fd \in Fds \cup {None}, NEW ok,
         NEW r \in resolve(pid, fd, ok)
  PROVE  /\ r.cache \in Cache
         /\ r.conn = None \/ (r.conn \in Socks /\ conns[r.conn] # None)
<1> DEFINE cached == IF fd = None THEN None ELSE pidfd[pid][fd]
           purged == IF fd = None THEN pidfd ELSE [pidfd EXCEPT ![pid][fd] = None]
           peer == IF fd = None \/ ~ok THEN None ELSE procPeer(pid, fd)
           peers == {sk \in Socks : peer # None /\ conns[sk] # None /\ conns[sk].tuple # None
                                    /\ conns[sk].tuple = peer}
           own == {sk \in Socks : conns[sk] # None /\ conns[sk].pid = pid}
<1>1. \/ cached # None /\ conns[cached] # None /\ r = [conn |-> cached, cache |-> pidfd]
      \/ \E sk \in peers : r = [conn |-> sk, cache |-> [pidfd EXCEPT ![pid][fd] = sk]]
      \/ r = [conn |-> Sole(pid), cache |-> purged]
  <2> HIDE DEF cached, purged, peers, peer
  <2> QED
    BY DEF resolve, cached, purged, peers, peer
<1>2. CASE cached # None /\ conns[cached] # None /\ r = [conn |-> cached, cache |-> pidfd]
  BY <1>2 DEF Cache
<1>3. ASSUME NEW sk \in peers, r = [conn |-> sk, cache |-> [pidfd EXCEPT ![pid][fd] = sk]]
      PROVE  r.cache \in Cache /\ r.conn \in Socks /\ conns[r.conn] # None
  <2>1. sk \in Socks /\ conns[sk] # None /\ peer # None
    OBVIOUS
  <2>2. fd # None
    BY <2>1
  <2>3. [pidfd EXCEPT ![pid][fd] = sk] \in Cache
    BY <2>1, <2>2 DEF Cache
  <2> QED
    BY <1>3, <2>1, <2>3
<1>4. purged \in Cache
  BY DEF Cache
<1>5. Sole(pid) = None \/ (Sole(pid) \in Socks /\ conns[Sole(pid)] # None)
  <2>1. CASE Cardinality(own) = 1
    <3>1. own # {}
      <4>1. Cardinality({}) # 1
        BY FS_EmptySet
      <4> HIDE DEF own
      <4> QED
        BY <2>1, <4>1
    <3> QED
      BY <2>1, <3>1 DEF Sole
  <2>2. CASE Cardinality(own) # 1
    BY <2>2 DEF Sole
  <2> QED
    BY <2>1, <2>2
<1> HIDE DEF cached, purged, peers
<1> QED
  BY <1>1, <1>2, <1>3, <1>4, <1>5

(* Joining a sample and setting the plaintext totals.                      *)
LEMMA JoinRow ==
  ASSUME plainBySSL \in [Ptrs -> Sample \cup {None}], NEW c \in Conn, NEW ptr \in Ptrs,
         NEW x \in Nat, NEW y \in Nat
  PROVE  /\ SameWire(c, [JoinSample(c, ptr) EXCEPT !.ptx = x, !.prx = y, !.plainFinal = TRUE])
         /\ SameWire(c, [JoinSample(c, ptr) EXCEPT !.ptx = x, !.prx = y])
         /\ SameWire(c, [c EXCEPT !.ptx = x, !.prx = y])
         /\ JoinSample(c, ptr).ptx = c.ptx /\ JoinSample(c, ptr).prx = c.prx
<1> DEFINE j == JoinSample(c, ptr)
<1>1. SameWire(c, j) /\ j.ptx = c.ptx /\ j.prx = c.prx
  BY DEF SameWire, JoinSample, Conn
<1> HIDE DEF j
<1>2. ASSUME NEW m \in {j, c}
      PROVE  /\ SameWire(c, [m EXCEPT !.ptx = x, !.prx = y, !.plainFinal = TRUE])
             /\ SameWire(c, [m EXCEPT !.ptx = x, !.prx = y])
  <2>1. SameWire(c, m) /\ m \in Conn
    BY <1>1 DEF SameWire
  <2>2. [m EXCEPT !.ptx = x, !.prx = y] \in Conn
    BY <2>1 DEF Conn
  <2>3. [m EXCEPT !.ptx = x, !.prx = y, !.plainFinal = TRUE] \in Conn
    BY <2>1 DEF Conn
  <2> QED
    BY <2>1, <2>2, <2>3 DEF SameWire, Conn
<1> QED
  BY <1>1, <1>2 DEF j

(* retire() moves ended rows without their buffers, and trims from the     *)
(* front.                                                                  *)
LEMMA RetireOK ==
  ASSUME conns \in [Socks -> Conn \cup {None}], history \in Seq(Conn), HistoryBounded,
         NEW sn, NEW q \in Orders(Retired(sn)), retire(q)
  PROVE  /\ Cardinality(Retired(sn)) \in Nat
         /\ history' \in Seq(Conn) /\ HistoryBounded'
         /\ Len(history') = IF Len(history) + Cardinality(Retired(sn)) > MaxHistory
                            THEN MaxHistory ELSE Len(history) + Cardinality(Retired(sn))
<1> DEFINE S == Retired(sn)
           n == Cardinality(S)
           row(i) == [conns[q[i]] EXCEPT !.wire = NewConn.wire]
           add == [i \in 1..n |-> row(i)]
           all == history \o add
           OK(c) == c \in Conn /\ c.closed /\ c.wire = NewConn.wire
<1>1. n \in Nat
  <2>1. S \in SUBSET Socks /\ IsFiniteSet(Socks)
    BY TlstatAssumption DEF Retired
  <2> HIDE DEF S
  <2>2. IsFiniteSet(S)
    BY <2>1, FS_Subset
  <2> QED
    BY <2>2, FS_CardinalityType
<1>2. q \in [1..n -> S] /\ DOMAIN q = 1..n
  BY DEF Orders
<1>3. \A i \in 1..n : OK(row(i))
  <2> TAKE i \in 1..n
  <2>1. conns[q[i]] \in Conn /\ conns[q[i]].closed
    <3>1. q[i] \in S
      BY <1>2
    <3>2. q[i] \in Socks /\ conns[q[i]] # None /\ conns[q[i]].closed
      BY <3>1 DEF Retired
    <3> QED
      BY <3>2
  <2>2. NewConn \in Conn
    BY NewRow
  <2>3. NewConn.wire \in [Dirs -> [chunks : Seq(WireChunk), len : Nat]]
    BY <2>2 DEF Conn
  <2> QED
    BY <2>1, <2>3 DEF Conn
<1>4. history' = LastN(all, MaxHistory)
  BY <1>2 DEF retire
<1> HIDE DEF n, S, row
<1>5. add \in Seq(Conn) /\ Len(add) = n /\ \A i \in 1..n : OK(add[i])
  BY <1>1, <1>3
<1> HIDE DEF add
<1>6. /\ all \in Seq(Conn) /\ Len(all) = Len(history) + n
      /\ \A i \in 1..(Len(history) + n) : all[i] = IF i <= Len(history) THEN history[i]
                                                  ELSE add[i - Len(history)]
  BY <1>5, ConcatProperties
<1>7. \A i \in 1..Len(history) : OK(history[i])
  BY DEF HistoryBounded
<1>8. \A i \in 1..Len(all) : OK(all[i])
  <2> TAKE i \in 1..Len(all)
  <2>1. Len(history) \in Nat
    OBVIOUS
  <2>2. CASE i <= Len(history)
    BY <1>1, <1>6, <1>7, <2>1, <2>2
  <2>3. CASE ~(i <= Len(history))
    <3>1. i - Len(history) \in 1..n
      BY <1>1, <1>6, <2>1, <2>3
    <3>2. all[i] = add[i - Len(history)]
      BY <1>6, <2>3
    <3> QED
      BY <1>5, <3>1, <3>2
  <2> QED
    BY <2>2, <2>3
<1> HIDE DEF all
<1>9. MaxHistory \in Nat /\ Len(all) \in Nat /\ Len(history) \in Nat
  BY <1>6, StoreAssumption
<1>10. CASE Len(all) > MaxHistory
  <2> DEFINE m == Len(all) - MaxHistory + 1
  <2>1. history' = SubSeq(all, m, Len(all)) /\ m \in 1..(Len(all) + 1)
    BY <1>4, <1>9, <1>10 DEF LastN
  <2>2. \A i \in m..Len(all) : all[i] \in Conn
    BY <1>8, <1>9, <2>1
  <2>3. /\ history' \in Seq(Conn)
        /\ Len(history') = IF m <= Len(all) THEN Len(all) - m + 1 ELSE 0
        /\ \A i \in 1..(Len(all) - m + 1) : history'[i] = all[m + i - 1]
    <3>1. m \in Int /\ Len(all) \in Int
      BY <1>9
    <3> HIDE DEF m
    <3> QED
      BY <2>1, <2>2, <3>1, SubSeqProperties
  <2>4. Len(history') = MaxHistory
    BY <1>9, <2>3
  <2>5. \A i \in 1..MaxHistory : OK(history'[i])
    <3> TAKE i \in 1..MaxHistory
    <3>1. m + i - 1 \in 1..Len(all) /\ i \in 1..(Len(all) - m + 1)
      BY <1>9, <1>10
    <3> QED
      BY <1>8, <2>3, <3>1
  <2>6. HistoryBounded'
    <3>1. DOMAIN history' = 1..MaxHistory /\ Len(history') <= MaxHistory
      BY <1>9, <2>3, <2>4
    <3>2. UNCHANGED NewConn
      BY DEF NewConn, NoSample, NoPlain
    <3> QED
      BY <2>5, <3>1, <3>2 DEF HistoryBounded
  <2> QED
    BY <1>1, <1>6, <1>9, <1>10, <2>3, <2>4, <2>6 DEF n, S
<1>11. CASE ~(Len(all) > MaxHistory)
  <2>1. history' = all
    BY <1>4, <1>11 DEF LastN
  <2>2. DOMAIN history' = 1..Len(all) /\ Len(all) <= MaxHistory
    BY <1>6, <1>9, <1>11, <2>1
  <2>3. HistoryBounded'
    <3>2. UNCHANGED NewConn
      BY DEF NewConn, NoSample, NoPlain
    <3> QED
      BY <1>8, <2>1, <2>2, <3>2 DEF HistoryBounded
  <2> QED
    BY <1>1, <1>6, <1>9, <1>11, <2>1, <2>3 DEF n, S
<1> QED
  BY <1>10, <1>11
-----------------------------------------------------------------------------
(* The inductive invariant.                                                *)

QueuedEvent == WireEvent \cup DataEvent \cup CloseEvent

StoreType ==
  /\ conns \in [Socks -> Conn \cup {None}] /\ history \in Seq(Conn)
  /\ pidfd \in Cache /\ plainBySSL \in [Ptrs -> Sample \cup {None}]

PollType ==
  /\ pc \in {"flows", "delete", "stats", "join"}
  /\ snap \in [Socks -> Flow \cup {None}] /\ stats \in Seq(StatEntry)
  /\ todo \subseteq (IF pc \in {"flows", "delete"} THEN Socks ELSE Ptrs)
  /\ cursor \in Ptrs \cup {None}

RowsOK == \A sk \in Socks : conns[sk] # None => RowOK(conns[sk], flows[sk])

(* What the poller holds is old but not wrong: an entry it has read is     *)
(* still there, as it alone deletes entries, and has not been reopened;    *)
(* what it is about to delete is closed in the map and in the table.       *)
PollSound ==
  /\ \A sk \in Socks : snap[sk] # None =>
       pc = "flows" /\ flows[sk] # None /\ (snap[sk].closed => flows[sk].closed)
  /\ pc = "delete" => \A sk \in todo : /\ flows[sk] # None /\ flows[sk].closed
                                       /\ conns[sk] # None /\ conns[sk].closed

TInv ==
  /\ WInv /\ SInv /\ StoreType /\ PollType /\ events \in Seq(QueuedEvent)
  /\ RowsOK /\ PollSound /\ HistoryBounded

(* It implies the properties the runs check.                               *)
LEMMA TInvImplies ==
  TInv => TypeOK /\ PreexistingSound /\ WireBufBounded /\ OpenRowsBacked /\ HistoryBounded
BY DEF TInv, WInv, SInv, StoreType, PollType, RowsOK, RowOK, Cache, TypeOK, PreexistingSound,
       WireBufBounded, OpenRowsBacked

(* Steps that leave the variables of a part alone keep its invariant.      *)
LEMMA WFrame == WInv /\ UNCHANGED wvars => WInv'
BY WNextInv DEF wvars, WInv, WTypeOK, SockNamed, CallOpen, PairedReturn, RxNeverOvercounts, HoldsFd

(* The same for the uprobes' invariant, ...                                *)
LEMMA SFrame == SInv /\ UNCHANGED svars => SInv'
BY DEF svars, SInv, STypeOK, SslCallOpen, FilledLate, SslPaired, StatsHaveOwner

(* ... the poller's variables, ...                                          *)
LEMMA PollFrame == PollType /\ UNCHANGED pvars => PollType'
BY DEF pvars, PollType

(* ... the history, ...                                                    *)
LEMMA HistoryFrame == HistoryBounded /\ UNCHANGED history => HistoryBounded'
<1>1. UNCHANGED NewConn
  BY DEF NewConn, NoSample, NoPlain
<1> QED
  BY <1>1 DEF HistoryBounded

(* ... and the table.                                                      *)
LEMMA StoreFrame == StoreType /\ HistoryBounded /\ UNCHANGED stvars => StoreType' /\ HistoryBounded'
BY HistoryFrame DEF stvars, StoreType

(* A step that only touches plaintext totals and samples of rows.          *)
LEMMA SameRows ==
  ASSUME TInv, UNCHANGED flows, PlainOnly
  PROVE  /\ RowsOK'
         /\ \A sk \in Socks : conns[sk] # None => conns'[sk] # None /\ conns'[sk].closed = conns[sk].closed
<1>1. \A sk \in Socks : conns[sk] # None => conns'[sk] # None
  BY ConnAssumption DEF PlainOnly, SameWire
<1>2. \A sk \in Socks : conns'[sk] # None => conns[sk] # None
  BY DEF PlainOnly, SameWire
<1>3. RowsOK'
  <2> SUFFICES ASSUME NEW sk \in Socks, conns'[sk] # None
               PROVE  RowOK(conns'[sk], flows'[sk])
    BY DEF RowsOK
  <2>1. RowOK(conns[sk], flows[sk])
    BY <1>2 DEF TInv, RowsOK
  <2> QED
    BY <2>1 DEF PlainOnly, SameWire, RowOK
<1> QED
  BY <1>1, <1>3 DEF PlainOnly, SameWire

(* Traffic: the entries go on, the table and the poller lag behind.        *)
LEMMA TrafficInv ==
  ASSUME TInv, Traffic, UNCHANGED <<svars, stvars, pvars>>
  PROVE  TInv'
<1>1. WInv'
  BY WNextInv DEF TInv, WNext
<1>2. SInv' /\ StoreType' /\ HistoryBounded' /\ PollType'
  BY SFrame, StoreFrame, PollFrame DEF TInv
<1>3. StaysClosed
  BY NextClosed DEF TInv, WNext
<1>4. \A sk \in Socks : flows[sk] # None => flows'[sk] # None
  BY TrafficEntry DEF TInv, EntryStep
<1>5. events' \in Seq(QueuedEvent)
  <2>1. UNCHANGED events \/ \E e \in WireEvent : events' = Append(events, e)
    BY TrafficEntry DEF TInv, EntryStep, Captures
  <2> QED
    BY <2>1 DEF TInv, QueuedEvent
<1>6. RowsOK'
  BY <1>4 DEF TInv, RowsOK, RowOK, stvars
<1>7. \A sk \in Socks : flows[sk] # None /\ flows[sk].closed => flows'[sk] # None /\ flows'[sk].closed
  BY <1>3, <1>4 DEF StaysClosed
<1>8. PollSound'
  <2>1. \A sk \in todo : pc = "delete" => sk \in Socks
    BY DEF TInv, PollType
  <2> QED
    BY <1>4, <1>7, <2>1 DEF TInv, PollSound, stvars, pvars
<1> QED
  BY <1>1, <1>2, <1>5, <1>6, <1>8 DEF TInv

(* The uprobes write their own maps and queue their own events.            *)
LEMMA SslStepInv ==
  ASSUME TInv, SNext, UNCHANGED <<wvars, stvars, pvars>>
  PROVE  TInv'
<1>1. WInv' /\ StoreType' /\ HistoryBounded' /\ PollType'
  BY WFrame, StoreFrame, PollFrame DEF TInv
<1>2. SInv'
  BY SNextInv DEF TInv, WInv
<1>3. events' \in Seq(QueuedEvent)
  <2>1. UNCHANGED events \/ \E e \in DataEvent \cup CloseEvent : events' = Append(events, e)
    BY SslEvents DEF TInv
  <2> QED
    BY <2>1 DEF TInv, QueuedEvent
<1>4. RowsOK' /\ PollSound'
  BY DEF TInv, RowsOK, PollSound, wvars, stvars, pvars
<1> QED
  BY <1>1, <1>2, <1>3, <1>4 DEF TInv

(* The reader takes the oldest record.                                     *)
LEMMA ReadHead ==
  ASSUME TInv, NEW type, Read(type)
  PROVE  /\ events' \in Seq(QueuedEvent) /\ Head(events) \in QueuedEvent /\ Head(events).type = type
         /\ WInv' /\ SInv' /\ PollType' /\ UNCHANGED <<flows, pvars>>
<1>1. events \in Seq(QueuedEvent) /\ events # <<>> /\ events' = Tail(events) /\ Head(events).type = type
  BY DEF TInv, Read
<1>2. events' \in Seq(QueuedEvent) /\ Head(events) \in QueuedEvent
  BY <1>1
<1>3. UNCHANGED wvars /\ UNCHANGED svars /\ UNCHANGED pvars
  BY DEF Read
<1>4. UNCHANGED flows
  BY <1>3 DEF wvars
<1> QED
  BY <1>1, <1>2, <1>3, <1>4, WFrame, SFrame, PollFrame DEF TInv

(* Each type of record has its own fields.                                 *)
LEMMA EventTypes ==
  ASSUME NEW e \in QueuedEvent
  PROVE  /\ e.type = "wire" => e \in WireEvent
         /\ e.type = "data" => e \in DataEvent
         /\ e.type = "close" => e \in CloseEvent
BY DEF QueuedEvent, WireEvent, DataEvent, CloseEvent

(* ApplyWire changes the row of its socket, or makes it.                   *)
LEMMA ReadWireInv ==
  ASSUME TInv, ReadWire
  PROVE  TInv'
<1> DEFINE w == Head(events)
           c == ConnAt(w.sk)
<1>1. /\ events' \in Seq(QueuedEvent) /\ w \in WireEvent
      /\ WInv' /\ SInv' /\ PollType' /\ UNCHANGED <<flows, pvars>>
  BY ReadHead, EventTypes DEF ReadWire
<1>2. conns' = [conns EXCEPT ![w.sk] = WireRow(c, w)] /\ UNCHANGED <<history, pidfd, plainBySSL>>
  BY DEF ReadWire, ApplyWire, WireRow
<1>3. w.sk \in Socks
  BY <1>1 DEF WireEvent
<1> HIDE DEF w
<1>4. c \in Conn /\ RowOK(c, flows[w.sk]) /\ (conns[w.sk] # None => c = conns[w.sk])
  BY <1>3, NewRow DEF ConnAt, TInv, StoreType, RowsOK
<1> HIDE DEF c
<1>5. /\ WireRow(c, w) \in Conn /\ WireRow(c, w) # None /\ WireRow(c, w).closed = c.closed
      /\ RowOK(WireRow(c, w), flows[w.sk])
  BY <1>1, <1>4, WireRowOK
<1>6. StoreType'
  BY <1>2, <1>3, <1>5 DEF TInv, StoreType
<1>7. RowsOK'
  BY <1>1, <1>2, <1>3, <1>5 DEF TInv, StoreType, RowsOK
<1>8. HistoryBounded'
  BY <1>2, HistoryFrame DEF TInv
<1>9. PollSound'
  <2>1. \A sk \in Socks : conns[sk] # None => conns'[sk] # None /\ conns'[sk].closed = conns[sk].closed
    BY <1>2, <1>3, <1>4, <1>5 DEF TInv, StoreType
  <2>2. \A sk \in todo : pc = "delete" => sk \in Socks
    BY DEF TInv, PollType
  <2> QED
    BY <1>1, <2>1, <2>2 DEF TInv, PollSound, pvars
<1> QED
  BY <1>1, <1>6, <1>7, <1>8, <1>9 DEF TInv

(* ApplyData keeps a sample for a pointer.                                 *)
LEMMA ReadDataInv ==
  ASSUME TInv, ReadData
  PROVE  TInv'
<1> DEFINE e == Head(events)
           smp == IF plainBySSL[e.ssl] = None THEN NoSample ELSE plainBySSL[e.ssl]
           chunk == [id |-> e.id, k |-> e.k]
           one == [head |-> IF smp[e.direction].head = None THEN chunk ELSE smp[e.direction].head,
                   tail |-> appendTail(chunk)]
           new == [smp EXCEPT ![e.direction] = one]
<1>1. /\ events' \in Seq(QueuedEvent) /\ e \in DataEvent
      /\ WInv' /\ SInv' /\ PollType' /\ UNCHANGED <<flows, pvars>>
  BY ReadHead, EventTypes DEF ReadData
<1>2. plainBySSL' = [plainBySSL EXCEPT ![e.ssl] = new] /\ UNCHANGED <<conns, history, pidfd>>
  BY DEF ReadData, ApplyData
<1>3. e.ssl \in Ptrs /\ e.direction \in Dirs /\ chunk \in Chunk
  BY <1>1 DEF DataEvent, Chunk
<1> HIDE DEF e, chunk
<1>4. smp \in Sample
  BY <1>3, NewRow DEF TInv, StoreType
<1> HIDE DEF smp
<1>5. one \in [head : Chunk \cup {None}, tail : Chunk \cup {None}]
  BY <1>3, <1>4 DEF Sample, appendTail
<1> HIDE DEF one
<1>6. new \in Sample
  BY <1>3, <1>4, <1>5 DEF Sample
<1> HIDE DEF new
<1>7. StoreType'
  BY <1>2, <1>3, <1>6 DEF TInv, StoreType
<1>8. HistoryBounded'
  BY <1>2, HistoryFrame DEF TInv
<1>9. RowsOK' /\ PollSound'
  BY <1>1, <1>2 DEF TInv, RowsOK, PollSound, pvars
<1> QED
  BY <1>1, <1>7, <1>8, <1>9 DEF TInv

(* A row found by resolve() takes totals and a sample.                     *)
LEMMA JoinedRows ==
  ASSUME TInv, NEW pid \in Pids, NEW fd \in Fds \cup {None}, NEW ok, NEW r \in resolve(pid, fd, ok),
         NEW row, r.conn # None => SameWire(conns[r.conn], row),
         conns' = IF r.conn = None THEN conns ELSE [conns EXCEPT ![r.conn] = row],
         pidfd' = r.cache, UNCHANGED flows
  PROVE  conns' \in [Socks -> Conn \cup {None}] /\ pidfd' \in Cache /\ RowsOK' /\ PlainOnly
<1>1. r.cache \in Cache /\ (r.conn = None \/ (r.conn \in Socks /\ conns[r.conn] # None))
  BY ResolveOK DEF TInv, StoreType
<1>2. PlainOnly
  BY <1>1 DEF TInv, StoreType, PlainOnly
<1>3. conns' \in [Socks -> Conn \cup {None}]
  BY <1>1 DEF TInv, StoreType, SameWire
<1> QED
  BY <1>1, <1>2, <1>3, SameRows

(* ApplyClose sets the final totals of the row resolve() finds.            *)
LEMMA ReadCloseInv ==
  ASSUME TInv, ReadClose
  PROVE  TInv' /\ PlainOnly
<1> DEFINE e == Head(events)
<1>1. /\ events' \in Seq(QueuedEvent) /\ e \in CloseEvent
      /\ WInv' /\ SInv' /\ PollType' /\ UNCHANGED <<flows, pvars>>
  BY ReadHead, EventTypes DEF ReadClose
<1>2. PICK ok \in ProcOutcomes : \E r \in resolve(e.pid, e.fd, ok) : ApplyClose(e, r)
  BY DEF ReadClose
<1> PICK r \in resolve(e.pid, e.fd, ok) : ApplyClose(e, r)
  BY <1>2
<1>3. e.pid \in Pids /\ e.fd \in Fds \cup {None} /\ e.ssl \in Ptrs /\ e.ptx \in Nat /\ e.prx \in Nat
  BY <1>1 DEF CloseEvent
<1> HIDE DEF e
<1> DEFINE row == [JoinSample(conns[r.conn], e.ssl) EXCEPT
                     !.ptx = e.ptx, !.prx = e.prx, !.plainFinal = TRUE]
<1>4. /\ conns' = IF r.conn = None THEN conns ELSE [conns EXCEPT ![r.conn] = row]
      /\ pidfd' = r.cache /\ plainBySSL' = [plainBySSL EXCEPT ![e.ssl] = None] /\ UNCHANGED history
  BY DEF ApplyClose
<1>5. r.conn # None => conns[r.conn] \in Conn
  BY <1>3, ResolveOK DEF TInv, StoreType
<1>6. r.conn # None => SameWire(conns[r.conn], row)
  BY <1>3, <1>5, JoinRow DEF TInv, StoreType
<1> HIDE DEF row
<1>7. conns' \in [Socks -> Conn \cup {None}] /\ pidfd' \in Cache /\ RowsOK' /\ PlainOnly
  BY <1>1, <1>3, <1>4, <1>6, JoinedRows
<1>8. StoreType'
  BY <1>4, <1>7 DEF TInv, StoreType
<1>9. HistoryBounded'
  BY <1>4, HistoryFrame DEF TInv
<1>10. PollSound'
  <2>1. \A sk \in Socks : conns[sk] # None => conns'[sk] # None /\ conns'[sk].closed = conns[sk].closed
    BY <1>1, <1>7, SameRows
  <2>2. \A sk \in todo : pc = "delete" => sk \in Socks
    BY DEF TInv, PollType
  <2> QED
    BY <1>1, <2>1, <2>2 DEF TInv, PollSound, pvars
<1> QED
  BY <1>1, <1>7, <1>8, <1>9, <1>10 DEF TInv

(* The rows after UpdateFlows: merged, retired, or as they were.           *)
LEMMA MergedRows ==
  ASSUME TInv, pc = "flows", UpdateFlows(snap), UNCHANGED flows, NEW sk \in Socks
  PROVE  /\ snap[sk] # None => /\ conns'[sk] \in Conn /\ conns'[sk] # None
                               /\ conns'[sk].closed = snap[sk].closed
                               /\ conns'[sk].wire = ConnAt(sk).wire
                               /\ RowOK(conns'[sk], flows[sk])
         /\ snap[sk] = None => \/ conns'[sk] = None /\ sk \in Retired(snap)
                               \/ conns'[sk] = conns[sk] /\ sk \notin Retired(snap)
<1>1. conns'[sk] = IF snap[sk] # None THEN Merge(ConnAt(sk), snap[sk])
                   ELSE IF sk \in Retired(snap) THEN None ELSE conns[sk]
  BY DEF UpdateFlows
<1>2. CASE snap[sk] = None
  BY <1>1, <1>2
<1>3. CASE snap[sk] # None
  <2> DEFINE c == ConnAt(sk)
             f == snap[sk]
             g == Merge(c, f)
  <2>1. f \in Flow /\ flows[sk] # None
    BY <1>3 DEF TInv, PollType, PollSound
  <2>2. c \in Conn /\ RowOK(c, flows[sk])
    BY NewRow DEF ConnAt, TInv, StoreType, RowsOK
  <2> HIDE DEF c, f
  <2>3. /\ g \in Conn /\ g # None /\ g.closed = f.closed /\ g.wire = c.wire /\ g.info = c.info
        /\ c.isTLS => g.isTLS
        /\ c.info => ~g.preexisting
    BY <2>1, <2>2, MergeRow
  <2> HIDE DEF g
  <2>4. RowOK(g, flows[sk])
    <3>1. g.info => g.isTLS /\ ~g.preexisting
      <4>1. c.info => c.isTLS
        BY <2>2 DEF RowOK
      <4> QED
        BY <2>3, <4>1, Zenon
    <3>2. \A d \in Dirs : Fits(g.wire[d])
      BY <2>2, <2>3 DEF RowOK
    <3> QED
      BY <2>1, <3>1, <3>2 DEF RowOK
  <2>5. conns'[sk] = g
    BY <1>1, <1>3 DEF g, c, f
  <2> QED
    BY <1>3, <2>3, <2>4, <2>5 DEF c, f
<1> QED
  BY <1>2, <1>3

(* Flows() has ended: merge, and note what is to be deleted.               *)
LEMMA MergeFlowsInv ==
  ASSUME TInv, MergeFlows
  PROVE  TInv'
<1>1. /\ pc = "flows" /\ UpdateFlows(snap) /\ UNCHANGED events
      /\ UNCHANGED wvars /\ UNCHANGED svars /\ UNCHANGED <<stats, cursor>>
      /\ pc' = "delete" /\ todo' = {sk \in Socks : snap[sk] # None /\ snap[sk].closed}
      /\ snap' = [sk \in Socks |-> None]
  BY DEF MergeFlows
<1>2. UNCHANGED flows
  BY <1>1 DEF wvars
<1>3. WInv' /\ SInv' /\ PollType'
  BY <1>1, WFrame, SFrame DEF TInv, PollType
<1>4. \A sk \in Socks :
        /\ snap[sk] # None => /\ conns'[sk] \in Conn /\ conns'[sk] # None
                              /\ conns'[sk].closed = snap[sk].closed
                              /\ RowOK(conns'[sk], flows[sk])
        /\ snap[sk] = None => conns'[sk] = None \/ conns'[sk] = conns[sk]
  BY <1>1, <1>2, MergedRows
<1>5. conns' \in [Socks -> Conn \cup {None}]
  <2>1. \A sk \in Socks : conns'[sk] \in Conn \cup {None}
    BY <1>4 DEF TInv, StoreType
  <2>2. conns' = [sk \in Socks |-> conns'[sk]]
    BY <1>1 DEF UpdateFlows
  <2> QED
    BY <2>1, <2>2
<1>6. history' \in Seq(Conn) /\ HistoryBounded'
  <2>1. PICK q \in Orders(Retired(snap)) : retire(q)
    BY <1>1 DEF UpdateFlows
  <2> QED
    BY <2>1, RetireOK DEF TInv, StoreType
<1>7. StoreType'
  BY <1>1, <1>5, <1>6 DEF UpdateFlows, TInv, StoreType
<1>8. RowsOK'
  BY <1>2, <1>4 DEF TInv, RowsOK
<1>9. PollSound'
  <2>1. \A sk \in todo' : /\ sk \in Socks /\ conns'[sk] # None /\ conns'[sk].closed
                          /\ flows[sk] # None /\ flows[sk].closed
    BY <1>1, <1>4 DEF TInv, PollSound
  <2> QED
    BY <1>1, <1>2, <2>1 DEF PollSound
<1> QED
  BY <1>1, <1>3, <1>6, <1>7, <1>8, <1>9 DEF TInv

(* The walk of the flows map, and the deletions after it.                  *)
LEMMA ScanFlowInv ==
  ASSUME TInv, NEW sk \in Socks, ScanFlow(sk)
  PROVE  TInv'
<1>1. /\ pc = "flows" /\ snap' = [snap EXCEPT ![sk] = flows[sk]] /\ todo' = todo \ {sk}
      /\ UNCHANGED wvars /\ UNCHANGED svars /\ UNCHANGED stvars /\ UNCHANGED <<events, pc, stats, cursor>>
  BY DEF ScanFlow
<1>2. WInv' /\ SInv' /\ StoreType' /\ HistoryBounded'
  BY <1>1, WFrame, SFrame, StoreFrame DEF TInv
<1>3. flows[sk] \in Flow \cup {None}
  BY DEF TInv, WInv, WTypeOK
<1>4. PollType'
  BY <1>1, <1>3 DEF TInv, PollType
<1>5. RowsOK'
  BY <1>1 DEF TInv, RowsOK, wvars, stvars
<1>6. PollSound'
  BY <1>1 DEF TInv, PollType, PollSound, wvars, stvars
<1> QED
  BY <1>1, <1>2, <1>4, <1>5, <1>6 DEF TInv

(* The poller deletes an entry: it is closed, so this is a Reclaim step.   *)
LEMMA DeleteReclaims ==
  ASSUME TInv, NEW sk \in Socks, DeleteClosed(sk)
  PROVE  Reclaim /\ flows[sk].closed /\ conns[sk] # None /\ conns[sk].closed
BY DEF TInv, PollSound, DeleteClosed, Reclaim

(* DeleteFlow: the row it leaves without an entry knows the end.           *)
LEMMA DeleteInv ==
  ASSUME TInv, NEW sk \in Socks, DeleteClosed(sk)
  PROVE  TInv'
<1>1. /\ pc = "delete" /\ flows' = [flows EXCEPT ![sk] = None] /\ todo' = todo \ {sk}
      /\ UNCHANGED svars /\ UNCHANGED stvars /\ UNCHANGED <<events, pc, snap, stats, cursor>>
  BY DEF DeleteClosed, DeleteFlow
<1>2. SInv' /\ StoreType' /\ HistoryBounded'
  BY <1>1, SFrame, StoreFrame DEF TInv
<1>3. WInv'
  BY DeleteReclaims, WNextInv DEF TInv, WNext
<1>4. PollType'
  BY <1>1 DEF TInv, PollType
<1>5. \A s \in Socks : s # sk => flows'[s] = flows[s]
  BY <1>1 DEF TInv, WInv, WTypeOK
<1>6. RowsOK'
  <2>1. conns[sk].closed
    BY DeleteReclaims
  <2> QED
    BY <1>1, <1>5, <2>1 DEF TInv, RowsOK, RowOK, stvars
<1>7. PollSound'
  <2>1. \A s \in todo : s \in Socks
    BY <1>1 DEF TInv, PollType
  <2> QED
    BY <1>1, <1>5, <2>1 DEF TInv, PollSound, stvars
<1> QED
  BY <1>1, <1>2, <1>3, <1>4, <1>6, <1>7 DEF TInv

(* The steps of SSLStats(), and the start of the walk, touch nothing but   *)
(* the poller's own variables.                                             *)
LEMMA WalkInv ==
  ASSUME TInv, StartStats \/ (\E ptr \in Ptrs : ScanStat(ptr)) \/ RestartScan \/ AbortScan
  PROVE  TInv'
<1>1. UNCHANGED wvars /\ UNCHANGED svars /\ UNCHANGED stvars /\ UNCHANGED <<events, snap>>
  BY DEF StartStats, ScanStat, RestartScan, AbortScan
<1>2. WInv' /\ SInv' /\ StoreType' /\ HistoryBounded'
  BY <1>1, WFrame, SFrame, StoreFrame DEF TInv
<1>3. RowsOK'
  BY <1>1 DEF TInv, RowsOK, wvars, stvars
<1>4. PollType'
  <2>1. CASE StartStats
    BY <1>1, <2>1 DEF TInv, PollType, StartStats
  <2>2. ASSUME NEW ptr \in Ptrs, ScanStat(ptr) PROVE PollType'
    <3> DEFINE s == ssl_stats[ptr]
               e == [ssl |-> ptr, ptx |-> s.ptx, prx |-> s.prx, pid |-> s.pid, fd |-> s.fd]
    <3>1. /\ pc = "stats" /\ todo' = todo \ {ptr} /\ UNCHANGED pc
          /\ \/ UNCHANGED <<stats, cursor>>
             \/ s # None /\ stats' = Append(stats, e) /\ cursor' = ptr
      BY <2>2 DEF ScanStat
    <3>2. s # None => s \in Stat
      BY DEF TInv, SInv, STypeOK
    <3>3. s # None => e \in StatEntry
      BY <3>2 DEF Stat, StatEntry
    <3> HIDE DEF s, e
    <3> QED
      BY <1>1, <3>1, <3>3 DEF TInv, PollType
  <2>3. CASE RestartScan
    BY <1>1, <2>3 DEF TInv, PollType, RestartScan
  <2>4. CASE AbortScan
    BY <1>1, <2>4 DEF TInv, PollType, AbortScan
  <2> QED
    BY <2>1, <2>2, <2>3, <2>4
<1>5. PollSound'
  <2>1. pc # "flows" /\ pc' # "delete"
    BY DEF StartStats, ScanStat, RestartScan, AbortScan
  <2> QED
    BY <1>1, <2>1 DEF TInv, PollSound
<1> QED
  BY <1>1, <1>2, <1>3, <1>4, <1>5 DEF TInv

(* UpdateSSLStats zeroes totals, joins the entries and evicts samples.     *)
LEMMA JoinInv ==
  ASSUME TInv, BeginJoin \/ JoinOne \/ EndJoin
  PROVE  TInv' /\ PlainOnly
<1>1. /\ UNCHANGED wvars /\ UNCHANGED svars /\ UNCHANGED flows /\ UNCHANGED <<events, snap, history>>
      /\ pc # "flows" /\ pc' # "delete"
  BY DEF BeginJoin, JoinOne, EndJoin, ZeroPlain, JoinStat, EvictSamples, wvars
<1>2. WInv' /\ SInv' /\ HistoryBounded'
  BY <1>1, WFrame, SFrame, HistoryFrame DEF TInv
<1>3. PollSound'
  BY <1>1 DEF TInv, PollSound
<1>4. CASE BeginJoin
  <2>1. /\ pc' = "join" /\ cursor' = None /\ todo' = {stats[i].ssl : i \in DOMAIN stats} /\ UNCHANGED stats
        /\ ZeroPlain
    BY <1>4 DEF BeginJoin
  <2>2. \A i \in DOMAIN stats : stats[i].ssl \in Ptrs
    <3>1. \A i \in DOMAIN stats : stats[i] \in StatEntry
      BY DEF TInv, PollType
    <3> QED
      BY <3>1 DEF StatEntry
  <2>3. PollType'
    BY <1>1, <2>1, <2>2 DEF TInv, PollType
  <2>4. PlainOnly
    <3> SUFFICES ASSUME NEW sk \in Socks
                 PROVE  \/ conns'[sk] = conns[sk]
                        \/ conns[sk] # None /\ SameWire(conns[sk], conns'[sk])
      BY DEF PlainOnly
    <3>1. \/ conns'[sk] = conns[sk]
          \/ conns[sk] # None /\ conns'[sk] = [conns[sk] EXCEPT !.ptx = 0, !.prx = 0]
      BY <2>1 DEF ZeroPlain
    <3>2. conns[sk] # None => conns[sk] \in Conn
      BY DEF TInv, StoreType
    <3>3. conns[sk] # None => SameWire(conns[sk], [conns[sk] EXCEPT !.ptx = 0, !.prx = 0])
      BY <3>2 DEF SameWire, Conn
    <3> QED
      BY <3>1, <3>3
  <2>5. RowsOK'
    BY <1>1, <2>4, SameRows
  <2>6. conns' \in [Socks -> Conn \cup {None}]
    <3>1. conns' = [sk \in Socks |-> conns'[sk]]
      BY <2>1 DEF ZeroPlain
    <3>2. \A sk \in Socks : conns'[sk] \in Conn \cup {None}
      BY <2>4 DEF TInv, StoreType, PlainOnly, SameWire
    <3> QED
      BY <3>1, <3>2
  <2>7. StoreType'
    BY <1>1, <2>1, <2>6 DEF TInv, StoreType, ZeroPlain
  <2> QED
    BY <1>1, <1>2, <1>3, <2>3, <2>4, <2>5, <2>7 DEF TInv
<1>5. CASE JoinOne
  <2> DEFINE e == Head(stats)
  <2>1. stats # <<>> /\ stats' = Tail(stats) /\ UNCHANGED <<pc, todo, cursor>>
    BY <1>5 DEF JoinOne
  <2>2. e \in StatEntry /\ stats' \in Seq(StatEntry)
    <3>1. stats \in Seq(StatEntry)
      BY DEF TInv, PollType
    <3> QED
      BY <2>1, <3>1
  <2>3. PollType'
    BY <1>1, <2>1, <2>2 DEF TInv, PollType
  <2>4. PICK ok \in ProcOutcomes : \E r \in resolve(e.pid, e.fd, ok) : JoinStat(e, r)
    BY <1>5 DEF JoinOne
  <2>5. PICK r \in resolve(e.pid, e.fd, ok) : JoinStat(e, r)
    BY <2>4
  <2>6. e.pid \in Pids /\ e.fd \in Fds \cup {None} /\ e.ssl \in Ptrs /\ e.ptx \in Nat /\ e.prx \in Nat
    BY <2>2 DEF StatEntry
  <2> HIDE DEF e
  <2> DEFINE c == conns[r.conn]
             row == [JoinSample(c, e.ssl) EXCEPT !.ptx = @ + e.ptx, !.prx = @ + e.prx]
  <2>7. /\ conns' = IF r.conn = None THEN conns ELSE [conns EXCEPT ![r.conn] = row]
        /\ pidfd' = r.cache /\ UNCHANGED plainBySSL
    BY <2>5 DEF JoinStat
  <2>8. r.conn # None => c \in Conn
    BY <2>6, ResolveOK DEF TInv, StoreType
  <2> HIDE DEF c
  <2>9. r.conn # None => SameWire(c, row)
    <3> SUFFICES ASSUME r.conn # None PROVE SameWire(c, row)
      OBVIOUS
    <3> DEFINE j == JoinSample(c, e.ssl)
    <3>1. plainBySSL \in [Ptrs -> Sample \cup {None}]
      BY DEF TInv, StoreType
    <3>2. j.ptx = c.ptx /\ j.prx = c.prx
      BY <2>6, <2>8, <3>1, JoinRow
    <3>3. c.ptx + e.ptx \in Nat /\ c.prx + e.prx \in Nat
      BY <2>6, <2>8 DEF Conn
    <3>4. SameWire(c, [j EXCEPT !.ptx = c.ptx + e.ptx, !.prx = c.prx + e.prx])
      BY <2>6, <2>8, <3>1, <3>3, JoinRow
    <3> HIDE DEF j
    <3>5. [j EXCEPT !.ptx = @ + e.ptx, !.prx = @ + e.prx]
            = [j EXCEPT !.ptx = c.ptx + e.ptx, !.prx = c.prx + e.prx]
      BY <3>2
    <3> QED
      BY <3>4, <3>5 DEF j
  <2> HIDE DEF row
  <2>10. conns' \in [Socks -> Conn \cup {None}] /\ pidfd' \in Cache /\ RowsOK' /\ PlainOnly
    BY <1>1, <2>6, <2>7, <2>9, JoinedRows DEF c
  <2>11. StoreType'
    BY <1>1, <2>7, <2>10 DEF TInv, StoreType
  <2> QED
    BY <1>1, <1>2, <1>3, <2>3, <2>10, <2>11 DEF TInv
<1>6. CASE EndJoin
  <2>1. /\ pc' = "flows" /\ todo' = Socks /\ UNCHANGED <<stats, cursor, conns, pidfd>>
        /\ plainBySSL' = [ptr \in Ptrs |-> IF ptr \in todo THEN plainBySSL[ptr] ELSE None]
    BY <1>6 DEF EndJoin, EvictSamples
  <2>2. PollType' /\ StoreType' /\ RowsOK' /\ PlainOnly
    BY <1>1, <2>1 DEF TInv, PollType, StoreType, RowsOK, PlainOnly
  <2> QED
    BY <1>1, <1>2, <1>3, <2>2 DEF TInv
<1> QED
  BY <1>4, <1>5, <1>6

(* At the start the table, the ring and the snapshots are empty.           *)
LEMMA TInitInv == Init => TInv
<1> SUFFICES ASSUME Init PROVE TInv
  OBVIOUS
<1>1. WInv
  BY WInitInv DEF Init
<1>2. SInv
  BY SInitInv, TlstatAssumption DEF Init
<1>3. StoreType /\ HistoryBounded /\ events \in Seq(QueuedEvent)
  BY StoreAssumption DEF Init, StInit, WInit, StoreType, HistoryBounded, Cache
<1>4. PollType
  BY DEF Init, PollType
<1>5. RowsOK /\ PollSound
  BY DEF Init, StInit, RowsOK, PollSound
<1> QED
  BY <1>1, <1>2, <1>3, <1>4, <1>5 DEF TInv

(* TInv is inductive.                                                      *)
LEMMA TNextInv == TInv /\ [Next]_vars => TInv'
<1> SUFFICES ASSUME TInv, [Next]_vars PROVE TInv'
  OBVIOUS
<1>1. CASE Traffic /\ UNCHANGED <<svars, stvars, pvars>>
  BY <1>1, TrafficInv
<1>2. CASE SNext /\ UNCHANGED <<wvars, stvars, pvars>>
  BY <1>2, SslStepInv
<1>3. CASE Reader
  BY <1>3, ReadWireInv, ReadDataInv, ReadCloseInv DEF Reader
<1>4. CASE Poller
  BY <1>4, ScanFlowInv, DeleteInv, MergeFlowsInv, WalkInv, JoinInv DEF Poller
<1>5. CASE UNCHANGED vars
  <2>1. UNCHANGED wvars /\ UNCHANGED svars /\ UNCHANGED stvars /\ UNCHANGED pvars /\ UNCHANGED events
    BY <1>5 DEF vars
  <2>2. WInv' /\ SInv' /\ StoreType' /\ HistoryBounded' /\ PollType'
    BY <2>1, WFrame, SFrame, StoreFrame, PollFrame DEF TInv
  <2>3. RowsOK' /\ PollSound'
    BY <2>1 DEF TInv, RowsOK, PollSound, wvars, stvars, pvars
  <2> QED
    BY <2>1, <2>2, <2>3 DEF TInv
<1> QED
  BY <1>1, <1>2, <1>3, <1>4, <1>5 DEF Next
-----------------------------------------------------------------------------
(* The theorems that follow from TInv.                                     *)

(* TInv holds of the whole program at any time.                            *)
LEMMA TInvariance == Spec => []TInv
BY TInitInv, TNextInv, PTL DEF Spec

(* The maps, the table, the history and the poller's snapshots stay well   *)
(* formed, whatever the interleaving of probes and goroutines.             *)
THEOREM TlstatTypeCorrect == Spec => []TypeOK
BY TInvariance, TInvImplies, PTL

(* A parsed handshake shows as TLS and never as pre-existing, whichever of *)
(* the two goroutines wrote the row last.                                  *)
THEOREM PreexistingRight == Spec => []PreexistingSound
BY TInvariance, TInvImplies, PTL

(* No reassembly buffer passes maxWireBuf by a whole capture, and none     *)
(* holds a capture without a byte.                                         *)
THEOREM BuffersBounded == Spec => []WireBufBounded
BY TInvariance, TInvImplies, PTL

(* The history holds ended connections, without buffers, up to its cap.    *)
THEOREM HistoryKept == Spec => []HistoryBounded
BY TInvariance, TInvImplies, PTL

(* Every open row that can be shown has an entry of the flows map.         *)
THEOREM RowsBacked == Spec => []OpenRowsBacked
BY TInvariance, TInvImplies, PTL

(* The whole program is an instance of WireProbes: the poller, working     *)
(* from an old snapshot, deletes closed entries only.  So what is proved   *)
(* of the probes alone holds with user space at work.                      *)
THEOREM WireImplemented == Spec => ImplementsWire
<1>1. Init => WInit
  BY DEF Init
<1>2. TInv /\ [Next]_vars => [WNext]_wvars
  <2> SUFFICES ASSUME TInv, [Next]_vars, ~UNCHANGED wvars PROVE WNext
    OBVIOUS
  <2>1. Traffic \/ \E sk \in Socks : DeleteClosed(sk)
    BY DEF Next, vars, Reader, ReadWire, ReadData, ReadClose, Read, Poller, ScanFlow, MergeFlows,
           StartStats, ScanStat, RestartScan, AbortScan, BeginJoin, JoinOne, EndJoin
  <2> QED
    BY <2>1, DeleteReclaims DEF WNext
<1> QED
  BY <1>1, <1>2, TInvariance, PTL DEF Spec, ImplementsWire
-----------------------------------------------------------------------------
(* The refinement of Lifecycle.                                            *)

(* Phases: a row or an entry is closed exactly when it says so.            *)
LEMMA PhaseCases ==
  ASSUME NEW r
  PROVE  /\ Phase(r) \in {"none", "open", "closed"}
         /\ Phase(r) = "none" <=> r = None
         /\ Phase(r) = "closed" <=> (r # None /\ r.closed)
         /\ Phase(r) = "open" <=> (r # None /\ ~r.closed)
BY DEF Phase

(* A step of the host: an entry appears, ends, or keeps its phase.         *)
LEMMA TrafficLife ==
  ASSUME TInv, Traffic, UNCHANGED <<svars, stvars, pvars>>
  PROVE  Life!LNext \/ UNCHANGED Life!lvars
<1>1. UNCHANGED <<conns, history>>
  BY DEF stvars
<1>2. CASE UNCHANGED <<flows, events>>
  BY <1>1, <1>2 DEF Life!lvars
<1>3. ASSUME NEW sk \in Socks, EntryStep(sk)
      PROVE  Life!LNext \/ UNCHANGED Life!lvars
  <2> DEFINE E == [s \in Socks |-> Phase(flows[s])]
             F == [s \in Socks |-> Phase(flows'[s])]
  <2>1. F = [E EXCEPT ![sk] = Phase(flows'[sk])]
    BY <1>3 DEF EntryStep
  <2>2. StaysClosed
    BY NextClosed DEF TInv, WNext
  <2>3. \/ Phase(flows'[sk]) = Phase(flows[sk])
        \/ Phase(flows[sk]) = "none" /\ Phase(flows'[sk]) = "open"
        \/ Phase(flows[sk]) = "open" /\ Phase(flows'[sk]) = "closed"
    <3>1. flows[sk] # None /\ flows[sk].closed => flows'[sk].closed
      BY <1>3, <2>2 DEF EntryStep, StaysClosed
    <3> QED
      BY <1>3, <3>1 DEF EntryStep, Phase
  <2>4. CASE Phase(flows'[sk]) = Phase(flows[sk])
    <3>1. F = E
      BY <2>1, <2>4
    <3> QED
      BY <1>1, <3>1 DEF Life!lvars
  <2>5. CASE Phase(flows[sk]) = "none" /\ Phase(flows'[sk]) = "open"
    <3>1. Life!Appear(sk)
      BY <1>1, <2>1, <2>5 DEF Life!Appear
    <3> QED
      BY <3>1 DEF Life!LNext
  <2>6. CASE Phase(flows[sk]) = "open" /\ Phase(flows'[sk]) = "closed"
    <3>1. Life!End(sk)
      BY <1>1, <2>1, <2>6 DEF Life!End
    <3> QED
      BY <3>1 DEF Life!LNext
  <2> QED
    BY <2>3, <2>4, <2>5, <2>6
<1> QED
  BY <1>2, <1>3, TrafficEntry DEF TInv

(* Joining plaintext does not move a row.                                  *)
LEMMA PlainLife ==
  ASSUME TInv, PlainOnly, UNCHANGED <<flows, history>>
  PROVE  UNCHANGED Life!lvars
<1>1. \A sk \in Socks : Phase(conns'[sk]) = Phase(conns[sk])
  BY ConnAssumption DEF PlainOnly, SameWire, Phase
<1> QED
  BY <1>1 DEF Life!lvars

(* A capture may be the first the table hears of a connection.             *)
LEMMA ReadWireLife ==
  ASSUME TInv, ReadWire
  PROVE  Life!LNext \/ UNCHANGED Life!lvars
<1> DEFINE w == Head(events)
           c == ConnAt(w.sk)
           R == [s \in Socks |-> Phase(conns[s])]
           S == [s \in Socks |-> Phase(conns'[s])]
<1>1. w \in WireEvent /\ UNCHANGED <<flows, history>>
  BY ReadHead, EventTypes DEF ReadWire, ApplyWire
<1>2. conns' = [conns EXCEPT ![w.sk] = WireRow(c, w)]
  BY DEF ReadWire, ApplyWire, WireRow
<1>3. w.sk \in Socks
  BY <1>1 DEF WireEvent
<1> HIDE DEF w
<1>4. c \in Conn /\ (IF conns[w.sk] = None THEN ~c.closed ELSE c = conns[w.sk])
  BY <1>3, NewRow DEF ConnAt, TInv, StoreType
<1> HIDE DEF c
<1>5. WireRow(c, w) # None /\ WireRow(c, w).closed = c.closed
  BY <1>1, <1>4, WireRowOK
<1>6. Phase(WireRow(c, w)) = IF conns[w.sk] = None THEN "open" ELSE Phase(conns[w.sk])
  BY <1>4, <1>5 DEF Phase
<1>7. S = [R EXCEPT ![w.sk] = Phase(WireRow(c, w))]
  BY <1>2, <1>3 DEF TInv, StoreType
<1>8. CASE conns[w.sk] = None
  <2>1. R[w.sk] = "none" /\ S = [R EXCEPT ![w.sk] = "open"]
    BY <1>3, <1>6, <1>7, <1>8 DEF Phase
  <2>2. Life!Hear(w.sk)
    BY <1>1, <2>1 DEF Life!Hear
  <2> QED
    BY <1>3, <2>2 DEF Life!LNext
<1>9. CASE conns[w.sk] # None
  <2>1. S = R
    BY <1>6, <1>7, <1>9
  <2> QED
    BY <1>1, <2>1 DEF Life!lvars
<1> QED
  BY <1>8, <1>9

(* The end of Flows() is the poll of Lifecycle.                            *)
LEMMA MergeLife ==
  ASSUME TInv, MergeFlows
  PROVE  Life!Poll
<1> DEFINE E == [s \in Socks |-> Phase(flows[s])]
           R == [s \in Socks |-> Phase(conns[s])]
           S == [s \in Socks |-> Phase(conns'[s])]
           gone == Retired(snap)
           new == [s \in Socks \ gone |-> S[s]]
<1>1. pc = "flows" /\ UpdateFlows(snap) /\ UNCHANGED flows
  BY DEF MergeFlows, wvars
<1>2. gone \in SUBSET {s \in Socks : R[s] = "closed"}
  BY DEF Retired, Phase
<1>3. \A s \in gone : S[s] = "none"
  <2> TAKE s \in gone
  <2>1. s \in Socks /\ snap[s] = None
    BY DEF Retired
  <2>2. conns'[s] = None
    BY <1>1, <2>1 DEF UpdateFlows
  <2> QED
    BY <2>1, <2>2 DEF Phase
<1>4. \A s \in Socks \ gone : S[s] \in {"none", "open", "closed"} /\ Life!Follows(s, S[s])
  <2> TAKE s \in Socks \ gone
  <2>1. S[s] \in {"none", "open", "closed"}
    BY DEF Phase
  <2>2. CASE snap[s] = None
    <3>1. conns'[s] = conns[s]
      BY <1>1, <2>2 DEF UpdateFlows
    <3> QED
      BY <2>1, <3>1 DEF Life!Follows
  <2>3. CASE snap[s] # None
    <3>1. conns'[s] # None /\ conns'[s].closed = snap[s].closed
      BY <1>1, <2>3, MergedRows
    <3>2. flows[s] # None /\ (snap[s].closed => flows[s].closed)
      BY <2>3 DEF TInv, PollSound
    <3>3. CASE conns'[s].closed
      <4>1. S[s] = "closed" /\ E[s] = "closed"
        BY <3>1, <3>2, <3>3 DEF Phase
      <4> QED
        BY <2>1, <4>1 DEF Life!Follows
    <3>4. CASE ~conns'[s].closed
      <4>1. S[s] = "open" /\ E[s] # "none"
        BY <3>1, <3>2, <3>4 DEF Phase
      <4> QED
        BY <2>1, <4>1 DEF Life!Follows
    <3> QED
      BY <3>3, <3>4
  <2> QED
    BY <2>2, <2>3
<1>5. /\ new \in [Socks \ gone -> {"none", "open", "closed"}]
      /\ \A s \in Socks \ gone : Life!Follows(s, new[s])
  <2> HIDE DEF S
  <2> QED
    BY <1>4
<1>6. S = [s \in Socks |-> IF s \in gone THEN "none" ELSE new[s]]
  <2>1. \A s \in Socks : S[s] = IF s \in gone THEN "none" ELSE new[s]
    BY <1>3
  <2> QED
    BY <2>1
<1>7. Len(history') = IF Len(history) + Cardinality(gone) > MaxHistory
                      THEN MaxHistory ELSE Len(history) + Cardinality(gone)
  <2>1. PICK q \in Orders(Retired(snap)) : retire(q)
    BY <1>1 DEF UpdateFlows
  <2> QED
    BY <2>1, RetireOK DEF TInv, StoreType
<1>8. Life!Cardinality(gone) = Cardinality(gone)
  BY DEF Life!Cardinality, Cardinality, Life!IsFiniteSet, IsFiniteSet
<1> HIDE DEF gone, new
<1> QED
  BY <1>1, <1>2, <1>5, <1>6, <1>7, <1>8 DEF Life!Poll

(* A deletion is the drop of Lifecycle: the table has the end on record.   *)
LEMMA DeleteLife ==
  ASSUME TInv, NEW sk \in Socks, DeleteClosed(sk)
  PROVE  Life!LNext
<1> DEFINE E == [s \in Socks |-> Phase(flows[s])]
           F == [s \in Socks |-> Phase(flows'[s])]
<1>1. flows' = [flows EXCEPT ![sk] = None] /\ UNCHANGED <<conns, history>>
  BY DEF DeleteClosed, DeleteFlow, stvars
<1>2. Phase(flows[sk]) = "closed" /\ Phase(conns[sk]) = "closed"
  BY DeleteReclaims DEF Phase, TInv, PollSound, DeleteClosed
<1>3. F = [E EXCEPT ![sk] = "none"]
  BY <1>1 DEF TInv, WInv, WTypeOK, Phase
<1>4. Life!Drop(sk)
  BY <1>1, <1>2, <1>3 DEF Life!Drop
<1> QED
  BY <1>4 DEF Life!LNext

(* The program implements the life of a connection: with snapshots that    *)
(* are old when they are merged, deletions that come later still, captures *)
(* read after the retirement and any number of probes in between.          *)
THEOREM LifecycleImplemented == Spec => ImplementsLifecycle
<1>1. Init => Life!LInit
  <2> SUFFICES ASSUME Init PROVE Life!LInit
    OBVIOUS
  <2>1. (\A sk \in Socks : flows[sk] = None /\ conns[sk] = None) /\ history = <<>>
    BY DEF Init, WInit, StInit
  <2> QED
    BY <2>1 DEF Life!LInit, Phase
<1>2. TInv /\ [Next]_vars => [Life!LNext]_(Life!lvars)
  <2> SUFFICES ASSUME TInv, [Next]_vars PROVE Life!LNext \/ UNCHANGED Life!lvars
    OBVIOUS
  <2>1. CASE UNCHANGED <<flows, conns, history>>
    BY <2>1 DEF Life!lvars
  <2>2. CASE Traffic /\ UNCHANGED <<svars, stvars, pvars>>
    BY <2>2, TrafficLife
  <2>3. CASE ReadWire
    BY <2>3, ReadWireLife
  <2>4. CASE ReadClose \/ BeginJoin \/ JoinOne
    <3>1. UNCHANGED <<flows, history>>
      BY <2>4 DEF ReadClose, Read, ApplyClose, BeginJoin, ZeroPlain, JoinOne, JoinStat, wvars
    <3> QED
      BY <2>4, <3>1, ReadCloseInv, JoinInv, PlainLife
  <2>5. CASE MergeFlows
    BY <2>5, MergeLife DEF Life!LNext
  <2>6. CASE \E sk \in Socks : DeleteClosed(sk)
    BY <2>6, DeleteLife
  <2>7. CASE \/ SNext /\ UNCHANGED <<wvars, stvars, pvars>>
             \/ ReadData \/ (\E sk \in Socks : ScanFlow(sk)) \/ StartStats
             \/ (\E ptr \in Ptrs : ScanStat(ptr)) \/ RestartScan \/ AbortScan \/ EndJoin
             \/ UNCHANGED vars
    BY <2>1, <2>7 DEF ReadData, Read, ApplyData, ScanFlow, StartStats, ScanStat, RestartScan,
                      AbortScan, EndJoin, EvictSamples, wvars, stvars, vars
  <2> QED
    BY <2>2, <2>3, <2>4, <2>5, <2>6, <2>7 DEF Next, Reader, Poller
<1> QED
  BY <1>1, <1>2, TInvariance, PTL DEF Spec, ImplementsLifecycle, Life!LSpec
-----------------------------------------------------------------------------
(* Reassembly.  The captures of a direction are numbered by the entry's    *)
(* counter; the chunks in the buffer, the events in the ring and the       *)
(* counter form one chain, in which each number is followed by the next    *)
(* one, or by 0 when the entry was made anew in between.                   *)

Of(e, sk, d) == e.type = "wire" /\ e.sk = sk /\ e.direction = d

Linked(k, n) == n \in {k + 1, 0}

(* What comes after position i of the queue ev is linked to capture k: the *)
(* next event of sk and d or, without one, the counter n.                  *)
After(ev, i, sk, d, n, k) ==
  /\ \A j \in DOMAIN ev :
       i < j /\ Of(ev[j], sk, d) /\ (\A m \in DOMAIN ev : i < m /\ m < j => ~Of(ev[m], sk, d))
         => Linked(k, ev[j].k)
  /\ (\A j \in DOMAIN ev : i < j => ~Of(ev[j], sk, d)) => Linked(k, n)

QueueLinked(ev, sk, d, n) ==
  \A i \in DOMAIN ev : Of(ev[i], sk, d) => After(ev, i, sk, d, n, ev[i].k)

InOrder(q) == \A i \in 1..(Len(q) - 1) : Linked(q[i].k, q[i + 1].k)

(* A buffer that is not full yet goes on where the queue starts.           *)
BufLinked(buf, ev, sk, d, n) ==
  /\ InOrder(buf.chunks)
  /\ buf.chunks # <<>> /\ buf.len < MaxWireBuf =>
       After(ev, 0, sk, d, n, buf.chunks[Len(buf.chunks)].k)

Chain(c, ev, sk, d, n) ==
  /\ QueueLinked(ev, sk, d, n)
  /\ c # None => BufLinked(c.wire[d], ev, sk, d, n)

ChainInv == \A sk \in Socks, d \in Dirs : Chain(conns[sk], events, sk, d, Count(flows[sk], d))

(* A capture is queued: it carries the counter, which moves on.            *)
LEMMA AfterCapture ==
  ASSUME NEW ev \in Seq(QueuedEvent), NEW e \in QueuedEvent, NEW sk, NEW d, NEW i \in 0..Len(ev),
         NEW n, NEW k, Of(e, sk, d), e.k = n, After(ev, i, sk, d, n, k)
  PROVE  After(Append(ev, e), i, sk, d, n + 1, k)
<1> DEFINE L == Len(ev)
           fv == Append(ev, e)
<1>1. /\ L \in Nat /\ DOMAIN ev = 1..L /\ DOMAIN fv = 1..(L + 1) /\ fv[L + 1] = e
      /\ \A j \in 1..L : fv[j] = ev[j]
  OBVIOUS
<1> HIDE DEF L, fv
<1>2. i \in 0..L
  BY DEF L
<1>3. ASSUME NEW j \in DOMAIN fv, i < j, Of(fv[j], sk, d),
             \A m \in DOMAIN fv : i < m /\ m < j => ~Of(fv[m], sk, d)
      PROVE  Linked(k, fv[j].k)
  <2>1. CASE j \in 1..L
    <3>1. \A m \in DOMAIN ev : i < m /\ m < j => ~Of(ev[m], sk, d)
      BY <1>1, <1>3, <2>1
    <3> QED
      BY <1>1, <1>3, <2>1, <3>1 DEF After
  <2>2. CASE j = L + 1
    <3>1. \A m \in DOMAIN ev : i < m => ~Of(ev[m], sk, d)
      BY <1>1, <1>3, <2>2
    <3> QED
      BY <1>1, <2>2, <3>1 DEF After
  <2> QED
    BY <1>1, <2>1, <2>2
<1>4. i < L + 1 /\ L + 1 \in DOMAIN fv /\ Of(fv[L + 1], sk, d)
  BY <1>1, <1>2
<1>5. After(fv, i, sk, d, n + 1, k)
  BY <1>3, <1>4 DEF After
<1> QED
  BY <1>5 DEF fv

(* Any other event is queued.                                              *)
LEMMA AfterOther ==
  ASSUME NEW ev \in Seq(QueuedEvent), NEW e \in QueuedEvent, NEW sk, NEW d, NEW i \in 0..Len(ev),
         NEW n, NEW k, ~Of(e, sk, d), After(ev, i, sk, d, n, k)
  PROVE  After(Append(ev, e), i, sk, d, n, k)
<1> DEFINE L == Len(ev)
           fv == Append(ev, e)
<1>1. /\ L \in Nat /\ DOMAIN ev = 1..L /\ DOMAIN fv = 1..(L + 1) /\ fv[L + 1] = e
      /\ \A j \in 1..L : fv[j] = ev[j]
  OBVIOUS
<1> HIDE DEF L, fv
<1>2. i \in 0..L
  BY DEF L
<1>3. ASSUME NEW j \in DOMAIN fv, i < j, Of(fv[j], sk, d),
             \A m \in DOMAIN fv : i < m /\ m < j => ~Of(fv[m], sk, d)
      PROVE  Linked(k, fv[j].k)
  <2>1. j \in 1..L
    BY <1>1, <1>3
  <2>2. \A m \in DOMAIN ev : i < m /\ m < j => ~Of(ev[m], sk, d)
    BY <1>1, <1>3, <2>1
  <2> QED
    BY <1>1, <1>3, <2>1, <2>2 DEF After
<1>4. ASSUME \A j \in DOMAIN fv : i < j => ~Of(fv[j], sk, d)
      PROVE  Linked(k, n)
  BY <1>1, <1>4 DEF After
<1>5. After(fv, i, sk, d, n, k)
  BY <1>3, <1>4 DEF After
<1> QED
  BY <1>5 DEF fv

(* The reader takes the head: positions move down by one.                  *)
LEMMA AfterTail ==
  ASSUME NEW ev \in Seq(QueuedEvent), ev # <<>>, NEW sk, NEW d, NEW i \in Nat, NEW n, NEW k,
         After(ev, i + 1, sk, d, n, k)
  PROVE  After(Tail(ev), i, sk, d, n, k)
<1> DEFINE L == Len(ev)
           fv == Tail(ev)
<1>1. /\ L \in Nat /\ DOMAIN ev = 1..L /\ DOMAIN fv = 1..(L - 1)
      /\ \A j \in 1..(L - 1) : fv[j] = ev[j + 1]
  OBVIOUS
<1> HIDE DEF L, fv
<1>2. \A m \in 2..L : m - 1 \in 1..(L - 1) /\ fv[m - 1] = ev[m]
  <2> TAKE m \in 2..L
  <2>1. m - 1 \in 1..(L - 1) /\ (m - 1) + 1 = m
    BY <1>1
  <2> QED
    BY <1>1, <2>1
<1>3. ASSUME NEW j \in DOMAIN fv, i < j, Of(fv[j], sk, d),
             \A m \in DOMAIN fv : i < m /\ m < j => ~Of(fv[m], sk, d)
      PROVE  Linked(k, fv[j].k)
  <2>1. j + 1 \in DOMAIN ev /\ i + 1 < j + 1 /\ fv[j] = ev[j + 1]
    BY <1>1, <1>3
  <2>2. \A m \in DOMAIN ev : i + 1 < m /\ m < j + 1 => ~Of(ev[m], sk, d)
    <3> SUFFICES ASSUME NEW m \in DOMAIN ev, i + 1 < m, m < j + 1 PROVE ~Of(ev[m], sk, d)
      OBVIOUS
    <3>1. m \in 2..L /\ m - 1 \in DOMAIN fv /\ i < m - 1 /\ m - 1 < j
      BY <1>1, <1>3
    <3> QED
      BY <1>2, <1>3, <3>1
  <2> QED
    BY <1>3, <2>1, <2>2 DEF After
<1>4. ASSUME \A j \in DOMAIN fv : i < j => ~Of(fv[j], sk, d)
      PROVE  Linked(k, n)
  <2>1. \A m \in DOMAIN ev : i + 1 < m => ~Of(ev[m], sk, d)
    <3> SUFFICES ASSUME NEW m \in DOMAIN ev, i + 1 < m PROVE ~Of(ev[m], sk, d)
      OBVIOUS
    <3>1. m \in 2..L /\ m - 1 \in DOMAIN fv /\ i < m - 1
      BY <1>1
    <3> QED
      BY <1>2, <1>4, <3>1
  <2> QED
    BY <2>1 DEF After
<1>5. After(fv, i, sk, d, n, k)
  BY <1>3, <1>4 DEF After
<1> QED
  BY <1>5 DEF fv

(* A head of some other direction is passed over.                          *)
LEMMA AfterSkip ==
  ASSUME NEW ev \in Seq(QueuedEvent), ev # <<>>, NEW sk, NEW d, NEW n, NEW k,
         ~Of(ev[1], sk, d), After(ev, 0, sk, d, n, k)
  PROVE  After(ev, 1, sk, d, n, k)
<1> DEFINE L == Len(ev)
<1>1. L \in Nat /\ DOMAIN ev = 1..L
  OBVIOUS
<1> HIDE DEF L
<1>2. \A m \in DOMAIN ev : Of(ev[m], sk, d) => 1 < m
  BY <1>1
<1>3. ASSUME NEW j \in DOMAIN ev, 1 < j, Of(ev[j], sk, d),
             \A m \in DOMAIN ev : 1 < m /\ m < j => ~Of(ev[m], sk, d)
      PROVE  Linked(k, ev[j].k)
  <2>1. 0 < j /\ \A m \in DOMAIN ev : 0 < m /\ m < j => ~Of(ev[m], sk, d)
    BY <1>1, <1>2, <1>3
  <2> QED
    BY <1>3, <2>1 DEF After
<1>4. ASSUME \A j \in DOMAIN ev : 1 < j => ~Of(ev[j], sk, d)
      PROVE  Linked(k, n)
  BY <1>2, <1>4 DEF After
<1> QED
  BY <1>3, <1>4 DEF After

(* The chain of a direction through each kind of step: another event is    *)
(* queued, ...                                                             *)
LEMMA ChainOther ==
  ASSUME NEW ev \in Seq(QueuedEvent), NEW e \in QueuedEvent, NEW sk, NEW d, NEW n, NEW c,
         ~Of(e, sk, d), Chain(c, ev, sk, d, n)
  PROVE  Chain(c, Append(ev, e), sk, d, n)
<1> DEFINE L == Len(ev)
           fv == Append(ev, e)
<1>1. /\ L \in Nat /\ DOMAIN ev = 1..L /\ DOMAIN fv = 1..(L + 1) /\ fv[L + 1] = e
      /\ \A j \in 1..L : fv[j] = ev[j]
  OBVIOUS
<1>2. ASSUME NEW i \in 0..L, NEW k, After(ev, i, sk, d, n, k)
      PROVE  After(fv, i, sk, d, n, k)
  BY <1>2, AfterOther
<1> HIDE DEF L, fv
<1>3. QueueLinked(fv, sk, d, n)
  <2> SUFFICES ASSUME NEW i \in DOMAIN fv, Of(fv[i], sk, d)
               PROVE  After(fv, i, sk, d, n, fv[i].k)
    BY DEF QueueLinked
  <2>1. i \in 1..L /\ i \in 0..L /\ fv[i] = ev[i]
    BY <1>1
  <2>2. After(ev, i, sk, d, n, ev[i].k)
    BY <1>1, <2>1 DEF Chain, QueueLinked
  <2> QED
    BY <1>2, <2>1, <2>2
<1>4. 0 \in 0..L
  BY <1>1
<1>5. Chain(c, fv, sk, d, n)
  BY <1>2, <1>3, <1>4 DEF Chain, BufLinked
<1> QED
  BY <1>5 DEF fv

(* ... a capture of the direction is queued, ...                           *)
LEMMA ChainCapture ==
  ASSUME NEW ev \in Seq(QueuedEvent), NEW e \in QueuedEvent, NEW sk, NEW d, NEW n, NEW c,
         Of(e, sk, d), e.k = n, Chain(c, ev, sk, d, n)
  PROVE  Chain(c, Append(ev, e), sk, d, n + 1)
<1> DEFINE L == Len(ev)
           fv == Append(ev, e)
<1>1. /\ L \in Nat /\ DOMAIN ev = 1..L /\ DOMAIN fv = 1..(L + 1) /\ fv[L + 1] = e
      /\ \A j \in 1..L : fv[j] = ev[j]
  OBVIOUS
<1>2. ASSUME NEW i \in 0..L, NEW k, After(ev, i, sk, d, n, k)
      PROVE  After(fv, i, sk, d, n + 1, k)
  BY <1>2, AfterCapture
<1> HIDE DEF L, fv
<1>3. QueueLinked(fv, sk, d, n + 1)
  <2> SUFFICES ASSUME NEW i \in DOMAIN fv, Of(fv[i], sk, d)
               PROVE  After(fv, i, sk, d, n + 1, fv[i].k)
    BY DEF QueueLinked
  <2>1. CASE i \in 1..L
    <3>1. i \in 0..L /\ fv[i] = ev[i]
      BY <1>1, <2>1
    <3>2. After(ev, i, sk, d, n, ev[i].k)
      BY <1>1, <2>1, <3>1 DEF Chain, QueueLinked
    <3> QED
      BY <1>2, <3>1, <3>2
  <2>2. CASE i = L + 1
    <3>1. \A j \in DOMAIN fv : ~(L + 1 < j)
      BY <1>1
    <3>2. Linked(n, n + 1)
      BY DEF Linked
    <3> QED
      BY <1>1, <2>2, <3>1, <3>2 DEF After
  <2> QED
    BY <1>1, <2>1, <2>2
<1>4. 0 \in 0..L
  BY <1>1
<1>5. Chain(c, fv, sk, d, n + 1)
  BY <1>2, <1>3, <1>4 DEF Chain, BufLinked
<1> QED
  BY <1>5 DEF fv

(* ... the entry is deleted and its counters with it, ...                  *)
LEMMA ChainReset ==
  ASSUME NEW ev, NEW sk, NEW d, NEW n, NEW c, Chain(c, ev, sk, d, n)
  PROVE  Chain(c, ev, sk, d, 0)
<1>1. \A k : Linked(k, 0)
  BY DEF Linked
<1>2. ASSUME NEW i, NEW k, After(ev, i, sk, d, n, k)
      PROVE  After(ev, i, sk, d, 0, k)
  BY <1>1, <1>2 DEF After
<1> QED
  BY <1>2 DEF Chain, QueueLinked, BufLinked

(* ... the reader takes a record that is not of the direction, ...         *)
LEMMA ChainSkip ==
  ASSUME NEW ev \in Seq(QueuedEvent), ev # <<>>, NEW sk, NEW d, NEW n, NEW c,
         ~Of(Head(ev), sk, d), Chain(c, ev, sk, d, n)
  PROVE  Chain(c, Tail(ev), sk, d, n)
<1> DEFINE L == Len(ev)
           fv == Tail(ev)
<1>1. /\ L \in Nat /\ DOMAIN ev = 1..L /\ DOMAIN fv = 1..(L - 1) /\ Head(ev) = ev[1]
      /\ \A j \in 1..(L - 1) : fv[j] = ev[j + 1]
  OBVIOUS
<1>2. ASSUME NEW i \in Nat, NEW k, After(ev, i + 1, sk, d, n, k)
      PROVE  After(fv, i, sk, d, n, k)
  BY <1>2, AfterTail
<1>3. ASSUME NEW k, After(ev, 0, sk, d, n, k)
      PROVE  After(ev, 1, sk, d, n, k)
  BY <1>1, <1>3, AfterSkip
<1> HIDE DEF L, fv
<1>4. QueueLinked(fv, sk, d, n)
  <2> SUFFICES ASSUME NEW i \in DOMAIN fv, Of(fv[i], sk, d)
               PROVE  After(fv, i, sk, d, n, fv[i].k)
    BY DEF QueueLinked
  <2>1. i \in Nat /\ i + 1 \in 1..L /\ fv[i] = ev[i + 1]
    BY <1>1
  <2>2. After(ev, i + 1, sk, d, n, ev[i + 1].k)
    BY <1>1, <2>1 DEF Chain, QueueLinked
  <2> QED
    BY <1>2, <2>1, <2>2
<1>5. ASSUME NEW k, After(ev, 0, sk, d, n, k)
      PROVE  After(fv, 0, sk, d, n, k)
  <2>1. 0 \in Nat /\ 0 + 1 = 1
    OBVIOUS
  <2>2. After(ev, 0 + 1, sk, d, n, k)
    BY <1>3, <1>5, <2>1
  <2> QED
    BY <1>2, <2>1, <2>2
<1>6. Chain(c, fv, sk, d, n)
  BY <1>4, <1>5 DEF Chain, BufLinked
<1> QED
  BY <1>6 DEF fv

(* ... or the reader takes the next capture of the direction.              *)
LEMMA ChainRead ==
  ASSUME NEW ev \in Seq(QueuedEvent), ev # <<>>, NEW sk, NEW d, NEW n, NEW c, NEW g,
         Of(Head(ev), sk, d), Head(ev) \in WireEvent, c # None, Chain(c, ev, sk, d, n),
         c.wire[d] \in WireBuf, g.wire[d] = AppendWire(c.wire[d], Head(ev))
  PROVE  Chain(g, Tail(ev), sk, d, n)
<1> DEFINE L == Len(ev)
           fv == Tail(ev)
           w == Head(ev)
           buf == c.wire[d]
           new == AppendWire(buf, w)
<1>1. /\ L \in Nat /\ 1 \in 1..L /\ DOMAIN ev = 1..L /\ DOMAIN fv = 1..(L - 1) /\ w = ev[1]
      /\ \A j \in 1..(L - 1) : fv[j] = ev[j + 1]
  OBVIOUS
<1>2. ASSUME NEW i \in Nat, NEW k, After(ev, i + 1, sk, d, n, k)
      PROVE  After(fv, i, sk, d, n, k)
  BY <1>2, AfterTail
<1>3. /\ new \in WireBuf
      /\ \/ new = buf /\ ~(buf.len < MaxWireBuf)
         \/ buf.len < MaxWireBuf /\ new.chunks = Append(buf.chunks, [k |-> w.k, kind |-> w.kind])
  BY AppendBuf
<1>4. /\ Of(w, sk, d) /\ QueueLinked(ev, sk, d, n) /\ BufLinked(buf, ev, sk, d, n)
      /\ buf \in WireBuf /\ g.wire[d] = new
  BY DEF Chain
<1> HIDE DEF L, fv, w, buf, new
<1>5. QueueLinked(fv, sk, d, n)
  <2> SUFFICES ASSUME NEW i \in DOMAIN fv, Of(fv[i], sk, d)
               PROVE  After(fv, i, sk, d, n, fv[i].k)
    BY DEF QueueLinked
  <2>1. i \in Nat /\ i + 1 \in 1..L /\ fv[i] = ev[i + 1]
    BY <1>1
  <2>2. After(ev, i + 1, sk, d, n, ev[i + 1].k)
    BY <1>1, <1>4, <2>1 DEF QueueLinked
  <2> QED
    BY <1>2, <2>1, <2>2
<1>6. CASE new = buf /\ ~(buf.len < MaxWireBuf)
  BY <1>4, <1>5, <1>6 DEF Chain, BufLinked, fv
<1>7. CASE buf.len < MaxWireBuf /\ new.chunks = Append(buf.chunks, [k |-> w.k, kind |-> w.kind])
  <2> DEFINE q == buf.chunks
             M == Len(q)
             z == [k |-> w.k, kind |-> w.kind]
             q1 == Append(q, z)
  <2>1. /\ q \in Seq(WireChunk) /\ M \in Nat /\ Len(q1) = M + 1 /\ q1[M + 1] = z /\ z.k = w.k
        /\ \A i \in 1..M : q1[i] = q[i]
    BY <1>4 DEF WireBuf
  <2>2. M # 0 => q # <<>>
    BY <2>1
  <2> HIDE DEF q, M, z, q1
  <2>3. M # 0 => Linked(q[M].k, w.k)
    <3>1. \A m \in DOMAIN ev : ~(0 < m /\ m < 1)
      BY <1>1
    <3>2. M # 0 => After(ev, 0, sk, d, n, q[M].k)
      BY <1>4, <1>7, <2>2 DEF BufLinked, q, M
    <3>3. 0 < 1
      OBVIOUS
    <3> QED
      BY <1>1, <1>4, <3>1, <3>2, <3>3 DEF After
  <2>4. InOrder(q1)
    <3> SUFFICES ASSUME NEW i \in 1..M PROVE Linked(q1[i].k, q1[i + 1].k)
      BY <2>1 DEF InOrder
    <3>1. CASE i = M
      BY <2>1, <2>3, <3>1
    <3>2. CASE i # M
      <4>1. i \in 1..(M - 1) /\ i \in 1..M /\ i + 1 \in 1..M
        BY <2>1, <3>2
      <4>2. \A x \in 1..(M - 1) : Linked(q[x].k, q[x + 1].k)
        BY <1>4 DEF BufLinked, InOrder, q, M
      <4> QED
        BY <2>1, <4>1, <4>2
    <3> QED
      BY <3>1, <3>2
  <2>5. After(fv, 0, sk, d, n, q1[Len(q1)].k)
    <3>1. 0 \in Nat /\ 0 + 1 = 1
      OBVIOUS
    <3>2. After(ev, 1, sk, d, n, w.k)
      BY <1>1, <1>4 DEF QueueLinked
    <3>3. After(fv, 0, sk, d, n, w.k)
      BY <1>2, <3>1, <3>2
    <3> QED
      BY <2>1, <3>3
  <2>6. new.chunks = q1
    BY <1>7 DEF q1, q, z
  <2> QED
    BY <1>4, <1>5, <2>4, <2>5, <2>6 DEF Chain, BufLinked, fv
<1> QED
  BY <1>3, <1>6, <1>7

(* An empty buffer continues any queue.                                    *)
LEMMA ChainEmpty ==
  ASSUME NEW ev, NEW sk, NEW d \in Dirs, NEW n, NEW c, Chain(c, ev, sk, d, n)
  PROVE  Chain(NewConn, ev, sk, d, n)
<1>1. NewConn.wire[d].chunks = <<>>
  BY NewRow
<1>2. \A i \in 1..(Len(<<>>) - 1) : FALSE
  OBVIOUS
<1> QED
  BY <1>1, <1>2 DEF Chain, BufLinked, InOrder

(* A step that leaves queue, entries and buffers alone keeps the chain.    *)
LEMMA ChainPlain ==
  ASSUME ChainInv, UNCHANGED <<events, flows>>, PlainOnly
  PROVE  ChainInv'
<1>1. ASSUME NEW sk \in Socks, NEW d \in Dirs
      PROVE  Chain(conns'[sk], events, sk, d, Count(flows[sk], d))
  BY DEF ChainInv, Chain, PlainOnly, SameWire
<1> QED
  BY <1>1 DEF ChainInv

(* The host queues captures and moves their counters, ...                  *)
LEMMA ChainTraffic ==
  ASSUME TInv, ChainInv, Traffic, UNCHANGED conns
  PROVE  ChainInv'
<1>1. events \in Seq(QueuedEvent)
  BY DEF TInv
<1>2. CASE UNCHANGED <<flows, events>>
  BY <1>2 DEF ChainInv
<1>3. ASSUME NEW s \in Socks, EntryStep(s) PROVE ChainInv'
  <2>1. \A sk \in Socks \ {s} : flows'[sk] = flows[sk]
    BY <1>3 DEF EntryStep
  <2>2. CASE UNCHANGED events /\ \A d \in Dirs : Count(flows'[s], d) = Count(flows[s], d)
    <3>1. \A sk \in Socks, d \in Dirs : Count(flows'[sk], d) = Count(flows[sk], d)
      BY <2>1, <2>2
    <3> QED
      BY <2>2, <3>1 DEF ChainInv
  <2>3. ASSUME NEW e \in WireEvent, Captures(s, e) PROVE ChainInv'
    <3>1. e \in QueuedEvent /\ e.type = "wire" /\ e.direction \in Dirs /\ events' = Append(events, e)
      BY <2>3 DEF QueuedEvent, WireEvent, Captures
    <3>2. SUFFICES ASSUME NEW sk \in Socks, NEW d \in Dirs
                   PROVE  Chain(conns[sk], Append(events, e), sk, d, Count(flows'[sk], d))
      BY <3>1 DEF ChainInv
    <3>3. Chain(conns[sk], events, sk, d, Count(flows[sk], d))
      BY DEF ChainInv
    <3>4. CASE sk = s /\ d = e.direction
      <4>1. Of(e, sk, d) /\ e.k = Count(flows[sk], d) /\ Count(flows'[sk], d) = e.k + 1
        BY <2>3, <3>1, <3>4 DEF Of, Captures
      <4>2. Chain(conns[sk], Append(events, e), sk, d, Count(flows[sk], d) + 1)
        BY <1>1, <3>1, <3>3, <4>1, ChainCapture
      <4> QED
        BY <4>1, <4>2
    <3>5. CASE ~(sk = s /\ d = e.direction)
      <4>1. ~Of(e, sk, d)
        BY <2>3, <3>5 DEF Of, Captures
      <4>2. Count(flows'[sk], d) = Count(flows[sk], d)
        BY <2>1, <2>3, <3>5 DEF Captures
      <4> QED
        BY <1>1, <3>1, <3>3, <4>1, <4>2, ChainOther
    <3> QED
      BY <3>4, <3>5
  <2> QED
    BY <1>3, <2>2, <2>3 DEF EntryStep
<1> QED
  BY <1>2, <1>3, TrafficEntry DEF TInv

(* ... the uprobes queue records of other types, ...                       *)
LEMMA ChainSsl ==
  ASSUME TInv, ChainInv, SNext, UNCHANGED <<flows, conns>>
  PROVE  ChainInv'
<1>1. CASE UNCHANGED events
  BY <1>1 DEF ChainInv
<1>2. ASSUME NEW e \in DataEvent \cup CloseEvent, events' = Append(events, e)
      PROVE  ChainInv'
  <2>1. e \in QueuedEvent /\ e.type # "wire" /\ events \in Seq(QueuedEvent)
    BY DEF QueuedEvent, DataEvent, CloseEvent, TInv
  <2>2. ASSUME NEW sk \in Socks, NEW d \in Dirs
        PROVE  Chain(conns[sk], Append(events, e), sk, d, Count(flows[sk], d))
    <3>1. ~Of(e, sk, d) /\ Chain(conns[sk], events, sk, d, Count(flows[sk], d))
      BY <2>1 DEF Of, ChainInv
    <3> QED
      BY <2>1, <3>1, ChainOther
  <2> QED
    BY <1>2, <2>2 DEF ChainInv
<1> QED
  BY <1>1, <1>2, SslEvents DEF TInv

(* ... the reader hands the oldest capture to its buffer, ...              *)
LEMMA ChainReadWire ==
  ASSUME TInv, ChainInv, ReadWire
  PROVE  ChainInv'
<1> DEFINE w == Head(events)
           c == ConnAt(w.sk)
<1>1. w \in WireEvent /\ UNCHANGED flows
  BY ReadHead, EventTypes DEF ReadWire
<1>2. conns' = [conns EXCEPT ![w.sk] = WireRow(c, w)]
  BY DEF ReadWire, ApplyWire, WireRow
<1>3. events \in Seq(QueuedEvent) /\ events # <<>> /\ events' = Tail(events)
  BY DEF TInv, ReadWire, Read
<1>4. w.sk \in Socks /\ w.direction \in Dirs /\ w.type = "wire"
  BY <1>1 DEF WireEvent
<1>5. c \in Conn /\ c # None
  BY <1>4, NewRow DEF ConnAt, TInv, StoreType
<1>6. ASSUME NEW d \in Dirs PROVE Chain(c, events, w.sk, d, Count(flows[w.sk], d))
  BY <1>4, ChainEmpty DEF ChainInv, ConnAt
<1> HIDE DEF c
<1>7. ASSUME NEW sk \in Socks, NEW d \in Dirs
      PROVE  Chain(conns'[sk], Tail(events), sk, d, Count(flows[sk], d))
  <2> DEFINE n == Count(flows[sk], d)
             g == WireRow(c, w)
  <2>1. Chain(conns[sk], events, sk, d, n)
    BY DEF ChainInv
  <2>2. CASE sk # w.sk
    <3>1. ~Of(w, sk, d) /\ conns'[sk] = conns[sk]
      BY <1>2, <2>2 DEF Of, TInv, StoreType
    <3> HIDE DEF n
    <3>2. Chain(conns[sk], Tail(events), sk, d, n)
      BY <1>3, <2>1, <3>1, ChainSkip
    <3> QED
      BY <3>1, <3>2 DEF n
  <2>3. CASE sk = w.sk
    <3>1. conns'[sk] = g
      BY <1>2, <1>4, <2>3 DEF TInv, StoreType
    <3>2. g.wire = [c.wire EXCEPT ![w.direction] = AppendWire(c.wire[w.direction], w)]
      BY <1>1, <1>5, WireRowOK
    <3>3. c.wire \in [Dirs -> WireBuf]
      BY <1>5 DEF Conn, WireBuf
    <3>4. Chain(c, events, sk, d, n)
      BY <1>6, <2>3
    <3> HIDE DEF n, g
    <3>5. CASE d = w.direction
      <4>1. g.wire[d] = AppendWire(c.wire[d], w) /\ c.wire[d] \in WireBuf /\ Of(w, sk, d)
        BY <1>4, <2>3, <3>2, <3>3, <3>5 DEF Of
      <4>2. Chain(g, Tail(events), sk, d, n)
        BY <1>1, <1>3, <1>5, <3>4, <4>1, ChainRead
      <4> QED
        BY <3>1, <4>2 DEF n
    <3>6. CASE d # w.direction
      <4>1. g.wire[d] = c.wire[d] /\ ~Of(w, sk, d)
        BY <3>2, <3>3, <3>6 DEF Of
      <4>2. Chain(c, Tail(events), sk, d, n)
        BY <1>3, <3>4, <4>1, ChainSkip
      <4>3. Chain(g, Tail(events), sk, d, n)
        BY <1>5, <4>1, <4>2 DEF Chain
      <4> QED
        BY <3>1, <4>3 DEF n
    <3> QED
      BY <3>5, <3>6
  <2> QED
    BY <2>2, <2>3
<1> QED
  BY <1>1, <1>3, <1>7 DEF ChainInv

(* ... and passes over the others, ...                                     *)
LEMMA ChainReadOther ==
  ASSUME TInv, ChainInv, ReadData \/ ReadClose
  PROVE  ChainInv'
<1>1. PlainOnly
  BY ReadCloseInv DEF ReadData, ApplyData, PlainOnly
<1>2. /\ events \in Seq(QueuedEvent) /\ events # <<>> /\ events' = Tail(events)
      /\ Head(events).type # "wire" /\ UNCHANGED flows
  BY DEF TInv, ReadData, ReadClose, Read, wvars
<1>3. ASSUME NEW sk \in Socks, NEW d \in Dirs
      PROVE  Chain(conns'[sk], Tail(events), sk, d, Count(flows[sk], d))
  <2>1. ~Of(Head(events), sk, d) /\ Chain(conns[sk], events, sk, d, Count(flows[sk], d))
    BY <1>2 DEF Of, ChainInv
  <2>2. Chain(conns[sk], Tail(events), sk, d, Count(flows[sk], d))
    BY <1>2, <2>1, ChainSkip
  <2> QED
    BY <1>1, <2>2 DEF Chain, PlainOnly, SameWire
<1> QED
  BY <1>2, <1>3 DEF ChainInv

(* ... UpdateFlows leaves the buffers of the rows it keeps alone, ...      *)
LEMMA ChainMerge ==
  ASSUME TInv, ChainInv, MergeFlows
  PROVE  ChainInv'
<1>1. pc = "flows" /\ UpdateFlows(snap) /\ UNCHANGED <<flows, events>>
  BY DEF MergeFlows, wvars
<1>2. ASSUME NEW sk \in Socks, NEW d \in Dirs
      PROVE  Chain(conns'[sk], events, sk, d, Count(flows[sk], d))
  <2>1. Chain(conns[sk], events, sk, d, Count(flows[sk], d))
    BY DEF ChainInv
  <2>2. CASE snap[sk] = None
    <3>1. conns'[sk] = None \/ conns'[sk] = conns[sk]
      BY <1>1, <2>2, MergedRows
    <3> QED
      BY <2>1, <3>1 DEF Chain
  <2>3. CASE snap[sk] # None
    <3>1. conns'[sk].wire = ConnAt(sk).wire /\ ConnAt(sk) # None
      BY <1>1, <2>3, MergedRows, NewRow DEF ConnAt
    <3>2. Chain(ConnAt(sk), events, sk, d, Count(flows[sk], d))
      BY <2>1, ChainEmpty DEF ConnAt
    <3> QED
      BY <3>1, <3>2 DEF Chain
  <2> QED
    BY <2>2, <2>3
<1> QED
  BY <1>1, <1>2 DEF ChainInv

(* ... and the deletion of an entry starts its counters over.              *)
LEMMA ChainDelete ==
  ASSUME TInv, ChainInv, NEW s \in Socks, DeleteClosed(s)
  PROVE  ChainInv'
<1>1. flows' = [flows EXCEPT ![s] = None] /\ UNCHANGED <<events, conns>>
  BY DEF DeleteClosed, DeleteFlow, stvars
<1>2. ASSUME NEW sk \in Socks, NEW d \in Dirs
      PROVE  Chain(conns[sk], events, sk, d, Count(flows'[sk], d))
  <2>1. Chain(conns[sk], events, sk, d, Count(flows[sk], d))
    BY DEF ChainInv
  <2>2. \/ flows'[sk] = flows[sk]
        \/ Count(flows'[sk], d) = 0
    BY <1>1 DEF TInv, WInv, WTypeOK, Count
  <2> QED
    BY <2>1, <2>2, ChainReset
<1> QED
  BY <1>1, <1>2 DEF ChainInv

(* At the start there is nothing to link.                                  *)
LEMMA ChainInit == Init => ChainInv
<1> SUFFICES ASSUME Init PROVE ChainInv
  OBVIOUS
<1>1. events = <<>> /\ \A sk \in Socks : conns[sk] = None
  BY DEF Init, WInit, StInit
<1>2. DOMAIN events = {}
  BY <1>1
<1> QED
  BY <1>1, <1>2 DEF ChainInv, Chain, QueueLinked

(* Every step of the program keeps the chain.                              *)
LEMMA ChainNext == TInv /\ ChainInv /\ [Next]_vars => ChainInv'
<1> SUFFICES ASSUME TInv, ChainInv, [Next]_vars PROVE ChainInv'
  OBVIOUS
<1>1. CASE Traffic /\ UNCHANGED <<svars, stvars, pvars>>
  BY <1>1, ChainTraffic DEF stvars
<1>2. CASE SNext /\ UNCHANGED <<wvars, stvars, pvars>>
  BY <1>2, ChainSsl DEF stvars, wvars
<1>3. CASE Reader
  BY <1>3, ChainReadWire, ChainReadOther DEF Reader
<1>4. CASE MergeFlows
  BY <1>4, ChainMerge
<1>5. ASSUME NEW sk \in Socks, DeleteClosed(sk) PROVE ChainInv'
  BY <1>5, ChainDelete
<1>6. CASE BeginJoin \/ JoinOne \/ EndJoin
  <2>1. UNCHANGED <<events, flows>>
    BY <1>6 DEF BeginJoin, JoinOne, EndJoin, wvars
  <2> QED
    BY <1>6, <2>1, JoinInv, ChainPlain
<1>7. CASE \/ (\E sk \in Socks : ScanFlow(sk)) \/ StartStats
           \/ (\E ptr \in Ptrs : ScanStat(ptr)) \/ RestartScan \/ AbortScan
           \/ UNCHANGED vars
  <2>1. UNCHANGED <<events, flows, conns>>
    BY <1>7 DEF ScanFlow, StartStats, ScanStat, RestartScan, AbortScan, wvars, stvars, vars
  <2> QED
    BY <2>1 DEF ChainInv
<1> QED
  BY <1>1, <1>2, <1>3, <1>4, <1>5, <1>6, <1>7 DEF Next, Poller

(* ApplyWire puts the captures of a direction together in the order in     *)
(* which the probes took them, and leaves none out: for any ring, any      *)
(* interleaving of the goroutines and any reuse of a socket address.       *)
THEOREM CapturesInOrder == Spec => []ReassemblyInOrder
<1>1. ChainInv => ReassemblyInOrder
  BY DEF ChainInv, Chain, BufLinked, InOrder, Linked, ReassemblyInOrder
<1> QED
  BY <1>1, TInvariance, ChainInit, ChainNext, PTL DEF Spec
-----------------------------------------------------------------------------
(* What the probes promise on their own, they promise in the program: with *)
(* the poller deleting entries of flows under the wire probes, and with    *)
(* the reader draining the ring while both kinds of probe fill it.         *)

(* kr_tcp_recvmsg never uses what another call stashed, and rx counts no   *)
(* byte that was not received, while the poller reaps entries.             *)
THEOREM WireCountsRight == Spec => [](PairedReturn /\ RxNeverOvercounts)
<1>1. TInv => PairedReturn /\ RxNeverOvercounts
  BY DEF TInv, WInv
<1> QED
  BY <1>1, TInvariance, PTL

(* ur_ssl_read counts for the session of its own call, and the maps of the *)
(* OpenSSL probes keep nothing of a session whose end they saw.            *)
THEOREM SslCountsRight == Spec => [](SslPaired /\ StatsHaveOwner)
<1>1. TInv => SslPaired /\ StatsHaveOwner
  BY DEF TInv, SInv
<1> QED
  BY <1>1, TInvariance, PTL

(* What the poller reads of a pointer's bytes received is never more than  *)
(* the sessions that use the pointer have read.                            *)
THEOREM PlainReadBounded == Spec => []PrxOfLiveSessions
<1>1. Init => PrxOfLiveSessions
  BY DEF Init, SInit, PrxOfLiveSessions
<1>2. TInv /\ PrxOfLiveSessions /\ [Next]_vars => PrxOfLiveSessions'
  <2> SUFFICES ASSUME TInv, PrxOfLiveSessions, [Next]_vars PROVE PrxOfLiveSessions'
    OBVIOUS
  <2>1. CASE SNext
    BY <2>1, PrxNext DEF TInv, WInv
  <2>2. CASE UNCHANGED svars
    BY <2>2, PrxUnchanged DEF svars
  <2>3. SNext \/ UNCHANGED svars
    <3>1. Reader => UNCHANGED svars
      BY DEF Reader, ReadWire, ReadData, ReadClose, Read
    <3>2. Poller => UNCHANGED svars
      BY DEF Poller, ScanFlow, StartStats, ScanStat, RestartScan, AbortScan, MergeFlows,
             DeleteClosed, BeginJoin, JoinOne, EndJoin
    <3> QED
      BY <3>1, <3>2 DEF Next, vars
  <2> QED
    BY <2>1, <2>2, <2>3
<1> QED
  BY <1>1, <1>2, TInvariance, PTL DEF Spec
=============================================================================
