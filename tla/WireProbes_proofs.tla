-------------------------- MODULE WireProbes_proofs --------------------------
(***************************************************************************)
(* Proofs about WireProbes, for every set of sockets, threads and buffers  *)
(* and every bound: the maps stay well formed, a return is never paired    *)
(* with another call's stash, rx never runs ahead of the bytes received,   *)
(* and a TLS record precedes every capture.                                *)
(***************************************************************************)
EXTENDS WireProbes, TLAPS

(* A descriptor is held only on a socket in use, and a socket in use has a *)
(* remote endpoint.                                                        *)
Named(r) == (r.fd # None => r.state # "free") /\ (r.state # "free" => r.remote # None)
SockNamed == \A sk \in Socks : Named(sock[sk])

(* A thread inside tcp_recvmsg keeps the socket's descriptor open, so the  *)
(* return probe reads the tuple of a live connection.                      *)
CallOpen == \A t \in Threads : call[t] # None => HoldsFd(t, call[t].sk)

(* The inductive invariant.                                                *)
WInv == WTypeOK /\ SockNamed /\ CallOpen /\ PairedReturn /\ RxNeverOvercounts

(* The clamp and the mask of capture_wire and emit_plaintext together:     *)
(* a nonempty chunk yields between 1 and cap - 1 bytes, never the cap      *)
(* itself and never 0 by wrapping.                                         *)
LEMMA CappedRange ==
  ASSUME NEW n \in Nat \ {0}, NEW cap \in Nat, cap > 1
  PROVE  Capped(n, cap) \in 1..(cap - 1) /\ Capped(n, cap) <= n
BY DEF Capped

(* flow_get returns a well-formed entry that keeps the rx counted so far.  *)
LEMMA FlowGet ==
  ASSUME WInv, NEW sk \in Socks, NEW pid \in Pids, sock[sk].fd # None
  PROVE  LET f == flow_get(sk, pid) IN
           f # None => f \in Flow /\ f.rx <= rcvd[sk]
<1>1. ZeroFlow \in Flow /\ ZeroFlow.rx = 0
  BY WireAssumption DEF ZeroFlow, Flow, Dirs, DIR_OUT, DIR_IN
<1>2. read_tuple(sk) \in Tuple
  BY DEF WInv, WTypeOK, SockNamed, Sock, read_tuple, Tuple, Named
<1> DEFINE e == IF flows[sk] = None THEN ZeroFlow ELSE flows[sk]
<1>3. e \in Flow /\ e.rx <= rcvd[sk]
  BY <1>1 DEF WInv, WTypeOK, RxNeverOvercounts
<1> HIDE DEF e
<1>4. [e EXCEPT !.pid = pid, !.tuple = read_tuple(sk)] \in Flow
  BY <1>2, <1>3 DEF Flow
<1>5. [e EXCEPT !.pid = pid, !.tuple = read_tuple(sk)].rx = e.rx
  BY <1>3 DEF Flow
<1> QED
  BY <1>3, <1>4, <1>5 DEF flow_get, e

(* capture_wire keeps the entry well formed and leaves its counters alone. *)
LEMMA CaptureWire ==
  ASSUME WTypeOK, NEW f \in Flow, NEW sk \in Socks, NEW b, NEW n, NEW dir \in Dirs,
         capture_wire(f, sk, b, n, dir)
  PROVE  /\ flows' \in [Socks -> Flow \cup {None}]
         /\ flows'[sk] \in Flow /\ flows'[sk].rx = f.rx /\ flows'[sk].closed = f.closed
         /\ \A s \in Socks \ {sk} : flows'[s] = flows[s]
         /\ armed' \subseteq Socks \X Nat \X Dirs
<1> DEFINE g == [f EXCEPT !.is_tls = @ \/ (f.wire[dir] = 0 /\ Passes(f, b, n, dir)),
                          !.wire[dir] = IF Submits(f, b, n, dir) THEN @ + 1 ELSE @]
<1>1. flows' = [flows EXCEPT ![sk] = g]
  BY DEF capture_wire
<1>2. f.wire[dir] + 1 \in Nat
  BY DEF Flow
<1>3. g \in Flow
  BY <1>2 DEF Flow
<1>4. g.rx = f.rx /\ g.closed = f.closed
  BY DEF Flow
<1> HIDE DEF g
<1>5. armed' \subseteq Socks \X Nat \X Dirs
  BY DEF capture_wire, WTypeOK, Sock
<1> QED
  BY <1>1, <1>3, <1>4, <1>5 DEF WTypeOK
-----------------------------------------------------------------------------
(* One lemma per action: each step of the host and of user space keeps the *)
(* inductive invariant.                                                    *)

(* k_tcp_sendmsg counts tx and captures; it touches no stash and no rx.    *)
LEMMA SendStep ==
  ASSUME WInv, NEW t \in Threads, NEW sk \in Socks, NEW b, NEW n \in Sizes,
         k_tcp_sendmsg(t, sk, b, n)
  PROVE  WInv'
<1> DEFINE f == flow_get(sk, PidOf[t])
           g == [f EXCEPT !.tx = @ + n]
<1>1. n \in Nat /\ PidOf[t] \in Pids /\ sock[sk].fd # None
  BY WireAssumption DEF k_tcp_sendmsg, HoldsFd
<1>2. f # None => f \in Flow /\ f.rx <= rcvd[sk]
  BY <1>1, FlowGet
<1>3. \/ UNCHANGED <<flows, armed>>
      \/ f # None /\ capture_wire(g, sk, b, n, DIR_OUT)
  BY DEF k_tcp_sendmsg
<1> HIDE DEF f
<1>4. f # None => g \in Flow /\ g.rx = f.rx
  BY <1>1, <1>2 DEF Flow
<1> HIDE DEF g
<1>5. /\ flows' \in [Socks -> Flow \cup {None}]
      /\ \A s \in Socks : flows'[s] # None => flows'[s].rx <= rcvd[s]
      /\ armed' \subseteq Socks \X Nat \X Dirs
  <2>1. CASE UNCHANGED <<flows, armed>>
    BY <2>1 DEF WInv, WTypeOK, RxNeverOvercounts
  <2>2. CASE f # None /\ capture_wire(g, sk, b, n, DIR_OUT)
    <3>1. DIR_OUT \in Dirs
      BY DEF Dirs
    <3>2. /\ flows' \in [Socks -> Flow \cup {None}] /\ flows'[sk].rx = g.rx
          /\ \A s \in Socks \ {sk} : flows'[s] = flows[s]
          /\ armed' \subseteq Socks \X Nat \X Dirs
      BY <2>2, <3>1, <1>4, CaptureWire DEF WInv
    <3> QED
      BY <3>2, <2>2, <1>2, <1>4 DEF WInv, RxNeverOvercounts
  <2> QED
    BY <1>3, <2>1, <2>2
<1>6. /\ io' \in Nat
      /\ UNCHANGED <<recv_ctxs, sock, call, rcvd>>
  BY <1>1 DEF k_tcp_sendmsg, WInv, WTypeOK
<1> QED
  BY <1>5, <1>6 DEF WInv, WTypeOK, SockNamed, CallOpen, PairedReturn, RxNeverOvercounts, HoldsFd

(* k_tcp_recvmsg overwrites its thread's stash or, with the map full and no *)
(* entry of its own left over, leaves none.                                *)
LEMMA RecvEntryStep ==
  ASSUME WInv, NEW t \in Threads, NEW sk \in Socks, NEW base \in BOOLEAN,
         NEW hooked \in BOOLEAN, k_tcp_recvmsg(t, sk, base, hooked)
  PROVE  WInv'
<1>1. WTypeOK'
  BY DEF WInv, WTypeOK, k_tcp_recvmsg, RecvCtx
<1>2. SockNamed' /\ RxNeverOvercounts'
  BY DEF WInv, SockNamed, RxNeverOvercounts, k_tcp_recvmsg
<1>3. CallOpen'
  BY DEF WInv, WTypeOK, CallOpen, HoldsFd, k_tcp_recvmsg
<1>4. PairedReturn'
  BY DEF WInv, WTypeOK, PairedReturn, k_tcp_recvmsg
<1> QED
  BY <1>1, <1>2, <1>3, <1>4 DEF WInv

(* kr_tcp_recvmsg adds to rx what the call it is paired with returned.     *)
LEMMA RecvReturnStep ==
  ASSUME WInv, NEW t \in Threads, NEW ret \in Sizes \cup {0}, NEW b, kr_tcp_recvmsg(t, ret, b)
  PROVE  WInv'
<1> DEFINE sk == call[t].sk
           f == flow_get(sk, PidOf[t])
           g == [f EXCEPT !.rx = @ + ret]
<1>1. /\ ret \in Nat /\ PidOf[t] \in Pids /\ sk \in Socks /\ sock[sk].fd # None
      /\ rcvd[sk] \in Nat
  <2>1. call[t] # None
    BY DEF kr_tcp_recvmsg
  <2> QED
    BY <2>1, WireAssumption DEF WInv, WTypeOK, CallOpen, HoldsFd
<1>2. f # None => f \in Flow /\ f.rx <= rcvd[sk]
  BY <1>1, FlowGet
<1>3. recv_ctxs[t] # None => recv_ctxs[t].sk = sk
  BY DEF kr_tcp_recvmsg, WInv, PairedReturn
<1>4. \/ UNCHANGED <<flows, armed>>
      \/ f # None /\ capture_wire(g, sk, b, ret, DIR_IN)
  BY <1>3 DEF kr_tcp_recvmsg
<1>5. rcvd' = [rcvd EXCEPT ![sk] = @ + ret]
  BY DEF kr_tcp_recvmsg
<1> HIDE DEF f
<1>6. f # None => g \in Flow /\ g.rx <= rcvd[sk] + ret
  BY <1>1, <1>2 DEF Flow
<1> HIDE DEF g, sk
<1>7. /\ rcvd' \in [Socks -> Nat] /\ rcvd'[sk] = rcvd[sk] + ret
      /\ \A s \in Socks \ {sk} : rcvd'[s] = rcvd[s]
  BY <1>1, <1>5 DEF WInv, WTypeOK
<1>8. /\ flows' \in [Socks -> Flow \cup {None}]
      /\ \A s \in Socks : flows'[s] # None => flows'[s].rx <= rcvd'[s]
      /\ armed' \subseteq Socks \X Nat \X Dirs
  <2>1. CASE UNCHANGED <<flows, armed>>
    <3>1. \A s \in Socks : flows[s] # None => flows[s] \in Flow /\ flows[s].rx <= rcvd[s]
      BY DEF WInv, WTypeOK, RxNeverOvercounts
    <3>2. \A s \in Socks : flows[s] # None => flows[s].rx \in Nat /\ flows[s].rx <= rcvd[s]
      BY <3>1 DEF Flow
    <3>3. \A s \in Socks : rcvd[s] \in Nat /\ rcvd[s] <= rcvd'[s] /\ rcvd'[s] \in Nat
      BY <1>1, <1>7 DEF WInv, WTypeOK
    <3> QED
      BY <2>1, <3>2, <3>3 DEF WInv, WTypeOK
  <2>2. CASE f # None /\ capture_wire(g, sk, b, ret, DIR_IN)
    <3>1. DIR_IN \in Dirs
      BY DEF Dirs
    <3>2. /\ flows' \in [Socks -> Flow \cup {None}] /\ flows'[sk].rx = g.rx
          /\ \A s \in Socks \ {sk} : flows'[s] = flows[s]
          /\ armed' \subseteq Socks \X Nat \X Dirs
      BY <2>2, <3>1, <1>1, <1>6, CaptureWire DEF WInv
    <3> QED
      BY <3>2, <2>2, <1>6, <1>7 DEF WInv, RxNeverOvercounts
  <2> QED
    BY <1>4, <2>1, <2>2
<1>9. WTypeOK'
  BY <1>7, <1>8 DEF WInv, WTypeOK, kr_tcp_recvmsg
<1>10. SockNamed' /\ CallOpen' /\ PairedReturn'
  BY DEF WInv, WTypeOK, SockNamed, CallOpen, PairedReturn, HoldsFd, kr_tcp_recvmsg
<1> QED
  BY <1>8, <1>9, <1>10 DEF WInv, RxNeverOvercounts

(* A return the kretprobe misses moves bytes and leaves rx behind.         *)
LEMMA UnseenReturnStep ==
  ASSUME WInv, NEW t \in Threads, NEW ret \in Sizes \cup {0}, UnseenReturn(t, ret)
  PROVE  WInv'
<1>1. ret \in Nat /\ call[t].sk \in Socks
  <2>1. call[t] # None
    BY DEF UnseenReturn
  <2> QED
    BY <2>1, WireAssumption DEF WInv, WTypeOK
<1>2. WTypeOK'
  BY <1>1 DEF WInv, WTypeOK, UnseenReturn
<1>3. \A s \in Socks : rcvd[s] <= rcvd'[s]
  BY <1>1 DEF WInv, WTypeOK, UnseenReturn
<1>4. \A s \in Socks : flows[s] # None => flows[s].rx \in Nat
  BY DEF WInv, WTypeOK, Flow
<1>5. RxNeverOvercounts'
  <2>1. UNCHANGED flows /\ \A s \in Socks : rcvd[s] \in Nat /\ rcvd'[s] \in Nat
    BY <1>2 DEF UnseenReturn, WInv, WTypeOK
  <2> QED
    BY <2>1, <1>3, <1>4 DEF WInv, RxNeverOvercounts
<1>6. SockNamed' /\ CallOpen' /\ PairedReturn'
  BY DEF WInv, WTypeOK, SockNamed, CallOpen, PairedReturn, HoldsFd, UnseenReturn
<1> QED
  BY <1>2, <1>5, <1>6 DEF WInv

(* The tracepoint keeps the entries well formed and their rx.              *)
LEMMA SetState ==
  ASSUME WInv, NEW sk \in Socks, NEW old, NEW new, tp_inet_sock_set_state(sk, old, new),
         UNCHANGED rcvd
  PROVE  flows' \in [Socks -> Flow \cup {None}] /\ RxNeverOvercounts'
<1>1. ZeroFlow \in Flow /\ ZeroFlow.rx = 0
  BY WireAssumption DEF ZeroFlow, Flow, Dirs, DIR_OUT, DIR_IN
<1> DEFINE e == IF flows[sk] = None THEN ZeroFlow ELSE flows[sk]
           d == IF old = "syn_recv" THEN DIR_IN ELSE DIR_OUT
<1>2. e \in Flow /\ e.rx <= rcvd[sk]
  BY <1>1 DEF WInv, WTypeOK, RxNeverOvercounts
<1>3. \/ flows' = [flows EXCEPT ![sk] = [e EXCEPT !.direction = d]]
      \/ flows[sk] # None /\ flows' = [flows EXCEPT ![sk] = [flows[sk] EXCEPT !.closed = TRUE]]
      \/ UNCHANGED flows
  BY DEF tp_inet_sock_set_state
<1>4. d \in Dirs
  BY DEF Dirs
<1> HIDE DEF e, d
<1>5. [e EXCEPT !.direction = d] \in Flow /\ [e EXCEPT !.direction = d].rx = e.rx
  BY <1>2, <1>4 DEF Flow
<1>6. flows[sk] # None => /\ [flows[sk] EXCEPT !.closed = TRUE] \in Flow
                          /\ [flows[sk] EXCEPT !.closed = TRUE].rx = flows[sk].rx
  BY DEF WInv, WTypeOK, Flow
<1> QED
  BY <1>2, <1>3, <1>5, <1>6 DEF WInv, WTypeOK, RxNeverOvercounts

(* A step of TCP or of close() that moves one socket on: the new socket is *)
(* well formed, and calls inside it keep their descriptor.                 *)
LEMMA SocketStep ==
  ASSUME WInv, NEW sk \in Socks, NEW r \in Sock,
         sock' = [sock EXCEPT ![sk] = r],
         Named(r),
         \A t \in Threads : call[t] # None /\ call[t].sk = sk
                               => r.fd # None /\ r.pid = PidOf[t],
         flows' \in [Socks -> Flow \cup {None}], RxNeverOvercounts',
         UNCHANGED <<recv_ctxs, call, rcvd, armed, io>>
  PROVE  WInv'
<1>1. WTypeOK'
  BY DEF WInv, WTypeOK
<1>2. SockNamed' /\ CallOpen'
  BY DEF WInv, WTypeOK, SockNamed, CallOpen, HoldsFd
<1>3. PairedReturn'
  BY DEF WInv, PairedReturn
<1> QED
  BY <1>1, <1>2, <1>3 DEF WInv

(* connect() gives a free address a descriptor and a remote endpoint.      *)
LEMMA ConnectStep ==
  ASSUME WInv, NEW t \in Threads, NEW sk \in Socks, NEW fd \in Fds, NEW remote \in Remotes,
         Connect(t, sk, fd, remote)
  PROVE  WInv'
<1> DEFINE r == [state |-> "syn_sent", life |-> sock[sk].life + 1, pid |-> PidOf[t],
                 fd |-> fd, remote |-> remote]
<1>1. sock[sk].fd = None
  BY DEF Connect, WInv, SockNamed, Named
<1>2. r \in Sock /\ Named(r)
  BY WireAssumption DEF WInv, WTypeOK, Sock, SockState, Named
<1>3. sock' = [sock EXCEPT ![sk] = r] /\ UNCHANGED <<flows, recv_ctxs, call, rcvd, armed, io>>
  BY DEF Connect
<1>4. \A u \in Threads : ~(call[u] # None /\ call[u].sk = sk)
  BY <1>1 DEF WInv, CallOpen, HoldsFd
<1> HIDE DEF r
<1>5. flows' \in [Socks -> Flow \cup {None}] /\ RxNeverOvercounts'
  BY <1>3 DEF WInv, WTypeOK, RxNeverOvercounts
<1> QED
  BY <1>2, <1>3, <1>4, <1>5, SocketStep

(* An incoming connection gives a free address a remote endpoint.          *)
LEMMA IncomingStep ==
  ASSUME WInv, NEW sk \in Socks, NEW remote \in Remotes, Incoming(sk, remote)
  PROVE  WInv'
<1> DEFINE r == [state |-> "syn_recv", life |-> sock[sk].life + 1, pid |-> None,
                 fd |-> None, remote |-> remote]
<1>1. sock[sk].fd = None
  BY DEF Incoming, WInv, SockNamed, Named
<1>2. r \in Sock /\ Named(r)
  BY WireAssumption DEF WInv, WTypeOK, Sock, SockState, Named
<1>3. sock' = [sock EXCEPT ![sk] = r] /\ UNCHANGED <<flows, recv_ctxs, call, rcvd, armed, io>>
  BY DEF Incoming
<1>4. \A u \in Threads : ~(call[u] # None /\ call[u].sk = sk)
  BY <1>1 DEF WInv, CallOpen, HoldsFd
<1> HIDE DEF r
<1>5. flows' \in [Socks -> Flow \cup {None}] /\ RxNeverOvercounts'
  BY <1>3 DEF WInv, WTypeOK, RxNeverOvercounts
<1> QED
  BY <1>2, <1>3, <1>4, <1>5, SocketStep

(* accept() gives the descriptor to a process, with no call inside yet.    *)
LEMMA AcceptStep ==
  ASSUME WInv, NEW t \in Threads, NEW sk \in Socks, NEW fd \in Fds, Accept(t, sk, fd)
  PROVE  WInv'
<1> DEFINE r == [sock[sk] EXCEPT !.pid = PidOf[t], !.fd = fd]
<1>1. r \in Sock /\ r.state = sock[sk].state /\ r.remote = sock[sk].remote
  <2>1. sock[sk] \in Sock /\ PidOf[t] \in Pids
    BY WireAssumption DEF WInv, WTypeOK
  <2> QED
    BY <2>1 DEF Sock
<1>2. Named(r)
  BY <1>1 DEF Accept, WInv, SockNamed, Named
<1>3. sock' = [sock EXCEPT ![sk] = r]
  BY DEF Accept, WInv, WTypeOK, Sock
<1>4. \A u \in Threads : ~(call[u] # None /\ call[u].sk = sk)
  BY WireAssumption DEF Accept, WInv, CallOpen, HoldsFd
<1> HIDE DEF r
<1>5. /\ flows' \in [Socks -> Flow \cup {None}] /\ RxNeverOvercounts'
      /\ UNCHANGED <<recv_ctxs, call, rcvd, armed, io>>
  BY DEF Accept, WInv, WTypeOK, RxNeverOvercounts
<1> QED
  BY <1>1, <1>2, <1>3, <1>4, <1>5, SocketStep

(* The steps that keep the socket's holder and only move its state on.     *)
LEMMA StateStep ==
  ASSUME WInv, NEW sk \in Socks, NEW state \in SockState \ {"free"},
         sock[sk].state # "free", sock' = [sock EXCEPT ![sk].state = state],
         flows' \in [Socks -> Flow \cup {None}], RxNeverOvercounts',
         UNCHANGED <<recv_ctxs, call, rcvd, armed, io>>
  PROVE  WInv'
<1> DEFINE r == [sock[sk] EXCEPT !.state = state]
<1>1. /\ r \in Sock /\ r.fd = sock[sk].fd /\ r.pid = sock[sk].pid
      /\ r.remote = sock[sk].remote /\ r.state = state
  BY DEF WInv, WTypeOK, Sock
<1>2. sock' = [sock EXCEPT ![sk] = r]
  OBVIOUS
<1> HIDE DEF r
<1>3. Named(r)
  BY <1>1, sock[sk].state # "free" DEF WInv, SockNamed, Named
<1>4. \A t \in Threads : call[t] # None /\ call[t].sk = sk => r.fd # None /\ r.pid = PidOf[t]
  BY <1>1 DEF WInv, CallOpen, HoldsFd
<1> QED
  BY <1>1, <1>2, <1>3, <1>4, SocketStep

(* The tracepoint at ESTABLISHED sets the direction alone.                 *)
LEMMA EstablishStep ==
  ASSUME WInv, NEW sk \in Socks, Establish(sk)
  PROVE  WInv'
<1>1. flows' \in [Socks -> Flow \cup {None}] /\ RxNeverOvercounts'
  BY SetState DEF Establish
<1> QED
  BY <1>1, StateStep DEF Establish, SockState

(* The tracepoint at CLOSE_WAIT sets closed alone.                         *)
LEMMA PeerFinStep ==
  ASSUME WInv, NEW sk \in Socks, PeerFin(sk)
  PROVE  WInv'
<1>1. flows' \in [Socks -> Flow \cup {None}] /\ RxNeverOvercounts'
  BY SetState DEF PeerFin
<1> QED
  BY <1>1, StateStep DEF PeerFin, SockState

(* The tracepoint at CLOSE sets closed; a socket nobody holds is freed.    *)
LEMMA DoneStep ==
  ASSUME WInv, NEW sk \in Socks, Done(sk)
  PROVE  WInv'
<1>1. flows' \in [Socks -> Flow \cup {None}] /\ RxNeverOvercounts'
  BY SetState DEF Done
<1>2. UNCHANGED <<recv_ctxs, call, rcvd, armed, io>>
  BY DEF Done
<1>3. CASE sock[sk].fd = None
  <2>1. NoConnection(sk) \in Sock /\ Named(NoConnection(sk))
    BY DEF NoConnection, Named, Sock, SockState, WInv, WTypeOK
  <2>2. sock' = [sock EXCEPT ![sk] = NoConnection(sk)]
    BY <1>3 DEF Done
  <2>3. \A u \in Threads : ~(call[u] # None /\ call[u].sk = sk)
    BY <1>3 DEF WInv, CallOpen, HoldsFd
  <2> QED
    BY <1>1, <1>2, <2>1, <2>2, <2>3, SocketStep
<1>4. CASE sock[sk].fd # None
  <2>1. \E st \in {"closed", "refused"} : sock' = [sock EXCEPT ![sk].state = st]
    BY <1>4 DEF Done
  <2> QED
    BY <1>1, <1>2, <2>1, StateStep DEF SockState, Done
<1> QED
  BY <1>3, <1>4

(* close() waits for the calls inside the socket.                          *)
LEMMA CloseFdStep ==
  ASSUME WInv, NEW t \in Threads, NEW sk \in Socks, CloseFd(t, sk)
  PROVE  WInv'
<1> DEFINE r == IF sock[sk].state \in {"closed", "refused"} THEN NoConnection(sk)
                ELSE [sock[sk] EXCEPT !.fd = None, !.state = "closing"]
<1>1. r \in Sock /\ Named(r)
  <2>1. sock[sk] \in Sock /\ sock[sk].remote # None
    BY DEF CloseFd, HoldsFd, WInv, WTypeOK, SockNamed, Named
  <2>2. NoConnection(sk) \in Sock /\ Named(NoConnection(sk))
    BY <2>1 DEF NoConnection, Named, Sock, SockState
  <2>3. /\ [sock[sk] EXCEPT !.fd = None, !.state = "closing"] \in Sock
        /\ Named([sock[sk] EXCEPT !.fd = None, !.state = "closing"])
    BY <2>1 DEF Named, Sock, SockState
  <2> QED
    BY <2>2, <2>3
<1>2. sock' = [sock EXCEPT ![sk] = r]
  BY DEF CloseFd
<1> HIDE DEF r
<1>3. \A u \in Threads : ~(call[u] # None /\ call[u].sk = sk)
  BY DEF CloseFd
<1>4. /\ flows' \in [Socks -> Flow \cup {None}] /\ RxNeverOvercounts'
      /\ UNCHANGED <<recv_ctxs, call, rcvd, armed, io>>
  BY DEF CloseFd, WInv, WTypeOK, RxNeverOvercounts
<1> QED
  BY <1>1, <1>2, <1>3, <1>4, SocketStep

(* Deleting a closed entry leaves nothing that could overcount.            *)
LEMMA ReclaimStep ==
  ASSUME WInv, Reclaim
  PROVE  WInv'
<1>1. PICK sk \in Socks : DeleteFlow(sk)
  BY DEF Reclaim
<1>2. WTypeOK' /\ RxNeverOvercounts'
  BY <1>1 DEF DeleteFlow, WInv, WTypeOK, RxNeverOvercounts
<1> QED
  BY <1>1, <1>2 DEF DeleteFlow, WInv, SockNamed, CallOpen, PairedReturn, HoldsFd
-----------------------------------------------------------------------------
(* The maps start empty.                                                   *)
LEMMA WInitInv == WInit => WInv
<1> SUFFICES ASSUME WInit PROVE WInv
  OBVIOUS
<1>1. sock \in [Socks -> Sock] /\ SockNamed
  BY WireAssumption DEF WInit, Preestablished, Sock, SockState, SockNamed, Named
<1>2. WTypeOK
  <2>1. \A s \in Socks : [sk |-> s, hooked |-> FALSE] \in [sk : Socks, hooked : BOOLEAN]
    OBVIOUS
  <2>2. {None} \cup {[sk |-> s, hooked |-> FALSE] : s \in Socks}
          \subseteq [sk : Socks, hooked : BOOLEAN] \cup {None}
    BY <2>1
  <2>3. call \in [Threads -> {None} \cup {[sk |-> s, hooked |-> FALSE] : s \in Socks}]
    BY DEF WInit
  <2>4. call \in [Threads -> [sk : Socks, hooked : BOOLEAN] \cup {None}]
    BY <2>2, <2>3, Zenon
  <2> QED
    BY <1>1, <2>4 DEF WInit, WTypeOK
<1>3. CallOpen /\ PairedReturn /\ RxNeverOvercounts
  BY DEF WInit, CallOpen, PairedReturn, RxNeverOvercounts
<1> QED
  BY <1>1, <1>2, <1>3 DEF WInv

(* WInv is inductive.                                                      *)
LEMMA WNextInv == WInv /\ [WNext \/ Consume]_<<wvars, events>> => WInv'
<1> SUFFICES ASSUME WInv, [WNext \/ Consume]_<<wvars, events>> PROVE WInv'
  OBVIOUS
<1>1. CASE UNCHANGED wvars
  BY <1>1 DEF wvars, WInv, WTypeOK, SockNamed, CallOpen, PairedReturn, RxNeverOvercounts, HoldsFd
<1>2. CASE Consume
  BY <1>1, <1>2 DEF Consume
<1>3. CASE Reclaim
  BY <1>3, ReclaimStep
<1>4. CASE Calls
  <2>1. ASSUME NEW t \in Threads, NEW sk \in Socks, NEW b \in UserBufs, NEW n \in Sizes,
               k_tcp_sendmsg(t, sk, b, n)
        PROVE  WInv'
    BY <2>1, SendStep, WireAssumption
  <2>2. ASSUME NEW t \in Threads, NEW ret \in Sizes \cup {0}, NEW b \in UserBufs,
               kr_tcp_recvmsg(t, ret, b)
        PROVE  WInv'
    BY <2>2, RecvReturnStep
  <2> QED
    BY <1>4, <2>1, <2>2, RecvEntryStep, UnseenReturnStep DEF Calls
<1>5. CASE Tcp
  BY <1>5, AcceptStep, ConnectStep, CloseFdStep, IncomingStep, EstablishStep, PeerFinStep,
     DoneStep DEF Tcp
<1> QED
  BY <1>1, <1>2, <1>3, <1>4, <1>5 DEF WNext, Traffic

(* Every map entry the probes write is well formed, whatever the calls and *)
(* the sizes of the maps.                                                  *)
THEOREM TypeCorrect == WSpec => []WTypeOK
<1>1. WInv => WTypeOK
  BY DEF WInv
<1> QED
  BY WInitInv, WNextInv, <1>1, PTL DEF WSpec

(* kr_tcp_recvmsg never uses what another call stashed.                    *)
THEOREM ReturnsPaired == WSpec => []PairedReturn
<1>1. WInv => PairedReturn
  BY DEF WInv
<1> QED
  BY WInitInv, WNextInv, <1>1, PTL DEF WSpec

(* The rx counter never exceeds what tcp_recvmsg returned on the socket.   *)
THEOREM RxSound == WSpec => []RxNeverOvercounts
<1>1. WInv => RxNeverOvercounts
  BY DEF WInv
<1> QED
  BY WInitInv, WNextInv, <1>1, PTL DEF WSpec
-----------------------------------------------------------------------------
(* closed is never set back on an entry that stays.                        *)
StaysClosed == \A sk \in Socks : flows[sk] # None /\ flows[sk].closed =>
                                 flows'[sk] = None \/ flows'[sk].closed

(* A send or a receive: flow_get and capture_wire leave closed alone.      *)
LEMMA CaptureClosed ==
  ASSUME WInv, NEW sk \in Socks, NEW pid \in Pids,
         NEW g \in Flow, NEW b, NEW n, NEW dir \in Dirs,
         g.closed = flow_get(sk, pid).closed, capture_wire(g, sk, b, n, dir)
  PROVE  StaysClosed
<1>1. /\ flows'[sk].closed = g.closed
      /\ \A s \in Socks \ {sk} : flows'[s] = flows[s]
  BY CaptureWire DEF WInv
<1>2. flows[sk] # None => flow_get(sk, pid).closed = flows[sk].closed
  BY DEF flow_get, WInv, WTypeOK, Flow
<1> QED
  BY <1>1, <1>2 DEF StaysClosed

(* A step that leaves the entries it does not delete alone.                *)
LEMMA QuietClosed ==
  ASSUME \A sk \in Socks : flows'[sk] = flows[sk] \/ flows'[sk] = None
  PROVE  StaysClosed
BY DEF StaysClosed

(* The tracepoint changes the direction, or sets closed.                   *)
LEMMA SetStateClosed ==
  ASSUME WInv, NEW sk \in Socks, NEW old, NEW new, tp_inet_sock_set_state(sk, old, new)
  PROVE  StaysClosed
<1> DEFINE d == IF old = "syn_recv" THEN DIR_IN ELSE DIR_OUT
<1>1. \A s \in Socks \ {sk} : flows'[s] = flows[s]
  BY DEF tp_inet_sock_set_state, WInv, WTypeOK
<1>2. \A s \in Socks : flows[s] # None => flows[s] \in Flow
  BY DEF WInv, WTypeOK
<1>3. flows[sk] # None => \/ flows'[sk] = [flows[sk] EXCEPT !.direction = d]
                         \/ flows'[sk] = [flows[sk] EXCEPT !.closed = TRUE]
                         \/ flows'[sk] = flows[sk]
  BY DEF tp_inet_sock_set_state, WInv, WTypeOK
<1> HIDE DEF d
<1>4. flows[sk] # None /\ flows[sk].closed => flows'[sk].closed
  BY <1>2, <1>3 DEF Flow
<1> QED
  BY <1>1, <1>4 DEF StaysClosed

(* No step of the host or of the poller sets closed back.                  *)
LEMMA NextClosed == WInv /\ [WNext \/ Consume]_<<wvars, events>> => StaysClosed
<1> SUFFICES ASSUME WInv, [WNext \/ Consume]_<<wvars, events>> PROVE StaysClosed
  OBVIOUS
<1>1. CASE UNCHANGED flows
  BY <1>1, QuietClosed
<1>2. ASSUME NEW t \in Threads, NEW sk \in Socks, NEW b \in UserBufs, NEW n \in Sizes,
             k_tcp_sendmsg(t, sk, b, n)
      PROVE  StaysClosed
  <2> DEFINE f == flow_get(sk, PidOf[t])
             g == [f EXCEPT !.tx = @ + n]
  <2>1. n \in Nat /\ PidOf[t] \in Pids /\ sock[sk].fd # None /\ DIR_OUT \in Dirs
    BY <1>2, WireAssumption DEF k_tcp_sendmsg, HoldsFd, Dirs
  <2>2. UNCHANGED flows \/ (f # None /\ capture_wire(g, sk, b, n, DIR_OUT))
    BY <1>2 DEF k_tcp_sendmsg
  <2>3. f # None => f \in Flow
    BY <2>1, FlowGet
  <2>4. f # None => g \in Flow /\ g.closed = f.closed
    <3> HIDE DEF f
    <3> QED
      BY <2>1, <2>3 DEF Flow
  <2> HIDE DEF g
  <2> QED
    BY <2>1, <2>2, <2>4, <1>1, CaptureClosed
<1>3. ASSUME NEW t \in Threads, NEW ret \in Sizes \cup {0}, NEW b \in UserBufs,
             kr_tcp_recvmsg(t, ret, b)
      PROVE  StaysClosed
  <2> DEFINE sk == recv_ctxs[t].sk
             f == flow_get(sk, PidOf[t])
             g == [f EXCEPT !.rx = @ + ret]
  <2>1. CASE UNCHANGED flows
    BY <2>1, <1>1
  <2>2. CASE recv_ctxs[t] # None /\ f # None /\ capture_wire(g, sk, b, ret, DIR_IN)
    <3>1. ret \in Nat /\ PidOf[t] \in Pids /\ DIR_IN \in Dirs
      BY WireAssumption DEF Dirs
    <3>2. sk \in Socks /\ sk = call[t].sk
      BY <1>3, <2>2 DEF kr_tcp_recvmsg, WInv, WTypeOK, PairedReturn, RecvCtx
    <3>3. sock[sk].fd # None
      BY <1>3, <3>2 DEF kr_tcp_recvmsg, WInv, CallOpen, HoldsFd
    <3> HIDE DEF sk
    <3>4. f \in Flow
      BY <2>2, <3>1, <3>2, <3>3, FlowGet
    <3>5. g \in Flow /\ g.closed = f.closed
      <4> HIDE DEF f
      <4> QED
        BY <3>1, <3>4 DEF Flow
    <3> HIDE DEF g
    <3> QED
      BY <2>2, <3>1, <3>2, <3>5, CaptureClosed
  <2> QED
    BY <1>3, <2>1, <2>2 DEF kr_tcp_recvmsg
<1>4. CASE Calls
  BY <1>4, <1>1, <1>2, <1>3 DEF Calls, k_tcp_recvmsg, UnseenReturn
<1>5. CASE Tcp
  BY <1>5, <1>1, SetStateClosed
     DEF Tcp, Accept, Connect, Incoming, Establish, PeerFin, CloseFd, Done
<1>6. CASE Reclaim
  BY <1>6, QuietClosed DEF Reclaim, DeleteFlow, WInv, WTypeOK
<1> QED
  BY <1>1, <1>4, <1>5, <1>6 DEF WNext, Traffic, Consume, wvars
-----------------------------------------------------------------------------
(* What is captured.  An address is reused while its entry, with the       *)
(* capture counters of the connection before, is still there: what a later *)
(* connection sends is then captured unexamined.  That is as far as it     *)
(* goes.                                                                   *)

(* The wire events the probes submit.                                      *)
WireEvent == [type : {"wire"}, sk : Socks, direction : Dirs, len : 1..(WireCap - 1),
              kind : Kinds, life : Nat, k : 0..(MaxWireEvents - 1)]

(* A counter that has been advanced vouches for such a connection, and so  *)
(* does a queued event.                                                    *)
SlurpInv ==
  /\ events \in Seq(WireEvent)
  /\ \A sk \in Socks : sock[sk].state # "free" => sock[sk].life >= 1
  /\ \A sk \in Socks, d \in Dirs : flows[sk] # None /\ flows[sk].wire[d] # 0 =>
       TlsBy(armed, sk, sock[sk].life, d)
  /\ \A i \in DOMAIN events : TlsBy(armed, events[i].sk, events[i].life, events[i].direction)
  /\ \A i \in DOMAIN events : events[i].life <= sock[events[i].sk].life

(* capture_wire submits at most one event, well formed and of this         *)
(* connection; it leaves the counter of the direction at 0 unless it       *)
(* submits, and the first submission needs a TLS record.                   *)
LEMMA CaptureEvents ==
  ASSUME WTypeOK, NEW f \in Flow, NEW sk \in Socks, NEW b, NEW n \in Nat, NEW dir \in Dirs,
         capture_wire(f, sk, b, n, dir)
  PROVE  \/ UNCHANGED <<events, armed>> /\ flows'[sk].wire = f.wire
         \/ /\ wire_event(f, sk, b, n, dir) \in WireEvent
            /\ events' = Append(events, wire_event(f, sk, b, n, dir))
            /\ armed' = IF f.wire[dir] = 0 THEN armed \cup {<<sk, sock[sk].life, dir>>} ELSE armed
            /\ flows'[sk].wire[dir] = f.wire[dir] + 1
            /\ \A d \in Dirs \ {dir} : flows'[sk].wire[d] = f.wire[d]
<1> DEFINE g == [f EXCEPT !.is_tls = @ \/ (f.wire[dir] = 0 /\ Passes(f, b, n, dir)),
                          !.wire[dir] = IF Submits(f, b, n, dir) THEN @ + 1 ELSE @]
<1>1. flows'[sk] = g
  BY DEF capture_wire, WTypeOK
<1>2. CASE ~Submits(f, b, n, dir)
  <2>1. g.wire = f.wire
    BY <1>2 DEF Flow
  <2> QED
    BY <1>1, <1>2, <2>1 DEF capture_wire
<1>3. CASE Submits(f, b, n, dir)
  <2>1. n \in Nat \ {0} /\ b \in Kinds /\ f.wire[dir] \in 0..(MaxWireEvents - 1)
        /\ (f.wire[dir] = 0 => looks_like_tls(b))
    BY <1>3, WireAssumption DEF Submits, Passes, Flow
  <2>2. Capped(n, WireCap) \in 1..(WireCap - 1) /\ sock[sk].life \in Nat
    BY <2>1, CappedRange, WireAssumption DEF WTypeOK, Sock
  <2>3. wire_event(f, sk, b, n, dir) \in WireEvent
    BY <2>1, <2>2 DEF wire_event, WireEvent
  <2>4. g.wire[dir] = f.wire[dir] + 1 /\ \A d \in Dirs \ {dir} : g.wire[d] = f.wire[d]
    BY <1>3 DEF Flow
  <2> QED
    BY <1>1, <1>3, <2>1, <2>3, <2>4 DEF capture_wire, bpf_ringbuf_submit
<1> QED
  BY <1>2, <1>3

(* A step that captures nothing: connections come and go, entries are made *)
(* afresh, keep their counters or go, and the reader takes an event.       *)
LEMMA QuietSlurp ==
  ASSUME WInv, SlurpInv, UNCHANGED armed,
         \A s \in Socks : /\ sock'[s].life \in Nat /\ sock'[s].life >= sock[s].life
                          /\ sock'[s].state # "free" => sock'[s].life >= 1,
         \A s \in Socks, d \in Dirs : flows'[s] # None /\ flows'[s].wire[d] # 0 =>
           flows[s] # None /\ flows[s].wire[d] # 0,
         UNCHANGED events \/ (events # <<>> /\ events' = Tail(events))
  PROVE  SlurpInv'
<1>1. \A s \in Socks : sock[s].life \in Nat
  BY DEF WInv, WTypeOK, Sock
<1>2. \A s \in Socks, d \in Dirs : TlsBy(armed, s, sock[s].life, d) => TlsBy(armed', s, sock'[s].life, d)
  BY <1>1 DEF TlsBy
<1>3. \A s \in Socks, d \in Dirs : flows'[s] # None /\ flows'[s].wire[d] # 0 =>
        TlsBy(armed', s, sock'[s].life, d)
  BY <1>2 DEF SlurpInv
<1>4. events' \in Seq(WireEvent) /\ \A i \in DOMAIN events' : \E j \in DOMAIN events : events'[i] = events[j]
  <2>1. CASE UNCHANGED events
    BY <2>1 DEF SlurpInv
  <2>2. CASE events # <<>> /\ events' = Tail(events)
    <3>1. events \in Seq(WireEvent)
      BY DEF SlurpInv
    <3> QED
      BY <2>2, <3>1
  <2> QED
    BY <2>1, <2>2
<1>5. \A j \in DOMAIN events : events[j] \in WireEvent
  BY DEF SlurpInv
<1>6. \A i \in DOMAIN events' : events'[i].life <= sock'[events'[i].sk].life
  <2> TAKE i \in DOMAIN events'
  <2>1. PICK j \in DOMAIN events : events'[i] = events[j]
    BY <1>4
  <2>2. events[j].sk \in Socks /\ events[j].life \in Nat /\ events[j].life <= sock[events[j].sk].life
    BY <1>5 DEF WireEvent, SlurpInv
  <2> QED
    BY <1>1, <2>1, <2>2
<1>7. \A i \in DOMAIN events' : TlsBy(armed', events'[i].sk, events'[i].life, events'[i].direction)
  BY <1>4 DEF SlurpInv, TlsBy
<1> QED
  BY <1>3, <1>4, <1>6, <1>7 DEF SlurpInv

(* A capture: the entry's counter tells whether it is the first.           *)
LEMMA CaptureSlurp ==
  ASSUME WInv, SlurpInv, NEW sk \in Socks, NEW pid \in Pids, sock[sk].fd # None,
         flow_get(sk, pid) # None, NEW g \in Flow, g.wire = flow_get(sk, pid).wire,
         NEW b, NEW n \in Nat, NEW dir \in Dirs,
         capture_wire(g, sk, b, n, dir), UNCHANGED sock
  PROVE  SlurpInv'
<1> DEFINE e == wire_event(g, sk, b, n, dir)
           life == sock[sk].life
<1>1. life \in Nat /\ life >= 1
  BY DEF WInv, WTypeOK, Sock, SockNamed, Named, SlurpInv
<1>2. \A d \in Dirs : g.wire[d] # 0 => TlsBy(armed, sk, life, d)
  <2>1. \A d \in Dirs : g.wire[d] # 0 => flows[sk] # None /\ g.wire[d] = flows[sk].wire[d]
    BY DEF flow_get, ZeroFlow, WInv, WTypeOK, Flow
  <2> QED
    BY <2>1 DEF SlurpInv
<1>3. \A s \in Socks \ {sk} : flows'[s] = flows[s]
  BY CaptureWire DEF WInv
<1>4. armed \subseteq armed'
  BY DEF capture_wire
<1>5. \A s, l, d : TlsBy(armed, s, l, d) => TlsBy(armed', s, l, d)
  BY <1>4 DEF TlsBy
<1>6. CASE UNCHANGED <<events, armed>> /\ flows'[sk].wire = g.wire
  BY <1>2, <1>3, <1>5, <1>6 DEF SlurpInv, TlsBy
<1>7. CASE /\ e \in WireEvent
           /\ events' = Append(events, e)
           /\ armed' = IF g.wire[dir] = 0 THEN armed \cup {<<sk, life, dir>>} ELSE armed
           /\ \A d \in Dirs \ {dir} : flows'[sk].wire[d] = g.wire[d]
  <2>1. e.sk = sk /\ e.life = life /\ e.direction = dir
    BY DEF wire_event
  <2> HIDE DEF e, life
  <2>2. TlsBy(armed', sk, life, dir)
    <3>1. CASE g.wire[dir] = 0
      BY <1>1, <1>7, <3>1 DEF TlsBy
    <3>2. CASE g.wire[dir] # 0
      BY <1>1, <1>2, <1>5, <1>7, <3>2
    <3> QED
      BY <3>1, <3>2
  <2>3. \A s \in Socks, d \in Dirs : flows'[s] # None /\ flows'[s].wire[d] # 0 =>
          TlsBy(armed', s, sock'[s].life, d)
    BY <1>2, <1>3, <1>5, <1>7, <2>2 DEF SlurpInv, life, TlsBy
  <2>4. /\ events' \in Seq(WireEvent)
        /\ \A i \in DOMAIN events' :
             (i \in DOMAIN events /\ events'[i] = events[i]) \/ events'[i] = e
    BY <1>7 DEF SlurpInv
  <2>5. \A i \in DOMAIN events' :
          /\ TlsBy(armed', events'[i].sk, events'[i].life, events'[i].direction)
          /\ events'[i].life <= sock'[events'[i].sk].life
    <3> TAKE i \in DOMAIN events'
    <3>1. CASE i \in DOMAIN events /\ events'[i] = events[i]
      BY <1>5, <3>1 DEF SlurpInv
    <3>2. CASE events'[i] = e
      BY <1>1, <2>1, <2>2, <3>2 DEF life
    <3> QED
      BY <2>4, <3>1, <3>2
  <2> QED
    BY <2>3, <2>4, <2>5 DEF SlurpInv
<1> QED
  <2>1. \/ UNCHANGED <<events, armed>> /\ flows'[sk].wire = g.wire
        \/ /\ e \in WireEvent
           /\ events' = Append(events, e)
           /\ armed' = IF g.wire[dir] = 0 THEN armed \cup {<<sk, life, dir>>} ELSE armed
           /\ flows'[sk].wire[dir] = g.wire[dir] + 1
           /\ \A d \in Dirs \ {dir} : flows'[sk].wire[d] = g.wire[d]
    BY CaptureEvents DEF WInv
  <2> HIDE DEF e, life
  <2> QED
    BY <1>6, <1>7, <2>1

(* A tracepoint makes an entry without captures, or keeps the captures.    *)
LEMMA SetStateWire ==
  ASSUME WInv, NEW sk \in Socks, NEW old, NEW new, tp_inet_sock_set_state(sk, old, new)
  PROVE  \A s \in Socks, d \in Dirs : flows'[s] # None /\ flows'[s].wire[d] # 0 =>
           flows[s] # None /\ flows[s].wire[d] # 0
<1> DEFINE D == IF old = "syn_recv" THEN DIR_IN ELSE DIR_OUT
<1>1. \/ flows[sk] # None /\ flows' = [flows EXCEPT ![sk] = [flows[sk] EXCEPT !.direction = D]]
      \/ flows[sk] = None /\ flows' = [flows EXCEPT ![sk] = [ZeroFlow EXCEPT !.direction = D]]
      \/ flows[sk] # None /\ flows' = [flows EXCEPT ![sk] = [flows[sk] EXCEPT !.closed = TRUE]]
      \/ UNCHANGED flows
  BY DEF tp_inet_sock_set_state
<1> HIDE DEF D
<1>2. \A d \in Dirs : [ZeroFlow EXCEPT !.direction = D].wire[d] = 0
  BY DEF ZeroFlow
<1>3. flows[sk] # None => /\ [flows[sk] EXCEPT !.direction = D].wire = flows[sk].wire
                          /\ [flows[sk] EXCEPT !.closed = TRUE].wire = flows[sk].wire
  BY DEF WInv, WTypeOK, Flow
<1> QED
  BY <1>1, <1>2, <1>3 DEF WInv, WTypeOK

(* SlurpInv is inductive, given WInv.                                      *)
LEMMA SlurpNext == WInv /\ SlurpInv /\ [WNext \/ Consume]_<<wvars, events>> => SlurpInv'
<1> SUFFICES ASSUME WInv, SlurpInv, [WNext \/ Consume]_<<wvars, events>> PROVE SlurpInv'
  OBVIOUS
<1> DEFINE Lives == \A s \in Socks : /\ sock'[s].life \in Nat /\ sock'[s].life >= sock[s].life
                                     /\ sock'[s].state # "free" => sock'[s].life >= 1
           Counts == \A s \in Socks, d \in Dirs : flows'[s] # None /\ flows'[s].wire[d] # 0 =>
                       flows[s] # None /\ flows[s].wire[d] # 0
           Taken == UNCHANGED events \/ (events # <<>> /\ events' = Tail(events))
<1>1. UNCHANGED armed /\ Lives /\ Counts /\ Taken => SlurpInv'
  BY QuietSlurp
<1>2. UNCHANGED sock => Lives
  BY DEF WInv, WTypeOK, Sock, SlurpInv
<1>3. UNCHANGED flows => Counts
  OBVIOUS
<1>4. ASSUME NEW sk \in Socks, UNCHANGED <<armed, events>>, Counts,
             \E r \in Sock : /\ sock' = [sock EXCEPT ![sk] = r]
                             /\ \/ r.life = sock[sk].life /\ (r.state # "free" => sock[sk].state # "free")
                                \/ r.life = sock[sk].life + 1 /\ sock[sk].life < MaxLife
      PROVE  SlurpInv'
  <2>1. \A s \in Socks : sock[s].life \in Nat
    BY DEF WInv, WTypeOK, Sock
  <2>2. Lives
    BY <1>4, <2>1, WireAssumption DEF WInv, WTypeOK, SlurpInv
  <2> HIDE DEF Lives, Counts, Taken
  <2>3. Taken
    BY <1>4 DEF Taken
  <2> QED
    BY <1>1, <1>4, <2>2, <2>3
<1>5. CASE UNCHANGED <<wvars, events>> \/ Consume
  BY <1>1, <1>2, <1>3, <1>5 DEF wvars, Consume
<1>6. ASSUME NEW t \in Threads, NEW sk \in Socks, NEW b \in UserBufs, NEW n \in Sizes,
             k_tcp_sendmsg(t, sk, b, n)
      PROVE  SlurpInv'
  <2> DEFINE f == flow_get(sk, PidOf[t])
             g == [f EXCEPT !.tx = @ + n]
  <2>1. /\ n \in Nat /\ PidOf[t] \in Pids /\ sock[sk].fd # None /\ DIR_OUT \in Dirs
        /\ UNCHANGED sock
    BY <1>6, WireAssumption DEF k_tcp_sendmsg, HoldsFd, Dirs
  <2>2. UNCHANGED <<flows, events, armed>> \/ (f # None /\ capture_wire(g, sk, b, n, DIR_OUT))
    BY <1>6 DEF k_tcp_sendmsg
  <2>3. f # None => f \in Flow
    BY <2>1, FlowGet
  <2>4. f # None => g \in Flow /\ g.wire = f.wire
    <3> HIDE DEF f
    <3> QED
      BY <2>1, <2>3 DEF Flow
  <2> HIDE DEF g
  <2>5. CASE UNCHANGED <<flows, events, armed>>
    BY <1>1, <1>2, <1>3, <2>1, <2>5
  <2>6. CASE f # None /\ capture_wire(g, sk, b, n, DIR_OUT)
    BY <2>1, <2>4, <2>6, CaptureSlurp
  <2> QED
    BY <2>2, <2>5, <2>6
<1>7. ASSUME NEW t \in Threads, NEW ret \in Sizes \cup {0}, NEW b \in UserBufs,
             kr_tcp_recvmsg(t, ret, b)
      PROVE  SlurpInv'
  <2> DEFINE sk == recv_ctxs[t].sk
             f == flow_get(sk, PidOf[t])
             g == [f EXCEPT !.rx = @ + ret]
  <2>1. ret \in Nat /\ PidOf[t] \in Pids /\ DIR_IN \in Dirs /\ UNCHANGED sock
    BY <1>7, WireAssumption DEF Dirs, kr_tcp_recvmsg
  <2>2. CASE UNCHANGED <<flows, events, armed>>
    BY <1>1, <1>2, <1>3, <2>1, <2>2
  <2>3. CASE recv_ctxs[t] # None /\ f # None /\ capture_wire(g, sk, b, ret, DIR_IN)
    <3>1. sk \in Socks /\ sk = call[t].sk
      BY <1>7, <2>3 DEF kr_tcp_recvmsg, WInv, WTypeOK, PairedReturn, RecvCtx
    <3>2. sock[sk].fd # None
      BY <1>7, <3>1 DEF kr_tcp_recvmsg, WInv, CallOpen, HoldsFd
    <3> HIDE DEF sk
    <3>3. f \in Flow
      BY <2>1, <2>3, <3>1, <3>2, FlowGet
    <3>4. g \in Flow /\ g.wire = f.wire
      <4> HIDE DEF f
      <4> QED
        BY <2>1, <3>3 DEF Flow
    <3> HIDE DEF g
    <3> QED
      BY <2>1, <2>3, <3>1, <3>2, <3>4, CaptureSlurp
  <2> QED
    BY <1>7, <2>2, <2>3 DEF kr_tcp_recvmsg
<1>8. ASSUME NEW t \in Threads, \/ \E sk \in Socks, base, hooked \in BOOLEAN : k_tcp_recvmsg(t, sk, base, hooked)
                                \/ \E ret \in Sizes \cup {0} : UnseenReturn(t, ret)
      PROVE  SlurpInv'
  <2>1. UNCHANGED <<flows, sock, armed, events>>
    BY <1>8 DEF k_tcp_recvmsg, UnseenReturn
  <2> QED
    BY <1>1, <1>2, <1>3, <2>1
<1>9. CASE Reclaim
  <2>1. UNCHANGED <<sock, armed, events>>
    BY <1>9 DEF Reclaim, DeleteFlow
  <2>2. Counts
    BY <1>9 DEF Reclaim, DeleteFlow, WInv, WTypeOK
  <2> QED
    BY <1>1, <1>2, <2>1, <2>2
<1>10. ASSUME NEW t \in Threads, NEW sk \in Socks, NEW fd \in Fds, Accept(t, sk, fd)
       PROVE  SlurpInv'
  <2> DEFINE q == [sock[sk] EXCEPT !.pid = PidOf[t], !.fd = fd]
  <2>1. sock[sk] \in Sock /\ PidOf[t] \in Pids /\ UNCHANGED <<flows, armed, events>>
    BY <1>10, WireAssumption DEF WInv, WTypeOK, Accept
  <2>2. sock' = [sock EXCEPT ![sk] = q] /\ sock[sk].state # "free"
    BY <1>10, <2>1 DEF Accept, WInv, WTypeOK, Sock
  <2>3. q \in Sock /\ q.life = sock[sk].life
    BY <2>1 DEF Sock
  <2> HIDE DEF q, Counts
  <2> QED
    BY <1>3, <1>4, <2>1, <2>2, <2>3
<1>11. ASSUME NEW sk \in Socks, NEW r \in Remotes,
              Incoming(sk, r) \/ \E t \in Threads, fd \in Fds : Connect(t, sk, fd, r)
       PROVE  SlurpInv'
  <2>1. sock[sk] \in Sock /\ (\A t \in Threads : PidOf[t] \in Pids) /\ UNCHANGED <<flows, armed, events>>
    BY <1>11, WireAssumption DEF WInv, WTypeOK, Incoming, Connect
  <2>2. sock[sk].life \in Nat
    BY <2>1 DEF Sock
  <2>3. ASSUME NEW st \in {"syn_sent", "syn_recv"}, NEW p \in Pids \cup {None}, NEW fd \in Fds \cup {None}
        PROVE  [state |-> st, life |-> sock[sk].life + 1, pid |-> p, fd |-> fd, remote |-> r] \in Sock
    BY <2>2 DEF Sock, SockState
  <2>4. \E q \in Sock : /\ sock' = [sock EXCEPT ![sk] = q]
                        /\ q.life = sock[sk].life + 1 /\ sock[sk].life < MaxLife
    BY <1>11, <2>1, <2>3 DEF Connect, Incoming
  <2> HIDE DEF Counts
  <2> QED
    BY <1>3, <1>4, <2>1, <2>4
<1>12. ASSUME NEW t \in Threads, NEW sk \in Socks, CloseFd(t, sk)
       PROVE  SlurpInv'
  <2> DEFINE q == [sock[sk] EXCEPT !.fd = None, !.state = "closing"]
  <2>1. sock[sk] \in Sock /\ UNCHANGED <<flows, armed, events>>
    BY <1>12 DEF WInv, WTypeOK, CloseFd
  <2>2. q \in Sock /\ q.life = sock[sk].life
    BY <2>1 DEF Sock, SockState
  <2>3. /\ NoConnection(sk) \in Sock /\ NoConnection(sk).life = sock[sk].life
        /\ NoConnection(sk).state = "free"
    BY <2>1 DEF NoConnection, Sock, SockState
  <2>4. sock[sk].state # "free"
    BY <1>12 DEF CloseFd, HoldsFd, WInv, SockNamed, Named
  <2>5. sock' = [sock EXCEPT ![sk] = q] \/ sock' = [sock EXCEPT ![sk] = NoConnection(sk)]
    BY <1>12 DEF CloseFd
  <2> HIDE DEF q, Counts
  <2> QED
    BY <1>3, <1>4, <2>1, <2>2, <2>3, <2>4, <2>5
<1>13. ASSUME NEW sk \in Socks, Establish(sk) \/ PeerFin(sk) \/ Done(sk)
       PROVE  SlurpInv'
  <2>1. sock[sk] \in Sock /\ sock[sk].state # "free" /\ UNCHANGED <<armed, events>>
    BY <1>13 DEF WInv, WTypeOK, Establish, PeerFin, Done
  <2>2. Counts
    BY <1>13, SetStateWire DEF Establish, PeerFin, Done
  <2>3. \A st \in SockState : /\ [sock[sk] EXCEPT !.state = st] \in Sock
                              /\ [sock[sk] EXCEPT !.state = st].life = sock[sk].life
    BY <2>1 DEF Sock
  <2>4. NoConnection(sk) \in Sock /\ NoConnection(sk).life = sock[sk].life
    BY <2>1 DEF NoConnection, Sock, SockState
  <2>5. \/ sock' = [sock EXCEPT ![sk] = NoConnection(sk)]
        \/ \E st \in SockState : sock' = [sock EXCEPT ![sk] = [sock[sk] EXCEPT !.state = st]]
    BY <1>13 DEF Establish, PeerFin, Done, SockState
  <2> HIDE DEF Counts
  <2> QED
    BY <1>4, <2>1, <2>2, <2>3, <2>4, <2>5
<1>14. CASE Calls
  BY <1>14, <1>6, <1>7, <1>8 DEF Calls
<1>15. CASE Tcp
  BY <1>15, <1>10, <1>11, <1>12, <1>13 DEF Tcp
<1> QED
  BY <1>5, <1>9, <1>14, <1>15 DEF WNext, Traffic

(* Nothing has been captured at first, and every address served at most    *)
(* one connection.                                                         *)
LEMMA SlurpInit == WInit => SlurpInv
<1> SUFFICES ASSUME WInit PROVE SlurpInv
  OBVIOUS
<1>1. \A sk \in Socks : sock[sk].life \in {0, 1} /\ (sock[sk].state # "free" => sock[sk].life = 1)
  BY DEF WInit, Preestablished
<1>2. events = <<>> /\ events \in Seq(WireEvent) /\ DOMAIN events = {}
  BY DEF WInit
<1>3. \A sk \in Socks : flows[sk] = None
  BY DEF WInit
<1> QED
  BY <1>1, <1>2, <1>3 DEF SlurpInv

(* No capture, unless a TLS record came first: on this connection or, when *)
(* the address was reused before its entry was deleted, on an earlier one. *)
THEOREM CapturesFollowTls == WSpec => []CapturedAfterTls
<1>1. SlurpInv => CapturedAfterTls
  BY DEF SlurpInv, CapturedAfterTls
<1> QED
  BY <1>1, SlurpInit, WInitInv, WNextInv, SlurpNext, PTL DEF WSpec
==============================================================================
