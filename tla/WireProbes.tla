----------------------------- MODULE WireProbes -----------------------------
(***************************************************************************)
(* The wire side of bpf/tlstat.bpf.c: the kprobes on tcp_sendmsg and       *)
(* tcp_recvmsg, the kretprobe on tcp_recvmsg and the tracepoint            *)
(* inet_sock_set_state, with the maps `flows' and `recv_ctxs', over a      *)
(* small model of the sockets and threads of the host.                     *)
(*                                                                         *)
(* A socket is its address, a pointer to struct sock: the key of `flows'.  *)
(* The kernel frees a closed socket and may hand the same address to the   *)
(* next connection; `life' numbers the connections that use one address.   *)
(* Each probe runs to completion in one step: what holds here holds as     *)
(* long as no two probes of an address run at the same time.  FlowRace has *)
(* the probes of one address on several CPUs.                              *)
(***************************************************************************)
EXTENDS Ring

CONSTANTS
  None,          \* no entry, no value; also pid 0 and fd -1
  Socks,         \* addresses of struct sock
  Threads,       \* threads of the observed programs (pid_tgid)
  Pids,          \* their processes (tgid)
  PidOf,         \* the process of each thread
  Fds,           \* file descriptors
  Remotes,       \* remote endpoints (address and port)
  UserBufs,      \* what the buffers handed to send and recv may hold
  Sizes,         \* lengths of the buffers handed to send and recv
  WireCap,       \* WIRE_CAP, a power of two
  MaxWireEvents, \* MAX_WIRE_EVENTS
  MaxFlows,      \* max_entries of flows
  MaxRecvCtxs,   \* max_entries of recv_ctxs
  TcpSteps,      \* bound: the kinds of steps connections take
  MaxLife,       \* bound: connections per socket address
  MaxIo          \* bound: calls of tcp_sendmsg and tcp_recvmsg

ASSUME WireAssumption ==
  /\ None \notin Socks /\ None \notin Pids /\ None \notin Fds /\ None \notin Remotes
  /\ PidOf \in [Threads -> Pids]
  /\ Sizes \subseteq Nat \ {0}
  /\ WireCap \in Nat /\ WireCap > 1
  /\ MaxWireEvents \in 1..255
  /\ MaxFlows \in Nat /\ MaxRecvCtxs \in Nat
  /\ TcpSteps \subseteq {"open", "fin", "close", "done"}
  /\ MaxLife \in Nat /\ MaxIo \in Nat

VARIABLES
  flows,      \* map flows: struct flow of a socket address, or None
  recv_ctxs,  \* map recv_ctxs: what a thread's tcp_recvmsg entry stashed, or None
  sock,       \* the kernel's sockets
  call,       \* the tcp_recvmsg call a thread is inside, or None
  rcvd,       \* bytes tcp_recvmsg calls on an address returned
  armed,      \* <<address, life, direction>> in which a TLS record was the first capture
  io          \* calls made so far (bounded by MaxIo)

wvars == <<flows, recv_ctxs, sock, call, rcvd, armed, io>>
-----------------------------------------------------------------------------
(* Directions: enum dir.                                                   *)
DIR_OUT == 1
DIR_IN == 2
Dirs == {DIR_OUT, DIR_IN}

(* What a user buffer holds, as far as capture_wire can tell buffers apart *)
(* (with iter_base's NULL for the iterator kinds it does not know).        *)
Kinds == {"hello",   \* starts with a handshake record holding a Hello
          "record",  \* starts with some other TLS record header
          "raw"}     \* anything else: plain text, the rest of a record
Bufs == Kinds \cup
         {"null",     \* iter_base found no user pointer
          "unmapped", \* bpf_probe_read_user fails at once
          "partial"}  \* a record header is readable, the bytes after it are not

ASSUME BufAssumption == UserBufs \subseteq Bufs

(* looks_like_tls: content type 20..23, major 3, minor at most 4.          *)
looks_like_tls(b) == b \in {"hello", "record", "partial"}

(* The 4-tuple of a connection: only its remote half is ever compared.     *)
Tuple == Remotes

Flow == [tx : Nat, rx : Nat, pid : Pids \cup {None}, tuple : Tuple \cup {None},
         direction : Dirs \cup {0}, is_tls : BOOLEAN, closed : BOOLEAN,
         wire : [Dirs -> Nat]]

ASSUME FlowAssumption == None \notin Flow

RecvCtx == [sk : Socks, base : BOOLEAN]

(* struct flow zero = {};                                                  *)
ZeroFlow == [tx |-> 0, rx |-> 0, pid |-> None, tuple |-> None, direction |-> 0,
             is_tls |-> FALSE, closed |-> FALSE, wire |-> [d \in Dirs |-> 0]]

\* Seeded fault: the length is clamped to cap, which the mask turns into 0.
Capped_atcap(n, cap) == (IF n > cap THEN cap ELSE n) % cap

(* The length of a captured payload: clamp to cap - 1, then mask with      *)
(* cap - 1 (a modulo, as cap is a power of two).                           *)
Capped(n, cap) == (IF n > cap - 1 THEN cap - 1 ELSE n) % cap

Present(map) == {key \in DOMAIN map : map[key] # None}
-----------------------------------------------------------------------------
(* Helpers of the probes.                                                  *)

read_tuple(sk) == sock[sk].remote

(* Get or lazily create the entry of sk and backfill its identity in       *)
(* process context; None when the map is full.                             *)
flow_get(sk, pid) ==
  LET f == IF flows[sk] = None THEN ZeroFlow ELSE flows[sk] IN
  IF flows[sk] = None /\ Cardinality(Present(flows)) >= MaxFlows THEN None
  ELSE IF f.pid = None THEN [f EXCEPT !.pid = pid, !.tuple = read_tuple(sk)]
  ELSE f

\* Seeded fault: every chunk is captured, the first one too.
PassesUngated(f, b, n, dir) ==
  b # "null" /\ n >= 1 /\ f.wire[dir] < MaxWireEvents

(* Does the chunk get past every early return before the reservation?      *)
Passes(f, b, n, dir) ==
  /\ b # "null" /\ n >= 1
  /\ f.wire[dir] < MaxWireEvents
  /\ f.wire[dir] = 0 => n >= 5 /\ b # "unmapped" /\ looks_like_tls(b)

Submits(f, b, n, dir) ==
  Passes(f, b, n, dir) /\ bpf_ringbuf_reserve /\ b \in Kinds

(* The wire_event: `kind', `life' and `k' stand for its payload: what it   *)
(* holds, whose connection it was taken from and the how-manieth capture   *)
(* of the entry it is.                                                     *)
wire_event(f, sk, b, n, dir) ==
  [type |-> "wire", sk |-> sk, direction |-> dir, len |-> Capped(n, WireCap),
   kind |-> b, life |-> sock[sk].life, k |-> f.wire[dir]]

(* Store entry f, with what capture_wire does to it and to the ring.       *)
capture_wire(f, sk, b, n, dir) ==
  LET first == f.wire[dir] = 0
      submits == Submits(f, b, n, dir) IN
  /\ flows' = [flows EXCEPT ![sk] =
       [f EXCEPT !.is_tls = @ \/ (first /\ Passes(f, b, n, dir)),
                 !.wire[dir] = IF submits THEN @ + 1 ELSE @]]
  /\ IF submits THEN bpf_ringbuf_submit(wire_event(f, sk, b, n, dir))
                ELSE UNCHANGED events
  /\ armed' = IF submits /\ first /\ looks_like_tls(b)
              THEN armed \cup {<<sk, sock[sk].life, dir>>} ELSE armed
-----------------------------------------------------------------------------
(* Byte counts and capture.                                                *)

HoldsFd(t, sk) == sock[sk].fd # None /\ sock[sk].pid = PidOf[t]

(* The kprobe runs on entry, before tcp_sendmsg knows whether the socket   *)
(* takes the data: whatever its state, and however the call returns.       *)
k_tcp_sendmsg(t, sk, b, n) ==
  /\ io < MaxIo /\ io' = io + 1
  /\ call[t] = None /\ HoldsFd(t, sk)
  /\ LET f == flow_get(sk, PidOf[t]) IN
       IF f = None THEN UNCHANGED <<flows, events, armed>>
       ELSE capture_wire([f EXCEPT !.tx = @ + n], sk, b, n, DIR_OUT)
  /\ UNCHANGED <<recv_ctxs, sock, call, rcvd>>

\* Seeded fault: the stash is keyed by the process, not by the thread.
k_tcp_recvmsg_by_tgid(t, sk, base, hooked) ==
  /\ io < MaxIo /\ io' = io + 1
  /\ call[t] = None /\ HoldsFd(t, sk)
  /\ call' = [call EXCEPT ![t] = [sk |-> sk, hooked |-> hooked]]
  /\ recv_ctxs' = [u \in Threads |-> IF PidOf[u] = PidOf[t]
                                     THEN [sk |-> sk, base |-> base] ELSE recv_ctxs[u]]
  /\ UNCHANGED <<flows, sock, rcvd, armed, events>>

\* Seeded fault: the stash does not overwrite an entry left behind (BPF_NOEXIST).
k_tcp_recvmsg_noexist(t, sk, base, hooked) ==
  /\ io < MaxIo /\ io' = io + 1
  /\ call[t] = None /\ HoldsFd(t, sk)
  /\ call' = [call EXCEPT ![t] = [sk |-> sk, hooked |-> hooked]]
  /\ recv_ctxs' = IF recv_ctxs[t] = None
                  THEN [recv_ctxs EXCEPT ![t] = [sk |-> sk, base |-> base]] ELSE recv_ctxs
  /\ UNCHANGED <<flows, sock, rcvd, armed, events>>

(* Entry: stash the socket and the user buffer under the thread.  The      *)
(* kernel has a fixed number of kretprobe instances; `hooked' says whether *)
(* this call got one, so whether its return will be seen.                  *)
k_tcp_recvmsg(t, sk, base, hooked) ==
  /\ io < MaxIo /\ io' = io + 1
  /\ call[t] = None /\ HoldsFd(t, sk)
  /\ call' = [call EXCEPT ![t] = [sk |-> sk, hooked |-> hooked]]
  /\ recv_ctxs' = IF recv_ctxs[t] # None \/ Cardinality(Present(recv_ctxs)) < MaxRecvCtxs
                  THEN [recv_ctxs EXCEPT ![t] = [sk |-> sk, base |-> base]] ELSE recv_ctxs
  /\ UNCHANGED <<flows, sock, rcvd, armed, events>>

(* Return of a call the kretprobe follows.  ret = 0 stands for ret <= 0.   *)
kr_tcp_recvmsg(t, ret, b) ==
  /\ call[t] # None /\ call[t].hooked
  /\ ret > 0 => sock[call[t].sk].state \notin {"syn_sent", "refused"}
  /\ call' = [call EXCEPT ![t] = None]
  /\ rcvd' = [rcvd EXCEPT ![call[t].sk] = @ + ret]
  /\ recv_ctxs' = [recv_ctxs EXCEPT ![t] = None]
  /\ LET rc == recv_ctxs[t]
         f == flow_get(rc.sk, PidOf[t]) IN
       IF rc = None \/ ret = 0 THEN UNCHANGED <<flows, events, armed>>
       ELSE /\ rc.base <=> (b # "null")
            /\ IF f = None THEN UNCHANGED <<flows, events, armed>>
               ELSE capture_wire([f EXCEPT !.rx = @ + ret], rc.sk, b, ret, DIR_IN)
  /\ UNCHANGED <<sock, io>>

(* Return of a call the kretprobe missed, or entered before it attached.   *)
UnseenReturn(t, ret) ==
  /\ call[t] # None /\ ~call[t].hooked
  /\ ret > 0 => sock[call[t].sk].state \notin {"syn_sent", "refused"}
  /\ call' = [call EXCEPT ![t] = None]
  /\ rcvd' = [rcvd EXCEPT ![call[t].sk] = @ + ret]
  /\ UNCHANGED <<flows, recv_ctxs, sock, armed, io, events>>
-----------------------------------------------------------------------------
(* Connection lifecycle.                                                   *)

\* Seeded fault: direction is set to the old state's number (TCP_SYN_RECV is 3).
tp_inet_sock_set_state_raw(sk, oldstate, newstate) ==
  LET f == IF flows[sk] = None THEN ZeroFlow ELSE flows[sk] IN
  flows' =
    CASE newstate = "established"
           /\ (flows[sk] # None \/ Cardinality(Present(flows)) < MaxFlows) ->
           [flows EXCEPT ![sk] = [f EXCEPT !.direction =
                                    IF oldstate = "syn_recv" THEN 3 ELSE 2]]
      [] newstate \in {"closed", "close_wait"} /\ flows[sk] # None ->
           [flows EXCEPT ![sk].closed = TRUE]
      [] OTHER -> flows

(* The tracepoint, on every change of a TCP socket's state.  Only          *)
(* ESTABLISHED, CLOSE and CLOSE_WAIT matter to it.                         *)
tp_inet_sock_set_state(sk, oldstate, newstate) ==
  LET f == IF flows[sk] = None THEN ZeroFlow ELSE flows[sk] IN
  flows' =
    CASE newstate = "established"
           /\ (flows[sk] # None \/ Cardinality(Present(flows)) < MaxFlows) ->
           [flows EXCEPT ![sk] = [f EXCEPT !.direction =
                                    IF oldstate = "syn_recv" THEN DIR_IN ELSE DIR_OUT]]
      [] newstate \in {"closed", "close_wait"} /\ flows[sk] # None ->
           [flows EXCEPT ![sk].closed = TRUE]
      [] OTHER -> flows

NoConnection(sk) == [state |-> "free", life |-> sock[sk].life,
                     pid |-> None, fd |-> None, remote |-> None]

FdFree(p, fd) == \A s \in Socks : ~(sock[s].pid = p /\ sock[s].fd = fd)

(* connect(): CLOSE to SYN_SENT, which the tracepoint ignores.             *)
Connect(t, sk, fd, remote) ==
  /\ sock[sk].state = "free" /\ sock[sk].life < MaxLife /\ FdFree(PidOf[t], fd)
  /\ sock' = [sock EXCEPT ![sk] = [state |-> "syn_sent", life |-> @.life + 1,
                                   pid |-> PidOf[t], fd |-> fd, remote |-> remote]]
  /\ UNCHANGED <<flows, recv_ctxs, call, rcvd, armed, io, events>>

(* A SYN arrives at a listener: a child socket nobody has accepted yet.    *)
Incoming(sk, remote) ==
  /\ sock[sk].state = "free" /\ sock[sk].life < MaxLife
  /\ sock' = [sock EXCEPT ![sk] = [state |-> "syn_recv", life |-> @.life + 1,
                                   pid |-> None, fd |-> None, remote |-> remote]]
  /\ UNCHANGED <<flows, recv_ctxs, call, rcvd, armed, io, events>>

Establish(sk) ==
  /\ sock[sk].state \in {"syn_sent", "syn_recv"}
  /\ sock' = [sock EXCEPT ![sk].state = "established"]
  /\ tp_inet_sock_set_state(sk, sock[sk].state, "established")
  /\ UNCHANGED <<recv_ctxs, call, rcvd, armed, io, events>>

Accept(t, sk, fd) ==
  /\ sock[sk].state \in {"established", "close_wait"} /\ sock[sk].pid = None
  /\ FdFree(PidOf[t], fd)
  /\ sock' = [sock EXCEPT ![sk].pid = PidOf[t], ![sk].fd = fd]
  /\ UNCHANGED <<flows, recv_ctxs, call, rcvd, armed, io, events>>

(* The peer sends its FIN; this side may go on sending.                    *)
PeerFin(sk) ==
  /\ sock[sk].state = "established"
  /\ sock' = [sock EXCEPT ![sk].state = "close_wait"]
  /\ tp_inet_sock_set_state(sk, "established", "close_wait")
  /\ UNCHANGED <<recv_ctxs, call, rcvd, armed, io, events>>

(* close(), which takes effect once no call is inside the socket: the      *)
(* descriptor goes; the socket winds down through FIN_WAIT or LAST_ACK     *)
(* (ignored by the tracepoint), or is freed if already closed.             *)
CloseFd(t, sk) ==
  /\ HoldsFd(t, sk)
  /\ \A u \in Threads : call[u] # None => call[u].sk # sk
  /\ sock' = [sock EXCEPT ![sk] =
       IF @.state \in {"closed", "refused"} THEN NoConnection(sk)
       ELSE [@ EXCEPT !.fd = None, !.state = "closing"]]
  /\ UNCHANGED <<flows, recv_ctxs, call, rcvd, armed, io, events>>

(* The socket reaches TCP_CLOSE, by a reset or at the end of the handshake *)
(* that closes it, or its connect() is refused; without a descriptor its   *)
(* memory is free for reuse.                                               *)
Done(sk) ==
  /\ sock[sk].state \notin {"free", "closed", "refused"}
  /\ sock' = [sock EXCEPT ![sk] =
       IF @.fd = None THEN NoConnection(sk)
       ELSE [@ EXCEPT !.state = IF sock[sk].state = "syn_sent" THEN "refused" ELSE "closed"]]
  /\ tp_inet_sock_set_state(sk, sock[sk].state, "closed")
  /\ UNCHANGED <<recv_ctxs, call, rcvd, armed, io, events>>
-----------------------------------------------------------------------------
(* User space's side of the maps, as far as the probes see it.             *)

(* Loader.DeleteFlow.                                                      *)
DeleteFlow(sk) ==
  /\ flows' = [flows EXCEPT ![sk] = None]
  /\ UNCHANGED <<recv_ctxs, sock, call, rcvd, armed, io, events>>

(* The reader takes the oldest record.                                     *)
Consume == events # <<>> /\ events' = Tail(events) /\ UNCHANGED wvars
-----------------------------------------------------------------------------
(* Connections may predate tlstat, and threads may be blocked inside       *)
(* tcp_recvmsg when the probes attach: those calls are never seen.         *)
Preestablished(p, fd, remote) ==
  [state |-> "established", life |-> 1, pid |-> p, fd |-> fd, remote |-> remote]

WInit ==
  /\ flows = [s \in Socks |-> None]
  /\ recv_ctxs = [t \in Threads |-> None]
  /\ sock \in [Socks -> {[state |-> "free", life |-> 0, pid |-> None,
                          fd |-> None, remote |-> None]}
                        \cup {Preestablished(p, fd, r) :
                              p \in Pids, fd \in Fds, r \in Remotes}]
  /\ \A s1, s2 \in Socks : s1 # s2 /\ sock[s1].fd # None =>
                             <<sock[s1].pid, sock[s1].fd>> # <<sock[s2].pid, sock[s2].fd>>
  /\ call \in [Threads -> {None} \cup {[sk |-> s, hooked |-> FALSE] : s \in Socks}]
  /\ \A t \in Threads : call[t] # None => HoldsFd(t, call[t].sk)
  /\ rcvd = [s \in Socks |-> 0]
  /\ armed = {} /\ io = 0
  /\ events = <<>>

(* Steps of the observed programs, with the probes they fire.              *)
Calls ==
  \/ \E t \in Threads, sk \in Socks :
       \/ \E b \in UserBufs, n \in Sizes : k_tcp_sendmsg(t, sk, b, n)
       \/ \E base, hooked \in BOOLEAN : k_tcp_recvmsg(t, sk, base, hooked)
  \/ \E t \in Threads, ret \in Sizes \cup {0} :
       \/ \E b \in UserBufs : kr_tcp_recvmsg(t, ret, b)
       \/ UnseenReturn(t, ret)

(* Steps of the connections.                                               *)
Tcp ==
  \/ "open" \in TcpSteps /\ \E sk \in Socks :
       \/ \E t \in Threads, fd \in Fds : Accept(t, sk, fd) \/ \E r \in Remotes : Connect(t, sk, fd, r)
       \/ \E r \in Remotes : Incoming(sk, r)
       \/ Establish(sk)
  \/ "fin" \in TcpSteps /\ \E sk \in Socks : PeerFin(sk)
  \/ "close" \in TcpSteps /\ \E t \in Threads, sk \in Socks : CloseFd(t, sk)
  \/ "done" \in TcpSteps /\ \E sk \in Socks : Done(sk)

Traffic == Calls \/ Tcp

\* The poller deletes entries it has seen closed, and nothing sets closed back.
Reclaim == \E sk \in Socks : flows[sk] # None /\ flows[sk].closed /\ DeleteFlow(sk)

WNext == Traffic \/ Reclaim

WSpec == WInit /\ [][WNext \/ Consume]_<<wvars, events>>
-----------------------------------------------------------------------------
(* Properties.                                                             *)

SockState == {"free", "syn_sent", "syn_recv", "established", "close_wait", "closing", "closed",
              "refused"}

(* Sockets of the host: who holds a descriptor, and of which connection.   *)
Sock == [state : SockState, life : Nat, pid : Pids \cup {None},
         fd : Fds \cup {None}, remote : Remotes \cup {None}]

(* Every map entry is a well-formed struct.                                *)
WTypeOK ==
  /\ flows \in [Socks -> Flow \cup {None}]
  /\ recv_ctxs \in [Threads -> RecvCtx \cup {None}]
  /\ sock \in [Socks -> Sock]
  /\ call \in [Threads -> [sk : Socks, hooked : BOOLEAN] \cup {None}]
  /\ rcvd \in [Socks -> Nat]
  /\ armed \subseteq Socks \X Nat \X Dirs
  /\ io \in Nat

(* kr_tcp_recvmsg never pairs a return with another call's stash: what it  *)
(* finds under its thread was stashed by the entry of this very call, even *)
(* after returns the kretprobe missed and with the map full.               *)
PairedReturn ==
  \A t \in Threads : call[t] # None /\ call[t].hooked /\ recv_ctxs[t] # None
                        => recv_ctxs[t].sk = call[t].sk

(* The rx counter of an entry never runs ahead of what tcp_recvmsg really  *)
(* returned on that socket: missed probes only make it fall behind.        *)
RxNeverOvercounts ==
  \A sk \in Socks : flows[sk] # None => flows[sk].rx <= rcvd[sk]

(* Some connection of the address, up to number `life', had a TLS record   *)
(* as its first capture in this direction.                                 *)
TlsBy(A, sk, life, d) == \E l \in 1..life : <<sk, l, d>> \in A

(* Every capture was taken from an address and direction on which a TLS    *)
(* record was captured first, by this connection or by an earlier one of   *)
(* the address: continuation chunks, which capture_wire does not look at,  *)
(* never come without it, also when records are lost or entries deleted    *)
(* and created anew.                                                       *)
CapturedAfterTls ==
  \A i \in DOMAIN events : events[i].type = "wire" =>
    TlsBy(armed, events[i].sk, events[i].life, events[i].direction)
=============================================================================
