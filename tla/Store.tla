------------------------------- MODULE Store -------------------------------
(***************************************************************************)
(* internal/model: the table of connections that the reader goroutine      *)
(* (ApplyWire, ApplyData, ApplyClose) and the poller goroutine             *)
(* (UpdateFlows, UpdateSSLStats) build under one mutex from the events and *)
(* the map snapshots, with resolve() and its lookups in /proc.             *)
(*                                                                         *)
(* UpdateSSLStats is cut at each call of resolve(), which reads /proc      *)
(* while the host goes on; Tlstat keeps the mutex across its steps.        *)
(***************************************************************************)
EXTENDS SslProbes

CONSTANTS
  MaxWireBuf,  \* maxWireBuf: a reassembly buffer this long takes no more
  HelloMin,    \* bytes of a buffer that starts with a Hello that Parse needs to see it
  MaxHistory,  \* --history
  PeekBytes,   \* --peek-bytes
  ProcOutcomes \* may the lookup of a held descriptor succeed (TRUE), fail (FALSE)?

ASSUME StoreAssumption ==
  /\ MaxWireBuf \in Nat /\ HelloMin \in Nat /\ MaxHistory \in Nat /\ PeekBytes \in Nat
  /\ ProcOutcomes \subseteq BOOLEAN

VARIABLES
  conns,      \* live connections by socket address, or None
  history,    \* retired connections, oldest first
  pidfd,      \* pidfd[p][fd]: the socket address resolved for it, or None
  plainBySSL  \* the sample kept for an SSL pointer, or None

stvars == <<conns, history, pidfd, plainBySSL>>

(* Plaintext of one direction: the first chunk seen and the latest one the *)
(* rolling tail ends with; a chunk is the call it was captured from.       *)
Chunk == [id : Nat, k : Nat]
NoPlain == [head |-> None, tail |-> None]
NoSample == [d \in Dirs |-> NoPlain]
Sample == [Dirs -> [head : Chunk \cup {None}, tail : Chunk \cup {None}]]

WireChunk == [k : Nat, kind : Kinds]

(* Conn: `wire' holds wireOut and wireIn as the chunks appended and their  *)
(* total length, `info' whether Parse has put a Hello into Info, and       *)
(* `plain' the head and tail of each direction.                            *)
Conn ==
  [pid : Pids \cup {None}, tuple : Tuple \cup {None}, direction : Dirs \cup {0},
   tx : Nat, rx : Nat, ptx : Nat, prx : Nat, isTLS : BOOLEAN, closed : BOOLEAN,
   preexisting : BOOLEAN, plainFinal : BOOLEAN, info : BOOLEAN,
   wire : [Dirs -> [chunks : Seq(WireChunk), len : Nat]], plain : Sample]

ASSUME ConnAssumption == None \notin Conn

NewConn ==
  [pid |-> None, tuple |-> None, direction |-> 0, tx |-> 0, rx |-> 0, ptx |-> 0, prx |-> 0,
   isTLS |-> FALSE, closed |-> FALSE, preexisting |-> FALSE, plainFinal |-> FALSE,
   info |-> FALSE, wire |-> [d \in Dirs |-> [chunks |-> <<>>, len |-> 0]], plain |-> NoSample]

ConnAt(sk) == IF conns[sk] = None THEN NewConn ELSE conns[sk]
-----------------------------------------------------------------------------
(* UpdateFlows.                                                            *)

\* Seeded fault: byte counters only ever move up.
Merge_max(c, f) ==
  LET tls == c.isTLS \/ f.is_tls IN
  [c EXCEPT !.pid = f.pid, !.tuple = f.tuple,
            !.direction = IF f.direction # 0 THEN f.direction ELSE @, !.isTLS = tls,
            !.tx = IF f.tx > @ THEN f.tx ELSE @, !.rx = IF f.rx > @ THEN f.rx ELSE @,
            !.closed = f.closed, !.preexisting = tls /\ ~c.info]

(* One entry of the snapshot folded into its connection.                   *)
Merge(c, f) ==
  LET tls == c.isTLS \/ f.is_tls IN
  [c EXCEPT !.pid = f.pid, !.tuple = f.tuple,
            !.direction = IF f.direction # 0 THEN f.direction ELSE @,
            !.isTLS = tls, !.tx = f.tx, !.rx = f.rx, !.closed = f.closed,
            !.preexisting = tls /\ ~c.info]

\* The orders in which Go may range over a set of map keys.
Orders(S) == {q \in [1..Cardinality(S) -> S] : \A i, j \in DOMAIN q : q[i] = q[j] => i = j}

LastN(q, n) == IF Len(q) > n THEN SubSeq(q, Len(q) - n + 1, Len(q)) ELSE q

\* Seeded fault: the history is not trimmed to its cap.
retire_untrimmed(q) ==
  history' = history \o [i \in DOMAIN q |-> [conns[q[i]] EXCEPT !.wire = NewConn.wire]]

\* Seeded fault: the pointer is taken out of the table before it is kept.
retire_nil(q) == history' = LastN(history \o [i \in DOMAIN q |-> None], MaxHistory)

(* retire(), for the connections q in that order.                          *)
retire(q) ==
  history' = LastN(history \o [i \in DOMAIN q |-> [conns[q[i]] EXCEPT !.wire = NewConn.wire]],
                   MaxHistory)

\* Seeded fault: only connections known as TLS are retired.
Retired_tls(snap) ==
  {sk \in Socks : snap[sk] = None /\ conns[sk] # None /\ conns[sk].closed /\ conns[sk].isTLS}

(* Connections that were closed and are gone from the kernel's map.        *)
Retired(snap) == {sk \in Socks : snap[sk] = None /\ conns[sk] # None /\ conns[sk].closed}

UpdateFlows(snap) ==
  /\ \E q \in Orders(Retired(snap)) : retire(q)
  /\ conns' = [sk \in Socks |->
       IF snap[sk] # None THEN Merge(ConnAt(sk), snap[sk])
       ELSE IF sk \in Retired(snap) THEN None ELSE conns[sk]]
  /\ UNCHANGED <<pidfd, plainBySSL>>
-----------------------------------------------------------------------------
(* ApplyWire, ApplyData.                                                   *)

\* Seeded fault: a chunk that would pass the cap is skipped, later ones may fit.
AppendWire_skip(buf, w) ==
  IF buf.len + w.len <= MaxWireBuf
  THEN [chunks |-> Append(buf.chunks, [k |-> w.k, kind |-> w.kind]),
        len |-> buf.len + w.len]
  ELSE buf

AppendWire(buf, w) ==
  IF buf.len < MaxWireBuf
  THEN [chunks |-> Append(buf.chunks, [k |-> w.k, kind |-> w.kind]),
        len |-> buf.len + w.len]
  ELSE buf

(* tlsparse.Parse, as far as the store depends on it: is there a Hello at  *)
(* the start of the reassembled stream, or was one found before?           *)
Parse(buf, info) ==
  info \/ (buf.len >= HelloMin /\ buf.chunks[1].kind = "hello")

\* Seeded fault: the handshake does not clear the pre-existing mark.
ApplyWire_keepmark(w) ==
  LET c == ConnAt(w.sk)
      buf == AppendWire(c.wire[w.direction], w)
      info == Parse(buf, c.info) IN
  /\ conns' = [conns EXCEPT ![w.sk] =
       [c EXCEPT !.wire[w.direction] = buf, !.info = info, !.isTLS = @ \/ info]]
  /\ UNCHANGED <<history, pidfd, plainBySSL>>

ApplyWire(w) ==
  LET c == ConnAt(w.sk)
      buf == AppendWire(c.wire[w.direction], w)
      info == Parse(buf, c.info) IN
  /\ conns' = [conns EXCEPT ![w.sk] =
       [c EXCEPT !.wire[w.direction] = buf, !.info = info,
                 !.isTLS = @ \/ info, !.preexisting = @ /\ ~info]]
  /\ UNCHANGED <<history, pidfd, plainBySSL>>

(* appendTail: a tail of size 0 stays empty.                               *)
appendTail(chunk) == IF PeekBytes = 0 THEN None ELSE chunk

ApplyData(d) ==
  LET smp == IF plainBySSL[d.ssl] = None THEN NoSample ELSE plainBySSL[d.ssl]
      chunk == [id |-> d.id, k |-> d.k] IN
  /\ plainBySSL' = [plainBySSL EXCEPT ![d.ssl] =
       [smp EXCEPT ![d.direction] = [head |-> IF @.head = None THEN chunk ELSE @.head,
                                     tail |-> appendTail(chunk)]]]
  /\ UNCHANGED <<conns, history, pidfd>>
-----------------------------------------------------------------------------
(* resolve() and the plaintext join.                                       *)

(* procPeer: the remote endpoint of the socket the process now holds at    *)
(* fd, None if it holds none or /proc/net/tcp no longer lists it.          *)
procPeer(pid, fd) ==
  LET held == {sk \in Socks : sock[sk].pid = pid /\ sock[sk].fd = fd
                                /\ sock[sk].state \notin {"closed", "refused"}} IN
  IF held = {} THEN None ELSE sock[CHOOSE sk \in held : TRUE].remote

(* The fallback: the process's only connection, TLS or not.                *)
Sole(pid) ==
  LET own == {sk \in Socks : conns[sk] # None /\ conns[sk].pid = pid} IN
  IF Cardinality(own) = 1 THEN CHOOSE sk \in own : TRUE ELSE None

(* The answers of resolve(pid, fd): the connection found, None for nil,    *)
(* and what it leaves in pidfd.  ok: the lookup in /proc works.  Several   *)
(* connections to the same remote endpoint all match: Go takes any one.    *)
resolve(pid, fd, ok) ==
  LET cached == IF fd = None THEN None ELSE pidfd[pid][fd]
      purged == IF fd = None THEN pidfd ELSE [pidfd EXCEPT ![pid][fd] = None]
      peer == IF fd = None \/ ~ok THEN None ELSE procPeer(pid, fd)
      peers == {sk \in Socks : peer # None /\ conns[sk] # None /\ conns[sk].tuple # None
                               /\ conns[sk].tuple = peer} IN
  IF cached # None /\ conns[cached] # None THEN {[conn |-> cached, cache |-> pidfd]}
  ELSE IF peers # {}
  THEN {[conn |-> sk, cache |-> [pidfd EXCEPT ![pid][fd] = sk]] : sk \in peers}
  ELSE {[conn |-> Sole(pid), cache |-> purged]}

(* The sample of a pointer replaces the connection's plaintext.            *)
JoinSample(c, ptr) ==
  IF plainBySSL[ptr] = None THEN c ELSE [c EXCEPT !.plain = plainBySSL[ptr]]

(* In the next two, r is an answer of resolve().                           *)

\* Seeded fault: the session's sample is not dropped.
ApplyClose_kept(e, r) ==
  /\ pidfd' = r.cache
  /\ conns' = IF r.conn = None THEN conns
              ELSE [conns EXCEPT ![r.conn] = [JoinSample(@, e.ssl) EXCEPT
                      !.ptx = e.ptx, !.prx = e.prx, !.plainFinal = TRUE]]
  /\ UNCHANGED <<history, plainBySSL>>

ApplyClose(e, r) ==
  /\ pidfd' = r.cache
  /\ conns' = IF r.conn = None THEN conns
              ELSE [conns EXCEPT ![r.conn] = [JoinSample(@, e.ssl) EXCEPT
                      !.ptx = e.ptx, !.prx = e.prx, !.plainFinal = TRUE]]
  /\ plainBySSL' = [plainBySSL EXCEPT ![e.ssl] = None]
  /\ UNCHANGED history

(* UpdateSSLStats: zero the totals that are not final, ...                 *)
ZeroPlain ==
  /\ conns' = [sk \in Socks |->
       IF conns[sk] # None /\ ~conns[sk].plainFinal
       THEN [conns[sk] EXCEPT !.ptx = 0, !.prx = 0] ELSE conns[sk]]
  /\ UNCHANGED <<history, pidfd, plainBySSL>>

\* Seeded fault: a session whose sample is missing is not counted.
JoinStat_sampled(st, r) ==
  LET c == JoinSample(conns[r.conn], st.ssl) IN
  /\ pidfd' = r.cache
  /\ conns' = IF r.conn = None \/ plainBySSL[st.ssl] = None THEN conns
              ELSE [conns EXCEPT ![r.conn] =
                      [c EXCEPT !.ptx = @ + st.ptx, !.prx = @ + st.prx]]
  /\ UNCHANGED <<history, plainBySSL>>

(* ... add up one entry of the snapshot after the other, ...               *)
JoinStat(st, r) ==
  LET c == JoinSample(conns[r.conn], st.ssl) IN
  /\ pidfd' = r.cache
  /\ conns' = IF r.conn = None THEN conns
              ELSE [conns EXCEPT ![r.conn] =
                      [c EXCEPT !.ptx = @ + st.ptx, !.prx = @ + st.prx]]
  /\ UNCHANGED <<history, plainBySSL>>

\* Seeded fault: no eviction.
EvictSamples_none(live) == UNCHANGED stvars

(* ... and evict the samples of the pointers the snapshot does not list.   *)
EvictSamples(live) ==
  /\ plainBySSL' = [ptr \in Ptrs |-> IF ptr \in live THEN plainBySSL[ptr] ELSE None]
  /\ UNCHANGED <<conns, history, pidfd>>

StInit ==
  /\ conns = [sk \in Socks |-> None] /\ history = <<>>
  /\ pidfd = [p \in Pids |-> [fd \in Fds |-> None]]
  /\ plainBySSL = [ptr \in Ptrs |-> None]
=============================================================================
