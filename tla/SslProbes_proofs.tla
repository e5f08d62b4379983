-------------------------- MODULE SslProbes_proofs --------------------------
(***************************************************************************)
(* Proofs about SslProbes, for every set of processes, threads and pointer *)
(* values, all map sizes, and attachSSL complete, under way or given up at *)
(* any probe: the maps stay well formed, a return of SSL_read is counted   *)
(* for the session of its own call, and what the maps hold has an owner.   *)
(***************************************************************************)
EXTENDS SslProbes, WireProbes_proofs, FiniteSetTheorems, WellFoundedInduction

(* A session is not freed while one of its process's threads reads from it.*)
SslCallOpen ==
  \A t \in Threads : sslcall[t] # None => sess[PidOf[t]][sslcall[t].ssl] # None

(* Nothing is in a map before a probe that writes to it is attached: when  *)
(* ssl_stats or ssl_ctxs have an entry, SSL_free has been hooked.          *)
FilledLate ==
  /\ \A ptr \in Ptrs : ssl_stats[ptr] # None => attached >= 3
  /\ \A t \in Threads : ssl_ctxs[t] # None => attached >= 4

(* The inductive invariant.                                                *)
SInv == STypeOK /\ SslCallOpen /\ FilledLate /\ SslPaired /\ StatsHaveOwner

(* The data and close events the uprobes submit.                           *)
DataEvent == [type : {"data"}, direction : Dirs, len : Nat, pid : Pids,
              fd : Fds \cup {None}, ssl : Ptrs, id : Nat, k : Nat]
CloseEvent == [type : {"close"}, pid : Pids, fd : Fds \cup {None}, ssl : Ptrs,
               ptx : Nat, prx : Nat, id : Nat]
-----------------------------------------------------------------------------
(* The order of attachSSL.                                                 *)
LEMMA ProbedWhen ==
  ASSUME attached \in 0..Len(uprobes)
  PROVE  /\ attached \in 0..5
         /\ Probed("SSL_set_fd") <=> attached >= 1
         /\ Probed("SSL_free") <=> attached >= 2
         /\ Probed("SSL_write") <=> attached >= 3
         /\ Probed("SSL_read") <=> attached >= 4
         /\ Probed("SSL_read return") <=> attached >= 5
<1>1. /\ Len(uprobes) = 5
      /\ uprobes[1] = "SSL_set_fd" /\ uprobes[2] = "SSL_free" /\ uprobes[3] = "SSL_write"
      /\ uprobes[4] = "SSL_read" /\ uprobes[5] = "SSL_read return"
  BY DEF uprobes
<1>2. attached \in 0..5
  BY <1>1
<1>3. /\ \A i \in {1, 2, 3, 4, 5} : uprobes[i] = "SSL_set_fd" <=> i = 1
      /\ \A i \in {1, 2, 3, 4, 5} : uprobes[i] = "SSL_free" <=> i = 2
      /\ \A i \in {1, 2, 3, 4, 5} : uprobes[i] = "SSL_write" <=> i = 3
      /\ \A i \in {1, 2, 3, 4, 5} : uprobes[i] = "SSL_read" <=> i = 4
      /\ \A i \in {1, 2, 3, 4, 5} : uprobes[i] = "SSL_read return" <=> i = 5
  BY <1>1
<1>4. \A i \in 1..attached : i \in {1, 2, 3, 4, 5}
  BY <1>2
<1>5. \A j \in {1, 2, 3, 4, 5} : j \in 1..attached <=> attached >= j
  BY <1>2
<1> QED
  BY <1>2, <1>3, <1>4, <1>5 DEF Probed

(* ssl_stat_get gives a well-formed entry: the one that is there, or a new *)
(* one of process pid.                                                     *)
LEMMA StatGet ==
  ASSUME STypeOK, NEW ptr \in Ptrs, NEW pid \in Pids, ssl_stat_get(ptr, pid) # None
  PROVE  ssl_stat_get(ptr, pid) \in Stat
<1>1. [ptx |-> 0, prx |-> 0, pid |-> pid, fd |-> ssl_fds[ptr]] \in Stat
  BY DEF STypeOK, Stat
<1> QED
  BY <1>1 DEF ssl_stat_get, STypeOK

(* emit_plaintext changes the entry of its own pointer at most, keeps the  *)
(* map well formed and submits at most one well-formed data event.         *)
LEMMA EmitPlaintext ==
  ASSUME STypeOK, NEW t \in Threads, NEW ptr \in Ptrs, NEW b, NEW n \in Nat, NEW dir \in Dirs,
         sess[PidOf[t]][ptr] # None, emit_plaintext(t, ptr, b, n, dir)
  PROVE  /\ ssl_stats' \in [Ptrs -> Stat \cup {None}]
         /\ \A q \in Ptrs \ {ptr} : ssl_stats'[q] = ssl_stats[q]
         /\ UNCHANGED events \/ \E e \in DataEvent : events' = Append(events, e)
<1> DEFINE s == ssl_stat_get(ptr, PidOf[t])
           e == data_event(s, t, ptr, n, dir)
<1>1. PidOf[t] \in Pids
  BY WireAssumption
<1>2. s # None => s \in Stat
  BY <1>1, StatGet
<1>3. /\ \/ UNCHANGED ssl_stats
         \/ s # None /\ ssl_stats' = [ssl_stats EXCEPT ![ptr] = [s EXCEPT !.ptx = @ + n]]
         \/ s # None /\ ssl_stats' = [ssl_stats EXCEPT ![ptr] = [s EXCEPT !.prx = @ + n]]
      /\ UNCHANGED events \/ (n > 0 /\ s # None /\ events' = Append(events, e))
  <2> HIDE DEF s, e
  <2> QED
    BY DEF emit_plaintext, bpf_ringbuf_submit, s, e
<1> HIDE DEF s
<1>4. s # None => [s EXCEPT !.ptx = @ + n] \in Stat /\ [s EXCEPT !.prx = @ + n] \in Stat
  BY <1>2 DEF Stat
<1>5. n > 0 /\ s # None => e \in DataEvent
  <2> SUFFICES ASSUME n > 0, s # None PROVE e \in DataEvent
    OBVIOUS
  <2>1. sess[PidOf[t]][ptr] \in Session
    BY <1>1 DEF STypeOK
  <2>2. Capped(n, DataCap) \in Nat
    BY CappedRange, SslAssumption
  <2> QED
    BY <1>1, <1>2, <2>1, <2>2 DEF data_event, DataEvent, Session, Stat
<1> HIDE DEF e
<1> QED
  BY <1>3, <1>4, <1>5 DEF STypeOK

(* A call that moves data on: the session of the pointer stays, and so do  *)
(* all others.                                                             *)
LEMMA MovedSess ==
  ASSUME STypeOK, NEW p \in Pids, NEW ptr \in Ptrs, NEW dir \in Dirs, NEW n \in Nat,
         sess[p][ptr] # None, Moved(p, ptr, dir, n)
  PROVE  /\ sess' \in [Pids -> [Ptrs -> Session \cup {None}]]
         /\ \A q \in Pids, x \in Ptrs : sess'[q][x] = None <=> sess[q][x] = None
<1> DEFINE s == sess[p][ptr]
           r == [s EXCEPT !.k[dir] = @ + 1, !.prx = @ + n]
<1>1. s \in Session
  BY DEF STypeOK
<1>2. sess' = [sess EXCEPT ![p] = [sess[p] EXCEPT ![ptr] = r]]
  BY <1>1 DEF Moved, STypeOK, Session
<1> HIDE DEF s
<1>3. r \in Session
  <2> DEFINE kk == [s.k EXCEPT ![dir] = @ + 1]
             m == [s EXCEPT !.k = kk]
  <2>1. kk \in [Dirs -> Nat] /\ s.prx + n \in Nat
    BY <1>1 DEF Session
  <2>2. r = [m EXCEPT !.prx = s.prx + n]
    OBVIOUS
  <2> HIDE DEF kk, r
  <2>3. m \in Session
    BY <1>1, <2>1 DEF Session
  <2> HIDE DEF m
  <2> QED
    BY <2>1, <2>2, <2>3 DEF Session
<1>4. r # None
  BY <1>3, SessionAssumption
<1> HIDE DEF r
<1> QED
  BY <1>2, <1>3, <1>4 DEF STypeOK

(* A session is made or pointed elsewhere, and none goes.                  *)
LEMMA BindSess ==
  ASSUME WTypeOK, STypeOK, NEW p \in Pids, NEW ptr \in Ptrs, NEW sk \in Socks, Bind(p, ptr, sk)
  PROVE  /\ sess' \in [Pids -> [Ptrs -> Session \cup {None}]] /\ nsess' \in Nat
         /\ sess'[p][ptr] # None
         /\ \A q \in Pids, x \in Ptrs : sess[q][x] # None => sess'[q][x] # None
         /\ sock[sk].fd \in Fds
<1>1. sock[sk].fd \in Fds
  BY DEF Bind, WTypeOK, Sock
<1>2. CASE sess[p][ptr] = None
  <2> DEFINE r == [id |-> nsess + 1, sk |-> sk, prx |-> 0, k |-> [d \in Dirs |-> 0]]
  <2>1. r \in Session /\ nsess' \in Nat
    BY <1>2 DEF Session, STypeOK, Bind
  <2>2. sess' = [sess EXCEPT ![p] = [sess[p] EXCEPT ![ptr] = r]]
    BY <1>2 DEF Bind
  <2> HIDE DEF r
  <2>3. r # None
    BY <2>1, SessionAssumption
  <2> QED
    BY <1>1, <2>1, <2>2, <2>3 DEF STypeOK
<1>3. CASE sess[p][ptr] # None
  <2> DEFINE r == [sess[p][ptr] EXCEPT !.sk = sk]
  <2>1. r \in Session /\ nsess' \in Nat
    <3>1. sess[p][ptr] \in Session
      BY <1>3 DEF STypeOK
    <3>2. r \in Session
      BY <3>1 DEF Session
    <3>3. nsess' = nsess
      BY <1>3 DEF Bind
    <3> QED
      BY <3>2, <3>3 DEF STypeOK
  <2>2. sess' = [sess EXCEPT ![p] = [sess[p] EXCEPT ![ptr] = r]]
    BY <1>3 DEF Bind
  <2> HIDE DEF r
  <2>3. r # None
    BY <2>1, SessionAssumption
  <2> QED
    BY <1>1, <2>1, <2>2, <2>3 DEF STypeOK
<1> QED
  BY <1>2, <1>3

(* A session ends, and the calls inside it with it.                        *)
LEMMA EndsSess ==
  ASSUME SInv, NEW p \in Pids, NEW ptr \in Ptrs, Ends(p, ptr)
  PROVE  /\ sess' \in [Pids -> [Ptrs -> Session \cup {None}]]
         /\ \A q \in Pids, x \in Ptrs : x # ptr => sess'[q][x] = sess[q][x]
         /\ sslcall' \in [Threads -> [ssl : Ptrs, hooked : BOOLEAN] \cup {None}]
         /\ \A t \in Threads : sslcall'[t] # None => sslcall'[t] = sslcall[t]
         /\ SslCallOpen'
<1>1. sess' = [sess EXCEPT ![p] = [sess[p] EXCEPT ![ptr] = None]]
  BY DEF Ends
<1>2. \A q \in Pids, x \in Ptrs : ~(q = p /\ x = ptr) => sess'[q][x] = sess[q][x]
  BY <1>1 DEF SInv, STypeOK
<1>3. \A t \in Threads : sslcall[t] # None => PidOf[t] \in Pids /\ sslcall[t].ssl \in Ptrs
  BY WireAssumption DEF SInv, STypeOK
<1>4. \A t \in Threads : sslcall'[t] # None =>
        sslcall'[t] = sslcall[t] /\ ~(PidOf[t] = p /\ sslcall[t].ssl = ptr)
  BY DEF Ends, Reads
<1>5. SslCallOpen'
  BY <1>2, <1>3, <1>4 DEF SInv, SslCallOpen
<1>6. sslcall' \in [Threads -> [ssl : Ptrs, hooked : BOOLEAN] \cup {None}]
  BY DEF Ends, SInv, STypeOK
<1> QED
  BY <1>1, <1>2, <1>4, <1>5, <1>6 DEF SInv, STypeOK
-----------------------------------------------------------------------------
(* One lemma per probe.                                                    *)

(* SSL_set_fd and SSL_set_bio bring a session; only the former writes.     *)
LEMMA SetFdStep ==
  ASSUME WTypeOK, SInv, NEW p \in Pids, NEW ptr \in Ptrs, NEW sk \in Socks,
         u_ssl_set_fd(p, ptr, sk) \/ SSL_set_bio(p, ptr, sk), UNCHANGED <<attached, loading>>
  PROVE  SInv'
<1>1. /\ sess' \in [Pids -> [Ptrs -> Session \cup {None}]] /\ nsess' \in Nat
      /\ sess'[p][ptr] # None
      /\ \A q \in Pids, x \in Ptrs : sess[q][x] # None => sess'[q][x] # None
      /\ sock[sk].fd \in Fds
  BY BindSess DEF SInv, u_ssl_set_fd, SSL_set_bio
<1>2. /\ UNCHANGED <<ssl_stats, ssl_ctxs, sslcall, leaked, ops>>
      /\ UNCHANGED ssl_fds \/ ssl_fds' = [ssl_fds EXCEPT ![ptr] = sock[sk].fd]
  BY DEF u_ssl_set_fd, SSL_set_bio
<1>3. STypeOK'
  BY <1>1, <1>2 DEF SInv, STypeOK
<1>4. SslCallOpen'
  <2>1. \A t \in Threads : sslcall[t] # None => PidOf[t] \in Pids /\ sslcall[t].ssl \in Ptrs
    BY WireAssumption DEF SInv, STypeOK
  <2> QED
    BY <1>1, <1>2, <2>1 DEF SInv, SslCallOpen
<1>5. FilledLate' /\ SslPaired'
  BY <1>2 DEF SInv, FilledLate, SslPaired
<1>6. StatsHaveOwner'
  <2>1. \A x \in Ptrs : x # ptr => ssl_fds'[x] = ssl_fds[x]
    BY <1>2 DEF SInv, STypeOK
  <2> QED
    BY <1>1, <1>2, <2>1 DEF SInv, StatsHaveOwner
<1> QED
  BY <1>3, <1>4, <1>5, <1>6 DEF SInv

(* What emit_plaintext counts, for a live session, has that session as its *)
(* owner.                                                                  *)
LEMMA CountedStep ==
  ASSUME SInv, NEW p \in Pids, NEW ptr \in Ptrs, sess'[p][ptr] # None,
         \A q \in Pids, x \in Ptrs : sess'[q][x] = None <=> sess[q][x] = None,
         \A x \in Ptrs \ {ptr} : ssl_stats'[x] = ssl_stats[x], UNCHANGED <<ssl_fds, leaked>>
  PROVE  StatsHaveOwner'
BY DEF SInv, StatsHaveOwner

(* SSL_write counts on entry.                                              *)
LEMMA WriteStep ==
  ASSUME SInv, NEW t \in Threads, NEW ptr \in Ptrs, NEW b, NEW n \in PlainSizes,
         u_ssl_write(t, ptr, b, n), UNCHANGED <<attached, loading>>
  PROVE  SInv'
<1> DEFINE p == PidOf[t]
<1>1. p \in Pids /\ n \in Nat /\ DIR_OUT \in Dirs /\ sess[p][ptr] # None
  BY WireAssumption, SslAssumption DEF Dirs, u_ssl_write
<1>2. /\ sess' \in [Pids -> [Ptrs -> Session \cup {None}]]
      /\ \A q \in Pids, x \in Ptrs : sess'[q][x] = None <=> sess[q][x] = None
  BY <1>1, MovedSess DEF SInv, u_ssl_write
<1>3. /\ ssl_stats' \in [Ptrs -> Stat \cup {None}]
      /\ \A x \in Ptrs \ {ptr} : ssl_stats'[x] = ssl_stats[x]
      /\ UNCHANGED ssl_stats \/ attached >= 3
  <2>1. CASE Probed("SSL_write")
    <3>1. emit_plaintext(t, ptr, b, n, DIR_OUT)
      BY <2>1 DEF u_ssl_write
    <3>2. attached >= 3
      BY <2>1, ProbedWhen DEF SInv, STypeOK
    <3> QED
      BY <1>1, <3>1, <3>2, EmitPlaintext DEF SInv
  <2>2. CASE ~Probed("SSL_write")
    BY <2>2 DEF u_ssl_write, SInv, STypeOK
  <2> QED
    BY <2>1, <2>2
<1>4. ops' \in Nat /\ UNCHANGED <<ssl_fds, ssl_ctxs, sslcall, leaked, nsess>>
  BY DEF u_ssl_write, SInv, STypeOK
<1> HIDE DEF p
<1>5. STypeOK'
  BY <1>2, <1>3, <1>4 DEF SInv, STypeOK
<1>6. SslCallOpen'
  <2>1. \A u \in Threads : sslcall[u] # None => PidOf[u] \in Pids /\ sslcall[u].ssl \in Ptrs
    BY WireAssumption DEF SInv, STypeOK
  <2> QED
    BY <1>2, <1>4, <2>1 DEF SInv, SslCallOpen
<1>7. FilledLate' /\ SslPaired'
  BY <1>3, <1>4 DEF SInv, FilledLate, SslPaired
<1>8. StatsHaveOwner'
  BY <1>1, <1>2, <1>3, <1>4, CountedStep
<1> QED
  BY <1>5, <1>6, <1>7, <1>8 DEF SInv

(* SSL_read's entry overwrites its thread's stash; when the return will be *)
(* seen the entry probe was attached too, so a stash is this call's.       *)
LEMMA ReadEntryStep ==
  ASSUME SInv, NEW t \in Threads, NEW ptr \in Ptrs, NEW b \in SslBufs, NEW hooked \in BOOLEAN,
         u_ssl_read(t, ptr, b, hooked), UNCHANGED <<attached, loading>>
  PROVE  SInv'
<1>0. attached \in 0..5
  BY ProbedWhen DEF SInv, STypeOK
<1>1. /\ Probed("SSL_read") <=> attached >= 4
      /\ Probed("SSL_read return") <=> attached >= 5
  BY ProbedWhen DEF SInv, STypeOK
<1>2. /\ sslcall' = [sslcall EXCEPT ![t] = [ssl |-> ptr, hooked |-> hooked]]
      /\ sess[PidOf[t]][ptr] # None
      /\ hooked => attached >= 5
      /\ \/ UNCHANGED ssl_ctxs /\ (attached >= 4 => ssl_ctxs[t] = None)
         \/ attached >= 4 /\ ssl_ctxs' = [ssl_ctxs EXCEPT ![t] = [ssl |-> ptr, buf |-> b]]
      /\ UNCHANGED <<ssl_stats, ssl_fds, sess, leaked, nsess>>
  BY <1>1 DEF u_ssl_read, HasRoom
<1> DEFINE c == [ssl |-> ptr, hooked |-> hooked]
           x == [ssl |-> ptr, buf |-> b]
<1>3. c \in [ssl : Ptrs, hooked : BOOLEAN] /\ x \in [ssl : Ptrs, buf : SslBufs]
  OBVIOUS
<1>4. c.ssl = ptr /\ x.ssl = ptr
  BY Zenon
<1>5. ops' \in Nat
  <2>1. ops \in Nat /\ ops' = ops + 1
    BY DEF u_ssl_read, SInv, STypeOK
  <2> QED
    BY <2>1
<1>6. c.hooked => attached >= 4
  <2>1. attached >= 5 => attached >= 4
    BY <1>0
  <2> QED
    BY <1>2, <2>1, Zenon
<1> HIDE DEF c, x
<1>7. /\ sslcall' \in [Threads -> [ssl : Ptrs, hooked : BOOLEAN] \cup {None}]
      /\ sslcall'[t] = c /\ \A u \in Threads \ {t} : sslcall'[u] = sslcall[u]
  BY <1>2, <1>3 DEF SInv, STypeOK, c
<1>8. /\ ssl_ctxs' \in [Threads -> [ssl : Ptrs, buf : SslBufs] \cup {None}]
      /\ \A u \in Threads \ {t} : ssl_ctxs'[u] = ssl_ctxs[u]
      /\ ssl_ctxs'[t] = x \/ (ssl_ctxs'[t] = ssl_ctxs[t] /\ (attached >= 4 => ssl_ctxs[t] = None))
      /\ attached >= 4 \/ UNCHANGED ssl_ctxs
  BY <1>2, <1>3 DEF SInv, STypeOK, x
<1>9. STypeOK'
  BY <1>2, <1>7, <1>8, <1>5 DEF SInv, STypeOK
<1>10. SslCallOpen'
  BY <1>2, <1>4, <1>7 DEF SInv, SslCallOpen
<1>11. FilledLate'
  BY <1>2 DEF SInv, STypeOK, FilledLate
<1>12. SslPaired'
  <2> SUFFICES ASSUME NEW u \in Threads, sslcall'[u] # None, ssl_ctxs'[u] # None, sslcall'[u].hooked
               PROVE  ssl_ctxs'[u].ssl = sslcall'[u].ssl
    BY DEF SslPaired
  <2>1. CASE u # t
    BY <1>7, <1>8, <2>1 DEF SInv, SslPaired
  <2>2. CASE u = t
    <3>1. attached >= 4
      BY <1>7, <1>6, <2>2, Zenon
    <3> QED
      BY <1>4, <1>7, <1>8, <2>2, <3>1
  <2> QED
    BY <2>1, <2>2
<1>13. StatsHaveOwner'
  BY <1>2 DEF SInv, StatsHaveOwner
<1> QED
  BY <1>9, <1>10, <1>11, <1>12, <1>13 DEF SInv

(* SSL_read's return counts for the session of its own call, which is      *)
(* still there.                                                            *)
LEMMA ReadReturnStep ==
  ASSUME SInv, NEW t \in Threads, NEW ret \in PlainSizes \cup {0}, ur_ssl_read(t, ret),
         UNCHANGED <<attached, loading>>
  PROVE  SInv'
<1> DEFINE p == PidOf[t]
           ptr == sslcall[t].ssl
<1>1. /\ p \in Pids /\ ptr \in Ptrs /\ ret \in Nat /\ DIR_IN \in Dirs /\ sess[p][ptr] # None
      /\ sslcall[t] # None
  <2>1. sslcall[t] # None
    BY DEF ur_ssl_read
  <2>2. sess[p][ptr] # None
    BY <2>1 DEF SInv, SslCallOpen
  <2>3. ret \in Nat /\ DIR_IN \in Dirs /\ p \in Pids
    BY WireAssumption, SslAssumption DEF Dirs
  <2>4. ptr \in Ptrs
    BY <2>1 DEF SInv, STypeOK
  <2> QED
    BY <2>1, <2>2, <2>3, <2>4
<1>2. /\ sess' \in [Pids -> [Ptrs -> Session \cup {None}]]
      /\ \A q \in Pids, x \in Ptrs : sess'[q][x] = None <=> sess[q][x] = None
  BY <1>1, MovedSess DEF SInv, ur_ssl_read
<1>3. /\ ssl_stats' \in [Ptrs -> Stat \cup {None}]
      /\ \A x \in Ptrs \ {ptr} : ssl_stats'[x] = ssl_stats[x]
      /\ UNCHANGED ssl_stats \/ attached >= 3
      /\ UNCHANGED ssl_ctxs \/ ssl_ctxs' = [ssl_ctxs EXCEPT ![t] = None]
  <2>1. CASE sslcall[t].hooked /\ ssl_ctxs[t] # None
    <3>0. attached \in 0..5
      BY ProbedWhen DEF SInv, STypeOK
    <3>1. ssl_ctxs[t].ssl = ptr /\ attached >= 3
      BY <1>1, <2>1, <3>0 DEF SInv, SslPaired, FilledLate
    <3>2. emit_plaintext(t, ptr, ssl_ctxs[t].buf, ret, DIR_IN)
      BY <2>1, <3>1 DEF ur_ssl_read
    <3>3. /\ ssl_stats' \in [Ptrs -> Stat \cup {None}]
          /\ \A x \in Ptrs \ {ptr} : ssl_stats'[x] = ssl_stats[x]
      BY <1>1, <3>2, EmitPlaintext DEF SInv
    <3> QED
      BY <2>1, <3>1, <3>3 DEF ur_ssl_read
  <2>2. CASE ~(sslcall[t].hooked /\ ssl_ctxs[t] # None)
    BY <2>2 DEF ur_ssl_read, SInv, STypeOK
  <2> QED
    BY <2>1, <2>2
<1>4. sslcall' = [sslcall EXCEPT ![t] = None] /\ UNCHANGED <<ssl_fds, leaked, nsess, ops>>
  BY DEF ur_ssl_read
<1> HIDE DEF p, ptr
<1>5. STypeOK'
  BY <1>2, <1>3, <1>4 DEF SInv, STypeOK
<1>6. SslCallOpen'
  <2>1. \A u \in Threads : sslcall[u] # None => PidOf[u] \in Pids /\ sslcall[u].ssl \in Ptrs
    BY WireAssumption DEF SInv, STypeOK
  <2>2. \A u \in Threads : sslcall'[u] # None => sslcall'[u] = sslcall[u]
    BY <1>4 DEF SInv, STypeOK
  <2> QED
    BY <1>2, <2>1, <2>2 DEF SInv, SslCallOpen
<1>7. FilledLate'
  BY <1>3 DEF SInv, STypeOK, FilledLate
<1>8. SslPaired'
  BY <1>3, <1>4 DEF SInv, STypeOK, SslPaired
<1>9. StatsHaveOwner'
  BY <1>1, <1>2, <1>3, <1>4, CountedStep
<1> QED
  BY <1>5, <1>6, <1>7, <1>8, <1>9 DEF SInv

(* The end of a session: SSL_free takes the pointer's entries with it.     *)
(* Before SSL_free is hooked there is none in ssl_stats to be left behind, *)
(* as the probes that write there are hooked later.                        *)
LEMMA EndStep ==
  ASSUME SInv, NEW p \in Pids, NEW ptr \in Ptrs,
         u_ssl_free(p, ptr) \/ UnseenFree(p, ptr) \/ Abandon(p, ptr),
         UNCHANGED <<attached, loading>>
  PROVE  SInv'
<1>1. Ends(p, ptr) /\ UNCHANGED <<ssl_ctxs, nsess, ops>>
  BY DEF u_ssl_free, UnseenFree, Abandon, Frees
<1>2. /\ sess' \in [Pids -> [Ptrs -> Session \cup {None}]]
      /\ \A q \in Pids, x \in Ptrs : x # ptr => sess'[q][x] = sess[q][x]
      /\ sslcall' \in [Threads -> [ssl : Ptrs, hooked : BOOLEAN] \cup {None}]
      /\ SslCallOpen'
  BY <1>1, EndsSess
<1>6. SslPaired'
  BY <1>1, EndsSess DEF SInv, SslPaired
<1>3. CASE u_ssl_free(p, ptr)
  <2>1. /\ ssl_stats' = [ssl_stats EXCEPT ![ptr] = None] /\ ssl_fds' = [ssl_fds EXCEPT ![ptr] = None]
        /\ leaked' = {l \in leaked : l[2] # ptr}
    BY <1>3 DEF u_ssl_free
  <2>2. STypeOK' /\ FilledLate'
    BY <1>1, <1>2, <2>1 DEF SInv, STypeOK, FilledLate
  <2>3. StatsHaveOwner'
    <3>1. \A m : \A x \in Ptrs : x # ptr /\ <<m, x>> \notin leaked' => <<m, x>> \notin leaked
      BY <2>1
    <3>2. ssl_stats'[ptr] = None /\ ssl_fds'[ptr] = None
      BY <2>1 DEF SInv, STypeOK
    <3>3. \A x \in Ptrs : x # ptr => ssl_stats'[x] = ssl_stats[x] /\ ssl_fds'[x] = ssl_fds[x]
      BY <2>1 DEF SInv, STypeOK
    <3> QED
      BY <1>2, <3>1, <3>2, <3>3 DEF SInv, StatsHaveOwner
  <2> QED
    BY <1>1, <1>2, <1>6, <2>2, <2>3 DEF SInv
<1>4. CASE UnseenFree(p, ptr)
  <2>1. /\ UNCHANGED <<ssl_stats, ssl_fds>>
        /\ leaked' = leaked \cup {<<"ssl_fds", ptr>>}
    BY <1>4 DEF UnseenFree
  <2>2. STypeOK' /\ FilledLate'
    BY <1>1, <1>2, <2>1 DEF SInv, STypeOK, FilledLate
  <2>3. ssl_stats[ptr] = None
    <3>1. attached \in 0..5 /\ ~(attached >= 2)
      BY <1>4, ProbedWhen DEF UnseenFree, SInv, STypeOK
    <3> QED
      BY <3>1 DEF SInv, FilledLate
  <2>4. StatsHaveOwner'
    BY <1>2, <2>1, <2>3 DEF SInv, StatsHaveOwner
  <2> QED
    BY <1>1, <1>2, <1>6, <2>2, <2>4 DEF SInv
<1>5. CASE Abandon(p, ptr)
  <2>1. /\ UNCHANGED <<ssl_stats, ssl_fds>>
        /\ leaked' = leaked \cup {<<"ssl_fds", ptr>>, <<"ssl_stats", ptr>>}
    BY <1>5 DEF Abandon
  <2>2. STypeOK' /\ FilledLate'
    BY <1>1, <1>2, <2>1 DEF SInv, STypeOK, FilledLate
  <2>3. StatsHaveOwner'
    BY <1>2, <2>1 DEF SInv, StatsHaveOwner
  <2> QED
    BY <1>1, <1>2, <1>6, <2>2, <2>3 DEF SInv
<1> QED
  BY <1>3, <1>4, <1>5

(* Every call of the library, with the probes it fires, keeps SInv.        *)
LEMMA SNextInv ==
  ASSUME WTypeOK, SInv, SNext
  PROVE  SInv'
<1>1. UNCHANGED <<attached, loading>> /\ Sessions
  BY DEF SNext
<1>2. ASSUME NEW t \in Threads, NEW ptr \in Ptrs, NEW b \in SslBufs, NEW n \in PlainSizes,
             u_ssl_write(t, ptr, b, n)
      PROVE  SInv'
  BY <1>1, <1>2, WriteStep
<1> QED
  BY <1>1, <1>2, SetFdStep, EndStep, ReadEntryStep, ReadReturnStep DEF Sessions

(* Every call of the library submits at most one event, well formed.       *)
LEMMA SslEvents ==
  ASSUME SInv, SNext
  PROVE  UNCHANGED events \/ \E e \in DataEvent \cup CloseEvent : events' = Append(events, e)
<1> DEFINE Goal == UNCHANGED events \/ \E e \in DataEvent \cup CloseEvent : events' = Append(events, e)
<1>1. ASSUME NEW t \in Threads, NEW ptr \in Ptrs, NEW b \in SslBufs, NEW n \in PlainSizes,
             u_ssl_write(t, ptr, b, n)
      PROVE  Goal
  <2>1. n \in Nat /\ DIR_OUT \in Dirs /\ sess[PidOf[t]][ptr] # None
    BY <1>1, SslAssumption DEF Dirs, u_ssl_write
  <2>2. UNCHANGED events \/ emit_plaintext(t, ptr, b, n, DIR_OUT)
    BY <1>1 DEF u_ssl_write
  <2> QED
    BY <2>1, <2>2, EmitPlaintext DEF SInv
<1>2. ASSUME NEW t \in Threads, NEW ret \in PlainSizes \cup {0}, ur_ssl_read(t, ret)
      PROVE  Goal
  <2>1. CASE UNCHANGED events
    BY <2>1
  <2>2. CASE sslcall[t].hooked /\ ssl_ctxs[t] # None
    <3>1. sslcall[t] # None
      BY <1>2 DEF ur_ssl_read
    <3>2. ssl_ctxs[t].ssl \in Ptrs /\ ssl_ctxs[t].ssl = sslcall[t].ssl
      BY <2>2, <3>1 DEF SInv, SslPaired, STypeOK
    <3>3. sess[PidOf[t]][ssl_ctxs[t].ssl] # None
      BY <3>1, <3>2 DEF SInv, SslCallOpen
    <3>4. ret \in Nat /\ DIR_IN \in Dirs
      BY SslAssumption DEF Dirs
    <3>5. emit_plaintext(t, ssl_ctxs[t].ssl, ssl_ctxs[t].buf, ret, DIR_IN)
      BY <1>2, <2>2 DEF ur_ssl_read
    <3> QED
      BY <3>2, <3>3, <3>4, <3>5, EmitPlaintext DEF SInv
  <2> QED
    BY <1>2, <2>1, <2>2 DEF ur_ssl_read
<1>3. ASSUME NEW p \in Pids, NEW ptr \in Ptrs, u_ssl_free(p, ptr)
      PROVE  Goal
  <2> DEFINE s == ssl_stats[ptr]
             e == [type |-> "close", pid |-> p, fd |-> s.fd, ssl |-> ptr,
                   ptx |-> s.ptx, prx |-> s.prx, id |-> sess[p][ptr].id]
  <2>1. UNCHANGED events \/ (s # None /\ events' = Append(events, e))
    BY <1>3 DEF u_ssl_free, close_event, bpf_ringbuf_submit
  <2>2. sess[p][ptr] \in Session
    BY <1>3 DEF u_ssl_free, Frees, Ends, SInv, STypeOK
  <2>3. s # None => s \in Stat
    BY DEF SInv, STypeOK
  <2>4. s # None => e \in CloseEvent
    BY <2>2, <2>3 DEF CloseEvent, Session, Stat
  <2> HIDE DEF e
  <2> QED
    BY <2>1, <2>4
<1> QED
  BY <1>1, <1>2, <1>3
     DEF SNext, Sessions, u_ssl_set_fd, SSL_set_bio, UnseenFree, Abandon, u_ssl_read

(* attachSSL hooks one more probe, or New returns.                         *)
LEMMA AttachInv ==
  ASSUME SInv, attachSSL \/ NewReturns
  PROVE  SInv'
<1>0. Len(uprobes) = 5 /\ attached \in 0..5 /\ loading \in BOOLEAN
  BY ProbedWhen DEF SInv, STypeOK, uprobes
<1>1. /\ attached' \in 0..Len(uprobes) /\ attached' >= attached
      /\ loading' \in BOOLEAN
  <2>1. attached' = attached \/ (attached < 5 /\ attached' = attached + 1)
    BY <1>0, Zenon DEF attachSSL, NewReturns
  <2>2. loading' \in BOOLEAN
    BY <1>0, Zenon DEF attachSSL, NewReturns
  <2>3. UNCHANGED uprobes
    BY DEF uprobes
  <2> QED
    BY <1>0, <2>1, <2>2, <2>3
<1>2. UNCHANGED <<ssl_stats, ssl_fds, ssl_ctxs, sess, sslcall, leaked, nsess, ops>>
  BY DEF attachSSL, NewReturns
<1>3. STypeOK'
  BY <1>1, <1>2 DEF SInv, STypeOK
<1>4. FilledLate'
  BY <1>0, <1>1, <1>2 DEF SInv, FilledLate
<1> QED
  BY <1>2, <1>3, <1>4 DEF SInv, SslCallOpen, SslPaired, StatsHaveOwner

(* The maps start empty, whatever is attached.                             *)
LEMMA SInitInv ==
  ASSUME SInit, attached \in 0..Len(uprobes), loading \in BOOLEAN
  PROVE  SInv
<1>1. STypeOK
  BY DEF SInit, STypeOK
<1> QED
  BY <1>1 DEF SInit, SInv, SslCallOpen, FilledLate, SslPaired, StatsHaveOwner
-----------------------------------------------------------------------------
(* Totals over finite sets.                                                *)

(* One unfolding of the recursion in Total, on the set T.                  *)
AnyOf(T) == CHOOSE x \in T : TRUE
AddStep(f, a, T) == IF T = {} THEN 0 ELSE f[AnyOf(T)] + a[T \ {AnyOf(T)}]

(* a is that recursion's function on the sets in D.                        *)
Adds(f, D, a) == a = [T \in D |-> AddStep(f, a, T)]

(* The sets the recursion has reached after n unfoldings.                  *)
UpTo(S, n) == {T \in SUBSET S : Cardinality(T) <= n}

(* A set without one of its elements.                                      *)
LEMMA Rest ==
  ASSUME NEW S, IsFiniteSet(S), NEW T \in SUBSET S, T # {}
  PROVE  /\ AnyOf(T) \in T /\ T \ {AnyOf(T)} \in SUBSET S
         /\ Cardinality(T) \in Nat /\ Cardinality(T) > 0
         /\ Cardinality(T \ {AnyOf(T)}) = Cardinality(T) - 1
<1>1. AnyOf(T) \in T
  BY DEF AnyOf
<1>2. IsFiniteSet(T)
  BY FS_Subset
<1>3. Cardinality(T) \in Nat /\ Cardinality(T \ {AnyOf(T)}) = Cardinality(T) - 1
  BY <1>1, <1>2, FS_RemoveElement, FS_CardinalityType
<1>4. Cardinality(T) > 0
  BY <1>2, <1>3, FS_EmptySet
<1> QED
  BY <1>1, <1>3, <1>4

(* A set of numbers has a smallest one.                                    *)
LEMMA Smallest ==
  ASSUME NEW B \in SUBSET Nat, B # {}
  PROVE  \E n \in B : \A k \in B : k >= n
<1>1. PICK n \in B : \A k \in B : ~(<<k, n>> \in OpToRel(<, Nat))
  BY WFMin, NatLessThanWellFounded
<1>2. \A k \in B : ~(k < n)
  BY <1>1 DEF OpToRel
<1> QED
  BY <1>2

(* The recursion has a function on the sets of up to n elements: at the    *)
(* first n without one, unfolding the one before would give it.            *)
LEMMA AddsExists ==
  ASSUME NEW f, IsFiniteSet(DOMAIN f), NEW n \in Nat
  PROVE  \E a : Adds(f, UpTo(DOMAIN f, n), a)
<1> DEFINE S == DOMAIN f
           B == {i \in Nat : ~ \E a : Adds(f, UpTo(S, i), a)}
<1> SUFFICES ASSUME B # {} PROVE FALSE
  OBVIOUS
<1>1. PICK i \in B : \A k \in B : k >= i
  <2> HIDE DEF B
  <2>1. B \in SUBSET Nat
    BY DEF B
  <2> QED
    BY <2>1, Smallest
<1>2. i \in Nat /\ ~ \E a : Adds(f, UpTo(S, i), a)
  OBVIOUS
<1>3. i > 0 => \E a : Adds(f, UpTo(S, i - 1), a)
  BY <1>1, <1>2
<1> HIDE DEF B, S
<1>4. ASSUME NEW T \in SUBSET S, T # {}
      PROVE  /\ T \ {AnyOf(T)} \in SUBSET S /\ Cardinality(T) \in Nat /\ Cardinality(T) > 0
             /\ Cardinality(T \ {AnyOf(T)}) = Cardinality(T) - 1
  BY <1>4, Rest DEF S
<1>5. CASE i = 0
  <2> DEFINE a == [T \in UpTo(S, 0) |-> 0]
  <2>1. \A T \in UpTo(S, 0) : T = {}
    <3> SUFFICES ASSUME NEW T \in SUBSET S, Cardinality(T) <= 0, T # {} PROVE FALSE
      BY DEF UpTo
    <3>1. Cardinality(T) \in Nat /\ Cardinality(T) > 0
      BY <1>4, Zenon
    <3> QED
      BY <3>1
  <2>2. Adds(f, UpTo(S, 0), a)
    BY <2>1 DEF Adds, AddStep
  <2> QED
    BY <1>2, <1>5, <2>2
<1>6. CASE i > 0
  <2>1. PICK a : Adds(f, UpTo(S, i - 1), a)
    BY <1>3, <1>6
  <2> DEFINE b == [T \in UpTo(S, i) |-> AddStep(f, a, T)]
  <2>2. \A T \in UpTo(S, i - 1) : T \in UpTo(S, i) /\ b[T] = a[T]
    <3> SUFFICES ASSUME NEW T \in UpTo(S, i - 1) PROVE T \in UpTo(S, i) /\ b[T] = a[T]
      OBVIOUS
    <3>1. T \in UpTo(S, i)
      <4>1. CASE T = {}
        BY <1>2, <1>6, <4>1, FS_EmptySet DEF UpTo
      <4>2. CASE T # {}
        <5>1. T \in SUBSET S /\ Cardinality(T) <= i - 1
          BY DEF UpTo
        <5>2. Cardinality(T) \in Nat
          BY <1>4, <4>2, <5>1, Zenon
        <5>3. Cardinality(T) <= i
          BY <1>2, <5>1, <5>2
        <5> QED
          BY <5>1, <5>3 DEF UpTo
      <4> QED
        BY <4>1, <4>2
    <3>2. a[T] = AddStep(f, a, T)
      BY <2>1 DEF Adds
    <3> QED
      BY <3>1, <3>2
  <2>3. \A T \in UpTo(S, i) : AddStep(f, b, T) = AddStep(f, a, T)
    <3> SUFFICES ASSUME NEW T \in UpTo(S, i), T # {} PROVE AddStep(f, b, T) = AddStep(f, a, T)
      BY DEF AddStep
    <3>1. T \ {AnyOf(T)} \in UpTo(S, i - 1)
      BY <1>2, <1>4 DEF UpTo
    <3>2. b[T \ {AnyOf(T)}] = a[T \ {AnyOf(T)}]
      BY <2>2, <3>1
    <3> HIDE DEF b
    <3> QED
      BY <3>2 DEF AddStep
  <2>4. Adds(f, UpTo(S, i), b)
    <3>1. b = [T \in UpTo(S, i) |-> AddStep(f, b, T)]
      <4> DEFINE c == [T \in UpTo(S, i) |-> AddStep(f, b, T)]
      <4>1. \A T \in UpTo(S, i) : b[T] = c[T]
        BY <2>3
      <4> QED
        BY <4>1
    <3> HIDE DEF b
    <3> QED
      BY <3>1 DEF Adds
  <2> QED
    BY <1>2, <2>4
<1> QED
  BY <1>2, <1>5, <1>6

(* Total is what its defining recursion says.                              *)
LEMMA TotalAdds ==
  ASSUME NEW f, IsFiniteSet(DOMAIN f)
  PROVE  \E a : Adds(f, SUBSET DOMAIN f, a) /\ Total(f) = a[DOMAIN f]
<1> DEFINE S == DOMAIN f
           n == Cardinality(S)
<1>1. n \in Nat /\ UpTo(S, n) = SUBSET S
  <2>1. n \in Nat
    BY FS_CardinalityType
  <2>2. \A T \in SUBSET S : Cardinality(T) <= n
    BY FS_Subset
  <2> QED
    BY <2>1, <2>2 DEF UpTo
<1>2. \E a : Adds(f, SUBSET S, a)
  BY <1>1, AddsExists
<1>3. Total(f) = (CHOOSE a : Adds(f, SUBSET S, a))[S]
  BY DEF Total, Adds, AddStep, AnyOf
<1> QED
  BY <1>2, <1>3

(* g gives n more than f at y, and the same everywhere else.               *)
MoreAt(f, g, y, n) == g = [f EXCEPT ![y] = @ + n]

(* A total is a number, and n more at one element make it n more, in       *)
(* whatever order the elements are added.                                  *)
LEMMA TotalMore ==
  ASSUME NEW S, IsFiniteSet(S), NEW f \in [S -> Nat], NEW y \in S, NEW n \in Nat,
         NEW g \in [S -> Nat], MoreAt(f, g, y, n)
  PROVE  Total(f) \in Nat /\ Total(g) = Total(f) + n
<1>1. PICK a : Adds(f, SUBSET S, a) /\ Total(f) = a[S]
  <2>1. DOMAIN f = S
    OBVIOUS
  <2> QED
    BY <2>1, TotalAdds
<1>2. PICK b : Adds(g, SUBSET S, b) /\ Total(g) = b[S]
  <2>1. DOMAIN g = S
    OBVIOUS
  <2> QED
    BY <2>1, TotalAdds
<1>3. \A T \in SUBSET S : a[T] = AddStep(f, a, T) /\ b[T] = AddStep(g, b, T)
  BY <1>1, <1>2 DEF Adds
<1> DEFINE Good(T) == a[T] \in Nat /\ b[T] = a[T] + (IF y \in T THEN n ELSE 0)
           B == {i \in Nat : \E T \in SUBSET S : Cardinality(T) = i /\ ~Good(T)}
<1>4. ASSUME B # {} PROVE FALSE
  <2>1. PICK i \in B : \A k \in B : k >= i
    <3> HIDE DEF B
    <3>1. B \in SUBSET Nat
      BY DEF B
    <3> QED
      BY <1>4, <3>1, Smallest
  <2>2. PICK T \in SUBSET S : Cardinality(T) = i /\ ~Good(T)
    OBVIOUS
  <2>3. T # {}
    <3> SUFFICES ASSUME T = {} PROVE FALSE
      OBVIOUS
    <3>1. a[T] = 0 /\ b[T] = 0
      BY <1>3 DEF AddStep
    <3> QED
      BY <2>2, <3>1
  <2> DEFINE x == AnyOf(T)
             R == T \ {x}
  <2>4. /\ x \in T /\ R \in SUBSET S /\ Cardinality(T) \in Nat
        /\ Cardinality(R) = Cardinality(T) - 1 /\ Cardinality(T) > 0
    BY <2>3, Rest
  <2>5. Good(R)
    <3> HIDE DEF Good, R, x
    <3> QED
      BY <2>1, <2>2, <2>4
  <2>6. a[T] = f[x] + a[R] /\ b[T] = g[x] + b[R]
    BY <1>3, <2>3 DEF AddStep
  <2>7. f[x] \in Nat /\ g[x] = f[x] + (IF x = y THEN n ELSE 0) /\ (y \in T <=> x = y \/ y \in R)
        /\ (x = y => y \notin R)
    BY <2>4 DEF MoreAt
  <2>8. Good(T)
    <3> HIDE DEF x, R
    <3>1. CASE x = y
      BY <2>5, <2>6, <2>7, <3>1
    <3>2. CASE x # y
      BY <2>5, <2>6, <2>7, <3>2
    <3> QED
      BY <3>1, <3>2
  <2> QED
    BY <2>2, <2>8
<1>5. Good(S)
  <2>1. Cardinality(S) \in Nat
    BY FS_CardinalityType
  <2> HIDE DEF Good
  <2> QED
    BY <1>4, <2>1
<1> QED
  BY <1>1, <1>2, <1>5
-----------------------------------------------------------------------------
(* What was read and what the entries say of it.                           *)

\* prx of the entry at ptr; no entry counts nothing.
Counted(ptr) == IF ssl_stats[ptr] = None THEN 0 ELSE ssl_stats[ptr].prx

(* ReadBy is a number per process.                                         *)
LEMMA ReadByType ==
  ASSUME STypeOK, NEW ptr \in Ptrs
  PROVE  ReadBy(ptr) \in [Pids -> Nat]
<1>1. \A p \in Pids : sess[p][ptr] # None => sess[p][ptr].prx \in Nat
  BY DEF STypeOK, Session
<1> QED
  BY <1>1 DEF ReadBy

(* A step that lets the entry at ptr grow by no more than the session of p *)
(* reads keeps the entry within what the sessions read.                    *)
LEMMA GrowsTogether ==
  ASSUME SInv, STypeOK', PrxOfLiveSessions, NEW ptr \in Ptrs, NEW p \in Pids, NEW n \in Nat,
         ReadBy(ptr)' = [ReadBy(ptr) EXCEPT ![p] = @ + n],
         ssl_stats'[ptr] # None => ssl_stats'[ptr].prx <= Counted(ptr) + n,
         <<"ssl_stats", ptr>> \notin leaked, ssl_stats'[ptr] # None
  PROVE  ssl_stats'[ptr].prx <= Total(ReadBy(ptr))'
<1> DEFINE f == ReadBy(ptr)
           g == ReadBy(ptr)'
<1>1. f \in [Pids -> Nat] /\ g \in [Pids -> Nat]
  <2>1. f \in [Pids -> Nat]
    BY ReadByType DEF SInv
  <2> HIDE DEF f
  <2>2. f[p] + n \in Nat
    BY <2>1
  <2> QED
    BY <2>1, <2>2 DEF f
<1>2. Total(f) \in Nat /\ Total(g) = Total(f) + n
  <2>1. IsFiniteSet(Pids) /\ MoreAt(f, g, p, n)
    BY SslAssumption DEF MoreAt
  <2> HIDE DEF f, g
  <2> QED
    BY <1>1, <2>1, TotalMore
<1>3. Counted(ptr) \in Nat /\ Counted(ptr) <= Total(f)
  <2>1. ssl_stats[ptr] # None => ssl_stats[ptr].prx \in Nat
    BY DEF SInv, STypeOK, Stat
  <2>2. ssl_stats[ptr] # None => ssl_stats[ptr].prx <= Total(f)
    BY DEF PrxOfLiveSessions
  <2> HIDE DEF f
  <2> QED
    BY <1>2, <2>1, <2>2 DEF Counted
<1>4. ssl_stats'[ptr].prx \in Nat
  BY DEF STypeOK, Stat
<1>5. Total(ReadBy(ptr))' = Total(g)
  BY DEF Total
<1> HIDE DEF f, g
<1> QED
  BY <1>2, <1>3, <1>4, <1>5

(* An entry that stays as it is, with the sessions' readings, is still     *)
(* within them.                                                            *)
LEMMA SameRead ==
  ASSUME PrxOfLiveSessions, NEW x \in Ptrs, ReadBy(x)' = ReadBy(x), ssl_stats'[x] = ssl_stats[x],
         <<"ssl_stats", x>> \notin leaked, ssl_stats'[x] # None
  PROVE  ssl_stats'[x].prx <= Total(ReadBy(x))'
<1>1. Total(ReadBy(x))' = Total(ReadBy(x))
  BY DEF Total
<1>2. ssl_stats[x].prx <= Total(ReadBy(x))
  BY DEF PrxOfLiveSessions
<1> QED
  BY <1>1, <1>2

(* A call that moves data on adds what was read to its own session only.   *)
LEMMA MovedRead ==
  ASSUME STypeOK, NEW p \in Pids, NEW ptr \in Ptrs, NEW dir \in Dirs, NEW n \in Nat,
         sess[p][ptr] # None, Moved(p, ptr, dir, n)
  PROVE  /\ ReadBy(ptr)' = [ReadBy(ptr) EXCEPT ![p] = @ + n]
         /\ \A x \in Ptrs \ {ptr} : ReadBy(x)' = ReadBy(x)
<1> DEFINE s == sess[p][ptr]
           r == [s EXCEPT !.k[dir] = @ + 1, !.prx = @ + n]
<1>1. s \in Session
  BY DEF STypeOK
<1>2. sess' = [sess EXCEPT ![p] = [sess[p] EXCEPT ![ptr] = r]]
  BY <1>1 DEF Moved, STypeOK, Session
<1>3. r.prx = s.prx + n
  BY <1>1 DEF Session
<1>4. sess'[p][ptr] # None
  BY MovedSess
<1> HIDE DEF r
<1>5. sess'[p][ptr] = r /\ \A q \in Pids, x \in Ptrs : ~(q = p /\ x = ptr) => sess'[q][x] = sess[q][x]
  BY <1>2 DEF STypeOK
<1>6. \A x \in Ptrs \ {ptr} : ReadBy(x)' = ReadBy(x)
  BY <1>5 DEF ReadBy
<1>7. ReadBy(ptr)' = [ReadBy(ptr) EXCEPT ![p] = @ + n]
  <2> DEFINE f == ReadBy(ptr)
             h == ReadBy(ptr)'
  <2>1. f = [q \in Pids |-> f[q]] /\ h = [q \in Pids |-> h[q]]
    BY DEF ReadBy
  <2>2. \A q \in Pids \ {p} : h[q] = f[q]
    BY <1>5 DEF ReadBy
  <2>3. h[p] = r.prx /\ f[p] = s.prx
    BY <1>4, <1>5 DEF ReadBy
  <2> HIDE DEF f, h, s
  <2>4. h = [f EXCEPT ![p] = @ + n]
    BY <1>3, <2>1, <2>2, <2>3
  <2> QED
    BY <2>4 DEF f, h
<1> QED
  BY <1>6, <1>7

(* emit_plaintext adds n to prx at most, and nothing for a write.          *)
LEMMA EmitPrx ==
  ASSUME STypeOK, NEW t \in Threads, NEW ptr \in Ptrs, NEW b, NEW n \in Nat, NEW dir \in Dirs,
         emit_plaintext(t, ptr, b, n, dir), ssl_stats'[ptr] # None
  PROVE  /\ ssl_stats'[ptr].prx <= Counted(ptr) + n
         /\ dir = DIR_OUT => ssl_stats'[ptr].prx <= Counted(ptr)
<1> DEFINE s == ssl_stat_get(ptr, PidOf[t])
<1>1. \/ UNCHANGED ssl_stats
      \/ s # None /\ dir = DIR_OUT /\ ssl_stats' = [ssl_stats EXCEPT ![ptr] = [s EXCEPT !.ptx = @ + n]]
      \/ s # None /\ dir # DIR_OUT /\ ssl_stats' = [ssl_stats EXCEPT ![ptr] = [s EXCEPT !.prx = @ + n]]
  <2> HIDE DEF s
  <2> QED
    BY DEF emit_plaintext, s
<1>2. s # None => s \in Stat /\ s.prx = Counted(ptr)
  <2>1. PidOf[t] \in Pids
    BY WireAssumption
  <2>2. s # None => s \in Stat
    BY <2>1, StatGet
  <2> QED
    BY <2>2 DEF ssl_stat_get, Counted
<1>3. ssl_stats[ptr] # None => ssl_stats[ptr].prx \in Nat
  BY DEF STypeOK, Stat
<1> HIDE DEF s
<1>4. CASE UNCHANGED ssl_stats
  BY <1>3, <1>4 DEF Counted
<1>5. CASE s # None /\ dir = DIR_OUT /\ ssl_stats' = [ssl_stats EXCEPT ![ptr] = [s EXCEPT !.ptx = @ + n]]
  <2>1. ssl_stats'[ptr].prx = s.prx /\ s.prx \in Nat
    BY <1>2, <1>5 DEF STypeOK, Stat
  <2> QED
    BY <1>2, <1>5, <2>1
<1>6. CASE s # None /\ dir # DIR_OUT /\ ssl_stats' = [ssl_stats EXCEPT ![ptr] = [s EXCEPT !.prx = @ + n]]
  <2>1. ssl_stats'[ptr].prx = s.prx + n /\ s.prx \in Nat
    BY <1>2, <1>6 DEF STypeOK, Stat
  <2> QED
    BY <1>2, <1>6, <2>1
<1> QED
  BY <1>1, <1>4, <1>5, <1>6

(* A new session has read nothing yet.                                     *)
LEMMA BindRead ==
  ASSUME STypeOK, NEW p \in Pids, NEW ptr \in Ptrs, NEW sk \in Socks, Bind(p, ptr, sk)
  PROVE  \A x \in Ptrs : ReadBy(x)' = ReadBy(x)
<1>1. CASE sess[p][ptr] = None
  <2> DEFINE r == [id |-> nsess + 1, sk |-> sk, prx |-> 0, k |-> [d \in Dirs |-> 0]]
  <2>1. sess' = [sess EXCEPT ![p] = [sess[p] EXCEPT ![ptr] = r]] /\ r.prx = 0
    BY <1>1 DEF Bind
  <2> HIDE DEF r
  <2>2. sess'[p][ptr] = r /\ \A q \in Pids, x \in Ptrs : ~(q = p /\ x = ptr) => sess'[q][x] = sess[q][x]
    BY <2>1 DEF STypeOK
  <2>3. \A q \in Pids, x \in Ptrs : (IF sess'[q][x] = None THEN 0 ELSE sess'[q][x].prx)
                                      = (IF sess[q][x] = None THEN 0 ELSE sess[q][x].prx)
    BY <1>1, <2>1, <2>2
  <2> QED
    BY <2>3 DEF ReadBy
<1>2. CASE sess[p][ptr] # None
  <2> DEFINE r == [sess[p][ptr] EXCEPT !.sk = sk]
  <2>1. sess' = [sess EXCEPT ![p] = [sess[p] EXCEPT ![ptr] = r]]
    BY <1>2 DEF Bind
  <2>2. r.prx = sess[p][ptr].prx /\ sess[p][ptr] \in Session
    BY <1>2 DEF STypeOK, Session
  <2>3. r # None
    <3>1. r \in Session
      BY <2>2 DEF Session
    <3> QED
      BY <3>1, SessionAssumption
  <2> HIDE DEF r
  <2>4. sess'[p][ptr] = r /\ \A q \in Pids, x \in Ptrs : ~(q = p /\ x = ptr) => sess'[q][x] = sess[q][x]
    BY <2>1 DEF STypeOK
  <2>5. \A q \in Pids, x \in Ptrs : (IF sess'[q][x] = None THEN 0 ELSE sess'[q][x].prx)
                                      = (IF sess[q][x] = None THEN 0 ELSE sess[q][x].prx)
    BY <1>2, <2>2, <2>3, <2>4
  <2> QED
    BY <2>5 DEF ReadBy
<1> QED
  BY <1>1, <1>2

(* Every call of the library keeps prx within what the live sessions read. *)
LEMMA PrxNext ==
  ASSUME WTypeOK, SInv, PrxOfLiveSessions, SNext
  PROVE  PrxOfLiveSessions'
<1> SUFFICES ASSUME NEW x \in Ptrs, ssl_stats'[x] # None, <<"ssl_stats", x>> \notin leaked'
             PROVE  ssl_stats'[x].prx <= Total(ReadBy(x))'
  BY DEF PrxOfLiveSessions
<1>0. Sessions /\ STypeOK' /\ STypeOK
  BY SNextInv DEF SNext, SInv
<1>1. ASSUME NEW p \in Pids, NEW ptr \in Ptrs, NEW sk \in Socks,
             u_ssl_set_fd(p, ptr, sk) \/ SSL_set_bio(p, ptr, sk)
      PROVE  ssl_stats'[x].prx <= Total(ReadBy(x))'
  <2>1. Bind(p, ptr, sk) /\ UNCHANGED <<ssl_stats, leaked>>
    BY <1>1 DEF u_ssl_set_fd, SSL_set_bio
  <2>2. ReadBy(x)' = ReadBy(x)
    BY <1>0, <2>1, BindRead
  <2> QED
    BY <2>1, <2>2, SameRead
<1>2. ASSUME NEW p \in Pids, NEW ptr \in Ptrs, u_ssl_free(p, ptr)
      PROVE  ssl_stats'[x].prx <= Total(ReadBy(x))'
  <2>1. /\ Ends(p, ptr) /\ ssl_stats' = [ssl_stats EXCEPT ![ptr] = None]
        /\ leaked' = {l \in leaked : l[2] # ptr}
    BY <1>2 DEF u_ssl_free, Frees
  <2>2. x # ptr /\ ssl_stats'[x] = ssl_stats[x]
    BY <1>0, <2>1 DEF STypeOK
  <2>3. <<"ssl_stats", x>> \notin leaked
    BY <2>1, <2>2
  <2>4. ReadBy(x)' = ReadBy(x)
    BY <2>1, <2>2, EndsSess DEF ReadBy
  <2> QED
    BY <2>2, <2>3, <2>4, SameRead
<1>3. ASSUME NEW p \in Pids, NEW ptr \in Ptrs, UnseenFree(p, ptr) \/ Abandon(p, ptr)
      PROVE  ssl_stats'[x].prx <= Total(ReadBy(x))'
  <2>1. Ends(p, ptr) /\ UNCHANGED ssl_stats /\ <<"ssl_stats", x>> \notin leaked
    BY <1>3 DEF UnseenFree, Abandon, Frees
  <2>2. x # ptr
    <3>1. CASE UnseenFree(p, ptr)
      <4>1. attached \in 0..5 /\ ~(attached >= 2)
        BY <1>0, <3>1, ProbedWhen DEF UnseenFree, STypeOK
      <4> QED
        BY <2>1, <4>1 DEF SInv, FilledLate
    <3>2. CASE Abandon(p, ptr)
      BY <3>2 DEF Abandon
    <3> QED
      BY <1>3, <3>1, <3>2
  <2>3. ReadBy(x)' = ReadBy(x)
    BY <2>1, <2>2, EndsSess DEF ReadBy
  <2> QED
    BY <2>1, <2>3, SameRead
<1>4. ASSUME NEW t \in Threads, NEW ptr \in Ptrs, NEW b \in SslBufs, NEW n \in PlainSizes,
             u_ssl_write(t, ptr, b, n)
      PROVE  ssl_stats'[x].prx <= Total(ReadBy(x))'
  <2> DEFINE p == PidOf[t]
  <2>1. /\ p \in Pids /\ n \in Nat /\ DIR_OUT \in Dirs /\ sess[p][ptr] # None
        /\ Moved(p, ptr, DIR_OUT, 0) /\ UNCHANGED leaked
    BY <1>4, WireAssumption, SslAssumption DEF Dirs, u_ssl_write
  <2>2. UNCHANGED ssl_stats \/ emit_plaintext(t, ptr, b, n, DIR_OUT)
    BY <1>4 DEF u_ssl_write
  <2> HIDE DEF p
  <2>3. /\ ReadBy(ptr)' = [ReadBy(ptr) EXCEPT ![p] = @ + 0]
        /\ \A q \in Ptrs \ {ptr} : ReadBy(q)' = ReadBy(q)
    BY <1>0, <2>1, MovedRead
  <2>4. CASE x # ptr
    <3>1. ssl_stats'[x] = ssl_stats[x]
      BY <1>0, <2>2, <2>4 DEF emit_plaintext, STypeOK
    <3> QED
      BY <2>1, <2>3, <2>4, <3>1, SameRead
  <2>5. CASE x = ptr
    <3>1. ssl_stats'[ptr].prx <= Counted(ptr) + 0
      <4>0. Counted(ptr) \in Nat
        BY <1>0 DEF Counted, STypeOK, Stat
      <4>1. CASE UNCHANGED ssl_stats
        BY <2>5, <4>0, <4>1 DEF Counted
      <4>2. CASE emit_plaintext(t, ptr, b, n, DIR_OUT)
        <5>1. ssl_stats'[ptr].prx <= Counted(ptr)
          BY <1>0, <2>1, <2>5, <4>2, EmitPrx
        <5> QED
          BY <4>0, <5>1
      <4> QED
        BY <2>2, <4>1, <4>2
    <3> QED
      BY <1>0, <2>1, <2>3, <2>5, <3>1, GrowsTogether
  <2> QED
    BY <2>4, <2>5
<1>5. ASSUME NEW t \in Threads, NEW ptr \in Ptrs, NEW b \in SslBufs, NEW hooked \in BOOLEAN,
             u_ssl_read(t, ptr, b, hooked)
      PROVE  ssl_stats'[x].prx <= Total(ReadBy(x))'
  <2>1. UNCHANGED <<ssl_stats, sess, leaked>>
    BY <1>5 DEF u_ssl_read
  <2>2. ReadBy(x)' = ReadBy(x)
    BY <2>1 DEF ReadBy
  <2> QED
    BY <2>1, <2>2, SameRead
<1>6. ASSUME NEW t \in Threads, NEW ret \in PlainSizes \cup {0}, ur_ssl_read(t, ret)
      PROVE  ssl_stats'[x].prx <= Total(ReadBy(x))'
  <2> DEFINE p == PidOf[t]
             b == ssl_ctxs[t].buf
  <2>0. sslcall[t] # None
    BY <1>6 DEF ur_ssl_read
  <2>1. p \in Pids /\ ret \in Nat /\ DIR_IN \in Dirs
    <3>1. p \in Pids
      BY ONLY WireAssumption, t \in Threads DEF WireAssumption
    <3>2. ret \in Nat
      BY ONLY SslAssumption, ret \in PlainSizes \cup {0} DEF SslAssumption
    <3>3. DIR_IN \in Dirs
      BY ONLY DEF Dirs
    <3> QED
      BY <3>1, <3>2, <3>3
  <2> PICK ptr \in Ptrs : ptr = sslcall[t].ssl
    BY <1>0, <2>0 DEF STypeOK
  <2>2. sslcall[t] # None /\ Moved(p, ptr, DIR_IN, ret) /\ UNCHANGED leaked
    BY <1>6 DEF ur_ssl_read
  <2>3. sess[p][ptr] # None
    BY <2>2 DEF SInv, SslCallOpen
  <2>4. UNCHANGED ssl_stats \/ emit_plaintext(t, ptr, b, ret, DIR_IN)
    <3>1. CASE sslcall[t].hooked /\ ssl_ctxs[t] # None
      <4>1. ssl_ctxs[t].ssl = ptr
        BY <2>2, <3>1 DEF SInv, SslPaired
      <4> QED
        BY <1>6, <3>1, <4>1 DEF ur_ssl_read
    <3>2. CASE ~(sslcall[t].hooked /\ ssl_ctxs[t] # None)
      BY <1>6, <3>2 DEF ur_ssl_read
    <3> QED
      BY <3>1, <3>2
  <2> HIDE DEF p, b
  <2>5. /\ ReadBy(ptr)' = [ReadBy(ptr) EXCEPT ![p] = @ + ret]
        /\ \A q \in Ptrs \ {ptr} : ReadBy(q)' = ReadBy(q)
    BY <1>0, <2>1, <2>2, <2>3, MovedRead
  <2>6. CASE x # ptr
    <3>1. ssl_stats'[x] = ssl_stats[x]
      BY <1>0, <2>4, <2>6 DEF emit_plaintext, STypeOK
    <3> QED
      BY <2>2, <2>5, <2>6, <3>1, SameRead
  <2>7. CASE x = ptr
    <3>1. ssl_stats'[ptr].prx <= Counted(ptr) + ret
      <4>0. Counted(ptr) \in Nat
        BY <1>0, <2>3 DEF Counted, STypeOK, Stat
      <4>1. CASE UNCHANGED ssl_stats
        BY <2>1, <2>7, <4>0, <4>1 DEF Counted
      <4>2. CASE emit_plaintext(t, ptr, b, ret, DIR_IN)
        BY <1>0, <2>1, <2>3, <2>7, <4>2, EmitPrx
      <4> QED
        BY <2>4, <4>1, <4>2
    <3> QED
      BY <1>0, <2>1, <2>2, <2>3, <2>5, <2>7, <3>1, GrowsTogether
  <2> QED
    BY <2>6, <2>7
<1> QED
  BY <1>0, <1>1, <1>2, <1>3, <1>4, <1>5, <1>6 DEF Sessions

(* Nor does anything else that leaves sessions and entries alone.          *)
LEMMA PrxUnchanged ==
  ASSUME PrxOfLiveSessions, UNCHANGED <<ssl_stats, sess, leaked>>
  PROVE  PrxOfLiveSessions'
<1> SUFFICES ASSUME NEW x \in Ptrs, ssl_stats'[x] # None, <<"ssl_stats", x>> \notin leaked'
             PROVE  ssl_stats'[x].prx <= Total(ReadBy(x))'
  BY DEF PrxOfLiveSessions
<1>1. ReadBy(x)' = ReadBy(x)
  BY DEF ReadBy
<1> QED
  BY <1>1, SameRead

-----------------------------------------------------------------------------
SslNext ==
  \/ (SNext /\ UNCHANGED wvars)
  \/ ((attachSSL \/ NewReturns) /\ UNCHANGED <<wvars, events>>)
  \/ (~loading /\ Consume /\ UNCHANGED svars)

(* SInv is an invariant of the uprobes' specification.                     *)
LEMMA SInvariance == SSpec => [](WTypeOK /\ SInv)
<1>1. SslInit => WTypeOK /\ SInv
  <2> SUFFICES ASSUME SslInit PROVE WTypeOK /\ SInv
    OBVIOUS
  <2>1. WTypeOK
    BY WInitInv DEF SslInit, WInv
  <2>2. attached \in 0..Len(uprobes) /\ loading \in BOOLEAN
    BY DEF SslInit, uprobes
  <2> QED
    BY <2>1, <2>2, SInitInv DEF SslInit
<1>2. WTypeOK /\ SInv /\ [SslNext]_<<wvars, svars, events>> => WTypeOK' /\ SInv'
  <2> SUFFICES ASSUME WTypeOK, SInv, [SslNext]_<<wvars, svars, events>> PROVE WTypeOK' /\ SInv'
    OBVIOUS
  <2>1. UNCHANGED wvars
    BY DEF SslNext, Consume
  <2>2. WTypeOK'
    BY <2>1 DEF wvars, WTypeOK
  <2>3. CASE UNCHANGED svars
    BY <2>2, <2>3 DEF svars, SInv, STypeOK, SslCallOpen, FilledLate, SslPaired, StatsHaveOwner
  <2>4. CASE SNext
    BY <2>4, SNextInv, <2>2
  <2>5. CASE attachSSL \/ NewReturns
    BY <2>5, AttachInv, <2>2
  <2>6. CASE UNCHANGED <<wvars, svars, events>>
    BY <2>2, <2>3, <2>6
  <2> QED
    BY <2>2, <2>3, <2>4, <2>5, <2>6 DEF SslNext
<1> QED
  BY <1>1, <1>2, PTL DEF SSpec, SslNext

(* Every entry the uprobes write is well formed and names a process.       *)
THEOREM SslTypeCorrect == SSpec => []STypeOK
<1>1. SInv => STypeOK
  BY DEF SInv
<1> QED
  BY <1>1, SInvariance, PTL

(* ur_ssl_read counts for the session its own call reads from, after       *)
(* missed returns, with the map full, and with attachSSL stopped anywhere. *)
THEOREM SslReturnsPaired == SSpec => []SslPaired
<1>1. SInv => SslPaired
  BY DEF SInv
<1> QED
  BY <1>1, SInvariance, PTL

(* The maps hold nothing of sessions that are gone, but for what one that  *)
(* ended unseen has left behind.                                           *)
THEOREM StatsOwned == SSpec => []StatsHaveOwner
<1>1. SInv => StatsHaveOwner
  BY DEF SInv
<1> QED
  BY <1>1, SInvariance, PTL

(* An entry of ssl_stats never counts more bytes read than the sessions    *)
(* now using its pointer did read, in however many processes: SSL_free     *)
(* leaves nothing of a session to the next one at its address.             *)
THEOREM PrxBounded == SSpec => []PrxOfLiveSessions
<1>1. SslInit => PrxOfLiveSessions
  BY DEF SslInit, SInit, PrxOfLiveSessions
<1>2. WTypeOK /\ SInv /\ PrxOfLiveSessions /\ [SslNext]_<<wvars, svars, events>> => PrxOfLiveSessions'
  <2> SUFFICES ASSUME WTypeOK, SInv, PrxOfLiveSessions, [SslNext]_<<wvars, svars, events>>
               PROVE  PrxOfLiveSessions'
    OBVIOUS
  <2>1. CASE SNext
    BY <2>1, PrxNext
  <2>2. CASE UNCHANGED <<ssl_stats, sess, leaked>>
    BY <2>2, PrxUnchanged
  <2> QED
    BY <2>1, <2>2 DEF SslNext, svars, attachSSL, NewReturns
<1> QED
  BY <1>1, <1>2, SInvariance, PTL DEF SSpec, SslNext
=============================================================================
