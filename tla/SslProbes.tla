------------------------------ MODULE SslProbes ------------------------------
(***************************************************************************)
(* The cleartext side of bpf/tlstat.bpf.c: the uprobes on SSL_set_fd,      *)
(* SSL_write, SSL_read and SSL_free and the uretprobe on SSL_read, with    *)
(* the maps ssl_stats, ssl_fds and ssl_ctxs, over the OpenSSL sessions of  *)
(* the observed processes.                                                 *)
(*                                                                         *)
(* The maps are keyed by the SSL pointer alone, and a pointer names a      *)
(* session only inside its process: two processes may use the same value,  *)
(* and a process reuses the value of a session it freed.                   *)
(*                                                                         *)
(* attachSSL hooks the library's functions one after the other while the   *)
(* observed programs run, and gives up at the first one that fails.        *)
(***************************************************************************)
EXTENDS WireProbes

CONSTANTS
  Ptrs,        \* values of an SSL pointer
  PlainSizes,  \* lengths handed to SSL_write and returned by SSL_read
  SslBufs,     \* what their buffer arguments may be
  DataCap,     \* DATA_CAP, a power of two
  MaxStats,    \* max_entries of ssl_stats and of ssl_fds
  MaxSslCtxs,  \* max_entries of ssl_ctxs
  FreeKinds,   \* do sessions end by SSL_free (TRUE), without it (FALSE)?
  MaxSess,     \* bound: sessions ever created
  MaxOps       \* bound: calls of SSL_write and SSL_read

ASSUME SslAssumption ==
  /\ None \notin Ptrs /\ IsFiniteSet(Pids)
  /\ PlainSizes \subseteq Nat
  /\ SslBufs \subseteq {"null", "unmapped", "ok"}
  /\ DataCap \in Nat /\ DataCap > 1
  /\ MaxStats \in Nat /\ MaxSslCtxs \in Nat
  /\ FreeKinds \subseteq BOOLEAN
  /\ MaxSess \in Nat /\ MaxOps \in Nat

VARIABLES
  ssl_stats,  \* map ssl_stats: struct ssl_stat of a pointer, or None
  ssl_fds,    \* map ssl_fds: the descriptor SSL_set_fd announced, or None
  ssl_ctxs,   \* map ssl_ctxs: what a thread's SSL_read entry stashed, or None
  sess,       \* the sessions: sess[p][ptr] is process p's session, or None
  sslcall,    \* the SSL_read call a thread is inside, or None
  leaked,     \* <<map, pointer>> whose session ended with no probe to tell, none freed since
  nsess,      \* sessions created so far (bounded by MaxSess)
  ops,        \* calls made so far (bounded by MaxOps)
  attached,   \* how many of the uprobes are attached
  loading     \* is New still running?

svars == <<ssl_stats, ssl_fds, ssl_ctxs, sess, sslcall, leaked, nsess, ops, attached, loading>>

Stat == [ptx : Nat, prx : Nat, pid : Pids, fd : Fds \cup {None}]

(* A session: its number, its connection, the bytes it really read and the *)
(* captures taken from it per direction.                                   *)
Session == [id : Nat, sk : Socks, prx : Nat, k : [Dirs -> Nat]]

ASSUME SessionAssumption == None \notin Session /\ None \notin Stat
-----------------------------------------------------------------------------
(* attachSSL.                                                              *)

\* Seeded fault: the probe that cleans up is attached last.
uprobes_freelast == <<"SSL_set_fd", "SSL_write", "SSL_read", "SSL_read return", "SSL_free">>

(* The order in which the probes are attached.                             *)
uprobes == <<"SSL_set_fd", "SSL_free", "SSL_write", "SSL_read", "SSL_read return">>

Probed(probe) == \E i \in 1..attached : uprobes[i] = probe

attachSSL ==
  /\ loading /\ attached < Len(uprobes)
  /\ attached' = attached + 1
  /\ UNCHANGED <<ssl_stats, ssl_fds, ssl_ctxs, sess, sslcall, leaked, nsess, ops, loading>>

(* All are attached, or one failed: a warning, and the program goes on.    *)
NewReturns ==
  /\ loading /\ loading' = FALSE
  /\ UNCHANGED <<ssl_stats, ssl_fds, ssl_ctxs, sess, sslcall, leaked, nsess, ops, attached>>
-----------------------------------------------------------------------------
(* Helpers.                                                                *)

HasRoom(map, key, max) == map[key] # None \/ Cardinality(Present(map)) < max

\* Seeded fault: the new entry does not say whose it is.
ssl_stat_get_nopid(ptr, pid) ==
  IF ~HasRoom(ssl_stats, ptr, MaxStats) THEN None
  ELSE IF ssl_stats[ptr] # None THEN ssl_stats[ptr]
  ELSE [ptx |-> 0, prx |-> 0, pid |-> None, fd |-> ssl_fds[ptr]]

(* Get or create; None when the map is full.                               *)
ssl_stat_get(ptr, pid) ==
  IF ~HasRoom(ssl_stats, ptr, MaxStats) THEN None
  ELSE IF ssl_stats[ptr] # None THEN ssl_stats[ptr]
  ELSE [ptx |-> 0, prx |-> 0, pid |-> pid, fd |-> ssl_fds[ptr]]

(* The data_event; `id' and `k' stand for its payload: the session it was  *)
(* taken from and which of its calls.                                      *)
data_event(s, t, ptr, n, dir) ==
  LET own == sess[PidOf[t]][ptr] IN
  [type |-> "data", direction |-> dir, len |-> Capped(n, DataCap), pid |-> PidOf[t],
   fd |-> s.fd, ssl |-> ptr, id |-> own.id, k |-> own.k[dir]]

emit_plaintext(t, ptr, b, n, dir) ==
  LET s == ssl_stat_get(ptr, PidOf[t])
      counted == b # "null" /\ n > 0 /\ s # None IN
  /\ ssl_stats' = IF ~counted THEN ssl_stats
                  ELSE [ssl_stats EXCEPT ![ptr] =
                          IF dir = DIR_OUT THEN [s EXCEPT !.ptx = @ + n]
                                           ELSE [s EXCEPT !.prx = @ + n]]
  /\ IF counted /\ bpf_ringbuf_reserve /\ b # "unmapped"
     THEN bpf_ringbuf_submit(data_event(s, t, ptr, n, dir))
     ELSE UNCHANGED events
-----------------------------------------------------------------------------
(* The library calls, with the probes they fire.                           *)

Reads(t, p, ptr) == PidOf[t] = p /\ sslcall[t] # None /\ sslcall[t].ssl = ptr

Inside(p, ptr) == \E t \in Threads : Reads(t, p, ptr)

(* A session of p over sk: a new one, or a live one pointed elsewhere.     *)
Bind(p, ptr, sk) ==
  /\ sock[sk].pid = p /\ sock[sk].fd # None
  /\ IF sess[p][ptr] = None
     THEN /\ nsess < MaxSess /\ nsess' = nsess + 1
          /\ sess' = [sess EXCEPT ![p][ptr] =
               [id |-> nsess + 1, sk |-> sk, prx |-> 0, k |-> [d \in Dirs |-> 0]]]
     ELSE /\ sess[p][ptr].sk # sk /\ ~Inside(p, ptr)
          /\ sess' = [sess EXCEPT ![p][ptr].sk = sk]
          /\ UNCHANGED nsess

(* SSL_new and SSL_set_fd: the uprobe records the descriptor.              *)
u_ssl_set_fd(p, ptr, sk) ==
  /\ Probed("SSL_set_fd") /\ Bind(p, ptr, sk)
  /\ ssl_fds' = IF HasRoom(ssl_fds, ptr, MaxStats)
                THEN [ssl_fds EXCEPT ![ptr] = sock[sk].fd] ELSE ssl_fds
  /\ UNCHANGED <<ssl_stats, ssl_ctxs, sslcall, leaked, ops, events>>

(* SSL_new and SSL_set_bio, or SSL_set_fd before its probe was attached:   *)
(* nothing sees the descriptor.                                            *)
SSL_set_bio(p, ptr, sk) ==
  /\ Bind(p, ptr, sk)
  /\ UNCHANGED <<ssl_stats, ssl_fds, ssl_ctxs, sslcall, leaked, ops, events>>

\* One more call and capture in direction dir, n bytes of it read.
Moved(p, ptr, dir, n) ==
  sess' = [sess EXCEPT ![p][ptr].k[dir] = @ + 1, ![p][ptr].prx = @ + n]

(* The probe runs on entry: a write that wants to be retried counts too.   *)
u_ssl_write(t, ptr, b, n) ==
  /\ ops < MaxOps /\ ops' = ops + 1
  /\ sslcall[t] = None /\ sess[PidOf[t]][ptr] # None
  /\ IF Probed("SSL_write") THEN emit_plaintext(t, ptr, b, n, DIR_OUT)
                            ELSE UNCHANGED <<ssl_stats, events>>
  /\ Moved(PidOf[t], ptr, DIR_OUT, 0)
  /\ UNCHANGED <<ssl_fds, ssl_ctxs, sslcall, leaked, nsess>>

\* Seeded fault: the stash does not overwrite an entry left behind (BPF_NOEXIST).
u_ssl_read_noexist(t, ptr, b, hooked) ==
  /\ ops < MaxOps /\ ops' = ops + 1
  /\ sslcall[t] = None /\ sess[PidOf[t]][ptr] # None
  /\ hooked => Probed("SSL_read return")
  /\ sslcall' = [sslcall EXCEPT ![t] = [ssl |-> ptr, hooked |-> hooked]]
  /\ ssl_ctxs' = IF Probed("SSL_read") /\ ssl_ctxs[t] = None
                 THEN [ssl_ctxs EXCEPT ![t] = [ssl |-> ptr, buf |-> b]] ELSE ssl_ctxs
  /\ UNCHANGED <<ssl_stats, ssl_fds, sess, leaked, nsess, events>>

(* Entry of SSL_read; `hooked' says whether the uretprobe follows the call *)
(* (never if it was attached later; the kernel may also miss one).         *)
u_ssl_read(t, ptr, b, hooked) ==
  /\ ops < MaxOps /\ ops' = ops + 1
  /\ sslcall[t] = None /\ sess[PidOf[t]][ptr] # None
  /\ hooked => Probed("SSL_read return")
  /\ sslcall' = [sslcall EXCEPT ![t] = [ssl |-> ptr, hooked |-> hooked]]
  /\ ssl_ctxs' = IF Probed("SSL_read") /\ HasRoom(ssl_ctxs, t, MaxSslCtxs)
                 THEN [ssl_ctxs EXCEPT ![t] = [ssl |-> ptr, buf |-> b]] ELSE ssl_ctxs
  /\ UNCHANGED <<ssl_stats, ssl_fds, sess, leaked, nsess, events>>

(* Return of SSL_read; ret = 0 stands for ret <= 0.                        *)
ur_ssl_read(t, ret) ==
  /\ sslcall[t] # None
  /\ sslcall' = [sslcall EXCEPT ![t] = None]
  /\ Moved(PidOf[t], sslcall[t].ssl, DIR_IN, ret)
  /\ IF sslcall[t].hooked /\ ssl_ctxs[t] # None
     THEN /\ ssl_ctxs' = [ssl_ctxs EXCEPT ![t] = None]
          /\ emit_plaintext(t, ssl_ctxs[t].ssl, ssl_ctxs[t].buf, ret, DIR_IN)
     ELSE UNCHANGED <<ssl_ctxs, ssl_stats, events>>
  /\ UNCHANGED <<ssl_fds, leaked, nsess, ops>>

\* The session goes, and with it the threads that were reading from it.
Ends(p, ptr) ==
  /\ sess[p][ptr] # None
  /\ sess' = [sess EXCEPT ![p][ptr] = None]
  /\ sslcall' = [t \in Threads |-> IF Reads(t, p, ptr) THEN None ELSE sslcall[t]]

(* SSL_free, which the program calls when no thread is inside the session. *)
Frees(p, ptr) == ~Inside(p, ptr) /\ Ends(p, ptr)

(* The final totals of a pointer that has an entry, if the ring has room.  *)
close_event(p, ptr) ==
  LET s == ssl_stats[ptr] IN
  IF s # None /\ bpf_ringbuf_reserve
  THEN bpf_ringbuf_submit([type |-> "close", pid |-> p, fd |-> s.fd, ssl |-> ptr,
                           ptx |-> s.ptx, prx |-> s.prx, id |-> sess[p][ptr].id])
  ELSE UNCHANGED events

\* Seeded fault: the totals are reported but the entry stays in ssl_stats.
u_ssl_free_kept(p, ptr) ==
  /\ Probed("SSL_free") /\ Frees(p, ptr) /\ close_event(p, ptr)
  /\ ssl_fds' = [ssl_fds EXCEPT ![ptr] = None]
  /\ leaked' = {l \in leaked : l[2] # ptr}
  /\ UNCHANGED <<ssl_stats, ssl_ctxs, nsess, ops>>

(* SSL_free: report the final totals, then drop the pointer's map state.   *)
u_ssl_free(p, ptr) ==
  /\ Probed("SSL_free") /\ Frees(p, ptr) /\ close_event(p, ptr)
  /\ ssl_stats' = [ssl_stats EXCEPT ![ptr] = None]
  /\ ssl_fds' = [ssl_fds EXCEPT ![ptr] = None]
  /\ leaked' = {l \in leaked : l[2] # ptr}
  /\ UNCHANGED <<ssl_ctxs, nsess, ops>>

(* SSL_free before its probe is attached, or although it never will be.    *)
(* SSL_set_fd is already seen then, so the descriptor may stay behind.     *)
UnseenFree(p, ptr) ==
  /\ ~Probed("SSL_free") /\ Frees(p, ptr)
  /\ leaked' = leaked \cup {<<"ssl_fds", ptr>>}
  /\ UNCHANGED <<ssl_stats, ssl_fds, ssl_ctxs, nsess, ops, events>>

(* A session ends without SSL_free: its process is killed, maybe inside    *)
(* SSL_read, whose stash then stays in ssl_ctxs, or just exits.            *)
Abandon(p, ptr) ==
  /\ Ends(p, ptr)
  /\ leaked' = leaked \cup {<<"ssl_fds", ptr>>, <<"ssl_stats", ptr>>}
  /\ UNCHANGED <<ssl_stats, ssl_fds, ssl_ctxs, nsess, ops, events>>
-----------------------------------------------------------------------------
SInit ==
  /\ ssl_stats = [ptr \in Ptrs |-> None] /\ ssl_fds = [ptr \in Ptrs |-> None]
  /\ ssl_ctxs = [t \in Threads |-> None]
  /\ sess = [p \in Pids |-> [ptr \in Ptrs |-> None]]
  /\ sslcall = [t \in Threads |-> None]
  /\ leaked = {} /\ nsess = 0 /\ ops = 0

Sessions ==
  \/ \E p \in Pids, ptr \in Ptrs :
       \/ \E sk \in Socks : u_ssl_set_fd(p, ptr, sk) \/ SSL_set_bio(p, ptr, sk)
       \/ TRUE \in FreeKinds /\ (u_ssl_free(p, ptr) \/ UnseenFree(p, ptr))
       \/ FALSE \in FreeKinds /\ Abandon(p, ptr)
  \/ \E t \in Threads, ptr \in Ptrs, b \in SslBufs :
       \/ \E n \in PlainSizes : u_ssl_write(t, ptr, b, n)
       \/ \E hooked \in BOOLEAN : u_ssl_read(t, ptr, b, hooked)
  \/ \E t \in Threads, ret \in PlainSizes \cup {0} : ur_ssl_read(t, ret)

SNext == Sessions /\ UNCHANGED <<attached, loading>>

(* No probe of the library is attached yet, and no tcp_recvmsg is under way.*)
SslInit ==
  /\ WInit /\ SInit /\ call = [t \in Threads |-> None]
  /\ attached = 0 /\ loading = TRUE

(* The uprobes over sockets that stay as they are: of a socket they only   *)
(* ever see the descriptor, and tcp_recvmsg calls do not matter to them.   *)
(* The reader of the ring starts when New has returned.                    *)
SSpec ==
  /\ SslInit
  /\ [][\/ (SNext /\ UNCHANGED wvars)
        \/ ((attachSSL \/ NewReturns) /\ UNCHANGED <<wvars, events>>)
        \/ (~loading /\ Consume /\ UNCHANGED svars)]_<<wvars, svars, events>>
-----------------------------------------------------------------------------
(* Properties.                                                             *)

(* Every entry of the uprobes' maps is a well-formed struct that names the *)
(* process it was made for.                                                *)
STypeOK ==
  /\ ssl_stats \in [Ptrs -> Stat \cup {None}]
  /\ ssl_fds \in [Ptrs -> Fds \cup {None}]
  /\ ssl_ctxs \in [Threads -> [ssl : Ptrs, buf : SslBufs] \cup {None}]
  /\ sess \in [Pids -> [Ptrs -> Session \cup {None}]]
  /\ sslcall \in [Threads -> [ssl : Ptrs, hooked : BOOLEAN] \cup {None}]
  /\ leaked \subseteq {"ssl_fds", "ssl_stats"} \X Ptrs /\ nsess \in Nat /\ ops \in Nat
  /\ attached \in 0..Len(uprobes) /\ loading \in BOOLEAN

(* ur_ssl_read only ever counts for the session its own call reads from.   *)
SslPaired ==
  \A t \in Threads : sslcall[t] # None /\ ssl_ctxs[t] # None =>
    (sslcall[t].hooked => ssl_ctxs[t].ssl = sslcall[t].ssl)

(* The comment on u_ssl_free, "so the maps don't grow without bound": what *)
(* the maps hold belongs to a session that is still there, unless one that *)
(* ended without SSL_free, or with SSL_set_fd hooked and SSL_free not yet, *)
(* left it; the next SSL_free of the pointer mends that.  ssl_stats has    *)
(* the first exception only, wherever attachSSL stands or stopped: SSL_free*)
(* is hooked before anything that fills the map.                           *)
StatsHaveOwner ==
  \A ptr \in Ptrs :
    \/ ssl_stats[ptr] # None /\ <<"ssl_stats", ptr>> \notin leaked
    \/ ssl_fds[ptr] # None /\ <<"ssl_fds", ptr>> \notin leaked
    => \E p \in Pids : sess[p][ptr] # None

(* The sum of what f gives on its domain.                                  *)
Total(f) ==
  LET add[T \in SUBSET DOMAIN f] ==
        IF T = {} THEN 0 ELSE LET x == CHOOSE x \in T : TRUE IN f[x] + add[T \ {x}]
  IN add[DOMAIN f]

\* What each process's session at ptr has read; a process without one, nothing.
ReadBy(ptr) == [p \in Pids |-> IF sess[p][ptr] = None THEN 0 ELSE sess[p][ptr].prx]

(* prx of an entry is at most what the sessions now using that pointer     *)
(* read, in whichever process: nothing of a freed session is left in it.   *)
(* Only a session that ended without SSL_free leaves its bytes behind.     *)
PrxOfLiveSessions ==
  \A ptr \in Ptrs : ssl_stats[ptr] # None /\ <<"ssl_stats", ptr>> \notin leaked =>
    ssl_stats[ptr].prx <= Total(ReadBy(ptr))
=============================================================================
