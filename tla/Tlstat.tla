------------------------------- MODULE Tlstat -------------------------------
(***************************************************************************)
(* The whole program: the eBPF programs of WireProbes and SslProbes, and   *)
(* the two goroutines of main.go over the Store.  The reader folds ring    *)
(* records into the store; the poller, once per tick, walks the flows map, *)
(* merges the snapshot, deletes the closed entries from the map, walks     *)
(* ssl_stats and joins it.  A walk reads one key at a time while the       *)
(* probes go on writing.                                                   *)
(***************************************************************************)
EXTENDS Store

CONSTANT Attachments  \* how many uprobes attachSSL may have attached at the start

ASSUME TlstatAssumption == Attachments \subseteq 0..Len(uprobes) /\ IsFiniteSet(Socks)

VARIABLES
  pc,     \* where the poller is: "flows", "delete", "stats" or "join"
  snap,   \* what Flows() has read so far, by socket address, or None
  todo,   \* keys still to visit ("join": the pointers of the snapshot)
  stats,  \* what SSLStats() has returned and UpdateSSLStats not yet joined
  cursor  \* the key the walk of ssl_stats stands at, or None

pvars == <<pc, snap, todo, stats, cursor>>
vars == <<wvars, svars, events, stvars, pvars>>
-----------------------------------------------------------------------------
(* The reader goroutine: ReadEvent, then Apply under the mutex, which the  *)
(* poller holds through the steps of UpdateSSLStats.                       *)

Read(type) ==
  /\ pc # "join"
  /\ events # <<>> /\ Head(events).type = type
  /\ events' = Tail(events)
  /\ UNCHANGED <<wvars, svars, pvars>>

ReadWire == Read("wire") /\ ApplyWire(Head(events))
ReadData == Read("data") /\ ApplyData(Head(events))
ReadClose ==
  /\ Read("close")
  /\ \E ok \in ProcOutcomes :
       \E r \in resolve(Head(events).pid, Head(events).fd, ok) : ApplyClose(Head(events), r)

Reader == ReadWire \/ ReadData \/ ReadClose
-----------------------------------------------------------------------------
(* The poller goroutine.                                                   *)

(* Flows(): the walk meets each key once, as only the poller deletes keys. *)
ScanFlow(sk) ==
  /\ pc = "flows" /\ sk \in todo
  /\ snap' = [snap EXCEPT ![sk] = flows[sk]]
  /\ todo' = todo \ {sk}
  /\ UNCHANGED <<wvars, svars, events, stvars, pc, stats, cursor>>

\* Seeded fault: what to delete is read from the map again after the merge.
MergeFlows_reread ==
  /\ pc = "flows" /\ todo = {}
  /\ UpdateFlows(snap)
  /\ pc' = "delete"
  /\ todo' = {sk \in Socks : flows[sk] # None /\ flows[sk].closed}
  /\ snap' = [sk \in Socks |-> None]
  /\ UNCHANGED <<wvars, svars, events, stats, cursor>>

\* Seeded fault: every entry of the snapshot is deleted, closed or not.
MergeFlows_deleteall ==
  /\ pc = "flows" /\ todo = {}
  /\ UpdateFlows(snap)
  /\ pc' = "delete"
  /\ todo' = {sk \in Socks : snap[sk] # None}
  /\ snap' = [sk \in Socks |-> None]
  /\ UNCHANGED <<wvars, svars, events, stats, cursor>>

\* Seeded fault: closed entries are never deleted.
MergeFlows_nodelete ==
  /\ pc = "flows" /\ todo = {}
  /\ UpdateFlows(snap)
  /\ pc' = "delete"
  /\ todo' = {}
  /\ snap' = [sk \in Socks |-> None]
  /\ UNCHANGED <<wvars, svars, events, stats, cursor>>

MergeFlows ==
  /\ pc = "flows" /\ todo = {}
  /\ UpdateFlows(snap)
  /\ pc' = "delete"
  /\ todo' = {sk \in Socks : snap[sk] # None /\ snap[sk].closed}
  /\ snap' = [sk \in Socks |-> None]
  /\ UNCHANGED <<wvars, svars, events, stats, cursor>>

DeleteClosed(sk) ==
  /\ pc = "delete" /\ sk \in todo
  /\ DeleteFlow(sk)
  /\ todo' = todo \ {sk}
  /\ UNCHANGED <<svars, stvars, pc, snap, stats, cursor>>

StartStats ==
  /\ pc = "delete" /\ todo = {}
  /\ pc' = "stats" /\ todo' = Ptrs
  /\ UNCHANGED <<wvars, svars, events, stvars, snap, stats, cursor>>

(* SSLStats(): the map iterator asks for the key after its cursor; when    *)
(* SSL_free has deleted that key the kernel starts over at the first one.  *)
OnTrack == cursor # None => ssl_stats[cursor] # None

ScanStat(ptr) ==
  /\ pc = "stats" /\ ptr \in todo /\ OnTrack /\ Len(stats) <= MaxStats
  /\ todo' = todo \ {ptr}
  /\ IF ssl_stats[ptr] = None THEN UNCHANGED <<stats, cursor>>
     ELSE /\ stats' = Append(stats, [ssl |-> ptr, ptx |-> ssl_stats[ptr].ptx,
                        prx |-> ssl_stats[ptr].prx, pid |-> ssl_stats[ptr].pid,
                        fd |-> ssl_stats[ptr].fd])
          /\ cursor' = ptr
  /\ UNCHANGED <<wvars, svars, events, stvars, pc, snap>>

RestartScan ==
  /\ pc = "stats" /\ ~OnTrack /\ Len(stats) <= MaxStats
  /\ todo' = Ptrs /\ cursor' = None
  /\ UNCHANGED <<wvars, svars, events, stvars, pc, snap, stats>>

(* More keys than the map can hold: ErrIterationAborted, no update.        *)
AbortScan ==
  /\ pc = "stats" /\ Len(stats) > MaxStats
  /\ pc' = "flows" /\ todo' = Socks /\ stats' = <<>> /\ cursor' = None
  /\ UNCHANGED <<wvars, svars, events, stvars, snap>>

BeginJoin ==
  /\ pc = "stats" /\ todo = {} /\ OnTrack /\ Len(stats) <= MaxStats
  /\ ZeroPlain
  /\ pc' = "join" /\ cursor' = None
  /\ todo' = {stats[i].ssl : i \in DOMAIN stats}
  /\ UNCHANGED <<wvars, svars, events, snap, stats>>

JoinOne ==
  /\ pc = "join" /\ stats # <<>>
  /\ \E ok \in ProcOutcomes :
       \E r \in resolve(Head(stats).pid, Head(stats).fd, ok) : JoinStat(Head(stats), r)
  /\ stats' = Tail(stats)
  /\ UNCHANGED <<wvars, svars, events, pc, snap, todo, cursor>>

EndJoin ==
  /\ pc = "join" /\ stats = <<>>
  /\ EvictSamples(todo)
  /\ pc' = "flows" /\ todo' = Socks
  /\ UNCHANGED <<wvars, svars, events, snap, stats, cursor>>

Poller ==
  \/ \E sk \in Socks : ScanFlow(sk) \/ DeleteClosed(sk)
  \/ MergeFlows \/ StartStats
  \/ \E ptr \in Ptrs : ScanStat(ptr)
  \/ RestartScan \/ AbortScan \/ BeginJoin \/ JoinOne \/ EndJoin
-----------------------------------------------------------------------------
Init ==
  /\ WInit /\ SInit /\ StInit
  /\ attached \in Attachments /\ loading = FALSE
  /\ pc = "flows" /\ todo = Socks /\ snap = [sk \in Socks |-> None]
  /\ stats = <<>> /\ cursor = None

Next ==
  \/ Traffic /\ UNCHANGED <<svars, stvars, pvars>>
  \/ SNext /\ UNCHANGED <<wvars, stvars, pvars>>
  \/ Reader
  \/ Poller

Spec == Init /\ [][Next]_vars

(* The ticker keeps firing, and a Go mutex hands itself to a goroutine     *)
(* that has waited for long: both goroutines keep making progress.         *)
FairSpec == Spec /\ WF_vars(Poller) /\ SF_vars(Reader)
-----------------------------------------------------------------------------
(* Properties.                                                             *)

(* What SSLStats returns of one entry of ssl_stats.                        *)
StatEntry == [ssl : Ptrs, ptx : Nat, prx : Nat, pid : Pids, fd : Fds \cup {None}]

(* The maps, the table and the poller's own state are well formed.         *)
TypeOK ==
  /\ WTypeOK /\ STypeOK
  /\ conns \in [Socks -> Conn \cup {None}] /\ history \in Seq(Conn)
  /\ pidfd \in [Pids -> [Fds -> Socks \cup {None}]]
  /\ plainBySSL \in [Ptrs -> Sample \cup {None}]
  /\ pc \in {"flows", "delete", "stats", "join"}
  /\ snap \in [Socks -> Flow \cup {None}] /\ stats \in Seq(StatEntry)
  /\ todo \subseteq (IF pc \in {"flows", "delete"} THEN Socks ELSE Ptrs)
  /\ cursor \in Ptrs \cup {None}

(* However the two goroutines interleave, a connection whose handshake has *)
(* been parsed is shown as TLS and never as pre-existing.                  *)
PreexistingSound ==
  \A sk \in Socks : conns[sk] # None /\ conns[sk].info =>
    conns[sk].isTLS /\ ~conns[sk].preexisting

(* Of the captures of an entry that reach the reader, a reassembly buffer  *)
(* leaves none out and turns none around: next to capture k stands capture *)
(* k + 1, or the first one of a new entry.  (What never became a capture,  *)
(* as the ring was full or the chunk over WIRE_CAP, is missing without a   *)
(* trace.)                                                                 *)
ReassemblyInOrder ==
  \A sk \in Socks, d \in Dirs : conns[sk] # None =>
    LET q == conns[sk].wire[d].chunks IN
    \A i \in 1..(Len(q) - 1) : q[i + 1].k \in {q[i].k + 1, 0}

Fits(buf) == Len(buf.chunks) <= buf.len /\ buf.len < MaxWireBuf + WireCap - 1

(* maxWireBuf is checked before the append: a buffer overshoots it by less *)
(* than one capture.  And every capture in it brought at least one byte:   *)
(* the clamp and the mask of capture_wire never turn a chunk of WIRE_CAP   *)
(* or more into an empty one, which would pass as a capture and leave a    *)
(* hole.                                                                   *)
WireBufBounded ==
  \A sk \in Socks, d \in Dirs : conns[sk] # None => Fits(conns[sk].wire[d])

(* Retired connections have given back their buffers, and the history      *)
(* keeps to its cap.                                                       *)
HistoryBounded ==
  /\ Len(history) <= MaxHistory
  /\ \A i \in DOMAIN history : history[i].closed /\ history[i].wire = NewConn.wire

(* A row that stands for an open connection has an entry of the flows map *)
(* behind it, so that its end will be noticed; the one exception, a row    *)
(* made by a wire event that was read after the retirement, has no remote  *)
(* endpoint and is therefore never shown (Conn.HasEndpoint).               *)
OpenRowsBacked ==
  \A sk \in Socks : conns[sk] # None /\ ~conns[sk].closed /\ flows[sk] = None =>
    conns[sk].tuple = None

Phase(r) == IF r = None THEN "none" ELSE IF r.closed THEN "closed" ELSE "open"

Life == INSTANCE Lifecycle WITH
  Keys <- Socks, HistoryCap <- MaxHistory,
  entry <- [sk \in Socks |-> Phase(flows[sk])], row <- [sk \in Socks |-> Phase(conns[sk])],
  past <- Len(history)

(* With its walks, snapshots and queued events the program implements the  *)
(* life of a connection: the table calls a connection ended only when the  *)
(* kernel's entry says so, the poller deletes an entry only when the table *)
(* has its end on record, and a row leaves only for the history.           *)
ImplementsLifecycle == Life!LSpec

(* Closed entries do not pile up in the flows map.                         *)
ClosedReclaimed ==
  \A sk \in Socks : (flows[sk] # None /\ flows[sk].closed) ~> (flows[sk] = None)

(* A connection shown as closed moves to the history, unless its socket    *)
(* turns out to be in use after all.                                       *)
ClosedRetired ==
  \A sk \in Socks : (conns[sk] # None /\ conns[sk].closed)
                        ~> (conns[sk] = None \/ ~conns[sk].closed)

(* When traffic stops, the table ends up showing the kernel's counters.    *)
Converges ==
  \A sk \in Socks : <>[](flows[sk] # None =>
     conns[sk] # None /\ conns[sk].tx = flows[sk].tx /\ conns[sk].rx = flows[sk].rx)

(* With its goroutines the program is still an instance of WireProbes: the *)
(* poller takes nothing out of the maps but entries that are closed.       *)
ImplementsWire == WInit /\ [][WNext]_wvars

(* What a sample holds: the chunks at the head and tail of each direction. *)
Kept(smp) ==
  IF smp = None THEN {}
  ELSE ({smp[d].head : d \in Dirs} \cup {smp[d].tail : d \in Dirs}) \ {None}

OneOwner(smp) == \A c1, c2 \in Kept(smp) : c1.id = c2.id

(* As long as no close event is lost and no two processes use a pointer at *)
(* the same time, all that is kept for a pointer, and all the plaintext a  *)
(* row of the table or of the history shows, is of one session, even when  *)
(* the pointer is reused while events of the old session are queued or a   *)
(* walk is under way.                                                      *)
SampleOneOwner ==
  /\ \A ptr \in Ptrs : OneOwner(plainBySSL[ptr])
  /\ \A sk \in Socks : conns[sk] # None => OneOwner(conns[sk].plain)
  /\ \A i \in DOMAIN history : OneOwner(history[i].plain)

(* While sessions have entries in ssl_stats, the poller keeps joining them:*)
(* when the programs go quiet, a process's one connection shows the totals *)
(* of those entries, even if the data events of a session were all lost,   *)
(* unless SSL_free of an earlier session has finalized it.  (The totals of *)
(* a session that is gone are another matter: see ShortLivedAttributed.)   *)
PlainConverges ==
  \A sk \in Socks : <>[](pc # "join" /\ conns[sk] # None /\ ~conns[sk].plainFinal
                           /\ conns[sk].pid # None /\ Present(ssl_stats) # {} =>
    /\ conns[sk].ptx = Total([ptr \in Present(ssl_stats) |-> ssl_stats[ptr].ptx])
    /\ conns[sk].prx = Total([ptr \in Present(ssl_stats) |-> ssl_stats[ptr].prx]))

Gone(ptr) == \A p \in Pids : sess[p][ptr] = None

(* The sample of a freed session is dropped in the end, even if the ring   *)
(* had no room for its close event or its data was read after the close.   *)
SampleDropped ==
  \A ptr \in Ptrs : (Gone(ptr) /\ plainBySSL[ptr] # None)
                        ~> (plainBySSL[ptr] = None \/ ~Gone(ptr))
-----------------------------------------------------------------------------
(* What the comments and the documents say of the program, and it does     *)
(* not do.                                                                 *)

(* design-doc.md: flows entries "are deleted on TCP close": the entry of a *)
(* socket that is gone does not stay.                                      *)
GoneReclaimed ==
  \A sk \in Socks : (flows[sk] # None /\ sock[sk].state = "free")
                        ~> (flows[sk] = None \/ sock[sk].state # "free")

(* model.go on plainFinal: the join "must then leave this connection's     *)
(* totals alone".                                                          *)
FinalLeftAlone ==
  [][\A sk \in Socks : pc = "join" /\ conns[sk] # None /\ conns[sk].plainFinal =>
       conns'[sk].ptx = conns[sk].ptx /\ conns'[sk].prx = conns[sk].prx]_vars

(* tlstat.bpf.c on the close event: final totals go out "so userspace can  *)
(* attribute them even to short-lived connections that close between       *)
(* polls".  When the event is read and the kernel has a connection of that *)
(* process, some row has its totals final.                                 *)
ShortLivedAttributed ==
  [][ReadClose /\ (\E sk \in Socks : flows[sk] # None /\ flows[sk].pid = Head(events).pid) =>
       \E sk \in Socks : conns'[sk] # None /\ conns'[sk].plainFinal]_vars
=============================================================================
