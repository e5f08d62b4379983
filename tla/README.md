# tlstat: TLA+ models, checks and proofs

tlstat watches the TLS connections of a host. eBPF programs in the kernel
(`bpf/tlstat.bpf.c`) count the bytes of every TCP socket, capture the start of
TLS streams, and hook OpenSSL to see plaintext; a Go program polls their maps,
reads their ring buffer, and keeps a table of connections for a terminal
interface. This directory models the programs, the maps, the goroutines, the
table, the handshake parser and the interface, checks them with TLC and proves
most of the safety properties with TLAPS.

Contents: [parts of the system](#the-parts-of-the-system) ·
[modules](#modules-and-how-they-correspond-to-the-code) · [runs](#runs) ·
[where code and documents disagree](#where-the-code-and-its-documents-disagree) ·
[fairness](#fairness) · [proofs](#proofs) · [limits](#limits-of-the-models) ·
[plan](#plan)

## The parts of the system

| Part | State | Operations | Talks to |
|---|---|---|---|
| Wire probes, `bpf/tlstat.bpf.c` | maps `flows` (by `struct sock *`), `recv_ctxs` (by thread) | kprobes `tcp_sendmsg`, `tcp_recvmsg`; kretprobe `tcp_recvmsg`; tracepoint `inet_sock_set_state` | ring buffer; maps polled by the loader |
| OpenSSL uprobes, same file | maps `ssl_stats`, `ssl_fds` (by `SSL *`), `ssl_ctxs` (by thread) | uprobes `SSL_set_fd`, `SSL_write`, `SSL_read`, `SSL_free`; uretprobe `SSL_read` | as above |
| Ring buffer `events` (kernel) | a bounded FIFO of wire, data and close records | reserve (may fail), submit, read | probes, reader |
| Loader, `internal/loader` | links, map handles | `New`, `attachSSL`, `Close`; `Flows`, `SSLStats`, `DeleteFlow`, `ReadEvent` | kernel; goroutines |
| Connection table, `internal/model` | `conns`, `history`, `pidfd`, `plainBySSL` under one mutex | `UpdateFlows`, `UpdateSSLStats` (poller); `ApplyWire`, `ApplyData`, `ApplyClose` (reader); `Snapshot`, `SnapshotHistory` (interface) | loader types, parser, `/proc` |
| `/proc` lookup, `proc.go` | none | `procPeer` | called by `resolve` |
| Goroutines, `main.go` | the poller's snapshots | event reader; map poller | everything above |
| TLS parser, `internal/tlsparse` | none (pure) | `Parse` | called by `ApplyWire` |
| Terminal interface, `internal/ui` | selection, view, sort order, rows | key presses, ticks | `Snapshot` |

What is hard here:

- **Concurrency.** Probes run on any thread at any time, the poller walks a hash
  map that is being written, reader and poller update the same connection from
  two sources that lag each other differently, and `/proc` is read while the
  process goes on.
- **Reuse of names.** `flows` is keyed by a kernel address and `ssl_stats` by a
  user address; both are handed out again, and a user address means something
  only inside one process. Descriptors are reused as well.
- **Loss.** A kretprobe may miss a return, a map or the ring may be full, a
  process may die without `SSL_free`. No program reports any of it.
- **Two-step protocols.** Entry probe and return probe; close event and poll;
  merge of a snapshot and deletion of what it lists as closed; the two snapshots
  of one refresh.
- **Sharing.** Counters in map elements are written through pointers by several
  CPUs, and the byte arrays of plaintext samples are shared by the table and the
  copies the interface reads without the mutex.
- **Partial input.** Captures end anywhere, directions arrive in any order, and
  the parser starts over each time.

What makes each part correct: a return is credited to its own call; counters
never exceed what happened, and are exact where calls do not overlap; nothing is
captured before a TLS record; maps do not keep entries of what is gone; the table shows one
connection per row, moves closed ones to a bounded history, never marks a
connection whose handshake it has parsed as pre-existing, and settles at the
kernel's numbers when traffic stops; plaintext is shown on the connection it
belongs to; what the parser tells of a handshake is the server's choice and is
not taken back; the selected row exists and is on screen. The hazards are listed with their lines in `PROJECT.json`.

## Modules and how they correspond to the code

`Ring` ← `WireProbes` ← `SslProbes` ← `Store` ← `Tlstat` (each EXTENDS the one
before it). `Lifecycle` is what `Tlstat` is shown to implement. `PlainTail`,
`TlsParse`, `Ui` and `FlowRace` look at one aspect in more detail than the chain
does and stand alone. Definitions keep the names of the functions they model; every one is
mapped to its lines in `PROJECT.json`. Names that end in a suffix and are
introduced by "Seeded fault" are mutated forms used to show that a property can
fail; nothing else uses them.

**Ring.** The kernel's ring buffer as the programs use it. Capacity is counted in
records. Records submitted by one probe are atomic with it.

**WireProbes.** Variables `flows` and `recv_ctxs` are the maps. `sock`, `call`,
`rcvd` and `armed` describe the host: the state, owner, descriptor and
remote endpoint of each socket address, the `tcp_recvmsg` call a thread is
inside, what was really received, and in which direction of which
connection a TLS record was the first capture. A probe and the call that fires it
are one action: what is checked here is what the probes do when those of one
address do not overlap, and `FlowRace` has those that do. An address is freed when its socket reaches TCP_CLOSE without a
descriptor and is then given to the next connection; `life` numbers them.
Buffers are abstracted to what `capture_wire` tells apart: a Hello, another
record header, other bytes, no pointer, unreadable, readable only at its start.
`k_tcp_recvmsg` chooses whether the kretprobe follows the call (`hooked`). The
initial states include connections, and calls blocked inside `tcp_recvmsg`, that
are older than tlstat.

**SslProbes.** Variables `ssl_stats`, `ssl_fds`, `ssl_ctxs` are the maps; `sess`
and `sslcall` the sessions of each process and the `SSL_read` calls in progress;
`leaked` remembers map entries whose session ended with no probe to tell.
`attachSSL` attaches the uprobes one by one in the code's order while the
programs run (`attached`); `NewReturns` is the end of it, complete or given up at
the first failure. A probe that is not attached does nothing, so calls and
sessions may begin before an attachment and end after it.
A session is bound by `SSL_set_fd` (seen) or otherwise (`SSL_set_bio`, unseen),
may be pointed at another socket, and ends by `SSL_free` or with its process
(`Abandon`, also in the middle of an `SSL_read`, whose stash then stays), or by an `SSL_free` that is not hooked (`UnseenFree`). Data events carry the session and the call they were captured from.

**Store.** `conns`, `history`, `pidfd`, `plainBySSL`, with one operator per
method. A reassembly buffer is the sequence of chunks appended and its length;
`Info` is reduced to whether a Hello was found; a plaintext sample to
the first chunk and the chunk its tail ends with. `resolve` returns the set of
answers the code may give: Go ranges over a map in any order. `UpdateSSLStats` is
cut at each `resolve`, because `/proc` changes between two calls.

**Tlstat.** The reader (`ReadWire`, `ReadData`, `ReadClose`) and the poller,
whose `pc` goes `flows` → `delete` → `stats` → `join`. Both map walks visit one
key per step. When `SSL_free` deletes the key the walk of `ssl_stats` stands at,
the kernel starts over (`RestartScan`); when the library has seen more keys than
the map can hold it gives up (`AbortScan`) and the poll ends without an update.
The poller holds the mutex through `join`. The reader's record is taken from the
ring and applied in one step: holding it outside while waiting for the mutex
differs only in one more free place in the ring.

`Tlstat` starts with the uprobes in one of the states `Attachments` allows (all
five in the runs).

**Lifecycle.** The abstract specification of a connection's life: an entry of the
kernel (`none`, `open`, `closed`), a row of the table (likewise) and the length of
the history. Rows follow entries with a delay and never run ahead; an entry is
dropped only when the row has the end on record; a row leaves only for the
history. `Tlstat` maps `flows`, `conns` and `history` to it (`Life`). A row may
open again: `CLOSE_WAIT` counts as closed although the connection goes on.

**PlainTail.** The plaintext of one direction as Go slices: `heap` holds the
backing arrays, a slice is an array and a length, `append` writes in place while
the capacity lasts (`Spare`: how much append allocates beyond what it needs).
`ApplyData`, `UpdateSSLStats`, `ApplyClose` and `Snapshot` with what they do to
slices; which connection `resolve` answers is any. A byte is the sample and the
position it was captured at, so that every byte shown can be traced.

**TlsParse.** `Parse` over the growing buffers of both sides. A stream is a
sequence of cells, one for each piece the cursor takes at a time; a capture ends
after any cell, Hellos come in one or two records, servers put the extensions in
different orders, and behind ChangeCipherSpec the handshake records hold garbage.
The lengths inside messages are those of a correct peer. Names in a list come in
one cell.

**Ui.** `Update` of the bubbletea model: keys, window size, and the tick, whose
`refresh` is two steps (`Begin`, `Show`) because `Snapshot` and
`SnapshotHistory` lock the store separately. The store changes between any two
steps. `sortConns` is the set of orders `sort.Slice` may give; by bytes and by
time any order is possible. `maxRows` and `start` are the window `View` shows.

**FlowRace.** The probes of one socket on several CPUs at the grain of map
operations and of loads and stores through the element's pointer: `flow_get` with
its lookup, `BPF_ANY` update, second lookup and backfill; the additions to `tx`,
`rx`, `wire_out` and `wire_in`; the test of the capture budget before them; and the
tracepoint with `BPF_NOEXIST`. An update puts a new element into the map (`flows`
names it, `elems` has them all), and a CPU with a pointer to the old one goes on
writing there. `counted` is what the probes have added, `raced` the directions
whose probes started while another one of theirs, or one that may be making the
entry, was under way.

**MCWireProbes, MCSslProbes, MCTlstat, MCUi** instantiate constants for TLC;
**WireProbes_proofs**, **SslProbes_proofs**, **Tlstat_proofs**, **Owners_proofs**,
**Ui_proofs**, **PlainTail_proofs** and **FlowRace_proofs** hold theorems; the first four build on each
other as the modules they are about do (**Owners_proofs** is about `Tlstat` too).

## Runs

Passing runs. Bounds are constants named in the modules: `MaxIo` calls of
`tcp_sendmsg`/`tcp_recvmsg`, `MaxLife` connections per address, `MaxSess`
sessions, `MaxOps` SSL calls; `TcpSteps` picks the kinds of connection steps.
The map sizes, `RingCap`, `WireCap`, `DataCap`, `MaxWireEvents`, `MaxWireBuf` and
`MaxHistory` are the code's own limits, made small so that they are hit.

| Run | Checks | Instance, and why it is enough |
|---|---|---|
| `wire` | `PairedReturn`, `WTypeOK`, `CapturedAfterTls`, `RxNeverOvercounts` | 2 threads of one process, 2 addresses that serve 2 connections each, `recv_ctxs` and `flows` of size 1, a ring of 1, a budget of 2 captures, 2 calls besides those that were blocked when the probes attached; buffers with a record, other bytes, a readable start only, or no pointer. A wrong pairing needs a missed return and a second call on another socket, or two threads and a full map: two calls. The second capture may be a continuation chunk, one after a lost one, or one of a second connection on the entry of the first or on a new one. The theorems below cover all sizes. |
| `race_safe` | `NothingInvented`, `ExactUnlessRaced` | 3 CPUs, 4 probes in all, a budget of 1: two calls of one direction that overlap, a call of the other direction and the tracepoint next to them; both ways of losing counts and the overrun of the budget occur. |
| `ssl` | `STypeOK`, `PrxOfLiveSessions`, `StatsHaveOwner`, `SslPaired` | attachment from none to all, failing anywhere; 2 processes of one thread, 2 pointer values, 3 sessions, `ssl_stats`, `ssl_fds` and `ssl_ctxs` of size 1: sharing of a pointer, `SSL_free` under the other session, reuse, sessions that end without `SSL_free`, missed returns. |
| `tl_store` | `TypeOK`, `PreexistingSound`, `HistoryBounded`, `ReassemblyInOrder`, `WireBufBounded`, `OpenRowsBacked`, `ImplementsLifecycle`, `ImplementsWire` | 1 address whose entry is closed, deleted and created anew, history of 1: a FIN marks the entry closed while the program goes on sending, so three calls give two retirements without a `close()`. Chunks of 3 and of exactly `WIRE_CAP` = 16 bytes against a reassembly cap of 19 and a ring of 2: the clamp is hit, the cap is approached, overshot and hit again, and records are dropped or read after the retirement. |
| `tl_live` | `ClosedReclaimed`, `ClosedRetired`, `Converges`, `PlainConverges`, `SampleDropped` | liveness, with fair goroutines: two calls around a FIN, one session, a ring of 1 so that events, the close event too, get lost. `PlainConverges` is about the time while the session has its entry in `ssl_stats`; what becomes of its totals afterwards is `tl_short`'s matter. One session: with a second one after `SSL_free` the totals grow at every poll (`tl_final`) and there is no finite state space. |
| `tl_owner` | `SampleOneOwner` | 2 sessions on one pointer over a connection that has an entry, is polled, gets the samples joined and is retired after a FIN; buffers readable or unmapped, `/proc` readable or not, `ssl_stats` of size 1 so that walks restart and are aborted. At most 2 data and 2 close events occur and the ring holds 5, so that no close event is lost (after a lost one samples do mix). The samples, the row and the history each get to show plaintext of the first and of the second session. The totals of the row are bounded (`TotalsBounded`), as they grow at every poll (`tl_final`). The theorem below covers all sizes. |
| `plain_tail` | `TailIsSuffix`, `ShownOneSample`, `ShownStays` | 2 pointers, 1 connection, 3 chunks of 1 or 3 bytes, a tail of 2: chunks shorter and longer than the tail, appends in place, moves to new arrays and shifts. |
| `ui` | `SelectionShown`, `NothingLost`, `PidOrderFixed`, `RowsFollow` | 2 connections of one process, a window of 1 row (2 in the larger terminal), all keys at any time. |
| `parse` | `InfoSound`, `ReparseSettled`, `NothingTakenBack` | 4 servers (two TLS 1.3 with the extensions in either order, 1.2 with a certificate, 1.0), Hellos in one record or split at each of the places a Hello of these streams can be, every sequence of captures of both sides. For these handshakes nothing is left out, but that captures are a prefix of the stream (see the limits). `ReparseSettled` and `NothingTakenBack` except ALPN, which a parse of the client's buffer does put back (see below). |

Deadlock is checked in all `tl_*` runs (the poller never stops) and in
`plain_tail`. It is not checked in the others, where nothing is left to do once
the bounds are used up, the streams are read or the user has quit. `wire` is
symmetric in threads (all of one process) and addresses, `ssl` in pointers and
addresses; their properties are invariants.

`ImplementsLifecycle` is the refinement of the abstract specification. That the
poller deletes by its snapshot is what makes it true: if it looked into the map
again after the merge it could delete an entry whose end the table has not seen
(mutant `MergeFlows_reread`). `OpenRowsBacked` is the same relation seen from the
table: a row shown as open has an entry whose end will be noticed. Its one
exception is a row made by a wire event that was still queued when the connection
was retired; it has no endpoint and is not shown, but stays for ever.

`ImplementsWire` is a refinement too: the poller, the reader and the uprobes change
the kernel side only as `WireProbes` allows, so what is checked and proved of
`WireProbes` holds of the whole program. In particular the poller never deletes
an entry that is not closed, although it works from an older snapshot, because
a probe, run by itself, never takes `closed` back (overlapping ones may).

## Where the code and its documents disagree

Each of these runs checks what a comment or document says, and TLC shows a behaviour of
the code that breaks it.

| Run | Statement | What happens |
|---|---|---|
| `tl_recreate` | `flows` entries "are deleted on TCP close" (`design-doc.md:232`) | a call after TCP_CLOSE recreates the entry and nothing marks it closed again |
| `tl_final` | "must then leave this connection's totals alone" (`model.go:43`) | the join adds to final totals, at every poll if a further session of the connection lives |
| `tl_short` | final totals "so userspace can attribute them even to short-lived connections that close between polls" (`tlstat.bpf.c:317`, likewise `model.go:220`, `design-doc.md:185`) | a close event applied before the first poll of its connection finds no row, and its totals are dropped (`model.go:229`) |

Other statements the code does not keep to. For these there is no run of that
kind; the properties named say what does hold.

| Statement | What happens | What holds |
|---|---|---|
| "bytes sent on the wire", "bytes received on the wire" (`tlstat.h:33`) | two CPUs miss the lookup and the second `BPF_ANY` update wipes what the first has counted (`tlstat.bpf.c:126`); or both load a counter before either stores it | `NothingInvented`; `ExactUnlessRaced`: exact in a direction whose calls do not overlap. TLC shows both losses if the exception `raced` is left out |
| "wire chunks emitted per direction per socket" (`tlstat.h:12`, `MAX_WIRE_EVENTS`) | two CPUs test the capture counter (`tlstat.bpf.c:150`) before either increments it (`:179`), and both submit | `ExactUnlessRaced`, likewise |
| "The first chunk in a direction must look like a TLS record (so we don't slurp plain HTTP)" (`tlstat.bpf.c:138`) | an address reused before its entry is deleted keeps the old entry's capture counters: the new connection's first chunk is not looked at | `CapturedAfterTls`: this or an earlier connection of the address had a TLS record captured first |
| "exact (pid,fd)->socket via /proc when fd is known and unique" (`model.go:314`) | any connection with that remote endpoint matches, and is cached (`model.go:327`): of two connections to one endpoint, one may show the other's plaintext | `SampleOneOwner`: what is shown is of one session, if not of the right one |
| Info is "updated in place, idempotent" (`design-doc.md:161`) | `handleExtension` sets `ALPN` for both sides (`parse.go:201`): parsing the client's buffer again, as each further capture of it does, replaces the server's choice by the client's offer | `ReparseSettled`: nothing else changes |

Further observations made while modelling, which no run of this directory
checks:

- If a reused address has its new entry before the next poll, the row is merged
  rather than retired: it keeps the old handshake and the old connection never
  reaches the history.
- A close event lost in a full ring (`tlstat.bpf.c:326`) takes the session's totals
  with it: the row falls back to 0 at the next poll.
- "Snapshot returns a stable copy" (`model.go:291`): the Conn structs are copied,
  the bytes of their tails are not, and `appendTail` moves them under the
  interface, a data race. `ShownOneSample` and `ShownStays` say what does hold.
- A ServerHello of TLS 1.3 cut right behind the cipher suite shows the legacy
  version until the next byte is captured (`parse.go:152`).
- A chunk longer than `WIRE_CAP - 1`, or one the ring had no room for, leaves a
  hole in the reassembled stream that the parser cannot see (`tlstat.bpf.c:165`,
  `:171`): record lengths are then counted over missing bytes.
- If attaching `SSL_free` fails, `SSL_set_fd` stays hooked and `ssl_fds` is never
  cleaned (`loader.go:146`). `ssl_stats` is safe: what fills it is attached
  later.
- In the view All a connection retired between the two snapshots is listed twice;
  sorted by time or bytes, rows that compare as equal change places at every tick
  (`ui.go:129`); history rows need no endpoint (`ui.go:116`).
- Concurrent probes may also wipe `direction` and `closed` of an entry
  (`tlstat.bpf.c:125`).
- `tx` is called "bytes sent on the wire" (`tlstat.h:33`) and `ptx` "plaintext
  bytes written" (`tlstat.h:51`); both are counted on entry, so a refused send
  and a retried `SSL_write` count too.
- `ssl_stats` and `ssl_fds` keep the entries of a process that exits without
  `SSL_free`, until a session with the same pointer value is freed: hence the
  exception `leaked` in `StatsHaveOwner` and `PrxOfLiveSessions`.
- A poll between the capture of a ClientHello and its application marks a new
  connection as pre-existing (`model.go:135`) until the next record is read.
- CLOSE_WAIT gets the entry of a connection that still sends deleted
  (`tlstat.bpf.c:254`).
- A session younger than the snapshot of `ssl_stats` loses its sample
  (`model.go:285`), and a walk restarted by `SSL_free` lists, and adds up,
  sessions twice (`loader.go:243`).
- The fallback of `resolve` does not look at `IsTLS` (`model.go:337`).

## Fairness

`FairSpec` assumes weak fairness of the poller and strong fairness of the reader.
The poller is a loop over a ticker and every step of it ends; the walk of
`ssl_stats` could restart for ever only if sessions were freed for ever, which
the bounds exclude and `AbortScan` ends in any case. The reader needs strong
fairness because it can only apply a record when the poller does not hold the
mutex; a Go mutex in starvation mode hands itself to the goroutine that has
waited longest. Nothing is assumed of the observed programs or of TCP: they may
stop at any time.

`Ui` assumes weak fairness of `refresh`: a tick that was asked for arrives, and
its handler ends.

## Proofs

The theorems hold for every value of the constants that the assumptions admit:
any sets of threads, processes, sockets and pointers, any map and ring sizes and
any bounds. TLC evaluates the assumptions in the runs. Besides ranges
of sizes they say that `None` is not a record (`FlowAssumption`,
`SessionAssumption`, `ConnAssumption`: `None` stands for a missing key or a nil
pointer) and that there are finitely many processes, sockets and connections
(`SslAssumption`, `TlstatAssumption`, `UiAssumption`: a pointer value is in use in a
finite number of processes, one poll retires a finite number of rows, one refresh
shows a finite number).

| Theorem | States | Module |
|---|---|---|
| `TypeCorrect`, `ReturnsPaired`, `RxSound` | `WTypeOK`, `PairedReturn`, `RxNeverOvercounts` | `WireProbes_proofs` |
| `CapturesFollowTls` | `CapturedAfterTls` | |
| `NoCountInvented`, `ExactWithoutRace` | `NothingInvented`, `ExactUnlessRaced` | `FlowRace_proofs` |
| `SslTypeCorrect`, `SslReturnsPaired`, `StatsOwned` | `STypeOK`, `SslPaired`, `StatsHaveOwner` | `SslProbes_proofs` |
| `PrxBounded` | `PrxOfLiveSessions` | |
| `TlstatTypeCorrect`, `PreexistingRight`, `BuffersBounded`, `HistoryKept`, `RowsBacked` | `TypeOK`, `PreexistingSound`, `WireBufBounded`, `HistoryBounded`, `OpenRowsBacked` | `Tlstat_proofs` |
| `CapturesInOrder` | `ReassemblyInOrder` | |
| `WireImplemented`, `LifecycleImplemented` | the refinements `ImplementsWire`, `ImplementsLifecycle` | |
| `WireCountsRight`, `SslCountsRight`, `PlainReadBounded` | `PairedReturn` and `RxNeverOvercounts`, `SslPaired` and `StatsHaveOwner`, `PrxOfLiveSessions`, of the whole program | |
| `SamplesOfOneSession` | `SampleOneOwner`, if `OneUser` and `CloseReported` hold | `Owners_proofs` |
| `SelectionVisible` | `SelectionShown` | `Ui_proofs` |
| `RefreshLosesNothing`, `PidOrderKept` | `NothingLost`, `PidOrderFixed` (action properties) | |
| `TailRolls`, `OneSampleShown`, `ShownUnchanged` | `TailIsSuffix`, `ShownOneSample`, `ShownStays` (action property) | `PlainTail_proofs` |

Each module has one lemma per action, or per group of actions that differ only in
what they leave alone, and lemmas on the operators (`CappedRange`, for instance:
the clamp and the mask of a captured length together give 1 to cap − 1 bytes).

**Wire probes.** The inductive invariant `WInv` adds two facts to the three
invariants. `CallOpen`: a thread inside `tcp_recvmsg` keeps the descriptor of its
socket, so the return probe reads the tuple of a live connection. `SockNamed`: a
socket in use has a remote endpoint, so that tuple is one. They are needed for the
type of the entry `flow_get` fills in. `RxNeverOvercounts` rests on
`PairedReturn`: without it the bytes of one call could be credited to the socket
of another. For the captures, `SlurpInv` ties the counters of an entry to the
records: a counter above 0 vouches for a TLS record on that address and direction,
by this connection or an earlier one. "Or an earlier one" cannot be left out: a
reused address keeps its old entry's counters. These theorems are about probes that run one at a time
on an address.

**Overlapping probes.** `FlowRace_proofs` has what is left of the counters when
they overlap, on any number of CPUs. `RInv` says where each probe is, that a probe
which has a pointer has one to an allocated element, and that a value loaded was
added before: from it `NothingInvented`, as a store writes the loaded value and
the probe's own bytes, which are added in the same step. For `ExactUnlessRaced`
the second half, `CInv`, is needed. While some direction is not raced, every call's
pointer is to the element the map has, and a call that is about to create the
entry is the only one under way, with nothing counted yet, so that its `BPF_ANY`
wipes nothing; the tracepoint's `BPF_NOEXIST` creates the entry only where there is
none (`Sharing`). In a direction that is not raced there is one probe at a time,
what it loaded is still what has been added, and the budget it tested is still
open when it increments the counter (`Clean`). The other direction stores to other
fields.

**OpenSSL uprobes.** `SInv` needs `SslCallOpen` (no session is freed under a
thread that reads from it) and `FilledLate`: an entry of `ssl_stats` means that
three probes are attached, one of `ssl_ctxs` that four are. That is where the
order in `attachSSL` matters: `SSL_free` is hooked before anything that fills
`ssl_stats`, so a free that the probes do not see cannot leave an entry there.

`PrxBounded` compares a counter with a sum: what the sessions at a pointer have
read, over all processes that use its value. The sum is `Total`, a recursive
function on finite sets. Two facts about it are needed: when one session reads n
bytes the total grows by n (`TotalAdds`), and it never falls when no summand does
(`TotalMore`). The provers cannot apply the library's induction theorems, so both
are shown by contradiction: among the finite sets on which the fact fails there is
a smallest one (`Smallest`), and taking an element out of it gives a smaller one.

**The program.** `TInv` is `WInv`, `SInv`, types, `RowsOK` (each row with the entry
behind it) and `PollSound`: what the poller holds is old but not wrong. An entry
in its snapshot is still in the map, because only the poller deletes, and if the
snapshot says closed then it is; what it is about to delete is closed in the map
and in the table. From `PollSound` follow both refinements and `OpenRowsBacked`.
The refinement proofs show that `Init` maps to the initial states and every
action to a step or a stutter of the abstract specification; the rows that one
`UpdateFlows` retires together are one step of `Lifecycle`.

`CapturesInOrder` needs an invariant that spans three places, `ChainInv`: the last
chunk of a buffer that is not full is followed by the first queued event of its
direction, that by the next one, and the last one by the entry's counter, where
"followed" is the next number or 0 for a new entry.

The theorems about the probes alone hold of the program as well: `TInv` contains
`WInv` and `SInv`.

**Whose plaintext is shown.** `plainBySSL` is keyed by the pointer, which a later
session gets again while records of the earlier one are still queued.
`SamplesOfOneSession` follows the plaintext of a pointer through the places where
it may stand: the sample (place 0) and the records in the ring (1 and on). Its
invariant `OwnedInv` says that two places with no close record of the pointer
between them hold plaintext of one session (`OneEach`), and that what no close
record follows is of a session that is still there and whose end will be reported
(`LastIn`). Reading a data record moves a place into the sample, reading a close
record empties it, and eviction by the poller only makes it smaller; a record is
queued for a live session only. What a row or the history shows was taken from a
sample as a whole.

Two hypotheses are made, because without them it is false (TLC shows it on the
instance of `tl_owner` with a ring of 1, with `FreeKinds` of both kinds, or with
two processes). `OneUser`: no two processes use a pointer value at the same time;
`ssl_stats` and the samples do not know the process. `CloseReported`: a session
with an entry ends by an `SSL_free` whose close event finds room in the ring.
A close event lost in a full ring, or a process that exits without `SSL_free`,
leaves the sample to the next session with that pointer, until a poll that
runs in between evicts it. The code promises neither; the theorem says that
nothing else, in particular no delay and no interleaving, mixes sessions.

**Interface.** `UInv`: a selection out of range occurs only while there are no
rows (`SelectedRow`; the key for the last row sets −1 on an empty list), a connection is in the table
or in the history but not in both, and between the two snapshots of a refresh what
was there at its start is in the first snapshot or has left the table for good
(`RefreshSound`). The last is what makes the order of the two calls matter.
For `PidOrderKept`, `OInv` says that the rows shown are in order: live ones first,
by process and socket if that was the order, then retired ones, the newest first,
which stays true of the history as it grows, because what is retired later is none
of them. Two lists of the same rows in the same strict order are equal
(`OneOrder`, by the least position at which they differ).

**Plaintext.** `PInv` says who owns which array. A tail a sample rolls in is no
head of anyone, and only copies of the same sample's point into it (`Apart`); the
bytes of each slice are of one sample; the tail holds the last bytes put into the
sample (`TailExact`). Without ownership no write in place could be shown to leave
other slices alone. That a sample is of one session is not said here: it rests on
close events, and is `SamplesOfOneSession`.

Only model-checked:

- liveness (`ClosedReclaimed`, `ClosedRetired`, `Converges`, `PlainConverges`,
  `SampleDropped`, `RowsFollow`): fairness is out of TLAPS's reach;
- `InfoSound`, `ReparseSettled` and `NothingTakenBack` of the parser: what a fold over
  a stream computes, which takes induction over data. `TlsParse` has no unbounded
  constant: given that `Splits` has all places, as in `parse`, the run covers every
  behaviour of the module, and a proof would only add handshakes of other shapes.

## Limits of the models

- Each probe is one step except in `FlowRace`. That one has a single key, room in
  the map for it, no deletion by the poller and no `is_tls`, and a replaced element
  is not given to another key.
- The captures of `TlsParse` are a prefix of the stream: holes left by chunks that
  are cut at `WIRE_CAP - 1` or lost are not modelled, nor is what the parser makes
  of the bytes behind one.
- `close()` takes effect when no call is inside the socket; sockets shared by
  `fork`, `dup` or descriptor passing are left out, as are `SSL_up_ref` and calls
  of `SSL_read` inside `SSL_read`.
- Entry kprobes and the tracepoint are never missed; return probes may be.
- 64-bit counters are unbounded naturals: they do not overflow in practice.
- `time.Now()`, `LastActive`, `Comm` and formatting are left out.
- Not modelled: names and rendering (output only), the decoding of event bytes
  and of `/proc/net/tcp` lines, command line, loading of the eBPF objects and
  attachment of the kernel probes (they succeed or the program ends).
- `bpf/vmlinux.h`, 169 008 lines of kernel type declarations made by a tool, and
  the bindings of bpf2go hold no behaviour and cannot be modelled. They are by far
  most of the repository's lines, whatever part of its logic is covered; of
  `tlstat.bpf.c` and `tlstat.h` nearly every line is.

## Plan

The program's behaviour is modelled, and every safety property the passing runs
check is proved but those of the parser (`SampleOneOwner` under the
hypotheses given above). What could be added is
a parser model over handshakes of any shape, with the prefix of a stream rather
than the stream as its data, so that `NothingTakenBack` can be stated of one step
of the fold.
