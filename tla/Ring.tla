-------------------------------- MODULE Ring --------------------------------
(***************************************************************************)
(* The BPF ring buffer `events' that carries wire, data and close records  *)
(* from the eBPF programs to the reader goroutine.  The kernel implements  *)
(* it; it is modelled from how bpf/tlstat.bpf.c uses it.  Records come out *)
(* in the order of their reservation, and a reservation fails when the     *)
(* buffer has no room: every program then drops its record silently.       *)
(* Capacity is counted in records.                                         *)
(***************************************************************************)
EXTENDS Integers, Sequences, FiniteSets

CONSTANT RingCap

ASSUME RingAssumption == RingCap \in Nat

VARIABLE events

\* Does bpf_ringbuf_reserve return a record (rather than NULL)?
bpf_ringbuf_reserve == Len(events) < RingCap

\* The record reaches user space.
bpf_ringbuf_submit(e) == events' = Append(events, e)
=============================================================================
