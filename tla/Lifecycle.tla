----------------------------- MODULE Lifecycle -----------------------------
(***************************************************************************)
(* What tlstat promises about the life of a connection, without its        *)
(* goroutines, snapshots, queues and probes: an entry of the kernel's map  *)
(* and a row of the table for each socket address, and the history.        *)
(* A row never runs ahead of the entry, an entry is given up only when the *)
(* row knows the end, and a row leaves the table only for the history.     *)
(***************************************************************************)
EXTENDS Naturals, FiniteSets

CONSTANTS Keys, HistoryCap

VARIABLES
  entry,  \* the kernel's entry of a key: "none", "open" or "closed"
  row,    \* the row of the table: "none", "open" or "closed"
  past    \* rows kept in the history

lvars == <<entry, row, past>>

LInit ==
  /\ entry = [k \in Keys |-> "none"] /\ row = [k \in Keys |-> "none"]
  /\ past = 0

(* A probe finds the connection at work, or at its end.                    *)
Appear(k) == entry[k] = "none" /\ entry' = [entry EXCEPT ![k] = "open"] /\ UNCHANGED <<row, past>>
End(k) == entry[k] = "open" /\ entry' = [entry EXCEPT ![k] = "closed"] /\ UNCHANGED <<row, past>>

(* A capture may be the first the table hears of a connection.             *)
Hear(k) == row[k] = "none" /\ row' = [row EXCEPT ![k] = "open"] /\ UNCHANGED <<entry, past>>

(* Rows follow entries, with a delay: a row may still turn "open" though   *)
(* the entry is "closed" by now, never the other way round.                *)
Follows(k, r) ==
  \/ r = row[k]
  \/ r = "open" /\ entry[k] # "none"
  \/ r = "closed" /\ entry[k] = "closed"

(* One poll: some ended rows move to the history, the others follow.       *)
Poll ==
  \E gone \in SUBSET {k \in Keys : row[k] = "closed"} :
    /\ \E new \in [Keys \ gone -> {"none", "open", "closed"}] :
         /\ \A k \in Keys \ gone : Follows(k, new[k])
         /\ row' = [k \in Keys |-> IF k \in gone THEN "none" ELSE new[k]]
    /\ past' = IF past + Cardinality(gone) > HistoryCap
               THEN HistoryCap ELSE past + Cardinality(gone)
    /\ UNCHANGED entry

(* The kernel's entry goes once the table has the end on record.           *)
Drop(k) ==
  /\ entry[k] = "closed" /\ row[k] = "closed"
  /\ entry' = [entry EXCEPT ![k] = "none"]
  /\ UNCHANGED <<row, past>>

LNext == Poll \/ \E k \in Keys : Appear(k) \/ End(k) \/ Hear(k) \/ Drop(k)

LSpec == LInit /\ [][LNext]_lvars
=============================================================================
