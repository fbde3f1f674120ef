----------------------------- MODULE ResultLog -----------------------------
(***************************************************************************)
(* What the result store promises to the probe handlers, without its      *)
(* queue, its worker, its batches or its transactions: a record that was  *)
(* accepted is settled at most once, a probe's records are settled oldest *)
(* first, a group of records settled together is kept whole or not at     *)
(* all, and a kept record only disappears once it is older than the       *)
(* retention.  ResultStore implements it.                                 *)
(***************************************************************************)
EXTENDS Naturals

CONSTANTS
  Callers,    \* the probes that produce records
  Retention,  \* records older than this may be deleted; 0: kept for ever
  MaxClock    \* bound: timestamps are 1 .. MaxClock

Record == [by : Callers, ts : 1 .. MaxClock]

VARIABLES
  clock,      \* the latest timestamp given to a record
  accepted,   \* every record the store ever took
  settled,    \* the accepted records whose fate is decided
  kept        \* the settled records that can be queried

vars == <<clock, accepted, settled, kept>>

Init ==
  /\ clock = 0
  /\ accepted = {}
  /\ settled = {}
  /\ kept = {}

(* Time passes when a sample is taken. *)
Tick ==
  /\ clock' = clock + 1
  /\ UNCHANGED <<accepted, settled, kept>>

(* The store takes a record, newer than all it took of the same probe. *)
Accept(r) ==
  /\ r.ts <= clock
  /\ \A q \in accepted : q.by = r.by => q.ts < r.ts
  /\ accepted' = accepted \cup {r}
  /\ UNCHANGED <<clock, settled, kept>>

(* The fate of a group is decided as a whole, each probe's oldest first. *)
Settle(S) ==
  /\ S # {}
  /\ \A r \in S, q \in (accepted \ settled) \ S : q.by = r.by => r.ts < q.ts
  /\ settled' = settled \cup S
  /\ kept' \in {kept, kept \cup S}
  /\ UNCHANGED <<clock, accepted>>

(* Records past the retention are deleted. *)
Expire ==
  /\ Retention > 0
  /\ kept' = {r \in kept : r.ts + Retention >= clock}
  /\ UNCHANGED <<clock, accepted, settled>>

Next ==
  \/ Tick
  \/ \E r \in Record : Accept(r)
  \/ \E S \in SUBSET (accepted \ settled) : Settle(S)
  \/ Expire

Spec == Init /\ [][Next]_vars
=============================================================================
