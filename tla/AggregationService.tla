------------------------- MODULE AggregationService -------------------------
(***************************************************************************)
(* What the aggregate pallet promises to the submitters of proofs and to   *)
(* the readers of receipts, with domains, rules, queues and money left     *)
(* out: a statement that was accepted waits in exactly one batch of its    *)
(* domain until a receipt covers that batch; batches are filled one after  *)
(* the other; a receipt covers the statements of its batch in the order in *)
(* which they were accepted and never changes; closing or removing a       *)
(* domain loses nothing.                                                   *)
(***************************************************************************)
EXTENDS Naturals, Sequences

CONSTANTS
  DomainIds, BatchIds,
  Statements,
  MaxBatch             \* no receipt covers more statements than this

VARIABLES
  known,               \* domains ever registered
  open,                \* domains that accept statements
  waiting,             \* <<domain, batch>> -> accepted statements, no receipt yet
  receipts             \* <<domain, batch>> -> the statements the receipt covers

vars == <<known, open, waiting, receipts>>

Init ==
  /\ known = {}
  /\ open = {}
  /\ waiting = <<>>
  /\ receipts = <<>>

Register(d) ==
  /\ d \notin known
  /\ known' = known \cup {d}
  /\ open' = open \cup {d}
  /\ UNCHANGED <<waiting, receipts>>

(* A domain may close with any step, when its batch ids are used up. *)
MayClose(d) == open' = open \/ open' = open \ {d}

(* The batch a statement joins is the latest one of its domain. *)
Accept(d, b, s) ==
  LET k == <<d, b>>
      old == IF k \in DOMAIN waiting THEN waiting[k] ELSE <<>>
  IN  /\ d \in open
      /\ k \notin DOMAIN receipts
      /\ \A j \in DOMAIN waiting \cup DOMAIN receipts : j[1] = d => j[2] <= b
      /\ Len(old) < MaxBatch
      /\ waiting' = [j \in DOMAIN waiting \cup {k} |->
                       IF j = k THEN Append(old, s) ELSE waiting[j]]
      /\ MayClose(d)
      /\ UNCHANGED <<known, receipts>>

Publish(d, b) ==
  LET k == <<d, b>>
  IN  /\ k \in DOMAIN waiting
      /\ receipts' = [j \in DOMAIN receipts \cup {k} |->
                        IF j = k THEN waiting[k] ELSE receipts[j]]
      /\ waiting' = [j \in DOMAIN waiting \ {k} |-> waiting[j]]
      /\ MayClose(d)
      /\ UNCHANGED known

Close(d) ==
  /\ d \in open
  /\ open' = open \ {d}
  /\ UNCHANGED <<known, waiting, receipts>>

Next ==
  \E d \in DomainIds :
    \/ Register(d)
    \/ \E b \in BatchIds, s \in Statements : Accept(d, b, s)
    \/ \E b \in BatchIds : Publish(d, b)
    \/ Close(d)

Spec == Init /\ [][Next]_vars
=============================================================================
