------------------------------ MODULE Aggregate -----------------------------
(***************************************************************************)
(* pallet_aggregate (src/pallets/aggregate): verified statements are       *)
(* queued per domain, grouped in aggregations and published by the         *)
(* aggregate extrinsic.  Every submitter puts its share of the publication *)
(* cost and of the delivery fee on hold; publishing settles those holds.   *)
(*                                                                         *)
(* One action per extrinsic, hook or callback.  A call that returns an     *)
(* error is rolled back by the transactional storage layer and leaves the  *)
(* state as it was: its conditions are the guards of the action.           *)
(***************************************************************************)
EXTENDS Balances, Sequences, FiniteSets, SequencesExt

CONSTANTS
  Manager,              \* User::Manager, the ManagerOrigin (root)
  None,                 \* Option::None
  Statements,           \* statement hashes
  U32Max,               \* u32::MAX: bounds domain ids and allowlist counts
  U64Max,               \* u64::MAX: bounds aggregation ids
  BalanceModulus,       \* 2^128: balances wrap at this value
  AggregationSize,      \* T::AggregationSize
  MaxPendingPublishQueueSize,
  Registrations,        \* argument records offered to register_domain
  Deliveries,           \* (fee, owner_tip) records offered to set_total_delivery_fee
  CallFees,             \* possible results of EstimateCallFee
  BaseTip, TipPercent,  \* the Linear publisher tip of the runtime
  DomainBaseDeposit, DomainByteDeposit,    \* LinearStoragePrice
  AllowlistBaseDeposit, AllowlistItemDeposit,  \* StoreItemsStoragePrice
  FreezeAmounts,        \* amounts other pallets may lock on an account
  Endowment             \* initial free balance of each account

ASSUME ConfigAssumption ==
  /\ Manager \notin Accounts
  /\ None \notin Accounts \cup {Manager} \cup Int
  /\ None \notin [count : Nat, amount : Nat]
  /\ U32Max \in Nat
  /\ U64Max \in Nat \ {0}
  /\ AggregationSize \in Nat
  /\ MaxPendingPublishQueueSize \in Nat
  /\ BalanceModulus \in Nat \ {0}
  /\ IsFiniteSet(Accounts)
  /\ Endowment \in [Accounts -> Nat]

ASSUME InputAssumption ==
  /\ CallFees \subseteq Nat /\ FreezeAmounts \subseteq Nat
  /\ BaseTip \in Nat /\ TipPercent \in Nat
  /\ DomainBaseDeposit \in Nat /\ DomainByteDeposit \in Nat
  /\ AllowlistBaseDeposit \in Nat /\ AllowlistItemDeposit \in Nat
  /\ Deliveries \subseteq [fee : Nat, owner_tip : Nat]
  /\ \A reg \in Registrations :
       /\ reg.aggregation_size \in Nat
       /\ reg.queue_size \in Nat \cup {None}
       /\ reg.aggregate_rules \in {"Untrusted", "OnlyOwner", "OnlyOwnerUncompleted"}
       /\ reg.proof_rules \in {"Untrusted", "OnlyOwner", "OnlyAllowlisted"}
       /\ reg.fee \in Nat /\ reg.owner_tip \in Nat
       /\ reg.delivery_owner \in Accounts \cup {None}

VARIABLES
  next_domain_id,  \* NextDomainId
  domains,         \* Domains: partial function from domain id to domain entry
  allowlist,       \* SubmittersAllowlist: set of <<domain id, account>>
  published,       \* Published: aggregations published in this block
  ledger,          \* balances, see module Balances
  receipts         \* the NewAggregationReceipt events emitted so far, with the
                   \* statements each receipt covers

vars == <<next_domain_id, domains, allowlist, published, ledger, receipts>>

Users == Accounts \cup {Manager}

DomainId == 0 .. U32Max

DomainState == {"Ready", "Hold", "Removable"}   \* Removed entries are deleted

AggregateSecurityRules == {"Untrusted", "OnlyOwner", "OnlyOwnerUncompleted"}

ProofSecurityRules == {"Untrusted", "OnlyOwner", "OnlyAllowlisted"}
-----------------------------------------------------------------------------
(***************************************************************************)
(* Aggregation entries.                                                    *)
(***************************************************************************)
AggregationCreate(id, size) == [id |-> id, size |-> size, statements |-> <<>>]

space_left(agg) == Excess(agg.size, Len(agg.statements))

completed(agg) == space_left(agg) = 0

(* The leaves of the receipt that compute_receipt hashes. *)
StatementsOf(agg) == [i \in DOMAIN agg.statements |-> agg.statements[i].statement]

(***************************************************************************)
(* Domain entries.                                                         *)
(***************************************************************************)
(* Faulty variant: one slot in the next aggregation is taken to be enough. *)
can_add_last_statement(dom) ==
  \/ Excess(dom.publish_queue_size, Cardinality(DOMAIN dom.should_publish)) > 0
  \/ space_left(dom.next) > 0

can_add_statement(dom) ==
  \/ Excess(dom.publish_queue_size, Cardinality(DOMAIN dom.should_publish)) > 0
  \/ space_left(dom.next) > 1

(* Faulty variant: the allowlist is not looked at. *)
allowlist_ignored(d, dom, allowed) == TRUE

is_allowlist_empty(d, dom, allowed) ==
  \/ dom.proof_rules # "OnlyAllowlisted"
  \/ \A a \in Accounts : <<d, a>> \notin allowed

update_hold_state(d, dom, allowed) ==
  [dom EXCEPT !.state =
     IF /\ DOMAIN dom.should_publish = {}
        /\ dom.next.statements = <<>>
        /\ is_allowlist_empty(d, dom, allowed)
     THEN "Removable" ELSE "Hold"]

handle_hold_state(d, dom, allowed) ==
  IF dom.state = "Ready" THEN dom ELSE update_hold_state(d, dom, allowed)

(* Faulty variants: the id is incremented without a check, or wraps        *)
(* around without closing the domain.                                      *)
pop_next_unchecked(dom) ==
  [dom EXCEPT !.next = AggregationCreate(dom.next.id + 1, dom.next.size)]

pop_next_wrapping(dom) ==
  [dom EXCEPT !.next = AggregationCreate((dom.next.id + 1) % (U64Max + 1), dom.next.size)]

(* The ids run out at u64::MAX: the domain is put on hold and an empty     *)
(* aggregation 0 takes the place of the next one.                          *)
pop_next_aggregation(dom) ==
  IF dom.next.id < U64Max
  THEN [dom EXCEPT !.next = AggregationCreate(dom.next.id + 1, dom.next.size)]
  ELSE [dom EXCEPT !.state = "Hold",
                   !.next = AggregationCreate(0, dom.next.size)]

is_next_aggregation_complete(dom) == dom.next.size <= Len(dom.next.statements)

available_aggregation(dom, agg) ==
  [dom EXCEPT !.should_publish =
     [i \in DOMAIN @ \cup {agg.id} |-> IF i = agg.id THEN agg ELSE @[i]]]

(* Append the entry; a full aggregation moves to the publish queue. *)
append_statement(dom, entry) ==
  LET added == [dom EXCEPT !.next.statements = Append(@, entry)]
  IN  IF is_next_aggregation_complete(added)
      THEN available_aggregation(pop_next_aggregation(added), added.next)
      ELSE added

(* take_aggregation, split in: is there one, which one, what remains. *)
can_take_aggregation(dom, id) ==
  IF dom.next.id = id THEN dom.next.statements # <<>>
                      ELSE id \in DOMAIN dom.should_publish

taken_aggregation(dom, id) ==
  IF dom.next.id = id THEN dom.next ELSE dom.should_publish[id]

take_aggregation(dom, id) ==
  IF dom.next.id = id
  THEN pop_next_aggregation(dom)
  ELSE [dom EXCEPT !.should_publish = [i \in DOMAIN @ \ {id} |-> @[i]]]

is_authorized_to_add_proof(d, dom, a) ==
  \/ dom.proof_rules = "Untrusted"
  \/ dom.proof_rules = "OnlyOwner" /\ dom.owner = a
  \/ dom.proof_rules = "OnlyAllowlisted" /\ <<d, a>> \in allowlist

can_handle_domain(u, dom) == u = Manager \/ dom.owner = u

can_set_total_delivery_fee(u, dom) ==
  can_handle_domain(u, dom) \/ dom.delivery.owner = u

can_user_aggregate_it(u, dom, agg) ==
  LET is_owner_auth == \/ u = dom.delivery.owner
                       \/ u = dom.owner
                       \/ u = Manager
  IN  \/ dom.aggregate_rules = "Untrusted"
      \/ dom.aggregate_rules = "OnlyOwner" /\ is_owner_auth
      \/ /\ dom.aggregate_rules = "OnlyOwnerUncompleted"
         /\ completed(agg) \/ is_owner_auth
-----------------------------------------------------------------------------
(***************************************************************************)
(* Money: what a submitter reserves, how it is settled, and the deposits   *)
(* for storage.                                                            *)
(***************************************************************************)
compute_tip(estimated) == BaseTip + (TipPercent * estimated) \div 100

total_fee(delivery) == (delivery.fee + delivery.owner_tip) % BalanceModulus

Reserve(dom, estimated) ==
  [aggregate |-> (estimated + compute_tip(estimated)) \div dom.next.size,
   delivery  |-> total_fee(dom.delivery) \div dom.next.size]

(* Both holds must succeed; the first one is undone when the second fails. *)
can_reserve_currency(b, a, reserve) ==
  /\ CanHold(b, a, reserve.aggregate)
  /\ CanHold(Hold(b, "Aggregation", a, reserve.aggregate), a, reserve.delivery)

reserve_currency(b, a, reserve) ==
  Hold(Hold(b, "Aggregation", a, reserve.aggregate), "Delivery", a, reserve.delivery)

(* Faulty variants: a hold that cannot be paid out is kept; or the full    *)
(* amount is released after a transfer, not what the transfer left.        *)
pay_or_keep(b, reason, a, dest, amount) ==
  IF dest \in Accounts
  THEN IF CanTransferOnHold(b, reason, a, dest, amount)
       THEN TransferOnHold(b, reason, a, dest, amount) ELSE b
  ELSE Release(b, reason, a, amount)

pay_and_release(b, reason, a, dest, amount) ==
  IF dest \in Accounts /\ CanTransferOnHold(b, reason, a, dest, amount)
  THEN Release(TransferOnHold(b, reason, a, dest, amount), reason, a, amount)
  ELSE Release(b, reason, a, amount)

(* Pay dest if there is one and it can be paid, otherwise give the hold    *)
(* back.  What a partial transfer leaves on hold stays there.              *)
handle_held_funds(b, reason, a, dest, amount) ==
  IF dest \in Accounts /\ CanTransferOnHold(b, reason, a, dest, amount)
  THEN TransferOnHold(b, reason, a, dest, amount)
  ELSE Release(b, reason, a, amount)

(* One statement: its share of the costs, then its share of the delivery. *)
settle_statement(b, aggregator, delivery_owner, s) ==
  handle_held_funds(
    handle_held_funds(b, "Aggregation", s.account, aggregator, s.reserve.aggregate),
    "Delivery", s.account, delivery_owner, s.reserve.delivery)

settle(b, aggregator, delivery_owner, agg) ==
  FoldLeft(LAMBDA bal, s : settle_statement(bal, aggregator, delivery_owner, s),
           b, agg.statements)

(* The stored size grows with the aggregation size and the queue size. *)
compute_encoded_size(size, queue_size) == (1 + queue_size) * (1 + size)

domain_deposit(size, queue_size) ==
  DomainBaseDeposit + DomainByteDeposit * compute_encoded_size(size, queue_size)

allowlist_deposit(count) == AllowlistBaseDeposit + AllowlistItemDeposit * count

(* Consideration::update on the allowlist ticket: the owner's hold follows *)
(* the new count.  Managers own no ticket.                                 *)
can_update_ticket(b, dom, count) ==
  dom.ticket_allowlist # None =>
    /\ count <= U32Max
    /\ CanHold(b, dom.owner, Excess(allowlist_deposit(count), dom.ticket_allowlist.amount))

update_ticket(dom, count) ==
  [dom EXCEPT !.ticket_allowlist =
     IF @ = None THEN None
     ELSE [count |-> count, amount |-> allowlist_deposit(count)]]

settle_ticket(b, dom, count) ==
  IF dom.ticket_allowlist = None THEN b
  ELSE LET old == dom.ticket_allowlist.amount
           new == allowlist_deposit(count)
       IN  IF new >= old THEN Hold(b, "Allowlist", dom.owner, new - old)
                         ELSE Release(b, "Allowlist", dom.owner, old - new)

ticket_count(dom) == IF dom.ticket_allowlist = None THEN 0 ELSE dom.ticket_allowlist.count
-----------------------------------------------------------------------------
Init ==
  /\ next_domain_id = 0
  /\ domains = <<>>
  /\ allowlist = {}
  /\ published = <<>>
  /\ ledger = [free   |-> Endowment,
               held   |-> [a \in Accounts |-> [r \in HoldReason |-> 0]],
               frozen |-> [a \in Accounts |-> 0]]
  /\ receipts = <<>>

set_domain(d, dom) ==
  domains' = [i \in DOMAIN domains \cup {d} |-> IF i = d THEN dom ELSE domains[i]]

(***************************************************************************)
(* register_domain: an account pays the domain deposit and, for an         *)
(* allowlisted domain, the deposit of the empty allowlist; the manager     *)
(* pays nothing but must name a delivery owner.                            *)
(***************************************************************************)
valid_domain_params(size, queue_size) ==
  /\ size \in 1 .. AggregationSize
  /\ queue_size \in 1 .. MaxPendingPublishQueueSize

register_domain(u, reg) ==
  LET delivery_owner == IF reg.delivery_owner = None THEN u ELSE reg.delivery_owner
      queue_size == IF reg.queue_size = None THEN MaxPendingPublishQueueSize
                                             ELSE reg.queue_size
      pays == u \in Accounts
      listed == pays /\ reg.proof_rules = "OnlyAllowlisted"
      deposit == domain_deposit(reg.aggregation_size, queue_size)
      charged == IF pays THEN Hold(ledger, "Domain", u, deposit) ELSE ledger
  IN  /\ delivery_owner # Manager
      /\ next_domain_id # U32Max
      /\ valid_domain_params(reg.aggregation_size, queue_size)
      /\ pays => CanHold(ledger, u, deposit)
      /\ listed => CanHold(charged, u, allowlist_deposit(0))
      /\ set_domain(next_domain_id,
           [owner |-> u,
            state |-> "Ready",
            next |-> AggregationCreate(1, reg.aggregation_size),
            max_aggregation_size |-> reg.aggregation_size,
            should_publish |-> <<>>,
            publish_queue_size |-> queue_size,
            ticket_domain |-> IF pays THEN deposit ELSE None,
            ticket_allowlist |-> IF listed THEN [count |-> 0, amount |-> allowlist_deposit(0)]
                                           ELSE None,
            aggregate_rules |-> reg.aggregate_rules,
            proof_rules |-> reg.proof_rules,
            delivery |-> [owner |-> delivery_owner, fee |-> reg.fee,
                          owner_tip |-> reg.owner_tip]])
      /\ next_domain_id' = next_domain_id + 1
      /\ ledger' = IF listed THEN Hold(charged, "Allowlist", u, allowlist_deposit(0))
                             ELSE charged
      /\ UNCHANGED <<allowlist, published, receipts>>

(***************************************************************************)
(* on_proof_verified, the callback of a successful submit_proof: a         *)
(* statement is accepted when the domain is open, has room, admits the     *)
(* submitter, and both shares could be put on hold.                        *)
(***************************************************************************)
on_proof_verified(a, d, statement, estimated) ==
  LET dom == domains[d]
      reserve == Reserve(dom, estimated)
      entry == [account |-> a, reserve |-> reserve, statement |-> statement]
  IN  /\ dom.state = "Ready"
      /\ can_add_statement(dom)
      /\ is_authorized_to_add_proof(d, dom, a)
      /\ can_reserve_currency(ledger, a, reserve)
      /\ ledger' = reserve_currency(ledger, a, reserve)
      /\ set_domain(d, handle_hold_state(d, append_statement(dom, entry), allowlist))
      /\ UNCHANGED <<next_domain_id, allowlist, published, receipts>>

(***************************************************************************)
(* aggregate: publish a queued aggregation, or the one still filling.      *)
(***************************************************************************)
aggregate(u, d, id) ==
  LET dom == domains[d]
      agg == taken_aggregation(dom, id)
  IN  /\ can_take_aggregation(dom, id)
      /\ can_user_aggregate_it(u, dom, agg)
      /\ ledger' = settle(ledger, u, dom.delivery.owner, agg)
      /\ published' = Append(published, [domain |-> d, aggregation |-> agg])
      /\ set_domain(d, handle_hold_state(d, take_aggregation(dom, id), allowlist))
      /\ receipts' = [k \in DOMAIN receipts \cup {<<d, id>>} |->
                        IF k = <<d, id>>
                        THEN StatementsOf(agg)
                        ELSE receipts[k]]
      /\ UNCHANGED <<next_domain_id, allowlist>>

hold_domain(u, d) ==
  LET dom == domains[d]
  IN  /\ can_handle_domain(u, dom)
      /\ dom.state = "Ready"
      /\ set_domain(d, update_hold_state(d, dom, allowlist))
      /\ UNCHANGED <<next_domain_id, allowlist, published, ledger, receipts>>

(* Faulty variant: the allowlist ticket is forgotten. *)
drop_domain_ticket(b, dom) ==
  IF dom.ticket_domain = None THEN b
  ELSE Release(b, "Domain", dom.owner, dom.ticket_domain)

(* Both tickets are dropped: their holds go back to the owner. *)
drop_tickets(b, dom) ==
  LET no_domain == IF dom.ticket_domain = None THEN b
                   ELSE Release(b, "Domain", dom.owner, dom.ticket_domain)
  IN  IF dom.ticket_allowlist = None THEN no_domain
      ELSE Release(no_domain, "Allowlist", dom.owner, dom.ticket_allowlist.amount)

(* Faulty variant: a domain on hold can be removed before it is drained. *)
unregister_held(u, d) ==
  LET dom == domains[d]
  IN  /\ can_handle_domain(u, dom)
      /\ dom.state # "Ready"
      /\ ledger' = drop_tickets(ledger, dom)
      /\ domains' = [i \in DOMAIN domains \ {d} |-> domains[i]]
      /\ UNCHANGED <<next_domain_id, allowlist, published, receipts>>

unregister_domain(u, d) ==
  LET dom == domains[d]
  IN  /\ can_handle_domain(u, dom)
      /\ dom.state = "Removable"
      /\ ledger' = drop_tickets(ledger, dom)
      /\ domains' = [i \in DOMAIN domains \ {d} |-> domains[i]]
      /\ UNCHANGED <<next_domain_id, allowlist, published, receipts>>

set_total_delivery_fee(u, d, delivery) ==
  /\ can_set_total_delivery_fee(u, domains[d])
  /\ set_domain(d, [domains[d] EXCEPT !.delivery.fee = delivery.fee,
                                      !.delivery.owner_tip = delivery.owner_tip])
  /\ UNCHANGED <<next_domain_id, allowlist, published, ledger, receipts>>

allowlist_proof_submitters(u, d, submitters) ==
  LET dom == domains[d]
      added == {a \in submitters : <<d, a>> \notin allowlist}
      count == ticket_count(dom) + Cardinality(added)
  IN  /\ can_handle_domain(u, dom)
      /\ dom.state = "Ready"
      /\ dom.proof_rules = "OnlyAllowlisted"
      /\ can_update_ticket(ledger, dom, count)
      /\ allowlist' = allowlist \cup {<<d, a>> : a \in added}
      /\ ledger' = settle_ticket(ledger, dom, count)
      /\ set_domain(d, update_ticket(dom, count))
      /\ UNCHANGED <<next_domain_id, published, receipts>>

(* Faulty variant: the state of a held domain is not refreshed. *)
remove_without_refresh(u, d, submitters) ==
  LET dom == domains[d]
      removed == {a \in submitters : <<d, a>> \in allowlist}
      count == ticket_count(dom) - Cardinality(removed)
  IN  /\ can_handle_domain(u, dom)
      /\ dom.proof_rules = "OnlyAllowlisted"
      /\ dom.ticket_allowlist # None => count >= 0
      /\ allowlist' = allowlist \ {<<d, a>> : a \in removed}
      /\ ledger' = settle_ticket(ledger, dom, count)
      /\ set_domain(d, update_ticket(dom, count))
      /\ UNCHANGED <<next_domain_id, published, receipts>>

(* Allowed in every state: it may be what makes a held domain removable. *)
remove_proof_submitters(u, d, submitters) ==
  LET dom == domains[d]
      removed == {a \in submitters : <<d, a>> \in allowlist}
      count == ticket_count(dom) - Cardinality(removed)
      allowed == allowlist \ {<<d, a>> : a \in removed}
  IN  /\ can_handle_domain(u, dom)
      /\ dom.proof_rules = "OnlyAllowlisted"
      /\ dom.ticket_allowlist # None => count >= 0
      /\ allowlist' = allowed
      /\ ledger' = settle_ticket(ledger, dom, count)
      /\ set_domain(d, handle_hold_state(d, update_ticket(dom, count), allowed))
      /\ UNCHANGED <<next_domain_id, published, receipts>>

(* The hook that starts a block. *)
on_initialize ==
  /\ published' = <<>>
  /\ UNCHANGED <<next_domain_id, domains, allowlist, ledger, receipts>>

(* Another pallet changes the lock on an account (vesting, voting). *)
set_freeze(a, amount) ==
  /\ ledger' = [ledger EXCEPT !.frozen[a] = amount]
  /\ UNCHANGED <<next_domain_id, domains, allowlist, published, receipts>>

PendingIds(dom) == DOMAIN dom.should_publish \cup {dom.next.id}

Next ==
  \/ \E u \in Users, reg \in Registrations : register_domain(u, reg)
  \/ \E d \in DOMAIN domains :
       \/ \E a \in Accounts, s \in Statements, e \in CallFees : on_proof_verified(a, d, s, e)
       \/ \E u \in Users : \E id \in PendingIds(domains[d]) : aggregate(u, d, id)
       \/ \E u \in Users : hold_domain(u, d)
       \/ \E u \in Users : unregister_domain(u, d)
       \/ \E u \in Users, del \in Deliveries : set_total_delivery_fee(u, d, del)
       \/ \E u \in Users, s \in SUBSET Accounts : allowlist_proof_submitters(u, d, s)
       \/ \E u \in Users, s \in SUBSET Accounts : remove_proof_submitters(u, d, s)
  \/ on_initialize
  \/ \E a \in Accounts, n \in FreezeAmounts : set_freeze(a, n)

Spec == Init /\ [][Next]_vars
-----------------------------------------------------------------------------
(***************************************************************************)
(* Properties.                                                             *)
(***************************************************************************)
StatementEntry ==
  [account : Accounts, statement : Statements,
   reserve : [aggregate : Nat, delivery : Nat]]

AggregationEntry == [id : 0 .. U64Max, size : Nat, statements : Seq(StatementEntry)]

(* A domain entry whose publish queue holds the aggregations in ids. *)
DomainEntry(ids) ==
  [owner : Users, state : DomainState, next : AggregationEntry,
   max_aggregation_size : Nat,
   should_publish : [ids -> AggregationEntry],
   publish_queue_size : Nat,
   ticket_domain : Nat \cup {None},
   ticket_allowlist : [count : Nat, amount : Nat] \cup {None},
   aggregate_rules : AggregateSecurityRules, proof_rules : ProofSecurityRules,
   delivery : [owner : Accounts, fee : Nat, owner_tip : Nat]]

(* The storage items of the pallet have their declared types. *)
TypeOK ==
  /\ next_domain_id \in DomainId
  /\ domains = [d \in DOMAIN domains |-> domains[d]]
  /\ DOMAIN domains \subseteq DomainId
  /\ \A d \in DOMAIN domains :
       \E ids \in SUBSET (0 .. U64Max) : domains[d] \in DomainEntry(ids)
  /\ allowlist \subseteq DomainId \X Accounts
  /\ published \in Seq([domain : DomainId, aggregation : AggregationEntry])

(***************************************************************************)
(* The bounded collections never overflow, so neither the try_push of      *)
(* append_statement nor the try_insert of available_aggregation can hit    *)
(* its expect: the filling aggregation always has room, and the publish    *)
(* queue never exceeds the size the domain was registered with, although   *)
(* a full queue still lets all but one statement of the next one in.       *)
(***************************************************************************)
QueueBounded ==
  \A d \in DOMAIN domains :
    /\ Len(domains[d].next.statements) < domains[d].next.size
    /\ domains[d].next.size <= AggregationSize
    /\ Cardinality(DOMAIN domains[d].should_publish) <= domains[d].publish_queue_size
    /\ domains[d].publish_queue_size <= MaxPendingPublishQueueSize

(***************************************************************************)
(* Ids identify aggregations: a queued one is stored under its own id, is  *)
(* complete, and is older than the one being filled; the placeholder with  *)
(* id 0, left when the ids are exhausted, is empty and only found in a     *)
(* domain that accepts nothing more.                                       *)
(***************************************************************************)
IdsOrdered ==
  \A d \in DOMAIN domains :
    LET dom == domains[d] IN
    /\ \A i \in DOMAIN dom.should_publish :
         /\ dom.should_publish[i].id = i
         /\ completed(dom.should_publish[i])
         /\ i >= 1
         /\ dom.next.id # 0 => i < dom.next.id
    /\ dom.next.id = 0 => dom.state # "Ready" /\ dom.next.statements = <<>>

(***************************************************************************)
(* Outside Ready the stored state is exact: Removable iff nothing waits    *)
(* and the allowlist is empty, so unregister_domain can neither lose a     *)
(* statement nor be refused when the domain is drained.                    *)
(***************************************************************************)
Drained(d) ==
  /\ DOMAIN domains[d].should_publish = {}
  /\ domains[d].next.statements = <<>>
  /\ ~ \E a \in Accounts : <<d, a>> \in allowlist

HoldStateExact ==
  \A d \in DOMAIN domains :
    domains[d].state # "Ready" => (domains[d].state = "Removable" <=> Drained(d))

(***************************************************************************)
(* The allowlist belongs to registered domains with the OnlyAllowlisted    *)
(* rule, and the count in the owner's ticket is the number of its entries: *)
(* decrease_footprint_count never underflows, and nothing of the list      *)
(* survives the domain.                                                    *)
(***************************************************************************)
AllowlistAccounted ==
  /\ \A e \in allowlist :
       e[1] \in DOMAIN domains /\ domains[e[1]].proof_rules = "OnlyAllowlisted"
  /\ \A d \in DOMAIN domains :
       domains[d].ticket_allowlist # None =>
         domains[d].ticket_allowlist.count = Cardinality({a \in Accounts : <<d, a>> \in allowlist})

(***************************************************************************)
(* The deposits on hold are those of the registered domains: an owner pays *)
(* for what it stores and has everything back after unregister_domain.     *)
(***************************************************************************)
DomainTicket(dom, a) == IF dom.owner = a THEN dom.ticket_domain ELSE 0

AllowlistTicket(dom, a) ==
  IF dom.owner = a /\ dom.proof_rules = "OnlyAllowlisted"
  THEN dom.ticket_allowlist.amount ELSE 0

DepositsExact ==
  \A a \in Accounts :
    /\ ledger.held[a]["Domain"] =
         SumFunction([d \in DOMAIN domains |-> DomainTicket(domains[d], a)])
    /\ ledger.held[a]["Allowlist"] =
         SumFunction([d \in DOMAIN domains |-> AllowlistTicket(domains[d], a)])

(***************************************************************************)
(* What is stored and what is paid for it agree, for the allowlists and    *)
(* for the domains, when domains of several owners come and go.            *)
(***************************************************************************)
StorageAccounted == AllowlistAccounted /\ DepositsExact

(***************************************************************************)
(* What the waiting statements of an account have reserved for a reason.   *)
(***************************************************************************)
SumReserves(agg, a, field) ==
  SumFunction([i \in DOMAIN agg.statements |->
                 IF agg.statements[i].account = a THEN agg.statements[i].reserve[field]
                                                  ELSE 0])

DomainReserve(dom, a, field) ==
  SumReserves(dom.next, a, field)
    + SumFunction([i \in DOMAIN dom.should_publish |->
                     SumReserves(dom.should_publish[i], a, field)])

PendingReserve(a, field) ==
  SumFunction([d \in DOMAIN domains |-> DomainReserve(domains[d], a, field)])

(* Every waiting statement is backed by funds still on hold, whatever      *)
(* locks the account has and however other aggregations were settled.      *)
ReservesCovered ==
  \A a \in Accounts :
    /\ ledger.held[a]["Aggregation"] >= PendingReserve(a, "aggregate")
    /\ ledger.held[a]["Delivery"] >= PendingReserve(a, "delivery")

(* Publishing settles exactly what each submission reserved, also when the *)
(* fee changed in between or the receiver could not be paid: only for an   *)
(* account whose locks exceed its free balance may anything stay on hold   *)
(* that no waiting statement accounts for.                                 *)
Surplus(a) ==
  <<ledger.held[a]["Aggregation"] - PendingReserve(a, "aggregate"),
    ledger.held[a]["Delivery"] - PendingReserve(a, "delivery")>>

SettledInFull ==
  [][\A a \in Accounts : Surplus(a)' = Surplus(a) \/ ledger.frozen[a] > ledger.free[a]]_vars

(***************************************************************************)
(* get_statement_path: the first published aggregation with the requested  *)
(* ids, and the position of the first equal statement in it; the leaf      *)
(* index stands for the Merkle path.                                       *)
(***************************************************************************)
(* Faulty variant: the domain is not compared. *)
first_with_id(d, id) == SelectInSeq(published, LAMBDA p : p.aggregation.id = id)

first_published(d, id) ==
  SelectInSeq(published, LAMBDA p : p.domain = d /\ p.aggregation.id = id)

get_statement_path(d, id, statement) ==
  LET p == first_published(d, id)
  IN  IF p = 0 THEN 0
      ELSE SelectInSeq(published[p].aggregation.statements,
                       LAMBDA e : e.statement = statement)

(* Until the next block starts, the path of every statement under a new    *)
(* receipt can be requested and leads to a leaf of that receipt equal to   *)
(* the statement, with several domains publishing in the same block.       *)
PathsServed ==
  \A i \in DOMAIN published :
    LET d == published[i].domain
        id == published[i].aggregation.id
    IN  /\ <<d, id>> \in DOMAIN receipts
        /\ \A j \in DOMAIN receipts[<<d, id>>] :
             LET s == receipts[<<d, id>>][j]
                 leaf == get_statement_path(d, id, s)
             IN  leaf \in DOMAIN receipts[<<d, id>>] /\ receipts[<<d, id>>][leaf] = s

(***************************************************************************)
(* A domain only moves forward: its id is handed out once, Ready is never  *)
(* entered again, Removable is left only by removal, and who owns it, its  *)
(* sizes and its rules never change.                                       *)
(***************************************************************************)
DomainAdvances ==
  /\ \A d \in DOMAIN domains' \ DOMAIN domains : d = next_domain_id /\ d < next_domain_id'
  /\ \A d \in DOMAIN domains \ DOMAIN domains' : domains[d].state = "Removable"
  /\ \A d \in DOMAIN domains \cap DOMAIN domains' :
       /\ domains[d].state # "Ready" => domains'[d].state # "Ready"
       /\ domains[d].state = "Removable" => domains'[d].state = "Removable"
       /\ domains'[d].owner = domains[d].owner
       /\ domains'[d].publish_queue_size = domains[d].publish_queue_size
       /\ domains'[d].next.size = domains[d].max_aggregation_size
       /\ domains'[d].proof_rules = domains[d].proof_rules
       /\ domains'[d].aggregate_rules = domains[d].aggregate_rules

DomainOnlyAdvances == [][DomainAdvances]_domains

(***************************************************************************)
(* is_authorized_to_add_proof: "The domain does not have an owner; qed".   *)
(* The expect says that a domain that checks the owner of a proof has an   *)
(* account as its owner; it is evaluated for every proof that reaches a    *)
(* Ready domain with room.                                                 *)
(***************************************************************************)
OwnerExpect ==
  \A d \in DOMAIN domains :
    /\ domains[d].state = "Ready"
    /\ can_add_statement(domains[d])
    /\ domains[d].proof_rules = "OnlyOwner"
    => domains[d].owner \in Accounts

-----------------------------------------------------------------------------
(***************************************************************************)
(* The pallet implements AggregationService: a domain is open while Ready, *)
(* and the waiting batches are the non-empty aggregation being filled and  *)
(* those in the publish queue.                                             *)
(***************************************************************************)
WaitingKeys ==
  {k \in DomainId \X (0 .. U64Max) :
     /\ k[1] \in DOMAIN domains
     /\ \/ k[2] \in DOMAIN domains[k[1]].should_publish
        \/ k[2] = domains[k[1]].next.id /\ domains[k[1]].next.statements # <<>>}

Waiting ==
  [k \in WaitingKeys |->
     IF k[2] \in DOMAIN domains[k[1]].should_publish
     THEN StatementsOf(domains[k[1]].should_publish[k[2]])
     ELSE StatementsOf(domains[k[1]].next)]

Service == INSTANCE AggregationService WITH
  DomainIds <- DomainId,
  BatchIds <- 0 .. U64Max,
  MaxBatch <- AggregationSize,
  known <- 0 .. (next_domain_id - 1),
  open <- {d \in DOMAIN domains : domains[d].state = "Ready"},
  waiting <- Waiting

(* Accepted statements are neither lost, duplicated nor reordered on their *)
(* way to a receipt, in every interleaving of the pallet's calls.          *)
ImplementsService == Service!Spec
-----------------------------------------------------------------------------
(***************************************************************************)
(* Fairness: the owner of a domain it has put on hold wants its deposit    *)
(* back, so it keeps publishing what waits and emptying the allowlist.     *)
(* The pallet does nothing of this by itself.  FairSpec is weak fairness   *)
(* of both actions, with their enabling conditions written out: CanPublish *)
(* and CanEmptyAllowlist are the guards of the two calls.                  *)
(***************************************************************************)
OwnerPublishes(d) ==
  /\ d \in DOMAIN domains
  /\ domains[d].state = "Hold"
  /\ \E id \in PendingIds(domains[d]) : aggregate(domains[d].owner, d, id)

OwnerEmptiesAllowlist(d) ==
  /\ d \in DOMAIN domains
  /\ domains[d].state = "Hold"
  /\ remove_proof_submitters(domains[d].owner, d, Accounts)

CanPublish(d) ==
  /\ d \in DOMAIN domains
  /\ domains[d].state = "Hold"
  /\ \E id \in PendingIds(domains[d]) :
       /\ can_take_aggregation(domains[d], id)
       /\ can_user_aggregate_it(domains[d].owner, domains[d],
                                taken_aggregation(domains[d], id))

CanEmptyAllowlist(d) ==
  /\ d \in DOMAIN domains
  /\ domains[d].state = "Hold"
  /\ \E a \in Accounts : <<d, a>> \in allowlist

FairSpec ==
  /\ Spec
  /\ \A d \in DomainId :
       /\ []<>~CanPublish(d) \/ []<><<OwnerPublishes(d)>>_vars
       /\ []<>~CanEmptyAllowlist(d) \/ []<><<OwnerEmptiesAllowlist(d)>>_vars

(* A domain on hold always becomes removable, also one that was put on     *)
(* hold because its aggregation ids ran out.                               *)
HeldDomainDrains ==
  \A d \in DomainId :
    (d \in DOMAIN domains /\ domains[d].state = "Hold")
      ~> (d \in DOMAIN domains => domains[d].state = "Removable")
=============================================================================
