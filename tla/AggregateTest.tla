---------------------------- MODULE AggregateTest ---------------------------
(***************************************************************************)
(* The end-to-end test of aggregation,                                     *)
(* src/zombienet-tests/js_scripts/0012-aggregate_proofs.js, run against    *)
(* the aggregate pallet.  Every call goes through submitExtrinsic of       *)
(* zkv-lib (module TxLifecycle), which answers with events, with -1, or    *)
(* with undefined when the retries are used up; the test reads that answer *)
(* as JavaScript does, and an exception ends it.                            *)
(***************************************************************************)
EXTENDS Aggregate, MerklePath

ReturnCode ==
  {"Ok", "ErrDomainRegistrationFailed", "ErrProofVerificationFailed", "ErrAggregationNotReady",
   "ErrNoAggregation", "ErrAggregationProofFailedVerification", "ErrDomainUnregistrationFailed",
   "ErrDomainHoldFailed", "ErrProofOnUnregisteredDomain", "ErrWrongDomainId",
   "ErrPublishShouldNotPay", "ErrProofFromInvalidSubmitter", "ErrProofFromValidSubmitter",
   "ErrAllowlist", "ErrRegisterCA", "ErrUpdateCrl"}

CONSTANTS
  Alice, Bob,
  Sizes,       \* possible numbers of verifiers
  CallFee,     \* EstimateCallFee during the test
  MaxFaults    \* bound: calls or answers lost

ASSUME TestAssumption ==
  /\ {Alice, Bob} \subseteq Accounts /\ Alice # Bob
  /\ Sizes \subseteq Nat \ {0} /\ MaxFaults \in Nat
  /\ CallFee \in CallFees /\ \A n \in Sizes : 1 .. n \subseteq Statements
  /\ U64Max >= 2 /\ None \notin ReturnCode \cup {"exception"}

VARIABLES
  verifiers,  \* their statements, in the order they are submitted
  at,         \* the next step of run
  ids,        \* the ids of the domains registered so far, from their events
  complete,   \* AggregationComplete: ids of the aggregations reported
  aggId,      \* the aggregation id of the latest NewProof
  err1,
  verdict,    \* None while running, "exception", or what run returns
  faults

tvars == <<verifiers, at, ids, complete, aggId, err1, verdict, faults>>

all_vars == <<vars, tvars>>
-----------------------------------------------------------------------------
(***************************************************************************)
(* The calls of run: who calls what on which domain, what is expected of   *)
(* the answer, and what run returns otherwise.                             *)
(***************************************************************************)
Call(op, who, domain, expect, code) ==
  [op |-> op, who |-> who, domain |-> domain, expect |-> expect, code |-> code]

Register(size, queue, proof_rules) ==
  [aggregation_size |-> size, queue_size |-> queue, aggregate_rules |-> "Untrusted",
   proof_rules |-> proof_rules, fee |-> 0, owner_tip |-> 0, delivery_owner |-> None]

ASSUME RegistrationAssumption ==
  /\ \A n \in Sizes : Register(n, None, "Untrusted") \in Registrations
  /\ \A rules \in ProofSecurityRules : Register(4, 8, rules) \in Registrations

registerDomain(reg) ==
  [op |-> "register", who |-> Bob, reg |-> reg, expect |-> "events",
   code |-> "ErrDomainRegistrationFailed"]

submitProof(i, who, domain, expect, code) ==
  [op |-> "submit", who |-> who, domain |-> domain, statement |-> verifiers[i],
   expect |-> expect, code |-> code]

(* The certificate authority and its list, which the Tee proof needs. *)
RevocationList ==
  <<Call("external", Alice, 0, "events", "ErrRegisterCA"),
    Call("external", Bob, 0, "events", "ErrUpdateCrl")>>

Submissions ==
  <<registerDomain(Register(Len(verifiers), None, "Untrusted"))>>
    \o [i \in DOMAIN verifiers |-> submitProof(i, Alice, 1, "verified", "")]

Publication ==
  <<Call("aggregate", Bob, 1, "profit", "ErrNoAggregation"),
    Call("paths", Bob, 1, "paths", "ErrAggregationProofFailedVerification")>>

Removal ==
  <<Call("unregister", Alice, 1, "refused", "ErrDomainUnregistrationFailed"),
    Call("hold", Alice, 1, "refused", "ErrDomainHoldFailed"),
    Call("unregister", Bob, 1, "refused", "ErrDomainUnregistrationFailed"),
    Call("hold", Bob, 1, "Removable", "ErrDomainHoldFailed"),
    Call("unregister", Bob, 1, "Removed", "ErrDomainUnregistrationFailed"),
    submitProof(1, Alice, 1, "no_proof", "ErrProofOnUnregisteredDomain")>>

HoldMachine ==
  <<registerDomain(Register(4, 8, "Untrusted")),
    submitProof(1, Alice, 2, "queued", "ErrProofVerificationFailed"),
    Call("hold", Bob, 2, "Hold", "ErrDomainHoldFailed"),
    Call("aggregate", Bob, 2, "Removable", "ErrNoAggregation")>>

OwnerOnly ==
  <<registerDomain(Register(4, 8, "OnlyOwner")),
    submitProof(1, Alice, 3, "no_proof", "ErrProofFromInvalidSubmitter"),
    submitProof(1, Bob, 3, "proof", "ErrProofFromValidSubmitter")>>

AllowlistOnly ==
  <<registerDomain(Register(4, 8, "OnlyAllowlisted")),
    submitProof(1, Alice, 4, "first_no_proof", "ErrProofFromInvalidSubmitter"),
    submitProof(1, Bob, 4, "then_no_proof", "ErrProofFromInvalidSubmitter"),
    Call("allow", Bob, 4, "events", "ErrAllowlist"),
    submitProof(1, Bob, 4, "first_no_proof", "ErrProofFromInvalidSubmitter"),
    submitProof(1, Alice, 4, "then_proof", "ErrProofFromInvalidSubmitter"),
    Call("remove", Bob, 4, "events", "ErrAllowlist")>>

run == RevocationList \o Submissions \o Publication \o Removal \o HoldMachine
         \o OwnerOnly \o AllowlistOnly

step == run[at]
-----------------------------------------------------------------------------
(***************************************************************************)
(* What a call does on the chain, and the answer of zkv-lib.               *)
(***************************************************************************)
domain(c) == ids[c.domain]

aggregation(c) == IF c.expect = "profit" THEN complete[1] ELSE aggId

effect(c) ==
  \/ c.op = "external" /\ UNCHANGED vars
  \/ c.op = "register" /\ register_domain(c.who, c.reg)
  \/ /\ c.op \notin {"external", "register"} /\ domain(c) \in DOMAIN domains
     /\ \/ c.op = "submit" /\ on_proof_verified(c.who, domain(c), c.statement, CallFee)
        \/ c.op = "aggregate" /\ aggregate(c.who, domain(c), aggregation(c))
        \/ c.op = "hold" /\ hold_domain(c.who, domain(c))
        \/ c.op = "unregister" /\ unregister_domain(c.who, domain(c))
        \/ c.op = "allow" /\ allowlist_proof_submitters(c.who, domain(c), {Alice})
        \/ c.op = "remove" /\ remove_proof_submitters(c.who, domain(c), {Alice})

(* Whether the pallet accepts it; aggregate has only these conditions. *)
accepted(c) ==
  IF c.op = "aggregate"
  THEN /\ domain(c) \in DOMAIN domains
       /\ can_take_aggregation(domains[domain(c)], aggregation(c))
       /\ can_user_aggregate_it(c.who, domains[domain(c)],
                                taken_aggregation(domains[domain(c)], aggregation(c)))
  ELSE ENABLED effect(c)

(* DomainStateChanged: the state after the call. *)
DomainStateChanged(c) ==
  IF domain(c) \in DOMAIN domains' THEN domains'[domain(c)].state ELSE "Removed"

(* External: u128 and u32 of polkadot-js are objects without a number      *)
(* value, so that <= compares their decimal strings.                       *)
toString[n \in Nat] == IF n < 10 THEN <<n>> ELSE Append(toString[n \div 10], n % 10)

less_or_equal(m, n) ==
  LET s == toString[m]
      t == toString[n]
  IN  \/ IsPrefix(s, t)
      \/ \E i \in DOMAIN s \cap DOMAIN t :
           s[i] < t[i] /\ \A j \in 1 .. i - 1 : s[j] = t[j]

SameDigits(m, n) == Len(toString[m]) = Len(toString[n])
-----------------------------------------------------------------------------
goes_on ==
  /\ at' = at + 1
  /\ verdict' = IF at = Len(run) THEN "Ok" ELSE None

returns(code) == at' = at /\ verdict' = code

throws == at' = at /\ verdict' = "exception"

check(wrong, code) == IF wrong THEN returns(code) ELSE goes_on

(* The ids that the events carry. *)
note(c, hit) ==
  /\ ids' = IF c.op = "register" THEN Append(ids, next_domain_id) ELSE ids
  /\ complete' =
       IF c.expect = "verified" /\ hit
       THEN complete \o SetToSeq(DOMAIN domains'[domain(c)].should_publish
                                   \ DOMAIN domains[domain(c)].should_publish)
       ELSE complete
  /\ aggId' = IF c.op = "submit" /\ hit THEN domains[domain(c)].next.id ELSE aggId

(* submitShouldFail, submitShouldSuccess, in pairs: the first verdict is   *)
(* returned when either of them is bad.                                    *)
pair(c, bad) ==
  IF c.expect = "first_no_proof"
  THEN err1' = (IF bad THEN c.code ELSE "Ok") /\ goes_on
  ELSE err1' = err1 /\ check(err1 # "Ok" \/ bad, err1)

(* The answer has events: a proof is verified whether queued or not; hit   *)
(* says that the pallet did what was asked.                                *)
with_events(c, hit) ==
  /\ note(c, hit)
  /\ IF c.expect \in {"first_no_proof", "then_no_proof", "then_proof"}
     THEN pair(c, IF c.expect = "then_proof" THEN ~ hit ELSE hit)
     ELSE /\ UNCHANGED err1
          /\ CASE c.expect = "verified" ->
                    check(run[at + 1].op # "submit" /\ complete' = <<>>, "ErrAggregationNotReady")
               [] c.expect = "events" ->
                    check(c.op = "register" /\ Len(ids) = 1 /\ less_or_equal(ids'[2], ids[1]),
                          "ErrWrongDomainId")
               [] c.expect = "profit" ->
                    check(less_or_equal(ledger'.free[Bob], ledger.free[Bob]), "ErrPublishShouldNotPay")
               [] c.expect = "refused" -> returns(c.code)
               [] c.expect = "no_proof" -> check(hit, c.code)
               [] c.expect = "proof" -> check(~ hit, c.code)
               [] c.expect = "queued" -> IF hit THEN goes_on ELSE throws
               [] OTHER -> IF DomainStateChanged(c) = c.expect THEN goes_on
                           ELSE IF c.op = "aggregate" THEN throws   \* states is not defined
                           ELSE returns("ErrDomainHoldFailed")

(* Faulty variants: the answer about the allowlist is not looked at; a     *)
(* submission that fails counts as one that is refused.                    *)
unchecked_allowlist(c) ==
  /\ CASE c.expect = "refused" \/ c.op \in {"allow", "remove"} -> goes_on
       [] c.op = "submit" /\ c.expect # "queued" -> throws
       [] OTHER -> returns(c.code)
  /\ UNCHANGED <<ids, complete, aggId, err1>>

failure_is_refusal(c) ==
  /\ CASE c.expect \in {"refused", "no_proof"} -> goes_on
       [] c.op = "submit" /\ c.expect # "queued" -> throws
       [] OTHER -> returns(c.code)
  /\ UNCHANGED <<ids, complete, aggId, err1>>

(* -1: receivedEvents is false, and there are no events to filter. *)
without_events(c) ==
  /\ CASE c.expect = "refused" -> goes_on
       [] c.op = "submit" /\ c.expect # "queued" -> throws
       [] OTHER -> returns(c.code)
  /\ UNCHANGED <<ids, complete, aggId, err1>>

submitExtrinsic ==
  /\ verdict = None /\ step.op # "paths"
  /\ IF accepted(step)
     THEN effect(step) /\ with_events(step, TRUE)
     ELSE /\ UNCHANGED vars
          /\ IF step.op = "submit" THEN with_events(step, FALSE) ELSE without_events(step)
  /\ UNCHANGED <<verifiers, faults>>

(* The call or its answer is lost, or the retries are used up. *)
lost(kind) ==
  /\ verdict = None /\ step.op # "paths"
  /\ Len(faults) < MaxFaults
  /\ faults' = Append(faults, [kind |-> kind, expect |-> step.expect])
  /\ \/ kind = "call" /\ UNCHANGED vars /\ without_events(step)
     \/ kind = "answer" /\ effect(step) /\ without_events(step)
     \/ kind = "undefined" /\ UNCHANGED vars /\ throws /\ UNCHANGED <<ids, complete, aggId, err1>>
  /\ UNCHANGED verifiers

(* The path of every statement against the root in the receipt.  The RPC   *)
(* finds the first leaf with the statement.                                *)
position(leaves, statement) ==
  CHOOSE i \in DOMAIN leaves :
    leaves[i] = statement /\ \A j \in 1 .. i - 1 : leaves[j] # statement

checkPaths ==
  LET leaves == receipts[<<ids[1], complete[1]>>]
      checked(s) == verifyProof(merkle_proof(leaves, position(leaves, s)), merkle_root(leaves))
  IN  /\ verdict = None /\ step.op = "paths"
      /\ check(\E i \in DOMAIN verifiers : ~ checked(verifiers[i]), step.code)
      /\ UNCHANGED <<vars, verifiers, ids, complete, aggId, err1, faults>>

TestInit ==
  /\ Init
  /\ verifiers \in {[i \in 1 .. n |-> IF i = d + 1 THEN d ELSE i] : n \in Sizes, d \in {2, 4}}
  /\ at = 1
  /\ ids = <<>> /\ complete = <<>> /\ aggId = None
  /\ err1 = "Ok"
  /\ verdict = None
  /\ faults = <<>>

TestNext ==
  \/ submitExtrinsic
  \/ \E kind \in {"call", "answer", "undefined"} : lost(kind)
  \/ checkPaths

TestSpec == TestInit /\ [][TestNext]_all_vars
-----------------------------------------------------------------------------
(***************************************************************************)
(* Properties.                                                             *)
(***************************************************************************)
(* What Bob has earned by publishing the aggregation of all proofs. *)
Earned ==
  Len(verifiers) * ((CallFee + compute_tip(CallFee)) \div Len(verifiers))

(***************************************************************************)
(* The test agrees with the pallet: when nothing is lost it passes, for    *)
(* every number of verifiers, so the paths of the statements lead to the   *)
(* published root also in unbalanced trees and for equal statements.  The  *)
(* exception is a balance of Bob that gains a digit.                       *)
(***************************************************************************)
FaultlessPasses ==
  faults = <<>> =>
    \/ verdict \in {None, "Ok"}
    \/ /\ verdict = "ErrPublishShouldNotPay"
       /\ ~ SameDigits(ledger.free[Bob], ledger.free[Bob] - Earned)

(***************************************************************************)
(* The test passes only if everything it asked for has happened on the     *)
(* chain, whatever was lost: all statements are in the receipt, the first  *)
(* domain is gone, the second drained, and the others hold the statement   *)
(* of the one who was entitled to submit it, and nobody else's.            *)
(***************************************************************************)
OnlyStatementOf(d, who) ==
  d \in DOMAIN domains /\ domains[d].should_publish = <<>> /\
  [i \in DOMAIN domains[d].next.statements |-> domains[d].next.statements[i].account] = <<who>>

OkMeansDone ==
  verdict = "Ok" =>
    /\ receipts[<<ids[1], complete[1]>>] = verifiers
    /\ ids[1] \notin DOMAIN domains
    /\ domains[ids[2]].state = "Removable"
    /\ OnlyStatementOf(ids[3], Bob)
    /\ OnlyStatementOf(ids[4], Alice)
    /\ allowlist = {}

(***************************************************************************)
(* A lost call or answer makes the test fail, except where it expects the  *)
(* pallet to refuse a call: there a call that never arrived passes.        *)
(***************************************************************************)
LossesNoticed ==
  verdict = "Ok" =>
    \A i \in DOMAIN faults : faults[i] = [kind |-> "call", expect |-> "refused"]
=============================================================================
