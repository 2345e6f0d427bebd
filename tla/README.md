# zkVerify: a TLA+ verification project

This directory holds TLA+ models of the pallets that carry zkVerify's own logic
and of the JavaScript that operates and tests the chain, TLC configurations that
check them on small instances, and proofs that TLAPS checks for every instance.
`PROJECT.json` maps every definition to the lines it
models and lists runs, theorems, findings and hazards.

## 1. The system and its parts

zkVerify is a Substrate chain that verifies zero-knowledge proofs. Its own logic
lives in four pallets and a set of verifier plug-ins; the rest of the repository
composes Substrate pallets into a runtime and a node. Scripts in JavaScript run
claim campaigns, carry keys and balances from one chain to another, and test a
network end to end.

| Component | State | Operations | Talks to |
|---|---|---|---|
| `pallets/aggregate` | `Domains`, `NextDomainId`, `SubmittersAllowlist`, `Published`, holds on accounts | `register_domain`, `aggregate`, `hold_domain`, `unregister_domain`, `set_total_delivery_fee`, `allowlist_proof_submitters`, `remove_proof_submitters`, callback `on_proof_verified`, hook `on_initialize`, query `get_statement_path` | balances, the verifiers (callback), `DispatchAggregation` |
| `pallets/verifiers` (one instance per verifier) | `Vks` (key, reference count), `Tickets`, `Disabled` | `submit_proof`, `register_vk`, `unregister_vk`, `disable` | balances, `OnProofVerified` |
| `pallets/token-claim` | `Beneficiaries`, `TotalClaimable`, `ClaimActive`, `ClaimId`, the pot | `begin_claim`, `claim`, `claim_for`, `claim_ethereum`, `claim_ethereum_for`, `add_beneficiaries`, `end_claim`, `remove_beneficiaries`, `validate_unsigned`, hook `on_initialize` | balances |
| `pallets/crl` | `CertificateAuthorities`, `Revoked` | `register_ca`, `unregister_ca`, `update_crl`, query `get_crl` | the tee verifier |
| `verifiers/*` | none of their own; storage migrations of `ultrahonk` and `tee` | `verify_proof`, `validate_vk`, `vk_hash` | `pallets/verifiers`, `native` |
| `scripts/claim` | chunk being sent, retries, calls to be approved, files per signatory | `claim_init.js` (`main`, `check_preconditions`, `send_as_sudo`, `send_as_multi_sudo`, writing of approvals), `claim_final_approve.js` | token claim, sudo, multisig |
| `scripts/snapshot-restore-*` | snapshot files, list of calls, a nonce counted by the script | `takeSnapshot`, `restore`, `restoreBalances` | verifiers, balances, a GraphQL service |
| `zombienet-tests/zkv-lib` | status of one extrinsic, retries | `submitExtrinsic` (`_handleTransactionLifecycle`), `receivedEvents`, one wrapper per call | any node |
| `zombienet-tests/js_scripts` | what the events said so far | `run` of each test | through `zkv-lib` |
| `runtime`, `rpc`, `relay-node`, `native`, `utils`, `paratest` | configuration, process wiring, tooling | | |

**How they interact.** `submit_proof` looks up or validates a key, lets the
verifier plug-in check the proof, hashes the statement and hands it to
`on_proof_verified`, which queues it in a domain of the aggregate pallet and puts
the submitter's share of the publication cost and of the delivery fee on hold.
`aggregate` publishes a batch: it settles those holds, stores the batch in
`Published` for the rest of the block and emits a receipt that other chains rely
on. The tee verifier asks `pallets/crl` for the revoked certificates of an
authority each time it verifies. All pallets share the accounts of
`pallet_balances`; token-claim pays out of an account of its own.

The scripts act from outside: they send extrinsics through a node, read statuses
and events, and decide by them what to send next. Several of them, run by
different people, work against the same chain.

**What is hard.** The chain executes one call at a time and rolls a failed call
back, so there are no data races. The difficulty lies in

* *long sequences of legal calls by different users*: a domain is filled,
  published, put on hold, drained and removed by submitters, publishers, its owner
  and the manager in any order, and the state that decides about removal is
  refreshed in three different places;
* *bookkeeping kept twice*: an allowlist and the count in its ticket, keys and
  reference counts, beneficiaries and their total, two maps per authority, holds
  and the statements that justify them;
* *values that change between two steps*: fees and tips between submission and
  publication, the size of an encoded key between registration and removal, trust
  in a certificate between registration and use;
* *partial failure*: transfers from hold that move less than asked for (locks) or
  fail (receiver below the existential deposit), a second hold failing after the
  first, a bound noticed after a write;
* *limits*: full publish queues, `u32`/`u64` ids, reference counts, unchecked
  additions in the release profile;
* *environment*: signatures replayed late, lists arriving out of order, a storage
  migration between two calls;
* *scripts at a distance*: a block that is retracted after its events were read, an
  answer that is lost after the call was accepted, retries that run out, state
  checked once and used much later, two scripts signing for one account, approvals
  of several signatories in any order, calls that fail inside a sudo or multisig
  call that succeeds, and JavaScript's reading of a missing answer.

**What makes each part correct.** Aggregate: an accepted statement reaches exactly
one receipt, in order; queues never overflow; a domain is removable exactly when
it is drained; money on hold is exactly what waiting statements and stored items
justify. Verifiers: a key lives exactly as long as somebody pays for it, deposits
come back in full, and a statement names the key and version it was verified with.
Token claim: the pot covers the list, only entries are paid, where the beneficiary
asked for it. CRL: what is revoked is exactly the newest accepted list of each
issuer, and nothing revoked is attested. Scripts: a call takes effect at most once
and is reported as what it was; chunks take effect in order and grant what the file
says; a snapshot is complete, a restore gives nobody more than the snapshot, and
ends; a test passes when nothing goes wrong and only if everything it asked for
happened.

## 2. Modules

| Module | Models |
|---|---|
| `Balances` | external: holds of `pallet_balances` as the pallets call them (`hold`, `release`, `transfer_on_hold` with `BestEffort`/`Free`/`Polite`), locks as `frozen` |
| `Aggregate` | `pallets/aggregate`, every extrinsic, callback, hook and query |
| `AggregationService` | abstract specification: what submitters and readers of receipts are promised |
| `MCAggregate` | argument sets for TLC |
| `AggregateProofs` | theorems about `Aggregate`, its refinement of `AggregationService` among them |
| `SumTheorems` | sums over finite sets: what adding, removing and regrouping does to them; used by the proofs about money |
| `VerifierPallet`, `MCVerifierPallet`, `VerifierProofs` | `pallets/verifiers` with several instances on one ledger, the `ultrahonk` and `tee` migrations |
| `TokenClaim`, `MCTokenClaim` | `pallets/token-claim`; its proofs are the first part of `ClaimScriptsProofs` |
| `Crl`, `MCCrl`, `CrlProofs` | `pallets/crl` and the way the tee verifier uses it |
| `TxLifecycle`, `TxLifecycleProofs` | `_handleTransactionLifecycle` of `zkv-lib`, with the node as environment |
| `ClaimScripts`, `MCClaimScripts`, `ClaimScriptsProofs` | `claim_init.js` and `claim_final_approve.js` on top of `TokenClaim` |
| `SnapshotRestore`, `MCSnapshotRestore`, `SnapshotRestoreProofs` | `snapshot-vks.js` and `snapshot-balances.js`, two chains as environment |
| `MerklePath` | `verifyProof` of the aggregation test, and the tree it checks paths of |
| `AggregateTest`, `MCAggregateTest`, `AggregateTestProofs` | `0012-aggregate_proofs.js` on top of `Aggregate` and `MerklePath` |

Conventions that hold in all of them:

* One action per extrinsic, hook or callback, in the scripts one per stretch between
  two awaits. A call that returns an error is
  rolled back by the transactional storage layer, so its checks are guards and a
  failing call is no step. The exception is `submit_proof`, whose outcome is kept
  in `submission` because properties are about it.
* Definitions keep the names of the functions in the code. Definitions commented "Faulty
  variant" are not part of any specification; they are plausible mistakes used to
  confirm that each property notices one.
* Hashes are modelled by what they cover, with no collisions; the Merkle root of
  an aggregation is the sequence of its leaves, a Merkle path the index of a leaf.
* Width of integers: `U32Max`, `U64Max`, `RefCountMax` and `BalanceModulus` are
  constants, so the limits are reached in small instances. Unchecked additions
  wrap, as in the release and production profiles (no `overflow-checks`).
* Weights, benchmarks, events other than the ones below, and encodings are left out.

### Aggregate

State: `next_domain_id`, `domains` (owner, state, the aggregation being filled
`next`, the publish queue `should_publish`, rules, delivery, the two tickets),
`allowlist`, `published`, `ledger`, and `receipts`, the history of
`NewAggregationReceipt` events with the statements each covers. A `Removed` domain
is deleted in the same call in the code, so the model has no such state.

* `on_proof_verified` is `Pallet::on_proof_verified` and everything below it:
  authorisation, room, both holds, `append_statement` with the move of a complete
  aggregation into the queue and, when ids run out, the change to Hold.
* `aggregate` takes an aggregation from the queue or cuts the one being filled,
  refreshes the hold state, settles each statement with `handle_held_funds`
  (transfer, release on failure) and appends to `published`. Dispatching has a
  single destination, `None`, which accepts everything.
* The allowlist calls count only accounts that really enter or leave: the
  iterators in the code are lazy and insert while they filter, so a name given
  twice counts once; the argument is therefore a set.
* `compute_encoded_size` of a domain is an increasing function of both sizes; the
  price is linear in it, as configured in the runtime.
* `set_freeze` is the environment: other pallets lock and unlock funds.

### VerifierPallet

State per verifier: storage version, `disabled`, `vks`, `tickets`; plus `trusted`
(key contents that pass the tee verifier's certificate check now), the latest
`submission`, and the shared `ledger`. A key is a format and its contents.
Storage version 1 uses the present pallet code with the key type before the
migration. `migrate_ultrahonk` turns keys into `Legacy` keys under the same hash;
`migrate_tee` drops keys and tickets and gives the deposits back.

### TokenClaim

State: the four storage items, balances, `signatures` made public so far (anyone
may submit them, late and again), and the latest `payment`. A signature is what it
covers: signer, message and, for an Ethereum address, the destination.
`remove_beneficiaries` removes *some* entries up to the limit, since `clear` goes
in hash order. An Ethereum address may ask to be paid to any account, the pallet's own
included: such a payment takes the entry and leaves the pot as it was. `sign` and
`fund` are the environment.

### Crl

State: the two maps, the lists each issuer has `published` (the number of a list
stands for its `thisUpdate`), and the latest `attestation` the tee verifier
accepted. Signatures and certificate chains of lists are external: an issuer
chains to one root, and `update_crl` demands that of the authority. What is revoked is
a set: the code keeps a `Vec`, in which a serial that one list repeats would count twice
towards `MAX_REVOKED_CERTS_PER_CA`; lists here do not repeat any.

### TxLifecycle

State: the local variables of the handler and, external, every extrinsic that was
handed to the node, also those the handler no longer watches: its status, its
result in the present block, and the results in blocks that were retracted. The
callback is split by the branches of the code; statuses without a branch leave the
handler as it is. `send` has the four outcomes of `sendFunction`: watched, refused
with 1014, refused otherwise, accepted with the answer lost. `hasBeenReady` and
`transactionSuccessEvent` live outside the loop and are never reset, as in the code.

### ClaimScripts

State of `claim_init.js` (`script`, `chunk`, `to_approve`), of the signatories'
scripts (`approving`), the files between them, the retries of each, and external:
the account sudo obeys, the open multisig operations, and a clock that numbers
time points. `fate` and `granted` record what the chain did with each chunk;
`disturbed` names what happened that the scripts do not guard against, so that each
property says under which circumstances it holds. An amount is its digits and the
number of decimals; `parse_amount` computes with them as the text is computed with.
A chunk is the set of the rows `read_airdrop_csv` puts into it: rows are counted
(`count`) without those whose amount is zero, and cut after every `batch_size` of them.
A chunk is encoded to a map. polkadot-js refuses one with equal keys (`encodable`): the
exception ends the script before anything is written (`encode_failure`). An account that
sudo does not obey is refused as an extrinsic when it signs itself (`send_failure`), and
silently when it is a multisig account, inside a call that succeeds (`sudo`).

The two handlers of the scripts are simpler than that of `zkv-lib` (no `Invalid`, no
wait for the mempool), so here an extrinsic takes effect, fails or is refused in one
step, with or without the answer.

### SnapshotRestore

Both scripts, each with its list of calls, a `log` of what it tried and its own
`nonce`. The old chain changes between the two queries per pallet; the new one takes
extrinsics in nonce order, and may refuse, lose the answer, or drop. Snapshot files
are the values written. Balances are sorted by amount; equal ones are left in any
order. `Init` picks the options that command lines can give. The minimum balance is
compared exactly; in the code a decimal string is compared with a `Number`, in floating
point, so the two may differ in the last planck. A higher priority that replaces an
extrinsic of the pool is two steps here, a drop and a new one.

### AggregateTest and MerklePath

`run` is the sequence of calls the test makes, each with the answer it expects and
the code it returns otherwise; `with_events` and `without_events` read an answer as
the test does. The pallet is `Aggregate` itself, so a call has exactly the effect the
pallet model gives it. An answer without events makes `data.events.filter` throw,
`states` at line 313 is not defined, and `<=` between two `u128` compares decimal
strings (`less_or_equal`). Hashes are symbolic; the tree of `binary_merkle_tree` and
the path served by the RPC are external: `Climb` goes up the levels from a leaf,
`step_up` is one round of the loop in `verifyProof`.

## 3. Runs

| Run | Question | Instance |
|---|---|---|
| `domain` | Do queues stay bounded, ids ordered, the hold state exact, and does a domain on hold become removable? | one domain of four legal kinds (three illegal ones are refused), sizes 1–3, queues 1–2, aggregation ids up to 4 so that they run out with a filled queue |
| `fees` | Do waiting statements stay covered, and does nothing but a lock leave other money on hold, when prices change in between, a receiver cannot be paid and transfers are partial? | two call fees, delivery fees that are raised in between, a receiver without an account, a lock that comes and goes just below the other account's balance |
| `pair` | Are paths right, do ticket counts and deposits match what is stored, is the abstract service (each statement in one receipt, for good) implemented? | two domains that publish the same aggregation ids in the same block, one with an allowlist, accounts and manager as owners, two statements |
| `keys` | Are reference counts, deposits and statements right through both migrations? | two verifiers, two accounts, one key, reference counts up to 2 |
| `claims` | Does the pot cover the list, are only entries paid, and as signed, and do leftovers go away? | two accounts and one Ethereum address, two messages, two claims, at most two entries added and removed one at a time, three signatures, payments to anybody and back to the pot, a receiver and a pot without an account |
| `lifecycle` | Does a retry never execute a call twice, is what is reported what happened, does the caller get an answer? | five attempts as in the code, two retractions, up to one foreign extrinsic in the pool |
| `campaign` | Do chunks take effect in order, is what is granted what the file says, do the files fit the open proposals exactly when the proposer is among the addresses of `-m`? | three signatories, five legal command lines (alone or as multisig) and one refused, four files with up to three chunks, amounts with a point, zero, too precise, duplicate and too large; leftovers; two retries, one fork, a second manager |
| `restore` | Are snapshots complete, nonces without gaps, is nothing restored twice or to excess, does a restore complete? | two pallets, two keys, two owners, five accounts, five command lines; two changes of the old chain, one fault |
| `e2e` | Does the test pass when nothing is lost, and only if all it asked for happened? | one to fourteen verifiers, with two equal statements or none, up to two losses |
| `lists` | Is what is revoked exactly the lists in force, for any order of updates? | three issuers of which two fit, two lists each of up to two serials of which three entries fit |

Bounds. The behaviour of the aggregate pallet depends on whether an aggregation is
empty, partial or complete and the queue empty, partial or full; sizes 1 to 3 and
queues 1 to 2 meet every combination, and both limits of each size are offered.
Domains interact only through accounts, `published` and `next_domain_id`: two are
enough for ids, paths and deposits of one owner. Id limits are constants
reached in the runs. Two accounts give every relation between submitter, owner,
publisher and receiver that the code distinguishes (equal or not); the manager is
a third user. For keys one content suffices because contents are only compared for
equality, and formats distinguish several keys with it. For lists, two of an issuer
give older, same and newer; three issuers of which two fit reach `TooManyIssuers`.
Three signatures (`MaxSignatures`) are more than a claim needs: one that was used, one
with another message and one with another destination can be replayed side by side.

For the scripts: retries are 5 in the code and in `lifecycle`, and 2 in `campaign`,
which gives first and last attempt. One fork or fault separates what was read from
what is; two retractions let an extrinsic end differently twice; two changes of the
old chain fit before, between or after the two queries; two losses in `e2e` let a
second one hide the first. Three signatories and thresholds 2 and 3 give proposals that need
an intermediate approval and proposals that do not. Twelve and thirteen verifiers are
the numbers of the code (mainnet and Volta); one to fourteen cover every shape of an
unbalanced tree up to four levels.

The pallet models always have an enabled call and are checked for deadlock.
`lifecycle`, `campaign`, `restore`, `e2e` and `verdict` switch the check off: scripts
end.

### Fairness

* `domain`: `FairSpec` of `Aggregate` assumes that the owner of a domain on hold
  keeps publishing what waits and emptying its allowlist. The pallet does neither
  by itself; the owner has its deposit to gain. Both are weak fairness with the
  enabling condition written out.
* `claims`: `FairSpec` of `TokenClaim` assumes that somebody keeps calling
  `remove_beneficiaries` with the default limit while entries are left; any signed
  account may, and the next claim cannot begin before.
* `lifecycle`: the script runs on, and the node keeps moving the extrinsics in its
  pool. No outcome is preferred: a node that only ever reports statuses the callback
  ignores is allowed, and `Returns` names that case. Extrinsics of others are in the pool
  at the start and leave it; if they kept arriving, `waitForEmptyMempool`
  (`zkv-lib/index.js:325`) could wait for ever, which `Returns` does not cover.
* `restore`: the two loops run on (they only await the node's answer), and blocks are
  made while an extrinsic with the next nonce is in the pool. The external changes,
  faults and drops are not assumed.

Nothing else is assumed fair: not the submitters, not the end of a claim, not the
signatories of a campaign.

### Findings

Two runs state what the repository says and TLC finds the code doing otherwise:

| Run | Claim | What the code does |
|---|---|---|
| `owner` | `expect("The domain does not have an owner; qed")` in `is_authorized_to_add_proof` | the manager may register a domain with the `OnlyOwner` proof rule; it has no owner account and the `expect` fails for every proof sent to it |
| `verdict` | "Any return value different from 1 is considered an error" and `submitShouldSuccess`, which returns an error when a proof is not accepted (`0012-aggregate_proofs.js`) | of two verdicts the first is returned when either is bad, so the test passes when only the second one failed, and skips what follows; `OkMeansDoneOrEarly` (section 4) shows that this is the only way to pass without being done |

Some hazards of `PROJECT.json` are exceptions that a property states, and their notes
say so: what a script reports after a retraction, statuses it ignores, retries that run
out, preconditions it does not read, fees left out of a sum, a lost call that would have
been refused. There the property does not catch the hazard; it shows that nothing else
goes wrong.

Other places where documents and code disagree, met while modelling. The models
follow the code, and except for `-m` no property states the difference:

* `Delivery::total_fee` (`pallets/aggregate/src/data.rs:250`) adds fee and tip unchecked
  and wraps in the release profile; submitters then hold a share of the wrapped sum.
* `handle_held_funds` (`pallets/aggregate/src/lib.rs:1252`): a lock on the submitter
  makes the transfer partial and the rest stays on hold, while the documentation of
  `set_total_delivery_fee` says that *all* held funds are transferred. `SettledInFull`
  names the lock as its exception.
* `validate_vk` of the tee verifier (`verifiers/tee/src/lib.rs:181`) refuses Nitro keys
  in `register_vk` and in `submit_proof`; migration and tests speak of their support.
* `end_claim` (`pallets/token-claim/src/lib.rs:653`) is documented to remove
  beneficiaries and removes none.
* `claim_init.js:519` says "stop sending", but after the last retry the result is
  `undefined`, not `-1`, and as sudo the next chunk is sent (`ChunksInOrder` and
  `GrantedAsWritten` except this case); as multisig `send_result.number` throws and no
  file is written for the proposals made so far.
* `claim_init.js:83` looks for an address among keys that are objects: "Duplicate
  address found!" is never thrown. An address twice in one chunk makes polkadot-js throw
  when the chunk is sent, after the earlier ones were; twice in two chunks, the
  second one fails in the pallet, unseen.
* `claim_init.js:296` calls `-m` the "address of the other signatories of the multisig
  account". The proposal is made for the account of these addresses *and* the proposer
  (line 184), the approvals in the files for that of these addresses alone (lines 409 and
  427): used as documented, nobody can approve with them. `ProposalsShared` states both
  cases, and `campaign` has command lines for both: the files fit every open proposal if
  the proposer is among the addresses, as in the example below the usage text, and none
  otherwise.
* `snapshot-vks.js:166` documents `-U`; line 216 tests `-u` a second time, so only the
  long form `--used-after` works.
* `submitExtrinsicUnsigned` as exported by `zkv-lib` signs with an undefined account;
  the function of that name inside the library, which its own wrappers use, does not.

## 4. Proofs

TLAPS checks the following for every number of accounts, domains, keys and issuers,
every size and every bound.

**`AggregateProofs`** from `LedgerAssumption`, `ConfigAssumption` and
`InputAssumption` (types of the configuration and of call arguments).
`TypeCorrect`, `QueuesBounded`, `IdsStayOrdered`, `HoldStateIsExact` and the action
property `DomainsOnlyAdvance`. The inductive invariant is

    IInv = TypeOK /\ EntriesOK /\ IdsHandedOut /\ AllowlistOwned /\ HoldStateExact

* `EntriesOK` states queue bounds and id order for each entry on its own, so that
  a call changing one domain needs an argument about one entry only. The two go
  together: the aggregation that moves to the queue adds exactly one element to it
  only because queued ids are older than `next.id`, and it is complete only because
  the one being filled was never over its size.
* `IdsHandedOut` (registered ids are below `next_domain_id`) and `AllowlistOwned`
  (entries of the allowlist belong to registered domains with that rule) make a newly
  registered domain start with an empty allowlist and a removed one leave none, which
  `HoldStateExact` depends on.

The lemmas follow the operators: what `pop_next_aggregation`, `append_statement`,
`take_aggregation` and `handle_hold_state` preserve of an entry, then one lemma per
action, and a last step that combines them.

The refinement needs what was published, so a second invariant adds two parts:

    RInv = IInv /\ ReceiptsBehind /\ PublishedCovered

* `ReceiptsBehind`: a receipt belongs to a domain id that was handed out, and, while
  that domain is registered, to an aggregation that is neither queued nor still to be
  filled. So publishing never meets a key that has a receipt, and a receipt is final.
* `PublishedCovered`: what was published in the present block has a receipt that covers
  exactly its statements.

`PalletImplementsService` follows step by step (`Served`): every call is one step of
`AggregationService` or leaves its variables alone. `PathsAlwaysServed` follows from
the invariant.

The money needs a third one, `LInv = IInv /\ MoneyInv`. For each account and each
reason, the hold is at least what the registered domains owe it, and exactly that for
the two kinds of deposit (`Funded`); what is owed is a sum over domains of an amount
per entry (`TotalDue` of `Due`), and each ticket counts the entries of its list
(`Counted`). A call changes one entry, so the sum changes by the difference of that
entry, and the lemmas about the ledger say the holds change by the same
(`Balanced`). A settlement that is partial because of a lock leaves *more* on hold,
never less, which is why `Funded` is an inequality for fees. From this
`StorageIsAccounted`, `ReservesStayCovered` and the action property
`SettlementsInFull`.

**`VerifierProofs`** from `LedgerAssumption` and `VerifierAssumption`.
`StorageTyped`, `ReferencesCounted` (a key is stored exactly while somebody has a
ticket for it and its count is the number of those accounts, so `unreachable!()` is
not reached) and `StatementsNameKeys`. The invariant is stated per verifier
(`StoreOK`: typed, counted, every key under its own hash), so that a call on one
verifier leaves the others alone by one lemma; counts use the cardinality theorems
for adding and removing an element. `StatementNamesKey` is proved from "every key is
under its own hash" and from the match of formats that `verify_proof` demands.
`DepositsStayExact` adds that the hold of an account is the sum of its tickets over all
verifiers (`HeldExact`), through both migrations, of which `migrate_tee` gives
several deposits back at once.

**`CrlProofs`** from `CrlAssumption`. `CrlTyped`, `ListsInForce`,
`RevokedNotAttested` and the action property `OnlyNewerLists`. The invariant is per
authority (`AuthorityOK`: typed and in force) plus `AttestationOK`, which says that
the version remembered with an attestation is a list that exists; publishing more
lists leaves both alone because lists are only appended.

**`TxLifecycleProofs`** from `LifecycleAssumption`. `NeverExecutedTwice`,
`SuccessReported` and `FailureReported`, for every number of retries, retractions and
foreign extrinsics. The inductive invariant is

    Inv = TypeOK /\ Budget /\ GivenUp /\ ResultsInBlocks /\ SuccessSeen /\ FailureSeen

* `GivenUp`: when another attempt is made, all earlier ones are `Invalid`, which is
  the end of an extrinsic. So only the last one can move, and at most one is on chain.
* `Budget` (attempts and retries left together never exceed the first value of
  `max_retries`) bounds the attempts.
* `ResultsInBlocks`, `SuccessSeen` and `FailureSeen` relate the flag and the returned
  value to the blocks, the retracted ones included: a success stays in the present
  block or moves to `orphans`, and an extrinsic reported as failed is lost, invalid,
  final, or was in a block whose retraction the caller did not wait for.

**`SnapshotRestoreProofs`** from `RestoreAssumption`. `SnapshotsComplete`,
`NoncesWithoutGap`, `CallsReachOnce`, `RestoresAsTaken` and `CustodySuffices`, for any
number of pallets, keys, owners and accounts, of changes and of faults. The parts of
the invariant:

* `Seen`: what the snapshot holds was on the old chain at some time while it was read,
  and what was there all the time is in it, pallet by pallet as they are read;
* `Queued` and `Gapless`: extrinsics in the pool and in the chain come from the logs of
  the scripts, one per call, and the nonces between the chain's and the script's are
  all in the pool, unless the node dropped one;
* `Lists`: each registration to send is one the snapshot or the replacement owner
  justifies, and each transfer gives an account at most what the snapshot has for it, up to the cap,
  and only once. The total of the list was compared with the custody account, whose
  balance and the cost of what was executed together stay at least what it had, so a
  transfer fails only if it is below the existential deposit or the custody account
  also pays the fees.

**`ClaimScriptsProofs`, the pallet**, from `ClaimAssumption`. `ClaimTyped`, `PotAlwaysCovers` and
`SignedPayments`, and the action property `EntriesPaidOnce`. The inductive invariant is

    IInv = TypeOK /\ ClaimIdOK /\ PotCoversClaims /\ SignaturesOK /\ PaidAsSigned

The pot covers `total_claimable`, which is the sum of the entries while a claim is
active and zero otherwise; every call that touches the list of an active claim changes
the sum by what it changes the counter. Typing needs it: the
counter is only decreased by amounts that are in the sum, so it stays a natural number.

**`ClaimScriptsProofs`, the scripts**, from `ClaimAssumption` and `ScriptsAssumption`, for every
number of signatories, threshold, batch size and file. `ChunksAlwaysInOrder` and
`ProposalsAlwaysShared` (the files of all addresses fit every open proposal if the
proposer is among them and none if it is not, forks and lost answers excepted) rest on

    Inv = Typed /\ FilesOK /\ Queued /\ Known /\ InOrder

where `InOrder` says, unless an approval came late or a script gave up, that the
approvals of a later proposal are among those of an earlier open one (`Nested`), that a
signatory's script leaves behind only proposals it has approved and that miss other
approvals (`Passed`), and that executed chunks form a prefix (`InTurn`). `Nested` and
`Passed` carry the argument: the last approval a chunk was waiting for cannot come
while an earlier chunk is open, since that one would have had it before.

`AlwaysGrantedAsWritten` adds `Grants` (what is granted is at most the sum of the rows
in executed chunks, and exactly that when no address is twice in one) and rests on
lemmas about the file: the rows with an amount are each in exactly one chunk, of at
most `batch_size` rows. `ChunksNeverLost` adds `Fine => Covered`: when nothing that the
scripts cannot see disturbs the campaign, the pot has what is on the list *and* what
the chunks to come will put there, so no chunk fails when it is executed, however many
claims are paid between two of them.

**`AggregateTestProofs`** from the assumptions of `AggregateProofs`, `TestAssumption` and
`RegistrationAssumption` (the accounts, statements, fee and registrations of the test
are among those of the pallet, and domain and aggregation ids reach the second one),
for every number of proofs, every balance and every number of losses.

`PathsVerify` is about data of any size. The loop of `verifyProof` is a fold and the tree
is climbed by a recursive function; both are unfolded by looking at the least level, or
the smallest set of rounds, where the statement would fail. The invariant of the way up:
after the elements collected so far the hash is the node at that level, and `position`
and `width` are either its place and the width of the level, or they no longer are
(a level without a neighbour adds no element to the path, so the loop does not count it)
and the node is the last one of its level with `position + 1 == width`. The last node
stays the last one, and its neighbour, if it has one, is on its left: the side the loop
chooses.

`TestImplementsPallet`: every call is a step of `Aggregate` or refused, so `IInv` and
all theorems about the pallet hold during the test. The rest follows from

    TestInv = IInv /\ Verifiers /\ ... /\ (on its way or at its end => Stage)

where `Stage` says what is on the chain by the place `at` of the next call: the ids taken
from events are 0 to 3 (`IdsAt`), whom the allowlist holds (`ListAt`), that the aggregation
being filled has at most as many statements as were sent, and lists them in order if none
is missing (`FillAt`, so `AggregationComplete` is only reported with all of them), the
aggregation and then its receipt hold all statements (`FullAt`), and the state of each of
the four domains (`ZeroAt` to `ThreeAt`). None of the properties is inductive without it: that a
lost call is noticed needs that the three calls whose failure counts as success are
refused by the pallet at that place (`RefusedHere`), which needs the owner and the state of
the first domain; TLC has checked `TestInv` on both instances of section 3.

* `LossesAreNoticed`: `LossesNoticed` for any number of lost calls and answers.
* `PathsNeverFail`: `ErrAggregationProofFailedVerification` is never returned.
* `OkMeansDoneOrEarly`: `OkMeansDone`, or the test returned at the last pair of
  submissions (`ReturnedEarly`). `OkMeansDone` itself is false for some balances, as `verdict`
  shows; the theorem says that there is no other place. At the first
  pair the same lines are harmless: the allowlist is empty there and both
  submissions are refused. In `e2e`, where accounts can pay, the early return does not
  happen.

**`SumTheorems`.** Sums are folds over sets. The theorems of the library about folds and
induction take an operator as a parameter, which the provers cannot instantiate. The
lemmas here avoid them: of the subsets of a finite set for which a statement fails
there is a minimal one (`MinimalSubset`, from a theorem about finite sets that takes
none), and removing an element from it gives the contradiction. Everything else
(adding and removing an element, changing one value, comparing and splitting sums, sums
over an image) follows from the sum over a set with one element more.

**Only model-checked**, and why:

* liveness under fairness (`HeldDomainDrains`, `LeftoversGo`, `Returns`,
  `RestoreCompletes`): outside the prover;
* `FaultlessPasses` of `e2e`: it needs that every call that should succeed is accepted,
  which is `ENABLED` of the pallet's action, and what decimal strings a balance has, which is
  a recursion over data.

Every other property of a passing run is proved, `OkMeansDone` with the exception above.

## 5. Not modelled

* The arithmetic of the verifiers (`verifiers/*`, `native`): a proof is sound or not.
* Migrations of the aggregate pallet (`migrations/v1`–`v4`): see the plan.
* Runtime configuration other than the pricing used by the pallets; payout,
  governance, XCM and proxy filters configure external pallets.
* `rpc`, `relay-node`, `paratest`, `utils`: forwarding, process wiring, tooling.
* Scripts: connecting, prompts and help texts, type declarations for polkadot-js,
  proof data; `waitForEvent`, which no test uses; end-to-end tests other than
  `0012-aggregate_proofs.js`, which are straight lines through the same library.
* Weights and benchmarks; macros and traits without state.
* In `crl`: parsing and signatures of lists, validity periods of certificates.

## 6. Plan

Done: all pallets and scripts of section 2, and proofs of every property of the
passing runs except those listed at the end of section 4. Next, in this order:

1. `ProofPipeline`: `submit_proof` of `VerifierPallet` calling `on_proof_verified` of
   `Aggregate` on one ledger. Receipts cover only statements that were verified;
   settling leaves key deposits alone; a statement the domain refuses leaves the
   proof accepted and nothing on hold. `LInv` and `HeldExact` are about different
   hold reasons and carry over.
2. Revocation with keys: `trusted` of `VerifierPallet` replaced by `Crl`.
3. Aggregate migrations `v1`-`v4` as translations of storage, proved to establish
   `TypeOK` and to keep deposits.
4. The split of fees and the inflation curve of the runtime (`payout.rs`) as pure
   functions, checked against a reference over bounded inputs.
