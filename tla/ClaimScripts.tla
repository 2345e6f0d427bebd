---------------------------- MODULE ClaimScripts ----------------------------
(***************************************************************************)
(* src/scripts/claim: claim_init.js sends a list of beneficiaries to the   *)
(* token claim pallet in chunks, the first with begin_claim and the others *)
(* with add_beneficiaries, either through sudo or as proposals of a        *)
(* multisig account; for the latter it writes the approvals of the other   *)
(* signatories to files.  The signatories submit the intermediate          *)
(* approvals by hand, as one batch, and the final ones with                *)
(* claim_final_approve.js.                                                 *)
(*                                                                         *)
(* Several scripts run against one chain.  sudo and pallet_multisig are    *)
(* external: the extrinsic succeeds even when the call inside it fails,    *)
(* and the scripts see the extrinsic only.                                 *)
(***************************************************************************)
EXTENDS TokenClaim, Sequences

CONSTANTS
  CommandLines,  \* the options offered to claim_init.js
  CsvFiles,      \* sequences of rows [address, tokens], tokens as [digits, decimals]
  Decimals,      \* decimals of the token: 18 in the code
  Signatories,   \* those who can sign
  Proposer,      \* the account that runs claim_init.js
  SudoKeys,      \* external: the accounts that sudo may obey
  Leftovers,     \* what an earlier claim may have left in storage
  Retries,       \* max_retries: 5 in the code
  MaxReorgs      \* bound: proposals that a fork moves to another block

ASSUME ScriptsAssumption ==
  /\ Decimals \in Nat /\ Retries \in Nat \ {0} /\ MaxReorgs \in Nat
  /\ Proposer \in Signatories
  /\ \A o \in CommandLines :
       /\ o.addresses \subseteq Signatories /\ IsFiniteSet(o.addresses)
       /\ o.threshold \in Nat /\ o.batch_size \in Int
  /\ \A rows \in CsvFiles :
       rows \in Seq([address : Beneficiary, tokens : [digits : Nat, decimals : Nat]])

VARIABLES
  options,     \* what parse_args returned
  csv_data,    \* the rows of the file
  script,      \* claim_init.js: "start", "send", "done", "refused", "crashed"
  chunk,       \* m, the chunk being sent
  max_retries, \* signatory -> retries left for the extrinsic it is sending
  to_approve,  \* multi_calls_to_be_approved
  files,       \* addresses with a directory -> the calls to be approved by them
  approving,   \* signatory -> the next file claim_final_approve.js sends, 0 when
               \* it is not running
  sudo_key,    \* external: the account that sudo obeys
  ops,         \* external: pallet_multisig, [account, call] -> [when, approvals]
  clock,       \* external: the next time point
  fate,        \* chunk -> "unsent", "listed" or "lost", once it was executed
  granted,     \* beneficiary -> what the executed chunks have put on the list
  disturbed    \* what happened that the scripts do not guard against

inputs == <<options, csv_data, sudo_key>>

cvars == <<inputs, script, chunk, max_retries, to_approve, files, approving,
           ops, clock, fate, granted, disturbed>>

all_vars == <<vars, cvars>>
-----------------------------------------------------------------------------
(***************************************************************************)
(* Reading the command line and the file.                                  *)
(***************************************************************************)
parse_args(o) ==
  /\ Cardinality(o.addresses) >= o.threshold
  /\ o.addresses # {} => o.threshold # 0
  /\ o.batch_size > 0

(* 1 with n zeros. *)
zeros[n \in Nat] == IF n = 0 THEN 1 ELSE 10 * zeros[n - 1]

(* Faulty variant: the decimals in the file are not subtracted. *)
parse_amount_shifted(tokens) == tokens.digits * zeros[Decimals]

(* The digits without the point, with as many zeros as decimals miss; an   *)
(* amount with more decimals than the token is taken as it is.             *)
parse_amount(tokens) ==
  IF tokens.decimals <= Decimals
  THEN tokens.digits * zeros[Decimals - tokens.decimals]
  ELSE tokens.digits

amounts == [i \in DOMAIN csv_data |-> parse_amount(csv_data[i].tokens)]

(* The rows that grant something, and how many there are up to a row. *)
nonzero == {i \in DOMAIN csv_data : amounts[i] # 0}

count(i) == Cardinality({j \in nonzero : j <= i})

(* Maps of batch_size entries, an entry for each of these rows; the last   *)
(* map is smaller and may be empty.  The test for duplicates looks for an  *)
(* address among keys that are objects, and never finds it.                *)
read_airdrop_csv(batch_size) ==
  [m \in 1 .. count(Len(csv_data)) \div batch_size + 1 |->
     {i \in nonzero : count(i) \in (m - 1) * batch_size + 1 .. m * batch_size}]

batches == read_airdrop_csv(options.batch_size)

Addresses(batch) == {csv_data[i].address : i \in batch}

(* External: polkadot-js refuses to encode a map with equal keys. *)
encodable(batch) ==
  \A i, j \in batch : csv_data[i].address = csv_data[j].address => i = j

(* The map a chunk is encoded to. *)
encodings(batch) ==
  {list \in [Addresses(batch) -> {amounts[i] : i \in batch}] :
     \A i \in batch : list[csv_data[i].address] = amounts[i]}

check_no_prev_calls == options.addresses \cap DOMAIN files = {}

total == SumFunctionOnSet(amounts, UNION {batches[m] : m \in DOMAIN batches})

(* Faulty variant: the funds are not looked at. *)
check_state_only == ~ claim_active /\ options.batch_size <= MaxOpBeneficiaries

check_preconditions ==
  /\ ~ claim_active
  /\ balance[Pot] >= ExistentialDeposit + total
  /\ options.batch_size <= MaxOpBeneficiaries
-----------------------------------------------------------------------------
(***************************************************************************)
(* External: sudo.sudo(begin_claim or add_beneficiaries), dispatched with  *)
(* an account as its origin.  Whatever happens inside, nobody is told;     *)
(* inside as_multi that includes an account that sudo does not obey.       *)
(***************************************************************************)
can_dispatch(m, list, origin) ==
  /\ origin = sudo_key
  /\ IF m = 1 THEN can_begin_claim(list, options.claim_msg) ELSE can_extend_claim(list)

sudo(m, origin) ==
  \E list \in encodings(batches[m]) :
    IF can_dispatch(m, list, origin)
    THEN /\ IF m = 1 THEN begin_claim(list, options.claim_msg) ELSE add_beneficiaries(list)
         /\ fate' = [fate EXCEPT ![m] = "listed"]
         /\ granted' = [b \in Beneficiary |->
                          granted[b] + IF b \in DOMAIN list THEN list[b] ELSE 0]
    ELSE /\ fate' = [fate EXCEPT ![m] = "lost"]
         /\ UNCHANGED <<vars, granted>>

(* pallet_multisig: the account of a set of signatories and a threshold. *)
multi(threshold, members) == [threshold |-> threshold, members |-> members]

without_op(key) == [k \in DOMAIN ops \ {key} |-> ops[k]]

with_op(key, op) == [k \in DOMAIN ops \cup {key} |-> IF k = key THEN op ELSE ops[k]]

(* as_multi without a time point: a new proposal. *)
can_propose(key) ==
  /\ key.account.threshold >= 2 /\ Cardinality(key.account.members) >= 2
  /\ key \notin DOMAIN ops

(* as_multi and approve_as_multi with the time point of a proposal. *)
can_approve(key, when, who, executes) ==
  /\ key \in DOMAIN ops
  /\ ops[key].when = when
  /\ \/ who \notin ops[key].approvals
     \/ executes /\ Cardinality(ops[key].approvals) >= key.account.threshold

approvals_with(key, who) == ops[key].approvals \cup {who}

is_final(key, who) == Cardinality(approvals_with(key, who)) >= key.account.threshold
-----------------------------------------------------------------------------
(***************************************************************************)
(* claim_init.js.                                                          *)
(***************************************************************************)
CampaignInit ==
  /\ options \in {o \in CommandLines : parse_args(o)}
  /\ csv_data \in CsvFiles
  /\ sudo_key \in SudoKeys
  /\ script = "start"
  /\ chunk = 1
  /\ max_retries = [s \in Signatories |-> Retries]
  /\ to_approve = <<>>
  /\ files \in {<<>>, [a \in {Proposer} |-> <<>>]}
  /\ approving = [s \in Signatories |-> 0]
  /\ ops = <<>>
  /\ clock = 1
  /\ fate = [m \in DOMAIN batches |-> "unsent"]
  /\ granted = [b \in Beneficiary |-> 0]
  /\ balance = Funds
  /\ beneficiaries \in Leftovers
  /\ disturbed = IF beneficiaries = Nobody THEN {} ELSE {"leftovers"}
  /\ total_claimable = 0
  /\ claim_active = FALSE
  /\ claim_id = NoClaim
  /\ signatures = {}
  /\ payment = NoClaim

(* Up to the first extrinsic; the operator may also answer N. *)
main_start ==
  /\ script = "start"
  /\ \/ check_no_prev_calls /\ check_preconditions /\ script' = "send"
     \/ script' = "refused"
  /\ UNCHANGED <<vars, inputs, chunk, max_retries, to_approve, files, approving,
                 ops, clock, fate, granted, disturbed>>

(* get_approve_batch, get_final_approve: the same calls for everybody, in  *)
(* the order they were proposed.  Written also after a failure.            *)
write_new_file_name(calls) ==
  files' = [a \in DOMAIN files \cup options.addresses |->
              IF a \in options.addresses THEN calls ELSE files[a]]

(* Faulty variant: the files miss the call of the last chunk. *)
next_chunk_unrecorded(calls) ==
  /\ to_approve' = calls
  /\ max_retries' = [max_retries EXCEPT ![Proposer] = Retries]
  /\ IF chunk < Len(batches)
     THEN chunk' = chunk + 1 /\ UNCHANGED <<script, files>>
     ELSE script' = "done" /\ write_new_file_name(to_approve) /\ UNCHANGED chunk

(* The next chunk after a result other than -1, or the end. *)
next_chunk(calls) ==
  /\ to_approve' = calls
  /\ max_retries' = [max_retries EXCEPT ![Proposer] = Retries]
  /\ IF chunk < Len(batches)
     THEN chunk' = chunk + 1 /\ UNCHANGED <<script, files>>
     ELSE script' = "done" /\ write_new_file_name(calls) /\ UNCHANGED chunk

stop_sending ==
  /\ script' = "done"
  /\ write_new_file_name(to_approve)
  /\ UNCHANGED <<chunk, max_retries, to_approve>>

(* The call of a chunk cannot be made: the exception ends the script. *)
encode_failure ==
  /\ script = "send" /\ ~ encodable(batches[chunk])
  /\ script' = "crashed"
  /\ UNCHANGED <<vars, inputs, chunk, max_retries, to_approve, files, approving, ops, clock,
                 fate, granted, disturbed>>

(* Error 1014.  After the last retry _handleTransactionLifecycle returns   *)
(* undefined, not -1: send_as_sudo passes it on, send_as_multi_sudo throws *)
(* on it and ends the script.                                              *)
send_retry ==
  /\ script = "send" /\ encodable(batches[chunk])
  /\ IF max_retries[Proposer] > 1
     THEN /\ max_retries' = [max_retries EXCEPT ![Proposer] = @ - 1]
          /\ UNCHANGED <<script, chunk, to_approve, files, disturbed>>
     ELSE /\ disturbed' = disturbed \cup {"gave up"}
          /\ IF options.threshold = 0
             THEN next_chunk(to_approve)
             ELSE script' = "crashed" /\ UNCHANGED <<chunk, max_retries, to_approve, files>>
  /\ UNCHANGED <<vars, inputs, approving, ops, clock, fate, granted>>

(* The extrinsic has been executed.  When the connection breaks before the *)
(* answer, the result is -1 all the same.                                  *)
answer(calls) ==
  \/ next_chunk(calls) /\ UNCHANGED disturbed
  \/ stop_sending /\ disturbed' = disturbed \cup {"answer lost"}

(* The node refuses the extrinsic, or it fails, as sudo does for an account *)
(* it does not obey: the result is -1.                                     *)
send_failure ==
  /\ script = "send" /\ encodable(batches[chunk])
  /\ stop_sending
  /\ UNCHANGED <<vars, inputs, approving, ops, clock, fate, granted, disturbed>>

send_as_sudo ==
  /\ script = "send" /\ encodable(batches[chunk])
  /\ options.threshold = 0 /\ Proposer = sudo_key
  /\ sudo(chunk, Proposer)
  /\ answer(to_approve)
  /\ UNCHANGED <<inputs, approving, ops, clock>>

proposal_key(m) ==
  [account |-> multi(options.threshold, options.addresses \cup {Proposer}), call |-> m]

(* The proposal is the first approval.  Its time point is read from the    *)
(* block that includes it, which is not final yet.                         *)
send_as_multi_sudo ==
  /\ script = "send" /\ encodable(batches[chunk])
  /\ options.threshold > 0
  /\ can_propose(proposal_key(chunk))
  /\ ops' = with_op(proposal_key(chunk), [when |-> clock, approvals |-> {Proposer}])
  /\ clock' = clock + 1
  /\ answer(Append(to_approve, [call |-> chunk, when |-> clock]))
  /\ UNCHANGED <<vars, inputs, approving, fate, granted>>
-----------------------------------------------------------------------------
(***************************************************************************)
(* The signatories.  get_approve_as_multi and get_final_approve name the   *)
(* signatories of the command line, without the approver.                  *)
(***************************************************************************)
approval_key(m) == [account |-> multi(options.threshold, options.addresses), call |-> m]

calls_of(a) == {files[a][i] : i \in DOMAIN files[a]}

FinalsBegun == "started again" \in disturbed \/ \E s \in Signatories : approving[s] > 1

(* utility.batchAll of approveAsMulti: all or nothing, and never executes. *)
approve_batch(a) ==
  /\ a \in DOMAIN files /\ files[a] # <<>>
  /\ \A c \in calls_of(a) : can_approve(approval_key(c.call), c.when, a, FALSE)
  /\ ops' = [k \in DOMAIN ops |->
               IF \E c \in calls_of(a) : k = approval_key(c.call)
               THEN [ops[k] EXCEPT !.approvals = @ \cup {a}] ELSE ops[k]]
  /\ disturbed' = disturbed \cup IF FinalsBegun THEN {"late approval"} ELSE {}
  /\ UNCHANGED <<vars, inputs, script, chunk, max_retries, to_approve, files,
                 approving, clock, fate, granted>>

final_running(a) == approving[a] \in 1 .. (IF a \in DOMAIN files THEN Len(files[a]) ELSE 0)

(* claim_final_approve.js: read_files, then one extrinsic after the other, *)
(* from the first file also when the script is started again.              *)
final_start(a) ==
  /\ a \in DOMAIN files /\ files[a] # <<>>
  /\ ~ final_running(a)
  /\ approving' = [approving EXCEPT ![a] = 1]
  /\ max_retries' = [max_retries EXCEPT ![a] = Retries]
  /\ disturbed' = disturbed \cup IF approving[a] = 0 THEN {} ELSE {"started again"}
  /\ UNCHANGED <<vars, inputs, script, chunk, to_approve, files, ops, clock, fate, granted>>

final_next(a) ==
  /\ approving' = [approving EXCEPT ![a] = @ + 1]
  /\ max_retries' = [max_retries EXCEPT ![a] = Retries]

final_retry(a) ==
  /\ final_running(a)
  /\ IF max_retries[a] > 1
     THEN /\ max_retries' = [max_retries EXCEPT ![a] = @ - 1]
          /\ UNCHANGED <<approving, disturbed>>
     ELSE final_next(a) /\ disturbed' = disturbed \cup {"gave up"}
  /\ UNCHANGED <<vars, inputs, script, chunk, to_approve, files, ops, clock,
                 fate, granted>>

(* Faulty variant: the script goes on with the next file. *)
final_failure_goes_on(a) ==
  /\ final_running(a)
  /\ final_next(a)
  /\ UNCHANGED <<vars, inputs, script, chunk, to_approve, files, ops, clock, fate, granted,
                 disturbed>>

(* The result is -1: the script stops sending. *)
final_stop(a) ==
  /\ approving' = [approving EXCEPT ![a] = Len(files[a]) + 1]
  /\ UNCHANGED max_retries

final_failure(a) ==
  /\ final_running(a)
  /\ final_stop(a)
  /\ UNCHANGED <<vars, inputs, script, chunk, to_approve, files, ops, clock, fate, granted,
                 disturbed>>

final_answer(a) ==
  \/ final_next(a) /\ UNCHANGED disturbed
  \/ final_stop(a) /\ disturbed' = disturbed \cup {"answer lost"}

final_send(a) ==
  /\ final_running(a)
  /\ LET c == files[a][approving[a]]
         key == approval_key(c.call)
     IN  /\ can_approve(key, c.when, a, TRUE)
         /\ IF is_final(key, a)
            THEN ops' = without_op(key) /\ sudo(c.call, key.account)
            ELSE /\ ops' = with_op(key, [ops[key] EXCEPT !.approvals = approvals_with(key, a)])
                 /\ UNCHANGED <<vars, fate, granted>>
  /\ final_answer(a)
  /\ UNCHANGED <<inputs, script, chunk, to_approve, files, clock>>
-----------------------------------------------------------------------------
(***************************************************************************)
(* External: a fork moves a proposal to another block; beneficiaries are   *)
(* paid; the manager ends the claim or begins one of its own.              *)
(***************************************************************************)
reorg(key) ==
  /\ clock <= Len(batches) + MaxReorgs
  /\ Cardinality(ops[key].approvals) = 1
  /\ ops' = [ops EXCEPT ![key].when = clock]
  /\ clock' = clock + 1
  /\ disturbed' = disturbed \cup {"reorg"}
  /\ UNCHANGED <<vars, inputs, script, chunk, max_retries, to_approve, files,
                 approving, fate, granted>>

payout(b) == claim_for(b) /\ UNCHANGED cvars

meddle ==
  /\ end_claim \/ \E message \in Messages \ {options.claim_msg} : begin_claim(Nobody, message)
  /\ disturbed' = disturbed \cup {"manager"}
  /\ UNCHANGED <<inputs, script, chunk, max_retries, to_approve, files, approving,
                 ops, clock, fate, granted>>

CampaignNext ==
  \/ main_start
  \/ encode_failure \/ send_retry \/ send_failure \/ send_as_sudo \/ send_as_multi_sudo
  \/ \E a \in Signatories :
       approve_batch(a) \/ final_start(a) \/ final_retry(a) \/ final_failure(a) \/ final_send(a)
  \/ \E key \in DOMAIN ops : reorg(key)
  \/ \E b \in Beneficiary : payout(b)
  \/ meddle

CampaignSpec == CampaignInit /\ [][CampaignNext]_all_vars
-----------------------------------------------------------------------------
(***************************************************************************)
(* Properties.                                                             *)
(***************************************************************************)
Executed(m) == fate[m] # "unsent"

(***************************************************************************)
(* The chunks take effect in the order of the file, so begin_claim comes   *)
(* first, in every interleaving of the signatories' scripts: unless an     *)
(* intermediate approval arrives when final ones are under way, or a       *)
(* script has used up its retries and goes on.                             *)
(***************************************************************************)
ChunksInOrder ==
  disturbed \cap {"late approval", "gave up"} = {} =>
    \A m \in DOMAIN batches : Executed(m) => \A k \in 1 .. m - 1 : Executed(k)

(***************************************************************************)
(* What check_preconditions promises: once it has passed, every chunk that *)
(* is executed is put on the list, whatever is claimed in the meantime.    *)
(* Excepted are lists it does not look at: with an address twice, longer   *)
(* than MaxBeneficiaries, over leftovers, without a message, or for an     *)
(* account that sudo does not obey.                                        *)
(***************************************************************************)
Sender == IF options.threshold = 0 THEN Proposer
          ELSE multi(options.threshold, options.addresses \cup {Proposer})

Unchecked ==
  \/ \E i, j \in nonzero : i # j /\ csv_data[i].address = csv_data[j].address
  \/ Cardinality(nonzero) > MaxBeneficiaries
  \/ options.claim_msg = EmptyMessage
  \/ Sender # sudo_key

NoChunkLost ==
  disturbed \subseteq {"started again", "answer lost"} /\ ~ Unchecked =>
    \A m \in DOMAIN batches : fate[m] # "lost"

(***************************************************************************)
(* Nobody is granted more than the file says, whatever is retried, stopped *)
(* and approved by several signatories at once.  Everybody is granted just *)
(* that when all chunks have been executed, none of them out of order or   *)
(* disturbed by another manager, and for a list that check_preconditions   *)
(* covers: not one that is Unchecked, and not over leftovers.  An amount   *)
(* with more decimals than the token is not refused, and turns out larger. *)
(***************************************************************************)
TooPrecise == \E i \in DOMAIN csv_data : csv_data[i].tokens.decimals > Decimals

Written(b) ==
  SumFunction([i \in DOMAIN csv_data |->
                 IF csv_data[i].address = b
                 THEN (csv_data[i].tokens.digits * zeros[Decimals])
                        \div zeros[csv_data[i].tokens.decimals]
                 ELSE 0])

GrantedAsWritten ==
  /\ TooPrecise \/ \A b \in Beneficiary : granted[b] <= Written(b)
  /\ (/\ disturbed \subseteq {"started again", "answer lost"} /\ ~ Unchecked /\ ~ TooPrecise
      /\ \A m \in DOMAIN batches : Executed(m))
     => \A b \in Beneficiary : granted[b] = Written(b)

(***************************************************************************)
(* When claim_init.js has ended, also half-way, everybody among the        *)
(* addresses given with -m has files that name the account and the time    *)
(* point of every proposal still open, if the proposer is one of them.     *)
(* If -m gives the other signatories only, as the usage text asks for      *)
(* (claim_init.js:296), nobody has one for any: the files name the account *)
(* of these addresses, the proposal that of these and the proposer.        *)
(* Excepted are a proposal that a fork moved, and the one whose answer was *)
(* lost, which no file names.                                              *)
(***************************************************************************)
Shared(k, a) == \E c \in calls_of(a) : approval_key(c.call) = k /\ c.when = ops[k].when

ProposalsShared ==
  script = "done" /\ disturbed \cap {"reorg", "answer lost"} = {} =>
    \A k \in DOMAIN ops : \A a \in options.addresses :
      Shared(k, a) <=> Proposer \in options.addresses
=============================================================================
