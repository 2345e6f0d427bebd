-------------------------- MODULE SnapshotRestore ---------------------------
(***************************************************************************)
(* src/scripts/snapshot-restore-vks and snapshot-restore-balance: what a   *)
(* chain holds is written to a file, the registered verification keys with *)
(* their owners by snapshot-vks.js and the balances by                     *)
(* snapshot-balances.js, and restored on another chain, one extrinsic      *)
(* after the other.  Both scripts count the nonce of the account that      *)
(* signs themselves, and both may run at the same time.                    *)
(*                                                                         *)
(* An extrinsic counts as sent when the node takes it into its pool; the   *)
(* scripts never learn what becomes of it there.                           *)
(***************************************************************************)
EXTENDS Integers, FiniteSets, FiniteSetsExt, Sequences, SequencesExt

CONSTANTS
  None,
  Pallets,         \* the verifier pallets, in the order they are read
  Keys,            \* verification keys: <<pallet, hash>>
  Owners,          \* those who register keys
  OldTickets,      \* external: registrations on the old chain at the start
  Poor,            \* owners that cannot pay the deposit on the new chain
  LastUsed,        \* external, the GraphQL service: hash -> date or None
  OldBalances,     \* account -> [free, reserved] on the old chain
  ModuleAccounts, BlockList,
  ExistentialDeposit, Fee,
  Sudo, Custody,   \* the accounts that pay and sign
  CustodyFunds,    \* what Custody has on the new chain
  CommandLines,    \* [gql, replace, used_after, cap, executor]
  MaxMoves,        \* bound: changes on the old chain
  MaxFaults        \* bound: failures of the node and the connection

ASSUME RestoreAssumption ==
  /\ Sudo # Custody
  /\ IsFiniteSet(Owners) /\ IsFiniteSet(Keys) /\ IsFiniteSet(DOMAIN OldBalances)
  /\ Pallets \in Seq(Range(Pallets))
  /\ \A k \in Keys : \E i \in DOMAIN Pallets : k[1] = Pallets[i]
  /\ OldTickets \subseteq SUBSET (Owners \X Keys)
  /\ \A a \in DOMAIN OldBalances : OldBalances[a].free \in Nat /\ OldBalances[a].reserved \in Nat
  /\ ExistentialDeposit \in Nat \ {0} /\ Fee \in Nat /\ CustodyFunds \in Nat
  /\ MaxMoves \in Nat /\ MaxFaults \in Nat
  /\ \A o \in CommandLines : o.cap \in Nat /\ o.executor \in {Sudo, Custody}

VARIABLES
  options,
  old,        \* external: the old chain, vks [pallet, hash] and tickets [owner, key]
  moves,      \* external: changes on the old chain so far
  witnessed,  \* tickets there since the snapshot began, and all tickets so far
  pc,         \* script -> "start", "vks", "tickets", "file", "send", "done", "crashed"
  reading,    \* the pallet takeSnapshot is at
  vkeys,      \* what the first query for this pallet returned
  vks,        \* the key file: key -> [owners, stat]
  balances,   \* the balance file: accounts with their totals, ascending
  list,       \* script -> the calls it sends
  log,        \* script -> "sent" or "failed", for the calls tried so far
  nonce,      \* script -> its own count
  new_nonce,  \* external: the nonce of the signing accounts on the new chain
  pool,       \* external: extrinsics [from, nonce, script, call, lost]
  chain,      \* external: extrinsics executed, with the result of the call inside
  custody,    \* external: balance of Custody
  registered, \* external: [owner, key] registered on the new chain
  faults      \* external: kinds of failures that have happened

ovars == <<old, moves, witnessed>>
snapshots == <<reading, vkeys, vks, balances>>
sender == <<list, log, nonce>>
new == <<new_nonce, pool, chain, custody, registered, faults>>
vars == <<options, ovars, pc, snapshots, sender, new>>

Scripts == {"vks", "balances"}

executor(s) == IF s = "vks" THEN Sudo ELSE options.executor

Empty == [x \in {} |-> x]

Init ==
  /\ options \in CommandLines
  /\ old \in {[vks |-> {t[2] : t \in tickets}, tickets |-> tickets] : tickets \in OldTickets}
  /\ moves = 0
  /\ witnessed = [since |-> old.tickets, ever |-> old.tickets]
  /\ pc = [s \in Scripts |-> "start"]
  /\ reading = 1
  /\ vkeys = {}
  /\ vks = Empty
  /\ balances = <<>>
  /\ list = [s \in Scripts |-> <<>>]
  /\ log = [s \in Scripts |-> <<>>]
  /\ nonce = [s \in Scripts |-> 0]
  /\ new_nonce = [a \in {Sudo, Custody} |-> 0]
  /\ pool = {}
  /\ chain = <<>>
  /\ custody = CustodyFunds
  /\ registered = {}
  /\ faults = <<>>
-----------------------------------------------------------------------------
(***************************************************************************)
(* The verifier pallets of the old chain: registering and unregistering.   *)
(***************************************************************************)
old_chain(tickets) ==
  /\ moves < MaxMoves /\ pc["vks"] \in {"vks", "tickets"}
  /\ moves' = moves + 1
  /\ old' = [vks |-> {t[2] : t \in tickets}, tickets |-> tickets]
  /\ witnessed' = [since |-> witnessed.since \cap tickets, ever |-> witnessed.ever \cup tickets]
  /\ UNCHANGED <<options, pc, snapshots, sender, new>>

register_vk(owner, key) ==
  <<owner, key>> \notin old.tickets /\ old_chain(old.tickets \cup {<<owner, key>>})

unregister_vk(owner, key) ==
  <<owner, key>> \in old.tickets /\ old_chain(old.tickets \ {<<owner, key>>})
-----------------------------------------------------------------------------
(***************************************************************************)
(* takeSnapshot of snapshot-vks.js: for every pallet the keys, then the    *)
(* tickets, in two queries.  A ticket for a key the first one did not see  *)
(* ends the script before the file is written.                             *)
(***************************************************************************)
snapshot_start ==
  /\ pc["vks"] = "start"
  /\ pc' = [pc EXCEPT !["vks"] = "vks"]
  /\ witnessed' = [witnessed EXCEPT !.since = old.tickets]
  /\ UNCHANGED <<options, old, moves, snapshots, sender, new>>

pallet(k) == k[1]

query_vks ==
  /\ pc["vks"] = "vks"
  /\ vkeys' = {k \in old.vks : pallet(k) = Pallets[reading]}
  /\ pc' = [pc EXCEPT !["vks"] = "tickets"]
  /\ UNCHANGED <<options, ovars, reading, vks, balances, sender, new>>

getVkStats(k) == IF options.gql THEN [lastUsed |-> LastUsed[k[2]]] ELSE None

(* Faulty variant: of several owners only one is written. *)
first_owner(tickets) ==
  [k \in vkeys |-> LET all == {o \in Owners : <<o, k>> \in tickets}
                   IN  [owners |-> IF all = {} THEN {} ELSE {CHOOSE o \in all : TRUE},
                        stat |-> getVkStats(k)]]

vks_of_pallet(tickets) ==
  [k \in vkeys |-> [owners |-> {o \in Owners : <<o, k>> \in tickets},
                    stat |-> getVkStats(k)]]

query_tickets ==
  LET tickets == {t \in old.tickets : pallet(t[2]) = Pallets[reading]}
      read == vks_of_pallet(tickets)
  IN  /\ pc["vks"] = "tickets"
      /\ IF \E t \in tickets : t[2] \notin vkeys
         THEN /\ pc' = [pc EXCEPT !["vks"] = "crashed"]
              /\ UNCHANGED <<reading, vks>>
         ELSE /\ vks' = [k \in DOMAIN vks \cup vkeys |->
                           IF k \in vkeys THEN read[k] ELSE vks[k]]
              /\ IF reading < Len(Pallets)
                 THEN reading' = reading + 1 /\ pc' = [pc EXCEPT !["vks"] = "vks"]
                 ELSE reading' = reading /\ pc' = [pc EXCEPT !["vks"] = "file"]
      /\ UNCHANGED <<options, ovars, vkeys, balances, sender, new>>

(* takeSnapshot of snapshot-balances.js: one query, sorted; the comparison *)
(* leaves the order of equal balances open.                                *)
total(a) == OldBalances[a].free + OldBalances[a].reserved

sortedBalances ==
  {b \in SetToSeqs({[account |-> a, total |-> total(a)] : a \in DOMAIN OldBalances}) :
     \A i, j \in DOMAIN b : i < j => b[i].total <= b[j].total}

takeSnapshot ==
  /\ pc["balances"] = "start"
  /\ pc' = [pc EXCEPT !["balances"] = "file"]
  /\ balances' \in sortedBalances
  /\ UNCHANGED <<options, ovars, reading, vkeys, vks, sender, new>>
-----------------------------------------------------------------------------
(***************************************************************************)
(* What restore makes of the files.                                        *)
(***************************************************************************)
skipped(k) ==
  /\ options.used_after # None
  /\ vks[k].stat.lastUsed = None \/ vks[k].stat.lastUsed < options.used_after

owners(k) == IF options.replace = None THEN vks[k].owners ELSE {options.replace}

registrations == {t \in (Owners \cup {options.replace}) \X DOMAIN vks :
                    ~ skipped(t[2]) /\ t[1] \in owners(t[2])}

(* Faulty variant: module accounts are not told apart. *)
filter_block_list(b) == b.total < ExistentialDeposit \/ b.account \in BlockList

(* The code compares the minimum, a Number, with the total as a string, in *)
(* floating point; here the comparison is exact.                           *)
filterBalance(b) ==
  \/ b.total < ExistentialDeposit
  \/ b.account \in BlockList
  \/ b.account \in ModuleAccounts

capped(balance) ==
  IF options.cap > 0 /\ balance > options.cap THEN options.cap ELSE balance

keep(kept, b) ==
  IF filterBalance(b) THEN kept
  ELSE Append(kept, [account |-> b.account, total |-> capped(b.total)])

newBalances == FoldLeft(keep, <<>>, balances)

sum_of(transfers) == SumFunction([i \in DOMAIN transfers |-> transfers[i].total])

totalAmount == sum_of(newBalances)

begin(s, calls) ==
  /\ pc' = [pc EXCEPT ![s] = "send"]
  /\ list' = [list EXCEPT ![s] = calls]
  /\ nonce' = [nonce EXCEPT ![s] = new_nonce[executor(s)]]
  /\ UNCHANGED log

(* Without statistics in the file, the first key ends the script. *)
restore ==
  /\ pc["vks"] = "file"
  /\ IF options.used_after # None /\ ~ options.gql /\ vks # Empty
     THEN pc' = [pc EXCEPT !["vks"] = "crashed"] /\ UNCHANGED sender
     ELSE begin("vks", SetToSeq(registrations))
  /\ UNCHANGED <<options, ovars, snapshots, new>>

(* Faulty variant: the funds are compared with the largest transfer. *)
covers_largest == newBalances = <<>> \/ custody >= Last(newBalances).total

sufficient == custody >= totalAmount

restoreBalances ==
  /\ pc["balances"] = "file"
  /\ IF sufficient THEN begin("balances", newBalances)
     ELSE pc' = [pc EXCEPT !["balances"] = "done"] /\ UNCHANGED sender
  /\ UNCHANGED <<options, ovars, snapshots, new>>
-----------------------------------------------------------------------------
(***************************************************************************)
(* The loop of both scripts: await signAndSend(executor, {nonce}).         *)
(***************************************************************************)
sending(s) == pc[s] = "send" /\ Len(log[s]) < Len(list[s])

call(s) == Len(log[s]) + 1

extrinsic(s, lost) ==
  [from |-> executor(s), nonce |-> nonce[s], script |-> s, call |-> call(s), lost |-> lost]

(* External: the node refuses a nonce that was used, in a block or in the  *)
(* pool, and whatever it has no room for.  One that replaces an extrinsic  *)
(* of the pool by its higher priority is a drop followed by a new one.     *)
acceptable(s) ==
  /\ nonce[s] >= new_nonce[executor(s)]
  /\ \A x \in pool : x.from = executor(s) => x.nonce # nonce[s]

fault(kind) == Len(faults) < MaxFaults /\ faults' = Append(faults, kind)

(* Faulty variant: the nonce is not counted. *)
sent_uncounted(s) ==
  /\ log' = [log EXCEPT ![s] = Append(@, "sent")]
  /\ UNCHANGED <<list, nonce>>

sent(s) ==
  /\ log' = [log EXCEPT ![s] = Append(@, "sent")]
  /\ nonce' = [nonce EXCEPT ![s] = @ + 1]
  /\ UNCHANGED list

(* Faulty variants: a failure takes a nonce; the call is tried again with  *)
(* the next free one.                                                      *)
failed_counted(s) ==
  /\ log' = [log EXCEPT ![s] = Append(@, "failed")]
  /\ nonce' = [nonce EXCEPT ![s] = @ + 1]
  /\ UNCHANGED list

failed_again(s) ==
  /\ nonce' = [nonce EXCEPT ![s] = new_nonce[executor(s)] +
                                   Cardinality({x \in pool' : x.from = executor(s)})]
  /\ UNCHANGED <<list, log>>

failed(s) ==
  /\ log' = [log EXCEPT ![s] = Append(@, "failed")]
  /\ UNCHANGED <<list, nonce>>

signAndSend(s) ==
  /\ sending(s)
  /\ \/ acceptable(s) /\ pool' = pool \cup {extrinsic(s, FALSE)} /\ sent(s) /\ UNCHANGED faults
     \/ ~ acceptable(s) /\ UNCHANGED <<pool, faults>> /\ failed(s)
     \/ acceptable(s) /\ fault("refused") /\ UNCHANGED pool /\ failed(s)
     \/ /\ acceptable(s) /\ fault("answer lost")
        /\ pool' = pool \cup {extrinsic(s, TRUE)} /\ failed(s)
  /\ UNCHANGED <<options, ovars, pc, snapshots, new_nonce, chain, custody, registered>>

(* process.exit: what is in the pool stays there. *)
exit(s) ==
  /\ pc[s] = "send" /\ ~ sending(s)
  /\ pc' = [pc EXCEPT ![s] = "done"]
  /\ UNCHANGED <<options, ovars, snapshots, sender, new>>
-----------------------------------------------------------------------------
(***************************************************************************)
(* External: a block of the new chain takes an extrinsic in the order of   *)
(* the nonces.  The call inside may fail.                                  *)
(***************************************************************************)
fee(x) == IF x.from = Custody THEN Fee ELSE 0

succeeds(x) ==
  LET c == list[x.script][x.call]
  IN  IF x.script = "vks" THEN c[1] \notin Poor /\ c \notin registered
      ELSE c.total <= custody - fee(x) /\ c.total >= ExistentialDeposit

include(x) ==
  /\ x.nonce = new_nonce[x.from]
  /\ fee(x) <= custody
  /\ pool' = pool \ {x}
  /\ new_nonce' = [new_nonce EXCEPT ![x.from] = @ + 1]
  /\ chain' = Append(chain, [script |-> x.script, call |-> x.call, lost |-> x.lost,
                             ok |-> succeeds(x)])
  /\ IF x.script = "vks"
     THEN /\ registered' = registered \cup IF succeeds(x) THEN {list["vks"][x.call]} ELSE {}
          /\ UNCHANGED custody
     ELSE /\ custody' = custody - fee(x) -
                        IF succeeds(x) THEN list["balances"][x.call].total ELSE 0
          /\ UNCHANGED registered
  /\ UNCHANGED <<options, ovars, pc, snapshots, sender, faults>>

(* The pool forgets an extrinsic, or the account cannot pay for it. *)
drop(x) ==
  /\ pool' = pool \ {x}
  /\ IF x.nonce = new_nonce[x.from] /\ fee(x) > custody
     THEN faults' = Append(faults, "dropped") ELSE fault("dropped")
  /\ UNCHANGED <<options, ovars, pc, snapshots, sender, new_nonce, chain, custody, registered>>

Next ==
  \/ \E o \in Owners, k \in Keys : register_vk(o, k) \/ unregister_vk(o, k)
  \/ snapshot_start \/ query_vks \/ query_tickets \/ takeSnapshot
  \/ restore \/ restoreBalances
  \/ \E s \in Scripts : signAndSend(s) \/ exit(s)
  \/ \E x \in pool : include(x) \/ drop(x)

Spec == Init /\ [][Next]_vars

(* Scripts run on, and blocks are made while the pool has extrinsics.      *)
FairSpec ==
  /\ Spec
  /\ \A s \in Scripts : WF_vars(signAndSend(s)) /\ WF_vars(exit(s))
  /\ WF_vars(\E x \in pool : include(x))
-----------------------------------------------------------------------------
(***************************************************************************)
(* Properties.                                                             *)
(***************************************************************************)

(***************************************************************************)
(* The two queries of takeSnapshot see different states of the chain; a    *)
(* file that is written is nevertheless complete: a registration that was  *)
(* there all the time is in it, and none is in it that never was.          *)
(***************************************************************************)
SnapshotComplete ==
  pc["vks"] \in {"file", "send", "done"} =>
    /\ \A t \in witnessed.since : t[2] \in DOMAIN vks /\ t[1] \in vks[t[2]].owners
    /\ \A k \in DOMAIN vks : \A o \in vks[k].owners : <<o, k>> \in witnessed.ever

Happened(kind) == \E i \in DOMAIN faults : faults[i] = kind

(***************************************************************************)
(* The nonces a script uses leave no gap, also after failures and with the *)
(* other script signing for the same account: an extrinsic in the pool is  *)
(* never held up by one that nobody sends.                                 *)
(***************************************************************************)
NoNonceGap ==
  ~ Happened("dropped") =>
    \A x \in pool : \A n \in new_nonce[x.from] .. x.nonce :
      \E y \in pool : y.from = x.from /\ y.nonce = n

(***************************************************************************)
(* Every call reaches the chain at most once, in the order of the file,    *)
(* whatever fails; and one reported as failed reaches it only when the     *)
(* answer of the node was lost.                                            *)
(***************************************************************************)
EachCallOnce ==
  /\ \A i, j \in DOMAIN chain :
       i < j /\ chain[i].script = chain[j].script => chain[i].call < chain[j].call
  /\ \A i \in DOMAIN chain :
       LET x == chain[i]
       IN  x.call \in DOMAIN log[x.script] /\ (log[x.script][x.call] = "failed" <=> x.lost)

(***************************************************************************)
(* Nobody is given more than its capped balance on the old chain, module   *)
(* accounts and those on the block list nothing, and a key is registered   *)
(* only for who had registered it, or for the account given with -r.       *)
(***************************************************************************)
Paid(a) ==
  SumFunction([i \in DOMAIN chain |->
    IF /\ chain[i].script = "balances" /\ chain[i].ok
       /\ list["balances"][chain[i].call].account = a
    THEN list["balances"][chain[i].call].total ELSE 0])

RestoredAsTaken ==
  /\ \A a \in DOMAIN OldBalances :
       /\ Paid(a) <= total(a)
       /\ options.cap > 0 => Paid(a) <= options.cap
       /\ a \in BlockList \cup ModuleAccounts => Paid(a) = 0
  /\ \A t \in registered :
       IF options.replace = None THEN t \in witnessed.ever ELSE t[1] = options.replace

(***************************************************************************)
(* What the check of the custody account is worth: once it has passed, no  *)
(* transfer fails for lack of funds, unless the account also pays the fees *)
(* and has no more than the total, or the cap is below the minimum.        *)
(***************************************************************************)
CustodyCovers ==
  \A i \in DOMAIN chain :
    chain[i].script = "balances" /\ ~ chain[i].ok =>
      \/ list["balances"][chain[i].call].total < ExistentialDeposit
      \/ /\ options.executor = Custody
         /\ CustodyFunds < sum_of(list["balances"]) + Fee * Len(list["balances"])

(***************************************************************************)
(* A restore that has begun is executed to its last call, unless something *)
(* fails or the scripts sign for the same account.                         *)
(***************************************************************************)
Disturbed ==
  \/ faults # <<>>
  \/ executor("vks") = executor("balances") /\ \A r \in Scripts : list[r] # <<>>

Executed(s) == {chain[i].call : i \in {j \in DOMAIN chain : chain[j].script = s}}

RestoreCompletes ==
  \A s \in Scripts :
    pc[s] = "send" ~> (pc[s] = "done" /\ Executed(s) = DOMAIN list[s]) \/ Disturbed
=============================================================================
