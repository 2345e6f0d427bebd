----------------------------- MODULE TxLifecycle ----------------------------
(***************************************************************************)
(* _handleTransactionLifecycle of the end-to-end tests                     *)
(* (src/zombienet-tests/zkv-lib/index.js): send an extrinsic, follow the   *)
(* statuses the node reports, send it again when the node gave it up, and  *)
(* tell the caller what became of it.                                      *)
(*                                                                         *)
(* The node is external: every extrinsic that was handed over lives on in  *)
(* the pool and on the chain, whether the handler still watches it or not. *)
(* A block can be retracted until it is final, and the extrinsic then may  *)
(* end differently in another block.                                       *)
(***************************************************************************)
EXTENDS Naturals, Sequences, FiniteSets

CONSTANTS
  Retries,     \* max_retries: 5 in the code
  MaxReorgs,   \* bound: blocks retracted
  MaxForeign   \* bound: extrinsics of others in the pool

ASSUME LifecycleAssumption ==
  Retries \in Nat \ {0} /\ MaxReorgs \in Nat /\ MaxForeign \in Nat

VARIABLES
  blockUntil,   \* the caller's choice: "InBlock" or "Finalized"
  pc,           \* "send", "watch", "mempool" (waiting for it to empty), "returned"
  max_retries,
  hasBeenReady,
  transactionSuccessEvent,
  retVal,       \* "-1", "undefined" or "success"
  txs,          \* external: the extrinsics handed over, with their status, the
                \* result in the present block, the results in blocks that
                \* were retracted, and whether the answer to the handler was lost
  reorgs,       \* external: blocks retracted so far
  foreign       \* external: extrinsics of others waiting in the pool

handler == <<blockUntil, pc, max_retries, hasBeenReady, transactionSuccessEvent, retVal>>

vars == <<handler, txs, reorgs, foreign>>

Pooled == {"Future", "Ready", "Retracted"}

OnChain == {"InBlock", "Finalized"}

(* Statuses no branch of the handler looks at: it goes on waiting. *)
Ignored == {"Dropped", "Usurped", "FinalityTimeout"}

Statuses == Pooled \cup OnChain \cup Ignored \cup {"Invalid", "Error"}

watched == txs[Len(txs)]

(* What author.pendingExtrinsics counts. *)
pending == foreign + Cardinality({i \in DOMAIN txs : txs[i].status \in Pooled})

Init ==
  /\ blockUntil \in {"InBlock", "Finalized"}
  /\ pc = "send"
  /\ max_retries = Retries
  /\ hasBeenReady = FALSE
  /\ transactionSuccessEvent = FALSE
  /\ retVal = "-1"
  /\ txs = <<>>
  /\ reorgs = 0
  /\ foreign \in 0 .. MaxForeign

return(value) == pc' = "returned" /\ retVal' = value

(* reject("retry"): the handler yields undefined, and the loop ends with   *)
(* that value when no retry is left.                                       *)
retry ==
  /\ max_retries' = max_retries - 1
  /\ pc' = "mempool"
  /\ retVal' = "undefined"

(* The promise settles: done, with or without ExtrinsicSuccess seen. *)
settle(seen) == return(IF seen THEN "success" ELSE "-1")
-----------------------------------------------------------------------------
(***************************************************************************)
(* submitExtrinsic, submitExtrinsicUnsigned: one call of sendFunction.     *)
(***************************************************************************)
accepted(answer) ==
  txs' = Append(txs, [status |-> "Future", result |-> "none", orphans |-> {}, lost |-> ~answer])

send ==
  /\ pc = "send"
  /\ \/ accepted(TRUE) /\ pc' = "watch" /\ UNCHANGED <<max_retries, retVal>>
     \/ retry /\ UNCHANGED txs                  \* error 1014: priority too low
     \/ return("-1") /\ UNCHANGED <<max_retries, txs>>          \* refused
     \/ return("-1") /\ accepted(FALSE) /\ UNCHANGED max_retries  \* answer lost
  /\ UNCHANGED <<blockUntil, hasBeenReady, transactionSuccessEvent, reorgs, foreign>>

(* waitForEmptyMempool, polled once a block; then the head of the loop. *)
waitForEmptyMempool ==
  /\ pc = "mempool"
  /\ pending = 0
  /\ pc' = IF max_retries > 0 THEN "send" ELSE "returned"
  /\ UNCHANGED <<blockUntil, max_retries, hasBeenReady, transactionSuccessEvent, retVal,
                 txs, reorgs, foreign>>

(***************************************************************************)
(* The callback, run with the status s and the result of the block.        *)
(***************************************************************************)
isReady ==
  /\ hasBeenReady' = TRUE
  /\ UNCHANGED <<pc, retVal, max_retries, transactionSuccessEvent>>

(* Faulty variant: being in a block counts as success. *)
inclusion_is_success(result) ==
  /\ transactionSuccessEvent' = TRUE
  /\ IF blockUntil = "InBlock" THEN settle(TRUE) ELSE UNCHANGED <<pc, retVal>>
  /\ UNCHANGED <<max_retries, hasBeenReady>>

isInBlock(result) ==
  /\ transactionSuccessEvent' = (transactionSuccessEvent \/ result = "ok")
  /\ IF blockUntil = "InBlock" THEN settle(transactionSuccessEvent')
                               ELSE UNCHANGED <<pc, retVal>>
  /\ UNCHANGED <<max_retries, hasBeenReady>>

isFinalized ==
  /\ IF blockUntil = "Finalized" THEN settle(transactionSuccessEvent)
                                 ELSE UNCHANGED <<pc, retVal>>
  /\ UNCHANGED <<max_retries, hasBeenReady, transactionSuccessEvent>>

(* Faulty variant: an extrinsic that turned invalid is waited for. *)
wait_for_invalid == UNCHANGED <<pc, retVal, max_retries, hasBeenReady, transactionSuccessEvent>>

isInvalid ==
  /\ IF hasBeenReady THEN retry
     ELSE settle(transactionSuccessEvent) /\ UNCHANGED max_retries
  /\ UNCHANGED <<hasBeenReady, transactionSuccessEvent>>

isError ==
  /\ settle(transactionSuccessEvent)
  /\ UNCHANGED <<max_retries, hasBeenReady, transactionSuccessEvent>>

(* Faulty variants: a retracted extrinsic is sent again, or given up. *)
resend_retracted(s) ==
  /\ IF s = "Retracted" THEN retry ELSE UNCHANGED <<pc, retVal, max_retries>>
  /\ UNCHANGED <<hasBeenReady, transactionSuccessEvent>>

fail_retracted(s) ==
  /\ IF s = "Retracted" THEN return("-1") ELSE UNCHANGED <<pc, retVal>>
  /\ UNCHANGED <<max_retries, hasBeenReady, transactionSuccessEvent>>

(* No branch of the code is about these. *)
otherStatus(s) == UNCHANGED <<pc, retVal, max_retries, hasBeenReady, transactionSuccessEvent>>

callback(s, result) ==
  \/ s = "Ready" /\ isReady
  \/ s = "InBlock" /\ isInBlock(result)
  \/ s = "Finalized" /\ isFinalized
  \/ s = "Invalid" /\ isInvalid
  \/ s = "Error" /\ isError
  \/ s \in Ignored \cup {"Future", "Retracted"} /\ otherStatus(s)
-----------------------------------------------------------------------------
(***************************************************************************)
(* External: the node moves an extrinsic on; the handler hears of the one  *)
(* it watches.                                                             *)
(***************************************************************************)
Moves(s) ==
  CASE s = "Future"    -> {"Ready", "Invalid", "Dropped", "Error"}
    [] s = "Ready"     -> {"InBlock", "Invalid", "Dropped", "Usurped", "Error"}
    [] s = "InBlock"   -> {"Retracted", "Finalized", "FinalityTimeout"}
    [] s = "Retracted" -> {"InBlock", "Invalid", "Dropped"}
    [] OTHER           -> {}

node(i, s, result) ==
  /\ i \in DOMAIN txs
  /\ s \in Moves(txs[i].status)
  /\ result \in (IF s = "InBlock" THEN {"ok", "failed"}
                 ELSE IF s \in {"Finalized", "FinalityTimeout"} THEN {txs[i].result}
                 ELSE {"none"})
  /\ s = "Retracted" => reorgs < MaxReorgs
  /\ reorgs' = reorgs + (IF s = "Retracted" THEN 1 ELSE 0)
  /\ txs' = [txs EXCEPT ![i].status = s, ![i].result = result,
                        ![i].orphans = IF s = "Retracted" THEN @ \cup {txs[i].result} ELSE @]
  /\ IF pc = "watch" /\ i = Len(txs)
     THEN callback(s, result) /\ UNCHANGED blockUntil
     ELSE UNCHANGED handler
  /\ UNCHANGED foreign

(* External: the extrinsics of others leave the pool, and none follow. *)
foreign_leaves ==
  /\ foreign > 0
  /\ foreign' = foreign - 1
  /\ UNCHANGED <<handler, txs, reorgs>>

Next ==
  \/ send
  \/ waitForEmptyMempool
  \/ \E i \in DOMAIN txs, s \in Statuses, result \in {"ok", "failed", "none"} :
       node(i, s, result)
  \/ foreign_leaves

Spec == Init /\ [][Next]_vars

(***************************************************************************)
(* The script runs on its own; the node eventually decides about every     *)
(* extrinsic in its pool and finalizes its blocks.                         *)
(***************************************************************************)
FairSpec ==
  /\ Spec
  /\ WF_vars(send) /\ WF_vars(waitForEmptyMempool) /\ WF_vars(foreign_leaves)
  /\ WF_vars(\E i \in DOMAIN txs, s \in Statuses, result \in {"ok", "failed", "none"} :
               node(i, s, result))
-----------------------------------------------------------------------------
(***************************************************************************)
(* Properties.                                                             *)
(***************************************************************************)
TypeOK ==
  /\ blockUntil \in {"InBlock", "Finalized"}
  /\ pc \in {"send", "watch", "mempool", "returned"}
  /\ max_retries \in 0 .. Retries
  /\ hasBeenReady \in BOOLEAN /\ transactionSuccessEvent \in BOOLEAN
  /\ retVal \in {"-1", "undefined", "success"}
  /\ txs \in Seq([status : Statuses, result : {"ok", "failed", "none"},
                  orphans : SUBSET {"ok", "failed"}, lost : BOOLEAN])
  /\ Len(txs) <= Retries
  /\ reorgs \in 0 .. MaxReorgs /\ foreign \in 0 .. MaxForeign
  /\ pc = "watch" => txs # <<>>

(***************************************************************************)
(* Retrying never executes a call twice: at most one of the extrinsics     *)
(* handed over is on the chain, in every fork, also after the handler has  *)
(* returned, so a test that registers a domain or submits a proof does so  *)
(* once.                                                                   *)
(***************************************************************************)
ExecutedAtMostOnce == Cardinality({i \in DOMAIN txs : txs[i].status \in OnChain}) <= 1

(***************************************************************************)
(* A success that is reported is a success on the chain, unless a block    *)
(* with that success was retracted: transactionSuccessEvent is never       *)
(* reset, neither by a retraction nor for a new attempt.                   *)
(***************************************************************************)
SuccessIsReal ==
  pc = "returned" /\ retVal = "success" =>
    watched.result = "ok" \/ \E i \in DOMAIN txs : "ok" \in txs[i].orphans

(***************************************************************************)
(* A call that is reported as failed or given up never takes effect later, *)
(* except when the answer of the node was lost, or when the caller did not *)
(* wait for finality and the block in which it failed was retracted.       *)
(***************************************************************************)
FailureIsReal ==
  pc = "returned" /\ retVal # "success" =>
    \A i \in DOMAIN txs :
      txs[i].result = "ok" =>
        txs[i].lost \/ (blockUntil = "InBlock" /\ "failed" \in txs[i].orphans)

(***************************************************************************)
(* The caller gets an answer, unless the last thing the node said about    *)
(* the extrinsic is a status that the callback ignores.  Others send no    *)
(* new extrinsics meanwhile: with these the pool may never be seen empty,  *)
(* and waitForEmptyMempool goes on for ever.                               *)
(***************************************************************************)
Stuck == pc = "watch" /\ watched.status \in Ignored

Returns == <>(pc = "returned" \/ Stuck)
=============================================================================
