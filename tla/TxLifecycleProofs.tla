-------------------------- MODULE TxLifecycleProofs -------------------------
(***************************************************************************)
(* Proofs about TxLifecycle: for every number of retries and of retracted  *)
(* blocks, no call is executed twice, and what _handleTransactionLifecycle *)
(* reports is what happened, up to the exceptions the properties name.     *)
(***************************************************************************)
EXTENDS TxLifecycle, FiniteSetTheorems, TLAPS

Tx == [status : Statuses, result : {"ok", "failed", "none"},
       orphans : SUBSET {"ok", "failed"}, lost : BOOLEAN]

InABlock == {"InBlock", "Finalized", "FinalityTimeout"}

(***************************************************************************)
(* The inductive invariant. Every attempt is paid for by a retry, the last *)
(* one excepted.                                                           *)
(***************************************************************************)
Budget ==
  /\ pc \in {"send", "mempool"} => Len(txs) + max_retries <= Retries
  /\ pc = "watch" => Len(txs) + max_retries <= Retries + 1
  /\ pc \in {"send", "watch"} => max_retries > 0

(* A new attempt is made only when all before it are invalid for good. *)
GivenUp ==
  \A i \in DOMAIN txs : i < Len(txs) \/ pc \in {"send", "mempool"} => txs[i].status = "Invalid"

(* An extrinsic has a result exactly while it is in a block. *)
ResultsInBlocks == \A i \in DOMAIN txs : txs[i].result # "none" <=> txs[i].status \in InABlock

(* What transactionSuccessEvent and the returned value say of the chain. *)
SuccessSeen ==
  /\ transactionSuccessEvent =>
       \/ txs # <<>> /\ watched.result = "ok"
       \/ \E i \in DOMAIN txs : "ok" \in txs[i].orphans
  /\ retVal = "success" => pc = "returned" /\ transactionSuccessEvent

Harmless(tx) ==
  \/ tx.lost
  \/ tx.status \in {"Invalid", "Error"}
  \/ blockUntil = "InBlock" /\ (tx.result = "failed" \/ "failed" \in tx.orphans)
  \/ tx.status = "Finalized" /\ tx.result # "ok"

FailureSeen ==
  /\ pc = "watch" /\ ~transactionSuccessEvent => watched.result # "ok"
  /\ pc = "returned" /\ retVal # "success" /\ txs # <<>> => Harmless(watched)

Inv == TypeOK /\ Budget /\ GivenUp /\ ResultsInBlocks /\ SuccessSeen /\ FailureSeen
-----------------------------------------------------------------------------
(* What the node does to an extrinsic it moves on. *)
LEMMA NodeMoves ==
  ASSUME TypeOK, NEW i, NEW s, NEW result, i \in DOMAIN txs, s \in Statuses,
         result \in {"ok", "failed", "none"}, node(i, s, result), ResultsInBlocks
  PROVE  /\ txs' \in Seq(Tx) /\ Len(txs') = Len(txs) /\ DOMAIN txs' = DOMAIN txs
         /\ \A j \in DOMAIN txs : j # i => txs'[j] = txs[j]
         /\ txs'[i].status = s /\ txs'[i].result = result /\ txs'[i].lost = txs[i].lost
         /\ txs'[i].orphans = (IF s = "Retracted" THEN txs[i].orphans \cup {txs[i].result}
                               ELSE txs[i].orphans)
         /\ txs[i].status \in {"Future", "Ready", "InBlock", "Retracted"}
         /\ s = "Retracted" => txs[i].status = "InBlock"
         /\ s = "InBlock" => result \in {"ok", "failed"}
         /\ s \in {"Finalized", "FinalityTimeout"} =>
              txs[i].status = "InBlock" /\ result = txs[i].result
         /\ s \notin InABlock => result = "none"
         /\ txs[i].status = "InBlock" => s \in {"Retracted", "Finalized", "FinalityTimeout"}
<1> DEFINE o == IF s = "Retracted" THEN txs[i].orphans \cup {txs[i].result} ELSE txs[i].orphans
           tx == [txs[i] EXCEPT !.status = s, !.result = result, !.orphans = o]
<1>1. s \in Moves(txs[i].status) BY DEF node
<1>2. /\ txs[i].status \in {"Future", "Ready", "InBlock", "Retracted"}
      /\ s = "Retracted" => txs[i].status = "InBlock"
      /\ s \in {"Finalized", "FinalityTimeout"} => txs[i].status = "InBlock"
      /\ txs[i].status = "InBlock" => s \in {"Retracted", "Finalized", "FinalityTimeout"}
  BY <1>1 DEF Moves
<1>3. /\ s = "InBlock" => result \in {"ok", "failed"}
      /\ s \in {"Finalized", "FinalityTimeout"} => result = txs[i].result
      /\ s \notin InABlock => result = "none"
  BY DEF node, InABlock
<1>4. txs \in Seq(Tx) /\ txs[i] \in Tx
  <2>1. txs \in Seq(Tx) BY Zenon DEF TypeOK, Tx
  <2> QED BY <2>1
<1>5. o \in SUBSET {"ok", "failed"}
  BY <1>2, <1>4 DEF Tx, ResultsInBlocks, InABlock
<1>6. /\ tx \in Tx
      /\ tx.status = s /\ tx.result = result /\ tx.orphans = o /\ tx.lost = txs[i].lost
  BY <1>4, <1>5 DEF Tx
<1>7. txs' = [txs EXCEPT ![i] = tx]
  BY <1>4 DEF node, Tx
<1> HIDE DEF o, tx
<1>8. /\ txs' \in Seq(Tx) /\ Len(txs') = Len(txs) /\ DOMAIN txs' = DOMAIN txs
      /\ \A j \in DOMAIN txs : j # i => txs'[j] = txs[j]
      /\ txs'[i] = tx
  BY <1>4, <1>6, <1>7
<1> QED BY <1>2, <1>3, <1>6, <1>8 DEF o

(* Only the extrinsic sent last can move: the others are invalid. *)
LEMMA OnlyLastMoves ==
  ASSUME Inv, NEW i, NEW s, NEW result, i \in DOMAIN txs, s \in Statuses,
         result \in {"ok", "failed", "none"}, node(i, s, result)
  PROVE  i = Len(txs) /\ i \in Nat /\ i > 0 /\ pc \in {"watch", "returned"}
<1>1. txs[i].status # "Invalid" BY NodeMoves DEF Inv
<1>2. i \in 1 .. Len(txs) /\ Len(txs) \in Nat BY DEF Inv, TypeOK
<1> QED BY <1>1, <1>2 DEF Inv, GivenUp, TypeOK

(* The callback settles, retries or goes on; it counts a success only if  *)
(* it is in the block it was called for.                                   *)
LEMMA CallbackSteps ==
  ASSUME TypeOK, Budget, pc = "watch", retVal # "success",
         NEW s \in Statuses, NEW result, callback(s, result)
  PROVE  /\ pc' \in {"watch", "mempool", "returned"}
         /\ max_retries' = (IF pc' = "mempool" THEN max_retries - 1 ELSE max_retries)
         /\ hasBeenReady' \in BOOLEAN /\ retVal' \in {"-1", "undefined", "success"}
         /\ transactionSuccessEvent' =
              (transactionSuccessEvent \/ (s = "InBlock" /\ result = "ok"))
         /\ pc' = "mempool" => s = "Invalid"
         /\ retVal' = "success" => pc' = "returned" /\ transactionSuccessEvent'
         /\ pc' = "returned" /\ retVal' # "success" =>
              /\ ~transactionSuccessEvent'
              /\ \/ s \in {"Invalid", "Error"}
                 \/ s = "InBlock" /\ blockUntil = "InBlock"
                 \/ s = "Finalized"
<1> USE DEF TypeOK, return, settle, retry
<1>1. CASE s = "Ready" /\ isReady BY <1>1 DEF isReady
<1>2. CASE s = "InBlock" /\ isInBlock(result) BY <1>2 DEF isInBlock
<1>3. CASE s = "Finalized" /\ isFinalized BY <1>3 DEF isFinalized
<1>4. CASE s = "Invalid" /\ isInvalid BY <1>4 DEF isInvalid
<1>5. CASE s = "Error" /\ isError BY <1>5 DEF isError
<1>6. CASE s \in Ignored \cup {"Future", "Retracted"} /\ otherStatus(s)
  BY <1>6 DEF otherStatus, Ignored
<1> QED BY <1>1, <1>2, <1>3, <1>4, <1>5, <1>6 DEF callback
-----------------------------------------------------------------------------
LEMMA InitInv ==
  ASSUME Init
  PROVE  Inv
<1> USE LifecycleAssumption DEF Init
<1>1. TypeOK
  <2>1. \A T : <<>> \in Seq(T) OBVIOUS
  <2>2. Len(txs) = 0 OBVIOUS
  <2>3. txs \in Seq([status : Statuses, result : {"ok", "failed", "none"},
                     orphans : SUBSET {"ok", "failed"}, lost : BOOLEAN])
    BY <2>1, Zenon
  <2>4. max_retries \in 0 .. Retries /\ reorgs \in 0 .. MaxReorgs /\ Len(txs) <= Retries
    BY <2>2
  <2> QED BY <2>3, <2>4, Zenon DEF TypeOK
<1>2. Budget BY DEF Budget
<1>3. GivenUp /\ ResultsInBlocks BY DEF GivenUp, ResultsInBlocks
<1>4. SuccessSeen /\ FailureSeen BY DEF SuccessSeen, FailureSeen
<1> QED BY <1>1, <1>2, <1>3, <1>4 DEF Inv

(* A refusal, a lost answer, or an extrinsic to watch. *)
LEMMA SendInv ==
  ASSUME Inv, send
  PROVE  Inv'
<1> DEFINE new(answer) == [status |-> "Future", result |-> "none", orphans |-> {}, lost |-> ~answer]
<1>0. /\ pc = "send" /\ retVal # "success" /\ Len(txs) \in Nat /\ txs \in Seq(Tx)
      /\ Len(txs) + max_retries <= Retries /\ max_retries \in Nat /\ max_retries > 0
      /\ Retries \in Nat /\ DOMAIN txs = 1 .. Len(txs)
  <2>1. txs \in Seq(Tx) BY Zenon DEF Inv, TypeOK, Tx
  <2> QED BY <2>1, LifecycleAssumption DEF Inv, TypeOK, Budget, SuccessSeen, send
<1>1. CASE \E answer \in BOOLEAN : txs' = Append(txs, new(answer))
  <2>1. PICK answer \in BOOLEAN : txs' = Append(txs, new(answer)) BY <1>1
  <2>2. new(answer) \in Tx /\ new(answer).result = "none" /\ new(answer).status = "Future"
        /\ new(answer).orphans = {} /\ new(answer).lost = ~answer
    BY DEF Tx, Statuses, Pooled
  <2> HIDE DEF new
  <2>3. /\ txs' \in Seq(Tx) /\ Len(txs') = Len(txs) + 1 /\ DOMAIN txs' = 1 .. Len(txs) + 1
        /\ \A i \in 1 .. Len(txs) : txs'[i] = txs[i]
        /\ txs'[Len(txs) + 1] = new(answer)
        /\ txs' # <<>>
    BY <1>0, <2>1, <2>2
  <2>4. \/ pc' = "watch" /\ UNCHANGED <<max_retries, retVal>>
        \/ pc' = "returned" /\ retVal' = "-1" /\ UNCHANGED max_retries /\ ~answer
    <3>1. txs' # txs BY <1>0, <2>3
    <3>2. accepted(TRUE) => answer = TRUE
      BY <1>0, <2>1, <2>3 DEF accepted, new
    <3>3. accepted(FALSE) => answer = FALSE
      BY <1>0, <2>1, <2>3 DEF accepted, new
    <3> QED BY <3>1, <3>3 DEF send, return
  <2>5. UNCHANGED <<blockUntil, hasBeenReady, transactionSuccessEvent, reorgs, foreign>>
    BY DEF send
  <2>6. TypeOK'
    <3>1. txs' \in Seq([status : Statuses, result : {"ok", "failed", "none"},
                        orphans : SUBSET {"ok", "failed"}, lost : BOOLEAN])
      BY <2>3, Zenon DEF Tx
    <3>2. Len(txs') <= Retries BY <1>0, <2>3
    <3> QED BY <1>0, <2>3, <2>4, <2>5, <3>1, <3>2 DEF Inv, TypeOK
  <2>7. Budget' BY <1>0, <2>3, <2>4 DEF Budget
  <2>8. \A i \in 1 .. Len(txs) : txs[i].status = "Invalid" /\ txs[i].result = "none"
    BY <1>0 DEF Inv, GivenUp, ResultsInBlocks, InABlock
  <2>9. GivenUp' BY <1>0, <2>3, <2>4, <2>8 DEF GivenUp
  <2>10. ResultsInBlocks' BY <1>0, <2>2, <2>3, <2>8 DEF ResultsInBlocks, InABlock
  <2>11. SuccessSeen'
    <3>1. transactionSuccessEvent => \E i \in DOMAIN txs : "ok" \in txs[i].orphans
      BY <1>0, <2>8 DEF Inv, SuccessSeen, watched
    <3> QED BY <1>0, <2>3, <2>4, <2>5, <3>1 DEF Inv, SuccessSeen
  <2>12. FailureSeen' BY <1>0, <2>2, <2>3, <2>4 DEF FailureSeen, watched, Harmless
  <2> QED BY <2>6, <2>7, <2>9, <2>10, <2>11, <2>12 DEF Inv
<1>2. CASE UNCHANGED txs
  <2>1. \/ pc' = "mempool" /\ max_retries' = max_retries - 1 /\ retVal' = "undefined"
        \/ pc' = "returned" /\ max_retries' = max_retries /\ retVal' = "-1"
    <3>1. ~accepted(TRUE) /\ ~accepted(FALSE)
      <4>1. \A e : Len(Append(txs, e)) = Len(txs) + 1 BY <1>0
      <4>2. Len(txs') = Len(txs) BY <1>2, Zenon
      <4>3. \A n \in Nat : n # n + 1 OBVIOUS
      <4> QED BY <1>0, <4>1, <4>2, <4>3, Zenon DEF accepted
    <3> QED BY <3>1 DEF send, retry, return
  <2>2. UNCHANGED <<blockUntil, hasBeenReady, transactionSuccessEvent, reorgs, foreign>>
    BY DEF send
  <2>3. TypeOK' BY <1>0, <1>2, <2>1, <2>2 DEF Inv, TypeOK
  <2>4. Budget' BY <1>0, <1>2, <2>1 DEF Budget
  <2>5. GivenUp' BY <1>0, <1>2, <2>1 DEF Inv, GivenUp
  <2>6. ResultsInBlocks' BY <1>2 DEF Inv, ResultsInBlocks
  <2>7. SuccessSeen' BY <1>2, <2>1, <2>2 DEF Inv, SuccessSeen, watched
  <2>8. FailureSeen'
    <3>1. txs # <<>> => watched.status = "Invalid" BY <1>0 DEF Inv, GivenUp, watched
    <3> QED BY <1>2, <2>1, <3>1 DEF FailureSeen, watched, Harmless
  <2> QED BY <2>3, <2>4, <2>5, <2>6, <2>7, <2>8 DEF Inv
<1> QED BY <1>1, <1>2 DEF send, accepted

(* The mempool is empty: another attempt, or none is left. *)
LEMMA MempoolInv ==
  ASSUME Inv, waitForEmptyMempool
  PROVE  Inv'
<1> USE DEF waitForEmptyMempool
<1>1. TypeOK' BY DEF Inv, TypeOK
<1>2. Budget' BY DEF Inv, TypeOK, Budget
<1>3. GivenUp' BY DEF Inv, GivenUp
<1>4. ResultsInBlocks' BY DEF Inv, ResultsInBlocks
<1>5. SuccessSeen' BY DEF Inv, SuccessSeen, watched
<1>6. FailureSeen'
  <2>1. txs # <<>> => watched.status = "Invalid" BY DEF Inv, TypeOK, GivenUp, watched
  <2> QED BY <2>1 DEF FailureSeen, watched, Harmless
<1> QED BY <1>1, <1>2, <1>3, <1>4, <1>5, <1>6 DEF Inv

(* The node moves an extrinsic on, and the handler may hear of it. *)
LEMMA NodeInv ==
  ASSUME Inv, NEW i, NEW s, NEW result, i \in DOMAIN txs, s \in Statuses,
         result \in {"ok", "failed", "none"}, node(i, s, result)
  PROVE  Inv'
<1>1. /\ i = Len(txs) /\ i \in Nat /\ i > 0 /\ pc \in {"watch", "returned"}
      /\ DOMAIN txs = 1 .. i /\ txs[i] = watched /\ txs # <<>>
  BY OnlyLastMoves DEF Inv, TypeOK, watched
<1>2. /\ txs' \in Seq(Tx) /\ Len(txs') = i /\ DOMAIN txs' = 1 .. i
      /\ \A j \in 1 .. i : j # i => txs'[j] = txs[j]
      /\ watched' = txs'[i] /\ txs' # <<>>
  <2>1. /\ txs' \in Seq(Tx) /\ Len(txs') = i /\ DOMAIN txs' = 1 .. i
        /\ \A j \in 1 .. i : j # i => txs'[j] = txs[j]
    BY <1>1, NodeMoves, ZenonT(40) DEF Inv
  <2> QED BY <1>1, <2>1 DEF watched
<1>3. /\ txs'[i].status = s /\ txs'[i].result = result /\ txs'[i].lost = txs[i].lost
      /\ txs'[i].orphans = (IF s = "Retracted" THEN txs[i].orphans \cup {txs[i].result}
                            ELSE txs[i].orphans)
      /\ txs[i].status \in {"Future", "Ready", "InBlock", "Retracted"}
      /\ s = "Retracted" => txs[i].status = "InBlock"
      /\ s = "InBlock" => result \in {"ok", "failed"}
      /\ s \in {"Finalized", "FinalityTimeout"} =>
           txs[i].status = "InBlock" /\ result = txs[i].result
      /\ s \notin InABlock => result = "none"
      /\ txs[i].status = "InBlock" => s \in {"Retracted", "Finalized", "FinalityTimeout"}
  BY NodeMoves DEF Inv
<1>4. UNCHANGED <<blockUntil, foreign>> /\ reorgs' \in 0 .. MaxReorgs
  BY LifecycleAssumption DEF Inv, TypeOK, node, handler
<1>5. ResultsInBlocks' BY <1>1, <1>2, <1>3 DEF Inv, ResultsInBlocks, InABlock
<1>6. txs' \in Seq([status : Statuses, result : {"ok", "failed", "none"},
                    orphans : SUBSET {"ok", "failed"}, lost : BOOLEAN])
  BY <1>2, Zenon DEF Tx
(* A success that was seen stays, or leaves with the block it was in. *)
<1>7. ASSUME transactionSuccessEvent
      PROVE  txs'[i].result = "ok" \/ \E j \in DOMAIN txs' : "ok" \in txs'[j].orphans
  <2>1. CASE txs[i].result = "ok"
    <3>1. txs[i].status = "InBlock" BY <1>1, <1>3, <2>1 DEF Inv, ResultsInBlocks, InABlock
    <3>2. txs'[i].result = "ok" \/ "ok" \in txs'[i].orphans BY <1>3, <2>1, <3>1
    <3> QED BY <1>1, <1>2, <3>2
  <2>2. CASE \E j \in DOMAIN txs : "ok" \in txs[j].orphans
    <3>1. PICK j \in 1 .. i : "ok" \in txs[j].orphans BY <1>1, <2>2
    <3>2. "ok" \in txs'[j].orphans BY <1>2, <1>3, <3>1
    <3> QED BY <1>2, <3>1, <3>2
  <2> QED BY <1>1, <1>7, <2>1, <2>2 DEF Inv, SuccessSeen
<1>8. CASE pc = "watch"
  <2>1. callback(s, result) BY <1>1, <1>8 DEF node
  <2>2. retVal # "success" BY <1>8 DEF Inv, SuccessSeen
  <2>3. /\ pc' \in {"watch", "mempool", "returned"}
        /\ max_retries' = (IF pc' = "mempool" THEN max_retries - 1 ELSE max_retries)
        /\ hasBeenReady' \in BOOLEAN /\ retVal' \in {"-1", "undefined", "success"}
        /\ transactionSuccessEvent' =
             (transactionSuccessEvent \/ (s = "InBlock" /\ result = "ok"))
        /\ pc' = "mempool" => s = "Invalid"
        /\ retVal' = "success" => pc' = "returned" /\ transactionSuccessEvent'
        /\ pc' = "returned" /\ retVal' # "success" =>
             /\ ~transactionSuccessEvent'
             /\ \/ s \in {"Invalid", "Error"}
                \/ s = "InBlock" /\ blockUntil = "InBlock"
                \/ s = "Finalized"
    BY <1>8, <2>1, <2>2, CallbackSteps DEF Inv
  <2>4. TypeOK'
    <3>1. max_retries' \in 0 .. Retries
      BY <1>8, <2>3, LifecycleAssumption DEF Inv, TypeOK, Budget
    <3>2. transactionSuccessEvent' \in BOOLEAN BY <2>3 DEF Inv, TypeOK
    <3> QED BY <1>1, <1>2, <1>4, <1>6, <2>3, <3>1, <3>2 DEF Inv, TypeOK
  <2>5. Budget' BY <1>1, <1>2, <1>8, <2>3, LifecycleAssumption DEF Inv, TypeOK, Budget
  <2>6. GivenUp' BY <1>1, <1>2, <1>3, <2>3 DEF Inv, GivenUp
  <2>7. SuccessSeen' BY <1>2, <1>3, <1>7, <2>3 DEF SuccessSeen
  <2>8. ~transactionSuccessEvent' => result # "ok"
    BY <1>1, <1>3, <1>8, <2>3 DEF Inv, FailureSeen, InABlock
  <2>9. FailureSeen' BY <1>2, <1>3, <1>4, <2>3, <2>8 DEF FailureSeen, Harmless
  <2> QED BY <1>5, <2>4, <2>5, <2>6, <2>7, <2>9 DEF Inv
<1>9. CASE pc = "returned"
  <2>1. UNCHANGED handler BY <1>9 DEF node
  <2>2. TypeOK' BY <1>1, <1>2, <1>4, <1>6, <1>9, <2>1 DEF Inv, TypeOK, handler
  <2>3. Budget' BY <1>9, <2>1 DEF Budget, handler
  <2>4. GivenUp' BY <1>1, <1>2, <1>9, <2>1 DEF Inv, GivenUp, handler
  <2>5. SuccessSeen' BY <1>2, <1>7, <2>1 DEF Inv, SuccessSeen, handler
  <2>6. FailureSeen'
    <3>1. SUFFICES ASSUME retVal # "success" PROVE Harmless(txs[i])'
      BY <1>2, <1>9, <2>1 DEF FailureSeen, handler
    <3>2. Harmless(txs[i]) BY <1>1, <1>9, <3>1 DEF Inv, FailureSeen
    <3>3. "failed" \in txs[i].orphans => "failed" \in txs'[i].orphans BY <1>3
    <3>4. txs[i].result = "failed" => txs'[i].result = "failed" \/ "failed" \in txs'[i].orphans
      BY <1>1, <1>3 DEF Inv, ResultsInBlocks, InABlock
    <3> QED BY <1>3, <1>4, <3>2, <3>3, <3>4 DEF Harmless
  <2> QED BY <1>5, <2>2, <2>3, <2>4, <2>5, <2>6 DEF Inv
<1> QED BY <1>1, <1>8, <1>9

(* Nothing else of the state is about the extrinsics of others. *)
LEMMA ForeignInv ==
  ASSUME Inv, UNCHANGED <<handler, txs, reorgs>>, foreign' \in 0 .. MaxForeign
  PROVE  Inv'
<1> USE DEF handler
<1>1. TypeOK' BY DEF Inv, TypeOK
<1>2. Budget' /\ GivenUp' /\ ResultsInBlocks' BY DEF Inv, Budget, GivenUp, ResultsInBlocks
<1>3. SuccessSeen' BY DEF Inv, SuccessSeen, watched
<1>4. FailureSeen' BY DEF Inv, FailureSeen, watched, Harmless
<1> QED BY <1>1, <1>2, <1>3, <1>4 DEF Inv

(* Type correctness and the facts above hold in every reachable state. *)
THEOREM Invariance == Spec => []Inv
<1>1. Init => Inv BY InitInv
<1>2. Inv /\ [Next]_vars => Inv'
  <2> SUFFICES ASSUME Inv, [Next]_vars PROVE Inv' OBVIOUS
  <2>1. CASE send BY <2>1, SendInv
  <2>2. CASE waitForEmptyMempool BY <2>2, MempoolInv
  <2>3. CASE \E i \in DOMAIN txs, s \in Statuses, result \in {"ok", "failed", "none"} :
               node(i, s, result)
    BY <2>3, NodeInv
  <2>4. CASE foreign_leaves
    <3>1. foreign' \in 0 .. MaxForeign
      BY <2>4, LifecycleAssumption DEF foreign_leaves, Inv, TypeOK
    <3> QED BY <2>4, <3>1, ForeignInv DEF foreign_leaves
  <2>5. CASE UNCHANGED vars
    <3>1. foreign' \in 0 .. MaxForeign BY <2>5 DEF vars, Inv, TypeOK
    <3> QED BY <2>5, <3>1, ForeignInv DEF vars
  <2> QED BY <2>1, <2>2, <2>3, <2>4, <2>5 DEF Next
<1> QED BY <1>1, <1>2, PTL DEF Spec
-----------------------------------------------------------------------------
(***************************************************************************)
(* The loop of _handleTransactionLifecycle never gets a call executed      *)
(* twice, however often it retries and whatever blocks are retracted: what *)
(* it sent before is invalid by then.                                      *)
(***************************************************************************)
THEOREM NeverExecutedTwice == Spec => []ExecutedAtMostOnce
<1>1. Inv => ExecutedAtMostOnce
  <2> SUFFICES ASSUME Inv PROVE ExecutedAtMostOnce OBVIOUS
  <2> DEFINE S == {i \in DOMAIN txs : txs[i].status \in OnChain}
  <2>1. DOMAIN txs = 1 .. Len(txs) /\ Len(txs) \in Nat BY DEF Inv, TypeOK
  <2>2. S \subseteq {Len(txs)} BY <2>1 DEF Inv, GivenUp, OnChain
  <2>3. IsFiniteSet({Len(txs)}) /\ Cardinality({Len(txs)}) = 1 BY FS_Singleton
  <2>4. Cardinality(S) <= 1 BY <2>2, <2>3, FS_Subset
  <2> QED BY <2>4 DEF ExecutedAtMostOnce
<1> QED BY <1>1, Invariance, PTL

(***************************************************************************)
(* The block data returned as a success is about a success: in the present *)
(* block of the extrinsic or in one that was retracted.                    *)
(***************************************************************************)
THEOREM SuccessReported == Spec => []SuccessIsReal
<1>1. Inv => SuccessIsReal BY DEF Inv, SuccessSeen, SuccessIsReal
<1> QED BY <1>1, Invariance, PTL

(***************************************************************************)
(* After -1 or undefined the call does not take effect any more, unless    *)
(* the answer of the node was lost or the caller took a failure in a block *)
(* that was retracted for the end.                                         *)
(***************************************************************************)
THEOREM FailureReported == Spec => []FailureIsReal
<1>1. Inv => FailureIsReal
  <2> SUFFICES ASSUME Inv, pc = "returned", retVal # "success", NEW i \in DOMAIN txs,
                      txs[i].result = "ok"
               PROVE  txs[i].lost \/ (blockUntil = "InBlock" /\ "failed" \in txs[i].orphans)
    BY DEF FailureIsReal
  <2>1. txs[i].status \in InABlock BY DEF Inv, ResultsInBlocks
  <2>2. DOMAIN txs = 1 .. Len(txs) /\ Len(txs) \in Nat BY DEF Inv, TypeOK
  <2>3. i = Len(txs) BY <2>1, <2>2 DEF Inv, GivenUp, InABlock
  <2>4. Harmless(txs[i]) BY <2>2, <2>3 DEF Inv, FailureSeen, watched
  <2> QED BY <2>1, <2>4 DEF Harmless, InABlock
<1> QED BY <1>1, Invariance, PTL
=============================================================================
