----------------------------- MODULE MerklePath -----------------------------
(***************************************************************************)
(* The check of statement paths in                                         *)
(* src/zombienet-tests/js_scripts/0012-aggregate_proofs.js, and the tree   *)
(* it is about.  Hashes are symbolic: the hash of a leaf and of two nodes  *)
(* are tuples, so that different inputs have different hashes.             *)
(***************************************************************************)
EXTENDS Naturals, Sequences, SequencesExt

HashLeaf(leaf) == <<"leaf", leaf>>

HashNodes(left, right) == <<"node", left, right>>

(* External, binary_merkle_tree: neighbours are paired level by level; the *)
(* last node of an odd level moves up as it is.                            *)
NextLevel(nodes) ==
  [i \in 1 .. (Len(nodes) + 1) \div 2 |->
     IF 2 * i <= Len(nodes) THEN HashNodes(nodes[2 * i - 1], nodes[2 * i]) ELSE nodes[2 * i - 1]]

(* The neighbour of node i, which counts from 1, if there is one. *)
Sibling(nodes, i) ==
  LET sibling == IF i % 2 = 1 THEN i + 1 ELSE i - 1
  IN  IF sibling <= Len(nodes) THEN <<nodes[sibling]>> ELSE <<>>

(* On the way up from node i: the level, the place in it, and the          *)
(* neighbours met so far.  Above the root nothing changes.                 *)
Up(c) ==
  [nodes |-> NextLevel(c.nodes), index |-> (c.index + 1) \div 2,
   siblings |-> c.siblings \o Sibling(c.nodes, c.index)]

Climb(nodes, i) ==
  LET rise[k \in Nat] ==
        IF k = 0 THEN [nodes |-> nodes, index |-> i, siblings |-> <<>>] ELSE Up(rise[k - 1])
  IN  rise

(* There are fewer levels than nodes, or a single node. *)
Top(nodes, i) == Climb(nodes, i)[Len(nodes)]

hashes(leaves) == [i \in DOMAIN leaves |-> HashLeaf(leaves[i])]

merkle_root(leaves) == Top(hashes(leaves), 1).nodes[1]

merkle_proof(leaves, i) ==
  [leaf |-> leaves[i], leaf_index |-> i - 1, number_of_leaves |-> Len(leaves),
   proof |-> Top(hashes(leaves), i).siblings]

(* Faulty variant: a last node without a neighbour counts as a left one. *)
step_by_parity(s, p) ==
  [position |-> s.position \div 2, width |-> (s.width - 1) \div 2 + 1,
   hash |-> IF s.position % 2 = 1 THEN HashNodes(p, s.hash) ELSE HashNodes(s.hash, p)]

(* One round of the loop over proof['proof']. *)
step_up(s, p) ==
  [position |-> s.position \div 2, width |-> (s.width - 1) \div 2 + 1,
   hash |-> IF s.position % 2 = 1 \/ s.position + 1 = s.width
            THEN HashNodes(p, s.hash) ELSE HashNodes(s.hash, p)]

verifyProof(path, publishedRoot) ==
  LET start == [position |-> path.leaf_index, width |-> path.number_of_leaves,
                hash |-> HashLeaf(path.leaf)]
  IN  publishedRoot = FoldLeft(step_up, start, path.proof).hash
=============================================================================
