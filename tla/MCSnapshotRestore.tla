------------------------- MODULE MCSnapshotRestore --------------------------
(* Model values for checking SnapshotRestore with TLC. *)
EXTENDS SnapshotRestore

CONSTANTS h1, h2, o1, o2, rich, saver, dust, module, banned

TwoPallets == <<"groth16", "risc0">>

k1 == <<"groth16", h1>>

k2 == <<"risc0", h2>>

AllKeys == {k1, k2}

(* A key with two owners; an owner with two keys. *)
Genesis == {{<<o1, k1>>, <<o2, k1>>}, {<<o1, k1>>, <<o1, k2>>}}

(* h2 has never been used. *)
Usage == [h \in {h1, h2} |-> IF h = h1 THEN 5 ELSE None]

Holdings ==
  [a \in {rich, saver, dust, module, banned} |->
     [free     |-> CASE a = rich -> 8 [] a = saver -> 1 [] a = dust -> 1 [] a = module -> 2
                    [] a = banned -> 3,
      reserved |-> IF a = saver THEN 3 ELSE 0]]

Options(gql, replace, used_after, cap, executor_) ==
  [gql |-> gql, replace |-> replace, used_after |-> used_after, cap |-> cap,
   executor |-> executor_]

(* Too little in custody; too little for the fees; just enough for them.   *)
Lines ==
  {Options(TRUE, None, None, 0, Sudo), Options(TRUE, None, None, 6, Custody),
   Options(TRUE, o1, 1, 5, Custody), Options(FALSE, None, 1, 1, Custody),
   Options(FALSE, None, None, 5, Sudo)}
=============================================================================
