---------------------------- MODULE MCPredictor -----------------------------
(***************************************************************************)
(* Four branches: two that share a row of the target buffer, one of them   *)
(* an instance of BR with two targets, a loop branch and a jump.           *)
(***************************************************************************)
EXTENDS Predictor

Branch(address, target, cond) ==
    [address |-> address, target |-> target, next |-> address + 8, cond |-> cond]

\* With two index bits, addresses 16 apart share a row.
FewBranches == {Branch(4, 0, 1), Branch(20, 40, 0), Branch(20, 48, 0),
                Branch(8, 24, 1), Branch(12, 0, 0)}
=============================================================================
