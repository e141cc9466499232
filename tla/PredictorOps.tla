---------------------------- MODULE PredictorOps ----------------------------
(***************************************************************************)
(* bp.c: a gshare direction predictor (PHT of two-bit counters indexed by  *)
(* the branch address xor the global history GHR) beside a direct-mapped   *)
(* branch target buffer (BTB).  The predictor is a record; bp_predict and  *)
(* bp_update are operators.                                                *)
(***************************************************************************)
EXTENDS Words

CONSTANT IndexBits      \* bits of GHR and of every index: 8 in the code

ASSUME IndexBitsAssumption == IndexBits \in 1 .. LongBits

Indexes == 0 .. 2^IndexBits - 1

InvalidEntry == [pr_address |-> 0, br_address |-> 0, valid |-> 0, cond |-> 0]

\* The BTB has 1024 rows in the code and address_bits reaches the first 256.
EmptyPredictor ==
    [GHR |-> 0,
     PHT |-> [i \in Indexes |-> 0],
     BTB |-> [i \in Indexes |-> InvalidEntry]]

address_bits(pr_address) == (pr_address \div 4) % 2^IndexBits

PHT_index(bp, pr_address) == Xor(address_bits(pr_address), bp.GHR, IndexBits)

-----------------------------------------------------------------------------
\* Mutant: the branch of the row need not be this one.
predict_by_row(bp, pr_address) ==
    LET entry == bp.BTB[address_bits(pr_address)]
    IN  IF entry.valid = 1
        THEN [pred_address |-> entry.br_address, pred_taken |-> 1]
        ELSE [pred_address |-> ToLong(pr_address + 4), pred_taken |-> 0]

\* Mutants: the counters are asked for a jump, too; only a counter that is
\* full predicts a branch taken.
predict_by_counter(bp, pr_address) ==
    LET entry == bp.BTB[address_bits(pr_address)]
    IN  IF /\ entry.valid = 1 /\ entry.pr_address = pr_address
           /\ bp.PHT[PHT_index(bp, pr_address)] > 1
        THEN [pred_address |-> entry.br_address, pred_taken |-> 1]
        ELSE [pred_address |-> ToLong(pr_address + 4), pred_taken |-> 0]

predict_when_full(bp, pr_address) ==
    LET entry == bp.BTB[address_bits(pr_address)]
    IN  IF /\ entry.valid = 1 /\ entry.pr_address = pr_address
           /\ entry.cond = 0 \/ bp.PHT[PHT_index(bp, pr_address)] > 2
        THEN [pred_address |-> entry.br_address, pred_taken |-> 1]
        ELSE [pred_address |-> ToLong(pr_address + 4), pred_taken |-> 0]

\* The prediction for the instruction at pr_address, which is always the
\* address in CURRENT_STATE.PC when the pipeline asks.
bp_predict(bp, pr_address) ==
    LET entry == bp.BTB[address_bits(pr_address)]
        taken == /\ entry.valid = 1
                 /\ entry.pr_address = pr_address
                 /\ \/ entry.cond = 0
                    \/ bp.PHT[PHT_index(bp, pr_address)] > 1
    IN  IF taken
        THEN [pred_address |-> entry.br_address, pred_taken |-> 1]
        ELSE [pred_address |-> ToLong(pr_address + 4), pred_taken |-> 0]

-----------------------------------------------------------------------------
\* Mutant: the counter is not bounded.
Unbounded(counter, taken) == IF taken = 1 THEN counter + 1 ELSE counter - 1

\* A two-bit counter moved towards the outcome.
Saturate(counter, taken) ==
    IF taken = 1 THEN (IF counter < 3 THEN counter + 1 ELSE counter)
                 ELSE (IF counter > 0 THEN counter - 1 ELSE counter)

\* Mutant: the history register does not wrap.
update_unbounded(bp, pr_address, br_address, taken, cond) ==
    [bp EXCEPT !.GHR = IF cond = 0 THEN @ ELSE 2 * @ + taken]

\* The predictor after the branch at pr_address went to br_address.  Only a
\* conditional branch moves a counter and enters the history.
bp_update(bp, pr_address, br_address, taken, cond) ==
    [GHR |-> IF cond = 0 THEN bp.GHR ELSE (2 * bp.GHR + taken) % 2^IndexBits,
     PHT |-> IF cond = 0 THEN bp.PHT
             ELSE [bp.PHT EXCEPT ![PHT_index(bp, pr_address)] = Saturate(@, taken)],
     BTB |-> [bp.BTB EXCEPT ![address_bits(pr_address)] =
                 [pr_address |-> pr_address, br_address |-> br_address,
                  valid |-> 1, cond |-> cond]]]

\* Mutant: a branch that goes somewhere else than predicted is let pass.
flush_by_outcome(pred, br_address, taken) == pred.pred_taken # taken

\* EXtoMEM_BP->flush, as bp_update leaves it.
must_flush(pred, br_address, taken) ==
    pred.pred_address # br_address \/ pred.pred_taken # taken
=============================================================================
