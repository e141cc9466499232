----------------------------- MODULE Predictor ------------------------------
(***************************************************************************)
(* bp.c as a component: the predictor between the calls of bp_update that  *)
(* execute makes for the branches of a program, in any order and with any  *)
(* outcomes.  bp_predict changes nothing, so it is no action: it is what   *)
(* the properties look at, in every state in which fetch might call it.    *)
(***************************************************************************)
EXTENDS PredictorOps

CONSTANTS
    Code,           \* the branches: [address, target, next, cond]
    MaxStreak       \* bound on the length counted of a streak

\* One kind of branch at an address; a BR may have several targets.
ASSUME CodeAssumption ==
    /\ \A b \in Code : {b.address, b.target, b.next} \subseteq Long /\ b.cond \in {0, 1}
    /\ \A b, c \in Code : b.address = c.address => b.cond = c.cond

ASSUME MaxStreakAssumption == MaxStreak \in Nat

VARIABLES
    branch_predictor,
    destination,        \* history: where each branch executed went last
    owner,              \* history: the branch executed last of each row of the BTB
    streak              \* history: how often a branch has just repeated itself

predictorVars == <<branch_predictor, destination, owner, streak>>

BranchAddresses == {b.address : b \in Code}

Nowhere == -1

\* The record of outcomes of the last branches executed, if they were one
\* branch with one outcome.
NoStreak == [address |-> Nowhere, taken |-> 0, to |-> Nowhere, length |-> 0]

Init ==
    /\ branch_predictor = EmptyPredictor
    /\ destination = [a \in BranchAddresses |-> Nowhere]
    /\ owner = [i \in Indexes |-> Nowhere]
    /\ streak = NoStreak

Longer(s) == IF s.length < MaxStreak THEN s.length + 1 ELSE s.length

\* A branch is executed.  An unconditional one is always taken.  One that is
\* not taken goes on at `next', which the code, too, enters into the BTB.
Execute(b, taken) ==
    LET to == IF taken = 1 THEN b.target ELSE b.next
        continued == [address |-> b.address, taken |-> taken, to |-> to,
                      length |-> streak.length]
    IN  /\ b.cond = 0 => taken = 1
        /\ branch_predictor' =
               bp_update(branch_predictor, b.address, to, taken, b.cond)
        /\ destination' = [destination EXCEPT ![b.address] = to]
        /\ owner' = [owner EXCEPT ![address_bits(b.address)] = b.address]
        /\ streak' = [continued EXCEPT
                         !.length = IF streak = continued THEN Longer(streak) ELSE 1]

Next == \E b \in Code, taken \in {0, 1} : Execute(b, taken)

Spec == Init /\ [][Next]_predictorVars

-----------------------------------------------------------------------------
(* Type correctness of bp_t: counters of two bits, a history within its    *)
(* width, rows that are empty or hold a branch.                            *)
TypeOK ==
    /\ branch_predictor \in
           [GHR : Indexes, PHT : [Indexes -> 0 .. 3],
            BTB : [Indexes -> [pr_address : Long, br_address : Long,
                               valid : {0, 1}, cond : {0, 1}]]]
    /\ destination \in [BranchAddresses -> Long \cup {Nowhere}]
    /\ owner \in [Indexes -> BranchAddresses \cup {Nowhere}]

(* An instruction is predicted taken only if it is a branch that has been  *)
(* executed, and then to where it went last: neither a branch that shares  *)
(* its row of the BTB nor one that shares its counter sends it elsewhere.  *)
PredictsLastDestination ==
    \A a \in Long :
        bp_predict(branch_predictor, a).pred_taken = 1 =>
            /\ a \in BranchAddresses
            /\ bp_predict(branch_predictor, a).pred_address = destination[a]

(* An unconditional branch that has been executed is predicted taken until *)
(* a branch that shares its row is executed; nothing else makes it wait.   *)
JumpsArePredicted ==
    \A b \in Code :
        b.cond = 0 /\ owner[address_bits(b.address)] = b.address =>
            bp_predict(branch_predictor, b.address)
                = [pred_address |-> destination[b.address], pred_taken |-> 1]

(* A branch that keeps repeating itself is learned: once its outcome has   *)
(* filled the history register and moved one counter from end to middle,   *)
(* it is predicted right, whatever went before.                            *)
LearnsTheStreak ==
    streak.length >= IndexBits + 2 =>
        LET prediction == bp_predict(branch_predictor, streak.address)
        IN  /\ prediction.pred_taken = streak.taken
            /\ streak.taken = 1 => prediction.pred_address = streak.to
=============================================================================
