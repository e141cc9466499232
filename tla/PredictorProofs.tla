--------------------------- MODULE PredictorProofs ---------------------------
(***************************************************************************)
(* Proofs about the predictor, for every set of branches and every size of *)
(* its tables.                                                             *)
(*                                                                         *)
(* RowsAreOwned says what a row of the target buffer holds: the branch     *)
(* executed last of those that select it, with its kind and the place it   *)
(* went to last.  StreakInv follows a branch that repeats itself through   *)
(* the history and, once that is full, through its counter.                *)
(***************************************************************************)
EXTENDS Predictor, OperatorLemmas

Row(i) == branch_predictor.BTB[i]

\* What bp_update has written into a row, and for whom.
RowsAreOwned ==
    \A i \in Indexes :
        /\ Row(i).valid = 1 => owner[i] # Nowhere
        /\ owner[i] # Nowhere =>
               /\ owner[i] \in BranchAddresses /\ address_bits(owner[i]) = i
               /\ Row(i).valid = 1
               /\ Row(i).pr_address = owner[i]
               /\ Row(i).br_address = destination[owner[i]]
               /\ \A b \in Code : b.address = owner[i] => Row(i).cond = b.cond

PredictorInv == TypeOK /\ RowsAreOwned

-----------------------------------------------------------------------------
(* A branch lies at an address and goes to one, and no address is Nowhere. *)
LEMMA BranchFields ==
  ASSUME NEW b \in Code
  PROVE  /\ b.address \in Long /\ b.target \in Long /\ b.next \in Long
         /\ b.cond \in {0, 1} /\ b.address # Nowhere
         /\ b.address \in BranchAddresses
  <1>1. /\ b.address \in Long /\ b.target \in Long /\ b.next \in Long
        /\ b.cond \in {0, 1}
    BY CodeAssumption
  <1>2. Nowhere \notin Long
    BY Inclusions DEF Nowhere
  <1> QED BY <1>1, <1>2 DEF BranchAddresses

-----------------------------------------------------------------------------
(* The tables initially hold nothing.                                      *)
LEMMA PredictorInit == Init => PredictorInv
  <1> SUFFICES ASSUME Init PROVE PredictorInv
    OBVIOUS
  <1>0. 0 \in Long /\ 0 \in Indexes
    BY Moduli DEF Long, Indexes
  <1>1. TypeOK
    BY <1>0 DEF Init, TypeOK, EmptyPredictor, InvalidEntry
  <1>2. RowsAreOwned
    BY DEF Init, RowsAreOwned, Row, EmptyPredictor, InvalidEntry
  <1> QED BY <1>1, <1>2 DEF PredictorInv

(* A branch that is executed takes over its row, and the rows of the       *)
(* others keep what they have.                                             *)
LEMMA PredictorStep ==
  ASSUME PredictorInv, [Next]_predictorVars
  PROVE  PredictorInv'
  <1> USE DEF PredictorInv
  <1>1. CASE UNCHANGED predictorVars
    BY <1>1 DEF predictorVars, TypeOK, RowsAreOwned, Row
  <1>2. ASSUME NEW b \in Code, NEW taken \in {0, 1}, Execute(b, taken)
        PROVE  PredictorInv'
    <2> DEFINE to  == IF taken = 1 THEN b.target ELSE b.next
               row == address_bits(b.address)
    <2>b. /\ b.address \in Long /\ b.cond \in {0, 1} /\ to \in Long
          /\ b.address # Nowhere /\ b.address \in BranchAddresses
          /\ row \in Indexes
      BY BranchFields, TableIndexes
    <2>e. /\ branch_predictor' = bp_update(branch_predictor, b.address, to, taken, b.cond)
          /\ destination' = [destination EXCEPT ![b.address] = to]
          /\ owner' = [owner EXCEPT ![row] = b.address]
      BY <1>2 DEF Execute
    <2> HIDE DEF to
    <2>u. /\ branch_predictor' = [GHR |-> branch_predictor'.GHR,
                                  PHT |-> branch_predictor'.PHT,
                                  BTB |-> branch_predictor'.BTB]
          /\ branch_predictor'.GHR \in Indexes
          /\ branch_predictor'.PHT \in [Indexes -> 0 .. 3]
          /\ branch_predictor'.BTB =
                 [branch_predictor.BTB EXCEPT
                    ![row] = [pr_address |-> b.address, br_address |-> to,
                              valid |-> 1, cond |-> b.cond]]
      <3>1. /\ branch_predictor.GHR \in Indexes
            /\ branch_predictor.PHT \in [Indexes -> 0 .. 3]
        BY DEF TypeOK
      <3>2. Updated(branch_predictor, branch_predictor', b.address, to, b.cond)
        BY <2>e, <3>1, UpdatedTables
      <3> QED BY <3>2 DEF Updated
    <2> HIDE DEF row
    <2>1. TypeOK'
      BY <2>b, <2>e, <2>u DEF TypeOK
    <2>2. RowsAreOwned'
      <3> SUFFICES ASSUME NEW i \in Indexes
                   PROVE /\ Row(i)'.valid = 1 => owner'[i] # Nowhere
                         /\ owner'[i] # Nowhere =>
                               /\ owner'[i] \in BranchAddresses
                               /\ address_bits(owner'[i]) = i
                               /\ Row(i)'.valid = 1
                               /\ Row(i)'.pr_address = owner'[i]
                               /\ Row(i)'.br_address = destination'[owner'[i]]
                               /\ \A c \in Code : c.address = owner'[i] =>
                                                    Row(i)'.cond = c.cond
        BY DEF RowsAreOwned
      <3>1. CASE i = row
        <4>1. /\ Row(i)' = [pr_address |-> b.address, br_address |-> to,
                            valid |-> 1, cond |-> b.cond]
              /\ owner'[i] = b.address
              /\ destination'[b.address] = to
          BY <2>b, <2>e, <2>u, <3>1 DEF Row, TypeOK
        <4>2. \A c \in Code : c.address = b.address => c.cond = b.cond
          BY CodeAssumption
        <4> QED BY <2>b, <3>1, <4>1, <4>2 DEF row
      <3>2. CASE i # row
        <4>1. Row(i)' = Row(i) /\ owner'[i] = owner[i]
          BY <2>e, <2>u, <3>2 DEF Row, TypeOK
        <4>2. owner[i] # Nowhere => destination'[owner[i]] = destination[owner[i]]
          <5>1. owner[i] # Nowhere => owner[i] # b.address
            BY <3>2 DEF RowsAreOwned, row
          <5> QED BY <2>e, <5>1 DEF RowsAreOwned, TypeOK
        <4> QED BY <4>1, <4>2 DEF RowsAreOwned
      <3> QED BY <3>1, <3>2
    <2> QED BY <2>1, <2>2
  <1> QED BY <1>1, <1>2 DEF Next

(* The tables and their owners agree in every reachable state.             *)
LEMMA PredictorInvariant == Spec => []PredictorInv
  BY PredictorInit, PredictorStep, PTL DEF Spec

-----------------------------------------------------------------------------
(* bp_update keeps bp_t well formed: the counters have two bits and the    *)
(* history stays within its width, for tables of any size.                 *)
THEOREM PredictorTypesHold == Spec => []TypeOK
  <1>1. PredictorInv => TypeOK
    BY DEF PredictorInv
  <1> QED BY <1>1, PredictorInvariant, PTL

(* bp_predict sends only a branch elsewhere, and to where it went last,    *)
(* however many branches share a row or a counter.                         *)
THEOREM PredictionsAreRemembered == Spec => []PredictsLastDestination
  <1>1. PredictorInv => PredictsLastDestination
    <2> SUFFICES ASSUME PredictorInv, NEW a \in Long,
                        bp_predict(branch_predictor, a).pred_taken = 1
                 PROVE /\ a \in BranchAddresses
                       /\ bp_predict(branch_predictor, a).pred_address = destination[a]
      BY DEF PredictsLastDestination
    <2> DEFINE entry == Row(address_bits(a))
    <2>1. address_bits(a) \in Indexes
      BY TableIndexes
    <2>2. /\ entry.valid = 1 /\ entry.pr_address = a
          /\ bp_predict(branch_predictor, a).pred_address = entry.br_address
      BY DEF bp_predict, Row
    <2> QED BY <2>1, <2>2 DEF PredictorInv, RowsAreOwned
  <1> QED BY <1>1, PredictorInvariant, PTL

(* bp_predict knows an unconditional branch from its first execution until *)
(* bp_update gives its row to another one.                                 *)
THEOREM JumpsAreRemembered == Spec => []JumpsArePredicted
  <1>1. PredictorInv => JumpsArePredicted
    <2> SUFFICES ASSUME PredictorInv, NEW b \in Code, b.cond = 0,
                        owner[address_bits(b.address)] = b.address
                 PROVE bp_predict(branch_predictor, b.address)
                           = [pred_address |-> destination[b.address], pred_taken |-> 1]
      BY DEF JumpsArePredicted
    <2> DEFINE entry == Row(address_bits(b.address))
    <2>1. address_bits(b.address) \in Indexes /\ b.address # Nowhere
      BY TableIndexes, BranchFields
    <2>2. /\ entry.valid = 1 /\ entry.pr_address = b.address /\ entry.cond = 0
          /\ entry.br_address = destination[b.address]
      BY <2>1 DEF PredictorInv, RowsAreOwned
    <2> QED BY <2>2 DEF bp_predict, Row
  <1> QED BY <1>1, PredictorInvariant, PTL

-----------------------------------------------------------------------------
(* A streak.                                                               *)

\* The last j outcomes in the history x are all `taken'.
Ends(x, taken, j) == \E q \in Int : x = q * 2^j + taken * (2^j - 1)

\* The counter has moved n steps from the end it may have started from.
Leans(counter, taken, n) == IF taken = 1 THEN counter >= n ELSE counter <= 3 - n

Counter(a) == branch_predictor.PHT[PHT_index(branch_predictor, a)]

\* Each repetition of a conditional branch puts its outcome into one more bit
\* of the history, and when there is no other bit left in it the branch keeps
\* its counter: every further repetition moves that one.
StreakInv ==
    /\ streak.length \in Nat
    /\ streak.length > 0 =>
           \E b \in Code :
               /\ streak.address = b.address
               /\ owner[address_bits(b.address)] = b.address
               /\ destination[b.address] = streak.to
               /\ streak.taken \in {0, 1}
               /\ b.cond = 0 => streak.taken = 1
               /\ b.cond = 1 =>
                      /\ \A j \in 0 .. IndexBits :
                            j <= streak.length => Ends(branch_predictor.GHR, streak.taken, j)
                      /\ \A n \in {1, 2} :
                            streak.length >= IndexBits + n =>
                                Leans(Counter(b.address), streak.taken, n)

(* Shifting an outcome into the history makes the run of it longer.        *)
LEMMA OneMoreOutcome ==
  ASSUME NEW x \in Indexes, NEW taken \in {0, 1}, NEW j \in 1 .. IndexBits,
         Ends(x, taken, j - 1)
  PROVE  Ends((2 * x + taken) % 2^IndexBits, taken, j)
  <1> DEFINE m == 2^(j - 1)
             p == 2^(IndexBits - j)
             top == 2^IndexBits
  <1>w. LongBits \in Nat /\ IndexBits \in 1 .. LongBits
    BY MachineWidths, IndexBitsAssumption
  <1>1. {j, j - 1, IndexBits - j, IndexBits} \subseteq Widths
    BY <1>w DEF Widths
  <1>2. m \in Nat \ {0} /\ p \in Nat \ {0} /\ top \in Nat \ {0} /\ x \in Nat
    BY <1>1, PowersArePositive DEF Indexes
  <1>3. 2^j = 2 * m
    BY <1>w, ByteBitsAssumption
  <1>4. top = (2 * m) * p
    <2>1. j \in Nat /\ IndexBits - j \in Nat /\ j + (IndexBits - j) = IndexBits
      BY <1>w
    <2>2. 2^(j + (IndexBits - j)) = 2^j * 2^(IndexBits - j)
      BY <1>w, <2>1, PowersMultiply
    <2> QED BY <1>3, <2>1, <2>2
  <1>5. PICK q \in Int : x = q * m + taken * (m - 1)
    BY DEF Ends
  <1> DEFINE sum == 2 * x + taken
             c   == sum \div top
             r   == sum % top
  <1>6. c \in Int /\ r \in Nat /\ sum = top * c + r
    <2>1. sum \in Nat
      BY <1>2
    <2> HIDE DEF sum, top
    <2> QED BY <1>2, <2>1
  <1>7. sum = q * (2 * m) + taken * (2 * m - 1)
    <2>1. CASE taken = 0
      BY <1>2, <1>5, <2>1
    <2>2. CASE taken = 1
      BY <1>2, <1>5, <2>2
    <2> QED BY <2>1, <2>2
  <1> HIDE DEF m, p, top, sum, c, r
  <1>8. r = (q - p * c) * (2 * m) + taken * (2 * m - 1)
    <2>1. top * c = (p * c) * (2 * m)
      BY <1>2, <1>4, <1>6
    <2>2. p * c \in Int
      BY <1>2, <1>6
    <2> DEFINE d == p * c
    <2>3. (q - d) * (2 * m) = q * (2 * m) - d * (2 * m)
      <3> HIDE DEF d
      <3> QED BY <1>2, <2>2 DEF d
    <2>4. top * c \in Int /\ q * (2 * m) \in Int /\ taken * (2 * m - 1) \in Int
          /\ d * (2 * m) \in Int
      BY <1>2, <1>6, <2>2
    <2>5. r = sum - top * c
      BY <1>2, <1>6, <2>4
    <2> QED BY <1>7, <2>1, <2>3, <2>4, <2>5
  <1>9. q - p * c \in Int
    BY <1>2, <1>6
  <1> QED BY <1>3, <1>8, <1>9 DEF Ends, r, sum, top


(* When the history holds nothing else it stays as it is.                  *)
LEMMA FullHistory ==
  ASSUME NEW x \in Indexes, NEW taken \in {0, 1}, Ends(x, taken, IndexBits)
  PROVE  x = taken * (2^IndexBits - 1)
  <1> DEFINE m == 2^IndexBits
  <1>1. m \in Nat \ {0} /\ x \in 0 .. m - 1
    BY Moduli DEF Indexes
  <1>2. PICK q \in Int : x = q * m + taken * (m - 1)
    BY DEF Ends
  <1> HIDE DEF m
  <1>3. CASE taken = 0
    <2>1. x = q * m
      BY <1>1, <1>2, <1>3
    <2>2. CASE q = 0
      BY <1>1, <1>3, <2>1, <2>2 DEF m
    <2>3. CASE q >= 1
      BY <1>1, <2>1, <2>3
    <2>4. CASE q <= -1
      BY <1>1, <2>1, <2>4
    <2> QED BY <2>2, <2>3, <2>4
  <1>4. CASE taken = 1
    <2>1. x = q * m + (m - 1)
      BY <1>1, <1>2, <1>4
    <2>2. CASE q = 0
      BY <1>1, <1>4, <2>1, <2>2 DEF m
    <2>3. CASE q >= 1
      BY <1>1, <2>1, <2>3
    <2>4. CASE q <= -1
      <3>1. q * m <= -m
        BY <1>1, <2>4
      <3> QED BY <1>1, <2>1, <3>1
    <2> QED BY <2>2, <2>3, <2>4
  <1> QED BY <1>3, <1>4

(* No outcome is known of a branch that has not been executed.             *)
LEMMA StreakInit == Init => StreakInv
  BY DEF Init, StreakInv, NoStreak

(* A branch that repeats itself makes its streak longer, any other begins  *)
(* one.                                                                    *)
LEMMA StreakStep ==
  ASSUME PredictorInv, StreakInv, [Next]_predictorVars
  PROVE  StreakInv'
  <1>1. CASE UNCHANGED predictorVars
    BY <1>1 DEF predictorVars, StreakInv, Counter
  <1>2. ASSUME NEW b \in Code, NEW taken \in {0, 1}, Execute(b, taken)
        PROVE  StreakInv'
    <2> DEFINE bp  == branch_predictor
               a   == b.address
               to  == IF taken = 1 THEN b.target ELSE b.next
               continued == [address |-> a, taken |-> taken, to |-> to,
                             length |-> streak.length]
               new == IF streak = continued THEN Longer(streak) ELSE 1
    <2>b. /\ a \in Long /\ b.cond \in {0, 1} /\ a # Nowhere /\ a \in BranchAddresses
          /\ address_bits(a) \in Indexes
      BY BranchFields, TableIndexes
    <2>t. /\ bp.GHR \in Indexes /\ bp.PHT \in [Indexes -> 0 .. 3]
          /\ destination \in [BranchAddresses -> Long \cup {Nowhere}]
          /\ owner \in [Indexes -> BranchAddresses \cup {Nowhere}]
      BY DEF PredictorInv, TypeOK
    <2>i. IndexBits \in Nat \ {0} /\ IndexBits \in Widths
      BY IndexBitsAssumption, MachineWidths
    <2>e. /\ bp' = bp_update(bp, a, to, taken, b.cond)
          /\ destination' = [destination EXCEPT ![a] = to]
          /\ owner' = [owner EXCEPT ![address_bits(a)] = a]
          /\ streak' = [continued EXCEPT !.length = new]
          /\ b.cond = 0 => taken = 1
      BY <1>2 DEF Execute
    <2>s. /\ streak'.address = a /\ streak'.taken = taken /\ streak'.to = to
          /\ streak'.length = new
      BY <2>e
    <2>l. /\ streak.length \in Nat /\ new \in Nat
          /\ IF streak = continued THEN new \in {streak.length, streak.length + 1} ELSE new = 1
      BY DEF StreakInv, Longer
    <2>c. ASSUME streak = continued, streak.length > 0, b.cond = 1
          PROVE  /\ \A j \in 0 .. IndexBits : j <= streak.length => Ends(bp.GHR, taken, j)
                 /\ \A n \in {1, 2} :
                       streak.length >= IndexBits + n => Leans(Counter(a), taken, n)
      <3>1. streak.address = a /\ streak.taken = taken
        BY <2>c
      <3>2. \A c \in Code : c.address = a => c.cond = 1
        BY <2>c, CodeAssumption
      <3> QED BY <2>c, <3>1, <3>2 DEF StreakInv
    <2> HIDE DEF new, to, continued
    <2>h. ASSUME b.cond = 1
          PROVE  /\ bp'.GHR = (2 * bp.GHR + taken) % 2^IndexBits
                 /\ bp'.PHT = [bp.PHT EXCEPT ![PHT_index(bp, a)] = Saturate(@, taken)]
      BY <2>e, <2>h DEF bp_update
    <2>0. \A x \in Indexes : Ends(x, taken, 0)
      <3>1. 2^0 = 1
        BY ByteBitsAssumption
      <3>2. ASSUME NEW x \in Indexes PROVE x \in Int /\ x = x * 1 + taken * (1 - 1)
        BY Moduli DEF Indexes
      <3> QED BY <3>1, <3>2 DEF Ends
    <2>1. ASSUME b.cond = 1, NEW j \in 0 .. IndexBits, j <= new
          PROVE  Ends(bp'.GHR, taken, j)
      <3>1. CASE j = 0
        <4>1. bp'.GHR \in Indexes
          BY <2>e, <2>t, UpdatedTables DEF Updated
        <4> QED BY <2>0, <3>1, <4>1
      <3>2. CASE j # 0
        <4>1. j \in 1 .. IndexBits
          BY <2>i, <3>2
        <4>2. Ends(bp.GHR, taken, j - 1)
          <5>1. CASE j = 1
            BY <2>0, <2>t, <5>1
          <5>2. CASE j # 1
            <6>1. streak = continued /\ streak.length > 0
                  /\ j - 1 \in 0 .. IndexBits /\ j - 1 <= streak.length
              BY <2>1, <2>i, <2>l, <4>1, <5>2
            <6> QED BY <2>1, <2>c, <6>1
          <5> QED BY <5>1, <5>2
        <4>3. Ends((2 * bp.GHR + taken) % 2^IndexBits, taken, j)
          BY <2>t, <4>1, <4>2, OneMoreOutcome
        <4> QED BY <2>1, <2>h, <4>3
      <3> QED BY <3>1, <3>2
    <2>2. ASSUME b.cond = 1, NEW n \in {1, 2}, new >= IndexBits + n
          PROVE  Leans(Counter(a)', taken, n)
      <3>1. /\ streak = continued /\ streak.length > 0
            /\ IndexBits <= streak.length /\ IndexBits <= new
            /\ n = 2 => streak.length >= IndexBits + 1
        BY <2>2, <2>i, <2>l
      <3>2. Ends(bp.GHR, taken, IndexBits) /\ Ends(bp'.GHR, taken, IndexBits)
        BY <2>1, <2>2, <2>c, <2>i, <3>1
      <3>3. bp'.GHR \in Indexes
        BY <2>e, <2>t, UpdatedTables DEF Updated
      <3>4. bp'.GHR = bp.GHR
        BY <2>t, <3>2, <3>3, FullHistory
      <3> DEFINE k == PHT_index(bp, a)
      <3>5. k \in Indexes
        BY <2>b, <2>t, TableIndexes
      <3>6. PHT_index(bp, a)' = k
        BY <3>4 DEF PHT_index
      <3>7. Counter(a)' = Saturate(bp.PHT[k], taken) /\ Counter(a) = bp.PHT[k]
        <4>1. bp'.PHT[k] = Saturate(bp.PHT[k], taken)
          BY <2>2, <2>h, <2>t, <3>5
        <4> QED BY <3>6, <4>1 DEF Counter
      <3>8. bp.PHT[k] \in 0 .. 3
        BY <2>t, <3>5
      <3>9. n = 2 => Leans(bp.PHT[k], taken, 1)
        BY <2>2, <2>c, <3>1, <3>7
      <3> HIDE DEF k
      <3> QED BY <3>7, <3>8, <3>9 DEF Leans, Saturate
    <2>3. owner'[address_bits(a)] = a /\ destination'[a] = to
      BY <2>b, <2>e, <2>t
    <2> QED BY <2>1, <2>2, <2>3, <2>e, <2>l, <2>s DEF StreakInv
  <1> QED BY <1>1, <1>2 DEF Next

(* bp_update teaches bp_predict a branch that keeps repeating itself: for  *)
(* tables of any size, after as many repetitions as the history has bits   *)
(* and two more, whatever the other branches have left in the counters.    *)
THEOREM StreaksAreLearned == Spec => []LearnsTheStreak
  <1>1. Init => PredictorInv /\ StreakInv
    BY PredictorInit, StreakInit
  <1>2. PredictorInv /\ StreakInv /\ [Next]_predictorVars => (PredictorInv /\ StreakInv)'
    BY PredictorStep, StreakStep
  <1>3. PredictorInv /\ StreakInv => LearnsTheStreak
    <2> SUFFICES ASSUME PredictorInv, StreakInv, streak.length >= IndexBits + 2
                 PROVE  LET prediction == bp_predict(branch_predictor, streak.address)
                        IN  /\ prediction.pred_taken = streak.taken
                            /\ streak.taken = 1 => prediction.pred_address = streak.to
      BY DEF LearnsTheStreak
    <2>1. streak.length > 0
      BY IndexBitsAssumption, MachineWidths DEF StreakInv
    <2>2. PICK b \in Code :
               /\ streak.address = b.address
               /\ owner[address_bits(b.address)] = b.address
               /\ destination[b.address] = streak.to
               /\ streak.taken \in {0, 1}
               /\ b.cond = 0 => streak.taken = 1
               /\ b.cond = 1 => Leans(Counter(b.address), streak.taken, 2)
      BY <2>1 DEF StreakInv
    <2> DEFINE a == b.address
               entry == Row(address_bits(a))
    <2>3. address_bits(a) \in Indexes /\ a # Nowhere /\ b.cond \in {0, 1} /\ a \in Long
      BY TableIndexes, BranchFields
    <2>4. /\ entry.valid = 1 /\ entry.pr_address = a /\ entry.cond = b.cond
          /\ entry.br_address = streak.to
      BY <2>2, <2>3 DEF PredictorInv, RowsAreOwned
    <2>5. Counter(a) \in 0 .. 3
      BY <2>3, TableIndexes DEF PredictorInv, TypeOK, Counter
    <2>6. b.cond = 0 \/ Counter(a) > 1 <=> streak.taken = 1
      BY <2>2, <2>3, <2>5 DEF Leans
    <2> QED BY <2>2, <2>4, <2>6 DEF bp_predict, Row, Counter
  <1> QED BY <1>1, <1>2, <1>3, PTL DEF Spec
=============================================================================
