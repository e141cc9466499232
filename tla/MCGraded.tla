------------------------------ MODULE MCGraded ------------------------------
(***************************************************************************)
(* The four programs of the repository on the caches and the predictor of  *)
(* the code.  A register has 24 bits here and a word 12.                   *)
(***************************************************************************)
EXTENDS Pipeline, InstructionWords

\* The words of inputs/*.x.

br_same ==
    <<<<\hd280, \h0020>>, <<\hd280, \h0021>>, <<\hd280, \h0020>>, <<\hd280, \h0021>>,
      <<\hd280, \h0020>>, <<\hd280, \h0021>>, <<\heb01, \h001f>>, <<\h5400, \h0060>>,
      <<\h8b01, \h0002>>, <<\h8b01, \h0002>>, <<\h8b01, \h0003>>, <<\h8b01, \h0003>>,
      <<\hd440, \h0000>>>>

cancel_req ==
    <<<<\hd280, \h0002>>, <<\hd280, \h0c83>>, <<\hd282, \h0001>>, <<\hd370, \hbc21>>,
      <<\hd280, \h0002>>, <<\h9100, \h0442>>, <<\heb02, \h007f>>, <<\h54ff, \hffcc>>,
      <<\hd280, \h0004>>, <<\hd440, \h0000>>>>

ld ==
    <<<<\hd282, \h0001>>, <<\hd280, \h0064>>, <<\hd280, \h0085>>, <<\hd370, \hbc21>>,
      <<\hf800, \h0024>>, <<\hf840, \h0026>>, <<\hf802, \h0024>>, <<\hf802, \h8025>>,
      <<\hf842, \h0027>>, <<\hf842, \h8028>>, <<\h8b08, \h00e9>>, <<\hd440, \h0000>>>>

st_loop ==
    <<<<\hd280, \h0002>>, <<\hd280, \h0c83>>, <<\hd282, \h0001>>, <<\hd370, \hbc21>>,
      <<\hd280, \h0064>>, <<\hd280, \h0085>>, <<\h9100, \h0442>>, <<\hf800, \h0024>>,
      <<\hf800, \h8025>>, <<\heb02, \h007f>>, <<\h54ff, \hff8c>>, <<\hf840, \h0026>>,
      <<\hf840, \h8027>>, <<\h8b07, \h00c8>>, <<\h8b02, \h0109>>, <<\hd440, \h0000>>>>

\* The programs build the address of the data region as 4096 * 2^16: here it
\* is DataStart, of which the last four digits are 0.
Scaled(word) ==
    CASE word.op = "MOVZ" /\ word.imm = 4096 -> [word EXCEPT !.imm = DataStart \div 16]
      [] word.op = "LSLI"                    -> [word EXCEPT !.imm = LongBits - 1 - 4]
      [] OTHER                               -> word

Loaded(file) == [i \in DOMAIN file |-> Scaled(Decoded(file[i]))]

GradedPrograms == {Loaded(file) : file \in {br_same, cancel_req, ld, st_loop}}

\* The simulator starts with every register 0.
ZeroRegisters == {[r \in Regs |-> 0]}

-----------------------------------------------------------------------------
\* What a finished run leaves, in the numbers rdump prints: the registers
\* other than 0, the instructions retired, the cycles, and PC.
Outcome(registers, retired, cycles, pc) ==
    [registers |-> registers, retired |-> retired, cycles |-> cycles, pc |-> pc]

Graded ==
    CASE program = Loaded(br_same) ->
             Outcome((0 :> 1) @@ (1 :> 1) @@ (3 :> 2), 11, 35, 56)
      [] program = Loaded(cancel_req) ->
             Outcome((1 :> DataStart) @@ (2 :> 100) @@ (3 :> 100), 307, 353, 44)
      [] program = Loaded(ld) ->
             Outcome((1 :> DataStart) @@ (4 :> 3) @@ (5 :> 4) @@ (6 :> 3)
                        @@ (7 :> 3) @@ (8 :> 4) @@ (9 :> 7), 12, 48, 52)
      [] program = Loaded(st_loop) ->
             Outcome((1 :> DataStart) @@ (2 :> 100) @@ (3 :> 100) @@ (4 :> 3)
                        @@ (5 :> 4) @@ (6 :> 3) @@ (7 :> 4) @@ (8 :> 7)
                        @@ (9 :> 107), 511, 560, 64)

\* A finished run of a program of the repository has computed what the
\* program says, retired each of its instructions once, and taken the number
\* of cycles the reference simulator is graded by (src/README.md, sim).
GradedResults ==
    RUN_BIT = 0 /\ stage = "begin" =>
        /\ \A r \in Regs : REGS[r] = IF r \in DOMAIN Graded.registers
                                     THEN Graded.registers[r] ELSE 0
        /\ stat_inst_retire = Graded.retired
        /\ stat_cycles = Graded.cycles
        /\ PC = TextStart + Graded.pc

=============================================================================
