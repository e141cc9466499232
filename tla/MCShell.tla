------------------------------- MODULE MCShell ------------------------------
(***************************************************************************)
(* The shell over short programs: one with a load-use stall, a data miss   *)
(* and forwarded results, one that reads a register long after anything    *)
(* was forwarded, and one to be loaded under or over the first.            *)
(***************************************************************************)
EXTENDS Shell, Assembly

\* A program and the ways to load it.
File(words) == [words |-> words, wellFormed |-> TRUE]

ShortOne == <<Reg("ADD", 3, 2, 2), Access("LDUR", 2, 1, 0), Reg("ADD", 3, 2, 3), Halt>>
LateRead == <<Movz(0, 1), Reg("ADD", 3, 0, 0), Movz(0, 1), Movz(0, 1),
              Imm("ADDI", 3, 2, 1), Halt>>
LongOne  == <<Movz(2, 3), Access("STUR", 2, 1, 0), Compare(2, 3), Cond("BGT", 2),
              Halt, Halt>>

Lists == {<<File(LateRead)>>,
          <<File(LongOne), File(ShortOne)>>, <<File(ShortOne), File(LongOne)>>,
          <<File(ShortOne), [words |-> <<Halt>>, wellFormed |-> FALSE]>>, <<>>}

LoadedPrograms == {Loaded(list) : list \in Lists}

\* A negative count simulates nothing.
Counts == {-1, 1, 4}

\* Two registers; the flags as 1 and 2; PC on the third word of the program.
Entries == {<<2, 5>>, <<3, 0>>, <<FlagsIndex, 2^IntBits * 2 + 1>>,
            <<PCIndex, TextStart + 8>>}

AddressRegisters == {[r \in Regs |-> IF r = 1 THEN DataStart ELSE 0]}
=============================================================================
