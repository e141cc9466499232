--------------------------- MODULE OperatorLemmas ---------------------------
(***************************************************************************)
(* What the operators the models are built from return, preserve and       *)
(* bound: the arithmetic of Words and the tables of PredictorOps, for      *)
(* every width, and the caches of CacheOps, for every number of sets and   *)
(* ways.                                                                   *)
(*                                                                         *)
(* The powers of two and the sums over the bits of a word are functions    *)
(* defined by recursion.  What is said of them for every argument is       *)
(* proved by a least counterexample (LeastNatural).                        *)
(***************************************************************************)
EXTENDS PredictorOps, CacheOps, WellFoundedInduction, TLAPS

(* A non-empty set of naturals has a least element.                        *)
LEMMA LeastNatural ==
  ASSUME NEW S, S \subseteq Nat, S # {}
  PROVE  \E m \in S : \A x \in S : m <= x
  <1> DEFINE R == OpToRel(<, Nat)
  <1>1. IsWellFoundedOn(R, Nat)
    BY NatLessThanWellFounded
  <1>2. \A x, y \in Nat : x < y => <<x, y>> \in R
    BY DEF OpToRel
  <1> HIDE DEF R
  <1>3. \E m \in S : \A x \in S : ~(<<x, m>> \in R)
    BY <1>1, WFMin
  <1>4. PICK m \in S : \A x \in S : ~(<<x, m>> \in R)
    BY <1>3
  <1>5. \A x \in S : ~(x < m)
    BY <1>2, <1>4, Zenon
  <1> QED BY <1>5

-----------------------------------------------------------------------------
(* Division and remainder.                                                 *)

(* A remainder is a natural number below the modulus.                      *)
LEMMA Remainder ==
  ASSUME NEW x \in Int, NEW m \in Nat \ {0}
  PROVE  x % m \in 0 .. m - 1
  OBVIOUS

(* A natural number is not made greater by a division.                     *)
LEMMA Quotient ==
  ASSUME NEW x \in Nat, NEW m \in Nat \ {0}
  PROVE  x \div m \in 0 .. x
  <1> DEFINE q == x \div m
             r == x % m
  <1>1. q \in Nat /\ r \in Nat /\ x = m * q + r
    OBVIOUS
  <1> HIDE DEF q, r
  <1>2. m * q >= q
    BY <1>1
  <1>3. q \in 0 .. x
    BY <1>1, <1>2
  <1> QED BY <1>3 DEF q

(* A number of two digits: the lower one below m, the upper one below n.   *)
LEMMA TwoDigits ==
  ASSUME NEW m \in Nat, NEW n \in Nat, NEW low \in 0 .. m - 1, NEW high \in 0 .. n - 1
  PROVE  low + m * high \in 0 .. m * n - 1
  <1>1. m * (high + 1) <= m * n
    <2>1. \A a, b, c \in Nat : a <= b => c * a <= c * b
      OBVIOUS
    <2> QED BY <2>1
  <1>2. m * (high + 1) = m * high + m /\ m * high \in Nat /\ m * n \in Nat
    OBVIOUS
  <1> QED BY <1>1, <1>2

(* The upper digit of such a number.                                       *)
LEMMA UpperDigit ==
  ASSUME NEW m \in Nat \ {0}, NEW n \in Nat \ {0}, NEW x \in 0 .. m * n - 1
  PROVE  x \div m \in 0 .. n - 1
  <1> DEFINE q == x \div m
             r == x % m
  <1>0. m * n \in Nat /\ x \in Nat
    OBVIOUS
  <1>1. q \in Nat /\ r \in Nat /\ x = m * q + r
    BY <1>0
  <1> HIDE DEF q, r
  <1>2. ASSUME q >= n PROVE FALSE
    <2>1. \A a, b, c \in Nat : a <= b => c * a <= c * b
      OBVIOUS
    <2>2. m * n <= m * q
      BY <1>1, <1>2, <2>1
    <2> QED BY <1>0, <1>1, <2>2
  <1> QED BY <1>1, <1>2 DEF q

(* A quotient and a remainder are the only ones.                           *)
LEMMA TheRemainder ==
  ASSUME NEW m \in Nat \ {0}, NEW q \in Nat, NEW r \in 0 .. m - 1
  PROVE  (r + m * q) % m = r /\ (r + m * q) \div m = q
  <1> DEFINE x == r + m * q
             p == x \div m
             s == x % m
  <1>1. x \in Nat /\ m * q \in Nat
    OBVIOUS
  <1>2. p \in Nat /\ s \in 0 .. m - 1 /\ x = m * p + s
    BY <1>1
  <1>3. r + m * q = m * p + s
    BY <1>2
  <1> HIDE DEF x, p, s
  <1>4. \A a, b \in Nat : a > b => m * a >= m * b + m
    <2>1. \A a, b, c \in Nat : a <= b => c * a <= c * b
      OBVIOUS
    <2> SUFFICES ASSUME NEW a \in Nat, NEW b \in Nat, a > b
                 PROVE  m * a >= m * b + m
      OBVIOUS
    <2>2. m * (b + 1) <= m * a
      BY <2>1
    <2>3. m * (b + 1) = m * b + m
      OBVIOUS
    <2> QED BY <2>2, <2>3
  <1>5. m * p \in Nat /\ m * q \in Nat
    BY <1>2
  <1>6. ~(p > q) /\ ~(q > p)
    BY <1>2, <1>3, <1>4, <1>5
  <1>7. p = q
    BY <1>2, <1>6
  <1>8. s = r
    BY <1>2, <1>3, <1>5, <1>7
  <1> QED BY <1>7, <1>8 DEF p, s, x

-----------------------------------------------------------------------------
(* Powers of two.                                                          *)

Widths == 0 .. LongBits

(* The powers up to the width of a register are positive.                  *)
LEMMA PowersArePositive == \A n \in Widths : 2^n \in Nat \ {0}
  <1> DEFINE bad == {n \in Widths : 2^n \notin Nat \ {0}}
  <1>1. SUFFICES ASSUME bad # {} PROVE FALSE
    OBVIOUS
  <1>2. bad \subseteq Nat /\ LongBits \in Nat
    BY ByteBitsAssumption DEF Widths, LongBits
  <1>3. PICK m \in bad : \A x \in bad : m <= x
    BY <1>1, <1>2, LeastNatural
  <1>4. m # 0
    <2>1. 2^0 \in Nat \ {0}
      BY ByteBitsAssumption
    <2>2. 0 \notin bad
      BY <2>1
    <2> QED BY <1>3, <2>2
  <1>5. m \in 1 .. LongBits /\ m - 1 \in Widths /\ m - 1 \notin bad
    BY <1>2, <1>3, <1>4 DEF Widths
  <1>6. 2^m = 2 * 2^(m - 1) /\ 2^(m - 1) \in Nat \ {0}
    BY <1>5, ByteBitsAssumption
  <1> QED BY <1>3, <1>6

(* The power of a sum is the product of the powers.                        *)
LEMMA PowersMultiply ==
  ASSUME NEW a \in Nat, NEW b \in Nat, a + b <= LongBits
  PROVE  2^(a + b) = 2^a * 2^b
  <1> DEFINE bad == {n \in 0 .. b : 2^(a + n) # 2^a * 2^n}
  <1>1. SUFFICES ASSUME bad # {} PROVE FALSE
    OBVIOUS
  <1>2. bad \subseteq Nat /\ LongBits \in Nat
    BY ByteBitsAssumption DEF LongBits
  <1>3. PICK m \in bad : \A x \in bad : m <= x
    BY <1>1, <1>2, LeastNatural
  <1>4. m # 0
    <2>1. 2^a \in Nat
      BY <1>2, PowersArePositive DEF Widths
    <2>2. 2^0 = 1 /\ a + 0 = a
      BY ByteBitsAssumption
    <2>3. 2^(a + 0) = 2^a * 2^0
      BY <2>1, <2>2
    <2> QED BY <2>3
  <1>5. /\ m \in 1 .. LongBits /\ a + m \in 1 .. LongBits
        /\ m - 1 \in 0 .. b /\ m - 1 \notin bad
    BY <1>2, <1>3, <1>4
  <1>6. /\ 2^m = 2 * 2^(m - 1) /\ 2^(a + m) = 2 * 2^((a + m) - 1)
        /\ 2^(a + (m - 1)) = 2^a * 2^(m - 1)
        /\ (a + m) - 1 = a + (m - 1)
    BY <1>5, ByteBitsAssumption
  <1>7. 2^a \in Nat /\ 2^(m - 1) \in Nat
    BY <1>2, <1>5, PowersArePositive DEF Widths
  <1>8. 2^(a + m) = 2 * (2^a * 2^(m - 1)) /\ 2^a * 2^m = 2^a * (2 * 2^(m - 1))
    BY <1>6
  <1>9. \A x, y \in Nat : 2 * (x * y) = x * (2 * y)
    OBVIOUS
  <1> QED BY <1>3, <1>7, <1>8, <1>9

(* A greater width has the greater power.                                  *)
LEMMA PowersGrow ==
  ASSUME NEW a \in Widths, NEW b \in Widths, a <= b
  PROVE  2^a <= 2^b
  <1>1. a \in Nat /\ b \in Nat /\ LongBits \in Nat
    BY ByteBitsAssumption DEF Widths, LongBits
  <1>2. b - a \in Nat /\ a + (b - a) = b
    BY <1>1
  <1>3. b - a \in Widths
    BY <1>1 DEF Widths
  <1>4. 2^b = 2^a * 2^(b - a)
    <2>1. 2^(a + (b - a)) = 2^a * 2^(b - a)
      BY <1>1, <1>2, <1>3, PowersMultiply DEF Widths
    <2> QED BY <1>2, <2>1
  <1>5. 2^a \in Nat \ {0} /\ 2^(b - a) \in Nat \ {0}
    BY <1>3, PowersArePositive
  <1>6. \A x, y \in Nat \ {0} : x <= x * y
    OBVIOUS
  <1> QED BY <1>4, <1>5, <1>6

(* The widths of the machine are among them, and a register is twice as    *)
(* wide as a word.                                                         *)
LEMMA MachineWidths ==
  /\ ByteBits \in Nat \ {0} /\ IntBits \in Nat /\ LongBits \in Nat \ {0}
  /\ {ByteBits, 2 * ByteBits, 3 * ByteBits, IntBits, IntBits - 1, LongBits, IndexBits}
        \subseteq Widths
  /\ 2^LongBits = 2^IntBits * 2^IntBits
  /\ 2^(2 * ByteBits) = 2^ByteBits * 2^ByteBits
  /\ 2^IntBits = 2^ByteBits * (2^ByteBits * (2^ByteBits * 2^ByteBits))
  <1>1. /\ ByteBits \in Nat \ {0} /\ IntBits \in Nat /\ LongBits \in Nat \ {0}
        /\ {ByteBits, 2 * ByteBits, 3 * ByteBits, IntBits, IntBits - 1, LongBits}
              \subseteq Widths
    BY ByteBitsAssumption DEF Widths, IntBits, LongBits
  <1>2. IndexBits \in Widths
    BY <1>1, IndexBitsAssumption DEF Widths
  <1>3. 2^LongBits = 2^IntBits * 2^IntBits
    <2>1. LongBits = IntBits + IntBits
      BY <1>1 DEF IntBits, LongBits
    <2> QED BY <1>1, <2>1, PowersMultiply
  <1>4. 2^(2 * ByteBits) = 2^ByteBits * 2^ByteBits
    <2>1. 2 * ByteBits = ByteBits + ByteBits /\ ByteBits + ByteBits <= LongBits
      BY <1>1 DEF LongBits
    <2> QED BY <1>1, <2>1, PowersMultiply
  <1>5. 2^(3 * ByteBits) = 2^ByteBits * 2^(2 * ByteBits)
    <2>1. 3 * ByteBits = ByteBits + 2 * ByteBits /\ ByteBits + 2 * ByteBits <= LongBits
          /\ 2 * ByteBits \in Nat
      BY <1>1 DEF LongBits
    <2> QED BY <1>1, <2>1, PowersMultiply
  <1>6. 2^IntBits = 2^ByteBits * 2^(3 * ByteBits)
    <2>1. IntBits = ByteBits + 3 * ByteBits /\ ByteBits + 3 * ByteBits <= LongBits
          /\ 3 * ByteBits \in Nat
      BY <1>1 DEF LongBits, IntBits
    <2> QED BY <1>1, <2>1, PowersMultiply
  <1> QED BY <1>1, <1>2, <1>3, <1>4, <1>5, <1>6

(* The moduli of the conversions are positive.                             *)
LEMMA Moduli ==
  /\ {2^ByteBits, 2^(2 * ByteBits), 2^IntBits, 2^(IntBits - 1), 2^LongBits, 2^IndexBits}
        \subseteq Nat \ {0}
  /\ 2^ByteBits <= 2^IntBits /\ 2^(2 * ByteBits) <= 2^IntBits
  /\ 2^(IntBits - 1) <= 2^IntBits /\ 2^IntBits <= 2^LongBits
  <1>1. {2^ByteBits, 2^(2 * ByteBits), 2^IntBits, 2^(IntBits - 1), 2^LongBits, 2^IndexBits}
           \subseteq Nat \ {0}
    BY MachineWidths, PowersArePositive
  <1>2. ByteBits <= IntBits /\ 2 * ByteBits <= IntBits /\ IntBits - 1 <= IntBits
        /\ IntBits <= LongBits
    BY MachineWidths DEF IntBits, LongBits
  <1> QED BY <1>1, <1>2, MachineWidths, PowersGrow

(* Of two powers the greater is a multiple of the lesser.                  *)
LEMMA PowersDivide ==
  ASSUME NEW j \in Widths, NEW k \in Widths
  PROVE  2^k <= 2^j \/ (k - j \in Widths /\ 2^k = 2^j * 2^(k - j))
  <1>1. j \in Nat /\ k \in Nat /\ LongBits \in Nat /\ k <= LongBits
    BY MachineWidths DEF Widths
  <1>2. CASE k <= j
    BY <1>2, PowersGrow
  <1>3. CASE k > j
    <2>1. k - j \in Nat /\ j + (k - j) = k /\ k - j \in Widths
      BY <1>1, <1>3 DEF Widths
    <2>2. 2^(j + (k - j)) = 2^j * 2^(k - j)
      BY <1>1, <2>1, PowersMultiply
    <2> QED BY <2>1, <2>2
  <1> QED BY <1>1, <1>2, <1>3

(* The set counts and the size of a block are powers.                      *)
LEMMA SmallPowers ==
  /\ 0 .. 8 \subseteq Widths
  /\ 2^2 = 4 /\ 2^3 = 8 /\ 2^4 = 16 /\ 2^5 = 32 /\ 2^6 = 64 /\ 2^8 = 256
  <1>1. LongBits \in Nat /\ LongBits >= 8
    BY MachineWidths DEF LongBits
  <1>2. \A n \in 1 .. 8 : 2^n = 2 * 2^(n - 1)
    BY <1>1, ByteBitsAssumption
  <1>3. /\ 2^1 = 2 * 2^0 /\ 2^2 = 2 * 2^1 /\ 2^3 = 2 * 2^2 /\ 2^4 = 2 * 2^3
        /\ 2^5 = 2 * 2^4 /\ 2^6 = 2 * 2^5 /\ 2^7 = 2 * 2^6 /\ 2^8 = 2 * 2^7
    <2>1. /\ 1 - 1 = 0 /\ 2 - 1 = 1 /\ 3 - 1 = 2 /\ 4 - 1 = 3
          /\ 5 - 1 = 4 /\ 6 - 1 = 5 /\ 7 - 1 = 6 /\ 8 - 1 = 7
      OBVIOUS
    <2>2. /\ 2^1 = 2 * 2^(1 - 1) /\ 2^2 = 2 * 2^(2 - 1) /\ 2^3 = 2 * 2^(3 - 1)
          /\ 2^4 = 2 * 2^(4 - 1) /\ 2^5 = 2 * 2^(5 - 1) /\ 2^6 = 2 * 2^(6 - 1)
          /\ 2^7 = 2 * 2^(7 - 1) /\ 2^8 = 2 * 2^(8 - 1)
      BY <1>2
    <2> QED BY <2>1, <2>2
  <1>4. 2^0 = 1
    BY ByteBitsAssumption
  <1> QED BY <1>1, <1>3, <1>4 DEF Widths

-----------------------------------------------------------------------------
(* Conversions.                                                            *)

(* Bytes, words and registers are natural numbers, each kind among the     *)
(* next.                                                                   *)
LEMMA Inclusions ==
  /\ Byte \subseteq Word /\ Word \subseteq Long /\ Long \subseteq Nat
  /\ {0, 1} \subseteq Byte
  <1>1. 2^ByteBits >= 2
    <2>1. 2^1 = 2 * 2^(1 - 1) /\ 1 - 1 = 0
      BY ByteBitsAssumption, MachineWidths
    <2>2. 2^1 = 2
      BY <2>1, ByteBitsAssumption
    <2>3. 1 \in Widths /\ 1 <= ByteBits
      BY MachineWidths DEF Widths
    <2>4. 2^1 <= 2^ByteBits
      BY <2>3, MachineWidths, PowersGrow
    <2> QED BY <2>2, <2>4, Moduli
  <1> QED BY <1>1, Moduli DEF Byte, Word, Long

(* Each conversion of C yields a value of its type.                        *)
LEMMA Conversions ==
  ASSUME NEW x \in Int
  PROVE  /\ ToLong(x) \in Long /\ ToWord(x) \in Word /\ ToInt(x) \in Long
         /\ LowByte(x) \in Byte /\ LowHalfword(x) \in Word
  <1>1. ToLong(x) \in Long
    BY Remainder, Moduli DEF ToLong, Long
  <1>2. ToWord(x) \in Word
    BY Remainder, Moduli DEF ToWord, Word
  <1>3. ToInt(x) \in Long
    BY <1>2, Moduli DEF ToInt, Word, Long
  <1>4. LowByte(x) \in Byte
    BY Remainder, Moduli DEF LowByte, Byte
  <1>5. LowHalfword(x) \in Word
    <2>1. x % 2^(2 * ByteBits) \in 0 .. 2^(2 * ByteBits) - 1
      BY Remainder, Moduli
    <2> QED BY <2>1, Moduli DEF LowHalfword, Word
  <1> QED BY <1>1, <1>2, <1>3, <1>4, <1>5

(* The two halves of a register are words.                                 *)
LEMMA UpperHalf ==
  ASSUME NEW x \in Long
  PROVE  HighWord(x) \in Word
  BY MachineWidths, Moduli, UpperDigit DEF Long, Word, HighWord

(* The parts of a register value that are stored or loaded.                *)
LEMMA PartsOfLongs ==
  ASSUME NEW x \in Long
  PROVE  /\ {ToWord(x), HighWord(x), LowByte(x), LowHalfword(x)} \subseteq Word
         /\ {ToWord(x), HighWord(x), LowByte(x), LowHalfword(x)} \subseteq Long
  <1>1. x \in Int
    BY Inclusions
  <1>2. /\ ToWord(x) \in Word /\ HighWord(x) \in Word
        /\ LowByte(x) \in Byte /\ LowHalfword(x) \in Word
    BY <1>1, Conversions, UpperHalf
  <1> QED BY <1>2, Inclusions

(* Two words make a register ...                                           *)
LEMMA TwoWords ==
  ASSUME NEW low \in Word, NEW high \in Word
  PROVE  low + 2^IntBits * high \in Long
  BY MachineWidths, Moduli, TwoDigits DEF Long, Word

(* ... and four bytes a word.                                              *)
LEMMA FourBytes ==
  ASSUME NEW a \in Byte, NEW b \in Byte, NEW c \in Byte, NEW d \in Byte
  PROVE  a + 2^ByteBits * (b + 2^ByteBits * (c + 2^ByteBits * d)) \in Word
  <1> DEFINE m == 2^ByteBits
  <1>0. m \in Nat \ {0} /\ Byte = 0 .. m - 1
    BY Moduli DEF Byte
  <1>w. Word = 0 .. m * (m * (m * m)) - 1
    BY MachineWidths DEF Word
  <1> HIDE DEF m
  <1>1. m * m \in Nat /\ m * (m * m) \in Nat
    BY <1>0
  <1>2. c + m * d \in 0 .. m * m - 1
    BY <1>0, TwoDigits
  <1>3. b + m * (c + m * d) \in 0 .. m * (m * m) - 1
    BY <1>0, <1>1, <1>2, TwoDigits
  <1>4. a + m * (b + m * (c + m * d)) \in 0 .. m * (m * (m * m)) - 1
    BY <1>0, <1>1, <1>3, TwoDigits
  <1> QED BY <1>4, <1>w DEF m

(* Shifts by less than the width stay within it.                           *)
LEMMA Shifts ==
  ASSUME NEW x \in Long, NEW n \in 0 .. LongBits - 1
  PROVE  ShiftLeft(x, n) \in Long /\ ShiftRight(x, n) \in Long
  <1>1. n \in Nat /\ LongBits - n \in Nat /\ {n, LongBits - n} \subseteq Widths
        /\ (LongBits - n) + n = LongBits
    BY MachineWidths DEF Widths
  <1> DEFINE p == 2^n
             q == 2^(LongBits - n)
             r == x % q
  <1>2. p \in Nat \ {0} /\ q \in Nat \ {0}
    BY <1>1, PowersArePositive
  <1>3. 2^LongBits = q * p
    <2>1. 2^((LongBits - n) + n) = q * p
      BY <1>1, MachineWidths, PowersMultiply
    <2> QED BY <1>1, <2>1
  <1>4. x \in Nat
    BY Inclusions
  <1> HIDE DEF p, q
  <1>5. r \in 0 .. q - 1
    BY <1>2, <1>4, Remainder
  <1>6. x \div p \in 0 .. x
    BY <1>2, <1>4, Quotient
  <1> HIDE DEF r
  <1>7. r * p \in 0 .. q * p - 1
    <2>1. 0 + p * r \in 0 .. p * q - 1
      BY <1>2, <1>5, TwoDigits
    <2>2. p * r = r * p /\ p * q = q * p /\ r * p \in Int
      BY <1>2, <1>5
    <2> QED BY <2>1, <2>2
  <1>8. ShiftLeft(x, n) = r * p /\ ShiftRight(x, n) = x \div p
    BY DEF ShiftLeft, ShiftRight, p, q, r
  <1>9. x \in 0 .. q * p - 1 /\ Long = 0 .. q * p - 1
    BY <1>3 DEF Long
  <1>10. x \div p \in 0 .. q * p - 1
    <2>1. \A y, z, m \in Int : y \in 0 .. z /\ z \in 0 .. m - 1 => y \in 0 .. m - 1
      OBVIOUS
    <2>2. x \div p \in Int /\ x \in Int /\ q * p \in Int
      BY <1>2, <1>4, <1>6
    <2> QED BY <1>6, <1>9, <2>1, <2>2, Zenon
  <1> QED BY <1>7, <1>8, <1>9, <1>10

-----------------------------------------------------------------------------
(* Sums and bits.                                                          *)

\* The function SumBelow looks up.
IsSum(s, f, n) == s = [i \in 0 .. n |-> IF i = 0 THEN 0 ELSE s[i - 1] + f[i - 1]]

(* The recursion of SumBelow defines a function.                           *)
LEMMA SumsExist ==
  ASSUME NEW f, NEW n \in Nat
  PROVE  \E s : IsSum(s, f, n)
  <1> DEFINE bad == {k \in Nat : \A s : ~IsSum(s, f, k)}
  <1>1. SUFFICES bad = {}
    OBVIOUS
  <1>2. SUFFICES ASSUME bad # {} PROVE FALSE
    OBVIOUS
  <1>3. PICK m \in bad : \A x \in bad : m <= x
    BY <1>2, LeastNatural
  <1>4. m # 0
    <2>1. IsSum([i \in 0 .. 0 |-> 0], f, 0)
      BY DEF IsSum
    <2> QED BY <1>3, <2>1
  <1>5. m \in Nat /\ m - 1 \in Nat /\ m - 1 \notin bad
    BY <1>3, <1>4
  <1>6. PICK s : IsSum(s, f, m - 1)
    BY <1>5
  <1> DEFINE t == [i \in 0 .. m |-> IF i = m THEN s[m - 1] + f[m - 1] ELSE s[i]]
  <1>7. \A i \in 0 .. m : t[i] = IF i = 0 THEN 0 ELSE t[i - 1] + f[i - 1]
    <2>1. \A i \in 0 .. m - 1 : s[i] = IF i = 0 THEN 0 ELSE s[i - 1] + f[i - 1]
      BY <1>6 DEF IsSum
    <2> SUFFICES ASSUME NEW i \in 0 .. m
                 PROVE  t[i] = IF i = 0 THEN 0 ELSE t[i - 1] + f[i - 1]
      OBVIOUS
    <2>2. CASE i = m
      <3>1. t[i] = s[m - 1] + f[m - 1] /\ t[i - 1] = s[m - 1]
        BY <1>5, <2>2
      <3> QED BY <1>4, <2>2, <3>1
    <2>3. CASE i # m
      <3>1. i \in 0 .. m - 1
        BY <1>5, <2>3
      <3>2. t[i] = s[i] /\ (i # 0 => t[i - 1] = s[i - 1])
        BY <1>5, <2>3, <3>1
      <3> QED BY <2>1, <3>1, <3>2
    <2> QED BY <2>2, <2>3
  <1>8. IsSum(t, f, m)
    <2>1. DOMAIN t = 0 .. m
      OBVIOUS
    <2> QED BY <1>7, <2>1 DEF IsSum
  <1> QED BY <1>3, <1>8

(* A sum of parts each of which is 0 or below the power of its place stays *)
(* below the power of the width; in any case it is a natural number.       *)
LEMMA SumsAreBounded ==
  ASSUME NEW n \in Widths, NEW f, \A i \in 0 .. n - 1 : f[i] \in Nat
  PROVE  /\ SumBelow(f, n) \in Nat
         /\ (\A i \in 0 .. n - 1 : f[i] <= 2^i) => SumBelow(f, n) \in 0 .. 2^n - 1
  <1>n. n \in Nat /\ LongBits \in Nat /\ n <= LongBits
    BY MachineWidths DEF Widths
  <1> DEFINE s == CHOOSE t : IsSum(t, f, n)
  <1>1. IsSum(s, f, n)
    BY <1>n, SumsExist
  <1>2. SumBelow(f, n) = s[n]
    BY DEF SumBelow, IsSum
  <1> HIDE DEF s
  <1>3. s[0] = 0 /\ \A i \in 1 .. n : s[i] = s[i - 1] + f[i - 1]
    BY <1>n, <1>1 DEF IsSum
  <1> DEFINE small == \A i \in 0 .. n - 1 : f[i] <= 2^i
             bad == {i \in 0 .. n : ~(s[i] \in Nat /\ (small => s[i] <= 2^i - 1))}
  <1>4. SUFFICES ASSUME bad # {} PROVE FALSE
    <2>1. 2^n \in Nat
      BY PowersArePositive
    <2> QED BY <1>n, <1>2, <1>4, <2>1
  <1>5. PICK m \in bad : \A x \in bad : m <= x
    <2>1. bad \subseteq Nat
      BY <1>n
    <2> HIDE DEF bad
    <2> QED BY <1>4, <2>1, LeastNatural
  <1>6. m # 0
    <2>1. 0 \notin bad
      BY <1>3, ByteBitsAssumption
    <2> QED BY <1>5, <2>1
  <1>7. m \in 1 .. n /\ m - 1 \in 0 .. n - 1 /\ m - 1 \notin bad
    BY <1>n, <1>5, <1>6
  <1>8. s[m - 1] \in Nat /\ (small => s[m - 1] <= 2^(m - 1) - 1)
    BY <1>n, <1>7
  <1>9. s[m] = s[m - 1] + f[m - 1] /\ f[m - 1] \in Nat
        /\ (small => f[m - 1] <= 2^(m - 1))
    BY <1>3, <1>7
  <1>10. 2^m = 2 * 2^(m - 1) /\ 2^(m - 1) \in Nat
    <2>1. m \in 1 .. LongBits /\ m - 1 \in Widths
      BY <1>n, <1>7 DEF Widths
    <2> QED BY <2>1, ByteBitsAssumption, PowersArePositive
  <1>11. s[m] \in Nat /\ (small => s[m] <= 2^m - 1)
    <2> HIDE DEF small
    <2> QED BY <1>8, <1>9, <1>10
  <1> QED BY <1>5, <1>11

(* A bit of a natural number is 0 or 1.                                    *)
LEMMA BitValues ==
  ASSUME NEW x \in Nat, NEW i \in Widths
  PROVE  Bit(x, i) \in {0, 1}
  <1>1. x \div 2^i \in Nat
    BY PowersArePositive, Quotient
  <1> QED BY <1>1 DEF Bit

(* The bits of an exclusive or make a value of their number.               *)
LEMMA Xors ==
  ASSUME NEW x \in Nat, NEW y \in Nat, NEW n \in Widths
  PROVE  Xor(x, y, n) \in 0 .. 2^n - 1
  <1> DEFINE f == [i \in 0 .. n - 1 |-> ((Bit(x, i) + Bit(y, i)) % 2) * 2^i]
  <1>1. Xor(x, y, n) = SumBelow(f, n)
    BY DEF Xor, PerBit
  <1>2. ASSUME NEW i \in 0 .. n - 1
        PROVE  f[i] \in Nat /\ f[i] <= 2^i
    <2>1. i \in Widths
      BY MachineWidths DEF Widths
    <2>2. (Bit(x, i) + Bit(y, i)) % 2 \in {0, 1} /\ 2^i \in Nat
      BY <2>1, BitValues, PowersArePositive
    <2> QED BY <2>2
  <1> HIDE DEF f
  <1> QED BY <1>1, <1>2, SumsAreBounded

(* The bits of a conjunction and of a disjunction make a register.         *)
LEMMA AndsAndOrs ==
  ASSUME NEW x \in Nat, NEW y \in Nat
  PROVE  And(x, y) \in Long /\ Or(x, y) \in Long
  <1> DEFINE n == LongBits
             f == [i \in 0 .. n - 1 |-> (Bit(x, i) * Bit(y, i)) * 2^i]
             g == [i \in 0 .. n - 1 |-> (Bit(x, i) + Bit(y, i) - Bit(x, i) * Bit(y, i)) * 2^i]
  <1>1. And(x, y) = SumBelow(f, n) /\ Or(x, y) = SumBelow(g, n)
    BY DEF And, Or, PerBit
  <1>2. ASSUME NEW i \in 0 .. n - 1
        PROVE  f[i] \in Nat /\ f[i] <= 2^i /\ g[i] \in Nat /\ g[i] <= 2^i
    <2>1. i \in Widths
      BY MachineWidths DEF Widths
    <2>2. 2^i \in Nat /\ Bit(x, i) \in {0, 1} /\ Bit(y, i) \in {0, 1}
      BY <2>1, BitValues, PowersArePositive
    <2>3. /\ Bit(x, i) * Bit(y, i) \in {0, 1}
          /\ Bit(x, i) + Bit(y, i) - Bit(x, i) * Bit(y, i) \in {0, 1}
      BY <2>2
    <2> QED BY <2>2, <2>3
  <1> HIDE DEF f, g
  <1>3. n \in Widths /\ Long = 0 .. 2^n - 1
    BY MachineWidths DEF Long
  <1> QED BY <1>1, <1>2, <1>3, SumsAreBounded

(* A product is cut to a register.                                         *)
LEMMA Products ==
  ASSUME NEW x \in Nat, NEW y \in Long
  PROVE  Times(x, y) \in Long
  <1> DEFINE n == LongBits
             f == [i \in 0 .. n - 1 |-> Bit(x, i) * ShiftLeft(y, i)]
  <1>1. Times(x, y) = ToLong(SumBelow(f, n))
    BY DEF Times
  <1>2. ASSUME NEW i \in 0 .. n - 1
        PROVE  f[i] \in Nat
    <2>1. i \in Widths
      BY MachineWidths DEF Widths
    <2>2. Bit(x, i) \in {0, 1} /\ ShiftLeft(y, i) \in Nat
      BY <2>1, BitValues, Shifts, Inclusions
    <2> QED BY <2>2
  <1> HIDE DEF f
  <1>3. n \in Widths
    BY MachineWidths
  <1> QED BY <1>1, <1>2, <1>3, SumsAreBounded, Conversions

-----------------------------------------------------------------------------
(* The tables of the predictor.                                            *)

(* Every address selects a row of the buffer, and with the history a       *)
(* counter.                                                                *)
LEMMA TableIndexes ==
  ASSUME NEW a \in Long
  PROVE  /\ address_bits(a) \in Indexes
         /\ \A bp : bp.GHR \in Indexes => PHT_index(bp, a) \in Indexes
  <1>1. a \in Nat /\ 2^IndexBits \in Nat \ {0} /\ IndexBits \in Widths
    BY Inclusions, Moduli, MachineWidths
  <1>2. a \div 4 \in Nat
    BY <1>1
  <1>3. address_bits(a) \in Indexes
    <2> DEFINE q == a \div 4
               m == 2^IndexBits
    <2>1. q \in Nat /\ m \in Nat \ {0}
      BY <1>1, <1>2
    <2> HIDE DEF q, m
    <2>2. q % m \in 0 .. m - 1
      BY <2>1, Remainder
    <2> QED BY <2>2 DEF address_bits, Indexes, q, m
  <1>4. Indexes \subseteq Nat
    BY <1>1 DEF Indexes
  <1>5. \A bp : bp.GHR \in Indexes => PHT_index(bp, a) \in Indexes
    BY <1>1, <1>3, <1>4, Xors DEF PHT_index, Indexes
  <1> QED BY <1>3, <1>5

\* What bp_update leaves of the tables: a history, counters, and the row of
\* the branch filled anew.
Updated(bp, new, a, to, cond) ==
    /\ new = [GHR |-> new.GHR, PHT |-> new.PHT, BTB |-> new.BTB]
    /\ new.GHR \in Indexes
    /\ new.PHT \in [Indexes -> 0 .. 3]
    /\ new.BTB = [bp.BTB EXCEPT
                     ![address_bits(a)] = [pr_address |-> a, br_address |-> to,
                                           valid |-> 1, cond |-> cond]]

(* The tables stay within their bounds, whatever the branch.               *)
LEMMA UpdatedTables ==
  ASSUME NEW bp, bp.GHR \in Indexes, bp.PHT \in [Indexes -> 0 .. 3],
         NEW a, NEW to, NEW taken \in {0, 1}, NEW cond
  PROVE  Updated(bp, bp_update(bp, a, to, taken, cond), a, to, cond)
  <1>1. (2 * bp.GHR + taken) % 2^IndexBits \in Indexes
    <2> DEFINE h == 2 * bp.GHR + taken
               m == 2^IndexBits
    <2>1. h \in Nat /\ m \in Nat \ {0} /\ Indexes = 0 .. m - 1
      BY Moduli DEF Indexes
    <2> HIDE DEF h, m
    <2>2. h % m \in 0 .. m - 1
      BY <2>1, Remainder
    <2> QED BY <2>1, <2>2 DEF h, m
  <1>2. ASSUME NEW i
        PROVE  [bp.PHT EXCEPT ![i] = Saturate(@, taken)] \in [Indexes -> 0 .. 3]
    <2>1. \A c \in 0 .. 3 : Saturate(c, taken) \in 0 .. 3
      BY DEF Saturate
    <2> QED BY <2>1
  <1> QED BY <1>1, <1>2 DEF bp_update, Updated

-----------------------------------------------------------------------------
(* The second word of an access.                                           *)

(* The word behind another is in the same block or in another set, also    *)
(* when its address wraps around to 0.                                     *)
LEMMA SecondWord ==
  ASSUME NEW k \in {IntBits, LongBits}, NEW a \in 0 .. 2^k - 1, NEW n \in SupportedSetCounts
  PROVE  LET b == (a + 4) % 2^k
         IN  \/ a \div BlockBytes = b \div BlockBytes
             \/ (a \div BlockBytes) % n # (b \div BlockBytes) % n
  <1> DEFINE m == 2^k
             b == (a + 4) % m
  <1>k. k \in Widths /\ k >= 4
    BY MachineWidths DEF IntBits, LongBits
  <1>m. m \in Nat \ {0} /\ a \in 0 .. m - 1
    BY <1>k, PowersArePositive
  <1>n. n \in {4, 8, 64, 256}
    BY DEF SupportedSetCounts
  <1>s. m >= 16
    <2>1. 4 \in Widths /\ 4 <= k
      BY <1>k, SmallPowers
    <2>2. 2^4 <= 2^k
      BY <1>k, <2>1, PowersGrow
    <2> QED BY <2>2, SmallPowers
  <1>p. m <= 32 \/ \E p \in Nat : m = 32 * p /\ (p <= n \/ \E q \in Nat : p = n * q)
    <2>1. PICK j \in {2, 3, 6, 8} : n = 2^j
      BY <1>n, SmallPowers
    <2>2. j \in Widths /\ 5 \in Widths
      BY SmallPowers
    <2>3. CASE 2^k <= 2^5
      BY <2>3, SmallPowers
    <2>4. CASE k - 5 \in Widths /\ 2^k = 2^5 * 2^(k - 5)
      <3> DEFINE p == 2^(k - 5)
                 q == 2^((k - 5) - j)
      <3>1. p \in Nat /\ m = 32 * p
        BY <2>4, SmallPowers, PowersArePositive
      <3>2. p <= n \/ (q \in Nat /\ p = n * q)
        BY <2>1, <2>2, <2>4, PowersDivide, PowersArePositive
      <3> HIDE DEF p, q, m
      <3> QED BY <3>1, <3>2
    <2> QED BY <1>k, <2>2, <2>3, <2>4, PowersDivide
  <1> HIDE DEF m
  <1>1. CASE a + 4 < m
    <2>1. b = a + 4
      BY <1>m, <1>1
    <2> DEFINE x == a \div 32
    <2>2. x \in Nat /\ (a + 4) \div 32 \in {x, x + 1}
      BY <1>m
    <2> HIDE DEF x
    <2>3. (x + 1) % n # x % n
      BY <1>n, <2>2
    <2> QED BY <2>1, <2>2, <2>3 DEF BlockBytes, x, m
  <1>2. CASE a + 4 >= m
    <2>1. b = a + 4 - m
      BY <1>m, <1>s, <1>2
    <2>2. b \div 32 = 0 /\ 0 % n = 0
      BY <1>m, <1>n, <2>1
    <2>3. CASE m <= 32
      <3>1. a \div 32 = 0
        BY <1>m, <2>3
      <3> QED BY <2>2, <3>1 DEF BlockBytes, m
    <2>4. ASSUME NEW p \in Nat, m > 32, m = 32 * p, p <= n \/ \E q \in Nat : p = n * q
          PROVE  (a \div 32) % n # 0
      <3>1. a \div 32 = p - 1 /\ p >= 2
        BY <1>m, <1>2, <2>4
      <3>2. CASE p <= n
        BY <1>n, <3>1, <3>2
      <3>3. ASSUME NEW q \in Nat, p = n * q
            PROVE  (a \div 32) % n # 0
        BY <1>n, <3>1, <3>3
      <3> QED BY <2>4, <3>2, <3>3
    <2> QED BY <1>m, <1>p, <2>2, <2>3, <2>4 DEF BlockBytes, m
  <1> QED BY <1>m, <1>1, <1>2

-----------------------------------------------------------------------------
(* The cache.                                                              *)

(* The two parts of an address are a set of the cache and a tag.           *)
LEMMA AddressParts ==
  ASSUME NEW c, NEW addr \in Nat, c.num_sets \in SupportedSetCounts
  PROVE  find_set(c, addr) \in SetIndexes(c) /\ find_tag(c, addr) \in Nat
  <1> DEFINE b == addr \div BlockBytes
  <1>1. b \in Nat
    BY DEF BlockBytes
  <1> HIDE DEF b
  <1>2. c.num_sets \in {4, 8, 64, 256}
    BY DEF SupportedSetCounts
  <1>3. /\ b % c.num_sets \in 0 .. c.num_sets - 1
        /\ b \div c.num_sets \in Nat
    BY <1>1, <1>2
  <1> QED BY <1>3 DEF find_set, find_tag, SetIndexes, b

(* The victim of a fill is an invalid block, or else all are valid and     *)
(* none is older.                                                          *)
LEMMA Victim ==
  ASSUME NEW sets \in SupportedSetCounts, NEW ways \in Nat \ {0},
         NEW c, IsCache(c, sets, ways), NEW s \in SetIndexes(c)
  PROVE  LET w == find_suitable_block(c, s)
         IN  /\ w \in Ways(c)
             /\ \/ c.sets[s][w].v_bit = 0
                \/ \A v \in Ways(c) : /\ c.sets[s][v].v_bit = 1
                                      /\ c.sets[s][w].order <= c.sets[s][v].order
  <1> DEFINE blocks   == c.sets[s]
             invalid  == {w \in Ways(c) : blocks[w].v_bit = 0}
             oldest   == {w \in Ways(c) :
                             \A v \in Ways(c) : blocks[w].order <= blocks[v].order}
             eligible == IF invalid # {} THEN invalid ELSE oldest
  <1>1. \A w \in Ways(c) : blocks[w] \in Blocks
    BY DEF IsCache
  <1>2. Ways(c) \subseteq Nat /\ Ways(c) # {}
    <2>1. Ways(c) = 0 .. ways - 1
      BY DEF Ways, IsCache
    <2>2. 0 \in 0 .. ways - 1 /\ 0 .. ways - 1 \subseteq Nat
      OBVIOUS
    <2> QED BY <2>1, <2>2, Zenon
  <1>3. oldest # {}
    <2> DEFINE orders == {blocks[w].order : w \in Ways(c)}
    <2>1. orders \subseteq Nat /\ orders # {}
      BY <1>1, <1>2 DEF Blocks
    <2>2. PICK m \in orders : \A x \in orders : m <= x
      BY <2>1, LeastNatural
    <2>3. PICK w \in Ways(c) : blocks[w].order = m
      OBVIOUS
    <2> QED BY <2>2, <2>3
  <1>4. eligible \subseteq Ways(c) /\ eligible # {}
    BY <1>3
  <1>5. \E w \in eligible : \A v \in eligible : w <= v
    BY <1>2, <1>4, LeastNatural
  <1>6. find_suitable_block(c, s) = CHOOSE w \in eligible : \A v \in eligible : w <= v
    BY DEF find_suitable_block
  <1>7. find_suitable_block(c, s) \in eligible
    BY <1>5, <1>6
  <1> QED BY <1>1, <1>4, <1>7 DEF Blocks

-----------------------------------------------------------------------------
\* What a use of block w of set s for a tag leaves: that block has the newest
\* stamp, and every other block is as it was.
Stamped(c, d, s, w, tag) ==
    /\ IsCache(d, c.num_sets, c.num_ways)
    /\ d.lru_tracker = c.lru_tracker + 1
    /\ d.sets[s][w].v_bit = 1
    /\ d.sets[s][w].tag = tag
    /\ d.sets[s][w].order = c.lru_tracker
    /\ \A s2 \in SetIndexes(c), w2 \in Ways(c) :
           s2 # s \/ w2 # w => d.sets[s2][w2] = c.sets[s2][w2]

(* A hit only moves the stamp of a block and the clock.                    *)
LEMMA HitFields ==
  ASSUME NEW c, {"num_sets", "num_ways", "lru_tracker", "sets"} \subseteq DOMAIN c,
         NEW s, NEW w
  PROVE  LET d == [c EXCEPT !.sets[s][w].order = c.lru_tracker,
                            !.lru_tracker = @ + 1]
         IN  /\ DOMAIN d = DOMAIN c
             /\ d.num_sets = c.num_sets /\ d.num_ways = c.num_ways
             /\ d.lru_tracker = c.lru_tracker + 1
             /\ d.sets = [c.sets EXCEPT ![s][w].order = c.lru_tracker]
  BY Zenon

(* Stamping a block gives the clock's value to its order, leaves the       *)
(* others alone and advances the clock.                                    *)
LEMMA StampedBlock ==
  ASSUME NEW sets \in SupportedSetCounts, NEW ways \in Nat \ {0},
         NEW c, IsCache(c, sets, ways), NEW s \in SetIndexes(c), NEW w \in Ways(c),
         NEW tag \in Nat, NEW d,
         DOMAIN d = DOMAIN c, d.num_sets = c.num_sets, d.num_ways = c.num_ways,
         d.lru_tracker = c.lru_tracker + 1,
         NEW b \in Blocks, b.v_bit = 1, b.tag = tag, b.order = c.lru_tracker,
         d.sets = [c.sets EXCEPT ![s][w] = b]
  PROVE  Stamped(c, d, s, w, tag)
  <1>1. /\ SetIndexes(d) = SetIndexes(c) /\ Ways(d) = Ways(c)
        /\ c.sets \in [SetIndexes(c) -> [Ways(c) -> Blocks]]
        /\ c.num_sets = sets /\ c.num_ways = ways
        /\ c.lru_tracker \in Nat \ {0}
        /\ DOMAIN c = {"num_sets", "num_ways", "lru_tracker", "sets"}
    BY DEF SetIndexes, Ways, IsCache
  <1>2. d.sets \in [SetIndexes(d) -> [Ways(d) -> Blocks]]
    BY <1>1
  <1>3. IsCache(d, c.num_sets, c.num_ways)
    BY <1>1, <1>2 DEF IsCache
  <1>4. /\ d.sets[s][w] = b
        /\ \A s2 \in SetIndexes(c), w2 \in Ways(c) :
               s2 # s \/ w2 # w => d.sets[s2][w2] = c.sets[s2][w2]
    BY <1>1
  <1> QED BY <1>3, <1>4 DEF Stamped

(* cache_update stamps its victim.                                         *)
LEMMA FillStamps ==
  ASSUME NEW sets \in SupportedSetCounts, NEW ways \in Nat \ {0},
         NEW c, IsCache(c, sets, ways), NEW addr \in Nat
  PROVE  LET s == find_set(c, addr)
         IN  Stamped(c, cache_update(c, addr), s, find_suitable_block(c, s),
                     find_tag(c, addr))
  <1> DEFINE s == find_set(c, addr)
             w == find_suitable_block(c, s)
             tag == find_tag(c, addr)
             b == [v_bit |-> 1, tag |-> tag, order |-> c.lru_tracker]
             d == update_vals(c, s, w, tag)
  <1>1. s \in SetIndexes(c) /\ tag \in Nat
    BY AddressParts DEF IsCache
  <1>2. w \in Ways(c)
    BY <1>1, Victim
  <1>3. b \in Blocks /\ b.v_bit = 1 /\ b.tag = tag /\ b.order = c.lru_tracker
    BY <1>1 DEF Blocks, IsCache
  <1> HIDE DEF s, w, tag
  <1>4. /\ DOMAIN d = DOMAIN c
        /\ d.num_sets = c.num_sets /\ d.num_ways = c.num_ways
        /\ d.lru_tracker = c.lru_tracker + 1
        /\ d.sets = [c.sets EXCEPT ![s][w] = b]
    <2>1. {"num_sets", "num_ways", "lru_tracker", "sets"} \subseteq DOMAIN c
      BY DEF IsCache
    <2> QED BY <2>1, Zenon DEF update_vals
  <1>5. cache_update(c, addr) = d
    BY DEF cache_update, s, w, tag
  <1> HIDE DEF b, d
  <1>6. Stamped(c, d, s, w, tag)
    BY <1>1, <1>2, <1>3, <1>4, StampedBlock
  <1> QED BY <1>5, <1>6 DEF s, w, tag

(* check_cache_hit stamps a block that holds the address, if there is one, *)
(* and otherwise changes nothing.                                          *)
LEMMA HitStamps ==
  ASSUME NEW sets \in SupportedSetCounts, NEW ways \in Nat \ {0},
         NEW c, IsCache(c, sets, ways), NEW addr \in Nat
  PROVE  IF IsHit(c, addr)
         THEN \E w \in HittingWays(c, addr) :
                 Stamped(c, check_cache_hit(c, addr), find_set(c, addr), w,
                         find_tag(c, addr))
         ELSE check_cache_hit(c, addr) = c
  <1>1. CASE ~IsHit(c, addr)
    BY <1>1 DEF check_cache_hit
  <1>2. CASE IsHit(c, addr)
    <2> DEFINE s == find_set(c, addr)
               tag == find_tag(c, addr)
               H == HittingWays(c, addr)
               w == CHOOSE x \in H : \A v \in H : x <= v
               b == [c.sets[s][w] EXCEPT !.order = c.lru_tracker]
               d == [c EXCEPT !.sets[s][w].order = c.lru_tracker, !.lru_tracker = @ + 1]
    <2>1. s \in SetIndexes(c) /\ tag \in Nat
      BY AddressParts DEF IsCache
    <2>2. H # {} /\ H \subseteq Ways(c)
      BY <1>2 DEF IsHit, HittingWays
    <2>3. Ways(c) \subseteq Nat
      BY DEF Ways, IsCache
    <2>4. w \in H
      BY <2>2, <2>3, LeastNatural
    <2>5. /\ c.sets[s][w] \in Blocks
          /\ c.sets[s][w].v_bit = 1 /\ c.sets[s][w].tag = tag
      BY <2>1, <2>2, <2>4 DEF IsCache, HittingWays, Holds
    <2>6. d.sets = [c.sets EXCEPT ![s][w].order = c.lru_tracker]
          /\ DOMAIN d = DOMAIN c
          /\ d.num_sets = c.num_sets /\ d.num_ways = c.num_ways
          /\ d.lru_tracker = c.lru_tracker + 1
      <3>1. {"num_sets", "num_ways", "lru_tracker", "sets"} \subseteq DOMAIN c
        BY DEF IsCache
      <3> QED BY <3>1, HitFields
    <2>7. [c.sets EXCEPT ![s][w].order = c.lru_tracker] = [c.sets EXCEPT ![s][w] = b]
      OBVIOUS
    <2>8. /\ b \in Blocks /\ b.v_bit = 1 /\ b.tag = tag /\ b.order = c.lru_tracker
      <3> DEFINE e == c.sets[s][w]
      <3> HIDE DEF w, s, tag
      <3>1. e \in Blocks
        BY <2>5
      <3>2. c.lru_tracker \in Nat
        BY DEF IsCache
      <3>3. /\ b.v_bit = e.v_bit /\ b.tag = e.tag /\ b.order = c.lru_tracker
            /\ b \in Blocks
        BY <3>1, <3>2 DEF Blocks
      <3> QED BY <2>5, <3>3
    <2>9. check_cache_hit(c, addr) = d
      BY <1>2 DEF check_cache_hit
    <2> HIDE DEF s, tag, H, w, b, d
    <2>10. Stamped(c, d, s, w, tag)
      BY <2>1, <2>2, <2>4, <2>6, <2>7, <2>8, StampedBlock
    <2> QED BY <1>2, <2>4, <2>9, <2>10 DEF s, tag, H
  <1> QED BY <1>1, <1>2

(* Lookups and fills keep the shape of a cache.                            *)
LEMMA CacheKept ==
  ASSUME NEW sets \in SupportedSetCounts, NEW ways \in Nat \ {0},
         NEW c, IsCache(c, sets, ways), NEW addr \in Nat
  PROVE  /\ IsCache(cache_update(c, addr), sets, ways)
         /\ IsCache(check_cache_hit(c, addr), sets, ways)
  <1>1. c.num_sets = sets /\ c.num_ways = ways
    BY DEF IsCache
  <1>2. IsCache(cache_update(c, addr), sets, ways)
    BY <1>1, FillStamps DEF Stamped
  <1>3. IsCache(check_cache_hit(c, addr), sets, ways)
    BY <1>1, HitStamps DEF Stamped
  <1> QED BY <1>2, <1>3

(* An address is found right after a fill for it ...                       *)
LEMMA FilledIsFound ==
  ASSUME NEW sets \in SupportedSetCounts, NEW ways \in Nat \ {0},
         NEW c, IsCache(c, sets, ways), NEW a \in Nat
  PROVE  IsHit(cache_update(c, a), a)
  <1> DEFINE d == cache_update(c, a)
             s == find_set(c, a)
             w == find_suitable_block(c, s)
  <1>1. Stamped(c, d, s, w, find_tag(c, a))
    BY FillStamps
  <1>2. s \in SetIndexes(c)
    BY AddressParts DEF IsCache
  <1>3. w \in Ways(c)
    BY <1>2, Victim
  <1>4. d.num_sets = c.num_sets /\ d.num_ways = c.num_ways
    BY <1>1 DEF Stamped, IsCache
  <1> HIDE DEF d
  <1>5. Ways(d) = Ways(c) /\ find_set(d, a) = s /\ find_tag(d, a) = find_tag(c, a)
    BY <1>4 DEF Ways, find_set, find_tag
  <1> HIDE DEF s, w
  <1>6. w \in HittingWays(d, a)
    BY <1>1, <1>3, <1>5 DEF Stamped, HittingWays, Holds
  <1> QED BY <1>6 DEF IsHit, d

(* ... and after a fill for another address of its block or for another    *)
(* set.                                                                    *)
LEMMA FillKeepsFound ==
  ASSUME NEW sets \in SupportedSetCounts, NEW ways \in Nat \ {0},
         NEW c, IsCache(c, sets, ways), NEW a \in Nat, NEW b \in Nat, IsHit(c, a),
         \/ find_set(c, a) # find_set(c, b)
         \/ find_set(c, a) = find_set(c, b) /\ find_tag(c, a) = find_tag(c, b)
  PROVE  IsHit(cache_update(c, b), a)
  <1> DEFINE d == cache_update(c, b)
  <1>1. Stamped(c, d, find_set(c, b), find_suitable_block(c, find_set(c, b)), find_tag(c, b))
    BY FillStamps
  <1>2. d.num_sets = c.num_sets /\ d.num_ways = c.num_ways
    BY <1>1 DEF Stamped, IsCache
  <1>f. IsHit(d, b)
    BY FilledIsFound
  <1> HIDE DEF d
  <1>3. /\ Ways(d) = Ways(c)
        /\ find_set(d, a) = find_set(c, a) /\ find_tag(d, a) = find_tag(c, a)
        /\ find_set(d, b) = find_set(c, b) /\ find_tag(d, b) = find_tag(c, b)
    BY <1>2 DEF Ways, find_set, find_tag
  <1>4. CASE find_set(c, a) # find_set(c, b)
    <2>1. PICK w \in Ways(c) : Holds(c.sets[find_set(c, a)][w], find_tag(c, a))
      BY DEF IsHit, HittingWays
    <2>2. find_set(c, a) \in SetIndexes(c)
      BY AddressParts DEF IsCache
    <2>3. d.sets[find_set(c, a)][w] = c.sets[find_set(c, a)][w]
      BY <1>1, <1>4, <2>2 DEF Stamped
    <2>4. w \in HittingWays(d, a)
      BY <1>3, <2>1, <2>3 DEF HittingWays
    <2> QED BY <2>4 DEF IsHit, d
  <1>5. CASE find_set(c, a) = find_set(c, b) /\ find_tag(c, a) = find_tag(c, b)
    BY <1>3, <1>5, <1>f DEF IsHit, HittingWays, d
  <1> QED BY <1>4, <1>5
=============================================================================
