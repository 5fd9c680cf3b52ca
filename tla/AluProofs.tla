----------------------------- MODULE AluProofs -----------------------------
(***************************************************************************)
(* The byte instructions, for every width of a byte: what the comparison   *)
(* flags say, that the three ways of taking a tick compute one machine,    *)
(* that a tick moves only the flags its instruction declares, and that     *)
(* chains of byte instructions are word instructions.                      *)
(***************************************************************************)
EXTENDS Alu, WellFoundedInduction, TLAPS

------------------------------------------------------------------------------
\* Induction: a set of numbers that is not empty has a least one.

Below == {ss \in Nat \X Nat : ss[1] < ss[2]}

LEMMA Least ==
  ASSUME NEW T \in SUBSET Nat, T # {}
  PROVE  \E n \in T : \A k \in T : n <= k
<1>1. IsWellFoundedOn(Below, Nat)
  BY NatLessThanWellFounded DEF OpToRel, Below
<1>2. PICK n \in T : \A k \in T : <<k, n>> \notin Below
  BY <1>1, WFMin
<1>3. ASSUME NEW k \in T PROVE n <= k
  <2>1. <<k, n>> \notin Below
    BY <1>2
  <2>. QED BY <2>1 DEF Below
<1>. QED BY <1>3

LEMMA AllNumbers ==
  ASSUME NEW S \in SUBSET Nat, 0 \in S, \A n \in S : n + 1 \in S
  PROVE  S = Nat
<1>. SUFFICES ASSUME Nat \ S # {} PROVE FALSE
  OBVIOUS
<1>1. PICK n \in Nat \ S : \A k \in Nat \ S : n <= k
  BY Least
<1>2. n # 0 /\ n - 1 \in Nat
  BY <1>1
<1>. QED BY <1>1, <1>2

------------------------------------------------------------------------------
\* The weight of a bit

\* g lists the weights of bits 0 to n.
Doubles(g, n) == g[0] = 1 /\ \A i \in 1 .. n : g[i] = 2 * g[i - 1]

LEMMA DoublesExist ==
  \A n \in Nat : \E g : Doubles(g, n)
<1>. DEFINE S == {n \in Nat : \E g : Doubles(g, n)}
<1>1. 0 \in S
  <2>1. Doubles([i \in {0} |-> 1], 0)
    BY DEF Doubles
  <2>. QED BY <2>1
<1>2. ASSUME NEW n \in S PROVE n + 1 \in S
  <2>1. PICK g : Doubles(g, n)
    OBVIOUS
  <2>. DEFINE h == [i \in 0 .. n + 1 |-> IF i = n + 1 THEN 2 * g[n] ELSE g[i]]
  <2>2. h[0] = 1
    BY <2>1 DEF Doubles
  <2>3. ASSUME NEW i \in 1 .. n + 1 PROVE h[i] = 2 * h[i - 1]
    BY <2>1 DEF Doubles
  <2>4. Doubles(h, n + 1)
    BY <2>2, <2>3 DEF Doubles
  <2>. QED BY <2>4
<1>. HIDE DEF S
<1>3. S = Nat
  <2>1. S \in SUBSET Nat
    BY DEF S
  <2>. QED BY <1>1, <1>2, <2>1, AllNumbers
<1>. QED BY <1>3 DEF S

LEMMA DoublesAgree ==
  ASSUME NEW n \in Nat, NEW k \in Nat, NEW g, NEW h,
         Doubles(g, n), Doubles(h, k), NEW j \in Nat, j <= n, j <= k
  PROVE  g[j] = h[j]
<1>. DEFINE T == {i \in Nat : i <= n /\ i <= k /\ g[i] # h[i]}
<1>. SUFFICES ASSUME T # {} PROVE FALSE
  OBVIOUS
<1>1. PICK i \in T : \A l \in T : i <= l
  BY Least
<1>2. i # 0
  BY <1>1 DEF Doubles
<1>3. i - 1 \in Nat /\ i - 1 \notin T
  BY <1>1, <1>2
<1>4. g[i - 1] = h[i - 1]
  BY <1>3
<1>5. g[i] = 2 * g[i - 1] /\ h[i] = 2 * h[i - 1]
  BY <1>2 DEF Doubles
<1>. QED BY <1>4, <1>5

LEMMA WeightUnfold ==
  /\ weight[0] = 1
  /\ \A n \in Nat : weight[n + 1] = 2 * weight[n]
<1>. DEFINE rule(w) == [i \in Nat |-> IF i = 0 THEN 1 ELSE 2 * w[i - 1]]
            upto(k) == CHOOSE g : Doubles(g, k)
            f == [k \in Nat |-> upto(k)[k]]
<1>1. weight = CHOOSE w : w = rule(w)
  BY DEF weight
<1>2. \A k \in Nat : Doubles(upto(k), k)
  BY DoublesExist
<1>. HIDE DEF upto
<1>3. ASSUME NEW k \in Nat PROVE f[k] = IF k = 0 THEN 1 ELSE 2 * f[k - 1]
  <2>1. CASE k = 0
    BY <1>2, <2>1 DEF Doubles
  <2>2. CASE k # 0
    <3>1. k - 1 \in Nat
      BY <2>2
    <3>2. upto(k)[k] = 2 * upto(k)[k - 1]
      BY <1>2, <2>2 DEF Doubles
    <3>3. upto(k)[k - 1] = upto(k - 1)[k - 1]
      BY <1>2, <3>1, DoublesAgree
    <3>. QED BY <2>2, <3>1, <3>2, <3>3
  <2>. QED BY <2>1, <2>2
<1>4. f = rule(f)
  BY <1>3
<1>5. weight = rule(weight)
  BY <1>1, <1>4
<1>6. weight[0] = 1 /\ \A n \in Nat : weight[n + 1] = 2 * weight[n]
  BY <1>5
<1>. QED BY <1>6

LEMMA WeightNat == \A n \in Nat : weight[n] \in Nat \ {0}
<1>. DEFINE S == {n \in Nat : weight[n] \in Nat \ {0}}
<1>1. 0 \in S
  BY WeightUnfold
<1>2. ASSUME NEW n \in S PROVE n + 1 \in S
  <2>1. weight[n + 1] = 2 * weight[n] /\ weight[n] \in Nat \ {0}
    BY WeightUnfold
  <2>. QED BY <2>1
<1>. HIDE DEF S
<1>3. S = Nat
  <2>1. S \in SUBSET Nat
    BY DEF S
  <2>. QED BY <1>1, <1>2, <2>1, AllNumbers
<1>. QED BY <1>3 DEF S

\* A byte is as wide as ByteBits says, and its sign bit weighs half of it.
LEMMA ByteWidth ==
  /\ Half \in Nat \ {0} /\ Span \in Nat \ {0} /\ Span = 2 * Half
  /\ Span = weight[ByteBits]
<1>1. ByteBits - 1 \in Nat /\ ByteBits = (ByteBits - 1) + 1
  BY AluAssumption
<1>2. weight[ByteBits - 1] \in Nat \ {0}
  BY <1>1, WeightNat
<1>3. weight[ByteBits] = 2 * weight[ByteBits - 1]
  <2>1. \A n \in Nat : weight[n + 1] = 2 * weight[n]
    BY WeightUnfold
  <2>2. weight[(ByteBits - 1) + 1] = 2 * weight[ByteBits - 1]
    BY <1>1, <2>1
  <2>. QED BY <1>1, <2>2
<1>. QED BY <1>2, <1>3 DEF Half, Span

------------------------------------------------------------------------------
\* A byte has the bits it is given

LEMMA LowBit ==
  ASSUME NEW w \in Nat \ {0}, NEW v \in Nat, NEW b \in Bit
  PROVE  /\ (b + 2 * v) \div (2 * w) = v \div w
         /\ (b + 2 * v) % 2 = b
         /\ v < w => b + 2 * v < 2 * w
BY DEF Bit

\* The numbers of n bits have every row of n bits.
RowsTo(n) ==
  \A f \in [Nat -> Bit] : \E v \in Nat :
    v < weight[n] /\ \A i \in Nat : i < n => bit_at(i, v) = f[i]

LEMMA RowsExist == \A n \in Nat : RowsTo(n)
<1>. DEFINE S == {n \in Nat : RowsTo(n)}
<1>1. 0 \in S
  <2>1. RowsTo(0)
    <3>1. 0 < weight[0] /\ \A i \in Nat : ~(i < 0)
      BY WeightUnfold
    <3>. QED BY <3>1 DEF RowsTo
  <2>. QED BY <2>1
<1>2. ASSUME NEW n \in S PROVE n + 1 \in S
  <2>0. RowsTo(n) /\ weight[n + 1] = 2 * weight[n] /\ weight[n] \in Nat \ {0}
    BY WeightUnfold, WeightNat
  <2>1. ASSUME NEW f \in [Nat -> Bit]
        PROVE  \E v \in Nat : v < weight[n + 1] /\ \A i \in Nat : i < n + 1 => bit_at(i, v) = f[i]
    <3>. DEFINE g == [i \in Nat |-> f[i + 1]]
    <3>1. g \in [Nat -> Bit] /\ f[0] \in Bit
      OBVIOUS
    <3>2. PICK u \in Nat : u < weight[n] /\ \A i \in Nat : i < n => bit_at(i, u) = g[i]
      BY <2>0, <3>1 DEF RowsTo
    <3>. DEFINE v == f[0] + 2 * u
    <3>3. v \in Nat /\ v < weight[n + 1]
      <4>1. v < 2 * weight[n]
        BY <2>0, <3>1, <3>2, LowBit
      <4>. QED BY <2>0, <3>1, <4>1 DEF Bit
    <3>4. ASSUME NEW i \in Nat, i < n + 1 PROVE bit_at(i, v) = f[i]
      <4>1. CASE i = 0
        <5>1. v \div 1 = v
          BY <3>3
        <5>2. bit_at(0, v) = v % 2
          BY <5>1, WeightUnfold DEF bit_at
        <5>. QED BY <3>1, <4>1, <5>2, LowBit, 1 \in Nat \ {0}
      <4>2. CASE i # 0
        <5>. DEFINE j == i - 1
        <5>1. j \in Nat /\ j < n /\ i = j + 1
          BY <3>4, <4>2
        <5>2. weight[i] = 2 * weight[j] /\ weight[j] \in Nat \ {0}
          BY <5>1, WeightUnfold, WeightNat
        <5>3. v \div weight[i] = u \div weight[j]
          BY <3>1, <5>2, LowBit
        <5>4. bit_at(i, v) = bit_at(j, u)
          BY <5>3 DEF bit_at
        <5>5. bit_at(j, u) = g[j] /\ g[j] = f[i]
          BY <3>2, <5>1
        <5>. QED BY <5>4, <5>5
      <4>. QED BY <4>1, <4>2
    <3>. QED BY <3>3, <3>4
  <2>. QED BY <2>1 DEF RowsTo
<1>. HIDE DEF S
<1>3. S = Nat
  <2>1. S \in SUBSET Nat
    BY DEF S
  <2>. QED BY <1>1, <1>2, <2>1, AllNumbers
<1>. QED BY <1>3 DEF S

\* Whatever is taken of two bytes bit by bit is a byte.
LEMMA BitwiseByte ==
  ASSUME NEW a, NEW b
  PROVE  band(a, b) \in Byte /\ bor(a, b) \in Byte /\ bxor(a, b) \in Byte
<1>1. ASSUME NEW f \in [Nat -> Bit]
      PROVE  \E v \in Byte : \A i \in 0 .. ByteBits - 1 : bit_at(i, v) = f[i]
  <2>1. ByteBits \in Nat /\ RowsTo(ByteBits)
    BY AluAssumption, RowsExist
  <2>2. PICK v \in Nat : v < Span /\ \A i \in Nat : i < ByteBits => bit_at(i, v) = f[i]
    BY <2>1, ByteWidth DEF RowsTo
  <2>3. v \in Byte
    BY <2>2, ByteWidth DEF Byte
  <2>. QED BY <2>1, <2>2, <2>3
<1>2. band(a, b) \in Byte
  <2>. DEFINE f == [i \in Nat |-> one(bit_at(i, a) = 1 /\ bit_at(i, b) = 1)]
  <2>1. f \in [Nat -> Bit]
    BY DEF one, Bit
  <2>2. \E v \in Byte : \A i \in 0 .. ByteBits - 1 : bit_at(i, v) = f[i]
    BY <1>1, <2>1
  <2>3. \E v \in Byte : \A i \in 0 .. ByteBits - 1 :
          bit_at(i, v) = one(bit_at(i, a) = 1 /\ bit_at(i, b) = 1)
    BY <2>2, AluAssumption
  <2>. QED BY <2>3 DEF band, bitwise
<1>3. bor(a, b) \in Byte
  <2>. DEFINE f == [i \in Nat |-> one(bit_at(i, a) = 1 \/ bit_at(i, b) = 1)]
  <2>1. f \in [Nat -> Bit]
    BY DEF one, Bit
  <2>2. \E v \in Byte : \A i \in 0 .. ByteBits - 1 : bit_at(i, v) = f[i]
    BY <1>1, <2>1
  <2>3. \E v \in Byte : \A i \in 0 .. ByteBits - 1 :
          bit_at(i, v) = one(bit_at(i, a) = 1 \/ bit_at(i, b) = 1)
    BY <2>2, AluAssumption
  <2>. QED BY <2>3 DEF bor, bitwise
<1>4. bxor(a, b) \in Byte
  <2>. DEFINE f == [i \in Nat |-> one((bit_at(i, a) = 1) # (bit_at(i, b) = 1))]
  <2>1. f \in [Nat -> Bit]
    BY DEF one, Bit
  <2>2. \E v \in Byte : \A i \in 0 .. ByteBits - 1 : bit_at(i, v) = f[i]
    BY <1>1, <2>1
  <2>3. \E v \in Byte : \A i \in 0 .. ByteBits - 1 :
          bit_at(i, v) = one((bit_at(i, a) = 1) # (bit_at(i, b) = 1))
    BY <2>2, AluAssumption
  <2>. QED BY <2>3 DEF bxor, bitwise
<1>. QED BY <1>2, <1>3, <1>4

------------------------------------------------------------------------------
\* Comparison

LEMMA DifferenceByte ==
  ASSUME NEW a \in Byte, NEW b \in Byte
  PROVE  (a - b) % Span = IF a >= b THEN a - b ELSE a - b + Span
BY ByteWidth, SMTT(30) DEF Byte, Span

LEMMA SignWeight ==
  ASSUME NEW v \in Byte
  PROVE  v \div Half = IF v >= Half THEN 1 ELSE 0
BY ByteWidth, SMTT(30) DEF Byte, Span

LEMMA RegisterByte ==
  ASSUME mach \in Mach, NEW d \in Reg
  PROVE  mach.r[d] \in Byte
BY DEF Mach

LEMMA FlagsOrder == mach \in Mach => SignedOrder
<1> SUFFICES ASSUME mach \in Mach, NEW d \in Reg, NEW s \in Reg
    PROVE  LET a == mach.r[d]
               b == mach.r[s]
               m == compares(mach, a, b)
           IN /\ m.Z = one(a = b)
              /\ m.C = one(a < b)
              /\ (m.S # m.V) <=> signed(a) < signed(b)
  BY DEF SignedOrder
<1> DEFINE a == mach.r[d]
           b == mach.r[s]
           v == (a - b) % Span
           m == compares(mach, a, b)
<1>1. a \in Byte /\ b \in Byte
  BY RegisterByte
<1>2. /\ m.Z = one(a = b)
      /\ m.C = one(a < b)
      /\ m.S = sign(v)
      /\ m.V = _overflow_sub(a, b, v)
  BY DEF Mach, compares
<1>3. v = IF a >= b THEN a - b ELSE a - b + Span
  BY <1>1, DifferenceByte
<1>4. /\ signed(a) = a - Span * (IF a >= Half THEN 1 ELSE 0)
      /\ signed(b) = b - Span * (IF b >= Half THEN 1 ELSE 0)
  BY <1>1, SignWeight DEF signed
<1>5. signed(a) < signed(b) <=> sign(v) # _overflow_sub(a, b, v)
  <2> HIDE DEF a, b, v
  <2>1. Half \in Nat /\ Half > 0 /\ Span = 2 * Half
    BY ByteWidth DEF Span
  <2>2. /\ a \in Int /\ 0 <= a /\ a < Span
        /\ b \in Int /\ 0 <= b /\ b < Span
    BY <1>1, <2>1 DEF Byte
  <2>3. /\ a >= Half => signed(a) = a - Span
        /\ ~(a >= Half) => signed(a) = a
        /\ b >= Half => signed(b) = b - Span
        /\ ~(b >= Half) => signed(b) = b
    BY <1>4, <2>1, <2>2
  <2>4. CASE a >= b
    BY <2>4, <1>3, <2>1, <2>2, <2>3 DEF sign, one, _overflow_sub
  <2>5. CASE ~(a >= b)
    BY <2>5, <1>3, <2>1, <2>2, <2>3 DEF sign, one, _overflow_sub
  <2> QED BY <2>4, <2>5
<1> QED BY <1>2, <1>5

------------------------------------------------------------------------------
LEMMA ModSelf == ASSUME NEW S \in Nat \ {0}, NEW u \in 0 .. S - 1 PROVE u % S = u
OBVIOUS

LEMMA WordWide == ASSUME NEW v \in Word PROVE wide(v) = v
<1>1. Span * Span \in Nat \ {0}
  BY ByteWidth
<1>. QED BY <1>1, ModSelf DEF wide, Word

\* Ticks that go through

past(m, op) == [m EXCEPT !.PC = m.PC + op.len]

\* y is machine m past its instruction, with these registers and flags.
becomes(y, m, op, r, C, Z, S, V) ==
  /\ y \in Mach
  /\ y.r = r /\ y.C = C /\ y.Z = Z /\ y.S = S /\ y.V = V
  /\ y.HL = m.HL /\ y.DE = m.DE /\ y.MB = m.MB /\ y.SP = m.SP
  /\ y.PC = m.PC + op.len /\ y.ipos = m.ipos /\ y.status = m.status

LEMMA SameMachine ==
  ASSUME NEW x, NEW y, NEW m, NEW op, NEW r, NEW C, NEW Z, NEW S, NEW V,
         becomes(x, m, op, r, C, Z, S, V), becomes(y, m, op, r, C, Z, S, V)
  PROVE  x = y
BY DEF becomes, Mach

agree(m, op) == /\ RefTick(m, op) \in Mach
                /\ TorchTick(m, op) = RefTick(m, op)
                /\ KernelTick(m, op) = RefTick(m, op)

\* A tick of an instruction in CODE.
Steps(m, op) == /\ m \in Mach /\ op \in Op /\ m.status = "RUNNING"
                /\ m.PC + op.len <= CodeLen

LEMMA Past ==
  ASSUME NEW m, NEW op, Steps(m, op)
  PROVE  /\ becomes(past(m, op), m, op, m.r, m.C, m.Z, m.S, m.V)
         /\ ~(m.PC + op.len > CodeLen)
<1>0. m \in Mach /\ op \in Op
  BY DEF Steps
<1>1. m.PC + op.len \in Word /\ ~(m.PC + op.len > CodeLen)
  <2>1. m.PC \in Word /\ op.len \in Nat /\ CodeLen \in Word /\ m.PC + op.len <= CodeLen
    BY AluAssumption DEF Mach, Op, Steps
  <2>2. Span * Span \in Int
    BY ByteWidth
  <2>. QED BY <2>1, <2>2 DEF Word
<1>. QED BY <1>0, <1>1 DEF Mach, becomes, past

\* That machine, as the circuits write it.
moved(m, op, r, C, Z, S, V) ==
  [m EXCEPT !.r = r, !.C = C, !.Z = Z, !.S = S, !.V = V, !.HL = m.HL, !.DE = m.DE,
            !.MB = m.MB, !.PC = m.PC + op.len, !.ipos = m.ipos]

LEMMA Updates ==
  ASSUME NEW m \in Mach, NEW r \in [Reg -> Byte], NEW C \in Bit, NEW Z \in Bit, NEW S \in Bit,
         NEW V \in Bit, NEW op, m.PC + op.len \in Word
  PROVE  becomes(moved(m, op, r, C, Z, S, V), m, op, r, C, Z, S, V)
<1>. DEFINE y == moved(m, op, r, C, Z, S, V)
<1>1. y \in Mach
  BY DEF Mach, moved
<1>2. y.r = r /\ y.C = C /\ y.Z = Z /\ y.S = S /\ y.V = V
  BY DEF Mach, moved
<1>3. /\ y.HL = m.HL /\ y.DE = m.DE /\ y.MB = m.MB /\ y.SP = m.SP
      /\ y.PC = m.PC + op.len /\ y.ipos = m.ipos /\ y.status = m.status
  BY DEF Mach, moved
<1>. QED BY <1>1, <1>2, <1>3, Zenon DEF becomes

Plain(op) == op.kind \notin Branch \cup Pointer \cup PtrReg \cup {"IN"}

LEMMA RefRegisters ==
  ASSUME NEW m, NEW op, Steps(m, op), Plain(op),
         NEW r, NEW C, NEW Z, NEW S, NEW V,
         becomes(ref_registers(past(m, op), op), m, op, r, C, Z, S, V)
  PROVE  becomes(RefTick(m, op), m, op, r, C, Z, S, V)
<1>1. ref_registers(past(m, op), op).status # "ERROR" /\ m.status = "RUNNING"
  BY DEF becomes, Steps
<1>2. op.kind \notin Branch /\ op.kind \notin Pointer \cup PtrReg
  BY DEF Plain
<1>3. RefTick(m, op) = ref_registers(past(m, op), op)
  BY <1>1, <1>2, Past, Zenon DEF RefTick, past
<1>. QED BY <1>3

LEMMA TorchRegisters ==
  ASSUME NEW m, NEW op, Steps(m, op), Plain(op),
         op.kind \in {"DIV", "MOD"} => row_b(m, op) # 0,
         NEW r \in [Reg -> Byte], NEW C \in Bit, NEW Z \in Bit, NEW S \in Bit, NEW V \in Bit,
         r = IF rows_R_en(op) THEN [m.r EXCEPT ![s0(op)] = written(rows_R_val(m, op))] ELSE m.r,
         C = rows_C(m, op), Z = rows_Z(m, op), S = rows_S(m, op), V = rows_V(m, op)
  PROVE  becomes(TorchTick(m, op), m, op, r, C, Z, S, V)
<1>0. m \in Mach /\ m.status = "RUNNING"
  BY DEF Steps
<1>1. op.kind \notin Branch /\ op.kind # "IN" /\ op.kind # "MOV_MB_HL"
  BY DEF Plain, Pointer
<1>2. wide(rows_HL(m, op)) = m.HL /\ wide(rows_DE(m, op)) = m.DE
  <2>1. rows_HL(m, op) = m.HL /\ rows_DE(m, op) = m.DE
    BY DEF Plain, Pointer, PtrReg, rows_HL, rows_DE
  <2>2. m.HL \in Word /\ m.DE \in Word
    BY <1>0 DEF Mach
  <2>. QED BY <2>1, <2>2, WordWide
<1>3. TorchTick(m, op) = moved(m, op, r, C, Z, S, V)
  <2>. DEFINE nr == IF rows_R_en(op) THEN [m.r EXCEPT ![s0(op)] = written(rows_R_val(m, op))]
                    ELSE m.r
              nMB == IF op.kind = "MOV_MB_HL" THEN m.HL ELSE m.MB
              to == target(past(m, op), op)
              nPC == IF op.kind \in Branch /\ taken(m, op) THEN to ELSE m.PC + op.len
              nipos == IF op.kind = "IN" /\ ~eof(m) THEN m.ipos + 1 ELSE m.ipos
  <2>1. ~(\/ m.PC + op.len > CodeLen
          \/ (op.kind \in Branch /\ taken(m, op)) /\ to >= CodeLen
          \/ op.kind \in {"DIV", "MOD"} /\ row_b(m, op) = 0)
    BY <1>1, Past
  <2>2. TorchTick(m, op) = [m EXCEPT !.r = nr, !.C = rows_C(m, op), !.Z = rows_Z(m, op),
                                     !.S = rows_S(m, op), !.V = rows_V(m, op),
                                     !.HL = wide(rows_HL(m, op)), !.DE = wide(rows_DE(m, op)),
                                     !.MB = nMB, !.PC = nPC, !.ipos = nipos]
    BY <1>0, <2>1, Zenon DEF TorchTick, past
  <2>3. nr = r /\ nMB = m.MB /\ nPC = m.PC + op.len /\ nipos = m.ipos
    BY <1>1, Zenon
  <2>. HIDE DEF nr, nMB, nPC, nipos
  <2>. QED BY <1>2, <2>2, <2>3, Zenon DEF moved
<1>4. m.PC + op.len \in Word
  BY Past DEF becomes, Mach
<1>5. becomes(moved(m, op, r, C, Z, S, V), m, op, r, C, Z, S, V)
  BY <1>0, <1>4, Updates
<1>. QED BY <1>3, <1>5, Zenon

LEMMA KernelRegisters ==
  ASSUME NEW m, NEW op, Steps(m, op), Plain(op),
         op.kind \in {"DIV", "MOD"} => m.r[op.f % 4] # 0,
         NEW r \in [Reg -> Byte], NEW C \in Bit, NEW Z \in Bit, NEW S \in Bit, NEW V \in Bit,
         NEW n, n = branch_of(m, op),
         r = IF wr(op) THEN [m.r EXCEPT ![s0(op)] = n.v % Span] ELSE m.r,
         C = IF n.c = <<>> THEN m.C ELSE n.c[1] % 2,
         Z = n.Z, S = n.S, V = n.V
  PROVE  becomes(KernelTick(m, op), m, op, r, C, Z, S, V)
<1>0. m \in Mach /\ m.status = "RUNNING"
  BY DEF Steps
<1>1. op.kind \notin Branch /\ op.kind # "IN" /\ op.kind # "MOV_MB_HL"
  BY DEF Plain, Pointer
<1>2. nHL(m, op) = m.HL /\ nDE(m, op) = m.DE
  BY DEF Plain, Pointer, PtrReg, nHL, nDE
<1>3. KernelTick(m, op) = moved(m, op, r, C, Z, S, V)
  <2>. DEFINE nr == IF wr(op) THEN [m.r EXCEPT ![s0(op)] = n.v % Span] ELSE m.r
              nC == IF n.c = <<>> THEN m.C ELSE n.c[1] % 2
              nMB == IF op.kind = "MOV_MB_HL" THEN wide(m.HL) ELSE m.MB
              nPC == IF op.kind \in Branch /\ taken(m, op) THEN target(past(m, op), op)
                     ELSE m.PC + op.len
              nipos == IF op.kind = "IN" /\ m.ipos < Len(Inputs) THEN m.ipos + 1 ELSE m.ipos
  <2>1. ~(\/ m.PC + op.len > CodeLen
          \/ op.kind \in {"DIV", "MOD"} /\ m.r[op.f % 4] = 0
          \/ (op.kind \in Branch /\ taken(m, op)) /\ nPC >= CodeLen)
    BY <1>1, Past
  <2>2. KernelTick(m, op) = [m EXCEPT !.r = nr, !.C = nC, !.Z = n.Z, !.S = n.S, !.V = n.V,
                                      !.HL = nHL(m, op), !.DE = nDE(m, op),
                                      !.MB = nMB, !.PC = nPC, !.ipos = nipos]
    BY <1>0, <2>1, Zenon DEF KernelTick, _wr, past
  <2>3. nr = r /\ nC = C /\ nMB = m.MB /\ nPC = m.PC + op.len /\ nipos = m.ipos
    BY <1>1, Zenon
  <2>. HIDE DEF nr, nC, nMB, nPC, nipos
  <2>. QED BY <1>2, <2>2, <2>3, Zenon DEF moved
<1>4. m.PC + op.len \in Word
  BY Past DEF becomes, Mach
<1>5. becomes(moved(m, op, r, C, Z, S, V), m, op, r, C, Z, S, V)
  BY <1>0, <1>4, Updates
<1>. QED BY <1>3, <1>5, Zenon

------------------------------------------------------------------------------
\* What an instruction leaves

LEMMA Flag == \A b \in BOOLEAN : one(b) \in Bit
BY DEF one, Bit

LEMMA FlagsOf ==
  ASSUME NEW v \in Int, NEW a \in Int, NEW b \in Int
  PROVE  /\ zero(v) \in Bit /\ sign(v) \in Bit
         /\ _overflow_add(a, b, v) \in Bit /\ _overflow_sub(a, b, v) \in Bit
BY DEF one, Bit, zero, sign, _overflow_add, _overflow_sub

LEMMA Leaves ==
  ASSUME NEW y, NEW m, NEW op, NEW r, NEW C, NEW Z, NEW S, NEW V,
         becomes(y, m, op, r, C, Z, S, V), NEW d \in Reg, NEW v \in Byte
  PROVE  /\ becomes(leaves(y, d, v), m, op, [r EXCEPT ![d] = v], C, zero(v), S, V)
         /\ becomes([y EXCEPT !.r[d] = v], m, op, [r EXCEPT ![d] = v], C, Z, S, V)
<1>1. zero(v) \in Bit
  BY DEF zero, one, Bit
<1>2. y \in Mach /\ y.r = r
  BY DEF becomes
<1>. DEFINE q == [y.r EXCEPT ![d] = v]
<1>3. q \in [Reg -> Byte]
  BY <1>2 DEF Mach
<1>4. leaves(y, d, v) = [y EXCEPT !.r = q, !.Z = zero(v)]
  BY Zenon DEF leaves
<1>. HIDE DEF q
<1>5. /\ becomes([y EXCEPT !.r = q, !.Z = zero(v)], m, op, q, C, zero(v), S, V)
      /\ becomes([y EXCEPT !.r = q], m, op, q, C, Z, S, V)
  BY <1>1, <1>2, <1>3 DEF becomes, Mach
<1>. QED BY <1>2, <1>4, <1>5, Zenon DEF q

LEMMA Moves ==
  ASSUME NEW y, NEW m, NEW op, NEW r, NEW C, NEW Z, NEW S, NEW V,
         becomes(y, m, op, r, C, Z, S, V),
         NEW c \in Bit, NEW z \in Bit, NEW s \in Bit, NEW o \in Bit
  PROVE  /\ becomes([y EXCEPT !.C = c], m, op, r, c, Z, S, V)
         /\ becomes([y EXCEPT !.Z = z], m, op, r, C, z, S, V)
         /\ becomes([y EXCEPT !.C = c, !.S = s], m, op, r, c, Z, s, V)
         /\ becomes([y EXCEPT !.C = c, !.S = s, !.V = o], m, op, r, c, Z, s, o)
         /\ becomes([y EXCEPT !.Z = z, !.C = c, !.S = s, !.V = o], m, op, r, c, z, s, o)
BY DEF becomes, Mach

LEMMA SumByte ==
  ASSUME NEW a \in Byte, NEW b \in Byte, NEW c \in Bit
  PROVE  LET t == a + b + c
         IN t \in Int /\ t % Span \in Byte /\ t \div Span \in Bit
<1>1. ASSUME NEW W \in Nat \ {0}, NEW u \in 0 .. W - 1, NEW v \in 0 .. W - 1, NEW w \in {0, 1}
      PROVE  /\ u + v + w \in Int /\ (u + v + w) % W \in 0 .. W - 1
             /\ (u + v + w) \div W \in {0, 1}
  OBVIOUS
<1>. QED BY <1>1, ByteWidth DEF Byte, Bit

LEMMA Adds ==
  ASSUME NEW m, NEW op, NEW y, m \in Mach, becomes(y, m, op, m.r, m.C, m.Z, m.S, m.V),
         NEW d \in Reg, NEW b \in Byte, NEW c \in Bit, NEW t, t = m.r[d] + b + c
  PROVE  /\ t \in Int /\ t % Span \in Byte /\ t \div Span \in Bit
         /\ becomes(adds(y, d, b, c), m, op, [m.r EXCEPT ![d] = t % Span], t \div Span,
                    zero(t % Span), sign(t % Span), _overflow_add(m.r[d], b, t % Span))
<1>. DEFINE a == m.r[d]
            v == t % Span
            x == leaves(y, d, v)
            o == _overflow_add(a, b, v)
<1>1. a \in Byte /\ b \in Byte /\ c \in {0, 1} /\ Span \in Nat \ {0}
  BY ByteWidth DEF Mach, Bit
<1>2. t \in Int /\ v \in Byte /\ t \div Span \in Bit
  BY <1>1, SumByte DEF Bit
<1>3. y.r[d] = a
  BY DEF becomes
<1>4. adds(y, d, b, c) = [x EXCEPT !.C = t \div Span, !.S = sign(v), !.V = o]
  <2>. HIDE DEF a
  <2>. QED BY <1>3, Zenon DEF adds, a
<1>5. becomes(x, m, op, [m.r EXCEPT ![d] = v], m.C, zero(v), m.S, m.V)
  BY <1>2, Leaves
<1>6. sign(v) \in Bit /\ o \in Bit
  BY <1>1, <1>2, FlagsOf DEF Byte
<1>. HIDE DEF x, o, v
<1>7. becomes([x EXCEPT !.C = t \div Span, !.S = sign(v), !.V = o],
              m, op, [m.r EXCEPT ![d] = v], t \div Span, zero(v), sign(v), o)
  BY <1>2, <1>5, <1>6, Moves
<1>. QED BY <1>2, <1>4, <1>7, Zenon DEF v, o, a

LEMMA DifByte ==
  ASSUME NEW a \in Byte, NEW b \in Byte, NEW c \in Bit
  PROVE  LET t == a - b - c
         IN t \in Int /\ t % Span \in Byte
<1>1. ASSUME NEW W \in Nat \ {0}, NEW u \in 0 .. W - 1, NEW v \in 0 .. W - 1, NEW w \in {0, 1}
      PROVE  u - v - w \in Int /\ (u - v - w) % W \in 0 .. W - 1
  OBVIOUS
<1>. QED BY <1>1, ByteWidth DEF Byte, Bit

LEMMA Subs ==
  ASSUME NEW m, NEW op, NEW y, m \in Mach, becomes(y, m, op, m.r, m.C, m.Z, m.S, m.V),
         NEW d \in Reg, NEW b \in Byte, NEW c \in Bit, NEW t, t = m.r[d] - b - c
  PROVE  /\ t \in Int /\ t % Span \in Byte
         /\ becomes(subs(y, d, b, c), m, op, [m.r EXCEPT ![d] = t % Span], one(t < 0),
                    zero(t % Span), sign(t % Span), _overflow_sub(m.r[d], b, t % Span))
<1>. DEFINE a == m.r[d]
            v == t % Span
            x == leaves(y, d, v)
            o == _overflow_sub(a, b, v)
<1>1. a \in Byte /\ b \in Byte /\ c \in {0, 1} /\ Span \in Nat \ {0}
  BY ByteWidth DEF Mach, Bit
<1>2. t \in Int /\ v \in Byte
  BY <1>1, DifByte DEF Bit
<1>3. y.r[d] = a
  BY DEF becomes
<1>4. subs(y, d, b, c) = [x EXCEPT !.C = one(t < 0), !.S = sign(v), !.V = o]
  <2>. HIDE DEF a
  <2>. QED BY <1>3, Zenon DEF subs, a
<1>5. becomes(x, m, op, [m.r EXCEPT ![d] = v], m.C, zero(v), m.S, m.V)
  BY <1>2, Leaves
<1>6. sign(v) \in Bit /\ o \in Bit /\ one(t < 0) \in Bit
  <2>1. one(t < 0) \in Bit
    BY DEF one, Bit
  <2>. QED BY <1>1, <1>2, <2>1, FlagsOf DEF Byte
<1>. HIDE DEF x, o, v
<1>7. becomes([x EXCEPT !.C = one(t < 0), !.S = sign(v), !.V = o],
              m, op, [m.r EXCEPT ![d] = v], one(t < 0), zero(v), sign(v), o)
  BY <1>2, <1>5, <1>6, Moves
<1>. QED BY <1>2, <1>4, <1>7, Zenon DEF v, o, a

\* Where the operands are.
LEMMA Operands ==
  ASSUME NEW m \in Mach, NEW op \in Op
  PROVE  /\ s0(op) \in Reg /\ s1(op) \in Reg /\ op.f % 4 \in Reg /\ op.f \div 4 \in Reg
         /\ \A i \in Reg : m.r[i] \in Byte
         /\ op.imm \in Byte /\ m.C \in Bit
         /\ op.kind \in TwoReg =>
              /\ row_a(m, op) = m.r[s0(op)] /\ row_b(m, op) = m.r[s1(op)]
              /\ op.f \div 4 = s0(op) /\ op.f % 4 = s1(op)
         /\ op.kind \notin TwoReg => row_rr(m, op) = m.r[s0(op)] /\ op.f % 4 = s0(op)
<1>1. op.f \in 0 .. 15 /\ op.imm \in Byte /\ m.C \in Bit /\ m.r \in [Reg -> Byte]
  BY DEF Op, Mach
<1>2. op.f % 4 \in Reg /\ op.f \div 4 \in Reg
  BY <1>1 DEF Reg
<1>. QED BY <1>1, <1>2 DEF s0, s1, row_a, row_b, row_rr

LEMMA AllAgree ==
  ASSUME NEW m, NEW op, NEW r, NEW C, NEW Z, NEW S, NEW V,
         becomes(RefTick(m, op), m, op, r, C, Z, S, V),
         becomes(TorchTick(m, op), m, op, r, C, Z, S, V),
         becomes(KernelTick(m, op), m, op, r, C, Z, S, V)
  PROVE  agree(m, op)
<1>1. RefTick(m, op) \in Mach
  BY DEF becomes
<1>. QED BY <1>1, SameMachine DEF agree

LEMMA ByteKept == ASSUME NEW v \in Byte PROVE v % Span = v
BY ModSelf, ByteWidth DEF Byte

LEMMA BitKept == ASSUME NEW c \in Bit PROVE c % 2 = c
BY DEF Bit

LEMMA KAdd ==
  ASSUME NEW m, NEW p, NEW q, NEW t
  PROVE  LET n == k_add(m, p, q, t)
         IN /\ n.v = t % Span /\ n.c # <<>> /\ n.c[1] = t \div Span
            /\ n.Z = zero(t % Span) /\ n.S = sign(t % Span)
            /\ n.V = _overflow_add(p, q, t % Span)
BY DEF k_add, signs, zeroes, keeps, ovf, _overflow_add

LEMMA SumsAgree ==
  ASSUME NEW m, NEW op, Steps(m, op), op.kind \in Sums
  PROVE  agree(m, op)
<1>. DEFINE d == s0(op)
            b == IF op.kind \in ImmReg THEN op.imm ELSE m.r[s1(op)]
            c == IF op.kind \in {"ADC", "ADCI"} THEN m.C ELSE 0
            t == m.r[d] + b + c
            r == [m.r EXCEPT ![d] = t % Span]
            o == _overflow_add(m.r[d], b, t % Span)
<1>1. /\ m \in Mach /\ op \in Op /\ d \in Reg /\ b \in Byte /\ c \in Bit /\ m.r[d] \in Byte
      /\ becomes(past(m, op), m, op, m.r, m.C, m.Z, m.S, m.V)
  BY Operands, Past DEF Steps, Bit
<1>2. Plain(op) /\ op.kind \notin {"DIV", "MOD"} /\ wr(op) /\ rows_R_en(op)
  BY DEF Plain, Sums, Branch, Pointer, PtrReg, wr, NoWrite, rows_R_en, Zeros
<1>3. /\ t \in Int /\ t % Span \in Byte /\ t \div Span \in Bit
      /\ becomes(adds(past(m, op), d, b, c), m, op, r, t \div Span, zero(t % Span), sign(t % Span), o)
  BY <1>1, Adds
<1>4. ref_registers(past(m, op), op) = adds(past(m, op), d, b, c)
  <2>1. past(m, op).r = m.r /\ past(m, op).C = m.C
    BY <1>1 DEF becomes
  <2>. QED BY <2>1 DEF ref_registers, Sums, ImmReg
<1>5. row_x(m, op) = m.r[d] /\ row_y(m, op) = b /\ row_cin(m, op) = c /\ row_sum(m, op) = t
  <2>1. op.kind \in ImmReg => row_rr(m, op) = m.r[d]
    BY <1>1, Operands DEF ImmReg, TwoReg
  <2>2. op.kind \notin ImmReg => row_a(m, op) = m.r[d] /\ row_b(m, op) = m.r[s1(op)]
    BY <1>1, Operands DEF Sums, ImmReg, TwoReg
  <2>3. row_x(m, op) = m.r[d] /\ row_y(m, op) = b /\ row_cin(m, op) = c
    BY <2>1, <2>2 DEF row_x, row_y, row_cin, Sums
  <2>. QED BY <2>3 DEF row_sum
<1>6. /\ rows_R_val(m, op) = t % Span /\ rows_C(m, op) = t \div Span
      /\ rows_Z(m, op) = zero(t % Span) /\ rows_S(m, op) = sign(t % Span) /\ rows_V(m, op) = o
  <2>. HIDE DEF t, b, c
  <2>1. rows_R_val(m, op) = t % Span
    BY <1>5 DEF rows_R_val, Sums, Difs
  <2>2. rows_C(m, op) = t \div Span
    BY <1>5 DEF rows_C, Sums, Difs
  <2>3. rows_Z(m, op) = zero(t % Span)
    BY <2>1 DEF rows_Z, Zeros, Sums
  <2>4. rows_S(m, op) = sign(t % Span)
    BY <2>1 DEF rows_S, Sums, Difs
  <2>5. rows_V(m, op) = o
    BY <1>5 DEF rows_V, _overflow_add, Sums, Difs, one
  <2>. QED BY <2>1, <2>2, <2>3, <2>4, <2>5
<1>7. branch_of(m, op) = k_add(m, m.r[d], b, t)
  <2>1. op.kind \notin ImmReg => op.f \div 4 = d /\ op.f % 4 = s1(op)
    BY <1>1, Operands DEF Sums, ImmReg, TwoReg
  <2>2. op.kind \in ImmReg => op.f % 4 = d
    BY <1>1, Operands DEF ImmReg, TwoReg
  <2>3. CASE op.kind = "ADD"
    <3>1. branch_of(m, op) = k_add(m, m.r[op.f \div 4], m.r[op.f % 4], m.r[op.f \div 4] + m.r[op.f % 4])
      BY <2>3 DEF branch_of
    <3>2. d = op.f \div 4 /\ b = m.r[op.f % 4] /\ c = 0
      BY <2>1, <2>2, <2>3 DEF ImmReg
    <3>. QED BY <1>1, <3>1, <3>2 DEF Byte, Bit
  <2>4. CASE op.kind = "ADC"
    <3>1. branch_of(m, op) = k_add(m, m.r[op.f \div 4], m.r[op.f % 4], m.r[op.f \div 4] + m.r[op.f % 4] + m.C)
      BY <2>4 DEF branch_of
    <3>2. d = op.f \div 4 /\ b = m.r[op.f % 4] /\ c = m.C
      BY <2>1, <2>2, <2>4 DEF ImmReg
    <3>. QED BY <1>1, <3>1, <3>2 DEF Byte, Bit
  <2>5. CASE op.kind = "ADDI"
    <3>1. branch_of(m, op) = k_add(m, m.r[op.f % 4], op.imm, m.r[op.f % 4] + op.imm)
      BY <2>5 DEF branch_of
    <3>2. d = op.f % 4 /\ b = op.imm /\ c = 0
      BY <2>1, <2>2, <2>5 DEF ImmReg
    <3>. QED BY <1>1, <3>1, <3>2 DEF Byte, Bit
  <2>6. CASE op.kind = "ADCI"
    <3>1. branch_of(m, op) = k_add(m, m.r[op.f % 4], op.imm, m.r[op.f % 4] + op.imm + m.C)
      BY <2>6 DEF branch_of
    <3>2. d = op.f % 4 /\ b = op.imm /\ c = m.C
      BY <2>1, <2>2, <2>6 DEF ImmReg
    <3>. QED BY <1>1, <3>1, <3>2 DEF Byte, Bit
  <2>. QED BY <2>3, <2>4, <2>5, <2>6 DEF Sums
<1>8. becomes(RefTick(m, op), m, op, r, t \div Span, zero(t % Span), sign(t % Span), o)
  BY <1>2, <1>3, <1>4, RefRegisters
<1>. HIDE DEF t, b, c
<1>9. /\ r \in [Reg -> Byte] /\ t \div Span \in Bit /\ zero(t % Span) \in Bit
      /\ sign(t % Span) \in Bit /\ o \in Bit
  BY <1>8 DEF becomes, Mach
<1>10. written(t % Span) = t % Span /\ (t % Span) % Span = t % Span /\ (t \div Span) % 2 = t \div Span
  BY <1>3, ByteKept, BitKept DEF written
<1>11. becomes(TorchTick(m, op), m, op, r, t \div Span, zero(t % Span), sign(t % Span), o)
  BY <1>2, <1>6, <1>9, <1>10, TorchRegisters
<1>12. becomes(KernelTick(m, op), m, op, r, t \div Span, zero(t % Span), sign(t % Span), o)
  <2>. DEFINE n == branch_of(m, op)
  <2>1. n.v = t % Span /\ n.c # <<>> /\ n.c[1] = t \div Span
        /\ n.Z = zero(t % Span) /\ n.S = sign(t % Span) /\ n.V = o
    BY <1>7, KAdd
  <2>. HIDE DEF n
  <2>. QED BY <1>2, <1>9, <1>10, <2>1, KernelRegisters DEF n
<1>. QED BY <1>8, <1>11, <1>12, AllAgree

LEMMA KSub ==
  ASSUME NEW m, NEW p, NEW q, NEW t
  PROVE  LET n == k_sub(m, p, q, t)
         IN /\ n.v = t % Span /\ n.c # <<>> /\ n.c[1] = one(t < 0)
            /\ n.Z = zero(t % Span) /\ n.S = sign(t % Span)
            /\ n.V = _overflow_sub(p, q, t % Span)
BY DEF k_sub, signs, zeroes, keeps, ovf_sub, _overflow_sub, one

LEMMA DifsAgree ==
  ASSUME NEW m, NEW op, Steps(m, op), op.kind \in Difs
  PROVE  agree(m, op)
<1>. DEFINE d == s0(op)
            b == IF op.kind \in ImmReg THEN op.imm ELSE m.r[s1(op)]
            c == IF op.kind \in {"SBB"} THEN m.C ELSE 0
            t == m.r[d] - b - c
            r == [m.r EXCEPT ![d] = t % Span]
            o == _overflow_sub(m.r[d], b, t % Span)
<1>1. /\ m \in Mach /\ op \in Op /\ d \in Reg /\ b \in Byte /\ c \in Bit /\ m.r[d] \in Byte
      /\ becomes(past(m, op), m, op, m.r, m.C, m.Z, m.S, m.V)
  BY Operands, Past DEF Steps, Bit
<1>2. Plain(op) /\ op.kind \notin {"DIV", "MOD"} /\ wr(op) /\ rows_R_en(op)
  BY DEF Plain, Difs, Branch, Pointer, PtrReg, wr, NoWrite, rows_R_en, Zeros
<1>3. /\ t \in Int /\ t % Span \in Byte
      /\ becomes(subs(past(m, op), d, b, c), m, op, r, one(t < 0), zero(t % Span), sign(t % Span), o)
  BY <1>1, Subs
<1>4. ref_registers(past(m, op), op) = subs(past(m, op), d, b, c)
  <2>1. past(m, op).r = m.r /\ past(m, op).C = m.C
    BY <1>1 DEF becomes
  <2>. QED BY <2>1 DEF ref_registers, Difs, ImmReg
<1>5. row_x(m, op) = m.r[d] /\ row_y(m, op) = b /\ row_cin(m, op) = c /\ row_dif(m, op) = t
  <2>1. op.kind \in ImmReg => row_rr(m, op) = m.r[d]
    BY <1>1, Operands DEF ImmReg, TwoReg
  <2>2. op.kind \notin ImmReg => row_a(m, op) = m.r[d] /\ row_b(m, op) = m.r[s1(op)]
    BY <1>1, Operands DEF Difs, ImmReg, TwoReg
  <2>3. row_x(m, op) = m.r[d] /\ row_y(m, op) = b /\ row_cin(m, op) = c
    BY <2>1, <2>2 DEF row_x, row_y, row_cin, Difs
  <2>. QED BY <2>3 DEF row_dif
<1>6. /\ rows_R_val(m, op) = t % Span /\ rows_C(m, op) = one(t < 0)
      /\ rows_Z(m, op) = zero(t % Span) /\ rows_S(m, op) = sign(t % Span) /\ rows_V(m, op) = o
  <2>. HIDE DEF t, b, c
  <2>1. rows_R_val(m, op) = t % Span
    BY <1>5 DEF rows_R_val, Sums, Difs
  <2>2. rows_C(m, op) = one(t < 0)
    BY <1>5 DEF rows_C, Sums, Difs
  <2>3. rows_Z(m, op) = zero(t % Span)
    BY <2>1 DEF rows_Z, Zeros, Difs
  <2>4. rows_S(m, op) = sign(t % Span)
    BY <2>1 DEF rows_S, Sums, Difs
  <2>5. rows_V(m, op) = o
    BY <1>5 DEF rows_V, _overflow_sub, Sums, Difs, one
  <2>. QED BY <2>1, <2>2, <2>3, <2>4, <2>5
<1>7. branch_of(m, op) = k_sub(m, m.r[d], b, t)
  <2>1. op.kind \notin ImmReg => op.f \div 4 = d /\ op.f % 4 = s1(op)
    BY <1>1, Operands DEF Difs, ImmReg, TwoReg
  <2>2. op.kind \in ImmReg => op.f % 4 = d
    BY <1>1, Operands DEF ImmReg, TwoReg
  <2>3. CASE op.kind = "SUB"
    <3>1. branch_of(m, op) = k_sub(m, m.r[op.f \div 4], m.r[op.f % 4], m.r[op.f \div 4] - m.r[op.f % 4])
      BY <2>3 DEF branch_of
    <3>2. d = op.f \div 4 /\ b = m.r[op.f % 4] /\ c = 0
      BY <2>1, <2>2, <2>3 DEF ImmReg
    <3>. QED BY <1>1, <3>1, <3>2 DEF Byte, Bit
  <2>4. CASE op.kind = "SBB"
    <3>1. branch_of(m, op) = k_sub(m, m.r[op.f \div 4], m.r[op.f % 4], m.r[op.f \div 4] - m.r[op.f % 4] - m.C)
      BY <2>4 DEF branch_of
    <3>2. d = op.f \div 4 /\ b = m.r[op.f % 4] /\ c = m.C
      BY <2>1, <2>2, <2>4 DEF ImmReg
    <3>. QED BY <1>1, <3>1, <3>2 DEF Byte, Bit
  <2>5. CASE op.kind = "SUBI"
    <3>1. branch_of(m, op) = k_sub(m, m.r[op.f % 4], op.imm, m.r[op.f % 4] - op.imm)
      BY <2>5 DEF branch_of
    <3>2. d = op.f % 4 /\ b = op.imm /\ c = 0
      BY <2>1, <2>2, <2>5 DEF ImmReg
    <3>. QED BY <1>1, <3>1, <3>2 DEF Byte, Bit
  <2>. QED BY <2>3, <2>4, <2>5 DEF Difs
<1>8. becomes(RefTick(m, op), m, op, r, one(t < 0), zero(t % Span), sign(t % Span), o)
  BY <1>2, <1>3, <1>4, RefRegisters
<1>. HIDE DEF t, b, c
<1>9. /\ r \in [Reg -> Byte] /\ one(t < 0) \in Bit /\ zero(t % Span) \in Bit
      /\ sign(t % Span) \in Bit /\ o \in Bit
  BY <1>8 DEF becomes, Mach
<1>10. written(t % Span) = t % Span /\ (t % Span) % Span = t % Span /\ one(t < 0) % 2 = one(t < 0)
  BY <1>3, <1>9, ByteKept, BitKept DEF written
<1>11. becomes(TorchTick(m, op), m, op, r, one(t < 0), zero(t % Span), sign(t % Span), o)
  BY <1>2, <1>6, <1>9, <1>10, TorchRegisters
<1>12. becomes(KernelTick(m, op), m, op, r, one(t < 0), zero(t % Span), sign(t % Span), o)
  <2>. DEFINE n == branch_of(m, op)
  <2>1. n.v = t % Span /\ n.c # <<>> /\ n.c[1] = one(t < 0)
        /\ n.Z = zero(t % Span) /\ n.S = sign(t % Span) /\ n.V = o
    BY <1>7, KSub
  <2>. HIDE DEF n
  <2>. QED BY <1>2, <1>9, <1>10, <2>1, KernelRegisters DEF n
<1>. QED BY <1>8, <1>11, <1>12, AllAgree

------------------------------------------------------------------------------
\* One result: a value for the register, Z that may follow it, and a carry.

\* Slots: the value v is what every path puts in the register, and r, C and Z
\* are what is left.
LEMMA ResultAgrees ==
  ASSUME NEW m, NEW op, Steps(m, op), Plain(op), wr(op), rows_R_en(op),
         op.kind \in {"DIV", "MOD"} => row_b(m, op) # 0 /\ m.r[op.f % 4] # 0,
         NEW v \in Byte, NEW C \in Bit, NEW Z \in Bit, NEW S \in Bit, NEW V \in Bit,
         becomes(ref_registers(past(m, op), op), m, op, [m.r EXCEPT ![s0(op)] = v], C, Z, S, V),
         rows_R_val(m, op) % Span = v,
         rows_C(m, op) = C, rows_Z(m, op) = Z, rows_S(m, op) = S, rows_V(m, op) = V,
         NEW n, n = branch_of(m, op), n.v % Span = v,
         C = IF n.c = <<>> THEN m.C ELSE n.c[1] % 2, n.Z = Z, n.S = S, n.V = V
  PROVE  agree(m, op)
<1>. DEFINE r == [m.r EXCEPT ![s0(op)] = v]
<1>1. becomes(RefTick(m, op), m, op, r, C, Z, S, V)
  BY RefRegisters
<1>2. r \in [Reg -> Byte]
  BY <1>1 DEF becomes, Mach
<1>3. becomes(TorchTick(m, op), m, op, r, C, Z, S, V)
  BY <1>2, TorchRegisters DEF written
<1>4. becomes(KernelTick(m, op), m, op, r, C, Z, S, V)
  <2>1. r = IF wr(op) THEN [m.r EXCEPT ![s0(op)] = n.v % Span] ELSE m.r
    OBVIOUS
  <2>. HIDE DEF r
  <2>. QED BY <1>2, <2>1, KernelRegisters
<1>. QED BY <1>1, <1>3, <1>4, AllAgree

\* The instructions that move no flag.
Copies == {"MOV", "LDI", "GETPC", "GETSP", "GETF"}

LEMMA CopyAgrees ==
  ASSUME NEW m, NEW op, Steps(m, op), op.kind \in Copies, NEW v \in Byte, NEW w, w % Span = v,
         ref_registers(past(m, op), op) = [past(m, op) EXCEPT !.r[s0(op)] = v],
         rows_R_val(m, op) = w, branch_of(m, op) = keeps(m, w)
  PROVE  agree(m, op)
<1>1. /\ m \in Mach /\ op \in Op /\ s0(op) \in Reg
      /\ m.C \in Bit /\ m.Z \in Bit /\ m.S \in Bit /\ m.V \in Bit
  BY Operands DEF Steps, Mach
<1>2. Plain(op) /\ op.kind \notin {"DIV", "MOD"} /\ wr(op) /\ rows_R_en(op)
  BY DEF Plain, Copies, Branch, Pointer, PtrReg, wr, NoWrite, rows_R_en, Zeros, Sums, Difs
<1>3. becomes(ref_registers(past(m, op), op), m, op, [m.r EXCEPT ![s0(op)] = v],
              m.C, m.Z, m.S, m.V)
  BY <1>1, Past, Leaves
<1>4. /\ rows_C(m, op) = m.C /\ rows_Z(m, op) = m.Z /\ rows_S(m, op) = m.S
      /\ rows_V(m, op) = m.V
  BY DEF Copies, rows_C, rows_Z, rows_S, rows_V, Sums, Difs, Zeros
<1>. DEFINE n == branch_of(m, op)
<1>5. n.v = w /\ n.c = <<>> /\ n.Z = m.Z /\ n.S = m.S /\ n.V = m.V
  BY DEF keeps
<1>. HIDE DEF n
<1>. QED BY <1>1, <1>2, <1>3, <1>4, <1>5, ResultAgrees DEF n

\* The instructions that move Z alone.
OnlyZ == {"AND", "OR", "XOR", "MULH", "DIV", "MOD", "NOT"}

LEMMA OnlyZAgrees ==
  ASSUME NEW m, NEW op, Steps(m, op), op.kind \in OnlyZ, NEW v \in Byte,
         op.kind \in {"DIV", "MOD"} => row_b(m, op) # 0 /\ m.r[op.f % 4] # 0,
         ref_registers(past(m, op), op) = leaves(past(m, op), s0(op), v),
         rows_R_val(m, op) = v, branch_of(m, op) = zeroes(m, v)
  PROVE  agree(m, op)
<1>1. /\ m \in Mach /\ op \in Op /\ s0(op) \in Reg
      /\ m.C \in Bit /\ m.S \in Bit /\ m.V \in Bit /\ zero(v) \in Bit
  BY Operands DEF Steps, Mach, zero, one, Bit
<1>2. Plain(op) /\ wr(op) /\ rows_R_en(op)
  BY DEF Plain, OnlyZ, Branch, Pointer, PtrReg, wr, NoWrite, rows_R_en, Zeros, Sums, Difs
<1>3. becomes(ref_registers(past(m, op), op), m, op, [m.r EXCEPT ![s0(op)] = v],
              m.C, zero(v), m.S, m.V)
  <2>1. becomes(past(m, op), m, op, m.r, m.C, m.Z, m.S, m.V)
    BY Past
  <2>2. becomes(leaves(past(m, op), s0(op), v), m, op, [m.r EXCEPT ![s0(op)] = v],
                m.C, zero(v), m.S, m.V)
    BY <1>1, <2>1, Leaves
  <2>. QED BY <2>2, Zenon
<1>4. /\ rows_C(m, op) = m.C /\ rows_Z(m, op) = zero(v) /\ rows_S(m, op) = m.S
      /\ rows_V(m, op) = m.V
  BY DEF OnlyZ, rows_C, rows_Z, rows_S, rows_V, Sums, Difs, Zeros
<1>. DEFINE n == branch_of(m, op)
<1>5. n.v = v /\ n.c = <<>> /\ n.Z = zero(v) /\ n.S = m.S /\ n.V = m.V
  BY DEF keeps, zeroes
<1>. HIDE DEF n
<1>. QED BY <1>1, <1>2, <1>3, <1>4, <1>5, ByteKept, ResultAgrees DEF n

\* The instructions that move Z and C.
ZAndC == {"MUL", "ROL", "ROR", "SHL", "SHR"}

LEMMA ZAndCAgrees ==
  ASSUME NEW m, NEW op, Steps(m, op), op.kind \in ZAndC, NEW v \in Byte, NEW c \in Bit,
         ref_registers(past(m, op), op) = [leaves(past(m, op), s0(op), v) EXCEPT !.C = c],
         rows_R_val(m, op) = v, rows_C(m, op) = c,
         branch_of(m, op) = [zeroes(m, v) EXCEPT !.c = <<c>>]
  PROVE  agree(m, op)
<1>1. /\ m \in Mach /\ op \in Op /\ s0(op) \in Reg
      /\ m.C \in Bit /\ m.S \in Bit /\ m.V \in Bit /\ zero(v) \in Bit
  BY Operands DEF Steps, Mach, zero, one, Bit
<1>2. Plain(op) /\ wr(op) /\ rows_R_en(op) /\ op.kind \notin {"DIV", "MOD"}
  BY DEF Plain, ZAndC, Branch, Pointer, PtrReg, wr, NoWrite, rows_R_en, Zeros, Sums, Difs
<1>3. becomes(ref_registers(past(m, op), op), m, op, [m.r EXCEPT ![s0(op)] = v],
              c, zero(v), m.S, m.V)
  <2>. DEFINE y == leaves(past(m, op), s0(op), v)
              r == [m.r EXCEPT ![s0(op)] = v]
  <2>1. becomes(past(m, op), m, op, m.r, m.C, m.Z, m.S, m.V)
    BY Past
  <2>2. becomes(y, m, op, r, m.C, zero(v), m.S, m.V)
    BY <1>1, <2>1, Leaves
  <2>. HIDE DEF y, r
  <2>3. becomes([y EXCEPT !.C = c], m, op, r, c, zero(v), m.S, m.V)
    BY <1>1, <2>2, Moves
  <2>. QED BY <2>3, Zenon DEF y, r
<1>4. /\ rows_Z(m, op) = zero(v) /\ rows_S(m, op) = m.S /\ rows_V(m, op) = m.V
  BY DEF ZAndC, rows_Z, rows_S, rows_V, Sums, Difs, Zeros
<1>. DEFINE n == branch_of(m, op)
<1>5. n.v = v /\ n.c # <<>> /\ n.c[1] = c /\ n.Z = zero(v) /\ n.S = m.S /\ n.V = m.V
  BY DEF keeps, zeroes
<1>6. c % 2 = c
  BY BitKept
<1>. HIDE DEF n
<1>. QED BY <1>1, <1>2, <1>3, <1>4, <1>5, <1>6, ByteKept, ResultAgrees DEF n

LEMMA PastFields ==
  ASSUME NEW m, NEW op, Steps(m, op)
  PROVE  LET p == past(m, op)
         IN /\ p \in Mach /\ p.r = m.r /\ p.C = m.C /\ p.Z = m.Z /\ p.S = m.S /\ p.V = m.V
            /\ p.HL = m.HL /\ p.DE = m.DE /\ p.MB = m.MB /\ p.SP = m.SP
            /\ p.PC = m.PC + op.len /\ p.ipos = m.ipos /\ p.status = m.status
BY Past DEF becomes

LEMMA Larger ==
  ASSUME NEW k \in Nat, NEW e \in Nat, NEW v \in Nat
  PROVE  k * v <= (k + e) * v
<1>1. (k + e) * v = k * v + e * v /\ e * v >= 0 /\ k * v \in Nat
  OBVIOUS
<1>. QED BY <1>1

\* What the byte instructions compute stays a byte, and their carries bits.
LEMMA Products ==
  ASSUME NEW a \in Byte, NEW b \in Byte
  PROVE  /\ (a * b) % Span \in Byte /\ (a * b) \div Span \in Byte
         /\ (a * b >= Span) <=> (a * b > Span - 1)
         /\ b # 0 => a \div b \in Byte /\ a % b \in Byte
<1>1. ASSUME NEW W \in Nat \ {0}, NEW u \in 0 .. W - 1, NEW v \in 0 .. W - 1
      PROVE  /\ (u * v) % W \in 0 .. W - 1 /\ (u * v) \div W \in 0 .. W - 1
             /\ (u * v >= W) <=> (u * v > W - 1)
             /\ v # 0 => u \div v \in 0 .. W - 1 /\ u % v \in 0 .. W - 1
  <2>1. u * v \in Nat
    OBVIOUS
  <2>2. (u * v) % W \in 0 .. W - 1
    BY <2>1
  <2>3. (u * v >= W) <=> (u * v > W - 1)
    BY <2>1
  <2>4. u * v < W * W
    <3>1. u * v <= W * v
      <4>1. u \in Nat /\ W - u \in Nat /\ W = u + (W - u)
        OBVIOUS
      <4>. QED BY <4>1, Larger
    <3>2. v * W <= (W - 1) * W
      <4>1. W - 1 - v \in Nat /\ W - 1 = v + (W - 1 - v)
        OBVIOUS
      <4>. QED BY <4>1, Larger
    <3>3. /\ (W - 1) * W = W * W - W /\ W * v = v * W
          /\ W * W \in Int /\ W * v \in Int /\ W \in Int /\ W > 0
      OBVIOUS
    <3>. DEFINE x == W * v
                z == W * W
                t == u * v
    <3>4. t <= x /\ x <= z - W /\ t \in Int /\ x \in Int /\ z \in Int
      BY <2>1, <3>1, <3>2, <3>3
    <3>. HIDE DEF x, z, t
    <3>5. t < z
      BY <3>3, <3>4
    <3>. QED BY <3>5 DEF t, z
  <2>5. (u * v) \div W \in 0 .. W - 1
    <3>. DEFINE q == (u * v) \div W
    <3>1. q \in Nat /\ q * W <= u * v
      BY <2>1
    <3>. HIDE DEF q
    <3>2. ASSUME q >= W PROVE FALSE
      <4>1. W * W <= q * W
        <5>1. q - W \in Nat /\ q = W + (q - W)
          BY <3>1, <3>2
        <5>. QED BY <5>1, Larger
      <4>2. q * W \in Int /\ W * W \in Int
        BY <3>1
      <4>. QED BY <2>1, <2>4, <3>1, <4>1, <4>2
    <3>. QED BY <3>1, <3>2 DEF q
  <2>6. ASSUME v # 0 PROVE u \div v \in 0 .. W - 1
    BY <2>6
  <2>7. ASSUME v # 0 PROVE u % v \in 0 .. W - 1
    BY <2>7
  <2>. QED BY <2>2, <2>3, <2>5, <2>6, <2>7
<1>. QED BY <1>1, ByteWidth DEF Byte

LEMMA Shifts ==
  ASSUME NEW a \in Byte, NEW c \in Bit
  PROVE  /\ (-a - 1) % Span = Span - 1 - a /\ Span - 1 - a \in Byte
         /\ (-a) % Span \in Byte
         /\ (2 * a + c) % Span \in Byte /\ (2 * a) % Span \in Byte /\ a \div Half \in Bit
         /\ a \div 2 + Half * c \in Byte /\ a \div 2 \in Byte /\ a % 2 \in Bit
<1>1. ASSUME NEW H \in Nat \ {0}, NEW u \in 0 .. 2 * H - 1, NEW w \in {0, 1}
      PROVE  /\ (-u - 1) % (2 * H) = 2 * H - 1 - u /\ 2 * H - 1 - u \in 0 .. 2 * H - 1
             /\ (-u) % (2 * H) \in 0 .. 2 * H - 1
             /\ (2 * u + w) % (2 * H) \in 0 .. 2 * H - 1 /\ (2 * u) % (2 * H) \in 0 .. 2 * H - 1
             /\ u \div H \in {0, 1}
             /\ u \div 2 + H * w \in 0 .. 2 * H - 1 /\ u \div 2 \in 0 .. 2 * H - 1 /\ u % 2 \in {0, 1}
  <2>1. (-u - 1) % (2 * H) = 2 * H - 1 - u /\ 2 * H - 1 - u \in 0 .. 2 * H - 1
    OBVIOUS
  <2>2. /\ (-u) % (2 * H) \in 0 .. 2 * H - 1
        /\ (2 * u + w) % (2 * H) \in 0 .. 2 * H - 1 /\ (2 * u) % (2 * H) \in 0 .. 2 * H - 1
    OBVIOUS
  <2>3. u \div H \in {0, 1}
    OBVIOUS
  <2>4. /\ u \div 2 + H * w \in 0 .. 2 * H - 1 /\ u \div 2 \in 0 .. 2 * H - 1 /\ u % 2 \in {0, 1}
    <3>1. CASE w = 0
      BY <3>1
    <3>2. CASE w = 1
      BY <3>2
    <3>. QED BY <3>1, <3>2
  <2>. QED BY <2>1, <2>2, <2>3, <2>4
<1>. QED BY <1>1, ByteWidth DEF Byte, Bit

\* Every machine of a step has typed operands, and the reference computes on the
\* same ones.
LEMMA Typed ==
  ASSUME NEW m, NEW op, Steps(m, op)
  PROVE  /\ m \in Mach /\ op \in Op /\ Span \in Nat \ {0}
         /\ m.PC \in Int /\ op.len \in Int /\ m.SP \in Int
         /\ m.PC % Span \in Byte /\ m.SP % Span \in Byte
         /\ m.Z \in Bit /\ m.C \in Bit /\ m.S \in Bit /\ m.V \in Bit
         /\ flags_byte(m) \in Byte
<1>1. m \in Mach /\ op \in Op
  BY DEF Steps
<1>2. Span \in Nat \ {0}
  BY ByteWidth
<1>3. ASSUME NEW W \in Nat \ {0}, NEW v \in Int PROVE v % W \in 0 .. W - 1
  OBVIOUS
<1>4. m.Z \in Bit /\ m.C \in Bit /\ m.S \in Bit /\ m.V \in Bit
  BY <1>1 DEF Mach
<1>5. m.PC \in Int /\ op.len \in Int /\ m.SP \in Int
  <2>1. m.PC \in Word /\ m.SP \in Word /\ op.len \in 1 .. 3
    BY <1>1 DEF Mach, Op
  <2>. QED BY <2>1, <1>2 DEF Word
<1>6. m.Z + 2 * m.C + 4 * m.S + 8 * m.V \in Int
  BY <1>4 DEF Bit
<1>. QED BY <1>1, <1>2, <1>3, <1>4, <1>5, <1>6 DEF flags_byte, Byte

LEMMA CopiesAgree ==
  ASSUME NEW m, NEW op, Steps(m, op), op.kind \in Copies
  PROVE  agree(m, op)
<1>1. CASE op.kind = "MOV"
  <2>. DEFINE v == m.r[s1(op)]
  <2>1. op.kind \in TwoReg
    BY <1>1 DEF TwoReg
  <2>2. v \in Byte /\ row_b(m, op) = v /\ m.r[op.f % 4] = v /\ v % Span = v
    BY <2>1, Typed, Operands, ByteKept
  <2>3. ref_registers(past(m, op), op) = [past(m, op) EXCEPT !.r[s0(op)] = v]
    BY <1>1, PastFields DEF ref_registers
  <2>4. rows_R_val(m, op) = v
    BY <1>1, <2>2 DEF rows_R_val, Sums, Difs
  <2>5. branch_of(m, op) = keeps(m, v)
    BY <1>1, <2>2 DEF branch_of
  <2>. QED BY <2>2, <2>3, <2>4, <2>5, CopyAgrees
<1>2. CASE op.kind = "LDI"
  <2>. DEFINE v == op.imm
  <2>2. v \in Byte /\ v % Span = v
    BY Typed, Operands, ByteKept
  <2>3. ref_registers(past(m, op), op) = [past(m, op) EXCEPT !.r[s0(op)] = v]
    BY <1>2, PastFields DEF ref_registers
  <2>4. rows_R_val(m, op) = v
    BY <1>2, <2>2 DEF rows_R_val, Sums, Difs
  <2>5. branch_of(m, op) = keeps(m, v)
    BY <1>2, <2>2 DEF branch_of
  <2>. QED BY <2>2, <2>3, <2>4, <2>5, CopyAgrees
<1>3. CASE op.kind = "GETPC"
  <2>. DEFINE v == m.PC % Span
  <2>1. (past(m, op).PC - op.len) % Span = v
    <3>1. past(m, op).PC - op.len = m.PC
      BY Typed, PastFields
    <3>. QED BY <3>1
  <2>2. v \in Byte
    BY Typed
  <2>3. ref_registers(past(m, op), op) = [past(m, op) EXCEPT !.r[s0(op)] = v]
    <3>1. ref_registers(past(m, op), op) =
            [past(m, op) EXCEPT !.r[s0(op)] = (past(m, op).PC - op.len) % Span]
      BY <1>3 DEF ref_registers
    <3>. QED BY <2>1, <3>1, Zenon
  <2>4. rows_R_val(m, op) = m.PC
    BY <1>3 DEF rows_R_val, Sums, Difs
  <2>5. branch_of(m, op) = keeps(m, m.PC)
    BY <1>3 DEF branch_of
  <2>. QED BY <2>2, <2>3, <2>4, <2>5, CopyAgrees
<1>4. CASE op.kind = "GETSP"
  <2>. DEFINE v == m.SP % Span
  <2>2. v \in Byte /\ v % Span = v
    BY Typed, ByteKept
  <2>3. ref_registers(past(m, op), op) = [past(m, op) EXCEPT !.r[s0(op)] = v]
    BY <1>4, PastFields DEF ref_registers
  <2>4. rows_R_val(m, op) = v
    BY <1>4 DEF rows_R_val, Sums, Difs
  <2>5. branch_of(m, op) = keeps(m, v)
    BY <1>4 DEF branch_of
  <2>. QED BY <2>2, <2>3, <2>4, <2>5, CopyAgrees
<1>5. CASE op.kind = "GETF"
  <2>. DEFINE w == m.Z + 2 * m.C + 4 * m.S + 8 * m.V
              v == flags_byte(m)
  <2>2. v \in Byte /\ w % Span = v
    BY Typed DEF flags_byte
  <2>3. ref_registers(past(m, op), op) = [past(m, op) EXCEPT !.r[s0(op)] = v]
    <3>1. flags_byte(past(m, op)) = v
      BY PastFields DEF flags_byte
    <3>2. ref_registers(past(m, op), op) = [past(m, op) EXCEPT !.r[s0(op)] = flags_byte(past(m, op))]
      BY <1>5 DEF ref_registers
    <3>. QED BY <3>1, <3>2, Zenon
  <2>4. rows_R_val(m, op) = w
    BY <1>5 DEF rows_R_val, Sums, Difs
  <2>5. branch_of(m, op) = keeps(m, w)
    BY <1>5 DEF branch_of
  <2>. HIDE DEF v, w
  <2>. QED BY <2>2, <2>3, <2>4, <2>5, CopyAgrees
<1>. QED BY <1>1, <1>2, <1>3, <1>4, <1>5 DEF Copies

\* The operands of an instruction on two registers, on the three paths.
LEMMA Two ==
  ASSUME NEW m, NEW op, Steps(m, op), op.kind \in TwoReg
  PROVE  LET a == m.r[s0(op)]
             b == m.r[s1(op)]
         IN /\ a \in Byte /\ b \in Byte /\ row_a(m, op) = a /\ row_b(m, op) = b
            /\ m.r[op.f \div 4] = a /\ m.r[op.f % 4] = b
            /\ past(m, op).r[s0(op)] = a /\ past(m, op).r[s1(op)] = b
BY Typed, Operands, PastFields

LEMMA OneOp ==
  ASSUME NEW m, NEW op, Steps(m, op), op.kind \notin TwoReg
  PROVE  LET a == m.r[s0(op)]
         IN /\ a \in Byte /\ row_rr(m, op) = a
            /\ m.r[op.f % 4] = a /\ past(m, op).r[s0(op)] = a
BY Typed, Operands, PastFields

LEMMA OnlyZsAgree ==
  ASSUME NEW m, NEW op, Steps(m, op), op.kind \in OnlyZ,
         op.kind \in {"DIV", "MOD"} => m.r[s1(op)] # 0
  PROVE  agree(m, op)
<1>. DEFINE a == m.r[s0(op)]
            b == m.r[s1(op)]
            p == past(m, op)
            d == s0(op)
<1>1. CASE op.kind = "AND"
  <2>. DEFINE v == band(a, b)
  <2>1. op.kind \in TwoReg
    BY <1>1 DEF TwoReg
  <2>2. /\ a \in Byte /\ b \in Byte /\ row_a(m, op) = a /\ row_b(m, op) = b
        /\ m.r[op.f \div 4] = a /\ m.r[op.f % 4] = b /\ p.r[d] = a /\ p.r[s1(op)] = b
    BY <2>1, Two
  <2>. HIDE DEF p, d, a, b
  <2>3. v \in Byte
    BY BitwiseByte
  <2>4. ref_registers(p, op) = leaves(p, d, v)
    BY <1>1, <2>2 DEF ref_registers, d
  <2>5. rows_R_val(m, op) = v
    BY <1>1, <2>2, <2>3 DEF rows_R_val, Sums, Difs
  <2>6. branch_of(m, op) = zeroes(m, v)
    BY <1>1, <2>2, <2>3 DEF branch_of
  <2>. HIDE DEF v
  <2>. QED BY <1>1, <2>2, <2>3, <2>4, <2>5, <2>6, OnlyZAgrees DEF p, d, a, b
<1>2. CASE op.kind = "OR"
  <2>. DEFINE v == bor(a, b)
  <2>1. op.kind \in TwoReg
    BY <1>2 DEF TwoReg
  <2>2. /\ a \in Byte /\ b \in Byte /\ row_a(m, op) = a /\ row_b(m, op) = b
        /\ m.r[op.f \div 4] = a /\ m.r[op.f % 4] = b /\ p.r[d] = a /\ p.r[s1(op)] = b
    BY <2>1, Two
  <2>. HIDE DEF p, d, a, b
  <2>3. v \in Byte
    BY BitwiseByte
  <2>4. ref_registers(p, op) = leaves(p, d, v)
    BY <1>2, <2>2 DEF ref_registers, d
  <2>5. rows_R_val(m, op) = v
    BY <1>2, <2>2, <2>3 DEF rows_R_val, Sums, Difs
  <2>6. branch_of(m, op) = zeroes(m, v)
    BY <1>2, <2>2, <2>3 DEF branch_of
  <2>. HIDE DEF v
  <2>. QED BY <1>2, <2>2, <2>3, <2>4, <2>5, <2>6, OnlyZAgrees DEF p, d, a, b
<1>3. CASE op.kind = "XOR"
  <2>. DEFINE v == bxor(a, b)
  <2>1. op.kind \in TwoReg
    BY <1>3 DEF TwoReg
  <2>2. /\ a \in Byte /\ b \in Byte /\ row_a(m, op) = a /\ row_b(m, op) = b
        /\ m.r[op.f \div 4] = a /\ m.r[op.f % 4] = b /\ p.r[d] = a /\ p.r[s1(op)] = b
    BY <2>1, Two
  <2>. HIDE DEF p, d, a, b
  <2>3. v \in Byte
    BY BitwiseByte
  <2>4. ref_registers(p, op) = leaves(p, d, v)
    BY <1>3, <2>2 DEF ref_registers, d
  <2>5. rows_R_val(m, op) = v
    BY <1>3, <2>2, <2>3 DEF rows_R_val, Sums, Difs
  <2>6. branch_of(m, op) = zeroes(m, v)
    BY <1>3, <2>2, <2>3 DEF branch_of
  <2>. HIDE DEF v
  <2>. QED BY <1>3, <2>2, <2>3, <2>4, <2>5, <2>6, OnlyZAgrees DEF p, d, a, b
<1>4. CASE op.kind = "MULH"
  <2>. DEFINE v == (a * b) \div Span
  <2>1. op.kind \in TwoReg
    BY <1>4 DEF TwoReg
  <2>2. /\ a \in Byte /\ b \in Byte /\ row_a(m, op) = a /\ row_b(m, op) = b
        /\ m.r[op.f \div 4] = a /\ m.r[op.f % 4] = b /\ p.r[d] = a /\ p.r[s1(op)] = b
    BY <2>1, Two
  <2>. HIDE DEF p, d, a, b
  <2>3. v \in Byte /\ ((a * b) \div Span) % Span = v
    BY <2>2, Products, ByteKept
  <2>4. ref_registers(p, op) = leaves(p, d, v)
    BY <1>4, <2>2 DEF ref_registers, d
  <2>5. rows_R_val(m, op) = v
    BY <1>4, <2>2, <2>3 DEF rows_R_val, Sums, Difs
  <2>6. branch_of(m, op) = zeroes(m, v)
    BY <1>4, <2>2, <2>3 DEF branch_of
  <2>. HIDE DEF v
  <2>. QED BY <1>4, <2>2, <2>3, <2>4, <2>5, <2>6, OnlyZAgrees DEF p, d, a, b
<1>5. CASE op.kind = "DIV"
  <2>. DEFINE v == a \div b
  <2>0. b # 0
    BY <1>5
  <2>1. op.kind \in TwoReg
    BY <1>5 DEF TwoReg
  <2>2. /\ a \in Byte /\ b \in Byte /\ row_a(m, op) = a /\ row_b(m, op) = b
        /\ m.r[op.f \div 4] = a /\ m.r[op.f % 4] = b /\ p.r[d] = a /\ p.r[s1(op)] = b
    BY <2>1, Two
  <2>. HIDE DEF p, d, a, b
  <2>3. v \in Byte
    BY <2>2, Products, <2>0
  <2>4. ref_registers(p, op) = leaves(p, d, v)
    BY <1>5, <2>2, <2>0 DEF ref_registers, d
  <2>5. rows_R_val(m, op) = v
    BY <1>5, <2>2, <2>3, <2>0 DEF rows_R_val, Sums, Difs, b_safe
  <2>6. branch_of(m, op) = zeroes(m, v)
    BY <1>5, <2>2, <2>3, <2>0 DEF branch_of, b_safe
  <2>. HIDE DEF v
  <2>. QED BY <1>5, <2>2, <2>3, <2>4, <2>5, <2>6, OnlyZAgrees DEF p, d, a, b
<1>6. CASE op.kind = "MOD"
  <2>. DEFINE v == a % b
  <2>0. b # 0
    BY <1>6
  <2>1. op.kind \in TwoReg
    BY <1>6 DEF TwoReg
  <2>2. /\ a \in Byte /\ b \in Byte /\ row_a(m, op) = a /\ row_b(m, op) = b
        /\ m.r[op.f \div 4] = a /\ m.r[op.f % 4] = b /\ p.r[d] = a /\ p.r[s1(op)] = b
    BY <2>1, Two
  <2>. HIDE DEF p, d, a, b
  <2>3. v \in Byte
    BY <2>2, Products, <2>0
  <2>4. ref_registers(p, op) = leaves(p, d, v)
    BY <1>6, <2>2, <2>0 DEF ref_registers, d
  <2>5. rows_R_val(m, op) = v
    BY <1>6, <2>2, <2>3, <2>0 DEF rows_R_val, Sums, Difs, b_safe
  <2>6. branch_of(m, op) = zeroes(m, v)
    BY <1>6, <2>2, <2>3, <2>0 DEF branch_of, b_safe
  <2>. HIDE DEF v
  <2>. QED BY <1>6, <2>2, <2>3, <2>4, <2>5, <2>6, OnlyZAgrees DEF p, d, a, b
<1>7. CASE op.kind = "NOT"
  <2>. DEFINE v == Span - 1 - a
  <2>1. op.kind \notin TwoReg
    BY <1>7 DEF TwoReg
  <2>2. a \in Byte /\ row_rr(m, op) = a /\ m.r[op.f % 4] = a /\ p.r[d] = a
    BY <2>1, OneOp
  <2>. HIDE DEF p, d, a
  <2>3. v \in Byte /\ (-a - 1) % Span = v
    BY <2>2, Shifts DEF Bit
  <2>4. ref_registers(p, op) = leaves(p, d, v)
    BY <1>7, <2>2 DEF ref_registers, d
  <2>5. rows_R_val(m, op) = v
    BY <1>7, <2>2, <2>3 DEF rows_R_val, Sums, Difs
  <2>6. branch_of(m, op) = zeroes(m, v)
    BY <1>7, <2>2, <2>3 DEF branch_of
  <2>. HIDE DEF v
  <2>. QED BY <1>7, <2>2, <2>3, <2>4, <2>5, <2>6, OnlyZAgrees DEF p, d, a
<1>. QED BY <1>1, <1>2, <1>3, <1>4, <1>5, <1>6, <1>7 DEF OnlyZ

LEMMA ZAndCsAgree ==
  ASSUME NEW m, NEW op, Steps(m, op), op.kind \in ZAndC
  PROVE  agree(m, op)
<1>. DEFINE a == m.r[s0(op)]
            b == m.r[s1(op)]
            p == past(m, op)
            d == s0(op)
<1>0. m.C \in Bit /\ p.C = m.C
  BY Typed, PastFields
<1>1. CASE op.kind = "MUL"
  <2>. DEFINE v == (a * b) % Span
              c == one(a * b >= Span)
  <2>1. op.kind \in TwoReg
    BY <1>1 DEF TwoReg
  <2>2. /\ a \in Byte /\ b \in Byte /\ row_a(m, op) = a /\ row_b(m, op) = b
        /\ m.r[op.f \div 4] = a /\ m.r[op.f % 4] = b /\ p.r[d] = a /\ p.r[s1(op)] = b
    BY <2>1, Two
  <2>. HIDE DEF p, d, a, b
  <2>3. v \in Byte /\ c \in Bit /\ one(a * b > Span - 1) = c
    BY <2>2, Products DEF one, Bit
  <2>4. ref_registers(p, op) = [leaves(p, d, v) EXCEPT !.C = c]
    BY <1>1, <2>2 DEF ref_registers, d
  <2>5. rows_R_val(m, op) = v /\ rows_C(m, op) = c
    BY <1>1, <2>2, <2>3 DEF rows_R_val, rows_C, Sums, Difs
  <2>6. branch_of(m, op) = [zeroes(m, v) EXCEPT !.c = <<c>>]
    <3>1. branch_of(m, op) = [zeroes(m, (m.r[op.f \div 4] * m.r[op.f % 4]) % Span)
                                EXCEPT !.c = <<one(m.r[op.f \div 4] * m.r[op.f % 4] > Span - 1)>>]
      BY <1>1 DEF branch_of
    <3>. QED BY <2>2, <2>3, <3>1, Zenon
  <2>. HIDE DEF v, c
  <2>. QED BY <2>3, <2>4, <2>5, <2>6, ZAndCAgrees DEF p, d
<1>2. CASE op.kind = "ROL"
  <2>. DEFINE v == (2 * a + m.C) % Span
              c == a \div Half
  <2>1. op.kind \notin TwoReg
    BY <1>2 DEF TwoReg
  <2>2. a \in Byte /\ row_rr(m, op) = a /\ m.r[op.f % 4] = a /\ p.r[d] = a
    BY <2>1, OneOp
  <2>. HIDE DEF p, d, a
  <2>3. v \in Byte /\ c \in Bit
    BY <1>0, <2>2, Shifts
  <2>4. ref_registers(p, op) = [leaves(p, d, v) EXCEPT !.C = c]
    BY <1>2, <1>0, <2>2 DEF ref_registers, d
  <2>5. rows_R_val(m, op) = v /\ rows_C(m, op) = c
    BY <1>2, <2>2 DEF rows_R_val, rows_C, Sums, Difs
  <2>6. branch_of(m, op) = [zeroes(m, v) EXCEPT !.c = <<c>>]
    BY <1>2, <2>2 DEF branch_of
  <2>. HIDE DEF v, c
  <2>. QED BY <2>3, <2>4, <2>5, <2>6, ZAndCAgrees DEF p, d
<1>3. CASE op.kind = "ROR"
  <2>. DEFINE v == a \div 2 + Half * m.C
              c == a % 2
  <2>1. op.kind \notin TwoReg
    BY <1>3 DEF TwoReg
  <2>2. a \in Byte /\ row_rr(m, op) = a /\ m.r[op.f % 4] = a /\ p.r[d] = a
    BY <2>1, OneOp
  <2>. HIDE DEF p, d, a
  <2>3. v \in Byte /\ c \in Bit
    BY <1>0, <2>2, Shifts
  <2>4. ref_registers(p, op) = [leaves(p, d, v) EXCEPT !.C = c]
    BY <1>3, <1>0, <2>2 DEF ref_registers, d
  <2>5. rows_R_val(m, op) = v /\ rows_C(m, op) = c
    BY <1>3, <2>2 DEF rows_R_val, rows_C, Sums, Difs
  <2>6. branch_of(m, op) = [zeroes(m, v) EXCEPT !.c = <<c>>]
    BY <1>3, <2>2 DEF branch_of
  <2>. HIDE DEF v, c
  <2>. QED BY <2>3, <2>4, <2>5, <2>6, ZAndCAgrees DEF p, d
<1>4. CASE op.kind = "SHL"
  <2>. DEFINE v == (2 * a) % Span
              c == a \div Half
  <2>1. op.kind \notin TwoReg
    BY <1>4 DEF TwoReg
  <2>2. a \in Byte /\ row_rr(m, op) = a /\ m.r[op.f % 4] = a /\ p.r[d] = a
    BY <2>1, OneOp
  <2>. HIDE DEF p, d, a
  <2>3. v \in Byte /\ c \in Bit
    BY <1>0, <2>2, Shifts
  <2>4. ref_registers(p, op) = [leaves(p, d, v) EXCEPT !.C = c]
    BY <1>4, <1>0, <2>2 DEF ref_registers, d
  <2>5. rows_R_val(m, op) = v /\ rows_C(m, op) = c
    BY <1>4, <2>2 DEF rows_R_val, rows_C, Sums, Difs
  <2>6. branch_of(m, op) = [zeroes(m, v) EXCEPT !.c = <<c>>]
    BY <1>4, <2>2 DEF branch_of
  <2>. HIDE DEF v, c
  <2>. QED BY <2>3, <2>4, <2>5, <2>6, ZAndCAgrees DEF p, d
<1>5. CASE op.kind = "SHR"
  <2>. DEFINE v == a \div 2
              c == a % 2
  <2>1. op.kind \notin TwoReg
    BY <1>5 DEF TwoReg
  <2>2. a \in Byte /\ row_rr(m, op) = a /\ m.r[op.f % 4] = a /\ p.r[d] = a
    BY <2>1, OneOp
  <2>. HIDE DEF p, d, a
  <2>3. v \in Byte /\ c \in Bit
    BY <1>0, <2>2, Shifts
  <2>4. ref_registers(p, op) = [leaves(p, d, v) EXCEPT !.C = c]
    BY <1>5, <1>0, <2>2 DEF ref_registers, d
  <2>5. rows_R_val(m, op) = v /\ rows_C(m, op) = c
    BY <1>5, <2>2 DEF rows_R_val, rows_C, Sums, Difs
  <2>6. branch_of(m, op) = [zeroes(m, v) EXCEPT !.c = <<c>>]
    BY <1>5, <2>2 DEF branch_of
  <2>. HIDE DEF v, c
  <2>. QED BY <2>3, <2>4, <2>5, <2>6, ZAndCAgrees DEF p, d
<1>. QED BY <1>1, <1>2, <1>3, <1>4, <1>5 DEF ZAndC

LEMMA NegAgrees ==
  ASSUME NEW m, NEW op, Steps(m, op), op.kind = "NEG"
  PROVE  agree(m, op)
<1>. DEFINE a == m.r[s0(op)]
            p == past(m, op)
            d == s0(op)
            v == (-a) % Span
            c == one(a # 0)
            r == [m.r EXCEPT ![d] = v]
<1>1. a \in Byte /\ row_rr(m, op) = a /\ m.r[op.f % 4] = a /\ p.r[d] = a
  BY OneOp DEF TwoReg
<1>2. /\ m \in Mach /\ op \in Op /\ d \in Reg
      /\ m.C \in Bit /\ m.Z \in Bit /\ m.S \in Bit /\ m.V \in Bit
  BY Typed, Operands
<1>. HIDE DEF a
<1>3. v \in Byte /\ c \in Bit /\ zero(v) \in Bit /\ sign(v) \in Bit
  BY <1>1, Shifts DEF zero, sign, one, Bit
<1>4. Plain(op) /\ op.kind \notin {"DIV", "MOD"} /\ wr(op) /\ rows_R_en(op)
  BY DEF Plain, Branch, Pointer, PtrReg, wr, NoWrite, rows_R_en, Zeros, Sums, Difs
<1>. HIDE DEF d
<1>5. ref_registers(p, op) = [leaves(p, d, v) EXCEPT !.C = c, !.S = sign(v)]
  BY <1>1 DEF ref_registers, d
<1>6. becomes(ref_registers(p, op), m, op, r, c, zero(v), sign(v), m.V)
  <2>. DEFINE y == leaves(p, d, v)
  <2>1. becomes(p, m, op, m.r, m.C, m.Z, m.S, m.V)
    BY Past
  <2>. HIDE DEF p, v, c
  <2>2. becomes(y, m, op, r, m.C, zero(v), m.S, m.V)
    BY <1>2, <1>3, <2>1, Leaves
  <2>. HIDE DEF y, r
  <2>3. becomes([y EXCEPT !.C = c, !.S = sign(v)], m, op, r, c, zero(v), sign(v), m.V)
    BY <1>2, <1>3, <2>2, Moves
  <2>. QED BY <1>5, <2>3, Zenon DEF y
<1>7. rows_R_val(m, op) = v
  BY <1>1 DEF rows_R_val, Sums, Difs
<1>8. rows_C(m, op) = c /\ rows_Z(m, op) = zero(v) /\ rows_S(m, op) = sign(v) /\ rows_V(m, op) = m.V
  BY <1>1, <1>7 DEF rows_C, rows_Z, rows_S, rows_V, Sums, Difs, Zeros
<1>9. branch_of(m, op) = [signs(m, v, m.V) EXCEPT !.c = <<c>>]
  BY <1>1 DEF branch_of
<1>. DEFINE n == branch_of(m, op)
<1>. HIDE DEF v, c, p
<1>10. n.v = v /\ n.c # <<>> /\ n.c[1] = c /\ n.Z = zero(v) /\ n.S = sign(v) /\ n.V = m.V
  BY <1>9 DEF signs, zeroes, keeps
<1>11. c % 2 = c /\ v % Span = v
  BY <1>3, BitKept, ByteKept
<1>. HIDE DEF n
<1>. QED BY <1>2, <1>3, <1>4, <1>6, <1>7, <1>8, <1>10, <1>11, ResultAgrees DEF n, d, p

\* The instructions that leave the registers alone; the kernel writes one back
\* as it was for TST.
LEMMA KeptAgrees ==
  ASSUME NEW m, NEW op, Steps(m, op), Plain(op), ~rows_R_en(op), op.kind \notin {"DIV", "MOD"},
         NEW C \in Bit, NEW Z \in Bit, NEW S \in Bit, NEW V \in Bit,
         becomes(ref_registers(past(m, op), op), m, op, m.r, C, Z, S, V),
         rows_C(m, op) = C, rows_Z(m, op) = Z, rows_S(m, op) = S, rows_V(m, op) = V,
         NEW n, n = branch_of(m, op), wr(op) => n.v % Span = m.r[s0(op)],
         C = IF n.c = <<>> THEN m.C ELSE n.c[1] % 2, n.Z = Z, n.S = S, n.V = V
  PROVE  agree(m, op)
<1>1. m \in Mach /\ m.r \in [Reg -> Byte]
  BY Typed DEF Mach
<1>2. becomes(RefTick(m, op), m, op, m.r, C, Z, S, V)
  BY RefRegisters
<1>3. becomes(TorchTick(m, op), m, op, m.r, C, Z, S, V)
  BY <1>1, TorchRegisters
<1>4. becomes(KernelTick(m, op), m, op, m.r, C, Z, S, V)
  <2>1. m.r = IF wr(op) THEN [m.r EXCEPT ![s0(op)] = n.v % Span] ELSE m.r
    BY <1>1
  <2>. QED BY <1>1, <2>1, KernelRegisters
<1>. QED BY <1>2, <1>3, <1>4, AllAgree

LEMMA TstAgrees ==
  ASSUME NEW m, NEW op, Steps(m, op), op.kind = "TST"
  PROVE  agree(m, op)
<1>. DEFINE a == m.r[s0(op)]
            p == past(m, op)
            n == branch_of(m, op)
<1>1. a \in Byte /\ row_rr(m, op) = a /\ m.r[op.f % 4] = a /\ p.r[s0(op)] = a
  BY OneOp DEF TwoReg
<1>2. m.C \in Bit /\ m.S \in Bit /\ m.V \in Bit /\ zero(a) \in Bit
  BY Typed DEF zero, one, Bit
<1>3. Plain(op) /\ op.kind \notin {"DIV", "MOD"} /\ ~rows_R_en(op)
  BY DEF Plain, Branch, Pointer, PtrReg, rows_R_en, Zeros, Sums, Difs
<1>4. becomes(ref_registers(p, op), m, op, m.r, m.C, zero(a), m.S, m.V)
  <2>1. ref_registers(p, op) = [p EXCEPT !.Z = zero(a)]
    BY <1>1 DEF ref_registers
  <2>2. becomes(p, m, op, m.r, m.C, m.Z, m.S, m.V)
    BY Past
  <2>. HIDE DEF a, p
  <2>3. becomes([p EXCEPT !.Z = zero(a)], m, op, m.r, m.C, zero(a), m.S, m.V)
    BY <1>2, <2>2, Moves
  <2>. QED BY <2>1, <2>3, Zenon
<1>5. rows_C(m, op) = m.C /\ rows_Z(m, op) = zero(a) /\ rows_S(m, op) = m.S /\ rows_V(m, op) = m.V
  BY <1>1 DEF rows_C, rows_Z, rows_S, rows_V, Sums, Difs, Zeros
<1>6. n = zeroes(m, a)
  BY <1>1 DEF branch_of
<1>7. n.v = a /\ n.c = <<>> /\ n.Z = zero(a) /\ n.S = m.S /\ n.V = m.V
  BY <1>6 DEF zeroes, keeps
<1>8. n.v % Span = a
  BY <1>1, <1>7, ByteKept
<1>. HIDE DEF n
<1>. QED BY <1>2, <1>3, <1>4, <1>5, <1>7, <1>8, KeptAgrees DEF n

LEMMA CmpAgrees ==
  ASSUME NEW m, NEW op, Steps(m, op), op.kind = "CMP"
  PROVE  agree(m, op)
<1>. DEFINE a == m.r[s0(op)]
            b == m.r[s1(op)]
            p == past(m, op)
            t == a - b
            v == t % Span
            o == _overflow_sub(a, b, v)
            n == branch_of(m, op)
<1>1. /\ a \in Byte /\ b \in Byte /\ row_a(m, op) = a /\ row_b(m, op) = b
      /\ m.r[op.f \div 4] = a /\ m.r[op.f % 4] = b
      /\ p.r[s0(op)] = a /\ p.r[s1(op)] = b
  BY Two DEF TwoReg
<1>. HIDE DEF a, b
<1>2. t \in Int /\ v \in Byte
  <2>1. a - b - 0 = t
    BY <1>1 DEF Byte
  <2>. QED BY <1>1, <2>1, DifByte DEF Bit
<1>3. /\ one(a = b) \in Bit /\ one(a < b) \in Bit /\ sign(v) \in Bit /\ o \in Bit
      /\ one(t < 0) = one(a < b)
  BY <1>1 DEF one, Bit, sign, _overflow_sub, Byte
<1>4. zero(v) = one(a = b)
  <2>1. ASSUME NEW W \in Nat \ {0}, NEW x \in 0 .. W - 1, NEW y \in 0 .. W - 1
        PROVE  ((x - y) % W = 0) <=> (x = y)
    OBVIOUS
  <2>2. (v = 0) <=> (a = b)
    BY <1>1, <2>1, ByteWidth DEF Byte
  <2>. QED BY <2>2 DEF zero, one
<1>5. Plain(op) /\ op.kind \notin {"DIV", "MOD"} /\ ~rows_R_en(op) /\ ~wr(op)
  BY DEF Plain, Branch, Pointer, PtrReg, rows_R_en, Zeros, Sums, Difs, wr, NoWrite
<1>6. becomes(ref_registers(p, op), m, op, m.r, one(a < b), one(a = b), sign(v), o)
  <2>1. ref_registers(p, op) = [p EXCEPT !.Z = one(a = b), !.C = one(a < b), !.S = sign(v), !.V = o]
    <3>1. ref_registers(p, op) = compares(p, a, b)
      BY <1>1 DEF ref_registers
    <3>. QED BY <3>1, Zenon DEF compares
  <2>2. becomes(p, m, op, m.r, m.C, m.Z, m.S, m.V)
    BY Past
  <2>. HIDE DEF p, v, o
  <2>3. becomes([p EXCEPT !.Z = one(a = b), !.C = one(a < b), !.S = sign(v), !.V = o],
                m, op, m.r, one(a < b), one(a = b), sign(v), o)
    BY <1>3, <2>2, Moves
  <2>. QED BY <2>1, <2>3, Zenon
<1>7. /\ row_x(m, op) = a /\ row_y(m, op) = b /\ row_dif(m, op) = t
  <2>1. row_x(m, op) = a /\ row_y(m, op) = b /\ row_cin(m, op) = 0
    BY <1>1 DEF row_x, row_y, row_cin, ImmReg
  <2>. QED BY <1>2, <2>1 DEF row_dif
<1>8. rows_C(m, op) = one(a < b) /\ rows_Z(m, op) = one(a = b)
  BY <1>1 DEF rows_C, rows_Z, Sums, Difs, Zeros
<1>9. rows_S(m, op) = sign(v) /\ rows_V(m, op) = o
  <2>. HIDE DEF t
  <2>. QED BY <1>7 DEF rows_S, rows_V, Sums, Difs, _overflow_sub, one
<1>10. n = k_sub(m, a, b, t)
  BY <1>1 DEF branch_of
<1>11. /\ n.c # <<>> /\ n.c[1] = one(a < b) /\ n.Z = one(a = b)
       /\ n.S = sign(v) /\ n.V = o
  <2>. HIDE DEF t, n
  <2>. QED BY <1>3, <1>4, <1>10, KSub
<1>12. one(a < b) % 2 = one(a < b)
  BY <1>3, BitKept
<1>. HIDE DEF n, o, v, p
<1>. QED BY <1>3, <1>5, <1>6, <1>8, <1>9, <1>11, <1>12, KeptAgrees DEF n, p

LEMMA ClcAgrees ==
  ASSUME NEW m, NEW op, Steps(m, op), op.kind \in {"CLC", "NOP"}
  PROVE  agree(m, op)
<1>. DEFINE p == past(m, op)
            n == branch_of(m, op)
            C == IF op.kind = "CLC" THEN 0 ELSE m.C
<1>1. m.C \in Bit /\ m.Z \in Bit /\ m.S \in Bit /\ m.V \in Bit /\ C \in Bit
  BY Typed DEF Bit
<1>2. Plain(op) /\ op.kind \notin {"DIV", "MOD"} /\ ~rows_R_en(op) /\ ~wr(op)
  BY DEF Plain, Branch, Pointer, PtrReg, rows_R_en, Zeros, Sums, Difs, wr, NoWrite
<1>3. becomes(p, m, op, m.r, m.C, m.Z, m.S, m.V)
  BY Past
<1>4. becomes(ref_registers(p, op), m, op, m.r, C, m.Z, m.S, m.V)
  <2>1. CASE op.kind = "CLC"
    <3>1. ref_registers(p, op) = [p EXCEPT !.C = C]
      BY <2>1 DEF ref_registers
    <3>. HIDE DEF p, C
    <3>2. becomes([p EXCEPT !.C = C], m, op, m.r, C, m.Z, m.S, m.V)
      BY <1>1, <1>3, Moves
    <3>. QED BY <3>1, <3>2, Zenon
  <2>2. CASE op.kind = "NOP"
    <3>1. ref_registers(p, op) = p
      BY <2>2 DEF ref_registers
    <3>. QED BY <1>3, <2>2, <3>1
  <2>. QED BY <2>1, <2>2
<1>5. rows_C(m, op) = C /\ rows_Z(m, op) = m.Z /\ rows_S(m, op) = m.S /\ rows_V(m, op) = m.V
  BY DEF rows_C, rows_Z, rows_S, rows_V, Sums, Difs, Zeros
<1>6. /\ C = IF n.c = <<>> THEN m.C ELSE n.c[1] % 2
      /\ n.Z = m.Z /\ n.S = m.S /\ n.V = m.V
  <2>1. CASE op.kind = "CLC"
    <3>1. n = [keeps(m, 0) EXCEPT !.c = <<0>>]
      BY <2>1 DEF branch_of
    <3>2. n.c # <<>> /\ n.c[1] = 0 /\ n.Z = m.Z /\ n.S = m.S /\ n.V = m.V
      BY <3>1 DEF keeps
    <3>. QED BY <2>1, <3>2
  <2>2. CASE op.kind = "NOP"
    <3>1. n = keeps(m, 0)
      BY <2>2 DEF branch_of
    <3>. QED BY <2>2, <3>1 DEF keeps
  <2>. QED BY <2>1, <2>2
<1>7. n = branch_of(m, op) /\ becomes(ref_registers(past(m, op), op), m, op, m.r, C, m.Z, m.S, m.V)
  BY <1>4
<1>. HIDE DEF n, C
<1>. QED BY <1>1, <1>2, <1>5, <1>6, <1>7, KeptAgrees

------------------------------------------------------------------------------
\* The instructions that move more than a register and the flags

\* y is machine m with these fields.
holds(y, m, r, C, Z, S, V, HL, DE, MB, PC, ipos) ==
  /\ y \in Mach
  /\ y.r = r /\ y.C = C /\ y.Z = Z /\ y.S = S /\ y.V = V
  /\ y.HL = HL /\ y.DE = DE /\ y.MB = MB /\ y.SP = m.SP
  /\ y.PC = PC /\ y.ipos = ipos /\ y.status = m.status

placed(m, r, C, Z, S, V, HL, DE, MB, PC, ipos) ==
  [m EXCEPT !.r = r, !.C = C, !.Z = Z, !.S = S, !.V = V, !.HL = HL, !.DE = DE,
            !.MB = MB, !.PC = PC, !.ipos = ipos]

LEMMA Placed ==
  ASSUME NEW m \in Mach, NEW r \in [Reg -> Byte], NEW C \in Bit, NEW Z \in Bit, NEW S \in Bit,
         NEW V \in Bit, NEW HL \in Word, NEW DE \in Word, NEW MB \in Word, NEW PC \in Word,
         NEW ipos \in 0 .. Len(Inputs)
  PROVE  holds(placed(m, r, C, Z, S, V, HL, DE, MB, PC, ipos),
               m, r, C, Z, S, V, HL, DE, MB, PC, ipos)
<1>. DEFINE x == [m EXCEPT !.r = r, !.C = C, !.Z = Z, !.S = S, !.V = V]
            y == [x EXCEPT !.HL = HL, !.DE = DE, !.MB = MB, !.PC = PC, !.ipos = ipos]
<1>1. x \in Mach
  BY DEF Mach
<1>2. /\ x.r = r /\ x.C = C /\ x.Z = Z /\ x.S = S /\ x.V = V
      /\ x.SP = m.SP /\ x.status = m.status
  BY DEF Mach
<1>3. placed(m, r, C, Z, S, V, HL, DE, MB, PC, ipos) = y
  BY Zenon DEF placed
<1>. HIDE DEF x
<1>4. y \in Mach
  BY <1>1 DEF Mach
<1>5. /\ y.r = x.r /\ y.C = x.C /\ y.Z = x.Z /\ y.S = x.S /\ y.V = x.V
      /\ y.SP = x.SP /\ y.status = x.status
  BY <1>1 DEF Mach
<1>6. y.HL = HL /\ y.DE = DE /\ y.MB = MB /\ y.PC = PC /\ y.ipos = ipos
  BY <1>1 DEF Mach
<1>. HIDE DEF y
<1>7. holds(y, m, r, C, Z, S, V, HL, DE, MB, PC, ipos)
  BY <1>2, <1>4, <1>5, <1>6 DEF holds
<1>. QED BY <1>3, <1>7, Zenon

LEMMA SameFields ==
  ASSUME NEW x, NEW y, NEW m, NEW r, NEW C, NEW Z, NEW S, NEW V, NEW HL, NEW DE, NEW MB,
         NEW PC, NEW ipos,
         holds(x, m, r, C, Z, S, V, HL, DE, MB, PC, ipos),
         holds(y, m, r, C, Z, S, V, HL, DE, MB, PC, ipos)
  PROVE  x = y
BY DEF holds, Mach

\* The fields a tick leaves when it does not fault.
goes(m, op) == op.kind \in Branch /\ taken(m, op)
torch_r(m, op) == IF rows_R_en(op) THEN [m.r EXCEPT ![s0(op)] = written(rows_R_val(m, op))]
                  ELSE m.r
torch_MB(m, op) == IF op.kind = "MOV_MB_HL" THEN m.HL ELSE m.MB
next_PC(m, op) == IF goes(m, op) THEN target(past(m, op), op) ELSE m.PC + op.len
torch_ipos(m, op) == IF op.kind = "IN" /\ ~eof(m) THEN m.ipos + 1 ELSE m.ipos

LEMMA TorchForm ==
  ASSUME NEW m, NEW op, Steps(m, op), ~(goes(m, op) /\ target(past(m, op), op) >= CodeLen),
         op.kind \notin {"DIV", "MOD"}
  PROVE  TorchTick(m, op) =
           placed(m, torch_r(m, op), rows_C(m, op), rows_Z(m, op), rows_S(m, op), rows_V(m, op),
                  wide(rows_HL(m, op)), wide(rows_DE(m, op)), torch_MB(m, op), next_PC(m, op),
                  torch_ipos(m, op))
<1>1. m.status = "RUNNING"
  BY DEF Steps
<1>2. ~(\/ m.PC + op.len > CodeLen
        \/ (op.kind \in Branch /\ taken(m, op)) /\ target(past(m, op), op) >= CodeLen
        \/ op.kind \in {"DIV", "MOD"} /\ row_b(m, op) = 0)
  BY Past DEF goes
<1>. QED BY <1>1, <1>2, Zenon
         DEF TorchTick, past, goes, torch_r, torch_MB, next_PC, torch_ipos, placed

kernel_r(m, op) == IF wr(op) THEN [m.r EXCEPT ![s0(op)] = branch_of(m, op).v % Span] ELSE m.r
kernel_C(m, op) == IF branch_of(m, op).c = <<>> THEN m.C ELSE branch_of(m, op).c[1] % 2
kernel_MB(m, op) == IF op.kind = "MOV_MB_HL" THEN wide(m.HL) ELSE m.MB
kernel_ipos(m, op) == IF op.kind = "IN" /\ m.ipos < Len(Inputs) THEN m.ipos + 1 ELSE m.ipos

LEMMA KernelForm ==
  ASSUME NEW m, NEW op, Steps(m, op), ~(goes(m, op) /\ target(past(m, op), op) >= CodeLen),
         op.kind \notin {"DIV", "MOD"}
  PROVE  KernelTick(m, op) =
           placed(m, kernel_r(m, op), kernel_C(m, op), branch_of(m, op).Z, branch_of(m, op).S,
                  branch_of(m, op).V, nHL(m, op), nDE(m, op), kernel_MB(m, op), next_PC(m, op),
                  kernel_ipos(m, op))
<1>1. m.status = "RUNNING"
  BY DEF Steps
<1>2. ~(\/ m.PC + op.len > CodeLen
        \/ op.kind \in {"DIV", "MOD"} /\ m.r[op.f % 4] = 0
        \/ /\ op.kind \in Branch /\ taken(m, op)
           /\ (IF op.kind \in Branch /\ taken(m, op) THEN target(past(m, op), op)
               ELSE m.PC + op.len) >= CodeLen)
  BY Past DEF goes
<1>. QED BY <1>1, <1>2, Zenon
         DEF KernelTick, _wr, past, goes, kernel_r, kernel_C, kernel_MB, next_PC, kernel_ipos, placed

LEMMA PlacedAgree ==
  ASSUME NEW m \in Mach, NEW op,
         NEW r \in [Reg -> Byte], NEW C \in Bit, NEW Z \in Bit, NEW S \in Bit, NEW V \in Bit,
         NEW HL \in Word, NEW DE \in Word, NEW MB \in Word, NEW PC \in Word,
         NEW ipos \in 0 .. Len(Inputs),
         holds(RefTick(m, op), m, r, C, Z, S, V, HL, DE, MB, PC, ipos),
         TorchTick(m, op) = placed(m, r, C, Z, S, V, HL, DE, MB, PC, ipos),
         KernelTick(m, op) = placed(m, r, C, Z, S, V, HL, DE, MB, PC, ipos)
  PROVE  agree(m, op)
<1>1. holds(placed(m, r, C, Z, S, V, HL, DE, MB, PC, ipos),
            m, r, C, Z, S, V, HL, DE, MB, PC, ipos)
  BY Placed
<1>2. placed(m, r, C, Z, S, V, HL, DE, MB, PC, ipos) = RefTick(m, op)
  BY <1>1, SameFields
<1>3. RefTick(m, op) \in Mach
  BY DEF holds
<1>. QED BY <1>2, <1>3 DEF agree

\* What goes into the wide registers and the reference's fields of a step.
LEMMA Wides ==
  ASSUME NEW m, NEW op, Steps(m, op)
  PROVE  /\ m.r \in [Reg -> Byte] /\ m.HL \in Word /\ m.DE \in Word /\ m.MB \in Word
         /\ m.SP \in Word /\ m.ipos \in 0 .. Len(Inputs) /\ m.PC + op.len \in Word
         /\ \A v \in Int : wide(v) \in Word
         /\ (m.HL + m.DE) \div (Span * Span) \in Bit
         /\ m.HL \in Int /\ m.DE \in Int
<1>1. /\ m.r \in [Reg -> Byte] /\ m.HL \in Word /\ m.DE \in Word /\ m.MB \in Word
      /\ m.SP \in Word /\ m.ipos \in 0 .. Len(Inputs)
  BY Typed DEF Mach
<1>2. m.PC + op.len \in Word
  BY Past DEF becomes, Mach
<1>3. Span * Span \in Nat \ {0}
  BY ByteWidth
<1>4. ASSUME NEW W \in Nat \ {0}, NEW v \in Int PROVE v % W \in 0 .. W - 1
  OBVIOUS
<1>5. ASSUME NEW W \in Nat \ {0}, NEW u \in 0 .. W - 1, NEW v \in 0 .. W - 1
      PROVE  (u + v) \div W \in {0, 1} /\ u \in Int /\ v \in Int
  OBVIOUS
<1>6. (m.HL + m.DE) \div (Span * Span) \in Bit /\ m.HL \in Int /\ m.DE \in Int
  BY <1>1, <1>3, <1>5 DEF Word, Bit
<1>7. \A v \in Int : wide(v) \in Word
  BY <1>3, <1>4 DEF wide, Word
<1>. QED BY <1>1, <1>2, <1>6, <1>7

LEMMA InAgrees ==
  ASSUME NEW m, NEW op, Steps(m, op), op.kind = "IN"
  PROVE  agree(m, op)
<1>. DEFINE p == past(m, op)
            d == s0(op)
            v == IF eof(m) THEN 0 ELSE Inputs[m.ipos + 1]
            r == [m.r EXCEPT ![d] = v]
            C == IF eof(m) THEN 1 ELSE m.C
            ipos == IF eof(m) THEN m.ipos ELSE m.ipos + 1
            n == branch_of(m, op)
<1>1. /\ m \in Mach /\ op \in Op /\ d \in Reg
      /\ m.C \in Bit /\ m.Z \in Bit /\ m.S \in Bit /\ m.V \in Bit
  BY Typed, Operands
<1>2. eof(m) <=> ~(m.ipos < Len(Inputs))
  BY Wides, AluAssumption DEF eof
<1>3. ~eof(m) => m.ipos + 1 \in 1 .. Len(Inputs)
  BY <1>2, Wides, AluAssumption
<1>4. v \in Byte /\ v % Span = v
  <2>1. ~eof(m) => Inputs[m.ipos + 1] \in Byte
    BY <1>3, AluAssumption
  <2>2. 0 \in Byte
    BY ByteWidth DEF Byte
  <2>. QED BY <2>1, <2>2, ByteKept
<1>5. r \in [Reg -> Byte] /\ C \in Bit /\ ipos \in 0 .. Len(Inputs)
  BY <1>1, <1>3, <1>4, Wides DEF Bit
<1>6. op.kind \notin Branch /\ op.kind \notin Pointer \cup PtrReg
  BY DEF Branch, Pointer, PtrReg
<1>7. holds(RefTick(m, op), m, r, C, m.Z, m.S, m.V, m.HL, m.DE, m.MB, m.PC + op.len, ipos)
  <2>. DEFINE x == ref_registers(p, op)
  <2>0. p.ipos = m.ipos /\ p.r = m.r /\ p.C = m.C
    BY PastFields
  <2>1. CASE eof(m)
    <3>1. x = [p EXCEPT !.r[d] = 0, !.C = 1]
      BY <1>2, <2>0, <2>1 DEF ref_registers, eof
    <3>2. x = [p EXCEPT !.r = r, !.C = 1]
      BY <2>0, <2>1, <3>1
    <3>3. holds(x, m, r, C, m.Z, m.S, m.V, m.HL, m.DE, m.MB, m.PC + op.len, ipos)
      <4>1. C = 1 /\ ipos = m.ipos /\ 1 \in Bit
        BY <2>1 DEF Bit
      <4>. HIDE DEF r, C, ipos, x
      <4>2. p \in Mach /\ p.Z = m.Z /\ p.S = m.S /\ p.V = m.V /\ p.HL = m.HL /\ p.DE = m.DE
            /\ p.MB = m.MB /\ p.SP = m.SP /\ p.PC = m.PC + op.len /\ p.status = m.status
        BY PastFields
      <4>. HIDE DEF p
      <4>. QED BY <1>5, <2>0, <3>2, <4>1, <4>2 DEF holds, Mach
    <3>. QED BY <1>6, <3>3, Past, Zenon DEF RefTick, past, holds, Steps
  <2>2. CASE ~eof(m)
    <3>1. x = [p EXCEPT !.r[d] = Inputs[m.ipos + 1], !.ipos = m.ipos + 1]
      BY <1>2, <2>0, <2>2 DEF ref_registers, eof
    <3>2. x = [p EXCEPT !.r = r, !.ipos = ipos]
      BY <2>0, <2>2, <3>1
    <3>3. holds(x, m, r, C, m.Z, m.S, m.V, m.HL, m.DE, m.MB, m.PC + op.len, ipos)
      <4>1. C = m.C
        BY <2>2
      <4>. HIDE DEF r, C, ipos, x
      <4>2. p \in Mach /\ p.Z = m.Z /\ p.S = m.S /\ p.V = m.V /\ p.HL = m.HL /\ p.DE = m.DE
            /\ p.MB = m.MB /\ p.SP = m.SP /\ p.PC = m.PC + op.len /\ p.status = m.status
        BY PastFields
      <4>. HIDE DEF p
      <4>. QED BY <1>5, <2>0, <3>2, <4>1, <4>2 DEF holds, Mach
    <3>. QED BY <1>6, <3>3, Past, Zenon DEF RefTick, past, holds, Steps
  <2>. QED BY <2>1, <2>2
<1>8. wide(m.HL) = m.HL /\ wide(m.DE) = m.DE
  BY Wides, WordWide
<1>9. ~goes(m, op) /\ next_PC(m, op) = m.PC + op.len /\ op.kind \notin {"DIV", "MOD"}
  BY <1>6 DEF goes, next_PC
<1>10. TorchTick(m, op) = placed(m, r, C, m.Z, m.S, m.V, m.HL, m.DE, m.MB, m.PC + op.len, ipos)
  <2>1. torch_r(m, op) = r
    <3>1. rows_R_val(m, op) = v
      BY DEF rows_R_val, Sums, Difs
    <3>2. rows_R_en(op)
      BY DEF rows_R_en
    <3>. QED BY <1>4, <3>1, <3>2, Zenon DEF written, torch_r
  <2>2. rows_C(m, op) = C /\ rows_Z(m, op) = m.Z /\ rows_S(m, op) = m.S /\ rows_V(m, op) = m.V
    BY DEF rows_C, rows_Z, rows_S, rows_V, Sums, Difs, Zeros
  <2>3. rows_HL(m, op) = m.HL /\ rows_DE(m, op) = m.DE
    BY DEF rows_HL, rows_DE
  <2>4. torch_MB(m, op) = m.MB /\ torch_ipos(m, op) = ipos
    BY DEF torch_MB, torch_ipos
  <2>. HIDE DEF r, C, ipos
  <2>. QED BY <1>8, <1>9, <2>1, <2>2, <2>3, <2>4, TorchForm
<1>11. KernelTick(m, op) = placed(m, r, C, m.Z, m.S, m.V, m.HL, m.DE, m.MB, m.PC + op.len, ipos)
  <2>1. n.v = v /\ n.Z = m.Z /\ n.S = m.S /\ n.V = m.V /\ kernel_C(m, op) = C
    <3>1. CASE eof(m)
      <4>1. n = [keeps(m, 0) EXCEPT !.c = <<1>>]
        BY <1>2, <3>1 DEF branch_of
      <4>2. n.v = 0 /\ n.c # <<>> /\ n.c[1] = 1 /\ n.Z = m.Z /\ n.S = m.S /\ n.V = m.V
        BY <4>1 DEF keeps
      <4>. QED BY <3>1, <4>2 DEF kernel_C
    <3>2. CASE ~eof(m)
      <4>1. n = keeps(m, Inputs[m.ipos + 1])
        BY <1>2, <3>2 DEF branch_of
      <4>. QED BY <3>2, <4>1 DEF keeps, kernel_C
    <3>. QED BY <3>1, <3>2
  <2>2. kernel_r(m, op) = r
    <3>1. wr(op)
      BY DEF wr, NoWrite, Pointer, PtrReg, Branch
    <3>. QED BY <1>4, <2>1, <3>1, Zenon DEF kernel_r
  <2>3. nHL(m, op) = m.HL /\ nDE(m, op) = m.DE
    BY DEF nHL, nDE
  <2>4. kernel_MB(m, op) = m.MB /\ kernel_ipos(m, op) = ipos
    BY <1>2 DEF kernel_MB, kernel_ipos
  <2>. HIDE DEF r, C, ipos
  <2>. QED BY <1>9, <2>1, <2>2, <2>3, <2>4, KernelForm
<1>. HIDE DEF r, C, ipos
<1>. QED BY <1>1, <1>5, <1>7, <1>10, <1>11, Wides, PlacedAgree

LEMMA PointersAgree ==
  ASSUME NEW m, NEW op, Steps(m, op), op.kind \in Pointer \cup PtrReg
  PROVE  agree(m, op)
<1>. DEFINE p == past(m, op)
            x == ref_pointers(p, op)
            C == rows_C(m, op)
            HL == nHL(m, op)
            DE == nDE(m, op)
            MB == torch_MB(m, op)
            n == branch_of(m, op)
<1>1. /\ m \in Mach /\ op \in Op
      /\ m.C \in Bit /\ m.Z \in Bit /\ m.S \in Bit /\ m.V \in Bit
  BY Typed
<1>2. m.r[op.imm % 4] \in Int
  <2>1. op.imm \in Byte /\ Span \in Nat
    BY <1>1, Operands, ByteWidth
  <2>2. op.imm % 4 \in Reg
    BY <2>1 DEF Byte, Reg
  <2>3. m.r[op.imm % 4] \in Byte
    BY <1>1, <2>2, Operands
  <2>. QED BY <2>1, <2>3 DEF Byte
<1>3. /\ wide(m.HL) = m.HL /\ wide(m.DE) = m.DE /\ wide(m.MB) = m.MB /\ wide(m.SP) = m.SP
      /\ wide(wide(m.HL + m.DE)) = wide(m.HL + m.DE)
      /\ wide(wide(m.HL - m.DE)) = wide(m.HL - m.DE)
  <2>1. m.HL + m.DE \in Int /\ m.HL - m.DE \in Int
    BY Wides
  <2>. QED BY <2>1, Wides, WordWide
<1>4. C \in Bit /\ HL \in Word /\ DE \in Word /\ MB \in Word
  <2>1. C \in Bit
    <3>1. one(m.HL < m.DE) \in Bit
      BY DEF one, Bit
    <3>. QED BY <1>1, <3>1, Wides DEF rows_C, Pointer, PtrReg, Sums, Difs
  <2>2. HL \in Word
    <3>1. /\ m.HL + 1 \in Int /\ m.HL - 1 \in Int /\ m.HL + m.r[op.imm % 4] \in Int
          /\ m.HL + m.DE \in Int /\ m.HL - m.DE \in Int
      BY <1>2, Wides
    <3>2. /\ wide(m.HL + 1) \in Word /\ wide(m.HL - 1) \in Word
          /\ wide(m.HL + m.r[op.imm % 4]) \in Word
          /\ wide(m.HL + m.DE) \in Word /\ wide(m.HL - m.DE) \in Word
      BY <3>1, Wides
    <3>. QED BY <1>3, <3>2, Wides DEF nHL
  <2>3. DE \in Word
    <3>1. m.DE + 1 \in Int /\ m.DE + m.r[op.imm % 4] \in Int
      BY <1>2, Wides
    <3>2. wide(m.DE + 1) \in Word /\ wide(m.DE + m.r[op.imm % 4]) \in Word
      BY <3>1, Wides
    <3>. QED BY <3>2, Wides DEF nDE
  <2>4. MB \in Word
    BY Wides DEF torch_MB
  <2>. QED BY <2>1, <2>2, <2>3, <2>4
<1>5. /\ p \in Mach /\ p.r = m.r /\ p.C = m.C /\ p.Z = m.Z /\ p.S = m.S /\ p.V = m.V
      /\ p.HL = m.HL /\ p.DE = m.DE /\ p.MB = m.MB /\ p.SP = m.SP
      /\ p.PC = m.PC + op.len /\ p.ipos = m.ipos /\ p.status = m.status
  BY PastFields
<1>. HIDE DEF p
<1>6. holds(x, m, m.r, C, m.Z, m.S, m.V, HL, DE, MB, m.PC + op.len, m.ipos)
  <2>1. CASE op.kind \in {"INC_HL", "DEC_HL", "ADDI_HL", "MOVW_HL_DE", "MOVW_HL_SP", "MOV_HL_MB"}
    <3>1. x = [p EXCEPT !.HL = HL]
      BY <1>3, <1>5, <2>1 DEF ref_pointers, nHL
    <3>2. C = m.C /\ DE = m.DE /\ MB = m.MB
      BY <2>1 DEF rows_C, nDE, torch_MB, Sums, Difs
    <3>. HIDE DEF x, C, HL, DE, MB
    <3>. QED BY <1>4, <1>5, <3>1, <3>2 DEF holds, Mach
  <2>2. CASE op.kind \in {"INC_DE", "ADDI_DE", "MOVW_DE_HL", "MOVW_DE_SP"}
    <3>1. x = [p EXCEPT !.DE = DE]
      BY <1>5, <2>2 DEF ref_pointers, nDE
    <3>2. C = m.C /\ HL = m.HL /\ MB = m.MB
      BY <2>2 DEF rows_C, nHL, torch_MB, Sums, Difs
    <3>. HIDE DEF x, C, HL, DE, MB
    <3>. QED BY <1>4, <1>5, <3>1, <3>2 DEF holds, Mach
  <2>3. CASE op.kind \in {"ADD_HLDE", "SUB_HLDE"}
    <3>1. x = [p EXCEPT !.HL = HL, !.C = C]
      BY <1>5, <2>3 DEF ref_pointers, nHL, rows_C, Sums, Difs
    <3>2. DE = m.DE /\ MB = m.MB
      BY <2>3 DEF nDE, torch_MB
    <3>. HIDE DEF x, C, HL, DE, MB
    <3>. QED BY <1>4, <1>5, <3>1, <3>2 DEF holds, Mach
  <2>4. CASE op.kind = "XCHG"
    <3>1. x = [p EXCEPT !.HL = HL, !.DE = DE]
      BY <1>5, <2>4 DEF ref_pointers, nHL, nDE
    <3>2. C = m.C /\ MB = m.MB
      BY <2>4 DEF rows_C, torch_MB, Sums, Difs
    <3>. HIDE DEF x, C, HL, DE, MB
    <3>. QED BY <1>4, <1>5, <3>1, <3>2 DEF holds, Mach
  <2>5. CASE op.kind = "MOV_MB_HL"
    <3>1. x = [p EXCEPT !.MB = MB]
      BY <1>5, <2>5 DEF ref_pointers, torch_MB
    <3>2. C = m.C /\ HL = m.HL /\ DE = m.DE
      BY <2>5 DEF rows_C, nHL, nDE, Sums, Difs
    <3>. HIDE DEF x, C, HL, DE, MB
    <3>. QED BY <1>4, <1>5, <3>1, <3>2 DEF holds, Mach
  <2>. QED BY <2>1, <2>2, <2>3, <2>4, <2>5 DEF Pointer, PtrReg
<1>7. op.kind \notin Branch /\ op.kind # "IN" /\ op.kind \notin {"DIV", "MOD"}
  BY DEF Branch, Pointer, PtrReg
<1>8. holds(RefTick(m, op), m, m.r, C, m.Z, m.S, m.V, HL, DE, MB, m.PC + op.len, m.ipos)
  <2>1. RefTick(m, op) = x
    <3>1. x.status # "ERROR" /\ m.status = "RUNNING"
      BY <1>6 DEF holds, Steps
    <3>. QED BY <1>7, <3>1, Past, Zenon DEF RefTick, past, p
  <2>. QED BY <1>6, <2>1, Zenon
<1>9. ~goes(m, op) /\ next_PC(m, op) = m.PC + op.len
  BY <1>7 DEF goes, next_PC
<1>10. TorchTick(m, op) = placed(m, m.r, C, m.Z, m.S, m.V, HL, DE, MB, m.PC + op.len, m.ipos)
  <2>1. torch_r(m, op) = m.r
    <3>1. ~rows_R_en(op)
      BY DEF rows_R_en, Pointer, PtrReg, Zeros, Sums, Difs
    <3>. QED BY <3>1 DEF torch_r
  <2>2. rows_Z(m, op) = m.Z /\ rows_S(m, op) = m.S /\ rows_V(m, op) = m.V
    BY DEF rows_Z, rows_S, rows_V, Sums, Difs, Zeros, Pointer, PtrReg
  <2>3. wide(rows_HL(m, op)) = HL
    BY <1>3 DEF rows_HL, nHL
  <2>4. wide(rows_DE(m, op)) = DE
    BY <1>3 DEF rows_DE, nDE
  <2>5. torch_ipos(m, op) = m.ipos
    BY <1>7 DEF torch_ipos
  <2>. HIDE DEF C, HL, DE, MB
  <2>. QED BY <1>7, <1>9, <2>1, <2>2, <2>3, <2>4, <2>5, TorchForm DEF C, MB
<1>11. KernelTick(m, op) = placed(m, m.r, C, m.Z, m.S, m.V, HL, DE, MB, m.PC + op.len, m.ipos)
  <2>1. kernel_r(m, op) = m.r
    <3>1. ~wr(op)
      BY DEF wr, NoWrite, Pointer, PtrReg, Branch
    <3>. QED BY <3>1 DEF kernel_r
  <2>2. n.Z = m.Z /\ n.S = m.S /\ n.V = m.V /\ kernel_C(m, op) = C
    <3>1. CASE op.kind = "ADD_HLDE"
      <4>1. n = [keeps(m, 0) EXCEPT !.c = <<(m.HL + m.DE) \div (Span * Span)>>]
        BY <3>1 DEF branch_of
      <4>2. C = (m.HL + m.DE) \div (Span * Span)
        BY <3>1 DEF rows_C, Sums, Difs
      <4>3. C % 2 = C
        BY <1>4, BitKept
      <4>. HIDE DEF C, n
      <4>4. n.c # <<>> /\ n.c[1] = C /\ n.Z = m.Z /\ n.S = m.S /\ n.V = m.V
        BY <4>1, <4>2 DEF keeps
      <4>. QED BY <4>3, <4>4 DEF kernel_C, n
    <3>2. CASE op.kind = "SUB_HLDE"
      <4>1. n = [keeps(m, 0) EXCEPT !.c = <<one(m.HL < m.DE)>>]
        BY <3>2 DEF branch_of
      <4>2. C = one(m.HL < m.DE)
        BY <3>2 DEF rows_C, Sums, Difs
      <4>3. C % 2 = C
        BY <1>4, BitKept
      <4>. HIDE DEF C, n
      <4>4. n.c # <<>> /\ n.c[1] = C /\ n.Z = m.Z /\ n.S = m.S /\ n.V = m.V
        BY <4>1, <4>2 DEF keeps
      <4>. QED BY <4>3, <4>4 DEF kernel_C, n
    <3>3. CASE op.kind \notin {"ADD_HLDE", "SUB_HLDE"}
      <4>1. n = keeps(m, 0)
        BY <3>3 DEF branch_of, Pointer, PtrReg
      <4>2. C = m.C
        BY <3>3 DEF rows_C, Sums, Difs, Pointer, PtrReg
      <4>. QED BY <4>1, <4>2 DEF keeps, kernel_C
    <3>. QED BY <3>1, <3>2, <3>3
  <2>3. kernel_MB(m, op) = MB
    BY <1>3 DEF kernel_MB, torch_MB
  <2>4. kernel_ipos(m, op) = m.ipos
    BY <1>7 DEF kernel_ipos
  <2>. HIDE DEF C, MB, n
  <2>. QED BY <1>7, <1>9, <2>1, <2>2, <2>3, <2>4, KernelForm DEF n
<1>. HIDE DEF C, HL, DE, MB
<1>. QED BY <1>1, <1>4, <1>8, <1>10, <1>11, Wides, PlacedAgree

LEMMA SameBranch ==
  ASSUME NEW m, NEW op, Steps(m, op), op.kind \in Branch
  PROVE  taken(past(m, op), op) <=> taken(m, op)
<1>. DEFINE p == past(m, op)
<1>1. p.r = m.r /\ p.C = m.C /\ p.Z = m.Z /\ p.S = m.S /\ p.V = m.V
  BY PastFields
<1>. HIDE DEF p
<1>2. taken(p, op) <=> taken(m, op)
  BY <1>1 DEF taken, Branch
<1>. QED BY <1>2 DEF p

LEMMA TargetWord ==
  ASSUME NEW m, NEW op, Steps(m, op)
  PROVE  target(past(m, op), op) \in Word
<1>1. past(m, op).PC \in Int
  <2>1. m.PC \in Int /\ op.len \in Int
    BY Typed
  <2>. QED BY <2>1, PastFields
<1>2. signed(op.imm) \in Int
  <2>1. op.imm \in Byte
    BY Typed, Operands
  <2>. QED BY <2>1, ByteWidth DEF signed, Byte
<1>3. op.to \in Word
  BY Typed DEF Op
<1>4. past(m, op).PC + signed(op.imm) \in Int
  BY <1>1, <1>2
<1>. QED BY <1>3, <1>4, Wides DEF target

LEMMA BranchesAgree ==
  ASSUME NEW m, NEW op, Steps(m, op), op.kind \in Branch,
         ~(goes(m, op) /\ target(past(m, op), op) >= CodeLen)
  PROVE  agree(m, op)
<1>. DEFINE p == past(m, op)
            d == s0(op)
            v == (m.r[d] - 1) % Span
            r == IF op.kind = "DJNZ" THEN [m.r EXCEPT ![d] = v] ELSE m.r
            to == target(p, op)
            PC == next_PC(m, op)
            q == IF op.kind = "DJNZ" THEN [p EXCEPT !.r[d] = v] ELSE p
            x == ref_branch(p, op)
            n == branch_of(m, op)
<1>1. /\ m \in Mach /\ op \in Op /\ d \in Reg /\ m.r \in [Reg -> Byte]
      /\ m.C \in Bit /\ m.Z \in Bit /\ m.S \in Bit /\ m.V \in Bit
  BY Typed, Operands, Wides
<1>2. /\ p \in Mach /\ p.r = m.r /\ p.C = m.C /\ p.Z = m.Z /\ p.S = m.S /\ p.V = m.V
      /\ p.HL = m.HL /\ p.DE = m.DE /\ p.MB = m.MB /\ p.SP = m.SP
      /\ p.PC = m.PC + op.len /\ p.ipos = m.ipos /\ p.status = m.status
  BY PastFields
<1>3. v \in Byte
  <2>1. m.r[d] \in Byte
    BY <1>1
  <2>2. m.r[d] - 0 - 1 = m.r[d] - 1
    BY <2>1, ByteWidth DEF Byte
  <2>3. 0 \in Byte
    BY ByteWidth DEF Byte
  <2>. QED BY <2>1, <2>2, <2>3, DifByte DEF Bit
<1>4. r \in [Reg -> Byte] /\ PC \in Word /\ v % Span = v
  <2>1. PC \in Word
    BY TargetWord, Wides DEF next_PC
  <2>. QED BY <1>1, <1>3, <2>1, ByteKept
<1>5. taken(p, op) <=> goes(m, op)
  BY SameBranch DEF goes
<1>6. holds(x, m, r, m.C, m.Z, m.S, m.V, m.HL, m.DE, m.MB, PC, m.ipos)
  <2>1. q = [p EXCEPT !.r = r]
    BY <1>2 DEF Mach
  <2>2. q \in Mach
    <3>. HIDE DEF q, r, p
    <3>. QED BY <1>2, <1>4, <2>1 DEF Mach
  <2>3. /\ q.r = r /\ q.C = m.C /\ q.Z = m.Z /\ q.S = m.S /\ q.V = m.V
        /\ q.HL = m.HL /\ q.DE = m.DE /\ q.MB = m.MB /\ q.SP = m.SP
        /\ q.PC = m.PC + op.len /\ q.ipos = m.ipos /\ q.status = m.status
    <3>. HIDE DEF q, r, p
    <3>. QED BY <1>2, <1>4, <2>1 DEF Mach
  <2>4. x = IF goes(m, op) THEN [q EXCEPT !.PC = PC] ELSE q
    <3>1. (IF op.kind = "DJNZ" THEN [p EXCEPT !.r[s0(op)] = (p.r[s0(op)] - 1) % Span] ELSE p) = q
      BY <1>2
    <3>2. x = IF ~taken(p, op) THEN q
              ELSE IF to >= CodeLen THEN stopped(p)
              ELSE [q EXCEPT !.PC = to]
      <4>. HIDE DEF q, p
      <4>. QED BY <3>1, Zenon DEF ref_branch
    <3>3. goes(m, op) => PC = to /\ ~(to >= CodeLen)
      BY DEF next_PC
    <3>. HIDE DEF q, x, to, PC, p
    <3>. QED BY <1>5, <3>2, <3>3, Zenon
  <2>5. ~goes(m, op) => PC = m.PC + op.len
    BY DEF next_PC
  <2>. HIDE DEF q, r, x, PC, p
  <2>6. CASE goes(m, op)
    <3>1. x = [q EXCEPT !.PC = PC]
      BY <2>4, <2>6
    <3>. QED BY <1>4, <2>2, <2>3, <3>1 DEF holds, Mach
  <2>7. CASE ~goes(m, op)
    <3>1. x = q /\ PC = m.PC + op.len
      BY <2>4, <2>5, <2>7
    <3>. QED BY <2>2, <2>3, <3>1 DEF holds
  <2>. QED BY <2>6, <2>7
<1>7. op.kind # "IN" /\ op.kind # "MOV_MB_HL" /\ op.kind \notin {"DIV", "MOD"}
  BY DEF Branch
<1>8. holds(RefTick(m, op), m, r, m.C, m.Z, m.S, m.V, m.HL, m.DE, m.MB, PC, m.ipos)
  <2>1. RefTick(m, op) = x
    <3>1. x.status # "ERROR" /\ m.status = "RUNNING"
      BY <1>6 DEF holds, Steps
    <3>. QED BY <1>7, <3>1, Past, Zenon DEF RefTick, past
  <2>. HIDE DEF x, r, PC
  <2>. QED BY <1>6, <2>1, Zenon
<1>9. wide(m.HL) = m.HL /\ wide(m.DE) = m.DE
  BY Wides, WordWide
<1>10. m.r[op.f % 4] = m.r[d] /\ row_rr(m, op) = m.r[d]
  BY OneOp DEF Branch, TwoReg
<1>11. TorchTick(m, op) = placed(m, r, m.C, m.Z, m.S, m.V, m.HL, m.DE, m.MB, PC, m.ipos)
  <2>1. torch_r(m, op) = r
    <3>1. CASE op.kind = "DJNZ"
      <4>1. rows_R_en(op)
        BY <3>1 DEF rows_R_en
      <4>2. rows_R_val(m, op) = v
        BY <1>10, <3>1 DEF rows_R_val, Sums, Difs
      <4>. QED BY <1>4, <3>1, <4>1, <4>2, Zenon DEF torch_r, written
    <3>2. CASE op.kind # "DJNZ"
      <4>1. ~rows_R_en(op)
        BY <3>2 DEF rows_R_en, Branch, Zeros, Sums, Difs
      <4>. QED BY <3>2, <4>1 DEF torch_r
    <3>. QED BY <3>1, <3>2
  <2>2. /\ rows_C(m, op) = m.C /\ rows_Z(m, op) = m.Z /\ rows_S(m, op) = m.S
        /\ rows_V(m, op) = m.V
    BY DEF rows_C, rows_Z, rows_S, rows_V, Sums, Difs, Zeros, Branch
  <2>3. rows_HL(m, op) = m.HL /\ rows_DE(m, op) = m.DE
    BY DEF rows_HL, rows_DE, Branch
  <2>4. torch_MB(m, op) = m.MB /\ torch_ipos(m, op) = m.ipos
    BY <1>7 DEF torch_MB, torch_ipos
  <2>. HIDE DEF r
  <2>. QED BY <1>7, <1>9, <2>1, <2>2, <2>3, <2>4, TorchForm
<1>12. KernelTick(m, op) = placed(m, r, m.C, m.Z, m.S, m.V, m.HL, m.DE, m.MB, PC, m.ipos)
  <2>1. kernel_r(m, op) = r
    <3>1. CASE op.kind = "DJNZ"
      <4>1. wr(op)
        BY <3>1 DEF wr
      <4>2. n = keeps(m, v)
        BY <1>10, <3>1 DEF branch_of
      <4>3. n.v = v
        BY <4>2 DEF keeps
      <4>. QED BY <1>4, <3>1, <4>1, <4>3, Zenon DEF kernel_r
    <3>2. CASE op.kind # "DJNZ"
      <4>1. ~wr(op)
        BY <3>2 DEF wr, NoWrite
      <4>. QED BY <3>2, <4>1 DEF kernel_r
    <3>. QED BY <3>1, <3>2
  <2>2. n.c = <<>> /\ n.Z = m.Z /\ n.S = m.S /\ n.V = m.V
    <3>1. CASE op.kind = "DJNZ"
      <4>1. n = keeps(m, (m.r[op.f % 4] - 1) % Span)
        BY <3>1 DEF branch_of
      <4>. QED BY <4>1 DEF keeps
    <3>2. CASE op.kind # "DJNZ"
      <4>1. n = keeps(m, 0)
        BY <3>2 DEF branch_of, Branch
      <4>. QED BY <4>1 DEF keeps
    <3>. QED BY <3>1, <3>2
  <2>3. kernel_C(m, op) = m.C
    BY <2>2 DEF kernel_C
  <2>4. nHL(m, op) = m.HL /\ nDE(m, op) = m.DE
    BY DEF nHL, nDE, Branch
  <2>5. kernel_MB(m, op) = m.MB /\ kernel_ipos(m, op) = m.ipos
    BY <1>7 DEF kernel_MB, kernel_ipos
  <2>. HIDE DEF r, n
  <2>. QED BY <1>7, <2>1, <2>2, <2>3, <2>4, <2>5, KernelForm DEF n
<1>. HIDE DEF r, PC
<1>. QED BY <1>1, <1>4, <1>8, <1>11, <1>12, Wides, PlacedAgree

------------------------------------------------------------------------------
\* Ticks that do not go through

\* An instruction that runs past CODE, divides by zero or branches out of CODE.
Faults(m, op) == \/ m.PC + op.len > CodeLen
                 \/ op.kind \in {"DIV", "MOD"} /\ m.r[s1(op)] = 0
                 \/ goes(m, op) /\ target(past(m, op), op) >= CodeLen

LEMMA Stopped ==
  ASSUME NEW m \in Mach
  PROVE  stopped(m) \in Mach /\ stopped(m).status = "ERROR"
BY DEF stopped, Mach

LEMMA FaultsAgree ==
  ASSUME NEW m \in Mach, NEW op \in Op, m.status = "RUNNING", Faults(m, op)
  PROVE  agree(m, op)
<1>. DEFINE p == past(m, op)
<1>1. op.kind \in {"DIV", "MOD"} => row_b(m, op) = m.r[s1(op)] /\ m.r[op.f % 4] = m.r[s1(op)]
  BY Operands DEF TwoReg
<1>2. TorchTick(m, op) = stopped(m)
  <2>1. \/ m.PC + op.len > CodeLen
        \/ (op.kind \in Branch /\ taken(m, op)) /\ target(p, op) >= CodeLen
        \/ op.kind \in {"DIV", "MOD"} /\ row_b(m, op) = 0
    BY <1>1, Zenon DEF Faults, goes
  <2>. QED BY <2>1, Zenon DEF TorchTick, past
<1>3. KernelTick(m, op) = stopped(m)
  <2>1. \/ m.PC + op.len > CodeLen
        \/ op.kind \in {"DIV", "MOD"} /\ m.r[op.f % 4] = 0
        \/ /\ op.kind \in Branch /\ taken(m, op)
           /\ (IF op.kind \in Branch /\ taken(m, op) THEN target(p, op)
               ELSE m.PC + op.len) >= CodeLen
    BY <1>1, Zenon DEF Faults, goes
  <2>. QED BY <2>1, Zenon DEF KernelTick, past
<1>4. RefTick(m, op) = stopped(m)
  <2>1. CASE m.PC + op.len > CodeLen
    BY <2>1, Zenon DEF RefTick
  <2>2. CASE ~(m.PC + op.len > CodeLen)
    <3>1. Steps(m, op)
      <4>1. m.PC \in Word /\ op.len \in Int /\ CodeLen \in Word /\ Span * Span \in Int
        BY AluAssumption, ByteWidth DEF Mach, Op
      <4>. QED BY <2>2, <4>1 DEF Steps, Word
    <3>2. p.r = m.r /\ stopped(p).status = "ERROR"
      BY <3>1, PastFields, Stopped
    <3>. DEFINE x == IF op.kind \in Branch THEN ref_branch(p, op)
                     ELSE IF op.kind \in Pointer \cup PtrReg THEN ref_pointers(p, op)
                     ELSE ref_registers(p, op)
    <3>3. x = stopped(p)
      <4>1. CASE op.kind \in {"DIV", "MOD"}
        <5>1. op.kind \notin Branch \cup Pointer \cup PtrReg
          BY <4>1 DEF Branch, Pointer, PtrReg
        <5>2. ~goes(m, op) /\ m.r[s1(op)] = 0
          BY <2>2, <5>1 DEF Faults, goes
        <5>3. ref_registers(p, op) = stopped(p)
          <6>. HIDE DEF p
          <6>. QED BY <3>2, <4>1, <5>2 DEF ref_registers
        <5>. QED BY <5>1, <5>3
      <4>2. CASE op.kind \notin {"DIV", "MOD"}
        <5>1. goes(m, op) /\ target(p, op) >= CodeLen /\ op.kind \in Branch
          BY <2>2, <4>2 DEF Faults, goes
        <5>2. taken(p, op)
          BY <3>1, <5>1, SameBranch DEF goes
        <5>3. ref_branch(p, op) = stopped(p)
          BY <5>1, <5>2, Zenon DEF ref_branch
        <5>. QED BY <5>1, <5>3
      <4>. QED BY <4>1, <4>2
    <3>4. x.status = "ERROR"
      BY <3>2, <3>3
    <3>. QED BY <2>2, <3>4, Zenon DEF RefTick, past
  <2>. QED BY <2>1, <2>2
<1>. QED BY <1>2, <1>3, <1>4, Stopped DEF agree

------------------------------------------------------------------------------
\* Every tick

\* The masked circuit and the kernel compute the reference's tick, whatever the
\* machine and the instruction, and it leaves a machine.
LEMMA TicksAgree ==
  ASSUME NEW m \in Mach, NEW op \in Op
  PROVE  agree(m, op)
<1>1. CASE m.status # "RUNNING"
  BY <1>1, Zenon DEF agree, RefTick, TorchTick, KernelTick
<1>2. CASE m.status = "RUNNING" /\ Faults(m, op)
  BY <1>2, FaultsAgree
<1>3. CASE m.status = "RUNNING" /\ ~Faults(m, op)
  <2>1. Steps(m, op)
    <3>1. ~(m.PC + op.len > CodeLen)
      BY <1>3 DEF Faults
    <3>2. m.PC \in Word /\ op.len \in Int /\ CodeLen \in Word /\ Span * Span \in Int
      BY AluAssumption, ByteWidth DEF Mach, Op
    <3>. QED BY <1>3, <3>1, <3>2 DEF Steps, Word
  <2>2. CASE op.kind \in Branch
    BY <1>3, <2>1, <2>2, BranchesAgree DEF Faults
  <2>3. CASE op.kind \in Pointer \cup PtrReg
    BY <2>1, <2>3, PointersAgree
  <2>4. CASE op.kind \in OnlyZ
    BY <1>3, <2>1, <2>4, OnlyZsAgree DEF Faults
  <2>5. op.kind \in Branch \cup Pointer \cup PtrReg \cup OnlyZ \cup ZAndC \cup Copies
                  \cup Sums \cup Difs \cup {"CMP", "TST", "NEG", "CLC", "NOP", "IN"}
    <3>1. op.kind \in TwoReg \cup OneReg \cup ImmReg \cup Pointer \cup PtrReg \cup Branch
                        \cup {"NOP", "CLC"}
      BY DEF Op
    <3>. QED BY <3>1 DEF TwoReg, OneReg, ImmReg, OnlyZ, ZAndC, Copies, Sums, Difs
  <2>6. CASE op.kind \in ZAndC
    BY <2>1, <2>6, ZAndCsAgree
  <2>7. CASE op.kind \in Copies
    BY <2>1, <2>7, CopiesAgree
  <2>8. CASE op.kind \in Sums
    BY <2>1, <2>8, SumsAgree
  <2>9. CASE op.kind \in Difs
    BY <2>1, <2>9, DifsAgree
  <2>10. CASE op.kind \in {"CMP", "TST", "NEG", "CLC", "NOP", "IN"}
    BY <2>1, <2>10, CmpAgrees, TstAgrees, NegAgrees, ClcAgrees, InAgrees
  <2>. QED BY <2>2, <2>3, <2>4, <2>5, <2>6, <2>7, <2>8, <2>9, <2>10
<1>. QED BY <1>1, <1>2, <1>3

\* The machine keeps its widths on every path: what a row or a branch leaves
\* wider than a byte is cut at the register port, and no carry is more than a bit.
THEOREM TypeCorrect == Spec => []TypeOK
<1>1. Init => TypeOK
  BY AluAssumption DEF Init, TypeOK
<1>2. TypeOK /\ [Next]_avars => TypeOK'
  <2>. SUFFICES ASSUME TypeOK, [Next]_avars PROVE TypeOK'
    OBVIOUS
  <2>1. ASSUME NEW op \in Program, Tick(RefTick, op) \/ Tick(TorchTick, op) \/ Tick(KernelTick, op)
        PROVE  TypeOK'
    <3>1. agree(mach, op)
      BY AluAssumption, TicksAgree DEF TypeOK
    <3>2. mach' \in Mach /\ last' = op /\ ticks < MaxTicks /\ ticks' = ticks + 1
      BY <2>1, <3>1 DEF Tick, agree
    <3>. QED BY <3>2, AluAssumption DEF TypeOK
  <2>2. CASE UNCHANGED avars
    BY <2>2 DEF TypeOK, avars
  <2>. QED BY <2>1, <2>2 DEF Next
<1>. QED BY <1>1, <1>2, PTL DEF Spec

\* The two circuits compute what the reference computes, every register, every
\* pointer and every flag of it, whichever path takes the tick, for a byte of any
\* width.
THEOREM PathsCompute == Spec => PathsAgree
<1>1. TypeOK /\ [Next]_avars => [mach' = RefTick(mach, last')]_avars
  <2>. SUFFICES ASSUME TypeOK, NEW op \in Program,
                       Tick(RefTick, op) \/ Tick(TorchTick, op) \/ Tick(KernelTick, op)
                PROVE  mach' = RefTick(mach, last')
    BY DEF Next
  <2>1. agree(mach, op)
    BY AluAssumption, TicksAgree DEF TypeOK
  <2>2. mach' = RefTick(mach, op) /\ last' = op
    BY <2>1 DEF Tick, agree
  <2>. QED BY <2>2
<1>. QED BY <1>1, TypeCorrect, PTL DEF Spec, PathsAgree

LEMMA PlacedFlags ==
  ASSUME NEW m \in Mach, NEW r, NEW C, NEW Z, NEW S, NEW V, NEW HL, NEW DE, NEW MB, NEW PC,
         NEW ipos
  PROVE  LET y == placed(m, r, C, Z, S, V, HL, DE, MB, PC, ipos)
         IN y.C = C /\ y.Z = Z /\ y.S = S /\ y.V = V
BY DEF placed, Mach

\* A flag that moves is on the row of its own.
LEMMA TorchFlags ==
  ASSUME NEW m \in Mach, NEW op
  PROVE  LET y == TorchTick(m, op)
         IN \/ y.C = m.C /\ y.Z = m.Z /\ y.S = m.S /\ y.V = m.V
            \/ /\ y.C = rows_C(m, op) /\ y.Z = rows_Z(m, op)
               /\ y.S = rows_S(m, op) /\ y.V = rows_V(m, op)
<1>1. \/ TorchTick(m, op) = m
      \/ TorchTick(m, op) = stopped(m)
      \/ TorchTick(m, op) =
           placed(m, torch_r(m, op), rows_C(m, op), rows_Z(m, op), rows_S(m, op), rows_V(m, op),
                  wide(rows_HL(m, op)), wide(rows_DE(m, op)), torch_MB(m, op), next_PC(m, op),
                  torch_ipos(m, op))
  BY Zenon DEF TorchTick, past, goes, torch_r, torch_MB, next_PC, torch_ipos, placed
<1>2. stopped(m).C = m.C /\ stopped(m).Z = m.Z /\ stopped(m).S = m.S /\ stopped(m).V = m.V
  BY DEF stopped, Mach
<1>. QED BY <1>1, <1>2, PlacedFlags

LEMMA RowsDeclared ==
  ASSUME NEW m, NEW op
  PROVE  LET w == FLAG_WRITES(op.kind)
         IN /\ "C" \notin w => rows_C(m, op) = m.C
            /\ "Z" \notin w => rows_Z(m, op) = m.Z
            /\ "S" \notin w => rows_S(m, op) = m.S
            /\ "V" \notin w => rows_V(m, op) = m.V
<1>1. "C" \notin FLAG_WRITES(op.kind) => rows_C(m, op) = m.C
  BY DEF FLAG_WRITES, rows_C, Sums, Difs
<1>2. "Z" \notin FLAG_WRITES(op.kind) => rows_Z(m, op) = m.Z
  BY DEF FLAG_WRITES, rows_Z, Zeros, Sums, Difs
<1>3. "S" \notin FLAG_WRITES(op.kind) => rows_S(m, op) = m.S
  BY DEF FLAG_WRITES, rows_S, Sums, Difs
<1>4. "V" \notin FLAG_WRITES(op.kind) => rows_V(m, op) = m.V
  BY DEF FLAG_WRITES, rows_V, Sums, Difs
<1>. QED BY <1>1, <1>2, <1>3, <1>4

\* A tick moves no flag its instruction does not declare, on any path: what
\* FLAG_WRITES says of an instruction holds of all three.
THEOREM FlagsAsDeclared == Spec => FlagsDeclared
<1>. DEFINE A == LET w == FLAG_WRITES(last'.kind) IN
                   /\ "C" \notin w => mach'.C = mach.C
                   /\ "Z" \notin w => mach'.Z = mach.Z
                   /\ "S" \notin w => mach'.S = mach.S
                   /\ "V" \notin w => mach'.V = mach.V
<1>1. TypeOK /\ [Next]_avars => [A]_avars
  <2>. SUFFICES ASSUME TypeOK, NEW op \in Program,
                       Tick(RefTick, op) \/ Tick(TorchTick, op) \/ Tick(KernelTick, op)
                PROVE  A
    BY DEF Next
  <2>1. agree(mach, op)
    BY AluAssumption, TicksAgree DEF TypeOK
  <2>2. mach' = TorchTick(mach, op) /\ last' = op
    BY <2>1 DEF Tick, agree
  <2>3. mach \in Mach
    BY DEF TypeOK
  <2>. QED BY <2>2, <2>3, TorchFlags, RowsDeclared
<1>. QED BY <1>1, TypeCorrect, PTL DEF Spec, FlagsDeclared

------------------------------------------------------------------------------
\* Chains of byte instructions

LEMMA PlacedRest ==
  ASSUME NEW m \in Mach, NEW r, NEW C, NEW Z, NEW S, NEW V, NEW HL, NEW DE, NEW MB, NEW PC,
         NEW ipos
  PROVE  LET y == placed(m, r, C, Z, S, V, HL, DE, MB, PC, ipos)
         IN y.r = r /\ y.PC = PC /\ y.status = m.status
BY DEF placed, Mach

\* A tick that goes through, by its rows.
LEMMA GoesThrough ==
  ASSUME NEW m, NEW op, Steps(m, op), op.kind \notin Branch \cup {"DIV", "MOD"}
  PROVE  LET y == RefTick(m, op)
         IN /\ y \in Mach /\ y.r = torch_r(m, op) /\ y.C = rows_C(m, op) /\ y.V = rows_V(m, op)
            /\ y.PC = m.PC + op.len /\ y.status = "RUNNING"
<1>1. m \in Mach /\ op \in Op /\ m.status = "RUNNING"
  BY DEF Steps
<1>2. RefTick(m, op) \in Mach /\ RefTick(m, op) = TorchTick(m, op)
  BY <1>1, TicksAgree DEF agree
<1>3. ~goes(m, op) /\ next_PC(m, op) = m.PC + op.len
  BY DEF goes, next_PC
<1>4. TorchTick(m, op) =
        placed(m, torch_r(m, op), rows_C(m, op), rows_Z(m, op), rows_S(m, op), rows_V(m, op),
               wide(rows_HL(m, op)), wide(rows_DE(m, op)), torch_MB(m, op), m.PC + op.len,
               torch_ipos(m, op))
  BY <1>3, TorchForm
<1>. QED BY <1>1, <1>2, <1>4, PlacedFlags, PlacedRest

LEMMA RegOp ==
  ASSUME NEW k \in TwoReg \cup OneReg, NEW f \in 0 .. 15
  PROVE  LET op == reg(k, f)
         IN op \in Op /\ op.kind = k /\ op.f = f /\ op.len = 1
<1>1. 0 \in Byte /\ 0 \in Word
  <2>1. Span * Span \in Nat \ {0}
    BY ByteWidth
  <2>. QED BY <2>1, ByteWidth DEF Byte, Word
<1>. QED BY <1>1 DEF reg, Op

\* What stands inside a chain leaves the registers and C.
LEMMA BetweenKeeps ==
  ASSUME NEW m, NEW op \in Between, Steps(m, op)
  PROVE  LET y == RefTick(m, op)
         IN /\ y \in Mach /\ y.r = m.r /\ y.C = m.C
            /\ y.PC = m.PC + op.len /\ y.status = "RUNNING"
<1>1. /\ "C" \notin FLAG_WRITES(op.kind)
      /\ op.kind \in Pointer \cup PtrReg \cup {"NOP", "TST"}
  BY DEF Between
<1>2. op.kind \notin Branch \cup {"DIV", "MOD"}
  BY <1>1 DEF Pointer, PtrReg, Branch
<1>3. ~rows_R_en(op)
  BY <1>1 DEF rows_R_en, Pointer, PtrReg, Zeros, Sums, Difs
<1>4. torch_r(m, op) = m.r /\ rows_C(m, op) = m.C
  BY <1>1, <1>3, RowsDeclared DEF torch_r
<1>. QED BY <1>2, <1>4, GoesThrough

\* The second instruction of a chain begins where the first left the registers
\* and C.
chained(m, op1, op, op3) ==
  \E x \in Mach, z \in Mach :
    /\ x.r = torch_r(m, op1) /\ x.C = rows_C(m, op1)
    /\ z.r = x.r /\ z.C = x.C
    /\ LET y == then(m, op1, op, op3)
       IN y.r = torch_r(z, op3) /\ y.C = rows_C(z, op3) /\ y.V = rows_V(z, op3)

\* Room for a chain around op.
Room(m, op) == m.status = "RUNNING" /\ m.PC + 2 + op.len <= CodeLen

\* The chain as a whole, of two instructions on registers and one between.
LEMMA Chain ==
  ASSUME NEW m \in Mach, NEW op \in Between, Room(m, op),
         NEW j \in (TwoReg \cup OneReg) \ {"DIV", "MOD"}, NEW e \in 0 .. 15,
         NEW k \in (TwoReg \cup OneReg) \ {"DIV", "MOD"}, NEW f \in 0 .. 15
  PROVE  chained(m, reg(j, e), op, reg(k, f))
<1>. DEFINE op1 == reg(j, e)
            op3 == reg(k, f)
            x == RefTick(m, op1)
            z == RefTick(x, op)
<1>1. /\ op1 \in Op /\ op1.kind = j /\ op1.len = 1
      /\ op3 \in Op /\ op3.kind = k /\ op3.len = 1
  BY RegOp
<1>2. /\ op1.kind \notin Branch \cup {"DIV", "MOD"}
      /\ op3.kind \notin Branch \cup {"DIV", "MOD"}
  BY <1>1 DEF TwoReg, OneReg, Branch
<1>3. op \in Op /\ op.len \in 1 .. 3
  BY AluAssumption DEF Between, Op
<1>4. /\ m.PC \in Nat /\ CodeLen \in Nat
      /\ m.status = "RUNNING" /\ m.PC + 2 + op.len <= CodeLen
  BY AluAssumption, ByteWidth DEF Mach, Word, Room
<1>. HIDE DEF op1, op3
<1>5. Steps(m, op1)
  BY <1>1, <1>3, <1>4 DEF Steps
<1>6. /\ x \in Mach /\ x.r = torch_r(m, op1) /\ x.C = rows_C(m, op1)
      /\ x.PC = m.PC + 1 /\ x.status = "RUNNING"
  BY <1>1, <1>2, <1>5, GoesThrough
<1>. HIDE DEF x
<1>7. Steps(x, op)
  BY <1>3, <1>4, <1>6 DEF Steps
<1>8. /\ z \in Mach /\ z.r = x.r /\ z.C = x.C
      /\ z.PC = x.PC + op.len /\ z.status = "RUNNING"
  BY <1>7, BetweenKeeps
<1>. HIDE DEF z
<1>9. Steps(z, op3)
  BY <1>1, <1>3, <1>4, <1>6, <1>8 DEF Steps
<1>10. LET y == RefTick(z, op3)
       IN y.r = torch_r(z, op3) /\ y.C = rows_C(z, op3) /\ y.V = rows_V(z, op3)
  BY <1>2, <1>9, GoesThrough
<1>11. then(m, op1, op, op3) = RefTick(z, op3)
  BY Zenon DEF then, x, z
<1>12. chained(m, op1, op, op3)
  BY <1>6, <1>8, <1>10, <1>11, Zenon DEF chained
<1>. QED BY <1>12 DEF op1, op3

------------------------------------------------------------------------------
\* The arithmetic of a chain, for a byte of S = 2 * H values

\* A byte as a signed number, and the two overflow rules.
val(H, a) == IF a >= H THEN a - 2 * H ELSE a
over_add(H, a, b, v) == ~((a >= H) <=> (v >= H)) /\ ~((b >= H) <=> (v >= H))
over_sub(H, a, b, v) == ~((a >= H) <=> (b >= H)) /\ ~((a >= H) <=> (v >= H))
fits_byte(H, k) == -H <= k /\ k < H

LEMMA Scale ==
  ASSUME NEW S \in Nat \ {0}, NEW k \in Int, NEW l \in Int
  PROVE  /\ S * (k + l) = S * k + S * l /\ S * (k - l) = S * k - S * l
         /\ S * k \in Int /\ (k <= l => S * k <= S * l)
         /\ k < l => S * k + S <= S * l
<1>1. S * (k + l) = S * k + S * l /\ S * (k - l) = S * k - S * l /\ S * k \in Int
  OBVIOUS
<1>2. ASSUME k <= l PROVE S * k <= S * l
  <2>1. l - k \in Nat /\ S * (l - k) >= 0 /\ S * (l - k) = S * l - S * k /\ S * l \in Int
    BY <1>2
  <2>. QED BY <1>1, <2>1
<1>3. ASSUME k < l PROVE S * k + S <= S * l
  <2>1. l - k - 1 \in Nat /\ S * (l - k - 1) >= 0 /\ S * (l - k - 1) = S * l - S * k - S /\ S * l \in Int
    BY <1>3
  <2>. QED BY <1>1, <2>1
<1>. QED BY <1>1, <1>2, <1>3

\* A word is its two bytes, and its top bit the top bit of the high one.
LEMMA HighHalf ==
  ASSUME NEW H \in Nat \ {0}, NEW S, S = 2 * H, NEW a \in 0 .. S - 1, NEW e \in 0 .. S - 1
  PROVE  /\ a \div H \in {0, 1} /\ (a \div H = 1 <=> a >= H)
         /\ (S * a + e) \div (H * S) = a \div H
<1>1. a \div H \in {0, 1} /\ (a \div H = 1 <=> a >= H)
  OBVIOUS
<1>2. S \in Nat \ {0} /\ H * S \in Nat \ {0} /\ S * H = H * S /\ S * S = 2 * (H * S)
  OBVIOUS
<1>3. S * a \in Int /\ S * a + S <= S * S /\ (a >= H => S * a >= S * H)
      /\ (~(a >= H) => S * a + S <= S * H) /\ S * a >= 0
  <2>1. S * a \in Int /\ S * a + S <= S * S
    BY <1>2, Scale
  <2>2. a >= H => S * H <= S * a
    BY <1>2, Scale
  <2>3. ~(a >= H) => S * a + S <= S * H
    BY <1>2, Scale
  <2>4. S * 0 <= S * a /\ S * 0 = 0
    BY <1>2, Scale
  <2>. QED BY <2>1, <2>2, <2>3, <2>4
<1>. DEFINE W == H * S
            y == S * a + e
<1>4. W \in Nat \ {0} /\ y \in 0 .. 2 * W - 1 /\ (a >= H <=> y >= W)
  BY <1>2, <1>3
<1>. HIDE DEF W, y
<1>5. y \div W \in {0, 1} /\ (y \div W = 1 <=> y >= W)
  BY <1>4
<1>6. y \div W = a \div H
  BY <1>1, <1>4, <1>5
<1>. QED BY <1>1, <1>6 DEF y, W

LEMMA SignedByte ==
  ASSUME NEW H \in Nat \ {0}, NEW a \in 0 .. 2 * H - 1
  PROVE  a - (2 * H) * (a \div H) = val(H, a) /\ val(H, a) \in Int
<1>. DEFINE d == a \div H
<1>1. d = IF a >= H THEN 1 ELSE 0
  OBVIOUS
<1>. HIDE DEF d
<1>2. a - (2 * H) * d = val(H, a) /\ val(H, a) \in Int
  BY <1>1 DEF val
<1>. QED BY <1>2 DEF d

\* k words and a byte fit exactly when k fits a signed byte.
LEMMA FitsHigh ==
  ASSUME NEW H \in Nat \ {0}, NEW S, S = 2 * H, NEW k \in Int, NEW e \in 0 .. S - 1
  PROVE  (-(H * S) <= S * k + e /\ S * k + e < H * S) <=> fits_byte(H, k)
<1>1. S \in Nat \ {0} /\ H * S = S * H /\ -(H * S) = S * (-H) /\ H * S \in Int /\ S * k \in Int
  OBVIOUS
<1>2. /\ -H <= k => S * (-H) <= S * k
      /\ k < -H => S * k + S <= S * (-H)
      /\ k < H => S * k + S <= S * H
      /\ H <= k => S * H <= S * k
  BY <1>1, Scale
<1>. DEFINE u == S * k
            W == H * S
<1>3. /\ -H <= k => -W <= u
      /\ k < -H => u + S <= -W
      /\ k < H => u + S <= W
      /\ H <= k => W <= u
      /\ u \in Int /\ W \in Int /\ S \in Int
  BY <1>1, <1>2
<1>. HIDE DEF u, W
<1>4. (-W <= u + e /\ u + e < W) <=> (-H <= k /\ k < H)
  BY <1>3
<1>. QED BY <1>4 DEF u, W, fits_byte

LEMMA DivMod ==
  ASSUME NEW S \in Nat \ {0}, NEW t \in Int
  PROVE  t \div S \in Int /\ t % S \in 0 .. S - 1 /\ t = S * (t \div S) + (t % S)
OBVIOUS

LEMMA Products3 ==
  ASSUME NEW S \in Int, NEW x \in Int, NEW y \in Int, NEW z \in Int
  PROVE  /\ S * (x + y + z) = S * x + S * y + S * z
         /\ S * (x - y - z) = S * x - S * y - S * z
         /\ S * (S * x + y) = S * S * x + S * y
         /\ S * (S * x) = S * S * x
         /\ S * x \in Int /\ S * y \in Int /\ S * z \in Int /\ S * S * x \in Int /\ S * S \in Int
<1>1. S * S \in Int
  OBVIOUS
<1>. QED BY <1>1

\* Two bytes with a carry between them, c from the low one and d from the high one.
LEMMA CarryChain ==
  ASSUME NEW S \in Int, NEW t0 \in Int, NEW u \in Int, NEW c \in Int, NEW d \in Int,
         NEW e0 \in Int, NEW e1 \in Int, t0 = S * c + e0, u + c = S * d + e1
  PROVE  S * e1 + e0 + S * S * d = S * u + t0
<1>1. S * (u + c) = S * u + S * c /\ S * (S * d + e1) = S * S * d + S * e1
  OBVIOUS
<1>2. S * u \in Int /\ S * c \in Int /\ S * S * d \in Int /\ S * e1 \in Int
  BY Products3
<1>3. S * u + S * c = S * S * d + S * e1
  BY <1>1
<1>. QED BY <1>2, <1>3

LEMMA SignChain ==
  ASSUME NEW S \in Int, NEW a0 \in Int, NEW b0 \in Int, NEW a1 \in Int, NEW b1 \in Int,
         NEW c \in Int, NEW e0 \in Int, NEW p \in Int, NEW q \in Int, a0 + b0 = S * c + e0
  PROVE  ((S * a1 + a0) - S * S * p) + ((S * b1 + b0) - S * S * q)
           = S * ((a1 - S * p) + (b1 - S * q) + c) + e0
<1>. DEFINE x == a1 - S * p
            y == b1 - S * q
<1>1. S * p \in Int /\ S * q \in Int /\ S * S * p \in Int /\ S * S * q \in Int
      /\ S * (S * p) = S * S * p /\ S * (S * q) = S * S * q
      /\ S * a1 \in Int /\ S * b1 \in Int /\ S * c \in Int
  BY Products3
<1>2. x \in Int /\ y \in Int
  BY <1>1
<1>3. S * x = S * a1 - S * S * p /\ S * y = S * b1 - S * S * q
  <2>1. ASSUME NEW k \in Int, NEW l \in Int PROVE S * (k - l) = S * k - S * l
    OBVIOUS
  <2>. QED BY <1>1, <2>1
<1>4. S * (x + y + c) = S * x + S * y + S * c
  <2>. HIDE DEF x, y
  <2>. QED BY <1>2, Products3
<1>. DEFINE g == S * (x + y + c)
<1>5. g = (S * a1 - S * S * p) + (S * b1 - S * S * q) + S * c
  <2>. HIDE DEF x, y
  <2>. QED BY <1>1, <1>3, <1>4
<1>. HIDE DEF g, x, y
<1>6. ((S * a1 + a0) - S * S * p) + ((S * b1 + b0) - S * S * q) = g + e0
  <2>. DEFINE k1 == S * a1
              k2 == S * b1
              k3 == S * S * p
              k4 == S * S * q
              k5 == S * c
  <2>1. k1 \in Int /\ k2 \in Int /\ k3 \in Int /\ k4 \in Int /\ k5 \in Int
    BY <1>1
  <2>2. g = (k1 - k3) + (k2 - k4) + k5 /\ a0 + b0 = k5 + e0
    BY <1>5
  <2>. HIDE DEF k1, k2, k3, k4, k5
  <2>3. ((k1 + a0) - k3) + ((k2 + b0) - k4) = g + e0
    BY <2>1, <2>2
  <2>. QED BY <2>3 DEF k1, k2, k3, k4
<1>. QED BY <1>6, Zenon DEF g, x, y

LEMMA LinearSum ==
  ASSUME NEW H \in Nat \ {0}, NEW a \in 0 .. 2 * H - 1, NEW b \in 0 .. 2 * H - 1, NEW c \in {0, 1}
  PROVE  over_add(H, a, b, IF a + b + c >= 2 * H THEN (a + b + c) - 2 * H ELSE a + b + c)
           <=> ~fits_byte(H, val(H, a) + val(H, b) + c)
<1>. DEFINE v == IF a + b + c >= 2 * H THEN (a + b + c) - 2 * H ELSE a + b + c
            x == val(H, a)
            y == val(H, b)
<1>1. /\ v \in Int /\ x \in Int /\ y \in Int /\ a \in Int /\ b \in Int
      /\ c \in Int /\ H \in Int /\ H > 0
      /\ v = IF a + b + c >= 2 * H THEN (a + b + c) - 2 * H ELSE a + b + c
      /\ x = IF a >= H THEN a - 2 * H ELSE a
      /\ y = IF b >= H THEN b - 2 * H ELSE b
  BY DEF val
<1>. HIDE DEF v, x, y
<1>2. over_add(H, a, b, v) <=> ~fits_byte(H, x + y + c)
  <2>1. CASE a >= H /\ b >= H
    BY <1>1, <2>1 DEF over_add, fits_byte
  <2>2. CASE a >= H /\ ~(b >= H)
    BY <1>1, <2>2 DEF over_add, fits_byte
  <2>3. CASE ~(a >= H) /\ b >= H
    BY <1>1, <2>3 DEF over_add, fits_byte
  <2>4. CASE ~(a >= H) /\ ~(b >= H)
    BY <1>1, <2>4 DEF over_add, fits_byte
  <2>. QED BY <2>1, <2>2, <2>3, <2>4
<1>. QED BY <1>2, Zenon DEF v, x, y

LEMMA LinearDif ==
  ASSUME NEW H \in Nat \ {0}, NEW a \in 0 .. 2 * H - 1, NEW b \in 0 .. 2 * H - 1, NEW c \in {0, 1}
  PROVE  over_sub(H, a, b, IF a - b - c < 0 THEN (a - b - c) + 2 * H ELSE a - b - c)
           <=> ~fits_byte(H, val(H, a) - val(H, b) - c)
<1>. DEFINE v == IF a - b - c < 0 THEN (a - b - c) + 2 * H ELSE a - b - c
            x == val(H, a)
            y == val(H, b)
<1>1. /\ v \in Int /\ x \in Int /\ y \in Int /\ a \in Int /\ b \in Int
      /\ c \in Int /\ H \in Int /\ H > 0
      /\ v = IF a - b - c < 0 THEN (a - b - c) + 2 * H ELSE a - b - c
      /\ x = IF a >= H THEN a - 2 * H ELSE a
      /\ y = IF b >= H THEN b - 2 * H ELSE b
  BY DEF val
<1>. HIDE DEF v, x, y
<1>2. over_sub(H, a, b, v) <=> ~fits_byte(H, x - y - c)
  <2>1. CASE a >= H /\ b >= H
    BY <1>1, <2>1 DEF over_sub, fits_byte
  <2>2. CASE a >= H /\ ~(b >= H)
    BY <1>1, <2>2 DEF over_sub, fits_byte
  <2>3. CASE ~(a >= H) /\ b >= H
    BY <1>1, <2>3 DEF over_sub, fits_byte
  <2>4. CASE ~(a >= H) /\ ~(b >= H)
    BY <1>1, <2>4 DEF over_sub, fits_byte
  <2>. QED BY <2>1, <2>2, <2>3, <2>4
<1>. QED BY <1>2, Zenon DEF v, x, y

\* The overflow rule of an addition of bytes, by the signed values and the carry in.
LEMMA SumOverflow ==
  ASSUME NEW H \in Nat \ {0}, NEW a \in 0 .. 2 * H - 1, NEW b \in 0 .. 2 * H - 1, NEW c \in {0, 1}
  PROVE  over_add(H, a, b, (a + b + c) % (2 * H))
           <=> ~fits_byte(H, val(H, a) + val(H, b) + c)
<1>. DEFINE S == 2 * H
            t == a + b + c
            v == t % S
<1>1. v = IF t >= S THEN t - S ELSE t
  <2>1. S \in Nat \ {0} /\ t \in 0 .. 2 * S - 1
    OBVIOUS
  <2>. HIDE DEF S, t
  <2>2. \A n \in 0 .. 2 * S - 1 : n % S = IF n >= S THEN n - S ELSE n
    BY <2>1
  <2>. QED BY <2>1, <2>2
<1>2. over_add(H, a, b, IF a + b + c >= 2 * H THEN (a + b + c) - 2 * H ELSE a + b + c)
        <=> ~fits_byte(H, val(H, a) + val(H, b) + c)
  BY LinearSum
<1>. QED BY <1>1, <1>2, Zenon

LEMMA DifOverflow ==
  ASSUME NEW H \in Nat \ {0}, NEW a \in 0 .. 2 * H - 1, NEW b \in 0 .. 2 * H - 1, NEW c \in {0, 1}
  PROVE  over_sub(H, a, b, (a - b - c) % (2 * H))
           <=> ~fits_byte(H, val(H, a) - val(H, b) - c)
<1>. DEFINE S == 2 * H
            t == a - b - c
            v == t % S
<1>1. v = IF t < 0 THEN t + S ELSE t
  <2>1. S \in Nat \ {0} /\ t \in -S .. S - 1
    OBVIOUS
  <2>. HIDE DEF S, t
  <2>2. \A n \in -S .. S - 1 : n % S = IF n < 0 THEN n + S ELSE n
    BY <2>1
  <2>. QED BY <2>1, <2>2
<1>2. over_sub(H, a, b, IF a - b - c < 0 THEN (a - b - c) + 2 * H ELSE a - b - c)
        <=> ~fits_byte(H, val(H, a) - val(H, b) - c)
  BY LinearDif
<1>. QED BY <1>1, <1>2, Zenon

LEMMA SignDif ==
  ASSUME NEW S \in Int, NEW a0 \in Int, NEW b0 \in Int, NEW a1 \in Int, NEW b1 \in Int,
         NEW c \in Int, NEW e0 \in Int, NEW p \in Int, NEW q \in Int, a0 - b0 = e0 - S * c
  PROVE  ((S * a1 + a0) - S * S * p) - ((S * b1 + b0) - S * S * q)
           = S * ((a1 - S * p) - (b1 - S * q) - c) + e0
<1>. DEFINE x == a1 - S * p
            y == b1 - S * q
<1>1. S * p \in Int /\ S * q \in Int /\ S * S * p \in Int /\ S * S * q \in Int
      /\ S * (S * p) = S * S * p /\ S * (S * q) = S * S * q
      /\ S * a1 \in Int /\ S * b1 \in Int /\ S * c \in Int
  BY Products3
<1>2. x \in Int /\ y \in Int
  BY <1>1
<1>3. S * x = S * a1 - S * S * p /\ S * y = S * b1 - S * S * q
  <2>1. ASSUME NEW k \in Int, NEW l \in Int PROVE S * (k - l) = S * k - S * l
    OBVIOUS
  <2>. QED BY <1>1, <2>1
<1>4. S * (x - y - c) = S * x - S * y - S * c
  <2>. HIDE DEF x, y
  <2>. QED BY <1>2, Products3
<1>. DEFINE g == S * (x - y - c)
<1>5. g = (S * a1 - S * S * p) - (S * b1 - S * S * q) - S * c
  <2>. HIDE DEF x, y
  <2>. QED BY <1>1, <1>3, <1>4
<1>. HIDE DEF g, x, y
<1>6. ((S * a1 + a0) - S * S * p) - ((S * b1 + b0) - S * S * q) = g + e0
  <2>. DEFINE k1 == S * a1
              k2 == S * b1
              k3 == S * S * p
              k4 == S * S * q
              k5 == S * c
  <2>1. k1 \in Int /\ k2 \in Int /\ k3 \in Int /\ k4 \in Int /\ k5 \in Int
    BY <1>1
  <2>2. g = (k1 - k3) - (k2 - k4) - k5 /\ a0 - b0 = e0 - k5
    BY <1>5
  <2>. HIDE DEF k1, k2, k3, k4, k5
  <2>3. ((k1 + a0) - k3) - ((k2 + b0) - k4) = g + e0
    BY <2>1, <2>2
  <2>. QED BY <2>3 DEF k1, k2, k3, k4
<1>. QED BY <1>6, Zenon DEF g, x, y

sum_word(H, S, a0, a1, b0, b1) ==
  LET t0 == a0 + b0
        t1 == a1 + b1 + (t0 \div S)
        x == S * a1 + a0
        y == S * b1 + b0
        v == t1 % S
        w == (x - S * S * (x \div (H * S))) + (y - S * S * (y \div (H * S)))
    IN /\ S * v + (t0 % S) + S * S * (t1 \div S) = x + y
       /\ over_add(H, a1, b1, v) <=> ~(-(H * S) <= w /\ w < H * S)

LEMMA SumWord ==
  ASSUME NEW H \in Nat \ {0}, NEW S, S = 2 * H, NEW a0 \in 0 .. S - 1, NEW a1 \in 0 .. S - 1,
         NEW b0 \in 0 .. S - 1, NEW b1 \in 0 .. S - 1
  PROVE  sum_word(H, S, a0, a1, b0, b1)
<1>. DEFINE t0 == a0 + b0
            c == t0 \div S
            t1 == a1 + b1 + c
            e0 == t0 % S
            p == a1 \div H
            q == b1 \div H
            v == t1 % S
            d == t1 \div S
            x == S * a1 + a0
            y == S * b1 + b0
            w == (x - S * S * (x \div (H * S))) + (y - S * S * (y \div (H * S)))
            k == (a1 - S * p) + (b1 - S * q) + c
<1>1. /\ S \in Nat \ {0} /\ S \in Int /\ a0 \in Int /\ a1 \in Int /\ b0 \in Int /\ b1 \in Int
      /\ t0 \in Int /\ a1 + b1 \in Int
  OBVIOUS
<1>2. c \in {0, 1} /\ e0 \in 0 .. S - 1 /\ t0 = S * c + e0
  <2>1. c \in {0, 1}
    OBVIOUS
  <2>. QED BY <1>1, <2>1, DivMod
<1>3. t1 \in Int /\ v \in 0 .. S - 1 /\ d \in Int /\ t1 = S * d + v
  <2>1. t1 \in Int
    BY <1>1, <1>2
  <2>. QED BY <1>1, <2>1, DivMod
<1>4. /\ p \in {0, 1} /\ (p = 1 <=> a1 >= H) /\ x \div (H * S) = p
      /\ q \in {0, 1} /\ (q = 1 <=> b1 >= H) /\ y \div (H * S) = q
  BY HighHalf
<1>5. S * v + e0 + S * S * d = S * (a1 + b1) + t0
  <2>1. t1 = a1 + b1 + c
    OBVIOUS
  <2>. HIDE DEF c, e0, v, d
  <2>2. a1 + b1 + c = S * d + v
    BY <1>3, <2>1
  <2>3. c \in Int /\ e0 \in Int /\ v \in Int
    BY <1>1, <1>2, <1>3
  <2>. QED BY <1>1, <1>2, <1>3, <2>2, <2>3, CarryChain
<1>6. S * v + e0 + S * S * d = x + y
  <2>1. S * (a1 + b1) + t0 = x + y
    BY <1>1
  <2>. QED BY <1>5, <2>1, Zenon
<1>7. w = S * k + e0
  <2>1. w = ((S * a1 + a0) - S * S * p) + ((S * b1 + b0) - S * S * q)
    BY <1>4, Zenon
  <2>. HIDE DEF c, e0, p, q, k, w
  <2>2. a0 + b0 = S * c + e0 /\ c \in Int /\ e0 \in Int /\ p \in Int /\ q \in Int
    BY <1>2, <1>4
  <2>. QED BY <1>1, <2>1, <2>2, SignChain DEF k
<1>8. (-(H * S) <= w /\ w < H * S) <=> fits_byte(H, k)
  <2>1. k \in Int
    <3>. HIDE DEF c, p, q
    <3>. QED BY <1>1, <1>2, <1>4
  <2>. HIDE DEF w, k, e0
  <2>. QED BY <1>2, <1>7, <2>1, FitsHigh
<1>9. k = val(H, a1) + val(H, b1) + c
  <2>1. a1 - S * p = val(H, a1) /\ b1 - S * q = val(H, b1)
    BY SignedByte
  <2>. HIDE DEF p, q, c
  <2>. QED BY <2>1, Zenon
<1>10. over_add(H, a1, b1, v) <=> ~fits_byte(H, k)
  <2>1. v = (a1 + b1 + c) % (2 * H) /\ a1 \in 0 .. 2 * H - 1 /\ b1 \in 0 .. 2 * H - 1
    OBVIOUS
  <2>2. over_add(H, a1, b1, (a1 + b1 + c) % (2 * H))
          <=> ~fits_byte(H, val(H, a1) + val(H, b1) + c)
    <3>. HIDE DEF c
    <3>. QED BY <1>2, <2>1, SumOverflow
  <2>. HIDE DEF v, k, c
  <2>. QED BY <1>9, <2>1, <2>2, Zenon
<1>. HIDE DEF k
<1>. QED BY <1>6, <1>8, <1>10, Zenon DEF sum_word

LEMMA Borrowed ==
  ASSUME NEW S \in Nat \ {0}, NEW t \in -S .. S - 1
  PROVE  t % S \in 0 .. S - 1 /\ t = (t % S) - S * (IF t < 0 THEN 1 ELSE 0)
<1>1. CASE t < 0
  BY <1>1
<1>2. CASE ~(t < 0)
  BY <1>2
<1>. QED BY <1>1, <1>2

LEMMA Doubled ==
  ASSUME NEW H \in Nat \ {0}, NEW a \in 0 .. 2 * H - 1, NEW c \in {0, 1}
  PROVE  /\ a \div H \in {0, 1} /\ (2 * a + c) % (2 * H) \in Int
         /\ 2 * a + c = (2 * H) * (a \div H) + ((2 * a + c) % (2 * H))
<1>. DEFINE S == 2 * H
            t == 2 * a + c
<1>1. S \in Nat \ {0} /\ t \in 0 .. 2 * S - 1 /\ (t >= S <=> a >= H)
  OBVIOUS
<1>. HIDE DEF S, t
<1>2. t % S = (IF t >= S THEN t - S ELSE t) /\ t % S \in Int
  BY <1>1
<1>3. a \div H = IF a >= H THEN 1 ELSE 0
  OBVIOUS
<1>4. t = S * (a \div H) + (t % S)
  <2>. DEFINE d == a \div H
              e == t % S
  <2>1. t = S * d + e
    BY <1>1, <1>2, <1>3
  <2>. QED BY <2>1, Zenon
<1>. QED BY <1>2, <1>3, <1>4 DEF S, t

dif_word(H, S, a0, a1, b0, b1) ==
  LET t0 == a0 - b0
        c == IF t0 < 0 THEN 1 ELSE 0
        t1 == a1 - b1 - c
        d == IF t1 < 0 THEN 1 ELSE 0
        x == S * a1 + a0
        y == S * b1 + b0
        v == t1 % S
        w == (x - S * S * (x \div (H * S))) - (y - S * S * (y \div (H * S)))
    IN /\ (S * v + (t0 % S)) - S * S * d = x - y
       /\ over_sub(H, a1, b1, v) <=> ~(-(H * S) <= w /\ w < H * S)

LEMMA DifWord ==
  ASSUME NEW H \in Nat \ {0}, NEW S, S = 2 * H, NEW a0 \in 0 .. S - 1, NEW a1 \in 0 .. S - 1,
         NEW b0 \in 0 .. S - 1, NEW b1 \in 0 .. S - 1
  PROVE  dif_word(H, S, a0, a1, b0, b1)
<1>. DEFINE t0 == a0 - b0
            c == IF t0 < 0 THEN 1 ELSE 0
            t1 == a1 - b1 - c
            d == IF t1 < 0 THEN 1 ELSE 0
            e0 == t0 % S
            p == a1 \div H
            q == b1 \div H
            v == t1 % S
            x == S * a1 + a0
            y == S * b1 + b0
            w == (x - S * S * (x \div (H * S))) - (y - S * S * (y \div (H * S)))
            k == (a1 - S * p) - (b1 - S * q) - c
<1>1. /\ S \in Nat \ {0} /\ S \in Int /\ a0 \in Int /\ a1 \in Int /\ b0 \in Int /\ b1 \in Int
      /\ t0 \in Int /\ a1 - b1 \in Int
  OBVIOUS
<1>2. c \in {0, 1} /\ e0 \in 0 .. S - 1 /\ t0 = e0 - S * c
  <2>1. t0 \in -S .. S - 1
    OBVIOUS
  <2>. QED BY <1>1, <2>1, Borrowed
<1>3. t1 \in Int /\ v \in 0 .. S - 1 /\ d \in {0, 1} /\ t1 = v - S * d
  <2>1. t1 \in -S .. S - 1
    BY <1>2
  <2>2. d \in {0, 1}
    OBVIOUS
  <2>3. t1 % S \in 0 .. S - 1 /\ t1 = (t1 % S) - S * (IF t1 < 0 THEN 1 ELSE 0)
    BY <1>1, <2>1, Borrowed
  <2>. QED BY <1>1, <2>1, <2>2, <2>3
<1>4. /\ p \in {0, 1} /\ (p = 1 <=> a1 >= H) /\ x \div (H * S) = p
      /\ q \in {0, 1} /\ (q = 1 <=> b1 >= H) /\ y \div (H * S) = q
  BY HighHalf
<1>5. S * v + e0 + S * S * (-d) = S * (a1 - b1) + t0
  <2>. HIDE DEF e0, v
  <2>1. /\ (a1 - b1) + (-c) = S * (-d) + v /\ t0 = S * (-c) + e0
        /\ -c \in Int /\ -d \in Int /\ e0 \in Int /\ v \in Int
    <3>1. S * (-d) = -(S * d) /\ S * (-c) = -(S * c) /\ S * d \in Int /\ S * c \in Int
      BY <1>1, <1>2, <1>3
    <3>. QED BY <1>1, <1>2, <1>3, <3>1
  <2>. QED BY <1>1, <2>1, CarryChain
<1>6. (S * v + e0) - S * S * d = x - y
  <2>1. S * (a1 - b1) + t0 = x - y
    BY <1>1
  <2>2. S * v + e0 + S * S * (-d) = (S * v + e0) - S * S * d
    <3>. HIDE DEF e0, v
    <3>. QED BY <1>1, <1>2, <1>3
  <2>. QED BY <1>5, <2>1, <2>2, Zenon
<1>7. w = S * k + e0
  <2>1. w = ((S * a1 + a0) - S * S * p) - ((S * b1 + b0) - S * S * q)
    BY <1>4, Zenon
  <2>. HIDE DEF e0, p, q, k, w
  <2>2. a0 - b0 = e0 - S * c /\ c \in Int /\ e0 \in Int /\ p \in Int /\ q \in Int
    BY <1>2, <1>4
  <2>. QED BY <1>1, <2>1, <2>2, SignDif DEF k
<1>8. (-(H * S) <= w /\ w < H * S) <=> fits_byte(H, k)
  <2>1. k \in Int
    <3>. HIDE DEF p, q
    <3>. QED BY <1>1, <1>2, <1>4
  <2>. HIDE DEF w, k, e0
  <2>. QED BY <1>2, <1>7, <2>1, FitsHigh
<1>9. k = val(H, a1) - val(H, b1) - c
  <2>1. a1 - S * p = val(H, a1) /\ b1 - S * q = val(H, b1)
    BY SignedByte
  <2>. HIDE DEF p, q
  <2>. QED BY <2>1, Zenon
<1>10. over_sub(H, a1, b1, v) <=> ~fits_byte(H, k)
  <2>1. v = (a1 - b1 - c) % (2 * H) /\ a1 \in 0 .. 2 * H - 1 /\ b1 \in 0 .. 2 * H - 1
    OBVIOUS
  <2>2. over_sub(H, a1, b1, (a1 - b1 - c) % (2 * H))
          <=> ~fits_byte(H, val(H, a1) - val(H, b1) - c)
    BY <1>2, <2>1, DifOverflow
  <2>. HIDE DEF v, k
  <2>. QED BY <1>9, <2>1, <2>2, Zenon
<1>. HIDE DEF k
<1>. QED BY <1>6, <1>8, <1>10, Zenon DEF dif_word

shift_word(H, S, a0, a1) ==
  /\ LET c == a0 \div H
         t == 2 * a1 + c
     IN S * (t % S) + ((2 * a0) % S) + S * S * (a1 \div H) = 2 * (S * a1 + a0)
  /\ LET c == a1 % 2
     IN 2 * (S * (a1 \div 2) + (a0 \div 2 + H * c)) + (a0 % 2) = S * a1 + a0

LEMMA ShiftWord ==
  ASSUME NEW H \in Nat \ {0}, NEW S, S = 2 * H, NEW a0 \in 0 .. S - 1, NEW a1 \in 0 .. S - 1
  PROVE  shift_word(H, S, a0, a1)
<1>0. S \in Nat \ {0} /\ S \in Int /\ a0 \in Int /\ a1 \in Int
  OBVIOUS
<1>1. ASSUME NEW a \in 0 .. S - 1, NEW c \in {0, 1}
      PROVE  /\ a \div H \in {0, 1} /\ (2 * a + c) % S \in Int
             /\ 2 * a + c = S * (a \div H) + ((2 * a + c) % S)
  BY Doubled, Zenon
<1>2. LET c == a0 \div H
          t == 2 * a1 + c
      IN S * (t % S) + ((2 * a0) % S) + S * S * (a1 \div H) = 2 * (S * a1 + a0)
  <2>. DEFINE c == a0 \div H
              t == 2 * a1 + c
              e0 == (2 * a0) % S
              e1 == t % S
              d == a1 \div H
  <2>1. c \in {0, 1} /\ e0 \in Int /\ 2 * a0 = S * c + e0
    <3>1. 2 * a0 + 0 = 2 * a0
      OBVIOUS
    <3>. QED BY <1>1, <3>1
  <2>2. d \in {0, 1} /\ e1 \in Int /\ 2 * a1 + c = S * d + e1
    BY <1>1, <2>1
  <2>. HIDE DEF c, e0, e1, d
  <2>3. S * e1 + e0 + S * S * d = S * (2 * a1) + 2 * a0
    <3>1. 2 * a0 \in Int /\ 2 * a1 \in Int /\ c \in Int /\ d \in Int
      BY <2>1, <2>2
    <3>. QED BY <1>0, <2>1, <2>2, <3>1, CarryChain
  <2>4. S * (2 * a1) + 2 * a0 = 2 * (S * a1 + a0)
    BY <1>0
  <2>. QED BY <2>3, <2>4 DEF c, e0, e1, d
<1>3. LET c == a1 % 2
      IN 2 * (S * (a1 \div 2) + (a0 \div 2 + H * c)) + (a0 % 2) = S * a1 + a0
  <2>. DEFINE c == a1 % 2
              h == a1 \div 2
              l == a0 \div 2
              e == a0 % 2
  <2>1. /\ c \in Int /\ h \in Int /\ l \in Int /\ e \in Int
        /\ a1 = 2 * h + c /\ a0 = 2 * l + e
    OBVIOUS
  <2>. HIDE DEF c, h, l, e
  <2>2. S * a1 = 2 * (S * h) + 2 * (H * c) /\ S * h \in Int /\ H * c \in Int
    BY <1>0, <2>1
  <2>3. 2 * (S * h + (l + H * c)) + e = S * a1 + a0
    BY <1>0, <2>1, <2>2
  <2>. QED BY <2>3 DEF c, h, l, e
<1>. QED BY <1>2, <1>3 DEF shift_word

------------------------------------------------------------------------------
\* The chains are words

LEMMA AddRows ==
  ASSUME NEW m \in Mach, NEW k \in {"ADD", "ADC"}, NEW d \in Reg, NEW e \in Reg
  PROVE  LET op == reg(k, 4 * d + e)
             t == m.r[d] + m.r[e] + (IF k = "ADC" THEN m.C ELSE 0)
         IN /\ t \in Int
            /\ torch_r(m, op) = [m.r EXCEPT ![d] = t % Span]
            /\ rows_C(m, op) = t \div Span
            /\ rows_V(m, op) = one(over_add(Half, m.r[d], m.r[e], t % Span))
<1>. DEFINE op == reg(k, 4 * d + e)
            a == m.r[d]
            b == m.r[e]
            c == IF k = "ADC" THEN m.C ELSE 0
            t == a + b + c
<1>1. 4 * d + e \in 0 .. 15 /\ (4 * d + e) \div 4 = d /\ (4 * d + e) % 4 = e
  BY DEF Reg
<1>2. op \in Op /\ op.kind = k /\ op.f = 4 * d + e
  BY <1>1, RegOp DEF TwoReg
<1>3. a \in Byte /\ b \in Byte /\ c \in Bit
  BY DEF Mach, Bit
<1>4. t \in Int /\ t % Span \in Byte
  BY <1>3, SumByte
<1>. HIDE DEF op, c
<1>5. s0(op) = d /\ row_x(m, op) = a /\ row_y(m, op) = b /\ row_cin(m, op) = c
  <2>1. s0(op) = d /\ s1(op) = e
    BY <1>1, <1>2 DEF s0, s1, TwoReg
  <2>2. op.kind \notin Escaped /\ op.kind \notin ImmReg
    BY <1>2 DEF Escaped, ImmReg, Relative, Pointer
  <2>. QED BY <1>2, <2>1, <2>2 DEF row_x, row_y, row_a, row_b, row_cin, c
<1>. HIDE DEF a, b
<1>6. row_sum(m, op) = t
  BY <1>5 DEF row_sum
<1>. HIDE DEF t
<1>7. rows_R_val(m, op) = t % Span /\ rows_C(m, op) = t \div Span /\ rows_R_en(op)
  BY <1>2, <1>6 DEF rows_R_val, rows_C, rows_R_en, Zeros, Sums, Difs
<1>8. torch_r(m, op) = [m.r EXCEPT ![d] = t % Span]
  BY <1>4, <1>5, <1>7, ByteKept, Zenon DEF torch_r, written
<1>9. rows_V(m, op) = one(over_add(Half, a, b, t % Span))
  <2>1. rows_V(m, op) = one(sign(a) # sign(t % Span) /\ sign(b) # sign(t % Span))
    BY <1>2, <1>5, <1>6 DEF rows_V, Sums, Difs, one
  <2>2. (sign(a) # sign(t % Span) /\ sign(b) # sign(t % Span)) <=> over_add(Half, a, b, t % Span)
    BY DEF sign, one, over_add
  <2>. QED BY <2>1, <2>2 DEF one
<1>. QED BY <1>4, <1>7, <1>8, <1>9 DEF op, t, a, b, c

LEMMA SubRows ==
  ASSUME NEW m \in Mach, NEW k \in {"SUB", "SBB"}, NEW d \in Reg, NEW e \in Reg
  PROVE  LET op == reg(k, 4 * d + e)
             t == m.r[d] - m.r[e] - (IF k = "SBB" THEN m.C ELSE 0)
         IN /\ t \in Int
            /\ torch_r(m, op) = [m.r EXCEPT ![d] = t % Span]
            /\ rows_C(m, op) = one(t < 0)
            /\ rows_V(m, op) = one(over_sub(Half, m.r[d], m.r[e], t % Span))
<1>. DEFINE op == reg(k, 4 * d + e)
            a == m.r[d]
            b == m.r[e]
            c == IF k = "SBB" THEN m.C ELSE 0
            t == a - b - c
<1>1. 4 * d + e \in 0 .. 15 /\ (4 * d + e) \div 4 = d /\ (4 * d + e) % 4 = e
  BY DEF Reg
<1>2. op \in Op /\ op.kind = k /\ op.f = 4 * d + e
  BY <1>1, RegOp DEF TwoReg
<1>3. a \in Byte /\ b \in Byte /\ c \in Bit
  BY DEF Mach, Bit
<1>4. t \in Int /\ t % Span \in Byte
  BY <1>3, DifByte
<1>. HIDE DEF op, c
<1>5. s0(op) = d /\ row_x(m, op) = a /\ row_y(m, op) = b /\ row_cin(m, op) = c
  <2>1. s0(op) = d /\ s1(op) = e
    BY <1>1, <1>2 DEF s0, s1, TwoReg
  <2>2. op.kind \notin Escaped /\ op.kind \notin ImmReg
    BY <1>2 DEF Escaped, ImmReg, Relative, Pointer
  <2>. QED BY <1>2, <2>1, <2>2 DEF row_x, row_y, row_a, row_b, row_cin, c
<1>. HIDE DEF a, b
<1>6. row_dif(m, op) = t
  BY <1>5 DEF row_dif
<1>. HIDE DEF t
<1>7. rows_R_val(m, op) = t % Span /\ rows_C(m, op) = one(t < 0) /\ rows_R_en(op)
  BY <1>2, <1>6 DEF rows_R_val, rows_C, rows_R_en, Zeros, Sums, Difs
<1>8. torch_r(m, op) = [m.r EXCEPT ![d] = t % Span]
  BY <1>4, <1>5, <1>7, ByteKept, Zenon DEF torch_r, written
<1>9. rows_V(m, op) = one(over_sub(Half, a, b, t % Span))
  <2>1. rows_V(m, op) = one(sign(a) # sign(b) /\ sign(t % Span) # sign(a))
    BY <1>2, <1>5, <1>6 DEF rows_V, Sums, Difs, one
  <2>2. (sign(a) # sign(b) /\ sign(t % Span) # sign(a)) <=> over_sub(Half, a, b, t % Span)
    BY DEF sign, one, over_sub
  <2>. QED BY <2>1, <2>2 DEF one
<1>. QED BY <1>4, <1>7, <1>8, <1>9 DEF op, t, a, b, c

LEMMA AddRow ==
  ASSUME NEW m \in Mach, NEW d \in Reg, NEW e \in Reg
  PROVE  LET op == reg("ADD", 4 * d + e)
             t == m.r[d] + m.r[e]
         IN /\ torch_r(m, op) = [m.r EXCEPT ![d] = t % Span]
            /\ rows_C(m, op) = t \div Span
            /\ rows_V(m, op) = one(over_add(Half, m.r[d], m.r[e], t % Span))
<1>. DEFINE op == reg("ADD", 4 * d + e)
            t == m.r[d] + m.r[e] + (IF "ADD" = "ADC" THEN m.C ELSE 0)
<1>1. /\ torch_r(m, op) = [m.r EXCEPT ![d] = t % Span]
      /\ rows_C(m, op) = t \div Span
      /\ rows_V(m, op) = one(over_add(Half, m.r[d], m.r[e], t % Span))
  <2>1. "ADD" \in {"ADD", "ADC"}
    OBVIOUS
  <2>. QED BY <2>1, AddRows, Zenon
<1>2. t = m.r[d] + m.r[e]
  BY ByteWidth DEF Mach, Byte
<1>. HIDE DEF t
<1>. QED BY <1>1, <1>2, Zenon

LEMMA AdcRow ==
  ASSUME NEW m \in Mach, NEW d \in Reg, NEW e \in Reg
  PROVE  LET op == reg("ADC", 4 * d + e)
             t == m.r[d] + m.r[e] + m.C
         IN /\ torch_r(m, op) = [m.r EXCEPT ![d] = t % Span]
            /\ rows_C(m, op) = t \div Span
            /\ rows_V(m, op) = one(over_add(Half, m.r[d], m.r[e], t % Span))
<1>. DEFINE op == reg("ADC", 4 * d + e)
            t == m.r[d] + m.r[e] + (IF "ADC" = "ADC" THEN m.C ELSE 0)
<1>1. /\ torch_r(m, op) = [m.r EXCEPT ![d] = t % Span]
      /\ rows_C(m, op) = t \div Span
      /\ rows_V(m, op) = one(over_add(Half, m.r[d], m.r[e], t % Span))
  <2>1. "ADC" \in {"ADD", "ADC"}
    OBVIOUS
  <2>. QED BY <2>1, AddRows, Zenon
<1>2. t = m.r[d] + m.r[e] + m.C
  BY ByteWidth DEF Mach, Byte
<1>. HIDE DEF t
<1>. QED BY <1>1, <1>2, Zenon

LEMMA SubRow ==
  ASSUME NEW m \in Mach, NEW d \in Reg, NEW e \in Reg
  PROVE  LET op == reg("SUB", 4 * d + e)
             t == m.r[d] - m.r[e]
         IN /\ torch_r(m, op) = [m.r EXCEPT ![d] = t % Span]
            /\ rows_C(m, op) = one(t < 0)
            /\ rows_V(m, op) = one(over_sub(Half, m.r[d], m.r[e], t % Span))
<1>. DEFINE op == reg("SUB", 4 * d + e)
            t == m.r[d] - m.r[e] - (IF "SUB" = "SBB" THEN m.C ELSE 0)
<1>1. /\ torch_r(m, op) = [m.r EXCEPT ![d] = t % Span]
      /\ rows_C(m, op) = one(t < 0)
      /\ rows_V(m, op) = one(over_sub(Half, m.r[d], m.r[e], t % Span))
  <2>1. "SUB" \in {"SUB", "SBB"}
    OBVIOUS
  <2>. QED BY <2>1, SubRows, Zenon
<1>2. t = m.r[d] - m.r[e]
  BY ByteWidth DEF Mach, Byte
<1>. HIDE DEF t
<1>. QED BY <1>1, <1>2, Zenon

LEMMA SbbRow ==
  ASSUME NEW m \in Mach, NEW d \in Reg, NEW e \in Reg
  PROVE  LET op == reg("SBB", 4 * d + e)
             t == m.r[d] - m.r[e] - m.C
         IN /\ torch_r(m, op) = [m.r EXCEPT ![d] = t % Span]
            /\ rows_C(m, op) = one(t < 0)
            /\ rows_V(m, op) = one(over_sub(Half, m.r[d], m.r[e], t % Span))
<1>. DEFINE op == reg("SBB", 4 * d + e)
            t == m.r[d] - m.r[e] - (IF "SBB" = "SBB" THEN m.C ELSE 0)
<1>1. /\ torch_r(m, op) = [m.r EXCEPT ![d] = t % Span]
      /\ rows_C(m, op) = one(t < 0)
      /\ rows_V(m, op) = one(over_sub(Half, m.r[d], m.r[e], t % Span))
  <2>1. "SBB" \in {"SUB", "SBB"}
    OBVIOUS
  <2>. QED BY <2>1, SubRows, Zenon
<1>2. t = m.r[d] - m.r[e] - m.C
  BY ByteWidth DEF Mach, Byte
<1>. HIDE DEF t
<1>. QED BY <1>1, <1>2, Zenon

fits_word(v) == -(Half * Span) <= v /\ v < Half * Span

LEMMA SumOfWords ==
  ASSUME NEW m \in Mach, NEW op \in Between, Room(m, op)
  PROVE  LET x == pair(m, 1, 0)
             y == pair(m, 3, 2)
             sum == then(m, reg("ADD", 2), op, reg("ADC", 7))
         IN /\ pair(sum, 1, 0) + Span * Span * sum.C = x + y
            /\ sum.V = one(~fits_word(signed_word(x) + signed_word(y)))
<1>. DEFINE op1 == reg("ADD", 2)
            op3 == reg("ADC", 7)
            sum == then(m, op1, op, op3)
            a0 == m.r[0]
            a1 == m.r[1]
            b0 == m.r[2]
            b1 == m.r[3]
            t0 == a0 + b0
            t1 == a1 + b1 + (t0 \div Span)
<1>1. PICK x \in Mach, z \in Mach :
           /\ x.r = torch_r(m, op1) /\ x.C = rows_C(m, op1)
           /\ z.r = x.r /\ z.C = x.C
           /\ sum.r = torch_r(z, op3) /\ sum.C = rows_C(z, op3) /\ sum.V = rows_V(z, op3)
  <2>1. chained(m, reg("ADD", 2), op, reg("ADC", 7))
    <3>1. /\ "ADD" \in (TwoReg \cup OneReg) \ {"DIV", "MOD"}
          /\ "ADC" \in (TwoReg \cup OneReg) \ {"DIV", "MOD"}
          /\ 2 \in 0 .. 15 /\ 7 \in 0 .. 15
      BY DEF TwoReg
    <3>. QED BY <3>1, Chain
  <2>. QED BY <2>1, Zenon DEF chained
<1>2. 0 \in Reg /\ 1 \in Reg /\ 2 \in Reg /\ 3 \in Reg
  BY DEF Reg
<1>3. m.r \in [Reg -> Byte] /\ a0 \in Byte /\ a1 \in Byte /\ b0 \in Byte /\ b1 \in Byte
  BY <1>2 DEF Mach
<1>4. x.r = [m.r EXCEPT ![0] = t0 % Span] /\ x.C = t0 \div Span
  <2>1. 4 * 0 + 2 = 2
    OBVIOUS
  <2>2. /\ torch_r(m, reg("ADD", 4 * 0 + 2)) = [m.r EXCEPT ![0] = t0 % Span]
        /\ rows_C(m, reg("ADD", 4 * 0 + 2)) = t0 \div Span
    BY <1>2, AddRow, Zenon
  <2>. QED BY <1>1, <2>1, <2>2, Zenon
<1>. HIDE DEF op1, op3, sum
<1>5. /\ z.r[0] = t0 % Span /\ z.r[1] = a1 /\ z.r[3] = b1
      /\ z.C = t0 \div Span
  BY <1>1, <1>2, <1>3, <1>4
<1>6. /\ sum.r = [z.r EXCEPT ![1] = t1 % Span] /\ sum.C = t1 \div Span
      /\ sum.V = one(over_add(Half, a1, b1, t1 % Span))
  <2>1. 4 * 1 + 3 = 7
    OBVIOUS
  <2>2. z.r[1] + z.r[3] + z.C = t1
    BY <1>5
  <2>3. /\ torch_r(z, reg("ADC", 4 * 1 + 3)) = [z.r EXCEPT ![1] = (z.r[1] + z.r[3] + z.C) % Span]
        /\ rows_C(z, reg("ADC", 4 * 1 + 3)) = (z.r[1] + z.r[3] + z.C) \div Span
        /\ rows_V(z, reg("ADC", 4 * 1 + 3)) =
             one(over_add(Half, z.r[1], z.r[3], (z.r[1] + z.r[3] + z.C) % Span))
    BY <1>2, AdcRow, Zenon
  <2>. HIDE DEF t1, a1, b1
  <2>. QED BY <1>1, <1>5, <2>1, <2>2, <2>3 DEF op3
<1>7. sum.r[1] = t1 % Span /\ sum.r[0] = t0 % Span
  <2>1. z.r \in [Reg -> Byte]
    BY DEF Mach
  <2>. HIDE DEF t0, t1
  <2>. QED BY <1>2, <1>5, <1>6, <2>1
<1>. DEFINE u == Span * a1 + a0
            w == Span * b1 + b0
            f == (u - Span * Span * (u \div (Half * Span))) + (w - Span * Span * (w \div (Half * Span)))
<1>8. /\ Span * (t1 % Span) + (t0 % Span) + Span * Span * (t1 \div Span) = u + w
      /\ over_add(Half, a1, b1, t1 % Span) <=> ~(-(Half * Span) <= f /\ f < Half * Span)
  <2>1. Half \in Nat \ {0} /\ Span = 2 * Half
    BY ByteWidth
  <2>2. /\ a0 \in 0 .. Span - 1 /\ a1 \in 0 .. Span - 1
        /\ b0 \in 0 .. Span - 1 /\ b1 \in 0 .. Span - 1
    BY <1>3 DEF Byte
  <2>. HIDE DEF a0, a1, b0, b1
  <2>3. sum_word(Half, Span, a0, a1, b0, b1)
    BY <2>1, <2>2, SumWord
  <2>. QED BY <2>3, Zenon DEF sum_word
<1>9. pair(m, 1, 0) = u /\ pair(m, 3, 2) = w /\ f = signed_word(u) + signed_word(w)
  BY Zenon DEF pair, signed_word
<1>10. pair(sum, 1, 0) + Span * Span * sum.C = u + w
  <2>1. pair(sum, 1, 0) = Span * (t1 % Span) + (t0 % Span)
    BY <1>7, Zenon DEF pair
  <2>. QED BY <1>6, <1>8, <2>1, Zenon
<1>11. sum.V = one(~fits_word(f))
  <2>. HIDE DEF t1, f
  <2>. QED BY <1>6, <1>8 DEF one, fits_word
<1>. HIDE DEF u, w, f
<1>. QED BY <1>9, <1>10, <1>11, Zenon DEF sum, op1, op3

LEMMA DifOfWords ==
  ASSUME NEW m \in Mach, NEW op \in Between, Room(m, op)
  PROVE  LET x == pair(m, 1, 0)
             y == pair(m, 3, 2)
             dif == then(m, reg("SUB", 2), op, reg("SBB", 7))
         IN /\ pair(dif, 1, 0) - Span * Span * dif.C = x - y
            /\ dif.V = one(~fits_word(signed_word(x) - signed_word(y)))
<1>. DEFINE op1 == reg("SUB", 2)
            op3 == reg("SBB", 7)
            dif == then(m, op1, op, op3)
            a0 == m.r[0]
            a1 == m.r[1]
            b0 == m.r[2]
            b1 == m.r[3]
            t0 == a0 - b0
            c0 == IF t0 < 0 THEN 1 ELSE 0
            t1 == a1 - b1 - c0
            c1 == IF t1 < 0 THEN 1 ELSE 0
<1>1. PICK x \in Mach, z \in Mach :
           /\ x.r = torch_r(m, op1) /\ x.C = rows_C(m, op1)
           /\ z.r = x.r /\ z.C = x.C
           /\ dif.r = torch_r(z, op3) /\ dif.C = rows_C(z, op3) /\ dif.V = rows_V(z, op3)
  <2>1. chained(m, reg("SUB", 2), op, reg("SBB", 7))
    <3>1. /\ "SUB" \in (TwoReg \cup OneReg) \ {"DIV", "MOD"}
          /\ "SBB" \in (TwoReg \cup OneReg) \ {"DIV", "MOD"}
          /\ 2 \in 0 .. 15 /\ 7 \in 0 .. 15
      BY DEF TwoReg
    <3>. QED BY <3>1, Chain
  <2>. QED BY <2>1, Zenon DEF chained
<1>2. 0 \in Reg /\ 1 \in Reg /\ 2 \in Reg /\ 3 \in Reg
  BY DEF Reg
<1>3. m.r \in [Reg -> Byte] /\ a0 \in Byte /\ a1 \in Byte /\ b0 \in Byte /\ b1 \in Byte
  BY <1>2 DEF Mach
<1>4. x.r = [m.r EXCEPT ![0] = t0 % Span] /\ x.C = c0
  <2>1. 4 * 0 + 2 = 2
    OBVIOUS
  <2>2. /\ torch_r(m, reg("SUB", 4 * 0 + 2)) = [m.r EXCEPT ![0] = t0 % Span]
        /\ rows_C(m, reg("SUB", 4 * 0 + 2)) = one(t0 < 0)
        /\ rows_V(m, reg("SUB", 4 * 0 + 2)) = one(over_sub(Half, a0, b0, t0 % Span))
    BY <1>2, SubRow, Zenon
  <2>. QED BY <1>1, <2>1, <2>2, Zenon DEF one
<1>. HIDE DEF op1, op3, dif
<1>5. /\ z.r[0] = t0 % Span /\ z.r[1] = a1 /\ z.r[3] = b1
      /\ z.C = c0
  BY <1>1, <1>2, <1>3, <1>4
<1>6. /\ dif.r = [z.r EXCEPT ![1] = t1 % Span] /\ dif.C = c1
      /\ dif.V = one(over_sub(Half, a1, b1, t1 % Span))
  <2>1. 4 * 1 + 3 = 7
    OBVIOUS
  <2>2. z.r[1] - z.r[3] - z.C = t1
    BY <1>5
  <2>3. /\ torch_r(z, reg("SBB", 4 * 1 + 3)) = [z.r EXCEPT ![1] = (z.r[1] - z.r[3] - z.C) % Span]
        /\ rows_C(z, reg("SBB", 4 * 1 + 3)) = one((z.r[1] - z.r[3] - z.C) < 0)
        /\ rows_V(z, reg("SBB", 4 * 1 + 3)) =
             one(over_sub(Half, z.r[1], z.r[3], (z.r[1] - z.r[3] - z.C) % Span))
    BY <1>2, SbbRow, Zenon
  <2>. HIDE DEF t1, a1, b1
  <2>. QED BY <1>1, <1>5, <2>1, <2>2, <2>3 DEF op3, one
<1>7. dif.r[1] = t1 % Span /\ dif.r[0] = t0 % Span
  <2>1. z.r \in [Reg -> Byte]
    BY DEF Mach
  <2>. HIDE DEF t0, t1
  <2>. QED BY <1>2, <1>5, <1>6, <2>1
<1>. DEFINE u == Span * a1 + a0
            w == Span * b1 + b0
            f == (u - Span * Span * (u \div (Half * Span))) - (w - Span * Span * (w \div (Half * Span)))
<1>8. /\ (Span * (t1 % Span) + (t0 % Span)) - Span * Span * c1 = u - w
      /\ over_sub(Half, a1, b1, t1 % Span) <=> ~(-(Half * Span) <= f /\ f < Half * Span)
  <2>1. Half \in Nat \ {0} /\ Span = 2 * Half
    BY ByteWidth
  <2>2. /\ a0 \in 0 .. Span - 1 /\ a1 \in 0 .. Span - 1
        /\ b0 \in 0 .. Span - 1 /\ b1 \in 0 .. Span - 1
    BY <1>3 DEF Byte
  <2>. HIDE DEF a0, a1, b0, b1
  <2>3. dif_word(Half, Span, a0, a1, b0, b1)
    BY <2>1, <2>2, DifWord
  <2>. QED BY <2>3, Zenon DEF dif_word
<1>9. pair(m, 1, 0) = u /\ pair(m, 3, 2) = w /\ f = signed_word(u) - signed_word(w)
  BY Zenon DEF pair, signed_word
<1>10. pair(dif, 1, 0) - Span * Span * dif.C = u - w
  <2>1. pair(dif, 1, 0) = Span * (t1 % Span) + (t0 % Span)
    BY <1>7, Zenon DEF pair
  <2>. HIDE DEF c1, t1, t0, u, w
  <2>. QED BY <1>6, <1>8, <2>1, Zenon
<1>11. dif.V = one(~fits_word(f))
  <2>. HIDE DEF t1, f
  <2>. QED BY <1>6, <1>8 DEF one, fits_word
<1>. HIDE DEF u, w, f
<1>. QED BY <1>9, <1>10, <1>11, Zenon DEF dif, op1, op3

LEMMA ShiftRows ==
  ASSUME NEW m \in Mach, NEW k \in {"SHL", "SHR", "ROL", "ROR"}, NEW d \in Reg
  PROVE  LET op == reg(k, d)
             a == m.r[d]
             v == CASE k = "SHL" -> (2 * a) % Span
                    [] k = "ROL" -> (2 * a + m.C) % Span
                    [] k = "SHR" -> a \div 2
                    [] k = "ROR" -> a \div 2 + Half * m.C
         IN /\ torch_r(m, op) = [m.r EXCEPT ![d] = v]
            /\ rows_C(m, op) = IF k \in {"SHL", "ROL"} THEN a \div Half ELSE a % 2
<1>. DEFINE op == reg(k, d)
            a == m.r[d]
            v == CASE k = "SHL" -> (2 * a) % Span
                   [] k = "ROL" -> (2 * a + m.C) % Span
                   [] k = "SHR" -> a \div 2
                   [] k = "ROR" -> a \div 2 + Half * m.C
<1>1. d \in 0 .. 15 /\ d % 4 = d
  BY DEF Reg
<1>2. op \in Op /\ op.kind = k /\ op.f = d
  BY <1>1, RegOp DEF OneReg
<1>3. a \in Byte /\ m.C \in Bit
  BY DEF Mach
<1>4. v \in Byte
  BY <1>3, Shifts
<1>. HIDE DEF op
<1>5. s0(op) = d /\ row_rr(m, op) = a /\ rows_R_en(op)
  BY <1>1, <1>2 DEF s0, TwoReg, row_rr, rows_R_en, Zeros
<1>. HIDE DEF a
<1>6. rows_R_val(m, op) = v
  BY <1>2, <1>5 DEF rows_R_val, Sums, Difs
<1>7. rows_C(m, op) = IF k \in {"SHL", "ROL"} THEN a \div Half ELSE a % 2
  BY <1>2, <1>5 DEF rows_C, Sums, Difs
<1>. HIDE DEF v
<1>8. torch_r(m, op) = [m.r EXCEPT ![d] = v]
  BY <1>4, <1>5, <1>6, ByteKept, Zenon DEF torch_r, written
<1>. QED BY <1>7, <1>8 DEF op, v, a

LEMMA ShlRow ==
  ASSUME NEW m \in Mach, NEW d \in Reg
  PROVE  LET op == reg("SHL", d)
             a == m.r[d]
         IN torch_r(m, op) = [m.r EXCEPT ![d] = (2 * a) % Span] /\ rows_C(m, op) = a \div Half
BY ShiftRows

LEMMA RolRow ==
  ASSUME NEW m \in Mach, NEW d \in Reg
  PROVE  LET op == reg("ROL", d)
             a == m.r[d]
         IN torch_r(m, op) = [m.r EXCEPT ![d] = (2 * a + m.C) % Span] /\ rows_C(m, op) = a \div Half
BY ShiftRows

LEMMA ShrRow ==
  ASSUME NEW m \in Mach, NEW d \in Reg
  PROVE  LET op == reg("SHR", d)
             a == m.r[d]
         IN torch_r(m, op) = [m.r EXCEPT ![d] = a \div 2] /\ rows_C(m, op) = a % 2
BY ShiftRows

LEMMA RorRow ==
  ASSUME NEW m \in Mach, NEW d \in Reg
  PROVE  LET op == reg("ROR", d)
             a == m.r[d]
         IN torch_r(m, op) = [m.r EXCEPT ![d] = a \div 2 + Half * m.C] /\ rows_C(m, op) = a % 2
BY ShiftRows

LEMMA LeftShift ==
  ASSUME NEW m \in Mach, NEW op \in Between, Room(m, op)
  PROVE  LET x == pair(m, 1, 0)
             left == then(m, reg("SHL", 0), op, reg("ROL", 1))
         IN pair(left, 1, 0) + Span * Span * left.C = 2 * x
<1>. DEFINE op1 == reg("SHL", 0)
            op3 == reg("ROL", 1)
            left == then(m, op1, op, op3)
            a0 == m.r[0]
            a1 == m.r[1]
            c == a0 \div Half
<1>1. PICK x \in Mach, z \in Mach :
           /\ x.r = torch_r(m, op1) /\ x.C = rows_C(m, op1)
           /\ z.r = x.r /\ z.C = x.C
           /\ left.r = torch_r(z, op3) /\ left.C = rows_C(z, op3)
  <2>1. chained(m, reg("SHL", 0), op, reg("ROL", 1))
    <3>1. /\ "SHL" \in (TwoReg \cup OneReg) \ {"DIV", "MOD"}
          /\ "ROL" \in (TwoReg \cup OneReg) \ {"DIV", "MOD"}
          /\ 0 \in 0 .. 15 /\ 1 \in 0 .. 15
      BY DEF OneReg
    <3>. QED BY <3>1, Chain
  <2>. QED BY <2>1, Zenon DEF chained
<1>2. 0 \in Reg /\ 1 \in Reg
  BY DEF Reg
<1>3. m.r \in [Reg -> Byte] /\ a0 \in Byte /\ a1 \in Byte
  BY <1>2 DEF Mach
<1>4. x.r = [m.r EXCEPT ![0] = (2 * a0) % Span] /\ x.C = c
  BY <1>1, <1>2, ShlRow, Zenon
<1>5. left.r = [z.r EXCEPT ![1] = (2 * z.r[1] + z.C) % Span] /\ left.C = z.r[1] \div Half
  BY <1>1, <1>2, RolRow, Zenon
<1>. HIDE DEF op1, op3, left
<1>6. z.r[0] = (2 * a0) % Span /\ z.r[1] = a1 /\ z.C = c
  BY <1>1, <1>2, <1>3, <1>4
<1>7. left.r[1] = (2 * a1 + c) % Span /\ left.r[0] = (2 * a0) % Span /\ left.C = a1 \div Half
  <2>1. z.r \in [Reg -> Byte]
    BY DEF Mach
  <2>. HIDE DEF a0, a1, c
  <2>. QED BY <1>2, <1>5, <1>6, <2>1
<1>8. Span * ((2 * a1 + c) % Span) + ((2 * a0) % Span) + Span * Span * (a1 \div Half) = 2 * (Span * a1 + a0)
  <2>1. Half \in Nat \ {0} /\ Span = 2 * Half
    BY ByteWidth
  <2>2. a0 \in 0 .. Span - 1 /\ a1 \in 0 .. Span - 1
    BY <1>3 DEF Byte
  <2>. HIDE DEF a0, a1
  <2>3. shift_word(Half, Span, a0, a1)
    BY <2>1, <2>2, ShiftWord
  <2>. QED BY <2>3, Zenon DEF shift_word
<1>9. pair(left, 1, 0) + Span * Span * left.C = 2 * (Span * a1 + a0)
  BY <1>7, <1>8, Zenon DEF pair
<1>10. pair(m, 1, 0) = Span * a1 + a0
  BY Zenon DEF pair
<1>. QED BY <1>9, <1>10, Zenon DEF left, op1, op3

LEMMA RightShift ==
  ASSUME NEW m \in Mach, NEW op \in Between, Room(m, op)
  PROVE  LET x == pair(m, 1, 0)
             right == then(m, reg("SHR", 1), op, reg("ROR", 0))
         IN 2 * pair(right, 1, 0) + right.C = x
<1>. DEFINE op1 == reg("SHR", 1)
            op3 == reg("ROR", 0)
            right == then(m, op1, op, op3)
            a0 == m.r[0]
            a1 == m.r[1]
            c == a1 % 2
<1>1. PICK x \in Mach, z \in Mach :
           /\ x.r = torch_r(m, op1) /\ x.C = rows_C(m, op1)
           /\ z.r = x.r /\ z.C = x.C
           /\ right.r = torch_r(z, op3) /\ right.C = rows_C(z, op3)
  <2>1. chained(m, reg("SHR", 1), op, reg("ROR", 0))
    <3>1. /\ "SHR" \in (TwoReg \cup OneReg) \ {"DIV", "MOD"}
          /\ "ROR" \in (TwoReg \cup OneReg) \ {"DIV", "MOD"}
          /\ 0 \in 0 .. 15 /\ 1 \in 0 .. 15
      BY DEF OneReg
    <3>. QED BY <3>1, Chain
  <2>. QED BY <2>1, Zenon DEF chained
<1>2. 0 \in Reg /\ 1 \in Reg
  BY DEF Reg
<1>3. m.r \in [Reg -> Byte] /\ a0 \in Byte /\ a1 \in Byte
  BY <1>2 DEF Mach
<1>4. x.r = [m.r EXCEPT ![1] = a1 \div 2] /\ x.C = c
  BY <1>1, <1>2, ShrRow, Zenon
<1>5. right.r = [z.r EXCEPT ![0] = z.r[0] \div 2 + Half * z.C] /\ right.C = z.r[0] % 2
  BY <1>1, <1>2, RorRow, Zenon
<1>. HIDE DEF op1, op3, right
<1>6. z.r[1] = a1 \div 2 /\ z.r[0] = a0 /\ z.C = c
  BY <1>1, <1>2, <1>3, <1>4
<1>7. right.r[0] = a0 \div 2 + Half * c /\ right.r[1] = a1 \div 2 /\ right.C = a0 % 2
  <2>1. z.r \in [Reg -> Byte]
    BY DEF Mach
  <2>. HIDE DEF a0, a1, c
  <2>. QED BY <1>2, <1>5, <1>6, <2>1
<1>8. 2 * (Span * (a1 \div 2) + (a0 \div 2 + Half * c)) + (a0 % 2) = Span * a1 + a0
  <2>1. Half \in Nat \ {0} /\ Span = 2 * Half
    BY ByteWidth
  <2>2. a0 \in 0 .. Span - 1 /\ a1 \in 0 .. Span - 1
    BY <1>3 DEF Byte
  <2>. HIDE DEF a0, a1
  <2>3. shift_word(Half, Span, a0, a1)
    BY <2>1, <2>2, ShiftWord
  <2>. QED BY <2>3, Zenon DEF shift_word
<1>9. 2 * pair(right, 1, 0) + right.C = Span * a1 + a0
  BY <1>7, <1>8, Zenon DEF pair
<1>10. pair(m, 1, 0) = Span * a1 + a0
  BY Zenon DEF pair
<1>. QED BY <1>9, <1>10, Zenon DEF right, op1, op3

\* A chain of byte instructions is the word instruction, in every state and with
\* any instruction of Between standing inside: the sum and the difference of two
\* words with their carry and signed overflow, and both shifts of a word.
THEOREM ChainsAreWords == Spec => []WordChains
<1>1. TypeOK => WordChains
  <2>. SUFFICES ASSUME TypeOK, NEW op \in Between,
                       mach.status = "RUNNING", mach.PC + 2 + op.len <= CodeLen
                PROVE  LET x == pair(mach, 1, 0)
                           y == pair(mach, 3, 2)
                           sum == then(mach, reg("ADD", 2), op, reg("ADC", 7))
                           dif == then(mach, reg("SUB", 2), op, reg("SBB", 7))
                           left == then(mach, reg("SHL", 0), op, reg("ROL", 1))
                           right == then(mach, reg("SHR", 1), op, reg("ROR", 0))
                       IN /\ pair(sum, 1, 0) + Span * Span * sum.C = x + y
                          /\ sum.V = one(~fits_word(signed_word(x) + signed_word(y)))
                          /\ pair(dif, 1, 0) - Span * Span * dif.C = x - y
                          /\ dif.V = one(~fits_word(signed_word(x) - signed_word(y)))
                          /\ pair(left, 1, 0) + Span * Span * left.C = 2 * x
                          /\ 2 * pair(right, 1, 0) + right.C = x
    BY Zenon DEF WordChains, fits_word
  <2>1. mach \in Mach /\ Room(mach, op)
    BY DEF TypeOK, Room
  <2>. QED BY <2>1, SumOfWords, DifOfWords, LeftShift, RightShift, Zenon
<1>. QED BY <1>1, TypeCorrect, PTL

\* After CMP the flags order the operands, as bytes and as signed bytes, in
\* every machine of every width: each of the three tests a program can make
\* after golden_sim.py's CMP says what it is read as saying.
THEOREM CompareOrders == Spec => []SignedOrder
<1>1. TypeOK => SignedOrder
  BY FlagsOrder DEF TypeOK
<1>. QED BY <1>1, TypeCorrect, PTL
=============================================================================
