--------------------------------- MODULE Alu ---------------------------------
(***************************************************************************)
(* What the register instructions compute: one tick of an instruction that *)
(* touches no memory, on the three paths.  Circuit has the control of a    *)
(* tick and leaves the values open; here the values are the matter.        *)
(*                                                                         *)
(* The reference (src/golden_sim.py NCP8._step_inner) computes one         *)
(* instruction in Python integers.  The masked circuit                     *)
(* (src/circuit_torch.py TorchCircuit.step) computes every instruction,    *)
(* selects one row and masks it at the register port.  The kernel          *)
(* (src/circuit_triton.py _tick) branches, and writes C through a latch of *)
(* its own, C_WR and C_NEW, merged after the branch.                       *)
(*                                                                         *)
(* A byte has ByteBits bits and a word has two bytes, whatever ByteBits.   *)
(***************************************************************************)
EXTENDS Integers, Sequences

CONSTANTS
  ByteBits,    \* bits of a register
  CodeLen,     \* bytes of CODE
  Inputs,      \* the input stream, a sequence of Byte
  Program,     \* the instructions a tick may execute, a subset of Op
  Starts,      \* the machines a run may start from, a subset of Mach
  MaxTicks     \* bound on the ticks of a run

\* What bit i of a number counts.
weight[i \in Nat] == IF i = 0 THEN 1 ELSE 2 * weight[i - 1]

Half == weight[ByteBits - 1]     \* weight of the sign bit
Span == 2 * Half
Byte == 0 .. Span - 1
Word == 0 .. Span * Span - 1
Bit  == {0, 1}
Reg  == 0 .. 3

\* Instructions by operand: two registers, one register, one register and an
\* immediate byte, a pointer and an immediate, an absolute and a relative branch.
TwoReg  == {"ADD", "SUB", "ADC", "SBB", "MOV", "AND", "OR", "XOR", "MUL", "MULH",
            "DIV", "MOD", "CMP"}
OneReg  == {"NOT", "NEG", "ROL", "ROR", "SHL", "SHR", "TST", "IN",
            "GETPC", "GETSP", "GETF"}
ImmReg  == {"LDI", "ADDI", "SUBI", "ADCI"}
Pointer == {"INC_HL", "DEC_HL", "INC_DE", "MOVW_HL_DE", "MOVW_DE_HL", "MOVW_HL_SP",
            "MOVW_DE_SP", "ADD_HLDE", "SUB_HLDE", "XCHG", "MOV_MB_HL", "MOV_HL_MB"}
PtrReg  == {"ADDI_HL", "ADDI_DE"}
Branch  == {"JZ", "JNZ", "JC", "JNC", "JS", "JNS", "VS", "VC", "DJNZ"}

\* f is the low nibble of the code point, where the register fields are; imm the
\* operand byte and to the target a branch would take.
Op == [kind : TwoReg \cup OneReg \cup ImmReg \cup Pointer \cup PtrReg \cup Branch
                \cup {"NOP", "CLC"},
       f : 0 .. 15, imm : Byte, to : Word, len : 1 .. 3]

Mach == [r : [Reg -> Byte], HL : Word, DE : Word, MB : Word, SP : Word, PC : Word,
         C : Bit, Z : Bit, S : Bit, V : Bit, ipos : 0 .. Len(Inputs),
         status : {"RUNNING", "ERROR"}]

ASSUME AluAssumption ==
  /\ ByteBits \in Nat \ {0}
  /\ CodeLen \in Word
  /\ Inputs \in Seq(Byte)
  /\ Program \subseteq Op
  /\ Starts \subseteq Mach
  /\ MaxTicks \in Nat

------------------------------------------------------------------------------
\* The ROM and what the paths share

\* The register an instruction writes and the other one it reads.
s0(op) == IF op.kind \in TwoReg THEN op.f \div 4 ELSE op.f % 4
s1(op) == op.f % 4

one(b)  == IF b THEN 1 ELSE 0
zero(v) == one(v = 0)
sign(v) == one(v >= Half)

\* The flags an instruction may move; none for the others.
FLAG_WRITES(kind) ==
  CASE kind \in {"ADD", "ADC", "SUB", "SBB", "ADDI", "SUBI", "ADCI", "CMP"} ->
         {"C", "Z", "S", "V"}
    [] kind = "NEG" -> {"C", "Z", "S"}
    [] kind \in {"MUL", "ROL", "ROR", "SHL", "SHR"} -> {"C", "Z"}
    [] kind \in {"AND", "OR", "XOR", "MULH", "DIV", "MOD", "NOT", "TST"} -> {"Z"}
    [] kind \in {"CLC", "ADD_HLDE", "SUB_HLDE", "IN"} -> {"C"}
    [] OTHER -> {}

flags_byte(m) == (m.Z + 2 * m.C + 4 * m.S + 8 * m.V) % Span

\* The byte whose every bit is P of the bits of a and b.
bit_at(i, a) == (a \div weight[i]) % 2
bitwise(P(_, _), a, b) ==
  CHOOSE v \in Byte :
    \A i \in 0 .. ByteBits - 1 :
      bit_at(i, v) = one(P(bit_at(i, a) = 1, bit_at(i, b) = 1))
band(a, b) == bitwise(LAMBDA p, q : p /\ q, a, b)
bor(a, b)  == bitwise(LAMBDA p, q : p \/ q, a, b)
bxor(a, b) == bitwise(LAMBDA p, q : p # q, a, b)

stopped(m) == [m EXCEPT !.status = "ERROR"]

------------------------------------------------------------------------------
\* The reference

_overflow_add(a, b, v) == one(sign(a) # sign(v) /\ sign(b) # sign(v))
_overflow_sub(a, b, v) == one(sign(a) # sign(b) /\ sign(v) # sign(a))

\* r[d] becomes v, and Z says whether that is zero.
leaves(m, d, v) == [m EXCEPT !.r[d] = v, !.Z = zero(v)]

\* Slip: the carry that comes in is dropped from the carry that goes out.
adds_CarryIn(m, d, b, c) ==
  LET a == m.r[d]
      v == (a + b + c) % Span
  IN [leaves(m, d, v) EXCEPT !.C = (a + b) \div Span, !.S = sign(v),
                             !.V = _overflow_add(a, b, v)]

adds(m, d, b, c) ==
  LET a == m.r[d]
      v == (a + b + c) % Span
  IN [leaves(m, d, v) EXCEPT !.C = (a + b + c) \div Span, !.S = sign(v),
                             !.V = _overflow_add(a, b, v)]

subs(m, d, b, c) ==
  LET a == m.r[d]
      v == (a - b - c) % Span
  IN [leaves(m, d, v) EXCEPT !.C = one(a - b - c < 0), !.S = sign(v),
                             !.V = _overflow_sub(a, b, v)]

\* Slip: V is taken as an addition's.
compares_AddOverflow(m, a, b) ==
  LET v == (a - b) % Span
  IN [m EXCEPT !.Z = one(a = b), !.C = one(a < b), !.S = sign(v),
               !.V = _overflow_add(a, b, v)]

compares(m, a, b) ==
  LET v == (a - b) % Span
  IN [m EXCEPT !.Z = one(a = b), !.C = one(a < b), !.S = sign(v),
               !.V = _overflow_sub(a, b, v)]

\* The register result and the flags of an instruction on registers.
ref_registers(m, op) ==
  LET d == s0(op)
      a == m.r[d]
      b == m.r[s1(op)]
  IN
  CASE op.kind = "ADD" -> adds(m, d, b, 0)
    [] op.kind = "ADC" -> adds(m, d, b, m.C)
    [] op.kind = "SUB" -> subs(m, d, b, 0)
    [] op.kind = "SBB" -> subs(m, d, b, m.C)
    [] op.kind = "MOV" -> [m EXCEPT !.r[d] = b]
    [] op.kind = "AND" -> leaves(m, d, band(a, b))
    [] op.kind = "OR"  -> leaves(m, d, bor(a, b))
    [] op.kind = "XOR" -> leaves(m, d, bxor(a, b))
    [] op.kind = "MUL" -> [leaves(m, d, (a * b) % Span) EXCEPT !.C = one(a * b >= Span)]
    [] op.kind = "MULH" -> leaves(m, d, (a * b) \div Span)
    [] op.kind \in {"DIV", "MOD"} ->
         IF b = 0 THEN stopped(m)
         ELSE leaves(m, d, IF op.kind = "DIV" THEN a \div b ELSE a % b)
    [] op.kind = "CMP" -> compares(m, a, b)
    [] op.kind = "NOT" -> leaves(m, d, Span - 1 - a)
    [] op.kind = "NEG" -> LET v == (-a) % Span
                          IN [leaves(m, d, v) EXCEPT !.C = one(a # 0), !.S = sign(v)]
    [] op.kind = "ROL" -> [leaves(m, d, (2 * a + m.C) % Span) EXCEPT !.C = a \div Half]
    [] op.kind = "ROR" -> [leaves(m, d, a \div 2 + Half * m.C) EXCEPT !.C = a % 2]
    [] op.kind = "SHL" -> [leaves(m, d, (2 * a) % Span) EXCEPT !.C = a \div Half]
    [] op.kind = "SHR" -> [leaves(m, d, a \div 2) EXCEPT !.C = a % 2]
    [] op.kind = "TST" -> [m EXCEPT !.Z = zero(a)]
    [] op.kind = "IN"  -> IF m.ipos < Len(Inputs)
                          THEN [m EXCEPT !.r[d] = Inputs[m.ipos + 1], !.ipos = @ + 1]
                          ELSE [m EXCEPT !.r[d] = 0, !.C = 1]
    [] op.kind = "GETPC" -> [m EXCEPT !.r[d] = (m.PC - op.len) % Span]
    [] op.kind = "GETSP" -> [m EXCEPT !.r[d] = m.SP % Span]
    [] op.kind = "GETF"  -> [m EXCEPT !.r[d] = flags_byte(m)]
    [] op.kind = "LDI"   -> [m EXCEPT !.r[d] = op.imm]
    [] op.kind = "ADDI"  -> adds(m, d, op.imm, 0)
    [] op.kind = "SUBI"  -> subs(m, d, op.imm, 0)
    [] op.kind = "ADCI"  -> adds(m, d, op.imm, m.C)
    [] op.kind = "CLC"   -> [m EXCEPT !.C = 0]
    [] OTHER -> m

wide(v) == v % (Span * Span)

ref_pointers(m, op) ==
  CASE op.kind = "INC_HL" -> [m EXCEPT !.HL = wide(@ + 1)]
    [] op.kind = "DEC_HL" -> [m EXCEPT !.HL = wide(@ - 1)]
    [] op.kind = "INC_DE" -> [m EXCEPT !.DE = wide(@ + 1)]
    [] op.kind = "ADDI_HL" -> [m EXCEPT !.HL = wide(@ + m.r[op.imm % 4])]
    [] op.kind = "ADDI_DE" -> [m EXCEPT !.DE = wide(@ + m.r[op.imm % 4])]
    [] op.kind = "MOVW_HL_DE" -> [m EXCEPT !.HL = m.DE]
    [] op.kind = "MOVW_DE_HL" -> [m EXCEPT !.DE = m.HL]
    [] op.kind = "MOVW_HL_SP" -> [m EXCEPT !.HL = m.SP]
    [] op.kind = "MOVW_DE_SP" -> [m EXCEPT !.DE = m.SP]
    [] op.kind = "ADD_HLDE" -> [m EXCEPT !.HL = wide(m.HL + m.DE),
                                         !.C = (m.HL + m.DE) \div (Span * Span)]
    [] op.kind = "SUB_HLDE" -> [m EXCEPT !.HL = wide(m.HL - m.DE), !.C = one(m.HL < m.DE)]
    [] op.kind = "XCHG" -> [m EXCEPT !.HL = m.DE, !.DE = m.HL]
    [] op.kind = "MOV_MB_HL" -> [m EXCEPT !.MB = m.HL]
    [] op.kind = "MOV_HL_MB" -> [m EXCEPT !.HL = m.MB]
    [] OTHER -> m

\* Does the branch go?  DJNZ looks at the register it is about to write.
taken(m, op) ==
  CASE op.kind = "JZ" -> m.Z = 1
    [] op.kind = "JNZ" -> m.Z = 0
    [] op.kind = "JC" -> m.C = 1
    [] op.kind = "JNC" -> m.C = 0
    [] op.kind = "JS" -> m.S = 1
    [] op.kind = "JNS" -> m.S = 0
    [] op.kind = "VS" -> m.V = 1
    [] op.kind = "VC" -> m.V = 0
    [] op.kind = "DJNZ" -> (m.r[s0(op)] - 1) % Span # 0

Relative == {"JS", "JNS", "VS", "VC"}

\* An operand byte as a signed number.
signed(v) == v - Span * (v \div Half)

\* m has passed the instruction's bytes already.
target(m, op) == IF op.kind \in Relative THEN wide(m.PC + signed(op.imm)) ELSE op.to

ref_branch(m, op) ==
  LET n == IF op.kind = "DJNZ" THEN [m EXCEPT !.r[s0(op)] = (@ - 1) % Span] ELSE m
  IN IF ~taken(m, op) THEN n
     ELSE IF target(m, op) >= CodeLen THEN stopped(m)
     ELSE [n EXCEPT !.PC = target(m, op)]

\* One tick.  A fault puts everything back but the status.
RefTick(m, op) ==
  LET past == [m EXCEPT !.PC = @ + op.len]
      done == IF op.kind \in Branch THEN ref_branch(past, op)
              ELSE IF op.kind \in Pointer \cup PtrReg THEN ref_pointers(past, op)
              ELSE ref_registers(past, op)
  IN IF m.status # "RUNNING" THEN m
     ELSE IF m.PC + op.len > CodeLen THEN stopped(m)
     ELSE IF done.status = "ERROR" THEN stopped(m)
     ELSE done

------------------------------------------------------------------------------
\* The masked circuit

Escaped == {"DIV", "MOD", "CMP", "MULH", "NOT", "NEG", "ROL", "ROR"}
             \cup (Pointer \ {"INC_HL", "DEC_HL", "INC_DE"}) \cup Relative

\* The operands every row is computed from.  Behind the prefix a and b are the
\* two fields of the subcode whatever the ROM says, and rr is the low one.
row_a(m, op)  == m.r[IF op.kind \in Escaped THEN op.f \div 4 ELSE s0(op)]
row_b(m, op)  == m.r[IF op.kind \in Escaped THEN op.f % 4 ELSE s1(op)]
row_rr(m, op) == m.r[op.f % 4]

\* The operands and the carry in of the additions and the subtractions.
row_x(m, op) == IF op.kind \in ImmReg THEN row_rr(m, op) ELSE row_a(m, op)
row_y(m, op) == IF op.kind \in ImmReg THEN op.imm ELSE row_b(m, op)
row_cin(m, op) == IF op.kind \in {"ADC", "ADCI", "SBB"} THEN m.C ELSE 0
row_sum(m, op) == row_x(m, op) + row_y(m, op) + row_cin(m, op)
row_dif(m, op) == row_x(m, op) - row_y(m, op) - row_cin(m, op)

Sums  == {"ADD", "ADC", "ADDI", "ADCI"}
Difs  == {"SUB", "SBB", "SUBI"}
Zeros == Sums \cup Difs \cup {"SHL", "SHR", "AND", "OR", "XOR", "MUL", "DIV", "MOD",
                              "NOT", "NEG", "ROL", "ROR", "MULH"}

rows_R_en(op) == op.kind \in (Zeros \cup {"MOV", "LDI", "DJNZ", "IN", "GETPC", "GETSP", "GETF"})

b_safe(b) == IF b = 0 THEN 1 ELSE b
eof(m)    == m.ipos >= Len(Inputs)

\* The value on each row; GETPC's is as wide as the program counter.
rows_R_val(m, op) ==
  LET a  == row_a(m, op)
      b  == row_b(m, op)
      rr == row_rr(m, op)
  IN
  CASE op.kind \in Sums -> row_sum(m, op) % Span
    [] op.kind \in Difs -> row_dif(m, op) % Span
    [] op.kind = "MOV" -> b
    [] op.kind = "LDI" -> op.imm
    [] op.kind = "AND" -> band(a, b)
    [] op.kind = "OR"  -> bor(a, b)
    [] op.kind = "XOR" -> bxor(a, b)
    [] op.kind = "MUL" -> (a * b) % Span
    [] op.kind = "MULH" -> ((a * b) \div Span) % Span
    [] op.kind = "DIV" -> a \div b_safe(b)
    [] op.kind = "MOD" -> a % b_safe(b)
    [] op.kind = "NOT" -> (-rr - 1) % Span
    [] op.kind = "NEG" -> (-rr) % Span
    [] op.kind = "ROL" -> (2 * rr + m.C) % Span
    [] op.kind = "ROR" -> rr \div 2 + Half * m.C
    [] op.kind = "SHL" -> (2 * rr) % Span
    [] op.kind = "SHR" -> rr \div 2
    [] op.kind = "DJNZ" -> (rr - 1) % Span
    [] op.kind = "IN"  -> IF eof(m) THEN 0 ELSE Inputs[m.ipos + 1]
    [] op.kind = "GETPC" -> m.PC
    [] op.kind = "GETSP" -> m.SP % Span
    [] op.kind = "GETF"  -> m.Z + 2 * m.C + 4 * m.S + 8 * m.V
    [] OTHER -> 0

rows_C(m, op) ==
  LET rr == row_rr(m, op) IN
  CASE op.kind \in Sums -> row_sum(m, op) \div Span
    [] op.kind \in Difs -> one(row_dif(m, op) < 0)
    [] op.kind = "CMP" -> one(row_a(m, op) < row_b(m, op))
    [] op.kind \in {"SHL", "ROL"} -> rr \div Half
    [] op.kind \in {"SHR", "ROR"} -> rr % 2
    [] op.kind = "CLC" -> 0
    [] op.kind = "IN" -> IF eof(m) THEN 1 ELSE m.C
    [] op.kind = "MUL" -> one(row_a(m, op) * row_b(m, op) > Span - 1)
    [] op.kind = "NEG" -> one(rr # 0)
    [] op.kind = "ADD_HLDE" -> (m.HL + m.DE) \div (Span * Span)
    [] op.kind = "SUB_HLDE" -> one(m.HL < m.DE)
    [] OTHER -> m.C

rows_Z(m, op) ==
  CASE op.kind \in Zeros -> zero(rows_R_val(m, op))
    [] op.kind = "TST" -> zero(row_rr(m, op))
    [] op.kind = "CMP" -> one(row_a(m, op) = row_b(m, op))
    [] OTHER -> m.Z

rows_S(m, op) ==
  CASE op.kind \in Sums \cup Difs \cup {"NEG"} -> sign(rows_R_val(m, op))
    [] op.kind = "CMP" -> sign(row_dif(m, op) % Span)
    [] OTHER -> m.S

rows_V(m, op) ==
  LET x == row_x(m, op)
      y == row_y(m, op)
  IN
  CASE op.kind \in Sums ->
         one(sign(x) # sign(row_sum(m, op) % Span) /\ sign(y) # sign(row_sum(m, op) % Span))
    [] op.kind \in Difs \cup {"CMP"} ->
         one(sign(x) # sign(y) /\ sign(row_dif(m, op) % Span) # sign(x))
    [] OTHER -> m.V

rows_HL(m, op) ==
  CASE op.kind = "INC_HL" -> m.HL + 1
    [] op.kind = "DEC_HL" -> m.HL - 1
    [] op.kind = "ADDI_HL" -> m.HL + m.r[op.imm % 4]
    [] op.kind = "ADD_HLDE" -> wide(m.HL + m.DE)
    [] op.kind = "SUB_HLDE" -> wide(m.HL - m.DE)
    [] op.kind \in {"XCHG", "MOVW_HL_DE"} -> m.DE
    [] op.kind = "MOVW_HL_SP" -> m.SP
    [] op.kind = "MOV_HL_MB" -> m.MB
    [] OTHER -> m.HL

rows_DE(m, op) ==
  CASE op.kind = "INC_DE" -> m.DE + 1
    [] op.kind = "ADDI_DE" -> m.DE + m.r[op.imm % 4]
    [] op.kind \in {"XCHG", "MOVW_DE_HL"} -> m.HL
    [] op.kind = "MOVW_DE_SP" -> m.SP
    [] OTHER -> m.DE

\* Slip: the port takes the row as it is.
written_Wide(v) == v

\* The register port keeps a byte of what comes.
written(v) == v % Span

TorchTick(m, op) ==
  LET fall == m.PC + op.len
      goes == op.kind \in Branch /\ taken(m, op)
      to   == target([m EXCEPT !.PC = fall], op)
      err  == \/ fall > CodeLen
              \/ goes /\ to >= CodeLen
              \/ op.kind \in {"DIV", "MOD"} /\ row_b(m, op) = 0
  IN
  IF m.status # "RUNNING" THEN m
  ELSE IF err THEN stopped(m)
  ELSE [m EXCEPT !.r = IF rows_R_en(op) THEN [@ EXCEPT ![s0(op)] = written(rows_R_val(m, op))]
                       ELSE @,
                 !.C = rows_C(m, op), !.Z = rows_Z(m, op),
                 !.S = rows_S(m, op), !.V = rows_V(m, op),
                 !.HL = wide(rows_HL(m, op)), !.DE = wide(rows_DE(m, op)),
                 !.MB = IF op.kind = "MOV_MB_HL" THEN m.HL ELSE m.MB,
                 !.PC = IF goes THEN to ELSE fall,
                 !.ipos = IF op.kind = "IN" /\ ~eof(m) THEN @ + 1 ELSE @]

------------------------------------------------------------------------------
\* The kernel.  A branch leaves the value to write, if it writes one, the latch
\* of C, empty when C is not written, and the other flags.

\* Slip: whatever is written sets Z.
keeps_SetsZ(m, v) == [v |-> v, c |-> <<>>, Z |-> zero(v), S |-> m.S, V |-> m.V]

keeps(m, v)  == [v |-> v, c |-> <<>>, Z |-> m.Z, S |-> m.S, V |-> m.V]
zeroes(m, v) == [keeps(m, v) EXCEPT !.Z = zero(v)]
signs(m, v, V) == [zeroes(m, v) EXCEPT !.S = sign(v), !.V = V]
ovf(p, q, v) == one(sign(p) # sign(v) /\ sign(q) # sign(v))
ovf_sub(p, q, v) == one(sign(p) # sign(q) /\ sign(v) # sign(p))

\* t is the sum or the difference before it is cut to a byte.
k_add(m, p, q, t) == [signs(m, t % Span, ovf(p, q, t % Span)) EXCEPT !.c = <<t \div Span>>]
k_sub(m, p, q, t) == [signs(m, t % Span, ovf_sub(p, q, t % Span)) EXCEPT !.c = <<one(t < 0)>>]

branch_of(m, op) ==
  LET k  == op.kind
      a  == m.r[op.f \div 4]
      b  == m.r[op.f % 4]
      rr == m.r[op.f % 4]
      i8 == op.imm
  IN
  CASE k = "AND" -> zeroes(m, band(a, b))
    [] k = "OR"  -> zeroes(m, bor(a, b))
    [] k = "XOR" -> zeroes(m, bxor(a, b))
    [] k = "MUL" -> [zeroes(m, (a * b) % Span) EXCEPT !.c = <<one(a * b > Span - 1)>>]
    [] k = "MULH" -> zeroes(m, ((a * b) \div Span) % Span)
    [] k = "ADD" -> k_add(m, a, b, a + b)
    [] k = "ADC" -> k_add(m, a, b, a + b + m.C)
    [] k \in {"SUB", "CMP"} -> k_sub(m, a, b, a - b)
    [] k = "SBB" -> k_sub(m, a, b, a - b - m.C)
    [] k = "MOV" -> keeps(m, b)
    [] k = "LDI" -> keeps(m, i8)
    [] k = "ADDI" -> k_add(m, rr, i8, rr + i8)
    [] k = "ADCI" -> k_add(m, rr, i8, rr + i8 + m.C)
    [] k = "SUBI" -> k_sub(m, rr, i8, rr - i8)
    [] k = "DIV" -> zeroes(m, a \div b_safe(b))
    [] k = "MOD" -> zeroes(m, a % b_safe(b))
    [] k = "NOT" -> zeroes(m, (-rr - 1) % Span)
    [] k = "NEG" -> LET v == (-rr) % Span
                    IN [signs(m, v, m.V) EXCEPT !.c = <<one(rr # 0)>>]
    [] k = "ROL" -> [zeroes(m, (2 * rr + m.C) % Span) EXCEPT !.c = <<rr \div Half>>]
    [] k = "ROR" -> [zeroes(m, rr \div 2 + Half * m.C) EXCEPT !.c = <<rr % 2>>]
    [] k = "SHL" -> [zeroes(m, (2 * rr) % Span) EXCEPT !.c = <<rr \div Half>>]
    [] k = "SHR" -> [zeroes(m, rr \div 2) EXCEPT !.c = <<rr % 2>>]
    [] k = "TST" -> zeroes(m, rr)
    [] k = "DJNZ" -> keeps(m, (rr - 1) % Span)
    [] k = "IN" -> IF m.ipos < Len(Inputs) THEN keeps(m, Inputs[m.ipos + 1])
                   ELSE [keeps(m, 0) EXCEPT !.c = <<1>>]
    [] k = "GETPC" -> keeps(m, m.PC)
    [] k = "GETSP" -> keeps(m, m.SP % Span)
    [] k = "GETF" -> keeps(m, m.Z + 2 * m.C + 4 * m.S + 8 * m.V)
    [] k = "CLC" -> [keeps(m, 0) EXCEPT !.c = <<0>>]
    [] k = "ADD_HLDE" -> [keeps(m, 0) EXCEPT !.c = <<(m.HL + m.DE) \div (Span * Span)>>]
    [] k = "SUB_HLDE" -> [keeps(m, 0) EXCEPT !.c = <<one(m.HL < m.DE)>>]
    [] OTHER -> keeps(m, 0)

\* _wr: the byte of v goes to r[d].
_wr(r, d, v) == [r EXCEPT ![d] = v % Span]

NoWrite == Pointer \cup PtrReg \cup Branch \cup {"NOP", "CLC", "CMP"}

\* Slip: CMP's difference is written back.
wr_Cmp(op) == op.kind \notin NoWrite \/ op.kind \in {"DJNZ", "CMP"}

wr(op) == op.kind \notin NoWrite \/ op.kind = "DJNZ"

nHL(m, op) ==
  CASE op.kind = "INC_HL" -> wide(m.HL + 1)
    [] op.kind = "DEC_HL" -> wide(m.HL - 1)
    [] op.kind = "ADDI_HL" -> wide(m.HL + m.r[op.imm % 4])
    [] op.kind = "ADD_HLDE" -> wide(m.HL + m.DE)
    [] op.kind = "SUB_HLDE" -> wide(m.HL - m.DE)
    [] op.kind \in {"XCHG", "MOVW_HL_DE"} -> m.DE
    [] op.kind = "MOVW_HL_SP" -> m.SP
    [] op.kind = "MOV_HL_MB" -> wide(m.MB)
    [] OTHER -> m.HL

nDE(m, op) ==
  CASE op.kind = "INC_DE" -> wide(m.DE + 1)
    [] op.kind = "ADDI_DE" -> wide(m.DE + m.r[op.imm % 4])
    [] op.kind \in {"XCHG", "MOVW_DE_HL"} -> m.HL
    [] op.kind = "MOVW_DE_SP" -> m.SP
    [] OTHER -> m.DE

KernelTick(m, op) ==
  LET n    == branch_of(m, op)
      fall == m.PC + op.len
      goes == op.kind \in Branch /\ taken(m, op)
      nPC  == IF goes THEN target([m EXCEPT !.PC = fall], op) ELSE fall
      err  == \/ fall > CodeLen
              \/ op.kind \in {"DIV", "MOD"} /\ m.r[op.f % 4] = 0
              \/ goes /\ nPC >= CodeLen
  IN
  IF m.status # "RUNNING" THEN m
  ELSE IF err THEN stopped(m)
  ELSE [m EXCEPT !.r = IF wr(op) THEN _wr(@, s0(op), n.v) ELSE @,
                 !.C = IF n.c = <<>> THEN @ ELSE n.c[1] % 2,
                 !.Z = n.Z, !.S = n.S, !.V = n.V,
                 !.HL = nHL(m, op), !.DE = nDE(m, op),
                 !.MB = IF op.kind = "MOV_MB_HL" THEN wide(m.HL) ELSE @,
                 !.PC = nPC,
                 !.ipos = IF op.kind = "IN" /\ @ < Len(Inputs) THEN @ + 1 ELSE @]

------------------------------------------------------------------------------
VARIABLES
  mach,    \* the machine
  last,    \* history: the instruction of the last tick
  ticks    \* history: ticks so far, bounded by MaxTicks

avars == <<mach, last, ticks>>

Idle == [kind |-> "NONE"]

Init == mach \in Starts /\ last = Idle /\ ticks = 0

\* One tick on whichever path; the loops step a machine while it runs.
Tick(path(_, _), op) ==
  /\ mach.status = "RUNNING"
  /\ ticks < MaxTicks
  /\ mach' = path(mach, op)
  /\ last' = op
  /\ ticks' = ticks + 1

Next == \E op \in Program : Tick(RefTick, op) \/ Tick(TorchTick, op) \/ Tick(KernelTick, op)

Spec == Init /\ [][Next]_avars

------------------------------------------------------------------------------
\* The machine keeps its widths on every path, the program counter's too: a row
\* or a branch that leaves more than a byte is cut at the register port
\* (test_state_contract.py, the write port of GETPC).
TypeOK ==
  /\ mach \in Mach
  /\ last \in Program \cup {Idle}
  /\ ticks \in 0 .. MaxTicks

\* The two circuits compute what the reference computes, every register and
\* every flag of it, whichever path takes the tick.
PathsAgree == [][mach' = RefTick(mach, last')]_avars

\* A tick moves no flag its instruction does not declare: FLAG_WRITES is what
\* the disassembler, the documents and the coverage tests take for granted.
FlagsDeclared ==
  [][LET w == FLAG_WRITES(last'.kind) IN
       /\ "C" \notin w => mach'.C = mach.C
       /\ "Z" \notin w => mach'.Z = mach.Z
       /\ "S" \notin w => mach'.S = mach.S
       /\ "V" \notin w => mach'.V = mach.V]_avars

\* CMP leaves enough for every branch after it: Z and C order the operands as
\* bytes, and S differs from V exactly when the first is less as a signed byte.
SignedOrder ==
  \A d, s \in Reg :
    LET a == mach.r[d]
        b == mach.r[s]
        m == compares(mach, a, b)
    IN /\ m.Z = one(a = b)
       /\ m.C = one(a < b)
       /\ (m.S # m.V) <=> signed(a) < signed(b)

\* r[h] and r[l] as one word, and a word as a signed number.
pair(m, h, l)   == Span * m.r[h] + m.r[l]
signed_word(v)  == v - Span * Span * (v \div (Half * Span))

\* Two instructions of a chain with one between them.
then(m, op1, op2, op3) == RefTick(RefTick(RefTick(m, op1), op2), op3)

reg(kind, f) == [kind |-> kind, f |-> f, imm |-> 0, to |-> 0, len |-> 1]

\* The instructions that may stand inside a chain: they write neither C nor the
\* registers the chain works on.
Between == {op \in Program : /\ "C" \notin FLAG_WRITES(op.kind)
                             /\ op.kind \in Pointer \cup PtrReg \cup {"NOP", "TST"}}

\* A chain of byte instructions is the word instruction: r0 + r2, then r1 + r3
\* with the carry, is the sum of the two words with its carry and its signed
\* overflow; the same for a difference and a borrow; and a shift then a rotate
\* of the pair is a shift of the word.  What stands between does not disturb it.
WordChains ==
  \A op \in Between :
    LET x == pair(mach, 1, 0)
        y == pair(mach, 3, 2)
        sum == then(mach, reg("ADD", 2), op, reg("ADC", 7))
        dif == then(mach, reg("SUB", 2), op, reg("SBB", 7))
        left == then(mach, reg("SHL", 0), op, reg("ROL", 1))
        right == then(mach, reg("SHR", 1), op, reg("ROR", 0))
        fits(v) == -(Half * Span) <= v /\ v < Half * Span
    IN mach.status = "RUNNING" /\ mach.PC + 2 + op.len <= CodeLen =>
       /\ pair(sum, 1, 0) + Span * Span * sum.C = x + y
       /\ sum.V = one(~fits(signed_word(x) + signed_word(y)))
       /\ pair(dif, 1, 0) - Span * Span * dif.C = x - y
       /\ dif.V = one(~fits(signed_word(x) - signed_word(y)))
       /\ pair(left, 1, 0) + Span * Span * left.C = 2 * x
       /\ 2 * pair(right, 1, 0) + right.C = x
=============================================================================
