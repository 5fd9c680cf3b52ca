--------------------------- MODULE CircuitProofs ---------------------------
(***************************************************************************)
(* Both circuits implement the reference machine, for every image,         *)
(* configuration and budget: they name the same cause for an instruction   *)
(* and, where they name none, leave the same state.                        *)
(***************************************************************************)
EXTENDS Circuit, MachineProofs

\* The first answer of a row that is not "OK" is the row's answer.
LEMMA FirstNamed ==
  ASSUME NEW cs, NEW n \in Nat, DOMAIN cs = 1 .. n,
         NEW i \in 1 .. n, cs[i] # "OK", \A k \in 1 .. i - 1 : cs[k] = "OK"
  PROVE  first_of(cs) = cs[i]
<1>. DEFINE First(j) == cs[j] # "OK" /\ \A k \in 1 .. j - 1 : cs[k] = "OK"
            j == CHOOSE m \in DOMAIN cs : First(m)
<1>1. i \in DOMAIN cs /\ First(i)
  OBVIOUS
<1>2. j \in DOMAIN cs /\ First(j)
  BY <1>1, Zenon
<1>3. j = i
  <2>. HIDE DEF j
  <2>1. j \in Int /\ i \in Int /\ j \in 1 .. n
    BY <1>2
  <2>2. CASE j < i
    BY <1>1, <1>2, <2>1, <2>2
  <2>3. CASE i < j
    BY <1>1, <1>2, <2>1, <2>3
  <2>. QED BY <2>1, <2>2, <2>3
<1>. QED BY <1>1, <1>3, Zenon DEF first_of

LEMMA NoneNamed ==
  ASSUME NEW cs, \A i \in DOMAIN cs : cs[i] = "OK"
  PROVE  first_of(cs) = "OK"
BY DEF first_of

\* A row of at most five checks, unrolled.
answer(cs, i) == IF i \in DOMAIN cs THEN cs[i] ELSE "OK"

LEMMA First5 ==
  ASSUME NEW cs, NEW n \in 0 .. 5, DOMAIN cs = 1 .. n
  PROVE  first_of(cs) = IF answer(cs, 1) # "OK" THEN answer(cs, 1)
                        ELSE IF answer(cs, 2) # "OK" THEN answer(cs, 2)
                        ELSE IF answer(cs, 3) # "OK" THEN answer(cs, 3)
                        ELSE IF answer(cs, 4) # "OK" THEN answer(cs, 4)
                        ELSE answer(cs, 5)
<1>1. ASSUME NEW i \in 1 .. 5, answer(cs, i) # "OK",
             \A k \in 1 .. i - 1 : answer(cs, k) = "OK"
      PROVE  first_of(cs) = answer(cs, i)
  <2>1. i \in 1 .. n /\ answer(cs, i) = cs[i] /\ n \in Nat
    BY <1>1 DEF answer
  <2>2. \A k \in 1 .. i - 1 : cs[k] = "OK"
    BY <1>1, <2>1, SMT DEF answer
  <2>. QED BY <1>1, <2>1, <2>2, FirstNamed, Zenon
<1>2. ASSUME \A i \in 1 .. 5 : answer(cs, i) = "OK" PROVE first_of(cs) = "OK"
  <2>1. \A i \in DOMAIN cs : cs[i] = "OK"
    BY <1>2, SMT DEF answer
  <2>. QED BY <2>1, NoneNamed
<1>. QED BY <1>1, <1>2, SMT

\* A row written out answers with its first refusal.
LEMMA Row1 ==
  ASSUME NEW a
  PROVE  first_of(<<a>>) = a
<1>. DEFINE cs == <<a>>
<1>1. DOMAIN cs = 1 .. 1 /\ cs[1] = a
  BY SMT
<1>. HIDE DEF cs
<1>2. first_of(cs) = a
  BY <1>1, First5, SMT DEF answer
<1>. QED BY <1>2 DEF cs

LEMMA Row2 ==
  ASSUME NEW a, NEW b
  PROVE  first_of(<<a, b>>) = IF a # "OK" THEN a ELSE b
<1>. DEFINE cs == <<a, b>>
<1>1. DOMAIN cs = 1 .. 2 /\ cs[1] = a /\ cs[2] = b
  BY SMT
<1>. HIDE DEF cs
<1>2. first_of(cs) = IF a # "OK" THEN a ELSE b
  BY <1>1, First5, SMT DEF answer
<1>. QED BY <1>2 DEF cs

LEMMA Row3 ==
  ASSUME NEW a, NEW b, NEW c
  PROVE  first_of(<<a, b, c>>) = IF a # "OK" THEN a ELSE IF b # "OK" THEN b ELSE c
<1>. DEFINE cs == <<a, b, c>>
<1>1. DOMAIN cs = 1 .. 3 /\ cs[1] = a /\ cs[2] = b /\ cs[3] = c
  BY SMT
<1>. HIDE DEF cs
<1>2. first_of(cs) = IF a # "OK" THEN a ELSE IF b # "OK" THEN b ELSE c
  BY <1>1, First5, SMT DEF answer
<1>. QED BY <1>2 DEF cs

LEMMA Row4 ==
  ASSUME NEW a, NEW b, NEW c, NEW d
  PROVE  first_of(<<a, b, c, d>>) = IF a # "OK" THEN a ELSE IF b # "OK" THEN b ELSE IF c # "OK" THEN c ELSE d
<1>. DEFINE cs == <<a, b, c, d>>
<1>1. DOMAIN cs = 1 .. 4 /\ cs[1] = a /\ cs[2] = b /\ cs[3] = c /\ cs[4] = d
  BY SMT
<1>. HIDE DEF cs
<1>2. first_of(cs) = IF a # "OK" THEN a ELSE IF b # "OK" THEN b ELSE IF c # "OK" THEN c ELSE d
  BY <1>1, First5, SMT DEF answer
<1>. QED BY <1>2 DEF cs

LEMMA Row5 ==
  ASSUME NEW a, NEW b, NEW c, NEW d, NEW e
  PROVE  first_of(<<a, b, c, d, e>>) = IF a # "OK" THEN a ELSE IF b # "OK" THEN b ELSE IF c # "OK" THEN c ELSE IF d # "OK" THEN d ELSE e
<1>. DEFINE cs == <<a, b, c, d, e>>
<1>1. DOMAIN cs = 1 .. 5 /\ cs[1] = a /\ cs[2] = b /\ cs[3] = c /\ cs[4] = d /\ cs[5] = e
  BY SMT
<1>. HIDE DEF cs
<1>2. first_of(cs) = IF a # "OK" THEN a ELSE IF b # "OK" THEN b ELSE IF c # "OK" THEN c ELSE IF d # "OK" THEN d ELSE e
  BY <1>1, First5, SMT DEF answer
<1>. QED BY <1>2 DEF cs

\* The sites of the masked circuit, unrolled.
LEMMA First16 ==
  ASSUME NEW cs, DOMAIN cs = 1 .. 16
  PROVE  first_of(cs) = IF cs[1] # "OK" THEN cs[1]
                        ELSE IF cs[2] # "OK" THEN cs[2]
                        ELSE IF cs[3] # "OK" THEN cs[3]
                        ELSE IF cs[4] # "OK" THEN cs[4]
                        ELSE IF cs[5] # "OK" THEN cs[5]
                        ELSE IF cs[6] # "OK" THEN cs[6]
                        ELSE IF cs[7] # "OK" THEN cs[7]
                        ELSE IF cs[8] # "OK" THEN cs[8]
                        ELSE IF cs[9] # "OK" THEN cs[9]
                        ELSE IF cs[10] # "OK" THEN cs[10]
                        ELSE IF cs[11] # "OK" THEN cs[11]
                        ELSE IF cs[12] # "OK" THEN cs[12]
                        ELSE IF cs[13] # "OK" THEN cs[13]
                        ELSE IF cs[14] # "OK" THEN cs[14]
                        ELSE IF cs[15] # "OK" THEN cs[15]
                        ELSE cs[16]
<1>1. ASSUME NEW i \in 1 .. 16, cs[i] # "OK", \A k \in 1 .. i - 1 : cs[k] = "OK"
      PROVE  first_of(cs) = cs[i]
  BY <1>1, FirstNamed, Zenon
<1>2. ASSUME \A i \in 1 .. 16 : cs[i] = "OK" PROVE first_of(cs) = "OK"
  BY <1>2, NoneNamed
<1>. QED BY <1>1, <1>2, SMT

------------------------------------------------------------------------------
\* A clamped read inside the buffer reads the cell; outside, it reads some byte.
LEMMA ReadsClamped ==
  ASSUME TypeOK, NEW a \in Nat
  PROVE  g(a) \in Byte /\ (a < DataSize => g(a) = data[a])
<1>1. DataSize \in Nat \ {0}
  BY MachineAssumption
<1>2. clamp(a, DataSize - 1) \in Addr /\ (a < DataSize => clamp(a, DataSize - 1) = a)
  BY <1>1, SMT DEF clamp, Addr
<1>3. data[clamp(a, DataSize - 1)] \in Byte
  BY <1>2, Zenon DEF TypeOK
<1>. QED BY <1>2, <1>3, Zenon DEF g

\* What the masked circuit reads for RET, TRAPRET and EXT is what the reference
\* reads, wherever the reference reads it.
LEMMA TorchReads ==
  ASSUME TypeOK
  PROVE  /\ retv \in Nat
         /\ SP + 2 <= DataSize => retv = returns_to
         /\ SP + 4 <= DataSize =>
              /\ retv = returns_to
              /\ trap_tag <=> data[SP + 3] = TRAP_TAG
              /\ g(SP + 2) = data[SP + 2]
<1>1. SP \in Nat /\ SP + 1 \in Nat /\ SP + 2 \in Nat /\ SP + 3 \in Nat /\ DataSize \in Nat
  BY MachineAssumption DEF TypeOK
<1>2. g(SP) \in Byte /\ g(SP + 1) \in Byte
  BY <1>1, ReadsClamped
<1>3. SP + 2 <= DataSize => g(SP) = data[SP] /\ g(SP + 1) = data[SP + 1]
  BY <1>1, ReadsClamped, SMT
<1>4. SP + 4 <= DataSize => g(SP + 3) = data[SP + 3] /\ g(SP + 2) = data[SP + 2]
  BY <1>1, ReadsClamped, SMT
<1>5. SP + 4 <= DataSize => SP + 2 <= DataSize
  BY <1>1, SMT
<1>. QED BY <1>2, <1>3, <1>4, <1>5, WordOfBytes DEF retv, returns_to, trap_tag

LEMMA TorchVector ==
  ASSUME TypeOK, NEW op \in Program, op.kind = "EXT", op.k \in Nat, op.k < Len(Vec)
  PROVE  vec(op) = vector(op.k) /\ vec_at(op.k) = vector(op.k)
<1>1. Len(Vec) \in Nat
  BY MachineAssumption
<1>2. CASE Vtab = NoVtab
  <2>1. clamp(op.k + 1, Len(Vec)) = op.k + 1
    BY <1>1, SMT DEF clamp
  <2>. QED BY <1>2, <2>1 DEF vec, vec_at, vector
<1>3. CASE Vtab # NoVtab
  <2>1. Vtab \in Nat /\ DataSize \in Nat /\ Vtab + 2 * Len(Vec) <= DataSize
    BY <1>3, MachineAssumption DEF Addr
  <2>2. /\ Vtab + 2 * op.k + 1 \in Nat /\ Vtab + 2 * op.k + 1 < DataSize
        /\ Vtab + 2 * op.k \in Nat /\ Vtab + 2 * op.k < DataSize
    BY <1>1, <2>1, SMT
  <2>3. g(Vtab + 2 * op.k + 1) = data[Vtab + 2 * op.k + 1]
        /\ g(Vtab + 2 * op.k) = data[Vtab + 2 * op.k]
    BY <2>2, ReadsClamped
  <2>. QED BY <1>3, <2>3 DEF vec, vec_at, vector
<1>. QED BY <1>2, <1>3

\* The instructions, taken apart.
LEMMA OpParts ==
  ASSUME NEW op \in Program
  PROVE  /\ op.len \in Nat \ {0}
         /\ op.kind \in {"JMP", "CALL", "SETSP"} => op.to \in Nat
         /\ op.kind = "EXT" => op.k \in Nat
         /\ op.kind \in {"PUSH", "ST"} => op.put \in Seq(Byte) /\ Len(op.put) \in {1, 2}
         /\ op.kind \in {"POP", "LD"} => op.n \in {1, 2}
         /\ op.kind \in {"ST", "LD", "STC", "LDC", "OUTM"} => op.at \in Nat
         /\ op.kind \in {"JMP", "CALL", "RET", "EXT", "TRAPRET", "PUSH", "POP", "SETSP",
                         "ST", "LD", "STC", "LDC", "OUT", "OUTM", "HALT", "ALU", "BAD"}
<1>1. op \in Op
  BY MachineAssumption
<1>2. Byte \subseteq Nat
  BY MachineAssumption, SMT DEF Byte
<1>3. op.kind \in {"PUSH", "ST"} => op.put \in Bytes
  BY <1>1, SMT DEF Op
<1>4. op.kind \in {"JMP", "CALL", "SETSP"} => op.to \in Word
  BY <1>1, SMT DEF Op
<1>5. op.kind = "EXT" => op.k \in Byte
  BY <1>1, SMT DEF Op
<1>6. op.kind \in {"ST", "LD", "STC", "LDC", "OUTM"} => op.at \in Word
  BY <1>1, SMT DEF Op
<1>7. op.len \in Nat \ {0} /\ (op.kind \in {"POP", "LD"} => op.n \in {1, 2})
  BY <1>1, SMT DEF Op, Width
<1>8. op.kind \in {"JMP", "CALL", "RET", "EXT", "TRAPRET", "PUSH", "POP", "SETSP",
                   "ST", "LD", "STC", "LDC", "OUT", "OUTM", "HALT", "ALU", "BAD"}
  BY <1>1, SMT DEF Op
<1>. QED BY <1>2, <1>3, <1>4, <1>5, <1>6, <1>7, <1>8, BytesTyped, WordNat

------------------------------------------------------------------------------
\* The reference's verdict is its first refusal, unrolled.
LEMMA VerdictRow ==
  ASSUME NEW op \in Program, PC \in Nat
  PROVE  passes(op) <=> verdict(op) = "OK"
<1>1. ASSUME passes(op) PROVE verdict(op) = "OK"
  <2>1. op.len \in Int /\ CodeLen \in Int
    BY OpParts, MachineAssumption
  <2>2. ~(PC + op.len > CodeLen)
    BY <1>1, <2>1, SMT DEF passes
  <2>3. first_of(checks(op)) = "OK"
    BY <1>1, NoneNamed DEF passes
  <2>. QED BY <2>2, <2>3 DEF verdict
<1>. QED BY <1>1, VerdictNamed

\* A fetch past the end: every site in front of the two fetch sites is silent.
LEMMA TorchFetch ==
  ASSUME TypeOK, NEW op \in Program, PC + op.len > CodeLen
  PROVE  fault_cause(op) = "FETCH_OOB"
<1>. DEFINE cs == fired(op)
<1>1. DOMAIN cs = 1 .. 16
  BY SMT DEF fired
<1>2. PC \in Nat /\ CodeLen \in Nat /\ op.len \in Nat
  BY OpParts, MachineAssumption DEF TypeOK
<1>3. ~fetch_ok_rows(op)
  BY <1>2, SMT DEF fetch_ok_rows
<1>4. cs[1] = "OK" /\ cs[4] = "FETCH_OOB"
  BY <1>3, SMT DEF fired, holds, pcw_clean
<1>5. cs[2] \in {"OK", "FETCH_OOB"}
  BY SMT DEF fired, holds
<1>6. cs[2] = "FETCH_OOB" \/ cs[3] = "OK"
  <2>1. CASE op.kind # "BAD"
    BY <2>1, SMT DEF fired, holds
  <2>2. CASE op.kind = "BAD"
    <3>1. op.len = IF op \in Escaped THEN 2 ELSE 1
      BY <2>2, CircuitAssumption
    <3>2. fetch_code(op)
      BY <1>2, <3>1, SMT DEF fetch_code, PREFIX_BYTES
    <3>. QED BY <3>2, SMT DEF fired, holds
  <2>. QED BY <2>1, <2>2
<1>. HIDE DEF cs
<1>7. first_of(cs) = "FETCH_OOB"
  BY <1>1, <1>4, <1>5, <1>6, First16
<1>. QED BY <1>7 DEF cs, fault_cause

\* The sites that can fire once every byte of the instruction is in the image.
LEMMA TorchSites ==
  ASSUME TypeOK, NEW op \in Program, PC + op.len <= CodeLen
  PROVE  /\ fetch_ok_rows(op) /\ ~fetch_code(op)
         /\ pcw_clean(op) <=> ~push_rows(op) /\ ~pop_rows(op)
<1>1. PC \in Nat /\ CodeLen \in Nat /\ op.len \in Nat \ {0}
  BY OpParts, MachineAssumption DEF TypeOK
<1>2. op \in Escaped => op.len >= 2
  BY CircuitAssumption DEF PREFIX_BYTES
<1>. QED BY <1>1, <1>2, SMT DEF fetch_ok_rows, fetch_code, pcw_clean, PREFIX_BYTES

------------------------------------------------------------------------------
\* The cause of an instruction that is fetched whole, in plain conditions: what
\* each of the three paths is shown to name.
room(n) == Splim <= SP - n /\ SP <= DataSize
have(n) == SP + n <= DataSize
far(t)  == t >= CodeLen
hit(lo, n) == \E i \in 0 .. n - 1 : lo + i \in Protected

refusal(op) ==
  CASE op.kind = "JMP" -> IF far(op.to) THEN "PC_ILLEGAL" ELSE "OK"
    [] op.kind = "CALL" -> IF ~room(2) THEN "STACK_OVERFLOW"
                           ELSE IF far(op.to) THEN "PC_ILLEGAL"
                           ELSE IF hit(SP - 2, 2) THEN "REGION_VIOL" ELSE "OK"
    [] op.kind = "RET" -> IF ~have(2) THEN "STACK_UNDERFLOW"
                          ELSE IF far(returns_to) THEN "PC_ILLEGAL" ELSE "OK"
    [] op.kind = "EXT" -> IF op.k >= Len(Vec) THEN "TRAP_UNREG"
                          ELSE IF vector(op.k) = 0 THEN "TRAP_UNREG"
                          ELSE IF TDEPTH = Tdlim THEN "TRAP_DEPTH"
                          ELSE IF ~room(4) THEN "STACK_OVERFLOW"
                          ELSE IF far(vector(op.k)) THEN "PC_ILLEGAL"
                          ELSE IF hit(SP - 4, 4) THEN "REGION_VIOL" ELSE "OK"
    [] op.kind = "TRAPRET" -> IF TDEPTH = 0 THEN "TRAP_UNBALANCED"
                              ELSE IF ~have(4) THEN "STACK_UNDERFLOW"
                              ELSE IF data[SP + 3] # TRAP_TAG THEN "TRAP_FRAME"
                              ELSE IF far(returns_to) THEN "PC_ILLEGAL" ELSE "OK"
    [] op.kind = "PUSH" -> IF ~room(Len(op.put)) THEN "STACK_OVERFLOW"
                           ELSE IF hit(SP - Len(op.put), Len(op.put)) THEN "REGION_VIOL"
                           ELSE "OK"
    [] op.kind = "POP" -> IF ~have(op.n) THEN "STACK_UNDERFLOW" ELSE "OK"
    [] op.kind = "ST" -> IF op.at + Len(op.put) > DataSize THEN "DATA_OOB"
                         ELSE IF hit(op.at, Len(op.put)) THEN "REGION_VIOL" ELSE "OK"
    [] op.kind = "LD" -> IF op.at + op.n > DataSize THEN "DATA_OOB" ELSE "OK"
    [] op.kind = "LDC" -> IF far(op.at) THEN "CODE_OOB" ELSE "OK"
    [] op.kind = "STC" -> IF far(op.at) THEN "CODE_OOB"
                          ELSE IF op.at \notin Window THEN "WINDOW" ELSE "OK"
    [] op.kind = "SETSP" -> IF op.to > DataSize THEN "DATA_OOB" ELSE "OK"
    [] op.kind = "OUT" -> IF out >= Outcap THEN "OUT_CAP" ELSE "OK"
    [] op.kind = "OUTM" -> IF op.at >= DataSize THEN "DATA_OOB"
                           ELSE IF out >= Outcap THEN "OUT_CAP" ELSE "OK"
    [] op.kind = "BAD" -> "OTHER"
    [] OTHER -> "OK"

\* The types the comparisons rest on.
LEMMA Numbers ==
  ASSUME TypeOK, NEW op \in Program
  PROVE  /\ PC \in Nat /\ SP \in Nat /\ TDEPTH \in Nat /\ out \in Nat /\ tick \in Nat
         /\ CodeLen \in Nat /\ DataSize \in Nat /\ Splim \in Nat /\ Tdlim \in Nat
         /\ Outcap \in Nat /\ TickBudget \in Nat /\ Len(Vec) \in Nat
         /\ op.len \in Nat \ {0} /\ SP <= DataSize /\ DataSize > 0 /\ CodeLen > 0
BY OpParts, MachineAssumption DEF TypeOK

\* The regions a push or a store of n bytes touches.
LEMMA RegionHit ==
  ASSUME NEW lo \in Int, NEW n \in Nat
  PROVE  region(lo .. lo + n - 1) = IF hit(lo, n) THEN "REGION_VIOL" ELSE "OK"
<1>1. (lo .. lo + n - 1) \cap Protected = {} <=> ~hit(lo, n)
  <2>1. ASSUME hit(lo, n) PROVE (lo .. lo + n - 1) \cap Protected # {}
    BY <2>1, SMT DEF hit
  <2>2. ASSUME NEW a \in (lo .. lo + n - 1) \cap Protected PROVE hit(lo, n)
    <3>1. a - lo \in 0 .. n - 1 /\ lo + (a - lo) = a
      BY <2>2, SMT
    <3>. QED BY <2>2, <3>1 DEF hit
  <2>. QED BY <2>1, <2>2
<1>. QED BY <1>1 DEF region, holds

\* The checks of the reference in the same words.
LEMMA PlainChecks ==
  ASSUME TypeOK
  PROVE  /\ \A t \in Nat : pc_target(t) = IF far(t) THEN "PC_ILLEGAL" ELSE "OK"
         /\ \A n \in Nat :
              /\ stack_room(n) = IF room(n) THEN "OK" ELSE "STACK_OVERFLOW"
              /\ stack_have(n) = IF have(n) THEN "OK" ELSE "STACK_UNDERFLOW"
              /\ stack_region(n) = IF hit(SP - n, n) THEN "REGION_VIOL" ELSE "OK"
         /\ \A a \in Nat, n \in Nat :
              /\ mem(a, n) = IF a + n > DataSize THEN "DATA_OOB" ELSE "OK"
              /\ region(a .. a + n - 1) = IF hit(a, n) THEN "REGION_VIOL" ELSE "OK"
<1>1. SP \in Nat /\ DataSize \in Nat /\ CodeLen \in Nat
  BY MachineAssumption DEF TypeOK
<1>2. ASSUME NEW t \in Nat PROVE pc_target(t) = IF far(t) THEN "PC_ILLEGAL" ELSE "OK"
  BY <1>1, SMT DEF pc_target, far, holds
<1>3. ASSUME NEW n \in Nat
      PROVE  /\ stack_room(n) = IF room(n) THEN "OK" ELSE "STACK_OVERFLOW"
             /\ stack_have(n) = IF have(n) THEN "OK" ELSE "STACK_UNDERFLOW"
             /\ stack_region(n) = IF hit(SP - n, n) THEN "REGION_VIOL" ELSE "OK"
  <2>1. stack_region(n) = region(SP - n .. SP - n + n - 1)
    <3>1. SP - n + n - 1 = SP - 1
      BY <1>1, SMT
    <3>. QED BY <3>1 DEF stack_region
  <2>2. stack_region(n) = IF hit(SP - n, n) THEN "REGION_VIOL" ELSE "OK"
    <3>1. SP - n \in Int
      BY <1>1
    <3>. QED BY <2>1, <3>1, RegionHit
  <2>. QED BY <1>1, <2>2, SMT DEF stack_room, stack_have, room, have, holds
<1>4. ASSUME NEW a \in Nat, NEW n \in Nat
      PROVE  /\ mem(a, n) = IF a + n > DataSize THEN "DATA_OOB" ELSE "OK"
             /\ region(a .. a + n - 1) = IF hit(a, n) THEN "REGION_VIOL" ELSE "OK"
  <2>1. mem(a, n) = IF a + n > DataSize THEN "DATA_OOB" ELSE "OK"
    BY <1>1, SMT DEF mem, holds
  <2>. QED BY <2>1, RegionHit, SMT
<1>. QED BY <1>2, <1>3, <1>4

\* The reference names the first of them.
LEMMA ReferenceNames ==
  ASSUME TypeOK, NEW op \in Program, PC + op.len <= CodeLen
  PROVE  verdict(op) = refusal(op)
<1>1. verdict(op) = first_of(checks(op))
  BY Numbers, SMT DEF verdict
<1>2. CASE op.kind = "JMP"
  <2>1. op.to \in Nat
    BY <1>2, OpParts, Numbers, SMT
  <2>2. checks(op) = <<pc_target(op.to)>>
    BY <1>2, SMT DEF checks
  <2>3. verdict(op) = first_of(<<pc_target(op.to)>>)
    BY <1>1, <2>2
  <2>4. pc_target(op.to) = IF far(op.to) THEN "PC_ILLEGAL" ELSE "OK"
    BY <2>1, PlainChecks
  <2>. QED BY <1>2, <2>3, <2>4, Row1, SMT DEF refusal
<1>3. CASE op.kind = "CALL"
  <2>1. op.to \in Nat
    BY <1>3, OpParts, Numbers, SMT
  <2>2. checks(op) = <<stack_room(2), pc_target(op.to), stack_region(2)>>
    BY <1>3, SMT DEF checks
  <2>3. verdict(op) = first_of(<<stack_room(2), pc_target(op.to), stack_region(2)>>)
    BY <1>1, <2>2
  <2>4. /\ pc_target(op.to) = IF far(op.to) THEN "PC_ILLEGAL" ELSE "OK"
        /\ stack_room(2) = IF room(2) THEN "OK" ELSE "STACK_OVERFLOW"
        /\ stack_region(2) = IF hit(SP - 2, 2) THEN "REGION_VIOL" ELSE "OK"
    BY <2>1, PlainChecks
  <2>. QED BY <1>3, <2>3, <2>4, Row3, SMT DEF refusal
<1>4. CASE op.kind = "POP"
  <2>1. op.n \in Nat
    BY <1>4, OpParts, Numbers, SMT
  <2>2. checks(op) = <<stack_have(op.n)>>
    BY <1>4, SMT DEF checks
  <2>3. verdict(op) = first_of(<<stack_have(op.n)>>)
    BY <1>1, <2>2
  <2>4. stack_have(op.n) = IF have(op.n) THEN "OK" ELSE "STACK_UNDERFLOW"
    BY <2>1, PlainChecks
  <2>. QED BY <1>4, <2>3, <2>4, Row1, SMT DEF refusal
<1>5. CASE op.kind = "PUSH"
  <2>1. Len(op.put) \in Nat
    BY <1>5, OpParts, Numbers, SMT
  <2>2. checks(op) = <<stack_room(Len(op.put)), stack_region(Len(op.put))>>
    BY <1>5, SMT DEF checks
  <2>3. verdict(op) = first_of(<<stack_room(Len(op.put)), stack_region(Len(op.put))>>)
    BY <1>1, <2>2
  <2>4. /\ stack_room(Len(op.put)) = IF room(Len(op.put)) THEN "OK" ELSE "STACK_OVERFLOW"
        /\ stack_region(Len(op.put)) =
             IF hit(SP - Len(op.put), Len(op.put)) THEN "REGION_VIOL" ELSE "OK"
    BY <2>1, PlainChecks
  <2>. QED BY <1>5, <2>3, <2>4, Row2, SMT DEF refusal
<1>6. CASE op.kind = "ST"
  <2>1. op.at \in Nat /\ Len(op.put) \in Nat
    BY <1>6, OpParts, Numbers, SMT
  <2>2. checks(op) = <<mem(op.at, Len(op.put)), region(op.at .. op.at + Len(op.put) - 1)>>
    BY <1>6, SMT DEF checks
  <2>3. verdict(op) = first_of(<<mem(op.at, Len(op.put)), region(op.at .. op.at + Len(op.put) - 1)>>)
    BY <1>1, <2>2
  <2>4. /\ mem(op.at, Len(op.put)) =
             IF op.at + Len(op.put) > DataSize THEN "DATA_OOB" ELSE "OK"
        /\ region(op.at .. op.at + Len(op.put) - 1) =
             IF hit(op.at, Len(op.put)) THEN "REGION_VIOL" ELSE "OK"
    BY <2>1, PlainChecks
  <2>. QED BY <1>6, <2>3, <2>4, Row2, SMT DEF refusal
<1>7. CASE op.kind = "LD"
  <2>1. op.at \in Nat /\ op.n \in Nat
    BY <1>7, OpParts, Numbers, SMT
  <2>2. checks(op) = <<mem(op.at, op.n)>>
    BY <1>7, SMT DEF checks
  <2>3. verdict(op) = first_of(<<mem(op.at, op.n)>>)
    BY <1>1, <2>2
  <2>4. mem(op.at, op.n) = IF op.at + op.n > DataSize THEN "DATA_OOB" ELSE "OK"
    BY <2>1, PlainChecks
  <2>. QED BY <1>7, <2>3, <2>4, Row1, SMT DEF refusal
<1>8. CASE op.kind = "LDC"
  <2>1. op.at \in Nat /\ CodeLen \in Nat
    BY <1>8, OpParts, Numbers, SMT
  <2>2. checks(op) = <<holds(op.at < CodeLen, "CODE_OOB")>>
    BY <1>8, SMT DEF checks
  <2>3. verdict(op) = first_of(<<holds(op.at < CodeLen, "CODE_OOB")>>)
    BY <1>1, <2>2
  <2>. QED BY <1>8, <2>1, <2>3, Row1, SMT DEF holds, refusal, far
<1>9. CASE op.kind = "STC"
  <2>1. op.at \in Nat /\ CodeLen \in Nat
    BY <1>9, OpParts, Numbers, SMT
  <2>2. checks(op) = <<holds(op.at < CodeLen, "CODE_OOB"),
                             holds(op.at \in Window, "WINDOW")>>
    BY <1>9, SMT DEF checks
  <2>3. verdict(op) = first_of(<<holds(op.at < CodeLen, "CODE_OOB"),
                             holds(op.at \in Window, "WINDOW")>>)
    BY <1>1, <2>2
  <2>. QED BY <1>9, <2>1, <2>3, Row2, SMT DEF holds, refusal, far
<1>10. CASE op.kind = "SETSP"
  <2>1. op.to \in Nat /\ DataSize \in Nat
    BY <1>10, OpParts, Numbers, SMT
  <2>2. checks(op) = <<holds(op.to <= DataSize, "DATA_OOB")>>
    BY <1>10, SMT DEF checks
  <2>3. verdict(op) = first_of(<<holds(op.to <= DataSize, "DATA_OOB")>>)
    BY <1>1, <2>2
  <2>. QED BY <1>10, <2>1, <2>3, Row1, SMT DEF holds, refusal
<1>11. CASE op.kind = "OUT"
  <2>1. out \in Nat /\ Outcap \in Nat
    BY <1>11, OpParts, Numbers, SMT
  <2>2. checks(op) = <<holds(out < Outcap, "OUT_CAP")>>
    BY <1>11, SMT DEF checks
  <2>3. verdict(op) = first_of(<<holds(out < Outcap, "OUT_CAP")>>)
    BY <1>1, <2>2
  <2>. QED BY <1>11, <2>1, <2>3, Row1, SMT DEF holds, refusal
<1>12. CASE op.kind = "OUTM"
  <2>1. op.at \in Nat /\ 1 \in Nat /\ DataSize \in Nat /\ out \in Nat /\ Outcap \in Nat
    BY <1>12, OpParts, Numbers, SMT
  <2>2. checks(op) = <<mem(op.at, 1), holds(out < Outcap, "OUT_CAP")>>
    BY <1>12, SMT DEF checks
  <2>3. verdict(op) = first_of(<<mem(op.at, 1), holds(out < Outcap, "OUT_CAP")>>)
    BY <1>1, <2>2
  <2>4. mem(op.at, 1) = IF op.at >= DataSize THEN "DATA_OOB" ELSE "OK"
    BY <2>1, PlainChecks, SMT
  <2>. QED BY <1>12, <2>1, <2>3, <2>4, Row2, SMT DEF holds, refusal
<1>13. CASE op.kind = "BAD"
  <2>1. checks(op) = <<"OTHER">>
    BY <1>13, SMT DEF checks
  <2>2. verdict(op) = first_of(<<"OTHER">>)
    BY <1>1, <2>1
  <2>. QED BY <1>13, <2>2, Row1, SMT DEF refusal
<1>14. CASE op.kind = "RET"
  <2>1. have(2) => returns_to \in Nat
    BY ReturnsTyped DEF have
  <2>2. checks(op) = IF stack_have(2) = "OK" THEN <<stack_have(2), pc_target(returns_to)>>
                     ELSE <<stack_have(2)>>
    BY <1>14, SMT DEF checks
  <2>3. stack_have(2) = IF have(2) THEN "OK" ELSE "STACK_UNDERFLOW"
    BY PlainChecks
  <2>4. CASE have(2)
    <3>1. verdict(op) = first_of(<<stack_have(2), pc_target(returns_to)>>)
      BY <1>1, <2>2, <2>3, <2>4
    <3>. QED BY <1>14, <2>1, <2>3, <2>4, <3>1, Row2, PlainChecks, SMT DEF refusal
  <2>5. CASE ~have(2)
    <3>1. verdict(op) = first_of(<<stack_have(2)>>)
      BY <1>1, <2>2, <2>3, <2>5, SMT
    <3>. QED BY <1>14, <2>3, <2>5, <3>1, Row1, SMT DEF refusal
  <2>. QED BY <2>4, <2>5
<1>15. CASE op.kind = "TRAPRET"
  <2>1. have(4) => returns_to \in Nat
    <3>1. have(4) => SP + 2 <= DataSize
      BY Numbers, SMT DEF have
    <3>. QED BY <3>1, ReturnsTyped
  <2>2. checks(op) =
          IF stack_have(4) = "OK"
          THEN <<holds(TDEPTH # 0, "TRAP_UNBALANCED"), stack_have(4),
                 holds(data[SP + 3] = TRAP_TAG, "TRAP_FRAME"), pc_target(returns_to)>>
          ELSE <<holds(TDEPTH # 0, "TRAP_UNBALANCED"), stack_have(4)>>
    BY <1>15, SMT DEF checks
  <2>3. stack_have(4) = IF have(4) THEN "OK" ELSE "STACK_UNDERFLOW"
    BY PlainChecks
  <2>4. CASE have(4)
    <3>1. verdict(op) = first_of(<<holds(TDEPTH # 0, "TRAP_UNBALANCED"), stack_have(4),
                                   holds(data[SP + 3] = TRAP_TAG, "TRAP_FRAME"),
                                   pc_target(returns_to)>>)
      BY <1>1, <2>2, <2>3, <2>4
    <3>. QED BY <1>15, <2>1, <2>3, <2>4, <3>1, Row4, PlainChecks, SMT DEF refusal, holds
  <2>5. CASE ~have(4)
    <3>1. verdict(op) = first_of(<<holds(TDEPTH # 0, "TRAP_UNBALANCED"), stack_have(4)>>)
      BY <1>1, <2>2, <2>3, <2>5, SMT
    <3>. QED BY <1>15, <2>3, <2>5, <3>1, Row2, SMT DEF refusal, holds
  <2>. QED BY <2>4, <2>5
<1>16. CASE op.kind = "EXT"
  <2>1. op.k \in Nat /\ Len(Vec) \in Nat
    BY <1>16, OpParts, Numbers
  <2>2. checks(op) =
          IF op.k >= Len(Vec) THEN <<"TRAP_UNREG">>
          ELSE <<holds(vector(op.k) # 0, "TRAP_UNREG"), holds(TDEPTH # Tdlim, "TRAP_DEPTH"),
                 stack_room(4), pc_target(vector(op.k)), stack_region(4)>>
    BY <1>16, SMT DEF checks
  <2>3. CASE op.k >= Len(Vec)
    <3>1. verdict(op) = first_of(<<"TRAP_UNREG">>)
      BY <1>1, <2>2, <2>3
    <3>. QED BY <1>16, <2>3, <3>1, Row1, SMT DEF refusal
  <2>4. CASE op.k < Len(Vec)
    <3>1. vector(op.k) \in Nat
      BY <2>1, <2>4, VectorTyped
    <3>2. verdict(op) =
            first_of(<<holds(vector(op.k) # 0, "TRAP_UNREG"),
                       holds(TDEPTH # Tdlim, "TRAP_DEPTH"), stack_room(4),
                       pc_target(vector(op.k)), stack_region(4)>>)
      BY <1>1, <2>1, <2>2, <2>4, SMT
    <3>3. pc_target(vector(op.k)) = IF far(vector(op.k)) THEN "PC_ILLEGAL" ELSE "OK"
      BY <3>1, PlainChecks
    <3>4. /\ stack_room(4) = IF room(4) THEN "OK" ELSE "STACK_OVERFLOW"
          /\ stack_region(4) = IF hit(SP - 4, 4) THEN "REGION_VIOL" ELSE "OK"
      BY PlainChecks
    <3>. QED BY <1>16, <2>1, <2>4, <3>2, <3>3, <3>4, Row5, SMT DEF refusal, holds
  <2>. QED BY <2>1, <2>3, <2>4, SMT
<1>17. CASE op.kind \in {"HALT", "ALU"}
  <2>1. checks(op) = <<>>
    BY <1>17, SMT DEF checks
  <2>2. first_of(<<>>) = "OK"
    BY NoneNamed
  <2>. QED BY <1>1, <1>17, <2>1, <2>2, SMT DEF refusal
<1>. QED BY <1>2, <1>3, <1>4, <1>5, <1>6, <1>7, <1>8, <1>9, <1>10, <1>11, <1>12, <1>13, <1>14, <1>15, <1>16, <1>17, OpParts

\* The sites of a whole instruction, in plain conditions.
sites(op) ==
  IF pc_hit(op) /\ ~push_rows(op) /\ ~pop_rows(op) THEN "PC_ILLEGAL"
  ELSE IF op.kind = "BAD" THEN "OTHER"
  ELSE IF op.kind = "EXT" /\ ~ext_ok(op) THEN "TRAP_UNREG"
  ELSE IF op.kind = "EXT" /\ TDEPTH = Tdlim THEN "TRAP_DEPTH"
  ELSE IF op.kind = "TRAPRET" /\ TDEPTH = 0 THEN "TRAP_UNBALANCED"
  ELSE IF rd_rows(op) THEN "DATA_OOB"
  ELSE IF push_rows(op) THEN "STACK_OVERFLOW"
  ELSE IF pop_rows(op) THEN "STACK_UNDERFLOW"
  ELSE IF op.kind = "TRAPRET" /\ TDEPTH > 0 /\ have(4) /\ ~trap_tag THEN "TRAP_FRAME"
  ELSE IF op.kind \in {"LDC", "STC"} /\ far(op.at) THEN "CODE_OOB"
  ELSE IF op.kind = "STC" /\ op.at \notin Window THEN "WINDOW"
  ELSE IF op.kind = "SETSP" /\ op.to > DataSize THEN "DATA_OOB"
  ELSE IF emits(op) /\ out >= Outcap THEN "OUT_CAP"
  ELSE IF region_viol(stores(op, PC)) THEN "REGION_VIOL" ELSE "OK"

LEMMA TorchRow ==
  ASSUME TypeOK, NEW op \in Program, PC + op.len <= CodeLen
  PROVE  fault_cause(op) = sites(op)
<1>. DEFINE cs == fired(op)
<1>1. DOMAIN cs = 1 .. 16
  BY SMT DEF fired
<1>2. /\ cs[1] = IF pc_hit(op) /\ ~push_rows(op) /\ ~pop_rows(op) THEN "PC_ILLEGAL" ELSE "OK"
      /\ cs[2] = "OK" /\ cs[4] = "OK"
  BY TorchSites, SMT DEF fired, holds
<1>3. /\ cs[3] = IF op.kind = "BAD" THEN "OTHER" ELSE "OK"
      /\ cs[5] = IF op.kind = "EXT" /\ ~ext_ok(op) THEN "TRAP_UNREG" ELSE "OK"
      /\ cs[6] = IF op.kind = "EXT" /\ ext_ok(op) /\ TDEPTH = Tdlim THEN "TRAP_DEPTH" ELSE "OK"
      /\ cs[7] = IF op.kind = "TRAPRET" /\ TDEPTH = 0 THEN "TRAP_UNBALANCED" ELSE "OK"
  BY SMT DEF fired, holds
<1>4. /\ cs[8] = IF rd_rows(op) THEN "DATA_OOB" ELSE "OK"
      /\ cs[9] = IF push_rows(op) THEN "STACK_OVERFLOW" ELSE "OK"
      /\ cs[10] = IF pop_rows(op) THEN "STACK_UNDERFLOW" ELSE "OK"
      /\ cs[11] = IF op.kind = "TRAPRET" /\ TDEPTH > 0 /\ have(4) /\ ~trap_tag
                  THEN "TRAP_FRAME" ELSE "OK"
  BY SMT DEF fired, holds, sp_hi, have
<1>5. /\ cs[12] = IF op.kind \in {"LDC", "STC"} /\ far(op.at) THEN "CODE_OOB" ELSE "OK"
      /\ cs[13] = IF op.kind = "STC" /\ ~far(op.at) /\ op.at \notin Window
                  THEN "WINDOW" ELSE "OK"
  <2>1. op.kind \in {"LDC", "STC"} => (code_ok(op) <=> ~far(op.at))
    BY OpParts, Numbers, SMT DEF code_ok, far
  <2>. QED BY <2>1, SMT DEF fired, holds
<1>6. cs[14] = IF op.kind = "SETSP" /\ op.to > DataSize THEN "DATA_OOB" ELSE "OK"
  <2>1. op.kind = "SETSP" => (op.to <= DataSize <=> ~(op.to > DataSize))
    BY OpParts, Numbers, SMT
  <2>. QED BY <2>1, SMT DEF fired, holds
<1>7. cs[15] = IF emits(op) /\ out >= Outcap THEN "OUT_CAP" ELSE "OK"
  <2>1. out < Outcap <=> ~(out >= Outcap)
    BY Numbers, SMT
  <2>. QED BY <2>1, SMT DEF fired, holds
<1>8. cs[16] = IF region_viol(stores(op, PC)) THEN "REGION_VIOL" ELSE "OK"
  BY SMT DEF fired, holds
<1>9. fault_cause(op) = first_of(cs)
  BY DEF fault_cause
<1>. HIDE DEF cs
<1>10. first_of(cs) = sites(op)
  BY <1>1, <1>2, <1>3, <1>4, <1>5, <1>6, <1>7, <1>8, First16, SMT DEF sites
<1>. QED BY <1>9, <1>10

\* The masks of the stack are the reference's two checks.
LEMMA StackMasks ==
  ASSUME TypeOK, NEW op \in Program
  PROVE  /\ pushes(op) \in Nat /\ pops(op) \in Nat
         /\ push_rows(op) <=> pushes(op) > 0 /\ ~room(pushes(op))
         /\ pop_rows(op) <=> pops(op) > 0 /\ ~have(pops(op))
         /\ sp_hi(4) <=> have(4)
         /\ \A n \in Nat : no_room(n) <=> ~room(n)
<1>1. SP \in Nat /\ Splim \in Nat /\ DataSize \in Nat
  BY Numbers
<1>2. pushes(op) \in Nat
  BY OpParts, SMT DEF pushes
<1>3. pops(op) \in Nat
  BY OpParts, SMT DEF pops
<1>4. sp_lo(pushes(op)) <=> room(pushes(op))
  BY <1>1, <1>2, SMT DEF sp_lo, room
<1>5. ASSUME NEW n \in Nat PROVE no_room(n) <=> ~room(n)
  BY <1>1, SMT DEF no_room, room
<1>. QED BY <1>2, <1>3, <1>4, <1>5 DEF push_rows, pop_rows, sp_hi, have

LEMMA HitCells ==
  ASSUME NEW lo \in Int
  PROVE  /\ hit(lo, 1) <=> lo \in Protected
         /\ hit(lo, 2) <=> lo \in Protected \/ lo + 1 \in Protected
         /\ hit(lo, 4) <=> \/ lo \in Protected \/ lo + 1 \in Protected
                           \/ lo + 2 \in Protected \/ lo + 3 \in Protected
<1>1. lo + 0 = lo
  OBVIOUS
<1>2. 0 .. 1 - 1 = {0} /\ 0 .. 2 - 1 = {0, 1} /\ 0 .. 4 - 1 = {0, 1, 2, 3}
  BY SMT
<1>. QED BY <1>1, <1>2 DEF hit

LEMMA PortCells ==
  ASSUME NEW ws
  PROVE  /\ DOMAIN ws = 1 .. 1 => (region_viol(ws) <=> ws[1].at \in Protected)
         /\ DOMAIN ws = 1 .. 2 =>
              (region_viol(ws) <=> ws[1].at \in Protected \/ ws[2].at \in Protected)
         /\ DOMAIN ws = 1 .. 4 =>
              (region_viol(ws) <=> \/ ws[1].at \in Protected \/ ws[2].at \in Protected
                                   \/ ws[3].at \in Protected \/ ws[4].at \in Protected)
<1>1. 1 .. 1 = {1} /\ 1 .. 2 = {1, 2} /\ 1 .. 4 = {1, 2, 3, 4}
  BY SMT
<1>. QED BY <1>1 DEF region_viol

\* The cells the write ports would write are the ones the reference checks.
LEMMA PortsHit ==
  ASSUME TypeOK, NEW op \in Program, NEW ret
  PROVE  region_viol(stores(op, ret)) <=>
           \/ op.kind = "CALL" /\ hit(SP - 2, 2)
           \/ op.kind = "EXT" /\ hit(SP - 4, 4)
           \/ op.kind = "PUSH" /\ hit(SP - Len(op.put), Len(op.put))
           \/ op.kind = "ST" /\ hit(op.at, Len(op.put))
<1>. DEFINE ws == stores(op, ret)
<1>1. SP \in Int
  BY Numbers
<1>2. CASE op.kind = "CALL"
  <2>1. DOMAIN ws = 1 .. 2 /\ ws[1].at = SP - 1 /\ ws[2].at = SP - 2
    BY <1>2, SMT DEF stores
  <2>. HIDE DEF ws
  <2>2. region_viol(ws) <=> hit(SP - 2, 2)
    BY <1>1, <2>1, SMT DEF region_viol, hit
  <2>. QED BY <1>2, <2>2 DEF ws
<1>3. CASE op.kind = "EXT"
  <2>1. DOMAIN ws = 1 .. 4
    BY <1>3, SMT DEF stores
  <2>2. ws[1].at = SP - 1 /\ ws[2].at = SP - 2 /\ ws[3].at = SP - 3 /\ ws[4].at = SP - 4
    BY <1>3, SMT DEF stores
  <2>. HIDE DEF ws
  <2>3. SP - 4 + 1 = SP - 3 /\ SP - 4 + 2 = SP - 2 /\ SP - 4 + 3 = SP - 1
    BY <1>1, SMT
  <2>4. SP - 4 \in Int
    BY <1>1
  <2>5. region_viol(ws) <=> hit(SP - 4, 4)
    BY <2>1, <2>2, <2>3, <2>4, HitCells, PortCells
  <2>. QED BY <1>3, <2>5 DEF ws
<1>4. CASE op.kind = "PUSH"
  <2>1. Len(op.put) \in {1, 2} /\ op.put \in Seq(Byte)
    BY <1>4, OpParts
  <2>2. ws = [i \in DOMAIN op.put |-> [at |-> SP - i, val |-> op.put[Len(op.put) + 1 - i]]]
    BY <1>4, SMT DEF stores
  <2>3. DOMAIN ws = 1 .. Len(op.put) /\ \A i \in DOMAIN ws : ws[i].at = SP - i
    BY <2>1, <2>2, SMT
  <2>. HIDE DEF ws
  <2>4. region_viol(ws) <=> hit(SP - Len(op.put), Len(op.put))
    <3>1. CASE Len(op.put) = 1
      <4>1. region_viol(ws) <=> SP - 1 \in Protected
        BY <2>3, <3>1, PortCells
      <4>. QED BY <1>1, <3>1, <4>1, HitCells
    <3>2. CASE Len(op.put) = 2
      <4>1. region_viol(ws) <=> SP - 1 \in Protected \/ SP - 2 \in Protected
        <5>1. ws[1].at = SP - 1 /\ ws[2].at = SP - 2
          BY <2>3, <3>2, SMT
        <5>. QED BY <2>3, <3>2, <5>1, PortCells
      <4>2. SP - 2 + 1 = SP - 1 /\ SP - 2 \in Int
        BY <1>1, SMT
      <4>. QED BY <3>2, <4>1, <4>2, HitCells
    <3>. QED BY <2>1, <3>1, <3>2
  <2>. QED BY <1>4, <2>4 DEF ws
<1>5. CASE op.kind = "ST"
  <2>1. Len(op.put) \in {1, 2} /\ op.put \in Seq(Byte) /\ op.at \in Nat
    BY <1>5, OpParts
  <2>2. ws = [i \in DOMAIN op.put |-> [at |-> op.at + i - 1, val |-> op.put[i]]]
    BY <1>5, SMT DEF stores
  <2>3. DOMAIN ws = 1 .. Len(op.put) /\ \A i \in DOMAIN ws : ws[i].at = op.at + i - 1
    BY <2>1, <2>2, SMT
  <2>. HIDE DEF ws
  <2>4. region_viol(ws) <=> hit(op.at, Len(op.put))
    <3>1. op.at + 1 - 1 = op.at /\ op.at + 2 - 1 = op.at + 1 /\ op.at \in Int
      BY <2>1, SMT
    <3>2. CASE Len(op.put) = 1
      <4>1. ws[1].at = op.at
        BY <2>3, <3>1, <3>2, SMT
      <4>. QED BY <2>3, <3>1, <3>2, <4>1, HitCells, PortCells
    <3>3. CASE Len(op.put) = 2
      <4>1. ws[1].at = op.at /\ ws[2].at = op.at + 1
        BY <2>3, <3>1, <3>3, SMT
      <4>. QED BY <2>3, <3>1, <3>3, <4>1, HitCells, PortCells
    <3>. QED BY <2>1, <3>2, <3>3
  <2>. QED BY <1>5, <2>4 DEF ws
<1>6. CASE op.kind \notin {"CALL", "EXT", "PUSH", "ST"}
  <2>1. ws = <<>>
    BY <1>6, SMT DEF stores
  <2>. QED BY <1>6, <2>1, SMT DEF region_viol
<1>. QED BY <1>2, <1>3, <1>4, <1>5, <1>6

\* The masked circuit names the same cause.
LEMMA TorchNames ==
  ASSUME TypeOK, NEW op \in Program, PC + op.len <= CodeLen
  PROVE  fault_cause(op) = refusal(op)
<1>1. fault_cause(op) = sites(op)
  BY TorchRow
<1>2. /\ push_rows(op) <=> pushes(op) > 0 /\ ~room(pushes(op))
      /\ pop_rows(op) <=> pops(op) > 0 /\ ~have(pops(op))
  BY StackMasks
<1>3. region_viol(stores(op, PC)) <=>
        \/ op.kind = "CALL" /\ hit(SP - 2, 2)
        \/ op.kind = "EXT" /\ hit(SP - 4, 4)
        \/ op.kind = "PUSH" /\ hit(SP - Len(op.put), Len(op.put))
        \/ op.kind = "ST" /\ hit(op.at, Len(op.put))
  BY PortsHit
<1>4. pc_hit(op) <=>
        /\ moves(op) /\ far(rows_PC(op))
        /\ op.kind = "TRAPRET" => trapret_live
        /\ op.kind = "EXT" => ext_ok(op) /\ TDEPTH # Tdlim
  BY DEF pc_hit, far
<1>5. CASE op.kind = "JMP"
  <2>1. ~push_rows(op) /\ ~pop_rows(op) /\ ~rd_rows(op) /\ moves(op) /\ rows_PC(op) = op.to
    BY <1>5, <1>2, SMT DEF pushes, pops, rd_rows, rows_PC, moves
  <2>. QED BY <1>5, <1>1, <1>3, <1>4, <2>1, SMT DEF sites, emits, refusal
<1>6. CASE op.kind = "CALL"
  <2>1. /\ (push_rows(op) <=> ~room(2)) /\ ~pop_rows(op) /\ ~rd_rows(op)
        /\ moves(op) /\ rows_PC(op) = op.to
    BY <1>6, <1>2, SMT DEF pushes, pops, rd_rows, rows_PC, moves
  <2>. QED BY <1>6, <1>1, <1>3, <1>4, <2>1, SMT DEF sites, emits, refusal
<1>7. CASE op.kind = "PUSH"
  <2>1. Len(op.put) \in {1, 2}
    BY <1>7, OpParts
  <2>2. pushes(op) = Len(op.put) /\ pops(op) = 0 /\ ~rd_rows(op) /\ ~moves(op)
    BY <1>7, SMT DEF pushes, pops, rd_rows, rows_PC, moves
  <2>3. (push_rows(op) <=> ~room(Len(op.put))) /\ ~pop_rows(op)
    <3>1. Len(op.put) > 0 /\ ~(0 > 0)
      BY <2>1
    <3>. QED BY <1>2, <2>2, <3>1
  <2>. QED BY <1>7, <1>1, <1>3, <1>4, <2>2, <2>3, SMT DEF sites, emits, refusal
<1>8. CASE op.kind = "POP"
  <2>1. op.n \in {1, 2}
    BY <1>8, OpParts
  <2>2. /\ ~push_rows(op) /\ (pop_rows(op) <=> ~have(op.n))
        /\ ~rd_rows(op) /\ ~moves(op)
    BY <1>8, <2>1, <1>2, SMT DEF pushes, pops, rd_rows, rows_PC, moves
  <2>. QED BY <1>8, <1>1, <1>3, <1>4, <2>1, <2>2, SMT DEF sites, emits, refusal
<1>9. CASE op.kind = "ST"
  <2>1. ~push_rows(op) /\ ~pop_rows(op) /\ ~moves(op)
        /\ (rd_rows(op) <=> op.at + Len(op.put) > DataSize)
    BY <1>9, <1>2, SMT DEF pushes, pops, rd_rows, rows_PC, moves
  <2>. QED BY <1>9, <1>1, <1>3, <1>4, <2>1, SMT DEF sites, emits, refusal
<1>10. CASE op.kind = "LD"
  <2>1. ~push_rows(op) /\ ~pop_rows(op) /\ ~moves(op)
        /\ (rd_rows(op) <=> op.at + op.n > DataSize)
    BY <1>10, <1>2, SMT DEF pushes, pops, rd_rows, rows_PC, moves
  <2>. QED BY <1>10, <1>1, <1>3, <1>4, <2>1, SMT DEF sites, emits, refusal
<1>11. CASE op.kind = "OUTM"
  <2>1. ~push_rows(op) /\ ~pop_rows(op) /\ ~moves(op)
        /\ (rd_rows(op) <=> op.at >= DataSize)
    BY <1>11, <1>2, SMT DEF pushes, pops, rd_rows, rows_PC, moves
  <2>. QED BY <1>11, <1>1, <1>3, <1>4, <2>1, SMT DEF sites, emits, refusal
<1>12. CASE op.kind = "LDC"
  <2>1. ~push_rows(op) /\ ~pop_rows(op) /\ ~rd_rows(op) /\ ~moves(op)
    BY <1>12, <1>2, SMT DEF pushes, pops, rd_rows, rows_PC, moves
  <2>. QED BY <1>12, <1>1, <1>3, <1>4, <2>1, SMT DEF sites, emits, refusal
<1>13. CASE op.kind = "STC"
  <2>1. ~push_rows(op) /\ ~pop_rows(op) /\ ~rd_rows(op) /\ ~moves(op)
    BY <1>13, <1>2, SMT DEF pushes, pops, rd_rows, rows_PC, moves
  <2>. QED BY <1>13, <1>1, <1>3, <1>4, <2>1, SMT DEF sites, emits, refusal
<1>14. CASE op.kind = "SETSP"
  <2>1. ~push_rows(op) /\ ~pop_rows(op) /\ ~rd_rows(op) /\ ~moves(op)
    BY <1>14, <1>2, SMT DEF pushes, pops, rd_rows, rows_PC, moves
  <2>. QED BY <1>14, <1>1, <1>3, <1>4, <2>1, SMT DEF sites, emits, refusal
<1>15. CASE op.kind = "OUT"
  <2>1. ~push_rows(op) /\ ~pop_rows(op) /\ ~rd_rows(op) /\ ~moves(op)
    BY <1>15, <1>2, SMT DEF pushes, pops, rd_rows, rows_PC, moves
  <2>. QED BY <1>15, <1>1, <1>3, <1>4, <2>1, SMT DEF sites, emits, refusal
<1>16. CASE op.kind = "BAD"
  <2>1. ~push_rows(op) /\ ~pop_rows(op) /\ ~rd_rows(op) /\ ~moves(op)
    BY <1>16, <1>2, SMT DEF pushes, pops, rd_rows, rows_PC, moves
  <2>. QED BY <1>16, <1>1, <1>3, <1>4, <2>1, SMT DEF sites, emits, refusal
<1>17. CASE op.kind = "HALT"
  <2>1. ~push_rows(op) /\ ~pop_rows(op) /\ ~rd_rows(op) /\ ~moves(op)
    BY <1>17, <1>2, SMT DEF pushes, pops, rd_rows, rows_PC, moves
  <2>. QED BY <1>17, <1>1, <1>3, <1>4, <2>1, SMT DEF sites, emits, refusal
<1>18. CASE op.kind = "ALU"
  <2>1. ~push_rows(op) /\ ~pop_rows(op) /\ ~rd_rows(op) /\ ~moves(op)
    BY <1>18, <1>2, SMT DEF pushes, pops, rd_rows, rows_PC, moves
  <2>. QED BY <1>18, <1>1, <1>3, <1>4, <2>1, SMT DEF sites, emits, refusal
<1>19. CASE op.kind = "RET"
  <2>1. /\ ~push_rows(op) /\ (pop_rows(op) <=> ~have(2)) /\ ~rd_rows(op)
        /\ moves(op) /\ rows_PC(op) = retv
    BY <1>19, <1>2, SMT DEF pushes, pops, rd_rows, rows_PC, moves
  <2>2. have(2) => retv = returns_to
    BY TorchReads DEF have
  <2>. QED BY <1>19, <1>1, <1>3, <1>4, <2>1, <2>2, SMT DEF sites, emits, refusal
<1>20. CASE op.kind = "TRAPRET"
  <2>1. /\ ~push_rows(op) /\ (pop_rows(op) <=> ~have(4)) /\ ~rd_rows(op)
        /\ moves(op) /\ rows_PC(op) = retv
    BY <1>20, <1>2, SMT DEF pushes, pops, rd_rows, rows_PC, moves
  <2>2. have(4) => retv = returns_to /\ (trap_tag <=> data[SP + 3] = TRAP_TAG)
    BY TorchReads DEF have
  <2>3. trapret_live <=> TDEPTH > 0 /\ have(4) /\ trap_tag
    BY StackMasks DEF trapret_live
  <2>4. TDEPTH > 0 <=> TDEPTH # 0
    BY Numbers, SMT
  <2>. QED BY <1>20, <1>1, <1>3, <1>4, <2>1, <2>2, <2>3, <2>4, SMT DEF sites, emits, refusal
<1>21. CASE op.kind = "EXT"
  <2>1. /\ (push_rows(op) <=> ~room(4)) /\ ~pop_rows(op) /\ ~rd_rows(op)
        /\ moves(op) /\ rows_PC(op) = vec(op)
    BY <1>21, <1>2, SMT DEF pushes, pops, rd_rows, rows_PC, moves
  <2>2. op.k \in Nat /\ Len(Vec) \in Nat
    BY <1>21, OpParts, Numbers
  <2>3. op.k < Len(Vec) => vec(op) = vector(op.k)
    BY <1>21, <2>2, TorchVector
  <2>4. ext_ok(op) <=> op.k < Len(Vec) /\ vector(op.k) # 0
    BY <2>3 DEF ext_ok
  <2>5. op.k < Len(Vec) <=> ~(op.k >= Len(Vec))
    BY <2>2, SMT
  <2>. QED
    BY <1>21, <1>1, <1>3, <1>4, <2>1, <2>3, <2>4, <2>5, SMT DEF sites, emits, refusal
<1>. QED BY <1>5, <1>6, <1>7, <1>8, <1>9, <1>10, <1>11, <1>12, <1>13, <1>14, <1>15, <1>16, <1>17, <1>18, <1>19, <1>20, <1>21, OpParts

\* The kernel, whose last three checks come after the branch.
LEMMA KernelFetches ==
  ASSUME TypeOK, NEW op \in Program
  PROVE  /\ PC + op.len <= CodeLen => named(op) = branch_cause(op)
         /\ PC + op.len > CodeLen => tick_cause(op) = "FETCH_OOB"
<1>1. PC \in Nat /\ CodeLen \in Nat /\ op.len \in Nat \ {0}
  BY Numbers
<1>2. op \in Escaped => op.len >= PREFIX_BYTES
  BY CircuitAssumption
<1>3. fetched(op) <=> PC + op.len <= CodeLen
  BY <1>1, <1>2, SMT DEF fetched, PREFIX_BYTES
<1>4. PC + op.len > CodeLen => ~(PC + op.len <= CodeLen)
  BY <1>1, SMT
<1>. QED BY <1>3, <1>4 DEF named, tick_cause

LEMMA KernelRow ==
  ASSUME TypeOK, NEW op \in Program, PC + op.len <= CodeLen
  PROVE  tick_cause(op) =
           IF branch_cause(op) # "OK" THEN branch_cause(op)
           ELSE IF emits(op) /\ out >= Outcap THEN "OUT_CAP"
           ELSE IF moves(op) /\ ~(nPC(op) < CodeLen) THEN "PC_ILLEGAL"
           ELSE IF region_viol(stores(op, PC + op.len)) THEN "REGION_VIOL" ELSE "OK"
<1>1. named(op) = branch_cause(op)
  BY KernelFetches
<1>2. out < Outcap <=> ~(out >= Outcap)
  BY Numbers, SMT
<1>. DEFINE a == holds(emits(op) => out < Outcap, "OUT_CAP")
            b == holds(moves(op) => nPC(op) < CodeLen, "PC_ILLEGAL")
            c == holds(~region_viol(stores(op, PC + op.len)), "REGION_VIOL")
<1>3. first_of(<<a, b, c>>) = IF a # "OK" THEN a ELSE IF b # "OK" THEN b ELSE c
  <2>. HIDE DEF a, b, c
  <2>. QED BY Row3, SMT
<1>4. /\ a = IF emits(op) /\ out >= Outcap THEN "OUT_CAP" ELSE "OK"
      /\ b = IF moves(op) /\ ~(nPC(op) < CodeLen) THEN "PC_ILLEGAL" ELSE "OK"
      /\ c = IF region_viol(stores(op, PC + op.len)) THEN "REGION_VIOL" ELSE "OK"
  <2>1. a = IF emits(op) /\ out >= Outcap THEN "OUT_CAP" ELSE "OK"
    BY <1>2, Zenon DEF holds
  <2>2. b = IF moves(op) /\ ~(nPC(op) < CodeLen) THEN "PC_ILLEGAL" ELSE "OK"
    BY Zenon DEF holds
  <2>3. c = IF region_viol(stores(op, PC + op.len)) THEN "REGION_VIOL" ELSE "OK"
    BY Zenon DEF holds
  <2>. QED BY <2>1, <2>2, <2>3, Zenon
<1>5. tick_cause(op) = IF named(op) # "OK" THEN named(op) ELSE first_of(<<a, b, c>>)
  BY DEF tick_cause
<1>. HIDE DEF a, b, c
<1>. QED BY <1>1, <1>3, <1>4, <1>5, SMT

\* The kernel names the same cause too.
LEMMA KernelNames ==
  ASSUME TypeOK, NEW op \in Program, PC + op.len <= CodeLen
  PROVE  tick_cause(op) = refusal(op)
<1>1. tick_cause(op) =
           IF branch_cause(op) # "OK" THEN branch_cause(op)
           ELSE IF emits(op) /\ out >= Outcap THEN "OUT_CAP"
           ELSE IF moves(op) /\ ~(nPC(op) < CodeLen) THEN "PC_ILLEGAL"
           ELSE IF region_viol(stores(op, PC + op.len)) THEN "REGION_VIOL" ELSE "OK"
  BY KernelRow
<1>2. \A n \in Nat : no_room(n) <=> ~room(n)
  BY OpParts, StackMasks
<1>3. region_viol(stores(op, PC + op.len)) <=>
        \/ op.kind = "CALL" /\ hit(SP - 2, 2)
        \/ op.kind = "EXT" /\ hit(SP - 4, 4)
        \/ op.kind = "PUSH" /\ hit(SP - Len(op.put), Len(op.put))
        \/ op.kind = "ST" /\ hit(op.at, Len(op.put))
  BY PortsHit
<1>4. \A t \in Nat : far(t) <=> ~(t < CodeLen)
  BY Numbers, SMT DEF far
<1>5. SP \in Nat /\ DataSize \in Nat /\ CodeLen \in Nat
  BY Numbers
<1>6. CASE op.kind = "JMP"
  <2>1. op.to \in Nat
    BY <1>6, OpParts
  <2>2. branch_cause(op) = "OK"
    BY <1>6, <1>2, <1>4, <1>5, <2>1, SMT DEF branch_cause, holds, have, stc_cause
  <2>3. moves(op) /\ (nPC(op) < CodeLen <=> ~far(op.to))
    BY <1>6, <2>1, <1>4, SMT DEF moves, nPC
  <2>. QED BY <1>6, <1>1, <1>3, <2>2, <2>3, SMT DEF emits, refusal
<1>7. CASE op.kind = "CALL"
  <2>1. op.to \in Nat
    BY <1>7, OpParts
  <2>2. branch_cause(op) = IF room(2) THEN "OK" ELSE "STACK_OVERFLOW"
    BY <1>7, <1>2, <1>4, <1>5, <2>1, SMT DEF branch_cause, holds, have, stc_cause
  <2>3. moves(op) /\ (nPC(op) < CodeLen <=> ~far(op.to))
    BY <1>7, <2>1, <1>4, SMT DEF moves, nPC
  <2>. QED BY <1>7, <1>1, <1>3, <2>2, <2>3, SMT DEF emits, refusal
<1>8. CASE op.kind = "PUSH"
  <2>1. Len(op.put) \in {1, 2}
    BY <1>8, OpParts
  <2>2. branch_cause(op) = IF room(Len(op.put)) THEN "OK" ELSE "STACK_OVERFLOW"
    BY <1>8, <1>2, <1>4, <1>5, <2>1, SMT DEF branch_cause, holds, have, stc_cause
  <2>3. ~moves(op)
    BY <1>8, <2>1, <1>4, SMT DEF moves, nPC
  <2>. QED BY <1>8, <1>1, <1>3, <2>2, <2>3, SMT DEF emits, refusal
<1>9. CASE op.kind = "POP"
  <2>1. op.n \in {1, 2}
    BY <1>9, OpParts
  <2>2. branch_cause(op) = IF have(op.n) THEN "OK" ELSE "STACK_UNDERFLOW"
    BY <1>9, <1>2, <1>4, <1>5, <2>1, SMT DEF branch_cause, holds, have, stc_cause
  <2>3. ~moves(op)
    BY <1>9, <2>1, <1>4, SMT DEF moves, nPC
  <2>. QED BY <1>9, <1>1, <1>3, <2>2, <2>3, SMT DEF emits, refusal
<1>10. CASE op.kind = "ST"
  <2>1. op.at \in Nat /\ Len(op.put) \in {1, 2}
    BY <1>10, OpParts
  <2>2. branch_cause(op) = IF op.at + Len(op.put) > DataSize THEN "DATA_OOB" ELSE "OK"
    BY <1>10, <1>2, <1>4, <1>5, <2>1, SMT DEF branch_cause, holds, have, stc_cause
  <2>3. ~moves(op)
    BY <1>10, <2>1, <1>4, SMT DEF moves, nPC
  <2>. QED BY <1>10, <1>1, <1>3, <2>2, <2>3, SMT DEF emits, refusal
<1>11. CASE op.kind = "LD"
  <2>1. op.at \in Nat /\ op.n \in {1, 2}
    BY <1>11, OpParts
  <2>2. branch_cause(op) = IF op.at + op.n > DataSize THEN "DATA_OOB" ELSE "OK"
    BY <1>11, <1>2, <1>4, <1>5, <2>1, SMT DEF branch_cause, holds, have, stc_cause
  <2>3. ~moves(op)
    BY <1>11, <2>1, <1>4, SMT DEF moves, nPC
  <2>. QED BY <1>11, <1>1, <1>3, <2>2, <2>3, SMT DEF emits, refusal
<1>12. CASE op.kind = "OUTM"
  <2>1. op.at \in Nat
    BY <1>12, OpParts
  <2>2. branch_cause(op) = IF op.at >= DataSize THEN "DATA_OOB" ELSE "OK"
    BY <1>12, <1>2, <1>4, <1>5, <2>1, SMT DEF branch_cause, holds, have, stc_cause
  <2>3. ~moves(op)
    BY <1>12, <2>1, <1>4, SMT DEF moves, nPC
  <2>. QED BY <1>12, <1>1, <1>3, <2>2, <2>3, SMT DEF emits, refusal
<1>13. CASE op.kind = "LDC"
  <2>1. op.at \in Nat
    BY <1>13, OpParts
  <2>2. branch_cause(op) = IF far(op.at) THEN "CODE_OOB" ELSE "OK"
    BY <1>13, <1>2, <1>4, <1>5, <2>1, SMT DEF branch_cause, holds, have, stc_cause
  <2>3. ~moves(op)
    BY <1>13, <2>1, <1>4, SMT DEF moves, nPC
  <2>. QED BY <1>13, <1>1, <1>3, <2>2, <2>3, SMT DEF emits, refusal
<1>14. CASE op.kind = "STC"
  <2>1. op.at \in Nat
    BY <1>14, OpParts
  <2>2. branch_cause(op) = stc_cause(op)
    BY <1>14, SMT DEF branch_cause
  <2>3. stc_cause(op) = IF far(op.at) THEN "CODE_OOB"
                        ELSE IF op.at \notin Window THEN "WINDOW" ELSE "OK"
    BY <1>4, <2>1, Row2, SMT DEF stc_cause, holds
  <2>4. ~moves(op)
    BY <1>14, SMT DEF moves
  <2>. QED BY <1>14, <1>1, <1>3, <2>2, <2>3, <2>4, SMT DEF emits, refusal
<1>15. CASE op.kind = "SETSP"
  <2>1. op.to \in Nat
    BY <1>15, OpParts
  <2>2. branch_cause(op) = IF op.to > DataSize THEN "DATA_OOB" ELSE "OK"
    BY <1>15, <1>2, <1>4, <1>5, <2>1, SMT DEF branch_cause, holds, have, stc_cause
  <2>3. ~moves(op)
    BY <1>15, <2>1, <1>4, SMT DEF moves, nPC
  <2>. QED BY <1>15, <1>1, <1>3, <2>2, <2>3, SMT DEF emits, refusal
<1>16. CASE op.kind = "BAD"
  <2>1. branch_cause(op) = "OTHER"
    BY <1>16, <1>2, <1>4, <1>5, SMT DEF branch_cause, holds, have, stc_cause
  <2>2. ~moves(op)
    BY <1>16, <1>4, SMT DEF moves, nPC
  <2>. QED BY <1>16, <1>1, <1>3, <2>1, <2>2, SMT DEF emits, refusal
<1>17. CASE op.kind = "OUT"
  <2>1. branch_cause(op) = "OK"
    BY <1>17, <1>2, <1>4, <1>5, SMT DEF branch_cause, holds, have, stc_cause
  <2>2. ~moves(op)
    BY <1>17, <1>4, SMT DEF moves, nPC
  <2>. QED BY <1>17, <1>1, <1>3, <2>1, <2>2, SMT DEF emits, refusal
<1>18. CASE op.kind = "HALT"
  <2>1. branch_cause(op) = "OK"
    BY <1>18, <1>2, <1>4, <1>5, SMT DEF branch_cause, holds, have, stc_cause
  <2>2. ~moves(op)
    BY <1>18, <1>4, SMT DEF moves, nPC
  <2>. QED BY <1>18, <1>1, <1>3, <2>1, <2>2, SMT DEF emits, refusal
<1>19. CASE op.kind = "ALU"
  <2>1. branch_cause(op) = "OK"
    BY <1>19, <1>2, <1>4, <1>5, SMT DEF branch_cause, holds, have, stc_cause
  <2>2. ~moves(op)
    BY <1>19, <1>4, SMT DEF moves, nPC
  <2>. QED BY <1>19, <1>1, <1>3, <2>1, <2>2, SMT DEF emits, refusal
<1>20. CASE op.kind = "RET"
  <2>1. branch_cause(op) = IF have(2) THEN "OK" ELSE "STACK_UNDERFLOW"
    <3>1. SP + 1 < DataSize <=> have(2)
      BY <1>5, SMT DEF have
    <3>. QED BY <1>20, <3>1, SMT DEF branch_cause, holds
  <2>2. moves(op) /\ nPC(op) = returns_to
    BY <1>20, SMT DEF moves, nPC, returns_to
  <2>3. have(2) => (returns_to < CodeLen <=> ~far(returns_to))
    BY <1>4, ReturnsTyped DEF have
  <2>. QED BY <1>20, <1>1, <1>3, <2>1, <2>2, <2>3, SMT DEF emits, refusal
<1>21. CASE op.kind = "TRAPRET"
  <2>1. branch_cause(op) = IF TDEPTH = 0 THEN "TRAP_UNBALANCED"
                           ELSE IF ~have(4) THEN "STACK_UNDERFLOW"
                           ELSE IF data[SP + 3] # TRAP_TAG THEN "TRAP_FRAME" ELSE "OK"
    <3>1. SP + 4 > DataSize <=> ~have(4)
      BY <1>5, SMT DEF have
    <3>. QED BY <1>21, <3>1, SMT DEF branch_cause, trapret_cause, holds
  <2>2. moves(op) /\ nPC(op) = returns_to
    BY <1>21, SMT DEF moves, nPC, returns_to
  <2>3. have(4) => (returns_to < CodeLen <=> ~far(returns_to))
    <3>1. have(4) => SP + 2 <= DataSize
      BY <1>5, SMT DEF have
    <3>. QED BY <1>4, <3>1, ReturnsTyped
  <2>. QED BY <1>21, <1>1, <1>3, <2>1, <2>2, <2>3, SMT DEF emits, refusal
<1>22. CASE op.kind = "EXT"
  <2>1. op.k \in Nat /\ Len(Vec) \in Nat
    BY <1>22, OpParts, Numbers
  <2>2. op.k >= Len(Vec) <=> ~(op.k < Len(Vec))
    BY <2>1, SMT
  <2>3. op.k < Len(Vec) => /\ vec_at(op.k) = vector(op.k)
                           /\ vector(op.k) < CodeLen <=> ~far(vector(op.k))
    BY <1>22, <1>4, <2>1, TorchVector, VectorTyped
  <2>4. branch_cause(op) = ext_cause(op)
    BY <1>22, SMT DEF branch_cause
  <2>5. ext_cause(op) = IF op.k >= Len(Vec) THEN "TRAP_UNREG"
                        ELSE IF vector(op.k) = 0 THEN "TRAP_UNREG"
                        ELSE IF TDEPTH = Tdlim THEN "TRAP_DEPTH"
                        ELSE IF ~room(4) THEN "STACK_OVERFLOW" ELSE "OK"
    BY <1>2, <2>2, <2>3, Row3, SMT DEF ext_cause, holds
  <2>6. moves(op) /\ nPC(op) = vec_at(op.k)
    BY <1>22, SMT DEF moves, nPC
  <2>. QED
    BY <1>22, <1>1, <1>3, <2>2, <2>3, <2>4, <2>5, <2>6, SMT DEF emits, refusal
<1>. QED BY <1>6, <1>7, <1>8, <1>9, <1>10, <1>11, <1>12, <1>13, <1>14, <1>15, <1>16, <1>17, <1>18, <1>19, <1>20, <1>21, <1>22, OpParts

\* Both circuits name what the reference names, and nothing where it names nothing.
LEMMA CausesAgree ==
  ASSUME TypeOK, NEW op \in Program
  PROVE  /\ fault_cause(op) = verdict(op)
         /\ tick_cause(op) = verdict(op)
         /\ passes(op) <=> verdict(op) = "OK"
<1>1. PC \in Nat /\ CodeLen \in Nat /\ op.len \in Nat
  BY Numbers
<1>2. CASE PC + op.len <= CodeLen
  BY <1>1, <1>2, ReferenceNames, TorchNames, KernelNames, VerdictRow
<1>3. CASE PC + op.len > CodeLen
  BY <1>1, <1>3, TorchFetch, KernelFetches, VerdictRow DEF verdict
<1>. QED BY <1>1, <1>2, <1>3, SMT

------------------------------------------------------------------------------
\* What a committed instruction leaves in DATA: the write ports, one after the
\* other, leave what the reference stores.
after(op, ret) ==
  CASE op.kind = "CALL" -> stored(SP - 2, <<high(ret), low(ret)>>)
    [] op.kind = "EXT"  -> stored(SP - 4, <<high(ret), low(ret), flags, TRAP_TAG>>)
    [] op.kind = "PUSH" -> stored(SP - Len(op.put), op.put)
    [] op.kind = "ST"   -> stored(op.at, op.put)
    [] OTHER -> data

LEMMA Landed1 ==
  ASSUME TypeOK, NEW ws, DOMAIN ws = 1 .. 1, ws[1].at \in Addr
  PROVE  landed(ws) = [c \in Addr |-> IF c = ws[1].at THEN ws[1].val ELSE data[c]]
<1>1. data \in [Addr -> Byte]
  BY DEF TypeOK
<1>2. 1 \in DOMAIN ws /\ 2 \notin DOMAIN ws /\ 3 \notin DOMAIN ws /\ 4 \notin DOMAIN ws
  BY SMT
<1>3. landed(ws) = [data EXCEPT ![ws[1].at] = ws[1].val]
  BY <1>2 DEF landed, port
<1>. QED BY <1>1, <1>3

LEMMA Landed2 ==
  ASSUME TypeOK, NEW ws, DOMAIN ws = 1 .. 2, ws[1].at \in Addr, ws[2].at \in Addr
  PROVE  landed(ws) = [c \in Addr |-> IF c = ws[2].at THEN ws[2].val
                                      ELSE IF c = ws[1].at THEN ws[1].val ELSE data[c]]
<1>1. data \in [Addr -> Byte]
  BY DEF TypeOK
<1>2. 1 \in DOMAIN ws /\ 2 \in DOMAIN ws /\ 3 \notin DOMAIN ws /\ 4 \notin DOMAIN ws
  BY SMT
<1>3. landed(ws) = [[data EXCEPT ![ws[1].at] = ws[1].val] EXCEPT ![ws[2].at] = ws[2].val]
  BY <1>2 DEF landed, port
<1>. QED BY <1>1, <1>3

LEMMA Landed4 ==
  ASSUME TypeOK, NEW ws, DOMAIN ws = 1 .. 4,
         ws[1].at \in Addr, ws[2].at \in Addr, ws[3].at \in Addr, ws[4].at \in Addr
  PROVE  landed(ws) = [c \in Addr |-> IF c = ws[4].at THEN ws[4].val
                                      ELSE IF c = ws[3].at THEN ws[3].val
                                      ELSE IF c = ws[2].at THEN ws[2].val
                                      ELSE IF c = ws[1].at THEN ws[1].val ELSE data[c]]
<1>1. data \in [Addr -> Byte]
  BY DEF TypeOK
<1>2. 1 \in DOMAIN ws /\ 2 \in DOMAIN ws /\ 3 \in DOMAIN ws /\ 4 \in DOMAIN ws
  BY SMT
<1>3. landed(ws) = [[[[data EXCEPT ![ws[1].at] = ws[1].val]
                        EXCEPT ![ws[2].at] = ws[2].val]
                        EXCEPT ![ws[3].at] = ws[3].val]
                        EXCEPT ![ws[4].at] = ws[4].val]
  BY <1>2 DEF landed, port
<1>. QED BY <1>1, <1>3

\* A store inside DATA is not wrapped.
LEMMA NotWrapped ==
  ASSUME NEW ws, NEW i \in DOMAIN ws, NEW a \in Addr, NEW v,
         ws[i] = [at |-> a, val |-> v]
  PROVE  wrapped(ws)[i] = ws[i] /\ DOMAIN wrapped(ws) = DOMAIN ws
<1>1. a % DataSize = a
  BY MachineAssumption, SMT DEF Addr
<1>2. wrapped(ws)[i] = [ws[i] EXCEPT !.at = ws[i].at % DataSize]
  BY DEF wrapped
<1>. QED BY <1>1, <1>2 DEF wrapped

\* Every port of a committed instruction writes inside DATA.
LEMMA PortsInData ==
  ASSUME TypeOK, NEW op \in Program, passes(op), NEW ret
  PROVE  /\ op.kind = "CALL" => SP - 1 \in Addr /\ SP - 2 \in Addr
         /\ op.kind = "EXT" =>
              SP - 1 \in Addr /\ SP - 2 \in Addr /\ SP - 3 \in Addr /\ SP - 4 \in Addr
         /\ op.kind = "PUSH" => \A i \in 1 .. Len(op.put) : SP - i \in Addr
         /\ op.kind = "ST" => \A i \in 1 .. Len(op.put) : op.at + i - 1 \in Addr
<1>1. SP \in Nat /\ SP <= DataSize /\ Splim \in Nat /\ DataSize \in Nat
  BY Numbers
<1>2. CASE op.kind = "CALL"
  <2>1. stack_room(2) = "OK"
    BY <1>2, Passed
  <2>2. Splim <= SP - 2
    BY <2>1, Zenon DEF stack_room, holds
  <2>. QED BY <1>1, <1>2, <2>2, SMT DEF Addr
<1>3. CASE op.kind = "EXT"
  <2>1. stack_room(4) = "OK"
    BY <1>3, Passed
  <2>2. Splim <= SP - 4
    BY <2>1, Zenon DEF stack_room, holds
  <2>. QED BY <1>1, <1>3, <2>2, SMT DEF Addr
<1>4. CASE op.kind = "PUSH"
  <2>1. stack_room(Len(op.put)) = "OK" /\ Len(op.put) \in {1, 2}
    BY <1>4, Passed, OpParts
  <2>2. Splim <= SP - Len(op.put)
    BY <2>1, Zenon DEF stack_room, holds
  <2>. QED BY <1>1, <1>4, <2>1, <2>2, SMT DEF Addr
<1>5. CASE op.kind = "ST"
  <2>1. op.at + Len(op.put) <= DataSize /\ op.at \in Nat /\ Len(op.put) \in {1, 2}
    BY <1>5, Passed, OpParts
  <2>. QED BY <1>1, <1>5, <2>1, SMT DEF Addr
<1>. QED BY <1>2, <1>3, <1>4, <1>5

\* The ports, one by one.
LEMMA CallPorts ==
  ASSUME NEW op, NEW ret, op.kind = "CALL"
  PROVE  /\ DOMAIN stores(op, ret) = 1 .. 2
         /\ stores(op, ret)[1] = [at |-> SP - 1, val |-> low(ret)]
         /\ stores(op, ret)[2] = [at |-> SP - 2, val |-> high(ret)]
BY SMT DEF stores

LEMMA ExtPorts ==
  ASSUME NEW op, NEW ret, op.kind = "EXT"
  PROVE  /\ DOMAIN stores(op, ret) = 1 .. 4
         /\ stores(op, ret)[1] = [at |-> SP - 1, val |-> TRAP_TAG]
         /\ stores(op, ret)[2] = [at |-> SP - 2, val |-> flags]
         /\ stores(op, ret)[3] = [at |-> SP - 3, val |-> low(ret)]
         /\ stores(op, ret)[4] = [at |-> SP - 4, val |-> high(ret)]
BY SMT DEF stores

LEMMA PushPorts ==
  ASSUME NEW op \in Program, NEW ret, op.kind = "PUSH"
  PROVE  /\ DOMAIN stores(op, ret) = 1 .. Len(op.put)
         /\ \A i \in 1 .. Len(op.put) :
              stores(op, ret)[i] = [at |-> SP - i, val |-> op.put[Len(op.put) + 1 - i]]
<1>1. op.put \in Seq(Byte)
  BY OpParts
<1>2. stores(op, ret) = [i \in DOMAIN op.put |->
                          [at |-> SP - i, val |-> op.put[Len(op.put) + 1 - i]]]
  BY SMT DEF stores
<1>. QED BY <1>1, <1>2

LEMMA StorePorts ==
  ASSUME NEW op \in Program, NEW ret, op.kind = "ST"
  PROVE  /\ DOMAIN stores(op, ret) = 1 .. Len(op.put)
         /\ \A i \in 1 .. Len(op.put) :
              stores(op, ret)[i] = [at |-> op.at + i - 1, val |-> op.put[i]]
<1>1. op.put \in Seq(Byte)
  BY OpParts
<1>2. stores(op, ret) = [i \in DOMAIN op.put |-> [at |-> op.at + i - 1, val |-> op.put[i]]]
  BY SMT DEF stores
<1>. QED BY <1>1, <1>2

LEMMA NoPorts ==
  ASSUME NEW op, NEW ret, op.kind \notin {"CALL", "EXT", "PUSH", "ST"}
  PROVE  stores(op, ret) = <<>>
BY SMT DEF stores

\* The kernel's ports write what the masked circuit's write.
LEMMA WrapsNothing ==
  ASSUME TypeOK, NEW op \in Program, passes(op), NEW ret
  PROVE  /\ DOMAIN wrapped(stores(op, ret)) = DOMAIN stores(op, ret)
         /\ \A i \in DOMAIN stores(op, ret) : wrapped(stores(op, ret))[i] = stores(op, ret)[i]
<1>. DEFINE ws == stores(op, ret)
<1>1. ws = stores(op, ret)
  OBVIOUS
<1>. HIDE DEF ws
<1>2. ASSUME NEW i \in DOMAIN ws
      PROVE  \E a \in Addr : \E v : ws[i] = [at |-> a, val |-> v]
  <2>1. CASE op.kind = "CALL"
    <3>1. i = 1 \/ i = 2
      <4>1. DOMAIN ws = 1 .. 2
        BY <1>1, <2>1, CallPorts
      <4>. QED BY <1>2, <4>1, SMT
    <3>2. ws[1] = [at |-> SP - 1, val |-> low(ret)] /\ ws[2] = [at |-> SP - 2, val |-> high(ret)]
      BY <1>1, <2>1, CallPorts
    <3>3. SP - 1 \in Addr /\ SP - 2 \in Addr
      BY <2>1, PortsInData
    <3>. QED BY <3>1, <3>2, <3>3, Zenon
  <2>2. CASE op.kind = "EXT"
    <3>1. i = 1 \/ i = 2 \/ i = 3 \/ i = 4
      <4>1. DOMAIN ws = 1 .. 4
        BY <1>1, <2>2, ExtPorts
      <4>. QED BY <1>2, <4>1, SMT
    <3>2. /\ ws[1] = [at |-> SP - 1, val |-> TRAP_TAG]
          /\ ws[2] = [at |-> SP - 2, val |-> flags]
          /\ ws[3] = [at |-> SP - 3, val |-> low(ret)]
          /\ ws[4] = [at |-> SP - 4, val |-> high(ret)]
      BY <1>1, <2>2, ExtPorts
    <3>3. SP - 1 \in Addr /\ SP - 2 \in Addr /\ SP - 3 \in Addr /\ SP - 4 \in Addr
      BY <2>2, PortsInData
    <3>. QED BY <3>1, <3>2, <3>3, Zenon
  <2>3. CASE op.kind = "PUSH"
    <3>1. ws[i] = [at |-> SP - i, val |-> op.put[Len(op.put) + 1 - i]]
      BY <1>1, <1>2, <2>3, PushPorts
    <3>2. SP - i \in Addr
      BY <1>1, <1>2, <2>3, PushPorts, PortsInData
    <3>. QED BY <3>1, <3>2, Zenon
  <2>4. CASE op.kind = "ST"
    <3>1. ws[i] = [at |-> op.at + i - 1, val |-> op.put[i]]
      BY <1>1, <1>2, <2>4, StorePorts
    <3>2. op.at + i - 1 \in Addr
      BY <1>1, <1>2, <2>4, StorePorts, PortsInData
    <3>. QED BY <3>1, <3>2, Zenon
  <2>5. CASE op.kind \notin {"CALL", "EXT", "PUSH", "ST"}
    <3>1. ws = <<>>
      BY <1>1, <2>5, NoPorts
    <3>. QED BY <1>2, <3>1, SMT
  <2>. QED BY <2>1, <2>2, <2>3, <2>4, <2>5
<1>3. ASSUME NEW i \in DOMAIN ws PROVE wrapped(ws)[i] = ws[i]
  BY <1>2, <1>3, NotWrapped
<1>4. DOMAIN wrapped(ws) = DOMAIN ws
  BY DEF wrapped
<1>. QED BY <1>3, <1>4 DEF ws

\* What the ports leave is what the reference stores.
LEMMA Landing ==
  ASSUME TypeOK, NEW op \in Program, passes(op), NEW ret, NEW ws,
         DOMAIN ws = DOMAIN stores(op, ret),
         \A i \in DOMAIN ws : ws[i] = stores(op, ret)[i]
  PROVE  landed(ws) = after(op, ret)
<1>1. SP \in Nat /\ DataSize \in Nat /\ Addr \subseteq Int /\ data \in [Addr -> Byte]
  BY Numbers, SMT DEF Addr, TypeOK
<1>2. CASE op.kind = "CALL"
  <2>1. DOMAIN ws = 1 .. 2
    BY <1>2, CallPorts
  <2>2. 1 \in DOMAIN ws /\ 2 \in DOMAIN ws
    BY <2>1, SMT
  <2>3. ws[1] = [at |-> SP - 1, val |-> low(ret)] /\ ws[2] = [at |-> SP - 2, val |-> high(ret)]
    BY <1>2, <2>2, CallPorts
  <2>4. /\ ws[1].at = SP - 1 /\ ws[1].val = low(ret)
        /\ ws[2].at = SP - 2 /\ ws[2].val = high(ret)
    BY <2>3
  <2>5. SP - 1 \in Addr /\ SP - 2 \in Addr
    BY <1>2, PortsInData
  <2>6. landed(ws) = [c \in Addr |-> IF c = SP - 2 THEN high(ret)
                                     ELSE IF c = SP - 1 THEN low(ret) ELSE data[c]]
    BY <2>1, <2>4, <2>5, Landed2
  <2>7. stored(SP - 2, <<high(ret), low(ret)>>) =
          [c \in Addr |-> IF c = SP - 2 THEN high(ret)
                          ELSE IF c = SP - 1 THEN low(ret) ELSE data[c]]
    <3>. DEFINE bs == <<high(ret), low(ret)>>
    <3>1. Len(bs) = 2 /\ bs[1] = high(ret) /\ bs[2] = low(ret)
      BY SMT
    <3>. HIDE DEF bs
    <3>2. ASSUME NEW c \in Addr
          PROVE  (IF c \in SP - 2 .. SP - 2 + Len(bs) - 1 THEN bs[c - (SP - 2) + 1] ELSE data[c])
                   = IF c = SP - 2 THEN high(ret)
                     ELSE IF c = SP - 1 THEN low(ret) ELSE data[c]
      BY <1>1, <3>1, SMT
    <3>3. stored(SP - 2, bs) = [c \in Addr |-> IF c = SP - 2 THEN high(ret)
                                               ELSE IF c = SP - 1 THEN low(ret) ELSE data[c]]
      BY <3>2, SMT DEF stored
    <3>. QED BY <3>3 DEF bs
  <2>. QED BY <1>2, <2>6, <2>7, SMT DEF after
<1>3. CASE op.kind = "EXT"
  <2>1. DOMAIN ws = 1 .. 4
    BY <1>3, ExtPorts
  <2>2. 1 \in DOMAIN ws /\ 2 \in DOMAIN ws /\ 3 \in DOMAIN ws /\ 4 \in DOMAIN ws
    BY <2>1, SMT
  <2>3. /\ ws[1] = [at |-> SP - 1, val |-> TRAP_TAG] /\ ws[2] = [at |-> SP - 2, val |-> flags]
        /\ ws[3] = [at |-> SP - 3, val |-> low(ret)] /\ ws[4] = [at |-> SP - 4, val |-> high(ret)]
    <3>1. /\ stores(op, ret)[1] = [at |-> SP - 1, val |-> TRAP_TAG]
          /\ stores(op, ret)[2] = [at |-> SP - 2, val |-> flags]
          /\ stores(op, ret)[3] = [at |-> SP - 3, val |-> low(ret)]
          /\ stores(op, ret)[4] = [at |-> SP - 4, val |-> high(ret)]
      BY <1>3, ExtPorts
    <3>2. /\ ws[1] = stores(op, ret)[1] /\ ws[2] = stores(op, ret)[2]
          /\ ws[3] = stores(op, ret)[3] /\ ws[4] = stores(op, ret)[4]
      BY <2>2, Zenon
    <3>. QED BY <3>1, <3>2, Zenon
  <2>4. /\ ws[1].at = SP - 1 /\ ws[1].val = TRAP_TAG /\ ws[2].at = SP - 2 /\ ws[2].val = flags
        /\ ws[3].at = SP - 3 /\ ws[3].val = low(ret) /\ ws[4].at = SP - 4 /\ ws[4].val = high(ret)
    BY <2>3
  <2>5. SP - 1 \in Addr /\ SP - 2 \in Addr /\ SP - 3 \in Addr /\ SP - 4 \in Addr
    BY <1>3, PortsInData
  <2>6. landed(ws) = [c \in Addr |-> IF c = SP - 4 THEN high(ret)
                                     ELSE IF c = SP - 3 THEN low(ret)
                                     ELSE IF c = SP - 2 THEN flags
                                     ELSE IF c = SP - 1 THEN TRAP_TAG ELSE data[c]]
    BY <2>1, <2>4, <2>5, Landed4
  <2>7. stored(SP - 4, <<high(ret), low(ret), flags, TRAP_TAG>>) =
          [c \in Addr |-> IF c = SP - 4 THEN high(ret)
                          ELSE IF c = SP - 3 THEN low(ret)
                          ELSE IF c = SP - 2 THEN flags
                          ELSE IF c = SP - 1 THEN TRAP_TAG ELSE data[c]]
    <3>. DEFINE bs == <<high(ret), low(ret), flags, TRAP_TAG>>
    <3>1. Len(bs) = 4 /\ bs[1] = high(ret) /\ bs[2] = low(ret) /\ bs[3] = flags /\ bs[4] = TRAP_TAG
      BY SMT
    <3>. HIDE DEF bs
    <3>2. ASSUME NEW c \in Addr
          PROVE  (IF c \in SP - 4 .. SP - 4 + Len(bs) - 1 THEN bs[c - (SP - 4) + 1] ELSE data[c])
                   = IF c = SP - 4 THEN high(ret)
                     ELSE IF c = SP - 3 THEN low(ret)
                     ELSE IF c = SP - 2 THEN flags
                     ELSE IF c = SP - 1 THEN TRAP_TAG ELSE data[c]
      BY <1>1, <3>1, SMT
    <3>3. stored(SP - 4, bs) = [c \in Addr |-> IF c = SP - 4 THEN high(ret)
                                               ELSE IF c = SP - 3 THEN low(ret)
                                               ELSE IF c = SP - 2 THEN flags
                                               ELSE IF c = SP - 1 THEN TRAP_TAG ELSE data[c]]
      BY <3>2, SMT DEF stored
    <3>. QED BY <3>3 DEF bs
  <2>. QED BY <1>3, <2>6, <2>7, SMT DEF after
<1>4. CASE op.kind = "PUSH"
  <2>1. DOMAIN ws = 1 .. Len(op.put) /\ Len(op.put) \in {1, 2}
    BY <1>4, PushPorts, OpParts
  <2>2. \A i \in 1 .. Len(op.put) : /\ ws[i].at = SP - i /\ SP - i \in Addr
                                    /\ ws[i].val = op.put[Len(op.put) + 1 - i]
    <3>1. ASSUME NEW i \in 1 .. Len(op.put)
          PROVE  /\ ws[i].at = SP - i /\ SP - i \in Addr
                 /\ ws[i].val = op.put[Len(op.put) + 1 - i]
      <4>1. ws[i] = [at |-> SP - i, val |-> op.put[Len(op.put) + 1 - i]]
        BY <1>4, <2>1, PushPorts
      <4>. QED BY <1>4, <4>1, PortsInData
    <3>. QED BY <3>1
  <2>3. CASE Len(op.put) = 1
    <3>1. 1 \in 1 .. Len(op.put) /\ Len(op.put) + 1 - 1 = 1
      BY <2>3
    <3>2. landed(ws) = [c \in Addr |-> IF c = SP - 1 THEN op.put[1] ELSE data[c]]
      BY <2>1, <2>2, <2>3, <3>1, Landed1
    <3>3. ASSUME NEW c \in Addr
          PROVE  (IF c \in SP - 1 .. SP - 1 + 1 - 1 THEN op.put[c - (SP - 1) + 1] ELSE data[c])
                   = IF c = SP - 1 THEN op.put[1] ELSE data[c]
      BY <1>1, SMT
    <3>4. stored(SP - 1, op.put) = [c \in Addr |-> IF c = SP - 1 THEN op.put[1] ELSE data[c]]
      BY <2>3, <3>3, SMT DEF stored
    <3>. QED BY <1>4, <2>3, <3>2, <3>4, SMT DEF after
  <2>4. CASE Len(op.put) = 2
    <3>1. /\ 1 \in 1 .. Len(op.put) /\ 2 \in 1 .. Len(op.put)
          /\ Len(op.put) + 1 - 1 = 2 /\ Len(op.put) + 1 - 2 = 1
      BY <2>4
    <3>2. landed(ws) = [c \in Addr |-> IF c = SP - 2 THEN op.put[1]
                                       ELSE IF c = SP - 1 THEN op.put[2] ELSE data[c]]
      BY <2>1, <2>2, <2>4, <3>1, Landed2
    <3>3. ASSUME NEW c \in Addr
          PROVE  (IF c \in SP - 2 .. SP - 2 + 2 - 1 THEN op.put[c - (SP - 2) + 1] ELSE data[c])
                   = IF c = SP - 2 THEN op.put[1]
                     ELSE IF c = SP - 1 THEN op.put[2] ELSE data[c]
      BY <1>1, SMT
    <3>4. stored(SP - 2, op.put) = [c \in Addr |-> IF c = SP - 2 THEN op.put[1]
                                                   ELSE IF c = SP - 1 THEN op.put[2] ELSE data[c]]
      BY <2>4, <3>3, SMT DEF stored
    <3>. QED BY <1>4, <2>4, <3>2, <3>4, SMT DEF after
  <2>. QED BY <2>1, <2>3, <2>4
<1>5. CASE op.kind = "ST"
  <2>1. DOMAIN ws = 1 .. Len(op.put) /\ Len(op.put) \in {1, 2} /\ op.at \in Nat
    BY <1>5, StorePorts, OpParts
  <2>2. \A i \in 1 .. Len(op.put) : /\ ws[i].at = op.at + i - 1 /\ op.at + i - 1 \in Addr
                                    /\ ws[i].val = op.put[i]
    <3>1. ASSUME NEW i \in 1 .. Len(op.put)
          PROVE  /\ ws[i].at = op.at + i - 1 /\ op.at + i - 1 \in Addr
                 /\ ws[i].val = op.put[i]
      <4>1. ws[i] = [at |-> op.at + i - 1, val |-> op.put[i]]
        BY <1>5, <2>1, StorePorts
      <4>. QED BY <1>5, <4>1, PortsInData
    <3>. QED BY <3>1
  <2>3. op.at + 1 - 1 = op.at /\ op.at + 2 - 1 = op.at + 1
    BY <2>1
  <2>4. CASE Len(op.put) = 1
    <3>1. 1 \in 1 .. Len(op.put)
      BY <2>4
    <3>2. landed(ws) = [c \in Addr |-> IF c = op.at THEN op.put[1] ELSE data[c]]
      BY <2>1, <2>2, <2>3, <2>4, <3>1, Landed1
    <3>3. ASSUME NEW c \in Addr
          PROVE  (IF c \in op.at .. op.at + 1 - 1 THEN op.put[c - op.at + 1] ELSE data[c])
                   = IF c = op.at THEN op.put[1] ELSE data[c]
      BY <1>1, <2>1, SMT
    <3>4. stored(op.at, op.put) = [c \in Addr |-> IF c = op.at THEN op.put[1] ELSE data[c]]
      BY <2>4, <3>3, SMT DEF stored
    <3>. QED BY <1>5, <3>2, <3>4, SMT DEF after
  <2>5. CASE Len(op.put) = 2
    <3>1. 1 \in 1 .. Len(op.put) /\ 2 \in 1 .. Len(op.put)
      BY <2>5
    <3>2. landed(ws) = [c \in Addr |-> IF c = op.at + 1 THEN op.put[2]
                                       ELSE IF c = op.at THEN op.put[1] ELSE data[c]]
      BY <2>1, <2>2, <2>3, <2>5, <3>1, Landed2
    <3>3. ASSUME NEW c \in Addr
          PROVE  (IF c \in op.at .. op.at + 2 - 1 THEN op.put[c - op.at + 1] ELSE data[c])
                   = IF c = op.at + 1 THEN op.put[2]
                     ELSE IF c = op.at THEN op.put[1] ELSE data[c]
      BY <1>1, <2>1, SMT
    <3>4. stored(op.at, op.put) = [c \in Addr |-> IF c = op.at + 1 THEN op.put[2]
                                                  ELSE IF c = op.at THEN op.put[1] ELSE data[c]]
      BY <2>5, <3>3, SMT DEF stored
    <3>. QED BY <1>5, <3>2, <3>4, SMT DEF after
  <2>. QED BY <2>1, <2>4, <2>5
<1>6. CASE op.kind \notin {"CALL", "EXT", "PUSH", "ST"}
  <2>1. stores(op, ret) = <<>>
    BY <1>6, NoPorts
  <2>2. 1 \notin DOMAIN ws /\ 2 \notin DOMAIN ws /\ 3 \notin DOMAIN ws /\ 4 \notin DOMAIN ws
    BY <2>1, SMT
  <2>3. landed(ws) = data
    BY <2>2 DEF landed, port
  <2>. QED BY <1>6, <2>3, SMT DEF after
<1>. QED BY <1>2, <1>3, <1>4, <1>5, <1>6

------------------------------------------------------------------------------
\* A tick that commits, in the reference's words.
goes(op) ==
  CASE op.kind \in {"JMP", "CALL"} -> op.to
    [] op.kind \in {"RET", "TRAPRET"} -> returns_to
    [] op.kind = "EXT" -> vector(op.k)
    [] OTHER -> PC + op.len

leaves(op) ==
  CASE op.kind = "ALU" -> Flags
    [] op.kind = "TRAPRET" -> {data[SP + 2] % FlagSpan}
    [] OTHER -> {flags}

Committed(op) ==
  /\ status' = IF op.kind = "HALT" THEN "HALT" ELSE status
  /\ UNCHANGED <<cause, fault_addr>>
  /\ data' = after(op, PC + op.len)
  /\ patched' = IF op.kind = "STC" THEN patched \cup {op.at} ELSE patched
  /\ first' = IF op.kind = "STC" /\ patched = {} THEN op.at ELSE first
  /\ out' = IF emits(op) THEN out + 1 ELSE out
  /\ PC' = goes(op)
  /\ SP' = nSP(op)
  /\ flags' \in leaves(op)
  /\ TDEPTH' = rows_TDEPTH(op)
  /\ tick' = tick + 1
  /\ open' = opened(op)

\* The rows of a tick that names no cause are what the kernel and the reference
\* compute on their branch.
LEMMA RowsGo ==
  ASSUME TypeOK, NEW op \in Program, passes(op)
  PROVE  rows_PC(op) = goes(op) /\ nPC(op) = goes(op)
<1>1. CASE op.kind \in {"RET", "TRAPRET"}
  <2>1. SP + 2 <= DataSize \/ SP + 4 <= DataSize
    BY <1>1, Passed, Zenon DEF stack_have, holds
  <2>2. retv = returns_to
    BY <2>1, TorchReads
  <2>. QED BY <1>1, <2>2, SMT DEF rows_PC, nPC, goes, returns_to
<1>2. CASE op.kind = "EXT"
  <2>1. op.k \in Nat /\ op.k < Len(Vec)
    BY <1>2, Passed, OpParts
  <2>2. vec(op) = vector(op.k) /\ vec_at(op.k) = vector(op.k)
    BY <1>2, <2>1, TorchVector
  <2>. QED BY <1>2, <2>2, SMT DEF rows_PC, nPC, goes
<1>3. CASE op.kind \notin {"RET", "TRAPRET", "EXT"}
  BY <1>3, SMT DEF rows_PC, nPC, goes
<1>. QED BY <1>1, <1>2, <1>3

LEMMA RowsLeave ==
  ASSUME TypeOK, NEW op \in Program, passes(op)
  PROVE  rows_flags(op) = leaves(op)
<1>1. CASE op.kind = "TRAPRET"
  <2>1. SP + 4 <= DataSize
    BY <1>1, Passed, Zenon DEF stack_have, holds
  <2>2. g(SP + 2) = data[SP + 2]
    BY <2>1, TorchReads
  <2>. QED BY <1>1, <2>2, SMT DEF rows_flags, leaves
<1>2. CASE op.kind # "TRAPRET"
  BY <1>2, SMT DEF rows_flags, leaves
<1>. QED BY <1>1, <1>2

LEMMA RowsMove ==
  ASSUME TypeOK, NEW op \in Program
  PROVE  rows_SP(op) = nSP(op)
<1>1. SP \in Nat
  BY DEF TypeOK
<1>2. /\ op.kind = "POP" => op.n \in {1, 2}
      /\ op.kind = "PUSH" => Len(op.put) \in {1, 2}
  BY OpParts
<1>3. CASE op.kind = "SETSP"
  BY <1>3, SMT DEF rows_SP, nSP
<1>4. CASE op.kind = "CALL"
  <2>1. pushes(op) = 2 /\ pops(op) = 0
    BY <1>4, SMT DEF pushes, pops
  <2>. QED BY <1>1, <1>4, <2>1, SMT DEF rows_SP, nSP
<1>5. CASE op.kind = "EXT"
  <2>1. pushes(op) = 4 /\ pops(op) = 0
    BY <1>5, SMT DEF pushes, pops
  <2>. QED BY <1>1, <1>5, <2>1, SMT DEF rows_SP, nSP
<1>6. CASE op.kind = "PUSH"
  <2>1. pushes(op) = Len(op.put) /\ pops(op) = 0
    BY <1>6, SMT DEF pushes, pops
  <2>. QED BY <1>1, <1>2, <1>6, <2>1, SMT DEF rows_SP, nSP
<1>7. CASE op.kind = "POP"
  <2>1. pushes(op) = 0 /\ pops(op) = op.n
    BY <1>7, SMT DEF pushes, pops
  <2>. QED BY <1>1, <1>2, <1>7, <2>1, SMT DEF rows_SP, nSP
<1>8. CASE op.kind = "RET"
  <2>1. pushes(op) = 0 /\ pops(op) = 2
    BY <1>8, SMT DEF pushes, pops
  <2>. QED BY <1>1, <1>8, <2>1, SMT DEF rows_SP, nSP
<1>9. CASE op.kind = "TRAPRET"
  <2>1. pushes(op) = 0 /\ pops(op) = 4
    BY <1>9, SMT DEF pushes, pops
  <2>. QED BY <1>1, <1>9, <2>1, SMT DEF rows_SP, nSP
<1>10. CASE op.kind \notin {"SETSP", "CALL", "EXT", "PUSH", "POP", "RET", "TRAPRET"}
  <2>1. pushes(op) = 0 /\ pops(op) = 0
    BY <1>10, SMT DEF pushes, pops
  <2>. QED BY <1>1, <1>10, <2>1, SMT DEF rows_SP, nSP
<1>. QED BY <1>3, <1>4, <1>5, <1>6, <1>7, <1>8, <1>9, <1>10

\* The masked circuit's data.
LEMMA TorchLands ==
  ASSUME TypeOK, NEW op \in Program, passes(op)
  PROVE  landed(stores(op, ret_addr(op))) = after(op, PC + op.len)
<1>1. landed(stores(op, ret_addr(op))) = after(op, ret_addr(op))
  BY Landing
<1>2. CASE op.kind \in {"CALL", "EXT"}
  <2>1. ret_addr(op) = PC + op.len
    BY <1>2, CircuitAssumption, SMT DEF ret_addr
  <2>. QED BY <1>1, <2>1
<1>3. CASE op.kind \notin {"CALL", "EXT"}
  BY <1>1, <1>3, SMT DEF after
<1>. QED BY <1>2, <1>3

\* The kernel's data.
LEMMA KernelLands ==
  ASSUME TypeOK, NEW op \in Program, passes(op)
  PROVE  landed(wrapped(stores(op, PC + op.len))) = after(op, PC + op.len)
<1>. DEFINE ret == PC + op.len
            ws == wrapped(stores(op, ret))
<1>1. /\ DOMAIN ws = DOMAIN stores(op, ret)
      /\ \A i \in DOMAIN stores(op, ret) : ws[i] = stores(op, ret)[i]
  BY WrapsNothing
<1>. HIDE DEF ws, ret
<1>2. \A i \in DOMAIN ws : ws[i] = stores(op, ret)[i]
  BY <1>1
<1>3. landed(ws) = after(op, ret)
  BY <1>1, <1>2, Landing
<1>. QED BY <1>3 DEF ws, ret

------------------------------------------------------------------------------
\* The ticks of the two circuits
LEMMA TorchTicks ==
  ASSUME TypeOK, NEW op \in Program, TorchTick(op)
  PROVE  \/ UNCHANGED vars /\ status # "RUNNING"
         \/ Overrun
         \/ Fault(op)
         \/ status = "RUNNING" /\ tick < TickBudget /\ passes(op) /\ Committed(op)
<1>1. tick \in Int /\ TickBudget \in Int
  BY Numbers
<1>2. fault_cause(op) = verdict(op) /\ (passes(op) <=> verdict(op) = "OK")
  BY CausesAgree
<1>3. CASE status # "RUNNING"
  BY <1>3, SMT DEF TorchTick, vars
<1>4. CASE status = "RUNNING" /\ tick >= TickBudget
  BY <1>4, SMT DEF TorchTick, Overrun
<1>5. CASE status = "RUNNING" /\ tick < TickBudget /\ ~passes(op)
  <2>1. verdict(op) # "OK" /\ ~(tick >= TickBudget)
    BY <1>1, <1>2, <1>5
  <2>. QED BY <1>2, <1>5, <2>1, SMT DEF TorchTick, Fault, Running
<1>6. CASE status = "RUNNING" /\ tick < TickBudget /\ passes(op)
  <2>1. fault_cause(op) = "OK" /\ ~(tick >= TickBudget)
    BY <1>1, <1>2, <1>6
  <2>2. /\ rows_PC(op) = goes(op) /\ rows_flags(op) = leaves(op) /\ rows_SP(op) = nSP(op)
        /\ landed(stores(op, ret_addr(op))) = after(op, PC + op.len)
    BY <1>6, RowsGo, RowsLeave, RowsMove, TorchLands
  <2>. QED BY <1>6, <2>1, <2>2, SMT DEF TorchTick, Committed
<1>. QED BY <1>1, <1>3, <1>4, <1>5, <1>6

LEMMA KernelStops ==
  ASSUME TypeOK, NEW op \in Program, KernelStop(op)
  PROVE  Overrun \/ Fault(op)
<1>1. tick \in Int /\ TickBudget \in Int
  BY Numbers
<1>2. tick_cause(op) = verdict(op) /\ (passes(op) <=> verdict(op) = "OK")
  BY CausesAgree
<1>3. CASE tick >= TickBudget
  BY <1>3, SMT DEF KernelStop, KernelHeld, Overrun
<1>4. CASE ~(tick >= TickBudget)
  BY <1>1, <1>2, <1>4, SMT DEF KernelStop, KernelHeld, Fault, Running
<1>. QED BY <1>3, <1>4

LEMMA KernelCommits ==
  ASSUME TypeOK, NEW op \in Program, KernelCommit(op)
  PROVE  status = "RUNNING" /\ tick < TickBudget /\ passes(op) /\ Committed(op)
<1>1. status = "RUNNING" /\ tick < TickBudget /\ passes(op)
  BY CausesAgree DEF KernelCommit
<1>2. nPC(op) = goes(op)
      /\ landed(wrapped(stores(op, PC + op.len))) = after(op, PC + op.len)
  BY <1>1, RowsGo, KernelLands
<1>3. status' = IF op.kind = "HALT" THEN "HALT" ELSE status
  BY <1>1 DEF KernelCommit
<1>4. /\ patched' = IF op.kind = "STC" THEN patched \cup {op.at} ELSE patched
      /\ first' = IF op.kind = "STC" /\ patched = {} THEN op.at ELSE first
  BY SMT DEF KernelCommit
<1>5. flags' \in leaves(op)
  BY SMT DEF KernelCommit, leaves
<1>6. TDEPTH' = rows_TDEPTH(op)
  BY SMT DEF KernelCommit, rows_TDEPTH
<1>7. /\ UNCHANGED <<cause, fault_addr>> /\ data' = after(op, PC + op.len)
      /\ out' = IF emits(op) THEN out + 1 ELSE out
      /\ PC' = goes(op) /\ SP' = nSP(op) /\ tick' = tick + 1 /\ open' = opened(op)
  BY <1>2 DEF KernelCommit
<1>. QED BY <1>1, <1>3, <1>4, <1>5, <1>6, <1>7 DEF Committed

\* What the circuits commit is what the reference executes.
LEMMA CommitsExecute ==
  ASSUME TypeOK, NEW op \in Program,
         status = "RUNNING", tick < TickBudget, passes(op), Committed(op)
  PROVE  Execute(op)
<1>1. Commits(op)
  BY DEF Commits, Running
<1>2. SP \in Nat
  BY DEF TypeOK
<1>3. CASE op.kind = "JMP"
  <2>1. Jump(op)
    BY <1>1, <1>3, SMT
       DEF Committed, Jump, Count, NoFault, NoCode, after, goes, leaves, nSP, rows_TDEPTH,
           opened, emits
  <2>. QED BY <2>1 DEF Execute
<1>4. CASE op.kind = "CALL"
  <2>1. Len(<<high(PC + op.len), low(PC + op.len)>>) = 2
    OBVIOUS
  <2>2. Push(<<high(PC + op.len), low(PC + op.len)>>)
    BY <1>4, <2>1, SMT DEF Committed, Push, after, nSP
  <2>3. Call(op)
    BY <1>1, <1>4, <2>2, SMT
       DEF Committed, Call, Count, NoFault, NoCode, goes, leaves, rows_TDEPTH, opened, emits
  <2>. QED BY <2>3 DEF Execute
<1>5. CASE op.kind = "RET"
  <2>1. Return(op)
    BY <1>1, <1>5, SMT
       DEF Committed, Return, Count, NoFault, NoCode, after, goes, leaves, nSP, rows_TDEPTH,
           opened, emits
  <2>. QED BY <2>1 DEF Execute
<1>6. CASE op.kind = "EXT"
  <2>1. Len(<<high(PC + op.len), low(PC + op.len), flags, TRAP_TAG>>) = 4
    OBVIOUS
  <2>2. Push(<<high(PC + op.len), low(PC + op.len), flags, TRAP_TAG>>)
    BY <1>6, <2>1, SMT DEF Committed, Push, after, nSP
  <2>3. Trap(op)
    BY <1>1, <1>6, <2>2, SMT
       DEF Committed, Trap, Count, NoFault, NoCode, goes, leaves, rows_TDEPTH, opened, emits
  <2>. QED BY <2>3 DEF Execute
<1>7. CASE op.kind = "TRAPRET"
  <2>1. TrapReturn(op)
    BY <1>1, <1>7, SMT
       DEF Committed, TrapReturn, Count, NoFault, NoCode, after, goes, leaves, nSP,
           rows_TDEPTH, opened, emits
  <2>. QED BY <2>1 DEF Execute
<1>8. CASE op.kind = "PUSH"
  <2>1. Push(op.put)
    BY <1>8, SMT DEF Committed, Push, after, nSP
  <2>2. PushOp(op)
    BY <1>1, <1>8, <2>1, SMT
       DEF Committed, PushOp, Count, NoFault, NoCode, goes, leaves, rows_TDEPTH, opened, emits
  <2>. QED BY <2>2 DEF Execute
<1>9. CASE op.kind \in {"POP", "SETSP"}
  <2>1. MoveSP(op)
    BY <1>1, <1>9, SMT
       DEF Committed, MoveSP, Count, NoFault, NoCode, after, goes, leaves, nSP, rows_TDEPTH,
           opened, emits
  <2>. QED BY <2>1 DEF Execute
<1>10. CASE op.kind = "ST"
  <2>1. Store(op)
    BY <1>1, <1>10, SMT
       DEF Committed, Store, Count, NoFault, NoCode, after, goes, leaves, nSP, rows_TDEPTH,
           opened, emits
  <2>. QED BY <2>1 DEF Execute
<1>11. CASE op.kind = "STC"
  <2>1. Patch(op)
    BY <1>1, <1>11, SMT
       DEF Committed, Patch, Count, NoFault, after, goes, leaves, nSP,
           rows_TDEPTH, opened, emits
  <2>. QED BY <2>1 DEF Execute
<1>12. CASE op.kind \in {"OUT", "OUTM", "HALT", "ALU", "LD", "LDC"}
  <2>1. Plain(op)
    BY <1>1, <1>12, SMT
       DEF Committed, Plain, Count, NoFault, NoCode, after, goes, leaves, nSP, rows_TDEPTH,
           opened, emits
  <2>. QED BY <2>1 DEF Execute
<1>13. op.kind # "BAD"
  BY Passed
<1>. QED BY <1>3, <1>4, <1>5, <1>6, <1>7, <1>8, <1>9, <1>10, <1>11, <1>12, <1>13, OpParts

------------------------------------------------------------------------------
\* A tick of either circuit is the reference's tick of the instruction it ran.
LEMMA CircuitStep ==
  ASSUME TypeOK, [CNext]_<<vars, ran>>
  PROVE  [RefTick(ran')]_vars /\ [Next]_vars
<1>1. CASE UNCHANGED <<vars, ran>>
  BY <1>1
<1>2. CASE CNext
  <2>1. PICK op \in Program :
          (Tick(op) \/ RefTick(op)) /\ ran' = IF status = "RUNNING" THEN op ELSE ran
    BY <1>2 DEF CNext
  <2>2. \/ UNCHANGED vars /\ status # "RUNNING"
        \/ Overrun \/ Fault(op) \/ Execute(op)
        \/ status = "RUNNING" /\ tick < TickBudget /\ passes(op) /\ Committed(op)
    <3>1. CASE Tick(op)
      BY <3>1, TorchTicks, KernelStops, KernelCommits DEF Tick
    <3>2. CASE RefTick(op)
      BY <3>2 DEF RefTick
    <3>. QED BY <2>1, <3>1, <3>2
  <2>3. CASE UNCHANGED vars
    BY <2>3
  <2>4. CASE Overrun \/ Fault(op) \/ Execute(op)
    <3>1. status = "RUNNING"
      BY <2>4 DEF Overrun, Fault, Running, Execute, Jump, Call, Return, Trap, TrapReturn,
                  PushOp, MoveSP, Store, Patch, Plain, Commits
    <3>2. ran' = op
      BY <2>1, <3>1
    <3>. QED BY <2>4, <3>2 DEF RefTick, Next
  <2>. QED BY <2>2, <2>3, <2>4, CommitsExecute
<1>. QED BY <1>1, <1>2

\* Whichever path takes a tick, a run on the circuit paths is a run of the
\* machine: everything proved of NCP8.step holds of TorchCircuit.step and _tick.
THEOREM CircuitsAreTheMachine == CSpec => Spec
<1>1. CInit => Init /\ TypeOK
  BY TypeInit DEF CInit
<1>2. TypeOK /\ [CNext]_<<vars, ran>> =>
        [Next]_vars /\ TypeOK'
  BY CircuitStep, TypeStep
<1>. QED BY <1>1, <1>2, PTL DEF CSpec, Spec

\* Instruction by instruction: what the masks of TorchCircuit.step and the late
\* checks of _tick let through is what NCP8.step commits for that instruction,
\* and they stop on the cause NCP8.step names for it.
THEOREM PathsImplement == CSpec => PathsAgree
<1>1. CInit => Init /\ TypeOK
  BY TypeInit DEF CInit
<1>2. TypeOK /\ [CNext]_<<vars, ran>> =>
        [RefTick(ran')]_vars /\ TypeOK'
  BY CircuitStep, TypeStep
<1>. QED BY <1>1, <1>2, PTL DEF CSpec, PathsAgree

\* So the trap frames and the calls of the circuit paths nest as the reference's.
THEOREM CircuitsReturn == CSpec => ReturnsMatch
BY CircuitsAreTheMachine, ReturnsToCaller

\* And the protected bytes are protected on the circuit paths, whose region mask
\* looks at the write ports and not at the intervals the reference checks.
THEOREM CircuitsKeepRegions == CSpec => RegionsIntact
BY CircuitsAreTheMachine, RegionsKept
=============================================================================
