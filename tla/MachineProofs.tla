---------------------------- MODULE MachineProofs ----------------------------
(***************************************************************************)
(* What one machine keeps for every image, configuration and budget:       *)
(* types, the record of a fault, the stack floor, the protected regions    *)
(* and the calls and traps that return to where they came from.            *)
(***************************************************************************)
EXTENDS Machine, TLAPS

\* A word splits into its two bytes and is put together again.
LEMMA BytesOfWord ==
  ASSUME NEW w \in Word
  PROVE  high(w) \in Byte /\ low(w) \in Byte /\ word(high(w), low(w)) = w
<1>. DEFINE q == w \div Radix
            r == w % Radix
<1>1. Radix \in Nat \ {0} /\ w \in Nat /\ w < Radix * Radix
  BY MachineAssumption, SMT DEF Word
<1>2. w = q * Radix + r /\ r \in 0 .. Radix - 1 /\ q \in Nat
  BY <1>1, SMT
<1>3. q < Radix
  <2>1. SUFFICES ASSUME q >= Radix PROVE FALSE
    BY <1>1, <1>2, SMT
  <2>2. q * Radix >= Radix * Radix
    BY <1>1, <1>2, <2>1, SMT
  <2>. QED BY <1>1, <1>2, <2>2, SMT
<1>. QED BY <1>1, <1>2, <1>3 DEF high, low, word, Byte

LEMMA WordNat == Word \subseteq Nat
<1>1. Radix \in Nat /\ Radix * Radix \in Int
  BY MachineAssumption
<1>. QED BY <1>1, SMT DEF Word

\* Two bytes are a word.
LEMMA WordOfBytes ==
  ASSUME NEW hi \in Byte, NEW lo \in Byte
  PROVE  word(hi, lo) \in Nat
BY MachineAssumption, SMT DEF word, Byte

\* An instruction that passes its checks has passed each of them.
LEMMA Passed ==
  ASSUME NEW op \in Program, passes(op)
  PROVE  /\ op.kind \in {"JMP", "CALL"} => op.to < CodeLen
         /\ op.kind = "SETSP" => op.to <= DataSize
         /\ op.kind = "CALL" =>
              stack_room(2) = "OK" /\ stack_region(2) = "OK"
         /\ op.kind = "RET" => stack_have(2) = "OK" /\ returns_to < CodeLen
         /\ op.kind = "EXT" =>
              /\ op.k < Len(Vec) /\ vector(op.k) < CodeLen /\ TDEPTH # Tdlim
              /\ stack_room(4) = "OK" /\ stack_region(4) = "OK"
         /\ op.kind = "TRAPRET" =>
              TDEPTH # 0 /\ stack_have(4) = "OK" /\ returns_to < CodeLen
         /\ op.kind = "PUSH" =>
              stack_room(Len(op.put)) = "OK" /\ stack_region(Len(op.put)) = "OK"
         /\ op.kind = "POP" => stack_have(op.n) = "OK"
         /\ op.kind = "ST" =>
              /\ op.at + Len(op.put) <= DataSize
              /\ (op.at .. op.at + Len(op.put) - 1) \cap Protected = {}
         /\ op.kind = "STC" => op.at \in Window
         /\ emits(op) => out < Outcap
         /\ op.kind # "BAD"
<1>. USE DEF passes, checks
<1>1. op \in Op
  BY MachineAssumption
<1>2. ASSUME op.kind = "JMP" PROVE op.to < CodeLen
  BY <1>2, SMT DEF pc_target, holds
<1>3. ASSUME op.kind = "CALL"
      PROVE op.to < CodeLen /\ stack_room(2) = "OK" /\ stack_region(2) = "OK"
  <2>1. checks(op) = <<stack_room(2), pc_target(op.to), stack_region(2)>>
    BY <1>3
  <2>. HIDE DEF checks
  <2>. QED BY <2>1, SMT DEF pc_target, holds
<1>4. ASSUME op.kind = "SETSP" PROVE op.to <= DataSize
  BY <1>4, SMT DEF holds
<1>5. ASSUME op.kind = "RET" PROVE stack_have(2) = "OK" /\ returns_to < CodeLen
  <2>1. checks(op) = IF stack_have(2) = "OK" THEN <<stack_have(2), pc_target(returns_to)>>
                     ELSE <<stack_have(2)>>
    BY <1>5
  <2>. HIDE DEF checks
  <2>2. stack_have(2) = "OK"
    BY <2>1, SMT
  <2>. QED BY <2>1, <2>2, SMT DEF pc_target, holds
<1>6. ASSUME op.kind = "EXT"
      PROVE /\ op.k < Len(Vec) /\ vector(op.k) < CodeLen /\ TDEPTH # Tdlim
            /\ stack_room(4) = "OK" /\ stack_region(4) = "OK"
  <2>. HIDE DEF checks, passes
  <2>1. op.k \in Byte
    BY <1>1, <1>6, SMT DEF Op
  <2>2. op.k \in Nat /\ Len(Vec) \in Nat
    BY <2>1, MachineAssumption, SMT DEF Byte
  <2>. USE DEF checks, passes
  <2>3. checks(op) =
          IF op.k >= Len(Vec) THEN <<"TRAP_UNREG">>
          ELSE <<holds(vector(op.k) # 0, "TRAP_UNREG"), holds(TDEPTH # Tdlim, "TRAP_DEPTH"),
                 stack_room(4), pc_target(vector(op.k)), stack_region(4)>>
    BY <1>6
  <2>. HIDE DEF checks
  <2>4. op.k < Len(Vec)
    BY <2>2, <2>3, SMT
  <2>5. checks(op) =
          <<holds(vector(op.k) # 0, "TRAP_UNREG"), holds(TDEPTH # Tdlim, "TRAP_DEPTH"),
            stack_room(4), pc_target(vector(op.k)), stack_region(4)>>
    BY <2>2, <2>3, <2>4, SMT
  <2>. QED BY <2>4, <2>5, SMT DEF pc_target, holds
<1>7. ASSUME op.kind = "TRAPRET"
      PROVE TDEPTH # 0 /\ stack_have(4) = "OK" /\ returns_to < CodeLen
  <2>1. checks(op) =
          IF stack_have(4) = "OK"
          THEN <<holds(TDEPTH # 0, "TRAP_UNBALANCED"), stack_have(4),
                 holds(data[SP + 3] = TRAP_TAG, "TRAP_FRAME"), pc_target(returns_to)>>
          ELSE <<holds(TDEPTH # 0, "TRAP_UNBALANCED"), stack_have(4)>>
    BY <1>7
  <2>. HIDE DEF checks
  <2>2. stack_have(4) = "OK"
    BY <2>1, SMT
  <2>. QED BY <2>1, <2>2, SMT DEF pc_target, holds
<1>8. ASSUME op.kind = "PUSH"
      PROVE stack_room(Len(op.put)) = "OK" /\ stack_region(Len(op.put)) = "OK"
  <2>1. checks(op) = <<stack_room(Len(op.put)), stack_region(Len(op.put))>>
    BY <1>8
  <2>. HIDE DEF checks
  <2>. QED BY <2>1, SMT
<1>9. ASSUME op.kind = "POP" PROVE stack_have(op.n) = "OK"
  <2>1. checks(op) = <<stack_have(op.n)>>
    BY <1>9
  <2>. HIDE DEF checks
  <2>. QED BY <2>1, SMT
<1>10. ASSUME op.kind = "ST"
       PROVE /\ op.at + Len(op.put) <= DataSize
             /\ (op.at .. op.at + Len(op.put) - 1) \cap Protected = {}
  <2>1. checks(op) =
          <<mem(op.at, Len(op.put)), region(op.at .. op.at + Len(op.put) - 1)>>
    BY <1>10
  <2>. HIDE DEF checks
  <2>2. mem(op.at, Len(op.put)) = "OK" /\ region(op.at .. op.at + Len(op.put) - 1) = "OK"
    BY <2>1, SMT
  <2>. QED BY <2>2, Zenon DEF mem, region, holds
<1>11. ASSUME op.kind = "STC" PROVE op.at \in Window
  BY <1>11, SMT DEF holds
<1>12. ASSUME emits(op) PROVE out < Outcap
  <2>1. CASE op.kind = "OUT"
    BY <2>1, SMT DEF holds
  <2>2. CASE op.kind = "OUTM"
    <3>1. checks(op) = <<mem(op.at, 1), holds(out < Outcap, "OUT_CAP")>>
      BY <2>2
    <3>. HIDE DEF checks
    <3>. QED BY <3>1, SMT DEF holds
  <2>. QED BY <1>12, <2>1, <2>2 DEF emits
<1>13. op.kind # "BAD"
  BY SMT
<1>. QED
  BY <1>2, <1>3, <1>4, <1>5, <1>6, <1>7, <1>8, <1>9, <1>10, <1>11, <1>12, <1>13

\* What a failing tick records is a cause.
LEMMA VerdictNamed ==
  ASSUME NEW op \in Program, PC \in Nat, ~passes(op)
  PROVE  verdict(op) # "OK"
<1>. DEFINE cs == checks(op)
            n  == Len(cs)
            i  == CHOOSE j \in DOMAIN cs :
                    cs[j] # "OK" /\ \A k \in 1 .. j - 1 : cs[k] = "OK"
<1>1. op.len \in Nat /\ CodeLen \in Nat
  BY MachineAssumption DEF Op, Width
<1>2. CASE PC + op.len > CodeLen
  BY <1>2 DEF verdict
<1>3. CASE PC + op.len <= CodeLen
  <2>1. PICK f \in DOMAIN cs : cs[f] # "OK"
    BY <1>3 DEF passes
  <2>2. DOMAIN cs \subseteq 1 .. 5
    BY SMT DEF checks
  <2>3. \A j \in DOMAIN cs : 1 .. j \subseteq DOMAIN cs
    BY SMT DEF checks
  <2>. HIDE DEF cs
  <2>4. \E j \in DOMAIN cs : cs[j] # "OK" /\ \A k \in 1 .. j - 1 : cs[k] = "OK"
    <3>1. CASE 1 \in DOMAIN cs /\ cs[1] # "OK"
      BY <3>1, SMT
    <3>2. CASE /\ ~(1 \in DOMAIN cs /\ cs[1] # "OK")
               /\ 2 \in DOMAIN cs /\ cs[2] # "OK"
      BY <3>2, <2>2, <2>3, SMT
    <3>3. CASE /\ \A k \in 1 .. 2 : ~(k \in DOMAIN cs /\ cs[k] # "OK")
               /\ 3 \in DOMAIN cs /\ cs[3] # "OK"
      BY <3>3, <2>2, <2>3, SMT
    <3>4. CASE /\ \A k \in 1 .. 3 : ~(k \in DOMAIN cs /\ cs[k] # "OK")
               /\ 4 \in DOMAIN cs /\ cs[4] # "OK"
      BY <3>4, <2>2, <2>3, SMT
    <3>5. CASE /\ \A k \in 1 .. 4 : ~(k \in DOMAIN cs /\ cs[k] # "OK")
               /\ 5 \in DOMAIN cs /\ cs[5] # "OK"
      BY <3>5, <2>2, <2>3, SMT
    <3>. QED BY <2>1, <2>2, <3>1, <3>2, <3>3, <3>4, <3>5, SMT
  <2>5. cs[i] # "OK"
    BY <2>4, Zenon
  <2>6. first_of(cs) = cs[i]
    BY <2>1, Zenon DEF first_of
  <2>. QED BY <1>1, <1>3, <2>5, <2>6, SMT DEF verdict, cs
<1>. QED BY <1>1, <1>2, <1>3, SMT

------------------------------------------------------------------------------
\* Writing bytes into DATA leaves bytes in it.
LEMMA StoredTyped ==
  ASSUME TypeOK, NEW a \in Int, NEW bytes \in Seq(Byte)
  PROVE  stored(a, bytes) \in [Addr -> Byte]
<1>1. Len(bytes) \in Nat /\ \A i \in 1 .. Len(bytes) : bytes[i] \in Byte
  BY SMT
<1>2. ASSUME NEW c \in Addr
      PROVE  (IF c \in a .. a + Len(bytes) - 1 THEN bytes[c - a + 1] ELSE data[c]) \in Byte
  <2>1. c \in Int /\ data[c] \in Byte
    BY <1>2, MachineAssumption DEF TypeOK, Addr
  <2>2. CASE c \in a .. a + Len(bytes) - 1
    <3>1. c - a + 1 \in 1 .. Len(bytes)
      BY <1>1, <2>1, <2>2, SMT
    <3>. QED BY <1>1, <2>2, <3>1
  <2>. QED BY <2>1, <2>2
<1>. QED BY <1>2, Zenon DEF stored

\* The word RET and TRAPRET read, when the stack holds it, is a number.
LEMMA ReturnsTyped ==
  ASSUME TypeOK, SP + 2 <= DataSize
  PROVE  data[SP] \in Byte /\ data[SP + 1] \in Byte /\ returns_to \in Nat
<1>1. SP \in Addr /\ SP + 1 \in Addr
  BY MachineAssumption, SMT DEF TypeOK, Addr
<1>2. data[SP] \in Byte /\ data[SP + 1] \in Byte
  BY <1>1, Zenon DEF TypeOK
<1>. QED BY <1>2, WordOfBytes DEF returns_to

\* So is the entry of a handler, wherever the table stands.
LEMMA VectorTyped ==
  ASSUME TypeOK, NEW k \in Nat, k < Len(Vec)
  PROVE  vector(k) \in Nat
<1>1. CASE Vtab = NoVtab
  <2>1. k + 1 \in 1 .. Len(Vec) /\ Vec \in Seq(Word)
    BY MachineAssumption, SMT
  <2>2. Vec[k + 1] \in Word
    BY <2>1, SMT
  <2>. QED BY <1>1, <2>2, MachineAssumption DEF vector, Word
<1>2. CASE Vtab # NoVtab
  <2>1. Vtab \in Addr /\ Vtab + 2 * Len(Vec) <= DataSize /\ Len(Vec) \in Nat
    BY <1>2, MachineAssumption
  <2>2. Vtab + 2 * k + 1 \in Addr /\ Vtab + 2 * k \in Addr
    BY <2>1, MachineAssumption, SMT DEF Addr
  <2>3. data[Vtab + 2 * k + 1] \in Byte /\ data[Vtab + 2 * k] \in Byte
    BY <2>2, Zenon DEF TypeOK
  <2>. QED BY <1>2, <2>3, WordOfBytes DEF vector
<1>. QED BY <1>1, <1>2

\* The bytes an instruction puts are a word's worth at most.
LEMMA BytesTyped ==
  ASSUME NEW put \in Bytes
  PROVE  put \in Seq(Byte) /\ Len(put) \in {1, 2}
<1>1. ASSUME NEW b \in Byte, put = <<b>> PROVE put \in Seq(Byte) /\ Len(put) \in {1, 2}
  BY <1>1, SMT
<1>2. ASSUME NEW b \in Byte, NEW c \in Byte, put = <<b, c>>
      PROVE  put \in Seq(Byte) /\ Len(put) \in {1, 2}
  BY <1>2, SMT
<1>3. \/ \E b \in Byte : put = <<b>>
      \/ \E b \in Byte, c \in Byte : put = <<b, c>>
  BY SMT DEF Bytes
<1>. QED BY <1>1, <1>2, <1>3, Zenon

\* The returned-through frame is the last one of a typed list.
LEMMA OpenTyped ==
  ASSUME TypeOK
  PROVE  (IF open = <<>> THEN open ELSE SubSeq(open, 1, Len(open) - 1)) \in Seq(Frame)
BY SMT DEF TypeOK

\* A push that has room leaves SP in DATA and bytes in DATA.
LEMMA PushTyped ==
  ASSUME TypeOK, NEW bytes \in Seq(Byte), Push(bytes), stack_room(Len(bytes)) = "OK"
  PROVE  SP' \in 0 .. DataSize /\ data' \in [Addr -> Byte]
<1>1. Splim <= SP - Len(bytes)
  BY Zenon DEF stack_room, holds
<1>2. SP \in 0 .. DataSize /\ Len(bytes) \in Nat /\ Splim \in Nat /\ DataSize \in Nat
  BY MachineAssumption DEF TypeOK
<1>3. SP - Len(bytes) \in 0 .. DataSize
  BY <1>1, <1>2, SMT
<1>. QED BY <1>3, StoredTyped DEF Push

LEMMA TypeInit == Init => TypeOK
<1>. SUFFICES ASSUME Init PROVE TypeOK
  OBVIOUS
<1>1. Loaded \in [Addr -> Byte]
  <2>1. ASSUME NEW a \in Addr, Vtab # NoVtab, a \in Vtab .. Vtab + 2 * Len(Vec) - 1
        PROVE  /\ low(Vec[(a - Vtab) \div 2 + 1]) \in Byte
               /\ high(Vec[(a - Vtab) \div 2 + 1]) \in Byte
    <3>1. Vtab \in Nat /\ a \in Nat /\ Len(Vec) \in Nat
      BY <2>1, MachineAssumption DEF Addr
    <3>2. (a - Vtab) \div 2 + 1 \in 1 .. Len(Vec)
      BY <2>1, <3>1, SMT
    <3>3. Vec[(a - Vtab) \div 2 + 1] \in Word
      BY <3>2, MachineAssumption, SMT
    <3>. QED BY <3>3, BytesOfWord
  <2>2. 0 \in Byte
    BY MachineAssumption DEF Byte
  <2>. QED BY <2>1, <2>2, Zenon DEF Loaded
<1>2. open = <<>> /\ <<>> \in Seq(Frame)
  BY SMT DEF Init
<1>. QED BY <1>1, <1>2, MachineAssumption, SMT DEF Init, TypeOK, Status, Flags

LEMMA TypeStep == TypeOK /\ [Next]_vars => TypeOK'
<1>. SUFFICES ASSUME TypeOK, [Next]_vars PROVE TypeOK'
  OBVIOUS
<1>1. /\ CodeLen \in Nat /\ DataSize \in Nat /\ Tdlim \in Nat /\ Outcap \in Nat
      /\ TickBudget \in Nat /\ FlagSpan \in Nat /\ FlagSpan <= Radix /\ Radix \in Nat
      /\ FlagSpan > 0 /\ TRAP_TAG \in Byte
  BY MachineAssumption
<1>2. CASE UNCHANGED vars
  BY <1>2 DEF TypeOK, vars
<1>3. CASE Overrun
  BY <1>3 DEF TypeOK, Overrun, Status
<1>4. ASSUME NEW op \in Program, Fault(op) PROVE TypeOK'
  BY <1>4 DEF TypeOK, Fault, Status
<1>5. ASSUME NEW op \in Program, Commits(op)
      PROVE  /\ op \in Op /\ PC + op.len \in 0 .. CodeLen
             /\ tick + 1 \in 0 .. TickBudget /\ status \in Status
  <2>1. op \in Op /\ op.len \in Nat
    BY MachineAssumption DEF Op, Width
  <2>. QED BY <1>1, <1>5, <2>1, SMT DEF Commits, Running, passes, TypeOK
<1>6. ASSUME NEW op \in Program, Jump(op) PROVE TypeOK'
  <2>1. op.to \in 0 .. CodeLen
    <3>1. op.to \in Nat
      BY <1>5, <1>6, WordNat DEF Jump, Op
    <3>. QED BY <1>1, <1>6, <3>1, Passed DEF Jump, Commits
  <2>. QED BY <1>5, <1>6, <2>1 DEF TypeOK, Jump, Count, NoFault, NoCode
<1>7. ASSUME NEW op \in Program, Call(op) PROVE TypeOK'
  <2>. DEFINE ret == PC + op.len
              f   == [trap |-> FALSE, sp |-> SP - 2, flags |-> 0, ret |-> ret]
  <2>1. Commits(op) /\ op.kind = "CALL" /\ Push(<<high(ret), low(ret)>>)
    BY <1>7 DEF Call
  <2>2. /\ op.to < CodeLen /\ stack_room(2) = "OK"
    BY <2>1, Passed DEF Commits
  <2>3. op.to \in 0 .. CodeLen
    <3>1. op.to \in Nat
      BY <1>5, <2>1, WordNat DEF Op
    <3>. QED BY <1>1, <2>2, <3>1
  <2>4. ret \in 0 .. CodeLen /\ ret \in Word
    BY <1>1, <1>5, <2>1, MachineAssumption, SMT DEF Word
  <2>5. <<high(ret), low(ret)>> \in Seq(Byte) /\ Len(<<high(ret), low(ret)>>) = 2
    <3>1. high(ret) \in Byte /\ low(ret) \in Byte
      BY <2>4, BytesOfWord
    <3>. HIDE DEF ret
    <3>. QED BY <3>1, SMT
  <2>6. SP' \in 0 .. DataSize /\ data' \in [Addr -> Byte] /\ SP' = SP - 2
    BY <2>1, <2>2, <2>5, PushTyped DEF Push
  <2>7. f \in Frame /\ open' = Append(open, f)
    BY <1>1, <1>7, <2>4, <2>6 DEF Frame, Flags, Call
  <2>8. open' \in Seq(Frame)
    <3>. HIDE DEF f
    <3>. QED BY <2>7, SMT DEF TypeOK
  <2>. QED BY <1>5, <1>7, <2>1, <2>3, <2>6, <2>8 DEF TypeOK, Call, Count, NoFault, NoCode
<1>8. ASSUME NEW op \in Program, Return(op) PROVE TypeOK'
  <2>1. Commits(op) /\ op.kind = "RET"
    BY <1>8 DEF Return
  <2>2. SP + 2 <= DataSize /\ returns_to < CodeLen
    BY <2>1, Passed, Zenon DEF Commits, stack_have, holds
  <2>3. returns_to \in 0 .. CodeLen
    BY <1>1, <2>2, ReturnsTyped
  <2>4. SP' \in 0 .. DataSize
    BY <1>1, <1>8, <2>2 DEF TypeOK, Return
  <2>5. open' \in Seq(Frame)
    BY <1>8, OpenTyped DEF Return
  <2>. QED BY <1>5, <1>8, <2>1, <2>3, <2>4, <2>5 DEF TypeOK, Return, Count, NoFault, NoCode
<1>9. ASSUME NEW op \in Program, Trap(op) PROVE TypeOK'
  <2>. DEFINE ret == PC + op.len
              f   == [trap |-> TRUE, sp |-> SP - 4, flags |-> flags, ret |-> ret]
              b   == <<high(ret), low(ret), flags, TRAP_TAG>>
  <2>1. Commits(op) /\ op.kind = "EXT" /\ Push(b)
    BY <1>9 DEF Trap
  <2>2. /\ op.k < Len(Vec) /\ vector(op.k) < CodeLen /\ TDEPTH # Tdlim
        /\ stack_room(4) = "OK"
    BY <2>1, Passed DEF Commits
  <2>3. vector(op.k) \in 0 .. CodeLen
    <3>1. op.k \in Nat
      BY <1>5, <2>1 DEF Op, Byte
    <3>. QED BY <1>1, <2>2, <3>1, VectorTyped
  <2>4. ret \in 0 .. CodeLen /\ ret \in Word
    BY <1>1, <1>5, <2>1, MachineAssumption, SMT DEF Word
  <2>5. b \in Seq(Byte) /\ Len(b) = 4
    <3>1. high(ret) \in Byte /\ low(ret) \in Byte /\ flags \in Byte /\ TRAP_TAG \in Byte
      BY <1>1, <2>4, BytesOfWord DEF TypeOK, Flags, Byte
    <3>. HIDE DEF ret
    <3>. QED BY <3>1, SMT
  <2>6. SP' \in 0 .. DataSize /\ data' \in [Addr -> Byte] /\ SP' = SP - 4
    <3>. HIDE DEF b
    <3>. QED BY <2>1, <2>2, <2>5, PushTyped DEF Push
  <2>7. f \in Frame /\ open' = Append(open, f)
    BY <1>1, <1>9, <2>4, <2>6 DEF Frame, TypeOK, Trap
  <2>8. open' \in Seq(Frame)
    <3>. HIDE DEF f
    <3>. QED BY <2>7, SMT DEF TypeOK
  <2>9. TDEPTH' \in 0 .. Tdlim
    BY <1>1, <1>9, <2>2 DEF TypeOK, Trap
  <2>. QED BY <1>5, <1>9, <2>1, <2>3, <2>6, <2>8, <2>9
           DEF TypeOK, Trap, Count, NoFault, NoCode
<1>10. ASSUME NEW op \in Program, TrapReturn(op) PROVE TypeOK'
  <2>1. Commits(op) /\ op.kind = "TRAPRET"
    BY <1>10 DEF TrapReturn
  <2>2. SP + 4 <= DataSize /\ returns_to < CodeLen /\ TDEPTH # 0
    BY <2>1, Passed, Zenon DEF Commits, stack_have, holds
  <2>3. returns_to \in 0 .. CodeLen
    BY <1>1, <2>2, ReturnsTyped DEF TypeOK
  <2>4. SP' \in 0 .. DataSize /\ TDEPTH' \in 0 .. Tdlim
    BY <1>1, <1>10, <2>2 DEF TypeOK, TrapReturn
  <2>5. open' \in Seq(Frame)
    BY <1>10, OpenTyped DEF TrapReturn
  <2>6. flags' \in Flags
    <3>1. SP + 2 \in Addr
      BY <1>1, <2>2 DEF TypeOK, Addr
    <3>2. data[SP + 2] \in Int
      BY <1>1, <3>1, SMT DEF TypeOK, Byte
    <3>3. data[SP + 2] % FlagSpan \in Flags
      BY <1>1, <3>2, SMT DEF Flags
    <3>. QED BY <1>10, <3>3 DEF TrapReturn
  <2>. QED BY <1>5, <1>10, <2>1, <2>3, <2>4, <2>5, <2>6
           DEF TypeOK, TrapReturn, Count, NoFault, NoCode
<1>11. ASSUME NEW op \in Program, PushOp(op) PROVE TypeOK'
  <2>1. Commits(op) /\ op.kind = "PUSH" /\ Push(op.put) /\ op.put \in Bytes
    BY <1>5, <1>11 DEF PushOp, Op
  <2>2. SP' \in 0 .. DataSize /\ data' \in [Addr -> Byte]
    BY <2>1, BytesTyped, PushTyped, Passed DEF Commits
  <2>. QED BY <1>5, <1>11, <2>1, <2>2 DEF TypeOK, PushOp, Count, NoFault, NoCode
<1>12. ASSUME NEW op \in Program, MoveSP(op) PROVE TypeOK'
  <2>1. Commits(op) /\ op.kind \in {"POP", "SETSP"}
    BY <1>12 DEF MoveSP
  <2>2. SP' \in 0 .. DataSize
    <3>1. CASE op.kind = "POP"
      <4>1. op.n \in {1, 2} /\ SP + op.n <= DataSize
        BY <1>5, <2>1, <3>1, Passed, Zenon DEF Commits, Op, stack_have, holds
      <4>. QED BY <1>1, <1>12, <3>1, <4>1 DEF TypeOK, MoveSP
    <3>2. CASE op.kind = "SETSP"
      <4>1. op.to \in Nat /\ op.to <= DataSize
        BY <1>5, <2>1, <3>2, Passed, WordNat DEF Commits, Op
      <4>. QED BY <1>1, <1>12, <3>2, <4>1 DEF MoveSP
    <3>. QED BY <2>1, <3>1, <3>2
  <2>. QED BY <1>5, <1>12, <2>1, <2>2 DEF TypeOK, MoveSP, Count, NoFault, NoCode
<1>13. ASSUME NEW op \in Program, Store(op) PROVE TypeOK'
  <2>1. Commits(op) /\ op.put \in Bytes /\ op.at \in Int
    <3>1. Commits(op) /\ op.kind = "ST"
      BY <1>13 DEF Store
    <3>2. op.put \in Bytes /\ op.at \in Word
      BY <1>5, <3>1 DEF Op
    <3>3. op.at \in Nat
      BY <3>2, WordNat, Zenon
    <3>. QED BY <3>1, <3>2, <3>3
  <2>2. data' \in [Addr -> Byte]
    BY <1>13, <2>1, BytesTyped, StoredTyped DEF Store
  <2>. QED BY <1>5, <1>13, <2>1, <2>2 DEF TypeOK, Store, Count, NoFault, NoCode
<1>14. ASSUME NEW op \in Program, Patch(op) PROVE TypeOK'
  <2>1. Commits(op) /\ op.at \in Window
    BY <1>14, Passed DEF Patch, Commits
  <2>. QED BY <1>5, <1>14, <2>1 DEF TypeOK, Patch, Count, NoFault
<1>15. ASSUME NEW op \in Program, Plain(op) PROVE TypeOK'
  <2>1. Commits(op)
    BY <1>15 DEF Plain
  <2>2. out' \in 0 .. Outcap
    BY <1>1, <1>15, <2>1, Passed DEF TypeOK, Plain, Commits
  <2>3. status' \in Status /\ flags' \in Flags
    BY <1>15 DEF TypeOK, Plain, Status
  <2>. QED BY <1>5, <1>15, <2>1, <2>2, <2>3 DEF TypeOK, Plain, Count, NoFault, NoCode
<1>. QED
  BY <1>2, <1>3, <1>4, <1>6, <1>7, <1>8, <1>9, <1>10, <1>11, <1>12, <1>13, <1>14, <1>15
     DEF Next, Execute

\* Whatever an image does, every register and every cell keeps its width, the
\* trap depth stays within TDLIM and the output within OUTCAP.
THEOREM TypeCorrect == Spec => []TypeOK
BY TypeInit, TypeStep, PTL DEF Spec

------------------------------------------------------------------------------
\* Every error of NCP8.step names its cause and the instruction that made it:
\* nothing the tick did before it failed is left behind.
THEOREM FaultsNamed == Spec => []FaultNamed
<1>1. Init => FaultNamed
  BY DEF Init, FaultNamed
<1>2. TypeOK /\ FaultNamed /\ [Next]_vars => FaultNamed'
  <2>. SUFFICES ASSUME TypeOK, FaultNamed, [Next]_vars PROVE FaultNamed'
    OBVIOUS
  <2>1. CASE UNCHANGED vars
    BY <2>1 DEF FaultNamed, vars
  <2>2. CASE Overrun
    BY <2>2 DEF FaultNamed, Overrun
  <2>3. ASSUME NEW op \in Program, Fault(op) PROVE FaultNamed'
    <3>1. verdict(op) # "OK"
      BY <2>3, VerdictNamed, MachineAssumption DEF Fault, TypeOK
    <3>. QED BY <2>3, <3>1 DEF FaultNamed, Fault
  <2>4. ASSUME NEW op \in Program, Execute(op) PROVE FaultNamed'
    <3>1. status = "RUNNING" /\ status' # "ERROR" /\ UNCHANGED cause
      BY <2>4 DEF Execute, Jump, Call, Return, Trap, TrapReturn, PushOp, MoveSP, Store,
                  Patch, Plain, Commits, Running, NoFault
    <3>. QED BY <3>1 DEF FaultNamed
  <2>. QED BY <2>1, <2>2, <2>3, <2>4 DEF Next
<1>. QED BY <1>1, <1>2, TypeCorrect, PTL DEF Spec

------------------------------------------------------------------------------
\* The only ways DATA changes: bytes pushed under SP where the stack has room,
\* none of them protected, or bytes stored at an address, SP standing still and
\* none of them protected.
LEMMA DataStep ==
  ASSUME TypeOK, [Next]_vars
  PROVE  \/ UNCHANGED data
         \/ \E n \in Nat \ {0} :
              /\ SP' = SP - n /\ Splim <= SP - n
              /\ (SP - n .. SP - 1) \cap Protected = {}
              /\ \A a \in Addr : a \notin SP - n .. SP - 1 => data'[a] = data[a]
         \/ \E lo \in Int, hi \in Int :
              /\ SP' = SP
              /\ (lo .. hi) \cap Protected = {}
              /\ \A a \in Addr : a \notin lo .. hi => data'[a] = data[a]
<1>. DEFINE Pushed(n) ==
       /\ SP' = SP - n /\ Splim <= SP - n
       /\ (SP - n .. SP - 1) \cap Protected = {}
       /\ \A a \in Addr : a \notin SP - n .. SP - 1 => data'[a] = data[a]
<1>1. ASSUME NEW bytes, NEW n \in Nat \ {0}, Len(bytes) = n, Push(bytes),
             stack_room(n) = "OK", stack_region(n) = "OK"
      PROVE  Pushed(n)
  <2>1. Splim <= SP - n /\ (SP - n .. SP - 1) \cap Protected = {}
    BY <1>1, Zenon DEF stack_room, stack_region, region, holds
  <2>2. SP - n + n - 1 = SP - 1
    BY SMT DEF TypeOK
  <2>3. ASSUME NEW a \in Addr, a \notin SP - n .. SP - 1 PROVE data'[a] = data[a]
    BY <1>1, <2>2, <2>3, Zenon DEF Push, stored
  <2>. QED BY <1>1, <2>1, <2>3, Zenon DEF Push
<1>2. CASE UNCHANGED data
  BY <1>2
<1>3. ASSUME NEW op \in Program, Call(op) PROVE Pushed(2)
  <2>. DEFINE b == <<high(PC + op.len), low(PC + op.len)>>
  <2>1. Len(b) = 2
    OBVIOUS
  <2>2. op.kind = "CALL" /\ Commits(op) /\ Push(b)
    BY <1>3 DEF Call
  <2>3. stack_room(2) = "OK" /\ stack_region(2) = "OK"
    BY <2>2, Passed DEF Commits
  <2>. HIDE DEF b
  <2>4. 2 \in Nat \ {0}
    OBVIOUS
  <2>. QED BY <1>1, <2>1, <2>2, <2>3, <2>4, Zenon
<1>4. ASSUME NEW op \in Program, Trap(op) PROVE Pushed(4)
  <2>. DEFINE b == <<high(PC + op.len), low(PC + op.len), flags, TRAP_TAG>>
  <2>1. Len(b) = 4
    OBVIOUS
  <2>2. op.kind = "EXT" /\ Commits(op) /\ Push(b)
    BY <1>4 DEF Trap
  <2>3. stack_room(4) = "OK" /\ stack_region(4) = "OK"
    BY <2>2, Passed DEF Commits
  <2>. HIDE DEF b
  <2>4. 4 \in Nat \ {0}
    OBVIOUS
  <2>. QED BY <1>1, <2>1, <2>2, <2>3, <2>4, Zenon
<1>5. ASSUME NEW op \in Program, PushOp(op) PROVE \E n \in Nat \ {0} : Pushed(n)
  <2>1. op.kind = "PUSH" /\ Commits(op) /\ Push(op.put)
    BY <1>5 DEF PushOp
  <2>2. op.put \in Bytes
    BY <2>1, MachineAssumption DEF Op
  <2>3. Len(op.put) \in Nat \ {0}
    BY <2>2, BytesTyped
  <2>4. Pushed(Len(op.put))
    BY <1>1, <2>1, <2>3, Passed DEF Commits
  <2>. QED BY <2>3, <2>4
<1>6. ASSUME NEW op \in Program, Store(op)
      PROVE  \E lo \in Int, hi \in Int :
               /\ SP' = SP
               /\ (lo .. hi) \cap Protected = {}
               /\ \A a \in Addr : a \notin lo .. hi => data'[a] = data[a]
  <2>1. op.kind = "ST" /\ Commits(op)
    BY <1>6 DEF Store
  <2>2. op.at \in Word /\ op.put \in Bytes
    BY <2>1, MachineAssumption DEF Op
  <2>3. op.at \in Int /\ op.at + Len(op.put) - 1 \in Int
    <3>1. op.at \in Nat
      BY <2>2, WordNat, Zenon
    <3>2. Len(op.put) \in {1, 2}
      BY <2>2, BytesTyped
    <3>. QED BY <3>1, <3>2
  <2>4. (op.at .. op.at + Len(op.put) - 1) \cap Protected = {}
    BY <2>1, Passed DEF Commits
  <2>5. ASSUME NEW a \in Addr, a \notin op.at .. op.at + Len(op.put) - 1
        PROVE  data'[a] = data[a]
    BY <1>6, <2>5, Zenon DEF Store, stored
  <2>6. SP' = SP
    BY <1>6 DEF Store
  <2>. QED BY <2>3, <2>4, <2>5, <2>6
<1>7. CASE Overrun \/ \E op \in Program : Fault(op)
  BY <1>7 DEF Overrun, Fault
<1>8. ASSUME NEW op \in Program,
             Jump(op) \/ Return(op) \/ TrapReturn(op) \/ MoveSP(op) \/ Patch(op) \/ Plain(op)
      PROVE  UNCHANGED data
  BY <1>8 DEF Jump, Return, TrapReturn, MoveSP, Patch, Plain
<1>9. UNCHANGED vars => UNCHANGED data
  BY DEF vars
<1>. QED
  BY <1>2, <1>3, <1>4, <1>5, <1>6, <1>7, <1>8, <1>9 DEF Next, Execute

\* No push, call or trap writes under the declared floor.
THEOREM FloorKept == Spec => FloorHolds
<1>1. TypeOK /\ [Next]_vars =>
        [\A a \in 0 .. Splim - 1 : data'[a] # data[a] => SP' = SP]_vars
  <2>. SUFFICES ASSUME TypeOK, [Next]_vars, NEW a \in 0 .. Splim - 1, data'[a] # data[a]
                PROVE  SP' = SP
    OBVIOUS
  <2>1. a \in Addr /\ SP \in Int /\ Splim \in Int
    BY MachineAssumption DEF Addr, TypeOK
  <2>2. ASSUME NEW n \in Nat \ {0}, Splim <= SP - n PROVE a \notin SP - n .. SP - 1
    BY <2>1, <2>2
  <2>. QED BY <2>1, <2>2, DataStep
<1>. QED BY <1>1, TypeCorrect, PTL DEF Spec, FloorHolds

\* No instruction changes a byte the load declared write-protected.
THEOREM RegionsKept == Spec => RegionsIntact
<1>1. TypeOK /\ [Next]_vars => [\A a \in Protected : data'[a] = data[a]]_vars
  <2>. SUFFICES ASSUME TypeOK, [Next]_vars, NEW a \in Protected PROVE data'[a] = data[a]
    OBVIOUS
  <2>1. a \in Addr
    BY MachineAssumption
  <2>. QED BY <2>1, DataStep
<1>. QED BY <1>1, TypeCorrect, PTL DEF Spec, RegionsIntact

------------------------------------------------------------------------------
\* Only RET and TRAPRET shorten the list of open frames.
LEMMA ShorterIsReturn ==
  ASSUME TypeOK, [Next]_vars, Len(open') < Len(open)
  PROVE  \E op \in Program : Return(op) \/ TrapReturn(op)
<1>1. ASSUME UNCHANGED open PROVE FALSE
  <2>1. Len(open) \in Nat
    BY SMT DEF TypeOK
  <2>. QED BY <1>1, <2>1
<1>2. ASSUME NEW f, open' = Append(open, f) PROVE FALSE
  BY <1>2, SMT DEF TypeOK
<1>3. ~UNCHANGED vars
  BY <1>1 DEF vars
<1>4. ~Overrun /\ \A op \in Program : ~Fault(op)
  BY <1>1 DEF Overrun, Fault
<1>5. ASSUME NEW op \in Program, Call(op) \/ Trap(op) PROVE FALSE
  BY <1>2, <1>5, Zenon DEF Call, Trap
<1>6. ASSUME NEW op \in Program,
             Jump(op) \/ PushOp(op) \/ MoveSP(op) \/ Store(op) \/ Patch(op) \/ Plain(op)
      PROVE  FALSE
  BY <1>1, <1>6, Zenon DEF Jump, PushOp, MoveSP, Store, Patch, Plain
<1>. QED BY <1>3, <1>4, <1>5, <1>6 DEF Next, Execute

\* What lies in an intact frame is what was pushed, byte by byte.
LEMMA FrameRead ==
  ASSUME TypeOK, NEW f \in Frame, Intact(f)
  PROVE  /\ SP = f.sp
         /\ returns_to = f.ret
         /\ ~f.trap => Len(frame(f)) = 2
         /\ f.trap => Len(frame(f)) = 4 /\ data[SP + 2] = f.flags
<1>. DEFINE hi == high(f.ret)
            lo == low(f.ret)
<1>1. f.ret \in Word /\ f.flags \in Flags /\ f.trap \in BOOLEAN /\ f.sp \in Int
  <2>1. f.ret \in 0 .. CodeLen /\ f.flags \in Flags /\ f.trap \in BOOLEAN
          /\ f.sp \in 0 .. DataSize
    BY DEF Frame
  <2>. QED BY <2>1, MachineAssumption, SMT DEF Word
<1>2. word(hi, lo) = f.ret
  BY <1>1, BytesOfWord
<1>3. SP = f.sp /\ \A i \in DOMAIN frame(f) : data[f.sp + i - 1] = frame(f)[i]
  BY DEF Intact
<1>. HIDE DEF hi, lo
<1>4. CASE ~f.trap
  <2>1. frame(f) = <<hi, lo>>
    BY <1>4, SMT DEF frame, hi, lo
  <2>2. data[SP] = hi /\ data[SP + 1] = lo /\ Len(frame(f)) = 2
    BY <1>1, <1>3, <2>1, SMT
  <2>. QED BY <1>1, <1>2, <1>3, <1>4, <2>2 DEF returns_to
<1>5. CASE f.trap
  <2>1. frame(f) = <<hi, lo, f.flags, TRAP_TAG>>
    BY <1>5, SMT DEF frame, hi, lo
  <2>2. /\ data[SP] = hi /\ data[SP + 1] = lo /\ data[SP + 2] = f.flags
        /\ Len(frame(f)) = 4
    BY <1>1, <1>3, <2>1, SMT
  <2>. QED BY <1>1, <1>2, <1>3, <1>5, <2>2 DEF returns_to
<1>. QED BY <1>1, <1>4, <1>5

\* A return through an intact frame goes back to where the frame was pushed,
\* with the stack and, for a trap, the flags it was pushed with: CALL and RET,
\* EXT and TRAPRET agree on the layout for every radix and every image.
THEOREM ReturnsToCaller == Spec => ReturnsMatch
<1>1. TypeOK /\ [Next]_vars =>
        [ Len(open') < Len(open) =>
            LET f == open[Len(open)] IN
              Intact(f) /\ f.trap = (TDEPTH' # TDEPTH) =>
                /\ PC' = f.ret
                /\ SP' = f.sp + Len(frame(f))
                /\ f.trap => flags' = f.flags ]_vars
  <2>. DEFINE f == open[Len(open)]
  <2>. SUFFICES ASSUME TypeOK, [Next]_vars, Len(open') < Len(open),
                       Intact(f), f.trap = (TDEPTH' # TDEPTH)
                PROVE  /\ PC' = f.ret
                       /\ SP' = f.sp + Len(frame(f))
                       /\ f.trap => flags' = f.flags
    OBVIOUS
  <2>1. f \in Frame
    <3>1. Len(open') \in Nat
      <4>1. open' \in Seq(Frame)
        BY TypeStep DEF TypeOK
      <4>. QED BY <4>1, SMT
    <3>2. Len(open) \in Nat /\ Len(open) \in 1 .. Len(open)
      BY <3>1, SMT DEF TypeOK
    <3>. QED BY <3>2, SMT DEF TypeOK
  <2>. HIDE DEF f
  <2>2. /\ SP = f.sp /\ returns_to = f.ret /\ f.trap \in BOOLEAN
        /\ ~f.trap => Len(frame(f)) = 2
        /\ f.trap => Len(frame(f)) = 4 /\ data[SP + 2] = f.flags
    BY <2>1, FrameRead DEF Frame
  <2>3. PICK op \in Program : Return(op) \/ TrapReturn(op)
    BY ShorterIsReturn
  <2>4. CASE Return(op)
    <3>1. ~f.trap
      BY <2>2, <2>4 DEF Return
    <3>. QED BY <2>2, <2>4, <3>1 DEF Return, Count
  <2>5. CASE TrapReturn(op)
    <3>0. TDEPTH' # TDEPTH
      BY <2>5 DEF TrapReturn, TypeOK
    <3>1. f.trap
      BY <3>0, Zenon
    <3>2. f.flags % FlagSpan = f.flags
      <4>1. f.flags \in 0 .. FlagSpan - 1 /\ FlagSpan \in Nat \ {0}
        BY <2>1, MachineAssumption DEF Frame, Flags
      <4>. QED BY <4>1, SMT
    <3>. QED BY <2>2, <2>5, <3>1, <3>2 DEF TrapReturn, Count
  <2>. QED BY <2>3, <2>4, <2>5
<1>. QED BY <1>1, TypeCorrect, PTL DEF Spec, ReturnsMatch

=============================================================================
