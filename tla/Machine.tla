------------------------------- MODULE Machine -------------------------------
(***************************************************************************)
(* One NCP-8 machine on the reference path: the control, the stack, the    *)
(* trap frames and the write protection of src/golden_sim.py NCP8.step.    *)
(*                                                                         *)
(* A step is one call of NCP8.step.  The registers and the bytes of CODE   *)
(* are abstracted to the instruction the tick decodes, drawn from Program  *)
(* with its operands evaluated: any instruction may stand at any PC, which *)
(* is what a self-modifying image allows.  Bank instructions are           *)
(* BankGroup's.                                                            *)
(***************************************************************************)
EXTENDS Integers, Sequences

CONSTANTS
  DataSize,     \* bytes of DATA
  CodeLen,      \* CODELEN, the bytes of the image
  Radix,        \* values of a byte; 256 in the code
  TRAP_TAG,     \* the byte EXT stores on top of its frame
  FlagSpan,     \* values of the packed flags; 16 in the code
  Entry,        \* ENTRY
  Splim,        \* SPLIM, the declared stack floor
  Tdlim,        \* TDLIM, the declared trap depth
  TickBudget,   \* TICKBUDGET
  Outcap,       \* OUTCAP
  Window,       \* addresses STC may write
  Protected,    \* addresses of DATA the declared regions cover
  Vec,          \* the handlers of VEC, 0 for none; EXT's k counts from 0
  Vtab,         \* the base of the vector table in DATA, or NoVtab
  NoVtab,
  Program       \* the instructions a tick may decode, a subset of Op

Byte  == 0 .. Radix - 1
Word  == 0 .. Radix * Radix - 1
Addr  == 0 .. DataSize - 1
Flags == 0 .. FlagSpan - 1

\* The instructions by what they do to the control and the stack, operands
\* evaluated: where a branch goes, where a store or a load falls, the bytes put.
Width == Nat \ {0}
Bytes == {<<b>> : b \in Byte} \cup (Byte \X Byte)

Op ==
  [kind : {"JMP", "CALL", "SETSP"}, len : Width, to : Word]
    \cup [kind : {"EXT"}, len : Width, k : Byte]
    \cup [kind : {"PUSH"}, len : Width, put : Bytes]
    \cup [kind : {"POP"}, len : Width, n : {1, 2}]
    \cup [kind : {"ST"}, len : Width, at : Word, put : Bytes]
    \cup [kind : {"LD"}, len : Width, at : Word, n : {1, 2}]
    \cup [kind : {"STC", "LDC", "OUTM"}, len : Width, at : Word]
    \cup [kind : {"RET", "TRAPRET", "OUT", "HALT", "ALU", "BAD"}, len : Width]

word(hi, lo) == hi * Radix + lo
high(w) == w \div Radix
low(w) == w % Radix

\* DATA as loaded: the declared table seeded from VEC, low bytes first.
Loaded ==
  [a \in Addr |->
     IF Vtab # NoVtab /\ a \in Vtab .. Vtab + 2 * Len(Vec) - 1
     THEN LET w == Vec[(a - Vtab) \div 2 + 1]
          IN  IF (a - Vtab) % 2 = 0 THEN low(w) ELSE high(w)
     ELSE 0]

ASSUME MachineAssumption ==
  /\ DataSize \in Nat \ {0} /\ Radix \in Nat \ {0}
  /\ CodeLen \in Nat \ {0} /\ CodeLen < Radix * Radix
  /\ TRAP_TAG \in Byte /\ FlagSpan \in 1 .. Radix
  /\ Entry \in 0 .. CodeLen - 1
  /\ Splim \in 0 .. DataSize
  /\ Tdlim \in Nat /\ TickBudget \in Nat /\ Outcap \in Nat
  /\ Window \subseteq 0 .. CodeLen - 1
  /\ Protected \subseteq Addr
  /\ Vec \in Seq(Word)
  /\ Vtab = NoVtab \/ (Vtab \in Addr /\ Vtab + 2 * Len(Vec) <= DataSize)
  /\ Program \subseteq Op

VARIABLES
  status, cause,      \* status and fault_reason
  fault_addr,         \* fault_addr
  PC, SP, data,       \* the program counter, the stack pointer, DATA
  flags,              \* C, Z, S and V, packed
  TDEPTH,             \* the trap depth
  patched, first,     \* the cells STC has written, none if STC_COUNT is 0; STC_FIRST
  out,                \* bytes emitted
  tick,               \* the tick counter
  open                \* history: the call and trap frames not returned through

vars == <<status, cause, fault_addr, PC, SP, data, flags, TDEPTH, patched, first,
          out, tick, open>>

Init ==
  /\ status = "RUNNING" /\ cause = "OK" /\ fault_addr = 0
  /\ PC = Entry /\ SP = DataSize /\ data = Loaded
  /\ flags = 0 /\ TDEPTH = 0
  /\ patched = {} /\ first = 0
  /\ out = 0 /\ tick = 0
  /\ open = <<>>

------------------------------------------------------------------------------
\* OUT of a register, OUTM and OUTDE of a byte of DATA.
emits(op) == op.kind \in {"OUT", "OUTM"}

\* The checks of a tick, each answering "OK" or a cause, in the order the code
\* makes them; the first that does not answer "OK" names the fault.
holds(cond, c) == IF cond THEN "OK" ELSE c

\* Slips: the floor is taken to be 0; a push is checked at its first byte.
stack_room_Zero(n) == holds(0 <= SP - n /\ SP <= DataSize, "STACK_OVERFLOW")

stack_room(n)   == holds(Splim <= SP - n /\ SP <= DataSize, "STACK_OVERFLOW")
stack_have(n)   == holds(0 <= SP /\ SP + n <= DataSize, "STACK_UNDERFLOW")
pc_target(t)    == holds(t < CodeLen, "PC_ILLEGAL")
region(cells)   == holds(cells \cap Protected = {}, "REGION_VIOL")

stack_region_Top(n) == region({SP - 1})

stack_region(n) == region(SP - n .. SP - 1)
mem(a, n)       == holds(a + n <= DataSize, "DATA_OOB")

\* Slip: the bytes of a return address are taken in PUSHW's order.
returns_to_Swapped == word(data[SP + 1], data[SP])

\* What RET and TRAPRET read at SP, checked only once the stack has room.
returns_to == word(data[SP], data[SP + 1])

\* The handler of EXT k: the table in DATA where one is declared, else VEC.
vector(k) ==
  IF Vtab = NoVtab THEN Vec[k + 1] ELSE word(data[Vtab + 2 * k + 1], data[Vtab + 2 * k])

checks(op) ==
  CASE op.kind = "JMP"  -> <<pc_target(op.to)>>
    [] op.kind = "CALL" -> <<stack_room(2), pc_target(op.to), stack_region(2)>>
    [] op.kind = "RET"  ->
         IF stack_have(2) = "OK" THEN <<stack_have(2), pc_target(returns_to)>>
         ELSE <<stack_have(2)>>
    [] op.kind = "EXT"  ->
         IF op.k >= Len(Vec) THEN <<"TRAP_UNREG">>
         ELSE <<holds(vector(op.k) # 0, "TRAP_UNREG"), holds(TDEPTH # Tdlim, "TRAP_DEPTH"),
                stack_room(4), pc_target(vector(op.k)), stack_region(4)>>
    [] op.kind = "TRAPRET" ->
         IF stack_have(4) = "OK"
         THEN <<holds(TDEPTH # 0, "TRAP_UNBALANCED"), stack_have(4),
                holds(data[SP + 3] = TRAP_TAG, "TRAP_FRAME"), pc_target(returns_to)>>
         ELSE <<holds(TDEPTH # 0, "TRAP_UNBALANCED"), stack_have(4)>>
    [] op.kind = "PUSH" -> <<stack_room(Len(op.put)), stack_region(Len(op.put))>>
    [] op.kind = "POP"  -> <<stack_have(op.n)>>
    [] op.kind = "ST"   ->
         <<mem(op.at, Len(op.put)), region(op.at .. op.at + Len(op.put) - 1)>>
    [] op.kind = "LD"   -> <<mem(op.at, op.n)>>
    [] op.kind = "LDC"  -> <<holds(op.at < CodeLen, "CODE_OOB")>>
    [] op.kind = "SETSP" -> <<holds(op.to <= DataSize, "DATA_OOB")>>
    [] op.kind = "STC"  ->
         <<holds(op.at < CodeLen, "CODE_OOB"), holds(op.at \in Window, "WINDOW")>>
    [] op.kind = "OUT"  -> <<holds(out < Outcap, "OUT_CAP")>>
    [] op.kind = "OUTM" -> <<mem(op.at, 1), holds(out < Outcap, "OUT_CAP")>>
    [] op.kind = "BAD"  -> <<"OTHER">>
    [] OTHER -> <<>>

\* Every byte of the instruction is in the image and every check holds.
passes(op) ==
  /\ PC + op.len <= CodeLen
  /\ \A i \in DOMAIN checks(op) : checks(op)[i] = "OK"

\* The answer of a row of checks: the first that is not "OK", if any.
first_of(cs) ==
  IF \A i \in DOMAIN cs : cs[i] = "OK" THEN "OK"
  ELSE LET i == CHOOSE n \in DOMAIN cs :
                  cs[n] # "OK" /\ \A k \in 1 .. n - 1 : cs[k] = "OK"
       IN  cs[i]

\* The cause of a tick that fails: the fetch's, or the first failing check's.
verdict(op) == IF PC + op.len > CodeLen THEN "FETCH_OOB" ELSE first_of(checks(op))

------------------------------------------------------------------------------
\* The parts of a committed tick

\* The cells from a on hold bytes; nothing else moves.
stored(a, bytes) ==
  [c \in Addr |-> IF c \in a .. a + Len(bytes) - 1 THEN bytes[c - a + 1] ELSE data[c]]

Push(bytes) ==
  /\ SP' = SP - Len(bytes)
  /\ data' = stored(SP - Len(bytes), bytes)

\* Slip: the program counter is moved on twice.
Count_Twice(pc) ==
  /\ PC' = pc + 1
  /\ tick' = tick + 1

\* pc is where the next tick fetches.
Count(pc) ==
  /\ PC' = pc
  /\ tick' = tick + 1

Running(op) == status = "RUNNING" /\ tick < TickBudget /\ op \in Program

Commits(op) == Running(op) /\ passes(op)

NoFault == UNCHANGED <<cause, fault_addr>>
NoCode  == UNCHANGED <<patched, first>>

------------------------------------------------------------------------------
\* NCP8.step; stepping a stopped machine changes nothing.

Overrun ==
  /\ status = "RUNNING"
  /\ tick >= TickBudget
  /\ status' = "OVERRUN"
  /\ UNCHANGED <<cause, fault_addr, PC, SP, data, flags, TDEPTH, patched, first,
                 out, tick, open>>

\* Slip: the fetch is not rolled back.
Fault_NoRollback(op) ==
  /\ Running(op)
  /\ ~passes(op)
  /\ status' = "ERROR"
  /\ cause' = verdict(op)
  /\ fault_addr' = PC
  /\ PC' = PC + 1
  /\ UNCHANGED <<SP, data, flags, TDEPTH, patched, first, out, tick, open>>

\* A failing tick is rolled back to its entry: only the three fault fields move.
Fault(op) ==
  /\ Running(op)
  /\ ~passes(op)
  /\ status' = "ERROR"
  /\ cause' = verdict(op)
  /\ fault_addr' = PC
  /\ UNCHANGED <<PC, SP, data, flags, TDEPTH, patched, first, out, tick, open>>

\* JMP, JPHL, DJNZ and the conditional branches when they are taken.
Jump(op) ==
  /\ op.kind = "JMP" /\ Commits(op)
  /\ Count(op.to)
  /\ NoFault /\ NoCode
  /\ UNCHANGED <<status, SP, data, flags, TDEPTH, out, open>>

\* CALL and CALL HL push the return address, low byte first: high ends on top.
Call(op) ==
  /\ op.kind = "CALL" /\ Commits(op)
  /\ LET ret == PC + op.len IN
       /\ Push(<<high(ret), low(ret)>>)
       /\ open' = Append(open, [trap |-> FALSE, sp |-> SP - 2, flags |-> 0, ret |-> ret])
  /\ Count(op.to)
  /\ NoFault /\ NoCode
  /\ UNCHANGED <<status, flags, TDEPTH, out>>

Return(op) ==
  /\ op.kind = "RET" /\ Commits(op)
  /\ SP' = SP + 2
  /\ Count(returns_to)
  /\ open' = IF open = <<>> THEN open ELSE SubSeq(open, 1, Len(open) - 1)
  /\ NoFault /\ NoCode
  /\ UNCHANGED <<status, data, flags, TDEPTH, out>>

\* EXT k pushes the tag, the flags and the return address.
Trap(op) ==
  /\ op.kind = "EXT" /\ Commits(op)
  /\ LET ret == PC + op.len IN
       /\ Push(<<high(ret), low(ret), flags, TRAP_TAG>>)
       /\ open' = Append(open, [trap |-> TRUE, sp |-> SP - 4, flags |-> flags, ret |-> ret])
  /\ Count(vector(op.k))
  /\ TDEPTH' = TDEPTH + 1
  /\ NoFault /\ NoCode
  /\ UNCHANGED <<status, flags, out>>

TrapReturn(op) ==
  /\ op.kind = "TRAPRET" /\ Commits(op)
  /\ SP' = SP + 4
  /\ Count(returns_to)
  /\ flags' = data[SP + 2] % FlagSpan
  /\ TDEPTH' = TDEPTH - 1
  /\ open' = IF open = <<>> THEN open ELSE SubSeq(open, 1, Len(open) - 1)
  /\ NoFault /\ NoCode
  /\ UNCHANGED <<status, data, out>>

\* PUSH and PUSHW; the first of op.put is the byte that ends on top.
PushOp(op) ==
  /\ op.kind = "PUSH" /\ Commits(op)
  /\ Push(op.put)
  /\ Count(PC + op.len)
  /\ NoFault /\ NoCode
  /\ UNCHANGED <<status, flags, TDEPTH, out, open>>

\* POP and POPW, and every write of SP by a MOVW or an ADD.
MoveSP(op) ==
  /\ op.kind \in {"POP", "SETSP"} /\ Commits(op)
  /\ SP' = IF op.kind = "POP" THEN SP + op.n ELSE op.to
  /\ Count(PC + op.len)
  /\ NoFault /\ NoCode
  /\ UNCHANGED <<status, data, flags, TDEPTH, out, open>>

\* The stores through HL and DE: a byte or a word, low byte first.
Store(op) ==
  /\ op.kind = "ST" /\ Commits(op)
  /\ data' = stored(op.at, op.put)
  /\ Count(PC + op.len)
  /\ NoFault /\ NoCode
  /\ UNCHANGED <<status, SP, flags, TDEPTH, out, open>>

\* STC writes a cell of CODE; the first address written is kept.
Patch(op) ==
  /\ op.kind = "STC" /\ Commits(op)
  /\ patched' = patched \cup {op.at}
  /\ first' = IF patched = {} THEN op.at ELSE first
  /\ Count(PC + op.len)
  /\ NoFault
  /\ UNCHANGED <<status, SP, data, flags, TDEPTH, out, open>>

\* Slip: these return before the program counter and the tick are moved.
Plain_Uncounted(op) ==
  /\ op.kind \in {"OUT", "OUTM", "HALT", "ALU", "LD", "LDC"} /\ Commits(op)
  /\ status' = IF op.kind = "HALT" THEN "HALT" ELSE status
  /\ out' = IF emits(op) THEN out + 1 ELSE out
  /\ flags' \in IF op.kind = "ALU" THEN Flags ELSE {flags}
  /\ NoFault /\ NoCode
  /\ UNCHANGED <<PC, SP, data, TDEPTH, tick, open>>

\* OUT and OUTM, HALT, the loads, and the instructions on registers only,
\* which may leave any flags.
Plain(op) ==
  /\ op.kind \in {"OUT", "OUTM", "HALT", "ALU", "LD", "LDC"} /\ Commits(op)
  /\ status' = IF op.kind = "HALT" THEN "HALT" ELSE status
  /\ out' = IF emits(op) THEN out + 1 ELSE out
  /\ flags' \in IF op.kind = "ALU" THEN Flags ELSE {flags}
  /\ Count(PC + op.len)
  /\ NoFault /\ NoCode
  /\ UNCHANGED <<SP, data, TDEPTH, open>>

Execute(op) ==
  \/ Jump(op) \/ Call(op) \/ Return(op) \/ Trap(op) \/ TrapReturn(op)
  \/ PushOp(op) \/ MoveSP(op) \/ Store(op) \/ Patch(op) \/ Plain(op)

Next == Overrun \/ \E op \in Program : Fault(op) \/ Execute(op)

Spec == Init /\ [][Next]_vars

\* NCP8.run calls step until the machine has stopped.
FairSpec == Spec /\ WF_vars(Next)

------------------------------------------------------------------------------
\* Properties

Status == {"RUNNING", "HALT", "OVERRUN", "ERROR"}

\* A call's or a trap's frame: where it lies and what it saves.
Frame == [trap : BOOLEAN, sp : 0 .. DataSize, flags : Flags, ret : 0 .. CodeLen]

TypeOK ==
  /\ status \in Status
  /\ PC \in 0 .. CodeLen
  /\ SP \in 0 .. DataSize
  /\ data \in [Addr -> Byte]
  /\ flags \in Flags
  /\ TDEPTH \in 0 .. Tdlim
  /\ out \in 0 .. Outcap
  /\ tick \in 0 .. TickBudget
  /\ patched \subseteq Window
  /\ open \in Seq(Frame)

\* An error names the instruction that made it: the tick is rolled back to its
\* entry, wherever in the fetch or the checks it failed.
FaultNamed ==
  /\ (status = "ERROR") <=> (cause # "OK")
  /\ status = "ERROR" => fault_addr = PC

\* A push never writes under the declared floor, from whatever SP the program
\* has set: what lies there changes by a store through a pointer or not at all.
FloorHolds ==
  [][ \A a \in 0 .. Splim - 1 : data'[a] # data[a] => SP' = SP ]_vars

\* No frame, push or store changes a protected byte, not even one of the bytes
\* of a wider write.
RegionsIntact ==
  [][ \A a \in Protected : data'[a] = data[a] ]_vars

\* The bytes of a frame, from SP up.
frame(f) ==
  IF f.trap THEN <<high(f.ret), low(f.ret), f.flags, TRAP_TAG>>
  ELSE <<high(f.ret), low(f.ret)>>

\* The latest frame is where SP points and holds what was pushed.
Intact(f) ==
  /\ SP = f.sp
  /\ \A i \in DOMAIN frame(f) : data[f.sp + i - 1] = frame(f)[i]

\* A return through an intact frame resumes after the call or the trap that
\* pushed it, with the stack as it was before and, for a trap, the flags too,
\* whatever ran in between.
ReturnsMatch ==
  [][ Len(open') < Len(open) =>
        LET f == open[Len(open)] IN
          Intact(f) /\ f.trap = (TDEPTH' # TDEPTH) =>
            /\ PC' = f.ret
            /\ SP' = f.sp + Len(frame(f))
            /\ f.trap => flags' = f.flags ]_vars

\* A machine stops: the budget ends what the program does not.
RunEnds == <>(status # "RUNNING")
=============================================================================
