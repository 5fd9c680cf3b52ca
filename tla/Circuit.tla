------------------------------- MODULE Circuit -------------------------------
(***************************************************************************)
(* The same machine on the circuit paths: one tick of the masked circuit   *)
(* (src/circuit_torch.py TorchCircuit.step) and one tick of the kernel     *)
(* (src/circuit_triton.py _tick).                                          *)
(*                                                                         *)
(* The reference checks an instruction step by step and leaves at the      *)
(* first refusal.  The masked circuit computes every signal of every site  *)
(* whatever the others say, reading memory at clamped addresses, names the *)
(* first site of FAULT_SITE_ORDER that fired and commits under one mask.   *)
(* The kernel branches, keeps the first cause named and makes three checks *)
(* after the branch.  A step here is a tick of either, so a state may pass *)
(* from one path to the other between ticks; both are to be the machine's. *)
(***************************************************************************)
EXTENDS Machine

CONSTANTS
  Escaped      \* the instructions of Program that stand behind the prefix byte

VARIABLE
  ran          \* history: the instruction of the last tick

PREFIX_BYTES == 2

\* The two circuits write out the lengths of some instructions, and VEC has
\* VEC_COUNT entries.
ASSUME CircuitAssumption ==
  /\ Escaped \subseteq Program
  /\ \A op \in Escaped : op.len >= PREFIX_BYTES
  /\ \A op \in Program :
       /\ op.kind = "CALL" => op.len = (IF op \in Escaped THEN 2 ELSE 3)
       /\ op.kind = "EXT" => op \in Escaped /\ op.len = 3
       /\ op.kind = "BAD" => op.len = (IF op \in Escaped THEN 2 ELSE 1)
  /\ Vec # <<>>

------------------------------------------------------------------------------
\* What the two circuits have in common

\* The bytes a tick would store, in the order of the write ports.
stores(op, ret) ==
  CASE op.kind = "CALL" -> <<[at |-> SP - 1, val |-> low(ret)],
                             [at |-> SP - 2, val |-> high(ret)]>>
    [] op.kind = "EXT"  -> <<[at |-> SP - 1, val |-> TRAP_TAG],
                             [at |-> SP - 2, val |-> flags],
                             [at |-> SP - 3, val |-> low(ret)],
                             [at |-> SP - 4, val |-> high(ret)]>>
    [] op.kind = "PUSH" -> [i \in DOMAIN op.put |->
                             [at |-> SP - i, val |-> op.put[Len(op.put) + 1 - i]]]
    [] op.kind = "ST"   -> [i \in DOMAIN op.put |->
                             [at |-> op.at + i - 1, val |-> op.put[i]]]
    [] OTHER -> <<>>

\* DATA once the write ports have fired one after the other.
port(d, ws, i) == IF i \in DOMAIN ws THEN [d EXCEPT ![ws[i].at] = ws[i].val] ELSE d
landed(ws) == port(port(port(port(data, ws, 1), ws, 2), ws, 3), ws, 4)

region_viol(ws) == \E i \in DOMAIN ws : ws[i].at \in Protected

\* The frames that are open after the tick.
opened(op) ==
  CASE op.kind = "CALL" -> Append(open, [trap |-> FALSE, sp |-> SP - 2, flags |-> 0,
                                         ret |-> PC + op.len])
    [] op.kind = "EXT"  -> Append(open, [trap |-> TRUE, sp |-> SP - 4, flags |-> flags,
                                         ret |-> PC + op.len])
    [] op.kind \in {"RET", "TRAPRET"} ->
         IF open = <<>> THEN open ELSE SubSeq(open, 1, Len(open) - 1)
    [] OTHER -> open

moves(op) == op.kind \in {"JMP", "CALL", "RET", "EXT", "TRAPRET"}

------------------------------------------------------------------------------
\* The masked circuit

\* A read at whatever address, clamped into the buffer.
clamp(a, last) == IF a > last THEN last ELSE a
g(a) == data[clamp(a, DataSize - 1)]

retv == word(g(SP), g(SP + 1))

vec(op) ==
  IF Vtab # NoVtab THEN word(g(Vtab + 2 * op.k + 1), g(Vtab + 2 * op.k))
  ELSE Vec[clamp(op.k + 1, Len(Vec))]

ext_ok(op) == op.k < Len(Vec) /\ vec(op) # 0

sp_lo(n) == SP - Splim >= n /\ SP <= DataSize
sp_hi(n) == SP + n <= DataSize

pushes(op) ==
  CASE op.kind = "PUSH" -> Len(op.put)
    [] op.kind = "CALL" -> 2
    [] op.kind = "EXT"  -> 4
    [] OTHER -> 0

pops(op) ==
  CASE op.kind = "POP" -> op.n
    [] op.kind = "RET" -> 2
    [] op.kind = "TRAPRET" -> 4
    [] OTHER -> 0

push_rows(op) == pushes(op) > 0 /\ ~sp_lo(pushes(op))
pop_rows(op)  == pops(op) > 0 /\ ~sp_hi(pops(op))

rd_rows(op) ==
  \/ op.kind = "LD" /\ op.at + op.n > DataSize
  \/ op.kind = "OUTM" /\ op.at >= DataSize
  \/ op.kind = "ST" /\ op.at + Len(op.put) > DataSize

fetch_code(op) == PC >= CodeLen \/ (op \in Escaped /\ PC + PREFIX_BYTES > CodeLen)
fetch_ok_rows(op) == PC + op.len <= CodeLen

trap_tag     == g(SP + 3) = TRAP_TAG
trapret_live == TDEPTH > 0 /\ sp_hi(4) /\ trap_tag

\* Where the tick would go.
rows_PC(op) ==
  CASE op.kind \in {"JMP", "CALL"} -> op.to
    [] op.kind \in {"RET", "TRAPRET"} -> retv
    [] op.kind = "EXT" -> vec(op)
    [] OTHER -> PC + op.len

\* Slip: TRAPRET's target is looked at whatever the frame holds.
pc_hit_Anyway(op) ==
  /\ moves(op) /\ rows_PC(op) >= CodeLen
  /\ op.kind = "EXT" => ext_ok(op) /\ TDEPTH # Tdlim

pc_hit(op) ==
  /\ moves(op) /\ rows_PC(op) >= CodeLen
  /\ op.kind = "TRAPRET" => trapret_live
  /\ op.kind = "EXT" => ext_ok(op) /\ TDEPTH # Tdlim

pcw_clean(op) == fetch_ok_rows(op) /\ ~push_rows(op) /\ ~pop_rows(op)

code_ok(op) == op.at < CodeLen

\* The sites in FAULT_SITE_ORDER.  The two bank sites are BankGroup's; BAD is an
\* opcode or a subcode that is not assigned, or a division by zero.
fired(op) ==
  <<holds(~(pc_hit(op) /\ pcw_clean(op)), "PC_ILLEGAL"),
    holds(~fetch_code(op), "FETCH_OOB"),
    holds(op.kind # "BAD", "OTHER"),
    holds(fetch_ok_rows(op), "FETCH_OOB"),
    holds(op.kind = "EXT" => ext_ok(op), "TRAP_UNREG"),
    holds(op.kind = "EXT" /\ ext_ok(op) => TDEPTH # Tdlim, "TRAP_DEPTH"),
    holds(op.kind = "TRAPRET" => TDEPTH # 0, "TRAP_UNBALANCED"),
    holds(~rd_rows(op), "DATA_OOB"),
    holds(~push_rows(op), "STACK_OVERFLOW"),
    holds(~pop_rows(op), "STACK_UNDERFLOW"),
    holds(op.kind = "TRAPRET" /\ TDEPTH > 0 /\ sp_hi(4) => trap_tag, "TRAP_FRAME"),
    holds(op.kind \in {"LDC", "STC"} => code_ok(op), "CODE_OOB"),
    holds(op.kind = "STC" /\ code_ok(op) => op.at \in Window, "WINDOW"),
    holds(op.kind = "SETSP" => op.to <= DataSize, "DATA_OOB"),
    holds(emits(op) => out < Outcap, "OUT_CAP"),
    holds(~region_viol(stores(op, PC)), "REGION_VIOL")>>

fault_cause(op) == first_of(fired(op))

rows_SP(op) ==
  IF op.kind = "SETSP" THEN op.to ELSE SP - pushes(op) + pops(op)

rows_flags(op) ==
  CASE op.kind = "ALU" -> Flags
    [] op.kind = "TRAPRET" -> {g(SP + 2) % FlagSpan}
    [] OTHER -> {flags}

rows_TDEPTH(op) ==
  CASE op.kind = "EXT" -> TDEPTH + 1
    [] op.kind = "TRAPRET" -> TDEPTH - 1
    [] OTHER -> TDEPTH

ret_addr(op) == IF op.kind = "CALL" /\ op \in Escaped THEN PC + 2 ELSE PC + 3

\* The masked circuit computes whatever the status; its masks decide.
TorchTick(op) ==
  LET running == status = "RUNNING"
      over    == running /\ tick >= TickBudget
      err     == fault_cause(op) # "OK"
      fault_w == running /\ ~over /\ err
      m       == running /\ ~over /\ ~err
      wrote   == m /\ op.kind = "STC"
  IN
  /\ status' = IF over THEN "OVERRUN"
               ELSE IF fault_w THEN "ERROR"
               ELSE IF m /\ op.kind = "HALT" THEN "HALT"
               ELSE status
  /\ cause' = IF fault_w THEN fault_cause(op) ELSE cause
  /\ fault_addr' = IF fault_w THEN PC ELSE fault_addr
  /\ data' = IF m THEN landed(stores(op, ret_addr(op))) ELSE data
  /\ first' = IF wrote /\ patched = {} THEN op.at ELSE first
  /\ patched' = IF wrote THEN patched \cup {op.at} ELSE patched
  /\ out' = IF m /\ emits(op) THEN out + 1 ELSE out
  /\ PC' = IF m THEN rows_PC(op) ELSE PC
  /\ SP' = IF m THEN rows_SP(op) ELSE SP
  /\ flags' \in IF m THEN rows_flags(op) ELSE {flags}
  /\ TDEPTH' = IF m THEN rows_TDEPTH(op) ELSE TDEPTH
  /\ tick' = IF m THEN tick + 1 ELSE tick
  /\ open' = IF m THEN opened(op) ELSE open

------------------------------------------------------------------------------
\* The kernel

no_room(n) == SP - Splim < n \/ SP > DataSize

vec_at(k) ==
  IF Vtab # NoVtab THEN word(data[Vtab + 2 * k + 1], data[Vtab + 2 * k]) ELSE Vec[k + 1]

ext_cause(op) ==
  IF op.k >= Len(Vec) THEN "TRAP_UNREG"
  ELSE first_of(<<holds(vec_at(op.k) # 0, "TRAP_UNREG"),
                  holds(TDEPTH # Tdlim, "TRAP_DEPTH"),
                  holds(~no_room(4), "STACK_OVERFLOW")>>)

trapret_cause ==
  IF TDEPTH = 0 THEN "TRAP_UNBALANCED"
  ELSE IF SP + 4 > DataSize THEN "STACK_UNDERFLOW"
  ELSE holds(data[SP + 3] = TRAP_TAG, "TRAP_FRAME")

stc_cause(op) ==
  first_of(<<holds(op.at < CodeLen, "CODE_OOB"), holds(op.at \in Window, "WINDOW")>>)

\* The cause named inside the branch of the instruction.
branch_cause(op) ==
  CASE op.kind = "CALL" -> holds(~no_room(2), "STACK_OVERFLOW")
    [] op.kind = "RET"  -> holds(SP + 1 < DataSize, "STACK_UNDERFLOW")
    [] op.kind = "EXT"  -> ext_cause(op)
    [] op.kind = "TRAPRET" -> trapret_cause
    [] op.kind = "PUSH" -> holds(~no_room(Len(op.put)), "STACK_OVERFLOW")
    [] op.kind = "POP"  -> holds(SP + op.n <= DataSize, "STACK_UNDERFLOW")
    [] op.kind = "ST"   -> holds(op.at + Len(op.put) - 1 < DataSize, "DATA_OOB")
    [] op.kind = "LD"   -> holds(op.at + op.n - 1 < DataSize, "DATA_OOB")
    [] op.kind = "OUTM" -> holds(op.at < DataSize, "DATA_OOB")
    [] op.kind = "LDC"  -> holds(op.at < CodeLen, "CODE_OOB")
    [] op.kind = "STC"  -> stc_cause(op)
    [] op.kind = "SETSP" -> holds(op.to <= DataSize, "DATA_OOB")
    [] op.kind = "BAD"  -> "OTHER"
    [] OTHER -> "OK"

fetched(op) ==
  /\ PC < CodeLen
  /\ op \in Escaped => PC + PREFIX_BYTES <= CodeLen
  /\ PC + op.len <= CodeLen

\* A prefix or an operand past the end leaves no instruction to branch on.
named(op) == IF fetched(op) THEN branch_cause(op) ELSE "FETCH_OOB"

\* nPC of an instruction that named no cause.
nPC(op) ==
  CASE op.kind \in {"JMP", "CALL"} -> op.to
    [] op.kind \in {"RET", "TRAPRET"} -> word(data[SP], data[SP + 1])
    [] op.kind = "EXT" -> vec_at(op.k)
    [] OTHER -> PC + op.len

\* After the branch: the output, the program counter and the regions are looked
\* at if nothing has been named, in this order.
tick_cause(op) ==
  IF named(op) # "OK" THEN named(op)
  ELSE first_of(<<holds(emits(op) => out < Outcap, "OUT_CAP"),
                  holds(moves(op) => nPC(op) < CodeLen, "PC_ILLEGAL"),
                  holds(~region_viol(stores(op, PC + op.len)), "REGION_VIOL")>>)

\* The store ports wrap their addresses at the end of the buffer.
wrapped(ws) == [i \in DOMAIN ws |-> [ws[i] EXCEPT !.at = @ % DataSize]]

nSP(op) ==
  CASE op.kind = "CALL" -> SP - 2
    [] op.kind = "RET"  -> SP + 2
    [] op.kind = "EXT"  -> SP - 4
    [] op.kind = "TRAPRET" -> SP + 4
    [] op.kind = "PUSH" -> SP - Len(op.put)
    [] op.kind = "POP"  -> SP + op.n
    [] op.kind = "SETSP" -> op.to
    [] OTHER -> SP

KernelHeld ==
  UNCHANGED <<PC, SP, data, flags, TDEPTH, patched, first, out, tick, open>>

KernelStop(op) ==
  /\ status = "RUNNING"
  /\ IF tick >= TickBudget
     THEN status' = "OVERRUN" /\ UNCHANGED <<cause, fault_addr>>
     ELSE /\ tick_cause(op) # "OK"
          /\ status' = "ERROR" /\ cause' = tick_cause(op) /\ fault_addr' = PC
  /\ KernelHeld

KernelCommit(op) ==
  /\ status = "RUNNING" /\ tick < TickBudget
  /\ tick_cause(op) = "OK"
  /\ status' = IF op.kind = "HALT" THEN "HALT" ELSE "RUNNING"
  /\ UNCHANGED <<cause, fault_addr>>
  /\ data' = landed(wrapped(stores(op, PC + op.len)))
  /\ IF op.kind = "STC"
     THEN patched' = patched \cup {op.at} /\ first' = IF patched = {} THEN op.at ELSE first
     ELSE UNCHANGED <<patched, first>>
  /\ out' = IF emits(op) THEN out + 1 ELSE out
  /\ PC' = nPC(op)
  /\ SP' = nSP(op)
  /\ CASE op.kind = "ALU" -> flags' \in Flags
       [] op.kind = "TRAPRET" -> flags' = data[SP + 2] % FlagSpan
       [] OTHER -> UNCHANGED flags
  /\ TDEPTH' = CASE op.kind = "EXT" -> TDEPTH + 1
                 [] op.kind = "TRAPRET" -> TDEPTH - 1
                 [] OTHER -> TDEPTH
  /\ tick' = tick + 1
  /\ open' = opened(op)

------------------------------------------------------------------------------
Idle == [kind |-> "NONE"]

CInit == Init /\ ran = Idle

Tick(op) == TorchTick(op) \/ KernelStop(op) \/ KernelCommit(op)

\* The reference's tick of an instruction.
RefTick(op) == Overrun \/ Fault(op) \/ Execute(op)

\* A machine carried between the three paths: any of them takes the next tick.
CNext ==
  \E op \in Program :
    /\ Tick(op) \/ RefTick(op)
    /\ ran' = IF status = "RUNNING" THEN op ELSE ran

CSpec == CInit /\ [][CNext]_<<vars, ran>>

\* Each path's run loop steps until the machine has stopped.
FairCSpec == CSpec /\ WF_<<vars, ran>>(CNext)

\* Both circuits implement the reference machine instruction by instruction,
\* whichever of them takes a tick: what the masks of the one and the late checks
\* of the other let through is what the reference commits for that instruction,
\* and they stop on the cause the reference names for it.
PathsAgree == Init /\ [][RefTick(ran')]_vars
=============================================================================
