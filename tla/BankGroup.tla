------------------------------ MODULE BankGroup ------------------------------
(***************************************************************************)
(* The reference's bank group: NBanks machines that tick together, each    *)
(* owning one DATA page and reaching the others' through its selector MB   *)
(* (src/banks.py BankGroup, over the bank instructions of                  *)
(* src/golden_sim.py NCP8).                                                *)
(*                                                                         *)
(* One call of BankGroup.step is NBanks + 1 steps here: BeginTick latches  *)
(* every owner's status, then the driver steps the members one by one in   *)
(* Order.  The code's order is the index order; the module takes it as a   *)
(* constant so that what does not depend on it can be told apart.          *)
(*                                                                         *)
(* A machine is reduced to what the others can see or touch: its status,   *)
(* its tick count, its page, and the bytes its last bank load brought in.  *)
(* Programs and registers are abstracted to the instruction the tick       *)
(* executes, drawn from Program with its operands already evaluated.       *)
(***************************************************************************)
EXTENDS Integers

CONSTANTS
  NBanks,         \* machines in the group, and the NBANKS each declares
  PageSize,       \* bytes of a DATA page (DATA_SIZE in the code)
  Byte,           \* values a cell may hold
  TickBudget,     \* [Machine -> Nat], the tick budget each was loaded with
  Regions,        \* [Machine -> SUBSET (Nat \X Nat)], write-protected [lo, hi)
  Order,          \* [Machine -> Machine], the driver's stepping order
  Image,          \* [Machine -> Page], the DATA each was loaded with
  Program,        \* the instructions a tick may execute, a subset of Op
  Snapshots,      \* the DATA images an installed record may carry
  MaxInstalls,    \* bound on install_state calls
  MaxGroupTicks   \* bound on the group ticks of a group that has stopped

Machine == 0 .. NBanks - 1
Addr    == 0 .. PageSize - 1
Page    == [Addr -> Byte]

\* MB and the address registers are wider than the group and the page; every
\* value past the end answers alike, so one such value stands for them all.
Selector == 0 .. NBanks
Pointer  == 0 .. PageSize

Status == {"RUNNING", "HALT", "OVERRUN", "ERROR"}

\* The causes a bank access or a plain store can stop on, and OTHER for any
\* cause of the remaining instructions.
Refusals == {"BANK_OOB", "BANK_BUSY", "DATA_OOB", "REGION_VIOL"}
Cause    == Refusals \cup {"OK", "OTHER"}

\* LDM/LDMW read and STM/STMW write 1 or 2 bytes of the page MB names.  ST is a
\* write of the machine's own DATA: through a pointer, by a push, or EXT's frame
\* of four; one the stack has no room for is a FAULT.
LoadOp  == [kind : {"LDM"}, mb : Selector, at : Pointer, len : {1, 2}]
StoreOp == [kind : {"STM"}, mb : Selector, at : Pointer, len : {1, 2},
            lo : Byte, hi : Byte]
OwnOp   == [kind : {"ST"}, at : Pointer, len : {1, 2, 4}, lo : Byte, hi : Byte]
PlainOp == [kind : {"NOP", "HALT", "FAULT"}]
Op      == LoadOp \cup StoreOp \cup OwnOp \cup PlainOp

\* What the last bank load brought into the registers: nothing yet, a byte or
\* a word.
Loaded == {<<>>} \cup {<<b>> : b \in Byte} \cup (Byte \X Byte)

ASSUME GroupAssumption ==
  /\ NBanks \in Nat \ {0}
  /\ PageSize \in Nat \ {0}
  /\ TickBudget \in [Machine -> Nat]
  /\ Regions \in [Machine -> SUBSET (Nat \X Nat)]
  /\ Order \in [Machine -> Machine]
  /\ \A m \in Machine : \E k \in Machine : Order[k] = m
  /\ \A j, k \in Machine : Order[j] = Order[k] => j = k
  /\ Image \in [Machine -> Page]
  /\ Program \subseteq Op
  /\ Snapshots \subseteq Page
  /\ MaxInstalls \in Nat
  /\ MaxGroupTicks \in Nat

VARIABLES
  page,      \* each machine's DATA; page[m] is also bank m of everybody else
  status,    \* each machine's status
  cause,     \* each machine's fault_reason
  tick,      \* each machine's tick counter
  seen,      \* what each machine's last bank load brought in
  latched,   \* bank_owner_status: the statuses every member was handed
  pos,       \* members stepped in this group tick; NBanks between group ticks
  gtick,     \* the group's own tick counter
  installs   \* install_state calls so far

vars == <<page, status, cause, tick, seen, latched, pos, gtick, installs>>

Init ==
  /\ page = Image
  /\ status = [m \in Machine |-> "RUNNING"]
  /\ cause = [m \in Machine |-> "OK"]
  /\ tick = [m \in Machine |-> 0]
  /\ seen = [m \in Machine |-> <<>>]
  /\ latched = status
  /\ pos = NBanks
  /\ gtick = 0
  /\ installs = 0

------------------------------------------------------------------------------
\* What a bank access and a store answer

quiescent(st) == st # "RUNNING"

region_hit(p, a) == \E r \in Regions[p] : r[1] <= a /\ a < r[2]

\* Slip: only the first byte of an access is looked up.
region_hit_any_FirstByte(p, a, len) == region_hit(p, a)

\* Does an access of len bytes at a touch a protected byte of page p?
region_hit_any(p, a, len) == \E k \in 0 .. len - 1 : region_hit(p, a + k)

\* The verdict on an own-page store: the address, then the regions.
own_store_refusal(m, a, len) ==
  IF a + len > PageSize THEN "DATA_OOB"
  ELSE IF region_hit_any(m, a, len) THEN "REGION_VIOL"
  ELSE "OK"

\* Slips: the owner is never asked; the owner is asked as it stands now.
bank_refusal_NoBusy(m, mb, a, len, write) ==
  IF mb >= NBanks THEN "BANK_OOB"
  ELSE IF a + len > PageSize THEN "DATA_OOB"
  ELSE IF write /\ region_hit_any(mb, a, len) THEN "REGION_VIOL"
  ELSE "OK"

bank_refusal_Live(m, mb, a, len, write) ==
  IF mb >= NBanks THEN "BANK_OOB"
  ELSE IF mb # m /\ ~quiescent(status[mb]) THEN "BANK_BUSY"
  ELSE IF a + len > PageSize THEN "DATA_OOB"
  ELSE IF write /\ region_hit_any(mb, a, len) THEN "REGION_VIOL"
  ELSE "OK"

\* The verdict on a bank access of machine m: the selector, then the owner's
\* latched status, then the address, and for a store the page's regions.
bank_refusal(m, mb, a, len, write) ==
  IF mb >= NBanks THEN "BANK_OOB"
  ELSE IF mb # m /\ ~quiescent(latched[mb]) THEN "BANK_BUSY"
  ELSE IF a + len > PageSize THEN "DATA_OOB"
  ELSE IF write /\ region_hit_any(mb, a, len) THEN "REGION_VIOL"
  ELSE "OK"

outcome(m, op) ==
  CASE op.kind = "LDM" -> bank_refusal(m, op.mb, op.at, op.len, FALSE)
    [] op.kind = "STM" -> bank_refusal(m, op.mb, op.at, op.len, TRUE)
    [] op.kind = "ST"  -> own_store_refusal(m, op.at, op.len)
    [] op.kind = "FAULT" -> "OTHER"
    [] OTHER -> "OK"

\* The page after a store: the byte at the address, and those above it.
written(pg, op) ==
  [a \in Addr |-> IF a = op.at THEN op.lo
                  ELSE IF op.at < a /\ a < op.at + op.len THEN op.hi
                  ELSE pg[a]]

fetched(pg, op) ==
  IF op.len = 1 THEN <<pg[op.at]>> ELSE <<pg[op.at], pg[op.at + 1]>>

------------------------------------------------------------------------------
\* A group tick

\* BankGroup.step before its loop: every member is handed the statuses the
\* group stood at, whatever the members do during the tick.  A stopped group
\* may be stepped on for nothing; the bound is on those ticks.
BeginTick ==
  /\ pos = NBanks
  /\ gtick < MaxGroupTicks \/ \E m \in Machine : ~quiescent(status[m])
  /\ latched' = status
  /\ pos' = 0
  /\ UNCHANGED <<page, status, cause, tick, seen, gtick, installs>>

\* Slip: the loop counts a member twice.
Advance_Twice ==
  /\ pos' = pos + 2
  /\ gtick' = IF pos + 1 = NBanks THEN gtick + 1 ELSE gtick
  /\ UNCHANGED <<latched, installs>>

\* The driver's loop moves past one member; the last one ends the group tick.
Advance ==
  /\ pos' = pos + 1
  /\ gtick' = IF pos + 1 = NBanks THEN gtick + 1 ELSE gtick
  /\ UNCHANGED <<latched, installs>>

Turn(m) == pos < NBanks /\ m = Order[pos]

\* Slip: the loop stays at a stopped machine.
StepStopped_Waits(m) ==
  /\ Turn(m)
  /\ quiescent(status[m])
  /\ UNCHANGED vars

\* Stepping a stopped machine is a no-op.
StepStopped(m) ==
  /\ Turn(m)
  /\ quiescent(status[m])
  /\ Advance
  /\ UNCHANGED <<page, status, cause, tick, seen>>

\* Slip: the budget is looked at before the status.
StepOverrun_BudgetFirst(m) ==
  /\ Turn(m)
  /\ tick[m] >= TickBudget[m]
  /\ status' = [status EXCEPT ![m] = "OVERRUN"]
  /\ Advance
  /\ UNCHANGED <<page, cause, tick, seen>>

\* The tick that finds the budget spent executes nothing and does not count.
StepOverrun(m) ==
  /\ Turn(m)
  /\ ~quiescent(status[m])
  /\ tick[m] >= TickBudget[m]
  /\ status' = [status EXCEPT ![m] = "OVERRUN"]
  /\ Advance
  /\ UNCHANGED <<page, cause, tick, seen>>

Executing(m) ==
  /\ Turn(m)
  /\ ~quiescent(status[m])
  /\ tick[m] < TickBudget[m]

\* Slip: the failing tick is counted.
StepFault_Counts(m, op) ==
  /\ Executing(m)
  /\ outcome(m, op) # "OK"
  /\ status' = [status EXCEPT ![m] = "ERROR"]
  /\ cause' = [cause EXCEPT ![m] = outcome(m, op)]
  /\ tick' = [tick EXCEPT ![m] = @ + 1]
  /\ Advance
  /\ UNCHANGED <<page, seen>>

\* A tick that fails a check records the cause and commits nothing else.
StepFault(m, op) ==
  /\ Executing(m)
  /\ outcome(m, op) # "OK"
  /\ status' = [status EXCEPT ![m] = "ERROR"]
  /\ cause' = [cause EXCEPT ![m] = outcome(m, op)]
  /\ Advance
  /\ UNCHANGED <<page, tick, seen>>

StepLoad(m, op) ==
  /\ Executing(m)
  /\ op.kind = "LDM"
  /\ outcome(m, op) = "OK"
  /\ seen' = [seen EXCEPT ![m] = fetched(page[op.mb], op)]
  /\ tick' = [tick EXCEPT ![m] = @ + 1]
  /\ Advance
  /\ UNCHANGED <<page, status, cause>>

target(m, op) == IF op.kind = "ST" THEN m ELSE op.mb

StepStore(m, op) ==
  /\ Executing(m)
  /\ op.kind \in {"STM", "ST"}
  /\ outcome(m, op) = "OK"
  /\ page' = [page EXCEPT ![target(m, op)] = written(page[target(m, op)], op)]
  /\ tick' = [tick EXCEPT ![m] = @ + 1]
  /\ Advance
  /\ UNCHANGED <<status, cause, seen>>

\* HALT counts its own tick; any other instruction leaves the pages alone.
StepPlain(m, op) ==
  /\ Executing(m)
  /\ op.kind \in {"NOP", "HALT"}
  /\ status' = IF op.kind = "HALT" THEN [status EXCEPT ![m] = "HALT"] ELSE status
  /\ tick' = [tick EXCEPT ![m] = @ + 1]
  /\ Advance
  /\ UNCHANGED <<page, cause, seen>>

Execute(m, op) ==
  \/ StepFault(m, op)
  \/ StepLoad(m, op)
  \/ StepStore(m, op)
  \/ StepPlain(m, op)

------------------------------------------------------------------------------
\* Putting a recorded state back

\* The status and fault_reason pairs check_record lets through.
fault_state_ok(st, c) == (st = "ERROR") <=> (c # "OK")

\* Slip: a record is put back whatever the driver is doing.
Install_AnyTime(m, img, st, c, t) ==
  /\ installs < MaxInstalls
  /\ fault_state_ok(st, c)
  /\ page' = [page EXCEPT ![m] = img]
  /\ status' = [status EXCEPT ![m] = st]
  /\ cause' = [cause EXCEPT ![m] = c]
  /\ tick' = [tick EXCEPT ![m] = t]
  /\ seen' = [seen EXCEPT ![m] = <<>>]
  /\ installs' = installs + 1
  /\ UNCHANGED <<latched, pos, gtick>>

\* install_state on one member, between group ticks: the record replaces the
\* machine's state and overwrites its page in place, so the neighbours' view
\* of the bank follows; the statuses latched for the last tick do not.
Install(m, img, st, c, t) ==
  /\ pos = NBanks
  /\ installs < MaxInstalls
  /\ fault_state_ok(st, c)
  /\ page' = [page EXCEPT ![m] = img]
  /\ status' = [status EXCEPT ![m] = st]
  /\ cause' = [cause EXCEPT ![m] = c]
  /\ tick' = [tick EXCEPT ![m] = t]
  /\ seen' = [seen EXCEPT ![m] = <<>>]
  /\ installs' = installs + 1
  /\ UNCHANGED <<latched, pos, gtick>>

InstallAny ==
  \E m \in Machine, img \in Snapshots, st \in Status, c \in {"OK", "OTHER"} :
    \E t \in 0 .. TickBudget[m] : Install(m, img, st, c, t)

------------------------------------------------------------------------------
Step(m) ==
  \/ StepStopped(m)
  \/ StepOverrun(m)
  \/ \E op \in Program : Execute(m, op)

Next ==
  \/ BeginTick
  \/ \E m \in Machine : Step(m)
  \/ InstallAny

Spec == Init /\ [][Next]_vars

\* BankGroup.run is a loop that keeps calling step, and step always finishes
\* its members: the driver never stops part-way.
Driver == BeginTick \/ \E m \in Machine : Step(m)

FairSpec == Spec /\ WF_vars(Driver)

------------------------------------------------------------------------------
\* Properties

TypeOK ==
  /\ page \in [Machine -> Page]
  /\ status \in [Machine -> Status]
  /\ cause \in [Machine -> Cause]
  /\ tick \in [Machine -> Nat]
  /\ seen \in [Machine -> Loaded]
  /\ latched \in [Machine -> Status]
  /\ pos \in 0 .. NBanks
  /\ gtick \in Nat
  /\ installs \in 0 .. MaxInstalls

\* The members already stepped in the group tick under way; all of them
\* between group ticks.
Stepped == {Order[k] : k \in 0 .. pos - 1}

\* A member's recorded cause and its error status come together, on every path
\* a machine can stop or be restored by (isa_table.fault_state_error).
FaultPaired == \A m \in Machine : fault_state_ok(status[m], cause[m])

\* What was quiet at the boundary stays quiet for the whole group tick, so the
\* latch never says "quiet" of a machine that is running.
LatchHolds ==
  pos < NBanks =>
    \A m \in Machine : quiescent(latched[m]) => quiescent(status[m])

\* The page of a running machine is changed by nobody but that machine, in its
\* own turn; not even while the driver is between two other members.  (A
\* restored record is the one exception: it replaces the page.)
OwnerExclusive ==
  [][ \A p \in Machine :
        page'[p] # page[p] /\ ~quiescent(status[p]) =>
          Turn(p) \/ installs' # installs ]_vars

\* No instruction of any member ever changes a byte its owner's load declared
\* write-protected: a word that straddles a region's edge included.
RegionsIntact ==
  [][ \A p \in Machine, a \in Addr :
        region_hit(p, a) /\ page'[p][a] # page[p][a] => installs' # installs ]_vars

\* The tick a machine stops on an error commits nothing anywhere: no page, no
\* register, no tick count, of any member.
ErrorCommitsNothing ==
  [][ (\E m \in Machine : status'[m] = "ERROR" /\ status[m] # "ERROR")
        => UNCHANGED <<page, tick, seen>> \/ installs' # installs ]_vars

\* A terminal status is sticky, with everything the machine holds: no later
\* step of the group turns one stop into another (a halted member whose budget
\* is spent stays halted).
StoppedIsFrozen ==
  [][ \A m \in Machine :
        quiescent(status[m]) /\ installs' = installs =>
          /\ status'[m] = status[m] /\ cause'[m] = cause[m]
          /\ tick'[m] = tick[m] /\ seen'[m] = seen[m] ]_vars

\* The members tick in step: as long as nothing is restored, a machine that is
\* still running has executed exactly one instruction per group tick.
InStep ==
  installs = 0 =>
    \A m \in Machine :
      status[m] = "RUNNING" =>
        tick[m] = IF pos < NBanks /\ m \in Stepped THEN gtick + 1 ELSE gtick

\* Every group run ends: the budgets stop whatever the programs do not.
RunEnds == <>[](\A m \in Machine : quiescent(status[m]))

\* A group driven in a fixed order implements the promise.
Promise == INSTANCE OwnedPages
  WITH running <- {m \in Machine : ~quiescent(status[m])},
       quiet <- {m \in Machine : quiescent(latched[m])},
       done <- Stepped,
       Protected <- [p \in Machine |-> {a \in Addr : region_hit(p, a)}]

KeepsPromise == Promise!ASpec
=============================================================================
