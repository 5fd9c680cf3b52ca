--------------------------- MODULE BankGroupProofs ---------------------------
(***************************************************************************)
(* The bank group's safety properties, proved for every group size, page   *)
(* size, budget, region set, program and stepping order.                   *)
(***************************************************************************)
EXTENDS BankGroup, TLAPS

\* An access the group lets through names a page of the group, and that page
\* is the machine's own or one latched quiet; a byte it writes is unprotected.
LEMMA RefusalSound ==
  ASSUME NEW m \in Machine, NEW mb \in Selector, NEW a \in Pointer,
         NEW len \in {1, 2}, NEW write \in BOOLEAN,
         bank_refusal(m, mb, a, len, write) = "OK"
  PROVE  /\ mb \in Machine
         /\ mb = m \/ quiescent(latched[mb])
         /\ a + len <= PageSize
         /\ write => ~region_hit_any(mb, a, len)
<1>1. ~(mb >= NBanks)
  BY DEF bank_refusal
<1>2. ~(mb # m /\ ~quiescent(latched[mb]))
  BY <1>1 DEF bank_refusal
<1>3. ~(a + len > PageSize)
  BY <1>1, <1>2, Zenon DEF bank_refusal
<1>4. write => ~region_hit_any(mb, a, len)
  BY <1>1, <1>2, <1>3, Zenon DEF bank_refusal
<1>5. mb \in Machine
  BY <1>1, GroupAssumption DEF Machine, Selector
<1>. QED  BY <1>2, <1>3, <1>4, <1>5, GroupAssumption DEF Pointer

\* The same for a write of the machine's own DATA.
LEMMA OwnStoreSound ==
  ASSUME NEW m \in Machine, NEW a \in Pointer, NEW len \in {1, 2, 4},
         own_store_refusal(m, a, len) = "OK"
  PROVE  a + len <= PageSize /\ ~region_hit_any(m, a, len)
  BY GroupAssumption DEF own_store_refusal, Pointer

\* What a committed store may be: its target page is in the group and either
\* the machine's own or latched quiet, and the cells it covers are unprotected
\* cells of that page.
LEMMA StoreSound ==
  ASSUME TypeOK, NEW m \in Machine, NEW op \in Op,
         op.kind \in {"STM", "ST"}, outcome(m, op) = "OK"
  PROVE  /\ target(m, op) \in Machine
         /\ target(m, op) = m \/ quiescent(latched[target(m, op)])
         /\ op.at \in Pointer /\ op.len \in {1, 2, 4}
         /\ op.lo \in Byte /\ op.hi \in Byte
         /\ op.at + op.len <= PageSize
         /\ ~region_hit_any(target(m, op), op.at, op.len)
<1>1. CASE op.kind = "STM"
  <2>1. op \in StoreOp
    BY <1>1 DEF Op, LoadOp, StoreOp, OwnOp, PlainOp
  <2>2. bank_refusal(m, op.mb, op.at, op.len, TRUE) = "OK"
    BY <1>1 DEF outcome
  <2>. QED  BY <1>1, <2>1, <2>2, RefusalSound DEF StoreOp, target
<1>2. CASE op.kind = "ST"
  <2>1. op \in OwnOp
    BY <1>2 DEF Op, LoadOp, StoreOp, OwnOp, PlainOp
  <2>2. own_store_refusal(m, op.at, op.len) = "OK"
    BY <1>2 DEF outcome
  <2>. QED  BY <1>2, <2>1, <2>2, OwnStoreSound DEF OwnOp, target
<1>. QED  BY <1>1, <1>2

\* A store leaves a page a page, and changes only the cells it covers.
LEMMA WrittenPage ==
  ASSUME NEW pg \in Page, NEW op, op.lo \in Byte, op.hi \in Byte
  PROVE  /\ written(pg, op) \in Page
         /\ \A a \in Addr : written(pg, op)[a] # pg[a] =>
              a = op.at \/ (op.at < a /\ a < op.at + op.len)
  BY DEF written, Page

\* So a committed store never changes a protected cell.
LEMMA StoreMissesRegions ==
  ASSUME TypeOK, NEW m \in Machine, NEW op \in Op,
         op.kind \in {"STM", "ST"}, outcome(m, op) = "OK",
         NEW a \in Addr, region_hit(target(m, op), a)
  PROVE  written(page[target(m, op)], op)[a] = page[target(m, op)][a]
<1>. DEFINE p == target(m, op)
<1>1. /\ p \in Machine /\ op.len \in {1, 2, 4} /\ op.at \in Pointer
      /\ op.lo \in Byte /\ op.hi \in Byte
      /\ ~region_hit_any(p, op.at, op.len)
  BY StoreSound
<1>2. page[p] \in Page
  BY <1>1 DEF TypeOK
<1>3. SUFFICES ASSUME written(page[p], op)[a] # page[p][a] PROVE FALSE
  OBVIOUS
<1>4. a = op.at \/ (op.at < a /\ a < op.at + op.len)
  BY <1>1, <1>2, <1>3, WrittenPage
<1>5. a - op.at \in 0 .. op.len - 1 /\ a = op.at + (a - op.at)
  BY <1>1, <1>4, GroupAssumption DEF Pointer, Addr
<1>. QED  BY <1>1, <1>5 DEF region_hit_any

------------------------------------------------------------------------------
\* Every instruction the programs execute is one of Op.
LEMMA ProgramTyped == ASSUME NEW op \in Program PROVE op \in Op
  BY GroupAssumption

\* What a load brings in is a byte or a word of the page.
LEMMA FetchedLoaded ==
  ASSUME NEW pg \in Page, NEW op, op.at \in Pointer, op.len \in {1, 2},
         op.at + op.len <= PageSize
  PROVE  fetched(pg, op) \in Loaded
<1>1. op.at \in Addr /\ pg[op.at] \in Byte
  BY GroupAssumption DEF Pointer, Addr, Page
<1>2. CASE op.len = 1
  BY <1>1, <1>2 DEF fetched, Loaded
<1>3. CASE op.len = 2
  <2>1. pg[op.at + 1] \in Byte
    BY <1>3, GroupAssumption DEF Pointer, Addr, Page
  <2>. QED  BY <1>1, <1>3, <2>1 DEF fetched, Loaded
<1>. QED  BY <1>2, <1>3

\* What the driver's bookkeeping does on a member's step.
LEMMA AdvanceTyped ==
  ASSUME TypeOK, pos < NBanks, Advance
  PROVE  pos' \in 0 .. NBanks /\ gtick' \in Nat
         /\ latched' = latched /\ installs' = installs
  BY GroupAssumption DEF TypeOK, Advance

\* Each variable keeps its type.
LEMMA TypeStep == TypeOK /\ [Next]_vars => TypeOK'
<1> SUFFICES ASSUME TypeOK, [Next]_vars PROVE TypeOK'
  OBVIOUS
<1>1. CASE BeginTick
  BY <1>1, GroupAssumption DEF BeginTick, TypeOK
<1>2. ASSUME NEW m \in Machine, Step(m) PROVE TypeOK'
  <2>1. pos < NBanks /\ Advance
    BY <1>2 DEF Step, Execute, StepStopped, StepOverrun, StepFault, StepLoad,
                StepStore, StepPlain, Executing, Turn
  <2>2. /\ pos' \in 0 .. NBanks /\ gtick' \in Nat
        /\ latched' \in [Machine -> Status] /\ installs' \in 0 .. MaxInstalls
    BY <2>1, AdvanceTyped DEF TypeOK
  <2>4. CASE StepStopped(m)
    BY <2>2, <2>4 DEF StepStopped, TypeOK
  <2>5. CASE StepOverrun(m)
    BY <2>2, <2>5 DEF StepOverrun, TypeOK, Status
  <2>6. ASSUME NEW op \in Program, StepFault(m, op) PROVE TypeOK'
    <3>1. outcome(m, op) \in Cause
      BY DEF outcome, bank_refusal, own_store_refusal, Cause, Refusals
    <3>. QED  BY <2>2, <2>6, <3>1 DEF StepFault, TypeOK, Status
  <2>7. ASSUME NEW op \in Program, StepLoad(m, op) PROVE TypeOK'
    <3>1. op \in LoadOp
      BY <2>7, ProgramTyped DEF StepLoad, Op, LoadOp, StoreOp, OwnOp, PlainOp
    <3>2. bank_refusal(m, op.mb, op.at, op.len, FALSE) = "OK"
      BY <2>7 DEF StepLoad, outcome
    <3>3. op.mb \in Machine /\ op.at + op.len <= PageSize
      BY <3>1, <3>2, RefusalSound DEF LoadOp
    <3>4. fetched(page[op.mb], op) \in Loaded
      BY <3>1, <3>3, FetchedLoaded DEF TypeOK, LoadOp
    <3>. QED  BY <2>2, <2>7, <3>4 DEF StepLoad, TypeOK
  <2>8. ASSUME NEW op \in Program, StepStore(m, op) PROVE TypeOK'
    <3>1. /\ target(m, op) \in Machine /\ op.lo \in Byte /\ op.hi \in Byte
      BY <2>8, ProgramTyped, StoreSound DEF StepStore
    <3>2. written(page[target(m, op)], op) \in Page
      BY <3>1, WrittenPage DEF TypeOK
    <3>. QED  BY <2>2, <2>8, <3>1, <3>2 DEF StepStore, TypeOK
  <2>9. ASSUME NEW op \in Program, StepPlain(m, op) PROVE TypeOK'
    BY <2>2, <2>9 DEF StepPlain, TypeOK, Status
  <2>. QED  BY <1>2, <2>4, <2>5, <2>6, <2>7, <2>8, <2>9
            DEF Step, Execute, StepStopped, StepOverrun
<1>3. CASE InstallAny
  <2>1. PICK m \in Machine, img \in Snapshots, st \in Status,
             c \in {"OK", "OTHER"} :
          \E t \in 0 .. TickBudget[m] : Install(m, img, st, c, t)
    BY <1>3 DEF InstallAny
  <2>0. PICK t \in 0 .. TickBudget[m] : Install(m, img, st, c, t)
    BY <2>1
  <2>2. img \in Page /\ t \in Nat /\ c \in Cause
    BY <2>0, GroupAssumption DEF Cause
  <2>3. <<>> \in Loaded
    BY DEF Loaded
  <2>. QED  BY <2>0, <2>2, <2>3, GroupAssumption DEF Install, TypeOK
<1>4. CASE UNCHANGED vars
  BY <1>4 DEF vars, TypeOK
<1>. QED  BY <1>1, <1>2, <1>3, <1>4 DEF Next

LEMMA TypeInit == Init => TypeOK
  BY GroupAssumption DEF Init, TypeOK, Status, Cause, Loaded

\* Every variable of the group keeps its type.
THEOREM TypeCorrect == Spec => []TypeOK
<1>1. Init => TypeOK
  BY TypeInit
<1>2. TypeOK /\ [Next]_vars => TypeOK'
  BY TypeStep
<1>. QED  BY <1>1, <1>2, PTL DEF Spec

------------------------------------------------------------------------------
\* The latch is inductive because a member's status only ever leaves RUNNING
\* inside a group tick, and a restored record waits for the boundary.
LEMMA LatchStep == TypeOK /\ LatchHolds /\ [Next]_vars => LatchHolds'
<1> SUFFICES ASSUME TypeOK, LatchHolds, [Next]_vars PROVE LatchHolds'
  OBVIOUS
<1>1. CASE BeginTick
  BY <1>1 DEF BeginTick, LatchHolds
<1>2. ASSUME NEW m \in Machine, Step(m) PROVE LatchHolds'
  <2>1. pos < NBanks /\ latched' = latched
    BY <1>2 DEF Step, Execute, StepStopped, StepOverrun, StepFault, StepLoad,
                StepStore, StepPlain, Executing, Turn, Advance
  <2>2. \A n \in Machine : quiescent(status[n]) => quiescent(status'[n])
    BY <1>2 DEF Step, Execute, StepStopped, StepOverrun, StepFault, StepLoad,
                StepStore, StepPlain, TypeOK, quiescent
  <2>. QED  BY <2>1, <2>2 DEF LatchHolds
<1>3. CASE InstallAny
  BY <1>3, GroupAssumption DEF InstallAny, Install, LatchHolds
<1>4. CASE UNCHANGED vars
  BY <1>4 DEF vars, LatchHolds
<1>. QED  BY <1>1, <1>2, <1>3, <1>4 DEF Next

\* A group never takes a running machine for a quiet one (BankGroup.step reads
\* every status before it steps anybody).
THEOREM LatchCorrect == Spec => []LatchHolds
<1>1. Init => LatchHolds
  BY GroupAssumption DEF Init, LatchHolds
<1>. QED  BY <1>1, LatchStep, TypeCorrect, PTL DEF Spec

\* A step changes a page only by a store or by a restored record.
LEMMA PageStep ==
  ASSUME TypeOK, [Next]_vars
  PROVE  \/ page' = page
         \/ installs' # installs
         \/ \E m \in Machine, op \in Program : StepStore(m, op)
<1>1. CASE BeginTick
  BY <1>1 DEF BeginTick
<1>2. ASSUME NEW m \in Machine, Step(m)
      PROVE  page' = page \/ \E op \in Program : StepStore(m, op)
  BY <1>2 DEF Step, Execute, StepStopped, StepOverrun, StepFault, StepLoad, StepPlain
<1>3. CASE InstallAny
  BY <1>3, GroupAssumption DEF InstallAny, Install, TypeOK
<1>4. CASE UNCHANGED vars
  BY <1>4 DEF vars
<1>. QED  BY <1>1, <1>2, <1>3, <1>4 DEF Next

\* Nobody but its owner changes the page of a running machine.
THEOREM OwnerExclusion == Spec => OwnerExclusive
<1>1. ASSUME TypeOK, LatchHolds, [Next]_vars,
             NEW p \in Machine, page'[p] # page[p], ~quiescent(status[p])
      PROVE  Turn(p) \/ installs' # installs
  <2>1. CASE page' = page
    BY <1>1, <2>1
  <2>2. CASE installs' # installs
    BY <2>2
  <2>3. ASSUME NEW m \in Machine, NEW op \in Program, StepStore(m, op)
        PROVE  Turn(p)
    <3>1. p = target(m, op)
      BY <1>1, <2>3 DEF StepStore, TypeOK
    <3>2. p = m \/ quiescent(latched[p])
      BY <1>1, <2>3, <3>1, ProgramTyped, StoreSound DEF StepStore
    <3>3. pos < NBanks /\ Turn(m)
      BY <2>3 DEF StepStore, Executing, Turn
    <3>. QED  BY <1>1, <3>2, <3>3 DEF LatchHolds
  <2>. QED  BY <1>1, <2>1, <2>2, <2>3, PageStep
<1>2. TypeOK /\ LatchHolds /\ [Next]_vars =>
        [\A p \in Machine : page'[p] # page[p] /\ ~quiescent(status[p]) =>
           Turn(p) \/ installs' # installs]_vars
  BY <1>1
<1>. QED  BY <1>2, TypeCorrect, LatchCorrect, PTL DEF Spec, OwnerExclusive

\* No instruction changes a write-protected byte, whichever page it is on.
THEOREM RegionProtection == Spec => RegionsIntact
<1>1. ASSUME TypeOK, [Next]_vars, NEW p \in Machine, NEW a \in Addr,
             region_hit(p, a), page'[p][a] # page[p][a]
      PROVE  installs' # installs
  <2>1. ASSUME NEW m \in Machine, NEW op \in Program, StepStore(m, op)
        PROVE  FALSE
    <3>1. p = target(m, op)
      BY <1>1, <2>1 DEF StepStore, TypeOK
    <3>2. page'[p] = written(page[p], op)
      BY <1>1, <2>1, <3>1 DEF StepStore, TypeOK
    <3>3. written(page[p], op)[a] = page[p][a]
      BY <1>1, <2>1, <3>1, ProgramTyped, StoreMissesRegions DEF StepStore
    <3>. QED  BY <1>1, <3>2, <3>3
  <2>. QED  BY <1>1, <2>1, PageStep
<1>2. TypeOK /\ [Next]_vars =>
        [\A p \in Machine, a \in Addr :
           region_hit(p, a) /\ page'[p][a] # page[p][a] => installs' # installs]_vars
  BY <1>1
<1>. QED  BY <1>2, TypeCorrect, PTL DEF Spec, RegionsIntact

\* A recorded cause and the error status never come apart.
THEOREM FaultsPaired == Spec => []FaultPaired
<1>1. Init => FaultPaired
  BY DEF Init, FaultPaired, fault_state_ok
<1>2. TypeOK /\ FaultPaired /\ [Next]_vars => FaultPaired'
  <2> SUFFICES ASSUME TypeOK, FaultPaired, [Next]_vars PROVE FaultPaired'
    OBVIOUS
  <2>1. CASE BeginTick
    BY <2>1 DEF BeginTick, FaultPaired, fault_state_ok
  <2>2. ASSUME NEW m \in Machine, Step(m) PROVE FaultPaired'
    BY <2>2 DEF Step, Execute, StepStopped, StepOverrun, StepFault, StepLoad,
                StepStore, StepPlain, Executing, quiescent, TypeOK, FaultPaired,
                fault_state_ok
  <2>3. CASE InstallAny
    BY <2>3 DEF InstallAny, Install, TypeOK, FaultPaired, fault_state_ok
  <2>4. CASE UNCHANGED vars
    BY <2>4 DEF vars, FaultPaired, fault_state_ok
  <2>. QED  BY <2>1, <2>2, <2>3, <2>4 DEF Next
<1>. QED  BY <1>1, <1>2, TypeCorrect, PTL DEF Spec

------------------------------------------------------------------------------
\* The tick a machine stops on an error commits nothing anywhere.
THEOREM FaultCommitsNothing == Spec => ErrorCommitsNothing
<1>1. ASSUME TypeOK, [Next]_vars, NEW n \in Machine,
             status'[n] = "ERROR", status[n] # "ERROR"
      PROVE  UNCHANGED <<page, tick, seen>> \/ installs' # installs
  <2>1. CASE BeginTick
    BY <2>1 DEF BeginTick
  <2>2. ASSUME NEW m \in Machine, Step(m)
        PROVE  UNCHANGED <<page, tick, seen>>
    <3>1. CASE StepStopped(m) \/ StepOverrun(m)
      BY <3>1 DEF StepStopped, StepOverrun
    <3>2. ASSUME NEW op \in Program, StepFault(m, op)
          PROVE  UNCHANGED <<page, tick, seen>>
      BY <3>2 DEF StepFault
    <3>3. ASSUME NEW op \in Program,
                 StepLoad(m, op) \/ StepStore(m, op) \/ StepPlain(m, op)
          PROVE  FALSE
      BY <1>1, <3>3 DEF StepLoad, StepStore, StepPlain, TypeOK
    <3>. QED  BY <2>2, <3>1, <3>2, <3>3 DEF Step, Execute
  <2>3. CASE InstallAny
    BY <2>3, GroupAssumption DEF InstallAny, Install, TypeOK
  <2>4. CASE UNCHANGED vars
    BY <2>4 DEF vars
  <2>. QED  BY <1>1, <2>1, <2>2, <2>3, <2>4 DEF Next
<1>2. TypeOK /\ [Next]_vars =>
        [(\E m \in Machine : status'[m] = "ERROR" /\ status[m] # "ERROR")
           => UNCHANGED <<page, tick, seen>> \/ installs' # installs]_vars
  BY <1>1
<1>. QED  BY <1>2, TypeCorrect, PTL DEF Spec, ErrorCommitsNothing

\* A stop is final: no step but a restore changes what a stopped machine holds.
THEOREM StopsAreFinal == Spec => StoppedIsFrozen
<1>1. ASSUME TypeOK, [Next]_vars, NEW m \in Machine,
             quiescent(status[m]), installs' = installs
      PROVE  /\ status'[m] = status[m] /\ cause'[m] = cause[m]
             /\ tick'[m] = tick[m] /\ seen'[m] = seen[m]
  <2>1. CASE BeginTick
    BY <2>1 DEF BeginTick
  <2>2. ASSUME NEW n \in Machine, Step(n)
        PROVE  /\ status'[m] = status[m] /\ cause'[m] = cause[m]
               /\ tick'[m] = tick[m] /\ seen'[m] = seen[m]
    <3>1. CASE n = m
      BY <1>1, <2>2, <3>1 DEF Step, Execute, StepStopped, StepOverrun, StepFault,
                              StepLoad, StepStore, StepPlain, Executing
    <3>2. CASE n # m
      BY <1>1, <2>2, <3>2 DEF Step, Execute, StepStopped, StepOverrun, StepFault,
                              StepLoad, StepStore, StepPlain, TypeOK
    <3>. QED  BY <3>1, <3>2
  <2>3. CASE InstallAny
    BY <1>1, <2>3, GroupAssumption DEF InstallAny, Install, TypeOK
  <2>4. CASE UNCHANGED vars
    BY <2>4 DEF vars
  <2>. QED  BY <1>1, <2>1, <2>2, <2>3, <2>4 DEF Next
<1>2. TypeOK /\ [Next]_vars =>
        [\A m \in Machine :
           quiescent(status[m]) /\ installs' = installs =>
             /\ status'[m] = status[m] /\ cause'[m] = cause[m]
             /\ tick'[m] = tick[m] /\ seen'[m] = seen[m]]_vars
  BY <1>1
<1>. QED  BY <1>2, TypeCorrect, PTL DEF Spec, StoppedIsFrozen

------------------------------------------------------------------------------
\* The driver's position and the set of members already stepped say the same:
\* Order visits every member once.
LEMMA SteppedBoundary ==
  ASSUME TypeOK
  PROVE  /\ pos = NBanks <=> Stepped = Machine
         /\ pos < NBanks => Order[pos] \in Machine \ Stepped
<1>1. pos = NBanks => Stepped = Machine
  <2> SUFFICES ASSUME pos = NBanks PROVE Stepped = Machine
    OBVIOUS
  <2>1. 0 .. pos - 1 = Machine
    BY DEF Machine
  <2>2. Stepped = {Order[k] : k \in Machine}
    BY <2>1 DEF Stepped
  <2>3. \A k \in Machine : Order[k] \in Machine
    BY GroupAssumption
  <2>4. \A m \in Machine : \E k \in Machine : m = Order[k]
    BY GroupAssumption
  <2>. QED  BY <2>2, <2>3, <2>4
<1>2. pos < NBanks => Order[pos] \in Machine \ Stepped
  <2> SUFFICES ASSUME pos < NBanks PROVE Order[pos] \in Machine \ Stepped
    OBVIOUS
  <2>1. pos \in Machine /\ \A k \in 0 .. pos - 1 : k \in Machine /\ k # pos
    BY GroupAssumption DEF TypeOK, Machine
  <2>2. Order[pos] \in Machine /\ \A k \in 0 .. pos - 1 : Order[k] # Order[pos]
    BY <2>1, GroupAssumption
  <2>. QED  BY <2>2 DEF Stepped
<1>3. pos \in 0 .. NBanks /\ NBanks \in Nat
  BY GroupAssumption DEF TypeOK
<1>. QED  BY <1>1, <1>2, <1>3

LEMMA SteppedAdvance ==
  ASSUME TypeOK, pos < NBanks, Advance
  PROVE  Stepped' = Stepped \cup {Order[pos]}
<1>1. pos' = pos + 1 /\ pos \in Nat
  BY GroupAssumption DEF Advance, TypeOK
<1>2. 0 .. pos' - 1 = (0 .. pos - 1) \cup {pos}
  BY <1>1
<1>. QED  BY <1>1, <1>2 DEF Stepped

\* The last turn completes the set.
LEMMA SteppedFull ==
  ASSUME TypeOK, pos + 1 = NBanks
  PROVE  Stepped \cup {Order[pos]} = Machine
<1>1. pos \in Nat /\ pos = NBanks - 1 /\ Machine = 0 .. pos
  BY GroupAssumption DEF TypeOK, Machine
<1>2. Stepped \cup {Order[pos]} = {Order[k] : k \in Machine}
  <2>1. \A k \in Machine : k \in 0 .. pos - 1 \/ k = pos
    BY <1>1
  <2>2. pos \in Machine /\ \A k \in 0 .. pos - 1 : k \in Machine
    BY <1>1
  <2>. QED  BY <2>1, <2>2 DEF Stepped
<1>3. \A k \in Machine : Order[k] \in Machine
  BY GroupAssumption
<1>4. \A m \in Machine : \E k \in Machine : m = Order[k]
  BY GroupAssumption
<1>. QED  BY <1>2, <1>3, <1>4

\* The members tick in step: without a restore, a running member has executed
\* exactly one instruction per group tick.
THEOREM MembersInStep == Spec => []InStep
<1>1. Init => InStep
  BY GroupAssumption DEF Init, InStep
<1>2. TypeOK /\ InStep /\ [Next]_vars => InStep'
  <2> SUFFICES ASSUME TypeOK, InStep, [Next]_vars, installs' = 0,
                      NEW m \in Machine, status'[m] = "RUNNING"
               PROVE  tick'[m] = IF pos' < NBanks /\ m \in Stepped' THEN gtick' + 1 ELSE gtick'
    BY DEF InStep
  <2>1. CASE BeginTick
    <3>1. Stepped' = {}
      BY <2>1 DEF BeginTick, Stepped
    <3>. QED  BY <2>1, <3>1, GroupAssumption DEF BeginTick, InStep
  <2>2. ASSUME NEW n \in Machine, Step(n)
        PROVE  tick'[m] = IF pos' < NBanks /\ m \in Stepped' THEN gtick' + 1 ELSE gtick'
    <3>1. pos < NBanks /\ n = Order[pos] /\ Advance
      BY <2>2 DEF Step, Execute, StepStopped, StepOverrun, StepFault, StepLoad,
                  StepStore, StepPlain, Executing, Turn
    <3>2. n \notin Stepped /\ Stepped' = Stepped \cup {n}
      BY <3>1, SteppedBoundary, SteppedAdvance
    <3>3. pos + 1 = NBanks => Stepped \cup {n} = Machine
      BY <3>1, <3>2, SteppedFull
    <3>4. status[m] = "RUNNING" /\ tick'[m] = IF m = n THEN tick[m] + 1 ELSE tick[m]
      BY <2>2 DEF Step, Execute, StepStopped, StepOverrun, StepFault, StepLoad,
                  StepStore, StepPlain, Executing, quiescent, TypeOK
    <3>5. tick[m] = IF m \in Stepped THEN gtick + 1 ELSE gtick
      BY <3>1, <3>4 DEF InStep, Advance
    <3>. QED  BY <3>1, <3>2, <3>3, <3>4, <3>5, GroupAssumption DEF Advance, TypeOK
  <2>3. CASE InstallAny
    BY <2>3, GroupAssumption DEF InstallAny, Install, TypeOK
  <2>4. CASE UNCHANGED vars
    BY <2>4 DEF vars, InStep, Stepped
  <2>. QED  BY <2>1, <2>2, <2>3, <2>4 DEF Next
<1>. QED  BY <1>1, <1>2, TypeCorrect, PTL DEF Spec

\* A step that stops nobody but m, or nobody, is a turn's change of the
\* running members.
LEMMA RunningStep ==
  ASSUME TypeOK, NEW m \in Machine, NEW st \in Status \ {"RUNNING"},
         status' = status \/ status' = [status EXCEPT ![m] = st]
  PROVE  {n \in Machine : ~quiescent(status[n])}' \in
           {{n \in Machine : ~quiescent(status[n])},
            {n \in Machine : ~quiescent(status[n])} \ {m}}
<1>1. CASE status' = status
  BY <1>1 DEF quiescent
<1>2. CASE status' = [status EXCEPT ![m] = st]
  <2>1. \A n \in Machine : status'[n] = IF n = m THEN st ELSE status[n]
    BY <1>2 DEF TypeOK
  <2>2. {n \in Machine : ~quiescent(status'[n])}
          = {n \in Machine : ~quiescent(status[n])} \ {m}
    BY <2>1 DEF quiescent
  <2>. QED  BY <2>2
<1>. QED  BY <1>1, <1>2

\* Every step of the driven group is a step of the promise.
LEMMA PromiseStep ==
  TypeOK /\ LatchHolds /\ [Next]_vars => [Promise!ANext]_(Promise!avars)
<1> SUFFICES ASSUME TypeOK, LatchHolds, [Next]_vars
             PROVE  [Promise!ANext]_(Promise!avars)
  OBVIOUS
<1>. DEFINE running == {m \in Machine : ~quiescent(status[m])}
            quiet == {m \in Machine : quiescent(latched[m])}
<1>1. CASE BeginTick
  <2>1. Stepped = Machine /\ Stepped' = {}
    BY <1>1, SteppedBoundary DEF BeginTick, Stepped
  <2>2. quiet' = Machine \ running
    BY <1>1 DEF BeginTick, quiescent
  <2>3. page' = page /\ running' = running
    BY <1>1 DEF BeginTick
  <2>. QED  BY <2>1, <2>2, <2>3 DEF Promise!ANext, Promise!ABegin
<1>2. ASSUME NEW m \in Machine, Step(m) PROVE Promise!ANext
  <2>1. pos < NBanks /\ m = Order[pos] /\ Advance
    BY <1>2 DEF Step, Execute, StepStopped, StepOverrun, StepFault, StepLoad,
                StepStore, StepPlain, Executing, Turn
  <2>2. m \in Machine \ Stepped /\ Stepped' = Stepped \cup {m} /\ quiet' = quiet
    BY <2>1, SteppedBoundary, SteppedAdvance DEF Advance
  <2>3. ASSUME page' = page, NEW st \in Status \ {"RUNNING"},
               status' = status \/ status' = [status EXCEPT ![m] = st]
        PROVE  Promise!AIdle(m)
    BY <2>2, <2>3, RunningStep DEF Promise!AIdle
  <2>4. ASSUME NEW op \in Program, StepStore(m, op)
        PROVE  Promise!AWrite(m, target(m, op))
    <3>. DEFINE p == target(m, op)
    <3>1. p \in Machine /\ (p = m \/ quiescent(latched[p]))
          /\ op.lo \in Byte /\ op.hi \in Byte
      BY <2>4, ProgramTyped, StoreSound DEF StepStore
    <3>2. page'[p] = written(page[p], op) /\ page[p] \in Page
      BY <2>4, <3>1 DEF StepStore, TypeOK
    <3>3. page'[p] \in [Addr -> Byte] /\ page' = [page EXCEPT ![p] = page'[p]]
      BY <2>4, <3>1, <3>2, WrittenPage DEF StepStore, Page
    <3>4. \A a \in {b \in Addr : region_hit(p, b)} : page'[p][a] = page[p][a]
      BY <2>4, <3>2, ProgramTyped, StoreMissesRegions DEF StepStore
    <3>5. m \in running /\ running' = running
      BY <2>4 DEF StepStore, Executing
    <3>. QED  BY <2>2, <3>1, <3>3, <3>4, <3>5 DEF Promise!AWrite
  <2>5. ASSUME StepStopped(m) PROVE Promise!AIdle(m)
    BY <2>5, <2>3 DEF StepStopped, Status
  <2>6. ASSUME StepOverrun(m) PROVE Promise!AIdle(m)
    BY <2>6, <2>3 DEF StepOverrun, Status
  <2>7. ASSUME NEW op \in Program, StepFault(m, op) \/ StepLoad(m, op) \/ StepPlain(m, op)
        PROVE  Promise!AIdle(m)
    BY <2>7, <2>3 DEF StepFault, StepLoad, StepPlain, Status
  <2>8. Promise!AIdle(m) \/ \E p \in Machine : Promise!AWrite(m, p)
    <3>1. ASSUME NEW op \in Program, StepStore(m, op)
          PROVE  \E p \in Machine : Promise!AWrite(m, p)
      BY <2>4, <3>1, ProgramTyped, StoreSound DEF StepStore
    <3>. QED  BY <1>2, <2>5, <2>6, <2>7, <3>1 DEF Step, Execute
  <2>. QED  BY <2>8 DEF Promise!ANext
<1>3. ASSUME NEW m \in Machine, NEW img \in Snapshots, NEW st \in Status,
             NEW c \in {"OK", "OTHER"}, NEW t \in 0 .. TickBudget[m],
             Install(m, img, st, c, t)
      PROVE  Promise!ARestore(m)
  <2>1. Stepped = Machine /\ Stepped' = Stepped /\ quiet' = quiet
    BY <1>3, SteppedBoundary DEF Install, Stepped
  <2>2. page'[m] \in [Addr -> Byte] /\ page' = [page EXCEPT ![m] = page'[m]]
    BY <1>3, GroupAssumption DEF Install, TypeOK, Page
  <2>3. \A n \in Machine : status'[n] = IF n = m THEN st ELSE status[n]
    BY <1>3 DEF Install, TypeOK
  <2>4. running' \in {running \cup {m}, running \ {m}}
    <3>1. CASE quiescent(st)
      BY <2>3, <3>1
    <3>2. CASE ~quiescent(st)
      BY <2>3, <3>2
    <3>. QED  BY <3>1, <3>2
  <2>. QED  BY <2>1, <2>2, <2>4 DEF Promise!ARestore
<1>4. CASE UNCHANGED vars
  BY <1>4 DEF vars, Promise!avars, Stepped
<1>. QED  BY <1>1, <1>2, <1>3, <1>4 DEF Next, InstallAny, Promise!ANext

\* The driven group implements what banks.py promises of a group: one turn per
\* member and tick, own or quiet pages only, protected bytes untouched.
THEOREM GroupKeepsPromise == Spec => KeepsPromise
<1>1. Init => Promise!AInit
  <2> SUFFICES ASSUME Init PROVE Promise!AInit
    OBVIOUS
  <2>1. TypeOK
    BY TypeInit
  <2>2. Stepped = Machine
    BY <2>1, SteppedBoundary DEF Init
  <2>. QED  BY <2>2 DEF Init, Promise!AInit, quiescent
<1>. QED  BY <1>1, PromiseStep, TypeCorrect, LatchCorrect, PTL
          DEF Spec, KeepsPromise, Promise!ASpec
=============================================================================
