-------------------------- MODULE BatchGroupProofs --------------------------
(***************************************************************************)
(* What holds of a batch for every number of rows, every group size, every *)
(* launch and every interleaving of byte accesses.  An access in flight    *)
(* was judged by the statuses of the launch; what the launch found stopped *)
(* is in no kernel loop; so what is in flight meets no row it was not let  *)
(* to meet, however late its bytes arrive.                                 *)
(***************************************************************************)
EXTENDS BatchGroup, SequenceTheorems, TLAPS

\* A row in the kernel's loop runs, and ran when the launch began.
LiveRuns == \A m \in live : status[m] = "RUNNING" /\ latched[m] = "RUNNING"

\* A tick that is still to be counted has room in the budget.
TickOpen == \A m \in Row : pend[m] # <<>> => tick[m] < TickBudget

\* An access of row m was let through: it stays in m's group, reaches a page that
\* is m's own or was quiet, and puts nothing into a protected cell.
Allowed(m, e) ==
  /\ e.row \div NBanks = m \div NBanks
  /\ e.row # m => latched[e.row] # "RUNNING"
  /\ e.put # <<>> => e.addr \notin Protected

Aimed == \A m \in Row : \A i \in DOMAIN pend[m] : Allowed(m, pend[m][i])

IInv == TypeOK /\ LiveRuns /\ TickOpen /\ Aimed

------------------------------------------------------------------------------
\* Rows and groups

\* A quotient is determined by the multiple below.
LEMMA Quotient ==
  ASSUME NEW n \in Nat \ {0}, NEW q \in Nat, NEW r \in 0 .. n - 1
  PROVE  (n * q + r) \div n = q
<1>. DEFINE x == n * q + r
<1>1. x \in Nat
  OBVIOUS
<1>2. PICK d \in Nat : d = x \div n /\ n * d <= x /\ x < n * d + n
  BY <1>1, SMTT(30)
<1>3. CASE d > q
  <2>1. n * d >= n * (q + 1)
    BY <1>3, SMTT(30)
  <2>. QED BY <2>1, <1>2, SMTT(30)
<1>4. CASE d < q
  <2>1. n * q >= n * (d + 1)
    BY <1>4, SMTT(30)
  <2>. QED BY <2>1, <1>2, SMTT(30)
<1>. QED BY <1>2, <1>3, <1>4

\* Row m is the bank OWN(m) of the group that begins at base(m).
LEMMA GroupOf ==
  ASSUME NEW m \in Row
  PROVE  /\ OWN(m) \in 0 .. NBanks - 1 /\ base(m) \in Nat
         /\ m = base(m) + OWN(m)
         /\ base(m) = NBanks * (m \div NBanks) /\ m \div NBanks \in Nat
BY BatchAssumption, SMTT(30) DEF Row, OWN, base

\* A bank the last group holds is a row of the batch, in the same group.
LEMMA HeldRow ==
  ASSUME NEW m \in Row, NEW mb \in Nat, ~(mb >= NBanks \/ mb >= HELD(m))
  PROVE  /\ base(m) + mb \in Row
         /\ (base(m) + mb) \div NBanks = m \div NBanks
         /\ base(m) + mb # m => mb # OWN(m)
<1>1. NRows \in Nat /\ NBanks \in Nat \ {0} /\ base(m) \in Nat
  BY BatchAssumption, GroupOf
<1>2. HELD(m) = IF NBanks <= NRows - base(m) THEN NBanks ELSE NRows - base(m)
  <2>. DEFINE w == NRows - base(m)
  <2>1. w \in Int /\ NBanks \in Int
    BY <1>1
  <2>. HIDE DEF w
  <2>2. \E x \in {NBanks, w} : \A y \in {NBanks, w} : x <= y
    BY <2>1
  <2>3. Min({NBanks, w}) \in {NBanks, w} /\ \A y \in {NBanks, w} : Min({NBanks, w}) <= y
    BY <2>2, Zenon DEF Min
  <2>4. Min({NBanks, w}) = IF NBanks <= w THEN NBanks ELSE w
    BY <2>1, <2>3
  <2>. QED BY <2>4 DEF HELD, w
<1>3. mb < NBanks /\ base(m) + mb < NRows
  BY <1>1, <1>2
<1>4. (NBanks * (m \div NBanks) + mb) \div NBanks = m \div NBanks
  BY <1>1, <1>3, GroupOf, Quotient
<1>5. base(m) = NBanks * (m \div NBanks)
  BY GroupOf
<1>6. (base(m) + mb) \div NBanks = m \div NBanks
  BY <1>4, <1>5, Zenon
<1>7. m = base(m) + OWN(m)
  BY GroupOf
<1>8. base(m) + mb \in Row
  BY <1>1, <1>3 DEF Row
<1>9. mb = OWN(m) => base(m) + mb = m
  BY <1>7, Zenon
<1>. QED BY <1>6, <1>8, <1>9

------------------------------------------------------------------------------
\* The accesses of an instruction that was let through are accesses, and allowed.
LEMMA AccessesAllowed ==
  ASSUME TypeOK, NEW m \in Row, NEW op \in Program,
         op.kind \in {"LDM", "STM", "ST"}, outcome(m, op) = "OK"
  PROVE  /\ accesses(m, op) \in Seq(Access) /\ accesses(m, op) # <<>>
         /\ \A i \in DOMAIN accesses(m, op) : Allowed(m, accesses(m, op)[i])
<1>. DEFINE at(i) == [row |-> place(m, op), addr |-> op.at + i - 1,
                      put |-> IF op.kind = "LDM" THEN <<>> ELSE <<op.put>>]
<1>1. op \in Op
  BY BatchAssumption
<1>2. /\ op.at \in Nat /\ op.len \in {1, 2, 4}
      /\ op.kind # "LDM" => op.put \in Byte
      /\ op.kind # "ST" => op.mb \in Nat
  BY <1>1 DEF Op
<1>3. op.kind # "ST" => bank_refusal(m, op.mb) = "OK"
  BY DEF outcome
<1>4. ~(op.at + op.len > PageSize)
  BY <1>3 DEF outcome
<1>5. op.kind # "LDM" => access_span(op) \cap Protected = {}
  BY <1>3, <1>4 DEF outcome
<1>6. /\ place(m, op) \in Row
      /\ place(m, op) \div NBanks = m \div NBanks
      /\ place(m, op) # m => latched[place(m, op)] # "RUNNING"
  <2>1. CASE op.kind = "ST"
    BY <2>1 DEF place
  <2>2. CASE op.kind # "ST"
    <3>1. ~(op.mb >= NBanks \/ op.mb >= HELD(m))
      BY <1>3, <2>2 DEF bank_refusal
    <3>2. op.mb # OWN(m) => latched[base(m) + op.mb] # "RUNNING"
      BY <1>3, <2>2, <3>1 DEF bank_refusal
    <3>. QED BY <1>2, <2>2, <3>1, <3>2, HeldRow DEF place
  <2>. QED BY <2>1, <2>2
<1>7. accesses(m, op) = [i \in 1 .. op.len |-> at(i)]
  BY DEF accesses
<1>8. ASSUME NEW i \in 1 .. op.len
      PROVE  at(i) \in Access /\ Allowed(m, at(i))
  <2>1. op.at + i - 1 \in Addr /\ op.at + i - 1 \in access_span(op)
    BY <1>2, <1>4, BatchAssumption DEF Addr, access_span
  <2>2. (IF op.kind = "LDM" THEN <<>> ELSE <<op.put>>) \in {<<>>} \cup {<<b>> : b \in Byte}
    BY <1>2
  <2>3. at(i) \in Access
    BY <1>6, <2>1, <2>2 DEF Access
  <2>4. at(i).put # <<>> => at(i).addr \notin Protected
    BY <1>5, <2>1
  <2>. QED BY <1>6, <2>3, <2>4 DEF Allowed
<1>9. op.len \in Nat \ {0}
  BY <1>2
<1>. HIDE DEF at
<1>10. accesses(m, op) \in Seq(Access) /\ DOMAIN accesses(m, op) = 1 .. op.len
  BY <1>7, <1>8, <1>9
<1>11. accesses(m, op) # <<>>
  BY <1>9, <1>10
<1>. QED BY <1>7, <1>8, <1>10, <1>11
------------------------------------------------------------------------------
\* The invariant

LEMMA IInit == Init => IInv
<1>. SUFFICES ASSUME Init PROVE IInv
  OBVIOUS
<1>1. TypeOK
  BY BatchAssumption DEF Init, TypeOK, Status
<1>2. pend = [m \in Row |-> <<>>] /\ live = {}
  BY DEF Init
<1>3. Aimed
  BY <1>2 DEF Aimed
<1>. QED BY <1>1, <1>2, <1>3 DEF IInv, LiveRuns, TickOpen

\* A row that has stopped leaves the loop, and nobody else does.
LEMMA LoopLeaves ==
  ASSUME NEW m, NEW st, Loop(m, st)
  PROVE  live' \in {live, live \ {m}} /\ (st # "RUNNING" => live' = live \ {m})
BY DEF Loop

LEMMA LaunchKeeps ==
  ASSUME IInv, NEW n \in Launches, Launch(n)
  PROVE  IInv'
<1>1. pend' = pend /\ status' = status /\ latched' = status /\ page' = page /\ tick' = tick
      /\ live' = {m \in Row : status[m] = "RUNNING"} /\ live = {}
  BY DEF Launch, idle
<1>2. \A m \in Row : pend[m] = <<>>
  BY <1>1 DEF IInv, TypeOK
<1>3. TypeOK'
  BY <1>1, <1>2 DEF IInv, TypeOK
<1>4. Aimed' /\ TickOpen'
  BY <1>1, <1>2 DEF Aimed, TickOpen
<1>. QED BY <1>1, <1>3, <1>4 DEF IInv, LiveRuns

\* A row's tick is counted, with room in the budget, or is not.
Counted(m) ==
  \/ tick' = tick
  \/ tick[m] < TickBudget /\ tick' = [tick EXCEPT ![m] = @ + 1]

LEMMA CountedTyped ==
  ASSUME TypeOK, NEW m \in Row, Counted(m)
  PROVE  tick' \in [Row -> 0 .. TickBudget] /\ \A p \in Row \ {m} : tick'[p] = tick[p]
<1>1. CASE tick' = tick
  BY <1>1 DEF TypeOK
<1>2. CASE tick[m] < TickBudget /\ tick' = [tick EXCEPT ![m] = @ + 1]
  <2>1. tick[m] + 1 \in 0 .. TickBudget
    BY <1>2, BatchAssumption DEF TypeOK
  <2>. QED BY <1>2, <2>1 DEF TypeOK
<1>. QED BY <1>1, <1>2 DEF Counted

\* A tick that ends where it begins: an overrun, a fault, or an instruction
\* that touches no page.
LEMMA TurnKeeps ==
  ASSUME IInv, NEW m \in Row, Ready(m), NEW st \in Status, Loop(m, st),
         status' = [status EXCEPT ![m] = st],
         Counted(m), UNCHANGED <<page, latched, pend>>
  PROVE  IInv'
<1>1. live' \in {live, live \ {m}} /\ (st # "RUNNING" => live' = live \ {m})
  BY LoopLeaves
<1>2. pend[m] = <<>> /\ m \in live
  BY DEF Ready
<1>3. tick' \in [Row -> 0 .. TickBudget] /\ \A p \in Row \ {m} : tick'[p] = tick[p]
  BY CountedTyped DEF IInv
<1>4. TypeOK'
  BY <1>1, <1>2, <1>3 DEF IInv, TypeOK
<1>5. LiveRuns'
  BY <1>1 DEF IInv, LiveRuns, TypeOK
<1>6. TickOpen'
  BY <1>2, <1>3 DEF IInv, TickOpen
<1>7. Aimed'
  BY DEF IInv, Aimed, Allowed
<1>. QED BY <1>4, <1>5, <1>6, <1>7 DEF IInv

LEMMA AccessKeeps ==
  ASSUME IInv, NEW m \in Row, NEW op \in Program, RowAccess(m, op)
  PROVE  IInv'
<1>1. /\ accesses(m, op) \in Seq(Access)
      /\ \A i \in DOMAIN accesses(m, op) : Allowed(m, accesses(m, op)[i])
  BY AccessesAllowed DEF IInv, RowAccess
<1>2. /\ pend' = [pend EXCEPT ![m] = accesses(m, op)]
      /\ m \in live /\ tick[m] < TickBudget
      /\ UNCHANGED <<page, status, tick, latched, live>>
  BY DEF RowAccess, Ready
<1>3. TypeOK'
  BY <1>1, <1>2 DEF IInv, TypeOK
<1>4. LiveRuns' /\ TickOpen'
  BY <1>2 DEF IInv, TypeOK, LiveRuns, TickOpen
<1>5. Aimed'
  BY <1>1, <1>2 DEF IInv, TypeOK, Aimed, Allowed
<1>. QED BY <1>3, <1>4, <1>5 DEF IInv

\* The byte a row is about to touch, and what remains of its tick.
LEMMA NextByte ==
  ASSUME IInv, NEW m \in Row, pend[m] # <<>>
  PROVE  /\ Head(pend[m]) \in Access /\ Allowed(m, Head(pend[m]))
         /\ Tail(pend[m]) \in Seq(Access)
         /\ \A i \in DOMAIN Tail(pend[m]) : Allowed(m, Tail(pend[m])[i])
         /\ Len(pend[m]) = 1 <=> Tail(pend[m]) = <<>>
         /\ m \in live /\ status[m] = "RUNNING"
<1>. DEFINE s == pend[m]
<1>1. s \in Seq(Access) /\ s # <<>> /\ m \in live
  BY DEF IInv, TypeOK
<1>2. \A i \in DOMAIN s : Allowed(m, s[i])
  BY DEF IInv, Aimed
<1>3. status[m] = "RUNNING"
  BY <1>1 DEF IInv, LiveRuns
<1>. HIDE DEF s
<1>4. /\ Len(s) \in Nat \ {0} /\ DOMAIN s = 1 .. Len(s) /\ Head(s) = s[1]
      /\ Head(s) \in Access /\ Tail(s) \in Seq(Access)
      /\ Len(Tail(s)) = Len(s) - 1 /\ DOMAIN Tail(s) = 1 .. Len(s) - 1
      /\ \A i \in 1 .. Len(s) - 1 : Tail(s)[i] = s[i + 1]
  BY <1>1, HeadTailProperties, LenProperties
<1>5. \A i \in DOMAIN Tail(s) : Allowed(m, Tail(s)[i])
  BY <1>2, <1>4
<1>6. Allowed(m, Head(s))
  BY <1>2, <1>4
<1>7. Len(s) = 1 <=> Tail(s) = <<>>
  <2>1. Tail(s) = <<>> <=> Len(Tail(s)) = 0
    BY <1>4, EmptySeq, Zenon
  <2>. QED BY <1>4, <2>1, SMT
<1>. QED BY <1>1, <1>3, <1>4, <1>5, <1>6, <1>7 DEF s

LEMMA ByteKeeps ==
  ASSUME IInv, NEW m \in Row, RowByte(m)
  PROVE  IInv'
<1>. DEFINE b == Head(pend[m])
            rest == Tail(pend[m])
<1>1. pend[m] # <<>>
  BY DEF RowByte
<1>2. /\ b \in Access /\ rest \in Seq(Access)
      /\ \A i \in DOMAIN rest : Allowed(m, rest[i])
      /\ Len(pend[m]) = 1 <=> rest = <<>>
      /\ m \in live
  BY <1>1, NextByte
<1>3. pend' = [pend EXCEPT ![m] = rest] /\ UNCHANGED <<status, latched>>
  BY DEF RowByte
<1>4. page' = IF b.put = <<>> THEN page ELSE [page EXCEPT ![b.row][b.addr] = b.put[1]]
  BY DEF RowByte
<1>5. IF rest = <<>>
      THEN tick' = [tick EXCEPT ![m] = @ + 1] /\ live' \in {live, live \ {m}}
      ELSE tick' = tick /\ live' = live
  BY <1>2, LoopLeaves DEF RowByte
<1>6. tick[m] < TickBudget
  BY <1>1 DEF IInv, TickOpen
<1>. HIDE DEF b, rest
<1>7. page' \in [Row -> [Addr -> Byte]]
  <2>1. CASE b.put = <<>>
    BY <2>1, <1>4 DEF IInv, TypeOK
  <2>2. CASE b.put # <<>>
    <3>1. b.row \in Row /\ b.addr \in Addr /\ b.put[1] \in Byte
      BY <2>2, <1>2 DEF Access
    <3>. QED BY <2>2, <3>1, <1>4 DEF IInv, TypeOK
  <2>. QED BY <2>1, <2>2
<1>8. tick' \in [Row -> 0 .. TickBudget] /\ \A p \in Row \ {m} : tick'[p] = tick[p]
  BY <1>5, <1>6, CountedTyped DEF IInv, Counted
<1>9. pend' \in [Row -> Seq(Access)] /\ pend'[m] = rest
      /\ \A p \in Row \ {m} : pend'[p] = pend[p]
  BY <1>2, <1>3 DEF IInv, TypeOK
<1>10. TypeOK'
  BY <1>2, <1>3, <1>5, <1>7, <1>8, <1>9 DEF IInv, TypeOK
<1>11. LiveRuns'
  BY <1>3, <1>5 DEF IInv, LiveRuns
<1>12. TickOpen'
  BY <1>5, <1>6, <1>8, <1>9 DEF IInv, TickOpen
<1>13. Aimed'
  BY <1>2, <1>3, <1>9 DEF IInv, Aimed, Allowed
<1>. QED BY <1>10, <1>11, <1>12, <1>13 DEF IInv

LEMMA InstallKeeps ==
  ASSUME IInv, NEW m \in Row, NEW st \in Status, NEW t \in 0 .. TickBudget,
         Install(m, st, t)
  PROVE  IInv'
<1>1. live = {} /\ live' = live /\ pend' = pend /\ latched' = latched
      /\ status' = [status EXCEPT ![m] = st] /\ tick' = [tick EXCEPT ![m] = t]
      /\ page' = [page EXCEPT ![m] = [a \in Addr |-> 0]]
  BY DEF Install, idle
<1>2. \A p \in Row : pend[p] = <<>>
  BY <1>1 DEF IInv, TypeOK
<1>3. TypeOK'
  BY <1>1, BatchAssumption DEF IInv, TypeOK
<1>4. LiveRuns' /\ TickOpen' /\ Aimed'
  BY <1>1, <1>2 DEF LiveRuns, TickOpen, Aimed
<1>. QED BY <1>3, <1>4 DEF IInv

\* One step of a row is a turn without a page, a verdict, or a byte.
LEMMA RowCases ==
  ASSUME IInv, NEW m \in Row, RowStep(m)
  PROVE  \/ /\ Ready(m) /\ UNCHANGED <<page, latched, pend>>
            /\ \E st \in Status : Loop(m, st) /\ status' = [status EXCEPT ![m] = st]
            /\ Counted(m)
         \/ \E op \in Program : RowAccess(m, op)
         \/ RowByte(m)
<1>1. CASE RowOverrun(m)
  BY <1>1 DEF RowOverrun, Status, Counted
<1>2. ASSUME NEW op \in Program, RowFault(m, op)
      PROVE  /\ Ready(m) /\ UNCHANGED <<page, latched, pend>>
             /\ \E st \in Status : Loop(m, st) /\ status' = [status EXCEPT ![m] = st]
             /\ Counted(m)
  BY <1>2 DEF RowFault, Status, Counted
<1>3. ASSUME NEW op \in Program, RowPlain(m, op)
      PROVE  /\ Ready(m) /\ UNCHANGED <<page, latched, pend>>
             /\ \E st \in Status : Loop(m, st) /\ status' = [status EXCEPT ![m] = st]
             /\ Counted(m)
  <2>1. Ready(m) /\ Counted(m) /\ status[m] = "RUNNING" /\ m \in live
    BY <1>3 DEF RowPlain, Ready, Counted, IInv, LiveRuns
  <2>2. CASE op.kind = "HALT"
    <3>1. status' = [status EXCEPT ![m] = "HALT"] /\ status'[m] = "HALT"
      BY <1>3, <2>2 DEF RowPlain, IInv, TypeOK
    <3>. QED BY <1>3, <2>1, <3>1 DEF RowPlain, Status
  <2>3. CASE op.kind # "HALT"
    <3>1. status' = [status EXCEPT ![m] = "RUNNING"] /\ status'[m] = "RUNNING"
      BY <1>3, <2>1, <2>3 DEF RowPlain, IInv, TypeOK
    <3>. QED BY <1>3, <2>1, <3>1 DEF RowPlain, Status
  <2>. QED BY <2>2, <2>3
<1>. QED BY <1>1, <1>2, <1>3 DEF RowStep

LEMMA IStep == IInv /\ [Next]_vars => IInv'
<1>. SUFFICES ASSUME IInv, [Next]_vars PROVE IInv'
  OBVIOUS
<1>1. ASSUME NEW n \in Launches, Launch(n) PROVE IInv'
  BY <1>1, LaunchKeeps
<1>2. ASSUME NEW m \in Row, RowStep(m) PROVE IInv'
  BY <1>2, RowCases, TurnKeeps, AccessKeeps, ByteKeeps
<1>3. ASSUME NEW m \in Row, NEW st \in Status, NEW t \in 0 .. TickBudget, Install(m, st, t)
      PROVE  IInv'
  BY <1>3, InstallKeeps
<1>4. CASE UNCHANGED vars
  BY <1>4 DEF vars, IInv, TypeOK, LiveRuns, TickOpen, Aimed, Allowed
<1>. QED BY <1>1, <1>2, <1>3, <1>4 DEF Next, Status

LEMMA Invariant == Spec => []IInv
BY IInit, IStep, PTL DEF Spec

\* The rows keep their types, a tick is counted within its row's budget, and
\* only a row in the kernel's loop has accesses under way.
THEOREM TypeCorrect == Spec => []TypeOK
<1>1. IInv => TypeOK
  BY DEF IInv
<1>. QED BY <1>1, Invariant, PTL

\* What a row has in flight stays in its group and clear of every other live
\* row, however many ticks the launch runs and however short the last group.
THEOREM FlightsAreAlone == Spec => []InFlightAlone
<1>1. IInv => InFlightAlone
  BY DEF IInv, Aimed, Allowed, LiveRuns, InFlightAlone
<1>. QED BY <1>1, Invariant, PTL

------------------------------------------------------------------------------
\* What a step may do to a page

\* A page changes by a byte of a row's store, or under a record put back while
\* nothing is in flight.
LEMMA PageStep ==
  ASSUME IInv, [Next]_vars
  PROVE  \/ page' = page
         \/ live = {} /\ installs' # installs
         \/ \E m \in Row : RowByte(m) /\ Head(pend[m]).put # <<>>
<1>1. ASSUME NEW n \in Launches, Launch(n) PROVE page' = page
  BY <1>1 DEF Launch
<1>2. ASSUME NEW m \in Row, RowStep(m)
      PROVE  page' = page \/ (RowByte(m) /\ Head(pend[m]).put # <<>>)
  BY <1>2 DEF RowStep, RowOverrun, RowFault, RowPlain, RowAccess, RowByte
<1>3. ASSUME NEW m \in Row, NEW st \in Status, NEW t \in 0 .. TickBudget, Install(m, st, t)
      PROVE  live = {} /\ installs' # installs
  <2>1. live = {} /\ installs' = installs + 1
    BY <1>3 DEF Install, idle
  <2>2. installs < MaxInstalls
    BY <1>3 DEF Install
  <2>. QED BY <2>1, <2>2, BatchAssumption
<1>4. CASE UNCHANGED vars
  BY <1>4 DEF vars
<1>. QED BY <1>1, <1>2, <1>3, <1>4 DEF Next, Status

\* What a byte that is stored does: one cell of one page, which is the row's own
\* or was quiet, and which is not protected.
LEMMA ByteStored ==
  ASSUME IInv, NEW m \in Row, RowByte(m), Head(pend[m]).put # <<>>
  PROVE  LET b == Head(pend[m])
         IN  /\ b.row \in Row /\ b.addr \in Addr \ Protected /\ b.put[1] \in Byte
             /\ page' = [page EXCEPT ![b.row][b.addr] = b.put[1]]
             /\ b.row # m => latched[b.row] # "RUNNING"
             /\ pend' = [pend EXCEPT ![m] = Tail(@)]
<1>. DEFINE b == Head(pend[m])
<1>1. pend[m] # <<>> /\ pend' = [pend EXCEPT ![m] = Tail(@)]
      /\ page' = [page EXCEPT ![b.row][b.addr] = b.put[1]]
  BY DEF RowByte
<1>2. b \in Access /\ Allowed(m, b)
  BY <1>1, NextByte
<1>. HIDE DEF b
<1>3. b.put # <<>>
  BY DEF b
<1>4. b.row \in Row /\ b.addr \in Addr \ Protected /\ b.put[1] \in Byte
  BY <1>2, <1>3 DEF Access, Allowed
<1>5. b.row # m => latched[b.row] # "RUNNING"
  BY <1>2 DEF Allowed
<1>. QED BY <1>1, <1>4, <1>5 DEF b

\* While a row is in the kernel's loop, only its own accesses change its page,
\* whatever the rest of the launch is doing.
THEOREM OwnerExclusion == Spec => OwnerExclusive
<1>1. ASSUME IInv, [Next]_vars, NEW p \in live, page'[p] # page[p]
      PROVE  pend[p] # <<>> /\ pend'[p] = Tail(pend[p])
  <2>1. PICK m \in Row : RowByte(m) /\ Head(pend[m]).put # <<>>
    BY <1>1, PageStep
  <2>. DEFINE b == Head(pend[m])
  <2>2. /\ page' = [page EXCEPT ![b.row][b.addr] = b.put[1]]
        /\ b.row # m => latched[b.row] # "RUNNING"
        /\ pend' = [pend EXCEPT ![m] = Tail(@)]
    BY <1>1, <2>1, ByteStored
  <2>3. latched[p] = "RUNNING"
    BY <1>1 DEF IInv, LiveRuns
  <2>4. p = b.row
    BY <1>1, <2>2 DEF IInv, TypeOK
  <2>5. p = m
    BY <2>2, <2>3, <2>4
  <2>6. pend[m] # <<>>
    BY <2>1 DEF RowByte
  <2>. QED BY <1>1, <2>2, <2>5, <2>6 DEF IInv, TypeOK
<1>2. IInv /\ [Next]_vars =>
        [\A p \in live : page'[p] # page[p] => pend[p] # <<>> /\ pend'[p] = Tail(pend[p])]_vars
  BY <1>1
<1>. QED BY <1>2, Invariant, PTL DEF Spec, OwnerExclusive

\* No row changes a protected byte of any page, with the last byte of a word or
\* with the first.
THEOREM RegionProtection == Spec => RegionsIntact
<1>1. ASSUME IInv, [Next]_vars, NEW p \in Row, NEW a \in Protected,
             page'[p][a] # page[p][a]
      PROVE  installs' # installs
  <2>1. ASSUME NEW m \in Row, RowByte(m), Head(pend[m]).put # <<>>
        PROVE  FALSE
    <3>. DEFINE b == Head(pend[m])
    <3>1. /\ b.row \in Row /\ b.addr \in Addr \ Protected
          /\ page' = [page EXCEPT ![b.row][b.addr] = b.put[1]]
      BY <1>1, <2>1, ByteStored
    <3>. QED BY <1>1, <3>1 DEF IInv, TypeOK
  <2>. QED BY <1>1, <2>1, PageStep
<1>2. IInv /\ [Next]_vars =>
        [\A p \in Row, a \in Protected : page'[p][a] # page[p][a] => installs' # installs]_vars
  BY <1>1
<1>. QED BY <1>2, Invariant, PTL DEF Spec, RegionsIntact

------------------------------------------------------------------------------
\* The promise

\* A turn that stops row m, or nobody, and takes it out of the loop, or not.
LEMMA IdleTurn ==
  ASSUME IInv, NEW m \in Row, Ready(m), NEW st \in Status, Loop(m, st),
         status' = [status EXCEPT ![m] = st], UNCHANGED <<page, latched, pend>>
  PROVE  Promise!AIdle(m) \/ UNCHANGED Promise!avars
<1>. DEFINE running == {n \in Row : status[n] = "RUNNING"}
            done == Row \ live
<1>1. m \in live /\ status[m] = "RUNNING" /\ live \subseteq Row
  BY DEF Ready, IInv, LiveRuns, TypeOK
<1>2. live' \in {live, live \ {m}} /\ (st # "RUNNING" => live' = live \ {m})
  BY LoopLeaves
<1>3. \A n \in Row : status'[n] = IF n = m THEN st ELSE status[n]
  BY DEF IInv, TypeOK
<1>4. running' = IF st = "RUNNING" THEN running ELSE running \ {m}
  <2>1. CASE st = "RUNNING"
    BY <1>1, <1>3, <2>1
  <2>2. CASE st # "RUNNING"
    BY <1>3, <2>2
  <2>. QED BY <2>1, <2>2
<1>5. CASE live' = live \ {m}
  <2>1. done' = done \cup {m} /\ m \in Row \ done
    BY <1>1, <1>5
  <2>. QED BY <1>4, <2>1 DEF Promise!AIdle
<1>6. CASE live' = live /\ st = "RUNNING"
  BY <1>4, <1>6 DEF Promise!avars
<1>. QED BY <1>2, <1>5, <1>6

\* A byte is a write of the promise, or a read, which ends its tick or does not.
LEMMA ByteTurn ==
  ASSUME IInv, NEW m \in Row, RowByte(m)
  PROVE  \/ Promise!AIdle(m) \/ UNCHANGED Promise!avars
         \/ \E p \in Row : Promise!AWrite(m, p)
<1>. DEFINE b == Head(pend[m])
            running == {n \in Row : status[n] = "RUNNING"}
            quiet == {n \in Row : latched[n] # "RUNNING"}
            done == Row \ live
<1>1. m \in live /\ status[m] = "RUNNING" /\ live \subseteq Row
  BY NextByte DEF RowByte, IInv, TypeOK
<1>2. UNCHANGED <<status, latched>> /\ live' \in {live, live \ {m}}
  BY LoopLeaves DEF RowByte
<1>3. m \in running \ done /\ done' \in {done, done \cup {m}}
      /\ UNCHANGED <<running, quiet>>
  BY <1>1, <1>2
<1>4. CASE b.put = <<>>
  <2>1. page' = page
    BY <1>4 DEF RowByte
  <2>. QED BY <1>3, <2>1 DEF Promise!AIdle, Promise!avars
<1>5. CASE b.put # <<>>
  <2>. DEFINE p == b.row
  <2>1. /\ p \in Row /\ b.addr \in Addr \ Protected /\ b.put[1] \in Byte
        /\ page' = [page EXCEPT ![p][b.addr] = b.put[1]]
        /\ p # m => latched[p] # "RUNNING"
    BY <1>5, ByteStored
  <2>. HIDE DEF b
  <2>2. page'[p] \in [Addr -> Byte] /\ page' = [page EXCEPT ![p] = page'[p]]
    BY <2>1 DEF IInv, TypeOK
  <2>3. \A a \in Protected : page'[p][a] = page[p][a]
    BY <2>1, BatchAssumption DEF IInv, TypeOK
  <2>4. p = m \/ p \in quiet
    BY <2>1
  <2>5. Promise!AWrite(m, p)
    BY <1>3, <2>1, <2>2, <2>3, <2>4 DEF Promise!AWrite
  <2>. QED BY <2>1, <2>5
<1>. QED BY <1>4, <1>5

LEMMA PromiseStep == IInv /\ [Next]_vars => [Promise!ANext]_(Promise!avars)
<1>. SUFFICES ASSUME IInv, [Next]_vars PROVE [Promise!ANext]_(Promise!avars)
  OBVIOUS
<1>. DEFINE running == {n \in Row : status[n] = "RUNNING"}
            quiet == {n \in Row : latched[n] # "RUNNING"}
            done == Row \ live
<1>1. ASSUME NEW n \in Launches, Launch(n) PROVE Promise!ABegin
  <2>1. /\ live = {} /\ live' = running
        /\ latched' = status /\ UNCHANGED <<page, status>>
    BY <1>1 DEF Launch, idle
  <2>2. done = Row /\ done' = Row \ running /\ quiet' = Row \ running /\ running' = running
    BY <2>1
  <2>. QED BY <2>1, <2>2 DEF Promise!ABegin
<1>2. ASSUME NEW m \in Row, RowStep(m) PROVE [Promise!ANext]_(Promise!avars)
  <2>1. ASSUME NEW op \in Program, RowAccess(m, op) PROVE UNCHANGED Promise!avars
    BY <2>1 DEF RowAccess, Promise!avars
  <2>2. \/ Promise!AIdle(m) \/ UNCHANGED Promise!avars
        \/ \E p \in Row : Promise!AWrite(m, p)
    BY <1>2, <2>1, RowCases, IdleTurn, ByteTurn
  <2>. QED BY <2>2 DEF Promise!ANext
<1>3. ASSUME NEW m \in Row, NEW st \in Status, NEW t \in 0 .. TickBudget, Install(m, st, t)
      PROVE  Promise!ARestore(m)
  <2>1. live = {} /\ done = Row /\ done' = done /\ quiet' = quiet
    BY <1>3 DEF Install, idle
  <2>2. page'[m] = [a \in Addr |-> 0] /\ page' = [page EXCEPT ![m] = page'[m]]
    BY <1>3 DEF Install, IInv, TypeOK
  <2>3. page'[m] \in [Addr -> Byte]
    BY <2>2, BatchAssumption
  <2>4. \A n \in Row : status'[n] = IF n = m THEN st ELSE status[n]
    BY <1>3 DEF Install, IInv, TypeOK
  <2>5. running' \in {running \cup {m}, running \ {m}}
    <3>1. CASE st = "RUNNING"
      BY <2>4, <3>1
    <3>2. CASE st # "RUNNING"
      BY <2>4, <3>2
    <3>. QED BY <3>1, <3>2
  <2>. QED BY <2>1, <2>2, <2>3, <2>5 DEF Promise!ARestore
<1>4. CASE UNCHANGED vars
  BY <1>4 DEF vars, Promise!avars
<1>. QED BY <1>1, <1>2, <1>3, <1>4 DEF Next, Status, Promise!ANext

\* The batch keeps the promise the reference's group keeps, with a launch of any
\* length for the promise's tick and rows that interleave byte by byte.
THEOREM BatchKeepsPromise == Spec => KeepsPromise
<1>1. Init => Promise!AInit
  BY DEF Init, Promise!AInit
<1>. QED BY <1>1, PromiseStep, Invariant, PTL DEF Spec, KeepsPromise, Promise!ASpec

------------------------------------------------------------------------------
\* Whom a refusal is of

\* A row that was running when the launch began is in the loop, or has left it by
\* a tick of its own.
LatchedRan ==
  /\ ran \in [Row -> Nat]
  /\ live # {} => \A p \in Row : latched[p] = "RUNNING" => p \in live \/ ran[p] > 0

\* A row refused BANK_BUSY has a neighbour in its group that runs, or that was
\* running when the launch began and has run a tick since.
RefusedByOwner ==
  [][ \A m \in Row :
        cause'[m] = "BANK_BUSY" /\ cause[m] # "BANK_BUSY" =>
          \E p \in Row \ {m} : /\ p \div NBanks = m \div NBanks
                               /\ status[p] = "RUNNING" \/ ran[p] > 0 ]_vars

LEMMA RanInit == Init => LatchedRan
<1>. SUFFICES ASSUME Init PROVE LatchedRan
  OBVIOUS
<1>1. ran = [m \in Row |-> 0] /\ live = {}
  BY DEF Init
<1>. QED BY <1>1 DEF LatchedRan

LEMMA RanLoop ==
  ASSUME LatchedRan, NEW m \in live, live \subseteq Row, NEW st, Loop(m, st), latched' = latched
  PROVE  LatchedRan'
<1>1. /\ ran' = [ran EXCEPT ![m] = @ + 1] /\ ran \in [Row -> Nat] /\ m \in Row
      /\ live' \in {live, live \ {m}}
  BY DEF LatchedRan, Loop
<1>2. ran' \in [Row -> Nat] /\ ran'[m] > 0 /\ \A p \in Row \ {m} : ran'[p] = ran[p]
  BY <1>1
<1>3. \A p \in Row : latched[p] = "RUNNING" => p \in live \/ ran[p] > 0
  BY DEF LatchedRan
<1>4. ASSUME NEW p \in Row, latched[p] = "RUNNING" PROVE p \in live' \/ ran'[p] > 0
  BY <1>1, <1>2, <1>3, <1>4
<1>. QED BY <1>2, <1>4 DEF LatchedRan

LEMMA RanStep == IInv /\ LatchedRan /\ [Next]_vars => LatchedRan'
<1>. SUFFICES ASSUME IInv, LatchedRan, [Next]_vars PROVE LatchedRan'
  OBVIOUS
<1>0. live \subseteq Row
  BY DEF IInv, TypeOK
<1>1. ASSUME NEW n \in Launches, Launch(n) PROVE LatchedRan'
  BY <1>1 DEF Launch, LatchedRan
<1>2. ASSUME NEW m \in Row, RowStep(m) PROVE LatchedRan'
  <2>1. CASE \E st \in Status : Ready(m) /\ Loop(m, st) /\ latched' = latched
    BY <1>0, <2>1, RanLoop DEF Ready
  <2>2. CASE \E op \in Program : RowAccess(m, op)
    BY <2>2 DEF RowAccess, LatchedRan
  <2>3. CASE RowByte(m)
    <3>1. m \in live /\ latched' = latched
      BY <2>3 DEF RowByte, IInv, TypeOK
    <3>2. Loop(m, "RUNNING") \/ UNCHANGED <<live, ran>>
      BY <2>3 DEF RowByte
    <3>. QED BY <1>0, <3>1, <3>2, RanLoop DEF LatchedRan
  <2>. QED BY <1>2, <2>1, <2>2, <2>3, RowCases
<1>3. ASSUME NEW m \in Row, NEW st \in Status, NEW t \in 0 .. TickBudget, Install(m, st, t)
      PROVE  LatchedRan'
  BY <1>3 DEF Install, idle, LatchedRan
<1>4. CASE UNCHANGED vars
  BY <1>4 DEF vars, LatchedRan
<1>. QED BY <1>1, <1>2, <1>3, <1>4 DEF Next, Status

LEMMA RanInvariant == Spec => [](IInv /\ LatchedRan)
<1>1. IInv /\ LatchedRan /\ [Next]_vars => (IInv /\ LatchedRan)'
  BY IStep, RanStep
<1>2. Init => IInv /\ LatchedRan
  BY IInit, RanInit
<1>. QED BY <1>1, <1>2, PTL DEF Spec

\* A step that names BANK_BUSY is a fault of a row about to execute, whose owner
\* was running when the launch began.
LEMMA BusyStep ==
  ASSUME IInv, LatchedRan, Next, NEW m \in Row,
         cause'[m] = "BANK_BUSY", cause[m] # "BANK_BUSY"
  PROVE  /\ m \in live
         /\ \E p \in Row \ {m} : /\ p \div NBanks = m \div NBanks
                                 /\ status[p] = "RUNNING" \/ ran[p] > 0
<1>1. PICK r \in Row, op \in Program : RowFault(r, op)
  <2>1. ASSUME NEW n \in Launches, Launch(n) PROVE FALSE
    BY <2>1 DEF Launch
  <2>2. ASSUME NEW r \in Row, NEW st, NEW t, Install(r, st, t) PROVE FALSE
    <3>1. cause' = [cause EXCEPT ![r] = IF st = "ERROR" THEN "OTHER" ELSE "OK"]
      BY <2>2 DEF Install
    <3>. QED BY <3>1
  <2>3. ASSUME NEW r \in Row, RowOverrun(r) \/ RowByte(r) PROVE FALSE
    BY <2>3 DEF RowOverrun, RowByte
  <2>4. ASSUME NEW r \in Row, NEW op \in Program, RowPlain(r, op) \/ RowAccess(r, op) PROVE FALSE
    BY <2>4 DEF RowPlain, RowAccess
  <2>. QED BY <2>1, <2>2, <2>3, <2>4 DEF Next, RowStep
<1>2. r = m /\ outcome(m, op) = "BANK_BUSY" /\ m \in live
  <2>1. cause' = [cause EXCEPT ![r] = outcome(r, op)] /\ r \in live
    BY <1>1 DEF RowFault, Ready
  <2>. DEFINE o == outcome(r, op)
  <2>. HIDE DEF o
  <2>2. r = m /\ o = "BANK_BUSY"
    BY <2>1 DEF o
  <2>. QED BY <2>1, <2>2 DEF o
<1>3. op.kind \in {"LDM", "STM"} /\ bank_refusal(m, op.mb) = "BANK_BUSY"
  BY <1>2 DEF outcome
<1>. DEFINE p == base(m) + op.mb
<1>4. /\ ~(op.mb >= NBanks \/ op.mb >= HELD(m)) /\ op.mb # OWN(m) /\ latched[p] = "RUNNING"
  BY <1>3 DEF bank_refusal
<1>5. op.mb \in Nat
  BY <1>3, BatchAssumption DEF Op
<1>6. p \in Row /\ p \div NBanks = m \div NBanks
  BY <1>4, <1>5, HeldRow
<1>7. p # m
  BY <1>4, <1>5, GroupOf
<1>. HIDE DEF p
<1>8. p \in live \/ ran[p] > 0
  BY <1>2, <1>4, <1>6 DEF LatchedRan
<1>9. status[p] = "RUNNING" \/ ran[p] > 0
  BY <1>8 DEF IInv, LiveRuns
<1>. QED BY <1>2, <1>6, <1>7, <1>9

\* However long a launch runs and however many rows a group has, a refusal for a
\* busy bank is of a neighbour that was running when the launch began.
THEOREM RefusalsHaveOwners == Spec => RefusedByOwner
<1>. DEFINE A == \A m \in Row :
                   cause'[m] = "BANK_BUSY" /\ cause[m] # "BANK_BUSY" =>
                     \E p \in Row \ {m} : /\ p \div NBanks = m \div NBanks
                                          /\ status[p] = "RUNNING" \/ ran[p] > 0
<1>1. IInv /\ LatchedRan /\ [Next]_vars => [A]_vars
  BY BusyStep
<1>. QED BY <1>1, RanInvariant, PTL DEF Spec, RefusedByOwner

\* In a launch of one tick, a row about to execute has run none.
AtFirst == limit = 1 /\ \A p \in live : ran[p] = 0

LEMMA FirstStep ==
  ASSUME Launches \subseteq {1}
  PROVE  IInv /\ LatchedRan /\ AtFirst /\ [Next]_vars => AtFirst'
<1>. SUFFICES ASSUME IInv, LatchedRan, AtFirst, [Next]_vars PROVE AtFirst'
  OBVIOUS
<1>0. live \subseteq Row /\ ran \in [Row -> Nat]
  BY DEF IInv, TypeOK, LatchedRan
<1>1. ASSUME NEW n \in Launches, Launch(n) PROVE AtFirst'
  BY <1>1 DEF Launch, AtFirst
<1>2. ASSUME NEW m \in live, NEW st, Loop(m, st), limit' = limit PROVE AtFirst'
  <2>1. live' = live \ {m}
    BY <1>0, <1>2 DEF Loop, AtFirst
  <2>2. \A p \in live' : ran'[p] = ran[p]
    BY <1>0, <1>2, <2>1 DEF Loop
  <2>. QED BY <1>2, <2>1, <2>2 DEF AtFirst
<1>3. ASSUME NEW m \in Row, RowStep(m) PROVE AtFirst'
  <2>1. CASE \E st : m \in live /\ Loop(m, st) /\ limit' = limit
    BY <1>2, <2>1
  <2>2. CASE UNCHANGED <<live, ran, limit>>
    BY <2>2 DEF AtFirst
  <2>3. \/ \E st : m \in live /\ Loop(m, st) /\ limit' = limit
        \/ UNCHANGED <<live, ran, limit>>
    BY <1>3 DEF RowStep, RowOverrun, RowFault, RowPlain, RowAccess, RowByte, Ready, IInv, TypeOK
  <2>. QED BY <2>1, <2>2, <2>3
<1>4. ASSUME NEW m, NEW st, NEW t, Install(m, st, t) PROVE AtFirst'
  BY <1>4 DEF Install, AtFirst
<1>5. CASE UNCHANGED vars
  BY <1>5 DEF vars, AtFirst
<1>. QED BY <1>1, <1>3, <1>4, <1>5 DEF Next

\* Stepped one tick at a time, as TritonBatch.run steps a group, the rows are
\* refused as the documents say: for an owner that is still running, or that
\* stopped in the very tick of the refusal.
THEOREM OneTickRefusals ==
  ASSUME Launches \subseteq {1}
  PROVE  Spec => BusyMeansRunning
<1>. DEFINE A == \A m, p \in Row :
                   /\ NRows = 2 /\ p # m
                   /\ cause'[m] = "BANK_BUSY" /\ cause[m] # "BANK_BUSY"
                   => status[p] = "RUNNING" \/ ran[p] > ran[m]
<1>1. Init => AtFirst
  BY DEF Init, AtFirst
<1>2. Spec => []AtFirst
  BY <1>1, FirstStep, RanInvariant, PTL DEF Spec
<1>3. IInv /\ LatchedRan /\ AtFirst /\ [Next]_vars => [A]_vars
  <2>. SUFFICES ASSUME IInv, LatchedRan, AtFirst, Next, NEW m \in Row, NEW p \in Row,
                       NRows = 2, p # m, cause'[m] = "BANK_BUSY", cause[m] # "BANK_BUSY"
                PROVE  status[p] = "RUNNING" \/ ran[p] > ran[m]
    OBVIOUS
  <2>1. PICK q \in Row \ {m} : status[q] = "RUNNING" \/ ran[q] > 0
    BY BusyStep
  <2>2. ran[m] = 0
    BY BusyStep DEF AtFirst
  <2>3. q = p
    BY DEF Row
  <2>. QED BY <2>1, <2>2, <2>3
<1>. QED BY <1>2, <1>3, RanInvariant, PTL DEF Spec, BusyMeansRunning
=============================================================================
