----------------------------- MODULE BatchGroup -----------------------------
(***************************************************************************)
(* The kernel path's bank groups: the rows of a TritonBatch, NBanks rows   *)
(* to a group, one kernel program per row and all of them in flight at     *)
(* once (src/circuit_triton.py TritonBatch, ncp_resident_kernel, _tick).   *)
(*                                                                         *)
(* A launch copies every row's status once and lets each row run up to     *)
(* limit ticks, all of them when limit is 0.  Within it the rows move      *)
(* independently, and a page is read and written byte by byte: the         *)
(* kernel's loads and stores of two rows interleave in any order.          *)
(***************************************************************************)
EXTENDS Integers, Sequences, FiniteSetsExt

CONSTANTS
  NRows,          \* rows of the batch
  NBanks,         \* NBANKS of its one configuration block
  PageSize,       \* bytes of a DATA page
  Byte,           \* values a cell may hold
  TickBudget,     \* ticks each row may run
  Protected,      \* write-protected addresses, the same for every row
  Program,        \* the instructions a tick may execute, operands evaluated
  Launches,       \* the step limits the host launches with
  MaxLaunches,    \* bound on launches
  MaxInstalls     \* bound on install_state calls

Row  == 0 .. NRows - 1
Addr == 0 .. PageSize - 1

\* LDM/LDMW read and STM/STMW write a byte or a word of the page MB selects; ST
\* is a write of the row's own DATA, by a pointer, a push or a trap frame.
Op == [kind : {"LDM"}, mb : Nat, at : Nat, len : {1, 2}]
        \cup [kind : {"STM"}, mb : Nat, at : Nat, len : {1, 2}, put : Byte]
        \cup [kind : {"ST"}, at : Nat, len : {1, 2, 4}, put : Byte]
        \cup [kind : {"NOP", "HALT", "FAULT"}]

ASSUME BatchAssumption ==
  /\ NRows \in Nat \ {0} /\ NBanks \in Nat \ {0} /\ PageSize \in Nat \ {0}
  /\ 0 \in Byte
  /\ TickBudget \in Nat
  /\ Protected \subseteq Addr
  /\ Program \subseteq Op
  /\ Launches \subseteq Nat
  /\ MaxLaunches \in Nat /\ MaxInstalls \in Nat

VARIABLES
  page,      \* the DATA rows
  status,    \* STATE row 13
  cause,     \* STATE row 14
  tick,      \* STATE row 12
  seen,      \* the bytes each row's last bank load brought in
  latched,   \* BSTAT: the statuses copied when the launch began
  limit,     \* STEP_LIMIT of the launch
  live,      \* the rows still in the kernel's loop
  ran,       \* n: the ticks each row has run in this launch
  pend,      \* the byte accesses left of each row's tick, in program order
  launches,  \* launches so far
  installs   \* install_state calls so far

vars == <<page, status, cause, tick, seen, latched, limit, live, ran, pend,
          launches, installs>>

Init ==
  /\ page = [m \in Row |-> [a \in Addr |-> 0]]
  /\ status = [m \in Row |-> "RUNNING"]
  /\ cause = [m \in Row |-> "OK"]
  /\ tick = [m \in Row |-> 0]
  /\ seen = [m \in Row |-> <<>>]
  /\ latched = status
  /\ limit = 1
  /\ live = {}
  /\ ran = tick
  /\ pend = seen
  /\ launches = 0
  /\ installs = 0

------------------------------------------------------------------------------
\* What a bank access answers

OWN(m)  == m % NBanks
base(m) == m - OWN(m)

\* The last group of a batch may hold fewer rows than NBANKS declares.
HELD(m) == Min({NBanks, NRows - base(m)})

\* Slip: the owner's status is never looked at.
bank_refusal_NoBusy(m, mb) ==
  IF mb >= NBanks \/ mb >= HELD(m) THEN "BANK_OOB" ELSE "OK"

bank_refusal(m, mb) ==
  IF mb >= NBanks \/ mb >= HELD(m) THEN "BANK_OOB"
  ELSE IF mb # OWN(m) /\ latched[base(m) + mb] = "RUNNING" THEN "BANK_BUSY"
  ELSE "OK"

\* The page an access reaches: BDELTA added to the row's own.
place(m, op) == IF op.kind = "ST" THEN m ELSE base(m) + op.mb

access_span(op) == op.at .. op.at + op.len - 1

\* Slip: the second byte of a word is left out of the region check.
outcome_FirstByte(m, op) ==
  CASE op.kind = "FAULT" -> "OTHER"
    [] op.kind \in {"LDM", "STM"} /\ bank_refusal(m, op.mb) # "OK" ->
         bank_refusal(m, op.mb)
    [] op.kind \in {"LDM", "STM", "ST"} /\ op.at + op.len > PageSize -> "DATA_OOB"
    [] op.kind \in {"STM", "ST"} /\ op.at \in Protected -> "REGION_VIOL"
    [] OTHER -> "OK"

\* The selector and the owner, then the address, then the regions.
outcome(m, op) ==
  CASE op.kind = "FAULT" -> "OTHER"
    [] op.kind \in {"LDM", "STM"} /\ bank_refusal(m, op.mb) # "OK" ->
         bank_refusal(m, op.mb)
    [] op.kind \in {"LDM", "STM", "ST"} /\ op.at + op.len > PageSize -> "DATA_OOB"
    [] op.kind \in {"STM", "ST"} /\ access_span(op) \cap Protected # {} -> "REGION_VIOL"
    [] OTHER -> "OK"

\* The byte accesses of an instruction, low byte first; op.put is the value of
\* each byte stored, and a read puts nothing.
accesses(m, op) ==
  LET at(i) == [row |-> place(m, op), addr |-> op.at + i - 1,
                put |-> IF op.kind = "LDM" THEN <<>> ELSE <<op.put>>]
  IN  IF op.kind \in {"LDM", "STM", "ST"} THEN [i \in 1 .. op.len |-> at(i)] ELSE <<>>

------------------------------------------------------------------------------
\* A launch

idle == live = {}

\* Slip: a launch reuses the statuses of the one before.
Launch_NoLatch(k) ==
  /\ idle
  /\ launches < MaxLaunches
  /\ live' = {m \in Row : status[m] = "RUNNING"}
  /\ ran' = [m \in Row |-> 0]
  /\ limit' = k
  /\ launches' = launches + 1
  /\ UNCHANGED <<page, status, cause, tick, seen, latched, pend, installs>>

\* run launches while any row is running, step as often as it is asked to; a
\* row that has stopped leaves the kernel's loop at once.
Launch(k) ==
  /\ idle
  /\ launches < MaxLaunches
  /\ latched' = status
  /\ live' = {m \in Row : status[m] = "RUNNING"}
  /\ ran' = [m \in Row |-> 0]
  /\ limit' = k
  /\ launches' = launches + 1
  /\ UNCHANGED <<page, status, cause, tick, seen, pend, installs>>

\* The kernel's loop condition after a tick that left row m in status st.
Loop(m, st) ==
  /\ ran' = [ran EXCEPT ![m] = @ + 1]
  /\ live' = IF st = "RUNNING" /\ (limit <= 0 \/ ran[m] + 1 < limit)
             THEN live ELSE live \ {m}

\* Row m is about to execute a tick.
Ready(m) == m \in live /\ pend[m] = <<>>

\* Slip: the budget is one tick larger here than where instructions execute.
RowOverrun_OffByOne(m) ==
  /\ Ready(m)
  /\ tick[m] > TickBudget
  /\ status' = [status EXCEPT ![m] = "OVERRUN"]
  /\ Loop(m, "OVERRUN")
  /\ UNCHANGED <<page, cause, tick, seen, latched, limit, pend, launches, installs>>

RowOverrun(m) ==
  /\ Ready(m)
  /\ tick[m] >= TickBudget
  /\ status' = [status EXCEPT ![m] = "OVERRUN"]
  /\ Loop(m, "OVERRUN")
  /\ UNCHANGED <<page, cause, tick, seen, latched, limit, pend, launches, installs>>

RowFault(m, op) ==
  /\ Ready(m)
  /\ tick[m] < TickBudget
  /\ outcome(m, op) # "OK"
  /\ status' = [status EXCEPT ![m] = "ERROR"]
  /\ cause' = [cause EXCEPT ![m] = outcome(m, op)]
  /\ Loop(m, "ERROR")
  /\ UNCHANGED <<page, tick, seen, latched, limit, pend, launches, installs>>

\* Slip: the tick is counted in the branch and again at the commit.
RowPlain_Twice(m, op) ==
  /\ Ready(m)
  /\ tick[m] < TickBudget
  /\ op.kind \in {"NOP", "HALT"}
  /\ tick' = [tick EXCEPT ![m] = @ + 2]
  /\ status' = IF op.kind = "HALT" THEN [status EXCEPT ![m] = "HALT"] ELSE status
  /\ Loop(m, status'[m])
  /\ UNCHANGED <<page, cause, seen, latched, limit, pend, launches, installs>>

RowPlain(m, op) ==
  /\ Ready(m)
  /\ tick[m] < TickBudget
  /\ op.kind \in {"NOP", "HALT"}
  /\ tick' = [tick EXCEPT ![m] = @ + 1]
  /\ status' = IF op.kind = "HALT" THEN [status EXCEPT ![m] = "HALT"] ELSE status
  /\ Loop(m, status'[m])
  /\ UNCHANGED <<page, cause, seen, latched, limit, pend, launches, installs>>

\* A tick that reads or writes a page: the verdict now, the bytes afterwards.
RowAccess(m, op) ==
  /\ Ready(m)
  /\ tick[m] < TickBudget
  /\ op.kind \in {"LDM", "STM", "ST"}
  /\ outcome(m, op) = "OK"
  /\ pend' = [pend EXCEPT ![m] = accesses(m, op)]
  /\ seen' = IF op.kind = "LDM" THEN [seen EXCEPT ![m] = <<>>] ELSE seen
  /\ UNCHANGED <<page, status, cause, tick, latched, limit, live, ran, launches, installs>>

\* The next byte of row m's tick; the last one ends the tick.
RowByte(m) ==
  /\ pend[m] # <<>>
  /\ LET b == Head(pend[m]) IN
       /\ page' = IF b.put = <<>> THEN page ELSE [page EXCEPT ![b.row][b.addr] = b.put[1]]
       /\ seen' = IF b.put = <<>>
                  THEN [seen EXCEPT ![m] = Append(@, page[b.row][b.addr])] ELSE seen
  /\ pend' = [pend EXCEPT ![m] = Tail(@)]
  /\ IF Len(pend[m]) = 1
     THEN /\ tick' = [tick EXCEPT ![m] = @ + 1]
          /\ Loop(m, "RUNNING")
     ELSE UNCHANGED <<tick, live, ran>>
  /\ UNCHANGED <<status, cause, latched, limit, launches, installs>>

\* install_state of one row, between launches: a record's state replaces the
\* row's; the statuses of the last launch stay as they were copied.
Install(m, st, t) ==
  /\ idle
  /\ installs < MaxInstalls
  /\ page' = [page EXCEPT ![m] = [a \in Addr |-> 0]]
  /\ status' = [status EXCEPT ![m] = st]
  /\ cause' = [cause EXCEPT ![m] = IF st = "ERROR" THEN "OTHER" ELSE "OK"]
  /\ tick' = [tick EXCEPT ![m] = t]
  /\ seen' = [seen EXCEPT ![m] = <<>>]
  /\ installs' = installs + 1
  /\ UNCHANGED <<latched, limit, live, ran, pend, launches>>

RowStep(m) ==
  \/ RowOverrun(m)
  \/ \E op \in Program : RowFault(m, op) \/ RowPlain(m, op) \/ RowAccess(m, op)
  \/ RowByte(m)

Next ==
  \/ \E k \in Launches : Launch(k)
  \/ \E m \in Row : RowStep(m)
  \/ \E m \in Row, st \in {"RUNNING", "HALT", "OVERRUN", "ERROR"}, t \in 0 .. TickBudget :
       Install(m, st, t)

Spec == Init /\ [][Next]_vars

\* The device runs every program of a launch to its end.
FairSpec == Spec /\ \A m \in Row : WF_vars(RowStep(m))

------------------------------------------------------------------------------
\* Properties

Status == {"RUNNING", "HALT", "OVERRUN", "ERROR"}

\* A byte access: a cell of a page and the byte it puts, or none.
Access == [row : Row, addr : Addr, put : {<<>>} \cup {<<b>> : b \in Byte}]

\* The rows keep their types; a tick is counted within the budget, and only a
\* row in the kernel's loop has accesses under way.
TypeOK ==
  /\ page \in [Row -> [Addr -> Byte]]
  /\ status \in [Row -> Status] /\ latched \in [Row -> Status]
  /\ tick \in [Row -> 0 .. TickBudget]
  /\ live \subseteq Row
  /\ pend \in [Row -> Seq(Access)]
  /\ \A m \in Row : pend[m] # <<>> => m \in live

\* A row's accesses in flight reach its own group's pages only, and of those
\* only its own or one that no live row executes from.
InFlightAlone ==
  \A m \in Row : \A i \in DOMAIN pend[m] :
    LET p == pend[m][i].row IN
      /\ p \div NBanks = m \div NBanks
      /\ p # m => p \notin live

\* While a row is in flight nobody else's store reaches its page, whatever the
\* other rows of the launch are doing and however many ticks it runs.
OwnerExclusive ==
  [][ \A p \in live : page'[p] # page[p] => pend[p] # <<>> /\ pend'[p] = Tail(pend[p]) ]_vars

\* No row ever changes a protected byte of any page.
RegionsIntact ==
  [][ \A p \in Row, a \in Protected :
        page'[p][a] # page[p][a] => installs' # installs ]_vars

\* Every launch ends, one without a step limit too: the budgets stop what the
\* programs do not.
LaunchEnds == live # {} ~> live = {}

\* What ISA.md section 4.8 says of every group: whose page is quiet is decided
\* once per tick.  In a group of two rows, a row refused BANK_BUSY in the nth
\* tick of a launch has an owner that was still running when that tick began:
\* it runs now, or it stopped in its own nth tick or later.
BusyMeansRunning ==
  [][ \A m, p \in Row :
        /\ NRows = 2 /\ p # m
        /\ cause'[m] = "BANK_BUSY" /\ cause[m] # "BANK_BUSY"
        => status[p] = "RUNNING" \/ ran[p] > ran[m] ]_vars

\* The batch implements the promise the reference's group implements, with a
\* launch for the promise's tick: one tick at a time is how run drives a group,
\* and a launch without a limit only leaves pages quiet to fewer visitors.
Promise == INSTANCE OwnedPages
  WITH Machine <- Row,
       Protected <- [m \in Row |-> Protected],
       Image <- [m \in Row |-> [a \in Addr |-> 0]],
       running <- {m \in Row : status[m] = "RUNNING"},
       quiet <- {m \in Row : latched[m] # "RUNNING"},
       done <- Row \ live

KeepsPromise == Promise!ASpec
=============================================================================
