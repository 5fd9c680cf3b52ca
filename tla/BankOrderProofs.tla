--------------------------- MODULE BankOrderProofs ---------------------------
(***************************************************************************)
(* What does not depend on the order a group's members are stepped in, for *)
(* every size, program and budget, with the index order on one side and    *)
(* any other on the other.  In the middle of a tick the two groups have    *)
(* stepped different members, so they are compared member by member: one   *)
(* that both or neither have stepped stands alike, and one that only one   *)
(* group has stepped is a turn ahead there.                                *)
(***************************************************************************)
EXTENDS BankOrder, TLAPS

\* The members each driver has stepped in this tick.
doneA(m) == m < pos
doneB(m) == \E k \in Member : k < pos /\ OtherOrder[k] = m

\* What a member shows of a tick but its page and its registers.
verdictA(m) == <<statusA[m], causeA[m], tickA[m]>>
verdictB(m) == <<statusB[m], causeB[m], tickB[m]>>

\* The verdict a turn makes of the one before it.
turn(m, v) ==
  IF v[1] # "RUNNING" THEN v
  ELSE IF v[3] >= TickBudget[m] THEN <<"OVERRUN", v[2], v[3]>>
  ELSE IF A!outcome(m, op[m]) # "OK" THEN <<"ERROR", A!outcome(m, op[m]), v[3]>>
  ELSE <<IF op[m].kind = "HALT" THEN "HALT" ELSE "RUNNING", v[2], v[3] + 1>>

Typed ==
  /\ pos \in 0 .. NBanks
  /\ statusA = [m \in Member |-> statusA[m]] /\ statusB = [m \in Member |-> statusB[m]]
  /\ causeA = [m \in Member |-> causeA[m]] /\ causeB = [m \in Member |-> causeB[m]]
  /\ tickA \in [Member -> Nat] /\ tickB \in [Member -> Nat]
  /\ seenA = [m \in Member |-> seenA[m]] /\ seenB = [m \in Member |-> seenB[m]]
  /\ pageA \in [Member -> A!Page] /\ pageB \in [Member -> A!Page]
  /\ op \in [Member -> A!Op]

Ahead ==
  /\ latchedA = latchedB
  /\ \A m \in Member :
       /\ (doneA(m) <=> doneB(m)) => verdictA(m) = verdictB(m)
       /\ doneA(m) /\ ~doneB(m) => verdictA(m) = turn(m, verdictB(m))
       /\ doneB(m) /\ ~doneA(m) => verdictB(m) = turn(m, verdictA(m))

\* A member that has not been stepped stands as it was latched, and has room in
\* its budget if it was given an instruction.
FreshA(m) ==
  /\ statusA[m] = latchedA[m]
  /\ statusA[m] = "RUNNING" /\ op[m].kind # "NOP" => tickA[m] < TickBudget[m]

FreshB(m) ==
  /\ statusB[m] = latchedA[m]
  /\ statusB[m] = "RUNNING" /\ op[m].kind # "NOP" => tickB[m] < TickBudget[m]

Fresh ==
  pos < NBanks => \A m \in Member : /\ ~doneA(m) => FreshA(m)
                                    /\ ~doneB(m) => FreshB(m)

VInv == Typed /\ Ahead /\ Fresh

------------------------------------------------------------------------------
\* What a member's instruction does in this tick, whenever its turn comes

does(m) == latchedA[m] = "RUNNING" /\ A!outcome(m, op[m]) = "OK"

stores(m) == does(m) /\ op[m].kind \in {"STM", "ST"}
loads(m)  == does(m) /\ op[m].kind = "LDM"

\* The cells it stores into, and what it leaves there.
covers(m, a) == a = op[m].at \/ (op[m].at < a /\ a < op[m].at + op[m].len)
hits(m, p, a) == stores(m) /\ p = A!target(m, op[m]) /\ covers(m, a)
leaves(m, a) == IF a = op[m].at THEN op[m].lo ELSE op[m].hi

\* The two drivers' members at a position of the loop.
LEMMA Positions ==
  ASSUME Typed, pos < NBanks
  PROVE  /\ pos \in Member /\ OtherOrder[pos] \in Member
         /\ ~doneA(pos) /\ ~doneB(OtherOrder[pos])
         /\ pos' = pos + 1 => \A m \in Member :
              /\ doneA(m)' <=> doneA(m) \/ m = pos
              /\ doneB(m)' <=> doneB(m) \/ m = OtherOrder[pos]
<1>1. pos \in Member /\ OtherOrder[pos] \in Member /\ ~doneA(pos)
  <2>1. pos \in Member /\ ~doneA(pos)
    BY OrderAssumption DEF Typed, Member, doneA
  <2>2. OtherOrder \in [Member -> Member]
    BY OrderAssumption
  <2>. QED BY <2>1, <2>2
<1>2. ~doneB(OtherOrder[pos])
  <2>1. \A k \in Member : k < pos => OtherOrder[k] # OtherOrder[pos]
    BY <1>1, OrderAssumption DEF Member
  <2>. QED BY <2>1 DEF doneB
<1>3. ASSUME pos' = pos + 1, NEW m \in Member
      PROVE  /\ doneA(m)' <=> doneA(m) \/ m = pos
             /\ doneB(m)' <=> doneB(m) \/ m = OtherOrder[pos]
  <2>1. \A k \in Member : k < pos' <=> k < pos \/ k = pos
    BY <1>1, <1>3 DEF Member
  <2>2. doneA(m)' <=> doneA(m) \/ m = pos
    BY <2>1 DEF doneA
  <2>3. doneB(m)' <=> doneB(m) \/ m = OtherOrder[pos]
    BY <1>1, <2>1 DEF doneB
  <2>. QED BY <2>2, <2>3
<1>. QED BY <1>1, <1>2, <1>3

\* The two groups judge an instruction alike, since they latched alike.
LEMMA SameOutcome ==
  ASSUME latchedA = latchedB
  PROVE  \A m, o : B!outcome(m, o) = A!outcome(m, o)
BY SMT DEF A!outcome, B!outcome, A!bank_refusal, B!bank_refusal, A!own_store_refusal,
           B!own_store_refusal, A!region_hit_any, B!region_hit_any, A!region_hit,
           B!region_hit, A!quiescent, B!quiescent

\* One turn of a member in the first group: its verdict, and nobody else's.
LEMMA TurnA ==
  ASSUME VInv, NEW m \in Member,
         A!StepStopped(m) \/ A!StepOverrun(m) \/ A!Execute(m, op[m])
  PROVE  /\ pos < NBanks /\ m = pos /\ pos' = pos + 1 /\ latchedA' = latchedA
         /\ verdictA(m)' = turn(m, verdictA(m))
         /\ \A n \in Member \ {m} : verdictA(n)' = verdictA(n)
         /\ statusA' = [n \in Member |-> statusA'[n]]
         /\ causeA' = [n \in Member |-> causeA'[n]]
         /\ tickA' \in [Member -> Nat]
<1>1. /\ pos < NBanks /\ pos' = pos + 1 /\ latchedA' = latchedA
      /\ m = [k \in Member |-> k][pos]
  BY DEF A!StepStopped, A!StepOverrun, A!Execute, A!StepFault, A!StepLoad, A!StepStore,
         A!StepPlain, A!Executing, A!Turn, A!Advance
<1>2. m = pos
  BY <1>1, Positions DEF VInv
<1>3. tickA[m] \in Nat /\ TickBudget[m] \in Nat
  BY OrderAssumption DEF VInv, Typed
<1>4. CASE A!StepStopped(m)
  BY <1>1, <1>2, <1>4 DEF A!StepStopped, A!quiescent, turn, verdictA, VInv, Typed
<1>5. CASE A!StepOverrun(m)
  BY <1>1, <1>2, <1>3, <1>5 DEF A!StepOverrun, A!quiescent, turn, verdictA, VInv, Typed
<1>6. CASE A!StepFault(m, op[m])
  <2>1. /\ statusA[m] = "RUNNING" /\ tickA[m] < TickBudget[m]
        /\ A!outcome(m, op[m]) # "OK"
        /\ statusA' = [statusA EXCEPT ![m] = "ERROR"]
        /\ causeA' = [causeA EXCEPT ![m] = A!outcome(m, op[m])]
        /\ tickA' = tickA
    BY <1>6 DEF A!StepFault, A!Executing, A!quiescent
  <2>2. turn(m, verdictA(m)) = <<"ERROR", A!outcome(m, op[m]), tickA[m]>>
    BY <1>3, <2>1 DEF turn, verdictA
  <2>. DEFINE o == A!outcome(m, op[m])
  <2>. HIDE DEF o
  <2>3. statusA'[m] = "ERROR" /\ causeA'[m] = o /\ tickA'[m] = tickA[m]
    BY <2>1 DEF VInv, Typed, o
  <2>4. \A n \in Member \ {m} : verdictA(n)' = verdictA(n)
    BY <2>1 DEF VInv, Typed, verdictA
  <2>5. /\ statusA' = [n \in Member |-> statusA'[n]]
        /\ causeA' = [n \in Member |-> causeA'[n]] /\ tickA' \in [Member -> Nat]
    BY <2>1 DEF VInv, Typed
  <2>. QED BY <1>1, <1>2, <2>2, <2>3, <2>4, <2>5 DEF verdictA, o
<1>7. CASE A!StepLoad(m, op[m]) \/ A!StepStore(m, op[m])
  BY <1>1, <1>2, <1>3, <1>7 DEF A!StepLoad, A!StepStore, A!Executing, A!quiescent, turn,
                                verdictA, VInv, Typed
<1>8. CASE A!StepPlain(m, op[m])
  <2>1. A!outcome(m, op[m]) = "OK"
    BY <1>8 DEF A!StepPlain, A!outcome
  <2>. QED BY <1>1, <1>2, <1>3, <1>8, <2>1 DEF A!StepPlain, A!Executing, A!quiescent, turn,
                                verdictA, VInv, Typed
<1>. QED BY <1>4, <1>5, <1>6, <1>7, <1>8 DEF A!Execute

LEMMA TurnB ==
  ASSUME VInv, NEW m \in Member,
         B!StepStopped(m) \/ B!StepOverrun(m) \/ B!Execute(m, op[m])
  PROVE  /\ pos < NBanks /\ m = OtherOrder[pos] /\ pos' = pos + 1 /\ latchedB' = latchedB
         /\ verdictB(m)' = turn(m, verdictB(m))
         /\ \A n \in Member \ {m} : verdictB(n)' = verdictB(n)
         /\ statusB' = [n \in Member |-> statusB'[n]]
         /\ causeB' = [n \in Member |-> causeB'[n]]
         /\ tickB' \in [Member -> Nat]
<1>1. /\ pos < NBanks /\ pos' = pos + 1 /\ latchedB' = latchedB
      /\ m = OtherOrder[pos]
  BY DEF B!StepStopped, B!StepOverrun, B!Execute, B!StepFault, B!StepLoad, B!StepStore,
         B!StepPlain, B!Executing, B!Turn, B!Advance
<1>2. m = OtherOrder[pos]
  BY <1>1
<1>3. tickB[m] \in Nat /\ TickBudget[m] \in Nat
  BY OrderAssumption DEF VInv, Typed
<1>0. B!outcome(m, op[m]) = A!outcome(m, op[m])
  BY SameOutcome DEF VInv, Ahead
<1>4. CASE B!StepStopped(m)
  BY <1>1, <1>2, <1>4 DEF B!StepStopped, B!quiescent, turn, verdictB, VInv, Typed
<1>5. CASE B!StepOverrun(m)
  BY <1>1, <1>2, <1>3, <1>5 DEF B!StepOverrun, B!quiescent, turn, verdictB, VInv, Typed
<1>6. CASE B!StepFault(m, op[m])
  <2>1. /\ statusB[m] = "RUNNING" /\ tickB[m] < TickBudget[m]
        /\ A!outcome(m, op[m]) # "OK"
        /\ statusB' = [statusB EXCEPT ![m] = "ERROR"]
        /\ causeB' = [causeB EXCEPT ![m] = A!outcome(m, op[m])]
        /\ tickB' = tickB
    BY <1>0, <1>6 DEF B!StepFault, B!Executing, B!quiescent
  <2>2. turn(m, verdictB(m)) = <<"ERROR", A!outcome(m, op[m]), tickB[m]>>
    BY <1>3, <2>1 DEF turn, verdictB
  <2>. DEFINE o == A!outcome(m, op[m])
  <2>. HIDE DEF o
  <2>3. statusB'[m] = "ERROR" /\ causeB'[m] = o /\ tickB'[m] = tickB[m]
    BY <2>1 DEF VInv, Typed, o
  <2>4. \A n \in Member \ {m} : verdictB(n)' = verdictB(n)
    BY <2>1 DEF VInv, Typed, verdictB
  <2>5. /\ statusB' = [n \in Member |-> statusB'[n]]
        /\ causeB' = [n \in Member |-> causeB'[n]] /\ tickB' \in [Member -> Nat]
    BY <2>1 DEF VInv, Typed
  <2>. QED BY <1>1, <1>2, <2>2, <2>3, <2>4, <2>5 DEF verdictB, o
<1>7. CASE B!StepLoad(m, op[m]) \/ B!StepStore(m, op[m])
  BY <1>0, <1>1, <1>2, <1>3, <1>7 DEF B!StepLoad, B!StepStore, B!Executing, B!quiescent, turn,
                                verdictB, VInv, Typed
<1>8. CASE B!StepPlain(m, op[m])
  <2>1. A!outcome(m, op[m]) = "OK"
    BY <1>0, <1>8 DEF B!StepPlain, B!outcome
  <2>. QED BY <1>1, <1>2, <1>3, <1>8, <2>1 DEF B!StepPlain, B!Executing, B!quiescent, turn,
                                verdictB, VInv, Typed
<1>. QED BY <1>4, <1>5, <1>6, <1>7, <1>8 DEF B!Execute
------------------------------------------------------------------------------
\* What a turn does to the pages and the loads

\* Both groups read and write a page alike.
LEMMA SameData ==
  /\ \A pg, o : B!written(pg, o) = A!written(pg, o) /\ B!fetched(pg, o) = A!fetched(pg, o)
  /\ \A n, o : B!target(n, o) = A!target(n, o)
  /\ B!Page = A!Page
BY DEF A!written, B!written, A!fetched, B!fetched, A!target, B!target, A!Page, B!Page,
       A!Addr, B!Addr

\* A store that was let through writes bytes of a page of the group.
LEMMA StoreTyped ==
  ASSUME op \in [Member -> A!Op], NEW m \in Member, stores(m)
  PROVE  A!target(m, op[m]) \in Member /\ op[m].lo \in Byte /\ op[m].hi \in Byte
<1>1. op[m] \in A!Op /\ A!outcome(m, op[m]) = "OK" /\ op[m].kind \in {"STM", "ST"}
  BY DEF stores, does
<1>2. CASE op[m].kind = "ST"
  BY <1>1, <1>2 DEF A!Op, A!LoadOp, A!StoreOp, A!OwnOp, A!PlainOp, A!target
<1>3. CASE op[m].kind = "STM"
  <2>1. op[m] \in A!StoreOp
    BY <1>1, <1>3 DEF A!Op, A!LoadOp, A!StoreOp, A!OwnOp, A!PlainOp
  <2>2. ~(op[m].mb >= NBanks)
    BY <1>1, <1>3, Zenon DEF A!outcome, A!bank_refusal
  <2>. QED BY <1>3, <2>1, <2>2, OrderAssumption DEF A!StoreOp, A!Selector, A!target, Member
<1>. QED BY <1>1, <1>2, <1>3

LEMMA EffectA ==
  ASSUME VInv, NEW m \in Member,
         A!StepStopped(m) \/ A!StepOverrun(m) \/ A!Execute(m, op[m])
  PROVE  /\ pageA' \in [Member -> A!Page]
         /\ seenA' = [n \in Member |-> seenA'[n]]
         /\ \A p \in Member, a \in A!Addr :
              pageA'[p][a] = IF hits(m, p, a) THEN leaves(m, a) ELSE pageA[p][a]
         /\ \A n \in Member :
              seenA'[n] = IF n = m /\ loads(m) THEN A!fetched(pageA[op[m].mb], op[m])
                           ELSE seenA[n]
<1>1. FreshA(m)
  BY TurnA, Positions DEF VInv, Fresh
<1>2. pageA \in [Member -> A!Page] /\ seenA = [n \in Member |-> seenA[n]]
      /\ tickA[m] \in Nat /\ TickBudget[m] \in Nat
  BY OrderAssumption DEF VInv, Typed
<1>3. CASE ~loads(m) /\ ~stores(m) /\ pageA' = pageA /\ seenA' = seenA
  BY <1>2, <1>3 DEF hits
<1>4. CASE A!StepStopped(m)
  <2>1. ~does(m)
    BY <1>1, <1>4 DEF A!StepStopped, A!quiescent, FreshA, does
  <2>. QED BY <1>3, <1>4, <2>1 DEF A!StepStopped, loads, stores
<1>5. CASE A!StepOverrun(m)
  <2>1. op[m].kind = "NOP"
    BY <1>1, <1>2, <1>5 DEF A!StepOverrun, A!quiescent, FreshA
  <2>. QED BY <1>3, <1>5, <2>1 DEF A!StepOverrun, loads, stores
<1>6. CASE A!StepFault(m, op[m])
  BY <1>3, <1>6 DEF A!StepFault, loads, stores, does
<1>7. CASE A!StepPlain(m, op[m])
  BY <1>3, <1>7 DEF A!StepPlain, loads, stores
<1>8. CASE A!StepLoad(m, op[m])
  <2>1. /\ statusA[m] = "RUNNING" /\ op[m].kind = "LDM" /\ A!outcome(m, op[m]) = "OK"
        /\ seenA' = [seenA EXCEPT ![m] = A!fetched(pageA[op[m].mb], op[m])]
        /\ pageA' = pageA
    BY <1>8 DEF A!StepLoad, A!Executing, A!quiescent
  <2>2. loads(m) /\ ~stores(m)
    BY <1>1, <2>1 DEF loads, stores, does, FreshA
  <2>3. \A p, a : ~hits(m, p, a)
    BY <2>2 DEF hits
  <2>. QED BY <1>2, <2>1, <2>2, <2>3
<1>9. CASE A!StepStore(m, op[m])
  <2>. DEFINE t == A!target(m, op[m])
  <2>1. /\ statusA[m] = "RUNNING" /\ op[m].kind \in {"STM", "ST"}
        /\ A!outcome(m, op[m]) = "OK" /\ seenA' = seenA
        /\ pageA' = [pageA EXCEPT ![t] = A!written(pageA[t], op[m])]
    BY <1>9 DEF A!StepStore, A!Executing, A!quiescent
  <2>2. stores(m) /\ ~loads(m)
    BY <1>1, <2>1 DEF loads, stores, does, FreshA
  <2>3. t \in Member /\ op[m].lo \in Byte /\ op[m].hi \in Byte
    BY <2>2, StoreTyped DEF VInv, Typed
  <2>4. A!written(pageA[t], op[m]) \in A!Page
        /\ \A a \in A!Addr : A!written(pageA[t], op[m])[a]
             = IF covers(m, a) THEN leaves(m, a) ELSE pageA[t][a]
    BY <1>2, <2>3 DEF A!written, A!Page, covers, leaves
  <2>. HIDE DEF t
  <2>5. \A p \in Member, a \in A!Addr : hits(m, p, a) <=> p = t /\ covers(m, a)
    BY <2>2 DEF hits, t
  <2>6. pageA' \in [Member -> A!Page]
    BY <1>2, <2>1, <2>3, <2>4
  <2>7. \A p \in Member : pageA'[p] = IF p = t THEN A!written(pageA[t], op[m]) ELSE pageA[p]
    BY <1>2, <2>1, <2>3
  <2>8. \A p \in Member, a \in A!Addr :
          pageA'[p][a] = IF hits(m, p, a) THEN leaves(m, a) ELSE pageA[p][a]
    BY <2>4, <2>5, <2>7
  <2>. QED BY <1>2, <2>1, <2>2, <2>6, <2>8
<1>. QED BY <1>4, <1>5, <1>6, <1>7, <1>8, <1>9 DEF A!Execute

LEMMA EffectB ==
  ASSUME VInv, NEW m \in Member,
         B!StepStopped(m) \/ B!StepOverrun(m) \/ B!Execute(m, op[m])
  PROVE  /\ pageB' \in [Member -> A!Page]
         /\ seenB' = [n \in Member |-> seenB'[n]]
         /\ \A p \in Member, a \in A!Addr :
              pageB'[p][a] = IF hits(m, p, a) THEN leaves(m, a) ELSE pageB[p][a]
         /\ \A n \in Member :
              seenB'[n] = IF n = m /\ loads(m) THEN A!fetched(pageB[op[m].mb], op[m])
                           ELSE seenB[n]
<1>0. /\ B!outcome(m, op[m]) = A!outcome(m, op[m])
      /\ \A pg, o : B!written(pg, o) = A!written(pg, o) /\ B!fetched(pg, o) = A!fetched(pg, o)
      /\ \A n, o : B!target(n, o) = A!target(n, o)
  BY SameOutcome, SameData DEF VInv, Ahead
<1>1. FreshB(m)
  BY TurnB, Positions DEF VInv, Fresh
<1>2. pageB \in [Member -> A!Page] /\ seenB = [n \in Member |-> seenB[n]]
      /\ tickB[m] \in Nat /\ TickBudget[m] \in Nat
  BY OrderAssumption DEF VInv, Typed
<1>3. CASE ~loads(m) /\ ~stores(m) /\ pageB' = pageB /\ seenB' = seenB
  BY <1>2, <1>3 DEF hits
<1>4. CASE B!StepStopped(m)
  <2>1. ~does(m)
    BY <1>1, <1>4 DEF B!StepStopped, B!quiescent, FreshB, does
  <2>. QED BY <1>3, <1>4, <2>1 DEF B!StepStopped, loads, stores
<1>5. CASE B!StepOverrun(m)
  <2>1. op[m].kind = "NOP"
    BY <1>1, <1>2, <1>5 DEF B!StepOverrun, B!quiescent, FreshB
  <2>. QED BY <1>3, <1>5, <2>1 DEF B!StepOverrun, loads, stores
<1>6. CASE B!StepFault(m, op[m])
  BY <1>0, <1>3, <1>6 DEF B!StepFault, loads, stores, does
<1>7. CASE B!StepPlain(m, op[m])
  BY <1>3, <1>7 DEF B!StepPlain, loads, stores
<1>8. CASE B!StepLoad(m, op[m])
  <2>1. /\ statusB[m] = "RUNNING" /\ op[m].kind = "LDM" /\ A!outcome(m, op[m]) = "OK"
        /\ seenB' = [seenB EXCEPT ![m] = A!fetched(pageB[op[m].mb], op[m])]
        /\ pageB' = pageB
    BY <1>0, <1>8 DEF B!StepLoad, B!Executing, B!quiescent
  <2>2. loads(m) /\ ~stores(m)
    BY <1>1, <2>1 DEF loads, stores, does, FreshB
  <2>3. \A p, a : ~hits(m, p, a)
    BY <2>2 DEF hits
  <2>. QED BY <1>2, <2>1, <2>2, <2>3
<1>9. CASE B!StepStore(m, op[m])
  <2>. DEFINE t == A!target(m, op[m])
  <2>1. /\ statusB[m] = "RUNNING" /\ op[m].kind \in {"STM", "ST"}
        /\ A!outcome(m, op[m]) = "OK" /\ seenB' = seenB
        /\ pageB' = [pageB EXCEPT ![t] = A!written(pageB[t], op[m])]
    BY <1>0, <1>9 DEF B!StepStore, B!Executing, B!quiescent
  <2>2. stores(m) /\ ~loads(m)
    BY <1>1, <2>1 DEF loads, stores, does, FreshB
  <2>3. t \in Member /\ op[m].lo \in Byte /\ op[m].hi \in Byte
    BY <2>2, StoreTyped DEF VInv, Typed
  <2>4. A!written(pageB[t], op[m]) \in A!Page
        /\ \A a \in A!Addr : A!written(pageB[t], op[m])[a]
             = IF covers(m, a) THEN leaves(m, a) ELSE pageB[t][a]
    BY <1>2, <2>3 DEF A!written, A!Page, covers, leaves
  <2>. HIDE DEF t
  <2>5. \A p \in Member, a \in A!Addr : hits(m, p, a) <=> p = t /\ covers(m, a)
    BY <2>2 DEF hits, t
  <2>6. pageB' \in [Member -> A!Page]
    BY <1>2, <2>1, <2>3, <2>4
  <2>7. \A p \in Member : pageB'[p] = IF p = t THEN A!written(pageB[t], op[m]) ELSE pageB[p]
    BY <1>2, <2>1, <2>3
  <2>8. \A p \in Member, a \in A!Addr :
          pageB'[p][a] = IF hits(m, p, a) THEN leaves(m, a) ELSE pageB[p][a]
    BY <2>4, <2>5, <2>7
  <2>. QED BY <1>2, <2>1, <2>2, <2>6, <2>8
<1>. QED BY <1>4, <1>5, <1>6, <1>7, <1>8, <1>9 DEF B!Execute

------------------------------------------------------------------------------
\* The comparison's steps

\* A step of the two drivers, each with its own member, and what it leaves.
LEMMA BothStep ==
  ASSUME VInv, StepBoth
  PROVE  /\ pos < NBanks /\ pos' = pos + 1 /\ op' = op
         /\ latchedA' = latchedA /\ latchedB' = latchedB
         /\ A!StepStopped(pos) \/ A!StepOverrun(pos) \/ A!Execute(pos, op[pos])
         /\ LET mB == OtherOrder[pos]
            IN  B!StepStopped(mB) \/ B!StepOverrun(mB) \/ B!Execute(mB, op[mB])
<1>1. PICK mA \in Member : A!StepStopped(mA) \/ A!StepOverrun(mA) \/ A!Execute(mA, op[mA])
  BY DEF StepBoth
<1>2. PICK mB \in Member : B!StepStopped(mB) \/ B!StepOverrun(mB) \/ B!Execute(mB, op[mB])
  BY DEF StepBoth
<1>3. pos < NBanks /\ pos' = pos + 1 /\ mA = pos /\ latchedA' = latchedA
  BY <1>1, TurnA
<1>4. mB = OtherOrder[pos] /\ latchedB' = latchedB
  BY <1>2, TurnB
<1>. QED BY <1>1, <1>2, <1>3, <1>4 DEF StepBoth

\* A tick's latch and instructions fix its verdicts.
LEMMA OutcomeKept ==
  ASSUME latchedA' = latchedA, op' = op
  PROVE  \A m : A!outcome(m, op[m])' = A!outcome(m, op[m])
BY SMT DEF A!outcome, A!bank_refusal, A!own_store_refusal, A!region_hit_any, A!region_hit,
           A!quiescent

LEMMA VStepBoth ==
  ASSUME VInv, StepBoth
  PROVE  VInv'
<1>0. pos < NBanks
  BY BothStep
<1>. PICK mA \in Member : mA = pos
  BY <1>0, Positions DEF VInv
<1>. PICK mB \in Member : mB = OtherOrder[pos]
  BY <1>0, Positions DEF VInv
<1>1. /\ pos < NBanks /\ pos' = pos + 1 /\ op' = op
      /\ latchedA' = latchedA /\ latchedB' = latchedB
      /\ A!StepStopped(mA) \/ A!StepOverrun(mA) \/ A!Execute(mA, op[mA])
      /\ B!StepStopped(mB) \/ B!StepOverrun(mB) \/ B!Execute(mB, op[mB])
  BY BothStep
<1>2. /\ mA \in Member /\ mB \in Member /\ ~doneA(mA) /\ ~doneB(mB)
      /\ \A m \in Member : /\ doneA(m)' <=> doneA(m) \/ m = mA
                           /\ doneB(m)' <=> doneB(m) \/ m = mB
  BY <1>1, Positions DEF VInv
<1>3. /\ verdictA(mA)' = turn(mA, verdictA(mA))
      /\ \A n \in Member \ {mA} : verdictA(n)' = verdictA(n)
      /\ statusA' = [n \in Member |-> statusA'[n]] /\ causeA' = [n \in Member |-> causeA'[n]]
      /\ tickA' \in [Member -> Nat]
  BY <1>1, <1>2, TurnA
<1>4. /\ verdictB(mB)' = turn(mB, verdictB(mB))
      /\ \A n \in Member \ {mB} : verdictB(n)' = verdictB(n)
      /\ statusB' = [n \in Member |-> statusB'[n]] /\ causeB' = [n \in Member |-> causeB'[n]]
      /\ tickB' \in [Member -> Nat]
  BY <1>1, <1>2, TurnB
<1>5. Typed'
  <2>1. pos' \in 0 .. NBanks
    BY <1>1, OrderAssumption DEF VInv, Typed
  <2>2. pageA' \in [Member -> A!Page] /\ seenA' = [n \in Member |-> seenA'[n]]
    BY <1>1, <1>2, EffectA
  <2>3. pageB' \in [Member -> A!Page] /\ seenB' = [n \in Member |-> seenB'[n]]
    BY <1>1, <1>2, EffectB
  <2>4. A!Page' = A!Page /\ A!Op' = A!Op
    OBVIOUS
  <2>. QED BY <1>1, <1>3, <1>4, <2>1, <2>2, <2>3, <2>4 DEF VInv, Typed
<1>6. \A m : A!outcome(m, op[m])' = A!outcome(m, op[m])
  BY <1>1, OutcomeKept
<1>7. Ahead'
  <2>1. latchedA' = latchedB'
    BY <1>1 DEF VInv, Ahead
  <2>2. ASSUME NEW m \in Member
        PROVE  /\ (doneA(m)' <=> doneB(m)') => verdictA(m)' = verdictB(m)'
               /\ doneA(m)' /\ ~doneB(m)' => verdictA(m)' = turn(m, verdictB(m)')
               /\ doneB(m)' /\ ~doneA(m)' => verdictB(m)' = turn(m, verdictA(m)')
    <3>1. /\ (doneA(m) <=> doneB(m)) => verdictA(m) = verdictB(m)
          /\ doneA(m) /\ ~doneB(m) => verdictA(m) = turn(m, verdictB(m))
          /\ doneB(m) /\ ~doneA(m) => verdictB(m) = turn(m, verdictA(m))
      BY DEF VInv, Ahead
    <3>2. verdictA(m)' = IF m = mA THEN turn(m, verdictA(m)) ELSE verdictA(m)
      BY <1>3
    <3>3. verdictB(m)' = IF m = mB THEN turn(m, verdictB(m)) ELSE verdictB(m)
      BY <1>4
    <3>. QED BY <1>2, <3>1, <3>2, <3>3
  <2>3. ASSUME NEW m \in Member
        PROVE  /\ turn(m, verdictA(m))' = turn(m, verdictA(m)')
               /\ turn(m, verdictB(m))' = turn(m, verdictB(m)')
    BY <1>1, <1>6 DEF turn
  <2>. QED BY <2>1, <2>2, <2>3 DEF Ahead
<1>8. Fresh'
  <2> SUFFICES ASSUME NEW m \in Member
               PROVE  (~doneA(m) => FreshA(m))' /\ (~doneB(m) => FreshB(m))'
    BY DEF Fresh
  <2>1. ASSUME ~doneA(m)' PROVE FreshA(m)'
    <3>1. m # mA /\ ~doneA(m)
      BY <1>2, <2>1
    <3>2. FreshA(m)
      BY <1>1, <3>1 DEF VInv, Fresh
    <3>3. statusA'[m] = statusA[m] /\ tickA'[m] = tickA[m]
      BY <1>3, <3>1 DEF verdictA
    <3>. QED BY <1>1, <3>2, <3>3 DEF FreshA
  <2>2. ASSUME ~doneB(m)' PROVE FreshB(m)'
    <3>1. m # mB /\ ~doneB(m)
      BY <1>2, <2>2
    <3>2. FreshB(m)
      BY <1>1, <3>1 DEF VInv, Fresh
    <3>3. statusB'[m] = statusB[m] /\ tickB'[m] = tickB[m]
      BY <1>4, <3>1 DEF verdictB
    <3>. QED BY <1>1, <3>2, <3>3 DEF FreshB
  <2>. QED BY <2>1, <2>2
<1>. QED BY <1>5, <1>7, <1>8 DEF VInv

\* At a boundary every member has been stepped, and at the next tick's none.
LEMMA Boundaries ==
  /\ pos = NBanks => \A m \in Member : doneA(m) /\ doneB(m)
  /\ pos = 0 => \A m \in Member : ~doneA(m) /\ ~doneB(m)
<1>1. pos = NBanks => \A m \in Member : doneA(m) /\ doneB(m)
  <2>. SUFFICES ASSUME pos = NBanks, NEW m \in Member PROVE doneA(m) /\ doneB(m)
    OBVIOUS
  <2>1. \A k \in Member : k < pos
    BY OrderAssumption DEF Member
  <2>2. \E k \in Member : OtherOrder[k] = m
    BY OrderAssumption
  <2>. QED BY <2>1, <2>2 DEF doneA, doneB
<1>2. pos = 0 => \A m \in Member : ~doneA(m) /\ ~doneB(m)
  <2>1. \A k \in Member : ~(k < 0)
    BY OrderAssumption DEF Member
  <2>. QED BY <2>1 DEF doneA, doneB
<1>. QED BY <1>1, <1>2

LEMMA VBegin ==
  ASSUME VInv, BeginBoth
  PROVE  VInv'
<1>1. /\ heldA = heldB /\ pos' = 0
      /\ latchedA' = statusA /\ latchedB' = statusB
      /\ UNCHANGED <<pageA, statusA, causeA, tickA, seenA>>
      /\ UNCHANGED <<pageB, statusB, causeB, tickB, seenB>>
  BY DEF BeginBoth, A!BeginTick, B!BeginTick
<1>2. PICK f \in [{m \in Member : executes(m)} -> Program] :
        op' = [m \in Member |-> IF executes(m) THEN f[m] ELSE Idle]
  BY DEF BeginBoth
<1>3. op' \in [Member -> A!Op]
  <2>1. Idle \in A!Op
    BY DEF Idle, A!Op, A!PlainOp
  <2>. QED BY <1>2, <2>1, OrderAssumption
<1>4. Typed'
  BY <1>1, <1>3, OrderAssumption DEF VInv, Typed
<1>5. /\ statusB = statusA /\ causeB = causeA /\ tickB = tickA
  BY <1>1 DEF heldA, heldB
<1>6. \A m \in Member : ~doneA(m)' /\ ~doneB(m)'
  BY <1>1, OrderAssumption DEF Member, doneA, doneB
<1>7. Ahead'
  BY <1>1, <1>5, <1>6 DEF Ahead, verdictA, verdictB
<1>8. \A m \in Member : op'[m].kind # "NOP" => executes(m)
  BY <1>2 DEF Idle
<1>9. Fresh'
  BY <1>1, <1>5, <1>8 DEF Fresh, FreshA, FreshB, executes
<1>. QED BY <1>4, <1>7, <1>9 DEF VInv

LEMMA VInit == OInit => VInv
<1>. SUFFICES ASSUME OInit PROVE VInv
  OBVIOUS
<1>1. A!Machine = Member /\ B!Machine = Member
  BY DEF A!Machine, B!Machine, Member
<1>2. /\ pageA = Image /\ pageB = Image /\ pos = NBanks
      /\ statusA = [m \in Member |-> "RUNNING"] /\ statusB = statusA
      /\ causeA = [m \in Member |-> "OK"] /\ causeB = causeA
      /\ tickA = [m \in Member |-> 0] /\ tickB = tickA
      /\ seenA = [m \in Member |-> <<>>] /\ seenB = seenA
      /\ latchedA = statusA /\ latchedB = statusB
      /\ op = [m \in Member |-> Idle]
  BY <1>1 DEF OInit, A!Init, B!Init
<1>3. Idle \in A!Op
  BY DEF Idle, A!Op, A!PlainOp
<1>4. Typed
  BY <1>2, <1>3, OrderAssumption DEF Typed
<1>5. Ahead
  BY <1>2, Boundaries DEF Ahead, verdictA, verdictB
<1>. QED BY <1>2, <1>4, <1>5, OrderAssumption DEF VInv, Fresh

LEMMA VStep == VInv /\ [ONext]_ovars => VInv'
<1>. SUFFICES ASSUME VInv, [ONext]_ovars PROVE VInv'
  OBVIOUS
<1>1. CASE UNCHANGED ovars
  <2>1. UNCHANGED <<pageA, statusA, causeA, tickA, seenA, latchedA, pageB, statusB, causeB,
                    tickB, seenB, latchedB, op, pos>>
    BY <1>1 DEF ovars, heldA, heldB
  <2>2. Typed' <=> Typed
    BY <2>1 DEF Typed
  <2>3. Fresh' <=> Fresh
    BY <2>1 DEF Fresh, FreshA, FreshB, doneA, doneB
  <2>4. \A m : A!outcome(m, op[m])' = A!outcome(m, op[m])
    BY <2>1, OutcomeKept
  <2>5. Ahead'
    <3>1. ASSUME NEW m \in Member
          PROVE  /\ verdictA(m)' = verdictA(m) /\ verdictB(m)' = verdictB(m)
                 /\ doneA(m)' = doneA(m) /\ doneB(m)' = doneB(m)
      BY <2>1 DEF verdictA, verdictB, doneA, doneB
    <3>2. ASSUME NEW m \in Member
          PROVE  /\ turn(m, verdictA(m))' = turn(m, verdictA(m))
                 /\ turn(m, verdictB(m))' = turn(m, verdictB(m))
      <4>1. A!outcome(m, op[m])' = A!outcome(m, op[m])
        BY <2>4
      <4>2. /\ statusA' = statusA /\ causeA' = causeA /\ tickA' = tickA
            /\ statusB' = statusB /\ causeB' = causeB /\ tickB' = tickB /\ op' = op
        BY <2>1
      <4>. QED BY <4>1, <4>2 DEF turn, verdictA, verdictB
    <3>. QED BY <2>1, <3>1, <3>2 DEF VInv, Ahead
  <2>. QED BY <2>2, <2>3, <2>5 DEF VInv
<1>. QED BY <1>1, VBegin, VStepBoth DEF ONext

LEMMA VInvariant == OSpec => []VInv
BY VInit, VStep, PTL DEF OSpec

LEMMA VerdictsMeet ==
  ASSUME VInv, pos = NBanks
  PROVE  statusA = statusB /\ causeA = causeB /\ tickA = tickB
<1>1. \A m \in Member : verdictA(m) = verdictB(m)
  BY Boundaries DEF VInv, Ahead
<1>2. \A m \in Member : statusA[m] = statusB[m] /\ causeA[m] = causeB[m] /\ tickA[m] = tickB[m]
  BY <1>1 DEF verdictA, verdictB
<1>3. statusA = statusB
  BY <1>2 DEF VInv, Typed
<1>4. causeA = causeB
  BY <1>2 DEF VInv, Typed
<1>5. tickA = tickB
  BY <1>2 DEF VInv, Typed
<1>. QED BY <1>3, <1>4, <1>5

\* Which members stop, on what cause and in which tick is the same whichever way
\* round a group steps its members: every check reads the latch.
THEOREM VerdictsNeverDiffer == OSpec => []VerdictsAgree
<1>1. VInv => VerdictsAgree
  BY VerdictsMeet DEF VerdictsAgree, Boundary
<1>. QED BY <1>1, VInvariant, PTL

------------------------------------------------------------------------------
\* A tick in which no two members meet on a third one's page

NoMeet ==
  \A j, k \in Member : j # k => \A c \in reaches(j) \cap writes(k) : c[1] \in {j, k}

\* The cells a load brings in.
reads(m, p, a) ==
  loads(m) /\ p = op[m].mb /\ op[m].at <= a /\ a < op[m].at + op[m].len

\* Where a member's store lands once its group has stepped it; and a cell whose
\* writers neither group has stepped holds the same in both.
PagesTrack ==
  NoMeet => \A p \in Member, a \in A!Addr :
    /\ \A m \in Member : hits(m, p, a) /\ doneA(m) => pageA[p][a] = leaves(m, a)
    /\ \A m \in Member : hits(m, p, a) /\ doneB(m) => pageB[p][a] = leaves(m, a)
    /\ (\A m \in Member : hits(m, p, a) => ~doneA(m) /\ ~doneB(m))
         => pageA[p][a] = pageB[p][a]

\* What a member has loaded is still what the cells hold.
SeenTrack ==
  NoMeet => \A m \in Member :
    /\ loads(m) /\ doneA(m) => seenA[m] = A!fetched(pageA[op[m].mb], op[m])
    /\ loads(m) /\ doneB(m) => seenB[m] = A!fetched(pageB[op[m].mb], op[m])
    /\ ~loads(m) => seenA[m] = seenB[m]

TInv == VInv /\ PagesTrack /\ SeenTrack

\* A load that was let through reads cells of a page of the group, and only they
\* matter to it.
LEMMA LoadTyped ==
  ASSUME Typed, NEW m \in Member, loads(m)
  PROVE  /\ op[m].mb \in Member
         /\ \A pg \in A!Page, qg \in A!Page :
              (\A a \in A!Addr : reads(m, op[m].mb, a) => pg[a] = qg[a])
                => A!fetched(pg, op[m]) = A!fetched(qg, op[m])
<1>1. op[m] \in A!Op /\ op[m].kind = "LDM" /\ A!outcome(m, op[m]) = "OK"
  BY DEF Typed, loads, does
<1>2. op[m] \in A!LoadOp
  BY <1>1 DEF A!Op, A!LoadOp, A!StoreOp, A!OwnOp, A!PlainOp
<1>3. ~(op[m].mb >= NBanks) /\ ~(op[m].at + op[m].len > PageSize)
  BY <1>1, Zenon DEF A!outcome, A!bank_refusal
<1>4. op[m].mb \in 0 .. NBanks /\ op[m].at \in 0 .. PageSize /\ op[m].len \in {1, 2}
  BY <1>2 DEF A!LoadOp, A!Selector, A!Pointer
<1>5. op[m].at \in A!Addr /\ reads(m, op[m].mb, op[m].at)
  BY <1>3, <1>4, OrderAssumption DEF A!Addr, reads
<1>6. op[m].len # 1 => op[m].at + 1 \in A!Addr /\ reads(m, op[m].mb, op[m].at + 1)
  BY <1>3, <1>4, OrderAssumption DEF A!Addr, reads
<1>7. op[m].mb \in Member
  BY <1>3, <1>4, OrderAssumption DEF Member
<1>8. ASSUME NEW pg \in A!Page, NEW qg \in A!Page,
             \A a \in A!Addr : reads(m, op[m].mb, a) => pg[a] = qg[a]
      PROVE  A!fetched(pg, op[m]) = A!fetched(qg, op[m])
  <2>1. pg[op[m].at] = qg[op[m].at]
    BY <1>5, <1>8
  <2>2. op[m].len # 1 => pg[op[m].at + 1] = qg[op[m].at + 1]
    BY <1>6, <1>8
  <2>. QED BY <2>1, <2>2 DEF A!fetched
<1>. QED BY <1>7, <1>8

\* A member that executed something was found running, and its page was closed to
\* the others.
LEMMA Busy ==
  ASSUME NEW j \in Member, NEW k \in Member, j # k, does(j), does(k),
         op[j].kind \in {"LDM", "STM"}
  PROVE  op[j].mb # k
<1>. SUFFICES ASSUME op[j].mb = k PROVE FALSE
  OBVIOUS
<1>1. A!bank_refusal(j, k, op[j].at, op[j].len, op[j].kind = "STM") = "OK"
  BY DEF does, A!outcome
<1>2. ~A!quiescent(latchedA[k])
  BY DEF does, A!quiescent
<1>. QED BY <1>1, <1>2, Zenon DEF A!bank_refusal

\* The cell of a store through the group is one it reaches.
LEMMA HitReached ==
  ASSUME Typed, NEW k \in Member, NEW p \in Member, NEW a \in A!Addr, hits(k, p, a),
         op[k].kind = "STM"
  PROVE  p = op[k].mb /\ <<p, a>> \in writes(k) /\ <<p, a>> \in reaches(k)
<1>1. does(k) /\ p = op[k].mb /\ covers(k, a)
  BY DEF hits, stores, A!target
<1>2. op[k] \in A!StoreOp
  BY DEF Typed, A!Op, A!LoadOp, A!StoreOp, A!OwnOp, A!PlainOp
<1>3. op[k].at \in Nat /\ op[k].len \in {1, 2} /\ a \in Nat
  BY <1>2, OrderAssumption DEF A!StoreOp, A!Pointer, A!Addr
<1>4. a \in op[k].at .. op[k].at + op[k].len - 1
  BY <1>1, <1>3 DEF covers
<1>5. reaches(k) = {op[k].mb} \X (op[k].at .. op[k].at + op[k].len - 1)
  BY <1>1 DEF reaches, does
<1>. QED BY <1>1, <1>4, <1>5 DEF writes

LEMMA ReadReached ==
  ASSUME Typed, NEW j \in Member, NEW p \in Member, NEW a \in A!Addr, reads(j, p, a)
  PROVE  <<p, a>> \in reaches(j)
<1>1. does(j) /\ p = op[j].mb /\ op[j].kind = "LDM"
  BY DEF reads, loads
<1>2. op[j] \in A!LoadOp
  BY <1>1 DEF Typed, A!Op, A!LoadOp, A!StoreOp, A!OwnOp, A!PlainOp
<1>3. a \in op[j].at .. op[j].at + op[j].len - 1
  BY <1>2, OrderAssumption DEF reads, A!LoadOp, A!Pointer, A!Addr
<1>4. reaches(j) = {op[j].mb} \X (op[j].at .. op[j].at + op[j].len - 1)
  BY <1>1 DEF reaches, does
<1>. QED BY <1>1, <1>3, <1>4

\* Unless members meet, a cell one of them stores into is nobody else's this tick.
LEMMA Alone ==
  ASSUME Typed, NoMeet, NEW j \in Member, NEW k \in Member, j # k,
         NEW p \in Member, NEW a \in A!Addr, hits(k, p, a)
  PROVE  ~hits(j, p, a) /\ ~reads(j, p, a)
<1>. SUFFICES ASSUME hits(j, p, a) \/ reads(j, p, a) PROVE FALSE
  OBVIOUS
<1>1. does(j) /\ does(k)
  BY DEF hits, stores, reads, loads
<1>2. CASE op[j].kind = "ST"
  <2>1. p = j /\ op[k].kind \in {"STM", "ST"}
    BY <1>2 DEF hits, reads, loads, stores, A!target
  <2>2. op[k].kind = "STM" /\ op[k].mb = j
    BY <2>1 DEF hits, A!target
  <2>. QED BY <1>1, <2>2, Busy
<1>3. CASE op[j].kind # "ST"
  <2>1. op[j].kind \in {"LDM", "STM"} /\ p = op[j].mb
    BY <1>3 DEF hits, reads, loads, stores, A!target
  <2>2. p # k
    BY <1>1, <2>1, Busy
  <2>3. op[k].kind = "STM" /\ p = op[k].mb
    BY <2>2 DEF hits, stores, A!target
  <2>4. p # j
    BY <1>1, <2>3, Busy
  <2>5. <<p, a>> \in reaches(j)
    BY <1>3, HitReached, ReadReached DEF hits, stores
  <2>6. <<p, a>> \in writes(k)
    BY <2>3, HitReached
  <2>7. <<p, a>>[1] \in {j, k}
    BY <2>5, <2>6 DEF NoMeet
  <2>. QED BY <2>2, <2>4, <2>7
<1>. QED BY <1>2, <1>3

\* What members do, and whether they meet, is settled when the tick begins.
LEMMA Settled ==
  ASSUME latchedA' = latchedA, op' = op
  PROVE  /\ \A m, p, a : /\ hits(m, p, a)' = hits(m, p, a)
                         /\ leaves(m, a)' = leaves(m, a)
         /\ \A m : loads(m)' = loads(m)
         /\ NoMeet' <=> NoMeet
<1>1. \A m : A!outcome(m, op[m])' = A!outcome(m, op[m])
  BY OutcomeKept
<1>2. \A m : does(m)' = does(m)
  BY <1>1 DEF does
<1>3. \A m : loads(m)' = loads(m) /\ stores(m)' = stores(m)
  BY <1>2 DEF loads, stores
<1>4. \A m, p, a : hits(m, p, a)' = hits(m, p, a) /\ leaves(m, a)' = leaves(m, a)
  BY <1>3 DEF hits, leaves, covers, A!target
<1>5. \A m : reaches(m)' = reaches(m)
  BY <1>1 DEF reaches
<1>6. \A m : writes(m)' = writes(m)
  BY <1>5 DEF writes
<1>7. NoMeet' <=> NoMeet
  BY <1>5, <1>6 DEF NoMeet, Member
<1>. QED BY <1>3, <1>4, <1>7

LEMMA TStepBoth ==
  ASSUME TInv, StepBoth
  PROVE  PagesTrack' /\ SeenTrack'
<1>0. VInv /\ pos < NBanks
  BY BothStep DEF TInv
<1>. PICK mA \in Member : mA = pos
  BY <1>0, Positions DEF VInv
<1>. PICK mB \in Member : mB = OtherOrder[pos]
  BY <1>0, Positions DEF VInv
<1>1. /\ pos < NBanks /\ pos' = pos + 1 /\ op' = op
      /\ latchedA' = latchedA /\ latchedB' = latchedB
      /\ A!StepStopped(mA) \/ A!StepOverrun(mA) \/ A!Execute(mA, op[mA])
      /\ B!StepStopped(mB) \/ B!StepOverrun(mB) \/ B!Execute(mB, op[mB])
  BY <1>0, BothStep
<1>2. /\ ~doneA(mA) /\ ~doneB(mB)
      /\ \A m \in Member : /\ doneA(m)' <=> doneA(m) \/ m = mA
                           /\ doneB(m)' <=> doneB(m) \/ m = mB
  BY <1>0, <1>1, Positions DEF VInv
<1>3. /\ pageA' \in [Member -> A!Page]
      /\ \A p \in Member, a \in A!Addr :
           pageA'[p][a] = IF hits(mA, p, a) THEN leaves(mA, a) ELSE pageA[p][a]
      /\ \A n \in Member :
           seenA'[n] = IF n = mA /\ loads(mA) THEN A!fetched(pageA[op[mA].mb], op[mA])
                       ELSE seenA[n]
  BY <1>0, <1>1, EffectA
<1>4. /\ pageB' \in [Member -> A!Page]
      /\ \A p \in Member, a \in A!Addr :
           pageB'[p][a] = IF hits(mB, p, a) THEN leaves(mB, a) ELSE pageB[p][a]
      /\ \A n \in Member :
           seenB'[n] = IF n = mB /\ loads(mB) THEN A!fetched(pageB[op[mB].mb], op[mB])
                       ELSE seenB[n]
  BY <1>0, <1>1, EffectB
<1>5. /\ \A m, p, a : hits(m, p, a)' = hits(m, p, a) /\ leaves(m, a)' = leaves(m, a)
      /\ \A m : loads(m)' = loads(m)
      /\ NoMeet' <=> NoMeet
  BY <1>1, Settled
<1>6. Typed /\ pageA \in [Member -> A!Page] /\ pageB \in [Member -> A!Page]
  BY <1>0 DEF VInv, Typed
<1>7. ASSUME NoMeet, NEW p \in Member, NEW a \in A!Addr
      PROVE  /\ \A m \in Member : hits(m, p, a) /\ doneA(m)' => pageA'[p][a] = leaves(m, a)
             /\ \A m \in Member : hits(m, p, a) /\ doneB(m)' => pageB'[p][a] = leaves(m, a)
             /\ (\A m \in Member : hits(m, p, a) => ~doneA(m)' /\ ~doneB(m)')
                  => pageA'[p][a] = pageB'[p][a]
  <2>1. /\ \A m \in Member : hits(m, p, a) /\ doneA(m) => pageA[p][a] = leaves(m, a)
        /\ \A m \in Member : hits(m, p, a) /\ doneB(m) => pageB[p][a] = leaves(m, a)
        /\ (\A m \in Member : hits(m, p, a) => ~doneA(m) /\ ~doneB(m))
             => pageA[p][a] = pageB[p][a]
    BY <1>7 DEF TInv, PagesTrack
  <2>2. \A j, k \in Member : hits(j, p, a) /\ hits(k, p, a) => j = k
    BY <1>6, <1>7, Alone
  <2>3. pageA'[p][a] = IF hits(mA, p, a) THEN leaves(mA, a) ELSE pageA[p][a]
    BY <1>3
  <2>4. pageB'[p][a] = IF hits(mB, p, a) THEN leaves(mB, a) ELSE pageB[p][a]
    BY <1>4
  <2>. QED BY <1>2, <2>1, <2>2, <2>3, <2>4
<1>8. ASSUME NoMeet, NEW m \in Member
      PROVE  /\ loads(m) /\ doneA(m)' => seenA'[m] = A!fetched(pageA'[op[m].mb], op[m])
             /\ loads(m) /\ doneB(m)' => seenB'[m] = A!fetched(pageB'[op[m].mb], op[m])
             /\ ~loads(m) => seenA'[m] = seenB'[m]
  <2>1. /\ loads(m) /\ doneA(m) => seenA[m] = A!fetched(pageA[op[m].mb], op[m])
        /\ loads(m) /\ doneB(m) => seenB[m] = A!fetched(pageB[op[m].mb], op[m])
        /\ ~loads(m) => seenA[m] = seenB[m]
    BY <1>8 DEF TInv, SeenTrack
  <2>2. ASSUME loads(m)
        PROVE  /\ A!fetched(pageA'[op[m].mb], op[m]) = A!fetched(pageA[op[m].mb], op[m])
               /\ A!fetched(pageB'[op[m].mb], op[m]) = A!fetched(pageB[op[m].mb], op[m])
    <3>1. PICK q \in Member : q = op[m].mb
      BY <1>6, <2>2, LoadTyped
    <3>2. \A a \in A!Addr, k \in Member : reads(m, q, a) => ~hits(k, q, a)
      <4>1. ASSUME NEW a \in A!Addr, NEW k \in Member, reads(m, q, a), hits(k, q, a)
            PROVE  FALSE
        <5>1. CASE k = m
          BY <4>1, <5>1, <2>2 DEF hits, stores, loads
        <5>2. CASE k # m
          BY <1>6, <1>8, <4>1, <5>2, Alone
        <5>. QED BY <5>1, <5>2
      <4>. QED BY <4>1
    <3>3. \A a \in A!Addr : reads(m, q, a) => pageA'[q][a] = pageA[q][a]
      BY <1>3, <3>2
    <3>4. \A a \in A!Addr : reads(m, q, a) => pageB'[q][a] = pageB[q][a]
      BY <1>4, <3>2
    <3>5. /\ pageA'[q] \in A!Page /\ pageA[q] \in A!Page
          /\ pageB'[q] \in A!Page /\ pageB[q] \in A!Page
      BY <1>3, <1>4, <1>6
    <3>6. \A pg \in A!Page, qg \in A!Page :
            (\A a \in A!Addr : reads(m, q, a) => pg[a] = qg[a])
              => A!fetched(pg, op[m]) = A!fetched(qg, op[m])
      BY <1>6, <2>2, <3>1, LoadTyped
    <3>. QED BY <3>1, <3>3, <3>4, <3>5, <3>6
  <2>3. seenA'[m] = IF m = mA /\ loads(mA) THEN A!fetched(pageA[op[mA].mb], op[mA])
                    ELSE seenA[m]
    BY <1>3
  <2>4. seenB'[m] = IF m = mB /\ loads(mB) THEN A!fetched(pageB[op[mB].mb], op[mB])
                    ELSE seenB[m]
    BY <1>4
  <2>5. doneA(m)' <=> doneA(m) \/ m = mA
    BY <1>2
  <2>6. doneB(m)' <=> doneB(m) \/ m = mB
    BY <1>2
  <2>. QED BY <2>1, <2>2, <2>3, <2>4, <2>5, <2>6
<1>9. PagesTrack'
  <2>1. A!Addr' = A!Addr /\ Member' = Member
    BY DEF A!Addr, Member
  <2>. QED BY <1>5, <1>7, <2>1 DEF PagesTrack
<1>10. SeenTrack'
  <2>1. \A m \in Member : A!fetched(pageA[op[m].mb], op[m])' = A!fetched(pageA'[op[m].mb], op[m])
                       /\ A!fetched(pageB[op[m].mb], op[m])' = A!fetched(pageB'[op[m].mb], op[m])
    BY <1>1 DEF A!fetched
  <2>. QED BY <1>5, <1>8, <2>1 DEF SeenTrack, Member
<1>. QED BY <1>9, <1>10

\* At a boundary, and so at the start of the next tick, a group that is like the
\* other has nothing to make up.
LEMMA TBegin ==
  ASSUME VInv, BeginBoth
  PROVE  PagesTrack' /\ SeenTrack'
<1>1. /\ heldA = heldB /\ pos' = 0
      /\ UNCHANGED <<pageA, seenA>> /\ UNCHANGED <<pageB, seenB>>
  BY DEF BeginBoth, A!BeginTick, B!BeginTick
<1>2. pageA' = pageB' /\ seenA' = seenB'
  BY <1>1 DEF heldA, heldB
<1>3. \A m \in Member : ~doneA(m)' /\ ~doneB(m)'
  BY <1>1, OrderAssumption DEF Member, doneA, doneB
<1>4. PagesTrack'
  BY <1>2, <1>3 DEF PagesTrack
<1>. QED BY <1>2, <1>3, <1>4 DEF SeenTrack

LEMMA TInit == OInit => PagesTrack /\ SeenTrack
<1>. SUFFICES ASSUME OInit PROVE PagesTrack /\ SeenTrack
  OBVIOUS
<1>1. /\ pageA = pageB /\ seenA = seenB /\ op = [m \in Member |-> Idle]
  BY DEF OInit, A!Init, B!Init, A!Machine, B!Machine
<1>2. \A m \in Member : ~loads(m) /\ ~stores(m)
  BY <1>1 DEF loads, stores, Idle
<1>3. \A m \in Member : \A p, a : ~hits(m, p, a)
  BY <1>2 DEF hits
<1>. QED BY <1>1, <1>2, <1>3 DEF PagesTrack, SeenTrack

LEMMA TStep == TInv /\ [ONext]_ovars => TInv'
<1>. SUFFICES ASSUME TInv, [ONext]_ovars PROVE TInv'
  OBVIOUS
<1>1. VInv'
  BY VStep DEF TInv
<1>2. CASE UNCHANGED ovars
  <2>1. /\ UNCHANGED <<pageA, seenA, latchedA, pageB, seenB, op, pos>>
    BY <1>2 DEF ovars, heldA, heldB
  <2>2. /\ \A m, p, a : hits(m, p, a)' = hits(m, p, a) /\ leaves(m, a)' = leaves(m, a)
        /\ \A m : loads(m)' = loads(m)
        /\ NoMeet' <=> NoMeet
    BY <2>1, Settled
  <2>3. \A m : doneA(m)' = doneA(m) /\ doneB(m)' = doneB(m)
    BY <2>1 DEF doneA, doneB
  <2>4. PagesTrack'
    BY <2>1, <2>2, <2>3 DEF TInv, PagesTrack, A!Addr, Member
  <2>5. SeenTrack'
    BY <2>1, <2>2, <2>3 DEF TInv, SeenTrack, A!fetched, Member
  <2>. QED BY <1>1, <2>4, <2>5 DEF TInv
<1>3. CASE BeginBoth
  BY <1>1, <1>3, TBegin DEF TInv
<1>4. CASE StepBoth
  BY <1>1, <1>4, TStepBoth DEF TInv
<1>. QED BY <1>2, <1>3, <1>4 DEF ONext

LEMMA TInvariant == OSpec => []TInv
<1>1. OInit => TInv
  BY VInit, TInit DEF TInv
<1>. QED BY <1>1, TStep, PTL DEF OSpec

\* If nobody met, the two groups end the tick alike.
LEMMA AlikeUnlessMet ==
  ASSUME TInv, Boundary, NoMeet
  PROVE  heldA = heldB
<1>1. VInv /\ Typed /\ Ahead /\ \A m \in Member : doneA(m) /\ doneB(m)
  BY Boundaries DEF TInv, VInv, Boundary
<1>2. statusA = statusB /\ causeA = causeB /\ tickA = tickB
  BY <1>1, VerdictsMeet DEF Boundary
<1>3. ASSUME NEW p \in Member, NEW a \in A!Addr
      PROVE  pageA[p][a] = pageB[p][a]
  <2>1. /\ \A m \in Member : hits(m, p, a) /\ doneA(m) => pageA[p][a] = leaves(m, a)
        /\ \A m \in Member : hits(m, p, a) /\ doneB(m) => pageB[p][a] = leaves(m, a)
        /\ (\A m \in Member : hits(m, p, a) => ~doneA(m) /\ ~doneB(m))
             => pageA[p][a] = pageB[p][a]
    BY DEF TInv, PagesTrack
  <2>. QED BY <1>1, <2>1
<1>4. pageA = pageB
  <2>1. pageA \in [Member -> A!Page] /\ pageB \in [Member -> A!Page]
    BY <1>1 DEF Typed
  <2>2. \A p \in Member : pageA[p] = pageB[p]
    BY <1>3, <2>1 DEF A!Page
  <2>. QED BY <2>1, <2>2
<1>5. \A m \in Member : seenA[m] = seenB[m]
  BY <1>1, <1>4 DEF TInv, SeenTrack
<1>6. seenA = seenB
  BY <1>1, <1>5 DEF Typed
<1>. QED BY <1>1, <1>2, <1>4, <1>6 DEF heldA, heldB, Ahead

\* Where the two groups end a tick with different pages or registers, two members
\* met on a cell of a third one's quiet page, and one of them was storing.
THEOREM OrderShowsOnlyAtMeetings == OSpec => []OnlyMeetingsShow
<1>1. TInv => OnlyMeetingsShow
  BY AlikeUnlessMet DEF OnlyMeetingsShow, NoMeet
<1>. QED BY <1>1, TInvariant, PTL
=============================================================================
