------------------------------ MODULE BankOrder ------------------------------
(***************************************************************************)
(* What of a bank group depends on the order its driver steps the members  *)
(* in.  Two groups that hold the same state take one group tick over the   *)
(* same instructions, one in the order of src/banks.py BankGroup.step, the *)
(* other in OtherOrder, and are compared at the next boundary.  As long as *)
(* they are found alike they go on to another tick; where they differ the  *)
(* comparison stops, since their programs may then part ways.              *)
(***************************************************************************)
EXTENDS Integers

CONSTANTS NBanks, PageSize, Byte, TickBudget, Regions, Image, Program,
          OtherOrder,    \* the order of the group that is not stepped by index
          MaxGroupTicks

VARIABLES
  pageA, statusA, causeA, tickA, seenA, latchedA,   \* the group stepped in index order
  pageB, statusB, causeB, tickB, seenB, latchedB,   \* the one stepped in OtherOrder
  op,            \* the instruction each member executes in this group tick
  pos, gtick     \* the drivers' position and tick count, in step

heldA == <<pageA, statusA, causeA, tickA, seenA, latchedA>>
heldB == <<pageB, statusB, causeB, tickB, seenB, latchedB>>
ovars == <<heldA, heldB, op, pos, gtick>>

Member == 0 .. NBanks - 1

A == INSTANCE BankGroup
  WITH Order <- [k \in Member |-> k], Snapshots <- {}, MaxInstalls <- 0,
       installs <- 0, page <- pageA, status <- statusA, cause <- causeA,
       tick <- tickA, seen <- seenA, latched <- latchedA

B == INSTANCE BankGroup
  WITH Order <- OtherOrder, Snapshots <- {},
       MaxInstalls <- 0, installs <- 0, page <- pageB, status <- statusB,
       cause <- causeB, tick <- tickB, seen <- seenB, latched <- latchedB

\* The part of BankGroup's assumption that the comparison rests on.
ASSUME OrderAssumption ==
  /\ NBanks \in Nat \ {0} /\ PageSize \in Nat \ {0}
  /\ TickBudget \in [Member -> Nat]
  /\ Image \in [Member -> A!Page]
  /\ Program \subseteq A!Op
  /\ OtherOrder \in [Member -> Member]
  /\ \A m \in Member : \E k \in Member : OtherOrder[k] = m
  /\ \A j, k \in Member : OtherOrder[j] = OtherOrder[k] => j = k

Idle == [kind |-> "NOP"]

OInit ==
  /\ A!Init
  /\ B!Init
  /\ op = [m \in Member |-> Idle]

executes(m) == statusA[m] = "RUNNING" /\ tickA[m] < TickBudget[m]

\* Both drivers latch the statuses; the members that will execute something
\* this tick are each given an instruction, the same in both groups.
BeginBoth ==
  /\ heldA = heldB
  /\ A!BeginTick
  /\ B!BeginTick
  /\ \E f \in [{m \in Member : executes(m)} -> Program] :
       op' = [m \in Member |-> IF executes(m) THEN f[m] ELSE Idle]

\* Each driver steps its next member, which executes the instruction given it.
StepBoth ==
  /\ \E m \in Member :
       A!StepStopped(m) \/ A!StepOverrun(m) \/ A!Execute(m, op[m])
  /\ \E m \in Member :
       B!StepStopped(m) \/ B!StepOverrun(m) \/ B!Execute(m, op[m])
  /\ UNCHANGED op

ONext == BeginBoth \/ StepBoth

OSpec == OInit /\ [][ONext]_ovars

------------------------------------------------------------------------------
Boundary == pos = NBanks

\* The cells member m's instruction reads or writes in this tick, as pairs of a
\* page and an address; none if it executes nothing or is refused.
reaches(m) ==
  IF /\ latchedA[m] = "RUNNING" /\ op[m].kind \in {"LDM", "STM"}
     /\ A!outcome(m, op[m]) = "OK"
  THEN {op[m].mb} \X (op[m].at .. op[m].at + op[m].len - 1)
  ELSE {}

writes(m) == IF op[m].kind = "STM" THEN reaches(m) ELSE {}

\* Which members stop, on what cause, and which ticks count, is the same
\* whatever the order: every check reads the latch and not the neighbours.
VerdictsAgree ==
  Boundary => statusA = statusB /\ causeA = causeB /\ tickA = tickB

\* Where the two groups do differ, two members met on a cell of a third one's
\* quiet page, and one of them was storing: nothing else shows the order.
OnlyMeetingsShow ==
  Boundary /\ heldA # heldB =>
    \E j, k \in Member : \E c \in reaches(j) \cap writes(k) :
      j # k /\ c[1] \notin {j, k}

\* What banks.py says of a group and ISA.md section 4.8 repeats: a cross-page
\* access depends on the machine rather than on the order the driver stepped
\* them.
OrderInvisible == Boundary => heldA = heldB
=============================================================================
