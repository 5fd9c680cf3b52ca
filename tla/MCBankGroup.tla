---------------------------- MODULE MCBankGroup ----------------------------
(***************************************************************************)
(* Small instances of BankGroup for TLC: three machines, because the       *)
(* interesting page is the one two others meet on, and pages of two cells, *)
(* because a word store is the smallest that can be torn.                  *)
(***************************************************************************)
EXTENDS BankGroup, TLC

MCByte == {0, 1}
Blank  == [a \in Addr |-> 0]

MCImage     == [m \in Machine |-> Blank]
MCSnapshots == {[a \in Addr |-> 1]}
IndexOrder  == [k \in Machine |-> k]

\* The last machine protects its upper cell, so a word store straddles the edge.
MCRegions == [m \in Machine |-> IF m = NBanks - 1 THEN {<<1, 2>>} ELSE {}]

\* Two ticks for the first machine, so that a tick comes after the one in which
\* the others run out of their single tick.
MCTickBudget == [m \in Machine |-> IF m = 0 THEN 2 ELSE 1]

\* Every verdict of a bank access and of an own-page store is reachable with
\* these: every selector, a word that runs off the page and one that fits; the
\* bytes stored are ones, which tell a written cell from a blank one.
MCProgram ==
  PlainOp
    \cup {op \in LoadOp : op.mb < NBanks /\ op.at = 0 /\ op.len = 2}
    \cup {op \in StoreOp : op.at < PageSize /\ op.lo = 1 /\ op.hi = 1}
    \cup {op \in OwnOp : op.at < PageSize /\ op.len = 2 /\ op.lo = 1 /\ op.hi = 1}
=============================================================================
