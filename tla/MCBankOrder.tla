----------------------------- MODULE MCBankOrder -----------------------------
(***************************************************************************)
(* Three machines: the last one's budget is spent at once, so that its     *)
(* page is quiet in the second group tick and the other two may meet on it.*)
(***************************************************************************)
EXTENDS BankOrder, TLC

MCByte       == {0, 1}
MCImage      == [m \in Member |-> [a \in 0 .. PageSize - 1 |-> 0]]
MCOtherOrder == [k \in Member |-> NBanks - 1 - k]
MCRegions    == [m \in Member |-> {}]
MCTickBudget == [m \in Member |-> IF m = NBanks - 1 THEN 0 ELSE 2]

\* A word load of every page, a store of a one into every cell, an own-page
\* store, and the instructions that stop a machine.
MCProgram ==
  [kind : {"NOP", "HALT", "FAULT"}]
    \cup [kind : {"LDM"}, mb : 0 .. NBanks, at : {0}, len : {2}]
    \cup [kind : {"STM"}, mb : 0 .. NBanks, at : 0 .. PageSize - 1, len : {1}, lo : {1}, hi : {1}]
    \cup [kind : {"ST"}, at : {0}, len : {2}, lo : {1}, hi : {1}]
=============================================================================
