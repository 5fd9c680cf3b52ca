------------------------------ MODULE MCCircuit ------------------------------
(***************************************************************************)
(* MCMachine's instance, its instructions split by the prefix byte: EXT,   *)
(* TRAPRET, STC, LDC, the moves of SP and the word pushes, pops and stores *)
(* are escapes, and one more escape is not assigned.                       *)
(***************************************************************************)
EXTENDS Circuit, MCMachine

EscapedBad == [kind |-> "BAD", len |-> 2]

CProgram == MCProgram \cup {EscapedBad}

CEscaped ==
  {op \in CProgram : op.kind \in {"EXT", "TRAPRET", "STC", "LDC", "SETSP"}}
    \cup {op \in CProgram : op.len = 2 /\ op.kind \in {"PUSH", "POP", "ST"}}
    \cup {EscapedBad}
=============================================================================
