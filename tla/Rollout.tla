------------------------------ MODULE Rollout ------------------------------
(***************************************************************************)
(* What a debugging session promises of the machine it watches: however it *)
(* is stepped, stopped, checkpointed, resumed or carried to another path,  *)
(* every state it visits is one the machine reaches from its boot, one     *)
(* tick at a time.                                                         *)
(***************************************************************************)
CONSTANTS Boots,      \* the machines a run may start from
          Exec(_)     \* one tick: the machine after it, in field m

VARIABLE seen         \* the machines visited so far

Init == \E b \in Boots : seen = {b}

Next == \E x \in seen : seen' = seen \cup {Exec(x).m}

Spec == Init /\ [][Next]_seen
=============================================================================
