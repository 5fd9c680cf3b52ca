----------------------------- MODULE MCSession -----------------------------
(***************************************************************************)
(* Programs of a few one-cell instructions in an image of four cells, two  *)
(* bytes of DATA and one declared vector: one that reads, emits and runs   *)
(* off its end; one that boots at its entry, rewrites its own code and     *)
(* faults, its length declared; one that loops over a store of a word into *)
(* its vector and beside it until its budget is spent, which is above a    *)
(* cell of the circuits.                                                   *)
(***************************************************************************)
EXTENDS Session, TLC

MCWidth == [f \in STATE_FIELDS |-> CASE f = "r" -> 1 [] f = "TDEPTH" -> 1
                                     [] f = "status" -> 3 [] f \in {"ipos", "tick"} -> None
                                     [] f = "STC_COUNT" -> 2 * INT32_MAX + 1
                                     [] OTHER -> INT32_MAX]
MCVecSeed == <<1>>

\* A circuit stores the scalars in one of two orders: the batch and the circuit of the
\* kernel in the same one.
MCPaths == {"NCP8", "TorchCircuit", "TritonBatch"}

Fault(x, cause) ==
  [m |-> [x EXCEPT !.st.status = ERROR, !.st.fault_reason = cause,
                   !.st.fault_addr = x.st.PC],
   raised |-> TRUE, writes |-> {}]

Done(x, writes) == [m |-> [x EXCEPT !.st.tick = @ + 1], raised |-> FALSE, writes |-> writes]
At(x) == x.st.PC + 1

MCExec(x) ==
  IF x.st.status # RUNNING THEN [m |-> x, raised |-> FALSE, writes |-> {}]
  ELSE IF x.st.tick >= x.block.tickbudget
  THEN [m |-> [x EXCEPT !.st.status = OVERRUN], raised |-> FALSE, writes |-> {}]
  ELSE IF x.st.PC >= x.block.codelen THEN Fault(x, 2)
  ELSE CASE x.code[At(x)] = "NOP"  -> Done([x EXCEPT !.st.PC = @ + 1], {})
         [] x.code[At(x)] = "JMP"  -> Done([x EXCEPT !.st.PC = 0], {})
         [] x.code[At(x)] = "HALT" -> Done([x EXCEPT !.st.status = 1], {})
         [] x.code[At(x)] = "IN"   ->
              Done([x EXCEPT !.st.PC = @ + 1, !.st.ipos = IF @ < Len(x.inputs) THEN @ + 1 ELSE @,
                             !.st.r = IF x.st.ipos < Len(x.inputs)
                                      THEN x.inputs[x.st.ipos + 1] ELSE 0], {})
         [] x.code[At(x)] = "OUT"  ->
              IF Len(x.out) >= x.block.outcap THEN Fault(x, 3)
              ELSE Done([x EXCEPT !.st.PC = @ + 1, !.out = Append(@, x.st.r)], {})
         [] x.code[At(x)] = "STW"  ->
              Done([x EXCEPT !.st.PC = @ + 1, !.data = [i \in DOMAIN @ |-> 1 - @[i]]], DataAddrs)
         [] x.code[At(x)] = "STC"  ->
              Done([x EXCEPT !.st.PC = @ + 1, !.st.STC_COUNT = @ + 1, !.code[1] = "NOP"], {})
         [] OTHER                  -> Fault(x, 1)

cfgOf(codelen, entry, vtab, budget) ==
  [codelen |-> codelen, entry |-> entry, vtab |-> vtab, tickbudget |-> budget, outcap |-> None]

start(code, dat, inputs, PC, c) ==
  [code |-> code, dat |-> dat, inputs |-> inputs, tick_budget |-> TICK_BUDGET_DEFAULT,
   PC |-> PC, cfg |-> c]

MCStarts ==
  {start(<<"IN", "OUT">>, <<0>>, <<1>>, 0, cfgOf(None, None, None, None)),
   start(<<"HALT", "STC", "BAD">>, <<>>, <<>>, 0, cfgOf(3, 1, 1, None)),
   start(<<"STW", "JMP">>, <<0, 1>>, <<>>, 1, cfgOf(None, None, 0, INT32_MAX + 1))}

\* An image that fills CODE: its last instruction runs off the end.
MCEdgeStarts ==
  {start([i \in 1 .. CODE_SIZE |-> "NOP"], <<>>, <<>>, CODE_SIZE - 2, cfgOf(None, None, None, None))}

\* Every machine a run from one of the starts reaches within its budget.
reach(starts) ==
  LET f[k \in 0 .. INT32_MAX + 3] ==
        IF k = 0 THEN {started(s) : s \in starts}
        ELSE LET g == f[k - 1] IN g \cup {MCExec(x).m : x \in g}
  IN  f[INT32_MAX + 3]

MCMachines     == reach(MCStarts)
MCEdgeMachines == reach(MCEdgeStarts)
=============================================================================
