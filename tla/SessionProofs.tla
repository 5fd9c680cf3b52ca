---------------------------- MODULE SessionProofs ----------------------------
(***************************************************************************)
(* What a session keeps for every program and every set of machines: what  *)
(* is published is taken, what is refused changes nothing, frames chain, a *)
(* run passes nothing, and nothing is visited off the machine's own run.   *)
(***************************************************************************)
EXTENDS Session, SequenceTheorems, WellFoundedInduction, TLAPS

------------------------------------------------------------------------------
\* Records

\* A block survives being carried as a dict.
LEMMA BlockCarried ==
  ASSUME NEW x \in Machines
  PROVE  from_dict(as_dict(x.block)) = x.block
<1>. DEFINE b == x.block
<1>1. b = [n \in CONFIG_FIELDS |-> b[n]]
  BY MachinesAssumption
<1>2. as_dict(b) = [n \in {n \in CONFIG_FIELDS : b[n] # None} |-> b[n]]
  BY Zenon DEF as_dict
<1>3. \A n \in CONFIG_FIELDS :
        (IF n \in DOMAIN as_dict(b) THEN as_dict(b)[n] ELSE None) = b[n]
  BY <1>2, SMT
<1>4. from_dict(as_dict(b)) = [n \in CONFIG_FIELDS |-> b[n]]
  BY <1>3, SMT DEF from_dict
<1>. QED BY <1>1, <1>4

\* A path stores every scalar exactly if each fits its cell, in whatever order it
\* stores them; the reference has no cells.
LEMMA StoresAll ==
  ASSUME NEW p, NEW st, \A f \in STATE_FIELDS : st[f] \in Int
  PROVE  stored(p, st) = STATE_FIELDS
           <=> p = "NCP8" \/ \A f \in STATE_FIELDS : st[f] <= INT32_MAX
<1>. DEFINE wo == write_order(p)
<1>1. DOMAIN wo = 1 .. 9 /\ (\A i \in 1 .. 9 : wo[i] \in STATE_FIELDS)
  BY SMT DEF write_order, STATE_FIELDS
<1>2. \A f \in STATE_FIELDS : \E i \in 1 .. 9 : wo[i] = f
  <2>1. CASE p = "TorchCircuit"
    BY <2>1, SMT DEF write_order, STATE_FIELDS
  <2>2. CASE p # "TorchCircuit"
    BY <2>2, SMT DEF write_order, STATE_FIELDS
  <2>. QED BY <2>1, <2>2
<1>. HIDE DEF wo
<1>3. stored(p, st) = {wo[i] : i \in {i \in DOMAIN wo : \A j \in 1 .. i : fits(p, st, j)}}
  BY Zenon DEF stored, wo
<1>4. \A i \in 1 .. 9 : fits(p, st, i) <=> p = "NCP8" \/ st[wo[i]] <= INT32_MAX
  BY Zenon DEF fits, wo
<1>5. ASSUME p = "NCP8" \/ \A f \in STATE_FIELDS : st[f] <= INT32_MAX
      PROVE  stored(p, st) = STATE_FIELDS
  <2>1. \A i \in 1 .. 9 : fits(p, st, i)
    BY <1>1, <1>4, <1>5
  <2>2. {i \in DOMAIN wo : \A j \in 1 .. i : fits(p, st, j)} = 1 .. 9
    BY <1>1, <2>1, SMT
  <2>. QED BY <1>1, <1>2, <1>3, <2>2, SMT
<1>6. ASSUME stored(p, st) = STATE_FIELDS, NEW f \in STATE_FIELDS
      PROVE  p = "NCP8" \/ st[f] <= INT32_MAX
  <2>1. PICK i \in DOMAIN wo : wo[i] = f /\ \A j \in 1 .. i : fits(p, st, j)
    BY <1>3, <1>6
  <2>2. fits(p, st, i)
    BY <1>1, <2>1
  <2>. QED BY <1>1, <1>4, <2>1, <2>2
<1>. QED BY <1>5, <1>6

\* A path holds a machine if it is the reference or has a cell for the budget.
Holds(p, x) == p # "NCP8" => x.block.tickbudget <= INT32_MAX

LEMMA AllStored ==
  ASSUME NEW p, NEW x \in Machines, Holds(p, x)
  PROVE  stored(p, x.st) = STATE_FIELDS
<1>1. \A f \in STATE_FIELDS : x.st[f] \in Nat
  BY MachinesAssumption, Zenon
<1>2. p = "NCP8" \/ \A f \in STATE_FIELDS : x.st[f] <= INT32_MAX
  BY MachinesAssumption DEF Holds
<1>3. \A f \in STATE_FIELDS : x.st[f] \in Int
  BY <1>1
<1>. QED BY <1>2, <1>3, StoresAll

\* A record from anywhere meets one contract on all four paths.  What the reference
\* refuses every path refuses and leaves its machine alone; what it takes a
\* circuit path takes too, and comes to the same machine, exactly if every scalar
\* fits a 32-bit cell; otherwise it refuses it with half of it stored.
THEOREM OneContract ==
  ASSUME NEW p, NEW x, NEW r, \A f \in STATE_FIELDS : r.st[f] \in Int
  PROVE  LET ref == install_state("NCP8", x, r)
             got == install_state(p, x, r)
             fit == \A f \in STATE_FIELDS : r.st[f] <= INT32_MAX
         IN /\ ref.answer = "refused" => ref.m = x /\ got = ref
            /\ ref.answer = "ok" /\ (p = "NCP8" \/ fit) => got = ref
            /\ ref.answer = "ok" /\ p # "NCP8" /\ ~fit =>
                 got = [m |-> half(p, x, r), answer |-> "refused"]
<1>. DEFINE bad == ~check_record(r, x) \/ state_error(r.st)
            fit == \A f \in STATE_FIELDS : r.st[f] <= INT32_MAX
<1>1. stored("NCP8", r.st) = STATE_FIELDS
  BY StoresAll
<1>2. stored(p, r.st) = STATE_FIELDS <=> p = "NCP8" \/ fit
  BY StoresAll
<1>. DEFINE no == [m |-> x, answer |-> "refused"]
            yes == [m |-> whole(x, r), answer |-> "ok"]
            part == [m |-> half(p, x, r), answer |-> "refused"]
<1>3. install_state("NCP8", x, r) = IF bad THEN no ELSE yes
  BY <1>1, Zenon DEF install_state
<1>4. install_state(p, x, r) = IF bad THEN no ELSE IF p = "NCP8" \/ fit THEN yes ELSE part
  BY <1>2, Zenon DEF install_state
<1>5. /\ no.answer = "refused" /\ no.m = x /\ yes.answer = "ok" /\ part.answer = "refused"
  OBVIOUS
<1>. HIDE DEF bad, fit, no, yes, part
<1>6. "ok" # "refused"
  OBVIOUS
<1>. QED BY <1>3, <1>4, <1>5, <1>6 DEF fit, no, part

\* What a machine of the program publishes is taken by every machine with its
\* configuration and its stream, and makes it the same machine.
LEMMA Taken ==
  ASSUME NEW p, NEW x \in Machines, Holds(p, x),
         NEW y, y.block = x.block, y.inputs = x.inputs
  PROVE  install_state(p, y, record_of(x)) = [m |-> x, answer |-> "ok"]
<1>. DEFINE r == record_of(x)
<1>1. check_record(r, y)
  <2>1. check_record(r, x)
    BY MachinesAssumption
  <2>. HIDE DEF r
  <2>. QED BY <2>1 DEF check_record
<1>2. r.st = x.st /\ r.CODE = x.code /\ r.DATA = x.data /\ r.out = x.out
  BY DEF record_of
<1>3. ~state_error(r.st) /\ stored(p, r.st) = STATE_FIELDS
  BY <1>2, MachinesAssumption, AllStored
<1>4. whole(y, r) = x
  <2>1. x = [st |-> x.st, code |-> x.code, data |-> x.data, out |-> x.out,
             inputs |-> x.inputs, block |-> x.block]
    BY MachinesAssumption
  <2>. HIDE DEF r
  <2>2. whole(y, r) = [st |-> r.st, code |-> r.CODE, data |-> r.DATA, out |-> r.out,
                       inputs |-> y.inputs, block |-> y.block]
    BY DEF whole
  <2>. QED BY <1>2, <2>1, <2>2, Zenon
<1>. HIDE DEF r
<1>. QED BY <1>1, <1>3, <1>4, Zenon DEF install_state, r

LEMMA FunctionIsSeq ==
  ASSUME NEW S, NEW n \in Nat, NEW f \in [1 .. n -> S]
  PROVE  f \in Seq(S) /\ Len(f) = n
BY LenProperties, SMT

LEMMA ImageIsSeq ==
  ASSUME NEW n \in Nat, NEW f, f = [i \in 1 .. n |-> f[i]]
  PROVE  f \in Seq({f[i] : i \in 1 .. n}) /\ Len(f) = n
<1>. DEFINE S == {f[i] : i \in 1 .. n}
<1>1. f \in [1 .. n -> S]
  BY Zenon
<1>. HIDE DEF S
<1>. QED BY <1>1, FunctionIsSeq

\* A spoiled record is refused and nothing of it is stored.
LEMMA SpoiledRefused ==
  ASSUME NEW p, NEW x \in Machines, NEW y, y.block = x.block, y.inputs = x.inputs,
         NEW s \in spoiled(record_of(x))
  PROVE  install_state(p, y, s) = [m |-> y, answer |-> "refused"]
<1>. DEFINE r == record_of(x)
<1>0. /\ CODE_SIZE \in Nat \ {0} /\ OUT_CAP \in Nat \ {0}
      /\ None \notin Int /\ Width["TDEPTH"] \in Nat
  BY RecordAssumption, SessionAssumption
<1>. USE <1>0
<1>1. /\ r = [st |-> x.st, CODE |-> x.code, DATA |-> x.data, out |-> x.out,
              inputs |-> x.inputs, block |-> as_dict(x.block)]
      /\ x.st = [f \in STATE_FIELDS |-> x.st[f]]
      /\ x.inputs \in Seq(Nat) /\ x.out \in Seq(Nat)
      /\ x.code = [i \in 1 .. CODE_SIZE |-> x.code[i]]
      /\ y.block.outcap \in Nat /\ y.block.outcap <= OUT_CAP
      /\ y.block.entry \in Nat
  BY MachinesAssumption DEF record_of, CONFIG_FIELDS
<1>. HIDE DEF r
<1>2. SUFFICES ~check_record(s, y) \/ state_error(s.st)
  BY <1>2, Zenon DEF install_state
<1>3. CASE s = [c \in DOMAIN r \ {"DATA"} |-> r[c]]
  <2>1. "DATA" \notin DOMAIN s
    BY <1>3, SMT
  <2>. QED BY <2>1 DEF check_record, RECORD_COMPONENTS
<1>4. CASE s = [r EXCEPT !.CODE = Tail(@)]
  <2>1. s.CODE = Tail(x.code)
    BY <1>1, <1>4
  <2>2. x.code \in Seq({x.code[i] : i \in 1 .. CODE_SIZE}) /\ Len(x.code) = CODE_SIZE
    BY <1>1, ImageIsSeq
  <2>3. Len(s.CODE) = CODE_SIZE - 1
    BY <2>1, <2>2, SMT
  <2>. QED BY <2>3, SMT DEF check_record
<1>5. CASE s = [r EXCEPT !.out = ljust(@, OUT_CAP + 1, 0)]
  <2>1. s.out = ljust(x.out, OUT_CAP + 1, 0)
    BY <1>1, <1>5
  <2>2. s.out = [i \in 1 .. OUT_CAP + 1 |-> IF i <= Len(x.out) THEN x.out[i] ELSE 0]
    BY <2>1 DEF ljust
  <2>3. s.out \in Seq({s.out[i] : i \in 1 .. OUT_CAP + 1}) /\ Len(s.out) = OUT_CAP + 1
    BY <2>2, SMT
  <2>. QED BY <1>1, <2>3, SMT DEF check_record
<1>6. CASE s = [r EXCEPT !.inputs = Append(@, 0)]
  <2>1. s.inputs = Append(x.inputs, 0)
    BY <1>1, <1>6
  <2>2. Len(s.inputs) = Len(x.inputs) + 1 /\ Len(x.inputs) \in Nat
    BY <1>1, <2>1, SMT
  <2>3. s.inputs # y.inputs
    BY <2>2, SMT
  <2>. QED BY <2>3 DEF check_record
<1>7. CASE s = [r EXCEPT !.st.ipos = Len(r.inputs) + 1]
  <2>1. s.st.ipos = Len(r.inputs) + 1 /\ s.inputs = r.inputs
    <3>1. s.st = [r.st EXCEPT !.ipos = Len(r.inputs) + 1] /\ s.inputs = r.inputs
      BY <1>1, <1>7, Zenon
    <3>. QED BY <1>1, <3>1, "ipos" \in STATE_FIELDS, Zenon DEF STATE_FIELDS
  <2>2. Len(r.inputs) \in Nat
    BY <1>1, SMT
  <2>. QED BY <2>1, <2>2, SMT DEF check_record
<1>8. CASE s = [r EXCEPT !.block = [n \in DOMAIN @ \ {"entry"} |-> r.block[n]]]
  <2>1. "entry" \notin DOMAIN s.block
    <3>1. s.block = [n \in DOMAIN r.block \ {"entry"} |-> r.block[n]]
      BY <1>1, <1>8, Zenon
    <3>. QED BY <3>1, SMT
  <2>2. from_dict(s.block).entry = None
    BY <2>1 DEF from_dict, CONFIG_FIELDS
  <2>. QED BY <1>1, <2>2 DEF check_record
<1>9. CASE s = [r EXCEPT !.st.TDEPTH = Width["TDEPTH"] + 1]
  <2>1. s.st.TDEPTH = Width["TDEPTH"] + 1
    <3>1. s.st = [r.st EXCEPT !.TDEPTH = Width["TDEPTH"] + 1]
      BY <1>1, <1>9, Zenon
    <3>. QED BY <1>1, <3>1, "TDEPTH" \in STATE_FIELDS, Zenon DEF STATE_FIELDS
  <2>2. Width["TDEPTH"] # None
    OBVIOUS
  <2>3. "TDEPTH" \in STATE_FIELDS
    BY DEF STATE_FIELDS
  <2>. QED BY <2>1, <2>2, <2>3, SMT DEF state_error
<1>10. CASE s = [r EXCEPT !.st = [@ EXCEPT !.status = ERROR, !.fault_reason = 0]]
  <2>1. s.st.status = ERROR /\ s.st.fault_reason = 0
    <3>1. s.st = [r.st EXCEPT !.status = ERROR, !.fault_reason = 0]
      BY <1>1, <1>10, Zenon
    <3>2. DOMAIN r.st = STATE_FIELDS
      BY <1>1
    <3>. QED BY <3>1, <3>2, SMT DEF STATE_FIELDS
  <2>. QED BY <2>1 DEF state_error
<1>11. CASE s = [r EXCEPT !.st = [@ EXCEPT !.status = RUNNING, !.fault_reason = 1]]
  <2>1. s.st.status = RUNNING /\ s.st.fault_reason = 1
    <3>1. s.st = [r.st EXCEPT !.status = RUNNING, !.fault_reason = 1]
      BY <1>1, <1>11, Zenon
    <3>2. DOMAIN r.st = STATE_FIELDS
      BY <1>1
    <3>. QED BY <3>1, <3>2, SMT DEF STATE_FIELDS
  <2>. QED BY <2>1 DEF state_error, RUNNING, ERROR
<1>. QED BY <1>3, <1>4, <1>5, <1>6, <1>7, <1>8, <1>9, <1>10, <1>11, Zenon DEF spoiled, r

\* A record with a scalar above a cell breaks no rule of the contract.
LEMMA WideInContract ==
  ASSUME NEW x \in Machines, NEW y, y.block = x.block, y.inputs = x.inputs,
         NEW s \in wide(record_of(x))
  PROVE  /\ check_record(s, y) /\ ~state_error(s.st)
         /\ \A f \in STATE_FIELDS : s.st[f] \in Int
         /\ \E f \in STATE_FIELDS : s.st[f] > INT32_MAX
         /\ s.st["r"] = x.st["r"] /\ s.st["PC"] = x.st["PC"]
<1>. DEFINE r == record_of(x)
<1>1. /\ r = [st |-> x.st, CODE |-> x.code, DATA |-> x.data, out |-> x.out,
              inputs |-> x.inputs, block |-> as_dict(x.block)]
      /\ x.st = [f \in STATE_FIELDS |-> x.st[f]]
      /\ \A f \in STATE_FIELDS : x.st[f] \in Nat
      /\ ~state_error(x.st) /\ check_record(r, x)
  BY MachinesAssumption DEF record_of
<1>. HIDE DEF r
<1>2. PICK w \in Wide : s = [r EXCEPT !.st = [@ EXCEPT ![w] = INT32_MAX + 1]]
  BY DEF wide, r
<1>3. w \in {"tick", "STC_COUNT"} /\ w \in STATE_FIELDS
  BY SessionAssumption, SMT DEF STATE_FIELDS
<1>4. s = [st |-> [x.st EXCEPT ![w] = INT32_MAX + 1], CODE |-> r.CODE, DATA |-> r.DATA,
           out |-> r.out, inputs |-> r.inputs, block |-> r.block]
  BY <1>1, <1>2
<1>5. s.st[w] = INT32_MAX + 1 /\ \A f \in STATE_FIELDS \ {w} : s.st[f] = x.st[f]
  <2>1. s.st = [x.st EXCEPT ![w] = INT32_MAX + 1]
    BY <1>4
  <2>. QED BY <1>1, <1>3, <2>1, Zenon
<1>6. INT32_MAX \in Nat /\ (Width[w] = None \/ ~(INT32_MAX + 1 > Width[w]))
  <2>1. INT32_MAX \in Nat /\ Width["STC_COUNT"] \in Nat \cup {None}
    BY RecordAssumption DEF STATE_FIELDS
  <2>2. Width["tick"] = None /\ Width["STC_COUNT"] > INT32_MAX
    BY SessionAssumption
  <2>3. CASE w = "tick"
    BY <2>1, <2>2, <2>3
  <2>4. CASE w = "STC_COUNT"
    <3>1. Width["STC_COUNT"] = None \/ Width["STC_COUNT"] \in Nat
      BY <2>1
    <3>. QED BY <2>1, <2>2, <2>4, <3>1, SMT
  <2>. QED BY <1>3, <2>3, <2>4
<1>7. check_record(s, y)
  <2>1. s.st.ipos = x.st.ipos
    BY <1>3, <1>5 DEF STATE_FIELDS
  <2>2. DOMAIN s = RECORD_COMPONENTS
    BY <1>4, SMT DEF RECORD_COMPONENTS
  <2>3. /\ s.CODE = r.CODE /\ s.DATA = r.DATA /\ s.out = r.out /\ s.inputs = r.inputs
        /\ s.block = r.block /\ r.st = x.st
    BY <1>1, <1>4
  <2>. QED BY <1>1, <2>1, <2>2, <2>3, Zenon DEF check_record
<1>8. ~state_error(s.st)
  <2>1. \A f \in STATE_FIELDS : ~(s.st[f] < 0) /\ (Width[f] = None \/ ~(s.st[f] > Width[f]))
    <3>1. \A f \in STATE_FIELDS : ~(x.st[f] < 0) /\ (Width[f] = None \/ ~(x.st[f] > Width[f]))
      BY <1>1, Zenon DEF state_error
    <3>2. ~(s.st[w] < 0) /\ (Width[w] = None \/ ~(s.st[w] > Width[w]))
      BY <1>5, <1>6, SMT
    <3>. QED BY <1>5, <3>1, <3>2, Zenon
  <2>2. s.st.status = x.st.status /\ s.st.fault_reason = x.st.fault_reason
    BY <1>3, <1>5 DEF STATE_FIELDS
  <2>3. (x.st.status = ERROR) = (x.st.fault_reason # 0)
    BY <1>1, Zenon DEF state_error
  <2>. QED BY <2>1, <2>2, <2>3, Zenon DEF state_error
<1>9. \A f \in STATE_FIELDS : s.st[f] \in Int
  BY <1>1, <1>5, <1>6
<1>10. s.st[w] > INT32_MAX
  BY <1>5, <1>6, SMT
<1>11. s.st["r"] = x.st["r"] /\ s.st["PC"] = x.st["PC"]
  BY <1>3, <1>5 DEF STATE_FIELDS
<1>. QED BY <1>3, <1>7, <1>8, <1>9, <1>10, <1>11

\* Half of a record touches no memory, no stream and no block.
LEMMA HalfKeeps ==
  ASSUME NEW p, NEW x \in Machines, NEW s
  PROVE  /\ half(p, x, s).code = x.code /\ half(p, x, s).data = x.data
         /\ half(p, x, s).inputs = x.inputs /\ half(p, x, s).block = x.block
<1>1. x = [st |-> x.st, code |-> x.code, data |-> x.data, out |-> x.out,
           inputs |-> x.inputs, block |-> x.block]
  BY MachinesAssumption
<1>. QED BY <1>1, SMT DEF half

\* One record of the contract, two answers: the reference takes a record with a
\* scalar above a cell, and every circuit path refuses it with the registers and
\* the program counter of it already stored over the machine's own, whose memories
\* stay (install_state of the circuit paths; run session_wide).
THEOREM WideSplitsPaths ==
  ASSUME NEW p, p # "NCP8", NEW x \in Machines, Holds(p, x),
         NEW y \in Machines, y.block = x.block, y.inputs = x.inputs,
         NEW s \in wide(record_of(x))
  PROVE  LET ref == install_state("NCP8", y, s)
             got == install_state(p, y, s)
         IN /\ ref = [m |-> whole(y, s), answer |-> "ok"]
            /\ got.answer = "refused"
            /\ got.m.st["r"] = x.st["r"] /\ got.m.st["PC"] = x.st["PC"]
            /\ got.m.code = y.code /\ got.m.data = y.data
<1>. DEFINE st == s.st
            h  == half(p, y, s)
<1>1. /\ check_record(s, y) /\ ~state_error(st)
      /\ \A f \in STATE_FIELDS : st[f] \in Int
      /\ \E f \in STATE_FIELDS : st[f] > INT32_MAX
      /\ st["r"] = x.st["r"] /\ st["PC"] = x.st["PC"]
  BY WideInContract
<1>2. INT32_MAX \in Int
  BY RecordAssumption
<1>. HIDE DEF st
<1>3. stored("NCP8", st) = STATE_FIELDS /\ stored(p, st) # STATE_FIELDS
  BY <1>1, <1>2, StoresAll
<1>4. /\ install_state("NCP8", y, s) = [m |-> whole(y, s), answer |-> "ok"]
      /\ install_state(p, y, s) = [m |-> h, answer |-> "refused"]
  BY <1>1, <1>3, Zenon DEF install_state, st
<1>5. "r" \in stored(p, st) /\ "PC" \in stored(p, st)
  <2>. DEFINE wo == write_order(p)
  <2>1. DOMAIN wo = 1 .. 9 /\ wo[1] = "r" /\ wo[2] = "PC"
    BY SMT DEF write_order
  <2>. HIDE DEF wo
  <2>2. x.st["r"] <= INT32_MAX /\ x.st["PC"] <= INT32_MAX
    BY MachinesAssumption DEF Holds, STATE_FIELDS
  <2>3. fits(p, st, 1) /\ fits(p, st, 2)
    BY <1>1, <2>1, <2>2 DEF fits, wo
  <2>4. stored(p, st) = {wo[i] : i \in {i \in DOMAIN wo : \A j \in 1 .. i : fits(p, st, j)}}
    BY Zenon DEF stored, wo
  <2>5. 1 \in {i \in DOMAIN wo : \A j \in 1 .. i : fits(p, st, j)}
    BY <2>1, <2>3, SMT
  <2>6. 2 \in {i \in DOMAIN wo : \A j \in 1 .. i : fits(p, st, j)}
    BY <2>1, <2>3, SMT
  <2>. QED BY <2>1, <2>4, <2>5, <2>6
<1>6. /\ h.st = [f \in STATE_FIELDS |-> IF f \in stored(p, st) THEN st[f] ELSE y.st[f]]
      /\ h.code = y.code /\ h.data = y.data
  <2>1. y = [st |-> y.st, code |-> y.code, data |-> y.data, out |-> y.out,
             inputs |-> y.inputs, block |-> y.block]
    BY MachinesAssumption
  <2>2. h.st = [f \in STATE_FIELDS |-> IF f \in stored(p, st) THEN st[f] ELSE y.st[f]]
    BY <2>1, SMT DEF half, st
  <2>. QED BY <2>2, HalfKeeps
<1>. HIDE DEF h
<1>7. h.st["r"] = st["r"] /\ h.st["PC"] = st["PC"]
  BY <1>5, <1>6 DEF STATE_FIELDS
<1>. QED BY <1>1, <1>4, <1>6, <1>7

\* A session resumed from a machine's record has that machine.
LEMMA ResumedSame ==
  ASSUME NEW x \in Machines, resumed(record_of(x)).answer = "ok"
  PROVE  resumed(record_of(x)).m = x
<1>. DEFINE r   == record_of(x)
            cfg == from_dict(r.block)
            b   == debugged(r.CODE, r.DATA, r.inputs, TICK_BUDGET_DEFAULT, r.st.PC, cfg)
<1>1. r.inputs = x.inputs /\ cfg = x.block
  BY BlockCarried DEF record_of
<1>2. resumed(r) = install_state("NCP8", b, r)
  BY Zenon DEF resumed
<1>. HIDE DEF r, cfg, b
<1>3. CASE check_record(r, b)
  <2>1. b.inputs = x.inputs /\ b.block = x.block
    BY <1>1, <1>3 DEF check_record, cfg
  <2>. QED BY <1>2, <2>1, Taken DEF r, Holds
<1>4. CASE ~check_record(r, b)
  <2>1. resumed(r).answer = "refused"
    <3>1. install_state("NCP8", b, r) = [m |-> b, answer |-> "refused"]
      BY <1>4, Zenon DEF install_state
    <3>. QED BY <1>2, <3>1
  <2>. QED BY <2>1 DEF r
<1>. QED BY <1>3, <1>4

------------------------------------------------------------------------------
\* The inductive invariant

\* The machines visited obey one block and read one stream, and the second machine
\* too, whatever half of a record is in it.
SeenOK ==
  /\ m \in seen /\ (~astray => cm \in seen)
  /\ \A x, y \in seen : x.inputs = y.inputs /\ x.block = y.block
  /\ cm.inputs = m.inputs /\ cm.block = m.block
  /\ Holds(path, m)

\* Every frame is that of a tick, and only a run under way has a cap.
FramesOK ==
  /\ frames \in Seq({frame(x) : x \in Machines})
  /\ loop.mode = "idle" => loop = Idle

IInv == TypeOK /\ SeenOK /\ FramesOK /\ FramesChain /\ RunPassesNothing

LEMMA InitIInv == Init => IInv
<1>. SUFFICES ASSUME Init PROVE IInv
  OBVIOUS
<1>1. m \in Machines /\ cm = m /\ seen = {m} /\ path \in Paths /\ astray = FALSE
  BY SessionAssumption DEF Init
<1>2. frames = <<>> /\ loop = Idle /\ rec = None /\ breakpoints = {} /\ watchpoints = {}
  BY DEF Init
<1>3. TypeOK
  <2>1. astray \in BOOLEAN /\ MaxSteps \in Nat
    BY <1>1, SessionAssumption
  <2>. QED BY <1>1, <1>2, <2>1, SMT DEF TypeOK, Idle, Modes
<1>4. SeenOK /\ FramesOK /\ RunPassesNothing
  <2>1. Holds(path, m)
    BY DEF Init, hosts, Holds
  <2>. QED BY <1>1, <1>2, <2>1, SMT DEF SeenOK, FramesOK, RunPassesNothing, Idle
<1>5. FramesChain
  BY <1>2, SMT DEF FramesChain
<1>. QED BY <1>3, <1>4, <1>5 DEF IInv

\* A frame is a tick: where it did not raise, it ends in the machine after it.
LEMMA FrameOf ==
  ASSUME NEW x \in Machines
  PROVE  /\ frame(x).pre = view(x)
         /\ ~frame(x).raised => frame(x).post = view(Exec(x).m)
         /\ frame(x).raised => frame(x).writes = {} /\ Exec(x).m.st.status = ERROR
         /\ frame(x).raised \in BOOLEAN
BY ExecAssumption DEF frame

\* A tick taken: the frame is appended and the chain goes on from it.
LEMMA DebugStepKeeps ==
  ASSUME IInv, DebugStep
  PROVE  /\ m' \in Machines /\ UNCHANGED second /\ seen' \subseteq Machines /\ seen \subseteq seen'
         /\ SeenOK' /\ FramesChain'
         /\ frames' \in Seq({frame(x) : x \in Machines})
         /\ Len(frames') = Len(frames) + 1 /\ Len(frames) \in Nat
         /\ frames'[Len(frames')] = frame(m)
         /\ \A i \in 1 .. Len(frames) : frames'[i] = frames[i]
         /\ \E x \in seen' : m' = x
<1>. DEFINE F == {frame(x) : x \in Machines}
            n == Len(frames)
<1>1. m \in Machines /\ m \in seen /\ seen \subseteq Machines
  BY DEF IInv, TypeOK, SeenOK
<1>2. m' = Exec(m).m /\ UNCHANGED second /\ seen' = seen \cup {m'} /\ frames' = Append(frames, frame(m))
  BY DEF DebugStep
<1>3. m' \in Machines /\ m'.inputs = m.inputs /\ m'.block = m.block
  BY <1>1, <1>2, ExecAssumption
<1>4. SeenOK'
  <2>1. \A x, y \in seen : x.inputs = y.inputs /\ x.block = y.block
    BY DEF IInv, SeenOK
  <2>2. \A x \in seen' : x.inputs = m.inputs /\ x.block = m.block
    BY <1>1, <1>2, <1>3, <2>1
  <2>3. \A x, y \in seen' : x.inputs = y.inputs /\ x.block = y.block
    BY <2>2
  <2>4. Holds(path', m')
    BY <1>2, <1>3 DEF IInv, SeenOK, Holds, second
  <2>5. cm'.inputs = m'.inputs /\ cm'.block = m'.block
    BY <1>2, <1>3 DEF IInv, SeenOK, second
  <2>6. m' \in seen' /\ (~astray' => cm' \in seen')
    BY <1>2 DEF IInv, SeenOK, second
  <2>. QED BY <2>3, <2>4, <2>5, <2>6 DEF SeenOK
<1>5. frames \in Seq(F) /\ frame(m) \in F
  BY <1>1 DEF IInv, FramesOK
<1>6. /\ frames' \in Seq(F) /\ Len(frames') = n + 1 /\ n \in Nat
      /\ frames'[n + 1] = frame(m)
      /\ \A i \in 1 .. n : frames'[i] = frames[i]
  <2>. HIDE DEF F
  <2>. QED BY <1>2, <1>5, AppendProperties, SMT
<1>7. FramesChain'
  <2>. SUFFICES ASSUME NEW i \in 1 .. n + 1
                PROVE  LET now == IF i = n + 1 THEN view(m') ELSE frames'[i + 1].pre
                       IN  IF frames'[i].raised
                           THEN frames'[i].writes = {} /\ now.st.status = ERROR
                           ELSE now = frames'[i].post
    BY <1>6, Zenon DEF FramesChain
  <2>1. CASE i = n + 1
    <3>1. frames'[i] = frame(m)
      BY <1>6, <2>1
    <3>2. view(m').st.status = m'.st.status
      BY DEF view
    <3>. QED BY <1>1, <1>2, <2>1, <3>1, <3>2, FrameOf, Zenon
  <2>2. CASE i = n
    <3>1. i \in 1 .. n /\ frames'[i] = frames[i] /\ frames'[i + 1] = frame(m) /\ i # n + 1
      BY <1>6, <2>2, SMT
    <3>2. frames'[i + 1].pre = view(m)
      BY <1>1, <3>1, FrameOf, Zenon
    <3>3. IF frames[i].raised THEN frames[i].writes = {} /\ view(m).st.status = ERROR
          ELSE view(m) = frames[i].post
      BY <2>2, <3>1, Zenon DEF IInv, FramesChain
    <3>. QED BY <3>1, <3>2, <3>3, Zenon
  <2>3. CASE i \in 1 .. n - 1
    <3>1. i \in 1 .. n /\ i + 1 \in 1 .. n /\ i # n /\ i # n + 1
      BY <1>6, <2>3, SMT
    <3>2. frames'[i] = frames[i] /\ frames'[i + 1] = frames[i + 1]
      BY <1>6, <3>1, Zenon
    <3>3. IF frames[i].raised THEN frames[i].writes = {} /\ frames[i + 1].pre.st.status = ERROR
          ELSE frames[i + 1].pre = frames[i].post
      BY <3>1, Zenon DEF IInv, FramesChain
    <3>. QED BY <3>1, <3>2, <3>3, Zenon
  <2>. QED BY <1>6, <2>1, <2>2, <2>3, SMT
<1>. QED BY <1>1, <1>2, <1>3, <1>4, <1>6, <1>7

\* What a machine does not change stays as it was.
LEMMA Unmoved ==
  ASSUME IInv, UNCHANGED <<m, frames, second, seen>>
  PROVE  SeenOK' /\ FramesChain'
BY SMT DEF IInv, SeenOK, FramesChain, view, second, Holds

\* The record in hand is the record of a machine that has been visited.
RecOK == rec = None \/ \E x \in seen : rec = record_of(x)

LEMMA RecKept ==
  ASSUME IInv, seen \subseteq seen', rec' = rec
  PROVE  RecOK'
BY SMT DEF IInv, TypeOK, RecOK

LEMMA StatusNamed == \A c \in 1 .. 3 : STATUS_NAME[c] # None
<1>1. STATUS_NAME[1] = "halt" /\ STATUS_NAME[2] = "overrun" /\ STATUS_NAME[3] = "error"
  BY SMT DEF STATUS_NAME, RUNNING, OVERRUN, ERROR
<1>2. None # "halt" /\ None # "overrun" /\ None # "error"
  BY SessionAssumption
<1>3. \A c \in 1 .. 3 : c = 1 \/ c = 2 \/ c = 3
  BY SMT
<1>. QED BY <1>1, <1>2, <1>3, Zenon

LEMMA StatusRange ==
  ASSUME NEW x \in Machines, x.st.status # RUNNING
  PROVE  x.st.status \in 1 .. 3
<1>1. ~state_error(x.st) /\ "status" \in STATE_FIELDS
  BY MachinesAssumption DEF STATE_FIELDS
<1>2. x.st.status \in Nat
  BY <1>1, MachinesAssumption, Zenon
<1>3. Width["status"] = 3 /\ None # 3
  BY SessionAssumption, RecordAssumption
<1>4. ~(x.st.status > 3)
  BY <1>1, <1>3 DEF state_error
<1>. QED BY <1>2, <1>4, SMT DEF RUNNING

\* A single step, and a step of a run, keep the invariant.
LEMMA StepKeeps ==
  ASSUME IInv, DebugStep,
         \/ loop' = loop
         \/ loop' = Idle
         \/ loop.mode = "run" /\ loop.left > 0 /\ loop' = [loop EXCEPT !.left = @ - 1]
              /\ reason(frame(m), m') = None
         \/ loop.mode = "until" /\ loop.left > 0 /\ loop' = [loop EXCEPT !.left = @ - 1],
         loop' = loop => loop.mode # "run"
  PROVE  IInv'
<1>. DEFINE n == Len(frames)
<1>1. /\ m' \in Machines /\ UNCHANGED second /\ seen' \subseteq Machines /\ seen \subseteq seen'
      /\ SeenOK' /\ FramesChain' /\ frames' \in Seq({frame(x) : x \in Machines})
      /\ Len(frames') = n + 1 /\ n \in Nat /\ frames'[n + 1] = frame(m)
      /\ \A i \in 1 .. n : frames'[i] = frames[i]
  BY DebugStepKeeps, Zenon
<1>2. /\ m \in Machines /\ (astray \/ cm \in Machines) /\ astray \in BOOLEAN /\ path \in Paths
      /\ breakpoints' = breakpoints /\ watchpoints' = watchpoints /\ rec' = rec
      /\ breakpoints \subseteq Breaks /\ watchpoints \subseteq Watches
      /\ loop \in [mode : Modes, left : 0 .. MaxSteps, from : Nat] /\ loop.from <= n
      /\ m' = Exec(m).m /\ (loop.mode = "idle" => loop = Idle)
  BY DEF IInv, TypeOK, FramesOK, DebugStep, session
<1>3. /\ loop' \in [mode : Modes, left : 0 .. MaxSteps, from : Nat]
      /\ loop'.from <= n + 1
      /\ loop'.mode = "idle" => loop' = Idle
  <2>1. MaxSteps \in Nat
    BY SessionAssumption
  <2>2. CASE loop' = loop
    BY <1>1, <1>2, <2>2, SMT
  <2>3. CASE loop' = Idle
    BY <1>1, <2>1, <2>3, SMT DEF Idle, Modes
  <2>4. CASE loop.mode \in {"run", "until"} /\ loop.left > 0 /\ loop' = [loop EXCEPT !.left = @ - 1]
    BY <1>1, <1>2, <2>1, <2>4, SMT DEF Modes
  <2>. QED BY <2>2, <2>3, <2>4
<1>4. TypeOK'
  <2>1. RecOK'
    BY <1>1, <1>2, RecKept, Zenon
  <2>2. path' = path /\ cm' = cm /\ astray' = astray
    BY <1>1 DEF second
  <2>. QED BY <1>1, <1>2, <1>3, <2>1, <2>2 DEF TypeOK, RecOK
<1>5. RunPassesNothing'
  <2>1. SUFFICES ASSUME loop'.mode = "run", NEW i \in loop'.from + 1 .. n + 1
                 PROVE  ~(\/ frames'[i].raised
                          \/ frames'[i].writes \cap watchpoints' # {}
                          \/ frames'[i].post.st.status # RUNNING
                          \/ frames'[i].post.st.PC \in breakpoints')
    BY <1>1, <2>1, Zenon DEF RunPassesNothing
  <2>2. /\ loop.mode = "run" /\ loop'.from = loop.from /\ reason(frame(m), m') = None
    BY <1>2, <2>1, SMT DEF Idle
  <2>3. CASE i = n + 1
    <3>. DEFINE f == frame(m)
    <3>1. None # "fault" /\ None # "watchpoint" /\ None # "breakpoint"
          /\ \A c \in 1 .. 3 : STATUS_NAME[c] # None
      BY SessionAssumption, StatusNamed
    <3>2. m'.st.status # RUNNING => m'.st.status \in 1 .. 3
      BY <1>1, StatusRange
    <3>3. ~f.raised /\ f.writes \cap watchpoints = {} /\ m'.st.status = RUNNING
          /\ m'.st.PC \notin breakpoints
      BY <2>2, <3>1, <3>2, Zenon DEF reason
    <3>4. f.post.st = m'.st
      <4>1. f.post = view(m')
        BY <1>2, <3>3, FrameOf, Zenon
      <4>. HIDE DEF f
      <4>. QED BY <4>1 DEF view
    <3>. QED BY <1>1, <1>2, <2>3, <3>3, <3>4
  <2>4. CASE i \in loop.from + 1 .. n
    <3>1. frames'[i] = frames[i]
      BY <1>1, <1>2, <2>4, SMT
    <3>. QED BY <1>2, <2>2, <2>4, <3>1, Zenon DEF IInv, RunPassesNothing
  <2>. QED BY <1>1, <1>2, <2>1, <2>2, <2>3, <2>4, SMT
<1>. QED BY <1>1, <1>3, <1>4, <1>5 DEF IInv, FramesOK

\* An action that moves neither machine keeps the invariant when the run under
\* way, the points and the record it leaves are in order.
LEMMA StillKeeps ==
  ASSUME IInv, UNCHANGED <<m, frames, second, seen>>,
         breakpoints' \subseteq Breaks, watchpoints' \subseteq Watches,
         RecOK',
         \/ loop' = Idle
         \/ \E mode \in {"run", "until"}, n \in 1 .. MaxSteps :
              loop' = [mode |-> mode, left |-> n, from |-> Len(frames)]
  PROVE  IInv'
<1>1. SeenOK' /\ FramesChain'
  BY Unmoved
<1>2. /\ m' \in Machines /\ (astray' \/ cm' \in Machines) /\ astray' \in BOOLEAN
      /\ seen' \subseteq Machines /\ path' \in Paths
      /\ frames' \in Seq({frame(x) : x \in Machines}) /\ frames' = frames
      /\ Len(frames) \in Nat
  BY LenProperties DEF IInv, TypeOK, FramesOK, second
<1>3. MaxSteps \in Nat
  BY SessionAssumption
<1>4. /\ loop' \in [mode : Modes, left : 0 .. MaxSteps, from : Nat]
      /\ loop'.from <= Len(frames)
      /\ loop'.mode = "idle" => loop' = Idle
      /\ loop'.mode = "run" => loop'.from = Len(frames)
  <2>1. CASE loop' = Idle
    BY <1>2, <1>3, <2>1, SMT DEF Idle, Modes
  <2>2. CASE loop' # Idle
    <3>1. PICK mode \in {"run", "until"}, n \in 1 .. MaxSteps :
            loop' = [mode |-> mode, left |-> n, from |-> Len(frames)]
      BY <2>2
    <3>. QED BY <1>2, <1>3, <3>1, SMT DEF Modes
  <2>. QED BY <2>1, <2>2
<1>5. TypeOK'
  BY <1>2, <1>4 DEF TypeOK, RecOK
<1>6. RunPassesNothing'
  <2>1. loop'.mode = "run" => loop'.from + 1 .. Len(frames) = {}
    BY <1>2, <1>4, SMT
  <2>. QED BY <1>2, <2>1, SMT DEF RunPassesNothing
<1>. QED BY <1>1, <1>2, <1>4, <1>5, <1>6 DEF IInv, FramesOK

\* An action that moves the second machine alone keeps the invariant when it leaves
\* it a machine visited, or one of the same program that is astray.
LEMMA SecondKeeps ==
  ASSUME IInv, UNCHANGED <<m, session, frames, loop, rec, path>>,
         astray' \in BOOLEAN, ~astray' => cm' \in seen' \cap Machines,
         cm'.inputs = cm.inputs, cm'.block = cm.block,
         seen' = seen \/ (seen' = seen \cup {cm'} /\ cm' \in Machines)
  PROVE  IInv'
<1>1. m \in Machines /\ m \in seen /\ seen \subseteq Machines
  BY DEF IInv, TypeOK, SeenOK
<1>2. SeenOK'
  <2>1. \A x \in seen : x.inputs = m.inputs /\ x.block = m.block
    BY <1>1 DEF IInv, SeenOK
  <2>2. cm'.inputs = m.inputs /\ cm'.block = m.block
    BY DEF IInv, SeenOK
  <2>3. \A x \in seen' : x.inputs = m.inputs /\ x.block = m.block
    BY <2>1, <2>2
  <2>4. m' = m /\ m' \in seen' /\ (~astray' => cm' \in seen')
    BY <1>1
  <2>5. Holds(path', m')
    BY DEF IInv, SeenOK, Holds
  <2>. QED BY <2>2, <2>3, <2>4, <2>5 DEF SeenOK
<1>3. FramesChain' /\ FramesOK' /\ RunPassesNothing'
  BY SMT DEF IInv, FramesChain, FramesOK, RunPassesNothing, view, session
<1>4. RecOK'
  BY RecKept
<1>5. TypeOK'
  BY <1>1, <1>4 DEF IInv, TypeOK, RecOK, session
<1>. QED BY <1>2, <1>3, <1>5 DEF IInv

\* The second machine ticks.
LEMMA CircuitKeeps == IInv /\ CircuitStep => IInv'
<1>. SUFFICES ASSUME IInv, CircuitStep PROVE IInv'
  OBVIOUS
<1>1. cm \in Machines
  BY DEF CircuitStep, IInv, TypeOK
<1>2. cm' = Exec(cm).m /\ seen' = seen \cup {cm'} /\ astray' = FALSE
  BY DEF CircuitStep, IInv, TypeOK
<1>3. cm' \in Machines /\ cm'.inputs = cm.inputs /\ cm'.block = cm.block
  BY <1>1, <1>2, ExecAssumption
<1>4. UNCHANGED <<m, session, frames, loop, rec, path>>
  BY DEF CircuitStep
<1>. QED BY <1>2, <1>3, <1>4, SecondKeeps

\* What an install makes of the second machine: the recorded one, or nothing.
LEMMA InstallOutcome ==
  ASSUME IInv, NEW x \in seen
  PROVE  /\ install_state(path, cm, record_of(x)) = [m |-> x, answer |-> "ok"]
         /\ \A r \in spoiled(record_of(x)) :
              install_state(path, cm, r) = [m |-> cm, answer |-> "refused"]
<1>1. x \in Machines /\ cm.block = x.block /\ cm.inputs = x.inputs
  BY DEF IInv, TypeOK, SeenOK
<1>2. Holds(path, x)
  <2>1. x.block = m.block /\ Holds(path, m)
    BY DEF IInv, SeenOK
  <2>. QED BY <2>1 DEF Holds
<1>. QED BY <1>1, <1>2, Taken, SpoiledRefused

\* A session resumed.
LEMMA ResumeKeeps ==
  ASSUME IInv, NEW bs \in SUBSET Breaks, NEW ws \in SUBSET Watches, resume(bs, ws)
  PROVE  IInv' /\ seen' = seen
<1>1. PICK x \in seen : rec = record_of(x)
  BY DEF IInv, TypeOK, resume
<1>2. x \in Machines /\ m \in seen
  BY DEF IInv, TypeOK, SeenOK
<1>3. loop = Idle /\ loop' = loop /\ rec' = rec /\ UNCHANGED second /\ seen' = seen \cup {m'}
  BY DEF resume, idle, IInv, FramesOK
<1>4. CASE resumed(rec).answer = "ok"
  <2>1. m' = x /\ frames' = <<>> /\ breakpoints' = bs /\ watchpoints' = ws
    BY <1>1, <1>2, <1>4, ResumedSame DEF resume
  <2>2. seen' = seen
    BY <1>3, <2>1
  <2>3. SeenOK' /\ RecOK'
    <3>1. m'.inputs = m.inputs /\ m'.block = m.block /\ m' \in seen'
      BY <1>2, <2>1, <2>2 DEF IInv, SeenOK
    <3>2. Holds(path', m')
      BY <1>3, <3>1 DEF IInv, SeenOK, Holds, second
    <3>. QED BY <1>3, <2>2, <3>1, <3>2 DEF IInv, SeenOK, TypeOK, RecOK, second
  <2>4. FramesChain' /\ RunPassesNothing' /\ FramesOK'
    BY <1>3, <2>1, SMT DEF FramesChain, RunPassesNothing, FramesOK, Idle
  <2>5. TypeOK'
    BY <1>2, <1>3, <2>1, <2>2, <2>3, SMT DEF IInv, TypeOK, RecOK, Idle, second
  <2>. QED BY <2>2, <2>3, <2>4, <2>5 DEF IInv
<1>5. CASE resumed(rec).answer # "ok"
  <2>1. UNCHANGED <<m, session, frames>>
    BY <1>5 DEF resume
  <2>2. seen' = seen
    BY <1>2, <1>3, <2>1
  <2>3. UNCHANGED <<m, frames, second, seen>> /\ breakpoints' = breakpoints /\ watchpoints' = watchpoints
    BY <1>3, <2>1, <2>2 DEF session
  <2>4. RecOK' /\ breakpoints' \subseteq Breaks /\ watchpoints' \subseteq Watches
    BY <1>3, <2>2, <2>3 DEF IInv, TypeOK, RecOK
  <2>. QED BY <1>3, <2>2, <2>3, <2>4, StillKeeps
<1>. QED BY <1>4, <1>5

\* A record taken is the record of the machine it was taken from.
LEMMA PublishKeeps ==
  ASSUME IInv, NEW call, NEW x \in seen, publish(call, x), seen' = seen
  PROVE  RecOK'
BY SMT DEF publish, RecOK, IInv, TypeOK

\* What an install of the record in hand, or of one the contract refuses, leaves.
LEMMA InstallKeeps ==
  ASSUME IInv, NEW call, NEW r, rec # None, Install(call, r),
         r = rec \/ r \in spoiled(rec)
  PROVE  /\ IInv' /\ seen' = seen
         /\ r = rec => last'.answer = "ok" /\ record_of(cm') = rec
         /\ last'.answer = "refused" => last'.call = call /\ UNCHANGED <<m, cm>>
         /\ astray /\ ~astray' => r = rec
<1>1. PICK x \in seen : rec = record_of(x)
  BY DEF IInv, TypeOK
<1>. DEFINE got == install_state(path, cm, r)
<1>2. /\ cm' = got.m /\ last' = answered(call, got.answer)
      /\ astray' = IF got.answer = "ok" THEN r # rec ELSE astray \/ got.m # cm
      /\ seen' = IF astray' THEN seen ELSE seen \cup {cm'}
      /\ UNCHANGED <<m, session, frames, stopped, loop, rec, path>>
  BY DEF Install
<1>3. \/ r = rec /\ got = [m |-> x, answer |-> "ok"]
      \/ r # rec /\ got = [m |-> cm, answer |-> "refused"]
  BY <1>1, InstallOutcome
<1>. HIDE DEF got
<1>4. last'.answer = got.answer /\ (got.answer # "ok" => last'.call = call)
  BY <1>2 DEF answered
<1>5. x \in Machines /\ x.inputs = m.inputs /\ x.block = m.block
  BY DEF IInv, SeenOK, TypeOK
<1>6. CASE r = rec /\ got = [m |-> x, answer |-> "ok"]
  <2>1. cm' = x /\ astray' = FALSE /\ seen' = seen /\ got.answer = "ok"
    BY <1>2, <1>6
  <2>2. cm'.inputs = cm.inputs /\ cm'.block = cm.block
    BY <1>5, <2>1 DEF IInv, SeenOK
  <2>3. IInv'
    BY <1>2, <1>5, <2>1, <2>2, SecondKeeps
  <2>. QED BY <1>1, <1>4, <1>6, <2>1, <2>3
<1>7. CASE r # rec /\ got = [m |-> cm, answer |-> "refused"]
  <2>1. cm' = cm /\ astray' = astray /\ got.answer = "refused" /\ astray \in BOOLEAN
    BY <1>2, <1>7, "ok" # "refused" DEF IInv, TypeOK
  <2>2. ~astray => cm \in seen /\ cm \in Machines
    BY DEF IInv, SeenOK, TypeOK
  <2>3. seen' = seen
    BY <1>2, <2>1, <2>2
  <2>4. IInv'
    BY <1>2, <2>1, <2>2, <2>3, SecondKeeps
  <2>. QED BY <1>2, <1>4, <1>7, <2>1, <2>3, <2>4, "ok" # "refused"
<1>. QED BY <1>3, <1>6, <1>7

\* What an install of a record with a scalar above a cell leaves: the reference
\* takes it, a circuit refuses it, and no memory of a circuit that does is touched.
LEMMA WideKeeps ==
  ASSUME IInv, rec # None, ~astray, NEW r \in wide(rec), Install("install wide", r)
  PROVE  /\ IInv' /\ seen' = seen /\ m' = m
         /\ last'.answer = "refused" /\ cm' # cm =>
              /\ last'.call = "install wide" /\ path # "NCP8"
              /\ \A c \in {"code", "data", "inputs", "block"} : cm'[c] = cm[c]
<1>1. PICK x \in seen : rec = record_of(x)
  BY DEF IInv, TypeOK
<1>. DEFINE got == install_state(path, cm, r)
<1>2. /\ cm' = got.m /\ last' = answered("install wide", got.answer)
      /\ astray' = IF got.answer = "ok" THEN r # rec ELSE astray \/ got.m # cm
      /\ seen' = IF astray' THEN seen ELSE seen \cup {cm'}
      /\ UNCHANGED <<m, session, frames, stopped, loop, rec, path>>
  BY DEF Install
<1>3. CASE r = rec
  <2>1. IInv' /\ seen' = seen /\ last'.answer = "ok"
    BY <1>3, InstallKeeps
  <2>. QED BY <1>2, <2>1, "ok" # "refused"
<1>4. CASE r # rec
  <2>1. /\ cm \in Machines /\ cm \in seen /\ x \in Machines
        /\ cm.block = x.block /\ cm.inputs = x.inputs
    BY DEF IInv, SeenOK, TypeOK
  <2>2. /\ check_record(r, cm) /\ ~state_error(r.st)
        /\ \A f \in STATE_FIELDS : r.st[f] \in Int
    BY <1>1, <2>1, WideInContract
  <2>3. stored("NCP8", r.st) = STATE_FIELDS
    BY <2>2, StoresAll
  <2>4. \/ got = [m |-> whole(cm, r), answer |-> "ok"]
        \/ path # "NCP8" /\ got = [m |-> half(path, cm, r), answer |-> "refused"]
    BY <2>2, <2>3, Zenon DEF install_state
  <2>. HIDE DEF got
  <2>6. CASE got = [m |-> whole(cm, r), answer |-> "ok"]
    <3>1. got.answer = "ok" /\ got.m = whole(cm, r)
      BY <2>6
    <3>2. cm' = whole(cm, r) /\ astray' = TRUE /\ seen' = seen /\ last'.answer = "ok"
      BY <1>2, <1>4, <3>1 DEF answered
    <3>3. cm'.inputs = cm.inputs /\ cm'.block = cm.block
      BY <3>2 DEF whole
    <3>4. IInv'
      BY <1>2, <3>2, <3>3, SecondKeeps
    <3>. QED BY <1>2, <3>2, <3>4, "ok" # "refused"
  <2>7. CASE path # "NCP8" /\ got = [m |-> half(path, cm, r), answer |-> "refused"]
    <3>1. got.answer # "ok" /\ got.m = half(path, cm, r)
      BY <2>7, "ok" # "refused"
    <3>2. cm' = half(path, cm, r) /\ astray' = (cm' # cm) /\ last'.call = "install wide"
      BY <1>2, <3>1 DEF answered
    <3>3. /\ cm'.inputs = cm.inputs /\ cm'.block = cm.block
          /\ \A c \in {"code", "data", "inputs", "block"} : cm'[c] = cm[c]
      <4>1. /\ cm'.code = cm.code /\ cm'.data = cm.data
            /\ cm'.inputs = cm.inputs /\ cm'.block = cm.block
        <5>1. /\ half(path, cm, r).code = cm.code /\ half(path, cm, r).data = cm.data
              /\ half(path, cm, r).inputs = cm.inputs /\ half(path, cm, r).block = cm.block
          BY <2>1, HalfKeeps
        <5>2. cm' = half(path, cm, r)
          BY <3>2
        <5>. QED BY <5>1, <5>2, Zenon
      <4>. QED BY <4>1
    <3>4. seen' = seen
      BY <1>2, <2>1, <3>2
    <3>5. astray' \in BOOLEAN /\ (~astray' => cm' \in seen' \cap Machines)
      BY <2>1, <3>2, <3>4
    <3>6. IInv'
      BY <1>2, <3>3, <3>4, <3>5, SecondKeeps
    <3>. QED BY <1>2, <2>7, <3>2, <3>3, <3>4, <3>6
  <2>. QED BY <2>4, <2>6, <2>7
<1>. QED BY <1>3, <1>4

LEMMA StepIInv == IInv /\ [Next]_vars => IInv'
<1>. SUFFICES ASSUME IInv, [Next]_vars PROVE IInv'
  OBVIOUS
<1>0. /\ breakpoints \subseteq Breaks /\ watchpoints \subseteq Watches /\ RecOK
      /\ (idle => loop = Idle) /\ m \in seen /\ (~astray => cm \in seen)
  BY DEF IInv, TypeOK, FramesOK, SeenOK, RecOK, idle
<1>1. ASSUME NEW a \in Breaks, break_at(a) \/ drop_breakpoint(a) PROVE IInv'
  BY <1>0, <1>1, StillKeeps DEF break_at, drop_breakpoint, RecOK
<1>2. ASSUME NEW a \in Watches, watch(a) \/ drop_watchpoint(a) PROVE IInv'
  BY <1>0, <1>2, StillKeeps DEF watch, drop_watchpoint, RecOK
<1>3. CASE step
  BY <1>0, <1>3, StepKeeps DEF step, idle
<1>4. ASSUME NEW mode \in {"run", "until"}, NEW n \in 1 .. MaxSteps, Begin(mode, n) PROVE IInv'
  BY <1>0, <1>4, StillKeeps DEF Begin, RecOK, session
<1>5. CASE RunStopped \/ RunExhausted \/ UntilFails
  BY <1>0, <1>5, StillKeeps DEF RunStopped, RunExhausted, UntilFails, RecOK, session
<1>6. CASE RunStep
  <2>1. DebugStep /\ loop.mode = "run" /\ loop.left > 0
    BY <1>6 DEF RunStep
  <2>2. \/ loop' = Idle
        \/ loop' = [loop EXCEPT !.left = @ - 1] /\ reason(frame(m), m') = None
    BY <1>6 DEF RunStep
  <2>3. loop' # loop
    BY <2>1, <2>2, SMT DEF Idle, IInv, TypeOK
  <2>. QED BY <2>1, <2>2, <2>3, StepKeeps
<1>7. CASE UntilStep
  BY <1>7, StepKeeps DEF UntilStep
<1>8. CASE checkpoint \/ record_state
  <2>1. RecOK'
    BY <1>0, <1>8, PublishKeeps DEF checkpoint, record_state
  <2>. QED BY <1>0, <1>8, <2>1, StillKeeps DEF checkpoint, record_state, session
<1>9. ASSUME NEW bs \in SUBSET Breaks, NEW ws \in SUBSET Watches, resume(bs, ws) PROVE IInv'
  BY <1>9, ResumeKeeps
<1>10. CASE CircuitStep
  BY <1>10, CircuitKeeps
<1>11. CASE InstallPublished \/ InstallSpoiled
  BY <1>11, InstallKeeps DEF InstallPublished, InstallSpoiled
<1>13. CASE InstallWide
  BY <1>13, WideKeeps DEF InstallWide
<1>12. CASE UNCHANGED vars
  BY <1>12, SMT DEF vars, session, second, IInv, TypeOK, SeenOK, Holds, FramesOK, FramesChain,
                    RunPassesNothing, view
<1>. QED BY <1>1, <1>2, <1>3, <1>4, <1>5, <1>6, <1>7, <1>8, <1>9, <1>10, <1>11, <1>12, <1>13
     DEF Next

THEOREM SessionInvariant == Spec => []IInv
<1>. QED BY InitIInv, StepIInv, PTL DEF Spec

------------------------------------------------------------------------------
\* The theorems

\* The machines of a session are machines of the program, and the record in hand
\* is the record of one it has visited.
THEOREM SessionTypes == Spec => []TypeOK
<1>1. IInv => TypeOK
  BY DEF IInv
<1>. QED BY <1>1, SessionInvariant, PTL

\* The frames of a session are one unbroken run.
THEOREM FramesAlwaysChain == Spec => []FramesChain
<1>1. IInv => FramesChain
  BY DEF IInv
<1>. QED BY <1>1, SessionInvariant, PTL

\* A run under way has met nothing it should have stopped at.
THEOREM NothingPassed == Spec => []RunPassesNothing
<1>1. IInv => RunPassesNothing
  BY DEF IInv
<1>. QED BY <1>1, SessionInvariant, PTL

\* No action but a record call refuses, and what a refusal leaves behind is half of
\* a record with a scalar above a cell; the next record taken makes up for it.
LEMMA OnlyCallsRefuse ==
  ASSUME IInv, [Next]_vars
  PROVE  /\ last'.answer = "refused" =>
              /\ m' = m
              /\ cm' # cm => /\ last'.call = "install wide" /\ path # "NCP8"
                             /\ \A c \in {"code", "data", "inputs", "block"} : cm'[c] = cm[c]
         /\ astray /\ ~astray' => record_of(cm') = rec
<1>1. CASE \E a : break_at(a) \/ drop_breakpoint(a) \/ watch(a) \/ drop_watchpoint(a)
  <2>1. UNCHANGED <<m, second>>
    BY <1>1 DEF break_at, drop_breakpoint, watch, drop_watchpoint
  <2>. QED BY <2>1 DEF second
<1>2. CASE DebugStep \/ CircuitStep
  <2>1. last' = Quiet /\ astray' = astray
    BY <1>2 DEF DebugStep, CircuitStep, second
  <2>. QED BY <2>1 DEF Quiet, answered
<1>3. CASE \E mode, n : Begin(mode, n)
  <2>1. UNCHANGED <<m, second>>
    BY <1>3 DEF Begin
  <2>. QED BY <2>1 DEF second
<1>4. CASE RunStopped \/ RunExhausted \/ UntilFails \/ checkpoint \/ record_state
  <2>1. UNCHANGED <<m, second>>
    BY <1>4 DEF RunStopped, RunExhausted, UntilFails, checkpoint, record_state
  <2>. QED BY <2>1 DEF second
<1>5. CASE \E bs, ws : resume(bs, ws)
  BY <1>5 DEF resume, answered, second
<1>6. CASE InstallPublished \/ InstallSpoiled
  BY <1>6, InstallKeeps DEF InstallPublished, InstallSpoiled
<1>7. CASE InstallWide
  BY <1>7, WideKeeps DEF InstallWide
<1>8. CASE UNCHANGED vars
  BY <1>8 DEF vars, second
<1>. QED BY <1>1, <1>2, <1>3, <1>4, <1>5, <1>6, <1>7, <1>8 DEF Next, step, RunStep, UntilStep

\* A refusal leaves the session's machine as it was, and of the second one at most
\* the scalars and the output written, by a record above its cells; the next record
\* it takes makes it the machine recorded.
THEOREM RefusalsContained == Spec => RefusalContained
<1>1. IInv /\ [Next]_vars =>
        [ /\ last'.answer = "refused" =>
               /\ m' = m
               /\ cm' # cm => /\ last'.call = "install wide" /\ path # "NCP8"
                              /\ \A c \in {"code", "data", "inputs", "block"} : cm'[c] = cm[c]
          /\ astray /\ ~astray' => record_of(cm') = rec ]_vars
  BY OnlyCallsRefuse
<1>. QED BY <1>1, SessionInvariant, PTL DEF Spec, RefusalContained

\* A machine is only ever where a run from the boot takes it.
LEMMA StepVisits == IInv /\ [Next]_vars => [R!Next]_seen
<1>. SUFFICES ASSUME IInv, [Next]_vars PROVE seen' = seen \/ R!Next
  OBVIOUS
<1>0. m \in seen /\ (~astray => cm \in seen)
  BY DEF IInv, SeenOK
<1>1. CASE DebugStep \/ CircuitStep
  BY <1>0, <1>1 DEF DebugStep, CircuitStep, R!Next
<1>2. CASE seen' = seen
  BY <1>2
<1>3. CASE \E bs \in SUBSET Breaks, ws \in SUBSET Watches : resume(bs, ws)
  BY <1>3, ResumeKeeps
<1>4. CASE InstallPublished \/ InstallSpoiled
  BY <1>4, InstallKeeps DEF InstallPublished, InstallSpoiled
<1>5. CASE InstallWide
  BY <1>5, WideKeeps DEF InstallWide
<1>. QED BY <1>1, <1>2, <1>3, <1>4, <1>5
     DEF Next, vars, step, RunStep, UntilStep, break_at, drop_breakpoint, watch, drop_watchpoint,
         Begin, RunStopped, RunExhausted, UntilFails, checkpoint, record_state

\* Whatever a session does -- steps, resumes, transfers between paths, refused
\* records -- it visits only the states of its machine's own run.
THEOREM SessionKeepsToRun == Spec => KeepsToRun
<1>1. Init => R!Init
  BY DEF Init, R!Init
<1>. QED BY <1>1, StepVisits, SessionInvariant, PTL DEF Spec, KeepsToRun, R!Spec

------------------------------------------------------------------------------
\* What is published is taken

\* A machine that stands inside the image is resumed from its record.
LEMMA ResumeTakes ==
  ASSUME NEW x \in Machines, x.st.PC \in CodeAddrs
  PROVE  resumed(record_of(x)).answer = "ok"
<1>. DEFINE r == record_of(x)
            b == debugged(r.CODE, r.DATA, r.inputs, TICK_BUDGET_DEFAULT, r.st.PC, x.block)
<1>1. r.CODE = x.code /\ r.DATA = x.data /\ r.inputs = x.inputs /\ r.st = x.st
      /\ from_dict(r.block) = x.block
  BY BlockCarried DEF record_of
<1>2. Len(x.code) = CODE_SIZE
  <2>1. check_record(record_of(x), x)
    BY MachinesAssumption
  <2>. QED BY <1>1, <2>1 DEF check_record
<1>. HIDE DEF r
<1>3. ~debug_error(x.code, x.data, TICK_BUDGET_DEFAULT, x.st.PC, x.block)
  <2>1. ~load_error(x.code, x.data, TICK_BUDGET_DEFAULT, OUT_CAP, x.block)
    BY MachinesAssumption
  <2>2. CODE_SIZE \in 1 .. CODE_SIZE
    BY RecordAssumption
  <2>. QED BY <1>2, <2>1, <2>2 DEF debug_error, CodeAddrs
<1>4. resumed(r) = install_state("NCP8", b, r)
  BY <1>1, <1>3, Zenon DEF resumed
<1>5. b.block = x.block /\ b.inputs = x.inputs
  <2>. DEFINE bt == boot(x.code, x.data, x.inputs, TICK_BUDGET_DEFAULT, OUT_CAP, x.block)
  <2>1. /\ bt.inputs = x.inputs
        /\ bt.block = [codelen    |-> codelen_of(x.code, x.block),
                       entry      |-> entry_of(x.block),
                       vtab       |-> x.block.vtab,
                       tickbudget |-> resolve_constraint(TICK_BUDGET_DEFAULT, x.block.tickbudget),
                       outcap     |-> resolve_constraint(OUT_CAP, x.block.outcap)]
    BY DEF boot
  <2>2. \A n \in CONFIG_FIELDS \ {"vtab"} : x.block[n] # None
    <3>1. \A n \in CONFIG_FIELDS \ {"vtab"} : x.block[n] \in Nat
      BY MachinesAssumption, Zenon
    <3>2. None \notin Nat
      BY RecordAssumption
    <3>. QED BY <3>1, <3>2
  <2>3. /\ codelen_of(x.code, x.block) = x.block.codelen
        /\ entry_of(x.block) = x.block.entry
        /\ resolve_constraint(TICK_BUDGET_DEFAULT, x.block.tickbudget) = x.block.tickbudget
        /\ resolve_constraint(OUT_CAP, x.block.outcap) = x.block.outcap
    BY <2>2 DEF codelen_of, entry_of, resolve_constraint, CONFIG_FIELDS
  <2>4. x.block = [n \in CONFIG_FIELDS |-> x.block[n]]
    BY MachinesAssumption
  <2>. HIDE DEF bt
  <2>5. bt.block = x.block
    BY <2>1, <2>3, <2>4, SMT DEF CONFIG_FIELDS
  <2>6. b = IF x.st.PC = 0 THEN bt ELSE [bt EXCEPT !.st.PC = x.st.PC]
    BY <1>1, Zenon DEF debugged, bt
  <2>7. b.block = bt.block /\ b.inputs = bt.inputs
    BY <2>1, <2>6, SMT
  <2>. QED BY <2>1, <2>5, <2>7
<1>. HIDE DEF b
<1>6. install_state("NCP8", b, r) = [m |-> x, answer |-> "ok"]
  BY <1>5, Taken DEF r, Holds
<1>. QED BY <1>4, <1>6 DEF r

\* As long as every machine stands inside the image, what a session publishes is
\* installed on every path and resumed: the hypothesis is what an image that fills
\* CODE breaks at its end (run session_edge).
THEOREM PublishedIsTaken ==
  ASSUME \A x \in Machines : x.st.PC \in CodeAddrs
  PROVE  Spec => []TakenInstalls
<1>1. Init => TakenInstalls
  BY DEF Init, TakenInstalls, Quiet, answered
<1>2. IInv /\ TakenInstalls /\ [Next]_vars => TakenInstalls'
  <2>. SUFFICES ASSUME IInv, TakenInstalls, [Next]_vars PROVE TakenInstalls'
    OBVIOUS
  <2>1. CASE last' = Quiet
    BY <2>1 DEF TakenInstalls, Quiet, answered
  <2>2. CASE checkpoint \/ record_state
    <3>1. \E call : \E x \in Machines : publish(call, x)
      <4>1. m \in Machines /\ (astray \/ cm \in Machines)
        BY DEF IInv, TypeOK
      <4>2. publish("checkpoint", m) \/ (~astray /\ publish("record_state", cm))
        BY <2>2, Zenon DEF checkpoint, record_state
      <4>. QED BY <4>1, <4>2, Zenon
    <3>2. PICK call : \E x \in Machines : publish(call, x)
      BY <3>1
    <3>3. PICK x \in Machines : publish(call, x)
      BY <3>2
    <3>4. last' = answered(call, "ok")
      <4>1. check_record(record_of(x), x)
        BY MachinesAssumption
      <4>. QED BY <3>3, <4>1, Zenon DEF publish
    <3>5. last'.answer = "ok"
      BY <3>4 DEF answered
    <3>. QED BY <3>5 DEF TakenInstalls
  <2>3. CASE \E bs, ws : resume(bs, ws)
    <3>1. PICK x \in seen : rec = record_of(x)
      BY <2>3 DEF resume, IInv, TypeOK
    <3>2. x \in Machines
      BY DEF IInv, TypeOK
    <3>3. resumed(rec).answer = "ok"
      BY <3>1, <3>2, ResumeTakes
    <3>4. last' = answered("resume", resumed(rec).answer)
      BY <2>3 DEF resume
    <3>5. last'.answer = "ok"
      BY <3>3, <3>4, Zenon DEF answered
    <3>. QED BY <3>5 DEF TakenInstalls
  <2>4. CASE InstallPublished
    <3>1. last'.answer = "ok"
      BY <2>4, InstallKeeps DEF InstallPublished
    <3>. QED BY <3>1 DEF TakenInstalls
  <2>5. CASE InstallSpoiled \/ InstallWide
    <3>1. PICK call \in {"install spoiled", "install wide"} : \E r : Install(call, r)
      BY <2>5 DEF InstallSpoiled, InstallWide
    <3>2. \E answer : last' = answered(call, answer)
      BY <3>1 DEF Install
    <3>3. last'.answer = "refused" => last'.call = call
      <4>1. PICK answer : last' = answered(call, answer)
        BY <3>2
      <4>2. last'.answer = answer /\ (answer # "ok" => last'.call = call)
        BY <4>1 DEF answered
      <4>. QED BY <4>2, "ok" # "refused"
    <3>. QED BY <3>3 DEF TakenInstalls
  <2>6. CASE UNCHANGED vars
    BY <2>6 DEF vars, TakenInstalls
  <2>. QED BY <2>1, <2>2, <2>3, <2>4, <2>5, <2>6
       DEF Next, step, DebugStep, RunStep, UntilStep, break_at, drop_breakpoint, watch,
           drop_watchpoint, Begin, RunStopped, RunExhausted, UntilFails, CircuitStep
<1>. QED BY <1>1, <1>2, SessionInvariant, PTL DEF Spec

------------------------------------------------------------------------------
\* A recording replays, and what is visited is on it

Below == {ss \in Nat \X Nat : ss[1] < ss[2]}

\* Induction: a set of numbers that is not empty has a least one.
LEMMA Least ==
  ASSUME NEW T \in SUBSET Nat, T # {}
  PROVE  \E n \in T : \A k \in T : n <= k
<1>1. IsWellFoundedOn(Below, Nat)
  BY NatLessThanWellFounded DEF OpToRel, Below
<1>2. PICK n \in T : \A k \in T : <<k, n>> \notin Below
  BY <1>1, WFMin
<1>3. ASSUME NEW k \in T PROVE n <= k
  <2>1. <<k, n>> \notin Below
    BY <1>2
  <2>. QED BY <2>1 DEF Below
<1>. QED BY <1>3

LEMMA AllNumbers ==
  ASSUME NEW S \in SUBSET Nat, 0 \in S, \A n \in S : n + 1 \in S
  PROVE  S = Nat
<1>. SUFFICES ASSUME Nat \ S # {} PROVE FALSE
  OBVIOUS
<1>1. PICK n \in Nat \ S : \A k \in Nat \ S : n <= k
  BY Least
<1>2. n # 0 /\ n - 1 \in Nat
  BY <1>1
<1>. QED BY <1>1, <1>2

\* What one more tick makes of a run.
onward(w) == IF w.m.st.status # RUNNING THEN w
             ELSE [m |-> Exec(w.m).m, frames |-> Append(w.frames, frame(w.m))]

fresh(b) == [m |-> b, frames |-> <<>>]

\* g lists the first n ticks of a run from machine b.
Lists(b, g, n) == g[0] = fresh(b) /\ \A i \in 1 .. n : g[i] = onward(g[i - 1])

LEMMA ListExists ==
  ASSUME NEW b
  PROVE  \A n \in Nat : \E g : Lists(b, g, n)
<1>. DEFINE S == {n \in Nat : \E g : Lists(b, g, n)}
<1>1. 0 \in S
  <2>1. Lists(b, [i \in {0} |-> fresh(b)], 0)
    BY DEF Lists
  <2>. QED BY <2>1
<1>2. ASSUME NEW n \in S PROVE n + 1 \in S
  <2>1. PICK g : Lists(b, g, n)
    OBVIOUS
  <2>. DEFINE h == [i \in 0 .. n + 1 |-> IF i = n + 1 THEN onward(g[n]) ELSE g[i]]
  <2>2. h[0] = fresh(b)
    BY <2>1 DEF Lists
  <2>3. ASSUME NEW i \in 1 .. n + 1 PROVE h[i] = onward(h[i - 1])
    BY <2>1 DEF Lists
  <2>4. Lists(b, h, n + 1)
    BY <2>2, <2>3 DEF Lists
  <2>. QED BY <2>4
<1>. HIDE DEF S
<1>3. S = Nat
  <2>1. S \in SUBSET Nat
    BY DEF S
  <2>. QED BY <1>1, <1>2, <2>1, AllNumbers
<1>. QED BY <1>3 DEF S

LEMMA ListsAgree ==
  ASSUME NEW b, NEW n \in Nat, NEW k \in Nat, NEW g, NEW h,
         Lists(b, g, n), Lists(b, h, k), NEW j \in Nat, j <= n, j <= k
  PROVE  g[j] = h[j]
<1>. DEFINE T == {i \in Nat : i <= n /\ i <= k /\ g[i] # h[i]}
<1>. SUFFICES ASSUME T # {} PROVE FALSE
  OBVIOUS
<1>1. PICK i \in T : \A l \in T : i <= l
  BY Least
<1>2. i # 0
  BY <1>1 DEF Lists
<1>3. i - 1 \in Nat /\ i - 1 \notin T
  BY <1>1, <1>2
<1>4. g[i - 1] = h[i - 1]
  BY <1>3
<1>5. g[i] = onward(g[i - 1]) /\ h[i] = onward(h[i - 1])
  BY <1>2 DEF Lists
<1>. QED BY <1>4, <1>5

\* A run one tick longer is one more tick of the run.
LEMMA StepsUnfold ==
  ASSUME NEW b
  PROVE  /\ steps(b, 0) = fresh(b)
         /\ \A n \in Nat : steps(b, n + 1) = onward(steps(b, n))
<1>. DEFINE rule(at) == [k \in Nat |-> IF k = 0 THEN fresh(b) ELSE onward(at[k - 1])]
            at == CHOOSE at : at = rule(at)
            upto(k) == CHOOSE g : Lists(b, g, k)
            f == [k \in Nat |-> upto(k)[k]]
<1>1. \A n : steps(b, n) = at[n]
  BY DEF steps, onward, fresh
<1>2. \A k \in Nat : Lists(b, upto(k), k)
  BY ListExists
<1>. HIDE DEF upto
<1>3. ASSUME NEW k \in Nat PROVE f[k] = IF k = 0 THEN fresh(b) ELSE onward(f[k - 1])
  <2>1. CASE k = 0
    BY <1>2, <2>1 DEF Lists
  <2>2. CASE k # 0
    <3>1. k - 1 \in Nat
      BY <2>2
    <3>2. upto(k)[k] = onward(upto(k)[k - 1])
      BY <1>2, <2>2 DEF Lists
    <3>3. upto(k)[k - 1] = upto(k - 1)[k - 1]
      BY <1>2, <3>1, ListsAgree
    <3>. QED BY <2>2, <3>1, <3>2, <3>3
  <2>. QED BY <2>1, <2>2
<1>4. f = rule(f)
  BY <1>3
<1>5. at = rule(at)
  BY <1>4
<1>. HIDE DEF at
<1>6. at[0] = fresh(b) /\ \A n \in Nat : at[n + 1] = onward(at[n])
  BY <1>5
<1>. QED BY <1>1, <1>6

------------------------------------------------------------------------------
\* The recording of a session

\* A configuration has the fields of the block, whatever declared them.
ConfigOK == config = [n \in CONFIG_FIELDS |-> config[n]]

LEMMA ConfigCarried ==
  ASSUME NEW cfg, cfg = [n \in CONFIG_FIELDS |-> cfg[n]]
  PROVE  from_dict(as_dict(cfg)) = cfg
<1>1. as_dict(cfg) = [n \in {n \in CONFIG_FIELDS : cfg[n] # None} |-> cfg[n]]
  BY Zenon DEF as_dict
<1>2. \A n \in CONFIG_FIELDS :
        (IF n \in DOMAIN as_dict(cfg) THEN as_dict(cfg)[n] ELSE None) = cfg[n]
  BY <1>1, SMT
<1>3. from_dict(as_dict(cfg)) = [n \in CONFIG_FIELDS |-> cfg[n]]
  BY <1>2, SMT DEF from_dict
<1>. QED BY <1>3

LEMMA ConfigAlways == Spec => []ConfigOK
<1>1. Init => ConfigOK
  BY SessionAssumption DEF Init, ConfigOK
<1>2. ConfigOK /\ [Next]_vars => ConfigOK'
  <2>. SUFFICES ASSUME ConfigOK, [Next]_vars PROVE ConfigOK'
    OBVIOUS
  <2>1. CASE config' = config
    BY <2>1, Zenon DEF ConfigOK
  <2>2. CASE config' = from_dict(rec.block)
    <3>. DEFINE d == rec.block
    <3>1. from_dict(d) = [n \in CONFIG_FIELDS |-> IF n \in DOMAIN d THEN d[n] ELSE None]
      BY Zenon DEF from_dict
    <3>. HIDE DEF d
    <3>2. \A n \in CONFIG_FIELDS : from_dict(d)[n] = IF n \in DOMAIN d THEN d[n] ELSE None
      BY <3>1, Zenon
    <3>3. from_dict(d) = [n \in CONFIG_FIELDS |-> from_dict(d)[n]]
      BY <3>1, <3>2, SMT
    <3>. QED BY <2>2, <3>3, Zenon DEF ConfigOK, d
  <2>. QED BY <2>1, <2>2, Zenon
       DEF Next, vars, session, step, DebugStep, RunStep, UntilStep, break_at, drop_breakpoint,
           watch, drop_watchpoint, Begin, RunStopped, RunExhausted, UntilFails, checkpoint,
           record_state, resume, CircuitStep, InstallPublished, InstallSpoiled, InstallWide,
           Install
<1>. QED BY <1>1, <1>2, PTL DEF Spec

\* An image that fills DATA and holds its vectors already is left as it is.
LEMMA SeededTwice ==
  ASSUME NEW dat, NEW vtab
  PROVE  LET D == seeded(ljust(dat, DATA_SIZE, 0), vtab)
         IN  seeded(ljust(D, DATA_SIZE, 0), vtab) = D
<1>. DEFINE E == ljust(dat, DATA_SIZE, 0)
            D == seeded(E, vtab)
<1>0. DATA_SIZE \in Nat
  BY RecordAssumption
<1>1. DOMAIN E = 1 .. DATA_SIZE /\ E = [i \in 1 .. DATA_SIZE |-> E[i]]
  BY SMT DEF ljust
<1>. HIDE DEF E
<1>2. D = [i \in 1 .. DATA_SIZE |-> D[i]]
  <2>1. CASE vtab = None
    BY <1>1, <2>1, Zenon DEF seeded
  <2>2. CASE vtab # None
    BY <1>1, <2>2, SMT DEF seeded
  <2>. QED BY <2>1, <2>2
<1>3. vtab # None => \A i \in 1 .. DATA_SIZE : i - vtab \in DOMAIN VecSeed => D[i] = VecSeed[i - vtab]
  BY <1>1, SMT DEF seeded
<1>. HIDE DEF D
<1>4. Len(D) = DATA_SIZE
  BY <1>0, <1>2, ImageIsSeq
<1>5. ljust(D, DATA_SIZE, 0) = D
  <2>1. \A i \in 1 .. DATA_SIZE : i <= Len(D)
    BY <1>0, <1>4, SMT
  <2>2. ljust(D, DATA_SIZE, 0) = [i \in 1 .. DATA_SIZE |-> D[i]]
    BY <2>1, SMT DEF ljust
  <2>. QED BY <1>2, <2>2
<1>6. seeded(D, vtab) = D
  <2>1. CASE vtab = None
    BY <2>1 DEF seeded
  <2>2. CASE vtab # None
    <3>1. DOMAIN D = 1 .. DATA_SIZE
      BY <1>2
    <3>2. \A i \in 1 .. DATA_SIZE :
            (IF i - vtab \in DOMAIN VecSeed THEN VecSeed[i - vtab] ELSE D[i]) = D[i]
      BY <1>3, <2>2
    <3>3. seeded(D, vtab) = [i \in 1 .. DATA_SIZE |-> D[i]]
      BY <2>2, <3>1, <3>2, SMT DEF seeded
    <3>. QED BY <1>2, <3>3
  <2>. QED BY <2>1, <2>2
<1>. QED BY <1>5, <1>6, Zenon DEF D, E

\* The memory a machine is built from may be replaced by the one it starts with.
LEMMA SameStart ==
  ASSUME NEW code, NEW dat, NEW inputs, NEW budget, NEW PC, NEW cfg
  PROVE  LET b == debugged(code, dat, inputs, budget, PC, cfg)
         IN  debugged(code, b.data, inputs, budget, PC, cfg) = b
<1>. DEFINE D == seeded(ljust(dat, DATA_SIZE, 0), cfg.vtab)
            b == debugged(code, dat, inputs, budget, PC, cfg)
            bt == boot(code, dat, inputs, budget, OUT_CAP, cfg)
<1>1. bt.data = D
  BY DEF boot
<1>2. b.data = D
  <2>1. b = IF PC = 0 THEN bt ELSE [bt EXCEPT !.st.PC = PC]
    BY Zenon DEF debugged
  <2>2. bt = [st |-> bt.st, code |-> bt.code, data |-> bt.data, out |-> bt.out,
              inputs |-> bt.inputs, block |-> bt.block]
    BY DEF boot
  <2>. HIDE DEF bt, b, D
  <2>. QED BY <1>1, <2>1, <2>2, SMT
<1>3. seeded(ljust(D, DATA_SIZE, 0), cfg.vtab) = D
  BY SeededTwice
<1>4. boot(code, D, inputs, budget, OUT_CAP, cfg) = bt
  <2>. HIDE DEF D
  <2>. QED BY <1>3, Zenon DEF boot, D
<1>. HIDE DEF D
<1>5. debugged(code, D, inputs, budget, PC, cfg) = b
  BY <1>4, Zenon DEF debugged
<1>. QED BY <1>2, <1>5

\* A recording replays, frame for frame and to the same end, whatever the session
\* it was made from: its start determines the fresh run.
THEOREM RecordingReplays == Spec => []ReplayExact
<1>1. ConfigOK => ReplayExact
  <2>. SUFFICES ASSUME ConfigOK, NEW n \in 1 .. MaxSteps
                PROVE  replay(trajectory(recorded, n))
    BY Zenon DEF ReplayExact
  <2>. DEFINE b  == started(recorded)
              t  == trajectory(recorded, n)
              s2 == [t.start EXCEPT !.cfg = from_dict(as_dict(@))]
  <2>1. b = debugged(image, m.data, m.inputs, m.block.tickbudget, m.st.PC, config)
    BY DEF started, recorded
  <2>2. /\ t.start = [recorded EXCEPT !.dat = b.data]
        /\ t.max_steps = n
        /\ t.frames = steps(b, n).frames /\ t.end = outcome(steps(b, n).m)
    BY DEF trajectory
  <2>. HIDE DEF b, t
  <2>3. t.start = [code |-> image, dat |-> b.data, inputs |-> m.inputs,
                   tick_budget |-> m.block.tickbudget, PC |-> m.st.PC, cfg |-> config]
    BY <2>2 DEF recorded
  <2>4. from_dict(as_dict(config)) = config
    BY ConfigCarried DEF ConfigOK
  <2>5. /\ s2.code = image /\ s2.dat = b.data /\ s2.inputs = m.inputs
        /\ s2.tick_budget = m.block.tickbudget /\ s2.PC = m.st.PC /\ s2.cfg = config
    BY <2>3, <2>4
  <2>. HIDE DEF s2
  <2>6. started(s2) = b
    BY <2>1, <2>5, SameStart DEF started
  <2>7. /\ trajectory(s2, n).frames = steps(b, n).frames
        /\ trajectory(s2, n).end = outcome(steps(b, n).m)
    BY <2>6 DEF trajectory
  <2>. QED BY <2>2, <2>7, Zenon DEF replay, s2, t
<1>. QED BY <1>1, ConfigAlways, PTL

\* The machine after n ticks of the fresh run of s.
on_run(s, n) == steps(started(s), n).m

\* Every machine visited is one a recording made from the boot comes to: there is
\* one start, and each is where its fresh run is after some number of ticks.
OnOneRun == \E s \in Starts : \A x \in seen : \E n \in Nat : x = on_run(s, n)

\* Stepping on from a machine of a run is the next machine of the run, or the same.
LEMMA OneTickOn ==
  ASSUME NEW s, NEW n \in Nat, on_run(s, n) \in Machines
  PROVE  \E k \in Nat : Exec(on_run(s, n)).m = on_run(s, k)
<1>. DEFINE w == steps(started(s), n)
<1>1. on_run(s, n) = w.m /\ on_run(s, n + 1) = onward(w).m
  BY StepsUnfold DEF on_run
<1>. HIDE DEF w
<1>2. CASE w.m.st.status # RUNNING
  BY <1>1, <1>2, ExecAssumption
<1>3. CASE w.m.st.status = RUNNING
  <2>1. onward(w).m = Exec(w.m).m
    BY <1>3 DEF onward
  <2>. QED BY <1>1, <2>1, n + 1 \in Nat
<1>. QED BY <1>2, <1>3

\* Stepping, resuming, carrying a record across: no session leaves the run its
\* recording replays.
THEOREM VisitedIsOnOneRun == Spec => []OnOneRun
<1>1. Init => OnOneRun
  <2>. SUFFICES ASSUME Init PROVE OnOneRun
    OBVIOUS
  <2>1. PICK s \in Starts : m = started(s) /\ seen = {m}
    BY DEF Init
  <2>2. on_run(s, 0) = started(s)
    BY StepsUnfold DEF on_run, fresh
  <2>. QED BY <2>1, <2>2 DEF OnOneRun
<1>2. IInv /\ OnOneRun /\ [Next]_vars => OnOneRun'
  <2>. SUFFICES ASSUME IInv, OnOneRun, [Next]_vars PROVE OnOneRun'
    OBVIOUS
  <2>1. CASE seen' = seen
    BY <2>1 DEF OnOneRun
  <2>2. CASE R!Next
    <3>1. PICK s \in Starts : \A x \in seen : \E n \in Nat : x = on_run(s, n)
      BY DEF OnOneRun
    <3>2. PICK x \in seen : seen' = seen \cup {Exec(x).m}
      BY <2>2 DEF R!Next
    <3>3. PICK n \in Nat : x = on_run(s, n)
      BY <3>1, <3>2
    <3>4. x \in Machines
      BY <3>2 DEF IInv, TypeOK
    <3>5. \E k \in Nat : Exec(x).m = on_run(s, k)
      BY <3>3, <3>4, OneTickOn
    <3>6. \A y \in seen' : \E k \in Nat : y = on_run(s, k)
      BY <3>1, <3>2, <3>5
    <3>. QED BY <3>6 DEF OnOneRun
  <2>. QED BY <2>1, <2>2, StepVisits
<1>. QED BY <1>1, <1>2, SessionInvariant, PTL DEF Spec
=============================================================================
