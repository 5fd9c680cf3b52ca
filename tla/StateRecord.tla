---------------------------- MODULE StateRecord ----------------------------
(***************************************************************************)
(* What a machine is built from and what a state record carries: the       *)
(* configuration block and the record contract of src/isa_table.py, the    *)
(* constructor, record_state and install_state of src/golden_sim.py, and   *)
(* the same two operations of the circuit paths, which store the fields    *)
(* one after the other in 32-bit tensors.                                  *)
(*                                                                         *)
(* A machine is a record: st holds the scalars of the state table, block   *)
(* the bounds it obeys once every source of a bound is resolved.           *)
(***************************************************************************)
EXTENDS Integers, Sequences

CONSTANTS
  CODE_SIZE, DATA_SIZE,   \* lengths of the two images
  OUT_CAP,                \* the output buffer a machine allocates
  TICK_BUDGET_DEFAULT,
  INT32_MAX,              \* the largest value a cell of a tensor holds
  Width,                  \* the largest value of each scalar, or None
  VecSeed,                \* vtab_seed_bytes of the declared vectors
  ZeroCell,               \* what a cell of CODE holds when nothing was loaded
  None                    \* Python's None

STATE_FIELDS == {"r", "PC", "ipos", "tick", "status", "fault_reason", "fault_addr",
                 "TDEPTH", "STC_COUNT"}
CONFIG_FIELDS == {"codelen", "entry", "vtab", "tickbudget", "outcap"}
RECORD_COMPONENTS == {"st", "CODE", "DATA", "out", "inputs", "block"}

RUNNING == 0
OVERRUN == 2
ERROR   == 3

ASSUME RecordAssumption ==
  /\ CODE_SIZE \in Nat \ {0} /\ DATA_SIZE \in Nat \ {0} /\ OUT_CAP \in Nat \ {0}
  /\ TICK_BUDGET_DEFAULT \in Nat /\ INT32_MAX \in Nat
  /\ None \notin Int
  /\ Width \in [STATE_FIELDS -> Nat \cup {None}]

------------------------------------------------------------------------------
\* The configuration block

\* A bound that the block may declare and a constructor argument may move.
resolve_constraint(ctor, cfg) == IF cfg = None THEN ctor ELSE cfg
two_sources(ctor, default, cfg) == cfg # None /\ ctor # default /\ ctor # cfg

check_capacity(v) == v \in 1 .. OUT_CAP /\ \E i \in 0 .. v : v = 2 ^ i

\* as_dict leaves out what is not declared; from_dict restores it as None.
as_dict(cfg) == [n \in {n \in CONFIG_FIELDS : cfg[n] # None} |-> cfg[n]]
from_dict(d) == [n \in CONFIG_FIELDS |-> IF n \in DOMAIN d THEN d[n] ELSE None]

entry_error(entry, codelen) == codelen > 0 /\ entry >= codelen

------------------------------------------------------------------------------
\* A machine is built

codelen_of(code, cfg) == resolve_constraint(Len(code), cfg.codelen)
entry_of(cfg)         == resolve_constraint(0, cfg.entry)

load_error(code, dat, tick_budget, out_cap, cfg) ==
  \/ Len(code) > CODE_SIZE
  \/ codelen_of(code, cfg) > Len(code)
  \/ entry_error(entry_of(cfg), codelen_of(code, cfg))
  \/ Len(dat) > DATA_SIZE
  \/ two_sources(out_cap, OUT_CAP, cfg.outcap)
  \/ ~check_capacity(resolve_constraint(out_cap, cfg.outcap))
  \/ two_sources(tick_budget, TICK_BUDGET_DEFAULT, cfg.tickbudget)

\* An image fills a buffer from its start.
ljust(s, n, z) == [i \in 1 .. n |-> IF i <= Len(s) THEN s[i] ELSE z]

\* The vector table is seeded over whatever the data image held there.
seeded(dat, vtab) ==
  IF vtab = None THEN dat
  ELSE [i \in DOMAIN dat |->
         IF i - vtab \in DOMAIN VecSeed THEN VecSeed[i - vtab] ELSE dat[i]]

boot(code, dat, inputs, tick_budget, out_cap, cfg) ==
  [st     |-> [f \in STATE_FIELDS |-> IF f = "PC" THEN entry_of(cfg) ELSE 0],
   code   |-> ljust(code, CODE_SIZE, ZeroCell),
   data   |-> seeded(ljust(dat, DATA_SIZE, 0), cfg.vtab),
   out    |-> <<>>,
   inputs |-> inputs,
   block  |-> [codelen    |-> codelen_of(code, cfg),
               entry      |-> entry_of(cfg),
               vtab       |-> cfg.vtab,
               tickbudget |-> resolve_constraint(tick_budget, cfg.tickbudget),
               outcap     |-> resolve_constraint(out_cap, cfg.outcap)]]

------------------------------------------------------------------------------
\* A record is taken, checked and put back

record_of(m) == [st |-> m.st, CODE |-> m.code, DATA |-> m.data, out |-> m.out,
                 inputs |-> m.inputs, block |-> as_dict(m.block)]

\* check_record against the machine that publishes or receives: the field
\* widths are not its business, they are state_error's.
check_record(rec, m) ==
  /\ DOMAIN rec = RECORD_COMPONENTS
  /\ Len(rec.CODE) = CODE_SIZE /\ Len(rec.DATA) = DATA_SIZE
  /\ Len(rec.out) <= m.block.outcap
  /\ rec.st.ipos <= Len(rec.inputs)
  /\ rec.inputs = m.inputs
  /\ from_dict(rec.block) = m.block

state_error(st) ==
  \/ \E f \in STATE_FIELDS : st[f] < 0 \/ (Width[f] # None /\ st[f] > Width[f])
  \/ (st.status = ERROR) # (st.fault_reason # 0)

\* The order in which a path stores the scalars of a record.
write_order(path) ==
  IF path = "TorchCircuit"
  THEN <<"r", "PC", "TDEPTH", "STC_COUNT", "ipos", "tick", "status", "fault_reason",
         "fault_addr">>
  ELSE <<"r", "PC", "ipos", "tick", "status", "fault_reason", "fault_addr", "TDEPTH",
         "STC_COUNT">>

fits(path, st, i) == path = "NCP8" \/ st[write_order(path)[i]] <= INT32_MAX

\* The scalars stored before the first one that does not fit a tensor.
stored(path, st) ==
  {write_order(path)[i] : i \in {i \in DOMAIN write_order(path) :
                                   \A j \in 1 .. i : fits(path, st, j)}}

\* A batch row stores the output's length among the scalars, before tick.
out_stored(path, st) == path = "TritonBatch" /\ {"ipos"} \subseteq stored(path, st)

\* Slip: the machine keeps its own program, and what the recorded one rewrote
\* of it is lost.
whole_OwnCode(m, rec) == [m EXCEPT !.st = rec.st, !.data = rec.DATA, !.out = rec.out]

whole(m, rec) ==
  [st |-> rec.st, code |-> rec.CODE, data |-> rec.DATA, out |-> rec.out,
   inputs |-> m.inputs, block |-> m.block]

half(path, m, rec) ==
  [m EXCEPT !.st = [f \in STATE_FIELDS |->
                      IF f \in stored(path, rec.st) THEN rec.st[f] ELSE m.st[f]],
            !.out = IF out_stored(path, rec.st) THEN ljust(@, Len(rec.out), 0) ELSE @]

\* Slip: the scalars are stored before they are checked.
install_state_Early(path, m, rec) ==
  IF ~check_record(rec, m) THEN [m |-> m, answer |-> "refused"]
  ELSE [m |-> whole(m, rec), answer |-> IF state_error(rec.st) THEN "refused" ELSE "ok"]

\* install_state: what becomes of machine m and of the call.
install_state(path, m, rec) ==
  IF ~check_record(rec, m) \/ state_error(rec.st) THEN [m |-> m, answer |-> "refused"]
  ELSE IF stored(path, rec.st) = STATE_FIELDS THEN [m |-> whole(m, rec), answer |-> "ok"]
  ELSE [m |-> half(path, m, rec), answer |-> "refused"]
=============================================================================
