------------------------------ MODULE Session ------------------------------
(***************************************************************************)
(* src/debug.py: a debugging session over one machine -- breakpoints,      *)
(* watchpoints, frames, run and run_until, checkpoint and resume -- and a  *)
(* second machine of the same program on another execution path, between   *)
(* which state records are carried.                                        *)
(*                                                                         *)
(* A tick is the constant operator Exec (module Machine models the tick    *)
(* itself): the machine after it, whether it raised, and the addresses of  *)
(* DATA it wrote.                                                          *)
(***************************************************************************)
EXTENDS StateRecord

CONSTANTS
  Exec(_),
  Machines,      \* a set of machines closed under Exec
  Starts,        \* the arguments sessions are built with
  Paths,         \* where the second machine runs
  MaxSteps,      \* bound: the largest step cap of a run
  MaxFrames,     \* bound: single steps are not taken past this many frames
  Breaks,        \* bound: the addresses breakpoints are set at
  Watches,       \* bound: the addresses watched
  Wide           \* bound: the scalars put above a cell in records made by hand

VARIABLES
  m, image, config,             \* the session's machine and what built it
  breakpoints, watchpoints,
  frames, stopped,
  loop,                         \* the run under way
  rec,                          \* the record in hand
  path, cm,                     \* the second machine
  astray,                       \* a record of no machine of the program is in it, or half of one
  last,                         \* what the last record call answered
  seen                          \* every machine state visited

session == <<image, config, breakpoints, watchpoints>>
second == <<path, cm, astray>>
vars == <<m, session, frames, stopped, loop, rec, second, last, seen>>

CodeAddrs == 0 .. CODE_SIZE - 1
DataAddrs == 0 .. DATA_SIZE - 1
Modes     == {"idle", "run", "until"}

STATUS_NAME == [c \in 0 .. 3 |-> CASE c = RUNNING -> "running" [] c = 1 -> "halt"
                                    [] c = OVERRUN -> "overrun" [] c = ERROR -> "error"]

view(x) == [st |-> x.st, out_len |-> Len(x.out)]

Idle  == [mode |-> "idle", left |-> 0, from |-> 0]
\* What the last record call refused, if it refused.
answered(call, answer) == [call |-> IF answer = "ok" THEN "none" ELSE call, answer |-> answer]
Quiet == answered("none", "ok")

------------------------------------------------------------------------------
\* Building a session

\* Slip: the start address is held to the program instead of to the image.
debug_error_Program(code, dat, tick_budget, PC, cfg) ==
  \/ Len(code) \notin 1 .. CODE_SIZE
  \/ PC \notin 0 .. codelen_of(code, cfg) - 1
  \/ load_error(code, dat, tick_budget, OUT_CAP, cfg)

debug_error(code, dat, tick_budget, PC, cfg) ==
  \/ Len(code) \notin 1 .. CODE_SIZE
  \/ PC \notin 0 .. Len(code) - 1
  \/ load_error(code, dat, tick_budget, OUT_CAP, cfg)

\* A start address of 0 leaves the machine at its entry.
debugged(code, dat, inputs, tick_budget, PC, cfg) ==
  LET b == boot(code, dat, inputs, tick_budget, OUT_CAP, cfg)
  IN  IF PC = 0 THEN b ELSE [b EXCEPT !.st.PC = PC]

started(s) == debugged(s.code, s.dat, s.inputs, s.tick_budget, s.PC, s.cfg)

\* Where a second machine is built: a batch takes no declared program length, and
\* a circuit keeps the budget in a cell.
hosts(p, s) == /\ p = "TritonBatch" => s.cfg.codelen = None
               /\ p # "NCP8" => started(s).block.tickbudget <= INT32_MAX

ASSUME SessionAssumption ==
  /\ MaxSteps \in Nat \ {0} /\ MaxFrames \in Nat
  /\ None \notin {"fault", "watchpoint", "breakpoint", "halt", "overrun", "error"}
  /\ Width["TDEPTH"] \in Nat /\ Width["status"] = 3
  /\ Width["tick"] = None /\ Width["STC_COUNT"] > INT32_MAX
  /\ Wide \subseteq {"tick", "STC_COUNT"}
  /\ Breaks \subseteq CodeAddrs /\ Watches \subseteq DataAddrs
  /\ Paths \subseteq {"NCP8", "TorchCircuit", "TritonCircuit", "TritonBatch"}
  /\ \A s \in Starts :
       /\ ~debug_error(s.code, s.dat, s.tick_budget, s.PC, s.cfg)
       /\ started(s) \in Machines
       /\ s = [code |-> s.code, dat |-> s.dat, inputs |-> s.inputs,
               tick_budget |-> s.tick_budget, PC |-> s.PC, cfg |-> s.cfg]
       /\ s.cfg = [n \in CONFIG_FIELDS |-> s.cfg[n]]

\* What the tick guarantees: it stays among the machines and reaches no load-time
\* input, a tick that raises has stored nothing and leaves the error status, and
\* a machine that is not running is left alone.
ASSUME ExecAssumption ==
  \A x \in Machines :
    /\ Exec(x).m \in Machines
    /\ Exec(x).m.inputs = x.inputs /\ Exec(x).m.block = x.block
    /\ Exec(x).raised \in BOOLEAN
    /\ Exec(x).writes \subseteq DataAddrs
    /\ Exec(x).raised => Exec(x).writes = {} /\ Exec(x).m.st.status = ERROR
    /\ x.st.status # RUNNING => Exec(x).m = x /\ ~Exec(x).raised

\* What a machine is: it satisfies the contract it publishes its records under,
\* its bounds are bounds a machine may be built with, and no scalar is above what
\* a cell of a tensor holds unless the budget is (a tick adds at most one to tick,
\* to STC_COUNT and to ipos, and the other scalars have widths of their own).
ASSUME MachinesAssumption ==
  \A x \in Machines :
    /\ x = [st |-> x.st, code |-> x.code, data |-> x.data, out |-> x.out,
            inputs |-> x.inputs, block |-> x.block]
    /\ x.st = [f \in STATE_FIELDS |-> x.st[f]]
    /\ \A f \in STATE_FIELDS : x.st[f] \in Nat
    /\ x.block.tickbudget <= INT32_MAX => \A f \in STATE_FIELDS : x.st[f] <= INT32_MAX
    /\ ~state_error(x.st)
    /\ x.code = [i \in 1 .. CODE_SIZE |-> x.code[i]]
    /\ x.out \in Seq(Nat) /\ x.inputs \in Seq(Nat)
    /\ x.block = [n \in CONFIG_FIELDS |-> x.block[n]]
    /\ \A n \in CONFIG_FIELDS \ {"vtab"} : x.block[n] \in Nat
    /\ x.block.outcap <= OUT_CAP
    /\ check_record(record_of(x), x)
    /\ ~load_error(x.code, x.data, TICK_BUDGET_DEFAULT, OUT_CAP, x.block)

Init ==
  /\ \E s \in Starts :
       /\ m = started(s)
       /\ image = s.code /\ config = s.cfg
       /\ path \in {p \in Paths : hosts(p, s)}
  /\ breakpoints = {} /\ watchpoints = {}
  /\ frames = <<>> /\ stopped = "running" /\ loop = Idle
  /\ rec = None /\ cm = m /\ astray = FALSE
  /\ last = Quiet /\ seen = {m}

------------------------------------------------------------------------------
\* Points to stop at

idle == loop.mode = "idle"

break_at(a) ==
  /\ idle /\ breakpoints' = breakpoints \cup {a} /\ last' = Quiet
  /\ UNCHANGED <<m, image, config, watchpoints, frames, stopped, loop, rec, second, seen>>

watch(a) ==
  /\ idle /\ watchpoints' = watchpoints \cup {a} /\ last' = Quiet
  /\ UNCHANGED <<m, image, config, breakpoints, frames, stopped, loop, rec, second, seen>>

drop_breakpoint(a) ==
  /\ idle /\ a \in breakpoints /\ breakpoints' = breakpoints \ {a} /\ last' = Quiet
  /\ UNCHANGED <<m, image, config, watchpoints, frames, stopped, loop, rec, second, seen>>

drop_watchpoint(a) ==
  /\ idle /\ a \in watchpoints /\ watchpoints' = watchpoints \ {a} /\ last' = Quiet
  /\ UNCHANGED <<m, image, config, breakpoints, frames, stopped, loop, rec, second, seen>>

------------------------------------------------------------------------------
\* Stepping

\* Slip: the state before the tick is read after it.
frame_Late(x) == [pre    |-> view(Exec(x).m),
                  post   |-> IF Exec(x).raised THEN None ELSE view(Exec(x).m),
                  writes |-> Exec(x).writes,
                  raised |-> Exec(x).raised]

\* A frame: the state before the tick, the state after it unless it raised, and
\* the writes the tick committed.
frame(x) == [pre    |-> view(x),
             post   |-> IF Exec(x).raised THEN None ELSE view(Exec(x).m),
             writes |-> Exec(x).writes,
             raised |-> Exec(x).raised]

DebugStep ==
  /\ m' = Exec(m).m
  /\ frames' = Append(frames, frame(m))
  /\ seen' = seen \cup {m'}
  /\ last' = Quiet
  /\ UNCHANGED <<session, rec, second>>

step == /\ idle /\ Len(frames) < MaxFrames
        /\ DebugStep
        /\ UNCHANGED <<stopped, loop>>

\* Slip: the breakpoint is looked up where the tick started.
reason_Pre(f, x) ==
  IF f.raised THEN "fault"
  ELSE IF f.writes \cap watchpoints # {} THEN "watchpoint"
  ELSE IF x.st.status # RUNNING THEN STATUS_NAME[x.st.status]
  ELSE IF f.pre.st.PC \in breakpoints THEN "breakpoint"
  ELSE None

\* Why a run stops after the frame f that took it to machine x; None to go on.
reason(f, x) ==
  IF f.raised THEN "fault"
  ELSE IF f.writes \cap watchpoints # {} THEN "watchpoint"
  ELSE IF x.st.status # RUNNING THEN STATUS_NAME[x.st.status]
  ELSE IF x.st.PC \in breakpoints THEN "breakpoint"
  ELSE None

Begin(mode, max_steps) ==
  /\ idle /\ Len(frames) < MaxFrames
  /\ loop' = [mode |-> mode, left |-> max_steps, from |-> Len(frames)]
  /\ last' = Quiet
  /\ UNCHANGED <<m, session, frames, stopped, rec, second, seen>>

\* Slip: a machine that has stopped is waited for.
RunStopped_Wait ==
  /\ loop.mode = "run" /\ loop.left > 0 /\ m.st.status # RUNNING
  /\ UNCHANGED vars

RunStopped ==
  /\ loop.mode = "run" /\ loop.left > 0 /\ m.st.status # RUNNING
  /\ stopped' = STATUS_NAME[m.st.status] /\ loop' = Idle /\ last' = Quiet
  /\ UNCHANGED <<m, session, frames, rec, second, seen>>

RunStep ==
  /\ loop.mode = "run" /\ loop.left > 0 /\ m.st.status = RUNNING
  /\ DebugStep
  /\ LET why == reason(frame(m), m')
     IN  IF why # None THEN stopped' = why /\ loop' = Idle
         ELSE stopped' = stopped /\ loop' = [loop EXCEPT !.left = @ - 1]

RunExhausted ==
  /\ loop.mode = "run" /\ loop.left = 0
  /\ stopped' = "max_steps" /\ loop' = Idle /\ last' = Quiet
  /\ UNCHANGED <<m, session, frames, rec, second, seen>>

\* run_until: the predicate is the caller's, so either answer is possible.
UntilStep ==
  /\ loop.mode = "until" /\ loop.left > 0 /\ m.st.status = RUNNING
  /\ DebugStep
  /\ \/ stopped' = "condition" /\ loop' = Idle
     \/ stopped' = stopped /\ loop' = [loop EXCEPT !.left = @ - 1]

\* Never held: an error to the caller, and stopped keeps what it said before.
UntilFails ==
  /\ loop.mode = "until" /\ (loop.left = 0 \/ m.st.status # RUNNING)
  /\ loop' = Idle /\ last' = Quiet
  /\ UNCHANGED <<m, session, frames, stopped, rec, second, seen>>

------------------------------------------------------------------------------
\* Records

\* publish_record holds a record to the contract it will be checked under.
publish(call, x) ==
  IF check_record(record_of(x), x)
  THEN rec' = record_of(x) /\ last' = answered(call, "ok")
  ELSE rec' = rec /\ last' = answered(call, "refused")

checkpoint ==
  /\ idle /\ publish("checkpoint", m)
  /\ UNCHANGED <<m, session, frames, stopped, loop, second, seen>>

record_state ==
  /\ idle /\ ~astray /\ publish("record_state", cm)
  /\ UNCHANGED <<m, session, frames, stopped, loop, second, seen>>

\* Slip: the record's own image is loaded but its scalars are not installed.
resumed_Boot(r) ==
  LET cfg == from_dict(r.block)
  IN  IF debug_error(r.CODE, r.DATA, TICK_BUDGET_DEFAULT, r.st.PC, cfg)
      THEN [m |-> None, answer |-> "refused"]
      ELSE [m |-> debugged(r.CODE, r.DATA, r.inputs, TICK_BUDGET_DEFAULT, r.st.PC, cfg),
            answer |-> "ok"]

\* What resume builds from a record; a refusal leaves the caller its session.
resumed(r) ==
  LET cfg == from_dict(r.block)
  IN  IF debug_error(r.CODE, r.DATA, TICK_BUDGET_DEFAULT, r.st.PC, cfg)
      THEN [m |-> None, answer |-> "refused"]
      ELSE install_state("NCP8",
                         debugged(r.CODE, r.DATA, r.inputs, TICK_BUDGET_DEFAULT, r.st.PC, cfg),
                         r)

resume(bs, ws) ==
  /\ idle /\ rec # None
  /\ last' = answered("resume", resumed(rec).answer)
  /\ IF resumed(rec).answer = "ok"
     THEN /\ m' = resumed(rec).m
          /\ image' = rec.CODE /\ config' = from_dict(rec.block)
          /\ breakpoints' = bs /\ watchpoints' = ws
          /\ frames' = <<>> /\ stopped' = "running"
     ELSE UNCHANGED <<m, session, frames, stopped>>
  /\ seen' = seen \cup {m'}
  /\ UNCHANGED <<loop, rec, second>>

CircuitStep ==
  /\ idle /\ ~astray
  /\ cm' = Exec(cm).m /\ seen' = seen \cup {cm'} /\ last' = Quiet
  /\ UNCHANGED <<m, session, frames, stopped, loop, rec, path, astray>>

Install(call, r) ==
  LET got == install_state(path, cm, r)
  IN  /\ idle
      /\ cm' = got.m
      /\ astray' = IF got.answer = "ok" THEN r # rec ELSE astray \/ got.m # cm
      /\ seen' = IF astray' THEN seen ELSE seen \cup {cm'}
      /\ last' = answered(call, got.answer)
      /\ UNCHANGED <<m, session, frames, stopped, loop, rec, path>>

\* The record in hand, which a machine of the program published.
InstallPublished == rec # None /\ Install("install", rec)

\* Records no machine of this program publishes: a component missing, an image
\* cut short, an output above the capacity, another stream, another block, a
\* scalar past its width, an error without its cause and a cause without error.
spoiled(r) ==
  {[c \in DOMAIN r \ {"DATA"} |-> r[c]],
   [r EXCEPT !.CODE = Tail(@)],
   [r EXCEPT !.out = ljust(@, OUT_CAP + 1, 0)],
   [r EXCEPT !.inputs = Append(@, 0)],
   [r EXCEPT !.st.ipos = Len(r.inputs) + 1],
   [r EXCEPT !.block = [n \in DOMAIN @ \ {"entry"} |-> r.block[n]]],
   [r EXCEPT !.st.TDEPTH = Width["TDEPTH"] + 1],
   [r EXCEPT !.st = [@ EXCEPT !.status = ERROR, !.fault_reason = 0]],
   [r EXCEPT !.st = [@ EXCEPT !.status = RUNNING, !.fault_reason = 1]]}

\* Records that break no rule of the contract and have a scalar above a 32-bit
\* cell: the tick has no width, the count of stores into CODE twice a cell's.
wide(r) == {[r EXCEPT !.st = [@ EXCEPT ![f] = INT32_MAX + 1]] : f \in Wide}

InstallSpoiled == rec # None /\ \E r \in spoiled(rec) : Install("install spoiled", r)

\* Whoever installed such a record uses the machine for nothing until a record the
\* program publishes is in it: what it would compute is no run of the program.
InstallWide ==
  rec # None /\ ~astray /\ \E r \in wide(rec) : Install("install wide", r)

Next ==
  \/ \E a \in Breaks : break_at(a) \/ drop_breakpoint(a)
  \/ \E a \in Watches : watch(a) \/ drop_watchpoint(a)
  \/ step
  \/ \E mode \in {"run", "until"}, n \in 1 .. MaxSteps : Begin(mode, n)
  \/ RunStopped \/ RunStep \/ RunExhausted
  \/ UntilStep \/ UntilFails
  \/ checkpoint \/ record_state
  \/ \E bs \in SUBSET Breaks, ws \in SUBSET Watches : resume(bs, ws)
  \/ CircuitStep
  \/ InstallPublished \/ InstallSpoiled \/ InstallWide

RunLoop == RunStopped \/ RunStep \/ RunExhausted \/ UntilStep \/ UntilFails

Spec     == Init /\ [][Next]_vars
FairSpec == Spec /\ WF_vars(RunLoop)

------------------------------------------------------------------------------
\* Recording and replay: a fresh session stepped to a cap, and its outcome.

\* The fresh machine b after n ticks, or where it stopped, and the frames.
steps(b, n) ==
  LET at[k \in Nat] ==
        IF k = 0 THEN [m |-> b, frames |-> <<>>]
        ELSE LET w == at[k - 1]
             IN  IF w.m.st.status # RUNNING THEN w
                 ELSE [m |-> Exec(w.m).m, frames |-> Append(w.frames, frame(w.m))]
  IN  at[n]

outcome(x) == [state |-> view(x), out |-> x.out, data |-> x.data, code |-> x.code]

\* Slip: the recording keeps the memory it ended with as the one it started from.
trajectory_EndData(s, max_steps) ==
  LET end == steps(started(s), max_steps)
  IN  [start     |-> [s EXCEPT !.dat = end.m.data],
       max_steps |-> max_steps,
       frames    |-> end.frames,
       end       |-> outcome(end.m)]

trajectory(s, max_steps) ==
  LET end == steps(started(s), max_steps)
  IN  [start     |-> [s EXCEPT !.dat = started(s).data],
       max_steps |-> max_steps,
       frames    |-> end.frames,
       end       |-> outcome(end.m)]

\* The arguments a session records under: its image, the memory it has now.
recorded == [code |-> image, dat |-> m.data, inputs |-> m.inputs,
             tick_budget |-> m.block.tickbudget, PC |-> m.st.PC, cfg |-> config]

\* The recording survives being carried as a dict, its block as as_dict has it.
replay(t) ==
  LET got == trajectory([t.start EXCEPT !.cfg = from_dict(as_dict(@))], t.max_steps)
  IN  got.frames = t.frames /\ got.end = t.end

------------------------------------------------------------------------------
\* Properties

\* The machines are machines, the second one unless it is astray; a run under way
\* counts what is left of its cap and began no later than the frames there are.
TypeOK ==
  /\ m \in Machines /\ (astray \/ cm \in Machines) /\ astray \in BOOLEAN /\ seen \subseteq Machines
  /\ breakpoints \subseteq Breaks /\ watchpoints \subseteq Watches
  /\ loop \in [mode : Modes, left : 0 .. MaxSteps, from : Nat]
  /\ loop.from <= Len(frames)
  /\ rec = None \/ \E x \in seen : rec = record_of(x)
  /\ path \in Paths

\* The frames of a session are one unbroken run (Debug.step): each starts in the
\* state the one before ended in, a tick that raised is followed by the same
\* state under an error status, and the last one ends where the machine stands.
FramesChain ==
  \A i \in 1 .. Len(frames) :
    LET now == IF i = Len(frames) THEN view(m) ELSE frames[i + 1].pre
    IN  IF frames[i].raised THEN frames[i].writes = {} /\ now.st.status = ERROR
        ELSE now = frames[i].post

\* A run passes nothing it should stop at (Debug.run): of the frames it has
\* taken, none but the last can have raised, written a watched address, left the
\* machine stopped or reached a breakpoint; and a run that goes on has not met one.
RunPassesNothing ==
  LET met(i) == \/ frames[i].raised
                \/ frames[i].writes \cap watchpoints # {}
                \/ frames[i].post.st.status # RUNNING
                \/ frames[i].post.st.PC \in breakpoints
  IN  loop.mode = "run" => \A i \in loop.from + 1 .. Len(frames) : ~met(i)

\* What a machine of the program publishes is taken everywhere it is carried:
\* checkpoint and record_state publish at every tick, and the record installs on
\* the other path, whatever was refused there before, and is resumed
\* (test_debug_resume: what a session publishes is something resume can take).
TakenInstalls ==
  last.answer = "refused" => last.call \in {"install spoiled", "install wide"}

\* A call that refuses a record leaves both machines as they were (ISA.md 6.1).
RefusalWritesNothing == [][last'.answer = "refused" => UNCHANGED <<m, cm>>]_vars

\* What a refusal can leave behind (install_state of the circuit paths): the
\* session's machine is never touched, the second one only by a record with a
\* scalar above its cells, and then its memories, its stream and its block are as
\* they were; the next record that is taken makes it the machine recorded.
RefusalContained ==
  [][ /\ last'.answer = "refused" =>
           /\ m' = m
           /\ cm' # cm => /\ last'.call = "install wide" /\ path # "NCP8"
                          /\ \A c \in {"code", "data", "inputs", "block"} : cm'[c] = cm[c]
      /\ astray /\ ~astray' => record_of(cm') = rec ]_vars

\* A recording replays: frame for frame, with the same output, memories and end,
\* whatever session it was made from and whatever cap it ran under.
ReplayExact ==
  \A n \in 1 .. MaxSteps :
    ~debug_error(recorded.code, recorded.dat, recorded.tick_budget, recorded.PC, recorded.cfg)
      => replay(trajectory(recorded, n))

\* A run under way ends: every iteration of it is taken sooner or later.
RunReturns == loop.mode # "idle" ~> loop.mode = "idle"

\* Whatever a session does, the machines visit only what one uninterrupted run
\* from the boot visits.
R == INSTANCE Rollout WITH Boots <- {started(s) : s \in Starts}
KeepsToRun == R!Spec
=============================================================================
