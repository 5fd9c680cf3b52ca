------------------------------- MODULE Loader -------------------------------
(***************************************************************************)
(* loader.link: the units of one program become one image.  A place pass   *)
(* over each unit gives its names their values, the units' tables are      *)
(* merged, an emit pass over all of them puts bytes down, and _finish      *)
(* resolves what the caller declared beside the source.                    *)
(*                                                                         *)
(* The two passes walk the same items, with different tables: what .org    *)
(* and .equ read while a unit is placed is what is known so far, what a    *)
(* datum or an operand reads is the whole.  loader.assemble is the case of *)
(* one unit.                                                               *)
(*                                                                         *)
(* An item is a parsed line.  An expression is a constant or a name plus   *)
(* one; a datum is its arguments, each of `width' bytes, and which values  *)
(* its slot takes; a byte is the value it was cut from and which part.     *)
(* What a line looks like, how it is matched and encoded, and the wording  *)
(* of refusals are left out: every refusal ends the link.                  *)
(***************************************************************************)
EXTENDS Integers, Sequences, FiniteSets

CONSTANTS
  Programs,    \* the lists of units a link may be given
  Declared,    \* the declarations a caller may hand beside them
  CODE_SIZE,
  DATA_SIZE,
  VEC_COUNT,
  VTAB_CELLS,
  REGIONS_MAX,
  BYTE,        \* the largest value of a byte
  WORD,        \* and of two
  None

ASSUME SizeAssumption ==
  /\ CODE_SIZE \in Nat \ {0} /\ DATA_SIZE \in Nat
  /\ BYTE \in Nat /\ WORD \in Nat
  /\ CODE_SIZE <= WORD /\ DATA_SIZE <= WORD
  /\ VEC_COUNT \in Nat /\ VTAB_CELLS \in Nat /\ REGIONS_MAX \in Nat

\* Programs are lists of units, units lists of items, and numbers are numbers.
ASSUME ProgramAssumption ==
  \A p \in Programs :
    /\ Len(p) \in Nat \ {0}
    /\ \A i \in 1 .. Len(p) :
         /\ Len(p[i]) \in Nat
         /\ \A j \in 1 .. Len(p[i]) :
              /\ p[i][j].op \in {"label", "equ", "org", "data"}
              /\ p[i][j].op \in {"equ", "org"} => p[i][j].expr.k \in Int
              /\ p[i][j].op = "data" =>
                   /\ p[i][j].width \in Nat \ {0} /\ Len(p[i][j].args) \in Nat
                   /\ \A a \in 1 .. Len(p[i][j].args) : p[i][j].args[a].k \in Int

VARIABLES
  units,     \* the program, fixed from the call
  phase,     \* "place", "emit", "done" or "refused"
  u, k,      \* the unit and the item at hand
  pc,        \* the location counter
  own,       \* the table of the unit being placed: name -> value and kind
  settled,   \* for each unit placed, its table over those of the units before it
  at,        \* where the place pass stood at each item: <<unit, item>> -> counter
  merged,    \* the one table of the whole
  out,       \* placed bytes: address -> byte and the block that placed it
  blocks,    \* the blocks placed: address and bytes
  hi_water,  \* how far the placed content reaches
  result     \* what the link returned

vars == <<units, phase, u, k, pc, own, settled, at, merged, out, blocks, hi_water, result>>

-----------------------------------------------------------------------------
\* Expressions over a table.

known(expr, table) == expr.name = None \/ expr.name \in DOMAIN table

evaluate(expr, table) ==
  IF expr.name = None THEN expr.k ELSE table[expr.name].value + expr.k

\* One table read before another (dict.update).
over(table, last) ==
  [n \in DOMAIN table \cup DOMAIN last |-> IF n \in DOMAIN last THEN last[n] ELSE table[n]]

\* What the reader of the unit at hand sees: the units settled before it, under
\* its own table, which is still growing while it is placed and complete when
\* it is emitted.
before(i) == IF i = 1 THEN <<>> ELSE settled[i - 1]
readable == IF phase = "place" THEN over(before(u), own) ELSE settled[u]

extended(f, x, v) == [y \in DOMAIN f \cup {x} |-> IF y = x THEN v ELSE f[y]]

with(table, name, value, kind) == extended(table, name, [value |-> value, kind |-> kind])

-----------------------------------------------------------------------------
Init ==
  /\ units \in Programs
  /\ phase = "place" /\ u = 1 /\ k = 1 /\ pc = 0
  /\ own = <<>> /\ settled = <<>> /\ at = <<>> /\ merged = <<>>
  /\ out = <<>> /\ blocks = <<>> /\ hi_water = 0
  /\ result = None

item == units[u][k]
AtItem == u \in 1 .. Len(units) /\ k \in 1 .. Len(units[u])

size(it) == it.width * Len(it.args)

refuse ==
  /\ phase' = "refused"
  /\ UNCHANGED <<units, u, k, pc, own, settled, at, merged, out, blocks, hi_water, result>>

-----------------------------------------------------------------------------
\* The place pass: names get values and nothing is put down.

\* The counters of a unit are what its sizes add up to; they are kept here to
\* be compared with those of the emit pass.
mark ==
  /\ at' = extended(at, <<u, k>>, pc)
  /\ k' = k + 1

PlaceLabel ==
  /\ phase = "place" /\ AtItem /\ item.op = "label"
  /\ item.name \notin DOMAIN own
  /\ own' = with(own, item.name, pc, "address")
  /\ mark
  /\ UNCHANGED <<units, phase, u, pc, settled, merged, out, blocks, hi_water, result>>

PlaceEqu ==
  /\ phase = "place" /\ AtItem /\ item.op = "equ"
  /\ known(item.expr, readable)
  /\ item.name \notin DOMAIN own
  /\ own' = with(own, item.name, evaluate(item.expr, readable), "constant")
  /\ mark
  /\ UNCHANGED <<units, phase, u, pc, settled, merged, out, blocks, hi_water, result>>

\* Slip: the target is held against the end only.
org_target_Below(v) == v <= CODE_SIZE

\* An .org may name the address past the last one: content may end there.
org_target(v) == v \in 0 .. CODE_SIZE

PlaceOrg ==
  /\ phase = "place" /\ AtItem /\ item.op = "org"
  /\ known(item.expr, readable)
  /\ org_target(evaluate(item.expr, readable))
  /\ pc' = evaluate(item.expr, readable)
  /\ mark
  /\ UNCHANGED <<units, phase, u, own, settled, merged, out, blocks, hi_water, result>>

PlaceData ==
  /\ phase = "place" /\ AtItem /\ item.op = "data"
  /\ pc' = pc + size(item)
  /\ mark
  /\ UNCHANGED <<units, phase, u, own, settled, merged, out, blocks, hi_water, result>>

PlaceRefused ==
  /\ phase = "place" /\ AtItem
  /\ \/ item.op \in {"label", "equ"} /\ item.name \in DOMAIN own
     \/ item.op \in {"equ", "org"} /\ ~known(item.expr, readable)
     \/ /\ item.op = "org" /\ known(item.expr, readable)
        /\ ~org_target(evaluate(item.expr, readable))
  /\ refuse

\* Slip: two units may give one name two values of a kind.
agrees_KindOnly(name) == merged[name].kind = own[name].kind

\* A unit is placed: one name is one definition over all of them.
agrees(name) == merged[name] = own[name]

UnitPlaced ==
  /\ phase = "place" /\ u <= Len(units) /\ k > Len(units[u])
  /\ \A n \in DOMAIN own \cap DOMAIN merged : agrees(n)
  /\ merged' = [n \in DOMAIN merged \cup DOMAIN own |->
                  IF n \in DOMAIN merged THEN merged[n] ELSE own[n]]
  /\ settled' = extended(settled, u, readable)
  /\ own' = <<>> /\ k' = 1 /\ pc' = 0
  /\ IF u < Len(units) THEN u' = u + 1 /\ phase' = "place"
                       ELSE u' = 1 /\ phase' = "emit"
  /\ UNCHANGED <<units, at, out, blocks, hi_water, result>>

UnitRefused ==
  /\ phase = "place" /\ u <= Len(units) /\ k > Len(units[u])
  /\ \E n \in DOMAIN own \cap DOMAIN merged : ~agrees(n)
  /\ refuse

-----------------------------------------------------------------------------
\* The emit pass: the same walk again, over the merged table.

EmitName ==
  /\ phase = "emit" /\ AtItem /\ item.op \in {"label", "equ"}
  /\ k' = k + 1
  /\ UNCHANGED <<units, phase, u, pc, own, settled, at, merged, out, blocks, hi_water, result>>

EmitOrg ==
  /\ phase = "emit" /\ AtItem /\ item.op = "org"
  /\ known(item.expr, readable)
  /\ pc' = evaluate(item.expr, readable)
  /\ k' = k + 1
  /\ UNCHANGED <<units, phase, u, own, settled, at, merged, out, blocks, hi_water, result>>

\* The values a slot takes, and the slots that refuse the address of a label.
slot_range(slot) == IF slot \in {"byte", "i8"} THEN 0 .. BYTE ELSE 0 .. WORD
numeric_slot == {"i8"}

renders(expr, slot) ==
  /\ known(expr, merged)
  /\ evaluate(expr, merged) \in slot_range(slot)
  /\ slot \in numeric_slot /\ expr.name # None => merged[expr.name].kind # "address"

bytes(it) ==
  [i \in 1 .. size(it) |->
     <<evaluate(it.args[1 + (i - 1) \div it.width], merged), (i - 1) % it.width>>]

cells(addr, n) == addr .. addr + n - 1
in_code(addr, n) == cells(addr, n) \subseteq 0 .. CODE_SIZE - 1
\* Slip: only the first byte of a block is looked at.
free_FirstByte(addr, n) == addr \notin DOMAIN out

free(addr, n) == cells(addr, n) \cap DOMAIN out = {}

\* Placing nothing still moves the high water mark.
place(addr, data) ==
  /\ out' = [a \in DOMAIN out \cup cells(addr, Len(data)) |->
               IF a \in cells(addr, Len(data))
               THEN [byte |-> data[a - addr + 1], block |-> Len(blocks) + 1]
               ELSE out[a]]
  /\ blocks' = Append(blocks, [addr |-> addr, data |-> data])
  /\ hi_water' = IF hi_water < addr + Len(data) THEN addr + Len(data) ELSE hi_water

EmitData ==
  /\ phase = "emit" /\ AtItem /\ item.op = "data"
  /\ \A i \in 1 .. Len(item.args) : renders(item.args[i], item.slot)
  /\ in_code(pc, size(item))
  /\ free(pc, size(item))
  /\ place(pc, bytes(item))
  /\ pc' = pc + size(item)
  /\ k' = k + 1
  /\ UNCHANGED <<units, phase, u, own, settled, at, merged, result>>

EmitRefused ==
  /\ phase = "emit" /\ AtItem
  /\ \/ item.op = "org" /\ ~known(item.expr, readable)
     \/ /\ item.op = "data"
        /\ \/ \E i \in 1 .. Len(item.args) : ~renders(item.args[i], item.slot)
           \/ ~in_code(pc, size(item))
           \/ ~free(pc, size(item))
  /\ refuse

UnitEmitted ==
  /\ phase = "emit" /\ u <= Len(units) /\ k > Len(units[u])
  /\ u' = u + 1 /\ k' = 1 /\ pc' = 0
  /\ UNCHANGED <<units, phase, own, settled, at, merged, out, blocks, hi_water, result>>

-----------------------------------------------------------------------------
\* The declarations: spans and addresses the machine reads and cannot write.

\* A value is an integer or a name of the merged table, inside its range.
resolves(ref, hi) == known(ref, merged) /\ evaluate(ref, merged) \in 0 .. hi

window_error(lo, hi, codelen) == hi > codelen
entry_error(entry, codelen) == codelen > 0 /\ entry >= codelen
vtab_error(vtab) == vtab % 2 # 0 \/ vtab + VTAB_CELLS > DATA_SIZE

regions_error(regions) ==
  \/ Len(regions) > REGIONS_MAX
  \/ \E i \in 1 .. Len(regions) :
       \/ ~(regions[i][1] \in 0 .. DATA_SIZE /\ regions[i][2] \in 0 .. DATA_SIZE)
       \/ regions[i][2] < regions[i][1]
       \/ i > 1 /\ regions[i][1] < regions[i - 1][2]

image_needed == IF hi_water > 1 THEN hi_water ELSE 1

\* The smallest power of two that covers v.
next_pow2(v) == CHOOSE p \in {2 ^ i : i \in 0 .. v} :
                  p >= v /\ \A q \in {2 ^ i : i \in 0 .. v} : q >= v => p <= q

image_length(d) == IF d.image # None THEN d.image ELSE next_pow2(image_needed)

image_fits(d) == image_length(d) \in 1 .. CODE_SIZE /\ image_length(d) >= image_needed

\* Zero is the machine's "no handler", and a handler has to be content.
vectors_fit(d) ==
  \A v \in DOMAIN d.vectors :
    /\ v \in 0 .. VEC_COUNT - 1
    /\ resolves(d.vectors[v], WORD)
    /\ evaluate(d.vectors[v], merged) \in 1 .. hi_water - 1

\* Slip: the window may reach into the padding of the image.
window_fits_Padding(d) ==
  d.window # None =>
    /\ resolves(d.window[1], WORD) /\ resolves(d.window[2], WORD)
    /\ evaluate(d.window[1], merged) <= evaluate(d.window[2], merged)
    /\ ~window_error(evaluate(d.window[1], merged), evaluate(d.window[2], merged),
                     image_length(d))

window_fits(d) ==
  d.window # None =>
    /\ resolves(d.window[1], WORD) /\ resolves(d.window[2], WORD)
    /\ evaluate(d.window[1], merged) <= evaluate(d.window[2], merged)
    /\ ~window_error(evaluate(d.window[1], merged), evaluate(d.window[2], merged), hi_water)

vtab_fits(d) ==
  d.vtab # None => resolves(d.vtab, WORD) /\ ~vtab_error(evaluate(d.vtab, merged))

spans(d) ==
  [i \in 1 .. Len(d.regions) |-> <<evaluate(d.regions[i][1], merged),
                                   evaluate(d.regions[i][2], merged)>>]

regions_fit(d) ==
  d.regions # None =>
    /\ \A i \in 1 .. Len(d.regions) :
         resolves(d.regions[i][1], DATA_SIZE) /\ resolves(d.regions[i][2], DATA_SIZE)
    /\ ~regions_error(spans(d))

\* Without an entry the load's is its symbol main, and without that address 0.
entry_of(d) ==
  IF d.entry # None THEN evaluate(d.entry, merged)
  ELSE IF "main" \in DOMAIN merged THEN merged["main"].value ELSE 0

entry_fits(d) ==
  /\ d.entry # None => resolves(d.entry, WORD)
  /\ ~entry_error(entry_of(d), hi_water)

loads(d) ==
  /\ image_fits(d) /\ vectors_fit(d) /\ window_fits(d)
  /\ vtab_fits(d) /\ regions_fit(d) /\ entry_fits(d)

\* The image and the configuration block it is run with.
LoadResult(d) ==
  [length  |-> image_length(d),
   codelen |-> hi_water,
   entry   |-> entry_of(d),
   vec     |-> [v \in DOMAIN d.vectors |-> evaluate(d.vectors[v], merged)],
   window  |-> IF d.window = None THEN None
               ELSE <<evaluate(d.window[1], merged), evaluate(d.window[2], merged)>>,
   vtab    |-> IF d.vtab = None THEN None ELSE evaluate(d.vtab, merged),
   regions |-> IF d.regions = None THEN None ELSE spans(d)]

\* The caller's declarations wait, unread, until everything is placed.
Finish ==
  /\ phase = "emit" /\ u > Len(units)
  /\ \E d \in Declared :
       \/ /\ loads(d)
          /\ phase' = "done"
          /\ result' = LoadResult(d)
          /\ UNCHANGED <<units, u, k, pc, own, settled, at, merged, out, blocks, hi_water>>
       \/ ~loads(d) /\ refuse

\* The call has returned or raised.
Answered == phase \in {"done", "refused"} /\ UNCHANGED vars

Next ==
  \/ PlaceLabel \/ PlaceEqu \/ PlaceOrg \/ PlaceData \/ PlaceRefused
  \/ UnitPlaced \/ UnitRefused
  \/ EmitName \/ EmitOrg \/ EmitData \/ EmitRefused \/ UnitEmitted
  \/ Finish \/ Answered

Spec == Init /\ [][Next]_vars

-----------------------------------------------------------------------------
\* What the machine makes of a result: isa_table.MachineConfig validates the
\* block again, from scratch, and NCP8 holds it against the image.

config_refuses(r) ==
  \/ r.codelen \notin 0 .. WORD \/ r.entry \notin 0 .. WORD
  \/ entry_error(r.entry, r.codelen)
  \/ /\ r.window # None
     /\ \/ r.window[1] \notin 0 .. WORD \/ r.window[2] \notin 0 .. WORD
        \/ r.window[2] < r.window[1]
        \/ window_error(r.window[1], r.window[2], r.codelen)
  \/ \E v \in DOMAIN r.vec : v \notin 0 .. VEC_COUNT - 1 \/ r.vec[v] \notin 0 .. WORD
  \/ r.vtab # None /\ (r.vtab \notin 0 .. WORD \/ vtab_error(r.vtab))
  \/ r.regions # None /\ regions_error(r.regions)

machine_refuses(r) ==
  \/ config_refuses(r)
  \/ r.length > CODE_SIZE
  \/ r.codelen > r.length

-----------------------------------------------------------------------------
IsTable(t) == \A n \in DOMAIN t : t[n] \in [value : Int, kind : {"address", "constant"}]

\* What was put down lies inside CODE, and the high water mark with it; the
\* location counter is never before the image (loader._checked_int, place).
TypeOK ==
  /\ phase \in {"place", "emit", "done", "refused"}
  /\ pc \in Nat /\ u \in 1 .. Len(units) + 1 /\ k \in Nat \ {0}
  /\ IsTable(own) /\ IsTable(merged)
  /\ \A x \in DOMAIN at : at[x] \in Nat
  /\ \A i \in DOMAIN settled : IsTable(settled[i])
  /\ DOMAIN out \subseteq 0 .. CODE_SIZE - 1
  /\ hi_water \in 0 .. CODE_SIZE
  /\ \A a \in DOMAIN out : a < hi_water
  /\ phase # "done" => result = None

\* A line means on the emit pass what it meant on the place pass, and both mean
\* what it says under the whole program's table: a label stands where the
\* bytes after it are put, whatever .org and .equ read from the tables there
\* were when they were read (loader._place_pass, _emit_pass, _Reader).
MeaningHolds ==
  phase = "emit" /\ AtItem =>
    /\ pc = at[<<u, k>>]
    /\ item.op = "label" => merged[item.name].value = pc
    /\ item.op = "equ" => merged[item.name].value = evaluate(item.expr, merged)
    /\ item.op = "org" => evaluate(item.expr, readable) = evaluate(item.expr, merged)

\* Every block that was placed is whole in the image: no later one, of this
\* unit or another, has taken a byte of it (loader._Placer.place).
BlocksStand ==
  \A b \in 1 .. Len(blocks) :
    \A i \in 1 .. Len(blocks[b].data) :
      /\ blocks[b].addr + i - 1 \in DOMAIN out
      /\ out[blocks[b].addr + i - 1] = [byte |-> blocks[b].data[i], block |-> b]

\* What loads can be run: the block the result builds passes every check
\* MachineConfig and NCP8 make of it again (LoadResult.config, to_machine),
\* and each handler is content of the image.  A symbol main taken for the
\* entry is the one declaration whose range is not looked at.
LoadsCanRun ==
  phase = "done" /\ result.entry \in 0 .. WORD =>
    /\ ~machine_refuses(result)
    /\ \A v \in DOMAIN result.vec : result.vec[v] \in 1 .. result.codelen - 1

\* What loader.py says of its refusals, "Every refusal is a LoaderError": what
\* link has returned is not refused by the configuration block it is made into.
RefusedHere == phase = "done" => ~config_refuses(result)

=============================================================================
