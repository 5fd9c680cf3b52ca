---------------------------- MODULE LoaderProofs ----------------------------
(***************************************************************************)
(* What holds of a link for every program, every declaration and every     *)
(* size.  The argument compares the two passes through the counters the    *)
(* place pass left: under the table a unit was settled with, each line     *)
(* says what the place pass made of it; that table is part of the merged   *)
(* one, because names that disagree are refused; and the emit pass reads   *)
(* the same tables, so it stands where the place pass stood.               *)
(***************************************************************************)
EXTENDS Loader, TLAPS, SequenceTheorems

\* One table says no more, and nothing else, than another.
Within(t, s) == \A n \in DOMAIN t : n \in DOMAIN s /\ s[n] = t[n]

\* Item j of unit i, placed at the counter `a' and left at the counter `next',
\* means what it says under the table t.
Means(it, t, a, next) ==
  /\ it.op = "label" => it.name \in DOMAIN t /\ t[it.name].value = a /\ next = a
  /\ it.op = "equ" => /\ known(it.expr, t)
                      /\ it.name \in DOMAIN t /\ t[it.name].value = evaluate(it.expr, t)
                      /\ next = a
  /\ it.op = "org" => /\ known(it.expr, t)
                      /\ next = evaluate(it.expr, t) /\ next \in 0 .. CODE_SIZE
  /\ it.op = "data" => next = a + size(it)

\* The first n items of unit i, placed at the counters f and left at `last'.
UnitMeans(f, unit, i, t, n, last) ==
  /\ n = 0 => last = 0
  /\ n > 0 => f[<<i, 1>>] = 0
  /\ \A j \in 1 .. n : /\ <<i, j>> \in DOMAIN f /\ f[<<i, j>>] \in Nat
                       /\ Means(unit[j], t, f[<<i, j>>],
                                IF j = n THEN last ELSE f[<<i, j + 1>>])

Agreed == \A n \in DOMAIN own \cap DOMAIN merged : agrees(n)

Typed ==
  /\ units \in Programs
  /\ phase \in {"place", "emit", "done", "refused"}
  /\ u \in 1 .. Len(units) + 1 /\ k \in Nat \ {0} /\ pc \in Nat
  /\ IsTable(own) /\ IsTable(merged)
  /\ \A i \in DOMAIN settled : IsTable(settled[i])
  /\ \A x \in DOMAIN at : at[x] \in Nat
  /\ phase = "place" => u <= Len(units) /\ DOMAIN settled = 1 .. u - 1 /\ k <= Len(units[u]) + 1
  /\ phase = "emit" => DOMAIN settled = 1 .. Len(units)
  /\ phase # "done" => result = None

Settled ==
  phase \in {"place", "emit"} =>
    /\ \A i \in DOMAIN settled : Within(settled[i], merged)
    /\ \A i \in DOMAIN settled :
         \E last \in Nat : UnitMeans(at, units[i], i, settled[i], Len(units[i]), last)

Current == phase = "place" /\ Agreed => UnitMeans(at, units[u], u, readable, k - 1, pc)

Follows ==
  phase = "emit" => /\ AtItem => pc = at[<<u, k>>]
                    /\ pc <= CODE_SIZE

Placed ==
  /\ \E S : blocks \in Seq(S)
  /\ DOMAIN out \subseteq 0 .. CODE_SIZE - 1
  /\ hi_water \in 0 .. CODE_SIZE
  /\ \A a \in DOMAIN out : a < hi_water
  /\ BlocksStand

IInv == Typed /\ Settled /\ Current /\ Follows /\ Placed /\ LoadsCanRun
-----------------------------------------------------------------------------
\* What a line means does not change with names it does not read.
LEMMA MeansGrow ==
  ASSUME NEW it, NEW t, NEW s, NEW a, NEW next, Means(it, t, a, next), Within(t, s)
  PROVE  Means(it, s, a, next)
<1>1. \A e : known(e, t) => known(e, s) /\ evaluate(e, s) = evaluate(e, t)
  BY DEF known, evaluate, Within
<1>2. \A n \in DOMAIN t : n \in DOMAIN s /\ s[n] = t[n]
  BY DEF Within
<1> QED
  BY <1>1, <1>2 DEF Means

LEMMA UnitGrow ==
  ASSUME NEW f, NEW unit, NEW i, NEW t, NEW s, NEW n \in Nat, NEW last,
         UnitMeans(f, unit, i, t, n, last), Within(t, s)
  PROVE  UnitMeans(f, unit, i, s, n, last)
<1>1. ASSUME NEW j \in 1 .. n
      PROVE  Means(unit[j], s, f[<<i, j>>], IF j = n THEN last ELSE f[<<i, j + 1>>])
  <2> DEFINE next == IF j = n THEN last ELSE f[<<i, j + 1>>]
  <2>1. Means(unit[j], t, f[<<i, j>>], next)
    BY DEF UnitMeans
  <2> HIDE DEF next
  <2>2. Means(unit[j], s, f[<<i, j>>], next)
    BY <2>1, MeansGrow
  <2> QED
    BY <2>2 DEF next
<1> QED
  BY <1>1 DEF UnitMeans

\* Nor with counters of other items.
LEMMA UnitSame ==
  ASSUME NEW f, NEW g, NEW unit, NEW i, NEW t, NEW n \in Nat, NEW last,
         UnitMeans(f, unit, i, t, n, last),
         \A j \in 1 .. n : <<i, j>> \in DOMAIN g /\ g[<<i, j>>] = f[<<i, j>>]
  PROVE  UnitMeans(g, unit, i, t, n, last)
<1>1. ASSUME NEW j \in 1 .. n, j # n
      PROVE  g[<<i, j + 1>>] = f[<<i, j + 1>>]
  <2>1. j + 1 \in 1 .. n
    BY <1>1
  <2> QED
    BY <2>1
<1>2. n > 0 => 1 \in 1 .. n
  OBVIOUS
<1>3. ASSUME NEW j \in 1 .. n
      PROVE  Means(unit[j], t, g[<<i, j>>], IF j = n THEN last ELSE g[<<i, j + 1>>])
  <2>1. Means(unit[j], t, f[<<i, j>>], IF j = n THEN last ELSE f[<<i, j + 1>>])
    BY DEF UnitMeans
  <2>2. CASE j = n
    BY <2>1, <2>2
  <2>3. CASE j # n
    BY <2>1, <2>3, <1>1
  <2> QED
    BY <2>2, <2>3
<1> QED
  BY <1>2, <1>3 DEF UnitMeans

\* Recording one value changes no other.
LEMMA ExtendedAt ==
  ASSUME NEW f, NEW x, NEW v
  PROVE  /\ x \in DOMAIN extended(f, x, v) /\ extended(f, x, v)[x] = v
         /\ \A y \in DOMAIN f : y \in DOMAIN extended(f, x, v)
         /\ \A y \in DOMAIN f : y # x => extended(f, x, v)[y] = f[y]
         /\ \A y \in DOMAIN extended(f, x, v) : y # x => y \in DOMAIN f
  BY DEF extended

\* One more line is placed.
LEMMA UnitLonger ==
  ASSUME NEW f, NEW unit, NEW i, NEW t, NEW n \in Nat, NEW last \in Nat, NEW next,
         UnitMeans(f, unit, i, t, n, last), Means(unit[n + 1], t, last, next)
  PROVE  UnitMeans(extended(f, <<i, n + 1>>, last), unit, i, t, n + 1, next)
<1> DEFINE g == extended(f, <<i, n + 1>>, last)
<1>1. g[<<i, n + 1>>] = last /\ <<i, n + 1>> \in DOMAIN g
  BY ExtendedAt
<1>2. ASSUME NEW j \in 1 .. n
      PROVE  <<i, j>> \in DOMAIN g /\ g[<<i, j>>] = f[<<i, j>>]
  <2>1. <<i, j>> \in DOMAIN f
    BY DEF UnitMeans
  <2>2. <<i, j>> # <<i, n + 1>>
    OBVIOUS
  <2> QED
    BY <2>1, <2>2, ExtendedAt
<1> HIDE DEF g
<1>3. g[<<i, 1>>] = 0
  <2>1. CASE n = 0
    BY <2>1, <1>1 DEF UnitMeans
  <2>2. CASE n > 0
    <3>1. 1 \in 1 .. n
      BY <2>2
    <3> QED
      BY <3>1, <2>2, <1>2 DEF UnitMeans
  <2> QED
    BY <2>1, <2>2
<1>4. ASSUME NEW j \in 1 .. n + 1
      PROVE  /\ <<i, j>> \in DOMAIN g /\ g[<<i, j>>] \in Nat
             /\ Means(unit[j], t, g[<<i, j>>], IF j = n + 1 THEN next ELSE g[<<i, j + 1>>])
  <2>1. CASE j = n + 1
    BY <2>1, <1>1
  <2>2. CASE j # n + 1
    <3>1. j \in 1 .. n
      BY <2>2
    <3>2. Means(unit[j], t, f[<<i, j>>], IF j = n THEN last ELSE f[<<i, j + 1>>])
      BY <3>1 DEF UnitMeans
    <3>3. (IF j = n THEN last ELSE f[<<i, j + 1>>]) = g[<<i, j + 1>>]
      <4>1. CASE j = n
        BY <4>1, <1>1
      <4>2. CASE j # n
        <5>1. j + 1 \in 1 .. n
          BY <4>2, <3>1
        <5> QED
          BY <5>1, <4>2, <1>2
      <4> QED
        BY <4>1, <4>2
    <3>4. /\ <<i, j>> \in DOMAIN g /\ g[<<i, j>>] = f[<<i, j>>]
          /\ f[<<i, j>>] \in Nat
      BY <3>1, <1>2 DEF UnitMeans
    <3> QED
      BY <2>2, <3>2, <3>3, <3>4
  <2> QED
    BY <2>1, <2>2
<1>5. UnitMeans(g, unit, i, t, n + 1, next)
  BY <1>3, <1>4 DEF UnitMeans
<1> QED
  BY <1>5 DEF g

-----------------------------------------------------------------------------
\* Tables, expressions and lines have the types they were given.

LEMMA ItemTyped ==
  ASSUME units \in Programs, AtItem
  PROVE  /\ Len(units) \in Nat /\ Len(units[u]) \in Nat
         /\ item.op \in {"label", "equ", "org", "data"}
         /\ item.op \in {"equ", "org"} => item.expr.k \in Int
         /\ item.op = "data" =>
              /\ item.width \in Nat \ {0} /\ Len(item.args) \in Nat
              /\ size(item) \in Nat
<1>1. /\ Len(units) \in Nat /\ Len(units[u]) \in Nat
      /\ item.op \in {"label", "equ", "org", "data"}
      /\ item.op \in {"equ", "org"} => item.expr.k \in Int
      /\ item.op = "data" => item.width \in Nat \ {0} /\ Len(item.args) \in Nat
  BY ProgramAssumption DEF AtItem, item
<1>2. ASSUME item.op = "data" PROVE size(item) \in Nat
  <2>1. \A w, n \in Nat : w * n \in Nat
    OBVIOUS
  <2> QED
    BY <1>1, <1>2, <2>1 DEF size
<1> QED
  BY <1>1, <1>2

LEMMA EvaluateTyped ==
  ASSUME NEW e, NEW t, IsTable(t), known(e, t), e.k \in Int
  PROVE  evaluate(e, t) \in Int
BY DEF IsTable, known, evaluate

LEMMA OverTable ==
  ASSUME NEW t, NEW s
  PROVE  /\ DOMAIN over(t, s) = DOMAIN t \cup DOMAIN s
         /\ \A n \in DOMAIN s : over(t, s)[n] = s[n]
         /\ \A n \in DOMAIN t : n \notin DOMAIN s => over(t, s)[n] = t[n]
         /\ IsTable(t) /\ IsTable(s) => IsTable(over(t, s))
BY DEF over, IsTable

LEMMA ReadableTyped ==
  ASSUME Typed, phase = "place"
  PROVE  /\ readable = over(before(u), own) /\ IsTable(readable) /\ IsTable(before(u))
<1>1. IsTable(<<>>)
  BY DEF IsTable
<1>2. u # 1 => u - 1 \in DOMAIN settled
  <2>1. Len(units) \in Nat
    BY ProgramAssumption DEF Typed
  <2> QED
    BY <2>1 DEF Typed
<1>3. IsTable(before(u))
  BY <1>1, <1>2 DEF before, Typed
<1> QED
  BY <1>3, OverTable DEF readable, Typed

\* What a unit reads of the units before it is part of the merged table.
LEMMA BeforeWithin ==
  ASSUME Typed, Settled, phase = "place"
  PROVE  Within(before(u), merged)
<1>1. CASE u = 1
  BY <1>1 DEF before, Within
<1>2. CASE u # 1
  <2>1. Len(units) \in Nat
    BY ProgramAssumption DEF Typed
  <2>2. u - 1 \in DOMAIN settled
    BY <1>2, <2>1 DEF Typed
  <2> QED
    BY <1>2, <2>2 DEF before, Settled
<1> QED
  BY <1>1, <1>2

\* Every line of the place pass: the counter is marked, the unit's table may
\* grow, and the line means under the grown table what it says.
LEMMA PlaceStep ==
  ASSUME IInv, phase = "place", AtItem, mark, phase' = phase, u' = u,
         UNCHANGED <<units, settled, merged, out, blocks, hi_water, result>>,
         pc' \in Nat, IsTable(own'), Within(own, own'),
         Within(readable, over(before(u), own')) => Means(item, over(before(u), own'), pc, pc')
  PROVE  IInv'
<1> USE DEF IInv
<1>0. Len(units) \in Nat /\ Len(units[u]) \in Nat /\ k \in Nat \ {0} /\ k \in 1 .. Len(units[u])
  BY ItemTyped DEF Typed, AtItem
<1>1. at' = extended(at, <<u, k>>, pc) /\ k' = k + 1
  BY DEF mark
<1>2. Typed'
  <2>1. \A x \in DOMAIN at' : at'[x] \in Nat
    BY <1>1, ExtendedAt DEF Typed
  <2> QED
    BY <1>0, <1>1, <2>1 DEF Typed
<1>3. Settled'
  <2>1. ASSUME NEW i \in DOMAIN settled
        PROVE  \E last \in Nat : UnitMeans(at', units[i], i, settled[i], Len(units[i]), last)
    <3>1. PICK last \in Nat : UnitMeans(at, units[i], i, settled[i], Len(units[i]), last)
      BY DEF Settled
    <3>2. i \in 1 .. Len(units) /\ i # u
      BY <1>0 DEF Typed
    <3>3. Len(units[i]) \in Nat
      BY <3>2, ProgramAssumption DEF Typed
    <3>4. ASSUME NEW j \in 1 .. Len(units[i])
          PROVE  <<i, j>> \in DOMAIN at' /\ at'[<<i, j>>] = at[<<i, j>>]
      <4>1. <<i, j>> \in DOMAIN at /\ <<i, j>> # <<u, k>>
        BY <3>1, <3>2 DEF UnitMeans
      <4> QED
        BY <4>1, <1>1, ExtendedAt
    <3> QED
      BY <3>1, <3>3, <3>4, UnitSame
  <2> QED
    BY <2>1 DEF Settled
<1>4. Current'
  <2> SUFFICES ASSUME Agreed' PROVE UnitMeans(at', units[u], u, readable', k, pc')
    BY <1>0, <1>1 DEF Current
  <2>1. readable' = over(before(u), own')
    BY DEF readable, before
  <2>2. Agreed
    BY DEF Agreed, agrees, Within
  <2>3. Within(readable, readable')
    <3>1. ASSUME NEW n \in DOMAIN before(u), n \in DOMAIN own'
          PROVE  own'[n] = before(u)[n]
      <4>1. n \in DOMAIN merged /\ merged[n] = before(u)[n]
        BY BeforeWithin DEF Within
      <4> QED
        BY <3>1, <4>1 DEF Agreed, agrees
    <3> DEFINE old == before(u)
    <3>2. /\ DOMAIN readable = DOMAIN old \cup DOMAIN own
          /\ \A n \in DOMAIN own : readable[n] = own[n]
          /\ \A n \in DOMAIN old : n \notin DOMAIN own => readable[n] = old[n]
      <4>1. readable = over(old, own)
        BY ReadableTyped
      <4> HIDE DEF old
      <4> QED
        BY <4>1 DEF over
    <3>4. /\ DOMAIN readable' = DOMAIN old \cup DOMAIN own'
          /\ \A n \in DOMAIN own' : readable'[n] = own'[n]
          /\ \A n \in DOMAIN old : n \notin DOMAIN own' => readable'[n] = old[n]
      <4>1. readable' = over(old, own')
        BY <2>1
      <4> HIDE DEF old
      <4> QED
        BY <4>1 DEF over
    <3>3. ASSUME NEW n \in DOMAIN readable
          PROVE  n \in DOMAIN readable' /\ readable'[n] = readable[n]
      <4>1. n \in DOMAIN own \/ (n \in DOMAIN old /\ n \notin DOMAIN own)
        BY <3>2
      <4>2. CASE n \in DOMAIN own
        <5>1. n \in DOMAIN own' /\ own'[n] = own[n]
          BY <4>2 DEF Within
        <5> QED
          BY <5>1, <4>2, <3>4, <3>2
      <4>3. CASE n \in DOMAIN old /\ n \notin DOMAIN own
        <5>1. readable[n] = old[n]
          BY <4>3, <3>2
        <5>2. CASE n \in DOMAIN own'
          BY <5>1, <5>2, <4>3, <3>1, <3>4
        <5>3. CASE n \notin DOMAIN own'
          BY <5>1, <5>3, <4>3, <3>4
        <5> QED
          BY <5>2, <5>3
      <4> QED
        BY <4>1, <4>2, <4>3
    <3> QED
      BY <3>3 DEF Within
  <2>4. UnitMeans(at, units[u], u, readable, k - 1, pc)
    BY <2>2 DEF Current
  <2>5. UnitMeans(at, units[u], u, readable', k - 1, pc)
    BY <2>3, <2>4, <1>0, UnitGrow
  <2>6. Means(units[u][(k - 1) + 1], readable', pc, pc')
    BY <2>1, <2>3, <1>0 DEF item
  <2>7. UnitMeans(extended(at, <<u, (k - 1) + 1>>, pc), units[u], u, readable', (k - 1) + 1, pc')
    <3>1. k - 1 \in Nat /\ pc \in Nat
      BY <1>0 DEF Typed
    <3> QED
      BY <2>5, <2>6, <3>1, UnitLonger
  <2> QED
    BY <2>7, <1>0, <1>1
<1>5. Follows'
  BY DEF Follows
<1>6. Placed'
  BY DEF Placed, BlocksStand
<1>7. LoadsCanRun'
  BY DEF LoadsCanRun
<1> QED
  BY <1>2, <1>3, <1>4, <1>5, <1>6, <1>7

-----------------------------------------------------------------------------
\* The place pass.

LEMMA WithTable ==
  ASSUME NEW name, NEW value \in Int, NEW kind \in {"address", "constant"},
         IsTable(own), name \notin DOMAIN own
  PROVE  LET t == with(own, name, value, kind) IN
         IsTable(t) /\ Within(own, t) /\ name \in DOMAIN t /\ t[name].value = value
BY DEF with, extended, IsTable, Within

LEMMA PlaceLabelInv == ASSUME IInv, PlaceLabel PROVE IInv'
<1>1. IsTable(own') /\ Within(own, own') /\ item.name \in DOMAIN own' /\ own'[item.name].value = pc
  BY WithTable DEF IInv, Typed, PlaceLabel
<1>2. Means(item, over(before(u), own'), pc, pc')
  <2>1. /\ item.name \in DOMAIN over(before(u), own')
        /\ over(before(u), own')[item.name] = own'[item.name]
    BY <1>1 DEF over
  <2> QED
    BY <1>1, <2>1 DEF PlaceLabel, Means
<1>3. pc' \in Nat
  BY DEF IInv, Typed, PlaceLabel
<1> QED
  BY <1>1, <1>2, <1>3, PlaceStep DEF PlaceLabel

LEMMA PlaceEquInv == ASSUME IInv, PlaceEqu PROVE IInv'
<1> DEFINE e == evaluate(item.expr, readable)
<1>0. e \in Int
  BY ItemTyped, ReadableTyped, EvaluateTyped DEF IInv, Typed, PlaceEqu
<1>1. IsTable(own') /\ Within(own, own') /\ item.name \in DOMAIN own' /\ own'[item.name].value = e
  BY <1>0, WithTable DEF IInv, Typed, PlaceEqu
<1>2. ASSUME Within(readable, over(before(u), own'))
      PROVE  Means(item, over(before(u), own'), pc, pc')
  <2> DEFINE t == over(before(u), own')
  <2>1. item.name \in DOMAIN t /\ t[item.name] = own'[item.name]
    BY <1>1 DEF over
  <2> HIDE DEF t
  <2>2. known(item.expr, t) /\ evaluate(item.expr, t) = e
    BY <1>2 DEF t, known, evaluate, Within, PlaceEqu
  <2>3. Means(item, t, pc, pc')
    BY <1>1, <2>1, <2>2 DEF PlaceEqu, Means
  <2> QED
    BY <2>3 DEF t
<1>3. pc' \in Nat
  BY DEF IInv, Typed, PlaceEqu
<1> QED
  BY <1>1, <1>2, <1>3, PlaceStep DEF PlaceEqu

LEMMA PlaceOrgInv == ASSUME IInv, PlaceOrg PROVE IInv'
<1>1. IsTable(own') /\ Within(own, own') /\ own' = own
  BY DEF IInv, Typed, PlaceOrg, Within
<1>2. over(before(u), own') = readable
  BY <1>1, ReadableTyped DEF IInv, PlaceOrg
<1>3. pc' \in 0 .. CODE_SIZE
  BY DEF PlaceOrg, org_target
<1>4. Means(item, readable, pc, pc')
  BY <1>3 DEF PlaceOrg, Means
<1>5. pc' \in Nat
  BY <1>3, SizeAssumption
<1> QED
  BY <1>1, <1>2, <1>4, <1>5, PlaceStep DEF PlaceOrg

LEMMA PlaceDataInv == ASSUME IInv, PlaceData PROVE IInv'
<1>1. IsTable(own') /\ Within(own, own') /\ own' = own
  BY DEF IInv, Typed, PlaceData, Within
<1>2. over(before(u), own') = readable
  BY <1>1, ReadableTyped DEF IInv, PlaceData
<1>3. Means(item, readable, pc, pc')
  BY DEF PlaceData, Means
<1>4. pc' \in Nat
  BY ItemTyped DEF IInv, Typed, PlaceData
<1> QED
  BY <1>1, <1>2, <1>3, <1>4, PlaceStep DEF PlaceData

LEMMA RefusedInv == ASSUME IInv, refuse, phase \in {"place", "emit"} PROVE IInv'
<1>1. Typed'
  BY DEF IInv, Typed, refuse
<1>2. Settled' /\ Current' /\ Follows' /\ LoadsCanRun'
  BY DEF refuse, Settled, Current, Follows, LoadsCanRun
<1>3. Placed'
  BY DEF IInv, refuse, Placed, BlocksStand
<1> QED
  BY <1>1, <1>2, <1>3 DEF IInv

LEMMA UnitPlacedInv == ASSUME IInv, UnitPlaced PROVE IInv'
<1> USE DEF IInv
<1>0. /\ Len(units) \in Nat \ {0} /\ u \in 1 .. Len(units) /\ Len(units[u]) \in Nat
      /\ k = Len(units[u]) + 1
  <2>1. Len(units) \in Nat \ {0} /\ u \in 1 .. Len(units)
    BY ProgramAssumption DEF Typed, UnitPlaced
  <2>2. Len(units[u]) \in Nat
    BY <2>1, ProgramAssumption DEF Typed
  <2> QED
    BY <2>1, <2>2 DEF Typed, UnitPlaced
<1>1. settled' = extended(settled, u, readable) /\ IsTable(readable)
  BY ReadableTyped DEF UnitPlaced
<1>2. /\ DOMAIN settled' = 1 .. u /\ settled'[u] = readable
      /\ \A i \in DOMAIN settled : i # u /\ settled'[i] = settled[i]
  <2>1. DOMAIN settled = 1 .. u - 1
    BY DEF Typed, UnitPlaced
  <2>2. DOMAIN settled' = DOMAIN settled \cup {u}
    BY <1>1 DEF extended
  <2>3. DOMAIN settled' = 1 .. u
    BY <1>0, <2>1, <2>2
  <2> QED
    BY <1>0, <1>1, <2>1, <2>3, ExtendedAt
<1>3. /\ DOMAIN merged' = DOMAIN merged \cup DOMAIN own
      /\ \A n \in DOMAIN merged : merged'[n] = merged[n]
      /\ \A n \in DOMAIN own : merged'[n] = own[n]
  <2>1. Agreed
    BY DEF Agreed, UnitPlaced
  <2> QED
    BY <2>1 DEF UnitPlaced, Agreed, agrees
<1>4. Within(readable, merged')
  <2>1. Within(before(u), merged)
    BY BeforeWithin DEF UnitPlaced
  <2>2. readable = over(before(u), own)
    BY ReadableTyped DEF UnitPlaced
  <2> DEFINE old == before(u)
  <2> HIDE DEF old
  <2>3. Within(over(old, own), merged')
    BY <1>3, <2>1 DEF over, Within, old
  <2> QED
    BY <2>2, <2>3 DEF old
<1>5. Typed'
  <2>1. IsTable(merged')
    BY <1>3 DEF Typed, IsTable
  <2>2. IsTable(own')
    BY DEF UnitPlaced, IsTable
  <2>3. \A i \in DOMAIN settled' : IsTable(settled'[i])
    <3> SUFFICES ASSUME NEW i \in DOMAIN settled' PROVE IsTable(settled'[i])
      OBVIOUS
    <3>1. i = u \/ i \in DOMAIN settled
      BY <1>0, <1>2 DEF Typed, UnitPlaced
    <3> QED
      BY <3>1, <1>1, <1>2 DEF Typed
  <2>4. CASE u < Len(units)
    <3>1. u' = u + 1 /\ phase' = "place" /\ k' = 1 /\ pc' = 0
      BY <2>4 DEF UnitPlaced
    <3>2. u' \in 1 .. Len(units) /\ DOMAIN settled' = 1 .. u' - 1
      BY <3>1, <2>4, <1>0, <1>2
    <3>3. Len(units[u']) \in Nat
      BY <3>2, ProgramAssumption DEF Typed
    <3> QED
      BY <3>1, <3>2, <3>3, <2>1, <2>2, <2>3, <1>0 DEF Typed, UnitPlaced
  <2>5. CASE ~(u < Len(units))
    <3>1. u' = 1 /\ phase' = "emit" /\ k' = 1 /\ pc' = 0 /\ u = Len(units)
      BY <2>5, <1>0 DEF UnitPlaced
    <3> QED
      BY <3>1, <2>1, <2>2, <2>3, <1>0, <1>2 DEF Typed, UnitPlaced
  <2> QED
    BY <2>4, <2>5
<1>6. \A i \in DOMAIN settled' :
        \E last \in Nat : UnitMeans(at, units[i], i, settled'[i], Len(units[i]), last)
  <2> SUFFICES ASSUME NEW i \in DOMAIN settled'
               PROVE \E last \in Nat : UnitMeans(at, units[i], i, settled'[i], Len(units[i]), last)
    OBVIOUS
  <2>1. CASE i = u
    <3>1. UnitMeans(at, units[u], u, readable, k - 1, pc)
      BY DEF Current, UnitPlaced, Agreed
    <3>2. k - 1 = Len(units[u]) /\ pc \in Nat
      BY <1>0 DEF Typed
    <3> QED
      BY <2>1, <3>1, <3>2, <1>2
  <2>2. CASE i # u
    <3>1. i \in DOMAIN settled
      BY <2>2, <1>0, <1>2 DEF Typed, UnitPlaced
    <3> QED
      BY <3>1, <1>2 DEF Settled, UnitPlaced
  <2> QED
    BY <2>1, <2>2
<1>7. Settled'
  <2>1. \A i \in DOMAIN settled' : Within(settled'[i], merged')
    <3> SUFFICES ASSUME NEW i \in DOMAIN settled' PROVE Within(settled'[i], merged')
      OBVIOUS
    <3>1. CASE i = u
      BY <3>1, <1>2, <1>4
    <3>2. CASE i # u
      <4>1. i \in DOMAIN settled
        BY <3>2, <1>0, <1>2 DEF Typed, UnitPlaced
      <4>2. Within(settled[i], merged)
        BY <4>1 DEF Settled, UnitPlaced
      <4> QED
        BY <4>1, <4>2, <1>2, <1>3 DEF Within
    <3> QED
      BY <3>1, <3>2
  <2>2. at' = at /\ units' = units
    BY DEF UnitPlaced
  <2> QED
    BY <2>1, <2>2, <1>6 DEF Settled
<1>8. Current'
  BY DEF Current, UnitPlaced, UnitMeans
<1>9. Follows'
  <2> SUFFICES ASSUME phase' = "emit" PROVE (AtItem => pc = at[<<u, k>>])' /\ pc' <= CODE_SIZE
    BY DEF Follows
  <2>1. u' = 1 /\ k' = 1 /\ pc' = 0 /\ at' = at /\ units' = units
    BY <1>0 DEF UnitPlaced
  <2>2. 1 \in DOMAIN settled'
    BY <1>0, <1>2
  <2>3. PICK last \in Nat : UnitMeans(at, units[1], 1, settled'[1], Len(units[1]), last)
    BY <2>2, <1>6
  <2>4. ASSUME AtItem' PROVE at[<<1, 1>>] = 0
    <3>1. Len(units[1]) \in Nat
      BY <1>0, ProgramAssumption DEF Typed
    <3>2. Len(units[1]) > 0
      BY <3>1, <2>1, <2>4 DEF AtItem
    <3> QED
      BY <2>3, <3>2 DEF UnitMeans
  <2> QED
    BY <2>1, <2>4, SizeAssumption
<1>10. Placed' /\ LoadsCanRun'
  BY DEF UnitPlaced, Placed, BlocksStand, LoadsCanRun
<1> QED
  BY <1>5, <1>7, <1>8, <1>9, <1>10

-----------------------------------------------------------------------------
\* The emit pass.

\* What the place pass made of the line at hand, under its unit's table.
LEMMA LineMeans ==
  ASSUME IInv, phase = "emit", AtItem
  PROVE  /\ readable = settled[u] /\ Within(settled[u], merged)
         /\ \E next \in Nat :
              /\ Means(item, settled[u], pc, next)
              /\ k + 1 \in 1 .. Len(units[u]) => next = at[<<u, k + 1>>]
<1> USE DEF IInv
<1>0. /\ Len(units) \in Nat /\ Len(units[u]) \in Nat
      /\ u \in 1 .. Len(units) /\ k \in 1 .. Len(units[u])
  BY ItemTyped DEF Typed, AtItem
<1>1. u \in DOMAIN settled
  BY <1>0 DEF Typed
<1>2. readable = settled[u] /\ Within(settled[u], merged)
  BY <1>1 DEF readable, Settled
<1>3. PICK last \in Nat : UnitMeans(at, units[u], u, settled[u], Len(units[u]), last)
  BY <1>1 DEF Settled
<1> DEFINE next == IF k = Len(units[u]) THEN last ELSE at[<<u, k + 1>>]
<1>4. Means(units[u][k], settled[u], at[<<u, k>>], next)
  BY <1>0, <1>3 DEF UnitMeans
<1>5. next \in Nat
  <2>1. CASE k = Len(units[u])
    BY <2>1
  <2>2. CASE k # Len(units[u])
    <3>1. k + 1 \in 1 .. Len(units[u])
      BY <2>2, <1>0
    <3> QED
      BY <3>1, <2>2, <1>3 DEF UnitMeans
  <2> QED
    BY <2>1, <2>2
<1>6. k + 1 \in 1 .. Len(units[u]) => next = at[<<u, k + 1>>]
  BY <1>0
<1>7. pc = at[<<u, k>>]
  BY DEF Follows
<1> HIDE DEF next
<1> QED
  BY <1>2, <1>4, <1>5, <1>6, <1>7 DEF item

\* Every line of the emit pass leaves the counter where the place pass did.
LEMMA EmitStep ==
  ASSUME IInv, phase = "emit", AtItem, phase' = phase, u' = u, k' = k + 1,
         UNCHANGED <<units, own, settled, at, merged, result>>,
         \A next \in Nat : Means(item, settled[u], pc, next) => pc' = next /\ next <= CODE_SIZE,
         Placed'
  PROVE  IInv'
<1> USE DEF IInv
<1>0. /\ Len(units) \in Nat /\ Len(units[u]) \in Nat
      /\ u \in 1 .. Len(units) /\ k \in 1 .. Len(units[u])
  BY ItemTyped DEF Typed, AtItem
<1>1. PICK next \in Nat :
        /\ Means(item, settled[u], pc, next)
        /\ k + 1 \in 1 .. Len(units[u]) => next = at[<<u, k + 1>>]
  BY LineMeans
<1>2. pc' = next /\ pc' <= CODE_SIZE
  BY <1>1
<1>3. Typed'
  BY <1>0, <1>2 DEF Typed
<1>4. Settled'
  BY DEF Settled
<1>5. Current'
  BY DEF Current
<1>6. Follows'
  BY <1>1, <1>2 DEF Follows, AtItem
<1>7. LoadsCanRun'
  BY DEF LoadsCanRun
<1> QED
  BY <1>3, <1>4, <1>5, <1>6, <1>7

LEMMA EmitNameInv == ASSUME IInv, EmitName PROVE IInv'
<1>1. Placed'
  BY DEF IInv, EmitName, Placed, BlocksStand
<1>2. \A next \in Nat : Means(item, settled[u], pc, next) => pc' = next /\ next <= CODE_SIZE
  BY DEF IInv, Follows, EmitName, Means
<1> QED
  BY <1>1, <1>2, EmitStep DEF EmitName

LEMMA EmitOrgInv == ASSUME IInv, EmitOrg PROVE IInv'
<1>1. Placed'
  BY DEF IInv, EmitOrg, Placed, BlocksStand
<1>2. readable = settled[u]
  BY LineMeans DEF EmitOrg
<1>3. \A next \in Nat : Means(item, settled[u], pc, next) => pc' = next /\ next <= CODE_SIZE
  BY <1>2 DEF EmitOrg, Means
<1> QED
  BY <1>1, <1>3, EmitStep DEF EmitOrg

\* A datum is as long as its size says.
LEMMA BytesLength ==
  ASSUME NEW it, size(it) \in Nat
  PROVE  Len(bytes(it)) = size(it)
<1> DEFINE S == {bytes(it)[i] : i \in 1 .. size(it)}
<1>1. bytes(it) \in [1 .. size(it) -> S]
  BY DEF bytes
<1> HIDE DEF S
<1>2. bytes(it) \in Seq(S)
  BY <1>1
<1>3. DOMAIN bytes(it) = 1 .. size(it)
  BY <1>1
<1> QED
  BY <1>2, <1>3, LenProperties

\* A block is put where nothing was, and whole.
LEMMA PlacedStep ==
  ASSUME Placed, pc \in Nat, pc <= CODE_SIZE, NEW data, NEW n \in Nat, Len(data) = n,
         in_code(pc, n), free(pc, n), place(pc, data)
  PROVE  Placed' /\ pc + n <= CODE_SIZE
<1> DEFINE new == [addr |-> pc, data |-> data]
<1>0. pc + n <= CODE_SIZE
  <2>1. CASE n = 0
    BY <2>1
  <2>2. CASE n # 0
    <3>1. pc + n - 1 \in cells(pc, n)
      BY <2>2 DEF cells
    <3> QED
      BY <3>1, SizeAssumption DEF in_code
  <2> QED
    BY <2>1, <2>2
<1>1. PICK S : blocks \in Seq(S)
  BY DEF Placed
<1>2. blocks \in Seq(S \cup {new})
  BY <1>1
<1>3. /\ blocks' \in Seq(S \cup {new}) /\ Len(blocks) \in Nat
      /\ Len(blocks') = Len(blocks) + 1
      /\ \A i \in 1 .. Len(blocks) : blocks'[i] = blocks[i]
      /\ blocks'[Len(blocks) + 1] = new
  BY <1>2 DEF place
<1>4. DOMAIN out' = DOMAIN out \cup cells(pc, n)
  BY DEF place
<1>5. \A a \in DOMAIN out : out'[a] = out[a]
  BY DEF place, free
<1>6. \A a \in cells(pc, n) :
        out'[a] = [byte |-> data[a - pc + 1], block |-> Len(blocks) + 1]
  BY DEF place
<1>7. DOMAIN out' \subseteq 0 .. CODE_SIZE - 1
  BY <1>4 DEF Placed, in_code
<1>8. hi_water' \in 0 .. CODE_SIZE /\ hi_water' >= hi_water /\ hi_water' >= pc + n
  BY <1>0, SizeAssumption DEF Placed, place
<1>9. \A a \in DOMAIN out' : a < hi_water'
  <2>1. ASSUME NEW a \in DOMAIN out PROVE a < hi_water'
    <3>1. a < hi_water /\ a \in 0 .. CODE_SIZE - 1 /\ hi_water \in Int
      BY DEF Placed
    <3> QED
      BY <3>1, <1>8, SizeAssumption
  <2>2. ASSUME NEW a \in cells(pc, n) PROVE a < hi_water'
    BY <2>2, <1>8, SizeAssumption DEF cells
  <2> QED
    BY <2>1, <2>2, <1>4
<1>10. BlocksStand'
  <2> SUFFICES ASSUME NEW b \in 1 .. Len(blocks'), NEW i \in 1 .. Len(blocks'[b].data)
               PROVE  /\ blocks'[b].addr + i - 1 \in DOMAIN out'
                      /\ out'[blocks'[b].addr + i - 1] =
                           [byte |-> blocks'[b].data[i], block |-> b]
    BY DEF BlocksStand
  <2>1. CASE b \in 1 .. Len(blocks)
    <3>1. blocks'[b] = blocks[b]
      BY <2>1, <1>3
    <3>2. /\ blocks[b].addr + i - 1 \in DOMAIN out
          /\ out[blocks[b].addr + i - 1] = [byte |-> blocks[b].data[i], block |-> b]
      BY <2>1, <3>1 DEF Placed, BlocksStand
    <3> QED
      BY <3>1, <3>2, <1>4, <1>5
  <2>2. CASE b = Len(blocks) + 1
    <3>1. blocks'[b].addr = pc /\ blocks'[b].data = data
      BY <2>2, <1>3
    <3>2. i \in 1 .. n
      BY <3>1
    <3>3. pc + i - 1 \in cells(pc, n) /\ (pc + i - 1) - pc + 1 = i
      BY <3>2 DEF cells
    <3> QED
      BY <3>1, <3>3, <2>2, <1>4, <1>6
  <2> QED
    BY <2>1, <2>2, <1>3
<1> QED
  BY <1>0, <1>3, <1>7, <1>8, <1>9, <1>10 DEF Placed

LEMMA EmitDataInv == ASSUME IInv, EmitData PROVE IInv'
<1>1. size(item) \in Nat /\ Len(bytes(item)) = size(item)
  BY ItemTyped, BytesLength DEF IInv, Typed, EmitData
<1>2. pc \in Nat /\ pc <= CODE_SIZE
  BY DEF IInv, Typed, Follows, EmitData
<1>3. Placed' /\ pc + size(item) <= CODE_SIZE
  BY <1>1, <1>2, PlacedStep DEF IInv, EmitData
<1>4. \A next \in Nat : Means(item, settled[u], pc, next) => pc' = next /\ next <= CODE_SIZE
  BY <1>3 DEF EmitData, Means
<1> QED
  BY <1>3, <1>4, EmitStep DEF EmitData

LEMMA UnitEmittedInv == ASSUME IInv, UnitEmitted PROVE IInv'
<1> USE DEF IInv
<1>0. Len(units) \in Nat /\ u \in 1 .. Len(units)
  BY ProgramAssumption DEF Typed, UnitEmitted
<1>1. Typed'
  BY <1>0 DEF Typed, UnitEmitted
<1>2. Settled' /\ Current' /\ LoadsCanRun'
  BY DEF Settled, Current, LoadsCanRun, UnitEmitted
<1>3. Placed'
  BY DEF Placed, BlocksStand, UnitEmitted
<1>4. Follows'
  <2>1. ASSUME AtItem' PROVE at[<<u + 1, 1>>] = 0
    <3>1. u + 1 \in 1 .. Len(units) /\ 1 \in 1 .. Len(units[u + 1])
      BY <2>1 DEF AtItem, UnitEmitted
    <3>2. Len(units[u + 1]) \in Nat /\ u + 1 \in DOMAIN settled
      BY <3>1, ProgramAssumption DEF Typed, UnitEmitted
    <3>3. PICK last \in Nat :
            UnitMeans(at, units[u + 1], u + 1, settled[u + 1], Len(units[u + 1]), last)
      BY <3>2 DEF Settled, UnitEmitted
    <3>4. Len(units[u + 1]) > 0
      BY <3>1, <3>2
    <3> QED
      BY <3>3, <3>4 DEF UnitMeans
  <2> QED
    BY <2>1, SizeAssumption DEF Follows, UnitEmitted
<1> QED
  BY <1>1, <1>2, <1>3, <1>4

-----------------------------------------------------------------------------
\* The result.

LEMMA LoadsAreAccepted ==
  ASSUME NEW d \in Declared, loads(d), hi_water \in 0 .. CODE_SIZE,
         LoadResult(d).entry \in 0 .. WORD
  PROVE  LET r == LoadResult(d) IN
         /\ ~machine_refuses(r)
         /\ \A v \in DOMAIN r.vec : r.vec[v] \in 1 .. r.codelen - 1
<1> DEFINE r == LoadResult(d)
<1>1. r.codelen = hi_water /\ r.codelen \in 0 .. WORD
  BY SizeAssumption DEF LoadResult
<1>2. r.entry = entry_of(d) /\ ~entry_error(r.entry, r.codelen)
  BY <1>1 DEF LoadResult, loads, entry_fits
<1>3. ASSUME r.window # None
      PROVE  /\ r.window[1] \in 0 .. WORD /\ r.window[2] \in 0 .. WORD
             /\ r.window[1] <= r.window[2]
             /\ ~window_error(r.window[1], r.window[2], r.codelen)
  <2>1. d.window # None
    BY <1>3 DEF LoadResult
  <2>2. r.window = <<evaluate(d.window[1], merged), evaluate(d.window[2], merged)>>
    BY <2>1 DEF LoadResult
  <2> QED
    BY <1>1, <2>1, <2>2 DEF loads, window_fits, resolves
<1>4. ASSUME NEW v \in DOMAIN r.vec
      PROVE  v \in 0 .. VEC_COUNT - 1 /\ r.vec[v] \in 1 .. r.codelen - 1
  <2>1. v \in DOMAIN d.vectors /\ r.vec[v] = evaluate(d.vectors[v], merged)
    BY DEF LoadResult
  <2> QED
    BY <1>1, <2>1 DEF loads, vectors_fit
<1>5. \A v \in DOMAIN r.vec : r.vec[v] \in 0 .. WORD
  BY <1>1, <1>4, SizeAssumption
<1>6. r.vtab # None => r.vtab \in 0 .. WORD /\ ~vtab_error(r.vtab)
  BY DEF LoadResult, loads, vtab_fits, resolves
<1>7. r.regions # None => ~regions_error(r.regions)
  BY DEF LoadResult, loads, regions_fit
<1>8. r.length \in 1 .. CODE_SIZE /\ r.length >= r.codelen
  <2>1. /\ image_length(d) \in 1 .. CODE_SIZE /\ image_length(d) >= image_needed
        /\ image_needed >= hi_water
    BY SizeAssumption DEF loads, image_fits, image_needed
  <2>2. r.length = image_length(d)
    BY DEF LoadResult
  <2> HIDE DEF r
  <2> QED
    BY <2>1, <2>2, <1>1, SizeAssumption DEF image_needed
<1>9. r.entry \in 0 .. WORD
  OBVIOUS
<1> HIDE DEF r
<1>10. ~config_refuses(r)
  <2>1. ASSUME r.window # None
        PROVE  ~(\/ r.window[1] \notin 0 .. WORD \/ r.window[2] \notin 0 .. WORD
                 \/ r.window[2] < r.window[1]
                 \/ window_error(r.window[1], r.window[2], r.codelen))
    BY <2>1, <1>3, SizeAssumption
  <2> QED
    BY <2>1, <1>1, <1>2, <1>4, <1>5, <1>6, <1>7, <1>9 DEF config_refuses
<1>11. ~(r.length > CODE_SIZE) /\ ~(r.codelen > r.length)
  BY <1>1, <1>8, SizeAssumption
<1>12. ~machine_refuses(r)
  BY <1>10, <1>11 DEF machine_refuses
<1> QED
  BY <1>4, <1>12 DEF r

LEMMA FinishInv == ASSUME IInv, Finish PROVE IInv'
<1> USE DEF IInv
<1>1. PICK d \in Declared :
        \/ /\ loads(d) /\ phase' = "done" /\ result' = LoadResult(d)
           /\ UNCHANGED <<units, u, k, pc, own, settled, at, merged, out, blocks, hi_water>>
        \/ ~loads(d) /\ refuse
  BY DEF Finish
<1>2. CASE /\ loads(d) /\ phase' = "done" /\ result' = LoadResult(d)
           /\ UNCHANGED <<units, u, k, pc, own, settled, at, merged, out, blocks, hi_water>>
  <2>1. Typed'
    BY <1>2 DEF Typed
  <2>2. Settled' /\ Current' /\ Follows'
    BY <1>2 DEF Settled, Current, Follows
  <2>3. Placed'
    BY <1>2 DEF Placed, BlocksStand
  <2>4. hi_water \in 0 .. CODE_SIZE
    BY DEF Placed
  <2>5. ASSUME result'.entry \in 0 .. WORD
        PROVE  /\ ~machine_refuses(result')
               /\ \A v \in DOMAIN result'.vec : result'.vec[v] \in 1 .. result'.codelen - 1
    <3>1. result' = LoadResult(d) /\ LoadResult(d).entry \in 0 .. WORD
      BY <1>2, <2>5
    <3>2. LET r == LoadResult(d) IN
          /\ ~machine_refuses(r)
          /\ \A v \in DOMAIN r.vec : r.vec[v] \in 1 .. r.codelen - 1
      BY <1>2, <2>4, <3>1, LoadsAreAccepted
    <3> QED
      BY <3>1, <3>2
  <2>6. LoadsCanRun'
    BY <2>5 DEF LoadsCanRun, machine_refuses, config_refuses
  <2> QED
    BY <2>1, <2>2, <2>3, <2>6
<1>3. CASE ~loads(d) /\ refuse
  BY <1>3, RefusedInv DEF Finish
<1> QED
  BY <1>1, <1>2, <1>3

-----------------------------------------------------------------------------
LEMMA InitInv == Init => IInv
<1> SUFFICES ASSUME Init PROVE IInv
  OBVIOUS
<1>1. Len(units) \in Nat \ {0} /\ Len(units[1]) \in Nat
  BY ProgramAssumption DEF Init
<1>2. IsTable(own) /\ IsTable(merged)
  BY DEF Init, IsTable
<1>3. Typed
  BY <1>1, <1>2 DEF Init, Typed
<1>4. Settled
  BY DEF Init, Settled
<1>5. Current
  BY DEF Init, Current, UnitMeans
<1>6. Follows
  BY DEF Init, Follows
<1>7. Placed
  <2>1. blocks \in Seq({}) /\ Len(blocks) = 0
    BY DEF Init
  <2> QED
    BY <2>1, SizeAssumption DEF Init, Placed, BlocksStand
<1>8. LoadsCanRun
  BY DEF Init, LoadsCanRun
<1> QED
  BY <1>3, <1>4, <1>5, <1>6, <1>7, <1>8 DEF IInv

LEMMA NextInv == IInv /\ [Next]_vars => IInv'
<1> SUFFICES ASSUME IInv, [Next]_vars PROVE IInv'
  OBVIOUS
<1>1. CASE PlaceLabel
  BY <1>1, PlaceLabelInv
<1>2. CASE PlaceEqu
  BY <1>2, PlaceEquInv
<1>3. CASE PlaceOrg
  BY <1>3, PlaceOrgInv
<1>4. CASE PlaceData
  BY <1>4, PlaceDataInv
<1>5. CASE PlaceRefused \/ UnitRefused \/ EmitRefused
  BY <1>5, RefusedInv DEF PlaceRefused, UnitRefused, EmitRefused
<1>6. CASE UnitPlaced
  BY <1>6, UnitPlacedInv
<1>7. CASE EmitName
  BY <1>7, EmitNameInv
<1>8. CASE EmitOrg
  BY <1>8, EmitOrgInv
<1>9. CASE EmitData
  BY <1>9, EmitDataInv
<1>10. CASE UnitEmitted
  BY <1>10, UnitEmittedInv
<1>11. CASE Finish
  BY <1>11, FinishInv
<1>12. CASE Answered \/ UNCHANGED vars
  <2> USE DEF IInv
  <2>1. UNCHANGED vars
    BY <1>12 DEF Answered
  <2>2. Typed' /\ Settled' /\ Follows'
    BY <2>1 DEF vars, Typed, Settled, Follows, AtItem
  <2>4. Current'
    <3>1. Agreed' = Agreed /\ readable' = readable
      BY <2>1 DEF vars, Agreed, agrees, readable, before
    <3> QED
      BY <2>1, <3>1 DEF vars, Current
  <2>3. Placed' /\ LoadsCanRun'
    BY <2>1 DEF vars, Placed, BlocksStand, LoadsCanRun
  <2> QED
    BY <2>2, <2>3, <2>4
<1> QED
  BY <1>1, <1>2, <1>3, <1>4, <1>5, <1>6, <1>7, <1>8, <1>9, <1>10, <1>11, <1>12 DEF Next

\* The invariant of the argument at the head of this module.
THEOREM LoaderInvariant == Spec => []IInv
BY InitInv, NextInv, PTL DEF Spec

\* Whatever is linked: counters, tables and the image keep their types, and
\* nothing is put down outside CODE.
THEOREM LoaderTypes == Spec => []TypeOK
<1>1. IInv => TypeOK
  BY DEF IInv, Typed, Placed, TypeOK
<1> QED
  BY <1>1, LoaderInvariant, PTL

\* For every program: on the emit pass a label stands where its bytes are put,
\* and every constant and .org has the value its text has in the whole program.
THEOREM LinesKeepMeaning == Spec => []MeaningHolds
<1>1. ASSUME IInv PROVE MeaningHolds
  <2> SUFFICES ASSUME phase = "emit", AtItem
               PROVE  /\ pc = at[<<u, k>>]
                      /\ item.op = "label" => merged[item.name].value = pc
                      /\ item.op = "equ" => merged[item.name].value = evaluate(item.expr, merged)
                      /\ item.op = "org" => evaluate(item.expr, readable) = evaluate(item.expr, merged)
    BY DEF MeaningHolds
  <2>1. pc = at[<<u, k>>]
    BY <1>1 DEF IInv, Follows
  <2>2. PICK next \in Nat : Means(item, settled[u], pc, next)
    BY <1>1, LineMeans
  <2>3. Means(item, merged, pc, next)
    BY <1>1, <2>2, LineMeans, MeansGrow
  <2>4. readable = settled[u]
    BY <1>1, LineMeans
  <2> QED
    BY <2>1, <2>2, <2>3, <2>4 DEF Means
<1> QED
  BY <1>1, LoaderInvariant, PTL

\* For every program: no block loses a byte to another.
THEOREM NothingOverwritten == Spec => []BlocksStand
<1>1. IInv => BlocksStand
  BY DEF IInv, Placed
<1> QED
  BY <1>1, LoaderInvariant, PTL

\* For every program and declaration: what links with an entry in range is
\* accepted by the configuration block and by the machine.
THEOREM LinkedCanRun == Spec => []LoadsCanRun
<1>1. IInv => LoadsCanRun
  BY DEF IInv
<1> QED
  BY <1>1, LoaderInvariant, PTL
=============================================================================
