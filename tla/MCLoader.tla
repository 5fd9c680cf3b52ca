------------------------------ MODULE MCLoader ------------------------------
(***************************************************************************)
(* Every unit of up to three lines of a pool, every pair of units of up to *)
(* two and every three of up to one, over two names and a CODE of four     *)
(* bytes.  The pool has labels, constants of a number and of a label, .org *)
(* to a number, to a name and before one, and data of no, one and two      *)
(* bytes: a byte, an address, an immediate and an empty string.            *)
(***************************************************************************)
EXTENDS Loader, TLC

Const(v)   == [name |-> None, k |-> v]
Ref(n, v)  == [name |-> n, k |-> v]
Label(n)   == [op |-> "label", name |-> n]
Equ(n, e)  == [op |-> "equ", name |-> n, expr |-> e]
Org(e)     == [op |-> "org", expr |-> e]
Data(s, w, args) == [op |-> "data", slot |-> s, width |-> w, args |-> args]

Pool ==
  { Label("main"), Label("x"), Equ("main", Const(-1)), Equ("x", Const(1)), Equ("x", Ref("main", 1)),
    Org(Const(1)), Org(Ref("x", 0)), Org(Ref("main", -1)),
    Data("byte", 1, <<Const(2), Ref("x", 0)>>), Data("byte", 1, <<Const(2)>>), Data("i16", 2, <<Ref("main", 0)>>),
    Data("i8", 1, <<Ref("x", 1)>>), Data("ascii", 1, <<>>) }

Upto(n) == UNION {[1 .. m -> Pool] : m \in 0 .. n}

MCPrograms == {<<a>> : a \in Upto(3)} \cup {<<a, b>> : a, b \in Upto(2)}
              \cup {<<a, b, c>> : a, b, c \in Upto(1)}

Plain == [vectors |-> <<>>, window |-> None, vtab |-> None, regions |-> None,
          image |-> None, entry |-> None]

\* Each declaration inside, at and past what may be declared.
MCDeclared ==
  {Plain}
  \cup {[Plain EXCEPT !.vectors = <<r>>] : r \in {Ref("main", 0), Const(1), Const(3)}}
  \cup {[Plain EXCEPT !.vectors = VEC_COUNT :> Const(1)]}
  \cup {[Plain EXCEPT !.window = w] :
          w \in {<<Const(0), Const(2)>>, <<Ref("main", 0), Const(4)>>, <<Const(1), Const(0)>>}}
  \cup {[Plain EXCEPT !.vtab = Const(v)] : v \in {0, 1, 2, 4}}
  \cup {[Plain EXCEPT !.regions = r] :
          r \in {<<<<Const(0), Const(2)>>, <<Const(2), Const(4)>>>>,
                 <<<<Const(0), Const(2)>>, <<Const(1), Const(2)>>>>,
                 <<<<Const(2), Const(1)>>>>}}
  \cup {[Plain EXCEPT !.image = i] : i \in {0, 3, 5}}
  \cup {[Plain EXCEPT !.entry = e] : e \in {Ref("x", 0), Const(2)}}
=============================================================================
