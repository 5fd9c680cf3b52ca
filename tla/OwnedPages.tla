----------------------------- MODULE OwnedPages -----------------------------
(***************************************************************************)
(* What a bank group promises, whatever runs it: machines that each own a  *)
(* page take one turn each per group tick, in any order, and a turn writes *)
(* the machine's own page, or one that was quiet when the tick began, and  *)
(* never a protected byte.  src/banks.py states the promise (its module    *)
(* docstring and CIRCUIT_ROWS) and src/ISA.md section 4.8 words it;        *)
(* BankGroup (one driver) and BatchGroup (parallel rows) implement it.     *)
(***************************************************************************)
EXTENDS Integers

CONSTANTS
  Machine,       \* the members
  Addr,          \* the addresses of a page
  Byte,          \* values of a cell
  Protected,     \* the protected addresses of each member's page
  Image          \* the pages at the start

VARIABLES
  page,      \* each member's page
  running,   \* the members that have not stopped
  quiet,     \* the members that had stopped when the group tick began
  done       \* the members that have had their turn in it

avars == <<page, running, quiet, done>>

AInit ==
  /\ page = Image
  /\ running = Machine
  /\ quiet = {}
  /\ done = Machine

\* A group tick begins: whose page is quiet is decided here, once.  A member
\* that has stopped may be passed over.
ABegin ==
  /\ done = Machine
  /\ quiet' = Machine \ running
  /\ done' \in SUBSET (Machine \ running)
  /\ UNCHANGED <<page, running>>

\* A turn that writes nothing; a running member may stop on it.
AIdle(m) ==
  /\ m \in Machine \ done
  /\ running' \in {running, running \ {m}}
  /\ done' = done \cup {m}
  /\ UNCHANGED <<page, quiet>>

\* A write of unprotected bytes of one page in a member's turn: its own page, or
\* one that was quiet at the tick's beginning.  The turn may be over or go on.
AWrite(m, p) ==
  /\ m \in running \ done
  /\ p = m \/ p \in quiet
  /\ page'[p] \in [Addr -> Byte]
  /\ page' = [page EXCEPT ![p] = page'[p]]
  /\ \A a \in Protected[p] : page'[p][a] = page[p][a]
  /\ done' \in {done, done \cup {m}}
  /\ UNCHANGED <<running, quiet>>

\* Between group ticks a member may be given another state.
ARestore(m) ==
  /\ done = Machine
  /\ page'[m] \in [Addr -> Byte]
  /\ page' = [page EXCEPT ![m] = page'[m]]
  /\ running' \in {running \cup {m}, running \ {m}}
  /\ UNCHANGED <<quiet, done>>

ANext ==
  \/ ABegin
  \/ \E m \in Machine :
       \/ AIdle(m)
       \/ \E p \in Machine : AWrite(m, p)
       \/ ARestore(m)

ASpec == AInit /\ [][ANext]_avars
=============================================================================
