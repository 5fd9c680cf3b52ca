------------------------------ MODULE MCMachine ------------------------------
(***************************************************************************)
(* A machine of ten cells, room for two trap frames above its vector table,*)
(* with an image of ten bytes of radix four, so that addresses take two    *)
(* bytes.                                                                  *)
(***************************************************************************)
EXTENDS Machine, TLC

MCVec == <<5, 0>>

\* Branches in and out of the image; every width of push, pop and store, on
\* the table, the floor and the protected cell; SP at the floor and past DATA.
MCProgram ==
  {[kind |-> "JMP", len |-> 3, to |-> t] : t \in {0, CodeLen}}
    \cup {[kind |-> "CALL", len |-> 3, to |-> t] : t \in {1, CodeLen}}
    \cup {[kind |-> "RET", len |-> 1]}
    \cup {[kind |-> "EXT", len |-> 3, k |-> k] : k \in 0 .. Len(Vec)}
    \cup {[kind |-> "TRAPRET", len |-> 2]}
    \cup {[kind |-> "PUSH", len |-> Len(p), put |-> p] : p \in {<<1>>, <<3, 1>>}}
    \cup {[kind |-> "POP", len |-> n, n |-> n] : n \in {1, 2}}
    \cup {[kind |-> "ST", len |-> Len(p), at |-> a, put |-> p] :
            p \in {<<1>>, <<0, 1>>}, a \in {0, 2, DataSize - 4, DataSize - 1}}
    \cup {[kind |-> "SETSP", len |-> 2, to |-> s] : s \in {Splim, DataSize - 4, DataSize + 1}}
    \cup {[kind |-> "STC", len |-> 2, at |-> a] : a \in {0, 1, CodeLen}}
    \cup {[kind |-> "LD", len |-> 1, at |-> DataSize - 1, n |-> n] : n \in {1, 2}}
    \cup {[kind |-> "LDC", len |-> 2, at |-> a] : a \in {0, CodeLen}}
    \cup {[kind |-> "OUTM", len |-> 1, at |-> a] : a \in {0, DataSize}}
    \cup {[kind |-> k, len |-> 1] : k \in {"OUT", "HALT", "ALU", "BAD"}}
=============================================================================
