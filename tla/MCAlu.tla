------------------------------- MODULE MCAlu -------------------------------
(***************************************************************************)
(* Small instances of Alu for TLC: bytes of two bits, which have every     *)
(* combination of carry and signed overflow, and one tick, from every      *)
(* content of the four registers and the flags.                            *)
(***************************************************************************)
EXTENDS Alu

Machine(r, HL, DE, flags, PC) ==
  [r |-> r, HL |-> HL, DE |-> DE, MB |-> 7, SP |-> 6, PC |-> PC,
   C |-> flags[1], Z |-> flags[2], S |-> flags[3], V |-> flags[4],
   ipos |-> flags[1], status |-> "RUNNING"]

MCInputs == <<2>>

Flags == {<<0, 0, 0, 0>>, <<1, 0, 0, 0>>, <<0, 1, 1, 1>>, <<1, 1, 0, 1>>}

\* Every content of the registers, and every content of the pointers with the
\* last byte of CODE one byte away.  The one input byte is read or not.
MCStarts ==
  {Machine(r, 15, 2, flags, 5) : r \in [Reg -> Byte], flags \in Flags}
    \cup {Machine([i \in Reg |-> i], HL, DE, flags, 7) :
            HL \in Word, DE \in Word, flags \in Flags}

instr(kind, f, imm, to, len) ==
  [kind |-> kind, f |-> f, imm |-> imm, to |-> to, len |-> len]

\* The operand pairs r0 r2, r1 r3, r3 r0 and r2 r2, in the places of the nibble;
\* every immediate of one register; a target inside CODE and one past its end.
MCProgram ==
  {instr(k, f, 0, 0, IF k \in Escaped THEN 2 ELSE 1) : k \in TwoReg, f \in {2, 7, 12, 10}}
    \cup {instr(k, f, 0, 0, IF k \in Escaped THEN 2 ELSE 1) : k \in OneReg, f \in {1, 6}}
    \cup {instr(k, 9, i, 0, 2) : k \in ImmReg, i \in Byte}
    \cup {instr(k, 0, 0, 0, IF k \in Escaped THEN 2 ELSE 1) : k \in Pointer \cup {"NOP", "CLC"}}
    \cup {instr(k, 1, i, 0, 2) : k \in PtrReg, i \in {0, 3}}
    \cup {instr(k, 3, i, 3, 3) : k \in Branch, i \in {1, 3}}
    \cup {instr(k, 3, 0, 14, 3) : k \in Branch}
=============================================================================
