-------------------------------- MODULE Word32 --------------------------------
(***************************************************************************)
(* 32-bit words and the Cortex-M0 instructions on them that the routines   *)
(* of the ROM use.  A word is the set of the positions of its one bits, so *)
(* that all 32 of them fit where TLC's integers end; and, orr, bic are     *)
(* intersection, union and difference.                                     *)
(***************************************************************************)
EXTENDS Naturals

Bits  == 0..31
Words == SUBSET Bits

(* The word of a natural below 2^31, and back for small words. *)
Word(n) == {b \in 0..30 : (n \div 2^b) % 2 = 1}
Number(w) ==
  LET from[b \in Bits] ==
        IF b = 31 THEN 0 ELSE (IF b \in w THEN 1 ELSE 0) + 2 * from[b + 1]
  IN  from[0]

Eor(v, w) == (v \ w) \cup (w \ v)
Lsl(w, n) == {b \in Bits : b >= n /\ b - n \in w}
Lsr(w, n) == {b \in Bits : b + n \in w}

(* rev reverses the bytes; uxtb keeps the lowest. *)
Rev(w)  == {b \in Bits : 8 * (3 - b \div 8) + (b % 8) \in w}
Uxtb(w) == w \cap 0..7

(* add: the carry into bit b, and the sum modulo 2^32 *)
Add(v, w) ==
  LET carry[b \in Bits] ==
        IF b = 0 THEN FALSE
        ELSE \/ b - 1 \in v /\ b - 1 \in w
             \/ carry[b - 1] /\ b - 1 \in v \cup w
  IN  {b \in Bits : (b \in Eor(v, w)) # carry[b]}

(* mul by a word whose one bits are the positions ps[1], ps[2], ps[3] *)
MulBy(w, p, q, r) == Add(Add(Lsl(w, p), Lsl(w, q)), Lsl(w, r))
=============================================================================
