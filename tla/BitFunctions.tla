----------------------------- MODULE BitFunctions -----------------------------
(***************************************************************************)
(* The bit functions of bootrom/bit_functions.S (the NEW_ variants, which  *)
(* are the ones built) and crc32_small of bootrom/bootrom_misc.S, as these *)
(* compute them on registers.                                              *)
(***************************************************************************)
EXTENDS Word32, Sequences, FiniteSets

(* Every third bit, every second group of three, and so on. *)
Thirds == {b \in Bits : b % 3 = 0}             \* 0x49249249
Sixths == {b \in Bits : b % 6 \in {0, 1, 2}}   \* 0xC71C71C7

(* popcount32: counts in fields of 3, then 6, then 12 bits, then a product
   that adds the fields up in its six highest bits. *)
popcount32(w) ==
  LET three  == Add(Add(w \cap Thirds, Lsr(w, 1) \cap Thirds), Lsr(w, 2) \cap Thirds)
      six    == Add(three, Lsr(three, 3)) \cap Sixths
      twelve == Add(six, Lsr(six, 6))
  IN  Number(Lsr(MulBy(twelve, 2, 14, 26), 26))

(* reverse32: swap neighbours, then pairs, then nibbles, then bytes *)
FaultySwapBits(w, n, high) == (Lsl(w, n) \cap high) \cup Lsr(w, n)

SwapBits(w, n, high) == (Lsl(w, n) \cap high) \cup Lsr(w \cap high, n)
Pairs   == {b \in Bits : b % 4 \in {2, 3}}     \* 0xcccccccc
Nibbles == {b \in Bits : b % 8 \in 4..7}       \* 0xf0f0f0f0

reverse32(w) ==
  LET odd    == Eor(Lsr(Pairs, 1), Pairs)      \* 0xaaaaaaaa
      single == SwapBits(w, 1, odd)
      pairs  == SwapBits(single, 2, Pairs)
  IN  Rev(SwapBits(pairs, 4, Nibbles))

(* Leading and trailing zeroes of six bits, as the tables hold them. *)
clz6_table == [i \in 0..63 |->
  CASE i = 0 -> 6 [] i = 1 -> 5 [] i \in 2..3 -> 4 [] i \in 4..7 -> 3
    [] i \in 8..15 -> 2 [] i \in 16..31 -> 1 [] i \in 32..63 -> 0]
ctz6_table == [i \in 0..63 |->
  CASE i = 0 -> 6 [] i = 32 -> 5 [] i % 32 = 16 -> 4 [] i % 16 = 8 -> 3
    [] i % 8 = 4 -> 2 [] i % 4 = 2 -> 1 [] i % 2 = 1 -> 0]

(* clz32: the six bits below the first test that finds a one; "- 2 since
   we're using a 4 bit not 6 bit index" *)
clz32(w) ==
  LET at(n) == clz6_table[Number(Lsr(w, n))]
  IN  IF Lsr(w, 16) # {}
      THEN IF Lsr(w, 26) # {} THEN at(26)
           ELSE IF Lsr(w, 20) # {} THEN at(20) + 6
           ELSE at(16) + 12 - 2
      ELSE IF Lsr(w, 10) # {} THEN at(10) + 16
           ELSE IF Lsr(w, 4) # {} THEN at(4) + 22
           ELSE at(0) + 28 - 2

(* ctz32: the same from the other end; in the middle of each half, where only
   four bits are left, they are put above a one at bit 4 of the index, so
   that the table counts no further. *)
ctz32(w) ==
  LET six(n)  == ctz6_table[Number(Lsr(Lsl(w, 26 - n), 26))]
      four(n) == ctz6_table[Number(Lsr(Lsl(w, 28 - n), 28)) + 16]
  IN  IF Lsl(w, 16) # {}
      THEN IF Lsl(w, 22) = {} THEN six(10) + 10
           ELSE IF Lsl(w, 28) = {} THEN six(4) + 4
           ELSE four(0)
      ELSE IF Lsl(w, 6) = {} THEN six(26) + 26
           ELSE IF Lsl(w, 12) = {} THEN six(20) + 20
           ELSE four(16) + 16

-----------------------------------------------------------------------------
(* crc32_small: "each byte digested MSB-first" *)
Polynomial == Word(79764919)                   \* 0x4c11db7

DigestBit(r) == IF 31 \in r THEN Eor(Lsl(r, 1), Polynomial) ELSE Lsl(r, 1)

DigestByte(crc, byte) ==
  LET top == Lsl(Eor(byte, Rev(crc)), 24)
      bit[i \in 0..8] == IF i = 0 THEN top ELSE DigestBit(bit[i - 1])
  IN  Eor(Lsl(crc, 8), bit[8])

crc32_small(bytes, seed) ==
  LET crc[i \in 0..Len(bytes)] ==
        IF i = 0 THEN seed ELSE DigestByte(crc[i - 1], bytes[i])
  IN  crc[Len(bytes)]
=============================================================================
