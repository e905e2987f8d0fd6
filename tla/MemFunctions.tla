----------------------------- MODULE MemFunctions -----------------------------
(***************************************************************************)
(* __memcpy, __memcpy_44, __memset and __memset_4 of                       *)
(* bootrom/bootrom_misc.S.  What a call does to memory is the set of its   *)
(* accesses: how far from the start of the buffer each lies, and its width *)
(* in bytes.  (ldmia and stmia access whole words.)                        *)
(***************************************************************************)
EXTENDS Word32

Access(at, width) == [at |-> at, width |-> width]

Run(from, count, width) ==
  {Access(from + width * i, width) : i \in {j \in 0..count : j < count}}

(* _memcpy_short and __memcpy_slow_lp: byte by byte *)
Bytewise(n) == Run(0, n, 1)

(* One byte and one halfword, if it takes them to get to a word boundary. *)
HeadByte(dst) == dst % 2
HeadHalf(dst) == ((dst + HeadByte(dst)) \div 2) % 2
HeadLength(dst) == HeadByte(dst) + 2 * HeadHalf(dst)
HeadAccesses(dst) == Run(0, HeadByte(dst), 1) \cup Run(HeadByte(dst), HeadHalf(dst), 2)

(* _memcpy_aligned, and the same part of memset: blocks of 16 bytes, then what
   the low bits of the length ask for *)
Aligned(from, n) ==
  LET eight == from + 16 * (n \div 16)
      four  == eight + 8 * ((n \div 8) % 2)
      two   == four + 4 * ((n \div 4) % 2)
      one   == two + 2 * ((n \div 2) % 2)
  IN  Run(from, 4 * (n \div 16), 4)
        \cup Run(eight, 2 * ((n \div 8) % 2), 4)
        \cup Run(four, (n \div 4) % 2, 4)
        \cup Run(two, (n \div 2) % 2, 2)
        \cup Run(one, n % 2, 1)

FaultyAdjusted(dst, n) == HeadAccesses(dst) \cup Aligned(HeadLength(dst), n)

(* What follows the head has the length that is left: "adjust length". *)
Adjusted(dst, n) == HeadAccesses(dst) \cup Aligned(HeadLength(dst), n - HeadLength(dst))

__memcpy(dst, src, n) ==
  IF n < 8 \/ dst % 4 # src % 4 THEN Bytewise(n) ELSE Adjusted(dst, n)

__memcpy_44(n) == IF n < 8 THEN Bytewise(n) ELSE Aligned(0, n)

__memset(dst, n) == IF n < 8 THEN Bytewise(n) ELSE Adjusted(dst, n)

__memset_4(n) == Aligned(0, n)

(* The byte to store, doubled to a halfword and to a word. *)
Halfword(c) == Uxtb(c) \cup Lsl(Uxtb(c), 8)
Pattern(c)  == Halfword(c) \cup Rev(Halfword(c))

(* The register an access of memset stores from: a byte before the head ends,
   and the bytes of a short call, are stored before the byte is doubled. *)
Stored(c, dst, n, a) ==
  IF n < 8 \/ a.at < HeadByte(dst) THEN c
  ELSE IF a.at < HeadLength(dst) THEN Halfword(c)
  ELSE Pattern(c)

ByteOf(w, k) == Uxtb(Lsr(w, 8 * k))
=============================================================================
