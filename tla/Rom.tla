---------------------------------- MODULE Rom ----------------------------------
(***************************************************************************)
(* The pure routines of the image, called with one input after another:    *)
(* each result is compared with a definition of what the routine is for.   *)
(***************************************************************************)
EXTENDS BitFunctions, MemFunctions, TextCompression, DumpText

CONSTANTS
  Lengths,      \* lengths of memory copied or filled
  Letters,      \* bytes of a text
  Memory,       \* first bytes of the memory dumped
  Addresses     \* where that memory is

ASSUME LengthsAssumption == Lengths \subseteq Nat
ASSUME LettersAssumption == Letters \subseteq 0..255
ASSUME MemoryAssumption == Memory \subseteq Nat
ASSUME AddressesAssumption == Addresses \subseteq Nat

VARIABLE call   \* the routine that is being called, its arguments, its result

Offsets == 0..3

(* Values of memset's parameter c, an int: 0, one byte, and -1 *)
Fillers == {{}, {0, 2, 5, 7}, Bits}

(* Words with at most two ones, the first ones or the last ones, and what is
   left of 32 bits without them *)
Sparse == {{}} \cup {{a, b} : a, b \in Bits} \cup {0..b : b \in Bits}
Inputs == Sparse \cup {Bits \ w : w \in Sparse}

MessageBytes == {{}, {0}, {7}, {0, 2, 5, 7}, 0..7}
Messages == {<<>>} \cup {<<a>> : a \in MessageBytes} \cup {<<a, b>> : a, b \in MessageBytes}

(* What the generator could read into its buffer: at least a byte. *)
Texts == UNION {[1..n -> Letters] : n \in 1..BufSize}

Idle == [routine |-> "none"]

RomInit == call = Idle

Copy ==
  /\ call = Idle
  /\ \E dst, src \in Offsets, n \in Lengths :
       \/ call' = [routine |-> "memcpy", dst |-> dst, src |-> src, n |-> n,
                   accesses |-> __memcpy(dst, src, n)]
       \/ /\ dst = 0 /\ src = 0
          /\ call' = [routine |-> "memcpy", dst |-> 0, src |-> 0, n |-> n,
                      accesses |-> __memcpy_44(n)]

Fill ==
  /\ call = Idle
  /\ \E dst \in Offsets, n \in Lengths, c \in Fillers :
       \/ LET accesses == __memset(dst, n)
          IN  call' = [routine |-> "memset", dst |-> dst, n |-> n, c |-> c,
                       stored |-> [a \in accesses |-> Stored(c, dst, n, a)]]
       \/ /\ dst = 0
          /\ call' = [routine |-> "memset", dst |-> 0, n |-> n, c |-> c,
                      stored |-> [a \in __memset_4(n) |-> Pattern(c)]]

CountBits ==
  /\ call = Idle
  /\ \E w \in Inputs :
       call' = [routine |-> "bits", w |-> w, popcount |-> popcount32(w),
                reversed |-> reverse32(w), clz |-> clz32(w), ctz |-> ctz32(w)]

Checksum ==
  /\ call = Idle
  /\ \E bytes \in Messages, seed \in {{}, Bits} :
       call' = [routine |-> "crc", bytes |-> bytes, seed |-> seed,
                crc |-> crc32_small(bytes, seed)]

Compress ==
  /\ call = Idle
  /\ \E text \in Texts : call' = Begun(text)

InText(stage) == call.routine = "text" /\ call.stage = stage

(* The text on its way: through compress and its check, into the image. *)
CompressText ==
  \/ InText("compress") /\ call' \in Searched(call)
  \/ InText("letter") /\ call' = Lettered(call)
CheckText == InText("check") /\ call' = Decompressed(call)
ShowText == InText("image") /\ call' = PoorMansDecompressed(call)

Dump ==
  /\ call = Idle
  /\ \E first \in Memory, address \in Addresses :
       LET mem == [i \in 0..127 |-> (first + 3 * i) % 256]
       IN  call' = [routine |-> "xxd", address |-> address, mem |-> mem,
                    writes |-> Xxd(address, mem)]

Return ==
  /\ call # Idle
  /\ call.routine = "text" => call.stage \in {"done", "rejected"}
  /\ call' = Idle

RomNext ==
  \/ Copy \/ Fill \/ CountBits \/ Checksum \/ Dump \/ Return
  \/ Compress \/ CompressText \/ CheckText \/ ShowText

RomSpec == RomInit /\ [][RomNext]_call

-----------------------------------------------------------------------------
(* Every byte of the buffer is accessed once, and no other byte. *)
Covers(accesses, n) ==
  /\ \A k \in 0..(n - 1) :
       Cardinality({a \in accesses : a.at <= k /\ k < a.at + a.width}) = 1
  /\ \A a \in accesses : a.at + a.width <= n

(* The Cortex-M0 faults on an access that its width does not divide. *)
AlignedAt(accesses, address) == \A a \in accesses : (address + a.at) % a.width = 0

(* memcpy and memset touch each byte of the buffers once and none outside,
   with aligned accesses only, for every alignment and length; each byte
   memset stores is the lowest of its int. *)
MemoryRight ==
  /\ call.routine = "memcpy" =>
       /\ Covers(call.accesses, call.n)
       /\ AlignedAt(call.accesses, call.dst) /\ AlignedAt(call.accesses, call.src)
  /\ call.routine = "memset" =>
       LET accesses == DOMAIN call.stored
       IN  /\ Covers(accesses, call.n)
           /\ AlignedAt(accesses, call.dst)
           /\ \A a \in accesses, k \in 0..3 :
                k < a.width => ByteOf(call.stored[a], k) = Uxtb(call.c)

(* The register of a cyclic redundancy check, fed bit by bit. *)
Crc(bytes, seed) ==
  LET bit(i) == 7 - ((i - 1) % 8)          \* bit i (from 1) of a byte, MSB first
      crc[i \in 0..(8 * Len(bytes))] ==
        IF i = 0 THEN seed
        ELSE LET in == bit(i) \in bytes[(i + 7) \div 8]
                 r == crc[i - 1]
             IN  IF in # (31 \in r) THEN Eor(Lsl(r, 1), Polynomial) ELSE Lsl(r, 1)
  IN  crc[8 * Len(bytes)]

(* popcount32, reverse32, clz32 and ctz32 return what their names say, 32 for
   the zeroes of 0, which the tests leave out; and crc32_small divides by the
   same polynomial as the bitwise check does. *)
BitsRight ==
  /\ call.routine = "bits" =>
       /\ call.popcount = Cardinality(call.w)
       /\ call.reversed = {31 - b : b \in call.w}
       /\ IF call.w = {} THEN call.clz = 32 /\ call.ctz = 32
          ELSE /\ 31 - call.clz \in call.w /\ \A b \in call.w : b <= 31 - call.clz
               /\ call.ctz \in call.w /\ \A b \in call.w : b >= call.ctz
  /\ call.routine = "crc" => call.crc = Crc(call.bytes, call.seed)

(* Both decoders restore every text the generator compresses, overlapping
   matches and a match at its end included, and it gives up on none but one
   that fills its buffer or has a byte above 127.  The image's decoder, which
   is given neither a bound nor an end to stop at, reads no byte after the
   data and writes none after the text, nor at any time one that differs. *)
TextRoundTrip ==
  call.routine = "text" =>
    /\ call.read <= Len(call.data) /\ Len(call.data) <= Len(call.text)
    /\ Len(call.out) <= Len(call.text)
    /\ \A i \in 1..Len(call.out) : call.out[i] = call.text[i]
    /\ call.stage = "done" => call.out = call.text
    /\ call.stage = "rejected" =>
         Len(call.text) = BufSize \/ \E i \in DOMAIN call.text : call.text[i] >= 128

(* Each of the 512 characters of a sector of the dump is written, and with
   one value only; and the sector reads back as the memory it shows. *)
DumpReadsBack ==
  call.routine = "xxd" =>
    LET text == [p \in 0..511 |-> (CHOOSE w \in call.writes : w[1] = p)[2]]
    IN  /\ {w[1] : w \in call.writes} = 0..511
        /\ Cardinality(call.writes) = 512
        /\ \A l \in 0..7 : ReadAddress(text, l) = FiveHexits(call.address + 16 * l)
        /\ \A i \in 0..127 : ReadByte(text, i) = call.mem[i]
=============================================================================
