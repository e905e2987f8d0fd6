------------------------------- MODULE DumpText -------------------------------
(***************************************************************************)
(* The text of CRASHDMP.XXD: hex and xxd of bootrom/virtual_disk.c, which  *)
(* print 128 bytes of memory as eight lines of 64 characters, one sector   *)
(* of the file.  What they do is the set of their writes <<where, what>>   *)
(* to the sector; characters are their ASCII codes, memory a function from *)
(* 0..127 to bytes.                                                        *)
(***************************************************************************)
EXTENDS Naturals, Sequences

Space   == 32
Tilde   == 126
Dot     == 46
Newline == 10

Digit(nibble) == IF nibble < 10 THEN 48 + nibble ELSE 97 + nibble - 10

(* Nibble k of a word, 0 the lowest; five of them are all that is printed. *)
Nibble(word, k) == (word \div <<1, 16, 256, 4096, 65536>>[k + 1]) % 16

(* hex: the lowest `nibbles' hexits of a word, the highest of them first *)
Hex(at, word, nibbles) ==
  {<<at + i, Digit(Nibble(word, nibbles - 1 - i))>> : i \in 0..(nibbles - 1)}

FaultyBytes(at, mem, from) ==
  UNION {Hex(at + 5 * h + 6, mem[from + 2 * h], 2)
           \cup Hex(at + 5 * h + 8, mem[from + 2 * h], 2)
           \cup {<<at + 5 * h + 10, Space>>} : h \in 0..7}

(* Eight halfwords, two bytes and a space each *)
Bytes(at, mem, from) ==
  UNION {Hex(at + 5 * h + 6, mem[from + 2 * h], 2)
           \cup Hex(at + 5 * h + 8, mem[from + 2 * h + 1], 2)
           \cup {<<at + 5 * h + 10, Space>>} : h \in 0..7}

Ascii(at, mem, from) ==
  {<<at + 47 + b, LET c == mem[from + b]
                  IN  IF Space <= c /\ c <= Tilde THEN c ELSE Dot>> : b \in 0..15}

XxdLine(line, address, mem) ==
  LET at == 64 * line
      from == 16 * line
  IN  Hex(at, address + from, 5) \cup {<<at + 5, Space>>}
        \cup Bytes(at, mem, from) \cup {<<at + 46, Space>>}
        \cup Ascii(at, mem, from) \cup {<<at + 63, Newline>>}

Xxd(address, mem) == UNION {XxdLine(l, address, mem) : l \in 0..7}

-----------------------------------------------------------------------------
(* What a reader makes of a sector: `xxd -r' takes the hexits of the address
   and those of the bytes, and nothing else. *)
Hexit(c) == IF c < 58 THEN c - 48 ELSE c - 97 + 10

(* An address as far as five hexits show it *)
FiveHexits(address) == address % 1048576

ReadAddress(text, line) ==
  LET hexit(i) == Hexit(text[64 * line + i])
  IN  65536 * hexit(0) + 4096 * hexit(1) + 256 * hexit(2) + 16 * hexit(3) + hexit(4)

ReadByte(text, i) ==
  LET at == 64 * (i \div 16) + 6 + 2 * (i % 16) + ((i % 16) \div 2)
  IN  16 * Hexit(text[at]) + Hexit(text[at + 1])
=============================================================================
