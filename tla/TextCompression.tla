---------------------------- MODULE TextCompression ----------------------------
(***************************************************************************)
(* The text compression of generator/main.c, which packs welcome.html and  *)
(* the SCSI inquiry response into the image, and the two programs that     *)
(* undo it: decompress of the generator, which it runs to check itself,    *)
(* and poor_mans_text_decompress of bootrom_misc.S, which the virtual disk *)
(* and the mass storage interface call with no bound on what it writes.    *)
(*                                                                         *)
(* A byte below 128 stands for itself; 256 - n and a distance d stand for  *)
(* n bytes copied from d bytes back.                                       *)
(*                                                                         *)
(* The way of a text is a record c, and a step a function on it: the       *)
(* compressor is at position c.to of c.text, a decoder has read c.read     *)
(* bytes of c.data and written c.out, and has c.left bytes of a match to   *)
(* copy from c.back bytes back.                                            *)
(***************************************************************************)
EXTENDS Naturals, Sequences

CONSTANTS
  MaxMatch,     \* the longest match (127)
  MaxBack,      \* the greatest distance (255)
  BufSize       \* of the generator's buffers (4096)

ASSUME MaxMatchAssumption == MaxMatch \in 3..128
ASSUME MaxBackAssumption == MaxBack \in 1..255
ASSUME BufSizeAssumption == BufSize \in Nat

(* Only letters below 0x80 can be compressed. *)
Begun(text) ==
  [routine |-> "text", text |-> text, data |-> <<>>, to |-> 0,
   stage |-> IF \A i \in DOMAIN text : text[i] < 128 THEN "compress" ELSE "rejected",
   read |-> 0, out |-> <<>>, left |-> 0, back |-> 0]

(* The n bytes at position `to' (from 0) are the ones `back' before: the match
   may run into itself. *)
Matches(text, to, back, n) ==
  \A i \in 1..n : text[to + i] = text[to - back + i]

Found(text, to) ==
  {m \in [length : 3..MaxMatch, back : 1..MaxBack] :
     m.length <= Len(text) - to /\ m.back <= to /\ Matches(text, to, m.back, m.length)}

(* The longest match, and of these the one that is farthest back. *)
Longest(text, to) ==
  {m \in Found(text, to) : \A o \in Found(text, to) :
     o.length < m.length \/ (o.length = m.length /\ o.back <= m.back)}

(* An iteration of compress looks for a match... *)
Searched(c) ==
  IF c.to >= Len(c.text) THEN {[c EXCEPT !.stage = "check"]}
  ELSE IF Found(c.text, c.to) = {} THEN {[c EXCEPT !.stage = "letter"]}
  ELSE {[c EXCEPT !.stage = "letter", !.to = @ + m.length,
                  !.data = Append(Append(@, 256 - m.length), m.back)]
          : m \in Longest(c.text, c.to)}

(* ...and appends the byte after it, if there is one. *)
Lettered(c) ==
  [c EXCEPT !.stage = "compress", !.to = @ + 1,
            !.data = IF c.to # Len(c.text) THEN Append(@, c.text[c.to + 1]) ELSE @]

FaultyItem(c) ==
  LET b == c.data[c.read + 1]
  IN  IF b < 128 THEN [c EXCEPT !.out = Append(@, b), !.read = @ + 1]
      ELSE [c EXCEPT !.left = 256 - b, !.back = c.data[c.read + 2], !.read = @ + 1]

(* Either decoder reads a byte that stands for itself, or a match... *)
Item(c) ==
  LET b == c.data[c.read + 1]
  IN  IF b < 128 THEN [c EXCEPT !.out = Append(@, b), !.read = @ + 1]
      ELSE [c EXCEPT !.left = 256 - b, !.back = c.data[c.read + 2], !.read = @ + 2]

(* ...and copies that byte by byte. *)
Copied(c) ==
  [c EXCEPT !.out = Append(@, @[Len(@) + 1 - c.back]), !.left = @ - 1]

(* decompress, and what compress does with the result.  A buffer that is full
   counts as 0 bytes. *)
Decompressed(c) ==
  IF c.left > 0 THEN Copied(c)
  ELSE IF c.read < Len(c.data) /\ Len(c.out) < BufSize THEN Item(c)
  ELSE IF Len(c.out) < BufSize /\ c.out = c.text
       THEN [c EXCEPT !.stage = "image", !.read = 0, !.out = <<>>]
  ELSE [c EXCEPT !.stage = "rejected"]

(* poor_mans_text_decompress counts from minus the size of the data up, and
   ends when that is zero after an item, not beyond. *)
PoorMansDecompressed(c) ==
  IF c.left > 0 THEN Copied(c)
  ELSE IF c.out # <<>> /\ c.read = Len(c.data) THEN [c EXCEPT !.stage = "done"]
  ELSE Item(c)
=============================================================================
