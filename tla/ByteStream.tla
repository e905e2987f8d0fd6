----------------------------- MODULE ByteStream -----------------------------
(***************************************************************************)
(* What a stream transfer promises: its driver sees the bytes in chunks,   *)
(* the host sees them in packets, and both see the same bytes in the same  *)
(* order, each once.  A byte is its position in the transfer.              *)
(***************************************************************************)
EXTENDS Integers

CONSTANTS
  Packet,       \* bytes in a full packet
  Zero          \* the byte a short chunk is padded with

VARIABLES
  in,           \* towards the host
  size,         \* bytes in a full chunk
  length,       \* bytes in the transfer
  driver, host, \* bytes that have passed on either side
  running,      \* the transfer goes on
  chunk,        \* the bytes of the last chunk,
  packet        \* and of the last packet

vars == <<in, size, length, driver, host, running, chunk, packet>>

Init ==
  /\ in = FALSE /\ size = 0 /\ length = 0 /\ driver = 0 /\ host = 0
  /\ running = FALSE /\ chunk = <<>> /\ packet = <<>>

Begin ==
  /\ ~running
  /\ in' \in BOOLEAN /\ size' \in Nat \ {0} /\ length' \in Nat \ {0}
  /\ driver' = 0 /\ host' = 0 /\ running' = TRUE
  /\ chunk' = <<>> /\ packet' = <<>>

(* The end of the chunk or packet that starts at pos. *)
EndOf(pos, unit) == IF pos + unit < length THEN pos + unit ELSE length

(* A chunk, a packet, or one with the other.  There is room for one chunk,
   and a chunk received is complete; one that is short ends in zeroes. *)
Advance ==
  /\ running
  /\ driver' \in {driver, EndOf(driver, size)}
  /\ host' \in {host, EndOf(host, Packet)}
  /\ IF in
     THEN host' <= driver' /\ (driver' # driver => host = driver)
     ELSE driver' <= host' /\ host' <= driver + size
  /\ chunk' = IF driver' = driver THEN chunk
              ELSE [i \in 0..((IF in THEN driver' - driver ELSE size) - 1) |->
                      IF driver + i < driver' THEN driver + i ELSE Zero]
  /\ packet' = IF host' = host THEN packet
               ELSE [i \in 0..(host' - host - 1) |-> host + i]
  /\ running' = (driver' < length \/ host' < length)
  /\ UNCHANGED <<in, size, length>>

(* The transfer ends early. *)
Drop ==
  /\ running
  /\ running' = FALSE
  /\ UNCHANGED <<in, size, length, driver, host, chunk, packet>>

Next == Begin \/ Advance \/ Drop

Spec == Init /\ [][Next]_vars
=============================================================================
