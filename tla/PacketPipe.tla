----------------------------- MODULE PacketPipe -----------------------------
(***************************************************************************)
(* What an endpoint promises its driver and the host: a bounded FIFO of    *)
(* packets.  Packets are numbered in the order they are sent.              *)
(***************************************************************************)
EXTENDS Naturals, Sequences

CONSTANTS
  Capacity,     \* the most buffers an endpoint has
  Modulus       \* packets are numbered modulo Modulus

VARIABLES
  queue,        \* packets sent and not yet received, oldest first
  next,         \* number of the next packet sent
  last          \* number of the last packet received

Init == queue = <<>> /\ next = 0 /\ last = 0

(* n packets are sent, numbered from next on. *)
Send(n) ==
  /\ n > 0
  /\ Len(queue) + n <= Capacity
  /\ queue' = queue \o [i \in 1..n |-> (next + i - 1) % Modulus]
  /\ next' = (next + n) % Modulus
  /\ UNCHANGED last

(* The oldest packet is received. *)
Receive ==
  /\ queue # <<>>
  /\ last' = Head(queue)
  /\ queue' = Tail(queue)
  /\ UNCHANGED next

(* A halt or a reset drops what was not received, and possibly packets it
   sent itself; it may send new ones at once. *)
Flush ==
  /\ \E lost, n \in 0..Capacity :
       /\ queue' = [i \in 1..n |-> (next + lost + i - 1) % Modulus]
       /\ next' = (next + lost + n) % Modulus
  /\ UNCHANGED last

(* What the pipe does while nobody halts or resets it. *)
Flow == Receive \/ \E n \in 1..Capacity : Send(n)

Next == Flow \/ Flush

Spec == Init /\ [][Next]_<<queue, next, last>>
=============================================================================
