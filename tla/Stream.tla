------------------------------- MODULE Stream -------------------------------
(***************************************************************************)
(* Stream transfers: usb_device_tiny/usb_stream_helper.c.  The driver of a *)
(* transfer deals in chunks (a sector, a flash page), the endpoint in      *)
(* packets; the helper keeps one chunk in a buffer, and an offset.  The    *)
(* endpoint hands it one packet at a time and in order (UsbEndpoint shows  *)
(* that it does); the driver may answer a chunk at once or later.          *)
(*                                                                         *)
(* A byte is its position in the transfer.  What the buffer holds before a *)
(* transfer is Stale.  chunk_size is a power of two wherever a transfer is *)
(* set up, so that masking with chunk_size - 1 is a remainder.             *)
(*                                                                         *)
(* Operators named Faulty... are variants with a plausible fault, against  *)
(* which the properties are tested.                                        *)
(***************************************************************************)
EXTENDS Integers

CONSTANTS
  PACKET,       \* bytes in a full packet (64)
  ChunkSizes,   \* bytes in a chunk: 512 (a sector), 256 (a flash page)
  Lengths       \* bytes in a transfer (a bound); callers start no empty one

ASSUME PacketAssumption == PACKET \in Nat \ {0}
ASSUME ChunkSizesAssumption ==
  ChunkSizes \subseteq Nat \ {0} /\ \A s \in ChunkSizes : s % PACKET = 0
ASSUME LengthsAssumption == Lengths \subseteq Nat \ {0}

VARIABLES
  in,               \* ep->in
  chunk_size, transfer_length, offset,
  chunk_buffer,
  left,             \* packets the endpoint has still to handle
  pending,          \* chunk_len of a chunk its driver has not answered, or 0
  data_len,         \* of the current packet buffer
  driver, host,     \* bytes the driver has dealt with; the host sent or got
  chunk, packet     \* the last chunk the driver dealt with; the last packet

transfer == <<in, chunk_size, transfer_length>>
vars == <<in, chunk_size, transfer_length, offset, chunk_buffer, left, pending, data_len,
          driver, host, chunk, packet>>

Stale == -2
Zero == -1

Bytes(first, n) == [i \in 0..(n - 1) |-> first + i]

Init ==
  /\ in = FALSE /\ chunk_size = 0 /\ transfer_length = 0 /\ offset = 0
  /\ chunk_buffer = <<>> /\ left = 0 /\ pending = 0 /\ data_len = 0
  /\ driver = 0 /\ host = 0 /\ chunk = <<>> /\ packet = <<>>

-----------------------------------------------------------------------------
FaultyPacketCount(n) == n \div PACKET

PacketCount(n) == (n + PACKET - 1) \div PACKET

(* usb_stream_setup_transfer, once the last transfer has ended *)
Setup(toHost, size, n) ==
  /\ left = 0
  /\ in' = toHost /\ chunk_size' = size /\ transfer_length' = n
  /\ offset' = 0 /\ left' = PacketCount(n)
  /\ chunk_buffer' = [i \in 0..(size - 1) |-> Stale]
  /\ pending' = 0 /\ data_len' = 0
  /\ driver' = 0 /\ host' = 0 /\ chunk' = <<>> /\ packet' = <<>>

(* _usb_stream_chunk_offset *)
ChunkOffset == offset % chunk_size

(* chunk_len for a packet to send: a chunk is asked for at its start. *)
InChunkLen ==
  IF ChunkOffset # 0 THEN 0
  ELSE IF offset + chunk_size > transfer_length THEN transfer_length - offset
  ELSE chunk_size

FaultyOutChunkLen ==
  IF offset + 2 * PACKET >= transfer_length THEN transfer_length % chunk_size
  ELSE IF ChunkOffset + PACKET >= chunk_size THEN chunk_size ELSE 0

(* chunk_len for a packet received: a chunk is handed on at its end, or at
   that of the transfer. *)
OutChunkLen ==
  IF offset + PACKET >= transfer_length
  THEN IF transfer_length % chunk_size # 0 THEN transfer_length % chunk_size ELSE chunk_size
  ELSE IF ChunkOffset + PACKET >= chunk_size THEN chunk_size ELSE 0

FaultyReceivedInto(buffer, n) ==
  [i \in DOMAIN buffer \cup ChunkOffset..(ChunkOffset + n - 1) |->
     IF i \in ChunkOffset..(ChunkOffset + n - 1) THEN host + (i - ChunkOffset) ELSE buffer[i]]

(* The packet received, copied behind the others of its chunk; the first one
   finds the buffer zeroed. *)
ReceivedInto(buffer, n) ==
  [i \in DOMAIN buffer \cup ChunkOffset..(ChunkOffset + n - 1) |->
     IF i \in ChunkOffset..(ChunkOffset + n - 1) THEN host + (i - ChunkOffset)
     ELSE IF ChunkOffset = 0 THEN Zero ELSE buffer[i]]

(* The driver's part, on_chunk or the task it queues: to fill n bytes of the
   buffer, or to take the buffer, of which n bytes count. *)
FilledBy(buffer, n) ==
  [i \in DOMAIN buffer \cup 0..(n - 1) |-> IF i < n THEN driver + i ELSE buffer[i]]

(* usb_stream_packet_handler_complete, and usb_packet_done, by which the
   endpoint counts the packet. *)
HandlerComplete(n) ==
  /\ offset' = offset + n
  /\ left' = left - 1
  /\ pending' = 0
  /\ data_len' = n

(* data_len of a packet to send *)
SendLen ==
  IF offset + PACKET > transfer_length THEN transfer_length - offset ELSE PACKET

(* A packet is filled from the buffer, and is the host's. *)
Send(buffer) ==
  /\ chunk_buffer' = buffer
  /\ packet' = [i \in 0..(SendLen - 1) |-> buffer[ChunkOffset + i]]
  /\ host' = host + SendLen
  /\ HandlerComplete(SendLen)

(* The driver has filled a chunk of n bytes (none: the buffer has more), and
   the first packet of it is sent. *)
FillAndSend(n) ==
  /\ driver' = driver + n
  /\ chunk' = IF n = 0 THEN chunk ELSE Bytes(driver, n)
  /\ Send(FilledBy(chunk_buffer, n))

(* The driver has taken a chunk of which n bytes count, or there is none. *)
TakeChunk(buffer, n) ==
  /\ driver' = driver + n
  /\ chunk' = IF n = 0 THEN chunk ELSE buffer

-----------------------------------------------------------------------------
(* _usb_stream_packet_packet_handler with a packet to send; `later' if the
   driver wants to answer the chunk later. *)
OnPacketIn(later) ==
  /\ left # 0 /\ in /\ pending = 0
  /\ IF InChunkLen # 0 /\ later
     THEN /\ pending' = InChunkLen
          /\ UNCHANGED <<offset, chunk_buffer, left, data_len, driver, host, chunk, packet>>
     ELSE FillAndSend(InChunkLen)
  /\ UNCHANGED transfer

(* The same with a packet received: the host sends full ones, up to the end
   of the transfer. *)
OnPacketOut(later) ==
  LET n      == IF host + PACKET < transfer_length THEN PACKET ELSE transfer_length - host
      buffer == ReceivedInto(chunk_buffer, n)
  IN  /\ left # 0 /\ ~in /\ pending = 0
      /\ host' = host + n /\ packet' = Bytes(host, n)
      /\ chunk_buffer' = buffer
      /\ IF OutChunkLen # 0 /\ later
         THEN /\ pending' = OutChunkLen /\ data_len' = n
              /\ UNCHANGED <<offset, left, driver, chunk>>
         ELSE /\ TakeChunk(buffer, OutChunkLen)
              /\ HandlerComplete(n)
      /\ UNCHANGED transfer

(* The driver has dealt with the chunk: usb_stream_chunk_done. *)
ChunkDone ==
  /\ left # 0 /\ pending # 0
  /\ IF in THEN FillAndSend(pending)
     ELSE /\ TakeChunk(chunk_buffer, pending)
          /\ HandlerComplete(data_len)
          /\ UNCHANGED <<chunk_buffer, host, packet>>
  /\ UNCHANGED transfer

(* The endpoint is halted or reset, by the host or because the chunk failed,
   and the transfer is over.  (A chunk that is answered after that is what
   Picoboot is about.) *)
Abort ==
  /\ left # 0
  /\ left' = 0 /\ pending' = 0
  /\ UNCHANGED <<transfer, offset, chunk_buffer, data_len, driver, host, chunk, packet>>

OnPacket == \E later \in BOOLEAN : OnPacketIn(later) \/ OnPacketOut(later)

Next ==
  \/ \E toHost \in BOOLEAN, s \in ChunkSizes, n \in Lengths : Setup(toHost, s, n)
  \/ OnPacket
  \/ ChunkDone
  \/ Abort

Spec == Init /\ [][Next]_vars

-----------------------------------------------------------------------------
(* Every variable has its type; the buffer is no larger than a chunk. *)
TypeOK ==
  /\ in \in BOOLEAN
  /\ {chunk_size, transfer_length, offset, left, pending, data_len, driver, host} \subseteq Nat
  /\ left # 0 =>
       /\ chunk_size \in Nat \ {0} /\ chunk_size % PACKET = 0
       /\ transfer_length \in Nat \ {0}
       /\ chunk_buffer \in [0..(chunk_size - 1) -> Int]

(* The endpoint's count of packets and the helper's offset, which advances by
   the bytes of each packet, agree on what is left. *)
Remaining ==
  /\ offset % PACKET = 0
  /\ (left - 1) * PACKET < transfer_length - offset
  /\ transfer_length - offset <= left * PACKET

Start == offset - ChunkOffset

(* Where the three counts of bytes stand while a packet or a chunk goes
   towards the host, and what the buffer holds. *)
Sending ==
  /\ host = offset
  /\ driver = IF ChunkOffset = 0 THEN Start
              ELSE IF Start + chunk_size > transfer_length THEN transfer_length
              ELSE Start + chunk_size
  /\ \A i \in 0..(driver - Start - 1) : chunk_buffer[i] = Start + i
  /\ pending # 0 => pending = InChunkLen

(* The same with a packet or a chunk from the host. *)
Receiving ==
  /\ driver = Start
  /\ pending = 0 => host = offset
  /\ pending # 0 =>
       /\ data_len = (IF offset + PACKET < transfer_length THEN PACKET
                      ELSE transfer_length - offset)
       /\ host = offset + data_len
       /\ pending = OutChunkLen /\ driver + pending = host
  /\ host # driver =>
       \A i \in 0..(chunk_size - 1) :
         chunk_buffer[i] = IF i < host - driver THEN driver + i ELSE Zero

(* The offset, the endpoint's count of packets, what the driver and the host
   have dealt with and what the buffer holds go together: no byte of the
   buffer is used that is not of this chunk, and no packet leaves it. *)
StreamInv ==
  TypeOK /\ (left # 0 => Remaining /\ IF in THEN Sending ELSE Receiving)

(* The assertions of the packet handler, for a packet it is about to take:
   only the last packet of the transfer is short, and it ends a chunk. *)
PacketFits ==
  left # 0 /\ ~in /\ pending = 0 =>
    LET n == IF host + PACKET < transfer_length THEN PACKET ELSE transfer_length - host
    IN  /\ n > 0
        /\ IF OutChunkLen = 0 THEN n = PACKET
           ELSE n = IF OutChunkLen % PACKET # 0 THEN OutChunkLen % PACKET ELSE PACKET

Promise == INSTANCE ByteStream WITH
  Packet <- PACKET, size <- chunk_size, length <- transfer_length, running <- left # 0

(* The driver and the host see the same bytes, each once and in order; a
   chunk received is handed on once it is complete, with nothing in it of
   another chunk or transfer; and a transfer ends when all of it has passed
   both, or is aborted. *)
ImplementsByteStream == Promise!Spec
=============================================================================
