--------------------------- MODULE UsbEndpointOps ---------------------------
(***************************************************************************)
(* The endpoint functions of usb_device_tiny/usb_device.c, as operators    *)
(* from an endpoint to the endpoint they leave behind.  An endpoint is one *)
(* record: the fields of struct usb_endpoint, those of its current         *)
(* transfer, and the buffer control registers the controller shares with   *)
(* the CPU.  The modules that compose endpoints apply these operators to   *)
(* variables of their own.                                                 *)
(*                                                                         *)
(* The operators without a comment before GiveBuffer, GiveAsMany, Ended,    *)
(* Deliver, HandleTransfer, Redeliver and ResetBuffers are faulty variants *)
(* of them, against which the properties are tested.                       *)
(*                                                                         *)
(* What a driver's callbacks do is the callers' choice:                    *)
(*   how    whether on_packet finishes the packet before it returns        *)
(*          ("done"), leaves a packet at the edge of a chunk outstanding   *)
(*          for a later usb_packet_done ("later"), or halts the endpoint   *)
(*          ("halt");                                                      *)
(*   next   the number of packets of the transfer that on_complete, or the *)
(*          chained transfer, starts on this endpoint (0 for none).        *)
(***************************************************************************)
EXTENDS Naturals, Sequences

CONSTANTS
  SeqMod,     \* packets are numbered modulo SeqMod
  Chunk       \* packets in a chunk of a stream transfer (4 or 8 in the drivers)

ASSUME SeqModAssumption == SeqMod \in Nat \ {0}
ASSUME ChunkAssumption == Chunk \in Nat \ {0, 1}

(* enum usb_halt_state *)
HS_NONE              == 0
HS_NON_HALT_STALL    == 1
HS_HALTED            == 2
HS_HALTED_ON_CONDITION == 3

Bit     == {0, 1}
NoView  == 2        \* current_hw_buffer.valid is false
Hows    == {"done", "later", "halt"}

Least(a, b) == IF a <= b THEN a ELSE b

Buffers(e) == IF e.dbl THEN 2 ELSE 1

(* Buffers the controller holds. *)
Held(e) == (IF 0 \in e.avail THEN 1 ELSE 0) + (IF 1 \in e.avail THEN 1 ELSE 0)

(***************************************************************************)
(* in, dbl            direction; double buffered                           *)
(* owned              owned_buffer_count                                   *)
(* give, take, fresh  current_give/take_buffer, first_buffer_after_reset   *)
(* pid, halt          next_pid, halt_state (the STALL bit is set iff       *)
(*                    halt # HS_NONE)                                      *)
(* view               buffer that current_hw_buffer points at, if valid    *)
(* cur                current_transfer is not NULL; and of that transfer   *)
(* submit, handle     remaining_packets_to_submit / _to_handle             *)
(* outstanding, queued  outstanding_packet, packet_queued                  *)
(* pos                stream offset: packets filled (IN) or read (OUT)     *)
(* avail, bpid        AVAIL and DATA0/1 bits of the two buffer controls    *)
(* sel                the buffer the controller uses next                  *)
(* done               completions not yet handled: buf_status holds the    *)
(*                    endpoint's bit while done is not empty, and          *)
(*                    buf_cpu_should_handle names Head(done)               *)
(* data, seq, last    packet number in each buffer, number of the next     *)
(*                    packet the sender makes, last one the receiver got   *)
(***************************************************************************)
Endpoint ==
  [in : BOOLEAN, dbl : BOOLEAN, owned : Nat, give : Bit, take : Bit,
   fresh : BOOLEAN, pid : Bit, halt : 0..3, view : 0..2, cur : BOOLEAN,
   submit : Nat, handle : Nat, outstanding : BOOLEAN, queued : BOOLEAN, pos : Nat,
   avail : SUBSET Bit, bpid : [Bit -> Bit], sel : Bit, done : Seq(Bit),
   data : [Bit -> 0..(SeqMod - 1)], seq : 0..(SeqMod - 1), last : 0..(SeqMod - 1)]

(* _usb_endpoint_init_internal, then the reset every endpoint gets before  *)
(* the controller is enabled.                                              *)
InitEndpoint(in, dbl) ==
  [in |-> in, dbl |-> dbl, owned |-> IF dbl THEN 2 ELSE 1, give |-> 0, take |-> 0,
   fresh |-> TRUE, pid |-> 0, halt |-> HS_NONE, view |-> NoView, cur |-> FALSE,
   submit |-> 0, handle |-> 0, outstanding |-> FALSE, queued |-> FALSE, pos |-> 0,
   avail |-> {}, bpid |-> [b \in Bit |-> 0], sel |-> 0, done |-> <<>>,
   data |-> [b \in Bit |-> 0], seq |-> 0, last |-> 0]

-----------------------------------------------------------------------------
(* usb_current_packet_buffer: the buffer a driver fills (IN) or reads (OUT);
   a view that is still valid is returned as it is. *)
CurrentBuffer(e) ==
  IF e.view # NoView THEN e.view ELSE IF e.in THEN e.give ELSE e.take

(* What _usb_give_buffer writes for the give buffer and counts. *)
HandOver(e) ==
  [e EXCEPT !.halt   = HS_NONE,
            !.avail  = @ \cup {e.give},
            !.bpid   = [@ EXCEPT ![e.give] = e.pid],
            !.pid    = 1 - @,
            !.view   = NoView,
            !.owned  = @ - 1,
            !.submit = @ - 1,
            !.pos    = IF e.in THEN @ + 1 ELSE @,
            !.data   = IF e.in THEN [@ EXCEPT ![CurrentBuffer(e)] = e.seq] ELSE @,
            !.seq    = IF e.in THEN (@ + 1) % SeqMod ELSE @]

GiveBufferNoSwap(e) ==
  [HandOver(e) EXCEPT !.fresh = FALSE, !.sel = IF e.fresh THEN 0 ELSE @]

(* _usb_give_buffer: hand the give buffer to the controller, and select the
   other one for the next time; the first one after a reset also selects
   the buffer the controller uses. *)
GiveBuffer(e) ==
  [HandOver(e) EXCEPT !.fresh = FALSE,
                      !.sel   = IF e.fresh THEN 0 ELSE @,
                      !.give  = IF e.dbl THEN 1 - @ ELSE @]

(* An endpoint has at most two buffers to give. *)
GiveBuffers(e, n) ==
  IF n = 0 THEN e ELSE IF n = 1 THEN GiveBuffer(e) ELSE GiveBuffer(GiveBuffer(e))

(* IN packets that can be filled before on_packet needs the next chunk. *)
LeftInChunk(e) == (Chunk - (e.pos % Chunk)) % Chunk

(* An OUT packet that ends a chunk, or the transfer. *)
EndsChunk(e) == (e.pos + 1) % Chunk = 0 \/ e.handle = 1

(***************************************************************************)
(* _usb_give_as_many_buffers_as_possible.  For IN each round calls         *)
(* on_packet, which fills the packet and calls usb_packet_done (which      *)
(* gives the buffer and comes back here), or leaves it outstanding because *)
(* the next chunk is not there yet, which ends the loop.                   *)
(***************************************************************************)
GiveAsMany(e, how) ==
  LET n == IF e.cur /\ e.halt = HS_NONE THEN Least(e.owned, e.submit) ELSE 0
  IN  IF e.in /\ how = "later" /\ LeftInChunk(e) < n
      THEN [GiveBuffers(e, LeftInChunk(e)) EXCEPT !.outstanding = TRUE]
      ELSE GiveBuffers(e, n)

(* usb_reset_transfer, usb_grow_transfer and usb_start_transfer *)
StartTransfer(e, n, how) ==
  GiveAsMany([e EXCEPT !.cur = TRUE, !.submit = n, !.handle = n, !.pos = 0,
                       !.outstanding = FALSE, !.queued = FALSE], how)

(* _usb_stall_endpoint *)
Stall(e, hs) ==
  [e EXCEPT !.halt = IF e.halt = HS_NONE \/ hs > e.halt THEN hs ELSE @]

(* current_transfer becomes NULL; a halt also zeroes what remained of it. *)
Ended(e) == e.halt # HS_NONE \/ (e.handle = 0 /\ ~e.outstanding)

(* _usb_check_for_transfer_completion *)
CheckCompletion(e, how, next) ==
  IF ~Ended(e) THEN e
  ELSE IF e.halt # HS_NONE
       THEN [e EXCEPT !.cur = FALSE, !.submit = 0, !.handle = 0]
       ELSE IF next = 0 THEN [e EXCEPT !.cur = FALSE]
                        ELSE StartTransfer([e EXCEPT !.cur = FALSE], next, how)

(***************************************************************************)
(* The part of _usb_handle_transfer that calls on_packet for the buffer    *)
(* `which'.  An OUT callback reads the current buffer; if it finishes the  *)
(* packet at once, usb_packet_done gives back what it can, and if it       *)
(* halted the endpoint, usb_packet_done ends the transfer.                 *)
(***************************************************************************)
OnPacketOut(e, how) ==
  LET b    == CurrentBuffer(e)
      seen == [e EXCEPT !.view = b, !.last = e.data[b], !.pos = @ + 1]
  IN  IF how = "halt" THEN CheckCompletion(Stall(seen, HS_HALTED), how, 0)
      ELSE IF how = "later" /\ EndsChunk(e) THEN [seen EXCEPT !.outstanding = TRUE]
      ELSE GiveAsMany([seen EXCEPT !.view = NoView], how)

(* on_packet is called for a completed OUT packet, and for a completed IN
   packet if there is another one to fill. *)
Called(e, how) ==
  IF ~e.in THEN OnPacketOut(e, how)
  ELSE IF e.submit > 0 THEN GiveAsMany(e, how) ELSE e

(* The packet is counted as handled, unless on_packet ended the transfer. *)
Handled(e, how, next) ==
  IF e.cur THEN CheckCompletion([e EXCEPT !.handle = @ - 1], how, next) ELSE e

DeliverKeepsTake(e, which, how, next) == Handled(Called(e, how), how, next)

Deliver(e, which, how, next) ==
  Handled(Called([e EXCEPT !.take = which], how), how, next)

HandleTransferDropsDeferred(e, how, next) ==
  LET got == [e EXCEPT !.done = Tail(@), !.owned = @ + 1]
  IN  IF ~e.cur THEN Stall(got, HS_HALTED)
      ELSE IF e.outstanding THEN got
      ELSE Deliver(got, Head(e.done), how, next)

(* _usb_handle_buffer takes the endpoint's first completion and calls
   _usb_handle_transfer. *)
HandleTransfer(e, how, next) ==
  LET got == [e EXCEPT !.done = Tail(@), !.owned = @ + 1]
  IN  IF ~e.cur THEN Stall(got, HS_HALTED)
      ELSE IF e.outstanding THEN [got EXCEPT !.queued = TRUE]
      ELSE Deliver(got, Head(e.done), how, next)

RedeliverCountedTwice(e, how, next) ==
  Deliver([e EXCEPT !.queued = FALSE, !.owned = @ + 1], 1 - e.take, how, next)

RedeliverStillQueued(e, how, next) == Deliver(e, 1 - e.take, how, next)

(* The deferred packet is handled now; its buffer was counted when it came. *)
Redeliver(e, how, next) ==
  Deliver([e EXCEPT !.queued = FALSE], 1 - e.take, how, next)

(* usb_packet_done for a packet that was left outstanding; `halting' when
   the driver halts the endpoint first, in the same call. *)
PacketDone(e, halting, how, next) ==
  LET now  == IF halting THEN Stall(e, HS_HALTED) ELSE e
      back == [now EXCEPT !.outstanding = FALSE]
      sent == IF e.in THEN GiveBuffer(back) ELSE [back EXCEPT !.view = NoView]
  IN  IF Ended(back) THEN CheckCompletion(back, how, next)
      ELSE IF sent.queued THEN Redeliver(sent, how, next)
      ELSE GiveAsMany(sent, how)

-----------------------------------------------------------------------------
(* The buffers and selectors after a reset: all with the CPU. *)
Recovered(e) ==
  [e EXCEPT !.avail = {},
            !.owned = Buffers(e),
            !.give  = 0,
            !.take  = 0,
            !.fresh = TRUE]

ResetBuffersKeepsPid(e) == Recovered(e)

ResetBuffersFlipsPid(e) ==
  [Recovered(e) EXCEPT !.pid = IF e.avail # {} THEN 1 - @ ELSE @]

(* _usb_reset_buffers: abort what the controller holds, and take the toggle
   of an aborted packet back.  buf_status is not cleared: completions it had
   already signalled stay in done. *)
ResetBuffers(e) ==
  [Recovered(e) EXCEPT
     !.pid = IF e.avail # {} /\ (~e.dbl \/ e.owned = 1) THEN 1 - @ ELSE @]

(***************************************************************************)
(* _usb_reset_endpoint.  onUnstall is the number of packets of a transfer  *)
(* that the driver's on_stall_change starts when the reset ends a stall;   *)
(* withDefault holds when the device is configured and the endpoint has a  *)
(* default transfer.                                                       *)
(***************************************************************************)
ResetEndpoint(e, hard, onUnstall, withDefault) ==
  LET bufs  == ResetBuffers([e EXCEPT !.cur = FALSE, !.submit = 0, !.handle = 0,
                                      !.outstanding = FALSE, !.queued = FALSE])
      reset == [bufs EXCEPT !.pid  = IF hard THEN 0 ELSE @,
                            !.view = NoView,
                            !.halt = HS_NONE]
  IN  IF e.halt # HS_NONE /\ onUnstall > 0 THEN StartTransfer(reset, onUnstall, "done")
      ELSE IF withDefault THEN StartTransfer(reset, 1, "done")
      ELSE reset

-----------------------------------------------------------------------------
(* The controller completes a packet on buffer sel with a host whose data
   toggle is `toggle'. *)
CanComplete(e, toggle) ==
  e.sel \in e.avail /\ e.halt = HS_NONE /\ e.bpid[e.sel] = toggle

Complete(e) ==
  [e EXCEPT !.avail = @ \ {e.sel},
            !.done  = Append(@, e.sel),
            !.sel   = IF e.dbl THEN 1 - @ ELSE @,
            !.data  = IF e.in THEN @ ELSE [@ EXCEPT ![e.sel] = e.seq],
            !.seq   = IF e.in THEN @ ELSE (@ + 1) % SeqMod,
            !.last  = IF e.in THEN e.data[e.sel] ELSE @]
=============================================================================
