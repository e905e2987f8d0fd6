--------------------------- MODULE UsbEndpointProps ---------------------------
(***************************************************************************)
(* What the endpoint engine of usb_device.c has to guarantee.              *)
(***************************************************************************)
EXTENDS UsbEndpoint

(* Every variable has its type. *)
TypeOK ==
  /\ ep \in Endpoint
  /\ toggle \in Bit
  /\ configured \in BOOLEAN

(* Every buffer of the endpoint is in exactly one place: with the CPU
   (owned_buffer_count), with the controller, or completed and not yet
   handled.  Counting one twice hands the controller a buffer it is using;
   losing one leaves the endpoint NAKing for ever (_usb_give_buffer,
   _usb_handle_transfer, the owned_buffer_count-- of usb_packet_done, and
   _usb_reset_buffers must agree). *)
BufferConservation ==
  /\ ep.owned + Held(ep) + Len(ep.done) = Buffers(ep)
  /\ \A i \in DOMAIN ep.done : ep.done[i] \notin ep.avail

(* The two packet counters of a transfer agree with where its packets are:
   a packet submitted and not handled is in the controller, completed, or
   deferred behind an outstanding one.  An OUT packet is counted as handled
   when on_packet returns, an IN packet when its completion is. *)
PacketAccounting ==
  ep.cur /\ ep.halt = HS_NONE =>
    ep.handle = ep.submit + Held(ep) + Len(ep.done) + (IF ep.queued THEN 1 ELSE 0)

(* No packet is left in the controller, and no completion is pending, when a
   running endpoint has no transfer: _usb_handle_transfer would halt the
   endpoint for a packet the driver asked for. *)
NoOrphanPacket ==
  ~ep.cur /\ ep.halt = HS_NONE => ep.avail = {} /\ ep.done = <<>>

(* The endpoint and the host agree on the data toggle: the packet the
   controller is about to move carries the host's toggle, and the one after
   it the other, through every halt and reset.  Otherwise one side drops
   the packet as a retransmission. *)
ToggleAgreement ==
  ep.halt = HS_NONE =>
    /\ ep.sel \in ep.avail => ep.bpid[ep.sel] = toggle
    /\ Held(ep) = 2 => ep.bpid[1 - ep.sel] = 1 - toggle
    /\ Held(ep) \in {0, 2} <=> ep.pid = toggle

(* The buffer the controller uses next is always the next one to complete:
   give and sel never drift apart, so a packet given is never stuck behind
   a buffer nobody will give. *)
NoStuckBuffer ==
  ep.avail # {} => ep.sel \in ep.avail

(* One boolean is enough to remember deferred packets: none arrives while
   one is already waiting behind an outstanding packet, and a deferred OUT
   packet is in the other buffer, the one usb_packet_done delivers. *)
DeferralFits ==
  ep.cur /\ ep.queued =>
    /\ ep.outstanding
    /\ ep.done = <<>>
    /\ ep.dbl

-----------------------------------------------------------------------------
(* The inductive invariant behind the properties above, part by part. *)

(* Each buffer is used in turn: the completed ones, then the controller's,
   then the CPU's, from which the next one given is taken. *)
Ring(e) ==
  /\ e.fresh => e.avail = {} /\ e.done = <<>> /\ e.give = 0
  /\ e.avail # {} => e.sel \in e.avail
  /\ IF e.dbl
     THEN /\ e.done \in {<<>>, <<1 - e.sel>>, <<e.sel, 1 - e.sel>>}
          /\ ~e.fresh => e.give = IF Held(e) = 1 THEN 1 - e.sel ELSE e.sel
     ELSE /\ e.done \in {<<>>, <<0>>}
          /\ e.give = 0 /\ e.sel = 0

Count(e) == e.owned + Held(e) + Len(e.done) = Buffers(e)

(* The counters of the current transfer, and what an outstanding and a
   deferred packet need to be finished. *)
Packets(e) ==
  /\ e.cur /\ e.halt = HS_NONE =>
       e.handle = e.submit + Held(e) + Len(e.done) + (IF e.queued THEN 1 ELSE 0)
  /\ ~e.cur /\ e.halt = HS_NONE => e.avail = {} /\ e.done = <<>>
  /\ e.cur /\ e.halt # HS_NONE => e.done = <<>>
  /\ e.cur /\ e.outstanding => e.owned >= 1 /\ (e.in => e.submit >= 1)
  /\ e.cur /\ e.queued => e.outstanding /\ e.owned >= 2

(* The data toggles, also while halted: a class reset relies on them. *)
Toggles(e, t) ==
  /\ e.sel \in e.avail => e.bpid[e.sel] = t
  /\ Held(e) = 2 => e.bpid[1 - e.sel] = 1 - t
  /\ e.pid = IF Held(e) = 1 THEN 1 - t ELSE t
  /\ e.halt = HS_HALTED_ON_CONDITION => e.avail = {} /\ e.done = <<>>

(* The endpoint invariant: every property of this section but the last two
   action properties follows from it. *)
EndpointInv ==
  TypeOK /\ Ring(ep) /\ Count(ep) /\ Packets(ep) /\ Toggles(ep, toggle)

-----------------------------------------------------------------------------
(* Only a reset ends a halt or lowers its level: no driver that goes on
   giving buffers, and no second halt, undoes it.  (_usb_give_buffer sets
   halt_state to HS_NONE, so every path to it has to check.)  A halt on
   condition survives CLEAR_FEATURE, too. *)
HaltEndsByReset ==
  [][ep'.halt < ep.halt =>
       \E u \in UnstallSizes :
         \/ ep.halt # HS_HALTED_ON_CONDITION /\ ClearHalt(u)
         \/ ClassReset(u) \/ SetConfig(u) \/ BusReset(u)]_vars

-----------------------------------------------------------------------------
(* What the endpoint promises: packets reach the other side in the order
   they were sent, each once, and only a halt or a reset drops any. *)
QueueOf(e) ==
  LET image(order) == [i \in 1..Len(order) |-> e.data[order[i]]]
  IN  IF e.halt # HS_NONE \/ ~e.cur THEN <<>>
      ELSE IF e.in THEN image(CASE Held(e) = 0 -> <<>>
                              [] Held(e) = 1 -> <<e.sel>>
                              [] Held(e) = 2 -> <<e.sel, 1 - e.sel>>)
      ELSE image((IF e.queued THEN <<1 - e.take>> ELSE <<>>) \o e.done)

Pipe == INSTANCE PacketPipe WITH
  Capacity <- 2, Modulus <- SeqMod,
  queue <- QueueOf(ep), next <- ep.seq, last <- ep.last

(* The endpoint implements the ordered packet pipe. *)
ImplementsPipe == Pipe!Spec

(* No packet is dropped, duplicated or overtaken on its own: except for the
   host's halts, resets and configurations and for a driver halting the
   endpoint, every step keeps the queue of packets in flight, adds to its
   end or takes its head. *)
OnlyHaltsDrop ==
  [][~HostControl /\ ep'.halt = HS_NONE =>
       [Pipe!Flow]_<<QueueOf(ep), ep.seq, ep.last>>]_vars

(* Once the host stops resetting and halting the endpoint, packets keep
   reaching the other side until the transfer ends or its driver halts it:
   none is forgotten in a buffer, a deferral or an unhandled completion. *)
TransferProgress ==
  <>[][~HostControl]_vars =>
    \A n \in 0..(SeqMod - 1) :
      (configured /\ ep.cur /\ ep.last = n) ~>
        ~(configured /\ ep.cur /\ ep.last = n /\ ep.halt = HS_NONE)
=============================================================================
