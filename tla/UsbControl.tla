------------------------------ MODULE UsbControl ------------------------------
(***************************************************************************)
(* The control pipe of the device: the two single-buffered endpoints 0 of  *)
(* usb_device_tiny/usb_device.c, the SETUP handler, which finds the        *)
(* device, interface or endpoint that a request is for, the completion     *)
(* callbacks that chain the stages of a control transfer, the device's     *)
(* address and configuration, and isr_usbctrl, which handles the causes of *)
(* one interrupt in a fixed order.  The host runs one control transfer at  *)
(* a time: SETUP, an optional data stage, a status stage; it may give up   *)
(* at any point and may reset the bus, and errors on the bus make the      *)
(* device believe that it has been unplugged.  Of the bulk endpoints, one  *)
(* stands for all, and only by its halt; UsbEndpoint has the rest.         *)
(* Requests to halt the control endpoints themselves, which USB does not   *)
(* ask for, are left out.                                                  *)
(*                                                                         *)
(* The operators named Faulty... are variants with a plausible fault,      *)
(* against which the properties are tested.                                *)
(***************************************************************************)
EXTENDS UsbEndpointOps, FiniteSets

CONSTANTS
  MaxAddress,   \* the greatest address (127)
  Racy          \* a SETUP may overtake an unhandled completion

ASSUME MaxAddressAssumption == MaxAddress \in Nat \ {0}
ASSUME RacyAssumption == Racy \in BOOLEAN

VARIABLES
  dev,          \* the device: endpoints, callback, addresses, configuration
  packet,       \* the SETUP packet in the controller's memory
  irq,          \* pending causes besides the completions in buf_status
  host          \* the host's side of the control transfer

vars == <<dev, packet, irq, host>>

(* What a SETUP packet asks of the device: SET_ADDRESS, SET_CONFIGURATION, a
   request with an IN data stage (get), or one that no handler knows; of a
   bulk endpoint: SET_FEATURE, CLEAR_FEATURE, GET_STATUS; of an interface: the
   reset of its class, GET_STATUS. *)
EndpointRequests  == {"set_halt", "clear_halt", "get_halt"}
InterfaceRequests == {"class_reset", "get_interface"}

Requests ==
  [kind : {"set_address"}, value : 0..(MaxAddress + 1)]
    \cup [kind : {"set_config"}, value : 0..2]
    \cup [kind : {"get", "unknown"} \cup EndpointRequests \cup InterfaceRequests,
          value : {0}]

(* Those with a data stage, as far as the host knows. *)
WithData(r) == r.kind \in {"get", "unknown", "get_halt", "get_interface"}

Callbacks == {"none", "in_ack", "set_address"}

(* in, out        usb_control_in, usb_control_out                          *)
(* onIn           on_complete of _control_in_transfer                      *)
(* pending        pending_address; address, config: the current ones       *)
(* bulk           halt_state of a bulk endpoint                            *)
(* status         what GET_STATUS has put into the data packet             *)
Device ==
  [in : Endpoint, out : Endpoint, onIn : Callbacks, pending : 0..MaxAddress,
   address : 0..MaxAddress, config : {0, 1},
   bulk : {HS_NONE, HS_HALTED, HS_HALTED_ON_CONDITION}, status : {0, 1}]

(* stage          what the host does next: nothing, fetch data, fetch or   *)
(*                send the status packet                                   *)
(* addr, config   the address it uses, the configuration it knows of (2    *)
(*                after giving up on a SET_CONFIGURATION)                  *)
(* halted         what it may rely on: it has halted the bulk endpoint, no  *)
(*                one has, or it does not know                             *)
(* lost           a history variable: an error on the bus has made the     *)
(*                device forget the host, which has not reset it since     *)
Stages == {"idle", "data", "status_in", "status_out"}
Host == [stage : Stages, addr : 0..MaxAddress, config : {0, 1, 2},
         halted : {"yes", "no", "unknown"}, lost : BOOLEAN]

InitHost == [stage |-> "idle", addr |-> 0, config |-> 0, halted |-> "no",
             lost |-> FALSE]

Init ==
  /\ dev = [in |-> InitEndpoint(TRUE, FALSE), out |-> InitEndpoint(FALSE, FALSE),
            onIn |-> "none", pending |-> 0, address |-> 0, config |-> 0,
            bulk |-> HS_NONE, status |-> 0]
  /\ packet = [kind |-> "unknown", value |-> 0]
  /\ irq = {}
  /\ host = InitHost

-----------------------------------------------------------------------------
(* usb_start_empty_transfer and usb_start_single_buffer_control_in_transfer:
   one packet, with a callback. *)
StartIn(d, onIn) ==
  [d EXCEPT !.in = StartTransfer(@, 1, "done"), !.onIn = onIn]

StartOut(d) == [d EXCEPT !.out = StartTransfer(@, 1, "done")]

(* usb_stall_control_pipe *)
StallPipe(d) ==
  [d EXCEPT !.in  = Stall(ResetBuffers(@), HS_NON_HALT_STALL),
            !.out = Stall(ResetBuffers(@), HS_NON_HALT_STALL)]

(* A SETUP packet is always accepted: both endpoints are reset, and the next
   stage starts with DATA1. *)
FaultyFresh(e) == ResetEndpoint(e, FALSE, 0, FALSE)
Fresh(e)       == [ResetEndpoint(e, FALSE, 0, FALSE) EXCEPT !.pid = 1]

FaultyAccept(d) == [d EXCEPT !.in = Fresh(@)]
Accept(d)       == [d EXCEPT !.in = Fresh(@), !.out = Fresh(@)]

ValidAddress(a) == a \in 1..MaxAddress
ValidConfig(c)  == c \in {0, 1}

(* _usb_handle_set_config: a hard reset of every endpoint but these two,
   followed by on_configure. *)
SetConfig(d, c) == [d EXCEPT !.config = c, !.bulk = HS_NONE]

FaultyDeviceRequest(d, p) ==
  CASE p.kind = "set_address" /\ ValidAddress(p.value) ->
         StartIn([d EXCEPT !.address = p.value], "none")
    [] p.kind = "set_config" /\ ValidConfig(p.value) -> StartIn(SetConfig(d, p.value), "none")
    [] p.kind = "get" -> StartIn(d, "in_ack")
    [] OTHER -> StallPipe(d)

(* _usb_default_handle_device_setup_request *)
DeviceRequest(d, p) ==
  CASE p.kind = "set_address" /\ ValidAddress(p.value) ->
         StartIn([d EXCEPT !.pending = p.value], "set_address")
    [] p.kind = "set_config" /\ ValidConfig(p.value) -> StartIn(SetConfig(d, p.value), "none")
    [] p.kind = "get" -> StartIn(d, "in_ack")
    [] OTHER -> StallPipe(d)

(* The interface's setup_request_handler, which ends every halt of its
   endpoints, and _usb_default_handle_interface_setup_request. *)
InterfaceRequest(d, p) ==
  CASE p.kind = "class_reset"   -> StartIn([d EXCEPT !.bulk = HS_NONE], "none")
    [] p.kind = "get_interface" -> StartIn([d EXCEPT !.status = 0], "in_ack")

(* _usb_default_handle_endpoint_setup_request *)
EndpointRequest(d, p) ==
  CASE p.kind = "set_halt" ->
         StartIn([d EXCEPT !.bulk = IF @ < HS_HALTED THEN HS_HALTED ELSE @], "none")
    [] p.kind = "clear_halt" ->
         StartIn([d EXCEPT !.bulk = IF @ < HS_HALTED_ON_CONDITION THEN HS_NONE ELSE @],
                 "none")
    [] p.kind = "get_halt" ->
         StartIn([d EXCEPT !.status = IF d.bulk > HS_NON_HALT_STALL THEN 1 ELSE 0], "in_ack")

(* _usb_find_interface, _usb_find_endpoint: there are none while the device
   is not configured. *)
Dispatch(d, p) ==
  CASE p.kind \in InterfaceRequests /\ d.config # 0 -> InterfaceRequest(d, p)
    [] p.kind \in EndpointRequests  /\ d.config # 0 -> EndpointRequest(d, p)
    [] p.kind \notin InterfaceRequests \cup EndpointRequests -> DeviceRequest(d, p)
    [] OTHER -> StallPipe(d)

HandleSetup(d, p) == Dispatch(Accept(d), p)

FaultyCompleted(d) ==
  IF d.onIn = "set_address" THEN [d EXCEPT !.address = d.pending] ELSE d

(* on_complete of the control IN transfer: _tf_set_address applies the
   address; _tf_send_control_in_ack receives the status packet. *)
Completed(d) ==
  CASE d.onIn = "set_address" -> [d EXCEPT !.address = d.pending]
    [] d.onIn = "in_ack"      -> StartOut(d)
    [] OTHER                  -> d

HandleIn(d) ==
  LET e  == HandleTransfer(d.in, "done", 0)
      d1 == [d EXCEPT !.in = e]
  IN  IF d.in.done = <<>> THEN d
      ELSE IF d.in.cur /\ ~e.cur THEN Completed(d1) ELSE d1

HandleOut(d) ==
  IF d.out.done = <<>> THEN d ELSE [d EXCEPT !.out = HandleTransfer(@, "done", 0)]

(* _usb_handle_buffer: the bit of endpoint 0 IN comes before that of OUT. *)
HandleBuffers(d) == HandleOut(HandleIn(d))

(* _usb_handle_bus_reset: unconfigured and unaddressed, buf_status cleared;
   the control endpoints themselves wait for the next SETUP. *)
HandleBusReset(d) ==
  [SetConfig(d, 0) EXCEPT !.address = 0, !.in.done = <<>>, !.out.done = <<>>]

-----------------------------------------------------------------------------
(* Any error but one in the data toggles, which it ignores, is taken for an
   unplugging and treated as a bus reset. *)
Resets(causes) == causes \cap {"reset", "error"} # {}

FaultyIsr ==
  LET d1 == IF Resets(irq) THEN HandleBusReset(dev) ELSE dev
      d2 == IF "setup" \in irq THEN HandleSetup(d1, packet) ELSE d1
  IN  /\ irq # {} \/ dev.in.done # <<>> \/ dev.out.done # <<>>
      /\ dev' = HandleBuffers(d2)
      /\ irq' = {}
      /\ UNCHANGED <<packet, host>>

(* What isr_usbctrl leaves of the device: SETUP, then completions, then a bus
   reset or an error. *)
AfterIsr(d, causes, p) ==
  LET d1 == IF "setup" \in causes THEN HandleSetup(d, p) ELSE d
      d2 == HandleBuffers(d1)
  IN  IF Resets(causes) THEN HandleBusReset(d2) ELSE d2

Isr ==
  /\ irq # {} \/ dev.in.done # <<>> \/ dev.out.done # <<>>
  /\ dev' = AfterIsr(dev, irq, packet)
  /\ irq' = {}
  /\ UNCHANGED <<packet, host>>

(* A driver halts the bulk endpoint, for the host to notice some time. *)
DriverHalts(level) ==
  /\ dev.config # 0
  /\ dev.bulk < level
  /\ dev' = [dev EXCEPT !.bulk = level]
  /\ host' = [host EXCEPT !.halted = IF @ = "no" THEN "unknown" ELSE @]
  /\ UNCHANGED <<packet, irq>>

(* The device answers packets sent to its address, once it has seen to the
   SETUP and to a bus reset. *)
Answers == host.addr = dev.address /\ irq \subseteq {"error"}

(* What the host knows of the halt once the device has handled the request
   that it sends. *)
Expected(r) ==
  CASE r.kind = "class_reset" \/ (r.kind = "set_config" /\ ValidConfig(r.value)) -> "no"
    [] r.kind = "clear_halt" /\ host.halted = "yes" -> "unknown"
    [] r.kind = "set_halt"   /\ host.halted = "no"  -> "unknown"
    [] OTHER -> host.halted

(* The host starts a control transfer.  Unless Racy, it leaves the device
   time to handle the last one's status packet. *)
SendSetup(r) ==
  /\ host.stage = "idle"
  /\ Answers
  /\ Racy \/ (dev.in.done = <<>> /\ dev.out.done = <<>>)
  /\ packet' = r
  /\ irq' = irq \cup {"setup"}
  /\ host' = [host EXCEPT !.stage = IF WithData(r) THEN "data" ELSE "status_in",
                          !.halted = Expected(r)]
  /\ UNCHANGED dev

(* The host fetches the data packet, or the status packet that ends a
   request without data. *)
FetchIn ==
  /\ host.stage \in {"data", "status_in"}
  /\ Answers
  /\ CanComplete(dev.in, 1)
  /\ dev' = [dev EXCEPT !.in = Complete(@)]
  /\ host' = [host EXCEPT
       !.stage  = IF @ = "data" THEN "status_out" ELSE "idle",
       !.addr   = IF packet.kind = "set_address" THEN packet.value ELSE @,
       !.config = IF packet.kind = "set_config" THEN packet.value ELSE @,
       !.halted = IF packet.kind = "set_halt" THEN "yes" ELSE @]
  /\ UNCHANGED <<packet, irq>>

(* The host ends a request with data by an empty packet. *)
SendStatus ==
  /\ host.stage = "status_out"
  /\ Answers
  /\ CanComplete(dev.out, 1)
  /\ dev' = [dev EXCEPT !.out = Complete(@)]
  /\ host' = [host EXCEPT !.stage = "idle"]
  /\ UNCHANGED <<packet, irq>>

Stalled ==
  \/ host.stage \in {"data", "status_in"} /\ dev.in.halt # HS_NONE
  \/ host.stage = "status_out" /\ dev.out.halt # HS_NONE

SeeStall ==
  /\ Answers
  /\ Stalled
  /\ host' = [host EXCEPT !.stage = "idle"]
  /\ UNCHANGED <<dev, packet, irq>>

GiveUp ==
  /\ host.stage # "idle"
  /\ host' = [host EXCEPT !.stage = "idle",
                          !.config = IF packet.kind = "set_config" THEN 2 ELSE @]
  /\ UNCHANGED <<dev, packet, irq>>

ResetBus ==
  /\ "reset" \notin irq
  /\ irq' = irq \cup {"reset"}
  /\ host' = InitHost
  /\ UNCHANGED <<dev, packet>>

(* A packet arrives damaged, or the host's answer too late. *)
BusError ==
  /\ "error" \notin irq
  /\ irq' = irq \cup {"error"}
  /\ host' = [host EXCEPT !.lost = @ \/ "reset" \notin irq]
  /\ UNCHANGED <<dev, packet>>

-----------------------------------------------------------------------------
Progress == FetchIn \/ SendStatus \/ SeeStall
Next ==
  \/ Isr
  \/ \E level \in {HS_HALTED, HS_HALTED_ON_CONDITION} : DriverHalts(level)
  \/ \E r \in Requests : SendSetup(r)
  \/ Progress
  \/ GiveUp
  \/ ResetBus
  \/ BusError

Spec == Init /\ [][Next]_vars

(* The interrupt is taken while it is pending, and the host keeps polling. *)
LiveSpec == Spec /\ WF_vars(Isr) /\ WF_vars(Progress)

-----------------------------------------------------------------------------
(* Every variable has its type; the address stays in range. *)
TypeOK ==
  /\ dev \in Device
  /\ packet \in Requests
  /\ irq \in SUBSET {"setup", "reset", "error"}
  /\ host \in Host

(* The address of the device only becomes one the host already uses: a new
   one after its status stage (usb_device_private.h: "address to set on
   completion of SET_ADDRESS CSW"), and 0 after a bus reset.  Applied
   earlier, the status packet would go unanswered.  Only an error on the bus
   makes it 0 without the host. *)
AddressFollowsHost ==
  [][dev'.address # dev.address =>
       dev'.address = host.addr \/ (host.lost /\ dev'.address = 0)]_vars

(* After a completed request, and after a bus reset, whatever errors came
   before it, the device is in the configuration the host thinks it is in, at the address the host uses, and
   its endpoint is halted if the host has halted it and not if a reset has
   ended every halt; GET_STATUS tells the host the same. *)
HaltedAsKnown(h, halted) ==
  /\ h.halted = "yes" => halted
  /\ h.halted = "no"  => ~halted

HostAgrees ==
  /\ ~host.lost /\ host.stage = "idle" /\ irq = {} /\ dev.in.done = <<>> =>
       /\ dev.address = host.addr
       /\ host.config \in {2, dev.config}
       /\ HaltedAsKnown(host, dev.bulk # HS_NONE)
  /\ /\ ~host.lost /\ host.stage = "data" /\ packet.kind = "get_halt"
     /\ Answers /\ dev.in.avail # {}
     => HaltedAsKnown(host, dev.status = 1)

(* Either control endpoint: nothing under way (it may stall, to refuse a
   request), untouched since the last SETUP, a packet given to the controller
   as DATA1, a packet completed and not handled. *)
Idle(e) ==
  /\ ~e.cur /\ e.avail = {} /\ e.done = <<>> /\ e.owned = 1
  /\ e.halt \in {HS_NONE, HS_NON_HALT_STALL}

Unused(e) == Idle(e) /\ e.pid = 1 /\ e.halt = HS_NONE

UnderWay(e) ==
  /\ e.cur /\ e.owned = 0 /\ e.submit = 0 /\ e.handle = 1 /\ e.halt = HS_NONE

Given(e) == UnderWay(e) /\ e.avail = {0} /\ e.done = <<>> /\ e.bpid[0] = 1
Moved(e) == UnderWay(e) /\ e.avail = {} /\ e.done = <<0>>

Single(e) ==
  /\ ~e.dbl /\ e.give = 0 /\ e.take = 0 /\ e.sel = 0 /\ e.view = NoView
  /\ ~e.outstanding /\ ~e.queued

(* The stages follow each other: nothing has used the OUT endpoint before the
   IN endpoint has done its part, and both stall, or the IN endpoint does not. *)
Pipe(d) ==
  /\ d.in.in /\ ~d.out.in /\ Single(d.in) /\ Single(d.out)
  /\ \/ (Given(d.in) \/ Moved(d.in)) /\ Unused(d.out)
     \/ Idle(d.in) /\ (Idle(d.out) \/ Given(d.out) \/ Moved(d.out))
  /\ d.out.halt # HS_NONE => d.in.halt # HS_NONE
  /\ d.config = 0 => d.bulk = HS_NONE

(* The packet that waits for the host is the answer to its request, although
   an error may have undone since what it says. *)
Answered(d, p, h) ==
  /\ d.onIn = "set_address" <=> p.kind = "set_address"
  /\ p.kind = "set_address" => d.pending = p.value
  /\ p.kind = "set_config" => ValidConfig(p.value)
  /\ p.kind = "set_halt" => h.lost \/ d.bulk # HS_NONE
  /\ p.kind = "get_halt" => h.lost \/ HaltedAsKnown(h, d.status = 1)

(* The request was not one to answer. *)
Refusable(p, config) ==
  \/ p.kind = "unknown"
  \/ p.kind = "set_address" /\ ~ValidAddress(p.value)
  \/ p.kind = "set_config" /\ ~ValidConfig(p.value)
  \/ p.kind \in EndpointRequests \cup InterfaceRequests /\ config # 1

(* An error on the bus leaves the device unaddressed. *)
AddressAgrees(d, h) == d.address = h.addr \/ (h.lost /\ d.address = 0)

(* The configuration that the host knows of is the device's, or the status
   packet will tell. *)
ConfigAgrees(d, p, h) ==
  IF h.stage = "status_in" /\ p.kind = "set_config" /\ ValidConfig(p.value)
  THEN d.config = p.value
  ELSE h.config \in {2, d.config}

(* What host and device, once it has seen to its interrupt, know of each
   other. *)
Agree(d, p, h) ==
  /\ AddressAgrees(d, h)
  /\ h.lost \/ ConfigAgrees(d, p, h)
  /\ h.lost \/ HaltedAsKnown(h, d.bulk # HS_NONE)
  /\ h.stage = "data" => WithData(p)
  /\ h.stage = "status_in" => ~WithData(p)
  /\ h.stage = "status_out" => d.in.halt = HS_NONE
  /\ h.stage \in {"data", "status_in"} =>
       IF d.in.halt = HS_NONE THEN Answered(d, p, h) ELSE Refusable(p, d.config)

(* The control endpoints are in one of these states, on the right toggle, and
   stall only to refuse; a SETUP finds them without a completion; device and
   host agree as soon as the pending interrupt is handled. *)
ControlInv ==
  /\ TypeOK
  /\ Pipe(dev)
  /\ "setup" \in irq =>
       dev.in.done = <<>> /\ dev.out.done = <<>> /\ host.stage # "status_out"
  /\ "reset" \in irq => host.stage = "idle"
  /\ "error" \in irq => host.lost \/ "reset" \in irq
  /\ Agree(AfterIsr(dev, irq, packet), packet, host)

(* A request the host does not give up on comes to an end, unless an error
   has made the device forget the host. *)
RequestsEnd ==
  <>[][~GiveUp /\ ~ResetBus]_vars => []<>(host.stage = "idle" \/ host.lost)

(* A request that some handler knows is not answered with a stall; those to
   endpoints and interfaces are known once the host has configured the
   device, whatever it has given up on since. *)
KnownRequestsSucceed ==
  [][SeeStall => \/ host.lost
                 \/ packet.kind = "unknown"
                 \/ packet.kind = "set_address" /\ packet.value \notin 1..MaxAddress
                 \/ packet.kind = "set_config" /\ packet.value = 2
                 \/ packet.kind \in EndpointRequests \cup InterfaceRequests
                      /\ host.config # 1]_vars
=============================================================================
