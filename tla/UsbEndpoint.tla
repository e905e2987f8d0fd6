----------------------------- MODULE UsbEndpoint -----------------------------
(***************************************************************************)
(* One bulk endpoint of the device: the driver that starts transfers on it *)
(* and finishes packets, the interrupt handler of                          *)
(* usb_device_tiny/usb_device.c, the USB controller that moves packets     *)
(* with the host, and the control requests by which the host halts and     *)
(* resets the endpoint.  Handlers run with the USB interrupt taken or      *)
(* disabled, so each is one step; the controller and the host act between  *)
(* any two of them.  (ClearHaltAlways is a faulty variant of ClearHalt,    *)
(* against which a property is tested.)                                    *)
(***************************************************************************)
EXTENDS UsbEndpointOps

CONSTANTS
  Directions,   \* the endpoints there are: TRUE for one that sends to the host,
  Bufferings,   \* TRUE for a double-buffered one
  Async,        \* its driver may finish a packet after on_packet has returned
  HasDefault,   \* an OUT endpoint has a default transfer: a one-packet command
  Racy,         \* a control request may overtake an unhandled completion
  HaltsBusy,    \* a driver may halt on condition in the middle of a transfer
  MaxPackets    \* packets in the longest transfer (a bound of the model)

ASSUME FlagsAssumption ==
  /\ Directions \subseteq BOOLEAN
  /\ Bufferings \subseteq BOOLEAN
  /\ Async \in BOOLEAN
  /\ HasDefault \in BOOLEAN
  /\ Racy \in BOOLEAN
  /\ HaltsBusy \in BOOLEAN
ASSUME MaxPacketsAssumption == MaxPackets \in Nat \ {0}

VARIABLES
  ep,           \* the endpoint
  toggle,       \* the host's data toggle for it
  configured    \* current_config_num # 0

vars == <<ep, toggle, configured>>

Init ==
  /\ \E in \in Directions, dbl \in Bufferings : ep = InitEndpoint(in, dbl)
  /\ toggle = 0
  /\ configured = FALSE

(* What on_packet may do, and the follow-up transfers on completion. *)
Ways   == IF Async THEN {"done", "later"} ELSE {"done"}
Sizes  == 1..MaxPackets
Follow == 0..MaxPackets

(* Only OUT endpoints have a default transfer. *)
WithDefault == HasDefault /\ ~ep.in

-----------------------------------------------------------------------------
(* usb_start_transfer by a driver, on an endpoint with no transfer and
   nothing left to handle. *)
Start(n, how) ==
  /\ configured
  /\ ~ep.cur
  /\ ep.done = <<>>
  /\ ep' = StartTransfer(ep, n, how)
  /\ UNCHANGED <<toggle, configured>>

(* The controller and the host complete one packet. *)
Transact ==
  /\ configured
  /\ CanComplete(ep, toggle)
  /\ ep' = Complete(ep)
  /\ toggle' = 1 - toggle
  /\ UNCHANGED configured

(* isr_usbctrl with BUFF_STATUS: the endpoint's first completion.  A driver
   halts the endpoint in the callback only for a command it rejects, the
   one packet of its transfer. *)
HandleBuffer(how, next) ==
  /\ ep.done # <<>>
  /\ how = "halt" => ep.handle = 1
  /\ ep' = HandleTransfer(ep, how, next)
  /\ UNCHANGED <<toggle, configured>>

(* The driver finishes its outstanding packet. *)
FinishPacket(halting, how, next) ==
  /\ ep.cur
  /\ ep.outstanding
  /\ ep' = PacketDone(ep, halting, how, next)
  /\ UNCHANGED <<toggle, configured>>

(* A driver halts the endpoint from a handler that runs for another one
   (_msc_cmd_halt, _picoboot_cmd_packet, a data phase that ended early).
   It is idle then; for a halt on condition, which _msc_cmd_halt makes when
   it gets a bad command block, the host has also fetched every packet,
   unless HaltsBusy: it cleared the OUT endpoint in the middle of an IN
   transfer, and sent a bad command there. *)
DriverHalt(hs) ==
  /\ configured
  /\ ep.done = <<>>
  /\ \/ ~ep.cur /\ (hs = HS_HALTED_ON_CONDITION => ep.avail = {})
     \/ HaltsBusy /\ hs = HS_HALTED_ON_CONDITION
  /\ ep' = Stall(ep, hs)
  /\ UNCHANGED <<toggle, configured>>

-----------------------------------------------------------------------------
(* A SETUP packet is handled before the completions of the same interrupt;
   unless Racy, the host leaves it time to have handled them. *)
Settled == Racy \/ ep.done = <<>>

(* SET_FEATURE(ENDPOINT_HALT) *)
SetHalt ==
  /\ configured
  /\ Settled
  /\ ep' = Stall(ep, HS_HALTED)
  /\ UNCHANGED <<toggle, configured>>

ClearHaltAlways(onUnstall) ==
  /\ configured
  /\ Settled
  /\ ep' = ResetEndpoint(ep, TRUE, onUnstall, WithDefault)
  /\ toggle' = 0
  /\ UNCHANGED configured

(* CLEAR_FEATURE(ENDPOINT_HALT): a halt on condition is kept, and only the
   toggle is reset; otherwise the endpoint is. *)
ClearHalt(onUnstall) ==
  /\ configured
  /\ Settled
  /\ ep' = IF ep.halt < HS_HALTED_ON_CONDITION
           THEN ResetEndpoint(ep, TRUE, onUnstall, WithDefault)
           ELSE [ep EXCEPT !.pid = 0]
  /\ toggle' = 0
  /\ UNCHANGED configured

(* The reset request of an interface's class (MSC_RESET, PICOBOOT_IF_RESET)
   softly resets its endpoints; MSC_RESET first lowers a halt on condition,
   and the reset then ends every halt. *)
ClassReset(onUnstall) ==
  /\ configured
  /\ Settled
  /\ ep' = ResetEndpoint(ep, FALSE, onUnstall, WithDefault)
  /\ UNCHANGED <<toggle, configured>>

(* _usb_handle_set_config with a non-zero configuration; the class drivers'
   on_configure then resets their endpoints softly. *)
SetConfig(onUnstall) ==
  /\ Settled
  /\ configured' = TRUE
  /\ ep' = ResetEndpoint(ResetEndpoint(ep, TRUE, onUnstall, WithDefault), FALSE, 0, WithDefault)
  /\ toggle' = 0

(* _usb_handle_bus_reset: unconfigured, and every completion forgotten (the
   resets do not look at buf_status). *)
BusReset(onUnstall) ==
  /\ configured' = FALSE
  /\ ep' = ResetEndpoint([ep EXCEPT !.done = <<>>], TRUE, onUnstall, FALSE)
  /\ toggle' = 0

-----------------------------------------------------------------------------
(* A driver's on_stall_change starts a one-packet transfer (the CSW that
   waited for the stall to end) on an IN endpoint. *)
UnstallSizes == IF ep.in THEN {0, 1} ELSE {0}

Driver ==
  \/ \E n \in Sizes, how \in Ways : Start(n, how)
  \/ \E halting \in BOOLEAN, how \in Ways, m \in Follow :
       FinishPacket(halting, how, m)
  \/ \E hs \in {HS_HALTED, HS_HALTED_ON_CONDITION} : DriverHalt(hs)

Isr ==
  \E how \in Ways \cup {"halt"}, m \in Follow : HandleBuffer(how, m)

HostControl ==
  \/ SetHalt
  \/ \E u \in UnstallSizes :
       ClearHalt(u) \/ ClassReset(u) \/ SetConfig(u) \/ BusReset(u)

Next == Driver \/ Isr \/ Transact \/ HostControl

Spec == Init /\ [][Next]_vars

(***************************************************************************)
(* The interrupt is taken while it is pending, a driver finishes every     *)
(* packet it left outstanding, and the host keeps polling an endpoint it   *)
(* has a transfer for.                                                     *)
(***************************************************************************)
Finishes ==
  \E halting \in BOOLEAN, how \in Ways, m \in Follow :
    FinishPacket(halting, how, m)

Fairness == WF_vars(Isr) /\ WF_vars(Finishes) /\ WF_vars(Transact)

LiveSpec == Spec /\ Fairness
=============================================================================
