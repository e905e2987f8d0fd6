--------------------------------- MODULE Msc ---------------------------------
(***************************************************************************)
(* The mass storage interface of usb_device_tiny/usb_msc.c: commands that  *)
(* arrive in a command block (CBW), an optional data phase, and a status   *)
(* block (CSW) that may have to wait for the host to end a stall.  The     *)
(* host follows the bulk-only transport: it expects some amount of data in *)
(* some direction, which need not be what the command transfers; it clears *)
(* halts, and does a reset recovery after a phase error, or when it gives  *)
(* up.                                                                     *)
(*                                                                         *)
(* An endpoint is seen here as the transfer it runs: UsbEndpoint has its   *)
(* buffers, toggles and late completions.  Lengths are in units of half a  *)
(* packet, so that a packet may be short and a length need not be a number *)
(* of packets.  The disk answers at once (vd_read_block and vd_write_block *)
(* return false), but a page of a UF2 image that is written resets the     *)
(* chip (virtual_disk.c).                                                  *)
(*                                                                         *)
(* Operators named Faulty... are variants with a plausible fault, against  *)
(* which the properties are tested.                                        *)
(***************************************************************************)
EXTENDS Naturals

CONSTANTS
  SectorPackets,    \* packets in a sector (8)
  MaxLength,        \* units in the longest data phase a host expects (a bound)
  MaxBlocks         \* blocks in the longest READ or WRITE (a bound)

ASSUME SectorPacketsAssumption == SectorPackets \in Nat \ {0}
ASSUME BoundsAssumption == MaxLength \in Nat /\ MaxBlocks \in Nat \ {0}

PacketUnits == 2
ResponseUnits == 1     \* INQUIRY, READ CAPACITY, ...: less than a packet
Dirs == {"in", "out"}
Least(a, b) == IF a <= b THEN a ELSE b

(* none: no data (START STOP UNIT without an eject, VERIFY, ...);          *)
(* tur: TEST UNIT READY; resp: a short response; sense: REQUEST SENSE;     *)
(* unknown: an operation code that is not handled; bad: an invalid CBW.    *)
Kinds == {"none", "tur", "eject", "resp", "sense", "read", "write", "unknown", "bad"}

VARIABLES
  dev,          \* both endpoints and _msc_state
  host          \* the host's side of the current command

vars == <<dev, host>>

(* out, in   msc_out, msc_in: the transfer, packets left (to receive, or   *)
(*           to fill), packets filled and not fetched, halt_state          *)
(* size      units of the packet of a response                             *)
(* offset    packets of the sector transfer so far                         *)
(* tag, residue, status   csw;   sense   request_sense.key # SK_OK         *)
(* stallDir  stall_direction_before_csw                                    *)
(* onUnstall send_csw_on_unstall;   ejected, rebooting                     *)
(* disabled  virtual_disk_queue.disable;   uf2   of _uf2_info: num_blocks  *)
(*           (0: no image is being written), and ram, FALSE without one    *)
(* partial   the disk was handed part of a sector by this transfer         *)
(* fault     an assertion that failed, and should not (the build goes on)  *)
Statuses == {"passed", "failed", "phase_error"}
Transfers == {"none", "stream", "response", "csw", "cmd"}
MaxPackets == SectorPackets * MaxBlocks

(* A block that is written: not the UF2 of an image for this chip, or else a
   page of one that goes to RAM or to flash and has num blocks.  No blocks
   stand for all garbage (an address outside, a page not aligned), TooMany for
   more than the bitmap can hold; late: block_no is not below num. *)
TooMany == 3
Uf2Blocks == [uf2 : {TRUE}, ram : BOOLEAN, num : 0..TooMany, late : BOOLEAN]
OtherBlock == [uf2 |-> FALSE]
NoImage == [num |-> 0, ram |-> FALSE]

Device ==
  [out : [xfer : Transfers, left : 0..MaxPackets, halt : 0..3],
   in : [xfer : Transfers, left : 0..MaxPackets, ready : 0..2, halt : 0..3],
   size : 0..PacketUnits, offset : 0..MaxPackets,
   tag : {0, 1}, residue : 0..MaxLength, status : Statuses, sense : BOOLEAN,
   stallDir : Dirs \cup {"none"}, onUnstall : BOOLEAN, ejected : BOOLEAN,
   rebooting : BOOLEAN, disabled : BOOLEAN, uf2 : [num : 0..TooMany, ram : BOOLEAN],
   partial : BOOLEAN, fault : {"none", "already_running", "too_many"}]

HS_NONE == 0
HS_HALTED == 2
HS_HALTED_ON_CONDITION == 3

OutDefault == [xfer |-> "cmd", left |-> 1, halt |-> HS_NONE]
OutIdle(halt) == [xfer |-> "none", left |-> 0, halt |-> halt]
InIdle == [xfer |-> "none", left |-> 0, ready |-> 0, halt |-> HS_NONE]
InWaits(xfer) == [xfer |-> xfer, left |-> 0, ready |-> 1, halt |-> HS_NONE]

InitDevice ==
  [out |-> OutDefault, in |-> InIdle, size |-> 0, offset |-> 0, tag |-> 0, residue |-> 0,
   status |-> "passed", sense |-> FALSE, stallDir |-> "none", onUnstall |-> FALSE,
   ejected |-> FALSE, rebooting |-> FALSE, disabled |-> FALSE, uf2 |-> NoImage,
   partial |-> FALSE, fault |-> "none"]

(* left: units of the data phase still to come; moved: those that came;    *)
(* claim: how what the host expects compares with the command.             *)
InitHost ==
  [stage |-> "idle", kind |-> "none", dir |-> "in", len |-> 0, left |-> 0, moved |-> 0,
   tag |-> 0, retried |-> FALSE, claim |-> "right"]

Init == dev = InitDevice /\ host = InitHost

-----------------------------------------------------------------------------
(* usb_start_transfer where a transfer runs *)
Fails(d, f) == [d EXCEPT !.fault = f]

(* _usb_stall_endpoint *)
Stalled(halt, hs) == IF hs > halt THEN hs ELSE halt

(* The one-packet transfer of a response or a CSW; a halted endpoint keeps
   it until the halt ends. *)
StartPacket(d, xfer, size) ==
  IF d.in.xfer # "none" THEN Fails(d, "already_running")
  ELSE [d EXCEPT !.size = size,
                 !.in = IF @.halt = HS_NONE THEN InWaits(xfer)
                        ELSE [xfer |-> xfer, left |-> 1, ready |-> 0, halt |-> @.halt]]

(* _msc_send_csw *)
SendCsw(d) == StartPacket([d EXCEPT !.onUnstall = FALSE], "csw", 0)

FaultyNoUnstall(d) ==
  IF d.stallDir = "in"
  THEN [d EXCEPT !.stallDir = "none", !.in.halt = Stalled(@, HS_HALTED)]
  ELSE SendCsw([d EXCEPT !.stallDir = "none",
                         !.out.halt = IF d.stallDir = "out" THEN Stalled(@, HS_HALTED) ELSE @])

FaultyNoStall(d) == SendCsw([d EXCEPT !.stallDir = "none"])

(* _msc_data_phase_complete *)
DataPhaseComplete(d) ==
  IF d.stallDir = "in"
  THEN [d EXCEPT !.stallDir = "none", !.onUnstall = TRUE, !.in.halt = Stalled(@, HS_HALTED)]
  ELSE SendCsw([d EXCEPT !.stallDir = "none",
                         !.out.halt = IF d.stallDir = "out" THEN Stalled(@, HS_HALTED) ELSE @])

FaultyWaitCommand(d) ==
  IF d.out.halt # HS_NONE THEN d
  ELSE IF d.out.xfer # "none" THEN Fails(d, "already_running")
  ELSE [d EXCEPT !.out = OutDefault]

(* _tf_wait_command *)
WaitCommand(d) ==
  IF d.out.halt # HS_NONE \/ d.out.xfer = "cmd" THEN d
  ELSE IF d.out.xfer # "none" THEN Fails(d, "already_running")
  ELSE [d EXCEPT !.out = OutDefault]

(* _msc_init_for_dn *)
InitForDn(d, c) ==
  DataPhaseComplete([d EXCEPT !.stallDir = IF c.len > 0 THEN c.dir ELSE "none"])

FaultyPhaseEqual(d, c, expected, dir) ==
  [d EXCEPT !.stallDir = IF c.dir # dir THEN c.dir
                         ELSE IF expected # c.len THEN dir ELSE "none",
            !.status = IF c.dir # dir \/ expected >= c.len THEN "phase_error" ELSE @]

(* _msc_init_for_di_or_do: what the command and the host disagree on. *)
Phase(d, c, expected, dir) ==
  [d EXCEPT !.stallDir = IF c.dir # dir THEN c.dir
                         ELSE IF expected # c.len THEN dir ELSE "none",
            !.status = IF c.dir # dir \/ expected > c.len THEN "phase_error" ELSE @]

DataPhaseLength(c, expected, dir) == IF c.dir # dir THEN 0 ELSE Least(expected, c.len)

FaultyResponse(d, c) ==
  LET expected == Least(ResponseUnits, c.len)
      n == DataPhaseLength(c, expected, "in")
      p == Phase(d, c, expected, "in")
  IN  IF n = 0 THEN DataPhaseComplete(p)
      ELSE StartPacket([p EXCEPT !.residue = 0], "response", n)

(* _scsi_standard_response *)
StandardResponse(d, c) ==
  LET expected == Least(ResponseUnits, c.len)
      n == DataPhaseLength(c, expected, "in")
      p == Phase(d, c, expected, "in")
  IN  IF n = 0 THEN DataPhaseComplete(p)
      ELSE StartPacket([p EXCEPT !.residue = @ - n], "response", n)

(* A whole packet of a sector transfer, at its end or at the end of a sector
   the disk is called; it is handed chunk_len bytes, which should be a sector. *)
NextPacket(d, last) ==
  LET n == [d EXCEPT !.offset = @ + 1, !.residue = @ - PacketUnits]
  IN  [n EXCEPT !.partial = last /\ n.offset % SectorPackets # 0]

(* The packets of a READ that can be filled now, one for each buffer. *)
FillOne(d) ==
  IF d.in.xfer = "stream" /\ d.in.left > 0 /\ d.in.ready < 2 /\ d.in.halt = HS_NONE
  THEN NextPacket([d EXCEPT !.in.left = @ - 1, !.in.ready = @ + 1], d.in.left = 1)
  ELSE d

FillIn(d) == FillOne(FillOne(d))

(* _scsi_read_or_write_blocks: whole packets only. *)
ReadOrWriteBlocks(d, c, dir) ==
  LET expected == c.blocks * SectorPackets * PacketUnits
      k == DataPhaseLength(c, expected, dir) \div PacketUnits
      p == [Phase(d, c, expected, dir) EXCEPT !.offset = 0, !.size = PacketUnits]
  IN  IF k = 0 THEN DataPhaseComplete(p)
      ELSE IF dir = "out" THEN [p EXCEPT !.out = [OutDefault EXCEPT !.xfer = "stream", !.left = k]]
      ELSE IF p.in.xfer # "none" THEN Fails(p, "already_running")
      ELSE FillIn([p EXCEPT !.in.xfer = "stream", !.in.left = k])

(* _update_current_uf2_info: nothing for a disk that is taken away, a new
   image for a number of blocks not seen before.  A page that is accepted is
   handed to _write_uf2_page, which resets the chip and does not return. *)
UpdateUf2(d, b) ==
  LET fresh == d.uf2.num # b.num
      n     == IF fresh THEN [d EXCEPT !.uf2 = [num |-> b.num, ram |-> b.ram]] ELSE d
  IN  IF b.num = 0 \/ d.disabled \/ (fresh /\ b.num = TooMany)
      THEN [d EXCEPT !.uf2 = NoImage]
      ELSE IF n.uf2.num = TooMany THEN Fails(n, "too_many")
      ELSE IF b.ram # n.uf2.ram \/ b.late THEN [n EXCEPT !.uf2 = NoImage]
      ELSE [n EXCEPT !.rebooting = TRUE]

(* vd_write_block *)
WriteBlock(d, b) == IF b.uf2 THEN UpdateUf2(d, b) ELSE d

(* A valid command block; the command transfer has ended. *)
Accepted(d, c) ==
  [d EXCEPT !.tag = c.tag, !.residue = c.len, !.status = "passed",
            !.sense = IF c.kind = "sense" THEN @ ELSE FALSE, !.partial = FALSE,
            !.out = OutIdle(HS_NONE)]

(* _scsi_fail_cmd *)
FailCmd(d, c) == InitForDn([d EXCEPT !.status = "failed", !.sense = TRUE], c)

(* _scsi_handle_test_unit_ready, _scsi_handle_start_stop_unit,
   _scsi_handle_request_sense *)
TestUnitReady(d, c) == IF d.ejected THEN FailCmd(d, c) ELSE InitForDn(d, c)
StopUnit(d, c) == InitForDn([d EXCEPT !.ejected = TRUE], c)
RequestSense(d, c) == StandardResponse([d EXCEPT !.sense = FALSE], c)

(* _msc_cmd_packet *)
HandleCommand(d, c) ==
  LET a == Accepted(d, c)
  IN  CASE c.kind = "bad" ->
             [d EXCEPT !.out = OutIdle(HS_HALTED_ON_CONDITION),
                       !.in.halt = HS_HALTED_ON_CONDITION]
        [] c.kind = "none"  -> InitForDn(a, c)
        [] c.kind = "eject" -> StopUnit(a, c)
        [] c.kind = "tur"   -> TestUnitReady(a, c)
        [] c.kind = "resp"  -> StandardResponse(a, c)
        [] c.kind = "sense" -> RequestSense(a, c)
        [] c.kind = "read"  -> ReadOrWriteBlocks(a, c, "in")
        [] c.kind = "write" -> ReadOrWriteBlocks(a, c, "out")
        [] c.kind = "unknown" -> FailCmd(a, c)

(* on_complete of the transfer on msc_in that has just ended *)
InComplete(d, xfer) == IF xfer = "csw" THEN WaitCommand(d) ELSE DataPhaseComplete(d)

(* _usb_reset_endpoint of msc_in, with _msc_in_on_stall_change *)
ResetIn(d) ==
  LET r == [d EXCEPT !.in = InIdle]
  IN  IF d.in.halt # HS_NONE /\ d.onUnstall THEN SendCsw(r) ELSE r

FaultyReset(d) ==
  [InitDevice EXCEPT !.fault = d.fault, !.disabled = d.disabled, !.onUnstall = d.onUnstall]

(* _msc_reset.  The reset of msc_in finds send_csw_on_unstall cleared; a CSW
   that SET_CONFIGURATION's own reset of msc_in has started ends here. *)
Reset(d) == [InitDevice EXCEPT !.fault = d.fault, !.disabled = d.disabled]

-----------------------------------------------------------------------------
Running == ~dev.rebooting

(* How a host's description of the data phase compares with the command. *)
Claim(kind, dir, len, blocks) ==
  LET units == blocks * SectorPackets * PacketUnits
      way   == IF kind = "write" THEN "out" ELSE "in"
  IN  CASE kind \in {"none", "tur", "eject"} -> IF len = 0 THEN "right" ELSE "other"
        [] kind \in {"resp", "sense"} ->
             IF dir = "in" /\ len = ResponseUnits THEN "right" ELSE "other"
        [] kind \in {"read", "write"} ->
             IF dir = way /\ len = units THEN "right"
             ELSE IF dir # way \/ len < units THEN "wrong" ELSE "other"
        [] OTHER -> "other"

(* The host's command: what it says of the data phase may be wrong. *)
SendCommand(kind, dir, len, blocks) ==
  LET tag == 1 - host.tag
  IN  /\ host.stage = "idle"
      /\ dev.out.xfer = "cmd" /\ dev.out.halt = HS_NONE
      /\ blocks > 0 => kind \in {"read", "write"}
      /\ kind = "bad" => len = 0
      /\ dev' = HandleCommand(dev, [kind |-> kind, dir |-> dir, len |-> len,
                                    blocks |-> blocks, tag |-> tag])
      /\ host' = [host EXCEPT !.stage = IF len > 0 THEN "data" ELSE "csw", !.kind = kind,
                              !.dir = dir, !.len = len, !.left = len, !.moved = 0,
                              !.tag = tag, !.retried = FALSE,
                              !.claim = Claim(kind, dir, len, blocks)]

(* A packet of the data phase to the device; with the last one of a sector
   the disk gets a block.  (The last one of a transfer may end part of a
   sector, which has zeroes where a UF2 block has its end mark.) *)
SendData(block) ==
  LET units == Least(PacketUnits, host.left)
      n     == NextPacket([dev EXCEPT !.out.left = @ - 1], dev.out.left = 1)
      w     == WriteBlock(n, block)
  IN  /\ host.stage = "data" /\ host.dir = "out"
      /\ dev.out.xfer = "stream" /\ dev.out.halt = HS_NONE
      /\ block.uf2 => n.offset % SectorPackets = 0
      /\ dev' = IF w.rebooting THEN [dev EXCEPT !.rebooting = TRUE, !.uf2 = w.uf2]
                ELSE IF w.out.left = 0 THEN DataPhaseComplete([w EXCEPT !.out.xfer = "none"])
                ELSE w
      /\ host' = [host EXCEPT !.left = @ - units, !.moved = @ + units,
                              !.stage = IF host.left = units THEN "csw" ELSE "data"]

(* The packet on IN is fetched, and the interrupt for it handled. *)
Fetched ==
  LET f == [dev EXCEPT !.in.ready = @ - 1]
  IN  IF f.in.ready = 0 /\ f.in.left = 0
      THEN InComplete([f EXCEPT !.in.xfer = "none"], dev.in.xfer)
      ELSE FillIn(f)

CanFetch == dev.in.ready > 0 /\ dev.in.halt = HS_NONE

(* A packet of data from the device; a short one ends the data phase. *)
FetchData ==
  /\ host.stage = "data" /\ host.dir = "in"
  /\ CanFetch
  /\ dev' = Fetched
  /\ host' = [host EXCEPT !.left = @ - dev.size, !.moved = @ + dev.size,
                          !.stage = IF dev.size < PacketUnits \/ host.left <= dev.size
                                    THEN "csw" ELSE "data"]

FetchCsw ==
  /\ host.stage = "csw"
  /\ CanFetch
  /\ dev' = Fetched
  /\ host' = [host EXCEPT !.stage = IF dev.status = "phase_error" THEN "recover" ELSE "idle"]

(* CLEAR_FEATURE(ENDPOINT_HALT): not effective for a halt on condition. *)
ClearIn(d) == IF d.in.halt < HS_HALTED_ON_CONDITION THEN ResetIn(d) ELSE d
ClearOut(d) ==
  IF d.out.halt < HS_HALTED_ON_CONDITION THEN [d EXCEPT !.out = OutDefault] ELSE d

(* The host sees a STALL: it clears it and goes on to the CSW, which it tries
   twice before it does a reset recovery. *)
SeeStall ==
  LET out == host.stage = "data" /\ host.dir = "out"
  IN  /\ host.stage \in {"data", "csw"}
      /\ IF out THEN dev.out.halt # HS_NONE ELSE dev.in.halt # HS_NONE
      /\ IF host.stage = "csw" /\ host.retried
         THEN /\ dev' = dev
              /\ host' = [host EXCEPT !.stage = "recover"]
         ELSE /\ dev' = IF out THEN ClearOut(dev) ELSE ClearIn(dev)
              /\ host' = [host EXCEPT !.stage = "csw", !.retried = host.stage = "csw"]

(* Reset recovery: MSC_RESET, then both halts cleared. *)
Recover ==
  \/ /\ host.stage = "recover"
     /\ dev' = Reset(dev)
     /\ host' = [host EXCEPT !.stage = "clear_in"]
  \/ /\ host.stage = "clear_in"
     /\ dev' = ClearIn(dev)
     /\ host' = [host EXCEPT !.stage = "clear_out"]
  \/ /\ host.stage = "clear_out"
     /\ dev' = ClearOut(dev)
     /\ host' = [host EXCEPT !.stage = "idle"]

(* The host times out. *)
GiveUp ==
  /\ host.stage \in {"data", "csw"}
  /\ host' = [host EXCEPT !.stage = "recover"]
  /\ UNCHANGED dev

(* SET_CONFIGURATION *)
Configure ==
  /\ dev' = [Reset(dev) EXCEPT !.disabled = FALSE]
  /\ host' = [host EXCEPT !.stage = "idle"]

(* A PICOBOOT command takes the disk away, with or without ejecting it, or
   gives it back. *)
Exclusive(on, eject) ==
  /\ eject => on
  /\ dev' = [dev EXCEPT !.disabled = on, !.ejected = @ \/ eject]
  /\ UNCHANGED host

WatchdogFires == dev.rebooting /\ dev' = InitDevice /\ host' = InitHost

Commands ==
  \E k \in Kinds, dir \in Dirs, len \in 0..MaxLength, b \in 0..MaxBlocks :
    SendCommand(k, dir, len, b)

HostMoves ==
  (\E b \in Uf2Blocks \cup {OtherBlock} : SendData(b)) \/ FetchData \/ FetchCsw \/ SeeStall \/ Recover

Next ==
  \/ Running /\ (Commands \/ HostMoves \/ GiveUp \/ Configure
               \/ \E on, eject \in BOOLEAN : Exclusive(on, eject))
  \/ WatchdogFires

Spec == Init /\ [][Next]_vars

(* The host keeps asking until its command has ended; the watchdog fires. *)
LiveSpec == Spec /\ WF_vars(Running /\ HostMoves) /\ WF_vars(WatchdogFires)

-----------------------------------------------------------------------------
(* Every variable holds a value of its type. *)
TypeOK ==
  /\ dev \in Device
  /\ host \in [stage : {"idle", "data", "csw", "recover", "clear_in", "clear_out"},
               kind : Kinds, dir : Dirs, len : 0..MaxLength, left : 0..MaxLength,
               moved : 0..MaxLength, tag : {0, 1}, retried : BOOLEAN,
               claim : {"right", "wrong", "other"}]

(* usb_start_transfer finds no transfer on the endpoint: _msc_send_csw, the
   responses and _tf_wait_command come one after the other, whatever the host
   clears in between. *)
AssertsHold == dev.fault = "none"

(* An image is begun only by a page that resets the chip: no block that is
   ignored, by a disk taken away or for its size, leaves one behind ("doing
   this would modify our state"). *)
NoImageLeft == dev.uf2.num # 0 <=> dev.rebooting

(* What the status block will say, whatever is left of the data phase. *)
Told(d, h) ==
  /\ d.tag = h.tag
  /\ h.moved + h.left = h.len
  /\ h.claim = "right" => ~d.partial /\ (h.kind = "tur" \/ d.status = "passed")
  /\ h.claim = "wrong" => d.status = "phase_error"
  /\ d.status = "failed" => d.sense

(* Between commands. *)
Ready(d) == d.out = OutDefault /\ d.in = InIdle /\ ~d.onUnstall

(* A response waits to be fetched. *)
Responding(d, h) ==
  /\ h.stage = "data" /\ h.dir = "in" /\ h.moved = 0
  /\ d.out = OutIdle(HS_NONE) /\ ~d.onUnstall /\ d.size = ResponseUnits
  /\ d.in = InWaits("response")
  /\ d.residue = h.left - ResponseUnits
  /\ d.stallDir = IF d.residue = 0 THEN "none" ELSE "in"
  /\ h.claim = "right" => d.residue = 0

(* k packets are left of a sector transfer in direction dir: no more than
   what is left of the data, and if there is more than that a stall follows. *)
Streaming(d, h, dir, k) ==
  /\ d.size = PacketUnits
  /\ d.stallDir \in {"none", dir}
  /\ PacketUnits * k <= d.residue
  /\ PacketUnits * k < d.residue => d.stallDir = dir
  /\ d.offset + k <= MaxPackets
  /\ h.claim = "right" => PacketUnits * k = d.residue /\ (d.offset + k) % SectorPackets = 0

Reading(d, h) ==
  /\ h.stage = "data" /\ h.dir = "in"
  /\ d.out = OutIdle(HS_NONE) /\ ~d.onUnstall
  /\ d.in.xfer = "stream" /\ d.in.halt = HS_NONE
  /\ d.in.ready > 0 /\ (d.in.left > 0 => d.in.ready = 2)
  /\ d.residue = h.left - PacketUnits * d.in.ready
  /\ Streaming(d, h, "in", d.in.left)

Writing(d, h) ==
  /\ h.stage = "data" /\ h.dir = "out"
  /\ d.in = InIdle /\ ~d.onUnstall
  /\ d.out.xfer = "stream" /\ d.out.halt = HS_NONE /\ d.out.left > 0
  /\ d.residue = h.left
  /\ Streaming(d, h, "out", d.out.left)
  /\ d.stallDir = "out" /\ PacketUnits * d.out.left = d.residue => d.status = "phase_error"

(* The CSW waits to be fetched; data that the host still has is stalled. *)
Answering(d, h) ==
  /\ d.in = InWaits("csw")
  /\ d.residue = h.left /\ ~d.onUnstall
  /\ h.claim = "right" => d.residue = 0
  /\ \/ h.stage = "data" /\ h.dir = "out" /\ d.out = OutIdle(HS_HALTED)
     \/ h.stage = "csw" /\ d.out \in {OutIdle(HS_NONE), OutDefault}
     \/ h.stage = "csw" /\ d.out = OutIdle(HS_HALTED) /\ d.status = "phase_error"

(* The CSW waits for the host to end a stall. *)
Stalling(d, h) ==
  /\ d.in = [InIdle EXCEPT !.halt = HS_HALTED]
  /\ d.out = OutIdle(HS_NONE)
  /\ d.residue = h.left /\ d.onUnstall
  /\ h.claim = "right" => d.residue = 0
  /\ h.stage = "csw" \/ (h.stage = "data" /\ h.dir = "in")

(* Both endpoints refuse until the reset recovery. *)
Refusing(d, h) ==
  /\ h.stage = "csw" /\ ~d.onUnstall
  /\ d.in = [InIdle EXCEPT !.halt = HS_HALTED_ON_CONDITION]
  /\ d.out = OutIdle(HS_HALTED_ON_CONDITION)

(* Where the device is while the host waits for data or for the CSW. *)
InCommand(d, h) ==
  \/ Refusing(d, h)
  \/ /\ Told(d, h)
     /\ \/ Responding(d, h) \/ Reading(d, h) \/ Writing(d, h)
        \/ Answering(d, h) \/ Stalling(d, h)

Phases(d, h) ==
  /\ h.stage \in {"idle", "clear_in", "clear_out"} => Ready(d)
  /\ h.stage \in {"data", "csw"} => InCommand(d, h)

(* Device and host are in the same phase of the command, with the transfer,
   the residue and the stall to come that belong to it.  No assertion of the
   transfer code fails, nor that of the size of an image
   (virtual_disk.c:513). *)
MscInv ==
  TypeOK /\ AssertsHold /\ NoImageLeft /\ (~dev.rebooting => Phases(dev, host))

CswOffered == ~dev.rebooting /\ dev.in.xfer = "csw" /\ CanFetch

(* A CSW answers the command block the host sent last, and tells how much of
   the data it expected has not moved ("we may send less than
   dwTransferLength, but residue will be correct"). *)
CswMatches ==
  CswOffered /\ host.stage = "csw" =>
    /\ dev.tag = host.tag
    /\ dev.residue = host.len - host.moved

(* The host never takes a CSW for data, data for a CSW, and its data never
   arrives where the device waits for a command block: the data phase is cut
   short by a STALL. *)
PhasesAgree ==
  ~dev.rebooting =>
    /\ host.stage = "data" => IF host.dir = "in" THEN ~CswOffered ELSE dev.out.xfer # "cmd"
    /\ host.stage = "csw" /\ CanFetch => dev.in.xfer = "csw"

(* The status tells what became of the command: one whose data phase the host
   describes right moves all its data and passes (unless it is TEST UNIT READY
   of an ejected medium), and the disk gets whole sectors only; a READ or WRITE that needs more room than the host
   has, or goes the other way, is a phase error, not something to try again
   without a reset; one that failed leaves sense data that says why. *)
StatusRight ==
  CswOffered /\ host.stage = "csw" =>
    /\ host.claim = "right" =>
         /\ dev.residue = 0 /\ ~dev.partial
         /\ host.kind = "tur" \/ dev.status = "passed"
    /\ host.claim = "wrong" => dev.status = "phase_error"
    /\ dev.status = "failed" => dev.sense

(* Between commands the device waits for one. *)
ReadyForCommand ==
  host.stage = "idle" /\ ~dev.rebooting => Ready(dev)

(* Every command ends, if need be by a reset recovery. *)
CommandsEnd == host.stage # "idle" ~> host.stage = "idle"
=============================================================================
