------------------------------ MODULE MscProofs ------------------------------
(***************************************************************************)
(* Mass storage: device and host keep in phase, for every size of a        *)
(* sector, every number of blocks and every length a host may claim.  The  *)
(* lemmas follow the operators of Msc: the end of a data phase, the packets *)
(* of a sector transfer, the commands, and then the actions.               *)
(***************************************************************************)
EXTENDS Msc, TLAPS

Host ==
  [stage : {"idle", "data", "csw", "recover", "clear_in", "clear_out"},
   kind : Kinds, dir : Dirs, len : 0..MaxLength, left : 0..MaxLength,
   moved : 0..MaxLength, tag : {0, 1}, retried : BOOLEAN,
   claim : {"right", "wrong", "other"}]

USE DEF HS_NONE, HS_HALTED, HS_HALTED_ON_CONDITION, PacketUnits, ResponseUnits

LEMMA Bounds ==
  /\ MaxPackets \in Nat \ {0} /\ MaxLength \in Nat /\ MaxBlocks \in Nat \ {0}
  /\ SectorPackets \in Nat \ {0}
BY SectorPacketsAssumption, BoundsAssumption, SMTT(20) DEF MaxPackets

(* The types of the fields, by name. *)
OutType == [xfer : Transfers, left : 0..MaxPackets, halt : 0..3]
InType == [xfer : Transfers, left : 0..MaxPackets, ready : 0..2, halt : 0..3]
Uf2Type == [num : 0..TooMany, ram : BOOLEAN]
Lengths == 0..MaxLength
Packets == 0..MaxPackets
Ways == Dirs \cup {"none"}
Faults == {"none", "already_running", "too_many"}

LEMMA DeviceShape ==
  Device = [out : OutType, in : InType, size : 0..2, offset : Packets, tag : {0, 1},
            residue : Lengths, status : Statuses, sense : BOOLEAN, stallDir : Ways,
            onUnstall : BOOLEAN, ejected : BOOLEAN, rebooting : BOOLEAN,
            disabled : BOOLEAN, uf2 : Uf2Type, partial : BOOLEAN, fault : Faults]
BY Zenon DEF Device, OutType, InType, Uf2Type, Faults, Lengths, Packets, Ways

(* What the type of the device says of its fields. *)
LEMMA DeviceParts ==
  ASSUME NEW d \in Device
  PROVE  /\ d.out \in OutType /\ d.in \in InType /\ d.uf2 \in Uf2Type
         /\ d.out.left \in Packets /\ d.in.left \in Packets /\ d.in.ready \in 0..2
         /\ d.in.halt \in 0..3 /\ d.out.halt \in 0..3
         /\ d.in.xfer \in Transfers /\ d.out.xfer \in Transfers
         /\ d.size \in 0..2 /\ d.offset \in Packets
         /\ d.tag \in {0, 1} /\ d.residue \in Lengths /\ d.status \in Statuses
         /\ d.sense \in BOOLEAN /\ d.stallDir \in Ways /\ d.onUnstall \in BOOLEAN
         /\ d.ejected \in BOOLEAN /\ d.rebooting \in BOOLEAN /\ d.disabled \in BOOLEAN
         /\ d.uf2.num \in 0..TooMany /\ d.uf2.ram \in BOOLEAN /\ d.partial \in BOOLEAN
         /\ d.fault \in Faults
<1>1. /\ d.out \in OutType /\ d.in \in InType /\ d.uf2 \in Uf2Type
      /\ d.size \in 0..2 /\ d.offset \in Packets
      /\ d.tag \in {0, 1} /\ d.residue \in Lengths /\ d.status \in Statuses
      /\ d.sense \in BOOLEAN /\ d.stallDir \in Ways /\ d.onUnstall \in BOOLEAN
      /\ d.ejected \in BOOLEAN /\ d.rebooting \in BOOLEAN /\ d.disabled \in BOOLEAN
      /\ d.partial \in BOOLEAN /\ d.fault \in Faults
  BY DeviceShape
<1>2. /\ d.out.left \in Packets /\ d.out.halt \in 0..3 /\ d.out.xfer \in Transfers
  BY <1>1 DEF OutType, Packets
<1>3. /\ d.in.left \in Packets /\ d.in.ready \in 0..2 /\ d.in.halt \in 0..3
      /\ d.in.xfer \in Transfers
  BY <1>1 DEF InType, Packets
<1>4. d.uf2.num \in 0..TooMany /\ d.uf2.ram \in BOOLEAN
  BY <1>1 DEF Uf2Type
<1>5. QED BY <1>1, <1>2, <1>3, <1>4

(* An endpoint that is idle, or waits for a command. *)
LEMMA IdleTypes ==
  /\ InIdle \in InType /\ OutDefault \in OutType
  /\ \A halt \in 0..3 : OutIdle(halt) \in OutType
BY Bounds DEF InType, OutType, InIdle, OutIdle, OutDefault, Transfers

(* What the end of a data phase, and the CSW, leave alone. *)
Kept(d, e) ==
  /\ e.tag = d.tag /\ e.residue = d.residue /\ e.status = d.status /\ e.sense = d.sense
  /\ e.partial = d.partial /\ e.fault = d.fault /\ e.uf2 = d.uf2 /\ e.rebooting = d.rebooting

-----------------------------------------------------------------------------
(* A packet is started on an idle endpoint. *)
LEMMA PacketStarted ==
  ASSUME NEW d \in Device, d.in = InIdle, NEW xfer \in Transfers, NEW size \in 0..2
  PROVE  /\ StartPacket(d, xfer, size) = [d EXCEPT !.in = InWaits(xfer), !.size = size]
         /\ [d EXCEPT !.in = InWaits(xfer), !.size = size] \in Device
<1>1. d.in.xfer = "none" /\ d.in.halt = 0 /\ d.in.left = 0 /\ d.in.ready = 0
  BY DEF InIdle
<1>3. StartPacket(d, xfer, size) = [d EXCEPT !.in = InWaits(xfer), !.size = size]
  BY <1>1, DeviceShape DEF StartPacket
<1>4. InWaits(xfer) \in InType
  BY Bounds DEF InWaits, InType
<1>5. [d EXCEPT !.in = InWaits(xfer), !.size = size] \in Device
  BY <1>4, DeviceShape
<1>6. QED BY <1>3, <1>5

(* The CSW is started on an idle endpoint. *)
LEMMA CswSent ==
  ASSUME NEW d \in Device, d.in = InIdle
  PROVE  /\ SendCsw(d) \in Device /\ Kept(d, SendCsw(d))
         /\ SendCsw(d).in = InWaits("csw") /\ SendCsw(d).out = d.out
         /\ SendCsw(d).onUnstall = FALSE
<1> DEFINE a == [d EXCEPT !.onUnstall = FALSE]
<1> DEFINE e == [a EXCEPT !.in = InWaits("csw"), !.size = 0]
<1>1. a \in Device /\ Kept(d, a) /\ a.in = InIdle /\ a.out = d.out /\ a.onUnstall = FALSE
  BY DeviceShape DEF Kept
<1>2. SendCsw(d) = StartPacket(a, "csw", 0)
  BY DEF SendCsw
<1> HIDE DEF a
<1>3. "csw" \in Transfers /\ 0 \in 0..2
  BY DEF Transfers
<1>4. StartPacket(a, "csw", 0) = e /\ e \in Device
  BY <1>1, <1>3, PacketStarted
<1>5. Kept(a, e) /\ e.in = InWaits("csw") /\ e.out = a.out /\ e.onUnstall = a.onUnstall
  BY <1>1, DeviceShape DEF Kept
<1> HIDE DEF e
<1>6. QED BY <1>1, <1>2, <1>4, <1>5 DEF Kept

-----------------------------------------------------------------------------
(* The data phase is over: the transfers are, and what the host still expects
   is the residue, with the stall that belongs to it. *)
Finished(d, h) ==
  /\ d \in Device /\ d.fault = "none" /\ Told(d, h)
  /\ d.in = InIdle /\ d.out = OutIdle(HS_NONE) /\ ~d.onUnstall
  /\ h.stage \in {"data", "csw"} /\ d.residue = h.left
  /\ h.claim = "right" => d.residue = 0
  /\ h.stage = "data" => d.stallDir = h.dir /\ h.dir \in Dirs
  /\ h.stage = "csw" /\ d.stallDir = "out" => d.status = "phase_error"

(* The CSW goes out, at once or when the host has ended the stall. *)
LEMMA CompleteWell ==
  ASSUME NEW d, NEW h, Finished(d, h)
  PROVE  /\ DataPhaseComplete(d) \in Device /\ Kept(d, DataPhaseComplete(d))
         /\ InCommand(DataPhaseComplete(d), h)
<1> DEFINE e == DataPhaseComplete(d)
<1>0. d \in Device
  BY DEF Finished
<1>1. CASE d.stallDir = "in"
  <2> DEFINE i == [InIdle EXCEPT !.halt = HS_HALTED]
  <2>1. e = [d EXCEPT !.stallDir = "none", !.onUnstall = TRUE, !.in = i]
    <3>1. d.in = InIdle /\ d.in.halt = 0 /\ Stalled(0, HS_HALTED) = HS_HALTED
      BY DEF Finished, InIdle, Stalled
    <3>2. e = [d EXCEPT !.stallDir = "none", !.onUnstall = TRUE, !.in.halt = HS_HALTED]
      BY <1>0, <1>1, <3>1, DeviceShape DEF DataPhaseComplete
    <3>3. [d EXCEPT !.in.halt = HS_HALTED] = [d EXCEPT !.in = [d.in EXCEPT !.halt = HS_HALTED]]
      BY <1>0, DeviceShape
    <3>4. QED BY <1>0, <3>1, <3>2, DeviceShape
  <2>2. i \in InType
    BY Bounds DEF InIdle, InType, Transfers
  <2> HIDE DEF i
  <2>3. e \in Device
    BY <1>0, <2>1, <2>2, DeviceShape DEF Ways
  <2>4. Kept(d, e) /\ e.in = i /\ e.out = d.out /\ e.onUnstall
    BY <1>0, <2>1, DeviceShape DEF Kept
  <2> HIDE DEF e
  <2>5. Told(e, h)
    BY <2>4 DEF Kept, Told, Finished
  <2>6. Stalling(e, h)
    BY <1>1, <2>4 DEF Stalling, Finished, Kept, i
  <2>7. InCommand(e, h)
    BY <2>5, <2>6 DEF InCommand
  <2>8. QED BY <2>3, <2>4, <2>7 DEF e
<1>2. CASE d.stallDir # "in"
  <2> DEFINE o == IF d.stallDir = "out" THEN OutIdle(HS_HALTED) ELSE d.out
  <2> DEFINE a == [d EXCEPT !.stallDir = "none", !.out = o]
  <2>1. e = SendCsw(a)
    <3>1. d.out = OutIdle(HS_NONE) /\ d.out.halt = 0 /\ Stalled(0, HS_HALTED) = HS_HALTED
      BY DEF Finished, OutIdle, Stalled
    <3>2. [OutIdle(HS_NONE) EXCEPT !.halt = HS_HALTED] = OutIdle(HS_HALTED)
      BY DEF OutIdle
    <3>3. CASE d.stallDir = "out"
      <4>1. e = SendCsw([d EXCEPT !.stallDir = "none", !.out.halt = HS_HALTED])
        BY <1>2, <3>1, <3>3 DEF DataPhaseComplete
      <4>2. [d EXCEPT !.stallDir = "none", !.out.halt = HS_HALTED]
              = [d EXCEPT !.stallDir = "none", !.out = [d.out EXCEPT !.halt = HS_HALTED]]
        BY <1>0, DeviceShape
      <4>3. QED BY <3>1, <3>2, <3>3, <4>1, <4>2
    <3>4. CASE d.stallDir # "out"
      <4>1. e = SendCsw([d EXCEPT !.stallDir = "none", !.out.halt = @])
        BY <1>2, <3>4 DEF DataPhaseComplete
      <4>2. [d EXCEPT !.stallDir = "none", !.out.halt = @] = a
        <5>1. [d.out EXCEPT !.halt = @] = d.out
          BY <3>1 DEF OutIdle
        <5>2. [d EXCEPT !.stallDir = "none", !.out.halt = @]
                = [d EXCEPT !.stallDir = "none", !.out = [d.out EXCEPT !.halt = @]]
          BY <1>0, DeviceShape
        <5>3. QED BY <3>4, <5>1, <5>2
      <4>3. QED BY <4>1, <4>2
    <3>5. QED BY <3>3, <3>4
  <2>2. o \in OutType
    BY <1>0, IdleTypes, DeviceParts
  <2> HIDE DEF o
  <2>3. a \in Device
    BY <1>0, <2>2, DeviceShape DEF Ways
  <2>4. Kept(d, a) /\ a.in = InIdle /\ a.out = o
    BY <1>0, DeviceShape DEF Kept, Finished
  <2> HIDE DEF a, e
  <2>5. /\ e \in Device /\ Kept(a, e) /\ e.in = InWaits("csw") /\ e.out = o
        /\ e.onUnstall = FALSE
    BY <2>1, <2>3, <2>4, CswSent
  <2>6. Kept(d, e)
    BY <2>4, <2>5 DEF Kept
  <2>7. Told(e, h)
    BY <2>6 DEF Kept, Told, Finished
  <2>8. Answering(e, h)
    BY <1>2, <2>5, <2>6 DEF Answering, Finished, Kept, o, Dirs
  <2>9. InCommand(e, h)
    BY <2>7, <2>8 DEF InCommand
  <2>10. QED BY <2>5, <2>6, <2>9 DEF e
<1>3. QED BY <1>1, <1>2

-----------------------------------------------------------------------------
(* What a packet of a sector transfer leaves alone. *)
SameCommand(d, e) ==
  /\ e.tag = d.tag /\ e.status = d.status /\ e.sense = d.sense /\ e.stallDir = d.stallDir
  /\ e.onUnstall = d.onUnstall /\ e.size = d.size /\ e.fault = d.fault /\ e.uf2 = d.uf2
  /\ e.rebooting = d.rebooting

LEMMA PacketMoved ==
  ASSUME NEW d \in Device, NEW last \in BOOLEAN, d.offset < MaxPackets, d.residue >= 2
  PROVE  LET e == NextPacket(d, last)
         IN  /\ e \in Device /\ SameCommand(d, e) /\ e.out = d.out /\ e.in = d.in
             /\ e.offset = d.offset + 1 /\ e.residue = d.residue - 2
             /\ e.partial <=> (last /\ (d.offset + 1) % SectorPackets # 0)
<1> DEFINE n == [d EXCEPT !.offset = @ + 1, !.residue = @ - 2]
<1> DEFINE p == last /\ n.offset % SectorPackets # 0
<1> DEFINE e == [n EXCEPT !.partial = p]
<1>1. NextPacket(d, last) = e
  BY DEF NextPacket
<1>2. n \in Device
  <2>1. d.offset + 1 \in Packets /\ d.residue - 2 \in Lengths
    BY DeviceParts, Bounds DEF Packets, Lengths
  <2>2. QED BY <2>1, DeviceShape
<1>3. /\ SameCommand(d, n) /\ n.out = d.out /\ n.in = d.in
      /\ n.offset = d.offset + 1 /\ n.residue = d.residue - 2
  BY DeviceShape DEF SameCommand
<1> HIDE DEF n
<1>4. p \in BOOLEAN
  OBVIOUS
<1>5. p <=> (last /\ (d.offset + 1) % SectorPackets # 0)
  BY <1>3
<1> HIDE DEF p
<1>6. e \in Device
  BY <1>2, <1>4, DeviceShape
<1>7. /\ SameCommand(n, e) /\ e.out = n.out /\ e.in = n.in
      /\ e.offset = n.offset /\ e.residue = n.residue /\ e.partial = p
  BY <1>2, <1>4, DeviceShape DEF SameCommand
<1> HIDE DEF e
<1>8. QED BY <1>1, <1>3, <1>5, <1>6, <1>7 DEF SameCommand

(* A READ whose buffers may have room. *)
Fillable(d, h) ==
  /\ d \in Device /\ d.fault = "none" /\ Told(d, h)
  /\ h.stage = "data" /\ h.dir = "in"
  /\ d.out = OutIdle(HS_NONE) /\ ~d.onUnstall
  /\ d.in.xfer = "stream" /\ d.in.halt = HS_NONE
  /\ d.residue = h.left - PacketUnits * d.in.ready
  /\ Streaming(d, h, "in", d.in.left)

Filled(d, e) ==
  /\ e.in.left <= d.in.left /\ e.in.ready >= d.in.ready
  /\ IF d.in.left > 0 /\ d.in.ready < 2 THEN e.in.ready = d.in.ready + 1
     ELSE e.in.left = d.in.left /\ e.in.ready = d.in.ready
  /\ e.uf2 = d.uf2 /\ e.rebooting = d.rebooting

LEMMA FillOneWell ==
  ASSUME NEW d, NEW h, Fillable(d, h), h.left \in Nat
  PROVE  Fillable(FillOne(d), h) /\ Filled(d, FillOne(d))
<1>0. d \in Device
  BY DEF Fillable
<1> DEFINE left == d.in.left
<1> DEFINE ready == d.in.ready
<1>1. left \in Packets /\ ready \in 0..2 /\ d.in \in InType /\ d.residue \in Nat /\ d.offset \in Nat
  BY <1>0, DeviceParts, Bounds DEF Packets, Lengths
<1>2. CASE left > 0 /\ ready < 2
  <2> DEFINE a == [d EXCEPT !.in.left = @ - 1, !.in.ready = @ + 1]
  <2> DEFINE e == NextPacket(a, left = 1)
  <2>1. FillOne(d) = e
    BY <1>2 DEF FillOne, Fillable
  <2>2. a \in Device
    <3>1. left - 1 \in Packets /\ ready + 1 \in 0..2
      BY <1>1, <1>2, Bounds DEF Packets
    <3>2. \A x \in Packets, y \in 0..2 : [d EXCEPT !.in.left = x, !.in.ready = y] \in Device
      <4>1. \A x \in Packets, y \in 0..2 : [d.in EXCEPT !.left = x, !.ready = y] \in InType
        BY <1>1 DEF InType, Packets
      <4>2. \A x, y : [d EXCEPT !.in.left = x, !.in.ready = y]
                      = [d EXCEPT !.in = [d.in EXCEPT !.left = x, !.ready = y]]
        BY <1>0, DeviceShape
      <4>3. \A i \in InType : [d EXCEPT !.in = i] \in Device
        BY <1>0, DeviceShape
      <4>4. QED
        <5> TAKE x \in Packets, y \in 0..2
        <5> DEFINE i == [d.in EXCEPT !.left = x, !.ready = y]
        <5>1. i \in InType
          BY <4>1
        <5>2. [d EXCEPT !.in.left = x, !.in.ready = y] = [d EXCEPT !.in = i]
          BY <4>2
        <5> HIDE DEF i
        <5>3. [d EXCEPT !.in = i] \in Device
          BY <4>3, <5>1
        <5>4. QED BY <5>2, <5>3
    <3>3. QED BY <3>1, <3>2
  <2>3. /\ SameCommand(d, a) /\ a.out = d.out /\ a.offset = d.offset /\ a.residue = d.residue
        /\ a.in.left = left - 1 /\ a.in.ready = ready + 1 /\ a.in.xfer = d.in.xfer
        /\ a.in.halt = d.in.halt
    BY <1>0, <1>1, DeviceShape DEF SameCommand, InType
  <2>4. a.offset < MaxPackets /\ a.residue >= 2 /\ (left = 1) \in BOOLEAN
    BY <1>1, <1>2, <2>3, Bounds DEF Fillable, Streaming, Packets
  <2> HIDE DEF a
  <2>5. /\ e \in Device /\ SameCommand(a, e) /\ e.out = a.out /\ e.in = a.in
        /\ e.offset = a.offset + 1 /\ e.residue = a.residue - 2
        /\ e.partial <=> (left = 1 /\ (a.offset + 1) % SectorPackets # 0)
    BY <2>2, <2>4, PacketMoved
  <2> HIDE DEF e
  <2>6. Filled(d, e)
    BY <1>1, <1>2, <2>3, <2>5, Bounds DEF Filled, SameCommand, Packets
  <2>7. Streaming(e, h, "in", e.in.left)
    <3>1. e.in.left = left - 1 /\ e.offset + e.in.left = d.offset + left
      BY <1>1, <2>3, <2>5, Bounds DEF Packets
    <3>2. e.residue = d.residue - 2 /\ e.size = d.size /\ e.stallDir = d.stallDir
      BY <2>3, <2>5 DEF SameCommand
    <3>3. QED BY <1>1, <1>2, <3>1, <3>2, Bounds DEF Streaming, Fillable, Packets
  <2>8. Told(e, h)
    <3>1. h.claim = "right" => ~e.partial
      <4> SUFFICES ASSUME h.claim = "right", left = 1 PROVE (d.offset + 1) % SectorPackets = 0
        BY <2>3, <2>5
      <4>1. QED BY DEF Fillable, Streaming
    <3>2. QED BY <2>3, <2>5, <3>1 DEF Told, Fillable, SameCommand
  <2>9. e.residue = h.left - PacketUnits * e.in.ready
    BY <1>1, <2>3, <2>5 DEF Fillable
  <2>10. Fillable(e, h)
    BY <2>3, <2>5, <2>7, <2>8, <2>9 DEF Fillable, SameCommand
  <2>11. QED BY <2>1, <2>6, <2>10
<1>3. CASE ~(left > 0 /\ ready < 2)
  <2>1. FillOne(d) = d
    BY <1>3 DEF FillOne
  <2>2. QED BY <1>1, <1>3, <2>1, Bounds DEF Filled, Packets
<1>4. QED BY <1>2, <1>3

(* With a packet in a buffer, or one left to fill, both buffers are filled as
   far as the transfer goes. *)
LEMMA FillWell ==
  ASSUME NEW d, NEW h, Fillable(d, h), h.left \in Nat, d.in.left > 0 \/ d.in.ready > 0
  PROVE  LET e == FillIn(d)
         IN  /\ e \in Device /\ e.fault = "none" /\ InCommand(e, h)
             /\ e.uf2 = d.uf2 /\ e.rebooting = d.rebooting
<1> DEFINE a == FillOne(d)
<1> DEFINE e == FillOne(a)
<1>1. Fillable(a, h) /\ Filled(d, a)
  BY FillOneWell
<1> HIDE DEF a
<1>2. Fillable(e, h) /\ Filled(a, e)
  BY <1>1, FillOneWell
<1> HIDE DEF e
<1>3. \A x \in {d, a, e} : x.in.left \in Nat /\ x.in.ready \in 0..2
  BY <1>1, <1>2, DeviceParts, Bounds DEF Fillable, Packets
<1>4. e.in.ready > 0 /\ (e.in.left > 0 => e.in.ready = 2)
  BY <1>1, <1>2, <1>3 DEF Filled
<1>5. Reading(e, h)
  BY <1>2, <1>4 DEF Reading, Fillable
<1>6. InCommand(e, h)
  BY <1>2, <1>5 DEF InCommand, Fillable
<1>7. FillIn(d) = e
  BY DEF FillIn, a, e
<1>8. QED BY <1>1, <1>2, <1>6, <1>7 DEF Filled, Fillable

-----------------------------------------------------------------------------
(* A command of the host's is accepted, and nothing has moved. *)
Begun(d, h) ==
  /\ d \in Device /\ d.fault = "none" /\ d.partial = FALSE /\ d.tag = h.tag
  /\ d.in = InIdle /\ d.out = OutIdle(HS_NONE) /\ d.onUnstall = FALSE
  /\ h.left \in Nat /\ h.dir \in Dirs /\ d.residue = h.left /\ h.len = h.left /\ h.moved = 0
  /\ h.stage = IF h.left > 0 THEN "data" ELSE "csw"

(* What a command makes of it. *)
Well(d, e, h) ==
  /\ e \in Device /\ e.fault = "none" /\ InCommand(e, h)
  /\ e.uf2 = d.uf2 /\ e.rebooting = d.rebooting

LEMMA FinishedWell ==
  ASSUME NEW d, NEW p, NEW h, Finished(p, h), p.uf2 = d.uf2, p.rebooting = d.rebooting
  PROVE  Well(d, DataPhaseComplete(p), h)
BY CompleteWell DEF Well, Kept, Finished

(* Commands without data. *)
LEMMA InitForDnWell ==
  ASSUME NEW d, NEW h, NEW c, Begun(d, h), c.dir = h.dir, c.len = h.len,
         d.status = "failed" => d.sense, h.claim # "wrong",
         h.claim = "right" => h.len = 0 /\ (h.kind = "tur" \/ d.status = "passed")
  PROVE  Well(d, InitForDn(d, c), h)
<1> DEFINE w == IF c.len > 0 THEN c.dir ELSE "none"
<1> DEFINE p == [d EXCEPT !.stallDir = w]
<1>1. InitForDn(d, c) = DataPhaseComplete(p)
  BY DEF InitForDn
<1>2. w \in Ways
  BY DEF Begun, Ways
<1>3. w = IF h.left > 0 THEN h.dir ELSE "none"
  BY DEF Begun
<1> HIDE DEF w
<1>4. /\ p \in Device /\ p.stallDir = w /\ Kept(d, p) /\ p.in = d.in /\ p.out = d.out
      /\ p.onUnstall = d.onUnstall
  BY <1>2, DeviceShape DEF Begun, Kept
<1> HIDE DEF p
<1>5. Told(p, h)
  BY <1>4 DEF Told, Kept, Begun
<1>6. Finished(p, h)
  BY <1>3, <1>4, <1>5 DEF Finished, Kept, Begun, Dirs
<1>7. QED BY <1>1, <1>4, <1>6, FinishedWell DEF Kept

(* What the command and the host disagree on. *)
LEMMA PhaseFound ==
  ASSUME NEW d, NEW h, NEW c, Begun(d, h), c.dir = h.dir, c.len = h.len, d.status = "passed",
         NEW expected \in Nat, NEW dir \in Dirs
  PROVE  LET p == Phase(d, c, expected, dir)
         IN  /\ Begun(p, h) /\ p.uf2 = d.uf2 /\ p.rebooting = d.rebooting
             /\ p.stallDir = IF h.dir # dir THEN h.dir
                             ELSE IF expected # h.len THEN dir ELSE "none"
             /\ p.status = IF h.dir # dir \/ expected > h.len THEN "phase_error" ELSE "passed"
<1> DEFINE w == IF c.dir # dir THEN c.dir ELSE IF expected # c.len THEN dir ELSE "none"
<1> DEFINE s == IF c.dir # dir \/ expected > c.len THEN "phase_error" ELSE "passed"
<1> DEFINE p == [d EXCEPT !.stallDir = w, !.status = s]
<1>1. Phase(d, c, expected, dir) = p
  BY DEF Phase
<1>2. w \in Ways /\ s \in Statuses
  BY DEF Begun, Ways, Statuses
<1>3. /\ w = (IF h.dir # dir THEN h.dir ELSE IF expected # h.len THEN dir ELSE "none")
      /\ s = (IF h.dir # dir \/ expected > h.len THEN "phase_error" ELSE "passed")
  OBVIOUS
<1> HIDE DEF w, s
<1>4. p \in Device /\ p.stallDir = w /\ p.status = s /\ p.uf2 = d.uf2 /\ p.rebooting = d.rebooting
  BY <1>2, DeviceShape DEF Begun
<1>5. Begun(p, h)
  BY <1>4, DeviceShape DEF Begun
<1> HIDE DEF p
<1>6. QED BY <1>1, <1>3, <1>4, <1>5

(* Responses. *)
LEMMA ResponseWell ==
  ASSUME NEW d, NEW h, NEW c, Begun(d, h), c.dir = h.dir, c.len = h.len, d.status = "passed",
         h.claim \in {"right", "other"},
         h.claim = "right" => h.dir = "in" /\ h.len = ResponseUnits
  PROVE  Well(d, StandardResponse(d, c), h)
<1> DEFINE expected == Least(ResponseUnits, c.len)
<1> DEFINE n == DataPhaseLength(c, expected, "in")
<1> DEFINE p == Phase(d, c, expected, "in")
<1>1. StandardResponse(d, c) = IF n = 0 THEN DataPhaseComplete(p)
                               ELSE StartPacket([p EXCEPT !.residue = @ - n], "response", n)
  BY DEF StandardResponse
<1>2. expected = (IF h.left >= 1 THEN 1 ELSE 0) /\ "in" \in Dirs
  BY DEF Least, Begun, Dirs
<1>3. n = IF h.dir = "in" /\ h.left >= 1 THEN 1 ELSE 0
  BY <1>2 DEF DataPhaseLength, Begun, Least
<1> HIDE DEF expected, n
<1>4. /\ Begun(p, h) /\ p.uf2 = d.uf2 /\ p.rebooting = d.rebooting
      /\ p.stallDir = IF h.dir # "in" THEN h.dir ELSE IF expected # h.len THEN "in" ELSE "none"
      /\ p.status = IF h.dir # "in" \/ expected > h.len THEN "phase_error" ELSE "passed"
  <2>1. expected \in Nat
    BY <1>2
  <2>2. QED BY <1>2, <2>1, PhaseFound
<1> HIDE DEF p
<1>5. h.left \in Nat /\ h.dir \in {"in", "out"} /\ h.len = h.left
  BY DEF Begun, Dirs
<1>6. h.claim = "right" => p.status = "passed" /\ n = 1
  BY <1>2, <1>3, <1>4, <1>5
<1>7. CASE n = 0
  <2>1. Told(p, h)
    BY <1>4, <1>6, <1>7 DEF Told, Begun
  <2>2. h.stage = "data" => p.stallDir = h.dir
    BY <1>2, <1>3, <1>4, <1>5, <1>7 DEF Begun
  <2>3. h.stage = "csw" /\ p.stallDir = "out" => p.status = "phase_error"
    BY <1>4
  <2>4. Finished(p, h)
    BY <1>4, <1>6, <1>7, <2>1, <2>2, <2>3 DEF Finished, Begun
  <2>5. QED BY <1>1, <1>4, <1>7, <2>4, FinishedWell
<1>8. CASE n # 0
  <2> DEFINE a == [p EXCEPT !.residue = @ - n]
  <2> DEFINE e == [a EXCEPT !.in = InWaits("response"), !.size = n]
  <2>0. StandardResponse(d, c) = StartPacket(a, "response", n)
    BY <1>1, <1>8
  <2>1. n = 1 /\ h.dir = "in" /\ h.left >= 1
    BY <1>3, <1>8
  <2>2. a \in Device
    <3>1. p.residue - n \in Lengths
      BY <2>1, <1>4, <1>5, DeviceParts, Bounds DEF Begun, Lengths
    <3>2. QED BY <1>4, <3>1, DeviceShape DEF Begun
  <2>3. /\ SameCommand(p, a) /\ a.out = p.out /\ a.in = p.in /\ a.partial = p.partial
        /\ a.residue = h.left - 1
    BY <1>4, <2>1, DeviceShape DEF Begun, SameCommand
  <2> HIDE DEF a
  <2>4. StartPacket(a, "response", n) = e /\ e \in Device
    <3>1. a.in = InIdle /\ "response" \in Transfers /\ n \in 0..2
      BY <1>4, <2>1, <2>3 DEF Begun, Transfers
    <3>2. QED BY <2>2, <3>1, PacketStarted
  <2>5. /\ e.in = InWaits("response") /\ e.size = n /\ e.out = a.out /\ e.onUnstall = a.onUnstall
        /\ e.residue = a.residue /\ e.stallDir = a.stallDir /\ e.tag = a.tag
        /\ e.status = a.status /\ e.sense = a.sense /\ e.partial = a.partial
        /\ e.fault = a.fault /\ e.uf2 = a.uf2 /\ e.rebooting = a.rebooting
    BY <2>2, DeviceShape
  <2> HIDE DEF e
  <2>6. Told(e, h)
    BY <1>4, <1>6, <2>3, <2>5 DEF Told, Begun, SameCommand
  <2>7. Responding(e, h)
    <3>1. e.stallDir = IF e.residue = 0 THEN "none" ELSE "in"
      BY <1>2, <1>4, <1>5, <2>1, <2>3, <2>5 DEF SameCommand
    <3>2. h.claim = "right" => e.residue = 0
      BY <1>5, <2>3, <2>5
    <3>3. QED BY <1>4, <2>1, <2>3, <2>5, <3>1, <3>2 DEF Responding, Begun, SameCommand
  <2>8. Well(d, e, h)
    BY <1>4, <2>3, <2>4, <2>5, <2>6, <2>7 DEF Well, InCommand, Begun, SameCommand
  <2>9. QED BY <2>0, <2>4, <2>8
<1>9. QED BY <1>7, <1>8

(* The packets of a READ or WRITE fit the sector transfers of the largest. *)
LEMMA BlocksFit ==
  ASSUME NEW blocks \in 0..MaxBlocks
  PROVE  /\ blocks * SectorPackets \in 0..MaxPackets
         /\ (blocks * SectorPackets) % SectorPackets = 0
<1>1. blocks * SectorPackets <= SectorPackets * MaxBlocks /\ blocks * SectorPackets \in Nat
  BY Bounds, SMTT(20)
<1>2. (blocks * SectorPackets) % SectorPackets = 0
  BY Bounds, SMTT(20)
<1> DEFINE q == blocks * SectorPackets
<1> HIDE DEF q
<1>3. q \in 0..MaxPackets
  <2>1. q <= MaxPackets /\ q \in Nat
    BY <1>1 DEF MaxPackets, q
  <2>2. QED BY <2>1, Bounds
<1>4. QED BY <1>2, <1>3 DEF q

(* The arithmetic of a data phase in whole packets. *)
LEMMA WholePackets ==
  ASSUME NEW q \in Nat, NEW len \in Nat
  PROVE  LET k == Least(q * 2, len) \div 2
         IN  /\ k \in 0..q /\ 2 * k <= len
             /\ q * 2 = len => k = q
             /\ k = 0 => q = 0 \/ len <= 1
             /\ 2 * k = len /\ q * 2 # len => q * 2 > len
BY DEF Least

(* READ and WRITE *)
LEMMA BlocksWell ==
  ASSUME NEW d, NEW h, NEW c, NEW dir \in Dirs, Begun(d, h), c.dir = h.dir, c.len = h.len,
         d.status = "passed", c.blocks \in 0..MaxBlocks,
         LET right == h.dir = dir /\ h.len = c.blocks * SectorPackets * PacketUnits
             room  == h.dir = dir /\ h.len >= c.blocks * SectorPackets * PacketUnits
         IN  /\ h.claim = "right" => right
             /\ h.claim = "wrong" => ~room
  PROVE  Well(d, ReadOrWriteBlocks(d, c, dir), h)
<1> DEFINE q == c.blocks * SectorPackets
<1> DEFINE expected == q * PacketUnits
<1> DEFINE k == DataPhaseLength(c, expected, dir) \div PacketUnits
<1> DEFINE f == Phase(d, c, expected, dir)
<1> DEFINE p == [f EXCEPT !.offset = 0, !.size = PacketUnits]
<1>1. ReadOrWriteBlocks(d, c, dir)
        = IF k = 0 THEN DataPhaseComplete(p)
          ELSE IF dir = "out" THEN [p EXCEPT !.out = [OutDefault EXCEPT !.xfer = "stream", !.left = k]]
          ELSE IF p.in.xfer # "none" THEN Fails(p, "already_running")
          ELSE FillIn([p EXCEPT !.in.xfer = "stream", !.in.left = k])
  BY DEF ReadOrWriteBlocks
<1>2. q \in 0..MaxPackets /\ q % SectorPackets = 0
  BY BlocksFit
<1>3. /\ h.claim = "right" => h.dir = dir /\ h.len = q * 2
      /\ h.claim = "wrong" => ~(h.dir = dir /\ h.len >= q * 2)
  OBVIOUS
<1> HIDE DEF q
<1>4. k = IF h.dir # dir THEN 0 ELSE Least(q * 2, h.left) \div 2
  BY DEF DataPhaseLength, Begun
<1> HIDE DEF k
<1>5. /\ Begun(f, h) /\ f.uf2 = d.uf2 /\ f.rebooting = d.rebooting
      /\ f.stallDir = IF h.dir # dir THEN h.dir ELSE IF q * 2 # h.len THEN dir ELSE "none"
      /\ f.status = IF h.dir # dir \/ q * 2 > h.len THEN "phase_error" ELSE "passed"
  <2>1. expected \in Nat /\ expected = q * 2
    BY <1>2, Bounds
  <2>2. QED BY <2>1, PhaseFound
<1> HIDE DEF f
<1>6. /\ Begun(p, h) /\ p.uf2 = d.uf2 /\ p.rebooting = d.rebooting
      /\ p.stallDir = f.stallDir /\ p.status = f.status /\ p.offset = 0 /\ p.size = 2
  <2>1. f \in Device /\ 0 \in Packets
    BY <1>5, Bounds DEF Begun, Packets
  <2>2. \A x \in Packets, y \in 0..2 : [f EXCEPT !.offset = x, !.size = y] \in Device
    BY <2>1, DeviceShape
  <2>3. p \in Device
    <3>1. 2 \in 0..2
      OBVIOUS
    <3>2. QED BY <2>1, <2>2, <3>1, Zenon
  <2>4. QED BY <1>5, <2>1, <2>3, DeviceShape DEF Begun
<1> HIDE DEF p
<1>7. h.left \in Nat /\ h.dir \in {"in", "out"} /\ h.len = h.left /\ dir \in {"in", "out"} /\ q \in Nat
  BY <1>2, Bounds DEF Begun, Dirs
<1>8. h.dir = dir =>
        /\ k \in 0..q /\ 2 * k <= h.left
        /\ q * 2 = h.left => k = q
        /\ k = 0 => q = 0 \/ h.left <= 1
        /\ 2 * k = h.left /\ q * 2 # h.left => q * 2 > h.left
  <2> SUFFICES ASSUME h.dir = dir
               PROVE  /\ k \in 0..q /\ 2 * k <= h.left
                      /\ q * 2 = h.left => k = q
                      /\ k = 0 => q = 0 \/ h.left <= 1
                      /\ 2 * k = h.left /\ q * 2 # h.left => q * 2 > h.left
    OBVIOUS
  <2> DEFINE n == Least(q * 2, h.left) \div 2
  <2>1. k = n
    BY <1>4
  <2>2. /\ n \in 0..q /\ 2 * n <= h.left
        /\ q * 2 = h.left => n = q
        /\ n = 0 => q = 0 \/ h.left <= 1
        /\ 2 * n = h.left /\ q * 2 # h.left => q * 2 > h.left
    BY <1>7, WholePackets
  <2> HIDE DEF n
  <2>3. QED BY <2>1, <2>2
<1>9. h.claim = "right" => p.status = "passed" /\ k = q /\ h.left = 2 * k
  BY <1>3, <1>5, <1>6, <1>7, <1>8
<1>10. h.claim = "wrong" => p.status = "phase_error"
  BY <1>3, <1>5, <1>6, <1>7
<1>11. Told(p, h)
  BY <1>5, <1>6, <1>7, <1>9, <1>10 DEF Told, Begun
<1>12. CASE k = 0
  <2>1. h.stage = "data" => p.stallDir = h.dir
    BY <1>5, <1>6, <1>7, <1>8, <1>12 DEF Begun
  <2>2. h.stage = "csw" /\ p.stallDir = "out" => p.status = "phase_error"
    BY <1>5, <1>6, <1>7 DEF Begun
  <2>3. h.claim = "right" => p.residue = 0
    BY <1>6, <1>7, <1>9, <1>12 DEF Begun
  <2>4. Finished(p, h)
    BY <1>6, <1>11, <2>1, <2>2, <2>3 DEF Finished, Begun
  <2>5. Well(d, DataPhaseComplete(p), h)
    BY <1>6, <2>4, FinishedWell
  <2>6. QED BY <1>1, <1>12, <2>5
<1>13. CASE k # 0
  <2>1. /\ h.dir = dir /\ k \in Packets /\ k \in Nat /\ 2 * k <= h.left /\ k > 0 /\ h.stage = "data"
        /\ 2 * k < h.left => p.stallDir = dir
        /\ p.stallDir \in {"none", dir}
        /\ p.stallDir = dir /\ 2 * k = h.left => p.status = "phase_error"
    <3>1. h.dir = dir
      BY <1>4, <1>13
    <3>2. k \in 0..q /\ 2 * k <= h.left
      BY <1>8, <3>1
    <3>3. k \in Packets /\ k \in Nat /\ k > 0
      BY <1>2, <1>13, <3>2, Bounds DEF Packets
    <3>4. h.stage = "data"
      BY <1>7, <3>2, <3>3 DEF Begun
    <3>5. p.stallDir = IF q * 2 # h.left THEN dir ELSE "none"
      BY <1>5, <1>6, <1>7, <3>1
    <3>6. p.status = IF q * 2 > h.left THEN "phase_error" ELSE "passed"
      BY <1>5, <1>6, <1>7, <3>1
    <3>7. 2 * k < h.left => p.stallDir = dir
      BY <1>7, <1>8, <3>1, <3>3, <3>5
    <3>8. p.stallDir = dir /\ 2 * k = h.left => p.status = "phase_error"
      BY <1>7, <1>8, <3>1, <3>5, <3>6
    <3>9. QED BY <3>1, <3>2, <3>3, <3>4, <3>5, <3>7, <3>8
  <2>2. p \in Device /\ p.residue = h.left /\ p.in = InIdle /\ p.in.xfer = "none"
    BY <1>6 DEF Begun, InIdle
  <2>3. h.claim = "right" => 2 * k = p.residue /\ (0 + k) % SectorPackets = 0
    BY <1>2, <1>9, <2>1, <2>2
  <2>4. Streaming(p, h, dir, k)
    BY <1>6, <2>1, <2>2, <2>3, Bounds DEF Streaming, Packets
  <2>5. CASE dir = "out"
    <3> DEFINE o == [OutDefault EXCEPT !.xfer = "stream", !.left = k]
    <3> DEFINE e == [p EXCEPT !.out = o]
    <3>1. /\ o \in OutType /\ o.xfer = "stream" /\ o.left = k /\ o.halt = 0
      <4>1. OutDefault \in OutType /\ "stream" \in Transfers
        BY IdleTypes DEF Transfers
      <4>2. \A x \in Transfers, y \in Packets : [OutDefault EXCEPT !.xfer = x, !.left = y] \in OutType
        BY <4>1 DEF OutType, Packets
      <4>3. o \in OutType
        BY <2>1, <4>1, <4>2
      <4>4. QED BY <4>3 DEF OutDefault
    <3> HIDE DEF o
    <3>2. e \in Device
      BY <2>2, <3>1, DeviceShape
    <3>3. /\ SameCommand(p, e) /\ e.out = o /\ e.in = p.in /\ e.partial = p.partial
          /\ e.residue = p.residue /\ e.offset = p.offset
      BY <2>2, DeviceShape DEF SameCommand
    <3> HIDE DEF e
    <3>4. Told(e, h)
      BY <1>11, <3>3 DEF Told, SameCommand
    <3>5. Streaming(e, h, "out", e.out.left)
      BY <2>4, <2>5, <3>1, <3>3 DEF Streaming, SameCommand
    <3>6. Writing(e, h)
      BY <1>6, <2>1, <2>2, <2>5, <3>1, <3>3, <3>5 DEF Writing, SameCommand, Begun
    <3>7. Well(d, e, h)
      BY <1>6, <3>2, <3>3, <3>4, <3>6 DEF Well, InCommand, SameCommand, Begun
    <3>8. ReadOrWriteBlocks(d, c, dir) = e
      BY <1>1, <1>13, <2>5 DEF e, o
    <3>9. QED BY <3>7, <3>8
  <2>6. CASE dir = "in"
    <3> DEFINE i == [p.in EXCEPT !.xfer = "stream", !.left = k]
    <3> DEFINE e == [p EXCEPT !.in = i]
    <3>1. [p EXCEPT !.in.xfer = "stream", !.in.left = k] = e
      BY <2>2, DeviceShape
    <3>2. i \in InType /\ i.xfer = "stream" /\ i.left = k /\ i.halt = 0 /\ i.ready = 0
      <4>1. InIdle \in InType /\ "stream" \in Transfers
        BY IdleTypes DEF Transfers
      <4>2. \A x \in Transfers, y \in Packets : [InIdle EXCEPT !.xfer = x, !.left = y] \in InType
        BY <4>1 DEF InType, Packets
      <4>3. i \in InType
        BY <2>1, <2>2, <4>1, <4>2
      <4>4. QED BY <2>2, <4>3 DEF InIdle
    <3>3. ReadOrWriteBlocks(d, c, dir) = FillIn(e)
      BY <1>1, <1>13, <2>2, <2>6, <3>1
    <3> HIDE DEF i
    <3>4. e \in Device
      BY <2>2, <3>2, DeviceShape
    <3>5. /\ SameCommand(p, e) /\ e.out = p.out /\ e.in = i /\ e.partial = p.partial
          /\ e.residue = p.residue /\ e.offset = p.offset
      BY <2>2, DeviceShape DEF SameCommand
    <3> HIDE DEF e
    <3>6. Told(e, h)
      BY <1>11, <3>5 DEF Told, SameCommand
    <3>7. Streaming(e, h, "in", e.in.left)
      BY <2>4, <2>6, <3>2, <3>5 DEF Streaming, SameCommand
    <3>8. Fillable(e, h)
      BY <1>6, <1>7, <2>1, <2>2, <2>6, <3>2, <3>4, <3>5, <3>6, <3>7
         DEF Fillable, Begun, SameCommand
    <3>9. /\ FillIn(e) \in Device /\ FillIn(e).fault = "none" /\ InCommand(FillIn(e), h)
          /\ FillIn(e).uf2 = e.uf2 /\ FillIn(e).rebooting = e.rebooting
      BY <1>7, <2>1, <3>2, <3>5, <3>8, FillWell
    <3>10. Well(d, FillIn(e), h)
      BY <1>6, <3>5, <3>9 DEF Well, SameCommand
    <3>11. QED BY <3>3, <3>10
  <2>7. QED BY <1>7, <2>5, <2>6
<1>14. QED BY <1>12, <1>13

-----------------------------------------------------------------------------
(* The fields that a valid command block sets. *)
TakenAs(d, c, a) ==
  /\ a \in Device /\ a.fault = d.fault /\ a.partial = FALSE /\ a.tag = c.tag
  /\ a.in = d.in /\ a.out = OutIdle(HS_NONE) /\ a.onUnstall = d.onUnstall
  /\ a.residue = c.len /\ a.status = "passed" /\ a.uf2 = d.uf2
  /\ a.rebooting = d.rebooting

LEMMA AcceptedParts ==
  ASSUME NEW d \in Device, NEW c, c.tag \in {0, 1}, c.len \in Lengths
  PROVE  TakenAs(d, c, Accepted(d, c))
<1> DEFINE y == IF c.kind = "sense" THEN d.sense ELSE FALSE
<1>1. Accepted(d, c) = [d EXCEPT !.tag = c.tag, !.residue = c.len, !.status = "passed", !.sense = y,
                                 !.partial = FALSE, !.out = OutIdle(HS_NONE)]
  BY DEF Accepted
<1>2. OutIdle(HS_NONE) \in OutType /\ "passed" \in Statuses /\ FALSE \in BOOLEAN
  BY IdleTypes DEF Statuses
<1>3. y \in BOOLEAN
  BY DeviceParts
<1> HIDE DEF y
<1>4. ASSUME NEW t \in {0, 1}, NEW r \in Lengths, NEW s \in Statuses, NEW z \in BOOLEAN,
             NEW p \in BOOLEAN, NEW o \in OutType
      PROVE  [d EXCEPT !.tag = t, !.residue = r, !.status = s, !.sense = z,
                       !.partial = p, !.out = o] \in Device
  BY DeviceShape
<1>5. Accepted(d, c) \in Device
  <2>1. PICK s \in Statuses, p \in BOOLEAN : s = "passed" /\ p = FALSE
    BY <1>2
  <2>2. PICK t \in {0, 1}, r \in Lengths, z \in BOOLEAN, o \in OutType :
          t = c.tag /\ r = c.len /\ z = y /\ o = OutIdle(HS_NONE)
    BY <1>2, <1>3
  <2>3. [d EXCEPT !.tag = t, !.residue = r, !.status = s, !.sense = z,
                  !.partial = p, !.out = o] \in Device
    BY <1>4
  <2>4. QED BY <1>1, <2>1, <2>2, <2>3, Zenon
<1>6. QED BY <1>1, <1>5, DeviceShape DEF TakenAs

(* The command block of a command, and what the host makes of it. *)
SentAs(c, h) ==
  /\ c.kind \in Kinds /\ c.dir \in Dirs /\ c.len \in 0..MaxLength /\ c.blocks \in 0..MaxBlocks
  /\ c.tag \in {0, 1} /\ (c.kind = "bad" => c.len = 0)
  /\ h.kind = c.kind /\ h.dir = c.dir /\ h.len = c.len /\ h.left = c.len /\ h.moved = 0
  /\ h.tag = c.tag /\ h.stage = (IF c.len > 0 THEN "data" ELSE "csw")
  /\ h.claim = Claim(c.kind, c.dir, c.len, c.blocks)

(* What _msc_cmd_packet makes of a command of the host's. *)
LEMMA CommandWell ==
  ASSUME NEW d \in Device, d.fault = "none", Ready(d), NEW c, NEW h, SentAs(c, h)
  PROVE  Well(d, HandleCommand(d, c), h)
<1> DEFINE kind == c.kind
<1> DEFINE dir == c.dir
<1> DEFINE len == c.len
<1> DEFINE b == c.blocks
<1> DEFINE a == Accepted(d, c)
<1> DEFINE e == HandleCommand(d, c)
<1>0. /\ kind \in Kinds /\ dir \in Dirs /\ len \in 0..MaxLength /\ b \in 0..MaxBlocks
      /\ c.tag \in {0, 1} /\ (kind = "bad" => len = 0)
      /\ h.kind = kind /\ h.dir = dir /\ h.len = len /\ h.left = len /\ h.moved = 0
      /\ h.tag = c.tag /\ h.stage = (IF len > 0 THEN "data" ELSE "csw")
      /\ h.claim = Claim(kind, dir, len, b)
  BY DEF SentAs
<1>1. c.kind = kind /\ c.dir = h.dir /\ c.len = h.len /\ c.blocks = b
  BY <1>0
<1> HIDE DEF kind, dir, len, b
<1> USE <1>0
<1>2. /\ Begun(a, h) /\ a.status = "passed" /\ a.uf2 = d.uf2 /\ a.rebooting = d.rebooting
  <2>1. len \in Lengths /\ len \in Nat /\ d.in = InIdle /\ d.onUnstall = FALSE
    BY Bounds, DeviceParts DEF Ready, Lengths
  <2>2. TakenAs(d, c, a)
    BY <1>1, <2>1, AcceptedParts
  <2> HIDE DEF a
  <2>3. QED BY <1>1, <2>1, <2>2 DEF Begun, TakenAs
<1>3. h.claim \in {"right", "wrong", "other"}
  BY DEF Claim
<1> HIDE DEF a
<1>4. CASE kind = "bad"
  <2> DEFINE i == [InIdle EXCEPT !.halt = HS_HALTED_ON_CONDITION]
  <2> DEFINE o == OutIdle(HS_HALTED_ON_CONDITION)
  <2> DEFINE x == [d EXCEPT !.out = o, !.in = i]
  <2>1. e = [d EXCEPT !.out = o, !.in.halt = HS_HALTED_ON_CONDITION]
    BY <1>1, <1>4 DEF HandleCommand
  <2>2. e = x
    <3>1. d.in = InIdle
      BY DEF Ready
    <3>2. [d EXCEPT !.out = o, !.in.halt = HS_HALTED_ON_CONDITION]
            = [d EXCEPT !.out = o, !.in = [d.in EXCEPT !.halt = HS_HALTED_ON_CONDITION]]
      BY DeviceShape
    <3>3. QED BY <2>1, <3>1, <3>2
  <2>3. i \in InType /\ o \in OutType
    <3>1. InIdle \in InType
      BY IdleTypes
    <3>2. \A y \in 0..3 : [InIdle EXCEPT !.halt = y] \in InType
      BY <3>1 DEF InType
    <3>3. QED BY <3>2, IdleTypes
  <2> HIDE DEF i, o
  <2>4. x \in Device /\ SameCommand(d, x) /\ x.in = i /\ x.out = o
    BY <2>3, DeviceShape DEF SameCommand
  <2> HIDE DEF x, e
  <2>5. Refusing(x, h)
    BY <1>4, <2>4 DEF Refusing, SameCommand, Ready, i, o
  <2>6. Well(d, x, h)
    BY <2>4, <2>5 DEF Well, InCommand, SameCommand
  <2>7. QED BY <2>2, <2>6 DEF e
<1>5. CASE kind \in {"none", "tur", "eject", "unknown"}
  <2>1. h.claim # "wrong" /\ (h.claim = "right" => len = 0 /\ kind # "unknown")
    BY <1>5 DEF Claim
  <2>2. ASSUME NEW x, Begun(x, h), x.uf2 = d.uf2, x.rebooting = d.rebooting,
               x.status = "failed" => x.sense,
               x.status = "passed" \/ kind \in {"tur", "unknown"}
        PROVE  Well(d, InitForDn(x, c), h)
    <3>1. h.claim = "right" => h.len = 0 /\ (h.kind = "tur" \/ x.status = "passed")
      BY <2>1, <2>2
    <3>2. Well(x, InitForDn(x, c), h)
      BY <1>1, <2>1, <2>2, <3>1, InitForDnWell
    <3>3. QED BY <2>2, <3>2 DEF Well
  <2>3. kind \in {"tur", "unknown"} => Well(d, FailCmd(a, c), h)
    <3> SUFFICES ASSUME kind \in {"tur", "unknown"} PROVE Well(d, FailCmd(a, c), h)
      OBVIOUS
    <3> DEFINE x == [a EXCEPT !.status = "failed", !.sense = TRUE]
    <3>1. x \in Device
      <4>1. "failed" \in Statuses /\ TRUE \in BOOLEAN /\ a \in Device
        BY <1>2 DEF Statuses, Begun
      <4>2. \A s \in Statuses, y \in BOOLEAN : [a EXCEPT !.status = s, !.sense = y] \in Device
        BY <4>1, DeviceShape
      <4>3. QED BY <4>1, <4>2, Zenon
    <3>2. x.sense /\ x.uf2 = d.uf2 /\ x.rebooting = d.rebooting
      BY <1>2, DeviceShape DEF Begun
    <3>3. Begun(x, h)
      BY <1>2, <3>1, DeviceShape DEF Begun
    <3> HIDE DEF x
    <3>4. Well(d, InitForDn(x, c), h)
      BY <2>2, <3>2, <3>3
    <3>5. QED BY <3>4 DEF FailCmd, x
  <2>4. Well(d, InitForDn(a, c), h)
    <3>1. a.status # "failed"
      BY <1>2
    <3>2. QED BY <1>2, <2>2, <3>1
  <2>5. Well(d, StopUnit(a, c), h)
    <3> DEFINE x == [a EXCEPT !.ejected = TRUE]
    <3>1. x \in Device
      <4>1. \A y \in BOOLEAN : [a EXCEPT !.ejected = y] \in Device
        BY <1>2, DeviceShape DEF Begun
      <4>2. QED BY <4>1
    <3>2. x.uf2 = d.uf2 /\ x.rebooting = d.rebooting /\ x.status = "passed"
      BY <1>2, DeviceShape DEF Begun
    <3>3. Begun(x, h)
      BY <1>2, <3>1, DeviceShape DEF Begun
    <3> HIDE DEF x
    <3>4. x.status # "failed"
      BY <3>2
    <3>5. Well(d, InitForDn(x, c), h)
      BY <2>2, <3>2, <3>3, <3>4
    <3>6. QED BY <3>5 DEF StopUnit, x
  <2>6. CASE kind = "none"
    BY <1>1, <2>4, <2>6 DEF HandleCommand, a
  <2>7. CASE kind = "eject"
    BY <1>1, <2>5, <2>7 DEF HandleCommand, a
  <2>8. CASE kind = "tur"
    <3>1. e = IF a.ejected THEN FailCmd(a, c) ELSE InitForDn(a, c)
      BY <1>1, <2>8 DEF HandleCommand, TestUnitReady, a
    <3>2. QED BY <2>3, <2>4, <2>8, <3>1
  <2>9. CASE kind = "unknown"
    BY <1>1, <2>3, <2>9 DEF HandleCommand, a
  <2>10. QED BY <1>5, <2>6, <2>7, <2>8, <2>9
<1>6. CASE kind \in {"resp", "sense"}
  <2>1. /\ h.claim \in {"right", "other"}
        /\ h.claim = "right" => h.dir = "in" /\ h.len = ResponseUnits
    BY <1>6 DEF Claim
  <2>2. Well(d, StandardResponse(a, c), h)
    <3>1. Well(a, StandardResponse(a, c), h)
      BY <1>1, <1>2, <2>1, ResponseWell
    <3>2. QED BY <1>2, <3>1 DEF Well
  <2>3. Well(d, RequestSense(a, c), h)
    <3> DEFINE x == [a EXCEPT !.sense = FALSE]
    <3>1. x \in Device
      <4>1. \A y \in BOOLEAN : [a EXCEPT !.sense = y] \in Device
        BY <1>2, DeviceShape DEF Begun
      <4>2. QED BY <4>1
    <3>2. x.uf2 = d.uf2 /\ x.rebooting = d.rebooting /\ x.status = "passed"
      BY <1>2, DeviceShape DEF Begun
    <3>3. Begun(x, h)
      BY <1>2, <3>1, DeviceShape DEF Begun
    <3> HIDE DEF x
    <3>4. Well(x, StandardResponse(x, c), h)
      BY <1>1, <2>1, <3>2, <3>3, ResponseWell
    <3>5. QED BY <3>2, <3>4 DEF Well, RequestSense, x
  <2>4. CASE kind = "resp"
    BY <1>1, <2>2, <2>4 DEF HandleCommand, a
  <2>5. CASE kind = "sense"
    BY <1>1, <2>3, <2>5 DEF HandleCommand, a
  <2>6. QED BY <1>6, <2>4, <2>5
<1>7. CASE kind \in {"read", "write"}
  <2> DEFINE way == IF kind = "write" THEN "out" ELSE "in"
  <2>1. way \in Dirs
    BY DEF Dirs
  <2>2. /\ h.claim = "right" => h.dir = way /\ h.len = b * SectorPackets * PacketUnits
        /\ h.claim = "wrong" => ~(h.dir = way /\ h.len >= b * SectorPackets * PacketUnits)
    <3> DEFINE q == b * SectorPackets
    <3>1. q \in Nat
      BY BlocksFit, Bounds
    <3>2. h.claim = IF dir = way /\ len = q * 2 THEN "right"
                    ELSE IF dir # way \/ len < q * 2 THEN "wrong" ELSE "other"
      BY <1>7 DEF Claim
    <3> HIDE DEF q, way
    <3>3. len \in Nat
      BY Bounds
    <3>4. /\ h.claim = "right" => dir = way /\ len = q * 2
          /\ h.claim = "wrong" => ~(dir = way /\ len >= q * 2)
      BY <3>1, <3>2, <3>3
    <3>5. QED BY <3>4 DEF q
  <2> HIDE DEF way
  <2>3. Well(a, ReadOrWriteBlocks(a, c, way), h)
    BY <1>1, <1>2, <2>1, <2>2, BlocksWell
  <2>4. Well(d, ReadOrWriteBlocks(a, c, way), h)
    BY <1>2, <2>3 DEF Well
  <2>5. e = ReadOrWriteBlocks(a, c, way)
    BY <1>1, <1>7 DEF HandleCommand, a, way
  <2>6. QED BY <2>4, <2>5
<1>8. QED BY <1>4, <1>5, <1>6, <1>7 DEF Kinds

-----------------------------------------------------------------------------
(* The block that is handed to the disk, and nothing else of the device. *)
ImageOnly(n, w) ==
  /\ w \in Device /\ w.fault = "none" /\ (w.uf2.num # 0 <=> w.rebooting)
  /\ w.out = n.out /\ w.in = n.in /\ w.size = n.size /\ w.offset = n.offset /\ w.tag = n.tag
  /\ w.residue = n.residue /\ w.status = n.status /\ w.sense = n.sense
  /\ w.stallDir = n.stallDir /\ w.onUnstall = n.onUnstall /\ w.partial = n.partial

LEMMA ImageSet ==
  ASSUME NEW n \in Device, n.fault = "none", NEW u \in Uf2Type, NEW r \in BOOLEAN, u.num # 0 <=> r
  PROVE  ImageOnly(n, [n EXCEPT !.uf2 = u, !.rebooting = r])
<1> DEFINE w == [n EXCEPT !.uf2 = u, !.rebooting = r]
<1>1. w \in Device /\ w.uf2 = u /\ w.rebooting = r /\ w.fault = "none"
  BY DeviceShape
<1>2. /\ w.out = n.out /\ w.in = n.in /\ w.size = n.size /\ w.offset = n.offset /\ w.tag = n.tag
      /\ w.residue = n.residue /\ w.status = n.status /\ w.sense = n.sense
      /\ w.stallDir = n.stallDir /\ w.onUnstall = n.onUnstall /\ w.partial = n.partial
  BY DeviceShape
<1> HIDE DEF w
<1>3. ImageOnly(n, w)
  BY <1>1, <1>2 DEF ImageOnly
<1>4. QED BY <1>3 DEF w

LEMMA WriteWell ==
  ASSUME NEW n \in Device, n.fault = "none", n.uf2.num = 0, n.rebooting = FALSE,
         NEW block \in Uf2Blocks \cup {OtherBlock}
  PROVE  ImageOnly(n, WriteBlock(n, block))
<1>1. CASE ~block.uf2
  BY <1>1 DEF WriteBlock, ImageOnly
<1>2. CASE block.uf2
  <2>1. block \in Uf2Blocks /\ block.num \in 0..TooMany /\ block.ram \in BOOLEAN
    <3>1. block \in Uf2Blocks
      BY <1>2 DEF OtherBlock
    <3>2. QED BY <3>1 DEF Uf2Blocks
  <2>2. WriteBlock(n, block) = UpdateUf2(n, block)
    BY <1>2 DEF WriteBlock
  <2> DEFINE u == [num |-> block.num, ram |-> block.ram]
  <2> DEFINE m == [n EXCEPT !.uf2 = u]
  <2>3. u \in Uf2Type /\ u.num = block.num /\ u.ram = block.ram
    BY <2>1 DEF Uf2Type
  <2>4. NoImage \in Uf2Type /\ NoImage.num = 0
    BY DEF Uf2Type, NoImage, TooMany
  <2>5. ImageOnly(n, [n EXCEPT !.uf2 = NoImage])
    <3>1. ImageOnly(n, [n EXCEPT !.uf2 = NoImage, !.rebooting = n.rebooting])
      BY <2>4, DeviceParts, ImageSet
    <3>2. [n EXCEPT !.uf2 = NoImage, !.rebooting = n.rebooting] = [n EXCEPT !.uf2 = NoImage]
      BY DeviceShape
    <3>3. QED BY <3>1, <3>2
  <2>6. CASE block.num = 0 \/ n.disabled \/ block.num = TooMany
    BY <2>2, <2>5, <2>6 DEF UpdateUf2
  <2>7. CASE ~(block.num = 0 \/ n.disabled \/ block.num = TooMany)
    <3> HIDE DEF u
    <3>1. m \in Device /\ m.uf2 = u
      BY <2>3, DeviceShape
    <3>2. UpdateUf2(n, block) = IF block.ram # m.uf2.ram \/ block.late THEN [m EXCEPT !.uf2 = NoImage]
                                ELSE [m EXCEPT !.rebooting = TRUE]
      <4>1. n.uf2.num # block.num
        BY <2>7
      <4>2. m.uf2.num # TooMany
        BY <2>3, <2>7, <3>1
      <4> HIDE DEF m
      <4>3. QED BY <2>7, <4>1, <4>2 DEF UpdateUf2, m, u
    <3>3. [m EXCEPT !.uf2 = NoImage] = [n EXCEPT !.uf2 = NoImage]
      BY DeviceShape
    <3>4. ImageOnly(n, [n EXCEPT !.uf2 = u, !.rebooting = TRUE])
      <4>1. u.num # 0
        BY <2>3, <2>7
      <4>2. \A r \in BOOLEAN : r => ImageOnly(n, [n EXCEPT !.uf2 = u, !.rebooting = r])
        BY <2>3, <4>1, ImageSet
      <4>3. QED BY <4>2, Zenon
    <3>5. [m EXCEPT !.rebooting = TRUE] = [n EXCEPT !.uf2 = u, !.rebooting = TRUE]
      BY DeviceShape
    <3> HIDE DEF m
    <3>6. QED BY <2>2, <2>5, <3>2, <3>3, <3>4, <3>5
  <2>8. QED BY <2>6, <2>7
<1>3. QED BY <1>1, <1>2

-----------------------------------------------------------------------------
(* Steps that keep a command going, or end one. *)
LEMMA InCommandKept ==
  ASSUME MscInv, ~dev.rebooting, host' \in Host, Well(dev, dev', host')
  PROVE  MscInv'
<1>1. host'.stage \in {"data", "csw"}
  BY DEF Well, InCommand, Refusing, Responding, Reading, Writing, Answering, Stalling
<1>2. Phases(dev, host)'
  BY <1>1 DEF Phases, Well
<1>3. TypeOK' /\ AssertsHold' /\ NoImageLeft'
  BY DEF MscInv, TypeOK, AssertsHold, NoImageLeft, Well, Host
<1>4. QED BY <1>2, <1>3 DEF MscInv

LEMMA OutOfCommand ==
  ASSUME MscInv, host' \in Host, dev' \in Device, dev'.fault = "none",
         dev'.uf2.num # 0 <=> dev'.rebooting,
         host'.stage \notin {"data", "csw"},
         host'.stage = "recover" \/ Ready(dev')
  PROVE  MscInv'
<1>1. Phases(dev, host)'
  BY DEF Phases
<1>2. TypeOK' /\ AssertsHold' /\ NoImageLeft'
  BY DEF TypeOK, AssertsHold, NoImageLeft, Host
<1>3. QED BY <1>1, <1>2 DEF MscInv

LEMMA InvParts ==
  ASSUME MscInv, ~dev.rebooting
  PROVE  /\ dev \in Device /\ dev.fault = "none" /\ dev.uf2.num = 0 /\ dev.rebooting = FALSE
         /\ host \in Host /\ Phases(dev, host)
<1>1. dev \in Device /\ dev.fault = "none" /\ host \in Host /\ Phases(dev, host)
  BY DEF MscInv, TypeOK, AssertsHold, Host
<1>2. dev.rebooting = FALSE /\ dev.uf2.num = 0
  BY <1>1, DeviceParts DEF MscInv, NoImageLeft
<1>3. QED BY <1>1, <1>2

LEMMA InitWell ==
  /\ InitDevice \in Device /\ InitHost \in Host /\ Ready(InitDevice)
  /\ InitDevice.uf2.num = 0 /\ InitDevice.rebooting = FALSE /\ InitHost.stage = "idle"
<1>1. InitHost \in Host
  BY Bounds DEF InitHost, Host, Kinds, Dirs
<1>2. NoImage \in Uf2Type /\ NoImage.num = 0
  BY DEF NoImage, Uf2Type, TooMany
<1>3. InitDevice \in Device
  BY <1>2, IdleTypes, DeviceShape, Bounds DEF InitDevice, Statuses, Ways, Faults, Packets, Lengths
<1>4. QED BY <1>1, <1>2, <1>3 DEF InitDevice, InitHost, Ready

-----------------------------------------------------------------------------
(* The host's command block. *)
LEMMA CommandKeeps ==
  ASSUME MscInv, ~dev.rebooting,
         NEW kind \in Kinds, NEW dir \in Dirs, NEW len \in 0..MaxLength, NEW b \in 0..MaxBlocks,
         SendCommand(kind, dir, len, b)
  PROVE  MscInv'
<1> DEFINE tag == 1 - host.tag
<1> DEFINE c == [kind |-> kind, dir |-> dir, len |-> len, blocks |-> b, tag |-> tag]
<1> DEFINE stage == IF len > 0 THEN "data" ELSE "csw"
<1>1. /\ dev \in Device /\ dev.fault = "none" /\ host \in Host /\ Ready(dev)
  BY InvParts DEF SendCommand, Phases
<1>2. tag \in {0, 1}
  BY <1>1 DEF Host
<1> HIDE DEF tag
<1>3. /\ dev' = HandleCommand(dev, c) /\ (kind = "bad" => len = 0)
      /\ host' = [host EXCEPT !.stage = stage, !.kind = kind, !.dir = dir, !.len = len,
                              !.left = len, !.moved = 0, !.tag = tag, !.retried = FALSE,
                              !.claim = Claim(kind, dir, len, b)]
  BY DEF SendCommand, tag
<1>4. /\ host'.kind = kind /\ host'.dir = dir /\ host'.len = len /\ host'.left = len
      /\ host'.moved = 0 /\ host'.tag = tag /\ host'.stage = stage
      /\ host'.claim = Claim(kind, dir, len, b)
  BY <1>1, <1>3 DEF Host
<1>5. host' \in Host
  <2> DEFINE claim == Claim(kind, dir, len, b)
  <2>1. claim \in {"right", "wrong", "other"} /\ stage \in {"data", "csw"} /\ 0 \in 0..MaxLength
    BY Bounds DEF Claim
  <2> HIDE DEF stage, claim
  <2>2. \A m \in 0..MaxLength, r \in BOOLEAN :
          [host EXCEPT !.stage = stage, !.kind = kind, !.dir = dir, !.len = len, !.left = len,
                       !.moved = m, !.tag = tag, !.retried = r, !.claim = claim] \in Host
    BY <1>1, <1>2, <2>1 DEF Host
  <2>3. PICK m \in 0..MaxLength, r \in BOOLEAN : m = 0 /\ r = FALSE
    BY <2>1
  <2>4. [host EXCEPT !.stage = stage, !.kind = kind, !.dir = dir, !.len = len, !.left = len,
                     !.moved = m, !.tag = tag, !.retried = r, !.claim = claim] \in Host
    BY <2>2
  <2>5. QED BY <1>3, <2>3, <2>4, Zenon DEF claim
<1>6. Well(dev, HandleCommand(dev, c), host')
  <2>1. SentAs(c, host')
    BY <1>2, <1>3, <1>4 DEF SentAs
  <2> HIDE DEF c
  <2>2. QED BY <1>1, <2>1, CommandWell
<1> HIDE DEF c
<1>7. Well(dev, dev', host')
  BY <1>3, <1>6
<1>8. QED BY <1>5, <1>7, InCommandKept

(* A packet of the host's data. *)
LEMMA SendDataKeeps ==
  ASSUME MscInv, ~dev.rebooting, NEW block \in Uf2Blocks \cup {OtherBlock}, SendData(block)
  PROVE  MscInv'
<1> DEFINE last == dev.out.left = 1
<1> DEFINE a == [dev EXCEPT !.out.left = @ - 1]
<1> DEFINE n == NextPacket(a, last)
<1> DEFINE w == WriteBlock(n, block)
<1> DEFINE units == Least(PacketUnits, host.left)
<1>1. /\ host.stage = "data" /\ host.dir = "out" /\ dev.out.xfer = "stream"
      /\ dev' = IF w.rebooting THEN [dev EXCEPT !.rebooting = TRUE, !.uf2 = w.uf2]
                ELSE IF w.out.left = 0 THEN DataPhaseComplete([w EXCEPT !.out.xfer = "none"])
                ELSE w
      /\ host' = [host EXCEPT !.left = @ - units, !.moved = @ + units,
                              !.stage = IF host.left = units THEN "csw" ELSE "data"]
  BY DEF SendData
<1>2. /\ dev \in Device /\ dev.fault = "none" /\ dev.uf2.num = 0 /\ dev.rebooting = FALSE
      /\ host \in Host /\ InCommand(dev, host)
  BY <1>1, InvParts DEF Phases
<1>3. Writing(dev, host) /\ Told(dev, host)
  BY <1>1, <1>2 DEF InCommand, Refusing, Responding, Reading, Answering, Stalling, OutIdle
<1> DEFINE left == dev.out.left
<1>4. /\ left \in Packets /\ left \in Nat /\ left > 0 /\ dev.residue = host.left
      /\ 2 * left <= dev.residue /\ dev.offset \in Nat /\ dev.offset + left <= MaxPackets
      /\ host.left \in Nat /\ host.moved \in Nat /\ host.len \in 0..MaxLength
      /\ host.moved + host.left = host.len /\ dev.out \in OutType
  <2>1. /\ left \in Packets /\ left \in Nat /\ dev.offset \in Nat /\ dev.out \in OutType
    BY <1>2, DeviceParts, Bounds DEF Packets
  <2>2. host.left \in Nat /\ host.moved \in Nat /\ host.len \in 0..MaxLength
    BY <1>2, Bounds DEF Host
  <2>3. QED BY <1>3, <2>1, <2>2 DEF Writing, Streaming, Told
<1>5. units = 2
  BY <1>4 DEF Least
<1> HIDE DEF units
<1>6. /\ host'.left = host.left - 2 /\ host'.moved = host.moved + 2 /\ host'.dir = "out"
      /\ host'.stage = (IF host.left = 2 THEN "csw" ELSE "data")
      /\ host'.tag = host.tag /\ host'.len = host.len /\ host'.kind = host.kind
      /\ host'.claim = host.claim /\ host' \in Host
  <2>1. host.left - 2 \in 0..MaxLength /\ host.moved + 2 \in 0..MaxLength
    BY <1>4, Bounds
  <2> DEFINE stage == IF host.left = 2 THEN "csw" ELSE "data"
  <2>2. host' = [host EXCEPT !.left = host.left - 2, !.moved = host.moved + 2, !.stage = stage]
    BY <1>1, <1>5
  <2>3. stage \in {"csw", "data"}
    OBVIOUS
  <2> HIDE DEF stage
  <2>4. host' \in Host
    BY <1>2, <2>1, <2>2, <2>3 DEF Host
  <2>5. QED BY <1>1, <1>2, <2>2, <2>4 DEF Host, stage
<1>7. /\ a \in Device /\ SameCommand(dev, a) /\ a.offset = dev.offset /\ a.residue = dev.residue
      /\ a.in = dev.in /\ a.out.left = left - 1 /\ a.out.xfer = "stream" /\ a.out.halt = 0
  <2>1. left - 1 \in Packets
    BY <1>4, Bounds DEF Packets
  <2>2. \A x \in Packets : [dev EXCEPT !.out.left = x] \in Device
    <3> TAKE x \in Packets
    <3> DEFINE o == [dev.out EXCEPT !.left = x]
    <3>1. o \in OutType
      BY <1>4 DEF OutType, Packets
    <3>2. [dev EXCEPT !.out.left = x] = [dev EXCEPT !.out = o]
      BY <1>2, DeviceShape
    <3> HIDE DEF o
    <3>3. QED BY <1>2, <3>1, <3>2, DeviceShape
  <2>3. a \in Device
    BY <2>1, <2>2
  <2>4. QED BY <1>2, <1>3, <1>4, <2>3, DeviceShape DEF SameCommand, Writing, OutType
<1> HIDE DEF a
<1>8. /\ n \in Device /\ SameCommand(a, n) /\ n.out = a.out /\ n.in = a.in
      /\ n.offset = a.offset + 1 /\ n.residue = a.residue - 2
      /\ n.partial <=> (last /\ (a.offset + 1) % SectorPackets # 0)
  <2>1. a.offset < MaxPackets /\ a.residue >= 2 /\ last \in BOOLEAN
    BY <1>4, <1>7, Bounds
  <2> HIDE DEF last
  <2>2. QED BY <1>7, <2>1, PacketMoved
<1> HIDE DEF n
<1>9. ImageOnly(n, w)
  BY <1>2, <1>7, <1>8, WriteWell DEF SameCommand
<1> HIDE DEF w
<1>10. /\ w \in Device /\ w.fault = "none" /\ w.in = InIdle /\ ~w.onUnstall /\ w.size = 2
       /\ w.out.left = left - 1 /\ w.out.xfer = "stream" /\ w.out.halt = 0
       /\ w.offset = dev.offset + 1 /\ w.residue = host'.left
       /\ w.stallDir = dev.stallDir /\ w.status = dev.status
  BY <1>3, <1>4, <1>6, <1>7, <1>8, <1>9 DEF ImageOnly, SameCommand, Writing, Streaming
<1>11. Told(w, host')
  <2>1. w.tag = host'.tag /\ host'.moved + host'.left = host'.len
    BY <1>3, <1>4, <1>6, <1>7, <1>8, <1>9 DEF ImageOnly, SameCommand, Told
  <2>2. host.claim = "right" => ~w.partial
    <3> SUFFICES ASSUME host.claim = "right", left = 1 PROVE (dev.offset + 1) % SectorPackets = 0
      BY <1>7, <1>8, <1>9 DEF ImageOnly
    <3>1. QED BY <1>3 DEF Writing, Streaming
  <2>3. w.sense = dev.sense
    BY <1>7, <1>8, <1>9 DEF ImageOnly, SameCommand
  <2>4. QED BY <1>3, <1>6, <1>10, <2>1, <2>2, <2>3 DEF Told
<1>12. CASE w.rebooting
  <2>1. dev' = [dev EXCEPT !.rebooting = TRUE, !.uf2 = w.uf2]
    BY <1>1, <1>12
  <2>2. w.uf2 \in Uf2Type /\ w.uf2.num # 0
    BY <1>9, <1>12, DeviceParts DEF ImageOnly
  <2>3. \A r \in BOOLEAN : [dev EXCEPT !.rebooting = r, !.uf2 = w.uf2] \in Device
    BY <1>2, <2>2, DeviceShape
  <2>4. dev' \in Device
    BY <2>1, <2>3
  <2>5. dev'.rebooting /\ dev'.uf2 = w.uf2 /\ dev'.fault = "none"
    BY <1>2, <2>1, DeviceShape
  <2>6. QED BY <1>6, <2>2, <2>4, <2>5
            DEF MscInv, TypeOK, AssertsHold, NoImageLeft, Host
<1>13. CASE ~w.rebooting /\ w.out.left = 0
  <2> DEFINE p == [w EXCEPT !.out.xfer = "none"]
  <2>1. dev' = DataPhaseComplete(p)
    BY <1>1, <1>13
  <2>2. [w.out EXCEPT !.xfer = "none"] = OutIdle(HS_NONE)
    <3>1. w.out \in OutType
      BY <1>10, DeviceParts
    <3>2. QED BY <1>10, <1>13, <3>1 DEF OutType, OutIdle
  <2>3. p = [w EXCEPT !.out = OutIdle(HS_NONE)]
    <3>1. p = [w EXCEPT !.out = [w.out EXCEPT !.xfer = "none"]]
      BY <1>10, DeviceShape
    <3>2. QED BY <2>2, <3>1
  <2>4. OutIdle(HS_NONE) \in OutType
    BY IdleTypes
  <2>5. /\ p \in Device /\ Kept(w, p) /\ p.in = w.in /\ p.out = OutIdle(HS_NONE)
        /\ p.onUnstall = w.onUnstall /\ p.stallDir = w.stallDir
    BY <1>10, <2>3, <2>4, DeviceShape DEF Kept
  <2> HIDE DEF p
  <2>6. left = 1
    BY <1>4, <1>10, <1>13
  <2>7. Told(p, host')
    BY <1>11, <2>5 DEF Told, Kept
  <2>8. host'.claim = "right" => p.residue = 0
    BY <1>3, <1>4, <1>6, <1>10, <2>5, <2>6 DEF Writing, Streaming, Kept
  <2>9. host'.stage = "data" => p.stallDir = "out"
    BY <1>3, <1>4, <1>6, <1>10, <2>5, <2>6 DEF Writing, Streaming
  <2>10. host'.stage = "csw" /\ p.stallDir = "out" => p.status = "phase_error"
    BY <1>3, <1>4, <1>6, <1>10, <2>5, <2>6 DEF Writing, Streaming, Kept
  <2>11. Finished(p, host')
    BY <1>6, <1>10, <2>5, <2>7, <2>8, <2>9, <2>10 DEF Finished, Kept, Dirs
  <2>12. p.uf2 = w.uf2 /\ p.rebooting = w.rebooting
    BY <2>5 DEF Kept
  <2>13. Well(w, dev', host')
    BY <2>1, <2>11, <2>12, FinishedWell
  <2>14. Phases(dev, host)'
    BY <1>6, <2>13 DEF Phases, Well
  <2>15. QED BY <1>6, <1>9, <2>13, <2>14
             DEF MscInv, TypeOK, AssertsHold, NoImageLeft, Host, Well, ImageOnly
<1>14. CASE ~w.rebooting /\ w.out.left # 0
  <2>1. dev' = w
    BY <1>1, <1>14
  <2>2. host'.stage = "data" /\ left > 1
    BY <1>4, <1>6, <1>10, <1>14
  <2>3. Streaming(w, host', "out", w.out.left)
    <3>1. w.offset + w.out.left = dev.offset + left
      BY <1>4, <1>10
    <3>2. w.size = 2 /\ w.stallDir \in {"none", "out"} /\ w.offset + w.out.left <= MaxPackets
      BY <1>3, <1>4, <1>10, <3>1 DEF Writing, Streaming
    <3>3. 2 * w.out.left <= w.residue /\ (2 * w.out.left < w.residue => w.stallDir = "out")
      BY <1>3, <1>4, <1>6, <1>10 DEF Writing, Streaming
    <3>4. host'.claim = "right" => 2 * w.out.left = w.residue
      BY <1>3, <1>4, <1>6, <1>10 DEF Writing, Streaming
    <3>5. host'.claim = "right" => (w.offset + w.out.left) % SectorPackets = 0
      BY <1>3, <1>6, <3>1 DEF Writing, Streaming
    <3>6. QED BY <3>2, <3>3, <3>4, <3>5 DEF Streaming
  <2>4. w.stallDir = "out" /\ 2 * w.out.left = w.residue => w.status = "phase_error"
    BY <1>3, <1>4, <1>6, <1>10 DEF Writing
  <2>5. Writing(w, host')
    BY <1>4, <1>6, <1>10, <2>2, <2>3, <2>4 DEF Writing
  <2>6. Phases(w, host')
    BY <1>11, <2>2, <2>5 DEF Phases, InCommand
  <2>7. QED BY <1>6, <1>9, <2>1, <2>6
            DEF MscInv, TypeOK, AssertsHold, NoImageLeft, Host, ImageOnly
<1>15. QED BY <1>12, <1>13, <1>14

(* The one packet of a response or of a CSW is taken: the endpoint is idle. *)
LEMMA Taken ==
  ASSUME NEW d \in Device, NEW xfer, d.in = InWaits(xfer)
  PROVE  LET f == [d EXCEPT !.in.ready = @ - 1]
         IN  /\ f.in.ready = 0 /\ f.in.left = 0
             /\ [f EXCEPT !.in.xfer = "none"] = [d EXCEPT !.in = InIdle]
<1> DEFINE i == [d.in EXCEPT !.ready = @ - 1]
<1> DEFINE f == [d EXCEPT !.in.ready = @ - 1]
<1>1. f = [d EXCEPT !.in = i]
  BY DeviceShape
<1>2. i \in InType /\ i.xfer = d.in.xfer /\ i.left = 0 /\ i.ready = 0 /\ i.halt = 0
  <2>1. d.in \in InType /\ d.in.ready = 1 /\ d.in.left = 0 /\ d.in.halt = 0
    BY DeviceParts DEF InWaits
  <2>2. i = [d.in EXCEPT !.ready = 0]
    BY <2>1
  <2>3. \A y \in 0..2 : [d.in EXCEPT !.ready = y] \in InType
    BY <2>1 DEF InType
  <2>4. i \in InType
    BY <2>2, <2>3
  <2>5. QED BY <2>1, <2>2, <2>4 DEF InType
<1> HIDE DEF i, f
<1>3. [i EXCEPT !.xfer = "none"] = InIdle
  BY <1>2 DEF InType, InIdle
<1>4. f.in = i /\ [f EXCEPT !.in.xfer = "none"] = [d EXCEPT !.in = [i EXCEPT !.xfer = "none"]]
  BY <1>1, DeviceShape
<1>5. QED BY <1>2, <1>3, <1>4 DEF f

(* An endpoint with no more packets is taken to be idle. *)
LEMMA IdleAgain ==
  ASSUME NEW d \in Device
  PROVE  LET p == [d EXCEPT !.in = InIdle]
         IN  /\ p \in Device /\ Kept(d, p) /\ p.in = InIdle /\ p.out = d.out
             /\ p.onUnstall = d.onUnstall /\ p.stallDir = d.stallDir
BY IdleTypes, DeviceShape DEF Kept

(* A packet of the device's data. *)
LEMMA FetchDataKeeps ==
  ASSUME MscInv, ~dev.rebooting, FetchData
  PROVE  MscInv'
<1> DEFINE stage == IF dev.size < PacketUnits \/ host.left <= dev.size THEN "csw" ELSE "data"
<1> DEFINE f == [dev EXCEPT !.in.ready = @ - 1]
<1>1. /\ host.stage = "data" /\ host.dir = "in" /\ dev.in.ready > 0 /\ dev.in.halt = 0
      /\ host' = [host EXCEPT !.left = @ - dev.size, !.moved = @ + dev.size, !.stage = stage]
      /\ dev' = IF f.in.ready = 0 /\ f.in.left = 0
                THEN InComplete([f EXCEPT !.in.xfer = "none"], dev.in.xfer)
                ELSE FillIn(f)
  BY DEF FetchData, CanFetch, Fetched
<1>2. /\ dev \in Device /\ dev.fault = "none" /\ dev.uf2.num = 0 /\ dev.rebooting = FALSE
      /\ host \in Host /\ InCommand(dev, host)
  BY <1>1, InvParts DEF Phases
<1>3. (Responding(dev, host) \/ Reading(dev, host)) /\ Told(dev, host)
  BY <1>1, <1>2 DEF InCommand, Refusing, Writing, Answering, Stalling, InIdle
<1>4. /\ host.left \in Nat /\ host.moved \in Nat /\ host.len \in 0..MaxLength
      /\ host.moved + host.left = host.len /\ dev.residue \in Nat
  BY <1>2, <1>3, Bounds, DeviceParts DEF Host, Told, Lengths
<1>5. ASSUME NEW size \in 1..2, dev.size = size, size <= host.left
      PROVE  /\ host'.left = host.left - size /\ host'.moved = host.moved + size /\ host'.dir = "in"
             /\ host'.stage = (IF size < 2 \/ host.left = size THEN "csw" ELSE "data")
             /\ host'.tag = host.tag /\ host'.len = host.len /\ host'.kind = host.kind
             /\ host'.claim = host.claim /\ host' \in Host
  <2>1. host.left - size \in 0..MaxLength /\ host.moved + size \in 0..MaxLength
    BY <1>4, <1>5, Bounds
  <2>2. stage \in {"csw", "data"}
    OBVIOUS
  <2>3. stage = (IF size < 2 \/ host.left = size THEN "csw" ELSE "data")
    BY <1>4, <1>5
  <2> HIDE DEF stage
  <2>4. host' = [host EXCEPT !.left = host.left - size, !.moved = host.moved + size, !.stage = stage]
    BY <1>1, <1>5
  <2>5. host' \in Host
    BY <1>2, <2>1, <2>2, <2>4 DEF Host
  <2>6. QED BY <1>1, <1>2, <2>3, <2>4, <2>5 DEF Host
<1> HIDE DEF stage
<1>6. CASE Responding(dev, host)
  <2>1. /\ dev.size = 1 /\ dev.in = InWaits("response") /\ dev.residue = host.left - 1
    BY <1>6 DEF Responding
  <2>2. host.left >= 1
    BY <1>4, <2>1
  <2>3. /\ host'.left = host.left - 1 /\ host'.moved = host.moved + 1 /\ host'.dir = "in"
        /\ host'.stage = "csw" /\ host'.tag = host.tag /\ host'.len = host.len
        /\ host'.kind = host.kind /\ host'.claim = host.claim /\ host' \in Host
    BY <1>5, <2>1, <2>2
  <2> DEFINE p == [dev EXCEPT !.in = InIdle]
  <2>4. dev' = DataPhaseComplete(p)
    <3>1. /\ f.in.ready = 0 /\ f.in.left = 0 /\ [f EXCEPT !.in.xfer = "none"] = p
      BY <1>2, <2>1, Taken
    <3>2. dev.in.xfer = "response"
      BY <2>1 DEF InWaits
    <3> HIDE DEF f, p
    <3>3. QED BY <1>1, <3>1, <3>2 DEF InComplete
  <2>5. /\ p \in Device /\ Kept(dev, p) /\ p.in = InIdle /\ p.out = dev.out
        /\ p.onUnstall = dev.onUnstall /\ p.stallDir = dev.stallDir
    BY <1>2, IdleAgain
  <2> HIDE DEF p
  <2>6. Told(p, host')
    BY <1>3, <1>4, <2>3, <2>5 DEF Told, Kept
  <2>7. Finished(p, host')
    BY <1>2, <1>6, <2>1, <2>3, <2>5, <2>6 DEF Finished, Responding, Kept
  <2>8. Well(dev, dev', host')
    BY <2>4, <2>5, <2>7, FinishedWell DEF Kept
  <2>9. QED BY <2>3, <2>8, InCommandKept
<1>7. CASE Reading(dev, host)
  <2> DEFINE left == dev.in.left
  <2> DEFINE ready == dev.in.ready
  <2>1. /\ left \in Nat /\ ready \in 1..2 /\ dev.size = 2 /\ dev.residue = host.left - 2 * ready
        /\ 2 * left <= dev.residue /\ dev.in \in InType /\ dev.in.xfer = "stream"
    <3>1. left \in Nat /\ ready \in 0..2 /\ dev.in \in InType
      BY <1>2, DeviceParts, Bounds DEF Packets
    <3>2. QED BY <1>7, <3>1 DEF Reading, Streaming
  <2>2. host.left >= 2
    BY <1>4, <2>1
  <2>3. /\ host'.left = host.left - 2 /\ host'.moved = host.moved + 2 /\ host'.dir = "in"
        /\ host'.stage = (IF host.left = 2 THEN "csw" ELSE "data")
        /\ host'.tag = host.tag /\ host'.len = host.len /\ host'.kind = host.kind
        /\ host'.claim = host.claim /\ host' \in Host
    BY <1>5, <2>1, <2>2
  <2>4. /\ f \in Device /\ SameCommand(dev, f) /\ f.out = dev.out /\ f.partial = dev.partial
        /\ f.offset = dev.offset /\ f.residue = dev.residue
        /\ f.in.left = left /\ f.in.ready = ready - 1 /\ f.in.xfer = "stream" /\ f.in.halt = 0
    <3> DEFINE i == [dev.in EXCEPT !.ready = ready - 1]
    <3>1. ready - 1 \in 0..2
      BY <2>1
    <3>2. i \in InType /\ i.left = left /\ i.ready = ready - 1 /\ i.xfer = "stream" /\ i.halt = 0
      BY <1>1, <2>1, <3>1 DEF InType
    <3>3. f = [dev EXCEPT !.in = i]
      BY <1>2, DeviceShape
    <3> HIDE DEF i, f
    <3>4. QED BY <1>2, <3>2, <3>3, DeviceShape DEF SameCommand
  <2> HIDE DEF f
  <2>5. Told(f, host')
    BY <1>3, <1>4, <2>3, <2>4 DEF Told, SameCommand
  <2>6. Streaming(f, host', "in", left)
    BY <1>7, <2>3, <2>4 DEF Reading, Streaming, SameCommand
  <2>7. CASE left = 0 /\ ready = 1
    <3> DEFINE p == [f EXCEPT !.in.xfer = "none"]
    <3>1. dev' = DataPhaseComplete(p)
      BY <1>1, <2>1, <2>4, <2>7 DEF InComplete
    <3>2. p = [f EXCEPT !.in = InIdle]
      <4>1. f.in \in InType
        BY <2>4, DeviceParts
      <4>2. [f.in EXCEPT !.xfer = "none"] = InIdle
        BY <2>4, <2>7, <4>1 DEF InType, InIdle
      <4>3. p = [f EXCEPT !.in = [f.in EXCEPT !.xfer = "none"]]
        BY <2>4, DeviceShape
      <4>4. QED BY <4>2, <4>3
    <3>3. /\ p \in Device /\ Kept(f, p) /\ p.in = InIdle /\ p.out = f.out
          /\ p.onUnstall = f.onUnstall /\ p.stallDir = f.stallDir
      BY <2>4, <3>2, IdleAgain
    <3> HIDE DEF p
    <3>4. Told(p, host')
      BY <2>5, <3>3 DEF Told, Kept
    <3>5. p.residue = host'.left /\ (host'.claim = "right" => p.residue = 0)
      BY <1>4, <2>1, <2>3, <2>4, <2>6, <2>7, <3>3 DEF Kept, Streaming
    <3>6. host'.stage = "data" => p.stallDir = "in"
      BY <1>4, <2>1, <2>3, <2>4, <2>6, <2>7, <3>3 DEF Streaming
    <3>7. p.stallDir # "out"
      BY <2>6, <3>3 DEF Streaming
    <3>8. Finished(p, host')
      BY <1>2, <1>7, <2>3, <2>4, <3>3, <3>4, <3>5, <3>6, <3>7
         DEF Finished, Reading, Kept, SameCommand, Dirs
    <3>9. p.uf2 = dev.uf2 /\ p.rebooting = dev.rebooting
      BY <2>4, <3>3 DEF Kept, SameCommand
    <3>10. Well(dev, dev', host')
      BY <3>1, <3>8, <3>9, FinishedWell
    <3>11. QED BY <2>3, <3>10, InCommandKept
  <2>8. CASE ~(left = 0 /\ ready = 1)
    <3>1. dev' = FillIn(f)
      BY <1>1, <2>1, <2>4, <2>8
    <3>2. host'.stage = "data" /\ f.residue = host'.left - 2 * f.in.ready /\ host'.left \in Nat
      <4>1. host.left # 2
        BY <1>4, <2>1, <2>8
      <4>2. host.left - 2 * ready = (host.left - 2) - 2 * (ready - 1)
        BY <1>4, <2>1
      <4>3. QED BY <1>4, <2>1, <2>2, <2>3, <2>4, <4>1, <4>2
    <3>3. Fillable(f, host')
      BY <1>2, <1>7, <2>3, <2>4, <2>5, <2>6, <3>2 DEF Fillable, Reading, SameCommand
    <3>4. f.in.left > 0 \/ f.in.ready > 0
      BY <2>1, <2>4, <2>8
    <3>5. /\ FillIn(f) \in Device /\ FillIn(f).fault = "none" /\ InCommand(FillIn(f), host')
          /\ FillIn(f).uf2 = f.uf2 /\ FillIn(f).rebooting = f.rebooting
      BY <3>2, <3>3, <3>4, FillWell
    <3>6. Well(dev, dev', host')
      BY <2>4, <3>1, <3>5 DEF Well, SameCommand
    <3>7. QED BY <2>3, <3>6, InCommandKept
  <2>9. QED BY <2>7, <2>8
<1>8. QED BY <1>3, <1>6, <1>7

(* The CSW. *)
LEMMA FetchCswKeeps ==
  ASSUME MscInv, ~dev.rebooting, FetchCsw
  PROVE  MscInv'
<1> DEFINE f == [dev EXCEPT !.in.ready = @ - 1]
<1> DEFINE p == [dev EXCEPT !.in = InIdle]
<1> DEFINE stage == IF dev.status = "phase_error" THEN "recover" ELSE "idle"
<1>1. /\ host.stage = "csw" /\ dev.in.ready > 0 /\ dev.in.halt = 0
      /\ host' = [host EXCEPT !.stage = stage]
      /\ dev' = IF f.in.ready = 0 /\ f.in.left = 0
                THEN InComplete([f EXCEPT !.in.xfer = "none"], dev.in.xfer)
                ELSE FillIn(f)
  BY DEF FetchCsw, CanFetch, Fetched
<1>2. /\ dev \in Device /\ dev.fault = "none" /\ dev.uf2.num = 0 /\ dev.rebooting = FALSE
      /\ host \in Host /\ InCommand(dev, host)
  BY <1>1, InvParts DEF Phases
<1>3. Answering(dev, host)
  BY <1>1, <1>2 DEF InCommand, Refusing, Responding, Reading, Writing, Stalling, InIdle
<1>4. dev.in = InWaits("csw") /\ dev.in.xfer = "csw" /\ dev.onUnstall = FALSE
  BY <1>2, <1>3, DeviceParts DEF Answering, InWaits
<1>5. dev' = WaitCommand(p)
  <2>1. /\ f.in.ready = 0 /\ f.in.left = 0 /\ [f EXCEPT !.in.xfer = "none"] = p
    BY <1>2, <1>4, Taken
  <2> HIDE DEF f, p
  <2>2. QED BY <1>1, <1>4, <2>1 DEF InComplete
<1>6. /\ p \in Device /\ Kept(dev, p) /\ p.in = InIdle /\ p.out = dev.out
      /\ p.onUnstall = dev.onUnstall /\ p.stallDir = dev.stallDir
  BY <1>2, IdleAgain
<1> HIDE DEF p, f
<1>7. host' \in Host /\ host'.stage = stage
  BY <1>1, <1>2 DEF Host
<1>8. \/ dev.out \in {OutIdle(HS_NONE), OutDefault}
      \/ dev.out = OutIdle(HS_HALTED) /\ dev.status = "phase_error"
  BY <1>1, <1>3 DEF Answering
<1> DEFINE q == [p EXCEPT !.out = OutDefault]
<1>9. /\ q \in Device /\ Kept(p, q) /\ q.in = InIdle /\ q.out = OutDefault
      /\ q.onUnstall = p.onUnstall
  BY <1>6, IdleTypes, DeviceShape DEF Kept
<1> HIDE DEF q
<1>10. CASE dev.out = OutIdle(HS_NONE)
  <2>1. dev' = q
    BY <1>5, <1>6, <1>10 DEF WaitCommand, OutIdle, q
  <2>2. Ready(dev')
    BY <1>4, <1>6, <1>9, <2>1 DEF Ready
  <2>3. dev' \in Device /\ dev'.fault = "none" /\ dev'.uf2.num = 0 /\ dev'.rebooting = FALSE
    BY <1>2, <1>6, <1>9, <2>1 DEF Kept
  <2>4. QED BY <1>7, <2>2, <2>3, OutOfCommand
<1>11. CASE dev.out = OutDefault
  <2>1. dev' = p
    BY <1>5, <1>6, <1>11 DEF WaitCommand, OutDefault
  <2>2. Ready(dev')
    BY <1>4, <1>6, <1>11, <2>1 DEF Ready
  <2>3. dev' \in Device /\ dev'.fault = "none" /\ dev'.uf2.num = 0 /\ dev'.rebooting = FALSE
    BY <1>2, <1>6, <2>1 DEF Kept
  <2>4. QED BY <1>7, <2>2, <2>3, OutOfCommand
<1>12. CASE dev.out = OutIdle(HS_HALTED) /\ dev.status = "phase_error"
  <2>1. dev' = p
    BY <1>5, <1>6, <1>12 DEF WaitCommand, OutIdle
  <2>2. dev' \in Device /\ dev'.fault = "none" /\ dev'.uf2.num = 0 /\ dev'.rebooting = FALSE
    BY <1>2, <1>6, <2>1 DEF Kept
  <2>3. QED BY <1>7, <1>12, <2>2, OutOfCommand
<1>13. QED BY <1>8, <1>10, <1>11, <1>12

(* The host ends a stall, or finds that it cannot. *)
LEMMA SeeStallKeeps ==
  ASSUME MscInv, ~dev.rebooting, SeeStall
  PROVE  MscInv'
<1>1. /\ dev \in Device /\ dev.fault = "none" /\ dev.uf2.num = 0 /\ dev.rebooting = FALSE
      /\ host \in Host /\ InCommand(dev, host) /\ host.stage \in {"data", "csw"}
  BY InvParts DEF SeeStall, Phases
<1>2. CASE host.stage = "csw" /\ host.retried
  <2>1. dev' = dev /\ host' = [host EXCEPT !.stage = "recover"]
    BY <1>2 DEF SeeStall
  <2>2. host' \in Host /\ host'.stage = "recover"
    BY <1>1, <2>1 DEF Host
  <2>3. QED BY <1>1, <2>1, <2>2, OutOfCommand
<1>3. CASE ~(host.stage = "csw" /\ host.retried)
  <2> DEFINE out == host.stage = "data" /\ host.dir = "out"
  <2> DEFINE again == host.stage = "csw"
  <2>1. /\ IF out THEN dev.out.halt # 0 ELSE dev.in.halt # 0
        /\ dev' = IF out THEN ClearOut(dev) ELSE ClearIn(dev)
        /\ host' = [host EXCEPT !.stage = "csw", !.retried = again]
    BY <1>3 DEF SeeStall
  <2>2. again \in BOOLEAN
    OBVIOUS
  <2> HIDE DEF again
  <2>3. host' \in Host
    <3>1. \A s \in {"csw"} : [host EXCEPT !.stage = s, !.retried = again] \in Host
      BY <1>1, <2>2 DEF Host
    <3>2. QED BY <2>1, <3>1
  <2>4. /\ host'.stage = "csw" /\ host'.left = host.left /\ host'.moved = host.moved
        /\ host'.len = host.len /\ host'.tag = host.tag /\ host'.kind = host.kind
        /\ host'.claim = host.claim
    BY <1>1, <2>1 DEF Host
  <2>5. CASE out
    <3>1. Answering(dev, host) /\ dev.out = OutIdle(HS_HALTED) /\ Told(dev, host)
      BY <1>1, <2>1, <2>5 DEF InCommand, Refusing, Responding, Reading, Writing, Answering, Stalling, Dirs
    <3>2. dev' = [dev EXCEPT !.out = OutDefault]
      BY <2>1, <2>5, <3>1 DEF ClearOut, OutIdle
    <3>3. /\ dev' \in Device /\ Kept(dev, dev') /\ dev'.in = dev.in /\ dev'.out = OutDefault
          /\ dev'.onUnstall = dev.onUnstall
      BY <1>1, <3>2, IdleTypes, DeviceShape DEF Kept
    <3>4. Told(dev', host')
      BY <2>4, <3>1, <3>3 DEF Told, Kept
    <3>5. Answering(dev', host')
      BY <2>4, <3>1, <3>3 DEF Answering, Kept
    <3>6. Well(dev, dev', host')
      BY <1>1, <3>3, <3>4, <3>5 DEF Well, InCommand, Kept
    <3>7. QED BY <2>3, <3>6, InCommandKept
  <2>6. CASE ~out
    <3>1. dev.in.halt # 0 /\ dev' = ClearIn(dev)
      BY <2>1, <2>6
    <3>2. Refusing(dev, host) \/ (Stalling(dev, host) /\ Told(dev, host))
      BY <1>1, <3>1 DEF InCommand, Responding, Reading, Writing, Answering, InIdle, InWaits
    <3>3. CASE Refusing(dev, host)
      <4>1. dev.in.halt = 3
        BY <3>3 DEF Refusing, InIdle
      <4>2. dev' = dev
        BY <3>1, <4>1 DEF ClearIn
      <4>3. Refusing(dev', host')
        BY <2>4, <3>3, <4>2 DEF Refusing
      <4>4. Well(dev, dev', host')
        BY <1>1, <4>2, <4>3 DEF Well, InCommand
      <4>5. QED BY <2>3, <4>4, InCommandKept
    <3>4. CASE Stalling(dev, host) /\ Told(dev, host)
      <4> DEFINE r == [dev EXCEPT !.in = InIdle]
      <4>1. dev.in.halt = 2 /\ dev.onUnstall
        BY <3>4 DEF Stalling, InIdle
      <4>2. dev' = SendCsw(r)
        BY <3>1, <4>1 DEF ClearIn, ResetIn
      <4>3. /\ r \in Device /\ Kept(dev, r) /\ r.in = InIdle /\ r.out = dev.out
        BY <1>1, IdleAgain
      <4> HIDE DEF r
      <4>4. /\ dev' \in Device /\ Kept(r, dev') /\ dev'.in = InWaits("csw") /\ dev'.out = dev.out
            /\ dev'.onUnstall = FALSE
        BY <4>2, <4>3, CswSent
      <4>5. Told(dev', host')
        BY <2>4, <3>4, <4>3, <4>4 DEF Told, Kept
      <4>6. Answering(dev', host')
        BY <2>4, <3>4, <4>3, <4>4 DEF Answering, Stalling, Kept
      <4>7. Well(dev, dev', host')
        BY <1>1, <4>3, <4>4, <4>5, <4>6 DEF Well, InCommand, Kept
      <4>8. QED BY <2>3, <4>7, InCommandKept
    <3>5. QED BY <3>2, <3>3, <3>4
  <2>7. QED BY <2>5, <2>6
<1>4. QED BY <1>2, <1>3

(* _msc_reset leaves the interface as it was when it was made. *)
LEMMA ResetWell ==
  ASSUME NEW d \in Device, d.fault = "none"
  PROVE  /\ Reset(d) \in Device /\ Ready(Reset(d)) /\ Reset(d).fault = "none"
         /\ Reset(d).uf2.num = 0 /\ Reset(d).rebooting = FALSE
<1> DEFINE r == [InitDevice EXCEPT !.fault = d.fault, !.disabled = d.disabled]
<1>1. Reset(d) = r
  BY DEF Reset
<1>2. d.fault \in Faults /\ d.disabled \in BOOLEAN /\ InitDevice \in Device
  BY DeviceParts, InitWell
<1>3. /\ r \in Device /\ r.out = InitDevice.out /\ r.in = InitDevice.in
      /\ r.onUnstall = InitDevice.onUnstall /\ r.fault = d.fault
      /\ r.uf2 = InitDevice.uf2 /\ r.rebooting = InitDevice.rebooting
  BY <1>2, DeviceShape
<1> HIDE DEF r
<1>4. QED BY <1>1, <1>3, InitWell DEF Ready

(* Reset recovery. *)
LEMMA RecoverKeeps ==
  ASSUME MscInv, ~dev.rebooting, Recover
  PROVE  MscInv'
<1>1. /\ dev \in Device /\ dev.fault = "none" /\ dev.uf2.num = 0 /\ dev.rebooting = FALSE
      /\ host \in Host /\ Phases(dev, host)
  BY InvParts
<1>2. ASSUME NEW s \in {"clear_in", "clear_out", "idle"}, host' = [host EXCEPT !.stage = s]
      PROVE  host' \in Host /\ host'.stage \notin {"data", "csw"}
  BY <1>1, <1>2 DEF Host
<1>3. CASE host.stage = "recover"
  <2>1. dev' = Reset(dev) /\ host' = [host EXCEPT !.stage = "clear_in"]
    BY <1>3 DEF Recover
  <2>2. host' \in Host /\ host'.stage \notin {"data", "csw"}
    BY <1>2, <2>1
  <2>3. QED BY <1>1, <2>1, <2>2, ResetWell, OutOfCommand
<1>4. CASE host.stage = "clear_in"
  <2>1. dev' = ClearIn(dev) /\ host' = [host EXCEPT !.stage = "clear_out"]
    BY <1>4 DEF Recover
  <2>2. host' \in Host /\ host'.stage \notin {"data", "csw"}
    BY <1>2, <2>1
  <2>3. Ready(dev) /\ dev.in.halt = 0
    BY <1>1, <1>4 DEF Phases, Ready, InIdle
  <2>4. dev' = [dev EXCEPT !.in = InIdle]
    BY <2>1, <2>3 DEF ClearIn, ResetIn
  <2>5. /\ dev' \in Device /\ Kept(dev, dev') /\ dev'.in = InIdle /\ dev'.out = dev.out
        /\ dev'.onUnstall = dev.onUnstall
    BY <1>1, <2>4, IdleAgain
  <2>6. QED BY <1>1, <2>2, <2>3, <2>5, OutOfCommand DEF Ready, Kept
<1>5. CASE host.stage = "clear_out"
  <2>1. dev' = ClearOut(dev) /\ host' = [host EXCEPT !.stage = "idle"]
    BY <1>5 DEF Recover
  <2>2. host' \in Host /\ host'.stage \notin {"data", "csw"}
    BY <1>2, <2>1
  <2>3. Ready(dev) /\ dev.out.halt = 0
    BY <1>1, <1>5 DEF Phases, Ready, OutDefault
  <2>4. dev' = [dev EXCEPT !.out = OutDefault]
    BY <2>1, <2>3 DEF ClearOut
  <2>5. /\ dev' \in Device /\ Kept(dev, dev') /\ dev'.in = dev.in /\ dev'.out = OutDefault
        /\ dev'.onUnstall = dev.onUnstall
    BY <1>1, <2>4, IdleTypes, DeviceShape DEF Kept
  <2>6. QED BY <1>1, <2>2, <2>3, <2>5, OutOfCommand DEF Ready, Kept
<1>6. QED BY <1>3, <1>4, <1>5 DEF Recover

LEMMA GiveUpKeeps ==
  ASSUME MscInv, ~dev.rebooting, GiveUp
  PROVE  MscInv'
<1>1. /\ dev \in Device /\ dev.fault = "none" /\ dev.uf2.num = 0 /\ dev.rebooting = FALSE
      /\ host \in Host
  BY InvParts
<1>2. dev' = dev /\ host' = [host EXCEPT !.stage = "recover"]
  BY DEF GiveUp
<1>3. host' \in Host /\ host'.stage = "recover"
  BY <1>1, <1>2 DEF Host
<1>4. QED BY <1>1, <1>2, <1>3, OutOfCommand

LEMMA ConfigureKeeps ==
  ASSUME MscInv, ~dev.rebooting, Configure
  PROVE  MscInv'
<1> DEFINE r == Reset(dev)
<1>1. dev \in Device /\ dev.fault = "none" /\ host \in Host
  BY InvParts
<1>2. dev' = [r EXCEPT !.disabled = FALSE] /\ host' = [host EXCEPT !.stage = "idle"]
  BY DEF Configure
<1>3. /\ r \in Device /\ Ready(r) /\ r.fault = "none" /\ r.uf2.num = 0 /\ r.rebooting = FALSE
  BY <1>1, ResetWell
<1> HIDE DEF r
<1>4. \A y \in BOOLEAN : [r EXCEPT !.disabled = y] \in Device
  BY <1>3, DeviceShape
<1>5. dev' \in Device
  BY <1>2, <1>4
<1>6. /\ dev'.out = r.out /\ dev'.in = r.in /\ dev'.onUnstall = r.onUnstall
      /\ dev'.fault = r.fault /\ dev'.uf2 = r.uf2 /\ dev'.rebooting = r.rebooting
  BY <1>2, <1>3, DeviceShape
<1>7. host' \in Host /\ host'.stage = "idle"
  BY <1>1, <1>2 DEF Host
<1>8. QED BY <1>3, <1>5, <1>6, <1>7, OutOfCommand DEF Ready

(* A disk that is taken away, or ejected, leaves a command as it is. *)
LEMMA ExclusiveKeeps ==
  ASSUME MscInv, ~dev.rebooting, NEW on \in BOOLEAN, NEW eject \in BOOLEAN, Exclusive(on, eject)
  PROVE  MscInv'
<1> DEFINE y == dev.ejected \/ eject
<1>1. /\ dev \in Device /\ dev.fault = "none" /\ dev.uf2.num = 0 /\ dev.rebooting = FALSE
      /\ host \in Host /\ Phases(dev, host)
  BY InvParts
<1>2. dev' = [dev EXCEPT !.disabled = on, !.ejected = y] /\ host' = host
  BY DEF Exclusive
<1>3. y \in BOOLEAN
  OBVIOUS
<1> HIDE DEF y
<1>4. dev' \in Device
  BY <1>1, <1>2, <1>3, DeviceShape
<1>5. /\ dev'.out = dev.out /\ dev'.in = dev.in /\ dev'.size = dev.size
      /\ dev'.offset = dev.offset /\ dev'.tag = dev.tag /\ dev'.residue = dev.residue
      /\ dev'.status = dev.status /\ dev'.sense = dev.sense /\ dev'.stallDir = dev.stallDir
      /\ dev'.onUnstall = dev.onUnstall /\ dev'.partial = dev.partial
      /\ dev'.fault = dev.fault /\ dev'.uf2 = dev.uf2 /\ dev'.rebooting = dev.rebooting
  BY <1>1, <1>2, DeviceShape
<1>6. CASE host.stage \in {"data", "csw"}
  <2>1. InCommand(dev, host)
    BY <1>1, <1>6 DEF Phases
  <2>2. Told(dev, host) => Told(dev', host)
    BY <1>5 DEF Told
  <2>3. /\ Refusing(dev, host) => Refusing(dev', host)
        /\ Responding(dev, host) => Responding(dev', host)
        /\ Answering(dev, host) => Answering(dev', host)
        /\ Stalling(dev, host) => Stalling(dev', host)
    BY <1>5 DEF Refusing, Responding, Answering, Stalling
  <2>4. Reading(dev, host) => Reading(dev', host)
    BY <1>5 DEF Reading, Streaming
  <2>5. Writing(dev, host) => Writing(dev', host)
    BY <1>5 DEF Writing, Streaming
  <2>6. InCommand(dev', host')
    BY <1>2, <2>1, <2>2, <2>3, <2>4, <2>5 DEF InCommand
  <2>7. Well(dev, dev', host')
    BY <1>1, <1>4, <1>5, <2>6 DEF Well
  <2>8. QED BY <1>1, <1>2, <2>7, InCommandKept
<1>7. CASE host.stage \notin {"data", "csw"}
  <2>1. host.stage = "recover" \/ Ready(dev)
    BY <1>1, <1>7 DEF Phases, Host
  <2>2. host.stage = "recover" \/ Ready(dev')
    BY <1>5, <2>1 DEF Ready
  <2>3. QED BY <1>1, <1>2, <1>4, <1>5, <1>7, <2>2, OutOfCommand
<1>8. QED BY <1>6, <1>7

-----------------------------------------------------------------------------
(* Device and host are always in the same phase of a command: whatever the
   host claims, clears, gives up or resets, and wherever it stops. *)
THEOREM InvariantHolds == Spec => []MscInv
<1>1. Init => MscInv
  BY InitWell, Bounds DEF Init, MscInv, TypeOK, AssertsHold, NoImageLeft, Phases, Host, InitDevice, InitHost
<1>2. MscInv /\ [Next]_vars => MscInv'
  <2> SUFFICES ASSUME MscInv, [Next]_vars PROVE MscInv'
    OBVIOUS
  <2>1. CASE Running /\ Commands
    <3>1. PICK k \in Kinds, dir \in Dirs, len \in 0..MaxLength, b \in 0..MaxBlocks :
            SendCommand(k, dir, len, b)
      BY <2>1 DEF Commands
    <3>2. QED BY <2>1, <3>1, CommandKeeps DEF Running
  <2>2. CASE Running /\ HostMoves
    <3>1. CASE \E b \in Uf2Blocks \cup {OtherBlock} : SendData(b)
      BY <2>2, <3>1, SendDataKeeps DEF Running
    <3>2. CASE FetchData
      BY <2>2, <3>2, FetchDataKeeps DEF Running
    <3>3. CASE FetchCsw
      BY <2>2, <3>3, FetchCswKeeps DEF Running
    <3>4. CASE SeeStall
      BY <2>2, <3>4, SeeStallKeeps DEF Running
    <3>5. CASE Recover
      BY <2>2, <3>5, RecoverKeeps DEF Running
    <3>6. QED BY <2>2, <3>1, <3>2, <3>3, <3>4, <3>5 DEF HostMoves
  <2>3. CASE Running /\ GiveUp
    BY <2>3, GiveUpKeeps DEF Running
  <2>4. CASE Running /\ Configure
    BY <2>4, ConfigureKeeps DEF Running
  <2>5. CASE Running /\ \E on, eject \in BOOLEAN : Exclusive(on, eject)
    BY <2>5, ExclusiveKeeps DEF Running
  <2>6. CASE WatchdogFires
    <3>1. dev' = InitDevice /\ host' = InitHost
      BY <2>6 DEF WatchdogFires
    <3>2. InitDevice.fault = "none"
      BY DEF InitDevice
    <3>3. QED BY <3>1, <3>2, InitWell, OutOfCommand
  <2>7. CASE UNCHANGED vars
    BY <2>7 DEF vars, MscInv, TypeOK, AssertsHold, NoImageLeft
  <2>8. QED BY <2>1, <2>2, <2>3, <2>4, <2>5, <2>6, <2>7 DEF Next
<1>3. QED BY <1>1, <1>2, PTL DEF Spec

(* Once an answer is ready to be taken, where the device is. *)
LEMMA AnswerReady ==
  ASSUME MscInv, CswOffered, host.stage = "csw"
  PROVE  Answering(dev, host) /\ Told(dev, host)
<1>1. InCommand(dev, host) /\ dev.in.xfer = "csw" /\ dev.in.ready > 0
  BY DEF MscInv, CswOffered, CanFetch, Phases
<1>2. QED BY <1>1 DEF InCommand, Refusing, Responding, Reading, Writing, Stalling, InIdle

(* A CSW answers the last command block, with the data that has not moved. *)
THEOREM CswAlwaysMatches == Spec => []CswMatches
<1>1. MscInv => CswMatches
  <2> SUFFICES ASSUME MscInv, CswOffered, host.stage = "csw"
               PROVE  dev.tag = host.tag /\ dev.residue = host.len - host.moved
    BY DEF CswMatches
  <2>1. host \in Host
    BY DEF MscInv, TypeOK, Host
  <2>2. host.left \in Nat /\ host.moved \in Nat
    BY <2>1, Bounds DEF Host
  <2>3. QED BY <2>2, AnswerReady DEF Answering, Told
<1>2. QED BY <1>1, InvariantHolds, PTL

(* Data is never taken for a CSW, a CSW for data, or data for a command. *)
THEOREM PhasesAlwaysAgree == Spec => []PhasesAgree
<1>1. MscInv => PhasesAgree
  <2> SUFFICES ASSUME MscInv, ~dev.rebooting PROVE PhasesAgree
    BY DEF PhasesAgree
  <2>1. CASE host.stage \in {"data", "csw"}
    <3>1. InCommand(dev, host) /\ host.dir \in Dirs
      BY <2>1 DEF MscInv, Phases, TypeOK
    <3>2. host.stage = "data" /\ host.dir = "in" => ~CswOffered
      BY <3>1 DEF InCommand, Refusing, Responding, Reading, Writing, Answering, Stalling,
                  CswOffered, CanFetch, InIdle, InWaits
    <3>3. host.stage = "data" /\ host.dir # "in" => dev.out.xfer # "cmd"
      BY <3>1 DEF InCommand, Refusing, Responding, Reading, Writing, Answering, Stalling, OutIdle
    <3>4. host.stage = "csw" /\ CanFetch => dev.in.xfer = "csw"
      BY <3>1 DEF InCommand, Refusing, Responding, Reading, Writing, Answering, Stalling,
                  CanFetch, InIdle, InWaits
    <3>5. QED BY <3>2, <3>3, <3>4 DEF PhasesAgree
  <2>2. CASE host.stage \notin {"data", "csw"}
    BY <2>2 DEF PhasesAgree
  <2>3. QED BY <2>1, <2>2
<1>2. QED BY <1>1, InvariantHolds, PTL

(* The status tells what became of the command. *)
THEOREM StatusAlwaysRight == Spec => []StatusRight
<1>1. MscInv => StatusRight
  BY AnswerReady DEF StatusRight, Answering, Told
<1>2. QED BY <1>1, InvariantHolds, PTL

(* Between commands the device waits for the next one. *)
THEOREM AlwaysReadyForCommand == Spec => []ReadyForCommand
<1>1. MscInv => ReadyForCommand
  BY DEF MscInv, Phases, ReadyForCommand
<1>2. QED BY <1>1, InvariantHolds, PTL
=============================================================================
