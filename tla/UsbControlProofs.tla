--------------------------- MODULE UsbControlProofs ---------------------------
(***************************************************************************)
(* The control pipe: the device and the host agree on address,             *)
(* configuration and halts, for every greatest address.  The host leaves   *)
(* the device time to handle a status packet: with Racy the properties     *)
(* fail (README).  The lemmas follow the operators of UsbEndpointOps, as   *)
(* far as an endpoint with one buffer and transfers of one packet need     *)
(* them, and those of UsbControl, then its actions.                        *)
(***************************************************************************)
EXTENDS UsbControl, TLAPS

Calm == Racy = FALSE

USE DEF HS_NONE, HS_NON_HALT_STALL, HS_HALTED, HS_HALTED_ON_CONDITION, NoView

(* The types of an endpoint's fields, by name. *)
Numbers == 0..(SeqMod - 1)
Filled == [Bit -> Numbers]
Toggles == [Bit -> Bit]
Buffered == SUBSET Bit
Completions == Seq(Bit)

LEMMA EndpointShape ==
  Endpoint =
    [in : BOOLEAN, dbl : BOOLEAN, owned : Nat, give : Bit, take : Bit,
     fresh : BOOLEAN, pid : Bit, halt : 0..3, view : 0..2, cur : BOOLEAN,
     submit : Nat, handle : Nat, outstanding : BOOLEAN, queued : BOOLEAN, pos : Nat,
     avail : Buffered, bpid : Toggles, sel : Bit, done : Completions,
     data : Filled, seq : Numbers, last : Numbers]
BY Zenon DEF Endpoint, Numbers, Filled, Toggles, Buffered, Completions

LEMMA Members ==
  /\ 0 \in Bit /\ 1 \in Bit /\ {} \in Buffered /\ {0} \in Buffered
  /\ <<>> \in Completions /\ <<0>> \in Completions
  /\ 0 \in 0..3 /\ 1 \in 0..3 /\ 2 \in 0..2
BY DEF Bit, Buffered, Completions

LEMMA NextNumber ==
  ASSUME NEW s \in Numbers
  PROVE  (s + 1) % SeqMod \in Numbers
BY SeqModAssumption DEF Numbers

-----------------------------------------------------------------------------
(* A single buffered endpoint that has its buffer gives it to the controller
   for the one packet of a transfer. *)
LEMMA StartGives ==
  ASSUME NEW e \in Endpoint, Single(e), Unused(e)
  PROVE  LET f == StartTransfer(e, 1, "done")
         IN  f \in Endpoint /\ Single(f) /\ Given(f) /\ f.in = e.in
<1> DEFINE s == [e EXCEPT !.cur = TRUE, !.submit = 1, !.handle = 1, !.pos = 0,
                          !.outstanding = FALSE, !.queued = FALSE]
           h == HandOver(s)
           f == GiveBuffer(s)
<1>1. /\ s \in Endpoint /\ s.in = e.in /\ ~s.dbl /\ s.give = 0 /\ s.take = 0 /\ s.sel = 0
      /\ s.view = 2 /\ ~s.outstanding /\ ~s.queued /\ s.cur /\ s.submit = 1 /\ s.handle = 1
      /\ s.avail = {} /\ s.done = <<>> /\ s.owned = 1 /\ s.halt = 0 /\ s.pid = 1
      /\ s.pos = 0
  BY EndpointShape DEF Single, Unused, Idle
<1>2. StartTransfer(e, 1, "done") = f
  <2>1. StartTransfer(e, 1, "done") = GiveAsMany(s, "done")
    BY DEF StartTransfer
  <2> HIDE DEF s
  <2>2. GiveAsMany(s, "done") = GiveBuffers(s, 1)
    BY <1>1 DEF GiveAsMany, Least
  <2>3. QED BY <2>1, <2>2 DEF GiveBuffers
<1> HIDE DEF s
<1>3. /\ CurrentBuffer(s) = 0 /\ s.seq \in Numbers /\ s.data \in Filled /\ s.bpid \in Toggles
      /\ s.in \in BOOLEAN /\ s.last \in Numbers
  BY <1>1, EndpointShape DEF CurrentBuffer
<1> DEFINE data == IF s.in THEN [s.data EXCEPT ![0] = s.seq] ELSE s.data
           seq == IF s.in THEN (s.seq + 1) % SeqMod ELSE s.seq
           pos == IF s.in THEN 1 ELSE 0
           bpid == [s.bpid EXCEPT ![0] = 1]
<1>4. data \in Filled /\ seq \in Numbers /\ pos \in Nat
  BY <1>3, NextNumber DEF Filled
<1>5. bpid \in Toggles /\ bpid[0] = 1
  BY <1>3, Members DEF Toggles
<1> HIDE DEF data, seq, pos, bpid
<1>6. h = [s EXCEPT !.halt = 0, !.avail = {0}, !.bpid = bpid, !.pid = 0, !.view = 2,
                    !.owned = 0, !.submit = 0, !.pos = pos, !.data = data, !.seq = seq]
  <2>1. /\ s.avail \cup {s.give} = {0} /\ 1 - s.pid = 0 /\ s.owned - 1 = 0
        /\ s.submit - 1 = 0 /\ s.pos + 1 = 1
    BY <1>1
  <2>2. /\ (IF s.in THEN s.pos + 1 ELSE s.pos) = pos
        /\ (IF s.in THEN [s.data EXCEPT ![CurrentBuffer(s)] = s.seq] ELSE s.data) = data
        /\ (IF s.in THEN (s.seq + 1) % SeqMod ELSE s.seq) = seq
        /\ [s.bpid EXCEPT ![s.give] = s.pid] = bpid
    BY <1>1, <1>3 DEF pos, data, seq, bpid
  <2>3. HandOver(s) =
          [s EXCEPT !.halt = 0, !.avail = s.avail \cup {s.give},
                    !.bpid = [s.bpid EXCEPT ![s.give] = s.pid], !.pid = 1 - s.pid,
                    !.view = 2, !.owned = s.owned - 1, !.submit = s.submit - 1,
                    !.pos = IF s.in THEN s.pos + 1 ELSE s.pos,
                    !.data = IF s.in THEN [s.data EXCEPT ![CurrentBuffer(s)] = s.seq]
                                     ELSE s.data,
                    !.seq = IF s.in THEN (s.seq + 1) % SeqMod ELSE s.seq]
    BY <1>1, EndpointShape DEF HandOver
  <2>4. QED BY <2>1, <2>2, <2>3
<1> HIDE DEF h
<1>7. /\ h \in Endpoint /\ h.in = s.in /\ ~h.dbl /\ h.give = 0 /\ h.take = 0 /\ h.sel = 0
      /\ h.view = 2 /\ ~h.outstanding /\ ~h.queued /\ h.cur /\ h.submit = 0 /\ h.handle = 1
      /\ h.avail = {0} /\ h.done = <<>> /\ h.owned = 0 /\ h.halt = 0 /\ h.bpid[0] = 1
  <2>1. 0 \in Nat /\ 0 \in Bit /\ {0} \in Buffered
    BY Members
  <2>2. h \in Endpoint
    BY <1>1, <1>4, <1>5, <1>6, <2>1, Members, EndpointShape
  <2>3. /\ h.in = s.in /\ h.dbl = s.dbl /\ h.give = s.give /\ h.take = s.take
        /\ h.sel = s.sel /\ h.outstanding = s.outstanding /\ h.queued = s.queued
        /\ h.cur = s.cur /\ h.handle = s.handle /\ h.done = s.done
    BY <1>1, <1>6, EndpointShape
  <2>4. /\ h.view = 2 /\ h.submit = 0 /\ h.avail = {0} /\ h.owned = 0 /\ h.halt = 0
        /\ h.bpid = bpid
    BY <1>1, <1>6, EndpointShape
  <2>5. QED BY <1>1, <1>5, <2>2, <2>3, <2>4
<1>8. f = [h EXCEPT !.fresh = FALSE, !.sel = 0, !.give = 0]
  <2>1. f = [h EXCEPT !.fresh = FALSE, !.sel = IF s.fresh THEN 0 ELSE h.sel,
                      !.give = IF s.dbl THEN 1 - h.give ELSE h.give]
    BY <1>7, EndpointShape DEF GiveBuffer, h
  <2>2. QED BY <2>1, <1>1, <1>7
<1> HIDE DEF f
<1>9. f \in Endpoint /\ Single(f) /\ Given(f) /\ f.in = e.in
  <2>1. f \in Endpoint
    BY <1>7, <1>8, Members, EndpointShape
  <2>2. /\ f.in = h.in /\ f.dbl = h.dbl /\ f.take = h.take /\ f.view = h.view
        /\ f.outstanding = h.outstanding /\ f.queued = h.queued /\ f.cur = h.cur
        /\ f.submit = h.submit /\ f.handle = h.handle /\ f.avail = h.avail
        /\ f.done = h.done /\ f.owned = h.owned /\ f.halt = h.halt /\ f.bpid = h.bpid
        /\ f.sel = 0 /\ f.give = 0
    BY <1>7, <1>8, EndpointShape
  <2>3. QED BY <1>1, <1>7, <2>1, <2>2 DEF Single, Given, UnderWay
<1>10. QED BY <1>2, <1>9

(* A reset for a SETUP packet, whatever went before. *)
LEMMA FreshUnused ==
  ASSUME NEW e \in Endpoint, Single(e), e.done = <<>>
  PROVE  Fresh(e) \in Endpoint /\ Single(Fresh(e)) /\ Unused(Fresh(e)) /\ Fresh(e).in = e.in
<1> DEFINE z == [e EXCEPT !.cur = FALSE, !.submit = 0, !.handle = 0,
                          !.outstanding = FALSE, !.queued = FALSE]
           r == Recovered(z)
           b == ResetBuffers(z)
           f == Fresh(e)
<1>1. z \in Endpoint /\ Single(z) /\ z.done = <<>> /\ ~z.cur /\ z.in = e.in /\ z.halt = e.halt
  BY EndpointShape DEF Single
<1> HIDE DEF z
<1>2. /\ r \in Endpoint /\ Single(r) /\ r.done = <<>> /\ ~r.cur /\ r.in = e.in
      /\ r.avail = {} /\ r.owned = 1
  <2>1. r = [z EXCEPT !.avail = {}, !.owned = 1, !.give = 0, !.take = 0, !.fresh = TRUE]
    BY <1>1 DEF Recovered, Buffers, Single
  <2> HIDE DEF r
  <2>2. QED BY <1>1, <2>1, Members, EndpointShape DEF Single
<1> HIDE DEF r
<1>3. /\ b \in Endpoint /\ Single(b) /\ b.done = <<>> /\ ~b.cur /\ b.in = e.in
      /\ b.avail = {} /\ b.owned = 1
  <2> DEFINE q == IF z.avail # {} /\ (~z.dbl \/ z.owned = 1) THEN 1 - r.pid ELSE r.pid
  <2>1. q \in Bit
    BY <1>2, EndpointShape DEF Bit
  <2> HIDE DEF q
  <2>2. b = [r EXCEPT !.pid = q]
    BY <1>2, EndpointShape DEF ResetBuffers, r, q
  <2>3. QED BY <1>2, <2>1, <2>2, EndpointShape DEF Single
<1> HIDE DEF b
<1>4. f = [[b EXCEPT !.pid = b.pid, !.view = 2, !.halt = 0] EXCEPT !.pid = 1]
  BY <1>3, EndpointShape DEF Fresh, ResetEndpoint, b, z
<1> HIDE DEF f
<1>5. f \in Endpoint /\ Single(f) /\ Unused(f) /\ f.in = e.in
  BY <1>3, <1>4, Members, EndpointShape DEF Single, Unused, Idle
<1>6. QED BY <1>5 DEF f

(* A stall, to refuse a request. *)
LEMMA StallRefuses ==
  ASSUME NEW e \in Endpoint, Single(e), Unused(e)
  PROVE  LET f == Stall(ResetBuffers(e), HS_NON_HALT_STALL)
         IN  f \in Endpoint /\ Single(f) /\ Idle(f) /\ f.halt = 1 /\ f.in = e.in
<1> DEFINE r == Recovered(e)
           f == Stall(ResetBuffers(e), HS_NON_HALT_STALL)
<1>1. /\ r \in Endpoint /\ Single(r) /\ r.done = <<>> /\ ~r.cur /\ r.in = e.in
      /\ r.avail = {} /\ r.owned = 1 /\ r.halt = 0
  <2>1. r = [e EXCEPT !.avail = {}, !.owned = 1, !.give = 0, !.take = 0, !.fresh = TRUE]
    BY DEF Recovered, Buffers, Single
  <2> HIDE DEF r
  <2>2. QED BY <2>1, Members, EndpointShape DEF Single, Unused, Idle
<1> HIDE DEF r
<1>2. ResetBuffers(e) = r
  <2>1. ResetBuffers(e) = [r EXCEPT !.pid = r.pid]
    BY <1>1, EndpointShape DEF ResetBuffers, r, Unused, Idle
  <2>2. QED BY <1>1, <2>1, EndpointShape
<1>3. f = [r EXCEPT !.halt = 1]
  BY <1>1, <1>2 DEF Stall
<1> HIDE DEF f
<1>4. f \in Endpoint /\ Single(f) /\ Idle(f) /\ f.halt = 1 /\ f.in = e.in
  BY <1>1, <1>3, Members, EndpointShape DEF Single, Idle
<1>5. QED BY <1>4 DEF f

(* The packet is completed, by the controller; *)
LEMMA CompleteMoves ==
  ASSUME NEW e \in Endpoint, Single(e), Given(e)
  PROVE  Complete(e) \in Endpoint /\ Single(Complete(e)) /\ Moved(Complete(e))
           /\ Complete(e).in = e.in
<1> DEFINE data == IF e.in THEN e.data ELSE [e.data EXCEPT ![0] = e.seq]
           seq == IF e.in THEN e.seq ELSE (e.seq + 1) % SeqMod
           last == IF e.in THEN e.data[0] ELSE e.last
           f == Complete(e)
<1>1. /\ e.data \in Filled /\ e.seq \in Numbers /\ e.last \in Numbers /\ e.sel = 0 /\ ~e.dbl
      /\ e.avail = {0} /\ e.done = <<>>
  BY EndpointShape DEF Single, Given
<1>2. data \in Filled /\ seq \in Numbers /\ last \in Numbers
  BY <1>1, NextNumber, Members DEF Filled
<1>3. f = [e EXCEPT !.avail = {}, !.done = <<0>>, !.sel = 0, !.data = data, !.seq = seq,
                    !.last = last]
  <2>1. e.avail \ {e.sel} = {} /\ Append(e.done, e.sel) = <<0>>
    BY <1>1
  <2>2. f = [e EXCEPT !.avail = e.avail \ {e.sel}, !.done = Append(e.done, e.sel),
                      !.sel = e.sel, !.data = data, !.seq = seq, !.last = last]
    BY <1>1, EndpointShape DEF Complete
  <2>3. QED BY <1>1, <2>1, <2>2
<1> HIDE DEF data, seq, last, f
<1>4. f \in Endpoint /\ Single(f) /\ Moved(f) /\ f.in = e.in
  BY <1>2, <1>3, Members, EndpointShape DEF Single, Given, UnderWay, Moved
<1>5. QED BY <1>4 DEF f

(* and handled, by the device: the transfer has ended. *)
LEMMA HandleEnds ==
  ASSUME NEW e \in Endpoint, Single(e), Moved(e)
  PROVE  LET f == HandleTransfer(e, "done", 0)
         IN  f \in Endpoint /\ Single(f) /\ Idle(f) /\ f.halt = 0 /\ f.in = e.in
<1> DEFINE g == [[e EXCEPT !.done = Tail(@), !.owned = @ + 1] EXCEPT !.take = Head(e.done)]
           c == Called(g, "done")
           f == HandleTransfer(e, "done", 0)
<1>1. f = Handled(c, "done", 0)
  BY DEF HandleTransfer, Deliver, Moved, UnderWay, Single
<1>2. Tail(e.done) = <<>> /\ Head(e.done) = 0 /\ e.owned + 1 = 1
  BY DEF Moved, UnderWay
<1>3. /\ g \in Endpoint /\ Single(g) /\ g.done = <<>> /\ g.owned = 1 /\ g.cur /\ g.avail = {}
      /\ g.submit = 0 /\ g.handle = 1 /\ g.halt = 0 /\ g.in = e.in
  <2>1. g = [[e EXCEPT !.done = <<>>, !.owned = 1] EXCEPT !.take = 0]
    BY <1>2
  <2> HIDE DEF g
  <2>2. QED BY <2>1, Members, EndpointShape DEF Single, Moved, UnderWay
<1> HIDE DEF g
<1>4. /\ c \in Endpoint /\ Single(c) /\ c.done = <<>> /\ c.owned = 1 /\ c.cur /\ c.avail = {}
      /\ c.submit = 0 /\ c.handle = 1 /\ c.halt = 0 /\ c.in = e.in
  <2>1. CASE g.in
    <3>1. c = g
      BY <1>3, <2>1 DEF Called
    <3>2. QED BY <1>3, <3>1
  <2>2. CASE ~g.in
    <3> DEFINE s == [g EXCEPT !.view = 0, !.last = g.data[0], !.pos = g.pos + 1]
               v == [s EXCEPT !.view = 2]
    <3>1. g.data[0] \in Numbers /\ g.pos + 1 \in Nat /\ CurrentBuffer(g) = 0
      BY <1>3, <2>2, Members, EndpointShape DEF Filled, CurrentBuffer, Single
    <3>2. c = GiveAsMany(v, "done")
      BY <1>3, <2>2, <3>1, EndpointShape DEF Called, OnPacketOut
    <3>3. /\ v \in Endpoint /\ Single(v) /\ v.done = <<>> /\ v.owned = 1 /\ v.cur /\ v.avail = {}
          /\ v.submit = 0 /\ v.handle = 1 /\ v.halt = 0 /\ v.in = e.in
      BY <1>3, <3>1, Members, EndpointShape DEF Single
    <3> HIDE DEF v
    <3>4. GiveAsMany(v, "done") = v
      BY <3>3 DEF GiveAsMany, GiveBuffers, Least
    <3>5. QED BY <3>2, <3>3, <3>4
  <2>3. QED BY <2>1, <2>2
<1> HIDE DEF c
<1>5. f = [[c EXCEPT !.handle = 0] EXCEPT !.cur = FALSE]
  <2> DEFINE k == [c EXCEPT !.handle = 0]
  <2>1. k.halt = 0 /\ k.handle = 0 /\ ~k.outstanding
    BY <1>4, EndpointShape DEF Single
  <2>2. f = CheckCompletion(k, "done", 0)
    <3>1. c.handle - 1 = 0
      BY <1>4
    <3>2. f = CheckCompletion([c EXCEPT !.handle = c.handle - 1], "done", 0)
      BY <1>1, <1>4, EndpointShape DEF Handled
    <3>3. QED BY <3>1, <3>2
  <2> HIDE DEF k
  <2>3. CheckCompletion(k, "done", 0) = [k EXCEPT !.cur = FALSE]
    BY <2>1 DEF CheckCompletion, Ended
  <2>4. QED BY <2>2, <2>3 DEF k
<1> HIDE DEF f
<1>6. f \in Endpoint /\ Single(f) /\ Idle(f) /\ f.halt = 0 /\ f.in = e.in
  BY <1>4, <1>5, EndpointShape DEF Single, Idle
<1>7. QED BY <1>6 DEF f

-----------------------------------------------------------------------------
Addresses == 0..MaxAddress
Configs == {0, 1}
Halts == {HS_NONE, HS_HALTED, HS_HALTED_ON_CONDITION}

LEMMA DeviceShape ==
  Device = [in : Endpoint, out : Endpoint, onIn : Callbacks, pending : Addresses,
            address : Addresses, config : Configs, bulk : Halts, status : Configs]
BY Zenon DEF Device, Addresses, Configs, Halts

LEMMA DeviceParts ==
  ASSUME NEW d \in Device
  PROVE  /\ d.in \in Endpoint /\ d.out \in Endpoint /\ d.onIn \in Callbacks
         /\ d.pending \in Addresses /\ d.address \in Addresses /\ d.config \in {0, 1}
         /\ d.bulk \in {0, 2, 3} /\ d.status \in {0, 1}
BY DeviceShape DEF Configs, Halts

LEMMA RequestKinds ==
  ASSUME NEW p \in Requests
  PROVE  /\ p.kind \in {"set_address", "set_config", "get", "unknown", "set_halt",
                         "clear_halt", "get_halt", "class_reset", "get_interface"}
         /\ p.kind = "set_config" => p.value \in 0..2
         /\ p.kind = "set_address" => p.value \in Nat
BY MaxAddressAssumption DEF Requests, EndpointRequests, InterfaceRequests

(* What the handlers of one stage leave alone. *)
SameRest(d, s) ==
  /\ s.pending = d.pending /\ s.address = d.address /\ s.config = d.config
  /\ s.bulk = d.bulk /\ s.status = d.status

NoneDone(d) == d.in.done = <<>> /\ d.out.done = <<>>

(* A device that has accepted a SETUP packet and answers it next. *)
Ready(d) ==
  /\ d \in Device
  /\ d.in.in /\ ~d.out.in /\ Single(d.in) /\ Single(d.out)
  /\ Unused(d.in) /\ Unused(d.out)
  /\ d.config = 0 => d.bulk = HS_NONE

LEMMA AcceptReady ==
  ASSUME NEW d \in Device, Pipe(d), NoneDone(d)
  PROVE  Ready(Accept(d)) /\ SameRest(d, Accept(d))
<1> DEFINE i == Fresh(d.in)
           o == Fresh(d.out)
           a == Accept(d)
<1>1. /\ i \in Endpoint /\ Single(i) /\ Unused(i) /\ i.in
      /\ o \in Endpoint /\ Single(o) /\ Unused(o) /\ ~o.in
  BY DeviceParts, FreshUnused DEF Pipe, NoneDone
<1> HIDE DEF i, o
<1>2. a = [d EXCEPT !.in = i, !.out = o]
  BY DEF Accept, i, o
<1> HIDE DEF a
<1>3. a \in Device /\ a.in = i /\ a.out = o /\ SameRest(d, a)
  BY <1>1, <1>2, DeviceShape DEF SameRest
<1>4. Ready(a)
  BY <1>1, <1>3 DEF Ready, SameRest, Pipe
<1>5. QED BY <1>3, <1>4 DEF a

LEMMA InStarts ==
  ASSUME NEW d, Ready(d), NEW c \in Callbacks
  PROVE  /\ StartIn(d, c) \in Device /\ Pipe(StartIn(d, c)) /\ NoneDone(StartIn(d, c))
         /\ SameRest(d, StartIn(d, c)) /\ StartIn(d, c).onIn = c
         /\ StartIn(d, c).in.halt = HS_NONE
<1> DEFINE i == StartTransfer(d.in, 1, "done")
           s == StartIn(d, c)
<1>1. i \in Endpoint /\ Single(i) /\ Given(i) /\ i.in
  BY DeviceParts, StartGives DEF Ready
<1> HIDE DEF i
<1>2. s = [d EXCEPT !.in = i, !.onIn = c]
  BY DEF StartIn, i
<1> HIDE DEF s
<1>3. s \in Device /\ s.in = i /\ s.out = d.out /\ s.onIn = c /\ SameRest(d, s)
  BY <1>1, <1>2, DeviceShape DEF SameRest, Ready
<1>4. Pipe(s) /\ NoneDone(s) /\ s.in.halt = HS_NONE
  BY <1>1, <1>3 DEF Pipe, NoneDone, Given, UnderWay, Unused, Idle, Ready, SameRest
<1>5. QED BY <1>3, <1>4 DEF s

LEMMA PipeStalls ==
  ASSUME NEW d, Ready(d)
  PROVE  /\ StallPipe(d) \in Device /\ Pipe(StallPipe(d)) /\ NoneDone(StallPipe(d))
         /\ SameRest(d, StallPipe(d)) /\ StallPipe(d).in.halt # HS_NONE
<1> DEFINE i == Stall(ResetBuffers(d.in), HS_NON_HALT_STALL)
           o == Stall(ResetBuffers(d.out), HS_NON_HALT_STALL)
           s == StallPipe(d)
<1>1. /\ i \in Endpoint /\ Single(i) /\ Idle(i) /\ i.in /\ i.halt = 1
      /\ o \in Endpoint /\ Single(o) /\ Idle(o) /\ ~o.in /\ o.halt = 1
  BY DeviceParts, StallRefuses DEF Ready
<1> HIDE DEF i, o
<1>2. s = [d EXCEPT !.in = i, !.out = o]
  BY DEF StallPipe, i, o
<1> HIDE DEF s
<1>3. s \in Device /\ s.in = i /\ s.out = o /\ SameRest(d, s)
  BY <1>1, <1>2, DeviceShape DEF SameRest, Ready
<1>4. Pipe(s) /\ NoneDone(s) /\ s.in.halt # HS_NONE
  BY <1>1, <1>3 DEF Pipe, NoneDone, Idle, Ready, SameRest
<1>5. QED BY <1>3, <1>4 DEF s

-----------------------------------------------------------------------------
(* What a request makes of the halt of the bulk endpoint. *)
BulkAfter(config, bulk, p) ==
  IF p.kind = "set_config" /\ ValidConfig(p.value) THEN HS_NONE
  ELSE IF config = 0 THEN bulk
  ELSE IF p.kind = "class_reset" THEN HS_NONE
  ELSE IF p.kind = "set_halt" THEN IF bulk < HS_HALTED THEN HS_HALTED ELSE bulk
  ELSE IF p.kind = "clear_halt" THEN IF bulk < HS_HALTED_ON_CONDITION THEN HS_NONE ELSE bulk
  ELSE bulk

(* The device s has handled the request p that d has received. *)
Replied(d, p, s) ==
  /\ s \in Device /\ Pipe(s) /\ NoneDone(s)
  /\ s.address = d.address
  /\ s.config = IF p.kind = "set_config" /\ ValidConfig(p.value) THEN p.value ELSE d.config
  /\ s.bulk = BulkAfter(d.config, d.bulk, p)
  /\ s.in.halt # HS_NONE => Refusable(p, s.config)
  /\ s.in.halt = HS_NONE =>
       /\ s.onIn = "set_address" <=> p.kind = "set_address"
       /\ p.kind = "set_address" => s.pending = p.value
       /\ p.kind = "set_config" => ValidConfig(p.value)
       /\ p.kind = "set_halt" => d.config # 0
       /\ p.kind = "get_halt" => (s.status = 1 <=> s.bulk # HS_NONE)

LEMMA DeviceReplies ==
  ASSUME NEW d, Ready(d), NEW p \in Requests,
         p.kind \notin InterfaceRequests \cup EndpointRequests
  PROVE  Replied(d, p, DeviceRequest(d, p))
<1> DEFINE s == DeviceRequest(d, p)
<1> USE DEF InterfaceRequests, EndpointRequests
<1>1. d \in Device /\ d.config \in {0, 1}
  BY DeviceParts DEF Ready
<1>2. CASE p.kind = "set_address" /\ ValidAddress(p.value)
  <2> DEFINE b == [d EXCEPT !.pending = p.value]
  <2>1. p.value \in Addresses
    BY <1>2, MaxAddressAssumption DEF ValidAddress, Addresses
  <2>2. /\ Ready(b) /\ b.pending = p.value /\ b.address = d.address
        /\ b.config = d.config /\ b.bulk = d.bulk
    BY <1>1, <2>1, DeviceShape DEF Ready
  <2>3. s = StartIn(b, "set_address")
    BY <1>2 DEF DeviceRequest
  <2> HIDE DEF b
  <2>4. /\ s \in Device /\ Pipe(s) /\ NoneDone(s) /\ SameRest(b, s)
        /\ s.onIn = "set_address" /\ s.in.halt = HS_NONE
    BY <2>2, <2>3, InStarts DEF Callbacks
  <2> HIDE DEF s
  <2>5. Replied(d, p, s)
    BY <1>2, <2>2, <2>4 DEF Replied, SameRest, BulkAfter
  <2>6. QED BY <2>5 DEF s
<1>3. CASE p.kind = "set_config" /\ ValidConfig(p.value)
  <2> DEFINE b == SetConfig(d, p.value)
  <2>1. p.value \in Configs /\ 0 \in Halts
    BY <1>3 DEF ValidConfig, Configs, Halts
  <2>2. /\ Ready(b) /\ b.address = d.address /\ b.config = p.value /\ b.bulk = HS_NONE
    BY <1>1, <2>1, DeviceShape DEF Ready, SetConfig
  <2>3. s = StartIn(b, "none")
    BY <1>3 DEF DeviceRequest
  <2> HIDE DEF b
  <2>4. /\ s \in Device /\ Pipe(s) /\ NoneDone(s) /\ SameRest(b, s)
        /\ s.onIn = "none" /\ s.in.halt = HS_NONE
    BY <2>2, <2>3, InStarts DEF Callbacks
  <2> HIDE DEF s
  <2>5. Replied(d, p, s)
    BY <1>3, <2>2, <2>4 DEF Replied, SameRest, BulkAfter
  <2>6. QED BY <2>5 DEF s
<1>4. CASE p.kind = "get"
  <2>1. s = StartIn(d, "in_ack")
    BY <1>4 DEF DeviceRequest
  <2>2. /\ s \in Device /\ Pipe(s) /\ NoneDone(s) /\ SameRest(d, s)
        /\ s.onIn = "in_ack" /\ s.in.halt = HS_NONE
    BY <2>1, InStarts DEF Callbacks
  <2> HIDE DEF s
  <2>3. Replied(d, p, s)
    BY <1>4, <2>2 DEF Replied, SameRest, BulkAfter
  <2>4. QED BY <2>3 DEF s
<1>5. CASE /\ ~(p.kind = "set_address" /\ ValidAddress(p.value))
           /\ ~(p.kind = "set_config" /\ ValidConfig(p.value))
           /\ p.kind # "get"
  <2>1. s = StallPipe(d)
    BY <1>5 DEF DeviceRequest
  <2>2. /\ s \in Device /\ Pipe(s) /\ NoneDone(s) /\ SameRest(d, s)
        /\ s.in.halt # HS_NONE
    BY <2>1, PipeStalls
  <2>3. Refusable(p, d.config)
    BY <1>5, RequestKinds DEF Refusable
  <2> HIDE DEF s
  <2>4. Replied(d, p, s)
    BY <1>5, <2>2, <2>3 DEF Replied, SameRest, BulkAfter
  <2>5. QED BY <2>4 DEF s
<1>6. QED BY <1>2, <1>3, <1>4, <1>5

LEMMA InterfaceReplies ==
  ASSUME NEW d, Ready(d), NEW p \in Requests, p.kind \in InterfaceRequests, d.config # 0
  PROVE  Replied(d, p, InterfaceRequest(d, p))
<1> DEFINE s == InterfaceRequest(d, p)
<1> USE DEF InterfaceRequests
<1>1. d \in Device /\ 0 \in Halts /\ 0 \in Configs
  BY DEF Ready, Halts, Configs
<1>2. CASE p.kind = "class_reset"
  <2> DEFINE b == [d EXCEPT !.bulk = HS_NONE]
  <2>1. Ready(b) /\ b.address = d.address /\ b.config = d.config /\ b.bulk = HS_NONE
    BY <1>1, DeviceShape DEF Ready
  <2>2. s = StartIn(b, "none")
    BY <1>2 DEF InterfaceRequest
  <2> HIDE DEF b
  <2>3. /\ s \in Device /\ Pipe(s) /\ NoneDone(s) /\ SameRest(b, s)
        /\ s.onIn = "none" /\ s.in.halt = HS_NONE
    BY <2>1, <2>2, InStarts DEF Callbacks
  <2> HIDE DEF s
  <2>4. Replied(d, p, s)
    BY <1>2, <2>1, <2>3 DEF Replied, SameRest, BulkAfter
  <2>5. QED BY <2>4 DEF s
<1>3. CASE p.kind = "get_interface"
  <2> DEFINE b == [d EXCEPT !.status = 0]
  <2>1. Ready(b) /\ b.address = d.address /\ b.config = d.config /\ b.bulk = d.bulk
    BY <1>1, DeviceShape DEF Ready
  <2>2. s = StartIn(b, "in_ack")
    BY <1>3 DEF InterfaceRequest
  <2> HIDE DEF b
  <2>3. /\ s \in Device /\ Pipe(s) /\ NoneDone(s) /\ SameRest(b, s)
        /\ s.onIn = "in_ack" /\ s.in.halt = HS_NONE
    BY <2>1, <2>2, InStarts DEF Callbacks
  <2> HIDE DEF s
  <2>4. Replied(d, p, s)
    BY <1>3, <2>1, <2>3 DEF Replied, SameRest, BulkAfter
  <2>5. QED BY <2>4 DEF s
<1>4. QED BY <1>2, <1>3

LEMMA EndpointReplies ==
  ASSUME NEW d, Ready(d), NEW p \in Requests, p.kind \in EndpointRequests, d.config # 0
  PROVE  Replied(d, p, EndpointRequest(d, p))
<1> DEFINE s == EndpointRequest(d, p)
<1> USE DEF EndpointRequests
<1>1. d \in Device /\ d.bulk \in {0, 2, 3}
  BY DeviceParts DEF Ready
<1>2. CASE p.kind \in {"set_halt", "clear_halt"}
  <2> DEFINE bulk == BulkAfter(d.config, d.bulk, p)
             b == [d EXCEPT !.bulk = bulk]
  <2>1. bulk \in Halts
    BY <1>1, <1>2 DEF BulkAfter, Halts
  <2>2. s = StartIn(b, "none")
    BY <1>2 DEF EndpointRequest, BulkAfter
  <2> HIDE DEF bulk
  <2>3. Ready(b) /\ b.address = d.address /\ b.config = d.config /\ b.bulk = bulk
    BY <1>1, <2>1, DeviceShape DEF Ready
  <2> HIDE DEF b
  <2>4. /\ s \in Device /\ Pipe(s) /\ NoneDone(s) /\ SameRest(b, s)
        /\ s.onIn = "none" /\ s.in.halt = HS_NONE
    BY <2>2, <2>3, InStarts DEF Callbacks
  <2> HIDE DEF s
  <2>5. Replied(d, p, s)
    BY <1>2, <2>3, <2>4 DEF Replied, SameRest, bulk
  <2>6. QED BY <2>5 DEF s
<1>3. CASE p.kind = "get_halt"
  <2> DEFINE status == IF d.bulk > HS_NON_HALT_STALL THEN 1 ELSE 0
             b == [d EXCEPT !.status = status]
  <2>1. status \in Configs /\ (status = 1 <=> d.bulk # HS_NONE)
    BY <1>1 DEF Configs
  <2>2. s = StartIn(b, "in_ack")
    BY <1>3 DEF EndpointRequest
  <2> HIDE DEF status
  <2>3. /\ Ready(b) /\ b.address = d.address /\ b.config = d.config /\ b.bulk = d.bulk
        /\ b.status = status
    BY <1>1, <2>1, DeviceShape DEF Ready
  <2> HIDE DEF b
  <2>4. /\ s \in Device /\ Pipe(s) /\ NoneDone(s) /\ SameRest(b, s)
        /\ s.onIn = "in_ack" /\ s.in.halt = HS_NONE
    BY <2>2, <2>3, InStarts DEF Callbacks
  <2> HIDE DEF s
  <2>5. Replied(d, p, s)
    BY <1>3, <2>1, <2>3, <2>4 DEF Replied, SameRest, BulkAfter
  <2>6. QED BY <2>5 DEF s
<1>4. QED BY <1>2, <1>3

(* A SETUP packet is answered, or refused. *)
LEMMA SetupReplies ==
  ASSUME NEW d \in Device, Pipe(d), NoneDone(d), NEW p \in Requests
  PROVE  Replied(d, p, HandleSetup(d, p))
<1> DEFINE a == Accept(d)
           s == Dispatch(a, p)
<1>1. Ready(a) /\ SameRest(d, a)
  BY AcceptReady
<1> HIDE DEF a
<1>2. Replied(a, p, s)
  <2>1. CASE p.kind \in InterfaceRequests /\ a.config # 0
    <3>1. s = InterfaceRequest(a, p)
      BY <2>1, Zenon DEF Dispatch, EndpointRequests, InterfaceRequests
    <3>2. QED BY <1>1, <2>1, <3>1, InterfaceReplies
  <2>2. CASE p.kind \in EndpointRequests /\ a.config # 0
    <3>1. s = EndpointRequest(a, p)
      BY <2>2 DEF Dispatch, EndpointRequests, InterfaceRequests
    <3>2. QED BY <1>1, <2>2, <3>1, EndpointReplies
  <2>3. CASE p.kind \notin InterfaceRequests \cup EndpointRequests
    <3>1. s = DeviceRequest(a, p)
      BY <2>3 DEF Dispatch
    <3>2. QED BY <1>1, <2>3, <3>1, DeviceReplies
  <2>4. CASE p.kind \in InterfaceRequests \cup EndpointRequests /\ a.config = 0
    <3>1. s = StallPipe(a)
      BY <2>4 DEF Dispatch
    <3>2. /\ s \in Device /\ Pipe(s) /\ NoneDone(s) /\ SameRest(a, s)
          /\ s.in.halt # HS_NONE
      BY <1>1, <3>1, PipeStalls
    <3>3. Refusable(p, a.config)
      BY <2>4 DEF Refusable
    <3> HIDE DEF s
    <3>4. Replied(a, p, s)
      BY <2>4, <3>2, <3>3
      DEF Replied, SameRest, BulkAfter, InterfaceRequests, EndpointRequests
    <3>5. QED BY <3>4
  <2>5. QED BY <2>1, <2>2, <2>3, <2>4
<1> HIDE DEF s
<1>3. Replied(d, p, s)
  BY <1>1, <1>2 DEF Replied, SameRest
<1>4. QED BY <1>3 DEF s, a, HandleSetup

-----------------------------------------------------------------------------
(* The completions are handled: s is what they leave of d. *)
Settled(d, s) ==
  /\ s \in Device /\ Pipe(s) /\ NoneDone(s)
  /\ s.pending = d.pending /\ s.config = d.config /\ s.bulk = d.bulk
  /\ s.status = d.status /\ s.onIn = d.onIn /\ s.in.halt = d.in.halt
  /\ s.address = IF d.in.done # <<>> /\ d.onIn = "set_address" THEN d.pending ELSE d.address
  /\ NoneDone(d) => s = d

LEMMA InCompletionSettled ==
  ASSUME NEW d \in Device, Pipe(d), Moved(d.in)
  PROVE  Settled(d, HandleBuffers(d))
<1> DEFINE e == HandleTransfer(d.in, "done", 0)
           b == [d EXCEPT !.in = e]
           s == HandleBuffers(d)
<1>1. /\ d.in \in Endpoint /\ d.out \in Endpoint /\ d.pending \in Addresses
      /\ d.onIn \in Callbacks /\ Single(d.in) /\ Single(d.out) /\ d.in.in /\ ~d.out.in
      /\ d.in.done # <<>> /\ d.in.cur /\ d.in.halt = 0
      /\ (d.config = 0 => d.bulk = HS_NONE)
  BY DeviceParts DEF Pipe, Moved, UnderWay
<1>2. Unused(d.out) /\ d.out.done = <<>>
  BY DEF Pipe, Moved, Idle, Unused
<1>3. e \in Endpoint /\ Single(e) /\ Idle(e) /\ e.halt = 0 /\ e.in
  BY <1>1, HandleEnds
<1> HIDE DEF e
<1>4. /\ b \in Device /\ b.in = e /\ b.out = d.out /\ b.onIn = d.onIn /\ SameRest(d, b)
  BY <1>3, DeviceShape DEF SameRest
<1>5. s = HandleOut(Completed(b))
  <2>1. HandleIn(d) = Completed(b)
    BY <1>1, <1>3 DEF HandleIn, e, Idle
  <2>2. QED BY <2>1 DEF HandleBuffers
<1> HIDE DEF b, s
<1>6. CASE d.onIn = "set_address"
  <2> DEFINE c == [b EXCEPT !.address = b.pending]
  <2>1. Completed(b) = c
    BY <1>4, <1>6 DEF Completed
  <2>2. /\ c \in Device /\ c.in = e /\ c.out = d.out /\ c.onIn = d.onIn
        /\ c.address = d.pending /\ c.pending = d.pending /\ c.config = d.config
        /\ c.bulk = d.bulk /\ c.status = d.status
    BY <1>1, <1>4, DeviceShape DEF SameRest
  <2> HIDE DEF c
  <2>3. s = c
    BY <1>2, <1>5, <2>1, <2>2 DEF HandleOut
  <2>4. QED
    BY <1>1, <1>2, <1>3, <1>6, <2>2, <2>3 DEF Settled, Pipe, NoneDone, Unused, Idle, s
<1>7. CASE d.onIn = "in_ack"
  <2> DEFINE o == StartTransfer(b.out, 1, "done")
             c == [b EXCEPT !.out = o]
  <2>1. Completed(b) = c
    BY <1>4, <1>7 DEF Completed, StartOut
  <2>2. o \in Endpoint /\ Single(o) /\ Given(o) /\ ~o.in
    BY <1>1, <1>2, <1>4, StartGives
  <2> HIDE DEF o
  <2>3. /\ c \in Device /\ c.in = e /\ c.out = o /\ c.onIn = d.onIn /\ SameRest(d, c)
    BY <1>4, <2>2, DeviceShape DEF SameRest
  <2> HIDE DEF c
  <2>4. s = c
    BY <1>5, <2>1, <2>2, <2>3 DEF HandleOut, Given
  <2>5. QED
    BY <1>1, <1>3, <1>7, <2>2, <2>3, <2>4
    DEF Settled, SameRest, Pipe, NoneDone, Idle, Given, UnderWay, s
<1>8. CASE d.onIn \notin {"set_address", "in_ack"}
  <2>1. Completed(b) = b
    BY <1>4, <1>8 DEF Completed
  <2>2. s = b
    BY <1>2, <1>4, <1>5, <2>1 DEF HandleOut
  <2>3. QED
    BY <1>1, <1>2, <1>3, <1>4, <1>8, <2>2
    DEF Settled, SameRest, Pipe, NoneDone, Unused, Idle, s
<1>9. QED BY <1>6, <1>7, <1>8

LEMMA OutCompletionSettled ==
  ASSUME NEW d \in Device, Pipe(d), Moved(d.out)
  PROVE  Settled(d, HandleBuffers(d))
<1> DEFINE e == HandleTransfer(d.out, "done", 0)
           b == [d EXCEPT !.out = e]
<1>1. /\ d.in \in Endpoint /\ d.out \in Endpoint /\ Single(d.in) /\ Single(d.out)
      /\ d.in.in /\ ~d.out.in /\ d.out.done # <<>> /\ (d.config = 0 => d.bulk = HS_NONE)
  BY DeviceParts DEF Pipe, Moved, UnderWay
<1>2. Idle(d.in) /\ d.in.done = <<>>
  BY DEF Pipe, Moved, UnderWay, Idle, Unused
<1>3. e \in Endpoint /\ Single(e) /\ Idle(e) /\ e.halt = 0 /\ ~e.in
  BY <1>1, HandleEnds
<1>4. HandleBuffers(d) = b
  BY <1>1, <1>2 DEF HandleBuffers, HandleIn, HandleOut
<1> HIDE DEF e
<1>5. /\ b \in Device /\ b.in = d.in /\ b.out = e /\ b.onIn = d.onIn /\ SameRest(d, b)
  BY <1>3, DeviceShape DEF SameRest
<1> HIDE DEF b
<1>6. Settled(d, b)
  BY <1>1, <1>2, <1>3, <1>5 DEF Settled, SameRest, Pipe, NoneDone, Idle
<1>7. QED BY <1>4, <1>6

LEMMA NothingToSettle ==
  ASSUME NEW d, NoneDone(d)
  PROVE  HandleBuffers(d) = d
BY DEF HandleBuffers, HandleIn, HandleOut, NoneDone

LEMMA BuffersSettled ==
  ASSUME NEW d \in Device, Pipe(d)
  PROVE  Settled(d, HandleBuffers(d))
<1>1. CASE Moved(d.in)
  BY <1>1, InCompletionSettled
<1>2. CASE Moved(d.out)
  BY <1>2, OutCompletionSettled
<1>3. CASE ~Moved(d.in) /\ ~Moved(d.out)
  <2>1. NoneDone(d)
    BY <1>3 DEF Pipe, NoneDone, Idle, Unused, Given
  <2>2. QED BY <2>1, NothingToSettle DEF Settled, NoneDone
<1>4. QED BY <1>1, <1>2, <1>3

(* A bus reset leaves the device s unaddressed and unconfigured, and its
   control endpoints as they were in d. *)
Unaddressed(d, s) ==
  /\ s \in Device /\ Pipe(s) /\ NoneDone(s)
  /\ s.address = 0 /\ s.config = 0 /\ s.bulk = HS_NONE
  /\ s.in.halt = d.in.halt /\ s.onIn = d.onIn /\ s.pending = d.pending

LEMMA ResetUnaddresses ==
  ASSUME NEW d \in Device, Pipe(d), NoneDone(d)
  PROVE  Unaddressed(d, HandleBusReset(d))
<1> DEFINE c == SetConfig(d, 0)
           s == [c EXCEPT !.address = 0]
<1>1. /\ c \in Device /\ c.in = d.in /\ c.out = d.out /\ c.config = 0 /\ c.bulk = HS_NONE
      /\ c.onIn = d.onIn /\ c.pending = d.pending
  BY DeviceShape DEF SetConfig, Configs, Halts
<1> HIDE DEF c
<1>2. c.in = [c.in EXCEPT !.done = <<>>] /\ c.out = [c.out EXCEPT !.done = <<>>]
  BY <1>1, DeviceParts, EndpointShape DEF NoneDone
<1>3. HandleBusReset(d) =
        [c EXCEPT !.address = 0, !.in = [c.in EXCEPT !.done = <<>>],
                  !.out = [c.out EXCEPT !.done = <<>>]]
  BY <1>1, DeviceShape DEF HandleBusReset, c
<1>4. HandleBusReset(d) = s
  <2>1. HandleBusReset(d) = [c EXCEPT !.address = 0, !.in = c.in, !.out = c.out]
    BY <1>2, <1>3
  <2>2. QED BY <1>1, <2>1, DeviceShape
<1>5. /\ s \in Device /\ s.in = d.in /\ s.out = d.out /\ s.address = 0 /\ s.config = 0
      /\ s.bulk = HS_NONE /\ s.onIn = d.onIn /\ s.pending = d.pending
  BY <1>1, MaxAddressAssumption, DeviceShape DEF Addresses
<1> HIDE DEF s
<1>6. Unaddressed(d, s)
  BY <1>5 DEF Unaddressed, Pipe, NoneDone
<1>7. QED BY <1>4, <1>6

(* What the interrupt leaves, by its causes. *)
BeforeReset(d, causes, p) ==
  HandleBuffers(IF "setup" \in causes THEN HandleSetup(d, p) ELSE d)

Handles(d, causes, p, u, s) ==
  /\ u \in Device /\ Pipe(u) /\ NoneDone(u)
  /\ s \in Device /\ Pipe(s) /\ NoneDone(s)
  /\ "setup" \in causes => Replied(d, p, u)
  /\ "setup" \notin causes => Settled(d, u)
  /\ Resets(causes) => Unaddressed(u, s)
  /\ ~Resets(causes) => s = u

LEMMA IsrSettles ==
  ASSUME NEW d \in Device, Pipe(d), NEW p \in Requests, NEW causes,
         "setup" \in causes => NoneDone(d)
  PROVE  Handles(d, causes, p, BeforeReset(d, causes, p), AfterIsr(d, causes, p))
<1> DEFINE a == IF "setup" \in causes THEN HandleSetup(d, p) ELSE d
           u == BeforeReset(d, causes, p)
           s == AfterIsr(d, causes, p)
<1>1. /\ a \in Device /\ Pipe(a)
      /\ "setup" \in causes => Replied(d, p, a) /\ NoneDone(a)
  BY SetupReplies DEF Replied
<1>2. "setup" \notin causes => a = d
  OBVIOUS
<1>3. u = HandleBuffers(a) /\ s = IF Resets(causes) THEN HandleBusReset(u) ELSE u
  BY DEF AfterIsr, BeforeReset
<1> HIDE DEF a, u, s
<1>4. Settled(a, u)
  BY <1>1, <1>3, BuffersSettled
<1>5. u \in Device /\ Pipe(u) /\ NoneDone(u)
  BY <1>4 DEF Settled
<1>6. Unaddressed(u, HandleBusReset(u))
  BY <1>5, ResetUnaddresses
<1>7. "setup" \in causes => u = a
  BY <1>1, <1>4 DEF Settled
<1>8. s \in Device /\ Pipe(s) /\ NoneDone(s)
  BY <1>3, <1>5, <1>6 DEF Unaddressed
<1>9. Handles(d, causes, p, u, s)
  BY <1>1, <1>2, <1>3, <1>4, <1>5, <1>6, <1>7, <1>8 DEF Handles
<1>10. QED BY <1>9 DEF u, s

(* Without a cause there is nothing to do. *)
LEMMA NoCause ==
  ASSUME NEW d, NoneDone(d), NEW p
  PROVE  AfterIsr(d, {}, p) = d
BY NothingToSettle DEF AfterIsr, Resets

-----------------------------------------------------------------------------
(* What the invariant says of the interrupt that is pending: u is the device
   before it sees to a reset, s what is left. *)
Pending(u, s) ==
  /\ dev \in Device /\ packet \in Requests /\ host \in Host
  /\ irq \in SUBSET {"setup", "reset", "error"}
  /\ Pipe(dev) /\ ("setup" \in irq => NoneDone(dev) /\ host.stage # "status_out")
  /\ "reset" \in irq => host.stage = "idle"
  /\ "error" \in irq => host.lost \/ "reset" \in irq
  /\ Agree(s, packet, host)
  /\ Handles(dev, irq, packet, u, s)

LEMMA InvPending ==
  ASSUME ControlInv
  PROVE  Pending(BeforeReset(dev, irq, packet), AfterIsr(dev, irq, packet))
<1>1. /\ dev \in Device /\ packet \in Requests /\ host \in Host
      /\ irq \in SUBSET {"setup", "reset", "error"}
      /\ Pipe(dev) /\ ("setup" \in irq => NoneDone(dev) /\ host.stage # "status_out")
      /\ "reset" \in irq => host.stage = "idle"
      /\ "error" \in irq => host.lost \/ "reset" \in irq
      /\ Agree(AfterIsr(dev, irq, packet), packet, host)
  BY DEF ControlInv, TypeOK, NoneDone
<1>2. Handles(dev, irq, packet, BeforeReset(dev, irq, packet), AfterIsr(dev, irq, packet))
  BY <1>1, IsrSettles
<1>3. QED BY <1>1, <1>2 DEF Pending

(* Where the host may go on, at most an error is pending; then the device has
   forgotten it. *)
LEMMA AnswersCauses ==
  ASSUME NEW u, NEW s, Pending(u, s), Answers
  PROVE  /\ irq \in {{}, {"error"}}
         /\ "setup" \notin irq /\ "reset" \notin irq /\ Settled(dev, u)
         /\ Resets(irq) => host.lost
BY DEF Pending, Answers, Handles, Resets

LEMMA InitControl == Init => ControlInv
<1> SUFFICES ASSUME Init PROVE ControlInv
  OBVIOUS
<1> DEFINE i == InitEndpoint(TRUE, FALSE)
           o == InitEndpoint(FALSE, FALSE)
<1>1. /\ i \in Endpoint /\ Single(i) /\ Idle(i) /\ i.in /\ i.halt = 0
      /\ o \in Endpoint /\ Single(o) /\ Idle(o) /\ ~o.in /\ o.halt = 0
  <2>1. 0 \in Numbers /\ [b \in Bit |-> 0] \in Filled /\ [b \in Bit |-> 0] \in Toggles
    BY SeqModAssumption DEF Numbers, Filled, Toggles, Bit
  <2>2. ASSUME NEW in \in BOOLEAN
        PROVE  /\ InitEndpoint(in, FALSE) \in Endpoint /\ Single(InitEndpoint(in, FALSE))
               /\ Idle(InitEndpoint(in, FALSE)) /\ InitEndpoint(in, FALSE).in = in
               /\ InitEndpoint(in, FALSE).halt = 0
    BY <2>1, Members, EndpointShape DEF InitEndpoint, Single, Idle
  <2>3. QED BY <2>2
<1> HIDE DEF i, o
<1>2. dev = [in |-> i, out |-> o, onIn |-> "none", pending |-> 0, address |-> 0,
             config |-> 0, bulk |-> HS_NONE, status |-> 0]
  BY DEF Init, i, o
<1>3. /\ dev \in Device /\ dev.in = i /\ dev.out = o /\ dev.address = 0 /\ dev.config = 0
      /\ dev.bulk = HS_NONE
  <2>1. 0 \in Addresses /\ 0 \in Configs /\ HS_NONE \in Halts /\ "none" \in Callbacks
    BY MaxAddressAssumption DEF Addresses, Configs, Halts, Callbacks
  <2>2. QED BY <1>1, <1>2, <2>1, DeviceShape
<1>4. Pipe(dev) /\ NoneDone(dev)
  BY <1>1, <1>3 DEF Pipe, NoneDone, Idle
<1>5. packet \in Requests /\ irq = {} /\ host = InitHost
  BY DEF Init, Requests
<1>6. host \in Host
  BY <1>5, MaxAddressAssumption DEF Host, InitHost, Stages
<1>7. AfterIsr(dev, irq, packet) = dev
  BY <1>4, <1>5, NoCause
<1>8. Agree(dev, packet, host)
  BY <1>3, <1>5 DEF Agree, InitHost, AddressAgrees, ConfigAgrees, HaltedAsKnown
<1>9. QED BY <1>3, <1>4, <1>5, <1>6, <1>7, <1>8 DEF ControlInv, TypeOK

-----------------------------------------------------------------------------
(* The answer to a request that has just been handled, or the refusal. *)
LEMMA ReplyAnswers ==
  ASSUME NEW d \in Device, NEW p \in Requests, NEW u, Replied(d, p, u), NEW s, NEW h,
         s = u \/ (Unaddressed(u, s) /\ h.lost),
         h.lost \/ HaltedAsKnown(h, u.bulk # HS_NONE)
  PROVE  IF s.in.halt = HS_NONE THEN Answered(s, p, h) ELSE Refusable(p, s.config)
<1>1. d.bulk \in {0, 2, 3}
  BY DeviceParts
<1>2. s.in.halt = u.in.halt /\ s.onIn = u.onIn /\ s.pending = u.pending
  BY DEF Unaddressed
<1>3. CASE s.in.halt = HS_NONE
  <2>1. p.kind = "set_halt" => h.lost \/ s.bulk # HS_NONE
    BY <1>1, <1>2, <1>3 DEF Replied, BulkAfter
  <2>2. p.kind = "get_halt" => h.lost \/ HaltedAsKnown(h, s.status = 1)
    BY <1>2, <1>3 DEF Replied, HaltedAsKnown
  <2>3. QED BY <1>2, <1>3, <2>1, <2>2 DEF Replied, Answered
<1>4. CASE s.in.halt # HS_NONE
  <2>1. Refusable(p, u.config) /\ (s.config = u.config \/ s.config = 0)
    BY <1>2, <1>4 DEF Replied, Unaddressed
  <2>2. QED BY <1>4, <2>1 DEF Refusable
<1>5. QED BY <1>3, <1>4

(* The invariant already speaks of the device after the interrupt. *)
LEMMA IsrKeeps == ControlInv /\ Isr => ControlInv'
<1> SUFFICES ASSUME ControlInv, Isr PROVE ControlInv'
  OBVIOUS
<1> DEFINE u == BeforeReset(dev, irq, packet)
           s == AfterIsr(dev, irq, packet)
<1>1. Pending(u, s)
  BY InvPending
<1>2. dev' = s /\ irq' = {} /\ packet' = packet /\ host' = host
  BY DEF Isr
<1> HIDE DEF u, s
<1>3. /\ packet \in Requests /\ host \in Host /\ s \in Device /\ Pipe(s) /\ NoneDone(s)
      /\ Agree(s, packet, host)
  BY <1>1 DEF Pending, Handles
<1>4. AfterIsr(dev', irq', packet') = s
  BY <1>2, <1>3, NoCause
<1>5. QED BY <1>2, <1>3, <1>4 DEF ControlInv, TypeOK

LEMMA DriverHaltsKeeps ==
  ASSUME ControlInv, NEW level \in {HS_HALTED, HS_HALTED_ON_CONDITION}, DriverHalts(level)
  PROVE  ControlInv'
<1> DEFINE d == [dev EXCEPT !.bulk = level]
           b == BeforeReset(dev, irq, packet)
           a == AfterIsr(dev, irq, packet)
           u == BeforeReset(d, irq, packet)
           s == AfterIsr(d, irq, packet)
<1>1. Pending(b, a)
  BY InvPending
<1>2. /\ dev' = d /\ packet' = packet /\ irq' = irq /\ dev.config # 0 /\ dev.bulk < level
      /\ host' = [host EXCEPT !.halted = IF host.halted = "no" THEN "unknown"
                                         ELSE host.halted]
  BY DEF DriverHalts, Host
<1> HIDE DEF a, b
<1>3. /\ dev \in Device /\ packet \in Requests /\ host \in Host
      /\ irq \in SUBSET {"setup", "reset", "error"} /\ Pipe(dev)
      /\ "setup" \in irq => NoneDone(dev) /\ host.stage # "status_out"
      /\ "reset" \in irq => host.stage = "idle"
      /\ "error" \in irq => host.lost \/ "reset" \in irq
      /\ Agree(a, packet, host) /\ Handles(dev, irq, packet, b, a)
  BY <1>1 DEF Pending
<1>4. /\ host' \in Host /\ host'.stage = host.stage /\ host'.addr = host.addr
      /\ host'.config = host.config /\ host'.halted # "no" /\ host'.lost = host.lost
      /\ host'.halted = "yes" => host.halted = "yes"
  BY <1>2, <1>3 DEF Host
<1>5. /\ d \in Device /\ d.in = dev.in /\ d.out = dev.out /\ d.onIn = dev.onIn
      /\ d.pending = dev.pending /\ d.address = dev.address /\ d.config = dev.config
      /\ d.bulk = level /\ d.status = dev.status
  <2>1. level \in Halts
    BY DEF Halts
  <2>2. QED BY <1>3, <2>1, DeviceShape
<1> HIDE DEF d
<1>6. Pipe(d) /\ ("setup" \in irq => NoneDone(d))
  BY <1>2, <1>3, <1>5 DEF Pipe, NoneDone
<1>7. Handles(d, irq, packet, u, s)
  BY <1>3, <1>5, <1>6, IsrSettles
<1> HIDE DEF u, s
<1>8. s.address = a.address /\ s.config = a.config
  <2>1. CASE Resets(irq)
    BY <1>3, <1>7, <2>1 DEF Handles, Unaddressed
  <2>2. CASE ~Resets(irq) /\ "setup" \in irq
    BY <1>3, <1>5, <1>7, <2>2 DEF Handles, Replied
  <2>3. CASE ~Resets(irq) /\ "setup" \notin irq
    BY <1>3, <1>5, <1>7, <2>3 DEF Handles, Settled
  <2>4. QED BY <2>1, <2>2, <2>3
<1>9. AddressAgrees(s, host') /\ (host'.lost \/ ConfigAgrees(s, packet, host'))
  BY <1>3, <1>4, <1>8 DEF Agree, AddressAgrees, ConfigAgrees
<1>10. host'.lost \/ HaltedAsKnown(host', s.bulk # HS_NONE)
  <2>1. CASE Resets(irq)
    <3>1. s.bulk = a.bulk
      BY <1>3, <1>7, <2>1 DEF Handles, Unaddressed
    <3>2. QED BY <1>3, <1>4, <3>1 DEF Agree, HaltedAsKnown
  <2>2. CASE ~Resets(irq) /\ "setup" \in irq
    <3>1. /\ a.bulk = BulkAfter(dev.config, dev.bulk, packet)
          /\ s.bulk = BulkAfter(dev.config, level, packet)
      BY <1>3, <1>5, <1>7, <2>2 DEF Handles, Replied
    <3>2. dev.bulk \in {0, 2, 3}
      BY <1>3, DeviceParts
    <3>3. a.bulk # HS_NONE => s.bulk # HS_NONE
      BY <1>2, <3>1, <3>2 DEF BulkAfter
    <3>4. QED BY <1>3, <1>4, <3>3 DEF Agree, HaltedAsKnown
  <2>3. CASE ~Resets(irq) /\ "setup" \notin irq
    <3>1. s.bulk = level
      BY <1>5, <1>7, <2>3 DEF Handles, Settled
    <3>2. QED BY <1>4, <3>1 DEF HaltedAsKnown
  <2>4. QED BY <2>1, <2>2, <2>3
<1>11. CASE "reset" \in irq
  <2>1. Agree(s, packet, host')
    BY <1>3, <1>4, <1>9, <1>10, <1>11 DEF Agree
  <2>2. QED BY <1>2, <1>3, <1>4, <1>5, <1>6, <2>1 DEF ControlInv, TypeOK, NoneDone, s
<1>12. CASE "reset" \notin irq
  <2>1. Resets(irq) => host.lost
    BY <1>3, <1>12 DEF Resets
  <2>2. CASE "setup" \in irq
    <3>1. Replied(d, packet, u) /\ (s = u \/ (Unaddressed(u, s) /\ host'.lost))
      BY <1>4, <1>7, <2>1, <2>2 DEF Handles
    <3>2. host'.lost \/ HaltedAsKnown(host', u.bulk # HS_NONE)
      BY <1>4, <1>7, <1>10, <2>1 DEF Handles
    <3>3. IF s.in.halt = HS_NONE THEN Answered(s, packet, host')
                                 ELSE Refusable(packet, s.config)
      BY <1>3, <1>5, <3>1, <3>2, ReplyAnswers
    <3>4. Agree(s, packet, host')
      BY <1>3, <1>4, <1>9, <1>10, <2>2, <3>3 DEF Agree
    <3>5. QED BY <1>2, <1>3, <1>4, <1>5, <1>6, <3>4 DEF ControlInv, TypeOK, NoneDone, s
  <2>3. CASE "setup" \notin irq
    <3>1. Settled(dev, b) /\ Settled(d, u)
      BY <1>3, <1>7, <2>3 DEF Handles
    <3>2. s.in.halt = a.in.halt /\ s.onIn = a.onIn /\ s.pending = a.pending
      BY <1>3, <1>5, <1>7, <3>1 DEF Handles, Settled, Unaddressed
    <3>3. host'.lost \/ (s.bulk = level /\ s.status = a.status)
      BY <1>3, <1>4, <1>5, <1>7, <2>1, <3>1 DEF Handles, Settled
    <3>4. host.stage \in {"data", "status_in"} /\ s.in.halt = HS_NONE =>
            Answered(s, packet, host')
      BY <1>3, <1>4, <3>2, <3>3 DEF Agree, Answered, HaltedAsKnown
    <3>5. Agree(s, packet, host')
      BY <1>3, <1>4, <1>8, <1>9, <1>10, <3>2, <3>4 DEF Agree
    <3>6. QED BY <1>2, <1>3, <1>4, <1>5, <1>6, <3>5 DEF ControlInv, TypeOK, NoneDone, s
  <2>4. QED BY <2>2, <2>3
<1>13. QED BY <1>11, <1>12

LEMMA SendSetupKeeps ==
  ASSUME Calm, ControlInv, NEW r \in Requests, SendSetup(r)
  PROVE  ControlInv'
<1> DEFINE b == BeforeReset(dev, irq, packet)
           a == AfterIsr(dev, irq, packet)
           u == BeforeReset(dev, irq \cup {"setup"}, r)
           s == AfterIsr(dev, irq \cup {"setup"}, r)
<1>1. Pending(b, a)
  BY InvPending
<1>2. /\ Answers /\ NoneDone(dev) /\ host.stage = "idle" /\ host.addr = dev.address
      /\ packet' = r /\ irq' = irq \cup {"setup"} /\ dev' = dev
      /\ host' = [host EXCEPT !.stage = IF WithData(r) THEN "data" ELSE "status_in",
                              !.halted = Expected(r)]
  BY DEF SendSetup, Answers, Calm, NoneDone
<1> HIDE DEF a, b
<1>3. /\ dev \in Device /\ host \in Host /\ Pipe(dev) /\ Agree(a, packet, host)
      /\ Handles(dev, irq, packet, b, a)
  BY <1>1 DEF Pending
<1>4. /\ irq \in {{}, {"error"}} /\ "setup" \notin irq /\ "reset" \notin irq
      /\ Settled(dev, b) /\ (Resets(irq) => host.lost)
  BY <1>1, <1>2, AnswersCauses
<1>5. ~host.lost => a = dev
  BY <1>2, <1>3, <1>4 DEF Settled, Handles
<1>6. /\ host' \in Host /\ host'.stage = (IF WithData(r) THEN "data" ELSE "status_in")
      /\ host'.addr = host.addr /\ host'.config = host.config /\ host'.halted = Expected(r)
      /\ host'.lost = host.lost
  <2>1. Expected(r) \in {"yes", "no", "unknown"}
    BY <1>3 DEF Expected, Host
  <2>2. (IF WithData(r) THEN "data" ELSE "status_in") \in Stages
    BY DEF Stages
  <2> HIDE DEF Expected
  <2>3. QED BY <1>2, <1>3, <2>1, <2>2 DEF Host
<1>7. /\ Handles(dev, irq \cup {"setup"}, r, u, s)
  BY <1>2, <1>3, IsrSettles
<1> HIDE DEF u, s
<1>8. /\ Replied(dev, r, u)
      /\ s = u \/ (Unaddressed(u, s) /\ host'.lost)
      /\ ~host.lost => s = u
  BY <1>4, <1>6, <1>7 DEF Handles, Resets
<1>9. AddressAgrees(s, host')
  BY <1>2, <1>6, <1>8 DEF AddressAgrees, Replied, Unaddressed
<1>10. host'.lost \/ ConfigAgrees(s, r, host')
  BY <1>2, <1>3, <1>5, <1>6, <1>8 DEF Agree, ConfigAgrees, Replied, WithData
<1>11. host'.lost \/ HaltedAsKnown(host', u.bulk # HS_NONE)
  <2> SUFFICES ASSUME ~host'.lost
               PROVE  HaltedAsKnown(host', u.bulk # HS_NONE)
    OBVIOUS
  <2>1. dev.bulk \in {0, 2, 3} /\ (dev.config = 0 => dev.bulk = 0)
    BY <1>3, DeviceParts DEF Pipe
  <2>2. HaltedAsKnown(host, dev.bulk # HS_NONE) /\ u.bulk = BulkAfter(dev.config, dev.bulk, r)
    BY <1>3, <1>5, <1>6, <1>8 DEF Agree, Replied
  <2>3. QED BY <1>6, <2>1, <2>2 DEF Expected, HaltedAsKnown, BulkAfter
<1>12. IF s.in.halt = HS_NONE THEN Answered(s, r, host') ELSE Refusable(r, s.config)
  BY <1>3, <1>8, <1>11, ReplyAnswers
<1>13. Agree(s, r, host')
  BY <1>6, <1>8, <1>9, <1>10, <1>11, <1>12 DEF Agree
<1>14. "error" \in irq => host.lost
  BY <1>4 DEF Resets
<1>15. QED
  BY <1>2, <1>3, <1>4, <1>6, <1>13, <1>14 DEF ControlInv, TypeOK, NoneDone, s

(* Which of the states a control endpoint with something to give is in. *)
LEMMA InGiven ==
  ASSUME NEW d \in Device, Pipe(d), CanComplete(d.in, 1)
  PROVE  Given(d.in) /\ Unused(d.out) /\ NoneDone(d)
BY DEF Pipe, CanComplete, Idle, Moved, Given, Unused, NoneDone

LEMMA OutGiven ==
  ASSUME NEW d \in Device, Pipe(d), CanComplete(d.out, 1)
  PROVE  Idle(d.in) /\ Given(d.out) /\ NoneDone(d)
BY DEF Pipe, CanComplete, Idle, Moved, Given, Unused, NoneDone

LEMMA FetchInKeeps == ControlInv /\ FetchIn => ControlInv'
<1> SUFFICES ASSUME ControlInv, FetchIn PROVE ControlInv'
  OBVIOUS
<1> DEFINE e == Complete(dev.in)
           d == [dev EXCEPT !.in = e]
           b == BeforeReset(dev, irq, packet)
           a == AfterIsr(dev, irq, packet)
           u == BeforeReset(d, irq, packet)
           s == AfterIsr(d, irq, packet)
<1>1. Pending(b, a)
  BY InvPending
<1> HIDE DEF a, b
<1>2. /\ Answers /\ host.addr = dev.address
      /\ CanComplete(dev.in, 1) /\ host.stage \in {"data", "status_in"}
      /\ dev' = d /\ packet' = packet /\ irq' = irq
      /\ host' = [host EXCEPT
           !.stage  = IF host.stage = "data" THEN "status_out" ELSE "idle",
           !.addr   = IF packet.kind = "set_address" THEN packet.value ELSE host.addr,
           !.config = IF packet.kind = "set_config" THEN packet.value ELSE host.config,
           !.halted = IF packet.kind = "set_halt" THEN "yes" ELSE host.halted]
  BY DEF FetchIn, Answers
<1>3. /\ dev \in Device /\ packet \in Requests /\ host \in Host /\ Pipe(dev)
      /\ Agree(a, packet, host) /\ Handles(dev, irq, packet, b, a)
  BY <1>1 DEF Pending
<1>4. /\ irq \in {{}, {"error"}} /\ "setup" \notin irq /\ "reset" \notin irq
      /\ Settled(dev, b) /\ (Resets(irq) => host.lost)
  BY <1>1, <1>2, AnswersCauses
<1>5. Given(dev.in) /\ Unused(dev.out) /\ NoneDone(dev)
  BY <1>2, <1>3, InGiven
<1>6. /\ a.in.halt = dev.in.halt /\ a.onIn = dev.onIn /\ a.pending = dev.pending
      /\ ~host.lost => a = dev
  BY <1>3, <1>4, <1>5 DEF Handles, Settled, Unaddressed
<1>7. Answered(a, packet, host) /\ dev.in.halt = HS_NONE
  BY <1>2, <1>3, <1>5, <1>6 DEF Agree, Given, UnderWay
<1>8. e \in Endpoint /\ Single(e) /\ Moved(e) /\ e.in
  BY <1>3, <1>5, DeviceParts, CompleteMoves DEF Pipe
<1> HIDE DEF e
<1>9. /\ d \in Device /\ d.in = e /\ d.out = dev.out /\ d.onIn = dev.onIn /\ SameRest(dev, d)
  BY <1>3, <1>8, DeviceShape DEF SameRest
<1> HIDE DEF d
<1>10. Pipe(d) /\ e.done # <<>> /\ e.halt = HS_NONE
  BY <1>3, <1>5, <1>8, <1>9 DEF Pipe, Moved, UnderWay, SameRest, Unused
<1>11. Handles(d, irq, packet, u, s)
  BY <1>3, <1>4, <1>9, <1>10, IsrSettles
<1> HIDE DEF u, s
<1>12. /\ u.config = dev.config /\ u.bulk = dev.bulk /\ u.in.halt = HS_NONE
       /\ u.address = IF packet.kind = "set_address" THEN packet.value ELSE dev.address
  BY <1>4, <1>6, <1>7, <1>9, <1>10, <1>11 DEF Handles, Settled, SameRest, Answered
<1>13. s.in.halt = HS_NONE /\ (s = u \/ (s.address = 0 /\ host.lost))
  BY <1>4, <1>11, <1>12 DEF Handles, Unaddressed
<1>14. host' \in Host
  <2>1. packet.kind = "set_address" => packet.value \in Addresses
    BY <1>3, <1>6, <1>7, DeviceParts DEF Answered
  <2>2. packet.kind = "set_config" => packet.value \in {0, 1}
    BY <1>7 DEF Answered, ValidConfig
  <2>3. QED BY <1>2, <1>3, <2>1, <2>2 DEF Host, Stages, Addresses
<1>15. /\ host'.stage = (IF host.stage = "data" THEN "status_out" ELSE "idle")
       /\ host'.addr = (IF packet.kind = "set_address" THEN packet.value ELSE host.addr)
       /\ host'.config = (IF packet.kind = "set_config" THEN packet.value ELSE host.config)
       /\ host'.halted = (IF packet.kind = "set_halt" THEN "yes" ELSE host.halted)
       /\ host'.lost = host.lost
  BY <1>2, <1>3 DEF Host
<1>16. AddressAgrees(s, host')
  BY <1>2, <1>12, <1>13, <1>15 DEF AddressAgrees
<1>17. host'.lost \/ (ConfigAgrees(s, packet, host') /\ HaltedAsKnown(host', s.bulk # HS_NONE))
  <2> SUFFICES ASSUME ~host.lost
               PROVE  ConfigAgrees(s, packet, host') /\ HaltedAsKnown(host', s.bulk # HS_NONE)
    BY <1>15
  <2>1. /\ s.config = dev.config /\ s.bulk = dev.bulk /\ Agree(dev, packet, host)
        /\ Answered(dev, packet, host)
    BY <1>3, <1>6, <1>7, <1>12, <1>13
  <2>2. ConfigAgrees(s, packet, host')
    BY <1>2, <1>15, <2>1 DEF Agree, Answered, ConfigAgrees, WithData
  <2>3. HaltedAsKnown(host', s.bulk # HS_NONE)
    BY <1>15, <2>1 DEF Agree, Answered, HaltedAsKnown
  <2>4. QED BY <2>2, <2>3
<1>18. Agree(s, packet, host')
  BY <1>13, <1>15, <1>16, <1>17 DEF Agree
<1>19. "error" \in irq => host.lost
  BY <1>4 DEF Resets
<1>20. QED
  BY <1>2, <1>3, <1>4, <1>9, <1>10, <1>14, <1>15, <1>18, <1>19 DEF ControlInv, TypeOK, s

LEMMA SendStatusKeeps == ControlInv /\ SendStatus => ControlInv'
<1> SUFFICES ASSUME ControlInv, SendStatus PROVE ControlInv'
  OBVIOUS
<1> DEFINE e == Complete(dev.out)
           d == [dev EXCEPT !.out = e]
           b == BeforeReset(dev, irq, packet)
           a == AfterIsr(dev, irq, packet)
           u == BeforeReset(d, irq, packet)
           s == AfterIsr(d, irq, packet)
<1>1. Pending(b, a)
  BY InvPending
<1> HIDE DEF a, b
<1>2. /\ Answers /\ host.addr = dev.address
      /\ CanComplete(dev.out, 1) /\ host.stage = "status_out"
      /\ dev' = d /\ packet' = packet /\ irq' = irq
      /\ host' = [host EXCEPT !.stage = "idle"]
  BY DEF SendStatus, Answers
<1>3. /\ dev \in Device /\ packet \in Requests /\ host \in Host /\ Pipe(dev)
      /\ Agree(a, packet, host) /\ Handles(dev, irq, packet, b, a)
  BY <1>1 DEF Pending
<1>4. /\ irq \in {{}, {"error"}} /\ "setup" \notin irq /\ "reset" \notin irq
      /\ Settled(dev, b) /\ (Resets(irq) => host.lost)
  BY <1>1, <1>2, AnswersCauses
<1>5. Idle(dev.in) /\ Given(dev.out) /\ NoneDone(dev)
  BY <1>2, <1>3, OutGiven
<1>6. ~host.lost => a = dev
  BY <1>3, <1>4, <1>5 DEF Handles, Settled
<1>7. e \in Endpoint /\ Single(e) /\ Moved(e) /\ ~e.in
  BY <1>3, <1>5, DeviceParts, CompleteMoves DEF Pipe
<1> HIDE DEF e
<1>8. /\ d \in Device /\ d.in = dev.in /\ d.out = e /\ d.onIn = dev.onIn /\ SameRest(dev, d)
  BY <1>3, <1>7, DeviceShape DEF SameRest
<1> HIDE DEF d
<1>9. Pipe(d)
  BY <1>3, <1>5, <1>7, <1>8 DEF Pipe, Moved, UnderWay, SameRest
<1>10. Handles(d, irq, packet, u, s)
  BY <1>3, <1>4, <1>8, <1>9, IsrSettles
<1> HIDE DEF u, s
<1>11. u.address = dev.address /\ u.config = dev.config /\ u.bulk = dev.bulk
  BY <1>4, <1>5, <1>8, <1>10 DEF Handles, Settled, SameRest, Idle
<1>12. s = u \/ (s.address = 0 /\ host.lost)
  BY <1>4, <1>10 DEF Handles, Unaddressed
<1>13. /\ host' \in Host /\ host'.stage = "idle" /\ host'.addr = host.addr
       /\ host'.config = host.config /\ host'.halted = host.halted /\ host'.lost = host.lost
  BY <1>2, <1>3 DEF Host, Stages
<1>14. AddressAgrees(s, host')
  BY <1>2, <1>11, <1>12, <1>13 DEF AddressAgrees
<1>15. Agree(s, packet, host')
  BY <1>2, <1>3, <1>6, <1>11, <1>12, <1>13, <1>14 DEF Agree, ConfigAgrees, HaltedAsKnown
<1>16. "error" \in irq => host.lost
  BY <1>4 DEF Resets
<1>17. QED
  BY <1>2, <1>3, <1>4, <1>8, <1>9, <1>13, <1>15, <1>16 DEF ControlInv, TypeOK, s

LEMMA SeeStallKeeps == ControlInv /\ SeeStall => ControlInv'
<1> SUFFICES ASSUME ControlInv, SeeStall PROVE ControlInv'
  OBVIOUS
<1> DEFINE b == BeforeReset(dev, irq, packet)
           a == AfterIsr(dev, irq, packet)
<1>1. Pending(b, a)
  BY InvPending
<1>2. /\ Answers /\ dev' = dev /\ packet' = packet /\ irq' = irq /\ Stalled
      /\ host' = [host EXCEPT !.stage = "idle"]
  BY DEF SeeStall
<1> HIDE DEF a, b
<1>3. /\ dev \in Device /\ packet \in Requests /\ host \in Host /\ Pipe(dev)
      /\ Agree(a, packet, host) /\ Handles(dev, irq, packet, b, a)
  BY <1>1 DEF Pending
<1>4. /\ irq \in {{}, {"error"}} /\ "setup" \notin irq /\ "reset" \notin irq
      /\ Settled(dev, b) /\ (Resets(irq) => host.lost)
  BY <1>1, <1>2, AnswersCauses
<1>5. a.in.halt = dev.in.halt
  BY <1>3, <1>4 DEF Handles, Settled, Unaddressed
<1>6. host.stage = "status_in" => Refusable(packet, a.config)
  BY <1>2, <1>3, <1>5 DEF Agree, Stalled
<1>7. /\ host' \in Host /\ host'.stage = "idle" /\ host'.addr = host.addr
      /\ host'.config = host.config /\ host'.halted = host.halted /\ host'.lost = host.lost
  BY <1>2, <1>3 DEF Host, Stages
<1>8. host'.lost \/ ConfigAgrees(a, packet, host')
  BY <1>3, <1>6, <1>7
  DEF Agree, ConfigAgrees, Refusable, EndpointRequests, InterfaceRequests
<1>9. Agree(a, packet, host')
  BY <1>3, <1>7, <1>8 DEF Agree, AddressAgrees, HaltedAsKnown
<1>10. "error" \in irq => host.lost
  BY <1>4 DEF Resets
<1>11. QED BY <1>2, <1>3, <1>4, <1>7, <1>9, <1>10 DEF ControlInv, TypeOK, a

LEMMA GiveUpKeeps == ControlInv /\ GiveUp => ControlInv'
<1> SUFFICES ASSUME ControlInv, GiveUp PROVE ControlInv'
  OBVIOUS
<1> DEFINE b == BeforeReset(dev, irq, packet)
           a == AfterIsr(dev, irq, packet)
<1>1. Pending(b, a)
  BY InvPending
<1>2. /\ dev' = dev /\ packet' = packet /\ irq' = irq
      /\ host' = [host EXCEPT !.stage = "idle",
                              !.config = IF packet.kind = "set_config" THEN 2 ELSE host.config]
  BY DEF GiveUp
<1> HIDE DEF a, b
<1>3. /\ dev \in Device /\ packet \in Requests /\ host \in Host /\ Pipe(dev)
      /\ irq \in SUBSET {"setup", "reset", "error"} /\ ("setup" \in irq => NoneDone(dev))
      /\ "error" \in irq => host.lost \/ "reset" \in irq
      /\ Agree(a, packet, host)
  BY <1>1 DEF Pending
<1>4. /\ host' \in Host /\ host'.stage = "idle" /\ host'.addr = host.addr
      /\ host'.config = (IF packet.kind = "set_config" THEN 2 ELSE host.config)
      /\ host'.halted = host.halted /\ host'.lost = host.lost
  BY <1>2, <1>3 DEF Host, Stages
<1>5. Agree(a, packet, host')
  BY <1>3, <1>4 DEF Agree, AddressAgrees, ConfigAgrees, HaltedAsKnown
<1>6. QED BY <1>2, <1>3, <1>4, <1>5 DEF ControlInv, TypeOK, NoneDone, a

LEMMA ResetBusKeeps == ControlInv /\ ResetBus => ControlInv'
<1> SUFFICES ASSUME ControlInv, ResetBus PROVE ControlInv'
  OBVIOUS
<1> DEFINE b == BeforeReset(dev, irq, packet)
           a == AfterIsr(dev, irq, packet)
           u == BeforeReset(dev, irq \cup {"reset"}, packet)
           s == AfterIsr(dev, irq \cup {"reset"}, packet)
<1>1. Pending(b, a)
  BY InvPending
<1>2. dev' = dev /\ packet' = packet /\ irq' = irq \cup {"reset"} /\ host' = InitHost
  BY DEF ResetBus
<1> HIDE DEF a, b
<1>3. /\ dev \in Device /\ packet \in Requests /\ Pipe(dev)
      /\ irq \in SUBSET {"setup", "reset", "error"} /\ ("setup" \in irq => NoneDone(dev))
  BY <1>1 DEF Pending
<1>4. Handles(dev, irq \cup {"reset"}, packet, u, s)
  BY <1>3, IsrSettles
<1>5. Unaddressed(u, s)
  BY <1>4 DEF Handles, Resets
<1> HIDE DEF u, s
<1>6. host' \in Host
  BY <1>2, MaxAddressAssumption DEF Host, InitHost, Stages
<1>7. Agree(s, packet, host')
  BY <1>2, <1>5 DEF Agree, AddressAgrees, ConfigAgrees, HaltedAsKnown, InitHost, Unaddressed
<1>8. QED
  BY <1>2, <1>3, <1>6, <1>7 DEF ControlInv, TypeOK, NoneDone, InitHost, s

(* An error alone makes the device forget the host; with a bus reset it makes
   no difference. *)
LEMMA BusErrorKeeps == ControlInv /\ BusError => ControlInv'
<1> SUFFICES ASSUME ControlInv, BusError PROVE ControlInv'
  OBVIOUS
<1> DEFINE b == BeforeReset(dev, irq, packet)
           a == AfterIsr(dev, irq, packet)
           s == AfterIsr(dev, irq \cup {"error"}, packet)
<1>1. Pending(b, a)
  BY InvPending
<1>2. /\ dev' = dev /\ packet' = packet /\ irq' = irq \cup {"error"} /\ "error" \notin irq
      /\ host' = [host EXCEPT !.lost = host.lost \/ "reset" \notin irq]
  BY DEF BusError
<1>3. /\ dev \in Device /\ packet \in Requests /\ host \in Host /\ Pipe(dev)
      /\ irq \in SUBSET {"setup", "reset", "error"}
      /\ "setup" \in irq => NoneDone(dev) /\ host.stage # "status_out"
      /\ "reset" \in irq => host.stage = "idle"
      /\ Agree(a, packet, host)
  BY <1>1 DEF Pending
<1>4. /\ host' \in Host /\ host'.stage = host.stage /\ host'.addr = host.addr
      /\ host'.config = host.config /\ host'.halted = host.halted
      /\ host'.lost <=> host.lost \/ "reset" \notin irq
  BY <1>2, <1>3 DEF Host
<1>5. CASE "reset" \in irq
  <2>1. s = a
    BY <1>5 DEF AfterIsr, Resets
  <2>2. Agree(s, packet, host')
    <3> HIDE DEF a, s
    <3>1. host'.lost <=> host.lost
      BY <1>4, <1>5
    <3>2. QED
      BY <1>3, <1>4, <2>1, <3>1
      DEF Agree, AddressAgrees, ConfigAgrees, Answered, HaltedAsKnown
  <2> HIDE DEF s
  <2>3. QED BY <1>2, <1>3, <1>4, <1>5, <2>2 DEF ControlInv, TypeOK, NoneDone, s
<1>6. CASE "reset" \notin irq
  <2>1. a = b /\ s = HandleBusReset(b)
    BY <1>2, <1>6 DEF AfterIsr, BeforeReset, Resets
  <2> HIDE DEF a, b, s
  <2>2. b \in Device /\ Pipe(b) /\ NoneDone(b)
    BY <1>1 DEF Pending, Handles
  <2>3. Unaddressed(a, s)
    BY <2>1, <2>2, ResetUnaddresses
  <2>4. host'.lost /\ AddressAgrees(s, host')
    BY <1>4, <1>6, <2>3 DEF AddressAgrees, Unaddressed
  <2>5. host.stage \in {"data", "status_in"} =>
          IF s.in.halt = HS_NONE THEN Answered(s, packet, host')
                                 ELSE Refusable(packet, s.config)
    BY <1>3, <2>3, <2>4 DEF Agree, Answered, Refusable, Unaddressed
  <2>6. Agree(s, packet, host')
    BY <1>3, <1>4, <2>3, <2>4, <2>5 DEF Agree, Unaddressed
  <2>7. QED BY <1>2, <1>3, <1>4, <1>6, <2>6 DEF ControlInv, TypeOK, NoneDone, s
<1>7. QED BY <1>5, <1>6

LEMMA NextKeeps ==
  ASSUME Calm, ControlInv, [Next]_vars
  PROVE  ControlInv'
<1>1. CASE Isr
  BY <1>1, IsrKeeps
<1>2. CASE \E level \in {HS_HALTED, HS_HALTED_ON_CONDITION} : DriverHalts(level)
  BY <1>2, DriverHaltsKeeps
<1>3. CASE \E r \in Requests : SendSetup(r)
  BY <1>3, SendSetupKeeps
<1>4. CASE Progress
  BY <1>4, FetchInKeeps, SendStatusKeeps, SeeStallKeeps DEF Progress
<1>5. CASE GiveUp
  BY <1>5, GiveUpKeeps
<1>6. CASE ResetBus
  BY <1>6, ResetBusKeeps
<1>7. CASE BusError
  BY <1>7, BusErrorKeeps
<1>8. CASE UNCHANGED vars
  BY <1>8 DEF vars, ControlInv, TypeOK
<1>9. QED BY <1>1, <1>2, <1>3, <1>4, <1>5, <1>6, <1>7, <1>8 DEF Next

-----------------------------------------------------------------------------
(* The control endpoints are on the right toggle and stall only to refuse;
   as soon as the device has handled its interrupt it agrees with the host. *)
THEOREM InvariantHolds == Calm => (Spec => []ControlInv)
<1> SUFFICES ASSUME Calm PROVE Spec => []ControlInv
  OBVIOUS
<1>1. ControlInv /\ [Next]_vars => ControlInv'
  BY NextKeeps
<1>2. QED BY <1>1, InitControl, PTL DEF Spec

(* After a request, or a bus reset, host and device agree on the address, the
   configuration and the halt, and GET_STATUS tells the halt. *)
LEMMA InvAgrees == ControlInv => HostAgrees
<1> SUFFICES ASSUME ControlInv PROVE HostAgrees
  OBVIOUS
<1> DEFINE b == BeforeReset(dev, irq, packet)
           a == AfterIsr(dev, irq, packet)
<1>1. Pending(b, a)
  BY InvPending
<1> HIDE DEF a, b
<1>2. /\ dev \in Device /\ Pipe(dev) /\ Agree(a, packet, host)
      /\ Handles(dev, irq, packet, b, a)
  BY <1>1 DEF Pending
<1>3. ASSUME ~host.lost, host.stage = "idle", irq = {}, dev.in.done = <<>>
      PROVE  /\ dev.address = host.addr /\ host.config \in {2, dev.config}
             /\ HaltedAsKnown(host, dev.bulk # HS_NONE)
  <2>1. a.address = dev.address /\ a.config = dev.config /\ a.bulk = dev.bulk
    BY <1>2, <1>3 DEF Handles, Resets, Settled
  <2>2. QED BY <1>2, <1>3, <2>1 DEF Agree, AddressAgrees, ConfigAgrees
<1>4. ASSUME ~host.lost, host.stage = "data", packet.kind = "get_halt", Answers,
             dev.in.avail # {}
      PROVE  HaltedAsKnown(host, dev.status = 1)
  <2>1. Settled(dev, b) /\ ~Resets(irq)
    BY <1>1, <1>4, AnswersCauses
  <2>2. Given(dev.in)
    BY <1>2, <1>4 DEF Pipe, Idle, Moved
  <2>3. a.in.halt = HS_NONE /\ a.status = dev.status
    BY <1>2, <2>1, <2>2 DEF Handles, Settled, Given, UnderWay
  <2>4. QED BY <1>2, <1>4, <2>3 DEF Agree, Answered
<1>5. QED BY <1>3, <1>4 DEF HostAgrees

THEOREM HostAlwaysAgrees == Calm => (Spec => []HostAgrees)
<1> SUFFICES ASSUME Calm PROVE Spec => []HostAgrees
  OBVIOUS
<1>1. Spec => []ControlInv
  BY InvariantHolds
<1>2. QED BY <1>1, InvAgrees, PTL

(* The device takes an address only when the host already uses it; only an
   error on the bus makes it drop the one that it has. *)
THEOREM AddressAlwaysFollowsHost == Calm => (Spec => AddressFollowsHost)
<1> SUFFICES ASSUME Calm PROVE Spec => AddressFollowsHost
  OBVIOUS
<1>1. ASSUME ControlInv, [Next]_vars
      PROVE  [dev'.address # dev.address =>
                dev'.address = host.addr \/ (host.lost /\ dev'.address = 0)]_vars
  <2> SUFFICES ASSUME dev'.address # dev.address
               PROVE  dev'.address = host.addr \/ (host.lost /\ dev'.address = 0)
    OBVIOUS
  <2>1. dev \in Device
    BY <1>1 DEF ControlInv, TypeOK
  <2>2. Isr
    <3>1. ASSUME NEW level \in {HS_HALTED, HS_HALTED_ON_CONDITION}, DriverHalts(level)
          PROVE  dev'.address = dev.address
      BY <2>1, <3>1, DeviceShape DEF DriverHalts
    <3>2. ASSUME NEW r \in Requests, SendSetup(r)
          PROVE  dev'.address = dev.address
      BY <3>2 DEF SendSetup
    <3>3. FetchIn \/ SendStatus => dev'.address = dev.address
      BY <2>1, DeviceShape DEF FetchIn, SendStatus
    <3>4. SeeStall \/ GiveUp \/ ResetBus \/ BusError \/ UNCHANGED vars =>
            dev'.address = dev.address
      BY DEF SeeStall, GiveUp, ResetBus, BusError, vars
    <3>5. QED BY <1>1, <3>1, <3>2, <3>3, <3>4 DEF Next, Progress
  <2>3. Agree(dev', packet, host)
    BY <1>1, <2>2 DEF Isr, ControlInv
  <2>4. QED BY <2>3 DEF Agree, AddressAgrees
<1>2. Spec => []ControlInv
  BY InvariantHolds
<1>3. QED BY <1>1, <1>2, PTL DEF Spec, AddressFollowsHost

(* A request that a handler knows is never refused. *)
THEOREM KnownRequestsAlwaysSucceed == Calm => (Spec => KnownRequestsSucceed)
<1> DEFINE Known == \/ host.lost
                    \/ packet.kind = "unknown"
                    \/ packet.kind = "set_address" /\ packet.value \notin 1..MaxAddress
                    \/ packet.kind = "set_config" /\ packet.value = 2
                    \/ packet.kind \in EndpointRequests \cup InterfaceRequests
                         /\ host.config # 1
<1> SUFFICES ASSUME Calm PROVE Spec => KnownRequestsSucceed
  OBVIOUS
<1>1. ASSUME ControlInv, [Next]_vars
      PROVE  [SeeStall => Known]_vars
  <2> SUFFICES ASSUME SeeStall, ~host.lost PROVE Known
    OBVIOUS
  <2> DEFINE b == BeforeReset(dev, irq, packet)
             a == AfterIsr(dev, irq, packet)
  <2>1. Pending(b, a)
    BY <1>1, InvPending
  <2> HIDE DEF a, b
  <2>2. /\ dev \in Device /\ packet \in Requests /\ Pipe(dev) /\ Agree(a, packet, host)
        /\ Handles(dev, irq, packet, b, a)
    BY <2>1 DEF Pending
  <2>3. Answers /\ Stalled /\ dev.in.halt # HS_NONE
    BY <2>2 DEF SeeStall, Stalled, Pipe
  <2>4. a.in.halt # HS_NONE
    BY <2>1, <2>2, <2>3, AnswersCauses DEF Handles, Settled
  <2>5. host.stage \in {"data", "status_in"}
    BY <2>2, <2>3, <2>4 DEF Stalled, Agree
  <2>6. Refusable(packet, a.config) /\ ConfigAgrees(a, packet, host)
    BY <2>2, <2>4, <2>5 DEF Agree
  <2>7. packet.kind = "set_config" /\ ~ValidConfig(packet.value) => packet.value = 2
    BY <2>2, RequestKinds DEF ValidConfig
  <2>8. a.config # 1 /\ packet.kind # "set_config" => host.config # 1
    BY <2>6 DEF ConfigAgrees
  <2>9. QED
    BY <2>6, <2>7, <2>8
    DEF Refusable, ValidAddress, EndpointRequests, InterfaceRequests
<1> HIDE DEF Known
<1>2. Spec => []ControlInv
  BY InvariantHolds
<1>3. Spec => [][SeeStall => Known]_vars
  BY <1>1, <1>2, PTL DEF Spec
<1>4. QED BY <1>3 DEF KnownRequestsSucceed, Known
=============================================================================
