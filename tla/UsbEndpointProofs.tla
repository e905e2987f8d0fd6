-------------------------- MODULE UsbEndpointProofs --------------------------
(***************************************************************************)
(* Proofs about one endpoint, for every packet numbering, chunk size and   *)
(* transfer length: the endpoint invariant holds in every reachable state, *)
(* and with it the buffer, packet and toggle properties of                 *)
(* UsbEndpointProps; and the endpoint implements the ordered PacketPipe.   *)
(* Both parts follow the operators of UsbEndpointOps from the innermost,   *)
(* GiveBuffer, outwards.                                                   *)
(***************************************************************************)
EXTENDS UsbEndpointProps, SequenceTheorems, TLAPS

(* A well-formed endpoint: typed, its ring in order, its buffers counted. *)
Sound(e) == e \in Endpoint /\ Ring(e) /\ Count(e)

(* What giving buffers leaves alone. *)
SameTransfer(e, f) ==
  /\ f.in = e.in /\ f.dbl = e.dbl /\ f.take = e.take /\ f.done = e.done
  /\ f.cur = e.cur /\ f.handle = e.handle /\ f.queued = e.queued

(* The toggle agreement without its clause about halts. *)
Phase(e, t) ==
  /\ e.sel \in e.avail => e.bpid[e.sel] = t
  /\ Held(e) = 2 => e.bpid[1 - e.sel] = 1 - t
  /\ e.pid = IF Held(e) = 1 THEN 1 - t ELSE t

(* What an endpoint's type says of its parts. *)
LEMMA EndpointParts ==
  ASSUME NEW e \in Endpoint
  PROVE  /\ e.in \in BOOLEAN /\ e.dbl \in BOOLEAN /\ e.fresh \in BOOLEAN
         /\ e.cur \in BOOLEAN /\ e.outstanding \in BOOLEAN /\ e.queued \in BOOLEAN
         /\ e.give \in Bit /\ e.take \in Bit /\ e.sel \in Bit /\ e.pid \in Bit
         /\ e.owned \in Nat /\ e.submit \in Nat /\ e.handle \in Nat /\ e.pos \in Nat
         /\ e.halt \in 0..3 /\ e.avail \in SUBSET Bit
         /\ e.done \in Seq(Bit) /\ Len(e.done) \in Nat
         /\ Held(e) \in 0..2 /\ Held(e) \in Nat
<1>1. e.done \in Seq(Bit) /\ Len(e.done) \in Nat
  BY DEF Endpoint
<1>2. Held(e) \in 0..2 /\ Held(e) \in Nat
  BY DEF Held
<1>3. QED BY <1>1, <1>2 DEF Endpoint

-----------------------------------------------------------------------------
(* Giving one owned buffer for a packet still to submit keeps the endpoint
   well formed and the toggles in step, and moves one buffer to the
   controller. *)
LEMMA GiveBufferSound ==
  ASSUME NEW e, Sound(e), e.owned > 0, e.submit > 0
  PROVE  /\ Sound(GiveBuffer(e))
         /\ SameTransfer(e, GiveBuffer(e))
         /\ GiveBuffer(e).outstanding = e.outstanding
         /\ GiveBuffer(e).halt = HS_NONE
         /\ GiveBuffer(e).owned = e.owned - 1
         /\ GiveBuffer(e).submit = e.submit - 1
         /\ Held(GiveBuffer(e)) = Held(e) + 1
         /\ \A t \in Bit : Phase(e, t) => Phase(GiveBuffer(e), t)
<1> DEFINE f == GiveBuffer(e)
<1> e \in Endpoint
  BY DEF Sound
<1>1. CurrentBuffer(e) \in 0..2 /\ (e.seq + 1) % SeqMod \in 0..(SeqMod - 1)
  BY SeqModAssumption DEF Endpoint, CurrentBuffer, Bit, NoView
<1>2. /\ f.owned = e.owned - 1
      /\ f.submit = e.submit - 1
      /\ f.avail = e.avail \cup {e.give}
      /\ f.sel = IF e.fresh THEN 0 ELSE e.sel
      /\ f.give = IF e.dbl THEN 1 - e.give ELSE e.give
      /\ f.pid = 1 - e.pid
      /\ f.bpid = [e.bpid EXCEPT ![e.give] = e.pid]
      /\ f.halt = HS_NONE /\ f.fresh = FALSE /\ f.outstanding = e.outstanding
      /\ SameTransfer(e, f)
  BY DEF Endpoint, GiveBuffer, HandOver, SameTransfer
<1>3. f \in Endpoint
  <2>1. f.owned \in Nat /\ f.submit \in Nat /\ f.give \in Bit
    BY <1>2 DEF Endpoint, Bit
  <2>2. /\ f.avail \in SUBSET Bit /\ f.sel \in Bit /\ f.fresh \in BOOLEAN
        /\ f.halt \in 0..3 /\ f.view \in 0..2
    BY <1>2 DEF Endpoint, Bit, GiveBuffer, HandOver, HS_NONE, NoView
  <2>3. f.pid \in Bit /\ f.bpid \in [Bit -> Bit]
    BY DEF Endpoint, Bit, GiveBuffer, HandOver
  <2>4. f.data \in [Bit -> 0..(SeqMod - 1)] /\ f.seq \in 0..(SeqMod - 1)
    <3>1. e.data \in [Bit -> 0..(SeqMod - 1)] /\ e.seq \in 0..(SeqMod - 1)
      BY DEF Endpoint
    <3>2. /\ f.data = IF e.in THEN [e.data EXCEPT ![CurrentBuffer(e)] = e.seq] ELSE e.data
          /\ f.seq = IF e.in THEN (e.seq + 1) % SeqMod ELSE e.seq
      BY DEF Endpoint, GiveBuffer, HandOver
    <3> HIDE DEF f
    <3>3. QED BY <3>1, <3>2, <1>1
  <2>5. /\ f.pos \in Nat /\ f.in \in BOOLEAN /\ f.dbl \in BOOLEAN /\ f.take \in Bit
        /\ f.cur \in BOOLEAN /\ f.handle \in Nat /\ f.outstanding \in BOOLEAN
        /\ f.queued \in BOOLEAN /\ f.done \in Seq(Bit) /\ f.last \in 0..(SeqMod - 1)
    BY DEF Endpoint, GiveBuffer, HandOver
  <2>6. f = [e EXCEPT !.halt = f.halt, !.avail = f.avail, !.bpid = f.bpid, !.pid = f.pid,
                      !.view = f.view, !.owned = f.owned, !.submit = f.submit,
                      !.pos = f.pos, !.data = f.data, !.seq = f.seq, !.fresh = f.fresh,
                      !.sel = f.sel, !.give = f.give]
    BY DEF Endpoint, GiveBuffer, HandOver
  <2> HIDE DEF f
  <2>7. QED
    BY <2>1, <2>2, <2>3, <2>4, <2>5, <2>6 DEF Endpoint
<1>4. Held(f) = Held(e) + 1
  <2>1. /\ e.sel \in Bit /\ e.give \in Bit /\ e.avail \in SUBSET Bit /\ e.dbl \in BOOLEAN
        /\ Len(e.done) \in Nat /\ e.owned \in Nat /\ Held(e) \in Nat
    BY EndpointParts
  <2>2. Held(e) < Buffers(e)
    BY <2>1 DEF Sound, Count, Buffers
  <2>3. e.give \notin e.avail
    <3>1. CASE e.avail = {}
      BY <3>1
    <3>2. CASE e.avail # {}
      <4>1. e.sel \in e.avail /\ ~e.fresh
        BY <3>2 DEF Sound, Ring
      <4>2. e.dbl /\ Held(e) = 1
        BY <2>1, <2>2, <4>1 DEF Buffers, Held, Bit
      <4>3. e.give = 1 - e.sel
        BY <4>1, <4>2 DEF Sound, Ring
      <4>4. QED BY <2>1, <4>1, <4>2, <4>3 DEF Held, Bit
    <3>3. QED BY <3>1, <3>2
  <2>4. f.avail = e.avail \cup {e.give}
    BY <1>2
  <2> HIDE DEF f
  <2>5. QED BY <2>1, <2>3, <2>4 DEF Held, Bit
<1>5. Ring(f)
  <2>1. /\ e.sel \in Bit /\ e.give \in Bit /\ e.avail \in SUBSET Bit
        /\ Len(e.done) \in Nat /\ e.owned \in Nat /\ e.dbl \in BOOLEAN
    BY DEF Endpoint
  <2>2. f.dbl = e.dbl /\ f.done = e.done /\ ~f.fresh
    BY <1>2 DEF SameTransfer
  <2>3. CASE Held(e) = 0
    <3>1. e.avail = {}
      BY <2>1, <2>3 DEF Held, Bit
    <3>2. f.sel = e.give /\ f.avail = {e.give} /\ Held(f) = 1
      BY <1>2, <1>4, <2>1, <2>3, <3>1 DEF Sound, Ring, Bit
    <3>3. CASE e.dbl
      <4>1. f.done \in {<<>>, <<1 - f.sel>>, <<f.sel, 1 - f.sel>>}
        BY <1>2, <2>2, <2>3, <3>3 DEF Sound, Ring
      <4>2. f.give = 1 - f.sel
        BY <1>2, <3>2, <3>3
      <4>3. QED BY <2>2, <3>2, <3>3, <4>1, <4>2 DEF Ring
    <3>4. CASE ~e.dbl
      BY <1>2, <2>2, <3>2, <3>4 DEF Sound, Ring
    <3>5. QED BY <3>3, <3>4
  <2>4. CASE Held(e) = 1
    <3>1. e.avail # {} /\ ~e.fresh /\ e.sel \in e.avail
      BY <2>4 DEF Sound, Ring, Held
    <3>2. e.dbl
      BY <2>1, <2>4 DEF Sound, Count, Buffers
    <3>3. e.give = 1 - e.sel
      BY <3>1, <3>2, <2>4 DEF Sound, Ring
    <3>4. f.sel = e.sel /\ f.give = f.sel /\ f.sel \in f.avail /\ Held(f) = 2
      BY <1>2, <1>4, <2>1, <2>4, <3>1, <3>2, <3>3 DEF Bit
    <3>5. f.done \in {<<>>, <<1 - f.sel>>, <<f.sel, 1 - f.sel>>}
      BY <2>2, <3>2, <3>4 DEF Sound, Ring
    <3>6. QED BY <2>2, <3>2, <3>4, <3>5 DEF Ring
  <2>5. Held(e) \in {0, 1}
    BY <2>1 DEF Sound, Count, Buffers, Held
  <2>6. QED BY <2>3, <2>4, <2>5
<1>6. Count(f)
  <2>1. e.owned \in Nat /\ Held(e) \in Nat /\ Len(e.done) \in Nat
    BY EndpointParts
  <2>2. f.owned = e.owned - 1 /\ Held(f) = Held(e) + 1 /\ f.done = e.done /\ f.dbl = e.dbl
    BY <1>2, <1>4 DEF SameTransfer
  <2>3. Count(e)
    BY DEF Sound
  <2> HIDE DEF f
  <2>4. QED BY <2>1, <2>2, <2>3 DEF Count, Buffers
<1>7. ASSUME NEW t \in Bit, Phase(e, t)
      PROVE  Phase(f, t)
  <2>1. /\ e.sel \in Bit /\ e.give \in Bit /\ e.pid \in Bit /\ t \in Bit
        /\ e.avail \in SUBSET Bit /\ e.bpid \in [Bit -> Bit]
        /\ Len(e.done) \in Nat /\ e.owned \in Nat /\ e.dbl \in BOOLEAN
    BY DEF Endpoint
  <2>2. CASE Held(e) = 0
    <3>1. e.avail = {}
      BY <2>1, <2>2 DEF Held, Bit
    <3>2. f.sel = e.give /\ f.avail = {e.give} /\ Held(f) = 1
      BY <1>2, <1>4, <2>1, <2>2, <3>1 DEF Sound, Ring, Bit
    <3>3. e.pid = t /\ f.bpid[e.give] = e.pid
      BY <1>2, <1>7, <2>1, <2>2 DEF Phase
    <3>4. QED
      BY <1>2, <2>1, <3>2, <3>3 DEF Phase
  <2>3. CASE Held(e) = 1
    <3>1. e.avail # {} /\ ~e.fresh /\ e.sel \in e.avail
      BY <2>3 DEF Sound, Ring, Held
    <3>2. e.avail = {e.sel}
      BY <3>1, <2>1, <2>3 DEF Held, Bit
    <3>3. e.dbl
      BY <2>1, <2>3 DEF Sound, Count, Buffers
    <3>4. e.give = 1 - e.sel
      BY <3>1, <3>3, <2>3 DEF Sound, Ring
    <3>5. f.sel = e.sel /\ Held(f) = 2
      BY <1>2, <1>4, <2>3, <3>1
    <3>6. e.bpid[e.sel] = t /\ e.pid = 1 - t
      BY <1>7, <2>3, <3>1 DEF Phase
    <3>7. f.bpid[e.sel] = t /\ f.bpid[1 - e.sel] = 1 - t /\ f.pid = t
      BY <1>2, <2>1, <3>4, <3>6 DEF Bit
    <3>8. QED
      BY <3>5, <3>7 DEF Phase
  <2>4. Held(e) \in {0, 1}
    BY <2>1, EndpointParts DEF Sound, Count, Buffers
  <2>5. QED
    BY <2>2, <2>3, <2>4
<1>8. QED
  BY <1>2, <1>3, <1>4, <1>5, <1>6, <1>7 DEF Sound

(* The same for the loop of _usb_give_as_many_buffers_as_possible. *)
LEMMA GiveBuffersSound ==
  ASSUME NEW e, Sound(e), NEW n \in Nat, n <= e.owned, n <= e.submit
  PROVE  /\ Sound(GiveBuffers(e, n))
         /\ SameTransfer(e, GiveBuffers(e, n))
         /\ GiveBuffers(e, n).outstanding = e.outstanding
         /\ GiveBuffers(e, n).halt = IF n = 0 THEN e.halt ELSE HS_NONE
         /\ GiveBuffers(e, n).owned = e.owned - n
         /\ GiveBuffers(e, n).submit = e.submit - n
         /\ Held(GiveBuffers(e, n)) = Held(e) + n
         /\ \A t \in Bit : Phase(e, t) => Phase(GiveBuffers(e, n), t)
<1>1. n <= 2 /\ e.owned \in Nat /\ e.submit \in Nat
  <2>1. e \in Endpoint
    BY DEF Sound
  <2>2. e.owned \in Nat /\ e.submit \in Nat /\ Held(e) \in Nat /\ Len(e.done) \in Nat
    BY <2>1, EndpointParts
  <2>3. QED BY <2>2 DEF Sound, Count, Buffers
<1>2. Held(e) \in 0..2
  BY DEF Held
<1>3. CASE n = 0
  BY <1>1, <1>2, <1>3 DEF GiveBuffers, SameTransfer
<1>4. CASE n = 1
  BY <1>1, <1>4, GiveBufferSound DEF GiveBuffers
<1>5. CASE n = 2
  <2> DEFINE f == GiveBuffer(e)
  <2>1. /\ Sound(f) /\ SameTransfer(e, f) /\ f.outstanding = e.outstanding
        /\ f.owned = e.owned - 1 /\ f.submit = e.submit - 1 /\ Held(f) = Held(e) + 1
        /\ \A t \in Bit : Phase(e, t) => Phase(f, t)
    BY <1>1, <1>5, GiveBufferSound
  <2>2. f.owned > 0 /\ f.submit > 0
    BY <1>1, <1>5, <2>1
  <2> DEFINE g == GiveBuffer(f)
  <2>3. /\ Sound(g) /\ SameTransfer(f, g) /\ g.outstanding = f.outstanding
        /\ g.halt = HS_NONE
        /\ g.owned = f.owned - 1 /\ g.submit = f.submit - 1 /\ Held(g) = Held(f) + 1
        /\ \A t \in Bit : Phase(f, t) => Phase(g, t)
    BY <2>1, <2>2, GiveBufferSound
  <2>4. GiveBuffers(e, n) = g
    BY <1>5 DEF GiveBuffers
  <2>5. SameTransfer(e, g)
    BY <2>1, <2>3 DEF SameTransfer
  <2>6. QED
    BY <1>1, <1>2, <1>5, <2>1, <2>3, <2>4, <2>5
<1>6. QED
  BY <1>1, <1>3, <1>4, <1>5

-----------------------------------------------------------------------------
(* Fields the ring, the count and the toggles are about. *)
SameBuffers(e, f) ==
  /\ f.in = e.in /\ f.dbl = e.dbl /\ f.owned = e.owned /\ f.give = e.give
  /\ f.fresh = e.fresh /\ f.avail = e.avail /\ f.sel = e.sel /\ f.done = e.done
  /\ f.pid = e.pid /\ f.bpid = e.bpid

LEMMA SameBuffersSound ==
  ASSUME NEW e, Sound(e), NEW f \in Endpoint, SameBuffers(e, f)
  PROVE  /\ Sound(f)
         /\ Held(f) = Held(e)
         /\ \A t \in Bit : Phase(e, t) => Phase(f, t)
<1>1. Held(f) = Held(e)
  BY DEF SameBuffers, Held
<1>2. QED
  BY <1>1 DEF Sound, SameBuffers, Ring, Count, Buffers, Phase

LEMMA LeftInChunkType ==
  ASSUME NEW e \in Endpoint
  PROVE  LeftInChunk(e) \in Nat
<1>1. e.pos % Chunk \in 0..(Chunk - 1)
  BY ChunkAssumption DEF Endpoint
<1>2. Chunk - (e.pos % Chunk) \in Nat
  BY <1>1, ChunkAssumption
<1>3. QED
  BY <1>2, ChunkAssumption DEF LeftInChunk

(* Giving as many buffers as possible moves packets from "to submit" to the
   controller, one for one, and leaves a packet outstanding only when the
   CPU keeps a buffer and a packet for it. *)
LEMMA GiveAsManySound ==
  ASSUME NEW e, Sound(e), ~e.outstanding, NEW how
  PROVE  LET f == GiveAsMany(e, how)
         IN  /\ Sound(f)
             /\ SameTransfer(e, f)
             /\ f.halt = e.halt
             /\ f.submit + Held(f) = e.submit + Held(e)
             /\ f.outstanding => f.in /\ f.owned >= 1 /\ f.submit >= 1
             /\ e.halt # HS_NONE => f = e
             /\ \A t \in Bit : Phase(e, t) => Phase(f, t)
<1> DEFINE n == IF e.cur /\ e.halt = HS_NONE THEN Least(e.owned, e.submit) ELSE 0
           k == LeftInChunk(e)
           f == GiveAsMany(e, how)
<1>1. e \in Endpoint /\ e.owned \in Nat /\ e.submit \in Nat
  BY DEF Sound, Endpoint
<1>2. n \in Nat /\ n <= e.owned /\ n <= e.submit /\ (n # 0 => e.halt = HS_NONE)
  BY <1>1 DEF Least
<1>3. Held(e) \in Nat
  BY DEF Held
<1>4. CASE e.in /\ how = "later" /\ k < n
  <2> DEFINE g == GiveBuffers(e, k)
  <2>1. k \in Nat /\ k <= e.owned /\ k <= e.submit
    BY <1>1, <1>2, <1>4, LeftInChunkType
  <2>2. /\ Sound(g) /\ SameTransfer(e, g) /\ g.halt = IF k = 0 THEN e.halt ELSE HS_NONE
        /\ g.owned = e.owned - k /\ g.submit = e.submit - k /\ Held(g) = Held(e) + k
        /\ \A t \in Bit : Phase(e, t) => Phase(g, t)
    BY <2>1, GiveBuffersSound
  <2>3. f = [g EXCEPT !.outstanding = TRUE]
    BY <1>4 DEF GiveAsMany
  <2>4. g \in Endpoint
    BY <2>2 DEF Sound
  <2> HIDE DEF f, g, n, k
  <2>5. f \in Endpoint /\ SameBuffers(g, f) /\ SameTransfer(g, f) /\ f.halt = g.halt
        /\ f.owned = g.owned /\ f.submit = g.submit
    BY <2>3, <2>4 DEF Endpoint, SameBuffers, SameTransfer
  <2>6. Sound(f) /\ Held(f) = Held(g) /\ \A t \in Bit : Phase(g, t) => Phase(f, t)
    BY <2>2, <2>5, SameBuffersSound
  <2>7. e.halt = HS_NONE /\ f.in /\ f.owned >= 1 /\ f.submit >= 1
    BY <1>1, <1>2, <1>4, <2>1, <2>2, <2>5 DEF SameTransfer
  <2>8. SameTransfer(e, f)
    BY <2>2, <2>5 DEF SameTransfer
  <2>9. QED
    BY <1>1, <1>3, <2>1, <2>2, <2>5, <2>6, <2>7, <2>8 DEF f
<1>5. CASE ~(e.in /\ how = "later" /\ k < n)
  <2>1. f = GiveBuffers(e, n)
    BY <1>5 DEF GiveAsMany
  <2>2. /\ Sound(f) /\ SameTransfer(e, f) /\ f.outstanding = e.outstanding
        /\ f.halt = IF n = 0 THEN e.halt ELSE HS_NONE
        /\ f.owned = e.owned - n /\ f.submit = e.submit - n /\ Held(f) = Held(e) + n
        /\ \A t \in Bit : Phase(e, t) => Phase(f, t)
    BY <1>2, <2>1, GiveBuffersSound
  <2>3. n = 0 => f = e
    BY <2>1 DEF GiveBuffers
  <2> HIDE DEF f, n, k
  <2>4. QED
    BY <1>1, <1>2, <1>3, <2>2, <2>3 DEF f
<1>6. QED
  BY <1>4, <1>5

-----------------------------------------------------------------------------
(* The endpoint invariant as a property of an endpoint and a host toggle. *)
Good(e, t) == Sound(e) /\ Packets(e) /\ Toggles(e, t)

LEMMA TogglesIsPhase ==
  ASSUME NEW e, NEW t
  PROVE  Toggles(e, t) <=>
           Phase(e, t) /\ (e.halt = HS_HALTED_ON_CONDITION => e.avail = {} /\ e.done = <<>>)
BY DEF Toggles, Phase

LEMMA NothingHeld ==
  ASSUME NEW e, Sound(e), Held(e) = 0, Len(e.done) = 0
  PROVE  e.avail = {} /\ e.done = <<>>
<1>1. e.avail \in SUBSET Bit
  BY DEF Sound, Endpoint
<1>2. e.avail = {}
  BY <1>1 DEF Held, Bit
<1>3. e.done = <<>>
  BY DEF Sound, Ring
<1>4. QED
  BY <1>2, <1>3

(* A new transfer on an endpoint with nothing left to handle. *)
LEMMA StartTransferGood ==
  ASSUME NEW e, Sound(e), NEW t \in Bit, Toggles(e, t), e.done = <<>>,
         e.halt = HS_NONE => e.avail = {},
         NEW n \in Nat \ {0}, NEW how
  PROVE  /\ Good(StartTransfer(e, n, how), t)
         /\ StartTransfer(e, n, how).done = <<>>
         /\ StartTransfer(e, n, how).cur
         /\ StartTransfer(e, n, how).in = e.in
         /\ StartTransfer(e, n, how).dbl = e.dbl
<1> DEFINE g == [e EXCEPT !.cur = TRUE, !.submit = n, !.handle = n, !.pos = 0,
                          !.outstanding = FALSE, !.queued = FALSE]
           f == StartTransfer(e, n, how)
<1>1. e \in Endpoint
  BY DEF Sound
<1>2. /\ g \in Endpoint /\ SameBuffers(e, g) /\ g.cur /\ g.submit = n /\ g.handle = n
      /\ ~g.outstanding /\ ~g.queued /\ g.halt = e.halt
  BY <1>1 DEF Endpoint, SameBuffers
<1>3. Sound(g) /\ Held(g) = Held(e) /\ Phase(g, t)
  BY <1>2, SameBuffersSound, TogglesIsPhase
<1>4. f = GiveAsMany(g, how)
  BY DEF StartTransfer
<1> HIDE DEF f, g
<1>5. /\ Sound(f) /\ SameTransfer(g, f) /\ f.halt = g.halt
      /\ f.submit + Held(f) = g.submit + Held(g)
      /\ f.outstanding => f.in /\ f.owned >= 1 /\ f.submit >= 1
      /\ g.halt # HS_NONE => f = g
      /\ Phase(f, t)
  BY <1>2, <1>3, <1>4, GiveAsManySound
<1>6. f.done = <<>> /\ f.cur /\ ~f.queued /\ f.handle = n /\ f.in = e.in /\ f.dbl = e.dbl
  BY <1>2, <1>5 DEF SameTransfer, SameBuffers
<1>7. Packets(f)
  <2>1. e.halt = HS_NONE => Held(g) = 0
    BY <1>3 DEF Held
  <2>2. e.halt = HS_NONE => f.submit + Held(f) = n
    BY <2>1, <1>2, <1>5
  <2>3. f.submit \in Nat /\ Held(f) \in Nat
    <3>1. f \in Endpoint
      BY <1>5 DEF Sound
    <3>2. QED
      BY <3>1 DEF Endpoint, Held
  <2>5. Len(f.done) = 0
    BY <1>6
  <2>4. QED
    BY <1>2, <1>5, <1>6, <2>2, <2>3, <2>5 DEF Packets
<1>8. Toggles(f, t)
  <2>1. ASSUME f.halt = HS_HALTED_ON_CONDITION
        PROVE  f.avail = {}
    <3>1. e.halt = HS_HALTED_ON_CONDITION /\ g.halt # HS_NONE
      BY <1>2, <1>5, <2>1 DEF HS_NONE, HS_HALTED_ON_CONDITION
    <3>2. f = g /\ g.avail = e.avail
      BY <1>2, <1>5, <3>1 DEF SameBuffers
    <3>3. QED
      BY <3>1, <3>2 DEF Toggles
  <2>2. QED
    BY <1>5, <1>6, <2>1, TogglesIsPhase
<1>9. QED
  BY <1>5, <1>6, <1>7, <1>8 DEF Good, f

(* What _usb_check_for_transfer_completion needs to leave a good endpoint. *)
LEMMA CheckCompletionGood ==
  ASSUME NEW e, Sound(e), NEW t \in Bit, Toggles(e, t), e.cur,
         e.halt = HS_NONE => e.handle = e.submit + Held(e) + Len(e.done)
                                         + (IF e.queued THEN 1 ELSE 0),
         e.outstanding => e.owned >= 1 /\ (e.in => e.submit >= 1),
         ~Ended(e) /\ e.queued => e.outstanding /\ e.owned >= 2,
         NEW how, NEW next \in Nat
  PROVE  /\ Good(CheckCompletion(e, how, next), t)
         /\ CheckCompletion(e, how, next).in = e.in
         /\ CheckCompletion(e, how, next).dbl = e.dbl
<1> DEFINE f == CheckCompletion(e, how, next)
<1>1. e \in Endpoint /\ e.handle \in Nat /\ e.submit \in Nat /\ Len(e.done) \in Nat /\ Held(e) \in Nat
  BY DEF Sound, Endpoint, Held
<1>2. CASE ~Ended(e)
  <2>1. f = e
    BY <1>2 DEF CheckCompletion
  <2>2. Packets(e)
    BY <1>2 DEF Packets, Ended
  <2>3. QED
    BY <2>1, <2>2 DEF Good
<1>3. CASE Ended(e) /\ e.halt # HS_NONE
  <2>1. f = [e EXCEPT !.cur = FALSE, !.submit = 0, !.handle = 0]
    BY <1>3 DEF CheckCompletion
  <2>2. f \in Endpoint /\ SameBuffers(e, f) /\ ~f.cur /\ f.halt = e.halt
    <3> HIDE DEF f
    <3>1. f \in Endpoint
      BY <1>1, <2>1 DEF Endpoint
    <3>2. SameBuffers(e, f) /\ ~f.cur /\ f.halt = e.halt
      BY <1>1, <2>1 DEF Endpoint, SameBuffers
    <3>3. QED
      BY <3>1, <3>2
  <2> HIDE DEF f
  <2>3. Sound(f) /\ Phase(f, t)
    BY <2>2, SameBuffersSound, TogglesIsPhase
  <2>4. Packets(f)
    BY <1>3, <2>2 DEF Packets
  <2>5. Toggles(f, t)
    BY <2>2, <2>3, TogglesIsPhase DEF SameBuffers
  <2>6. QED
    BY <2>2, <2>3, <2>4, <2>5 DEF Good, SameBuffers, f
<1>4. CASE Ended(e) /\ e.halt = HS_NONE
  <2> DEFINE g == [e EXCEPT !.cur = FALSE]
  <2>1. e.handle = 0 /\ Held(e) = 0 /\ Len(e.done) = 0
    BY <1>1, <1>4 DEF Ended
  <2>2. e.avail = {} /\ e.done = <<>>
    BY <2>1, NothingHeld
  <2>3. g \in Endpoint /\ SameBuffers(e, g) /\ ~g.cur /\ g.halt = HS_NONE
    BY <1>1, <1>4 DEF Endpoint, SameBuffers
  <2>4. f = IF next = 0 THEN g ELSE StartTransfer(g, next, how)
    BY <1>4 DEF CheckCompletion
  <2> HIDE DEF f, g
  <2>5. Sound(g) /\ Phase(g, t) /\ g.avail = {} /\ g.done = <<>>
    BY <2>2, <2>3, SameBuffersSound, TogglesIsPhase DEF SameBuffers
  <2>6. Toggles(g, t) /\ Packets(g) /\ g.in = e.in /\ g.dbl = e.dbl
    BY <2>3, <2>5, TogglesIsPhase DEF Packets, SameBuffers
  <2>7. CASE next = 0
    BY <2>4, <2>5, <2>6, <2>7 DEF Good, f
  <2>8. CASE next # 0
    BY <2>4, <2>5, <2>6, <2>8, StartTransferGood DEF f
  <2>9. QED
    BY <2>7, <2>8
<1>5. QED
  BY <1>2, <1>3, <1>4

-----------------------------------------------------------------------------
(* An endpoint that is halted, but not on condition, and has no transfer is
   good whatever became of the counters. *)
LEMMA HaltedGood ==
  ASSUME NEW e, Sound(e), NEW t \in Bit, Phase(e, t), ~e.cur,
         e.halt \in {HS_NON_HALT_STALL, HS_HALTED}
  PROVE  Good(e, t)
<1>1. e.halt # HS_NONE /\ e.halt # HS_HALTED_ON_CONDITION
  BY DEF HS_NON_HALT_STALL, HS_HALTED, HS_NONE, HS_HALTED_ON_CONDITION
<1>2. Packets(e)
  BY <1>1 DEF Packets
<1>3. Toggles(e, t)
  BY <1>1, TogglesIsPhase
<1>4. QED
  BY <1>2, <1>3 DEF Good

LEMMA StallSound ==
  ASSUME NEW e, Sound(e), NEW hs \in {HS_HALTED, HS_HALTED_ON_CONDITION}
  PROVE  LET f == Stall(e, hs)
         IN  /\ Sound(f) /\ Held(f) = Held(e)
             /\ SameBuffers(e, f) /\ SameTransfer(e, f)
             /\ f.submit = e.submit /\ f.outstanding = e.outstanding
             /\ f.halt # HS_NONE
             /\ f.halt \in {e.halt, hs}
             /\ e.halt = HS_HALTED_ON_CONDITION => f.halt = e.halt
             /\ hs = HS_HALTED /\ e.halt # HS_HALTED_ON_CONDITION => f.halt = HS_HALTED
             /\ \A t \in Bit : Phase(e, t) => Phase(f, t)
<1> DEFINE f == Stall(e, hs)
<1>1. e \in Endpoint
  BY DEF Sound
<1>2. e.halt \in 0..3 /\ hs \in 0..3
  BY <1>1 DEF Endpoint, HS_HALTED, HS_HALTED_ON_CONDITION
<1>3. f = [e EXCEPT !.halt = IF e.halt = HS_NONE \/ hs > e.halt THEN hs ELSE e.halt]
  BY DEF Stall
<1> HIDE DEF f
<1>4. f \in Endpoint
  BY <1>1, <1>2, <1>3 DEF Endpoint
<1>5. SameBuffers(e, f) /\ SameTransfer(e, f) /\ f.submit = e.submit /\ f.outstanding = e.outstanding
  BY <1>1, <1>3 DEF Endpoint, SameBuffers, SameTransfer
<1>6. f.halt = IF e.halt = HS_NONE \/ hs > e.halt THEN hs ELSE e.halt
  BY <1>1, <1>3 DEF Endpoint
<1>7. /\ f.halt # HS_NONE
      /\ f.halt \in {e.halt, hs}
      /\ e.halt = HS_HALTED_ON_CONDITION => f.halt = e.halt
      /\ hs = HS_HALTED /\ e.halt # HS_HALTED_ON_CONDITION => f.halt = HS_HALTED
  BY <1>2, <1>6 DEF HS_NONE, HS_HALTED, HS_HALTED_ON_CONDITION
<1>8. Sound(f) /\ Held(f) = Held(e) /\ \A t \in Bit : Phase(e, t) => Phase(f, t)
  BY <1>4, <1>5, SameBuffersSound
<1>9. QED
  BY <1>5, <1>7, <1>8 DEF f

(* Halting an endpoint with no completion pending. *)
LEMMA StallGood ==
  ASSUME NEW e, NEW t \in Bit, Good(e, t), e.done = <<>>,
         NEW hs \in {HS_HALTED, HS_HALTED_ON_CONDITION},
         hs = HS_HALTED_ON_CONDITION => e.avail = {}
  PROVE  /\ Good(Stall(e, hs), t)
         /\ Stall(e, hs).in = e.in
         /\ Stall(e, hs).dbl = e.dbl
<1> DEFINE f == Stall(e, hs)
<1>1. Sound(e) /\ Packets(e) /\ Toggles(e, t) /\ Phase(e, t)
  BY TogglesIsPhase DEF Good
<1>2. /\ Sound(f) /\ Held(f) = Held(e)
      /\ SameBuffers(e, f) /\ SameTransfer(e, f)
      /\ f.submit = e.submit /\ f.outstanding = e.outstanding
      /\ f.halt # HS_NONE
      /\ f.halt \in {e.halt, hs}
      /\ Phase(f, t)
  BY <1>1, StallSound
<1> HIDE DEF f
<1>3. Packets(f)
  BY <1>1, <1>2 DEF Packets, SameBuffers, SameTransfer
<1>4. f.halt = HS_HALTED_ON_CONDITION => f.avail = {} /\ f.done = <<>>
  BY <1>1, <1>2 DEF SameBuffers, Toggles
<1>5. Toggles(f, t)
  BY <1>2, <1>4, TogglesIsPhase
<1>6. QED
  BY <1>2, <1>3, <1>5 DEF Good, SameTransfer, f

-----------------------------------------------------------------------------
(* What on_packet and the give loop leave, before the packet is counted as
   handled: a well-formed endpoint with the same transfer. *)
LEMMA DeliverCalled ==
  ASSUME NEW c, Sound(c), NEW t \in Bit, Phase(c, t), c.cur, c.halt = HS_NONE, ~c.queued,
         c.handle = c.submit + Held(c) + Len(c.done) + 1,
         c.outstanding => c.owned >= 1 /\ (c.in => c.submit >= 1),
         NEW how, NEW next \in Nat
  PROVE  LET f == CheckCompletion([c EXCEPT !.handle = @ - 1], how, next)
         IN  Good(f, t) /\ f.in = c.in /\ f.dbl = c.dbl
<1> DEFINE d == [c EXCEPT !.handle = @ - 1]
<1>0. c \in Endpoint
  BY DEF Sound
<1>1. c \in Endpoint /\ c.submit \in Nat /\ Held(c) \in Nat /\ Len(c.done) \in Nat
  BY <1>0, EndpointParts
<1>2. c.handle - 1 \in Nat /\ c.handle - 1 = c.submit + Held(c) + Len(c.done)
  BY <1>1
<1> HIDE DEF d
<1>3. d \in Endpoint
  BY <1>1, <1>2 DEF Endpoint, d
<1>4. /\ SameBuffers(c, d) /\ d.cur /\ d.halt = HS_NONE /\ ~d.queued /\ d.submit = c.submit
      /\ d.outstanding = c.outstanding /\ d.handle = c.handle - 1
  BY <1>1 DEF Endpoint, SameBuffers, d
<1>5. Sound(d) /\ Held(d) = Held(c) /\ Phase(d, t)
  BY <1>3, <1>4, SameBuffersSound
<1>6. Toggles(d, t)
  BY <1>4, <1>5, TogglesIsPhase DEF HS_NONE, HS_HALTED_ON_CONDITION
<1>7. d.handle = d.submit + Held(d) + Len(d.done) + (IF d.queued THEN 1 ELSE 0)
  BY <1>1, <1>2, <1>4, <1>5 DEF SameBuffers
<1>8. d.outstanding => d.owned >= 1 /\ (d.in => d.submit >= 1)
  BY <1>4 DEF SameBuffers
<1>9. Good(CheckCompletion(d, how, next), t) /\ CheckCompletion(d, how, next).in = d.in
      /\ CheckCompletion(d, how, next).dbl = d.dbl
  BY <1>4, <1>5, <1>6, <1>7, <1>8, CheckCompletionGood
<1>10. QED
  BY <1>4, <1>9 DEF SameBuffers, d

(* Calling on_packet for a buffer the CPU has just got back. *)
LEMMA DeliverGood ==
  ASSUME NEW e, Sound(e), NEW t \in Bit, Phase(e, t), e.cur, e.halt = HS_NONE,
         ~e.outstanding, ~e.queued, e.owned >= 1,
         e.handle = e.submit + Held(e) + Len(e.done) + 1,
         NEW which \in Bit, NEW how, NEW next \in Nat
  PROVE  LET f == Deliver(e, which, how, next)
         IN  Good(f, t) /\ f.in = e.in /\ f.dbl = e.dbl
<1> DEFINE g == [e EXCEPT !.take = which]
           f == Deliver(e, which, how, next)
<1>1. e \in Endpoint
  BY DEF Sound
<1> HIDE DEF g, f
<1>2. g \in Endpoint
  BY <1>1 DEF Endpoint, g
<1>3. /\ SameBuffers(e, g) /\ g.cur /\ g.halt = HS_NONE /\ ~g.outstanding /\ ~g.queued
      /\ g.submit = e.submit /\ g.handle = e.handle
  BY <1>1 DEF Endpoint, SameBuffers, g
<1>4. Sound(g) /\ Held(g) = Held(e) /\ Phase(g, t)
  BY <1>2, <1>3, SameBuffersSound
<1>5. g.handle = g.submit + Held(g) + Len(g.done) + 1 /\ g.owned >= 1
  BY <1>3, <1>4 DEF SameBuffers
<1>6. CASE e.in /\ e.submit = 0
  <2>1. f = CheckCompletion([g EXCEPT !.handle = @ - 1], how, next)
    <3>1. f = Handled(Called(g, how), how, next)
      BY DEF Deliver, f, g
    <3>2. g.in /\ ~(g.submit > 0)
      BY <1>3, <1>6 DEF SameBuffers
    <3>3. Called(g, how) = g
      BY <3>2 DEF Called
    <3>4. QED
      BY <1>3, <3>1, <3>3 DEF Handled
  <2>2. Good(f, t) /\ f.in = g.in /\ f.dbl = g.dbl
    BY <2>1, <1>3, <1>4, <1>5, DeliverCalled
  <2>3. QED
    BY <2>2, <1>3 DEF SameBuffers, f
<1>7. CASE e.in /\ e.submit > 0
  <2> DEFINE c == GiveAsMany(g, how)
  <2>1. /\ Sound(c) /\ SameTransfer(g, c) /\ c.halt = g.halt
        /\ c.submit + Held(c) = g.submit + Held(g)
        /\ c.outstanding => c.in /\ c.owned >= 1 /\ c.submit >= 1
        /\ Phase(c, t)
    BY <1>3, <1>4, GiveAsManySound
  <2> HIDE DEF c
  <2>2. c.cur /\ ~c.queued /\ c.in = e.in /\ c.dbl = e.dbl /\ c.halt = HS_NONE
    BY <1>3, <2>1 DEF SameTransfer, SameBuffers
  <2>3. c.handle = c.submit + Held(c) + Len(c.done) + 1
    BY <1>5, <2>1 DEF SameTransfer
  <2>4. f = CheckCompletion([c EXCEPT !.handle = @ - 1], how, next)
    BY <2>2, <1>7 DEF Deliver, Called, Handled, f, g, c
  <2>5. QED
    BY <2>1, <2>2, <2>3, <2>4, DeliverCalled DEF f
<1>8. CASE ~e.in
  <2> DEFINE b == CurrentBuffer(g)
             seen == [g EXCEPT !.view = b, !.last = g.data[b], !.pos = @ + 1]
             c == OnPacketOut(g, how)
  <2>1. b \in Bit /\ g.data[b] \in 0..(SeqMod - 1) /\ g.pos + 1 \in Nat
    BY <1>2 DEF Endpoint, CurrentBuffer, Bit, NoView
  <2> HIDE DEF b, seen
  <2>2. seen \in Endpoint
    <3>1. b \in 0..2 /\ seen.view = b
      BY <1>2, <2>1 DEF Endpoint, seen, Bit
    <3>2. seen.last \in 0..(SeqMod - 1) /\ seen.pos \in Nat
      BY <1>2, <2>1 DEF Endpoint, seen
    <3>3. QED
      BY <1>2, <3>1, <3>2 DEF Endpoint, seen
  <2>3. /\ SameBuffers(g, seen) /\ seen.cur /\ seen.halt = HS_NONE /\ ~seen.outstanding
        /\ ~seen.queued /\ seen.submit = g.submit /\ seen.handle = g.handle
    BY <1>2, <1>3 DEF Endpoint, SameBuffers, seen
  <2>4. Sound(seen) /\ Held(seen) = Held(g) /\ Phase(seen, t)
    BY <1>4, <2>2, <2>3, SameBuffersSound
  <2>5. f = IF c.cur THEN CheckCompletion([c EXCEPT !.handle = @ - 1], how, next) ELSE c
    BY <1>8 DEF Deliver, Called, Handled, f, g
  <2>6. CASE how = "halt"
    <3> DEFINE h == Stall(seen, HS_HALTED)
    <3>1. Sound(h) /\ SameBuffers(seen, h) /\ h.halt = HS_HALTED /\ Phase(h, t)
      BY <2>3, <2>4, StallSound DEF HS_NONE, HS_HALTED_ON_CONDITION
    <3> HIDE DEF h
    <3>2. c = CheckCompletion(h, how, 0)
      BY <2>6 DEF OnPacketOut, b, seen, h
    <3>3. c = [h EXCEPT !.cur = FALSE, !.submit = 0, !.handle = 0]
      BY <3>1, <3>2 DEF CheckCompletion, Ended, HS_HALTED, HS_NONE
    <3>4. h \in Endpoint
      BY <3>1 DEF Sound
    <3> HIDE DEF c
    <3>5. c \in Endpoint
      BY <3>3, <3>4 DEF Endpoint
    <3>6. SameBuffers(h, c) /\ ~c.cur /\ c.halt = HS_HALTED
      BY <3>1, <3>3, <3>4 DEF Endpoint, SameBuffers
    <3>7. Sound(c) /\ Phase(c, t)
      BY <3>1, <3>5, <3>6, SameBuffersSound
    <3>8. Good(c, t)
      BY <3>6, <3>7, HaltedGood
    <3>9. c.in = e.in /\ c.dbl = e.dbl /\ f = c
      BY <1>3, <2>3, <2>5, <3>1, <3>6 DEF SameBuffers
    <3>10. QED
      BY <3>8, <3>9 DEF f
  <2>7. CASE how # "halt" /\ how = "later" /\ EndsChunk(g)
    <3>1. c = [seen EXCEPT !.outstanding = TRUE]
      BY <2>7 DEF OnPacketOut, b, seen
    <3> HIDE DEF c
    <3>2. c \in Endpoint
      BY <2>2, <3>1 DEF Endpoint
    <3>3. /\ SameBuffers(seen, c) /\ c.cur /\ c.halt = HS_NONE /\ ~c.queued
          /\ c.submit = seen.submit /\ c.handle = seen.handle
      BY <2>2, <2>3, <3>1 DEF Endpoint, SameBuffers
    <3>4. Sound(c) /\ Held(c) = Held(seen) /\ Phase(c, t)
      BY <2>4, <3>2, <3>3, SameBuffersSound
    <3>5. c.handle = c.submit + Held(c) + Len(c.done) + 1 /\ c.owned >= 1 /\ ~c.in
          /\ c.in = e.in /\ c.dbl = e.dbl
      BY <1>3, <1>5, <1>8, <2>3, <2>4, <3>3, <3>4 DEF SameBuffers
    <3>6. QED
      BY <2>5, <3>3, <3>4, <3>5, DeliverCalled DEF f
  <2>8. CASE how # "halt" /\ ~(how = "later" /\ EndsChunk(g))
    <3> DEFINE q == [seen EXCEPT !.view = NoView]
    <3>1. c = GiveAsMany(q, how)
      BY <2>8 DEF OnPacketOut, b, seen
    <3> HIDE DEF c, q
    <3>2. q \in Endpoint
      <4>1. q.view \in 0..2
        BY <2>2 DEF Endpoint, q, NoView
      <4>2. QED
        BY <2>2, <4>1 DEF Endpoint, q
    <3>3. /\ SameBuffers(seen, q) /\ q.cur /\ q.halt = HS_NONE /\ ~q.queued /\ ~q.outstanding
          /\ q.submit = seen.submit /\ q.handle = seen.handle
      BY <2>2, <2>3 DEF Endpoint, SameBuffers, q
    <3>4. Sound(q) /\ Held(q) = Held(seen) /\ Phase(q, t)
      BY <2>4, <3>2, <3>3, SameBuffersSound
    <3>5. /\ Sound(c) /\ SameTransfer(q, c) /\ c.halt = q.halt
          /\ c.submit + Held(c) = q.submit + Held(q)
          /\ c.outstanding => c.in /\ c.owned >= 1 /\ c.submit >= 1
          /\ Phase(c, t)
      BY <3>1, <3>3, <3>4, GiveAsManySound
    <3>6. c.cur /\ ~c.queued /\ c.in = e.in /\ c.dbl = e.dbl /\ c.halt = HS_NONE
      BY <1>3, <2>3, <3>3, <3>5 DEF SameTransfer, SameBuffers
    <3>7. c.handle = c.submit + Held(c) + Len(c.done) + 1
      BY <1>5, <2>3, <2>4, <3>3, <3>4, <3>5 DEF SameTransfer, SameBuffers
    <3>8. QED
      BY <2>5, <3>5, <3>6, <3>7, DeliverCalled DEF f
  <2>9. QED
    BY <2>6, <2>7, <2>8
<1>9. QED
  <2>1. e.in \in BOOLEAN /\ e.submit \in Nat
    BY <1>1 DEF Endpoint
  <2>2. QED
    BY <2>1, <1>6, <1>7, <1>8

-----------------------------------------------------------------------------
(* Taking the first completion off the endpoint. *)
LEMMA TakeCompletion ==
  ASSUME NEW e, Sound(e), e.done # <<>>, NEW t \in Bit, Phase(e, t)
  PROVE  LET f == [e EXCEPT !.done = Tail(@), !.owned = @ + 1]
         IN  /\ Sound(f) /\ Held(f) = Held(e) /\ Phase(f, t)
             /\ Len(f.done) = Len(e.done) - 1 /\ f.owned = e.owned + 1
             /\ f.in = e.in /\ f.dbl = e.dbl /\ f.cur = e.cur /\ f.halt = e.halt
             /\ f.submit = e.submit /\ f.handle = e.handle
             /\ f.outstanding = e.outstanding /\ f.queued = e.queued
             /\ Head(e.done) \in Bit
<1> DEFINE f == [e EXCEPT !.done = Tail(@), !.owned = @ + 1]
<1>1. e \in Endpoint /\ e.done \in Seq(Bit) /\ e.owned \in Nat /\ e.sel \in Bit /\ e.dbl \in BOOLEAN
  BY DEF Sound, Endpoint
<1>2. Tail(e.done) \in Seq(Bit) /\ Head(e.done) \in Bit /\ Len(Tail(e.done)) = Len(e.done) - 1
      /\ Len(e.done) \in Nat
  <2>1. e.done \in Seq(Bit) /\ e.done # <<>>
    BY <1>1
  <2>2. Len(e.done) \in Nat
    BY <2>1
  <2>3. Tail(e.done) \in Seq(Bit)
    BY <2>1
  <2>4. Head(e.done) \in Bit
    BY <2>1
  <2>5. Len(Tail(e.done)) = Len(e.done) - 1
    BY <2>1
  <2>6. QED
    BY <2>2, <2>3, <2>4, <2>5
<1> HIDE DEF f
<1>3. /\ f.done = Tail(e.done) /\ f.owned = e.owned + 1
      /\ f.in = e.in /\ f.dbl = e.dbl /\ f.cur = e.cur /\ f.halt = e.halt
      /\ f.submit = e.submit /\ f.handle = e.handle
      /\ f.outstanding = e.outstanding /\ f.queued = e.queued
      /\ f.avail = e.avail /\ f.sel = e.sel /\ f.give = e.give /\ f.fresh = e.fresh
      /\ f.pid = e.pid /\ f.bpid = e.bpid
  BY <1>1 DEF Endpoint, f
<1>4. f \in Endpoint
  <2>1. f.done \in Seq(Bit) /\ f.owned \in Nat
    BY <1>1, <1>2, <1>3
  <2>2. QED
    BY <1>1, <2>1 DEF Endpoint, f
<1>5. Held(f) = Held(e)
  BY <1>3 DEF Held
<1>6. Ring(f)
  <2>1. ~e.fresh
    BY DEF Sound, Ring
  <2>2. e.dbl => Tail(e.done) \in {<<>>, <<1 - e.sel>>}
    <3>1. Tail(<<1 - e.sel>>) = <<>> /\ Tail(<<e.sel, 1 - e.sel>>) = <<1 - e.sel>>
      BY <1>1
    <3>2. QED
      BY <3>1 DEF Sound, Ring
  <2>3. ~e.dbl => Tail(e.done) = <<>>
    <3>1. Tail(<<0>>) = <<>>
      OBVIOUS
    <3>2. QED
      BY <3>1 DEF Sound, Ring
  <2>4. QED
    BY <1>3, <1>5, <2>1, <2>2, <2>3 DEF Sound, Ring
<1>7. Count(f)
  <2>1. Held(e) \in Nat
    BY DEF Held
  <2>2. QED
    BY <1>1, <1>2, <1>3, <1>5, <2>1 DEF Sound, Count, Buffers
<1>8. Phase(f, t)
  BY <1>3, <1>5 DEF Phase
<1>9. QED
  BY <1>2, <1>3, <1>4, <1>5, <1>6, <1>7, <1>8 DEF Sound, f

(* _usb_handle_transfer *)
LEMMA HandleTransferGood ==
  ASSUME NEW e, NEW t \in Bit, Good(e, t), e.done # <<>>, NEW how, NEW next \in Nat
  PROVE  LET f == HandleTransfer(e, how, next)
         IN  Good(f, t) /\ f.in = e.in /\ f.dbl = e.dbl
<1> DEFINE g == [e EXCEPT !.done = Tail(@), !.owned = @ + 1]
           f == HandleTransfer(e, how, next)
<1>1. Sound(e) /\ Packets(e) /\ Toggles(e, t) /\ Phase(e, t)
  BY TogglesIsPhase DEF Good
<1>2. /\ Sound(g) /\ Held(g) = Held(e) /\ Phase(g, t)
      /\ Len(g.done) = Len(e.done) - 1 /\ g.owned = e.owned + 1
      /\ g.in = e.in /\ g.dbl = e.dbl /\ g.cur = e.cur /\ g.halt = e.halt
      /\ g.submit = e.submit /\ g.handle = e.handle
      /\ g.outstanding = e.outstanding /\ g.queued = e.queued
      /\ Head(e.done) \in Bit
  BY <1>1, TakeCompletion
<1>3. f = IF ~e.cur THEN Stall(g, HS_HALTED)
          ELSE IF e.outstanding THEN [g EXCEPT !.queued = TRUE]
          ELSE Deliver(g, Head(e.done), how, next)
  BY DEF HandleTransfer
<1> HIDE DEF f, g
<1>4. /\ e \in Endpoint /\ e.owned \in Nat /\ e.submit \in Nat /\ Len(e.done) \in Nat \ {0}
      /\ Held(e) \in Nat /\ e.halt \in 0..3
  BY <1>1 DEF Sound, Endpoint, Held
<1>5. CASE ~e.cur
  <2>1. e.halt # HS_HALTED_ON_CONDITION
    BY <1>1 DEF Toggles
  <2>2. /\ Sound(f) /\ SameTransfer(g, f) /\ f.halt = HS_HALTED /\ Phase(f, t)
    BY <1>2, <1>3, <1>5, <2>1, StallSound
  <2>3. ~f.cur /\ f.in = e.in /\ f.dbl = e.dbl
    BY <1>2, <1>5, <2>2 DEF SameTransfer
  <2>4. Good(f, t)
    BY <2>2, <2>3, HaltedGood
  <2>5. QED
    BY <2>3, <2>4 DEF f
<1>6. CASE e.cur
  <2>1. e.halt = HS_NONE
    BY <1>1, <1>6 DEF Packets
  <2>2. ~e.queued
    <3>1. e.queued => e.owned >= 2
      BY <1>1, <1>6 DEF Packets
    <3>2. QED
      BY <1>1, <1>4, <3>1 DEF Sound, Count, Buffers
  <2>3. e.handle = e.submit + Held(e) + Len(e.done)
    BY <1>1, <1>4, <1>6, <2>1, <2>2 DEF Packets
  <2>4. g.handle = g.submit + Held(g) + Len(g.done) + 1
    <3> DEFINE le == Len(e.done)
               lg == Len(g.done)
               he == Held(e)
    <3>1. lg = le - 1 /\ Held(g) = he /\ g.submit = e.submit /\ g.handle = e.handle
      BY <1>2
    <3>2. le \in Nat /\ he \in Nat /\ e.submit \in Nat
      BY <1>4
    <3>3. e.handle = e.submit + he + le
      BY <2>3
    <3> HIDE DEF le, lg, he
    <3>4. g.handle = g.submit + Held(g) + lg + 1
      BY <3>1, <3>2, <3>3
    <3>5. QED BY <3>4 DEF lg
  <2>5. CASE e.outstanding
    <3>1. f = [g EXCEPT !.queued = TRUE]
      BY <1>3, <1>6, <2>5
    <3>2. g \in Endpoint
      BY <1>2 DEF Sound
    <3>3. f \in Endpoint
      BY <3>1, <3>2 DEF Endpoint
    <3>4. /\ SameBuffers(g, f) /\ f.queued /\ f.outstanding = g.outstanding /\ f.cur = g.cur
          /\ f.halt = g.halt /\ f.submit = g.submit /\ f.handle = g.handle
      BY <3>1, <3>2 DEF Endpoint, SameBuffers
    <3>5. Sound(f) /\ Held(f) = Held(g) /\ Phase(f, t)
      BY <1>2, <3>3, <3>4, SameBuffersSound
    <3>6. Toggles(f, t)
      BY <1>2, <2>1, <3>4, <3>5, TogglesIsPhase DEF HS_NONE, HS_HALTED_ON_CONDITION
    <3>7. f.owned = e.owned + 1 /\ Len(f.done) = Len(e.done) - 1 /\ f.in = e.in /\ f.dbl = e.dbl
      BY <1>2, <3>4 DEF SameBuffers
    <3>8. e.owned >= 1 /\ (e.in => e.submit >= 1)
      BY <1>1, <1>6, <2>5 DEF Packets
    <3>9. Packets(f)
      <4>1. f.cur /\ f.halt = HS_NONE /\ f.queued /\ f.outstanding
        BY <1>2, <1>6, <2>1, <2>5, <3>4
      <4>2. f.handle = g.handle /\ f.submit = g.submit /\ Held(f) = Held(g) /\ f.done = g.done
        BY <3>4, <3>5 DEF SameBuffers
      <4>3. f.handle = f.submit + Held(f) + Len(f.done) + (IF f.queued THEN 1 ELSE 0)
        BY <2>4, <4>1, <4>2, Zenon
      <4>4. f.owned >= 2 /\ f.owned >= 1 /\ (f.in => f.submit >= 1)
        BY <1>2, <1>4, <3>4, <3>7, <3>8
      <4>5. f.halt # HS_NONE => f.done = <<>>
        BY <4>1
      <4>6. QED BY <4>1, <4>3, <4>4, <4>5 DEF Packets
    <3>10. QED
      BY <3>5, <3>6, <3>7, <3>9 DEF Good, f
  <2>6. CASE ~e.outstanding
    <3>1. f = Deliver(g, Head(e.done), how, next)
      BY <1>3, <1>6, <2>6
    <3>2. g.owned >= 1 /\ g.handle = g.submit + Held(g) + Len(g.done) + 1
      BY <1>2, <1>4, <2>4
    <3> DEFINE b == Head(e.done)
               h == Deliver(g, b, how, next)
    <3> HIDE DEF b
    <3>3. /\ Sound(g) /\ Phase(g, t) /\ g.cur /\ g.halt = HS_NONE
          /\ ~g.queued /\ ~g.outstanding /\ b \in Bit
      BY <1>2, <1>6, <2>1, <2>2, <2>6 DEF b
    <3>4. Good(h, t) /\ h.in = g.in /\ h.dbl = g.dbl
      BY <3>3, <3>2, DeliverGood
    <3> HIDE DEF h
    <3>5. f = h
      BY <3>1 DEF h, b
    <3>6. Good(f, t) /\ f.in = g.in /\ f.dbl = g.dbl
      BY <3>4, <3>5
    <3>7. QED
      BY <1>2, <3>6 DEF f
  <2>7. QED
    BY <2>5, <2>6
<1>7. QED
  BY <1>5, <1>6

-----------------------------------------------------------------------------
(* usb_packet_done for an outstanding packet. *)
LEMMA PacketDoneGood ==
  ASSUME NEW e, NEW t \in Bit, Good(e, t), e.cur, e.outstanding,
         NEW halting \in BOOLEAN, NEW how, NEW next \in Nat
  PROVE  LET f == PacketDone(e, halting, how, next)
         IN  Good(f, t) /\ f.in = e.in /\ f.dbl = e.dbl
<1> DEFINE now  == IF halting THEN Stall(e, HS_HALTED) ELSE e
           back == [now EXCEPT !.outstanding = FALSE]
           sent == IF e.in THEN GiveBuffer(back) ELSE [back EXCEPT !.view = NoView]
           f    == PacketDone(e, halting, how, next)
<1>1. Sound(e) /\ Packets(e) /\ Toggles(e, t) /\ Phase(e, t) /\ e \in Endpoint
  BY TogglesIsPhase DEF Good, Sound
<1>2. f = IF Ended(back) THEN CheckCompletion(back, how, next)
          ELSE IF sent.queued
               THEN Deliver([sent EXCEPT !.queued = FALSE], 1 - sent.take, how, next)
               ELSE GiveAsMany(sent, how)
  BY DEF PacketDone, Redeliver
<1> HIDE DEF f
<1>3. /\ Sound(now) /\ Held(now) = Held(e) /\ SameBuffers(e, now) /\ SameTransfer(e, now)
      /\ now.submit = e.submit /\ now.outstanding = e.outstanding /\ Phase(now, t)
      /\ (now.halt = HS_NONE => e.halt = HS_NONE)
      /\ (now.halt = HS_HALTED_ON_CONDITION => e.halt = HS_HALTED_ON_CONDITION)
  <2>1. CASE ~halting
    BY <1>1, <2>1 DEF SameBuffers, SameTransfer
  <2>2. CASE halting
    <3>1. HS_HALTED # HS_HALTED_ON_CONDITION
      BY DEF HS_HALTED, HS_HALTED_ON_CONDITION
    <3>2. QED
      BY <1>1, <2>2, <3>1, StallSound
  <2>3. QED
    BY <2>1, <2>2
<1> HIDE DEF now
<1>4. now \in Endpoint
  BY <1>3 DEF Sound
<1>5. /\ back \in Endpoint /\ SameBuffers(now, back) /\ SameTransfer(now, back)
      /\ back.submit = now.submit /\ ~back.outstanding /\ back.halt = now.halt
  BY <1>4 DEF Endpoint, SameBuffers, SameTransfer
<1> HIDE DEF back
<1>6. Sound(back) /\ Held(back) = Held(e) /\ Phase(back, t)
  BY <1>3, <1>5, SameBuffersSound
<1>7. /\ back.cur /\ back.queued = e.queued /\ back.handle = e.handle /\ back.submit = e.submit
      /\ back.done = e.done /\ back.in = e.in /\ back.dbl = e.dbl /\ back.owned = e.owned
      /\ back.avail = e.avail
  BY <1>3, <1>5 DEF SameBuffers, SameTransfer
<1>8. Toggles(back, t)
  <2>1. back.halt = HS_HALTED_ON_CONDITION => back.avail = {} /\ back.done = <<>>
    BY <1>1, <1>3, <1>5, <1>7 DEF Toggles
  <2>2. QED
    BY <1>6, <2>1, TogglesIsPhase
<1>9. e.halt = HS_NONE =>
        back.handle = back.submit + Held(back) + Len(back.done) + (IF back.queued THEN 1 ELSE 0)
  BY <1>1, <1>6, <1>7 DEF Packets
<1>10. CASE Ended(back)
  <2>1. f = CheckCompletion(back, how, next)
    BY <1>2, <1>10
  <2>2. QED
    BY <1>3, <1>5, <1>6, <1>7, <1>8, <1>9, <1>10, <2>1, CheckCompletionGood DEF f
<1>11. CASE ~Ended(back)
  <2>1. back.halt = HS_NONE /\ e.halt = HS_NONE
    BY <1>3, <1>5, <1>11 DEF Ended
  <2>2. e.owned >= 1 /\ (e.in => e.submit >= 1) /\ (e.queued => e.owned >= 2)
    BY <1>1 DEF Packets
  <2>3. e.owned \in Nat /\ e.submit \in Nat /\ Held(e) \in Nat /\ Len(e.done) \in Nat
    BY <1>1 DEF Endpoint, Held
  <2>4. /\ Sound(sent) /\ SameTransfer(back, sent) /\ ~sent.outstanding /\ sent.halt = HS_NONE
        /\ sent.submit + Held(sent) = back.submit + Held(back)
        /\ (e.queued => sent.owned >= 1)
        /\ Phase(sent, t)
    <3>1. CASE e.in
      <4>1. sent = GiveBuffer(back)
        BY <3>1
      <4>2. back.owned > 0 /\ back.submit > 0
        BY <1>7, <2>2, <2>3, <3>1
      <4>3. /\ Sound(sent) /\ SameTransfer(back, sent) /\ sent.outstanding = back.outstanding
            /\ sent.halt = HS_NONE /\ sent.owned = back.owned - 1
            /\ sent.submit = back.submit - 1 /\ Held(sent) = Held(back) + 1
            /\ Phase(sent, t)
        BY <1>6, <4>1, <4>2, GiveBufferSound
      <4> HIDE DEF sent
      <4>4. QED
        BY <1>5, <1>6, <1>7, <2>2, <2>3, <4>3
    <3>2. CASE ~e.in
      <4>1. sent = [back EXCEPT !.view = NoView]
        BY <3>2
      <4> HIDE DEF sent
      <4>2. sent.view \in 0..2
        BY <1>5, <4>1 DEF Endpoint, NoView
      <4>3. sent \in Endpoint
        BY <1>5, <4>1, <4>2 DEF Endpoint
      <4>4. /\ SameBuffers(back, sent) /\ SameTransfer(back, sent) /\ sent.submit = back.submit
            /\ sent.outstanding = back.outstanding /\ sent.halt = back.halt
        BY <1>5, <4>1 DEF Endpoint, SameBuffers, SameTransfer
      <4>5. Sound(sent) /\ Held(sent) = Held(back) /\ Phase(sent, t)
        BY <1>6, <4>3, <4>4, SameBuffersSound
      <4>6. e.queued => sent.owned >= 1
        BY <1>7, <2>2, <2>3, <4>4 DEF SameBuffers
      <4>7. QED
        BY <1>5, <2>1, <4>4, <4>5, <4>6
    <3>3. QED
      BY <3>1, <3>2
  <2> HIDE DEF sent
  <2>5. /\ sent.cur /\ sent.queued = e.queued /\ sent.done = e.done /\ sent.in = e.in
        /\ sent.dbl = e.dbl
        /\ sent.handle = sent.submit + Held(sent) + Len(sent.done) + (IF sent.queued THEN 1 ELSE 0)
    BY <1>7, <1>9, <2>1, <2>4 DEF SameTransfer
  <2>6. sent \in Endpoint /\ sent.take \in Bit /\ sent.submit \in Nat /\ Held(sent) \in Nat
        /\ sent.queued \in BOOLEAN
    <3>1. sent \in Endpoint
      BY <2>4 DEF Sound
    <3>2. QED BY <3>1, EndpointParts
  <2>7. CASE sent.queued
    <3> DEFINE g == [sent EXCEPT !.queued = FALSE]
    <3>1. g \in Endpoint
      BY <2>6 DEF Endpoint
    <3>2. /\ SameBuffers(sent, g) /\ ~g.queued /\ ~g.outstanding /\ g.cur /\ g.halt = HS_NONE
          /\ g.submit = sent.submit /\ g.handle = sent.handle
      BY <2>4, <2>5, <2>6 DEF Endpoint, SameBuffers
    <3>3. f = Deliver(g, 1 - sent.take, how, next)
      BY <1>2, <1>11, <2>7
    <3> HIDE DEF g
    <3>4. Sound(g) /\ Held(g) = Held(sent) /\ Phase(g, t)
      BY <2>4, <3>1, <3>2, SameBuffersSound
    <3>5. g.owned >= 1 /\ g.handle = g.submit + Held(g) + Len(g.done) + 1
      BY <2>4, <2>5, <2>7, <3>2, <3>4 DEF SameBuffers
    <3>6. 1 - sent.take \in Bit
      BY <2>6 DEF Bit
    <3>7. Good(f, t) /\ f.in = g.in /\ f.dbl = g.dbl
      BY <3>2, <3>3, <3>4, <3>5, <3>6, DeliverGood
    <3>8. QED
      BY <2>5, <3>2, <3>7 DEF SameBuffers, f
  <2>8. CASE ~sent.queued
    <3>1. f = GiveAsMany(sent, how)
      BY <1>2, <1>11, <2>8
    <3>2. /\ Sound(f) /\ SameTransfer(sent, f) /\ f.halt = sent.halt
          /\ f.submit + Held(f) = sent.submit + Held(sent)
          /\ f.outstanding => f.in /\ f.owned >= 1 /\ f.submit >= 1
          /\ Phase(f, t)
      BY <2>4, <3>1, GiveAsManySound
    <3>3. f.cur /\ ~f.queued /\ f.in = e.in /\ f.dbl = e.dbl /\ f.halt = HS_NONE
      BY <2>4, <2>5, <2>8, <3>2 DEF SameTransfer
    <3>4. f.handle = f.submit + Held(f) + Len(f.done)
      <4>1. f \in Endpoint
        BY <3>2 DEF Sound
      <4>2. f.submit \in Nat /\ Held(f) \in Nat /\ Len(f.done) \in Nat
        BY <4>1 DEF Endpoint, Held
      <4>3. QED
        BY <2>5, <2>6, <2>8, <3>2, <4>2 DEF SameTransfer
    <3>5. Packets(f)
      <4>1. f \in Endpoint
        BY <3>2 DEF Sound
      <4>2. f.submit \in Nat /\ Held(f) \in Nat /\ Len(f.done) \in Nat
        BY <4>1 DEF Endpoint, Held
      <4>3. QED
        BY <3>2, <3>3, <3>4, <4>2 DEF Packets
    <3>6. Toggles(f, t)
      BY <3>2, <3>3, TogglesIsPhase DEF HS_NONE, HS_HALTED_ON_CONDITION
    <3>7. QED
      BY <3>2, <3>3, <3>5, <3>6 DEF Good, f
  <2>9. QED
    BY <2>7, <2>8
<1>12. QED
  BY <1>10, <1>11

-----------------------------------------------------------------------------
LEMMA AppendToOne ==
  ASSUME NEW a \in Int, NEW b \in Int
  PROVE  Append(<<a>>, b) = <<a, b>>
<1> DEFINE s == Append(<<a>>, b)
<1>1. <<a>> \in Seq(Int) /\ Len(<<a>>) = 1 /\ <<a>>[1] = a
  OBVIOUS
<1>2. s \in Seq(Int) /\ Len(s) = 2 /\ s[1] = a /\ s[2] = b
  BY <1>1, AppendProperties
<1>3. <<a, b>> \in Seq(Int) /\ Len(<<a, b>>) = 2 /\ <<a, b>>[1] = a /\ <<a, b>>[2] = b
  OBVIOUS
<1> HIDE DEF s
<1>4. \A i \in 1..2 : s[i] = <<a, b>>[i]
  <2>1. \A i \in 1..2 : i = 1 \/ i = 2
    OBVIOUS
  <2>2. QED
    BY <1>2, <1>3, <2>1
<1>5. s = <<a, b>>
  BY <1>2, <1>3, <1>4, SeqEqual
<1>6. QED
  BY <1>5 DEF s

(* Arithmetic of the buffer and packet counts. *)
LEMMA OneHeldOneMore ==
  ASSUME NEW owned \in Nat, NEW len \in Nat, owned + 1 + len = 2
  PROVE  len # 2
OBVIOUS

LEMMA HeldToDone ==
  ASSUME NEW submit \in Nat, NEW held \in Nat, NEW len \in Nat, NEW deferred \in {0, 1}
  PROVE  submit + held + len + deferred = submit + (held - 1) + (len + 1) + deferred
OBVIOUS

(* The controller completes the packet whose toggle the host expects. *)
LEMMA CompleteGood ==
  ASSUME NEW e, NEW t \in Bit, Good(e, t), CanComplete(e, t)
  PROVE  LET f == Complete(e)
         IN  Good(f, 1 - t) /\ f.in = e.in /\ f.dbl = e.dbl
<1> DEFINE f == Complete(e)
<1>1. Sound(e) /\ Packets(e) /\ Toggles(e, t) /\ e \in Endpoint
      /\ e.sel \in e.avail /\ e.halt = HS_NONE
  BY DEF Good, Sound, CanComplete
<1>2. /\ e.avail \in SUBSET Bit /\ e.sel \in Bit /\ e.done \in Seq(Bit) /\ e.dbl \in BOOLEAN
      /\ e.in \in BOOLEAN /\ e.owned \in Nat /\ e.submit \in Nat /\ e.bpid \in [Bit -> Bit]
      /\ Len(e.done) \in Nat /\ Held(e) \in Nat
  BY <1>1 DEF Endpoint, Held
<1> HIDE DEF f
<1>3. /\ f.avail = e.avail \ {e.sel}
      /\ f.done = Append(e.done, e.sel)
      /\ f.sel = IF e.dbl THEN 1 - e.sel ELSE e.sel
      /\ f.in = e.in /\ f.dbl = e.dbl /\ f.cur = e.cur /\ f.halt = e.halt
      /\ f.submit = e.submit /\ f.handle = e.handle /\ f.owned = e.owned
      /\ f.outstanding = e.outstanding /\ f.queued = e.queued
      /\ f.give = e.give /\ f.fresh = e.fresh /\ f.pid = e.pid /\ f.bpid = e.bpid
  BY <1>1 DEF Endpoint, Complete, f
<1>4. f \in Endpoint
  <2>1. f.avail \in SUBSET Bit /\ f.done \in Seq(Bit)
    BY <1>2, <1>3
  <2>2. f.sel \in Bit
    BY <1>2, <1>3 DEF Bit
  <2>3. (e.seq + 1) % SeqMod \in 0..(SeqMod - 1)
    BY <1>1, SeqModAssumption DEF Endpoint
  <2>4. f.data \in [Bit -> 0..(SeqMod - 1)] /\ f.seq \in 0..(SeqMod - 1)
    BY <1>1, <2>3 DEF Endpoint, Complete, f
  <2>5. f.last \in 0..(SeqMod - 1)
    BY <1>1 DEF Endpoint, Complete, f
  <2>6. QED
    BY <1>1, <2>1, <2>2, <2>4, <2>5 DEF Endpoint, Complete, f
<1>5. Held(f) = Held(e) - 1 /\ Held(e) >= 1
  BY <1>1, <1>2, <1>3 DEF Held, Bit
<1>6. Len(f.done) = Len(e.done) + 1
  BY <1>2, <1>3
<1>7. ~e.fresh
  BY <1>1 DEF Sound, Ring
<1>8. Count(f)
  <2>1. e.owned \in Nat /\ Held(e) \in Nat /\ Len(e.done) \in Nat
    BY <1>1, EndpointParts
  <2>2. f.owned = e.owned /\ f.dbl = e.dbl
    BY <1>2, <1>3
  <2>3. e.owned + Held(e) + Len(e.done) = Buffers(e)
    BY <1>1 DEF Sound, Count
  <2>4. f.owned + Held(f) + Len(f.done) = e.owned + Held(e) + Len(e.done)
    <3> DEFINE held == Held(e)
               len  == Len(e.done)
    <3>1. Held(f) = held - 1 /\ Len(f.done) = len + 1 /\ held \in Nat /\ len \in Nat
      BY <1>5, <1>6, <2>1
    <3> HIDE DEF held, len
    <3>2. e.owned + (held - 1) + (len + 1) = e.owned + held + len
      BY <2>1, <3>1
    <3>3. f.owned + Held(f) + Len(f.done) = e.owned + held + len
      BY <2>2, <3>1, <3>2, Zenon
    <3>4. QED BY <3>3 DEF held, len
  <2>5. QED BY <2>2, <2>3, <2>4 DEF Count, Buffers
<1>9. ASSUME Held(e) = 2
      PROVE  Ring(f) /\ Toggles(f, 1 - t)
  <2>1. e.avail = Bit /\ e.dbl /\ e.done = <<>>
    <3>1. e.dbl /\ Len(e.done) = 0
      BY <1>1, <1>2, <1>9 DEF Sound, Count, Buffers
    <3>2. QED
      BY <1>2, <1>9, <3>1 DEF Held, Bit
  <2>2. f.avail = {1 - e.sel} /\ f.sel = 1 - e.sel /\ f.done = <<e.sel>> /\ 1 - f.sel = e.sel
    BY <1>2, <1>3, <2>1 DEF Bit
  <2>3. Ring(f)
    <3>1. e.give = e.sel
      BY <1>1, <1>7, <1>9, <2>1 DEF Sound, Ring
    <3>2. QED
      BY <1>3, <1>5, <1>7, <1>9, <2>1, <2>2, <3>1 DEF Ring
  <2>4. Toggles(f, 1 - t)
    <3>1. e.bpid[1 - e.sel] = 1 - t /\ e.pid = t
      BY <1>1, <1>9 DEF Toggles
    <3>2. Held(f) = 1 /\ f.halt # HS_HALTED_ON_CONDITION
      BY <1>1, <1>3, <1>5, <1>9 DEF HS_NONE, HS_HALTED_ON_CONDITION
    <3>3. 1 - (1 - t) = t
      BY DEF Bit
    <3>4. QED
      BY <1>3, <2>2, <3>1, <3>2, <3>3 DEF Toggles
  <2>5. QED
    BY <2>3, <2>4
<1>10. ASSUME Held(e) = 1
       PROVE  Ring(f) /\ Toggles(f, 1 - t)
  <2>1. e.avail = {e.sel}
    BY <1>1, <1>2, <1>10 DEF Held, Bit
  <2>2. f.avail = {} /\ Held(f) = 0
    BY <1>3, <1>5, <1>10, <2>1
  <2>3. Ring(f)
    <3>1. CASE e.dbl
      <4>1. e.give = 1 - e.sel /\ e.done \in {<<>>, <<1 - e.sel>>}
        <5>1. e.owned + 1 + Len(e.done) = 2
          BY <1>1, <1>10, <3>1 DEF Sound, Count, Buffers
        <5>2. e.give = 1 - e.sel
          BY <1>1, <1>7, <1>10, <3>1 DEF Sound, Ring
        <5>3. e.done \in {<<>>, <<1 - e.sel>>, <<e.sel, 1 - e.sel>>}
          BY <1>1, <3>1 DEF Sound, Ring
        <5>4. e.done # <<e.sel, 1 - e.sel>>
          <6>1. Len(<<e.sel, 1 - e.sel>>) = 2
            OBVIOUS
          <6>2. Len(e.done) # 2
            <7>1. e.owned \in Nat /\ Len(e.done) \in Nat
              BY <1>2
            <7>2. QED
              BY <5>1, <7>1, OneHeldOneMore
          <6>3. QED
            BY <6>1, <6>2
        <5>5. QED
          BY <5>2, <5>3, <5>4
      <4>2. f.sel = 1 - e.sel /\ 1 - f.sel = e.sel
        BY <1>2, <1>3, <3>1 DEF Bit
      <4>3. f.done \in {<<e.sel>>, <<1 - e.sel, e.sel>>}
        <5>1. Append(<<>>, e.sel) = <<e.sel>>
          OBVIOUS
        <5>2. Append(<<1 - e.sel>>, e.sel) = <<1 - e.sel, e.sel>>
          BY <1>2, AppendToOne DEF Bit
        <5>3. QED
          BY <1>3, <4>1, <5>1, <5>2
      <4>4. QED
        BY <1>3, <1>7, <2>2, <3>1, <4>1, <4>2, <4>3 DEF Ring
    <3>2. CASE ~e.dbl
      <4>1. e.done = <<>> /\ e.give = 0 /\ e.sel = 0
        <5>1. Len(e.done) = 0
          BY <1>1, <1>2, <1>10, <3>2 DEF Sound, Count, Buffers
        <5>2. Len(<<0>>) = 1
          OBVIOUS
        <5>3. QED
          BY <1>1, <3>2, <5>1, <5>2 DEF Sound, Ring
      <4>2. f.done = <<0>>
        BY <1>3, <4>1
      <4>3. QED
        BY <1>3, <1>7, <2>2, <3>2, <4>1, <4>2 DEF Ring
    <3>3. QED
      BY <3>1, <3>2
  <2>4. Toggles(f, 1 - t)
    <3>1. e.pid = 1 - t
      BY <1>1, <1>10 DEF Toggles
    <3>2. f.halt # HS_HALTED_ON_CONDITION
      BY <1>1, <1>3 DEF HS_NONE, HS_HALTED_ON_CONDITION
    <3>3. QED
      BY <1>3, <2>2, <3>1, <3>2 DEF Toggles
  <2>5. QED
    BY <2>3, <2>4
<1>11. Ring(f) /\ Toggles(f, 1 - t)
  <2>1. Held(e) \in {1, 2}
    BY <1>2, <1>5 DEF Held
  <2>2. QED
    BY <1>9, <1>10, <2>1
<1>12. Packets(f)
  <2>1. e.cur
    <3>1. e.avail # {}
      BY <1>1
    <3>2. QED
      BY <1>1, <3>1 DEF Packets
  <2>2. f.handle = f.submit + Held(f) + Len(f.done) + (IF f.queued THEN 1 ELSE 0)
    <3>1. e.handle = e.submit + Held(e) + Len(e.done) + (IF e.queued THEN 1 ELSE 0)
      BY <1>1, <2>1 DEF Packets
    <3>2. e.submit \in Nat /\ Held(e) \in Nat /\ Len(e.done) \in Nat
      BY <1>2
    <3> DEFINE d == IF e.queued THEN 1 ELSE 0
    <3>3. d \in {0, 1}
      OBVIOUS
    <3> HIDE DEF d
    <3>4. e.submit + Held(e) + Len(e.done) + d
            = e.submit + (Held(e) - 1) + (Len(e.done) + 1) + d
      BY <3>2, <3>3, HeldToDone
    <3>5. f.handle = e.handle /\ f.submit = e.submit /\ f.queued = e.queued
          /\ Held(f) = Held(e) - 1 /\ Len(f.done) = Len(e.done) + 1
      BY <1>3, <1>5, <1>6
    <3>6. QED
      BY <3>1, <3>4, <3>5, Zenon DEF d
  <2>3. /\ f.outstanding => f.owned >= 1 /\ (f.in => f.submit >= 1)
        /\ f.queued => f.outstanding /\ f.owned >= 2
    BY <1>1, <1>3, <2>1 DEF Packets
  <2>4. QED
    BY <1>1, <1>3, <2>1, <2>2, <2>3 DEF Packets
<1>13. QED
  BY <1>3, <1>4, <1>8, <1>11, <1>12 DEF Good, Sound, f

-----------------------------------------------------------------------------
(* _usb_reset_endpoint.  A hard reset needs nothing of the endpoint but that
   no completion is pending, and leaves the toggle 0; a soft one needs the
   invariant, from which it works the host's toggle out. *)
LEMMA ResetGood ==
  ASSUME NEW e \in Endpoint, ~e.dbl => e.sel = 0, e.done = <<>>,
         NEW hard \in BOOLEAN, NEW t \in Bit,
         hard => t = 0, ~hard => Good(e, t),
         NEW onUnstall \in Nat, NEW withDefault \in BOOLEAN
  PROVE  LET f == ResetEndpoint(e, hard, onUnstall, withDefault)
         IN  Good(f, t) /\ f.in = e.in /\ f.dbl = e.dbl /\ f.done = <<>>
<1> DEFINE idle  == [e EXCEPT !.cur = FALSE, !.submit = 0, !.handle = 0,
                              !.outstanding = FALSE, !.queued = FALSE]
           bufs  == ResetBuffers(idle)
           reset == [bufs EXCEPT !.pid  = IF hard THEN 0 ELSE @,
                                 !.view = NoView,
                                 !.halt = HS_NONE]
           f     == ResetEndpoint(e, hard, onUnstall, withDefault)
<1>1. f = IF e.halt # HS_NONE /\ onUnstall > 0 THEN StartTransfer(reset, onUnstall, "done")
          ELSE IF withDefault THEN StartTransfer(reset, 1, "done")
          ELSE reset
  BY DEF ResetEndpoint
<1> HIDE DEF f, reset, bufs, idle
<1>2. /\ idle \in Endpoint /\ SameBuffers(e, idle) /\ ~idle.cur /\ ~idle.outstanding
      /\ ~idle.queued
  BY DEF Endpoint, SameBuffers, idle
<1>3. /\ bufs.pid = IF idle.avail # {} /\ (~idle.dbl \/ idle.owned = 1)
                    THEN 1 - idle.pid ELSE idle.pid
      /\ bufs.avail = {} /\ bufs.owned = Buffers(idle) /\ bufs.give = 0
      /\ bufs.fresh = TRUE /\ bufs.in = idle.in /\ bufs.dbl = idle.dbl
      /\ bufs.done = idle.done /\ bufs.sel = idle.sel /\ bufs.cur = idle.cur
  BY <1>2 DEF Endpoint, ResetBuffers, Recovered, bufs
<1>4. bufs \in Endpoint
  <2> DEFINE r == Recovered(idle)
  <2>1. r \in Endpoint
    BY <1>2 DEF Endpoint, Recovered, Buffers, Bit
  <2>2. bufs = [r EXCEPT !.pid = bufs.pid]
    BY <2>1 DEF Endpoint, ResetBuffers, bufs
  <2>3. bufs.pid \in Bit
    <3>1. idle.pid \in Bit
      BY <1>2 DEF Endpoint
    <3>2. bufs.pid = idle.pid \/ bufs.pid = 1 - idle.pid
      BY <1>3
    <3>3. QED
      BY <3>1, <3>2 DEF Bit
  <2> HIDE DEF r
  <2>4. QED
    BY <2>1, <2>2, <2>3 DEF Endpoint
<1>5. /\ reset.pid = IF hard THEN 0 ELSE bufs.pid
      /\ reset.halt = HS_NONE /\ reset.avail = {} /\ reset.owned = Buffers(e)
      /\ reset.give = 0 /\ reset.fresh = TRUE /\ reset.in = e.in /\ reset.dbl = e.dbl
      /\ reset.done = <<>> /\ reset.sel = e.sel /\ ~reset.cur
  BY <1>2, <1>3, <1>4 DEF Endpoint, SameBuffers, Buffers, reset
<1>6. reset \in Endpoint
  <2>1. reset.pid \in Bit /\ reset.view \in 0..2 /\ reset.halt \in 0..3
    BY <1>4, <1>5 DEF Endpoint, Bit, NoView, HS_NONE, reset
  <2>2. QED
    BY <1>4, <2>1 DEF Endpoint, reset
<1>7. Held(reset) = 0 /\ Len(reset.done) = 0
  BY <1>5 DEF Held
<1>8. Sound(reset)
  <2>1. Ring(reset)
    BY <1>5, <1>7 DEF Ring
  <2>2. Count(reset)
    BY <1>5, <1>7 DEF Count, Buffers
  <2>3. QED
    BY <1>6, <2>1, <2>2 DEF Sound
<1>9. reset.pid = t
  <2>1. CASE hard
    BY <1>5, <2>1
  <2>2. CASE ~hard
    <3>1. e.pid = (IF Held(e) = 1 THEN 1 - t ELSE t) /\ Count(e)
      BY <2>2 DEF Good, Sound, Toggles
    <3>2. e.owned + Held(e) = Buffers(e) /\ e.owned \in Nat /\ e.avail \in SUBSET Bit
          /\ e.dbl \in BOOLEAN /\ Held(e) \in Nat
      BY <3>1 DEF Count, Endpoint, Held
    <3>3. Held(e) = 1 <=> e.avail # {} /\ (~e.dbl \/ e.owned = 1)
      <4>1. e.avail = {} <=> Held(e) = 0
        BY <3>2 DEF Held, Bit
      <4>2. QED
        BY <3>2, <4>1 DEF Buffers
    <3>4. 1 - (1 - t) = t
      BY DEF Bit
    <3>5. QED
      BY <1>2, <1>3, <1>5, <2>2, <3>1, <3>3, <3>4 DEF SameBuffers
  <2>3. QED
    BY <2>1, <2>2
<1>10. Toggles(reset, t)
  BY <1>5, <1>7, <1>9 DEF Toggles
<1>11. Packets(reset)
  BY <1>5 DEF Packets
<1>12. CASE e.halt # HS_NONE /\ onUnstall > 0
  BY <1>1, <1>5, <1>8, <1>10, <1>12, StartTransferGood DEF f
<1>13. CASE ~(e.halt # HS_NONE /\ onUnstall > 0) /\ withDefault
  BY <1>1, <1>5, <1>8, <1>10, <1>13, StartTransferGood DEF f
<1>14. CASE ~(e.halt # HS_NONE /\ onUnstall > 0) /\ ~withDefault
  BY <1>1, <1>5, <1>8, <1>10, <1>11, <1>14 DEF Good, f
<1>15. QED
  BY <1>12, <1>13, <1>14

(* A hard reset, and a soft one of an endpoint in its invariant. *)
LEMMA HardResetGood ==
  ASSUME NEW e \in Endpoint, ~e.dbl => e.sel = 0, e.done = <<>>,
         NEW u \in Nat, NEW withDefault \in BOOLEAN
  PROVE  LET f == ResetEndpoint(e, TRUE, u, withDefault)
         IN  Good(f, 0) /\ f.in = e.in /\ f.dbl = e.dbl /\ f.done = <<>>
<1>1. 0 \in Bit
  BY DEF Bit
<1>2. QED BY <1>1, ResetGood

LEMMA SoftResetGood ==
  ASSUME NEW e, NEW t \in Bit, Good(e, t), e.done = <<>>,
         NEW u \in Nat, NEW withDefault \in BOOLEAN
  PROVE  LET f == ResetEndpoint(e, FALSE, u, withDefault)
         IN  Good(f, t) /\ f.in = e.in /\ f.dbl = e.dbl /\ f.done = <<>>
<1>1. e \in Endpoint /\ (~e.dbl => e.sel = 0)
  BY DEF Good, Sound, Ring
<1>2. QED BY <1>1, ResetGood

-----------------------------------------------------------------------------
(* The host leaves the device time to handle completions before a control
   request, and no driver halts on condition in the middle of a transfer. *)
Orderly == ~Racy /\ ~HaltsBusy

LEMMA InitGood ==
  ASSUME Init
  PROVE  EndpointInv
<1>1. PICK in \in Directions, dbl \in Bufferings : ep = InitEndpoint(in, dbl)
  BY DEF Init
<1>2. toggle = 0 /\ configured = FALSE /\ in \in BOOLEAN /\ dbl \in BOOLEAN
  BY <1>1, FlagsAssumption DEF Init
<1> DEFINE e == InitEndpoint(in, dbl)
<1>3. e \in Endpoint
  <2>1. SeqMod - 1 \in Nat
    BY SeqModAssumption
  <2>2. e.data \in [Bit -> 0..(SeqMod - 1)] /\ e.seq \in 0..(SeqMod - 1) /\ e.last \in 0..(SeqMod - 1)
    BY <2>1 DEF InitEndpoint
  <2>3. e.in \in BOOLEAN /\ e.dbl \in BOOLEAN /\ e.owned \in Nat
    BY <1>2 DEF InitEndpoint
  <2>4. e.bpid \in [Bit -> Bit] /\ e.done \in Seq(Bit) /\ e.avail \in SUBSET Bit
    BY DEF InitEndpoint, Bit
  <2>5. /\ e.give \in Bit /\ e.take \in Bit /\ e.fresh \in BOOLEAN /\ e.pid \in Bit
        /\ e.halt \in 0..3 /\ e.view \in 0..2 /\ e.cur \in BOOLEAN /\ e.sel \in Bit
    BY DEF InitEndpoint, Bit, HS_NONE, NoView
  <2>6. /\ e.submit \in Nat /\ e.handle \in Nat /\ e.outstanding \in BOOLEAN
        /\ e.queued \in BOOLEAN /\ e.pos \in Nat
    BY DEF InitEndpoint
  <2>7. QED
    BY <2>2, <2>3, <2>4, <2>5, <2>6 DEF Endpoint, InitEndpoint
<1>4. /\ e.dbl = dbl /\ e.owned = (IF dbl THEN 2 ELSE 1) /\ e.give = 0
      /\ e.fresh = TRUE /\ e.pid = 0 /\ e.halt = HS_NONE /\ e.cur = FALSE /\ e.avail = {}
      /\ e.sel = 0 /\ e.done = <<>>
  BY DEF InitEndpoint
<1> HIDE DEF e
<1>5. Held(e) = 0 /\ Len(e.done) = 0
  BY <1>4 DEF Held
<1>6. Ring(e) /\ Count(e) /\ Packets(e) /\ Toggles(e, 0)
  BY <1>2, <1>4, <1>5 DEF Ring, Count, Packets, Toggles, Buffers, HS_NONE, HS_HALTED_ON_CONDITION
<1>7. ep = e
  BY <1>1 DEF e
<1>8. QED
  BY <1>2, <1>3, <1>6, <1>7 DEF EndpointInv, TypeOK, Bit

LEMMA StepGood ==
  ASSUME Orderly, EndpointInv, [Next]_vars
  PROVE  EndpointInv'
<1> USE DEF Orderly
<1>1. /\ Good(ep, toggle) /\ ep \in Endpoint
      /\ toggle \in Bit /\ configured \in BOOLEAN
  BY DEF EndpointInv, TypeOK, Good, Sound
<1>2. SUFFICES /\ Good(ep', toggle')
               /\ toggle' \in Bit /\ configured' \in BOOLEAN
  BY DEF EndpointInv, TypeOK, Good, Sound
<1>3. /\ \A m \in Follow : m \in Nat
      /\ \A n \in Sizes : n \in Nat \ {0}
      /\ \A u \in UnstallSizes : u \in Nat
  BY MaxPacketsAssumption DEF Follow, Sizes, UnstallSizes
<1>4. ~ep.dbl => ep.sel = 0
  BY <1>1 DEF Good, Sound, Ring
<1>5. WithDefault \in BOOLEAN
  BY DEF WithDefault
<1>6. ASSUME NEW n \in Sizes, NEW how \in Ways, Start(n, how)
      PROVE  Good(ep', toggle')
             /\ toggle' \in Bit /\ configured' \in BOOLEAN
  <2>1. ~ep.cur /\ ep.done = <<>> /\ ep' = StartTransfer(ep, n, how)
        /\ toggle' = toggle /\ configured' = configured
    BY <1>6 DEF Start
  <2>2. Sound(ep) /\ Toggles(ep, toggle) /\ (ep.halt = HS_NONE => ep.avail = {})
    BY <1>1, <2>1 DEF Good, Packets
  <2>3. QED
    BY <1>1, <1>3, <2>1, <2>2, StartTransferGood
<1>7. ASSUME NEW halting \in BOOLEAN, NEW how \in Ways, NEW m \in Follow,
             FinishPacket(halting, how, m)
      PROVE  Good(ep', toggle')
             /\ toggle' \in Bit /\ configured' \in BOOLEAN
  <2>1. ep.cur /\ ep.outstanding /\ ep' = PacketDone(ep, halting, how, m)
        /\ toggle' = toggle /\ configured' = configured
    BY <1>7 DEF FinishPacket
  <2>2. QED
    BY <1>1, <1>3, <2>1, PacketDoneGood
<1>8. ASSUME NEW hs \in {HS_HALTED, HS_HALTED_ON_CONDITION}, DriverHalt(hs)
      PROVE  Good(ep', toggle')
             /\ toggle' \in Bit /\ configured' \in BOOLEAN
  <2>1. ep.done = <<>> /\ (hs = HS_HALTED_ON_CONDITION => ep.avail = {})
        /\ ep' = Stall(ep, hs) /\ toggle' = toggle /\ configured' = configured
    BY <1>8 DEF DriverHalt
  <2>2. QED
    BY <1>1, <2>1, StallGood
<1>9. ASSUME NEW how, NEW m \in Follow, HandleBuffer(how, m)
      PROVE  Good(ep', toggle')
             /\ toggle' \in Bit /\ configured' \in BOOLEAN
  <2>1. ep.done # <<>> /\ ep' = HandleTransfer(ep, how, m)
        /\ toggle' = toggle /\ configured' = configured
    BY <1>9 DEF HandleBuffer
  <2>2. QED
    BY <1>1, <1>3, <2>1, HandleTransferGood
<1>10. ASSUME Transact
       PROVE  Good(ep', toggle')
              /\ toggle' \in Bit /\ configured' \in BOOLEAN
  <2>1. CanComplete(ep, toggle) /\ ep' = Complete(ep) /\ toggle' = 1 - toggle
        /\ configured' = configured
    BY <1>10 DEF Transact
  <2>2. toggle' \in Bit
    BY <1>1, <2>1 DEF Bit
  <2>3. QED
    BY <1>1, <2>1, <2>2, CompleteGood
<1>11. ASSUME SetHalt
       PROVE  Good(ep', toggle')
              /\ toggle' \in Bit /\ configured' \in BOOLEAN
  <2>1. ep.done = <<>> /\ ep' = Stall(ep, HS_HALTED) /\ toggle' = toggle
        /\ configured' = configured
    BY <1>11 DEF SetHalt, Settled
  <2>2. HS_HALTED # HS_HALTED_ON_CONDITION
    BY DEF HS_HALTED, HS_HALTED_ON_CONDITION
  <2>3. QED
    BY <1>1, <2>1, <2>2, StallGood
<1>12. ASSUME NEW u \in UnstallSizes, ClearHalt(u)
       PROVE  Good(ep', toggle')
              /\ toggle' \in Bit /\ configured' \in BOOLEAN
  <2>1. ep.done = <<>> /\ toggle' = 0 /\ configured' = configured
        /\ ep' = IF ep.halt < HS_HALTED_ON_CONDITION
                 THEN ResetEndpoint(ep, TRUE, u, WithDefault)
                 ELSE [ep EXCEPT !.pid = 0]
    BY <1>12 DEF ClearHalt, Settled
  <2>2. 0 \in Bit /\ u \in Nat
    BY <1>3 DEF Bit
  <2>3. CASE ep.halt < HS_HALTED_ON_CONDITION
    <3> DEFINE f == ResetEndpoint(ep, TRUE, u, WithDefault)
    <3>1. ep' = f /\ ep.done = <<>>
      BY <2>1, <2>3
    <3>2. Good(f, 0) /\ f.in = ep.in /\ f.dbl = ep.dbl
      BY <1>1, <1>4, <1>5, <2>2, <3>1, HardResetGood
    <3> HIDE DEF f
    <3>3. QED
      BY <1>1, <2>1, <2>2, <3>1, <3>2
  <2>4. CASE ~(ep.halt < HS_HALTED_ON_CONDITION)
    <3> DEFINE f == [ep EXCEPT !.pid = 0]
    <3>1. ep.halt = HS_HALTED_ON_CONDITION
      BY <1>1, <2>4 DEF Endpoint, HS_HALTED_ON_CONDITION
    <3> HIDE DEF f
    <3>2. f \in Endpoint
      BY <1>1, <2>2 DEF Endpoint, f
    <3>3. /\ f.pid = 0 /\ f.in = ep.in /\ f.dbl = ep.dbl /\ f.owned = ep.owned
          /\ f.give = ep.give /\ f.fresh = ep.fresh /\ f.halt = ep.halt /\ f.cur = ep.cur
          /\ f.submit = ep.submit /\ f.handle = ep.handle /\ f.avail = ep.avail
          /\ f.outstanding = ep.outstanding /\ f.queued = ep.queued
          /\ f.sel = ep.sel /\ f.done = ep.done /\ Held(f) = Held(ep)
      BY <1>1 DEF Endpoint, Held, f
    <3>4. Ring(f) /\ Count(f) /\ Packets(f)
      BY <1>1, <3>3 DEF Good, Sound, Ring, Count, Buffers, Packets
    <3>5. ep.avail = {} /\ Held(f) = 0
      BY <1>1, <3>1, <3>3 DEF Good, Toggles, Held
    <3>6. Toggles(f, 0)
      BY <2>1, <3>3, <3>5 DEF Toggles
    <3>7. ep' = f
      BY <2>1, <2>4 DEF f
    <3>8. QED
      BY <1>1, <2>1, <2>2, <3>2, <3>3, <3>4, <3>6, <3>7 DEF Good, Sound
  <2>5. QED
    BY <2>3, <2>4
<1>13. ASSUME NEW u \in UnstallSizes, ClassReset(u)
       PROVE  Good(ep', toggle')
              /\ toggle' \in Bit /\ configured' \in BOOLEAN
  <2>1. ep.done = <<>> /\ toggle' = toggle /\ configured' = configured
        /\ ep' = ResetEndpoint(ep, FALSE, u, WithDefault)
    BY <1>13 DEF ClassReset, Settled
  <2>2. u \in Nat
    BY <1>3
  <2> DEFINE f == ResetEndpoint(ep, FALSE, u, WithDefault)
  <2>3. Good(f, toggle) /\ f.in = ep.in /\ f.dbl = ep.dbl
    BY <1>1, <1>5, <2>1, <2>2, SoftResetGood
  <2>4. ep' = f
    BY <2>1
  <2> HIDE DEF f
  <2>5. QED
    BY <1>1, <2>1, <2>3, <2>4
<1>14. ASSUME NEW u \in UnstallSizes, SetConfig(u)
       PROVE  Good(ep', toggle')
              /\ toggle' \in Bit /\ configured' \in BOOLEAN
  <2> DEFINE f == ResetEndpoint(ep, TRUE, u, WithDefault)
  <2>1. ep.done = <<>> /\ toggle' = 0 /\ configured' = TRUE
        /\ ep' = ResetEndpoint(f, FALSE, 0, WithDefault)
    BY <1>14 DEF SetConfig, Settled
  <2> DEFINE g == ResetEndpoint(f, FALSE, 0, WithDefault)
  <2>2. 0 \in Bit /\ u \in Nat
    BY <1>3 DEF Bit
  <2>3. Good(f, 0) /\ f.in = ep.in /\ f.dbl = ep.dbl /\ f.done = <<>>
    BY <1>1, <1>4, <1>5, <2>1, <2>2, HardResetGood
  <2> HIDE DEF f
  <2>4. Good(g, 0) /\ g.in = f.in /\ g.dbl = f.dbl
    BY <1>5, <2>2, <2>3, SoftResetGood
  <2>5. ep' = g
    BY <2>1
  <2> HIDE DEF g
  <2>6. QED
    BY <1>1, <2>1, <2>2, <2>3, <2>4, <2>5
<1>15. ASSUME NEW u \in UnstallSizes, BusReset(u)
       PROVE  Good(ep', toggle')
              /\ toggle' \in Bit /\ configured' \in BOOLEAN
  <2> DEFINE f == [ep EXCEPT !.done = <<>>]
  <2>1. toggle' = 0 /\ configured' = FALSE /\ ep' = ResetEndpoint(f, TRUE, u, FALSE)
    BY <1>15 DEF BusReset
  <2> HIDE DEF f
  <2>2. f \in Endpoint /\ f.in = ep.in /\ f.dbl = ep.dbl /\ f.sel = ep.sel /\ f.done = <<>>
    <3>1. f.in = ep.in /\ f.dbl = ep.dbl /\ f.sel = ep.sel /\ f.done = <<>>
      BY <1>1 DEF Endpoint, f
    <3>2. f.done \in Seq(Bit)
      BY <3>1
    <3>3. f \in Endpoint
      BY <1>1, <3>2 DEF Endpoint, f
    <3>4. QED
      BY <3>1, <3>3
  <2> DEFINE g == ResetEndpoint(f, TRUE, u, FALSE)
  <2>3. 0 \in Bit /\ u \in Nat
    BY <1>3 DEF Bit
  <2>4. Good(g, 0) /\ g.in = f.in /\ g.dbl = f.dbl
    BY <1>4, <2>2, <2>3, HardResetGood
  <2>5. ep' = g
    BY <2>1
  <2> HIDE DEF g
  <2>6. QED
    BY <1>1, <2>1, <2>2, <2>3, <2>4, <2>5
<1>16. CASE UNCHANGED vars
  BY <1>1, <1>16 DEF vars
<1>17. CASE Next
  BY <1>6, <1>7, <1>8, <1>9, <1>10, <1>11, <1>12, <1>13, <1>14, <1>15, <1>17
  DEF Next, Driver, Isr, HostControl
<1>18. QED
  BY <1>16, <1>17

(* The endpoint invariant holds in every reachable state, whatever the
   packet numbering, the chunk size, the direction and the buffering. *)
THEOREM EndpointInvariant ==
  ASSUME Orderly
  PROVE  Spec => []EndpointInv
<1>1. Init => EndpointInv
  BY InitGood
<1>2. EndpointInv /\ [Next]_vars => EndpointInv'
  BY StepGood
<1>3. QED
  BY <1>1, <1>2, PTL DEF Spec

-----------------------------------------------------------------------------
(* Every variable keeps its type. *)
THEOREM TypeCorrect ==
  ASSUME Orderly
  PROVE  Spec => []TypeOK
<1>1. EndpointInv => TypeOK
  BY DEF EndpointInv
<1>2. QED
  BY <1>1, EndpointInvariant, PTL

(* No buffer is lost, counted twice, or with the controller and the CPU at
   the same time. *)
THEOREM BuffersConserved ==
  ASSUME Orderly
  PROVE  Spec => []BufferConservation
<1>1. EndpointInv => BufferConservation
  <2> SUFFICES ASSUME EndpointInv PROVE BufferConservation
    OBVIOUS
  <2>1. ep \in Endpoint /\ Ring(ep) /\ Count(ep)
    BY DEF EndpointInv, TypeOK
  <2>2. ep.owned + Held(ep) + Len(ep.done) = Buffers(ep)
    BY <2>1 DEF Count
  <2>3. ASSUME NEW i \in DOMAIN ep.done
        PROVE  ep.done[i] \notin ep.avail
    <3>1. /\ ep.owned \in Nat /\ ep.avail \in SUBSET Bit /\ ep.sel \in Bit
          /\ ep.dbl \in BOOLEAN /\ Held(ep) \in Nat
      BY <2>1 DEF Endpoint, Held
    <3>2. CASE ep.done = <<>>
      BY <2>3, <3>2
    <3>3. CASE ep.done = <<1 - ep.sel>> /\ ep.dbl
      <4>1. Len(ep.done) = 1 /\ i = 1 /\ ep.done[i] = 1 - ep.sel
        BY <2>3, <3>3
      <4>2. Held(ep) <= 1
        BY <2>1, <3>1, <3>3, <4>1 DEF Count, Buffers
      <4>3. QED
        BY <2>1, <3>1, <4>1, <4>2 DEF Ring, Held, Bit
    <3>4. CASE ep.done = <<ep.sel, 1 - ep.sel>> /\ ep.dbl
      <4>1. Len(ep.done) = 2
        BY <3>4
      <4>2. Held(ep) = 0
        BY <2>1, <3>1, <3>4, <4>1 DEF Count, Buffers
      <4>3. ep.avail = {}
        BY <3>1, <4>2 DEF Held, Bit
      <4>4. QED
        BY <4>3
    <3>5. CASE ep.done = <<0>> /\ ~ep.dbl
      <4>1. Len(ep.done) = 1
        BY <3>5
      <4>2. Held(ep) = 0
        BY <2>1, <3>1, <3>5, <4>1 DEF Count, Buffers
      <4>3. ep.avail = {}
        BY <3>1, <4>2 DEF Held, Bit
      <4>4. QED
        BY <4>3
    <3>6. QED
      BY <2>1, <3>1, <3>2, <3>3, <3>4, <3>5 DEF Ring
  <2>4. QED
    BY <2>2, <2>3 DEF BufferConservation
<1>2. QED
  BY <1>1, EndpointInvariant, PTL

(* The packet counters of a transfer always say where its packets are. *)
THEOREM PacketsAccounted ==
  ASSUME Orderly
  PROVE  Spec => []PacketAccounting
<1>1. EndpointInv => PacketAccounting
  BY DEF EndpointInv, Packets, PacketAccounting
<1>2. QED
  BY <1>1, EndpointInvariant, PTL

(* A running endpoint without a transfer has no packet under way. *)
THEOREM NoPacketOrphaned ==
  ASSUME Orderly
  PROVE  Spec => []NoOrphanPacket
<1>1. EndpointInv => NoOrphanPacket
  BY DEF EndpointInv, Packets, NoOrphanPacket
<1>2. QED
  BY <1>1, EndpointInvariant, PTL

(* The data toggles of the endpoint and of the host agree. *)
THEOREM TogglesAgree ==
  ASSUME Orderly
  PROVE  Spec => []ToggleAgreement
<1>1. EndpointInv => ToggleAgreement
  <2> SUFFICES ASSUME EndpointInv PROVE ToggleAgreement
    OBVIOUS
  <2>1. Toggles(ep, toggle) /\ toggle \in Bit
    BY DEF EndpointInv, TypeOK
  <2>2. Held(ep) \in 0..2
    BY DEF Held
  <2>3. ep.pid = toggle <=> Held(ep) \in {0, 2}
    BY <2>1, <2>2 DEF Toggles, Bit
  <2>4. QED
    BY <2>1, <2>3 DEF Toggles, ToggleAgreement
<1>2. QED
  BY <1>1, EndpointInvariant, PTL

(* The controller's next buffer is one it holds, whenever it holds any. *)
THEOREM NoBufferStuck ==
  ASSUME Orderly
  PROVE  Spec => []NoStuckBuffer
<1>1. EndpointInv => NoStuckBuffer
  BY DEF EndpointInv, Ring, NoStuckBuffer
<1>2. QED
  BY <1>1, EndpointInvariant, PTL

(* At most one packet waits behind an outstanding one. *)
THEOREM DeferralSuffices ==
  ASSUME Orderly
  PROVE  Spec => []DeferralFits
<1>1. EndpointInv => DeferralFits
  <2> SUFFICES ASSUME EndpointInv, ep.cur, ep.queued
               PROVE  ep.outstanding /\ ep.done = <<>> /\ ep.dbl
    BY DEF DeferralFits
  <2>1. ep \in Endpoint /\ Ring(ep) /\ Count(ep) /\ Packets(ep)
    BY DEF EndpointInv, TypeOK
  <2>2. ep.outstanding /\ ep.owned >= 2
    BY <2>1 DEF Packets
  <2>3. ep.owned \in Nat /\ Held(ep) \in Nat /\ Len(ep.done) \in Nat /\ ep.dbl \in BOOLEAN
    BY <2>1 DEF Endpoint, Held
  <2>4. ep.dbl /\ Held(ep) = 0 /\ Len(ep.done) = 0
    BY <2>1, <2>2, <2>3 DEF Count, Buffers
  <2>5. ep.done = <<>>
    BY <2>1, <2>4, NothingHeld DEF Sound
  <2>6. QED
    BY <2>2, <2>4, <2>5
<1>2. QED
  BY <1>1, EndpointInvariant, PTL

-----------------------------------------------------------------------------
(* The endpoint as a pipe.  The queue of packets in flight is one of five
   short sequences, and a step that is not a halt or a reset leaves it,
   takes its head, or adds one or two packets to its end. *)
Numbers == 0..(SeqMod - 1)
Succ(s) == (s + 1) % SeqMod

LEMMA SuccNumber ==
  ASSUME NEW s \in Numbers
  PROVE  Succ(s) \in Numbers
BY SeqModAssumption DEF Numbers, Succ

(* The packets an endpoint may hold are numbers, and so is its next one. *)
LEMMA PacketNumbers ==
  ASSUME NEW e \in Endpoint
  PROVE  /\ e.seq \in Numbers /\ e.last \in Numbers /\ Succ(e.seq) \in Numbers
         /\ Succ(Succ(e.seq)) \in Numbers
         /\ \A b \in Bit : e.data[b] \in Numbers
         /\ e.data \in [Bit -> Numbers]
<1>1. e.seq \in Numbers /\ e.last \in Numbers /\ e.data \in [Bit -> Numbers]
  BY DEF Endpoint, Numbers
<1>2. QED BY <1>1, SuccNumber

(* The queue, by what the endpoint holds. *)
LEMMA QueueNone ==
  ASSUME NEW e, e.halt # HS_NONE \/ ~e.cur
  PROVE  QueueOf(e) = <<>>
BY DEF QueueOf

LEMMA ImageOfNone ==
  ASSUME NEW d
  PROVE  [i \in 1..Len(<<>>) |-> d[<<>>[i]]] = <<>>
OBVIOUS

LEMMA ImageOfOne ==
  ASSUME NEW d \in [Bit -> Numbers], NEW a \in Bit
  PROVE  [i \in 1..Len(<<a>>) |-> d[<<a>>[i]]] = <<d[a]>>
OBVIOUS

LEMMA ImageOfTwo ==
  ASSUME NEW d \in [Bit -> Numbers], NEW a \in Bit, NEW b \in Bit
  PROVE  [i \in 1..Len(<<a, b>>) |-> d[<<a, b>>[i]]] = <<d[a], d[b]>>
OBVIOUS

LEMMA QueueIn ==
  ASSUME NEW e \in Endpoint, e.in, e.cur, e.halt = HS_NONE
  PROVE  /\ Held(e) = 0 => QueueOf(e) = <<>>
         /\ Held(e) = 1 => QueueOf(e) = <<e.data[e.sel]>>
         /\ Held(e) = 2 => QueueOf(e) = <<e.data[e.sel], e.data[1 - e.sel]>>
<1>1. e.sel \in Bit /\ 1 - e.sel \in Bit /\ e.data \in [Bit -> Numbers]
  BY PacketNumbers, EndpointParts DEF Bit
<1>2. CASE Held(e) = 0
  BY <1>2, ImageOfNone DEF QueueOf
<1>3. CASE Held(e) = 1
  BY <1>1, <1>3, ImageOfOne DEF QueueOf
<1>4. CASE Held(e) = 2
  BY <1>1, <1>4, ImageOfTwo DEF QueueOf
<1>5. QED BY <1>2, <1>3, <1>4

LEMMA QueueOut ==
  ASSUME NEW e \in Endpoint, ~e.in, e.cur, e.halt = HS_NONE
  PROVE  /\ e.done = <<>> /\ ~e.queued => QueueOf(e) = <<>>
         /\ e.done = <<>> /\ e.queued => QueueOf(e) = <<e.data[1 - e.take]>>
         /\ \A a \in Bit : e.done = <<a>> /\ ~e.queued => QueueOf(e) = <<e.data[a]>>
         /\ \A a, b \in Bit :
              e.done = <<a, b>> /\ ~e.queued => QueueOf(e) = <<e.data[a], e.data[b]>>
<1> DEFINE order == (IF e.queued THEN <<1 - e.take>> ELSE <<>>) \o e.done
<1>1. 1 - e.take \in Bit /\ e.data \in [Bit -> Numbers] /\ e.done \in Seq(Bit)
  BY PacketNumbers, EndpointParts DEF Bit
<1>2. QueueOf(e) = [i \in 1..Len(order) |-> e.data[order[i]]]
  BY DEF QueueOf
<1>3. e.queued /\ e.done = <<>> => order = <<1 - e.take>>
  BY <1>1, ConcatEmptySeq
<1>4. ~e.queued => order = e.done
  BY <1>1, ConcatEmptySeq
<1> HIDE DEF order
<1>5. e.done = <<>> /\ ~e.queued => QueueOf(e) = <<>>
  BY <1>2, <1>4, ImageOfNone
<1>6. ASSUME e.done = <<>>, e.queued
      PROVE  QueueOf(e) = <<e.data[1 - e.take]>>
  <2> DEFINE a == 1 - e.take
  <2>1. order = <<a>> /\ a \in Bit
    BY <1>1, <1>3, <1>6
  <2> HIDE DEF a
  <2>2. QueueOf(e) = [i \in 1..Len(<<a>>) |-> e.data[<<a>>[i]]]
    BY Zenon, <1>2, <2>1
  <2>3. QueueOf(e) = <<e.data[a]>>
    BY <1>1, <2>1, <2>2, ImageOfOne
  <2>4. QED BY <2>3 DEF a
<1>7. ASSUME NEW a \in Bit, e.done = <<a>>, ~e.queued
      PROVE  QueueOf(e) = <<e.data[a]>>
  <2>1. order = <<a>>
    BY <1>4, <1>7
  <2>2. QueueOf(e) = [i \in 1..Len(<<a>>) |-> e.data[<<a>>[i]]]
    BY Zenon, <1>2, <2>1
  <2>3. QED BY Zenon, <1>1, <2>2, ImageOfOne
<1>8. ASSUME NEW a \in Bit, NEW b \in Bit, e.done = <<a, b>>, ~e.queued
      PROVE  QueueOf(e) = <<e.data[a], e.data[b]>>
  <2>1. order = <<a, b>>
    BY <1>4, <1>8
  <2>2. QueueOf(e) = [i \in 1..Len(<<a, b>>) |-> e.data[<<a, b>>[i]]]
    BY Zenon, <1>2, <2>1
  <2>3. QED BY <1>1, <2>2, ImageOfTwo
<1>9. QED BY <1>5, <1>6, <1>7, <1>8

-----------------------------------------------------------------------------
(* Steps of the pipe. *)
Same(e, f) == QueueOf(f) = QueueOf(e) /\ f.seq = e.seq /\ f.last = e.last

Grows(e, f) ==
  /\ f.last = e.last
  /\ \/ QueueOf(f) = QueueOf(e) /\ f.seq = e.seq
     \/ QueueOf(e) = <<>> /\ QueueOf(f) = <<e.seq>> /\ f.seq = Succ(e.seq)
     \/ QueueOf(e) = <<>> /\ QueueOf(f) = <<e.seq, Succ(e.seq)>> /\ f.seq = Succ(Succ(e.seq))
     \/ /\ \E a \in Numbers : QueueOf(e) = <<a>> /\ QueueOf(f) = <<a, e.seq>>
        /\ f.seq = Succ(e.seq)

Receives(e, f) ==
  /\ QueueOf(e) # <<>> /\ f.last = Head(QueueOf(e)) /\ QueueOf(f) = Tail(QueueOf(e))
  /\ f.seq = e.seq

Flows(e, f) == Grows(e, f) \/ Receives(e, f)

(* What was in flight is lost, and what the new transfer sends at once. *)
Drops(e, f) ==
  /\ f.last = e.last
  /\ \/ QueueOf(f) = <<>> /\ f.seq \in {e.seq, Succ(e.seq), Succ(Succ(e.seq))}
     \/ QueueOf(f) = <<e.seq>> /\ f.seq = Succ(e.seq)
     \/ QueueOf(f) = <<e.seq, Succ(e.seq)>> /\ f.seq = Succ(Succ(e.seq))

LEMMA GrowsTwice ==
  ASSUME NEW e, NEW f, NEW g, Grows(e, f), Grows(f, g)
  PROVE  Grows(e, g)
<1>1. \A a, b : <<a>> # <<>> /\ <<a, b>> # <<>> /\ (\A c : <<a, b>> # <<c>>)
  OBVIOUS
<1>2. \A a, b : <<a>> = <<b>> => a = b
  OBVIOUS
<1>3. QED BY <1>1, <1>2 DEF Grows

(* Giving one buffer sends one packet on an IN endpoint, and changes nothing
   of what an OUT endpoint has received. *)
SendsOne(e, f) ==
  /\ f.last = e.last /\ f.seq = Succ(e.seq)
  /\ \/ QueueOf(e) = <<>> /\ QueueOf(f) = <<e.seq>>
     \/ \E a \in Numbers : QueueOf(e) = <<a>> /\ QueueOf(f) = <<a, e.seq>>

LEMMA GiveBufferSends ==
  ASSUME NEW e, Sound(e), e.owned > 0, e.submit > 0, e.in, e.view = NoView,
         e.cur, e.halt = HS_NONE
  PROVE  LET f == GiveBuffer(e) IN SendsOne(e, f) /\ f.view = NoView
<1> DEFINE f == GiveBuffer(e)
<1>1. e \in Endpoint /\ f \in Endpoint /\ Sound(f) /\ f.in /\ f.cur /\ f.halt = HS_NONE
      /\ Held(f) = Held(e) + 1 /\ Ring(e) /\ Count(e)
  BY GiveBufferSound DEF Sound, SameTransfer
<1>2. /\ e.give \in Bit /\ e.sel \in Bit /\ e.avail \in SUBSET Bit /\ Held(e) \in 0..2
      /\ e.data \in [Bit -> Numbers] /\ e.seq \in Numbers /\ Held(f) \in 0..2
      /\ e.dbl \in BOOLEAN /\ e.owned \in Nat /\ Len(e.done) \in Nat
  BY <1>1, EndpointParts, PacketNumbers
<1>3. /\ f.seq = Succ(e.seq) /\ f.last = e.last /\ f.view = NoView
      /\ f.data = [e.data EXCEPT ![e.give] = e.seq]
      /\ f.sel = IF e.fresh THEN 0 ELSE e.sel
      /\ f.avail = e.avail \cup {e.give}
  <2>1. CurrentBuffer(e) = e.give /\ e \in Endpoint
    BY DEF CurrentBuffer, Sound
  <2>2. f.seq = Succ(e.seq) /\ f.last = e.last /\ f.view = NoView
    BY <2>1 DEF Endpoint, GiveBuffer, HandOver, Succ
  <2>3. f.data = [e.data EXCEPT ![CurrentBuffer(e)] = e.seq]
    BY <2>1 DEF Endpoint, GiveBuffer, HandOver
  <2>4. /\ f.sel = IF e.fresh THEN 0 ELSE e.sel
        /\ f.avail = e.avail \cup {e.give}
    BY <2>1 DEF Endpoint, GiveBuffer, HandOver
  <2> HIDE DEF f
  <2>5. QED BY <2>1, <2>2, <2>3, <2>4
<1> HIDE DEF f
<1>4. CASE Held(e) = 0
  <2>1. e.avail = {} /\ f.sel = e.give
    BY <1>1, <1>2, <1>3, <1>4 DEF Ring, Held, Bit
  <2>2. QueueOf(e) = <<>>
    BY <1>1, <1>4, QueueIn
  <2>3. Held(f) = 1 /\ f.data[f.sel] = e.seq
    BY <1>1, <1>2, <1>3, <1>4, <2>1
  <2>4. QueueOf(f) = <<e.seq>>
    BY <1>1, <2>3, QueueIn
  <2>5. QED BY <1>3, <2>2, <2>4 DEF SendsOne, f
<1>5. CASE Held(e) = 1
  <2>1. e.dbl
    BY <1>2, <1>1, <1>5 DEF Count, Buffers
  <2>2. e.avail # {} /\ ~e.fresh /\ e.sel \in e.avail /\ e.give = 1 - e.sel
    BY <1>1, <1>5, <2>1 DEF Ring, Held
  <2>3. f.sel = e.sel /\ f.data[f.sel] = e.data[e.sel] /\ f.data[1 - f.sel] = e.seq
    BY <1>2, <1>3, <2>2 DEF Bit
  <2>4. QueueOf(e) = <<e.data[e.sel]>> /\ e.data[e.sel] \in Numbers
    BY <1>1, <1>2, <1>5, QueueIn
  <2>5. QueueOf(f) = <<e.data[e.sel], e.seq>>
    BY <1>1, <1>5, <2>3, QueueIn
  <2>6. QED BY <1>3, <2>4, <2>5 DEF SendsOne, f
<1>6. Held(e) # 2
  <2>1. Held(f) # 3
    BY <1>2
  <2>2. QED BY <1>1, <1>2, <2>1
<1>7. QED BY <1>2, <1>4, <1>5, <1>6

LEMMA GiveBufferKeeps ==
  ASSUME NEW e, Sound(e), e.owned > 0, e.submit > 0, ~e.in, e.cur, e.halt = HS_NONE
  PROVE  LET f == GiveBuffer(e)
         IN  Same(e, f) /\ f.view = NoView /\ f.data = e.data
<1> DEFINE f == GiveBuffer(e)
<1>1. e \in Endpoint /\ f.in = e.in /\ f.cur = e.cur /\ f.halt = HS_NONE
      /\ f.take = e.take /\ f.done = e.done /\ f.queued = e.queued
  BY GiveBufferSound DEF Sound, SameTransfer
<1>2. f.seq = e.seq /\ f.last = e.last /\ f.view = NoView /\ f.data = e.data
  <2>1. e \in Endpoint
    BY DEF Sound
  <2>2. QED BY <2>1 DEF Endpoint, GiveBuffer, HandOver
<1> HIDE DEF f
<1>3. QueueOf(f) = QueueOf(e)
  BY <1>1, <1>2 DEF QueueOf
<1>4. QED BY <1>2, <1>3 DEF Same, f

(* What the queue depends on. *)
SameQueue(e, f) ==
  /\ f.in = e.in /\ f.cur = e.cur /\ f.halt = e.halt /\ f.queued = e.queued
  /\ f.take = e.take /\ f.done = e.done /\ f.avail = e.avail /\ f.sel = e.sel
  /\ f.data = e.data /\ f.seq = e.seq /\ f.last = e.last

LEMMA SameQueueSame ==
  ASSUME NEW e, NEW f, SameQueue(e, f)
  PROVE  Same(e, f)
BY DEF SameQueue, Same, QueueOf, Held

LEMMA SameGrows ==
  ASSUME NEW e, NEW f, Same(e, f)
  PROVE  Grows(e, f)
BY DEF Same, Grows

LEMMA GiveBuffersGrow ==
  ASSUME NEW e, Sound(e), NEW n \in Nat, n <= e.owned, n <= e.submit, e.in, e.view = NoView,
         e.cur, e.halt = HS_NONE
  PROVE  LET f == GiveBuffers(e, n) IN Grows(e, f) /\ f.view = NoView
<1>1. n \in 0..2 /\ e.owned \in Nat /\ e.submit \in Nat
  <2>1. e \in Endpoint
    BY DEF Sound
  <2>2. e.owned \in Nat /\ e.submit \in Nat /\ Held(e) \in Nat /\ Len(e.done) \in Nat
    BY <2>1, EndpointParts
  <2>3. QED BY <2>2 DEF Sound, Count, Buffers
<1>2. CASE n = 0
  BY <1>2 DEF GiveBuffers, Grows
<1> DEFINE f == GiveBuffer(e)
           g == GiveBuffer(f)
<1>3. ASSUME n > 0
      PROVE  SendsOne(e, f) /\ f.view = NoView /\ Grows(e, f)
  BY <1>1, <1>3, GiveBufferSends DEF SendsOne, Grows
<1>4. CASE n = 1
  BY <1>3, <1>4 DEF GiveBuffers
<1>5. CASE n = 2
  <2>1. /\ Sound(f) /\ f.in /\ f.cur /\ f.halt = HS_NONE
        /\ f.owned = e.owned - 1 /\ f.submit = e.submit - 1
    BY <1>1, <1>5, GiveBufferSound DEF SameTransfer
  <2>2. f.view = NoView /\ Grows(e, f) /\ f.owned > 0 /\ f.submit > 0
    BY <1>1, <1>3, <1>5, <2>1
  <2> HIDE DEF f
  <2>3. SendsOne(f, g) /\ g.view = NoView
    BY <2>1, <2>2, GiveBufferSends
  <2>4. GiveBuffers(e, n) = g
    BY <1>5 DEF GiveBuffers, f
  <2> HIDE DEF g
  <2>5. Grows(f, g)
    BY <2>3 DEF SendsOne, Grows
  <2>6. QED BY <2>2, <2>3, <2>4, <2>5, GrowsTwice
<1>6. QED BY <1>1, <1>2, <1>4, <1>5

LEMMA GiveBuffersKeep ==
  ASSUME NEW e, Sound(e), NEW n \in Nat, n <= e.owned, n <= e.submit, ~e.in,
         e.cur, e.halt = HS_NONE
  PROVE  LET f == GiveBuffers(e, n)
         IN  Same(e, f) /\ f.view = IF n = 0 THEN e.view ELSE NoView
<1>1. n \in 0..2 /\ e.owned \in Nat /\ e.submit \in Nat
  <2>1. e \in Endpoint
    BY DEF Sound
  <2>2. e.owned \in Nat /\ e.submit \in Nat /\ Held(e) \in Nat /\ Len(e.done) \in Nat
    BY <2>1, EndpointParts
  <2>3. QED BY <2>2 DEF Sound, Count, Buffers
<1>2. CASE n = 0
  BY <1>2 DEF GiveBuffers, Same
<1> DEFINE f == GiveBuffer(e)
           g == GiveBuffer(f)
<1>3. CASE n = 1
  <2>1. Same(e, f) /\ f.view = NoView
    BY <1>1, <1>3, GiveBufferKeeps
  <2>2. QED BY <1>3, <2>1 DEF GiveBuffers
<1>4. CASE n = 2
  <2>1. /\ Sound(f) /\ ~f.in /\ f.cur /\ f.halt = HS_NONE
        /\ f.owned = e.owned - 1 /\ f.submit = e.submit - 1
    BY <1>1, <1>4, GiveBufferSound DEF SameTransfer
  <2>2. Same(e, f) /\ f.owned > 0 /\ f.submit > 0
    BY <1>1, <1>4, <2>1, GiveBufferKeeps
  <2> HIDE DEF f
  <2>3. Same(f, g) /\ g.view = NoView
    BY <2>1, <2>2, GiveBufferKeeps
  <2>4. GiveBuffers(e, n) = g
    BY <1>4 DEF GiveBuffers, f
  <2> HIDE DEF g
  <2>5. QED BY <1>4, <2>2, <2>3, <2>4 DEF Same
<1>5. QED BY <1>1, <1>2, <1>3, <1>4

(* The loop of _usb_give_as_many_buffers_as_possible. *)
LEMMA GiveAsManyGrows ==
  ASSUME NEW e, Sound(e), NEW how, e.in, e.view = NoView
  PROVE  LET f == GiveAsMany(e, how) IN Grows(e, f) /\ f.view = NoView
<1> DEFINE n == IF e.cur /\ e.halt = HS_NONE THEN Least(e.owned, e.submit) ELSE 0
           k == LeftInChunk(e)
           f == GiveAsMany(e, how)
<1>1. e \in Endpoint /\ e.owned \in Nat /\ e.submit \in Nat /\ k \in Nat
  BY LeftInChunkType, EndpointParts DEF Sound
<1>2. n \in Nat /\ n <= e.owned /\ n <= e.submit /\ (n # 0 => e.halt = HS_NONE /\ e.cur)
  BY <1>1 DEF Least
<1>3. CASE how = "later" /\ k < n
  <2> DEFINE g == GiveBuffers(e, k)
  <2>1. k <= e.owned /\ k <= e.submit /\ e.cur /\ e.halt = HS_NONE
    BY <1>1, <1>2, <1>3
  <2>2. Grows(e, g) /\ g.view = NoView
    BY <1>1, <2>1, GiveBuffersGrow
  <2>3. g \in Endpoint
    BY <1>1, <2>1, GiveBuffersSound DEF Sound
  <2>4. f = [g EXCEPT !.outstanding = TRUE]
    BY <1>3 DEF GiveAsMany
  <2> HIDE DEF f, g, n, k
  <2>5. SameQueue(g, f) /\ f.view = g.view
    BY <2>3, <2>4 DEF Endpoint, SameQueue
  <2>6. Grows(g, f)
    BY <2>5, SameQueueSame, SameGrows
  <2>7. QED BY <2>2, <2>5, <2>6, GrowsTwice DEF f
<1>4. CASE ~(how = "later" /\ k < n)
  <2>1. f = GiveBuffers(e, n)
    BY <1>4 DEF GiveAsMany
  <2>2. CASE n = 0
    BY <2>1, <2>2 DEF GiveBuffers, Grows
  <2>3. CASE n # 0
    BY <1>2, <2>1, <2>3, GiveBuffersGrow
  <2>4. QED BY <2>2, <2>3
<1>5. QED BY <1>3, <1>4

LEMMA GiveAsManyKeeps ==
  ASSUME NEW e, Sound(e), NEW how, ~e.in
  PROVE  LET f == GiveAsMany(e, how)
         IN  /\ Same(e, f)
             /\ f.view \in {NoView, e.view}
             /\ e.cur /\ e.halt = HS_NONE /\ e.owned > 0 /\ e.submit > 0 => f.view = NoView
<1> DEFINE n == IF e.cur /\ e.halt = HS_NONE THEN Least(e.owned, e.submit) ELSE 0
           f == GiveAsMany(e, how)
<1>1. e.owned \in Nat /\ e.submit \in Nat
  BY EndpointParts DEF Sound
<1>2. n \in Nat /\ n <= e.owned /\ n <= e.submit /\ (n # 0 => e.halt = HS_NONE /\ e.cur)
  BY <1>1 DEF Least
<1>3. f = GiveBuffers(e, n)
  BY DEF GiveAsMany
<1>4. e.cur /\ e.halt = HS_NONE /\ e.owned > 0 /\ e.submit > 0 => n # 0
  BY <1>1 DEF Least
<1>5. CASE n = 0
  BY <1>3, <1>4, <1>5 DEF GiveBuffers, Same
<1>6. CASE n # 0
  BY <1>2, <1>3, <1>6, GiveBuffersKeep
<1>7. QED BY <1>5, <1>6

-----------------------------------------------------------------------------
(* Which buffer on_packet sees.  An IN driver always fills the give buffer.
   An OUT driver reads the buffer it is called for, and while it leaves that
   packet outstanding, nobody else has the buffer. *)
Views(e) ==
  IF e.in THEN e.view = NoView
  ELSE e.cur /\ e.halt = HS_NONE =>
         IF e.outstanding
         THEN e.take \notin e.avail /\ \A i \in 1..Len(e.done) : e.done[i] # e.take
         ELSE e.view = NoView

(* A new transfer: what an IN endpoint has buffers for is sent at once. *)
LEMMA StartTransferFlows ==
  ASSUME NEW e, Sound(e), ~e.cur, e.done = <<>>, e.halt = HS_NONE => e.avail = {},
         e.in => e.view = NoView, NEW n \in Nat \ {0}, NEW how
  PROVE  LET f == StartTransfer(e, n, how)
         IN  Grows(e, f) /\ (~e.in => Same(e, f)) /\ Views(f)
<1> DEFINE g == [e EXCEPT !.cur = TRUE, !.submit = n, !.handle = n, !.pos = 0,
                          !.outstanding = FALSE, !.queued = FALSE]
           f == StartTransfer(e, n, how)
<1>1. e \in Endpoint
  BY DEF Sound
<1>2. /\ g \in Endpoint /\ SameBuffers(e, g) /\ g.cur /\ g.submit = n
      /\ ~g.outstanding /\ ~g.queued /\ g.halt = e.halt /\ g.view = e.view
      /\ g.seq = e.seq /\ g.last = e.last
  BY <1>1 DEF Endpoint, SameBuffers
<1>3. f = GiveAsMany(g, how)
  BY DEF StartTransfer
<1> HIDE DEF f, g
<1>4. Sound(g) /\ Held(g) = Held(e) /\ g.in = e.in /\ g.done = <<>> /\ g.avail = e.avail
  BY <1>2, SameBuffersSound DEF SameBuffers
<1>5. Same(e, g)
  <2>1. QueueOf(e) = <<>>
    BY QueueNone
  <2>2. CASE g.halt # HS_NONE
    BY <1>2, <2>1, <2>2, QueueNone DEF Same
  <2>3. CASE g.halt = HS_NONE /\ g.in
    <3>1. Held(g) = 0
      BY <1>2, <1>4, <2>3 DEF Held
    <3>2. QED BY <1>2, <2>1, <2>3, <3>1, QueueIn DEF Same
  <2>4. CASE g.halt = HS_NONE /\ ~g.in
    BY <1>2, <1>4, <2>1, <2>4, QueueOut DEF Same
  <2>5. g.in \in BOOLEAN
    BY <1>2, EndpointParts
  <2>6. QED BY <2>2, <2>3, <2>4, <2>5
<1>6. Sound(f) /\ SameTransfer(g, f) /\ f.halt = g.halt /\ (f.outstanding => f.in)
  BY <1>2, <1>3, <1>4, GiveAsManySound
<1>7. f.in = e.in /\ e.in \in BOOLEAN
  BY <1>1, <1>4, <1>6, EndpointParts DEF SameTransfer
<1>8. CASE e.in
  <2>1. Grows(g, f) /\ f.view = NoView
    BY <1>2, <1>3, <1>4, <1>8, GiveAsManyGrows
  <2>2. Grows(e, f)
    BY <1>5, <2>1, SameGrows, GrowsTwice
  <2>3. QED BY <1>7, <1>8, <2>1, <2>2 DEF Views, f
<1>9. CASE ~e.in
  <2>1. Same(g, f) /\ (g.halt = HS_NONE /\ g.owned > 0 => f.view = NoView)
    BY <1>2, <1>3, <1>4, <1>9, GiveAsManyKeeps
  <2>2. Same(e, f)
    BY <1>5, <2>1 DEF Same
  <2>3. g.halt = HS_NONE => g.owned > 0
    <3>1. Len(g.done) = 0 /\ g.owned \in Nat
      BY <1>2, <1>4, EndpointParts
    <3>2. g.halt = HS_NONE => Held(g) = 0
      BY <1>2, <1>4 DEF Held
    <3>3. g.owned + Held(g) + Len(g.done) = Buffers(g)
      BY <1>4 DEF Sound, Count
    <3>4. QED BY <3>1, <3>2, <3>3 DEF Buffers
  <2>4. Views(f)
    BY <1>6, <1>7, <1>9, <2>1, <2>3 DEF Views
  <2>5. QED BY <2>2, <2>4, SameGrows DEF f
<1>10. QED BY <1>7, <1>8, <1>9

(* What was in flight is over, or another transfer follows. *)
LEMMA CompletionFlows ==
  ASSUME NEW e, Sound(e), e.cur,
         e.halt = HS_NONE => e.handle = e.submit + Held(e) + Len(e.done)
                                         + (IF e.queued THEN 1 ELSE 0),
         e.in => e.view = NoView, ~Ended(e) => Views(e),
         NEW how, NEW next \in Nat
  PROVE  LET f == CheckCompletion(e, how, next)
         IN  Grows(e, f) /\ (~e.in => Same(e, f)) /\ Views(f)
<1> DEFINE f == CheckCompletion(e, how, next)
<1>1. e \in Endpoint /\ e.in \in BOOLEAN /\ e.handle \in Nat /\ e.submit \in Nat
      /\ Len(e.done) \in Nat /\ Held(e) \in Nat
  BY EndpointParts DEF Sound
<1>2. CASE ~Ended(e)
  BY <1>2 DEF CheckCompletion, Same, Grows
<1>3. CASE Ended(e) /\ e.halt # HS_NONE
  <2>1. f = [e EXCEPT !.cur = FALSE, !.submit = 0, !.handle = 0]
    BY <1>3 DEF CheckCompletion
  <2>2. ~f.cur /\ f.in = e.in /\ f.view = e.view /\ f.seq = e.seq /\ f.last = e.last
    <3> HIDE DEF f
    <3>1. e \in Endpoint
      BY <1>1
    <3>2. QED BY <2>1, <3>1 DEF Endpoint
  <2> HIDE DEF f
  <2>3. Same(e, f)
    BY <1>3, <2>2, QueueNone DEF Same
  <2>4. Views(f)
    BY <2>2 DEF Views
  <2>5. QED BY <2>3, <2>4, SameGrows DEF f
<1>4. CASE Ended(e) /\ e.halt = HS_NONE
  <2> DEFINE g == [e EXCEPT !.cur = FALSE]
  <2>1. e.handle = 0 /\ Held(e) = 0 /\ Len(e.done) = 0 /\ ~e.queued
    BY <1>1, <1>4 DEF Ended
  <2>2. e.avail = {} /\ e.done = <<>>
    BY <2>1, NothingHeld
  <2>3. g \in Endpoint /\ SameBuffers(e, g) /\ ~g.cur /\ g.halt = HS_NONE /\ g.view = e.view
        /\ g.seq = e.seq /\ g.last = e.last
    <3>1. e \in Endpoint /\ e.halt = HS_NONE
      BY <1>1, <1>4
    <3>2. QED BY <3>1 DEF Endpoint, SameBuffers
  <2>4. f = IF next = 0 THEN g ELSE StartTransfer(g, next, how)
    BY <1>4 DEF CheckCompletion
  <2> HIDE DEF f, g
  <2>5. Sound(g) /\ g.avail = {} /\ g.done = <<>> /\ g.in = e.in
    BY <2>2, <2>3, SameBuffersSound DEF SameBuffers
  <2>6. Same(e, g)
    <3>1. QueueOf(e) = <<>>
      BY <1>1, <1>4, <2>1, <2>2, QueueIn, QueueOut
    <3>2. QED BY <2>3, <3>1, QueueNone DEF Same
  <2>7. CASE next = 0
    <3>1. Views(f)
      BY <2>3, <2>4, <2>5, <2>7 DEF Views
    <3>2. QED BY <2>4, <2>6, <2>7, <3>1, SameGrows DEF f
  <2>8. CASE next # 0
    <3>1. Grows(g, f) /\ (~g.in => Same(g, f)) /\ Views(f)
      BY <2>3, <2>4, <2>5, <2>8, StartTransferFlows
    <3>2. QED BY <2>5, <2>6, <3>1, SameGrows, GrowsTwice DEF Same, f
  <2>9. QED BY <2>7, <2>8
<1>5. QED BY <1>2, <1>3, <1>4

(* The queue of an IN endpoint does not depend on what was completed. *)
LEMMA SameIn ==
  ASSUME NEW e, NEW f, e.in,
         f.in = e.in, f.cur = e.cur, f.halt = e.halt, f.avail = e.avail,
         f.sel = e.sel, f.data = e.data
  PROVE  QueueOf(f) = QueueOf(e)
<1>1. CASE e.halt # HS_NONE \/ ~e.cur
  BY <1>1, QueueNone
<1>2. CASE ~(e.halt # HS_NONE \/ ~e.cur)
  <2> DEFINE held(x) == CASE Held(x) = 0 -> <<>>
                          [] Held(x) = 1 -> <<x.sel>>
                          [] Held(x) = 2 -> <<x.sel, 1 - x.sel>>
             in(x)   == [i \in 1..Len(held(x)) |-> x.data[held(x)[i]]]
  <2>1. Held(f) = Held(e)
    BY DEF Held
  <2>2. QueueOf(e) = in(e) /\ QueueOf(f) = in(f)
    BY <1>2 DEF QueueOf
  <2>3. held(f) = held(e) /\ f.data = e.data
    BY <2>1
  <2> HIDE DEF held
  <2>4. QED BY Zenon, <2>2, <2>3
<1>3. QED BY <1>1, <1>2

(* With nothing deferred, the queue does not depend on the take buffer. *)
LEMMA SameUnqueued ==
  ASSUME NEW e, NEW f, ~e.queued, ~f.queued,
         f.in = e.in, f.cur = e.cur, f.halt = e.halt, f.done = e.done, f.avail = e.avail,
         f.sel = e.sel, f.data = e.data
  PROVE  QueueOf(f) = QueueOf(e)
<1> DEFINE order(x) == (IF x.queued THEN <<1 - x.take>> ELSE <<>>) \o x.done
           out(x)   == [i \in 1..Len(order(x)) |-> x.data[order(x)[i]]]
<1>1. CASE e.halt # HS_NONE \/ ~e.cur
  BY <1>1, QueueNone
<1>2. CASE ~(e.halt # HS_NONE \/ ~e.cur) /\ ~e.in
  <2>1. QueueOf(e) = out(e) /\ QueueOf(f) = out(f)
    BY <1>2 DEF QueueOf
  <2>2. order(f) = order(e) /\ f.data = e.data
    OBVIOUS
  <2> HIDE DEF order
  <2>3. out(f) = out(e)
    BY Zenon, <2>2
  <2>4. QED BY Zenon, <2>1, <2>3
<1>3. QED BY <1>1, <1>2, SameIn

(* Counting the packet as handled. *)
LEMMA HandledFlows ==
  ASSUME NEW c, Sound(c), c.cur, c.halt = HS_NONE, ~c.queued,
         c.handle = c.submit + Held(c) + Len(c.done) + 1, Views(c),
         NEW how, NEW next \in Nat
  PROVE  LET f == CheckCompletion([c EXCEPT !.handle = @ - 1], how, next)
         IN  Grows(c, f) /\ (~c.in => Same(c, f)) /\ Views(f)
<1> DEFINE d == [c EXCEPT !.handle = @ - 1]
<1>0. c \in Endpoint
  BY DEF Sound
<1>1. c.submit \in Nat /\ Held(c) \in Nat /\ Len(c.done) \in Nat
  BY <1>0, EndpointParts
<1>2. c.handle - 1 \in Nat /\ c.handle - 1 = c.submit + Held(c) + Len(c.done)
  BY <1>1
<1> HIDE DEF d
<1>3. d \in Endpoint
  BY <1>0, <1>2 DEF Endpoint, d
<1>4. /\ SameBuffers(c, d) /\ SameQueue(c, d) /\ d.submit = c.submit
      /\ d.outstanding = c.outstanding /\ d.handle = c.handle - 1 /\ d.view = c.view
  BY <1>0 DEF Endpoint, SameBuffers, SameQueue, d
<1>5. Sound(d) /\ Held(d) = Held(c)
  BY <1>3, <1>4, SameBuffersSound
<1>6. d.cur /\ d.halt = HS_NONE /\ ~d.queued /\ d.in = c.in /\ d.done = c.done
  BY <1>4 DEF SameQueue
<1>7. Views(d) /\ (d.in => d.view = NoView)
  BY <1>4 DEF Views, SameQueue
<1>8. d.handle = d.submit + Held(d) + Len(d.done) + (IF d.queued THEN 1 ELSE 0)
  BY <1>1, <1>2, <1>4, <1>5, <1>6
<1> DEFINE f == CheckCompletion(d, how, next)
<1>9. Grows(d, f) /\ (~d.in => Same(d, f)) /\ Views(f)
  BY <1>5, <1>6, <1>7, <1>8, CompletionFlows
<1> HIDE DEF f
<1>10. Same(c, d)
  BY <1>4, SameQueueSame
<1>11. Grows(c, f) /\ (~c.in => Same(c, f)) /\ Views(f)
  BY <1>6, <1>9, <1>10, SameGrows, GrowsTwice DEF Same
<1>12. QED BY <1>11 DEF f, d

(* on_packet for a buffer the CPU has got back: an IN endpoint sends more,
   the driver of an OUT endpoint receives the packet in it. *)
LEMMA DeliverFlows ==
  ASSUME NEW e, Sound(e), e.cur, e.halt = HS_NONE,
         ~e.outstanding, ~e.queued, e.owned >= 1, e.view = NoView,
         e.handle = e.submit + Held(e) + Len(e.done) + 1,
         NEW which \in Bit, NEW how, NEW next \in Nat,
         ~e.in => which \notin e.avail /\ \A i \in 1..Len(e.done) : e.done[i] # which,
         how = "halt" => e.handle = 1
  PROVE  LET f == Deliver(e, which, how, next)
         IN  /\ Views(f)
             /\ e.in => Grows(e, f)
             /\ ~e.in => QueueOf(f) = QueueOf(e) /\ f.seq = e.seq /\ f.last = e.data[which]
<1> DEFINE g == [e EXCEPT !.take = which]
           f == Deliver(e, which, how, next)
<1>1. e \in Endpoint
  BY DEF Sound
<1> HIDE DEF g, f
<1>2. g \in Endpoint
  BY <1>1 DEF Endpoint, g
<1>3. /\ SameBuffers(e, g) /\ g.cur /\ g.halt = HS_NONE /\ ~g.outstanding /\ ~g.queued
      /\ g.submit = e.submit /\ g.handle = e.handle /\ g.view = NoView /\ g.take = which
      /\ g.data = e.data /\ g.seq = e.seq /\ g.last = e.last
  BY <1>1 DEF Endpoint, SameBuffers, g
<1>4. Sound(g) /\ Held(g) = Held(e)
  BY <1>2, <1>3, SameBuffersSound
<1>5. g.handle = g.submit + Held(g) + Len(g.done) + 1 /\ g.owned >= 1 /\ g.in = e.in
      /\ g.avail = e.avail /\ g.done = e.done
  BY <1>3, <1>4 DEF SameBuffers
<1>6. Same(e, g)
  BY <1>3, <1>5, SameUnqueued DEF Same, SameBuffers
<1>7. ASSUME e.in
      PROVE  Views(f) /\ Grows(e, f)
  <2> DEFINE c == IF g.submit > 0 THEN GiveAsMany(g, how) ELSE g
             h == CheckCompletion([c EXCEPT !.handle = @ - 1], how, next)
  <2>1. /\ Sound(c) /\ c.cur /\ c.halt = HS_NONE /\ ~c.queued /\ c.in
        /\ c.handle = c.submit + Held(c) + Len(c.done) + 1
        /\ c.view = NoView /\ Grows(g, c)
    <3>1. CASE g.submit > 0
      <4>1. /\ Sound(c) /\ SameTransfer(g, c) /\ c.halt = g.halt
            /\ c.submit + Held(c) = g.submit + Held(g)
        BY <1>3, <1>4, <3>1, GiveAsManySound
      <4>2. Grows(g, c) /\ c.view = NoView
        BY <1>3, <1>4, <1>5, <1>7, <3>1, GiveAsManyGrows
      <4> HIDE DEF c
      <4>3. QED BY <1>3, <1>5, <1>7, <4>1, <4>2 DEF SameTransfer
    <3>2. CASE ~(g.submit > 0)
      BY <1>3, <1>4, <1>5, <1>7, <3>2 DEF Grows
    <3>3. QED BY <3>1, <3>2
  <2>2. f = h
    <3>1. Called(g, how) = c
      BY <1>5, <1>7 DEF Called
    <3>2. f = Handled(Called(g, how), how, next)
      BY DEF Deliver, f, g
    <3> HIDE DEF c
    <3>3. QED BY <2>1, <3>1, <3>2 DEF Handled
  <2> HIDE DEF c
  <2>3. Views(c)
    BY <2>1 DEF Views
  <2>4. Grows(c, h) /\ Views(h)
    BY <2>1, <2>3, HandledFlows
  <2> HIDE DEF h
  <2>5. Grows(e, c)
    BY <1>6, <2>1, SameGrows, GrowsTwice
  <2>6. QED BY <2>2, <2>4, <2>5, GrowsTwice
<1>8. ASSUME ~e.in
      PROVE  Views(f) /\ QueueOf(f) = QueueOf(e) /\ f.seq = e.seq /\ f.last = e.data[which]
  <2> DEFINE seen == [g EXCEPT !.view = which, !.last = g.data[which], !.pos = @ + 1]
             c    == OnPacketOut(g, how)
  <2>1. /\ CurrentBuffer(g) = which /\ g.data[which] \in 0..(SeqMod - 1) /\ g.pos + 1 \in Nat
        /\ which \in 0..2
    BY <1>2, <1>3, <1>5, <1>8 DEF Endpoint, CurrentBuffer, Bit
  <2> HIDE DEF seen
  <2>2. seen \in Endpoint
    <3>1. seen.view = which /\ seen.last = g.data[which] /\ seen.pos = g.pos + 1
      BY <1>2 DEF Endpoint, seen
    <3>2. QED BY <1>2, <2>1, <3>1 DEF Endpoint, seen
  <2>3. /\ SameBuffers(g, seen) /\ seen.cur /\ seen.halt = HS_NONE /\ ~seen.outstanding
        /\ ~seen.queued /\ seen.submit = g.submit /\ seen.handle = g.handle
        /\ seen.take = which /\ seen.data = g.data /\ seen.seq = g.seq
        /\ seen.last = g.data[which]
    <3>1. g \in Endpoint
      BY <1>2
    <3>2. SameBuffers(g, seen) /\ seen.cur = g.cur /\ seen.halt = g.halt
          /\ seen.outstanding = g.outstanding /\ seen.queued = g.queued
          /\ seen.submit = g.submit /\ seen.handle = g.handle
          /\ seen.take = g.take /\ seen.data = g.data /\ seen.seq = g.seq
          /\ seen.last = g.data[which]
      BY <3>1 DEF Endpoint, SameBuffers, seen
    <3>3. QED BY <1>3, <3>2
  <2>4. Sound(seen) /\ Held(seen) = Held(g)
    BY <1>4, <2>2, <2>3, SameBuffersSound
  <2>5. seen.in = e.in /\ seen.avail = e.avail /\ seen.done = e.done
        /\ seen.handle = seen.submit + Held(seen) + Len(seen.done) + 1
    BY <1>5, <2>3, <2>4 DEF SameBuffers
  <2>6. QueueOf(seen) = QueueOf(e) /\ seen.seq = e.seq /\ seen.last = e.data[which]
    <3>1. QueueOf(seen) = QueueOf(g)
      BY <1>3, <2>3, SameUnqueued DEF SameBuffers
    <3>2. QED BY <1>3, <1>6, <2>3, <3>1 DEF Same
  <2>7. f = IF c.cur THEN CheckCompletion([c EXCEPT !.handle = @ - 1], how, next) ELSE c
    BY <1>5, <1>8 DEF Deliver, Called, Handled, f, g
  <2>8. CASE how = "halt"
    <3> DEFINE h == Stall(seen, HS_HALTED)
    <3>1. Sound(h) /\ SameBuffers(seen, h) /\ h.halt = HS_HALTED
      BY <2>3, <2>4, StallSound DEF HS_NONE, HS_HALTED_ON_CONDITION
    <3>2. h.seq = seen.seq /\ h.last = seen.last
      BY <2>2 DEF Stall, Endpoint
    <3> HIDE DEF h
    <3>3. c = CheckCompletion(h, how, 0)
      BY <2>1, <2>8 DEF OnPacketOut, seen, h
    <3>4. c = [h EXCEPT !.cur = FALSE, !.submit = 0, !.handle = 0]
      BY <3>1, <3>3 DEF CheckCompletion, Ended, HS_HALTED, HS_NONE
    <3>5. h \in Endpoint
      BY <3>1 DEF Sound
    <3> HIDE DEF c
    <3>6. ~c.cur /\ c.seq = h.seq /\ c.last = h.last /\ c.in = h.in
      BY <3>4, <3>5 DEF Endpoint
    <3>7. QueueOf(e) = <<>>
      <4>1. e.handle = 1 /\ e.submit \in Nat /\ Held(e) \in Nat /\ Len(e.done) \in Nat
        BY <1>1, <2>8, EndpointParts
      <4>2. Len(e.done) = 0 /\ Held(e) = 0
        BY <4>1
      <4>3. e.done = <<>>
        BY <4>2, NothingHeld
      <4>4. QED BY <1>1, <1>8, <4>3, QueueOut
    <3>8. Views(c)
      BY <1>8, <2>5, <3>1, <3>6 DEF Views, SameBuffers
    <3>9. QED
      BY <2>6, <2>7, <3>2, <3>6, <3>7, <3>8, QueueNone
  <2>9. CASE how # "halt" /\ how = "later" /\ EndsChunk(g)
    <3>1. c = [seen EXCEPT !.outstanding = TRUE]
      BY <2>1, <2>9 DEF OnPacketOut, seen
    <3> HIDE DEF c
    <3>2. c \in Endpoint
      BY <2>2, <3>1 DEF Endpoint
    <3>3. /\ SameBuffers(seen, c) /\ SameQueue(seen, c)
          /\ c.submit = seen.submit /\ c.handle = seen.handle /\ c.outstanding
      BY <2>2, <3>1 DEF Endpoint, SameBuffers, SameQueue
    <3>4. Sound(c) /\ Held(c) = Held(seen)
      BY <2>4, <3>2, <3>3, SameBuffersSound
    <3>5. c.cur /\ c.halt = HS_NONE /\ ~c.queued /\ ~c.in /\ c.take = which
          /\ c.avail = e.avail /\ c.done = e.done
      BY <1>8, <2>3, <2>5, <3>3 DEF SameQueue
    <3>6. c.handle = c.submit + Held(c) + Len(c.done) + 1
      BY <2>5, <3>3, <3>4, <3>5
    <3>7. Views(c)
      BY <1>8, <3>3, <3>5 DEF Views
    <3> DEFINE h == CheckCompletion([c EXCEPT !.handle = @ - 1], how, next)
    <3>8. Same(c, h) /\ Views(h)
      BY <3>4, <3>5, <3>6, <3>7, HandledFlows
    <3> HIDE DEF h
    <3>9. f = h /\ Same(seen, c)
      BY <2>7, <3>3, <3>5, SameQueueSame DEF h
    <3>10. QED BY <2>6, <3>8, <3>9 DEF Same
  <2>10. CASE how # "halt" /\ ~(how = "later" /\ EndsChunk(g))
    <3> DEFINE q == [seen EXCEPT !.view = NoView]
    <3>1. c = GiveAsMany(q, how)
      BY <2>1, <2>10 DEF OnPacketOut, seen
    <3> HIDE DEF c, q
    <3>2. q \in Endpoint
      <4>1. q.view \in 0..2
        BY <2>2 DEF Endpoint, q, NoView
      <4>2. QED BY <2>2, <4>1 DEF Endpoint, q
    <3>3. /\ SameBuffers(seen, q) /\ SameQueue(seen, q) /\ ~q.outstanding
          /\ q.submit = seen.submit /\ q.handle = seen.handle /\ q.view = NoView
      BY <2>2, <2>3 DEF Endpoint, SameBuffers, SameQueue, q
    <3>4. Sound(q) /\ Held(q) = Held(seen)
      BY <2>4, <3>2, <3>3, SameBuffersSound
    <3>5. /\ Sound(c) /\ SameTransfer(q, c) /\ c.halt = q.halt
          /\ c.submit + Held(c) = q.submit + Held(q)
          /\ c.outstanding => c.in
      BY <3>1, <3>3, <3>4, GiveAsManySound
    <3>6. q.cur /\ ~q.queued /\ ~q.in /\ q.halt = HS_NONE /\ q.done = seen.done
      BY <1>8, <2>3, <2>5, <3>3 DEF SameQueue
    <3>7. c.cur /\ ~c.queued /\ ~c.in /\ c.halt = HS_NONE /\ ~c.outstanding
      BY <3>5, <3>6 DEF SameTransfer
    <3>8. c.handle = c.submit + Held(c) + Len(c.done) + 1
      BY <2>5, <3>3, <3>4, <3>5, <3>6 DEF SameTransfer
    <3>9. Same(q, c) /\ c.view = NoView
      BY <3>1, <3>3, <3>4, <3>6, GiveAsManyKeeps
    <3>10. Views(c)
      BY <3>7, <3>9 DEF Views
    <3> DEFINE h == CheckCompletion([c EXCEPT !.handle = @ - 1], how, next)
    <3>11. Same(c, h) /\ Views(h)
      BY <3>5, <3>7, <3>8, <3>10, HandledFlows
    <3> HIDE DEF h
    <3>12. f = h /\ Same(seen, q)
      BY <2>7, <3>3, <3>7, SameQueueSame DEF h
    <3>13. QED BY <2>6, <3>9, <3>11, <3>12 DEF Same
  <2>11. QED BY <2>8, <2>9, <2>10
<1>9. e.in \in BOOLEAN
  BY <1>1, EndpointParts
<1>10. QED BY <1>7, <1>8, <1>9 DEF f

(* The completed buffers: one, or both in the order they were used. *)
LEMMA DoneShape ==
  ASSUME NEW e, Sound(e), e.done # <<>>
  PROVE  \E a \in Bit :
           /\ a \notin e.avail
           /\ e.done = <<a>> \/ e.done = <<a, 1 - a>>
<1>1. e \in Endpoint /\ Ring(e) /\ Count(e)
  BY DEF Sound
<1>2. /\ e.avail \in SUBSET Bit /\ e.sel \in Bit /\ e.dbl \in BOOLEAN
      /\ e.owned \in Nat /\ Held(e) \in Nat /\ Len(e.done) \in Nat
  BY <1>1, EndpointParts
<1>3. CASE e.dbl /\ e.done = <<1 - e.sel>>
  <2>1. Held(e) <= 1
    <3>1. Len(e.done) = 1
      BY <1>3
    <3>2. QED BY <1>1, <1>2, <1>3, <3>1 DEF Count, Buffers
  <2>2. 1 - e.sel \in Bit /\ 1 - e.sel \notin e.avail
    BY <1>1, <1>2, <2>1 DEF Ring, Held, Bit
  <2>3. QED BY <1>3, <2>2
<1>4. CASE e.dbl /\ e.done = <<e.sel, 1 - e.sel>>
  <2>1. Len(e.done) = 2
    BY <1>4
  <2>2. Held(e) = 0
    BY <1>1, <1>2, <1>4, <2>1 DEF Count, Buffers
  <2>3. e.sel \notin e.avail
    BY <1>2, <2>2 DEF Held, Bit
  <2>4. QED BY <1>2, <1>4, <2>3
<1>5. CASE ~e.dbl /\ e.done = <<0>>
  <2>1. Len(e.done) = 1
    BY <1>5
  <2>2. Held(e) = 0
    BY <1>1, <1>2, <1>5, <2>1 DEF Count, Buffers
  <2>3. 0 \in Bit /\ 0 \notin e.avail
    BY <1>2, <2>2 DEF Held, Bit
  <2>4. QED BY <1>5, <2>3
<1>6. QED BY <1>1, <1>3, <1>4, <1>5 DEF Ring

(* _usb_handle_transfer: the driver receives the first OUT packet, or it is
   deferred; a completed IN packet makes room for the next. *)
LEMMA HandleTransferFlows ==
  ASSUME NEW e, NEW t \in Bit, Good(e, t), Views(e), e.done # <<>>,
         NEW how, NEW next \in Nat, how = "halt" => e.handle = 1
  PROVE  LET f == HandleTransfer(e, how, next)
         IN  Views(f) /\ Flows(e, f)
<1> DEFINE g == [e EXCEPT !.done = Tail(@), !.owned = @ + 1]
           f == HandleTransfer(e, how, next)
<1>1. Sound(e) /\ Packets(e) /\ Phase(e, t) /\ e \in Endpoint
  BY TogglesIsPhase DEF Good, Sound
<1>2. /\ Sound(g) /\ Held(g) = Held(e)
      /\ Len(g.done) = Len(e.done) - 1 /\ g.owned = e.owned + 1
      /\ g.in = e.in /\ g.cur = e.cur /\ g.halt = e.halt
      /\ g.submit = e.submit /\ g.handle = e.handle
      /\ g.outstanding = e.outstanding /\ g.queued = e.queued
  BY <1>1, TakeCompletion
<1>3. f = IF ~e.cur THEN Stall(g, HS_HALTED)
          ELSE IF e.outstanding THEN [g EXCEPT !.queued = TRUE]
          ELSE Deliver(g, Head(e.done), how, next)
  BY DEF HandleTransfer
<1>4. g.done = Tail(e.done) /\ g.take = e.take /\ g.view = e.view /\ g.avail = e.avail
      /\ g.sel = e.sel /\ g.data = e.data /\ g.seq = e.seq /\ g.last = e.last
  <2>1. e \in Endpoint
    BY <1>1
  <2>2. QED BY <2>1 DEF Endpoint
<1> HIDE DEF f, g
<1>5. /\ e.owned \in Nat /\ e.submit \in Nat /\ Len(e.done) \in Nat \ {0}
      /\ Held(e) \in Nat /\ e.in \in BOOLEAN /\ e.take \in Bit /\ e.data \in [Bit -> Numbers]
  <2>1. e.owned \in Nat /\ e.submit \in Nat /\ e.done \in Seq(Bit) /\ Held(e) \in Nat
        /\ e.in \in BOOLEAN /\ e.take \in Bit /\ e.data \in [Bit -> Numbers]
    BY <1>1, EndpointParts, PacketNumbers
  <2>2. QED BY <2>1
<1>6. g \in Endpoint
  BY <1>2 DEF Sound
<1>7. PICK a \in Bit : a \notin e.avail /\ (e.done = <<a>> \/ e.done = <<a, 1 - a>>)
  BY <1>1, DoneShape
<1>8. CASE ~e.cur
  <2>1. f = Stall(g, HS_HALTED)
    BY <1>3, <1>8
  <2>2. ~f.cur /\ f.in = e.in /\ f.view = e.view /\ f.seq = e.seq /\ f.last = e.last
    <3>1. f.cur = g.cur /\ f.in = g.in /\ f.view = g.view /\ f.seq = g.seq /\ f.last = g.last
      BY <1>6, <2>1 DEF Stall, Endpoint
    <3>2. QED BY <1>2, <1>4, <1>8, <3>1
  <2>3. Same(e, f)
    BY <1>8, <2>2, QueueNone DEF Same
  <2>4. Views(f)
    BY <2>2 DEF Views
  <2>5. QED BY <2>3, <2>4, SameGrows DEF f, Flows
<1>9. CASE e.cur
  <2>1. e.halt = HS_NONE
    BY <1>1, <1>9 DEF Packets
  <2>2. ~e.queued
    <3>1. e.queued => e.owned >= 2
      BY <1>1, <1>9 DEF Packets
    <3>2. QED BY <1>1, <1>5, <3>1 DEF Sound, Count, Buffers
  <2>3. e.handle = e.submit + Held(e) + Len(e.done)
    BY <1>1, <1>5, <1>9, <2>1, <2>2 DEF Packets
  <2>4. CASE e.outstanding
    <3>1. f = [g EXCEPT !.queued = TRUE]
      BY <1>3, <1>9, <2>4
    <3>2. f.in = e.in /\ f.cur /\ f.halt = HS_NONE /\ f.queued /\ f.outstanding
          /\ f.done = Tail(e.done) /\ f.take = e.take /\ f.view = e.view /\ f.avail = e.avail
          /\ f.sel = e.sel /\ f.data = e.data /\ f.seq = e.seq /\ f.last = e.last
      <4>1. f.in = g.in /\ f.cur = g.cur /\ f.halt = g.halt /\ f.queued
            /\ f.outstanding = g.outstanding /\ f.done = g.done /\ f.take = g.take
            /\ f.view = g.view /\ f.avail = g.avail /\ f.sel = g.sel /\ f.data = g.data
            /\ f.seq = g.seq /\ f.last = g.last
        BY <1>6, <3>1 DEF Endpoint
      <4>2. QED BY <1>2, <1>4, <1>9, <2>1, <2>4, <4>1
    <3>3. f \in Endpoint
      BY <1>6, <3>1 DEF Endpoint
    <3>4. e.owned >= 1
      BY <1>1, <1>9, <2>4 DEF Packets
    <3>5. Len(e.done) = 1
      <4> DEFINE len  == Len(e.done)
                 held == Held(e)
      <4>1. e.owned + held + len = Buffers(e) /\ Buffers(e) \in {1, 2}
        BY <1>1 DEF Sound, Count, Buffers
      <4>2. len \in Nat \ {0} /\ held \in Nat /\ e.owned \in Nat /\ e.owned >= 1
        BY <1>5, <3>4
      <4> HIDE DEF len, held
      <4>3. len = 1
        BY <4>1, <4>2
      <4>4. QED BY <4>3 DEF len
    <3>6. e.done = <<a>>
      <4>1. Len(<<a, 1 - a>>) = 2
        OBVIOUS
      <4>2. QED BY <1>7, <3>5, <4>1
    <3>7. f.done = <<>>
      <4>1. Tail(<<a>>) = <<>>
        OBVIOUS
      <4>2. QED BY <3>2, <3>6, <4>1
    <3>8. ASSUME e.in
          PROVE  Views(f) /\ Same(e, f)
      <4>1. QueueOf(f) = QueueOf(e)
        BY <1>9, <2>1, <3>2, <3>8, SameIn
      <4>2. QED BY <3>2, <3>8, <4>1 DEF Views, Same
    <3>9. ASSUME ~e.in
          PROVE  Views(f) /\ Same(e, f)
      <4>1. e.take \notin e.avail /\ a # e.take
        <5>1. e.take \notin e.avail /\ \A i \in 1..Len(e.done) : e.done[i] # e.take
          BY <1>9, <2>1, <2>4, <3>9 DEF Views
        <5>2. 1 \in 1..Len(e.done) /\ e.done[1] = a
          BY <3>5, <3>6
        <5>3. QED BY <5>1, <5>2
      <4>2. a = 1 - e.take
        BY <1>5, <4>1 DEF Bit
      <4>3. QueueOf(e) = <<e.data[a]>>
        BY <1>1, <1>9, <2>1, <2>2, <3>6, <3>9, QueueOut
      <4>4. QueueOf(f) = <<f.data[1 - f.take]>>
        BY <3>2, <3>3, <3>7, <3>9, QueueOut
      <4>5. QueueOf(f) = QueueOf(e)
        BY <3>2, <4>2, <4>3, <4>4
      <4>6. Views(f)
        <5>1. \A i \in 1..Len(f.done) : f.done[i] # f.take
          BY <3>7
        <5>2. f.take \notin f.avail /\ f.outstanding /\ ~f.in
          BY <3>2, <3>9, <4>1
        <5>3. QED BY <5>1, <5>2 DEF Views
      <4>7. QED BY <3>2, <4>5, <4>6 DEF Same
    <3>10. QED BY <1>5, <3>8, <3>9, SameGrows DEF f, Flows
  <2>5. CASE ~e.outstanding
    <3> DEFINE h == Deliver(g, a, how, next)
    <3>1. Head(e.done) = a /\ \A i \in 1..Len(Tail(e.done)) : Tail(e.done)[i] # a
      <4>1. CASE e.done = <<a>>
        <5>1. Head(<<a>>) = a /\ Tail(<<a>>) = <<>>
          OBVIOUS
        <5>2. QED BY <4>1, <5>1
      <4>2. CASE e.done = <<a, 1 - a>>
        <5>1. Head(e.done) = a /\ Tail(e.done) = <<1 - a>>
          BY <4>2
        <5> DEFINE b == 1 - a
        <5>2. b # a
          BY DEF Bit
        <5>3. Tail(e.done) = <<b>>
          BY <5>1
        <5> HIDE DEF b
        <5>4. \A i \in 1..Len(<<b>>) : <<b>>[i] # a
          BY <5>2
        <5>5. QED BY Zenon, <5>1, <5>3, <5>4
      <4>3. QED BY <1>7, <4>1, <4>2
    <3>2. f = h
      BY <1>3, <1>9, <2>5, <3>1
    <3>3. g.owned >= 1 /\ g.handle = g.submit + Held(g) + Len(g.done) + 1
      <4>1. g.owned >= 1
        <5>1. e.owned \in Nat /\ g.owned = e.owned + 1
          BY <1>2, <1>5
        <5>2. QED BY <5>1
      <4>2. g.handle = g.submit + Held(g) + Len(g.done) + 1
        <5> DEFINE le == Len(e.done)
                   lg == Len(g.done)
                   he == Held(e)
        <5>1. lg = le - 1 /\ Held(g) = he /\ g.submit = e.submit /\ g.handle = e.handle
          BY <1>2
        <5>2. le \in Nat /\ he \in Nat /\ e.submit \in Nat
          BY <1>5
        <5>3. e.handle = e.submit + he + le
          BY <2>3
        <5> HIDE DEF le, lg, he
        <5>4. g.handle = g.submit + Held(g) + lg + 1
          BY <5>1, <5>2, <5>3
        <5>5. QED BY <5>4 DEF lg
      <4>3. QED BY <4>1, <4>2
    <3>4. e.view = NoView
      BY <1>9, <2>1, <2>5 DEF Views
    <3>5. g.cur /\ g.halt = HS_NONE /\ ~g.outstanding /\ ~g.queued /\ g.view = NoView
      BY <1>2, <1>4, <1>9, <2>1, <2>2, <2>5, <3>4
    <3>6. a \notin g.avail /\ \A i \in 1..Len(g.done) : g.done[i] # a
      BY <1>4, <1>7, <3>1
    <3>7. how = "halt" => g.handle = 1
      BY <1>2
    <3>8. /\ Views(h)
          /\ g.in => Grows(g, h)
          /\ ~g.in => QueueOf(h) = QueueOf(g) /\ h.seq = g.seq /\ h.last = g.data[a]
      BY <1>2, <3>3, <3>5, <3>6, <3>7, DeliverFlows
    <3> HIDE DEF h
    <3>9. ASSUME e.in
          PROVE  Grows(e, h)
      <4>1. QueueOf(g) = QueueOf(e)
        BY <1>2, <1>4, <3>9, SameIn
      <4>2. Grows(e, g)
        BY <1>4, <4>1 DEF Grows
      <4>3. QED BY <1>2, <3>8, <3>9, <4>2, GrowsTwice
    <3>10. ASSUME ~e.in
           PROVE  Receives(e, h)
      <4>1. QueueOf(h) = QueueOf(g) /\ h.seq = e.seq /\ h.last = e.data[a]
        BY <1>2, <1>4, <3>8, <3>10
      <4>2. CASE e.done = <<a>>
        <5>1. g.done = <<>>
          <6>1. Tail(<<a>>) = <<>>
            OBVIOUS
          <6>2. QED BY <1>4, <4>2, <6>1
        <5>2. QueueOf(g) = <<>>
          BY <1>2, <1>6, <3>5, <3>10, <5>1, QueueOut
        <5>3. QueueOf(e) = <<e.data[a]>>
          BY <1>1, <1>9, <2>1, <2>2, <3>10, <4>2, QueueOut
        <5> DEFINE x == e.data[a]
        <5>4. x \in Numbers
          BY <1>5
        <5> HIDE DEF x
        <5>5. <<x>> # <<>> /\ Head(<<x>>) = x /\ Tail(<<x>>) = <<>>
          OBVIOUS
        <5>6. QED BY <4>1, <5>2, <5>3, <5>5 DEF Receives, x
      <4>3. CASE e.done = <<a, 1 - a>>
        <5> DEFINE b == 1 - a
        <5>0. b \in Bit /\ e.done = <<a, b>>
          BY <4>3 DEF Bit
        <5> HIDE DEF b
        <5>1. g.done = <<b>>
          <6>1. Tail(<<a, b>>) = <<b>>
            OBVIOUS
          <6>2. QED BY <1>4, <5>0, <6>1
        <5>2. QueueOf(g) = <<g.data[b]>>
          BY <1>2, <1>6, <3>5, <3>10, <5>0, <5>1, QueueOut
        <5>3. QueueOf(e) = <<e.data[a], e.data[b]>>
          BY <1>1, <1>9, <2>1, <2>2, <3>10, <5>0, QueueOut
        <5> DEFINE x == e.data[a]
                   y == e.data[b]
        <5>4. QueueOf(g) = <<y>>
          BY <1>4, <5>2
        <5> HIDE DEF x, y
        <5>5. <<x, y>> # <<>> /\ Head(<<x, y>>) = x /\ Tail(<<x, y>>) = <<y>>
          OBVIOUS
        <5>6. QED BY <4>1, <5>3, <5>4, <5>5 DEF Receives, x, y
      <4>4. QED BY <1>7, <4>2, <4>3
    <3>11. QED BY <1>5, <3>2, <3>8, <3>9, <3>10 DEF f, Flows
  <2>6. QED BY <2>4, <2>5
<1>10. QED BY <1>8, <1>9

(* A driver that halts the endpoint as it finishes a packet ends the
   transfer, with what the endpoint still had in flight. *)
LEMMA PacketDoneHalts ==
  ASSUME NEW e, Sound(e), NEW halting \in BOOLEAN,
         halting \/ e.halt # HS_NONE, e.in => e.view = NoView,
         NEW how, NEW next \in Nat
  PROVE  LET f == PacketDone(e, halting, how, next)
         IN  /\ Views(f) /\ Drops(e, f) /\ f.halt # HS_NONE
             /\ f.halt = IF halting THEN Stall(e, HS_HALTED).halt ELSE e.halt
<1> DEFINE now  == IF halting THEN Stall(e, HS_HALTED) ELSE e
           back == [now EXCEPT !.outstanding = FALSE]
           f    == PacketDone(e, halting, how, next)
<1>1. /\ Sound(now) /\ now.halt # HS_NONE
      /\ now.in = e.in /\ now.view = e.view /\ now.seq = e.seq /\ now.last = e.last
  <2>1. CASE ~halting
    BY <2>1
  <2>2. CASE halting
    <3>1. Sound(Stall(e, HS_HALTED)) /\ Stall(e, HS_HALTED).halt # HS_NONE
      BY StallSound
    <3>2. e \in Endpoint
      BY DEF Sound
    <3>3. now.in = e.in /\ now.view = e.view /\ now.seq = e.seq /\ now.last = e.last
      BY <2>2, <3>2 DEF Stall, Endpoint
    <3>4. QED BY <2>2, <3>1, <3>3
  <2>3. QED BY <2>1, <2>2
<1>0. now.halt = IF halting THEN Stall(e, HS_HALTED).halt ELSE e.halt
  OBVIOUS
<1>2. f = IF Ended(back) THEN CheckCompletion(back, how, next)
          ELSE IF (IF e.in THEN GiveBuffer(back) ELSE [back EXCEPT !.view = NoView]).queued
               THEN Redeliver(IF e.in THEN GiveBuffer(back) ELSE [back EXCEPT !.view = NoView],
                              how, next)
               ELSE GiveAsMany(IF e.in THEN GiveBuffer(back)
                                       ELSE [back EXCEPT !.view = NoView], how)
  BY DEF PacketDone
<1> HIDE DEF f, now
<1>3. now \in Endpoint
  BY <1>1 DEF Sound
<1>4. back \in Endpoint /\ back.halt = now.halt /\ back.in = now.in /\ back.view = now.view
      /\ back.seq = now.seq /\ back.last = now.last
  BY <1>3 DEF Endpoint
<1> HIDE DEF back
<1>5. f = [back EXCEPT !.cur = FALSE, !.submit = 0, !.handle = 0]
  BY <1>1, <1>2, <1>4 DEF Ended, CheckCompletion
<1>6. ~f.cur /\ f.halt = back.halt /\ f.in = back.in /\ f.view = back.view
      /\ f.seq = back.seq /\ f.last = back.last
  BY <1>4, <1>5 DEF Endpoint
<1>7. Views(f) /\ f.halt # HS_NONE
  BY <1>1, <1>4, <1>6 DEF Views
<1>8. Drops(e, f)
  BY <1>1, <1>4, <1>6, QueueNone DEF Drops
<1>9. QED BY <1>0, <1>4, <1>6, <1>7, <1>8 DEF f

(* Finishing an outstanding packet: an IN endpoint sends it, and what there
   are buffers for; an OUT endpoint gives its buffer back, and its driver
   receives the packet deferred behind it. *)
LEMMA PacketDoneFlows ==
  ASSUME NEW e, NEW t \in Bit, Good(e, t), Views(e), e.cur, e.outstanding, e.halt = HS_NONE,
         NEW how, how # "halt", NEW next \in Nat
  PROVE  LET f == PacketDone(e, FALSE, how, next)
         IN  Views(f) /\ Flows(e, f)
<1> DEFINE back == [e EXCEPT !.outstanding = FALSE]
           sent == IF e.in THEN GiveBuffer(back) ELSE [back EXCEPT !.view = NoView]
           g    == [sent EXCEPT !.queued = FALSE]
           f    == PacketDone(e, FALSE, how, next)
<1>1. Sound(e) /\ Packets(e) /\ e \in Endpoint
  BY DEF Good, Sound
<1>2. f = IF Ended(back) THEN CheckCompletion(back, how, next)
          ELSE IF sent.queued THEN Deliver(g, 1 - sent.take, how, next)
               ELSE GiveAsMany(sent, how)
  BY DEF PacketDone, Redeliver
<1> HIDE DEF f
<1>3. /\ back \in Endpoint /\ SameBuffers(e, back) /\ SameQueue(e, back)
      /\ back.submit = e.submit /\ back.handle = e.handle /\ ~back.outstanding
      /\ back.view = e.view
  BY <1>1 DEF Endpoint, SameBuffers, SameQueue
<1> HIDE DEF back
<1>4. Sound(back) /\ Held(back) = Held(e)
  BY <1>1, <1>3, SameBuffersSound
<1>5. back.cur /\ back.halt = HS_NONE /\ back.in = e.in /\ back.queued = e.queued
      /\ back.done = e.done /\ back.take = e.take /\ back.owned = e.owned /\ back.data = e.data
      /\ back.avail = e.avail
  BY <1>3 DEF SameQueue, SameBuffers
<1>6. Same(e, back)
  BY <1>3, SameQueueSame
<1>7. e.in \in BOOLEAN /\ e.owned \in Nat /\ e.submit \in Nat /\ Held(e) \in Nat
      /\ Len(e.done) \in Nat /\ e.take \in Bit /\ e.data \in [Bit -> Numbers]
  BY <1>1, EndpointParts, PacketNumbers
<1>8. e.handle = e.submit + Held(e) + Len(e.done) + (IF e.queued THEN 1 ELSE 0)
  BY <1>1 DEF Packets
<1>9. e.owned >= 1 /\ (e.in => e.submit >= 1) /\ (e.queued => e.owned >= 2)
  BY <1>1 DEF Packets
<1>10. CASE Ended(back)
  <2> DEFINE h == CheckCompletion(back, how, next)
  <2>1. back.handle = back.submit + Held(back) + Len(back.done) + (IF back.queued THEN 1 ELSE 0)
    BY <1>3, <1>4, <1>5, <1>8
  <2>2. back.in => back.view = NoView
    BY <1>3, <1>5 DEF Views
  <2>3. Grows(back, h) /\ Views(h)
    BY <1>4, <1>5, <1>10, <2>1, <2>2, CompletionFlows
  <2>4. f = h
    BY <1>2, <1>10
  <2> HIDE DEF h
  <2>5. QED BY <1>6, <2>3, <2>4, SameGrows, GrowsTwice DEF Flows, f
<1>11. ASSUME ~Ended(back), e.in
       PROVE  Views(f) /\ Grows(e, f)
  <2>1. sent = GiveBuffer(back)
    BY <1>11
  <2>2. e.view = NoView
    BY <1>11 DEF Views
  <2>3. back.owned > 0 /\ back.submit > 0
    BY <1>3, <1>5, <1>7, <1>9, <1>11
  <2>4. /\ Sound(sent) /\ SameTransfer(back, sent) /\ ~sent.outstanding /\ sent.halt = HS_NONE
        /\ sent.owned = back.owned - 1 /\ sent.submit = back.submit - 1
        /\ Held(sent) = Held(back) + 1
    BY <1>3, <1>4, <2>1, <2>3, GiveBufferSound
  <2>5. SendsOne(back, sent) /\ sent.view = NoView
    BY <1>3, <1>4, <1>5, <1>11, <2>1, <2>2, <2>3, GiveBufferSends
  <2> HIDE DEF sent
  <2>6. Grows(e, sent)
    BY <1>6, <2>5, SameGrows, GrowsTwice DEF SendsOne, Grows
  <2>7. sent.in /\ sent.cur /\ sent.queued = e.queued /\ sent.done = e.done
    BY <1>5, <1>11, <2>4 DEF SameTransfer
  <2>8. sent \in Endpoint /\ sent.take \in Bit /\ sent.queued \in BOOLEAN
    BY <2>4, EndpointParts DEF Sound
  <2>9. CASE sent.queued
    <3>1. g \in Endpoint
      BY <2>8 DEF Endpoint
    <3>2. /\ SameBuffers(sent, g) /\ ~g.queued /\ g.outstanding = sent.outstanding
          /\ g.cur = sent.cur /\ g.halt = sent.halt /\ g.view = sent.view
          /\ g.submit = sent.submit /\ g.handle = sent.handle
          /\ g.data = sent.data /\ g.seq = sent.seq /\ g.last = sent.last
      BY <2>8 DEF Endpoint, SameBuffers
    <3> DEFINE which == 1 - sent.take
               h == Deliver(g, which, how, next)
    <3>3. f = h
      BY <1>2, <1>11, <2>9
    <3> HIDE DEF g
    <3>4. Sound(g) /\ Held(g) = Held(sent)
      BY <2>4, <3>1, <3>2, SameBuffersSound
    <3>5. g.in /\ g.cur /\ g.halt = HS_NONE /\ ~g.outstanding /\ g.view = NoView
          /\ g.done = e.done /\ g.owned = sent.owned
      BY <2>4, <2>5, <2>7, <3>2 DEF SameBuffers
    <3>6. g.owned >= 1
      BY <1>5, <1>7, <1>9, <2>4, <2>7, <2>9, <3>5
    <3>7. g.handle = g.submit + Held(g) + Len(g.done) + 1
      <4> DEFINE len == Len(e.done)
                 he  == Held(e)
      <4>1. e.handle = e.submit + he + len + 1 /\ he \in Nat /\ len \in Nat /\ e.submit \in Nat
        BY <1>7, <1>8, <2>7, <2>9
      <4>2. g.handle = e.handle /\ g.submit = e.submit - 1 /\ Held(g) = he + 1
        BY <1>3, <1>4, <2>4, <3>2, <3>4 DEF SameTransfer
      <4> HIDE DEF len, he
      <4>3. g.handle = g.submit + Held(g) + len + 1
        BY <4>1, <4>2
      <4>4. QED BY <3>5, <4>3 DEF len
    <3>8. which \in Bit
      BY <2>8 DEF Bit
    <3> HIDE DEF which
    <3>9. Views(h) /\ Grows(g, h)
      BY <3>2, <3>4, <3>5, <3>6, <3>7, <3>8, DeliverFlows
    <3>10. QueueOf(g) = QueueOf(sent)
      BY <2>7, <3>2, SameIn DEF SameBuffers
    <3>11. Grows(sent, g)
      BY <3>2, <3>10 DEF Grows
    <3> HIDE DEF h
    <3>12. QED BY <2>6, <3>3, <3>9, <3>11, GrowsTwice
  <2>10. CASE ~sent.queued
    <3> DEFINE h == GiveAsMany(sent, how)
    <3>1. f = h
      BY <1>2, <1>11, <2>10
    <3>2. Grows(sent, h) /\ h.view = NoView
      BY <2>4, <2>5, <2>7, GiveAsManyGrows
    <3>3. SameTransfer(sent, h)
      BY <2>4, GiveAsManySound
    <3> HIDE DEF h
    <3>4. Views(h)
      BY <2>7, <3>2, <3>3 DEF Views, SameTransfer
    <3>5. QED BY <2>6, <3>1, <3>2, <3>4, GrowsTwice
  <2>11. QED BY <2>8, <2>9, <2>10
<1>12. ASSUME ~Ended(back), ~e.in
       PROVE  Views(f) /\ Flows(e, f)
  <2>1. sent = [back EXCEPT !.view = NoView]
    BY <1>12
  <2> HIDE DEF sent
  <2>2. sent \in Endpoint
    <3>1. sent.view \in 0..2
      BY <1>3, <2>1 DEF Endpoint, NoView
    <3>2. QED BY <1>3, <2>1, <3>1 DEF Endpoint
  <2>3. /\ SameBuffers(back, sent) /\ SameQueue(back, sent)
        /\ sent.submit = back.submit /\ sent.handle = back.handle
        /\ sent.outstanding = back.outstanding /\ sent.view = NoView
    BY <1>3, <2>1 DEF Endpoint, SameBuffers, SameQueue
  <2>4. Sound(sent) /\ Held(sent) = Held(back)
    BY <1>4, <2>2, <2>3, SameBuffersSound
  <2>5. Same(e, sent)
    BY <1>6, <2>3, SameQueueSame DEF Same
  <2>6. ~sent.in /\ sent.cur /\ sent.halt = HS_NONE /\ sent.queued = e.queued
        /\ sent.done = e.done /\ sent.take = e.take /\ sent.data = e.data
        /\ sent.avail = e.avail /\ sent.owned = e.owned /\ ~sent.outstanding
    BY <1>3, <1>5, <1>12, <2>3 DEF SameQueue, SameBuffers
  <2>7. sent.queued \in BOOLEAN
    BY <2>2, EndpointParts
  <2>8. CASE sent.queued
    <3>1. g \in Endpoint
      BY <2>2 DEF Endpoint
    <3>2. /\ SameBuffers(sent, g) /\ ~g.queued /\ g.outstanding = sent.outstanding
          /\ g.cur = sent.cur /\ g.halt = sent.halt /\ g.view = sent.view
          /\ g.submit = sent.submit /\ g.handle = sent.handle
          /\ g.data = sent.data /\ g.seq = sent.seq /\ g.last = sent.last
      BY <2>2 DEF Endpoint, SameBuffers
    <3> DEFINE which == 1 - sent.take
               h == Deliver(g, which, how, next)
    <3>3. f = h
      BY <1>2, <1>12, <2>8
    <3> HIDE DEF g
    <3>4. Sound(g) /\ Held(g) = Held(sent)
      BY <2>4, <3>1, <3>2, SameBuffersSound
    <3>5. Held(e) = 0 /\ Len(e.done) = 0
      <4>1. e.owned >= 2
        BY <1>9, <2>6, <2>8
      <4>2. e.owned + Held(e) + Len(e.done) = Buffers(e) /\ Buffers(e) \in {1, 2}
        BY <1>1 DEF Sound, Count, Buffers
      <4>3. QED BY <1>7, <4>1, <4>2
    <3>6. e.avail = {} /\ e.done = <<>>
      BY <1>1, <3>5, NothingHeld
    <3>7. g.cur /\ g.halt = HS_NONE /\ ~g.outstanding /\ g.view = NoView /\ ~g.in
          /\ g.done = <<>> /\ g.avail = {} /\ g.owned >= 1
      BY <1>9, <2>3, <2>6, <3>2, <3>6 DEF SameBuffers
    <3>8. g.handle = g.submit + Held(g) + Len(g.done) + 1
      <4>1. g.handle = e.handle /\ g.submit = e.submit /\ Held(g) = 0
        BY <1>3, <1>4, <2>3, <2>4, <3>2, <3>4, <3>5
      <4>2. Len(g.done) = 0
        BY <3>7
      <4>3. e.handle = e.submit + 1
        BY <1>7, <1>8, <2>6, <2>8, <3>5
      <4>4. QED BY <1>7, <4>1, <4>2, <4>3
    <3>9. which \in Bit /\ which = 1 - e.take
      BY <1>7, <2>6 DEF Bit
    <3>10. QueueOf(e) = <<e.data[which]>>
      BY <1>1, <1>12, <2>6, <2>8, <3>6, <3>9, QueueOut
    <3> HIDE DEF which
    <3>11. which \notin g.avail /\ \A i \in 1..Len(g.done) : g.done[i] # which
      <4>1. Len(g.done) = 0
        BY <3>7
      <4>2. QED BY <3>7, <4>1
    <3>12. Views(h) /\ QueueOf(h) = QueueOf(g) /\ h.seq = g.seq /\ h.last = g.data[which]
      BY <3>2, <3>4, <3>7, <3>8, <3>9, <3>11, DeliverFlows
    <3> HIDE DEF h
    <3>13. QueueOf(g) = <<>>
      BY <3>1, <3>2, <3>7, QueueOut
    <3>14. h.seq = e.seq /\ h.last = e.data[which]
      BY <2>5, <2>6, <3>2, <3>12 DEF Same
    <3> DEFINE x == e.data[which]
    <3>15. QueueOf(e) = <<x>> /\ h.last = x
      BY <3>10, <3>14
    <3> HIDE DEF x
    <3>16. <<x>> # <<>> /\ Head(<<x>>) = x /\ Tail(<<x>>) = <<>>
      OBVIOUS
    <3>17. Receives(e, h)
      BY <3>12, <3>13, <3>14, <3>15, <3>16 DEF Receives
    <3>18. QED BY <3>3, <3>12, <3>17 DEF Flows
  <2>9. CASE ~sent.queued
    <3> DEFINE h == GiveAsMany(sent, how)
    <3>1. f = h
      BY <1>2, <1>12, <2>9
    <3>2. Same(sent, h) /\ h.view = NoView
      BY <2>3, <2>4, <2>6, GiveAsManyKeeps
    <3>3. SameTransfer(sent, h) /\ (h.outstanding => h.in)
      BY <2>4, <2>6, GiveAsManySound
    <3> HIDE DEF h
    <3>4. Views(h)
      BY <2>6, <3>2, <3>3 DEF Views, SameTransfer
    <3>5. Same(e, h)
      BY <2>5, <3>2 DEF Same
    <3>6. QED BY <3>1, <3>4, <3>5, SameGrows DEF Flows
  <2>10. QED BY <2>7, <2>8, <2>9
<1>13. QED BY <1>7, <1>10, <1>11, <1>12 DEF f, Flows

(* The controller's step: the host receives an IN packet, or sends an OUT
   packet into a buffer that nothing in flight uses. *)
LEMMA CompleteFlows ==
  ASSUME NEW e, NEW t \in Bit, Good(e, t), Views(e), CanComplete(e, t)
  PROVE  LET f == Complete(e)
         IN  Views(f) /\ Flows(e, f)
<1> DEFINE f == Complete(e)
<1>1. Sound(e) /\ Packets(e) /\ e \in Endpoint /\ e.sel \in e.avail /\ e.halt = HS_NONE
  BY DEF Good, Sound, CanComplete
<1>2. /\ e.avail \in SUBSET Bit /\ e.sel \in Bit /\ e.done \in Seq(Bit) /\ e.dbl \in BOOLEAN
      /\ e.in \in BOOLEAN /\ e.owned \in Nat /\ Len(e.done) \in Nat /\ Held(e) \in 0..2
      /\ e.data \in [Bit -> Numbers] /\ e.seq \in Numbers
  <2>1. e \in Endpoint
    BY <1>1
  <2>2. QED BY <2>1, EndpointParts, PacketNumbers
<1>3. e.cur
  <2>1. e.avail # {}
    BY <1>1
  <2>2. QED BY <1>1, <2>1 DEF Packets
<1>4. /\ f.avail = e.avail \ {e.sel}
      /\ f.done = Append(e.done, e.sel)
      /\ f.sel = (IF e.dbl THEN 1 - e.sel ELSE e.sel)
      /\ f.in = e.in /\ f.cur = e.cur /\ f.halt = e.halt /\ f.view = e.view
      /\ f.outstanding = e.outstanding /\ f.queued = e.queued /\ f.take = e.take
  <2>1. e \in Endpoint
    BY <1>1
  <2>2. QED BY <2>1 DEF Endpoint, Complete
<1>5. /\ f.data = IF e.in THEN e.data ELSE [e.data EXCEPT ![e.sel] = e.seq]
      /\ f.seq = IF e.in THEN e.seq ELSE Succ(e.seq)
      /\ f.last = IF e.in THEN e.data[e.sel] ELSE e.last
  <2>1. e \in Endpoint
    BY <1>1
  <2>2. QED BY <2>1 DEF Endpoint, Complete, Succ
<1>6. f \in Endpoint
  <2>1. Good(f, 1 - t)
    BY CompleteGood
  <2>2. QED BY <2>1 DEF Good, Sound
<1> HIDE DEF f
<1>7. e.owned + Held(e) + Len(e.done) = Buffers(e) /\ Buffers(e) = (IF e.dbl THEN 2 ELSE 1)
  BY <1>1 DEF Sound, Count, Buffers
<1>8. Held(f) = Held(e) - 1 /\ Held(e) \in {1, 2}
  BY <1>1, <1>2, <1>4 DEF Held, Bit
<1>9. ASSUME e.in
      PROVE  Views(f) /\ Receives(e, f)
  <2>1. Views(f)
    BY <1>4, <1>9 DEF Views
  <2> DEFINE x == e.data[e.sel]
             y == e.data[1 - e.sel]
  <2>2. f.seq = e.seq /\ f.last = x /\ f.data = e.data /\ f.in /\ f.cur /\ f.halt = HS_NONE
    BY <1>1, <1>3, <1>4, <1>5, <1>9
  <2>3. CASE Held(e) = 1
    <3>1. QueueOf(e) = <<x>>
      BY <1>1, <1>3, <1>9, <2>3, QueueIn
    <3>2. QueueOf(f) = <<>>
      BY <1>6, <1>8, <2>2, <2>3, QueueIn
    <3> HIDE DEF x
    <3>3. <<x>> # <<>> /\ Head(<<x>>) = x /\ Tail(<<x>>) = <<>>
      OBVIOUS
    <3>4. QED BY <2>1, <2>2, <3>1, <3>2, <3>3 DEF Receives
  <2>4. CASE Held(e) = 2
    <3>1. QueueOf(e) = <<x, y>>
      BY <1>1, <1>3, <1>9, <2>4, QueueIn
    <3>2. f.sel = 1 - e.sel
      BY <1>2, <1>4, <1>7, <2>4
    <3>3. QueueOf(f) = <<y>>
      BY <1>6, <1>8, <2>2, <2>4, <3>2, QueueIn
    <3> HIDE DEF x, y
    <3>4. <<x, y>> # <<>> /\ Head(<<x, y>>) = x /\ Tail(<<x, y>>) = <<y>>
      OBVIOUS
    <3>5. QED BY <2>1, <2>2, <3>1, <3>3, <3>4 DEF Receives
  <2>5. QED BY <1>8, <2>3, <2>4
<1>10. ASSUME ~e.in
       PROVE  Views(f) /\ Grows(e, f)
  <2>1. ~e.queued
    <3>1. e.queued => e.owned >= 2
      BY <1>1, <1>3 DEF Packets
    <3>2. QED BY <1>2, <1>7, <1>8, <3>1
  <2>2. Len(e.done) <= 1
    BY <1>2, <1>7, <1>8
  <2>3. e.done = <<>> \/ \E a \in Bit : a \notin e.avail /\ e.done = <<a>>
    <3>1. \A a : Len(<<a, 1 - a>>) = 2
      OBVIOUS
    <3>2. QED BY <1>1, <2>2, <3>1, DoneShape
  <2>4. f.data = [e.data EXCEPT ![e.sel] = e.seq] /\ f.seq = Succ(e.seq) /\ f.last = e.last
    BY <1>5, <1>10
  <2>5. f.data[e.sel] = e.seq /\ \A a \in Bit : a # e.sel => f.data[a] = e.data[a]
    BY <1>2, <2>4
  <2>6. ~f.in /\ f.cur /\ f.halt = HS_NONE /\ ~f.queued
    BY <1>1, <1>3, <1>4, <1>10, <2>1
  <2>7. CASE e.done = <<>>
    <3>1. f.done = <<e.sel>>
      <4>1. Append(<<>>, e.sel) = <<e.sel>>
        OBVIOUS
      <4>2. QED BY <1>4, <2>7, <4>1
    <3>2. QueueOf(e) = <<>>
      BY <1>1, <1>3, <1>10, <2>1, <2>7, QueueOut
    <3>3. QueueOf(f) = <<f.data[e.sel]>>
      BY <1>2, <1>6, <2>6, <3>1, QueueOut
    <3>4. Grows(e, f)
      BY <2>4, <2>5, <3>2, <3>3 DEF Grows
    <3>5. Views(f)
      <4>1. CASE e.outstanding
        <5>1. e.take \notin e.avail
          BY <1>1, <1>3, <1>10, <4>1 DEF Views
        <5>2. e.take \notin f.avail /\ e.sel # e.take
          BY <1>1, <1>4, <5>1
        <5>3. \A i \in 1..Len(<<e.sel>>) : <<e.sel>>[i] # e.take
          BY <5>2
        <5>4. QED BY <1>4, <2>6, <3>1, <4>1, <5>2, <5>3 DEF Views
      <4>2. CASE ~e.outstanding
        BY <1>1, <1>3, <1>4, <1>10, <4>2 DEF Views
      <4>3. QED BY <4>1, <4>2
    <3>6. QED BY <3>4, <3>5
  <2>8. ASSUME NEW a \in Bit, a \notin e.avail, e.done = <<a>>
        PROVE  Views(f) /\ Grows(e, f)
    <3>1. a # e.sel
      BY <1>1, <2>8
    <3>2. f.done = <<a, e.sel>>
      <4>1. a \in Int /\ e.sel \in Int
        BY <1>2 DEF Bit
      <4>2. QED BY <1>4, <2>8, <4>1, AppendToOne
    <3>3. QueueOf(e) = <<e.data[a]>>
      BY <1>1, <1>3, <1>10, <2>1, <2>8, QueueOut
    <3>4. QueueOf(f) = <<f.data[a], f.data[e.sel]>>
      BY <1>2, <1>6, <2>6, <3>2, QueueOut
    <3> DEFINE x == e.data[a]
    <3>5. x \in Numbers /\ QueueOf(e) = <<x>> /\ QueueOf(f) = <<x, e.seq>>
      BY <1>2, <2>5, <3>1, <3>3, <3>4
    <3> HIDE DEF x
    <3>6. Grows(e, f)
      BY <2>4, <3>5 DEF Grows
    <3>7. Views(f)
      <4>1. CASE e.outstanding
        <5>1. e.take \notin e.avail /\ a # e.take
          <6>1. e.take \notin e.avail /\ \A i \in 1..Len(e.done) : e.done[i] # e.take
            BY <1>1, <1>3, <1>10, <4>1 DEF Views
          <6>2. 1 \in 1..Len(e.done) /\ e.done[1] = a
            BY <2>8
          <6>3. QED BY <6>1, <6>2
        <5>2. e.take \notin f.avail /\ e.sel # e.take
          BY <1>1, <1>4, <5>1
        <5> DEFINE b == e.sel
        <5>3. b # e.take /\ f.done = <<a, b>>
          BY <3>2, <5>2
        <5> HIDE DEF b
        <5>4. \A i \in 1..Len(<<a, b>>) : <<a, b>>[i] # e.take
          <6>1. Len(<<a, b>>) = 2 /\ <<a, b>>[1] = a /\ <<a, b>>[2] = b
            OBVIOUS
          <6>2. \A i \in 1..2 : i = 1 \/ i = 2
            OBVIOUS
          <6>3. QED BY <5>1, <5>3, <6>1, <6>2
        <5>5. QED BY <1>4, <2>6, <4>1, <5>2, <5>3, <5>4 DEF Views
      <4>2. CASE ~e.outstanding
        BY <1>1, <1>3, <1>4, <1>10, <4>2 DEF Views
      <4>3. QED BY <4>1, <4>2
    <3>8. QED BY <3>6, <3>7
  <2>9. QED BY <2>3, <2>7, <2>8
<1>11. QED BY <1>2, <1>9, <1>10 DEF f, Flows

-----------------------------------------------------------------------------
(* A halt loses what was in flight. *)
LEMMA StallDrops ==
  ASSUME NEW e, Sound(e), Views(e), NEW hs \in {HS_HALTED, HS_HALTED_ON_CONDITION}
  PROVE  LET f == Stall(e, hs)
         IN  Views(f) /\ Drops(e, f) /\ f.halt # HS_NONE
<1> DEFINE f == Stall(e, hs)
<1>1. e \in Endpoint
  BY DEF Sound
<1>2. f.in = e.in /\ f.view = e.view /\ f.seq = e.seq /\ f.last = e.last
  BY <1>1 DEF Stall, Endpoint
<1>3. f.halt # HS_NONE
  BY StallSound
<1> HIDE DEF f
<1>4. Views(f)
  BY <1>2, <1>3 DEF Views
<1>5. Drops(e, f)
  BY <1>2, <1>3, QueueNone DEF Drops
<1>6. QED BY <1>3, <1>4, <1>5 DEF f

(* So does a reset, which may start a transfer at once. *)
LEMMA ResetDrops ==
  ASSUME NEW e \in Endpoint, ~e.dbl => e.sel = 0, e.done = <<>>,
         NEW hard \in BOOLEAN, NEW t \in Bit, hard => t = 0, ~hard => Good(e, t),
         NEW u \in Nat, NEW withDefault \in BOOLEAN
  PROVE  LET f == ResetEndpoint(e, hard, u, withDefault)
         IN  /\ Views(f) /\ Drops(e, f)
             /\ ~e.in \/ (u = 0 /\ ~withDefault) => QueueOf(f) = <<>> /\ f.seq = e.seq
<1> DEFINE idle  == [e EXCEPT !.cur = FALSE, !.submit = 0, !.handle = 0,
                              !.outstanding = FALSE, !.queued = FALSE]
           bufs  == ResetBuffers(idle)
           reset == [bufs EXCEPT !.pid  = IF hard THEN 0 ELSE @,
                                 !.view = NoView,
                                 !.halt = HS_NONE]
           f     == ResetEndpoint(e, hard, u, withDefault)
<1>1. f = IF e.halt # HS_NONE /\ u > 0 THEN StartTransfer(reset, u, "done")
          ELSE IF withDefault THEN StartTransfer(reset, 1, "done")
          ELSE reset
  BY DEF ResetEndpoint
<1>2. ResetEndpoint(e, hard, 0, FALSE) = reset
  BY DEF ResetEndpoint
<1>3. Good(ResetEndpoint(e, hard, 0, FALSE), t)
  BY ResetGood
<1> HIDE DEF f, reset, bufs, idle
<1>4. Sound(reset) /\ reset \in Endpoint
  BY <1>2, <1>3 DEF Good, Sound
<1>5. /\ ~reset.cur /\ reset.avail = {} /\ reset.view = NoView /\ reset.halt = HS_NONE
      /\ reset.seq = e.seq /\ reset.last = e.last /\ reset.in = e.in /\ reset.done = <<>>
  <2>1. idle.seq = e.seq /\ idle.last = e.last /\ idle.in = e.in /\ ~idle.cur
        /\ idle.done = e.done /\ idle \in Endpoint
    BY DEF Endpoint, idle
  <2>2. bufs.seq = idle.seq /\ bufs.last = idle.last /\ bufs.in = idle.in
        /\ bufs.cur = idle.cur /\ bufs.done = idle.done /\ bufs.avail = {}
    BY <2>1 DEF Endpoint, ResetBuffers, Recovered, bufs
  <2>3. reset.seq = bufs.seq /\ reset.last = bufs.last /\ reset.in = bufs.in
        /\ reset.cur = bufs.cur /\ reset.done = bufs.done /\ reset.avail = bufs.avail
        /\ reset.view = NoView /\ reset.halt = HS_NONE
    <3> DEFINE r == Recovered(idle)
    <3>1. r = [idle EXCEPT !.avail = {}, !.owned = Buffers(idle), !.give = 0, !.take = 0,
                           !.fresh = TRUE]
      BY DEF Recovered
    <3>2. DOMAIN r = DOMAIN idle
      BY <3>1
    <3> HIDE DEF r
    <3>3. bufs = [r EXCEPT !.pid = IF idle.avail # {} /\ (~idle.dbl \/ idle.owned = 1)
                                   THEN 1 - r.pid ELSE r.pid]
      BY DEF ResetBuffers, bufs, r
    <3>4. DOMAIN bufs = DOMAIN idle
      BY <3>2, <3>3
    <3>5. DOMAIN idle = {"in", "dbl", "owned", "give", "take", "fresh", "pid", "halt", "view",
                         "cur", "submit", "handle", "outstanding", "queued", "pos", "avail",
                         "bpid", "sel", "done", "data", "seq", "last"}
      BY <2>1 DEF Endpoint
    <3>6. "view" \in DOMAIN bufs /\ "halt" \in DOMAIN bufs
      BY <3>4, <3>5
    <3>7. QED BY <3>6 DEF reset
  <2>4. QED BY <2>1, <2>2, <2>3
<1>6. QueueOf(reset) = <<>>
  BY <1>5, QueueNone
<1>7. CASE f = reset
  <2>1. Views(f)
    BY <1>5, <1>7 DEF Views
  <2>2. Drops(e, f)
    BY <1>5, <1>6, <1>7 DEF Drops
  <2>3. QED BY <1>5, <1>6, <1>7, <2>1, <2>2 DEF f
<1>8. ASSUME NEW n \in Nat \ {0}, f = StartTransfer(reset, n, "done")
      PROVE  /\ Views(f) /\ Drops(e, f)
             /\ ~e.in => QueueOf(f) = <<>> /\ f.seq = e.seq
  <2>1. Grows(reset, f) /\ (~reset.in => Same(reset, f)) /\ Views(f)
    BY <1>4, <1>5, <1>8, StartTransferFlows
  <2>2. Drops(e, f)
    <3>1. \A a : <<a>> # <<>>
      OBVIOUS
    <3>2. QED BY <1>5, <1>6, <2>1, <3>1 DEF Grows, Drops
  <2>3. QED BY <1>5, <1>6, <2>1, <2>2 DEF Same
<1>9. CASE e.halt # HS_NONE /\ u > 0
  BY <1>1, <1>8, <1>9 DEF f
<1>10. CASE ~(e.halt # HS_NONE /\ u > 0) /\ withDefault
  BY <1>1, <1>8, <1>10 DEF f
<1>11. QED BY <1>1, <1>7, <1>9, <1>10

-----------------------------------------------------------------------------
(* A smaller number has a smaller multiple, by the factor at least. *)
LEMMA NextMultiple ==
  ASSUME NEW m \in Nat \ {0}, NEW q \in Int, NEW k \in Int, q < k
  PROVE  (q + 1) * m <= k * m
<1> DEFINE d == k - (q + 1)
<1>1. d \in Nat
  OBVIOUS
<1>2. \A x \in Nat : x * m \in Nat
  OBVIOUS
<1>3. d * m \in Nat
  BY <1>1, <1>2
<1>4. d * m = k * m - (q + 1) * m
  OBVIOUS
<1>5. (q + 1) * m \in Int /\ k * m \in Int
  OBVIOUS
<1> HIDE DEF d
<1>6. QED BY <1>3, <1>4, <1>5

(* Remainders of numbers below twice the divisor. *)
LEMMA SmallRemainder ==
  ASSUME NEW m \in Nat \ {0}, NEW r \in 0..(m - 1)
  PROVE  r % m = r /\ (m + r) % m = r
<1>1. ASSUME NEW a \in Nat, NEW k \in Nat, a = k * m + r
      PROVE  a % m = r
  <2> DEFINE q == a \div m
  <2> DEFINE s == a % m
  <2>1. a = q * m + s /\ q \in Nat /\ s \in 0..(m - 1)
    OBVIOUS
  <2> HIDE DEF q, s
  <2>2. ~(q < k)
    <3> SUFFICES ASSUME q < k PROVE FALSE
      OBVIOUS
    <3>1. (q + 1) * m <= k * m
      BY <2>1, NextMultiple
    <3>2. (q + 1) * m = q * m + m
      BY <2>1
    <3> DEFINE qm == q * m
    <3> DEFINE km == k * m
    <3>3. qm \in Nat /\ km \in Nat /\ qm + m <= km /\ km + r = qm + s
      BY <1>1, <2>1, <3>1, <3>2
    <3> HIDE DEF qm, km
    <3>4. QED BY <2>1, <3>3
  <2>3. ~(k < q)
    <3> SUFFICES ASSUME k < q PROVE FALSE
      OBVIOUS
    <3>1. (k + 1) * m <= q * m
      BY <2>1, NextMultiple
    <3>2. (k + 1) * m = k * m + m
      OBVIOUS
    <3> DEFINE qm == q * m
    <3> DEFINE km == k * m
    <3>3. qm \in Nat /\ km \in Nat /\ km + m <= qm /\ km + r = qm + s
      BY <1>1, <2>1, <3>1, <3>2
    <3> HIDE DEF qm, km
    <3>4. QED BY <2>1, <3>3
  <2>4. s = r
    BY <1>1, <2>1, <2>2, <2>3
  <2>5. QED BY <2>4 DEF s
<1>2. r % m = r
  BY <1>1, r = 0 * m + r
<1>3. (m + r) % m = r
  BY <1>1, m + r = 1 * m + r
<1>4. QED BY <1>2, <1>3

(* The numbers of the next packets. *)
LEMMA NextNumbers ==
  ASSUME NEW s \in Numbers
  PROVE  /\ s % SeqMod = s
         /\ (s + 1) % SeqMod = Succ(s)
         /\ (s + 2) % SeqMod = Succ(Succ(s))
<1>1. SeqMod \in Nat \ {0} /\ s \in Nat
  BY SeqModAssumption DEF Numbers
<1>2. \A r \in 0..(SeqMod - 1) : r % SeqMod = r
  BY <1>1, SmallRemainder
<1>3. SeqMod % SeqMod = 0
  BY <1>1, SmallRemainder, 0 \in 0..(SeqMod - 1)
<1>4. s % SeqMod = s
  BY <1>2 DEF Numbers
<1>5. (s + 2) % SeqMod = Succ(Succ(s))
  <2>1. CASE s + 1 # SeqMod
    <3>1. s + 1 \in 0..(SeqMod - 1)
      BY <1>1, <2>1 DEF Numbers
    <3>2. Succ(s) = s + 1
      BY <1>2, <3>1 DEF Succ
    <3>3. s + 2 = (s + 1) + 1
      BY <1>1
    <3>4. QED BY <3>2, <3>3 DEF Succ
  <2>2. CASE s + 1 = SeqMod
    <3>1. Succ(s) = 0
      BY <1>1, <1>3, <2>2 DEF Succ
    <3>2. s + 2 = SeqMod + 1
      BY <1>1, <2>2
    <3>3. CASE SeqMod = 1
      BY <3>1, <3>2, <3>3 DEF Succ
    <3>4. CASE SeqMod # 1
      <4>1. 1 \in 0..(SeqMod - 1)
        BY <1>1, <3>4
      <4>3. (SeqMod + 1) % SeqMod = 1
        BY <1>1, <4>1, SmallRemainder
      <4>4. 1 % SeqMod = 1
        BY <1>2, <4>1
      <4>5. 0 + 1 = 1
        OBVIOUS
      <4>6. QED BY <3>1, <3>2, <4>3, <4>4, <4>5 DEF Succ
    <3>5. QED BY <3>3, <3>4
  <2>3. QED BY <2>1, <2>2
<1>6. QED BY <1>4, <1>5 DEF Succ

(* The packets of a Send or a Flush, one by one. *)
LEMMA SentPackets ==
  ASSUME NEW s \in Numbers
  PROVE  /\ [i \in 1..1 |-> (s + i - 1) % SeqMod] = <<s>>
         /\ [i \in 1..2 |-> (s + i - 1) % SeqMod] = <<s, Succ(s)>>
<1>1. s \in Nat /\ s % SeqMod = s /\ (s + 1) % SeqMod = Succ(s)
  BY SeqModAssumption, NextNumbers DEF Numbers
<1>2. s + 1 - 1 = s /\ s + 2 - 1 = s + 1
  BY <1>1
<1>3. [i \in 1..1 |-> (s + i - 1) % SeqMod] = <<s>>
  <2> DEFINE p == [i \in 1..1 |-> (s + i - 1) % SeqMod]
  <2>1. p[1] = s /\ DOMAIN p = 1..1
    BY <1>1, <1>2
  <2>2. DOMAIN <<s>> = 1..1 /\ <<s>>[1] = s
    OBVIOUS
  <2>3. \A i \in 1..1 : p[i] = <<s>>[i]
    <3>1. \A i \in 1..1 : i = 1
      OBVIOUS
    <3> HIDE DEF p
    <3>2. QED BY <2>1, <2>2, <3>1
  <2>4. QED BY <2>1, <2>2, <2>3
<1>4. [i \in 1..2 |-> (s + i - 1) % SeqMod] = <<s, Succ(s)>>
  <2> DEFINE p == [i \in 1..2 |-> (s + i - 1) % SeqMod]
             n == Succ(s)
  <2>1. p[1] = s /\ p[2] = n /\ DOMAIN p = 1..2
    BY <1>1, <1>2
  <2> HIDE DEF n
  <2>2. DOMAIN <<s, n>> = 1..2 /\ <<s, n>>[1] = s /\ <<s, n>>[2] = n
    OBVIOUS
  <2>3. \A i \in 1..2 : p[i] = <<s, n>>[i]
    <3>1. \A i \in 1..2 : i = 1 \/ i = 2
      OBVIOUS
    <3> HIDE DEF p
    <3>2. QED BY <2>1, <2>2, <3>1
  <2>4. p = <<s, n>>
    BY <2>1, <2>2, <2>3
  <2>5. QED BY <2>4 DEF n
<1>5. QED BY <1>3, <1>4

LEMMA SentPacketsMore ==
  ASSUME NEW s \in Numbers, NEW a \in Numbers
  PROVE  /\ <<>> \o <<s>> = <<s>>
         /\ <<>> \o <<s, Succ(s)>> = <<s, Succ(s)>>
         /\ <<a>> \o <<s>> = <<a, s>>
<1>1. Succ(s) \in Numbers
  BY SuccNumber
<1>2. <<s>> \in Seq(Numbers) /\ <<s, Succ(s)>> \in Seq(Numbers)
  BY <1>1
<1>3. <<a>> \o <<s>> = <<a, s>>
  <2>1. <<a>> \in Seq(Numbers) /\ a \in Int /\ s \in Int
    BY SeqModAssumption DEF Numbers
  <2>2. Append(<<a>>, s) = <<a>> \o <<s>>
    BY <2>1, AppendIsConcat
  <2>3. QED BY <2>1, <2>2, AppendToOne
<1>4. QED BY <1>2, <1>3, ConcatEmptySeq

-----------------------------------------------------------------------------
(* A step of the endpoint is a step of the pipe. *)
PipeVars == <<QueueOf(ep), ep.seq, ep.last>>

LEMMA GrowsSends ==
  ASSUME ep \in Endpoint, Grows(ep, ep')
  PROVE  (\E n \in 1..2 : Pipe!Send(n)) \/ UNCHANGED PipeVars
<1> DEFINE s == ep.seq
<1>1. s \in Numbers
  BY PacketNumbers
<1>2. QueueOf(ep)' = QueueOf(ep')
  OBVIOUS
<1>3. ep'.last = ep.last
  BY DEF Grows
<1>4. CASE QueueOf(ep') = QueueOf(ep) /\ ep'.seq = ep.seq
  BY <1>2, <1>3, <1>4 DEF PipeVars
<1>5. ASSUME QueueOf(ep) = <<>>, QueueOf(ep') = <<ep.seq>>, ep'.seq = Succ(ep.seq)
      PROVE  Pipe!Send(1)
  <2>1. Len(QueueOf(ep)) + 1 <= 2
    BY <1>5
  <2>2. QueueOf(ep') = QueueOf(ep) \o [i \in 1..1 |-> (ep.seq + i - 1) % SeqMod]
    BY <1>1, <1>5, SentPackets, SentPacketsMore
  <2>3. QED BY <1>2, <1>3, <1>5, <2>1, <2>2 DEF Pipe!Send, Succ
<1>6. ASSUME QueueOf(ep) = <<>>, QueueOf(ep') = <<ep.seq, Succ(ep.seq)>>,
             ep'.seq = Succ(Succ(ep.seq))
      PROVE  Pipe!Send(2)
  <2>1. Len(QueueOf(ep)) + 2 <= 2
    BY <1>6
  <2>2. QueueOf(ep') = QueueOf(ep) \o [i \in 1..2 |-> (ep.seq + i - 1) % SeqMod]
    BY <1>1, <1>6, SentPackets, SentPacketsMore
  <2>3. ep'.seq = (ep.seq + 2) % SeqMod
    BY <1>1, <1>6, NextNumbers
  <2>4. QED BY <1>2, <1>3, <2>1, <2>2, <2>3 DEF Pipe!Send
<1>7. ASSUME NEW a \in Numbers, QueueOf(ep) = <<a>>, QueueOf(ep') = <<a, ep.seq>>,
             ep'.seq = Succ(ep.seq)
      PROVE  Pipe!Send(1)
  <2>1. Len(QueueOf(ep)) + 1 <= 2
    BY <1>7
  <2>2. QueueOf(ep') = QueueOf(ep) \o [i \in 1..1 |-> (ep.seq + i - 1) % SeqMod]
    BY <1>1, <1>7, SentPackets, SentPacketsMore
  <2>3. QED BY <1>2, <1>3, <1>7, <2>1, <2>2 DEF Pipe!Send, Succ
<1>8. 1 \in 1..2 /\ 2 \in 1..2
  OBVIOUS
<1>9. QED BY <1>4, <1>5, <1>6, <1>7, <1>8 DEF Grows

LEMMA ReceivesReceive ==
  ASSUME Receives(ep, ep')
  PROVE  Pipe!Receive
<1>1. QueueOf(ep)' = QueueOf(ep')
  OBVIOUS
<1>2. QED BY <1>1 DEF Receives, Pipe!Receive

LEMMA FlowsFlow ==
  ASSUME ep \in Endpoint, Flows(ep, ep')
  PROVE  Pipe!Flow \/ UNCHANGED PipeVars
BY GrowsSends, ReceivesReceive DEF Flows, Pipe!Flow

LEMMA DropsFlush ==
  ASSUME ep \in Endpoint, Drops(ep, ep')
  PROVE  Pipe!Flush
<1> DEFINE flush(lost, n) ==
      /\ QueueOf(ep') = [i \in 1..n |-> (ep.seq + lost + i - 1) % SeqMod]
      /\ ep'.seq = (ep.seq + lost + n) % SeqMod
<1>1. ep.seq \in Numbers /\ ep.seq \in Nat
  BY PacketNumbers, SeqModAssumption DEF Numbers
<1>2. /\ ep.seq + 0 = ep.seq /\ ep.seq + 0 + 0 = ep.seq
      /\ ep.seq + 1 + 0 = ep.seq + 1 /\ ep.seq + 2 + 0 = ep.seq + 2
      /\ ep.seq + 0 + 1 = ep.seq + 1 /\ ep.seq + 0 + 2 = ep.seq + 2
  BY <1>1
<1>3. \E lost, n \in 0..2 : flush(lost, n)
  <2>1. \A x : [i \in 1..0 |-> (ep.seq + x + i - 1) % SeqMod] = <<>>
    OBVIOUS
  <2>2. CASE QueueOf(ep') = <<>> /\ ep'.seq = ep.seq
    <3>1. flush(0, 0)
      BY <1>1, <1>2, <2>1, <2>2, NextNumbers
    <3> HIDE DEF flush
    <3>2. QED BY <3>1
  <2>3. CASE QueueOf(ep') = <<>> /\ ep'.seq = Succ(ep.seq)
    <3>1. flush(1, 0)
      BY <1>1, <1>2, <2>1, <2>3, NextNumbers
    <3> HIDE DEF flush
    <3>2. QED BY <3>1
  <2>4. CASE QueueOf(ep') = <<>> /\ ep'.seq = Succ(Succ(ep.seq))
    <3>1. flush(2, 0)
      BY <1>1, <1>2, <2>1, <2>4, NextNumbers
    <3> HIDE DEF flush
    <3>2. QED BY <3>1
  <2>5. CASE QueueOf(ep') = <<ep.seq>> /\ ep'.seq = Succ(ep.seq)
    <3>1. flush(0, 1)
      BY <1>1, <1>2, <2>5, NextNumbers, SentPackets
    <3> HIDE DEF flush
    <3>2. QED BY <3>1
  <2>6. CASE QueueOf(ep') = <<ep.seq, Succ(ep.seq)>> /\ ep'.seq = Succ(Succ(ep.seq))
    <3>1. flush(0, 2)
      BY <1>1, <1>2, <2>6, NextNumbers, SentPackets
    <3> HIDE DEF flush
    <3>2. QED BY <3>1
  <2>7. QED BY <2>2, <2>3, <2>4, <2>5, <2>6 DEF Drops
<1>4. QueueOf(ep)' = QueueOf(ep') /\ ep'.last = ep.last
  BY DEF Drops
<1>5. QED BY <1>3, <1>4 DEF Pipe!Flush

-----------------------------------------------------------------------------
(* The invariant with the drivers' views of the buffers. *)
PipeInv == EndpointInv /\ Views(ep)

(* A step keeps the pipe flowing, or it is a halt or a reset. *)
Loses == Drops(ep, ep') /\ (ep'.halt # HS_NONE \/ HostControl)

LEMMA StepFlows ==
  ASSUME Orderly, PipeInv, [Next]_vars
  PROVE  Views(ep') /\ (Flows(ep, ep') \/ Loses)
<1> USE DEF Orderly
<1>1. /\ Good(ep, toggle) /\ ep \in Endpoint /\ Views(ep) /\ Sound(ep) /\ Packets(ep)
      /\ toggle \in Bit
  BY DEF PipeInv, EndpointInv, TypeOK, Good, Sound
<1>2. /\ \A m \in Follow : m \in Nat
      /\ \A n \in Sizes : n \in Nat \ {0}
      /\ \A u \in UnstallSizes : u \in Nat
      /\ \A how \in Ways : how # "halt"
  BY MaxPacketsAssumption DEF Follow, Sizes, UnstallSizes, Ways
<1>3. (~ep.dbl => ep.sel = 0) /\ WithDefault \in BOOLEAN /\ (ep.in => ~WithDefault)
  BY <1>1 DEF Sound, Ring, WithDefault
<1>4. 0 \in Bit
  BY DEF Bit
<1>5. ASSUME NEW n \in Sizes, NEW how \in Ways, Start(n, how)
      PROVE  Views(ep') /\ Flows(ep, ep')
  <2>1. ~ep.cur /\ ep.done = <<>> /\ ep' = StartTransfer(ep, n, how)
    BY <1>5 DEF Start
  <2>2. (ep.halt = HS_NONE => ep.avail = {}) /\ (ep.in => ep.view = NoView)
    BY <1>1, <2>1 DEF Packets, Views
  <2>3. QED BY <1>1, <1>2, <2>1, <2>2, StartTransferFlows DEF Flows
<1>6. ASSUME NEW halting \in BOOLEAN, NEW how \in Ways, NEW m \in Follow,
             FinishPacket(halting, how, m)
      PROVE  Views(ep') /\ (Flows(ep, ep') \/ Loses)
  <2>1. ep.cur /\ ep.outstanding /\ ep' = PacketDone(ep, halting, how, m)
    BY <1>6 DEF FinishPacket
  <2>2. m \in Nat /\ how # "halt"
    BY <1>2
  <2>3. CASE halting \/ ep.halt # HS_NONE
    <3>1. ep.in => ep.view = NoView
      BY <1>1 DEF Views
    <3>2. QED BY <1>1, <2>1, <2>2, <2>3, <3>1, PacketDoneHalts DEF Loses
  <2>4. CASE ~halting /\ ep.halt = HS_NONE
    <3>1. ep' = PacketDone(ep, FALSE, how, m)
      BY <2>1, <2>4
    <3>2. QED BY <1>1, <2>1, <2>2, <2>4, <3>1, PacketDoneFlows
  <2>5. QED BY <2>3, <2>4
<1>7. ASSUME NEW hs \in {HS_HALTED, HS_HALTED_ON_CONDITION}, DriverHalt(hs)
      PROVE  Views(ep') /\ Loses
  BY <1>1, <1>7, StallDrops DEF DriverHalt, Loses
<1>8. ASSUME NEW how, NEW m \in Follow, HandleBuffer(how, m)
      PROVE  Views(ep') /\ Flows(ep, ep')
  <2>1. ep.done # <<>> /\ ep' = HandleTransfer(ep, how, m) /\ (how = "halt" => ep.handle = 1)
    BY <1>8 DEF HandleBuffer
  <2>2. QED BY <1>1, <1>2, <2>1, HandleTransferFlows
<1>9. ASSUME Transact
      PROVE  Views(ep') /\ Flows(ep, ep')
  BY <1>1, <1>9, CompleteFlows DEF Transact
<1>10. ASSUME SetHalt
       PROVE  Views(ep') /\ Loses
  BY <1>1, <1>10, StallDrops DEF SetHalt, Loses
<1>11. ASSUME NEW u \in UnstallSizes, ClearHalt(u)
       PROVE  Views(ep') /\ (Flows(ep, ep') \/ Loses)
  <2>1. ep.done = <<>>
        /\ ep' = IF ep.halt < HS_HALTED_ON_CONDITION
                 THEN ResetEndpoint(ep, TRUE, u, WithDefault)
                 ELSE [ep EXCEPT !.pid = 0]
    BY <1>11 DEF ClearHalt, Settled
  <2>2. HostControl
    BY <1>11 DEF HostControl
  <2>3. CASE ep.halt < HS_HALTED_ON_CONDITION
    <3> DEFINE f == ResetEndpoint(ep, TRUE, u, WithDefault)
    <3>1. Views(f) /\ Drops(ep, f)
      BY <1>1, <1>2, <1>3, <1>4, <2>1, ResetDrops
    <3>2. ep' = f
      BY <2>1, <2>3
    <3> HIDE DEF f
    <3>3. QED BY <2>2, <3>1, <3>2 DEF Loses
  <2>4. CASE ~(ep.halt < HS_HALTED_ON_CONDITION)
    <3> DEFINE f == [ep EXCEPT !.pid = 0]
    <3>1. SameQueue(ep, f) /\ f.view = ep.view /\ f.outstanding = ep.outstanding
      BY <1>1 DEF Endpoint, SameQueue
    <3>2. ep' = f
      BY <2>1, <2>4
    <3> HIDE DEF f
    <3>3. Views(f)
      BY <1>1, <3>1 DEF SameQueue, Views
    <3>4. QED BY <3>1, <3>2, <3>3, SameQueueSame, SameGrows DEF Flows
  <2>5. QED BY <2>3, <2>4
<1>12. ASSUME NEW u \in UnstallSizes, ClassReset(u)
       PROVE  Views(ep') /\ Loses
  <2>1. ep.done = <<>> /\ ep' = ResetEndpoint(ep, FALSE, u, WithDefault) /\ HostControl
    BY <1>12 DEF ClassReset, Settled, HostControl
  <2>2. QED BY <1>1, <1>2, <1>3, <2>1, ResetDrops DEF Loses
<1>13. ASSUME NEW u \in UnstallSizes, SetConfig(u)
       PROVE  Views(ep') /\ Loses
  <2> DEFINE f == ResetEndpoint(ep, TRUE, u, WithDefault)
             g == ResetEndpoint(f, FALSE, 0, WithDefault)
  <2>1. ep.done = <<>> /\ ep' = g /\ HostControl
    BY <1>13 DEF SetConfig, Settled, HostControl
  <2>2. /\ Drops(ep, f)
        /\ ~ep.in => QueueOf(f) = <<>> /\ f.seq = ep.seq
    BY <1>1, <1>2, <1>3, <1>4, <2>1, ResetDrops
  <2>3. Good(f, 0) /\ f.in = ep.in /\ f.dbl = ep.dbl /\ f.done = <<>>
    BY <1>1, <1>2, <1>3, <2>1, HardResetGood
  <2>4. f \in Endpoint /\ (~f.dbl => f.sel = 0)
    BY <2>3 DEF Good, Sound, Ring
  <2> HIDE DEF f
  <2>5. /\ Views(g) /\ Drops(f, g)
        /\ ~f.in \/ ~WithDefault => QueueOf(g) = <<>> /\ g.seq = f.seq
    BY <1>3, <1>4, <2>3, <2>4, ResetDrops
  <2> HIDE DEF g
  <2>6. QueueOf(g) = <<>> /\ g.seq = f.seq /\ g.last = ep.last
    BY <1>3, <2>2, <2>3, <2>5 DEF Drops
  <2>7. f.seq \in {ep.seq, Succ(ep.seq), Succ(Succ(ep.seq))}
    BY <2>2 DEF Drops
  <2>8. Drops(ep, g)
    BY <2>6, <2>7 DEF Drops
  <2>9. QED BY <2>1, <2>5, <2>8 DEF Loses
<1>14. ASSUME NEW u \in UnstallSizes, BusReset(u)
       PROVE  Views(ep') /\ Loses
  <2> DEFINE f == [ep EXCEPT !.done = <<>>]
             g == ResetEndpoint(f, TRUE, u, FALSE)
  <2>1. ep' = g /\ HostControl
    BY <1>14 DEF BusReset, HostControl
  <2>2. f.dbl = ep.dbl /\ f.sel = ep.sel /\ f.done = <<>> /\ f.seq = ep.seq /\ f.last = ep.last
    BY <1>1 DEF Endpoint
  <2>3. f \in Endpoint
    <3>1. f.done \in Seq(Bit)
      BY <2>2
    <3>2. QED BY <1>1, <3>1 DEF Endpoint
  <2> HIDE DEF f
  <2>4. Views(g) /\ Drops(f, g)
    BY <1>2, <1>3, <1>4, <2>2, <2>3, ResetDrops
  <2> HIDE DEF g
  <2>5. Drops(ep, g)
    BY <2>2, <2>4 DEF Drops
  <2>6. QED BY <2>1, <2>4, <2>5 DEF Loses
<1>15. CASE UNCHANGED vars
  <2>1. ep' = ep
    BY <1>15 DEF vars
  <2>2. QED BY <1>1, <2>1 DEF Flows, Grows
<1>16. CASE Next
  BY <1>5, <1>6, <1>7, <1>8, <1>9, <1>10, <1>11, <1>12, <1>13, <1>14, <1>16
  DEF Next, Driver, Isr, HostControl
<1>17. QED BY <1>15, <1>16

LEMMA PipeInvariant ==
  ASSUME Orderly
  PROVE  Spec => []PipeInv
<1>1. Init => PipeInv
  <2>1. ASSUME Init
        PROVE  Views(ep)
    <3>1. ep.view = NoView /\ ~ep.cur
      BY <2>1 DEF Init, InitEndpoint
    <3>2. QED BY <3>1 DEF Views
  <2>2. QED BY <2>1, InitGood DEF PipeInv
<1>2. PipeInv /\ [Next]_vars => PipeInv'
  BY StepFlows, StepGood DEF PipeInv
<1>3. QED BY <1>1, <1>2, PTL DEF Spec

(* The endpoint implements the ordered packet pipe: every packet arrives
   once, in order, and only halts and resets lose any (the whole of
   usb_device.c's buffer handling). *)
THEOREM EndpointIsPipe ==
  ASSUME Orderly
  PROVE  Spec => ImplementsPipe
<1>1. Init => Pipe!Init
  <2> SUFFICES ASSUME Init PROVE Pipe!Init
    OBVIOUS
  <2>1. ~ep.cur /\ ep.seq = 0 /\ ep.last = 0
    BY DEF Init, InitEndpoint
  <2>2. QED BY <2>1, QueueNone DEF Pipe!Init
<1>2. PipeInv /\ [Next]_vars => [Pipe!Next]_PipeVars
  <2> SUFFICES ASSUME PipeInv, [Next]_vars
               PROVE  Pipe!Next \/ UNCHANGED PipeVars
    OBVIOUS
  <2>1. ep \in Endpoint
    BY DEF PipeInv, EndpointInv, TypeOK
  <2>2. Flows(ep, ep') \/ Drops(ep, ep')
    BY StepFlows DEF Loses
  <2>3. QED BY <2>1, <2>2, FlowsFlow, DropsFlush DEF Pipe!Next
<1>3. QED
  BY <1>1, <1>2, PipeInvariant, PTL DEF Spec, ImplementsPipe, Pipe!Spec, PipeVars

(* No step of the engine or of a driver that leaves the endpoint running
   drops a packet, duplicates one or delivers it out of turn. *)
THEOREM OnlyHaltsLose ==
  ASSUME Orderly
  PROVE  Spec => OnlyHaltsDrop
<1> DEFINE A == ~HostControl /\ ep'.halt = HS_NONE => [Pipe!Flow]_PipeVars
<1>1. PipeInv /\ [Next]_vars => [A]_vars
  <2> SUFFICES ASSUME PipeInv, [Next]_vars, ~HostControl, ep'.halt = HS_NONE
               PROVE  Pipe!Flow \/ UNCHANGED PipeVars
    OBVIOUS
  <2>1. ep \in Endpoint
    BY DEF PipeInv, EndpointInv, TypeOK
  <2>2. Flows(ep, ep')
    BY StepFlows DEF Loses
  <2>3. QED BY <2>1, <2>2, FlowsFlow
<1>2. OnlyHaltsDrop <=> [][A]_vars
  BY DEF OnlyHaltsDrop, PipeVars
<1> HIDE DEF A
<1>3. QED BY <1>1, <1>2, PipeInvariant, PTL DEF Spec

-----------------------------------------------------------------------------
LEMMA StallRaises ==
  ASSUME NEW e \in Endpoint, NEW hs \in {HS_HALTED, HS_HALTED_ON_CONDITION}
  PROVE  Stall(e, hs).halt >= e.halt
<1>1. Stall(e, hs).halt = IF e.halt = HS_NONE \/ hs > e.halt THEN hs ELSE e.halt
  BY DEF Stall, Endpoint
<1>2. e.halt \in 0..3 /\ hs \in 0..3
  BY EndpointParts DEF HS_HALTED, HS_HALTED_ON_CONDITION
<1>3. QED BY <1>1, <1>2 DEF HS_NONE

(* Nothing but a reset lowers the halt level. *)
LEMMA StepKeepsHalt ==
  ASSUME Orderly, PipeInv, [Next]_vars, ep'.halt < ep.halt
  PROVE  \E u \in UnstallSizes :
           \/ ep.halt # HS_HALTED_ON_CONDITION /\ ClearHalt(u)
           \/ ClassReset(u) \/ SetConfig(u) \/ BusReset(u)
<1>1. /\ Good(ep, toggle) /\ ep \in Endpoint /\ Views(ep) /\ Sound(ep) /\ Packets(ep)
      /\ ep.halt \in 0..3
  BY EndpointParts DEF PipeInv, EndpointInv, TypeOK, Good, Sound
<1>2. ep' \in Endpoint /\ ep'.halt \in 0..3
  <2>1. EndpointInv'
    BY StepGood DEF PipeInv
  <2>2. ep' \in Endpoint
    BY <2>1 DEF EndpointInv, TypeOK
  <2>3. QED BY <2>2, EndpointParts
<1>3. ep.halt # HS_NONE
  BY <1>1, <1>2 DEF HS_NONE
<1>4. ASSUME NEW n \in Sizes, NEW how \in Ways, Start(n, how)
      PROVE  FALSE
  <2> DEFINE g == [ep EXCEPT !.cur = TRUE, !.submit = n, !.handle = n, !.pos = 0,
                             !.outstanding = FALSE, !.queued = FALSE]
  <2>1. ep' = GiveAsMany(g, how)
    BY <1>4 DEF Start, StartTransfer
  <2>2. n \in Nat
    BY MaxPacketsAssumption DEF Sizes
  <2>3. g \in Endpoint /\ SameBuffers(ep, g) /\ ~g.outstanding /\ g.halt = ep.halt
    BY <1>1, <2>2 DEF Endpoint, SameBuffers
  <2> HIDE DEF g
  <2>4. Sound(g)
    BY <1>1, <2>3, SameBuffersSound
  <2>5. ep'.halt = ep.halt
    BY <2>1, <2>3, <2>4, GiveAsManySound
  <2>6. QED BY <1>1, <2>5
<1>5. ASSUME NEW halting \in BOOLEAN, NEW how \in Ways, NEW m \in Follow,
             FinishPacket(halting, how, m)
      PROVE  FALSE
  <2>1. ep' = PacketDone(ep, halting, how, m)
    BY <1>5 DEF FinishPacket
  <2>2. m \in Nat /\ (ep.in => ep.view = NoView)
    BY <1>1, MaxPacketsAssumption DEF Follow, Views
  <2>3. ep'.halt = IF halting THEN Stall(ep, HS_HALTED).halt ELSE ep.halt
    BY <1>1, <1>3, <2>1, <2>2, PacketDoneHalts
  <2>4. Stall(ep, HS_HALTED).halt >= ep.halt
    BY <1>1, StallRaises
  <2>5. QED BY <1>1, <1>2, <2>3, <2>4
<1>6. ASSUME NEW hs \in {HS_HALTED, HS_HALTED_ON_CONDITION}, ep' = Stall(ep, hs)
      PROVE  FALSE
  BY <1>1, <1>2, <1>6, StallRaises
<1>7. ASSUME NEW how, NEW m \in Follow, HandleBuffer(how, m)
      PROVE  FALSE
  <2> DEFINE g == [ep EXCEPT !.done = Tail(@), !.owned = @ + 1]
  <2>1. ep.done # <<>> /\ ~ep.cur
    BY <1>1, <1>3, <1>7 DEF HandleBuffer, Packets
  <2>2. ep' = Stall(g, HS_HALTED)
    BY <1>7, <2>1 DEF HandleBuffer, HandleTransfer
  <2>3. Phase(ep, toggle) /\ toggle \in Bit
    BY <1>1, TogglesIsPhase DEF Good, PipeInv, EndpointInv, TypeOK
  <2>4. g \in Endpoint /\ g.halt = ep.halt
    BY <1>1, <2>1, <2>3, TakeCompletion DEF Sound
  <2> HIDE DEF g
  <2>5. QED BY <1>1, <1>2, <2>2, <2>4, StallRaises
<1>8. ASSUME Transact
      PROVE  FALSE
  BY <1>3, <1>8 DEF Transact, CanComplete
<1>9. ASSUME NEW u \in UnstallSizes, ClearHalt(u)
      PROVE  ep.halt # HS_HALTED_ON_CONDITION
  <2> SUFFICES ASSUME ep.halt = HS_HALTED_ON_CONDITION PROVE FALSE
    OBVIOUS
  <2>1. ep' = [ep EXCEPT !.pid = 0]
    BY <1>9 DEF ClearHalt, HS_HALTED_ON_CONDITION
  <2>2. ep'.halt = ep.halt
    BY <1>1, <2>1 DEF Endpoint
  <2>3. QED BY <1>1, <2>2
<1>10. CASE UNCHANGED vars
  BY <1>1, <1>10 DEF vars
<1>11. CASE Next
  BY <1>4, <1>5, <1>6, <1>7, <1>8, <1>9, <1>11
  DEF Next, Driver, Isr, HostControl, DriverHalt, SetHalt
<1>12. QED BY <1>10, <1>11

(* No driver that goes on giving buffers, and no second halt, undoes a halt
   (_usb_give_buffer clears halt_state, whatever it is). *)
THEOREM HaltsHold ==
  ASSUME Orderly
  PROVE  Spec => HaltEndsByReset
<1> DEFINE A == ep'.halt < ep.halt =>
                  \E u \in UnstallSizes :
                    \/ ep.halt # HS_HALTED_ON_CONDITION /\ ClearHalt(u)
                    \/ ClassReset(u) \/ SetConfig(u) \/ BusReset(u)
<1>1. PipeInv /\ [Next]_vars => [A]_vars
  BY StepKeepsHalt
<1>2. HaltEndsByReset <=> [][A]_vars
  BY DEF HaltEndsByReset
<1> HIDE DEF A
<1>3. QED BY <1>1, <1>2, PipeInvariant, PTL DEF Spec
=============================================================================
