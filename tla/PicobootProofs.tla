---------------------------- MODULE PicobootProofs ----------------------------
(***************************************************************************)
(* PICOBOOT: the interface, the worker and the host keep in phase, for     *)
(* every length of the data phase, every set of tokens and every number of *)
(* commands after which real_token wraps around.  A patient host is        *)
(* assumed: with an impatient one the assertions fail (README).  The       *)
(* lemmas follow the operators of Picoboot, then its actions.              *)
(***************************************************************************)
EXTENDS Picoboot, TLAPS

Patient == Impatient = FALSE

(* The types of the fields, by name. *)
Chunks == 0..MaxChunks
IdType == 0..(Ids - 1)
Users == Tokens \cup {0}
TaskKinds == Kinds \cup {"none"}
OutXfers == {"none", "cmd", "stream", "ack"}
InXfers == {"none", "stream", "ack"}
OutType == [xfer : OutXfers, left : Chunks, busy : BOOLEAN, got : BOOLEAN,
            pos : Chunks, halt : BOOLEAN]
InType == [xfer : InXfers, left : Chunks, busy : BOOLEAN, ready : 0..2, halt : BOOLEAN]
Codes == {"ok", "unknown", "error"}
StatusType == [user : Users, code : Codes, busy : BOOLEAN, rd : BOOLEAN]
BufType == [id : IdType, chunk : Chunks]
Streams == {"none", "in", "out"}
Faults == {"none", "no_transfer", "not_outstanding", "already_running"}
WorkerPhases == {"idle", "taken", "ran"}
Results == {"ok", "error"}
WorkerType == [phase : WorkerPhases, task : Task, result : Results]
Stages == {"idle", "data", "ack", "error"}
HostType == [stage : Stages, kind : Kinds, id : IdType, left : Chunks, size : Chunks,
             excl : BOOLEAN]

LEMMA Bounds ==
  /\ MaxChunks \in Nat /\ MaxChunks >= 1 /\ Ids \in Nat /\ Ids >= 2
  /\ 0 \in Chunks /\ 1 \in Chunks /\ 0 \in IdType /\ 0 \in Users
BY BoundsAssumption DEF Chunks, IdType, Users

LEMMA TaskShape == Task = [id : IdType, user : Users, kind : TaskKinds, chunk : Chunks]
BY Zenon DEF Task, IdType, Users, TaskKinds, Chunks

LEMMA DeviceShape ==
  Device = [out : OutType, in : InType, task : Task, stream : Streams, status : StatusType,
            slot : Task, buf : BufType, disabled : BOOLEAN, rebooting : BOOLEAN,
            fault : Faults]
BY Zenon DEF Device, OutType, InType, Streams, StatusType, BufType, Faults, OutXfers, InXfers,
             Codes, Users, IdType, Chunks

(* What the type of the device says of its fields. *)
LEMMA DeviceParts ==
  ASSUME NEW d \in Device
  PROVE  /\ d.out \in OutType /\ d.in \in InType /\ d.task \in Task /\ d.stream \in Streams
         /\ d.status \in StatusType /\ d.slot \in Task /\ d.buf \in BufType
         /\ d.disabled \in BOOLEAN /\ d.rebooting \in BOOLEAN /\ d.fault \in Faults
BY DeviceShape

LEMMA OutParts ==
  ASSUME NEW o \in OutType
  PROVE  /\ o.xfer \in OutXfers /\ o.left \in Nat /\ o.left <= MaxChunks
         /\ o.busy \in BOOLEAN /\ o.got \in BOOLEAN /\ o.pos \in Nat /\ o.pos <= MaxChunks
         /\ o.halt \in BOOLEAN
BY Bounds DEF OutType, Chunks

LEMMA InParts ==
  ASSUME NEW i \in InType
  PROVE  /\ i.xfer \in InXfers /\ i.left \in Nat /\ i.left <= MaxChunks
         /\ i.busy \in BOOLEAN /\ i.ready \in Nat /\ i.ready <= 2 /\ i.halt \in BOOLEAN
BY Bounds DEF InType, Chunks

LEMMA StatusParts ==
  ASSUME NEW s \in StatusType
  PROVE  s.user \in Users /\ s.code \in Codes /\ s.busy \in BOOLEAN /\ s.rd \in BOOLEAN
BY DEF StatusType

LEMMA TaskParts ==
  ASSUME NEW t \in Task
  PROVE  /\ t.id \in IdType /\ t.user \in Users /\ t.kind \in TaskKinds
         /\ t.chunk \in Nat /\ t.chunk <= MaxChunks
BY TaskShape, Bounds DEF Chunks

LEMMA HostParts ==
  ASSUME NEW h \in HostType
  PROVE  /\ h.stage \in Stages /\ h.kind \in Kinds /\ h.id \in IdType
         /\ h.left \in Nat /\ h.left <= MaxChunks /\ h.size \in Nat /\ h.size <= MaxChunks
         /\ h.excl \in BOOLEAN
BY Bounds DEF HostType, Chunks

(* The forms an idle endpoint takes. *)
LEMMA IdleTypes ==
  /\ OutIdle \in OutType /\ OutDefault \in OutType /\ OutAck \in OutType /\ OutHalted \in OutType
  /\ InIdle \in InType /\ InAck \in InType /\ InHalted \subseteq InType
  /\ NoTask \in Task /\ NoStatus \in StatusType
<1>1. OutIdle \in OutType /\ InIdle \in InType
  BY Bounds DEF OutIdle, InIdle, OutType, InType, OutXfers, InXfers
<1>2. /\ \A x \in OutXfers, l \in Chunks : [OutIdle EXCEPT !.xfer = x, !.left = l] \in OutType
      /\ \A b \in BOOLEAN : [OutIdle EXCEPT !.halt = b] \in OutType
  BY <1>1 DEF OutType
<1>3. /\ \A x \in InXfers, n \in 0..2 : [InIdle EXCEPT !.xfer = x, !.ready = n] \in InType
      /\ \A b \in BOOLEAN, n \in 0..2 : [InIdle EXCEPT !.halt = b, !.ready = n] \in InType
  BY <1>1 DEF InType
<1>4. NoTask \in Task /\ NoStatus \in StatusType
  BY TaskShape, Bounds DEF NoTask, NoStatus, TaskKinds, StatusType, Codes
<1>5. "cmd" \in OutXfers /\ "ack" \in OutXfers /\ "ack" \in InXfers /\ 1 \in 0..2
  BY DEF OutXfers, InXfers
<1>6. OutDefault \in OutType /\ OutAck \in OutType /\ OutHalted \in OutType
  BY <1>2, <1>5, Bounds DEF OutDefault, OutAck, OutHalted
<1>7. InAck \in InType /\ InHalted \subseteq InType
  BY <1>3, <1>5 DEF InAck, InHalted
<1>8. QED BY <1>1, <1>4, <1>6, <1>7

(* The fields of these forms. *)
LEMMA IdleFields ==
  /\ OutIdle.xfer = "none" /\ ~OutIdle.halt /\ OutIdle.left = 0
  /\ OutDefault.xfer = "cmd" /\ ~OutDefault.halt
  /\ OutAck.xfer = "ack" /\ ~OutAck.halt
  /\ OutHalted.xfer = "none" /\ OutHalted.halt
  /\ InIdle.xfer = "none" /\ ~InIdle.halt /\ ~InIdle.busy /\ InIdle.left = 0 /\ InIdle.ready = 0
  /\ InAck.xfer = "ack" /\ ~InAck.halt /\ ~InAck.busy /\ InAck.left = 0 /\ InAck.ready = 1
  /\ \A i \in InHalted : i.xfer = "none" /\ i.halt
BY DEF OutIdle, OutDefault, OutAck, OutHalted, InIdle, InAck, InHalted

-----------------------------------------------------------------------------
(* What the transfer code leaves alone, on an endpoint that works. *)
Aside(d, e) ==
  /\ e.task = d.task /\ e.stream = d.stream /\ e.disabled = d.disabled
  /\ e.rebooting = d.rebooting /\ e.fault = d.fault
  /\ e.status.code = d.status.code /\ e.status.rd = d.status.rd

(* The queue takes the current task. *)
LEMMA Queued ==
  ASSUME NEW d \in Device
  PROVE  /\ QueueTask(d) \in Device /\ Aside(d, QueueTask(d))
         /\ QueueTask(d).slot = d.task /\ QueueTask(d).out = d.out /\ QueueTask(d).in = d.in
         /\ QueueTask(d).status = d.status /\ QueueTask(d).buf = d.buf
<1>1. d.task \in Task
  BY DeviceParts
<1>2. QED BY <1>1, DeviceShape DEF QueueTask, Aside

AcknowledgedIn(d, e) ==
  /\ e \in Device /\ Aside(d, e) /\ e.slot = d.slot /\ e.buf = d.buf /\ ~e.status.busy
  /\ e.out = (IF d.status.rd THEN OutAck ELSE OutIdle)
  /\ e.in = (IF d.status.rd THEN InIdle ELSE InAck)

(* The acknowledgement goes out on endpoints that are both idle. *)
LEMMA Acknowledged ==
  ASSUME NEW d \in Device, d.in = InIdle, d.out = OutIdle
  PROVE  AcknowledgedIn(d, Ack(d))
<1> DEFINE u == [d.status EXCEPT !.busy = FALSE]
<1> DEFINE s == [d EXCEPT !.status = u]
<1>1. u \in StatusType /\ u.code = d.status.code /\ u.rd = d.status.rd /\ ~u.busy
  BY DeviceParts DEF StatusType
<1>2. [d EXCEPT !.status.busy = FALSE] = s
  BY DeviceShape
<1> HIDE DEF u
<1>3. /\ s \in Device /\ Aside(d, s) /\ s.slot = d.slot /\ s.buf = d.buf /\ s.status = u
      /\ s.out = OutIdle /\ s.in = InIdle
  BY <1>1, DeviceShape DEF Aside
<1> HIDE DEF s
<1>4. d.out.xfer = "none" /\ d.in.xfer = "none" /\ ~d.in.halt /\ s.in.ready = 0
  BY <1>3, IdleFields
<1>5. CASE d.status.rd
  <2> DEFINE e == [s EXCEPT !.out = OutAck]
  <2>1. Ack(d) = [s EXCEPT !.out.xfer = "ack", !.out.left = 1]
    BY <1>2, <1>4, <1>5 DEF Ack
  <2>2. [s EXCEPT !.out.xfer = "ack", !.out.left = 1]
          = [s EXCEPT !.out = [s.out EXCEPT !.xfer = "ack", !.left = 1]]
    BY <1>3, DeviceShape
  <2>3. Ack(d) = e
    BY <1>3, <2>1, <2>2 DEF OutAck
  <2>4. /\ e \in Device /\ Aside(s, e) /\ e.slot = s.slot /\ e.buf = s.buf
        /\ e.status = s.status /\ e.out = OutAck /\ e.in = s.in
    BY <1>3, IdleTypes, DeviceShape DEF Aside
  <2> HIDE DEF e
  <2>5. QED BY <1>1, <1>3, <1>5, <2>3, <2>4 DEF AcknowledgedIn, Aside
<1>6. CASE ~d.status.rd
  <2> DEFINE e == [s EXCEPT !.in = InAck]
  <2>1. Ack(d) = [s EXCEPT !.in.xfer = "ack", !.in.ready = @ + 1]
    BY <1>2, <1>4, <1>6 DEF Ack
  <2>2. [s EXCEPT !.in.xfer = "ack", !.in.ready = @ + 1]
          = [s EXCEPT !.in = [s.in EXCEPT !.xfer = "ack", !.ready = @ + 1]]
    BY <1>3, DeviceShape
  <2>3. [InIdle EXCEPT !.xfer = "ack", !.ready = @ + 1] = InAck
    BY DEF InIdle, InAck
  <2>4. Ack(d) = e
    BY <1>3, <2>1, <2>2, <2>3
  <2>5. /\ e \in Device /\ Aside(s, e) /\ e.slot = s.slot /\ e.buf = s.buf
        /\ e.status = s.status /\ e.in = InAck /\ e.out = s.out
    BY <1>3, IdleTypes, DeviceShape DEF Aside
  <2> HIDE DEF e
  <2>6. QED BY <1>1, <1>3, <1>6, <2>4, <2>5 DEF AcknowledgedIn, Aside
<1>7. QED BY <1>5, <1>6

(* A READ's next packet is left outstanding if there is room for it. *)
Fillable(d) == d.in.xfer = "stream" /\ d.in.left > 0 /\ d.in.ready < 2 /\ ~d.in.halt /\ ~d.in.busy

FilledIn(d, e) ==
  /\ e \in Device /\ Aside(d, e) /\ e.out = d.out /\ e.status = d.status /\ e.buf = d.buf
  /\ IF Fillable(d) THEN e.slot = d.task /\ e.in = [d.in EXCEPT !.busy = TRUE]
     ELSE e.slot = d.slot /\ e.in = d.in

LEMMA Filled ==
  ASSUME NEW d \in Device
  PROVE  FilledIn(d, FillIn(d))
<1>1. CASE Fillable(d)
  <2> DEFINE i == [d.in EXCEPT !.busy = TRUE]
  <2> DEFINE b == [d EXCEPT !.in = i]
  <2>1. FillIn(d) = QueueTask([d EXCEPT !.in.busy = TRUE])
    BY <1>1 DEF FillIn, Fillable
  <2>2. [d EXCEPT !.in.busy = TRUE] = b
    BY DeviceShape
  <2>3. i \in InType
    BY DeviceParts DEF InType
  <2> HIDE DEF i
  <2>4. /\ b \in Device /\ Aside(d, b) /\ b.in = i /\ b.out = d.out /\ b.status = d.status
        /\ b.buf = d.buf
    BY <2>3, DeviceShape DEF Aside
  <2> HIDE DEF b
  <2>5. /\ FillIn(d) \in Device /\ Aside(b, FillIn(d)) /\ FillIn(d).slot = b.task
        /\ FillIn(d).in = i /\ FillIn(d).out = b.out /\ FillIn(d).status = b.status
        /\ FillIn(d).buf = b.buf
    BY <2>1, <2>2, <2>4, Queued
  <2>6. FillIn(d).in = [d.in EXCEPT !.busy = TRUE]
    BY <2>5 DEF i
  <2>7. QED BY <1>1, <2>4, <2>5, <2>6 DEF FilledIn, Aside
<1>2. CASE ~Fillable(d)
  BY <1>2 DEF FillIn, FilledIn, Fillable, Aside
<1>3. QED BY <1>1, <1>2

ChunkIn(d, e) ==
  /\ e \in Device /\ Aside(d, e) /\ e.in = d.in /\ e.status = d.status /\ e.slot = d.task
  /\ e.buf = [id |-> d.task.id, chunk |-> d.out.pos]
  /\ e.out = [d.out EXCEPT !.busy = TRUE, !.left = @ - 1, !.pos = @ + 1]

LEMMA ChunkFields ==
  ASSUME NEW o \in OutType, NEW p,
         p = [o EXCEPT !.busy = TRUE, !.left = @ - 1, !.pos = @ + 1]
  PROVE  /\ p.left = o.left - 1 /\ p.pos = o.pos + 1 /\ p.busy
         /\ p.xfer = o.xfer /\ p.halt = o.halt /\ p.got = o.got
BY DEF OutType

(* A chunk of a WRITE goes to the worker. *)
LEMMA ChunkQueued ==
  ASSUME NEW d \in Device, d.out.left > 0, d.out.pos + d.out.left <= MaxChunks
  PROVE  ChunkIn(d, OutChunk(d))
<1> DEFINE o == [d.out EXCEPT !.busy = TRUE, !.left = @ - 1, !.pos = @ + 1]
<1> DEFINE f == [id |-> d.task.id, chunk |-> d.out.pos]
<1> DEFINE b == [d EXCEPT !.out = o, !.buf = f]
<1>1. OutChunk(d) = QueueTask([d EXCEPT !.out.busy = TRUE, !.out.left = @ - 1,
                                       !.out.pos = @ + 1, !.buf = f])
  BY DEF OutChunk
<1>2. [d EXCEPT !.out.busy = TRUE, !.out.left = @ - 1, !.out.pos = @ + 1, !.buf = f] = b
  BY DeviceShape
<1>3. d.out \in OutType /\ d.task.id \in IdType /\ d.out.left \in Nat /\ d.out.pos \in Nat
  BY DeviceParts, OutParts, TaskParts
<1>4. d.out.left - 1 \in Chunks /\ d.out.pos + 1 \in Chunks /\ d.out.pos \in Chunks
  BY <1>3, Bounds DEF Chunks
<1>5. o \in OutType
  BY <1>3, <1>4 DEF OutType
<1>6. f \in BufType
  BY <1>3, <1>4 DEF BufType
<1> HIDE DEF o, f
<1>7. b \in Device /\ Aside(d, b) /\ b.in = d.in /\ b.out = o /\ b.buf = f /\ b.status = d.status
  BY <1>5, <1>6, DeviceShape DEF Aside
<1> HIDE DEF b
<1>8. /\ OutChunk(d) \in Device /\ Aside(b, OutChunk(d)) /\ OutChunk(d).slot = b.task
      /\ OutChunk(d).in = b.in /\ OutChunk(d).out = b.out /\ OutChunk(d).status = b.status
      /\ OutChunk(d).buf = b.buf
  BY <1>1, <1>2, <1>7, Queued
<1>9. QED BY <1>7, <1>8 DEF ChunkIn, Aside, o, f

(* What becomes of a chunk's result, before its packet is done. *)
ResultIn(d, e, result) ==
  /\ e \in Device /\ e.slot = d.slot /\ e.buf = d.buf /\ e.disabled = d.disabled
  /\ e.rebooting = d.rebooting /\ e.fault = d.fault /\ e.stream = d.stream
  /\ e.task = [d.task EXCEPT !.chunk = @ + 1]
  /\ e.status = [d.status EXCEPT !.code = result, !.busy = @ /\ result = "ok"]
  /\ e.in = (IF result # "ok" /\ d.stream = "in" THEN [d.in EXCEPT !.halt = TRUE] ELSE d.in)
  /\ e.out = (IF result # "ok" /\ d.stream = "out" THEN [d.out EXCEPT !.halt = TRUE] ELSE d.out)

LEMMA ResultTaken ==
  ASSUME NEW d \in Device, NEW result \in Results, d.task.chunk < MaxChunks
  PROVE  ResultIn(d, ChunkResult(d, result), result)
<1> DEFINE s == [d.status EXCEPT !.code = result, !.busy = @ /\ result = "ok"]
<1> DEFINE i == IF result # "ok" /\ d.stream = "in" THEN [d.in EXCEPT !.halt = TRUE] ELSE d.in
<1> DEFINE o == IF result # "ok" /\ d.stream = "out" THEN [d.out EXCEPT !.halt = TRUE] ELSE d.out
<1> DEFINE t == [d.task EXCEPT !.chunk = @ + 1]
<1> DEFINE e == [d EXCEPT !.status = s, !.in = i, !.out = o, !.task = t]
<1>1. /\ d.in \in InType /\ d.out \in OutType /\ d.task \in Task /\ d.status \in StatusType
      /\ d.task.chunk \in Nat /\ d.status.busy \in BOOLEAN
      /\ d.in.halt \in BOOLEAN /\ d.out.halt \in BOOLEAN
  BY DeviceParts, OutParts, InParts, StatusParts, TaskParts
<1>2. i = [d.in EXCEPT !.halt = @ \/ (result # "ok" /\ d.stream = "in")]
  <2>1. CASE result # "ok" /\ d.stream = "in"
    BY <2>1
  <2>2. CASE ~(result # "ok" /\ d.stream = "in")
    <3>1. [d.in EXCEPT !.halt = @ \/ (result # "ok" /\ d.stream = "in")] = [d.in EXCEPT !.halt = @]
      BY <1>1, <2>2
    <3>2. [d.in EXCEPT !.halt = @] = d.in
      BY <1>1 DEF InType
    <3>3. QED BY <2>2, <3>1, <3>2
  <2>3. QED BY <2>1, <2>2
<1>3. o = [d.out EXCEPT !.halt = @ \/ (result # "ok" /\ d.stream = "out")]
  <2>1. CASE result # "ok" /\ d.stream = "out"
    BY <2>1
  <2>2. CASE ~(result # "ok" /\ d.stream = "out")
    <3>1. [d.out EXCEPT !.halt = @ \/ (result # "ok" /\ d.stream = "out")]
            = [d.out EXCEPT !.halt = @]
      BY <1>1, <2>2
    <3>2. [d.out EXCEPT !.halt = @] = d.out
      BY <1>1 DEF OutType
    <3>3. QED BY <2>2, <3>1, <3>2
  <2>3. QED BY <2>1, <2>2
<1>4. t = [d.task EXCEPT !.chunk = IF @ < MaxChunks THEN @ + 1 ELSE @]
  OBVIOUS
<1>5. ChunkResult(d, result) = e
  <2>1. ChunkResult(d, result)
          = [d EXCEPT !.status = s,
                      !.in = [d.in EXCEPT !.halt = @ \/ (result # "ok" /\ d.stream = "in")],
                      !.out = [d.out EXCEPT !.halt = @ \/ (result # "ok" /\ d.stream = "out")],
                      !.task = [d.task EXCEPT !.chunk = IF @ < MaxChunks THEN @ + 1 ELSE @]]
    BY DeviceShape DEF ChunkResult
  <2> HIDE DEF s, i, o, t
  <2>2. QED BY <1>2, <1>3, <1>4, <2>1
<1>6. i \in InType /\ o \in OutType
  BY <1>1 DEF InType, OutType
<1>7. t \in Task
  BY <1>1, Bounds, TaskShape DEF Chunks
<1>8. s \in StatusType
  BY <1>1 DEF StatusType, Results, Codes
<1> HIDE DEF s, i, o, t
<1>9. /\ e \in Device /\ e.slot = d.slot /\ e.buf = d.buf /\ e.disabled = d.disabled
      /\ e.rebooting = d.rebooting /\ e.fault = d.fault /\ e.stream = d.stream
      /\ e.task = t /\ e.status = s /\ e.in = i /\ e.out = o
  BY <1>6, <1>7, <1>8, DeviceShape
<1> HIDE DEF e
<1>10. QED BY <1>5, <1>9 DEF ResultIn, s, i, o, t

-----------------------------------------------------------------------------
LEMMA InvParts ==
  ASSUME PicobootInv
  PROVE  /\ dev \in Device /\ worker \in WorkerType /\ host \in HostType
         /\ dev.fault = "none" /\ Phases(dev, worker, host)
BY DEF PicobootInv, TypeOK, AssertsHold, WorkerType, HostType, WorkerPhases, Results, Stages,
       IdType, Chunks

LEMMA Concluded ==
  ASSUME dev' \in Device, worker' \in WorkerType, host' \in HostType,
         dev'.fault = "none", Phases(dev', worker', host')
  PROVE  PicobootInv'
BY DEF PicobootInv, TypeOK, AssertsHold, WorkerType, HostType, WorkerPhases, Results, Stages,
       IdType, Chunks

(* The command is the one that the device has in hand. *)
SameCommand(d, h) ==
  d.task.id = h.id /\ d.task.kind = h.kind /\ d.status.rd = (h.kind = "read")

(* The worker has something to do only within a command. *)
AtWork(d, w, h) ==
  /\ h.stage \in {"data", "ack"} /\ SameCommand(d, h) /\ Pending(d, w)
  /\ \/ Acting(d, w, h)
     \/ Writing(d, w, h) /\ d.out.busy
     \/ Reading(d, w, h) /\ d.in.busy

LEMMA WorkInCommand ==
  ASSUME NEW d, NEW w, NEW h \in HostType, Phases(d, w, h), ~Quiet(d, w)
  PROVE  AtWork(d, w, h)
<1>1. h.stage \in {"data", "ack"}
  BY HostParts DEF Phases, Ready, Errored, Stages
<1>2. InCommand(d, w, h)
  BY <1>1 DEF Phases
<1>3. Acting(d, w, h) \/ Writing(d, w, h) \/ Reading(d, w, h)
  BY <1>2 DEF InCommand, Refused, Failed, Acked
<1>4. /\ Writing(d, w, h) => d.out.busy
      /\ Reading(d, w, h) => d.in.busy
  BY DEF Writing, Reading
<1>5. Pending(d, w)
  BY <1>3, <1>4 DEF Acting, Writing, Reading
<1>6. QED BY <1>1, <1>2, <1>3, <1>4, <1>5 DEF AtWork, InCommand, SameCommand

LEMMA WorkerParts ==
  ASSUME NEW w \in WorkerType
  PROVE  w.phase \in WorkerPhases /\ w.task \in Task /\ w.result \in Results
BY DEF WorkerType

(* async_task_worker takes the task from the queue. *)
LEMMA DequeueKeeps ==
  ASSUME PicobootInv, Dequeue
  PROVE  PicobootInv'
<1>1. /\ dev \in Device /\ worker \in WorkerType /\ host \in HostType
      /\ dev.fault = "none" /\ Phases(dev, worker, host)
  BY InvParts
<1>2. AtWork(dev, worker, host)
  BY <1>1, WorkInCommand DEF Dequeue, Quiet
<1>3. /\ worker.phase = "idle" /\ dev.slot = dev.task /\ host' = host
      /\ worker' = [worker EXCEPT !.phase = "taken", !.task = dev.slot]
      /\ dev' = [dev EXCEPT !.slot = NoTask]
  BY <1>2 DEF Dequeue, AtWork, Pending
<1>4. /\ worker' \in WorkerType /\ worker'.phase = "taken" /\ worker'.task = dev.task
      /\ worker'.result = worker.result
  <2>1. \A p \in WorkerPhases, t \in Task : [worker EXCEPT !.phase = p, !.task = t] \in WorkerType
    BY <1>1 DEF WorkerType
  <2>2. "taken" \in WorkerPhases /\ dev.slot \in Task
    BY <1>1, DeviceParts DEF WorkerPhases
  <2>3. worker' \in WorkerType
    BY <1>3, <2>1, <2>2
  <2>4. QED BY <1>1, <1>3, <2>3 DEF WorkerType
<1>5. /\ dev' \in Device /\ Aside(dev, dev') /\ dev'.slot = NoTask /\ dev'.out = dev.out
      /\ dev'.in = dev.in /\ dev'.status = dev.status /\ dev'.buf = dev.buf
  BY <1>1, <1>3, IdleTypes, DeviceShape DEF Aside
<1>6. Pending(dev', worker')
  BY <1>4, <1>5 DEF Pending, Aside
<1>7. Acting(dev, worker, host) => Acting(dev', worker', host)
  BY <1>4, <1>5, <1>6 DEF Acting, Aside
<1>8. Writing(dev, worker, host) /\ dev.out.busy => Writing(dev', worker', host)
  BY <1>5, <1>6 DEF Writing, Aside
<1>9. Reading(dev, worker, host) /\ dev.in.busy => Reading(dev', worker', host)
  <2>1. Reading(dev, worker, host) /\ dev.in.busy => dev.in.left > 0
    BY DEF Reading
  <2>2. dev.in.left \in Nat
    BY <1>1, DeviceParts, InParts
  <2>3. QED BY <1>4, <1>5, <1>6, <2>1, <2>2 DEF Reading, Aside
<1>10. InCommand(dev', worker', host)
  BY <1>2, <1>5, <1>7, <1>8, <1>9 DEF AtWork, SameCommand, InCommand, Aside
<1>11. Phases(dev', worker', host')
  BY <1>1, <1>2, <1>3, <1>5, <1>10 DEF Phases, AtWork, Aside
<1>12. QED BY <1>1, <1>3, <1>4, <1>5, <1>11, Concluded DEF Aside

(* The worker has executed the task, or refused it. *)
LEMMA ExecuteKeeps ==
  ASSUME PicobootInv, NEW result \in Results, Execute(result)
  PROVE  PicobootInv'
<1> DEFINE t == worker.task
<1> DEFINE taken == IF t.kind = "exclusive" THEN TRUE
                    ELSE IF t.kind = "release" THEN FALSE ELSE dev.disabled
<1> DEFINE b == IF t.kind = "read" THEN [id |-> t.id, chunk |-> t.chunk] ELSE dev.buf
<1>1. /\ dev \in Device /\ worker \in WorkerType /\ host \in HostType
      /\ dev.fault = "none" /\ Phases(dev, worker, host)
  BY InvParts
<1>2. AtWork(dev, worker, host)
  BY <1>1, WorkInCommand DEF Execute, Quiet
<1>3. /\ worker.phase = "taken" /\ t = dev.task /\ dev.slot = NoTask /\ host' = host
      /\ worker' = [worker EXCEPT !.phase = "ran", !.result = result]
      /\ dev' = IF result = "error" THEN dev ELSE [dev EXCEPT !.disabled = taken, !.buf = b]
      /\ result = "error" => dev.rebooting \/ t.kind \in DataKinds \cup {"act"}
  BY <1>2 DEF Execute, AtWork, Pending
<1>4. /\ worker' \in WorkerType /\ worker'.phase = "ran" /\ worker'.task = dev.task
      /\ worker'.result = result
  <2>1. \A p \in WorkerPhases : [worker EXCEPT !.phase = p, !.result = result] \in WorkerType
    BY <1>1 DEF WorkerType
  <2>2. "ran" \in WorkerPhases
    BY DEF WorkerPhases
  <2>3. worker' \in WorkerType
    BY <1>3, <2>1, <2>2
  <2>4. QED BY <1>1, <1>3, <2>3 DEF WorkerType
<1>5. /\ dev' \in Device /\ dev'.slot = NoTask /\ dev'.out = dev.out /\ dev'.in = dev.in
      /\ dev'.status = dev.status /\ dev'.task = dev.task /\ dev'.stream = dev.stream
      /\ dev'.rebooting = dev.rebooting /\ dev'.fault = dev.fault
      /\ dev'.disabled = (IF result = "error" THEN dev.disabled ELSE taken)
      /\ dev'.buf = (IF result = "error" THEN dev.buf ELSE b)
  <2>1. t \in Task /\ dev.buf \in BufType /\ dev.disabled \in BOOLEAN
    BY <1>1, WorkerParts, DeviceParts
  <2>2. b \in BufType
    BY <2>1, TaskParts DEF BufType, Chunks, IdType
  <2>3. taken \in BOOLEAN
    BY <2>1
  <2> HIDE DEF taken, b
  <2>4. QED BY <1>1, <1>3, <2>2, <2>3, DeviceShape
<1>6. Pending(dev', worker')
  BY <1>4, <1>5 DEF Pending
<1>7. host.kind = t.kind
  BY <1>2, <1>3 DEF AtWork, SameCommand
<1>8. Acting(dev, worker, host) => Acting(dev', worker', host)
  <2>1. host.kind = "release" /\ ~dev.rebooting => dev'.disabled = FALSE
    BY <1>3, <1>5, <1>7 DEF DataKinds, Results
  <2>2. QED BY <1>4, <1>5, <1>6, <2>1 DEF Acting
<1>9. Writing(dev, worker, host) /\ dev.out.busy => Writing(dev', worker', host)
  <2>1. host.kind = "write" => dev'.buf = dev.buf
    BY <1>5, <1>7
  <2>2. QED BY <1>5, <1>6, <2>1 DEF Writing
<1>10. Reading(dev, worker, host) /\ dev.in.busy => Reading(dev', worker', host)
  <2>1. Reading(dev, worker, host) /\ dev.in.busy => dev.in.left > 0
    BY DEF Reading
  <2>2. dev.in.left \in Nat
    BY <1>1, DeviceParts, InParts
  <2>3. host.kind = "read" /\ result = "ok" =>
          dev'.buf = [id |-> dev'.task.id, chunk |-> dev'.task.chunk]
    BY <1>3, <1>5, <1>7
  <2>4. QED BY <1>4, <1>5, <1>6, <2>1, <2>2, <2>3 DEF Reading
<1>11. InCommand(dev', worker', host)
  BY <1>2, <1>5, <1>8, <1>9, <1>10 DEF AtWork, SameCommand, InCommand
<1>12. dev'.disabled /\ ~dev'.rebooting => host.excl
  <2>1. host.kind = "exclusive" => host.excl
    BY <1>2 DEF AtWork, Acting, Writing, Reading
  <2>2. dev.disabled /\ ~dev.rebooting => host.excl
    BY <1>1 DEF Phases
  <2>3. QED BY <1>5, <1>7, <2>1, <2>2
<1>13. Phases(dev', worker', host')
  BY <1>2, <1>3, <1>11, <1>12 DEF Phases, AtWork
<1>14. QED BY <1>1, <1>3, <1>4, <1>5, <1>13, Concluded

-----------------------------------------------------------------------------
(* The device and the worker after the step are in a phase of the command. *)
Steps(d, e, v, h) ==
  /\ e \in Device /\ e.fault = "none" /\ e.disabled = d.disabled /\ e.rebooting = d.rebooting
  /\ InCommand(e, v, h)

LEMMA ActDone ==
  ASSUME NEW d \in Device, NEW w \in WorkerType, NEW h \in HostType, NEW v \in WorkerType,
         d.fault = "none", AtWork(d, w, h), Acting(d, w, h), w.phase = "ran",
         v = [w EXCEPT !.phase = "idle"]
  PROVE  Steps(d, Callback(d, w.task, w.result), v, h)
<1> DEFINE e == Callback(d, w.task, w.result)
<1>1. /\ w.task = d.task /\ d.slot = NoTask /\ d.in = InIdle /\ d.out = OutIdle
      /\ SameCommand(d, h) /\ h.kind \in {"act", "exclusive", "release"} /\ h.stage = "ack"
      /\ d.task.chunk = 0 /\ h.size = 1
      /\ h.kind = "release" /\ ~d.rebooting => ~d.disabled
  BY DEF AtWork, Acting, Pending
<1>2. w.task.kind \notin DataKinds
  BY <1>1 DEF SameCommand, DataKinds
<1>3. e = Ack(d)
  BY <1>1, <1>2 DEF Callback, AtcAck, IsCurrent
<1> HIDE DEF e
<1>4. AcknowledgedIn(d, e)
  BY <1>1, <1>3, Acknowledged
<1>5. v.phase = "idle" /\ v.task = d.task /\ v.result = w.result
  BY <1>1 DEF WorkerType
<1>6. Worked(e, v, h)
  BY <1>1, <1>2, <1>5 DEF Worked, SameCommand
<1>7. Acked(e, v, h)
  BY <1>1, <1>4, <1>5, <1>6 DEF Acked, Quiet, AcknowledgedIn, Aside, SameCommand
<1>8. QED BY <1>1, <1>4, <1>7 DEF Steps, InCommand, AcknowledgedIn, Aside, SameCommand, e

LEMMA ChunkWritten ==
  ASSUME NEW d \in Device, NEW w \in WorkerType, NEW h \in HostType, NEW v \in WorkerType,
         d.fault = "none", AtWork(d, w, h), Writing(d, w, h), d.out.busy, w.phase = "ran",
         v = [w EXCEPT !.phase = "idle"]
  PROVE  Steps(d, Callback(d, w.task, w.result), v, h)
<1> DEFINE e == Callback(d, w.task, w.result)
<1> DEFINE r == ChunkResult(d, w.result)
<1>1. /\ w.task = d.task /\ d.slot = NoTask /\ d.in = InIdle /\ d.stream = "out"
      /\ SameCommand(d, h) /\ h.kind = "write" /\ d.status.busy /\ d.status.code = "ok"
      /\ d.out.xfer = "stream" /\ ~d.out.halt /\ d.task.chunk + 1 = d.out.pos
      /\ d.out.pos + d.out.left = h.size
      /\ h.left = (IF d.out.got THEN d.out.left - 1 ELSE d.out.left)
      /\ h.stage = (IF h.left > 0 THEN "data" ELSE "ack")
  BY DEF AtWork, Writing, Pending
<1>2. /\ d.out \in OutType /\ d.out.left \in Nat /\ d.out.pos \in Nat /\ d.task.chunk \in Nat
      /\ h.left \in Nat /\ h.size \in Nat /\ h.size <= MaxChunks /\ d.task \in Task
      /\ d.status \in StatusType /\ w.result \in Results /\ d.out.got \in BOOLEAN
  BY DeviceParts, OutParts, TaskParts, HostParts, WorkerParts
<1>3. d.task.chunk < MaxChunks
  BY <1>1, <1>2, Bounds
<1>4. ResultIn(d, r, w.result)
  BY <1>2, <1>3, ResultTaken
<1>5. e = OutPacketDone(r)
  BY <1>1 DEF Callback, AtcChunkTaskDone, IsCurrent, DataKinds, SameCommand
<1>6. v.phase = "idle" /\ v.task = d.task /\ v.result = w.result
  BY <1>1 DEF WorkerType
<1> HIDE DEF r, e
<1>7. /\ r \in Device /\ r.task = [d.task EXCEPT !.chunk = @ + 1] /\ r.fault = "none"
      /\ r.stream = "out" /\ r.slot = NoTask /\ r.disabled = d.disabled
      /\ r.rebooting = d.rebooting /\ r.in = InIdle
      /\ r.status = [d.status EXCEPT !.code = w.result, !.busy = @ /\ w.result = "ok"]
      /\ r.out = (IF w.result # "ok" THEN [d.out EXCEPT !.halt = TRUE] ELSE d.out)
  BY <1>1, <1>4 DEF ResultIn
<1>8. /\ r.task.chunk = d.task.chunk + 1 /\ r.task.id = d.task.id /\ r.task.kind = d.task.kind
  BY <1>2, <1>7, TaskShape
<1>9. /\ r.status.rd = d.status.rd /\ r.status.code = w.result
      /\ r.status.busy <=> d.status.busy /\ w.result = "ok"
  BY <1>2, <1>7 DEF StatusType
<1>10. SameCommand(r, h) /\ r.out.xfer = "stream" /\ r.out.busy
  BY <1>1, <1>2, <1>7, <1>8, <1>9 DEF SameCommand, OutType
<1>11. CASE w.result # "ok"
  <2> DEFINE f == [r EXCEPT !.out = OutHalted]
  <2>1. r.out.halt
    BY <1>2, <1>7, <1>11 DEF OutType
  <2>2. e = f
    BY <1>5, <1>10, <2>1 DEF OutPacketDone, OutHalted
  <2>3. /\ f \in Device /\ Aside(r, f) /\ f.slot = r.slot /\ f.status = r.status /\ f.in = r.in
        /\ f.out = OutHalted
    BY <1>7, IdleTypes, DeviceShape DEF Aside
  <2> HIDE DEF f
  <2>4. w.result = "error"
    BY <1>2, <1>11 DEF Results
  <2>5. Failed(e, v, h)
    <3>1. ~e.status.busy /\ e.status.code = "error"
      BY <1>9, <1>11, <2>2, <2>3, <2>4
    <3>2. e.out = OutHalted /\ e.in = InIdle /\ e.slot = NoTask /\ v.phase = "idle"
      BY <1>6, <1>7, <2>2, <2>3
    <3>3. h.stage \in {"data", "ack"}
      BY <1>1
    <3>4. QED BY <1>1, <3>1, <3>2, <3>3 DEF Failed, Quiet
  <2>6. QED BY <1>7, <1>10, <2>2, <2>3, <2>5 DEF Steps, InCommand, SameCommand, Aside, e
<1>12. CASE w.result = "ok"
  <2>1. r.out = d.out /\ r.status.busy /\ r.status.code = "ok"
    BY <1>1, <1>7, <1>9, <1>12
  <2>2. CASE d.out.left = 0
    <3> DEFINE c == [r EXCEPT !.out = OutIdle]
    <3>1. e = Ack(c)
      BY <1>1, <1>5, <1>10, <2>1, <2>2 DEF OutPacketDone, OnComplete
    <3>2. /\ c \in Device /\ Aside(r, c) /\ c.slot = r.slot /\ c.in = InIdle /\ c.out = OutIdle
          /\ c.status = r.status
      BY <1>7, IdleTypes, DeviceShape DEF Aside
    <3> HIDE DEF c
    <3>3. AcknowledgedIn(c, e)
      BY <3>1, <3>2, Acknowledged
    <3>4. h.stage = "ack"
      BY <1>1, <1>2, <2>2
    <3>5. Worked(e, v, h)
      <4>1. d.task.chunk = h.size - 1
        BY <1>1, <1>2, <2>2
      <4>2. e.status.code = "ok"
        BY <2>1, <3>2, <3>3 DEF AcknowledgedIn, Aside
      <4>3. QED BY <1>1, <1>6, <1>12, <4>1, <4>2 DEF Worked, SameCommand
    <3>6. SameCommand(e, h)
      BY <1>10, <3>2, <3>3 DEF SameCommand, AcknowledgedIn, Aside
    <3>7. Acked(e, v, h)
      <4>1. ~c.status.rd
        BY <1>1, <1>9, <3>2 DEF SameCommand
      <4>2. e.out = OutIdle /\ e.in = InAck /\ e.slot = NoTask /\ ~e.status.busy
        BY <1>7, <3>2, <3>3, <4>1 DEF AcknowledgedIn
      <4>3. QED BY <1>1, <1>6, <3>4, <3>5, <4>2 DEF Acked, Quiet
    <3>8. QED BY <1>7, <3>2, <3>3, <3>6, <3>7
                 DEF Steps, InCommand, AcknowledgedIn, Aside, SameCommand, e
  <2>3. CASE d.out.left # 0 /\ d.out.got
    <3> DEFINE o == [d.out EXCEPT !.got = FALSE]
    <3> DEFINE c == [r EXCEPT !.out = o]
    <3>1. e = OutChunk(c)
      <4>1. [r EXCEPT !.out.got = FALSE] = [r EXCEPT !.out = [r.out EXCEPT !.got = FALSE]]
        BY <1>7, DeviceShape
      <4>2. QED BY <1>1, <1>5, <1>10, <2>1, <2>3, <4>1 DEF OutPacketDone
    <3>2. /\ o \in OutType /\ o.left = d.out.left /\ o.pos = d.out.pos /\ o.xfer = "stream"
          /\ ~o.halt /\ ~o.got /\ o.busy
      BY <1>1, <1>2 DEF OutType
    <3> HIDE DEF o
    <3>3. /\ c \in Device /\ Aside(r, c) /\ c.in = InIdle /\ c.out = o /\ c.status = r.status
      BY <1>7, <3>2, DeviceShape DEF Aside
    <3> HIDE DEF c
    <3>4. c.out.left > 0 /\ c.out.pos + c.out.left <= MaxChunks
      BY <1>1, <1>2, <2>3, <3>2, <3>3
    <3>5. ChunkIn(c, e)
      BY <3>1, <3>3, <3>4, ChunkQueued
    <3>6. e.out = [o EXCEPT !.busy = TRUE, !.left = @ - 1, !.pos = @ + 1]
      BY <3>3, <3>5 DEF ChunkIn
    <3>7. /\ e.out.left = d.out.left - 1 /\ e.out.pos = d.out.pos + 1 /\ e.out.xfer = "stream"
          /\ ~e.out.halt /\ ~e.out.got /\ e.out.busy
      <4>1. /\ e.out.left = o.left - 1 /\ e.out.pos = o.pos + 1 /\ e.out.busy
            /\ e.out.xfer = o.xfer /\ e.out.halt = o.halt /\ e.out.got = o.got
        BY <3>2, <3>6, ChunkFields
      <4>2. QED BY <3>2, <4>1
    <3>8. /\ SameCommand(e, h) /\ e.task = r.task /\ e.slot = e.task /\ e.status = r.status
          /\ e.in = InIdle /\ e.stream = "out"
          /\ e.buf = [id |-> e.task.id, chunk |-> d.out.pos]
      BY <1>7, <1>10, <3>2, <3>3, <3>5 DEF ChunkIn, Aside, SameCommand
    <3>9. Pending(e, v)
      BY <1>6, <3>8 DEF Pending
    <3>10. Writing(e, v, h)
      <4>1. e.task.chunk = d.out.pos /\ e.task.chunk + 1 = e.out.pos
        BY <1>1, <1>2, <1>8, <3>7, <3>8
      <4>2. e.out.pos + e.out.left = h.size /\ h.left = e.out.left
        BY <1>1, <1>2, <2>3, <3>7
      <4>3. QED BY <1>1, <2>1, <3>7, <3>8, <3>9, <4>1, <4>2 DEF Writing
    <3>11. QED BY <1>7, <3>3, <3>5, <3>8, <3>10
                  DEF Steps, InCommand, SameCommand, ChunkIn, Aside, e
  <2>4. CASE d.out.left # 0 /\ ~d.out.got
    <3> DEFINE o == [d.out EXCEPT !.busy = FALSE]
    <3> DEFINE c == [r EXCEPT !.out = o]
    <3>1. e = c
      <4>1. [r EXCEPT !.out.busy = FALSE] = [r EXCEPT !.out = [r.out EXCEPT !.busy = FALSE]]
        BY <1>7, DeviceShape
      <4>2. QED BY <1>1, <1>5, <1>10, <2>1, <2>4, <4>1 DEF OutPacketDone
    <3>2. /\ o \in OutType /\ o.left = d.out.left /\ o.pos = d.out.pos /\ o.xfer = "stream"
          /\ ~o.halt /\ o.got = d.out.got /\ ~o.busy
      BY <1>1, <1>2 DEF OutType
    <3> HIDE DEF o
    <3>3. /\ c \in Device /\ Aside(r, c) /\ c.in = InIdle /\ c.out = o /\ c.status = r.status
          /\ c.slot = NoTask
      BY <1>7, <3>2, DeviceShape DEF Aside
    <3> HIDE DEF c
    <3>4. SameCommand(e, h) /\ e.task.chunk = d.out.pos /\ e.stream = "out"
      BY <1>1, <1>7, <1>8, <1>10, <3>1, <3>3 DEF SameCommand, Aside
    <3>5. Writing(e, v, h)
      BY <1>1, <1>2, <1>6, <2>1, <2>4, <3>1, <3>2, <3>3, <3>4 DEF Writing, Quiet
    <3>6. QED BY <1>7, <3>1, <3>3, <3>4, <3>5 DEF Steps, InCommand, SameCommand, Aside, e
  <2>5. QED BY <2>2, <2>3, <2>4
<1>13. QED BY <1>11, <1>12

LEMMA ChunkRead ==
  ASSUME NEW d \in Device, NEW w \in WorkerType, NEW h \in HostType, NEW v \in WorkerType,
         d.fault = "none", AtWork(d, w, h), Reading(d, w, h), d.in.busy, w.phase = "ran",
         v = [w EXCEPT !.phase = "idle"]
  PROVE  Steps(d, Callback(d, w.task, w.result), v, h)
<1> DEFINE e == Callback(d, w.task, w.result)
<1> DEFINE r == ChunkResult(d, w.result)
<1>1. /\ w.task = d.task /\ d.slot = NoTask /\ d.out = OutIdle /\ d.stream = "in"
      /\ SameCommand(d, h) /\ h.kind = "read" /\ d.status.busy /\ d.status.code = "ok"
      /\ d.in.xfer = "stream" /\ ~d.in.halt /\ d.task.chunk + d.in.left = h.size
      /\ h.left = d.in.left + d.in.ready /\ h.stage = "data"
      /\ d.in.left > 0 /\ d.in.ready < 2
  BY DEF AtWork, Reading, Pending
<1>2. /\ d.in \in InType /\ d.in.left \in Nat /\ d.in.ready \in Nat /\ d.task.chunk \in Nat
      /\ h.left \in Nat /\ h.size \in Nat /\ h.size <= MaxChunks /\ d.task \in Task
      /\ d.status \in StatusType /\ w.result \in Results
  BY DeviceParts, InParts, TaskParts, HostParts, WorkerParts
<1>3. d.task.chunk < MaxChunks
  BY <1>1, <1>2, Bounds
<1>4. ResultIn(d, r, w.result)
  BY <1>2, <1>3, ResultTaken
<1>5. e = InPacketDone(r)
  BY <1>1, <1>4 DEF Callback, AtcChunkTaskDone, IsCurrent, DataKinds, SameCommand
<1>6. v.phase = "idle" /\ v.task = d.task /\ v.result = w.result
  BY <1>1 DEF WorkerType
<1> HIDE DEF r, e
<1>7. /\ r \in Device /\ r.task = [d.task EXCEPT !.chunk = @ + 1] /\ r.fault = "none"
      /\ r.stream = "in" /\ r.slot = NoTask /\ r.disabled = d.disabled
      /\ r.rebooting = d.rebooting /\ r.out = OutIdle
      /\ r.status = [d.status EXCEPT !.code = w.result, !.busy = @ /\ w.result = "ok"]
      /\ r.in = (IF w.result # "ok" THEN [d.in EXCEPT !.halt = TRUE] ELSE d.in)
  BY <1>1, <1>4 DEF ResultIn
<1>8. /\ r.task.chunk = d.task.chunk + 1 /\ r.task.id = d.task.id /\ r.task.kind = d.task.kind
  BY <1>2, <1>7, TaskShape
<1>9. /\ r.status.rd = d.status.rd /\ r.status.code = w.result
      /\ r.status.busy <=> d.status.busy /\ w.result = "ok"
  BY <1>2, <1>7 DEF StatusType
<1>10. /\ SameCommand(r, h) /\ r.in.xfer = "stream" /\ r.in.busy
       /\ r.in.left = d.in.left /\ r.in.ready = d.in.ready
  BY <1>1, <1>2, <1>7, <1>8, <1>9 DEF SameCommand, InType
<1>11. CASE w.result # "ok"
  <2> DEFINE i == [r.in EXCEPT !.xfer = "none", !.left = 0, !.busy = FALSE]
  <2> DEFINE f == [r EXCEPT !.in = i]
  <2>1. r.in.halt /\ r.in \in InType
    BY <1>2, <1>7, <1>11 DEF InType
  <2>2. e = f
    <3>1. [r EXCEPT !.in.xfer = "none", !.in.left = 0, !.in.busy = FALSE] = f
      BY <1>7, DeviceShape
    <3>2. QED BY <1>5, <1>10, <2>1, <3>1 DEF InPacketDone
  <2>3. i \in InHalted
    <3>1. i = [InIdle EXCEPT !.halt = TRUE, !.ready = r.in.ready]
      <4> DEFINE k == [InIdle EXCEPT !.halt = TRUE, !.ready = r.in.ready]
      <4>1. /\ i \in InType /\ i.xfer = "none" /\ i.left = 0 /\ ~i.busy /\ i.halt
            /\ i.ready = r.in.ready
        BY <2>1, Bounds DEF InType, InXfers
      <4>2. /\ k \in InType /\ k.xfer = "none" /\ k.left = 0 /\ ~k.busy /\ k.halt
            /\ k.ready = r.in.ready
        BY <2>1, IdleTypes, IdleFields DEF InType
      <4> HIDE DEF i, k
      <4>3. i = k
        BY <4>1, <4>2 DEF InType
      <4>4. QED BY <4>3 DEF k
    <3>2. r.in.ready \in 0..2
      BY <2>1 DEF InType
    <3>3. QED BY <3>1, <3>2 DEF InHalted
  <2> HIDE DEF i
  <2>4. /\ f \in Device /\ Aside(r, f) /\ f.slot = r.slot /\ f.status = r.status /\ f.out = r.out
        /\ f.in = i
    BY <1>7, <2>3, IdleTypes, DeviceShape DEF Aside
  <2> HIDE DEF f
  <2>5. w.result = "error"
    BY <1>2, <1>11 DEF Results
  <2>6. Failed(e, v, h)
    <3>1. ~e.status.busy /\ e.status.code = "error"
      BY <1>9, <1>11, <2>2, <2>4, <2>5
    <3>2. e.out = OutIdle /\ e.in \in InHalted /\ e.slot = NoTask /\ v.phase = "idle"
      BY <1>6, <1>7, <2>2, <2>3, <2>4
    <3>3. QED BY <1>1, <3>1, <3>2 DEF Failed, Quiet
  <2>7. QED BY <1>7, <1>10, <2>2, <2>4, <2>6 DEF Steps, InCommand, SameCommand, Aside, e
<1>12. CASE w.result = "ok"
  <2> DEFINE i == [d.in EXCEPT !.busy = FALSE, !.left = @ - 1, !.ready = @ + 1]
  <2> DEFINE c == [r EXCEPT !.in = i]
  <2>1. r.in = d.in /\ r.status.busy /\ r.status.code = "ok"
    BY <1>1, <1>7, <1>9, <1>12
  <2>2. e = FillIn(c)
    <3>1. [r EXCEPT !.in.busy = FALSE, !.in.left = @ - 1, !.in.ready = @ + 1]
            = [r EXCEPT !.in = [r.in EXCEPT !.busy = FALSE, !.left = @ - 1, !.ready = @ + 1]]
      BY <1>7, DeviceShape
    <3>2. QED BY <1>1, <1>5, <1>10, <2>1, <3>1 DEF InPacketDone
  <2>3. d.in.left - 1 \in Chunks /\ d.in.ready + 1 \in 0..2
    BY <1>1, <1>2, Bounds DEF Chunks
  <2>4. /\ i \in InType /\ i.left = d.in.left - 1 /\ i.ready = d.in.ready + 1
        /\ i.xfer = "stream" /\ ~i.halt /\ ~i.busy
    BY <1>1, <1>2, <2>3 DEF InType
  <2> HIDE DEF i
  <2>5. /\ c \in Device /\ Aside(r, c) /\ c.in = i /\ c.out = OutIdle /\ c.status = r.status
        /\ c.slot = NoTask
    BY <1>7, <2>4, DeviceShape DEF Aside
  <2> HIDE DEF c
  <2>6. FilledIn(c, e)
    BY <2>2, <2>5, Filled
  <2>7. /\ SameCommand(e, h) /\ e.task.chunk = d.task.chunk + 1 /\ e.stream = "in"
        /\ e.out = OutIdle /\ e.status = r.status /\ e.task = c.task
    BY <1>7, <1>8, <1>10, <2>5, <2>6 DEF FilledIn, Aside, SameCommand
  <2>8. /\ e.in.left = i.left /\ e.in.ready = i.ready /\ e.in.xfer = "stream" /\ ~e.in.halt
        /\ e.in.busy <=> i.left > 0 /\ i.ready < 2
    BY <2>4, <2>5, <2>6 DEF FilledIn, Fillable, InType
  <2>9. IF e.in.busy THEN e.slot = e.task ELSE e.slot = NoTask
    BY <2>4, <2>5, <2>6, <2>7, <2>8 DEF FilledIn, Fillable
  <2>10. e.in.left = 0 => Worked(e, v, h)
    <3>1. e.in.left = 0 => d.task.chunk = h.size - 1
      BY <1>1, <1>2, <2>4, <2>8
    <3>2. QED BY <1>1, <1>6, <1>12, <2>1, <2>7, <3>1 DEF Worked, SameCommand
  <2>11. e.task.chunk + e.in.left = h.size /\ h.left = e.in.left + e.in.ready /\ h.left > 0
    BY <1>1, <1>2, <2>4, <2>7, <2>8
  <2>12. IF e.in.busy THEN Pending(e, v) ELSE Quiet(e, v)
    BY <1>6, <2>9 DEF Pending, Quiet
  <2>13. Reading(e, v, h)
    BY <1>1, <1>6, <2>1, <2>4, <2>7, <2>8, <2>10, <2>11, <2>12 DEF Reading
  <2>14. QED BY <1>7, <2>5, <2>6, <2>7, <2>13
                DEF Steps, InCommand, SameCommand, FilledIn, Aside, e
<1>13. QED BY <1>11, <1>12

(* The callback of the task acknowledges the command, or does the packet and
   queues the next one. *)
LEMMA CompleteKeeps ==
  ASSUME PicobootInv, Complete
  PROVE  PicobootInv'
<1>1. /\ dev \in Device /\ worker \in WorkerType /\ host \in HostType
      /\ dev.fault = "none" /\ Phases(dev, worker, host)
  BY InvParts
<1>2. AtWork(dev, worker, host)
  BY <1>1, WorkInCommand DEF Complete, Quiet
<1>3. /\ worker.phase = "ran" /\ host' = host /\ worker' = [worker EXCEPT !.phase = "idle"]
      /\ dev' = Callback(dev, worker.task, worker.result)
  BY DEF Complete
<1>4. worker' \in WorkerType
  BY <1>1, <1>3 DEF WorkerType, WorkerPhases
<1>5. Steps(dev, dev', worker', host)
  BY <1>1, <1>2, <1>3, <1>4, ActDone, ChunkWritten, ChunkRead DEF AtWork
<1>6. Phases(dev', worker', host')
  BY <1>1, <1>2, <1>3, <1>5 DEF Phases, AtWork, Steps
<1>7. QED BY <1>1, <1>3, <1>4, <1>5, <1>6, Concluded DEF Steps

-----------------------------------------------------------------------------
AcceptedIn(d, e, c) ==
  /\ e \in Device /\ e.slot = d.slot /\ e.in = d.in /\ e.out = OutIdle /\ e.fault = d.fault
  /\ e.disabled = d.disabled /\ e.rebooting = d.rebooting
  /\ e.task.id = c.id /\ e.task.kind = c.kind /\ e.task.chunk = 0
  /\ e.status.rd = (c.kind = "read")
  /\ e.status.code = (IF c.kind = "bad" THEN "unknown" ELSE "ok")
  /\ e.status.busy <=> c.kind \notin {"bad", "reboot"}

Command == [id : IdType, user : Tokens, kind : Kinds, size : 1..MaxChunks]

(* A command packet ends the command transfer. *)
LEMMA CommandAccepted ==
  ASSUME NEW d \in Device, NEW c \in Command
  PROVE  AcceptedIn(d, Accepted(d, c), c)
<1> DEFINE t == [id |-> c.id, user |-> c.user, kind |-> c.kind, chunk |-> 0]
<1> DEFINE s == [user |-> c.user, rd |-> c.kind = "read",
                 code |-> IF c.kind = "bad" THEN "unknown" ELSE "ok",
                 busy |-> c.kind \notin {"bad", "reboot"}]
<1>1. c.id \in IdType /\ c.user \in Users /\ c.kind \in TaskKinds
  BY DEF Command, Users, TaskKinds
<1>2. t \in Task
  BY <1>1, Bounds, TaskShape
<1>3. s \in StatusType
  BY <1>1 DEF StatusType, Codes
<1>4. t.id = c.id /\ t.kind = c.kind /\ t.chunk = 0
  OBVIOUS
<1>5. /\ s.rd = (c.kind = "read") /\ s.code = (IF c.kind = "bad" THEN "unknown" ELSE "ok")
      /\ s.busy <=> c.kind \notin {"bad", "reboot"}
  OBVIOUS
<1>6. Accepted(d, c) = [d EXCEPT !.task = t, !.status = s, !.out = OutIdle]
  BY DEF Accepted
<1> HIDE DEF t, s
<1> DEFINE e == [d EXCEPT !.task = t, !.status = s, !.out = OutIdle]
<1>7. /\ e \in Device /\ e.slot = d.slot /\ e.in = d.in /\ e.out = OutIdle /\ e.fault = d.fault
      /\ e.disabled = d.disabled /\ e.rebooting = d.rebooting /\ e.task = t /\ e.status = s
  BY <1>2, <1>3, IdleTypes, DeviceShape
<1> HIDE DEF e
<1>8. QED BY <1>4, <1>5, <1>6, <1>7 DEF AcceptedIn, e

(* What a command finds, and the host that has sent it. *)
Sent(d, w, h, c) ==
  /\ d \in Device /\ d.fault = "none" /\ Ready(d, w) /\ c \in Command
  /\ h \in HostType /\ h.kind = c.kind /\ h.id = c.id /\ h.size = c.size
  /\ h.left = (IF c.kind \in DataKinds THEN c.size ELSE 0)
  /\ h.stage = (IF c.kind \in DataKinds THEN "data" ELSE "ack")
  /\ c.kind \notin DataKinds => c.size = 1
  /\ c.kind = "exclusive" => h.excl

(* What the device does with it. *)
Begins(d, e, w, h) ==
  /\ e \in Device /\ e.fault = "none" /\ e.disabled = d.disabled
  /\ d.rebooting => e.rebooting
  /\ InCommand(e, w, h)

LEMMA BadBegins ==
  ASSUME NEW d, NEW w, NEW h, NEW c, Sent(d, w, h, c), c.kind = "bad"
  PROVE  Begins(d, HandleCommand(d, c), w, h)
<1> DEFINE a == Accepted(d, c)
<1> DEFINE i == [InIdle EXCEPT !.halt = TRUE]
<1> DEFINE e == [a EXCEPT !.in = i, !.out = OutHalted]
<1>1. AcceptedIn(d, a, c)
  BY CommandAccepted DEF Sent
<1>2. HandleCommand(d, c) = [a EXCEPT !.in.halt = TRUE, !.out.halt = TRUE]
  BY DEF HandleCommand
<1> HIDE DEF a
<1>3. a.in = InIdle /\ a.out = OutIdle /\ a \in Device
  BY <1>1 DEF AcceptedIn, Sent, Ready
<1>4. HandleCommand(d, c) = e
  <2>1. [a EXCEPT !.in.halt = TRUE, !.out.halt = TRUE]
          = [a EXCEPT !.in = [a.in EXCEPT !.halt = TRUE], !.out = [a.out EXCEPT !.halt = TRUE]]
    BY <1>3, DeviceShape
  <2>2. QED BY <1>2, <1>3, <2>1 DEF OutHalted
<1>5. i \in InHalted
  <2>1. i = [InIdle EXCEPT !.halt = TRUE, !.ready = InIdle.ready]
    BY IdleTypes DEF InType
  <2>2. InIdle.ready = 0 /\ 0 \in 0..2
    BY IdleFields
  <2>3. QED BY <2>1, <2>2 DEF InHalted
<1> HIDE DEF i
<1>6. /\ e \in Device /\ Aside(a, e) /\ e.slot = a.slot /\ e.status = a.status
      /\ e.in = i /\ e.out = OutHalted
  BY <1>3, <1>5, IdleTypes, DeviceShape DEF Aside
<1> HIDE DEF e
<1>7. Refused(e, w, h)
  <2>1. h.stage = "ack" /\ h.kind = "bad"
    BY DEF Sent, DataKinds
  <2>2. Quiet(e, w) /\ ~e.status.busy
    BY <1>1, <1>6 DEF AcceptedIn, Sent, Ready, Quiet
  <2>3. QED BY <1>5, <1>6, <2>1, <2>2 DEF Refused
<1>8. QED BY <1>1, <1>4, <1>6, <1>7 DEF Begins, InCommand, AcceptedIn, Aside, Sent

LEMMA RebootBegins ==
  ASSUME NEW d, NEW w, NEW h, NEW c, Sent(d, w, h, c), c.kind = "reboot"
  PROVE  Begins(d, HandleCommand(d, c), w, h)
<1> DEFINE a == Accepted(d, c)
<1> DEFINE b == [a EXCEPT !.rebooting = TRUE]
<1> DEFINE e == HandleCommand(d, c)
<1>1. AcceptedIn(d, a, c)
  BY CommandAccepted DEF Sent
<1>2. e = Ack(b)
  BY DEF HandleCommand
<1> HIDE DEF a, e
<1>3. /\ b \in Device /\ b.task = a.task /\ b.slot = a.slot /\ b.status = a.status
      /\ b.in = InIdle /\ b.out = OutIdle /\ b.disabled = a.disabled /\ b.fault = a.fault
      /\ b.rebooting
  BY <1>1, DeviceShape DEF AcceptedIn, Sent, Ready
<1> HIDE DEF b
<1>4. AcknowledgedIn(b, e)
  BY <1>2, <1>3, Acknowledged
<1>5. ~b.status.rd
  BY <1>1, <1>3 DEF AcceptedIn
<1>6. h.stage = "ack" /\ h.kind = "reboot"
  BY DEF Sent, DataKinds
<1>7. Quiet(e, w)
  BY <1>1, <1>3, <1>4 DEF AcceptedIn, AcknowledgedIn, Sent, Ready, Quiet
<1>8. Acked(e, w, h)
  BY <1>4, <1>5, <1>6, <1>7 DEF Acked, AcknowledgedIn
<1>9. SameCommand(e, h)
  BY <1>1, <1>3, <1>4 DEF AcceptedIn, AcknowledgedIn, Aside, Sent, SameCommand
<1>10. QED BY <1>1, <1>3, <1>4, <1>8, <1>9
              DEF Begins, InCommand, SameCommand, AcceptedIn, AcknowledgedIn, Aside, Sent, e

LEMMA WriteBegins ==
  ASSUME NEW d, NEW w, NEW h, NEW c, Sent(d, w, h, c), c.kind = "write"
  PROVE  Begins(d, HandleCommand(d, c), w, h)
<1> DEFINE a == Accepted(d, c)
<1> DEFINE o == [OutIdle EXCEPT !.xfer = "stream", !.left = c.size]
<1> DEFINE e == [a EXCEPT !.stream = "out", !.out = o]
<1>1. AcceptedIn(d, a, c)
  BY CommandAccepted DEF Sent
<1>2. HandleCommand(d, c)
        = [a EXCEPT !.stream = "out", !.out.xfer = "stream", !.out.left = c.size]
  BY DEF HandleCommand
<1> HIDE DEF a
<1>3. a.out = OutIdle /\ a \in Device
  BY <1>1 DEF AcceptedIn
<1>4. HandleCommand(d, c) = e
  <2>1. [a EXCEPT !.stream = "out", !.out.xfer = "stream", !.out.left = c.size]
          = [a EXCEPT !.stream = "out", !.out = [a.out EXCEPT !.xfer = "stream", !.left = c.size]]
    BY <1>3, DeviceShape
  <2>2. QED BY <1>2, <1>3, <2>1
<1>5. c.size \in Nat /\ c.size > 0 /\ c.size \in Chunks
  BY Bounds DEF Sent, Command, Chunks
<1>6. /\ o \in OutType /\ o.xfer = "stream" /\ o.left = c.size /\ o.pos = 0
      /\ ~o.halt /\ ~o.busy /\ ~o.got
  BY <1>5, Bounds DEF OutIdle, OutType, OutXfers
<1> HIDE DEF o
<1>7. /\ e \in Device /\ e.task = a.task /\ e.slot = a.slot /\ e.status = a.status
      /\ e.disabled = a.disabled /\ e.rebooting = a.rebooting /\ e.fault = a.fault
      /\ e.in = a.in /\ e.out = o /\ e.stream = "out"
  BY <1>3, <1>6, DeviceShape DEF Streams
<1> HIDE DEF e
<1>8. h.kind = "write" /\ h.stage = "data" /\ h.left = c.size /\ h.size = c.size
  BY DEF Sent, DataKinds
<1>9. Quiet(e, w) /\ e.in = InIdle
  BY <1>1, <1>7 DEF AcceptedIn, Sent, Ready, Quiet
<1>10. e.status.busy /\ e.status.code = "ok" /\ e.task.chunk = 0
  BY <1>1, <1>7 DEF AcceptedIn
<1>11. Writing(e, w, h)
  BY <1>5, <1>6, <1>7, <1>8, <1>9, <1>10 DEF Writing
<1>12. QED BY <1>1, <1>4, <1>7, <1>11 DEF Begins, InCommand, AcceptedIn, Sent

LEMMA ReadBegins ==
  ASSUME NEW d, NEW w, NEW h, NEW c, Sent(d, w, h, c), c.kind = "read"
  PROVE  Begins(d, HandleCommand(d, c), w, h)
<1> DEFINE a == Accepted(d, c)
<1> DEFINE i == [InIdle EXCEPT !.xfer = "stream", !.left = c.size]
<1> DEFINE b == [a EXCEPT !.stream = "in", !.in = i]
<1> DEFINE e == HandleCommand(d, c)
<1>1. AcceptedIn(d, a, c)
  BY CommandAccepted DEF Sent
<1>2. d.in = InIdle
  BY DEF Sent, Ready
<1>3. e = FillIn([a EXCEPT !.stream = "in", !.in.xfer = "stream", !.in.left = c.size])
  BY <1>2, IdleFields DEF HandleCommand
<1> HIDE DEF a, e
<1>4. a.in = InIdle /\ a \in Device
  BY <1>1, <1>2 DEF AcceptedIn
<1>5. e = FillIn(b)
  <2>1. [a EXCEPT !.stream = "in", !.in.xfer = "stream", !.in.left = c.size]
          = [a EXCEPT !.stream = "in", !.in = [a.in EXCEPT !.xfer = "stream", !.left = c.size]]
    BY <1>4, DeviceShape
  <2>2. QED BY <1>3, <1>4, <2>1
<1>6. c.size \in Nat /\ c.size > 0 /\ c.size \in Chunks
  BY Bounds DEF Sent, Command, Chunks
<1>7. /\ i \in InType /\ i.xfer = "stream" /\ i.left = c.size /\ i.ready = 0
      /\ ~i.halt /\ ~i.busy
  <2>1. \A x \in InXfers, l \in Chunks :
          LET k == [InIdle EXCEPT !.xfer = x, !.left = l]
          IN  /\ k \in InType /\ k.xfer = x /\ k.left = l /\ k.ready = InIdle.ready
              /\ k.halt = InIdle.halt /\ k.busy = InIdle.busy
    BY IdleTypes DEF InType
  <2>2. "stream" \in InXfers
    BY DEF InXfers
  <2>3. QED BY <1>6, <2>1, <2>2, IdleFields
<1> HIDE DEF i
<1>8. /\ b \in Device /\ b.task = a.task /\ b.slot = a.slot /\ b.status = a.status
      /\ b.disabled = a.disabled /\ b.rebooting = a.rebooting /\ b.fault = a.fault
      /\ b.in = i /\ b.out = OutIdle /\ b.stream = "in"
  BY <1>1, <1>4, <1>7, DeviceShape DEF Streams, AcceptedIn
<1> HIDE DEF b
<1>9. FilledIn(b, e) /\ Fillable(b)
  BY <1>5, <1>6, <1>7, <1>8, Filled DEF Fillable
<1>10. h.kind = "read" /\ h.stage = "data" /\ h.left = c.size /\ h.size = c.size
  BY DEF Sent, DataKinds
<1>11. Pending(e, w) /\ w.phase = "idle"
  BY <1>8, <1>9 DEF Sent, Ready, Quiet, Pending, FilledIn, Aside
<1>12. /\ e.in.xfer = "stream" /\ ~e.in.halt /\ e.in.busy /\ e.in.left = c.size /\ e.in.ready = 0
  BY <1>7, <1>8, <1>9 DEF FilledIn, InType
<1>13. /\ e.status.busy /\ e.status.code = "ok" /\ e.task.chunk = 0 /\ e.stream = "in"
       /\ e.out = OutIdle
  BY <1>1, <1>8, <1>9 DEF AcceptedIn, FilledIn, Aside
<1>14. Reading(e, w, h)
  BY <1>6, <1>10, <1>11, <1>12, <1>13 DEF Reading
<1>15. SameCommand(e, h)
  BY <1>1, <1>8, <1>9 DEF AcceptedIn, FilledIn, Aside, Sent, SameCommand
<1>16. QED BY <1>1, <1>8, <1>9, <1>14, <1>15
              DEF Begins, InCommand, SameCommand, AcceptedIn, FilledIn, Aside, Sent, e

LEMMA ActBegins ==
  ASSUME NEW d, NEW w, NEW h, NEW c, Sent(d, w, h, c),
         c.kind \in {"act", "exclusive", "release"}
  PROVE  Begins(d, HandleCommand(d, c), w, h)
<1> DEFINE a == Accepted(d, c)
<1> DEFINE e == HandleCommand(d, c)
<1>1. AcceptedIn(d, a, c)
  BY CommandAccepted DEF Sent
<1>2. e = QueueTask(a)
  BY DEF HandleCommand
<1> HIDE DEF a, e
<1>3. /\ e \in Device /\ Aside(a, e) /\ e.slot = a.task /\ e.out = a.out /\ e.in = a.in
      /\ e.status = a.status
  BY <1>1, <1>2, Queued DEF AcceptedIn
<1>4. Pending(e, w) /\ w.phase = "idle"
  BY <1>3 DEF Sent, Ready, Quiet, Pending, Aside
<1>5. /\ h.kind \in {"act", "exclusive", "release"} /\ h.stage = "ack" /\ h.size = 1
      /\ h.kind = "exclusive" => h.excl
  BY DEF Sent, DataKinds
<1>6. e.in = InIdle /\ e.out = OutIdle /\ e.status.busy /\ e.task.chunk = 0
  BY <1>1, <1>3 DEF AcceptedIn, Aside, Sent, Ready
<1>7. Acting(e, w, h)
  BY <1>4, <1>5, <1>6 DEF Acting
<1>8. SameCommand(e, h)
  BY <1>1, <1>3 DEF AcceptedIn, Aside, Sent, SameCommand
<1>9. QED BY <1>1, <1>3, <1>7, <1>8 DEF Begins, InCommand, SameCommand, AcceptedIn, Aside, Sent, e

(* The host sends a command of any kind. *)
LEMMA CommandKeeps ==
  ASSUME PicobootInv, NEW kind \in Kinds, NEW user \in Tokens, NEW size \in 1..MaxChunks,
         SendCommand(kind, user, size)
  PROVE  PicobootInv'
<1> DEFINE id == (host.id + 1) % Ids
<1> DEFINE c == [id |-> id, user |-> user, kind |-> kind, size |-> size]
<1> DEFINE left == IF kind \in DataKinds THEN size ELSE 0
<1> DEFINE stage == IF kind \in DataKinds THEN "data" ELSE "ack"
<1> DEFINE excl == host.excl \/ kind = "exclusive"
<1>1. /\ dev \in Device /\ worker \in WorkerType /\ host \in HostType
      /\ dev.fault = "none" /\ Phases(dev, worker, host)
  BY InvParts
<1>2. /\ host.stage = "idle" /\ (size = 1 \/ kind \in DataKinds)
      /\ dev' = HandleCommand(dev, c) /\ worker' = worker
      /\ host' = [host EXCEPT !.kind = kind, !.id = id, !.size = size, !.left = left,
                              !.stage = stage, !.excl = excl]
  BY DEF SendCommand
<1>3. id \in IdType
  <2>1. host.id + 1 \in Nat
    BY <1>1, HostParts, Bounds DEF IdType
  <2>2. \A m \in Nat, n \in Nat \ {0} : m % n \in 0..(n - 1)
    OBVIOUS
  <2>3. QED BY <2>1, <2>2, Bounds DEF IdType
<1>4. /\ size \in Chunks /\ left \in Chunks /\ stage \in {"data", "ack"} /\ stage \in Stages
      /\ excl \in BOOLEAN
  BY <1>1, HostParts, Bounds DEF Chunks, Stages
<1>5. c \in Command /\ c.kind = kind /\ c.id = id /\ c.size = size
  BY <1>3 DEF Command
<1> HIDE DEF id, c, left, stage, excl
<1>6. /\ host' \in HostType /\ host'.kind = kind /\ host'.id = id /\ host'.size = size
      /\ host'.left = left /\ host'.stage = stage /\ host'.excl = excl
  BY <1>1, <1>2, <1>3, <1>4 DEF HostType
<1>7. Sent(dev, worker, host', c)
  <2>1. Ready(dev, worker)
    BY <1>1, <1>2 DEF Phases
  <2>2. /\ left = (IF c.kind \in DataKinds THEN c.size ELSE 0)
        /\ stage = (IF c.kind \in DataKinds THEN "data" ELSE "ack")
        /\ c.kind \notin DataKinds => c.size = 1
        /\ c.kind = "exclusive" => excl
    BY <1>2, <1>5 DEF left, stage, excl
  <2>3. QED BY <1>1, <1>5, <1>6, <2>1, <2>2 DEF Sent
<1>8. Begins(dev, dev', worker, host')
  <2>1. c.kind \in {"bad", "reboot", "write", "read", "act", "exclusive", "release"}
    BY <1>5 DEF Kinds, DataKinds
  <2>2. QED BY <1>2, <1>7, <2>1, BadBegins, RebootBegins, WriteBegins, ReadBegins, ActBegins
<1>9. Phases(dev', worker', host')
  <2>1. dev.disabled /\ ~dev.rebooting => host.excl
    BY <1>1 DEF Phases
  <2>2. host.excl => excl
    BY DEF excl
  <2>3. QED BY <1>2, <1>4, <1>6, <1>8, <2>1, <2>2 DEF Phases, Begins
<1>10. QED BY <1>1, <1>2, <1>6, <1>8, <1>9, Concluded DEF Begins

-----------------------------------------------------------------------------
(* The host has moved a packet of the data phase. *)
LEMMA HostMoved ==
  ASSUME host \in HostType, host.left > 0, host' = Moved
  PROVE  /\ host' \in HostType /\ host'.left = host.left - 1 /\ host'.kind = host.kind
         /\ host'.id = host.id /\ host'.size = host.size /\ host'.excl = host.excl
         /\ host'.stage = (IF host'.left > 0 THEN "data" ELSE "ack")
<1> DEFINE n == host.left - 1
<1> DEFINE s == IF host.left = 1 THEN "ack" ELSE "data"
<1>1. host' = [host EXCEPT !.left = n, !.stage = s]
  BY DEF Moved
<1>2. host.left \in Nat /\ host.left <= MaxChunks
  BY HostParts
<1>3. n \in Chunks /\ s \in Stages /\ s = (IF n > 0 THEN "data" ELSE "ack")
  BY <1>2, Bounds DEF Chunks, Stages
<1> HIDE DEF n, s
<1>4. QED BY <1>1, <1>3 DEF HostType, n

(* A chunk's data arrives: it goes to the worker, or waits behind the last. *)
LEMMA SendDataKeeps ==
  ASSUME PicobootInv, SendData
  PROVE  PicobootInv'
<1>1. /\ dev \in Device /\ worker \in WorkerType /\ host \in HostType
      /\ dev.fault = "none" /\ Phases(dev, worker, host)
  BY InvParts
<1>2. /\ host.stage = "data" /\ host.kind = "write" /\ dev.out.xfer = "stream"
      /\ ~dev.out.got /\ dev.out.left > 0 /\ worker' = worker /\ host' = Moved
      /\ dev' = IF dev.out.busy
                THEN [dev EXCEPT !.out = [dev.out EXCEPT !.got = TRUE]] ELSE OutChunk(dev)
  <2>1. [dev EXCEPT !.out.got = TRUE] = [dev EXCEPT !.out = [dev.out EXCEPT !.got = TRUE]]
    BY <1>1, DeviceShape
  <2>2. QED BY <2>1 DEF SendData, CanSendData
<1>3. Writing(dev, worker, host) /\ SameCommand(dev, host)
  BY <1>1, <1>2, IdleFields
     DEF Phases, InCommand, Refused, Acting, Reading, Failed, Acked, SameCommand
<1>4. /\ dev.in = InIdle /\ dev.stream = "out" /\ ~dev.out.halt
      /\ dev.status.busy /\ dev.status.code = "ok" /\ dev.out.pos + dev.out.left = host.size
      /\ host.left = dev.out.left
  BY <1>2, <1>3 DEF Writing
<1>5. /\ dev.out \in OutType /\ dev.out.left \in Nat /\ dev.out.pos \in Nat
      /\ dev.task.chunk \in Nat /\ host.left \in Nat /\ host.size \in Nat
      /\ host.size <= MaxChunks
  BY <1>1, DeviceParts, OutParts, TaskParts, HostParts
<1>6. /\ host' \in HostType /\ host'.left = host.left - 1 /\ host'.kind = host.kind
      /\ host'.id = host.id /\ host'.size = host.size /\ host'.excl = host.excl
      /\ host'.stage = (IF host'.left > 0 THEN "data" ELSE "ack")
  BY <1>1, <1>2, <1>4, HostMoved
<1>7. CASE dev.out.busy
  <2> DEFINE o == [dev.out EXCEPT !.got = TRUE]
  <2>1. dev' = [dev EXCEPT !.out = o]
    BY <1>2, <1>7
  <2>2. /\ o \in OutType /\ o.left = dev.out.left /\ o.pos = dev.out.pos /\ o.xfer = "stream"
        /\ ~o.halt /\ o.busy /\ o.got
    BY <1>2, <1>4, <1>5, <1>7 DEF OutType
  <2> HIDE DEF o
  <2>3. /\ dev' \in Device /\ Aside(dev, dev') /\ dev'.slot = dev.slot /\ dev'.buf = dev.buf
        /\ dev'.in = dev.in /\ dev'.status = dev.status /\ dev'.out = o
    BY <1>1, <2>1, <2>2, DeviceShape DEF Aside
  <2>4. Pending(dev', worker)
    BY <1>3, <1>7, <2>3 DEF Writing, Pending, Aside
  <2>5. dev'.task.chunk + 1 = dev'.out.pos
    BY <1>3, <1>7, <2>2, <2>3 DEF Writing, Aside
  <2>6. dev'.buf = [id |-> dev'.task.id, chunk |-> dev'.task.chunk]
    BY <1>3, <1>7, <2>3 DEF Writing, Aside
  <2>7. Writing(dev', worker', host')
    BY <1>2, <1>4, <1>5, <1>6, <2>2, <2>3, <2>4, <2>5, <2>6 DEF Writing, Aside
  <2>8. Phases(dev', worker', host')
    BY <1>1, <1>3, <1>6, <2>3, <2>7 DEF Phases, InCommand, SameCommand, Aside
  <2>9. QED BY <1>1, <1>2, <1>6, <2>3, <2>8, Concluded DEF Aside
<1>8. CASE ~dev.out.busy
  <2>1. ChunkIn(dev, dev')
    BY <1>1, <1>2, <1>4, <1>5, <1>8, ChunkQueued
  <2>2. /\ dev'.out.left = dev.out.left - 1 /\ dev'.out.pos = dev.out.pos + 1
        /\ dev'.out.xfer = "stream" /\ ~dev'.out.halt /\ dev'.out.busy /\ ~dev'.out.got
    <3>1. dev'.out = [dev.out EXCEPT !.busy = TRUE, !.left = @ - 1, !.pos = @ + 1]
      BY <2>1 DEF ChunkIn
    <3>2. /\ dev'.out.left = dev.out.left - 1 /\ dev'.out.pos = dev.out.pos + 1
          /\ dev'.out.xfer = dev.out.xfer /\ dev'.out.halt = dev.out.halt /\ dev'.out.busy
          /\ dev'.out.got = dev.out.got
      BY <1>5, <3>1, ChunkFields
    <3>3. QED BY <1>2, <1>4, <3>2
  <2>3. dev.task.chunk = dev.out.pos /\ worker.phase = "idle"
    BY <1>3, <1>8 DEF Writing, Quiet
  <2>4. Pending(dev', worker)
    BY <2>1, <2>3 DEF Pending, ChunkIn, Aside
  <2>5. dev'.task.chunk + 1 = dev'.out.pos
    BY <2>1, <2>2, <2>3 DEF ChunkIn, Aside
  <2>6. dev'.buf = [id |-> dev'.task.id, chunk |-> dev'.task.chunk]
    BY <2>1, <2>3 DEF ChunkIn, Aside
  <2>7. dev'.out.pos + dev'.out.left = host'.size /\ host'.left = dev'.out.left
    BY <1>4, <1>5, <1>6, <2>2
  <2>8. /\ dev'.stream = "out" /\ dev'.in = InIdle /\ dev'.status.busy /\ dev'.status.code = "ok"
    BY <1>4, <2>1 DEF ChunkIn, Aside
  <2>9. Writing(dev', worker', host')
    BY <1>2, <1>6, <2>2, <2>4, <2>5, <2>6, <2>7, <2>8 DEF Writing
  <2>10. Phases(dev', worker', host')
    BY <1>1, <1>3, <1>6, <2>1, <2>9 DEF Phases, InCommand, SameCommand, ChunkIn, Aside
  <2>11. QED BY <1>1, <1>2, <1>6, <2>1, <2>10, Concluded DEF ChunkIn, Aside
<1>9. QED BY <1>7, <1>8

(* The packet that was fetched is the last one there is. *)
LEMMA LastFetched ==
  ASSUME NEW d \in Device, d.in.ready = 1, d.in.left = 0, ~d.in.busy, ~d.in.halt
  PROVE  LET e == [d EXCEPT !.in = InIdle]
         IN  /\ Fetched(d) = OnComplete(e, d.in.xfer)
             /\ e \in Device /\ Aside(d, e) /\ e.slot = d.slot /\ e.buf = d.buf
             /\ e.status = d.status /\ e.out = d.out /\ e.in = InIdle
<1> DEFINE i == [d.in EXCEPT !.ready = @ - 1]
<1> DEFINE f == [d EXCEPT !.in = i]
<1> DEFINE e == [d EXCEPT !.in = InIdle]
<1>1. d.in \in InType
  BY DeviceParts
<1>2. [d EXCEPT !.in.ready = @ - 1] = f
  BY DeviceShape
<1>3. i \in InType /\ i.ready = 0 /\ i.left = 0 /\ ~i.busy /\ ~i.halt
  BY <1>1 DEF InType
<1> HIDE DEF i
<1>4. f \in Device /\ f.in = i
  BY <1>3, DeviceShape
<1>5. Fetched(d) = OnComplete([f EXCEPT !.in.xfer = "none"], d.in.xfer)
  BY <1>2, <1>3, <1>4 DEF Fetched
<1>6. [f EXCEPT !.in.xfer = "none"] = e
  <2>1. [f EXCEPT !.in.xfer = "none"] = [f EXCEPT !.in = [f.in EXCEPT !.xfer = "none"]]
    BY <1>4, DeviceShape
  <2>2. [i EXCEPT !.xfer = "none"] = InIdle
    <3> DEFINE k == [i EXCEPT !.xfer = "none"]
    <3>1. k \in InType /\ k.xfer = "none" /\ k.left = 0 /\ k.ready = 0 /\ ~k.busy /\ ~k.halt
      BY <1>3 DEF InType, InXfers
    <3> HIDE DEF k
    <3>2. k = InIdle
      BY <3>1, IdleTypes, IdleFields DEF InType
    <3>3. QED BY <3>2 DEF k
  <2>3. QED BY <1>4, <2>1, <2>2
<1>7. /\ e \in Device /\ Aside(d, e) /\ e.slot = d.slot /\ e.buf = d.buf
      /\ e.status = d.status /\ e.out = d.out /\ e.in = InIdle
  BY IdleTypes, DeviceShape DEF Aside
<1>8. QED BY <1>5, <1>6, <1>7

(* The packet that was fetched leaves room for another. *)
LEMMA NextFetched ==
  ASSUME NEW d \in Device, d.in.ready > 0, ~(d.in.ready = 1 /\ d.in.left = 0 /\ ~d.in.busy)
  PROVE  \E f \in Device :
           /\ FilledIn(f, Fetched(d)) /\ Aside(d, f) /\ f.out = d.out /\ f.slot = d.slot
           /\ f.buf = d.buf /\ f.status = d.status
           /\ f.in = [d.in EXCEPT !.ready = @ - 1]
<1> DEFINE i == [d.in EXCEPT !.ready = @ - 1]
<1> DEFINE f == [d EXCEPT !.in = i]
<1>1. /\ d.in \in InType /\ d.in.ready \in Nat /\ d.in.ready <= 2 /\ d.in.left \in Nat
      /\ d.in.busy \in BOOLEAN
  BY DeviceParts, InParts
<1>2. [d EXCEPT !.in.ready = @ - 1] = f
  BY DeviceShape
<1>3. d.in.ready - 1 \in 0..2
  BY <1>1
<1>4. /\ i \in InType /\ i.ready = d.in.ready - 1 /\ i.left = d.in.left
      /\ i.busy = d.in.busy
  BY <1>1, <1>3 DEF InType
<1> HIDE DEF i
<1>5. /\ f \in Device /\ Aside(d, f) /\ f.in = i /\ f.out = d.out /\ f.slot = d.slot
      /\ f.buf = d.buf /\ f.status = d.status
  BY <1>4, DeviceShape DEF Aside
<1>6. ~(i.ready = 0 /\ i.left = 0 /\ ~i.busy)
  BY <1>1, <1>4
<1>7. Fetched(d) = FillIn(f)
  BY <1>2, <1>5, <1>6 DEF Fetched
<1> HIDE DEF f
<1>8. FilledIn(f, Fetched(d))
  BY <1>5, <1>7, Filled
<1>9. QED BY <1>5, <1>8 DEF i

(* A chunk's data is fetched, and makes room for another; after the last the
   acknowledgement is offered. *)
LEMMA FetchDataKeeps ==
  ASSUME PicobootInv, FetchData
  PROVE  PicobootInv'
<1>1. /\ dev \in Device /\ worker \in WorkerType /\ host \in HostType
      /\ dev.fault = "none" /\ Phases(dev, worker, host)
  BY InvParts
<1>2. /\ host.stage = "data" /\ host.kind = "read" /\ dev.in.ready > 0 /\ ~dev.in.halt
      /\ worker' = worker /\ host' = Moved /\ dev' = Fetched(dev)
  BY DEF FetchData, CanFetch
<1>3. Reading(dev, worker, host) /\ SameCommand(dev, host)
  BY <1>1, <1>2, IdleFields
     DEF Phases, InCommand, Refused, Acting, Writing, Failed, Acked, SameCommand
<1>4. /\ dev.out = OutIdle /\ dev.stream = "in" /\ dev.in.xfer = "stream"
      /\ dev.status.busy /\ dev.status.code = "ok" /\ dev.task.chunk + dev.in.left = host.size
      /\ host.left = dev.in.left + dev.in.ready /\ host.left > 0
      /\ dev.in.busy <=> dev.in.left > 0 /\ dev.in.ready < 2
      /\ dev.in.left = 0 => Worked(dev, worker, host)
      /\ ~dev.in.busy => Quiet(dev, worker)
      /\ dev.in.busy => Pending(dev, worker)
      /\ dev.in.busy /\ worker.phase = "ran" /\ worker.result = "ok" =>
           dev.buf = [id |-> dev.task.id, chunk |-> dev.task.chunk]
  BY <1>3 DEF Reading
<1>5. /\ dev.in \in InType /\ dev.in.left \in Nat /\ dev.in.ready \in Nat /\ dev.in.ready <= 2
      /\ dev.task.chunk \in Nat /\ host.left \in Nat /\ host.size \in Nat
      /\ dev.in.busy \in BOOLEAN
  BY <1>1, DeviceParts, InParts, TaskParts, HostParts
<1>6. /\ host' \in HostType /\ host'.left = host.left - 1 /\ host'.kind = host.kind
      /\ host'.id = host.id /\ host'.size = host.size /\ host'.excl = host.excl
      /\ host'.stage = (IF host'.left > 0 THEN "data" ELSE "ack")
  BY <1>1, <1>2, <1>4, HostMoved
<1>7. CASE dev.in.ready = 1 /\ dev.in.left = 0 /\ ~dev.in.busy
  <2> DEFINE c == [dev EXCEPT !.in = InIdle]
  <2>1. /\ dev' = OnComplete(c, "stream") /\ c \in Device /\ Aside(dev, c)
        /\ c.slot = dev.slot /\ c.buf = dev.buf /\ c.status = dev.status
        /\ c.out = OutIdle /\ c.in = InIdle
    BY <1>1, <1>2, <1>4, <1>7, LastFetched
  <2> HIDE DEF c
  <2>2. AcknowledgedIn(c, dev')
    BY <2>1, Acknowledged DEF OnComplete
  <2>3. /\ SameCommand(dev', host) /\ dev'.status.code = "ok" /\ dev'.slot = dev.slot
        /\ ~dev'.status.busy /\ dev'.out = OutAck /\ dev'.in = InIdle
    <3>1. c.status.rd /\ c.status.code = "ok"
      BY <1>2, <1>3, <1>4, <2>1 DEF SameCommand
    <3>2. dev'.task = dev.task /\ dev'.status.rd = dev.status.rd
      BY <2>1, <2>2 DEF AcknowledgedIn, Aside
    <3>3. SameCommand(dev', host)
      BY <1>3, <3>2 DEF SameCommand
    <3>4. QED BY <2>1, <2>2, <3>1, <3>3 DEF AcknowledgedIn, Aside
  <2>4. Worked(dev', worker, host')
    BY <1>4, <1>6, <1>7, <2>3 DEF Worked
  <2>5. host'.stage = "ack"
    BY <1>4, <1>5, <1>6, <1>7
  <2>6. Quiet(dev', worker)
    BY <1>4, <1>7, <2>3 DEF Quiet
  <2>7. Acked(dev', worker', host')
    BY <1>2, <1>6, <2>3, <2>4, <2>5, <2>6 DEF Acked
  <2>8. Phases(dev', worker', host')
    BY <1>1, <1>6, <2>1, <2>2, <2>3, <2>7
       DEF Phases, InCommand, SameCommand, AcknowledgedIn, Aside
  <2>9. QED BY <1>1, <1>2, <1>6, <2>1, <2>2, <2>8, Concluded DEF AcknowledgedIn, Aside
<1>8. CASE ~(dev.in.ready = 1 /\ dev.in.left = 0 /\ ~dev.in.busy)
  <2>1. PICK f \in Device :
          /\ FilledIn(f, dev') /\ Aside(dev, f) /\ f.out = dev.out /\ f.slot = dev.slot
          /\ f.buf = dev.buf /\ f.status = dev.status
          /\ f.in = [dev.in EXCEPT !.ready = @ - 1]
    BY <1>1, <1>2, <1>8, NextFetched
  <2>2. /\ f.in.xfer = "stream" /\ ~f.in.halt /\ f.in.left = dev.in.left
        /\ f.in.ready = dev.in.ready - 1 /\ f.in.busy = dev.in.busy /\ f.in \in InType
    <3>1. dev.in.ready - 1 \in 0..2
      BY <1>2, <1>5
    <3>2. QED BY <1>2, <1>4, <1>5, <2>1, <3>1 DEF InType
  <2>3. Fillable(f) <=> dev.in.left > 0 /\ ~dev.in.busy
    BY <1>5, <2>2 DEF Fillable
  <2>4. /\ dev'.in.xfer = "stream" /\ ~dev'.in.halt /\ dev'.in.left = dev.in.left
        /\ dev'.in.ready = dev.in.ready - 1
        /\ dev'.in.busy <=> dev.in.left > 0
    <3>1. CASE Fillable(f)
      <4>1. dev'.in = [f.in EXCEPT !.busy = TRUE]
        BY <2>1, <3>1 DEF FilledIn
      <4>2. QED BY <2>2, <2>3, <3>1, <4>1 DEF InType
    <3>2. CASE ~Fillable(f)
      <4>1. dev'.in = f.in
        BY <2>1, <3>2 DEF FilledIn
      <4>2. QED BY <1>4, <2>2, <2>3, <3>2, <4>1
    <3>3. QED BY <3>1, <3>2
  <2>5. /\ dev'.task = dev.task /\ dev'.stream = "in" /\ dev'.out = OutIdle
        /\ dev'.status = dev.status /\ dev'.buf = dev.buf /\ SameCommand(dev', host')
        /\ dev' \in Device /\ dev'.fault = "none" /\ dev'.disabled = dev.disabled
        /\ dev'.rebooting = dev.rebooting
    BY <1>1, <1>3, <1>4, <1>6, <2>1 DEF FilledIn, Aside, SameCommand
  <2>6. IF dev'.in.busy THEN Pending(dev', worker) ELSE Quiet(dev', worker)
    <3>1. CASE Fillable(f)
      <4>1. dev'.slot = dev'.task /\ worker.phase = "idle"
        BY <1>4, <2>1, <2>3, <3>1 DEF FilledIn, Aside, Quiet
      <4>2. QED BY <2>3, <2>4, <3>1, <4>1 DEF Pending
    <3>2. CASE ~Fillable(f)
      <4>1. dev'.slot = dev.slot
        BY <2>1, <3>2 DEF FilledIn
      <4>2. dev'.in.busy <=> dev.in.busy
        BY <1>4, <2>3, <2>4, <3>2
      <4>3. QED BY <1>4, <2>5, <4>1, <4>2 DEF Pending, Quiet
    <3>3. QED BY <3>1, <3>2
  <2>7. dev'.in.busy /\ worker.phase = "ran" /\ worker.result = "ok" =>
          dev'.buf = [id |-> dev'.task.id, chunk |-> dev'.task.chunk]
    BY <1>4, <2>4, <2>5 DEF Quiet
  <2>8. dev'.in.left = 0 => Worked(dev', worker, host')
    BY <1>4, <1>6, <2>4, <2>5 DEF Worked
  <2>9. /\ dev'.task.chunk + dev'.in.left = host'.size
        /\ host'.left = dev'.in.left + dev'.in.ready /\ host'.left > 0
        /\ dev'.in.busy <=> dev'.in.left > 0 /\ dev'.in.ready < 2
    <3>1. dev'.task.chunk + dev'.in.left = host'.size
      BY <1>4, <1>6, <2>4, <2>5
    <3>2. host'.left = dev'.in.left + dev'.in.ready
      BY <1>4, <1>5, <1>6, <2>4
    <3>3. dev'.in.busy <=> dev'.in.left > 0 /\ dev'.in.ready < 2
      BY <1>5, <2>4
    <3>4. dev.in.left > 0 \/ dev.in.ready > 1
      BY <1>2, <1>4, <1>5, <1>8
    <3>5. host'.left > 0
      BY <1>2, <1>4, <1>5, <1>6, <3>4
    <3>6. QED BY <3>1, <3>2, <3>3, <3>5
  <2>10. Reading(dev', worker', host')
    BY <1>2, <1>4, <1>6, <2>4, <2>5, <2>6, <2>7, <2>8, <2>9 DEF Reading
  <2>11. Phases(dev', worker', host')
    BY <1>1, <1>6, <2>5, <2>9, <2>10 DEF Phases, InCommand, SameCommand
  <2>12. QED BY <1>1, <1>2, <1>6, <2>5, <2>11, Concluded
<1>9. QED BY <1>7, <1>8

(* A packet completes on an endpoint that waits for the next command. *)
LEMMA WaitsForCommand ==
  ASSUME NEW d \in Device, d.out = OutIdle
  PROVE  LET e == WaitCommand(d)
         IN  /\ e \in Device /\ Aside(d, e) /\ e.slot = d.slot /\ e.status = d.status
             /\ e.in = d.in /\ e.out = OutDefault
<1>1. WaitCommand(d) = [d EXCEPT !.out = OutDefault]
  BY IdleFields DEF WaitCommand
<1>2. QED BY <1>1, IdleTypes, DeviceShape DEF Aside

(* The host takes the acknowledgement, and may send another command. *)
LEMMA TakeAckKeeps ==
  ASSUME PicobootInv, TakeAck
  PROVE  PicobootInv'
<1> DEFINE excl == host.excl /\ host.kind # "release"
<1>1. /\ dev \in Device /\ worker \in WorkerType /\ host \in HostType
      /\ dev.fault = "none" /\ Phases(dev, worker, host)
  BY InvParts
<1>2. /\ host.stage = "ack" /\ worker' = worker
      /\ host' = [host EXCEPT !.stage = "idle", !.excl = excl]
      /\ IF host.kind = "read"
         THEN /\ dev.out.xfer = "ack" /\ ~dev.out.halt
              /\ dev' = OnComplete([dev EXCEPT !.out = OutIdle], "ack")
         ELSE dev.in.ready > 0 /\ ~dev.in.halt /\ dev' = Fetched(dev)
  BY DEF TakeAck, CanSendAck, CanFetch
<1>3. /\ host' \in HostType /\ host'.stage = "idle" /\ host'.excl = excl
  <2>1. excl \in BOOLEAN /\ "idle" \in Stages
    BY <1>1, HostParts DEF Stages
  <2> HIDE DEF excl
  <2>2. QED BY <1>1, <1>2, <2>1 DEF HostType
<1>4. Acked(dev, worker, host)
  <2>1. InCommand(dev, worker, host)
    BY <1>1, <1>2 DEF Phases
  <2>2. CASE host.kind = "read"
    BY <1>2, <2>1, <2>2 DEF InCommand, Refused, Acting, Writing, Reading, Failed
  <2>3. CASE host.kind # "read"
    <3>1. dev.in # InIdle /\ dev.in \notin InHalted
      BY <1>2, <2>3, IdleFields
    <3>2. QED BY <2>1, <2>3, <3>1 DEF InCommand, Refused, Acting, Writing, Reading, Failed
  <2>4. QED BY <2>2, <2>3
<1>5. /\ dev' \in Device /\ Aside(dev, dev') /\ dev'.slot = dev.slot
      /\ dev'.status = dev.status /\ dev'.in = InIdle /\ dev'.out = OutDefault
  <2>1. CASE host.kind = "read"
    <3> DEFINE c == [dev EXCEPT !.out = OutIdle]
    <3>1. dev' = WaitCommand(c)
      BY <1>2, <2>1 DEF OnComplete
    <3>2. /\ c \in Device /\ Aside(dev, c) /\ c.slot = dev.slot /\ c.status = dev.status
          /\ c.in = InIdle /\ c.out = OutIdle
      BY <1>1, <1>4, <2>1, IdleTypes, DeviceShape DEF Aside, Acked
    <3> HIDE DEF c
    <3>3. QED BY <3>1, <3>2, WaitsForCommand DEF Aside
  <2>2. CASE host.kind # "read"
    <3> DEFINE c == [dev EXCEPT !.in = InIdle]
    <3>1. dev.in = InAck /\ dev.out = OutIdle
      BY <1>4, <2>2 DEF Acked
    <3>2. /\ dev' = OnComplete(c, "ack") /\ c \in Device /\ Aside(dev, c)
          /\ c.slot = dev.slot /\ c.status = dev.status /\ c.out = OutIdle /\ c.in = InIdle
      BY <1>1, <1>2, <2>2, <3>1, IdleFields, LastFetched
    <3> HIDE DEF c
    <3>3. dev' = WaitCommand(c)
      BY <3>2 DEF OnComplete
    <3>4. QED BY <3>2, <3>3, WaitsForCommand DEF Aside
  <2>3. QED BY <2>1, <2>2
<1>6. Ready(dev', worker)
  BY <1>4, <1>5 DEF Acked, Ready, Quiet
<1>7. dev'.disabled /\ ~dev'.rebooting => excl
  BY <1>1, <1>4, <1>5 DEF Phases, Acked, Aside
<1>8. Phases(dev', worker', host')
  BY <1>2, <1>3, <1>6, <1>7 DEF Phases
<1>9. QED BY <1>1, <1>2, <1>3, <1>5, <1>8, Concluded DEF Aside

-----------------------------------------------------------------------------
(* The worker has nothing to do while a task waits: there is none. *)
LEMMA QuietOrPending ==
  ASSUME NEW d, NEW w, NEW h \in HostType, SameCommand(d, h), Pending(d, w)
  PROVE  ~Quiet(d, w)
<1>1. d.task # NoTask
  <2>1. h.kind # "none"
    BY HostParts DEF Kinds, DataKinds
  <2>2. QED BY <2>1 DEF SameCommand, NoTask
<1>2. QED BY <1>1 DEF Quiet, Pending

(* A host that has given up, because of a STALL or because nothing moves,
   finds the worker done, and no transfer but the default one. *)
LEMMA ErrorKeeps ==
  ASSUME PicobootInv, host.stage \in {"data", "ack"}, Errored(dev, worker),
         host' = [host EXCEPT !.stage = "error"], dev' = dev, worker' = worker
  PROVE  PicobootInv'
<1>1. /\ dev \in Device /\ worker \in WorkerType /\ host \in HostType
      /\ dev.fault = "none" /\ Phases(dev, worker, host)
  BY InvParts
<1>2. host' \in HostType /\ host'.stage = "error" /\ host'.excl = host.excl
  BY <1>1 DEF HostType, Stages
<1>3. Phases(dev', worker', host')
  BY <1>1, <1>2 DEF Phases
<1>4. QED BY <1>1, <1>2, <1>3, Concluded

LEMMA SeeStallKeeps ==
  ASSUME PicobootInv, SeeStall
  PROVE  PicobootInv'
<1>1. /\ dev \in Device /\ worker \in WorkerType /\ host \in HostType
      /\ dev.fault = "none" /\ Phases(dev, worker, host)
  BY InvParts
<1>2. /\ host.stage \in {"data", "ack"} /\ dev' = dev /\ worker' = worker
      /\ host' = [host EXCEPT !.stage = "error"]
      /\ IF UsesOut THEN dev.out.halt ELSE dev.in.halt
  BY DEF SeeStall
<1>3. InCommand(dev, worker, host)
  BY <1>1, <1>2 DEF Phases
<1>4. Refused(dev, worker, host) \/ Failed(dev, worker, host)
  <2>1. ~Acting(dev, worker, host)
    BY <1>2, IdleFields DEF Acting
  <2>2. ~Writing(dev, worker, host)
    BY <1>2, IdleFields DEF Writing, UsesOut
  <2>3. ~Reading(dev, worker, host)
    BY <1>2, IdleFields DEF Reading, UsesOut
  <2>4. ~Acked(dev, worker, host)
    BY <1>2, IdleFields DEF Acked, UsesOut
  <2>5. QED BY <1>3, <2>1, <2>2, <2>3, <2>4 DEF InCommand
<1>5. Errored(dev, worker)
  BY <1>4 DEF Refused, Failed, Errored
<1>6. QED BY <1>2, <1>5, ErrorKeeps

(* A patient host times out only when the worker has nothing to do and the
   endpoint it uses does not move: after a WRITE that failed. *)
LEMMA TimeOutKeeps ==
  ASSUME Patient, PicobootInv, TimeOut
  PROVE  PicobootInv'
<1>1. /\ dev \in Device /\ worker \in WorkerType /\ host \in HostType
      /\ dev.fault = "none" /\ Phases(dev, worker, host)
  BY InvParts
<1>2. Stuck /\ dev' = dev /\ worker' = worker /\ host' = [host EXCEPT !.stage = "error"]
  BY DEF TimeOut, Patient
<1>3. /\ host.stage \in {"data", "ack"} /\ Quiet(dev, worker)
      /\ ~(IF host.stage = "data"
           THEN IF host.kind = "write" THEN CanSendData ELSE CanFetch
           ELSE IF host.kind = "read" THEN CanSendAck ELSE CanFetch)
  BY <1>2 DEF Stuck, WorkerQuiet
<1>4. InCommand(dev, worker, host) /\ SameCommand(dev, host)
  BY <1>1, <1>3 DEF Phases, InCommand, SameCommand
<1>5. ~Pending(dev, worker)
  BY <1>1, <1>3, <1>4, QuietOrPending
<1>6. ~Acting(dev, worker, host)
  BY <1>5 DEF Acting
<1>7. ~Writing(dev, worker, host)
  <2> SUFFICES ASSUME Writing(dev, worker, host) PROVE FALSE
    OBVIOUS
  <2>1. /\ dev.out.xfer = "stream" /\ ~dev.out.halt /\ ~dev.out.got /\ dev.out.left > 0
        /\ host.left = dev.out.left /\ host.kind = "write"
    BY <1>5 DEF Writing
  <2>2. host.stage = "data"
    BY <2>1 DEF Writing
  <2>3. QED BY <1>3, <2>1, <2>2 DEF CanSendData
<1>8. ~Reading(dev, worker, host)
  <2> SUFFICES ASSUME Reading(dev, worker, host) PROVE FALSE
    OBVIOUS
  <2>1. /\ host.kind = "read" /\ host.stage = "data" /\ ~dev.in.halt
        /\ ~(dev.in.left > 0 /\ dev.in.ready < 2)
        /\ host.left = dev.in.left + dev.in.ready /\ host.left > 0
    BY <1>5 DEF Reading
  <2>2. dev.in.left \in Nat /\ dev.in.ready \in Nat
    BY <1>1, DeviceParts, InParts
  <2>3. dev.in.ready > 0
    BY <2>1, <2>2
  <2>4. QED BY <1>3, <2>1, <2>3 DEF CanFetch
<1>9. ~Acked(dev, worker, host)
  BY <1>3, IdleFields DEF Acked, CanSendAck, CanFetch
<1>10. Errored(dev, worker)
  BY <1>4, <1>6, <1>7, <1>8, <1>9 DEF InCommand, Refused, Failed, Errored
<1>11. QED BY <1>2, <1>3, <1>10, ErrorKeeps

(* PICOBOOT_IF_RESET between commands, or after an error. *)
LEMMA InterfaceResetKeeps ==
  ASSUME PicobootInv, InterfaceReset
  PROVE  PicobootInv'
<1>1. /\ dev \in Device /\ worker \in WorkerType /\ host \in HostType
      /\ dev.fault = "none" /\ Phases(dev, worker, host)
  BY InvParts
<1>2. /\ host.stage \in {"idle", "error"} /\ dev' = Reset(dev) /\ worker' = worker
      /\ host' = [host EXCEPT !.stage = "idle", !.excl = FALSE]
  BY DEF InterfaceReset
<1>3. worker.phase = "idle"
  BY <1>1, <1>2 DEF Phases, Ready, Errored, Quiet
<1>4. \A b \in BOOLEAN :
        LET e == [dev EXCEPT !.out = OutDefault, !.in = InIdle, !.status = NoStatus,
                             !.slot = NoTask, !.disabled = b]
        IN  /\ e \in Device /\ e.out = OutDefault /\ e.in = InIdle /\ e.status = NoStatus
            /\ e.slot = NoTask /\ e.disabled = b /\ e.fault = dev.fault
  BY <1>1, IdleTypes, DeviceShape
<1>5. /\ dev' \in Device /\ dev'.out = OutDefault /\ dev'.in = InIdle /\ dev'.status = NoStatus
      /\ dev'.slot = NoTask /\ ~dev'.disabled /\ dev'.fault = "none"
  BY <1>1, <1>2, <1>4 DEF Reset
<1>6. Ready(dev', worker)
  BY <1>3, <1>5 DEF Ready, Quiet, NoStatus
<1>7. host' \in HostType /\ host'.stage = "idle"
  <2>1. \A s \in Stages, b \in BOOLEAN :
          LET g == [host EXCEPT !.stage = s, !.excl = b] IN g \in HostType /\ g.stage = s
    BY <1>1 DEF HostType
  <2>2. "idle" \in Stages
    BY DEF Stages
  <2>3. QED BY <1>2, <2>1, <2>2
<1>8. Phases(dev', worker', host')
  BY <1>2, <1>5, <1>6, <1>7 DEF Phases
<1>9. QED BY <1>1, <1>2, <1>5, <1>7, <1>8, Concluded

(* CLEAR_FEATURE(ENDPOINT_HALT) on one of the endpoints. *)
LEMMA ClearHaltKeeps ==
  ASSUME PicobootInv, NEW side \in {"in", "out"}, ClearHalt(side)
  PROVE  PicobootInv'
<1>1. /\ dev \in Device /\ worker \in WorkerType /\ host \in HostType
      /\ dev.fault = "none" /\ Phases(dev, worker, host)
  BY InvParts
<1>2. /\ host.stage = "error" /\ worker' = worker /\ host' = host
      /\ dev' = IF side = "out" THEN [dev EXCEPT !.out = OutDefault]
                ELSE [dev EXCEPT !.in = InIdle]
  BY DEF ClearHalt
<1>3. Errored(dev, worker)
  BY <1>1, <1>2 DEF Phases
<1>4. /\ dev' \in Device /\ Aside(dev, dev') /\ dev'.slot = dev.slot
      /\ dev'.status = dev.status /\ dev'.out \in {dev.out, OutDefault}
      /\ dev'.in \in {dev.in, InIdle}
  <2>1. CASE side = "out"
    BY <1>1, <1>2, <2>1, IdleTypes, DeviceShape DEF Aside
  <2>2. CASE side # "out"
    BY <1>1, <1>2, <2>2, IdleTypes, DeviceShape DEF Aside
  <2>3. QED BY <2>1, <2>2
<1>5. Errored(dev', worker)
  BY <1>3, <1>4 DEF Errored, Quiet
<1>6. Phases(dev', worker', host')
  BY <1>1, <1>2, <1>4, <1>5 DEF Phases, Aside
<1>7. QED BY <1>1, <1>2, <1>4, <1>6, Concluded DEF Aside

(* The host goes on without a reset once both endpoints work. *)
LEMMA ResumeKeeps ==
  ASSUME PicobootInv, Resume
  PROVE  PicobootInv'
<1>1. /\ dev \in Device /\ worker \in WorkerType /\ host \in HostType
      /\ dev.fault = "none" /\ Phases(dev, worker, host)
  BY InvParts
<1>2. /\ host.stage = "error" /\ dev.out.xfer = "cmd" /\ dev.in = InIdle
      /\ dev' = dev /\ worker' = worker /\ host' = [host EXCEPT !.stage = "idle"]
  BY DEF Resume, CanCommand
<1>3. Ready(dev, worker)
  <2>1. Errored(dev, worker)
    BY <1>1, <1>2 DEF Phases
  <2>2. QED BY <1>2, <2>1, IdleFields DEF Errored, Ready
<1>4. host' \in HostType /\ host'.stage = "idle" /\ host'.excl = host.excl
  BY <1>1, <1>2 DEF HostType, Stages
<1>5. Phases(dev', worker', host')
  BY <1>1, <1>2, <1>3, <1>4 DEF Phases
<1>6. QED BY <1>1, <1>2, <1>4, <1>5, Concluded

(* The state after SET_CONFIGURATION, to which the watchdog returns. *)
LEMMA InitWell ==
  /\ InitDevice \in Device /\ InitWorker \in WorkerType /\ InitHost \in HostType
  /\ InitDevice.fault = "none" /\ InitHost.stage = "idle" /\ InitDevice.slot = NoTask
  /\ Phases(InitDevice, InitWorker, InitHost)
<1>1. InitDevice \in Device
  <2>1. [id |-> 0, chunk |-> 0] \in BufType
    BY Bounds DEF BufType
  <2>2. "none" \in Streams /\ "none" \in Faults
    BY DEF Streams, Faults
  <2>3. QED BY <2>1, <2>2, IdleTypes, DeviceShape DEF InitDevice
<1>2. InitWorker \in WorkerType
  BY IdleTypes DEF InitWorker, WorkerType, WorkerPhases, Results
<1>3. InitHost \in HostType
  BY Bounds DEF InitHost, HostType, Stages, Kinds
<1>4. /\ InitDevice.fault = "none" /\ InitHost.stage = "idle" /\ InitDevice.slot = NoTask
      /\ InitDevice.out = OutDefault /\ InitDevice.in = InIdle /\ InitDevice.status = NoStatus
      /\ ~InitDevice.disabled /\ InitWorker.phase = "idle"
  BY DEF InitDevice, InitHost, InitWorker
<1>5. Ready(InitDevice, InitWorker)
  BY <1>4 DEF Ready, Quiet, NoStatus
<1>6. QED BY <1>1, <1>2, <1>3, <1>4, <1>5 DEF Phases

-----------------------------------------------------------------------------
(* With a patient host, the interface, the worker and the host are always in
   the same phase of the same command, and no assertion of the transfer code
   fails, wherever the handlers interrupt the worker. *)
THEOREM InvariantHolds ==
  ASSUME Patient
  PROVE  Spec => []PicobootInv
<1>1. Init => PicobootInv
  BY InitWell DEF Init, PicobootInv, TypeOK, AssertsHold, WorkerType, HostType, WorkerPhases,
                  Results, Stages, IdType, Chunks
<1>2. PicobootInv /\ [Next]_vars => PicobootInv'
  <2> SUFFICES ASSUME PicobootInv, [Next]_vars PROVE PicobootInv'
    OBVIOUS
  <2>1. CASE Worker
    <3>1. CASE Dequeue
      BY <3>1, DequeueKeeps
    <3>2. CASE \E r \in {"ok", "error"} : Execute(r)
      BY <3>2, ExecuteKeeps DEF Results
    <3>3. CASE Complete
      BY <3>3, CompleteKeeps
    <3>4. QED BY <2>1, <3>1, <3>2, <3>3 DEF Worker
  <2>2. CASE Commands
    BY <2>2, CommandKeeps DEF Commands
  <2>3. CASE HostMoves
    <3>1. CASE SendData
      BY <3>1, SendDataKeeps
    <3>2. CASE FetchData
      BY <3>2, FetchDataKeeps
    <3>3. CASE TakeAck
      BY <3>3, TakeAckKeeps
    <3>4. CASE SeeStall
      BY <3>4, SeeStallKeeps
    <3>5. QED BY <2>3, <3>1, <3>2, <3>3, <3>4 DEF HostMoves
  <2>4. CASE TimeOut
    BY <2>4, TimeOutKeeps
  <2>5. CASE InterfaceReset
    BY <2>5, InterfaceResetKeeps
  <2>6. CASE \E side \in {"in", "out"} : ClearHalt(side)
    BY <2>6, ClearHaltKeeps
  <2>7. CASE Resume
    BY <2>7, ResumeKeeps
  <2>8. CASE WatchdogFires
    <3>1. dev' = InitDevice /\ worker' = InitWorker /\ host' = InitHost
      BY <2>8 DEF WatchdogFires
    <3>2. QED BY <3>1, InitWell, Concluded
  <2>9. CASE UNCHANGED vars
    BY <2>9 DEF vars, PicobootInv, TypeOK, AssertsHold
  <2>10. QED BY <2>1, <2>2, <2>3, <2>4, <2>5, <2>6, <2>7, <2>8, <2>9 DEF Next
<1>3. QED BY <1>1, <1>2, PTL DEF Spec

(* A command is acknowledged only when the worker has run its last task. *)
THEOREM AckAlwaysAfterWork ==
  ASSUME Patient
  PROVE  Spec => []AckAfterWork
<1>1. PicobootInv => AckAfterWork
  <2> SUFFICES ASSUME PicobootInv, AckOffered, host.kind # "reboot"
               PROVE  WorkerQuiet /\ Worked(dev, worker, host)
    BY DEF AckAfterWork, Worked
  <2>1. InCommand(dev, worker, host) /\ host.stage = "ack"
    BY DEF PicobootInv, Phases, AckOffered
  <2>2. Acked(dev, worker, host)
    BY <2>1, IdleFields DEF AckOffered, CanSendAck, CanFetch,
                            InCommand, Refused, Acting, Writing, Reading, Failed
  <2>3. QED BY <2>2 DEF Acked, WorkerQuiet
<1>2. QED BY <1>1, InvariantHolds, PTL

(* The one buffer holds the data of the task that uses it. *)
THEOREM DataAlwaysInPlace ==
  ASSUME Patient
  PROVE  Spec => []DataInPlace
<1>1. PicobootInv => DataInPlace
  <2> SUFFICES ASSUME PicobootInv, NEW phase \in {"taken", "ran"}, worker.phase = phase,
                      \/ phase = "taken" /\ worker.task.kind = "write"
                      \/ phase = "ran" /\ worker.task.kind = "read" /\ worker.result = "ok"
               PROVE  dev.buf = [id |-> worker.task.id, chunk |-> worker.task.chunk]
    BY DEF DataInPlace
  <2>1. AtWork(dev, worker, host)
    BY InvParts, WorkInCommand DEF Quiet
  <2>2. worker.task = dev.task
    BY <2>1 DEF AtWork, Pending
  <2>3. QED BY <2>1, <2>2 DEF AtWork, SameCommand, Acting, Writing, Reading
<1>2. QED BY <1>1, InvariantHolds, PTL

(* bInProgress tells whether there is work that a reset has to stop. *)
THEOREM InProgressAlwaysIsBusy ==
  ASSUME Patient
  PROVE  Spec => []InProgressIsBusy
<1>1. PicobootInv => InProgressIsBusy
  <2> SUFFICES ASSUME PicobootInv PROVE InProgressIsBusy
    OBVIOUS
  <2>1. host \in HostType /\ Phases(dev, worker, host)
    BY InvParts
  <2>2. CASE host.stage = "idle"
    BY <2>1, <2>2, IdleFields DEF Phases, Ready, InProgressIsBusy, WorkerQuiet
  <2>3. CASE host.stage = "error"
    BY <2>1, <2>3, IdleFields DEF Phases, Errored, InProgressIsBusy, WorkerQuiet
  <2>4. CASE host.stage \in {"data", "ack"}
    <3>1. InCommand(dev, worker, host) /\ SameCommand(dev, host)
      BY <2>1, <2>4 DEF Phases, InCommand, SameCommand
    <3>2. Acting(dev, worker, host) => ~WorkerQuiet /\ dev.status.busy
      BY <2>1, <3>1, QuietOrPending DEF Acting, WorkerQuiet
    <3>3. Writing(dev, worker, host) => dev.out.xfer = "stream" /\ dev.status.busy
      BY DEF Writing
    <3>4. Reading(dev, worker, host) => dev.in.xfer = "stream" /\ dev.status.busy
      BY DEF Reading
    <3>5. Refused(dev, worker, host) \/ Failed(dev, worker, host) \/ Acked(dev, worker, host)
            => /\ WorkerQuiet /\ ~dev.status.busy
               /\ dev.in.xfer # "stream" /\ dev.out.xfer # "stream"
      BY IdleFields DEF Refused, Failed, Acked, WorkerQuiet
    <3>6. QED BY <3>1, <3>2, <3>3, <3>4, <3>5 DEF InCommand, InProgressIsBusy
  <2>5. QED BY <2>1, <2>2, <2>3, <2>4, HostParts DEF Stages
<1>2. QED BY <1>1, InvariantHolds, PTL

(* Between commands nothing of the last one is left. *)
THEOREM AlwaysReadyForCommand ==
  ASSUME Patient
  PROVE  Spec => []ReadyForCommand
<1>1. PicobootInv => ReadyForCommand
  BY IdleFields DEF PicobootInv, Phases, Ready, ReadyForCommand, CanCommand, WorkerQuiet,
                    ExclusiveIsHosts
<1>2. QED BY <1>1, InvariantHolds, PTL

(* No step overwrites a task that waits. *)
LEMMA SlotKept ==
  ASSUME PicobootInv, Next, dev.slot # NoTask
  PROVE  dev'.slot \in {dev.slot, NoTask}
<1>1. dev \in Device /\ host \in HostType /\ Phases(dev, worker, host)
  BY InvParts
<1>2. AtWork(dev, worker, host)
  BY <1>1, WorkInCommand DEF Quiet
<1>3. worker.phase = "idle" /\ host.stage \in {"data", "ack"}
  BY <1>2 DEF AtWork, Pending
<1>4. CASE Worker
  <2>1. Dequeue
    BY <1>3, <1>4 DEF Worker, Execute, Complete
  <2>2. dev' = [dev EXCEPT !.slot = NoTask]
    BY <2>1 DEF Dequeue
  <2>3. QED BY <1>1, <2>2, DeviceShape
<1>5. CASE SendData
  <2>1. Writing(dev, worker, host) /\ dev.out.busy
    BY <1>2, <1>5 DEF AtWork, Acting, Reading, SendData
  <2>2. dev' = [dev EXCEPT !.out.got = TRUE]
    BY <1>5, <2>1 DEF SendData
  <2>3. QED BY <1>1, <2>2, DeviceShape
<1>6. CASE FetchData
  <2>1. Reading(dev, worker, host) /\ dev.in.busy
    BY <1>2, <1>6 DEF AtWork, Acting, Writing, FetchData
  <2>2. dev' = Fetched(dev) /\ dev.in.ready > 0
    BY <1>6 DEF FetchData, CanFetch
  <2>3. PICK f \in Device :
          /\ FilledIn(f, dev') /\ Aside(dev, f) /\ f.out = dev.out /\ f.slot = dev.slot
          /\ f.buf = dev.buf /\ f.status = dev.status
          /\ f.in = [dev.in EXCEPT !.ready = @ - 1]
    BY <1>1, <2>1, <2>2, NextFetched
  <2>4. f.in.busy
    BY <1>1, <2>1, <2>3, DeviceParts DEF InType
  <2>5. QED BY <2>3, <2>4 DEF FilledIn, Fillable
<1>7. ~TakeAck
  BY <1>2, IdleFields
     DEF TakeAck, AtWork, Acting, Writing, Reading, CanFetch, SameCommand
<1>8. CASE SeeStall \/ TimeOut
  BY <1>8 DEF SeeStall, TimeOut
<1>9. ~(\E k \in Kinds, u \in Tokens, n \in 1..MaxChunks : SendCommand(k, u, n))
  BY <1>3 DEF SendCommand
<1>10. ~InterfaceReset /\ ~Resume /\ \A side \in {"in", "out"} : ~ClearHalt(side)
  BY <1>3 DEF InterfaceReset, Resume, ClearHalt
<1>11. CASE WatchdogFires
  BY <1>11, InitWell DEF WatchdogFires
<1>12. QED BY <1>4, <1>5, <1>6, <1>7, <1>8, <1>9, <1>10, <1>11 DEF Next, Commands, HostMoves

(* The queue has one slot, and needs no more. *)
THEOREM TasksNeverLost ==
  ASSUME Patient
  PROVE  Spec => NoTaskLost
<1>1. PicobootInv /\ [Next]_vars =>
        [dev.slot # NoTask /\ dev'.slot # dev.slot => dev'.slot = NoTask]_vars
  BY SlotKept
<1>2. QED BY <1>1, InvariantHolds, PTL DEF Spec, NoTaskLost

=============================================================================
