------------------------------- MODULE Picoboot -------------------------------
(***************************************************************************)
(* The PICOBOOT interface: the command handler and stream callbacks of     *)
(* bootrom/usb_boot_device.c, which run in the USB interrupt, the worker   *)
(* of bootrom/async_task.c, which runs the queued tasks in thread mode,    *)
(* and a host that sends commands, moves their data, takes or sends the    *)
(* acknowledgement, and resets the interface.  The worker's execution of   *)
(* a task is interrupted by the handlers; its completion callback is not.  *)
(*                                                                         *)
(* An endpoint is seen here as the transfer it runs: UsbEndpoint has its   *)
(* buffers, toggles and late completions.  A packet stands for a chunk     *)
(* (FLASH_PAGE_SIZE bytes, one task).  The virtual disk queues no task:    *)
(* its only queue_task is behind a call that does not return, so the       *)
(* worker always finds virtual_disk_queue empty, and the check of the last *)
(* mutation's source never fails.                                          *)
(*                                                                         *)
(* Operators named Faulty... are variants with a plausible fault, against  *)
(* which the properties are tested.                                        *)
(***************************************************************************)
EXTENDS Naturals

CONSTANTS
  MaxChunks,    \* chunks in the longest data phase (a bound of the model)
  Ids,          \* real_token wraps around after Ids commands (a bound)
  Tokens,       \* tokens the host chooses from
  Impatient     \* the host may give up on a command that is being executed

ASSUME BoundsAssumption == MaxChunks \in Nat \ {0} /\ Ids \in Nat \ {0, 1}
ASSUME TokensAssumption == Tokens \subseteq Nat \ {0} /\ Tokens # {}
ASSUME ImpatientAssumption == Impatient \in BOOLEAN

VARIABLES
  dev,          \* what the interrupt handlers and the worker share
  worker,       \* the worker's own copy of a task, and how far it got
  host          \* the host's side of the current command

vars == <<dev, worker, host>>

DataKinds == {"read", "write"}
(* "act" stands for FLASH_ERASE, EXIT_XIP, EXEC, ...: no data, one task;   *)
(* "bad" for a packet without the magic, an unknown command, bad lengths.  *)
Kinds == DataKinds \cup {"act", "exclusive", "release", "reboot", "bad"}

(* struct async_task: id is `token', user is picoboot_user_token, chunk    *)
(* is how far transfer_addr has advanced.                                  *)
Task == [id : 0..(Ids - 1), user : Tokens \cup {0}, kind : Kinds \cup {"none"},
         chunk : 0..MaxChunks]

NoTask == [id |-> 0, user |-> 0, kind |-> "none", chunk |-> 0]

(* out     picoboot_out: its transfer, packets it still has to handle, one *)
(*         outstanding (busy), one deferred behind it (got), received      *)
(*         chunks (pos)                                                    *)
(* in      picoboot_in: packets to fill, one outstanding, packets ready    *)
(* task, stream   _picoboot_stream_transfer: its task, its endpoint        *)
(* status  _picoboot_current_cmd_status; rd is bit 7 of bCmdId             *)
(* slot    picoboot_queue.task, or NoTask when it is not full              *)
(* buf     the command and chunk whose data is in the static _buffer       *)
(* disabled, rebooting   virtual_disk_queue.disable, watchdog_rebooting()  *)
(* fault   the first assertion that failed (the build goes on without)     *)
Device ==
  [out : [xfer : {"none", "cmd", "stream", "ack"}, left : 0..MaxChunks,
          busy : BOOLEAN, got : BOOLEAN, pos : 0..MaxChunks, halt : BOOLEAN],
   in : [xfer : {"none", "stream", "ack"}, left : 0..MaxChunks,
         busy : BOOLEAN, ready : 0..2, halt : BOOLEAN],
   task : Task, stream : {"none", "in", "out"},
   status : [user : Tokens \cup {0}, code : {"ok", "unknown", "error"},
             busy : BOOLEAN, rd : BOOLEAN],
   slot : Task, buf : [id : 0..(Ids - 1), chunk : 0..MaxChunks],
   disabled : BOOLEAN, rebooting : BOOLEAN,
   fault : {"none", "no_transfer", "not_outstanding", "already_running"}]

OutIdle    == [xfer |-> "none", left |-> 0, busy |-> FALSE, got |-> FALSE,
               pos |-> 0, halt |-> FALSE]
OutDefault == [OutIdle EXCEPT !.xfer = "cmd", !.left = 1]
InIdle     == [xfer |-> "none", left |-> 0, busy |-> FALSE, ready |-> 0,
               halt |-> FALSE]
NoStatus   == [user |-> 0, code |-> "ok", busy |-> FALSE, rd |-> FALSE]

(* After SET_CONFIGURATION: _usb_boot_on_configure has reset the interface. *)
InitDevice ==
  [out |-> OutDefault, in |-> InIdle, task |-> NoTask, stream |-> "none",
   status |-> NoStatus, slot |-> NoTask, buf |-> [id |-> 0, chunk |-> 0],
   disabled |-> FALSE, rebooting |-> FALSE, fault |-> "none"]

InitWorker == [phase |-> "idle", task |-> NoTask, result |-> "ok"]
InitHost ==
  [stage |-> "idle", kind |-> "bad", id |-> 0, left |-> 0, size |-> 0, excl |-> FALSE]

Init == dev = InitDevice /\ worker = InitWorker /\ host = InitHost

-----------------------------------------------------------------------------
(* An assertion that does not hold. *)
Fails(d, f) == [d EXCEPT !.fault = IF @ = "none" THEN f ELSE @]

(* queue_task: one slot, overwritten if it is full. *)
QueueTask(d) == [d EXCEPT !.slot = d.task]

FaultyFillInAgain(d) ==
  IF d.in.xfer = "stream" /\ d.in.left > 0 /\ d.in.ready < 2 /\ ~d.in.halt
  THEN QueueTask([d EXCEPT !.in.busy = TRUE])
  ELSE d

(* on_packet for a packet of a READ that can be filled: _picoboot_on_stream_chunk
   queues the task that fetches its data, and leaves the packet outstanding. *)
FillIn(d) ==
  IF d.in.xfer = "stream" /\ d.in.left > 0 /\ d.in.ready < 2 /\ ~d.in.halt /\ ~d.in.busy
  THEN QueueTask([d EXCEPT !.in.busy = TRUE])
  ELSE d

FaultyAckBusy(d) ==
  IF d.in.xfer # "none" THEN Fails(d, "already_running")
  ELSE IF d.status.rd THEN [d EXCEPT !.out.xfer = "ack", !.out.left = 1]
  ELSE [d EXCEPT !.in.xfer = "ack", !.in.ready = 1]

FaultyAckOnIn(d) ==
  IF d.in.xfer # "none" THEN Fails(d, "already_running")
  ELSE [d EXCEPT !.status.busy = FALSE, !.in.xfer = "ack", !.in.ready = 1]

(* _picoboot_ack: an empty transfer against the direction of the data.  On
   a halted endpoint it would wait for the end of the halt. *)
Ack(d) ==
  LET s == [d EXCEPT !.status.busy = FALSE]
  IN  IF (IF d.status.rd THEN d.out.xfer ELSE d.in.xfer) # "none"
      THEN Fails(s, "already_running")
      ELSE IF d.status.rd THEN [s EXCEPT !.out.xfer = "ack", !.out.left = 1]
      ELSE IF d.in.halt THEN [s EXCEPT !.in.xfer = "ack", !.in.left = 1]
      ELSE [s EXCEPT !.in.xfer = "ack", !.in.ready = @ + 1]

FaultyWaitCommand(d) == d

(* _tf_picoboot_wait_command: the default transfer, for the next command. *)
WaitCommand(d) ==
  IF d.out.halt \/ d.out.xfer = "cmd" THEN d
  ELSE IF d.out.xfer # "none" THEN Fails(d, "already_running")
  ELSE [d EXCEPT !.out = OutDefault]

(* on_complete of the transfer that has just ended. *)
OnComplete(d, xfer) == IF xfer = "stream" THEN Ack(d) ELSE WaitCommand(d)

(* _picoboot_on_stream_chunk for a chunk of a WRITE. *)
OutChunk(d) ==
  QueueTask([d EXCEPT !.out.busy = TRUE, !.out.left = @ - 1, !.out.pos = @ + 1,
                      !.buf = [id |-> d.task.id, chunk |-> d.out.pos]])

(* usb_packet_done on picoboot_in: the packet is given to the controller. *)
InPacketDone(d) ==
  IF d.in.xfer = "none" THEN Fails(d, "no_transfer")
  ELSE IF ~d.in.busy THEN Fails(d, "not_outstanding")
  ELSE IF d.in.halt THEN [d EXCEPT !.in.xfer = "none", !.in.left = 0, !.in.busy = FALSE]
  ELSE FillIn([d EXCEPT !.in.busy = FALSE, !.in.left = @ - 1, !.in.ready = @ + 1])

FaultyOutPacketDone(d) ==
  IF d.out.xfer = "none" THEN Fails(d, "no_transfer")
  ELSE IF ~d.out.busy THEN Fails(d, "not_outstanding")
  ELSE IF d.out.halt THEN [d EXCEPT !.out = [OutIdle EXCEPT !.halt = TRUE]]
  ELSE IF d.out.left <= 1 THEN OnComplete([d EXCEPT !.out = OutIdle], "stream")
  ELSE IF d.out.got THEN OutChunk([d EXCEPT !.out.got = FALSE])
  ELSE [d EXCEPT !.out.busy = FALSE]

(* usb_packet_done on picoboot_out: the transfer completes, or the deferred
   packet is handled. *)
OutPacketDone(d) ==
  IF d.out.xfer = "none" THEN Fails(d, "no_transfer")
  ELSE IF ~d.out.busy THEN Fails(d, "not_outstanding")
  ELSE IF d.out.halt THEN [d EXCEPT !.out = [OutIdle EXCEPT !.halt = TRUE]]
  ELSE IF d.out.left = 0 THEN OnComplete([d EXCEPT !.out = OutIdle], "stream")
  ELSE IF d.out.got THEN OutChunk([d EXCEPT !.out.got = FALSE])
  ELSE [d EXCEPT !.out.busy = FALSE]

(* The task is for the command the host sent last, as far as its token tells. *)
IsCurrent(d, t) == t.user = d.task.user

(* _atc_ack *)
AtcAck(d, t) == IF IsCurrent(d, t) THEN Ack(d) ELSE d

(* _atc_chunk_task_done, up to its call of usb_stream_chunk_done *)
FaultyChunkResult(d, result) ==
  [d EXCEPT !.status.code = result, !.status.busy = @ /\ result = "ok",
            !.in.halt  = @ \/ (result # "ok" /\ d.stream = "in"),
            !.out.halt = @ \/ (result # "ok" /\ d.stream = "out")]

ChunkResult(d, result) ==
  [d EXCEPT !.status.code = result,
            !.status.busy = @ /\ result = "ok",
            !.in.halt     = @ \/ (result # "ok" /\ d.stream = "in"),
            !.out.halt    = @ \/ (result # "ok" /\ d.stream = "out"),
            !.task.chunk  = IF @ < MaxChunks THEN @ + 1 ELSE @]

FaultyAtcChunkTaskDone(d, t, result) ==
  IF ~IsCurrent(d, t) THEN d ELSE InPacketDone(ChunkResult(d, result))

AtcChunkTaskDone(d, t, result) ==
  IF ~IsCurrent(d, t) THEN d
  ELSE IF d.stream = "in" THEN InPacketDone(ChunkResult(d, result))
  ELSE OutPacketDone(ChunkResult(d, result))

(* The callback that was queued with the task. *)
Callback(d, t, result) ==
  IF t.kind \in DataKinds THEN AtcChunkTaskDone(d, t, result) ELSE AtcAck(d, t)

-----------------------------------------------------------------------------
(* _picoboot_cmd_packet: the command c, then usb_packet_done, which ends the
   command transfer and starts the stream chained to it. *)
Accepted(d, c) ==
  [d EXCEPT !.task   = [id |-> c.id, user |-> c.user, kind |-> c.kind, chunk |-> 0],
            !.status = [user |-> c.user, rd |-> c.kind = "read",
                        code |-> IF c.kind = "bad" THEN "unknown" ELSE "ok",
                        busy |-> c.kind \notin {"bad", "reboot"}],
            !.out    = OutIdle]

HandleCommand(d, c) ==
  LET a == Accepted(d, c)
  IN  CASE c.kind = "bad" -> [a EXCEPT !.in.halt = TRUE, !.out.halt = TRUE]
        [] c.kind = "reboot" -> Ack([a EXCEPT !.rebooting = TRUE])
        [] c.kind = "write" ->
             [a EXCEPT !.stream = "out", !.out.xfer = "stream", !.out.left = c.size]
        [] c.kind = "read" ->
             IF d.in.xfer # "none" THEN Fails(a, "already_running")
             ELSE FillIn([a EXCEPT !.stream = "in", !.in.xfer = "stream", !.in.left = c.size])
        [] OTHER -> QueueTask(a)

(* _picoboot_reset: both endpoints, the status and the queues; the stream's
   task, and what the worker is doing, stay. *)
Reset(d) ==
  [d EXCEPT !.out = OutDefault, !.in = InIdle, !.status = NoStatus,
            !.slot = NoTask, !.disabled = FALSE]

-----------------------------------------------------------------------------
(* async_task_worker: dequeue_task ... *)
Dequeue ==
  /\ worker.phase = "idle"
  /\ dev.slot # NoTask
  /\ worker' = [worker EXCEPT !.phase = "taken", !.task = dev.slot]
  /\ dev' = [dev EXCEPT !.slot = NoTask]
  /\ UNCHANGED host

(* ... execute_task, as far as _execute_task: it refuses everything while
   the watchdog reboots, and may fail on an address or in the flash ... *)
Execute(result) ==
  LET t == worker.task
  IN  /\ worker.phase = "taken"
      /\ dev.rebooting => result = "error"
      /\ result = "error" => dev.rebooting \/ t.kind \in DataKinds \cup {"act"}
      /\ worker' = [worker EXCEPT !.phase = "ran", !.result = result]
      /\ dev' = IF result = "error" THEN dev
                ELSE [dev EXCEPT
                        !.disabled = IF t.kind = "exclusive" THEN TRUE
                                     ELSE IF t.kind = "release" THEN FALSE ELSE @,
                        !.buf = IF t.kind = "read"
                                THEN [id |-> t.id, chunk |-> t.chunk] ELSE @]
      /\ UNCHANGED host

(* ... and the callback, with interrupts disabled. *)
Complete ==
  /\ worker.phase = "ran"
  /\ worker' = [worker EXCEPT !.phase = "idle"]
  /\ dev' = Callback(dev, worker.task, worker.result)
  /\ UNCHANGED host

-----------------------------------------------------------------------------
(* The host's moves that the device lets through. *)
CanCommand   == dev.out.xfer = "cmd" /\ ~dev.out.halt
CanSendData  == dev.out.xfer = "stream" /\ ~dev.out.halt /\ ~dev.out.got /\ dev.out.left > 0
CanSendAck   == dev.out.xfer = "ack" /\ ~dev.out.halt
CanFetch     == dev.in.ready > 0 /\ ~dev.in.halt

(* The packet on IN is fetched, and the interrupt for it handled. *)
Fetched(d) ==
  LET f == [d EXCEPT !.in.ready = @ - 1]
  IN  IF f.in.ready = 0 /\ f.in.left = 0 /\ ~f.in.busy
      THEN OnComplete([f EXCEPT !.in.xfer = "none"], d.in.xfer)
      ELSE FillIn(f)

SendCommand(kind, user, size) ==
  LET id == (host.id + 1) % Ids
  IN  /\ host.stage = "idle"
      /\ CanCommand
      /\ size = 1 \/ kind \in DataKinds
      /\ dev' = HandleCommand(dev, [id |-> id, user |-> user, kind |-> kind, size |-> size])
      /\ host' = [host EXCEPT !.kind = kind, !.id = id, !.size = size,
                              !.left = IF kind \in DataKinds THEN size ELSE 0,
                              !.stage = IF kind \in DataKinds THEN "data" ELSE "ack",
                              !.excl = @ \/ kind = "exclusive"]
      /\ UNCHANGED worker

Moved == [host EXCEPT !.left = @ - 1, !.stage = IF host.left = 1 THEN "ack" ELSE "data"]

SendData ==
  /\ host.stage = "data" /\ host.kind = "write"
  /\ CanSendData
  /\ dev' = IF dev.out.busy THEN [dev EXCEPT !.out.got = TRUE] ELSE OutChunk(dev)
  /\ host' = Moved
  /\ UNCHANGED worker

FetchData ==
  /\ host.stage = "data" /\ host.kind = "read"
  /\ CanFetch
  /\ dev' = Fetched(dev)
  /\ host' = Moved
  /\ UNCHANGED worker

TakeAck ==
  /\ host.stage = "ack"
  /\ IF host.kind = "read" THEN CanSendAck ELSE CanFetch
  /\ dev' = IF host.kind = "read" THEN OnComplete([dev EXCEPT !.out = OutIdle], "ack")
            ELSE Fetched(dev)
  /\ host' = [host EXCEPT !.stage = "idle", !.excl = @ /\ host.kind # "release"]
  /\ UNCHANGED worker

(* The endpoint the host is using answers with a STALL. *)
UsesOut == IF host.stage = "data" THEN host.kind = "write" ELSE host.kind = "read"
SeeStall ==
  /\ host.stage \in {"data", "ack"}
  /\ IF UsesOut THEN dev.out.halt ELSE dev.in.halt
  /\ host' = [host EXCEPT !.stage = "error"]
  /\ UNCHANGED <<dev, worker>>

(* Nothing can move any more: the host times out.  An impatient one does so
   at any time. *)
Quiet(d, w) == w.phase = "idle" /\ d.slot = NoTask
WorkerQuiet == Quiet(dev, worker)
Stuck ==
  /\ host.stage \in {"data", "ack"}
  /\ WorkerQuiet
  /\ ~(IF UsesOut THEN dev.out.halt ELSE dev.in.halt)
  /\ ~(IF host.stage = "data"
       THEN IF host.kind = "write" THEN CanSendData ELSE CanFetch
       ELSE IF host.kind = "read" THEN CanSendAck ELSE CanFetch)

TimeOut ==
  /\ Stuck \/ (Impatient /\ host.stage \in {"data", "ack"})
  /\ host' = [host EXCEPT !.stage = "error"]
  /\ UNCHANGED <<dev, worker>>

(* PICOBOOT_IF_RESET *)
InterfaceReset ==
  /\ host.stage \in {"idle", "error"}
  /\ dev' = Reset(dev)
  /\ host' = [host EXCEPT !.stage = "idle", !.excl = FALSE]
  /\ UNCHANGED worker

(* CLEAR_FEATURE(ENDPOINT_HALT) on one endpoint *)
ClearHalt(side) ==
  /\ host.stage = "error"
  /\ dev' = IF side = "out" THEN [dev EXCEPT !.out = OutDefault] ELSE [dev EXCEPT !.in = InIdle]
  /\ IF side = "out" THEN dev.out.halt ELSE dev.in.halt
  /\ UNCHANGED <<worker, host>>

(* Both endpoints work again: the host goes on without a reset. *)
Resume ==
  /\ host.stage = "error"
  /\ CanCommand
  /\ dev.in = InIdle
  /\ host' = [host EXCEPT !.stage = "idle"]
  /\ UNCHANGED <<dev, worker>>

(* The watchdog resets the chip, and the boot code starts again. *)
WatchdogFires ==
  /\ dev.rebooting
  /\ dev' = InitDevice /\ worker' = InitWorker /\ host' = InitHost

Worker == Dequeue \/ (\E r \in {"ok", "error"} : Execute(r)) \/ Complete

Commands == \E k \in Kinds, u \in Tokens, n \in 1..MaxChunks : SendCommand(k, u, n)

HostMoves == SendData \/ FetchData \/ TakeAck \/ SeeStall

Next ==
  /\ dev.fault = "none"
  /\ \/ Worker
     \/ Commands
     \/ HostMoves
     \/ TimeOut
     \/ InterfaceReset
     \/ \E side \in {"in", "out"} : ClearHalt(side)
     \/ Resume
     \/ WatchdogFires

Spec == Init /\ [][Next]_vars

(* The worker is the main loop, and the host keeps polling; it is the host's
   choice whether it ever times out, resets or sends another command. *)
LiveSpec == Spec /\ WF_vars(Worker) /\ WF_vars(HostMoves)

-----------------------------------------------------------------------------
(* Every variable holds a value of its type. *)
TypeOK ==
  /\ dev \in Device
  /\ worker \in [phase : {"idle", "taken", "ran"}, task : Task, result : {"ok", "error"}]
  /\ host \in [stage : {"idle", "data", "ack", "error"}, kind : Kinds, id : 0..(Ids - 1),
               left : 0..MaxChunks, size : 0..MaxChunks, excl : BOOLEAN]

(* usb_packet_done is called for an outstanding packet of a running transfer,
   and a transfer is started only where none runs (the assertions of
   usb_packet_done and usb_start_transfer). *)
AssertsHold == dev.fault = "none"

OutHalted == [OutIdle EXCEPT !.halt = TRUE]
OutAck    == [OutIdle EXCEPT !.xfer = "ack", !.left = 1]
InAck     == [InIdle EXCEPT !.xfer = "ack", !.ready = 1]
InHalted  == {[InIdle EXCEPT !.halt = TRUE, !.ready = n] : n \in 0..2}

(* The task of the command, or of its next chunk, waits or is executed. *)
Pending(d, w) ==
  IF w.phase = "idle" THEN d.slot = d.task ELSE d.slot = NoTask /\ w.task = d.task

(* The last task of the command has run. *)
Worked(d, w, h) ==
  /\ w.task.id = h.id /\ w.task.kind = h.kind /\ w.task.chunk = h.size - 1
  /\ h.kind \in DataKinds => d.status.code = "ok" /\ w.result = "ok"

(* Both endpoints refuse: the command was not one. *)
Refused(d, w, h) ==
  /\ h.stage = "ack" /\ h.kind = "bad"
  /\ d.out = OutHalted /\ d.in \in InHalted
  /\ Quiet(d, w) /\ ~d.status.busy

(* A command without data. *)
Acting(d, w, h) ==
  /\ h.stage = "ack" /\ h.kind \in {"act", "exclusive", "release"}
  /\ d.out = OutIdle /\ d.in = InIdle
  /\ Pending(d, w) /\ d.status.busy
  /\ d.task.chunk = 0 /\ h.size = 1
  /\ h.kind = "exclusive" => h.excl
  /\ h.kind = "release" /\ w.phase = "ran" /\ ~d.rebooting => ~d.disabled

(* The data phase of a WRITE: one chunk is with the worker, the next may have
   come already. *)
Writing(d, w, h) ==
  /\ h.kind = "write" /\ h.stage = (IF h.left > 0 THEN "data" ELSE "ack")
  /\ d.stream = "out" /\ d.in = InIdle
  /\ d.out.xfer = "stream" /\ ~d.out.halt
  /\ d.status.busy /\ d.status.code = "ok"
  /\ d.out.pos + d.out.left = h.size
  /\ h.left = (IF d.out.got THEN d.out.left - 1 ELSE d.out.left)
  /\ IF d.out.busy
     THEN /\ Pending(d, w) /\ d.task.chunk + 1 = d.out.pos
          /\ d.buf = [id |-> d.task.id, chunk |-> d.task.chunk]
     ELSE /\ Quiet(d, w) /\ d.task.chunk = d.out.pos
          /\ ~d.out.got /\ d.out.left > 0

(* That of a READ: the worker is at work while there is room for a packet. *)
Reading(d, w, h) ==
  /\ h.kind = "read" /\ h.stage = "data"
  /\ d.stream = "in" /\ d.out = OutIdle
  /\ d.in.xfer = "stream" /\ ~d.in.halt
  /\ d.status.busy /\ d.status.code = "ok"
  /\ d.task.chunk + d.in.left = h.size
  /\ h.left = d.in.left + d.in.ready /\ h.left > 0
  /\ d.in.busy <=> d.in.left > 0 /\ d.in.ready < 2
  /\ IF d.in.busy
     THEN /\ Pending(d, w)
          /\ w.phase = "ran" /\ w.result = "ok" =>
               d.buf = [id |-> d.task.id, chunk |-> d.task.chunk]
     ELSE Quiet(d, w)
  /\ d.in.left = 0 => Worked(d, w, h)

(* A chunk has failed, and with it the data phase. *)
Failed(d, w, h) ==
  /\ Quiet(d, w) /\ ~d.status.busy /\ d.status.code = "error"
  /\ \/ /\ h.kind = "write" /\ h.stage \in {"data", "ack"}
        /\ d.out = OutHalted /\ d.in = InIdle
     \/ /\ h.kind = "read" /\ h.stage = "data"
        /\ d.out = OutIdle /\ d.in \in InHalted

(* The acknowledgement is there. *)
Acked(d, w, h) ==
  /\ h.stage = "ack" /\ h.kind # "bad"
  /\ d.out = (IF h.kind = "read" THEN OutAck ELSE OutIdle)
  /\ d.in = (IF h.kind = "read" THEN InIdle ELSE InAck)
  /\ Quiet(d, w) /\ ~d.status.busy
  /\ h.kind # "reboot" => Worked(d, w, h)
  /\ h.kind = "release" /\ ~d.rebooting => ~d.disabled

InCommand(d, w, h) ==
  /\ d.task.id = h.id /\ d.task.kind = h.kind /\ d.status.rd = (h.kind = "read")
  /\ \/ Refused(d, w, h) \/ Acting(d, w, h) \/ Writing(d, w, h)
     \/ Reading(d, w, h) \/ Failed(d, w, h) \/ Acked(d, w, h)

(* After an error the worker is done, and endpoints may be halted. *)
Errored(d, w) ==
  /\ Quiet(d, w) /\ ~d.status.busy
  /\ d.out \in {OutIdle, OutDefault, OutHalted} /\ d.in \in InHalted \cup {InIdle}

Ready(d, w) ==
  Quiet(d, w) /\ ~d.status.busy /\ d.out = OutDefault /\ d.in = InIdle

Phases(d, w, h) ==
  /\ d.disabled /\ ~d.rebooting => h.excl
  /\ h.stage = "idle" => Ready(d, w)
  /\ h.stage = "error" => Errored(d, w)
  /\ h.stage \in {"data", "ack"} => InCommand(d, w, h)

(* The interface, the worker and the host are in the same phase of the same
   command, and no assertion of the transfer code fails. *)
PicobootInv == TypeOK /\ AssertsHold /\ Phases(dev, worker, host)

(* The host is offered the acknowledgement of its command. *)
AckOffered ==
  /\ host.stage = "ack"
  /\ IF host.kind = "read" THEN CanSendAck ELSE dev.in.xfer = "ack" /\ CanFetch

(* _tf_ack, _atc_ack, _atc_chunk_task_done: a command is acknowledged only
   when the worker has run the task of its last chunk and has nothing left to
   do, and never when a chunk of its data has failed. *)
AckAfterWork ==
  AckOffered /\ host.kind # "reboot" =>
    /\ WorkerQuiet
    /\ worker.task.id = host.id /\ worker.task.kind = host.kind
    /\ worker.task.chunk = host.size - 1
    /\ host.kind \in DataKinds => dev.status.code = "ok" /\ worker.result = "ok"

(* The one static _buffer holds the right chunk when the worker writes it to
   memory, and when the stream copies what the worker read to the packet. *)
DataInPlace ==
  (worker.phase = "taken" /\ worker.task.kind = "write")
     \/ (worker.phase = "ran" /\ worker.task.kind = "read" /\ worker.result = "ok")
  => dev.buf = [id |-> worker.task.id, chunk |-> worker.task.chunk]

(* queue_task never overwrites a task that the worker has not taken. *)
NoTaskLost ==
  [][dev.slot # NoTask /\ dev'.slot # dev.slot => dev'.slot = NoTask]_vars

(* bInProgress, which decides whether a reset aborts the flash, holds exactly
   while a task is queued or run, or the data phase goes on. *)
InProgressIsBusy ==
  dev.status.busy <=>
    ~WorkerQuiet \/ dev.in.xfer = "stream" \/ dev.out.xfer = "stream"

(* The disk is taken from the mass storage side only at the request of the
   host that has not been reset since (_picoboot_reset "also clears exclusive
   access"), until the watchdog reboots the chip. *)
ExclusiveIsHosts == dev.disabled /\ ~dev.rebooting => host.excl

(* Between commands picoboot_out waits for one (the default transfer), and
   nothing of the commands before is left, exclusive access included. *)
ReadyForCommand ==
  /\ host.stage = "idle" => CanCommand /\ dev.in = InIdle /\ WorkerQuiet
  /\ ExclusiveIsHosts

(* Every command ends: it is acknowledged, the host sees a STALL, or the
   status it can read says that it failed. *)
CommandsEnd ==
  host.stage \in {"data", "ack"} ~>
    (host.stage \in {"idle", "error"} \/ dev.status.code # "ok")
=============================================================================
