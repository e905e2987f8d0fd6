-------------------------------- MODULE Flash --------------------------------
(***************************************************************************)
(* Flash tasks of bootrom/async_task.c and the transfer loop of            *)
(* bootrom/program_flash_generic.c under them.  The worker pushes bytes    *)
(* into the transmit FIFO of the SSI controller, which clocks them out to  *)
(* the flash and puts one answer for each into the receive FIFO.  The loop *)
(* may be interrupted anywhere and for any time, so the controller runs    *)
(* between any two of its register accesses; and the interrupt may abort   *)
(* the task, for a flash that never gets ready.                            *)
(*                                                                         *)
(* A byte is its position in the flash command it belongs to (0 for what   *)
(* an earlier, aborted command left behind).  Its answer has the same      *)
(* position, and the busy bit the flash shows at that time.                *)
(*                                                                         *)
(* Operators named Faulty... are variants with a plausible fault, against  *)
(* which the properties are tested.                                        *)
(***************************************************************************)
EXTENDS Naturals, Sequences

CONSTANTS
  MaxInFlight,  \* max_in_flight (14)
  FifoDepth,    \* entries in each FIFO of the controller (16)
  Internal,     \* bytes inside the controller, in neither FIFO (up to 2)
  PageSize,     \* bytes in a flash page (256)
  SizeMod,      \* size_t counts modulo SizeMod (2^32)
  MaxSectors    \* sectors in the longest erase (a bound of the model)

ASSUME MaxInFlightAssumption == MaxInFlight \in Nat \ {0}
ASSUME InternalAssumption == Internal \in Nat \ {0}
(* "account for data internal to SSI" *)
ASSUME FifoDepthAssumption == FifoDepth \in Nat /\ MaxInFlight + Internal <= FifoDepth
ASSUME HeadAssumption == FifoDepth >= 4      \* a command and its address
ASSUME PageSizeAssumption == PageSize \in Nat \ {0}
ASSUME SizeModAssumption == SizeMod \in Nat /\ SizeMod > PageSize /\ SizeMod > 4
ASSUME MaxSectorsAssumption == MaxSectors \in Nat \ {0}

VARIABLES
  ssi,          \* the controller: its FIFOs, what is between them
  cpu,          \* the worker: its place in the task and in the loop
  busy,         \* 1 while the flash programs or erases
  aborted       \* flash_abort has forced the flash's output low

vars == <<ssi, cpu, busy, aborted>>

(* Transfers.  Before the loop of one, `Head' bytes are pushed unchecked;   *)
(* the loop pushes `Body' more, and drops as many answers as Head says.     *)
(* "clock" and "wake" are those of flash_exit_xip.                          *)
Transfers == {"clock", "wake", "enable", "program", "erase", "read", "status"}
Heads == [t \in Transfers |->
            CASE t \in {"clock", "wake"}             -> 0
              [] t \in {"program", "erase", "read"}  -> 4
              [] t \in {"enable", "status"}          -> 1]
Body == [t \in Transfers |->
            CASE t = "clock"              -> 4
              [] t = "wake"               -> 2
              [] t \in {"program", "read"} -> PageSize
              [] t = "status"             -> 1
              [] t \in {"enable", "erase"} -> 0]

(* flash_page_program, flash_sector_erase, flash_read_data and, from its    *)
(* reset of the pads on, _do_flash_exit_xip                                 *)
Kinds == {"program", "erase", "read", "exit"}
Steps == [k \in Kinds |->
            CASE k = "program" -> <<"enable", "program", "status">>
              [] k = "erase"   -> <<"enable", "erase", "status">>
              [] k = "read"    -> <<"read">>
              [] k = "exit"    -> <<"connect", "init", "clock", "clock", "wake">>]

(* on      flash_init_spi has run: the controller answers every byte        *)
(* tx, mid, rx   bytes on their way, from the worker and back to it         *)
(* lost    a byte found a FIFO full                                         *)
Answer == [pos : Nat, bit : {0, 1}]
Controller == [on : BOOLEAN, tx : Seq(Nat), mid : Seq(Nat), rx : Seq(Answer), lost : BOOLEAN]

(* pc, kind, sectors   where it is, the task, sectors left to erase         *)
(* step    the place in Steps[kind]                                         *)
(* send, skip, get   tx_count, rx_skip, rx_count                            *)
(* txl, rxl   tx_level, rx_level;   stat  the status that was read          *)
Cpu ==
  [pc : {"idle", "next", "txlevel", "rxlevel", "move", "end"}, kind : Kinds,
   sectors : 0..MaxSectors, step : 1..5, send : 0..(SizeMod - 1), skip : 0..4,
   get : 0..(SizeMod - 1), txl : Nat, rxl : Nat,
   stat : {0, 1}]

Init ==
  /\ ssi = [on |-> FALSE, tx |-> <<>>, mid |-> <<>>, rx |-> <<>>, lost |-> FALSE]
  /\ cpu = [pc |-> "idle", kind |-> "exit", sectors |-> 0, step |-> 1, send |-> 0,
            skip |-> 0, get |-> 0, txl |-> 0, rxl |-> 0, stat |-> 0]
  /\ busy = 0
  /\ aborted = FALSE

-----------------------------------------------------------------------------
(* Writes of dr0: what finds the FIFO full is lost. *)
Push(s, bytes) ==
  IF Len(s.tx) + Len(bytes) <= FifoDepth THEN [s EXCEPT !.tx = @ \o bytes]
  ELSE [s EXCEPT !.lost = TRUE]

(* What is in the controller when a transfer starts belongs to another one. *)
Aged(s) ==
  [s EXCEPT !.tx  = [i \in DOMAIN s.tx |-> 0],
            !.mid = [i \in DOMAIN s.mid |-> 0],
            !.rx  = [i \in DOMAIN s.rx |-> [pos |-> 0, bit |-> s.rx[i].bit]]]

Step == Steps[cpu.kind][cpu.step]

(* The worker takes a task. *)
Start(kind, sectors) ==
  /\ cpu.pc = "idle"
  /\ sectors = 1 \/ kind = "erase"
  /\ cpu' = [cpu EXCEPT !.pc = "next", !.kind = kind, !.sectors = sectors, !.step = 1]
  /\ UNCHANGED <<ssi, busy, aborted>>

(* connect_internal_flash resets the pads, and with them an abort. *)
Connect ==
  /\ cpu.pc = "next" /\ Step = "connect"
  /\ aborted' = FALSE
  /\ cpu' = [cpu EXCEPT !.step = @ + 1]
  /\ UNCHANGED <<ssi, busy>>

FaultyInitSpi ==
  /\ cpu.pc = "next" /\ Step = "init"
  /\ ssi' = [ssi EXCEPT !.on = TRUE]
  /\ cpu' = [cpu EXCEPT !.step = @ + 1]
  /\ UNCHANGED <<busy, aborted>>

(* flash_init_spi: disabling the controller empties its FIFOs. *)
InitSpi ==
  /\ cpu.pc = "next" /\ Step = "init"
  /\ ssi' = [on |-> TRUE, tx |-> <<>>, mid |-> <<>>, rx |-> <<>>, lost |-> FALSE]
  /\ cpu' = [cpu EXCEPT !.step = @ + 1]
  /\ UNCHANGED <<busy, aborted>>

(* flash_do_cmd, flash_put_cmd_addr: select the flash and push the head. *)
PutHead ==
  /\ cpu.pc = "next" /\ Step \in Transfers
  /\ ssi' = Push(Aged(ssi), [i \in 1..Heads[Step] |-> i])
  /\ cpu' = [cpu EXCEPT !.pc = "txlevel", !.send = Body[Step], !.skip = Heads[Step],
                        !.get = Body[Step], !.stat = 0]
  /\ UNCHANGED <<busy, aborted>>

-----------------------------------------------------------------------------
(* flash_put_get: the levels are read in this order "for pessimism rather
   than optimism" ... *)
ReadTxLevel ==
  /\ cpu.pc = "txlevel"
  /\ cpu' = [cpu EXCEPT !.pc = "rxlevel", !.txl = Len(ssi.tx)]
  /\ UNCHANGED <<ssi, busy, aborted>>

ReadRxLevel ==
  /\ cpu.pc = "rxlevel"
  /\ cpu' = [cpu EXCEPT !.pc = "move", !.rxl = Len(ssi.rx)]
  /\ UNCHANGED <<ssi, busy, aborted>>

FaultyMayPut == cpu.send > 0 /\ cpu.txl < MaxInFlight

MayPut == cpu.send > 0 /\ cpu.txl + cpu.rxl < MaxInFlight
MayGet == cpu.rxl > 0

FaultyBreaks == FALSE

(* Nothing to do, and there never may be: leave the loop early. *)
Breaks == ~MayPut /\ ~MayGet /\ aborted

(* --rx_count *)
Less(n) == IF n = 0 THEN SizeMod - 1 ELSE n - 1

Position == Heads[Step] + Body[Step] - cpu.send + 1

Put(s) == IF MayPut THEN Push(s, <<Position>>) ELSE s
Get(s) == IF MayGet THEN [s EXCEPT !.rx = Tail(@)] ELSE s

(* ... one byte is pushed, and one answer taken or dropped.  (That both happen
   in one step hides nothing: the controller may as well run before it, and
   NoOverflow says that there is room for the byte in between.)  What an
   aborted command left behind may bring rx_count below zero. *)
Move ==
  LET send == IF MayPut THEN cpu.send - 1 ELSE cpu.send
      skip == IF MayGet /\ cpu.skip > 0 THEN cpu.skip - 1 ELSE cpu.skip
      get  == IF MayGet /\ cpu.skip = 0 THEN Less(cpu.get) ELSE cpu.get
      left == send > 0 \/ skip > 0 \/ get > 0
  IN  /\ cpu.pc = "move"
      /\ ssi' = Get(Put(ssi))
      /\ cpu' = [cpu EXCEPT !.pc = IF Breaks \/ ~left THEN "end" ELSE "txlevel",
                            !.send = send, !.skip = skip, !.get = get,
                            !.stat = IF MayGet /\ cpu.skip = 0 THEN ssi.rx[1].bit ELSE @,
                            !.txl = 0, !.rxl = 0]
      /\ UNCHANGED <<busy, aborted>>

FaultyStays == FALSE

(* flash_wait_ready reads the status again. *)
Stays == Step = "status" /\ cpu.stat = 1 /\ ~aborted

(* The end of a transfer deselects the flash, which starts to program or to
   erase; a command that was cut short it may ignore.  _do_flash_erase_range
   goes on with the next sector. *)
EndTransfer ==
  LET last  == cpu.step = Len(Steps[cpu.kind])
      again == cpu.kind = "erase" /\ cpu.sectors > 1
  IN  /\ cpu.pc = "end"
      /\ busy' \in IF Step \notin {"program", "erase"} THEN {busy}
                   ELSE IF aborted THEN {busy, 1} ELSE {1}
      /\ cpu' = IF Stays THEN [cpu EXCEPT !.pc = "next"]
                ELSE IF ~last THEN [cpu EXCEPT !.pc = "next", !.step = @ + 1]
                ELSE IF again THEN [cpu EXCEPT !.pc = "next", !.step = 1, !.sectors = @ - 1]
                ELSE [cpu EXCEPT !.pc = "idle", !.sectors = 0]
      /\ UNCHANGED <<ssi, aborted>>

-----------------------------------------------------------------------------
(* The controller takes a byte from the transmit FIFO ... *)
Clock ==
  /\ ssi.tx # <<>>
  /\ Len(ssi.mid) < Internal
  /\ ssi' = [ssi EXCEPT !.tx = Tail(@), !.mid = Append(@, Head(ssi.tx))]
  /\ UNCHANGED <<cpu, busy, aborted>>

(* ... and puts an answer into the receive FIFO. *)
Reply ==
  LET a == [pos |-> Head(ssi.mid), bit |-> IF aborted THEN 0 ELSE busy]
  IN  /\ ssi.mid # <<>>
      /\ ssi' = IF Len(ssi.rx) < FifoDepth
                THEN [ssi EXCEPT !.mid = Tail(@), !.rx = Append(@, a)]
                ELSE [ssi EXCEPT !.mid = Tail(@), !.lost = TRUE]
      /\ UNCHANGED <<cpu, busy, aborted>>

(* The flash has finished. *)
Ready ==
  /\ busy = 1
  /\ busy' = 0
  /\ UNCHANGED <<ssi, cpu, aborted>>

(* flash_abort, from _picoboot_reset *)
Abort ==
  /\ cpu.pc # "idle"
  /\ aborted' = TRUE
  /\ UNCHANGED <<ssi, cpu, busy>>

Worker ==
  \/ Connect \/ InitSpi \/ PutHead
  \/ ReadTxLevel \/ ReadRxLevel \/ Move \/ EndTransfer

Ssi == Clock \/ Reply

Next ==
  \/ \E k \in Kinds, n \in 1..MaxSectors : Start(k, n)
  \/ Worker
  \/ Ssi
  \/ Ready
  \/ Abort

Spec == Init /\ [][Next]_vars

(* The worker runs, and a controller that has been set up clocks out what it
   has; a flash that is absent or stuck never becomes ready. *)
LiveSpec == Spec /\ WF_vars(Worker) /\ WF_vars(ssi.on /\ Ssi)

-----------------------------------------------------------------------------
(* Every variable has its type. *)
TypeOK ==
  /\ ssi \in Controller
  /\ cpu \in Cpu
  /\ cpu.step <= Len(Steps[cpu.kind])
  /\ cpu.pc \notin {"idle", "next"} => Step \in Transfers /\ cpu.send <= Body[Step]
  /\ busy \in {0, 1}
  /\ aborted \in BOOLEAN

(* Bytes on their way. *)
Sent     == Len(ssi.tx)
Inside   == Len(ssi.mid)
Answered == Len(ssi.rx)
InFlight == Sent + Inside + Answered

InLoop == cpu.pc \in {"txlevel", "rxlevel", "move", "end"}

(* Bytes pushed and answers taken so far in this transfer. *)
Pushed == Heads[Step] + Body[Step] - cpu.send
Taken  == Heads[Step] + Body[Step] - cpu.skip - cpu.get

(* flash_exit_xip has yet to empty the FIFOs. *)
Unclean == cpu.kind = "exit" /\ cpu.pc = "next" /\ Step \in {"connect", "init"}

(* No byte and no answer has found a FIFO full, and what is in flight fits
   into one: the head pushed without a check finds room, too. *)
NoneLost ==
  ~aborted /\ ~Unclean => ~ssi.lost /\ InFlight <= FifoDepth

(* "Make sure there is never more data in flight than the depth of the RX
   FIFO": however long the loop is interrupted between reading the levels and
   acting on them, nothing is lost; and a byte is pushed only if its answer
   has room before the loop takes another. *)
NoOverflow ==
  /\ NoneLost
  /\ ~aborted /\ cpu.pc = "move" /\ MayPut => InFlight < FifoDepth

(* Where the answers to a transfer are: `taken' of them have been taken, and
   what is in flight are the ones after these, in order. *)
InOrder(s, taken) ==
  /\ \A i \in DOMAIN s.rx  : s.rx[i].pos = taken + i
  /\ \A i \in DOMAIN s.mid : s.mid[i] = taken + Len(s.rx) + i
  /\ \A i \in DOMAIN s.tx  : s.tx[i] = taken + Len(s.rx) + Len(s.mid) + i

(* The answers to a command are the answers to its own bytes, in order:
   rx_skip drops those to the head and no others, rx_count never passes zero,
   and each transfer takes all of its answers and leaves none to the next. *)
AnswersInStep ==
  ~aborted /\ ~Unclean =>
    IF InLoop THEN /\ cpu.skip <= Heads[Step] /\ cpu.get <= Body[Step]
                   /\ InFlight + Taken = Pushed
                   /\ InOrder(ssi, Taken)
                   /\ cpu.pc = "end" => InFlight = 0
              ELSE InFlight = 0

(* The levels as they were read: never more answers than there are, and never
   too few bytes in flight but for those inside the controller. *)
LevelsPessimistic ==
  /\ Inside <= Internal
  /\ cpu.pc = "move" => cpu.rxl <= Answered
  /\ ~aborted => /\ cpu.pc = "rxlevel" => InFlight <= cpu.txl + Answered + Internal
                 /\ cpu.pc = "move" => InFlight <= cpu.txl + cpu.rxl + Internal

(* The inductive invariant. *)
FlashInv == TypeOK /\ NoneLost /\ AnswersInStep /\ LevelsPessimistic

(* A task that changes the flash and was not aborted ends with the flash
   ready: the status that ended flash_wait_ready was read after the command,
   not before it. *)
EndsReady ==
  cpu.pc = "idle" /\ cpu.kind \in {"program", "erase"} /\ ~aborted => busy = 0

(* flash_abort ends every task, also where the flash never answers and where
   the controller was never set up: "allow any unbounded loops to check
   whether the above abort condition was asserted, and terminate early". *)
AbortEnds == aborted ~> cpu.pc = "idle"
=============================================================================
