------------------------------ MODULE AsyncTask ------------------------------
(***************************************************************************)
(* What a task does: _execute_task of bootrom/async_task.c, with the       *)
(* checks of its addresses in the arithmetic of a machine word, and the    *)
(* table of flash functions, which may be moved to memory the host writes  *)
(* to.  Picoboot has the protocol around it and sees only whether a task   *)
(* succeeds; here a command is its kind, its address and its length, cut   *)
(* into one task per chunk of a page.                                      *)
(*                                                                         *)
(* The regions of the address space are constants, so that a small one can *)
(* be walked; MapAssumption is what of the real map (sdk's addressmap.h)   *)
(* the code relies on.  Code run by EXEC is taken to leave alone what is   *)
(* modelled.  Tasks come from PICOBOOT only, one kind each: what combines  *)
(* kinds, or checks the last mutation's source, is in code that this image *)
(* never reaches (see Picoboot).                                           *)
(*                                                                         *)
(* Operators named Faulty... are variants with a plausible fault, against  *)
(* which the properties are tested.                                        *)
(***************************************************************************)
EXTENDS Naturals

CONSTANTS
  WordMod,                          \* 2^32
  FLASH_PAGE_SIZE, FLASH_SECTOR_ERASE_SIZE,
  TableSize,                        \* sizeof(struct flash_funcs)
  RomEnd,                           \* 8192
  XIP_MAIN_BASE,
  XIP_SRAM_BASE, XIP_SRAM_END,
  SRAM_BASE, SRAM_END,
  Addresses, Sizes                  \* those a host asks for (a bound)

ASSUME MapAssumption ==
  /\ {WordMod, FLASH_PAGE_SIZE, FLASH_SECTOR_ERASE_SIZE, TableSize, RomEnd, XIP_MAIN_BASE,
      XIP_SRAM_BASE, XIP_SRAM_END, SRAM_BASE, SRAM_END} \subseteq Nat \ {0}
  /\ FLASH_SECTOR_ERASE_SIZE % FLASH_PAGE_SIZE = 0
  /\ \A b \in {XIP_MAIN_BASE, XIP_SRAM_BASE, XIP_SRAM_END, SRAM_BASE, WordMod} :
       b % FLASH_SECTOR_ERASE_SIZE = 0
  /\ TableSize < SRAM_BASE - XIP_SRAM_END
  /\ RomEnd + FLASH_PAGE_SIZE <= XIP_MAIN_BASE
  /\ XIP_MAIN_BASE < XIP_SRAM_BASE /\ XIP_SRAM_BASE < XIP_SRAM_END
  /\ XIP_SRAM_END + FLASH_PAGE_SIZE < SRAM_BASE
  /\ SRAM_BASE < SRAM_END /\ SRAM_END + TableSize < WordMod
  /\ SRAM_END + FLASH_PAGE_SIZE < WordMod

ASSUME BoundsAssumption == Addresses \cup Sizes \subseteq 0..(WordMod - 1)

VARIABLES
  cmd,          \* the command: its stream and the task for its next chunk
  flash_funcs,  \* where the table in use is, or DefaultFuncs
  intact,       \* that table holds what was last copied to it
  rebooting,    \* watchdog_rebooting()
  last          \* the last task's outcome, until its callback

vars == <<cmd, flash_funcs, intact, rebooting, last>>

DataKinds == {"read", "write"}
Kinds == DataKinds \cup {"erase", "vectorize", "exec", "exit_xip", "enter_cmd_xip"}

(* The table in the image: its address is none that a task may write to. *)
DefaultFuncs == WordMod

NoCommand == [kind |-> "none", addr |-> 0, length |-> 0, offset |-> 0]

(* via: through the bus, or through the SSI by a flash function *)
Access(via, op, first, len) == [via |-> via, op |-> op, first |-> first, len |-> len]

NoOutcome == [code |-> "none", accesses |-> {}, funcs |-> DefaultFuncs, addr |-> 0, len |-> 0]

-----------------------------------------------------------------------------
(* uint32_t addition *)
Plus(a, b) == IF a < WordMod - b THEN a + b ELSE a - (WordMod - b)

(* The ends are inclusive: the checks are of a start and of an end. *)
is_address_ram(a) == a \in SRAM_BASE..SRAM_END \/ a \in XIP_SRAM_BASE..XIP_SRAM_END
is_address_flash(a) == a \in XIP_MAIN_BASE..SRAM_BASE
is_address_rom(a) == a < RomEnd

(* The flash bitmaps are all of the XIP SRAM. *)
IsSafeForVectoring(a) == is_address_ram(a) /\ a \notin XIP_SRAM_BASE..XIP_SRAM_END

(* The outcome of a task that is refused, and of one that is carried out. *)
Refused(t, code) ==
  [code |-> code, accesses |-> {}, funcs |-> flash_funcs, addr |-> t.addr, len |-> t.len]
Done(t, accesses) ==
  [code |-> "ok", accesses |-> accesses, funcs |-> flash_funcs, addr |-> t.addr, len |-> t.len]

(* AT_VECTORIZE_FLASH *)
Vectorize(t) ==
  IF t.addr % 2 = 1 THEN Refused(t, "bad_alignment")
  ELSE IF IsSafeForVectoring(t.addr) /\ IsSafeForVectoring(Plus(t.addr, TableSize))
  THEN [Done(t, {Access("bus", "write", t.addr, TableSize)}) EXCEPT !.funcs = t.addr]
  ELSE Refused(t, "invalid_address")

(* _do_flash_erase_range, by _do_flash_erase_sector *)
EraseRange(first, end) ==
  {Access("flash", "erase", a, FLASH_SECTOR_ERASE_SIZE) :
     a \in {b \in first..end : b < end /\ (b - first) % FLASH_SECTOR_ERASE_SIZE = 0}}

(* AT_FLASH_ERASE *)
FlashErase(t) ==
  IF t.addr % FLASH_SECTOR_ERASE_SIZE # 0 \/ t.len % FLASH_SECTOR_ERASE_SIZE # 0
  THEN Refused(t, "bad_alignment")
  ELSE IF is_address_flash(t.addr) /\ is_address_flash(Plus(t.addr, t.len))
  THEN Done(t, EraseRange(t.addr, Plus(t.addr, t.len)))
  ELSE Refused(t, "invalid_address")

(* bool direct_access *)
DirectAccess(t) ==
  LET end == Plus(t.addr, t.len)
  IN  \/ is_address_ram(t.addr) /\ is_address_ram(end)
      \/ t.kind = "read" /\ is_address_rom(t.addr) /\ is_address_rom(end)

FaultyFuncsAfterWrite(t) ==
  IF flash_funcs # DefaultFuncs /\ flash_funcs >= t.addr /\ flash_funcs < t.addr + t.len
  THEN DefaultFuncs ELSE flash_funcs

(* A write that overlaps the table reverts to the one in ROM. *)
FuncsAfterWrite(t) ==
  IF /\ flash_funcs # DefaultFuncs
     /\ (IF flash_funcs > t.addr THEN flash_funcs ELSE t.addr)
          < (IF flash_funcs + TableSize < t.addr + t.len
             THEN flash_funcs + TableSize ELSE t.addr + t.len)
  THEN DefaultFuncs ELSE flash_funcs

FaultyTransfer(t) ==
  IF DirectAccess(t)
  THEN [Done(t, {Access("bus", t.kind, t.addr, t.len)}) EXCEPT
          !.funcs = IF t.kind = "write" THEN FuncsAfterWrite(t) ELSE @]
  ELSE IF ~is_address_flash(t.addr) \/ ~is_address_flash(Plus(t.addr, t.len))
  THEN Refused(t, "invalid_address")
  ELSE Done(t, {Access("flash", t.kind, t.addr, FLASH_PAGE_SIZE)})

(* AT_READ and AT_WRITE: memory by bytes, flash by whole pages.  Where the
   XIP SRAM ends, flash begins again. *)
Transfer(t) ==
  IF DirectAccess(t)
  THEN [Done(t, {Access("bus", t.kind, t.addr, t.len)}) EXCEPT
          !.funcs = IF t.kind = "write" THEN FuncsAfterWrite(t) ELSE @]
  ELSE IF ~is_address_flash(t.addr) \/ ~is_address_flash(Plus(t.addr, t.len))
  THEN Refused(t, "invalid_address")
  ELSE IF t.addr % FLASH_PAGE_SIZE # 0 THEN Refused(t, "bad_alignment")
  ELSE Done(t, {Access("flash", t.kind, t.addr, FLASH_PAGE_SIZE)})

(* _execute_task.  PC_ENTER_CMD_XIP does nothing: its flag is looked at only
   after a read or a write. *)
ExecuteTask(t) ==
  IF rebooting THEN Refused(t, "rebooting")
  ELSE CASE t.kind = "vectorize"   -> Vectorize(t)
         [] t.kind = "erase"       -> FlashErase(t)
         [] t.kind \in DataKinds   -> Transfer(t)
         [] OTHER                  -> Done(t, {})

(* chunk_len of the stream: at the start of a chunk sent, at the end of one
   received.  A command without data has one task, for all of its range. *)
InChunkLength ==
  IF cmd.offset + FLASH_PAGE_SIZE > cmd.length THEN cmd.length - cmd.offset
  ELSE FLASH_PAGE_SIZE

OutChunkLength ==
  IF cmd.offset + FLASH_PAGE_SIZE < cmd.length \/ cmd.length % FLASH_PAGE_SIZE = 0
  THEN FLASH_PAGE_SIZE
  ELSE cmd.length % FLASH_PAGE_SIZE

Task ==
  [kind |-> cmd.kind, addr |-> cmd.addr,
   len |-> IF cmd.kind \notin DataKinds \/ cmd.length = 0 THEN cmd.length
           ELSE IF cmd.kind = "read" THEN InChunkLength ELSE OutChunkLength]

-----------------------------------------------------------------------------
(* async_task_worker, when the image starts *)
Init ==
  /\ cmd = NoCommand
  /\ flash_funcs = DefaultFuncs /\ intact = TRUE
  /\ rebooting = FALSE
  /\ last = NoOutcome

(* _picoboot_cmd_packet: a READ or WRITE of length 0 has no stream, and is
   queued like a command without data. *)
Command(kind, addr, size) ==
  /\ cmd = NoCommand
  /\ kind \notin DataKinds \cup {"erase"} => size = 0
  /\ kind \in {"exec", "exit_xip", "enter_cmd_xip"} => addr = 0
  /\ cmd' = [kind |-> kind, addr |-> addr, length |-> size, offset |-> 0]
  /\ UNCHANGED <<flash_funcs, intact, rebooting, last>>

Overlap(a, funcs) ==
  funcs # DefaultFuncs /\ a.op = "write" /\ a.via = "bus"
    /\ \E b \in 0..(TableSize - 1) : a.first <= funcs + b /\ funcs + b < a.first + a.len

Execute ==
  LET r == ExecuteTask(Task)
  IN  /\ cmd # NoCommand /\ last = NoOutcome
      /\ last' = r
      /\ flash_funcs' = r.funcs
      /\ intact' = IF (cmd.kind = "vectorize" /\ r.code = "ok") \/ r.funcs = DefaultFuncs THEN TRUE
                   ELSE intact /\ \A a \in r.accesses : ~Overlap(a, r.funcs)
      /\ UNCHANGED <<cmd, rebooting>>

(* _atc_chunk_task_done moves transfer_addr on by the chunk, and the stream
   goes on with the next unless the task failed; _atc_ack ends the command. *)
Complete ==
  /\ last # NoOutcome
  /\ last' = NoOutcome
  /\ cmd' = IF cmd.kind \in DataKinds /\ last.code = "ok" /\ cmd.offset + last.len < cmd.length
            THEN [cmd EXCEPT !.offset = @ + last.len, !.addr = Plus(@, last.len)]
            ELSE NoCommand
  /\ UNCHANGED <<flash_funcs, intact, rebooting>>

(* _picoboot_reset, before the worker takes the task *)
InterfaceReset ==
  /\ cmd # NoCommand /\ last = NoOutcome
  /\ cmd' = NoCommand
  /\ UNCHANGED <<flash_funcs, intact, rebooting, last>>

(* PC_REBOOT, and the end of its delay *)
Reboot ==
  /\ ~rebooting /\ cmd = NoCommand
  /\ rebooting' = TRUE
  /\ UNCHANGED <<cmd, flash_funcs, intact, last>>

WatchdogFires ==
  /\ rebooting
  /\ cmd' = NoCommand /\ flash_funcs' = DefaultFuncs /\ intact' = TRUE
  /\ rebooting' = FALSE /\ last' = NoOutcome

Next ==
  \/ \E k \in Kinds, a \in Addresses, s \in Sizes : Command(k, a, s)
  \/ Execute
  \/ Complete
  \/ InterfaceReset
  \/ Reboot
  \/ WatchdogFires

Spec == Init /\ [][Next]_vars

-----------------------------------------------------------------------------
Word == 0..(WordMod - 1)

(* The flash functions that the next task calls through are never read from
   memory that was written to since they were copied there, and never from
   the XIP SRAM; the copy lies in the SRAM. *)
VectorsIntact ==
  flash_funcs # DefaultFuncs =>
    intact /\ flash_funcs >= SRAM_BASE /\ flash_funcs + TableSize <= SRAM_END

Within(a, first, end) == first <= a.first /\ a.first + a.len <= end

(* Where a task may go: memory it can read or write, by bytes; and flash, by
   aligned pages outside of the XIP SRAM, or by aligned sectors. *)
AccessAllowed(a) ==
  IF a.via = "bus"
  THEN \/ Within(a, SRAM_BASE, SRAM_END)
       \/ Within(a, XIP_SRAM_BASE, XIP_SRAM_END)
       \/ a.op = "read" /\ Within(a, 0, RomEnd)
  ELSE /\ Within(a, XIP_MAIN_BASE, SRAM_BASE)
       /\ a.len = IF a.op = "erase" THEN FLASH_SECTOR_ERASE_SIZE ELSE FLASH_PAGE_SIZE
       /\ a.first % a.len = 0
       /\ a.op # "erase" => a.first + a.len <= XIP_SRAM_BASE \/ a.first >= XIP_SRAM_END

(* A task of a range that is not empty stays in what it may touch, whatever
   the sum of its address and length comes to; it covers its range, and goes
   past it only to the end of a flash page; and it is all or nothing.  (An
   erase whose range wraps around is accepted, and erases nothing.) *)
AccessesAllowed ==
  last.code # "none" /\ last.len > 0 =>
    /\ \A a \in last.accesses : AccessAllowed(a)
    /\ last.code # "ok" => last.accesses = {}
    /\ last.code = "ok" /\ cmd.kind \in DataKinds \cup {"erase"}
         /\ last.addr + last.len < WordMod =>
         /\ \A b \in last.addr..(last.addr + last.len - 1) :
              \E a \in last.accesses : a.first <= b /\ b < a.first + a.len
         /\ \A a \in last.accesses :
              a.first >= last.addr /\ a.first < last.addr + last.len

(* usb_boot_device.h: "the range would have to be zero length which we don't
   use": no task writes anything for a range without a byte in it. *)
EmptyRangeUnused ==
  last.len = 0 /\ cmd.kind \in DataKinds \cup {"erase"} =>
    \A a \in last.accesses : a.op # "read" => a.len = 0
=============================================================================
