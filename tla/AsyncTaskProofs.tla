--------------------------- MODULE AsyncTaskProofs ---------------------------
(***************************************************************************)
(* The table of flash functions is never called through once a byte of it  *)
(* was overwritten, and a task touches what it may and all that it was     *)
(* asked: for every address map that has MapAssumption, and every address  *)
(* and length a host may ask for.                                          *)
(***************************************************************************)
EXTENDS AsyncTask, Integers, TLAPS
(* Alignment: quotients, remainders, and what lies between two multiples. *)

(* Division with remainder. *)
LEMMA Quotient ==
  ASSUME NEW m \in Nat \ {0}, NEW a \in Nat
  PROVE  a = (a \div m) * m + (a % m) /\ a \div m \in Nat /\ a % m \in 0..(m - 1)
OBVIOUS

(* A product leaves no remainder. *)
LEMMA ProductIsMultiple ==
  ASSUME NEW m \in Nat \ {0}, NEW q \in Nat
  PROVE  (q * m) % m = 0
BY SMTT(20)

(* Two products that differ, differ by a factor at least. *)
LEMMA NextProduct ==
  ASSUME NEW m \in Nat \ {0}, NEW p \in Nat, NEW q \in Nat, p * m < q * m
  PROVE  p * m + m <= q * m
<1>1. p < q
  <2> SUFFICES ASSUME q <= p PROVE q * m <= p * m
    OBVIOUS
  <2> QED BY SMTT(20)
<1>2. p + 1 <= q
  BY <1>1
<1>3. (p + 1) * m <= q * m
  BY <1>2, SMTT(20)
<1>4. (p + 1) * m = p * m + m
  BY SMTT(20)
<1>5. QED BY <1>3, <1>4

(* There is nothing between a multiple and the next: a page that starts before
   an aligned boundary ends there at the latest. *)
LEMMA NextMultiple ==
  ASSUME NEW m \in Nat \ {0}, NEW a \in Nat, NEW b \in Nat, a % m = 0, b % m = 0, a < b
  PROVE  a + m <= b
<1> DEFINE p == a \div m
<1> DEFINE q == b \div m
<1>1. a = p * m /\ p \in Nat /\ b = q * m /\ q \in Nat
  BY Quotient
<1> HIDE DEF p, q
<1>2. p * m + m <= q * m
  BY <1>1, NextProduct
<1>3. QED BY <1>1, <1>2

(* What is aligned to a sector is aligned to a page. *)
LEMMA FinerMultiple ==
  ASSUME NEW m \in Nat \ {0}, NEW n \in Nat \ {0}, NEW a \in Nat, n % m = 0, a % n = 0
  PROVE  a % m = 0
<1> DEFINE p == a \div n
<1> DEFINE q == n \div m
<1> DEFINE r == p * q
<1>1. a = p * n /\ p \in Nat /\ n = q * m /\ q \in Nat
  BY Quotient
<1> HIDE DEF p, q
<1>2. a = r * m /\ r \in Nat
  BY <1>1
<1> HIDE DEF r
<1>3. QED BY <1>2, ProductIsMultiple

(* From an aligned address an aligned length leads to an aligned one. *)
LEMMA SumOfMultiples ==
  ASSUME NEW m \in Nat \ {0}, NEW a \in Nat, NEW b \in Nat, a % m = 0, b % m = 0
  PROVE  (a + b) % m = 0
<1> DEFINE p == a \div m
<1> DEFINE q == b \div m
<1> DEFINE r == p + q
<1>1. a = p * m /\ p \in Nat /\ b = q * m /\ q \in Nat
  BY Quotient
<1> HIDE DEF p, q
<1>2. a + b = r * m /\ r \in Nat
  BY <1>1
<1> HIDE DEF r
<1>3. QED BY <1>2, ProductIsMultiple

(* Every byte is in an aligned unit: the sector of an erase that covers it. *)
LEMMA MultipleBelow ==
  ASSUME NEW m \in Nat \ {0}, NEW a \in Nat
  PROVE  \E c \in Nat : c % m = 0 /\ c <= a /\ a < c + m
<1> DEFINE q == a \div m
<1> DEFINE c == q * m
<1>1. a = q * m + (a % m) /\ q \in Nat /\ a % m \in 0..(m - 1)
  BY Quotient
<1> HIDE DEF q
<1>2. c % m = 0 /\ c \in Nat
  BY <1>1, ProductIsMultiple
<1>3. a = c + (a % m)
  BY <1>1
<1> HIDE DEF c
<1>4. c <= a /\ a < c + m
  BY <1>1, <1>2, <1>3
<1>5. QED BY <1>2, <1>4

-----------------------------------------------------------------------------
(* The numbers the checks are made of. *)
Numbers ==
  /\ cmd \in [kind : Kinds \cup {"none"}, addr : Word, length : Word, offset : Word]
  /\ cmd # NoCommand => cmd.kind \in Kinds
  /\ cmd.length # 0 => cmd.offset < cmd.length
  /\ flash_funcs \in Nat
  /\ last # NoOutcome => cmd # NoCommand /\ last.len \in Nat

(* The inductive invariant. *)
IInv == Numbers /\ VectorsIntact /\ AccessesAllowed

Tasks == [kind : Kinds, addr : Word, len : Word]

-----------------------------------------------------------------------------
(* A sum of words is a word: their sum, unless that wraps around, and then
   less than each of them. *)
LEMMA SumOfWords ==
  ASSUME NEW a \in Word, NEW b \in Word
  PROVE  /\ Plus(a, b) \in Word
         /\ IF a + b < WordMod THEN Plus(a, b) = a + b ELSE Plus(a, b) < a
BY MapAssumption DEF Plus, Word

(* Where a table may be copied to: all of it lies in the SRAM. *)
LEMMA SafeForTable ==
  ASSUME NEW a \in Nat, IsSafeForVectoring(a), IsSafeForVectoring(Plus(a, TableSize))
  PROVE  a >= SRAM_BASE /\ a + TableSize <= SRAM_END
BY MapAssumption DEF Plus, IsSafeForVectoring, is_address_ram

(* The task of a chunk: not more than a page of it. *)
LEMMA TaskOfChunk ==
  ASSUME Numbers, cmd # NoCommand
  PROVE  /\ Task \in Tasks /\ Task.kind = cmd.kind
         /\ Task.kind \in DataKinds => Task.len <= FLASH_PAGE_SIZE
<1>1. /\ cmd.length \in Word /\ cmd.offset \in Word /\ cmd.addr \in Word /\ cmd.kind \in Kinds
      /\ FLASH_PAGE_SIZE \in Nat \ {0} /\ FLASH_PAGE_SIZE < WordMod /\ WordMod \in Nat
  BY MapAssumption DEF Numbers
<1>2. cmd.length # 0 => InChunkLength \in Word /\ InChunkLength <= FLASH_PAGE_SIZE
  BY <1>1 DEF InChunkLength, Numbers, Word
<1>3. cmd.length % FLASH_PAGE_SIZE \in 0..(FLASH_PAGE_SIZE - 1)
  BY <1>1 DEF Word
<1>4. OutChunkLength \in Word /\ OutChunkLength <= FLASH_PAGE_SIZE
  BY <1>1, <1>3 DEF OutChunkLength, Word
<1>5. Task.len \in Word /\ (Task.kind \in DataKinds => Task.len <= FLASH_PAGE_SIZE)
  BY <1>1, <1>2, <1>4 DEF Task, Word
<1>6. QED BY <1>1, <1>5 DEF Task, Tasks

(* What a task does to the table: nothing, or the table in ROM is used from
   now on, or a new copy has been made. *)
TableKept(r) ==
  r.funcs = flash_funcs /\ \A a \in r.accesses : ~Overlap(a, flash_funcs)

(* A write to memory reverts to the table in ROM if it overlaps the copy. *)
LEMMA WriteKeepsTable ==
  ASSUME Numbers, NEW t \in Tasks
  PROVE  \/ FuncsAfterWrite(t) = DefaultFuncs
         \/ /\ FuncsAfterWrite(t) = flash_funcs
            /\ ~Overlap(Access("bus", "write", t.addr, t.len), flash_funcs)
<1>1. flash_funcs \in Nat /\ TableSize \in Nat /\ t.addr \in Nat /\ t.len \in Nat
  BY MapAssumption DEF Numbers, Tasks, Word
<1>2. CASE FuncsAfterWrite(t) = DefaultFuncs
  BY <1>2
<1>3. CASE FuncsAfterWrite(t) # DefaultFuncs
  <2>1. FuncsAfterWrite(t) = flash_funcs /\ flash_funcs # DefaultFuncs
    BY <1>3 DEF FuncsAfterWrite
  <2>2. ASSUME NEW b \in 0..(TableSize - 1),
               t.addr <= flash_funcs + b, flash_funcs + b < t.addr + t.len
        PROVE  FALSE
    BY <1>1, <1>3, <2>1, <2>2 DEF FuncsAfterWrite
  <2>3. QED BY <2>1, <2>2 DEF Overlap, Access
<1>4. QED BY <1>2, <1>3

(* Only a write to memory can reach the copy; a page of flash cannot. *)
LEMMA TransferKeepsTable ==
  ASSUME Numbers, NEW t \in Tasks, t.kind \in DataKinds
  PROVE  /\ Transfer(t).len = t.len /\ Transfer(t).code # "none"
         /\ Transfer(t).funcs = DefaultFuncs \/ TableKept(Transfer(t))
<1>1. CASE DirectAccess(t)
  <2>1. CASE t.kind = "write"
    <3>1. /\ Transfer(t).funcs = FuncsAfterWrite(t)
          /\ Transfer(t).accesses = {Access("bus", "write", t.addr, t.len)}
          /\ Transfer(t).len = t.len /\ Transfer(t).code = "ok"
      BY <1>1, <2>1 DEF Transfer, Done
    <3>2. QED BY <3>1, WriteKeepsTable DEF TableKept
  <2>2. CASE t.kind = "read"
    <3>1. /\ Transfer(t).funcs = flash_funcs
          /\ Transfer(t).accesses = {Access("bus", "read", t.addr, t.len)}
          /\ Transfer(t).len = t.len /\ Transfer(t).code = "ok"
      BY <1>1, <2>2 DEF Transfer, Done
    <3>2. QED BY <3>1 DEF TableKept, Overlap, Access
  <2>3. QED BY <2>1, <2>2 DEF DataKinds
<1>2. CASE ~DirectAccess(t)
  BY <1>2 DEF Transfer, Refused, Done, TableKept, Overlap, Access
<1>3. QED BY <1>1, <1>2

(* Whatever the task: after it the table is the one in ROM, a new copy in the
   SRAM, or the old one, of which no byte was written. *)
LEMMA TaskKeepsTable ==
  ASSUME Numbers, NEW t \in Tasks
  PROVE  LET r == ExecuteTask(t)
         IN  /\ r.len = t.len
             /\ \/ r.funcs = DefaultFuncs
                \/ TableKept(r)
                \/ /\ t.kind = "vectorize" /\ r.code = "ok"
                   /\ r.funcs \in Nat /\ r.funcs >= SRAM_BASE
                   /\ r.funcs + TableSize <= SRAM_END
<1>1. CASE rebooting
  BY <1>1 DEF ExecuteTask, Refused, TableKept
<1>2. CASE ~rebooting /\ t.kind = "vectorize"
  <2>1. ExecuteTask(t) = Vectorize(t)
    BY <1>2 DEF ExecuteTask, DataKinds
  <2>2. CASE t.addr % 2 = 1
    BY <2>1, <2>2 DEF Vectorize, Refused, TableKept
  <2>3. CASE /\ t.addr % 2 # 1
             /\ IsSafeForVectoring(t.addr) /\ IsSafeForVectoring(Plus(t.addr, TableSize))
    <3>1. t.addr \in Nat
      BY DEF Tasks, Word
    <3>2. /\ Vectorize(t).code = "ok" /\ Vectorize(t).funcs = t.addr
          /\ Vectorize(t).len = t.len
      BY <2>3 DEF Vectorize, Done
    <3>3. QED BY <1>2, <2>1, <2>3, <3>1, <3>2, SafeForTable
  <2>4. CASE /\ t.addr % 2 # 1
             /\ ~(IsSafeForVectoring(t.addr) /\ IsSafeForVectoring(Plus(t.addr, TableSize)))
    BY <2>1, <2>4 DEF Vectorize, Refused, TableKept
  <2>5. QED BY <2>2, <2>3, <2>4
<1>3. CASE ~rebooting /\ t.kind = "erase"
  <2>1. ExecuteTask(t) = FlashErase(t)
    BY <1>3 DEF ExecuteTask, DataKinds
  <2>2. QED BY <2>1 DEF FlashErase, EraseRange, Refused, Done, TableKept, Overlap, Access
<1>4. CASE ~rebooting /\ t.kind \in DataKinds
  <2>1. ExecuteTask(t) = Transfer(t)
    BY <1>4 DEF ExecuteTask, DataKinds
  <2>2. QED BY <1>4, <2>1, TransferKeepsTable
<1>5. CASE ~rebooting /\ t.kind \in {"exec", "exit_xip", "enter_cmd_xip"}
  BY <1>5 DEF ExecuteTask, Done, TableKept, DataKinds
<1>6. QED BY <1>1, <1>2, <1>3, <1>4, <1>5 DEF Tasks, Kinds

-----------------------------------------------------------------------------
(* What AccessesAllowed says of the outcome r of a task t. *)
Allowed(t, r) ==
  /\ \A a \in r.accesses : AccessAllowed(a)
  /\ r.code # "ok" => r.accesses = {}
  /\ r.code = "ok" /\ t.kind \in DataKinds \cup {"erase"} /\ t.addr + t.len < WordMod =>
       /\ \A b \in t.addr..(t.addr + t.len - 1) :
            \E a \in r.accesses : a.first <= b /\ b < a.first + a.len
       /\ \A a \in r.accesses : a.first >= t.addr /\ a.first < t.addr + t.len

(* Both ends in memory, at most a page apart: all of it is in one region. *)
LEMMA DirectAccessAllowed ==
  ASSUME NEW t \in Tasks, t.kind \in DataKinds, t.len \in 1..FLASH_PAGE_SIZE, DirectAccess(t)
  PROVE  AccessAllowed(Access("bus", t.kind, t.addr, t.len))
<1>1. t.addr \in Word /\ t.len \in Word
  BY DEF Tasks
<1>2. IF t.addr + t.len < WordMod THEN Plus(t.addr, t.len) = t.addr + t.len
      ELSE Plus(t.addr, t.len) < t.addr
  BY <1>1, SumOfWords
<1>3. CASE is_address_ram(t.addr) /\ is_address_ram(Plus(t.addr, t.len))
  BY <1>1, <1>2, <1>3, MapAssumption DEF is_address_ram, AccessAllowed, Within, Access, Word
<1>4. CASE /\ t.kind = "read"
           /\ is_address_rom(t.addr) /\ is_address_rom(Plus(t.addr, t.len))
  BY <1>1, <1>2, <1>4, MapAssumption DEF is_address_rom, AccessAllowed, Within, Access, Word
<1>5. QED BY <1>3, <1>4 DEF DirectAccess

(* A page of flash that is not memory: it is outside of the XIP SRAM, for the
   boundaries are aligned, and a range in it would have been memory. *)
LEMMA FlashPageAllowed ==
  ASSUME NEW t \in Tasks, t.kind \in DataKinds, t.len \in 1..FLASH_PAGE_SIZE,
         ~DirectAccess(t), t.addr % FLASH_PAGE_SIZE = 0,
         is_address_flash(t.addr), is_address_flash(Plus(t.addr, t.len))
  PROVE  AccessAllowed(Access("flash", t.kind, t.addr, FLASH_PAGE_SIZE))
<1> DEFINE page == FLASH_PAGE_SIZE
<1>1. /\ t.addr \in Nat /\ page \in Nat \ {0}
      /\ SRAM_BASE \in Nat /\ XIP_SRAM_BASE \in Nat /\ XIP_SRAM_END \in Nat
  BY MapAssumption DEF Tasks, Word
<1>2. /\ SRAM_BASE % page = 0 /\ XIP_SRAM_BASE % page = 0 /\ XIP_SRAM_END % page = 0
  BY <1>1, MapAssumption, FinerMultiple
<1>3. t.addr + t.len = Plus(t.addr, t.len) /\ t.addr <= SRAM_BASE /\ t.addr >= XIP_MAIN_BASE
  BY <1>1, MapAssumption DEF Tasks, Word, is_address_flash, Plus
<1>4. t.addr # SRAM_BASE
  BY <1>1, <1>3, MapAssumption DEF is_address_flash
<1>5. t.addr + page <= SRAM_BASE
  BY <1>1, <1>2, <1>3, <1>4, NextMultiple
<1>6. CASE t.addr < XIP_SRAM_BASE
  <2>1. t.addr + page <= XIP_SRAM_BASE
    BY <1>1, <1>2, <1>6, NextMultiple
  <2>2. QED BY <1>1, <1>3, <1>5, <2>1, MapAssumption
            DEF AccessAllowed, Within, Access, DataKinds
<1>7. CASE t.addr >= XIP_SRAM_BASE /\ t.addr < XIP_SRAM_END
  <2>1. t.addr + page <= XIP_SRAM_END
    BY <1>1, <1>2, <1>7, NextMultiple
  <2>2. is_address_ram(t.addr) /\ is_address_ram(Plus(t.addr, t.len))
    BY <1>1, <1>3, <1>7, <2>1 DEF is_address_ram
  <2>3. QED BY <2>2 DEF DirectAccess
<1>8. CASE t.addr >= XIP_SRAM_END
  BY <1>1, <1>3, <1>5, <1>8, MapAssumption DEF AccessAllowed, Within, Access, DataKinds
<1>9. QED BY <1>1, <1>6, <1>7, <1>8

(* _execute_task, AT_READ and AT_WRITE: memory, or one aligned page of flash. *)
LEMMA TransferAllowed ==
  ASSUME NEW t \in Tasks, t.kind \in DataKinds, t.len \in 1..FLASH_PAGE_SIZE
  PROVE  Allowed(t, Transfer(t))
<1>1. t.addr \in Nat /\ t.len \in Nat /\ FLASH_PAGE_SIZE \in Nat
  BY MapAssumption DEF Tasks, Word
<1>2. CASE DirectAccess(t)
  <2> DEFINE a == Access("bus", t.kind, t.addr, t.len)
  <2>1. Transfer(t).accesses = {a} /\ Transfer(t).code = "ok"
    BY <1>2 DEF Transfer, Done
  <2>2. AccessAllowed(a)
    BY <1>2, DirectAccessAllowed
  <2>3. a.first = t.addr /\ a.len = t.len
    BY DEF Access
  <2>4. QED BY <1>1, <2>1, <2>2, <2>3 DEF Allowed
<1>3. CASE /\ ~DirectAccess(t) /\ is_address_flash(t.addr) /\ is_address_flash(Plus(t.addr, t.len))
           /\ t.addr % FLASH_PAGE_SIZE = 0
  <2> DEFINE a == Access("flash", t.kind, t.addr, FLASH_PAGE_SIZE)
  <2>1. Transfer(t).accesses = {a} /\ Transfer(t).code = "ok"
    BY <1>3 DEF Transfer, Done
  <2>2. AccessAllowed(a)
    BY <1>3, FlashPageAllowed
  <2>3. a.first = t.addr /\ a.len = FLASH_PAGE_SIZE
    BY DEF Access
  <2>4. QED BY <1>1, <2>1, <2>2, <2>3 DEF Allowed
<1>4. CASE /\ ~DirectAccess(t)
           /\ \/ ~is_address_flash(t.addr) \/ ~is_address_flash(Plus(t.addr, t.len))
              \/ t.addr % FLASH_PAGE_SIZE # 0
  <2>1. Transfer(t).accesses = {} /\ Transfer(t).code # "ok"
    BY <1>4 DEF Transfer, Refused
  <2>2. QED BY <2>1 DEF Allowed
<1>5. QED BY <1>2, <1>3, <1>4

(* The sectors of a range are those between its ends, and cover it. *)
LEMMA EraseAllowed ==
  ASSUME NEW t \in Tasks, t.kind = "erase"
  PROVE  Allowed(t, FlashErase(t))
<1> DEFINE sector == FLASH_SECTOR_ERASE_SIZE
<1> DEFINE end == Plus(t.addr, t.len)
<1>1. /\ t.addr \in Nat /\ t.len \in Nat /\ sector \in Nat \ {0} /\ end \in Nat
      /\ WordMod \in Nat /\ SRAM_BASE \in Nat /\ XIP_MAIN_BASE \in Nat
  BY MapAssumption, SumOfWords DEF Tasks, Word
<1>2. IF t.addr + t.len < WordMod THEN end = t.addr + t.len ELSE end < t.addr
  BY SumOfWords DEF Tasks
<1>3. CASE /\ t.addr % sector = 0 /\ t.len % sector = 0
           /\ is_address_flash(t.addr) /\ is_address_flash(end)
  <2>1. FlashErase(t).accesses = EraseRange(t.addr, end) /\ FlashErase(t).code = "ok"
    BY <1>3 DEF FlashErase, Done
  <2>2. ASSUME NEW a \in EraseRange(t.addr, end)
        PROVE  AccessAllowed(a) /\ a.first >= t.addr /\ a.first < t.addr + t.len
    <3>1. PICK b \in t.addr..end :
            b < end /\ (b - t.addr) % sector = 0 /\ a = Access("flash", "erase", b, sector)
      BY <2>2 DEF EraseRange
    <3>2. b \in Nat /\ b >= t.addr /\ end = t.addr + t.len
      BY <1>1, <1>2, <3>1
    <3>3. b % sector = 0 /\ end % sector = 0
      <4>1. b - t.addr \in Nat /\ b = t.addr + (b - t.addr)
        BY <1>1, <3>2
      <4>2. QED BY <1>1, <1>3, <3>1, <3>2, <4>1, SumOfMultiples
    <3>4. b + sector <= end
      BY <1>1, <3>1, <3>2, <3>3, NextMultiple
    <3>5. b >= XIP_MAIN_BASE /\ b + sector <= SRAM_BASE
      BY <1>1, <1>3, <3>2, <3>4 DEF is_address_flash
    <3>6. a.via = "flash" /\ a.op = "erase" /\ a.first = b /\ a.len = sector
      BY <3>1 DEF Access
    <3>7. QED BY <3>1, <3>2, <3>3, <3>5, <3>6 DEF AccessAllowed, Within
  <2>3. ASSUME t.addr + t.len < WordMod, NEW b \in t.addr..(t.addr + t.len - 1)
        PROVE  \E a \in EraseRange(t.addr, end) : a.first <= b /\ b < a.first + a.len
    <3>1. b - t.addr \in Nat
      BY <1>1
    <3>2. PICK c \in Nat : c % sector = 0 /\ c <= b - t.addr /\ b - t.addr < c + sector
      BY <1>1, <3>1, MultipleBelow
    <3>3. /\ t.addr + c \in t.addr..end /\ t.addr + c < end /\ (t.addr + c) - t.addr = c
          /\ t.addr + c <= b /\ b < t.addr + c + sector
      BY <1>1, <1>2, <2>3, <3>2
    <3>4. Access("flash", "erase", t.addr + c, sector) \in EraseRange(t.addr, end)
      BY <3>2, <3>3 DEF EraseRange
    <3>5. QED BY <3>3, <3>4 DEF Access
  <2>4. QED BY <2>1, <2>2, <2>3 DEF Allowed
<1>4. CASE \/ t.addr % sector # 0 \/ t.len % sector # 0
           \/ ~is_address_flash(t.addr) \/ ~is_address_flash(end)
  <2>1. FlashErase(t).accesses = {} /\ FlashErase(t).code # "ok"
    BY <1>4 DEF FlashErase, Refused
  <2>2. QED BY <2>1 DEF Allowed
<1>5. QED BY <1>3, <1>4

(* The outcome is of the range of the task. *)
LEMMA OutcomeOfTask ==
  ASSUME NEW t \in Tasks
  PROVE  ExecuteTask(t).addr = t.addr /\ ExecuteTask(t).len = t.len
BY DEF ExecuteTask, Vectorize, FlashErase, Transfer, Refused, Done

(* Whatever the task: it does what it may, and all of it. *)
LEMMA TaskAllowed ==
  ASSUME NEW t \in Tasks, t.len > 0, t.kind \in DataKinds => t.len <= FLASH_PAGE_SIZE
  PROVE  Allowed(t, ExecuteTask(t))
<1>1. CASE rebooting
  <2>1. ExecuteTask(t).accesses = {} /\ ExecuteTask(t).code # "ok"
    BY <1>1 DEF ExecuteTask, Refused
  <2>2. QED BY <2>1 DEF Allowed
<1>2. CASE ~rebooting /\ t.kind = "vectorize"
  <2>1. ExecuteTask(t) = Vectorize(t)
    BY <1>2 DEF ExecuteTask, DataKinds
  <2>2. CASE Vectorize(t).code = "ok"
    <3>1. /\ IsSafeForVectoring(t.addr) /\ IsSafeForVectoring(Plus(t.addr, TableSize))
          /\ Vectorize(t).accesses = {Access("bus", "write", t.addr, TableSize)}
      BY <2>2 DEF Vectorize, Refused, Done
    <3>2. AccessAllowed(Access("bus", "write", t.addr, TableSize))
      BY <3>1, SafeForTable DEF AccessAllowed, Within, Access, Tasks, Word
    <3>3. QED BY <1>2, <2>1, <2>2, <3>1, <3>2 DEF Allowed, DataKinds
  <2>3. CASE Vectorize(t).code # "ok"
    <3>1. Vectorize(t).accesses = {}
      BY <2>3 DEF Vectorize, Refused, Done
    <3>2. QED BY <2>1, <2>3, <3>1 DEF Allowed
  <2>4. QED BY <2>2, <2>3
<1>3. CASE ~rebooting /\ t.kind = "erase"
  <2>1. ExecuteTask(t) = FlashErase(t)
    BY <1>3 DEF ExecuteTask, DataKinds
  <2>2. QED BY <1>3, <2>1, EraseAllowed
<1>4. CASE ~rebooting /\ t.kind \in DataKinds
  <2>1. ExecuteTask(t) = Transfer(t)
    BY <1>4 DEF ExecuteTask, DataKinds
  <2>2. t.len \in 1..FLASH_PAGE_SIZE
    BY <1>4, MapAssumption DEF Tasks, Word
  <2>3. QED BY <1>4, <2>1, <2>2, TransferAllowed
<1>5. CASE ~rebooting /\ t.kind \in {"exec", "exit_xip", "enter_cmd_xip"}
  <2>1. ExecuteTask(t) = Done(t, {})
    BY <1>5 DEF ExecuteTask, DataKinds
  <2>2. Done(t, {}).accesses = {} /\ Done(t, {}).code = "ok"
    BY DEF Done
  <2>3. QED BY <1>5, <2>1, <2>2 DEF Allowed, DataKinds
<1>6. QED BY <1>1, <1>2, <1>3, <1>4, <1>5 DEF Tasks, Kinds

-----------------------------------------------------------------------------
(* The invariant holds when the image starts. *)
LEMMA TaskInit == Init => IInv
<1> SUFFICES ASSUME Init PROVE IInv
  OBVIOUS
<1>1. Numbers
  BY MapAssumption DEF Init, Numbers, NoCommand, NoOutcome, DefaultFuncs, Word
<1>2. QED BY <1>1 DEF Init, IInv, VectorsIntact, AccessesAllowed, NoOutcome

(* A step after which no task has an outcome. *)
LEMMA NoOutcomeAllowed ==
  ASSUME last' = NoOutcome
  PROVE  AccessesAllowed'
BY DEF AccessesAllowed, NoOutcome

(* A command that the host sends changes nothing but the command. *)
LEMMA CommandStep ==
  ASSUME IInv, NEW k \in Kinds, NEW a \in Addresses, NEW s \in Sizes, Command(k, a, s)
  PROVE  IInv'
<1>1. a \in Word /\ s \in Word /\ 0 \in Word
  BY MapAssumption, BoundsAssumption DEF Word
<1>2. last = NoOutcome /\ last' = NoOutcome
  BY DEF IInv, Numbers, Command
<1>3. /\ cmd' \in [kind : Kinds \cup {"none"}, addr : Word, length : Word, offset : Word]
      /\ cmd'.kind \in Kinds /\ (cmd'.length # 0 => cmd'.offset < cmd'.length)
  BY <1>1 DEF Command, Word
<1>4. Numbers'
  BY <1>2, <1>3 DEF IInv, Numbers, Command
<1>5. QED BY <1>2, <1>4, NoOutcomeAllowed DEF IInv, VectorsIntact, Command

(* A task: TaskKeepsTable and TaskAllowed, for the command's next chunk. *)
LEMMA ExecuteStep ==
  ASSUME IInv, Execute
  PROVE  IInv'
<1> DEFINE r == ExecuteTask(Task)
<1>1. /\ Task \in Tasks /\ Task.kind = cmd.kind
      /\ Task.kind \in DataKinds => Task.len <= FLASH_PAGE_SIZE
  BY TaskOfChunk DEF IInv, Execute
<1>2. r.len = Task.len /\ r.addr = Task.addr /\ r.len \in Nat /\ (r.len > 0 => Allowed(Task, r))
  BY <1>1, OutcomeOfTask, TaskAllowed DEF Tasks, Word
<1>3. \/ r.funcs = DefaultFuncs
      \/ TableKept(r)
      \/ /\ cmd.kind = "vectorize" /\ r.code = "ok"
         /\ r.funcs \in Nat /\ r.funcs >= SRAM_BASE /\ r.funcs + TableSize <= SRAM_END
  BY <1>1, TaskKeepsTable DEF IInv
<1>4. /\ last' = r /\ flash_funcs' = r.funcs /\ cmd' = cmd /\ cmd # NoCommand
      /\ intact' = IF (cmd.kind = "vectorize" /\ r.code = "ok") \/ r.funcs = DefaultFuncs THEN TRUE
                   ELSE intact /\ \A a \in r.accesses : ~Overlap(a, r.funcs)
  BY DEF Execute
<1> HIDE DEF r
<1>5. r.funcs \in Nat
  BY <1>3, MapAssumption DEF TableKept, IInv, Numbers, DefaultFuncs
<1>6. Numbers'
  BY <1>2, <1>4, <1>5 DEF IInv, Numbers
<1>7. VectorsIntact'
  <2>1. CASE r.funcs = DefaultFuncs
    BY <2>1, <1>4 DEF VectorsIntact, DefaultFuncs
  <2>2. CASE r.funcs # DefaultFuncs /\ TableKept(r) /\ ~(cmd.kind = "vectorize" /\ r.code = "ok")
    BY <2>2, <1>4 DEF VectorsIntact, TableKept, IInv, DefaultFuncs
  <2>3. CASE cmd.kind = "vectorize" /\ r.code = "ok"
    BY <2>3, <1>3, <1>4 DEF VectorsIntact, TableKept, IInv, DefaultFuncs
  <2>4. QED BY <1>3, <2>1, <2>2, <2>3
<1>8. AccessesAllowed'
  <2> SUFFICES ASSUME r.len > 0
               PROVE  AccessesAllowed'
    BY <1>4 DEF AccessesAllowed
  <2>1. Allowed(Task, r)
    BY <1>2
  <2>2. QED BY <2>1, <1>1, <1>2, <1>4 DEF AccessesAllowed, Allowed
<1>9. QED BY <1>6, <1>7, <1>8 DEF IInv

(* The next chunk starts where the last one ended. *)
LEMMA CompleteStep ==
  ASSUME IInv, Complete
  PROVE  IInv'
<1>1. last.len \in Nat /\ cmd # NoCommand /\ last' = NoOutcome
  BY DEF IInv, Numbers, Complete
<1>2. CASE cmd' = NoCommand
  <2>1. Numbers'
    BY <1>1, <1>2, MapAssumption DEF IInv, Numbers, Complete, NoCommand, Word
  <2>2. QED BY <1>1, <2>1, NoOutcomeAllowed DEF IInv, VectorsIntact, Complete
<1>3. CASE /\ cmd' = [cmd EXCEPT !.offset = @ + last.len, !.addr = Plus(@, last.len)]
           /\ cmd.offset + last.len < cmd.length
  <2>1. cmd.addr \in Word /\ last.len \in Word /\ cmd.offset + last.len \in Word
    BY <1>1, <1>3, MapAssumption DEF IInv, Numbers, Word
  <2>2. Plus(cmd.addr, last.len) \in Word
    BY <2>1, SumOfWords
  <2>3. /\ cmd' \in [kind : Kinds \cup {"none"}, addr : Word, length : Word, offset : Word]
        /\ cmd'.kind = cmd.kind /\ cmd'.offset < cmd'.length
    BY <1>3, <2>1, <2>2 DEF IInv, Numbers
  <2>4. Numbers'
    BY <1>1, <2>3 DEF IInv, Numbers, Complete
  <2>5. QED BY <1>1, <2>4, NoOutcomeAllowed DEF IInv, VectorsIntact, Complete
<1>4. QED BY <1>2, <1>3 DEF Complete

(* A reset of the interface drops the command and leaves the table alone. *)
LEMMA InterfaceResetStep ==
  ASSUME IInv, InterfaceReset
  PROVE  IInv'
<1>1. Numbers'
  BY MapAssumption DEF IInv, Numbers, InterfaceReset, NoCommand, Word
<1>2. QED BY <1>1, NoOutcomeAllowed DEF IInv, VectorsIntact, InterfaceReset

(* Until the watchdog fires nothing else changes. *)
LEMMA RebootStep ==
  ASSUME IInv, Reboot
  PROVE  IInv'
BY DEF IInv, Numbers, VectorsIntact, AccessesAllowed, Reboot

(* The reset brings back the table in the image. *)
LEMMA WatchdogStep ==
  ASSUME IInv, WatchdogFires
  PROVE  IInv'
<1>1. Numbers'
  BY MapAssumption DEF IInv, Numbers, WatchdogFires, NoCommand, NoOutcome, DefaultFuncs, Word
<1>2. QED BY <1>1, NoOutcomeAllowed DEF IInv, VectorsIntact, WatchdogFires

(* Every step keeps the invariant. *)
LEMMA TaskStep == IInv /\ [Next]_vars => IInv'
<1> SUFFICES ASSUME IInv, [Next]_vars PROVE IInv'
  OBVIOUS
<1>1. CASE \E k \in Kinds, a \in Addresses, s \in Sizes : Command(k, a, s)
  BY <1>1, CommandStep
<1>2. CASE Execute BY <1>2, ExecuteStep
<1>3. CASE Complete BY <1>3, CompleteStep
<1>4. CASE InterfaceReset BY <1>4, InterfaceResetStep
<1>5. CASE Reboot BY <1>5, RebootStep
<1>6. CASE WatchdogFires BY <1>6, WatchdogStep
<1>7. CASE UNCHANGED vars
  BY <1>7 DEF vars, IInv, Numbers, VectorsIntact, AccessesAllowed
<1>8. QED BY <1>1, <1>2, <1>3, <1>4, <1>5, <1>6, <1>7 DEF Next

(* The flash functions are called through an intact table, in the SRAM or in
   the image: _execute_task reverts to the image's before a write reaches the
   copy (async_task.c:187). *)
THEOREM VectorsAlwaysIntact == Spec => []VectorsIntact
<1>1. IInv => VectorsIntact
  BY DEF IInv
<1>2. QED BY <1>1, TaskInit, TaskStep, PTL DEF Spec

(* The checks of two ends, alignment and wrap-around included, keep every
   task in what it may touch and let it do all that it was asked. *)
THEOREM AccessesAlwaysAllowed == Spec => []AccessesAllowed
<1>1. IInv => AccessesAllowed
  BY DEF IInv
<1>2. QED BY <1>1, TaskInit, TaskStep, PTL DEF Spec
=============================================================================
