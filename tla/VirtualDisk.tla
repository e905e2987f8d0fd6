----------------------------- MODULE VirtualDisk -----------------------------
(***************************************************************************)
(* The read side of bootrom/virtual_disk.c: a FAT16 volume that is         *)
(* computed sector by sector when the host asks for it, with a file        *)
(* CRASHDMP.XXD that shows the SRAM as text.  The host is a file system    *)
(* that finds everything from the boot sector: it opens a file, reads its  *)
(* sectors, follows either copy of the FAT from cluster to cluster, and    *)
(* may check where the chain of the file ends.                             *)
(*                                                                         *)
(* A sector is what it shows: the text in it, or the first address of the  *)
(* BYTES_DUMPED_PER_SECTOR bytes that xxd prints into it.                  *)
(*                                                                         *)
(* Operators named Faulty... are variants with a plausible fault, against  *)
(* which the properties are tested.                                        *)
(***************************************************************************)
EXTENDS Naturals

CONSTANTS
  SECTOR_SIZE,              \* bytes
  SectorsPerCluster,        \* 1 << CLUSTER_SHIFT
  SECTOR_COUNT,             \* sectors of the disk
  MAX_ROOT_DIRECTORY_ENTRIES,
  SRAM_BASE, SRAM_END,      \* the memory that is dumped
  TextLen                   \* longest of welcome.html and info_uf2.txt, in bytes

ASSUME SectorSizeAssumption == SECTOR_SIZE \in Nat /\ SECTOR_SIZE % 256 = 0 /\ SECTOR_SIZE > 0
ASSUME ClusterAssumption == SectorsPerCluster \in Nat \ {0}
ASSUME SectorCountAssumption == SECTOR_COUNT \in Nat
ASSUME RootEntriesAssumption == MAX_ROOT_DIRECTORY_ENTRIES \in Nat
ASSUME SramAssumption == SRAM_BASE \in Nat /\ SRAM_END \in Nat /\ SRAM_BASE < SRAM_END
ASSUME TextAssumption == TextLen \in 1..SECTOR_SIZE

(* Geometry *)
FAT_COUNT      == 2
FIRST_CLUSTER  == 2
CLUS_INDEX     == 2
CLUS_INFO      == 3
CLUS_CRASH_START == 4

CLUSTER_SIZE   == SECTOR_SIZE * SectorsPerCluster
CLUSTER_COUNT  == (SECTOR_COUNT * SECTOR_SIZE) \div CLUSTER_SIZE
SECTORS_PER_FAT == (2 * (CLUSTER_COUNT + SECTOR_SIZE - 1)) \div SECTOR_SIZE
ROOT_DIRECTORY_SECTORS == (MAX_ROOT_DIRECTORY_ENTRIES * 32) \div SECTOR_SIZE
EntriesPerSector == SECTOR_SIZE \div 2

XXD_CHARS_PER_BYTE == 4
BYTES_DUMPED_PER_SECTOR == SECTOR_SIZE \div XXD_CHARS_PER_BYTE
BYTES_DUMPED_PER_CLUSTER == CLUSTER_SIZE \div XXD_CHARS_PER_BYTE
MEM_SIZE == SRAM_END - SRAM_BASE
CLUS_CRASH_LAST == CLUS_CRASH_START + (MEM_SIZE \div BYTES_DUMPED_PER_CLUSTER)
CRASH_LEN == XXD_CHARS_PER_BYTE * MEM_SIZE

(* The memory fills whole sectors of the dump, the root directory has one, and
   the clusters of the dump are on the disk. *)
ASSUME WholeSectorsAssumption == MEM_SIZE % BYTES_DUMPED_PER_SECTOR = 0
ASSUME RootSectorAssumption == ROOT_DIRECTORY_SECTORS > 0
ASSUME DumpFitsAssumption == CLUS_CRASH_LAST < CLUSTER_COUNT

FREE == 0
EOC == 65535        \* end of chain

Least(a, b) == IF a <= b THEN a ELSE b
Greatest(a, b) == IF a >= b THEN a ELSE b

-----------------------------------------------------------------------------
(* The partition table, and the fields of the boot sector. *)
Mbr == [kind |-> "mbr", start |-> 1]
Boot ==
  [kind |-> "boot", spc |-> SectorsPerCluster, reserved |-> 1, fats |-> FAT_COUNT,
   root |-> MAX_ROOT_DIRECTORY_ENTRIES, spf |-> SECTORS_PER_FAT]

Zero == [kind |-> "zero"]

FaultyLinks(fat) ==
  LET fixed == IF fat = 0 THEN 4 ELSE 0
      first == Greatest(fat * EntriesPerSector, CLUS_CRASH_START)
      last  == Least(fat * EntriesPerSector + EntriesPerSector - 2, CLUS_CRASH_LAST)
      count == IF first <= last THEN last - first + 1 ELSE 0
  IN  [i \in 0..(EntriesPerSector - 1) |->
         IF i < fixed THEN EOC
         ELSE IF i < fixed + count THEN first + (i - fixed) + 1
         ELSE FREE]

(***************************************************************************)
(* Sector `fat' of a FAT.  The first one begins with the media descriptor, *)
(* the end mark and the one-cluster files (EOC stands for all of them);    *)
(* the clusters of the dump follow, each linked to the next one, at the    *)
(* position that index has got to.                                         *)
(***************************************************************************)
Links(fat) ==
  LET fixed == IF fat = 0 THEN 4 ELSE 0
      first == Greatest(fat * EntriesPerSector, CLUS_CRASH_START)
      last  == Least(fat * EntriesPerSector + EntriesPerSector - 1, CLUS_CRASH_LAST)
      count == IF first <= last THEN last - first + 1 ELSE 0
  IN  [i \in 0..(EntriesPerSector - 1) |->
         IF i < fixed THEN EOC
         ELSE IF i < fixed + count
              THEN IF i = CLUS_CRASH_LAST /\ i = fixed + count - 1
                   THEN EOC                       \* "patch up last cluster"
                   ELSE first + (i - fixed) + 1
              ELSE FREE]

FatSector(fat) == [kind |-> "fat", entry |-> Links(fat)]

Files == {"index", "info", "crashdmp"}

(* init_dir_entry, for each file of the root directory *)
DirEntry(f) ==
  CASE f = "index"    -> [cluster |-> CLUS_INDEX, size |-> TextLen]
    [] f = "info"     -> [cluster |-> CLUS_INFO, size |-> TextLen]
    [] f = "crashdmp" -> [cluster |-> CLUS_CRASH_START, size |-> CRASH_LEN]

RootDirectory == [kind |-> "root", file |-> [f \in Files |-> DirEntry(f)]]

FaultyData(lba) ==
  LET cluster == (lba \div SectorsPerCluster) + FIRST_CLUSTER
      offset  == lba % SectorsPerCluster
  IN  IF CLUS_CRASH_START <= cluster /\ cluster <= CLUS_CRASH_LAST
      THEN [kind |-> "dump",
            addr |-> SRAM_BASE + (cluster - CLUS_CRASH_START) * BYTES_DUMPED_PER_CLUSTER]
      ELSE IF cluster = CLUS_INDEX /\ offset = 0 THEN [kind |-> "text", file |-> "index"]
      ELSE IF cluster = CLUS_INFO /\ offset = 0 THEN [kind |-> "text", file |-> "info"]
      ELSE Zero

(* A sector of the data region, counted from its start. *)
Data(lba) ==
  LET cluster == (lba \div SectorsPerCluster) + FIRST_CLUSTER
      offset  == lba % SectorsPerCluster
  IN  IF CLUS_CRASH_START <= cluster /\ cluster <= CLUS_CRASH_LAST
      THEN [kind |-> "dump",
            addr |-> SRAM_BASE + (cluster - CLUS_CRASH_START) * BYTES_DUMPED_PER_CLUSTER
                               + offset * BYTES_DUMPED_PER_SECTOR]
      ELSE IF cluster = CLUS_INDEX /\ offset = 0 THEN [kind |-> "text", file |-> "index"]
      ELSE IF cluster = CLUS_INFO /\ offset = 0 THEN [kind |-> "text", file |-> "info"]
      ELSE Zero

(* vd_read_block *)
vd_read_block(lba) ==
  LET fat  == lba - 2
      root == fat - SECTORS_PER_FAT * FAT_COUNT
  IN  IF lba = 0 THEN Mbr
      ELSE IF lba = 1 THEN Boot
      ELSE IF fat < SECTORS_PER_FAT * FAT_COUNT THEN FatSector(fat % SECTORS_PER_FAT)
      ELSE IF root < ROOT_DIRECTORY_SECTORS THEN IF root = 0 THEN RootDirectory ELSE Zero
      ELSE Data(root - ROOT_DIRECTORY_SECTORS)

-----------------------------------------------------------------------------
(* What the host works out from the partition table and the boot sector. *)
PartitionStart == vd_read_block(0).start
Fields == vd_read_block(PartitionStart)
FatLba(copy) == PartitionStart + Fields.reserved + copy * Fields.spf
RootLba == FatLba(Fields.fats)
DataLba(cluster, offset) ==
  RootLba + (Fields.root * 32) \div SECTOR_SIZE + (cluster - 2) * Fields.spc + offset

(* The entry of a cluster in one copy of the FAT. *)
EntryOf(cluster, copy) ==
  vd_read_block(FatLba(copy) + cluster \div EntriesPerSector).entry[cluster % EntriesPerSector]

IsCluster(c) == 2 <= c /\ c < CLUSTER_COUNT

VARIABLES
  file,         \* the file that is open, the cluster and sector of it that the
                \* host reads next, how many sectors it has read
  shown         \* the last sector it has read

vars == <<file, shown>>

Closed == [stage |-> "closed", name |-> "index", cluster |-> 2, offset |-> 0, pos |-> 0]

Init == file = Closed /\ shown = Zero

(* Open a file by its directory entry. *)
Open(f) ==
  /\ file.stage = "closed"
  /\ file' = [Closed EXCEPT !.stage = "data", !.name = f,
                            !.cluster = vd_read_block(RootLba).file[f].cluster]
  /\ UNCHANGED shown

SizeOf(f) == vd_read_block(RootLba).file[f].size

(* READ(10) for the next sector of the file. *)
ReadSector ==
  /\ file.stage = "data"
  /\ shown' = vd_read_block(DataLba(file.cluster, file.offset))
  /\ file' = [file EXCEPT
       !.pos    = @ + 1,
       !.offset = (@ + 1) % SectorsPerCluster,
       !.stage  = IF (file.pos + 1) * SECTOR_SIZE >= SizeOf(file.name) THEN "end"
                  ELSE IF file.offset + 1 = SectorsPerCluster THEN "fat" ELSE "data"]

(* The next cluster of the file, from either copy of the FAT. *)
Follow(copy) ==
  LET e == EntryOf(file.cluster, copy)
  IN  /\ file.stage = "fat"
      /\ file' = IF IsCluster(e) THEN [file EXCEPT !.stage = "data", !.cluster = e]
                 ELSE [file EXCEPT !.stage = "lost"]
      /\ UNCHANGED shown

(* A check of the file system walks on to the end of the chain. *)
CheckChain(copy) ==
  LET e == EntryOf(file.cluster, copy)
  IN  /\ file.stage \in {"end", "surplus"}
      /\ file' = IF e = EOC THEN Closed
                 ELSE IF IsCluster(e) THEN [file EXCEPT !.stage = "surplus", !.cluster = e]
                 ELSE [file EXCEPT !.stage = "broken"]
      /\ UNCHANGED shown

Close ==
  /\ file.stage \in {"end", "broken", "lost"}
  /\ file' = Closed
  /\ UNCHANGED shown

Next ==
  \/ \E f \in Files : Open(f)
  \/ ReadSector
  \/ \E copy \in {0, 1} : Follow(copy) \/ CheckChain(copy)
  \/ Close

Spec == Init /\ [][Next]_vars

(* A host that has opened a file reads it to the end. *)
LiveSpec == Spec /\ WF_vars(ReadSector) /\ WF_vars(\E copy \in {0, 1} : Follow(copy))

-----------------------------------------------------------------------------
(* Every variable holds a value of its type. *)
TypeOK ==
  /\ file \in [stage : {"closed", "data", "fat", "end", "lost", "surplus", "broken"},
               name : Files, cluster : 2..(CLUSTER_COUNT - 1),
               offset : 0..(SectorsPerCluster - 1),
               pos : 0..(CRASH_LEN \div SECTOR_SIZE + 1)]
  /\ shown.kind \in {"zero", "text", "dump"}

(* The n-th sector of a file shows what it should: the text of the file, or
   for the dump the n-th piece of the memory, in the order of the addresses.
   The dump, read to its end, has shown the whole memory and nothing beyond. *)
ContentInOrder ==
  /\ TypeOK
  /\ file.pos > 0 =>
       shown = IF file.name = "crashdmp"
               THEN [kind |-> "dump",
                     addr |-> SRAM_BASE + (file.pos - 1) * BYTES_DUMPED_PER_SECTOR]
               ELSE [kind |-> "text", file |-> file.name]
  /\ file.stage = "end" /\ file.name = "crashdmp" =>
       shown.addr + BYTES_DUMPED_PER_SECTOR = SRAM_END

(* A file that is opened is read to its end: whichever copy of the FAT it
   follows, the host comes to no free or last entry before the size of the
   file is reached. *)
FilesEnd == file.stage = "data" ~> file.stage = "end"

(* "crashdmp.xxd -- patch up last cluster": the chain of a file ends with an
   end-of-chain entry. *)
ChainEnds == file.stage # "broken"
=============================================================================
