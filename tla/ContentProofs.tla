---------------------------- MODULE ContentProofs ----------------------------
(***************************************************************************)
(* What the image shows and how it is packed, for every geometry, text,    *)
(* length and alignment that VirtualDisk and Rom allow: each file of the   *)
(* disk is read in order and to its end, whichever copy of the FAT the     *)
(* host follows, and the dump is the whole memory (part 1); every text     *)
(* that the generator packs is restored by both decoders (part 2); memcpy  *)
(* and memset touch each byte of their buffers once (part 3); a sector of  *)
(* the dump reads back as the memory it shows (part 4); and the routines   *)
(* on bits and crc32_small return what they are for (part 5).              *)
(***************************************************************************)
EXTENDS VirtualDisk, Rom, Integers, SequenceTheorems, FiniteSetTheorems,
        WellFoundedInduction, TLAPS

(***************************************************************************)
(* Part 1: the disk.  First, arithmetic.                                   *)
(***************************************************************************)

(* A factor can be taken out of an inequality. *)
LEMMA Cancel ==
  ASSUME NEW m \in Nat \ {0}, NEW p \in Int, NEW q \in Int, p * m < q * m
  PROVE  p < q
<1> SUFFICES ASSUME q <= p PROVE q * m <= p * m
  OBVIOUS
<1> DEFINE d == p - q
<1>1. d \in Nat /\ \A x \in Nat : x * m \in Nat
  OBVIOUS
<1>2. d * m \in Nat
  BY <1>1
<1>3. d * m = p * m - q * m /\ p * m \in Int /\ q * m \in Int
  OBVIOUS
<1> HIDE DEF d
<1>4. QED BY <1>2, <1>3

(* Division with remainder. *)
LEMMA Quotient ==
  ASSUME NEW m \in Nat \ {0}, NEW a \in Nat
  PROVE  a = (a \div m) * m + (a % m) /\ a \div m \in Nat /\ a % m \in 0..(m - 1)
OBVIOUS

(* Quotient and remainder are the only ones. *)
LEMMA Division ==
  ASSUME NEW m \in Nat \ {0}, NEW q \in Nat, NEW r \in 0..(m - 1)
  PROVE  (q * m + r) \div m = q /\ (q * m + r) % m = r
<1> DEFINE a == q * m + r
<1> DEFINE p == a \div m
<1> DEFINE s == a % m
<1>1. a \in Nat
  BY SMTT(20)
<1>2. a = p * m + s /\ p \in Nat /\ s \in 0..(m - 1)
  BY <1>1
<1>3. q * m + r = p * m + s
  BY <1>2
<1> HIDE DEF a, p, s
<1>4. q < p + 1
  <2>1. (p + 1) * m = p * m + m
    BY <1>2
  <2>2. q * m < (p + 1) * m
    <3> DEFINE x == q * m
    <3> DEFINE y == p * m
    <3>1. x \in Int /\ y \in Int /\ x + r = y + s /\ (p + 1) * m = y + m
      BY <1>2, <1>3, <2>1
    <3> HIDE DEF x, y
    <3>2. x < y + m
      BY <1>2, <3>1
    <3>3. QED BY <3>1, <3>2 DEF x
  <2>3. QED BY <1>2, <2>2, Cancel
<1>5. p < q + 1
  <2>1. (q + 1) * m = q * m + m
    OBVIOUS
  <2>2. p * m < (q + 1) * m
    <3> DEFINE x == q * m
    <3> DEFINE y == p * m
    <3>1. x \in Int /\ y \in Int /\ x + r = y + s /\ (q + 1) * m = x + m
      BY <1>2, <1>3, <2>1
    <3> HIDE DEF x, y
    <3>2. y < x + m
      BY <1>2, <3>1
    <3>3. QED BY <3>1, <3>2 DEF y
  <2>3. QED BY <1>2, <2>2, Cancel
<1>6. p = q
  BY <1>2, <1>4, <1>5
<1>7. s = r
  BY <1>2, <1>3, <1>6
<1>8. QED BY <1>6, <1>7 DEF a, p, s

-----------------------------------------------------------------------------
(***************************************************************************)
(* The disk.                                                               *)
(***************************************************************************)

(* How many sectors the dump has. *)
DumpSectors == MEM_SIZE \div BYTES_DUMPED_PER_SECTOR

(* The sizes that the layout is computed from. *)
LEMMA Geometry ==
  /\ SECTOR_SIZE \in Nat \ {0} /\ EntriesPerSector \in Nat /\ EntriesPerSector >= 128
  /\ SECTOR_SIZE = 2 * EntriesPerSector
  /\ BYTES_DUMPED_PER_SECTOR \in Nat \ {0}
  /\ SECTOR_SIZE = 4 * BYTES_DUMPED_PER_SECTOR
  /\ SectorsPerCluster \in Nat \ {0}
  /\ ROOT_DIRECTORY_SECTORS \in Nat \ {0}
  /\ MEM_SIZE \in Nat \ {0} /\ SRAM_BASE \in Nat
  /\ SRAM_END = SRAM_BASE + MEM_SIZE
<1>1. SECTOR_SIZE \in Nat \ {0} /\ SECTOR_SIZE % 256 = 0
  BY SectorSizeAssumption
<1>2. PICK u \in Nat : SECTOR_SIZE = 256 * u
  <2>1. SECTOR_SIZE = 256 * (SECTOR_SIZE \div 256)
    BY <1>1
  <2>2. SECTOR_SIZE \div 256 \in Nat
    BY <1>1
  <2>3. QED BY <2>1, <2>2
<1>3. u >= 1
  BY <1>1, <1>2
<1>4. EntriesPerSector = 128 * u /\ BYTES_DUMPED_PER_SECTOR = 64 * u
  BY <1>2 DEF EntriesPerSector, BYTES_DUMPED_PER_SECTOR, XXD_CHARS_PER_BYTE
<1>5. ROOT_DIRECTORY_SECTORS \in Nat \ {0}
  BY <1>1, RootEntriesAssumption, RootSectorAssumption DEF ROOT_DIRECTORY_SECTORS
<1>6. QED BY <1>1, <1>2, <1>3, <1>4, <1>5, ClusterAssumption, SramAssumption DEF MEM_SIZE

(* Memory and file, in sectors of the dump. *)
LEMMA DumpSize ==
  /\ DumpSectors \in Nat \ {0}
  /\ MEM_SIZE = DumpSectors * BYTES_DUMPED_PER_SECTOR
  /\ CRASH_LEN = DumpSectors * SECTOR_SIZE
  /\ BYTES_DUMPED_PER_CLUSTER = SectorsPerCluster * BYTES_DUMPED_PER_SECTOR
<1> DEFINE b == BYTES_DUMPED_PER_SECTOR
<1> DEFINE q == DumpSectors
<1>1. b \in Nat \ {0} /\ SECTOR_SIZE = 4 * b /\ SectorsPerCluster \in Nat \ {0} /\ MEM_SIZE \in Nat \ {0}
  BY Geometry
<1>2. MEM_SIZE = q * b /\ q \in Nat
  <2>1. MEM_SIZE = q * b + (MEM_SIZE % b) /\ q \in Nat
    BY <1>1, Quotient DEF DumpSectors
  <2>2. MEM_SIZE % b = 0
    BY WholeSectorsAssumption
  <2> HIDE DEF b, q
  <2>3. q * b + 0 = q * b
    BY <1>1, <2>1
  <2>4. QED BY <2>1, <2>2, <2>3
<1>3. q # 0
  BY <1>1, <1>2
<1>4. CRASH_LEN = q * SECTOR_SIZE
  <2>1. CRASH_LEN = 4 * (q * b)
    BY <1>1, <1>2 DEF CRASH_LEN, XXD_CHARS_PER_BYTE
  <2> HIDE DEF q, b
  <2>2. q * (4 * b) = 4 * (q * b)
    BY <1>1, <1>2, SMTT(20)
  <2>3. QED BY <1>1, <2>1, <2>2
<1>5. BYTES_DUMPED_PER_CLUSTER = SectorsPerCluster * b
  <2> DEFINE n == SectorsPerCluster * b
  <2>1. n \in Nat
    BY <1>1
  <2>2. CLUSTER_SIZE = 4 * n
    BY <1>1, SMTT(20) DEF CLUSTER_SIZE
  <2> HIDE DEF n
  <2>3. BYTES_DUMPED_PER_CLUSTER = n
    BY <2>1, <2>2 DEF BYTES_DUMPED_PER_CLUSTER, XXD_CHARS_PER_BYTE
  <2>4. QED BY <2>3 DEF n
<1> HIDE DEF q
<1>6. QED BY <1>2, <1>3, <1>4, <1>5 DEF q

(* The FAT has an entry for every cluster of the disk. *)
LEMMA FatLongEnough ==
  /\ CLUSTER_COUNT \in Nat /\ SECTORS_PER_FAT \in Nat
  /\ \A c \in Nat : c < CLUSTER_COUNT =>
       /\ c \div EntriesPerSector \in Nat /\ c \div EntriesPerSector < SECTORS_PER_FAT
       /\ c % EntriesPerSector \in 0..(EntriesPerSector - 1)
       /\ c = (c \div EntriesPerSector) * EntriesPerSector + (c % EntriesPerSector)
<1> DEFINE s == SECTOR_SIZE
<1> DEFINE e == EntriesPerSector
<1>1. s \in Nat \ {0} /\ e \in Nat /\ e >= 128 /\ s = 2 * e /\ SectorsPerCluster \in Nat \ {0}
  BY Geometry
<1>2. CLUSTER_COUNT \in Nat
  <2>1. CLUSTER_SIZE \in Nat \ {0}
    BY <1>1, SMTT(20) DEF CLUSTER_SIZE
  <2>2. SECTOR_COUNT * SECTOR_SIZE \in Nat
    BY <1>1, SectorCountAssumption
  <2> DEFINE n == SECTOR_COUNT * SECTOR_SIZE
  <2> HIDE DEF n
  <2>3. n \div CLUSTER_SIZE \in Nat
    BY <2>1, <2>2 DEF n
  <2>4. QED BY <2>3 DEF CLUSTER_COUNT, n
<1> DEFINE f == SECTORS_PER_FAT
<1> DEFINE n == 2 * (CLUSTER_COUNT + s - 1)
<1>3. n \in Nat
  BY <1>1, <1>2
<1>4. f = n \div s
  BY DEF SECTORS_PER_FAT
<1>5. f \in Nat /\ n < f * s + s
  <2> HIDE DEF n, f, s
  <2>1. n = (n \div s) * s + (n % s) /\ n \div s \in Nat /\ n % s \in 0..(s - 1)
    BY <1>1, <1>3, Quotient
  <2> DEFINE m == (n \div s) * s
  <2>2. m \in Nat /\ n = m + (n % s)
    BY <1>1, <2>1
  <2> HIDE DEF m
  <2>3. n < m + s
    BY <1>1, <2>1, <2>2
  <2>4. QED BY <1>4, <2>1, <2>3 DEF m
<1>6. ASSUME NEW c \in Nat, c < CLUSTER_COUNT
      PROVE  /\ c \div e \in Nat /\ c \div e < f
             /\ c % e \in 0..(e - 1)
             /\ c = (c \div e) * e + (c % e)
  <2> HIDE DEF e, f, s
  <2>1. c = (c \div e) * e + (c % e) /\ c \div e \in Nat /\ c % e \in 0..(e - 1)
    BY <1>1
  <2> DEFINE q == c \div e
  <2> DEFINE m == q * e
  <2>2. m \in Nat /\ m <= c /\ q * s = 2 * m
    BY <1>1, <2>1, SMTT(20)
  <2>3. q * s < f * s
    <3> DEFINE fs == f * s
    <3>1. fs \in Nat /\ n < fs + s
      BY <1>1, <1>5
    <3> HIDE DEF fs, m, q
    <3>2. 2 * m < fs
      BY <1>1, <1>2, <1>6, <2>2, <3>1
    <3>3. QED BY <2>2, <3>2 DEF fs
  <2>4. q < f
    BY <1>1, <1>5, <2>1, <2>3, Cancel
  <2>5. QED BY <2>1, <2>4
<1>7. QED BY <1>2, <1>5, <1>6

(* What the host works out is where the disk puts things. *)
LEMMA HostLayout ==
  /\ Fields = Boot
  /\ \A copy \in {0, 1} : FatLba(copy) = 2 + copy * SECTORS_PER_FAT
  /\ RootLba = 2 + 2 * SECTORS_PER_FAT
  /\ vd_read_block(RootLba) = RootDirectory
<1>1. SECTORS_PER_FAT \in Nat /\ ROOT_DIRECTORY_SECTORS \in Nat \ {0}
  BY FatLongEnough, Geometry
<1>2. PartitionStart = 1
  BY DEF PartitionStart, vd_read_block, Mbr
<1>3. Fields = Boot
  BY <1>2 DEF Fields, vd_read_block
<1>4. Boot.reserved = 1 /\ Boot.spf = SECTORS_PER_FAT /\ Boot.fats = 2
  BY DEF Boot, FAT_COUNT
<1>5. \A copy : FatLba(copy) = 1 + 1 + copy * SECTORS_PER_FAT
  BY <1>2, <1>3, <1>4 DEF FatLba
<1>6. RootLba = 2 + 2 * SECTORS_PER_FAT
  BY <1>1, <1>3, <1>4, <1>5 DEF RootLba
<1>7. vd_read_block(RootLba) = RootDirectory
  BY <1>1, <1>6 DEF vd_read_block, FAT_COUNT
<1>8. QED BY <1>1, <1>3, <1>5, <1>6, <1>7

(* The entry of a cluster is the one in the sector of the FAT that holds it,
   in either copy. *)
LEMMA EntryIsLink ==
  ASSUME NEW c \in Nat, c < CLUSTER_COUNT, NEW copy \in {0, 1}
  PROVE  EntryOf(c, copy) = Links(c \div EntriesPerSector)[c % EntriesPerSector]
<1> DEFINE f == SECTORS_PER_FAT
<1> DEFINE q == c \div EntriesPerSector
<1>1. f \in Nat /\ q \in Nat /\ q < f
  BY FatLongEnough
<1>2. FatLba(copy) + q = 2 + copy * f + q
  BY HostLayout
<1> HIDE DEF f, q
<1> DEFINE lba == 2 + copy * f + q
<1>3. lba \in Nat /\ lba # 0 /\ lba # 1 /\ lba - 2 < f * 2 /\ lba - 2 = copy * f + q
  BY <1>1
<1>4. (lba - 2) % f = q
  BY <1>1, <1>3, Division
<1> HIDE DEF lba
<1>5. vd_read_block(lba) = FatSector(q)
  BY <1>3, <1>4 DEF vd_read_block, FAT_COUNT, f
<1>6. QED BY <1>2, <1>5 DEF EntryOf, FatSector, lba, q

(* The clusters of the dump are linked one to the next; every entry is a
   number. *)
LEMMA DumpIsLinked ==
  ASSUME NEW c \in Nat, c < CLUSTER_COUNT, NEW copy \in {0, 1}
  PROVE  /\ EntryOf(c, copy) \in Nat
         /\ CLUS_CRASH_START <= c /\ c < CLUS_CRASH_LAST => EntryOf(c, copy) = c + 1
<1> DEFINE e == EntriesPerSector
<1> DEFINE fat == c \div e
<1> DEFINE i == c % e
<1> DEFINE fixed == IF fat = 0 THEN 4 ELSE 0
<1> DEFINE first == Greatest(fat * e, 4)
<1> DEFINE last == Least(fat * e + e - 1, CLUS_CRASH_LAST)
<1> DEFINE count == IF first <= last THEN last - first + 1 ELSE 0
<1>1. e \in Nat /\ e >= 128 /\ fat \in Nat /\ i \in 0..(e - 1) /\ c = fat * e + i
  BY Geometry, FatLongEnough
<1>2. CLUS_CRASH_LAST \in Nat /\ CLUS_CRASH_LAST >= 4
  <2>1. BYTES_DUMPED_PER_CLUSTER \in Nat \ {0}
    BY Geometry, DumpSize, SMTT(20)
  <2>2. MEM_SIZE \div BYTES_DUMPED_PER_CLUSTER \in Nat
    BY <2>1, Geometry
  <2>3. QED BY <2>2 DEF CLUS_CRASH_LAST, CLUS_CRASH_START
<1>3. EntryOf(c, copy) = Links(fat)[i]
  BY EntryIsLink
<1>4. Links(fat)[i] =
        IF i < fixed THEN EOC
        ELSE IF i < fixed + count
             THEN IF i = CLUS_CRASH_LAST /\ i = fixed + count - 1
                  THEN EOC ELSE first + (i - fixed) + 1
             ELSE FREE
  BY <1>1 DEF Links, CLUS_CRASH_START
<1>5. fat * e \in Nat /\ (fat = 0 => fat * e = 0) /\ (fat # 0 => fat * e >= e)
  <2>1. CASE fat = 0
    BY <1>1, <2>1
  <2>2. CASE fat # 0
    <3>1. (fat - 1) * e \in Nat /\ fat * e = (fat - 1) * e + e
      BY <1>1, <2>2, SMTT(20)
    <3> DEFINE x == (fat - 1) * e
    <3> DEFINE y == fat * e
    <3>2. x \in Nat /\ y = x + e
      BY <3>1
    <3> HIDE DEF x, y, fat
    <3>3. y \in Nat /\ y >= e
      BY <1>1, <3>2
    <3>4. QED BY <2>2, <3>3 DEF y
  <2>3. QED BY <2>1, <2>2
<1> DEFINE m == fat * e
<1>6. /\ first = IF m >= 4 THEN m ELSE 4
      /\ last = IF m + e - 1 <= CLUS_CRASH_LAST THEN m + e - 1 ELSE CLUS_CRASH_LAST
      /\ m \in Nat /\ (fat = 0 => m = 0) /\ (fat # 0 => m >= e) /\ c = m + i
  BY <1>1, <1>5 DEF Greatest, Least
<1> HIDE DEF m, fat, i, e, first, last
<1>7. first \in Nat /\ last \in Nat /\ count \in Nat
  BY <1>1, <1>2, <1>6
<1>8. Links(fat)[i] \in Nat
  BY <1>1, <1>4, <1>7 DEF EOC, FREE
<1>9. ASSUME CLUS_CRASH_START <= c, c < CLUS_CRASH_LAST
      PROVE  Links(fat)[i] = c + 1
  <2>1. c >= 4 /\ first <= c /\ c <= last
    BY <1>1, <1>2, <1>6, <1>9 DEF CLUS_CRASH_START
  <2>2. count = last - first + 1
    BY <1>7, <2>1
  <2>3. CASE fat = 0
    <3>1. first = 4 /\ fixed = 4 /\ i = c
      BY <1>1, <1>6, <2>3
    <3>2. ~(i < fixed) /\ i < fixed + count /\ i # CLUS_CRASH_LAST /\ first + (i - fixed) + 1 = c + 1
      BY <1>1, <1>2, <1>7, <1>9, <2>1, <2>2, <3>1
    <3> HIDE DEF fixed, count
    <3>3. QED BY <1>4, <3>2
  <2>4. CASE fat # 0
    <3>1. first = m /\ fixed = 0 /\ c = m + i
      BY <1>1, <1>6, <2>4
    <3>2. ~(i < fixed) /\ i < fixed + count /\ first + (i - fixed) + 1 = c + 1
      BY <1>1, <1>2, <1>6, <1>7, <1>9, <2>1, <2>2, <3>1
    <3>3. i # CLUS_CRASH_LAST
      BY <1>1, <1>2, <1>6, <1>9, <2>4
    <3> HIDE DEF fixed, count
    <3>4. QED BY <1>4, <3>2, <3>3
  <2>5. QED BY <2>3, <2>4
<1>10. QED BY <1>3, <1>8, <1>9

(* A sector of a cluster shows the piece of the dump, or the text, that is
   there. *)
LEMMA SectorShown ==
  ASSUME NEW c \in Nat, c >= 2, NEW offset \in 0..(SectorsPerCluster - 1)
  PROVE  vd_read_block(DataLba(c, offset)) =
           IF CLUS_CRASH_START <= c /\ c <= CLUS_CRASH_LAST
           THEN [kind |-> "dump",
                 addr |-> SRAM_BASE + (c - CLUS_CRASH_START) * BYTES_DUMPED_PER_CLUSTER
                                    + offset * BYTES_DUMPED_PER_SECTOR]
           ELSE IF c = CLUS_INDEX /\ offset = 0 THEN [kind |-> "text", file |-> "index"]
           ELSE IF c = CLUS_INFO /\ offset = 0 THEN [kind |-> "text", file |-> "info"]
           ELSE Zero
<1> DEFINE r == ROOT_DIRECTORY_SECTORS
<1> DEFINE f == SECTORS_PER_FAT
<1> DEFINE spc == SectorsPerCluster
<1> DEFINE at == (c - 2) * spc + offset
<1>1. r \in Nat \ {0} /\ f \in Nat /\ spc \in Nat \ {0}
  BY Geometry, FatLongEnough
<1>2. DataLba(c, offset) = RootLba + r + (c - 2) * spc + offset
  BY HostLayout DEF DataLba, Boot, ROOT_DIRECTORY_SECTORS
<1>3. at \in Nat
  BY <1>1, SMTT(20)
<1> DEFINE lba == DataLba(c, offset)
<1>4. lba = 2 + 2 * f + r + at /\ RootLba = 2 + 2 * f
  <2> DEFINE x == (c - 2) * spc
  <2>1. x \in Nat /\ lba = RootLba + r + x + offset /\ at = x + offset
    BY <1>1, <1>2, SMTT(20)
  <2> HIDE DEF x, at, lba
  <2>2. QED BY <1>1, <2>1, HostLayout
<1> HIDE DEF at, lba
<1>5. vd_read_block(lba) = Data(at)
  <2> HIDE DEF r, f
  <2>1. /\ lba # 0 /\ lba # 1 /\ ~(lba - 2 < f * 2)
        /\ (lba - 2) - f * 2 = r + at /\ ~(r + at < r) /\ (r + at) - r = at
    BY <1>1, <1>3, <1>4
  <2>2. QED BY <2>1 DEF vd_read_block, FAT_COUNT, r, f
<1>6. at \div spc = c - 2 /\ at % spc = offset
  BY <1>1, Division, c - 2 \in Nat DEF at
<1>7. (c - 2) + 2 = c
  OBVIOUS
<1>8. QED BY <1>5, <1>6, <1>7 DEF Data, FIRST_CLUSTER, lba

-----------------------------------------------------------------------------
(***************************************************************************)
(* The inductive invariant: how far the host is in a file, in sectors, is  *)
(* where it is on the disk, in clusters.                                   *)
(***************************************************************************)

(* The first cluster of the dump, and of the texts, of one sector each. *)
FirstCluster(f) ==
  IF f = "index" THEN CLUS_INDEX ELSE IF f = "info" THEN CLUS_INFO ELSE CLUS_CRASH_START

Reading ==
  file.stage = "data" =>
    IF file.name = "crashdmp"
    THEN /\ file.cluster >= CLUS_CRASH_START /\ file.pos < DumpSectors
         /\ file.pos = (file.cluster - CLUS_CRASH_START) * SectorsPerCluster + file.offset
    ELSE file.pos = 0 /\ file.offset = 0 /\ file.cluster = FirstCluster(file.name)

Following ==
  file.stage = "fat" =>
    /\ file.name = "crashdmp" /\ file.offset = 0
    /\ file.cluster >= CLUS_CRASH_START /\ file.pos < DumpSectors
    /\ file.pos = (file.cluster - CLUS_CRASH_START + 1) * SectorsPerCluster

(* What a file has shown depends on its sectors only. *)
Shown ==
  /\ file.pos <= Greatest(DumpSectors, 1)
  /\ file.stage = "closed" => file.pos = 0
  /\ file.stage = "end" => file.pos > 0
  /\ file.stage = "end" /\ file.name = "crashdmp" => file.pos = DumpSectors
  /\ file.pos > 0 =>
       shown = IF file.name = "crashdmp"
               THEN [kind |-> "dump",
                     addr |-> SRAM_BASE + (file.pos - 1) * BYTES_DUMPED_PER_SECTOR]
               ELSE [kind |-> "text", file |-> file.name]

NeverLost == file.stage # "lost"

DiskInv == TypeOK /\ Reading /\ Following /\ Shown /\ NeverLost

(* Sector p of the dump is in a cluster of the dump, and shows piece p of the
   memory. *)
LEMMA PieceOfMemory ==
  ASSUME NEW c \in Nat, c >= CLUS_CRASH_START, NEW offset \in 0..(SectorsPerCluster - 1),
         NEW p \in Nat, p < DumpSectors,
         p = (c - CLUS_CRASH_START) * SectorsPerCluster + offset
  PROVE  /\ c <= CLUS_CRASH_LAST
         /\ vd_read_block(DataLba(c, offset)) =
              [kind |-> "dump", addr |-> SRAM_BASE + p * BYTES_DUMPED_PER_SECTOR]
<1> DEFINE b == BYTES_DUMPED_PER_SECTOR
<1> DEFINE bc == BYTES_DUMPED_PER_CLUSTER
<1> DEFINE spc == SectorsPerCluster
<1> DEFINE n == c - 4
<1>1. /\ b \in Nat \ {0} /\ spc \in Nat \ {0} /\ bc = spc * b
      /\ MEM_SIZE = DumpSectors * b /\ DumpSectors \in Nat \ {0}
      /\ n \in Nat /\ p = n * spc + offset /\ offset \in Nat /\ SRAM_BASE \in Nat
  BY Geometry, DumpSize DEF CLUS_CRASH_START
<1>2. bc \in Nat \ {0}
  BY <1>1, SMTT(20)
<1> HIDE DEF b, bc, spc
<1>3. p * b = n * bc + offset * b
  <2> HIDE DEF n
  <2>1. (n * spc + offset) * b = n * (spc * b) + offset * b
    BY <1>1, SMTT(20)
  <2>2. QED BY <1>1, <2>1
<1>4. p * b < MEM_SIZE
  <2>1. (p + 1) * b <= DumpSectors * b
    BY <1>1, SMTT(20)
  <2>2. (p + 1) * b = p * b + b
    BY <1>1
  <2> DEFINE x == p * b
  <2> DEFINE y == DumpSectors * b
  <2>3. x \in Nat /\ y \in Nat /\ x + b <= y
    BY <1>1, <2>1, <2>2
  <2> HIDE DEF x, y
  <2>4. x < y
    BY <1>1, <2>3
  <2>5. QED BY <1>1, <2>4 DEF x, y
<1>5. c <= CLUS_CRASH_LAST
  <2> DEFINE k == MEM_SIZE \div bc
  <2>1. MEM_SIZE \in Nat
    BY Geometry
  <2>2. MEM_SIZE = k * bc + (MEM_SIZE % bc) /\ k \in Nat /\ MEM_SIZE % bc \in 0..(bc - 1)
    BY <1>2, <2>1, Quotient
  <2>3. CLUS_CRASH_LAST = 4 + k
    BY DEF CLUS_CRASH_LAST, CLUS_CRASH_START, bc
  <2> HIDE DEF k, n
  <2>4. n * bc < (k + 1) * bc
    <3> DEFINE x == n * bc
    <3> DEFINE y == offset * b
    <3> DEFINE z == k * bc
    <3>1. x \in Nat /\ y \in Nat /\ z \in Nat /\ (k + 1) * bc = z + bc
      BY <1>1, <1>2, <2>2, SMTT(20)
    <3>2. x + y < z + bc
      <4>1. p * b = x + y /\ MEM_SIZE = z + (MEM_SIZE % bc)
        BY <1>3, <2>2
      <4> HIDE DEF x, y, z
      <4>2. QED BY <1>2, <1>4, <2>2, <3>1, <4>1
    <3> HIDE DEF x, y, z
    <3>3. x < z + bc
      BY <1>2, <3>1, <3>2
    <3>4. QED BY <3>1, <3>3 DEF x
  <2>5. n < k + 1
    BY <1>1, <1>2, <2>2, <2>4, Cancel
  <2>6. QED BY <1>1, <2>2, <2>3, <2>5 DEF n
<1>6. /\ c >= 2 /\ offset \in 0..(SectorsPerCluster - 1)
      /\ SRAM_BASE + n * bc + offset * b = SRAM_BASE + p * b
  <2> HIDE DEF n
  <2> DEFINE x == n * bc
  <2> DEFINE y == offset * b
  <2>1. x \in Nat /\ y \in Nat /\ p * b = x + y
    BY <1>1, <1>2, <1>3, SMTT(20)
  <2> HIDE DEF x, y
  <2>2. SRAM_BASE + x + y = SRAM_BASE + p * b
    BY <1>1, <2>1
  <2>3. QED BY <2>2 DEF x, y, CLUS_CRASH_START
<1>7. QED BY <1>5, <1>6, SectorShown DEF b, bc, CLUS_CRASH_START

(* The host stops reading where the file has no more sectors. *)
LEMMA EndOfFile ==
  ASSUME NEW p \in Nat, NEW f \in Files
  PROVE  /\ f = "crashdmp" => ((p + 1) * SECTOR_SIZE >= SizeOf(f) <=> p + 1 >= DumpSectors)
         /\ f # "crashdmp" => (0 + 1) * SECTOR_SIZE >= SizeOf(f)
<1>1. SizeOf(f) = IF f = "crashdmp" THEN DumpSectors * SECTOR_SIZE ELSE TextLen
  BY HostLayout, DumpSize DEF SizeOf, RootDirectory, DirEntry, Files
<1>2. SECTOR_SIZE \in Nat \ {0} /\ DumpSectors \in Nat
  BY Geometry, DumpSize
<1>3. ASSUME p + 1 >= DumpSectors PROVE (p + 1) * SECTOR_SIZE >= DumpSectors * SECTOR_SIZE
  BY <1>2, <1>3, SMTT(20)
<1>4. ASSUME p + 1 < DumpSectors PROVE (p + 1) * SECTOR_SIZE < DumpSectors * SECTOR_SIZE
  <2>1. ~(DumpSectors * SECTOR_SIZE <= (p + 1) * SECTOR_SIZE)
    BY <1>2, <1>4, SMTT(20)
  <2> DEFINE x == (p + 1) * SECTOR_SIZE
  <2> DEFINE y == DumpSectors * SECTOR_SIZE
  <2>2. x \in Nat /\ y \in Nat /\ ~(y <= x)
    BY <1>2, <2>1
  <2> HIDE DEF x, y
  <2>3. x < y
    BY <2>2
  <2>4. QED BY <2>3 DEF x, y
<1>5. (0 + 1) * SECTOR_SIZE >= TextLen
  BY <1>2, TextAssumption
<1>6. ASSUME f = "crashdmp"
      PROVE  (p + 1) * SECTOR_SIZE >= SizeOf(f) <=> p + 1 >= DumpSectors
  <2> DEFINE x == (p + 1) * SECTOR_SIZE
  <2> DEFINE y == DumpSectors * SECTOR_SIZE
  <2>1. /\ x \in Nat /\ y \in Nat /\ SizeOf(f) = y
        /\ (p + 1 >= DumpSectors => x >= y) /\ (p + 1 < DumpSectors => x < y)
    BY <1>1, <1>2, <1>3, <1>4, <1>6
  <2> HIDE DEF x, y
  <2>2. x >= y <=> p + 1 >= DumpSectors
    BY <1>2, <2>1
  <2>3. QED BY <2>1, <2>2 DEF x
<1>7. QED BY <1>1, <1>5, <1>6

-----------------------------------------------------------------------------
(* Every file begins at a cluster that the FAT has. *)
LEMMA ClustersOfFiles ==
  /\ CLUS_CRASH_LAST \in Nat /\ CLUS_CRASH_LAST >= 4 /\ CLUSTER_COUNT \in Nat
  /\ 2 \in 2..(CLUSTER_COUNT - 1) /\ 3 \in 2..(CLUSTER_COUNT - 1) /\ 4 \in 2..(CLUSTER_COUNT - 1)
<1>1. BYTES_DUMPED_PER_CLUSTER \in Nat \ {0}
  BY Geometry, DumpSize, SMTT(20)
<1>2. MEM_SIZE \div BYTES_DUMPED_PER_CLUSTER \in Nat
  BY <1>1, Geometry
<1>3. CLUS_CRASH_LAST \in Nat /\ CLUS_CRASH_LAST >= 4
  BY <1>2 DEF CLUS_CRASH_LAST, CLUS_CRASH_START
<1>4. QED BY <1>3, DumpFitsAssumption, FatLongEnough

(* A file that is opened is at its first cluster, and nothing of it is shown. *)
LEMMA OpenKeeps ==
  ASSUME DiskInv, NEW f \in Files, Open(f)
  PROVE  DiskInv'
<1>1. /\ file' = [Closed EXCEPT !.stage = "data", !.name = f, !.cluster = FirstCluster(f)]
      /\ shown' = shown
  <2>1. vd_read_block(RootLba).file[f] = DirEntry(f)
    BY HostLayout DEF RootDirectory
  <2>2. DirEntry(f).cluster = FirstCluster(f)
    BY DEF DirEntry, FirstCluster, Files
  <2>3. QED BY <2>1, <2>2 DEF Open
<1>2. /\ file'.stage = "data" /\ file'.name = f /\ file'.cluster = FirstCluster(f)
      /\ file'.offset = 0 /\ file'.pos = 0
  BY <1>1 DEF Closed
<1>3. FirstCluster(f) \in 2..(CLUSTER_COUNT - 1)
  BY ClustersOfFiles DEF FirstCluster, CLUS_INDEX, CLUS_INFO, CLUS_CRASH_START
<1>4. 0 \in 0..(SectorsPerCluster - 1) /\ 0 \in 0..(CRASH_LEN \div SECTOR_SIZE + 1)
  <2>1. CRASH_LEN \in Nat /\ SECTOR_SIZE \in Nat \ {0} /\ SectorsPerCluster \in Nat \ {0}
    BY Geometry DEF CRASH_LEN, XXD_CHARS_PER_BYTE
  <2>2. CRASH_LEN \div SECTOR_SIZE \in Nat
    BY <2>1
  <2>3. QED BY <2>1, <2>2
<1>5. TypeOK'
  <2>1. file' = [stage |-> "data", name |-> f, cluster |-> FirstCluster(f), offset |-> 0, pos |-> 0]
    BY <1>1 DEF Closed
  <2>2. QED BY <1>1, <1>3, <1>4, <2>1 DEF TypeOK, DiskInv
<1>6. Reading'
  BY <1>2, Geometry, DumpSize DEF Reading, FirstCluster, CLUS_CRASH_START
<1>7. Following' /\ NeverLost'
  BY <1>2 DEF Following, NeverLost
<1>8. Shown'
  BY <1>2, DumpSize DEF Shown, Greatest
<1>9. QED BY <1>5, <1>6, <1>7, <1>8 DEF DiskInv

(* A sector that is read shows the piece of the file that comes next. *)
LEMMA ReadKeeps ==
  ASSUME DiskInv, ReadSector
  PROVE  DiskInv'
<1> DEFINE c == file.cluster
<1> DEFINE o == file.offset
<1> DEFINE p == file.pos
<1> DEFINE spc == SectorsPerCluster
<1> DEFINE rest == IF file.offset + 1 = SectorsPerCluster THEN "fat" ELSE "data"
<1> DEFINE next == IF (p + 1) * SECTOR_SIZE >= SizeOf(file.name) THEN "end" ELSE rest
<1>1. /\ file.stage = "data" /\ file.name \in Files /\ c \in 2..(CLUSTER_COUNT - 1)
      /\ o \in 0..(spc - 1) /\ p \in Nat /\ spc \in Nat \ {0} /\ CLUSTER_COUNT \in Nat
      /\ p \in 0..(CRASH_LEN \div SECTOR_SIZE + 1)
  <2>1. CRASH_LEN \in Nat /\ SECTOR_SIZE \in Nat \ {0} /\ spc \in Nat \ {0} /\ CLUSTER_COUNT \in Nat
    BY Geometry, ClustersOfFiles DEF CRASH_LEN, XXD_CHARS_PER_BYTE
  <2>2. CRASH_LEN \div SECTOR_SIZE \in Nat
    BY <2>1
  <2>3. QED BY <2>1, <2>2 DEF DiskInv, TypeOK, ReadSector
<1>2. /\ shown' = vd_read_block(DataLba(c, o))
      /\ file' = [stage |-> next, name |-> file.name, cluster |-> c,
                  offset |-> (o + 1) % spc, pos |-> p + 1]
  BY DEF ReadSector, DiskInv, TypeOK
<1>3. (o + 1) % spc = IF o + 1 = spc THEN 0 ELSE o + 1
  <2>1. CASE o + 1 = spc
    <3>1. (1 * spc + 0) % spc = 0
      BY <1>1, Division
    <3>2. QED BY <1>1, <2>1, <3>1
  <2>2. CASE o + 1 # spc
    <3> DEFINE n == o + 1
    <3>0. n \in 0..(spc - 1)
      BY <1>1, <2>2
    <3> HIDE DEF n
    <3>1. (0 * spc + n) % spc = n
      BY <1>1, <3>0, Division
    <3>2. 0 * spc + n = n
      BY <1>1, <3>0
    <3>3. QED BY <2>2, <3>1, <3>2 DEF n
  <2>3. QED BY <2>1, <2>2
<1>4. DumpSectors \in Nat \ {0} /\ CRASH_LEN \div SECTOR_SIZE = DumpSectors
  <2>1. (DumpSectors * SECTOR_SIZE + 0) \div SECTOR_SIZE = DumpSectors
    BY Geometry, DumpSize, Division, 0 \in 0..(SECTOR_SIZE - 1)
  <2>2. DumpSectors * SECTOR_SIZE + 0 = DumpSectors * SECTOR_SIZE
    BY Geometry, DumpSize
  <2>3. QED BY <2>1, <2>2, DumpSize
<1> HIDE DEF c, o, p, spc, rest
<1>5. next \in {"end", "fat", "data"}
  BY DEF rest
<1>6. CASE file.name = "crashdmp"
  <2>1. c >= 4 /\ p < DumpSectors /\ p = (c - 4) * spc + o
    BY <1>1, <1>6 DEF DiskInv, Reading, CLUS_CRASH_START, c, o, p, spc
  <2>2. shown' = [kind |-> "dump", addr |-> SRAM_BASE + p * BYTES_DUMPED_PER_SECTOR]
    BY <1>1, <1>2, <2>1, PieceOfMemory DEF CLUS_CRASH_START, spc
  <2>3. next = IF p + 1 >= DumpSectors THEN "end" ELSE rest
    BY <1>1, <1>6, EndOfFile
  <2> HIDE DEF next
  <2>4. (p + 1) - 1 = p /\ p + 1 <= DumpSectors /\ p + 1 \in 0..(CRASH_LEN \div SECTOR_SIZE + 1)
    BY <1>1, <1>4, <2>1
  <2>5. TypeOK'
    <3>1. (o + 1) % spc \in 0..(spc - 1)
      BY <1>1, <1>3
    <3>2. QED BY <1>1, <1>2, <1>5, <2>2, <2>4, <3>1 DEF TypeOK, spc
  <2>6. ASSUME next = "data"
        PROVE  p + 1 < DumpSectors /\ p + 1 = (c - 4) * spc + ((o + 1) % spc)
    <3>1. p + 1 < DumpSectors /\ o + 1 # spc
      BY <1>1, <1>4, <2>3, <2>6 DEF rest, o, spc
    <3> DEFINE x == (c - 4) * spc
    <3>2. x \in Nat /\ p = x + o
      BY <1>1, <2>1, SMTT(20)
    <3> HIDE DEF x
    <3>3. p + 1 = x + (o + 1)
      BY <1>1, <3>2
    <3>4. QED BY <1>3, <3>1, <3>3 DEF x
  <2>7. ASSUME next = "fat"
        PROVE  p + 1 < DumpSectors /\ (o + 1) % spc = 0 /\ p + 1 = (c - 4 + 1) * spc
    <3>1. p + 1 < DumpSectors /\ o + 1 = spc
      BY <1>1, <1>4, <2>3, <2>7 DEF rest, o, spc
    <3> DEFINE x == (c - 4) * spc
    <3>2. x \in Nat /\ p = x + o /\ (c - 4 + 1) * spc = x + spc
      BY <1>1, <2>1, SMTT(20)
    <3> HIDE DEF x
    <3>3. p + 1 = (c - 4 + 1) * spc
      BY <1>1, <3>1, <3>2
    <3>4. QED BY <1>3, <3>1, <3>3
  <2>8. Reading'
    BY <1>2, <1>6, <2>1, <2>6 DEF Reading, CLUS_CRASH_START, spc
  <2>9. Following'
    BY <1>2, <1>6, <2>1, <2>7 DEF Following, CLUS_CRASH_START, spc
  <2>10. Shown' /\ NeverLost'
    <3>1. next = "end" => p + 1 = DumpSectors
      BY <1>1, <1>4, <2>1, <2>3, <2>4 DEF rest
    <3>2. p + 1 <= Greatest(DumpSectors, 1) /\ p + 1 > 0
      BY <1>1, <1>4, <2>4 DEF Greatest
    <3>3. QED BY <1>2, <1>5, <1>6, <2>2, <2>4, <3>1, <3>2 DEF Shown, NeverLost
  <2>11. QED BY <2>5, <2>8, <2>9, <2>10 DEF DiskInv
<1>7. CASE file.name # "crashdmp"
  <2>1. p = 0 /\ o = 0 /\ c = FirstCluster(file.name)
    BY <1>1, <1>7 DEF DiskInv, Reading, c, o, p
  <2>2. next = "end"
    BY <1>1, <1>7, <2>1, EndOfFile
  <2>3. shown' = [kind |-> "text", file |-> file.name]
    <3>1. c = (IF file.name = "index" THEN 2 ELSE 3) /\ file.name \in {"index", "info"}
      BY <1>1, <1>7, <2>1 DEF FirstCluster, CLUS_INDEX, CLUS_INFO, Files
    <3>2. c \in Nat /\ c >= 2 /\ ~(CLUS_CRASH_START <= c)
      BY <3>1 DEF CLUS_CRASH_START
    <3>3. o \in 0..(SectorsPerCluster - 1)
      BY <1>1 DEF spc
    <3>4. vd_read_block(DataLba(c, o)) =
            IF c = CLUS_INDEX THEN [kind |-> "text", file |-> "index"]
            ELSE IF c = CLUS_INFO THEN [kind |-> "text", file |-> "info"] ELSE Zero
      BY <2>1, <3>2, <3>3, SectorShown
    <3>5. QED BY <1>2, <3>1, <3>4 DEF CLUS_INDEX, CLUS_INFO
  <2> HIDE DEF next
  <2>4. p + 1 = 1 /\ 1 \in 0..(CRASH_LEN \div SECTOR_SIZE + 1) /\ (o + 1) % spc \in 0..(spc - 1)
    BY <1>1, <1>3, <1>4, <2>1
  <2>5. TypeOK'
    BY <1>1, <1>2, <2>2, <2>3, <2>4 DEF TypeOK, spc
  <2>6. Reading' /\ Following' /\ NeverLost'
    BY <1>2, <2>2 DEF Reading, Following, NeverLost
  <2>7. Shown'
    BY <1>2, <1>4, <1>7, <2>2, <2>3, <2>4 DEF Shown, Greatest
  <2>8. QED BY <2>5, <2>6, <2>7 DEF DiskInv
<1>8. QED BY <1>6, <1>7

(* The host follows a link to the next cluster of the file, and never off it. *)
LEMMA FollowKeeps ==
  ASSUME DiskInv, NEW copy \in {0, 1}, Follow(copy)
  PROVE  DiskInv'
<1> DEFINE c == file.cluster
<1> DEFINE spc == SectorsPerCluster
<1>1. /\ file.stage = "fat" /\ file.name = "crashdmp" /\ file.offset = 0
      /\ c >= 4 /\ c \in 2..(CLUSTER_COUNT - 1) /\ c \in Nat /\ spc \in Nat \ {0}
      /\ file.pos < DumpSectors /\ file.pos \in Nat /\ file.pos = (c - 4 + 1) * spc
  <2>1. CRASH_LEN \in Nat /\ SECTOR_SIZE \in Nat \ {0} /\ spc \in Nat \ {0} /\ CLUSTER_COUNT \in Nat
    BY Geometry, ClustersOfFiles DEF CRASH_LEN, XXD_CHARS_PER_BYTE
  <2>2. CRASH_LEN \div SECTOR_SIZE \in Nat
    BY <2>1
  <2>3. QED BY <2>1, <2>2 DEF DiskInv, TypeOK, Following, Follow, CLUS_CRASH_START
<1> HIDE DEF c, spc
<1>2. c + 1 <= CLUS_CRASH_LAST
  <2> DEFINE d == c + 1
  <2>1. 0 \in 0..(SectorsPerCluster - 1) /\ d \in Nat /\ d >= CLUS_CRASH_START /\ d - 4 = c - 4 + 1
    BY <1>1 DEF CLUS_CRASH_START, spc
  <2> HIDE DEF d
  <2>2. file.pos = (d - CLUS_CRASH_START) * SectorsPerCluster + 0
    <3> DEFINE x == d - 4
    <3>1. file.pos = x * spc /\ x \in Int
      BY <1>1, <2>1
    <3> HIDE DEF x
    <3>2. x * spc \in Int
      BY <1>1, <3>1
    <3>3. file.pos = x * spc + 0
      BY <3>1, <3>2
    <3>4. QED BY <3>3 DEF x, spc, CLUS_CRASH_START
  <2>3. d <= CLUS_CRASH_LAST
    BY <1>1, <2>1, <2>2, PieceOfMemory
  <2>4. QED BY <2>3 DEF d
<1>3. EntryOf(c, copy) = c + 1 /\ IsCluster(c + 1)
  BY <1>1, <1>2, DumpIsLinked, ClustersOfFiles, DumpFitsAssumption DEF CLUS_CRASH_START, IsCluster
<1>4. file' = [file EXCEPT !.stage = "data", !.cluster = c + 1] /\ shown' = shown
  BY <1>3 DEF Follow, c
<1>5. /\ file'.stage = "data" /\ file'.name = file.name /\ file'.cluster = c + 1
      /\ file'.offset = file.offset /\ file'.pos = file.pos
  BY <1>4 DEF DiskInv, TypeOK
<1>6. TypeOK'
  <2>1. c + 1 \in 2..(CLUSTER_COUNT - 1)
    BY <1>1, <1>2, ClustersOfFiles, DumpFitsAssumption
  <2>2. QED BY <1>4, <2>1 DEF TypeOK, DiskInv
<1>7. Reading'
  <2>1. (c + 1 - 4) * spc + 0 = (c - 4 + 1) * spc
    <3>1. c + 1 - 4 = c - 4 + 1 /\ (c - 4 + 1) * spc \in Nat
      BY <1>1
    <3>2. QED BY <3>1
  <2>2. c + 1 >= 4
    BY <1>1
  <2>3. QED BY <1>1, <1>5, <2>1, <2>2 DEF Reading, CLUS_CRASH_START, spc
<1>8. Following' /\ NeverLost'
  BY <1>5 DEF Following, NeverLost
<1>9. Shown'
  BY <1>4, <1>5 DEF Shown, DiskInv
<1>10. QED BY <1>6, <1>7, <1>8, <1>9 DEF DiskInv

(* A closed file has nothing to keep. *)
LEMMA ClosedKeeps ==
  ASSUME DiskInv, file' = Closed, shown' = shown
  PROVE  DiskInv'
<1>1. file'.stage = "closed" /\ file'.pos = 0
  BY DEF Closed
<1>2. 0 \in 0..(SectorsPerCluster - 1) /\ 0 \in 0..(CRASH_LEN \div SECTOR_SIZE + 1)
  <2>1. CRASH_LEN \in Nat /\ SECTOR_SIZE \in Nat \ {0} /\ SectorsPerCluster \in Nat \ {0}
    BY Geometry DEF CRASH_LEN, XXD_CHARS_PER_BYTE
  <2>2. CRASH_LEN \div SECTOR_SIZE \in Nat
    BY <2>1
  <2>3. QED BY <2>1, <2>2
<1>3. TypeOK'
  BY <1>2, ClustersOfFiles DEF TypeOK, Closed, DiskInv, Files
<1>4. Reading' /\ Following' /\ NeverLost'
  BY <1>1 DEF Reading, Following, NeverLost
<1>5. Shown'
  BY <1>1, DumpSize DEF Shown, Greatest
<1>6. QED BY <1>3, <1>4, <1>5 DEF DiskInv

(* The chain that is left to check does not leave the FAT. *)
LEMMA CheckKeeps ==
  ASSUME DiskInv, NEW copy \in {0, 1}, CheckChain(copy)
  PROVE  DiskInv'
<1> DEFINE e == EntryOf(file.cluster, copy)
<1>1. file.stage \in {"end", "surplus"} /\ shown' = shown /\ file.cluster \in Nat /\ file.cluster < CLUSTER_COUNT
  BY ClustersOfFiles DEF CheckChain, DiskInv, TypeOK
<1>2. e \in Nat
  BY <1>1, DumpIsLinked
<1> HIDE DEF e
<1>3. CASE file' = Closed
  BY <1>1, <1>3, ClosedKeeps
<1>4. CASE IsCluster(e) /\ file' = [file EXCEPT !.stage = "surplus", !.cluster = e]
  <2>1. /\ file'.stage = "surplus" /\ file'.name = file.name /\ file'.pos = file.pos
    BY <1>4 DEF DiskInv, TypeOK
  <2>2. e \in 2..(CLUSTER_COUNT - 1)
    BY <1>2, <1>4, ClustersOfFiles DEF IsCluster
  <2>3. TypeOK'
    BY <1>1, <1>4, <2>2 DEF TypeOK, DiskInv
  <2>4. Reading' /\ Following' /\ NeverLost'
    BY <2>1 DEF Reading, Following, NeverLost
  <2>5. Shown'
    BY <1>1, <2>1 DEF Shown, DiskInv
  <2>6. QED BY <2>3, <2>4, <2>5 DEF DiskInv
<1>5. CASE file' = [file EXCEPT !.stage = "broken"]
  <2>1. /\ file'.stage = "broken" /\ file'.name = file.name /\ file'.pos = file.pos
    BY <1>5 DEF DiskInv, TypeOK
  <2>2. TypeOK'
    BY <1>1, <1>5 DEF TypeOK, DiskInv
  <2>3. Reading' /\ Following' /\ NeverLost'
    BY <2>1 DEF Reading, Following, NeverLost
  <2>4. Shown'
    BY <1>1, <2>1 DEF Shown, DiskInv
  <2>5. QED BY <2>2, <2>3, <2>4 DEF DiskInv
<1>6. QED BY <1>3, <1>4, <1>5 DEF CheckChain, e

-----------------------------------------------------------------------------
(* The invariant of the disk, whatever the host does. *)
LEMMA DiskInvariant == Spec => []DiskInv
<1>1. Init => DiskInv
  <2> SUFFICES ASSUME Init PROVE DiskInv
    OBVIOUS
  <2>1. file = Closed /\ shown = Zero
    BY DEF Init
  <2>2. file.stage = "closed" /\ file.pos = 0
    BY <2>1 DEF Closed
  <2>3. 0 \in 0..(SectorsPerCluster - 1) /\ 0 \in 0..(CRASH_LEN \div SECTOR_SIZE + 1)
    <3>1. CRASH_LEN \in Nat /\ SECTOR_SIZE \in Nat \ {0} /\ SectorsPerCluster \in Nat \ {0}
      BY Geometry DEF CRASH_LEN, XXD_CHARS_PER_BYTE
    <3>2. CRASH_LEN \div SECTOR_SIZE \in Nat
      BY <3>1
    <3>3. QED BY <3>1, <3>2
  <2>4. TypeOK
    BY <2>1, <2>3, ClustersOfFiles DEF TypeOK, Closed, Zero, Files
  <2>5. QED BY <2>2, <2>4, DumpSize DEF DiskInv, Reading, Following, NeverLost, Shown, Greatest
<1>2. DiskInv /\ [Next]_vars => DiskInv'
  <2> SUFFICES ASSUME DiskInv, [Next]_vars PROVE DiskInv'
    OBVIOUS
  <2>1. ASSUME NEW f \in Files, Open(f) PROVE DiskInv'
    BY <2>1, OpenKeeps
  <2>2. CASE ReadSector
    BY <2>2, ReadKeeps
  <2>3. ASSUME NEW copy \in {0, 1}, Follow(copy) PROVE DiskInv'
    BY <2>3, FollowKeeps
  <2>4. ASSUME NEW copy \in {0, 1}, CheckChain(copy) PROVE DiskInv'
    BY <2>4, CheckKeeps
  <2>5. CASE Close
    BY <2>5, ClosedKeeps DEF Close
  <2>6. CASE UNCHANGED vars
    BY <2>6 DEF vars, DiskInv, TypeOK, Reading, Following, NeverLost, Shown
  <2>7. QED BY <2>1, <2>2, <2>3, <2>4, <2>5, <2>6 DEF Next
<1>3. QED BY <1>1, <1>2, PTL DEF Spec

(* A file is read in order and the dump is the whole memory: for every size of
   sector, cluster, disk and memory. *)
THEOREM ContentAlwaysInOrder == Spec => []ContentInOrder
<1>1. DiskInv => ContentInOrder
  <2> SUFFICES ASSUME DiskInv PROVE ContentInOrder
    OBVIOUS
  <2>1. ASSUME file.stage = "end", file.name = "crashdmp"
        PROVE  shown.addr + BYTES_DUMPED_PER_SECTOR = SRAM_END
    <3> DEFINE b == BYTES_DUMPED_PER_SECTOR
    <3>1. shown.addr = SRAM_BASE + (DumpSectors - 1) * b
      BY <2>1 DEF DiskInv, Shown
    <3>2. /\ b \in Nat /\ DumpSectors \in Nat /\ SRAM_BASE \in Nat /\ MEM_SIZE \in Nat
          /\ MEM_SIZE = DumpSectors * b /\ SRAM_END = SRAM_BASE + MEM_SIZE
      BY Geometry, DumpSize
    <3>3. (DumpSectors - 1) * b + b = DumpSectors * b
      BY <3>2, SMTT(20)
    <3> DEFINE x == (DumpSectors - 1) * b
    <3>4. x \in Int /\ x + b = MEM_SIZE /\ shown.addr = SRAM_BASE + x
      BY <3>1, <3>2, <3>3
    <3> HIDE DEF x, b
    <3>5. shown.addr + b = SRAM_END
      BY <3>2, <3>4
    <3>6. QED BY <3>5 DEF b
  <2>2. QED BY <2>1 DEF DiskInv, Shown, ContentInOrder
<1>2. QED BY <1>1, DiskInvariant, PTL

(* The safety half of FilesEnd: following either copy of the FAT, the host
   never comes to an entry that is not a cluster before the file is read. *)
THEOREM FilesNeverLost == Spec => []NeverLost
<1>1. DiskInv => NeverLost
  BY DEF DiskInv
<1>2. QED BY <1>1, DiskInvariant, PTL

-----------------------------------------------------------------------------
(*****************************************************************************)
(* Part 2: the text on its way.                                              *)
(*****************************************************************************)

(* The values of a byte *)
Byte == 0..255

(* The item at position d of the data restores the text from position t: it
   stands for one byte or for a match of two bytes at least, and a decoder
   that has taken it is at a mark again. *)
ItemAt(M, data, text, d, t) ==
  \/ /\ data[d + 1] < 128 /\ t < Len(text) /\ data[d + 1] = text[t + 1]
     /\ <<d + 1, t + 1>> \in M
  \/ \E n \in 2..128 :
       /\ data[d + 1] = 256 - n /\ d + 2 <= Len(data)
       /\ data[d + 2] \in 1..t /\ t + n <= Len(text) /\ Matches(text, t, data[d + 2], n)
       /\ <<d + 2, t + n>> \in M

(* The marks are the places <<d, t>> where d bytes of the data stand for t of
   the text; they lead from the beginning to the end of the data, which stands
   for the first `end' bytes of the text. *)
Marks(M, data, text, end) ==
  /\ <<0, 0>> \in M /\ <<Len(data), end>> \in M
  /\ end \in 0..Len(text)
  /\ \A d, t \in Nat : <<d, t>> \in M =>
       /\ d <= t /\ d <= Len(data) /\ t <= end
       /\ d = Len(data) => t = end
       /\ d < Len(data) => ItemAt(M, data, text, d, t)

(* An item that is followed by more data stays what it is. *)
LEMMA ItemStays ==
  ASSUME NEW M, NEW N, M \subseteq N, NEW text, NEW data, NEW more, NEW d \in Nat, NEW t \in Nat,
         Len(data) \in Nat, Len(more) \in Nat, Len(data) <= Len(more), ItemAt(M, data, text, d, t),
         more[d + 1] = data[d + 1], d + 2 <= Len(data) => more[d + 2] = data[d + 2]
  PROVE  ItemAt(N, more, text, d, t)
<1>1. CASE data[d + 1] < 128 /\ t < Len(text) /\ data[d + 1] = text[t + 1] /\ <<d + 1, t + 1>> \in M
  BY <1>1 DEF ItemAt
<1>2. CASE \E n \in 2..128 :
              /\ data[d + 1] = 256 - n /\ d + 2 <= Len(data)
              /\ data[d + 2] \in 1..t /\ t + n <= Len(text) /\ Matches(text, t, data[d + 2], n)
              /\ <<d + 2, t + n>> \in M
  <2>1. PICK n \in 2..128 :
              /\ data[d + 1] = 256 - n /\ d + 2 <= Len(data)
              /\ data[d + 2] \in 1..t /\ t + n <= Len(text) /\ Matches(text, t, data[d + 2], n)
              /\ <<d + 2, t + n>> \in M
    BY <1>2
  <2>2. /\ more[d + 1] = 256 - n /\ d + 2 <= Len(more)
        /\ more[d + 2] \in 1..t /\ t + n <= Len(text) /\ Matches(text, t, more[d + 2], n)
        /\ <<d + 2, t + n>> \in N
    BY <2>1
  <2>3. QED BY <2>2 DEF ItemAt
<1>3. QED BY <1>1, <1>2 DEF ItemAt

(* A byte appended to the data stands for the next byte of the text. *)
LEMMA MarkLetter ==
  ASSUME NEW text \in Seq(Byte), NEW data \in Seq(Byte), NEW M, NEW e,
         Marks(M, data, text, e), e < Len(text), text[e + 1] < 128
  PROVE  Marks(M \cup {<<Len(data) + 1, e + 1>>}, Append(data, text[e + 1]), text, e + 1)
<1> DEFINE N == M \cup {<<Len(data) + 1, e + 1>>}
<1> DEFINE d2 == Append(data, text[e + 1])
<1>1. /\ e \in Nat /\ Len(text) \in Nat /\ Len(data) \in Nat /\ text[e + 1] \in Byte
      /\ d2 \in Seq(Byte) /\ Len(d2) = Len(data) + 1 /\ d2[Len(data) + 1] = text[e + 1]
      /\ \A i \in 1..Len(data) : d2[i] = data[i]
  <2>1. e \in Nat /\ Len(text) \in Nat /\ Len(data) \in Nat
    BY DEF Marks
  <2>2. text[e + 1] \in Byte
    <3>1. e + 1 \in 1..Len(text)
      BY <2>1
    <3>2. QED BY <3>1, ElementOfSeq
  <2>3. QED BY <2>1, <2>2
<1> HIDE DEF d2
<1>2. <<0, 0>> \in N /\ <<Len(d2), e + 1>> \in N /\ e + 1 \in 0..Len(text)
  BY <1>1 DEF Marks
<1>3. ASSUME NEW d \in Nat, NEW t \in Nat, <<d, t>> \in N
      PROVE  /\ d <= t /\ d <= Len(d2) /\ t <= e + 1
             /\ d = Len(d2) => t = e + 1
             /\ d < Len(d2) => ItemAt(N, d2, text, d, t)
  <2>1. CASE d = Len(data) + 1 /\ t = e + 1
    <3>1. Len(data) <= e
      BY <1>1 DEF Marks
    <3>2. QED BY <1>1, <2>1, <3>1
  <2>2. CASE <<d, t>> \in M
    <3>1. d <= t /\ d <= Len(data) /\ t <= e
      BY <2>2 DEF Marks
    <3>2. CASE d = Len(data)
      <4>1. t = e
        BY <2>2, <3>2 DEF Marks
      <4>2. ItemAt(N, d2, text, d, t)
        BY <1>1, <3>2, <4>1 DEF ItemAt
      <4>3. QED BY <1>1, <3>1, <3>2, <4>2
    <3>3. CASE d < Len(data)
      <4>1. ItemAt(M, data, text, d, t)
        BY <2>2, <3>3 DEF Marks
      <4>2. d2[d + 1] = data[d + 1] /\ (d + 2 <= Len(data) => d2[d + 2] = data[d + 2])
        BY <1>1, <3>3
      <4>3. ItemAt(N, d2, text, d, t)
        BY <1>1, <4>1, <4>2, ItemStays
      <4>4. QED BY <1>1, <3>1, <3>3, <4>3
    <3>4. QED BY <1>1, <3>1, <3>2, <3>3
  <2>3. QED BY <1>3, <2>1, <2>2
<1> HIDE DEF N
<1>4. Marks(N, d2, text, e + 1)
  BY <1>2, <1>3 DEF Marks
<1>5. QED BY <1>4 DEF N, d2

(* A match appended to the data stands for as many bytes as it is long. *)
LEMMA MarkMatch ==
  ASSUME NEW text \in Seq(Byte), NEW data \in Seq(Byte), NEW M, NEW e,
         Marks(M, data, text, e), NEW n \in 3..128, NEW back \in 1..255,
         back <= e, n <= Len(text) - e, Matches(text, e, back, n)
  PROVE  Marks(M \cup {<<Len(data) + 2, e + n>>},
               Append(Append(data, 256 - n), back), text, e + n)
<1> DEFINE N == M \cup {<<Len(data) + 2, e + n>>}
<1> DEFINE d2 == Append(Append(data, 256 - n), back)
<1>2. e \in Nat /\ Len(text) \in Nat /\ Len(data) \in Nat
  BY DEF Marks
<1>3. /\ d2 \in Seq(Byte) /\ Len(d2) = Len(data) + 2
      /\ d2[Len(data) + 1] = 256 - n /\ d2[Len(data) + 2] = back
      /\ \A i \in 1..Len(data) : d2[i] = data[i]
  <2>1. 256 - n \in Byte /\ back \in Byte
    BY DEF Byte
  <2> DEFINE one == Append(data, 256 - n)
  <2>2. /\ one \in Seq(Byte) /\ Len(one) = Len(data) + 1 /\ one[Len(data) + 1] = 256 - n
        /\ \A i \in 1..Len(data) : one[i] = data[i]
    BY <1>2, <2>1
  <2> HIDE DEF one
  <2>3. d2 = Append(one, back)
    BY DEF one
  <2>4. QED BY <1>2, <2>1, <2>2, <2>3
<1> HIDE DEF d2
<1>4. <<0, 0>> \in N /\ <<Len(d2), e + n>> \in N /\ e + n \in 0..Len(text)
  BY <1>2, <1>3 DEF Marks
<1>5. ASSUME NEW d \in Nat, NEW t \in Nat, <<d, t>> \in N
      PROVE  /\ d <= t /\ d <= Len(d2) /\ t <= e + n
             /\ d = Len(d2) => t = e + n
             /\ d < Len(d2) => ItemAt(N, d2, text, d, t)
  <2>1. CASE d = Len(data) + 2 /\ t = e + n
    <3>1. Len(data) <= e
      BY <1>2 DEF Marks
    <3>2. QED BY <1>2, <1>3, <2>1, <3>1
  <2>2. CASE <<d, t>> \in M
    <3>1. d <= t /\ d <= Len(data) /\ t <= e
      BY <2>2 DEF Marks
    <3>2. CASE d = Len(data)
      <4>1. t = e
        BY <2>2, <3>2 DEF Marks
      <4>2. ItemAt(N, d2, text, d, t)
        <5>1. <<d + 2, t + n>> \in N /\ d2[d + 1] = 256 - n /\ d2[d + 2] = back /\ n \in 2..128
          BY <1>3, <3>2, <4>1
        <5>2. d + 2 <= Len(d2) /\ back \in 1..t /\ t + n <= Len(text) /\ Matches(text, t, back, n)
          BY <1>2, <1>3, <3>2, <4>1
        <5>3. QED BY <5>1, <5>2 DEF ItemAt
      <4>3. QED BY <1>2, <1>3, <3>1, <3>2, <4>2
    <3>3. CASE d < Len(data)
      <4>1. ItemAt(M, data, text, d, t)
        BY <2>2, <3>3 DEF Marks
      <4>2. d2[d + 1] = data[d + 1] /\ (d + 2 <= Len(data) => d2[d + 2] = data[d + 2])
        BY <1>3, <3>3
      <4>3. ItemAt(N, d2, text, d, t)
        <5>1. M \subseteq N /\ Len(d2) \in Nat /\ Len(data) <= Len(d2)
          BY <1>2, <1>3
        <5> HIDE DEF N
        <5>2. QED BY <1>2, <4>1, <4>2, <5>1, ItemStays
      <4>4. QED BY <1>2, <1>3, <3>1, <3>3, <4>3
    <3>4. QED BY <1>2, <3>1, <3>2, <3>3
  <2>3. QED BY <1>5, <2>1, <2>2
<1> HIDE DEF N
<1>6. Marks(N, d2, text, e + n)
  BY <1>4, <1>5 DEF Marks
<1>7. QED BY <1>6 DEF N, d2

(* A text on its way *)
Ways ==
  [routine : {"text"}, text : Seq(Byte), data : Seq(Byte), to : Nat, read : Nat, out : Seq(Byte),
   stage : {"compress", "letter", "check", "image", "done", "rejected"}, left : Nat, back : Nat]

(* The text has been compressed up to here. *)
Until(c) == IF c.to <= Len(c.text) THEN c.to ELSE Len(c.text)

(* A decoder is at a mark, or will be when it has copied what is left. *)
AtMark(M, c) ==
  /\ <<c.read, Len(c.out) + c.left>> \in M
  /\ c.left > 0 => c.back \in 1..Len(c.out) /\ Matches(c.text, Len(c.out), c.back, c.left)

(* There are marks up to where the compressor is, and a decoder goes from mark
   to mark. *)
OnTheWay(M, c) ==
  /\ Marks(M, c.data, c.text, Until(c)) /\ AtMark(M, c)
  /\ \A i \in DOMAIN c.text : c.text[i] < 128
  /\ c.stage = "letter" => c.to <= Len(c.text)
  /\ c.stage \in {"check", "image"} => c.to >= Len(c.text)
  /\ c.stage \in {"compress", "letter"} => c.read = 0 /\ c.out = <<>> /\ c.left = 0

(* What TextRoundTrip says at any time *)
Prefix(c) ==
  /\ c.read <= Len(c.data) /\ Len(c.data) <= Len(c.text) /\ Len(c.out) <= Len(c.text)
  /\ \A i \in 1..Len(c.out) : c.out[i] = c.text[i]

(* The generator may give up on these. *)
Hopeless(text) == Len(text) = BufSize \/ \E i \in DOMAIN text : text[i] >= 128

(* The invariant of a text on its way *)
WayInv(c) ==
  /\ c \in Ways /\ Len(c.text) \in 1..BufSize /\ Prefix(c)
  /\ c.stage = "done" => c.out = c.text
  /\ c.stage = "rejected" => Hopeless(c.text)
  /\ c.stage \in {"compress", "letter", "check", "image"} => \E M : OnTheWay(M, c)

(* It holds of a text the generator has read... *)
LEMMA BegunWay ==
  ASSUME NEW text \in Texts
  PROVE  WayInv(Begun(text))
<1> SUFFICES ASSUME NEW w, w = Begun(text)
             PROVE  WayInv(w)
  OBVIOUS
<1>1. PICK n \in 1..BufSize : text \in [1..n -> Letters]
  BY DEF Texts
<1>2. n \in Nat /\ text \in Seq(Byte) /\ Len(text) = n
  <2>1. n \in Nat
    BY BufSizeAssumption
  <2>2. text \in [1..n -> Byte]
    BY <1>1, LettersAssumption DEF Byte
  <2>3. text \in Seq(Byte) /\ DOMAIN text = 1..n
    BY <2>1, <2>2, SeqDef
  <2>4. DOMAIN text = 1..Len(text) /\ Len(text) \in Nat
    BY <2>3, LenProperties
  <2>5. QED BY <2>1, <2>3, <2>4
<1>3. w \in Ways
  BY <1>2 DEF Begun, Ways
<1>4. /\ w.text = text /\ w.data = <<>> /\ w.to = 0 /\ w.read = 0 /\ w.out = <<>> /\ w.left = 0
      /\ w.stage = IF \A i \in DOMAIN text : text[i] < 128 THEN "compress" ELSE "rejected"
  BY DEF Begun
<1>5. Prefix(w)
  BY <1>2, <1>4 DEF Prefix
<1>6. CASE \A i \in DOMAIN text : text[i] < 128
  <2> DEFINE M == {<<0, 0>>}
  <2>1. Until(w) = 0
    BY <1>2, <1>4 DEF Until
  <2>2. \A d, t \in Nat : <<d, t>> \in M => d = 0 /\ t = 0
    OBVIOUS
  <2>3. <<0, 0>> \in M
    OBVIOUS
  <2> HIDE DEF M
  <2>4. Marks(M, <<>>, text, 0)
    BY <1>2, <2>2, <2>3 DEF Marks
  <2>5. OnTheWay(M, w)
    BY <1>2, <1>4, <1>6, <2>1, <2>3, <2>4 DEF OnTheWay, AtMark
  <2>6. w.stage = "compress" /\ Len(w.text) \in 1..BufSize
    BY <1>2, <1>4, <1>6
  <2>7. \E N : OnTheWay(N, w)
    BY <2>5
  <2>8. QED BY <1>3, <1>5, <2>6, <2>7 DEF WayInv
<1>7. CASE ~(\A i \in DOMAIN text : text[i] < 128)
  <2>1. Hopeless(text)
    <3>1. PICK i \in DOMAIN text : ~(text[i] < 128)
      BY <1>7
    <3>2. i \in 1..Len(text)
      BY <1>2
    <3>3. text[i] \in Byte
      BY <1>2, <3>2, ElementOfSeq
    <3>4. text[i] >= 128
      BY <3>1, <3>3 DEF Byte
    <3>5. QED BY <3>4 DEF Hopeless
  <2>2. w.stage = "rejected" /\ Len(w.text) \in 1..BufSize /\ w.text = text
    BY <1>2, <1>4, <1>7
  <2>3. QED BY <1>3, <1>5, <2>1, <2>2 DEF WayInv
<1>8. QED BY <1>6, <1>7

(* A match that is found can be encoded in two bytes. *)
LEMMA MatchFound ==
  ASSUME NEW text, NEW to, NEW m \in Found(text, to)
  PROVE  /\ m.length \in 3..128 /\ m.back \in 1..255 /\ m.length <= Len(text) - to /\ m.back <= to
         /\ Matches(text, to, m.back, m.length)
<1>1. m.length \in 3..MaxMatch /\ m.back \in 1..MaxBack
  BY DEF Found
<1>2. m.length <= Len(text) - to /\ m.back <= to /\ Matches(text, to, m.back, m.length)
  BY DEF Found
<1>3. m.length \in 3..128 /\ m.back \in 1..255
  BY <1>1, MaxMatchAssumption, MaxBackAssumption
<1>4. QED BY <1>2, <1>3

(* ...after the compressor has looked for a match... *)
LEMMA SearchedWay ==
  ASSUME NEW c, WayInv(c), c.stage = "compress", NEW d \in Searched(c)
  PROVE  WayInv(d)
<1>1. /\ c \in Ways /\ Len(c.text) \in 1..BufSize /\ BufSize \in Nat
      /\ c.read = 0 /\ c.out = <<>> /\ c.left = 0
  BY BufSizeAssumption DEF WayInv, OnTheWay
<1>2. PICK M : OnTheWay(M, c)
  BY DEF WayInv
<1>3. /\ c.text \in Seq(Byte) /\ c.data \in Seq(Byte) /\ c.to \in Nat
      /\ Len(c.text) \in Nat /\ Len(c.data) \in Nat
  BY <1>1 DEF Ways
<1>4. CASE d = [c EXCEPT !.stage = "check"] /\ c.to >= Len(c.text)
  <2>1. /\ d \in Ways /\ d.text = c.text /\ d.data = c.data /\ d.to = c.to /\ d.read = c.read
        /\ d.out = c.out /\ d.left = c.left /\ d.back = c.back /\ d.stage = "check"
    BY <1>1, <1>4 DEF Ways
  <2>2. OnTheWay(M, d) /\ Prefix(d)
    BY <1>2, <1>4, <2>1 DEF OnTheWay, AtMark, Until, WayInv, Prefix
  <2>3. QED BY <1>1, <2>1, <2>2 DEF WayInv
<1>5. CASE d = [c EXCEPT !.stage = "letter"] /\ c.to < Len(c.text)
  <2>1. /\ d \in Ways /\ d.text = c.text /\ d.data = c.data /\ d.to = c.to /\ d.read = c.read
        /\ d.out = c.out /\ d.left = c.left /\ d.back = c.back /\ d.stage = "letter"
    BY <1>1, <1>5 DEF Ways
  <2>2. OnTheWay(M, d) /\ Prefix(d)
    BY <1>2, <1>3, <1>5, <2>1 DEF OnTheWay, AtMark, Until, WayInv, Prefix
  <2>3. QED BY <1>1, <2>1, <2>2 DEF WayInv
<1>6. ASSUME c.to < Len(c.text), NEW m \in Found(c.text, c.to),
             d = [c EXCEPT !.stage = "letter", !.to = @ + m.length,
                           !.data = Append(Append(@, 256 - m.length), m.back)]
      PROVE  WayInv(d)
  <2> DEFINE n == m.length
  <2> DEFINE back == m.back
  <2>1. /\ n \in 3..128 /\ back \in 1..255 /\ n <= Len(c.text) - c.to /\ back <= c.to
        /\ Matches(c.text, c.to, back, n)
    BY MatchFound
  <2> DEFINE data == Append(Append(c.data, 256 - n), back)
  <2>2. d = [c EXCEPT !.stage = "letter", !.to = c.to + n, !.data = data]
    BY <1>1, <1>6 DEF Ways
  <2> HIDE DEF n, back
  <2>3. data \in Seq(Byte) /\ Len(data) = Len(c.data) + 2
    <3>1. 256 - n \in Byte /\ back \in Byte
      BY <2>1 DEF Byte
    <3>2. QED BY <1>3, <3>1
  <2>4. Until(c) = c.to
    BY <1>3, <1>6 DEF Until
  <2>5. Marks(M \cup {<<Len(c.data) + 2, c.to + n>>}, data, c.text, c.to + n)
    <3>1. Marks(M, c.data, c.text, c.to)
      BY <1>2, <2>4 DEF OnTheWay
    <3>2. QED BY <1>3, <2>1, <3>1, MarkMatch
  <2> HIDE DEF data
  <2>6. c.to + n \in Nat
    BY <1>3, <2>1
  <2>7. /\ d \in Ways /\ d.text = c.text /\ d.data = data /\ d.to = c.to + n /\ d.read = c.read
        /\ d.out = c.out /\ d.left = c.left /\ d.back = c.back /\ d.stage = "letter"
    BY <1>1, <2>2, <2>3, <2>6 DEF Ways
  <2> DEFINE N == M \cup {<<Len(c.data) + 2, c.to + n>>}
  <2>8. OnTheWay(N, d)
    <3>1. Until(d) = c.to + n /\ d.to <= Len(d.text)
      BY <1>3, <2>1, <2>7 DEF Until
    <3>2. Marks(N, d.data, d.text, Until(d))
      BY <2>5, <2>7, <3>1
    <3>3. <<c.read, Len(c.out) + c.left>> \in N
      BY <1>2 DEF OnTheWay, AtMark
    <3> HIDE DEF N
    <3>4. QED BY <1>1, <1>2, <2>7, <3>1, <3>2, <3>3 DEF OnTheWay, AtMark
  <2>9. Prefix(d)
    <3>1. <<Len(data), c.to + n>> \in N /\ c.to + n <= Len(c.text)
      BY <1>3, <2>1, <2>3
    <3>2. Len(data) <= c.to + n
      <4> HIDE DEF N
      <4>1. Len(data) \in Nat
        BY <1>3, <2>3
      <4>2. Marks(N, data, c.text, c.to + n)
        BY <2>5 DEF N
      <4>3. QED BY <2>6, <3>1, <4>1, <4>2 DEF Marks
    <3>3. QED BY <1>1, <1>3, <2>3, <2>6, <2>7, <3>1, <3>2 DEF Prefix
  <2>10. QED BY <1>1, <2>7, <2>8, <2>9 DEF WayInv
<1>7. CASE c.to >= Len(c.text)
  BY <1>4, <1>7 DEF Searched
<1>8. CASE c.to < Len(c.text)
  <2>1. ~(c.to >= Len(c.text))
    BY <1>3, <1>8
  <2>2. \/ d = [c EXCEPT !.stage = "letter"]
        \/ \E m \in Found(c.text, c.to) :
             d = [c EXCEPT !.stage = "letter", !.to = @ + m.length,
                           !.data = Append(Append(@, 256 - m.length), m.back)]
    BY <2>1 DEF Searched, Longest
  <2>3. QED BY <1>5, <1>6, <1>8, <2>2
<1>9. QED BY <1>3, <1>7, <1>8

(* ...after it has appended the byte that follows... *)
LEMMA LetteredWay ==
  ASSUME NEW c, WayInv(c), c.stage = "letter", NEW d, d = Lettered(c)
  PROVE  WayInv(d)
<1>1. /\ c \in Ways /\ Len(c.text) \in 1..BufSize /\ BufSize \in Nat
  BY BufSizeAssumption DEF WayInv
<1>2. PICK M : OnTheWay(M, c)
  BY DEF WayInv
<1>3. /\ c.text \in Seq(Byte) /\ c.data \in Seq(Byte) /\ c.to \in Nat
      /\ Len(c.text) \in Nat /\ Len(c.data) \in Nat
  BY <1>1 DEF Ways
<1>4. /\ c.to <= Len(c.text) /\ Until(c) = c.to /\ Marks(M, c.data, c.text, c.to)
      /\ c.read = 0 /\ c.out = <<>> /\ c.left = 0
  BY <1>2 DEF OnTheWay, Until
<1>5. CASE c.to = Len(c.text)
  <2>1. d = [c EXCEPT !.stage = "compress", !.to = c.to + 1]
    BY <1>1, <1>5 DEF Lettered, Ways
  <2> DEFINE to == c.to + 1
  <2>6. to \in Nat
    BY <1>3
  <2>2. /\ d \in Ways /\ d.text = c.text /\ d.data = c.data /\ d.to = to /\ d.read = c.read
        /\ d.out = c.out /\ d.left = c.left /\ d.back = c.back /\ d.stage = "compress"
    <3> HIDE DEF to
    <3>1. d = [c EXCEPT !.stage = "compress", !.to = to]
      BY <2>1 DEF to
    <3>2. QED BY <1>1, <2>6, <3>1 DEF Ways
  <2>3. Until(d) = c.to
    BY <1>3, <1>5, <2>2 DEF Until
  <2>4. OnTheWay(M, d) /\ Prefix(d)
    BY <1>2, <1>4, <2>2, <2>3 DEF OnTheWay, AtMark, WayInv, Prefix
  <2>5. QED BY <1>1, <2>2, <2>4 DEF WayInv
<1>6. CASE c.to # Len(c.text)
  <2> DEFINE data == Append(c.data, c.text[c.to + 1])
  <2>1. d = [c EXCEPT !.stage = "compress", !.to = c.to + 1, !.data = data]
    BY <1>1, <1>6 DEF Lettered, Ways
  <2>2. c.to < Len(c.text) /\ c.to + 1 \in 1..Len(c.text) /\ c.to + 1 \in Nat
    BY <1>3, <1>4, <1>6
  <2>3. c.text[c.to + 1] \in Byte /\ c.text[c.to + 1] < 128
    <3>1. DOMAIN c.text = 1..Len(c.text)
      BY <1>3
    <3>2. QED BY <1>2, <1>3, <2>2, <3>1, ElementOfSeq DEF OnTheWay
  <2>4. data \in Seq(Byte) /\ Len(data) = Len(c.data) + 1
    BY <1>3, <2>3
  <2> DEFINE N == M \cup {<<Len(c.data) + 1, c.to + 1>>}
  <2>5. Marks(N, data, c.text, c.to + 1)
    BY <1>3, <1>4, <2>2, <2>3, MarkLetter
  <2> HIDE DEF data
  <2>6. /\ d \in Ways /\ d.text = c.text /\ d.data = data /\ d.to = c.to + 1 /\ d.read = c.read
        /\ d.out = c.out /\ d.left = c.left /\ d.back = c.back /\ d.stage = "compress"
    BY <1>1, <2>1, <2>2, <2>4 DEF Ways
  <2>7. Until(d) = c.to + 1
    BY <1>3, <2>2, <2>6 DEF Until
  <2>8. <<c.read, Len(c.out) + c.left>> \in N /\ <<Len(data), c.to + 1>> \in N
    BY <1>2, <2>4 DEF OnTheWay, AtMark
  <2> HIDE DEF N
  <2>9. OnTheWay(N, d)
    BY <1>2, <1>4, <2>5, <2>6, <2>7, <2>8 DEF OnTheWay, AtMark
  <2>10. Prefix(d)
    <3>1. Len(data) \in Nat
      BY <1>3, <2>4
    <3>2. Len(data) <= c.to + 1
      BY <2>2, <2>5, <2>8, <3>1 DEF Marks
    <3>3. QED BY <1>3, <1>4, <2>2, <2>6, <3>1, <3>2 DEF Prefix
  <2>11. QED BY <1>1, <2>6, <2>9, <2>10 DEF WayInv
<1>7. QED BY <1>5, <1>6

(* ...after a decoder has copied a byte of a match, which may run into itself... *)
LEMMA CopiedWay ==
  ASSUME NEW c, WayInv(c), c.stage \in {"check", "image"}, c.left > 0, NEW d, d = Copied(c)
  PROVE  WayInv(d)
<1>1. /\ c \in Ways /\ Len(c.text) \in 1..BufSize /\ BufSize \in Nat /\ Prefix(c)
  BY BufSizeAssumption DEF WayInv
<1>2. PICK M : OnTheWay(M, c)
  BY DEF WayInv
<1> DEFINE n == Len(c.out)
<1>3. /\ c.text \in Seq(Byte) /\ c.data \in Seq(Byte) /\ c.out \in Seq(Byte)
      /\ n \in Nat /\ c.left \in Nat \ {0} /\ c.read \in Nat /\ Len(c.text) \in Nat
  BY <1>1 DEF Ways
<1>4. /\ <<c.read, n + c.left>> \in M /\ c.back \in 1..n /\ Matches(c.text, n, c.back, c.left)
      /\ Marks(M, c.data, c.text, Until(c))
  BY <1>2 DEF OnTheWay, AtMark
<1> HIDE DEF n
<1>5. n + c.left <= Len(c.text)
  <2>1. n + c.left \in Nat /\ Until(c) \in 0..Len(c.text)
    BY <1>3, <1>4 DEF Marks
  <2>2. n + c.left <= Until(c)
    BY <1>3, <1>4, <2>1 DEF Marks
  <2>3. QED BY <1>3, <2>1, <2>2
<1> DEFINE b == c.out[n + 1 - c.back]
<1> DEFINE out == Append(c.out, b)
<1>6. n + 1 - c.back \in 1..n
  BY <1>3, <1>4
<1>7. b \in Byte /\ b = c.text[n + 1]
  <2>1. b \in Byte
    BY <1>3, <1>6, ElementOfSeq DEF n
  <2>2. b = c.text[n + 1 - c.back]
    BY <1>1, <1>6 DEF Prefix, n
  <2>3. 1 \in 1..c.left /\ n - c.back + 1 = n + 1 - c.back
    BY <1>3, <1>4
  <2>4. c.text[n + 1] = c.text[n - c.back + 1]
    BY <1>4, <2>3 DEF Matches
  <2>5. QED BY <2>1, <2>2, <2>3, <2>4
<1> HIDE DEF b
<1>8. /\ out \in Seq(Byte) /\ Len(out) = n + 1 /\ out[n + 1] = b
      /\ \A i \in 1..n : out[i] = c.out[i]
  BY <1>3, <1>7 DEF n
<1> HIDE DEF out
<1>9. d = [c EXCEPT !.out = out, !.left = c.left - 1]
  BY <1>1 DEF Copied, Ways, out, b, n
<1>10. /\ d \in Ways /\ d.text = c.text /\ d.data = c.data /\ d.to = c.to /\ d.read = c.read
       /\ d.out = out /\ d.left = c.left - 1 /\ d.back = c.back /\ d.stage = c.stage
  <2>1. c.left - 1 \in Nat
    BY <1>3
  <2>2. QED BY <1>1, <1>8, <1>9, <2>1 DEF Ways
<1>11. AtMark(M, d)
  <2>1. n + 1 + (c.left - 1) = n + c.left
    BY <1>3
  <2>2. c.back \in 1..(n + 1)
    BY <1>3, <1>4
  <2>3. Matches(c.text, n + 1, c.back, c.left - 1)
    <3> DEFINE back == c.back
    <3> DEFINE left == c.left
    <3>1. back \in 1..n /\ left \in Nat \ {0} /\ Matches(c.text, n, back, left)
      BY <1>3, <1>4
    <3> HIDE DEF back, left
    <3> DEFINE k == n + 1
    <3> DEFINE rest == left - 1
    <3>2. ASSUME NEW i \in 1..rest
          PROVE  c.text[k + i] = c.text[k - back + i]
      <4>1. i + 1 \in 1..left /\ n + (i + 1) = k + i /\ n - back + (i + 1) = k - back + i
        BY <1>3, <3>1
      <4>2. c.text[n + (i + 1)] = c.text[n - back + (i + 1)]
        BY <3>1, <4>1 DEF Matches
      <4>3. QED BY <4>1, <4>2
    <3> HIDE DEF k, rest
    <3>3. Matches(c.text, k, back, rest)
      BY <3>2 DEF Matches
    <3>4. QED BY <3>3 DEF back, left, k, rest
  <2>4. QED BY <1>4, <1>8, <1>10, <2>1, <2>2, <2>3 DEF AtMark
<1>12. OnTheWay(M, d)
  BY <1>2, <1>10, <1>11 DEF OnTheWay, Until
<1>13. Prefix(d)
  <2>1. \A i \in 1..(n + 1) : out[i] = c.text[i]
    <3>1. SUFFICES ASSUME NEW i \in 1..(n + 1) PROVE out[i] = c.text[i]
      OBVIOUS
    <3>2. i = n + 1 \/ i \in 1..n
      BY <1>3
    <3>3. QED BY <1>1, <1>7, <1>8, <3>2 DEF Prefix, n
  <2>2. n + 1 <= Len(c.text)
    BY <1>3, <1>5
  <2>3. QED BY <1>1, <1>8, <1>10, <2>1, <2>2 DEF Prefix
<1>14. QED BY <1>1, <1>10, <1>12, <1>13 DEF WayInv

(* ...and after a decoder has taken an item. *)
LEMMA ItemWay ==
  ASSUME NEW c, WayInv(c), c.stage \in {"check", "image"}, c.left = 0, c.read # Len(c.data),
         NEW d, d = Item(c)
  PROVE  WayInv(d)
<1>1. /\ c \in Ways /\ Len(c.text) \in 1..BufSize /\ BufSize \in Nat /\ Prefix(c)
  BY BufSizeAssumption DEF WayInv
<1>2. PICK M : OnTheWay(M, c)
  BY DEF WayInv
<1> DEFINE n == Len(c.out)
<1>3. /\ c.text \in Seq(Byte) /\ c.data \in Seq(Byte) /\ c.out \in Seq(Byte)
      /\ n \in Nat /\ c.left \in Nat /\ c.read \in Nat /\ Len(c.text) \in Nat /\ Len(c.data) \in Nat
      /\ c.back \in Nat
  BY <1>1 DEF Ways
<1> HIDE DEF n
<1>4. <<c.read, n>> \in M /\ Marks(M, c.data, c.text, Until(c)) /\ c.read < Len(c.data)
  <2>1. n + c.left = n /\ c.read < Len(c.data)
    BY <1>1, <1>3 DEF Prefix
  <2>2. QED BY <1>2, <2>1 DEF OnTheWay, AtMark, n
<1>5. ItemAt(M, c.data, c.text, c.read, n)
  BY <1>3, <1>4 DEF Marks
<1> DEFINE b == c.data[c.read + 1]
<1>6. CASE /\ b < 128 /\ n < Len(c.text) /\ b = c.text[n + 1] /\ <<c.read + 1, n + 1>> \in M
  <2> DEFINE out == Append(c.out, b)
  <2>1. n + 1 \in 1..Len(c.text) /\ b \in Byte
    <3>1. n + 1 \in 1..Len(c.text)
      BY <1>3, <1>6
    <3>2. QED BY <1>3, <1>6, <3>1, ElementOfSeq
  <2>2. d = [c EXCEPT !.out = out, !.read = c.read + 1]
    BY <1>1, <1>6 DEF Item, Ways
  <2> HIDE DEF b
  <2>3. /\ out \in Seq(Byte) /\ Len(out) = n + 1 /\ out[n + 1] = b
        /\ \A i \in 1..n : out[i] = c.out[i]
    BY <1>3, <2>1 DEF n
  <2> HIDE DEF out
  <2> DEFINE read == c.read + 1
  <2>4. read \in Nat /\ read <= Len(c.data) /\ <<read, n + 1>> \in M
    BY <1>3, <1>4, <1>6
  <2>5. d = [c EXCEPT !.out = out, !.read = read]
    BY <2>2
  <2> HIDE DEF read
  <2>6. /\ d \in Ways /\ d.text = c.text /\ d.data = c.data /\ d.to = c.to /\ d.read = read
        /\ d.out = out /\ d.left = 0 /\ d.back = c.back /\ d.stage = c.stage
    BY <1>1, <2>3, <2>4, <2>5 DEF Ways
  <2>7. AtMark(M, d)
    <3>1. n + 1 + 0 = n + 1
      BY <1>3
    <3>2. QED BY <2>3, <2>4, <2>6, <3>1 DEF AtMark
  <2>8. OnTheWay(M, d)
    BY <1>2, <2>6, <2>7 DEF OnTheWay, Until
  <2>9. Prefix(d)
    <3>1. \A i \in 1..(n + 1) : out[i] = c.text[i]
      <4>1. SUFFICES ASSUME NEW i \in 1..(n + 1) PROVE out[i] = c.text[i]
        OBVIOUS
      <4>2. i = n + 1 \/ i \in 1..n
        BY <1>3
      <4>3. QED BY <1>1, <1>6, <2>3, <4>2 DEF Prefix, n
    <3>2. n + 1 <= Len(c.text)
      BY <1>3, <2>1
    <3>3. QED BY <1>1, <2>3, <2>4, <2>6, <3>1, <3>2 DEF Prefix
  <2>10. QED BY <1>1, <2>6, <2>8, <2>9 DEF WayInv
<1>7. ASSUME NEW k \in 2..128,
             /\ b = 256 - k /\ c.read + 2 <= Len(c.data)
             /\ c.data[c.read + 2] \in 1..n /\ n + k <= Len(c.text)
             /\ Matches(c.text, n, c.data[c.read + 2], k)
             /\ <<c.read + 2, n + k>> \in M
      PROVE  WayInv(d)
  <2> DEFINE back == c.data[c.read + 2]
  <2>1. ~(b < 128) /\ 256 - b = k
    <3>1. b = 256 - k
      BY <1>7
    <3> HIDE DEF b
    <3>2. QED BY <3>1
  <2>2. d = [c EXCEPT !.left = k, !.back = back, !.read = c.read + 2]
    BY <1>1, <2>1 DEF Item, Ways
  <2>3. back \in 1..n /\ Matches(c.text, n, back, k)
    BY <1>7
  <2> HIDE DEF back
  <2> DEFINE read == c.read + 2
  <2>4. read \in Nat /\ read <= Len(c.data) /\ <<read, n + k>> \in M /\ back \in Nat /\ k \in Nat
    BY <1>3, <1>7, <2>3
  <2>5. d = [c EXCEPT !.left = k, !.back = back, !.read = read]
    BY <2>2
  <2> HIDE DEF read
  <2>6. /\ d \in Ways /\ d.text = c.text /\ d.data = c.data /\ d.to = c.to /\ d.read = read
        /\ d.out = c.out /\ d.left = k /\ d.back = back /\ d.stage = c.stage
    BY <1>1, <2>4, <2>5 DEF Ways
  <2>7. AtMark(M, d)
    BY <2>3, <2>4, <2>6 DEF AtMark, n
  <2>8. OnTheWay(M, d)
    BY <1>2, <2>6, <2>7 DEF OnTheWay, Until
  <2>9. Prefix(d)
    BY <1>1, <2>4, <2>6 DEF Prefix
  <2>10. QED BY <1>1, <2>6, <2>8, <2>9 DEF WayInv
<1>8. QED BY <1>5, <1>6, <1>7 DEF ItemAt

(* A decoder that has read all of the data has written all of the text, and
   only then. *)
LEMMA AtTheEnd ==
  ASSUME NEW c, WayInv(c), c.stage \in {"check", "image"}, c.left = 0
  PROVE  IF c.read = Len(c.data) THEN Len(c.out) = Len(c.text) ELSE Len(c.out) < Len(c.text)
<1>1. /\ c \in Ways /\ Len(c.text) \in 1..BufSize /\ BufSize \in Nat /\ Prefix(c)
  BY BufSizeAssumption DEF WayInv
<1>2. PICK M : OnTheWay(M, c)
  BY DEF WayInv
<1> DEFINE n == Len(c.out)
<1>3. n \in Nat /\ c.read \in Nat /\ Len(c.text) \in Nat /\ Len(c.data) \in Nat /\ c.to \in Nat
  BY <1>1 DEF Ways
<1> HIDE DEF n
<1>4. <<c.read, n>> \in M /\ Marks(M, c.data, c.text, Until(c)) /\ c.read <= Len(c.data)
  <2>1. n + c.left = n /\ c.read <= Len(c.data)
    BY <1>1, <1>3 DEF Prefix
  <2>2. QED BY <1>2, <2>1 DEF OnTheWay, AtMark, n
<1>5. Until(c) = Len(c.text)
  BY <1>2, <1>3 DEF OnTheWay, Until
<1>6. c.read = Len(c.data) => n = Len(c.text)
  BY <1>3, <1>4, <1>5 DEF Marks
<1>7. ASSUME c.read # Len(c.data) PROVE n < Len(c.text)
  <2>1. c.read < Len(c.data)
    BY <1>3, <1>4, <1>7
  <2>2. ItemAt(M, c.data, c.text, c.read, n)
    BY <1>3, <1>4, <2>1 DEF Marks
  <2>3. n < Len(c.text) \/ \E k \in 2..128 : n + k <= Len(c.text)
    BY <2>2 DEF ItemAt
  <2>4. ASSUME NEW k \in 2..128, n + k <= Len(c.text)
        PROVE  n < Len(c.text)
    BY <1>3, <2>4
  <2>5. QED BY <2>3, <2>4
<1>8. QED BY <1>6, <1>7 DEF n

(* The invariant holds after a step of the check... *)
LEMMA DecompressedWay ==
  ASSUME NEW c, WayInv(c), c.stage = "check", NEW d, d = Decompressed(c)
  PROVE  WayInv(d)
<1>1. /\ c \in Ways /\ Len(c.text) \in 1..BufSize /\ BufSize \in Nat /\ Prefix(c)
  BY BufSizeAssumption DEF WayInv
<1>2. /\ c.text \in Seq(Byte) /\ c.out \in Seq(Byte) /\ c.left \in Nat /\ c.read \in Nat
      /\ Len(c.text) \in Nat /\ Len(c.data) \in Nat /\ Len(c.out) \in Nat
  BY <1>1 DEF Ways
<1>3. CASE c.left > 0
  BY <1>3, CopiedWay DEF Decompressed
<1>4. CASE ~(c.left > 0) /\ c.read < Len(c.data) /\ Len(c.out) < BufSize
  <2>1. c.left = 0 /\ c.read # Len(c.data)
    BY <1>2, <1>4
  <2>2. d = Item(c)
    BY <1>4 DEF Decompressed
  <2>3. QED BY <2>1, <2>2, ItemWay
<1>5. CASE ~(c.left > 0) /\ ~(c.read < Len(c.data) /\ Len(c.out) < BufSize)
  <2>1. c.left = 0 /\ c.read = Len(c.data) /\ Len(c.out) = Len(c.text)
    <3>1. c.left = 0
      BY <1>2, <1>5
    <3>2. ASSUME c.read # Len(c.data) PROVE FALSE
      <4>1. Len(c.out) < Len(c.text)
        BY <3>1, <3>2, AtTheEnd
      <4>2. c.read < Len(c.data)
        BY <1>1, <1>2, <3>2 DEF Prefix
      <4>3. QED BY <1>1, <1>2, <1>5, <4>1, <4>2
    <3>3. QED BY <3>1, <3>2, AtTheEnd
  <2>2. c.out = c.text
    BY <1>1, <1>2, <2>1, SeqEqual DEF Prefix
  <2>3. CASE Len(c.out) < BufSize
    <3>1. d = [c EXCEPT !.stage = "image", !.read = 0, !.out = <<>>]
      BY <1>5, <2>2, <2>3 DEF Decompressed
    <3>2. /\ d \in Ways /\ d.text = c.text /\ d.data = c.data /\ d.to = c.to /\ d.read = 0
          /\ d.out = <<>> /\ d.left = 0 /\ d.back = c.back /\ d.stage = "image"
      <4> DEFINE nothing == <<>>
      <4>1. nothing \in Seq(Byte)
        BY EmptySeq
      <4> HIDE DEF nothing
      <4>2. d = [c EXCEPT !.stage = "image", !.read = 0, !.out = nothing]
        BY <3>1 DEF nothing
      <4>3. /\ d \in Ways /\ d.text = c.text /\ d.data = c.data /\ d.to = c.to /\ d.read = 0
            /\ d.out = nothing /\ d.left = 0 /\ d.back = c.back /\ d.stage = "image"
        BY <1>1, <2>1, <4>1, <4>2 DEF Ways
      <4>4. QED BY <4>3 DEF nothing
    <3>3. PICK M : OnTheWay(M, c)
      BY DEF WayInv
    <3>4. AtMark(M, d)
      BY <3>2, <3>3 DEF OnTheWay, AtMark, Marks
    <3>5. OnTheWay(M, d)
      BY <3>2, <3>3, <3>4 DEF OnTheWay, Until
    <3>6. Prefix(d)
      BY <1>1, <1>2, <3>2 DEF Prefix
    <3>7. QED BY <1>1, <3>2, <3>5, <3>6 DEF WayInv
  <2>4. CASE ~(Len(c.out) < BufSize)
    <3>1. d = [c EXCEPT !.stage = "rejected"]
      BY <1>5, <2>4 DEF Decompressed
    <3>2. /\ d \in Ways /\ d.text = c.text /\ d.data = c.data /\ d.to = c.to /\ d.read = c.read
          /\ d.out = c.out /\ d.left = c.left /\ d.back = c.back /\ d.stage = "rejected"
      BY <1>1, <3>1 DEF Ways
    <3>3. Hopeless(c.text)
      BY <1>1, <1>2, <2>1, <2>4 DEF Hopeless
    <3>4. Prefix(d)
      BY <1>1, <3>2 DEF Prefix
    <3>5. QED BY <1>1, <3>2, <3>3, <3>4 DEF WayInv
  <2>5. QED BY <2>3, <2>4
<1>6. QED BY <1>3, <1>4, <1>5

(* ...and after a step of the image's decoder, which stops at the end of the
   data although it only compares for equality. *)
LEMMA PoorMansWay ==
  ASSUME NEW c, WayInv(c), c.stage = "image", NEW d, d = PoorMansDecompressed(c)
  PROVE  WayInv(d)
<1>1. /\ c \in Ways /\ Len(c.text) \in 1..BufSize /\ BufSize \in Nat /\ Prefix(c)
  BY BufSizeAssumption DEF WayInv
<1>2. /\ c.text \in Seq(Byte) /\ c.out \in Seq(Byte) /\ c.left \in Nat /\ c.read \in Nat
      /\ Len(c.text) \in Nat /\ Len(c.data) \in Nat /\ Len(c.out) \in Nat
  BY <1>1 DEF Ways
<1>3. CASE c.left > 0
  BY <1>3, CopiedWay DEF PoorMansDecompressed
<1>4. CASE ~(c.left > 0) /\ ~(c.out # <<>> /\ c.read = Len(c.data))
  <2>1. c.left = 0
    BY <1>2, <1>4
  <2>2. c.read # Len(c.data)
    <3>1. SUFFICES ASSUME c.read = Len(c.data) PROVE FALSE
      OBVIOUS
    <3>2. Len(c.out) = Len(c.text) /\ c.out = <<>>
      BY <1>4, <2>1, <3>1, AtTheEnd
    <3>3. QED BY <1>1, <3>2
  <2>3. d = Item(c)
    BY <1>4 DEF PoorMansDecompressed
  <2>4. QED BY <2>1, <2>2, <2>3, ItemWay
<1>5. CASE ~(c.left > 0) /\ c.out # <<>> /\ c.read = Len(c.data)
  <2>1. c.left = 0
    BY <1>2, <1>5
  <2>2. Len(c.out) = Len(c.text)
    BY <1>5, <2>1, AtTheEnd
  <2>3. c.out = c.text
    BY <1>1, <1>2, <2>2, SeqEqual DEF Prefix
  <2>4. d = [c EXCEPT !.stage = "done"]
    BY <1>5 DEF PoorMansDecompressed
  <2>5. /\ d \in Ways /\ d.text = c.text /\ d.data = c.data /\ d.to = c.to /\ d.read = c.read
        /\ d.out = c.out /\ d.left = c.left /\ d.back = c.back /\ d.stage = "done"
    BY <1>1, <2>4 DEF Ways
  <2>6. Prefix(d)
    BY <1>1, <2>5 DEF Prefix
  <2>7. QED BY <1>1, <2>3, <2>5, <2>6 DEF WayInv
<1>6. QED BY <1>3, <1>4, <1>5

(* The call in progress is none of these, or a text on its way. *)
TextInv == call.routine = "text" => WayInv(call)

(* Each step of a text keeps its invariant. *)
LEMMA WayStep ==
  ASSUME TextInv, Compress \/ CompressText \/ CheckText \/ ShowText
  PROVE  WayInv(call') /\ call'.routine = "text"
<1>1. ASSUME Compress PROVE WayInv(call')
  BY <1>1, BegunWay DEF Compress
<1>2. ASSUME CompressText PROVE WayInv(call')
  BY <1>2, SearchedWay, LetteredWay DEF CompressText, InText, TextInv
<1>3. ASSUME CheckText PROVE WayInv(call')
  BY <1>3, DecompressedWay DEF CheckText, InText, TextInv
<1>4. ASSUME ShowText PROVE WayInv(call')
  BY <1>4, PoorMansWay DEF ShowText, InText, TextInv
<1>5. WayInv(call') => call'.routine = "text"
  BY DEF WayInv, Ways
<1>6. QED BY <1>1, <1>2, <1>3, <1>4, <1>5

(* No other routine disturbs it. *)
LEMMA TextStep ==
  ASSUME TextInv, [RomNext]_call
  PROVE  TextInv'
<1>1. ASSUME call'.routine # "text"
      PROVE  TextInv'
  BY <1>1 DEF TextInv
<1>2. CASE Copy
  BY <1>1, <1>2 DEF Copy
<1>3. CASE Fill
  BY <1>1, <1>3 DEF Fill
<1>4. CASE CountBits
  BY <1>1, <1>4 DEF CountBits
<1>5. CASE Checksum
  BY <1>1, <1>5 DEF Checksum
<1>6. CASE Dump
  BY <1>1, <1>6 DEF Dump
<1>7. CASE Return
  BY <1>1, <1>7 DEF Return, Idle
<1>8. CASE Compress \/ CompressText \/ CheckText \/ ShowText
  BY <1>8, WayStep DEF TextInv
<1>9. CASE UNCHANGED call
  BY <1>9 DEF TextInv
<1>10. QED
  BY <1>2, <1>3, <1>4, <1>5, <1>6, <1>7, <1>8, <1>9 DEF RomNext

(* Both decoders restore every text the generator compresses, of any length
   and with any letters, and neither reads nor writes beyond what it may. *)
THEOREM TextsRestored == RomSpec => []TextRoundTrip
<1>1. RomInit => TextInv
  BY DEF RomInit, Idle, TextInv
<1>2. TextInv /\ [RomNext]_call => TextInv'
  BY TextStep
<1>3. TextInv => TextRoundTrip
  BY DEF TextInv, WayInv, Prefix, Hopeless, TextRoundTrip
<1>4. QED BY <1>1, <1>2, <1>3, PTL DEF RomSpec

-----------------------------------------------------------------------------
(*****************************************************************************)
(* Part 3: memory copied and filled.                                         *)
(*****************************************************************************)

(* The bytes of an access. *)
Touches(a, k) == a.at <= k /\ k < a.at + a.width

(* Accesses that touch the bytes from lo up to hi once each, and no others. *)
Tiles(accesses, lo, hi) ==
  /\ \A a \in accesses :
       a.at \in Nat /\ a.width \in {1, 2, 4} /\ lo <= a.at /\ a.at + a.width <= hi
  /\ \A k \in Nat : lo <= k /\ k < hi => \E a \in accesses : Touches(a, k)
  /\ \A a, b \in accesses, k \in Nat : Touches(a, k) /\ Touches(b, k) => a = b

(* The accesses of a run *)
LEMMA RunOf ==
  ASSUME NEW from \in Nat, NEW count \in Nat, NEW width \in {1, 2, 4}
  PROVE  \A a : a \in Run(from, count, width) <=>
           \E i \in Nat : i < count /\ a = Access(from + width * i, width)
<1>1. {j \in 0..count : j < count} = {j \in Nat : j < count}
  OBVIOUS
<1>2. Run(from, count, width) = {Access(from + width * i, width) : i \in {j \in Nat : j < count}}
  BY <1>1, Zenon DEF Run
<1>3. QED BY <1>2, Zenon

(* A run touches each byte it covers once. *)
LEMMA RunTiles ==
  ASSUME NEW from \in Nat, NEW count \in Nat, NEW width \in {1, 2, 4}
  PROVE  Tiles(Run(from, count, width), from, from + width * count)
<1> DEFINE R == Run(from, count, width)
<1>1. \A a : a \in R <=> \E i \in Nat : i < count /\ a = Access(from + width * i, width)
  BY RunOf
<1> HIDE DEF R
<1>2. ASSUME NEW a \in R
      PROVE  /\ a.at \in Nat /\ a.width \in {1, 2, 4} /\ from <= a.at
             /\ a.at + a.width <= from + width * count
  <2>1. PICK i \in Nat : i < count /\ a = Access(from + width * i, width)
    BY <1>1
  <2>2. CASE width = 1
    BY <2>1, <2>2 DEF Access
  <2>3. CASE width = 2
    BY <2>1, <2>3 DEF Access
  <2>4. CASE width = 4
    BY <2>1, <2>4 DEF Access
  <2>5. QED BY <2>2, <2>3, <2>4
<1>3. ASSUME NEW k \in Nat, from <= k, k < from + width * count
      PROVE  \E a \in R : Touches(a, k)
  <2> DEFINE i == (k - from) \div width
  <2> DEFINE a == Access(from + width * i, width)
  <2>1. i \in Nat /\ i < count /\ from + width * i <= k /\ k < from + width * i + width
    <3>1. CASE width = 1
      BY <1>3, <3>1
    <3>2. CASE width = 2
      BY <1>3, <3>2
    <3>3. CASE width = 4
      BY <1>3, <3>3
    <3>4. QED BY <3>1, <3>2, <3>3
  <2>2. a \in R
    BY <1>1, <2>1
  <2>3. Touches(a, k)
    BY <2>1 DEF Touches, Access
  <2>4. QED BY <2>2, <2>3
<1>4. ASSUME NEW a \in R, NEW b \in R, NEW k \in Nat, Touches(a, k), Touches(b, k)
      PROVE  a = b
  <2>1. PICK i \in Nat : i < count /\ a = Access(from + width * i, width)
    BY <1>1
  <2>2. PICK j \in Nat : j < count /\ b = Access(from + width * j, width)
    BY <1>1
  <2>3. /\ from + width * i <= k /\ k < from + width * i + width
        /\ from + width * j <= k /\ k < from + width * j + width
    BY <1>4, <2>1, <2>2 DEF Touches, Access
  <2>4. i = j
    <3>1. CASE width = 1
      BY <2>3, <3>1
    <3>2. CASE width = 2
      BY <2>3, <3>2
    <3>3. CASE width = 4
      BY <2>3, <3>3
    <3>4. QED BY <3>1, <3>2, <3>3
  <2>5. QED BY <2>1, <2>2, <2>4
<1>5. Tiles(R, from, from + width * count)
  BY <1>2, <1>3, <1>4 DEF Tiles
<1>6. QED BY <1>5 DEF R

(* Accesses to adjacent ranges cover both. *)
LEMMA TilesJoin ==
  ASSUME NEW A, NEW B, NEW lo \in Nat, NEW mid \in Nat, NEW hi \in Nat, lo <= mid, mid <= hi,
         Tiles(A, lo, mid), Tiles(B, mid, hi)
  PROVE  Tiles(A \cup B, lo, hi)
<1>1. ASSUME NEW a \in A \cup B
      PROVE  a.at \in Nat /\ a.width \in {1, 2, 4} /\ lo <= a.at /\ a.at + a.width <= hi
  <2>1. CASE a \in A
    <3>1. a.at \in Nat /\ a.width \in {1, 2, 4} /\ lo <= a.at /\ a.at + a.width <= mid
      BY <2>1 DEF Tiles
    <3>2. QED BY <3>1
  <2>2. CASE a \in B
    <3>1. a.at \in Nat /\ a.width \in {1, 2, 4} /\ mid <= a.at /\ a.at + a.width <= hi
      BY <2>2 DEF Tiles
    <3>2. QED BY <3>1
  <2>3. QED BY <2>1, <2>2
<1>2. ASSUME NEW k \in Nat, lo <= k, k < hi
      PROVE  \E a \in A \cup B : Touches(a, k)
  BY <1>2 DEF Tiles
<1>3. ASSUME NEW a \in A, NEW b \in B, NEW k \in Nat, Touches(a, k), Touches(b, k)
      PROVE  FALSE
  <2>1. a.at \in Nat /\ a.width \in {1, 2, 4} /\ a.at + a.width <= mid
    BY DEF Tiles
  <2>2. b.at \in Nat /\ mid <= b.at
    BY DEF Tiles
  <2>3. QED BY <1>3, <2>1, <2>2 DEF Touches
<1>4. ASSUME NEW a \in A \cup B, NEW b \in A \cup B, NEW k \in Nat, Touches(a, k), Touches(b, k)
      PROVE  a = b
  <2>1. CASE a \in A /\ b \in A
    BY <1>4, <2>1 DEF Tiles
  <2>2. CASE a \in B /\ b \in B
    BY <1>4, <2>2 DEF Tiles
  <2>3. QED BY <1>3, <1>4, <2>1, <2>2
<1>5. QED BY <1>1, <1>2, <1>4 DEF Tiles

(* The loop and the tests of single bits add up to the length. *)
LEMMA LengthInBinary ==
  ASSUME NEW n \in Nat
  PROVE  n = 16 * (n \div 16) + 8 * ((n \div 8) % 2) + 4 * ((n \div 4) % 2)
               + 2 * ((n \div 2) % 2) + (n % 2)
OBVIOUS

(* The aligned copy touches each byte once. *)
LEMMA AlignedTiles ==
  ASSUME NEW from \in Nat, NEW n \in Nat
  PROVE  Tiles(Aligned(from, n), from, from + n)
<1> DEFINE s == n \div 16
<1> DEFINE e == (n \div 8) % 2
<1> DEFINE f == (n \div 4) % 2
<1> DEFINE t == (n \div 2) % 2
<1> DEFINE o == n % 2
<1>1. /\ s \in Nat /\ e \in 0..1 /\ f \in 0..1 /\ t \in 0..1 /\ o \in 0..1
      /\ n = 16 * s + 8 * e + 4 * f + 2 * t + o
  BY LengthInBinary
<1>2. Aligned(from, n) =
        Run(from, 4 * s, 4)
          \cup Run(from + 16 * s, 2 * e, 4)
          \cup Run(from + 16 * s + 8 * e, f, 4)
          \cup Run(from + 16 * s + 8 * e + 4 * f, t, 2)
          \cup Run(from + 16 * s + 8 * e + 4 * f + 2 * t, o, 1)
  BY DEF Aligned
<1> HIDE DEF s, e, f, t, o
<1> DEFINE p1 == from + 16 * s
<1> DEFINE p2 == p1 + 8 * e
<1> DEFINE p3 == p2 + 4 * f
<1> DEFINE p4 == p3 + 2 * t
<1>3. p1 \in Nat /\ p2 \in Nat /\ p3 \in Nat /\ p4 \in Nat /\ from + n \in Nat
  BY <1>1
<1>4. from <= p1 /\ p1 <= p2 /\ p2 <= p3 /\ p3 <= p4 /\ p4 <= from + n
  BY <1>1
<1>5. /\ from + 4 * (4 * s) = p1 /\ p1 + 4 * (2 * e) = p2 /\ p2 + 4 * f = p3 /\ p3 + 2 * t = p4
      /\ p4 + 1 * o = from + n
  BY <1>1
<1>6. Tiles(Run(from, 4 * s, 4), from, p1)
  <2>1. 4 * s \in Nat
    BY <1>1
  <2>2. QED BY <1>5, <2>1, RunTiles
<1> HIDE DEF p1
<1>7. Tiles(Run(p1, 2 * e, 4), p1, p2)
  <2>1. 2 * e \in Nat
    BY <1>1
  <2>2. QED BY <1>3, <1>5, <2>1, RunTiles
<1> HIDE DEF p2
<1>8. Tiles(Run(p2, f, 4), p2, p3)
  <2>1. f \in Nat
    BY <1>1
  <2>2. QED BY <1>3, <1>5, <2>1, RunTiles
<1> HIDE DEF p3
<1>9. Tiles(Run(p3, t, 2), p3, p4)
  <2>1. t \in Nat
    BY <1>1
  <2>2. QED BY <1>3, <1>5, <2>1, RunTiles
<1> HIDE DEF p4
<1>10. Tiles(Run(p4, o, 1), p4, from + n)
  <2>1. o \in Nat
    BY <1>1
  <2>2. QED BY <1>3, <1>5, <2>1, RunTiles
<1>11. Tiles(Run(from, 4 * s, 4) \cup Run(p1, 2 * e, 4), from, p2)
  BY <1>3, <1>4, <1>6, <1>7, TilesJoin
<1>12. from <= p2 /\ from <= p3 /\ from <= p4
  BY <1>3, <1>4
<1>13. Tiles(Run(from, 4 * s, 4) \cup Run(p1, 2 * e, 4) \cup Run(p2, f, 4), from, p3)
  BY <1>3, <1>4, <1>8, <1>11, <1>12, TilesJoin
<1>14. Tiles(Run(from, 4 * s, 4) \cup Run(p1, 2 * e, 4) \cup Run(p2, f, 4) \cup Run(p3, t, 2), from, p4)
  BY <1>3, <1>4, <1>9, <1>12, <1>13, TilesJoin
<1>15. Tiles(Run(from, 4 * s, 4) \cup Run(p1, 2 * e, 4) \cup Run(p2, f, 4) \cup Run(p3, t, 2)
               \cup Run(p4, o, 1), from, from + n)
  BY <1>3, <1>4, <1>10, <1>12, <1>14, TilesJoin
<1>16. QED BY <1>2, <1>15 DEF p1, p2, p3, p4

(* A run that begins aligned stays aligned. *)
LEMMA RunAligned ==
  ASSUME NEW from \in Nat, NEW count \in Nat, NEW width \in {1, 2, 4}, NEW base \in Nat,
         (base + from) % width = 0
  PROVE  AlignedAt(Run(from, count, width), base)
<1> DEFINE R == Run(from, count, width)
<1>1. \A a : a \in R <=> \E i \in Nat : i < count /\ a = Access(from + width * i, width)
  BY RunOf
<1>2. SUFFICES ASSUME NEW a \in R
               PROVE  (base + a.at) % a.width = 0
  BY DEF AlignedAt
<1> HIDE DEF R
<1>3. PICK i \in Nat : i < count /\ a = Access(from + width * i, width)
  BY <1>1, <1>2
<1>4. (base + (from + width * i)) % width = 0
  <2>1. CASE width = 1
    BY <2>1
  <2>2. CASE width = 2
    BY <2>2
  <2>3. CASE width = 4
    BY <2>3
  <2>4. QED BY <2>1, <2>2, <2>3
<1>5. QED BY <1>3, <1>4 DEF Access

(* The aligned copy is aligned. *)
LEMMA AlignedAligned ==
  ASSUME NEW from \in Nat, NEW n \in Nat, NEW base \in Nat, (base + from) % 4 = 0
  PROVE  AlignedAt(Aligned(from, n), base)
<1> DEFINE s == n \div 16
<1> DEFINE e == (n \div 8) % 2
<1> DEFINE f == (n \div 4) % 2
<1> DEFINE t == (n \div 2) % 2
<1> DEFINE o == n % 2
<1>1. s \in Nat /\ e \in Nat /\ f \in Nat /\ t \in Nat /\ o \in Nat /\ 4 * s \in Nat /\ 2 * e \in Nat
  OBVIOUS
<1> DEFINE p1 == from + 16 * s
<1> DEFINE p2 == p1 + 8 * e
<1> DEFINE p3 == p2 + 4 * f
<1> DEFINE p4 == p3 + 2 * t
<1>2. Aligned(from, n) =
        Run(from, 4 * s, 4) \cup Run(p1, 2 * e, 4) \cup Run(p2, f, 4) \cup Run(p3, t, 2)
          \cup Run(p4, o, 1)
  BY DEF Aligned
<1> HIDE DEF s, e, f, t, o
<1>3. /\ p1 \in Nat /\ p2 \in Nat /\ p3 \in Nat /\ p4 \in Nat
      /\ (base + p1) % 4 = 0 /\ (base + p2) % 4 = 0 /\ (base + p3) % 2 = 0 /\ (base + p4) % 1 = 0
  BY <1>1
<1> HIDE DEF p1, p2, p3, p4
<1>4. AlignedAt(Run(from, 4 * s, 4), base)
  BY <1>1, RunAligned
<1>5. AlignedAt(Run(p1, 2 * e, 4), base)
  BY <1>1, <1>3, RunAligned
<1>6. AlignedAt(Run(p2, f, 4), base)
  BY <1>1, <1>3, RunAligned
<1>7. AlignedAt(Run(p3, t, 2), base)
  BY <1>1, <1>3, RunAligned
<1>8. AlignedAt(Run(p4, o, 1), base)
  BY <1>1, <1>3, RunAligned
<1>9. QED BY <1>2, <1>4, <1>5, <1>6, <1>7, <1>8 DEF AlignedAt

(* At most a byte and a halfword bring an address to a word boundary. *)
LEMMA HeadTiles ==
  ASSUME NEW dst \in Nat
  PROVE  /\ HeadByte(dst) \in 0..1 /\ HeadLength(dst) \in 0..3 /\ (dst + HeadLength(dst)) % 4 = 0
         /\ HeadByte(dst) <= HeadLength(dst)
         /\ Tiles(HeadAccesses(dst), 0, HeadLength(dst))
         /\ AlignedAt(HeadAccesses(dst), dst)
         /\ \A a \in HeadAccesses(dst) :
              IF a.at < HeadByte(dst) THEN a.width = 1
              ELSE a.width = 2 /\ a.at < HeadLength(dst)
<1> DEFINE b == HeadByte(dst)
<1> DEFINE h == HeadHalf(dst)
<1>1. b \in 0..1 /\ h \in 0..1 /\ (dst + b) % 2 = 0 /\ (dst + b + 2 * h) % 4 = 0
  BY DEF HeadByte, HeadHalf
<1>2. HeadLength(dst) = b + 2 * h /\ HeadAccesses(dst) = Run(0, b, 1) \cup Run(b, h, 2)
  BY DEF HeadLength, HeadAccesses
<1> HIDE DEF b, h
<1>3. b \in Nat /\ h \in Nat /\ 0 + 1 * b = b /\ (dst + 0) % 1 = 0
  BY <1>1
<1>4. Tiles(Run(0, b, 1), 0, b) /\ AlignedAt(Run(0, b, 1), dst)
  BY <1>3, RunTiles, RunAligned
<1>5. Tiles(Run(b, h, 2), b, b + 2 * h) /\ AlignedAt(Run(b, h, 2), dst)
  BY <1>1, <1>3, RunTiles, RunAligned
<1>6. Tiles(HeadAccesses(dst), 0, HeadLength(dst))
  <2>1. b + 2 * h \in Nat /\ 0 <= b /\ b <= b + 2 * h
    BY <1>3
  <2>2. QED BY <1>2, <1>3, <1>4, <1>5, <2>1, TilesJoin
<1>7. AlignedAt(HeadAccesses(dst), dst)
  BY <1>2, <1>4, <1>5 DEF AlignedAt
<1>8. ASSUME NEW a \in HeadAccesses(dst)
      PROVE  IF a.at < b THEN a.width = 1 ELSE a.width = 2 /\ a.at < b + 2 * h
  <2>1. CASE a \in Run(0, b, 1)
    <3>1. PICK i \in Nat : i < b /\ a = Access(0 + 1 * i, 1)
      BY <1>3, <2>1, RunOf
    <3>2. QED BY <1>1, <3>1 DEF Access
  <2>2. CASE a \in Run(b, h, 2)
    <3>1. PICK i \in Nat : i < h /\ a = Access(b + 2 * i, 2)
      BY <1>3, <2>2, RunOf
    <3>2. QED BY <1>1, <3>1 DEF Access
  <2>3. QED BY <1>2, <2>1, <2>2
<1>9. HeadLength(dst) \in 0..3 /\ b <= HeadLength(dst) /\ (dst + HeadLength(dst)) % 4 = 0
  <2>1. b + 2 * h \in 0..3 /\ b <= b + 2 * h /\ (dst + (b + 2 * h)) % 4 = 0
    BY <1>1
  <2>2. QED BY <1>2, <2>1
<1>10. \A a \in HeadAccesses(dst) :
         IF a.at < b THEN a.width = 1 ELSE a.width = 2 /\ a.at < HeadLength(dst)
  BY <1>2, <1>8
<1>11. QED BY <1>1, <1>6, <1>7, <1>9, <1>10 DEF b

(* The head and the aligned rest are right for every alignment of dst. *)
LEMMA AdjustedRight ==
  ASSUME NEW dst \in Nat, NEW n \in Nat, n >= 8
  PROVE  /\ Tiles(Adjusted(dst, n), 0, n) /\ AlignedAt(Adjusted(dst, n), dst)
         /\ \A a \in Adjusted(dst, n) :
              IF a.at < HeadByte(dst) THEN a.width = 1
              ELSE a.at < HeadLength(dst) => a.width = 2
<1> DEFINE l == HeadLength(dst)
<1> DEFINE rest == n - l
<1>1. l \in Nat /\ rest \in Nat /\ l + rest = n /\ 0 <= l /\ l <= n /\ HeadByte(dst) <= l
      /\ HeadByte(dst) \in Nat /\ (dst + l) % 4 = 0
  BY HeadTiles
<1>2. Adjusted(dst, n) = HeadAccesses(dst) \cup Aligned(l, rest)
  BY DEF Adjusted
<1>3. Tiles(HeadAccesses(dst), 0, l) /\ AlignedAt(HeadAccesses(dst), dst)
  BY HeadTiles
<1> HIDE DEF l, rest
<1>4. Tiles(Aligned(l, rest), l, n) /\ AlignedAt(Aligned(l, rest), dst)
  BY <1>1, AlignedTiles, AlignedAligned
<1>5. Tiles(Adjusted(dst, n), 0, n)
  BY <1>1, <1>2, <1>3, <1>4, TilesJoin
<1>6. AlignedAt(Adjusted(dst, n), dst)
  BY <1>2, <1>3, <1>4 DEF AlignedAt
<1>7. ASSUME NEW a \in Adjusted(dst, n)
      PROVE  IF a.at < HeadByte(dst) THEN a.width = 1 ELSE a.at < l => a.width = 2
  <2>1. CASE a \in HeadAccesses(dst)
    BY <2>1, HeadTiles
  <2>2. CASE a \in Aligned(l, rest)
    <3>1. a.at \in Nat /\ l <= a.at
      BY <1>4, <2>2 DEF Tiles
    <3>2. ~(a.at < l) /\ ~(a.at < HeadByte(dst))
      BY <1>1, <3>1
    <3>3. QED BY <3>2
  <2>3. QED BY <1>2, <2>1, <2>2
<1>8. QED BY <1>5, <1>6, <1>7 DEF l

(* So is the loop over bytes. *)
LEMMA BytewiseRight ==
  ASSUME NEW n \in Nat, NEW base \in Nat
  PROVE  /\ Tiles(Bytewise(n), 0, n) /\ AlignedAt(Bytewise(n), base)
         /\ \A a \in Bytewise(n) : a.width = 1
<1>1. 0 + 1 * n = n /\ (base + 0) % 1 = 0
  OBVIOUS
<1>2. Tiles(Bytewise(n), 0, n) /\ AlignedAt(Bytewise(n), base)
  BY <1>1, RunTiles, RunAligned DEF Bytewise
<1>3. \A a \in Bytewise(n) : a.width = 1
  BY RunOf DEF Bytewise, Access
<1>4. QED BY <1>2, <1>3

(* Accesses that tile a buffer cover it as MemoryRight says. *)
LEMMA TilesCover ==
  ASSUME NEW accesses, NEW n \in Nat, Tiles(accesses, 0, n)
  PROVE  Covers(accesses, n)
<1>1. ASSUME NEW k \in 0..(n - 1)
      PROVE  Cardinality({a \in accesses : a.at <= k /\ k < a.at + a.width}) = 1
  <2>1. k \in Nat /\ 0 <= k /\ k < n
    OBVIOUS
  <2>2. PICK a \in accesses : Touches(a, k)
    BY <2>1 DEF Tiles
  <2>3. \A b \in accesses : Touches(b, k) => b = a
    BY <2>1, <2>2 DEF Tiles
  <2>4. {b \in accesses : b.at <= k /\ k < b.at + b.width} = {a}
    BY <2>2, <2>3 DEF Touches
  <2>5. QED BY <2>4, FS_Singleton
<1>2. \A a \in accesses : a.at + a.width <= n
  BY DEF Tiles
<1>3. QED BY <1>1, <1>2 DEF Covers

(* What is aligned for dst is aligned for a src that differs by words. *)
LEMMA SameAlignment ==
  ASSUME NEW accesses, NEW dst \in Nat, NEW src \in Nat, dst % 4 = src % 4, NEW n,
         Tiles(accesses, 0, n), AlignedAt(accesses, dst)
  PROVE  AlignedAt(accesses, src)
<1>1. SUFFICES ASSUME NEW a \in accesses
               PROVE  (src + a.at) % a.width = 0
  BY DEF AlignedAt
<1>2. a.at \in Nat /\ a.width \in {1, 2, 4} /\ (dst + a.at) % a.width = 0
  BY DEF Tiles, AlignedAt
<1> DEFINE at == a.at
<1> DEFINE width == a.width
<1>3. at \in Nat /\ width \in {1, 2, 4} /\ (dst + at) % width = 0
  BY <1>2
<1> HIDE DEF at, width
<1>4. (src + at) % width = 0
  <2>1. CASE width = 1
    BY <1>3, <2>1
  <2>2. CASE width = 2
    BY <1>3, <2>2
  <2>3. CASE width = 4
    BY <1>3, <2>3
  <2>4. QED BY <1>3, <2>1, <2>2, <2>3
<1>5. QED BY <1>4 DEF at, width

(* What memset stores in one byte, two and four has the same byte throughout. *)
LEMMA BytesStored ==
  ASSUME NEW c \in SUBSET Bits
  PROVE  /\ ByteOf(c, 0) = Uxtb(c)
         /\ \A k \in 0..1 : ByteOf(Halfword(c), k) = Uxtb(c)
         /\ \A k \in 0..3 : ByteOf(Pattern(c), k) = Uxtb(c)
<1> DEFINE u == Uxtb(c)
<1>1. \A b : b \in u <=> b \in c /\ b \in 0..7
  BY DEF Uxtb
<1> DEFINE w == Halfword(c)
<1>2. \A b \in 0..15 : b \in w <=> b % 8 \in u
  <2>1. \A b \in Bits : b \in w <=> b \in u \/ (b >= 8 /\ b - 8 \in u)
    BY <1>1 DEF Halfword, Lsl, Bits
  <2>2. SUFFICES ASSUME NEW b \in 0..15 PROVE b \in w <=> b % 8 \in u
    OBVIOUS
  <2>3. b \in Bits /\ (b < 8 => b % 8 = b) /\ (b >= 8 => b % 8 = b - 8)
    BY DEF Bits
  <2> HIDE DEF u, w
  <2>4. CASE b < 8
    BY <2>1, <2>3, <2>4
  <2>5. CASE b >= 8
    BY <1>1, <2>1, <2>3, <2>5
  <2>6. QED BY <2>4, <2>5
<1>3. \A b \in w : b \in 0..15
  BY <1>1 DEF Halfword, Lsl, Bits
<1> DEFINE p == Pattern(c)
<1>4. \A b \in Bits : b \in p <=> b \in w \/ 8 * (3 - b \div 8) + (b % 8) \in w
  BY <1>3 DEF Pattern, Rev, Bits
<1> HIDE DEF u, w, p
<1>5. \A b \in Bits : b \in p <=> b % 8 \in u
  <2>1. SUFFICES ASSUME NEW b \in Bits PROVE b \in p <=> b % 8 \in u
    OBVIOUS
  <2> DEFINE m == 8 * (3 - b \div 8) + (b % 8)
  <2>2. CASE b < 16
    <3>1. b \in 0..15 /\ ~(m \in 0..15)
      BY <2>2 DEF Bits
    <3>2. QED BY <1>2, <1>3, <1>4, <3>1
  <2>3. CASE b >= 16
    <3>1. m \in 0..15 /\ m % 8 = b % 8 /\ ~(b \in 0..15)
      BY <2>3 DEF Bits
    <3> HIDE DEF m
    <3>2. b \in p <=> b \in w \/ m \in w
      BY <1>4 DEF m
    <3>3. QED BY <1>2, <1>3, <3>1, <3>2
  <2>4. QED BY <2>2, <2>3 DEF Bits
<1>6. ByteOf(c, 0) = u
  BY <1>1 DEF ByteOf, Lsr, Uxtb, Bits
<1>7. ASSUME NEW k \in 0..1 PROVE ByteOf(w, k) = u
  <2>1. \A b \in 0..7 : b + 8 * k \in 0..15 /\ (b + 8 * k) % 8 = b /\ b \in Bits
    BY DEF Bits
  <2>2. \A b : b \in ByteOf(w, k) <=> b \in 0..7 /\ b + 8 * k \in w
    BY <2>1 DEF ByteOf, Lsr, Uxtb
  <2>3. \A b : b \in ByteOf(w, k) <=> b \in u
    BY <1>1, <1>2, <2>1, <2>2
  <2>4. QED BY <2>3
<1>8. ASSUME NEW k \in 0..3 PROVE ByteOf(p, k) = u
  <2>1. \A b \in 0..7 : b + 8 * k \in Bits /\ (b + 8 * k) % 8 = b /\ b \in Bits
    BY DEF Bits
  <2>2. \A b : b \in ByteOf(p, k) <=> b \in 0..7 /\ b + 8 * k \in p
    BY <2>1 DEF ByteOf, Lsr, Uxtb
  <2>3. \A b : b \in ByteOf(p, k) <=> b \in u
    BY <1>1, <1>5, <2>1, <2>2
  <2>4. QED BY <2>3
<1>9. QED BY <1>6, <1>7, <1>8 DEF u, w, p

(* memcpy is right, and so is memcpy44. *)
LEMMA CopyStep ==
  ASSUME Copy
  PROVE  MemoryRight'
<1>1. PICK dst \in Offsets, src \in Offsets, n \in Lengths :
        \/ call' = [routine |-> "memcpy", dst |-> dst, src |-> src, n |-> n,
                    accesses |-> __memcpy(dst, src, n)]
        \/ /\ dst = 0 /\ src = 0
           /\ call' = [routine |-> "memcpy", dst |-> 0, src |-> 0, n |-> n,
                       accesses |-> __memcpy_44(n)]
  BY DEF Copy
<1>2. dst \in Nat /\ src \in Nat /\ n \in Nat
  BY LengthsAssumption DEF Offsets
<1>3. ASSUME NEW A, Tiles(A, 0, n), AlignedAt(A, dst), AlignedAt(A, src),
             call' = [routine |-> "memcpy", dst |-> dst, src |-> src, n |-> n, accesses |-> A]
      PROVE  MemoryRight'
  <2>1. Covers(A, n)
    BY <1>2, <1>3, TilesCover
  <2>2. /\ call'.routine = "memcpy" /\ call'.dst = dst /\ call'.src = src /\ call'.n = n
        /\ call'.accesses = A
    BY <1>3
  <2>3. QED BY <1>3, <2>1, <2>2 DEF MemoryRight
<1>4. Tiles(Bytewise(n), 0, n) /\ AlignedAt(Bytewise(n), dst) /\ AlignedAt(Bytewise(n), src)
  BY <1>2, BytewiseRight
<1>5. CASE n < 8 \/ dst % 4 # src % 4
  <2>1. __memcpy(dst, src, n) = Bytewise(n)
    BY <1>5 DEF __memcpy
  <2>2. CASE call' = [routine |-> "memcpy", dst |-> dst, src |-> src, n |-> n,
                      accesses |-> __memcpy(dst, src, n)]
    BY <1>3, <1>4, <2>1, <2>2
  <2>3. CASE /\ dst = 0 /\ src = 0
             /\ call' = [routine |-> "memcpy", dst |-> 0, src |-> 0, n |-> n,
                         accesses |-> __memcpy_44(n)]
    <3>1. __memcpy_44(n) = Bytewise(n)
      BY <1>5, <2>3 DEF __memcpy_44
    <3>2. QED BY <1>3, <1>4, <2>3, <3>1
  <2>4. QED BY <1>1, <2>2, <2>3
<1>6. CASE ~(n < 8 \/ dst % 4 # src % 4)
  <2>1. n >= 8 /\ dst % 4 = src % 4
    BY <1>2, <1>6
  <2>2. CASE call' = [routine |-> "memcpy", dst |-> dst, src |-> src, n |-> n,
                      accesses |-> __memcpy(dst, src, n)]
    <3>1. __memcpy(dst, src, n) = Adjusted(dst, n)
      BY <1>6 DEF __memcpy
    <3>2. Tiles(Adjusted(dst, n), 0, n) /\ AlignedAt(Adjusted(dst, n), dst)
      BY <1>2, <2>1, AdjustedRight
    <3>3. AlignedAt(Adjusted(dst, n), src)
      BY <1>2, <2>1, <3>2, SameAlignment
    <3>4. QED BY <1>3, <2>2, <3>1, <3>2, <3>3
  <2>3. CASE /\ dst = 0 /\ src = 0
             /\ call' = [routine |-> "memcpy", dst |-> 0, src |-> 0, n |-> n,
                         accesses |-> __memcpy_44(n)]
    <3>1. __memcpy_44(n) = Aligned(0, n)
      BY <1>6 DEF __memcpy_44
    <3>2. Tiles(Aligned(0, n), 0, n) /\ AlignedAt(Aligned(0, n), 0)
      <4>1. (0 + 0) % 4 = 0 /\ 0 + n = n
        BY <1>2
      <4>2. QED BY <1>2, <4>1, AlignedTiles, AlignedAligned
    <3>3. QED BY <1>3, <2>3, <3>1, <3>2
  <2>4. QED BY <1>1, <2>2, <2>3
<1>7. QED BY <1>5, <1>6

(* memset is right, and so is memset4. *)
LEMMA FillStep ==
  ASSUME Fill
  PROVE  MemoryRight'
<1>1. PICK dst \in Offsets, n \in Lengths, c \in Fillers :
        \/ call' = [routine |-> "memset", dst |-> dst, n |-> n, c |-> c,
                    stored |-> [a \in __memset(dst, n) |-> Stored(c, dst, n, a)]]
        \/ /\ dst = 0
           /\ call' = [routine |-> "memset", dst |-> 0, n |-> n, c |-> c,
                       stored |-> [a \in __memset_4(n) |-> Pattern(c)]]
  BY DEF Fill
<1>2. dst \in Nat /\ n \in Nat /\ c \in SUBSET Bits
  BY LengthsAssumption DEF Offsets, Fillers, Bits
<1>3. ASSUME NEW A, NEW stored, DOMAIN stored = A, Tiles(A, 0, n), AlignedAt(A, dst),
             \A a \in A, k \in 0..3 : k < a.width => ByteOf(stored[a], k) = Uxtb(c),
             call' = [routine |-> "memset", dst |-> dst, n |-> n, c |-> c, stored |-> stored]
      PROVE  MemoryRight'
  <2>1. Covers(A, n)
    BY <1>2, <1>3, TilesCover
  <2>2. /\ call'.routine = "memset" /\ call'.dst = dst /\ call'.n = n /\ call'.c = c
        /\ call'.stored = stored
    BY <1>3
  <2>3. QED BY <1>3, <2>1, <2>2 DEF MemoryRight
<1>4. CASE call' = [routine |-> "memset", dst |-> dst, n |-> n, c |-> c,
                    stored |-> [a \in __memset(dst, n) |-> Stored(c, dst, n, a)]]
  <2> DEFINE A == __memset(dst, n)
  <2> DEFINE stored == [a \in A |-> Stored(c, dst, n, a)]
  <2>1. /\ Tiles(A, 0, n) /\ AlignedAt(A, dst)
        /\ \A a \in A : IF n < 8 \/ a.at < HeadByte(dst) THEN a.width = 1
                        ELSE a.at < HeadLength(dst) => a.width = 2
    <3>1. CASE n < 8
      BY <1>2, <3>1, BytewiseRight DEF __memset
    <3>2. CASE ~(n < 8)
      <4>1. n >= 8
        BY <1>2, <3>2
      <4>2. A = Adjusted(dst, n)
        BY <3>2 DEF __memset
      <4>3. QED BY <1>2, <3>2, <4>1, <4>2, AdjustedRight
    <3>3. QED BY <3>1, <3>2
  <2> HIDE DEF A
  <2>2. ASSUME NEW a \in A, NEW k \in 0..3, k < a.width
        PROVE  ByteOf(Stored(c, dst, n, a), k) = Uxtb(c)
    <3>1. CASE n < 8 \/ a.at < HeadByte(dst)
      <4>1. Stored(c, dst, n, a) = c
        BY <3>1 DEF Stored
      <4>2. a.width = 1
        BY <2>1, <3>1
      <4>3. k = 0
        BY <2>2, <4>2
      <4>4. QED BY <1>2, <4>1, <4>3, BytesStored
    <3>2. CASE ~(n < 8 \/ a.at < HeadByte(dst)) /\ a.at < HeadLength(dst)
      <4>1. Stored(c, dst, n, a) = Halfword(c)
        BY <3>2 DEF Stored
      <4>2. a.width = 2
        BY <2>1, <3>2
      <4>3. k \in 0..1
        BY <2>2, <4>2
      <4>4. QED BY <1>2, <4>1, <4>3, BytesStored
    <3>3. CASE ~(n < 8 \/ a.at < HeadByte(dst)) /\ ~(a.at < HeadLength(dst))
      <4>1. Stored(c, dst, n, a) = Pattern(c)
        BY <3>3 DEF Stored
      <4>2. QED BY <1>2, <4>1, BytesStored
    <3>4. QED BY <3>1, <3>2, <3>3
  <2>3. \A a \in A, k \in 0..3 : k < a.width => ByteOf(stored[a], k) = Uxtb(c)
    BY <2>2
  <2>4. DOMAIN stored = A
    OBVIOUS
  <2>5. call' = [routine |-> "memset", dst |-> dst, n |-> n, c |-> c, stored |-> stored]
    BY <1>4 DEF A
  <2> HIDE DEF stored
  <2>6. QED BY <1>3, <2>1, <2>3, <2>4, <2>5
<1>5. CASE /\ dst = 0
           /\ call' = [routine |-> "memset", dst |-> 0, n |-> n, c |-> c,
                       stored |-> [a \in __memset_4(n) |-> Pattern(c)]]
  <2> DEFINE A == __memset_4(n)
  <2> DEFINE stored == [a \in A |-> Pattern(c)]
  <2>1. Tiles(A, 0, n) /\ AlignedAt(A, dst)
    <3>1. (0 + 0) % 4 = 0 /\ 0 + n = n
      BY <1>2
    <3>2. QED BY <1>2, <1>5, <3>1, AlignedTiles, AlignedAligned DEF __memset_4
  <2> HIDE DEF A
  <2>2. \A a \in A, k \in 0..3 : ByteOf(stored[a], k) = Uxtb(c)
    BY <1>2, BytesStored
  <2>3. DOMAIN stored = A
    OBVIOUS
  <2>4. call' = [routine |-> "memset", dst |-> dst, n |-> n, c |-> c, stored |-> stored]
    BY <1>5 DEF A
  <2> HIDE DEF stored
  <2>5. QED BY <1>3, <2>1, <2>2, <2>3, <2>4
<1>6. QED BY <1>1, <1>4, <1>5

(* No other routine disturbs MemoryRight. *)
LEMMA MemoryStep ==
  ASSUME MemoryRight, TextInv, [RomNext]_call
  PROVE  MemoryRight'
<1>1. CASE Copy
  BY <1>1, CopyStep
<1>2. CASE Fill
  BY <1>2, FillStep
<1>3. ASSUME call'.routine \notin {"memcpy", "memset"}
      PROVE  MemoryRight'
  BY <1>3 DEF MemoryRight
<1>4. CASE CountBits
  BY <1>3, <1>4 DEF CountBits
<1>5. CASE Checksum
  BY <1>3, <1>5 DEF Checksum
<1>6. CASE Dump
  BY <1>3, <1>6 DEF Dump
<1>7. CASE Return
  BY <1>3, <1>7 DEF Return, Idle
<1>8. CASE Compress \/ CompressText \/ CheckText \/ ShowText
  BY <1>3, <1>8, WayStep
<1>9. CASE UNCHANGED call
  BY <1>9 DEF MemoryRight
<1>10. QED
  BY <1>1, <1>2, <1>4, <1>5, <1>6, <1>7, <1>8, <1>9 DEF RomNext

(* memcpy and memset touch each byte of their buffers once and none outside,
   with aligned accesses only, for every length. *)
THEOREM MemoryAlwaysRight == RomSpec => []MemoryRight
<1>1. RomInit => TextInv /\ MemoryRight
  BY DEF RomInit, Idle, TextInv, MemoryRight
<1>2. TextInv /\ MemoryRight /\ [RomNext]_call => (TextInv /\ MemoryRight)'
  BY TextStep, MemoryStep
<1>3. QED BY <1>1, <1>2, PTL DEF RomSpec

-----------------------------------------------------------------------------
(*****************************************************************************)
(* Part 4: the text of the dump.                                             *)
(*****************************************************************************)

(* A character of the dump for a byte *)
Printable(c) == IF Space <= c /\ c <= Tilde THEN c ELSE Dot

(* What is in a column of a line of the dump. *)
Column(address, mem, l, c) ==
  LET h == (c - 6) \div 5
      r == (c - 6) % 5
  IN  IF c < 5 THEN Digit(Nibble(address + 16 * l, 4 - c))
      ELSE IF c = 5 \/ c = 46 THEN Space
      ELSE IF c < 46 THEN IF r < 2 THEN Digit(Nibble(mem[16 * l + 2 * h], 1 - r))
                          ELSE IF r < 4 THEN Digit(Nibble(mem[16 * l + 2 * h + 1], 3 - r))
                          ELSE Space
      ELSE IF c < 63 THEN Printable(mem[16 * l + (c - 47)])
      ELSE Newline

(* A line writes to its 64 columns, and there what Column says... *)
LEMMA LineRange ==
  ASSUME NEW address \in Nat, NEW mem, NEW l \in 0..7, NEW w \in XxdLine(l, address, mem)
  PROVE  \E c \in 0..63 : w = <<64 * l + c, Column(address, mem, l, c)>>
<1> DEFINE at == 64 * l
<1>1. at \in Nat
  OBVIOUS
<1>2. \/ w \in Hex(at, address + 16 * l, 5)
      \/ w = <<at + 5, Space>>
      \/ w \in Bytes(at, mem, 16 * l)
      \/ w = <<at + 46, Space>>
      \/ w \in Ascii(at, mem, 16 * l)
      \/ w = <<at + 63, Newline>>
  BY DEF XxdLine
<1> HIDE DEF at
<1>3. CASE w \in Hex(at, address + 16 * l, 5)
  <2>1. PICK i \in 0..4 : w = <<at + i, Digit(Nibble(address + 16 * l, 4 - i))>>
    BY <1>3 DEF Hex
  <2>2. Column(address, mem, l, i) = Digit(Nibble(address + 16 * l, 4 - i))
    BY DEF Column
  <2>3. i \in 0..63
    OBVIOUS
  <2>4. QED BY <2>1, <2>2, <2>3 DEF at
<1>4. CASE w = <<at + 5, Space>>
  <2>1. Column(address, mem, l, 5) = Space
    BY DEF Column
  <2>2. QED BY <1>4, <2>1 DEF at
<1>5. CASE w \in Bytes(at, mem, 16 * l)
  <2>1. PICK h \in 0..7 :
          \/ w \in Hex(at + 5 * h + 6, mem[16 * l + 2 * h], 2)
          \/ w \in Hex(at + 5 * h + 8, mem[16 * l + 2 * h + 1], 2)
          \/ w = <<at + 5 * h + 10, Space>>
    BY <1>5 DEF Bytes
  <2>2. CASE w \in Hex(at + 5 * h + 6, mem[16 * l + 2 * h], 2)
    <3>1. PICK i \in 0..1 : w = <<at + 5 * h + 6 + i, Digit(Nibble(mem[16 * l + 2 * h], 1 - i))>>
      BY <2>2 DEF Hex
    <3> DEFINE c == 5 * h + 6 + i
    <3>2. /\ c \in 6..45 /\ (c - 6) \div 5 = h /\ (c - 6) % 5 = i /\ at + 5 * h + 6 + i = at + c
          /\ i < 2
      BY <1>1
    <3> HIDE DEF c
    <3>3. Column(address, mem, l, c) = Digit(Nibble(mem[16 * l + 2 * h], 1 - i))
      BY <3>2 DEF Column
    <3>4. c \in 0..63
      BY <3>2
    <3>5. QED BY <3>1, <3>2, <3>3, <3>4 DEF at
  <2>3. CASE w \in Hex(at + 5 * h + 8, mem[16 * l + 2 * h + 1], 2)
    <3>1. PICK i \in 0..1 : w = <<at + 5 * h + 8 + i, Digit(Nibble(mem[16 * l + 2 * h + 1], 1 - i))>>
      BY <2>3 DEF Hex
    <3> DEFINE c == 5 * h + 8 + i
    <3> DEFINE r == 2 + i
    <3>2. /\ c \in 6..45 /\ (c - 6) \div 5 = h /\ (c - 6) % 5 = r /\ at + 5 * h + 8 + i = at + c
          /\ ~(r < 2) /\ r < 4 /\ 3 - r = 1 - i
      BY <1>1
    <3> HIDE DEF c, r
    <3>3. Column(address, mem, l, c) = Digit(Nibble(mem[16 * l + 2 * h + 1], 3 - r))
      BY <3>2 DEF Column
    <3>4. c \in 0..63
      BY <3>2
    <3>5. QED BY <3>1, <3>2, <3>3, <3>4 DEF at
  <2>4. CASE w = <<at + 5 * h + 10, Space>>
    <3> DEFINE c == 5 * h + 10
    <3>1. c \in 6..45 /\ (c - 6) % 5 = 4 /\ at + 5 * h + 10 = at + c
      BY <1>1
    <3> HIDE DEF c
    <3>2. Column(address, mem, l, c) = Space
      BY <3>1 DEF Column
    <3>3. c \in 0..63
      BY <3>1
    <3>4. QED BY <2>4, <3>1, <3>2, <3>3 DEF at
  <2>5. QED BY <2>1, <2>2, <2>3, <2>4
<1>6. CASE w = <<at + 46, Space>>
  <2>1. Column(address, mem, l, 46) = Space
    BY DEF Column
  <2>2. QED BY <1>6, <2>1 DEF at
<1>7. CASE w \in Ascii(at, mem, 16 * l)
  <2>1. PICK b \in 0..15 : w = <<at + 47 + b, Printable(mem[16 * l + b])>>
    BY <1>7 DEF Ascii, Printable
  <2> DEFINE c == 47 + b
  <2>2. c \in 47..62 /\ at + 47 + b = at + c /\ c - 47 = b
    BY <1>1
  <2> HIDE DEF c
  <2>3. Column(address, mem, l, c) = Printable(mem[16 * l + b])
    BY <2>2 DEF Column
  <2>4. c \in 0..63
    BY <2>2
  <2>5. QED BY <2>1, <2>2, <2>3, <2>4 DEF at
<1>8. CASE w = <<at + 63, Newline>>
  <2>1. Column(address, mem, l, 63) = Newline
    BY DEF Column
  <2>2. QED BY <1>8, <2>1 DEF at
<1>9. QED BY <1>2, <1>3, <1>4, <1>5, <1>6, <1>7, <1>8

(* ...and it writes to each of them. *)
LEMMA LineFull ==
  ASSUME NEW address \in Nat, NEW mem, NEW l \in 0..7, NEW c \in 0..63
  PROVE  <<64 * l + c, Column(address, mem, l, c)>> \in XxdLine(l, address, mem)
<1> DEFINE at == 64 * l
<1> DEFINE w == <<at + c, Column(address, mem, l, c)>>
<1>1. at \in Nat
  OBVIOUS
<1> HIDE DEF at
<1>2. CASE c < 5
  <2>1. Column(address, mem, l, c) = Digit(Nibble(address + 16 * l, 4 - c))
    BY <1>2 DEF Column
  <2>2. c \in 0..4
    BY <1>2
  <2>3. w \in Hex(at, address + 16 * l, 5)
    BY <2>1, <2>2 DEF Hex
  <2>4. QED BY <2>3 DEF XxdLine, at
<1>3. CASE c = 5
  <2>1. w = <<at + 5, Space>>
    BY <1>3 DEF Column
  <2>2. QED BY <2>1 DEF XxdLine, at
<1>4. CASE c \in 6..45
  <2> DEFINE h == (c - 6) \div 5
  <2> DEFINE r == (c - 6) % 5
  <2>1. h \in 0..7 /\ r \in 0..4 /\ c = 5 * h + 6 + r
    BY <1>4
  <2>2. Column(address, mem, l, c) =
          IF r < 2 THEN Digit(Nibble(mem[16 * l + 2 * h], 1 - r))
          ELSE IF r < 4 THEN Digit(Nibble(mem[16 * l + 2 * h + 1], 3 - r))
          ELSE Space
    BY <1>4 DEF Column
  <2> HIDE DEF h, r
  <2>3. CASE r < 2
    <3>1. r \in 0..1 /\ at + c = at + 5 * h + 6 + r
      BY <1>1, <2>1, <2>3
    <3>2. w \in Hex(at + 5 * h + 6, mem[16 * l + 2 * h], 2)
      BY <2>2, <2>3, <3>1 DEF Hex
    <3>3. w \in Bytes(at, mem, 16 * l)
      BY <2>1, <3>2 DEF Bytes
    <3>4. QED BY <3>3 DEF XxdLine, at
  <2>4. CASE r \in 2..3
    <3> DEFINE i == r - 2
    <3>1. /\ i \in 0..1 /\ at + c = at + 5 * h + 8 + i /\ 3 - r = 1 - i
          /\ ~(r < 2) /\ r < 4
      BY <1>1, <2>1, <2>4
    <3> HIDE DEF i
    <3>2. w \in Hex(at + 5 * h + 8, mem[16 * l + 2 * h + 1], 2)
      BY <2>2, <3>1 DEF Hex
    <3>3. w \in Bytes(at, mem, 16 * l)
      BY <2>1, <3>2 DEF Bytes
    <3>4. QED BY <3>3 DEF XxdLine, at
  <2>5. CASE r = 4
    <3>1. at + c = at + 5 * h + 10
      BY <1>1, <2>1, <2>5
    <3>2. w = <<at + 5 * h + 10, Space>>
      BY <2>2, <2>5, <3>1
    <3>3. w \in Bytes(at, mem, 16 * l)
      BY <2>1, <3>2 DEF Bytes
    <3>4. QED BY <3>3 DEF XxdLine, at
  <2>6. QED BY <2>1, <2>3, <2>4, <2>5
<1>5. CASE c = 46
  <2>1. w = <<at + 46, Space>>
    BY <1>5 DEF Column
  <2>2. QED BY <2>1 DEF XxdLine, at
<1>6. CASE c \in 47..62
  <2> DEFINE b == c - 47
  <2>1. b \in 0..15 /\ at + c = at + 47 + b
    BY <1>1, <1>6
  <2>2. Column(address, mem, l, c) = Printable(mem[16 * l + b])
    BY <1>6 DEF Column
  <2> HIDE DEF b
  <2>3. w \in Ascii(at, mem, 16 * l)
    BY <2>1, <2>2 DEF Ascii, Printable
  <2>4. QED BY <2>3 DEF XxdLine, at
<1>7. CASE c = 63
  <2>1. w = <<at + 63, Newline>>
    BY <1>7 DEF Column
  <2>2. QED BY <2>1 DEF XxdLine, at
<1>8. QED BY <1>2, <1>3, <1>4, <1>5, <1>6, <1>7

(* What is at a position of the sector. *)
Shows(address, mem, p) == Column(address, mem, p \div 64, p % 64)

(* The writes to a sector are one to each of its 512 places. *)
LEMMA SectorWritten ==
  ASSUME NEW address \in Nat, NEW mem
  PROVE  Xxd(address, mem) = {<<p, Shows(address, mem, p)>> : p \in 0..511}
<1>1. ASSUME NEW w \in Xxd(address, mem)
      PROVE  \E p \in 0..511 : w = <<p, Shows(address, mem, p)>>
  <2>1. PICK l \in 0..7 : w \in XxdLine(l, address, mem)
    BY DEF Xxd
  <2>2. PICK c \in 0..63 : w = <<64 * l + c, Column(address, mem, l, c)>>
    BY <2>1, LineRange
  <2> DEFINE p == 64 * l + c
  <2>3. p \in 0..511 /\ p \div 64 = l /\ p % 64 = c
    OBVIOUS
  <2> HIDE DEF p
  <2>4. Shows(address, mem, p) = Column(address, mem, l, c)
    BY <2>3 DEF Shows
  <2>5. w = <<p, Shows(address, mem, p)>>
    BY <2>2, <2>4 DEF p
  <2>6. QED BY <2>3, <2>5
<1>2. ASSUME NEW p \in 0..511
      PROVE  <<p, Shows(address, mem, p)>> \in Xxd(address, mem)
  <2> DEFINE l == p \div 64
  <2> DEFINE c == p % 64
  <2>1. l \in 0..7 /\ c \in 0..63 /\ p = 64 * l + c
    OBVIOUS
  <2>2. Shows(address, mem, p) = Column(address, mem, l, c)
    BY DEF Shows
  <2> HIDE DEF l, c
  <2>3. <<64 * l + c, Column(address, mem, l, c)>> \in XxdLine(l, address, mem)
    BY <2>1, LineFull
  <2>4. <<p, Shows(address, mem, p)>> \in XxdLine(l, address, mem)
    BY <2>1, <2>2, <2>3
  <2>5. QED BY <2>1, <2>4 DEF Xxd
<1>3. QED BY <1>1, <1>2

(* The pairs of a function *)
PairsOf(f, D) == {<<p, f[p]>> : p \in D}

(* There are as many pairs as arguments. *)
LEMMA Graph ==
  ASSUME NEW n \in Nat, NEW f
  PROVE  Cardinality(PairsOf(f, 0..n)) = n + 1
<1> DEFINE S == 0..n
<1> DEFINE T == PairsOf(f, S)
<1> DEFINE g == [p \in S |-> <<p, f[p]>>]
<1>1. IsFiniteSet(S) /\ Cardinality(S) = n + 1
  <2>1. 0 \in Int /\ n \in Int /\ ~(0 > n) /\ n - 0 + 1 = n + 1
    OBVIOUS
  <2>2. QED BY <2>1, FS_Interval
<1> HIDE DEF S
<1>2. g \in Bijection(S, T)
  BY DEF PairsOf, Bijection, Injection, Surjection, IsInjective
<1>3. ExistsBijection(S, T)
  BY <1>2 DEF ExistsBijection
<1>4. Cardinality(T) = Cardinality(S)
  BY <1>1, <1>3, FS_Bijection
<1>5. QED BY <1>1, <1>4 DEF S

(* A hexit reads back as the nibble it shows. *)
LEMMA HexitOfDigit ==
  ASSUME NEW x \in 0..15
  PROVE  Hexit(Digit(x)) = x /\ Digit(x) \in Int
<1>1. CASE x < 10
  <2>1. Digit(x) = 48 + x /\ 48 + x < 58
    BY <1>1 DEF Digit
  <2>2. QED BY <2>1 DEF Hexit
<1>2. CASE ~(x < 10)
  <2>1. Digit(x) = 97 + x - 10 /\ ~(97 + x - 10 < 58)
    BY <1>2 DEF Digit
  <2>2. QED BY <1>2, <2>1 DEF Hexit
<1>3. QED BY <1>1, <1>2

(* A nibble is below 16. *)
LEMMA NibbleRange ==
  ASSUME NEW word \in Nat, NEW k \in 0..4
  PROVE  Nibble(word, k) \in 0..15
<1>1. /\ (word \div 1) % 16 \in 0..15 /\ (word \div 16) % 16 \in 0..15
      /\ (word \div 256) % 16 \in 0..15 /\ (word \div 4096) % 16 \in 0..15
      /\ (word \div 65536) % 16 \in 0..15
  BY SMT
<1>2. k = 0 \/ k = 1 \/ k = 2 \/ k = 3 \/ k = 4
  BY SMT
<1>3. QED BY <1>1, <1>2, SMT DEF Nibble

(* Five nibbles make up the lowest 20 bits of a word, two make up a byte. *)
LEMMA SumOfNibbles ==
  ASSUME NEW word \in Nat
  PROVE  /\ 65536 * Nibble(word, 4) + 4096 * Nibble(word, 3) + 256 * Nibble(word, 2)
              + 16 * Nibble(word, 1) + Nibble(word, 0) = FiveHexits(word)
         /\ word < 256 => 16 * Nibble(word, 1) + Nibble(word, 0) = word
<1> DEFINE a == word \div 16
<1> DEFINE n0 == word % 16
<1> DEFINE b == a \div 16
<1> DEFINE n1 == a % 16
<1> DEFINE c == b \div 16
<1> DEFINE n2 == b % 16
<1> DEFINE d == c \div 16
<1> DEFINE n3 == c % 16
<1> DEFINE e == d \div 16
<1> DEFINE n4 == d % 16
<1>1. a \in Nat /\ n0 \in 0..15 /\ word = 16 * a + n0 /\ word \div 16 = a /\ word % 16 = n0
  BY SMT
<1> HIDE DEF a, n0
<1>2. b \in Nat /\ n1 \in 0..15 /\ a = 16 * b + n1 /\ a \div 16 = b /\ a % 16 = n1
  BY <1>1, SMT
<1> HIDE DEF b, n1
<1>3. c \in Nat /\ n2 \in 0..15 /\ b = 16 * c + n2 /\ b \div 16 = c /\ b % 16 = n2
  BY <1>2, SMT
<1> HIDE DEF c, n2
<1>4. d \in Nat /\ n3 \in 0..15 /\ c = 16 * d + n3 /\ c \div 16 = d /\ c % 16 = n3
  BY <1>3, SMT
<1> HIDE DEF d, n3
<1>5. e \in Nat /\ n4 \in 0..15 /\ d = 16 * e + n4 /\ d \div 16 = e /\ d % 16 = n4
  BY <1>4, SMT
<1> HIDE DEF e, n4
<1>6. Nibble(word, 0) = n0 /\ Nibble(word, 1) = n1
  <2>1. word \div 1 = word
    BY SMT
  <2>2. QED BY <1>1, <1>2, <2>1, SMT DEF Nibble
<1>7. Nibble(word, 2) = n2
  <2> DEFINE r == 16 * n1 + n0
  <2>1. word = 256 * b + r /\ r < 256 /\ r \in Nat
    BY <1>1, <1>2, SMT
  <2> HIDE DEF r
  <2>2. word \div 256 = b
    BY <1>1, <1>2, <1>3, <1>4, <2>1, SMT
  <2>3. QED BY <1>3, <2>2, SMT DEF Nibble
<1>8. Nibble(word, 3) = n3
  <2> DEFINE r == 256 * n2 + 16 * n1 + n0
  <2>1. word = 4096 * c + r /\ r < 4096 /\ r \in Nat
    BY <1>1, <1>2, <1>3, SMT
  <2> HIDE DEF r
  <2>2. word \div 4096 = c
    BY <1>1, <1>2, <1>3, <1>4, <2>1, SMT
  <2>3. QED BY <1>4, <2>2, SMT DEF Nibble
<1>9. Nibble(word, 4) = n4
  <2> DEFINE r == 4096 * n3 + 256 * n2 + 16 * n1 + n0
  <2>1. word = 65536 * d + r /\ r < 65536 /\ r \in Nat
    BY <1>1, <1>2, <1>3, <1>4, SMT
  <2> HIDE DEF r
  <2>2. word \div 65536 = d
    BY <1>1, <1>2, <1>3, <1>4, <2>1, SMT
  <2>3. QED BY <1>5, <2>2, SMT DEF Nibble
<1> DEFINE r == 65536 * n4 + 4096 * n3 + 256 * n2 + 16 * n1 + n0
<1>10. word = 1048576 * e + r /\ r < 1048576 /\ r \in Nat
  BY <1>1, <1>2, <1>3, <1>4, <1>5, SMT
<1> HIDE DEF r
<1>11. word % 1048576 = r
  BY <1>5, <1>10, SMT
<1>12. word < 256 => 16 * n1 + n0 = word
  BY <1>1, <1>2, SMT
<1>13. QED BY <1>6, <1>7, <1>8, <1>9, <1>11, <1>12, SMT DEF r, FiveHexits

(* The text is the sector. *)
IsSector(text, address, mem) == \A p \in 0..511 : text[p] = Shows(address, mem, p)

(* The sector as the reader sees it reads back as the memory and its address. *)
LEMMA SectorReads ==
  ASSUME NEW address \in Nat, NEW mem \in [0..127 -> 0..255], NEW text,
         IsSector(text, address, mem)
  PROVE  /\ \A l \in 0..7 : ReadAddress(text, l) = FiveHexits(address + 16 * l)
         /\ \A i \in 0..127 : ReadByte(text, i) = mem[i]
<1>1. ASSUME NEW l \in 0..7
      PROVE  ReadAddress(text, l) = FiveHexits(address + 16 * l)
  <2> DEFINE word == address + 16 * l
  <2>1. word \in Nat
    BY SMT
  <2>2. ASSUME NEW i \in 0..4
        PROVE  Hexit(text[64 * l + i]) = Nibble(word, 4 - i)
    <3> DEFINE p == 64 * l + i
    <3>1. p \in 0..511 /\ p \div 64 = l /\ p % 64 = i
      BY SMT
    <3> HIDE DEF p
    <3>2. text[p] = Digit(Nibble(word, 4 - i))
      <4>1. text[p] = Column(address, mem, l, i)
        BY <3>1 DEF IsSector, Shows
      <4>2. Column(address, mem, l, i) = Digit(Nibble(word, 4 - i))
        BY DEF Column
      <4>3. QED BY <4>1, <4>2
    <3>3. 4 - i \in 0..4
      BY SMT
    <3> HIDE DEF word
    <3>4. Nibble(word, 4 - i) \in 0..15
      BY <2>1, <3>3, NibbleRange
    <3>5. QED BY <3>2, <3>4, HexitOfDigit, SMT DEF p
  <2> HIDE DEF word
  <2>3. /\ Hexit(text[64 * l + 0]) = Nibble(word, 4) /\ Hexit(text[64 * l + 1]) = Nibble(word, 3)
        /\ Hexit(text[64 * l + 2]) = Nibble(word, 2) /\ Hexit(text[64 * l + 3]) = Nibble(word, 1)
        /\ Hexit(text[64 * l + 4]) = Nibble(word, 0)
    BY <2>2, SMT
  <2>4. ReadAddress(text, l) =
          65536 * Nibble(word, 4) + 4096 * Nibble(word, 3) + 256 * Nibble(word, 2)
            + 16 * Nibble(word, 1) + Nibble(word, 0)
    BY <2>3, SMT DEF ReadAddress
  <2>5. ReadAddress(text, l) = FiveHexits(word)
    BY <2>1, <2>4, SumOfNibbles, SMT
  <2>6. QED BY <2>5, SMT DEF word
<1>2. ASSUME NEW i \in 0..127
      PROVE  ReadByte(text, i) = mem[i]
  <2> DEFINE l == i \div 16
  <2> DEFINE h == (i % 16) \div 2
  <2> DEFINE q == i % 2
  <2> DEFINE c == 6 + 5 * h + 2 * q
  <2> DEFINE at == 64 * l + c
  <2>1. l \in 0..7 /\ h \in 0..7 /\ q \in 0..1 /\ i = 16 * l + 2 * h + q
    BY SMT
  <2>2. 64 * (i \div 16) + 6 + 2 * (i % 16) + ((i % 16) \div 2) = at
    BY SMT
  <2> HIDE DEF l, h, q
  <2>3. /\ c \in 6..44 /\ (c - 6) \div 5 = h /\ (c - 6) % 5 = 2 * q
        /\ (c + 1 - 6) \div 5 = h /\ (c + 1 - 6) % 5 = 2 * q + 1
    BY <2>1, SMT
  <2>4. /\ at \in 0..511 /\ at \div 64 = l /\ at % 64 = c
        /\ at + 1 \in 0..511 /\ (at + 1) \div 64 = l /\ (at + 1) % 64 = c + 1
    BY <2>1, <2>3, SMT
  <2> HIDE DEF c, at
  <2>5. mem[i] \in 0..255
    BY SMT
  <2>6. text[at] = Digit(Nibble(mem[i], 1)) /\ text[at + 1] = Digit(Nibble(mem[i], 0))
    <3> DEFINE k == c + 1
    <3>1. /\ ~(c < 5) /\ ~(c = 5 \/ c = 46) /\ c < 46
          /\ ~(k < 5) /\ ~(k = 5 \/ k = 46) /\ k < 46
      BY <2>3, SMT
    <3>2. text[at] = Column(address, mem, l, c) /\ text[at + 1] = Column(address, mem, l, k)
      <4>1. text[at] = Shows(address, mem, at) /\ text[at + 1] = Shows(address, mem, at + 1)
        BY <2>4 DEF IsSector
      <4>2. QED BY <2>4, <4>1 DEF Shows
    <3>3. (k - 6) \div 5 = h /\ (k - 6) % 5 = 2 * q + 1
      BY <2>3
    <3> HIDE DEF k
    <3>4. CASE q = 0
      <4>1. i = 16 * l + 2 * h /\ 2 * q < 2 /\ 2 * q + 1 < 2 /\ 1 - 2 * q = 1 /\ 1 - (2 * q + 1) = 0
        BY <2>1, <3>4, SMT
      <4>2. Column(address, mem, l, c) = Digit(Nibble(mem[16 * l + 2 * h], 1 - 2 * q))
        BY <2>3, <3>1, <4>1 DEF Column
      <4>3. Column(address, mem, l, k) = Digit(Nibble(mem[16 * l + 2 * h], 1 - (2 * q + 1)))
        BY <3>1, <3>3, <4>1 DEF Column
      <4>4. QED BY <3>2, <4>1, <4>2, <4>3
    <3>5. CASE q = 1
      <4>1. /\ i = 16 * l + 2 * h + 1 /\ ~(2 * q < 2) /\ ~(2 * q + 1 < 2) /\ 2 * q < 4 /\ 2 * q + 1 < 4
            /\ 3 - 2 * q = 1 /\ 3 - (2 * q + 1) = 0
        BY <2>1, <3>5, SMT
      <4>2. Column(address, mem, l, c) = Digit(Nibble(mem[16 * l + 2 * h + 1], 3 - 2 * q))
        BY <2>3, <3>1, <4>1 DEF Column
      <4>3. Column(address, mem, l, k) = Digit(Nibble(mem[16 * l + 2 * h + 1], 3 - (2 * q + 1)))
        BY <3>1, <3>3, <4>1 DEF Column
      <4>4. QED BY <3>2, <4>1, <4>2, <4>3
    <3>6. QED BY <2>1, <3>4, <3>5 DEF k
  <2>7. ReadByte(text, i) = 16 * Hexit(text[at]) + Hexit(text[at + 1])
    BY <2>2, SMT DEF ReadByte
  <2> DEFINE byte == mem[i]
  <2>8. byte \in Nat /\ byte < 256 /\ byte = mem[i]
    BY <2>5, SMT
  <2> HIDE DEF byte
  <2>9. Nibble(byte, 1) \in 0..15 /\ Nibble(byte, 0) \in 0..15
    BY <2>8, NibbleRange
  <2>10. Hexit(text[at]) = Nibble(byte, 1) /\ Hexit(text[at + 1]) = Nibble(byte, 0)
    BY <2>6, <2>8, <2>9, HexitOfDigit, SMT
  <2>11. 16 * Nibble(byte, 1) + Nibble(byte, 0) = byte
    BY <2>8, SumOfNibbles, SMT
  <2>12. QED BY <2>7, <2>8, <2>10, <2>11
<1>3. QED BY <1>1, <1>2

(* The pair at an argument is chosen rightly. *)
LEMMA ReadGraph ==
  ASSUME NEW D, NEW f
  PROVE  /\ {w[1] : w \in PairsOf(f, D)} = D
         /\ \A p \in D : (CHOOSE w \in PairsOf(f, D) : w[1] = p)[2] = f[p]
<1> DEFINE S == PairsOf(f, D)
<1>1. \A w \in S : \E p \in D : w = <<p, f[p]>>
  BY DEF PairsOf
<1>2. \A p \in D : <<p, f[p]>> \in S
  BY DEF PairsOf
<1> HIDE DEF S
<1>3. \A p : <<p, f[p]>>[1] = p /\ <<p, f[p]>>[2] = f[p]
  OBVIOUS
<1>4. \A w \in S : w[1] \in D /\ w[2] = f[w[1]]
  BY <1>1
<1>5. {w[1] : w \in S} = D
  BY <1>2, <1>3, <1>4
<1>6. ASSUME NEW p \in D
      PROVE  (CHOOSE w \in S : w[1] = p)[2] = f[p]
  <2>1. \E w \in S : w[1] = p
    BY <1>2, <1>3
  <2> DEFINE w == CHOOSE x \in S : x[1] = p
  <2>2. w \in S /\ w[1] = p
    BY <2>1
  <2> HIDE DEF w
  <2>3. w[2] = f[p]
    BY <1>4, <2>2
  <2>4. QED BY <2>3 DEF w
<1>7. QED BY <1>5, <1>6 DEF S

(* The characters of the sector at address with the memory mem *)
Sector(address, mem) == [p \in 0..511 |-> Shows(address, mem, p)]

(* The writes to a sector are the pairs of that function. *)
LEMMA SectorPairs ==
  ASSUME NEW address \in Nat, NEW mem
  PROVE  Xxd(address, mem) = PairsOf(Sector(address, mem), 0..511)
<1>0. Xxd(address, mem) = {<<p, Shows(address, mem, p)>> : p \in 0..511}
  BY SectorWritten
<1> DEFINE D == 0..511
<1> DEFINE f == Sector(address, mem)
<1>1. Xxd(address, mem) = {<<p, Shows(address, mem, p)>> : p \in D}
  BY <1>0
<1>2. \A p \in D : f[p] = Shows(address, mem, p)
  BY DEF Sector
<1> HIDE DEF D, f
<1>3. {<<p, Shows(address, mem, p)>> : p \in D} = {<<p, f[p]>> : p \in D}
  BY <1>2
<1>4. Xxd(address, mem) = PairsOf(f, D)
  BY <1>1, <1>3 DEF PairsOf
<1>5. QED BY <1>4 DEF D, f

(* What DumpReadsBack says of the writes of a dump *)
ReadsBack(writes, address, mem) ==
  LET text == [p \in 0..511 |-> (CHOOSE w \in writes : w[1] = p)[2]]
  IN  /\ {w[1] : w \in writes} = 0..511
      /\ Cardinality(writes) = 512
      /\ \A l \in 0..7 : ReadAddress(text, l) = FiveHexits(address + 16 * l)
      /\ \A i \in 0..127 : ReadByte(text, i) = mem[i]

(* The dump of any memory at any address reads back. *)
LEMMA DumpRight ==
  ASSUME NEW address \in Nat, NEW mem \in [0..127 -> 0..255]
  PROVE  ReadsBack(Xxd(address, mem), address, mem)
<1> DEFINE writes == Xxd(address, mem)
<1> DEFINE text == [p \in 0..511 |-> (CHOOSE w \in writes : w[1] = p)[2]]
<1> DEFINE sector == Sector(address, mem)
<1> DEFINE D == 0..511
<1>1. writes = PairsOf(sector, D)
  BY SectorPairs
<1> HIDE DEF writes, sector, D
<1>10. \A p \in D : (CHOOSE w \in PairsOf(sector, D) : w[1] = p)[2] = sector[p]
  BY ReadGraph
<1>2. ASSUME NEW p \in 0..511
      PROVE  text[p] = Shows(address, mem, p)
  <2>1. sector[p] = Shows(address, mem, p)
    BY DEF sector, Sector
  <2>2. text[p] = (CHOOSE w \in writes : w[1] = p)[2]
    OBVIOUS
  <2>3. (CHOOSE w \in writes : w[1] = p)[2] = sector[p]
    <3>1. p \in D
      BY DEF D
    <3>2. (CHOOSE w \in PairsOf(sector, D) : w[1] = p)[2] = sector[p]
      BY <3>1, <1>10
    <3>3. QED BY <1>1, <3>2
  <2>4. QED BY <2>1, <2>2, <2>3
<1>3. {w[1] : w \in writes} = 0..511
  <2>1. {w[1] : w \in PairsOf(sector, D)} = D
    BY ReadGraph
  <2>2. QED BY <1>1, <2>1 DEF D
<1>4. Cardinality(writes) = 512
  <2>1. 511 \in Nat /\ 511 + 1 = 512
    OBVIOUS
  <2>2. \A n \in Nat : Cardinality(PairsOf(sector, 0..n)) = n + 1
    BY Graph
  <2>3. QED BY <1>1, <2>1, <2>2 DEF D
<1> HIDE DEF text
<1>5. IsSector(text, address, mem)
  BY <1>2 DEF IsSector
<1>6. /\ \A l \in 0..7 : ReadAddress(text, l) = FiveHexits(address + 16 * l)
      /\ \A i \in 0..127 : ReadByte(text, i) = mem[i]
  BY <1>5, SectorReads
<1>7. QED BY <1>3, <1>4, <1>6 DEF ReadsBack, text, writes

(* A dump is of bytes that read back. *)
LEMMA DumpStep ==
  ASSUME Dump
  PROVE  DumpReadsBack'
<1>1. PICK first \in Memory, address \in Addresses :
        call' = [routine |-> "xxd", address |-> address,
                 mem |-> [i \in 0..127 |-> (first + 3 * i) % 256],
                 writes |-> Xxd(address, [i \in 0..127 |-> (first + 3 * i) % 256])]
  BY DEF Dump
<1> DEFINE mem == [i \in 0..127 |-> (first + 3 * i) % 256]
<1>2. first \in Nat /\ address \in Nat
  BY MemoryAssumption, AddressesAssumption
<1>3. mem \in [0..127 -> 0..255]
  <2>1. ASSUME NEW i \in 0..127
        PROVE  (first + 3 * i) % 256 \in 0..255
    <3> DEFINE x == first + 3 * i
    <3>1. x \in Nat
      BY <1>2
    <3> HIDE DEF x
    <3>2. x % 256 \in 0..255
      BY <3>1
    <3>3. QED BY <3>2 DEF x
  <2>2. QED BY <2>1
<1>4. call' = [routine |-> "xxd", address |-> address, mem |-> mem, writes |-> Xxd(address, mem)]
  BY <1>1
<1> HIDE DEF mem
<1>5. call'.address = address /\ call'.mem = mem /\ call'.writes = Xxd(address, mem)
  BY <1>4
<1>6. ReadsBack(call'.writes, call'.address, call'.mem)
  BY <1>2, <1>3, <1>5, DumpRight
<1>7. QED BY <1>6 DEF DumpReadsBack, ReadsBack

(* No other routine disturbs DumpReadsBack. *)
LEMMA DumpReadsBackStep ==
  ASSUME DumpReadsBack, TextInv, [RomNext]_call
  PROVE  DumpReadsBack'
<1>1. CASE Dump
  BY <1>1, DumpStep
<1>2. ASSUME call'.routine # "xxd"
      PROVE  DumpReadsBack'
  BY <1>2 DEF DumpReadsBack
<1>3. CASE Copy
  BY <1>2, <1>3 DEF Copy
<1>4. CASE Fill
  BY <1>2, <1>4 DEF Fill
<1>5. CASE CountBits
  BY <1>2, <1>5 DEF CountBits
<1>6. CASE Checksum
  BY <1>2, <1>6 DEF Checksum
<1>7. CASE Return
  BY <1>2, <1>7 DEF Return, Idle
<1>8. CASE Compress \/ CompressText \/ CheckText \/ ShowText
  BY <1>2, <1>8, WayStep
<1>9. CASE UNCHANGED call
  <2>1. call.routine = "xxd" => ReadsBack(call.writes, call.address, call.mem)
    BY DEF DumpReadsBack, ReadsBack
  <2>2. call'.routine = "xxd" => ReadsBack(call'.writes, call'.address, call'.mem)
    BY <1>9, <2>1
  <2>3. QED BY <2>2 DEF DumpReadsBack, ReadsBack
<1>10. QED
  BY <1>1, <1>3, <1>4, <1>5, <1>6, <1>7, <1>8, <1>9 DEF RomNext

(* Every sector of the dump is written in full, each place once, and reads
   back as the memory and the addresses it shows. *)
THEOREM DumpsReadBack == RomSpec => []DumpReadsBack
<1>1. RomInit => TextInv /\ DumpReadsBack
  BY DEF RomInit, Idle, TextInv, DumpReadsBack
<1>2. TextInv /\ DumpReadsBack /\ [RomNext]_call => (TextInv /\ DumpReadsBack)'
  BY TextStep, DumpReadsBackStep
<1>3. QED BY <1>1, <1>2, PTL DEF RomSpec

-----------------------------------------------------------------------------
(*****************************************************************************)
(* Part 5: the bit functions and the checksum, for every word and message.   *)
(* First, the tables of six bits.                                            *)
(*****************************************************************************)

(* Bit b of a word, as a binary digit *)
Digit2(w, b) == IF b \in w THEN 1 ELSE 0

(* The number of a word that has ones among its six lowest bits only *)
LEMMA SixBits ==
  ASSUME NEW v \in SUBSET (0..5)
  PROVE  /\ \A b \in 0..5 : Digit2(v, b) \in 0..1 /\ (Digit2(v, b) = 1 <=> b \in v)
         /\ Number(v) = Digit2(v, 0) + 2 * Digit2(v, 1) + 4 * Digit2(v, 2) + 8 * Digit2(v, 3)
                          + 16 * Digit2(v, 4) + 32 * Digit2(v, 5)
<1> DEFINE B(b) == IF b \in v THEN 1 ELSE 0
<1> DEFINE E(g) == g = [b \in Bits |-> IF b = 31 THEN 0 ELSE B(b) + 2 * g[b + 1]]
<1> DEFINE s5 == B(5)
<1> DEFINE s4 == B(4) + 2 * s5
<1> DEFINE s3 == B(3) + 2 * s4
<1> DEFINE s2 == B(2) + 2 * s3
<1> DEFINE s1 == B(1) + 2 * s2
<1> DEFINE s0 == B(0) + 2 * s1
<1> DEFINE f == [b \in Bits |-> IF b = 0 THEN s0 ELSE IF b = 1 THEN s1 ELSE IF b = 2 THEN s2
                   ELSE IF b = 3 THEN s3 ELSE IF b = 4 THEN s4 ELSE IF b = 5 THEN s5 ELSE 0]
<1> DEFINE from == CHOOSE g : E(g)
<1>1. \A b \in Bits : b > 5 => B(b) = 0
  BY DEF Bits
<1>2. \A b \in Bits : B(b) \in 0..1
  OBVIOUS
<1>3. E(f)
  <2>1. ASSUME NEW b \in Bits
        PROVE  f[b] = IF b = 31 THEN 0 ELSE B(b) + 2 * f[b + 1]
    <3>1. CASE b = 0
      BY <3>1 DEF Bits
    <3>2. CASE b = 1
      BY <3>2 DEF Bits
    <3>3. CASE b = 2
      BY <3>3 DEF Bits
    <3>4. CASE b = 3
      BY <3>4 DEF Bits
    <3>5. CASE b = 4
      BY <3>5 DEF Bits
    <3>6. CASE b = 5
      <4>1. f[5] = s5 /\ f[6] = 0
        BY DEF Bits
      <4>2. s5 \in 0..1
        OBVIOUS
      <4> HIDE DEF f
      <4>3. QED BY <3>6, <4>1, <4>2
    <3>7. CASE b > 5
      <4>1. f[b] = 0 /\ (b < 31 => f[b + 1] = 0)
        BY <3>7 DEF Bits
      <4>2. B(b) = 0
        BY <1>1, <3>7
      <4> HIDE DEF f, B
      <4>3. QED BY <4>1, <4>2 DEF Bits
    <3>8. QED BY <3>1, <3>2, <3>3, <3>4, <3>5, <3>6, <3>7 DEF Bits
  <2> HIDE DEF B
  <2>2. DOMAIN f = Bits /\ f = [b \in Bits |-> f[b]]
    OBVIOUS
  <2> HIDE DEF f
  <2>3. QED BY <2>1, <2>2
<1> HIDE DEF f
<1>4. E(from)
  <2> HIDE DEF E
  <2>1. QED BY <1>3
<1>5. Number(v) = from[0]
  BY DEF Number
<1> HIDE DEF from, B
<1>6. \A b \in Bits : from[b] = IF b = 31 THEN 0 ELSE B(b) + 2 * from[b + 1]
  BY <1>4
<1>7. from[31] = 0 /\ \A b \in 6..30 : from[b + 1] = 0 => from[b] = 0
  <2>1. \A b \in 6..30 : b \in Bits /\ b # 31 /\ b > 5
    BY DEF Bits
  <2>2. \A b \in 6..30 : from[b] = B(b) + 2 * from[b + 1] /\ B(b) = 0
    BY <1>1, <1>6, <2>1
  <2>3. \A b \in 6..30 : from[b + 1] = 0 => from[b] = 0
    BY <2>2
  <2>4. 31 \in Bits
    BY DEF Bits
  <2>5. QED BY <1>6, <2>3, <2>4
<1>8. from[6] = 0
  <2>1. from[27] = 0
    <3>1. from[30] = 0
      BY <1>7
    <3>2. from[29] = 0
      BY <1>7, <3>1
    <3>3. from[28] = 0
      BY <1>7, <3>2
    <3>4. QED BY <1>7, <3>3
  <2>2. from[23] = 0
    <3>1. from[26] = 0
      BY <1>7, <2>1
    <3>2. from[25] = 0
      BY <1>7, <3>1
    <3>3. from[24] = 0
      BY <1>7, <3>2
    <3>4. QED BY <1>7, <3>3
  <2>3. from[19] = 0
    <3>1. from[22] = 0
      BY <1>7, <2>2
    <3>2. from[21] = 0
      BY <1>7, <3>1
    <3>3. from[20] = 0
      BY <1>7, <3>2
    <3>4. QED BY <1>7, <3>3
  <2>4. from[15] = 0
    <3>1. from[18] = 0
      BY <1>7, <2>3
    <3>2. from[17] = 0
      BY <1>7, <3>1
    <3>3. from[16] = 0
      BY <1>7, <3>2
    <3>4. QED BY <1>7, <3>3
  <2>5. from[11] = 0
    <3>1. from[14] = 0
      BY <1>7, <2>4
    <3>2. from[13] = 0
      BY <1>7, <3>1
    <3>3. from[12] = 0
      BY <1>7, <3>2
    <3>4. QED BY <1>7, <3>3
  <2>6. from[7] = 0
    <3>1. from[10] = 0
      BY <1>7, <2>5
    <3>2. from[9] = 0
      BY <1>7, <3>1
    <3>3. from[8] = 0
      BY <1>7, <3>2
    <3>4. QED BY <1>7, <3>3
  <2>7. QED BY <1>7, <2>6
<1>9. /\ from[5] = B(5) + 2 * from[6] /\ from[4] = B(4) + 2 * from[5] /\ from[3] = B(3) + 2 * from[4]
      /\ from[2] = B(2) + 2 * from[3] /\ from[1] = B(1) + 2 * from[2] /\ from[0] = B(0) + 2 * from[1]
  BY <1>6 DEF Bits
<1>10. \A b \in 0..5 : B(b) = Digit2(v, b) /\ Digit2(v, b) \in 0..1 /\ (Digit2(v, b) = 1 <=> b \in v)
  BY DEF B, Digit2
<1>11. Number(v) = B(0) + 2 * B(1) + 4 * B(2) + 8 * B(3) + 16 * B(4) + 32 * B(5)
  BY <1>5, <1>8, <1>9, <1>10
<1>12. QED BY <1>10, <1>11

(* clz6_table gives the place of the highest one of six bits. *)
LEMMA Highest ==
  ASSUME NEW v \in SUBSET (0..5)
  PROVE  /\ v = {} => clz6_table[Number(v)] = 6
         /\ v # {} => /\ clz6_table[Number(v)] \in 0..5
                      /\ 5 - clz6_table[Number(v)] \in v
                      /\ \A b \in v : b <= 5 - clz6_table[Number(v)]
<1> DEFINE d0 == Digit2(v, 0)
<1> DEFINE d1 == Digit2(v, 1)
<1> DEFINE d2 == Digit2(v, 2)
<1> DEFINE d3 == Digit2(v, 3)
<1> DEFINE d4 == Digit2(v, 4)
<1> DEFINE d5 == Digit2(v, 5)
<1> DEFINE i == Number(v)
<1>1. /\ d0 \in 0..1 /\ d1 \in 0..1 /\ d2 \in 0..1 /\ d3 \in 0..1 /\ d4 \in 0..1 /\ d5 \in 0..1
      /\ i = d0 + 2 * d1 + 4 * d2 + 8 * d3 + 16 * d4 + 32 * d5
      /\ (d0 = 1 <=> 0 \in v) /\ (d1 = 1 <=> 1 \in v) /\ (d2 = 1 <=> 2 \in v)
      /\ (d3 = 1 <=> 3 \in v) /\ (d4 = 1 <=> 4 \in v) /\ (d5 = 1 <=> 5 \in v)
  BY SixBits
<1> HIDE DEF d0, d1, d2, d3, d4, d5, i
<1>2. i \in 0..63
  BY <1>1
<1>3. /\ i = 0 => clz6_table[i] = 6
      /\ i = 1 => clz6_table[i] = 5
      /\ i \in 2..3 => clz6_table[i] = 4
      /\ i \in 4..7 => clz6_table[i] = 3
      /\ i \in 8..15 => clz6_table[i] = 2
      /\ i \in 16..31 => clz6_table[i] = 1
      /\ i \in 32..63 => clz6_table[i] = 0
  BY <1>2 DEF clz6_table
<1>4. CASE v = {}
  BY <1>1, <1>3, <1>4 DEF i
<1>5. CASE 5 \in v
  <2>1. i \in 32..63
    BY <1>1, <1>5
  <2>2. QED BY <1>3, <1>5, <2>1 DEF i
<1>6. CASE 5 \notin v /\ 4 \in v
  <2>1. i \in 16..31
    BY <1>1, <1>6
  <2>2. \A b \in v : b <= 4
    BY <1>6
  <2>3. clz6_table[i] = 1
    BY <1>3, <2>1
  <2>4. QED BY <1>6, <2>2, <2>3 DEF i
<1>7. CASE 5 \notin v /\ 4 \notin v /\ 3 \in v
  <2>1. i \in 8..15
    BY <1>1, <1>7
  <2>2. \A b \in v : b <= 3
    BY <1>7
  <2>3. clz6_table[i] = 2
    BY <1>3, <2>1
  <2>4. QED BY <1>7, <2>2, <2>3 DEF i
<1>8. CASE 5 \notin v /\ 4 \notin v /\ 3 \notin v /\ 2 \in v
  <2>1. i \in 4..7
    BY <1>1, <1>8
  <2>2. \A b \in v : b <= 2
    BY <1>8
  <2>3. clz6_table[i] = 3
    BY <1>3, <2>1
  <2>4. QED BY <1>8, <2>2, <2>3 DEF i
<1>9. CASE 5 \notin v /\ 4 \notin v /\ 3 \notin v /\ 2 \notin v /\ 1 \in v
  <2>1. i \in 2..3
    BY <1>1, <1>9
  <2>2. \A b \in v : b <= 1
    BY <1>9
  <2>3. clz6_table[i] = 4
    BY <1>3, <2>1
  <2>4. QED BY <1>9, <2>2, <2>3 DEF i
<1>10. CASE 5 \notin v /\ 4 \notin v /\ 3 \notin v /\ 2 \notin v /\ 1 \notin v /\ 0 \in v
  <2>1. i = 1
    BY <1>1, <1>10
  <2>2. \A b \in v : b <= 0
    BY <1>10
  <2>3. clz6_table[i] = 5
    BY <1>3, <2>1
  <2>4. QED BY <1>10, <2>2, <2>3 DEF i
<1>11. v # {} => 0 \in v \/ 1 \in v \/ 2 \in v \/ 3 \in v \/ 4 \in v \/ 5 \in v
  <2>1. \A b \in v : b \in 0..5
    OBVIOUS
  <2>2. \A b \in 0..5 : b = 0 \/ b = 1 \/ b = 2 \/ b = 3 \/ b = 4 \/ b = 5
    BY SMT
  <2>3. QED BY <2>1, <2>2, Zenon
<1>12. QED BY <1>4, <1>5, <1>6, <1>7, <1>8, <1>9, <1>10, <1>11

(* ctz6_table gives the place of the lowest one of six bits. *)
LEMMA Lowest ==
  ASSUME NEW v \in SUBSET (0..5)
  PROVE  /\ v = {} => ctz6_table[Number(v)] = 6
         /\ v # {} => /\ ctz6_table[Number(v)] \in v
                      /\ \A b \in v : ctz6_table[Number(v)] <= b
<1> DEFINE d0 == Digit2(v, 0)
<1> DEFINE d1 == Digit2(v, 1)
<1> DEFINE d2 == Digit2(v, 2)
<1> DEFINE d3 == Digit2(v, 3)
<1> DEFINE d4 == Digit2(v, 4)
<1> DEFINE d5 == Digit2(v, 5)
<1> DEFINE i == Number(v)
<1>1. /\ d0 \in 0..1 /\ d1 \in 0..1 /\ d2 \in 0..1 /\ d3 \in 0..1 /\ d4 \in 0..1 /\ d5 \in 0..1
      /\ i = d0 + 2 * d1 + 4 * d2 + 8 * d3 + 16 * d4 + 32 * d5
      /\ (d0 = 1 <=> 0 \in v) /\ (d1 = 1 <=> 1 \in v) /\ (d2 = 1 <=> 2 \in v)
      /\ (d3 = 1 <=> 3 \in v) /\ (d4 = 1 <=> 4 \in v) /\ (d5 = 1 <=> 5 \in v)
  BY SixBits
<1> HIDE DEF d0, d1, d2, d3, d4, d5, i
<1>2. i \in 0..63
  BY <1>1
<1>3. /\ i = 0 => ctz6_table[i] = 6
      /\ i = 32 => ctz6_table[i] = 5
      /\ i % 32 = 16 => ctz6_table[i] = 4
      /\ i % 16 = 8 => ctz6_table[i] = 3
      /\ i % 8 = 4 => ctz6_table[i] = 2
      /\ i % 4 = 2 => ctz6_table[i] = 1
      /\ i % 2 = 1 => ctz6_table[i] = 0
  <2>1. /\ i = 32 => i # 0
        /\ i % 32 = 16 => i # 0 /\ i # 32
        /\ i % 16 = 8 => i # 0 /\ i # 32 /\ i % 32 # 16
        /\ i % 8 = 4 => i # 0 /\ i # 32 /\ i % 32 # 16 /\ i % 16 # 8
        /\ i % 4 = 2 => i # 0 /\ i # 32 /\ i % 32 # 16 /\ i % 16 # 8 /\ i % 8 # 4
        /\ i % 2 = 1 => i # 0 /\ i # 32 /\ i % 32 # 16 /\ i % 16 # 8 /\ i % 8 # 4 /\ i % 4 # 2
    BY <1>2
  <2>2. QED BY <1>2, <2>1 DEF ctz6_table
<1>4. CASE v = {}
  BY <1>1, <1>3, <1>4 DEF i
<1>5. CASE 0 \in v
  <2>1. i % 2 = 1
    BY <1>1, <1>5
  <2>2. ctz6_table[i] = 0
    BY <1>3, <2>1
  <2>3. \A b \in v : 0 <= b
    OBVIOUS
  <2>4. QED BY <1>5, <2>2, <2>3 DEF i
<1>6. CASE 0 \notin v /\ 1 \in v
  <2>1. i % 4 = 2
    BY <1>1, <1>6
  <2>2. \A b \in v : 1 <= b
    BY <1>6
  <2>3. ctz6_table[i] = 1
    BY <1>3, <2>1
  <2>4. QED BY <1>6, <2>2, <2>3 DEF i
<1>7. CASE 0 \notin v /\ 1 \notin v /\ 2 \in v
  <2>1. i % 8 = 4
    BY <1>1, <1>7
  <2>2. \A b \in v : 2 <= b
    BY <1>7
  <2>3. ctz6_table[i] = 2
    BY <1>3, <2>1
  <2>4. QED BY <1>7, <2>2, <2>3 DEF i
<1>8. CASE 0 \notin v /\ 1 \notin v /\ 2 \notin v /\ 3 \in v
  <2>1. i % 16 = 8
    BY <1>1, <1>8
  <2>2. \A b \in v : 3 <= b
    BY <1>8
  <2>3. ctz6_table[i] = 3
    BY <1>3, <2>1
  <2>4. QED BY <1>8, <2>2, <2>3 DEF i
<1>9. CASE 0 \notin v /\ 1 \notin v /\ 2 \notin v /\ 3 \notin v /\ 4 \in v
  <2>1. i % 32 = 16
    BY <1>1, <1>9
  <2>2. \A b \in v : 4 <= b
    BY <1>9
  <2>3. ctz6_table[i] = 4
    BY <1>3, <2>1
  <2>4. QED BY <1>9, <2>2, <2>3 DEF i
<1>10. CASE 0 \notin v /\ 1 \notin v /\ 2 \notin v /\ 3 \notin v /\ 4 \notin v /\ 5 \in v
  <2>1. i = 32
    BY <1>1, <1>10
  <2>2. \A b \in v : 5 <= b
    BY <1>10
  <2>3. ctz6_table[i] = 5
    BY <1>3, <2>1
  <2>4. QED BY <1>10, <2>2, <2>3 DEF i
<1>11. v # {} => 0 \in v \/ 1 \in v \/ 2 \in v \/ 3 \in v \/ 4 \in v \/ 5 \in v
  <2>1. \A b \in v : b \in 0..5
    OBVIOUS
  <2>2. \A b \in 0..5 : b = 0 \/ b = 1 \/ b = 2 \/ b = 3 \/ b = 4 \/ b = 5
    BY SMT
  <2>3. QED BY <2>1, <2>2, Zenon
<1>12. QED BY <1>4, <1>5, <1>6, <1>7, <1>8, <1>9, <1>10, <1>11

-----------------------------------------------------------------------------
(* clz32 and ctz32, window by window *)

(* The table gives the highest one of a window of six bits of a word. *)
LEMMA HighestAt ==
  ASSUME NEW w \in Words, NEW n \in Bits, Lsr(w, n) \subseteq 0..5, Lsr(w, n) # {}
  PROVE  /\ clz6_table[Number(Lsr(w, n))] \in 0..5
         /\ n + 5 - clz6_table[Number(Lsr(w, n))] \in w
         /\ \A b \in w : b <= n + 5 - clz6_table[Number(Lsr(w, n))]
<1> DEFINE v == Lsr(w, n)
<1> DEFINE z == clz6_table[Number(v)]
<1>1. z \in 0..5 /\ 5 - z \in v /\ \A b \in v : b <= 5 - z
  BY Highest
<1>2. \A b : b \in v <=> b \in Bits /\ b + n \in w
  BY DEF Lsr
<1>3. \A b \in w : b \in Bits /\ n \in Nat /\ (b >= n => b - n \in Bits /\ b - n + n = b)
  BY DEF Words, Bits
<1> HIDE DEF v, z
<1>4. n + 5 - z \in w
  <2>1. 5 - z + n \in w /\ n \in Int
    BY <1>1, <1>2 DEF Bits
  <2>2. QED BY <1>1, <2>1
<1>5. ASSUME NEW b \in w
      PROVE  b <= n + 5 - z
  <2>1. CASE b >= n
    <3>1. b - n \in v
      BY <1>2, <1>3, <2>1
    <3>2. b - n <= 5 - z
      BY <1>1, <3>1
    <3>3. b \in Int /\ n \in Int
      BY <1>3 DEF Bits
    <3>4. QED BY <1>1, <3>2, <3>3
  <2>2. CASE b < n
    BY <1>1, <1>3, <2>2 DEF Bits
  <2>3. QED BY <1>3, <2>1, <2>2 DEF Bits
<1>6. QED BY <1>1, <1>4, <1>5 DEF v, z

(* A shift to the right by n is zero if the word has no one above. *)
LEMMA NothingAbove ==
  ASSUME NEW w \in Words, NEW n \in Bits
  PROVE  /\ Lsr(w, n) = {} <=> \A b \in w : b < n
         /\ Lsr(w, n) # {} => w # {}
         /\ \A m \in Bits : Lsr(w, m) = {} /\ m <= n + 6 => Lsr(w, n) \subseteq 0..5
<1>1. \A k \in Bits : Lsr(w, k) = {} <=> \A b \in w : b < k
  <2> SUFFICES ASSUME NEW k \in Bits
               PROVE  Lsr(w, k) = {} <=> \A b \in w : b < k
    OBVIOUS
  <2>1. ASSUME NEW b \in w, ~(b < k)
        PROVE  b - k \in Lsr(w, k)
    <3>1. b \in Bits /\ b - k \in Bits /\ b - k + k = b
      BY <2>1 DEF Words, Bits
    <3>2. QED BY <3>1 DEF Lsr
  <2>2. ASSUME NEW b \in Lsr(w, k)
        PROVE  b + k \in w /\ ~(b + k < k)
    BY DEF Lsr, Bits
  <2>3. QED BY <2>1, <2>2
<1>2. Lsr(w, n) # {} => w # {}
  BY <1>1
<1>3. ASSUME NEW m \in Bits, Lsr(w, m) = {}, m <= n + 6, NEW b \in Lsr(w, n)
      PROVE  b \in 0..5
  <2>1. b \in Bits /\ b + n \in w
    BY DEF Lsr
  <2>2. b + n < m
    BY <1>1, <1>3, <2>1
  <2>3. QED BY <1>3, <2>1, <2>2 DEF Bits
<1>4. QED BY <1>1, <1>2, <1>3

(* clz32 counts the zeroes above the highest one of any word. *)
LEMMA LeadingZeroes ==
  ASSUME NEW w \in Words
  PROVE  IF w = {} THEN clz32(w) = 32
         ELSE 31 - clz32(w) \in w /\ \A b \in w : b <= 31 - clz32(w)
<1> DEFINE At(n) == clz6_table[Number(Lsr(w, n))]
<1> DEFINE Right == IF w = {} THEN clz32(w) = 32
                    ELSE 31 - clz32(w) \in w /\ \A b \in w : b <= 31 - clz32(w)
<1>1. clz32(w) = IF Lsr(w, 16) # {}
                 THEN IF Lsr(w, 26) # {} THEN At(26)
                      ELSE IF Lsr(w, 20) # {} THEN At(20) + 6
                      ELSE At(16) + 12 - 2
                 ELSE IF Lsr(w, 10) # {} THEN At(10) + 16
                      ELSE IF Lsr(w, 4) # {} THEN At(4) + 22
                      ELSE At(0) + 28 - 2
  BY DEF clz32
<1>2. {0, 4, 10, 16, 20, 26} \subseteq Bits
  BY DEF Bits
<1>3. \A n \in Bits : Lsr(w, n) # {} /\ Lsr(w, n) \subseteq 0..5 =>
        w # {} /\ At(n) \in 0..5 /\ n + 5 - At(n) \in w /\ \A b \in w : b <= n + 5 - At(n)
  BY HighestAt, NothingAbove
<1>4. Lsr(w, 26) \subseteq 0..5
  BY DEF Lsr, Bits, Words
<1>5. \A n, m \in Bits : Lsr(w, m) = {} /\ m <= n + 6 => Lsr(w, n) \subseteq 0..5
  BY NothingAbove
<1> HIDE DEF At
<1>6. ASSUME NEW n \in Bits, At(n) \in 0..5, w # {}, n + 5 - At(n) \in w,
             \A b \in w : b <= n + 5 - At(n), clz32(w) = At(n) + (26 - n)
      PROVE  Right
  <2>1. 31 - clz32(w) = n + 5 - At(n)
    BY <1>6 DEF Bits
  <2>2. QED BY <1>6, <2>1
<1> HIDE DEF Right
<1>7. CASE Lsr(w, 16) # {} /\ Lsr(w, 26) # {}
  <2>1. clz32(w) = At(26) /\ At(26) \in 0..5
    BY <1>1, <1>2, <1>3, <1>4, <1>7
  <2>2. clz32(w) = At(26) + (26 - 26)
    BY <2>1
  <2>3. QED BY <1>2, <1>3, <1>4, <1>6, <1>7, <2>2
<1>8. CASE Lsr(w, 16) # {} /\ Lsr(w, 26) = {} /\ Lsr(w, 20) # {}
  <2>1. Lsr(w, 20) \subseteq 0..5
    BY <1>2, <1>5, <1>8
  <2>2. clz32(w) = At(20) + (26 - 20)
    BY <1>1, <1>8
  <2>3. QED BY <1>2, <1>3, <1>6, <1>8, <2>1, <2>2
<1>9. CASE Lsr(w, 16) # {} /\ Lsr(w, 26) = {} /\ Lsr(w, 20) = {}
  <2>1. Lsr(w, 16) \subseteq 0..5
    BY <1>2, <1>5, <1>9
  <2>2. At(16) \in 0..5
    BY <1>2, <1>3, <1>9, <2>1
  <2>3. clz32(w) = At(16) + (26 - 16)
    BY <1>1, <1>9, <2>2
  <2>4. QED BY <1>2, <1>3, <1>6, <1>9, <2>1, <2>3
<1>10. CASE Lsr(w, 16) = {} /\ Lsr(w, 10) # {}
  <2>1. Lsr(w, 10) \subseteq 0..5
    BY <1>2, <1>5, <1>10
  <2>2. clz32(w) = At(10) + (26 - 10)
    BY <1>1, <1>10
  <2>3. QED BY <1>2, <1>3, <1>6, <1>10, <2>1, <2>2
<1>11. CASE Lsr(w, 16) = {} /\ Lsr(w, 10) = {} /\ Lsr(w, 4) # {}
  <2>1. Lsr(w, 4) \subseteq 0..5
    BY <1>2, <1>5, <1>11
  <2>2. clz32(w) = At(4) + (26 - 4)
    BY <1>1, <1>11
  <2>3. QED BY <1>2, <1>3, <1>6, <1>11, <2>1, <2>2
<1>12. CASE Lsr(w, 16) = {} /\ Lsr(w, 10) = {} /\ Lsr(w, 4) = {}
  <2>1. Lsr(w, 0) \subseteq 0..5
    BY <1>2, <1>5, <1>12
  <2>2. clz32(w) = At(0) + 28 - 2
    BY <1>1, <1>12
  <2>3. CASE Lsr(w, 0) # {}
    <3>1. At(0) \in 0..5
      BY <1>2, <1>3, <2>1, <2>3
    <3>2. clz32(w) = At(0) + (26 - 0)
      BY <2>2, <3>1
    <3>3. QED BY <1>2, <1>3, <1>6, <2>1, <2>3, <3>2
  <2>4. CASE Lsr(w, 0) = {}
    <3>1. w = {}
      <4>1. \A b \in w : b < 0
        BY <1>2, <2>4, NothingAbove
      <4>2. \A b \in w : b \in 0..31
        BY DEF Words, Bits
      <4>3. QED BY <4>1, <4>2
    <3>2. At(0) = 6
      BY <2>1, <2>4, Highest DEF At
    <3>3. QED BY <2>2, <3>1, <3>2 DEF Right
  <2>5. QED BY <2>3, <2>4
<1>13. QED BY <1>7, <1>8, <1>9, <1>10, <1>11, <1>12 DEF Right

(* The table gives the lowest one of a word that has none below a window
   of six bits but one in it. *)
LEMMA LowestAt ==
  ASSUME NEW w \in Words, NEW n \in Bits, NEW v \in SUBSET (0..5), v # {},
         \A b \in w : b >= n,
         \A b \in 0..5 : b \in v => b + n \in w,
         \A b \in 0..5 : b + n \in w => b \in v
  PROVE  /\ ctz6_table[Number(v)] \in v
         /\ ctz6_table[Number(v)] + n \in w
         /\ \A b \in w : b >= ctz6_table[Number(v)] + n
<1> DEFINE z == ctz6_table[Number(v)]
<1>1. z \in v /\ \A b \in v : z <= b
  BY Lowest
<1> HIDE DEF z
<1>2. z \in 0..5 /\ z + n \in w
  BY <1>1
<1>3. ASSUME NEW b \in w
      PROVE  b >= z + n
  <2>1. b \in Int /\ n \in Int /\ b >= n
    BY DEF Words, Bits
  <2>2. CASE b - n \in 0..5
    <3>1. b - n + n \in w
      BY <2>1
    <3>2. b - n \in v
      BY <2>2, <3>1
    <3>3. QED BY <1>1, <1>2, <2>1, <3>2
  <2>3. CASE ~(b - n \in 0..5)
    BY <1>2, <2>1, <2>3
  <2>4. QED BY <2>2, <2>3
<1>4. QED BY <1>1, <1>2, <1>3 DEF z

(* A shift to the left by n is zero if the word has no one below 32 - n. *)
LEMMA NothingBelow ==
  ASSUME NEW w \in Words, NEW n \in Bits
  PROVE  Lsl(w, n) = {} <=> \A b \in w : b >= 32 - n
<1>1. ASSUME NEW b \in w, ~(b >= 32 - n)
      PROVE  b + n \in Lsl(w, n)
  <2>1. b + n \in Bits /\ b + n >= n /\ b + n - n = b
    BY <1>1 DEF Words, Bits
  <2>2. b \in Int /\ n \in Int
    BY DEF Words, Bits
  <2>3. QED BY <2>1, <2>2 DEF Lsl, Bits
<1>2. ASSUME NEW b \in Lsl(w, n)
      PROVE  b - n \in w /\ ~(b - n >= 32 - n)
  <2>1. b \in Bits /\ b - n \in w
    BY <1>2 DEF Lsl
  <2>2. QED BY <2>1 DEF Bits
<1>3. QED BY <1>1, <1>2

(* Shifted to the left and to the right, six bits are left, or four. *)
LEMMA Window ==
  ASSUME NEW w \in Words, NEW n \in Bits
  PROVE  /\ n <= 26 => /\ Lsr(Lsl(w, 26 - n), 26) \in SUBSET (0..5)
                       /\ \A b \in 0..5 : b \in Lsr(Lsl(w, 26 - n), 26) <=> b + n \in w
         /\ n <= 28 => /\ Lsr(Lsl(w, 28 - n), 28) \in SUBSET (0..3)
                       /\ \A b \in 0..3 : b \in Lsr(Lsl(w, 28 - n), 28) <=> b + n \in w
<1>1. ASSUME n <= 26
      PROVE  /\ Lsr(Lsl(w, 26 - n), 26) \in SUBSET (0..5)
             /\ \A b \in 0..5 : b \in Lsr(Lsl(w, 26 - n), 26) <=> b + n \in w
  <2>1. \A b : b \in Lsr(Lsl(w, 26 - n), 26) <=> b \in Bits /\ b + 26 \in Lsl(w, 26 - n)
    BY DEF Lsr
  <2>2. \A c : c \in Lsl(w, 26 - n) <=> c \in Bits /\ c >= 26 - n /\ c - (26 - n) \in w
    BY DEF Lsl
  <2>3. \A b \in Bits : b + 26 \in Bits => b \in 0..5
    BY DEF Bits
  <2>4. \A b \in 0..5 : b \in Bits /\ b + 26 \in Bits /\ b + 26 >= 26 - n
    BY <1>1 DEF Bits
  <2>5. ASSUME NEW b \in 0..5
        PROVE  b \in Lsr(Lsl(w, 26 - n), 26) <=> b + n \in w
    <3>1. b + 26 \in Lsl(w, 26 - n) <=> b + n \in w
      BY <2>4 DEF Lsl, Bits
    <3>2. QED BY <2>1, <2>4, <3>1
  <2>6. Lsr(Lsl(w, 26 - n), 26) \subseteq 0..5
    BY <2>1, <2>2, <2>3, Zenon
  <2>7. QED BY <2>5, <2>6
<1>2. ASSUME n <= 28
      PROVE  /\ Lsr(Lsl(w, 28 - n), 28) \in SUBSET (0..3)
             /\ \A b \in 0..3 : b \in Lsr(Lsl(w, 28 - n), 28) <=> b + n \in w
  <2>1. \A b : b \in Lsr(Lsl(w, 28 - n), 28) <=> b \in Bits /\ b + 28 \in Lsl(w, 28 - n)
    BY DEF Lsr
  <2>2. \A c : c \in Lsl(w, 28 - n) <=> c \in Bits /\ c >= 28 - n /\ c - (28 - n) \in w
    BY DEF Lsl
  <2>3. \A b \in Bits : b + 28 \in Bits => b \in 0..3
    BY DEF Bits
  <2>4. \A b \in 0..3 : b \in Bits /\ b + 28 \in Bits /\ b + 28 >= 28 - n
    BY <1>2 DEF Bits
  <2>5. ASSUME NEW b \in 0..3
        PROVE  b \in Lsr(Lsl(w, 28 - n), 28) <=> b + n \in w
    <3>1. b + 28 \in Lsl(w, 28 - n) <=> b + n \in w
      BY <2>4 DEF Lsl, Bits
    <3>2. QED BY <2>1, <2>4, <3>1
  <2>6. Lsr(Lsl(w, 28 - n), 28) \subseteq 0..3
    BY <2>1, <2>2, <2>3, Zenon
  <2>7. QED BY <2>5, <2>6
<1>3. QED BY <1>1, <1>2

(* A one put at bit 4 of four bits adds 16 to their number. *)
LEMMA Stopper ==
  ASSUME NEW v \in SUBSET (0..3)
  PROVE  Number(v) + 16 = Number(v \cup {4}) /\ v \cup {4} \in SUBSET (0..5)
<1>1. v \in SUBSET (0..5) /\ v \cup {4} \in SUBSET (0..5)
  OBVIOUS
<1>2. /\ Digit2(v, 0) = Digit2(v \cup {4}, 0) /\ Digit2(v, 1) = Digit2(v \cup {4}, 1)
      /\ Digit2(v, 2) = Digit2(v \cup {4}, 2) /\ Digit2(v, 3) = Digit2(v \cup {4}, 3)
      /\ Digit2(v, 4) = 0 /\ Digit2(v \cup {4}, 4) = 1
      /\ Digit2(v, 5) = 0 /\ Digit2(v \cup {4}, 5) = 0
  BY DEF Digit2
<1>3. \A b \in 0..5 : Digit2(v, b) \in 0..1
  BY <1>1, SixBits
<1>4. /\ Number(v) = Digit2(v, 0) + 2 * Digit2(v, 1) + 4 * Digit2(v, 2) + 8 * Digit2(v, 3)
                       + 16 * Digit2(v, 4) + 32 * Digit2(v, 5)
      /\ Number(v \cup {4}) = Digit2(v \cup {4}, 0) + 2 * Digit2(v \cup {4}, 1)
                       + 4 * Digit2(v \cup {4}, 2) + 8 * Digit2(v \cup {4}, 3)
                       + 16 * Digit2(v \cup {4}, 4) + 32 * Digit2(v \cup {4}, 5)
  BY <1>1, SixBits
<1>5. QED BY <1>1, <1>2, <1>3, <1>4

(* ctz32 counts the zeroes below the lowest one of any word. *)
LEMMA TrailingZeroes ==
  ASSUME NEW w \in Words
  PROVE  IF w = {} THEN ctz32(w) = 32
         ELSE ctz32(w) \in w /\ \A b \in w : b >= ctz32(w)
<1> DEFINE Win6(n) == Lsr(Lsl(w, 26 - n), 26)
<1> DEFINE Win4(n) == Lsr(Lsl(w, 28 - n), 28)
<1> DEFINE AtSix(n)  == ctz6_table[Number(Win6(n))]
<1> DEFINE AtFour(n) == ctz6_table[Number(Win4(n)) + 16]
<1> DEFINE Right == IF w = {} THEN ctz32(w) = 32
                    ELSE ctz32(w) \in w /\ \A b \in w : b >= ctz32(w)
<1>1. ctz32(w) = IF Lsl(w, 16) # {}
                 THEN IF Lsl(w, 22) = {} THEN AtSix(10) + 10
                      ELSE IF Lsl(w, 28) = {} THEN AtSix(4) + 4
                      ELSE AtFour(0)
                 ELSE IF Lsl(w, 6) = {} THEN AtSix(26) + 26
                      ELSE IF Lsl(w, 12) = {} THEN AtSix(20) + 20
                      ELSE AtFour(16) + 16
  BY DEF ctz32
<1>2. /\ Lsl(w, 16) = {} <=> \A b \in w : b >= 16
      /\ Lsl(w, 22) = {} <=> \A b \in w : b >= 10
      /\ Lsl(w, 28) = {} <=> \A b \in w : b >= 4
      /\ Lsl(w, 6) = {} <=> \A b \in w : b >= 26
      /\ Lsl(w, 12) = {} <=> \A b \in w : b >= 20
  <2>1. {16, 22, 28, 6, 12} \subseteq Bits
    BY DEF Bits
  <2>2. \A n \in Bits : Lsl(w, n) = {} <=> \A b \in w : b >= 32 - n
    BY NothingBelow
  <2>3. 32 - 16 = 16 /\ 32 - 22 = 10 /\ 32 - 28 = 4 /\ 32 - 6 = 26 /\ 32 - 12 = 20
    OBVIOUS
  <2> HIDE DEF Right
  <2>4. QED BY <2>1, <2>2, <2>3
<1>3. w \subseteq Bits /\ \A b \in w : b \in 0..31
  BY DEF Words, Bits
<1> HIDE DEF Win6, Win4
<1>4. ASSUME NEW n \in Bits, n <= 26, \A b \in w : b >= n,
             w # {} => \E b \in w : b - n \in 0..5, w = {} => n = 26, ctz32(w) = AtSix(n) + n
      PROVE  Right
  <2>1. Win6(n) \in SUBSET (0..5) /\ \A b \in 0..5 : b \in Win6(n) <=> b + n \in w
    BY <1>4, Window DEF Win6
  <2>2. CASE w # {}
    <3>1. PICK b \in w : b - n \in 0..5
      BY <1>4, <2>2
    <3>2. b - n + n = b
      BY <1>3, <1>4 DEF Bits
    <3>3. Win6(n) # {}
      BY <2>1, <3>1, <3>2
    <3>4. AtSix(n) + n \in w /\ \A c \in w : c >= AtSix(n) + n
      BY <1>4, <2>1, <3>3, LowestAt
    <3>5. QED BY <1>4, <2>2, <3>4
  <2>3. CASE w = {}
    <3>1. Win6(n) = {}
      BY <2>1, <2>3
    <3>2. AtSix(n) = 6
      BY <2>1, <3>1, Lowest
    <3>3. QED BY <1>4, <2>3, <3>2
  <2>4. QED BY <2>2, <2>3
<1>5. ASSUME NEW n \in Bits, n <= 26, \A b \in w : b >= n,
             \E b \in w : b - n \in 0..3, ctz32(w) = AtFour(n) + n
      PROVE  Right
  <2> DEFINE u == Win4(n)
  <2> DEFINE v == Win6(n)
  <2>1. u \in SUBSET (0..3) /\ \A b \in 0..3 : b \in u <=> b + n \in w
    <3>1. n <= 28
      BY <1>5 DEF Bits
    <3>2. QED BY <3>1, Window DEF Win4
  <2>2. v \in SUBSET (0..5) /\ \A b \in 0..5 : b \in v <=> b + n \in w
    BY <1>5, Window DEF Win6
  <2>3. Number(u) + 16 = Number(u \cup {4}) /\ u \cup {4} \in SUBSET (0..5)
    BY <2>1, Stopper
  <2> DEFINE z == ctz6_table[Number(u \cup {4})]
  <2> HIDE DEF u, v
  <2>4. z \in u \cup {4} /\ \A b \in u \cup {4} : z <= b
    BY <2>3, Lowest
  <2>5. AtFour(n) = z
    BY <2>3 DEF u
  <2> HIDE DEF z
  <2>6. PICK b0 \in w : b0 - n \in 0..3
    BY <1>5
  <2>7. b0 - n \in u
    <3>1. b0 - n + n = b0
      BY <1>3 DEF Bits
    <3>2. QED BY <2>1, <2>6, <3>1
  <2>8. z \in u
    BY <2>1, <2>4, <2>6, <2>7
  <2>9. z \in 0..3 /\ z + n \in w
    BY <2>1, <2>8
  <2>10. ASSUME NEW b \in w
         PROVE  b >= z + n
    <3>1. b \in Int /\ n \in Int /\ b >= n
      BY <1>3, <1>5 DEF Bits
    <3>2. CASE b - n \in 0..3
      <4>1. b - n + n = b
        BY <3>1
      <4>2. b - n \in u
        BY <2>1, <3>2, <4>1
      <4>3. z <= b - n
        BY <2>4, <4>2
      <4>4. QED BY <2>9, <3>1, <4>3
    <3>3. CASE ~(b - n \in 0..3)
      BY <2>9, <3>1, <3>3
    <3>4. QED BY <3>2, <3>3
  <2>11. QED BY <1>5, <2>5, <2>9, <2>10
<1> HIDE DEF Right, AtSix, AtFour
<1>6. {0, 4, 10, 16, 20, 26} \subseteq Bits
  BY DEF Bits
<1>7. CASE Lsl(w, 16) # {} /\ Lsl(w, 22) = {}
  <2>1. ctz32(w) = AtSix(10) + 10
    BY <1>1, <1>7
  <2>2. \E b \in w : b - 10 \in 0..5
    BY <1>2, <1>3, <1>7
  <2>3. 10 \in Bits /\ 10 <= 26 /\ (\A b \in w : b >= 10) /\ w # {}
    BY <1>2, <1>6, <1>7, <2>2
  <2>4. QED BY <1>4, <2>1, <2>2, <2>3 DEF Right
<1>8. CASE Lsl(w, 16) # {} /\ Lsl(w, 22) # {} /\ Lsl(w, 28) = {}
  <2>1. ctz32(w) = AtSix(4) + 4
    BY <1>1, <1>8
  <2>2. \E b \in w : b - 4 \in 0..5
    BY <1>2, <1>3, <1>8
  <2>3. 4 \in Bits /\ 4 <= 26 /\ (\A b \in w : b >= 4) /\ w # {}
    BY <1>2, <1>6, <1>8, <2>2
  <2>4. QED BY <1>4, <2>1, <2>2, <2>3 DEF Right
<1>9. CASE Lsl(w, 16) # {} /\ Lsl(w, 22) # {} /\ Lsl(w, 28) # {}
  <2>1. ctz32(w) = AtFour(0)
    BY <1>1, <1>9
  <2>2. (\E b \in w : b - 0 \in 0..3) /\ \A b \in w : b >= 0
    BY <1>2, <1>3, <1>9
  <2>3. \A b \in 0..3 : b - 0 = b /\ b + 0 = b
    OBVIOUS
  <2>4. \E b \in w : b - 0 \in 0..3
    BY <2>2
  <2>5. ctz32(w) = AtFour(0) + 0
    <3>1. AtFour(0) \in Nat
      <4> DEFINE u == Win4(0)
      <4>1. u \in SUBSET (0..3)
        BY <1>6, Window DEF Win4
      <4>2. Number(u) + 16 = Number(u \cup {4}) /\ u \cup {4} \in SUBSET (0..5)
        BY <4>1, Stopper
      <4> DEFINE z == ctz6_table[Number(u \cup {4})]
      <4>3. AtFour(0) = z
        BY <4>2 DEF AtFour
      <4> HIDE DEF u
      <4>4. z \in u \cup {4}
        BY <4>2, Lowest
      <4> HIDE DEF z
      <4>5. z \in Nat
        BY <4>1, <4>4
      <4>6. QED BY <4>3, <4>5
    <3>2. QED BY <2>1, <3>1
  <2>6. QED BY <1>5, <1>6, <2>2, <2>4, <2>5 DEF Right
<1>10. CASE Lsl(w, 16) = {} /\ Lsl(w, 6) = {}
  <2>1. ctz32(w) = AtSix(26) + 26
    BY <1>1, <1>10
  <2>2. w # {} => \E b \in w : b - 26 \in 0..5
    BY <1>2, <1>3, <1>10
  <2>3. 26 \in Bits /\ 26 <= 26 /\ (\A b \in w : b >= 26)
    BY <1>2, <1>6, <1>10
  <2>4. QED BY <1>4, <2>1, <2>2, <2>3 DEF Right
<1>11. CASE Lsl(w, 16) = {} /\ Lsl(w, 6) # {} /\ Lsl(w, 12) = {}
  <2>1. ctz32(w) = AtSix(20) + 20
    BY <1>1, <1>11
  <2>2. \E b \in w : b - 20 \in 0..5
    BY <1>2, <1>3, <1>11
  <2>3. 20 \in Bits /\ 20 <= 26 /\ (\A b \in w : b >= 20) /\ w # {}
    BY <1>2, <1>6, <1>11, <2>2
  <2>4. QED BY <1>4, <2>1, <2>2, <2>3 DEF Right
<1>12. CASE Lsl(w, 16) = {} /\ Lsl(w, 6) # {} /\ Lsl(w, 12) # {}
  <2>1. ctz32(w) = AtFour(16) + 16
    BY <1>1, <1>12
  <2>2. \E b \in w : b - 16 \in 0..3
    BY <1>2, <1>3, <1>12
  <2>3. 16 \in Bits /\ 16 <= 26 /\ (\A b \in w : b >= 16)
    BY <1>2, <1>6, <1>12
  <2>4. QED BY <1>5, <2>1, <2>2, <2>3 DEF Right
<1>13. QED BY <1>7, <1>8, <1>9, <1>10, <1>11, <1>12 DEF Right

-----------------------------------------------------------------------------
(* reverse32, swap by swap *)

(* The bit that a swap by n brings to bit b *)
Partner(b, n) == IF b % (2 * n) >= n THEN b - n ELSE b + n

(* A swap by n exchanges the bits of every pair of groups of n bits. *)
LEMMA Swapped ==
  ASSUME NEW w \in Words, NEW n \in {1, 2, 4}, NEW high,
         high = {b \in Bits : b % (2 * n) >= n}
  PROVE  /\ SwapBits(w, n, high) \in Words
         /\ \A b \in Bits : /\ Partner(b, n) \in Bits
                            /\ b \in SwapBits(w, n, high) <=> Partner(b, n) \in w
<1>1. SwapBits(w, n, high) \in Words
  BY DEF SwapBits, Words, Lsl, Lsr
<1>2. ASSUME NEW b \in Bits
      PROVE  /\ Partner(b, n) \in Bits
             /\ b \in SwapBits(w, n, high) <=> Partner(b, n) \in w
  <2>1. b \in SwapBits(w, n, high) <=> \/ b \in high /\ b >= n /\ b - n \in w
                                       \/ b + n \in w /\ b + n \in high
    BY <1>2 DEF SwapBits, Lsl, Lsr
  <2>2. b \in high <=> b % (2 * n) >= n
    BY <1>2
  <2>3. b + n \in high <=> b + n \in Bits /\ (b + n) % (2 * n) >= n
    OBVIOUS
  <2>4. b \in 0..31
    BY <1>2 DEF Bits
  <2>5. CASE n = 1
    <3>1. /\ b % 2 >= 1 => b >= 1 /\ b - 1 \in Bits /\ (b + 1) % 2 = 0
          /\ ~(b % 2 >= 1) => b + 1 \in Bits /\ (b + 1) % 2 >= 1
      BY <2>4 DEF Bits
    <3>2. QED BY <2>1, <2>2, <2>3, <2>5, <3>1 DEF Partner
  <2>6. CASE n = 2
    <3>1. /\ b % 4 >= 2 => b >= 2 /\ b - 2 \in Bits /\ ~((b + 2) % 4 >= 2)
          /\ ~(b % 4 >= 2) => b + 2 \in Bits /\ (b + 2) % 4 >= 2
      BY <2>4 DEF Bits
    <3>2. QED BY <2>1, <2>2, <2>3, <2>6, <3>1 DEF Partner
  <2>7. CASE n = 4
    <3>1. /\ b % 8 >= 4 => b >= 4 /\ b - 4 \in Bits /\ ~((b + 4) % 8 >= 4)
          /\ ~(b % 8 >= 4) => b + 4 \in Bits /\ (b + 4) % 8 >= 4
      BY <2>4 DEF Bits
    <3>2. QED BY <2>1, <2>2, <2>3, <2>7, <3>1 DEF Partner
  <2>8. QED BY <2>5, <2>6, <2>7
<1>3. QED BY <1>1, <1>2

(* reverse32 brings bit 31 - b of any word to bit b. *)
LEMMA Reversed ==
  ASSUME NEW w \in Words
  PROVE  reverse32(w) = {31 - b : b \in w}
<1> DEFINE odd == Eor(Lsr(Pairs, 1), Pairs)
<1> DEFINE single == SwapBits(w, 1, odd)
<1> DEFINE pairs == SwapBits(single, 2, Pairs)
<1> DEFINE all == SwapBits(pairs, 4, Nibbles)
<1>1. odd = {b \in Bits : b % (2 * 1) >= 1}
  <2>1. \A b \in Bits : b \in odd <=> ~((b + 1 \in Bits /\ (b + 1) % 4 \in {2, 3}) <=> b % 4 \in {2, 3})
    BY DEF Eor, Lsr, Pairs
  <2>2. odd \subseteq Bits
    BY DEF Eor, Lsr, Pairs
  <2> HIDE DEF odd
  <2>3. \A b \in 0..31 : ~((b + 1 \in 0..31 /\ (b + 1) % 4 \in {2, 3}) <=> b % 4 \in {2, 3})
                          <=> b % 2 >= 1
    OBVIOUS
  <2>4. \A b \in Bits : b \in odd <=> b % 2 >= 1
    BY <2>1, <2>3 DEF Bits
  <2>5. QED BY <2>2, <2>4
<1>2. Pairs = {b \in Bits : b % (2 * 2) >= 2}
  <2>1. \A b \in 0..31 : b % 4 \in {2, 3} <=> b % 4 >= 2
    OBVIOUS
  <2>2. QED BY <2>1 DEF Pairs, Bits
<1>3. Nibbles = {b \in Bits : b % (2 * 4) >= 4}
  <2>1. \A b \in 0..31 : b % 8 \in 4..7 <=> b % 8 >= 4
    OBVIOUS
  <2>2. QED BY <2>1 DEF Nibbles, Bits
<1>4. reverse32(w) = Rev(all)
  BY DEF reverse32
<1> HIDE DEF odd
<1>5. single \in Words /\ \A b \in Bits : Partner(b, 1) \in Bits /\ (b \in single <=> Partner(b, 1) \in w)
  BY <1>1, Swapped
<1> HIDE DEF single
<1>6. pairs \in Words /\ \A b \in Bits : Partner(b, 2) \in Bits /\ (b \in pairs <=> Partner(b, 2) \in single)
  BY <1>2, <1>5, Swapped
<1> HIDE DEF pairs
<1>7. all \in Words /\ \A b \in Bits : Partner(b, 4) \in Bits /\ (b \in all <=> Partner(b, 4) \in pairs)
  BY <1>3, <1>6, Swapped
<1> HIDE DEF all
<1> DEFINE Swap(b) == 8 * (3 - b \div 8) + (b % 8)
<1>8. \A b : b \in Rev(all) <=> b \in Bits /\ Swap(b) \in all
  BY DEF Rev
<1>9. \A b \in Bits : Swap(b) \in Bits
  BY DEF Bits
<1>10. \A b \in Bits : 31 - b \in Bits /\ Partner(Partner(Partner(Swap(b), 4), 2), 1) = 31 - b
  <2> SUFFICES ASSUME NEW b \in Bits
               PROVE  31 - b \in Bits /\ Partner(Partner(Partner(Swap(b), 4), 2), 1) = 31 - b
    OBVIOUS
  <2> DEFINE q == b \div 8
  <2> DEFINE r == b % 8
  <2>1. q \in 0..3 /\ r \in 0..7 /\ b = 8 * q + r /\ 31 - b \in Bits
    BY DEF Bits
  <2> HIDE DEF q, r
  <2> DEFINE p == 3 - q
  <2>2. Swap(b) = 8 * p + r /\ p \in 0..3 /\ 31 - b = 8 * p + 7 - r
    BY <2>1 DEF q, r
  <2> HIDE DEF p
  <2>3. Partner(8 * p + r, 4) = 8 * p + (IF r >= 4 THEN r - 4 ELSE r + 4)
    BY <2>1, <2>2 DEF Partner
  <2> DEFINE s == IF r >= 4 THEN r - 4 ELSE r + 4
  <2>4. s \in 0..7
    BY <2>1
  <2> DEFINE t == IF s % 4 >= 2 THEN s - 2 ELSE s + 2
  <2> HIDE DEF s
  <2>5. t \in 0..7 /\ Partner(8 * p + s, 2) = 8 * p + t
    BY <2>2, <2>4 DEF Partner
  <2> DEFINE u == IF t % 2 >= 1 THEN t - 1 ELSE t + 1
  <2> HIDE DEF t
  <2>6. Partner(8 * p + t, 1) = 8 * p + u
    BY <2>2, <2>5 DEF Partner
  <2>7. u = 7 - r
    BY <2>1 DEF s, t, u
  <2> HIDE DEF u
  <2>8. 8 * p + 7 - r = 8 * p + u
    BY <2>1, <2>2, <2>7
  <2>9. Partner(Partner(Partner(Swap(b), 4), 2), 1) = 8 * p + u
    BY <2>2, <2>3, <2>5, <2>6 DEF s
  <2>10. QED BY <2>1, <2>2, <2>8, <2>9
<1> HIDE DEF Swap
<1>11. \A b \in Bits : b \in Rev(all) <=> 31 - b \in w
  BY <1>5, <1>6, <1>7, <1>8, <1>9, <1>10
<1>12. \A b \in Bits : 31 - b \in w <=> b \in {31 - c : c \in w}
  <2> SUFFICES ASSUME NEW b \in Bits
               PROVE  31 - b \in w <=> b \in {31 - c : c \in w}
    OBVIOUS
  <2>1. b = 31 - (31 - b)
    BY DEF Bits
  <2>2. \A c \in w : b = 31 - c => 31 - b = c
    BY DEF Words, Bits
  <2>3. QED BY <2>1, <2>2
<1>13. {31 - c : c \in w} \subseteq Bits
  BY DEF Words, Bits
<1>14. Rev(all) \subseteq Bits
  BY <1>8
<1>15. QED BY <1>4, <1>11, <1>12, <1>13, <1>14

-----------------------------------------------------------------------------
(* popcount32, addition by addition *)

(* The carries of an addition *)
Carries(v, w, c) ==
  /\ c \in [0..32 -> 0..1]
  /\ c[0] = 0
  /\ \A b \in Bits : Digit2(v, b) + Digit2(w, b) + c[b] = Digit2(Add(v, w), b) + 2 * c[b + 1]

(* add adds the digits and carries. *)
LEMMA AddCarries ==
  ASSUME NEW v \in Words, NEW w \in Words
  PROVE  Add(v, w) \in Words /\ \E c : Carries(v, w, c)
<1> DEFINE Maj(b, x) == (b \in v /\ b \in w) \/ (x /\ b \in v \cup w)
<1> DEFINE Into(b) == \E k \in Bits : /\ k < b /\ k \in v /\ k \in w
                                      /\ \A j \in Bits : k < j /\ j < b => j \in v \cup w
<1> DEFINE E(g) == g = [b \in Bits |-> IF b = 0 THEN FALSE
                          ELSE \/ b - 1 \in v /\ b - 1 \in w
                               \/ g[b - 1] /\ b - 1 \in v \cup w]
<1> DEFINE f == [b \in Bits |-> Into(b)]
<1> DEFINE carry == CHOOSE g : E(g)
<1>1. ~Into(0)
  BY DEF Bits
<1>2. ASSUME NEW b \in 1..31
      PROVE  Into(b) <=> Maj(b - 1, Into(b - 1))
  <2>1. b \in Bits /\ b - 1 \in Bits
    BY DEF Bits
  <2>2. ASSUME b - 1 \in v, b - 1 \in w
        PROVE  Into(b)
    <3>1. \A j \in Bits : ~(b - 1 < j /\ j < b)
      BY DEF Bits
    <3>2. b - 1 < b
      OBVIOUS
    <3>3. QED BY <2>1, <2>2, <3>1, <3>2
  <2>3. ASSUME Into(b - 1), b - 1 \in v \cup w
        PROVE  Into(b)
    <3>1. PICK k \in Bits : /\ k < b - 1 /\ k \in v /\ k \in w
                            /\ \A j \in Bits : k < j /\ j < b - 1 => j \in v \cup w
      BY <2>3
    <3>2. \A j \in Bits : j < b => j < b - 1 \/ j = b - 1
      BY DEF Bits
    <3>3. k < b
      BY <3>1 DEF Bits
    <3>4. QED BY <2>3, <3>1, <3>2, <3>3
  <2>4. ASSUME Into(b)
        PROVE  Maj(b - 1, Into(b - 1))
    <3>1. PICK k \in Bits : /\ k < b /\ k \in v /\ k \in w
                            /\ \A j \in Bits : k < j /\ j < b => j \in v \cup w
      BY <2>4
    <3>2. CASE k = b - 1
      BY <3>1, <3>2
    <3>3. CASE k # b - 1
      <4>1. k < b - 1 /\ b - 1 < b /\ \A j \in Bits : j < b - 1 => j < b
        BY <3>1, <3>3 DEF Bits
      <4>2. b - 1 \in v \cup w
        BY <2>1, <3>1, <4>1
      <4>3. Into(b - 1)
        BY <3>1, <4>1
      <4> HIDE DEF Into
      <4>4. QED BY <4>2, <4>3
    <3>4. QED BY <3>2, <3>3
  <2> HIDE DEF Into
  <2>5. QED BY <2>2, <2>3, <2>4
<1>3. E(f)
  <2>1. ASSUME NEW b \in Bits
        PROVE  f[b] = IF b = 0 THEN FALSE
                      ELSE \/ b - 1 \in v /\ b - 1 \in w
                           \/ f[b - 1] /\ b - 1 \in v \cup w
    <3>1. f[b] = Into(b)
      OBVIOUS
    <3>2. CASE b = 0
      <4>1. f[b] = Into(0)
        BY <3>1, <3>2
      <4>2. Into(0) = FALSE
        BY <1>1
      <4> HIDE DEF f, Into
      <4>3. QED BY <3>2, <4>1, <4>2
    <3>3. CASE b # 0
      <4>1. b \in 1..31 /\ b - 1 \in Bits
        BY <3>3 DEF Bits
      <4>2. f[b - 1] = Into(b - 1)
        BY <4>1
      <4>3. Into(b) = Maj(b - 1, Into(b - 1))
        <5>1. Into(b) <=> Maj(b - 1, Into(b - 1))
          BY <1>2, <4>1
        <5>2. Into(b) \in BOOLEAN
          OBVIOUS
        <5>3. QED BY <5>1, <5>2
      <4> HIDE DEF f, Into
      <4>4. QED BY <3>1, <3>3, <4>2, <4>3
    <3>4. QED BY <3>2, <3>3
  <2>2. f = [b \in Bits |-> f[b]]
    OBVIOUS
  <2> HIDE DEF f
  <2>3. QED BY <2>1, <2>2
<1> HIDE DEF f, Into
<1>4. E(carry)
  <2> HIDE DEF E
  <2>1. QED BY <1>3
<1>5. Add(v, w) = {b \in Bits : (b \in Eor(v, w)) # carry[b]}
  BY DEF Add
<1> HIDE DEF carry
<1>6. carry[0] = FALSE /\ \A b \in 1..31 : carry[b] = Maj(b - 1, carry[b - 1])
  <2>1. 0 \in Bits /\ \A b \in 1..31 : b \in Bits /\ b # 0
    BY DEF Bits
  <2>2. \A b \in Bits : carry[b] = IF b = 0 THEN FALSE ELSE Maj(b - 1, carry[b - 1])
    BY <1>4
  <2> HIDE DEF Maj
  <2>3. QED BY <2>1, <2>2
<1>7. \A b \in Bits : carry[b] \in BOOLEAN
  <2>1. \A b \in Bits : b = 0 \/ b \in 1..31
    BY DEF Bits
  <2>2. QED BY <1>6, <2>1
<1> DEFINE c == [b \in 0..32 |-> IF b = 0 THEN 0 ELSE IF Maj(b - 1, carry[b - 1]) THEN 1 ELSE 0]
<1>8. \A b \in Bits : c[b] = IF carry[b] THEN 1 ELSE 0
  <2>1. ASSUME NEW b \in Bits
        PROVE  c[b] = IF carry[b] THEN 1 ELSE 0
    <3>1. b \in 0..32 /\ (b = 0 \/ b \in 1..31)
      BY DEF Bits
    <3>2. c[b] = IF b = 0 THEN 0 ELSE IF Maj(b - 1, carry[b - 1]) THEN 1 ELSE 0
      BY <3>1
    <3> HIDE DEF c
    <3>3. CASE b = 0
      BY <1>6, <3>2, <3>3
    <3>4. CASE b \in 1..31
      <4>1. carry[b] = Maj(b - 1, carry[b - 1]) /\ b # 0
        BY <1>6, <3>4
      <4> HIDE DEF Maj
      <4>2. QED BY <3>2, <4>1
    <3>5. QED BY <3>1, <3>3, <3>4
  <2>2. QED BY <2>1
<1>9. \A b \in Bits : c[b + 1] = IF Maj(b, carry[b]) THEN 1 ELSE 0
  <2>1. \A x \in 0..32 : \A b : x # 0 /\ b = x - 1 => c[x] = IF Maj(b, carry[b]) THEN 1 ELSE 0
    <3> HIDE DEF Maj
    <3>1. QED OBVIOUS
  <2> HIDE DEF c, Maj
  <2>2. ASSUME NEW b \in Bits
        PROVE  c[b + 1] = IF Maj(b, carry[b]) THEN 1 ELSE 0
    <3> DEFINE x == b + 1
    <3>1. x \in 0..32 /\ x # 0 /\ b = x - 1
      BY DEF Bits
    <3> HIDE DEF x
    <3>2. c[x] = IF Maj(b, carry[b]) THEN 1 ELSE 0
      BY <2>1, <3>1
    <3>3. QED BY <3>2 DEF x
  <2>3. QED BY <2>2
<1>10. c \in [0..32 -> 0..1] /\ c[0] = 0
  <2> HIDE DEF Maj
  <2>1. QED OBVIOUS
<1> HIDE DEF c
<1>11. ASSUME NEW b \in Bits
       PROVE  Digit2(v, b) + Digit2(w, b) + c[b] = Digit2(Add(v, w), b) + 2 * c[b + 1]
  <2> DEFINE s == b \in Add(v, w)
  <2>1. s <=> ((b \in v /\ b \notin w) \/ (b \in w /\ b \notin v)) # carry[b]
    BY <1>5 DEF Eor
  <2>2. /\ b \in v /\ b \in w => (s <=> carry[b])
        /\ b \in v /\ b \notin w => (s <=> ~carry[b])
        /\ b \notin v /\ b \in w => (s <=> ~carry[b])
        /\ b \notin v /\ b \notin w => (s <=> carry[b])
    BY <1>7, <2>1, Zenon
  <2>3. Digit2(Add(v, w), b) = IF s THEN 1 ELSE 0
    BY DEF Digit2
  <2>4. Digit2(v, b) = (IF b \in v THEN 1 ELSE 0) /\ Digit2(w, b) = (IF b \in w THEN 1 ELSE 0)
    BY DEF Digit2
  <2>5. c[b] = (IF carry[b] THEN 1 ELSE 0) /\ c[b + 1] = IF Maj(b, carry[b]) THEN 1 ELSE 0
    BY <1>8, <1>9
  <2> HIDE DEF s
  <2>6. CASE carry[b]
    <3>1. /\ c[b] = 1
          /\ c[b + 1] = IF b \in v \/ b \in w THEN 1 ELSE 0
          /\ s <=> (b \in v <=> b \in w)
      BY <2>2, <2>5, <2>6, Zenon
    <3>2. QED BY <2>3, <2>4, <3>1
  <2>7. CASE ~carry[b]
    <3>1. /\ c[b] = 0
          /\ c[b + 1] = IF b \in v /\ b \in w THEN 1 ELSE 0
          /\ s <=> ~(b \in v <=> b \in w)
      BY <2>2, <2>5, <2>7, Zenon
    <3>2. QED BY <2>3, <2>4, <3>1
  <2>8. QED BY <2>6, <2>7
<1>12. Add(v, w) \in Words
  BY <1>5 DEF Words
<1>13. QED BY <1>10, <1>11, <1>12 DEF Carries

(* Three bits of a word from bit p, and six, as numbers *)
Three(w, p) == Digit2(w, p) + 2 * Digit2(w, p + 1) + 4 * Digit2(w, p + 2)
Six(w, p) == Three(w, p) + 8 * Three(w, p + 3)

(* A digit is 0 or 1, and 0 beyond the word. *)
LEMMA Digits2 ==
  ASSUME NEW w \in Words, NEW b \in Nat
  PROVE  Digit2(w, b) \in 0..1 /\ (b > 31 => Digit2(w, b) = 0)
BY DEF Digit2, Words, Bits

(* The digits of a shifted word *)
LEMMA ShiftedDigits ==
  ASSUME NEW w \in Words, NEW n \in Bits
  PROVE  /\ Lsr(w, n) \in Words /\ Lsl(w, n) \in Words
         /\ \A b \in Nat : Digit2(Lsr(w, n), b) = Digit2(w, b + n)
         /\ \A b \in Nat : b + n <= 31 => Digit2(Lsl(w, n), b + n) = Digit2(w, b)
         /\ \A b \in Nat : b < n => Digit2(Lsl(w, n), b) = 0
<1>1. Lsr(w, n) \in Words /\ Lsl(w, n) \in Words
  BY DEF Lsr, Lsl, Words
<1>2. ASSUME NEW b \in Nat
      PROVE  Digit2(Lsr(w, n), b) = Digit2(w, b + n)
  <2>1. b + n \in w => b \in Bits
    BY DEF Words, Bits
  <2>2. b \in Lsr(w, n) <=> b + n \in w
    BY <2>1 DEF Lsr
  <2>3. QED BY <2>2 DEF Digit2
<1>3. ASSUME NEW b \in Nat, b + n <= 31
      PROVE  Digit2(Lsl(w, n), b + n) = Digit2(w, b)
  <2>1. b + n \in Lsl(w, n) <=> b \in w
    BY <1>3 DEF Lsl, Bits
  <2>2. QED BY <2>1 DEF Digit2
<1>4. ASSUME NEW b \in Nat, b < n
      PROVE  Digit2(Lsl(w, n), b) = 0
  <2>1. b \notin Lsl(w, n)
    BY <1>4 DEF Lsl, Bits
  <2>2. QED BY <2>1 DEF Digit2
<1>5. QED BY <1>1, <1>2, <1>3, <1>4

(* Fields of three bits whose sums fit are added field by field.  The last
   has two bits only. *)
LEMMA AddThrees ==
  ASSUME NEW v \in Words, NEW w \in Words,
         \A p \in Bits : p % 3 = 0 => /\ Digit2(v, p + 2) = 0 /\ Digit2(w, p + 2) = 0
                                      /\ p = 30 => Three(v, p) + Three(w, p) <= 3
  PROVE  \A p \in Bits : p % 3 = 0 => Three(Add(v, w), p) = Three(v, p) + Three(w, p)
<1> DEFINE a == Add(v, w)
<1>1. PICK c : Carries(v, w, c)
  BY AddCarries
<1>2. a \in Words
  BY AddCarries
<1> HIDE DEF a
<1>3. /\ c[0] = 0 /\ \A b \in 0..32 : c[b] \in 0..1
      /\ \A b \in Bits : Digit2(v, b) + Digit2(w, b) + c[b] = Digit2(a, b) + 2 * c[b + 1]
  BY <1>1 DEF Carries, a
<1>4. \A b \in 0..34 : Digit2(v, b) \in 0..1 /\ Digit2(w, b) \in 0..1 /\ Digit2(a, b) \in 0..1
  BY <1>2, Digits2
<1>5. ASSUME NEW p \in Bits, p % 3 = 0
      PROVE  c[p] = 0
  <2>1. CASE p = 0
    BY <1>3, <2>1
  <2>2. CASE p # 0
    <3> DEFINE q == p - 3
    <3> DEFINE b == p - 1
    <3>1. q \in Bits /\ q % 3 = 0 /\ b \in Bits /\ b \in 0..32 /\ b \in 0..34 /\ p \in 0..32
          /\ b = q + 2 /\ p = b + 1
      BY <1>5, <2>2 DEF Bits
    <3> HIDE DEF q, b
    <3>2. Digit2(v, b) = 0 /\ Digit2(w, b) = 0
      BY <3>1
    <3>3. 0 + 0 + c[b] = Digit2(a, b) + 2 * c[p]
      BY <1>3, <3>1, <3>2
    <3>4. QED BY <1>3, <1>4, <3>1, <3>3
  <2>3. QED BY <2>1, <2>2
<1>6. ASSUME NEW p \in Bits, p % 3 = 0
      PROVE  Three(a, p) = Three(v, p) + Three(w, p)
  <2> DEFINE p1 == p + 1
  <2> DEFINE p2 == p + 2
  <2> DEFINE p3 == p + 3
  <2>1. p \in 0..30 /\ p \in 0..34 /\ p1 \in Bits /\ p1 \in 0..34 /\ p1 \in 0..32 /\ p2 \in 0..34 /\ p2 \in 0..32
    BY <1>6 DEF Bits
  <2>2. p # 30 => p2 \in Bits /\ p3 \in 0..32
    BY <1>6 DEF Bits
  <2>3. p1 + 1 = p2 /\ p2 + 1 = p3
    BY <2>1
  <2>4. /\ Digit2(v, p) + Digit2(w, p) + c[p] = Digit2(a, p) + 2 * c[p1]
        /\ Digit2(v, p1) + Digit2(w, p1) + c[p1] = Digit2(a, p1) + 2 * c[p2]
        /\ p # 30 => Digit2(v, p2) + Digit2(w, p2) + c[p2] = Digit2(a, p2) + 2 * c[p3]
    <3> HIDE DEF p2, p3
    <3>1. Digit2(v, p) + Digit2(w, p) + c[p] = Digit2(a, p) + 2 * c[p1]
      BY <1>3, <1>6
    <3> HIDE DEF p1
    <3>2. Digit2(v, p1) + Digit2(w, p1) + c[p1] = Digit2(a, p1) + 2 * c[p2]
      BY <1>3, <2>1, <2>3
    <3>3. p # 30 => Digit2(v, p2) + Digit2(w, p2) + c[p2] = Digit2(a, p2) + 2 * c[p3]
      BY <1>3, <2>2, <2>3
    <3>4. QED BY <3>1, <3>2, <3>3
  <2>5. /\ Three(v, p) = Digit2(v, p) + 2 * Digit2(v, p1) + 4 * Digit2(v, p2)
        /\ Three(w, p) = Digit2(w, p) + 2 * Digit2(w, p1) + 4 * Digit2(w, p2)
        /\ Three(a, p) = Digit2(a, p) + 2 * Digit2(a, p1) + 4 * Digit2(a, p2)
    BY DEF Three
  <2>6. Digit2(v, p2) = 0 /\ Digit2(w, p2) = 0 /\ (p = 30 => Three(v, p) + Three(w, p) <= 3)
    BY <1>6
  <2>7. c[p] = 0 /\ c[p1] \in 0..1 /\ c[p2] \in 0..1 /\ (p # 30 => c[p3] \in 0..1)
    BY <1>3, <1>5, <1>6, <2>1, <2>2
  <2>8. p = 30 => Digit2(a, p2) = 0
    BY <1>2, Digits2
  <2>9. /\ Digit2(v, p) \in 0..1 /\ Digit2(v, p1) \in 0..1 /\ Digit2(v, p2) \in 0..1
        /\ Digit2(w, p) \in 0..1 /\ Digit2(w, p1) \in 0..1 /\ Digit2(w, p2) \in 0..1
        /\ Digit2(a, p) \in 0..1 /\ Digit2(a, p1) \in 0..1 /\ Digit2(a, p2) \in 0..1
    BY <1>4, <2>1
  <2> HIDE DEF p1, p2, p3
  <2>10. CASE p = 30
    BY <2>4, <2>5, <2>6, <2>7, <2>8, <2>9, <2>10
  <2>11. CASE p # 30
    BY <2>4, <2>5, <2>6, <2>7, <2>9, <2>11
  <2>12. QED BY <2>10, <2>11
<1>7. QED BY <1>6 DEF a

(* Six bits without a carry into them, whose sum fits, are added as a number
   and carry nothing on. *)
LEMMA AddSix ==
  ASSUME NEW v \in Words, NEW w \in Words, NEW c, Carries(v, w, c), NEW p \in 0..26,
         c[p] = 0, Six(v, p) + Six(w, p) < 64
  PROVE  c[p + 6] = 0 /\ Six(Add(v, w), p) = Six(v, p) + Six(w, p)
<1> DEFINE a == Add(v, w)
<1> DEFINE p1 == p + 1
<1> DEFINE p2 == p + 2
<1> DEFINE p3 == p + 3
<1> DEFINE p4 == p + 4
<1> DEFINE p5 == p + 5
<1> DEFINE p6 == p + 6
<1>1. a \in Words
  BY AddCarries
<1> HIDE DEF a
<1>2. /\ \A b \in 0..32 : c[b] \in 0..1
      /\ \A b \in Bits : Digit2(v, b) + Digit2(w, b) + c[b] = Digit2(a, b) + 2 * c[b + 1]
  BY DEF Carries, a
<1>3. \A b \in Bits : Digit2(v, b) \in 0..1 /\ Digit2(w, b) \in 0..1 /\ Digit2(a, b) \in 0..1
  BY <1>1, Digits2 DEF Bits
<1>4. /\ p \in Bits /\ p1 \in Bits /\ p2 \in Bits /\ p3 \in Bits /\ p4 \in Bits /\ p5 \in Bits
      /\ p1 \in 0..32 /\ p2 \in 0..32 /\ p3 \in 0..32 /\ p4 \in 0..32 /\ p5 \in 0..32 /\ p6 \in 0..32
      /\ p + 1 = p1 /\ p1 + 1 = p2 /\ p2 + 1 = p3 /\ p3 + 1 = p4 /\ p4 + 1 = p5 /\ p5 + 1 = p6
  BY DEF Bits
<1>5. /\ Six(v, p) = Digit2(v, p) + 2 * Digit2(v, p1) + 4 * Digit2(v, p2)
                       + 8 * (Digit2(v, p3) + 2 * Digit2(v, p4) + 4 * Digit2(v, p5))
      /\ Six(w, p) = Digit2(w, p) + 2 * Digit2(w, p1) + 4 * Digit2(w, p2)
                       + 8 * (Digit2(w, p3) + 2 * Digit2(w, p4) + 4 * Digit2(w, p5))
      /\ Six(a, p) = Digit2(a, p) + 2 * Digit2(a, p1) + 4 * Digit2(a, p2)
                       + 8 * (Digit2(a, p3) + 2 * Digit2(a, p4) + 4 * Digit2(a, p5))
  <2>1. p + 3 = p3 /\ p3 + 1 = p4 /\ p3 + 2 = p5
    OBVIOUS
  <2>2. \A x : Three(x, p3) = Digit2(x, p3) + 2 * Digit2(x, p4) + 4 * Digit2(x, p5)
    <3> HIDE DEF p3, p4, p5
    <3>1. QED BY <2>1 DEF Three
  <2>3. \A x : Three(x, p) = Digit2(x, p) + 2 * Digit2(x, p1) + 4 * Digit2(x, p2)
    BY DEF Three
  <2>4. \A x : Six(x, p) = Three(x, p) + 8 * Three(x, p3)
    BY DEF Six
  <2> HIDE DEF p1, p2, p3, p4, p5
  <2>5. QED BY <2>2, <2>3, <2>4
<1>6. c[p6] = c[p + 6]
  OBVIOUS
<1> HIDE DEF p1, p2, p3, p4, p5, p6
<1>7. /\ Digit2(v, p) + Digit2(w, p) + 0 = Digit2(a, p) + 2 * c[p1]
      /\ Digit2(v, p1) + Digit2(w, p1) + c[p1] = Digit2(a, p1) + 2 * c[p2]
      /\ Digit2(v, p2) + Digit2(w, p2) + c[p2] = Digit2(a, p2) + 2 * c[p3]
      /\ Digit2(v, p3) + Digit2(w, p3) + c[p3] = Digit2(a, p3) + 2 * c[p4]
      /\ Digit2(v, p4) + Digit2(w, p4) + c[p4] = Digit2(a, p4) + 2 * c[p5]
      /\ Digit2(v, p5) + Digit2(w, p5) + c[p5] = Digit2(a, p5) + 2 * c[p6]
  BY <1>2, <1>4
<1>8. /\ c[p1] \in 0..1 /\ c[p2] \in 0..1 /\ c[p3] \in 0..1 /\ c[p4] \in 0..1 /\ c[p5] \in 0..1 /\ c[p6] \in 0..1
  BY <1>2, <1>4
<1>9. /\ Digit2(v, p) \in 0..1 /\ Digit2(v, p1) \in 0..1 /\ Digit2(v, p2) \in 0..1
      /\ Digit2(v, p3) \in 0..1 /\ Digit2(v, p4) \in 0..1 /\ Digit2(v, p5) \in 0..1
      /\ Digit2(w, p) \in 0..1 /\ Digit2(w, p1) \in 0..1 /\ Digit2(w, p2) \in 0..1
      /\ Digit2(w, p3) \in 0..1 /\ Digit2(w, p4) \in 0..1 /\ Digit2(w, p5) \in 0..1
      /\ Digit2(a, p) \in 0..1 /\ Digit2(a, p1) \in 0..1 /\ Digit2(a, p2) \in 0..1
      /\ Digit2(a, p3) \in 0..1 /\ Digit2(a, p4) \in 0..1 /\ Digit2(a, p5) \in 0..1
  BY <1>3, <1>4
<1>10. Six(v, p) + Six(w, p) = Six(a, p) + 64 * c[p6]
  BY <1>5, <1>7, <1>8, <1>9
<1> DEFINE N(x) == Digit2(x, p) + 2 * Digit2(x, p1) + 4 * Digit2(x, p2)
                     + 8 * (Digit2(x, p3) + 2 * Digit2(x, p4) + 4 * Digit2(x, p5))
<1>11. Six(a, p) \in Nat /\ Six(v, p) \in Nat /\ Six(w, p) \in Nat
  <2>1. \A x : Digit2(x, p) \in 0..1 /\ Digit2(x, p1) \in 0..1 /\ Digit2(x, p2) \in 0..1
               /\ Digit2(x, p3) \in 0..1 /\ Digit2(x, p4) \in 0..1 /\ Digit2(x, p5) \in 0..1 => N(x) \in Nat
    OBVIOUS
  <2>2. N(a) \in Nat /\ N(v) \in Nat /\ N(w) \in Nat
    <3> HIDE DEF N
    <3>1. QED BY <1>9, <2>1
  <2>3. Six(a, p) = N(a) /\ Six(v, p) = N(v) /\ Six(w, p) = N(w)
    BY <1>5
  <2> HIDE DEF N
  <2>4. QED BY <2>2, <2>3
<1>12. c[p6] = 0 /\ Six(a, p) = Six(v, p) + Six(w, p)
  <2> DEFINE x == Six(v, p) + Six(w, p)
  <2>1. Six(a, p) \in Int /\ x \in Int
    BY <1>11
  <2>2. x < 64 /\ x = Six(a, p) + 64 * c[p6]
    BY <1>10
  <2> HIDE DEF x
  <2>3. c[p6] = 0 /\ x = Six(a, p)
    BY <1>8, <1>11, <2>1, <2>2
  <2>4. QED BY <2>3 DEF x
<1>13. QED BY <1>6, <1>12 DEF a

(* Every third bit of a word, as fields of three bits *)
LEMMA OneOfThree ==
  ASSUME NEW u \in Words
  PROVE  /\ u \cap Thirds \in Words
         /\ \A p \in Bits : p % 3 = 0 =>
              /\ Digit2(u \cap Thirds, p) = Digit2(u, p)
              /\ Digit2(u \cap Thirds, p + 1) = 0 /\ Digit2(u \cap Thirds, p + 2) = 0
              /\ Three(u \cap Thirds, p) = Digit2(u, p)
<1>1. u \cap Thirds \in Words
  BY DEF Words
<1>2. ASSUME NEW p \in Bits, p % 3 = 0
      PROVE  /\ Digit2(u \cap Thirds, p) = Digit2(u, p)
             /\ Digit2(u \cap Thirds, p + 1) = 0 /\ Digit2(u \cap Thirds, p + 2) = 0
             /\ Three(u \cap Thirds, p) = Digit2(u, p)
  <2>1. p \in Thirds /\ p + 1 \notin Thirds /\ p + 2 \notin Thirds
    BY <1>2 DEF Thirds, Bits
  <2>2. /\ Digit2(u \cap Thirds, p) = Digit2(u, p)
        /\ Digit2(u \cap Thirds, p + 1) = 0 /\ Digit2(u \cap Thirds, p + 2) = 0
    BY <2>1 DEF Digit2
  <2>3. Digit2(u, p) \in 0..1
    BY DEF Digit2
  <2>4. QED BY <2>2, <2>3 DEF Three
<1>3. QED BY <1>1, <1>2

(* How many of the bits p, p + 1 and p + 2 are ones *)
Ones3(w, p) == Digit2(w, p) + Digit2(w, p + 1) + Digit2(w, p + 2)

(* The first two additions count the ones of each field of three bits. *)
LEMMA CountThrees ==
  ASSUME NEW w \in Words, NEW t,
         t = Add(Add(w \cap Thirds, Lsr(w, 1) \cap Thirds), Lsr(w, 2) \cap Thirds)
  PROVE  /\ t \in Words
         /\ \A p \in Bits : p % 3 = 0 => /\ Three(t, p) = Ones3(w, p) /\ Ones3(w, p) \in 0..3
                                         /\ Digit2(t, p + 2) = 0
                                         /\ p = 30 => Ones3(w, p) \in 0..2
<1> DEFINE x == w \cap Thirds
<1> DEFINE y == Lsr(w, 1) \cap Thirds
<1> DEFINE z == Lsr(w, 2) \cap Thirds
<1> DEFINE s == Add(x, y)
<1>1. Lsr(w, 1) \in Words /\ Lsr(w, 2) \in Words
  BY DEF Lsr, Words
<1>2. x \in Words /\ y \in Words /\ z \in Words
  BY <1>1, OneOfThree
<1>3. s \in Words /\ t \in Words
  BY <1>2, AddCarries
<1>4. ASSUME NEW p \in Bits, p % 3 = 0
      PROVE  /\ Three(x, p) = Digit2(w, p) /\ Digit2(x, p + 2) = 0
             /\ Three(y, p) = Digit2(w, p + 1) /\ Digit2(y, p + 2) = 0
             /\ Three(z, p) = Digit2(w, p + 2) /\ Digit2(z, p + 2) = 0
             /\ Digit2(w, p) \in 0..1 /\ Digit2(w, p + 1) \in 0..1 /\ Digit2(w, p + 2) \in 0..1
             /\ p = 30 => Digit2(w, p + 2) = 0
  <2>1. /\ Three(x, p) = Digit2(w, p) /\ Digit2(x, p + 2) = 0
        /\ Three(y, p) = Digit2(Lsr(w, 1), p) /\ Digit2(y, p + 2) = 0
        /\ Three(z, p) = Digit2(Lsr(w, 2), p) /\ Digit2(z, p + 2) = 0
    BY <1>1, <1>4, OneOfThree
  <2>2. p \in Nat /\ p + 1 \in Nat /\ p + 2 \in Nat /\ 1 \in Bits /\ 2 \in Bits
    BY DEF Bits
  <2>3. Digit2(Lsr(w, 1), p) = Digit2(w, p + 1) /\ Digit2(Lsr(w, 2), p) = Digit2(w, p + 2)
    BY <2>2, ShiftedDigits
  <2>4. Digit2(w, p) \in 0..1 /\ Digit2(w, p + 1) \in 0..1 /\ Digit2(w, p + 2) \in 0..1
    BY DEF Digit2
  <2>5. p = 30 => Digit2(w, p + 2) = 0
    BY <2>2, Digits2
  <2> HIDE DEF x, y, z
  <2>6. QED BY <2>1, <2>3, <2>4, <2>5
<1>5. t = Add(s, z)
  OBVIOUS
<1> HIDE DEF x, y, z
<1>6. \A p \in Bits : p % 3 = 0 => Three(s, p) = Digit2(w, p) + Digit2(w, p + 1)
  <2>1. \A p \in Bits : p % 3 = 0 => (p = 30 => Three(x, p) + Three(y, p) <= 3)
    BY <1>4
  <2>2. \A p \in Bits : p % 3 = 0 => Three(s, p) = Three(x, p) + Three(y, p)
    BY <1>2, <1>4, <2>1, AddThrees
  <2>3. QED BY <1>4, <2>2
<1> HIDE DEF s
<1>7. \A p \in Bits : p % 3 = 0 => Digit2(s, p + 2) = 0
  <2> SUFFICES ASSUME NEW p \in Bits, p % 3 = 0
               PROVE  Digit2(s, p + 2) = 0
    OBVIOUS
  <2>1. Three(s, p) <= 2
    BY <1>4, <1>6
  <2>2. Digit2(s, p) \in 0..1 /\ Digit2(s, p + 1) \in 0..1 /\ Digit2(s, p + 2) \in 0..1
    BY DEF Digit2
  <2>3. QED BY <2>1, <2>2 DEF Three
<1>8. \A p \in Bits : p % 3 = 0 => Three(t, p) = Ones3(w, p)
  <2>1. \A p \in Bits : p % 3 = 0 => (p = 30 => Three(s, p) + Three(z, p) <= 3)
    BY <1>4, <1>6
  <2>2. \A p \in Bits : p % 3 = 0 => Three(t, p) = Three(s, p) + Three(z, p)
    BY <1>2, <1>3, <1>4, <1>5, <1>7, <2>1, AddThrees
  <2>3. QED BY <1>4, <1>6, <2>2 DEF Ones3
<1>9. \A p \in Bits : p % 3 = 0 => /\ Ones3(w, p) \in 0..3
                                   /\ p = 30 => Ones3(w, p) \in 0..2
  BY <1>4 DEF Ones3
<1>10. \A p \in Bits : p % 3 = 0 => Digit2(t, p + 2) = 0
  <2> SUFFICES ASSUME NEW p \in Bits, p % 3 = 0
               PROVE  Digit2(t, p + 2) = 0
    OBVIOUS
  <2>1. Three(t, p) = Ones3(w, p) /\ Ones3(w, p) \in 0..3
    BY <1>8, <1>9
  <2>2. Digit2(t, p) \in 0..1 /\ Digit2(t, p + 1) \in 0..1 /\ Digit2(t, p + 2) \in 0..1
    BY DEF Digit2
  <2>3. QED BY <2>1, <2>2 DEF Three
<1>11. QED BY <1>3, <1>8, <1>9, <1>10

(* How many of the six bits from p are ones *)
Ones6(w, p) == Ones3(w, p) + Ones3(w, p + 3)

(* The third addition counts the ones of each field of six bits. *)
LEMMA CountSixes ==
  ASSUME NEW w \in Words, NEW t,
         t = Add(Add(w \cap Thirds, Lsr(w, 1) \cap Thirds), Lsr(w, 2) \cap Thirds),
         NEW s, s = Add(t, Lsr(t, 3)) \cap Sixths
  PROVE  /\ s \in Words
         /\ \A p \in Bits : p % 6 = 0 => /\ Six(s, p) = Ones6(w, p) /\ Ones6(w, p) \in 0..6
                                         /\ Digit2(s, p + 5) = 0
<1> DEFINE u == Lsr(t, 3)
<1> DEFINE a == Add(t, u)
<1>1. /\ t \in Words
      /\ \A p \in Bits : p % 3 = 0 => /\ Three(t, p) = Ones3(w, p) /\ Ones3(w, p) \in 0..3
                                      /\ Digit2(t, p + 2) = 0
                                      /\ p = 30 => Ones3(w, p) \in 0..2
  BY CountThrees
<1>2. u \in Words /\ \A b \in Nat : Digit2(u, b) = Digit2(t, b + 3)
  <2>1. 3 \in Bits
    BY DEF Bits
  <2>2. QED BY <1>1, <2>1, ShiftedDigits
<1>3. a \in Words
  BY <1>1, <1>2, AddCarries
<1> HIDE DEF u
<1>4. ASSUME NEW p \in Bits, p % 3 = 0
      PROVE  /\ Three(u, p) = Ones3(w, p + 3) /\ Ones3(w, p + 3) \in 0..3
             /\ Digit2(u, p + 2) = 0
             /\ p = 30 => Ones3(w, p + 3) = 0
  <2> DEFINE q == p + 3
  <2>1. p \in Nat /\ p + 1 \in Nat /\ p + 2 \in Nat /\ q \in Nat /\ q + 1 \in Nat /\ q + 2 \in Nat
        /\ p + 1 + 3 = q + 1 /\ p + 2 + 3 = q + 2 /\ p + 3 = q
    BY DEF Bits
  <2>2. p # 30 => q \in Bits /\ q % 3 = 0
    BY <1>4 DEF Bits
  <2>3. p = 30 => q > 31
    BY <1>4
  <2> HIDE DEF q
  <2>4. Digit2(u, p) = Digit2(t, q) /\ Digit2(u, p + 1) = Digit2(t, q + 1) /\ Digit2(u, p + 2) = Digit2(t, q + 2)
    BY <1>2, <2>1
  <2>5. Three(u, p) = Three(t, q)
    BY <2>4 DEF Three
  <2>6. CASE p # 30
    <3>1. Three(t, q) = Ones3(w, q) /\ Ones3(w, q) \in 0..3 /\ Digit2(t, q + 2) = 0
      BY <1>1, <2>2, <2>6
    <3>2. QED BY <2>1, <2>4, <2>5, <2>6, <3>1
  <2>7. CASE p = 30
    <3>1. q + 1 > 31 /\ q + 2 > 31
      BY <2>1, <2>3, <2>7
    <3>2. /\ Digit2(t, q) = 0 /\ Digit2(t, q + 1) = 0 /\ Digit2(t, q + 2) = 0
          /\ Digit2(w, q) = 0 /\ Digit2(w, q + 1) = 0 /\ Digit2(w, q + 2) = 0
      BY <1>1, <2>1, <2>3, <2>7, <3>1, Digits2
    <3>3. Three(t, q) = 0 /\ Ones3(w, q) = 0
      BY <3>2 DEF Three, Ones3
    <3>4. QED BY <2>1, <2>4, <2>5, <3>2, <3>3
  <2>8. QED BY <2>6, <2>7
<1>5. \A p \in Bits : p % 3 = 0 => Three(a, p) = Ones3(w, p) + Ones3(w, p + 3)
  <2>1. ASSUME NEW p \in Bits, p % 3 = 0, p = 30
        PROVE  Three(t, p) + Three(u, p) <= 3
    <3>1. Three(t, p) \in 0..2
      BY <1>1, <2>1
    <3>2. Three(u, p) = 0
      BY <1>4, <2>1
    <3>3. QED BY <3>1, <3>2
  <2>2. \A p \in Bits : p % 3 = 0 => Three(a, p) = Three(t, p) + Three(u, p)
    BY <1>1, <1>2, <1>4, <2>1, AddThrees
  <2>3. QED BY <1>1, <1>4, <2>2
<1>6. s = a \cap Sixths
  BY DEF u
<1> HIDE DEF a
<1>7. s \in Words
  BY <1>3, <1>6 DEF Words
<1>8. ASSUME NEW p \in Bits, p % 6 = 0
      PROVE  /\ Six(s, p) = Ones6(w, p) /\ Ones6(w, p) \in 0..6
             /\ Digit2(s, p + 5) = 0
  <2> DEFINE q == p + 3
  <2>1. p % 3 = 0
    BY <1>8 DEF Bits
  <2>2. /\ p \in Sixths
        /\ p + 1 \in Bits => p + 1 \in Sixths
        /\ p + 2 \in Bits => p + 2 \in Sixths
        /\ q \notin Sixths /\ q + 1 \notin Sixths /\ q + 2 \notin Sixths
    BY <1>8 DEF Sixths, Bits
  <2>3. q + 2 = p + 5
    BY DEF Bits
  <2>4. a \subseteq Bits
    BY <1>3 DEF Words
  <2> HIDE DEF q
  <2>5. /\ Digit2(s, p) = Digit2(a, p)
        /\ Digit2(s, p + 1) = Digit2(a, p + 1)
        /\ Digit2(s, p + 2) = Digit2(a, p + 2)
        /\ Digit2(s, q) = 0 /\ Digit2(s, q + 1) = 0 /\ Digit2(s, q + 2) = 0
    BY <1>6, <2>2, <2>4 DEF Digit2
  <2>6. Three(s, p) = Three(a, p) /\ Three(s, q) = 0
    BY <2>5 DEF Three
  <2>7. Three(a, p) = Ones6(w, p) /\ Ones6(w, p) \in 0..6
    BY <1>1, <1>4, <1>5, <2>1 DEF Ones6
  <2>8. Six(s, p) = Three(s, p) + 8 * Three(s, q)
    BY DEF Six, q
  <2>9. QED BY <2>3, <2>5, <2>6, <2>7, <2>8
<1>9. QED BY <1>7, <1>8

(* The fourth addition adds neighbouring fields of six bits. *)
LEMMA CountTwelves ==
  ASSUME NEW w \in Words, NEW s \in Words,
         \A p \in Bits : p % 6 = 0 => /\ Six(s, p) = Ones6(w, p) /\ Ones6(w, p) \in 0..6
                                      /\ Digit2(s, p + 5) = 0
  PROVE  /\ Add(s, Lsr(s, 6)) \in Words
         /\ \A p \in Bits : p % 6 = 0 /\ p # 30 =>
              /\ Six(Add(s, Lsr(s, 6)), p) = Ones6(w, p) + Ones6(w, p + 6)
              /\ Ones6(w, p) \in 0..6 /\ Ones6(w, p + 6) \in 0..6
<1> DEFINE u == Lsr(s, 6)
<1>1. u \in Words /\ \A b \in Nat : Digit2(u, b) = Digit2(s, b + 6)
  <2>1. 6 \in Bits
    BY DEF Bits
  <2>2. QED BY <2>1, ShiftedDigits
<1> HIDE DEF u
<1>2. PICK c : Carries(s, u, c)
  BY <1>1, AddCarries
<1>3. Add(s, u) \in Words
  BY <1>1, AddCarries
<1>4. /\ c[0] = 0 /\ \A b \in 0..32 : c[b] \in 0..1
      /\ \A b \in Bits : Digit2(s, b) + Digit2(u, b) + c[b] = Digit2(Add(s, u), b) + 2 * c[b + 1]
  BY <1>2 DEF Carries
<1>5. ASSUME NEW p \in Bits, p % 6 = 0
      PROVE  c[p] = 0
  <2>1. CASE p = 0
    BY <1>4, <2>1
  <2>2. CASE p # 0
    <3> DEFINE q == p - 6
    <3> DEFINE b == p - 1
    <3> DEFINE d == p + 5
    <3>1. q \in Bits /\ q % 6 = 0 /\ b \in Bits /\ b \in 0..32 /\ b \in Nat /\ p \in 0..32
          /\ b = q + 5 /\ p = b + 1 /\ b + 6 = d /\ d = p + 5
      BY <1>5, <2>2 DEF Bits
    <3>2. Digit2(s, d) = 0
      BY <1>5
    <3> HIDE DEF q, b, d
    <3>3. Digit2(s, b) = 0
      BY <3>1
    <3>4. Digit2(u, b) = 0
      BY <1>1, <3>1, <3>2
    <3>5. 0 + 0 + c[b] = Digit2(Add(s, u), b) + 2 * c[p]
      BY <1>4, <3>1, <3>3, <3>4
    <3>6. Digit2(Add(s, u), b) \in 0..1
      BY DEF Digit2
    <3>7. QED BY <1>4, <3>1, <3>5, <3>6
  <2>3. QED BY <2>1, <2>2
<1>6. ASSUME NEW p \in Bits, p % 6 = 0, p # 30
      PROVE  /\ Six(Add(s, u), p) = Ones6(w, p) + Ones6(w, p + 6)
             /\ Ones6(w, p) \in 0..6 /\ Ones6(w, p + 6) \in 0..6
  <2> DEFINE q == p + 6
  <2>1. q \in Bits /\ q % 6 = 0 /\ p \in 0..26
    BY <1>6 DEF Bits
  <2>2. /\ p \in Nat /\ p + 1 \in Nat /\ p + 2 \in Nat
        /\ p + 3 \in Nat /\ p + 3 + 1 \in Nat /\ p + 3 + 2 \in Nat
        /\ p + 6 = q /\ p + 1 + 6 = q + 1 /\ p + 2 + 6 = q + 2
        /\ p + 3 + 6 = q + 3 /\ p + 3 + 1 + 6 = q + 3 + 1 /\ p + 3 + 2 + 6 = q + 3 + 2
    BY DEF Bits
  <2> HIDE DEF q
  <2>3. Six(u, p) = Six(s, q)
    <3>1. /\ Digit2(u, p) = Digit2(s, q) /\ Digit2(u, p + 1) = Digit2(s, q + 1)
          /\ Digit2(u, p + 2) = Digit2(s, q + 2) /\ Digit2(u, p + 3) = Digit2(s, q + 3)
          /\ Digit2(u, p + 3 + 1) = Digit2(s, q + 3 + 1) /\ Digit2(u, p + 3 + 2) = Digit2(s, q + 3 + 2)
      <4>1. ASSUME NEW x \in Nat
            PROVE  Digit2(u, x) = Digit2(s, x + 6)
        BY <1>1
      <4>2. Digit2(u, p) = Digit2(s, q) /\ Digit2(u, p + 1) = Digit2(s, q + 1)
            /\ Digit2(u, p + 2) = Digit2(s, q + 2)
        BY <2>2, <4>1
      <4>3. Digit2(u, p + 3) = Digit2(s, q + 3)
            /\ Digit2(u, p + 3 + 1) = Digit2(s, q + 3 + 1) /\ Digit2(u, p + 3 + 2) = Digit2(s, q + 3 + 2)
        BY <2>2, <4>1
      <4>4. QED BY <4>2, <4>3
    <3>2. QED BY <3>1 DEF Six, Three
  <2>4. /\ Six(s, p) = Ones6(w, p) /\ Ones6(w, p) \in 0..6
        /\ Six(s, q) = Ones6(w, q) /\ Ones6(w, q) \in 0..6
    BY <1>6, <2>1
  <2>5. Six(s, p) + Six(u, p) < 64
    BY <2>3, <2>4
  <2>6. c[p] = 0
    BY <1>5, <1>6
  <2>7. Six(Add(s, u), p) = Six(s, p) + Six(u, p)
    BY <1>1, <1>2, <2>1, <2>5, <2>6, AddSix
  <2>8. QED BY <2>2, <2>3, <2>4, <2>7
<1>7. QED BY <1>3, <1>6 DEF u

(* The columns that the product is added up in *)
InColumns == {2, 8, 14, 20, 26}

(* Columns without digits below the first, whose sums fit, are added one by
   one. *)
LEMMA AddColumns ==
  ASSUME NEW v \in Words, NEW w \in Words,
         Digit2(v, 0) = 0, Digit2(v, 1) = 0, Digit2(w, 0) = 0, Digit2(w, 1) = 0,
         \A p \in InColumns : Six(v, p) + Six(w, p) < 64
  PROVE  /\ Add(v, w) \in Words
         /\ Digit2(Add(v, w), 0) = 0 /\ Digit2(Add(v, w), 1) = 0
         /\ \A p \in InColumns : Six(Add(v, w), p) = Six(v, p) + Six(w, p)
<1> DEFINE a == Add(v, w)
<1>1. PICK c : Carries(v, w, c)
  BY AddCarries
<1>2. a \in Words
  BY AddCarries
<1>3. c[2] = 0 /\ Digit2(a, 0) = 0 /\ Digit2(a, 1) = 0
  <2>1. /\ c[0] = 0 /\ c[1] \in 0..1 /\ c[2] \in 0..1
        /\ Digit2(v, 0) + Digit2(w, 0) + c[0] = Digit2(a, 0) + 2 * c[0 + 1]
        /\ Digit2(v, 1) + Digit2(w, 1) + c[1] = Digit2(a, 1) + 2 * c[1 + 1]
    <3>1. 0 \in Bits /\ 1 \in Bits /\ 0 \in 0..32 /\ 1 \in 0..32 /\ 2 \in 0..32
      BY DEF Bits
    <3>2. QED BY <1>1, <3>1 DEF Carries
  <2>2. Digit2(a, 0) \in 0..1 /\ Digit2(a, 1) \in 0..1
    BY DEF Digit2
  <2>3. c[0 + 1] = c[1] /\ c[1 + 1] = c[2]
    OBVIOUS
  <2> HIDE DEF a
  <2>4. QED BY <2>1, <2>2, <2>3
<1> HIDE DEF a
<1>4. \A p \in InColumns : p \in 0..26
  BY DEF InColumns
<1>5. \A p \in InColumns : c[p] = 0 => c[p + 6] = 0 /\ Six(a, p) = Six(v, p) + Six(w, p)
  BY <1>1, <1>4, AddSix DEF a
<1>6. 2 \in InColumns /\ 8 \in InColumns /\ 14 \in InColumns /\ 20 \in InColumns /\ 26 \in InColumns
      /\ 2 + 6 = 8 /\ 8 + 6 = 14 /\ 14 + 6 = 20 /\ 20 + 6 = 26
  BY DEF InColumns
<1>7. c[8] = 0
  BY <1>3, <1>5, <1>6
<1>8. c[14] = 0
  BY <1>5, <1>6, <1>7
<1>9. c[20] = 0
  BY <1>5, <1>6, <1>8
<1>10. c[26] = 0
  BY <1>5, <1>6, <1>9
<1>11. \A p \in InColumns : Six(a, p) = Six(v, p) + Six(w, p)
  <2>1. \A p \in InColumns : c[p] = 0
    BY <1>3, <1>7, <1>8, <1>9, <1>10 DEF InColumns
  <2>2. QED BY <1>5, <2>1
<1>12. QED BY <1>2, <1>3, <1>11 DEF a

(* Six bits of a word shifted to the left *)
LEMMA ShiftedSix ==
  ASSUME NEW w \in Words, NEW n \in Bits, NEW p \in Nat
  PROVE  /\ p + n + 5 <= 31 => Six(Lsl(w, n), p + n) = Six(w, p)
         /\ p + 5 < n => Six(Lsl(w, n), p) = 0
<1> DEFINE u == Lsl(w, n)
<1>1. /\ \A b \in Nat : b + n <= 31 => Digit2(u, b + n) = Digit2(w, b)
      /\ \A b \in Nat : b < n => Digit2(u, b) = 0
  BY ShiftedDigits
<1> HIDE DEF u
<1>2. n \in Nat
  BY DEF Bits
<1>3. ASSUME p + n + 5 <= 31
      PROVE  Six(u, p + n) = Six(w, p)
  <2> DEFINE q == p + n
  <2>1. /\ p + n = q /\ p + 1 + n = q + 1 /\ p + 2 + n = q + 2
        /\ p + 3 + n = q + 3 /\ p + 3 + 1 + n = q + 3 + 1 /\ p + 3 + 2 + n = q + 3 + 2
        /\ q <= 31 /\ q + 1 <= 31 /\ q + 2 <= 31 /\ q + 3 <= 31 /\ q + 3 + 1 <= 31 /\ q + 3 + 2 <= 31
        /\ p + 1 \in Nat /\ p + 2 \in Nat /\ p + 3 \in Nat /\ p + 3 + 1 \in Nat /\ p + 3 + 2 \in Nat
    BY <1>2, <1>3
  <2> HIDE DEF q
  <2>2. ASSUME NEW x \in Nat, x + n <= 31
        PROVE  Digit2(u, x + n) = Digit2(w, x)
    BY <1>1, <2>2
  <2>3. /\ Digit2(u, q) = Digit2(w, p) /\ Digit2(u, q + 1) = Digit2(w, p + 1)
        /\ Digit2(u, q + 2) = Digit2(w, p + 2)
    BY <2>1, <2>2
  <2>4. /\ Digit2(u, q + 3) = Digit2(w, p + 3) /\ Digit2(u, q + 3 + 1) = Digit2(w, p + 3 + 1)
        /\ Digit2(u, q + 3 + 2) = Digit2(w, p + 3 + 2)
    BY <2>1, <2>2
  <2>5. Six(u, q) = Six(w, p)
    BY <2>3, <2>4 DEF Six, Three
  <2>6. QED BY <2>5 DEF q
<1>4. ASSUME p + 5 < n
      PROVE  Six(u, p) = 0
  <2>1. /\ p < n /\ p + 1 < n /\ p + 2 < n /\ p + 3 < n /\ p + 3 + 1 < n /\ p + 3 + 2 < n
        /\ p + 1 \in Nat /\ p + 2 \in Nat /\ p + 3 \in Nat /\ p + 3 + 1 \in Nat /\ p + 3 + 2 \in Nat
    BY <1>2, <1>4
  <2>2. /\ Digit2(u, p) = 0 /\ Digit2(u, p + 1) = 0 /\ Digit2(u, p + 2) = 0
        /\ Digit2(u, p + 3) = 0 /\ Digit2(u, p + 3 + 1) = 0 /\ Digit2(u, p + 3 + 2) = 0
    BY <1>1, <2>1
  <2>3. QED BY <2>2 DEF Six, Three
<1>5. QED BY <1>3, <1>4 DEF u

(* The ones of a word, counted in six fields *)
LEMMA OnesCounted ==
  ASSUME NEW w \in Words
  PROVE  Cardinality(w) = Ones6(w, 0) + Ones6(w, 6) + Ones6(w, 12)
                            + Ones6(w, 18) + Ones6(w, 24) + Ones6(w, 30)
<1> DEFINE C(n) == Cardinality(w \cap (0..(n - 1)))
<1>1. \A n \in Nat : IsFiniteSet(w \cap (0..(n - 1))) /\ C(n) \in Nat
  <2> TAKE n \in Nat
  <2>1. IsFiniteSet(0..(n - 1))
    BY FS_Interval
  <2>2. IsFiniteSet(w \cap (0..(n - 1)))
    BY <2>1, FS_Subset
  <2>3. QED BY <2>2, FS_CardinalityType
<1>2. ASSUME NEW n \in Nat
      PROVE  C(n + 1) = C(n) + Digit2(w, n)
  <2> DEFINE low == w \cap (0..(n - 1))
  <2>1. IsFiniteSet(low) /\ n \notin low /\ Cardinality(low) \in Nat
    BY <1>1
  <2> DEFINE up == w \cap (0..(n + 1 - 1))
  <2>2. up = (IF n \in w THEN low \cup {n} ELSE low) /\ C(n + 1) = Cardinality(up)
    <3>1. 0..(n + 1 - 1) = 0..(n - 1) \cup {n}
      OBVIOUS
    <3>2. QED BY <3>1
  <2> HIDE DEF up
  <2>3. Cardinality(low \cup {n}) = Cardinality(low) + 1
    BY <2>1, FS_AddElement
  <2>4. C(n) = Cardinality(low)
    OBVIOUS
  <2> HIDE DEF low, C
  <2>5. CASE n \in w
    BY <2>2, <2>3, <2>4, <2>5 DEF Digit2
  <2>6. CASE n \notin w
    BY <2>1, <2>2, <2>4, <2>6 DEF Digit2
  <2>7. QED BY <2>5, <2>6
<1>3. C(0) = 0
  <2>1. w \cap (0..(0 - 1)) = {}
    OBVIOUS
  <2>2. QED BY <2>1, FS_EmptySet
<1>4. Cardinality(w) = C(36)
  <2>1. \A b \in w : b \in 0..(36 - 1)
    BY DEF Words, Bits
  <2>2. QED BY <2>1
<1> HIDE DEF C
<1>5. ASSUME NEW n \in Nat
      PROVE  C(n + 3) = C(n) + Ones3(w, n)
  <2> DEFINE n1 == n + 1
  <2> DEFINE n2 == n + 2
  <2>1. n1 \in Nat /\ n2 \in Nat /\ n + 1 = n1 /\ n1 + 1 = n2 /\ n2 + 1 = n + 3
    OBVIOUS
  <2>2. Ones3(w, n) = Digit2(w, n) + Digit2(w, n1) + Digit2(w, n2)
    BY DEF Ones3
  <2> HIDE DEF n1, n2
  <2>3. C(n1) = C(n) + Digit2(w, n) /\ C(n2) = C(n1) + Digit2(w, n1) /\ C(n + 3) = C(n2) + Digit2(w, n2)
    BY <1>2, <2>1
  <2>4. Digit2(w, n) \in Nat /\ Digit2(w, n1) \in Nat /\ Digit2(w, n2) \in Nat /\ C(n) \in Nat
    BY <1>1 DEF Digit2
  <2>5. QED BY <2>2, <2>3, <2>4
<1>6. ASSUME NEW n \in Nat
      PROVE  C(n + 6) = C(n) + Ones6(w, n) /\ Ones6(w, n) \in Nat
  <2> DEFINE n3 == n + 3
  <2>1. n3 \in Nat /\ n + 3 = n3 /\ n3 + 3 = n + 6
    OBVIOUS
  <2>2. Ones6(w, n) = Ones3(w, n) + Ones3(w, n3)
    BY DEF Ones6
  <2> HIDE DEF n3
  <2>3. C(n3) = C(n) + Ones3(w, n) /\ C(n + 6) = C(n3) + Ones3(w, n3)
    BY <1>5, <2>1
  <2>4. \A b : Digit2(w, b) \in Nat
    BY DEF Digit2
  <2>5. Ones3(w, n) \in Nat /\ Ones3(w, n3) \in Nat /\ C(n) \in Nat
    <3>1. ASSUME NEW b
          PROVE  Ones3(w, b) \in Nat
      <4>1. Digit2(w, b) \in Nat /\ Digit2(w, b + 1) \in Nat /\ Digit2(w, b + 2) \in Nat
        BY <2>4
      <4>2. QED BY <4>1 DEF Ones3
    <3>2. QED BY <1>1, <3>1
  <2>6. QED BY <2>2, <2>3, <2>5
<1>7. /\ C(6) = C(0) + Ones6(w, 0) /\ C(12) = C(6) + Ones6(w, 6)
      /\ C(18) = C(12) + Ones6(w, 12) /\ C(24) = C(18) + Ones6(w, 18)
      /\ C(30) = C(24) + Ones6(w, 24) /\ C(36) = C(30) + Ones6(w, 30)
  <2>1. 0 + 6 = 6 /\ 6 + 6 = 12 /\ 12 + 6 = 18 /\ 18 + 6 = 24 /\ 24 + 6 = 30 /\ 30 + 6 = 36
    OBVIOUS
  <2>2. QED BY <1>6, <2>1
<1>8. /\ Ones6(w, 0) \in Nat /\ Ones6(w, 6) \in Nat /\ Ones6(w, 12) \in Nat
      /\ Ones6(w, 18) \in Nat /\ Ones6(w, 24) \in Nat /\ Ones6(w, 30) \in Nat
  BY <1>6
<1>9. QED BY <1>3, <1>4, <1>7, <1>8

(* popcount32 counts the ones of any word. *)
LEMMA OnesOfWord ==
  ASSUME NEW w \in Words
  PROVE  popcount32(w) = Cardinality(w)
<1> DEFINE t == Add(Add(w \cap Thirds, Lsr(w, 1) \cap Thirds), Lsr(w, 2) \cap Thirds)
<1> DEFINE s == Add(t, Lsr(t, 3)) \cap Sixths
<1> DEFINE tw == Add(s, Lsr(s, 6))
<1> DEFINE x == Lsl(tw, 2)
<1> DEFINE y == Lsl(tw, 14)
<1> DEFINE z == Lsl(tw, 26)
<1> DEFINE a == Add(x, y)
<1> DEFINE r == Add(a, z)
<1> DEFINE top == Lsr(r, 26)
<1>1. popcount32(w) = Number(top)
  BY DEF popcount32, MulBy
<1>2. /\ s \in Words
      /\ \A p \in Bits : p % 6 = 0 => /\ Six(s, p) = Ones6(w, p) /\ Ones6(w, p) \in 0..6
                                      /\ Digit2(s, p + 5) = 0
  BY CountSixes
<1> HIDE DEF t, s
<1>3. /\ tw \in Words
      /\ \A p \in Bits : p % 6 = 0 /\ p # 30 =>
           /\ Six(tw, p) = Ones6(w, p) + Ones6(w, p + 6)
           /\ Ones6(w, p) \in 0..6 /\ Ones6(w, p + 6) \in 0..6
  BY <1>2, CountTwelves
<1> HIDE DEF tw
<1>4. 2 \in Bits /\ 14 \in Bits /\ 26 \in Bits
  BY DEF Bits
<1>5. x \in Words /\ y \in Words /\ z \in Words
  BY <1>3, <1>4, ShiftedDigits
<1>6. /\ Digit2(x, 0) = 0 /\ Digit2(x, 1) = 0 /\ Digit2(y, 0) = 0 /\ Digit2(y, 1) = 0
      /\ Digit2(z, 0) = 0 /\ Digit2(z, 1) = 0
  <2>1. \A n \in Bits : \A b \in Nat : b < n => Digit2(Lsl(tw, n), b) = 0
    BY <1>3, ShiftedDigits
  <2>2. QED BY <1>4, <2>1
<1>7. /\ Six(x, 2) = Six(tw, 0) /\ Six(x, 8) = Six(tw, 6) /\ Six(x, 14) = Six(tw, 12)
      /\ Six(x, 20) = Six(tw, 18) /\ Six(x, 26) = Six(tw, 24)
      /\ Six(y, 2) = 0 /\ Six(y, 8) = 0 /\ Six(y, 14) = Six(tw, 0)
      /\ Six(y, 20) = Six(tw, 6) /\ Six(y, 26) = Six(tw, 12)
      /\ Six(z, 2) = 0 /\ Six(z, 8) = 0 /\ Six(z, 14) = 0
      /\ Six(z, 20) = 0 /\ Six(z, 26) = Six(tw, 0)
  <2>1. \A n \in Bits, p, q \in Nat : q = p + n /\ q + 5 <= 31 => Six(Lsl(tw, n), q) = Six(tw, p)
    BY <1>3, ShiftedSix
  <2>2. \A n \in Bits, p \in Nat : p + 5 < n => Six(Lsl(tw, n), p) = 0
    BY <1>3, ShiftedSix
  <2>3. /\ 2 = 0 + 2 /\ 8 = 6 + 2 /\ 14 = 12 + 2 /\ 20 = 18 + 2 /\ 26 = 24 + 2
        /\ 14 = 0 + 14 /\ 20 = 6 + 14 /\ 26 = 12 + 14 /\ 26 = 0 + 26
    OBVIOUS
  <2>4. /\ Six(x, 2) = Six(tw, 0) /\ Six(x, 8) = Six(tw, 6) /\ Six(x, 14) = Six(tw, 12)
        /\ Six(x, 20) = Six(tw, 18) /\ Six(x, 26) = Six(tw, 24)
    BY <1>4, <2>1, <2>3
  <2>5. /\ Six(y, 2) = 0 /\ Six(y, 8) = 0 /\ Six(z, 2) = 0 /\ Six(z, 8) = 0 /\ Six(z, 14) = 0 /\ Six(z, 20) = 0
    BY <1>4, <2>2
  <2>6. Six(y, 14) = Six(tw, 0) /\ Six(y, 20) = Six(tw, 6) /\ Six(y, 26) = Six(tw, 12)
        /\ Six(z, 26) = Six(tw, 0)
    BY <1>4, <2>1, <2>3
  <2>7. QED BY <2>4, <2>5, <2>6
<1> HIDE DEF x, y, z
<1>8. /\ Six(tw, 0) = Ones6(w, 0) + Ones6(w, 6) /\ Six(tw, 6) = Ones6(w, 6) + Ones6(w, 12)
      /\ Six(tw, 12) = Ones6(w, 12) + Ones6(w, 18) /\ Six(tw, 18) = Ones6(w, 18) + Ones6(w, 24)
      /\ Six(tw, 24) = Ones6(w, 24) + Ones6(w, 30)
      /\ Ones6(w, 0) \in 0..6 /\ Ones6(w, 6) \in 0..6 /\ Ones6(w, 12) \in 0..6
      /\ Ones6(w, 18) \in 0..6 /\ Ones6(w, 24) \in 0..6 /\ Ones6(w, 30) \in 0..6
  <2>1. \A p \in {0, 6, 12, 18, 24} : p \in Bits /\ p % 6 = 0 /\ p # 30
    BY DEF Bits
  <2>2. \A p \in {0, 6, 12, 18, 24} : /\ Six(tw, p) = Ones6(w, p) + Ones6(w, p + 6)
                                      /\ Ones6(w, p) \in 0..6 /\ Ones6(w, p + 6) \in 0..6
    BY <1>3, <2>1
  <2>3. 0 + 6 = 6 /\ 6 + 6 = 12 /\ 12 + 6 = 18 /\ 18 + 6 = 24 /\ 24 + 6 = 30
    OBVIOUS
  <2>4. QED BY <2>2, <2>3
<1>9. \A p \in InColumns : Six(x, p) \in 0..12 /\ Six(y, p) \in 0..12 /\ Six(z, p) \in 0..12
  BY <1>7, <1>8 DEF InColumns
<1>10. /\ a \in Words /\ Digit2(a, 0) = 0 /\ Digit2(a, 1) = 0
       /\ \A p \in InColumns : Six(a, p) = Six(x, p) + Six(y, p)
  <2>1. \A p \in InColumns : Six(x, p) + Six(y, p) < 64
    BY <1>9
  <2>2. QED BY <1>5, <1>6, <2>1, AddColumns
<1> HIDE DEF a
<1>11. r \in Words /\ \A p \in InColumns : Six(r, p) = Six(a, p) + Six(z, p)
  <2>1. \A p \in InColumns : Six(a, p) + Six(z, p) < 64
    BY <1>9, <1>10
  <2>2. QED BY <1>5, <1>6, <1>10, <2>1, AddColumns
<1> HIDE DEF r
<1>12. Six(r, 26) = Cardinality(w)
  <2>1. 26 \in InColumns
    BY DEF InColumns
  <2>2. Six(r, 26) = Six(x, 26) + Six(y, 26) + Six(z, 26)
    BY <1>9, <1>10, <1>11, <2>1
  <2>3. QED BY <1>7, <1>8, <2>2, OnesCounted
<1>13. Number(top) = Six(r, 26)
  <2>1. top \in SUBSET (0..5)
    BY <1>11 DEF Lsr, Words, Bits
  <2>2. \A b \in Nat : Digit2(top, b) = Digit2(r, b + 26)
    BY <1>4, <1>11, ShiftedDigits
  <2> HIDE DEF top
  <2>3. /\ Digit2(top, 0) = Digit2(r, 26) /\ Digit2(top, 1) = Digit2(r, 26 + 1)
        /\ Digit2(top, 2) = Digit2(r, 26 + 2) /\ Digit2(top, 3) = Digit2(r, 26 + 3)
        /\ Digit2(top, 4) = Digit2(r, 26 + 3 + 1) /\ Digit2(top, 5) = Digit2(r, 26 + 3 + 2)
    <3>1. 0 + 26 = 26 /\ 1 + 26 = 26 + 1 /\ 2 + 26 = 26 + 2 /\ 3 + 26 = 26 + 3
          /\ 4 + 26 = 26 + 3 + 1 /\ 5 + 26 = 26 + 3 + 2
      OBVIOUS
    <3>2. QED BY <2>2, <3>1
  <2>4. Number(top) = Digit2(top, 0) + 2 * Digit2(top, 1) + 4 * Digit2(top, 2) + 8 * Digit2(top, 3)
                        + 16 * Digit2(top, 4) + 32 * Digit2(top, 5)
    BY <2>1, SixBits
  <2>5. \A b : Digit2(r, b) \in 0..1
    BY DEF Digit2
  <2>6. Six(r, 26) = Digit2(r, 26) + 2 * Digit2(r, 26 + 1) + 4 * Digit2(r, 26 + 2)
                       + 8 * (Digit2(r, 26 + 3) + 2 * Digit2(r, 26 + 3 + 1) + 4 * Digit2(r, 26 + 3 + 2))
    BY DEF Six, Three
  <2>7. QED BY <2>3, <2>4, <2>5, <2>6
<1>14. QED BY <1>1, <1>12, <1>13

-----------------------------------------------------------------------------
(* crc32_small, byte by byte *)

(* A set of numbers that is not empty has a least. *)
LEMMA LeastOfSet ==
  ASSUME NEW T \in SUBSET Nat, T # {}
  PROVE  \E x \in T : \A y \in T : ~ (y < x)
<1> DEFINE R == {ss \in Nat \X Nat : ss[1] < ss[2]}
<1>1. IsWellFoundedOn(R, Nat)
  BY NatLessThanWellFounded DEF OpToRel
<1>2. \E x \in T : \A y \in T : ~ (<<y, x>> \in R)
  <2> HIDE DEF R
  <2>1. QED BY <1>1, WFMin
<1>3. \A x, y \in Nat : y < x => <<y, x>> \in R
  OBVIOUS
<1>4. QED BY <1>2, <1>3

(* Induction up to n: a set that has 0, and the next of each it has. *)
LEMMA UpTo ==
  ASSUME NEW n \in Nat, NEW S, 0 \in S, \A i \in 0..(n - 1) : i \in S => i + 1 \in S
  PROVE  \A i \in 0..n : i \in S
<1> DEFINE T == {i \in 0..n : i \notin S}
<1>1. SUFFICES ASSUME T # {}
               PROVE  FALSE
  OBVIOUS
<1>2. T \in SUBSET Nat
  OBVIOUS
<1>3. PICK x \in T : \A y \in T : ~ (y < x)
  <2> HIDE DEF T
  <2>1. QED BY <1>1, <1>2, LeastOfSet
<1>4. x \in 0..n /\ x \notin S /\ x # 0
  OBVIOUS
<1> DEFINE p == x - 1
<1>5. p \in 0..(n - 1) /\ p \in 0..n /\ p < x /\ p + 1 = x
  BY <1>4
<1> HIDE DEF p
<1>6. p \in S
  BY <1>3, <1>5
<1>7. QED BY <1>4, <1>5, <1>6

(* The functions that compute n values one after another *)
Steps(n, X) == [1..n -> [X -> X]]

(* The values they compute one after another from s *)
Computed(g, n, X, s, F) ==
  g \in [0..n -> X] /\ g[0] = s /\ \A i \in 1..n : g[i] = F[i][g[i - 1]]

(* A value can be computed step by step. *)
LEMMA Iterated ==
  ASSUME NEW n \in Nat, NEW X, NEW s \in X, NEW F \in Steps(n, X)
  PROVE  \E g : Computed(g, n, X, s, F)
<1>0. \A i \in 1..n : F[i] \in [X -> X]
  BY DEF Steps
<1> DEFINE Upto(g, m) == g \in [0..m -> X] /\ g[0] = s /\ \A i \in 1..m : g[i] = F[i][g[i - 1]]
<1> DEFINE S == {m \in 0..n : \E g : Upto(g, m)}
<1>1. 0 \in S
  <2>1. \E g : Upto(g, 0)
    <3> DEFINE g == [i \in 0..0 |-> s]
    <3>1. g \in [0..0 -> X]
      OBVIOUS
    <3>2. g[0] = s
      OBVIOUS
    <3>3. \A i \in 1..0 : FALSE
      OBVIOUS
    <3> HIDE DEF g
    <3>4. Upto(g, 0)
      BY <3>1, <3>2, <3>3
    <3>5. QED BY <3>4
  <2>2. QED BY <2>1
<1>2. ASSUME NEW m \in 0..(n - 1), m \in S
      PROVE  m + 1 \in S
  <2>1. PICK g : Upto(g, m)
    BY <1>2
  <2> DEFINE k == m + 1
  <2>2. k \in 1..n /\ k \in 0..n /\ k - 1 = m /\ m \in 0..m /\ m \in Nat /\ k \notin 0..m
    BY <1>2
  <2>3. \A i \in 0..k : i \in 0..m \/ i = k
    BY <1>2
  <2>4. \A i \in 1..k : i = k \/ (i \in 1..m /\ i \in 0..m /\ i - 1 \in 0..m /\ i # k)
    BY <1>2
  <2>5. 0 \in 0..m /\ 0 # k /\ \A i \in 0..m : i \in 0..k /\ i # k
    BY <1>2
  <2> DEFINE h == [i \in 0..k |-> IF i = k THEN F[k][g[m]] ELSE g[i]]
  <2>6. F[k][g[m]] \in X
    <3>1. g[m] \in X
      BY <2>1, <2>2
    <3> HIDE DEF k
    <3>2. QED BY <1>0, <2>2, <3>1
  <2>7. k \in 0..k
    BY <2>2
  <2> HIDE DEF k
  <2>8. h \in [0..k -> X]
    BY <2>1, <2>3, <2>6
  <2>9. h[k] = F[k][g[m]] /\ \A i \in 0..m : h[i] = g[i]
    BY <2>5, <2>7
  <2> HIDE DEF h
  <2>10. h[0] = s
    BY <2>1, <2>5, <2>9
  <2>11. \A i \in 1..k : h[i] = F[i][h[i - 1]]
    <3> SUFFICES ASSUME NEW i \in 1..k
                 PROVE  h[i] = F[i][h[i - 1]]
      OBVIOUS
    <3>1. CASE i = k
      BY <2>2, <2>9, <3>1
    <3>2. CASE i # k
      <4>1. i \in 1..m /\ i \in 0..m /\ i - 1 \in 0..m
        BY <2>4, <3>2
      <4>2. h[i] = g[i] /\ h[i - 1] = g[i - 1]
        BY <2>9, <4>1
      <4>3. QED BY <2>1, <4>1, <4>2
    <3>3. QED BY <3>1, <3>2
  <2>12. Upto(h, k)
    BY <2>8, <2>10, <2>11
  <2>13. QED BY <2>2, <2>12 DEF k
<1> HIDE DEF S
<1>3. n \in S
  <2>1. n \in 0..n
    OBVIOUS
  <2>2. QED BY <1>1, <1>2, <2>1, UpTo
<1>4. QED BY <1>3 DEF S, Computed

(* Exclusive or, and shifts *)
LEMMA Xor ==
  ASSUME NEW v \in Words, NEW w \in Words, NEW n \in Nat
  PROVE  /\ Eor(v, w) \in Words /\ Lsl(v, n) \in Words
         /\ Lsl(Eor(v, w), n) = Eor(Lsl(v, n), Lsl(w, n))
<1>1. Eor(v, w) \in Words /\ Lsl(v, n) \in Words
  BY DEF Eor, Lsl, Words
<1>2. \A b \in Bits : b \in Lsl(Eor(v, w), n) <=> b \in Eor(Lsl(v, n), Lsl(w, n))
  <2>1. \A x \in Words : \A b \in Bits : b \in Lsl(x, n) <=> b >= n /\ b - n \in x
    BY DEF Lsl
  <2>2. \A x, y : \A b : b \in Eor(x, y) <=> (b \in x /\ b \notin y) \/ (b \in y /\ b \notin x)
    BY DEF Eor
  <2>3. \A b \in Bits : b \in Lsl(Eor(v, w), n) <=> b >= n /\ b - n \in Eor(v, w)
    BY <1>1, <2>1
  <2>4. \A b \in Bits : b \in Eor(Lsl(v, n), Lsl(w, n)) <=>
          (b \in Lsl(v, n) /\ b \notin Lsl(w, n)) \/ (b \in Lsl(w, n) /\ b \notin Lsl(v, n))
    BY <2>2
  <2>5. ASSUME NEW b \in Bits
        PROVE  b \in Lsl(Eor(v, w), n) <=> b \in Eor(Lsl(v, n), Lsl(w, n))
    <3> DEFINE d == b - n
    <3>1. b \in Lsl(Eor(v, w), n) <=> b >= n /\ d \in Eor(v, w)
      BY <2>3
    <3>2. (b \in Lsl(v, n) <=> b >= n /\ d \in v) /\ (b \in Lsl(w, n) <=> b >= n /\ d \in w)
      BY <2>1
    <3> HIDE DEF d
    <3>3. QED BY <2>2, <2>4, <3>1, <3>2
  <2>6. QED BY <2>5
<1>3. Lsl(Eor(v, w), n) \subseteq Bits /\ Eor(Lsl(v, n), Lsl(w, n)) \subseteq Bits
  BY DEF Eor, Lsl
<1>4. QED BY <1>1, <1>2, <1>3

(* Shifting by n and then by one *)
LEMMA ShiftedAgain ==
  ASSUME NEW w \in Words, NEW n \in Nat
  PROVE  Lsl(Lsl(w, n), 1) = Lsl(w, n + 1)
<1>1. \A b \in Bits : b \in Lsl(Lsl(w, n), 1) <=> b \in Lsl(w, n + 1)
  <2> SUFFICES ASSUME NEW b \in Bits
               PROVE  b \in Lsl(Lsl(w, n), 1) <=> b \in Lsl(w, n + 1)
    OBVIOUS
  <2>1. \A x : \A m \in Nat : b \in Lsl(x, m) <=> b >= m /\ b - m \in x
    BY DEF Lsl
  <2> DEFINE d == b - 1
  <2>2. b \in Lsl(Lsl(w, n), 1) <=> b >= 1 /\ d \in Lsl(w, n)
    BY <2>1
  <2>3. d \in Lsl(w, n) <=> d \in Bits /\ d >= n /\ d - n \in w
    BY DEF Lsl
  <2> DEFINE k == n + 1
  <2>4. b \in Lsl(w, k) <=> b >= k /\ b - k \in w
    BY <2>1
  <2>5. d - n = b - k /\ (b >= k <=> b >= 1 /\ d \in Bits /\ d >= n)
    BY DEF Bits
  <2> HIDE DEF d, k
  <2>6. b \in Lsl(Lsl(w, n), 1) <=> b \in Lsl(w, k)
    BY <2>2, <2>3, <2>4, <2>5
  <2>7. QED BY <2>6 DEF k
<1>2. Lsl(Lsl(w, n), 1) \subseteq Bits /\ Lsl(w, n + 1) \subseteq Bits
  BY DEF Lsl
<1>3. QED BY <1>1, <1>2

(* One bit of the reference, fed bit in *)
Fed(in, r) == IF in # (31 \in r) THEN Eor(Lsl(r, 1), Polynomial) ELSE Lsl(r, 1)

(* The register stays a word. *)
LEMMA RegisterIsWord ==
  /\ Polynomial \in Words
  /\ \A r \in Words : DigestBit(r) \in Words /\ \A in : Fed(in, r) \in Words
<1>1. Polynomial \in Words
  BY DEF Polynomial, Word, Words, Bits
<1>2. \A r \in Words : DigestBit(r) \in Words /\ \A in : Fed(in, r) \in Words
  BY <1>1, Xor DEF DigestBit, Fed
<1>3. QED BY <1>1, <1>2

(* The register after the bits of a byte is what crc32_small computes from
   its highest byte and the byte alone: the rest of it is only shifted. *)
LEMMA ByteDigested ==
  ASSUME NEW crc \in Words, NEW byte \in SUBSET (0..7), NEW x, NEW r,
         x[0] = Lsl(Eor(byte, Rev(crc)), 24), \A i \in 0..7 : x[i + 1] = DigestBit(x[i]),
         r[0] = crc, \A i \in 0..7 : r[i + 1] = Fed(7 - i \in byte, r[i])
  PROVE  r[8] = Eor(Lsl(crc, 8), x[8]) /\ r[8] \in Words
<1> DEFINE low == crc \cap 0..23
<1> DEFINE S == {i \in 0..8 : /\ x[i] \in Words
                              /\ r[i] = Eor(Eor(Lsl(low, i), x[i]), Lsl(byte, 24 + i))}
<1>1. low \in Words /\ byte \in Words /\ Rev(crc) \in Words
  BY DEF Words, Bits, Rev
<1>2. 0 \in S
  <2>1. x[0] \in Words
    <3>1. Eor(byte, Rev(crc)) \in Words /\ 24 \in Nat
      BY <1>1, Xor
    <3>2. QED BY <3>1, Xor
  <2>2. Lsl(low, 0) = low
    <3>1. ASSUME NEW b \in Bits
          PROVE  b \in Lsl(low, 0) <=> b \in low
      <4> DEFINE d == b - 0
      <4>1. d = b /\ b >= 0
        BY DEF Bits
      <4>2. b \in Lsl(low, 0) <=> b >= 0 /\ d \in low
        BY DEF Lsl
      <4> HIDE DEF d, low
      <4>3. QED BY <4>1, <4>2
    <3>2. low \subseteq Bits /\ Lsl(low, 0) \subseteq Bits
      BY <1>1 DEF Lsl, Words
    <3>3. QED BY <3>1, <3>2
  <2>3. ASSUME NEW b \in Bits
        PROVE  b \in crc <=> b \in Eor(Eor(low, x[0]), Lsl(byte, 24))
    <3>1. b \in x[0] <=> b >= 24 /\ b - 24 \in Eor(byte, Rev(crc))
      BY DEF Lsl
    <3>2. b \in Lsl(byte, 24) <=> b >= 24 /\ b - 24 \in byte
      BY DEF Lsl
    <3>3. b >= 24 => (b - 24 \in Rev(crc) <=> b \in crc)
      <4> SUFFICES ASSUME b >= 24
                   PROVE  b - 24 \in Rev(crc) <=> b \in crc
        OBVIOUS
      <4> DEFINE d == b - 24
      <4>1. d \in 0..7 /\ d \in Bits /\ b = 24 + d
        BY DEF Bits
      <4> HIDE DEF d
      <4>2. 8 * (3 - d \div 8) + (d % 8) = 24 + d
        BY <4>1
      <4>3. d \in Rev(crc) <=> b \in crc
        BY <4>1, <4>2 DEF Rev
      <4>4. QED BY <4>3 DEF d
    <3>4. b \in low <=> b \in crc /\ ~(b >= 24)
      BY DEF Bits
    <3>5. \A u, v : \A c : c \in Eor(u, v) <=> (c \in u /\ c \notin v) \/ (c \in v /\ c \notin u)
      BY DEF Eor
    <3> HIDE DEF low
    <3>6. QED BY <3>1, <3>2, <3>3, <3>4, <3>5
  <2>4. Eor(Eor(low, x[0]), Lsl(byte, 24)) \subseteq Bits
    BY <1>1, <2>1 DEF Eor, Lsl, Words
  <2>5. crc = Eor(Eor(low, x[0]), Lsl(byte, 24))
    BY <2>3, <2>4 DEF Words
  <2>6. 24 + 0 = 24 /\ 0 \in 0..8
    OBVIOUS
  <2> HIDE DEF low
  <2>7. QED BY <2>1, <2>2, <2>5, <2>6
<1>3. ASSUME NEW i \in 0..(8 - 1), i \in S
      PROVE  i + 1 \in S
  <2> DEFINE k == i + 1
  <2> DEFINE l == Lsl(low, i)
  <2> DEFINE h == Lsl(byte, 24 + i)
  <2>1. i \in 0..7 /\ i \in Nat /\ 24 + i \in Nat /\ k \in 0..8 /\ 24 + i + 1 = 24 + k
    BY <1>3
  <2>2. x[i] \in Words /\ r[i] = Eor(Eor(l, x[i]), h)
    BY <1>3
  <2>3. l \in Words /\ h \in Words /\ Lsl(l, 1) = Lsl(low, k) /\ Lsl(h, 1) = Lsl(byte, 24 + k)
    <3>1. l \in Words /\ h \in Words
      BY <1>1, <2>1, Xor
    <3>2. Lsl(l, 1) = Lsl(low, k)
      BY <1>1, <2>1, ShiftedAgain
    <3>3. Lsl(h, 1) = Lsl(byte, 24 + i + 1)
      BY <1>1, <2>1, ShiftedAgain
    <3>4. QED BY <2>1, <3>1, <3>2, <3>3
  <2>4. 31 \notin l /\ (31 \in h <=> 7 - i \in byte)
    <3>1. 31 \in l => 31 - i \in 0..23
      BY DEF Lsl
    <3>2. ~(31 - i \in 0..23)
      BY <2>1
    <3>3. 31 \in h <=> 31 \in Bits /\ 31 >= 24 + i /\ 31 - (24 + i) \in byte
      BY DEF Lsl
    <3>4. 31 \in Bits /\ 31 >= 24 + i /\ 31 - (24 + i) = 7 - i
      BY <2>1 DEF Bits
    <3> HIDE DEF l, h
    <3>5. QED BY <3>1, <3>2, <3>3, <3>4
  <2>5. x[k] = DigestBit(x[i]) /\ r[k] = Fed(7 - i \in byte, r[i])
    BY <2>1
  <2> HIDE DEF k, l, h, low, S
  <2>6. (7 - i \in byte) # (31 \in r[i]) <=> 31 \in x[i]
    <3>1. 31 \in r[i] <=> ~(31 \in x[i] <=> 31 \in h)
      BY <2>2, <2>4 DEF Eor
    <3>2. QED BY <2>4, <3>1
  <2>7. r[i] \in Words
    BY <2>2, <2>3, Xor
  <2>8. Lsl(r[i], 1) = Eor(Eor(Lsl(l, 1), Lsl(x[i], 1)), Lsl(h, 1))
    <3>1. Eor(l, x[i]) \in Words /\ 1 \in Nat
      BY <2>2, <2>3, Xor
    <3>2. QED BY <2>2, <2>3, <3>1, Xor
  <2>9. r[k] = Eor(Eor(Lsl(l, 1), x[k]), Lsl(h, 1))
    <3>1. CASE 31 \in x[i]
      <4>1. r[k] = Eor(Lsl(r[i], 1), Polynomial)
        BY <2>5, <2>6, <3>1 DEF Fed
      <4>2. x[k] = Eor(Lsl(x[i], 1), Polynomial)
        BY <2>5, <3>1 DEF DigestBit
      <4>3. \A a, b, c, d : Eor(Eor(Eor(a, b), c), d) = Eor(Eor(a, Eor(b, d)), c)
        BY DEF Eor
      <4>4. QED BY <2>8, <4>1, <4>2, <4>3
    <3>2. CASE 31 \notin x[i]
      <4>1. r[k] = Lsl(r[i], 1)
        BY <2>5, <2>6, <3>2 DEF Fed
      <4>2. x[k] = Lsl(x[i], 1)
        BY <2>5, <3>2 DEF DigestBit
      <4>3. QED BY <2>8, <4>1, <4>2
    <3>3. QED BY <3>1, <3>2
  <2>10. x[k] \in Words
    BY <2>2, <2>5, RegisterIsWord
  <2>11. QED BY <2>1, <2>3, <2>9, <2>10 DEF S, k
<1> HIDE DEF S
<1>4. 8 \in S
  BY <1>2, <1>3, UpTo
<1>5. x[8] \in Words /\ r[8] = Eor(Eor(Lsl(low, 8), x[8]), Lsl(byte, 24 + 8))
  BY <1>4 DEF S
<1>6. Lsl(byte, 24 + 8) = {}
  BY DEF Lsl, Bits
<1>7. Lsl(low, 8) = Lsl(crc, 8)
  BY DEF Lsl, Bits
<1>8. r[8] = Eor(Lsl(crc, 8), x[8])
  BY <1>5, <1>6, <1>7 DEF Eor
<1>9. QED BY <1>5, <1>8, Xor

(* The bits of a byte are digested one after another. *)
LEMMA BitsDigested ==
  ASSUME NEW crc \in Words, NEW byte \in SUBSET (0..7)
  PROVE  /\ \E x : /\ x[0] = Lsl(Eor(byte, Rev(crc)), 24)
                   /\ \A i \in 0..7 : x[i + 1] = DigestBit(x[i])
                   /\ DigestByte(crc, byte) = Eor(Lsl(crc, 8), x[8])
         /\ DigestByte(crc, byte) \in Words
<1> DEFINE top == Lsl(Eor(byte, Rev(crc)), 24)
<1> DEFINE E(g) == g = [i \in 0..8 |-> IF i = 0 THEN top ELSE DigestBit(g[i - 1])]
<1> DEFINE x == CHOOSE g : E(g)
<1>1. DigestByte(crc, byte) = Eor(Lsl(crc, 8), x[8])
  BY DEF DigestByte
<1>2. top \in Words
  <2>1. byte \in Words /\ Rev(crc) \in Words /\ 24 \in Nat
    BY DEF Words, Bits, Rev
  <2>2. Eor(byte, Rev(crc)) \in Words
    BY <2>1, Xor
  <2>3. QED BY <2>1, <2>2, Xor
<1> HIDE DEF top
<1>3. \E g : E(g) /\ g \in [0..8 -> Words]
  <2> DEFINE F == [i \in 1..8 |-> [r \in Words |-> DigestBit(r)]]
  <2>1. F \in [1..8 -> [Words -> Words]] /\ \A i \in 1..8, r \in Words : F[i][r] = DigestBit(r)
    BY RegisterIsWord
  <2> HIDE DEF F
  <2>2. PICK g : g \in [0..8 -> Words] /\ g[0] = top /\ \A i \in 1..8 : g[i] = F[i][g[i - 1]]
    <3>1. F \in Steps(8, Words)
      BY <2>1 DEF Steps
    <3>2. 8 \in Nat /\ top \in Words
      BY <1>2
    <3>3. PICK g : Computed(g, 8, Words, top, F)
      BY <3>1, <3>2, Iterated
    <3>4. QED BY <3>3 DEF Computed
  <2>3. \A i \in 0..8 : i = 0 \/ (i \in 1..8 /\ i - 1 \in 0..8)
    OBVIOUS
  <2>4. ASSUME NEW i \in 0..8
        PROVE  g[i] = IF i = 0 THEN top ELSE DigestBit(g[i - 1])
    <3>1. CASE i = 0
      BY <2>2, <3>1
    <3>2. CASE i # 0
      <4>1. i \in 1..8 /\ g[i - 1] \in Words
        BY <2>2, <2>3, <3>2
      <4>2. g[i] = F[i][g[i - 1]]
        BY <2>2, <4>1
      <4>3. QED BY <2>1, <3>2, <4>1, <4>2
    <3>3. QED BY <3>1, <3>2
  <2>5. g = [i \in 0..8 |-> g[i]]
    BY <2>2
  <2>6. E(g)
    BY <2>4, <2>5
  <2>7. QED BY <2>2, <2>6
<1>4. E(x)
  <2> HIDE DEF E
  <2>1. QED BY <1>3
<1> HIDE DEF x
<1>5. x[0] = top
  BY <1>4
<1>6. \A i \in 0..7 : x[i + 1] = DigestBit(x[i])
  <2> SUFFICES ASSUME NEW i \in 0..7
               PROVE  x[i + 1] = DigestBit(x[i])
    OBVIOUS
  <2> DEFINE k == i + 1
  <2>1. k \in 0..8 /\ k # 0 /\ k - 1 = i
    OBVIOUS
  <2> HIDE DEF k
  <2>2. x[k] = DigestBit(x[k - 1])
    BY <1>4, <2>1
  <2>3. QED BY <2>1, <2>2 DEF k
<1>7. x[8] \in Words
  <2> DEFINE S == {i \in 0..8 : x[i] \in Words}
  <2>1. 0 \in S
    BY <1>2, <1>5
  <2>2. \A i \in 0..(8 - 1) : i \in S => i + 1 \in S
    <3>1. \A i \in 0..(8 - 1) : i \in 0..7 /\ i + 1 \in 0..8
      OBVIOUS
    <3>2. QED BY <1>6, <3>1, RegisterIsWord
  <2> HIDE DEF S
  <2>3. 8 \in S
    BY <2>1, <2>2, UpTo
  <2>4. QED BY <2>3 DEF S
<1>8. DigestByte(crc, byte) \in Words
  <2>1. Lsl(crc, 8) \in Words
    BY Xor
  <2>2. QED BY <1>1, <1>7, <2>1, Xor
<1>9. QED BY <1>1, <1>5, <1>6, <1>8 DEF top

(* crc32_small divides a message as the register that is fed bit by bit. *)
LEMMA MessageDivided ==
  ASSUME NEW bytes \in Seq(SUBSET (0..7)), NEW seed \in Words
  PROVE  crc32_small(bytes, seed) = Crc(bytes, seed)
<1> DEFINE n == Len(bytes)
<1> DEFINE E(g) == g = [i \in 0..n |-> IF i = 0 THEN seed ELSE DigestByte(g[i - 1], bytes[i])]
<1> DEFINE In(i) == 7 - ((i - 1) % 8) \in bytes[(i + 7) \div 8]
<1> DEFINE D(g) == g = [i \in 0..(8 * n) |-> IF i = 0 THEN seed ELSE Fed(In(i), g[i - 1])]
<1> DEFINE small == CHOOSE g : E(g)
<1> DEFINE ref == CHOOSE g : D(g)
<1>1. n \in Nat /\ 8 * n \in Nat /\ \A i \in 1..n : bytes[i] \in SUBSET (0..7)
  OBVIOUS
<1>2. crc32_small(bytes, seed) = small[n]
  BY DEF crc32_small
<1>3. Crc(bytes, seed) = ref[8 * n]
  BY DEF Crc, Fed
<1> HIDE DEF n, In
<1>4. E(small)
  <2> DEFINE F == [i \in 1..n |-> [r \in Words |-> DigestByte(r, bytes[i])]]
  <2>1. F \in [1..n -> [Words -> Words]] /\ \A i \in 1..n, r \in Words : F[i][r] = DigestByte(r, bytes[i])
    BY <1>1, BitsDigested
  <2> HIDE DEF F
  <2>2. PICK g : g \in [0..n -> Words] /\ g[0] = seed /\ \A i \in 1..n : g[i] = F[i][g[i - 1]]
    <3>1. F \in Steps(n, Words)
      BY <2>1 DEF Steps
    <3>2. n \in Nat /\ seed \in Words
      BY <1>1
    <3>3. PICK g : Computed(g, n, Words, seed, F)
      BY <3>1, <3>2, Iterated
    <3>4. QED BY <3>3 DEF Computed
  <2>3. \A i \in 0..n : i = 0 \/ (i \in 1..n /\ i - 1 \in 0..n)
    BY <1>1
  <2>4. ASSUME NEW i \in 0..n
        PROVE  g[i] = IF i = 0 THEN seed ELSE DigestByte(g[i - 1], bytes[i])
    <3>1. CASE i = 0
      BY <2>2, <3>1
    <3>2. CASE i # 0
      <4>1. i \in 1..n /\ g[i - 1] \in Words
        BY <2>2, <2>3, <3>2
      <4>2. g[i] = F[i][g[i - 1]]
        BY <2>2, <4>1
      <4>3. QED BY <2>1, <3>2, <4>1, <4>2
    <3>3. QED BY <3>1, <3>2
  <2>5. g = [i \in 0..n |-> g[i]]
    BY <2>2
  <2>6. E(g)
    BY <2>4, <2>5
  <2> HIDE DEF E
  <2>7. QED BY <2>6
<1>5. D(ref)
  <2> DEFINE F == [i \in 1..(8 * n) |-> [r \in Words |-> Fed(In(i), r)]]
  <2>1. F \in [1..(8 * n) -> [Words -> Words]] /\ \A i \in 1..(8 * n), r \in Words : F[i][r] = Fed(In(i), r)
    BY RegisterIsWord
  <2> HIDE DEF F
  <2>2. PICK g : g \in [0..(8 * n) -> Words] /\ g[0] = seed /\ \A i \in 1..(8 * n) : g[i] = F[i][g[i - 1]]
    <3>1. F \in Steps(8 * n, Words)
      BY <2>1 DEF Steps
    <3>2. 8 * n \in Nat /\ seed \in Words
      BY <1>1
    <3>3. PICK g : Computed(g, 8 * n, Words, seed, F)
      BY <3>1, <3>2, Iterated
    <3>4. QED BY <3>3 DEF Computed
  <2>3. \A i \in 0..(8 * n) : i = 0 \/ (i \in 1..(8 * n) /\ i - 1 \in 0..(8 * n))
    BY <1>1
  <2>4. ASSUME NEW i \in 0..(8 * n)
        PROVE  g[i] = IF i = 0 THEN seed ELSE Fed(In(i), g[i - 1])
    <3>1. CASE i = 0
      BY <2>2, <3>1
    <3>2. CASE i # 0
      <4>1. i \in 1..(8 * n) /\ g[i - 1] \in Words
        BY <2>2, <2>3, <3>2
      <4>2. g[i] = F[i][g[i - 1]]
        BY <2>2, <4>1
      <4>3. QED BY <2>1, <3>2, <4>1, <4>2
    <3>3. QED BY <3>1, <3>2
  <2>5. g = [i \in 0..(8 * n) |-> g[i]]
    BY <2>2
  <2>6. D(g)
    BY <2>4, <2>5
  <2> HIDE DEF D
  <2>7. QED BY <2>6
<1> HIDE DEF small, ref
<1>6. small[0] = seed /\ ref[0] = seed
  BY <1>1, <1>4, <1>5
<1> DEFINE S == {k \in 0..n : small[k] = ref[8 * k] /\ small[k] \in Words}
<1>7. 0 \in S
  <2>1. 8 * 0 = 0 /\ 0 \in 0..n
    BY <1>1
  <2>2. QED BY <1>6, <2>1
<1>8. ASSUME NEW k \in 0..(n - 1), k \in S
      PROVE  k + 1 \in S
  <2> DEFINE m == k + 1
  <2> DEFINE p == 8 * k
  <2>1. /\ m \in 0..n /\ m \in 1..n /\ m # 0 /\ m - 1 = k /\ p \in Nat /\ 8 * m = p + 8
        /\ \A i \in 0..7 : p + i + 1 \in 0..(8 * n) /\ p + i + 1 # 0 /\ p + i + 1 - 1 = p + i
    BY <1>1, <1>8
  <2>2. \A i \in 0..7 : (p + i) % 8 = i /\ (p + i + 8) \div 8 = m
    BY <1>1, <1>8
  <2>3. small[k] = ref[p] /\ small[k] \in Words
    BY <1>8
  <2> HIDE DEF m
  <2>4. bytes[m] \in SUBSET (0..7)
    BY <1>1, <2>1
  <2>5. small[m] = DigestByte(small[k], bytes[m])
    BY <1>4, <2>1
  <2>6. PICK x : /\ x[0] = Lsl(Eor(bytes[m], Rev(small[k])), 24)
                 /\ \A i \in 0..7 : x[i + 1] = DigestBit(x[i])
                 /\ DigestByte(small[k], bytes[m]) = Eor(Lsl(small[k], 8), x[8])
    BY <2>3, <2>4, BitsDigested
  <2> DEFINE r == [i \in 0..8 |-> ref[p + i]]
  <2>7. ASSUME NEW i \in 0..7
        PROVE  r[i + 1] = Fed(7 - i \in bytes[m], r[i])
    <3> DEFINE j == p + i + 1
    <3>1. j \in 0..(8 * n) /\ j # 0 /\ j - 1 = p + i
      BY <2>1
    <3>2. In(j) = (7 - i \in bytes[m])
      <4>1. j + 7 = p + i + 8
        BY <2>1
      <4>2. (j - 1) % 8 = i /\ (j + 7) \div 8 = m
        BY <2>2, <3>1, <4>1
      <4> HIDE DEF j
      <4>3. QED BY <4>2 DEF In
    <3>3. r[i] = ref[p + i] /\ r[i + 1] = ref[j]
      <4>1. i \in 0..8 /\ i + 1 \in 0..8 /\ p + (i + 1) = j
        BY <2>1
      <4> HIDE DEF j, p
      <4>2. QED BY <4>1
    <3> HIDE DEF j
    <3>4. ref[j] = Fed(In(j), ref[j - 1])
      BY <1>5, <3>1
    <3>5. QED BY <3>1, <3>2, <3>3, <3>4
  <2>8. r[0] = small[k] /\ r[8] = ref[8 * m]
    BY <2>1, <2>3
  <2> HIDE DEF r, p
  <2>9. r[8] = Eor(Lsl(small[k], 8), x[8]) /\ r[8] \in Words
    BY <2>3, <2>4, <2>6, <2>7, <2>8, ByteDigested
  <2>10. m \in S
    BY <2>1, <2>5, <2>6, <2>8, <2>9
  <2>11. QED BY <2>10 DEF m
<1> HIDE DEF S
<1>9. n \in S
  <2>1. n \in 0..n
    BY <1>1
  <2>2. QED BY <1>1, <1>7, <1>8, <2>1, UpTo
<1>10. QED BY <1>2, <1>3, <1>9 DEF S

-----------------------------------------------------------------------------
(* What the routines return *)

(* What BitsRight says of the results for a word *)
Counted(w, popcount, reversed, clz, ctz) ==
  /\ popcount = Cardinality(w)
  /\ reversed = {31 - b : b \in w}
  /\ IF w = {} THEN clz = 32 /\ ctz = 32
     ELSE /\ 31 - clz \in w /\ \A b \in w : b <= 31 - clz
          /\ ctz \in w /\ \A b \in w : b >= ctz

(* For every one of the 2^32 words, popcount32 counts its ones, reverse32
   reverses it, and clz32 and ctz32 count its zeroes above the highest and
   below the lowest one, 32 of them if there is none. *)
THEOREM EveryWordCounted ==
  \A w \in Words : Counted(w, popcount32(w), reverse32(w), clz32(w), ctz32(w))
<1> SUFFICES ASSUME NEW w \in Words
             PROVE  Counted(w, popcount32(w), reverse32(w), clz32(w), ctz32(w))
  OBVIOUS
<1>1. popcount32(w) = Cardinality(w)
  BY OnesOfWord
<1>2. reverse32(w) = {31 - b : b \in w}
  BY Reversed
<1>3. IF w = {} THEN clz32(w) = 32
      ELSE 31 - clz32(w) \in w /\ \A b \in w : b <= 31 - clz32(w)
  BY LeadingZeroes
<1>4. IF w = {} THEN ctz32(w) = 32
      ELSE ctz32(w) \in w /\ \A b \in w : b >= ctz32(w)
  BY TrailingZeroes
<1>5. QED BY <1>1, <1>2, <1>3, <1>4 DEF Counted

(* crc32_small, which digests a message byte by byte, leaves in its register
   what the division of the message bit by bit leaves, for messages of every
   length and every seed. *)
THEOREM EveryMessageDivided ==
  \A bytes \in Seq(SUBSET (0..7)), seed \in Words : crc32_small(bytes, seed) = Crc(bytes, seed)
BY MessageDivided

(* The words and messages that the routines are called with *)
LEMMA CalledWithWords ==
  /\ Inputs \subseteq Words
  /\ Messages \subseteq Seq(SUBSET (0..7)) /\ {{}, Bits} \subseteq Words
<1>1. Sparse \subseteq Words
  <2>1. \A a, b \in Bits : {a, b} \in Words
    BY DEF Words
  <2>2. \A b \in Bits : 0..b \in Words
    BY DEF Words, Bits
  <2>3. {} \in Words
    BY DEF Words
  <2>4. \A w \in Sparse : w = {} \/ (\E a, b \in Bits : w = {a, b}) \/ \E b \in Bits : w = 0..b
    BY DEF Sparse
  <2>5. ASSUME NEW w \in Sparse
        PROVE  w \in Words
    <3>1. CASE w = {}
      BY <2>3, <3>1
    <3>2. CASE \E a, b \in Bits : w = {a, b}
      BY <2>1, <3>2
    <3>3. CASE \E b \in Bits : w = 0..b
      BY <2>2, <3>3
    <3>4. QED BY <2>4, <3>1, <3>2, <3>3
  <2>6. QED BY <2>5
<1>2. \A w \in Sparse : Bits \ w \in Words
  BY DEF Words
<1>3. Inputs \subseteq Words
  BY <1>1, <1>2 DEF Inputs
<1>4. MessageBytes \subseteq SUBSET (0..7)
  BY DEF MessageBytes
<1>5. Messages \subseteq Seq(SUBSET (0..7))
  <2>1. <<>> \in Seq(SUBSET (0..7))
    OBVIOUS
  <2>2. \A a \in MessageBytes : <<a>> \in Seq(SUBSET (0..7))
    BY <1>4
  <2>3. \A a, b \in MessageBytes : <<a, b>> \in Seq(SUBSET (0..7))
    BY <1>4
  <2>4. \A m \in Messages : \/ m = <<>>
                            \/ \E a \in MessageBytes : m = <<a>>
                            \/ \E a, b \in MessageBytes : m = <<a, b>>
    BY DEF Messages
  <2>5. QED BY <2>1, <2>2, <2>3, <2>4
<1>6. {{}, Bits} \subseteq Words
  BY DEF Words
<1>7. QED BY <1>3, <1>5, <1>6

(* CountBits and Checksum give the right results, and no other routine
   disturbs them. *)
LEMMA BitsStep ==
  ASSUME BitsRight, TextInv, [RomNext]_call
  PROVE  BitsRight'
<1> DEFINE Good(c) == /\ c.routine = "bits" => Counted(c.w, c.popcount, c.reversed, c.clz, c.ctz)
                      /\ c.routine = "crc" => c.crc = Crc(c.bytes, c.seed)
<1>1. Good(call)
  BY DEF BitsRight, Counted
<1>2. SUFFICES Good(call')
  BY DEF BitsRight, Counted
<1>3. CASE CountBits
  <2>1. PICK w \in Inputs :
          call' = [routine |-> "bits", w |-> w, popcount |-> popcount32(w),
                   reversed |-> reverse32(w), clz |-> clz32(w), ctz |-> ctz32(w)]
    BY <1>3 DEF CountBits
  <2>2. Counted(w, popcount32(w), reverse32(w), clz32(w), ctz32(w))
    BY CalledWithWords, EveryWordCounted
  <2>3. QED BY <2>1, <2>2
<1>4. CASE Checksum
  <2>1. PICK bytes \in Messages, seed \in {{}, Bits} :
          call' = [routine |-> "crc", bytes |-> bytes, seed |-> seed,
                   crc |-> crc32_small(bytes, seed)]
    BY <1>4 DEF Checksum
  <2>2. crc32_small(bytes, seed) = Crc(bytes, seed)
    BY CalledWithWords, EveryMessageDivided
  <2>3. QED BY <2>1, <2>2
<1>5. ASSUME call'.routine \notin {"bits", "crc"}
      PROVE  Good(call')
  BY <1>5
<1> HIDE DEF Good
<1>6. CASE Copy
  BY <1>5, <1>6 DEF Copy
<1>7. CASE Fill
  BY <1>5, <1>7 DEF Fill
<1>8. CASE Dump
  BY <1>5, <1>8 DEF Dump
<1>9. CASE Return
  BY <1>5, <1>9 DEF Return, Idle
<1>10. CASE Compress \/ CompressText \/ CheckText \/ ShowText
  BY <1>5, <1>10, WayStep
<1>11. CASE UNCHANGED call
  BY <1>1, <1>11
<1>12. QED
  BY <1>3, <1>4, <1>6, <1>7, <1>8, <1>9, <1>10, <1>11 DEF RomNext

(* The bit functions return what their names say, and crc32_small divides
   by its polynomial. *)
THEOREM BitsAlwaysRight == RomSpec => []BitsRight
<1>1. RomInit => TextInv /\ BitsRight
  BY DEF RomInit, Idle, TextInv, BitsRight
<1>2. TextInv /\ BitsRight /\ [RomNext]_call => (TextInv /\ BitsRight)'
  BY TextStep, BitsStep
<1>3. QED BY <1>1, <1>2, PTL DEF RomSpec
=============================================================================
