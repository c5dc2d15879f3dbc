------------------------------ MODULE FatMount ------------------------------
(***************************************************************************)
(* How FatFs takes a card for a FAT or exFAT volume (ED64-XIO/ff/ff.c):    *)
(* the search for a boot sector, the checks of its parameters, where the   *)
(* areas of the volume begin, and where in the FAT a cluster's entry is.   *)
(*                                                                         *)
(* bpb is the parameter block, a record of its fields.  A DWORD is a       *)
(* number below DWORDS; every sum and product of them wraps there.         *)
(***************************************************************************)
EXTENDS Integers, Sequences

CONSTANTS
  DWORDS,                              \* 2^32
  SS,                                  \* bytes in a sector           (512)
  SZDIRE,                              \* bytes of a directory entry   (32)
  MAX_FAT12, MAX_FAT16, MAX_FAT32,     \* clusters of a volume
  MAX_EXFAT                            \* those of an exFAT volume

ASSUME MountAssumption ==
  /\ SS \in Nat \ {0} /\ SS % 4 = 0
  /\ SZDIRE \in Nat \ {0} /\ SS \div SZDIRE \in Nat \ {0}
  /\ {DWORDS, MAX_FAT12, MAX_FAT16, MAX_FAT32} \subseteq Nat
  /\ MAX_FAT12 <= MAX_FAT16 /\ MAX_FAT16 <= MAX_FAT32
  /\ DWORDS > 4 * (MAX_FAT32 + 2) + SS
  /\ MAX_EXFAT \in Nat \ {0} /\ MAX_EXFAT + 2 < DWORDS

DW(n) == n % DWORDS

(***************************************************************************)
(* find_volume.  check[sect] is what check_fs says of a sector: 0 a boot   *)
(* sector of FAT, 1 of exFAT, 2 of something else, 3 none, 4 a disk error. *)
(* mbr_pt are the starts of the four partitions of sector 0.  The sector   *)
(* looked at last is the one mount_volume goes on with.                    *)
(***************************************************************************)
PartitionFmt(check, mbr_pt, i) == IF mbr_pt[i] # 0 THEN check[mbr_pt[i]] ELSE 3

find_volume(check, mbr_pt) ==
  IF check[0] # 2 THEN [fmt |-> check[0], bsect |-> 0]
  ELSE LET found == {i \in 0 .. 3 : PartitionFmt(check, mbr_pt, i) < 2}
           i == IF found = {} THEN 3 ELSE CHOOSE k \in found : \A j \in found : k <= j
       IN  [fmt |-> PartitionFmt(check, mbr_pt, i), bsect |-> mbr_pt[i]]

(***************************************************************************)
(* mount_volume, from the boot sector on.                                  *)
(***************************************************************************)
fsize(bpb) == IF bpb.FATSz16 # 0 THEN bpb.FATSz16 ELSE bpb.FATSz32
tsect(bpb) == IF bpb.TotSec16 # 0 THEN bpb.TotSec16 ELSE bpb.TotSec32
fasize(bpb) == DW(fsize(bpb) * bpb.NumFATs)
rootsize(bpb) == bpb.RootEntCnt \div (SS \div SZDIRE)
sysect(bpb) == DW(bpb.RsvdSecCnt + fasize(bpb) + rootsize(bpb))
nclst(bpb) == (tsect(bpb) - sysect(bpb)) \div bpb.SecPerClus
n_fatent(bpb) == nclst(bpb) + 2

fs_type(bpb) ==
  IF nclst(bpb) <= MAX_FAT12 THEN "FAT12"
  ELSE IF nclst(bpb) <= MAX_FAT16 THEN "FAT16" ELSE "FAT32"

\* Bytes the FAT needs.
szbfat(bpb) ==
  CASE fs_type(bpb) = "FAT32" -> n_fatent(bpb) * 4
    [] fs_type(bpb) = "FAT16" -> n_fatent(bpb) * 2
    [] OTHER                  -> (n_fatent(bpb) * 3) \div 2 + (n_fatent(bpb) % 2)

\* MUTANT of FatHolds: the last sector needed is not counted.
FatHolds_NoLast(bpb) == fsize(bpb) >= szbfat(bpb) \div SS

FatHolds(bpb) == fsize(bpb) >= (szbfat(bpb) + (SS - 1)) \div SS

Accepted(bpb) ==
  /\ bpb.BytsPerSec = SS
  /\ bpb.NumFATs \in {1, 2}
  /\ bpb.SecPerClus \in {1, 2, 4, 8, 16, 32, 64, 128}
  /\ bpb.RootEntCnt % (SS \div SZDIRE) = 0
  /\ bpb.RsvdSecCnt # 0
  /\ tsect(bpb) >= sysect(bpb)
  /\ nclst(bpb) \in 1 .. MAX_FAT32
  /\ IF fs_type(bpb) = "FAT32" THEN bpb.FSVer32 = 0 /\ bpb.RootEntCnt = 0 ELSE bpb.RootEntCnt # 0
  /\ FatHolds(bpb)

fatbase(bpb, bsect) == DW(bsect + bpb.RsvdSecCnt)
database(bpb, bsect) == DW(bsect + sysect(bpb))
dirbase(bpb, bsect) ==
  IF fs_type(bpb) = "FAT32" THEN bpb.RootClus32 ELSE DW(fatbase(bpb, bsect) + fasize(bpb))
clst2sect(bpb, bsect, clst) == DW(database(bpb, bsect) + bpb.SecPerClus * (clst - 2))

(***************************************************************************)
(* get_fat and put_fat: the first and the last byte of an entry, and the   *)
(* entries of one and a half bytes.  There a byte is a pair of nibbles, an *)
(* entry a triple, the lower ones first.                                   *)
(***************************************************************************)
EntryAt(type, clst) ==
  CASE type = "FAT32" -> 4 * clst
    [] type = "FAT16" -> 2 * clst
    [] OTHER          -> clst + clst \div 2
EntryEnd(type, clst) == EntryAt(type, clst) + (IF type = "FAT32" THEN 3 ELSE 1)
EntrySector(bpb, bsect, byte) == DW(fatbase(bpb, bsect) + byte \div SS)

get_fat12(fat, clst) ==
  LET bc == EntryAt("FAT12", clst)
  IN  IF clst % 2 = 1 THEN <<fat[bc][2], fat[bc + 1][1], fat[bc + 1][2]>>
      ELSE <<fat[bc][1], fat[bc][2], fat[bc + 1][1]>>

put_fat12(fat, clst, val) ==
  LET bc == EntryAt("FAT12", clst)
  IN  IF clst % 2 = 1 THEN [fat EXCEPT ![bc] = <<fat[bc][1], val[1]>>, ![bc + 1] = <<val[2], val[3]>>]
      ELSE [fat EXCEPT ![bc] = <<val[1], val[2]>>, ![bc + 1] = <<val[3], fat[bc + 1][2]>>]

(***************************************************************************)
(* mount_volume for exFAT.  bpb.root are the entries of the first cluster  *)
(* of the root directory, the bitmap entry <<ET_BITMAP, its cluster>>, and *)
(* bpb.fat is the FAT, whose last link is EOX.  The zeroed field is not    *)
(* looked at here.                                                         *)
(***************************************************************************)
ET_BITMAP == 129
EOX == DWORDS - 1

\* 1 << n, as far as a cluster size has its 16 bits.
ShiftedOne[n \in 0 .. 15] == IF n = 0 THEN 1 ELSE 2 * ShiftedOne[n - 1]
ex_csize(bpb) == ShiftedOne[bpb.SecPerClusEx]
ex_database(bpb, bsect) == DW(bsect + bpb.DataOfsEx)

\* 0 if there is none in this cluster.
bitmap_entry(bpb) ==
  LET at == {i \in 1 .. ex_csize(bpb) * (SS \div SZDIRE) : i \in DOMAIN bpb.root /\ bpb.root[i][1] = ET_BITMAP}
  IN  IF at = {} THEN 0 ELSE bpb.root[CHOOSE i \in at : \A j \in at : i <= j][2]

\* From bcl on, each link goes to the next cluster, up to one that is the last.
contiguous(fat, bcl) ==
  \E last \in DOMAIN fat :
    bcl <= last /\ fat[last] = EOX /\ \A k \in bcl .. last - 1 : k \in DOMAIN fat /\ fat[k] = k + 1

ex_accepted(bpb, bsect) ==
  LET maxlba == bsect + bpb.TotSecEx
  IN  /\ bpb.FSVerEx = 256
      /\ 2 ^ bpb.BytsPerSecEx = SS
      /\ maxlba < DWORDS
      /\ bpb.NumFATsEx = 1
      /\ bpb.SecPerClusEx < 16
      /\ bpb.NumClusEx <= MAX_EXFAT
      /\ maxlba >= ex_database(bpb, bsect) + DW(bpb.NumClusEx * ex_csize(bpb))
      /\ bitmap_entry(bpb) \in 2 .. bpb.NumClusEx + 1
      /\ contiguous(bpb.fat, bitmap_entry(bpb))

ex_clst2sect(bpb, bsect, clst) == DW(ex_database(bpb, bsect) + ex_csize(bpb) * (clst - 2))
bitbase(bpb, bsect) == DW(ex_database(bpb, bsect) + ex_csize(bpb) * (bitmap_entry(bpb) - 2))

(***************************************************************************)
(* What the checks are there for.                                          *)
(***************************************************************************)
Fields(bpb) ==
  /\ \A f \in {"FATSz16", "FATSz32", "NumFATs", "TotSec16", "TotSec32", "SecPerClus",
               "RootEntCnt", "RsvdSecCnt", "RootClus32"} : bpb[f] \in 0 .. DWORDS - 1
  /\ bpb.BytsPerSec \in Nat /\ bpb.FSVer32 \in Nat

\* The code does not look whether the sums wrap; on a volume a formatter has
\* made they do not.
NoWrap(bpb, bsect) ==
  /\ bsect \in Nat
  /\ bpb.RsvdSecCnt + fsize(bpb) * bpb.NumFATs + rootsize(bpb) < DWORDS
  /\ bsect + tsect(bpb) < DWORDS

\* Reserved sectors, FATs, root directory and clusters follow each other in
\* the volume, and both ends of the entry of each cluster are in the FAT.
AreasApart(bpb, bsect) ==
  /\ bsect < fatbase(bpb, bsect)
  /\ fatbase(bpb, bsect) + fsize(bpb) * bpb.NumFATs + rootsize(bpb) = database(bpb, bsect)
  /\ fs_type(bpb) # "FAT32" => dirbase(bpb, bsect) = fatbase(bpb, bsect) + fsize(bpb) * bpb.NumFATs
  /\ \A clst \in 2 .. n_fatent(bpb) - 1 :
       /\ clst2sect(bpb, bsect, clst) >= database(bpb, bsect)
       /\ clst2sect(bpb, bsect, clst) + bpb.SecPerClus <= bsect + tsect(bpb)
\* Two clusters share no sector.
ClustersApart(bpb, bsect) ==
  \A c, d \in 2 .. n_fatent(bpb) - 1 :
    c < d => clst2sect(bpb, bsect, c) + bpb.SecPerClus <= clst2sect(bpb, bsect, d)
EntriesInFat(bpb, bsect) ==
  \A clst \in 2 .. n_fatent(bpb) - 1 :
    \A byte \in {EntryAt(fs_type(bpb), clst), EntryEnd(fs_type(bpb), clst)} :
      EntrySector(bpb, bsect, byte) \in fatbase(bpb, bsect) .. fatbase(bpb, bsect) + fsize(bpb) - 1

\* The volume that is mounted is the card itself, or that of the first
\* partition that has one.
FirstVolume(check, mbr_pt) ==
  LET v == find_volume(check, mbr_pt)
      firsts == {i \in 0 .. 3 : mbr_pt[i] # 0 /\ check[mbr_pt[i]] <= 1}
  IN  IF check[0] # 2 THEN v = [fmt |-> check[0], bsect |-> 0]
      ELSE /\ v.fmt <= 1 <=> firsts # {}
           /\ v.fmt <= 1 => \E i \in firsts : /\ mbr_pt[i] = v.bsect /\ check[v.bsect] = v.fmt
                                            /\ \A j \in firsts : i <= j

\* A FAT12 entry is read as it was written, and the others are what they were.
EntryApart(fat, c, d, val) ==
  get_fat12(put_fat12(fat, c, val), d) = IF c = d THEN val ELSE get_fat12(fat, d)

ExFields(bpb) ==
  /\ \A f \in {"TotSecEx", "DataOfsEx", "NumClusEx", "SecPerClusEx"} : bpb[f] \in Nat
  /\ bpb.fat \in Seq(Nat) /\ Len(bpb.fat) < EOX
ExNoWrap(bpb, bsect) ==
  /\ bsect + bpb.TotSecEx < DWORDS /\ bsect + bpb.DataOfsEx < DWORDS
  /\ bpb.NumClusEx * ex_csize(bpb) < DWORDS

\* The clusters of an exFAT volume lie between the start of its data and its
\* end, and no two of them share a sector.
ExClustersInside(bpb, bsect) ==
  \A clst \in 2 .. bpb.NumClusEx + 1 :
    /\ ex_clst2sect(bpb, bsect, clst) >= bsect + bpb.DataOfsEx
    /\ ex_clst2sect(bpb, bsect, clst) + ex_csize(bpb) <= bsect + bpb.TotSecEx
ExClustersApart(bpb, bsect) ==
  \A c, d \in 2 .. bpb.NumClusEx + 1 :
    c < d => ex_clst2sect(bpb, bsect, c) + ex_csize(bpb) <= ex_clst2sect(bpb, bsect, d)

\* The bitmap, whose sectors are counted up from bitbase, is where its chain in
\* the FAT says, as far as that is in the volume; next is the chain.
BitmapInPlace(bpb, bsect) ==
  LET next[k \in 0 .. Len(bpb.fat)] ==
        IF k = 0 THEN bitmap_entry(bpb)
        ELSE IF next[k - 1] \in DOMAIN bpb.fat THEN bpb.fat[next[k - 1]] ELSE 0
  IN  /\ bitbase(bpb, bsect) \in ex_database(bpb, bsect) .. bsect + bpb.TotSecEx - 1
      /\ \A k \in DOMAIN next :
           next[k] \in 2 .. bpb.NumClusEx + 1 =>
             ex_clst2sect(bpb, bsect, next[k]) = bitbase(bpb, bsect) + ex_csize(bpb) * k
      /\ \E k \in DOMAIN next : next[k] = EOX
=============================================================================
