------------------------------ MODULE FatExDir ------------------------------
(***************************************************************************)
(* Directories of an exFAT volume (ED64-XIO/ff/ff.c with FF_FS_EXFAT).     *)
(*                                                                         *)
(* An object has a set of entries, each a sequence of bytes here:          *)
(*   85  type, number of entries behind, sum of the set (2), attributes    *)
(*   C0  type, length of the name, hash of the name (2), flags             *)
(*   C1  type, 0, XPart characters of the name (2 bytes each)              *)
(* Times, sizes and clusters are left out: they are bytes like the         *)
(* attributes.  A directory is a sequence of entries, those of its         *)
(* clusters.  Sums and hashes have their 16 bits.                          *)
(***************************************************************************)
EXTENDS FatUnicode

CONSTANTS
  XPart,       \* characters in an entry            (15)
  XMax,        \* characters of a name              (FF_MAX_LFN)
  XEntries     \* entries in a cluster

ASSUME ExDirAssumption == {XPart, XMax, XEntries} \subseteq Nat \ {0}

ET_FILEDIR == 133
ET_STREAM == 192
ET_FILENAME == 193
InUse(type) == type >= 128
Word(n) == <<n % 256, n \div 256>>

\* Rotate, and add a byte.
sum_on(sum, byte) == (((sum % 2) * 32768) + (sum \div 2) + byte) % 65536
sum_all(sum0, bytes) ==
  LET sum[i \in 0 .. Len(bytes)] == IF i = 0 THEN sum0 ELSE sum_on(sum[i - 1], bytes[i])
  IN  sum[Len(bytes)]

xname_sum(name) ==
  LET sum[i \in 0 .. Len(name)] == IF i = 0 THEN 0 ELSE sum_all(sum[i - 1], Word(ff_wtoupper(name[i])))
  IN  sum[Len(name)]

\* Entry by entry; the sum itself, in the first one, is skipped.
counted(set, k) ==
  IF k = 1 THEN [i \in 1 .. Len(set[1]) - 2 |-> set[1][IF i <= 2 THEN i ELSE i + 2]] ELSE set[k]
xdir_sum(set) ==
  LET sum[k \in 0 .. Len(set)] == IF k = 0 THEN 0 ELSE sum_all(sum[k - 1], counted(set, k))
  IN  sum[Len(set)]

\* Entries of a set with a name of n characters (MAXDIRB).
set_size(n) == (n + 3 * XPart - 1) \div XPart

create_xdir(lfn) ==
  LET nc1 == (Len(lfn) + XPart - 1) \div XPart
      chr(i) == IF i <= Len(lfn) THEN lfn[i] ELSE 0
  IN  <<<<ET_FILEDIR, nc1 + 1, 0, 0, 0>>, <<ET_STREAM, Len(lfn)>> \o Word(xname_sum(lfn)) \o <<0>>>>
      \o [k \in 1 .. nc1 |->
            [j \in 1 .. 2 + 2 * XPart |->
               IF j <= 2 THEN <<ET_FILENAME, 0>>[j]
               ELSE Word(chr((k - 1) * XPart + (j - 1) \div 2))[((j - 1) % 2) + 1]]]

\* What f_open, f_mkdir or f_sync puts into the set, and the set on the card.
store_xdir(set, attr) ==
  LET marked == [set EXCEPT ![1][5] = attr]
      sum == Word(xdir_sum(marked))
  IN  [marked EXCEPT ![1][3] = sum[1], ![1][4] = sum[2]]

\* The set that begins with entry at, or <<>> if it is not one (FR_INT_ERR).
load_xdir(dir, at) ==
  LET n == dir[at][2] + 1
      behind == at + n - 1
      set == SubSeq(dir, at, behind)
      whole ==
        /\ dir[at][1] = ET_FILEDIR
        /\ n \in 3 .. set_size(XMax)
        /\ at + 1 \in DOMAIN dir /\ dir[at + 1][1] = ET_STREAM
        /\ set_size(dir[at + 1][2]) <= n
        /\ behind \in DOMAIN dir /\ \A k \in at + 2 .. behind : dir[k][1] = ET_FILENAME
  IN  IF whole THEN IF Word(xdir_sum(set)) = <<set[1][3], set[1][4]>> THEN set ELSE <<>>
      ELSE <<>>

\* Character i of the name in a set.
char(set, i) ==
  LET e == set[3 + (i - 1) \div XPart]
      j == 3 + 2 * ((i - 1) % XPart)
  IN  e[j] + 256 * e[j + 1]

\* The name for the caller, in the code page table; "?" if it has no form
\* there.
get_xfileinfo(set, table) ==
  LET oem == [i \in 1 .. set[2][2] |->
                IF char(set, i) \in \hD800 .. \hDFFF THEN 0 ELSE ff_uni2oem(char(set, i), table)]
  IN  IF oem = <<>> \/ \E i \in DOMAIN oem : oem[i] = 0 THEN <<63>> ELSE oem

named(set, name) ==
  /\ <<set[2][3], set[2][4]>> = Word(xname_sum(name))
  /\ set[2][2] = Len(name)
  /\ \A i \in 1 .. set[2][2] : ff_wtoupper(char(set, i)) = ff_wtoupper(name[i])

\* dir_find from entry at on: where the object is, 0 if it is not there, -1
\* after an error.
dir_find(dir, name) ==
  LET from[at \in 1 .. Len(dir) + 1] ==
        IF at > Len(dir) THEN 0
        ELSE IF dir[at][1] = 0 THEN 0
        ELSE IF dir[at][1] # ET_FILEDIR THEN from[at + 1]
        ELSE LET set == load_xdir(dir, at)
             IN  IF set = <<>> THEN -1
                 ELSE IF named(set, name) THEN at ELSE from[at + Len(set)]
  IN  from[1]

\* The set at entry at is taken away.
dir_remove(dir, at) ==
  [k \in DOMAIN dir |->
     IF k \in at .. at + dir[at][2] THEN [dir[k] EXCEPT ![1] = @ % 128] ELSE dir[k]]

\* The first of nent free entries in a row; the directory grows for them by
\* empty clusters.  The set of a new object goes there.
Grown(dir, n) ==
  [k \in 1 .. XEntries * ((n + XEntries - 1) \div XEntries) |-> IF k \in DOMAIN dir THEN dir[k] ELSE <<0>>]
dir_alloc(dir, nent) ==
  CHOOSE at \in 1 .. Len(dir) + 1 :
    LET free(k) == \A i \in k .. k + nent - 1 : i \in DOMAIN dir => ~InUse(dir[i][1])
    IN  free(at) /\ \A k \in 1 .. at - 1 : ~free(k)
dir_register(dir, lfn, attr) ==
  LET set == store_xdir(create_xdir(lfn), attr)
      at == dir_alloc(dir, set_size(Len(lfn)))
      behind == at + Len(set) - 1
      room == IF behind > Len(dir) THEN Grown(dir, behind) ELSE dir
  IN  [k \in DOMAIN room |-> IF k \in at .. behind THEN set[k - at + 1] ELSE room[k]]

=============================================================================
