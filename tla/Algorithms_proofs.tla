-------------------------- MODULE Algorithms_proofs --------------------------
(***************************************************************************)
(* Proofs about Algorithms and Encodings, for every sample that meets the  *)
(* assumptions: the layout of volumes of every size and type, the          *)
(* conversions of files of every length and of every list of arguments,    *)
(* the search through code pages, long and short names of every length,    *)
(* and the sums of entry sets.                                             *)
(***************************************************************************)
EXTENDS Algorithms, Encodings, Induction, SequenceTheorems

-----------------------------------------------------------------------------
(***************************************************************************)
(* FatMount: the checks of mount_volume are enough for the areas of every  *)
(* volume, of every size and type, to lie apart and for the FAT to hold    *)
(* every cluster's entry; the entries of a FAT12 do not share anything.    *)
(***************************************************************************)

\* Facts about division and remainder.
LEMMA DivBound == \A a \in Nat, c \in Nat \ {0} : c * (a \div c) <= a /\ a \div c \in Nat
OBVIOUS
LEMMA DivLess == \A a, b \in Nat, c \in Nat \ {0} : a < b * c => a \div c < b
OBVIOUS
LEMMA DivUp ==
  \A a, b \in Nat, c \in Nat \ {0} : b >= (a + (c - 1)) \div c => a <= b * c
OBVIOUS
LEMMA NoWrapMod == \A a \in Nat : a < DWORDS => DW(a) = a
BY MountAssumption DEF DW
LEMMA ProductStep == \A c, n \in Nat : n >= 1 => c * n = c * (n - 1) + c
OBVIOUS
LEMMA ProductGrows == \A a, b, c \in Nat : a <= b => c * a <= c * b
OBVIOUS

\* Facts about the parameters of an accepted volume.
Sizes(bpb) ==
  /\ {fsize(bpb), tsect(bpb), rootsize(bpb)} \subseteq Nat
  /\ bpb.SecPerClus \in Nat \ {0} /\ bpb.NumFATs \in {1, 2} /\ bpb.RsvdSecCnt \in Nat \ {0}
  /\ fasize(bpb) = fsize(bpb) * bpb.NumFATs
  /\ sysect(bpb) = bpb.RsvdSecCnt + fsize(bpb) * bpb.NumFATs + rootsize(bpb)
  /\ fsize(bpb) <= fsize(bpb) * bpb.NumFATs
  /\ fsize(bpb) * bpb.NumFATs \in Nat

\* Without a wrap the sums of mount_volume are those of the integers.
LEMMA SizesOf ==
  ASSUME NEW bpb, NEW bsect, Fields(bpb), NoWrap(bpb, bsect), Accepted(bpb)
  PROVE  Sizes(bpb)
<1>1. /\ fsize(bpb) \in Nat /\ tsect(bpb) \in Nat /\ bpb.RootEntCnt \in Nat
      /\ bpb.RsvdSecCnt \in Nat /\ bpb.NumFATs \in {1, 2}
  BY MountAssumption DEF Fields, Accepted, fsize, tsect
<1>2. bpb.SecPerClus \in Nat \ {0} /\ bpb.RsvdSecCnt # 0
  BY DEF Accepted
<1>3. rootsize(bpb) \in Nat
  BY <1>1, MountAssumption, DivBound DEF rootsize
<1>4. fsize(bpb) * bpb.NumFATs \in Nat /\ fsize(bpb) <= fsize(bpb) * bpb.NumFATs
  BY <1>1
<1>5. bpb.RsvdSecCnt + fsize(bpb) * bpb.NumFATs + rootsize(bpb) < DWORDS
  BY DEF NoWrap
<1>6. fsize(bpb) * bpb.NumFATs < DWORDS
  BY <1>1, <1>3, <1>4, <1>5, MountAssumption
<1>7. fasize(bpb) = fsize(bpb) * bpb.NumFATs
  BY <1>4, <1>6, NoWrapMod DEF fasize
<1>8. bpb.RsvdSecCnt + fsize(bpb) * bpb.NumFATs + rootsize(bpb) \in Nat
  BY <1>1, <1>3, <1>4
<1>9. sysect(bpb) = bpb.RsvdSecCnt + fsize(bpb) * bpb.NumFATs + rootsize(bpb)
  BY <1>5, <1>7, <1>8, NoWrapMod DEF sysect
<1> QED
  BY <1>1, <1>2, <1>3, <1>4, <1>7, <1>9 DEF Sizes

\* Where the areas begin.
LEMMA BasesOf ==
  ASSUME NEW bpb, NEW bsect, Fields(bpb), NoWrap(bpb, bsect), Accepted(bpb)
  PROVE  /\ fatbase(bpb, bsect) = bsect + bpb.RsvdSecCnt
         /\ database(bpb, bsect) = bsect + sysect(bpb)
         /\ sysect(bpb) \in Nat /\ sysect(bpb) <= tsect(bpb)
         /\ bsect \in Nat /\ bsect + tsect(bpb) < DWORDS
<1>1. Sizes(bpb)
  BY SizesOf
<1>2. sysect(bpb) \in Nat /\ bpb.RsvdSecCnt <= sysect(bpb)
  BY <1>1 DEF Sizes
<1>3. sysect(bpb) <= tsect(bpb)
  BY <1>1, <1>2 DEF Accepted, Sizes
<1>4. bsect \in Nat /\ bsect + tsect(bpb) < DWORDS
  BY DEF NoWrap
<1>5. bsect + bpb.RsvdSecCnt \in Nat /\ bsect + bpb.RsvdSecCnt < DWORDS
  BY <1>1, <1>2, <1>3, <1>4, MountAssumption DEF Sizes
<1>6. bsect + sysect(bpb) \in Nat /\ bsect + sysect(bpb) < DWORDS
  BY <1>1, <1>2, <1>3, <1>4, MountAssumption DEF Sizes
<1> QED
  BY <1>2, <1>3, <1>4, <1>5, <1>6, NoWrapMod DEF fatbase, database

\* Without a wrap a cluster is where its number says, inside the volume.
LEMMA ClusterPlace ==
  ASSUME NEW bpb, NEW bsect, Fields(bpb), NoWrap(bpb, bsect), Accepted(bpb),
         NEW clst \in 2 .. n_fatent(bpb) - 1
  PROVE  /\ clst2sect(bpb, bsect, clst) = database(bpb, bsect) + bpb.SecPerClus * (clst - 2)
         /\ bpb.SecPerClus * (clst - 2) \in Nat /\ clst - 2 \in Nat
         /\ clst2sect(bpb, bsect, clst) + bpb.SecPerClus <= bsect + tsect(bpb)
<1>1. Sizes(bpb)
  BY SizesOf
<1>2. /\ database(bpb, bsect) = bsect + sysect(bpb)
      /\ sysect(bpb) \in Nat /\ sysect(bpb) <= tsect(bpb)
      /\ bsect \in Nat /\ bsect + tsect(bpb) < DWORDS
  BY BasesOf
<1> DEFINE free == tsect(bpb) - sysect(bpb)
           csize == bpb.SecPerClus
<1>3. free \in Nat /\ csize \in Nat \ {0}
  BY <1>1, <1>2 DEF Sizes
<1>4. nclst(bpb) \in Nat /\ csize * nclst(bpb) <= free
  BY <1>3, DivBound DEF nclst
<1>5. clst - 2 \in Nat /\ clst - 1 \in Nat /\ clst - 1 <= nclst(bpb)
  BY <1>4 DEF n_fatent
<1>6. csize * (clst - 1) <= csize * nclst(bpb)
  BY <1>3, <1>4, <1>5, ProductGrows
<1>7. csize * (clst - 1) = csize * (clst - 2) + csize
  <2>1. clst - 1 >= 1 /\ (clst - 1) - 1 = clst - 2
    BY <1>5
  <2> HIDE DEF csize
  <2> QED
    BY <1>3, <1>5, <2>1, ProductStep
<1>8. csize * (clst - 2) \in Nat
  BY <1>3, <1>5
<1>9. csize * (clst - 2) + csize <= free
  BY <1>3, <1>4, <1>5, <1>6, <1>7, <1>8
<1>10. /\ database(bpb, bsect) + csize * (clst - 2) \in Nat
       /\ database(bpb, bsect) + csize * (clst - 2) < DWORDS
  BY <1>1, <1>2, <1>3, <1>8, <1>9, MountAssumption DEF Sizes
<1>11. clst2sect(bpb, bsect, clst) = database(bpb, bsect) + csize * (clst - 2)
  BY <1>10, NoWrapMod DEF clst2sect
<1> QED
  BY <1>1, <1>2, <1>3, <1>5, <1>8, <1>9, <1>11 DEF Sizes

\* mount_volume takes no volume whose areas overlap or whose last cluster
\* passes its end.
THEOREM AcceptedAreas ==
  ASSUME NEW bpb, NEW bsect, Fields(bpb), NoWrap(bpb, bsect), Accepted(bpb)
  PROVE  AreasApart(bpb, bsect)
<1>1. Sizes(bpb)
  BY SizesOf
<1>2. /\ fatbase(bpb, bsect) = bsect + bpb.RsvdSecCnt
      /\ database(bpb, bsect) = bsect + sysect(bpb)
      /\ sysect(bpb) \in Nat /\ sysect(bpb) <= tsect(bpb)
      /\ bsect \in Nat /\ bsect + tsect(bpb) < DWORDS
  BY BasesOf
<1>3. bsect < fatbase(bpb, bsect)
  BY <1>1, <1>2 DEF Sizes
<1>4. fatbase(bpb, bsect) + fsize(bpb) * bpb.NumFATs + rootsize(bpb) = database(bpb, bsect)
  BY <1>1, <1>2 DEF Sizes
<1>5. ASSUME fs_type(bpb) # "FAT32"
      PROVE  dirbase(bpb, bsect) = fatbase(bpb, bsect) + fsize(bpb) * bpb.NumFATs
  <2>1. /\ fatbase(bpb, bsect) + fsize(bpb) * bpb.NumFATs \in Nat
        /\ fatbase(bpb, bsect) + fsize(bpb) * bpb.NumFATs < DWORDS
    BY <1>1, <1>2, <1>4, MountAssumption DEF Sizes
  <2> QED
    BY <1>1, <1>5, <2>1, NoWrapMod DEF dirbase, Sizes
<1>6. ASSUME NEW clst \in 2 .. n_fatent(bpb) - 1
      PROVE  /\ clst2sect(bpb, bsect, clst) >= database(bpb, bsect)
             /\ clst2sect(bpb, bsect, clst) + bpb.SecPerClus <= bsect + tsect(bpb)
  <2>1. /\ bpb.SecPerClus * (clst - 2) \in Nat
        /\ clst2sect(bpb, bsect, clst) = database(bpb, bsect) + bpb.SecPerClus * (clst - 2)
        /\ clst2sect(bpb, bsect, clst) + bpb.SecPerClus <= bsect + tsect(bpb)
    BY ClusterPlace
  <2> QED
    BY <1>2, <2>1
<1> QED
  BY <1>3, <1>4, <1>5, <1>6 DEF AreasApart

\* clst2sect gives no sector of an accepted volume to two clusters.
THEOREM ClustersAreApart ==
  ASSUME NEW bpb, NEW bsect, Fields(bpb), NoWrap(bpb, bsect), Accepted(bpb)
  PROVE  ClustersApart(bpb, bsect)
<1> SUFFICES ASSUME NEW c \in 2 .. n_fatent(bpb) - 1, NEW d \in 2 .. n_fatent(bpb) - 1, c < d
             PROVE  clst2sect(bpb, bsect, c) + bpb.SecPerClus <= clst2sect(bpb, bsect, d)
  BY DEF ClustersApart
<1> DEFINE csize == bpb.SecPerClus
<1>1. csize \in Nat \ {0}
  BY SizesOf DEF Sizes
<1>2. /\ clst2sect(bpb, bsect, c) = database(bpb, bsect) + csize * (c - 2)
      /\ csize * (c - 2) \in Nat /\ c - 2 \in Nat
  BY ClusterPlace
<1>3. /\ clst2sect(bpb, bsect, d) = database(bpb, bsect) + csize * (d - 2)
      /\ csize * (d - 2) \in Nat /\ d - 2 \in Nat
  BY ClusterPlace
<1>4. c - 1 \in Nat /\ c - 1 <= d - 2
  BY <1>2, <1>3
<1>5. csize * (c - 1) <= csize * (d - 2)
  BY <1>1, <1>3, <1>4, ProductGrows
<1>6. csize * (c - 1) = csize * (c - 2) + csize
  <2>1. c - 1 >= 1 /\ (c - 1) - 1 = c - 2
    BY <1>2
  <2> HIDE DEF csize
  <2> QED
    BY <1>1, <1>4, <2>1, ProductStep
<1>7. database(bpb, bsect) \in Nat
  BY BasesOf
<1> HIDE DEF csize
<1>8. database(bpb, bsect) + csize * (c - 2) + csize <= database(bpb, bsect) + csize * (d - 2)
  BY <1>1, <1>2, <1>3, <1>5, <1>6, <1>7
<1> QED
  BY <1>1, <1>2, <1>3, <1>7, <1>8 DEF csize

\* The bytes of a cluster's entry are among those the FAT needs.
LEMMA EntryInside ==
  ASSUME NEW bpb, nclst(bpb) \in Nat, NEW clst \in 2 .. n_fatent(bpb) - 1,
         NEW byte \in {EntryAt(fs_type(bpb), clst), EntryEnd(fs_type(bpb), clst)}
  PROVE  byte \in Nat /\ byte < szbfat(bpb) /\ szbfat(bpb) \in Nat
<1>1. n_fatent(bpb) \in Nat /\ clst \in Nat /\ clst < n_fatent(bpb)
  BY DEF n_fatent
<1>2. fs_type(bpb) \in {"FAT12", "FAT16", "FAT32"}
  BY DEF fs_type
<1>3. CASE fs_type(bpb) = "FAT32"
  BY <1>1, <1>3 DEF EntryAt, EntryEnd, szbfat
<1>4. CASE fs_type(bpb) = "FAT16"
  BY <1>1, <1>4 DEF EntryAt, EntryEnd, szbfat
<1>5. CASE fs_type(bpb) = "FAT12"
  BY <1>1, <1>5 DEF EntryAt, EntryEnd, szbfat
<1> QED
  BY <1>2, <1>3, <1>4, <1>5

\* The FAT of an accepted volume holds the entry of every cluster, with both
\* ends, so no access to it reaches the second FAT or the data.
THEOREM AcceptedEntries ==
  ASSUME NEW bpb, NEW bsect, Fields(bpb), NoWrap(bpb, bsect), Accepted(bpb)
  PROVE  EntriesInFat(bpb, bsect)
<1> SUFFICES ASSUME NEW clst \in 2 .. n_fatent(bpb) - 1,
                    NEW byte \in {EntryAt(fs_type(bpb), clst), EntryEnd(fs_type(bpb), clst)}
             PROVE  EntrySector(bpb, bsect, byte)
                      \in fatbase(bpb, bsect) .. fatbase(bpb, bsect) + fsize(bpb) - 1
  BY DEF EntriesInFat
<1>1. Sizes(bpb)
  BY SizesOf
<1>2. /\ fatbase(bpb, bsect) = bsect + bpb.RsvdSecCnt
      /\ sysect(bpb) \in Nat /\ sysect(bpb) <= tsect(bpb)
      /\ bsect \in Nat /\ bsect + tsect(bpb) < DWORDS
  BY BasesOf
<1>3. nclst(bpb) \in Nat
  <2>1. tsect(bpb) - sysect(bpb) \in Nat /\ bpb.SecPerClus \in Nat \ {0}
    BY <1>1, <1>2 DEF Sizes
  <2> QED
    BY <2>1, DivBound DEF nclst
<1>4. byte \in Nat /\ byte < szbfat(bpb) /\ szbfat(bpb) \in Nat
  BY <1>3, EntryInside
<1>5. SS \in Nat \ {0}
  BY MountAssumption
<1>6. szbfat(bpb) <= fsize(bpb) * SS
  BY <1>1, <1>4, <1>5, DivUp DEF Accepted, FatHolds, Sizes
<1>7. byte < fsize(bpb) * SS
  BY <1>1, <1>4, <1>5, <1>6 DEF Sizes
<1>8. byte \div SS \in Nat /\ byte \div SS < fsize(bpb)
  BY <1>1, <1>4, <1>5, <1>7, DivLess, DivBound DEF Sizes
<1>9. fatbase(bpb, bsect) + fsize(bpb) <= bsect + sysect(bpb)
  BY <1>1, <1>2 DEF Sizes
<1>10. /\ fatbase(bpb, bsect) + byte \div SS \in Nat
       /\ fatbase(bpb, bsect) + byte \div SS < DWORDS
  BY <1>1, <1>2, <1>8, <1>9, MountAssumption DEF Sizes
<1>11. EntrySector(bpb, bsect, byte) = fatbase(bpb, bsect) + byte \div SS
  BY <1>10, NoWrapMod DEF EntrySector
<1>12. fatbase(bpb, bsect) \in Nat /\ fsize(bpb) \in Nat
  BY <1>1, <1>2 DEF Sizes
<1> QED
  BY <1>8, <1>11, <1>12

\* put_fat changes the entry it is told to and no other, though two entries
\* share a byte.
THEOREM EntriesApart ==
  ASSUME NEW D \in SUBSET Nat, NEW fat \in [D -> (0 .. 15) \X (0 .. 15)],
         NEW val \in (0 .. 15) \X (0 .. 15) \X (0 .. 15),
         NEW c \in Nat, NEW d \in Nat,
         {EntryAt("FAT12", c), EntryEnd("FAT12", c), EntryAt("FAT12", d), EntryEnd("FAT12", d)} \subseteq D
  PROVE  EntryApart(fat, c, d, val)
<1> DEFINE At(n) == n + n \div 2
           new == put_fat12(fat, c, val)
           Odd(f, n) == <<f[At(n)][2], f[At(n) + 1][1], f[At(n) + 1][2]>>
           Even(f, n) == <<f[At(n)][1], f[At(n)][2], f[At(n) + 1][1]>>
<1>1. {At(c), At(c) + 1, At(d), At(d) + 1} \subseteq D
  BY DEF EntryAt, EntryEnd
<1>2. \A f, n : get_fat12(f, n) = IF n % 2 = 1 THEN Odd(f, n) ELSE Even(f, n)
  BY DEF get_fat12, EntryAt
<1>3. val = <<val[1], val[2], val[3]>>
  OBVIOUS
<1>4. CASE c % 2 = 1
  <2>1. new = [fat EXCEPT ![At(c)] = <<fat[At(c)][1], val[1]>>, ![At(c) + 1] = <<val[2], val[3]>>]
    BY <1>4 DEF put_fat12, EntryAt
  <2>2. /\ new[At(c)] = <<fat[At(c)][1], val[1]>> /\ new[At(c) + 1] = <<val[2], val[3]>>
        /\ \A x \in D : x # At(c) /\ x # At(c) + 1 => new[x] = fat[x]
    <3> HIDE DEF At
    <3> QED
      BY <1>1, <2>1
  <2>3. CASE c = d
    <3>1. Odd(new, c) = <<val[1], val[2], val[3]>>
      <4> HIDE DEF At, new
      <4> QED
        BY <2>2
    <3> HIDE DEF At, Odd, Even
    <3> QED
      BY <1>2, <1>3, <1>4, <2>3, <3>1 DEF EntryApart
  <2>4. CASE c # d /\ d % 2 = 1
    <3>1. /\ At(d) # At(c) /\ At(d) # At(c) + 1
          /\ At(d) + 1 # At(c) /\ At(d) + 1 # At(c) + 1
      BY <1>4, <2>4
    <3>2. new[At(d)] = fat[At(d)] /\ new[At(d) + 1] = fat[At(d) + 1]
      <4> HIDE DEF At, new
      <4> QED
        BY <1>1, <2>2, <3>1
    <3>3. Odd(new, d) = Odd(fat, d)
      <4> HIDE DEF At, new
      <4> QED
        BY <3>2
    <3> HIDE DEF At, Odd, Even
    <3> QED
      BY <1>2, <2>4, <3>3 DEF EntryApart
  <2>5. CASE c # d /\ d % 2 # 1
    <3>1. /\ At(d) # At(c) /\ At(d) # At(c) + 1 /\ At(d) + 1 # At(c) + 1
      BY <1>4, <2>5
    <3>2. new[At(d)] = fat[At(d)] /\ new[At(d) + 1][1] = fat[At(d) + 1][1]
      <4> HIDE DEF At, new
      <4>1. new[At(d)] = fat[At(d)]
        BY <1>1, <2>2, <3>1
      <4>2. At(d) + 1 # At(c) => new[At(d) + 1] = fat[At(d) + 1]
        BY <1>1, <2>2, <3>1
      <4>3. new[At(c)][1] = fat[At(c)][1]
        BY <2>2
      <4> QED
        BY <4>1, <4>2, <4>3
    <3>3. Even(new, d) = Even(fat, d)
      <4> HIDE DEF At, new
      <4> QED
        BY <3>2
    <3> HIDE DEF At, Odd, Even
    <3> QED
      BY <1>2, <2>5, <3>3 DEF EntryApart
  <2> QED
    BY <2>3, <2>4, <2>5
<1>5. CASE c % 2 # 1
  <2>1. new = [fat EXCEPT ![At(c)] = <<val[1], val[2]>>, ![At(c) + 1] = <<val[3], fat[At(c) + 1][2]>>]
    BY <1>5 DEF put_fat12, EntryAt
  <2>2. /\ new[At(c)] = <<val[1], val[2]>> /\ new[At(c) + 1] = <<val[3], fat[At(c) + 1][2]>>
        /\ \A x \in D : x # At(c) /\ x # At(c) + 1 => new[x] = fat[x]
    <3> HIDE DEF At
    <3> QED
      BY <1>1, <2>1
  <2>3. CASE c = d
    <3>1. Even(new, c) = <<val[1], val[2], val[3]>>
      <4> HIDE DEF At, new
      <4> QED
        BY <2>2
    <3> HIDE DEF At, Odd, Even
    <3> QED
      BY <1>2, <1>3, <1>5, <2>3, <3>1 DEF EntryApart
  <2>4. CASE c # d /\ d % 2 = 1
    <3>1. /\ At(d) # At(c) /\ At(d) + 1 # At(c) /\ At(d) + 1 # At(c) + 1
      BY <1>5, <2>4
    <3>2. new[At(d)][2] = fat[At(d)][2] /\ new[At(d) + 1] = fat[At(d) + 1]
      <4> HIDE DEF At, new
      <4>1. new[At(d) + 1] = fat[At(d) + 1]
        BY <1>1, <2>2, <3>1
      <4>2. At(d) # At(c) + 1 => new[At(d)] = fat[At(d)]
        BY <1>1, <2>2, <3>1
      <4>3. new[At(c) + 1][2] = fat[At(c) + 1][2]
        BY <2>2
      <4> QED
        BY <4>1, <4>2, <4>3
    <3>3. Odd(new, d) = Odd(fat, d)
      <4> HIDE DEF At, new
      <4> QED
        BY <3>2
    <3> HIDE DEF At, Odd, Even
    <3> QED
      BY <1>2, <2>4, <3>3 DEF EntryApart
  <2>5. CASE c # d /\ d % 2 # 1
    <3>1. /\ At(d) # At(c) /\ At(d) # At(c) + 1
          /\ At(d) + 1 # At(c) /\ At(d) + 1 # At(c) + 1
      BY <1>5, <2>5
    <3>2. new[At(d)] = fat[At(d)] /\ new[At(d) + 1] = fat[At(d) + 1]
      <4> HIDE DEF At, new
      <4> QED
        BY <1>1, <2>2, <3>1
    <3>3. Even(new, d) = Even(fat, d)
      <4> HIDE DEF At, new
      <4> QED
        BY <3>2
    <3> HIDE DEF At, Odd, Even
    <3> QED
      BY <1>2, <2>5, <3>3 DEF EntryApart
  <2> QED
    BY <2>3, <2>4, <2>5
<1> QED
  BY <1>4, <1>5
-----------------------------------------------------------------------------
(***************************************************************************)
(* HostData: an image reaches the console in the console's order from each *)
(* order a file may have, nothing else is loaded, and the padding of a     *)
(* configuration keeps it whole.                                           *)
(***************************************************************************)

\* Facts about division and remainder.
LEMMA Quotient == \A a \in Nat, n \in Nat \ {0} : a \div n \in Nat
OBVIOUS
LEMMA ModuloIs == \A a \in Nat, n \in Nat \ {0} : a % n \in 0 .. n - 1
OBVIOUS
LEMMA Division == \A a \in Nat, n \in Nat \ {0} : a = n * (a \div n) + (a % n)
OBVIOUS
LEMMA ProductIsNat == \A a, b \in Nat : a * b \in Nat
OBVIOUS
LEMMA ExactQuotient == \A n \in Nat \ {0}, q \in Nat : (n * q) \div n = q
OBVIOUS
LEMMA SameQuotient ==
  \A n \in Nat \ {0}, q, r \in Nat : r < n => (n * q + r) \div n = q
OBVIOUS

(***************************************************************************)
(* reverse_each.  Twin is the place a byte comes from.                     *)
(***************************************************************************)
Start(i, n) == n * ((i - 1) \div n)
End(i, n, len) == IF Start(i, n) + n <= len THEN Start(i, n) + n ELSE len
Twin(i, n, len) == Start(i, n) + 1 + End(i, n, len) - i

\* A byte lies in its piece.
LEMMA InPiece ==
  ASSUME NEW n \in Nat \ {0}, NEW len \in Nat, NEW i \in 1 .. len
  PROVE  /\ Start(i, n) \in Nat /\ End(i, n, len) \in Nat
         /\ Start(i, n) < i /\ i <= End(i, n, len)
         /\ End(i, n, len) <= Start(i, n) + n /\ End(i, n, len) <= len
<1>1. i - 1 \in Nat
  OBVIOUS
<1>2. /\ Start(i, n) \in Nat /\ (i - 1) % n \in 0 .. n - 1
      /\ i - 1 = Start(i, n) + ((i - 1) % n)
  <2>1. (i - 1) \div n \in Nat
    BY <1>1, Quotient, ModuloIs, Division
  <2>2. Start(i, n) \in Nat
    BY <2>1, ProductIsNat DEF Start
  <2> QED
    BY <1>1, <2>2, Quotient, ModuloIs, Division DEF Start
<1>3. Start(i, n) < i /\ i <= Start(i, n) + n
  <2> HIDE DEF Start
  <2> DEFINE rest == (i - 1) % n
  <2>1. rest \in 0 .. n - 1 /\ i - 1 = Start(i, n) + rest
    BY <1>2
  <2> HIDE DEF rest
  <2> QED
    BY <1>2, <2>1
<1> HIDE DEF Start
<1> QED
  BY <1>2, <1>3 DEF End

\* A piece is reversed in itself, so doing it again brings every byte back.
LEMMA TwinOfTwin ==
  ASSUME NEW n \in Nat \ {0}, NEW len \in Nat, NEW i \in 1 .. len
  PROVE  Twin(i, n, len) \in 1 .. len /\ Twin(Twin(i, n, len), n, len) = i
<1> DEFINE j == Twin(i, n, len)
           q == (i - 1) \div n
<1>1. /\ Start(i, n) \in Nat /\ End(i, n, len) \in Nat
      /\ Start(i, n) < i /\ i <= End(i, n, len)
      /\ End(i, n, len) <= Start(i, n) + n /\ End(i, n, len) <= len
  BY InPiece
<1>2. j \in Nat /\ Start(i, n) < j /\ j <= End(i, n, len)
  <2> HIDE DEF Start, End
  <2> QED
    BY <1>1 DEF Twin
<1>3. q \in Nat /\ Start(i, n) = n * q
  <2>1. i - 1 \in Nat
    OBVIOUS
  <2> QED
    BY <2>1, Quotient, ModuloIs, Division DEF Start
<1>4. j - 1 - n * q \in Nat /\ j - 1 - n * q < n /\ j - 1 = n * q + (j - 1 - n * q)
  <2>1. n * q \in Nat /\ n * q < j /\ j <= n * q + n
    BY <1>1, <1>2, <1>3
  <2> HIDE DEF q, j
  <2> QED
    BY <1>2, <2>1
<1>5. (j - 1) \div n = q
  <2> HIDE DEF q, j
  <2> QED
    BY <1>3, <1>4, SameQuotient
<1>6. Start(j, n) = Start(i, n) /\ End(j, n, len) = End(i, n, len)
  BY <1>3, <1>5 DEF Start, End
<1>7. Twin(j, n, len) = Start(i, n) + 1 + End(i, n, len) - j
  <2> HIDE DEF j
  <2> QED
    BY <1>6 DEF Twin
<1>8. j = Start(i, n) + 1 + End(i, n, len) - i
  BY DEF Twin
<1> QED
  <2> HIDE DEF j
  <2>1. Twin(j, n, len) = i /\ j \in 1 .. len
    BY <1>1, <1>2, <1>7, <1>8
  <2> QED
    BY <2>1 DEF j

\* reverse_each keeps the length and takes each byte from its twin.
LEMMA ReverseAt ==
  ASSUME NEW S, NEW data \in Seq(S), NEW n \in Nat \ {0}
  PROVE  /\ reverse_each(data, n) \in Seq(S) /\ Len(reverse_each(data, n)) = Len(data)
         /\ \A i \in 1 .. Len(data) : reverse_each(data, n)[i] = data[Twin(i, n, Len(data))]
<1>1. Len(data) \in Nat
  OBVIOUS
<1>2. reverse_each(data, n) = [i \in 1 .. Len(data) |-> data[Twin(i, n, Len(data))]]
  BY DEF reverse_each, Twin, End, Start
<1>3. \A i \in 1 .. Len(data) : Twin(i, n, Len(data)) \in 1 .. Len(data)
  BY <1>1, TwinOfTwin
<1> QED
  BY <1>1, <1>2, <1>3

\* Each order a file may have is its own inverse.
LEMMA ReverseTwice ==
  ASSUME NEW S, NEW data \in Seq(S), NEW n \in Nat \ {0}
  PROVE  reverse_each(reverse_each(data, n), n) = data
<1> DEFINE once == reverse_each(data, n)
           twice == reverse_each(once, n)
           len == Len(data)
<1>1. /\ once \in Seq(S) /\ Len(once) = len /\ len \in Nat
      /\ \A i \in 1 .. len : once[i] = data[Twin(i, n, len)]
  BY ReverseAt
<1>2. /\ twice \in Seq(S) /\ Len(twice) = len
      /\ \A i \in 1 .. len : twice[i] = once[Twin(i, n, len)]
  <2> HIDE DEF once
  <2> QED
    BY <1>1, ReverseAt
<1>3. ASSUME NEW i \in 1 .. len
      PROVE  twice[i] = data[i]
  BY <1>1, <1>2, TwinOfTwin
<1>4. twice = [i \in 1 .. len |-> twice[i]] /\ data = [i \in 1 .. len |-> data[i]]
  <2> HIDE DEF once, twice
  <2> QED
    BY <1>1, <1>2
<1> HIDE DEF once, twice
<1>5. twice = data
  BY <1>3, <1>4
<1> QED
  BY <1>5 DEF once, twice

(***************************************************************************)
(* LoadRom.                                                                *)
(***************************************************************************)
LEMMA TakenIs ==
  ASSUME NEW S, NEW data \in Seq(S)
  PROVE  /\ BLOCK * (Len(data) \div BLOCK) \in 0 .. Len(data)
         /\ Len(Taken(data)) = BLOCK * (Len(data) \div BLOCK)
         /\ \A i \in 1 .. Len(Taken(data)) : Taken(data)[i] = data[i]
<1> DEFINE whole == BLOCK * (Len(data) \div BLOCK)
<1>1. whole \in 0 .. Len(data)
  <2> DEFINE rest == Len(data) % BLOCK
  <2>1. Len(data) \div BLOCK \in Nat /\ Len(data) = whole + rest /\ rest \in Nat
    <3> DEFINE len == Len(data)
    <3>1. len \in Nat /\ BLOCK \in Nat \ {0}
      BY HostAssumption
    <3> HIDE DEF len
    <3>2. len \div BLOCK \in Nat /\ len % BLOCK \in 0 .. BLOCK - 1
      BY <3>1, Quotient, ModuloIs
    <3>3. len = BLOCK * (len \div BLOCK) + (len % BLOCK)
      BY <3>1, Division
    <3> QED
      BY <3>2, <3>3 DEF len
  <2>2. whole \in Nat
    BY <2>1, HostAssumption, ProductIsNat
  <2> HIDE DEF whole, rest
  <2> QED
    BY <2>1, <2>2
<1>2. Taken(data) = SubSeq(data, 1, whole)
  BY DEF Taken
<1> HIDE DEF whole
<1>3. Len(Taken(data)) = whole /\ \A i \in 1 .. whole : Taken(data)[i] = data[i]
  BY <1>1, <1>2
<1> QED
  BY <1>1, <1>3 DEF whole

\* The three orders of the magic word.
LEMMA Orders ==
  /\ Magic = <<"80", "37", "12", "40">>
  /\ reverse_each(Magic, 1) = <<"80", "37", "12", "40">>
  /\ reverse_each(Magic, 2) = <<"37", "80", "40", "12">>
  /\ reverse_each(Magic, 4) = <<"40", "12", "37", "80">>
BY DEF Magic, reverse_each

\* Where the bytes of the header come from.
LEMMA HeaderTwins ==
  \A i \in 1 .. 4, len \in Nat :
    len >= 4 => /\ Twin(i, 1, len) = i
                /\ Twin(i, 2, len) = (IF i <= 2 THEN 3 - i ELSE 7 - i)
                /\ Twin(i, 4, len) = 5 - i
BY DEF Twin, End, Start

\* The header of a file tells the order its image is kept in.
LEMMA HeaderTells ==
  ASSUME NEW S, NEW image \in Seq(S), Len(image) >= 4, NEW n \in {1, 2, 4}
  PROVE  Header(reverse_each(image, n)) = reverse_each(Header(image), n)
<1> DEFINE file == reverse_each(image, n)
           head == Header(image)
<1>1. /\ file \in Seq(S) /\ Len(file) = Len(image)
      /\ \A i \in 1 .. Len(image) : file[i] = image[Twin(i, n, Len(image))]
  BY ReverseAt
<1>2. head \in Seq(S) /\ Len(head) = 4 /\ \A i \in 1 .. 4 : head[i] = image[i]
  BY DEF Header
<1>3. /\ reverse_each(head, n) \in Seq(S) /\ Len(reverse_each(head, n)) = 4
      /\ \A i \in 1 .. 4 : reverse_each(head, n)[i] = head[Twin(i, n, 4)]
  <2> HIDE DEF head
  <2>1. n \in Nat \ {0}
    OBVIOUS
  <2>2. /\ reverse_each(head, n) \in Seq(S) /\ Len(reverse_each(head, n)) = Len(head)
        /\ \A i \in 1 .. Len(head) : reverse_each(head, n)[i] = head[Twin(i, n, Len(head))]
    BY <1>2, <2>1, ReverseAt
  <2> QED
    BY <1>2, <2>2
<1>4. ASSUME NEW i \in 1 .. 4
      PROVE  Twin(i, n, Len(image)) = Twin(i, n, 4) /\ Twin(i, n, 4) \in 1 .. 4
  <2>1. i \in 1 .. 4 /\ 4 \in Nat /\ Len(image) \in Nat /\ n \in {1, 2, 4}
    OBVIOUS
  <2> QED
    BY <2>1, HeaderTwins
<1>5. Header(file) \in Seq(S) /\ Len(Header(file)) = 4 /\ \A i \in 1 .. 4 : Header(file)[i] = file[i]
  <2> HIDE DEF file
  <2> QED
    BY <1>1 DEF Header
<1>6. ASSUME NEW i \in 1 .. 4
      PROVE  Header(file)[i] = reverse_each(head, n)[i]
  <2>1. Twin(i, n, 4) \in 1 .. Len(image) /\ i \in 1 .. Len(image)
    BY <1>4
  <2>2. Header(file)[i] = image[Twin(i, n, 4)]
    <3> HIDE DEF file, head
    <3> QED
      BY <1>1, <1>4, <1>5, <2>1
  <2>3. reverse_each(head, n)[i] = image[Twin(i, n, 4)]
    <3> HIDE DEF file, head
    <3> QED
      BY <1>2, <1>3, <1>4
  <2> QED
    BY <2>2, <2>3
<1> HIDE DEF file, head
<1>7. Header(file) = [i \in 1 .. 4 |-> Header(file)[i]]
  BY <1>5
<1>8. reverse_each(head, n) = [i \in 1 .. 4 |-> reverse_each(head, n)[i]]
  BY <1>3
<1>9. Header(file) = reverse_each(head, n)
  BY <1>6, <1>7, <1>8
<1> QED
  BY <1>9 DEF file, head

\* Whichever of the three orders an image is kept in, LoadRom sends it in the
\* console's, every whole block of it.
THEOREM ImagesConvert ==
  ASSUME NEW S, NEW image \in Seq(S), Len(image) >= 4, NEW n \in {1, 2, 4}
  PROVE  AnyOrderLoads(image, n)
<1> DEFINE file == reverse_each(image, n)
<1> SUFFICES ASSUME Header(image) = Magic, Len(image) >= BOOT_END
             PROVE  /\ LoadRom(file).ok
                    /\ Len(LoadRom(file).rom) = BLOCK * (Len(image) \div BLOCK)
                    /\ \A i \in 1 .. Len(LoadRom(file).rom) : LoadRom(file).rom[i] = image[i]
  BY DEF AnyOrderLoads
<1>1. Len(file) = Len(image) /\ reverse_each(file, n) = image
  BY ReverseAt, ReverseTwice
<1>2. Header(file) = reverse_each(Magic, n)
  BY HeaderTells
<1>3. converted(file) = image
  <2>1. CASE n = 1
    <3>1. file = image
      <4>1. \A len \in Nat, i \in Nat \ {0} : i <= len => Twin(i, 1, len) = i
        BY DEF Twin, End, Start
      <4>2. /\ file \in Seq(S) /\ Len(file) = Len(image)
            /\ \A i \in 1 .. Len(image) : file[i] = image[Twin(i, 1, Len(image))]
        BY <2>1, ReverseAt
      <4> HIDE DEF file
      <4>3. file = [i \in 1 .. Len(image) |-> file[i]] /\ image = [i \in 1 .. Len(image) |-> image[i]]
        BY <4>2
      <4> QED
        BY <4>1, <4>2, <4>3
    <3>2. /\ Header(file) = Magic /\ Header(file) # reverse_each(Magic, 2)
          /\ Header(file) # reverse_each(Magic, 4)
      BY <1>2, <2>1, Orders
    <3> HIDE DEF file
    <3> QED
      BY <3>1, <3>2 DEF converted
  <2>2. CASE n = 2
    <3>1. /\ Header(file) # Magic /\ Header(file) = reverse_each(Magic, 2)
          /\ Header(file) # reverse_each(Magic, 4)
      BY <1>2, <2>2, Orders
    <3> HIDE DEF file
    <3> QED
      BY <1>1, <2>2, <3>1 DEF converted
  <2>3. CASE n = 4
    <3>1. /\ Header(file) # Magic /\ Header(file) # reverse_each(Magic, 2)
          /\ Header(file) = reverse_each(Magic, 4)
      BY <1>2, <2>3, Orders
    <3> HIDE DEF file
    <3> QED
      BY <1>1, <2>3, <3>1 DEF converted
  <2> QED
    BY <2>1, <2>2, <2>3
<1> HIDE DEF file
<1>4. LoadRom(file) = [ok |-> TRUE, rom |-> Taken(image)]
  BY <1>1, <1>3, HostAssumption DEF LoadRom
<1> QED
  BY <1>4, TakenIs

\* What is no image in one of the orders is never loaded.
THEOREM OthersAreRefused ==
  ASSUME NEW file
  PROVE  OthersRefused(file)
<1> SUFFICES ASSUME \A n \in {1, 2, 4} : Header(file) # reverse_each(Magic, n)
             PROVE  ~LoadRom(file).ok
  BY DEF OthersRefused
<1>1. /\ Header(file) # Magic /\ Header(file) # reverse_each(Magic, 2)
      /\ Header(file) # reverse_each(Magic, 4)
  BY Orders
<1>2. converted(file) = <<>>
  BY <1>1 DEF converted
<1>3. Len(converted(file)) = 0
  BY <1>2
<1> QED
  BY <1>3, HostAssumption DEF LoadRom

\* The FPGA is sent the whole of its file, and less than a block more.
THEOREM FpgaIsWhole ==
  ASSUME NEW S, NEW file \in Seq(S)
  PROVE  FpgaWhole(file)
<1> DEFINE len == Len(file)
           r == len % BLOCK
           q == len \div BLOCK
           more == (BLOCK - (len % BLOCK)) % BLOCK
           fill == [i \in 1 .. more |-> "ff"]
           data == FixDataSize(file)
           T == S \cup {"ff"}
<1>1. len \in Nat /\ r \in 0 .. BLOCK - 1 /\ q \in Nat /\ len = BLOCK * q + r /\ BLOCK * q \in Nat
  <2>1. len \in Nat /\ BLOCK \in Nat \ {0}
    BY HostAssumption
  <2>2. q \in Nat
    BY <2>1, Quotient
  <2> HIDE DEF len
  <2> QED
    BY <2>1, <2>2, ModuloIs, Division, ProductIsNat
<1>2. \/ r = 0 /\ more = 0 /\ len + more = BLOCK * q
      \/ r > 0 /\ more = BLOCK - r /\ len + more = BLOCK * q + BLOCK
  <2> DEFINE m == BLOCK - r
  <2>1. more = m % BLOCK
    OBVIOUS
  <2>2. r = 0 => more = 0
    <3>1. r = 0 => m % BLOCK = 0
      BY <1>1, HostAssumption
    <3> QED
      BY <2>1, <3>1
  <2>3. r > 0 => m \in Nat /\ m < BLOCK
    <3> HIDE DEF r
    <3> QED
      BY <1>1, HostAssumption
  <2>4. \A a \in Nat : a < BLOCK => a % BLOCK = a
    BY HostAssumption
  <2>5. r > 0 => more = BLOCK - r
    <3> HIDE DEF r, more
    <3> QED
      BY <2>1, <2>3, <2>4
  <2> HIDE DEF r, more, len, q
  <2> QED
    BY <1>1, <2>2, <2>5, HostAssumption
<1>3. more \in 0 .. BLOCK - 1 /\ len + more \in Nat
  <2> HIDE DEF more, len, r, q
  <2> QED
    BY <1>1, <1>2, HostAssumption
<1>4. BLOCK * ((len + more) \div BLOCK) = len + more
  <2>1. (BLOCK * q) \div BLOCK = q
    <3> HIDE DEF q
    <3> QED
      BY <1>1, HostAssumption, ExactQuotient
  <2>2. q + 1 \in Nat /\ BLOCK * q + BLOCK = BLOCK * (q + 1)
    <3> HIDE DEF q
    <3> QED
      BY <1>1, HostAssumption
  <2>3. (BLOCK * (q + 1)) \div BLOCK = q + 1
    <3> HIDE DEF q
    <3> QED
      BY <2>2, HostAssumption, ExactQuotient
  <2> HIDE DEF more, len, q, r
  <2> QED
    BY <1>2, <2>1, <2>2, <2>3
<1>5. data = file \o fill
  BY DEF FixDataSize
<1>6. fill \in Seq(T) /\ file \in Seq(T) /\ Len(fill) = more
  <2>1. file \in Seq(T)
    OBVIOUS
  <2> HIDE DEF more
  <2> QED
    BY <1>3, <2>1
<1>7. /\ data \in Seq(T) /\ Len(data) = len + more
      /\ \A i \in 1 .. len : data[i] = file[i]
  <2> HIDE DEF fill, data, T, more
  <2>1. data \in Seq(T)
    BY <1>5, <1>6
  <2>2. Len(data) = Len(file) + Len(fill)
    BY <1>5, <1>6
  <2>3. \A i \in 1 .. Len(file) : data[i] = file[i]
    BY <1>5, <1>6
  <2> QED
    BY <1>6, <2>1, <2>2, <2>3
<1>8. /\ Len(Taken(data)) = BLOCK * (Len(data) \div BLOCK)
      /\ \A i \in 1 .. Len(Taken(data)) : Taken(data)[i] = data[i]
  <2> HIDE DEF data, T
  <2> QED
    BY <1>7, TakenIs
<1>9. Len(Taken(data)) = len + more
  <2> HIDE DEF data, more, len
  <2> QED
    BY <1>4, <1>7, <1>8
<1>10. LoadFpga(file) = Taken(data)
  BY DEF LoadFpga
<1>11. /\ Len(LoadFpga(file)) = len + more
       /\ \A i \in 1 .. len : LoadFpga(file)[i] = file[i]
  <2> HIDE DEF data, more, len
  <2> QED
    BY <1>1, <1>3, <1>7, <1>8, <1>9, <1>10
<1>12. len + more \in len .. len + BLOCK - 1
  <2> HIDE DEF more, len, r, q
  <2> QED
    BY <1>1, <1>3, HostAssumption
<1> HIDE DEF more, data, r, q
<1> QED
  BY <1>11, <1>12 DEF FpgaWhole

(***************************************************************************)
(* find_volume.                                                            *)
(***************************************************************************)

\* The first partition that has a volume is the one that is mounted, and none
\* is when none has.
THEOREM FirstIsMounted ==
  ASSUME NEW D, 0 \in D, NEW check \in [D -> Nat], NEW mbr_pt \in [0 .. 3 -> D]
  PROVE  FirstVolume(check, mbr_pt)
<1> DEFINE v == find_volume(check, mbr_pt)
           firsts == {i \in 0 .. 3 : mbr_pt[i] # 0 /\ check[mbr_pt[i]] <= 1}
           Fmt(i) == PartitionFmt(check, mbr_pt, i)
           First0(set) == CHOOSE k \in set : \A j \in set : k <= j
<1>1. \A i \in 0 .. 3 : /\ Fmt(i) \in Nat
                        /\ i \in firsts <=> Fmt(i) < 2
                        /\ i \in firsts => Fmt(i) = check[mbr_pt[i]]
  BY DEF PartitionFmt
<1>2. {i \in 0 .. 3 : Fmt(i) < 2} = firsts
  BY <1>1
<1>3. CASE check[0] # 2
  BY <1>3 DEF FirstVolume, find_volume
<1>4. CASE check[0] = 2 /\ firsts = {}
  <2>1. v = [fmt |-> Fmt(3), bsect |-> mbr_pt[3]]
    <3> HIDE DEF firsts
    <3> QED
      BY <1>2, <1>4 DEF find_volume
  <2>2. ~(v.fmt <= 1)
    <3> HIDE DEF Fmt
    <3> QED
      BY <1>1, <1>4, <2>1
  <2> QED
    BY <1>4, <2>2 DEF FirstVolume
<1>5. CASE check[0] = 2 /\ firsts # {}
  <2> DEFINE i == First0(firsts)
  <2>1. i \in firsts /\ \A j \in firsts : i <= j
    <3>1. \E k \in firsts : \A j \in firsts : k <= j
      <4> HIDE DEF Fmt
      <4>1. firsts \subseteq {0, 1, 2, 3}
        OBVIOUS
      <4> HIDE DEF firsts
      <4>2. CASE 0 \in firsts
        BY <4>1, <4>2
      <4>3. CASE 0 \notin firsts /\ 1 \in firsts
        BY <4>1, <4>3
      <4>4. CASE 0 \notin firsts /\ 1 \notin firsts /\ 2 \in firsts
        BY <4>1, <4>4
      <4>5. CASE 0 \notin firsts /\ 1 \notin firsts /\ 2 \notin firsts
        <5>1. firsts = {3}
          BY <1>5, <4>1, <4>5
        <5> QED
          BY <5>1
      <4> QED
        BY <4>2, <4>3, <4>4, <4>5
    <3> HIDE DEF firsts
    <3> QED
      BY <3>1
  <2>2. v = [fmt |-> Fmt(i), bsect |-> mbr_pt[i]]
    <3> HIDE DEF firsts
    <3> QED
      BY <1>2, <1>5 DEF find_volume
  <2>3. i \in 0 .. 3 /\ firsts \subseteq 0 .. 3
    BY <2>1
  <2>4. v.fmt <= 1 /\ v.bsect = mbr_pt[i] /\ check[v.bsect] = v.fmt
    <3> HIDE DEF Fmt, firsts, i
    <3> QED
      BY <1>1, <2>1, <2>2, <2>3
  <2>5. FirstVolume(check, mbr_pt) <=>
          (v.fmt <= 1 <=> firsts # {})
          /\ (v.fmt <= 1 => \E k \in firsts : /\ mbr_pt[k] = v.bsect /\ check[v.bsect] = v.fmt
                                             /\ \A j \in firsts : k <= j)
    BY <1>5 DEF FirstVolume
  <2> QED
    <3> HIDE DEF v, firsts, i
    <3> QED
      BY <1>5, <2>1, <2>4, <2>5
<1> QED
  BY <1>3, <1>4, <1>5

(***************************************************************************)
(* The exFAT volume.                                                       *)
(***************************************************************************)
LEMMA ProductSum == \A a, b, c \in Nat : c * (a + b) = c * a + c * b
OBVIOUS

\* 1 << n, as a function.
LEMMA ShiftedOneIs ==
  /\ ShiftedOne = [n \in 0 .. 15 |-> IF n = 0 THEN 1 ELSE 2 * ShiftedOne[n - 1]]
  /\ ShiftedOne \in [0 .. 15 -> Nat \ {0}]
<1> DEFINE S == Nat \ {0}
           g == [n \in Nat |-> [x \in S |-> 2 * x]]
           Is(f) == f = [n \in 0 .. 15 |-> IF n = 0 THEN 1 ELSE 2 * f[n - 1]]
<1>1. g \in [Nat -> [S -> S]] /\ 1 \in S
  OBVIOUS
<1>2. PICK f \in [0 .. 15 -> S] : Steps(f, 15, 1, g)
  <2> HIDE DEF S, g
  <2> QED
    BY <1>1, StepsExist
<1>3. Is(f)
  BY <1>2 DEF Steps
<1>4. Is(ShiftedOne)
  BY <1>3 DEF ShiftedOne
<1> QED
  BY <1>4

\* The sizes of an exFAT volume that is accepted.
LEMMA ExSizes ==
  ASSUME NEW bpb, NEW bsect \in Nat, ExFields(bpb), ExNoWrap(bpb, bsect), ex_accepted(bpb, bsect)
  PROVE  /\ ex_csize(bpb) \in Nat \ {0} /\ bpb.NumClusEx \in Nat
         /\ ex_database(bpb, bsect) \in Nat /\ bsect <= ex_database(bpb, bsect)
         /\ ex_database(bpb, bsect) = bsect + bpb.DataOfsEx
         /\ ex_csize(bpb) * bpb.NumClusEx \in Nat
         /\ ex_database(bpb, bsect) + ex_csize(bpb) * bpb.NumClusEx <= bsect + bpb.TotSecEx
         /\ bsect + bpb.TotSecEx \in Nat /\ bsect + bpb.TotSecEx < DWORDS
<1>1. /\ bpb.TotSecEx \in Nat /\ bpb.DataOfsEx \in Nat /\ bpb.NumClusEx \in Nat /\ bpb.SecPerClusEx \in Nat
      /\ bpb.SecPerClusEx < 16
  BY DEF ExFields, ex_accepted
<1>2. ex_csize(bpb) \in Nat \ {0}
  <2>1. bpb.SecPerClusEx \in 0 .. 15
    BY <1>1
  <2> QED
    BY <2>1, ShiftedOneIs DEF ex_csize
<1>3. ex_database(bpb, bsect) = bsect + bpb.DataOfsEx
  BY <1>1, NoWrapMod DEF ex_database, ExNoWrap
<1>4. bpb.NumClusEx * ex_csize(bpb) \in Nat /\ ex_csize(bpb) * bpb.NumClusEx = bpb.NumClusEx * ex_csize(bpb)
  BY <1>1, <1>2
<1>5. DW(bpb.NumClusEx * ex_csize(bpb)) = bpb.NumClusEx * ex_csize(bpb)
  BY <1>4, NoWrapMod DEF ExNoWrap
<1>6. bsect + bpb.TotSecEx >= ex_database(bpb, bsect) + ex_csize(bpb) * bpb.NumClusEx
  BY <1>4, <1>5 DEF ex_accepted
<1>7. bsect + bpb.TotSecEx < DWORDS
  BY DEF ExNoWrap
<1> QED
  BY <1>1, <1>2, <1>3, <1>4, <1>6, <1>7

\* A cluster of the volume is where its number says and ends inside.
LEMMA ExClusterPlace ==
  ASSUME NEW bpb, NEW bsect \in Nat, ExFields(bpb), ExNoWrap(bpb, bsect), ex_accepted(bpb, bsect),
         NEW clst \in 2 .. bpb.NumClusEx + 1
  PROVE  /\ ex_clst2sect(bpb, bsect, clst) = ex_database(bpb, bsect) + ex_csize(bpb) * (clst - 2)
         /\ clst - 2 \in Nat /\ ex_csize(bpb) * (clst - 2) \in Nat
         /\ ex_database(bpb, bsect) + ex_csize(bpb) * (clst - 2) + ex_csize(bpb) <= bsect + bpb.TotSecEx
<1> DEFINE csize == ex_csize(bpb)
           base == ex_database(bpb, bsect)
           end == bsect + bpb.TotSecEx
<1>1. /\ csize \in Nat \ {0} /\ bpb.NumClusEx \in Nat /\ base \in Nat /\ csize * bpb.NumClusEx \in Nat
      /\ base + csize * bpb.NumClusEx <= end /\ end \in Nat /\ end < DWORDS
  BY ExSizes
<1>2. clst - 2 \in Nat /\ clst - 1 \in Nat /\ clst - 1 <= bpb.NumClusEx /\ clst - 1 >= 1
      /\ (clst - 1) - 1 = clst - 2
  BY <1>1
<1> HIDE DEF csize, base, end
<1>3. csize * (clst - 1) <= csize * bpb.NumClusEx
  BY <1>1, <1>2, ProductGrows
<1>4. csize * (clst - 1) = csize * (clst - 2) + csize
  BY <1>1, <1>2, ProductStep
<1>5. csize * (clst - 2) \in Nat
  BY <1>1, <1>2
<1>6. base + csize * (clst - 2) + csize <= end
  BY <1>1, <1>3, <1>4, <1>5
<1>7. base + csize * (clst - 2) \in Nat /\ base + csize * (clst - 2) < DWORDS
  BY <1>1, <1>5, <1>6, MountAssumption
<1>8. ex_clst2sect(bpb, bsect, clst) = base + csize * (clst - 2)
  BY <1>7, NoWrapMod DEF ex_clst2sect, base, csize
<1> QED
  BY <1>2, <1>5, <1>6, <1>8 DEF csize, base, end

\* A mounted exFAT volume has every cluster between the start of its data and
\* its end, and gives no sector to two of them.
THEOREM ExClustersFit ==
  ASSUME NEW bpb, NEW bsect \in Nat, ExFields(bpb), ExNoWrap(bpb, bsect), ex_accepted(bpb, bsect)
  PROVE  ExClustersInside(bpb, bsect) /\ ExClustersApart(bpb, bsect)
<1> DEFINE csize == ex_csize(bpb)
           base == ex_database(bpb, bsect)
           end == bsect + bpb.TotSecEx
<1>1. base = bsect + bpb.DataOfsEx /\ base \in Nat /\ csize \in Nat \ {0} /\ bpb.NumClusEx \in Nat
  BY ExSizes
<1>2. ASSUME NEW c \in 2 .. bpb.NumClusEx + 1
      PROVE  /\ ex_clst2sect(bpb, bsect, c) = base + csize * (c - 2)
             /\ c - 2 \in Nat /\ csize * (c - 2) \in Nat /\ base + csize * (c - 2) + csize <= end
  BY ExClusterPlace
<1> HIDE DEF csize, base, end
<1>3. ASSUME NEW c \in 2 .. bpb.NumClusEx + 1
      PROVE  ex_clst2sect(bpb, bsect, c) >= base /\ ex_clst2sect(bpb, bsect, c) + csize <= end
  BY <1>1, <1>2
<1>4. ExClustersInside(bpb, bsect)
  BY <1>1, <1>3 DEF ExClustersInside, base, csize, end
<1>5. ASSUME NEW c \in 2 .. bpb.NumClusEx + 1, NEW d \in 2 .. bpb.NumClusEx + 1, c < d
      PROVE  ex_clst2sect(bpb, bsect, c) + csize <= ex_clst2sect(bpb, bsect, d)
  <2>1. c - 2 \in Nat /\ d - 2 \in Nat /\ (c - 2) + 1 \in Nat \ {0} /\ (c - 2) + 1 <= d - 2
    BY <1>1, <1>5
  <2>2. csize * ((c - 2) + 1) <= csize * (d - 2)
    BY <1>1, <2>1, ProductGrows
  <2>3. csize * ((c - 2) + 1) = csize * (c - 2) + csize
    BY <1>1, <2>1
  <2> QED
    BY <1>1, <1>2, <2>2, <2>3
<1>6. ExClustersApart(bpb, bsect)
  BY <1>5 DEF ExClustersApart, csize
<1> QED
  BY <1>4, <1>6

\* The chain of a bitmap that mount_volume takes: counted up, its end, nothing.
LEMMA BitmapChain ==
  ASSUME NEW fat \in Seq(Nat), Len(fat) < EOX, NEW bcl \in Nat \ {0}, contiguous(fat, bcl),
         NEW next, next = [k \in 0 .. Len(fat) |->
                             IF k = 0 THEN bcl
                             ELSE IF next[k - 1] \in DOMAIN fat THEN fat[next[k - 1]] ELSE 0]
  PROVE  \E last \in bcl .. Len(fat) :
           /\ \A k \in 0 .. Len(fat) : next[k] = IF k <= last - bcl THEN bcl + k
                                               ELSE IF k = last - bcl + 1 THEN EOX ELSE 0
           /\ last - bcl + 1 \in 0 .. Len(fat)
<1>1. Len(fat) \in Nat /\ DOMAIN fat = 1 .. Len(fat)
  OBVIOUS
<1>2. PICK last \in DOMAIN fat :
        bcl <= last /\ fat[last] = EOX /\ \A k \in bcl .. last - 1 : k \in DOMAIN fat /\ fat[k] = k + 1
  BY DEF contiguous
<1> DEFINE Is(k) == next[k] = IF k <= last - bcl THEN bcl + k
                              ELSE IF k = last - bcl + 1 THEN EOX ELSE 0
           T == {k \in 0 .. Len(fat) : Is(k)}
<1>3. last \in bcl .. Len(fat) /\ last - bcl + 1 \in 0 .. Len(fat)
  BY <1>1, <1>2
<1>4. EOX \notin DOMAIN fat /\ 0 \notin DOMAIN fat /\ EOX # 0
  BY <1>1, MountAssumption DEF EOX
<1>5. 0 \in T
  BY <1>1, <1>3
<1>6. ASSUME NEW n \in 0 .. Len(fat) - 1, n \in T
      PROVE  n + 1 \in T
  <2>1. /\ n + 1 \in 0 .. Len(fat) /\ n + 1 # 0 /\ (n + 1) - 1 = n
        /\ next[n + 1] = IF next[n] \in DOMAIN fat THEN fat[next[n]] ELSE 0
    BY <1>1
  <2>2. CASE n < last - bcl
    <3>1. next[n] = bcl + n /\ bcl + n \in bcl .. last - 1
      BY <1>1, <1>3, <1>6, <2>2
    <3>2. next[n + 1] = bcl + n + 1
      BY <1>2, <2>1, <3>1
    <3> QED
      BY <1>1, <1>3, <2>1, <2>2, <3>2
  <2>3. CASE n = last - bcl
    <3>1. next[n] = last
      BY <1>1, <1>3, <1>6, <2>3
    <3>2. next[n + 1] = EOX
      BY <1>2, <2>1, <3>1
    <3> QED
      BY <1>1, <1>3, <2>1, <2>3, <3>2
  <2>4. CASE n > last - bcl
    <3>1. next[n] \in {EOX, 0}
      BY <1>1, <1>3, <1>6, <2>4
    <3>2. next[n + 1] = 0
      BY <1>4, <2>1, <3>1
    <3> QED
      BY <1>1, <1>3, <2>1, <2>4, <3>2
  <2>5. n \in Int /\ last - bcl \in Int
    BY <1>1, <1>3
  <2> HIDE DEF T
  <2> QED
    BY <2>2, <2>3, <2>4, <2>5
<1>7. \A k \in 0 .. Len(fat) : k \in T
  <2> HIDE DEF T
  <2> QED
    BY <1>1, <1>5, <1>6, ForAllBelow
<1> QED
  BY <1>3, <1>7

\* The first cluster of the bitmap of an exFAT volume that is accepted, and its
\* chain.
LEMMA BitmapEntryIs ==
  ASSUME NEW bpb, NEW bsect, ExFields(bpb), ex_accepted(bpb, bsect)
  PROVE  /\ bitmap_entry(bpb) \in 2 .. bpb.NumClusEx + 1
         /\ bpb.NumClusEx \in Nat /\ bpb.NumClusEx <= MAX_EXFAT
         /\ contiguous(bpb.fat, bitmap_entry(bpb))
BY DEF ExFields, ex_accepted

\* The mark of the end of a chain is no cluster.
LEMMA EndIsNoCluster ==
  ASSUME NEW n \in Nat, n <= MAX_EXFAT
  PROVE  EOX \notin 2 .. n + 1
<1>1. DWORDS \in Nat /\ MAX_EXFAT \in Nat /\ MAX_EXFAT + 2 < DWORDS
  BY MountAssumption
<1> QED
  BY <1>1 DEF EOX

\* The sectors of the bitmap of a volume that mount_volume takes are those of
\* its chain in the FAT, though the chain is never followed again.
THEOREM BitmapIsInPlace ==
  ASSUME NEW bpb, NEW bsect \in Nat, ExFields(bpb), ExNoWrap(bpb, bsect), ex_accepted(bpb, bsect)
  PROVE  BitmapInPlace(bpb, bsect)
<1> DEFINE fat == bpb.fat
           bcl == bitmap_entry(bpb)
           csize == ex_csize(bpb)
           base == ex_database(bpb, bsect)
           S == Nat
           g == [k \in Nat |-> [x \in S |-> IF x \in DOMAIN fat THEN fat[x] ELSE 0]]
           Is(f) == f = [k \in 0 .. Len(fat) |->
                           IF k = 0 THEN bcl ELSE IF f[k - 1] \in DOMAIN fat THEN fat[f[k - 1]] ELSE 0]
           next == CHOOSE f : Is(f)
<1>1. fat \in Seq(Nat) /\ Len(fat) \in Nat /\ Len(fat) < EOX
  BY DEF ExFields
<1>2. bcl \in 2 .. bpb.NumClusEx + 1 /\ bpb.NumClusEx \in Nat /\ contiguous(fat, bcl)
  BY BitmapEntryIs
<1>3. Is(next)
  <2>1. g \in [Nat -> [S -> S]] /\ bcl \in S
    BY <1>1, <1>2
  <2>2. PICK f \in [0 .. Len(fat) -> S] : Steps(f, Len(fat), bcl, g)
    <3> HIDE DEF S, g, fat, bcl
    <3> QED
      BY <1>1, <2>1, StepsExist
  <2>3. Is(f)
    <3> HIDE DEF fat, bcl
    <3>1. f = [k \in 0 .. Len(fat) |-> IF k = 0 THEN bcl ELSE g[k][f[k - 1]]]
      BY <2>2 DEF Steps
    <3>2. ASSUME NEW k \in 0 .. Len(fat), k # 0
          PROVE  g[k][f[k - 1]] = IF f[k - 1] \in DOMAIN fat THEN fat[f[k - 1]] ELSE 0
      <4>1. k \in Nat /\ f[k - 1] \in S
        <5> HIDE DEF S, g
        <5>1. k \in Nat /\ k - 1 \in 0 .. Len(fat)
          BY <1>1, <3>2
        <5> QED
          BY <2>2, <5>1
      <4> QED
        BY <4>1
    <3> HIDE DEF g
    <3> QED
      BY <3>1, <3>2
  <2> QED
    <3> HIDE DEF Is
    <3> QED
      BY <2>3
<1>4. PICK last \in bcl .. Len(fat) :
           /\ \A k \in 0 .. Len(fat) : next[k] = IF k <= last - bcl THEN bcl + k
                                               ELSE IF k = last - bcl + 1 THEN EOX ELSE 0
           /\ last - bcl + 1 \in 0 .. Len(fat)
  <2> HIDE DEF fat, bcl, next
  <2>1. bcl \in Nat \ {0}
    BY <1>2
  <2> QED
    BY <1>1, <1>2, <1>3, <2>1, BitmapChain
<1>5. /\ csize \in Nat \ {0} /\ base \in Nat /\ bsect <= base
      /\ bpb.TotSecEx \in Nat
  BY ExSizes DEF ExFields
<1>6. /\ bitbase(bpb, bsect) = base + csize * (bcl - 2)
      /\ bcl - 2 \in Nat /\ csize * (bcl - 2) \in Nat
      /\ base + csize * (bcl - 2) + csize <= bsect + bpb.TotSecEx
  <2>1. /\ ex_clst2sect(bpb, bsect, bcl) = base + csize * (bcl - 2)
        /\ bcl - 2 \in Nat /\ csize * (bcl - 2) \in Nat
        /\ base + csize * (bcl - 2) + csize <= bsect + bpb.TotSecEx
    BY <1>2, ExClusterPlace
  <2> QED
    BY <2>1 DEF ex_clst2sect, bitbase
<1>7. ASSUME NEW k \in 0 .. Len(fat), next[k] \in 2 .. bpb.NumClusEx + 1
      PROVE  ex_clst2sect(bpb, bsect, next[k]) = bitbase(bpb, bsect) + csize * k
  <2>1. next[k] = bcl + k
    <3>1. EOX \notin 2 .. bpb.NumClusEx + 1
      <4>1. bpb.NumClusEx \in Nat /\ bpb.NumClusEx <= MAX_EXFAT
        BY BitmapEntryIs
      <4> QED
        BY <4>1, EndIsNoCluster
    <3> HIDE DEF next, fat, bcl
    <3> QED
      BY <1>4, <1>7, <3>1
  <2> HIDE DEF next, fat, bcl
  <2>2. ex_clst2sect(bpb, bsect, bcl + k) = base + csize * (bcl + k - 2)
    <3>1. \A clst \in 2 .. bpb.NumClusEx + 1 : ex_clst2sect(bpb, bsect, clst) = base + csize * (clst - 2)
      BY ExClusterPlace
    <3>2. bcl + k \in 2 .. bpb.NumClusEx + 1
      BY <1>7, <2>1
    <3>3. bcl \in Nat /\ k \in Nat /\ bcl + k \in Nat
      BY <1>1, <1>2
    <3> HIDE DEF csize, base
    <3> QED
      BY <1>5, <3>1, <3>2, <3>3
  <2>3. k \in Nat /\ bcl + k - 2 = (bcl - 2) + k
    BY <1>1, <1>2
  <2> HIDE DEF csize, base
  <2>4. csize * ((bcl - 2) + k) = csize * (bcl - 2) + csize * k /\ csize * k \in Nat
    BY <1>5, <1>6, <2>3, ProductSum, ProductIsNat
  <2> QED
    BY <1>5, <1>6, <2>1, <2>2, <2>3, <2>4
<1>8. bitbase(bpb, bsect) \in base .. bsect + bpb.TotSecEx - 1
  <2>1. ASSUME NEW place, place = csize * (bcl - 2)
        PROVE  base + place \in base .. bsect + bpb.TotSecEx - 1
    <3> HIDE DEF csize, base, bcl
    <3>1. place \in Nat /\ base + place + csize <= bsect + bpb.TotSecEx
      BY <1>6, <2>1
    <3> QED
      BY <1>5, <3>1
  <2> QED
    BY <1>6, <2>1
<1>9. \E k \in 0 .. Len(fat) : next[k] = EOX
  <2> HIDE DEF next, fat, bcl
  <2>1. ~(last - bcl + 1 <= last - bcl)
    BY <1>1, <1>2
  <2> QED
    BY <1>4, <2>1
<1>10. DOMAIN next = 0 .. Len(fat)
  <2> HIDE DEF next, fat, bcl
  <2> QED
    BY <1>3
<1> HIDE DEF csize
<1> QED
  BY <1>7, <1>8, <1>9, <1>10 DEF BitmapInPlace, csize

(***************************************************************************)
(* All samples of volumes.                                                 *)
(***************************************************************************)
LEMMA SampleEntries ==
  ASSUME NEW c \in 2 .. 9, NEW d \in 2 .. 9
  PROVE  EntryApart(SampleFat, c, d, <<9, 6, 3>>)
<1>1. SampleFat \in [0 .. 20 -> (0 .. 15) \X (0 .. 15)]
  BY DEF SampleFat
<1>2. {EntryAt("FAT12", c), EntryEnd("FAT12", c), EntryAt("FAT12", d), EntryEnd("FAT12", d)} \subseteq 0 .. 20
  BY DEF EntryAt, EntryEnd
<1>3. 0 .. 20 \in SUBSET Nat /\ <<9, 6, 3>> \in (0 .. 15) \X (0 .. 15) \X (0 .. 15)
  OBVIOUS
<1>4. c \in Nat /\ d \in Nat
  OBVIOUS
<1> HIDE DEF SampleFat
<1> QED
  BY <1>1, <1>2, <1>3, <1>4, EntriesApart

\* Whatever the parameters of a volume are, mount_volume takes none whose areas
\* overlap, and finds each cluster, each entry of a FAT and the bitmap where
\* they are.
THEOREM VolumesLaidOut == Spec => []VolumeLaidOut
<1>1. Init => VolumeLaidOut
  BY DEF Init, VolumeLaidOut
<1>2. VolumeLaidOut /\ [Next]_sample => VolumeLaidOut'
  <2> SUFFICES ASSUME VolumeLaidOut, [Next]_sample PROVE VolumeLaidOut'
    OBVIOUS
  <2>1. CASE UNCHANGED sample
    BY <2>1 DEF VolumeLaidOut
  <2>2. CASE ExVolume
    <3>1. PICK bpb \in ExVolumes, s \in Bases : sample' = [kind |-> "exvolume", bpb |-> bpb, bsect |-> s]
      BY <2>2 DEF ExVolume
    <3>2. ExFields(bpb) /\ s \in Nat
      BY VolumesAssumption
    <3>3. ex_accepted(bpb, s) /\ ExNoWrap(bpb, s) =>
             ExClustersInside(bpb, s) /\ ExClustersApart(bpb, s) /\ BitmapInPlace(bpb, s)
      BY <3>2, ExClustersFit, BitmapIsInPlace
    <3> QED
      BY <3>1, <3>3 DEF VolumeLaidOut
  <2>3. CASE Volume
    <3>1. PICK bpb \in Volumes, s \in Bases : sample' = [kind |-> "volume", bpb |-> bpb, bsect |-> s]
      BY <2>3 DEF Volume
    <3>2. Fields(bpb)
      BY VolumesAssumption
    <3>3. Accepted(bpb) /\ NoWrap(bpb, s) => AreasApart(bpb, s) /\ ClustersApart(bpb, s) /\ EntriesInFat(bpb, s)
      BY <3>2, AcceptedAreas, ClustersAreApart, AcceptedEntries
    <3> QED
      BY <3>1, <3>3 DEF VolumeLaidOut
  <2>4. CASE Partitions
    <3>1. PICK check \in [0 .. 3 -> 0 .. 4], mbr_pt \in [0 .. 3 -> 0 .. 3] :
            sample' = [kind |-> "partitions", check |-> check, mbr_pt |-> mbr_pt]
      BY <2>4 DEF Partitions
    <3>2. check \in [0 .. 3 -> Nat] /\ 0 \in 0 .. 3
      OBVIOUS
    <3>3. FirstVolume(check, mbr_pt)
      BY <3>2, FirstIsMounted
    <3> QED
      BY <3>1, <3>3 DEF VolumeLaidOut
  <2>5. CASE Entry12
    <3>1. PICK c \in 2 .. 9, d \in 2 .. 9 : sample' = [kind |-> "entry", c |-> c, d |-> d]
      BY <2>5 DEF Entry12
    <3> QED
      BY <3>1, SampleEntries DEF VolumeLaidOut
  <2>6. ASSUME NEW b, Command(b) \/ Read(b) \/ Write(b)
        PROVE  VolumeLaidOut'
    BY <2>6 DEF Command, Read, Write, VolumeLaidOut
  <2>7. CASE Image \/ Arguments3 \/ Screen \/ Checksum
    BY <2>7 DEF Image, Arguments3, Screen, Checksum, VolumeLaidOut
  <2> QED
    BY <2>1, <2>2, <2>3, <2>4, <2>5, <2>6, <2>7 DEF Next
<1> QED
  BY <1>1, <1>2, PTL DEF Spec

(***************************************************************************)
(* HandleArguments.                                                        *)
(***************************************************************************)
Argument == {a \in [opt : {"", "rom", "start"}, f : STRING] : a.opt = "" => a.f # "none"}
Names1 == {"before", ""} \cup {ExtractSubArg(a) : a \in Argument}
Games == [rom : Names1, name : Names1]
State ==
  [rom : Names1, path : Names1, name : Names1, start : BOOLEAN,
   started : Seq(Games), ok : BOOLEAN]

\* An argument either loads an image, and perhaps starts it, or leaves the ROM
\* alone; then all is still well only if it named no file.
Outcome(s, t, opt, f, files, roms) ==
  /\ t \in State /\ (t.ok => s.ok)
  /\ \/ /\ t.rom = s.rom /\ t.started = s.started
        /\ t.ok => opt = "start" \/ f \notin files
     \/ /\ t.rom = f /\ f \in roms /\ t.ok /\ opt # "start"
        /\ t.started = IF opt = "" THEN Append(s.started, [rom |-> f, name |-> f]) ELSE s.started

\* An argument and what ExtractSubArg makes of it.
LEMMA ArgumentIs ==
  ASSUME NEW arg \in Argument
  PROVE  /\ arg.opt \in {"", "rom", "start"} /\ ExtractSubArg(arg) \in Names1
         /\ arg.opt = "" => ExtractSubArg(arg) = arg.f
BY DEF ExtractSubArg, Argument, Names1

\* Append keeps the type.
LEMMA AppendType ==
  ASSUME NEW S, NEW q \in Seq(S), NEW e \in S
  PROVE  /\ Append(q, e) \in Seq(S) /\ Len(Append(q, e)) = Len(q) + 1
OBVIOUS

\* What is in a sequence after Append.
LEMMA AppendAt ==
  ASSUME NEW S, NEW q \in Seq(S), NEW e \in S, NEW t, t = Append(q, e)
  PROVE  \A i \in DOMAIN t : t[i] = e \/ (i \in DOMAIN q /\ t[i] = q[i])
OBVIOUS

\* A pass of HandleArguments that ends with an exception.
LEMMA Fails ==
  ASSUME NEW s \in State, NEW path \in Names1, NEW name \in Names1, NEW start \in BOOLEAN, NEW t,
         t = [rom |-> s.rom, path |-> path, name |-> name, start |-> start, started |-> s.started, ok |-> FALSE],
         NEW opt, NEW f, NEW files, NEW roms
  PROVE  Outcome(s, t, opt, f, files, roms)
<1>1. t \in State /\ t.rom = s.rom /\ t.started = s.started /\ t.ok = FALSE
  BY DEF State
<1> QED
  BY <1>1 DEF Outcome

\* A pass of HandleArguments that loads nothing.
LEMMA Leaves ==
  ASSUME NEW s \in State, s.ok, NEW path \in Names1, NEW name \in Names1, NEW start \in BOOLEAN, NEW t,
         t = [rom |-> s.rom, path |-> path, name |-> name, start |-> start, started |-> s.started, ok |-> TRUE],
         NEW opt, NEW f, NEW files, NEW roms, opt = "start" \/ f \notin files
  PROVE  Outcome(s, t, opt, f, files, roms)
<1>1. t \in State /\ t.rom = s.rom /\ t.started = s.started /\ t.ok = TRUE
  BY DEF State
<1> QED
  BY <1>1 DEF Outcome

\* A pass of HandleArguments that loads a ROM.
LEMMA Loads ==
  ASSUME NEW s \in State, s.ok, NEW f \in Names1, NEW path \in Names1, NEW name \in Names1, NEW start \in BOOLEAN,
         NEW opt, NEW started,
         started = IF opt = "" THEN Append(s.started, [rom |-> f, name |-> f]) ELSE s.started, NEW t,
         t = [rom |-> f, path |-> path, name |-> name, start |-> start, started |-> started, ok |-> TRUE],
         NEW files, NEW roms, f \in roms, opt # "start"
  PROVE  Outcome(s, t, opt, f, files, roms)
<1>1. started \in Seq(Games)
  <2>1. [rom |-> f, name |-> f] \in Games
    BY DEF Games
  <2>2. s.started \in Seq(Games)
    BY DEF State
  <2>3. Append(s.started, [rom |-> f, name |-> f]) \in Seq(Games)
    BY <2>1, <2>2, AppendType, Zenon
  <2> QED
    BY <2>2, <2>3, Zenon
<1>2. t \in State /\ t.rom = f /\ t.started = started /\ t.ok = TRUE
  BY <1>1 DEF State
<1> QED
  BY <1>2 DEF Outcome

\* One pass of HandleArguments ends in one of these ways.
LEMMA OneArgument ==
  ASSUME NEW s \in State, NEW arg \in Argument, NEW files, NEW roms \in SUBSET files
  PROVE  Outcome(s, HandleArgument(s, arg, files, roms), arg.opt, ExtractSubArg(arg), files, roms)
<1> SUFFICES ASSUME NEW t, t = HandleArgument(s, arg, files, roms), NEW f, f = ExtractSubArg(arg)
             PROVE  Outcome(s, t, arg.opt, f, files, roms)
  OBVIOUS
<1>1. f \in Names1 /\ arg.opt \in {"", "rom", "start"} /\ (arg.opt = "" => f = arg.f)
  BY ArgumentIs
<1> DEFINE New(rom, path, name, start, started, ok) ==
             [rom |-> rom, path |-> path, name |-> name, start |-> start, started |-> started, ok |-> ok]
<1>2. /\ s = New(s.rom, s.path, s.name, s.start, s.started, s.ok)
      /\ s.rom \in Names1 /\ s.path \in Names1 /\ s.name \in Names1 /\ s.start \in BOOLEAN /\ s.ok \in BOOLEAN
      /\ s.started \in Seq(Games)
  BY DEF State
<1>3. CASE ~s.ok
  <2>1. t = s /\ s.ok = FALSE
    BY <1>2, <1>3 DEF HandleArgument
  <2>2. t = New(s.rom, s.path, s.name, s.start, s.started, FALSE)
    BY <1>2, <2>1
  <2> QED
    BY <1>2, <2>2, Fails
<1>4. CASE s.ok /\ arg.opt = "rom" /\ f = ""
  <2>1. t = [s EXCEPT !.ok = FALSE]
    BY <1>4 DEF HandleArgument
  <2>2. t = New(s.rom, s.path, s.name, s.start, s.started, FALSE)
    BY <1>2, <2>1
  <2> QED
    BY <1>2, <2>2, Fails
<1>5. CASE s.ok /\ arg.opt = "rom" /\ f # ""
  <2>1. t = Written([s EXCEPT !.path = f], f, files, roms)
    BY <1>5 DEF HandleArgument
  <2>2. [s EXCEPT !.path = f] = New(s.rom, f, s.name, s.start, s.started, TRUE)
    <3>1. [s EXCEPT !.path = f] = New(s.rom, f, s.name, s.start, s.started, s.ok)
      BY <1>2
    <3>2. s.ok = TRUE
      BY <1>2, <1>5
    <3> QED
      BY <3>1, <3>2
  <2>3. CASE f \in roms
    <3>1. t = New(f, f, s.name, s.start, s.started, TRUE)
      BY <2>1, <2>2, <2>3 DEF Written
    <3> QED
      BY <1>1, <1>2, <1>5, <2>3, <3>1, Loads
  <2>4. CASE f \notin roms /\ f \in files
    <3>1. t = New(s.rom, f, s.name, s.start, s.started, FALSE)
      BY <2>1, <2>2, <2>4 DEF Written
    <3> QED
      BY <1>1, <1>2, <3>1, Fails
  <2>5. CASE f \notin roms /\ f \notin files
    <3>1. t = New(s.rom, f, s.name, s.start, s.started, TRUE)
      BY <2>1, <2>2, <2>5 DEF Written
    <3> QED
      BY <1>1, <1>2, <1>5, <2>5, <3>1, Leaves
  <2> QED
    BY <2>3, <2>4, <2>5
<1>6. CASE s.ok /\ arg.opt = "start"
  <2>1. PICK name \in Names1 : name = IF f = "" THEN s.name ELSE f
    BY <1>1, <1>2
  <2>2. t = [s EXCEPT !.start = TRUE, !.name = IF f = "" THEN @ ELSE f]
    BY <1>6 DEF HandleArgument
  <2>3. t = New(s.rom, s.path, name, TRUE, s.started, TRUE)
    BY <1>2, <1>6, <2>1, <2>2
  <2> QED
    BY <1>2, <1>6, <2>3, Leaves
<1>7. CASE s.ok /\ arg.opt = "" /\ arg.f \in files
  <2> DEFINE w == Written(s, f, files, roms)
  <2>1. f = arg.f /\ t = IF w.ok THEN StartRom(w, f) ELSE w
    BY <1>1, <1>7 DEF HandleArgument
  <2>2. CASE f \in roms
    <3>1. w = New(f, s.path, s.name, s.start, s.started, TRUE)
      BY <1>2, <1>7, <2>2 DEF Written
    <3> DEFINE started == Append(s.started, [rom |-> f, name |-> f])
    <3>2. StartRom(w, f) = New(f, s.path, s.name, s.start, started, TRUE)
      <4>1. w.rom = f /\ w.started = s.started
        BY <3>1
      <4>2. StartRom(w, f) = [w EXCEPT !.started = started]
        <5> HIDE DEF w
        <5> QED
          BY <4>1 DEF StartRom
      <4> HIDE DEF started, w
      <4> QED
        BY <3>1, <4>2
    <3>3. t = New(f, s.path, s.name, s.start, started, TRUE)
      BY <2>1, <3>1, <3>2
    <3>4. started = IF arg.opt = "" THEN Append(s.started, [rom |-> f, name |-> f]) ELSE s.started
      BY <1>7
    <3> HIDE DEF started
    <3> QED
      BY <1>1, <1>2, <1>7, <2>2, <3>3, <3>4, Loads
  <2>3. CASE f \notin roms
    <3>1. w = New(s.rom, s.path, s.name, s.start, s.started, FALSE)
      BY <1>2, <1>7, <2>1, <2>3 DEF Written
    <3>2. t = New(s.rom, s.path, s.name, s.start, s.started, FALSE)
      BY <2>1, <3>1
    <3> QED
      BY <1>2, <3>2, Fails
  <2> QED
    BY <2>2, <2>3
<1>8. CASE s.ok /\ arg.opt = "" /\ arg.f \notin files
  <2>1. t = s /\ f = arg.f
    BY <1>1, <1>8 DEF HandleArgument
  <2>2. t = New(s.rom, s.path, s.name, s.start, s.started, TRUE)
    BY <1>2, <1>8, <2>1
  <2> QED
    BY <1>1, <1>2, <1>8, <2>1, <2>2, Leaves
<1> QED
  BY <1>1, <1>3, <1>4, <1>5, <1>6, <1>7, <1>8

\* What holds behind each argument; given are the files named so far, bare the
\* arguments without an option.
LoopInv(s, given, bare, files, roms) ==
  /\ s \in State
  /\ \A i \in DOMAIN s.started : s.started[i].rom \in given \cap roms
  /\ s.rom \in (given \cap roms) \cup {"before"}
  /\ s.ok /\ s.rom = "before" => given \cap roms = {}
  /\ s.ok => given \cap (files \ roms) = {}
  /\ bare = {} => s.started = <<>>

NamesOf(all, given, opt, f) ==
  (opt = "start" /\ all = given) \/ (opt # "start" /\ all = given \cup {f})
Counts(now, bare, opt) == now = {} => bare = {} /\ opt # ""

\* One pass of HandleArguments keeps the invariant of its loop.
LEMMA LoopStep ==
  ASSUME NEW s, NEW t, NEW opt, NEW f \in Names1, NEW files, NEW roms \in SUBSET files, "before" \notin roms,
         NEW given, NEW all, NamesOf(all, given, opt, f), NEW bare, NEW now, Counts(now, bare, opt),
         LoopInv(s, given, bare, files, roms), Outcome(s, t, opt, f, files, roms)
  PROVE  LoopInv(t, all, now, files, roms)
<1>1. given \subseteq all /\ all \subseteq given \cup {f}
  BY DEF NamesOf
<1>2. /\ s \in State /\ t \in State /\ (t.ok => s.ok)
      /\ s.started \in Seq(Games)
  BY DEF LoopInv, Outcome, State
<1>3. CASE /\ t.rom = s.rom /\ t.started = s.started
           /\ t.ok => opt = "start" \/ f \notin files
  <2>1. t.ok => all \cap files = given \cap files
    BY <1>3 DEF NamesOf
  <2>2. \A i \in DOMAIN t.started : t.started[i].rom \in all \cap roms
    BY <1>1, <1>3 DEF LoopInv
  <2>3. t.rom \in (all \cap roms) \cup {"before"}
    BY <1>1, <1>3 DEF LoopInv
  <2>4. t.ok /\ t.rom = "before" => all \cap roms = {}
    BY <1>2, <1>3, <2>1 DEF LoopInv
  <2>5. t.ok => all \cap (files \ roms) = {}
    BY <1>2, <1>3, <2>1 DEF LoopInv
  <2>6. now = {} => t.started = <<>>
    BY <1>3 DEF LoopInv, Counts
  <2> QED
    BY <1>2, <2>2, <2>3, <2>4, <2>5, <2>6 DEF LoopInv
<1>4. CASE /\ t.rom = f /\ f \in roms /\ t.ok /\ opt # "start"
           /\ t.started = IF opt = "" THEN Append(s.started, [rom |-> f, name |-> f]) ELSE s.started
  <2>1. all = given \cup {f} /\ f \in all \cap roms
    BY <1>4 DEF NamesOf
  <2>2. \A i \in DOMAIN t.started : t.started[i].rom \in all \cap roms
    <3>1. \A i \in DOMAIN s.started : s.started[i].rom \in all \cap roms
      BY <1>1 DEF LoopInv
    <3>2. CASE opt = ""
      <4>1. [rom |-> f, name |-> f] \in Games /\ [rom |-> f, name |-> f].rom = f
        BY DEF Games
      <4>2. \A i \in DOMAIN t.started :
              t.started[i] = [rom |-> f, name |-> f] \/ (i \in DOMAIN s.started /\ t.started[i] = s.started[i])
        <5>1. t.started = Append(s.started, [rom |-> f, name |-> f])
          BY <1>4, <3>2
        <5> QED
          BY <1>2, <4>1, <5>1, AppendAt
      <4> QED
        BY <2>1, <3>1, <4>1, <4>2
    <3>3. CASE opt # ""
      BY <1>4, <3>1, <3>3
    <3> QED
      BY <3>2, <3>3
  <2>3. t.rom \in all \cap roms /\ t.rom # "before"
    BY <1>4, <2>1
  <2>4. all \cap (files \ roms) = {}
    BY <1>2, <1>4, <2>1 DEF LoopInv
  <2>5. now = {} => t.started = <<>>
    BY <1>4 DEF LoopInv, Counts
  <2> QED
    BY <1>2, <2>2, <2>3, <2>4, <2>5 DEF LoopInv
<1> QED
  BY <1>3, <1>4 DEF Outcome

\* The state behind all arguments, and what was given by then.
Given(args, k) == {ExtractSubArg(args[i]) : i \in {j \in 1 .. k : args[j].opt # "start"}}

Unused == [rom |-> "before", path |-> "", name |-> "", start |-> FALSE, started |-> <<>>, ok |-> TRUE]
Behind(after, args, files, roms) ==
  after = [k \in 0 .. Len(args) |->
             IF k = 0 THEN Unused ELSE HandleArgument(after[k - 1], args[k], files, roms)]
Bare(args, k) == {i \in 1 .. k : args[i].opt = ""}

\* Where HandleArguments starts.
LEMMA FirstIs == Unused \in State /\ Unused.started = <<>> /\ Unused.rom = "before"
<1>1. "before" \in Names1 /\ "" \in Names1
  BY DEF Names1
<1>2. <<>> \in Seq(Games)
  OBVIOUS
<1> HIDE DEF Names1
<1> QED
  BY <1>1, <1>2 DEF State, Unused

\* The invariant of the loop of HandleArguments holds behind all its arguments.
LEMMA BehindArguments ==
  ASSUME NEW args \in Seq(Argument), NEW files, NEW roms \in SUBSET files, "before" \notin roms,
         NEW after, Behind(after, args, files, roms)
  PROVE  LoopInv(after[Len(args)], Given(args, Len(args)), Bare(args, Len(args)), files, roms)
<1> DEFINE T == {k \in 0 .. Len(args) : LoopInv(after[k], Given(args, k), Bare(args, k), files, roms)}
           N == Len(args)
<1>1. N \in Nat
  OBVIOUS
<1>2. 0 \in T
  <2>1. after[0] = Unused
    BY <1>1 DEF Behind
  <2>2. after[0] \in State /\ after[0].started = <<>> /\ after[0].rom = "before"
    BY <2>1, FirstIs
  <2>3. Given(args, 0) = {}
    BY DEF Given
  <2> QED
    BY <1>1, <2>2, <2>3 DEF LoopInv
<1>3. ASSUME NEW k \in 0 .. N - 1, k \in T
      PROVE  k + 1 \in T
  <2>1. /\ k + 1 \in 0 .. N /\ k + 1 \in DOMAIN args /\ args[k + 1] \in Argument
        /\ after[k + 1] = HandleArgument(after[k], args[k + 1], files, roms)
    BY <1>1 DEF Behind
  <2>2. LoopInv(after[k], Given(args, k), Bare(args, k), files, roms) /\ after[k] \in State
    BY <1>3 DEF LoopInv
  <2>3. /\ Outcome(after[k], after[k + 1], args[k + 1].opt, ExtractSubArg(args[k + 1]), files, roms)
        /\ ExtractSubArg(args[k + 1]) \in Names1
    BY <2>1, <2>2, OneArgument, ArgumentIs
  <2>4. NamesOf(Given(args, k + 1), Given(args, k), args[k + 1].opt, ExtractSubArg(args[k + 1]))
    <3>1. 1 .. k + 1 = (1 .. k) \cup {k + 1}
      BY <1>1
    <3> QED
      BY <3>1 DEF Given, NamesOf
  <2>5. Counts(Bare(args, k + 1), Bare(args, k), args[k + 1].opt)
    <3>1. 1 .. k \subseteq 1 .. k + 1 /\ k + 1 \in 1 .. k + 1
      BY <1>1
    <3> QED
      BY <3>1 DEF Bare, Counts
  <2>6. LoopInv(after[k + 1], Given(args, k + 1), Bare(args, k + 1), files, roms)
    BY <2>2, <2>3, <2>4, <2>5, LoopStep
  <2> QED
    BY <2>1, <2>6
<1>4. \A k \in 0 .. N : k \in T
  <2> HIDE DEF T, N
  <2> QED
    BY <1>1, <1>2, <1>3, ForAllBelow
<1> QED
  BY <1>1, <1>4

\* usb64 starts no game but one it has loaded, or the one that was there when
\* it was given none, and nothing behind a file that is no image.
THEOREM StartsGiven ==
  ASSUME NEW args \in Seq(Argument), NEW files, NEW roms \in SUBSET files, "before" \notin roms
  PROVE  StartsWhatWasGiven(args, files, roms)
<1> DEFINE Is(f) == Behind(f, args, files, roms)
           after == CHOOSE f : Is(f)
           g == [k \in Nat |-> [s \in State |->
                   IF k \in DOMAIN args THEN HandleArgument(s, args[k], files, roms) ELSE s]]
           s == after[Len(args)]
           r == HandleArguments(args, files, roms)
           given == Given(args, Len(args))
           bare == Bare(args, Len(args))
<1>1. Len(args) \in Nat /\ DOMAIN args = 1 .. Len(args)
  OBVIOUS
<1>2. Is(after)
  <2>1. Unused \in State
    BY FirstIs
  <2>2. ASSUME NEW k \in Nat, NEW x \in State, k \in DOMAIN args
        PROVE  HandleArgument(x, args[k], files, roms) \in State
    <3>1. args[k] \in Argument
      BY <2>2
    <3> QED
      BY <3>1, OneArgument DEF Outcome
  <2>3. g \in [Nat -> [State -> State]]
    BY <2>2
  <2>4. PICK f \in [0 .. Len(args) -> State] : Steps(f, Len(args), Unused, g)
    <3> HIDE DEF g
    <3> QED
      BY <1>1, <2>1, <2>3, StepsExist
  <2>5. Is(f)
    <3>1. f = [k \in 0 .. Len(args) |-> IF k = 0 THEN Unused ELSE g[k][f[k - 1]]]
      BY <2>4 DEF Steps
    <3>2. ASSUME NEW k \in 0 .. Len(args), k # 0
          PROVE  g[k][f[k - 1]] = HandleArgument(f[k - 1], args[k], files, roms)
      <4>1. k \in Nat /\ k \in DOMAIN args /\ k - 1 \in 0 .. Len(args)
        BY <1>1, <3>2
      <4>2. f[k - 1] \in State
        BY <2>4, <4>1
      <4> QED
        BY <4>1, <4>2
    <3> HIDE DEF g
    <3> QED
      BY <3>1, <3>2 DEF Behind
  <2> QED
    <3> HIDE DEF Is
    <3> QED
      BY <2>5
<1>3. LoopInv(s, given, bare, files, roms)
  <2> HIDE DEF after
  <2> QED
    BY <1>2, BehindArguments
<1>4. given = {ExtractSubArg(args[i]) : i \in {k \in DOMAIN args : args[k].opt # "start"}}
  BY <1>1 DEF Given
<1>5. r = IF ~s.start \/ ~s.ok THEN s
          ELSE IF s.name # "" THEN StartRom(s, s.name)
          ELSE IF s.path # "" THEN StartRom(s, s.path)
          ELSE [s EXCEPT !.ok = FALSE]
  BY DEF HandleArguments, Behind, Unused
<1>6. /\ s \in State /\ s.started \in Seq(Games) /\ s.rom \in Names1
      /\ s.name \in Names1 /\ s.path \in Names1
  <2> HIDE DEF s, given, bare
  <2> QED
    BY <1>3 DEF LoopInv, State
<1>7. \/ r.started = s.started
      \/ s.ok /\ \E n \in Names1 : r.started = Append(s.started, [rom |-> s.rom, name |-> n])
  <2> HIDE DEF s, r
  <2>1. CASE s.start /\ s.ok /\ s.name # ""
    <3>1. r.started = Append(s.started, [rom |-> s.rom, name |-> s.name])
      BY <1>5, <1>6, <2>1 DEF StartRom, State
    <3> QED
      BY <1>6, <2>1, <3>1
  <2>2. CASE s.start /\ s.ok /\ s.name = "" /\ s.path # ""
    <3>1. r.started = Append(s.started, [rom |-> s.rom, name |-> s.path])
      BY <1>5, <1>6, <2>2 DEF StartRom, State
    <3> QED
      BY <1>6, <2>2, <3>1
  <2>3. CASE s.start /\ s.ok /\ s.name = "" /\ s.path = ""
    BY <1>5, <1>6, <2>3 DEF State
  <2>4. CASE ~s.start \/ ~s.ok
    BY <1>5, <2>4
  <2> QED
    BY <2>1, <2>2, <2>3, <2>4
<1>8. /\ \A i \in DOMAIN r.started : r.started[i].rom \in given \cup {"before"}
      /\ \A i \in DOMAIN r.started : r.started[i].rom = "before" => given \cap roms = {}
      /\ given \cap (files \ roms) # {} => r.started = s.started
      /\ bare = {} => Len(r.started) <= 1
  <2> HIDE DEF s, r, given, bare
  <2>1. /\ \A i \in DOMAIN s.started : s.started[i].rom \in given /\ s.started[i].rom # "before"
        /\ s.rom \in given \cup {"before"}
        /\ s.ok /\ s.rom = "before" => given \cap roms = {}
        /\ s.ok => given \cap (files \ roms) = {}
        /\ bare = {} => s.started = <<>>
    BY <1>3 DEF LoopInv
  <2>2. CASE r.started = s.started
    BY <2>1, <2>2
  <2>3. ASSUME s.ok, NEW n \in Names1, r.started = Append(s.started, [rom |-> s.rom, name |-> n])
        PROVE  /\ \A i \in DOMAIN r.started : r.started[i].rom \in given \cup {"before"}
               /\ \A i \in DOMAIN r.started : r.started[i].rom = "before" => given \cap roms = {}
               /\ given \cap (files \ roms) # {} => r.started = s.started
               /\ bare = {} => Len(r.started) <= 1
    <3>1. PICK e \in Games : e = [rom |-> s.rom, name |-> n]
      BY <1>6 DEF Games
    <3>2. \A i \in DOMAIN r.started : r.started[i] = e \/ (i \in DOMAIN s.started /\ r.started[i] = s.started[i])
      BY <1>6, <2>3, <3>1, AppendAt
    <3>3. e.rom = s.rom
      BY <3>1
    <3>4. Len(r.started) = Len(s.started) + 1
      BY <1>6, <2>3, <3>1, AppendType
    <3> QED
      BY <2>1, <2>3, <3>2, <3>3, <3>4
  <2> QED
    BY <1>7, <2>2, <2>3
<1>9. (\A i \in DOMAIN args : args[i].opt # "") => bare = {}
  BY <1>1 DEF Bare
<1>10. bare = {} => s.started = <<>>
  <2> HIDE DEF s, given, bare
  <2> QED
    BY <1>3 DEF LoopInv
<1> HIDE DEF r, s, given, bare
<1>11. StartsWhatWasGiven(args, files, roms)
  BY <1>4, <1>8, <1>9, <1>10 DEF StartsWhatWasGiven, r
<1> QED
  BY <1>11

(***************************************************************************)
(* ConvertToBitmap.                                                        *)
(***************************************************************************)
LEMMA PixelIsKept ==
  ASSUME NEW c \in 0 .. 255, NEW d \in 0 .. 255
  PROVE  PixelKept(c, d)
<1> DEFINE p == 256 * c + d
<1>1. ((d % 64) \div 2) * 8 = 8 * ((p \div 2) % 32)
  <2>1. p \div 2 = 128 * c + (d \div 2)
    OBVIOUS
  <2>2. \A x \in 0 .. 127 : (128 * c + x) % 32 = x % 32
    OBVIOUS
  <2>3. (d % 64) \div 2 = (d \div 2) % 32
    OBVIOUS
  <2>4. d \div 2 \in 0 .. 127
    OBVIOUS
  <2> QED
    BY <2>1, <2>2, <2>3, <2>4
<1>2. (c % 8) * 32 + (d \div 64) * 8 = 8 * ((p \div 64) % 32)
  OBVIOUS
<1>3. (c \div 8) * 8 = 8 * (p \div 2048)
  OBVIOUS
<1> QED
  BY <1>1, <1>2, <1>3 DEF PixelKept, Pixel

Number4(b) == b[1] + 256 * (b[2] + 256 * (b[3] + 256 * b[4]))

\* The two low bytes of a number below 65536 are the whole of it.
LEMMA TwoBytes ==
  ASSUME NEW n \in Nat, n < 65536
  PROVE  Number4(Bytes2(n, 0)) = n
<1>1. (n % 256) + 256 * ((n \div 256) % 256) = n
  OBVIOUS
<1> QED
  BY <1>1 DEF Number4, Bytes2

\* The header that ConvertToBitmap writes tells the size of the picture.
LEMMA HeaderIsTrue ==
  ASSUME NEW width \in Nat, width < 65536, NEW height \in Nat
  PROVE  HeaderTrue(width, height)
<1> DEFINE a == width * height * 3
           h == BitmapHeader(width, height)
<1>1. a \in Nat
  <2>1. \A k \in Nat : k * 3 \in Nat
    OBVIOUS
  <2>2. width * height \in Nat
    OBVIOUS
  <2> QED
    BY <2>1, <2>2
<1>2. h.width = Bytes2(width, 0) /\ h.file = Bytes2(a + 54, 0) /\ h.image = Bytes2(a, 0)
  BY DEF BitmapHeader
<1> HIDE DEF h
<1>3. Number4(h.width) = width
  BY <1>2, TwoBytes
<1>4. ASSUME a + 54 < 65536
      PROVE  Number4(h.file) = Number4(h.image) + 54 /\ Number4(h.image) = a
  <2> HIDE DEF a
  <2>1. a < 65536 /\ a + 54 \in Nat
    BY <1>1, <1>4
  <2>2. Number4(h.file) = a + 54 /\ Number4(h.image) = a
    BY <1>1, <1>2, <1>4, <2>1, TwoBytes
  <2> QED
    BY <2>2
<1>5. HeaderTrue(width, height)
  BY <1>3, <1>4 DEF HeaderTrue, Number4, h
<1> QED
  BY <1>5

\* The bytes of an image, the configuration of the FPGA, the game that is
\* started, the pixels and the header of a screen shot: HostConverts holds for
\* images of every length, blocks of every size, whatever files there are, and
\* every sequence of arguments.
THEOREM HostConversions == Spec => []HostConverts
<1>1. Init => HostConverts
  BY DEF Init, HostConverts
<1>2. HostConverts /\ [Next]_sample => HostConverts'
  <2> SUFFICES ASSUME HostConverts, [Next]_sample PROVE HostConverts'
    OBVIOUS
  <2>1. CASE UNCHANGED sample
    BY <2>1 DEF HostConverts
  <2>2. CASE Image
    <3>1. PICK image \in Images, n \in {1, 2, 4} : sample' = [kind |-> "image", image |-> image, n |-> n]
      BY <2>2 DEF Image
    <3>2. image \in Seq(FileBytes) /\ Len(image) >= 4
      BY ImagesAssumption
    <3>3. AnyOrderLoads(image, n) /\ FpgaWhole(image) /\ OthersRefused(reverse_each(image, n))
      BY <3>2, ImagesConvert, FpgaIsWhole, OthersAreRefused
    <3> QED
      BY <3>1, <3>3 DEF HostConverts
  <2>3. CASE Arguments3
    <3>1. PICK n \in 1 .. 3 : \E args \in [1 .. n -> Arguments] : sample' = [kind |-> "args", args |-> args]
      BY <2>3 DEF Arguments3
    <3>2. PICK args \in [1 .. n -> Arguments] : sample' = [kind |-> "args", args |-> args]
      BY <3>1
    <3>3. Arguments \subseteq Argument
      BY ArgumentsAssumption, Zenon DEF Argument
    <3>4. args \in Seq(Argument)
      <4> HIDE DEF Argument
      <4> QED
        BY <3>3
    <3>5. StartsWhatWasGiven(args, Files, Roms)
      <4>1. Roms \in SUBSET Files /\ "before" \notin Roms
        BY FilesAssumption, Zenon
      <4> QED
        BY <3>4, <4>1, StartsGiven, Zenon
    <3> QED
      BY <3>2, <3>5 DEF HostConverts
  <2>4. CASE Screen
    <3>1. CASE \E c \in 0 .. 255 : sample' = [kind |-> "pixel", c |-> c]
      <4>1. PICK c \in 0 .. 255 : sample' = [kind |-> "pixel", c |-> c]
        BY <3>1
      <4>2. \A d \in 0 .. 255 : PixelKept(c, d)
        BY PixelIsKept
      <4> QED
        BY <4>1, <4>2 DEF HostConverts
    <3>2. CASE \E size \in Screens : sample' = [kind |-> "screen", width |-> size.width, height |-> size.height]
      <4>1. PICK size \in Screens : sample' = [kind |-> "screen", width |-> size.width, height |-> size.height]
        BY <3>2
      <4>2. HeaderTrue(size.width, size.height)
        <5>1. size.width \in Nat /\ size.width < 65536 /\ size.height \in Nat
          BY ScreensAssumption
        <5> QED
          BY <5>1, HeaderIsTrue
      <4> QED
        BY <4>1, <4>2 DEF HostConverts
    <3> QED
      BY <2>4, <3>1, <3>2 DEF Screen
  <2>5. CASE ExVolume \/ Volume \/ Partitions \/ Entry12 \/ Checksum
    BY <2>5 DEF ExVolume, Volume, Partitions, Entry12, Checksum, HostConverts
  <2>6. ASSUME NEW b, Command(b) \/ Read(b) \/ Write(b)
        PROVE  HostConverts'
    BY <2>6 DEF Command, Read, Write, HostConverts
  <2> QED
    BY <2>1, <2>2, <2>3, <2>4, <2>5, <2>6 DEF Next
<1> QED
  BY <1>1, <1>2, PTL DEF Spec

-----------------------------------------------------------------------------
(***************************************************************************)
(* FatUnicode: sixteen halvings find every code of a table of up to 32768  *)
(* pairs.                                                                  *)
(***************************************************************************)
\* A table of n pairs, sorted by code, and one behind them that ends it.
Sorted(table, n) ==
  /\ n \in Nat /\ Len(table) = n + 1
  /\ \A i \in 1 .. n + 1 : table[i][1] \in Nat
  /\ \A i, j \in 1 .. n : i < j => table[i][1] < table[j][1]
  /\ table[n + 1][1] = 0

\* Where the search stands: between li and hi, or at a pair of the code.
Searching(table, n, code, s) ==
  /\ s \in [li : Nat, hi : Nat, at : Nat]
  /\ s.li <= s.hi /\ s.hi <= n /\ (n > 0 => s.li < n)
  /\ s.at # 0 => s.at \in 1 .. n /\ table[s.at][1] = code
  /\ s.at = 0 => \A t \in 1 .. n : table[t][1] = code => s.li < t /\ t <= s.hi

\* A halving keeps the place of the code between its bounds.
LEMMA HalvingKeeps ==
  ASSUME NEW table, NEW n, Sorted(table, n), NEW code \in Nat \ {0}, NEW s, Searching(table, n, code, s)
  PROVE  Searching(table, n, code, halve(table, code, s))
<1> DEFINE i == s.li + (s.hi - s.li) \div 2
           p == table[i + 1][1]
<1>1. s.li \in Nat /\ s.hi \in Nat /\ s.at \in Nat /\ n \in Nat
  BY DEF Searching, Sorted
<1>2. i \in Nat /\ s.li <= i /\ i <= s.hi /\ (n > 0 => i + 1 \in 1 .. n) /\ (n = 0 => i = 0)
  BY <1>1 DEF Searching
<1>3. p \in Nat
  BY <1>1, <1>2 DEF Sorted
<1>4. CASE s.at # 0
  BY <1>4 DEF halve
<1>5. CASE s.at = 0 /\ code = p
  <2>1. n > 0
    BY <1>2, <1>5 DEF Sorted
  <2>2. halve(table, code, s) = [s EXCEPT !.at = i + 1]
    BY <1>5 DEF halve
  <2> QED
    BY <1>1, <1>2, <1>5, <2>1, <2>2 DEF Searching
<1>6. CASE s.at = 0 /\ code > p
  <2>1. halve(table, code, s) = [s EXCEPT !.li = i]
    BY <1>3, <1>6 DEF halve
  <2>2. ASSUME NEW t \in 1 .. n, table[t][1] = code
        PROVE  i < t /\ t <= s.hi
    <3>1. n > 0 /\ i + 1 \in 1 .. n
      BY <1>1, <1>2
    <3>2. ~(t < i + 1) /\ t # i + 1
      BY <1>3, <1>6, <2>2, <3>1 DEF Sorted
    <3>3. t <= s.hi
      BY <1>6, <2>2 DEF Searching
    <3> QED
      BY <1>2, <3>2, <3>3
  <2> QED
    BY <1>1, <1>2, <1>6, <2>1, <2>2 DEF Searching
<1>7. CASE s.at = 0 /\ code < p
  <2>1. halve(table, code, s) = [s EXCEPT !.hi = i]
    BY <1>3, <1>7 DEF halve
  <2>2. n > 0
    BY <1>2, <1>7 DEF Sorted
  <2>3. ASSUME NEW t \in 1 .. n, table[t][1] = code
        PROVE  s.li < t /\ t <= i
    <3>1. n \in Nat /\ i + 1 \in 1 .. n
      BY <1>1, <1>2, <2>2
    <3>2. ~(i + 1 < t) /\ t # i + 1
      BY <1>3, <1>7, <2>3, <3>1 DEF Sorted
    <3>3. s.li < t
      BY <1>7, <2>3 DEF Searching
    <3> QED
      BY <1>2, <3>2, <3>3
  <2> QED
    BY <1>1, <1>2, <1>7, <2>1, <2>2, <2>3 DEF Searching
<1> QED
  BY <1>3, <1>4, <1>5, <1>6, <1>7

\* At most w pairs lie between the bounds, once the code has not been met.
Narrow(s, w) == s.at = 0 => s.hi - s.li <= w

\* A halving halves.
LEMMA HalvingNarrows ==
  ASSUME NEW table, NEW n, Sorted(table, n), NEW code \in Nat \ {0}, NEW s, Searching(table, n, code, s),
         NEW w \in Nat, Narrow(s, 2 * w)
  PROVE  Narrow(halve(table, code, s), w)
<1> DEFINE i == s.li + (s.hi - s.li) \div 2
           p == table[i + 1][1]
           h == halve(table, code, s)
<1>1. s.li \in Nat /\ s.hi \in Nat /\ s.at \in Nat /\ s.li <= s.hi /\ n \in Nat
  BY DEF Searching, Sorted
<1>2. CASE s.at # 0
  BY <1>2 DEF halve, Narrow
<1>3. CASE s.at = 0
  <2>1. s.hi - s.li <= 2 * w
    BY <1>3 DEF Narrow
  <2>2. s.hi - i <= w /\ i - s.li <= w /\ i \in Nat
    BY <1>1, <2>1
  <2>3. \/ h = [s EXCEPT !.at = i + 1]
        \/ h = [s EXCEPT !.li = i]
        \/ h = [s EXCEPT !.hi = i]
    BY <1>3 DEF halve
  <2>4. s \in [li : Nat, hi : Nat, at : Nat]
    BY DEF Searching
  <2>5. CASE h = [s EXCEPT !.at = i + 1]
    BY <2>2, <2>4, <2>5 DEF Narrow
  <2>6. CASE h = [s EXCEPT !.li = i]
    BY <2>2, <2>4, <2>6 DEF Narrow
  <2>7. CASE h = [s EXCEPT !.hi = i]
    BY <2>2, <2>4, <2>7 DEF Narrow
  <2> QED
    BY <2>3, <2>5, <2>6, <2>7
<1> QED
  BY <1>2, <1>3

\* One pair between the bounds is the one, if there is one.
LEMMA LastHalving ==
  ASSUME NEW table, NEW n, Sorted(table, n), NEW code \in Nat \ {0}, NEW s, Searching(table, n, code, s),
         Narrow(s, 1), NEW t \in 1 .. n, table[t][1] = code
  PROVE  halve(table, code, s).at # 0
<1>1. s.li \in Nat /\ s.hi \in Nat /\ s.at \in Nat /\ s \in [li : Nat, hi : Nat, at : Nat] /\ n \in Nat
  BY DEF Searching, Sorted
<1>2. CASE s.at # 0
  BY <1>2 DEF halve
<1>3. CASE s.at = 0
  <2>1. s.li < t /\ t <= s.hi /\ s.hi - s.li <= 1
    BY <1>3 DEF Searching, Narrow
  <2>2. s.li + (s.hi - s.li) \div 2 = s.li /\ t = s.li + 1
    BY <1>1, <2>1
  <2>3. halve(table, code, s) = [s EXCEPT !.at = s.li + 1]
    BY <1>3, <2>2 DEF halve
  <2> QED
    BY <1>1, <2>3
<1> QED
  BY <1>2, <1>3

\* The search, as a function of its halvings.
Halved(f, table, n, code) ==
  /\ f[0] = [li |-> 0, hi |-> n, at |-> 0]
  /\ \A k \in 0 .. 15 : f[k + 1] = halve(table, code, f[k])
  /\ \A k \in 0 .. 16 : Searching(table, n, code, f[k])
  /\ search(table, code) = IF f[16].at = 0 THEN 0 ELSE table[f[16].at][2]

\* There is one.
LEMMA HalvedExists ==
  ASSUME NEW table, NEW n, Sorted(table, n), NEW code \in Nat \ {0}
  PROVE  \E f : Halved(f, table, n, code)
<1> DEFINE a == [li |-> 0, hi |-> n, at |-> 0]
           S == {s \in [li : Nat, hi : Nat, at : Nat] : Searching(table, n, code, s)}
           Is(f) == f = [k \in 0 .. 16 |-> IF k = 0 THEN a ELSE halve(table, code, f[k - 1])]
           g == [k \in Nat |-> [s \in S |-> halve(table, code, s)]]
<1>1. a \in S
  BY DEF Searching, Sorted
<1>2. \A s \in S : halve(table, code, s) \in S
  <2>1. \A s \in S : Searching(table, n, code, halve(table, code, s))
    BY HalvingKeeps
  <2> QED
    BY <2>1 DEF Searching
<1>3. g \in [Nat -> [S -> S]]
  BY <1>2
<1> HIDE DEF a, S
<1>4. PICK f \in [0 .. 16 -> S] : Steps(f, 16, a, g)
  <2> HIDE DEF g
  <2> QED
    BY <1>1, <1>3, StepsExist
<1>5. Is(f)
  BY <1>4 DEF Steps
<1> DEFINE F == CHOOSE f1 : Is(f1)
<1>6. Is(F)
  <2> HIDE DEF Is
  <2> QED
    BY <1>5
<1> HIDE DEF F
<1>7. F = [k \in 0 .. 16 |-> IF k = 0 THEN a ELSE halve(table, code, F[k - 1])]
  BY <1>6
<1>8. search(table, code) = IF F[16].at = 0 THEN 0 ELSE table[F[16].at][2]
  BY DEF search, Halvings, F, a, Sorted
<1>9. F[0] = a /\ \A k \in 0 .. 15 : F[k + 1] = halve(table, code, F[k])
  BY <1>7
<1> DEFINE T == {k \in 0 .. 16 : F[k] \in S}
<1>10. \A k \in 0 .. 16 : k \in T
  <2>1. 0 \in T
    BY <1>1, <1>9
  <2>2. \A k \in 0 .. 16 - 1 : k \in T => k + 1 \in T
    BY <1>2, <1>9
  <2> HIDE DEF T
  <2> QED
    BY <2>1, <2>2, ForAllBelow
<1>11. \A k \in 0 .. 16 : Searching(table, n, code, F[k])
  BY <1>10 DEF S
<1> QED
  BY <1>8, <1>9, <1>11 DEF Halved, a

\* The search finds the other code of every code of a sorted table of up to
\* 32768 pairs, and 0 for every other: sixteen halvings are enough for the
\* tables of the code page (ff_uni2oem, ff_oem2uni).
THEOREM CodesAreFound ==
  ASSUME NEW table, NEW n, Sorted(table, n), n <= 32768, NEW code \in Nat \ {0}
  PROVE  /\ \A t \in 1 .. n : table[t][1] = code => search(table, code) = table[t][2]
         /\ (\A t \in 1 .. n : table[t][1] # code) => search(table, code) = 0
<1>1. PICK f : Halved(f, table, n, code)
  BY HalvedExists
<1>2. \A k \in 0 .. 16 : Searching(table, n, code, f[k])
  BY <1>1 DEF Halved
<1> DEFINE Next1(w, k) == Narrow(f[k], 2 * w) => Narrow(f[k + 1], w)
<1>3. ASSUME NEW k \in 0 .. 15, NEW w \in Nat
      PROVE  Next1(w, k)
  <2>1. f[k + 1] = halve(table, code, f[k]) /\ Searching(table, n, code, f[k])
    BY <1>1 DEF Halved
  <2> QED
    BY <2>1, HalvingNarrows
<1>4. Narrow(f[0], 32768)
  BY <1>1 DEF Halved, Narrow, Sorted
<1>5. Narrow(f[15], 1)
  <2>1. Narrow(f[1], 16384) /\ Narrow(f[2], 8192) /\ Narrow(f[3], 4096) /\ Narrow(f[4], 2048)
    BY <1>3, <1>4
  <2>2. Narrow(f[5], 1024) /\ Narrow(f[6], 512) /\ Narrow(f[7], 256) /\ Narrow(f[8], 128)
    BY <1>3, <2>1
  <2>3. Narrow(f[9], 64) /\ Narrow(f[10], 32) /\ Narrow(f[11], 16) /\ Narrow(f[12], 8)
    BY <1>3, <2>2
  <2> QED
    BY <1>3, <2>3
<1>6. ASSUME NEW t \in 1 .. n, table[t][1] = code
      PROVE  search(table, code) = table[t][2]
  <2>1. f[16] = halve(table, code, f[15]) /\ Searching(table, n, code, f[15])
    <3>1. 15 \in 0 .. 15 /\ 15 + 1 = 16
      OBVIOUS
    <3> QED
      BY <1>1, <3>1 DEF Halved
  <2>2. f[16].at # 0
    BY <1>5, <1>6, <2>1, LastHalving
  <2>3. f[16].at \in 1 .. n /\ table[f[16].at][1] = code
    BY <1>2, <2>2 DEF Searching
  <2>4. f[16].at = t
    BY <1>6, <2>3 DEF Sorted
  <2> QED
    BY <1>1, <2>2, <2>4 DEF Halved
<1>7. ASSUME \A t \in 1 .. n : table[t][1] # code
      PROVE  search(table, code) = 0
  <2>1. f[16].at = 0
    BY <1>2, <1>7 DEF Searching
  <2> QED
    BY <1>1, <2>1 DEF Halved
<1> QED
  BY <1>6, <1>7

-----------------------------------------------------------------------------
(***************************************************************************)
(* FatNames: the entries of a long name.                                   *)
(***************************************************************************)
\* A name has neither the 0 that ends it nor the filler among its characters.
Characters(C) == "0" \notin C /\ "FFFF" \notin C

\* Entry e is the one of name nm that begins behind its first from characters:
\* its characters, a 0 behind the last one of all, and filler.
EntryOf(e, nm, from) ==
  /\ e.ord \in Nat /\ (e.ord - 1) * Part = from
  /\ DOMAIN e.chars = 1 .. Part
  /\ \A s \in 1 .. Part :
       /\ from + s <= Len(nm) => e.chars[s] = nm[from + s]
       /\ from + s = Len(nm) + 1 => e.chars[s] = "0"
       /\ from + s > Len(nm) + 1 => e.chars[s] = "FFFF"
  /\ e.last <=> from + Part >= Len(nm)

\* What the buffer holds of a name.
LEMMA BufferHolds ==
  ASSUME NEW C, Characters(C), NEW nm \in Seq(C), NEW old \in Seq(C)
  PROVE  /\ \A i \in 0 .. Len(nm) - 1 : lfnbuf(nm, old)[i] = nm[i + 1] /\ nm[i + 1] # "0" /\ nm[i + 1] # "FFFF"
         /\ lfnbuf(nm, old)[Len(nm)] = "0"
         /\ old = <<>> => \A i \in Len(nm) .. 3 * Part + Len(nm) : lfnbuf(nm, old)[i] = "0"
<1>1. Part \in Nat /\ Len(nm) \in Nat /\ Len(old) \in Nat
  BY NameAssumption
<1>2. \A i \in 0 .. Len(nm) - 1 : nm[i + 1] \in C
  OBVIOUS
<1>3. \A i \in 0 .. Len(nm) - 1 : nm[i + 1] # "0" /\ nm[i + 1] # "FFFF"
  BY <1>2 DEF Characters
<1> QED
  BY <1>1, <1>3 DEF lfnbuf

\* Entry ord of a name, as put_lfn makes it.
LEMMA EntryIsPut ==
  ASSUME NEW C, Characters(C), NEW nm \in Seq(C), NEW ord \in Nat \ {0}, NEW from \in Nat,
         from = (ord - 1) * Part, from < Len(nm)
  PROVE  EntryOf(put_lfn(lfnbuf(nm, <<>>), ord), nm, from)
<1> DEFINE buf == lfnbuf(nm, <<>>)
           ends == {i \in from .. from + Part - 1 : buf[i] = "0"}
           end == CHOOSE i \in ends : \A j \in ends : i <= j
           L == Len(nm)
           e == put_lfn(buf, ord)
<1>1. Part \in Nat \ {0} /\ L \in Nat
  BY NameAssumption
<1>2. /\ \A i \in 0 .. L - 1 : buf[i] = nm[i + 1] /\ nm[i + 1] # "0" /\ nm[i + 1] # "FFFF"
      /\ \A i \in L .. 3 * Part + L : buf[i] = "0"
  BY BufferHolds, <<>> \in Seq(C)
<1>3. e = [chars |-> [s \in 1 .. Part |->
                       IF ends = {} \/ from + s - 1 <= end THEN buf[from + s - 1] ELSE "FFFF"],
           ord |-> ord,
           last |-> ends # {} \/ buf[from + Part] = "0"]
  BY DEF put_lfn
<1> HIDE DEF buf, e, L
<1>4. \A i \in from .. from + Part : buf[i] = "0" <=> i >= L
  BY <1>1, <1>2 DEF L
<1>5. ends = {i \in from .. from + Part - 1 : i >= L}
  BY <1>1, <1>4
<1>6. ends # {} <=> from + Part > L
  <2>1. from + Part > L => from + Part - 1 \in ends
    BY <1>1, <1>5
  <2>2. \A i \in ends : from + Part > L
    BY <1>1, <1>5
  <2> QED
    BY <2>1, <2>2
<1> DEFINE K(s) == from + s - 1
<1>9. \A s \in 1 .. Part : K(s) \in Nat /\ K(s) \in from .. from + Part - 1 /\ K(s) + 1 = from + s
  BY <1>1
<1>10. \A s \in 1 .. Part : from + s <= L => buf[K(s)] = nm[from + s]
  <2>1. \A s \in 1 .. Part : from + s <= L => K(s) \in 0 .. L - 1
    BY <1>1
  <2> HIDE DEF K
  <2> QED
    BY <1>2, <1>9, <2>1
<1>7. CASE from + Part > L
  <2>1. L \in ends /\ \A j \in ends : L <= j
    BY <1>1, <1>5, <1>7 DEF L
  <2>2. end = L
    <3>1. \A i \in ends : i \in Nat
      BY <1>1
    <3>2. end \in ends /\ \A j \in ends : end <= j
      BY <2>1
    <3> HIDE DEF end, ends
    <3> QED
      BY <1>1, <2>1, <3>1, <3>2
  <2> HIDE DEF end, ends
  <2>3. e.ord = ord /\ DOMAIN e.chars = 1 .. Part /\ e.last
    BY <1>3, <1>6, <1>7
  <2>4. \A s \in 1 .. Part : e.chars[s] = IF from + s - 1 <= L THEN buf[from + s - 1] ELSE "FFFF"
    BY <1>3, <1>6, <1>7, <2>2
  <2>5. ASSUME NEW s \in 1 .. Part
        PROVE  /\ from + s <= L => e.chars[s] = nm[from + s]
               /\ from + s = L + 1 => e.chars[s] = "0"
               /\ from + s > L + 1 => e.chars[s] = "FFFF"
    <3>1. CASE from + s <= L
      <4>1. from + s - 1 <= L /\ ~(from + s = L + 1) /\ ~(from + s > L + 1)
        BY <1>1, <3>1
      <4>2. e.chars[s] = buf[K(s)] /\ buf[K(s)] = nm[from + s]
        BY <1>10, <2>4, <3>1, <4>1
      <4> QED
        BY <4>1, <4>2
    <3>2. CASE from + s = L + 1
      <4>1. from + s - 1 = L /\ from + s - 1 <= L /\ ~(from + s <= L) /\ ~(from + s > L + 1)
        BY <1>1, <3>2
      <4>2. L \in L .. 3 * Part + L
        BY <1>1
      <4>3. buf[L] = "0"
        BY <1>2, <4>2
      <4> QED
        BY <2>4, <4>1, <4>3
    <3>3. CASE from + s > L + 1
      <4>1. ~(from + s - 1 <= L) /\ ~(from + s <= L) /\ ~(from + s = L + 1)
        BY <1>1, <3>3
      <4> QED
        BY <2>4, <4>1
    <3> QED
      BY <1>1, <3>1, <3>2, <3>3
  <2> QED
    BY <1>1, <1>7, <2>3, <2>5 DEF EntryOf, e, L, buf
<1>8. CASE from + Part <= L
  <2>1. ends = {}
    BY <1>1, <1>6, <1>8
  <2>2. buf[from + Part] = "0" <=> from + Part = L
    BY <1>1, <1>4, <1>8
  <2> HIDE DEF end, ends
  <2>6. e.last = (ends # {} \/ buf[from + Part] = "0")
    BY <1>3
  <2>7. from + Part >= L <=> from + Part = L
    BY <1>1, <1>8
  <2>3. e.ord = ord /\ DOMAIN e.chars = 1 .. Part /\ (e.last <=> from + Part >= L)
    BY <1>3, <2>1, <2>2, <2>6, <2>7
  <2>4. \A s \in 1 .. Part : e.chars[s] = buf[K(s)]
    BY <1>3, <2>1
  <2>5. ASSUME NEW s \in 1 .. Part
        PROVE  /\ from + s <= L /\ e.chars[s] = nm[from + s]
    <3>1. from + s <= L
      BY <1>1, <1>8
    <3> QED
      BY <1>10, <2>4, <3>1
  <2> QED
    BY <1>1, <2>3, <2>5 DEF EntryOf, e, L, buf
<1> QED
  BY <1>1, <1>7, <1>8

\* How many characters of an entry are of the name, with the 0 behind it.
LEMMA EntryEnds ==
  ASSUME NEW C, Characters(C), NEW nm \in Seq(C), NEW e, NEW from \in Nat, EntryOf(e, nm, from),
         from < Len(nm)
  PROVE  UpToLast(e.chars, LAMBDA c : c # "FFFF")
           = IF from + Part <= Len(nm) THEN Part ELSE Len(nm) + 1 - from
<1> DEFINE at == {i \in DOMAIN e.chars : e.chars[i] # "FFFF"}
           end == IF from + Part <= Len(nm) THEN Part ELSE Len(nm) + 1 - from
<1>1. Part \in Nat \ {0} /\ Len(nm) \in Nat /\ DOMAIN e.chars = 1 .. Part
  BY NameAssumption DEF EntryOf
<1>2. \A i \in 1 .. Len(nm) : nm[i] # "FFFF"
  <2>1. \A i \in 1 .. Len(nm) : nm[i] \in C
    OBVIOUS
  <2> QED
    BY <2>1 DEF Characters
<1>3. ASSUME NEW s \in 1 .. Part
      PROVE  e.chars[s] # "FFFF" <=> from + s <= Len(nm) + 1
  <2>1. from + s \in Nat \ {0} /\ s \in Nat
    BY <1>1
  <2>2. CASE from + s <= Len(nm)
    <3>1. e.chars[s] = nm[from + s] /\ from + s \in 1 .. Len(nm)
      BY <1>1, <2>1, <2>2 DEF EntryOf
    <3> QED
      BY <1>1, <1>2, <2>1, <2>2, <3>1
  <2>3. CASE from + s = Len(nm) + 1
    BY <2>3 DEF EntryOf
  <2>4. CASE from + s > Len(nm) + 1
    BY <1>1, <2>1, <2>4 DEF EntryOf
  <2> QED
    BY <1>1, <2>1, <2>2, <2>3, <2>4
<1>4. at = {i \in 1 .. Part : from + i <= Len(nm) + 1}
  BY <1>1, <1>3
<1>5. end \in at /\ \A j \in at : j <= end
  BY <1>1, <1>4
<1>6. \A i \in at : i \in Nat
  BY <1>1
<1>7. UpToLast(e.chars, LAMBDA c : c # "FFFF") = IF at = {} THEN 0 ELSE CHOOSE i \in at : \A j \in at : j <= i
  BY DEF UpToLast
<1> HIDE DEF at, end
<1>8. PICK i1 : i1 = CHOOSE i \in at : \A j \in at : j <= i
  OBVIOUS
<1>9. i1 \in at /\ \A j \in at : j <= i1
  BY <1>5, <1>8
<1>10. i1 = end
  BY <1>5, <1>6, <1>9
<1> QED
  BY <1>5, <1>7, <1>8, <1>10 DEF end

\* The entries of a name, and where its characters are in them.
LEMMA EntriesOfName ==
  ASSUME NEW C, Characters(C), NEW nm \in Seq(C)
  PROVE  /\ nent(nm) \in Nat /\ DOMAIN LongEntries(nm) = 1 .. nent(nm) /\ Len(LongEntries(nm)) = nent(nm)
         /\ \A n \in 1 .. nent(nm) :
              LET from == (nent(nm) - n) * Part
              IN  /\ from \in Nat /\ from < Len(nm)
                  /\ EntryOf(LongEntries(nm)[n], nm, from)
         /\ \A i \in 1 .. Len(nm) : \E n \in 1 .. nent(nm) :
              LET from == (nent(nm) - n) * Part
              IN  from < i /\ i <= from + Part
<1> DEFINE N == nent(nm)
           L == Len(nm)
           from(n) == (N - n) * Part
<1>1. Part \in Nat \ {0} /\ L \in Nat
  BY NameAssumption
<1>2. N = (L + Part - 1) \div Part
  BY DEF nent
<1> HIDE DEF N, L
<1>3. N \in Nat
  BY <1>1, <1>2, DivBound
<1>4. N * Part < L + Part
  <2>1. L + Part - 1 \in Nat
    BY <1>1
  <2>2. Part * N <= L + Part - 1
    BY <1>1, <1>2, <2>1, DivBound
  <2> QED
    BY <1>1, <1>3, <2>2
<1>5. ASSUME NEW n \in 1 .. N
      PROVE  /\ from(n) \in Nat /\ from(n) < L
             /\ EntryOf(LongEntries(nm)[n], nm, from(n))
  <2>1. N - n \in Nat /\ N - n <= N - 1
    BY <1>3
  <2>2. from(n) \in Nat
    BY <1>1, <2>1
  <2>3. from(n) <= (N - 1) * Part /\ (N - 1) * Part = N * Part - Part
    BY <1>1, <1>3, <2>1
  <2>4. from(n) < L
    <3> HIDE DEF from
    <3>1. N * Part \in Nat
      BY <1>1, <1>3
    <3> DEFINE P == N * Part
    <3>2. P \in Nat /\ P < L + Part /\ from(n) <= P - Part
      BY <1>4, <2>3, <3>1
    <3> HIDE DEF P
    <3> QED
      BY <1>1, <2>2, <3>2
  <2> DEFINE ord == N + 1 - n
  <2>5. ord \in Nat \ {0} /\ ord - 1 = N - n
    BY <1>3
  <2>6. LongEntries(nm)[n] = put_lfn(lfnbuf(nm, <<>>), ord)
    BY DEF LongEntries, N
  <2>7. from(n) = (ord - 1) * Part
    BY <2>5
  <2> HIDE DEF ord, from
  <2>8. EntryOf(put_lfn(lfnbuf(nm, <<>>), ord), nm, from(n))
    BY <2>2, <2>4, <2>5, <2>7, EntryIsPut DEF L
  <2> QED
    BY <2>2, <2>4, <2>6, <2>8
<1>6. ASSUME NEW i \in 1 .. L
      PROVE  \E n \in 1 .. N : from(n) < i /\ i <= from(n) + Part
  <2> DEFINE o == (i - 1) \div Part
  <2>1. i - 1 \in Nat /\ i \in Nat
    BY <1>1
  <2>2. o \in Nat /\ Part * o <= i - 1
    BY <1>1, <2>1, DivBound
  <2>3. i - 1 < Part * o + Part
    <3>1. i - 1 = Part * ((i - 1) \div Part) + ((i - 1) % Part) /\ (i - 1) % Part \in 0 .. Part - 1
      BY <1>1, <2>1
    <3> QED
      BY <1>1, <2>1, <3>1
  <2> HIDE DEF o
  <2>4. o < N
    <3>1. L <= N * Part
      <4>1. N >= (L + (Part - 1)) \div Part
        <5>1. L + Part - 1 = L + (Part - 1)
          BY <1>1
        <5> QED
          BY <1>2, <1>3, <5>1
      <4> QED
        BY <1>1, <1>3, <4>1, DivUp
    <3>2. SUFFICES ASSUME o >= N PROVE FALSE
      BY <1>3, <2>2
    <3>3. N * Part <= Part * o
      BY <1>1, <1>3, <2>2, <3>2
    <3>4. N * Part \in Nat /\ Part * o \in Nat
      BY <1>1, <1>3, <2>2
    <3> QED
      BY <1>1, <2>1, <2>2, <3>1, <3>3, <3>4
  <2>5. N - o \in 1 .. N /\ from(N - o) = Part * o
    <3>1. N - (N - o) = o
      BY <1>3, <2>2
    <3>2. o * Part = Part * o
      BY <1>1, <2>2
    <3> QED
      BY <1>3, <2>2, <2>4, <3>1, <3>2
  <2>6. Part * o \in Nat
    BY <1>1, <2>2
  <2>7. Part * o < i /\ i <= Part * o + Part
    <3> DEFINE P == Part * o
    <3>1. P \in Nat /\ P <= i - 1 /\ i - 1 < P + Part
      BY <2>2, <2>3, <2>6
    <3> HIDE DEF P
    <3>2. P < i /\ i <= P + Part
      BY <1>1, <2>1, <3>1
    <3> QED
      BY <3>2 DEF P
  <2> HIDE DEF from
  <2> QED
    BY <2>5, <2>7
<1>7. DOMAIN LongEntries(nm) = 1 .. N /\ Len(LongEntries(nm)) = N
  BY <1>3 DEF LongEntries, N
<1> QED
  BY <1>3, <1>5, <1>6, <1>7 DEF N, L

\* Nothing but the 0 becomes a 0 in upper case.
LEMMA UpperEnd == \A c : Upper(c) = "0" <=> c = "0"
BY DEF Upper

\* The part of a buffer that the entry from from on of a name is compared with.
Agrees(nm, buf, from) ==
  /\ \A i \in 1 .. Len(nm) : from < i /\ i <= from + Part => Upper(nm[i]) = Upper(buf[i - 1])
  /\ from + Part >= Len(nm) => buf[Len(nm)] = "0"

\* cmp_lfn compares it.
LEMMA EntryIsCompared ==
  ASSUME NEW C, Characters(C), NEW nm \in Seq(C), NEW buf, NEW e, NEW from \in Nat,
         EntryOf(e, nm, from), from < Len(nm)
  PROVE  cmp_lfn(buf, e) <=> Agrees(nm, buf, from)
<1> DEFINE L == Len(nm)
           end == IF from + Part <= L THEN Part ELSE L + 1 - from
<1>1. Part \in Nat \ {0} /\ L \in Nat /\ end \in 1 .. Part
  BY NameAssumption
<1>2. \A i \in 1 .. L : nm[i] # "0" /\ nm[i] # "FFFF"
  <2>1. \A i \in 1 .. L : nm[i] \in C
    OBVIOUS
  <2> QED
    BY <2>1 DEF Characters
<1> DEFINE same == \A s \in 1 .. end : Upper(e.chars[s]) = Upper(buf[from + s - 1])
           long == e.last /\ e.chars[Part] \notin {"0", "FFFF"} /\ buf[from + Part] # "0"
<1>3. cmp_lfn(buf, e) <=> same /\ ~long
  <2>1. (e.ord - 1) * Part = from
    BY DEF EntryOf
  <2>2. UpToLast(e.chars, LAMBDA c : c # "FFFF") = end
    BY EntryEnds
  <2> HIDE DEF end
  <2> QED
    BY <2>1, <2>2 DEF cmp_lfn
<1>4. /\ \A s \in 1 .. Part :
           /\ from + s <= L => e.chars[s] = nm[from + s]
           /\ from + s = L + 1 => e.chars[s] = "0"
      /\ e.last <=> from + Part >= L
  BY DEF EntryOf
<1> DEFINE chars == \A i \in 1 .. L : from < i /\ i <= from + Part => Upper(nm[i]) = Upper(buf[i - 1])
<1>5. same => chars
  <2> SUFFICES ASSUME same, NEW i \in 1 .. L, from < i, i <= from + Part
               PROVE  Upper(nm[i]) = Upper(buf[i - 1])
    OBVIOUS
  <2> DEFINE s == i - from
  <2>1. s \in 1 .. end /\ s \in 1 .. Part /\ from + s = i /\ from + s - 1 = i - 1
    BY <1>1
  <2>2. e.chars[s] = nm[i]
    BY <1>1, <1>4, <2>1
  <2>3. Upper(e.chars[s]) = Upper(buf[from + s - 1])
    BY <2>1
  <2> HIDE DEF s
  <2> QED
    BY <2>1, <2>2, <2>3
<1>6. chars => \A s \in 1 .. end : from + s <= L => Upper(e.chars[s]) = Upper(buf[from + s - 1])
  <2> SUFFICES ASSUME chars, NEW s \in 1 .. end, from + s <= L
               PROVE  Upper(e.chars[s]) = Upper(buf[from + s - 1])
    OBVIOUS
  <2> DEFINE i == from + s
  <2>1. s \in 1 .. Part /\ i \in 1 .. L /\ from < i /\ i <= from + Part
    BY <1>1
  <2>2. e.chars[s] = nm[i]
    BY <1>4, <2>1
  <2>3. Upper(nm[i]) = Upper(buf[i - 1])
    BY <2>1
  <2> QED
    BY <2>2, <2>3
<1>7. CASE from + Part < L
  <2>1. ~long
    BY <1>1, <1>4, <1>7
  <2>2. \A s \in 1 .. end : from + s <= L
    BY <1>1, <1>7
  <2>3. ~(from + Part >= L)
    BY <1>1, <1>7
  <2> HIDE DEF long, end
  <2> QED
    BY <1>3, <1>5, <1>6, <2>1, <2>2, <2>3 DEF Agrees
<1>8. CASE from + Part = L
  <2>1. e.chars[Part] = nm[L] /\ e.last
    BY <1>1, <1>4, <1>8
  <2>2. long <=> buf[L] # "0"
    BY <1>1, <1>2, <1>8, <2>1
  <2>3. \A s \in 1 .. end : from + s <= L
    BY <1>1, <1>8
  <2>4. from + Part >= L
    BY <1>1, <1>8
  <2> HIDE DEF long, end
  <2> QED
    BY <1>3, <1>5, <1>6, <2>2, <2>3, <2>4 DEF Agrees
<1>9. CASE from + Part > L
  <2> DEFINE s0 == L + 1 - from
  <2>1. end = s0 /\ s0 \in 1 .. Part /\ s0 \in 1 .. end /\ from + s0 = L + 1 /\ from + s0 - 1 = L
    BY <1>1, <1>9
  <2>2. e.chars[s0] = "0"
    BY <1>4, <2>1
  <2>3. ~long
    <3>1. Part \in 1 .. Part /\ (from + Part = L + 1 \/ from + Part > L + 1)
      BY <1>1, <1>9
    <3>2. \A s \in 1 .. Part : from + s > L + 1 => e.chars[s] = "FFFF"
      BY DEF EntryOf
    <3>3. e.chars[Part] \in {"0", "FFFF"}
      BY <1>4, <3>1, <3>2
    <3> QED
      BY <3>3
  <2>4. same => buf[L] = "0"
    <3>1. same => Upper(e.chars[s0]) = Upper(buf[L])
      BY <2>1
    <3> HIDE DEF s0, same
    <3> QED
      BY <2>2, <3>1, UpperEnd
  <2>5. chars /\ buf[L] = "0" => same
    <3> SUFFICES ASSUME chars, buf[L] = "0", NEW s \in 1 .. end
                 PROVE  Upper(e.chars[s]) = Upper(buf[from + s - 1])
      OBVIOUS
    <3>1. CASE from + s <= L
      BY <1>6, <3>1
    <3>2. CASE s = s0
      BY <2>1, <2>2, <3>2
    <3>3. from + s <= L \/ s = s0
      BY <1>1, <2>1
    <3> QED
      BY <3>1, <3>2, <3>3
  <2>6. from + Part >= L
    BY <1>1, <1>9
  <2> HIDE DEF long, end
  <2> QED
    BY <1>3, <1>5, <2>3, <2>4, <2>5, <2>6 DEF Agrees
<1>10. from + Part < L \/ from + Part = L \/ from + Part > L
  BY <1>1
<1> QED
  BY <1>7, <1>8, <1>9, <1>10

\* A long name matches the entries of another one exactly when both are the same
\* up to case, whatever earlier names have left behind it in the buffer
\* (cmp_lfn, as dir_find uses it).
THEOREM LongNamesMatch ==
  ASSUME NEW C, Characters(C), NEW x \in Seq(C), x # <<>>, NEW y \in Seq(C), NEW old \in Seq(C)
  PROVE  Matches(LongEntries(x), lfnbuf(y, old)) <=> UpperName(x) = UpperName(y)
<1> DEFINE L == Len(x)
           M == Len(y)
           N == nent(x)
           es == LongEntries(x)
           buf == lfnbuf(y, old)
           from(n) == (N - n) * Part
           equal == L = M /\ \A i \in 1 .. L : Upper(x[i]) = Upper(y[i])
<1>1. Part \in Nat \ {0} /\ L \in Nat \ {0} /\ M \in Nat
  BY NameAssumption
<1>2. N \in Nat /\ DOMAIN es = 1 .. N
  BY EntriesOfName
<1>3. \A n \in 1 .. N : from(n) \in Nat /\ from(n) < L /\ EntryOf(es[n], x, from(n))
  BY EntriesOfName
<1>4. \A i \in 1 .. L : \E n \in 1 .. N : from(n) < i /\ i <= from(n) + Part
  BY EntriesOfName
<1>5. /\ \A i \in 0 .. M - 1 : buf[i] = y[i + 1] /\ y[i + 1] # "0"
      /\ buf[M] = "0"
  BY BufferHolds
<1>6. \A i \in 1 .. L : x[i] # "0"
  <2>1. \A i \in 1 .. L : x[i] \in C
    OBVIOUS
  <2> QED
    BY <2>1 DEF Characters
<1>7. UpperName(x) = UpperName(y) <=> equal
  <2> DEFINE ux == UpperName(x)
             uy == UpperName(y)
  <2>1. ux = [i \in 1 .. L |-> Upper(x[i])] /\ uy = [i \in 1 .. M |-> Upper(y[i])]
    BY DEF UpperName
  <2>2. ASSUME ux = uy
        PROVE  equal
    <3>1. 1 .. L = 1 .. M
      <4> HIDE DEF L, M
      <4>1. DOMAIN ux = 1 .. L /\ DOMAIN uy = 1 .. M
        BY <2>1
      <4> HIDE DEF ux, uy
      <4> QED
        BY <2>2, <4>1
    <3>2. L = M
      BY <1>1, <3>1
    <3>3. \A i \in 1 .. L : ux[i] = Upper(x[i]) /\ uy[i] = Upper(y[i])
      BY <2>1, <3>2
    <3> HIDE DEF ux, uy
    <3> QED
      BY <2>2, <3>2, <3>3
  <2>3. equal => ux = uy
    BY <2>1
  <2> QED
    BY <2>2, <2>3
<1>8. Matches(es, buf) <=> \A n \in 1 .. N : Agrees(x, buf, from(n))
  <2>1. \A n \in 1 .. N : cmp_lfn(buf, es[n]) <=> Agrees(x, buf, from(n))
    <3> SUFFICES ASSUME NEW n \in 1 .. N
                 PROVE  cmp_lfn(buf, es[n]) <=> Agrees(x, buf, from(n))
      OBVIOUS
    <3> DEFINE f == from(n)
               e == es[n]
    <3>1. f \in Nat /\ f < Len(x) /\ EntryOf(e, x, f)
      BY <1>3
    <3> HIDE DEF f, e, buf
    <3>2. cmp_lfn(buf, e) <=> Agrees(x, buf, f)
      BY <3>1, EntryIsCompared
    <3> QED
      BY <3>2 DEF f, e
  <2> HIDE DEF es, buf, from
  <2> QED
    BY <1>2, <2>1 DEF Matches
<1> HIDE DEF es, buf
<1>9. ASSUME \A n \in 1 .. N : Agrees(x, buf, from(n))
      PROVE  equal
  <2>1. ASSUME NEW i \in 1 .. L
        PROVE  Upper(x[i]) = Upper(buf[i - 1])
    <3>1. PICK n \in 1 .. N : from(n) < i /\ i <= from(n) + Part
      BY <1>4
    <3> QED
      BY <1>9, <3>1 DEF Agrees
  <2>2. buf[L] = "0"
    <3>1. PICK n \in 1 .. N : from(n) < L /\ L <= from(n) + Part
      BY <1>1, <1>4
    <3>2. from(n) + Part >= L
      BY <1>1, <1>3, <3>1
    <3> QED
      BY <1>9, <3>2 DEF Agrees
  <2>3. \A i \in 1 .. L : buf[i - 1] # "0"
    BY <1>6, <2>1, UpperEnd
  <2>4. ~(M < L)
    <3>1. SUFFICES ASSUME M < L PROVE FALSE
      OBVIOUS
    <3>2. M + 1 \in 1 .. L /\ (M + 1) - 1 = M
      BY <1>1, <3>1
    <3>3. buf[(M + 1) - 1] # "0"
      BY <2>3, <3>2
    <3> QED
      BY <1>5, <3>2, <3>3
  <2>5. ~(L < M)
    BY <1>1, <1>5, <2>2
  <2>6. L = M
    BY <1>1, <2>4, <2>5
  <2>7. \A i \in 1 .. L : buf[i - 1] = y[i]
    <3> SUFFICES ASSUME NEW i \in 1 .. L PROVE buf[i - 1] = y[i]
      OBVIOUS
    <3>1. i - 1 \in 0 .. M - 1 /\ (i - 1) + 1 = i
      BY <1>1, <2>6
    <3>2. buf[i - 1] = y[(i - 1) + 1]
      BY <1>5, <3>1
    <3> QED
      BY <3>1, <3>2
  <2> QED
    BY <2>1, <2>6, <2>7
<1>10. ASSUME equal
       PROVE  \A n \in 1 .. N : Agrees(x, buf, from(n))
  <2>1. buf[L] = "0"
    BY <1>5, <1>10
  <2>2. ASSUME NEW i \in 1 .. L
        PROVE  Upper(x[i]) = Upper(buf[i - 1])
    <3>1. i - 1 \in 0 .. M - 1 /\ (i - 1) + 1 = i
      BY <1>1, <1>10
    <3>2. buf[i - 1] = y[(i - 1) + 1]
      BY <1>5, <3>1
    <3> QED
      BY <1>10, <3>1, <3>2
  <2> QED
    BY <2>1, <2>2 DEF Agrees
<1> HIDE DEF equal
<1> QED
  BY <1>7, <1>8, <1>9, <1>10 DEF es, buf

\* From place from on, the buffer holds the name and a 0 behind it.
Placed(buf, nm, from) ==
  /\ \A i \in 0 .. Len(nm) - 1 : from <= i => buf[i] = nm[i + 1]
  /\ buf[Len(nm)] = "0"

\* pick_lfn puts the part of an entry in front of those that are there.
LEMMA EntryIsPicked ==
  ASSUME NEW C, Characters(C), NEW nm \in Seq(C), NEW e, NEW from \in Nat, EntryOf(e, nm, from),
         from < Len(nm), NEW m \in Nat, m >= Len(nm), NEW D, D = C \cup {"0", "FFFF"},
         NEW buf \in [0 .. m -> D], from + Part < Len(nm) => Placed(buf, nm, from + Part)
  PROVE  pick_lfn(buf, e) \in [0 .. m -> D] /\ Placed(pick_lfn(buf, e), nm, from)
<1> DEFINE L == Len(nm)
           end == IF from + Part <= L THEN Part ELSE L + 1 - from
           picked == [i \in 0 .. m |-> IF i \in from .. from + end - 1 THEN e.chars[i - from + 1] ELSE buf[i]]
           b == pick_lfn(buf, e)
           ends == e.last /\ e.chars[Part] \notin {"0", "FFFF"}
<1>1. Part \in Nat \ {0} /\ L \in Nat /\ end \in 1 .. Part
  BY NameAssumption
<1>2. \A i \in 1 .. L : nm[i] \in C /\ nm[i] # "0" /\ nm[i] # "FFFF"
  <2>1. \A i \in 1 .. L : nm[i] \in C
    OBVIOUS
  <2> QED
    BY <2>1 DEF Characters
<1>3. b = IF ends THEN [picked EXCEPT ![from + Part] = "0"] ELSE picked
  <2>1. (e.ord - 1) * Part = from
    BY DEF EntryOf
  <2>2. UpToLast(e.chars, LAMBDA c : c # "FFFF") = end
    BY EntryEnds
  <2>3. DOMAIN buf = 0 .. m
    OBVIOUS
  <2> HIDE DEF end
  <2> QED
    BY <2>1, <2>2, <2>3 DEF pick_lfn
<1>4. \A s \in 1 .. Part :
        /\ from + s <= L => e.chars[s] = nm[from + s]
        /\ from + s = L + 1 => e.chars[s] = "0"
        /\ from + s > L + 1 => e.chars[s] = "FFFF"
  BY DEF EntryOf
<1>5. e.last <=> from + Part >= L
  BY DEF EntryOf
<1>6. \A s \in 1 .. Part : e.chars[s] \in D
  <2> SUFFICES ASSUME NEW s \in 1 .. Part PROVE e.chars[s] \in D
    OBVIOUS
  <2>1. from + s \in Nat \ {0}
    BY <1>1
  <2>2. CASE from + s <= L
    <3>1. e.chars[s] = nm[from + s] /\ from + s \in 1 .. L
      BY <1>1, <1>4, <2>1, <2>2
    <3> QED
      BY <1>2, <3>1
  <2>3. CASE from + s > L
    <3>1. from + s = L + 1 \/ from + s > L + 1
      BY <1>1, <2>1, <2>3
    <3> QED
      BY <1>4, <3>1
  <2> QED
    BY <1>1, <2>1, <2>2, <2>3
<1>7. picked \in [0 .. m -> D]
  <2>1. ASSUME NEW i \in 0 .. m, i \in from .. from + end - 1
        PROVE  e.chars[i - from + 1] \in D
    <3>1. i - from + 1 \in 1 .. Part
      BY <1>1, <2>1
    <3> QED
      BY <1>6, <3>1
  <2> HIDE DEF end
  <2> QED
    BY <2>1
<1>8. b \in [0 .. m -> D]
  <2> HIDE DEF picked, ends, b
  <2> QED
    BY <1>3, <1>7
<1>9. \A i \in from .. from + end - 1 : i < L => i <= m /\ picked[i] = nm[i + 1]
  <2> SUFFICES ASSUME NEW i \in from .. from + end - 1, i < L
               PROVE  i <= m /\ picked[i] = nm[i + 1]
    OBVIOUS
  <2> DEFINE s == i - from + 1
  <2>1. s \in 1 .. Part /\ from + s = i + 1 /\ from + s <= L /\ i \in 0 .. m
    BY <1>1
  <2>2. picked[i] = e.chars[s]
    BY <2>1
  <2> HIDE DEF s, picked
  <2> QED
    BY <1>4, <2>1, <2>2
<1>10. CASE from + Part < L
  <2>1. ~ends /\ end = Part
    BY <1>1, <1>5, <1>10
  <2>2. b = picked
    BY <1>3, <2>1
  <2>3. Placed(buf, nm, from + Part)
    BY <1>10
  <2>4. picked[L] = "0"
    <3>1. L \in 0 .. m /\ ~(L \in from .. from + end - 1)
      BY <1>1, <1>10
    <3>2. picked[L] = buf[L]
      BY <3>1
    <3> QED
      BY <2>3, <3>2 DEF Placed
  <2>5. ASSUME NEW i \in 0 .. L - 1, from <= i
        PROVE  picked[i] = nm[i + 1]
    <3>1. CASE i <= from + Part - 1
      <4>1. i \in from .. from + end - 1 /\ i < L
        BY <1>1, <2>1, <2>5, <3>1
      <4> QED
        BY <1>9, <4>1
    <3>2. CASE i >= from + Part
      <4>1. i \in 0 .. m /\ ~(i \in from .. from + end - 1) /\ from + Part <= i
        BY <1>1, <2>1, <2>5, <3>2
      <4>2. picked[i] = buf[i]
        BY <4>1
      <4>3. buf[i] = nm[i + 1]
        BY <2>3, <4>1 DEF Placed
      <4> QED
        BY <4>2, <4>3
    <3> QED
      BY <1>1, <3>1, <3>2
  <2> HIDE DEF picked, b
  <2> QED
    BY <1>8, <2>2, <2>4, <2>5 DEF Placed
<1>11. CASE from + Part = L
  <2>1. ends /\ end = Part
    <3>1. Part \in 1 .. Part /\ L \in 1 .. L
      BY <1>1, <1>11
    <3>2. e.chars[Part] = nm[L]
      BY <1>1, <1>4, <1>11, <3>1
    <3> QED
      BY <1>1, <1>2, <1>5, <1>11, <3>1, <3>2
  <2>2. b = [picked EXCEPT ![L] = "0"]
    BY <1>3, <1>11, <2>1
  <2>3. L \in 0 .. m /\ DOMAIN picked = 0 .. m
    BY <1>1
  <2>4. b[L] = "0"
    <3> HIDE DEF picked, b
    <3> QED
      BY <2>2, <2>3
  <2>5. ASSUME NEW i \in 0 .. L - 1, from <= i
        PROVE  b[i] = nm[i + 1]
    <3>1. i \in from .. from + end - 1 /\ i < L /\ i # L
      BY <1>1, <1>11, <2>1, <2>5
    <3>2. i \in 0 .. m
      BY <1>1
    <3>3. picked[i] = nm[i + 1]
      BY <1>9, <3>1
    <3> HIDE DEF picked, b
    <3> QED
      BY <2>2, <2>3, <3>1, <3>2, <3>3
  <2> HIDE DEF picked
  <2>6. b \in [0 .. m -> D] /\ Placed(b, nm, from)
    BY <1>8, <2>4, <2>5 DEF Placed
  <2> HIDE DEF b
  <2> QED
    BY <2>6 DEF b
<1>12. CASE from + Part > L
  <2>1. ~ends /\ end = L + 1 - from
    <3>1. Part \in 1 .. Part /\ (from + Part = L + 1 \/ from + Part > L + 1) /\ ~(from + Part <= L)
      BY <1>1, <1>12
    <3>2. e.chars[Part] \in {"0", "FFFF"}
      BY <1>4, <3>1
    <3> QED
      BY <3>1, <3>2
  <2>2. b = picked
    BY <1>3, <2>1
  <2>3. picked[L] = "0"
    <3> DEFINE s == L - from + 1
    <3>1. L \in 0 .. m /\ L \in from .. from + end - 1 /\ s \in 1 .. Part /\ from + s = L + 1
      BY <1>1, <1>12, <2>1
    <3>2. picked[L] = e.chars[s]
      BY <3>1
    <3> HIDE DEF s, picked
    <3> QED
      BY <1>4, <3>1, <3>2
  <2>4. ASSUME NEW i \in 0 .. L - 1, from <= i
        PROVE  picked[i] = nm[i + 1]
    <3>1. i \in from .. from + end - 1 /\ i < L
      BY <1>1, <2>1, <2>4
    <3> HIDE DEF picked, end
    <3> QED
      BY <1>9, <3>1
  <2> HIDE DEF picked, b
  <2> QED
    BY <1>8, <2>2, <2>3, <2>4 DEF Placed
<1>13. from + Part < L \/ from + Part = L \/ from + Part > L
  BY <1>1
<1> QED
  BY <1>10, <1>11, <1>12, <1>13

\* A name is read from its entries as it was written, whatever was in the
\* buffer, if that has room for it and a 0 (pick_lfn, as dir_read uses it).
THEOREM LongNamesReturn ==
  ASSUME NEW C, Characters(C), NEW nm \in Seq(C), nm # <<>>, NEW m \in Nat, m >= Len(nm),
         NEW buf0 \in [0 .. m -> C \cup {"0", "FFFF"}]
  PROVE  Picked(LongEntries(nm), buf0) = nm
<1> DEFINE L == Len(nm)
           N == nent(nm)
           es == LongEntries(nm)
           from(n) == (N - n) * Part
           D == C \cup {"0", "FFFF"}
           S == [0 .. m -> D]
           Is(f) == f = [n \in 0 .. N |-> IF n = 0 THEN buf0 ELSE pick_lfn(f[n - 1], es[n])]
           g == [n \in Nat |-> [b \in S |-> IF n \in 1 .. N /\ pick_lfn(b, es[n]) \in S
                                            THEN pick_lfn(b, es[n]) ELSE b]]
<1>1. Part \in Nat \ {0} /\ L \in Nat \ {0}
  BY NameAssumption
<1>2. N \in Nat /\ Len(es) = N
  BY EntriesOfName
<1>3. \A n \in 1 .. N : from(n) \in Nat /\ from(n) < L /\ EntryOf(es[n], nm, from(n))
  BY EntriesOfName
<1>4. \A i \in 1 .. L : \E n \in 1 .. N : from(n) < i /\ i <= from(n) + Part
  BY EntriesOfName
<1>5. g \in [Nat -> [S -> S]]
  <2> HIDE DEF S, es
  <2> QED
    OBVIOUS
<1>6. ASSUME NEW n \in 1 .. N, NEW b \in S, from(n) + Part < L => Placed(b, nm, from(n) + Part)
      PROVE  pick_lfn(b, es[n]) \in S /\ Placed(pick_lfn(b, es[n]), nm, from(n))
  <2> DEFINE f == from(n)
             e == es[n]
  <2>1. f \in Nat /\ f < Len(nm) /\ EntryOf(e, nm, f)
    BY <1>3
  <2>2. f + Part < Len(nm) => Placed(b, nm, f + Part)
    BY <1>6
  <2> HIDE DEF f, e
  <2>3. pick_lfn(b, e) \in [0 .. m -> D] /\ Placed(pick_lfn(b, e), nm, f)
    <3> HIDE DEF D
    <3>1. D = C \cup {"0", "FFFF"} /\ b \in [0 .. m -> D]
      BY DEF D
    <3> QED
      BY <2>1, <2>2, <3>1, EntryIsPicked
  <2> QED
    BY <2>3 DEF f, e
\* The buffer after every entry, without a word on what is in it.
<1>7. PICK h \in [0 .. N -> S] : Steps(h, N, buf0, g)
  <2> HIDE DEF g, S
  <2>1. buf0 \in S
    BY DEF S
  <2> QED
    BY <1>2, <1>5, <2>1, StepsExist
<1>8. h[0] = buf0 /\ \A n \in 1 .. N : h[n] = g[n][h[n - 1]]
  <2> HIDE DEF g, S
  <2>1. 0 \in 0 .. N /\ \A n \in 1 .. N : n \in 0 .. N /\ n # 0
    BY <1>2
  <2>2. \A n \in 0 .. N : h[n] = IF n = 0 THEN buf0 ELSE g[n][h[n - 1]]
    BY <1>7 DEF Steps
  <2> QED
    BY <2>1, <2>2
<1> DEFINE T == {n \in 0 .. N : n > 0 => /\ h[n] = pick_lfn(h[n - 1], es[n])
                                        /\ Placed(h[n], nm, from(n))}
<1>9. \A n \in 0 .. N : n \in T
  <2>1. 0 \in T
    BY <1>2
  <2>2. ASSUME NEW k \in 0 .. N - 1, k \in T
        PROVE  k + 1 \in T
    <3> DEFINE n == k + 1
               b == h[k]
    <3>1. n \in 1 .. N /\ n - 1 = k /\ k \in 0 .. N
      BY <1>2
    <3>2. b \in S
      BY <1>7, <3>1
    <3>3. from(n) + Part < L => Placed(b, nm, from(n) + Part)
      <4>1. CASE k = 0
        <5>1. from(n) + Part = N * Part
          BY <1>1, <1>2, <4>1
        <5>2. L <= N * Part
          <6>1. PICK p \in 1 .. N : from(p) < L /\ L <= from(p) + Part
            BY <1>1, <1>4
          <6>2. from(p) + Part <= N * Part
            <7> DEFINE q == N - p
            <7>1. q \in Nat /\ q + 1 \in Nat /\ q + 1 <= N
              BY <1>2
            <7> HIDE DEF q
            <7>2. (q + 1) * Part = q * Part + Part /\ (q + 1) * Part = Part * (q + 1) /\ N * Part = Part * N
              BY <1>1, <1>2, <7>1
            <7>3. Part * (q + 1) <= Part * N
              BY <1>1, <1>2, <7>1, ProductGrows
            <7>4. from(p) + Part = q * Part + Part
              BY DEF q
            <7> QED
              BY <7>2, <7>3, <7>4
          <6>3. from(p) \in Nat /\ N * Part \in Nat
            BY <1>1, <1>2, <1>3
          <6> HIDE DEF from
          <6> QED
            BY <1>1, <6>1, <6>2, <6>3
        <5>3. N * Part \in Nat
          BY <1>1, <1>2
        <5> QED
          BY <1>1, <5>1, <5>2, <5>3
      <4>2. CASE k > 0
        <5>1. from(n) + Part = from(k)
          BY <1>1, <1>2, <3>1
        <5>2. Placed(h[k], nm, from(k))
          BY <2>2, <4>2
        <5> QED
          BY <5>1, <5>2
      <4> QED
        BY <4>1, <4>2
    <3>4. pick_lfn(b, es[n]) \in S /\ Placed(pick_lfn(b, es[n]), nm, from(n))
      <4> HIDE DEF from, es, b, n, S
      <4> QED
        BY <1>6, <3>1, <3>2, <3>3
    <3>5. h[n] = g[n][b]
      <4> HIDE DEF g
      <4> QED
        BY <1>8, <3>1
    <3>6. g[n][b] = pick_lfn(b, es[n])
      <4> HIDE DEF S, es, b
      <4>1. n \in Nat
        BY <3>1
      <4> HIDE DEF n
      <4> QED
        BY <3>1, <3>2, <3>4, <4>1
    <3>7. h[n] = pick_lfn(h[n - 1], es[n]) /\ Placed(h[n], nm, from(n))
      <4> HIDE DEF g, S, es, from
      <4> QED
        BY <3>1, <3>4, <3>5, <3>6
    <3> HIDE DEF from, es, g, S
    <3> QED
      BY <3>1, <3>7
  <2> HIDE DEF T
  <2> QED
    BY <1>2, <2>1, <2>2, ForAllBelow
<1>10. Is(h)
  <2>1. \A n \in 0 .. N : h[n] = IF n = 0 THEN buf0 ELSE pick_lfn(h[n - 1], es[n])
    <3> HIDE DEF es, from, g, S
    <3> QED
      BY <1>8, <1>9
  <2>2. h = [n \in 0 .. N |-> h[n]]
    <3> HIDE DEF S
    <3> QED
      BY <1>7
  <2> HIDE DEF es, S
  <2> QED
    BY <2>1, <2>2
<1> DEFINE F == CHOOSE f : Is(f)
<1>11. Is(F)
  <2> HIDE DEF Is
  <2> QED
    BY <1>10
\* There is one such function only.
<1>12. \A n \in 0 .. N : F[n] = h[n]
  <2> DEFINE Same1 == {n \in 0 .. N : F[n] = h[n]}
  <2> HIDE DEF F
  <2>1. F = [n \in 0 .. N |-> IF n = 0 THEN buf0 ELSE pick_lfn(F[n - 1], es[n])]
    BY <1>11
  <2>2. h = [n \in 0 .. N |-> IF n = 0 THEN buf0 ELSE pick_lfn(h[n - 1], es[n])]
    BY <1>10
  <2>3. 0 \in Same1
    <3> HIDE DEF es
    <3> QED
      BY <1>2, <2>1, <2>2
  <2>4. \A k \in 0 .. N - 1 : k \in Same1 => k + 1 \in Same1
    <3> HIDE DEF es
    <3> SUFFICES ASSUME NEW k \in 0 .. N - 1, F[k] = h[k]
                 PROVE  F[k + 1] = h[k + 1] /\ k + 1 \in 0 .. N
      OBVIOUS
    <3>1. k + 1 \in 0 .. N /\ k + 1 # 0 /\ (k + 1) - 1 = k
      BY <1>2
    <3>2. F[k + 1] = pick_lfn(F[(k + 1) - 1], es[k + 1])
      BY <2>1, <3>1
    <3>3. h[k + 1] = pick_lfn(h[(k + 1) - 1], es[k + 1])
      BY <2>2, <3>1
    <3> QED
      BY <3>1, <3>2, <3>3
  <2> HIDE DEF Same1
  <2>5. \A k \in 0 .. N : k \in Same1
    BY <1>2, <2>3, <2>4, ForAllBelow
  <2> QED
    BY <2>5 DEF Same1
<1>13. Picked(es, buf0) = NameIn(F[N])
  <2>1. Picked(es, buf0) = NameIn((CHOOSE f : f = [n \in 0 .. Len(es) |->
                                    IF n = 0 THEN buf0 ELSE pick_lfn(f[n - 1], es[n])])[Len(es)])
    <3> HIDE DEF es
    <3> QED
      BY DEF Picked
  <2> HIDE DEF es
  <2> QED
    BY <1>2, <2>1 DEF F
<1> DEFINE buf == h[N]
<1>14. buf \in S /\ Placed(buf, nm, 0)
  <2>1. N \in 1 .. N
    <3>1. PICK p \in 1 .. N : TRUE
      BY <1>1, <1>4
    <3> QED
      BY <1>2, <3>1
  <2>2. from(N) = 0
    <3>1. N - N = 0 /\ 0 * Part = 0
      BY <1>1, <1>2
    <3> QED
      BY <3>1
  <2> HIDE DEF S, es, from
  <2> QED
    BY <1>2, <1>7, <1>9, <2>1, <2>2
<1>15. NameIn(buf) = nm
  <2> DEFINE Final(i) == i \in DOMAIN buf /\ buf[i] = "0" /\ \A j \in 0 .. i - 1 : buf[j] # "0"
             end == CHOOSE i \in DOMAIN buf : buf[i] = "0" /\ \A j \in 0 .. i - 1 : buf[j] # "0"
  <2> HIDE DEF buf
  <2>1. DOMAIN buf = 0 .. m
    BY <1>14
  <2>2. \A i \in 0 .. L - 1 : buf[i] = nm[i + 1]
    BY <1>1, <1>14 DEF Placed
  <2>3. \A i \in 0 .. L - 1 : buf[i] # "0"
    <3>1. \A i \in 0 .. L - 1 : nm[i + 1] \in C
      OBVIOUS
    <3> QED
      BY <2>2, <3>1 DEF Characters
  <2>4. Final(L)
    BY <1>1, <1>14, <2>1, <2>3 DEF Placed
  <2>5. Final(end)
    BY <2>4
  <2>6. end = L
    <3> HIDE DEF end
    <3>1. end \in Nat /\ buf[end] = "0" /\ \A j \in 0 .. end - 1 : buf[j] # "0"
      BY <2>1, <2>5
    <3>2. buf[L] = "0"
      BY <2>4
    <3>3. ~(end < L) /\ ~(L < end)
      BY <1>1, <2>3, <3>1, <3>2
    <3> QED
      BY <1>1, <3>1, <3>3
  <2>7. NameIn(buf) = [i \in 1 .. end |-> buf[i - 1]]
    BY DEF NameIn
  <2> HIDE DEF end, Final
  <2>8. \A i \in 1 .. L : buf[i - 1] = nm[i]
    <3> SUFFICES ASSUME NEW i \in 1 .. L PROVE buf[i - 1] = nm[i]
      OBVIOUS
    <3>1. i - 1 \in 0 .. L - 1 /\ (i - 1) + 1 = i
      BY <1>1
    <3> QED
      BY <2>2, <3>1
  <2>9. NameIn(buf) = [i \in 1 .. L |-> nm[i]]
    BY <2>6, <2>7, <2>8
  <2> QED
    BY <2>9
<1>16. F[N] = buf
  <2>1. N \in 0 .. N
    BY <1>2
  <2> HIDE DEF F
  <2> QED
    BY <1>12, <2>1
<1> HIDE DEF es, F, buf
<1> QED
  BY <1>13, <1>15, <1>16 DEF es

-----------------------------------------------------------------------------
(***************************************************************************)
(* FatNames: no 8.3 form ends in half a letter.                            *)
(***************************************************************************)
\* WellFormed, one byte at a time.
InField(fn, lo, hi) ==
  \A k \in lo .. hi - 1 : /\ fn[k] = "K1" => k + 1 < hi /\ fn[k + 1] = "K2"
                          /\ fn[k] = "K2" => k > lo /\ fn[k - 1] = "K1"
LEMMA FieldsWellFormed == \A fn : WellFormed(fn) <=> InField(fn, 0, Body) /\ InField(fn, Body, Body + Ext)
BY DEF WellFormed, InField

\* Where the number may begin: at i at the latest, and at no second byte.
LetterStarts(fn, i, at) == at \in 0 .. i /\ fn[at] # "K2"

\* The loop of number_at, from its place j on.
Place(fn, i, f, j) ==
  IF j = i \/ fn[j] = " " THEN j
  ELSE IF dbc_1st(fn[j]) THEN IF j = i - 1 THEN j ELSE f[j + 2]
  ELSE f[j + 1]

\* It ends at the start of a letter.
LEMMA NumberStartsLetter ==
  ASSUME NEW fn, InField(fn, 0, Body), NEW i \in 0 .. Body - 1
  PROVE  LetterStarts(fn, i, number_at(fn, i))
<1> DEFINE Is(f) == f = [j \in 0 .. i |-> Place(fn, i, f, j)]
           Good(f, n) == \A j \in i - n .. i : f[j] = Place(fn, i, f, j)
           T == {n \in 0 .. i : \E f : Good(f, n)}
<1>1. i \in Nat /\ Body \in Nat /\ i < Body
  BY NameAssumption
<1>2. 0 \in T
  <2> DEFINE f0 == [j \in {i} |-> i]
  <2>1. Good(f0, 0)
    BY <1>1 DEF Place
  <2> HIDE DEF Good, f0
  <2>2. \E f : Good(f, 0)
    BY <2>1
  <2> QED
    BY <1>1, <2>2
<1>3. \A n \in 0 .. i - 1 : n \in T => n + 1 \in T
  <2> SUFFICES ASSUME NEW n \in 0 .. i - 1, NEW f, Good(f, n)
               PROVE  \E f1 : Good(f1, n + 1)
    BY <1>1
  <2> DEFINE j0 == i - n - 1
             f1 == [j \in 0 .. i |-> IF j = j0 THEN Place(fn, i, f, j0) ELSE f[j]]
  <2>1. j0 \in 0 .. i - 1 /\ i - (n + 1) = j0 /\ i - n = j0 + 1
    BY <1>1
  <2>2. ASSUME NEW j \in j0 .. i
        PROVE  f1[j] = Place(fn, i, f1, j)
    <3>1. Place(fn, i, f1, j) = Place(fn, i, f, j)
      <4>1. CASE j = i \/ fn[j] = " "
        BY <4>1 DEF Place
      <4>2. CASE ~(j = i \/ fn[j] = " ")
        <5>1. j + 1 \in 0 .. i /\ j + 1 # j0 /\ (j # i - 1 => j + 2 \in 0 .. i /\ j + 2 # j0)
          <6>1. j # i
            BY <4>2
          <6>2. j \in Nat /\ j >= j0 /\ j <= i
            BY <1>1, <2>1
          <6> QED
            BY <1>1, <2>1, <6>1, <6>2
        <5>2. f1[j + 1] = f[j + 1] /\ (j # i - 1 => f1[j + 2] = f[j + 2])
          BY <5>1
        <5> HIDE DEF f1
        <5> QED
          BY <5>2 DEF Place
      <4> QED
        BY <4>1, <4>2
    <3>2. CASE j = j0
      BY <2>1, <3>1, <3>2
    <3>3. CASE j # j0
      <4>1. j \in i - n .. i /\ j \in 0 .. i
        BY <1>1, <2>1, <3>3
      <4>2. f[j] = Place(fn, i, f, j)
        BY <4>1
      <4> QED
        BY <3>1, <3>3, <4>1, <4>2
    <3> QED
      BY <3>2, <3>3
  <2> HIDE DEF f1
  <2>3. Good(f1, n + 1)
    BY <2>1, <2>2
  <2> HIDE DEF Good
  <2> QED
    BY <2>3
<1>4. i \in T
  <2> HIDE DEF T
  <2>1. \A n \in 0 .. i : n \in T
    BY <1>1, <1>2, <1>3, ForAllBelow
  <2> QED
    BY <1>1, <2>1
<1>5. PICK f : Good(f, i)
  BY <1>4
<1> DEFINE h == [j \in 0 .. i |-> f[j]]
<1>6. Is(h)
  <2>1. ASSUME NEW j \in 0 .. i
        PROVE  h[j] = Place(fn, i, h, j)
    <3>1. f[j] = Place(fn, i, f, j)
      BY <1>1, <1>5
    <3>2. CASE j = i \/ fn[j] = " "
      BY <3>1, <3>2 DEF Place
    <3>3. CASE ~(j = i \/ fn[j] = " ")
      <4>1. j + 1 \in 0 .. i /\ (j # i - 1 => j + 2 \in 0 .. i)
        <5>1. j # i
          BY <3>3
        <5> QED
          BY <1>1, <5>1
      <4>2. h[j + 1] = f[j + 1] /\ (j # i - 1 => h[j + 2] = f[j + 2]) /\ h[j] = f[j]
        BY <4>1
      <4> HIDE DEF h
      <4> QED
        BY <3>1, <4>2 DEF Place
    <3> QED
      BY <3>2, <3>3
  <2> QED
    BY <2>1
<1> DEFINE F == CHOOSE f1 : Is(f1)
<1>7. Is(F)
  <2> HIDE DEF Is, h
  <2> QED
    BY <1>6
<1> HIDE DEF F
<1>8. \A j \in 0 .. i : F[j] = Place(fn, i, F, j)
  <2>1. F = [j \in 0 .. i |-> Place(fn, i, F, j)]
    BY <1>7
  <2> QED
    BY <2>1
<1>9. number_at(fn, i) = F[0]
  BY DEF number_at, F, Place
<1> DEFINE Spelt(j) == fn[j] # "K2" => LetterStarts(fn, i, F[j])
           AllRight(n) == \A j \in i - n .. i : Spelt(j)
           U == {n \in 0 .. i : AllRight(n)}
<1>10. 0 \in U
  <2>1. F[i] = i
    <3>1. i \in 0 .. i
      BY <1>1
    <3>2. F[i] = Place(fn, i, F, i)
      BY <1>8, <3>1
    <3> QED
      BY <3>2 DEF Place
  <2>2. \A j \in i - 0 .. i : j = i
    BY <1>1
  <2> QED
    BY <1>1, <2>1, <2>2 DEF LetterStarts
<1>11. \A n \in 0 .. i - 1 : n \in U => n + 1 \in U
  <2> SUFFICES ASSUME NEW n \in 0 .. i - 1, AllRight(n)
               PROVE  AllRight(n + 1)
    <3> HIDE DEF AllRight
    <3> QED
      BY <1>1
  <2> DEFINE j0 == i - n - 1
  <2>1. j0 \in 0 .. i - 1 /\ i - (n + 1) = j0 /\ i - n = j0 + 1
    BY <1>1
  <2> HIDE DEF j0
  <2>2. Spelt(j0)
    <3> SUFFICES ASSUME fn[j0] # "K2" PROVE LetterStarts(fn, i, F[j0])
      OBVIOUS
    <3>1. F[j0] = Place(fn, i, F, j0)
      BY <1>1, <1>8, <2>1
    <3>2. j0 \in 0 .. i /\ j0 \in 0 .. Body - 1 /\ j0 + 1 \in 0 .. Body - 1 /\ j0 # i
      BY <1>1, <2>1
    <3>3. CASE fn[j0] = " "
      BY <3>1, <3>2, <3>3 DEF Place, LetterStarts
    <3>4. CASE fn[j0] = "K1" /\ j0 = i - 1
      BY <3>1, <3>2, <3>4 DEF Place, LetterStarts, dbc_1st
    <3>5. CASE fn[j0] = "K1" /\ j0 # i - 1
      <4>1. F[j0] = F[j0 + 2]
        BY <3>1, <3>2, <3>5 DEF Place, dbc_1st
      <4>2. j0 + 2 \in i - n .. i /\ j0 + 2 \in 0 .. Body - 1 /\ (j0 + 2) - 1 = j0 + 1
        BY <1>1, <2>1, <3>5
      <4>3. fn[j0 + 1] = "K2"
        BY <3>2, <3>5 DEF InField
      <4>4. fn[j0 + 2] # "K2"
        <5>1. fn[j0 + 2] = "K2" => fn[(j0 + 2) - 1] = "K1"
          BY <4>2 DEF InField
        <5> QED
          BY <4>2, <4>3, <5>1
      <4>5. Spelt(j0 + 2)
        BY <4>2
      <4> QED
        BY <4>1, <4>4, <4>5
    <3>6. CASE fn[j0] # " " /\ fn[j0] # "K1"
      <4>1. F[j0] = F[j0 + 1]
        BY <3>1, <3>2, <3>6 DEF Place, dbc_1st
      <4>2. j0 + 1 \in i - n .. i /\ (j0 + 1) - 1 = j0
        BY <1>1, <2>1
      <4>3. fn[j0 + 1] # "K2"
        <5>1. fn[j0 + 1] = "K2" => fn[(j0 + 1) - 1] = "K1"
          BY <3>2 DEF InField
        <5> QED
          BY <3>6, <4>2, <5>1
      <4>4. Spelt(j0 + 1)
        BY <4>2
      <4> QED
        BY <4>1, <4>3, <4>4
    <3> QED
      BY <3>3, <3>4, <3>5, <3>6
  <2> HIDE DEF Spelt
  <2>3. \A j \in j0 .. i : j = j0 \/ j \in i - n .. i
    BY <1>1, <2>1
  <2> QED
    BY <2>1, <2>2, <2>3
<1>12. i \in U
  <2> HIDE DEF U
  <2>1. \A n \in 0 .. i : n \in U
    BY <1>1, <1>10, <1>11, ForAllBelow
  <2> QED
    BY <1>1, <2>1
<1>13. Spelt(0)
  BY <1>1, <1>12
<1>14. fn[0] # "K2"
  <2>1. 0 \in 0 .. Body - 1 /\ ~(0 > 0)
    BY <1>1
  <2> QED
    BY <2>1 DEF InField
<1> QED
  BY <1>9, <1>13, <1>14

\* The numbered variant of an 8.3 form is well-formed too, however many of its
\* characters the number takes: it never leaves the first byte of a letter
\* without the second one (gen_numname).
THEOREM NumbersKeepLetters ==
  ASSUME NEW fn, DOMAIN fn = 0 .. Body + Ext - 1, WellFormed(fn),
         NEW Digits, "K1" \notin Digits, "K2" \notin Digits,
         NEW digits \in Seq(Digits), Len(digits) < Body
  PROVE  WellFormed(gen_numname(fn, digits))
<1> DEFINE tail == <<"~">> \o digits
           at == number_at(fn, Body - Len(tail))
           gn == gen_numname(fn, digits)
<1>1. Body \in Nat \ {0} /\ Ext \in Nat \ {0} /\ Len(digits) \in Nat
  BY NameAssumption
<1>2. Len(tail) = Len(digits) + 1 /\ \A k \in 1 .. Len(tail) : tail[k] # "K1" /\ tail[k] # "K2"
  <2>1. tail \in Seq(Digits \cup {"~"}) /\ Len(tail) = Len(digits) + 1
    OBVIOUS
  <2> HIDE DEF tail
  <2>2. \A k \in 1 .. Len(tail) : tail[k] \in Digits \cup {"~"}
    BY <2>1
  <2> QED
    BY <2>1, <2>2
<1>3. Body - Len(tail) \in 0 .. Body - 1
  BY <1>1, <1>2
<1>4. InField(fn, 0, Body) /\ InField(fn, Body, Body + Ext)
  BY FieldsWellFormed
<1>5. at \in 0 .. Body - 1 /\ fn[at] # "K2"
  <2> HIDE DEF tail
  <2>1. LetterStarts(fn, Body - Len(tail), number_at(fn, Body - Len(tail)))
    BY <1>3, <1>4, NumberStartsLetter
  <2> QED
    BY <1>1, <1>3, <2>1 DEF LetterStarts
<1>6. gn = [k \in 0 .. Body + Ext - 1 |-> IF k \in at .. Body - 1
                           THEN IF k - at < Len(tail) THEN tail[k - at + 1] ELSE " "
                           ELSE fn[k]]
  BY DEF gen_numname
<1> HIDE DEF tail, at, gn
<1>7. \A k \in at .. Body - 1 : gn[k] # "K1" /\ gn[k] # "K2"
  <2> SUFFICES ASSUME NEW k \in at .. Body - 1 PROVE gn[k] # "K1" /\ gn[k] # "K2"
    OBVIOUS
  <2>1. k \in 0 .. Body + Ext - 1 /\ k - at \in Nat
    BY <1>1, <1>5
  <2>2. CASE k - at < Len(tail)
    <3>1. k - at + 1 \in 1 .. Len(tail)
      BY <1>1, <1>2, <2>1, <2>2
    <3>2. gn[k] = tail[k - at + 1]
      BY <1>6, <2>1, <2>2
    <3> QED
      BY <1>2, <3>1, <3>2
  <2>3. CASE ~(k - at < Len(tail))
    BY <1>6, <2>1, <2>3
  <2> QED
    BY <2>2, <2>3
<1>8. \A k \in 0 .. Body + Ext - 1 : k \notin at .. Body - 1 => gn[k] = fn[k]
  BY <1>6
<1>9. InField(gn, 0, Body)
  <2> SUFFICES ASSUME NEW k \in 0 .. Body - 1
               PROVE  /\ gn[k] = "K1" => k + 1 < Body /\ gn[k + 1] = "K2"
                      /\ gn[k] = "K2" => k > 0 /\ gn[k - 1] = "K1"
    BY DEF InField
  <2>1. CASE k >= at
    <3>1. k \in at .. Body - 1
      BY <1>1, <1>5, <2>1
    <3> QED
      BY <1>7, <3>1
  <2>2. CASE k < at
    <3>1. k \in 0 .. Body + Ext - 1 /\ k \notin at .. Body - 1 /\ gn[k] = fn[k]
      BY <1>1, <1>5, <1>8, <2>2
    <3>2. ASSUME gn[k] = "K1"
          PROVE  k + 1 < Body /\ gn[k + 1] = "K2"
      <4>1. k + 1 < Body /\ fn[k + 1] = "K2"
        BY <1>4, <3>1, <3>2 DEF InField
      <4>2. k + 1 # at
        BY <1>5, <4>1
      <4>3. k + 1 \in 0 .. Body + Ext - 1 /\ k + 1 \notin at .. Body - 1
        BY <1>1, <1>5, <2>2, <4>1, <4>2
      <4> QED
        BY <1>8, <4>1, <4>3
    <3>3. ASSUME gn[k] = "K2"
          PROVE  k > 0 /\ gn[k - 1] = "K1"
      <4>1. k > 0 /\ fn[k - 1] = "K1"
        BY <1>4, <3>1, <3>3 DEF InField
      <4>2. k - 1 \in 0 .. Body + Ext - 1 /\ k - 1 \notin at .. Body - 1
        BY <1>1, <1>5, <2>2, <4>1
      <4> QED
        BY <1>8, <4>1, <4>2
    <3> QED
      BY <3>2, <3>3
  <2> QED
    BY <1>1, <1>5, <2>1, <2>2
<1>10. InField(gn, Body, Body + Ext)
  <2> DEFINE hi == Body + Ext
  <2>4. hi \in Nat /\ hi > Body /\ InField(fn, Body, hi)
    BY <1>1, <1>4
  <2>5. \A k \in 0 .. hi - 1 : k \notin at .. Body - 1 => gn[k] = fn[k]
    BY <1>1, <1>8
  <2> HIDE DEF hi
  <2> SUFFICES InField(gn, Body, hi)
    BY DEF hi
  <2> SUFFICES ASSUME NEW k \in Body .. hi - 1
               PROVE  /\ gn[k] = "K1" => k + 1 < hi /\ gn[k + 1] = "K2"
                      /\ gn[k] = "K2" => k > Body /\ gn[k - 1] = "K1"
    BY DEF InField
  <2>1. gn[k] = fn[k]
    BY <1>1, <2>4, <2>5
  <2>2. k + 1 < hi => gn[k + 1] = fn[k + 1]
    <3>1. k + 1 < hi => k + 1 \in 0 .. hi - 1 /\ k + 1 \notin at .. Body - 1
      BY <1>1, <2>4
    <3> QED
      BY <2>5, <3>1
  <2>3. k > Body => gn[k - 1] = fn[k - 1]
    <3>1. k > Body => k - 1 \in 0 .. hi - 1 /\ k - 1 \notin at .. Body - 1
      BY <1>1, <2>4
    <3> QED
      BY <2>5, <3>1
  <2> QED
    BY <2>4, <2>1, <2>2, <2>3 DEF InField
<1> QED
  BY <1>9, <1>10, FieldsWellFormed DEF gn

\* The length of an 8.3 form.
Whole == Body + Ext
LEMMA FieldLengths == Body \in Nat \ {0} /\ Whole \in Nat /\ Body < Whole
<1>1. Body \in Nat \ {0} /\ Ext \in Nat \ {0}
  BY NameAssumption
<1> QED
  BY <1>1 DEF Whole

\* How far the 8.3 form is written: up to place i in the field that ends at ni,
\* and what follows is blank.
At(i, ni) == (ni = Body \/ ni = Whole) /\ i \in Nat /\ i <= ni /\ (ni = Whole => i >= Body)
Blank(fn, i) == \A k \in i .. Whole - 1 : fn[k] = " "
FieldFilled(fn, i, ni) ==
  /\ At(i, ni) /\ Blank(fn, i)
  /\ InField(fn, 0, Body) /\ InField(fn, Body, Whole)

\* A byte of its own can be written next.
LEMMA ByteIsWritten ==
  ASSUME NEW fn, NEW i, NEW ni, FieldFilled(fn, i, ni), i < ni, NEW byte, byte # "K1", byte # "K2",
         DOMAIN fn = 0 .. Whole - 1
  PROVE  FieldFilled([fn EXCEPT ![i] = byte], i + 1, ni)
<1> DEFINE gn == [fn EXCEPT ![i] = byte]
<1>1. Body \in Nat \ {0} /\ Whole \in Nat /\ Body < Whole /\ i \in Nat /\ ni \in Nat /\ ni <= Whole
  BY FieldLengths DEF FieldFilled, At
<1>2. i \in 0 .. Whole - 1
  BY <1>1
<1>3. gn[i] = byte /\ \A k \in 0 .. Whole - 1 : k # i => gn[k] = fn[k]
  BY <1>1, <1>2
<1>4. fn[i] = " " /\ \A k \in i .. Whole - 1 : fn[k] = " "
  <2>1. \A k \in i .. Whole - 1 : fn[k] = " "
    BY DEF FieldFilled, Blank
  <2>2. i \in i .. Whole - 1
    BY <1>1, <1>2
  <2> QED
    BY <2>1, <2>2
<1>5. InField(fn, 0, Body) /\ InField(fn, Body, Whole) /\ (ni = Body \/ ni = Whole) /\ (ni = Whole => i >= Body)
  BY DEF FieldFilled, At
<1> HIDE DEF gn
<1>6. ASSUME NEW lo, NEW end, InField(fn, lo, end), lo \in Nat, end \in Nat, end <= Whole
      PROVE  InField(gn, lo, end)
  <2> SUFFICES ASSUME NEW k \in lo .. end - 1
               PROVE  /\ gn[k] = "K1" => k + 1 < end /\ gn[k + 1] = "K2"
                      /\ gn[k] = "K2" => k > lo /\ gn[k - 1] = "K1"
    BY DEF InField
  <2>1. k \in 0 .. Whole - 1
    BY <1>1, <1>6
  <2>2. CASE k = i
    BY <1>3, <2>2
  <2>3. CASE k # i
    <3>1. gn[k] = fn[k]
      BY <1>3, <2>1, <2>3
    <3>2. ASSUME gn[k] = "K1"
          PROVE  k + 1 < end /\ gn[k + 1] = "K2"
      <4>1. k + 1 < end /\ fn[k + 1] = "K2"
        BY <1>6, <3>1, <3>2 DEF InField
      <4>3. k + 1 # i
        BY <1>4, <4>1
      <4>4. k + 1 \in 0 .. Whole - 1
        BY <1>1, <1>6, <2>1, <4>1
      <4>2. k + 1 \in 0 .. Whole - 1 /\ k + 1 # i
        BY <4>3, <4>4
      <4> QED
        BY <1>3, <4>1, <4>2
    <3>3. ASSUME gn[k] = "K2"
          PROVE  k > lo /\ gn[k - 1] = "K1"
      <4>1. k > lo /\ fn[k - 1] = "K1"
        BY <1>6, <3>1, <3>3 DEF InField
      <4>3. k - 1 # i
        BY <1>4, <4>1
      <4>4. k - 1 \in 0 .. Whole - 1
        BY <1>1, <1>6, <2>1, <4>1
      <4>2. k - 1 \in 0 .. Whole - 1 /\ k - 1 # i
        BY <4>3, <4>4
      <4> QED
        BY <1>3, <4>1, <4>2
    <3> QED
      BY <3>2, <3>3
  <2> QED
    BY <2>2, <2>3
<1>7. InField(gn, 0, Body) /\ InField(gn, Body, Whole)
  <2>1. 0 \in Nat /\ Body \in Nat /\ Whole \in Nat /\ Body <= Whole /\ Whole <= Whole
    BY <1>1
  <2> QED
    BY <1>5, <1>6, <2>1
<1>8. \A k \in i + 1 .. Whole - 1 : gn[k] = " "
  <2> SUFFICES ASSUME NEW k \in i + 1 .. Whole - 1 PROVE gn[k] = " "
    OBVIOUS
  <2>1. k \in 0 .. Whole - 1 /\ k \in i .. Whole - 1 /\ k # i
    BY <1>1
  <2> QED
    BY <1>3, <1>4, <2>1
<1>9. /\ (ni = Body \/ ni = Whole) /\ i + 1 \in Nat /\ i + 1 <= ni
      /\ ni = Whole => i + 1 >= Body
  BY <1>1, <1>5
<1> QED
  BY <1>7, <1>8, <1>9 DEF FieldFilled, At, Blank, gn

\* So can a letter of two bytes, if the field has room for both.
LEMMA LetterIsWritten ==
  ASSUME NEW fn, NEW i, NEW ni, FieldFilled(fn, i, ni), i < ni - 1, DOMAIN fn = 0 .. Whole - 1
  PROVE  FieldFilled([[fn EXCEPT ![i] = "K1"] EXCEPT ![i + 1] = "K2"], i + 2, ni)
<1> DEFINE fn1 == [fn EXCEPT ![i] = "K1"]
           gn == [fn1 EXCEPT ![i + 1] = "K2"]
<1>1. Body \in Nat \ {0} /\ Whole \in Nat /\ Body < Whole /\ i \in Nat /\ ni \in Nat /\ ni <= Whole
  BY FieldLengths DEF FieldFilled, At
<1>2. i \in 0 .. Whole - 1 /\ i + 1 \in 0 .. Whole - 1 /\ i + 1 # i
  BY <1>1
<1>3. gn[i] = "K1" /\ gn[i + 1] = "K2" /\ \A k \in 0 .. Whole - 1 : k # i /\ k # i + 1 => gn[k] = fn[k]
  <2>1. DOMAIN fn1 = 0 .. Whole - 1 /\ fn1[i] = "K1" /\ \A k \in 0 .. Whole - 1 : k # i => fn1[k] = fn[k]
    BY <1>2
  <2> HIDE DEF fn1
  <2> QED
    BY <1>2, <2>1
<1>4. \A k \in i .. Whole - 1 : fn[k] = " "
  BY DEF FieldFilled, Blank
<1>5. InField(fn, 0, Body) /\ InField(fn, Body, Whole) /\ (ni = Body \/ ni = Whole) /\ (ni = Whole => i >= Body)
  BY DEF FieldFilled, At
<1> HIDE DEF gn
<1>6. ASSUME NEW lo, NEW end, InField(fn, lo, end), lo \in Nat, end \in Nat, end <= Whole,
             lo <= i => end <= i \/ end = ni, lo > i => lo > i + 1
      PROVE  InField(gn, lo, end)
  <2> SUFFICES ASSUME NEW k \in lo .. end - 1
               PROVE  /\ gn[k] = "K1" => k + 1 < end /\ gn[k + 1] = "K2"
                      /\ gn[k] = "K2" => k > lo /\ gn[k - 1] = "K1"
    BY DEF InField
  <2>1. k \in 0 .. Whole - 1
    BY <1>1, <1>6
  <2>2. CASE k = i
    <3>1. end = ni
      BY <1>1, <1>6, <2>2
    <3> QED
      BY <1>1, <1>3, <2>2, <3>1
  <2>3. CASE k = i + 1
    <3>1. lo <= i
      BY <1>1, <1>6, <2>3
    <3>2. k > lo /\ k - 1 = i
      BY <1>1, <1>6, <2>3, <3>1
    <3> QED
      BY <1>3, <2>3, <3>2
  <2>4. CASE k # i /\ k # i + 1
    <3>1. gn[k] = fn[k]
      BY <1>3, <2>1, <2>4
    <3>2. ASSUME gn[k] = "K1"
          PROVE  k + 1 < end /\ gn[k + 1] = "K2"
      <4>1. k + 1 < end /\ fn[k + 1] = "K2"
        BY <1>6, <3>1, <3>2 DEF InField
      <4>4. ~(k + 1 \in i .. Whole - 1)
        BY <1>4, <4>1
      <4>5. k + 1 \in 0 .. Whole - 1
        BY <1>1, <1>6, <2>1, <4>1
      <4>2. k + 1 \in 0 .. Whole - 1 /\ ~(k + 1 \in i .. Whole - 1)
        BY <4>4, <4>5
      <4>3. k + 1 # i /\ k + 1 # i + 1
        BY <1>1, <4>2
      <4> QED
        BY <1>3, <4>1, <4>2, <4>3
    <3>3. ASSUME gn[k] = "K2"
          PROVE  k > lo /\ gn[k - 1] = "K1"
      <4>1. k > lo /\ fn[k - 1] = "K1"
        BY <1>6, <3>1, <3>3 DEF InField
      <4>4. ~(k - 1 \in i .. Whole - 1)
        BY <1>4, <4>1
      <4>5. k - 1 \in 0 .. Whole - 1
        BY <1>1, <1>6, <2>1, <4>1
      <4>2. k - 1 \in 0 .. Whole - 1 /\ ~(k - 1 \in i .. Whole - 1)
        BY <4>4, <4>5
      <4>3. k - 1 # i /\ k - 1 # i + 1
        BY <1>1, <1>2, <4>2
      <4> QED
        BY <1>3, <4>1, <4>2, <4>3
    <3> QED
      BY <3>2, <3>3
  <2> QED
    BY <2>2, <2>3, <2>4
<1>7. InField(gn, 0, Body)
  <2>1. 0 \in Nat /\ Body \in Nat /\ Body <= Whole /\ (0 <= i => Body <= i \/ Body = ni) /\ (0 > i => 0 > i + 1)
    BY <1>1, <1>5
  <2> QED
    BY <1>5, <1>6, <2>1
<1>8. InField(gn, Body, Whole)
  <2>1. /\ Body \in Nat /\ Whole \in Nat /\ Whole <= Whole
        /\ Body <= i => Whole <= i \/ Whole = ni
        /\ Body > i => Body > i + 1
    BY <1>1, <1>5
  <2> QED
    BY <1>5, <1>6, <2>1
<1>9. \A k \in i + 2 .. Whole - 1 : gn[k] = " "
  <2> SUFFICES ASSUME NEW k \in i + 2 .. Whole - 1 PROVE gn[k] = " "
    OBVIOUS
  <2>1. k \in 0 .. Whole - 1 /\ k \in i .. Whole - 1 /\ k # i /\ k # i + 1
    BY <1>1
  <2> QED
    BY <1>3, <1>4, <2>1
<1>10. /\ (ni = Body \/ ni = Whole) /\ i + 2 \in Nat /\ i + 2 <= ni
       /\ ni = Whole => i + 2 >= Body
  BY <1>1, <1>5
<1> QED
  BY <1>7, <1>8, <1>9, <1>10 DEF FieldFilled, At, Blank, gn, fn1

\* The rest of a field can be left blank.
LEMMA FieldIsLeft ==
  ASSUME NEW fn, NEW i, NEW ni, FieldFilled(fn, i, ni)
  PROVE  /\ FieldFilled(fn, ni, ni)
         /\ ni = Body => FieldFilled(fn, Body, Whole)
<1>1. Body \in Nat \ {0} /\ Whole \in Nat /\ Body < Whole /\ i \in Nat /\ ni \in Nat /\ i <= ni
  BY FieldLengths DEF FieldFilled, At
<1>2. /\ \A k \in i .. Whole - 1 : fn[k] = " "
      /\ InField(fn, 0, Body) /\ InField(fn, Body, Whole) /\ (ni = Body \/ ni = Whole)
  BY DEF FieldFilled, At, Blank
<1>3. \A k \in ni .. Whole - 1 : fn[k] = " "
  <2>1. \A k \in ni .. Whole - 1 : k \in i .. Whole - 1
    BY <1>1
  <2> QED
    BY <1>2, <2>1
<1>4. ni >= Body /\ ni <= ni /\ Body <= Whole
  <2>1. ni = Body \/ ni = Whole
    BY <1>2
  <2> QED
    BY <1>1, <2>1
<1> QED
  BY <1>1, <1>2, <1>3, <1>4 DEF FieldFilled, At, Blank

\* A set of numbers that is not empty has a least one, and a greatest one if
\* it has a bound.
LEMMA LeastOf ==
  ASSUME NEW S, S \subseteq Nat, S # {}
  PROVE  \E x \in S : \A y \in S : x <= y
<1> DEFINE T == {n \in Nat : \A m \in 0 .. n : m \notin S}
<1> SUFFICES ASSUME ~\E x \in S : \A y \in S : x <= y PROVE FALSE
  OBVIOUS
<1>1. ASSUME NEW n \in Nat, \A m \in Nat : m < n => m \notin S
      PROVE  n \notin S
  <2> SUFFICES ASSUME n \in S PROVE FALSE
    OBVIOUS
  <2>1. \A y \in S : y \in Nat /\ ~(y < n)
    BY <1>1
  <2>2. \A y \in S : n <= y
    BY <2>1
  <2> QED
    BY <2>2
<1>2. 0 \in T
  BY <1>1
<1>3. \A n \in Nat : n \in T => n + 1 \in T
  <2> SUFFICES ASSUME NEW n \in Nat, \A m \in 0 .. n : m \notin S
               PROVE  \A m \in 0 .. n + 1 : m \notin S
    OBVIOUS
  <2>1. \A m \in Nat : m < n + 1 => m \in 0 .. n
    OBVIOUS
  <2>2. n + 1 \notin S
    BY <1>1, <2>1
  <2>3. \A m \in 0 .. n + 1 : m = n + 1 \/ m \in 0 .. n
    OBVIOUS
  <2> QED
    BY <2>2, <2>3
<1>4. \A n \in Nat : n \in T
  <2> HIDE DEF T
  <2> QED
    BY <1>2, <1>3, ForAllNumbers
<1>5. PICK n \in S : TRUE
  OBVIOUS
<1> QED
  BY <1>4, <1>5

\* A set of numbers up to N has a greatest one.
LEMMA GreatestOf ==
  ASSUME NEW N \in Nat, NEW S \in SUBSET (0 .. N), S # {}
  PROVE  \E x \in S : \A y \in S : y <= x
<1> DEFINE R == {N - y : y \in S}
<1>1. R \subseteq Nat /\ R # {}
  <2>1. \A y \in S : N - y \in Nat
    OBVIOUS
  <2>2. R \subseteq Nat
    BY <2>1
  <2>3. PICK y \in S : TRUE
    OBVIOUS
  <2>4. N - y \in R
    OBVIOUS
  <2> QED
    BY <2>2, <2>4
<1>2. PICK z \in R : \A r \in R : z <= r
  <2> HIDE DEF R
  <2> QED
    BY <1>1, LeastOf
<1>3. PICK x \in S : z = N - x
  BY <1>2
<1>4. \A y \in S : N - x <= N - y
  BY <1>2, <1>3
<1> QED
  BY <1>3, <1>4

\* The last of some places, 0 if there is none.
Places(at, N) == at \subseteq 1 .. N
IsLast(r, at) == r = IF at = {} THEN 0 ELSE CHOOSE i \in at : \A j \in at : j <= i
LastPlace(r, at, N) == r \in 0 .. N /\ (r # 0 => r \in at)

\* The last of the places is one of them.
LEMMA LastIs ==
  ASSUME NEW N \in Nat, NEW at, Places(at, N), NEW r, IsLast(r, at)
  PROVE  LastPlace(r, at, N)
<1> USE DEF Places, IsLast, LastPlace
<1>1. CASE at = {}
  BY <1>1
<1>2. CASE at # {}
  <2>1. at \in SUBSET (0 .. N)
    OBVIOUS
  <2>2. \E i \in at : \A j \in at : j <= i
    BY <1>2, <2>1, GreatestOf
  <2>3. r \in at
    BY <1>2, <2>2
  <2>4. r \in 1 .. N
    BY <2>3
  <2>5. r \in 0 .. N
    BY <2>4
  <2> QED
    BY <2>3, <2>5
<1> QED
  BY <1>1, <1>2

\* A name without the dots and spaces at its end.
LEMMA SnipIs ==
  ASSUME NEW C, NEW nm \in Seq(C)
  PROVE  /\ Snip(nm) \in Seq(C)
         /\ Snip(nm) # <<>> => Snip(nm)[Len(Snip(nm))] \notin {".", " "}
<1> DEFINE at == {i \in DOMAIN nm : nm[i] \notin {".", " "}}
           n == UpToLast(nm, LAMBDA c : c \notin {".", " "})
<1>1. Len(nm) \in Nat /\ at \subseteq 1 .. Len(nm)
  <2>1. Len(nm) \in Nat /\ DOMAIN nm = 1 .. Len(nm)
    OBVIOUS
  <2>2. at \subseteq DOMAIN nm
    OBVIOUS
  <2> HIDE DEF at
  <2> QED
    BY <2>1, <2>2
<1>2. n = IF at = {} THEN 0 ELSE CHOOSE i \in at : \A j \in at : j <= i
  BY DEF UpToLast
<1>3. Snip(nm) = SubSeq(nm, 1, n)
  BY DEF Snip
<1> HIDE DEF n
<1>4. n \in 0 .. Len(nm) /\ (n # 0 => nm[n] \notin {".", " "})
  <2>1. Len(nm) \in Nat /\ Places(at, Len(nm)) /\ IsLast(n, at)
    BY <1>1, <1>2 DEF Places, IsLast
  <2> HIDE DEF at
  <2>2. LastPlace(n, at, Len(nm))
    BY <2>1, LastIs
  <2>3. n \in 0 .. Len(nm) /\ (n # 0 => n \in at)
    BY <2>2 DEF LastPlace
  <2> QED
    BY <2>3 DEF at
<1> DEFINE s == SubSeq(nm, 1, n)
<1>5. s \in Seq(C) /\ Len(s) = n /\ \A i \in 1 .. n : s[i] = nm[i]
  <2> DEFINE N == Len(nm)
  <2>0. N \in Nat /\ n \in 0 .. N /\ \A i \in 1 .. N : nm[i] \in C
    <3>1. \A i \in 1 .. Len(nm) : nm[i] \in C
      OBVIOUS
    <3> HIDE DEF at, s
    <3> QED
      BY <1>1, <1>4, <3>1
  <2> HIDE DEF N, s, at
  <2>1. n \in Nat /\ n \in Int /\ n <= N
    BY <2>0
  <2>2. \A i \in 1 .. n : nm[i] \in C
    BY <2>0, <2>1
  <2>3. s \in Seq(C) /\ Len(s) = (IF 1 <= n THEN n - 1 + 1 ELSE 0) /\ \A i \in 1 .. n - 1 + 1 : s[i] = nm[1 + i - 1]
    BY <2>1, <2>2, SubSeqProperties DEF s
  <2>4. n - 1 + 1 = n /\ \A i \in 1 .. n : 1 + i - 1 = i
    BY <2>1
  <2>5. Len(s) = n
    BY <2>1, <2>3
  <2> QED
    BY <2>3, <2>4, <2>5
<1>6. s # <<>> => n # 0 /\ n \in 1 .. n
  <2> DEFINE N == Len(nm)
  <2>1. N \in Nat /\ n \in 0 .. N
    BY <1>1, <1>4
  <2> HIDE DEF s, N, at
  <2>2. n \in Nat /\ (n # 0 => n \in 1 .. n)
    BY <2>1
  <2>3. n = 0 => s = <<>>
    BY <1>5
  <2> QED
    BY <2>2, <2>3
<1> HIDE DEF s
<1>7. s # <<>> => s[Len(s)] \notin {".", " "}
  BY <1>4, <1>5, <1>6
<1> QED
  BY <1>3, <1>5, <1>7 DEF s

\* The bytes that are written, and the state of the loop of create_name.
BytesOf(C) == {Upper(c) : c \in C} \cup {" ", "_", "K1", "K2"}
Loops(C, n) ==
  [si : 0 .. n, i : Nat, ni : Nat, caps : SUBSET (Nat \X C), end : BOOLEAN,
   fn : [0 .. Whole - 1 -> BytesOf(C)], cf : SUBSET LOSSY]
Making(C, n, r) == r \in Loops(C, n) /\ FieldFilled(r.fn, r.i, r.ni)

\* put_byte writes a byte that is no half of a letter.
LEMMA ByteIsPut ==
  ASSUME NEW C, NEW n \in Nat, NEW r, Making(C, n, r), r.i < r.ni,
         NEW byte \in BytesOf(C), byte # "K1", byte # "K2"
  PROVE  Making(C, n, put_byte(r, byte))
<1> DEFINE p == put_byte(r, byte)
           D == BytesOf(C)
           fn == r.fn
           gn == [fn EXCEPT ![r.i] = byte]
<1>1. r \in Loops(C, n) /\ FieldFilled(fn, r.i, r.ni)
  BY DEF Making
<1>2. fn \in [0 .. Whole - 1 -> D] /\ r.i \in Nat
  BY <1>1 DEF Loops
<1>3. gn \in [0 .. Whole - 1 -> D]
  <2> HIDE DEF D, fn
  <2> QED
    BY <1>2 DEF D
<1>4. FieldFilled(gn, r.i + 1, r.ni)
  <2>1. DOMAIN fn = 0 .. Whole - 1
    BY <1>2
  <2> HIDE DEF fn
  <2> QED
    BY <1>1, <2>1, ByteIsWritten
<1>5. p = [r EXCEPT !.fn = gn, !.i = r.i + 1]
  BY <1>1 DEF put_byte, Loops
<1> HIDE DEF gn, p, fn
<1>6. p \in Loops(C, n) /\ p.fn = gn /\ p.i = r.i + 1 /\ p.ni = r.ni
  <2> DEFINE i1 == r.i + 1
             F == [0 .. Whole - 1 -> D]
  <2>1. i1 \in Nat /\ gn \in F
    BY <1>2, <1>3
  <2>2. p = [r EXCEPT !.fn = gn, !.i = i1]
    BY <1>5
  <2>3. Loops(C, n) = [si : 0 .. n, i : Nat, ni : Nat, caps : SUBSET (Nat \X C), end : BOOLEAN,
                       fn : F, cf : SUBSET LOSSY]
    BY DEF Loops
  <2> HIDE DEF i1, F, D
  <2>5. r \in [si : 0 .. n, i : Nat, ni : Nat, caps : SUBSET (Nat \X C), end : BOOLEAN, fn : F, cf : SUBSET LOSSY]
    BY <1>1, <2>3
  <2>6. p \in [si : 0 .. n, i : Nat, ni : Nat, caps : SUBSET (Nat \X C), end : BOOLEAN, fn : F, cf : SUBSET LOSSY]
    BY <2>1, <2>2, <2>5
  <2>7. p.fn = gn /\ p.i = i1 /\ p.ni = r.ni
    BY <2>2, <2>5
  <2>4. p \in Loops(C, n) /\ p.fn = gn /\ p.i = i1 /\ p.ni = r.ni
    BY <2>3, <2>6, <2>7
  <2> QED
    BY <2>4 DEF i1
<1> QED
  BY <1>4, <1>6 DEF Making, p

\* Two of them write a letter.
LEMMA LetterIsPut ==
  ASSUME NEW C, NEW n \in Nat, NEW r, Making(C, n, r), r.i < r.ni - 1
  PROVE  Making(C, n, put_byte(put_byte(r, "K1"), "K2"))
<1> DEFINE p == put_byte(put_byte(r, "K1"), "K2")
           D == BytesOf(C)
           fn == r.fn
           gn == [[fn EXCEPT ![r.i] = "K1"] EXCEPT ![r.i + 1] = "K2"]
<1>1. r \in Loops(C, n) /\ FieldFilled(fn, r.i, r.ni)
  BY DEF Making
<1>2. fn \in [0 .. Whole - 1 -> D] /\ r.i \in Nat /\ "K1" \in D /\ "K2" \in D
  BY <1>1 DEF Loops, BytesOf
<1>3. gn \in [0 .. Whole - 1 -> D]
  <2> HIDE DEF D, fn
  <2> QED
    BY <1>2
<1>4. FieldFilled(gn, r.i + 2, r.ni)
  <2>1. DOMAIN fn = 0 .. Whole - 1
    BY <1>2
  <2> HIDE DEF fn
  <2> QED
    BY <1>1, <2>1, LetterIsWritten
<1>5. p = [r EXCEPT !.fn = gn, !.i = r.i + 2]
  <2>1. put_byte(r, "K1") = [r EXCEPT !.fn = [fn EXCEPT ![r.i] = "K1"], !.i = r.i + 1]
    BY <1>1 DEF put_byte, Loops
  <2>2. r.i + 1 + 1 = r.i + 2
    BY <1>2
  <2> QED
    BY <1>1, <2>1, <2>2 DEF put_byte, Loops
<1> HIDE DEF gn, p, fn
<1>6. p \in Loops(C, n) /\ p.fn = gn /\ p.i = r.i + 2 /\ p.ni = r.ni
  <2> DEFINE i1 == r.i + 2
             F == [0 .. Whole - 1 -> D]
  <2>1. i1 \in Nat /\ gn \in F
    BY <1>2, <1>3
  <2>2. p = [r EXCEPT !.fn = gn, !.i = i1]
    BY <1>5
  <2>3. Loops(C, n) = [si : 0 .. n, i : Nat, ni : Nat, caps : SUBSET (Nat \X C), end : BOOLEAN,
                       fn : F, cf : SUBSET LOSSY]
    BY DEF Loops
  <2> HIDE DEF i1, F, D
  <2>5. r \in [si : 0 .. n, i : Nat, ni : Nat, caps : SUBSET (Nat \X C), end : BOOLEAN, fn : F, cf : SUBSET LOSSY]
    BY <1>1, <2>3
  <2>6. p \in [si : 0 .. n, i : Nat, ni : Nat, caps : SUBSET (Nat \X C), end : BOOLEAN, fn : F, cf : SUBSET LOSSY]
    BY <2>1, <2>2, <2>5
  <2>7. p.fn = gn /\ p.i = i1 /\ p.ni = r.ni
    BY <2>2, <2>5
  <2>4. p \in Loops(C, n) /\ p.fn = gn /\ p.i = i1 /\ p.ni = r.ni
    BY <2>3, <2>6, <2>7
  <2> QED
    BY <2>4 DEF i1
<1> QED
  BY <1>4, <1>6 DEF Making, p

\* A pass of the loop.
LEMMA PassMakes ==
  ASSUME NEW C, "K1" \notin C, "K2" \notin C, NEW lfn \in Seq(C), NEW dot \in 0 .. Len(lfn),
         NEW r0, Making(C, Len(lfn), r0), r0.si < Len(lfn)
  PROVE  Making(C, Len(lfn), name_byte(lfn, dot, r0))
<1> DEFINE n == Len(lfn)
           c == lfn[r0.si + 1]
           r == [r0 EXCEPT !.si = @ + 1, !.cf = IF c \in {"k", "K", "u"} THEN @ \cup {"LFN"} ELSE @]
           lossy == [r EXCEPT !.cf = @ \cup LOSSY]
           extension(s) == [s EXCEPT !.si = dot, !.i = Body, !.ni = Body + Ext]
           p == name_byte(lfn, dot, r0)
<1>1. n \in Nat /\ r0 \in Loops(C, n) /\ FieldFilled(r0.fn, r0.i, r0.ni) /\ r0.si \in Nat
  BY DEF Making, Loops
<1>2. c \in C /\ c # "K1" /\ c # "K2"
  <2>1. r0.si + 1 \in 1 .. n
    BY <1>1
  <2> QED
    BY <2>1
<1> DEFINE cf1 == IF c \in {"k", "K", "u"} THEN r0.cf \cup {"LFN"} ELSE r0.cf
<1>3. r = [r0 EXCEPT !.si = r0.si + 1, !.cf = cf1] /\ cf1 \in SUBSET LOSSY /\ r0.si + 1 \in 0 .. n
  BY <1>1 DEF Loops, LOSSY
<1> HIDE DEF c, cf1, n, r
<1>4. r \in Loops(C, n) /\ Making(C, n, r) /\ r.i = r0.i /\ r.ni = r0.ni
  <2>1. r \in Loops(C, n) /\ r.fn = r0.fn /\ r.i = r0.i /\ r.ni = r0.ni
    BY <1>1, <1>3 DEF Loops
  <2> QED
    BY <1>1, <2>1 DEF Making
<1>5. lossy \in Loops(C, n) /\ Making(C, n, lossy) /\ lossy.ni = r.ni
  <2>1. lossy \in Loops(C, n) /\ lossy.fn = r.fn /\ lossy.i = r.i /\ lossy.ni = r.ni
    BY <1>4 DEF Loops
  <2> HIDE DEF lossy
  <2> QED
    BY <1>4, <2>1 DEF Making
<1>6. ASSUME NEW s, Making(C, n, s), s.ni = Body
      PROVE  Making(C, n, extension(s))
  <2> DEFINE e == extension(s)
  <2>1. s \in Loops(C, n) /\ FieldFilled(s.fn, s.i, s.ni)
    BY <1>6 DEF Making
  <2>2. Body \in Nat /\ Whole \in Nat /\ dot \in 0 .. n
    BY FieldLengths DEF n
  <2>3. e \in Loops(C, n) /\ e.fn = s.fn /\ e.i = Body /\ e.ni = Whole
    BY <2>1, <2>2 DEF Loops, Whole
  <2> HIDE DEF e
  <2>4. FieldFilled(s.fn, Body, Whole)
    BY <1>6, <2>1, FieldIsLeft
  <2>5. Making(C, n, e)
    BY <2>3, <2>4 DEF Making, Whole
  <2> QED
    BY <2>5 DEF e
<1>7. Making(C, n, [lossy EXCEPT !.end = TRUE])
  <2> DEFINE e == [lossy EXCEPT !.end = TRUE]
  <2> HIDE DEF lossy
  <2>1. e \in Loops(C, n) /\ e.fn = lossy.fn /\ e.i = lossy.i /\ e.ni = lossy.ni
    BY <1>5 DEF Loops
  <2> HIDE DEF e
  <2>2. Making(C, n, e)
    BY <1>5, <2>1 DEF Making
  <2> QED
    BY <2>2 DEF e
<1>8. Making(C, n, [lossy EXCEPT !.i = r.ni])
  <2> DEFINE e == [lossy EXCEPT !.i = r.ni]
  <2> HIDE DEF lossy
  <2>1. FieldFilled(lossy.fn, r.ni, r.ni)
    BY <1>5, FieldIsLeft DEF Making
  <2>2. e \in Loops(C, n) /\ e.fn = lossy.fn /\ e.i = r.ni /\ e.ni = r.ni
    BY <1>4, <1>5 DEF Loops
  <2> HIDE DEF e
  <2>3. Making(C, n, e)
    BY <2>1, <2>2 DEF Making
  <2> QED
    BY <2>3 DEF e
<1>9. r.i < r.ni => Making(C, n, put_single(r, c))
  <2> SUFFICES ASSUME r.i < r.ni PROVE Making(C, n, put_single(r, c))
    OBVIOUS
  <2>1. CASE c \in {"u", "+"}
    <3> DEFINE s == [r EXCEPT !.cf = @ \cup LOSSY]
    <3>1. s \in Loops(C, n) /\ s.fn = r.fn /\ s.i = r.i /\ s.ni = r.ni
      BY <1>4 DEF Loops
    <3>2. put_single(r, c) = put_byte(s, "_")
      BY <2>1 DEF put_single
    <3> HIDE DEF s
    <3>3. Making(C, n, s) /\ s.i < s.ni
      BY <1>4, <3>1 DEF Making
    <3>4. "_" \in BytesOf(C) /\ "_" # "K1" /\ "_" # "K2"
      BY DEF BytesOf
    <3> QED
      BY <1>1, <3>2, <3>3, <3>4, ByteIsPut
  <2>2. CASE c \notin {"u", "+"}
    <3> DEFINE s == [r EXCEPT !.caps = @ \cup {<<r.ni, c>>}]
    <3>1. s \in Loops(C, n) /\ s.fn = r.fn /\ s.i = r.i /\ s.ni = r.ni
      BY <1>2, <1>4 DEF Loops
    <3>2. put_single(r, c) = put_byte(s, Upper(c))
      BY <2>2 DEF put_single
    <3> HIDE DEF s
    <3>3. Making(C, n, s) /\ s.i < s.ni
      BY <1>4, <3>1 DEF Making
    <3>4. Upper(c) # "K1" /\ Upper(c) # "K2"
      BY <1>2 DEF Upper
    <3>5. Upper(c) \in BytesOf(C)
      BY <1>2 DEF BytesOf
    <3> QED
      BY <1>1, <3>2, <3>3, <3>4, <3>5, ByteIsPut
  <2> QED
    BY <2>1, <2>2
<1>10. r.i < r.ni - 1 => Making(C, n, put_byte(put_byte(r, "K1"), "K2"))
  BY <1>1, <1>4, LetterIsPut
<1>11. r.i \in Nat /\ r.ni \in Nat
  BY <1>4 DEF Loops
<1>12. \/ p = lossy
       \/ r.ni = Body /\ p = extension(r)
       \/ r.ni = Body /\ p = extension(lossy)
       \/ p = [lossy EXCEPT !.end = TRUE]
       \/ p = [lossy EXCEPT !.i = r.ni]
       \/ r.i < r.ni /\ ~(r.i >= r.ni - 1) /\ p = put_byte(put_byte(r, "K1"), "K2")
       \/ r.i < r.ni /\ p = put_single(r, c)
  <2>1. p = IF c = " " \/ (c = "." /\ r.si # dot) THEN lossy
            ELSE IF r.si = dot /\ r.ni = Body THEN extension(r)
            ELSE IF r.i >= r.ni
                 THEN IF r.ni = Body /\ r.si < dot THEN extension(lossy) ELSE [lossy EXCEPT !.end = TRUE]
            ELSE IF c \in {"k", "K"}
                 THEN IF r.i >= r.ni - 1 THEN [lossy EXCEPT !.i = r.ni] ELSE put_byte(put_byte(r, "K1"), "K2")
            ELSE put_single(r, c)
    BY DEF name_byte, r, c
  <2> HIDE DEF lossy, extension, p
  <2>2. ~(r.i >= r.ni) <=> r.i < r.ni
    BY <1>11
  <2> QED
    BY <2>1, <2>2
<1>13. ~(r.i >= r.ni - 1) => r.i < r.ni - 1
  BY <1>11
<1> HIDE DEF lossy, extension, p
<1>14. Making(C, n, p)
  BY <1>5, <1>6, <1>7, <1>8, <1>9, <1>10, <1>12, <1>13, <1>4
<1> QED
  BY <1>14 DEF p, n

\* All passes.
LEMMA PassesMake ==
  ASSUME NEW C, "K1" \notin C, "K2" \notin C, NEW lfn \in Seq(C), NEW dot \in 0 .. Len(lfn),
         NEW r0, Making(C, Len(lfn), r0)
  PROVE  Making(C, Len(lfn), name_bytes(lfn, dot, r0))
<1> DEFINE N == Len(lfn)
           S == {r \in Loops(C, N) : Making(C, N, r)}
           pass(r) == IF r.end \/ r.si = N THEN r ELSE name_byte(lfn, dot, r)
           Is(f) == f = [n \in 0 .. N |-> IF n = 0 THEN r0 ELSE pass(f[n - 1])]
           g == [n \in Nat |-> [r \in S |-> pass(r)]]
<1>1. N \in Nat /\ r0 \in S
  BY DEF Making
<1>2. \A r \in S : pass(r) \in S
  <2> SUFFICES ASSUME NEW r \in S PROVE pass(r) \in S
    OBVIOUS
  <2>1. CASE r.end \/ r.si = N
    BY <2>1
  <2>2. CASE ~(r.end \/ r.si = N)
    <3>1. r.si \in 0 .. N
      BY DEF Loops
    <3>2. r.si < N
      <4>1. r.si # N
        BY <2>2
      <4> QED
        BY <1>1, <3>1, <4>1
    <3>3. Making(C, N, name_byte(lfn, dot, r))
      BY <3>2, PassMakes
    <3> QED
      BY <2>2, <3>3 DEF Making
  <2> QED
    BY <2>1, <2>2
<1>3. g \in [Nat -> [S -> S]]
  <2> HIDE DEF S, pass
  <2> QED
    BY <1>2
<1>4. PICK f \in [0 .. N -> S] : Steps(f, N, r0, g)
  <2> HIDE DEF g, S, N
  <2> QED
    BY <1>1, <1>3, StepsExist
<1>5. Is(f)
  <2> HIDE DEF S, pass, N
  <2>1. f = [n \in 0 .. N |-> IF n = 0 THEN r0 ELSE g[n][f[n - 1]]]
    BY <1>4 DEF Steps
  <2>2. \A n \in 0 .. N : n # 0 => g[n][f[n - 1]] = pass(f[n - 1])
    <3> SUFFICES ASSUME NEW n \in 0 .. N, n # 0 PROVE g[n][f[n - 1]] = pass(f[n - 1])
      OBVIOUS
    <3>1. n \in Nat /\ n - 1 \in 0 .. N
      BY <1>1
    <3>2. f[n - 1] \in S
      BY <1>4, <3>1
    <3> QED
      BY <3>1, <3>2
  <2> HIDE DEF g
  <2> QED
    BY <2>1, <2>2
<1> DEFINE F == CHOOSE f1 : Is(f1)
<1>6. Is(F)
  <2> HIDE DEF Is
  <2> QED
    BY <1>5
<1> HIDE DEF F
<1>7. F = [n \in 0 .. N |-> IF n = 0 THEN r0 ELSE pass(F[n - 1])]
  BY <1>6
<1>8. name_bytes(lfn, dot, r0) = F[N]
  BY DEF name_bytes, F
<1> DEFINE T == {n \in 0 .. N : F[n] \in S}
<1>9. \A n \in 0 .. N : n \in T
  <2> HIDE DEF S, pass, N
  <2>1. 0 \in T
    BY <1>1, <1>7
  <2>2. \A n \in 0 .. N - 1 : n \in T => n + 1 \in T
    <3> SUFFICES ASSUME NEW n \in 0 .. N - 1, F[n] \in S
                 PROVE  n + 1 \in 0 .. N /\ F[n + 1] \in S
      OBVIOUS
    <3>1. n + 1 \in 0 .. N /\ n + 1 # 0 /\ (n + 1) - 1 = n
      BY <1>1
    <3>2. F[n + 1] = pass(F[(n + 1) - 1])
      BY <1>7, <3>1
    <3> QED
      BY <1>2, <3>1, <3>2
  <2> HIDE DEF T
  <2> QED
    BY <1>1, <2>1, <2>2, ForAllBelow
<1>10. F[N] \in S
  <2> HIDE DEF S, N
  <2> QED
    BY <1>1, <1>9
<1> QED
  BY <1>8, <1>10

\* Where a name begins behind its spaces, and where its last dot is.
Leading(lfn) == (CHOOSE i \in DOMAIN lfn : lfn[i] # " " /\ \A j \in 1 .. i - 1 : lfn[j] = " ") - 1
LastDot(lfn) == UpToLast(lfn, LAMBDA c : c = ".")

Snipped(lfn) == lfn # <<>> /\ lfn[Len(lfn)] # " "
\* A name of which the last character is no space begins inside.
LEMMA NameBegins ==
  ASSUME NEW C, NEW lfn \in Seq(C), Snipped(lfn)
  PROVE  Leading(lfn) \in 0 .. Len(lfn)
<1> DEFINE N == Len(lfn)
           letters == {i \in 1 .. N : lfn[i] # " "}
           first == CHOOSE i \in DOMAIN lfn : lfn[i] # " " /\ \A j \in 1 .. i - 1 : lfn[j] = " "
<1>1. N \in Nat /\ N \in 1 .. N /\ DOMAIN lfn = 1 .. N
  <2>1. N \in Nat /\ DOMAIN lfn = 1 .. N
    BY LenProperties
  <2>2. N # 0
    BY EmptySeq DEF Snipped
  <2> HIDE DEF N
  <2> QED
    BY <2>1, <2>2
<1>2. lfn[N] # " "
  BY DEF Snipped
<1> HIDE DEF N
<1>3. letters \subseteq Nat /\ letters # {}
  <2>1. N \in letters
    BY <1>1, <1>2
  <2>2. letters \subseteq 1 .. N
    OBVIOUS
  <2>3. 1 .. N \subseteq Nat
    BY <1>1
  <2> HIDE DEF letters
  <2> QED
    BY <2>1, <2>2, <2>3
<1>4. PICK m \in letters : \A y \in letters : m <= y
  <2> HIDE DEF letters
  <2> QED
    BY <1>3, LeastOf
<1>5. m \in 1 .. N /\ lfn[m] # " "
  OBVIOUS
<1>11. N \in Nat
  BY <1>1
<1>12. m \in Nat /\ m <= N
  <2>1. m \in 1 .. N
    BY <1>5
  <2> HIDE DEF letters
  <2> QED
    BY <1>11, <2>1
<1>6. ASSUME NEW j \in 1 .. m - 1
      PROVE  lfn[j] = " "
  <2>1. j \in 1 .. N /\ ~(m <= j)
    <3> HIDE DEF letters
    <3> QED
      BY <1>11, <1>12
  <2>2. j \notin letters
    BY <1>4, <2>1
  <2> QED
    BY <2>1, <2>2
<1>7. first \in DOMAIN lfn
  <2>1. m \in DOMAIN lfn
    BY <1>1, <1>5
  <2> QED
    BY <1>5, <1>6, <2>1
<1>8. Leading(lfn) = first - 1
  BY DEF Leading
<1> HIDE DEF first
<1>9. first \in 1 .. N
  BY <1>1, <1>7
<1>10. Leading(lfn) \in 0 .. N
  <2>1. \A x \in 1 .. N : x - 1 \in 0 .. N
    <3> HIDE DEF letters
    <3> QED
      BY <1>11
  <2> HIDE DEF letters
  <2>2. first - 1 \in 0 .. N
    BY <1>9, <2>1
  <2> QED
    BY <1>8, <2>2
<1> QED
  BY <1>10 DEF N

\* Its last dot is inside, or there is none.
LEMMA NameEnds ==
  ASSUME NEW C, NEW lfn \in Seq(C)
  PROVE  LastDot(lfn) \in 0 .. Len(lfn)
<1> DEFINE N == Len(lfn)
           at == {i \in DOMAIN lfn : lfn[i] = "."}
           dot == LastDot(lfn)
<1>1. N \in Nat /\ DOMAIN lfn = 1 .. N
  OBVIOUS
<1>2. IsLast(dot, at)
  BY DEF LastDot, UpToLast, IsLast
<1>3. at \subseteq DOMAIN lfn
  OBVIOUS
<1> HIDE DEF N, at, dot
<1>4. Places(at, N)
  BY <1>1, <1>3 DEF Places
<1>5. LastPlace(dot, at, N)
  BY <1>1, <1>2, <1>4, LastIs
<1> QED
  BY <1>5 DEF LastPlace, dot, N

\* The 8.3 form that create_name makes is well-formed, whatever the name: a
\* letter of two bytes is written whole or not at all.
THEOREM FormsKeepLetters ==
  ASSUME NEW C, "K1" \notin C, "K2" \notin C, NEW nm \in Seq(C), create_name(nm).ok
  PROVE  WellFormed(create_name(nm).fn) /\ DOMAIN create_name(nm).fn = 0 .. Body + Ext - 1
<1> DEFINE lfn == Snip(nm)
           N == Len(lfn)
           lead == Leading(lfn)
           dot == LastDot(lfn)
           cf0 == IF lead > 0 \/ lfn[lead + 1] = "." THEN LOSSY ELSE {}
           fn0 == [i \in 0 .. Body + Ext - 1 |-> " "]
           r0 == [si |-> lead, i |-> 0, ni |-> Body, caps |-> {}, end |-> FALSE, fn |-> fn0, cf |-> cf0]
           r == name_bytes(lfn, dot, r0)
<1>1. lfn \in Seq(C) /\ (lfn # <<>> => lfn[Len(lfn)] \notin {".", " "})
  BY SnipIs
<1>2. lfn # <<>>
  BY DEF create_name
<1>3. create_name(nm).fn = r.fn
  BY <1>2 DEF create_name, Leading, LastDot
<1> HIDE DEF lfn
<1>4. lead \in 0 .. N
  <2>1. Snipped(lfn)
    BY <1>1, <1>2 DEF Snipped
  <2> QED
    BY <1>1, <2>1, NameBegins
<1>5. dot \in 0 .. N
  BY <1>1, NameEnds
<1>11. N \in Nat
  BY <1>1, LenProperties
<1> HIDE DEF lead, dot, N
<1> DEFINE Blanks(w) == [i \in 0 .. w - 1 |-> " "]
<1>6. fn0 = [i \in 0 .. Whole - 1 |-> " "]
  <2>1. fn0 = Blanks(Body + Ext)
    BY NameAssumption
  <2> HIDE DEF Blanks, fn0
  <2>2. fn0 = Blanks(Whole)
    BY <2>1 DEF Whole
  <2> QED
    BY <2>2 DEF Blanks
<1> HIDE DEF fn0
<1>7. FieldFilled(fn0, 0, Body)
  <2>1. Body \in Nat \ {0} /\ Whole \in Nat /\ Body < Whole
    BY FieldLengths
  <2>2. \A k \in 0 .. Whole - 1 : fn0[k] = " "
    BY <1>6
  <2>3. Blank(fn0, 0)
    BY <2>2 DEF Blank
  <2>4. InField(fn0, 0, Body)
    <3>1. \A k \in 0 .. Body - 1 : k \in 0 .. Whole - 1
      BY <2>1
    <3> QED
      BY <2>2, <3>1 DEF InField
  <2>5. InField(fn0, Body, Whole)
    <3>1. \A k \in Body .. Whole - 1 : k \in 0 .. Whole - 1
      BY <2>1
    <3> QED
      BY <2>2, <3>1 DEF InField
  <2>6. At(0, Body)
    BY <2>1 DEF At
  <2> QED
    BY <2>3, <2>4, <2>5, <2>6 DEF FieldFilled
<1>8. Making(C, N, r0)
  <2> DEFINE D == BytesOf(C)
             W == 0 .. Whole - 1
  <2>1. fn0 \in [W -> D]
    <3>1. " " \in D
      BY DEF BytesOf
    <3> HIDE DEF D, W
    <3>2. fn0 = [i \in W |-> " "]
      BY <1>6 DEF W
    <3> QED
      BY <3>1, <3>2
  <2>2. lead \in 0 .. N /\ Body \in Nat /\ cf0 \in SUBSET LOSSY
    BY <1>4, FieldLengths
  <2> HIDE DEF cf0, D
  <2>3. r0 \in Loops(C, N)
    BY <2>1, <2>2 DEF Loops, D, W
  <2>4. r0.fn = fn0 /\ r0.i = 0 /\ r0.ni = Body
    OBVIOUS
  <2> HIDE DEF r0
  <2> QED
    BY <1>7, <2>3, <2>4 DEF Making
<1> HIDE DEF r0
<1>9. Making(C, N, r)
  BY <1>1, <1>5, <1>8, PassesMake DEF N
<1> HIDE DEF r
<1>10. InField(r.fn, 0, Body) /\ InField(r.fn, Body, Whole) /\ DOMAIN r.fn = 0 .. Whole - 1
  BY <1>9 DEF Making, FieldFilled, Loops
<1>12. WellFormed(r.fn)
  BY <1>10, FieldsWellFormed DEF Whole
<1> QED
  BY <1>3, <1>10, <1>12, NameAssumption DEF Whole

-----------------------------------------------------------------------------
(***************************************************************************)
(* FatExDir: the sum of an entry set sees that one of its bytes changed.   *)
(***************************************************************************)
Sum16 == {u \in Nat : u < 65536}
Byte8 == {b \in Nat : b < 256}

\* Rotation loses nothing, so a sum tells both what it was and what was added.
LEMMA SumsDiffer ==
  ASSUME NEW s \in Sum16, NEW t \in Sum16, NEW a \in Byte8, NEW b \in Byte8
  PROVE  /\ sum_on(s, a) \in Sum16
         /\ s # t /\ a = b => sum_on(s, a) # sum_on(t, b)
         /\ s = t /\ a # b => sum_on(s, a) # sum_on(t, b)
<1> DEFINE rot(u) == (u % 2) * 32768 + u \div 2
<1>1. ASSUME NEW u \in Nat
      PROVE  /\ u % 2 = 0 \/ u % 2 = 1
             /\ u = 2 * (u \div 2) + (u % 2) /\ u \div 2 \in Nat
  OBVIOUS
<1>2. ASSUME NEW u \in Sum16
      PROVE  /\ rot(u) \in Sum16
             /\ u % 2 = 0 => rot(u) = u \div 2 /\ rot(u) < 32768
             /\ u % 2 = 1 => rot(u) = 32768 + u \div 2
  <2>1. u \in Nat /\ u < 65536
    BY DEF Sum16
  <2>2. u \div 2 \in Nat /\ u \div 2 <= 32767
    BY <1>1, <2>1
  <2>3. CASE u % 2 = 0
    BY <2>2, <2>3 DEF Sum16
  <2>4. CASE u % 2 = 1
    BY <2>2, <2>4 DEF Sum16
  <2> QED
    BY <1>1, <2>1, <2>3, <2>4
<1>3. ASSUME NEW u \in Sum16, NEW v \in Sum16, rot(u) = rot(v)
      PROVE  u = v
  <2>1. u \in Nat /\ v \in Nat
    BY DEF Sum16
  <2>2. u % 2 = v % 2 /\ u \div 2 = v \div 2
    <3> HIDE DEF rot
    <3> QED
      BY <1>1, <1>2, <1>3, <2>1
  <2> QED
    BY <1>1, <2>1, <2>2
<1>4. sum_on(s, a) = (rot(s) + a) % 65536 /\ sum_on(t, b) = (rot(t) + b) % 65536
  BY DEF sum_on
<1> HIDE DEF rot
<1>5. ASSUME NEW u \in Nat, u < 131072
      PROVE  /\ u % 65536 \in Nat
             /\ (u % 65536 = u /\ u < 65536) \/ (u % 65536 = u - 65536 /\ u >= 65536)
  <2> DEFINE k == 65536
             d == u \div k
             r == u % k
  <2>1. k \in Nat \ {0}
    OBVIOUS
  <2>2. d \in Nat /\ r \in 0 .. k - 1 /\ u = k * d + r
    <3> HIDE DEF k
    <3>1. u \div k \in Nat
      BY <1>5, <2>1, Quotient
    <3>2. u % k \in 0 .. k - 1
      BY <1>5, <2>1, ModuloIs
    <3>3. u = k * (u \div k) + (u % k)
      BY <1>5, <2>1, Division
    <3> QED
      BY <3>1, <3>2, <3>3
  <2> HIDE DEF d, r
  <2>3. r \in Nat /\ r < 65536 /\ (d = 0 \/ d = 1) /\ u = 65536 * d + r
    <3>1. d \in Nat /\ r \in Nat /\ r < 65536 /\ u = 65536 * d + r
      BY <2>2
    <3>2. 65536 * d < 131072
      BY <1>5, <3>1
    <3>3. d = 0 \/ d = 1
      BY <3>1, <3>2
    <3> QED
      BY <3>1, <3>3
  <2>4. (r = u /\ u < 65536) \/ (r = u - 65536 /\ u >= 65536)
    BY <1>5, <2>3
  <2> QED
    BY <2>3, <2>4 DEF r
<1>6. rot(s) \in Sum16 /\ rot(t) \in Sum16
  BY <1>2
<1> DEFINE p == rot(s)
           q == rot(t)
           m == (p + a) % 65536
           n == (q + b) % 65536
<1>7. p \in Nat /\ q \in Nat /\ a \in Nat /\ b \in Nat /\ p < 65536 /\ q < 65536 /\ a < 256 /\ b < 256
  BY <1>6 DEF Sum16, Byte8
<1>8. m \in Nat /\ ((m = p + a /\ p + a < 65536) \/ (m = p + a - 65536 /\ p + a >= 65536))
  <2> HIDE DEF p
  <2> DEFINE w == p + a
  <2>1. w \in Nat /\ w < 131072
    BY <1>7
  <2>3. m = w % 65536 /\ w = p + a
    OBVIOUS
  <2> HIDE DEF w
  <2>2. /\ w % 65536 \in Nat
        /\ (w % 65536 = w /\ w < 65536) \/ (w % 65536 = w - 65536 /\ w >= 65536)
    BY <1>5, <2>1
  <2> HIDE DEF m
  <2> QED
    BY <1>7, <2>1, <2>2, <2>3
<1>9. n \in Nat /\ ((n = q + b /\ q + b < 65536) \/ (n = q + b - 65536 /\ q + b >= 65536))
  <2> HIDE DEF q
  <2> DEFINE w == q + b
  <2>1. w \in Nat /\ w < 131072
    BY <1>7
  <2>3. n = w % 65536 /\ w = q + b
    OBVIOUS
  <2> HIDE DEF w
  <2>2. /\ w % 65536 \in Nat
        /\ (w % 65536 = w /\ w < 65536) \/ (w % 65536 = w - 65536 /\ w >= 65536)
    BY <1>5, <2>1
  <2> HIDE DEF n
  <2> QED
    BY <1>7, <2>1, <2>2, <2>3
<1> HIDE DEF p, q, m, n
<1>10. m < 65536
  BY <1>7, <1>8
<1>11. (p = q /\ a # b => m # n) /\ (p # q /\ a = b => m # n)
  BY <1>7, <1>8, <1>9
<1>12. s # t => p # q
  BY <1>3 DEF p, q
<1>13. sum_on(s, a) = m /\ sum_on(t, b) = n /\ (s = t => p = q)
  BY <1>4 DEF p, q, m, n
<1>14. m \in Sum16
  BY <1>8, <1>10 DEF Sum16
<1> QED
  BY <1>11, <1>12, <1>13, <1>14

\* The sums of a sequence of bytes, one after the other.
Summing(f, s, x) ==
  /\ f \in [0 .. Len(x) -> Sum16] /\ f[0] = s
  /\ \A i \in 1 .. Len(x) : f[i] = sum_on(f[i - 1], x[i])
  /\ sum_all(s, x) = f[Len(x)]

\* There are such sums.
LEMMA SummingExists ==
  ASSUME NEW s \in Sum16, NEW x \in Seq(Byte8)
  PROVE  \E f : Summing(f, s, x)
<1> DEFINE N == Len(x)
           Is(f) == f = [n \in 0 .. N |-> IF n = 0 THEN s ELSE sum_on(f[n - 1], x[n])]
           g == [n \in Nat |-> [u \in Sum16 |-> IF n \in 1 .. N THEN sum_on(u, x[n]) ELSE u]]
<1>1. N \in Nat /\ \A n \in 1 .. N : x[n] \in Byte8
  OBVIOUS
<1>2. \A n \in 1 .. N : \A u \in Sum16 : sum_on(u, x[n]) \in Sum16
  BY <1>1, SumsDiffer
<1>3. g \in [Nat -> [Sum16 -> Sum16]]
  BY <1>2
<1> HIDE DEF N
<1>4. PICK f \in [0 .. N -> Sum16] : Steps(f, N, s, g)
  <2> HIDE DEF g
  <2> QED
    BY <1>1, <1>3, StepsExist
<1>5. Is(f)
  <2>1. f = [n \in 0 .. N |-> IF n = 0 THEN s ELSE g[n][f[n - 1]]]
    BY <1>4 DEF Steps
  <2>2. \A n \in 0 .. N : n # 0 => g[n][f[n - 1]] = sum_on(f[n - 1], x[n])
    <3> SUFFICES ASSUME NEW n \in 0 .. N, n # 0 PROVE g[n][f[n - 1]] = sum_on(f[n - 1], x[n])
      OBVIOUS
    <3>1. n \in Nat /\ n \in 1 .. N /\ n - 1 \in 0 .. N
      BY <1>1
    <3>2. f[n - 1] \in Sum16
      BY <1>4, <3>1
    <3> QED
      BY <3>1, <3>2
  <2> HIDE DEF g
  <2> QED
    BY <2>1, <2>2
<1> DEFINE F == CHOOSE f1 : Is(f1)
<1>6. Is(F)
  <2> HIDE DEF Is
  <2> QED
    BY <1>5
<1> HIDE DEF F
<1>7. F = [n \in 0 .. N |-> IF n = 0 THEN s ELSE sum_on(F[n - 1], x[n])]
  BY <1>6
<1>8. sum_all(s, x) = F[N]
  BY DEF sum_all, F, N
<1> DEFINE T == {n \in 0 .. N : F[n] \in Sum16}
<1>9. \A n \in 0 .. N : n \in T
  <2>1. 0 \in T
    BY <1>1, <1>7
  <2>2. \A n \in 0 .. N - 1 : n \in T => n + 1 \in T
    <3> SUFFICES ASSUME NEW n \in 0 .. N - 1, F[n] \in Sum16
                 PROVE  n + 1 \in 0 .. N /\ F[n + 1] \in Sum16
      OBVIOUS
    <3>1. n + 1 \in 0 .. N /\ n + 1 \in 1 .. N /\ n + 1 # 0 /\ (n + 1) - 1 = n
      BY <1>1
    <3>2. F[n + 1] = sum_on(F[(n + 1) - 1], x[n + 1])
      BY <1>7, <3>1
    <3> QED
      BY <1>2, <3>1, <3>2
  <2> HIDE DEF T
  <2> QED
    BY <1>1, <2>1, <2>2, ForAllBelow
<1>10. F \in [0 .. N -> Sum16]
  BY <1>7, <1>9
<1>11. F[0] = s /\ \A i \in 1 .. N : F[i] = sum_on(F[i - 1], x[i])
  BY <1>1, <1>7
<1> QED
  BY <1>8, <1>10, <1>11 DEF Summing, N

\* x and y are bytes that differ in place j only; in none if that is 0, but then
\* what was summed before does.
OneChange(s, t, x, y, j) ==
  /\ Len(x) = Len(y) /\ j \in 0 .. Len(x)
  /\ j = 0 <=> s # t
  /\ \A i \in 1 .. Len(x) : x[i] = y[i] <=> i # j

\* The last of them tells that one place has changed.
LEMMA SumSeesChange ==
  ASSUME NEW s \in Sum16, NEW t \in Sum16, NEW x \in Seq(Byte8), NEW y \in Seq(Byte8), NEW j,
         OneChange(s, t, x, y, j)
  PROVE  sum_all(s, x) # sum_all(t, y)
<1> DEFINE N == Len(x)
<1>1. N \in Nat /\ j \in 0 .. N /\ Len(y) = N /\ \A i \in 1 .. N : x[i] \in Byte8 /\ y[i] \in Byte8
  BY DEF OneChange
<1>2. (j = 0 <=> s # t) /\ \A i \in 1 .. N : x[i] = y[i] <=> i # j
  BY DEF OneChange
<1>3. PICK f : Summing(f, s, x)
  BY SummingExists
<1>4. PICK h : Summing(h, t, y)
  BY SummingExists
<1>5. /\ f \in [0 .. N -> Sum16] /\ f[0] = s /\ sum_all(s, x) = f[N]
      /\ \A i \in 1 .. N : f[i] = sum_on(f[i - 1], x[i])
  BY <1>3 DEF Summing
<1>6. /\ h \in [0 .. N -> Sum16] /\ h[0] = t /\ sum_all(t, y) = h[N]
      /\ \A i \in 1 .. N : h[i] = sum_on(h[i - 1], y[i])
  BY <1>1, <1>4 DEF Summing
<1> HIDE DEF N
<1> DEFINE T == {i \in 0 .. N : f[i] # h[i] <=> i >= j}
<1>7. 0 \in T
  BY <1>1, <1>2, <1>5, <1>6
<1>8. \A n \in 0 .. N - 1 : n \in T => n + 1 \in T
  <2> SUFFICES ASSUME NEW n \in 0 .. N - 1, f[n] # h[n] <=> n >= j
               PROVE  n + 1 \in 0 .. N /\ (f[n + 1] # h[n + 1] <=> n + 1 >= j)
    OBVIOUS
  <2> DEFINE k == n + 1
             u == f[n]
             v == h[n]
             a == x[k]
             b == y[k]
  <2>1. k \in 0 .. N /\ k \in 1 .. N /\ k - 1 = n /\ n \in 0 .. N
    BY <1>1
  <2>2. f[k] = sum_on(u, a) /\ h[k] = sum_on(v, b)
    BY <1>5, <1>6, <2>1
  <2>3. u \in Sum16 /\ v \in Sum16 /\ a \in Byte8 /\ b \in Byte8
    BY <1>1, <1>5, <1>6, <2>1
  <2>4. (u # v <=> n >= j) /\ (a = b <=> k # j)
    BY <1>2, <2>1
  <2>5. (n >= j => k >= j /\ k # j) /\ (k = j => ~(n >= j)) /\ (~(n >= j) /\ k # j => ~(k >= j))
    BY <1>1, <2>1
  <2> HIDE DEF k, u, v, a, b
  <2>6. CASE u # v /\ a = b
    <3>1. f[k] # h[k]
      BY <2>2, <2>3, <2>6, SumsDiffer
    <3> QED
      BY <2>1, <2>4, <2>5, <2>6, <3>1 DEF k
  <2>7. CASE u = v /\ a # b
    <3>1. f[k] # h[k]
      BY <2>2, <2>3, <2>7, SumsDiffer
    <3>2. k >= j
      BY <1>1, <2>1, <2>4, <2>7
    <3> QED
      BY <2>1, <3>1, <3>2 DEF k
  <2>8. CASE u = v /\ a = b
    <3>1. f[k] = h[k]
      BY <2>2, <2>8
    <3> QED
      BY <2>1, <2>4, <2>5, <2>8, <3>1 DEF k
  <2>9. ~(u # v /\ a # b)
    BY <2>4, <2>5
  <2> QED
    BY <2>6, <2>7, <2>8, <2>9
<1> HIDE DEF T
<1>9. \A i \in 0 .. N : i \in T
  BY <1>1, <1>7, <1>8, ForAllBelow
<1>10. N \in 0 .. N /\ N >= j
  BY <1>1
<1>11. f[N] # h[N]
  BY <1>9, <1>10 DEF T
<1> QED
  BY <1>5, <1>6, <1>11

-----------------------------------------------------------------------------
\* Sets of entries of bytes; the first one is long enough to hold the sum.
EntrySets == {set \in Seq(Seq(Byte8)) : Len(set) >= 1 /\ Len(set[1]) >= 4}

\* What is summed of an entry are bytes.
LEMMA CountedBytes ==
  ASSUME NEW set \in EntrySets, NEW k \in 1 .. Len(set)
  PROVE  counted(set, k) \in Seq(Byte8)
<1>1. set \in Seq(Seq(Byte8)) /\ Len(set) >= 1 /\ Len(set[1]) >= 4 /\ 1 \in 1 .. Len(set)
  BY DEF EntrySets
<1> DEFINE x == set[1]
           n == Len(x)
<1>2. x \in Seq(Byte8) /\ set[k] \in Seq(Byte8)
  BY <1>1
<1>3. n \in Nat /\ n >= 4 /\ \A i \in 1 .. n : x[i] \in Byte8
  BY <1>1, <1>2
<1>4. CASE k # 1
  BY <1>2, <1>4 DEF counted
<1>5. CASE k = 1
  <2> DEFINE y == [i \in 1 .. n - 2 |-> x[IF i <= 2 THEN i ELSE i + 2]]
  <2> HIDE DEF x, n
  <2>1. \A i \in 1 .. n - 2 : (IF i <= 2 THEN i ELSE i + 2) \in 1 .. n
    BY <1>3
  <2>2. y \in [1 .. n - 2 -> Byte8] /\ n - 2 \in Nat
    BY <1>3, <2>1
  <2> HIDE DEF y
  <2>3. y \in Seq(Byte8)
    BY <2>2
  <2> QED
    BY <1>5, <2>3 DEF counted, y, x, n
<1> QED
  BY <1>4, <1>5

\* The sums of a set, one entry after the other.
SetSumming(f, set) ==
  /\ f \in [0 .. Len(set) -> Sum16] /\ f[0] = 0
  /\ \A k \in 1 .. Len(set) : f[k] = sum_all(f[k - 1], counted(set, k))
  /\ xdir_sum(set) = f[Len(set)]

\* A sum of bytes has 16 bits.
LEMMA SumAllIs ==
  ASSUME NEW s \in Sum16, NEW x \in Seq(Byte8)
  PROVE  sum_all(s, x) \in Sum16
<1>1. PICK f : Summing(f, s, x)
  BY SummingExists
<1>2. f \in [0 .. Len(x) -> Sum16] /\ sum_all(s, x) = f[Len(x)] /\ Len(x) \in 0 .. Len(x)
  BY <1>1 DEF Summing
<1> QED
  BY <1>2

\* A set has such sums.
LEMMA SetSummingExists ==
  ASSUME NEW set \in EntrySets
  PROVE  \E f : SetSumming(f, set)
<1> DEFINE N == Len(set)
           Is(f) == f = [k \in 0 .. N |-> IF k = 0 THEN 0 ELSE sum_all(f[k - 1], counted(set, k))]
           g == [k \in Nat |-> [u \in Sum16 |-> IF k \in 1 .. N THEN sum_all(u, counted(set, k)) ELSE u]]
<1>1. N \in Nat /\ 0 \in Sum16
  BY DEF EntrySets, Sum16
<1>2. \A k \in 1 .. N : \A u \in Sum16 : sum_all(u, counted(set, k)) \in Sum16
  BY CountedBytes, SumAllIs
<1>3. g \in [Nat -> [Sum16 -> Sum16]]
  BY <1>2
<1> HIDE DEF N
<1>4. PICK f \in [0 .. N -> Sum16] : Steps(f, N, 0, g)
  <2> HIDE DEF g
  <2> QED
    BY <1>1, <1>3, StepsExist
<1>5. Is(f)
  <2>1. f = [k \in 0 .. N |-> IF k = 0 THEN 0 ELSE g[k][f[k - 1]]]
    BY <1>4 DEF Steps
  <2>2. \A k \in 0 .. N : k # 0 => g[k][f[k - 1]] = sum_all(f[k - 1], counted(set, k))
    <3> SUFFICES ASSUME NEW k \in 0 .. N, k # 0
                 PROVE  g[k][f[k - 1]] = sum_all(f[k - 1], counted(set, k))
      OBVIOUS
    <3>1. k \in Nat /\ k \in 1 .. N /\ k - 1 \in 0 .. N
      BY <1>1
    <3>2. f[k - 1] \in Sum16
      BY <1>4, <3>1
    <3> QED
      BY <3>1, <3>2
  <2> HIDE DEF g
  <2> QED
    BY <2>1, <2>2
<1> DEFINE F == CHOOSE f1 : Is(f1)
<1>6. Is(F)
  <2> HIDE DEF Is
  <2> QED
    BY <1>5
<1> HIDE DEF F
<1>7. F = [k \in 0 .. N |-> IF k = 0 THEN 0 ELSE sum_all(F[k - 1], counted(set, k))]
  BY <1>6
<1>8. xdir_sum(set) = F[N]
  BY DEF xdir_sum, F, N
<1> DEFINE T == {k \in 0 .. N : F[k] \in Sum16}
<1>9. \A k \in 0 .. N : k \in T
  <2>1. 0 \in T
    BY <1>1, <1>7
  <2>2. \A k \in 0 .. N - 1 : k \in T => k + 1 \in T
    <3> SUFFICES ASSUME NEW k \in 0 .. N - 1, F[k] \in Sum16
                 PROVE  k + 1 \in 0 .. N /\ F[k + 1] \in Sum16
      OBVIOUS
    <3>1. k + 1 \in 0 .. N /\ k + 1 \in 1 .. N /\ k + 1 # 0 /\ (k + 1) - 1 = k
      BY <1>1
    <3>2. F[k + 1] = sum_all(F[(k + 1) - 1], counted(set, k + 1))
      BY <1>7, <3>1
    <3> QED
      BY <1>2, <3>1, <3>2
  <2> HIDE DEF T
  <2> QED
    BY <1>1, <2>1, <2>2, ForAllBelow
<1>10. F \in [0 .. N -> Sum16]
  BY <1>7, <1>9
<1>11. F[0] = 0 /\ \A k \in 1 .. N : F[k] = sum_all(F[k - 1], counted(set, k))
  BY <1>1, <1>7
<1> QED
  BY <1>8, <1>10, <1>11 DEF SetSumming, N

-----------------------------------------------------------------------------
\* Two sets that differ in one byte, byte i of entry k.
OneByte(set, other, k, i) ==
  /\ Len(other) = Len(set) /\ k \in 1 .. Len(set) /\ i \in 1 .. Len(set[k])
  /\ \A m \in 1 .. Len(set) : m # k => other[m] = set[m]
  /\ Len(other[k]) = Len(set[k])
  /\ \A j \in 1 .. Len(set[k]) : other[k][j] = set[k][j] <=> j # i

\* x and y differ in place j only.
DifferAt(x, y, j) == Len(y) = Len(x) /\ j \in 1 .. Len(x) /\ \A i \in 1 .. Len(x) : x[i] = y[i] <=> i # j

\* What is summed of them differs in one byte too, unless that is of the sum.
LEMMA CountedDiffer ==
  ASSUME NEW set \in EntrySets, NEW other \in EntrySets, NEW k, NEW i,
         OneByte(set, other, k, i), ~(k = 1 /\ i \in {3, 4})
  PROVE  \E j : DifferAt(counted(set, k), counted(other, k), j)
<1> DEFINE p == set[k]
           q == other[k]
           n == Len(p)
<1>1. k \in 1 .. Len(set) /\ set \in Seq(Seq(Byte8)) /\ other \in Seq(Seq(Byte8)) /\ Len(other) = Len(set)
  BY DEF OneByte, EntrySets
<1>2. p \in Seq(Byte8) /\ q \in Seq(Byte8)
  BY <1>1
<1>3. n \in Nat /\ Len(q) = n /\ i \in 1 .. n /\ \A j \in 1 .. n : q[j] = p[j] <=> j # i
  BY <1>2 DEF OneByte
<1>4. CASE k # 1
  <2>1. counted(set, k) = p /\ counted(other, k) = q
    BY <1>4 DEF counted
  <2> HIDE DEF p, q
  <2>2. DifferAt(p, q, i)
    BY <1>3 DEF DifferAt
  <2> QED
    BY <2>1, <2>2
<1>5. CASE k = 1
  <2> DEFINE at(m) == IF m <= 2 THEN m ELSE m + 2
             x == [m \in 1 .. n - 2 |-> p[at(m)]]
             y == [m \in 1 .. n - 2 |-> q[at(m)]]
             j == IF i <= 2 THEN i ELSE i - 2
  <2>1. counted(set, k) = x /\ counted(other, k) = y
    BY <1>3, <1>5 DEF counted
  <2>2. n >= 4 /\ i # 3 /\ i # 4
    BY <1>5 DEF EntrySets
  <2> HIDE DEF p, q, n
  <2>3. \A m \in 1 .. n - 2 : at(m) \in 1 .. n /\ (at(m) = i <=> m = j)
    BY <1>3, <2>2
  <2>4. j \in 1 .. n - 2
    BY <1>3, <2>2
  <2> HIDE DEF at, j
  <2>5. \A m \in 1 .. n - 2 : x[m] = y[m] <=> m # j
    BY <1>3, <2>3
  <2>6. Len(x) = n - 2 /\ Len(y) = n - 2
    BY <1>3, <2>2
  <2> HIDE DEF x, y
  <2>7. DifferAt(x, y, j)
    BY <2>4, <2>5, <2>6 DEF DifferAt
  <2> QED
    BY <2>1, <2>7
<1> QED
  BY <1>4, <1>5

\* A sum sees a byte that changed.
LEMMA SumSeesByte ==
  ASSUME NEW set \in EntrySets, NEW other \in EntrySets, NEW k, NEW i,
         OneByte(set, other, k, i), ~(k = 1 /\ i \in {3, 4})
  PROVE  xdir_sum(set) # xdir_sum(other)
<1> DEFINE N == Len(set)
           x(m) == counted(set, m)
           y(m) == counted(other, m)
<1>1. N \in Nat /\ k \in 1 .. N /\ Len(other) = N
  BY DEF OneByte, EntrySets
<1>2. PICK f : SetSumming(f, set)
  BY SetSummingExists
<1>3. PICK h : SetSumming(h, other)
  BY SetSummingExists
<1>4. /\ f \in [0 .. N -> Sum16] /\ f[0] = 0 /\ xdir_sum(set) = f[N]
      /\ \A m \in 1 .. N : f[m] = sum_all(f[m - 1], x(m))
  BY <1>2 DEF SetSumming
<1>5. /\ h \in [0 .. N -> Sum16] /\ h[0] = 0 /\ xdir_sum(other) = h[N]
      /\ \A m \in 1 .. N : h[m] = sum_all(h[m - 1], y(m))
  BY <1>1, <1>3 DEF SetSumming
<1>6. \A m \in 1 .. N : x(m) \in Seq(Byte8) /\ y(m) \in Seq(Byte8)
  BY <1>1, CountedBytes
<1>7. \A m \in 1 .. N : m # k => x(m) = y(m)
  BY DEF OneByte, counted
<1>8. PICK j : DifferAt(x(k), y(k), j)
  BY CountedDiffer
<1> HIDE DEF x, y, N
<1> DEFINE T == {m \in 0 .. N : f[m] # h[m] <=> m >= k}
<1>9. 0 \in T
  BY <1>1, <1>4, <1>5
<1>10. \A n \in 0 .. N - 1 : n \in T => n + 1 \in T
  <2> SUFFICES ASSUME NEW n \in 0 .. N - 1, f[n] # h[n] <=> n >= k
               PROVE  n + 1 \in 0 .. N /\ (f[n + 1] # h[n + 1] <=> n + 1 >= k)
    OBVIOUS
  <2> DEFINE e == n + 1
             u == f[n]
             v == h[n]
             a == x(e)
             b == y(e)
  <2>1. e \in 0 .. N /\ e \in 1 .. N /\ e - 1 = n /\ n \in 0 .. N
    BY <1>1
  <2>2. f[e] = sum_all(u, a) /\ h[e] = sum_all(v, b)
    BY <1>4, <1>5, <2>1
  <2>3. u \in Sum16 /\ v \in Sum16 /\ a \in Seq(Byte8) /\ b \in Seq(Byte8)
    BY <1>4, <1>5, <1>6, <2>1
  <2>4. (u # v <=> n >= k) /\ (e # k => a = b) /\ (e = k => DifferAt(a, b, j))
    BY <1>7, <1>8, <2>1
  <2>5. (n >= k => e >= k /\ e # k) /\ (e = k => ~(n >= k)) /\ (~(n >= k) /\ e # k => ~(e >= k))
        /\ (e = k => e >= k)
    BY <1>1, <2>1
  <2> HIDE DEF e, u, v, a, b
  <2>6. CASE u # v
    <3>1. a = b
      BY <2>4, <2>5, <2>6
    <3>2. OneChange(u, v, a, b, 0)
      BY <2>3, <2>6, <3>1 DEF OneChange
    <3>3. f[e] # h[e]
      BY <2>2, <2>3, <3>2, SumSeesChange
    <3> QED
      BY <2>1, <2>4, <2>5, <2>6, <3>3 DEF e
  <2>7. CASE u = v /\ e = k
    <3>1. DifferAt(a, b, j) /\ Len(a) \in Nat
      BY <2>3, <2>4, <2>7
    <3>2. OneChange(u, v, a, b, j)
      BY <2>7, <3>1 DEF OneChange, DifferAt
    <3>3. f[e] # h[e]
      BY <2>2, <2>3, <3>2, SumSeesChange
    <3> QED
      BY <2>1, <2>5, <2>7, <3>3 DEF e
  <2>8. CASE u = v /\ e # k
    <3>1. f[e] = h[e]
      BY <2>2, <2>4, <2>8
    <3> QED
      BY <2>1, <2>4, <2>5, <2>8, <3>1 DEF e
  <2> QED
    BY <2>6, <2>7, <2>8
<1> HIDE DEF T
<1>11. \A m \in 0 .. N : m \in T
  BY <1>1, <1>9, <1>10, ForAllBelow
<1>12. N \in 0 .. N /\ N >= k
  BY <1>1
<1>13. f[N] # h[N]
  BY <1>11, <1>12 DEF T
<1> QED
  BY <1>4, <1>5, <1>13

-----------------------------------------------------------------------------
\* The two bytes of the sum itself are not summed.
LEMMA SumSkipsItself ==
  ASSUME NEW set \in EntrySets, NEW other \in EntrySets, NEW i,
         OneByte(set, other, 1, i), i \in {3, 4}
  PROVE  xdir_sum(set) = xdir_sum(other)
<1> DEFINE N == Len(set)
           x(m) == counted(set, m)
           y(m) == counted(other, m)
<1>1. N \in Nat /\ 1 \in 1 .. N /\ Len(other) = N
  BY DEF OneByte, EntrySets
<1>2. PICK f : SetSumming(f, set)
  BY SetSummingExists
<1>3. PICK h : SetSumming(h, other)
  BY SetSummingExists
<1>4. f[0] = 0 /\ xdir_sum(set) = f[N] /\ \A m \in 1 .. N : f[m] = sum_all(f[m - 1], x(m))
  BY <1>2 DEF SetSumming
<1>5. h[0] = 0 /\ xdir_sum(other) = h[N] /\ \A m \in 1 .. N : h[m] = sum_all(h[m - 1], y(m))
  BY <1>1, <1>3 DEF SetSumming
<1>6. \A m \in 1 .. N : x(m) = y(m)
  <2>1. \A m \in 1 .. N : m # 1 => x(m) = y(m)
    BY DEF OneByte, counted
  <2>2. x(1) = y(1)
    <3> DEFINE p == set[1]
               q == other[1]
               n == Len(p)
               at(m) == IF m <= 2 THEN m ELSE m + 2
    <3>1. x(1) = [m \in 1 .. n - 2 |-> p[at(m)]] /\ y(1) = [m \in 1 .. Len(q) - 2 |-> q[at(m)]]
      BY DEF counted
    <3>2. p \in Seq(Byte8)
      BY <1>1 DEF EntrySets
    <3>3. n \in Nat /\ Len(q) = n /\ \A j \in 1 .. n : q[j] = p[j] <=> j # i
      BY <3>2 DEF OneByte
    <3> HIDE DEF x, y, p, q, n
    <3>4. \A m \in 1 .. n - 2 : at(m) \in 1 .. n /\ at(m) # i
      BY <3>3
    <3> HIDE DEF at
    <3>5. \A m \in 1 .. n - 2 : p[at(m)] = q[at(m)]
      BY <3>3, <3>4
    <3> QED
      BY <3>1, <3>3, <3>5
  <2> QED
    BY <2>1, <2>2
<1> HIDE DEF N, x, y
<1> DEFINE T == {m \in 0 .. N : f[m] = h[m]}
<1>7. 0 \in T
  BY <1>1, <1>4, <1>5
<1>8. \A n \in 0 .. N - 1 : n \in T => n + 1 \in T
  <2> SUFFICES ASSUME NEW n \in 0 .. N - 1, f[n] = h[n]
               PROVE  n + 1 \in 0 .. N /\ f[n + 1] = h[n + 1]
    OBVIOUS
  <2>1. n + 1 \in 0 .. N /\ n + 1 \in 1 .. N /\ (n + 1) - 1 = n
    BY <1>1
  <2>2. f[n + 1] = sum_all(f[n], x(n + 1)) /\ h[n + 1] = sum_all(h[n], y(n + 1))
    BY <1>4, <1>5, <2>1
  <2> QED
    BY <1>6, <2>1, <2>2
<1> HIDE DEF T
<1>9. \A m \in 0 .. N : m \in T
  BY <1>1, <1>7, <1>8, ForAllBelow
<1>10. f[N] = h[N]
  BY <1>1, <1>9 DEF T
<1> QED
  BY <1>4, <1>5, <1>10

\* A word tells its number.
LEMMA WordTells == \A a, b \in Nat : Word(a) = Word(b) => a = b
<1> SUFFICES ASSUME NEW a \in Nat, NEW b \in Nat, Word(a) = Word(b)
             PROVE  a = b
  OBVIOUS
<1>1. a % 256 = b % 256 /\ a \div 256 = b \div 256
  BY DEF Word
<1>2. a = 256 * (a \div 256) + (a % 256) /\ b = 256 * (b \div 256) + (b % 256)
  BY Division
<1> QED
  BY <1>1, <1>2

\* Of two sets that differ in one byte at most one has its sum in it.
Summed(set) == Word(xdir_sum(set)) = <<set[1][3], set[1][4]>>

\* The sum of the other one is wrong.
LEMMA OneIsSummed ==
  ASSUME NEW set \in EntrySets, NEW other \in EntrySets, NEW k, NEW i,
         OneByte(set, other, k, i), Summed(set)
  PROVE  ~Summed(other)
<1> SUFFICES ASSUME Summed(other) PROVE FALSE
  OBVIOUS
<1>1. \A s \in EntrySets : xdir_sum(s) \in Nat
  <2> SUFFICES ASSUME NEW s \in EntrySets PROVE xdir_sum(s) \in Nat
    OBVIOUS
  <2>1. PICK f : SetSumming(f, s)
    BY SetSummingExists
  <2>2. Len(s) \in 0 .. Len(s)
    BY DEF EntrySets
  <2>3. xdir_sum(s) \in Sum16
    BY <2>1, <2>2 DEF SetSumming
  <2> QED
    BY <2>3 DEF Sum16
<1>2. CASE k = 1 /\ i \in {3, 4}
  <2>1. xdir_sum(set) = xdir_sum(other)
    BY <1>2, SumSkipsItself
  <2>2. <<set[1][3], set[1][4]>> = <<other[1][3], other[1][4]>>
    BY <2>1 DEF Summed
  <2>3. set[1][3] = other[1][3] /\ set[1][4] = other[1][4]
    BY <2>2
  <2>4. \A j \in 1 .. Len(set[1]) : other[1][j] = set[1][j] <=> j # i
    BY <1>2 DEF OneByte
  <2>5. i \in 1 .. Len(set[1])
    BY <1>2 DEF OneByte
  <2> QED
    BY <1>2, <2>3, <2>4, <2>5
<1>3. CASE ~(k = 1 /\ i \in {3, 4})
  <2>1. xdir_sum(set) # xdir_sum(other)
    BY <1>3, SumSeesByte
  <2>2. set[1][3] = other[1][3] /\ set[1][4] = other[1][4]
    <3>1. Len(set[1]) \in Nat /\ Len(set[1]) >= 4 /\ 1 \in 1 .. Len(set)
      BY DEF EntrySets
    <3>2. CASE k # 1
      BY <3>1, <3>2 DEF OneByte
    <3>3. CASE k = 1
      <4>1. 3 \in 1 .. Len(set[1]) /\ 4 \in 1 .. Len(set[1]) /\ i # 3 /\ i # 4
        BY <1>3, <3>1, <3>3
      <4>2. \A j \in 1 .. Len(set[1]) : other[1][j] = set[1][j] <=> j # i
        BY <3>3 DEF OneByte
      <4> QED
        BY <4>1, <4>2
    <3> QED
      BY <3>2, <3>3
  <2>3. Word(xdir_sum(set)) = Word(xdir_sum(other))
    BY <2>2 DEF Summed
  <2> QED
    BY <1>1, <2>1, <2>3, WordTells
<1> QED
  BY <1>2, <1>3

\* piece is what seq, of elements of S, has from place a to place b.
PieceOf(seq, piece, a, b, S) ==
  /\ piece \in Seq(S) /\ Len(piece) = b - a + 1
  /\ \A j \in 1 .. b - a + 1 : piece[j] = seq[a + j - 1]

\* So it is of SubSeq.
LEMMA SubSeqIsPiece ==
  ASSUME NEW S, NEW seq \in Seq(S), NEW a \in 1 .. Len(seq), NEW b \in 1 .. Len(seq), a <= b
  PROVE  PieceOf(seq, SubSeq(seq, a, b), a, b, S)
<1>1. a \in Int /\ b \in Int /\ Len(seq) \in Nat
  OBVIOUS
<1>2. \A j \in a .. b : seq[j] \in S
  <2> SUFFICES ASSUME NEW j \in a .. b PROVE seq[j] \in S
    OBVIOUS
  <2>1. j \in 1 .. Len(seq)
    BY <1>1
  <2> QED
    BY <2>1
<1>3. /\ SubSeq(seq, a, b) \in Seq(S)
      /\ Len(SubSeq(seq, a, b)) = IF a <= b THEN b - a + 1 ELSE 0
      /\ \A j \in 1 .. b - a + 1 : SubSeq(seq, a, b)[j] = seq[a + j - 1]
  BY <1>1, <1>2, SubSeqProperties
<1> DEFINE piece == SubSeq(seq, a, b)
<1> HIDE DEF piece
<1>4. piece \in Seq(S) /\ Len(piece) = b - a + 1
  BY <1>3 DEF piece
<1>5. \A j \in 1 .. b - a + 1 : piece[j] = seq[a + j - 1]
  BY <1>3 DEF piece
<1>6. PieceOf(seq, piece, a, b, S)
  BY <1>4, <1>5 DEF PieceOf
<1> QED
  BY <1>6 DEF piece

\* load_xdir refuses an entry set of which one byte has changed, whichever it is
\* but the count of its entries: the sum of the set is of all its bytes, rotates
\* without losing any and so differs, or is itself the one that has changed.
THEOREM ChangesAreRefused ==
  ASSUME NEW dir \in Seq(Seq(Byte8)), NEW other \in Seq(Seq(Byte8)), NEW at \in 1 .. Len(dir),
         Len(dir[at]) >= 4, load_xdir(dir, at) # <<>>,
         NEW k \in at .. at + dir[at][2], NEW i, OneByte(dir, other, k, i), ~(k = at /\ i = 2)
  PROVE  load_xdir(other, at) = <<>>
<1> SUFFICES ASSUME load_xdir(other, at) # <<>> PROVE FALSE
  OBVIOUS
<1> DEFINE n == dir[at][2] + 1
           m == other[at][2] + 1
           behind == at + n - 1
           set == SubSeq(dir, at, behind)
           oset == SubSeq(other, at, at + m - 1)
<1>1. /\ n \in 3 .. set_size(XMax) /\ behind \in DOMAIN dir
      /\ Word(xdir_sum(set)) = <<set[1][3], set[1][4]>>
  BY DEF load_xdir
<1>2. Word(xdir_sum(oset)) = <<oset[1][3], oset[1][4]>>
  BY DEF load_xdir
<1>3. dir[at] \in Seq(Byte8) /\ Len(dir[at]) \in Nat /\ 2 \in 1 .. Len(dir[at])
  OBVIOUS
<1>4. other[at][2] = dir[at][2] /\ Len(other[at]) = Len(dir[at])
  <2>1. CASE k # at
    BY <2>1 DEF OneByte
  <2>2. CASE k = at
    BY <1>3, <2>2 DEF OneByte
  <2> QED
    BY <2>1, <2>2
<1>5. m = n
  BY <1>4
<1>6. oset = SubSeq(other, at, behind)
  BY <1>5
<1>7. /\ Len(dir) \in Nat /\ Len(other) = Len(dir) /\ at \in 1 .. Len(dir)
      /\ behind \in 1 .. Len(dir) /\ n \in Nat /\ n >= 3 /\ k \in at .. behind
      /\ k \in 1 .. Len(dir) /\ i \in 1 .. Len(dir[k])
  <2>1. Len(dir) \in Nat /\ Len(other) = Len(dir) /\ k \in 1 .. Len(dir) /\ i \in 1 .. Len(dir[k])
    BY DEF OneByte
  <2>2. dir[at][2] \in Nat
    BY <1>3 DEF Byte8
  <2>3. behind \in 1 .. Len(dir) /\ n \in Nat /\ n >= 3
    <3>1. XMax + 3 * XPart - 1 \in Nat /\ XPart \in Nat \ {0}
      BY ExDirAssumption
    <3>2. set_size(XMax) \in Nat
      BY <3>1, Quotient DEF set_size
    <3>3. n \in Nat /\ n \in 3 .. set_size(XMax)
      BY <1>1, <2>2
    <3>4. n >= 3
      <4> HIDE DEF n
      <4> QED
        BY <3>2, <3>3
    <3>5. behind \in DOMAIN dir
      BY <1>1
    <3> HIDE DEF behind
    <3> QED
      BY <2>1, <3>3, <3>4, <3>5
  <2>4. k \in at .. behind
    BY <2>2
  <2> QED
    BY <2>1, <2>3, <2>4
<1>8. behind = at + n - 1
  OBVIOUS
<1> HIDE DEF n, m, behind
<1>9. /\ set \in Seq(Seq(Byte8)) /\ Len(set) = n
      /\ \A j \in 1 .. n : set[j] = dir[at + j - 1]
  <2>1. at \in 1 .. Len(dir) /\ behind \in 1 .. Len(dir) /\ at <= behind
    BY <1>7
  <2>2. behind - at + 1 = n
    BY <1>7, <1>8
  <2>3. set = SubSeq(dir, at, behind)
    OBVIOUS
  <2> HIDE DEF set
  <2>4. PieceOf(dir, set, at, behind, Seq(Byte8))
    BY <2>1, <2>3, SubSeqIsPiece
  <2> QED
    BY <2>2, <2>4 DEF PieceOf
<1>10. /\ oset \in Seq(Seq(Byte8)) /\ Len(oset) = n
       /\ \A j \in 1 .. n : oset[j] = other[at + j - 1]
  <2>1. at \in 1 .. Len(other) /\ behind \in 1 .. Len(other) /\ at <= behind
    BY <1>7
  <2>2. behind - at + 1 = n
    BY <1>7, <1>8
  <2> HIDE DEF oset
  <2>4. PieceOf(other, oset, at, behind, Seq(Byte8))
    BY <1>6, <2>1, SubSeqIsPiece
  <2> QED
    BY <2>2, <2>4 DEF PieceOf
<1> HIDE DEF set, oset
<1>11. set[1] = dir[at] /\ oset[1] = other[at]
  <2>1. 1 \in 1 .. n /\ at + 1 - 1 = at
    BY <1>7
  <2> QED
    BY <1>9, <1>10, <2>1
<1>12. set \in EntrySets /\ oset \in EntrySets
  <2>1. Len(set) >= 1 /\ Len(oset) >= 1
    BY <1>7, <1>9, <1>10
  <2>2. Len(set[1]) >= 4 /\ Len(oset[1]) >= 4
    BY <1>4, <1>11
  <2> QED
    BY <1>9, <1>10, <2>1, <2>2 DEF EntrySets
<1> DEFINE c == k - at + 1
<1>13. c \in 1 .. n /\ at + c - 1 = k
  BY <1>7, <1>8
<1>14. \A j \in 1 .. n : at + j - 1 \in 1 .. Len(dir) /\ (at + j - 1 = k <=> j = c)
  BY <1>7, <1>8
<1> HIDE DEF c
<1>15. OneByte(set, oset, c, i)
  <2>1. set[c] = dir[k] /\ oset[c] = other[k]
    BY <1>9, <1>10, <1>13
  <2>2. \A j \in 1 .. n : j # c => oset[j] = set[j]
    <3> SUFFICES ASSUME NEW j \in 1 .. n, j # c PROVE oset[j] = set[j]
      OBVIOUS
    <3>1. at + j - 1 \in 1 .. Len(dir) /\ at + j - 1 # k
      BY <1>14
    <3>2. other[at + j - 1] = dir[at + j - 1]
      BY <3>1 DEF OneByte
    <3> QED
      BY <1>9, <1>10, <3>2
  <2>3. /\ i \in 1 .. Len(dir[k]) /\ Len(other[k]) = Len(dir[k])
        /\ \A j \in 1 .. Len(dir[k]) : other[k][j] = dir[k][j] <=> j # i
    BY DEF OneByte
  <2> QED
    BY <1>9, <1>10, <1>13, <2>1, <2>2, <2>3 DEF OneByte
<1> QED
  BY <1>1, <1>2, <1>12, <1>15, OneIsSummed DEF Summed
=============================================================================
