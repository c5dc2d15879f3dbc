----------------------------- MODULE XioApp_proofs -----------------------------
(***************************************************************************)
(* Proofs about XioApp: what a load leaves in the cartridge ROM, for every *)
(* file, chain of clusters and cluster size, and that the pages stay on    *)
(* the screen, for every screen that has room for the longest.             *)
(***************************************************************************)
EXTENDS XioApp, SequenceTheorems, TLAPS

-----------------------------------------------------------------------------
(***************************************************************************)
(* Division.                                                               *)
(***************************************************************************)

\* Quotient and remainder.
LEMMA Euclid ==
  ASSUME NEW m \in Nat, NEW c \in Nat \ {0}
  PROVE  /\ m \div c \in Nat /\ m % c \in 0 .. c - 1
         /\ m = (m \div c) * c + (m % c)
OBVIOUS

\* Within a cluster the quotient stays and the remainder grows.
LEMMA SameCluster ==
  ASSUME NEW m \in Nat, NEW c \in Nat \ {0}, NEW i \in Nat, (m % c) + i < c
  PROVE  (m + i) \div c = m \div c /\ (m + i) % c = (m % c) + i
<1>1. (m + i) \div c = m \div c
  OBVIOUS
<1> DEFINE q == m \div c
           x == q * c
<1>2. q \in Nat /\ m = x + (m % c) /\ m % c \in Int
  BY Euclid
<1>3. m + i = x + ((m + i) % c) /\ (m + i) % c \in Int
  <2>1. m + i \in Nat
    OBVIOUS
  <2>2. m + i = ((m + i) \div c) * c + ((m + i) % c) /\ (m + i) % c \in Int
    BY <2>1, Euclid
  <2> QED
    BY <1>1, <2>2
<1>4. x \in Int
  BY <1>2
<1> HIDE DEF x, q
<1>5. (m + i) % c = (m % c) + i
  BY <1>2, <1>3, <1>4
<1> QED
  BY <1>1, <1>5

\* The cluster of the sector before: the one before at a boundary.
LEMMA ClusterBefore ==
  ASSUME NEW m \in Nat \ {0}, NEW c \in Nat \ {0}
  PROVE  /\ m % c = 0 => (m - 1) \div c + 1 = m \div c
         /\ m % c # 0 => (m - 1) \div c = m \div c
OBVIOUS

-----------------------------------------------------------------------------
(***************************************************************************)
(* Types.                                                                  *)
(***************************************************************************)

Contents == [sect : Int, order : {"z64", "v64"}]

\* What the assumptions say of a file.
LEMMA FileFacts ==
  ASSUME NEW f \in Files
  PROVE  /\ f.size \in 0 .. RomSectors /\ f.size \in Nat /\ f.tail \in BOOLEAN
         /\ f.order \in {"z64", "v64"} /\ f.chain \in Seq(Nat)
         /\ Sectors(f) \in 0 .. RomSectors /\ Sectors(f) \in Nat
         /\ f.size <= Sectors(f) /\ Sectors(f) <= f.size + 1
         /\ ~f.tail => Sectors(f) = f.size
         /\ f.tail => Sectors(f) = f.size + 1
         /\ csize \in Nat \ {0} /\ RomSectors \in Nat
<1>1. f \in FileType /\ f.size + (IF f.tail THEN 1 ELSE 0) <= RomSectors
  BY FilesAssumption
<1>2. csize \in Nat \ {0} /\ RomSectors \in Nat
  BY ClusterAssumption
<1>3. /\ f.size \in 0 .. RomSectors /\ f.size \in Nat /\ f.tail \in BOOLEAN
      /\ f.order \in {"z64", "v64"} /\ f.chain \in Seq(Nat)
  BY <1>1, <1>2 DEF FileType
<1>4. Sectors(f) = f.size + (IF f.tail THEN 1 ELSE 0)
  BY DEF Sectors
<1>5. CASE f.tail
  BY <1>1, <1>2, <1>3, <1>4, <1>5
<1>6. CASE ~f.tail
  BY <1>1, <1>2, <1>3, <1>4, <1>6
<1> QED
  BY <1>5, <1>6

\* Where f_read goes on.
LEMMA ClusterIs ==
  ASSUME NEW f \in Files, fptr \in Nat, clust \in Nat,
         fptr # 0 => clust = (fptr - 1) \div csize + 1
  PROVE  Cluster = fptr \div csize + 1
<1>1. csize \in Nat \ {0}
  BY ClusterAssumption
<1>2. CASE fptr = 0
  <2>1. 0 \div csize = 0
    BY <1>1
  <2> QED
    BY <1>2, <2>1 DEF Cluster
<1>3. CASE fptr # 0
  <2>1. fptr \in Nat \ {0} /\ fptr % csize \in Int
    BY <1>1, <1>3
  <2>2. fptr % csize = 0 => Cluster = clust + 1
    BY <1>3 DEF Cluster
  <2>3. fptr % csize # 0 => Cluster = clust
    BY <1>3 DEF Cluster
  <2> QED
    BY <1>1, <1>3, <2>1, <2>2, <2>3, ClusterBefore
<1> QED
  BY <1>2, <1>3

-----------------------------------------------------------------------------
(***************************************************************************)
(* fmLoadGame.                                                             *)
(***************************************************************************)

LoadTypes ==
  /\ load_pc \in LoadPlaces /\ file \in Files
  /\ fptr \in 0 .. RomSectors
  /\ swap \in BOOLEAN /\ failed \in BOOLEAN

\* An error leaves everything as it is.
LEMMA FailKeeps ==
  ASSUME LoadTypes, LoadProgress, app = "load", app' = app, load_pc # "none", Fail
  PROVE  LoadTypes' /\ LoadProgress'
<1>1. /\ load_pc' = "error" /\ failed' = TRUE /\ file' = file /\ fptr' = fptr
      /\ clust' = clust /\ swap' = swap /\ rom' = rom
  BY DEF Fail
<1>2. TRUE \in BOOLEAN
  OBVIOUS
<1>3. LoadTypes'
  BY <1>1, <1>2 DEF LoadTypes, LoadPlaces
<1>4. LoadProgress'
  BY <1>1 DEF LoadProgress
<1> QED
  BY <1>3, <1>4

\* f_open, and the two bytes that decide about the swapping.
LEMMA OpenKeeps ==
  ASSUME LoadTypes, LoadProgress, app = "load", app' = app, Open
  PROVE  LoadTypes' /\ LoadProgress'
<1>1. CASE Fail
  BY <1>1, FailKeeps DEF Open
<1>2. CASE load_pc' = "header" /\ fptr' = 0 /\ clust' = 0 /\ UNCHANGED <<file, swap, rom, failed>>
  <2>1. /\ load_pc = "open" /\ load_pc' = "header" /\ fptr' = 0 /\ clust' = 0
        /\ file' = file /\ swap' = swap /\ rom' = rom /\ failed' = failed
    BY <1>2 DEF Open
  <2>2. LoadTypes'
    BY <2>1, ClusterAssumption DEF LoadTypes, LoadPlaces
  <2>3. LoadProgress'
    BY <2>1 DEF LoadProgress
  <2> QED
    BY <2>2, <2>3
<1> QED
  BY <1>1, <1>2 DEF Open

\* The f_read of the header: nothing of the ROM, and the swapping from here on.
LEMMA ReadHeaderKeeps ==
  ASSUME LoadTypes, LoadProgress, app = "load", app' = app, ReadHeader
  PROVE  LoadTypes' /\ LoadProgress'
<1>1. CASE Fail
  BY <1>1, FailKeeps DEF ReadHeader
<1>2. CASE ~Fail
  <2>1. /\ load_pc = "header" /\ load_pc' = "read" /\ fptr' = fptr /\ clust' = clust
        /\ file' = file /\ rom' = rom /\ failed' = failed
    BY <1>2 DEF ReadHeader
  <2>2. swap' \in (IF Sectors(file) = 0 THEN BOOLEAN ELSE {file.order = "v64"})
    BY <1>2 DEF ReadHeader
  <2>3. swap' \in BOOLEAN /\ (Sectors(file) # 0 => (swap' <=> file.order = "v64"))
    BY <2>2
  <2>4. LoadTypes'
    BY <2>1, <2>3 DEF LoadTypes, LoadPlaces
  <2>5. fptr = 0 /\ Sectors(file) \in Nat
    BY <2>1, FileFacts DEF LoadProgress, LoadTypes
  <2>6. Sectors(file)' = Sectors(file)
    BY <2>1 DEF Sectors
  <2>7. InRom(fptr)'
    BY <2>1, <2>5 DEF InRom
  <2> QED
    BY <2>1, <2>3, <2>4, <2>5, <2>6, <2>7 DEF LoadProgress
<1> QED
  BY <1>1, <1>2

\* The sectors of a cluster, or of what is left of the file, go to their places.
LEMMA ReadSectorsKeeps ==
  ASSUME LoadTypes, LoadProgress, app = "load", app' = app, ReadSectors
  PROVE  LoadTypes' /\ LoadProgress'
<1> DEFINE csect == fptr % csize
           left == file.size - fptr
           cc == IF csect + left > csize THEN csize - csect ELSE left
           sect == file.chain[Cluster] * csize + csect
<1>1. /\ load_pc = "read" /\ fptr < file.size /\ Cluster \in DOMAIN file.chain
      /\ rom' = [r \in DOMAIN rom |->
           IF r \in fptr .. fptr + cc - 1
           THEN Content(sect + (r - fptr), Swapped(file.order)) ELSE rom[r]]
      /\ fptr' = fptr + cc /\ clust' = Cluster
      /\ load_pc' = load_pc /\ file' = file /\ swap' = swap /\ failed' = failed
  BY DEF ReadSectors
<1>2. /\ file \in Files /\ fptr \in Nat /\ clust \in Nat /\ rom \in [0 .. RomSectors - 1 -> Contents]
      /\ fptr # 0 => clust = (fptr - 1) \div csize + 1
      /\ Sectors(file) # 0 => (swap <=> file.order = "v64")
      /\ InRom(fptr)
  BY <1>1, ClusterAssumption DEF LoadTypes, LoadProgress, Contents
<1>3. /\ file.size \in Nat /\ file.size <= RomSectors /\ RomSectors \in Nat
      /\ file.order \in {"z64", "v64"} /\ csize \in Nat \ {0}
      /\ Sectors(file) \in Nat /\ file.size <= Sectors(file)
      /\ file.chain \in Seq(Nat)
  BY <1>2, FileFacts
<1>4. Cluster = fptr \div csize + 1
  BY <1>2, ClusterIs
<1>5. fptr \div csize \in Nat /\ csect \in 0 .. csize - 1
  BY <1>2, <1>3, Euclid
<1>6. left \in Nat /\ left >= 1
  <2>1. fptr < file.size /\ fptr \in Nat /\ file.size \in Nat
    BY <1>1, <1>2, <1>3
  <2> QED
    BY <2>1
<1> HIDE DEF left
<1>7. csect \in Nat /\ csect < csize
  BY <1>3, <1>5
<1> HIDE DEF csect
<1>8. cc \in Nat /\ cc >= 1 /\ csect + cc <= csize /\ cc <= left
  BY <1>3, <1>6, <1>7
<1> HIDE DEF cc
<1>9. fptr + cc <= file.size
  BY <1>1, <1>2, <1>3, <1>8 DEF left
<1>10. file.chain[Cluster] \in Nat /\ sect \in Int
  <2>1. file.chain[Cluster] \in Nat
    BY <1>1, <1>3
  <2>2. csize \in Nat /\ csect \in Nat
    BY <1>3, <1>7
  <2>3. file.chain[Cluster] * csize \in Int
    BY <2>1, <2>2
  <2> QED
    BY <2>1, <2>2, <2>3
<1>11. Swapped(file.order) = "z64"
  <2>1. Sectors(file) # 0
    BY <1>1, <1>2, <1>3
  <2> QED
    BY <1>2, <1>3, <2>1 DEF Swapped
<1>12. ASSUME NEW i \in 0 .. cc - 1
       PROVE  SectorOfFile(file, fptr + i) = sect + i
  <2>1. i \in Nat /\ (fptr % csize) + i < csize
    <3>1. i \in Nat /\ i < cc
      BY <1>8
    <3>2. i \in Nat /\ csect + i < csize
      BY <1>3, <1>7, <1>8, <3>1
    <3> QED
      BY <3>2 DEF csect
  <2>2. /\ (fptr + i) \div csize = fptr \div csize
        /\ (fptr + i) % csize = (fptr % csize) + i
    BY <1>2, <1>3, <2>1, SameCluster
  <2>3. SectorOfFile(file, fptr + i) = file.chain[Cluster] * csize + (csect + i)
    BY <1>4, <2>2 DEF SectorOfFile, csect
  <2>4. file.chain[Cluster] * csize \in Int
    BY <1>3, <1>10
  <2> QED
    BY <1>7, <2>1, <2>3, <2>4
<1> DEFINE base == sect
<1>13. base \in Int /\ \A i \in 0 .. cc - 1 : SectorOfFile(file, fptr + i) = base + i
  BY <1>10, <1>12
<1>14. rom' = [r \in 0 .. RomSectors - 1 |->
          IF r \in fptr .. fptr + cc - 1 THEN Content(base + (r - fptr), "z64") ELSE rom[r]]
  BY <1>1, <1>2, <1>11
<1> HIDE DEF base, sect
<1>15. rom' \in [0 .. RomSectors - 1 -> Contents]
  <2>1. \A r \in 0 .. RomSectors - 1 : r \in fptr .. fptr + cc - 1 =>
          Content(base + (r - fptr), "z64") \in Contents
    BY <1>2, <1>3, <1>13 DEF Content, Contents
  <2> QED
    BY <1>2, <1>14, <2>1
<1>16. ASSUME NEW k \in 0 .. fptr' - 1, k < file.size
       PROVE  rom'[k] = Content(SectorOfFile(file, k), "z64")
  <2>1. k \in 0 .. RomSectors - 1
    BY <1>1, <1>2, <1>3, <1>8, <1>9, <1>16
  <2>2. CASE k \in fptr .. fptr + cc - 1
    <3>1. k - fptr \in 0 .. cc - 1 /\ fptr + (k - fptr) = k
      BY <1>2, <1>8, <2>2
    <3>2. SectorOfFile(file, k) = base + (k - fptr)
      BY <1>13, <3>1
    <3> QED
      BY <1>14, <2>1, <2>2, <3>2
  <2>3. CASE k \notin fptr .. fptr + cc - 1
    <3>1. k \in 0 .. fptr - 1
      BY <1>1, <1>2, <1>8, <1>16, <2>3
    <3>2. rom'[k] = rom[k]
      BY <1>14, <2>1, <2>3
    <3> QED
      BY <1>2, <1>16, <3>1, <3>2 DEF InRom
  <2> QED
    BY <2>2, <2>3
<1>17. InRom(fptr)'
  BY <1>1, <1>16 DEF InRom, SectorOfFile
<1>18. clust' = (fptr' - 1) \div csize + 1 /\ clust' \in Nat
  <2>1. cc - 1 \in Nat /\ (fptr % csize) + (cc - 1) < csize /\ fptr' - 1 = fptr + (cc - 1)
    BY <1>1, <1>2, <1>3, <1>7, <1>8 DEF csect
  <2>2. (fptr + (cc - 1)) \div csize = fptr \div csize
    BY <1>2, <1>3, <2>1, SameCluster
  <2> QED
    BY <1>1, <1>4, <1>5, <2>1, <2>2
<1>19. fptr' \in 0 .. RomSectors /\ fptr' <= Sectors(file)
  <2> DEFINE top == Sectors(file)
  <2>1. /\ fptr' = fptr + cc /\ fptr \in Nat /\ cc \in Nat /\ fptr + cc <= file.size
        /\ file.size \in Nat /\ RomSectors \in Nat /\ file.size <= RomSectors
        /\ top \in Nat /\ file.size <= top
    BY <1>1, <1>2, <1>3, <1>8, <1>9
  <2> HIDE DEF top
  <2>2. fptr' \in 0 .. RomSectors /\ fptr' <= top
    BY <2>1
  <2> QED
    BY <2>2 DEF top
<1>20. Sectors(file)' = Sectors(file)
  BY <1>1 DEF Sectors
<1>21. LoadTypes'
  BY <1>1, <1>19 DEF LoadTypes
<1>22. LoadProgress'
  BY <1>1, <1>2, <1>15, <1>17, <1>18, <1>19, <1>20 DEF LoadProgress, Contents
<1> QED
  BY <1>21, <1>22

\* The partial sector goes behind the whole ones.
LEMMA ReadTailKeeps ==
  ASSUME LoadTypes, LoadProgress, app = "load", app' = app, ReadTail
  PROVE  LoadTypes' /\ LoadProgress'
<1> DEFINE sect == file.chain[Cluster] * csize + (fptr % csize)
<1>1. /\ load_pc = "read" /\ fptr = file.size /\ file.tail /\ Cluster \in DOMAIN file.chain
      /\ fptr' = fptr + 1 /\ clust' = Cluster
      /\ load_pc' = load_pc /\ file' = file /\ swap' = swap /\ failed' = failed
      /\ \E c \in {Content(sect, file.order), Garbled} : rom' = [rom EXCEPT ![fptr] = c]
  BY DEF ReadTail
<1>2. /\ file \in Files /\ fptr \in Nat /\ clust \in Nat /\ rom \in [0 .. RomSectors - 1 -> Contents]
      /\ fptr # 0 => clust = (fptr - 1) \div csize + 1
      /\ Sectors(file) # 0 => (swap <=> file.order = "v64")
      /\ InRom(fptr)
  BY <1>1, ClusterAssumption DEF LoadTypes, LoadProgress, Contents
<1>3. /\ file.size \in Nat /\ RomSectors \in Nat /\ file.order \in {"z64", "v64"}
      /\ csize \in Nat \ {0} /\ Sectors(file) = file.size + 1 /\ Sectors(file) \in 0 .. RomSectors
      /\ file.chain \in Seq(Nat)
  BY <1>1, <1>2, FileFacts
<1>4. Cluster = fptr \div csize + 1 /\ fptr \div csize \in Nat /\ fptr % csize \in Int
  <2>1. fptr \div csize \in Nat /\ fptr % csize \in 0 .. csize - 1
    BY <1>2, <1>3, Euclid
  <2>2. fptr % csize \in Int
    BY <1>3, <2>1
  <2> QED
    BY <1>2, <2>1, <2>2, ClusterIs
<1>5. Content(sect, file.order) \in Contents /\ Garbled \in Contents
  <2>1. file.chain[Cluster] \in Nat
    BY <1>1, <1>3
  <2>2. file.chain[Cluster] * csize \in Int
    BY <1>3, <2>1
  <2>3. sect \in Int
    BY <1>4, <2>2
  <2> HIDE DEF sect
  <2>4. Content(sect, file.order) \in Contents
    BY <1>3, <2>3 DEF Content, Contents
  <2>5. Garbled \in Contents
    BY DEF Garbled, Content, Contents
  <2> QED
    BY <2>4, <2>5
<1> HIDE DEF sect
<1>6. PICK c \in Contents : rom' = [rom EXCEPT ![fptr] = c]
  BY <1>1, <1>5
<1>7. rom' \in [0 .. RomSectors - 1 -> Contents]
  BY <1>2, <1>6
<1>8. \A k \in 0 .. fptr - 1 : rom'[k] = rom[k]
  <2>1. \A k \in 0 .. fptr - 1 : k # fptr /\ k \in 0 .. RomSectors - 1
    BY <1>1, <1>2, <1>3
  <2> QED
    BY <1>2, <1>6, <2>1
<1>9. ASSUME NEW k \in 0 .. fptr' - 1, k < file.size
      PROVE  rom'[k] = Content(SectorOfFile(file, k), "z64")
  <2>1. k \in 0 .. fptr - 1
    BY <1>1, <1>2, <1>9
  <2> QED
    BY <1>2, <1>8, <1>9, <2>1 DEF InRom
<1>10. InRom(fptr)'
  BY <1>1, <1>9 DEF InRom, SectorOfFile
<1>11. clust' = (fptr' - 1) \div csize + 1 /\ clust' \in Nat
  <2>1. fptr' - 1 = fptr
    BY <1>1, <1>2
  <2> QED
    BY <1>1, <1>4, <2>1
<1>12. fptr' \in 0 .. RomSectors /\ fptr' <= Sectors(file)
  BY <1>1, <1>2, <1>3
<1>13. Sectors(file)' = Sectors(file)
  BY <1>1 DEF Sectors
<1>14. LoadTypes'
  BY <1>1, <1>12 DEF LoadTypes
<1>15. LoadProgress'
  BY <1>1, <1>2, <1>7, <1>10, <1>11, <1>12, <1>13 DEF LoadProgress, Contents
<1> QED
  BY <1>14, <1>15

\* bi_wr_swap(0) and f_close.
LEMMA SwapOffKeeps ==
  ASSUME LoadTypes, LoadProgress, app = "load", app' = app, SwapOff
  PROVE  LoadTypes' /\ LoadProgress'
<1>1. /\ load_pc = "read" /\ fptr = Sectors(file) /\ swap' = FALSE /\ load_pc' = "close"
      /\ file' = file /\ fptr' = fptr /\ clust' = clust /\ rom' = rom /\ failed' = failed
  BY DEF SwapOff
<1>2. FALSE \in BOOLEAN
  OBVIOUS
<1>3. LoadTypes'
  BY <1>1, <1>2 DEF LoadTypes, LoadPlaces
<1>4. InRom(file.size)'
  <2>1. file \in Files /\ InRom(fptr)
    BY <1>1 DEF LoadTypes, LoadProgress
  <2>2. file.size \in Nat /\ file.size <= fptr /\ fptr \in Nat
    BY <1>1, <2>1, FileFacts
  <2>3. \A k \in 0 .. file.size - 1 : k \in 0 .. fptr - 1
    BY <2>2
  <2> QED
    BY <1>1, <2>1, <2>3 DEF InRom, SectorOfFile
<1>5. LoadProgress'
  BY <1>1, <1>4 DEF LoadProgress
<1> QED
  BY <1>3, <1>5

\* f_close moves no data.
LEMMA CloseKeeps ==
  ASSUME LoadTypes, LoadProgress, app = "load", app' = app, Close
  PROVE  LoadTypes' /\ LoadProgress'
<1>1. CASE Fail
  BY <1>1, FailKeeps DEF Close
<1>2. CASE ~Fail
  <2>1. /\ load_pc = "close" /\ load_pc' = "loaded" /\ file' = file /\ fptr' = fptr
        /\ clust' = clust /\ swap' = swap /\ rom' = rom /\ failed' = failed
    BY <1>2 DEF Close
  <2>2. LoadTypes'
    BY <2>1 DEF LoadTypes, LoadPlaces
  <2>3. InRom(file.size) => InRom(file.size)'
    BY <2>1 DEF InRom, SectorOfFile
  <2>4. LoadProgress'
    BY <2>1, <2>3 DEF LoadProgress
  <2> QED
    BY <2>2, <2>4
<1> QED
  BY <1>1, <1>2

\* fmLoadGame.
LEMMA LoadStepKeeps ==
  ASSUME LoadTypes, LoadProgress, app = "load", app' = app, LoadStep
  PROVE  LoadTypes' /\ LoadProgress'
<1>1. CASE ReadFails
  BY <1>1, FailKeeps DEF ReadFails
<1> QED
  BY <1>1, OpenKeeps, ReadHeaderKeeps, ReadSectorsKeeps, ReadTailKeeps, SwapOffKeeps, CloseKeeps
     DEF LoadStep

\* The rest of the program leaves a load alone.
LEMMA NoLoadStep ==
  ASSUME LoadTypes, LoadProgress, UNCHANGED loadVars,
         app \notin {"load", "game"}, app' \notin {"load", "game"},
         app = "halted" => app' = app
  PROVE  LoadTypes' /\ LoadProgress'
<1>1. /\ load_pc' = load_pc /\ file' = file /\ fptr' = fptr /\ clust' = clust
      /\ swap' = swap /\ rom' = rom /\ failed' = failed
  BY DEF loadVars
<1>2. LoadTypes'
  BY <1>1 DEF LoadTypes
<1>3. Sectors(file)' = Sectors(file) /\ (InRom(fptr) => InRom(fptr)')
      /\ (InRom(file.size) => InRom(file.size)')
  BY <1>1 DEF Sectors, InRom, SectorOfFile
<1>4. load_pc # "none" => app = "halted"
  BY DEF LoadProgress
<1>5. failed => app = "halted"
  BY <1>4 DEF LoadProgress
<1>6. LoadProgress'
  BY <1>1, <1>3, <1>4, <1>5 DEF LoadProgress
<1> QED
  BY <1>2, <1>6

\* StartLoad.
LEMMA LoadBegins ==
  ASSUME LoadTypes, LoadProgress, app \notin {"load", "game", "halted"}, app' = "load",
         NEW f \in Files, StartLoad(f)
  PROVE  LoadTypes' /\ LoadProgress'
<1>1. /\ load_pc' = "open" /\ file' = f /\ fptr' = fptr /\ clust' = clust
      /\ swap' = swap /\ rom' = rom /\ failed' = failed
  BY DEF StartLoad
<1>2. LoadTypes'
  BY <1>1 DEF LoadTypes, LoadPlaces
<1>3. load_pc = "none"
  BY DEF LoadProgress
<1>4. ~failed /\ ~swap /\ fptr = 0
  BY <1>3 DEF LoadProgress
<1> QED
  BY <1>1, <1>2, <1>4 DEF LoadProgress

\* fmLoadGame has returned an error: the program stops on it.
LEMMA LoadStops ==
  ASSUME LoadTypes, LoadProgress, app = "load", load_pc = "error", app' = "halted",
         UNCHANGED loadVars
  PROVE  LoadTypes' /\ LoadProgress'
<1>1. /\ load_pc' = load_pc /\ file' = file /\ fptr' = fptr /\ clust' = clust
      /\ swap' = swap /\ rom' = rom /\ failed' = failed
  BY DEF loadVars
<1>2. LoadTypes'
  BY <1>1 DEF LoadTypes
<1> QED
  BY <1>1, <1>2 DEF LoadProgress

\* fmLoadGame has returned, and the ROM is booted.
LEMMA GameBegins ==
  ASSUME LoadTypes, LoadProgress, app = "load", load_pc = "loaded", app' = "game",
         UNCHANGED loadVars
  PROVE  LoadTypes' /\ LoadProgress'
<1>1. /\ load_pc' = load_pc /\ file' = file /\ fptr' = fptr /\ clust' = clust
      /\ swap' = swap /\ rom' = rom /\ failed' = failed
  BY DEF loadVars
<1>2. LoadTypes'
  BY <1>1 DEF LoadTypes
<1>3. InRom(file.size) => InRom(file.size)'
  BY <1>1 DEF InRom, SectorOfFile
<1> QED
  BY <1>1, <1>2, <1>3 DEF LoadProgress

\* An error of FatFs outside a load.
LEMMA FatErrorKeeps ==
  ASSUME LoadTypes, LoadProgress, app \notin {"load", "game"}, FatError
  PROVE  LoadTypes' /\ LoadProgress'
<1>1. /\ load_pc' = load_pc /\ file' = file /\ fptr' = fptr /\ clust' = clust
      /\ swap' = swap /\ rom' = rom /\ failed' = TRUE /\ app' = "halted"
  BY DEF FatError, PrintError
<1>2. TRUE \in BOOLEAN
  OBVIOUS
<1>3. LoadTypes'
  BY <1>1, <1>2 DEF LoadTypes
<1>4. Sectors(file)' = Sectors(file) /\ (InRom(fptr) => InRom(fptr)')
      /\ (InRom(file.size) => InRom(file.size)')
  BY <1>1 DEF Sectors, InRom, SectorOfFile
<1>5. LoadProgress'
  BY <1>1, <1>4 DEF LoadProgress
<1> QED
  BY <1>3, <1>5

-----------------------------------------------------------------------------
(***************************************************************************)
(* The program: what a load has done, in every place.                      *)
(***************************************************************************)

ProgramInv ==
  /\ app \in Places /\ selector \in Nat /\ dir \in Dirs
  /\ app = "menu" => selector < Len(Menu)
  /\ LoadTypes /\ LoadProgress

\* What fmLoadDir has read.
LEMMA ListFacts ==
  ASSUME dir \in Dirs
  PROVE  /\ dir \in Seq(ItemType) /\ Listed \in Nat /\ Listed <= Len(dir) /\ Listed <= MAX_DIR_SIZE
         /\ \A k \in 1 .. Listed : dir[k] \in ItemType
<1>1. dir \in Seq(ItemType) /\ Len(dir) \in Nat /\ MAX_DIR_SIZE \in Nat
  BY DirAssumption
<1>2. Listed \in Nat /\ Listed <= Len(dir) /\ Listed <= MAX_DIR_SIZE
  BY <1>1 DEF Listed
<1>3. \A k \in 1 .. Listed : k \in 1 .. Len(dir)
  BY <1>1, <1>2
<1> QED
  BY <1>1, <1>2, <1>3

\* Nothing has been loaded when the program starts.
LEMMA ProgramStarts ==
  Init => ProgramInv
<1> SUFFICES ASSUME Init PROVE ProgramInv
  OBVIOUS
<1>1. /\ app = "mount" /\ selector = 0 /\ dir \in Dirs /\ load_pc = "none" /\ file \in Files
      /\ fptr = 0 /\ clust = 0 /\ swap = FALSE /\ failed = FALSE
      /\ rom = [r \in 0 .. RomSectors - 1 |-> OldContent]
  BY DEF Init, LoadInit
<1>2. 0 \in 0 .. RomSectors /\ FALSE \in BOOLEAN /\ 0 \in Nat
  BY ClusterAssumption
<1>3. OldContent \in Contents
  BY DEF OldContent, Content, Contents
<1>4. rom \in [0 .. RomSectors - 1 -> Contents]
  BY <1>1, <1>3
<1>5. LoadTypes
  BY <1>1, <1>2 DEF LoadTypes, LoadPlaces
<1>6. LoadProgress
  BY <1>1, <1>2, <1>4 DEF LoadProgress, Contents
<1> QED
  BY <1>1, <1>2, <1>5, <1>6 DEF ProgramInv, Places

\* Every key and every step of a load.
LEMMA ProgramKeeps ==
  ProgramInv /\ [Next]_vars => ProgramInv'
<1> SUFFICES ASSUME ProgramInv, [Next]_vars PROVE ProgramInv'
  OBVIOUS
<1>1. app \in Places /\ selector \in Nat /\ dir \in Dirs /\ LoadTypes /\ LoadProgress
  BY DEF ProgramInv
<1>2. ASSUME NEW s \in Nat, s < Len(Menu), ShowMenu(s), app \notin {"load", "game", "halted"} PROVE ProgramInv'
  <2>1. app' = "menu" /\ selector' = s /\ dir' = dir /\ UNCHANGED loadVars
    BY <1>2 DEF ShowMenu
  <2>2. LoadTypes' /\ LoadProgress'
    BY <1>1, <1>2, <2>1, NoLoadStep
  <2> QED
    BY <1>1, <1>2, <2>1, <2>2 DEF ProgramInv, Places
<1>3. ASSUME NEW s \in Nat, ShowDir(s), app \notin {"load", "game", "halted"} PROVE ProgramInv'
  <2>1. app' = "fmanager" /\ selector' = s /\ dir' = dir /\ UNCHANGED loadVars
    BY <1>3 DEF ShowDir
  <2>2. LoadTypes' /\ LoadProgress'
    BY <1>1, <1>3, <2>1, NoLoadStep
  <2> QED
    BY <1>1, <2>1, <2>2 DEF ProgramInv, Places
<1>4. ASSUME FatError, app \notin {"load", "game"} PROVE ProgramInv'
  <2>1. app' = "halted" /\ selector' = selector /\ dir' = dir
    BY <1>4 DEF FatError, PrintError
  <2>2. LoadTypes' /\ LoadProgress'
    BY <1>1, <1>4, FatErrorKeeps
  <2> QED
    BY <1>1, <2>1, <2>2 DEF ProgramInv, Places
<1>5. CASE Mount
  <2>1. app = "mount" /\ (ShowMenu(0) \/ FatError)
    BY <1>5 DEF Mount
  <2>2. 0 < Len(Menu)
    BY DEF Menu
  <2> QED
    BY <1>2, <1>4, <2>1, <2>2
<1>6. CASE MenuUp \/ MenuDown
  <2>1. PICK s \in Nat : app = "menu" /\ s < Len(Menu) /\ ShowMenu(s)
    <3>1. Len(Menu) = 6
      BY DEF Menu
    <3>2. CASE MenuUp
      <4>1. app = "menu" /\ selector - 1 \in Nat /\ selector - 1 < Len(Menu)
        BY <1>1, <3>1, <3>2 DEF MenuUp, ProgramInv
      <4> QED
        BY <3>2, <4>1 DEF MenuUp
    <3>3. CASE MenuDown
      <4>1. app = "menu" /\ selector + 1 \in Nat /\ selector + 1 < Len(Menu)
        BY <1>1, <3>1, <3>3 DEF MenuDown
      <4> QED
        BY <3>3, <4>1 DEF MenuDown
    <3> QED
      BY <1>6, <3>2, <3>3
  <2> QED
    BY <1>2, <2>1
<1>7. CASE Enter
  <2> DEFINE item == Menu[selector + 1]
  <2>1. app = "menu" /\ selector < Len(Menu)
    BY <1>7 DEF Enter, ProgramInv
  <2>2. CASE item = "fmanager" /\ ShowDir(0)
    BY <1>3, <2>1, <2>2
  <2>3. CASE FatError
    BY <1>4, <2>1, <2>3
  <2>4. CASE item # "fmanager" /\ app' = item /\ UNCHANGED <<selector, dir, loadVars>>
    \* No item of the menu is a place where a load runs.
    <3>1. PICK p \in Places : app' = p /\ p \notin {"load", "game", "menu"}
      <4>1. Len(Menu) = 6
        BY DEF Menu
      <4>2. selector \in {0, 1, 2, 3, 4, 5}
        BY <1>1, <2>1, <4>1
      <4>3. item \in {"fmanager", "fileRead", "fileWrite", "usbTerminal", "usbLoadGame", "edid"}
        BY <4>2 DEF Menu
      <4> HIDE DEF item
      <4> QED
        BY <2>4, <4>3 DEF Places
    <3>2. selector' = selector /\ dir' = dir /\ UNCHANGED loadVars
      BY <2>4
    <3>3. LoadTypes' /\ LoadProgress'
      BY <1>1, <2>1, <3>1, <3>2, NoLoadStep
    <3> QED
      BY <1>1, <3>1, <3>2, <3>3 DEF ProgramInv
  <2> QED
    BY <1>7, <2>2, <2>3, <2>4 DEF Enter
<1>8. CASE Leave
  <2>1. PICK k \in 1 .. Len(Menu) : Menu[k] = app /\ ShowMenu(k - 1)
    BY <1>8 DEF Leave
  <2>2. k - 1 \in Nat /\ k - 1 < Len(Menu) /\ app \notin {"load", "game", "halted"}
    <3>1. Len(Menu) = 6
      BY DEF Menu
    <3> QED
      BY <1>8, <2>1, <3>1 DEF Leave
  <2> QED
    BY <1>2, <2>1, <2>2
<1>9. CASE Echo
  <2>1. app = "usbTerminal" /\ app' = app /\ selector' = selector /\ dir' = dir /\ UNCHANGED loadVars
    BY <1>9 DEF Echo
  <2>2. LoadTypes' /\ LoadProgress'
    BY <1>1, <2>1, NoLoadStep
  <2> QED
    BY <1>1, <2>1, <2>2 DEF ProgramInv
<1>10. CASE DirUp \/ DirDown
  <2>1. PICK s \in Nat : app = "fmanager" /\ ShowDir(s)
    <3>1. selector # 0 => selector - 1 \in Nat
      BY <1>1
    <3> QED
      BY <1>1, <1>10, <3>1 DEF DirUp, DirDown
  <2> QED
    BY <1>3, <2>1
<1>11. CASE LoadSelected
  <2>1. /\ app = "fmanager" /\ selector < Listed /\ app' = "load"
        /\ StartLoad(dir[selector + 1].file) /\ selector' = selector /\ dir' = dir
    BY <1>11 DEF LoadSelected
  <2>2. dir[selector + 1].file \in Files
    <3>1. Listed \in Nat /\ \A k \in 1 .. Listed : dir[k] \in ItemType
      BY <1>1, ListFacts
    <3>2. selector + 1 \in 1 .. Listed
      BY <1>1, <2>1, <3>1
    <3>3. dir[selector + 1] \in ItemType
      BY <3>1, <3>2
    <3> QED
      BY <3>3 DEF ItemType
  <2>3. LoadTypes' /\ LoadProgress'
    BY <1>1, <2>1, <2>2, LoadBegins
  <2> QED
    BY <1>1, <2>1, <2>3 DEF ProgramInv, Places
<1>12. CASE LoadNothing
  BY <1>4, <1>12 DEF LoadNothing
<1>13. CASE Loading
  <2>1. app = "load" /\ app' = app /\ selector' = selector /\ dir' = dir /\ LoadStep
    BY <1>13 DEF Loading
  <2>2. LoadTypes' /\ LoadProgress'
    BY <1>1, <2>1, LoadStepKeeps
  <2> QED
    BY <1>1, <2>1, <2>2 DEF ProgramInv
<1>14. CASE LoadReturnsError
  <2>1. /\ app = "load" /\ load_pc = "error" /\ app' = "halted" /\ selector' = selector /\ dir' = dir
        /\ UNCHANGED loadVars
    BY <1>14 DEF LoadReturnsError, PrintError
  <2>2. LoadTypes' /\ LoadProgress'
    BY <1>1, <2>1, LoadStops
  <2> QED
    BY <1>1, <2>1, <2>2 DEF ProgramInv, Places
<1>15. CASE Boot
  <2>1. /\ app = "load" /\ load_pc = "loaded" /\ app' = "game" /\ selector' = selector /\ dir' = dir
        /\ UNCHANGED loadVars
    BY <1>15 DEF Boot
  <2>2. LoadTypes' /\ LoadProgress'
    BY <1>1, <2>1, GameBegins
  <2> QED
    BY <1>1, <2>1, <2>2 DEF ProgramInv, Places
<1>16. CASE UNCHANGED vars
  <2>1. app' = app /\ selector' = selector /\ dir' = dir /\ load_pc' = load_pc /\ file' = file
        /\ fptr' = fptr /\ clust' = clust /\ swap' = swap /\ rom' = rom /\ failed' = failed
    BY <1>16 DEF vars, loadVars
  <2>2. Sectors(file)' = Sectors(file) /\ (InRom(fptr) => InRom(fptr)')
        /\ (InRom(file.size) => InRom(file.size)')
    BY <2>1 DEF Sectors, InRom, SectorOfFile
  <2>3. LoadTypes'
    BY <1>1, <2>1 DEF LoadTypes
  <2>4. LoadProgress'
    BY <1>1, <2>1, <2>2 DEF LoadProgress
  <2> QED
    BY <1>1, <2>1, <2>3, <2>4 DEF ProgramInv
<1> QED
  BY <1>5, <1>6, <1>7, <1>8, <1>9, <1>10, <1>11, <1>12, <1>13, <1>14, <1>15, <1>16
     DEF Next, LoaderRuns

\* In every state of the program a load has put the sectors it has read where
\* they belong, in the console's byte order, and knows the cluster it is in.
THEOREM LoadsInOrder ==
  Spec => []LoadProgress
<1>1. ProgramInv => LoadProgress
  BY DEF ProgramInv
<1> QED
  BY <1>1, ProgramStarts, ProgramKeeps, PTL DEF Spec

\* The game that boots is the selected file: every whole sector of it is in the
\* ROM in the order of the file and in the console's byte order, for every
\* file, chain of clusters and cluster size, and no error has happened.
THEOREM GameIsTheFile ==
  Spec => []BootsSelectedFile
<1>1. ProgramInv => BootsSelectedFile
  <2> SUFFICES ASSUME ProgramInv, app = "game" PROVE BootsSelectedFile
    BY DEF BootsSelectedFile
  <2>1. load_pc = "loaded" /\ ~failed /\ InRom(file.size) /\ file \in Files
    BY DEF ProgramInv, LoadProgress, LoadTypes
  <2>2. \A k \in 0 .. file.size - 1 : k < file.size
    <3>1. file.size \in Nat
      BY <2>1, FileFacts
    <3> QED
      BY <3>1
  <2> QED
    BY <2>1, <2>2 DEF InRom, BootsSelectedFile
<1> QED
  BY <1>1, ProgramStarts, ProgramKeeps, PTL DEF Spec

\* The cartridge swaps bytes only while fmLoadGame runs, and after an error
\* that has stopped the program.
THEOREM SwapIsOff ==
  Spec => []SwapOnlyInLoad
<1>1. ProgramInv => SwapOnlyInLoad
  BY DEF ProgramInv, LoadProgress, LoadTypes, LoadPlaces, SwapOnlyInLoad
<1> QED
  BY <1>1, ProgramStarts, ProgramKeeps, PTL DEF Spec

-----------------------------------------------------------------------------
(***************************************************************************)
(* The pages.                                                              *)
(***************************************************************************)

\* The screen has room for the longest page of the program and for as many
\* messages as the terminal gets.
ScreenHolds ==
  /\ MAX_DIR_SIZE + G_BORDER <= G_SCREEN_H /\ 1 + MAX_STR_LEN + G_BORDER <= G_SCREEN_W
  /\ 19 + G_BORDER <= G_SCREEN_H /\ 32 + G_BORDER <= G_SCREEN_W
  /\ 2 + MaxMessages + G_BORDER <= G_SCREEN_H
  /\ \A len \in EchoLens : len + G_BORDER <= G_SCREEN_W

\* Lines that fit.
FitLens ==
  {lens \in Seq(Nat) : /\ Len(lens) + G_BORDER <= G_SCREEN_H
                       /\ \A k \in 1 .. Len(lens) : lens[k] + G_BORDER <= G_SCREEN_W}

\* A product grows with its factor.
LEMMA TimesGrows ==
  ASSUME NEW x \in Nat, NEW y \in Nat, NEW w \in Nat, x <= y
  PROVE  x * w <= y * w /\ x * w \in Nat /\ y * w \in Nat
OBVIOUS

\* The k-th line of a page ends before the page does.
LEMMA LineEnds ==
  ASSUME NEW k \in Nat \ {0}, NEW len \in Nat,
         k + G_BORDER <= G_SCREEN_H, len + G_BORDER <= G_SCREEN_W
  PROVE  /\ Home \in Nat /\ Home + (k - 1) * G_SCREEN_W \in Nat
         /\ Home + (k - 1) * G_SCREEN_W + len <= G_SCREEN_W * G_SCREEN_H
         /\ Home + k * G_SCREEN_W = Home + (k - 1) * G_SCREEN_W + G_SCREEN_W
<1> DEFINE B == G_BORDER
           W == G_SCREEN_W
           H == G_SCREEN_H
<1>1. B \in Nat /\ W \in Nat /\ H \in Nat
  BY ScreenAssumption
<1>2. B * W \in Nat /\ (k - 1) * W \in Nat /\ k * W = (k - 1) * W + W
  BY <1>1
<1>3. (B + k) * W = B * W + (k - 1) * W + W
  BY <1>1
<1>4. (B + k) * W <= H * W
  BY <1>1, TimesGrows
<1>5. Home = B + B * W
  BY DEF Home
<1>6. H * W = W * H
  BY <1>1
<1>7. B + len <= W
  BY <1>1
<1> DEFINE bw == B * W
           kw == (k - 1) * W
           hw == H * W
<1>8. bw \in Nat /\ kw \in Nat /\ hw \in Nat /\ Home = B + bw /\ bw + kw + W <= hw /\ hw = W * H
      /\ k * W = kw + W
  BY <1>1, <1>2, <1>3, <1>4, <1>5, <1>6
<1> HIDE DEF bw, kw, hw
<1>9. Home \in Nat /\ Home + kw \in Nat /\ Home + kw + len <= hw
  BY <1>1, <1>7, <1>8
<1> QED
  BY <1>1, <1>8, <1>9 DEF kw

\* gCleanScreen and a line for each length.
LEMMA PageKeeps ==
  ASSUME NEW lens \in FitLens, Page(lens)
  PROVE  PageFits' /\ PageInv' /\ g_cons_ptr' \in Nat /\ Len(lines') = Len(lens)
<1> DEFINE n == Len(lens)
           At(k) == Home + (k - 1) * G_SCREEN_W
<1>1. /\ n \in Nat /\ n + G_BORDER <= G_SCREEN_H /\ lens \in Seq(Nat)
      /\ \A k \in 1 .. n : lens[k] \in Nat /\ lens[k] + G_BORDER <= G_SCREEN_W
  BY DEF FitLens
<1>2. lines' = [k \in 1 .. n |-> Line(At(k), lens[k])] /\ g_cons_ptr' = Home + n * G_SCREEN_W
  BY DEF Page
<1>3. G_BORDER \in Nat /\ G_SCREEN_W \in Nat /\ G_SCREEN_H \in Nat
  BY ScreenAssumption
<1>4. ASSUME NEW k \in 1 .. n
      PROVE  At(k) \in Nat /\ At(k) + lens[k] <= G_SCREEN_W * G_SCREEN_H
  <2>1. k \in Nat \ {0} /\ k + G_BORDER <= G_SCREEN_H
    BY <1>1, <1>3
  <2>2. lens[k] \in Nat /\ lens[k] + G_BORDER <= G_SCREEN_W
    BY <1>1
  <2> QED
    BY <2>1, <2>2, LineEnds
<1>5. Home \in Nat /\ n * G_SCREEN_W \in Nat
  <2>1. G_BORDER * G_SCREEN_W \in Nat /\ n * G_SCREEN_W \in Nat
    BY <1>1, <1>3
  <2> QED
    BY <1>3, <2>1 DEF Home
<1> HIDE DEF At, n
<1>6. \A k \in 1 .. n : lines'[k] = [start |-> At(k), len |-> lens[k]]
  BY <1>2 DEF Line
<1>7. DOMAIN lines' = 1 .. n
  BY <1>2
<1>8. lines' \in Seq([start : Nat, len : Nat]) /\ Len(lines') = n
  <2>1. \A k \in 1 .. n : Line(At(k), lens[k]) \in [start : Nat, len : Nat]
    BY <1>1, <1>4 DEF Line
  <2>2. lines' \in [1 .. n -> [start : Nat, len : Nat]]
    BY <1>2, <2>1
  <2>3. n \in Nat
    BY <1>1
  <2> DEFINE R == [start : Nat, len : Nat]
  <2>4. lines' \in [1 .. n -> R]
    BY <2>2
  <2> HIDE DEF R
  <2>5. lines' \in Seq(R)
    BY <2>3, <2>4, SeqDef
  <2> QED
    BY <1>7, <2>3, <2>5 DEF R
<1>9. PageFits'
  <2> SUFFICES ASSUME NEW k \in 1 .. n
               PROVE  /\ lines'[k].start + lines'[k].len <= G_SCREEN_W * G_SCREEN_H
                      /\ G_BORDER + lines'[k].len <= G_SCREEN_W
    BY <1>7 DEF PageFits
  <2>1. lines'[k].start = At(k) /\ lines'[k].len = lens[k]
    <3> DEFINE r == lines'[k]
               a == At(k)
               b == lens[k]
    <3>1. r = [start |-> a, len |-> b]
      BY <1>6
    <3> HIDE DEF r, a, b
    <3>2. r.start = a /\ r.len = b
      BY <3>1
    <3> QED
      BY <3>2 DEF r, a, b
  <2>2. lens[k] \in Nat /\ lens[k] + G_BORDER <= G_SCREEN_W
    BY <1>1
  <2>3. G_BORDER + lens[k] <= G_SCREEN_W
    BY <1>3, <2>2
  <2> QED
    BY <1>4, <2>1, <2>3
<1>10. PageInv'
  <2>1. \A k \in 1 .. Len(lines') : lines'[k].start = Home + (k - 1) * G_SCREEN_W
    BY <1>6, <1>8 DEF At
  <2> QED
    BY <1>2, <1>8, <2>1 DEF PageInv, Home
<1>11. g_cons_ptr' \in Nat
  BY <1>2, <1>5
<1> QED
  BY <1>8, <1>9, <1>10, <1>11 DEF n

\* gConsPrint behind what is there.
LEMMA PrintKeeps ==
  ASSUME PageFits, PageInv, g_cons_ptr \in Nat, NEW len \in Nat, ConsPrint(len),
         Len(lines) + 1 + G_BORDER <= G_SCREEN_H, len + G_BORDER <= G_SCREEN_W
  PROVE  PageFits' /\ PageInv' /\ g_cons_ptr' \in Nat
<1> DEFINE n == Len(lines)
           L == [start |-> g_cons_ptr, len |-> len]
           R == [start : Nat, len : Nat]
<1>1. lines' = Append(lines, L) /\ g_cons_ptr' = g_cons_ptr + G_SCREEN_W
  BY DEF ConsPrint, Line
<1>2. lines \in Seq(R) /\ n \in Nat /\ L \in R /\ g_cons_ptr = Home + n * G_SCREEN_W
  BY DEF PageInv
<1>3. /\ G_BORDER \in Nat /\ G_SCREEN_W \in Nat /\ G_SCREEN_H \in Nat
  BY ScreenAssumption
<1>4. /\ Home \in Nat /\ Home + ((n + 1) - 1) * G_SCREEN_W \in Nat
      /\ Home + ((n + 1) - 1) * G_SCREEN_W + len <= G_SCREEN_W * G_SCREEN_H
      /\ Home + (n + 1) * G_SCREEN_W = Home + ((n + 1) - 1) * G_SCREEN_W + G_SCREEN_W
  <2>1. n + 1 \in Nat \ {0} /\ (n + 1) + G_BORDER <= G_SCREEN_H
    BY <1>2, <1>3
  <2> HIDE DEF n
  <2> QED
    BY <2>1, LineEnds
<1>5. (n + 1) - 1 = n
  BY <1>2
<1>6. g_cons_ptr + len <= G_SCREEN_W * G_SCREEN_H /\ g_cons_ptr' = Home + (n + 1) * G_SCREEN_W
  BY <1>1, <1>2, <1>4, <1>5
<1>7. /\ lines' \in Seq(R) /\ Len(lines') = n + 1 /\ DOMAIN lines' = 1 .. n + 1
      /\ \A k \in 1 .. n : lines'[k] = lines[k]
      /\ lines'[n + 1] = L
  BY <1>1, <1>2
<1>8. /\ \A k \in 1 .. n : /\ lines[k].start + lines[k].len <= G_SCREEN_W * G_SCREEN_H
                            /\ G_BORDER + lines[k].len <= G_SCREEN_W
                            /\ lines[k].start = Home + (k - 1) * G_SCREEN_W
  <2>1. DOMAIN lines = 1 .. n
    BY <1>2
  <2> QED
    BY <2>1 DEF PageFits, PageInv
<1>9. G_BORDER + len <= G_SCREEN_W /\ L.start = g_cons_ptr /\ L.len = len
  BY <1>3
<1> HIDE DEF n, L, R
<1>10. \A k \in 1 .. n + 1 : k \in 1 .. n \/ k = n + 1
  BY <1>2
<1>11. PageFits'
  <2> SUFFICES ASSUME NEW k \in 1 .. n + 1
               PROVE  /\ lines'[k].start + lines'[k].len <= G_SCREEN_W * G_SCREEN_H
                      /\ G_BORDER + lines'[k].len <= G_SCREEN_W
    BY <1>7 DEF PageFits
  <2>1. CASE k \in 1 .. n
    BY <1>7, <1>8, <2>1
  <2>2. CASE k = n + 1
    BY <1>6, <1>7, <1>9, <2>2
  <2> QED
    BY <1>10, <2>1, <2>2
<1>12. PageInv'
  <2>1. ASSUME NEW k \in 1 .. n + 1
        PROVE  lines'[k].start = Home + (k - 1) * G_SCREEN_W
    <3>1. CASE k \in 1 .. n
      BY <1>7, <1>8, <3>1
    <3>2. CASE k = n + 1
      BY <1>2, <1>5, <1>7, <1>9, <3>2 DEF n
    <3> QED
      BY <1>10, <3>1, <3>2
  <2>2. Home' = Home
    BY DEF Home
  <2> QED
    BY <1>6, <1>7, <2>1, <2>2 DEF PageInv, R
<1>13. g_cons_ptr' \in Nat
  BY <1>1, <1>3
<1> QED
  BY <1>11, <1>12, <1>13

\* The pages of fixed text.
LEMMA TextFits ==
  ASSUME ScreenHolds
  PROVE  /\ MenuPage \in FitLens /\ <<9>> \in FitLens /\ <<10>> \in FitLens
         /\ \A item \in DOMAIN PageOf : PageOf[item] \in FitLens
<1> DEFINE Text == 0 .. 32
<1>1. /\ G_BORDER \in Nat /\ G_SCREEN_W \in Nat /\ G_SCREEN_H \in Nat
      /\ 19 + G_BORDER <= G_SCREEN_H /\ 32 + G_BORDER <= G_SCREEN_W
  BY ScreenAssumption DEF ScreenHolds
<1>2. ASSUME NEW s \in Seq(Text), Len(s) <= 19
      PROVE  s \in FitLens
  <2>1. Len(s) \in Nat /\ Len(s) + G_BORDER <= G_SCREEN_H
    BY <1>1, <1>2
  <2>2. Text \subseteq Nat
    OBVIOUS
  <2>3. \A x \in Text : x + G_BORDER <= G_SCREEN_W
    BY <1>1
  <2> HIDE DEF Text
  <2>4. s \in Seq(Nat)
    BY <2>2, SeqMonotonic
  <2>5. \A k \in 1 .. Len(s) : s[k] \in Text
    BY ElementOfSeq
  <2> QED
    BY <2>1, <2>3, <2>4, <2>5 DEF FitLens
<1>3. \A n \in {0, 8, 9, 10, 15, 20, 21, 22, 23, 24, 31, 32} : n \in Text
  OBVIOUS
<1> HIDE DEF Text
<1>4. MenuPage \in FitLens
  <2>1. MenuPage \in Seq(Text) /\ Len(MenuPage) <= 19
    BY <1>3 DEF MenuPage
  <2> QED
    BY <1>2, <2>1, Zenon
<1>5. ASSUME NEW n \in Text PROVE <<n>> \in FitLens
  <2>1. <<n>> \in Seq(Text) /\ Len(<<n>>) <= 19
    OBVIOUS
  <2> QED
    BY <1>2, <2>1, Zenon
<1>6. ASSUME NEW n \in Text, NEW m \in Text PROVE <<n, m>> \in FitLens
  <2>1. <<n, m>> \in Seq(Text) /\ Len(<<n, m>>) <= 19
    OBVIOUS
  <2> QED
    BY <1>2, <2>1, Zenon
<1>7. ASSUME NEW a \in Text, NEW b \in Text, NEW c \in Text, NEW d \in Text, NEW e \in Text
      PROVE  <<a, b, c, d, e>> \in FitLens
  <2>1. <<a, b, c, d, e>> \in Seq(Text) /\ Len(<<a, b, c, d, e>>) <= 19
    OBVIOUS
  <2> QED
    BY <1>2, <2>1, Zenon
<1>8. <<31, 15, 0>> \o [k \in 1 .. 16 |-> 32] \in FitLens
  <2> DEFINE a == <<31, 15, 0>>
             b == [k \in 1 .. 16 |-> 32]
  <2>1. a \in Seq(Text) /\ Len(a) = 3
    BY <1>3
  <2>2. b \in [1 .. 16 -> Text]
    BY <1>3
  <2> HIDE DEF a, b
  <2>3. b \in Seq(Text)
    BY <2>2, SeqDef
  <2>4. Len(b) = 16
    BY <2>2, <2>3
  <2>5. a \o b \in Seq(Text) /\ Len(a \o b) = Len(a) + Len(b)
    BY <2>1, <2>3, ConcatProperties
  <2>6. Len(a \o b) <= 19
    BY <2>1, <2>4, <2>5
  <2> QED
    BY <1>2, <2>5, <2>6 DEF a, b
<1>9. \A item \in DOMAIN PageOf : PageOf[item] \in FitLens
  <2>1. DOMAIN PageOf = {"fileRead", "fileWrite", "usbTerminal", "usbLoadGame", "edid"}
    BY DEF PageOf
  <2>2. PageOf["fileRead"] \in FitLens
    BY <1>8 DEF PageOf
  <2>3. PageOf["fileWrite"] \in FitLens /\ PageOf["edid"] \in FitLens
    BY <1>3, <1>7 DEF PageOf
  <2>4. PageOf["usbTerminal"] \in FitLens /\ PageOf["usbLoadGame"] \in FitLens
    BY <1>3, <1>6 DEF PageOf
  <2> QED
    BY <2>1, <2>2, <2>3, <2>4
<1> QED
  BY <1>3, <1>4, <1>5, <1>9

\* The page of the file manager, whatever the directory.
LEMMA DirFits ==
  ASSUME ScreenHolds, dir \in Dirs
  PROVE  DirPage \in FitLens
<1>1. /\ G_BORDER \in Nat /\ G_SCREEN_W \in Nat /\ G_SCREEN_H \in Nat
      /\ MAX_DIR_SIZE \in Nat /\ MAX_STR_LEN \in Nat
      /\ MAX_DIR_SIZE + G_BORDER <= G_SCREEN_H /\ 1 + MAX_STR_LEN + G_BORDER <= G_SCREEN_W
  BY ScreenAssumption, DirAssumption DEF ScreenHolds
<1>2. Listed \in Nat /\ Listed <= MAX_DIR_SIZE /\ \A k \in 1 .. Listed : dir[k] \in ItemType
  BY ListFacts
<1> DEFINE n == Listed
<1> HIDE DEF n
<1>3. ASSUME NEW k \in 1 .. n
      PROVE  /\ 1 + NameShown(dir[k].len) \in Nat
             /\ 1 + NameShown(dir[k].len) + G_BORDER <= G_SCREEN_W
  <2>1. dir[k].len \in Nat
    BY <1>2 DEF n, ItemType
  <2>2. NameShown(dir[k].len) \in Nat /\ NameShown(dir[k].len) <= MAX_STR_LEN
    BY <1>1, <2>1 DEF NameShown
  <2> QED
    BY <1>1, <2>2
<1>4. DirPage = [k \in 1 .. n |-> 1 + NameShown(dir[k].len)]
  BY DEF DirPage, n
<1>5. n \in Nat /\ n + G_BORDER <= G_SCREEN_H
  BY <1>1, <1>2 DEF n
<1>6. DirPage \in [1 .. n -> Nat]
  BY <1>3, <1>4
<1>7. DirPage \in Seq(Nat)
  BY <1>5, <1>6, SeqDef
<1>8. Len(DirPage) = n
  BY <1>5, <1>6, <1>7
<1>9. \A k \in 1 .. n : DirPage[k] + G_BORDER <= G_SCREEN_W
  BY <1>3, <1>4
<1> QED
  BY <1>5, <1>7, <1>8, <1>9 DEF FitLens

\* What is on the screen.
ScreenInv == PageFits /\ PageInv /\ g_cons_ptr \in Nat

\* main prints one line before it mounts the card.
LEMMA ScreenStarts ==
  ASSUME ScreenHolds, Init
  PROVE  ScreenInv
<1>1. lines = <<Line(Home, 11)>> /\ g_cons_ptr = Home + G_SCREEN_W
  BY DEF Init
<1>2. /\ G_BORDER \in Nat /\ G_SCREEN_W \in Nat /\ G_SCREEN_H \in Nat
      /\ 19 + G_BORDER <= G_SCREEN_H /\ 32 + G_BORDER <= G_SCREEN_W
  BY ScreenAssumption DEF ScreenHolds
<1>3. 11 + G_BORDER <= G_SCREEN_W /\ G_BORDER + 11 <= G_SCREEN_W /\ 1 + G_BORDER <= G_SCREEN_H
  BY <1>2
<1>4. /\ Home \in Nat /\ Home + (1 - 1) * G_SCREEN_W \in Nat
      /\ Home + (1 - 1) * G_SCREEN_W + 11 <= G_SCREEN_W * G_SCREEN_H
  BY <1>3, LineEnds
<1>5. Home + (1 - 1) * G_SCREEN_W = Home /\ 1 * G_SCREEN_W = G_SCREEN_W
  BY <1>2, <1>4
<1>6. /\ lines \in Seq([start : Nat, len : Nat]) /\ Len(lines) = 1 /\ DOMAIN lines = {1}
      /\ lines[1].start = Home /\ lines[1].len = 11
  BY <1>1, <1>4 DEF Line
<1>7. PageFits
  BY <1>3, <1>4, <1>5, <1>6 DEF PageFits
<1>8. \A k \in 1 .. Len(lines) : k = 1
  BY <1>6
<1>9. PageInv
  BY <1>1, <1>5, <1>6, <1>8 DEF PageInv
<1> QED
  BY <1>1, <1>2, <1>4, <1>7, <1>9 DEF ScreenInv

\* Every key and every message.
LEMMA ScreenKeeps ==
  ASSUME ScreenHolds, ProgramInv, ScreenInv, [Next]_vars
  PROVE  ScreenInv'
<1>1. ASSUME NEW lens \in FitLens, Page(lens) PROVE ScreenInv'
  BY <1>1, PageKeeps DEF ScreenInv
<1>2. ASSUME NEW s, ShowMenu(s) PROVE ScreenInv'
  BY <1>1, <1>2, TextFits DEF ShowMenu
<1>3. ASSUME NEW s, ShowDir(s) PROVE ScreenInv'
  BY <1>1, <1>3, DirFits DEF ShowDir, ProgramInv
<1>4. ASSUME FatError PROVE ScreenInv'
  BY <1>1, <1>4, TextFits DEF FatError, PrintError
<1>5. ASSUME UNCHANGED consoleVars PROVE ScreenInv'
  BY <1>5 DEF consoleVars, ScreenInv, PageFits, PageInv, Home
<1>6. CASE Enter
  <2> DEFINE item == Menu[selector + 1]
  <2>1. CASE item # "fmanager" /\ app = "menu" /\ Page(PageOf[item])
    <3>1. item \in DOMAIN PageOf
      <4>1. selector \in Nat /\ selector < Len(Menu) /\ Len(Menu) = 6
        BY <2>1 DEF ProgramInv, Menu
      <4>2. selector \in {0, 1, 2, 3, 4, 5}
        BY <4>1
      <4>3. item \in {"fmanager", "fileRead", "fileWrite", "usbTerminal", "usbLoadGame", "edid"}
        BY <4>2 DEF Menu
      <4> HIDE DEF item
      <4> QED
        BY <2>1, <4>3 DEF PageOf
    <3> HIDE DEF item
    <3> QED
      BY <1>1, <2>1, <3>1, TextFits
  <2> QED
    BY <1>3, <1>4, <1>6, <2>1 DEF Enter
<1>7. CASE Echo
  <2>1. PICK len \in EchoLens : ConsPrint(len)
    BY <1>7 DEF Echo
  <2>2. Len(lines) < 2 + MaxMessages
    <3>1. Len(PageOf["usbTerminal"]) = 2
      BY DEF PageOf
    <3> QED
      BY <1>7, <3>1 DEF Echo
  <2>3. /\ len \in Nat /\ MaxMessages \in Nat /\ len + G_BORDER <= G_SCREEN_W
        /\ 2 + MaxMessages + G_BORDER <= G_SCREEN_H /\ G_BORDER \in Nat /\ G_SCREEN_H \in Nat
    BY ScreenAssumption, DirAssumption DEF ScreenHolds
  <2>4. Len(lines) \in Nat
    BY DEF ScreenInv, PageInv
  <2>5. Len(lines) + 1 + G_BORDER <= G_SCREEN_H
    BY <2>2, <2>3, <2>4
  <2> QED
    BY <2>1, <2>3, <2>5, PrintKeeps DEF ScreenInv
<1>8. CASE LoadSelected \/ LoadReturnsError
  BY <1>1, <1>8, TextFits DEF LoadSelected, LoadReturnsError, PrintError
<1>9. CASE Loading \/ Boot \/ UNCHANGED vars
  BY <1>5, <1>9 DEF Loading, Boot, vars
<1>10. CASE Mount \/ MenuUp \/ MenuDown \/ Leave
  BY <1>2, <1>4, <1>10 DEF Mount, MenuUp, MenuDown, Leave
<1>11. CASE DirUp \/ DirDown \/ LoadNothing
  BY <1>3, <1>4, <1>11 DEF DirUp, DirDown, LoadNothing
<1> QED
  BY <1>6, <1>7, <1>8, <1>9, <1>10, <1>11 DEF Next, LoaderRuns

\* The selector of the file manager is on an item; in an empty directory it is
\* inside inf.
OnList == app = "fmanager" => selector < Listed \/ (Listed = 0 /\ selector < MAX_DIR_SIZE)

\* Every key.
LEMMA ListKeeps ==
  ASSUME ProgramInv, OnList, [Next]_vars
  PROVE  OnList'
<1>1. ASSUME app' # "fmanager" PROVE OnList'
  BY <1>1 DEF OnList
<1>2. /\ dir' = dir => Listed' = Listed
      /\ Listed \in Nat /\ selector \in Nat /\ MAX_DIR_SIZE \in Nat \ {0}
  BY ListFacts, DirAssumption DEF ProgramInv, Listed
<1>3. CASE Enter
  <2>1. CASE ShowDir(0)
    <3>1. selector' = 0 /\ Listed' = Listed
      BY <1>2, <2>1 DEF ShowDir
    <3> QED
      BY <1>2, <3>1 DEF OnList
  <2>2. CASE app' # "fmanager"
    BY <1>1, <2>2
  <2> QED
    BY <1>3, <2>1, <2>2 DEF Enter, FatError, PrintError
<1>4. CASE DirUp
  <2>1. app = "fmanager" /\ selector # 0 /\ selector' = selector - 1 /\ dir' = dir
    BY <1>4 DEF DirUp, ShowDir
  <2>2. selector < Listed \/ (Listed = 0 /\ selector < MAX_DIR_SIZE)
    BY <2>1 DEF OnList
  <2>3. Listed' = Listed
    BY <1>2, <2>1
  <2> QED
    BY <1>2, <2>1, <2>2, <2>3 DEF OnList
<1>5. CASE DirDown
  <2>1. /\ selector + 1 < Listed \/ Listed = 0
        /\ selector + 1 < MAX_DIR_SIZE /\ selector' = selector + 1 /\ dir' = dir
    BY <1>5 DEF DirDown, ShowDir
  <2>2. Listed' = Listed
    BY <1>2, <2>1
  <2> QED
    BY <1>2, <2>1, <2>2 DEF OnList
<1>6. CASE UNCHANGED vars
  BY <1>2, <1>6 DEF OnList, vars
<1>7. CASE Mount \/ MenuUp \/ MenuDown \/ Leave \/ Echo
  BY <1>1, <1>7 DEF Mount, MenuUp, MenuDown, Leave, Echo, ShowMenu, FatError, PrintError
<1>8. CASE LoadSelected \/ LoadNothing \/ LoaderRuns
  BY <1>1, <1>8 DEF LoadSelected, LoadNothing, LoaderRuns, Loading, LoadReturnsError, Boot,
     FatError, PrintError
<1> QED
  BY <1>3, <1>4, <1>5, <1>6, <1>7, <1>8 DEF Next

\* On a screen with room for the longest page, whatever keys are pressed: the
\* selector stays on an item of the directory, in an empty one inside inf, every
\* line stays in gfx_buff and below the one before, whatever the directory, and
\* a load is in order.
THEOREM PagesStayOnScreen ==
  ASSUME ScreenHolds
  PROVE  Spec => []AppInv
<1> DEFINE I == ProgramInv /\ ScreenInv /\ OnList
<1>1. Init => I
  BY ProgramStarts, ScreenStarts DEF Init, OnList
<1>2. I /\ [Next]_vars => I'
  BY ProgramKeeps, ScreenKeeps, ListKeeps
<1>3. I => AppInv
  BY DEF ProgramInv, ScreenInv, OnList, LoadTypes, AppInv, TypeOK
<1> QED
  BY <1>1, <1>2, <1>3, PTL DEF Spec
=============================================================================
