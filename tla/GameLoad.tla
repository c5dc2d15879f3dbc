------------------------------- MODULE GameLoad -------------------------------
(***************************************************************************)
(* fmLoadGame (ED64-XIO/src/fmanager.c): a ROM file is read straight into  *)
(* the cartridge ROM, cluster by cluster (f_read of FatFs, ff/ff.c), and   *)
(* the cartridge swaps the bytes of an image in the other byte order.      *)
(***************************************************************************)
EXTENDS Integers, Sequences

CONSTANTS
  csize,       \* sectors of a cluster
  Files,       \* the files: see FileType
  RomSectors   \* sectors of the cartridge ROM (64 MB)

\* A file: whole sectors, whether a partial one follows, its byte order, and
\* its chain of clusters, which may be too short on a damaged file system.
FileType == [size : 0 .. RomSectors, tail : BOOLEAN, order : {"z64", "v64"}, chain : Seq(Nat)]

ASSUME ClusterAssumption == csize \in Nat \ {0} /\ RomSectors \in Nat
ASSUME FilesAssumption ==
  \A f \in Files : f \in FileType /\ f.size + (IF f.tail THEN 1 ELSE 0) <= RomSectors

VARIABLES
  load_pc,   \* where fmLoadGame stands
  file,      \* the file being loaded
  fptr,      \* sectors read so far
  clust,     \* number in the chain of the current cluster
  swap,      \* CFG_SWAP_ON
  rom,       \* the cartridge ROM: disk sector and byte order of each sector
  failed     \* TRUE: something returned an error (history)

loadVars == <<load_pc, file, fptr, clust, swap, rom, failed>>

LoadPlaces == {"none", "open", "header", "read", "close", "loaded", "error"}

Content(sect, order) == [sect |-> sect, order |-> order]
OldContent == Content(-1, "z64")
Garbled == Content(-2, "z64")

LoadInit ==
  /\ load_pc = "none" /\ file \in Files
  /\ fptr = 0 /\ clust = 0 /\ swap = FALSE
  /\ rom = [r \in 0 .. RomSectors - 1 |-> OldContent] /\ failed = FALSE

\* Disk sector of the k-th sector of the file.
SectorOfFile(f, k) == f.chain[k \div csize + 1] * csize + (k % csize)
Sectors(f) == f.size + (IF f.tail THEN 1 ELSE 0)

\* What the cartridge stores of a sector it reads by itself.
Swapped(order) == IF swap THEN (IF order = "v64" THEN "z64" ELSE "v64") ELSE order

Fail ==
  /\ load_pc' = "error" /\ failed' = TRUE
  /\ UNCHANGED <<file, fptr, clust, swap, rom>>

-----------------------------------------------------------------------------
StartLoad(f) ==
  /\ load_pc' = "open" /\ file' = f
  /\ UNCHANGED <<fptr, clust, swap, rom, failed>>

\* f_open
Open ==
  /\ load_pc = "open"
  /\ \/ load_pc' = "header" /\ fptr' = 0 /\ clust' = 0 /\ UNCHANGED <<file, swap, rom, failed>>
     \/ Fail

\* The header is read, f_lseek goes back to 0, and header[1] decides.  Of an
\* empty file header is whatever the stack held.
ReadHeader ==
  /\ load_pc = "header"
  /\ \/ /\ swap' \in (IF Sectors(file) = 0 THEN BOOLEAN ELSE {file.order = "v64"})
        /\ load_pc' = "read"
        /\ UNCHANGED <<file, fptr, clust, rom, failed>>
     \/ Fail

\* The cluster fptr is in: the first one, the one f_read is in, or the next.
Cluster == IF fptr = 0 THEN 1 ELSE IF fptr % csize = 0 THEN clust + 1 ELSE clust

\* MUTANT of ReadSectors: the number of sectors is not clipped.
ReadSectors_Unclipped ==
  /\ load_pc = "read" /\ fptr < file.size /\ Cluster \in DOMAIN file.chain
  /\ LET cc == file.size - fptr
         sect == file.chain[Cluster] * csize + (fptr % csize)
     IN  /\ rom' = [r \in DOMAIN rom |->
              IF r \in fptr .. fptr + cc - 1
              THEN Content(sect + (r - fptr), Swapped(file.order)) ELSE rom[r]]
         /\ fptr' = fptr + cc
  /\ clust' = Cluster
  /\ UNCHANGED <<load_pc, file, swap, failed>>

\* f_read: as many sectors as the cluster still has, by disk_read to the ROM.
ReadSectors ==
  /\ load_pc = "read" /\ fptr < file.size /\ Cluster \in DOMAIN file.chain
  /\ LET csect == fptr % csize
         left == file.size - fptr
         cc == IF csect + left > csize THEN csize - csect ELSE left
         sect == file.chain[Cluster] * csize + csect
     IN  /\ rom' = [r \in DOMAIN rom |->
              IF r \in fptr .. fptr + cc - 1
              THEN Content(sect + (r - fptr), Swapped(file.order)) ELSE rom[r]]
         /\ fptr' = fptr + cc
  /\ clust' = Cluster
  /\ UNCHANGED <<load_pc, file, swap, failed>>

\* The partial sector is read into the file object's buffer and copied by the
\* CPU, byte by byte: the cartridge swaps nothing, and what it stores of single
\* bytes is left open.
ReadTail ==
  /\ load_pc = "read" /\ fptr = file.size /\ file.tail /\ Cluster \in DOMAIN file.chain
  /\ \E c \in {Content(file.chain[Cluster] * csize + (fptr % csize), file.order), Garbled} :
       rom' = [rom EXCEPT ![fptr] = c]
  /\ fptr' = fptr + 1 /\ clust' = Cluster
  /\ UNCHANGED <<load_pc, file, swap, failed>>

\* disk_read or get_fat fails, or the chain ends too early: f_read returns, and
\* fmLoadGame returns with the swapping still on.
ReadFails ==
  /\ load_pc = "read" /\ fptr < Sectors(file)
  /\ Fail

\* bi_wr_swap(0), whether it was on or not.
SwapOff ==
  /\ load_pc = "read" /\ fptr = Sectors(file)
  /\ swap' = FALSE
  /\ load_pc' = "close"
  /\ UNCHANGED <<file, fptr, clust, rom, failed>>

\* f_close
Close ==
  /\ load_pc = "close"
  /\ \/ load_pc' = "loaded" /\ UNCHANGED <<file, fptr, clust, swap, rom, failed>>
     \/ Fail

LoadStep == Open \/ ReadHeader \/ ReadSectors \/ ReadTail \/ ReadFails \/ SwapOff \/ Close
=============================================================================
