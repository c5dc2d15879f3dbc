------------------------------ MODULE FatCore ------------------------------
(***************************************************************************)
(* The lower half of FatFs (ED64-XIO/ff/ff.c): the sector window, the FAT, *)
(* cluster chains and directories.                                         *)
(*                                                                         *)
(* FatFs is one thread that runs to its end, so a function of the source   *)
(* is a function here as well: it maps the state s before the call to the  *)
(* state after it.  What matters besides the result is every single access *)
(* to the card on the way, since power can fail, or the card refuse, at    *)
(* each of them: disk_read and disk_write count the accesses in s.io, and  *)
(* from access s.fail_at on the card behaves as s.how says.                *)
(*                                                                         *)
(* s.res is the FRESULT, s.val the number a function returns beside it     *)
(* (get_fat's and create_chain's 1 and 0xFFFFFFFF are told apart by res).  *)
(* Sectors and directory entries are abstract values: a FAT sector is a    *)
(* function from its entries, a directory sector one to entries of the     *)
(* kinds below, a data sector one to Vals.                                 *)
(***************************************************************************)
EXTENDS Integers, Sequences, FiniteSets

CONSTANTS
  FatType,    \* "FAT32", or "FAT16": a static root and no FSInfo
  FatEnt,     \* FAT entries in a sector                        (SS / 4)
  DirEnt,     \* directory entries in a sector                  (SS / SZDIRE)
  SS,         \* units of data in a sector
  csize,      \* sectors in a cluster
  NClst,      \* clusters of the volume
  n_rootdir,  \* entries of the static root directory
  Names,      \* names of objects
  LfnEntries, \* LFN entries a name needs; 0: it is a plain 8.3 name
  SfnBase     \* what is left of a name when it is cut to 8.3

ASSUME GeometryAssumption ==
  /\ FatType \in {"FAT16", "FAT32"}
  /\ {FatEnt, DirEnt, SS, csize, NClst} \subseteq Nat \ {0}
  /\ n_rootdir \in Nat /\ n_rootdir % DirEnt = 0
  /\ LfnEntries \in [Names -> Nat] /\ Names \subseteq DOMAIN SfnBase

\* Codes of FAT entries and counters.  A DWORD is scaled to 8 bits.
DW(x) == x % 256
NONE == 255                    \* 0xFFFFFFFF
EOC == 254                     \* any value behind the last cluster
n_fatent == NClst + 2

\* Layout of the volume, in sectors.
FSInfo == 1
fatbase == 2
fsize == (n_fatent + FatEnt - 1) \div FatEnt
rootsect == fatbase + 2 * fsize
database == rootsect + n_rootdir \div DirEnt
dirbase == IF FatType = "FAT32" THEN 2 ELSE rootsect
Sectors == FSInfo .. database + NClst * csize - 1

clst2sect(c) == IF c - 2 \in 0 .. NClst - 1 THEN database + csize * (c - 2) ELSE 0

\* Directory entries.
End == [k |-> "end"]           \* DIR_Name[0] = 0
Deleted == [k |-> "del"]       \* DDEM
Junk == [k |-> "junk"]         \* a sector that was never written as a directory
Dot(c) == [k |-> "dot", clust |-> c]
Lfn(nm, ord, last, sum) == [k |-> "lfn", name |-> nm, ord |-> ord, last |-> last, sum |-> sum]
Sfn(sn, dir, c, size) == [k |-> "sfn", sfn |-> sn, dir |-> dir, clust |-> c, size |-> size]
IsFree(e) == e.k \in {"end", "del"}

EmptyTable == [k |-> "dir", e |-> [i \in 0 .. DirEnt - 1 |-> End]]
\* A sector read as a directory.
Entry(sector, i) == IF sector.k = "dir" THEN sector.e[i] ELSE Junk

\* Go on with F unless something failed.
Then(s, F(_)) == IF s.res = "OK" THEN F(s) ELSE s
\* Go on with F in any case.
With(s, F(_)) == F(s)
Fail(s, res) == [s EXCEPT !.res = res]
Clear(s) == [s EXCEPT !.res = "OK"]

(***************************************************************************)
(* The card.  "power": nothing happens any more.  "lost": one access is    *)
(* refused.  "done": a write is refused after it has taken place.          *)
(***************************************************************************)
\* An access: it succeeds or not, and an interruption inside a critical
\* section is remembered.  A file cut short is hurt by a power failure only:
\* its entry can still be brought up to date after an error.
Access(s) ==
  LET t == [s EXCEPT !.io = @ + 1]
      bad == t.dead \/ t.io = t.fail_at
  IN  IF ~bad THEN t
      ELSE [t EXCEPT !.res = "DISK_ERR", !.dead = @ \/ t.how = "power",
                     !.torn = @ \cup (IF t.how = "power" THEN t.crit ELSE t.crit \ {"truncate"})]

disk_read(s, sect) == Access(s)
disk_write(s, data, sect) ==
  With(Access(s), LAMBDA t :
    IF t.res = "OK" \/ (t.how = "done" /\ ~t.dead) THEN [t EXCEPT !.disk[sect] = data] ELSE t)

(***************************************************************************)
(* The window.                                                             *)
(***************************************************************************)
sync_window(s) ==
  IF ~s.wflag THEN s
  ELSE Then(disk_write(s, s.win, s.winsect), LAMBDA a :
    LET b == [a EXCEPT !.wflag = FALSE]
    IN  IF b.winsect - fatbase \in 0 .. fsize - 1      \* mirror it, come what may
        THEN Clear(disk_write(b, b.win, b.winsect + fsize)) ELSE b)

move_window(s, sect) ==
  IF sect = s.winsect THEN s
  ELSE Then(sync_window(s), LAMBDA a :
    With(disk_read(a, sect), LAMBDA b :
      IF b.res = "OK" THEN [b EXCEPT !.win = b.disk[sect], !.winsect = sect]
      ELSE [b EXCEPT !.winsect = NONE]))

\* CTRL_SYNC ends the card's open write.
disk_sync(s) == Access(s)

sync_fs(s) ==
  Then(sync_window(s), LAMBDA a :
    disk_sync(
      IF FatType = "FAT32" /\ a.fsi_flag = {"update"}
      THEN LET info == [k |-> "fsi", free |-> a.free_clst, last |-> a.last_clst]
           IN  Clear(disk_write([a EXCEPT !.win = info, !.winsect = FSInfo, !.fsi_flag = {}],
                                info, FSInfo))
      ELSE a))

(***************************************************************************)
(* FAT entries and chains.                                                 *)
(***************************************************************************)
get_fat(s, c) ==
  IF c \notin 2 .. n_fatent - 1 THEN Fail(s, "INT_ERR")
  ELSE Then(move_window(s, fatbase + c \div FatEnt), LAMBDA a :
         [a EXCEPT !.val = a.win.e[c % FatEnt]])

put_fat(s, c, v) ==
  IF c \notin 2 .. n_fatent - 1 THEN Fail(s, "INT_ERR")
  ELSE Then(move_window(s, fatbase + c \div FatEnt), LAMBDA a :
         [a EXCEPT !.win.e[c % FatEnt] = v, !.wflag = TRUE])

\* Free cluster c and what it is linked to.
RECURSIVE remove_from(_, _)
\* MUTANT of remove_from: the clusters are not counted.
remove_from_Uncounted(s, c) ==
  Then(get_fat(s, c), LAMBDA a :
    LET nxt == a.val IN
    Then(put_fat(a, c, 0), LAMBDA b : IF nxt < n_fatent THEN remove_from(b, nxt) ELSE b))

remove_from(s, c) ==
  Then(get_fat(s, c), LAMBDA a :
    LET nxt == a.val IN
    IF nxt = 0 THEN a
    ELSE IF nxt = 1 THEN Fail(a, "INT_ERR")
    ELSE Then(put_fat(a, c, 0), LAMBDA b :
      LET d == IF b.free_clst < n_fatent - 2
               THEN [b EXCEPT !.free_clst = @ + 1, !.fsi_flag = @ \cup {"update"}] ELSE b
      IN  IF nxt < n_fatent THEN remove_from(d, nxt) ELSE d))

remove_chain(s, c, pclst) ==
  IF c \notin 2 .. n_fatent - 1 THEN Fail(s, "INT_ERR")
  ELSE Then(IF pclst # 0 THEN put_fat(s, pclst, EOC) ELSE s,
            LAMBDA a : remove_from(a, c))

\* The first free cluster behind ncl, in a ring, up to scl: the loop of
\* create_chain.
RECURSIVE find_free(_, _, _)
\* MUTANT of find_free: the last cluster is never tried.
find_free_LastMissed(s, ncl, scl) ==
  LET n == IF ncl + 2 >= n_fatent THEN 2 ELSE ncl + 1
  IN  IF n = 2 /\ n > scl THEN [s EXCEPT !.val = 0]
      ELSE Then(get_fat(s, n), LAMBDA a :
             IF a.val = 0 THEN [a EXCEPT !.val = n]
             ELSE IF n = scl THEN [a EXCEPT !.val = 0] ELSE find_free(a, n, scl))

find_free(s, ncl, scl) ==
  LET n == IF ncl + 1 >= n_fatent THEN 2 ELSE ncl + 1
  IN  IF ncl + 1 >= n_fatent /\ n > scl THEN [s EXCEPT !.val = 0]
      ELSE Then(get_fat(s, n), LAMBDA a :
             IF a.val = 0 THEN [a EXCEPT !.val = n]
             ELSE IF a.val = 1 THEN Fail(a, "INT_ERR")
             ELSE IF n = scl THEN [a EXCEPT !.val = 0]
             ELSE find_free(a, n, scl))

\* MUTANT of link_chain: the new cluster is not marked as the end.
link_chain_Unmarked(s, clst, ncl) ==
  IF ncl = 0 THEN [s EXCEPT !.val = 0]
  ELSE Then(IF clst = 0 THEN s ELSE put_fat(s, clst, ncl), LAMBDA a :
         [a EXCEPT !.val = ncl, !.last_clst = ncl, !.fsi_flag = @ \cup {"update"},
                   !.free_clst = IF @ <= n_fatent - 2 THEN DW(@ - 1) ELSE @])

\* Take cluster ncl as the end of the chain behind clst (0: a new chain).
link_chain(s, clst, ncl) ==
  IF ncl = 0 THEN [s EXCEPT !.val = 0]
  ELSE LET marked == put_fat(s, ncl, EOC)
           linked == Then(marked, LAMBDA a : IF clst = 0 THEN a ELSE put_fat(a, clst, ncl))
       IN  Then(linked, LAMBDA a :
             [a EXCEPT !.val = ncl, !.last_clst = ncl, !.fsi_flag = @ \cup {"update"},
                       !.free_clst = IF @ <= n_fatent - 2 THEN DW(@ - 1) ELSE @])

new_chain(s) ==
  LET hint == s.last_clst
      scl == IF hint = 0 \/ hint >= n_fatent THEN 1 ELSE hint
  IN  IF s.free_clst = 0 THEN [s EXCEPT !.val = 0]
      ELSE Then(find_free(s, scl, scl), LAMBDA a : link_chain(a, 0, a.val))

stretch_chain(s, clst) ==
  Then(get_fat(s, clst), LAMBDA a :
    IF a.val < 2 THEN Fail(a, "INT_ERR")
    ELSE IF a.val < n_fatent THEN a                     \* followed by a cluster
    ELSE IF a.free_clst = 0 THEN [a EXCEPT !.val = 0]
    ELSE LET nxt == IF clst + 1 >= n_fatent THEN 2 ELSE clst + 1
             hint == a.last_clst
             scl == IF hint \in 2 .. n_fatent - 1 THEN hint ELSE clst
             found == Then(get_fat(a, nxt), LAMBDA b :
                        CASE b.val = 0 -> [b EXCEPT !.val = nxt]
                          [] b.val = 1 -> Fail(b, "INT_ERR")
                          [] OTHER     -> find_free(b, scl, scl))
         IN  Then(found, LAMBDA b : link_chain(b, clst, b.val)))

\* s.val: the cluster added to the chain, or the one that follows already;
\* 0 if the volume is full.
create_chain(s, clst) == IF clst = 0 THEN new_chain(s) ELSE stretch_chain(s, clst)

(***************************************************************************)
(* Directories.  s.dp is the DIR at work: the directory's first cluster    *)
(* (0: the root), the index and place of the current entry, where the name *)
(* block of a found entry begins, and the name looked for: fn is its 8.3   *)
(* form, lossy and nolfn are the flags NS_LOSS and NS_NOLFN of fn.  The    *)
(* long name itself is s.lfnbuf, one buffer for the whole program.         *)
(***************************************************************************)
NoDir == [sclust |-> 0, dptr |-> 0, clust |-> 0, sect |-> 0, blk_ofs |-> NONE,
          fn |-> <<>>, lossy |-> FALSE, nolfn |-> FALSE, attr |-> "none"]

\* The entry dp points to: dir is a pointer into the window, whatever sector
\* the window has come to hold.
dir(s) == Entry(s.win, s.dp.dptr % DirEnt)
set_dir(s, e) ==
  [s EXCEPT !.win = [k |-> "dir", e |-> [i \in 0 .. DirEnt - 1 |-> IF i = s.dp.dptr % DirEnt THEN e ELSE Entry(@, i)]],
            !.wflag = TRUE]

\* Zero a cluster for a directory, through the window.
RECURSIVE clear_from(_, _, _)
clear_from(s, sect, n) ==
  IF n = csize THEN s
  ELSE Then(disk_write(s, s.win, sect + n), LAMBDA a : clear_from(a, sect, n + 1))

dir_clear(s, clst) ==
  Then(sync_window(s), LAMBDA a :
    clear_from([a EXCEPT !.winsect = clst2sect(clst), !.win = EmptyTable], clst2sect(clst), 0))

\* The first cluster of the directory at work, 0 for a static root.
dir_top(s) == IF s.dp.sclust = 0 /\ FatType = "FAT32" THEN dirbase ELSE s.dp.sclust

RECURSIVE sdi_follow(_, _, _)
sdi_follow(s, clst, ofs) ==
  IF ofs < csize * DirEnt
  THEN [s EXCEPT !.dp.clust = clst, !.dp.sect = clst2sect(clst) + ofs \div DirEnt]
  ELSE Then(get_fat(s, clst), LAMBDA a :
         IF a.val \in 2 .. n_fatent - 1 THEN sdi_follow(a, a.val, ofs - csize * DirEnt)
         ELSE Fail(a, "INT_ERR"))

dir_sdi(s, ofs) ==
  LET a == [s EXCEPT !.dp.dptr = ofs] IN
  IF dir_top(s) # 0 THEN sdi_follow(a, dir_top(s), ofs)
  ELSE IF ofs >= n_rootdir THEN Fail(a, "INT_ERR")
  ELSE [a EXCEPT !.dp.clust = 0, !.dp.sect = dirbase + ofs \div DirEnt]

dir_end(s) == Fail([s EXCEPT !.dp.sect = 0], "NO_FILE")

\* Link one more cluster to the directory and clear it.  Between the two the
\* table ends in whatever the cluster held before.
dir_stretch(s) ==
  Then(create_chain(s, s.dp.clust), LAMBDA a :
    IF a.val = 0 THEN Fail(a, "DENIED")
    ELSE [dir_clear([a EXCEPT !.crit = @ \cup {"stretch"}], a.val)
            EXCEPT !.crit = a.crit, !.val = a.val])

\* The first entry of the next cluster.
enter_cluster(s, clst) == [s EXCEPT !.dp.dptr = @ + 1, !.dp.clust = clst, !.dp.sect = clst2sect(clst)]

\* Without, and with, stretching the directory where its chain ends.
dir_next(s) ==
  LET ofs == s.dp.dptr + 1
      next == [s EXCEPT !.dp.dptr = ofs, !.dp.sect = @ + (IF ofs % DirEnt = 0 THEN 1 ELSE 0)]
  IN  CASE s.dp.sect = 0 -> Fail(s, "NO_FILE")
        [] s.dp.sect # 0 /\ s.dp.clust = 0 /\ ofs >= n_rootdir            -> dir_end(s)
        [] s.dp.sect # 0 /\ s.dp.clust # 0 /\ ofs % (DirEnt * csize) = 0 ->
             Then(get_fat(s, s.dp.clust), LAMBDA a :
               CASE a.val <= 1              -> Fail(a, "INT_ERR")
                 [] a.val \in 2 .. n_fatent - 1 -> enter_cluster(a, a.val)
                 [] OTHER                   -> dir_end(a))
        [] OTHER -> next
dir_next_stretch(s) ==
  With(dir_next(s), LAMBDA a :
    IF a.res = "NO_FILE" /\ s.dp.sect # 0 /\ s.dp.clust # 0
    THEN Then(dir_stretch([Clear(a) EXCEPT !.dp = s.dp]), LAMBDA b : enter_cluster(b, b.val))
    ELSE a)

\* Leave dp at the last of nent free entries in a row; n are found so far.
RECURSIVE alloc_from(_, _, _)
\* MUTANT of alloc_from: an entry in use does not start the count again.
alloc_from_NotInARow(s, n, nent) ==
  Then(move_window(s, s.dp.sect), LAMBDA a :
    LET m == IF IsFree(dir(a)) THEN n + 1 ELSE n
    IN  IF m = nent THEN a
        ELSE Then(dir_next_stretch(a), LAMBDA b : alloc_from(b, m, nent)))

alloc_from(s, n, nent) ==
  Then(move_window(s, s.dp.sect), LAMBDA a :
    LET m == IF IsFree(dir(a)) THEN n + 1 ELSE 0
    IN  IF m = nent THEN a
        ELSE Then(dir_next_stretch(a), LAMBDA b : alloc_from(b, m, nent)))

dir_alloc(s, nent) ==
  With(Then(dir_sdi(s, 0), LAMBDA t : alloc_from(t, 0, nent)), LAMBDA a :
    IF a.res = "NO_FILE" THEN Fail(a, "DENIED") ELSE a)

\* An entry of a long name: what ord is after it (NONE: no valid sequence),
\* and the checksum and place of the sequence.  Same says whether the part
\* is acceptable besides (compared in dir_find, picked up in dir_read).
LfnStep(s, q, e, Same(_)) ==
  LET start == IF e.last THEN [ord |-> e.ord, sum |-> e.sum, blk |-> s.dp.dptr] ELSE q
  IN  [start EXCEPT !.ord = IF e.ord = @ /\ e.sum = start.sum /\ Same(e) THEN @ - 1 ELSE NONE]
NoLfn == [ord |-> NONE, sum |-> <<>>, blk |-> NONE]

\* The search: q is the sequence of long entries seen last.
RECURSIVE find_from(_, _)
find_from(s, q) ==
  Then(move_window(s, s.dp.sect), LAMBDA a :
    LET e == dir(a)
        q2 == CASE e.k = "lfn" /\ ~a.dp.nolfn -> LfnStep(a, q, e, LAMBDA x : x.name = a.lfnbuf)
                [] e.k = "lfn" /\ a.dp.nolfn  -> q
                [] OTHER                      -> NoLfn
        long == q.ord = 0 /\ q.sum = e.sfn
        short == ~a.dp.lossy /\ e.sfn = a.dp.fn
    IN  CASE e.k = "end" -> Fail(a, "NO_FILE")
          [] e.k = "sfn" /\ (long \/ short) ->
               [a EXCEPT !.dp.attr = IF e.dir THEN "dir" ELSE "file", !.dp.blk_ofs = q.blk]
          [] OTHER -> Then(dir_next(a), LAMBDA b : find_from(b, q2)))

dir_find(s) == Then(dir_sdi(s, 0), LAMBDA a : find_from(a, NoLfn))

\* Read on to the next object; s.dp.blk_ofs # NONE if its long name, kept in
\* s.lfnbuf, is valid.
RECURSIVE read_from(_, _)
read_from(s, q) ==
  IF s.dp.sect = 0 THEN Fail(s, "NO_FILE")
  ELSE Then(move_window(s, s.dp.sect), LAMBDA a :
    LET e == dir(a)
        next(b, q2) == Then(dir_next(b), LAMBDA d : read_from(d, q2))
    IN  CASE e.k = "end" -> dir_end(a)
          [] e.k = "sfn" -> [a EXCEPT !.dp.blk_ofs = IF q.ord = 0 /\ q.sum = e.sfn THEN q.blk ELSE NONE]
          [] e.k = "lfn" -> next([a EXCEPT !.lfnbuf = e.name], LfnStep(a, q, e, LAMBDA x : TRUE))
          [] OTHER       -> next(a, [q EXCEPT !.ord = NONE]))

dir_read(s) ==
  With(read_from(s, NoLfn), LAMBDA a : IF a.res = "OK" THEN a ELSE [a EXCEPT !.dp.sect = 0])

\* The 8.3 forms of a name: its own, or a numbered one.
PlainSfn(nm) == <<SfnBase[nm], 0>>
Numbered(nm, n) == <<SfnBase[nm], n>>

\* Count up until the numbered name is not in the directory.
RECURSIVE number_from(_, _)
number_from(s, n) ==
  With(dir_find([s EXCEPT !.dp.fn = Numbered(s.lfnbuf, n)]), LAMBDA a :
    CASE a.res = "OK"      -> number_from(a, n + 1)
      [] a.res = "NO_FILE" -> Clear(a)
      [] OTHER             -> a)

\* The long entries of a name, the last part of the name first, then the
\* entry itself, empty.
RECURSIVE put_entries(_, _)
put_entries(s, nent) ==
  Then(move_window(s, s.dp.sect), LAMBDA a :
    IF nent = 0 THEN set_dir(a, Sfn(a.dp.fn, FALSE, 0, 0))
    ELSE LET last == nent = LfnEntries[a.lfnbuf]
         IN  Then(dir_next(set_dir(a, Lfn(a.lfnbuf, nent, last, a.dp.fn))),
                  LAMBDA b : put_entries(b, nent - 1)))

dir_register(s) ==
  LET numbered == IF s.dp.lossy
                  THEN [number_from([s EXCEPT !.dp.lossy = FALSE, !.dp.nolfn = TRUE], 1)
                          EXCEPT !.dp.lossy = TRUE, !.dp.nolfn = FALSE]
                  ELSE s
      nlfn == LfnEntries[s.lfnbuf]
      space == Then(numbered, LAMBDA a : dir_alloc(a, nlfn + 1))
      top == Then(space, LAMBDA a : IF nlfn = 0 THEN a ELSE dir_sdi(a, a.dp.dptr - nlfn))
  IN  Then(top, LAMBDA a : put_entries(a, nlfn))

RECURSIVE remove_entries(_, _)
remove_entries(s, last) ==
  Then(move_window(s, s.dp.sect), LAMBDA a :
    LET b == set_dir(a, Deleted)
    IN  IF b.dp.dptr >= last THEN b
        ELSE Then(dir_next(b), LAMBDA d : remove_entries(d, last)))

dir_remove(s) ==
  LET top == IF s.dp.blk_ofs = NONE THEN s ELSE dir_sdi(s, s.dp.blk_ofs)
  IN  With(Then(top, LAMBDA t : remove_entries(t, s.dp.dptr)), LAMBDA a :
        IF a.res = "NO_FILE" THEN Fail(a, "INT_ERR") ELSE a)

\* The name of the next segment of a path.
create_name(s, nm) ==
  [s EXCEPT !.lfnbuf = nm,
            !.dp.fn = PlainSfn(nm), !.dp.lossy = LfnEntries[nm] > 0, !.dp.nolfn = FALSE]

\* Find the object a path names, beginning at directory top.  A path that
\* goes through what is not a directory has no target.
RECURSIVE follow_from(_, _)
follow_from(s, path) ==
  LET inner == Len(path) > 1
  IN  With(dir_find(create_name(s, Head(path))), LAMBDA a :
        CASE a.res = "NO_FILE" /\ inner                        -> Fail(a, "NO_PATH")
          [] a.res = "OK" /\ inner /\ a.dp.attr # "dir"        -> Fail(a, "NO_PATH")
          [] a.res = "OK" /\ inner /\ a.dp.attr = "dir"        ->
               follow_from([a EXCEPT !.dp.sclust = dir(a).clust], Tail(path))
          [] OTHER                                             -> a)

follow_path(s, path) ==
  LET a == [s EXCEPT !.dp = NoDir]
  IN  IF path = <<>> THEN dir_sdi(a, 0) ELSE follow_from(a, path)

(***************************************************************************)
(* Mounting.  The file system object counts as mounted from then on.       *)
(***************************************************************************)
\* Free clusters and hint are taken from FSInfo without looking at the FAT.
load_fsinfo(s) ==
  With(move_window(s, FSInfo), LAMBDA a :
    IF a.res = "OK"
    THEN [a EXCEPT !.fsi_flag = {}, !.free_clst = a.win.free, !.last_clst = a.win.last]
    ELSE Clear(a))

mount_volume(s) ==
  IF s.mounted THEN s
  ELSE Then(Access([s EXCEPT !.wflag = FALSE, !.winsect = NONE]), LAMBDA a :
    LET b == [a EXCEPT !.free_clst = NONE, !.last_clst = NONE, !.fsi_flag = {"off"}]
    IN  [(IF FatType = "FAT32" THEN load_fsinfo(b) ELSE b) EXCEPT !.mounted = TRUE])
=============================================================================
