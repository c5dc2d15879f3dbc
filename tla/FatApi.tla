------------------------------- MODULE FatApi -------------------------------
(***************************************************************************)
(* The functions of FatFs an application calls (ED64-XIO/ff/ff.c), written *)
(* over FatCore in the same way: a call maps the state s to the state when *)
(* it returns, s.res being the FRESULT.                                    *)
(*                                                                         *)
(* s.fp is the FIL of the application's file.  Positions and sizes count   *)
(* units, SS of them to the sector; s.out is what f_read or f_readdir      *)
(* hands back.                                                             *)
(***************************************************************************)
EXTENDS FatCore

NoFile == [open |-> FALSE]

\* Sectors as file data.
Garbage == "garbage"
Data(units) == [k |-> "data", u |-> units]
Unit(sector, i) == IF sector.k = "data" THEN sector.u[i + 1] ELSE Garbage
Units(sector) == [i \in 1 .. SS |-> Unit(sector, i - 1)]
Zeroed == Data([i \in 1 .. SS |-> "zero"])

bcs == csize * SS
Drop(seq, n) == SubSeq(seq, n + 1, Len(seq))
Least(a, b) == IF a <= b THEN a ELSE b

\* An error of a call on a file stays with the file.
Abort(s) == IF s.res = "OK" THEN s ELSE [s EXCEPT !.fp.err = s.res]

\* A call on a file begins: it is open, of this mount, without an error.
validate(s) == IF s.mounted /\ s.fp.open THEN Clear(s) ELSE Fail(s, "INVALID_OBJECT")
usable(s) == Then(validate(s), LAMBDA a : Fail(a, a.fp.err))
allowed(s, flag) ==
  Then(usable(s), LAMBDA a : IF flag \in a.fp.flags THEN a ELSE Fail(a, "DENIED"))

\* Write back the file's sector buffer.
write_dirty(s) ==
  IF "dirty" \notin s.fp.flags THEN s
  ELSE Then(disk_write(s, s.fp.buf, s.fp.sect), LAMBDA a : [a EXCEPT !.fp.flags = @ \ {"dirty"}])

load_sector(s, sect) ==
  Then(disk_read(s, sect), LAMBDA a : [a EXCEPT !.fp.buf = Data(Units(a.disk[sect])), !.fp.sect = sect])

\* Every call on a path begins with the volume.
at_path(s, path) == Then(mount_volume(Clear(s)), LAMBDA a : follow_path(a, path))

(***************************************************************************)
(* Opening.  mode is a set of: read, write, new, always, open (create if   *)
(* there is none), end (append).                                           *)
(***************************************************************************)
\* The entry loses its contents.
reset_entry(s) ==
  LET cl == dir(s).clust
      sc == s.winsect
      a == set_dir(s, [dir(s) EXCEPT !.dir = FALSE, !.clust = 0, !.size = 0])
  IN  IF cl = 0 THEN a
      ELSE Then(remove_chain(a, cl, 0), LAMBDA b : [move_window(b, sc) EXCEPT !.last_clst = cl - 1])

RECURSIVE follow_to_end(_, _)
follow_to_end(s, ofs) ==
  IF ofs <= bcs
  THEN IF ofs % SS = 0 THEN s
       ELSE LET sc == clst2sect(s.fp.clust)
            IN  IF sc = 0 THEN Fail(s, "INT_ERR") ELSE load_sector(s, sc + ofs \div SS)
  ELSE Then(get_fat(s, s.fp.clust), LAMBDA a :
         IF a.val <= 1 THEN Fail(a, "INT_ERR")
         ELSE follow_to_end([a EXCEPT !.fp.clust = a.val], ofs - bcs))

\* The entry to open, found or created.
open_entry(s, mode) ==
  LET creating == mode \cap {"new", "always", "open"} # {}
  IN  CASE creating /\ s.res = "NO_FILE"                   -> dir_register(Clear(s))
        [] creating /\ s.res = "OK" /\ s.dp.attr = "dir"   -> Fail(s, "DENIED")
        [] creating /\ s.res = "OK" /\ "new" \in mode      -> Fail(s, "EXIST")
        [] ~creating /\ s.res = "OK" /\ s.dp.attr = "dir"  -> Fail(s, "NO_FILE")
        [] OTHER                                           -> s

f_open(s, path, mode) ==
  With(at_path(s, path), LAMBDA found :
    LET creating == mode \cap {"new", "always", "open"} # {}
        emptied == creating /\ (found.res # "OK" \/ "always" \in mode)
        entry == Then(open_entry(found, mode), LAMBDA a : IF emptied THEN reset_entry(a) ELSE a)
        opened == Then(entry, LAMBDA a :
          [a EXCEPT !.fp =
            [open |-> TRUE, flags |-> (mode \cap {"read", "write"}) \cup (IF emptied THEN {"modified"} ELSE {}),
             err |-> "OK", fptr |-> 0, clust |-> 0, sect |-> 0, buf |-> Zeroed, cltbl |-> <<>>,
             sclust |-> dir(a).clust, size |-> dir(a).size,
             dir_sect |-> a.winsect, dir_ptr |-> a.dp.dptr % DirEnt]])
        at_end == Then(opened, LAMBDA a :
          IF "end" \notin mode \/ a.fp.size = 0 THEN a
          ELSE follow_to_end([a EXCEPT !.fp.fptr = a.fp.size, !.fp.clust = a.fp.sclust], a.fp.size))
    IN  With(at_end, LAMBDA a : IF a.res = "OK" THEN a ELSE [a EXCEPT !.fp = NoFile]))

(***************************************************************************)
(* The link map of the fast seek: the fragments of the chain, each as its  *)
(* length and its first cluster.  <<>> is a file without a map.            *)
(***************************************************************************)
RECURSIVE in_fragments(_, _)
in_fragments(tbl, n) ==
  IF tbl = <<>> THEN 0
  ELSE IF n < tbl[1].ncl THEN tbl[1].tcl + n ELSE in_fragments(Tail(tbl), n - tbl[1].ncl)
clmt_clust(fp, ofs) == in_fragments(fp.cltbl, ofs \div bcs)

RECURSIVE link_map(_, _, _)
link_map(s, cl, tbl) ==
  IF cl >= n_fatent \/ cl = 0 THEN [s EXCEPT !.fp.cltbl = tbl]
  ELSE Then(get_fat(s, cl), LAMBDA a :
    LET n == Len(tbl)
        more == n > 0 /\ tbl[n].tcl + tbl[n].ncl = cl
        next == IF more THEN [tbl EXCEPT ![n].ncl = @ + 1] ELSE Append(tbl, [ncl |-> 1, tcl |-> cl])
    IN  IF a.val <= 1 THEN Fail(a, "INT_ERR") ELSE link_map(a, a.val, next))

\* The application gives the file a table, large enough, and has it filled.
f_linkmap(s) == Abort(Then(usable(s), LAMBDA a : link_map(a, a.fp.sclust, <<>>)))

(***************************************************************************)
(* Reading and writing.                                                    *)
(***************************************************************************)
csect(fp) == (fp.fptr \div SS) % csize

\* Step to the cluster of the file pointer, when it enters one.
read_cluster(s) ==
  IF csect(s.fp) # 0 THEN s
  ELSE LET a == CASE s.fp.fptr = 0                        -> [s EXCEPT !.val = s.fp.sclust]
                  [] s.fp.fptr # 0 /\ s.fp.cltbl # <<>>   -> [s EXCEPT !.val = clmt_clust(s.fp, s.fp.fptr)]
                  [] OTHER                                -> get_fat(s, s.fp.clust)
       IN  Then(a, LAMBDA b : IF b.val < 2 THEN Fail(b, "INT_ERR") ELSE [b EXCEPT !.fp.clust = b.val])

\* The same for writing, which adds clusters; s.val = 0: the card is full.
write_cluster(s) ==
  IF csect(s.fp) # 0 THEN [s EXCEPT !.val = s.fp.clust]
  ELSE LET a == CASE s.fp.fptr = 0 /\ s.fp.sclust # 0        -> [s EXCEPT !.val = s.fp.sclust]
                  [] s.fp.fptr = 0 /\ s.fp.sclust = 0        -> create_chain(s, 0)
                  [] s.fp.fptr # 0 /\ s.fp.cltbl # <<>>      -> [s EXCEPT !.val = clmt_clust(s.fp, s.fp.fptr)]
                  [] OTHER                                   -> create_chain(s, s.fp.clust)
       IN  Then(a, LAMBDA b :
             IF b.val = 0 THEN b
             ELSE [b EXCEPT !.fp.clust = b.val, !.fp.sclust = IF @ = 0 THEN b.val ELSE @])

\* The current sector, 0 outside of the volume.
cur_sect(fp) == IF clst2sect(fp.clust) = 0 THEN 0 ELSE clst2sect(fp.clust) + csect(fp)

\* Whole sectors that go directly between the card and the caller: at most to
\* the end of the cluster.
Direct(fp, n) == Least(n \div SS, csize - csect(fp))

RECURSIVE read_sectors(_, _, _), write_sectors(_, _, _)
\* MUTANT of read_sectors: the file's own buffer is forgotten.
read_sectors_CardOnly(s, sect, cc) ==
  IF cc = 0 THEN s
  ELSE Then(disk_read(s, sect), LAMBDA a :
         read_sectors([a EXCEPT !.out = @ \o Units(a.disk[sect])], sect + 1, cc - 1))

\* A dirty buffer is newer than the card.
read_sectors(s, sect, cc) ==
  IF cc = 0 THEN s
  ELSE Then(disk_read(s, sect), LAMBDA a :
         LET newest == IF "dirty" \in a.fp.flags /\ a.fp.sect = sect THEN a.fp.buf ELSE a.disk[sect]
         IN  read_sectors([a EXCEPT !.out = @ \o Units(newest)], sect + 1, cc - 1))
\* A buffer that is written over is renewed.
write_sectors(s, sect, data) ==
  IF data = <<>> THEN s
  ELSE LET d == Data(SubSeq(data, 1, SS))
       IN  Then(disk_write(s, d, sect), LAMBDA a :
             write_sectors(IF a.fp.sect = sect THEN [a EXCEPT !.fp.buf = d] ELSE a, sect + 1, Drop(data, SS)))

\* Hand out, or take, up to n units within the buffered sector.
read_buffer(s, n) ==
  LET o == s.fp.fptr % SS
      m == Least(n, SS - o)
  IN  [s EXCEPT !.out = @ \o SubSeq(s.fp.buf.u, o + 1, o + m), !.fp.fptr = @ + m]
grow(fp) == [fp EXCEPT !.size = IF fp.fptr > @ THEN fp.fptr ELSE @]
write_buffer(s, data) ==
  LET o == s.fp.fptr % SS
      m == Least(Len(data), SS - o)
      units == [i \in 1 .. SS |-> IF i \in o + 1 .. o + m THEN data[i - o] ELSE s.fp.buf.u[i]]
  IN  [s EXCEPT !.fp = grow([@ EXCEPT !.buf = Data(units), !.fptr = @ + m, !.flags = @ \cup {"dirty"}]),
                !.val = m]

read_step(s, btr) ==
  IF s.fp.fptr % SS # 0 THEN read_buffer(s, btr)
  ELSE Then(read_cluster(s), LAMBDA a :
    LET sect == cur_sect(a.fp)
        cc == Direct(a.fp, btr)
    IN  CASE sect = 0 -> Fail(a, "INT_ERR")
          [] sect # 0 /\ cc > 0 ->
               Then(read_sectors(a, sect, cc), LAMBDA b : [b EXCEPT !.fp.fptr = @ + cc * SS])
          [] OTHER ->
               LET loaded == IF a.fp.sect = sect THEN a
                             ELSE Then(write_dirty(a), LAMBDA b : load_sector(b, sect))
               IN  Then(loaded, LAMBDA b : read_buffer(b, btr)))

RECURSIVE read_on(_, _)
read_on(s, btr) ==
  IF btr = 0 THEN s
  ELSE Then(read_step(s, btr), LAMBDA a : read_on(a, btr - (a.fp.fptr - s.fp.fptr)))

f_read(s, btr) ==
  Then(allowed([s EXCEPT !.out = <<>>], "read"),
       LAMBDA a : Abort(read_on(a, Least(btr, a.fp.size - a.fp.fptr))))

\* s.val: how much was written, 0 if the card is full.
write_step(s, data) ==
  IF s.fp.fptr % SS # 0 THEN write_buffer(s, data)
  ELSE Then(write_cluster(s), LAMBDA a :
    IF a.val = 0 THEN a
    ELSE Then(write_dirty(a), LAMBDA b :
      LET sect == cur_sect(b.fp)
          n == Direct(b.fp, Len(data)) * SS
      IN  CASE sect = 0 -> Fail(b, "INT_ERR")
            [] sect # 0 /\ n > 0 ->
                 Then(write_sectors(b, sect, SubSeq(data, 1, n)), LAMBDA d :
                      [d EXCEPT !.fp = grow([@ EXCEPT !.fptr = @ + n]), !.val = n])
            [] OTHER ->
                 LET loaded == IF b.fp.sect # sect /\ b.fp.fptr < b.fp.size THEN load_sector(b, sect)
                               ELSE [b EXCEPT !.fp.sect = sect]
                 IN  Then(loaded, LAMBDA d : write_buffer(d, data))))

RECURSIVE write_on(_, _)
write_on(s, data) ==
  IF data = <<>> THEN s
  ELSE Then(write_step(s, data), LAMBDA a : IF a.val = 0 THEN a ELSE write_on(a, Drop(data, a.val)))

f_write(s, data) ==
  Then(allowed(s, "write"), LAMBDA a :
    Abort(Then(write_on(a, data), LAMBDA b : [b EXCEPT !.fp.flags = @ \cup {"modified"}])))

(***************************************************************************)
(* Flushing and closing.                                                   *)
(***************************************************************************)
\* The entry of the file in the window takes the FIL's cluster and size.
update_entry(s) ==
  LET old == Entry(s.win, s.fp.dir_ptr)
      new == IF old.k = "sfn" THEN [old EXCEPT !.clust = s.fp.sclust, !.size = s.fp.size] ELSE Junk
  IN  [s EXCEPT !.win = [k |-> "dir", e |-> [i \in 0 .. DirEnt - 1 |->
                                               IF i = s.fp.dir_ptr THEN new ELSE Entry(@, i)]],
                !.wflag = TRUE]

f_sync(s) ==
  Then(validate(s), LAMBDA a :
    IF "modified" \notin a.fp.flags THEN a
    ELSE Then(write_dirty(a), LAMBDA b : Then(move_window(b, b.fp.dir_sect), LAMBDA d :
           With(sync_fs(update_entry(d)), LAMBDA e :
             [e EXCEPT !.fp.flags = @ \ {"modified"}, !.crit = IF e.res = "OK" THEN {} ELSE @]))))

f_close(s) == Then(f_sync(s), LAMBDA a : [a EXCEPT !.fp = NoFile])

(***************************************************************************)
(* Moving the file pointer.                                                *)
(***************************************************************************)
\* MUTANT of seek_sector: what the buffer holds is not written first.
seek_sector_Dropped(s, sect) ==
  IF s.fp.fptr % SS = 0 \/ s.fp.sect = sect THEN s
  ELSE load_sector([s EXCEPT !.fp.flags = @ \ {"dirty"}], sect)

\* The buffer comes to hold the sector of the pointer, when that is inside of
\* a sector.
seek_sector(s, sect) ==
  IF s.fp.fptr % SS = 0 \/ s.fp.sect = sect THEN s
  ELSE Then(write_dirty(s), LAMBDA a : load_sector(a, sect))

seek_mapped(s, pos) ==
  LET ofs == Least(pos, s.fp.size)
      a == [s EXCEPT !.fp.fptr = ofs]
      clst == clmt_clust(s.fp, ofs - 1)
  IN  IF ofs = 0 THEN a
      ELSE IF clst2sect(clst) = 0 THEN Fail([a EXCEPT !.fp.clust = clst], "INT_ERR")
      ELSE seek_sector([a EXCEPT !.fp.clust = clst], clst2sect(clst) + (((ofs - 1) \div SS) % csize))

\* ofs units beyond the pointer, which stands at the begin of a cluster; with
\* write access the chain grows on the way.  s.val: units left, 0 when the
\* card is full.
RECURSIVE walk(_, _)
walk(s, ofs) ==
  IF ofs <= bcs THEN [s EXCEPT !.val = ofs]
  ELSE LET fp == [s.fp EXCEPT !.fptr = @ + bcs]
           longer == "write" \in fp.flags /\ fp.fptr > fp.size
           a == [s EXCEPT !.fp = IF longer THEN [fp EXCEPT !.size = fp.fptr, !.flags = @ \cup {"modified"}] ELSE fp]
           b == IF "write" \in fp.flags THEN create_chain(a, fp.clust) ELSE get_fat(a, fp.clust)
       IN  Then(b, LAMBDA d :
             IF "write" \in fp.flags /\ d.val = 0 THEN d
             ELSE IF d.val \notin 2 .. n_fatent - 1 THEN Fail(d, "INT_ERR")
             ELSE walk([d EXCEPT !.fp.clust = d.val], ofs - bcs))

\* Where to begin: at the current cluster if the target is not before it.
seek_start(s, ofs) ==
  LET old == s.fp.fptr
      ahead == old > 0 /\ (ofs - 1) \div bcs >= (old - 1) \div bcs
      first == IF s.fp.sclust # 0 THEN [s EXCEPT !.val = s.fp.sclust]
               ELSE Then(create_chain(s, 0), LAMBDA a : [a EXCEPT !.fp.sclust = a.val])
  IN  IF ahead THEN [s EXCEPT !.fp.fptr = ((old - 1) \div bcs) * bcs]
      ELSE Then(first, LAMBDA a : [a EXCEPT !.fp.fptr = 0, !.fp.clust = a.val])

seek_plain(s, pos) ==
  LET ofs == IF pos > s.fp.size /\ "write" \notin s.fp.flags THEN s.fp.size ELSE pos
      start == seek_start(s, ofs)
      arrived == Then(start, LAMBDA a :
        IF a.fp.clust = 0 THEN a
        ELSE Then(walk(a, ofs - a.fp.fptr), LAMBDA b : [b EXCEPT !.fp.fptr = @ + b.val]))
      longer == Then(arrived, LAMBDA a :
        IF a.fp.fptr <= a.fp.size THEN a
        ELSE [a EXCEPT !.fp.size = a.fp.fptr, !.fp.flags = @ \cup {"modified"}])
      Sect(a) == IF clst2sect(a.fp.clust) = 0 THEN 0 ELSE clst2sect(a.fp.clust) + csect(a.fp)
  IN  IF ofs = 0 THEN [s EXCEPT !.fp.fptr = 0]
      ELSE Then(longer, LAMBDA a : seek_sector(a, Sect(a)))

f_lseek(s, pos) ==
  Abort(Then(usable(s), LAMBDA a : IF a.fp.cltbl # <<>> THEN seek_mapped(a, pos) ELSE seek_plain(a, pos)))

\* Cut the file at its pointer.  The FAT forgets the clusters at once; the
\* entry follows when the file is flushed.
f_truncate(s) ==
  Then(allowed(s, "write"), LAMBDA a :
    LET fp == a.fp
        t == [a EXCEPT !.crit = {"truncate"}]
        cut == IF fp.fptr = 0
               THEN [remove_chain(t, fp.sclust, 0) EXCEPT !.fp.sclust = 0]
               ELSE Then(get_fat(t, fp.clust), LAMBDA b :
                      IF b.val = 1 THEN Fail(b, "INT_ERR")
                      ELSE IF b.val < n_fatent THEN remove_chain(b, b.val, fp.clust) ELSE b)
        short == [cut EXCEPT !.fp.size = fp.fptr, !.fp.flags = @ \cup {"modified"}]
    IN  IF fp.fptr >= fp.size THEN a
        ELSE Abort(Then(short, LAMBDA b : write_dirty(b))))

(***************************************************************************)
(* Names and directories.                                                  *)
(***************************************************************************)
\* MUTANT of is_empty_dir: it is not looked into.
is_empty_dir_Unchecked(s, clst) == s

is_empty_dir(s, clst) ==
  With(Then(dir_sdi([s EXCEPT !.dp = [NoDir EXCEPT !.sclust = clst]], 0), LAMBDA t : dir_read(t)), LAMBDA a :
    CASE a.res = "OK"      -> Fail(a, "DENIED")
      [] a.res = "NO_FILE" -> Clear(a)
      [] OTHER             -> a)

\* MUTANT of f_unlink: the clusters are freed before the entry goes.
f_unlink_FreesFirst(s, path) ==
  Then(at_path(s, path), LAMBDA a :
    LET dj == a.dp
        dclst == dir(a).clust
        checked == IF dj.attr = "dir" THEN [is_empty_dir(a, dclst) EXCEPT !.dp = dj] ELSE a
        freed == Then(checked, LAMBDA b : IF dclst = 0 THEN b ELSE remove_chain(b, dclst, 0))
        removed == Then(freed, LAMBDA b : dir_remove(b))
    IN  Then(removed, LAMBDA b : sync_fs(b)))

f_unlink(s, path) ==
  Then(at_path(s, path), LAMBDA a :
    LET dj == a.dp
        dclst == dir(a).clust
        checked == IF dj.attr = "dir" THEN [is_empty_dir(a, dclst) EXCEPT !.dp = dj] ELSE a
        removed == Then(checked, LAMBDA b : dir_remove(b))
        freed == Then(removed, LAMBDA b : IF dclst = 0 THEN b ELSE remove_chain(b, dclst, 0))
    IN  Then(freed, LAMBDA b : sync_fs(b)))

\* The first two entries of a new directory in its cleared table.
dot_entries(s, dcl, pcl) ==
  [s EXCEPT !.win.e = [@ EXCEPT ![0] = Dot(dcl), ![1] = Dot(pcl)], !.wflag = TRUE]

f_mkdir(s, path) ==
  With(at_path(s, path), LAMBDA found :
    IF found.res # "NO_FILE" THEN Then(found, LAMBDA a : Fail(a, "EXIST"))
    ELSE Then(create_chain(Clear(found), 0), LAMBDA a :
      LET dcl == a.val
          made == Then(dir_clear(a, dcl), LAMBDA b : dir_register(dot_entries(b, dcl, b.dp.sclust)))
      IN  IF a.val = 0 THEN Fail(a, "DENIED")
          ELSE With(made, LAMBDA b :
                 IF b.res = "OK" THEN sync_fs(set_dir(b, [dir(b) EXCEPT !.dir = TRUE, !.clust = dcl]))
                 ELSE Fail(remove_chain(Clear(b), dcl, 0), b.res))))

\* From the copy of the entry on two entries share the object, until the old
\* one is gone from the card: the critical section of the source's comments.
enter(s, old) == set_dir([s EXCEPT !.crit = {"rename"}], [old EXCEPT !.sfn = dir(s).sfn])
redot(s, clst, pcl) ==
  IF clst2sect(clst) = 0 THEN Fail(s, "INT_ERR")
  ELSE Then(move_window(s, clst2sect(clst)), LAMBDA a :
         IF Entry(a.win, 1).k # "dot" THEN a
         ELSE [a EXCEPT !.win.e[1] = Dot(pcl), !.wflag = TRUE])

f_rename(s, path_old, path_new) ==
  Then(at_path(s, path_old), LAMBDA a :
    LET old == dir(a)
        djo == a.dp
        Itself(b) == b.dp.sclust = djo.sclust /\ b.dp.dptr = djo.dptr
        free == With(follow_path(a, path_new), LAMBDA b :
                  CASE b.res = "OK" /\ ~Itself(b)                        -> Fail(b, "EXIST")
                    [] b.res = "NO_FILE" \/ (b.res = "OK" /\ Itself(b))  -> Clear(b)
                    [] OTHER                                            -> b)
        entered == Then(free, LAMBDA b : Then(dir_register(b), LAMBDA t : enter(t, old)))
        moved == Then(entered, LAMBDA b :
                   IF old.dir /\ b.dp.sclust # djo.sclust THEN redot(b, old.clust, b.dp.sclust) ELSE b)
        gone == Then(moved, LAMBDA b : dir_remove([b EXCEPT !.dp = djo]))
    IN  [Then(gone, LAMBDA b : sync_fs(b)) EXCEPT !.crit = {}])

\* A listing is one f_opendir and an f_readdir for each object; s.out gets
\* what each call hands out: the name (the 8.3 one if the long one is damaged).
f_opendir(s, path) ==
  LET Top(a) == CASE path = <<>>       -> a
                  [] path # <<>> /\ a.dp.attr = "dir" -> [a EXCEPT !.dp.sclust = dir(a).clust]
                  [] OTHER              -> Fail(a, "NO_PATH")
      opened == Then(Then(at_path(s, path), Top), LAMBDA t : dir_sdi(t, 0))
  IN  With(opened, LAMBDA b : IF b.res = "NO_FILE" THEN Fail(b, "NO_PATH") ELSE b)

get_fileinfo(s) ==
  [name |-> IF s.dp.blk_ofs # NONE THEN <<s.lfnbuf>> ELSE dir(s).sfn, dir |-> dir(s).dir, size |-> dir(s).size]

f_readdir(s) ==
  With(Then(dir_read(s), LAMBDA t : dir_next([t EXCEPT !.out = Append(@, get_fileinfo(t))])),
       LAMBDA b : IF b.res = "NO_FILE" THEN Clear(b) ELSE b)

RECURSIVE list_on(_)
list_on(s) ==
  With(f_readdir(s), LAMBDA a : IF a.res = "OK" /\ Len(a.out) > Len(s.out) THEN list_on(a) ELSE a)
f_list(s, path) == Then(f_opendir([s EXCEPT !.out = <<>>], path), LAMBDA a : list_on(a))

f_stat(s, path) == Then(at_path(s, path), LAMBDA a : [a EXCEPT !.out = <<get_fileinfo(a)>>])

\* Free entries from c on; the count so far also when the scan is broken off.
RECURSIVE count_free(_, _, _)
count_free(s, c, n) ==
  IF c = n_fatent THEN [s EXCEPT !.val = n]
  ELSE With(move_window(s, fatbase + c \div FatEnt), LAMBDA a :
         IF a.res # "OK" THEN [a EXCEPT !.val = n]
         ELSE count_free(a, c + 1, IF a.win.e[c % FatEnt] = 0 THEN n + 1 ELSE n))

f_getfree(s) ==
  Then(mount_volume(Clear(s)), LAMBDA a :
    IF a.free_clst <= n_fatent - 2 THEN [a EXCEPT !.val = a.free_clst]
    ELSE With(count_free(a, 0, 0), LAMBDA b :
           [b EXCEPT !.free_clst = b.val, !.fsi_flag = @ \cup {"update"}]))
=============================================================================
