------------------------------- MODULE FatEx --------------------------------
(***************************************************************************)
(* Files on an exFAT volume (ED64-XIO/ff/ff.c with FF_FS_EXFAT).           *)
(*                                                                         *)
(* A file in one piece has no chain in the FAT: its entry says so, and the *)
(* clusters are counted up.  When it breaks into fragments FatFs puts off  *)
(* writing the chain: obj.stat, n_cont and n_frag say which links exist    *)
(* only in memory until a seek or f_sync writes them.  Which clusters are  *)
(* in use is in a bitmap.                                                  *)
(*                                                                         *)
(* The unit is a cluster of one sector; what was last written there is its *)
(* content, a file and a position.  The root directory is one sector, in   *)
(* which the entry set of a file is one entry.  The bitmap is one sector.  *)
(* The rest, above all names and directories, is left to FatFs.tla.  As    *)
(* there, a call is a function of the state ex, and every access to the    *)
(* card can fail.  ex.disk is the card but for the data, ex.mem the same   *)
(* with the window's sector over it.  Nothing asks for the free space, so  *)
(* that free_clst is unknown and its test never stops a call.              *)
(***************************************************************************)
EXTENDS Integers, FiniteSets

CONSTANTS
  ExClst,      \* clusters of the volume
  ExFatEnt,    \* FAT entries in a sector
  ExFiles,     \* number of files
  ExLengths,   \* lengths to write, and
  ExOffsets,   \* positions to seek
  ExFaults,    \* kinds of faults
  ExCalls      \* calls of a behaviour

ASSUME ExAssumption ==
  /\ {ExClst, ExFatEnt} \subseteq Nat \ {0} /\ ExFiles \in Nat \ {0, 1} /\ ExCalls \in Nat
  /\ ExLengths \subseteq Nat \ {0} /\ ExOffsets \subseteq Nat
  /\ ExFaults \subseteq {"power", "lost", "done"}

VARIABLES
  ex,          \* card and memory
  ex_calls,
  ex_faulty    \* a fault has happened
exVars == <<ex, ex_calls, ex_faulty>>

Clst == 2 .. ExClst + 1
LastClst == 999                    \* EOC: anything behind the last cluster
FileNames == 1 .. ExFiles
NoEntry == [clust |-> 0, size |-> -1, stat |-> 0]
NewEntry == [clust |-> 0, size |-> 0, stat |-> 0]
NoFp == [name |-> 0, fptr |-> 0, clust |-> 0, modified |-> FALSE, err |-> FALSE]

\* Go on with F unless something failed, or in any case.
Go(a, F(_)) == IF a.res = "OK" THEN F(a) ELSE a
On(a, F(_)) == F(a)
Stop(a, res) == [a EXCEPT !.res = res]

(***************************************************************************)
(* The window.  "power": nothing works any more; "lost": one access is     *)
(* refused; "done": a write is refused although it has taken place.        *)
(***************************************************************************)
Touch(a) ==
  LET t == [a EXCEPT !.io = @ + 1]
  IN  IF t.dead \/ t.io = t.fail_at
      THEN [t EXCEPT !.res = "DISK_ERR", !.dead = @ \/ t.how = "power"] ELSE t
TakesPlace(a) == a.res = "OK" \/ (a.how = "done" /\ ~a.dead)

sync_window(a) ==
  IF ~a.wflag THEN a
  ELSE On(Touch(a), LAMBDA b :
         [b EXCEPT !.disk = IF TakesPlace(b) THEN b.mem ELSE @, !.wflag = b.res # "OK"])

move_window(a, sect) ==
  IF sect = a.winsect THEN a
  ELSE Go(sync_window(a), LAMBDA b :
    On(Touch(b), LAMBDA c : [c EXCEPT !.winsect = IF c.res = "OK" THEN sect ELSE <<"none">>]))

sync_fs(a) == Go(sync_window(a), LAMBDA b : Touch(b))

(***************************************************************************)
(* The FAT and the bitmap.                                                 *)
(***************************************************************************)
fat_sect(c) == <<"fat", c \div ExFatEnt>>

\* MUTANT of get_fat: the growing edge is looked up as well.
get_fat_EdgeRead(a, c) ==
  LET o == a.obj
      cofs == c - o.sclust
      here == o.stat = 2 /\ cofs \in 0 .. o.objsize - 1
      first == o.stat = 3 /\ cofs \in 0 .. o.n_cont - 1
  IN  IF c \notin Clst THEN Stop(a, "INT_ERR")
      ELSE IF here \/ first
      THEN [a EXCEPT !.val = IF here /\ cofs = o.objsize - 1 THEN LastClst ELSE c + 1]
      ELSE Go(move_window(a, fat_sect(c)), LAMBDA b : [b EXCEPT !.val = b.mem.fat[c]])

\* What follows cluster c of the object at work.
get_fat(a, c) ==
  LET o == a.obj
      cofs == c - o.sclust
      known == (o.objsize # 0 /\ o.sclust # 0) \/ o.stat = 0
      here == o.stat = 2 /\ cofs \in 0 .. o.objsize - 1     \* in a file of one piece
      first == o.stat = 3 /\ cofs \in 0 .. o.n_cont - 1     \* in the first fragment
  IN  IF c \notin Clst \/ ~known \/ (o.stat = 2 /\ ~here) THEN Stop(a, "INT_ERR")
      ELSE IF here \/ first
      THEN [a EXCEPT !.val = IF here /\ cofs = o.objsize - 1 THEN LastClst ELSE c + 1]
      ELSE IF o.n_frag # 0 THEN [a EXCEPT !.val = LastClst] \* on the growing edge
      ELSE Go(move_window(a, fat_sect(c)), LAMBDA b : [b EXCEPT !.val = b.mem.fat[c]])

put_fat(a, c, v) ==
  IF c \notin Clst THEN Stop(a, "INT_ERR")
  ELSE Go(move_window(a, fat_sect(c)), LAMBDA b : [b EXCEPT !.mem.fat[c] = v, !.wflag = TRUE])

\* The first free cluster from clst on, in a ring (one is all that is ever
\* asked for); 0 if there is none.
find_bitmap(a, clst) ==
  Go(move_window(a, <<"bitmap">>), LAMBDA b :
    LET from == IF clst \in Clst THEN clst ELSE 2
        free == Clst \ b.mem.bits
        behind(c) == (c - from) % ExClst
    IN  [b EXCEPT !.val = IF free = {} THEN 0
                          ELSE CHOOSE c \in free : \A d \in free : behind(c) <= behind(d)])

\* Each bit must be the other way before; those ahead of the first that is
\* not are flipped.
change_bitmap(a, clusters, bv) ==
  Go(move_window(a, <<"bitmap">>), LAMBDA b :
    LET wrong == {c \in clusters : bv = (c \in b.mem.bits)}
        flipped == {c \in clusters : \A w \in wrong : c < w}
    IN  [b EXCEPT !.mem.bits = IF bv THEN @ \cup flipped ELSE @ \ flipped,
                  !.wflag = @ \/ flipped # {}, !.res = IF wrong = {} THEN "OK" ELSE "INT_ERR"])

\* Write the links that exist in memory only: those of the first fragment,
\* and those of the last, which ends in cluster lcl, followed by term.
RECURSIVE fill_from(_, _, _), fill_last_frag(_, _, _)
fill_from(a, c, n) ==
  IF n = 0 THEN [a EXCEPT !.obj.stat = 0]
  ELSE Go(put_fat(a, c, c + 1), LAMBDA b : fill_from(b, c + 1, n - 1))
fill_first_frag(a) == IF a.obj.stat # 3 THEN a ELSE fill_from(a, a.obj.sclust, a.obj.n_cont)

fill_last_frag(a, lcl, term) ==
  LET n == a.obj.n_frag IN
  IF n = 0 THEN a
  ELSE Go(put_fat(a, lcl - n + 1, IF n > 1 THEN lcl - n + 2 ELSE term), LAMBDA b :
         fill_last_frag([b EXCEPT !.obj.n_frag = n - 1], lcl, term))

(***************************************************************************)
(* Chains.                                                                 *)
(***************************************************************************)
\* Free the clusters from clst on, a piece at a time; the piece at work began
\* at scl.
RECURSIVE remove_from(_, _, _)
remove_from(a, scl, clst) ==
  Go(get_fat(a, clst), LAMBDA b :
    CASE b.val = 0        -> b
      [] b.val = 1        -> Stop(b, "INT_ERR")
      [] b.val = clst + 1 -> remove_from(b, scl, b.val)
      [] OTHER            -> Go(change_bitmap(b, scl .. clst, FALSE), LAMBDA c :
                               IF b.val \in Clst THEN remove_from(c, b.val, b.val) ELSE c))

\* A chain that has become one piece again, up to pclst.
RECURSIVE rejoin(_, _, _)
rejoin(a, clst, pclst) ==
  IF clst = pclst THEN [a EXCEPT !.obj.stat = 2]
  ELSE Go(get_fat(a, clst), LAMBDA b :
         CASE b.val < 2         -> Stop(b, "INT_ERR")
           [] b.val # clst + 1 /\ b.val >= 2 -> b
           [] OTHER             -> rejoin(b, clst + 1, pclst))

remove_chain(a, clst, pclst) ==
  IF clst \notin Clst THEN Stop(a, "INT_ERR")
  ELSE LET cut == IF pclst # 0 /\ a.obj.stat # 2 THEN put_fat(a, pclst, LastClst) ELSE a
       IN  Go(Go(cut, LAMBDA b : remove_from(b, clst, clst)), LAMBDA c :
             LET o == c.obj IN
             IF pclst = 0 THEN [c EXCEPT !.obj.stat = 0]
             ELSE IF o.stat = 0 THEN rejoin(c, o.sclust, pclst)
             ELSE IF o.stat = 3 /\ pclst - o.sclust \in 0 .. o.n_cont THEN [c EXCEPT !.obj.stat = 2]
             ELSE c)

\* Cluster ncl, in use by now, comes behind clst.  From the link to it on, the
\* chain of a file that is fragmented on the card runs into what the FAT
\* entry of ncl happens to hold, until that is written as well.
link(a, clst, ncl) ==
  LET o == a.obj
      stat == IF clst = 0 THEN 2 ELSE IF o.stat = 2 /\ ncl # clst + 1 THEN 3 ELSE o.stat
      old == a.disk.ent[a.fp.name]
      b == [a EXCEPT !.obj.stat = stat,
                     !.obj.n_cont = IF stat = 3 /\ o.stat = 2 THEN clst - o.sclust ELSE @,
                     !.risk = @ \/ (stat # 2 /\ old.stat = 0 /\ old.clust # 0)]
  IN  CASE stat = 2                      -> b
        [] stat # 2 /\ ncl = clst + 1 -> [b EXCEPT !.obj.n_frag = IF @ = 0 THEN 2 ELSE @ + 1]
        [] OTHER -> Go(fill_last_frag([b EXCEPT !.obj.n_frag = IF @ = 0 THEN 1 ELSE @], clst, ncl),
                       LAMBDA c : [c EXCEPT !.obj.n_frag = 1])

stretch(a, clst) ==
  Go(find_bitmap(a, IF clst = 0 THEN a.last_clst ELSE clst), LAMBDA b :
    IF b.val = 0 THEN b
    ELSE Go(Go(change_bitmap(b, {b.val}, TRUE), LAMBDA c : link(c, clst, b.val)), LAMBDA d :
           [d EXCEPT !.last_clst = b.val, !.val = b.val]))

\* val: the cluster behind clst, there already or new; 0: the volume is full.
create_chain(a, clst) ==
  Go(IF clst = 0 THEN [a EXCEPT !.val = LastClst] ELSE get_fat(a, clst), LAMBDA b :
    IF b.val < 2 THEN Stop(b, "INT_ERR") ELSE IF b.val \in Clst THEN b ELSE stretch(b, clst))

(***************************************************************************)
(* Calls on the open file.                                                 *)
(***************************************************************************)
Usable(a, F(_)) == IF a.fp.err THEN Stop(a, "INT_ERR") ELSE F(a)
\* ABORT: the file is of no use any more but for closing it.
Abort(a) == IF a.res = "OK" THEN a ELSE [a EXCEPT !.fp.err = TRUE]

\* The size follows a pointer that has gone beyond it by a seek, over what
\* the new cluster held before.
Larger(a) ==
  IF a.fp.fptr <= a.obj.objsize THEN a
  ELSE [a EXCEPT !.obj.objsize = a.fp.fptr, !.fp.modified = TRUE,
                 !.hole = @ \cup {<<a.fp.name, a.fp.fptr>>}]

write_data(a) ==
  On(Touch(a), LAMBDA b :
    LET at == b.fp.fptr + 1
        unit == <<b.fp.name, at>>
        c == IF TakesPlace(b) THEN [b EXCEPT !.data[b.fp.clust] = unit, !.hole = @ \ {unit}] ELSE b
    IN  Go(c, LAMBDA d : [d EXCEPT !.fp.fptr = at, !.obj.objsize = IF at > @ THEN at ELSE @]))

RECURSIVE write_on(_, _)
write_on(a, n) ==
  IF n = 0 THEN [a EXCEPT !.fp.modified = TRUE]
  ELSE LET behind == IF a.fp.fptr = 0 THEN 0 ELSE a.fp.clust
           next == IF behind = 0 /\ a.obj.sclust # 0 THEN [a EXCEPT !.val = a.obj.sclust]
                   ELSE create_chain(a, behind)
       IN  Go(next, LAMBDA b :
             IF b.val = 0 THEN [b EXCEPT !.fp.modified = TRUE]
             ELSE Go(write_data([b EXCEPT !.fp.clust = b.val,
                                          !.obj.sclust = IF @ = 0 THEN b.val ELSE @]),
                     LAMBDA c : write_on(c, n - 1)))
f_write(a, n) == Usable(a, LAMBDA b : Abort(write_on(b, n)))

\* Follow the chain to ofs units behind the pointer, stretching it where it
\* ends.
RECURSIVE seek_on(_, _)
seek_on(a, ofs) ==
  IF ofs <= 1 THEN Larger([a EXCEPT !.fp.fptr = @ + ofs])
  ELSE On(Larger([a EXCEPT !.fp.fptr = @ + 1]), LAMBDA b :
       Go(create_chain(b, b.fp.clust), LAMBDA c :
         IF c.val = 0 THEN c ELSE seek_on([c EXCEPT !.fp.clust = c.val], ofs - 1)))

\* From the current cluster if the target is not before it, else from the
\* first.
seek(a, ofs) ==
  LET old == a.fp.fptr
      ahead == old > 0 /\ ofs >= old
      start == IF ahead THEN [a EXCEPT !.fp.fptr = old - 1]
               ELSE Go(IF a.obj.sclust # 0 THEN [a EXCEPT !.val = a.obj.sclust]
                       ELSE create_chain([a EXCEPT !.fp.fptr = 0], 0), LAMBDA b :
                      [b EXCEPT !.obj.sclust = b.val, !.fp.clust = b.val, !.fp.fptr = 0])
  IN  IF ofs = 0 THEN [a EXCEPT !.fp.fptr = 0]
      ELSE Go(start, LAMBDA b : IF b.fp.clust = 0 THEN b ELSE seek_on(b, ofs - b.fp.fptr))
f_lseek(a, ofs) ==
  Usable(a, LAMBDA b :
    Go(fill_last_frag(b, b.fp.clust, LastClst), LAMBDA c : Abort(seek(c, ofs))))

\* Cut the file at its pointer: bitmap and FAT at once, the entry when the
\* file is flushed.  When this is broken off for a file just fragmented, the
\* flush will write the links of its first fragment again, those cut off
\* included: that file is lost.
cut_chain(a) ==
  IF a.fp.fptr = 0 THEN [remove_chain(a, a.obj.sclust, 0) EXCEPT !.obj.sclust = 0]
  ELSE Go(get_fat(a, a.fp.clust), LAMBDA b :
         IF b.val \in Clst THEN remove_chain(b, b.val, a.fp.clust) ELSE b)
f_truncate(a) ==
  Usable(a, LAMBDA b :
    IF b.fp.fptr >= b.obj.objsize THEN b
    ELSE On([cut_chain([b EXCEPT !.risk = TRUE]) EXCEPT
               !.obj.objsize = b.fp.fptr, !.fp.modified = TRUE],
            LAMBDA c : Abort([c EXCEPT !.torn = c.res # "OK" /\ c.obj.stat = 3])))

set_entry(a, name, e) == [a EXCEPT !.mem.ent[name] = e, !.wflag = TRUE]

f_sync(a) ==
  IF ~a.fp.modified THEN a
  ELSE LET filled == Go(fill_first_frag(a), LAMBDA b : fill_last_frag(b, b.fp.clust, LastClst))
           found == Go(filled, LAMBDA b : move_window(b, <<"entries">>))
           entry(o) == [clust |-> o.sclust, size |-> o.objsize, stat |-> o.stat]
       IN  Go(found, LAMBDA b :
             On(sync_fs(set_entry(b, b.fp.name, entry(b.obj))), LAMBDA c :
               [c EXCEPT !.fp.modified = FALSE, !.risk = @ /\ c.res # "OK"]))

init_alloc_info(e) ==
  [sclust |-> e.clust, objsize |-> e.size, stat |-> e.stat, n_cont |-> 0, n_frag |-> 0]
NoObj == init_alloc_info(NewEntry)
f_close(a) == Go(f_sync(a), LAMBDA b : [b EXCEPT !.fp = NoFp, !.obj = NoObj])

(***************************************************************************)
(* Calls on names.                                                         *)
(***************************************************************************)
\* Free the clusters of entry e by way of an object of its own.
release(a, e) ==
  IF e.clust = 0 THEN a
  ELSE [remove_chain([a EXCEPT !.obj = init_alloc_info(e)], e.clust, 0) EXCEPT !.obj = a.obj]

f_open(a, name, always) ==
  Go(move_window(a, <<"entries">>), LAMBDA b :
    LET e == b.mem.ent[name]
        opened(c, entry) == [c EXCEPT !.fp = [NoFp EXCEPT !.name = name, !.modified = always],
                                      !.obj = init_alloc_info(entry)]
    IN  CASE ~always /\ e = NoEntry -> Stop(b, "NO_FILE")
          [] ~always /\ e # NoEntry -> opened(b, e)
          [] OTHER ->
               Go([release(set_entry(b, name, NewEntry), e) EXCEPT
                     !.last_clst = IF e.clust = 0 THEN @ ELSE e.clust - 1],
                  LAMBDA c : opened(c, NewEntry)))

f_unlink(a, name) ==
  Go(move_window(a, <<"entries">>), LAMBDA b :
    IF b.mem.ent[name] = NoEntry THEN Stop(b, "NO_FILE")
    ELSE Go(release(set_entry(b, name, NoEntry), b.mem.ent[name]), LAMBDA c : sync_fs(c)))

(***************************************************************************)
(* The application, which has one file open at most and does not unlink    *)
(* it, and the faults of the card.                                         *)
(***************************************************************************)
\* A formatted volume.  Nothing ever cleared the entries of its FAT: what they
\* hold is from files of long ago.
Formatted ==
  LET card == [bits |-> {}, fat |-> [c \in Clst |-> 2], ent |-> [f \in FileNames |-> NoEntry]]
  IN  [disk |-> card, mem |-> card, data |-> [c \in Clst |-> <<>>], hole |-> {},
       winsect |-> <<"none">>, wflag |-> FALSE, last_clst |-> LastClst,
       fp |-> NoFp, obj |-> NoObj, res |-> "OK", val |-> 0,
       io |-> 0, fail_at |-> 0, how |-> "none", dead |-> FALSE,
       risk |-> FALSE, torn |-> FALSE]
Extended(a, name, always, at, n) == f_close(f_write(f_lseek(f_open(a, name, always), at), n))
\* The first file in two pieces around the second.
Fragmented ==
  Extended(Extended(Extended(Formatted, 1, TRUE, 0, 1), 2, TRUE, 0, 1), 1, FALSE, 1, 1)

Resting(a) == [a EXCEPT !.val = 0, !.io = 0, !.fail_at = 0, !.how = "none"]
\* A mount reads the volume only.
Restarted(a) ==
  [Formatted EXCEPT !.disk = a.disk, !.mem = a.disk, !.data = a.data, !.hole = a.hole,
                    !.torn = a.torn \/ a.risk]

ExInit == ex \in {Formatted, Resting(Fragmented)} /\ ex_calls = 0 /\ ex_faulty = FALSE

Call(F(_)) ==
  /\ ex_calls < ExCalls /\ ex_calls' = ex_calls + 1 /\ ~ex.torn
  /\ LET begin == [ex EXCEPT !.res = "OK"] IN
     \/ ex' = Resting(F(begin)) /\ UNCHANGED ex_faulty
     \/ /\ ~ex_faulty /\ ex_faulty' = TRUE
        /\ \E how \in ExFaults, k \in 1 .. F(begin).io :
             LET a == F([begin EXCEPT !.how = how, !.fail_at = k])
             IN  ex' = IF how = "power" THEN Restarted(a) ELSE Resting(a)

Open ==
  ex.fp = NoFp /\ \E f \in FileNames, always \in BOOLEAN : Call(LAMBDA a : f_open(a, f, always))
WriteUnits == ex.fp # NoFp /\ \E n \in ExLengths : Call(LAMBDA a : f_write(a, n))
Seek == ex.fp # NoFp /\ \E n \in ExOffsets : Call(LAMBDA a : f_lseek(a, n))
Truncate == ex.fp # NoFp /\ Call(f_truncate)
Sync == ex.fp # NoFp /\ Call(f_sync)
Close == ex.fp # NoFp /\ Call(f_close)
Unlink == \E f \in FileNames \ {ex.fp.name} : Call(LAMBDA a : f_unlink(a, f))
PowerLoss ==
  /\ "power" \in ExFaults /\ ~ex_faulty /\ ex_faulty' = TRUE /\ (ex.wflag \/ ex.fp # NoFp)
  /\ ex' = Restarted(ex) /\ UNCHANGED ex_calls

ExNext == Open \/ WriteUnits \/ Seek \/ Truncate \/ Sync \/ Close \/ Unlink \/ PowerLoss
ExSpec == ExInit /\ [][ExNext]_exVars

(***************************************************************************)
(* Properties, by the definition of the format and not by way of the code. *)
(***************************************************************************)
\* The clusters of entry e in their order, and all that its chain leads to.
Place(card, e) ==
  LET at[i \in 1 .. e.size] ==
        IF i = 1 THEN e.clust
        ELSE IF e.stat = 2 THEN at[i - 1] + 1
        ELSE IF at[i - 1] \in Clst THEN card.fat[at[i - 1]] ELSE LastClst
  IN  at
RECURSIVE Closure(_, _)
Closure(card, C) ==
  LET more == C \cup {card.fat[c] : c \in C \cap Clst}
  IN  IF more = C THEN C ELSE Closure(card, more)
Reach(card, e) ==
  IF e.clust = 0 \/ (e.stat = 2 /\ e.size <= 0) THEN {}
  ELSE IF e.stat = 2 THEN e.clust .. e.clust + e.size - 1
  ELSE Closure(card, {e.clust}) \ {LastClst}
Ends(card, e) == e.stat = 0 /\ e.clust # 0 => \E c \in Reach(card, e) : card.fat[c] = LastClst
\* Unit i of file f is in cluster c, or was never written.
Holds(c, f, i) == ex.data[c] = <<f, i>> \/ <<f, i>> \in ex.hole

\* On the card, whatever call was interrupted or refused at whatever access:
\* the clusters of a file are in use, its alone, end, and hold what was
\* written to the file.
CardKept ==
  LET ent == ex.disk.ent IN
  ~ex.torn /\ ~ex.risk =>
    /\ \A f \in FileNames :
         /\ Reach(ex.disk, ent[f]) \subseteq ex.disk.bits
         /\ Ends(ex.disk, ent[f])
         /\ ent[f].size > 0 => ent[f].clust # 0
         /\ \A i \in 1 .. ent[f].size : Holds(Place(ex.disk, ent[f])[i], f, i)
    /\ \A f, g \in FileNames : f # g => Reach(ex.disk, ent[f]) \cap Reach(ex.disk, ent[g]) = {}

\* The clusters of the open file as FatFs would follow them from the first.
Followed ==
  LET filled == fill_last_frag([ex EXCEPT !.res = "OK"], ex.fp.clust, LastClst)
      at[i \in 1 .. ex.obj.objsize + 1] ==
        IF i = 1 THEN ex.obj.sclust
        ELSE On(get_fat(filled, at[i - 1]), LAMBDA b : IF b.res = "OK" THEN b.val ELSE 0)
  IN  at
OpenKept ==
  ex.fp # NoFp /\ ~ex.fp.err /\ ex.obj.objsize > 0 =>
    LET n == ex.obj.objsize
        at == Followed
        own == ex.mem.bits \ UNION {Reach(ex.mem, ex.mem.ent[f]) : f \in FileNames \ {ex.fp.name}}
    IN  /\ \A i \in 1 .. n : at[i] \in own /\ Holds(at[i], ex.fp.name, i)
        /\ at[n + 1] \in own \cup {LastClst}

\* Without a fault nothing is ever inconsistent, and no cluster gets lost.
NoneLost ==
  ~ex_faulty =>
    /\ ex.res \in {"OK", "NO_FILE"}
    /\ ex.mem.bits = UNION {Reach(ex.mem, ex.mem.ent[f]) : f \in FileNames \ {ex.fp.name}}
                    \cup IF ex.fp = NoFp \/ ex.obj.objsize = 0 THEN {}
                         ELSE {Followed[i] : i \in 1 .. ex.obj.objsize}

\* Files on an exFAT volume survive what happens to the card, on the card and
\* in memory, with the links FatFs has not written yet, except where risk
\* says that the card is not up to date: a file cut short and not flushed,
\* and one that grows a fragment behind the chain the card has.
ExFilesKept == CardKept /\ OpenKept /\ NoneLost
=============================================================================
