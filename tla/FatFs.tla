------------------------------- MODULE FatFs --------------------------------
(***************************************************************************)
(* FatFs under an application and a card that fails.                       *)
(*                                                                         *)
(* The application keeps at most one file open, leaves the path of that    *)
(* file alone otherwise, never shortens a file that has a link map and     *)
(* never moves a directory into itself; FatFs checks none of this          *)
(* (FF_FS_LOCK is 0).  Every call is one step, taken without a fault or    *)
(* with a fault at any one of its accesses to the card: the power fails    *)
(* there for good ("power"), or the card refuses that one access without   *)
(* ("lost") or after ("done") carrying it out.  The power can fail between *)
(* two calls as well.  After it the memory is gone, and the next call on a *)
(* path mounts the volume again.                                           *)
(*                                                                         *)
(* A volume that was interrupted where FatFs itself says that this         *)
(* destroys it, or in one of the places found here (s.torn), is not used   *)
(* any further.                                                            *)
(***************************************************************************)
EXTENDS FatApi
LOCAL INSTANCE SequencesExt

CONSTANTS
  Files,      \* paths of files
  Dirs,       \* paths of directories
  Moves,      \* pairs of paths to rename
  Modes,      \* ways to open a file
  Writes,     \* sequences of units to write
  Reads,      \* lengths to read
  Seeks,      \* positions to go to
  Ops,        \* calls made besides opening, writing and closing
  Setup,      \* what is on the volume at the beginning: sequence of <<path, units or IsDir>>
  Faults,     \* kinds of faults
  MaxCalls,   \* calls, and
  MaxFaults   \* faults, of a behaviour

ASSUME AppAssumption ==
  /\ Faults \subseteq {"power", "lost", "done"}
  /\ Ops \subseteq {"read", "seek", "sync", "truncate", "linkmap", "unlink", "mkdir", "rename", "list", "getfree"}
  /\ {MaxCalls, MaxFaults} \subseteq Nat

VARIABLES
  s,          \* card and memory
  cur,        \* path of the open file, or <<>>
  draft,      \* what the application has written there, or Unknown
  want,       \* path -> what the card must hold: units, IsDir or Absent
  unsure,     \* paths with an unfinished or failed change
  reply,      \* what the last call told, with what it had to tell
  calls, faults

vars == <<s, cur, draft, want, unsure, reply, calls, faults>>

Paths == Files \cup Dirs
\* Values of want and draft besides the units of a file.
Absent == <<"absent">>
IsDir == <<"directory">>
Unknown == <<"unknown">>
NoReply == [op |-> "none"]

(***************************************************************************)
(* The card after formatting and the memory after the start.               *)
(***************************************************************************)
root_clst == IF FatType = "FAT32" THEN {dirbase} ELSE {}
Formatted ==
  [x \in Sectors |->
    CASE x = FSInfo -> [k |-> "fsi", free |-> NClst - Cardinality(root_clst), last |-> NONE]
      [] x \in fatbase .. rootsect - 1 ->
           [k |-> "fat", e |-> [i \in 0 .. FatEnt - 1 |->
              IF ((x - fatbase) % fsize) * FatEnt + i \in {0, 1} \cup root_clst THEN EOC ELSE 0]]
      [] x \in rootsect .. database - 1 -> EmptyTable
      [] OTHER -> IF \E c \in root_clst : x \in clst2sect(c) .. clst2sect(c) + csize - 1
                  THEN EmptyTable ELSE Data([i \in 1 .. SS |-> "old"])]

Started(disk) ==
  [disk |-> disk, win |-> EmptyTable, winsect |-> NONE, wflag |-> FALSE,
   free_clst |-> NONE, last_clst |-> NONE, fsi_flag |-> {"off"}, mounted |-> FALSE,
   res |-> "OK", val |-> 0, io |-> 0, fail_at |-> 0, how |-> "none", dead |-> FALSE,
   crit |-> {}, torn |-> {}, dp |-> NoDir, lfnbuf |-> "", fp |-> NoFile, out |-> <<>>]

\* Between calls what only a call needs is of no interest.
Rest(a) == [a EXCEPT !.res = "OK", !.val = 0, !.io = 0, !.fail_at = 0, !.how = "none",
                     !.dp = NoDir, !.lfnbuf = "", !.out = <<>>]
AfterPowerLoss(a) == [Started(a.disk) EXCEPT !.torn = a.torn \cup a.crit]

Store(a, path, units) == f_close(f_write(f_open(a, path, {"write", "new"}), units))
RECURSIVE Prepare(_, _)
Prepare(a, files) ==
  IF files = <<>> THEN a
  ELSE LET path == files[1][1]
           value == files[1][2]
       IN  Prepare(IF value = IsDir THEN f_mkdir(a, path) ELSE Store(a, path, value), Tail(files))

Init ==
  /\ s = Rest(Prepare(Started(Formatted), Setup))
  /\ cur = <<>> /\ draft = Unknown
  /\ want = [p \in Paths |-> IF \E i \in DOMAIN Setup : Setup[i][1] = p
                             THEN Setup[CHOOSE i \in DOMAIN Setup : Setup[i][1] = p][2] ELSE Absent]
  /\ unsure = {} /\ reply = NoReply
  /\ calls = 0 /\ faults = 0

(***************************************************************************)
(* One call F that concerns the paths P: Done(a) says what the application *)
(* makes of its end without a fault.                                       *)
(***************************************************************************)
\* The call comes back without a fault.
Returns(F(_), Done(_)) ==
  LET a == F(s) IN s' = Rest(a) /\ Done(a) /\ UNCHANGED faults

\* A fault at one of the accesses F makes.  With "power" the power fails there;
\* otherwise the card refuses the access.  Some errors FatFs keeps to itself
\* (the second copy of the FAT, FSInfo): the application goes on as if nothing
\* happened.
Faulted(F(_), P, Done(_)) ==
  \E how \in Faults, k \in 1 .. F(s).io :
    LET a == F([s EXCEPT !.how = how, !.fail_at = k]) IN
    /\ s' = IF how = "power" THEN AfterPowerLoss(a) ELSE Rest(a)
    /\ IF how # "power" /\ a.res = "OK" THEN Done(a)
       ELSE /\ cur' = IF how # "power" /\ a.fp.open THEN cur ELSE <<>>
            /\ draft' = IF how # "power" /\ P = {} THEN draft ELSE Unknown
            /\ unsure' = unsure \cup P
            /\ reply' = NoReply
            /\ UNCHANGED want

Call(F(_), P, Done(_)) ==
  /\ calls < MaxCalls /\ calls' = calls + 1
  /\ s.torn = {}
  /\ \/ Returns(F, Done)
     \/ faults < MaxFaults /\ faults' = faults + 1 /\ Faulted(F, P, Done)

PowerLoss ==
  /\ "power" \in Faults /\ faults < MaxFaults /\ faults' = faults + 1
  /\ s.torn = {} /\ s.mounted
  /\ s' = AfterPowerLoss(s)
  /\ cur' = <<>> /\ draft' = Unknown /\ reply' = NoReply
  /\ UNCHANGED <<want, unsure, calls>>

(***************************************************************************)
(* What the application expects.                                           *)
(***************************************************************************)
Same == UNCHANGED <<cur, draft, want, unsure>>
Here == s.fp.fptr
Known == draft # Unknown
\* units written over d at position n, what lies between being undefined
Overlay(d, n, units) ==
  [i \in 1 .. (IF n + Len(units) > Len(d) THEN n + Len(units) ELSE Len(d)) |->
     IF i \in n + 1 .. n + Len(units) THEN units[i - n] ELSE IF i \in DOMAIN d THEN d[i] ELSE Garbage]

Open ==
  /\ cur = <<>>
  /\ \E p \in Files, mode \in Modes :
       Call(LAMBDA a : f_open(a, p, mode), {p}, LAMBDA a :
         LET fresh == "always" \in mode \/ (want[p] = Absent /\ p \notin unsure) IN
         /\ reply' = [op |-> "open", res |-> a.res, there |-> want[p], sure |-> p \notin unsure, mode |-> mode]
         /\ IF a.res # "OK" THEN Same
            ELSE /\ cur' = p
                 /\ draft' = IF fresh THEN <<>> ELSE IF p \in unsure THEN Unknown ELSE want[p]
                 /\ unsure' = IF fresh THEN unsure \cup {p} ELSE unsure
                 /\ UNCHANGED want)

Write ==
  /\ cur # <<>>
  /\ \E units \in Writes :
       Call(LAMBDA a : f_write(a, units), {cur}, LAMBDA a :
         LET n == a.fp.fptr - Here IN
         /\ draft' = IF Known /\ a.res = "OK" THEN Overlay(draft, Here, SubSeq(units, 1, n)) ELSE draft
         /\ unsure' = IF a.res = "OK" THEN unsure \cup {cur} ELSE unsure
         /\ reply' = [op |-> "write", res |-> a.res, full |-> a.res = "OK" /\ n < Len(units), mapped |-> s.fp.cltbl # <<>>]
         /\ UNCHANGED <<cur, want>>)

Read ==
  /\ "read" \in Ops /\ cur # <<>>
  /\ \E n \in Reads :
       Call(LAMBDA a : f_read(a, n), {}, LAMBDA a :
         /\ reply' = [op |-> "read", res |-> a.res, out |-> a.out,
                      due |-> IF Known THEN SubSeq(draft, Here + 1, Least(Here + n, Len(draft))) ELSE Unknown]
         /\ Same)

Seek ==
  /\ "seek" \in Ops /\ cur # <<>>
  /\ \E n \in Seeks :
       Call(LAMBDA a : f_lseek(a, n), IF n > s.fp.size THEN {cur} ELSE {}, LAMBDA a :
         /\ draft' = IF Known /\ a.res = "OK" /\ a.fp.size > Len(draft)
                     THEN Overlay(draft, a.fp.size, <<>>) ELSE draft
         /\ unsure' = IF a.fp.size > s.fp.size THEN unsure \cup {cur} ELSE unsure
         /\ reply' = [op |-> "seek", res |-> a.res, at |-> a.fp.fptr, to |-> n, grows |-> s.fp.cltbl = <<>> /\ "write" \in s.fp.flags]
         /\ UNCHANGED <<cur, want>>)

LinkMap ==
  /\ "linkmap" \in Ops /\ cur # <<>> /\ s.fp.cltbl = <<>> /\ s.fp.sclust # 0
  /\ Call(LAMBDA a : f_linkmap(a), {}, LAMBDA a : reply' = NoReply /\ Same)

Truncate ==
  /\ "truncate" \in Ops /\ cur # <<>> /\ s.fp.cltbl = <<>>
  /\ Call(LAMBDA a : f_truncate(a), {cur}, LAMBDA a :
       /\ draft' = IF Known /\ a.res = "OK" THEN SubSeq(draft, 1, Least(Here, Len(draft))) ELSE draft
       /\ unsure' = IF a.res = "OK" THEN unsure \cup {cur} ELSE unsure
       /\ reply' = [op |-> "truncate", res |-> a.res]
       /\ UNCHANGED <<cur, want>>)

\* The open file is on the card as the application left it.
Settle ==
  IF Known THEN want' = [want EXCEPT ![cur] = draft] /\ unsure' = unsure \ {cur}
  ELSE UNCHANGED <<want, unsure>>

Sync ==
  /\ "sync" \in Ops /\ cur # <<>>
  /\ Call(LAMBDA a : f_sync(a), {cur} \cap unsure, LAMBDA a :
       /\ reply' = [op |-> "sync", res |-> a.res]
       /\ IF a.res = "OK" THEN Settle ELSE UNCHANGED <<want, unsure>>
       /\ UNCHANGED <<cur, draft>>)

Close ==
  /\ cur # <<>>
  /\ Call(LAMBDA a : f_close(a), {cur} \cap unsure, LAMBDA a :
       /\ reply' = [op |-> "close", res |-> a.res]
       /\ IF a.res = "OK" THEN Settle /\ cur' = <<>> /\ draft' = Unknown ELSE Same)

(***************************************************************************)
(* Calls on paths.                                                         *)
(***************************************************************************)
Idle(p) == cur = <<>> \/ ~IsPrefix(p, cur)        \* not the open file, nor above it
Beneath(p) == {r \in Paths : IsPrefix(p, r)}
Settled(p, value) == want' = [want EXCEPT ![p] = value] /\ unsure' = unsure \ {p}

Unlink ==
  /\ "unlink" \in Ops
  /\ \E p \in Paths : Idle(p) /\
       Call(LAMBDA a : f_unlink(a, p), {p}, LAMBDA a :
         /\ reply' = [op |-> "unlink", res |-> a.res, sure |-> Beneath(p) \cap unsure = {},
                      there |-> want[p], inside |-> {r \in Beneath(p) \ {p} : want[r] # Absent}]
         /\ IF a.res = "OK" THEN Settled(p, Absent) ELSE UNCHANGED <<want, unsure>>
         /\ UNCHANGED <<cur, draft>>)

MkDir ==
  /\ "mkdir" \in Ops
  /\ \E p \in Dirs :
       Call(LAMBDA a : f_mkdir(a, p), {p}, LAMBDA a :
         /\ reply' = [op |-> "mkdir", res |-> a.res, sure |-> p \notin unsure, there |-> want[p]]
         /\ IF a.res = "OK" THEN Settled(p, IsDir) ELSE UNCHANGED <<want, unsure>>
         /\ UNCHANGED <<cur, draft>>)

\* Whatever is beneath p moves along to q.
Moved(p, q, r) ==
  CASE IsPrefix(q, r)                    -> LET o == p \o Drop(r, Len(q)) IN IF o \in Paths THEN want[o] ELSE Absent
    [] ~IsPrefix(q, r) /\ IsPrefix(p, r) -> Absent
    [] OTHER                             -> want[r]

Rename ==
  /\ "rename" \in Ops
  /\ \E m \in Moves :
       LET p == m[1]
           q == m[2]
           both == Beneath(p) \cup Beneath(q)
       IN  /\ Idle(p) /\ Idle(q)
           /\ Call(LAMBDA a : f_rename(a, p, q), both, LAMBDA a :
                /\ reply' = [op |-> "rename", res |-> a.res, sure |-> both \cap unsure = {},
                             there |-> want[p], target |-> IF p = q THEN Absent ELSE want[q]]
                /\ want' = IF a.res = "OK" THEN [r \in Paths |-> Moved(p, q, r)] ELSE want
                /\ unsure' = IF a.res # "OK" THEN unsure
                             ELSE (unsure \ both) \cup (IF Beneath(p) \cap unsure = {} THEN {} ELSE Beneath(q))
                /\ UNCHANGED <<cur, draft>>)

Children(p) == {r \in Paths : Len(r) = Len(p) + 1 /\ IsPrefix(p, r)}

List ==
  /\ "list" \in Ops
  /\ \E p \in Dirs \cup {<<>>} :
       Call(LAMBDA a : f_list(a, p), {}, LAMBDA a :
         /\ reply' = [op |-> "list", res |-> a.res, sure |-> ({p} \cup Children(p)) \cap unsure = {},
                      there |-> IF p = <<>> THEN IsDir ELSE want[p],
                      out |-> [i \in DOMAIN a.out |-> a.out[i].name],
                      due |-> {LET nm == r[Len(r)] IN IF LfnEntries[nm] = 0 THEN PlainSfn(nm) ELSE <<nm>>
                               : r \in {x \in Children(p) : want[x] # Absent}}]
         /\ Same)

GetFree ==
  /\ "getfree" \in Ops
  /\ Call(LAMBDA a : f_getfree(a), {}, LAMBDA a : reply' = NoReply /\ Same)

Next ==
  \/ Open \/ Write \/ Read \/ Seek \/ LinkMap \/ Truncate \/ Sync \/ Close
  \/ Unlink \/ MkDir \/ Rename \/ List \/ GetFree
  \/ PowerLoss

Spec == Init /\ [][Next]_vars

(***************************************************************************)
(* The medium, read by the definition of the FAT format and not by way of  *)
(* the code.                                                               *)
(***************************************************************************)
FatOf(disk, c) == disk[fatbase + c \div FatEnt].e[c % FatEnt]
Clusters == 2 .. n_fatent - 1
RECURSIVE Closure(_, _)
Closure(disk, C) ==
  LET more == C \cup ({FatOf(disk, c) : c \in C} \cap Clusters)
  IN  IF more = C THEN C ELSE Closure(disk, more)
Chain(disk, c) == Closure(disk, {c} \cap Clusters)

\* Sectors of a directory by its first cluster (0: the root).
DirSectors(disk, c) ==
  IF c = 0 /\ FatType = "FAT16" THEN rootsect .. database - 1
  ELSE UNION {clst2sect(x) .. clst2sect(x) + csize - 1 : x \in Chain(disk, IF c = 0 THEN dirbase ELSE c)}
\* Entries in use, each with its place.
EntriesOf(disk, c) ==
  {e \in {[at |-> <<x, i>>, e |-> Entry(disk[x], i)] : x \in DirSectors(disk, c), i \in 0 .. DirEnt - 1} :
     e.e.k \in {"sfn", "junk"}}
RECURSIVE Tops(_, _)
Tops(disk, T) ==
  LET more == T \cup {e.e.clust : e \in {x \in UNION {EntriesOf(disk, t) : t \in T} : x.e.k = "sfn" /\ x.e.dir}}
  IN  IF more = T THEN T ELSE Tops(disk, more)
Objects(disk) == UNION {EntriesOf(disk, t) : t \in Tops(disk, {0})}

\* What the program sees, the window being newer than the card.
View == IF s.wflag THEN [s.disk EXCEPT ![s.winsect] = s.win] ELSE s.disk
FreeIn(disk) == Cardinality({c \in Clusters : FatOf(disk, c) = 0})

\* What a fresh start reads at path p.
ReadBack(p) ==
  LET found == f_stat(Started(s.disk), p)
      file == f_open(Started(s.disk), p, {"read"})
  IN  IF found.res # "OK" THEN Absent
      ELSE IF found.out[1].dir THEN IsDir
      ELSE f_read(file, found.out[1].size).out
Agrees(got, due) == Len(got) = Len(due) /\ \A i \in DOMAIN due : due[i] \in {got[i], Garbage}

Intact == s.torn = {}

\* No cluster belongs to two objects, or to the root directory and an object:
\* whatever call was interrupted or refused at whatever access (create_chain
\* and remove_chain order their writes for it).
ChainsDisjoint ==
  Intact =>
    LET Obj == {e \in Objects(s.disk) : e.e.k = "sfn"}
    IN  /\ \A e, f \in Obj : e # f => Chain(s.disk, e.e.clust) \cap Chain(s.disk, f.e.clust) = {}
        /\ root_clst # {} => \A e \in Obj : dirbase \notin Chain(s.disk, e.e.clust)

\* Every entry on the card leads to allocated clusters that end, enough for
\* its size, and every sector of a directory was written as one, except while
\* a shortened file waits for its entry to follow (f_truncate).
EntriesCovered ==
  Intact /\ s.crit = {} =>
    \A e \in Objects(s.disk) :
      LET C == Chain(s.disk, e.e.clust) IN
      /\ e.e.k # "junk"
      /\ e.e.clust # 0 => 0 \notin {FatOf(s.disk, c) : c \in C} /\ \E c \in C : FatOf(s.disk, c) >= n_fatent
      /\ e.e.clust = 0 => e.e.size = 0 /\ ~e.e.dir
      /\ ~e.e.dir => Cardinality(C) * bcs >= e.e.size

\* What the application finished, and left alone since, is on the card as it
\* left it, whatever failed in between.
FinishedSurvives ==
  Intact => \A p \in Paths \ unsure : p # cur \/ draft = want[p] => Agrees(ReadBack(p), want[p])

\* free_clst is the number of free clusters or unknown, as long as nothing
\* failed; it is never out of range.
FreeCountTrue ==
  /\ s.free_clst = NONE \/ s.free_clst \in 0 .. NClst
  /\ faults = 0 /\ s.mounted /\ s.free_clst # NONE => s.free_clst = FreeIn(View)

\* A free cluster is found if there is one, wherever the search begins.
SpaceIsFound ==
  faults = 0 =>
    /\ reply.op = "write" /\ reply.full => FreeIn(View) = 0 \/ reply.mapped
    /\ reply.op = "seek" /\ reply.res = "OK" /\ reply.at < reply.to => FreeIn(View) = 0 \/ ~reply.grows
    /\ reply.op \in {"mkdir", "open"} /\ reply.res = "DENIED" =>
         FreeIn(View) = 0 \/ FatType = "FAT16" \/ reply.there = IsDir

\* A call answers what an ordinary file system answers, read data is what was
\* written, and directories list what is there: each object once, and after
\* an interrupted removal perhaps an object that only its 8.3 name is left of.
AnswersTrue ==
  CASE reply.op = "read"   -> reply.res = "OK" /\ reply.due # Unknown => Agrees(reply.out, reply.due)
    [] reply.op = "open" /\ reply.sure ->
         CASE reply.there = IsDir  -> reply.res \in {"DENIED", "NO_FILE", "EXIST"}
           [] reply.there = Absent -> IF reply.mode \cap {"new", "always", "open"} = {}
                                      THEN reply.res \in {"NO_FILE", "NO_PATH"} ELSE reply.res \in {"OK", "DENIED", "NO_PATH"}
           [] OTHER                -> reply.res = IF "new" \in reply.mode THEN "EXIST" ELSE "OK"
    [] reply.op = "unlink" /\ reply.sure ->
         CASE reply.there = Absent                         -> reply.res \in {"NO_FILE", "NO_PATH"}
           [] reply.there # Absent /\ reply.inside # {}    -> reply.res = "DENIED"
           [] OTHER -> reply.res = "OK" \/ (reply.there = IsDir /\ faults > 0 /\ reply.res = "DENIED")
    [] reply.op = "mkdir" /\ reply.sure ->
         IF reply.there = Absent THEN reply.res \in {"OK", "DENIED", "NO_PATH"} ELSE reply.res = "EXIST"
    [] reply.op = "rename" /\ reply.sure ->
         CASE reply.there = Absent                            -> reply.res \in {"NO_FILE", "NO_PATH"}
           [] reply.there # Absent /\ reply.target # Absent   -> reply.res = "EXIST"
           [] OTHER -> reply.res \in {"OK", "NO_PATH", "DENIED"}
    [] reply.op = "list" /\ reply.sure ->
         IF reply.there # IsDir THEN reply.res = "NO_PATH"
         ELSE LET names == {reply.out[i] : i \in DOMAIN reply.out}
              IN  /\ reply.res = "OK" /\ Len(reply.out) = Cardinality(names)
                  /\ reply.due \subseteq names /\ (faults = 0 => names = reply.due)
    [] OTHER -> TRUE
=============================================================================
