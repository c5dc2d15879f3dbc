------------------------------ MODULE Encodings ------------------------------
(***************************************************************************)
(* Names and entry sets, each over a set of inputs: a behaviour picks one, *)
(* and the invariant compares what the code makes of it with what it is    *)
(* for.                                                                    *)
(***************************************************************************)
EXTENDS FatNames, FatExDir
LOCAL INSTANCE SequencesExt

CONSTANTS
  Names, Rivals,  \* names, and those that are compared with each other
  Codes,          \* Unicode codes
  XNames,         \* names on an exFAT volume, as sequences of codes
  XFiles          \* those of files made and removed

VARIABLE text

TextInit == text = [kind |-> "none"]

Name == \E nm \in Names : text' = [kind |-> "name", nm |-> nm]
TwoNames == \E x, y \in Rivals : text' = [kind |-> "names", x |-> x, y |-> y]
Code == \E u \in Codes : text' = [kind |-> "code", code |-> u]
Table == \E codes \in SUBSET (128 .. 134) : text' = [kind |-> "table", codes |-> codes]
Set == \E nm \in XNames : text' = [kind |-> "set", nm |-> nm]
Sets == \E x, y \in XNames : text' = [kind |-> "sets", x |-> x, y |-> y]
Directory ==
  \E calls \in [1 .. 4 -> {"make", "remove"} \X XFiles] : text' = [kind |-> "directory", calls |-> calls]

TextNext ==
  /\ text.kind = "none"
  /\ \/ Name \/ TwoNames \/ Code \/ Table
     \/ Set \/ Sets \/ Directory

(***************************************************************************)
(* Names on the volume.                                                    *)
(***************************************************************************)
\* The bytes of a letter of two bytes stay together.
WellFormed(fn) ==
  \A field \in {<<0, Body>>, <<Body, Body + Ext>>} : \A k \in field[1] .. field[2] - 1 :
    /\ fn[k] = "K1" => k + 1 < field[2] /\ fn[k + 1] = "K2"
    /\ fn[k] = "K2" => k > field[1] /\ fn[k - 1] = "K1"

NameTrue(nm) ==
  LET c == create_name(nm)
  IN  c.ok =>
        /\ "LFN" \notin c.cf => get_fileinfo(c.fn, c.cf) = c.lfn
        /\ Picked(LongEntries(c.lfn), lfnbuf(<<>>, c.lfn)) = c.lfn
        /\ WellFormed(c.fn)
        /\ \A digits \in {<<"1">>, <<"2">>, <<"1", "2">>} : WellFormed(gen_numname(c.fn, digits))

\* old is what the buffer held before: the entries of x must not match what is
\* left of it.
NamesTrue(x, y) ==
  LET c == create_name(x)
      d == create_name(y)
      same == UpperName(c.lfn) = UpperName(d.lfn)
  IN  c.ok /\ d.ok =>
        /\ Matches(LongEntries(c.lfn), lfnbuf(d.lfn, c.lfn)) <=> same
        /\ "LOSS" \notin c.cf \cup d.cf => (c.fn = d.fn <=> same)

CodeTrue(u) ==
  LET up == ff_wtoupper(u)
  IN  /\ ff_wtoupper(up) = up
      /\ up \in 0 .. 65535
      /\ u >= 128 => up >= 128

TableTrue(codes) ==
  LET sorted == SetToSortSeq(codes, <)
      table == [i \in DOMAIN sorted |-> <<sorted[i], sorted[i] + 1000>>] \o <<<<0, 0>>>>
  IN  \A u \in 100 .. 140 :
        /\ ff_uni2oem(u, table) = IF u < 128 THEN u ELSE IF u \in codes THEN u + 1000 ELSE 0
        /\ ff_oem2uni(u, table) = ff_uni2oem(u, table)

(***************************************************************************)
(* Entry sets of exFAT.  Neighbour is a set behind them.                   *)
(***************************************************************************)
XTable == <<<<224, 133>>, <<945, 224>>, <<0, 0>>>>
XSet(nm) == store_xdir(create_xdir(nm), 32)
Neighbour == XSet(<<122>>)
Same(x, y) == [i \in DOMAIN x |-> ff_wtoupper(x[i])] = [i \in DOMAIN y |-> ff_wtoupper(y[i])]

SetTrue(nm) ==
  LET dir == XSet(nm) \o Neighbour
      shown == get_xfileinfo(load_xdir(dir, 1), XTable)
      Damaged(k, j, d) == [dir EXCEPT ![k][j] = (@ + d) % 256]
  IN  /\ load_xdir(dir, 1) = XSet(nm) /\ Len(XSet(nm)) = set_size(Len(nm))
      /\ shown = IF \A i \in DOMAIN nm : ff_uni2oem(nm[i], XTable) # 0
                 THEN [i \in DOMAIN nm |-> ff_uni2oem(nm[i], XTable)] ELSE <<63>>
      /\ \A k \in DOMAIN XSet(nm) : \A j \in DOMAIN dir[k], d \in {1, 128, 255} :
           load_xdir(Damaged(k, j, d), 1) = <<>>

SetsTrue(x, y) ==
  LET dir == Neighbour \o XSet(x) \o <<<<0>>>>
      at == Len(Neighbour) + 1
  IN  /\ dir_find(dir, y) = IF Same(y, <<122>>) THEN 1 ELSE IF Same(x, y) THEN at ELSE 0
      /\ dir_find(dir_remove(dir, 1), y) = IF Same(x, y) THEN at ELSE 0

\* The directory after the calls, and the files that are then there.
Called(s, call) ==
  LET at == dir_find(s.dir, call[2])
  IN  IF call[1] = "make"
      THEN IF at = 0 THEN [dir |-> dir_register(s.dir, call[2], 32), files |-> s.files \cup {call[2]}] ELSE s
      ELSE IF at = 0 THEN s ELSE [dir |-> dir_remove(s.dir, at), files |-> s.files \ {call[2]}]
DirectoryTrue(calls) ==
  LET s == FoldLeft(Called, [dir |-> Grown(<<>>, XEntries), files |-> {}], calls)
      after == UNION {IF \E i \in DOMAIN calls : /\ calls[i] = <<"make", f>>
                                                /\ \A j \in i + 1 .. Len(calls) : calls[j] # <<"remove", f>>
                      THEN {f} ELSE {} : f \in XFiles}
  IN  /\ s.files = after
      /\ Cardinality({k \in DOMAIN s.dir : InUse(s.dir[k][1])})
           = FoldSet(LAMBDA f, n : n + Len(XSet(f)), 0, after)
      /\ \A f \in XFiles :
           IF f \in after THEN dir_find(s.dir, f) > 0 /\ load_xdir(s.dir, dir_find(s.dir, f)) = XSet(f)
           ELSE dir_find(s.dir, f) = 0

\* A name comes back from the card as it was given, from an 8.3 form or from the
\* entries of a long one; a name matches entries only when it is the same up
\* to case, and two names that need no number share an 8.3 form only then;
\* no 8.3 form ends in half a letter; upper case is final and makes no ASCII
\* of what was none; tables are searched to the end.  On an exFAT volume a set
\* of entries is read as it was written and refused when one of its bytes has
\* changed, is found by its name only, and a directory holds the files that
\* were made and not removed, each whole, and no entry more.
NamesKept ==
  CASE text.kind = "name"  -> NameTrue(text.nm)
    [] text.kind = "names" -> NamesTrue(text.x, text.y)
    [] text.kind = "code"  -> CodeTrue(text.code)
    [] text.kind = "table" -> TableTrue(text.codes)
    [] text.kind = "set"   -> SetTrue(text.nm)
    [] text.kind = "sets"  -> SetsTrue(text.x, text.y)
    [] text.kind = "directory" -> DirectoryTrue(text.calls)
    [] OTHER                 -> TRUE
=============================================================================
