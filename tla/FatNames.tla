------------------------------ MODULE FatNames ------------------------------
(***************************************************************************)
(* The names of FatFs (ED64-XIO/ff/ff.c, FF_USE_LFN 1, code page 932):     *)
(* the 8.3 form made from a name, its numbered variants, the name made     *)
(* from the 8.3 form again, and the entries a long name is cut into.       *)
(*                                                                         *)
(* A name is a sequence of characters.  Those that the code tells apart:   *)
(*   "a" "A"     letters of ASCII, lower and upper case                    *)
(*   "k" "K"     letters of two bytes in the code page, of either case     *)
(*   "u"         a character that the code page does not have              *)
(*   "+"         one that an 8.3 name must not hold                        *)
(*   "." " "     dot and space                                             *)
(* Body and Ext are the lengths of the two fields of an 8.3 name (8 and    *)
(* 3), Part the characters that one entry of a long name holds (13).       *)
(***************************************************************************)
EXTENDS Integers, Sequences, FiniteSets

CONSTANTS Body, Ext, Part

ASSUME NameAssumption == {Body, Ext, Part} \subseteq Nat \ {0}

Upper(c) == CASE c = "a" -> "A" [] c = "k" -> "K" [] OTHER -> c
UpperName(nm) == [i \in DOMAIN nm |-> Upper(nm[i])]
dbc_1st(byte) == byte = "K1"
LOSSY == {"LOSS", "LFN"}

\* The number of characters up to the last one for which Test holds.
UpToLast(nm, Test(_)) ==
  LET at == {i \in DOMAIN nm : Test(nm[i])}
  IN  IF at = {} THEN 0 ELSE CHOOSE i \in at : \A j \in at : j <= i

Snip(nm) == SubSeq(nm, 1, UpToLast(nm, LAMBDA c : c \notin {".", " "}))

(***************************************************************************)
(* create_name.  r.si characters are read, r.i is the place of the next    *)
(* byte of r.fn and r.ni the end of its field; r.caps are the cases seen   *)
(* in each field; r.end says that the loop has been left.                  *)
(***************************************************************************)
put_byte(r, byte) == [r EXCEPT !.fn[r.i] = byte, !.i = @ + 1]
put_single(r, c) ==
  IF c \in {"u", "+"} THEN put_byte([r EXCEPT !.cf = @ \cup LOSSY], "_")
  ELSE put_byte([r EXCEPT !.caps = @ \cup {<<r.ni, c>>}], Upper(c))

\* A pass of the loop, with the next character of lfn.
name_byte(lfn, dot, r0) ==
  LET c == lfn[r0.si + 1]
      r == [r0 EXCEPT !.si = @ + 1, !.cf = IF c \in {"k", "K", "u"} THEN @ \cup {"LFN"} ELSE @]
      lossy == [r EXCEPT !.cf = @ \cup LOSSY]
      extension(s) == [s EXCEPT !.si = dot, !.i = Body, !.ni = Body + Ext]
  IN  IF c = " " \/ (c = "." /\ r.si # dot) THEN lossy
      ELSE IF r.si = dot /\ r.ni = Body THEN extension(r)
      ELSE IF r.i >= r.ni
           THEN IF r.ni = Body /\ r.si < dot THEN extension(lossy) ELSE [lossy EXCEPT !.end = TRUE]
      ELSE IF c \in {"k", "K"}
           THEN IF r.i >= r.ni - 1 THEN [lossy EXCEPT !.i = r.ni] ELSE put_byte(put_byte(r, "K1"), "K2")
      ELSE put_single(r, c)

\* Every pass takes a character, so the passes are not more than those.
name_bytes(lfn, dot, r0) ==
  LET r[n \in 0 .. Len(lfn)] ==
        IF n = 0 THEN r0
        ELSE IF r[n - 1].end \/ r[n - 1].si = Len(lfn) THEN r[n - 1] ELSE name_byte(lfn, dot, r[n - 1])
  IN  r[Len(lfn)]

\* What it leaves: lfn, the bytes of the 8.3 form and the flags of fn[NSFLAG].
create_name(nm) ==
  LET lfn == Snip(nm)
      lead == (CHOOSE i \in DOMAIN lfn : lfn[i] # " " /\ \A j \in 1 .. i - 1 : lfn[j] = " ") - 1
      r == name_bytes(lfn, UpToLast(lfn, LAMBDA c : c = "."),
             [si |-> lead, i |-> 0, ni |-> Body, caps |-> {}, end |-> FALSE,
              fn |-> [i \in 0 .. Body + Ext - 1 |-> " "],
              cf |-> IF lead > 0 \/ lfn[lead + 1] = "." THEN LOSSY ELSE {}])
      mixed == \E ni \in {Body, Body + Ext} : {<<ni, "a">>, <<ni, "A">>} \subseteq r.caps
      cf == IF mixed THEN r.cf \cup {"LFN"} ELSE r.cf
      nt == IF "LFN" \in cf THEN {}
            ELSE {f \in {"BODY", "EXT"} : <<IF f = "BODY" THEN Body ELSE Body + Ext, "a">> \in r.caps}
  IN  IF lfn = <<>> THEN [ok |-> FALSE]
      ELSE [ok |-> TRUE, lfn |-> lfn, fn |-> r.fn, cf |-> cf \cup nt]

(***************************************************************************)
(* gen_numname.  digits are those of the number, or of the hash that       *)
(* replaces it from the sixth on.                                          *)
(***************************************************************************)
number_at(fn, i) ==
  LET from[j \in 0 .. i] ==
        IF j = i \/ fn[j] = " " THEN j
        ELSE IF dbc_1st(fn[j]) THEN IF j = i - 1 THEN j ELSE from[j + 2]
        ELSE from[j + 1]
  IN  from[0]

gen_numname(fn, digits) ==
  LET tail == <<"~">> \o digits
      at == number_at(fn, Body - Len(tail))
  IN  [k \in DOMAIN fn |-> IF k \in at .. Body - 1
                           THEN IF k - at < Len(tail) THEN tail[k - at + 1] ELSE " "
                           ELSE fn[k]]

\* The name get_fileinfo makes from an 8.3 form that has no long name.
get_fileinfo(fn, nt) ==
  LET field(lo, hi, flag) ==
        LET bytes == SelectSeq([k \in 1 .. hi - lo |-> fn[lo + k - 1]], LAMBDA c : c # " ")
        IN  [k \in DOMAIN bytes |-> IF bytes[k] = "A" /\ flag \in nt THEN "a" ELSE bytes[k]]
      ext == field(Body, Body + Ext, "EXT")
  IN  field(0, Body, "BODY") \o (IF fn[Body] = " " THEN <<>> ELSE <<".">>) \o ext

(***************************************************************************)
(* Entries of a long name.  The buffer lfnbuf starts at 0; a name in it is *)
(* followed by a 0, and by what earlier names have left there.             *)
(***************************************************************************)
lfnbuf(nm, old) ==
  [i \in 0 .. 3 * Part + Len(nm) + Len(old) |->
     IF i < Len(nm) THEN nm[i + 1] ELSE IF i = Len(nm) THEN "0"
     ELSE IF i < Len(old) THEN old[i + 1] ELSE "0"]

put_lfn(buf, ord) ==
  LET from == (ord - 1) * Part
      ends == {i \in from .. from + Part - 1 : buf[i] = "0"}
      end == CHOOSE i \in ends : \A j \in ends : i <= j
  IN  [chars |-> [s \in 1 .. Part |->
                    IF ends = {} \/ from + s - 1 <= end THEN buf[from + s - 1] ELSE "FFFF"],
       ord |-> ord,
       last |-> ends # {} \/ buf[from + Part] = "0"]

\* The entries in the order they are on the disk.
nent(nm) == (Len(nm) + Part - 1) \div Part
LongEntries(nm) == [n \in 1 .. nent(nm) |-> put_lfn(lfnbuf(nm, <<>>), nent(nm) + 1 - n)]

\* MUTANT of cmp_lfn: the end of the name looked for is not compared.
cmp_lfn_NoEnd(buf, e) ==
  LET from == (e.ord - 1) * Part
      end == UpToLast(e.chars, LAMBDA c : c # "FFFF")
  IN  \A s \in 1 .. end : Upper(e.chars[s]) = Upper(buf[from + s - 1])

cmp_lfn(buf, e) ==
  LET from == (e.ord - 1) * Part
      end == UpToLast(e.chars, LAMBDA c : c # "FFFF")
  IN  /\ \A s \in 1 .. end : Upper(e.chars[s]) = Upper(buf[from + s - 1])
      /\ ~(e.last /\ e.chars[Part] \notin {"0", "FFFF"} /\ buf[from + Part] # "0")

pick_lfn(buf, e) ==
  LET from == (e.ord - 1) * Part
      end == UpToLast(e.chars, LAMBDA c : c # "FFFF")
      picked == [i \in DOMAIN buf |-> IF i \in from .. from + end - 1 THEN e.chars[i - from + 1] ELSE buf[i]]
  IN  IF e.last /\ e.chars[Part] \notin {"0", "FFFF"} THEN [picked EXCEPT ![from + Part] = "0"] ELSE picked

\* The name in a buffer, and the one read from entries.
NameIn(buf) == LET end == CHOOSE i \in DOMAIN buf : buf[i] = "0" /\ \A j \in 0 .. i - 1 : buf[j] # "0"
               IN  [i \in 1 .. end |-> buf[i - 1]]
Matches(es, buf) == \A n \in DOMAIN es : cmp_lfn(buf, es[n])
Picked(es, buf0) ==
  LET buf[n \in 0 .. Len(es)] == IF n = 0 THEN buf0 ELSE pick_lfn(buf[n - 1], es[n])
  IN  NameIn(buf[Len(es)])
=============================================================================
