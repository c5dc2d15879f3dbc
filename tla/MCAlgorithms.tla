---------------------------- MODULE MCAlgorithms ----------------------------
EXTENDS Algorithms, Encodings, FatEx, TLC

\* A behaviour takes one sample or works on an exFAT volume.
MCInit == Init /\ TextInit /\ ExInit
Untouched == ex = Formatted /\ ex_calls = 0 /\ ~ex_faulty
MCSample == Untouched /\ text.kind = "none" /\ Next /\ UNCHANGED <<text, exVars>>
MCText == Untouched /\ sample.kind = "none" /\ TextNext /\ UNCHANGED <<sample, exVars>>
MCFiles == sample.kind = "none" /\ text.kind = "none" /\ ExNext /\ UNCHANGED <<sample, text>>
MCSpec == MCInit /\ [][MCSample \/ MCText \/ MCFiles]_<<sample, text, exVars>>

Answer(bytes, k) == [i \in 1 .. 8 * bytes |-> IF i <= 2 THEN 0 ELSE (i * k + i \div 3) % 2]
MCAnswers == {Answer(n, k) : n \in {6, 17}, k \in 0 .. 1}
MCNibbles == {[i \in 1 .. 12 |-> (5 * i + k) % 16] : k \in 1 .. 2}
MCBytes == {Bits(n, 8) : n \in {0, 1, 2, 4, 8, 16, 32, 64, 128, 165, 255}}

Strings(chars, n) == UNION {[1 .. k -> chars] : k \in 1 .. n}
MCNames == Strings({"a", "A", "k", "K", "u", "+", ".", " "}, 4) \cup Strings({"a", "k", ".", " "}, 6)
MCRivals == Strings({"a", "A", "K", "+", "."}, 3) \cup Strings({"a", "A"}, 5)
\* Everything up to the Armenian letters, and each block behind.
MCCodes == 0 .. \h0600 \cup \h1D00 .. \h2200 \cup \h2400 .. \h2D40 \cup \hFF00 .. \hFF80

\* Codes of "a", "A", "b", a letter of two cases behind the table of ASCII, one
\* that is in no code page, half a surrogate pair; lengths around the
\* boundaries of entries; the last six are pairs of one hash.
MCXNames ==
  Strings({97, 65, 224, 192}, 2) \cup {[i \in 1 .. n |-> c + (i % 2)] : n \in 1 .. 6, c \in {65, 97, 945}}
  \cup {<<122>>, <<90>>, <<97, 55296>>, <<257>>, <<97, 97, 65, 97>>, <<65, 97, 97, 97>>, <<97, 97, 97, 98>>}
  \cup {<<97, 99>>, <<101, 98>>, <<20020>>, <<20020, 19968>>, <<19970>>, <<20224>>}
MCXFiles == {<<97>>, <<97, 98, 99>>, <<98, 98, 98, 98, 98>>}

MCExVolumes ==
  {[FSVerEx |-> 256, BytsPerSecEx |-> b, TotSecEx |-> t, DataOfsEx |-> d, NumFATsEx |-> n, NumClusEx |-> c,
    SecPerClusEx |-> s, root |-> r, fat |-> f] :
      b \in {2, 3}, t \in {12, 15, 17, 20}, d \in {4, 8}, n \in {1, 2}, c \in {1, 4, 8, 9}, s \in 0 .. 2,
      r \in {[i \in 1 .. 4 |-> IF i = 4 THEN <<129, c1>> ELSE <<131, 0>>] : c1 \in {1, 2, 3, 9}}
             \cup {[i \in 1 .. 4 |-> <<130, 2>>]},
      f \in {<<EOX, 3, EOX, 0, 0, 0, 0, 0, EOX, 0>>, <<EOX, EOX, 5, 0, EOX, 0, 0, 0, 0, 0>>,
             <<EOX, 3, 4, 5, EOX, 0, 0, 0, 0, 0>>, <<EOX, 3, 5, EOX, 4, 0, 0, 0, 0, 0>>}}
MCVolumes ==
  [BytsPerSec : {8}, FATSz16 : {0, 1, 3}, FATSz32 : {2, 5, 9}, NumFATs : 1 .. 3,
   SecPerClus : {1, 2, 3}, RootEntCnt : {0, 2, 4, 5}, RsvdSecCnt : {0, 1, 2},
   TotSec16 : {0, 12, 22}, TotSec32 : {17, 31, 48, 250}, RootClus32 : {2}, FSVer32 : {0}]
MCBases == {0, 3, 255}

Words4 == {<<"80", "37", "12", "40">>, <<"b", "o", "o", "t">>}
MCBytesOfFiles == {"80", "37", "12", "40", "b", "o", "t"} \cup {ToString(i) : i \in 1 .. 20}
MCImages == {w \o [i \in 1 .. n |-> ToString(i)] : w \in Words4, n \in {0, 3, 4, 8, 12, 20}}
MCArguments ==
  {[opt |-> o, f |-> f] : o \in {"", "rom", "start"}, f \in {"a", "b", "t", "missing"}}
  \cup {[opt |-> o, f |-> f] : o \in {"rom", "start"}, f \in {"", "none"}}
MCScreens ==
  {[width |-> size[1], height |-> size[2]] :
     size \in {<<320, 240>>, <<640, 480>>, <<16, 16>>, <<100, 200>>, <<1, 1>>}}
=============================================================================
