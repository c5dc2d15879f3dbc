----------------------------- MODULE SdBus_proofs -----------------------------
(***************************************************************************)
(* Proofs about SdBus, over the samples of Algorithms: whatever the call   *)
(* before it has left and however long the card takes, a command, any      *)
(* number of blocks read and any number of blocks written pass the bus as  *)
(* they are meant to.  And about SdCrc: the checksums of a command and of  *)
(* a block are the remainders that a card computes, whatever the bytes.    *)
(* A loop of the driver is a function of its passes, and the proofs go by  *)
(* induction over them.                                                    *)
(***************************************************************************)
EXTENDS Algorithms, Induction

-----------------------------------------------------------------------------
(***************************************************************************)
(* SdBus: what the functions make of the bus, in closed form.              *)
(***************************************************************************)
Cfgs == [bits : Nat, fast : BOOLEAN]
Sends == [line : Lines, clocks : Nat, val : Nat]
Nibble == 0 .. 15
Rets == {0, 1, 2, 3, 4, "ok", "DISK_ERR_CTO"}
Bus ==
  [cfg : Cfgs, reg : Cfgs, mode : Lines, pwd : {"slow", "short"}, sent : Seq(Sends),
   cmd_in : Seq({0, 1}), dat_in : Seq(Nibble), cmd_at : Nat, dat_at : Nat,
   sr_cmd : [1 .. 8 -> {0, 1}], sr_dat : [1 .. 2 -> Nibble],
   resp : Seq([1 .. 8 -> {0, 1}]), blocks : Seq(Seq(Nibble)), ret : Rets]

\* The register is as the program believes.
Steady(b) == b \in Bus /\ b.cfg = b.reg

\* What is on a line at a clock, before and after the stream too, is an element
\* of it.
LEMMA ElementIs ==
  ASSUME NEW S, NEW in \in Seq(S), NEW high \in S, NEW p \in Int
  PROVE  Element(in, p, high) \in S
BY DEF Element

\* A register into which a line is clocked keeps its type.
LEMMA ShiftedIs ==
  ASSUME NEW S, NEW w \in Nat, NEW sr \in [1 .. w -> S], NEW in \in Seq(S), NEW at \in Int, NEW n \in Nat,
         NEW high \in S
  PROVE  Shifted(sr, w, in, at, n, high) \in [1 .. w -> S]
<1>1. ASSUME NEW i \in 1 .. w
      PROVE  (IF i + n <= w THEN sr[i + n] ELSE Element(in, at + i - w, high)) \in S
  BY ElementIs
<1> QED
  BY <1>1 DEF Shifted

\* The configuration.
Wide(b, n) == [b.cfg EXCEPT !.bits = n]

\* bi_sd_bitlen writes the register and the copy that is kept of it.
LEMMA BitlenIs ==
  ASSUME NEW b, Steady(b), NEW n \in Nat
  PROVE  /\ bi_sd_bitlen(b, n) = [b EXCEPT !.cfg = Wide(b, n), !.reg = Wide(b, n)]
         /\ Steady(bi_sd_bitlen(b, n)) /\ Wide(b, n) \in Cfgs
         /\ bi_sd_bitlen(b, n).reg.bits = n /\ bi_sd_bitlen(b, n).reg.fast = b.reg.fast
<1> DEFINE c == Wide(b, n)
<1>1. c \in Cfgs /\ c.bits = n /\ c.fast = b.reg.fast
  BY DEF Steady, Bus, Cfgs, Wide
<1>2. bi_sd_bitlen(b, n) = [b EXCEPT !.cfg = c, !.reg = c]
  BY DEF bi_sd_bitlen, Wide
<1> HIDE DEF c
<1>3. /\ [b EXCEPT !.cfg = c, !.reg = c] \in Bus
      /\ [b EXCEPT !.cfg = c, !.reg = c].cfg = c /\ [b EXCEPT !.cfg = c, !.reg = c].reg = c
  BY <1>1 DEF Steady, Bus
<1>4. Steady([b EXCEPT !.cfg = c, !.reg = c])
  BY <1>3 DEF Steady
<1> QED
  BY <1>1, <1>2, <1>3, <1>4 DEF c

\* Lines change without a clock.
LEMMA SwitchIs ==
  ASSUME NEW b, Steady(b), NEW line \in Lines
  PROVE  /\ bi_sd_switch_mode(b, line) = [b EXCEPT !.mode = line]
         /\ Steady([b EXCEPT !.mode = line])
<1> DEFINE m == [b EXCEPT !.mode = line]
           z == Wide(m, 0)
           s == bi_sd_bitlen(m, 0)
<1>1. Steady(m) /\ m.cfg = b.cfg /\ m.reg = b.reg
  BY DEF Steady, Bus
<1>2. s = [m EXCEPT !.cfg = z, !.reg = z] /\ Steady(s) /\ s.reg.bits = 0
  <2> HIDE DEF m
  <2> QED
    BY <1>1, BitlenIs
<1>3. Clock(s, line, 255) = s
  <2> HIDE DEF s
  <2>1. s \in Bus
    BY <1>2 DEF Steady
  <2>2. Shifted(s.sr_cmd, 8, s.cmd_in, s.cmd_at + 0, 0, 1) = s.sr_cmd
    <3>1. s.sr_cmd \in [1 .. 8 -> {0, 1}]
      BY <2>1 DEF Bus
    <3> QED
      BY <3>1 DEF Shifted
  <2>3. Shifted(s.sr_dat, 2, s.dat_in, s.dat_at + 0, 0, 15) = s.sr_dat
    <3>1. s.sr_dat \in [1 .. 2 -> Nibble]
      BY <2>1 DEF Bus
    <3> QED
      BY <3>1 DEF Shifted
  <2>4. s.cmd_at + 0 = s.cmd_at /\ s.dat_at + 0 = s.dat_at
    BY <2>1 DEF Bus
  <2>5. CASE line \in {"cmd_wr", "dat_wr"}
    BY <1>2, <2>1, <2>5 DEF Clock, Bus
  <2>6. CASE line = "cmd_rd"
    <3> DEFINE sr == Shifted(s.sr_cmd, 8, s.cmd_in, s.cmd_at + 0, 0, 1)
               at == s.cmd_at + 0
    <3>1. Clock(s, line, 255) = [s EXCEPT !.sr_cmd = sr, !.cmd_at = at]
      BY <1>2, <2>6 DEF Clock
    <3>2. sr = s.sr_cmd /\ at = s.cmd_at
      BY <2>2, <2>4
    <3> HIDE DEF sr, at
    <3>3. [s EXCEPT !.sr_cmd = sr, !.cmd_at = at] = s
      BY <2>1, <3>2 DEF Bus
    <3> QED
      BY <3>1, <3>3
  <2>7. CASE line = "dat_rd"
    <3> DEFINE sr == Shifted(s.sr_dat, 2, s.dat_in, s.dat_at + 0, 0, 15)
               at == s.dat_at + 0
    <3>1. Clock(s, line, 255) = [s EXCEPT !.sr_dat = sr, !.dat_at = at]
      BY <1>2, <2>7 DEF Clock
    <3>2. sr = s.sr_dat /\ at = s.dat_at
      BY <2>3, <2>4
    <3> HIDE DEF sr, at
    <3>3. [s EXCEPT !.sr_dat = sr, !.dat_at = at] = s
      BY <2>1, <3>2 DEF Bus
    <3> QED
      BY <3>1, <3>3
  <2> QED
    BY <2>5, <2>6, <2>7 DEF Lines
<1>4. CASE b.mode = line
  BY <1>1, <1>4 DEF bi_sd_switch_mode, Steady, Bus
<1>5. CASE b.mode # line
  <2>1. bi_sd_switch_mode(b, line) = [s EXCEPT !.cfg = b.cfg, !.reg = b.cfg]
    BY <1>3, <1>5 DEF bi_sd_switch_mode
  <2>2. [s EXCEPT !.cfg = b.cfg, !.reg = b.cfg] = m
    <3> HIDE DEF m, s, z
    <3> QED
      BY <1>1, <1>2 DEF Steady, Bus
  <2> QED
    BY <1>1, <2>1, <2>2
<1> QED
  BY <1>4, <1>5
-----------------------------------------------------------------------------
(***************************************************************************)
(* What one access makes of the bus.                                       *)
(***************************************************************************)
\* Nothing but the position on the lines has changed between b and r.
Kept(r, b) ==
  /\ r.reg = b.reg /\ r.pwd = b.pwd /\ r.sent = b.sent
  /\ r.cmd_in = b.cmd_in /\ r.dat_in = b.dat_in /\ r.blocks = b.blocks /\ r.ret = b.ret

\* The register of the command line keeps its type.
LEMMA CmdShifted ==
  ASSUME NEW b, Steady(b), NEW n \in Nat
  PROVE  Shifted(b.sr_cmd, 8, b.cmd_in, b.cmd_at + n, n, 1) \in [1 .. 8 -> {0, 1}]
<1>1. /\ b.sr_cmd \in [1 .. 8 -> {0, 1}] /\ b.cmd_in \in Seq({0, 1}) /\ b.cmd_at + n \in Int
      /\ 8 \in Nat /\ 1 \in {0, 1}
  BY DEF Steady, Bus
<1> QED
  BY <1>1, ShiftedIs

\* The register of the data lines keeps its type.
LEMMA DatShifted ==
  ASSUME NEW b, Steady(b), NEW n \in Nat
  PROVE  Shifted(b.sr_dat, 2, b.dat_in, b.dat_at + n, n, 15) \in [1 .. 2 -> Nibble]
<1>1. /\ b.sr_dat \in [1 .. 2 -> Nibble] /\ b.dat_in \in Seq(Nibble) /\ b.dat_at + n \in Int
      /\ 2 \in Nat
  BY DEF Steady, Bus
<1>2. 15 \in Nibble
  BY DEF Nibble
<1> HIDE DEF Nibble
<1> QED
  BY <1>1, <1>2, ShiftedIs

\* A read of the command line clocks it on and changes nothing else.
LEMMA CmdRead ==
  ASSUME NEW b, Steady(b)
  PROVE  /\ Steady(bi_sd_cmd_rd(b)) /\ Kept(bi_sd_cmd_rd(b), b)
         /\ bi_sd_cmd_rd(b).cmd_at = b.cmd_at + b.reg.bits
         /\ bi_sd_cmd_rd(b).sr_cmd
              = Shifted(b.sr_cmd, 8, b.cmd_in, b.cmd_at + b.reg.bits, b.reg.bits, 1)
         /\ bi_sd_cmd_rd(b).dat_at = b.dat_at /\ bi_sd_cmd_rd(b).sr_dat = b.sr_dat
<1> DEFINE c == [b EXCEPT !.mode = "cmd_rd"]
           n == b.reg.bits
           s == Shifted(b.sr_cmd, 8, b.cmd_in, b.cmd_at + n, n, 1)
<1>1. "cmd_rd" \in Lines /\ b \in Bus /\ n \in Nat /\ b.cmd_at \in Nat
  BY DEF Lines, Steady, Bus, Cfgs
<1>2. bi_sd_switch_mode(b, "cmd_rd") = c /\ Steady(c)
  BY <1>1, SwitchIs
<1>3. bi_sd_cmd_rd(b) = [c EXCEPT !.sr_cmd = s, !.cmd_at = b.cmd_at + n]
  <2>1. c.reg = b.reg /\ c.sr_cmd = b.sr_cmd /\ c.cmd_in = b.cmd_in /\ c.cmd_at = b.cmd_at
    BY <1>1 DEF Bus
  <2>2. Clock(c, "cmd_rd", 255) =
          [c EXCEPT !.sr_cmd = Shifted(c.sr_cmd, 8, c.cmd_in, c.cmd_at + c.reg.bits, c.reg.bits, 1),
                    !.cmd_at = c.cmd_at + c.reg.bits]
    <3>1. ~("cmd_rd" \in {"cmd_wr", "dat_wr"})
      OBVIOUS
    <3> HIDE DEF c
    <3> QED
      BY <3>1 DEF Clock
  <2> QED
    BY <1>2, <2>1, <2>2 DEF bi_sd_cmd_rd
<1>4. s \in [1 .. 8 -> {0, 1}] /\ b.cmd_at + n \in Nat
  <2>1. s \in [1 .. 8 -> {0, 1}]
    <3> HIDE DEF n
    <3> QED
      BY <1>1, CmdShifted
  <2>2. b.cmd_at + n \in Nat
    <3> HIDE DEF n
    <3> QED
      BY <1>1
  <2> QED
    BY <2>1, <2>2
<1>5. Kept(c, b) /\ c.cmd_at = b.cmd_at /\ c.dat_at = b.dat_at /\ c.sr_cmd = b.sr_cmd /\ c.sr_dat = b.sr_dat
  BY <1>1 DEF Kept, Bus
<1> HIDE DEF s, n, c
<1> DEFINE r == [c EXCEPT !.sr_cmd = s, !.cmd_at = b.cmd_at + n]
<1>6. Steady(r)
  BY <1>2, <1>4 DEF Steady, Bus
<1>7. Kept(r, b) /\ r.cmd_at = b.cmd_at + n /\ r.sr_cmd = s
  BY <1>2, <1>5 DEF Steady, Bus, Kept
<1>8. r.dat_at = b.dat_at /\ r.sr_dat = b.sr_dat
  BY <1>2, <1>5 DEF Steady, Bus
<1> QED
  BY <1>3, <1>6, <1>7, <1>8 DEF s, n

\* A read of the data lines clocks them on and changes nothing else.
LEMMA DatRead ==
  ASSUME NEW b, Steady(b)
  PROVE  /\ Steady(bi_sd_dat_rd(b)) /\ Kept(bi_sd_dat_rd(b), b)
         /\ bi_sd_dat_rd(b).dat_at = b.dat_at + b.reg.bits
         /\ bi_sd_dat_rd(b).sr_dat
              = Shifted(b.sr_dat, 2, b.dat_in, b.dat_at + b.reg.bits, b.reg.bits, 15)
<1> DEFINE c == [b EXCEPT !.mode = "dat_rd"]
           n == b.reg.bits
           s == Shifted(b.sr_dat, 2, b.dat_in, b.dat_at + n, n, 15)
<1>1. "dat_rd" \in Lines /\ b \in Bus /\ n \in Nat /\ b.dat_at \in Nat
  BY DEF Lines, Steady, Bus, Cfgs
<1>2. bi_sd_switch_mode(b, "dat_rd") = c /\ Steady(c)
  BY <1>1, SwitchIs
<1>3. bi_sd_dat_rd(b) = [c EXCEPT !.sr_dat = s, !.dat_at = b.dat_at + n]
  <2>1. c.reg = b.reg /\ c.sr_dat = b.sr_dat /\ c.dat_in = b.dat_in /\ c.dat_at = b.dat_at
    BY <1>1 DEF Bus
  <2>2. Clock(c, "dat_rd", 255) =
          [c EXCEPT !.sr_dat = Shifted(c.sr_dat, 2, c.dat_in, c.dat_at + c.reg.bits, c.reg.bits, 15),
                    !.dat_at = c.dat_at + c.reg.bits]
    <3>1. ~("dat_rd" \in {"cmd_wr", "dat_wr"}) /\ "dat_rd" # "cmd_rd"
      OBVIOUS
    <3> HIDE DEF c
    <3> QED
      BY <3>1 DEF Clock
  <2> QED
    BY <1>2, <2>1, <2>2 DEF bi_sd_dat_rd
<1>4. s \in [1 .. 2 -> Nibble] /\ b.dat_at + n \in Nat
  <2>1. s \in [1 .. 2 -> Nibble]
    <3> HIDE DEF n
    <3> QED
      BY <1>1, DatShifted
  <2>2. b.dat_at + n \in Nat
    <3> HIDE DEF n
    <3> QED
      BY <1>1
  <2> QED
    BY <2>1, <2>2
<1>5. Kept(c, b) /\ c.cmd_at = b.cmd_at /\ c.dat_at = b.dat_at /\ c.sr_cmd = b.sr_cmd /\ c.sr_dat = b.sr_dat
  BY <1>1 DEF Kept, Bus
<1> HIDE DEF s, n, c
<1> DEFINE r == [c EXCEPT !.sr_dat = s, !.dat_at = b.dat_at + n]
<1>6. Steady(r)
  BY <1>2, <1>4 DEF Steady, Bus
<1>7. Kept(r, b) /\ r.dat_at = b.dat_at + n /\ r.sr_dat = s
  BY <1>2, <1>5 DEF Steady, Bus, Kept
<1>8. r.cmd_at = b.cmd_at /\ r.sr_cmd = b.sr_cmd
  BY <1>2, <1>5 DEF Steady, Bus
<1> QED
  BY <1>3, <1>6, <1>7, <1>8 DEF s, n

\* Writing to either line.
LEMMA LineWritten ==
  ASSUME NEW b, Steady(b), b.reg.bits # 0, NEW val \in Nat, NEW line \in {"cmd_wr", "dat_wr"},
         NEW r, r = Clock(bi_sd_switch_mode(b, line), line, val)
  PROVE  /\ r = [b EXCEPT !.mode = line,
                          !.sent = Append(b.sent, [line |-> line, clocks |-> b.reg.bits, val |-> val])]
         /\ Steady(r)
<1> DEFINE c == [b EXCEPT !.mode = line]
           e == [line |-> line, clocks |-> b.reg.bits, val |-> val]
<1>1. line \in Lines /\ b \in Bus
  BY DEF Lines, Steady
<1>2. bi_sd_switch_mode(b, line) = c /\ Steady(c)
  BY <1>1, SwitchIs
<1>3. r = [c EXCEPT !.sent = Append(b.sent, e)]
  <2>1. c.reg = b.reg /\ c.sent = b.sent
    BY <1>1 DEF Bus
  <2>2. Clock(c, line, val) = [c EXCEPT !.sent = Append(c.sent, [line |-> line, clocks |-> c.reg.bits, val |-> val])]
    <3>1. c.reg.bits # 0
      BY <2>1
    <3> HIDE DEF c
    <3> QED
      BY <3>1 DEF Clock
  <2> QED
    BY <1>2, <2>1, <2>2
<1>4. e \in Sends /\ Append(b.sent, e) \in Seq(Sends)
  <2>1. e \in Sends
    BY <1>1 DEF Sends, Bus, Cfgs
  <2>2. b.sent \in Seq(Sends)
    BY <1>1 DEF Bus
  <2> HIDE DEF e
  <2> QED
    BY <2>1, <2>2
<1>5. r = [b EXCEPT !.mode = line, !.sent = Append(b.sent, e)]
  <2> HIDE DEF e
  <2> QED
    BY <1>1, <1>3 DEF Bus
<1> HIDE DEF e, c
<1>6. Steady(r)
  BY <1>2, <1>3, <1>4 DEF Steady, Bus
<1> QED
  BY <1>5, <1>6 DEF e
-----------------------------------------------------------------------------
(***************************************************************************)
(* Loops: each is a function over its passes.                              *)
(***************************************************************************)
Steadies == {x \in Bus : x.cfg = x.reg}

\* The buses whose register is as the program believes, as a set to do
\* induction with.
LEMMA SteadyIs == \A x : Steady(x) <=> x \in Steadies
BY DEF Steady, Steadies

\* The reads of a polling loop on the command line, one after the other.
LEMMA CmdReadsAre ==
  ASSUME NEW b, Steady(b), NEW n \in Nat
  PROVE  /\ CmdReads(b, n)[0] = b
         /\ \A i \in 1 .. n : CmdReads(b, n)[i] = bi_sd_cmd_rd(CmdReads(b, n)[i - 1])
<1> DEFINE Is(f) == f = [i \in 0 .. n |-> IF i = 0 THEN b ELSE bi_sd_cmd_rd(f[i - 1])]
           g == [k \in Nat |-> [x \in Steadies |-> bi_sd_cmd_rd(x)]]
<1>1. \A x \in Steadies : bi_sd_cmd_rd(x) \in Steadies
  BY CmdRead, SteadyIs
<1>2. g \in [Nat -> [Steadies -> Steadies]] /\ b \in Steadies
  BY <1>1, SteadyIs
<1>3. PICK f \in [0 .. n -> Steadies] : Steps(f, n, b, g)
  <2> HIDE DEF g
  <2> QED
    BY <1>2, StepsExist
<1>4. Is(f)
  <2>1. f = [k \in 0 .. n |-> IF k = 0 THEN b ELSE g[k][f[k - 1]]]
    BY <1>3 DEF Steps
  <2>2. ASSUME NEW k \in 0 .. n, k # 0
        PROVE  g[k][f[k - 1]] = bi_sd_cmd_rd(f[k - 1])
    <3>1. k \in Nat /\ f[k - 1] \in Steadies
      BY <2>2
    <3> QED
      BY <3>1
  <2> HIDE DEF g
  <2> QED
    BY <2>1, <2>2
<1>5. CmdReads(b, n) = CHOOSE h : Is(h)
  BY DEF CmdReads
<1>6. Is(CmdReads(b, n))
  <2> HIDE DEF Is
  <2> QED
    BY <1>4, <1>5
<1> DEFINE R == CmdReads(b, n)
<1> HIDE DEF R
<1>7. R = [i \in 0 .. n |-> IF i = 0 THEN b ELSE bi_sd_cmd_rd(R[i - 1])]
  BY <1>6 DEF R
<1>8. R[0] = b /\ \A i \in 1 .. n : R[i] = bi_sd_cmd_rd(R[i - 1])
  BY <1>7
<1> QED
  BY <1>8 DEF R

\* The reads of a polling loop on the data lines, one after the other.
LEMMA DatReadsAre ==
  ASSUME NEW b, Steady(b), NEW n \in Nat
  PROVE  /\ DatReads(b, n)[0] = b
         /\ \A i \in 1 .. n : DatReads(b, n)[i] = bi_sd_dat_rd(DatReads(b, n)[i - 1])
<1> DEFINE Is(f) == f = [i \in 0 .. n |-> IF i = 0 THEN b ELSE bi_sd_dat_rd(f[i - 1])]
           g == [k \in Nat |-> [x \in Steadies |-> bi_sd_dat_rd(x)]]
<1>1. \A x \in Steadies : bi_sd_dat_rd(x) \in Steadies
  BY DatRead, SteadyIs
<1>2. g \in [Nat -> [Steadies -> Steadies]] /\ b \in Steadies
  BY <1>1, SteadyIs
<1>3. PICK f \in [0 .. n -> Steadies] : Steps(f, n, b, g)
  <2> HIDE DEF g
  <2> QED
    BY <1>2, StepsExist
<1>4. Is(f)
  <2>1. f = [k \in 0 .. n |-> IF k = 0 THEN b ELSE g[k][f[k - 1]]]
    BY <1>3 DEF Steps
  <2>2. ASSUME NEW k \in 0 .. n, k # 0
        PROVE  g[k][f[k - 1]] = bi_sd_dat_rd(f[k - 1])
    <3>1. k \in Nat /\ f[k - 1] \in Steadies
      BY <2>2
    <3> QED
      BY <3>1
  <2> HIDE DEF g
  <2> QED
    BY <2>1, <2>2
<1>5. DatReads(b, n) = CHOOSE h : Is(h)
  BY DEF DatReads
<1>6. Is(DatReads(b, n))
  <2> HIDE DEF Is
  <2> QED
    BY <1>4, <1>5
<1> DEFINE R == DatReads(b, n)
<1> HIDE DEF R
<1>7. R = [i \in 0 .. n |-> IF i = 0 THEN b ELSE bi_sd_dat_rd(R[i - 1])]
  BY <1>6 DEF R
<1>8. R[0] = b /\ \A i \in 1 .. n : R[i] = bi_sd_dat_rd(R[i - 1])
  BY <1>7
<1> QED
  BY <1>8 DEF R

\* The command register shows the eight bits behind place p.
Shows(r, p) == r.cmd_at = p + 8 /\ r.sr_cmd = [i \in 1 .. 8 |-> Element(r.cmd_in, p + i, 1)]

\* After a read of eight clocks the register shows the eight that came.
LEMMA ShownAfterByte ==
  ASSUME NEW b, Steady(b), b.reg.bits = 8
  PROVE  Shows(bi_sd_cmd_rd(b), b.cmd_at)
<1> DEFINE r == bi_sd_cmd_rd(b)
<1>1. r.cmd_at = b.cmd_at + 8 /\ r.cmd_in = b.cmd_in /\ b.cmd_at \in Nat
  BY CmdRead DEF Kept, Steady, Bus
<1>2. r.sr_cmd = [i \in 1 .. 8 |-> IF i + 8 <= 8 THEN b.sr_cmd[i + 8] ELSE Element(b.cmd_in, b.cmd_at + 8 + i - 8, 1)]
  BY CmdRead DEF Shifted
<1>3. \A i \in 1 .. 8 : ~(i + 8 <= 8) /\ b.cmd_at + 8 + i - 8 = b.cmd_at + i
  BY <1>1
<1> HIDE DEF r
<1>4. r.sr_cmd = [i \in 1 .. 8 |-> Element(b.cmd_in, b.cmd_at + i, 1)]
  BY <1>2, <1>3
<1>5. Shows(r, b.cmd_at)
  BY <1>1, <1>4 DEF Shows
<1> QED
  BY <1>5 DEF r

\* A read of one clock moves what the register shows on by one.
LEMMA ShownAfterBit ==
  ASSUME NEW b, Steady(b), b.reg.bits = 1, NEW p \in Nat, Shows(b, p)
  PROVE  Shows(bi_sd_cmd_rd(b), p + 1)
<1> DEFINE r == bi_sd_cmd_rd(b)
<1>1. r.cmd_at = p + 8 + 1 /\ r.cmd_in = b.cmd_in /\ b.cmd_at = p + 8
  BY CmdRead DEF Kept, Shows
<1>2. r.sr_cmd = [i \in 1 .. 8 |-> IF i + 1 <= 8 THEN b.sr_cmd[i + 1] ELSE Element(b.cmd_in, p + 8 + 1 + i - 8, 1)]
  BY <1>1, CmdRead DEF Shifted
<1>3. ASSUME NEW i \in 1 .. 8
      PROVE  (IF i + 1 <= 8 THEN b.sr_cmd[i + 1] ELSE Element(b.cmd_in, p + 8 + 1 + i - 8, 1))
               = Element(b.cmd_in, p + 1 + i, 1)
  <2>1. CASE i + 1 <= 8
    <3>1. b.sr_cmd[i + 1] = Element(b.cmd_in, p + (i + 1), 1) /\ p + (i + 1) = p + 1 + i
      BY <2>1 DEF Shows
    <3> QED
      BY <2>1, <3>1
  <2>2. CASE ~(i + 1 <= 8)
    <3>1. p + 8 + 1 + i - 8 = p + 1 + i
      OBVIOUS
    <3> QED
      BY <2>2, <3>1
  <2> QED
    BY <2>1, <2>2
<1> HIDE DEF r
<1>4. r.sr_cmd = [i \in 1 .. 8 |-> Element(b.cmd_in, p + 1 + i, 1)]
  BY <1>2, <1>3
<1>5. Shows(r, p + 1)
  BY <1>1, <1>4 DEF Shows
<1> QED
  BY <1>5 DEF r

\* Behind each read of n bits the register shows the next n.
LEMMA CmdReadsShow ==
  ASSUME NEW b, Steady(b), NEW n \in {1, 8}, b.reg.bits = n, NEW p \in Nat, Shows(b, p), NEW N \in Nat
  PROVE  \A i \in 0 .. N : /\ Steady(CmdReads(b, N)[i]) /\ Kept(CmdReads(b, N)[i], b)
                           /\ Shows(CmdReads(b, N)[i], p + n * i)
<1> DEFINE R == CmdReads(b, N)
           T == {i \in 0 .. N : Steady(R[i]) /\ Kept(R[i], b) /\ Shows(R[i], p + n * i)}
<1>1. R[0] = b /\ \A i \in 1 .. N : R[i] = bi_sd_cmd_rd(R[i - 1])
  BY CmdReadsAre
<1> HIDE DEF R
<1>2. 0 \in T
  BY <1>1 DEF Kept
<1>3. ASSUME NEW i \in 0 .. N - 1, i \in T
      PROVE  i + 1 \in T
  <2>1. /\ R[i + 1] = bi_sd_cmd_rd(R[i]) /\ i + 1 \in 0 .. N
    <3>1. i + 1 \in 1 .. N /\ (i + 1) - 1 = i
      OBVIOUS
    <3> QED
      BY <1>1, <3>1
  <2>2. Steady(R[i]) /\ Kept(R[i], b) /\ Shows(R[i], p + n * i) /\ R[i].reg.bits = n
    BY <1>3 DEF Kept
  <2>3. Steady(R[i + 1]) /\ Kept(R[i + 1], b)
    BY <2>1, <2>2, CmdRead DEF Kept
  <2>4. Shows(R[i + 1], p + n * (i + 1))
    <3>1. CASE n = 1
      <4>1. p + n * i \in Nat /\ p + n * i + 1 = p + n * (i + 1)
        BY <3>1
      <4>2. Shows(bi_sd_cmd_rd(R[i]), p + n * i + 1)
        BY <2>2, <3>1, <4>1, ShownAfterBit
      <4> QED
        BY <2>1, <4>1, <4>2
    <3>2. CASE n = 8
      <4>1. p + n * (i + 1) = R[i].cmd_at
        BY <2>2, <3>2 DEF Shows
      <4> QED
        BY <2>1, <2>2, <3>2, <4>1, ShownAfterByte
    <3> QED
      BY <3>1, <3>2
  <2> QED
    BY <2>1, <2>3, <2>4
<1>4. \A i \in 0 .. N : i \in T
  <2> HIDE DEF T
  <2> QED
    BY <1>2, <1>3, ForAllBelow
<1> QED
  BY <1>4 DEF R

\* Behind read i of the data lines, a clock each, the register holds what
\* came in last.
LEMMA DatReadsShow ==
  ASSUME NEW b, Steady(b), b.reg.bits = 1, NEW N \in Nat
  PROVE  \A i \in 0 .. N :
           /\ Steady(DatReads(b, N)[i]) /\ Kept(DatReads(b, N)[i], b) /\ DatReads(b, N)[i].dat_at = b.dat_at + i
           /\ i >= 1 => /\ DatReads(b, N)[i].sr_dat[2] = Element(b.dat_in, b.dat_at + i, 15)
                        /\ DatReads(b, N)[i].sr_dat[1] = DatReads(b, N)[i - 1].sr_dat[2]
<1> DEFINE R == DatReads(b, N)
           Good(i) == /\ Steady(R[i]) /\ Kept(R[i], b) /\ R[i].dat_at = b.dat_at + i
                      /\ i >= 1 => /\ R[i].sr_dat[2] = Element(b.dat_in, b.dat_at + i, 15)
                                   /\ R[i].sr_dat[1] = R[i - 1].sr_dat[2]
           T == {i \in 0 .. N : Good(i)}
<1>1. R[0] = b /\ \A i \in 1 .. N : R[i] = bi_sd_dat_rd(R[i - 1])
  BY DatReadsAre
<1>2. b.dat_at \in Nat
  BY DEF Steady, Bus
<1> HIDE DEF R
<1>3. 0 \in T
  BY <1>1, <1>2 DEF Kept
<1>4. ASSUME NEW i \in 0 .. N - 1, i \in T
      PROVE  i + 1 \in T
  <2>1. /\ R[i + 1] = bi_sd_dat_rd(R[i]) /\ i + 1 \in 0 .. N
    <3>1. i + 1 \in 1 .. N /\ (i + 1) - 1 = i
      OBVIOUS
    <3> QED
      BY <1>1, <3>1
  <2>2. /\ Steady(R[i]) /\ Kept(R[i], b) /\ R[i].reg.bits = 1 /\ R[i].dat_in = b.dat_in
        /\ R[i].dat_at = b.dat_at + i
    BY <1>4 DEF Kept
  <2>3. Steady(R[i + 1]) /\ Kept(R[i + 1], b) /\ R[i + 1].dat_at = b.dat_at + (i + 1)
    <3>1. b.dat_at + i + 1 = b.dat_at + (i + 1)
      BY <1>2
    <3> QED
      BY <2>1, <2>2, <3>1, DatRead DEF Kept
  <2>4. R[i + 1].sr_dat = [k \in 1 .. 2 |-> IF k + 1 <= 2 THEN R[i].sr_dat[k + 1]
                                            ELSE Element(b.dat_in, b.dat_at + i + 1 + k - 2, 15)]
    BY <2>1, <2>2, DatRead DEF Shifted
  <2>5. b.dat_at + i + 1 + 2 - 2 = b.dat_at + (i + 1) /\ (i + 1) - 1 = i
    BY <1>2
  <2>6. R[i + 1].sr_dat[2] = Element(b.dat_in, b.dat_at + (i + 1), 15) /\ R[i + 1].sr_dat[1] = R[i].sr_dat[2]
    BY <2>4, <2>5
  <2> QED
    BY <2>1, <2>3, <2>5, <2>6
<1>5. \A i \in 0 .. N : i \in T
  <2> HIDE DEF T
  <2> QED
    BY <1>3, <1>4, ForAllBelow
<1> QED
  BY <1>5 DEF R
-----------------------------------------------------------------------------
(***************************************************************************)
(* Sequences by their places.                                              *)
(***************************************************************************)
\* A sequence as a function.
LEMMA SeqIsFunction ==
  ASSUME NEW S, NEW x \in Seq(S)
  PROVE  Len(x) \in Nat /\ x \in [1 .. Len(x) -> S] /\ DOMAIN x = 1 .. Len(x)
OBVIOUS

\* x has n places, which hold elements of S.
Row(x, n, S) == n \in Nat /\ x \in [1 .. n -> S]

\* A function on 1 .. n as a sequence.
LEMMA RowIsSeq ==
  ASSUME NEW S, NEW n, NEW x, Row(x, n, S)
  PROVE  x \in Seq(S) /\ Len(x) = n /\ DOMAIN x = 1 .. n
BY DEF Row

\* Sequences are equal when their elements are.
LEMMA SameSeq ==
  ASSUME NEW S, NEW x \in Seq(S), NEW y \in Seq(S), Len(x) = Len(y), \A i \in 1 .. Len(x) : x[i] = y[i]
  PROVE  x = y
OBVIOUS

\* Append, place by place.
LEMMA AppendIs ==
  ASSUME NEW S, NEW n, NEW x, Row(x, n, S), NEW e \in S
  PROVE  Append(x, e) = [i \in 1 .. n + 1 |-> IF i = n + 1 THEN e ELSE x[i]]
<1> USE DEF Row
<1> DEFINE y == [i \in 1 .. n + 1 |-> IF i = n + 1 THEN e ELSE x[i]]
<1>1. x \in Seq(S) /\ Len(x) = n
  OBVIOUS
<1>2. Append(x, e) \in Seq(S) /\ Len(Append(x, e)) = n + 1
  BY <1>1
<1>3. \A i \in 1 .. n + 1 : Append(x, e)[i] = y[i]
  BY <1>1
<1>4. y \in Seq(S) /\ Len(y) = n + 1
  <2>1. y \in [1 .. n + 1 -> S] /\ n + 1 \in Nat
    OBVIOUS
  <2> HIDE DEF y
  <2> QED
    BY <2>1, RowIsSeq
<1> HIDE DEF y
<1>5. Append(x, e) = y
  BY <1>2, <1>3, <1>4, SameSeq
<1> QED
  BY <1>5 DEF y

\* Concatenation, place by place.
LEMMA ConcatIs ==
  ASSUME NEW S, NEW m, NEW x, Row(x, m, S), NEW n, NEW y, Row(y, n, S)
  PROVE  /\ x \o y = [i \in 1 .. m + n |-> IF i <= m THEN x[i] ELSE y[i - m]]
         /\ Row(x \o y, m + n, S)
<1> USE DEF Row
<1> DEFINE z == [i \in 1 .. m + n |-> IF i <= m THEN x[i] ELSE y[i - m]]
<1>1. x \in Seq(S) /\ Len(x) = m /\ y \in Seq(S) /\ Len(y) = n
  OBVIOUS
<1>2. x \o y \in Seq(S) /\ Len(x \o y) = m + n
  BY <1>1
<1>3. \A i \in 1 .. m + n : (x \o y)[i] = z[i]
  BY <1>1
<1>4. z \in [1 .. m + n -> S] /\ m + n \in Nat
  OBVIOUS
<1>5. z \in Seq(S) /\ Len(z) = m + n
  <2> HIDE DEF z
  <2> QED
    BY <1>4, RowIsSeq
<1> HIDE DEF z
<1>6. x \o y = z
  BY <1>2, <1>3, <1>5, SameSeq
<1> QED
  BY <1>4, <1>6 DEF z

\* A sequence of one element before one of six.
LEMMA OneBefore ==
  ASSUME NEW S, NEW x, Row(x, 1, S), NEW f, Row(f, 6, S), NEW y, Row(y, 7, S),
         y[1] = x[1], \A i \in 1 .. 6 : y[i + 1] = f[i]
  PROVE  x \o f = y
<1>1. /\ x \o f = [i \in 1 .. 1 + 6 |-> IF i <= 1 THEN x[i] ELSE f[i - 1]]
      /\ Row(x \o f, 1 + 6, S)
  BY ConcatIs
<1> DEFINE z == x \o f
<1> HIDE DEF z
<1>2. Row(z, 7, S) /\ z = [i \in 1 .. 7 |-> IF i <= 1 THEN x[i] ELSE f[i - 1]]
  BY <1>1 DEF z
<1>3. \A i \in 1 .. 7 : z[i] = y[i]
  <2>1. z[1] = y[1]
    BY <1>2
  <2>2. ASSUME NEW i \in 1 .. 7, i # 1
        PROVE  z[i] = y[i]
    <3>1. i - 1 \in 1 .. 6 /\ z[i] = f[i - 1] /\ (i - 1) + 1 = i
      BY <1>2, <2>2
    <3> QED
      BY <3>1
  <2> QED
    BY <2>1, <2>2
<1>4. z \in Seq(S) /\ Len(z) = 7 /\ y \in Seq(S) /\ Len(y) = 7
  BY <1>2, RowIsSeq
<1>5. z = y
  BY <1>3, <1>4, SameSeq
<1> QED
  BY <1>5 DEF z

\* The command of diskCmdSD with the byte that goes before it.
LEMMA FrameIs == <<255>> \o <<1, 2, 3, 4, 5, 6>> = <<255, 1, 2, 3, 4, 5, 6>>
<1> DEFINE x == <<255>>
           f == <<1, 2, 3, 4, 5, 6>>
           y == <<255, 1, 2, 3, 4, 5, 6>>
           S == Nat
<1>1. Row(x, 1, S) /\ Row(f, 6, S) /\ Row(y, 7, S)
  BY DEF Row
<1>2. y[1] = x[1]
  OBVIOUS
<1>3. ASSUME NEW i \in 1 .. 6
      PROVE  y[i + 1] = f[i]
  <2>1. i = 1 \/ i = 2 \/ i = 3 \/ i = 4 \/ i = 5 \/ i = 6
    OBVIOUS
  <2> QED
    BY <2>1
<1> HIDE DEF x, f, y, S
<1>4. x \o f = y
  BY <1>1, <1>2, <1>3, OneBefore
<1> QED
  BY <1>4 DEF x, f, y
-----------------------------------------------------------------------------
(***************************************************************************)
(* A command and its answer.                                               *)
(***************************************************************************)
\* Nothing but what has been sent, and the mode, has changed between b and r.
Still(r, b) ==
  /\ r.reg = b.reg /\ r.pwd = b.pwd /\ r.blocks = b.blocks /\ r.ret = b.ret
  /\ r.cmd_in = b.cmd_in /\ r.cmd_at = b.cmd_at /\ r.sr_cmd = b.sr_cmd
  /\ r.dat_in = b.dat_in /\ r.dat_at = b.dat_at /\ r.sr_dat = b.sr_dat

\* A write sends its value at the length in force and moves no line.
LEMMA WrittenStill ==
  ASSUME NEW b, Steady(b), b.reg.bits # 0, NEW val \in Nat, NEW line \in {"cmd_wr", "dat_wr"},
         NEW r, r = Clock(bi_sd_switch_mode(b, line), line, val)
  PROVE  /\ Steady(r) /\ Still(r, b)
         /\ r.sent = Append(b.sent, [line |-> line, clocks |-> b.reg.bits, val |-> val])
<1>1. /\ r = [b EXCEPT !.mode = line,
                       !.sent = Append(b.sent, [line |-> line, clocks |-> b.reg.bits, val |-> val])]
      /\ Steady(r)
  BY LineWritten
<1> QED
  BY <1>1 DEF Still, Steady, Bus

\* What has been sent when all of bytes have.
LEMMA BytesSent ==
  ASSUME NEW b, Steady(b), b.reg.bits # 0, b.sent = <<>>, NEW bytes \in Seq(Nat)
  PROVE  /\ Steady(send_bytes(b, bytes)) /\ Still(send_bytes(b, bytes), b)
         /\ send_bytes(b, bytes).sent = Sent("cmd_wr", b.reg.bits, bytes)
<1> DEFINE N == Len(bytes)
           S == {x \in Steadies : x.reg = b.reg}
           Is(f) == f = [i \in 0 .. N |-> IF i = 0 THEN b ELSE bi_sd_cmd_wr(f[i - 1], bytes[i])]
           g == [k \in Nat |-> [x \in S |-> IF k \in 1 .. N THEN bi_sd_cmd_wr(x, bytes[k]) ELSE x]]
           Byte(i) == [line |-> "cmd_wr", clocks |-> b.reg.bits, val |-> bytes[i]]
<1>1. N \in Nat /\ DOMAIN bytes = 1 .. N /\ (\A i \in 1 .. N : bytes[i] \in Nat)
  BY SeqIsFunction
<1>2. ASSUME NEW x \in S, NEW val \in Nat
      PROVE  /\ bi_sd_cmd_wr(x, val) \in S /\ Still(bi_sd_cmd_wr(x, val), x)
             /\ bi_sd_cmd_wr(x, val).sent = Append(x.sent, [line |-> "cmd_wr", clocks |-> x.reg.bits, val |-> val])
  <2>1. Steady(x) /\ x.reg = b.reg /\ x.reg.bits # 0 /\ "cmd_wr" \in {"cmd_wr", "dat_wr"}
    BY SteadyIs
  <2>2. bi_sd_cmd_wr(x, val) = Clock(bi_sd_switch_mode(x, "cmd_wr"), "cmd_wr", val)
    BY DEF bi_sd_cmd_wr
  <2> HIDE DEF S
  <2>3. /\ Steady(bi_sd_cmd_wr(x, val)) /\ Still(bi_sd_cmd_wr(x, val), x)
        /\ bi_sd_cmd_wr(x, val).sent = Append(x.sent, [line |-> "cmd_wr", clocks |-> x.reg.bits, val |-> val])
    BY <2>1, <2>2, WrittenStill
  <2>4. bi_sd_cmd_wr(x, val) \in S
    BY <2>1, <2>3, SteadyIs DEF S, Still
  <2> QED
    BY <2>3, <2>4
<1>3. g \in [Nat -> [S -> S]] /\ b \in S
  <2>1. ASSUME NEW k \in Nat, NEW x \in S
        PROVE  (IF k \in 1 .. N THEN bi_sd_cmd_wr(x, bytes[k]) ELSE x) \in S
    <3> HIDE DEF S, N
    <3> QED
      BY <1>1, <1>2
  <2>2. b \in S
    BY SteadyIs
  <2> HIDE DEF S, N
  <2> QED
    BY <2>1, <2>2
<1>4. PICK f \in [0 .. N -> S] : Steps(f, N, b, g)
  <2> HIDE DEF g, S, N
  <2> QED
    BY <1>1, <1>3, StepsExist
<1>5. Is(f)
  <2>1. f = [k \in 0 .. N |-> IF k = 0 THEN b ELSE g[k][f[k - 1]]]
    BY <1>4 DEF Steps
  <2>2. ASSUME NEW k \in 0 .. N, k # 0
        PROVE  g[k][f[k - 1]] = bi_sd_cmd_wr(f[k - 1], bytes[k])
    <3> HIDE DEF S, N
    <3>1. k \in Nat /\ k \in 1 .. N /\ k - 1 \in 0 .. N
      BY <1>1, <2>2
    <3>2. f[k - 1] \in S
      BY <3>1
    <3> QED
      BY <3>1, <3>2
  <2> HIDE DEF g, N
  <2> QED
    BY <2>1, <2>2
<1> DEFINE F == CHOOSE h : Is(h)
<1>6. Is(F)
  <2> HIDE DEF Is
  <2> QED
    BY <1>5
<1>7. send_bytes(b, bytes) = F[N]
  BY DEF send_bytes
<1> HIDE DEF F
<1>8. F[0] = b /\ \A i \in 1 .. N : F[i] = bi_sd_cmd_wr(F[i - 1], bytes[i])
  <2> HIDE DEF N
  <2> QED
    BY <1>1, <1>6
<1> DEFINE Good(i) == F[i] \in S /\ Still(F[i], b) /\ F[i].sent = [k \in 1 .. i |-> Byte(k)]
           T == {i \in 0 .. N : Good(i)}
<1> HIDE DEF N, S
<1>9. 0 \in T
  <2>1. b.sent = [k \in 1 .. 0 |-> Byte(k)] /\ Still(b, b)
    BY DEF Still
  <2> QED
    BY <1>1, <1>3, <1>8, <2>1
<1>10. ASSUME NEW i \in 0 .. N - 1, i \in T
       PROVE  i + 1 \in T
  <2>1. F[i + 1] = bi_sd_cmd_wr(F[i], bytes[i + 1]) /\ i + 1 \in 1 .. N /\ bytes[i + 1] \in Nat
    <3>1. i + 1 \in 1 .. N /\ (i + 1) - 1 = i
      BY <1>1
    <3> QED
      BY <1>1, <1>8, <3>1
  <2>2. Good(i)
    BY <1>10
  <2>3. /\ F[i + 1] \in S /\ Still(F[i + 1], F[i])
        /\ F[i + 1].sent = Append(F[i].sent, [line |-> "cmd_wr", clocks |-> F[i].reg.bits, val |-> bytes[i + 1]])
    BY <1>2, <2>1, <2>2
  <2>4. F[i + 1].sent = Append([k \in 1 .. i |-> Byte(k)], Byte(i + 1))
    BY <2>2, <2>3 DEF Still
  <2>5. Append([k \in 1 .. i |-> Byte(k)], Byte(i + 1)) = [k \in 1 .. i + 1 |-> Byte(k)]
    <3> DEFINE x == [k \in 1 .. i |-> Byte(k)]
    <3>1. ASSUME NEW k \in 1 .. i + 1
          PROVE  Byte(k) \in Sends
      <4>1. k \in 1 .. N /\ bytes[k] \in Nat
        BY <1>1
      <4>2. b.reg.bits \in Nat
        BY DEF Steady, Bus, Cfgs
      <4> QED
        BY <4>1, <4>2 DEF Sends, Lines
    <3> HIDE DEF Byte
    <3>2. Row(x, i, Sends) /\ Byte(i + 1) \in Sends /\ i \in Nat
      BY <1>1, <3>1 DEF Row
    <3>3. \A k \in 1 .. i : x[k] = Byte(k)
      OBVIOUS
    <3> HIDE DEF x
    <3>4. Append(x, Byte(i + 1)) = [k \in 1 .. i + 1 |-> IF k = i + 1 THEN Byte(i + 1) ELSE x[k]]
      BY <3>2, AppendIs
    <3>5. Append(x, Byte(i + 1)) = [k \in 1 .. i + 1 |-> Byte(k)]
      BY <3>2, <3>3, <3>4
    <3> QED
      BY <3>5 DEF x
  <2>6. Still(F[i + 1], b)
    BY <2>2, <2>3 DEF Still
  <2>7. F[i + 1].sent = [k \in 1 .. i + 1 |-> Byte(k)]
    BY <2>4, <2>5
  <2>8. Good(i + 1)
    BY <2>3, <2>6, <2>7
  <2>9. i + 1 \in 0 .. N
    BY <1>1, <2>1
  <2> HIDE DEF Good
  <2> QED
    BY <2>8, <2>9
<1>11. \A i \in 0 .. N : i \in T
  <2> HIDE DEF T
  <2> QED
    BY <1>1, <1>9, <1>10, ForAllBelow
<1>12. Good(N)
  BY <1>1, <1>11
<1>13. Steady(F[N]) /\ F[N].sent = Sent("cmd_wr", b.reg.bits, bytes)
  BY <1>1, <1>12, SteadyIs DEF S, Sent
<1> QED
  BY <1>7, <1>12, <1>13

\* The poll that ends a loop is the least that can.
LEMMA FirstPoll ==
  ASSUME NEW polls \in SUBSET Nat, NEW m \in polls, \A j \in polls : m <= j
  PROVE  First(polls) = m
<1> DEFINE Least(i) == i \in polls /\ \A j \in polls : i <= j
<1>1. ASSUME NEW i, Least(i)
      PROVE  i = m
  <2>1. i \in Nat /\ m \in Nat /\ i <= m /\ m <= i
    BY <1>1
  <2> HIDE DEF Least
  <2> QED
    BY <2>1
<1>2. First(polls) = CHOOSE i : Least(i)
  BY DEF First
<1>3. Least(m)
  OBVIOUS
<1> HIDE DEF Least
<1> QED
  BY <1>1, <1>2, <1>3
\* in begins with d times one, and then has a.
Leads(in, one, d, n, a) ==
  /\ \A p \in 1 .. d : in[p] = one /\ Element(in, p, one) = one
  /\ \A p \in 1 .. n : in[d + p] = a[p] /\ Element(in, d + p, one) = a[p]

\* An idle line and what comes behind it.
LEMMA OnesBefore ==
  ASSUME NEW S, NEW one \in S, NEW d \in Nat, NEW n, NEW a, Row(a, n, S), NEW in, in = Ones(d, one) \o a
  PROVE  in \in Seq(S) /\ Len(in) = d + n /\ Leads(in, one, d, n, a)
<1>1. Row(Ones(d, one), d, S) /\ \A p \in 1 .. d : Ones(d, one)[p] = one
  BY DEF Ones, Row
<1>2. /\ in = [i \in 1 .. d + n |-> IF i <= d THEN Ones(d, one)[i] ELSE a[i - d]]
      /\ Row(in, d + n, S)
  <2> DEFINE x == Ones(d, one)
  <2> HIDE DEF x
  <2>1. Row(x, d, S) /\ in = x \o a
    BY <1>1 DEF x
  <2>2. /\ x \o a = [i \in 1 .. d + n |-> IF i <= d THEN x[i] ELSE a[i - d]]
        /\ Row(x \o a, d + n, S)
    BY <2>1, ConcatIs
  <2> QED
    BY <2>1, <2>2 DEF x
<1>3. in \in Seq(S) /\ Len(in) = d + n /\ DOMAIN in = 1 .. d + n /\ n \in Nat
  BY <1>2, RowIsSeq DEF Row
<1>4. ASSUME NEW p \in 1 .. d
      PROVE  in[p] = one /\ p \in DOMAIN in
  BY <1>1, <1>2, <1>3
<1>5. ASSUME NEW p \in 1 .. n
      PROVE  in[d + p] = a[p] /\ d + p \in DOMAIN in
  <2>1. d + p \in 1 .. d + n /\ ~(d + p <= d) /\ (d + p) - d = p
    BY <1>3
  <2> QED
    BY <1>2, <1>3, <2>1
<1> QED
  BY <1>3, <1>4, <1>5 DEF Element, Leads

\* The command line while an answer comes, after d idle clocks.
LEMMA AnswerBits ==
  ASSUME NEW d \in Nat, NEW n \in Nat, NEW a \in [1 .. n -> {0, 1}], NEW in, in = Ones(d, 1) \o a
  PROVE  in \in Seq({0, 1}) /\ Leads(in, 1, d, n, a)
<1> DEFINE Bit == {0, 1}
<1>1. 1 \in Bit /\ Row(a, n, Bit)
  BY DEF Row
<1> HIDE DEF Bit
<1>2. in \in Seq(Bit) /\ Leads(in, 1, d, n, a)
  BY <1>1, OnesBefore
<1> QED
  BY <1>2 DEF Bit

\* The first read that shows two zeros, which is the one where the answer begins.
LEMMA AnswerAwaited ==
  ASSUME NEW b, Steady(b), b.reg.bits = 1, Shows(b, 0), NEW d \in Nat,
         \A p \in 1 .. d : Element(b.cmd_in, p, 1) = 1,
         Element(b.cmd_in, d + 1, 1) = 0, Element(b.cmd_in, d + 2, 1) = 0,
         NEW w, w = wait_answer(CmdReads(b, DISK_CMD_TOUT + 1))
  PROVE  /\ Steady(w) /\ w.reg = b.reg /\ w.pwd = b.pwd /\ w.sent = b.sent /\ w.cmd_in = b.cmd_in
         /\ IF d <= DISK_CMD_TOUT THEN w.ret = "ok" /\ Shows(w, d) ELSE w.ret = "DISK_ERR_CTO"
<1> DEFINE R == CmdReads(b, DISK_CMD_TOUT + 1)
           begun == {i \in 0 .. DISK_CMD_TOUT : R[i].sr_cmd[1] = 0 /\ R[i].sr_cmd[2] = 0}
<1>1. DISK_CMD_TOUT \in Nat /\ DISK_CMD_TOUT + 1 \in Nat
  BY BusAssumption
<1>2. \A i \in 0 .. DISK_CMD_TOUT + 1 : Steady(R[i]) /\ Kept(R[i], b) /\ Shows(R[i], i)
  <2>1. \A i \in 0 .. DISK_CMD_TOUT + 1 : Steady(R[i]) /\ Kept(R[i], b) /\ Shows(R[i], 0 + 1 * i)
    BY <1>1, CmdReadsShow
  <2>2. \A i \in 0 .. DISK_CMD_TOUT + 1 : 0 + 1 * i = i
    BY <1>1
  <2> HIDE DEF R
  <2> QED
    BY <2>1, <2>2
<1>3. w = IF begun = {} THEN [R[DISK_CMD_TOUT + 1] EXCEPT !.ret = "DISK_ERR_CTO"]
          ELSE [R[First(begun)] EXCEPT !.ret = "ok"]
  BY DEF wait_answer
<1> HIDE DEF R
<1>4. ASSUME NEW i \in 0 .. DISK_CMD_TOUT
      PROVE  /\ R[i].sr_cmd[1] = Element(b.cmd_in, i + 1, 1) /\ R[i].sr_cmd[2] = Element(b.cmd_in, i + 2, 1)
  <2>1. i \in 0 .. DISK_CMD_TOUT + 1
    BY <1>1
  <2>2. R[i].sr_cmd = [k \in 1 .. 8 |-> Element(b.cmd_in, i + k, 1)]
    BY <1>2, <2>1 DEF Shows, Kept
  <2>3. 1 \in 1 .. 8 /\ 2 \in 1 .. 8
    OBVIOUS
  <2> QED
    BY <2>2, <2>3
<1>5. \A i \in begun : d <= i
  <2> SUFFICES ASSUME NEW i \in 0 .. DISK_CMD_TOUT, R[i].sr_cmd[1] = 0, ~(d <= i)
               PROVE  FALSE
    OBVIOUS
  <2>1. i + 1 \in 1 .. d
    BY <1>1
  <2> QED
    BY <1>4, <2>1
<1>6. CASE d <= DISK_CMD_TOUT
  <2>1. d \in begun
    <3>1. d \in 0 .. DISK_CMD_TOUT
      BY <1>1, <1>6
    <3> QED
      BY <1>4, <3>1
  <2>2. begun \in SUBSET Nat
    BY <1>1
  <2>3. w = [R[d] EXCEPT !.ret = "ok"] /\ d \in 0 .. DISK_CMD_TOUT + 1
    <3> HIDE DEF begun
    <3>1. First(begun) = d
      BY <1>5, <2>1, <2>2, FirstPoll
    <3> QED
      BY <1>1, <1>3, <1>6, <2>1, <3>1
  <2>4. Steady(R[d]) /\ Kept(R[d], b) /\ Shows(R[d], d)
    BY <1>2, <2>3
  <2>5. w \in Bus
    BY <2>3, <2>4 DEF Steady, Bus, Rets
  <2>6. w.ret = "ok" /\ w.cfg = w.reg /\ Shows(w, d)
    BY <2>3, <2>4 DEF Steady, Bus, Shows
  <2>7. w.reg = b.reg /\ w.pwd = b.pwd /\ w.sent = b.sent /\ w.cmd_in = b.cmd_in
    BY <2>3, <2>4 DEF Steady, Bus, Kept
  <2> QED
    BY <1>6, <2>5, <2>6, <2>7 DEF Steady
<1>7. CASE ~(d <= DISK_CMD_TOUT)
  <2>1. begun = {}
    BY <1>1, <1>5, <1>7
  <2>2. w = [R[DISK_CMD_TOUT + 1] EXCEPT !.ret = "DISK_ERR_CTO"]
    <3> HIDE DEF begun
    <3> QED
      BY <1>3, <2>1
  <2> DEFINE x == R[DISK_CMD_TOUT + 1]
  <2>3. Steady(x) /\ Kept(x, b)
    BY <1>1, <1>2
  <2> HIDE DEF x
  <2>4. w = [x EXCEPT !.ret = "DISK_ERR_CTO"]
    BY <2>2 DEF x
  <2>5. w \in Bus /\ w.ret = "DISK_ERR_CTO" /\ w.cfg = w.reg
    BY <2>3, <2>4 DEF Steady, Bus, Rets
  <2>6. w.reg = b.reg /\ w.pwd = b.pwd /\ w.sent = b.sent /\ w.cmd_in = b.cmd_in
    BY <2>3, <2>4 DEF Steady, Bus, Kept
  <2> QED
    BY <1>7, <2>5, <2>6 DEF Steady
<1> QED
  BY <1>6, <1>7

\* What the length changes and what it leaves.
LEMMA LengthKept ==
  ASSUME NEW b, Steady(b), NEW n \in Nat, NEW r, r = bi_sd_bitlen(b, n)
  PROVE  /\ Steady(r) /\ r.reg.bits = n /\ r.reg.fast = b.reg.fast
         /\ r.pwd = b.pwd /\ r.sent = b.sent /\ r.blocks = b.blocks /\ r.ret = b.ret
         /\ r.cmd_in = b.cmd_in /\ r.cmd_at = b.cmd_at /\ r.sr_cmd = b.sr_cmd
         /\ r.dat_in = b.dat_in /\ r.dat_at = b.dat_at /\ r.sr_dat = b.sr_dat /\ r.mode = b.mode
<1>1. /\ r = [b EXCEPT !.cfg = Wide(b, n), !.reg = Wide(b, n)]
      /\ Steady(r) /\ r.reg.bits = n /\ r.reg.fast = b.reg.fast
  BY BitlenIs
<1> QED
  BY <1>1 DEF Steady, Bus

\* On the command line, behind place d, lie the n bytes of the answer a.
Comes(b, d, n, a) ==
  /\ d \in Nat /\ n \in Nat \ {0} /\ a \in [1 .. 8 * n -> {0, 1}]
  /\ \A p \in 1 .. 8 * n : Element(b.cmd_in, d + p, 1) = a[p]

\* The bytes of the answer, from the one in the register on.
Gets(r, n, a) == r.resp = [k \in 1 .. n |-> [i \in 1 .. 8 |-> a[8 * (k - 1) + i]]]

\* Once its first two bits are in, the other bytes of an answer come in whole.
LEMMA AnswerRead ==
  ASSUME NEW b, Steady(b), NEW d, NEW n, NEW a, Comes(b, d, n, a), Shows(b, d),
         NEW N, N = n - 1, NEW r, r = read_bytes(CmdReads(bi_sd_bitlen(b, 8), N), n)
  PROVE  /\ Steady(r) /\ r.reg.fast = b.reg.fast /\ r.pwd = b.pwd /\ r.sent = b.sent /\ r.ret = b.ret
         /\ Gets(r, n, a)
<1> USE DEF Comes
<1> DEFINE e == bi_sd_bitlen(b, 8)
           R == CmdReads(e, N)
           bytes == [k \in 1 .. n |-> R[k - 1].sr_cmd]
<1>1. /\ Steady(e) /\ e.reg.bits = 8 /\ e.reg.fast = b.reg.fast /\ e.pwd = b.pwd /\ e.sent = b.sent
      /\ e.ret = b.ret /\ e.cmd_in = b.cmd_in /\ Shows(e, d)
  <2>1. /\ Steady(e) /\ e.reg.bits = 8 /\ e.reg.fast = b.reg.fast /\ e.pwd = b.pwd /\ e.sent = b.sent
        /\ e.ret = b.ret /\ e.cmd_in = b.cmd_in /\ e.cmd_at = b.cmd_at /\ e.sr_cmd = b.sr_cmd
    BY LengthKept
  <2> HIDE DEF e
  <2> QED
    BY <2>1 DEF Shows
<1>2. \A i \in 0 .. n - 1 : Steady(R[i]) /\ Kept(R[i], e) /\ Shows(R[i], d + 8 * i)
  <2>1. n - 1 \in Nat /\ 8 \in {1, 8}
    OBVIOUS
  <2> HIDE DEF e
  <2> QED
    BY <1>1, <2>1, CmdReadsShow
<1>3. r = [R[n - 1] EXCEPT !.resp = bytes]
  BY DEF read_bytes
<1> HIDE DEF R
<1>4. ASSUME NEW k \in 1 .. n
      PROVE  /\ bytes[k] = [i \in 1 .. 8 |-> a[8 * (k - 1) + i]]
             /\ bytes[k] \in [1 .. 8 -> {0, 1}]
  <2>1. k - 1 \in 0 .. n - 1 /\ bytes[k] = R[k - 1].sr_cmd
    OBVIOUS
  <2>2. bytes[k] = [i \in 1 .. 8 |-> Element(b.cmd_in, d + 8 * (k - 1) + i, 1)]
    <3>1. Kept(R[k - 1], e) /\ Shows(R[k - 1], d + 8 * (k - 1))
      BY <1>2, <2>1
    <3> HIDE DEF e, bytes
    <3> QED
      BY <1>1, <2>1, <3>1 DEF Shows, Kept
  <2>3. \A i \in 1 .. 8 : /\ 8 * (k - 1) + i \in 1 .. 8 * n
                          /\ d + 8 * (k - 1) + i = d + (8 * (k - 1) + i)
    BY <2>1
  <2>4. \A i \in 1 .. 8 : Element(b.cmd_in, d + 8 * (k - 1) + i, 1) = a[8 * (k - 1) + i]
    BY <2>3
  <2> HIDE DEF bytes
  <2>5. bytes[k] = [i \in 1 .. 8 |-> a[8 * (k - 1) + i]]
    BY <2>2, <2>4
  <2>6. \A i \in 1 .. 8 : a[8 * (k - 1) + i] \in {0, 1}
    BY <2>3
  <2> QED
    BY <2>5, <2>6
<1>5. bytes = [k \in 1 .. n |-> [i \in 1 .. 8 |-> a[8 * (k - 1) + i]]]
  BY <1>4
<1>6. bytes \in Seq([1 .. 8 -> {0, 1}])
  <2>1. Row(bytes, n, [1 .. 8 -> {0, 1}])
    <3>1. \A k \in 1 .. n : R[k - 1].sr_cmd \in [1 .. 8 -> {0, 1}]
      BY <1>4
    <3> QED
      BY <3>1 DEF Row
  <2> HIDE DEF bytes
  <2> QED
    BY <2>1, RowIsSeq
<1> DEFINE x == R[n - 1]
<1>7. Steady(x) /\ Kept(x, e)
  <2>1. n - 1 \in 0 .. n - 1
    OBVIOUS
  <2> QED
    BY <1>2, <2>1
<1>8. r = [x EXCEPT !.resp = bytes]
  BY <1>3
<1> HIDE DEF x, bytes, e
<1>9. Steady(r) /\ r.resp = bytes
  BY <1>6, <1>7, <1>8 DEF Steady, Bus
<1>10. r.reg.fast = b.reg.fast /\ r.pwd = b.pwd /\ r.sent = b.sent /\ r.ret = b.ret
  BY <1>1, <1>7, <1>8 DEF Steady, Bus, Kept
<1> QED
  BY <1>5, <1>9, <1>10 DEF Gets
\* A command goes out byte for byte, and its answer comes in bit for bit or
\* not at all.
Unsent(b) == Steady(b) /\ b.sent = <<>> /\ b.cmd_at = 0

Quiet(b, d) == \A p \in 1 .. d : Element(b.cmd_in, p, 1) = 1

CommandDone(r, b, cmd, bytes, d, a) ==
  /\ Steady(r) /\ r.reg.fast = b.reg.fast /\ r.pwd = b.pwd /\ r.sent = Sent("cmd_wr", 8, bytes)
  /\ cmd # "CMD18" => IF d <= DISK_CMD_TOUT THEN r.ret = "ok" /\ Gets(r, resp_len(cmd), a)
                      ELSE r.ret = "DISK_ERR_CTO"

\* A command on a bus that is steady: its bytes go out, and the answer comes in
\* or the time is up.
LEMMA CommandIs ==
  ASSUME NEW b, Unsent(b), NEW cmd, NEW bytes \in Seq(Nat), NEW d, NEW a,
         Comes(b, d, resp_len(cmd), a), a[1] = 0, a[2] = 0, Quiet(b, d),
         NEW r, r = answer_of(send_bytes(bi_sd_bitlen(b, 8), bytes), cmd)
  PROVE  CommandDone(r, b, cmd, bytes, d, a)
<1> USE DEF CommandDone
<1> DEFINE n == resp_len(cmd)
           e == bi_sd_bitlen(b, 8)
           s == send_bytes(e, bytes)
<1>1. n \in Nat \ {0} /\ 1 \in 1 .. 8 * n /\ 2 \in 1 .. 8 * n
  BY DEF resp_len
<1>3. /\ Steady(e) /\ e.reg.bits = 8 /\ e.reg.fast = b.reg.fast /\ e.pwd = b.pwd /\ e.sent = <<>>
      /\ e.cmd_in = b.cmd_in /\ e.cmd_at = 0
  <2>1. /\ Steady(e) /\ e.reg.bits = 8 /\ e.reg.fast = b.reg.fast /\ e.pwd = b.pwd /\ e.sent = b.sent
        /\ e.cmd_in = b.cmd_in /\ e.cmd_at = b.cmd_at
    <3>1. Steady(b) /\ 8 \in Nat
      BY DEF Unsent
    <3> QED
      BY <3>1, LengthKept
  <2> HIDE DEF e
  <2> QED
    BY <2>1 DEF Unsent
<1>4. Steady(s) /\ Still(s, e) /\ s.sent = Sent("cmd_wr", 8, bytes)
  <2> HIDE DEF e
  <2>1. Steady(e) /\ e.reg.bits # 0 /\ e.sent = <<>> /\ e.reg.bits = 8
    BY <1>3
  <2>2. Steady(s) /\ Still(s, e) /\ s.sent = Sent("cmd_wr", e.reg.bits, bytes)
    BY <2>1, BytesSent
  <2> QED
    BY <2>1, <2>2
<1>5. r = answer_of(s, cmd)
  OBVIOUS
<1> HIDE DEF e, s, n
<1>6. CASE cmd = "CMD18"
  <2>1. r = [s EXCEPT !.ret = "ok"]
    BY <1>5, <1>6 DEF answer_of
  <2>2. Steady(r) /\ r.reg = s.reg /\ r.pwd = s.pwd /\ r.sent = s.sent
    <3>1. s \in Bus /\ s.cfg = s.reg /\ "ok" \in Rets
      BY <1>4 DEF Steady, Rets
    <3> HIDE DEF Rets
    <3>2. r \in Bus /\ r.cfg = r.reg
      BY <2>1, <3>1 DEF Bus
    <3>3. r.reg = s.reg /\ r.pwd = s.pwd /\ r.sent = s.sent
      BY <2>1, <3>1 DEF Bus
    <3> QED
      BY <3>2, <3>3 DEF Steady
  <2> QED
    BY <1>3, <1>4, <1>6, <2>2 DEF Still
<1>7. CASE cmd # "CMD18"
  <2> DEFINE t == bi_sd_cmd_rd(s)
             u == bi_sd_bitlen(t, 1)
             w == wait_answer(CmdReads(u, DISK_CMD_TOUT + 1))
  <2>1. s.reg.bits = 8 /\ s.cmd_at = 0
    BY <1>3, <1>4 DEF Still
  <2>2. Steady(t) /\ Kept(t, s) /\ Shows(t, 0)
    BY <1>4, <2>1, CmdRead, ShownAfterByte
  <2> HIDE DEF t
  <2>3. /\ Steady(u) /\ u.reg.bits = 1 /\ u.reg.fast = t.reg.fast /\ u.pwd = t.pwd /\ u.sent = t.sent
        /\ u.cmd_in = t.cmd_in /\ u.cmd_at = t.cmd_at /\ u.sr_cmd = t.sr_cmd
    BY <2>2, LengthKept
  <2> HIDE DEF u
  <2>4. u.cmd_in = b.cmd_in /\ u.reg.fast = b.reg.fast /\ u.pwd = b.pwd /\ u.sent = Sent("cmd_wr", 8, bytes)
    BY <1>3, <1>4, <2>2, <2>3 DEF Still, Kept
  <2>5. Shows(u, 0)
    BY <2>2, <2>3 DEF Shows
  <2>6. /\ \A p \in 1 .. d : Element(u.cmd_in, p, 1) = 1
        /\ Element(u.cmd_in, d + 1, 1) = 0 /\ Element(u.cmd_in, d + 2, 1) = 0 /\ d \in Nat
    BY <1>1, <2>4 DEF Comes, Quiet, n
  <2>7. /\ Steady(w) /\ w.reg = u.reg /\ w.pwd = u.pwd /\ w.sent = u.sent /\ w.cmd_in = u.cmd_in
        /\ IF d <= DISK_CMD_TOUT THEN w.ret = "ok" /\ Shows(w, d) ELSE w.ret = "DISK_ERR_CTO"
    BY <2>3, <2>5, <2>6, AnswerAwaited
  <2>8. r = IF w.ret # "ok" THEN w ELSE read_bytes(CmdReads(bi_sd_bitlen(w, 8), n - 1), n)
    BY <1>5, <1>7 DEF answer_of, diskReadResp, answer_in, t, u, n
  <2> HIDE DEF w
  <2>9. CASE d <= DISK_CMD_TOUT
    <3>1. w.ret = "ok" /\ Shows(w, d) /\ r = read_bytes(CmdReads(bi_sd_bitlen(w, 8), n - 1), n)
      BY <2>7, <2>8, <2>9
    <3>2. Comes(w, d, n, a)
      BY <2>4, <2>7 DEF Comes, n
    <3> DEFINE N == n - 1
    <3>4. N = n - 1 /\ r = read_bytes(CmdReads(bi_sd_bitlen(w, 8), N), n)
      BY <3>1
    <3> HIDE DEF N
    <3>3. /\ Steady(r) /\ r.reg.fast = w.reg.fast /\ r.pwd = w.pwd /\ r.sent = w.sent /\ r.ret = w.ret
          /\ Gets(r, n, a)
      BY <1>1, <2>7, <3>1, <3>2, <3>4, AnswerRead
    <3> QED
      BY <2>4, <2>7, <2>9, <3>1, <3>3 DEF n
  <2>10. CASE ~(d <= DISK_CMD_TOUT)
    <3>1. r = w /\ w.ret = "DISK_ERR_CTO"
      BY <2>7, <2>8, <2>10
    <3> QED
      BY <2>4, <2>7, <2>10, <3>1
  <2> QED
    BY <2>9, <2>10
<1> QED
  BY <1>6, <1>7

\* What the call before has left.
LEMMA BusesAre ==
  ASSUME NEW b \in Buses
  PROVE  /\ Steady(b) /\ b.pwd = "slow" /\ b.sent = <<>> /\ b.cmd_at = 0 /\ b.dat_at = 0
         /\ b.blocks = <<>> /\ b.ret = 0 /\ b.sr_dat[2] \in {0, 15}
         /\ b.sr_dat[1] = 0 => b.sr_dat[2] = 0
<1>1. PICK n \in {0, 1, 2, 4, 8}, f \in BOOLEAN, line \in Lines, dat \in {<<15, 0>>, <<0, 0>>, <<15, 15>>} :
        b = [cfg |-> [bits |-> n, fast |-> f], reg |-> [bits |-> n, fast |-> f], mode |-> line,
             pwd |-> "slow", sent |-> <<>>, cmd_in |-> <<>>, dat_in |-> <<>>, cmd_at |-> 0, dat_at |-> 0,
             sr_cmd |-> [i \in 1 .. 8 |-> 0], sr_dat |-> dat,
             resp |-> <<>>, blocks |-> <<>>, ret |-> 0]
  BY DEF Buses
<1>2. [bits |-> n, fast |-> f] \in Cfgs /\ dat \in [1 .. 2 -> Nibble] /\ [i \in 1 .. 8 |-> 0] \in [1 .. 8 -> {0, 1}]
  BY DEF Cfgs, Nibble
<1>3. <<>> \in Seq(Sends) /\ <<>> \in Seq({0, 1}) /\ <<>> \in Seq(Nibble) /\ <<>> \in Seq([1 .. 8 -> {0, 1}])
      /\ <<>> \in Seq(Seq(Nibble))
  OBVIOUS
<1>4. b \in Bus /\ b.cfg = b.reg
  BY <1>1, <1>2, <1>3 DEF Bus, Rets
<1>5. b.sr_dat = dat /\ dat[2] \in {0, 15} /\ (dat[1] = 0 => dat[2] = 0)
  BY <1>1
<1> QED
  BY <1>1, <1>4, <1>5 DEF Steady

\* What the driver returns is what the card has answered.
LEMMA AnswerTrue ==
  ASSUME NEW s, NEW r, NEW n, Len(s.answer) \div 8 = n, Settled(s.b, r),
         r.sent = Sent("cmd_wr", 8, <<255, 1, 2, 3, 4, 5, 6>>),
         s.cmd # "CMD18" => IF s.delay <= DISK_CMD_TOUT THEN r.ret = "ok" /\ Gets(r, n, s.answer)
                            ELSE r.ret = "DISK_ERR_CTO"
  PROVE  Answered(s, r)
BY DEF Answered, Gets

\* CommandTrue for every bus, answer and delay.
LEMMA CommandsAreTrue ==
  ASSUME NEW b \in Buses, NEW cmd \in {"CMD2", "CMD17", "CMD18"}, NEW a \in Answers, NEW d \in Delays,
         Len(a) = 8 * resp_len(cmd), NEW s, s = [kind |-> "command", cmd |-> cmd, delay |-> d, answer |-> a, b |-> b]
  PROVE  CommandTrue(s)
<1> DEFINE frame == <<1, 2, 3, 4, 5, 6>>
           bytes == <<255, 1, 2, 3, 4, 5, 6>>
           in == Ones(d, 1) \o a
           c == [b EXCEPT !.cmd_in = in]
           r == diskCmdSD(c, cmd, frame)
           n == resp_len(cmd)
<1>1. a \in Seq({0, 1}) /\ a[1] = 0 /\ a[2] = 0 /\ d \in Nat
  BY BusAssumption
<1>2. a \in [1 .. 8 * n -> {0, 1}] /\ n \in Nat
  <2>1. n \in Nat /\ Len(a) = 8 * n
    BY DEF resp_len
  <2> HIDE DEF n
  <2> QED
    BY <1>1, <2>1, SeqIsFunction
<1>3. in \in Seq({0, 1}) /\ Leads(in, 1, d, 8 * n, a)
  <2> DEFINE m == 8 * n
  <2>1. m \in Nat /\ a \in [1 .. m -> {0, 1}] /\ in = Ones(d, 1) \o a
    BY <1>2
  <2> HIDE DEF n, m, in
  <2>2. in \in Seq({0, 1}) /\ Leads(in, 1, d, m, a)
    BY <1>1, <2>1, AnswerBits
  <2> QED
    BY <2>2 DEF m
<1>4. Steady(b) /\ b.sent = <<>> /\ b.cmd_at = 0
  BY BusesAre
<1>5. Unsent(c) /\ c.cmd_in = in /\ c.reg = b.reg /\ c.pwd = b.pwd
  <2> HIDE DEF in
  <2> QED
    BY <1>3, <1>4 DEF Unsent, Steady, Bus
<1>10. Comes(c, d, n, a) /\ Quiet(c, d)
  <2>1. n \in Nat \ {0}
    BY DEF resp_len
  <2> HIDE DEF c, in, n
  <2> QED
    BY <1>1, <1>2, <1>3, <1>5, <2>1 DEF Comes, Quiet, Leads
<1>6. r = answer_of(send_bytes(bi_sd_bitlen(c, 8), bytes), cmd) /\ bytes \in Seq(Nat)
  <2>1. bytes \in Seq(Nat)
    OBVIOUS
  <2>9. <<255>> \o frame = bytes
    BY FrameIs
  <2>2. r = answer_of(send_bytes(bi_sd_bitlen(c, 8), <<255>> \o frame), cmd)
    BY DEF diskCmdSD
  <2> HIDE DEF r, bytes, frame
  <2> QED
    BY <2>1, <2>2, <2>9
<1>7. CommandDone(r, c, cmd, bytes, d, a)
  <2> HIDE DEF c, bytes, in, r
  <2> QED
    BY <1>1, <1>5, <1>6, <1>10, CommandIs
<1> HIDE DEF r
<1>8. Answered(s, r)
  <2>1. Len(a) \div 8 = n
    <3>1. n \in {6, 17}
      BY DEF resp_len
    <3> QED
      BY <3>1
  <2>2. s.answer = a /\ s.delay = d /\ s.b = b /\ s.cmd = cmd
    OBVIOUS
  <2>3. Settled(b, r)
    BY <1>5, <1>7 DEF Settled, Steady, CommandDone
  <2>5. bytes = <<255, 1, 2, 3, 4, 5, 6>>
    OBVIOUS
  <2> HIDE DEF n, c, bytes
  <2>6. /\ r.sent = Sent("cmd_wr", 8, bytes)
        /\ cmd # "CMD18" => IF d <= DISK_CMD_TOUT THEN r.ret = "ok" /\ Gets(r, n, a) ELSE r.ret = "DISK_ERR_CTO"
    BY <1>7 DEF CommandDone, n
  <2>7. s.cmd # "CMD18" => IF s.delay <= DISK_CMD_TOUT THEN r.ret = "ok" /\ Gets(r, n, s.answer)
                            ELSE r.ret = "DISK_ERR_CTO"
    BY <2>2, <2>6
  <2>8. Settled(s.b, r) /\ r.sent = Sent("cmd_wr", 8, <<255, 1, 2, 3, 4, 5, 6>>) /\ Len(s.answer) \div 8 = n
    BY <2>1, <2>2, <2>3, <2>5, <2>6
  <2> QED
    BY <2>7, <2>8, AnswerTrue
<1>9. CommandTrue(s) <=> Answered(s, r)
  BY DEF CommandTrue, r
<1> QED
  BY <1>8, <1>9

-----------------------------------------------------------------------------
(***************************************************************************)
(* What lies one behind the other.                                         *)
(***************************************************************************)
\* f has what is there behind each of n parts.
JoinedBy(f, parts, n, S) ==
  /\ f \in [0 .. n -> Seq(S)] /\ f[0] = <<>> /\ f[n] = Joined(parts)
  /\ \A k \in 1 .. n : f[k] = f[k - 1] \o parts[k]

Parts(parts, n, S) == n \in Nat /\ parts \in [1 .. n -> Seq(S)]

\* Joined, part by part.
LEMMA JoinedSteps ==
  ASSUME NEW S, NEW n, NEW parts, Parts(parts, n, S)
  PROVE  \E f : JoinedBy(f, parts, n, S)
<1> DEFINE Q == Seq(S)
           Is(f) == f = [k \in 0 .. n |-> IF k = 0 THEN <<>> ELSE f[k - 1] \o parts[k]]
           g == [k \in Nat |-> [x \in Q |-> IF k \in 1 .. n THEN x \o parts[k] ELSE x]]
           none == <<>>
<1>1. n \in Nat /\ Len(parts) = n /\ \A k \in 1 .. n : parts[k] \in Q
  <2>1. Row(parts, n, Q)
    BY DEF Parts, Row
  <2> HIDE DEF Q
  <2> QED
    BY <2>1, RowIsSeq DEF Row
<1>2. none \in Q /\ \A x, y \in Q : x \o y \in Q
  OBVIOUS
<1> HIDE DEF Q
<1>3. g \in [Nat -> [Q -> Q]]
  <2>1. ASSUME NEW k \in Nat, NEW x \in Q
        PROVE  (IF k \in 1 .. n THEN x \o parts[k] ELSE x) \in Q
    BY <1>1, <1>2
  <2> QED
    BY <2>1
<1>4. PICK f \in [0 .. n -> Q] : Steps(f, n, none, g)
  <2> HIDE DEF g, none
  <2> QED
    BY <1>1, <1>2, <1>3, StepsExist
<1>5. Is(f)
  <2>1. f = [k \in 0 .. n |-> IF k = 0 THEN none ELSE g[k][f[k - 1]]]
    BY <1>4 DEF Steps
  <2>2. ASSUME NEW k \in 0 .. n, k # 0
        PROVE  g[k][f[k - 1]] = f[k - 1] \o parts[k]
    <3>1. k \in Nat /\ k \in 1 .. n /\ k - 1 \in 0 .. n
      BY <1>1, <2>2
    <3>2. f[k - 1] \in Q
      BY <3>1
    <3> QED
      BY <3>1, <3>2
  <2> HIDE DEF g
  <2> QED
    BY <2>1, <2>2
<1> DEFINE F == CHOOSE h : Is(h)
<1>6. Is(F)
  <2> HIDE DEF Is
  <2> QED
    BY <1>5
<1>7. Joined(parts) = F[n]
  BY <1>1 DEF Joined
<1> HIDE DEF F, none
<1>8. F[0] = none /\ \A k \in 1 .. n : F[k] = F[k - 1] \o parts[k]
  <2>1. F = [k \in 0 .. n |-> IF k = 0 THEN none ELSE F[k - 1] \o parts[k]]
    BY <1>6 DEF none
  <2> QED
    BY <1>1, <2>1
<1>9. F \in [0 .. n -> Q]
  <2> DEFINE T == {k \in 0 .. n : F[k] \in Q}
  <2>1. 0 \in T
    BY <1>1, <1>2, <1>8
  <2>2. ASSUME NEW k \in 0 .. n - 1, k \in T
        PROVE  k + 1 \in T
    <3>1. k + 1 \in 1 .. n /\ (k + 1) - 1 = k
      BY <1>1
    <3>2. F[k + 1] = F[k] \o parts[k + 1]
      BY <1>8, <3>1
    <3> QED
      BY <1>1, <1>2, <2>2, <3>1, <3>2
  <2>3. \A k \in 0 .. n : k \in T
    <3> HIDE DEF T
    <3> QED
      BY <1>1, <2>1, <2>2, ForAllBelow
  <2>4. F = [k \in 0 .. n |-> F[k]]
    BY <1>6
  <2> QED
    BY <2>3, <2>4
<1>10. JoinedBy(F, parts, n, S)
  BY <1>7, <1>8, <1>9 DEF JoinedBy, Q, none
<1> QED
  BY <1>10

\* Part k lies behind place off[k - 1] of x.
Laid(x, parts, n, off) ==
  /\ off \in [0 .. n -> Nat] /\ off[0] = 0 /\ Len(x) = off[n]
  /\ \A k \in 1 .. n : /\ off[k] = off[k - 1] + Len(parts[k])
                       /\ \A j \in 1 .. Len(parts[k]) : /\ off[k - 1] + j \in DOMAIN x
                                                        /\ x[off[k - 1] + j] = parts[k][j]

\* Each part lies in the joined sequence behind the one before it.
LEMMA JoinedAt ==
  ASSUME NEW S, NEW n, NEW parts, Parts(parts, n, S)
  PROVE  Joined(parts) \in Seq(S) /\ \E off : Laid(Joined(parts), parts, n, off)
<1>1. PICK f : JoinedBy(f, parts, n, S)
  BY JoinedSteps
<1> DEFINE off == [k \in 0 .. n |-> Len(f[k])]
           Good(k) == /\ \A i \in 1 .. k : \A j \in 1 .. Len(parts[i]) :
                           /\ off[i - 1] + j \in 1 .. Len(f[k])
                           /\ f[k][off[i - 1] + j] = parts[i][j]
           T == {k \in 0 .. n : Good(k)}
<1>2. n \in Nat /\ (\A k \in 1 .. n : parts[k] \in Seq(S)) /\ (\A k \in 0 .. n : f[k] \in Seq(S))
      /\ \A k \in 1 .. n : f[k] = f[k - 1] \o parts[k]
  BY <1>1 DEF JoinedBy, Parts
<1>3. off \in [0 .. n -> Nat] /\ off[0] = 0
  <2>1. Len(f[0]) = 0 /\ 0 \in 0 .. n
    BY <1>1, <1>2 DEF JoinedBy
  <2> QED
    BY <1>2, <2>1
<1>4. ASSUME NEW k \in 1 .. n
      PROVE  /\ k - 1 \in 0 .. n /\ k \in 0 .. n
             /\ off[k] = off[k - 1] + Len(parts[k])
             /\ \A p \in 1 .. off[k - 1] : f[k][p] = f[k - 1][p]
             /\ \A j \in 1 .. Len(parts[k]) : f[k][off[k - 1] + j] = parts[k][j]
  <2> DEFINE x == f[k - 1]
             y == parts[k]
  <2>1. k - 1 \in 0 .. n /\ k \in 0 .. n
    BY <1>2
  <2>2. x \in Seq(S) /\ y \in Seq(S) /\ f[k] = x \o y /\ off[k - 1] = Len(x) /\ off[k] = Len(f[k])
    BY <1>2, <2>1
  <2> HIDE DEF x, y, off
  <2>3. Len(f[k]) = Len(x) + Len(y) /\ (\A p \in 1 .. Len(x) : f[k][p] = x[p])
        /\ \A j \in 1 .. Len(y) : f[k][Len(x) + j] = y[j]
    <3>1. Row(x, Len(x), S) /\ Row(y, Len(y), S)
      BY <2>2, SeqIsFunction DEF Row
    <3>2. /\ x \o y = [i \in 1 .. Len(x) + Len(y) |-> IF i <= Len(x) THEN x[i] ELSE y[i - Len(x)]]
          /\ Row(x \o y, Len(x) + Len(y), S)
      BY <3>1, ConcatIs
    <3>3. Len(x \o y) = Len(x) + Len(y)
      BY <3>2, RowIsSeq
    <3> DEFINE m == Len(x)
               l == Len(y)
               z == x \o y
    <3>4. m \in Nat /\ l \in Nat
      BY <2>2, SeqIsFunction
    <3>5. z = [i \in 1 .. m + l |-> IF i <= m THEN x[i] ELSE y[i - m]]
      BY <3>2
    <3> HIDE DEF m, l, z
    <3>6. \A p \in 1 .. m : z[p] = x[p]
      BY <3>4, <3>5
    <3>7. ASSUME NEW j \in 1 .. l
          PROVE  z[m + j] = y[j]
      <4>1. m + j \in 1 .. m + l /\ ~(m + j <= m) /\ (m + j) - m = j
        BY <3>4
      <4> QED
        BY <3>5, <4>1
    <3> QED
      BY <2>2, <3>3, <3>6, <3>7 DEF m, l, z
  <2> QED
    BY <2>1, <2>2, <2>3 DEF x, y
<1>5. 0 \in T
  BY <1>2
<1>6. ASSUME NEW k \in 0 .. n - 1, k \in T
      PROVE  k + 1 \in T
  <2>1. k + 1 \in 1 .. n /\ (k + 1) - 1 = k /\ k + 1 \in 0 .. n /\ k \in 0 .. n
    BY <1>2
  <2>2. Good(k) /\ off[k] = Len(f[k]) /\ off[k + 1] = Len(f[k + 1])
    BY <1>6, <2>1
  <2> HIDE DEF off
  <2>3. /\ off[k + 1] = off[k] + Len(parts[k + 1])
        /\ \A p \in 1 .. off[k] : f[k + 1][p] = f[k][p]
        /\ \A j \in 1 .. Len(parts[k + 1]) : f[k + 1][off[k] + j] = parts[k + 1][j]
    <3> DEFINE K == k + 1
    <3>1. K \in 1 .. n /\ K - 1 = k
      BY <2>1
    <3> HIDE DEF K
    <3>2. /\ off[K] = off[k] + Len(parts[K])
          /\ \A p \in 1 .. off[k] : f[K][p] = f[k][p]
          /\ \A j \in 1 .. Len(parts[K]) : f[K][off[k] + j] = parts[K][j]
      BY <1>4, <3>1
    <3> QED
      BY <3>2 DEF K
  <2>4. off[k] \in Nat /\ off[k + 1] \in Nat /\ Len(parts[k + 1]) \in Nat
    BY <1>2, <1>3, <2>1, SeqIsFunction
  <2>5. ASSUME NEW i \in 1 .. k + 1, NEW j \in 1 .. Len(parts[i])
        PROVE  /\ off[i - 1] + j \in 1 .. Len(f[k + 1])
               /\ f[k + 1][off[i - 1] + j] = parts[i][j]
    <3>1. CASE i = k + 1
      <4>1. i - 1 = k /\ parts[i] = parts[k + 1]
        BY <2>1, <3>1
      <4> DEFINE l == Len(parts[k + 1])
                 m == off[k]
                 e == off[k + 1]
      <4>2. j \in 1 .. l /\ l \in Nat /\ m \in Nat /\ e = m + l /\ e = Len(f[k + 1])
        BY <2>2, <2>3, <2>4, <4>1
      <4>3. f[k + 1][m + j] = parts[i][j]
        BY <2>3, <4>1, <4>2
      <4> HIDE DEF l, e
      <4>4. m + j \in 1 .. e
        <5> HIDE DEF m
        <5> QED
          BY <4>2
      <4> QED
        BY <4>1, <4>2, <4>3, <4>4
    <3>2. CASE i # k + 1
      <4>1. i \in 1 .. k
        BY <2>1, <3>2
      <4>2. off[i - 1] + j \in 1 .. Len(f[k]) /\ f[k][off[i - 1] + j] = parts[i][j]
        BY <2>2, <4>1
      <4> DEFINE l == Len(parts[k + 1])
                 m == off[k]
                 e == off[k + 1]
                 p == off[i - 1] + j
      <4>4. l \in Nat /\ m \in Nat /\ e = m + l /\ p \in 1 .. m
        BY <2>2, <2>3, <2>4, <4>2
      <4> HIDE DEF l, m, e, p
      <4>5. p \in 1 .. e
        BY <4>4
      <4>3. off[i - 1] + j \in 1 .. off[k + 1] /\ off[i - 1] + j \in 1 .. off[k]
        BY <4>4, <4>5 DEF m, e, p
      <4> QED
        BY <2>2, <2>3, <4>2, <4>3
    <3> QED
      BY <3>1, <3>2
  <2> QED
    BY <2>1, <2>5
<1>7. \A k \in 0 .. n : k \in T
  <2> HIDE DEF T
  <2> QED
    BY <1>2, <1>5, <1>6, ForAllBelow
<1> DEFINE J == Joined(parts)
<1>8. Good(n) /\ J = f[n] /\ off[n] = Len(f[n]) /\ f[n] \in Seq(S)
  <2>1. n \in 0 .. n
    BY <1>2
  <2>2. n \in T
    <3> HIDE DEF T
    <3> QED
      BY <1>7, <2>1
  <2>3. J = f[n]
    BY <1>1 DEF JoinedBy
  <2> QED
    BY <1>2, <2>1, <2>2, <2>3
<1>9. J \in Seq(S) /\ Len(J) = off[n] /\ DOMAIN J = 1 .. Len(J)
  <2> HIDE DEF off, J
  <2> QED
    BY <1>8, SeqIsFunction
<1> HIDE DEF off, J
<1>10. Laid(J, parts, n, off)
  BY <1>3, <1>4, <1>8, <1>9 DEF Laid
<1> QED
  BY <1>9, <1>10 DEF J

-----------------------------------------------------------------------------
\* On the data lines, behind place p, lie q clocks of rest and the block x.
Brings(in, p, q, n, x) ==
  /\ p \in Nat /\ q \in Nat \ {0} /\ n = 4 * BlockWords /\ x \in Seq(Nibble) /\ Len(x) = n
  /\ \A i \in 1 .. q : Element(in, p + i, 15) = 15
  /\ Element(in, p + (q + 1), 15) = 0
  /\ \A i \in 1 .. n : Element(in, p + (q + 1) + i, 15) = x[i]

\* r is b with block x taken in, or the start of the block has not come in time.
BlockDone(r, b, q, n, x) ==
  /\ Steady(r) /\ r.reg.fast = b.reg.fast /\ r.pwd = b.pwd /\ r.dat_in = b.dat_in
  /\ IF q + 1 <= TokenPolls
     THEN r.ret = b.ret /\ r.blocks = Append(b.blocks, x) /\ r.dat_at = b.dat_at + (q + 1) + n
     ELSE r.ret = 1

\* The start of what lies behind p has just been read.
Begun(b, p, q, n, x) == Brings(b.dat_in, p, q, n, x) /\ b.dat_at = p + (q + 1)

\* words_in appends the next n nibbles of the data lines.
LEMMA WordsIn ==
  ASSUME NEW b, Steady(b), NEW q, NEW n, NEW x, NEW p, Begun(b, p, q, n, x),
         NEW r, r = words_in(bi_sd_switch_mode(bi_sd_bitlen(b, 4), "dat_rd"))
  PROVE  /\ Steady(r) /\ r.reg.fast = b.reg.fast /\ r.pwd = b.pwd /\ r.dat_in = b.dat_in /\ r.ret = b.ret
         /\ r.blocks = Append(b.blocks, x) /\ r.dat_at = b.dat_at + n
<1> USE DEF Brings, Begun
<1> DEFINE e == bi_sd_bitlen(b, 4)
           s == [e EXCEPT !.mode = "dat_rd"]
           data == [i \in 1 .. n |-> Element(b.dat_in, b.dat_at + i, 15)]
<1>1. /\ Steady(e) /\ e.reg.bits = 4 /\ e.reg.fast = b.reg.fast /\ e.pwd = b.pwd /\ e.dat_in = b.dat_in
      /\ e.ret = b.ret /\ e.blocks = b.blocks /\ e.dat_at = b.dat_at
  BY LengthKept
<1> HIDE DEF e
<1>2. bi_sd_switch_mode(e, "dat_rd") = s /\ Steady(s)
  <2>1. "dat_rd" \in Lines
    BY DEF Lines
  <2> QED
    BY <1>1, <2>1, SwitchIs
<1>3. /\ s.reg.bits = 4 /\ s.reg.fast = b.reg.fast /\ s.pwd = b.pwd /\ s.dat_in = b.dat_in
      /\ s.ret = b.ret /\ s.blocks = b.blocks /\ s.dat_at = b.dat_at
  BY <1>1 DEF Steady, Bus
<1> HIDE DEF s
<1>4. n \in Nat /\ n = BlockWords * s.reg.bits /\ b.dat_at \in Nat
  BY <1>3, BusAssumption
<1>5. r = [s EXCEPT !.blocks = Append(s.blocks, data), !.dat_at = s.dat_at + n]
  <2>1. r = words_in(s)
    BY <1>2 DEF e
  <2> QED
    BY <1>3, <1>4, <2>1 DEF words_in
<1>6. data = x
  <2>1. \A i \in 1 .. n : data[i] = x[i]
    OBVIOUS
  <2>2. x = [i \in 1 .. n |-> x[i]]
    BY SeqIsFunction
  <2> QED
    BY <2>1, <2>2
<1> HIDE DEF data
<1>7. Append(s.blocks, x) \in Seq(Seq(Nibble)) /\ s.dat_at + n \in Nat
  <2> DEFINE Q == Seq(Nibble)
  <2>1. s.blocks \in Seq(Q) /\ x \in Q
    BY <1>2 DEF Steady, Bus
  <2> HIDE DEF Q
  <2>2. Append(s.blocks, x) \in Seq(Q)
    BY <2>1
  <2>3. s.dat_at + n \in Nat
    BY <1>3, <1>4
  <2> QED
    BY <2>2, <2>3 DEF Q
<1> DEFINE y == Append(s.blocks, x)
           at == s.dat_at + n
<1>8. y \in Seq(Seq(Nibble)) /\ at \in Nat /\ r = [s EXCEPT !.blocks = y, !.dat_at = at]
      /\ y = Append(b.blocks, x) /\ at = b.dat_at + n
  BY <1>3, <1>5, <1>6, <1>7
<1> HIDE DEF y, at
<1>9. Steady(r) /\ r.blocks = y /\ r.dat_at = at
  BY <1>2, <1>8 DEF Steady, Bus
<1>10. r.reg.fast = b.reg.fast /\ r.pwd = b.pwd /\ r.dat_in = b.dat_in /\ r.ret = b.ret
  BY <1>2, <1>3, <1>8 DEF Steady, Bus
<1> QED
  BY <1>8, <1>9, <1>10

\* block_in finds the first nibble of a block that comes in time and takes the
\* block, or gives up.
LEMMA BlockIn ==
  ASSUME NEW b, Steady(b), NEW q, NEW n, NEW x, Brings(b.dat_in, b.dat_at, q, n, x), NEW r, r = block_in(b)
  PROVE  BlockDone(r, b, q, n, x)
<1> DEFINE e == bi_sd_bitlen(b, 1)
           R == DatReads(e, TokenPolls)
           begun == {i \in 1 .. TokenPolls : R[i].sr_dat[1] = 15 /\ R[i].sr_dat[2] = 0}
<1>1. TokenPolls \in Nat \ {0}
  BY BusAssumption
<1>2. /\ Steady(e) /\ e.reg.bits = 1 /\ e.reg.fast = b.reg.fast /\ e.pwd = b.pwd /\ e.dat_in = b.dat_in
      /\ e.ret = b.ret /\ e.blocks = b.blocks /\ e.dat_at = b.dat_at
  BY LengthKept
<1>3. r = IF begun = {} THEN [R[TokenPolls] EXCEPT !.ret = 1]
          ELSE words_in(bi_sd_switch_mode(bi_sd_bitlen(R[First(begun)], 4), "dat_rd"))
  BY DEF block_in, wait_token
<1> HIDE DEF e
<1>4. \A i \in 0 .. TokenPolls :
        /\ Steady(R[i]) /\ Kept(R[i], e) /\ R[i].dat_at = e.dat_at + i
        /\ i >= 1 => /\ R[i].sr_dat[2] = Element(e.dat_in, e.dat_at + i, 15)
                     /\ R[i].sr_dat[1] = R[i - 1].sr_dat[2]
  BY <1>1, <1>2, DatReadsShow
<1> HIDE DEF R
<1>5. ASSUME NEW i \in 1 .. TokenPolls
      PROVE  /\ R[i].sr_dat[2] = Element(b.dat_in, b.dat_at + i, 15)
             /\ R[i].sr_dat[1] = R[i - 1].sr_dat[2] /\ i - 1 \in 0 .. TokenPolls
  BY <1>1, <1>2, <1>4
<1>6. \A i \in begun : q + 1 <= i
  <2> SUFFICES ASSUME NEW i \in 1 .. TokenPolls, R[i].sr_dat[2] = 0, ~(q + 1 <= i)
               PROVE  FALSE
    BY DEF Brings
  <2>1. i \in 1 .. q
    BY DEF Brings
  <2> QED
    BY <1>5, <2>1 DEF Brings
<1>7. q + 1 \in Nat /\ q \in Nat \ {0} /\ b.dat_at \in Nat
  BY DEF Brings
<1>8. CASE q + 1 <= TokenPolls
  <2>1. q + 1 \in begun
    <3>1. q + 1 \in 1 .. TokenPolls /\ q \in 1 .. TokenPolls /\ (q + 1) - 1 = q /\ q \in 1 .. q
      BY <1>1, <1>7, <1>8
    <3>2. R[q + 1].sr_dat[2] = 0
      BY <1>5, <3>1 DEF Brings
    <3>3. R[q + 1].sr_dat[1] = R[q].sr_dat[2]
      BY <1>5, <3>1
    <3>4. R[q].sr_dat[2] = 15
      BY <1>5, <3>1 DEF Brings
    <3> QED
      BY <3>1, <3>2, <3>3, <3>4
  <2>2. begun \in SUBSET Nat
    BY <1>1
  <2> DEFINE m == q + 1
             t == R[m]
  <2>3. First(begun) = m
    <3> HIDE DEF begun, m
    <3>1. m \in begun /\ \A i \in begun : m <= i
      BY <1>6, <2>1 DEF m
    <3> QED
      BY <2>2, <3>1, FirstPoll
  <2>4. r = words_in(bi_sd_switch_mode(bi_sd_bitlen(t, 4), "dat_rd")) /\ m \in 0 .. TokenPolls
    <3>1. begun # {}
      BY <2>1
    <3> HIDE DEF begun
    <3> QED
      BY <1>1, <1>3, <1>7, <1>8, <2>3, <3>1
  <2>5. Steady(t) /\ Kept(t, e) /\ t.dat_at = b.dat_at + (q + 1)
    BY <1>2, <1>4, <2>4
  <2> HIDE DEF m, t
  <2>6. Begun(t, b.dat_at, q, n, x)
    BY <1>2, <2>5 DEF Kept, Begun
  <2>7. /\ Steady(r) /\ r.reg.fast = t.reg.fast /\ r.pwd = t.pwd /\ r.dat_in = t.dat_in /\ r.ret = t.ret
        /\ r.blocks = Append(t.blocks, x) /\ r.dat_at = t.dat_at + n
    BY <2>4, <2>5, <2>6, WordsIn
  <2> QED
    BY <1>2, <1>8, <2>5, <2>7 DEF Kept, BlockDone
<1>9. CASE ~(q + 1 <= TokenPolls)
  <2>1. begun = {}
    BY <1>1, <1>6, <1>7, <1>9
  <2> DEFINE t == R[TokenPolls]
  <2>2. r = [t EXCEPT !.ret = 1]
    <3> HIDE DEF begun
    <3> QED
      BY <1>3, <2>1
  <2>3. Steady(t) /\ Kept(t, e)
    BY <1>1, <1>4
  <2> HIDE DEF t
  <2>4. Steady(r) /\ r.ret = 1
    BY <2>2, <2>3 DEF Steady, Bus, Rets
  <2>5. r.reg.fast = b.reg.fast /\ r.pwd = b.pwd /\ r.dat_in = b.dat_in
    BY <1>2, <2>2, <2>3 DEF Steady, Bus, Kept
  <2> QED
    BY <1>9, <2>4, <2>5 DEF BlockDone
<1> QED
  BY <1>8, <1>9

-----------------------------------------------------------------------------
\* A loop of n passes whose value behind pass k is in G[k] is a function.
Stays(n, a, h, G) == a \in G[0] /\ \A k \in 1 .. n : \A x \in G[k - 1] : h[k][x] \in G[k]

Loops(f, n, a, h) == f = [k \in 0 .. n |-> IF k = 0 THEN a ELSE h[k][f[k - 1]]]

\* A loop that stays in the sets G has a function of its passes.
LEMMA LoopExists ==
  ASSUME NEW n \in Nat, NEW S, NEW a, NEW h, NEW G, \A k \in 0 .. n : G[k] \subseteq S, Stays(n, a, h, G)
  PROVE  \E f : Loops(f, n, a, h) /\ \A k \in 0 .. n : f[k] \in G[k]
<1> USE DEF Stays
<1> DEFINE g == [k \in Nat |-> [x \in S |-> IF k \in 1 .. n /\ x \in G[k - 1] THEN h[k][x] ELSE x]]
<1>1. g \in [Nat -> [S -> S]]
  <2>1. ASSUME NEW k \in Nat, NEW x \in S
        PROVE  (IF k \in 1 .. n /\ x \in G[k - 1] THEN h[k][x] ELSE x) \in S
    <3>1. CASE k \in 1 .. n /\ x \in G[k - 1]
      <4>1. h[k][x] \in G[k] /\ k \in 0 .. n
        BY <3>1
      <4> QED
        BY <3>1, <4>1
    <3> QED
      BY <3>1
  <2> QED
    BY <2>1
<1>2. a \in S
  <2>1. 0 \in 0 .. n
    OBVIOUS
  <2> QED
    BY <2>1
<1>3. PICK f \in [0 .. n -> S] : Steps(f, n, a, g)
  <2> HIDE DEF g
  <2> QED
    BY <1>1, <1>2, StepsExist
<1>4. f = [k \in 0 .. n |-> IF k = 0 THEN a ELSE g[k][f[k - 1]]]
  BY <1>3 DEF Steps
<1>5. ASSUME NEW k \in 1 .. n, f[k - 1] \in G[k - 1]
      PROVE  g[k][f[k - 1]] = h[k][f[k - 1]] /\ h[k][f[k - 1]] \in G[k]
  <2>1. k \in Nat /\ k - 1 \in 0 .. n
    OBVIOUS
  <2>2. f[k - 1] \in S
    BY <2>1
  <2> QED
    BY <1>5, <2>1, <2>2
<1> HIDE DEF g
<1> DEFINE T == {k \in 0 .. n : f[k] \in G[k]}
<1>6. 0 \in T
  BY <1>4
<1>7. ASSUME NEW k \in 0 .. n - 1, k \in T
      PROVE  k + 1 \in T
  <2> DEFINE K == k + 1
  <2>1. K \in 1 .. n /\ K \in 0 .. n /\ K - 1 = k /\ K # 0
    OBVIOUS
  <2> HIDE DEF K
  <2>2. f[K] = g[K][f[K - 1]]
    BY <1>4, <2>1
  <2>3. K \in T
    BY <1>5, <1>7, <2>1, <2>2
  <2> QED
    BY <2>3 DEF K
<1>8. \A k \in 0 .. n : k \in T
  <2> HIDE DEF T
  <2> QED
    BY <1>6, <1>7, ForAllBelow
<1>9. \A k \in 0 .. n : k # 0 => g[k][f[k - 1]] = h[k][f[k - 1]]
  <2> SUFFICES ASSUME NEW k \in 0 .. n, k # 0
               PROVE  g[k][f[k - 1]] = h[k][f[k - 1]]
    OBVIOUS
  <2>1. k \in 1 .. n /\ k - 1 \in 0 .. n
    OBVIOUS
  <2>2. f[k - 1] \in G[k - 1]
    BY <1>8, <2>1
  <2> QED
    BY <1>5, <2>1, <2>2
<1>10. Loops(f, n, a, h)
  BY <1>4, <1>9 DEF Loops
<1> QED
  BY <1>8, <1>10

\* What a function of the passes of a loop is after the last one.
LEMMA LoopStays ==
  ASSUME NEW n \in Nat, NEW G, NEW F, F[0] \in G[0],
         \A k \in 1 .. n : F[k - 1] \in G[k - 1] => F[k] \in G[k]
  PROVE  F[n] \in G[n]
<1> DEFINE T == {k \in 0 .. n : F[k] \in G[k]}
<1>1. 0 \in T
  OBVIOUS
<1>2. ASSUME NEW k \in 0 .. n - 1, k \in T
      PROVE  k + 1 \in T
  <2> DEFINE K == k + 1
  <2>1. K \in 1 .. n /\ K \in 0 .. n /\ K - 1 = k
    OBVIOUS
  <2> HIDE DEF K
  <2>2. K \in T
    BY <1>2, <2>1
  <2> QED
    BY <2>2 DEF K
<1>3. \A k \in 0 .. n : k \in T
  <2> HIDE DEF T
  <2> QED
    BY <1>1, <1>2, ForAllBelow
<1> QED
  BY <1>3

\* What holds behind each pass of the loop over the blocks.
Passed(x) == IF x.ret # 0 THEN x ELSE block_in(x)

PassesIn(b, n, G) ==
  /\ \A k \in 0 .. n : G[k] \subseteq Steadies
  /\ [b EXCEPT !.ret = 0] \in G[0]
  /\ \A k \in 1 .. n : \A x \in G[k - 1] : Passed(x) \in G[k]

\* blocks_in passes from set to set.
LEMMA BlocksInAre ==
  ASSUME NEW b, NEW n \in Nat, NEW G, PassesIn(b, n, G)
  PROVE  blocks_in(b, n)[n] \in G[n]
<1> USE DEF PassesIn
<1> DEFINE a == [b EXCEPT !.ret = 0]
           Is(f) == f = [k \in 0 .. n |-> IF k = 0 THEN a
                                          ELSE IF f[k - 1].ret # 0 THEN f[k - 1] ELSE block_in(f[k - 1])]
           h == [k \in 1 .. n |-> [x \in Steadies |-> Passed(x)]]
<1>1. ASSUME NEW k \in 1 .. n, NEW x \in G[k - 1]
      PROVE  h[k][x] = Passed(x) /\ Passed(x) \in G[k]
  <2>1. k - 1 \in 0 .. n
    OBVIOUS
  <2>2. x \in Steadies
    BY <2>1
  <2> QED
    BY <2>2
<1>2. Stays(n, a, h, G)
  <2> HIDE DEF h, a
  <2>1. a \in G[0]
    BY DEF a
  <2> QED
    BY <1>1, <2>1 DEF Stays
<1>3. PICK f : Loops(f, n, a, h) /\ \A k \in 0 .. n : f[k] \in G[k]
  <2> HIDE DEF h, a
  <2>1. \A k \in 0 .. n : G[k] \subseteq Steadies
    OBVIOUS
  <2> QED
    BY <1>2, <2>1, LoopExists
<1>4. Is(f)
  <2>1. ASSUME NEW k \in 0 .. n, k # 0
        PROVE  h[k][f[k - 1]] = IF f[k - 1].ret # 0 THEN f[k - 1] ELSE block_in(f[k - 1])
    <3>1. k \in 1 .. n /\ k - 1 \in 0 .. n
      BY <2>1
    <3>2. h[k][f[k - 1]] = Passed(f[k - 1])
      BY <1>1, <1>3, <3>1
    <3> QED
      BY <3>2 DEF Passed
  <2> HIDE DEF h, a
  <2> QED
    BY <1>3, <2>1 DEF Loops
<1> DEFINE F == CHOOSE z : Is(z)
<1>5. Is(F)
  <2> HIDE DEF Is
  <2> QED
    BY <1>4
<1>6. blocks_in(b, n) = F
  BY DEF blocks_in
<1> HIDE DEF F, a
<1>7. F[0] = a /\ \A k \in 1 .. n : F[k] = Passed(F[k - 1])
  BY <1>5 DEF Passed
<1>8. F[n] \in G[n]
  <2>1. F[0] \in G[0]
    BY <1>7 DEF a
  <2>2. \A k \in 1 .. n : F[k - 1] \in G[k - 1] => F[k] \in G[k]
    BY <1>7
  <2> QED
    BY <2>1, <2>2, LoopStays
<1> QED
  BY <1>6, <1>8

-----------------------------------------------------------------------------
\* Two rows one behind the other.
Follows(z, m, x, n, y) ==
  /\ \A i \in 1 .. m : z[i] = x[i]
  /\ \A i \in 1 .. n : z[m + i] = y[i]

\* Two rows, one behind the other.
LEMMA BehindIs ==
  ASSUME NEW S, NEW m, NEW x, Row(x, m, S), NEW n, NEW y, Row(y, n, S), NEW z, z = x \o y, NEW l, l = m + n
  PROVE  Row(z, l, S) /\ Follows(z, m, x, n, y)
<1>1. z = [i \in 1 .. m + n |-> IF i <= m THEN x[i] ELSE y[i - m]] /\ Row(z, m + n, S)
  BY ConcatIs
<1>2. m \in Nat /\ n \in Nat
  BY DEF Row
<1>3. \A i \in 1 .. m : z[i] = x[i]
  BY <1>1, <1>2
<1>4. ASSUME NEW i \in 1 .. n
      PROVE  z[m + i] = y[i]
  <2>1. m + i \in 1 .. m + n /\ ~(m + i <= m) /\ (m + i) - m = i
    BY <1>2
  <2> QED
    BY <1>1, <2>1
<1> QED
  BY <1>1, <1>3, <1>4 DEF Follows

\* The frame of a block that is read.
FrameOf(z, d, n, x) ==
  /\ Row(z, d + n + 2, Nibble)
  /\ \A i \in 1 .. d : z[i] = 15
  /\ z[d + 1] = 0 /\ z[d + n + 2] = 15
  /\ \A i \in 1 .. n : z[d + 1 + i] = x[i]

\* A frame: idle clocks, a start, the block and an end.
LEMMA FrameParts ==
  ASSUME NEW d \in Nat, NEW n, NEW x, Row(x, n, Nibble), NEW z, z = Frame(d, x)
  PROVE  FrameOf(z, d, n, x)
<1> DEFINE rest == Ones(d, 15)
           start == <<0>>
           end == <<15>>
           u == rest \o start
           v == u \o x
           D == d + 1
           E == d + 1 + n
           L == d + n + 2
           S == Nibble
<1>1. z = v \o end
  BY DEF Frame
<1>2. Row(rest, d, S) /\ Row(start, 1, S) /\ Row(end, 1, S) /\ start[1] = 0 /\ end[1] = 15
      /\ \A i \in 1 .. d : rest[i] = 15
  BY DEF Row, Ones, Nibble
<1>3. n \in Nat /\ Row(x, n, S)
  BY DEF Row
<1>4. D = d + 1 /\ E = D + n /\ L = E + 1
  BY <1>3
<1> HIDE DEF rest, start, end, S
<1>5. Row(u, D, S) /\ Follows(u, d, rest, 1, start)
  <2> HIDE DEF D
  <2> QED
    BY <1>2, <1>4, BehindIs
<1> HIDE DEF u
<1>6. Row(v, E, S) /\ Follows(v, D, u, n, x)
  <2> HIDE DEF D, E
  <2> QED
    BY <1>3, <1>4, <1>5, BehindIs
<1> HIDE DEF v
<1>7. Row(z, L, S) /\ Follows(z, E, v, 1, end)
  <2> HIDE DEF L, E
  <2> QED
    BY <1>1, <1>2, <1>4, <1>6, BehindIs
<1>8. ASSUME NEW i \in 1 .. d
      PROVE  z[i] = 15
  <2>1. i \in 1 .. D /\ i \in 1 .. E
    BY <1>3
  <2>2. z[i] = v[i] /\ v[i] = u[i] /\ u[i] = rest[i]
    BY <1>5, <1>6, <1>7, <2>1 DEF Follows
  <2> QED
    BY <1>2, <2>2
<1>9. z[d + 1] = 0
  <2>1. d + 1 \in 1 .. D /\ d + 1 \in 1 .. E /\ 1 \in 1 .. 1
    BY <1>3
  <2>2. z[d + 1] = v[d + 1] /\ v[d + 1] = u[d + 1] /\ u[d + 1] = start[1]
    BY <1>5, <1>6, <1>7, <2>1 DEF Follows
  <2> QED
    BY <1>2, <2>2
<1>10. ASSUME NEW i \in 1 .. n
       PROVE  z[d + 1 + i] = x[i]
  <2>1. D + i \in 1 .. E
    BY <1>3
  <2>2. z[D + i] = v[D + i] /\ v[D + i] = x[i]
    BY <1>6, <1>7, <2>1 DEF Follows
  <2> QED
    BY <2>2
<1>11. z[d + n + 2] = 15
  <2>1. z[E + 1] = end[1] /\ E + 1 = d + n + 2
    <3>1. 1 \in 1 .. 1 /\ E + 1 = d + n + 2
      BY <1>3
    <3> QED
      BY <1>7, <3>1 DEF Follows
  <2> QED
    BY <1>2, <2>1
<1> QED
  BY <1>7, <1>8, <1>9, <1>10, <1>11 DEF FrameOf, S

\* The clocks of rest before block k, where the loop is behind the block before.
Rest(ds, k) == IF k = 1 THEN ds[k] ELSE ds[k] + 1

BlockLength == 4 * BlockWords
\* The blocks of a transfer and the delays before them.
Transfer(n, ds, data) ==
  /\ n \in Nat /\ ds \in [1 .. n -> Nat \ {0}] /\ data \in [1 .. n -> Seq(Nibble)]
  /\ \A k \in 1 .. n : Len(data[k]) = BlockLength

\* Behind block k the loop is at place at[k].
Stations(in, at, n, ds, data) ==
  /\ at \in [0 .. n -> Nat] /\ at[0] = 0
  /\ \A k \in 1 .. n : /\ Brings(in, at[k - 1], Rest(ds, k), BlockLength, data[k])
                       /\ at[k] = at[k - 1] + (Rest(ds, k) + 1) + BlockLength

\* In frames that are joined, each block comes behind the end of the one before
\* it.
LEMMA FramesBring ==
  ASSUME NEW n, NEW ds, NEW data, Transfer(n, ds, data), NEW frames,
         frames = [k \in 1 .. n |-> Frame(ds[k], data[k])], NEW in, in = Joined(frames)
  PROVE  in \in Seq(Nibble) /\ \E at : Stations(in, at, n, ds, data)
<1> USE DEF Transfer
<1> DEFINE N == BlockLength
           S == Nibble
<1>1. N \in Nat /\ N = 4 * BlockWords
  BY BusAssumption DEF BlockLength
<1> HIDE DEF N
<1>2. ASSUME NEW k \in 1 .. n
      PROVE  /\ FrameOf(frames[k], ds[k], N, data[k]) /\ Len(frames[k]) = ds[k] + N + 2
             /\ frames[k] \in Seq(S) /\ ds[k] \in Nat \ {0} /\ data[k] \in Seq(S) /\ Len(data[k]) = N
  <2>1. ds[k] \in Nat \ {0} /\ data[k] \in Seq(Nibble) /\ Len(data[k]) = N
    BY DEF N
  <2> HIDE DEF S
  <2>2. Row(data[k], N, Nibble)
    BY <2>1, SeqIsFunction DEF Row
  <2>3. FrameOf(frames[k], ds[k], N, data[k])
    BY <2>1, <2>2, FrameParts
  <2>4. frames[k] \in Seq(Nibble) /\ Len(frames[k]) = ds[k] + N + 2
    BY <2>3, RowIsSeq DEF FrameOf
  <2> QED
    BY <2>1, <2>3, <2>4 DEF S
<1> HIDE DEF S
<1>3. Parts(frames, n, S)
  BY <1>2 DEF Parts
<1>4. in \in Seq(S) /\ \E off : Laid(in, frames, n, off)
  BY <1>3, JoinedAt
<1>5. PICK off : Laid(in, frames, n, off)
  BY <1>4
<1> DEFINE at == [k \in 0 .. n |-> IF k = 0 THEN 0 ELSE off[k] - 1]
<1>6. ASSUME NEW k \in 1 .. n
      PROVE  /\ off[k - 1] \in Nat /\ off[k] = off[k - 1] + (ds[k] + N + 2)
             /\ \A j \in 1 .. ds[k] + N + 2 : Element(in, off[k - 1] + j, 15) = frames[k][j]
  <2>1. k - 1 \in 0 .. n
    OBVIOUS
  <2>2. /\ off[k - 1] \in Nat /\ off[k] = off[k - 1] + Len(frames[k])
        /\ \A j \in 1 .. Len(frames[k]) : off[k - 1] + j \in DOMAIN in /\ in[off[k - 1] + j] = frames[k][j]
    BY <1>5, <2>1 DEF Laid
  <2> QED
    BY <1>2, <2>2 DEF Element
<1>7. ASSUME NEW k \in 1 .. n
      PROVE  /\ off[k - 1] \in Nat /\ ds[k] \in Nat \ {0} /\ off[k] = off[k - 1] + ds[k] + N + 2
             /\ \A j \in 1 .. ds[k] : Element(in, off[k - 1] + j, 15) = 15
             /\ Element(in, off[k - 1] + (ds[k] + 1), 15) = 0
             /\ \A j \in 1 .. N : Element(in, off[k - 1] + (ds[k] + 1 + j), 15) = data[k][j]
             /\ Element(in, off[k], 15) = 15
  <2> DEFINE d == ds[k]
             o == off[k - 1]
             z == frames[k]
             L == d + N + 2
  <2>1. d \in Nat \ {0} /\ o \in Nat /\ off[k] = o + L /\ \A j \in 1 .. L : Element(in, o + j, 15) = z[j]
    BY <1>2, <1>6
  <2>2. FrameOf(z, d, N, data[k])
    BY <1>2
  <2> HIDE DEF d, o, z
  <2>3. /\ \A j \in 1 .. d : z[j] = 15
        /\ z[d + 1] = 0 /\ z[L] = 15
        /\ \A j \in 1 .. N : z[d + 1 + j] = data[k][j]
    BY <2>2 DEF FrameOf
  <2>4. (\A j \in 1 .. d : j \in 1 .. L) /\ d + 1 \in 1 .. L /\ L \in 1 .. L
        /\ \A j \in 1 .. N : d + 1 + j \in 1 .. L
    BY <1>1, <2>1
  <2>5. \A j \in 1 .. d : Element(in, o + j, 15) = 15
    BY <2>1, <2>3, <2>4
  <2>6. Element(in, o + (d + 1), 15) = 0
    BY <2>1, <2>3, <2>4
  <2>7. \A j \in 1 .. N : Element(in, o + (d + 1 + j), 15) = data[k][j]
    BY <2>1, <2>3, <2>4
  <2>8. Element(in, off[k], 15) = 15
    BY <2>1, <2>3, <2>4
  <2>9. off[k] = o + d + N + 2
    <3> DEFINE e == off[k]
    <3>1. e = o + L
      BY <2>1
    <3> HIDE DEF e
    <3>2. e = o + d + N + 2
      BY <1>1, <2>1, <3>1
    <3> QED
      BY <3>2 DEF e
  <2> QED
    BY <2>1, <2>5, <2>6, <2>7, <2>8, <2>9 DEF d, o
<1>8. at \in [0 .. n -> Nat] /\ at[0] = 0
  <2>1. ASSUME NEW k \in 0 .. n, k # 0
        PROVE  off[k] - 1 \in Nat
    <3>1. k \in 1 .. n
      BY <2>1
    <3>2. off[k - 1] \in Nat /\ ds[k] \in Nat /\ off[k] = off[k - 1] + ds[k] + N + 2
      BY <1>7, <3>1
    <3> QED
      BY <1>1, <3>2
  <2> QED
    BY <2>1
<1>9. off[0] = 0
  BY <1>5 DEF Laid
<1>10. ASSUME NEW k \in 1 .. n
       PROVE  /\ Brings(in, at[k - 1], Rest(ds, k), N, data[k])
              /\ at[k] = at[k - 1] + (Rest(ds, k) + 1) + N
  <2> DEFINE d == ds[k]
             p == at[k - 1]
             q == Rest(ds, k)
             o == off[k - 1]
  <2>1. /\ o \in Nat /\ d \in Nat \ {0} /\ off[k] = o + d + N + 2
        /\ \A j \in 1 .. d : Element(in, o + j, 15) = 15
        /\ Element(in, o + (d + 1), 15) = 0
        /\ \A j \in 1 .. N : Element(in, o + (d + 1 + j), 15) = data[k][j]
    BY <1>7
  <2>2. k - 1 \in 0 .. n /\ k \in 0 .. n /\ k # 0 /\ p \in Nat /\ at[k] = off[k] - 1
    BY <1>8
  <2>3. p + (q + 1) = o + (d + 1) /\ q \in Nat \ {0} /\ ((o = p + 1 /\ q = d + 1) \/ (o = p /\ q = d))
        /\ (o = p + 1 => Element(in, o, 15) = 15)
    <3>1. CASE k = 1
      <4>1. p = 0 /\ o = 0 /\ q = d
        BY <1>9, <2>2, <3>1 DEF Rest
      <4> HIDE DEF p, o, q, d
      <4> QED
        BY <2>1, <4>1
    <3>2. CASE k # 1
      <4>1. k - 1 # 0 /\ k - 1 \in 1 .. n
        BY <3>2
      <4>2. p = o - 1 /\ q = d + 1
        BY <2>2, <3>2, <4>1 DEF Rest
      <4>3. Element(in, o, 15) = 15
        BY <1>7, <4>1
      <4> HIDE DEF p, o, q, d
      <4>4. o = p + 1 /\ q \in Nat \ {0} /\ p + (q + 1) = o + (d + 1)
        BY <2>1, <2>2, <4>2
      <4> QED
        BY <4>2, <4>3, <4>4
    <3> QED
      BY <3>1, <3>2
  <2> DEFINE x == data[k]
  <2>4. x \in Seq(Nibble) /\ Len(x) = N
    BY <1>2 DEF S
  <2>5. at[k] = p + (q + 1) + N
    <3> DEFINE e == off[k]
               y == at[k]
    <3>1. y = e - 1 /\ e = o + d + N + 2
      BY <2>1, <2>2
    <3> HIDE DEF e, y, p, q, o, d
    <3>2. o \in Nat /\ d \in Nat /\ p \in Nat /\ q \in Nat /\ p + (q + 1) = o + (d + 1)
      BY <2>1, <2>2, <2>3
    <3>3. y = o + (d + 1) + N
      BY <1>1, <3>1, <3>2
    <3>4. y = p + (q + 1) + N
      BY <3>2, <3>3
    <3> QED
      BY <3>4 DEF y
  <2> HIDE DEF p, q, o, d, x
  <2>6. ASSUME NEW i \in 1 .. q
        PROVE  Element(in, p + i, 15) = 15
    <3>1. CASE o = p
      <4>1. q = d
        BY <2>1, <2>2, <2>3, <3>1
      <4> QED
        BY <2>1, <3>1, <4>1
    <3>2. CASE o = p + 1 /\ i = 1
      BY <2>3, <3>2
    <3>3. CASE o = p + 1 /\ i # 1
      <4>1. i - 1 \in 1 .. d /\ o + (i - 1) = p + i
        BY <2>1, <2>2, <2>3, <3>3
      <4> QED
        BY <2>1, <4>1
    <3> QED
      BY <2>3, <3>1, <3>2, <3>3
  <2>7. Element(in, p + (q + 1), 15) = 0
    BY <2>1, <2>3
  <2>8. ASSUME NEW i \in 1 .. N
        PROVE  Element(in, p + (q + 1) + i, 15) = x[i]
    <3>1. p + (q + 1) + i = o + (d + 1 + i)
      BY <1>1, <2>1, <2>2, <2>3
    <3> QED
      BY <2>1, <3>1 DEF x
  <2>9. Brings(in, p, q, N, x)
    BY <1>1, <2>2, <2>3, <2>4, <2>6, <2>7, <2>8 DEF Brings
  <2> QED
    BY <2>5, <2>9 DEF p, q, x
<1> HIDE DEF at
<1>11. Stations(in, at, n, ds, data)
  BY <1>8, <1>10 DEF Stations, N
<1> QED
  BY <1>4, <1>11 DEF S

\* What holds behind block k of a read.
AllInTime(ds, k) == \A i \in 1 .. k : InTime(ds, i)

ReadTo(b, in, at, ds, data, k) ==
  {x \in Steadies :
     /\ x.reg.fast = b.reg.fast /\ x.dat_in = in
     /\ IF AllInTime(ds, k) THEN x.ret = 0 /\ x.dat_at = at[k] /\ x.blocks = [i \in 1 .. k |-> data[i]]
        ELSE x.ret = 1}

\* The blocks that are there after one more.
LEMMA BlocksGrow ==
  ASSUME NEW S, NEW n \in Nat, NEW data \in [1 .. n -> S], NEW k \in 1 .. n, NEW K, K = k - 1
  PROVE  Append([i \in 1 .. K |-> data[i]], data[k]) = [i \in 1 .. k |-> data[i]]
<1> DEFINE x == [i \in 1 .. K |-> data[i]]
           e == data[k]
<1>1. Row(x, K, S) /\ e \in S /\ k = K + 1
  <2>1. K \in Nat /\ \A i \in 1 .. K : data[i] \in S
    OBVIOUS
  <2> QED
    BY <2>1 DEF Row
<1>2. (\A i \in 1 .. K : x[i] = data[i]) /\ e = data[k]
  OBVIOUS
<1> HIDE DEF x, e
<1>3. Append(x, e) = [i \in 1 .. K + 1 |-> IF i = K + 1 THEN e ELSE x[i]]
  BY <1>1, AppendIs
<1>4. Append(x, e) = [i \in 1 .. k |-> data[i]]
  BY <1>1, <1>2, <1>3
<1> QED
  BY <1>4 DEF x, e

\* One pass of the loop of bi_sd_to_ram.
LEMMA BlockPassed ==
  ASSUME NEW b, NEW in, NEW at, NEW n, NEW ds, NEW data, Transfer(n, ds, data), Stations(in, at, n, ds, data),
         NEW k \in 1 .. n, NEW x, x \in ReadTo(b, in, at, ds, data, k - 1)
  PROVE  Passed(x) \in ReadTo(b, in, at, ds, data, k)
<1> DEFINE K == k - 1
           q == Rest(ds, k)
           N == BlockLength
           y == data[k]
<1>1. n \in Nat /\ K \in 0 .. n /\ k = K + 1 /\ ds[k] \in Nat \ {0} /\ TokenPolls \in Nat
  <2>1. n \in Nat
    BY DEF Transfer
  <2> QED
    BY <2>1, BusAssumption DEF Transfer
<1>2. /\ Steady(x) /\ x.reg.fast = b.reg.fast /\ x.dat_in = in
      /\ IF AllInTime(ds, K) THEN x.ret = 0 /\ x.dat_at = at[K] /\ x.blocks = [i \in 1 .. K |-> data[i]]
         ELSE x.ret = 1
  BY SteadyIs DEF ReadTo
<1>3. AllInTime(ds, k) <=> AllInTime(ds, K) /\ InTime(ds, k)
  BY <1>1 DEF AllInTime
<1>4. InTime(ds, k) <=> q + 1 <= TokenPolls
  BY <1>1 DEF InTime, Rest
<1>5. Brings(in, at[K], q, N, y) /\ at[k] = at[K] + (q + 1) + N
  BY DEF Stations
<1> HIDE DEF K, q, N, y
<1>6. CASE AllInTime(ds, K)
  <2> DEFINE r == block_in(x)
  <2>1. Passed(x) = r
    BY <1>2, <1>6 DEF Passed
  <2>2. BlockDone(r, x, q, N, y)
    <3>1. Brings(x.dat_in, x.dat_at, q, N, y) /\ Steady(x)
      BY <1>2, <1>5, <1>6
    <3> QED
      BY <3>1, BlockIn
  <2> HIDE DEF r
  <2>3. r \in Steadies /\ r.reg.fast = b.reg.fast /\ r.dat_in = in
    BY <1>2, <2>2, SteadyIs DEF BlockDone
  <2>4. CASE InTime(ds, k)
    <3>1. r.ret = 0 /\ r.dat_at = at[k]
      BY <1>2, <1>4, <1>5, <1>6, <2>2, <2>4 DEF BlockDone
    <3>2. r.blocks = Append([i \in 1 .. K |-> data[i]], y)
      BY <1>2, <1>4, <1>6, <2>2, <2>4 DEF BlockDone
    <3>3. r.blocks = [i \in 1 .. k |-> data[i]]
      <4> DEFINE S == Seq(Nibble)
      <4>1. data \in [1 .. n -> S] /\ K = k - 1
        BY DEF Transfer, K
      <4> HIDE DEF S
      <4>2. Append([i \in 1 .. K |-> data[i]], data[k]) = [i \in 1 .. k |-> data[i]]
        BY <1>1, <4>1, BlocksGrow
      <4> QED
        BY <3>2, <4>2 DEF y
    <3> QED
      BY <1>3, <1>6, <2>1, <2>3, <2>4, <3>1, <3>3 DEF ReadTo
  <2>5. CASE ~InTime(ds, k)
    <3>1. r.ret = 1
      BY <1>4, <2>2, <2>5 DEF BlockDone
    <3> QED
      BY <1>3, <2>1, <2>3, <2>5, <3>1 DEF ReadTo
  <2> QED
    BY <2>4, <2>5
<1>7. CASE ~AllInTime(ds, K)
  <2>1. Passed(x) = x /\ x.ret = 1 /\ x \in Steadies
    BY <1>2, <1>7, SteadyIs DEF Passed
  <2> QED
    BY <1>2, <1>3, <1>7, <2>1 DEF ReadTo
<1> QED
  BY <1>6, <1>7

\* bi_sd_to_ram over all passes.
LEMMA BlocksAreRead ==
  ASSUME NEW b \in Buses, NEW n, NEW ds, NEW data, Transfer(n, ds, data), NEW in \in Seq(Nibble), NEW at,
         Stations(in, at, n, ds, data), NEW r, r = bi_sd_to_ram([b EXCEPT !.dat_in = in], n)
  PROVE  /\ Settled(b, r)
         /\ IF AllInTime(ds, n) THEN r.ret = 0 /\ r.blocks = data ELSE r.ret = 1
<1> DEFINE c == [b EXCEPT !.dat_in = in]
           d == [c EXCEPT !.pwd = "short"]
           e == [d EXCEPT !.ret = 0]
           G == [k \in 0 .. n |-> ReadTo(b, in, at, ds, data, k)]
<1>1. Steady(b) /\ b.dat_at = 0 /\ b.blocks = <<>>
  BY BusesAre
<1>2. c \in Bus /\ c.cfg = c.reg /\ c.pwd = b.pwd /\ c.reg.fast = b.reg.fast /\ c.dat_in = in
      /\ c.dat_at = 0 /\ c.blocks = b.blocks
  BY <1>1 DEF Steady, Bus
<1> HIDE DEF c
<1>3. e \in Bus /\ e.cfg = e.reg /\ e.ret = 0 /\ e.reg.fast = b.reg.fast /\ e.dat_in = in
      /\ e.dat_at = 0 /\ e.blocks = b.blocks
  <2>1. 0 \in Rets
    BY DEF Rets
  <2>2. e \in Bus
    BY <1>2, <2>1 DEF Bus
  <2> QED
    BY <1>2, <2>2 DEF Bus
<1>4. e \in ReadTo(b, in, at, ds, data, 0)
  <2>1. AllInTime(ds, 0) /\ at[0] = 0
    BY DEF AllInTime, Stations
  <2>2. e \in Steadies
    BY <1>3 DEF Steadies
  <2>3. e.blocks = [i \in 1 .. 0 |-> data[i]]
    BY <1>1, <1>3
  <2> HIDE DEF e
  <2> QED
    BY <1>3, <2>1, <2>2, <2>3 DEF ReadTo
<1>5. PassesIn(d, n, G) /\ n \in Nat
  <2>1. n \in Nat
    BY DEF Transfer
  <2>2. \A k \in 0 .. n : G[k] = ReadTo(b, in, at, ds, data, k) /\ G[k] \subseteq Steadies
    BY DEF ReadTo
  <2>3. e \in G[0]
    <3>1. 0 \in 0 .. n
      BY <2>1
    <3> QED
      BY <1>4, <2>2, <3>1
  <2>4. ASSUME NEW k \in 1 .. n, NEW x \in G[k - 1]
        PROVE  Passed(x) \in G[k]
    <3>1. k - 1 \in 0 .. n /\ k \in 0 .. n
      BY <2>1
    <3>2. x \in ReadTo(b, in, at, ds, data, k - 1)
      BY <2>2, <3>1
    <3> HIDE DEF G
    <3>3. Passed(x) \in ReadTo(b, in, at, ds, data, k)
      BY <3>2, BlockPassed
    <3> QED
      BY <2>2, <3>1, <3>3
  <2> HIDE DEF G
  <2>5. [d EXCEPT !.ret = 0] \in G[0]
    BY <2>3
  <2> HIDE DEF d, e
  <2> QED
    BY <2>1, <2>2, <2>4, <2>5 DEF PassesIn
<1> DEFINE x == blocks_in(d, n)[n]
<1>6. x \in ReadTo(b, in, at, ds, data, n)
  <2>1. x \in G[n]
    <3> HIDE DEF G, d
    <3> QED
      BY <1>5, BlocksInAre
  <2>2. n \in 0 .. n
    BY <1>5
  <2> QED
    BY <2>1, <2>2
<1>7. r = [x EXCEPT !.pwd = c.pwd]
  BY DEF bi_sd_to_ram, c
<1> HIDE DEF x
<1>8. /\ x \in Bus /\ x.cfg = x.reg /\ x.reg.fast = b.reg.fast
      /\ IF AllInTime(ds, n) THEN x.ret = 0 /\ x.blocks = [i \in 1 .. n |-> data[i]] ELSE x.ret = 1
  BY <1>6 DEF ReadTo, Steadies
<1>9. r.cfg = x.cfg /\ r.reg = x.reg /\ r.ret = x.ret /\ r.blocks = x.blocks /\ r.pwd = c.pwd
  BY <1>7, <1>8 DEF Bus
<1>10. data = [i \in 1 .. n |-> data[i]]
  BY DEF Transfer
<1>11. Settled(b, r)
  BY <1>2, <1>8, <1>9 DEF Settled
<1> QED
  BY <1>8, <1>9, <1>10, <1>11

\* ReadTrue for every bus, any number of blocks and all delays.
LEMMA ReadsAreTrue ==
  ASSUME NEW b \in Buses, NEW n \in Blocks, NEW ds \in [1 .. n -> Delays \ {0}],
         NEW data \in [1 .. n -> Nibbles], NEW s, s = [kind |-> "read", delays |-> ds, data |-> data, b |-> b]
  PROVE  ReadTrue(s)
<1> DEFINE frames == [k \in 1 .. n |-> Frame(ds[k], data[k])]
           in == Joined(frames)
           r == bi_sd_to_ram([b EXCEPT !.dat_in = in], n)
<1>1. n \in Nat
  BY BusAssumption
<1>2. Transfer(n, ds, data)
  <2>1. ds \in [1 .. n -> Nat \ {0}]
    <3>1. Delays \ {0} \subseteq Nat \ {0}
      BY BusAssumption
    <3>2. \A k \in 1 .. n : ds[k] \in Delays \ {0}
      OBVIOUS
    <3>3. \A k \in 1 .. n : ds[k] \in Nat \ {0}
      BY <3>1, <3>2
    <3> QED
      BY <3>3
  <2>2. \A x \in Nibbles : x \in Seq(Nibble) /\ Len(x) = BlockLength
    BY BusAssumption DEF BlockLength, Nibble
  <2>3. data \in [1 .. n -> Seq(Nibble)] /\ \A k \in 1 .. n : Len(data[k]) = BlockLength
    BY <2>2
  <2> QED
    BY <1>1, <2>1, <2>3 DEF Transfer
<1>3. in \in Seq(Nibble) /\ \E at : Stations(in, at, n, ds, data)
  <2> HIDE DEF in
  <2>1. in = Joined(frames)
    BY DEF in
  <2> QED
    BY <1>2, <2>1, FramesBring
<1>4. PICK at : Stations(in, at, n, ds, data)
  BY <1>3
<1>5. /\ Settled(b, r)
      /\ IF AllInTime(ds, n) THEN r.ret = 0 /\ r.blocks = data ELSE r.ret = 1
  <2> HIDE DEF in, r
  <2>1. r = bi_sd_to_ram([b EXCEPT !.dat_in = in], n)
    BY DEF r
  <2> QED
    BY <1>2, <1>3, <1>4, <2>1, BlocksAreRead
<1>6. s.b = b /\ s.delays = ds /\ s.data = data /\ DOMAIN ds = 1 .. n
  OBVIOUS
<1>7. Len(ds) = n
  <2> DEFINE S == Delays \ {0}
  <2>1. Row(ds, n, S)
    BY <1>1 DEF Row
  <2> HIDE DEF S
  <2> QED
    BY <2>1, RowIsSeq
<1>8. ReadTrue(s) <=> Received(s, r)
  BY <1>6, <1>7 DEF ReadTrue
<1> HIDE DEF r
<1>9. Received(s, r)
  BY <1>5, <1>6 DEF Received, AllInTime
<1> QED
  BY <1>8, <1>9

-----------------------------------------------------------------------------
(***************************************************************************)
(* Blocks that are written.                                                *)
(***************************************************************************)
\* Concatenation is associative.
LEMMA ConcatInTurn ==
  ASSUME NEW S, NEW x \in Seq(S), NEW y \in Seq(S), NEW z \in Seq(S)
  PROVE  (x \o y) \o z = x \o (y \o z)
<1> DEFINE m == Len(x)
           n == Len(y)
           l == Len(z)
           u == (x \o y) \o z
           v == x \o (y \o z)
           xy == x \o y
           yz == y \o z
<1>1. Row(x, m, S) /\ Row(y, n, S) /\ Row(z, l, S)
  BY SeqIsFunction DEF Row
<1>2. m \in Nat /\ n \in Nat /\ l \in Nat
  BY <1>1 DEF Row
<1> HIDE DEF m, n, l
<1> DEFINE mn == m + n
           nl == n + l
           L == m + n + l
<1>3. mn = m + n /\ nl = n + l /\ L = mn + l /\ L = m + nl
  BY <1>2
<1>4. Row(xy, mn, S) /\ Follows(xy, m, x, n, y)
  BY <1>1, <1>3, BehindIs
<1>5. Row(yz, nl, S) /\ Follows(yz, n, y, l, z)
  BY <1>1, <1>3, BehindIs
<1> HIDE DEF xy, yz
<1>6. Row(u, L, S) /\ Follows(u, mn, xy, l, z)
  <2>1. u = xy \o z
    BY DEF xy
  <2> HIDE DEF u, mn, L
  <2> QED
    BY <1>1, <1>3, <1>4, <2>1, BehindIs
<1>7. Row(v, L, S) /\ Follows(v, m, x, nl, yz)
  <2>1. v = x \o yz
    BY DEF yz
  <2> HIDE DEF v, nl, L
  <2> QED
    BY <1>1, <1>3, <1>5, <2>1, BehindIs
<1> HIDE DEF u, v
<1>8. ASSUME NEW i \in 1 .. L
      PROVE  u[i] = v[i]
  <2>1. CASE i \in 1 .. m
    <3>1. i \in 1 .. mn
      BY <1>2, <2>1
    <3> QED
      BY <1>4, <1>6, <1>7, <2>1, <3>1 DEF Follows
  <2>2. CASE i \in m + 1 .. mn
    <3> DEFINE j == i - m
    <3>1. j \in 1 .. n /\ j \in 1 .. nl /\ m + j = i /\ i \in 1 .. mn
      BY <1>2, <2>2
    <3> HIDE DEF j, mn, nl
    <3>2. u[i] = xy[m + j] /\ xy[m + j] = y[j]
      BY <1>4, <1>6, <3>1 DEF Follows
    <3>3. v[m + j] = yz[j] /\ yz[j] = y[j]
      BY <1>5, <1>7, <3>1 DEF Follows
    <3> QED
      BY <3>1, <3>2, <3>3
  <2>3. CASE i \in mn + 1 .. L
    <3> DEFINE j == i - mn
               k == i - m
    <3>1. j \in 1 .. l /\ k \in 1 .. nl /\ mn + j = i /\ m + k = i /\ n + j = k
      BY <1>2, <2>3
    <3> HIDE DEF j, k, mn, nl
    <3>2. u[mn + j] = z[j]
      BY <1>6, <3>1 DEF Follows
    <3>3. v[m + k] = yz[k]
      BY <1>7, <3>1 DEF Follows
    <3>4. yz[n + j] = z[j]
      BY <1>5, <3>1 DEF Follows
    <3> QED
      BY <3>1, <3>2, <3>3, <3>4
  <2> QED
    BY <1>2, <2>1, <2>2, <2>3
<1>9. u \in Seq(S) /\ v \in Seq(S) /\ Len(u) = L /\ Len(v) = L
  BY <1>6, <1>7, RowIsSeq
<1> HIDE DEF L
<1>10. u = v
  BY <1>8, <1>9, SameSeq
<1> QED
  BY <1>10 DEF u, v

\* Append is concatenation with one element.
LEMMA AppendOne ==
  ASSUME NEW S, NEW x \in Seq(S), NEW e \in S, NEW y, Row(y, 1, S), y[1] = e
  PROVE  Append(x, e) = x \o y /\ x \o y \in Seq(S) /\ y \in Seq(S)
<1> DEFINE m == Len(x)
<1>1. Row(x, m, S) /\ m \in Nat
  BY SeqIsFunction DEF Row
<1> HIDE DEF m
<1>2. Append(x, e) = [i \in 1 .. m + 1 |-> IF i = m + 1 THEN e ELSE x[i]]
  BY <1>1, AppendIs
<1>3. x \o y = [i \in 1 .. m + 1 |-> IF i <= m THEN x[i] ELSE y[i - m]] /\ Row(x \o y, m + 1, S)
  BY <1>1, ConcatIs
<1>4. \A i \in 1 .. m + 1 : (IF i = m + 1 THEN e ELSE x[i]) = (IF i <= m THEN x[i] ELSE y[i - m])
  BY <1>1
<1> QED
  BY <1>2, <1>3, <1>4, RowIsSeq

\* What is sent over a line at a length.
LEMMA SentIs ==
  ASSUME NEW line \in Lines, NEW clocks \in Nat, NEW n, NEW vals, Row(vals, n, Nat),
         NEW z, z = Sent(line, clocks, vals)
  PROVE  /\ Row(z, n, Sends) /\ z \in Seq(Sends)
         /\ \A i \in 1 .. n : z[i] = [line |-> line, clocks |-> clocks, val |-> vals[i]]
<1>1. n \in Nat /\ DOMAIN vals = 1 .. n /\ \A i \in 1 .. n : vals[i] \in Nat
  BY DEF Row
<1>2. z = [i \in 1 .. n |-> [line |-> line, clocks |-> clocks, val |-> vals[i]]]
  BY <1>1 DEF Sent
<1>3. \A i \in 1 .. n : [line |-> line, clocks |-> clocks, val |-> vals[i]] \in Sends
  BY <1>1 DEF Sends
<1>4. Row(z, n, Sends)
  BY <1>1, <1>2, <1>3 DEF Row
<1> QED
  BY <1>2, <1>4, RowIsSeq

\* An access to the data lines clocks n times, and r is b with val gone out.
Clocks(b, n) == Steady(b) /\ b.reg.bits = n /\ n # 0

OneOut(r, b, n, val) ==
  Steady(r) /\ Still(r, b) /\ r.mode = "dat_wr" /\ r.sent = b.sent \o Sent("dat_wr", n, <<val>>)

\* bi_sd_dat_wr sends one value.
LEMMA OneWritten ==
  ASSUME NEW b, NEW n, Clocks(b, n), NEW val \in Nat, NEW r, r = bi_sd_dat_wr(b, val)
  PROVE  OneOut(r, b, n, val)
<1> USE DEF Clocks
<1> DEFINE e == [line |-> "dat_wr", clocks |-> n, val |-> val]
           y == Sent("dat_wr", n, <<val>>)
<1>1. b \in Bus /\ n \in Nat /\ b.sent \in Seq(Sends) /\ "dat_wr" \in Lines
  BY DEF Steady, Bus, Cfgs, Lines
<1>2. /\ r = [b EXCEPT !.mode = "dat_wr",
                       !.sent = Append(b.sent, [line |-> "dat_wr", clocks |-> b.reg.bits, val |-> val])]
      /\ Steady(r)
  <2>1. r = Clock(bi_sd_switch_mode(b, "dat_wr"), "dat_wr", val)
    BY DEF bi_sd_dat_wr
  <2>2. b.reg.bits # 0 /\ "dat_wr" \in {"cmd_wr", "dat_wr"}
    OBVIOUS
  <2> QED
    BY <2>1, <2>2, LineWritten
<1>3. r.mode = "dat_wr" /\ r.sent = Append(b.sent, e) /\ Still(r, b)
  BY <1>1, <1>2 DEF Bus, Still
<1>4. Row(y, 1, Sends) /\ y[1] = e /\ e \in Sends
  <2>1. Row(<<val>>, 1, Nat) /\ <<val>>[1] = val /\ 1 \in 1 .. 1
    BY DEF Row
  <2>2. Row(y, 1, Sends) /\ y[1] = [line |-> "dat_wr", clocks |-> n, val |-> <<val>>[1]]
    <3> DEFINE v == <<val>>
    <3>1. y = Sent("dat_wr", n, v) /\ Row(v, 1, Nat) /\ 1 \in 1 .. 1
      BY <2>1
    <3> HIDE DEF v, y
    <3>2. Row(y, 1, Sends) /\ \A i \in 1 .. 1 : y[i] = [line |-> "dat_wr", clocks |-> n, val |-> v[i]]
      BY <1>1, <3>1, SentIs
    <3> QED
      BY <3>1, <3>2 DEF v
  <2>3. y[1] = e
    BY <2>1, <2>2
  <2>4. e \in Sends
    BY <1>1 DEF Sends
  <2> QED
    BY <2>2, <2>3, <2>4
<1> HIDE DEF e, y
<1>5. Append(b.sent, e) = b.sent \o y
  BY <1>1, <1>4, AppendOne
<1> QED
  BY <1>2, <1>3, <1>5 DEF y, OneOut

\* The frame of a block has gone out, and the lines are read a clock each.
FrameDone(r, b) ==
  /\ Steady(r) /\ r.reg.bits = 1 /\ r.reg.fast = b.reg.fast /\ r.pwd = b.pwd /\ r.ret = b.ret
  /\ r.dat_in = b.dat_in /\ r.dat_at = b.dat_at
  /\ r.sent = b.sent \o BlockFrame

\* Two values that are sent one after the other.
LEMMA TwoSent ==
  ASSUME NEW n \in Nat
  PROVE  Sent("dat_wr", n, <<255>>) \o Sent("dat_wr", n, <<240>>) = Sent("dat_wr", n, <<255, 240>>)
<1> DEFINE x == Sent("dat_wr", n, <<255>>)
           y == Sent("dat_wr", n, <<240>>)
           z == Sent("dat_wr", n, <<255, 240>>)
           a == <<255>>
           c == <<240>>
           d == <<255, 240>>
           u == x \o y
<1>1. Row(a, 1, Nat) /\ Row(c, 1, Nat) /\ Row(d, 2, Nat) /\ a[1] = 255 /\ c[1] = 240 /\ d[1] = 255 /\ d[2] = 240
  BY DEF Row
<1>2. "dat_wr" \in Lines /\ 1 \in 1 .. 1 /\ 1 \in 1 .. 2 /\ 2 \in 1 .. 2 /\ 2 = 1 + 1
  BY DEF Lines
<1>10. x = Sent("dat_wr", n, a) /\ y = Sent("dat_wr", n, c) /\ z = Sent("dat_wr", n, d)
  OBVIOUS
<1> HIDE DEF a, c, d, x, y, z
<1>11. Row(x, 1, Sends) /\ \A i \in 1 .. 1 : x[i] = [line |-> "dat_wr", clocks |-> n, val |-> a[i]]
  <2>1. "dat_wr" \in Lines /\ n \in Nat /\ Row(a, 1, Nat) /\ x = Sent("dat_wr", n, a)
    BY <1>1, <1>2, <1>10
  <2> QED
    BY <2>1, SentIs
<1>12. Row(y, 1, Sends) /\ \A i \in 1 .. 1 : y[i] = [line |-> "dat_wr", clocks |-> n, val |-> c[i]]
  <2>1. "dat_wr" \in Lines /\ n \in Nat /\ Row(c, 1, Nat) /\ y = Sent("dat_wr", n, c)
    BY <1>1, <1>2, <1>10
  <2> QED
    BY <2>1, SentIs
<1>13. Row(z, 2, Sends) /\ \A i \in 1 .. 2 : z[i] = [line |-> "dat_wr", clocks |-> n, val |-> d[i]]
  <2>1. "dat_wr" \in Lines /\ n \in Nat /\ Row(d, 2, Nat) /\ z = Sent("dat_wr", n, d)
    BY <1>1, <1>2, <1>10
  <2> QED
    BY <2>1, SentIs
<1>3. Row(x, 1, Sends) /\ Row(y, 1, Sends) /\ Row(z, 2, Sends)
  BY <1>11, <1>12, <1>13
<1>4. /\ x[1] = [line |-> "dat_wr", clocks |-> n, val |-> a[1]]
      /\ y[1] = [line |-> "dat_wr", clocks |-> n, val |-> c[1]]
      /\ z[1] = [line |-> "dat_wr", clocks |-> n, val |-> d[1]]
      /\ z[2] = [line |-> "dat_wr", clocks |-> n, val |-> d[2]]
  BY <1>2, <1>11, <1>12, <1>13
<1>5. Row(u, 2, Sends) /\ Follows(u, 1, x, 1, y)
  <2> HIDE DEF u
  <2>1. u = x \o y
    BY DEF u
  <2> QED
    BY <1>2, <1>3, <2>1, BehindIs
<1> HIDE DEF u
<1>6. u[1] = x[1] /\ u[2] = y[1]
  <2>1. u[1 + 1] = y[1] /\ u[1] = x[1]
    BY <1>2, <1>5 DEF Follows
  <2> QED
    BY <2>1
<1>7. \A i \in 1 .. 2 : u[i] = z[i]
  <2>1. u[1] = z[1] /\ u[2] = z[2]
    BY <1>1, <1>4, <1>6
  <2>2. \A i \in 1 .. 2 : i = 1 \/ i = 2
    OBVIOUS
  <2> QED
    BY <2>1, <2>2
<1>8. u \in Seq(Sends) /\ z \in Seq(Sends) /\ Len(u) = 2 /\ Len(z) = 2
  BY <1>3, <1>5, RowIsSeq
<1>9. u = z
  BY <1>7, <1>8, SameSeq
<1> QED
  BY <1>9 DEF u, x, y, z

\* words_out sends the words of a block in turn.
LEMMA WordsOut ==
  ASSUME NEW b, Steady(b), b.mode = "dat_wr", b.reg.bits = 4, NEW r, r = words_out(b, Words)
  PROVE  Steady(r) /\ Still(r, b) /\ r.sent = b.sent \o Sent("dat_wr", 4, Words) /\ Sent("dat_wr", 4, Words) \in Seq(Sends)
<1> DEFINE y == Sent("dat_wr", 4, Words)
           u == b.sent \o y
<1>1. y = [i \in DOMAIN Words |-> [line |-> "dat_wr", clocks |-> 4, val |-> Words[i]]]
  BY DEF Sent
<1>2. r = [b EXCEPT !.sent = b.sent \o y]
  BY <1>1 DEF words_out
<1>3. Row(y, BlockWords, Sends) /\ y \in Seq(Sends)
  <2>1. Row(Words, BlockWords, Nat)
    BY BusAssumption DEF Words, Row
  <2>2. "dat_wr" \in Lines /\ 4 \in Nat /\ y = Sent("dat_wr", 4, Words)
    BY DEF Lines
  <2> HIDE DEF y
  <2> QED
    BY <2>1, <2>2, SentIs
<1>4. b.sent \in Seq(Sends)
  BY DEF Steady, Bus
<1> HIDE DEF y
<1>5. u \in Seq(Sends)
  BY <1>3, <1>4
<1> HIDE DEF u
<1>6. r = [b EXCEPT !.sent = u]
  BY <1>2 DEF u
<1>7. Steady(r) /\ Still(r, b) /\ r.sent = u
  BY <1>5, <1>6 DEF Steady, Bus, Still
<1> QED
  BY <1>3, <1>7 DEF u, y

\* frame_out sends the whole frame of a block.
LEMMA FrameOut ==
  ASSUME NEW b, Steady(b), NEW r, r = frame_out(b, Words)
  PROVE  FrameDone(r, b)
<1> DEFINE A == Sent("dat_wr", 2, <<255>>)
           B == Sent("dat_wr", 2, <<240>>)
           C == Sent("dat_wr", 2, <<255, 240>>)
           D == Sent("dat_wr", 4, Words)
           E == Sent("dat_wr", 1, <<255>>)
           b1 == bi_sd_bitlen(b, 2)
           b2 == bi_sd_dat_wr(b1, 255)
           b3 == bi_sd_dat_wr(b2, 240)
           b4 == bi_sd_bitlen(b3, 4)
           b5 == words_out(b4, Words)
           b6 == bi_sd_bitlen(b5, 1)
<1>1. r = bi_sd_dat_wr(b6, 255)
  BY DEF frame_out, start_out
<1>15. /\ b1 = bi_sd_bitlen(b, 2) /\ b2 = bi_sd_dat_wr(b1, 255) /\ b3 = bi_sd_dat_wr(b2, 240)
       /\ b4 = bi_sd_bitlen(b3, 4) /\ b5 = words_out(b4, Words) /\ b6 = bi_sd_bitlen(b5, 1)
  OBVIOUS
<1>16. /\ A = Sent("dat_wr", 2, <<255>>) /\ B = Sent("dat_wr", 2, <<240>>) /\ D = Sent("dat_wr", 4, Words)
       /\ E = Sent("dat_wr", 1, <<255>>)
  OBVIOUS
<1> HIDE DEF A, B, C, D, E, b1, b2, b3, b4, b5, b6
<1>2. /\ Steady(b1) /\ b1.reg.bits = 2 /\ b1.reg.fast = b.reg.fast
      /\ b1.pwd = b.pwd /\ b1.sent = b.sent /\ b1.ret = b.ret /\ b1.dat_in = b.dat_in /\ b1.dat_at = b.dat_at
  <2>1. Steady(b) /\ 2 \in Nat /\ b1 = bi_sd_bitlen(b, 2)
    BY <1>15
  <2> QED
    BY <2>1, LengthKept
<1>3. Steady(b2) /\ Still(b2, b1) /\ b2.mode = "dat_wr" /\ b2.sent = b1.sent \o A
  <2>1. Steady(b1) /\ b1.reg.bits = 2 /\ 2 # 0 /\ 255 \in Nat /\ b2 = bi_sd_dat_wr(b1, 255)
    BY <1>2, <1>15
  <2>3. Clocks(b1, 2) /\ 255 \in Nat /\ b2 = bi_sd_dat_wr(b1, 255)
    BY <2>1 DEF Clocks
  <2>4. OneOut(b2, b1, 2, 255)
    BY <2>3, OneWritten
  <2>2. Steady(b2) /\ Still(b2, b1) /\ b2.mode = "dat_wr" /\ b2.sent = b1.sent \o Sent("dat_wr", 2, <<255>>)
    BY <2>4 DEF OneOut
  <2> QED
    BY <1>16, <2>2
<1>4. Steady(b3) /\ Still(b3, b2) /\ b3.mode = "dat_wr" /\ b3.sent = b2.sent \o B
  <2>1. Steady(b2) /\ b2.reg.bits = 2 /\ 2 # 0 /\ 240 \in Nat /\ b3 = bi_sd_dat_wr(b2, 240)
    BY <1>2, <1>3, <1>15 DEF Still
  <2>3. Clocks(b2, 2) /\ 240 \in Nat /\ b3 = bi_sd_dat_wr(b2, 240)
    BY <2>1 DEF Clocks
  <2>4. OneOut(b3, b2, 2, 240)
    BY <2>3, OneWritten
  <2>2. Steady(b3) /\ Still(b3, b2) /\ b3.mode = "dat_wr" /\ b3.sent = b2.sent \o Sent("dat_wr", 2, <<240>>)
    BY <2>4 DEF OneOut
  <2> QED
    BY <1>16, <2>2
<1>5. /\ Steady(b4) /\ b4.reg.bits = 4 /\ b4.reg.fast = b3.reg.fast /\ b4.mode = b3.mode
      /\ b4.pwd = b3.pwd /\ b4.sent = b3.sent /\ b4.ret = b3.ret /\ b4.dat_in = b3.dat_in /\ b4.dat_at = b3.dat_at
  <2>1. Steady(b3) /\ 4 \in Nat /\ b4 = bi_sd_bitlen(b3, 4)
    BY <1>4, <1>15
  <2> QED
    BY <2>1, LengthKept
<1>6. Steady(b5) /\ Still(b5, b4) /\ b5.sent = b4.sent \o D /\ D \in Seq(Sends)
  <2>1. Steady(b4) /\ b4.mode = "dat_wr" /\ b4.reg.bits = 4 /\ b5 = words_out(b4, Words)
    BY <1>4, <1>5, <1>15
  <2>2. Steady(b5) /\ Still(b5, b4) /\ b5.sent = b4.sent \o Sent("dat_wr", 4, Words)
        /\ Sent("dat_wr", 4, Words) \in Seq(Sends)
    BY <2>1, WordsOut
  <2> QED
    BY <1>16, <2>2
<1>7. /\ Steady(b6) /\ b6.reg.bits = 1 /\ b6.reg.fast = b5.reg.fast
      /\ b6.pwd = b5.pwd /\ b6.sent = b5.sent /\ b6.ret = b5.ret /\ b6.dat_in = b5.dat_in /\ b6.dat_at = b5.dat_at
  <2>1. Steady(b5) /\ 1 \in Nat /\ b6 = bi_sd_bitlen(b5, 1)
    BY <1>6, <1>15
  <2> QED
    BY <2>1, LengthKept
<1>8. Steady(r) /\ Still(r, b6) /\ r.sent = b6.sent \o E
  <2>1. Steady(b6) /\ b6.reg.bits = 1 /\ 1 # 0 /\ 255 \in Nat /\ r = bi_sd_dat_wr(b6, 255)
    BY <1>1, <1>7
  <2>3. Clocks(b6, 1) /\ 255 \in Nat /\ r = bi_sd_dat_wr(b6, 255)
    BY <2>1 DEF Clocks
  <2>4. OneOut(r, b6, 1, 255)
    BY <2>3, OneWritten
  <2>2. Steady(r) /\ Still(r, b6) /\ r.sent = b6.sent \o Sent("dat_wr", 1, <<255>>)
    BY <2>4 DEF OneOut
  <2> QED
    BY <1>16, <2>2
<1>9. b.sent \in Seq(Sends)
  BY DEF Steady, Bus
<1>10. A \in Seq(Sends) /\ B \in Seq(Sends) /\ E \in Seq(Sends)
  <2> DEFINE v == <<255>>
             w == <<240>>
  <2>1. Row(v, 1, Nat) /\ Row(w, 1, Nat) /\ A = Sent("dat_wr", 2, v) /\ B = Sent("dat_wr", 2, w)
        /\ E = Sent("dat_wr", 1, v)
    BY DEF Row, A, B, E
  <2>2. "dat_wr" \in Lines /\ 1 \in Nat /\ 2 \in Nat
    BY DEF Lines
  <2> HIDE DEF v, w
  <2>3. A \in Seq(Sends)
    BY <2>1, <2>2, SentIs
  <2>4. B \in Seq(Sends)
    BY <2>1, <2>2, SentIs
  <2>5. E \in Seq(Sends)
    BY <2>1, <2>2, SentIs
  <2> QED
    BY <2>3, <2>4, <2>5
<1>11. A \o B = C /\ BlockFrame = C \o D \o E
  BY TwoSent DEF BlockFrame, A, B, C, D, E
<1>12. r.sent = (((b.sent \o A) \o B) \o D) \o E
  BY <1>2, <1>3, <1>4, <1>5, <1>6, <1>7, <1>8
<1> DEFINE s == b.sent
<1>13. (((s \o A) \o B) \o D) \o E = s \o BlockFrame
  <2> DEFINE S == Sends
  <2>1. s \in Seq(S) /\ A \in Seq(S) /\ B \in Seq(S) /\ D \in Seq(S) /\ E \in Seq(S)
    BY <1>6, <1>9, <1>10
  <2> HIDE DEF s, S
  <2>2. (s \o A) \o B = s \o C /\ C \in Seq(S)
    <3>1. (s \o A) \o B = s \o (A \o B)
      BY <2>1, ConcatInTurn
    <3>2. A \o B \in Seq(S)
      BY <2>1
    <3> QED
      BY <1>11, <3>1, <3>2
  <2>3. (s \o C) \o D = s \o (C \o D) /\ C \o D \in Seq(S)
    <3>1. C \o D \in Seq(S)
      BY <2>1, <2>2
    <3>2. (s \o C) \o D = s \o (C \o D)
      <4>1. C \in Seq(S) /\ s \in Seq(S) /\ D \in Seq(S)
        BY <2>1, <2>2
      <4> QED
        BY <4>1, ConcatInTurn
    <3> QED
      BY <3>1, <3>2
  <2>4. (s \o (C \o D)) \o E = s \o ((C \o D) \o E)
    <3> DEFINE z == C \o D
    <3>1. z \in Seq(S)
      BY <2>3
    <3> HIDE DEF z
    <3>2. (s \o z) \o E = s \o (z \o E)
      BY <2>1, <3>1, ConcatInTurn
    <3> QED
      BY <3>2 DEF z
  <2> QED
    BY <1>11, <2>2, <2>3, <2>4
<1>14. r.reg.bits = 1 /\ r.reg.fast = b.reg.fast /\ r.pwd = b.pwd /\ r.ret = b.ret
       /\ r.dat_in = b.dat_in /\ r.dat_at = b.dat_at
  BY <1>2, <1>3, <1>4, <1>5, <1>6, <1>7, <1>8 DEF Still
<1> QED
  BY <1>8, <1>12, <1>13, <1>14 DEF FrameDone

\* Behind place p the lines are high for a clock, low for busy, and high again.
BusyFor(in, p, busy) ==
  /\ p \in Nat /\ busy \in Nat
  /\ Element(in, p + 1, 15) = 15
  /\ \A i \in 1 .. busy : Element(in, p + (1 + i), 15) = 14
  /\ Element(in, p + (busy + 2), 15) = 15 /\ Element(in, p + (busy + 3), 15) = 15

\* The read at which the card is seen to be ready.
ReadyAt(busy) == IF busy = 0 THEN 2 ELSE busy + 3

\* r is b when the card is ready, or 4 has been returned.
ReadyDone(r, b, busy) ==
  /\ Steady(r) /\ r.reg = b.reg /\ r.pwd = b.pwd /\ r.sent = b.sent /\ r.dat_in = b.dat_in
  /\ IF ReadyAt(busy) <= BusyPolls + 1 THEN r.ret = b.ret /\ r.dat_at = b.dat_at + ReadyAt(busy) ELSE r.ret = 4

\* What is returned changes nothing else.
LEMMA RetIs ==
  ASSUME NEW b, Steady(b), NEW n \in Rets, NEW r, r = [b EXCEPT !.ret = n]
  PROVE  /\ Steady(r) /\ r.reg = b.reg /\ r.pwd = b.pwd /\ r.sent = b.sent /\ r.dat_in = b.dat_in
         /\ r.dat_at = b.dat_at /\ r.blocks = b.blocks /\ r.ret = n
BY DEF Steady, Bus

\* wait_ready waits for a card that is busy, as long as it may.
LEMMA ReadyAwaited ==
  ASSUME NEW b, Steady(b), b.reg.bits = 1, b.sr_dat[2] = 14, NEW busy, BusyFor(b.dat_in, b.dat_at, busy),
         NEW r, r = wait_ready(DatReads(b, BusyPolls + 1))
  PROVE  ReadyDone(r, b, busy)
<1> DEFINE N == BusyPolls + 1
           R == DatReads(b, N)
           ready == {i \in 1 .. N : R[i].sr_dat[1] = 15 /\ R[i].sr_dat[2] = 15}
           m == ReadyAt(busy)
           p == b.dat_at
           in == b.dat_in
<1>1. N \in Nat \ {0} /\ N = BusyPolls + 1 /\ p \in Nat /\ busy \in Nat
  BY BusAssumption DEF BusyFor
<1>2. r = IF ready = {} THEN [R[N] EXCEPT !.ret = 4] ELSE R[First(ready)]
  BY DEF wait_ready
<1>3. R[0] = b
  <2> HIDE DEF N
  <2> QED
    BY <1>1, DatReadsAre
<1>4. \A i \in 0 .. N :
        /\ Steady(R[i]) /\ Kept(R[i], b) /\ R[i].dat_at = p + i
        /\ i >= 1 => R[i].sr_dat[2] = Element(in, p + i, 15) /\ R[i].sr_dat[1] = R[i - 1].sr_dat[2]
  <2> HIDE DEF N
  <2> QED
    BY <1>1, DatReadsShow
<1> HIDE DEF R, N
<1>5. ASSUME NEW i \in 1 .. N
      PROVE  /\ R[i].sr_dat[2] = Element(in, p + i, 15) /\ R[i].sr_dat[1] = R[i - 1].sr_dat[2]
             /\ R[i - 1].sr_dat[2] = IF i = 1 THEN 14 ELSE Element(in, p + (i - 1), 15)
  <2>1. i \in 0 .. N /\ i - 1 \in 0 .. N /\ (i # 1 => i - 1 >= 1)
    BY <1>1
  <2>2. CASE i = 1
    BY <1>3, <1>4, <2>1, <2>2
  <2>3. CASE i # 1
    BY <1>4, <2>1, <2>3
  <2> QED
    BY <2>2, <2>3
<1>6. /\ Element(in, p + 1, 15) = 15
      /\ \A i \in 1 .. busy : Element(in, p + (1 + i), 15) = 14
      /\ Element(in, p + (busy + 2), 15) = 15 /\ Element(in, p + (busy + 3), 15) = 15
  BY DEF BusyFor
<1> HIDE DEF p, in
<1>7. m \in Nat /\ m >= 2 /\ m = IF busy = 0 THEN 2 ELSE busy + 3
  BY <1>1 DEF ReadyAt
<1> HIDE DEF m
<1>8. ASSUME NEW i \in 1 .. N, i < m, R[i].sr_dat[1] = 15, R[i].sr_dat[2] = 15
      PROVE  FALSE
  <2>1. CASE i = 1
    BY <1>5, <1>8, <2>1
  <2>2. CASE i # 1 /\ i <= busy + 1
    <3>1. i - 1 \in 1 .. busy /\ 1 + (i - 1) = i
      BY <1>1, <2>2
    <3>2. Element(in, p + i, 15) = 14
      BY <1>6, <3>1
    <3> QED
      BY <1>5, <1>8, <3>2
  <2>3. CASE i # 1 /\ ~(i <= busy + 1)
    <3>1. i = busy + 2 /\ busy # 0
      BY <1>1, <1>7, <1>8, <2>3
    <3>2. busy \in 1 .. busy /\ 1 + busy = i - 1
      BY <1>1, <3>1
    <3>3. Element(in, p + (i - 1), 15) = 14
      BY <1>6, <3>2
    <3> QED
      BY <1>5, <1>8, <2>3, <3>3
  <2> QED
    BY <2>1, <2>2, <2>3
<1>9. \A i \in ready : m <= i
  <2> SUFFICES ASSUME NEW i \in ready, ~(m <= i)
               PROVE  FALSE
    OBVIOUS
  <2>1. i \in 1 .. N /\ i < m
    BY <1>1, <1>7
  <2> QED
    BY <1>8, <2>1
<1>10. CASE m <= N
  <2>1. m \in 1 .. N /\ m # 1
    BY <1>1, <1>7, <1>10
  <2>2. Element(in, p + m, 15) = 15 /\ Element(in, p + (m - 1), 15) = 15
    <3>1. CASE busy = 0
      <4>1. m = busy + 2 /\ m - 1 = 1
        BY <1>7, <3>1
      <4> QED
        BY <1>6, <4>1
    <3>2. CASE busy # 0
      <4>1. m = busy + 3 /\ m - 1 = busy + 2
        BY <1>1, <1>7, <3>2
      <4> QED
        BY <1>6, <4>1
    <3> QED
      BY <3>1, <3>2
  <2>3. m \in ready
    BY <1>5, <2>1, <2>2
  <2>4. ready \in SUBSET Nat
    BY <1>1
  <2>5. First(ready) = m /\ ready # {}
    <3> HIDE DEF ready
    <3> QED
      BY <1>9, <2>3, <2>4, FirstPoll
  <2>6. r = R[m]
    <3> HIDE DEF ready
    <3> QED
      BY <1>2, <2>5
  <2>7. Steady(R[m]) /\ Kept(R[m], b) /\ R[m].dat_at = p + m
    BY <1>4, <2>1
  <2>8. /\ Steady(r) /\ r.reg = b.reg /\ r.pwd = b.pwd /\ r.sent = b.sent /\ r.dat_in = b.dat_in
        /\ r.ret = b.ret /\ r.dat_at = p + m
    BY <2>6, <2>7 DEF Kept
  <2> QED
    BY <1>10, <2>8 DEF ReadyDone, m, p, N
<1>11. CASE ~(m <= N)
  <2>1. ready = {}
    BY <1>1, <1>7, <1>9, <1>11
  <2> DEFINE t == R[N]
  <2>2. r = [t EXCEPT !.ret = 4]
    <3> HIDE DEF ready
    <3> QED
      BY <1>2, <2>1
  <2>3. Steady(t) /\ Kept(t, b)
    BY <1>1, <1>4
  <2> HIDE DEF t
  <2>4. Steady(r) /\ r.reg = t.reg /\ r.pwd = t.pwd /\ r.sent = t.sent /\ r.dat_in = t.dat_in /\ r.ret = 4
    <3>1. 4 \in Rets
      BY DEF Rets
    <3> QED
      BY <2>2, <2>3, <3>1, RetIs
  <2>5. ~(ReadyAt(busy) <= BusyPolls + 1)
    BY <1>11 DEF m, N
  <2> QED
    BY <2>3, <2>4, <2>5 DEF ReadyDone, Kept
<1> QED
  BY <1>10, <1>11

\* What the data lines show for a bit of the status.
LineOf(bit) == IF bit = 1 THEN 15 ELSE 14
Statuses == {0, 2, 5, 7}

\* Behind place p lie q clocks of rest, the start and the status of a block,
\* and the card is busy then.
Replies(in, p, q, status, busy) ==
  /\ p \in Nat /\ q \in Nat /\ status \in Statuses
  /\ \A i \in 1 .. q : Element(in, p + i, 15) = 15
  /\ Element(in, p + (q + 1), 15) = 14
  /\ Element(in, p + (q + 2), 15) = LineOf(status \div 4)
  /\ Element(in, p + (q + 3), 15) = LineOf((status \div 2) % 2)
  /\ Element(in, p + (q + 4), 15) = LineOf(status % 2)
  /\ BusyFor(in, p + (q + 4), busy)

\* r is b with a block and its status behind it.
BlockResult(q, status, busy) ==
  IF q > StatusPolls THEN 1
  ELSE IF status = 5 THEN 2
  ELSE IF status # 2 THEN 3
  ELSE IF ReadyAt(busy) > BusyPolls + 1 THEN 4 ELSE 0

StatusDone(r, b, q, status, busy) ==
  /\ Steady(r) /\ r.reg.fast = b.reg.fast /\ r.pwd = b.pwd /\ r.sent = b.sent /\ r.dat_in = b.dat_in
  /\ r.ret = BlockResult(q, status, busy)
  /\ r.ret = 0 => r.dat_at = b.dat_at + (q + 4) + ReadyAt(busy)

\* read_status tells the statuses of the card apart.
LEMMA StatusRead ==
  ASSUME NEW b, Steady(b), b.reg.bits = 1, b.ret = 0, NEW status \in Statuses, NEW p \in Nat, b.dat_at = p,
         Element(b.dat_in, p + 1, 15) = LineOf(status \div 4),
         Element(b.dat_in, p + 2, 15) = LineOf((status \div 2) % 2),
         Element(b.dat_in, p + 3, 15) = LineOf(status % 2), NEW busy, BusyFor(b.dat_in, p + 3, busy),
         NEW r, r = read_status(DatReads(b, 3))
  PROVE  /\ Steady(r) /\ r.reg.fast = b.reg.fast /\ r.pwd = b.pwd /\ r.sent = b.sent /\ r.dat_in = b.dat_in
         /\ r.ret = BlockResult(0, status, busy)
         /\ r.ret = 0 => r.dat_at = p + 3 + ReadyAt(busy)
<1> DEFINE R == DatReads(b, 3)
           t == R[3]
<1>1. \A i \in 0 .. 3 :
        /\ Steady(R[i]) /\ Kept(R[i], b) /\ R[i].dat_at = p + i
        /\ i >= 1 => R[i].sr_dat[2] = Element(b.dat_in, p + i, 15)
  <2>1. 3 \in Nat
    OBVIOUS
  <2> QED
    BY <2>1, DatReadsShow
<1>2. r = IF status_of(R) = 2 THEN wait_ready(DatReads(t, BusyPolls + 1))
          ELSE [t EXCEPT !.ret = IF status_of(R) = 5 THEN 2 ELSE 3]
  BY DEF read_status
<1> HIDE DEF R
<1>3. /\ R[1].sr_dat[2] = LineOf(status \div 4) /\ R[2].sr_dat[2] = LineOf((status \div 2) % 2)
      /\ R[3].sr_dat[2] = LineOf(status % 2)
  <2>1. 1 \in 0 .. 3 /\ 2 \in 0 .. 3 /\ 3 \in 0 .. 3 /\ 1 >= 1 /\ 2 >= 1 /\ 3 >= 1
    OBVIOUS
  <2> QED
    BY <1>1, <2>1
<1>4. status_of(R) = status
  <2>1. status_of(R) = 4 * (LineOf(status \div 4) % 2) + 2 * (LineOf((status \div 2) % 2) % 2)
                       + (LineOf(status % 2) % 2)
    BY <1>3 DEF status_of
  <2>2. CASE status = 0
    <3>1. 0 \div 4 = 0 /\ (0 \div 2) % 2 = 0 /\ 0 % 2 = 0 /\ LineOf(0) = 14 /\ 14 % 2 = 0
      BY DEF LineOf
    <3> QED
      BY <2>1, <2>2, <3>1
  <2>3. CASE status = 2
    <3>1. 2 \div 4 = 0 /\ (2 \div 2) % 2 = 1 /\ 2 % 2 = 0 /\ LineOf(0) = 14 /\ LineOf(1) = 15 /\ 14 % 2 = 0 /\ 15 % 2 = 1
      BY DEF LineOf
    <3> QED
      BY <2>1, <2>3, <3>1
  <2>4. CASE status = 5
    <3>1. 5 \div 4 = 1 /\ (5 \div 2) % 2 = 0 /\ 5 % 2 = 1 /\ LineOf(0) = 14 /\ LineOf(1) = 15 /\ 14 % 2 = 0 /\ 15 % 2 = 1
      BY DEF LineOf
    <3> QED
      BY <2>1, <2>4, <3>1
  <2>5. CASE status = 7
    <3>1. 7 \div 4 = 1 /\ (7 \div 2) % 2 = 1 /\ 7 % 2 = 1 /\ LineOf(1) = 15 /\ 15 % 2 = 1
      BY DEF LineOf
    <3> QED
      BY <2>1, <2>5, <3>1
  <2> QED
    BY <2>2, <2>3, <2>4, <2>5 DEF Statuses
<1>5. Steady(t) /\ Kept(t, b) /\ t.dat_at = p + 3 /\ t.sr_dat[2] = LineOf(status % 2)
  <2>1. 3 \in 0 .. 3
    OBVIOUS
  <2> QED
    BY <1>1, <1>3, <2>1
<1>6. t.reg = b.reg /\ t.pwd = b.pwd /\ t.sent = b.sent /\ t.dat_in = b.dat_in /\ t.ret = 0
  BY <1>5 DEF Kept
<1> HIDE DEF t
<1>7. StatusPolls \in Nat /\ StatusPolls # 0 /\ ~(0 > StatusPolls)
  BY BusAssumption
<1>8. CASE status = 2
  <2> DEFINE M == BusyPolls + 1
  <2>1. r = wait_ready(DatReads(t, BusyPolls + 1))
    BY <1>2, <1>4, <1>8
  <2>2. t.sr_dat[2] = 14
    <3>1. 2 % 2 = 0 /\ LineOf(0) = 14
      BY DEF LineOf
    <3> QED
      BY <1>5, <1>8, <3>1
  <2>3. BusyFor(t.dat_in, t.dat_at, busy)
    BY <1>5, <1>6
  <2>4. ReadyDone(r, t, busy)
    BY <1>5, <1>6, <2>1, <2>2, <2>3, ReadyAwaited
  <2>5. ReadyAt(busy) > BusyPolls + 1 <=> ~(ReadyAt(busy) <= BusyPolls + 1)
    <3>1. ReadyAt(busy) \in Nat /\ BusyPolls + 1 \in Nat
      BY BusAssumption DEF BusyFor, ReadyAt
    <3> DEFINE a == ReadyAt(busy)
               c == BusyPolls + 1
    <3> HIDE DEF a, c
    <3>2. a > c <=> ~(a <= c)
      BY <3>1 DEF a, c
    <3> QED
      BY <3>2 DEF a, c
  <2>6. r.ret = BlockResult(0, status, busy)
    BY <1>6, <1>7, <1>8, <2>4, <2>5 DEF ReadyDone, BlockResult
  <2>7. r.ret = 0 => r.dat_at = p + 3 + ReadyAt(busy)
    BY <1>5, <2>4 DEF ReadyDone
  <2> QED
    BY <1>6, <2>4, <2>6, <2>7 DEF ReadyDone
<1>9. CASE status # 2
  <2> DEFINE n == IF status = 5 THEN 2 ELSE 3
  <2>1. r = [t EXCEPT !.ret = n] /\ n \in Rets
    BY <1>2, <1>4, <1>9 DEF Rets
  <2>2. n = BlockResult(0, status, busy) /\ n # 0
    BY <1>7, <1>9 DEF BlockResult
  <2> HIDE DEF n
  <2>3. Steady(r) /\ r.reg = t.reg /\ r.pwd = t.pwd /\ r.sent = t.sent /\ r.dat_in = t.dat_in /\ r.ret = n
    BY <1>5, <2>1, RetIs
  <2> QED
    BY <1>6, <2>2, <2>3
<1> QED
  BY <1>8, <1>9

\* wait_status finds the status of a block, after any delay that is in time.
LEMMA StatusAwaited ==
  ASSUME NEW b, Steady(b), b.reg.bits = 1, b.ret = 0, NEW q, NEW status, NEW busy,
         Replies(b.dat_in, b.dat_at, q, status, busy), NEW r, r = wait_status(DatReads(b, StatusPolls + 1))
  PROVE  StatusDone(r, b, q, status, busy)
<1> DEFINE N == StatusPolls + 1
           R == DatReads(b, N)
           begun == {i \in 1 .. N : R[i].sr_dat[2] % 2 = 0}
           m == q + 1
           p == b.dat_at
           in == b.dat_in
<1>1. N \in Nat \ {0} /\ N = StatusPolls + 1 /\ p \in Nat /\ q \in Nat /\ StatusPolls \in Nat
  <2>1. p \in Nat /\ q \in Nat
    BY DEF Replies
  <2>2. StatusPolls \in Nat
    BY BusAssumption
  <2> HIDE DEF p
  <2> QED
    BY <2>1, <2>2
<1>2. r = IF begun = {} THEN [R[N] EXCEPT !.ret = 1] ELSE read_status(DatReads(R[First(begun)], 3))
  BY DEF wait_status
<1>3. \A i \in 0 .. N :
        /\ Steady(R[i]) /\ Kept(R[i], b) /\ R[i].dat_at = p + i
        /\ i >= 1 => R[i].sr_dat[2] = Element(in, p + i, 15)
  <2> HIDE DEF N
  <2> QED
    BY <1>1, DatReadsShow
<1> HIDE DEF R, N
<1>4. /\ \A i \in 1 .. q : Element(in, p + i, 15) = 15
      /\ Element(in, p + m, 15) = 14
      /\ Element(in, p + (q + 2), 15) = LineOf(status \div 4)
      /\ Element(in, p + (q + 3), 15) = LineOf((status \div 2) % 2)
      /\ Element(in, p + (q + 4), 15) = LineOf(status % 2)
      /\ BusyFor(in, p + (q + 4), busy) /\ status \in Statuses
  BY DEF Replies
<1> HIDE DEF p, in
<1>5. \A i \in 1 .. N : R[i].sr_dat[2] = Element(in, p + i, 15)
  BY <1>1, <1>3
<1>6. \A i \in begun : m <= i
  <2> SUFFICES ASSUME NEW i \in 1 .. N, R[i].sr_dat[2] % 2 = 0, ~(m <= i)
               PROVE  FALSE
    OBVIOUS
  <2>1. i \in 1 .. q
    BY <1>1
  <2>2. R[i].sr_dat[2] = 15 /\ 15 % 2 = 1
    BY <1>4, <1>5, <2>1
  <2> QED
    BY <2>2
<1>7. m \in Nat /\ m >= 1 /\ (m <= N <=> ~(q > StatusPolls))
  BY <1>1
<1> DEFINE t == R[m]
<1>8. CASE m <= N
  <2>1. m \in 1 .. N /\ m \in 0 .. N
    BY <1>1, <1>7, <1>8
  <2>2. m \in begun
    <3>1. R[m].sr_dat[2] = 14 /\ 14 % 2 = 0
      BY <1>4, <1>5, <2>1
    <3> QED
      BY <2>1, <3>1
  <2>3. begun \in SUBSET Nat
    BY <1>1
  <2>4. First(begun) = m /\ begun # {}
    <3> HIDE DEF begun, m
    <3> QED
      BY <1>6, <2>2, <2>3, FirstPoll
  <2>5. r = read_status(DatReads(t, 3))
    <3> HIDE DEF begun
    <3> QED
      BY <1>2, <2>4
  <2>6. Steady(t) /\ Kept(t, b) /\ t.dat_at = p + m
    BY <1>3, <2>1
  <2> HIDE DEF t
  <2> DEFINE P == p + m
  <2>7. P \in Nat /\ P + 1 = p + (q + 2) /\ P + 2 = p + (q + 3) /\ P + 3 = p + (q + 4)
    BY <1>1
  <2>8. /\ t.reg = b.reg /\ t.pwd = b.pwd /\ t.sent = b.sent /\ t.dat_in = in /\ t.ret = 0
        /\ t.reg.bits = 1 /\ t.dat_at = P
    BY <2>6 DEF Kept, in
  <2>9. /\ Element(t.dat_in, P + 1, 15) = LineOf(status \div 4)
        /\ Element(t.dat_in, P + 2, 15) = LineOf((status \div 2) % 2)
        /\ Element(t.dat_in, P + 3, 15) = LineOf(status % 2)
        /\ BusyFor(t.dat_in, P + 3, busy) /\ status \in Statuses
    BY <1>4, <2>7, <2>8
  <2> HIDE DEF P, m
  <2>10. /\ Steady(r) /\ r.reg.fast = t.reg.fast /\ r.pwd = t.pwd /\ r.sent = t.sent /\ r.dat_in = t.dat_in
         /\ r.ret = BlockResult(0, status, busy)
         /\ r.ret = 0 => r.dat_at = P + 3 + ReadyAt(busy)
    BY <2>5, <2>6, <2>7, <2>8, <2>9, StatusRead
  <2>11. BlockResult(0, status, busy) = BlockResult(q, status, busy)
    BY <1>1, <1>7, <1>8 DEF BlockResult
  <2>12. P + 3 = p + (q + 4)
    BY <2>7
  <2> QED
    BY <2>8, <2>10, <2>11, <2>12 DEF StatusDone, p, in
<1>9. CASE ~(m <= N)
  <2>1. begun = {}
    BY <1>1, <1>6, <1>7, <1>9
  <2> DEFINE x == R[N]
  <2>2. r = [x EXCEPT !.ret = 1]
    <3> HIDE DEF begun
    <3> QED
      BY <1>2, <2>1
  <2>3. Steady(x) /\ Kept(x, b)
    BY <1>1, <1>3
  <2> HIDE DEF x
  <2>4. Steady(r) /\ r.reg = x.reg /\ r.pwd = x.pwd /\ r.sent = x.sent /\ r.dat_in = x.dat_in /\ r.ret = 1
    <3>1. 1 \in Rets
      BY DEF Rets
    <3> QED
      BY <2>2, <2>3, <3>1, RetIs
  <2>5. BlockResult(q, status, busy) = 1
    BY <1>7, <1>9 DEF BlockResult
  <2> QED
    BY <2>3, <2>4, <2>5 DEF StatusDone, Kept
<1> QED
  BY <1>8, <1>9

\* A block out and its status in.
BlockWritten(r, b, q, status, busy) ==
  /\ Steady(r) /\ r.reg.fast = b.reg.fast /\ r.pwd = b.pwd /\ r.dat_in = b.dat_in
  /\ r.sent = b.sent \o BlockFrame
  /\ r.ret = BlockResult(q, status, busy)
  /\ r.ret = 0 => r.dat_at = b.dat_at + (q + 4) + ReadyAt(busy)

\* block_out sends a block and returns what the card has made of it.
LEMMA BlockOut ==
  ASSUME NEW b, Steady(b), b.ret = 0, NEW q, NEW status, NEW busy,
         Replies(b.dat_in, b.dat_at, q, status, busy), NEW r, r = block_out(b, Words)
  PROVE  BlockWritten(r, b, q, status, busy)
<1> DEFINE f == frame_out(b, Words)
<1>1. r = wait_status(DatReads(f, StatusPolls + 1))
  BY DEF block_out
<1>2. FrameDone(f, b)
  <2> HIDE DEF f
  <2>1. f = frame_out(b, Words)
    BY DEF f
  <2> QED
    BY <2>1, FrameOut
<1> HIDE DEF f
<1>3. /\ Steady(f) /\ f.reg.bits = 1 /\ f.ret = 0 /\ Replies(f.dat_in, f.dat_at, q, status, busy)
      /\ f.reg.fast = b.reg.fast /\ f.pwd = b.pwd /\ f.dat_in = b.dat_in /\ f.dat_at = b.dat_at
      /\ f.sent = b.sent \o BlockFrame
  BY <1>2 DEF FrameDone
<1>4. StatusDone(r, f, q, status, busy)
  BY <1>1, <1>3, StatusAwaited
<1> QED
  BY <1>3, <1>4 DEF StatusDone, BlockWritten

\* What the card sends for a block.
ReplyOf(z, d, status, busy) ==
  /\ Row(z, d + busy + 7, Nibble)
  /\ \A i \in 1 .. d : z[i] = 15
  /\ z[d + 1] = 14 /\ z[d + 2] = LineOf(status \div 4) /\ z[d + 3] = LineOf((status \div 2) % 2)
  /\ z[d + 4] = LineOf(status % 2) /\ z[d + 5] = 15
  /\ \A i \in 1 .. busy : z[d + 5 + i] = 14
  /\ z[d + busy + 6] = 15 /\ z[d + busy + 7] = 15

\* A reply: idle clocks, a start, three bits of status, an end, and the busy
\* clocks.
LEMMA ReplyParts ==
  ASSUME NEW d \in Nat, NEW busy \in Nat, NEW status, NEW s, s.delay = d, s.status = status, s.busy = busy,
         NEW z, z = Reply(s)
  PROVE  ReplyOf(z, d, status, busy)
<1> DEFINE rest == Ones(d, 15)
           bits == <<14, LineOf(status \div 4), LineOf((status \div 2) % 2), LineOf(status % 2), 15>>
           low == Ones(busy, 14)
           end == <<15, 15>>
           u == rest \o bits
           v == u \o low
           D == d + 5
           E == d + 5 + busy
           L == d + busy + 7
           S == Nibble
<1>1. z = v \o end
  BY DEF Reply, LineOf
<1>2. /\ Row(rest, d, S) /\ Row(bits, 5, S) /\ Row(low, busy, S) /\ Row(end, 2, S)
      /\ end[1] = 15 /\ end[2] = 15
      /\ bits[1] = 14 /\ bits[2] = LineOf(status \div 4) /\ bits[3] = LineOf((status \div 2) % 2)
      /\ bits[4] = LineOf(status % 2) /\ bits[5] = 15
  <2>1. \A bit : LineOf(bit) \in S /\ 14 \in S /\ 15 \in S
    BY DEF LineOf, Nibble
  <2> DEFINE a == LineOf(status \div 4)
             b == LineOf((status \div 2) % 2)
             c == LineOf(status % 2)
  <2>2. a \in S /\ b \in S /\ c \in S
    BY <2>1
  <2> HIDE DEF a, b, c, S
  <2>3. Row(bits, 5, S)
    <3> DEFINE w == <<14, a, b, c, 15>>
    <3>1. w \in [1 .. 5 -> S]
      BY <2>1, <2>2
    <3>2. w = bits
      BY DEF a, b, c
    <3> HIDE DEF w, bits
    <3> QED
      BY <3>1, <3>2 DEF Row
  <2>4. Row(end, 2, S)
    BY <2>1 DEF Row
  <2>5. Row(rest, d, S) /\ Row(low, busy, S)
    BY <2>1 DEF Row, Ones
  <2> QED
    BY <2>3, <2>4, <2>5
<1>3. (\A i \in 1 .. d : rest[i] = 15) /\ (\A i \in 1 .. busy : low[i] = 14)
  BY DEF Ones
<1>4. D = d + 5 /\ E = D + busy /\ L = E + 2
  OBVIOUS
<1> HIDE DEF rest, bits, low, end, S
<1>5. Row(u, D, S) /\ Follows(u, d, rest, 5, bits)
  <2>1. u = rest \o bits
    OBVIOUS
  <2> HIDE DEF D, u
  <2> QED
    BY <1>2, <1>4, <2>1, BehindIs
<1> HIDE DEF u
<1>6. Row(v, E, S) /\ Follows(v, D, u, busy, low)
  <2>1. v = u \o low
    OBVIOUS
  <2> HIDE DEF D, E, v
  <2> QED
    BY <1>2, <1>4, <1>5, <2>1, BehindIs
<1> HIDE DEF v
<1>7. Row(z, L, S) /\ Follows(z, E, v, 2, end)
  <2> HIDE DEF L, E
  <2> QED
    BY <1>1, <1>2, <1>4, <1>6, BehindIs
<1>8. ASSUME NEW i \in 1 .. D
      PROVE  z[i] = u[i]
  <2>1. i \in 1 .. E
    OBVIOUS
  <2> QED
    BY <1>6, <1>7, <2>1 DEF Follows
<1>9. ASSUME NEW i \in 1 .. d
      PROVE  z[i] = 15
  <2>1. i \in 1 .. D
    OBVIOUS
  <2> QED
    BY <1>3, <1>5, <1>8, <2>1 DEF Follows
<1>10. ASSUME NEW i \in 1 .. 5
       PROVE  z[d + i] = bits[i]
  <2>1. d + i \in 1 .. D
    OBVIOUS
  <2> QED
    BY <1>5, <1>8, <2>1 DEF Follows
<1>11. ASSUME NEW i \in 1 .. busy
       PROVE  z[d + 5 + i] = 14
  <2>1. D + i \in 1 .. E
    OBVIOUS
  <2>2. z[D + i] = v[D + i] /\ v[D + i] = low[i]
    BY <1>6, <1>7, <2>1 DEF Follows
  <2> QED
    BY <1>3, <2>2
<1>12. z[d + busy + 6] = 15 /\ z[d + busy + 7] = 15
  <2>1. E + 1 = d + busy + 6 /\ E + 2 = d + busy + 7 /\ 1 \in 1 .. 2 /\ 2 \in 1 .. 2
    OBVIOUS
  <2> HIDE DEF E
  <2>2. z[E + 1] = end[1] /\ z[E + 2] = end[2]
    BY <1>7, <2>1 DEF Follows
  <2> QED
    BY <1>2, <2>1, <2>2
<1>13. z[d + 1] = 14 /\ z[d + 2] = LineOf(status \div 4) /\ z[d + 3] = LineOf((status \div 2) % 2)
       /\ z[d + 4] = LineOf(status % 2) /\ z[d + 5] = 15
  <2>1. 1 \in 1 .. 5 /\ 2 \in 1 .. 5 /\ 3 \in 1 .. 5 /\ 4 \in 1 .. 5 /\ 5 \in 1 .. 5
    OBVIOUS
  <2> QED
    BY <1>2, <1>10, <2>1
<1> QED
  BY <1>7, <1>9, <1>11, <1>12, <1>13 DEF ReplyOf, S

\* The clocks before the status of block k: the last of the reply before it is
\* still to come when the card was not busy.
Waits(d, busy, k) == IF k = 1 \/ busy # 0 THEN d ELSE d + 1

\* Behind block k the loop is at place at[k].
Posts(in, at, n, d, status, busy) ==
  /\ at \in [0 .. n -> Nat] /\ at[0] = 0
  /\ \A k \in 1 .. n : /\ Replies(in, at[k - 1], Waits(d, busy, k), status, busy)
                       /\ at[k] = at[k - 1] + (Waits(d, busy, k) + 4) + ReadyAt(busy)
  /\ \A p \in DOMAIN in : p > at[n] => in[p] # 14

\* The reply behind place o.
ReplyAt(in, o, d, status, busy) ==
  /\ \A j \in 1 .. d : Element(in, o + j, 15) = 15
  /\ Element(in, o + (d + 1), 15) = 14
  /\ Element(in, o + (d + 2), 15) = LineOf(status \div 4)
  /\ Element(in, o + (d + 3), 15) = LineOf((status \div 2) % 2)
  /\ Element(in, o + (d + 4), 15) = LineOf(status % 2)
  /\ BusyFor(in, o + (d + 4), busy)

\* The L elements of z lie behind place o.
LiesAt(in, o, L, z) == \A j \in 1 .. L : Element(in, o + j, 15) = z[j]

\* A reply keeps its shape wherever it lies on the lines.
LEMMA ReplyLies ==
  ASSUME NEW z, NEW d \in Nat, NEW busy \in Nat, NEW status, ReplyOf(z, d, status, busy), NEW o \in Nat, NEW in,
         NEW L, L = d + busy + 7, LiesAt(in, o, L, z)
  PROVE  ReplyAt(in, o, d, status, busy)
<1> USE DEF LiesAt
<1>1. /\ \A i \in 1 .. d : z[i] = 15
      /\ z[d + 1] = 14 /\ z[d + 2] = LineOf(status \div 4) /\ z[d + 3] = LineOf((status \div 2) % 2)
      /\ z[d + 4] = LineOf(status % 2) /\ z[d + 5] = 15
      /\ \A i \in 1 .. busy : z[d + 5 + i] = 14
      /\ z[d + busy + 6] = 15 /\ z[d + busy + 7] = 15
  BY DEF ReplyOf
<1>2. /\ d + 1 \in 1 .. L /\ d + 2 \in 1 .. L /\ d + 3 \in 1 .. L /\ d + 4 \in 1 .. L /\ d + 5 \in 1 .. L
      /\ d + busy + 6 \in 1 .. L /\ d + busy + 7 \in 1 .. L
      /\ (\A i \in 1 .. d : i \in 1 .. L) /\ \A i \in 1 .. busy : d + 5 + i \in 1 .. L
  OBVIOUS
<1>3. /\ \A j \in 1 .. d : Element(in, o + j, 15) = 15
      /\ Element(in, o + (d + 1), 15) = 14
      /\ Element(in, o + (d + 2), 15) = LineOf(status \div 4)
      /\ Element(in, o + (d + 3), 15) = LineOf((status \div 2) % 2)
      /\ Element(in, o + (d + 4), 15) = LineOf(status % 2)
  BY <1>1, <1>2
<1> DEFINE p == o + (d + 4)
<1>4. p \in Nat /\ p + 1 = o + (d + 5) /\ p + (busy + 2) = o + (d + busy + 6) /\ p + (busy + 3) = o + (d + busy + 7)
      /\ \A i \in 1 .. busy : p + (1 + i) = o + (d + 5 + i)
  OBVIOUS
<1> HIDE DEF p
<1>5. Element(in, p + 1, 15) = 15 /\ Element(in, p + (busy + 2), 15) = 15 /\ Element(in, p + (busy + 3), 15) = 15
  BY <1>1, <1>2, <1>4
<1>6. \A i \in 1 .. busy : Element(in, p + (1 + i), 15) = 14
  BY <1>1, <1>2, <1>4
<1>7. BusyFor(in, p, busy)
  BY <1>4, <1>5, <1>6 DEF BusyFor
<1> QED
  BY <1>3, <1>7 DEF ReplyAt, p

\* With the clock before it, when that is high.
LEMMA ReplyComes ==
  ASSUME NEW d \in Nat, NEW busy \in Nat, NEW status \in Statuses, NEW o \in Nat, NEW in,
         ReplyAt(in, o, d, status, busy), NEW p \in Nat, NEW q \in Nat,
         \/ p = o /\ q = d
         \/ o = p + 1 /\ q = d + 1 /\ Element(in, o, 15) = 15
  PROVE  Replies(in, p, q, status, busy)
<1>1. /\ \A j \in 1 .. d : Element(in, o + j, 15) = 15
      /\ Element(in, o + (d + 1), 15) = 14
      /\ Element(in, o + (d + 2), 15) = LineOf(status \div 4)
      /\ Element(in, o + (d + 3), 15) = LineOf((status \div 2) % 2)
      /\ Element(in, o + (d + 4), 15) = LineOf(status % 2)
      /\ BusyFor(in, o + (d + 4), busy)
  BY DEF ReplyAt
<1>2. /\ p + (q + 1) = o + (d + 1) /\ p + (q + 2) = o + (d + 2) /\ p + (q + 3) = o + (d + 3)
      /\ p + (q + 4) = o + (d + 4)
  OBVIOUS
<1>3. ASSUME NEW i \in 1 .. q
      PROVE  Element(in, p + i, 15) = 15
  <2>1. CASE p = o /\ q = d
    BY <1>1, <2>1
  <2>2. CASE o = p + 1 /\ q = d + 1 /\ Element(in, o, 15) = 15
    <3>1. CASE i = 1
      BY <2>2, <3>1
    <3>2. CASE i # 1
      <4>1. i - 1 \in 1 .. d /\ o + (i - 1) = p + i
        BY <2>2, <3>2
      <4> QED
        BY <1>1, <4>1
    <3> QED
      BY <3>1, <3>2
  <2> QED
    BY <2>1, <2>2
<1> QED
  BY <1>1, <1>2, <1>3 DEF Replies

\* In replies that are joined, each comes behind the end of the one before it.
LEMMA RepliesCome ==
  ASSUME NEW n \in Nat, NEW d \in Nat, NEW busy \in Nat, NEW status \in Statuses,
         NEW s, s.delay = d, s.status = status, s.busy = busy, NEW parts, parts = [k \in 1 .. n |-> Reply(s)],
         NEW in, in = Joined(parts)
  PROVE  in \in Seq(Nibble) /\ \E at : Posts(in, at, n, d, status, busy)
<1> DEFINE L == d + busy + 7
           z == Reply(s)
           e == IF busy = 0 THEN 1 ELSE 0
           S == Nibble
<1>1. ReplyOf(z, d, status, busy) /\ z[L] = 15
  <2>1. z = Reply(s)
    OBVIOUS
  <2> HIDE DEF z
  <2>2. ReplyOf(z, d, status, busy)
    BY <2>1, ReplyParts
  <2> QED
    BY <2>2 DEF ReplyOf
<1>2. \A k \in 1 .. n : parts[k] = z
  OBVIOUS
<1> HIDE DEF z, S
<1>3. z \in Seq(S) /\ Len(z) = L
  BY <1>1, RowIsSeq DEF ReplyOf, S
<1>4. Parts(parts, n, S)
  BY <1>2, <1>3 DEF Parts
<1>5. in \in Seq(S) /\ \E off : Laid(in, parts, n, off)
  BY <1>4, JoinedAt
<1>6. PICK off : Laid(in, parts, n, off)
  BY <1>5
<1>7. L \in Nat /\ L = d + busy + 7 /\ e \in {0, 1}
  OBVIOUS
<1> HIDE DEF L
<1>8. /\ off \in [0 .. n -> Nat] /\ off[0] = 0 /\ Len(in) = off[n] /\ DOMAIN in = 1 .. Len(in)
      /\ \A k \in 1 .. n : off[k] = off[k - 1] + L
      /\ \A k \in 1 .. n : \A j \in 1 .. L : off[k - 1] + j \in DOMAIN in /\ in[off[k - 1] + j] = z[j]
  <2>1. DOMAIN in = 1 .. Len(in)
    BY <1>5, SeqIsFunction
  <2> QED
    <3>1. \A k \in 1 .. n : parts[k] = z /\ Len(parts[k]) = L
      BY <1>2, <1>3
    <3>2. /\ \A k \in 1 .. n : off[k] = off[k - 1] + Len(parts[k])
          /\ \A k \in 1 .. n : \A j \in 1 .. Len(parts[k]) :
               off[k - 1] + j \in DOMAIN in /\ in[off[k - 1] + j] = parts[k][j]
      BY <1>6 DEF Laid
    <3>3. off \in [0 .. n -> Nat] /\ off[0] = 0 /\ Len(in) = off[n]
      BY <1>6 DEF Laid
    <3>4. \A k \in 1 .. n : off[k] = off[k - 1] + L
      BY <3>1, <3>2
    <3>5. \A k \in 1 .. n : \A j \in 1 .. L : off[k - 1] + j \in DOMAIN in /\ in[off[k - 1] + j] = z[j]
      <4> SUFFICES ASSUME NEW k \in 1 .. n, NEW j \in 1 .. L
                   PROVE  off[k - 1] + j \in DOMAIN in /\ in[off[k - 1] + j] = z[j]
        OBVIOUS
      <4>1. parts[k] = z /\ Len(parts[k]) = L
        BY <3>1
      <4>2. j \in 1 .. Len(parts[k])
        BY <4>1
      <4>3. off[k - 1] + j \in DOMAIN in /\ in[off[k - 1] + j] = parts[k][j]
        BY <3>2, <4>2
      <4> QED
        BY <4>1, <4>3
    <3> QED
      BY <2>1, <3>3, <3>4, <3>5
<1>9. ASSUME NEW k \in 1 .. n
      PROVE  /\ off[k - 1] \in Nat /\ off[k] = off[k - 1] + L
             /\ ReplyAt(in, off[k - 1], d, status, busy)
             /\ Element(in, off[k], 15) = 15 /\ in[off[k]] = 15
  <2> DEFINE o == off[k - 1]
  <2>1. k - 1 \in 0 .. n /\ o \in Nat /\ off[k] = o + L
    BY <1>8
  <2>2. \A j \in 1 .. L : o + j \in DOMAIN in /\ in[o + j] = z[j]
    BY <1>8
  <2> HIDE DEF o
  <2>3. \A j \in 1 .. L : Element(in, o + j, 15) = z[j]
    BY <2>2 DEF Element
  <2>4. ReplyAt(in, o, d, status, busy)
    <3>1. LiesAt(in, o, L, z)
      BY <2>3 DEF LiesAt
    <3>2. ReplyOf(z, d, status, busy) /\ L = d + busy + 7 /\ o \in Nat
      BY <1>1, <1>7, <2>1
    <3> QED
      BY <3>1, <3>2, ReplyLies
  <2>5. L \in 1 .. L
    BY <1>7
  <2>6. Element(in, o + L, 15) = 15 /\ in[o + L] = 15
    BY <1>1, <2>2, <2>3, <2>5
  <2> QED
    BY <2>1, <2>4, <2>6 DEF o
<1> DEFINE at == [k \in 0 .. n |-> IF k = 0 THEN 0 ELSE off[k] - e]
<1>10. at \in [0 .. n -> Nat] /\ at[0] = 0
  <2>1. ASSUME NEW k \in 0 .. n, k # 0
        PROVE  off[k] - e \in Nat
    <3>1. k \in 1 .. n
      BY <2>1
    <3>2. off[k - 1] \in Nat /\ off[k] = off[k - 1] + L
      BY <1>9, <3>1
    <3> HIDE DEF e
    <3> QED
      BY <1>7, <3>2
  <2> HIDE DEF e
  <2> QED
    BY <2>1
<1>11. ASSUME NEW k \in 1 .. n
       PROVE  /\ Replies(in, at[k - 1], Waits(d, busy, k), status, busy)
              /\ at[k] = at[k - 1] + (Waits(d, busy, k) + 4) + ReadyAt(busy)
  <2> DEFINE p == at[k - 1]
             q == Waits(d, busy, k)
             o == off[k - 1]
             y == at[k]
  <2>1. k - 1 \in 0 .. n /\ k \in 0 .. n /\ k # 0 /\ p \in Nat /\ y = off[k] - e
    BY <1>10
  <2>2. o \in Nat /\ off[k] = o + L /\ ReplyAt(in, o, d, status, busy)
    BY <1>9
  <2>3. q \in Nat /\ (q = d \/ q = d + 1)
    BY DEF Waits
  <2>4. \/ p = o /\ q = d /\ (busy = 0 => k = 1)
        \/ o = p + 1 /\ q = d + 1 /\ Element(in, o, 15) = 15 /\ busy = 0
    <3>1. CASE k = 1
      <4>1. p = 0 /\ o = 0 /\ q = d
        BY <1>8, <2>1, <3>1 DEF Waits
      <4> QED
        BY <3>1, <4>1
    <3>2. CASE k # 1
      <4>1. k - 1 # 0 /\ k - 1 \in 1 .. n
        BY <3>2
      <4>2. p = o - e /\ Element(in, o, 15) = 15
        BY <1>9, <2>1, <4>1
      <4>3. q = IF busy # 0 THEN d ELSE d + 1
        BY <3>2 DEF Waits
      <4> HIDE DEF p, q, o
      <4> QED
        BY <2>2, <4>2, <4>3
    <3> QED
      BY <3>1, <3>2
  <2>5. y = p + (q + 4) + ReadyAt(busy)
    <3> DEFINE f == off[k]
    <3>1. y = f - e /\ f = o + L
      BY <2>1, <2>2
    <3>2. k = 1 => p = 0 /\ o = 0
      BY <1>8
    <3> HIDE DEF p, q, o, y, f
    <3>3. y = o + d + busy + 7 - e
      BY <1>7, <2>2, <3>1
    <3>4. CASE busy = 0
      <4>1. ReadyAt(busy) = 2 /\ e = 1 /\ p + q = o + d
        BY <2>1, <2>2, <2>4, <3>4 DEF ReadyAt
      <4> HIDE DEF e
      <4> QED
        BY <2>1, <2>2, <2>3, <3>3, <3>4, <4>1
    <3>5. CASE busy # 0
      <4>1. ReadyAt(busy) = busy + 3 /\ e = 0 /\ p + q = o + d
        BY <2>1, <2>2, <2>4, <3>5 DEF ReadyAt
      <4> HIDE DEF e
      <4> QED
        BY <2>1, <2>2, <2>3, <3>3, <4>1
    <3> QED
      BY <3>4, <3>5
  <2> HIDE DEF p, q, o, y
  <2>6. Replies(in, p, q, status, busy)
    BY <2>1, <2>2, <2>3, <2>4, ReplyComes
  <2> QED
    BY <2>5, <2>6 DEF p, q, y
<1>12. ASSUME NEW p \in DOMAIN in, p > at[n]
       PROVE  in[p] # 14
  <2>1. n # 0
    <3> SUFFICES ASSUME n = 0 PROVE FALSE
      OBVIOUS
    <3>1. DOMAIN in = {}
      BY <1>8
    <3> QED
      BY <3>1
  <2>2. n \in 1 .. n /\ n \in 0 .. n /\ off[n] \in Nat /\ at[n] = off[n] - e
    BY <1>8, <2>1
  <2>3. p \in 1 .. off[n]
    BY <1>8
  <2>4. p = off[n]
    <3> DEFINE f == off[n]
               y == at[n]
    <3>1. f \in Nat /\ y = f - e /\ p \in 1 .. f /\ p > y
      BY <1>12, <2>2, <2>3
    <3> HIDE DEF f, y, e
    <3>2. p = f
      BY <1>7, <3>1
    <3> QED
      BY <3>2 DEF f
  <2>5. in[off[n]] = 15
    BY <1>9, <2>2
  <2> QED
    BY <2>4, <2>5
<1> HIDE DEF at
<1>13. Posts(in, at, n, d, status, busy)
  BY <1>10, <1>11, <1>12 DEF Posts
<1> QED
  BY <1>5, <1>13 DEF S

\* What holds behind each pass of the loop over the blocks that are written.
Stepped(x) == IF x.ret # 0 THEN x ELSE block_out(x, Words)

PassesOut(b, n, G) ==
  /\ \A k \in 0 .. n : G[k] \subseteq Steadies
  /\ [b EXCEPT !.ret = 0] \in G[0]
  /\ \A k \in 1 .. n : \A x \in G[k - 1] : Stepped(x) \in G[k]

\* bi_ram_to_sd passes from set to set.
LEMMA BlocksOutAre ==
  ASSUME NEW b, NEW n \in Nat, NEW G, PassesOut(b, n, G), NEW blocks, blocks = [k \in 1 .. n |-> Words]
  PROVE  bi_ram_to_sd(b, blocks) \in G[n]
<1> USE DEF PassesOut
<1> DEFINE a == [b EXCEPT !.ret = 0]
           Is(f) == f = [k \in 0 .. n |-> IF k = 0 THEN a
                                          ELSE IF f[k - 1].ret # 0 THEN f[k - 1] ELSE block_out(f[k - 1], blocks[k])]
           h == [k \in 1 .. n |-> [x \in Steadies |-> Stepped(x)]]
<1>1. ASSUME NEW k \in 1 .. n, NEW x \in G[k - 1]
      PROVE  h[k][x] = Stepped(x) /\ Stepped(x) \in G[k]
  <2>1. k - 1 \in 0 .. n
    OBVIOUS
  <2>2. x \in Steadies
    BY <2>1
  <2> QED
    BY <2>2
<1>2. Stays(n, a, h, G)
  <2> HIDE DEF h, a
  <2>1. a \in G[0]
    BY DEF a
  <2> QED
    BY <1>1, <2>1 DEF Stays
<1>3. PICK f : Loops(f, n, a, h) /\ \A k \in 0 .. n : f[k] \in G[k]
  <2> HIDE DEF h, a
  <2>1. \A k \in 0 .. n : G[k] \subseteq Steadies
    OBVIOUS
  <2> QED
    BY <1>2, <2>1, LoopExists
<1>10. Len(blocks) = n /\ \A k \in 1 .. n : blocks[k] = Words
  <2> DEFINE S == {Words}
  <2>1. Row(blocks, n, S) /\ \A k \in 1 .. n : blocks[k] = Words
    BY DEF Row
  <2> HIDE DEF S
  <2> QED
    BY <2>1, RowIsSeq
<1>4. Is(f)
  <2>1. ASSUME NEW k \in 0 .. n, k # 0
        PROVE  h[k][f[k - 1]] = IF f[k - 1].ret # 0 THEN f[k - 1] ELSE block_out(f[k - 1], blocks[k])
    <3>1. k \in 1 .. n /\ k - 1 \in 0 .. n /\ blocks[k] = Words
      BY <1>10, <2>1
    <3>2. h[k][f[k - 1]] = Stepped(f[k - 1])
      BY <1>1, <1>3, <3>1
    <3> QED
      BY <3>1, <3>2 DEF Stepped
  <2> HIDE DEF h, a
  <2> QED
    BY <1>3, <2>1 DEF Loops
<1> DEFINE F == CHOOSE z : Is(z)
<1>5. Is(F)
  <2> HIDE DEF Is
  <2> QED
    BY <1>4
<1>6. bi_ram_to_sd(b, blocks) = F[n]
  <2>1. blocks_out(b, blocks) = F
    BY <1>10 DEF blocks_out
  <2> HIDE DEF F
  <2> QED
    BY <1>10, <2>1 DEF bi_ram_to_sd
<1> HIDE DEF F, a
<1>7. F[0] = a /\ \A k \in 1 .. n : F[k] = Stepped(F[k - 1])
  <2>1. F = [k \in 0 .. n |-> IF k = 0 THEN a
                              ELSE IF F[k - 1].ret # 0 THEN F[k - 1] ELSE block_out(F[k - 1], blocks[k])]
    BY <1>5
  <2>2. F[0] = a
    BY <2>1
  <2>3. ASSUME NEW k \in 1 .. n
        PROVE  F[k] = Stepped(F[k - 1])
    <3>1. F[k] = IF F[k - 1].ret # 0 THEN F[k - 1] ELSE block_out(F[k - 1], blocks[k])
      BY <2>1
    <3>2. blocks[k] = Words
      BY <1>10
    <3> QED
      BY <3>1, <3>2 DEF Stepped
  <2> QED
    BY <2>2, <2>3
<1>8. F[n] \in G[n]
  <2>1. F[0] \in G[0]
    BY <1>7 DEF a
  <2>2. \A k \in 1 .. n : F[k - 1] \in G[k - 1] => F[k] \in G[k]
    BY <1>7
  <2> QED
    BY <2>1, <2>2, LoopStays
<1> QED
  BY <1>6, <1>8

\* What holds behind block k of a write, J[k] being the frames of k blocks.
WrittenTo(b, in, at, J, d, status, busy, k) ==
  {x \in Steadies :
     /\ x.reg.fast = b.reg.fast /\ x.pwd = b.pwd /\ x.dat_in = in
     /\ x.ret = 0 => x.sent = J[k] /\ x.dat_at = at[k]
     /\ k = 0 => x.ret = 0
     /\ k = 1 => x.ret = BlockResult(d, status, busy) /\ x.sent = J[1]}

\* J[k] is one frame more than J[k - 1].
FramesOut(J, n) == J[0] = <<>> /\ \A k \in 1 .. n : J[k] = J[k - 1] \o BlockFrame

\* One pass of the loop of bi_ram_to_sd.
LEMMA BlockStepped ==
  ASSUME NEW b, NEW in, NEW at, NEW J, NEW n \in Nat, NEW d \in Nat, NEW busy \in Nat, NEW status,
         Posts(in, at, n, d, status, busy), FramesOut(J, n),
         NEW k \in 1 .. n, NEW x, x \in WrittenTo(b, in, at, J, d, status, busy, k - 1)
  PROVE  Stepped(x) \in WrittenTo(b, in, at, J, d, status, busy, k)
<1> DEFINE K == k - 1
           q == Waits(d, busy, k)
           r == block_out(x, Words)
<1>1. K \in 0 .. n /\ k \in Nat /\ k # 0 /\ (k = 1 <=> K = 0)
  OBVIOUS
<1>2. /\ Steady(x) /\ x.reg.fast = b.reg.fast /\ x.pwd = b.pwd /\ x.dat_in = in
      /\ x.ret = 0 => x.sent = J[K] /\ x.dat_at = at[K]
      /\ K = 0 => x.ret = 0
  BY SteadyIs DEF WrittenTo
<1>3. /\ Replies(in, at[K], q, status, busy) /\ at[k] = at[K] + (q + 4) + ReadyAt(busy)
      /\ J[k] = J[K] \o BlockFrame
  BY DEF Posts, FramesOut
<1>4. k = 1 => q = d
  BY DEF Waits
<1> HIDE DEF K, q
<1>5. CASE x.ret = 0
  <2>1. Stepped(x) = r
    BY <1>5 DEF Stepped
  <2>2. BlockWritten(r, x, q, status, busy)
    <3>1. Replies(x.dat_in, x.dat_at, q, status, busy)
      BY <1>2, <1>3, <1>5
    <3> QED
      BY <1>2, <1>5, <3>1, BlockOut
  <2> HIDE DEF r
  <2>3. /\ r \in Steadies /\ r.reg.fast = b.reg.fast /\ r.pwd = b.pwd /\ r.dat_in = in
        /\ r.sent = J[k] /\ r.ret = BlockResult(q, status, busy)
    BY <1>2, <1>3, <1>5, <2>2, SteadyIs DEF BlockWritten
  <2>4. r.ret = 0 => r.dat_at = at[k]
    BY <1>2, <1>3, <1>5, <2>2 DEF BlockWritten
  <2>5. k = 1 => r.ret = BlockResult(d, status, busy) /\ r.sent = J[1]
    BY <1>4, <2>3
  <2> QED
    BY <1>1, <2>1, <2>3, <2>4, <2>5 DEF WrittenTo
<1>6. CASE x.ret # 0
  <2>1. Stepped(x) = x /\ k # 1
    BY <1>1, <1>2, <1>6 DEF Stepped
  <2> QED
    BY <1>1, <1>2, <1>6, <2>1, SteadyIs DEF WrittenTo
<1> QED
  BY <1>5, <1>6

\* The frame of a block is something to send.
LEMMA FrameTyped == BlockFrame \in Seq(Sends)
<1> DEFINE v == <<255>>
           w == <<255, 240>>
           C == Sent("dat_wr", 2, w)
           D == Sent("dat_wr", 4, Words)
           E == Sent("dat_wr", 1, v)
<1>1. Row(v, 1, Nat) /\ Row(w, 2, Nat) /\ Row(Words, BlockWords, Nat)
  BY BusAssumption DEF Row, Words
<1>2. "dat_wr" \in Lines /\ 1 \in Nat /\ 2 \in Nat /\ 4 \in Nat
  BY DEF Lines
<1>3. BlockFrame = C \o D \o E
  BY DEF BlockFrame
<1>4. C = Sent("dat_wr", 2, w) /\ D = Sent("dat_wr", 4, Words) /\ E = Sent("dat_wr", 1, v)
  OBVIOUS
<1> HIDE DEF v, w, C, D, E
<1>5. C \in Seq(Sends)
  BY <1>1, <1>2, <1>4, SentIs
<1>6. D \in Seq(Sends)
  BY <1>1, <1>2, <1>4, SentIs
<1>7. E \in Seq(Sends)
  BY <1>1, <1>2, <1>4, SentIs
<1> QED
  BY <1>3, <1>5, <1>6, <1>7

\* The blocks that are written.
Same(blocks, n) == blocks = [k \in 1 .. n |-> Words]

\* A call that writes them, and what it leaves behind.
Writes(r, b, in, blocks) == r = bi_ram_to_sd([b EXCEPT !.dat_in = in], blocks)

AllWritten(r, b, in, at, J, n, d, status, busy) ==
    /\ Settled(b, r) /\ r.dat_in = in
    /\ n = 1 => r.ret = BlockResult(d, status, busy) /\ r.sent = J[1]
    /\ r.ret = 0 => r.sent = J[n] /\ r.dat_at = at[n]

\* bi_ram_to_sd over all passes.
LEMMA BlocksAreWritten ==
  ASSUME NEW b \in Buses, NEW n \in Nat, NEW d \in Nat, NEW busy \in Nat, NEW status, NEW in \in Seq(Nibble),
         NEW at, Posts(in, at, n, d, status, busy), NEW J, FramesOut(J, n),
         NEW blocks, Same(blocks, n),
         NEW r, Writes(r, b, in, blocks)
  PROVE  AllWritten(r, b, in, at, J, n, d, status, busy)
<1> DEFINE c == [b EXCEPT !.dat_in = in]
           e == [c EXCEPT !.ret = 0]
           G == [k \in 0 .. n |-> WrittenTo(b, in, at, J, d, status, busy, k)]
<1>1. Steady(b) /\ b.dat_at = 0 /\ b.sent = <<>>
  BY BusesAre
<1>2. c \in Bus /\ c.cfg = c.reg /\ c.pwd = b.pwd /\ c.reg.fast = b.reg.fast /\ c.dat_in = in
      /\ c.dat_at = 0 /\ c.sent = b.sent
  BY <1>1 DEF Steady, Bus
<1>3. e \in Steadies /\ e.ret = 0 /\ e.reg.fast = b.reg.fast /\ e.pwd = b.pwd /\ e.dat_in = in
      /\ e.dat_at = 0 /\ e.sent = b.sent
  <2> HIDE DEF c
  <2>1. Steady(c) /\ 0 \in Rets /\ e = [c EXCEPT !.ret = 0]
    BY <1>2 DEF Rets, Steady
  <2> HIDE DEF e
  <2>2. /\ Steady(e) /\ e.reg = c.reg /\ e.pwd = c.pwd /\ e.sent = c.sent /\ e.dat_in = c.dat_in
        /\ e.dat_at = c.dat_at /\ e.ret = 0
    BY <2>1, RetIs
  <2> QED
    BY <1>2, <2>2, SteadyIs
<1> HIDE DEF c, e
<1>4. e \in WrittenTo(b, in, at, J, d, status, busy, 0)
  <2>1. at[0] = 0 /\ e.sent = J[0]
    BY <1>1, <1>3 DEF Posts, FramesOut
  <2>2. 0 # 1
    OBVIOUS
  <2> QED
    BY <1>3, <2>1, <2>2 DEF WrittenTo
<1>5. PassesOut(c, n, G)
  <2>1. \A k \in 0 .. n : G[k] = WrittenTo(b, in, at, J, d, status, busy, k) /\ G[k] \subseteq Steadies
    BY DEF WrittenTo
  <2>2. [c EXCEPT !.ret = 0] \in G[0]
    <3>1. 0 \in 0 .. n /\ e = [c EXCEPT !.ret = 0]
      BY DEF e
    <3> HIDE DEF G
    <3> QED
      BY <1>4, <2>1, <3>1
  <2>3. ASSUME NEW k \in 1 .. n, NEW x \in G[k - 1]
        PROVE  Stepped(x) \in G[k]
    <3>1. k - 1 \in 0 .. n /\ k \in 0 .. n
      OBVIOUS
    <3>2. x \in WrittenTo(b, in, at, J, d, status, busy, k - 1)
      BY <2>1, <3>1
    <3> HIDE DEF G
    <3>3. Stepped(x) \in WrittenTo(b, in, at, J, d, status, busy, k)
      BY <3>2, BlockStepped
    <3> QED
      BY <2>1, <3>1, <3>3
  <2> HIDE DEF G
  <2> QED
    BY <2>1, <2>2, <2>3 DEF PassesOut
<1>6. r \in WrittenTo(b, in, at, J, d, status, busy, n)
  <2>1. r \in G[n]
    <3>1. r = bi_ram_to_sd(c, blocks) /\ blocks = [k \in 1 .. n |-> Words]
      BY DEF c, Same, Writes
    <3> HIDE DEF G
    <3> QED
      BY <1>5, <3>1, BlocksOutAre
  <2>2. n \in 0 .. n
    OBVIOUS
  <2> QED
    BY <2>1, <2>2
<1>7. /\ r.cfg = r.reg /\ r.reg.fast = b.reg.fast /\ r.pwd = b.pwd /\ r.dat_in = in
      /\ r.ret = 0 => r.sent = J[n] /\ r.dat_at = at[n]
      /\ n = 1 => r.ret = BlockResult(d, status, busy) /\ r.sent = J[1]
  BY <1>6 DEF WrittenTo, Steadies
<1> QED
  BY <1>7 DEF Settled, AllWritten

\* Result, case by case.
LEMMA ResultIs ==
  ASSUME NEW s, NEW d \in Nat, NEW busy \in Nat, NEW status \in Statuses, s.delay = d, s.busy = busy, s.status = status
  PROVE  Result(s) = BlockResult(d, status, busy)
<1> DEFINE B == BusyPolls
<1>1. B \in Nat
  BY BusAssumption
<1> HIDE DEF B
<1>2. (IF busy = 0 THEN 1 ELSE busy + 2) > B <=> ReadyAt(busy) > B + 1
  BY <1>1 DEF ReadyAt
<1>3. Result(s) = IF d > StatusPolls THEN 1
                  ELSE IF status = 5 THEN 2
                  ELSE IF status # 2 THEN 3
                  ELSE IF (IF busy = 0 THEN 1 ELSE busy + 2) > B THEN 4 ELSE 0
  <2>1. CASE status = 5
    BY <2>1 DEF Result, B
  <2>2. CASE status # 5 /\ status # 2
    BY <2>2 DEF Result, B
  <2>3. CASE status = 2
    BY <2>3 DEF Result, B
  <2> QED
    BY <2>1, <2>2, <2>3
<1> QED
  BY <1>2, <1>3 DEF BlockResult, B

\* WriteTrue for every bus, any number of blocks, every status and delay.
LEMMA WritesAreTrue ==
  ASSUME NEW b \in Buses, NEW n \in Blocks, NEW status \in {0, 2, 5, 7}, NEW d \in Delays, NEW busy \in Delays,
         NEW s, s = [kind |-> "write", b |-> b, blocks |-> n, status |-> status, delay |-> d, busy |-> busy]
  PROVE  WriteTrue(s)
<1> DEFINE parts == [k \in 1 .. n |-> Reply(s)]
           frames == [k \in 1 .. n |-> BlockFrame]
           in == Joined(parts)
           blocks == [k \in 1 .. n |-> Words]
           r == bi_ram_to_sd([b EXCEPT !.dat_in = in], blocks)
<1>1. n \in Nat /\ d \in Nat /\ busy \in Nat /\ status \in Statuses
  BY BusAssumption DEF Statuses
<1>2. s.b = b /\ s.blocks = n /\ s.status = status /\ s.delay = d /\ s.busy = busy
  OBVIOUS
<1>3. in \in Seq(Nibble) /\ \E at : Posts(in, at, n, d, status, busy)
  <2>1. in = Joined(parts)
    OBVIOUS
  <2> HIDE DEF in
  <2> QED
    BY <1>1, <1>2, <2>1, RepliesCome
<1>4. PICK at : Posts(in, at, n, d, status, busy)
  BY <1>3
<1>5. PICK J : JoinedBy(J, frames, n, Sends)
  <2>1. Parts(frames, n, Sends)
    BY <1>1, FrameTyped DEF Parts
  <2> HIDE DEF frames
  <2> QED
    BY <2>1, JoinedSteps
<1>6. J[0] = <<>> /\ J[n] = Joined(frames) /\ FramesOut(J, n)
  BY <1>5 DEF JoinedBy, FramesOut
<1>7. WriteTrue(s) <=> Stored(s, r)
  BY <1>2 DEF WriteTrue
<1>8. /\ Settled(b, r) /\ r.dat_in = in
      /\ n = 1 => r.ret = BlockResult(d, status, busy) /\ r.sent = J[1]
      /\ r.ret = 0 => r.sent = J[n] /\ r.dat_at = at[n]
  <2>1. Writes(r, b, in, blocks) /\ Same(blocks, n)
    BY DEF Same, Writes
  <2> HIDE DEF r, in, blocks
  <2>2. in \in Seq(Nibble) /\ FramesOut(J, n)
    BY <1>3, <1>6
  <2>3. AllWritten(r, b, in, at, J, n, d, status, busy)
    BY <1>1, <1>4, <2>1, <2>2, BlocksAreWritten
  <2> QED
    BY <2>3 DEF AllWritten
<1>9. Result(s) = BlockResult(d, status, busy)
  BY <1>1, <1>2, ResultIs
<1>10. n = 1 => J[1] = BlockFrame
  <2> SUFFICES ASSUME n = 1 PROVE J[1] = BlockFrame
    OBVIOUS
  <2>1. 1 \in 1 .. n /\ 1 - 1 = 0
    OBVIOUS
  <2>2. J[1] = J[0] \o BlockFrame
    <3> HIDE DEF frames
    <3>1. J[1] = J[1 - 1] \o BlockFrame
      BY <1>6, <2>1 DEF FramesOut
    <3> QED
      BY <2>1, <3>1
  <2> DEFINE x == BlockFrame
  <2>3. x \in Seq(Sends)
    BY FrameTyped
  <2> HIDE DEF x
  <2>4. <<>> \o x = x
    BY <2>3
  <2> QED
    BY <1>6, <2>2, <2>4 DEF x
<1>11. \A p \in DOMAIN in : p > at[n] => in[p] # 14
  BY <1>4 DEF Posts
<1> HIDE DEF r, in, frames
<1>12. s.blocks = 1 => r.ret = Result(s) /\ r.sent = BlockFrame
  BY <1>2, <1>8, <1>9, <1>10
<1>13. r.ret = 0 => /\ r.sent = Joined([k \in 1 .. s.blocks |-> BlockFrame])
                    /\ \A p \in DOMAIN r.dat_in : p > r.dat_at => r.dat_in[p] # 14
  BY <1>2, <1>6, <1>8, <1>11 DEF frames
<1>14. Settled(s.b, r)
  BY <1>2, <1>8
<1>15. Stored(s, r)
  BY <1>12, <1>13, <1>14 DEF Stored
<1> QED
  BY <1>7, <1>15
\* Whatever length, mode and speed the call before has left, and however long
\* the card takes, a command goes out as seven whole bytes and its answer comes
\* in bit for bit or not at all; any number of blocks is read from the first
\* nibble of each on, or the call reports the time that is up; blocks are
\* written in their frames, and 0 is returned only when the card has taken them
\* all and is ready again (diskCmdSD, bi_sd_to_ram, bi_ram_to_sd).
THEOREM BusIsTrue == Spec => []BusCarriesFrames
<1>1. Init => BusCarriesFrames
  BY DEF Init, BusCarriesFrames
<1>2. BusCarriesFrames /\ [Next]_sample => BusCarriesFrames'
  <2> SUFFICES ASSUME BusCarriesFrames, [Next]_sample PROVE BusCarriesFrames'
    OBVIOUS
  <2>1. CASE UNCHANGED sample
    BY <2>1, Zenon DEF BusCarriesFrames
  <2>2. ASSUME NEW b \in Buses, Command(b)
        PROVE  BusCarriesFrames'
    <3>1. PICK cmd \in {"CMD2", "CMD17", "CMD18"}, a \in Answers, d \in Delays :
            /\ Len(a) = 8 * resp_len(cmd)
            /\ sample' = [kind |-> "command", cmd |-> cmd, delay |-> d, answer |-> a, b |-> b]
      BY <2>2, Zenon DEF Command
    <3>2. CommandTrue(sample')
      BY <3>1, CommandsAreTrue
    <3>3. sample'.kind = "command"
      BY <3>1
    <3> QED
      BY <3>2, <3>3 DEF BusCarriesFrames
  <2>3. ASSUME NEW b \in Buses, Read(b)
        PROVE  BusCarriesFrames'
    <3>1. PICK n \in Blocks : \E ds \in [1 .. n -> Delays \ {0}], data \in [1 .. n -> Nibbles] :
            sample' = [kind |-> "read", delays |-> ds, data |-> data, b |-> b]
      BY <2>3, Zenon DEF Read
    <3>2. PICK ds \in [1 .. n -> Delays \ {0}], data \in [1 .. n -> Nibbles] :
            sample' = [kind |-> "read", delays |-> ds, data |-> data, b |-> b]
      BY <3>1, Zenon
    <3>3. ReadTrue(sample')
      BY <3>2, ReadsAreTrue, Zenon
    <3>4. sample'.kind = "read"
      BY <3>2
    <3> QED
      BY <3>3, <3>4 DEF BusCarriesFrames
  <2>4. ASSUME NEW b \in Buses, Write(b)
        PROVE  BusCarriesFrames'
    <3>1. PICK n \in Blocks, status \in {0, 2, 5, 7}, d \in Delays, busy \in Delays :
            sample' = [kind |-> "write", b |-> b, blocks |-> n, status |-> status, delay |-> d, busy |-> busy]
      BY <2>4, Zenon DEF Write
    <3>2. WriteTrue(sample')
      BY <3>1, WritesAreTrue, Zenon
    <3>3. sample'.kind = "write"
      BY <3>1
    <3> QED
      BY <3>2, <3>3 DEF BusCarriesFrames
  <2>5. CASE ExVolume \/ Volume \/ Partitions \/ Entry12
    BY <2>5 DEF ExVolume, Volume, Partitions, Entry12, BusCarriesFrames
  <2>6. CASE Image \/ Arguments3 \/ Screen \/ Checksum
    BY <2>6 DEF Image, Arguments3, Screen, Checksum, BusCarriesFrames
  <2> QED
    BY <2>1, <2>2, <2>3, <2>4, <2>5, <2>6, Zenon DEF Next
<1> QED
  BY <1>1, <1>2, PTL DEF Spec

-----------------------------------------------------------------------------
(***************************************************************************)
(* SdCrc: the checksums are remainders, whatever the bytes.  A register    *)
(* is a set of positions; what a shift or a sum holds is said place by     *)
(* place.                                                                  *)
(***************************************************************************)
\* A sum holds what one of the two holds and not both.
LEMMA InXor == \A x, y, i : i \in Xor(x, y) <=> ((i \in x) # (i \in y))
BY DEF Xor

\* What a shift to the left holds: nothing from outside the width.
LEMMA InLeft == \A x, n, w, i : i \in Left(x, n, w) <=> i \in 0 .. w - 1 /\ i - n \in x
BY DEF Left

\* What a shift to the right holds.
LEMMA InRight ==
  ASSUME NEW x \in SUBSET Nat, NEW n \in Nat, NEW i
  PROVE  i \in Right(x, n) <=> i \in Nat /\ i + n \in x
<1>1. ASSUME i \in Right(x, n)
      PROVE  i \in Nat /\ i + n \in x
  <2>1. PICK j \in x : i = j - n
    BY <1>1 DEF Right
  <2> QED
    BY <1>1, <2>1 DEF Right
<1>2. ASSUME i \in Nat, i + n \in x
      PROVE  i \in Right(x, n)
  <2>1. (i + n) - n = i
    BY <1>2
  <2> QED
    BY <1>2, <2>1 DEF Right
<1> QED
  BY <1>1, <1>2

\* One bit of the division, place by place.
LEMMA InDivided ==
  ASSUME NEW r, NEW b \in BOOLEAN, NEW w \in Nat, NEW generator, NEW i \in 0 .. w - 1
  PROVE  i \in divided(r, BitOf(b), w, generator)
           <=> ((i - 1 \in r) # (((w - 1 \in r) # b) /\ i \in generator))
<1>1. (BitOf(b) = 1) <=> b
  BY DEF BitOf
<1>2. i \in Left(r, 1, w) <=> i - 1 \in r
  BY InLeft
<1>3. CASE (w - 1 \in r) # b
  <2>1. divided(r, BitOf(b), w, generator) = Xor(Left(r, 1, w), generator)
    BY <1>1, <1>3 DEF divided
  <2> QED
    BY <1>2, <1>3, <2>1, InXor
<1>4. CASE ~((w - 1 \in r) # b)
  <2>1. divided(r, BitOf(b), w, generator) = Left(r, 1, w)
    BY <1>1, <1>4 DEF divided
  <2> QED
    BY <1>2, <1>4, <2>1
<1> QED
  BY <1>3, <1>4

\* A step of the division gives a remainder of the width.
LEMMA DividedType ==
  ASSUME NEW r, NEW bit, NEW w \in Nat, NEW generator \in SUBSET (0 .. w - 1)
  PROVE  divided(r, bit, w, generator) \in SUBSET (0 .. w - 1)
BY DEF divided, Xor, Left

\* The remainders behind each bit of a message.
Divides(f, message, n, w, generator) ==
  /\ n \in Nat /\ f \in [0 .. n -> SUBSET (0 .. w - 1)] /\ f[0] = {}
  /\ \A k \in 1 .. n : f[k] = divided(f[k - 1], message[k], w, generator)
  /\ Remainder(message, w, generator) = f[n]

\* Every message has remainders behind each of its bits, and Remainder is the last.
LEMMA RemainderSteps ==
  ASSUME NEW message, NEW n \in Nat, Len(message) = n, NEW w \in Nat, NEW generator \in SUBSET (0 .. w - 1)
  PROVE  \E f : Divides(f, message, n, w, generator)
<1> DEFINE Q == SUBSET (0 .. w - 1)
           Is(f) == f = [k \in 0 .. n |-> IF k = 0 THEN {} ELSE divided(f[k - 1], message[k], w, generator)]
           g == [k \in Nat |-> [x \in Q |-> divided(x, message[k], w, generator)]]
           none == {}
<1>1. none \in Q
  OBVIOUS
<1>2. \A k \in Nat, x \in Q : divided(x, message[k], w, generator) \in Q
  BY DividedType
<1> HIDE DEF Q
<1>3. g \in [Nat -> [Q -> Q]]
  BY <1>2
<1>4. PICK f \in [0 .. n -> Q] : Steps(f, n, none, g)
  <2> HIDE DEF g, none
  <2> QED
    BY <1>1, <1>3, StepsExist
<1>5. Is(f)
  <2>1. f = [k \in 0 .. n |-> IF k = 0 THEN none ELSE g[k][f[k - 1]]]
    BY <1>4 DEF Steps
  <2>2. ASSUME NEW k \in 0 .. n, k # 0
        PROVE  g[k][f[k - 1]] = divided(f[k - 1], message[k], w, generator)
    <3>1. k \in Nat /\ k - 1 \in 0 .. n
      BY <2>2
    <3>2. f[k - 1] \in Q
      BY <3>1
    <3> QED
      BY <3>1, <3>2
  <2> HIDE DEF g
  <2> QED
    BY <2>1, <2>2
<1> DEFINE F == CHOOSE h : Is(h)
<1>6. Is(F)
  <2> HIDE DEF Is
  <2> QED
    BY <1>5
<1>7. Remainder(message, w, generator) = F[n]
  BY DEF Remainder
<1> HIDE DEF F, none
<1>8. F[0] = none /\ \A k \in 1 .. n : F[k] = divided(F[k - 1], message[k], w, generator)
  <2>1. F = [k \in 0 .. n |-> IF k = 0 THEN none ELSE divided(F[k - 1], message[k], w, generator)]
    BY <1>6 DEF F, none
  <2> QED
    BY <2>1
<1>9. F \in [0 .. n -> Q]
  <2> DEFINE T == {k \in 0 .. n : F[k] \in Q}
  <2>1. 0 \in T
    BY <1>1, <1>8
  <2>2. ASSUME NEW k \in 0 .. n - 1, k \in T
        PROVE  k + 1 \in T
    <3>1. k + 1 \in 1 .. n /\ k + 1 \in 0 .. n /\ (k + 1) - 1 = k
      OBVIOUS
    <3>2. F[k + 1] = divided(F[k], message[k + 1], w, generator)
      BY <1>8, <3>1
    <3>3. F[k] \in Q /\ k + 1 \in Nat
      BY <2>2
    <3>4. F[k + 1] \in Q
      BY <1>2, <3>2, <3>3
    <3> QED
      BY <3>1, <3>4
  <2>3. \A k \in 0 .. n : k \in T
    <3> HIDE DEF T
    <3> QED
      BY <2>1, <2>2, ForAllBelow
  <2>4. F = [k \in 0 .. n |-> F[k]]
    <3>1. F = [k \in 0 .. n |-> IF k = 0 THEN {} ELSE divided(F[k - 1], message[k], w, generator)]
      BY <1>6 DEF F
    <3> QED
      BY <3>1
  <2> QED
    BY <2>3, <2>4
<1> QED
  BY <1>7, <1>8, <1>9 DEF Divides, Q, none

\* crc is an u32.
Word32 == SUBSET (0 .. 31)
Byte8 == SUBSET (0 .. 7)

\* A shift of the register, place by place, in the bits that are used.
LEMMA Crc7Shifted ==
  ASSUME NEW crc
  PROVE  /\ crc7_shift(crc) \in Word32
         /\ \A i \in 0 .. 7 : i \in crc7_shift(crc) <=> ((i - 1 \in crc) # (7 \in crc /\ i \in {1, 4}))
<1> DEFINE c == Left(crc, 1, 32)
<1>1. c \in Word32 /\ \A i \in 0 .. 8 : i \in c <=> i - 1 \in crc
  BY DEF Left, Word32
<1> HIDE DEF c
<1>2. 8 \in c <=> 7 \in crc
  <2>1. 8 \in 0 .. 8 /\ 8 - 1 = 7
    OBVIOUS
  <2> QED
    BY <1>1, <2>1
<1>3. crc7_shift(crc) = IF 8 \in c THEN Xor(c, {1, 4}) ELSE c
  BY DEF crc7_shift, c
<1>4. CASE 8 \in c
  <2>1. crc7_shift(crc) = Xor(c, {1, 4})
    BY <1>3, <1>4
  <2>2. Xor(c, {1, 4}) \in Word32
    BY <1>1 DEF Xor, Word32
  <2> QED
    BY <1>1, <1>2, <1>4, <2>1, <2>2, InXor
<1>5. CASE 8 \notin c
  BY <1>1, <1>2, <1>3, <1>5
<1> QED
  BY <1>4, <1>5

\* The register of crc7 behind each bit of a byte.
Shifts7(f, crc, byte) ==
  /\ f[0] = Xor(crc, byte) /\ f[8] \in Word32
  /\ \A a \in 1 .. 8 : f[a] = crc7_shift(f[a - 1])
  /\ crc7_byte(crc, byte) = f[8]

\* The eight shifts of a byte, as a function of their number.
LEMMA Shifts7Exist ==
  ASSUME NEW crc \in Word32, NEW byte \in Byte8
  PROVE  \E f : Shifts7(f, crc, byte)
<1> DEFINE x == Xor(crc, byte)
           Is(f) == f = [a \in 0 .. 8 |-> IF a = 0 THEN x ELSE crc7_shift(f[a - 1])]
           g == [k \in Nat |-> [y \in Word32 |-> crc7_shift(y)]]
<1>1. x \in Word32
  BY DEF Xor, Word32, Byte8
<1>2. g \in [Nat -> [Word32 -> Word32]]
  BY Crc7Shifted
<1> HIDE DEF x
<1>3. PICK f \in [0 .. 8 -> Word32] : Steps(f, 8, x, g)
  <2> HIDE DEF g
  <2> QED
    BY <1>1, <1>2, StepsExist
<1>4. Is(f)
  <2>1. f = [k \in 0 .. 8 |-> IF k = 0 THEN x ELSE g[k][f[k - 1]]]
    BY <1>3 DEF Steps
  <2>2. ASSUME NEW k \in 0 .. 8, k # 0
        PROVE  g[k][f[k - 1]] = crc7_shift(f[k - 1])
    <3>1. k \in Nat /\ f[k - 1] \in Word32
      BY <2>2
    <3> QED
      BY <3>1
  <2> HIDE DEF g
  <2> QED
    BY <2>1, <2>2
<1> DEFINE F == CHOOSE h : Is(h)
<1>5. Is(F)
  <2> HIDE DEF Is
  <2> QED
    BY <1>4
<1>6. crc7_byte(crc, byte) = F[8]
  BY DEF crc7_byte, x
<1> HIDE DEF F
<1>7. F[0] = x /\ \A a \in 1 .. 8 : F[a] = crc7_shift(F[a - 1])
  <2>1. F = [a \in 0 .. 8 |-> IF a = 0 THEN x ELSE crc7_shift(F[a - 1])]
    BY <1>5 DEF F
  <2> QED
    BY <2>1
<1>8. F[8] \in Word32
  <2>1. F[8] = crc7_shift(F[7])
    BY <1>7
  <2> QED
    BY <2>1, Crc7Shifted
<1> QED
  BY <1>6, <1>7, <1>8 DEF Shifts7, x

\* R is the remainder behind each of the eight bits of a byte.
Divides7(R, byte) ==
  /\ R \in [0 .. 8 -> SUBSET (0 .. 6)]
  /\ \A a \in 1 .. 8 : R[a] = divided(R[a - 1], BitOf(8 - a \in byte), 7, {0, 3})

\* The register holds the remainder one place up.
Holds7(crc, r) == \A i \in 0 .. 7 : i \in crc <=> i >= 1 /\ i - 1 \in r

\* A byte of the command takes the register from the remainder before its eight
\* bits to the one behind them.
LEMMA Crc7OneByte ==
  ASSUME NEW crc \in Word32, NEW byte \in Byte8, NEW R, Divides7(R, byte), Holds7(crc, R[0])
  PROVE  crc7_byte(crc, byte) \in Word32 /\ Holds7(crc7_byte(crc, byte), R[8])
<1> DEFINE Mixed(c, a, i) == i \in c <=> ((i >= 1 /\ i - 1 \in R[a]) # (i - a \in byte))
<1>1. PICK f : Shifts7(f, crc, byte)
  BY Shifts7Exist
<1> DEFINE T == {a \in 0 .. 8 : \A i \in 0 .. 7 : Mixed(f[a], a, i)}
<1>2. 0 \in T
  <2>1. ASSUME NEW i \in 0 .. 7
        PROVE  Mixed(f[0], 0, i)
    <3>1. i \in f[0] <=> ((i \in crc) # (i \in byte))
      BY <1>1, InXor DEF Shifts7
    <3>2. i - 0 = i
      OBVIOUS
    <3> QED
      BY <3>1, <3>2 DEF Holds7
  <2> QED
    BY <2>1
<1>3. ASSUME NEW a \in 0 .. 7, a \in T
      PROVE  a + 1 \in T
  <2>1. a + 1 \in 1 .. 8 /\ (a + 1) - 1 = a /\ 8 - (a + 1) = 7 - a
    OBVIOUS
  <2>2. f[a + 1] = crc7_shift(f[a])
    BY <1>1, <2>1 DEF Shifts7
  <2>3. R[a + 1] = divided(R[a], BitOf(7 - a \in byte), 7, {0, 3})
    BY <2>1 DEF Divides7
  <2>4. 7 \in f[a] <=> ((6 \in R[a]) # (7 - a \in byte))
    BY <1>3
  <2>5. ASSUME NEW i \in 0 .. 7
        PROVE  Mixed(f[a + 1], a + 1, i)
    <3>1. i \in f[a + 1] <=> ((i - 1 \in f[a]) # (7 \in f[a] /\ i \in {1, 4}))
      BY <2>2, Crc7Shifted
    <3>2. CASE i = 0
      <4>1. -1 \notin f[a]
        <5>1. CASE a = 0
          BY <1>1, <5>1 DEF Shifts7, Xor, Word32, Byte8
        <5>2. CASE a # 0
          <6>1. a \in 1 .. 8
            BY <5>2
          <6>2. f[a] \in Word32
            BY <1>1, <6>1, Crc7Shifted DEF Shifts7
          <6> QED
            BY <6>2 DEF Word32
        <5> QED
          BY <5>1, <5>2
      <4>2. i - (a + 1) \notin byte /\ i - 1 = -1 /\ i \notin {1, 4}
        BY <3>2 DEF Byte8
      <4> QED
        BY <3>1, <3>2, <4>1, <4>2
    <3>3. CASE i # 0
      <4>1. i - 1 \in 0 .. 6 /\ i - 1 \in 0 .. 7 /\ (i - 1) - a = i - (a + 1)
        BY <3>3
      <4>2. i - 1 \in f[a] <=> ((i - 1 >= 1 /\ i - 1 - 1 \in R[a]) # (i - (a + 1) \in byte))
        BY <1>3, <4>1
      <4>3. i - 1 \in R[a + 1]
              <=> ((i - 1 - 1 \in R[a]) # (((6 \in R[a]) # (7 - a \in byte)) /\ i - 1 \in {0, 3}))
        <5> DEFINE j == i - 1
                   b == 7 - a \in byte
        <5>1. j \in 0 .. 7 - 1 /\ 7 \in Nat /\ 7 - 1 = 6 /\ b \in BOOLEAN
          BY <4>1
        <5> HIDE DEF j, b
        <5>2. j \in divided(R[a], BitOf(b), 7, {0, 3}) <=> ((j - 1 \in R[a]) # (((6 \in R[a]) # b) /\ j \in {0, 3}))
          BY <5>1, InDivided
        <5> QED
          BY <2>3, <5>2 DEF j, b
      <4>4. i - 1 - 1 \in R[a] => i - 1 >= 1
        <5>1. R[a] \in SUBSET (0 .. 6)
          BY DEF Divides7
        <5> QED
          BY <5>1
      <4>5. i \in {1, 4} <=> i - 1 \in {0, 3}
        OBVIOUS
      <4> QED
        BY <2>4, <3>1, <3>3, <4>1, <4>2, <4>3, <4>4, <4>5
    <3> QED
      BY <3>2, <3>3
  <2> QED
    BY <2>1, <2>5
<1>4. 8 \in T
  <2>1. \A a \in 0 .. 8 - 1 : a \in T => a + 1 \in T
    <3> HIDE DEF T
    <3> QED
      BY <1>3
  <2>2. \A a \in 0 .. 8 : a \in T
    <3> HIDE DEF T
    <3> QED
      BY <1>2, <2>1, ForAllBelow
  <2> HIDE DEF T
  <2> QED
    BY <2>2
<1>5. \A i \in 0 .. 7 : i - 8 \notin byte
  BY DEF Byte8
<1>6. Holds7(f[8], R[8])
  BY <1>4, <1>5 DEF Holds7
<1> QED
  BY <1>1, <1>6 DEF Shifts7

\* The register of crc7 behind each byte.
Bytes7(f, buff, n) ==
  /\ f \in [0 .. n -> Word32] /\ f[0] = {}
  /\ \A k \in 1 .. n : f[k] = crc7_byte(f[k - 1], buff[k])
  /\ crc7(buff) = f[n] \cap 1 .. 7

\* The register behind each byte, as a function of their number.
LEMMA Bytes7Exist ==
  ASSUME NEW n \in Nat, NEW buff \in [1 .. n -> Byte8], Len(buff) = n
  PROVE  \E f : Bytes7(f, buff, n)
<1> DEFINE none == {}
           Is(f) == f = [k \in 0 .. n |-> IF k = 0 THEN none ELSE crc7_byte(f[k - 1], buff[k])]
           g == [k \in Nat |-> [x \in Word32 |-> IF k \in 1 .. n THEN crc7_byte(x, buff[k]) ELSE x]]
<1>1. none \in Word32
  BY DEF Word32
<1>2. \A k \in 1 .. n, x \in Word32 : crc7_byte(x, buff[k]) \in Word32
  BY Shifts7Exist DEF Shifts7
<1>3. g \in [Nat -> [Word32 -> Word32]]
  BY <1>2
<1> HIDE DEF none
<1>4. PICK f \in [0 .. n -> Word32] : Steps(f, n, none, g)
  <2> HIDE DEF g
  <2> QED
    BY <1>1, <1>3, StepsExist
<1>5. Is(f)
  <2>1. f = [k \in 0 .. n |-> IF k = 0 THEN none ELSE g[k][f[k - 1]]]
    BY <1>4 DEF Steps
  <2>2. ASSUME NEW k \in 0 .. n, k # 0
        PROVE  g[k][f[k - 1]] = crc7_byte(f[k - 1], buff[k])
    <3>1. k \in Nat /\ k \in 1 .. n /\ f[k - 1] \in Word32
      BY <2>2
    <3> QED
      BY <3>1
  <2> HIDE DEF g
  <2> QED
    BY <2>1, <2>2
<1> DEFINE F == CHOOSE h : Is(h)
<1>6. Is(F)
  <2> HIDE DEF Is
  <2> QED
    BY <1>5
<1>7. crc7(buff) = F[n] \cap 1 .. 7
  BY DEF crc7, none
<1> HIDE DEF F
<1>8. F = [k \in 0 .. n |-> IF k = 0 THEN none ELSE crc7_byte(F[k - 1], buff[k])]
  BY <1>6 DEF F
<1>9. F[0] = none /\ \A k \in 1 .. n : F[k] = crc7_byte(F[k - 1], buff[k])
  BY <1>8
<1>10. F \in [0 .. n -> Word32]
  <2> DEFINE T == {k \in 0 .. n : F[k] \in Word32}
  <2>1. 0 \in T
    BY <1>1, <1>9
  <2>2. ASSUME NEW k \in 0 .. n - 1, k \in T
        PROVE  k + 1 \in T
    <3>1. k + 1 \in 1 .. n /\ k + 1 \in 0 .. n /\ (k + 1) - 1 = k
      OBVIOUS
    <3>2. F[k + 1] = crc7_byte(F[k], buff[k + 1]) /\ F[k] \in Word32
      BY <1>9, <2>2, <3>1
    <3> QED
      BY <1>2, <3>1, <3>2
  <2>3. \A k \in 0 .. n : k \in T
    <3> HIDE DEF T
    <3> QED
      BY <2>1, <2>2, ForAllBelow
  <2>4. F = [k \in 0 .. n |-> F[k]]
    BY <1>8
  <2> QED
    BY <2>3, <2>4
<1> QED
  BY <1>7, <1>9, <1>10 DEF Bytes7, none

\* The bits of the bytes, the highest first.
LEMMA ByteBitsAre ==
  ASSUME NEW n \in Nat, NEW buff, Len(buff) = n
  PROVE  /\ Len(ByteBits(buff)) = 8 * n
         /\ \A k \in 1 .. n, a \in 1 .. 8 : ByteBits(buff)[8 * (k - 1) + a] = BitOf(8 - a \in buff[k])
<1>1. Len(ByteBits(buff)) = 8 * n
  <2>1. ByteBits(buff) \in [1 .. 8 * n -> {0, 1}]
    BY DEF ByteBits, BitOf
  <2> QED
    BY <2>1
<1>2. ASSUME NEW k \in 1 .. n, NEW a \in 1 .. 8
      PROVE  ByteBits(buff)[8 * (k - 1) + a] = BitOf(8 - a \in buff[k])
  <2> DEFINE j == 8 * (k - 1) + a
  <2>1. j \in 1 .. 8 * n /\ 7 - ((j - 1) % 8) = 8 - a /\ (j - 1) \div 8 + 1 = k
    OBVIOUS
  <2> HIDE DEF j
  <2>2. ByteBits(buff)[j] = BitOf(8 - a \in buff[k])
    BY <2>1 DEF ByteBits
  <2> QED
    BY <2>2 DEF j
<1> QED
  BY <1>1, <1>2

\* crc7 is the remainder of the command, of any length, by the generator of the
\* SD specification, one place up (disk.c:205-218).
THEOREM Crc7IsRemainder ==
  ASSUME NEW buff \in Seq(Byte8)
  PROVE  {i - 1 : i \in crc7(buff)} = SpecCrc7(buff)
<1> DEFINE n == Len(buff)
           m == ByteBits(buff)
<1>1. n \in Nat /\ Len(buff) = n /\ buff \in [1 .. n -> Byte8]
  OBVIOUS
<1>2. Len(m) = 8 * n /\ \A k \in 1 .. n, a \in 1 .. 8 : m[8 * (k - 1) + a] = BitOf(8 - a \in buff[k])
  <2> HIDE DEF n
  <2> QED
    BY <1>1, ByteBitsAre
<1>3. SpecCrc7(buff) = Remainder(m, 7, {0, 3})
  BY DEF SpecCrc7
<1>4. PICK f : Bytes7(f, buff, n)
  BY <1>1, Bytes7Exist
<1> HIDE DEF m
<1>5. PICK R : Divides(R, m, 8 * n, 7, {0, 3})
  <2>1. 8 * n \in Nat /\ 7 \in Nat /\ {0, 3} \in SUBSET (0 .. 7 - 1)
    OBVIOUS
  <2> QED
    BY <1>2, <2>1, RemainderSteps
<1> HIDE DEF n
<1>6. /\ R \in [0 .. 8 * n -> SUBSET (0 .. 6)] /\ R[0] = {} /\ SpecCrc7(buff) = R[8 * n]
      /\ \A k \in 1 .. 8 * n : R[k] = divided(R[k - 1], m[k], 7, {0, 3})
  BY <1>3, <1>5 DEF Divides
<1> DEFINE T == {k \in 0 .. n : Holds7(f[k], R[8 * k])}
<1>7. 0 \in T
  BY <1>1, <1>4, <1>6 DEF Bytes7, Holds7
<1>8. ASSUME NEW k \in 0 .. n - 1, k \in T
      PROVE  k + 1 \in T
  <2> DEFINE Q == [a \in 0 .. 8 |-> R[8 * k + a]]
             byte == buff[k + 1]
  <2>1. k + 1 \in 1 .. n /\ k + 1 \in 0 .. n /\ k \in 0 .. n /\ (k + 1) - 1 = k /\ 8 * (k + 1) = 8 * k + 8
    BY <1>1
  <2>2. byte \in Byte8 /\ f[k] \in Word32 /\ f[k + 1] = crc7_byte(f[k], byte)
    BY <1>1, <1>4, <2>1 DEF Bytes7
  <2>3. Q[0] = R[8 * k] /\ Q[8] = R[8 * (k + 1)]
    BY <1>1, <2>1
  <2>4. Divides7(Q, byte)
    <3>1. ASSUME NEW a \in 0 .. 8
          PROVE  8 * k + a \in 0 .. 8 * n /\ Q[a] = R[8 * k + a]
      BY <1>1
    <3>2. Q \in [0 .. 8 -> SUBSET (0 .. 6)]
      BY <1>6, <3>1
    <3>3. ASSUME NEW a \in 1 .. 8
          PROVE  Q[a] = divided(Q[a - 1], BitOf(8 - a \in byte), 7, {0, 3})
      <4>1. /\ a - 1 \in 0 .. 8 /\ a \in 0 .. 8 /\ 8 * k + a \in 1 .. 8 * n
            /\ 8 * k + a - 1 = 8 * k + (a - 1) /\ 8 * ((k + 1) - 1) + a = 8 * k + a
        BY <1>1
      <4>2. R[8 * k + a] = divided(R[8 * k + (a - 1)], m[8 * k + a], 7, {0, 3})
        BY <1>6, <4>1
      <4>3. m[8 * k + a] = BitOf(8 - a \in byte)
        BY <1>2, <2>1, <4>1
      <4> QED
        BY <3>1, <4>1, <4>2, <4>3
    <3> HIDE DEF Q
    <3> QED
      BY <3>2, <3>3 DEF Divides7
  <2>5. Holds7(f[k + 1], R[8 * (k + 1)])
    <3> HIDE DEF Q, byte
    <3>1. Holds7(f[k], Q[0])
      BY <1>8, <2>3
    <3>2. Holds7(crc7_byte(f[k], byte), Q[8])
      BY <2>2, <2>4, <3>1, Crc7OneByte
    <3> QED
      BY <2>2, <2>3, <3>2
  <2> QED
    BY <2>1, <2>5
<1>9. n \in T
  <2>1. \A k \in 0 .. n : k \in T
    <3> HIDE DEF T
    <3> QED
      BY <1>1, <1>7, <1>8, ForAllBelow
  <2> HIDE DEF T
  <2> QED
    BY <1>1, <2>1
<1>10. crc7(buff) = f[n] \cap 1 .. 7 /\ Holds7(f[n], R[8 * n]) /\ R[8 * n] \in SUBSET (0 .. 6)
  <2>1. 8 * n \in 0 .. 8 * n
    BY <1>1
  <2> QED
    BY <1>4, <1>6, <1>9, <2>1 DEF Bytes7
<1>11. ASSUME NEW x
       PROVE  x \in {i - 1 : i \in crc7(buff)} <=> x \in R[8 * n]
  <2>1. ASSUME x \in {i - 1 : i \in crc7(buff)}
        PROVE  x \in R[8 * n]
    <3>1. PICK i \in 1 .. 7 : i \in f[n] /\ x = i - 1
      BY <1>10, <2>1
    <3> QED
      BY <1>10, <3>1 DEF Holds7
  <2>2. ASSUME x \in R[8 * n]
        PROVE  x \in {i - 1 : i \in crc7(buff)}
    <3>1. x \in 0 .. 6 /\ x + 1 \in 1 .. 7 /\ (x + 1) - 1 = x
      BY <1>10, <2>2
    <3>2. x + 1 \in f[n]
      BY <1>10, <2>2, <3>1 DEF Holds7
    <3>3. x + 1 \in crc7(buff)
      BY <1>10, <3>1, <3>2
    <3> QED
      BY <3>1, <3>3
  <2> QED
    BY <2>1, <2>2
<1> QED
  BY <1>6, <1>11

\* The bit that line l carries at clock j of four bytes.
LaneBit(four, l, j) == (IF j % 2 = 1 THEN 4 + l ELSE l) \in four[(j + 1) \div 2]

\* What sdCrc16 gathers for a line are its bits, the first one the highest.
LEMMA LaneBits ==
  ASSUME NEW four, NEW l \in 0 .. 3
  PROVE  /\ crc_bit_table(lane(four, l)) \in Byte8
         /\ \A j \in 1 .. 8 : 8 - j \in crc_bit_table(lane(four, l)) <=> LaneBit(four, l, j)
<1> DEFINE x == lane(four, l)
           v == crc_bit_table(x)
<1>1. x \in SUBSET (0 .. 7)
  BY DEF lane
<1>2. \A i \in 4 .. 7 : i \in x <=> 4 + l \in four[8 - i]
  <2> SUFFICES ASSUME NEW i \in 4 .. 7 PROVE i \in x <=> 4 + l \in four[8 - i]
    OBVIOUS
  <2>1. ASSUME i \in x PROVE 4 + l \in four[8 - i]
    <3>1. PICK n \in 0 .. 3 : i = 7 - n /\ 4 + l \in four[n + 1]
      BY <2>1 DEF lane
    <3>2. n + 1 = 8 - i
      BY <3>1
    <3> QED
      BY <3>1, <3>2
  <2>2. ASSUME 4 + l \in four[8 - i] PROVE i \in x
    <3>1. 7 - i \in 0 .. 3 /\ (7 - i) + 1 = 8 - i /\ i = 7 - (7 - i)
      OBVIOUS
    <3> QED
      BY <2>2, <3>1 DEF lane
  <2> QED
    BY <2>1, <2>2
<1>3. \A i \in 0 .. 3 : i \in x <=> l \in four[4 - i]
  <2> SUFFICES ASSUME NEW i \in 0 .. 3 PROVE i \in x <=> l \in four[4 - i]
    OBVIOUS
  <2>1. ASSUME i \in x PROVE l \in four[4 - i]
    <3>1. PICK n \in 0 .. 3 : i = 3 - n /\ l \in four[n + 1]
      BY <2>1 DEF lane
    <3>2. n + 1 = 4 - i
      BY <3>1
    <3> QED
      BY <3>1, <3>2
  <2>2. ASSUME l \in four[4 - i] PROVE i \in x
    <3>1. 3 - i \in 0 .. 3 /\ (3 - i) + 1 = 4 - i /\ i = 3 - (3 - i)
      OBVIOUS
    <3> QED
      BY <2>2, <3>1 DEF lane
  <2> QED
    BY <2>1, <2>2
<1> HIDE DEF x
<1>4. v \in Byte8
  BY <1>1 DEF crc_bit_table, Byte8
<1>5. \A i \in 4 .. 7 : 2 * i - 7 \in v <=> i \in x
  <2> SUFFICES ASSUME NEW i \in 4 .. 7 PROVE 2 * i - 7 \in v <=> i \in x
    OBVIOUS
  <2>1. ASSUME 2 * i - 7 \in v PROVE i \in x
    <3>1. PICK k \in x : 2 * i - 7 = IF k >= 4 THEN 2 * k - 7 ELSE 2 * k
      BY <2>1 DEF crc_bit_table
    <3>2. k = i
      BY <1>1, <3>1
    <3> QED
      BY <3>2
  <2>2. ASSUME i \in x PROVE 2 * i - 7 \in v
    BY <2>2 DEF crc_bit_table
  <2> QED
    BY <2>1, <2>2
<1>6. \A i \in 0 .. 3 : 2 * i \in v <=> i \in x
  <2> SUFFICES ASSUME NEW i \in 0 .. 3 PROVE 2 * i \in v <=> i \in x
    OBVIOUS
  <2>1. ASSUME 2 * i \in v PROVE i \in x
    <3>1. PICK k \in x : 2 * i = IF k >= 4 THEN 2 * k - 7 ELSE 2 * k
      BY <2>1 DEF crc_bit_table
    <3>2. k = i
      BY <1>1, <3>1
    <3> QED
      BY <3>2
  <2>2. ASSUME i \in x PROVE 2 * i \in v
    BY <2>2 DEF crc_bit_table
  <2> QED
    BY <2>1, <2>2
<1> HIDE DEF v
<1>7. ASSUME NEW j \in 1 .. 8
      PROVE  8 - j \in v <=> LaneBit(four, l, j)
  <2>1. CASE j % 2 = 1
    <3> DEFINE h == (j + 1) \div 2
    <3>1. h \in 1 .. 4 /\ 2 * (8 - h) - 7 = 8 - j
      BY <2>1
    <3> HIDE DEF h
    <3>2. 8 - h \in 4 .. 7 /\ 8 - (8 - h) = h
      BY <3>1
    <3>3. 8 - j \in v <=> 8 - h \in x
      BY <1>5, <3>1, <3>2
    <3>4. 8 - h \in x <=> 4 + l \in four[h]
      BY <1>2, <3>2
    <3> QED
      BY <2>1, <3>3, <3>4 DEF LaneBit, h
  <2>2. CASE j % 2 # 1
    <3> DEFINE h == (j + 1) \div 2
    <3>1. h \in 1 .. 4 /\ 2 * (4 - h) = 8 - j
      BY <2>2
    <3> HIDE DEF h
    <3>2. 4 - h \in 0 .. 3 /\ 4 - (4 - h) = h
      BY <3>1
    <3>3. 8 - j \in v <=> 4 - h \in x
      BY <1>6, <3>1, <3>2
    <3>4. 4 - h \in x <=> l \in four[h]
      BY <1>3, <3>2
    <3> QED
      BY <2>2, <3>3, <3>4 DEF LaneBit, h
  <2> QED
    BY <2>1, <2>2
<1> QED
  BY <1>4, <1>7 DEF v, x

Word16 == SUBSET (0 .. 15)
Generator == {0, 5, 12}

\* R is the remainder behind each of eight bits, which are those of v.
Divides16(R, v) ==
  /\ R \in [0 .. 8 -> Word16]
  /\ \A a \in 1 .. 8 : R[a] = divided(R[a - 1], BitOf(8 - a \in v), 16, Generator)

\* One step of the table takes eight bits at once.
LEMMA Crc16OneByte ==
  ASSUME NEW v \in Byte8, NEW R, Divides16(R, v)
  PROVE  R[8] = Xor(Table16(Number(Xor(Right(R[0], 8), v), 8)), Left(R[0], 8, 16))
<1> DEFINE crc == R[0]
           u == Xor(Right(crc, 8), v)
           m == ByteBits(<<u>>)
<1>1. crc \in Word16 /\ \A a \in 0 .. 8 : R[a] \in Word16
  BY DEF Divides16
<1>2. \A i \in 0 .. 7 : i \in u <=> ((i + 8 \in crc) # (i \in v))
  <2> SUFFICES ASSUME NEW i \in 0 .. 7 PROVE i \in u <=> ((i + 8 \in crc) # (i \in v))
    OBVIOUS
  <2> HIDE DEF crc
  <2>1. i \in Right(crc, 8) <=> i + 8 \in crc
    <3>1. crc \in SUBSET Nat /\ 8 \in Nat /\ i \in Nat
      BY <1>1 DEF Word16
    <3> QED
      BY <3>1, InRight
  <2> QED
    BY <2>1, InXor
<1>3. u \in Byte8
  <2> HIDE DEF crc
  <2>1. Right(crc, 8) \in Byte8
    BY <1>1 DEF Right, Word16, Byte8
  <2> QED
    BY <2>1 DEF Xor, Byte8
<1>4. Table16(Number(u, 8)) = Remainder(m, 16, Generator)
  <2> HIDE DEF u
  <2> QED
    BY <1>3, TableAssumption DEF Byte8, Generator
<1> HIDE DEF u
<1>5. Len(m) = 8 /\ \A a \in 1 .. 8 : m[a] = BitOf(8 - a \in u)
  <2>1. Len(<<u>>) = 1 /\ 1 \in Nat /\ 1 \in 1 .. 1 /\ <<u>>[1] = u
    OBVIOUS
  <2> DEFINE y == <<u>>
  <2> HIDE DEF y
  <2>2. Len(ByteBits(y)) = 8 * 1 /\ \A k \in 1 .. 1, a \in 1 .. 8 : ByteBits(y)[8 * (k - 1) + a] = BitOf(8 - a \in y[k])
    BY <2>1, ByteBitsAre DEF y
  <2>3. ASSUME NEW a \in 1 .. 8
        PROVE  ByteBits(y)[a] = BitOf(8 - a \in u)
    <3>1. 8 * (1 - 1) + a = a
      OBVIOUS
    <3>2. ByteBits(y)[8 * (1 - 1) + a] = BitOf(8 - a \in y[1])
      BY <2>2
    <3> QED
      BY <2>1, <3>1, <3>2 DEF y
  <2> QED
    BY <2>2, <2>3 DEF y
<1> HIDE DEF m
<1>6. PICK Z : Divides(Z, m, 8, 16, Generator)
  <2>1. 8 \in Nat /\ 16 \in Nat /\ Generator \in SUBSET (0 .. 16 - 1)
    BY DEF Generator
  <2> QED
    BY <1>5, <2>1, RemainderSteps
<1>7. /\ Z \in [0 .. 8 -> Word16] /\ Z[0] = {} /\ Remainder(m, 16, Generator) = Z[8]
      /\ \A a \in 1 .. 8 : Z[a] = divided(Z[a - 1], BitOf(8 - a \in u), 16, Generator)
  BY <1>5, <1>6 DEF Divides, Word16
<1> DEFINE Apart(a, i) == i \in R[a] <=> ((i \in Z[a]) # (i - a \in crc))
           T == {a \in 0 .. 8 : \A i \in 0 .. 15 : Apart(a, i)}
<1>8. 0 \in T
  <2>1. \A i \in 0 .. 15 : i - 0 = i
    OBVIOUS
  <2> QED
    BY <1>7, <2>1
<1>9. ASSUME NEW a \in 0 .. 7, a \in T
      PROVE  a + 1 \in T
  <2> DEFINE b == 7 - a \in v
             c == 7 - a \in u
  <2>1. a + 1 \in 1 .. 8 /\ (a + 1) - 1 = a /\ 8 - (a + 1) = 7 - a /\ b \in BOOLEAN /\ c \in BOOLEAN
    OBVIOUS
  <2>2. R[a + 1] = divided(R[a], BitOf(b), 16, Generator) /\ Z[a + 1] = divided(Z[a], BitOf(c), 16, Generator)
    BY <1>7, <2>1 DEF Divides16
  <2>3. c <=> ((15 - a \in crc) # b)
    <3>1. 7 - a \in 0 .. 7 /\ 7 - a + 8 = 15 - a
      OBVIOUS
    <3> HIDE DEF crc
    <3> QED
      BY <1>2, <3>1
  <2>4. 15 \in R[a] <=> ((15 \in Z[a]) # (15 - a \in crc))
    BY <1>9
  <2> HIDE DEF b, c, crc
  <2>5. ASSUME NEW i \in 0 .. 15
        PROVE  i \in R[a + 1] <=> ((i \in Z[a + 1]) # (i - (a + 1) \in crc))
    <3>1. i \in 0 .. 16 - 1 /\ 16 \in Nat /\ 16 - 1 = 15
      OBVIOUS
    <3>2. i \in R[a + 1] <=> ((i - 1 \in R[a]) # (((15 \in R[a]) # b) /\ i \in Generator))
      BY <2>1, <2>2, <3>1, InDivided
    <3>3. i \in Z[a + 1] <=> ((i - 1 \in Z[a]) # (((15 \in Z[a]) # c) /\ i \in Generator))
      BY <2>1, <2>2, <3>1, InDivided
    <3>4. i - 1 \in R[a] <=> ((i - 1 \in Z[a]) # (i - (a + 1) \in crc))
      <4>1. CASE i = 0
        <5>1. R[a] \in Word16 /\ Z[a] \in Word16
          BY <1>1, <1>7
        <5> QED
          BY <1>1, <4>1, <5>1 DEF Word16
      <4>2. CASE i # 0
        <5>1. i - 1 \in 0 .. 15 /\ (i - 1) - a = i - (a + 1)
          BY <4>2
        <5> QED
          BY <1>9, <5>1 DEF crc
      <4> QED
        BY <4>1, <4>2
    <3> QED
      BY <2>3, <2>4, <3>2, <3>3, <3>4 DEF b, c
  <2> QED
    BY <2>1, <2>5 DEF crc
<1>10. 8 \in T
  <2>1. \A a \in 0 .. 8 - 1 : a \in T => a + 1 \in T
    <3> HIDE DEF T
    <3> QED
      BY <1>9
  <2>2. \A a \in 0 .. 8 : a \in T
    <3> HIDE DEF T
    <3> QED
      BY <1>8, <2>1, ForAllBelow
  <2> HIDE DEF T
  <2> QED
    BY <2>2
<1>11. Z[8] = Table16(Number(u, 8))
  BY <1>4, <1>7
<1> DEFINE s == Xor(Z[8], Left(crc, 8, 16))
<1>12. ASSUME NEW i
       PROVE  i \in R[8] <=> i \in s
  <2> HIDE DEF crc
  <2>1. i \in s <=> ((i \in Z[8]) # (i \in 0 .. 15 /\ i - 8 \in crc))
    BY InXor, InLeft
  <2>2. R[8] \in Word16 /\ Z[8] \in Word16
    BY <1>1, <1>7
  <2>3. CASE i \in 0 .. 15
    BY <1>10, <2>1, <2>3 DEF crc
  <2>4. CASE i \notin 0 .. 15
    BY <2>1, <2>2, <2>4 DEF Word16
  <2> QED
    BY <2>3, <2>4
<1> QED
  BY <1>11, <1>12 DEF u

\* A step gives a checksum of 16 bits.
LEMMA StepType == \A crc, val : crc_step(crc, val) \in Word16
BY DEF crc_step, Xor, Left, Table16, Bits, Word16

\* The four checksums, and what four more bytes make of them.
Four == [0 .. 3 -> Word16]
Stepped4(x, src, i) == [l \in 0 .. 3 |-> crc_step(x[l], lane(SubSeq(src, 4 * i - 3, 4 * i), l))]

\* crc_table behind each four bytes.
Tables(f, src, n) ==
  /\ f \in [0 .. n -> Four] /\ \A l \in 0 .. 3 : f[0][l] = {}
  /\ \A i \in 1 .. n : f[i] = Stepped4(f[i - 1], src, i)
  /\ crc_table(src) = f[n]

\* The four checksums behind each four bytes, as a function of their number.
LEMMA TablesExist ==
  ASSUME NEW src, NEW n \in Nat, Len(src) \div 4 = n
  PROVE  \E f : Tables(f, src, n)
<1> DEFINE none == [l \in 0 .. 3 |-> {}]
           Is(f) == f = [i \in 0 .. n |-> IF i = 0 THEN none ELSE Stepped4(f[i - 1], src, i)]
           g == [k \in Nat |-> [x \in Four |-> Stepped4(x, src, k)]]
<1>1. none \in Four /\ \A l \in 0 .. 3 : none[l] = {}
  BY DEF Four, Word16
<1>2. \A k, x : Stepped4(x, src, k) \in Four
  BY StepType DEF Stepped4, Four
<1>3. g \in [Nat -> [Four -> Four]]
  BY <1>2
<1> HIDE DEF none
<1>4. PICK f \in [0 .. n -> Four] : Steps(f, n, none, g)
  <2> HIDE DEF g
  <2> QED
    BY <1>1, <1>3, StepsExist
<1>5. Is(f)
  <2>1. f = [k \in 0 .. n |-> IF k = 0 THEN none ELSE g[k][f[k - 1]]]
    BY <1>4 DEF Steps
  <2>2. ASSUME NEW k \in 0 .. n, k # 0
        PROVE  g[k][f[k - 1]] = Stepped4(f[k - 1], src, k)
    <3>1. k \in Nat /\ f[k - 1] \in Four
      BY <2>2
    <3> QED
      BY <3>1
  <2> HIDE DEF g
  <2> QED
    BY <2>1, <2>2
<1> DEFINE F == CHOOSE h : Is(h)
<1>6. Is(F)
  <2> HIDE DEF Is
  <2> QED
    BY <1>5
<1>7. crc_table(src) = F[n]
  BY Zenon DEF crc_table, none, Stepped4
<1> HIDE DEF F
<1>8. F = [i \in 0 .. n |-> IF i = 0 THEN none ELSE Stepped4(F[i - 1], src, i)]
  BY <1>6 DEF F
<1>9. F[0] = none /\ \A i \in 1 .. n : F[i] = Stepped4(F[i - 1], src, i)
  BY <1>8
<1>10. F \in [0 .. n -> Four]
  BY <1>1, <1>2, <1>8
<1> QED
  BY <1>1, <1>7, <1>9, <1>10 DEF Tables

\* What line l carries for four bytes.
LEMMA LineBitsAre ==
  ASSUME NEW S, NEW src \in Seq(S), NEW n \in Nat, Len(src) = 4 * n, NEW l \in 0 .. 3
  PROVE  /\ Len(LineBits(src, l)) = 8 * n
         /\ \A k \in 1 .. n, a \in 1 .. 8 :
              LineBits(src, l)[8 * (k - 1) + a] = BitOf(LaneBit(SubSeq(src, 4 * k - 3, 4 * k), l, a))
<1>1. Len(LineBits(src, l)) = 8 * n
  <2>1. LineBits(src, l) \in [1 .. 8 * n -> {0, 1}]
    <3>1. 2 * Len(src) = 8 * n
      OBVIOUS
    <3> QED
      BY <3>1 DEF LineBits, BitOf
  <2> QED
    BY <2>1
<1>2. ASSUME NEW k \in 1 .. n, NEW a \in 1 .. 8
      PROVE  LineBits(src, l)[8 * (k - 1) + a] = BitOf(LaneBit(SubSeq(src, 4 * k - 3, 4 * k), l, a))
  <2> DEFINE j == 8 * (k - 1) + a
             h == (a + 1) \div 2
  <2>1. j \in 1 .. 2 * Len(src) /\ j % 2 = a % 2 /\ (j + 1) \div 2 = 4 * k - 4 + h /\ h \in 1 .. 4
    OBVIOUS
  <2>2. SubSeq(src, 4 * k - 3, 4 * k)[h] = src[4 * k - 4 + h]
    <3> HIDE DEF h
    <3>1. 4 * k - 3 \in 1 .. Len(src) /\ 4 * k \in 1 .. Len(src) /\ h \in 1 .. 4 * k - (4 * k - 3) + 1
      BY <2>1
    <3>2. 4 * k - 3 + h - 1 = 4 * k - 4 + h
      BY <2>1
    <3> DEFINE x == 4 * k - 3
               y == 4 * k
    <3>3. x \in 1 .. Len(src) /\ y \in 1 .. Len(src) /\ h \in 1 .. y - x + 1
      BY <3>1
    <3> HIDE DEF x, y
    <3>4. SubSeq(src, x, y)[h] = src[x + h - 1]
      BY <3>3
    <3> QED
      BY <3>2, <3>4 DEF x, y
  <2> HIDE DEF j
  <2>3. LineBits(src, l)[j] = BitOf((IF j % 2 = 1 THEN 4 + l ELSE l) \in src[(j + 1) \div 2])
    BY <2>1 DEF LineBits
  <2> QED
    BY <2>1, <2>2, <2>3 DEF j, LaneBit
<1> QED
  BY <1>1, <1>2

\* crc_table holds the remainder of what each line carries.
LEMMA TableIs ==
  ASSUME NEW src \in Seq(Byte8), NEW n \in Nat, Len(src) = 4 * n, NEW l \in 0 .. 3
  PROVE  crc_table(src)[l] = SpecLine(src, l)
<1> DEFINE m == LineBits(src, l)
<1>1. /\ Len(m) = 8 * n
      /\ \A k \in 1 .. n, a \in 1 .. 8 : m[8 * (k - 1) + a] = BitOf(LaneBit(SubSeq(src, 4 * k - 3, 4 * k), l, a))
  BY LineBitsAre
<1>2. SpecLine(src, l) = Remainder(m, 16, Generator)
  BY DEF SpecLine, Generator
<1>3. PICK f : Tables(f, src, n)
  <2>1. Len(src) \div 4 = n
    OBVIOUS
  <2> QED
    BY <2>1, TablesExist
<1> HIDE DEF m
<1>4. PICK R : Divides(R, m, 8 * n, 16, Generator)
  <2>1. 8 * n \in Nat /\ 16 \in Nat /\ Generator \in SUBSET (0 .. 16 - 1)
    BY DEF Generator
  <2> QED
    BY <1>1, <2>1, RemainderSteps
<1>5. /\ R \in [0 .. 8 * n -> Word16] /\ R[0] = {} /\ SpecLine(src, l) = R[8 * n]
      /\ \A k \in 1 .. 8 * n : R[k] = divided(R[k - 1], m[k], 16, Generator)
  BY <1>2, <1>4 DEF Divides, Word16
<1> DEFINE T == {k \in 0 .. n : f[k][l] = R[8 * k]}
<1>6. 0 \in T
  <2>1. 0 \in 0 .. n /\ 8 * 0 = 0
    OBVIOUS
  <2>2. f[0][l] = R[0]
    BY <1>3, <1>5 DEF Tables
  <2> QED
    BY <2>1, <2>2
<1>7. ASSUME NEW k \in 0 .. n - 1, k \in T
      PROVE  k + 1 \in T
  <2> DEFINE Q == [a \in 0 .. 8 |-> R[8 * k + a]]
             four == SubSeq(src, 4 * (k + 1) - 3, 4 * (k + 1))
             x == lane(four, l)
             v == crc_bit_table(x)
  <2>1. k + 1 \in 1 .. n /\ k + 1 \in 0 .. n /\ k \in 0 .. n /\ (k + 1) - 1 = k /\ 8 * (k + 1) = 8 * k + 8
    OBVIOUS
  <2>2. f[k + 1][l] = crc_step(f[k][l], x)
    <3>1. f[k + 1] = Stepped4(f[k], src, k + 1)
      BY <1>3, <2>1 DEF Tables
    <3> QED
      BY <3>1 DEF Stepped4
  <2> HIDE DEF four
  <2>3. v \in Byte8 /\ \A j \in 1 .. 8 : 8 - j \in v <=> LaneBit(four, l, j)
    BY LaneBits
  <2> HIDE DEF v
  <2>4. Q[0] = R[8 * k] /\ Q[8] = R[8 * (k + 1)]
    BY <2>1
  <2>5. Divides16(Q, v)
    <3>1. ASSUME NEW a \in 0 .. 8
          PROVE  8 * k + a \in 0 .. 8 * n /\ Q[a] = R[8 * k + a]
      OBVIOUS
    <3>2. Q \in [0 .. 8 -> Word16]
      BY <1>5, <3>1
    <3>3. ASSUME NEW a \in 1 .. 8
          PROVE  Q[a] = divided(Q[a - 1], BitOf(8 - a \in v), 16, Generator)
      <4>1. /\ a - 1 \in 0 .. 8 /\ a \in 0 .. 8 /\ 8 * k + a \in 1 .. 8 * n
            /\ 8 * k + a - 1 = 8 * k + (a - 1) /\ 8 * ((k + 1) - 1) + a = 8 * k + a
        OBVIOUS
      <4>2. R[8 * k + a] = divided(R[8 * k + (a - 1)], m[8 * k + a], 16, Generator)
        BY <1>5, <4>1
      <4>3. m[8 * k + a] = BitOf(LaneBit(four, l, a))
        BY <1>1, <2>1, <4>1 DEF four
      <4>4. BitOf(LaneBit(four, l, a)) = BitOf(8 - a \in v)
        BY <2>3 DEF BitOf
      <4> QED
        BY <3>1, <4>1, <4>2, <4>3, <4>4
    <3> HIDE DEF Q
    <3> QED
      BY <3>2, <3>3 DEF Divides16
  <2>6. f[k + 1][l] = R[8 * (k + 1)]
    <3> HIDE DEF Q, x
    <3>1. Q[8] = Xor(Table16(Number(Xor(Right(Q[0], 8), v), 8)), Left(Q[0], 8, 16))
      BY <2>3, <2>5, Crc16OneByte
    <3>2. crc_step(Q[0], x) = Q[8]
      BY <3>1 DEF crc_step, v
    <3>3. f[k][l] = Q[0]
      BY <1>7, <2>4
    <3> QED
      BY <2>2, <2>4, <3>2, <3>3
  <2> QED
    BY <2>1, <2>6
<1>8. n \in T
  <2>1. \A k \in 0 .. n : k \in T
    <3> HIDE DEF T
    <3> QED
      BY <1>6, <1>7, ForAllBelow
  <2>2. n \in 0 .. n
    OBVIOUS
  <2> HIDE DEF T
  <2> QED
    BY <2>1, <2>2
<1> QED
  BY <1>3, <1>5, <1>8 DEF Tables

\* The checksums and crc_out behind each bit that shuffle moves.
Moves(s, crcs, out) ==
  /\ s[0] = [crcs |-> crcs, out |-> out]
  /\ \A n \in 0 .. 63 : s[n + 1] = shuffle_bit(s[n], n)
  /\ shuffle(crcs, out) = s[64].out

Shuffling == [crcs : Four, out : Four]

\* A bit that is moved, place by place: line n % 4 and word 3 - n / 16 move on by
\* one and the others stay.
LEMMA MovedIs ==
  ASSUME NEW s \in Shuffling, NEW n \in 0 .. 63
  PROVE  /\ shuffle_bit(s, n) \in Shuffling
         /\ \A l \in 0 .. 3, i \in 0 .. 15 :
              i \in shuffle_bit(s, n).crcs[l] <=> (IF l = n % 4 THEN i + 1 ELSE i) \in s.crcs[l]
         /\ \A w \in 0 .. 3, i \in 0 .. 15 :
              i \in shuffle_bit(s, n).out[w]
                <=> IF w = 3 - n \div 16 THEN (IF i = 15 THEN 0 \in s.crcs[n % 4] ELSE i + 1 \in s.out[w])
                    ELSE i \in s.out[w]
<1> DEFINE w0 == 3 - n \div 16
           l0 == n % 4
           c == [s.crcs EXCEPT ![l0] = Right(s.crcs[l0], 1)]
           new == Right(s.out[w0], 1) \cup (IF 0 \in s.crcs[l0] THEN {15} ELSE {})
           o == [s.out EXCEPT ![w0] = new]
<1>1. w0 \in 0 .. 3 /\ l0 \in 0 .. 3
  OBVIOUS
<1>2. s.crcs \in Four /\ s.out \in Four
  BY DEF Shuffling
<1>3. shuffle_bit(s, n) = [crcs |-> c, out |-> o]
  BY DEF shuffle_bit
<1> HIDE DEF w0, l0
<1>4. ASSUME NEW x \in Word16
      PROVE  /\ Right(x, 1) \in Word16 /\ 15 \notin Right(x, 1)
             /\ \A i \in 0 .. 15 : i \in Right(x, 1) <=> i + 1 \in x
  <2>1. x \in SUBSET Nat /\ 1 \in Nat
    BY DEF Word16
  <2>2. \A i \in Nat : i \in Right(x, 1) <=> i + 1 \in x
    BY <2>1, InRight
  <2>3. Right(x, 1) \in SUBSET Nat
    BY DEF Right
  <2>4. \A i \in Nat : i \in Right(x, 1) => i \in 0 .. 14
    BY <2>2 DEF Word16
  <2> QED
    BY <2>2, <2>3, <2>4 DEF Word16
<1>5. s.crcs[l0] \in Word16 /\ s.out[w0] \in Word16
  BY <1>1, <1>2 DEF Four
<1>6. c \in Four /\ \A l \in 0 .. 3 : c[l] = IF l = l0 THEN Right(s.crcs[l0], 1) ELSE s.crcs[l]
  BY <1>1, <1>2, <1>4, <1>5 DEF Four
<1>7. new \in Word16 /\ \A i \in 0 .. 15 : i \in new <=> IF i = 15 THEN 0 \in s.crcs[l0] ELSE i + 1 \in s.out[w0]
  <2>1. /\ Right(s.out[w0], 1) \in Word16 /\ 15 \notin Right(s.out[w0], 1)
        /\ \A i \in 0 .. 15 : i \in Right(s.out[w0], 1) <=> i + 1 \in s.out[w0]
    BY <1>4, <1>5
  <2>2. CASE 0 \in s.crcs[l0]
    <3>1. new = Right(s.out[w0], 1) \cup {15}
      BY <2>2
    <3> HIDE DEF new
    <3> QED
      BY <2>1, <2>2, <3>1 DEF Word16
  <2>3. CASE 0 \notin s.crcs[l0]
    <3>1. new = Right(s.out[w0], 1)
      BY <2>3
    <3> HIDE DEF new
    <3> QED
      BY <2>1, <2>3, <3>1
  <2> QED
    BY <2>2, <2>3
<1> HIDE DEF new
<1>8. o \in Four /\ \A w \in 0 .. 3 : o[w] = IF w = w0 THEN new ELSE s.out[w]
  BY <1>1, <1>2, <1>7 DEF Four
<1> HIDE DEF c, o
<1>9. shuffle_bit(s, n) \in Shuffling /\ shuffle_bit(s, n).crcs = c /\ shuffle_bit(s, n).out = o
  BY <1>3, <1>6, <1>8 DEF Shuffling
<1>10. ASSUME NEW l \in 0 .. 3, NEW i \in 0 .. 15
       PROVE  i \in c[l] <=> (IF l = l0 THEN i + 1 ELSE i) \in s.crcs[l]
  BY <1>4, <1>5, <1>6
<1>11. ASSUME NEW w \in 0 .. 3, NEW i \in 0 .. 15
       PROVE  i \in o[w] <=> IF w = w0 THEN (IF i = 15 THEN 0 \in s.crcs[l0] ELSE i + 1 \in s.out[w])
                             ELSE i \in s.out[w]
  BY <1>7, <1>8
<1> QED
  BY <1>9, <1>10, <1>11 DEF l0, w0

\* The 64 moves, as a function of their number.
LEMMA MovesExist ==
  ASSUME NEW crcs \in Four, NEW out \in Four
  PROVE  \E s : Moves(s, crcs, out) /\ \A n \in 0 .. 64 : s[n] \in Shuffling
<1> DEFINE a == [crcs |-> crcs, out |-> out]
           Is(f) == f = [n \in 0 .. 64 |-> IF n = 0 THEN a ELSE shuffle_bit(f[n - 1], n - 1)]
           g == [k \in Nat |-> [x \in Shuffling |-> IF k \in 1 .. 64 THEN shuffle_bit(x, k - 1) ELSE x]]
<1>1. a \in Shuffling
  BY DEF Shuffling
<1>2. \A k \in 1 .. 64, x \in Shuffling : shuffle_bit(x, k - 1) \in Shuffling
  <2> SUFFICES ASSUME NEW k \in 1 .. 64, NEW x \in Shuffling PROVE shuffle_bit(x, k - 1) \in Shuffling
    OBVIOUS
  <2>1. k - 1 \in 0 .. 63
    OBVIOUS
  <2> QED
    BY <2>1, MovedIs
<1>3. g \in [Nat -> [Shuffling -> Shuffling]]
  BY <1>2
<1> HIDE DEF a
<1>4. PICK f \in [0 .. 64 -> Shuffling] : Steps(f, 64, a, g)
  <2> HIDE DEF g
  <2> QED
    BY <1>1, <1>3, StepsExist
<1>5. Is(f)
  <2>1. f = [k \in 0 .. 64 |-> IF k = 0 THEN a ELSE g[k][f[k - 1]]]
    BY <1>4 DEF Steps
  <2>2. ASSUME NEW k \in 0 .. 64, k # 0
        PROVE  g[k][f[k - 1]] = shuffle_bit(f[k - 1], k - 1)
    <3>1. k \in Nat /\ k \in 1 .. 64 /\ f[k - 1] \in Shuffling
      BY <2>2
    <3> QED
      BY <3>1
  <2> HIDE DEF g
  <2> QED
    BY <2>1, <2>2
<1> DEFINE F == CHOOSE h : Is(h)
<1>6. Is(F)
  <2> HIDE DEF Is
  <2> QED
    BY <1>5
<1>7. shuffle(crcs, out) = F[64].out
  BY DEF shuffle, a
<1> HIDE DEF F
<1>8. F = [n \in 0 .. 64 |-> IF n = 0 THEN a ELSE shuffle_bit(F[n - 1], n - 1)]
  BY <1>6 DEF F
<1>9. F[0] = a /\ \A n \in 0 .. 63 : F[n + 1] = shuffle_bit(F[n], n)
  BY <1>8
<1> DEFINE T == {k \in 0 .. 64 : F[k] \in Shuffling}
<1>10. 0 \in T
  BY <1>1, <1>9
<1>11. ASSUME NEW k \in 0 .. 64 - 1, k \in T
       PROVE  k + 1 \in T
  <2>1. k \in 0 .. 63 /\ k + 1 \in 0 .. 64 /\ F[k] \in Shuffling /\ F[k + 1] = shuffle_bit(F[k], k)
    BY <1>9, <1>11
  <2> QED
    BY <2>1, MovedIs
<1>12. \A k \in 0 .. 64 : k \in T
  <2> HIDE DEF T
  <2> QED
    BY <1>10, <1>11, ForAllBelow
<1> QED
  BY <1>7, <1>9, <1>12 DEF Moves, a

\* Bit p of the 64 that shuffle moves: bit p \div 4 of line p % 4.
MovedBit(crcs, p) == p \div 4 \in crcs[p % 4]

\* Of the first n bits, those that came from line l and those in word w.
TakenFrom(n, l) == (n + 3 - l) \div 4
Filled(n, w) ==
  IF n <= 16 * (3 - w) THEN 0 ELSE IF n >= 16 * (3 - w) + 16 THEN 16 ELSE n - 16 * (3 - w)

Shuffled(x, crcs, n) ==
  /\ \A l \in 0 .. 3, i \in 0 .. 15 : i \in x.crcs[l] <=> i + TakenFrom(n, l) \in crcs[l]
  /\ \A w \in 0 .. 3, i \in 0 .. 15 :
       i >= 16 - Filled(n, w) => (i \in x.out[w] <=> MovedBit(crcs, 16 * (3 - w) + i - 16 + Filled(n, w)))

\* A move takes one more bit from its line and none from the others.
LEMMA TakenStep ==
  ASSUME NEW n \in 0 .. 63, NEW l \in 0 .. 3
  PROVE  TakenFrom(n, l) \in Nat /\ TakenFrom(n + 1, l) = TakenFrom(n, l) + (IF l = n % 4 THEN 1 ELSE 0)
<1>1. CASE l = n % 4
  BY <1>1 DEF TakenFrom
<1>2. CASE l # n % 4
  BY <1>2 DEF TakenFrom
<1> QED
  BY <1>1, <1>2

\* A move fills its word by one more bit and no other.
LEMMA FilledStep ==
  ASSUME NEW n \in 0 .. 63, NEW w \in 0 .. 3
  PROVE  /\ Filled(n, w) \in 0 .. 16
         /\ w # 3 - n \div 16 => Filled(n + 1, w) = Filled(n, w)
         /\ w = 3 - n \div 16 => /\ Filled(n + 1, w) = Filled(n, w) + 1
                                 /\ 16 * (3 - w) + Filled(n, w) = n
<1>1. n <= 16 * (3 - w) \/ n >= 16 * (3 - w) + 16 \/ (n > 16 * (3 - w) /\ n < 16 * (3 - w) + 16)
  OBVIOUS
<1> QED
  BY <1>1 DEF Filled

\* One bit that is moved.
LEMMA ShuffledStep ==
  ASSUME NEW crcs \in Four, NEW x \in Shuffling, NEW n \in 0 .. 63, Shuffled(x, crcs, n)
  PROVE  Shuffled(shuffle_bit(x, n), crcs, n + 1)
<1> DEFINE y == shuffle_bit(x, n)
           w0 == 3 - n \div 16
           l0 == n % 4
<1>1. w0 \in 0 .. 3 /\ l0 \in 0 .. 3
  OBVIOUS
<1>2. \A l \in 0 .. 3, i \in 0 .. 15 : i \in y.crcs[l] <=> (IF l = l0 THEN i + 1 ELSE i) \in x.crcs[l]
  BY MovedIs
<1>3. \A w \in 0 .. 3, i \in 0 .. 15 :
        i \in y.out[w] <=> IF w = w0 THEN (IF i = 15 THEN 0 \in x.crcs[l0] ELSE i + 1 \in x.out[w])
                           ELSE i \in x.out[w]
  BY MovedIs
<1> HIDE DEF y
<1>4. ASSUME NEW l \in 0 .. 3, NEW i \in 0 .. 15
      PROVE  i \in y.crcs[l] <=> i + TakenFrom(n + 1, l) \in crcs[l]
  <2>1. TakenFrom(n, l) \in Nat /\ TakenFrom(n + 1, l) = TakenFrom(n, l) + (IF l = l0 THEN 1 ELSE 0)
    BY TakenStep
  <2> HIDE DEF l0
  <2>2. crcs[l] \in Word16 /\ x.crcs[l] \in Word16
    BY DEF Four, Shuffling
  <2>3. CASE l # l0
    <3>1. i \in y.crcs[l] <=> i \in x.crcs[l]
      BY <1>2, <2>3
    <3>2. i \in x.crcs[l] <=> i + TakenFrom(n, l) \in crcs[l]
      BY DEF Shuffled
    <3>3. TakenFrom(n + 1, l) = TakenFrom(n, l)
      BY <2>1, <2>3
    <3> QED
      BY <3>1, <3>2, <3>3
  <2>4. CASE l = l0
    <3>1. i \in y.crcs[l] <=> i + 1 \in x.crcs[l]
      BY <1>2, <2>4
    <3>2. i + 1 \in x.crcs[l] <=> i + 1 + TakenFrom(n, l) \in crcs[l]
      <4>1. CASE i = 15
        BY <2>1, <2>2, <4>1 DEF Word16
      <4>2. CASE i # 15
        <5>1. i + 1 \in 0 .. 15
          BY <4>2
        <5> QED
          BY <5>1 DEF Shuffled
      <4> QED
        BY <4>1, <4>2
    <3>3. i + 1 + TakenFrom(n, l) = i + TakenFrom(n + 1, l)
      BY <2>1, <2>4
    <3> QED
      BY <3>1, <3>2, <3>3
  <2> QED
    BY <2>3, <2>4
<1>5. ASSUME NEW w \in 0 .. 3, NEW i \in 0 .. 15, i >= 16 - Filled(n + 1, w)
      PROVE  i \in y.out[w] <=> MovedBit(crcs, 16 * (3 - w) + i - 16 + Filled(n + 1, w))
  <2>1. /\ Filled(n, w) \in 0 .. 16
        /\ w # w0 => Filled(n + 1, w) = Filled(n, w)
        /\ w = w0 => Filled(n + 1, w) = Filled(n, w) + 1 /\ 16 * (3 - w) + Filled(n, w) = n
    BY FilledStep
  <2>2. CASE w # w0
    <3>1. i \in y.out[w] <=> i \in x.out[w]
      BY <1>3, <2>2
    <3>2. Filled(n + 1, w) = Filled(n, w)
      BY <2>1, <2>2
    <3>3. i \in x.out[w] <=> MovedBit(crcs, 16 * (3 - w) + i - 16 + Filled(n, w))
      BY <1>5, <3>2 DEF Shuffled
    <3> QED
      BY <3>1, <3>2, <3>3
  <2>3. CASE w = w0 /\ i = 15
    <3>1. i \in y.out[w] <=> 0 \in x.crcs[l0]
      BY <1>3, <2>3
    <3>2. 0 \in x.crcs[l0] <=> 0 + TakenFrom(n, l0) \in crcs[l0]
      BY <1>1 DEF Shuffled
    <3>3. 0 + TakenFrom(n, l0) = n \div 4
      BY DEF TakenFrom
    <3>4. 16 * (3 - w) + i - 16 + Filled(n + 1, w) = n
      BY <2>1, <2>3
    <3> QED
      BY <3>1, <3>2, <3>3, <3>4 DEF MovedBit
  <2>4. CASE w = w0 /\ i # 15
    <3>1. i \in y.out[w] <=> i + 1 \in x.out[w]
      BY <1>3, <2>4
    <3>2. i + 1 \in 0 .. 15 /\ i + 1 >= 16 - Filled(n, w)
      BY <1>5, <2>1, <2>4
    <3>3. i + 1 \in x.out[w] <=> MovedBit(crcs, 16 * (3 - w) + (i + 1) - 16 + Filled(n, w))
      BY <3>2 DEF Shuffled
    <3>4. 16 * (3 - w) + (i + 1) - 16 + Filled(n, w) = 16 * (3 - w) + i - 16 + Filled(n + 1, w)
      BY <2>1, <2>4
    <3> QED
      BY <3>1, <3>3, <3>4
  <2> QED
    BY <2>2, <2>3, <2>4
<1> QED
  BY <1>4, <1>5 DEF Shuffled, y

\* Every line carries its checksum, the highest bit first.
LEMMA ShuffleIs ==
  ASSUME NEW crcs \in Four, NEW out \in Four, NEW l \in 0 .. 3
  PROVE  SentOn(shuffle(crcs, out), l) = [k \in 0 .. 15 |-> BitOf(15 - k \in crcs[l])]
<1>1. PICK s : Moves(s, crcs, out) /\ \A n \in 0 .. 64 : s[n] \in Shuffling
  BY MovesExist
<1> DEFINE T == {n \in 0 .. 64 : Shuffled(s[n], crcs, n)}
<1>2. 0 \in T
  <2>1. s[0].crcs = crcs
    BY <1>1 DEF Moves
  <2>2. \A j \in 0 .. 3 : TakenFrom(0, j) = 0
    BY DEF TakenFrom
  <2>3. \A w \in 0 .. 3 : Filled(0, w) = 0
    BY DEF Filled
  <2> QED
    BY <2>1, <2>2, <2>3 DEF Shuffled
<1>3. ASSUME NEW n \in 0 .. 64 - 1, n \in T
      PROVE  n + 1 \in T
  <2>1. n \in 0 .. 63 /\ n \in 0 .. 64 /\ n + 1 \in 0 .. 64 /\ Shuffled(s[n], crcs, n)
    BY <1>3
  <2>2. s[n + 1] = shuffle_bit(s[n], n) /\ s[n] \in Shuffling
    BY <1>1, <2>1 DEF Moves
  <2> QED
    BY <2>1, <2>2, ShuffledStep
<1>4. Shuffled(s[64], crcs, 64)
  <2>1. \A n \in 0 .. 64 : n \in T
    <3> HIDE DEF T
    <3> QED
      BY <1>2, <1>3, ForAllBelow
  <2> QED
    BY <2>1
<1> DEFINE o == shuffle(crcs, out)
<1>5. \A w \in 0 .. 3, i \in 0 .. 15 : i \in o[w] <=> MovedBit(crcs, 16 * (3 - w) + i)
  <2>1. o = s[64].out
    BY <1>1 DEF Moves
  <2> HIDE DEF o
  <2>2. \A w \in 0 .. 3 : Filled(64, w) = 16
    BY DEF Filled
  <2> QED
    BY <1>4, <2>1, <2>2 DEF Shuffled
<1> HIDE DEF o
<1>6. ASSUME NEW k \in 0 .. 15
      PROVE  15 - ((4 * k + 3 - l) % 16) \in o[(4 * k) \div 16] <=> 15 - k \in crcs[l]
  <2> DEFINE i == 15 - ((4 * k + 3 - l) % 16)
             w == (4 * k) \div 16
             p == 16 * (3 - w) + i
  <2>1. w \in 0 .. 3 /\ i \in 0 .. 15
    OBVIOUS
  <2>2. p \div 4 = 15 - k /\ p % 4 = l
    OBVIOUS
  <2> HIDE DEF i, w
  <2>3. i \in o[w] <=> MovedBit(crcs, p)
    BY <1>5, <2>1
  <2> QED
    BY <2>2, <2>3 DEF MovedBit, i, w
<1>7. SentOn(o, l) = [k \in 0 .. 15 |-> BitOf(15 - k \in crcs[l])]
  BY <1>6 DEF SentOn, BitOf
<1> QED
  BY <1>7 DEF o

\* On every data line sdCrc16 sends the remainder of the line's bits by the
\* generator of the SD specification, for a block of any number of words and
\* whatever crc_out held before (bios.c:405-532).
THEOREM Crc16IsRemainder ==
  ASSUME NEW src \in Seq(Byte8), NEW n \in Nat, Len(src) = 4 * n, NEW out \in Four, NEW l \in 0 .. 3
  PROVE  SentOn(sdCrc16(src, out), l) = [k \in 0 .. 15 |-> BitOf(15 - k \in SpecLine(src, l))]
<1>1. crc_table(src) \in Four
  <2>1. PICK f : Tables(f, src, n)
    <3>1. Len(src) \div 4 = n
      OBVIOUS
    <3> QED
      BY <3>1, TablesExist
  <2> QED
    BY <2>1 DEF Tables
<1>2. crc_table(src)[l] = SpecLine(src, l)
  BY TableIs
<1> DEFINE crcs == crc_table(src)
<1>3. SentOn(sdCrc16(src, out), l) = SentOn(shuffle(crcs, out), l)
  BY DEF sdCrc16
<1> HIDE DEF crcs
<1>4. SentOn(shuffle(crcs, out), l) = [k \in 0 .. 15 |-> BitOf(15 - k \in crcs[l])]
  BY <1>1, ShuffleIs DEF crcs
<1> QED
  BY <1>2, <1>3, <1>4 DEF crcs

\* The first five of eight elements.
LEMMA FirstOfEight ==
  ASSUME NEW S, NEW x, Row(x, 8, S)
  PROVE  x \in Seq(S) /\ Len(x) = 8 /\ SubSeq(x, 1, 5) \in Seq(S)
<1>1. x \in Seq(S) /\ Len(x) = 8
  BY RowIsSeq
<1>2. \A i \in 1 .. 5 : x[i] \in S
  BY DEF Row
<1>3. SubSeq(x, 1, 5) = [i \in 1 .. 5 |-> x[i]]
  BY <1>1
<1>4. [i \in 1 .. 5 |-> x[i]] \in [1 .. 5 -> S]
  BY <1>2
<1> DEFINE y == [i \in 1 .. 5 |-> x[i]]
<1>5. Row(y, 5, S)
  BY <1>4 DEF Row
<1> HIDE DEF y
<1>6. y \in Seq(S)
  BY <1>5, RowIsSeq
<1> QED
  BY <1>1, <1>3, <1>6 DEF y

\* crc7 of a command and sdCrc16 of a block are the checksums that a card
\* computes, whatever the bytes (crc7, sdCrc16).
THEOREM ChecksumsAreTrue == Spec => []ChecksumsMatch
<1>1. Init => ChecksumsMatch
  BY DEF Init, ChecksumsMatch
<1>2. ChecksumsMatch /\ [Next]_sample => ChecksumsMatch'
  <2> SUFFICES ASSUME ChecksumsMatch, [Next]_sample PROVE ChecksumsMatch'
    OBVIOUS
  <2>1. CASE UNCHANGED sample
    BY <2>1, Zenon DEF ChecksumsMatch
  <2>2. CASE Checksum
    <3>1. PICK at \in 1 .. 8, x \in Bytes, y \in Bytes : sample' = [kind |-> "checksum", at |-> at, x |-> x, y |-> y]
      BY <2>2 DEF Checksum
    <3> DEFINE src == Block8(sample')
               buff == SubSeq(src, 1, 5)
               before == [w \in 0 .. 3 |-> x]
               out == sdCrc16(src, before)
    <3>2. x \in Byte8 /\ y \in Byte8 /\ {} \in Byte8
      BY BytesAssumption DEF Byte8
    <3>3. src \in Seq(Byte8) /\ Len(src) = 4 * 2 /\ buff \in Seq(Byte8)
      <4>1. src = [i \in 1 .. 8 |-> IF i = at THEN x ELSE IF i = (at % 8) + 1 THEN y ELSE {}]
        BY <3>1 DEF Block8
      <4>2. src \in [1 .. 8 -> Byte8]
        BY <3>2, <4>1
      <4> HIDE DEF src
      <4>3. Row(src, 8, Byte8)
        BY <4>2 DEF Row
      <4>4. src \in Seq(Byte8) /\ Len(src) = 8 /\ SubSeq(src, 1, 5) \in Seq(Byte8)
        <5> HIDE DEF src
        <5> QED
          BY <4>3, FirstOfEight
      <4> QED
        BY <4>4
    <3>4. before \in Four
      BY <3>2 DEF Byte8, Four, Word16
    <3> HIDE DEF src, before
    <3>5. {i - 1 : i \in crc7(buff)} = SpecCrc7(buff)
      <4> HIDE DEF buff
      <4> QED
        BY <3>3, Crc7IsRemainder
    <3>6. ASSUME NEW l \in 0 .. 3
          PROVE  SentOn(out, l) = [k \in 0 .. 15 |-> BitOf(15 - k \in SpecLine(src, l))]
      <4>1. 2 \in Nat
        OBVIOUS
      <4> QED
        BY <3>3, <3>4, <4>1, Crc16IsRemainder
    <3>7. sample'.x = x
      BY <3>1
    <3> HIDE DEF buff, out
    <3>8. out = sdCrc16(src, [w \in 0 .. 3 |-> sample'.x])
      BY <3>7 DEF out, before
    <3> QED
      BY <3>5, <3>6, <3>8 DEF ChecksumsMatch, src, buff, BitOf
  <2>3. ASSUME NEW b, Command(b) \/ Read(b) \/ Write(b)
        PROVE  ChecksumsMatch'
    BY <2>3 DEF Command, Read, Write, ChecksumsMatch
  <2>4. CASE ExVolume \/ Volume \/ Partitions \/ Entry12
    BY <2>4 DEF ExVolume, Volume, Partitions, Entry12, ChecksumsMatch
  <2>5. CASE Image \/ Arguments3 \/ Screen
    BY <2>5 DEF Image, Arguments3, Screen, ChecksumsMatch
  <2> QED
    BY <2>1, <2>2, <2>3, <2>4, <2>5, Zenon DEF Next
<1> QED
  BY <1>1, <1>2, PTL DEF Spec
=============================================================================
