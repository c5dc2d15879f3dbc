--------------------------- MODULE UsbSystem_proofs ---------------------------
(***************************************************************************)
(* Proofs about UsbSystem, for an image of whole blocks and every size of  *)
(* image, checked area, file name, FIFO and ROM, and any number of runs.   *)
(*                                                                         *)
(* The steps of the console and of a host that runs are proved of At(p):   *)
(* the console has taken p units of what is written, and does what unit p  *)
(* is for.  Two invariants are built on it: LoadInv when nobody stops the  *)
(* program or leaves the loader, and RerunInv when runs may end early.     *)
(***************************************************************************)
EXTENDS UsbSystem, SequenceTheorems, TLAPS

\* The image has no tail shorter than a block.
WholeImage == ImageUnits % Block = 0

-----------------------------------------------------------------------------
(***************************************************************************)
(* Sizes.                                                                  *)
(***************************************************************************)

LEMMA Constants ==
  /\ Block \in Nat /\ Block >= 1
  /\ ImageUnits \in Nat /\ ImageUnits >= 1 /\ ImageUnits <= RomUnits
  /\ CrcArea \in Nat /\ CrcArea <= RomUnits
  /\ NameUnits \in Nat /\ RomUnits \in Nat /\ FifoCap \in Nat /\ FifoCap >= 1
  /\ MaxSessions \in Nat /\ MaxSessions >= 1
BY BlockAssumption, ImageAssumption, AreaAssumption, SizeAssumption, SessionsAssumption

\* Division without remainder.
LEMMA Division ==
  ASSUME NEW m \in Nat, NEW c \in Nat \ {0}, m % c = 0
  PROVE  m \div c \in Nat /\ (m \div c) * c = m
OBVIOUS

\* What CommandPacketTransmit makes of a length is exact for whole blocks.
LEMMA WholeBlocks ==
  ASSUME NEW m \in Nat, m % Block = 0, m <= RomUnits
  PROVE  /\ Blocks(m) \in Nat /\ Blocks(m) * Block = m /\ Blocks(m) <= RomUnits
         /\ m # 0 => Blocks(m) # 0
<1>1. Block \in Nat \ {0} /\ RomUnits \in Nat
  BY Constants
<1> DEFINE b == m \div Block
<1>2. b \in Nat /\ b * Block = m
  BY <1>1, Division
<1> HIDE DEF b
<1>3. b <= b * Block
  BY <1>1, <1>2
<1>4. b <= RomUnits /\ (m # 0 => b # 0)
  BY <1>1, <1>2, <1>3
<1> QED
  BY <1>2, <1>4 DEF Blocks, b

\* Counting blocks down.
LEMMA OneBlockLess ==
  ASSUME NEW s \in Nat
  PROVE  /\ s * Block \in Nat
         /\ s # 0 => (s - 1) * Block = s * Block - Block /\ s * Block >= Block
         /\ s = 0 <=> s * Block = 0
BY Constants

-----------------------------------------------------------------------------
(***************************************************************************)
(* The program of the host.                                                *)
(***************************************************************************)
TCmd == Command("t", 0, 0)
CCmd == Command("c", 0, Blocks(CrcArea))
WCmd == Command("W", 0, Blocks(ImageUnits))
SCmd == Command("s", 0, 0)

\* The units that are sent, and what tells them apart.
LEMMA KindsOfUnits ==
  ASSUME WholeImage
  PROVE  /\ TCmd \in Units /\ CCmd \in Units /\ WCmd \in Units /\ SCmd \in Units
         /\ \A i \in 0 .. RomUnits : Data(i) \in Units
         /\ Other("name") \in Units /\ Other("fill") \in Units /\ Other("old") \in Units
         /\ TCmd.op = "t" /\ CCmd.op = "c" /\ WCmd.op = "W" /\ SCmd.op = "s"
         /\ \A i : Data(i).op = "-" /\ Data(i).kind = "data"
         /\ \A k : Other(k).op = "-" /\ Other(k).kind = k
         /\ TCmd.kind = "cmd" /\ CCmd.kind = "cmd" /\ WCmd.kind = "cmd" /\ SCmd.kind = "cmd"
         /\ CCmd.addr = 0 /\ CCmd.len * Block = CrcArea
         /\ WCmd.addr = 0 /\ WCmd.len * Block = ImageUnits
         /\ WCmd.len \in 1 .. RomUnits
<1>1. Blocks(CrcArea) \in 0 .. RomUnits /\ Blocks(CrcArea) * Block = CrcArea
  BY Constants, AreaAssumption, WholeBlocks
<1>2. Blocks(ImageUnits) \in 1 .. RomUnits /\ Blocks(ImageUnits) * Block = ImageUnits
  BY Constants, WholeBlocks DEF WholeImage
<1>3. RomUnits \in Nat
  BY Constants
<1> QED
  BY <1>1, <1>2, <1>3 DEF Units, Command, Data, Other, TCmd, CCmd, WCmd, SCmd

\* A unit of a kind in front of n others makes a sequence of n + 1.
LEMMA OneAndMore ==
  ASSUME NEW u \in Units, NEW n \in Nat, NEW f \in [1 .. n -> Units]
  PROVE  /\ <<u>> \o f \in Seq(Units) /\ Len(<<u>> \o f) = n + 1
         /\ (<<u>> \o f)[1] = u
         /\ \A k \in 2 .. n + 1 : (<<u>> \o f)[k] = f[k - 1]
<1>1. f \in Seq(Units) /\ Len(f) = n
  BY SeqDef, LenProperties
<1> QED
  BY <1>1

\* What RomWrite and StartRom write.
LEMMA SendsOf ==
  ASSUME WholeImage
  PROVE  /\ RomWrite.answered = FALSE /\ StartRom.answered = FALSE
         /\ RomWrite.send \in Seq(Units) /\ Len(RomWrite.send) = ImageUnits + 1
         /\ RomWrite.send[1] = WCmd
         /\ \A k \in 2 .. ImageUnits + 1 : RomWrite.send[k] = Data(k - 2)
         /\ StartRom.send \in Seq(Units) /\ Len(StartRom.send) = NameUnits + 1
         /\ StartRom.send[1] = SCmd
         /\ \A k \in 2 .. NameUnits + 1 : StartRom.send[k] = Other("name")
<1> DEFINE f == [i \in 1 .. ImageUnits |-> Data(i - 1)]
           g == [i \in 1 .. NameUnits |-> Other("name")]
<1>1. ImageUnits \in Nat /\ NameUnits \in Nat /\ ImageUnits <= RomUnits /\ RomUnits \in Nat
  BY Constants
<1>2. \A i \in 1 .. ImageUnits : i - 1 \in 0 .. RomUnits
  BY <1>1
<1>3. f \in [1 .. ImageUnits -> Units]
  BY <1>2, KindsOfUnits
<1>4. g \in [1 .. NameUnits -> Units]
  BY KindsOfUnits
<1>5. RomWrite.send = <<WCmd>> \o f /\ RomWrite.answered = FALSE
  BY DEF RomWrite, Exchange, WCmd
<1>6. StartRom.send = <<SCmd>> \o g /\ StartRom.answered = FALSE
  BY DEF StartRom, Exchange, SCmd
<1>7. \A k \in 2 .. ImageUnits + 1 : f[k - 1] = Data(k - 2)
  <2>1. \A k \in 2 .. ImageUnits + 1 : k - 1 \in 1 .. ImageUnits /\ (k - 1) - 1 = k - 2
    BY <1>1
  <2> QED
    BY <2>1
<1>8. \A k \in 2 .. NameUnits + 1 : g[k - 1] = Other("name")
  <2>1. \A k \in 2 .. NameUnits + 1 : k - 1 \in 1 .. NameUnits
    BY <1>1
  <2> QED
    BY <2>1
<1> HIDE DEF f, g
<1>9. /\ RomWrite.send \in Seq(Units) /\ Len(RomWrite.send) = ImageUnits + 1
      /\ RomWrite.send[1] = WCmd
      /\ \A k \in 2 .. ImageUnits + 1 : RomWrite.send[k] = f[k - 1]
  BY <1>1, <1>3, <1>5, KindsOfUnits, OneAndMore
<1>10. /\ StartRom.send \in Seq(Units) /\ Len(StartRom.send) = NameUnits + 1
       /\ StartRom.send[1] = SCmd
       /\ \A k \in 2 .. NameUnits + 1 : StartRom.send[k] = g[k - 1]
  BY <1>1, <1>4, <1>6, KindsOfUnits, OneAndMore
<1> QED
  BY <1>5, <1>6, <1>7, <1>8, <1>9, <1>10

\* Program without and with the fill.
LEMMA TwoParts ==
  ASSUME NEW a, NEW b, NEW c
  PROVE  LET p == <<a>> \o <<>> \o <<b, c>>
         IN  Len(p) = 3 /\ p[1] = a /\ p[2] = b /\ p[3] = c
OBVIOUS

\* As above, with the fill.
LEMMA ThreeParts ==
  ASSUME NEW a, NEW b, NEW c, NEW d, NEW e
  PROVE  LET p == <<a>> \o <<b, c>> \o <<d, e>>
         IN  Len(p) = 5 /\ p[1] = a /\ p[2] = b /\ p[3] = c /\ p[4] = d /\ p[5] = e
OBVIOUS

\* The steps of Program: tests, a fill command if the image is small, the
\* image, the start.
LEMMA StepsOf ==
  /\ Len(Program) \in {3, 5}
  /\ Program[1] = TestConnection
  /\ Program[WStep] = RomWrite /\ Program[Len(Program)] = StartRom
  /\ \A i \in 1 .. WStep - 1 :
       Program[i] = TestConnection \/ Program[i] = Exchange(<<CCmd>>, FALSE)
  /\ ImageUnits < CrcArea => WStep = 4 /\ Program[2] = Exchange(<<CCmd>>, FALSE)
  /\ ~(ImageUnits < CrcArea) => WStep = 2
<1> DEFINE t == TestConnection
           c == Exchange(<<CCmd>>, FALSE)
           w == RomWrite
           s == StartRom
<1>1. CASE ImageUnits < CrcArea
  <2>1. Program = <<t>> \o <<c, t>> \o <<w, s>>
    BY <1>1 DEF Program, FillCartridge, CCmd
  <2> HIDE DEF t, c, w, s
  <2>2. /\ Len(Program) = 5 /\ Program[1] = t /\ Program[2] = c /\ Program[3] = t
        /\ Program[4] = w /\ Program[5] = s
    BY <2>1, ThreeParts
  <2>3. WStep = 4
    BY <2>2 DEF WStep
  <2>4. \A i \in 1 .. WStep - 1 : Program[i] = t \/ Program[i] = c
    BY <2>2, <2>3
  <2>5. Program[WStep] = w /\ Program[Len(Program)] = s
    BY <2>2, <2>3
  <2> USE DEF t, c, w, s
  <2> QED
    BY <1>1, <2>2, <2>3, <2>4, <2>5
<1>2. CASE ~(ImageUnits < CrcArea)
  <2>1. Program = <<t>> \o <<>> \o <<w, s>>
    BY <1>2 DEF Program, FillCartridge
  <2> HIDE DEF t, c, w, s
  <2>2. Len(Program) = 3 /\ Program[1] = t /\ Program[2] = w /\ Program[3] = s
    BY <2>1, TwoParts
  <2>3. WStep = 2
    BY <2>2 DEF WStep
  <2>4. \A i \in 1 .. WStep - 1 : Program[i] = t \/ Program[i] = c
    BY <2>2, <2>3
  <2>5. Program[WStep] = w /\ Program[Len(Program)] = s
    BY <2>2, <2>3
  <2> USE DEF t, c, w, s
  <2> QED
    BY <1>2, <2>2, <2>3, <2>4, <2>5
<1> QED
  BY <1>1, <1>2

\* What the rest of the proof needs of Program.
LEMMA ProgramFacts ==
  ASSUME WholeImage
  PROVE  /\ WStep \in Nat /\ WStep >= 2 /\ Len(Program) = WStep + 1
         /\ Program[1].answered = TRUE
         /\ Program[WStep].answered = FALSE /\ Program[WStep + 1].answered = FALSE
         /\ Program[WStep].send = RomWrite.send
         /\ Program[WStep + 1].send = StartRom.send
         /\ \A i \in 1 .. WStep - 1 :
              /\ Program[i].send \in Seq(Units) /\ Len(Program[i].send) = 1
              /\ EarlyCommand(Program[i].send[1])
              /\ Program[i].answered => IsTest(Program[i].send[1])
         /\ \A i \in 1 .. WStep + 1 :
              Program[i].send \in Seq(Units) /\ Len(Program[i].send) >= 1
         /\ ImageUnits < CrcArea => WStep = 4 /\ Program[2].send[1] = CCmd
<1>1. /\ WStep \in Nat /\ WStep >= 2 /\ Len(Program) = WStep + 1
  <2> DEFINE n == Len(Program)
  <2>1. n \in {3, 5} /\ WStep = n - 1
    BY StepsOf DEF WStep
  <2> HIDE DEF n
  <2>2. WStep \in Nat /\ WStep >= 2 /\ n = WStep + 1
    BY <2>1
  <2> QED
    BY <2>2 DEF n
<1>2. /\ TestConnection.answered = TRUE /\ TestConnection.send = <<TCmd>>
      /\ Exchange(<<CCmd>>, FALSE).answered = FALSE
      /\ Exchange(<<CCmd>>, FALSE).send = <<CCmd>>
  BY DEF TestConnection, Exchange, TCmd
<1>3. /\ <<TCmd>> \in Seq(Units) /\ Len(<<TCmd>>) = 1 /\ <<TCmd>>[1] = TCmd
      /\ <<CCmd>> \in Seq(Units) /\ Len(<<CCmd>>) = 1 /\ <<CCmd>>[1] = CCmd
  BY KindsOfUnits
<1>4. EarlyCommand(TCmd) /\ EarlyCommand(CCmd) /\ IsTest(TCmd)
  BY DEF EarlyCommand, IsTest, TCmd, CCmd
<1>5. ASSUME NEW i \in 1 .. WStep - 1
      PROVE  /\ Program[i].send \in Seq(Units) /\ Len(Program[i].send) = 1
             /\ EarlyCommand(Program[i].send[1])
             /\ Program[i].answered => IsTest(Program[i].send[1])
  <2>1. CASE Program[i] = TestConnection
    BY <1>2, <1>3, <1>4, <2>1
  <2>2. CASE Program[i] = Exchange(<<CCmd>>, FALSE)
    BY <1>2, <1>3, <1>4, <2>2
  <2> QED
    BY StepsOf, <2>1, <2>2
<1>6. /\ Program[1].answered = TRUE
      /\ Program[WStep] = RomWrite /\ Program[WStep + 1] = StartRom
      /\ ImageUnits < CrcArea => WStep = 4 /\ Program[2].send[1] = CCmd
  BY <1>1, <1>2, <1>3, StepsOf
<1>7. ASSUME NEW i \in 1 .. WStep + 1
      PROVE  Program[i].send \in Seq(Units) /\ Len(Program[i].send) >= 1
  <2>1. CASE i \in 1 .. WStep - 1
    BY <1>5, <2>1
  <2>2. CASE i = WStep
    BY <1>6, <2>2, SendsOf, Constants
  <2>3. CASE i = WStep + 1
    BY <1>6, <2>3, SendsOf, Constants
  <2> QED
    BY <1>1, <2>1, <2>2, <2>3
<1> QED
  BY <1>1, <1>5, <1>6, <1>7, SendsOf

\* Where each unit stands in the stream.
LEMMA UnitsOf ==
  ASSUME WholeImage
  PROVE  /\ \A p \in Int : \A u :
              /\ p <= 0 => (IsUnit(u, p) <=> EarlyCommand(u))
              /\ p = 1 => (IsUnit(u, p) => u = WCmd)
              /\ p \in 2 .. ImageUnits + 1 => (IsUnit(u, p) => u = Data(p - 2))
              /\ p = ImageUnits + 2 => (IsUnit(u, p) => u = SCmd)
              /\ p \in ImageUnits + 3 .. ImageUnits + NameUnits + 2 =>
                   (IsUnit(u, p) => u = Other("name"))
         /\ \A k \in 1 .. ImageUnits + 1 : IsUnit(RomWrite.send[k], k)
         /\ \A k \in 1 .. NameUnits + 1 : IsUnit(StartRom.send[k], ImageUnits + 1 + k)
         /\ \A u : EarlyCommand(u) <=> u = TCmd \/ u = CCmd
         /\ \A u : IsTest(u) <=> u = TCmd
<1>1. ImageUnits \in Nat /\ ImageUnits >= 1 /\ NameUnits \in Nat
  BY Constants
<1>2. ASSUME NEW p \in Int, NEW u
      PROVE  /\ p <= 0 => (IsUnit(u, p) <=> EarlyCommand(u))
             /\ p >= 1 /\ p <= ImageUnits + 1 => (IsUnit(u, p) <=> u = RomWrite.send[p])
             /\ p > ImageUnits + 1 =>
                  (IsUnit(u, p) <=> u = StartRom.send[p - ImageUnits - 1])
  BY <1>1 DEF IsUnit, Stream
<1>3. ASSUME NEW p \in Int, NEW u, p = 1, IsUnit(u, p) PROVE u = WCmd
  BY <1>1, <1>2, <1>3, SendsOf
<1>4. ASSUME NEW p \in 2 .. ImageUnits + 1, NEW u, IsUnit(u, p) PROVE u = Data(p - 2)
  <2>1. u = RomWrite.send[p]
    BY <1>1, <1>2, <1>4
  <2> QED
    BY <2>1, SendsOf
<1>5. ASSUME NEW p \in Int, NEW u, p = ImageUnits + 2, IsUnit(u, p) PROVE u = SCmd
  <2>1. u = StartRom.send[p - ImageUnits - 1] /\ p - ImageUnits - 1 = 1
    BY <1>1, <1>2, <1>5
  <2> QED
    BY <2>1, SendsOf
<1>6. ASSUME NEW p \in ImageUnits + 3 .. ImageUnits + NameUnits + 2, NEW u, IsUnit(u, p)
      PROVE  u = Other("name")
  <2>1. u = StartRom.send[p - ImageUnits - 1]
    BY <1>1, <1>2, <1>6
  <2>2. p - ImageUnits - 1 \in 2 .. NameUnits + 1
    BY <1>1, <1>6
  <2> QED
    BY <2>1, <2>2, SendsOf
<1>7. \A k \in 1 .. ImageUnits + 1 : IsUnit(RomWrite.send[k], k)
  BY <1>1, <1>2
<1>8. ASSUME NEW k \in 1 .. NameUnits + 1
      PROVE  IsUnit(StartRom.send[k], ImageUnits + 1 + k)
  <2>1. /\ ImageUnits + 1 + k \in Int /\ ImageUnits + 1 + k > ImageUnits + 1
        /\ (ImageUnits + 1 + k) - ImageUnits - 1 = k
    BY <1>1
  <2> QED
    BY <1>2, <2>1
<1>9. \A u : EarlyCommand(u) <=> u = TCmd \/ u = CCmd
  BY DEF EarlyCommand, TCmd, CCmd
<1>10. \A u : IsTest(u) <=> u = TCmd
  BY DEF IsTest, TCmd
<1>11. \A p \in Int : \A u : p <= 0 => (IsUnit(u, p) <=> EarlyCommand(u))
  BY <1>2
<1> QED
  BY <1>3, <1>4, <1>5, <1>6, <1>7, <1>8, <1>9, <1>10, <1>11

-----------------------------------------------------------------------------
(***************************************************************************)
(* Sequences.                                                              *)
(***************************************************************************)

\* Taking the first unit.
LEMMA FirstTaken ==
  ASSUME NEW S, NEW p \in Seq(S), p # <<>>
  PROVE  /\ Head(p) = p[1] /\ Head(p) \in S
         /\ Tail(p) \in Seq(S) /\ Len(Tail(p)) = Len(p) - 1
         /\ Len(p) \in Nat /\ Len(p) >= 1
         /\ \A i \in 1 .. Len(p) - 1 : Tail(p)[i] = p[i + 1]
OBVIOUS

\* Adding a unit at the end.
LEMMA LastAdded ==
  ASSUME NEW S, NEW p \in Seq(S), NEW u \in S
  PROVE  /\ Append(p, u) \in Seq(S) /\ Len(Append(p, u)) = Len(p) + 1
         /\ Len(p) \in Nat /\ Append(p, u) # <<>>
         /\ \A i \in 1 .. Len(p) : Append(p, u)[i] = p[i]
         /\ Append(p, u)[Len(p) + 1] = u
OBVIOUS

-----------------------------------------------------------------------------
(***************************************************************************)
(* How far the host has come.                                              *)
(***************************************************************************)

\* Sent and Taken by cases.
LEMMA SentIs ==
  ASSUME WholeImage, TypeOK
  PROVE  /\ host_step \in 0 .. WStep + 1 /\ Len(out) \in Nat /\ Len(fifo) \in Nat
         /\ Sent \in Int /\ Taken \in Int
         /\ Taken = Sent - Len(fifo)
         /\ host_step < WStep => Sent = 0
         /\ host_step = WStep => Sent = ImageUnits + 1 - Len(out)
         /\ host_step = WStep + 1 => Sent = ImageUnits + 2 + NameUnits - Len(out)
<1>1. host_step \in 0 .. WStep + 1 /\ Len(out) \in Nat /\ Len(fifo) \in Nat
  BY ProgramFacts, LenProperties DEF TypeOK, HostTypeOK
<1>2. ImageUnits \in Nat /\ NameUnits \in Nat /\ WStep \in Nat
  BY Constants, ProgramFacts
<1>3. /\ host_step < WStep => Sent = 0
      /\ host_step = WStep => Sent = ImageUnits + 1 - Len(out)
      /\ host_step > WStep => Sent = ImageUnits + 2 + NameUnits - Len(out)
  BY <1>1, <1>2 DEF Sent, StreamEnd
<1> QED
  BY <1>1, <1>2, <1>3 DEF Taken

\* The same after a step.
LEMMA SentWillBe ==
  ASSUME WholeImage, TypeOK'
  PROVE  /\ host_step' \in 0 .. WStep + 1 /\ Len(out') \in Nat /\ Len(fifo') \in Nat
         /\ Sent' \in Int /\ Taken' \in Int
         /\ Taken' = Sent' - Len(fifo')
         /\ host_step' < WStep => Sent' = 0
         /\ host_step' = WStep => Sent' = ImageUnits + 1 - Len(out')
         /\ host_step' = WStep + 1 => Sent' = ImageUnits + 2 + NameUnits - Len(out')
<1>1. host_step' \in 0 .. WStep + 1 /\ Len(out') \in Nat /\ Len(fifo') \in Nat
  BY ProgramFacts, LenProperties DEF TypeOK, HostTypeOK
<1>2. ImageUnits \in Nat /\ NameUnits \in Nat /\ WStep \in Nat
  BY Constants, ProgramFacts
<1>3. /\ host_step' < WStep => Sent' = 0
      /\ host_step' = WStep => Sent' = ImageUnits + 1 - Len(out')
      /\ host_step' > WStep => Sent' = ImageUnits + 2 + NameUnits - Len(out')
  BY <1>1, <1>2 DEF Sent, StreamEnd
<1> QED
  BY <1>1, <1>2, <1>3 DEF Taken

\* The steps that write the stream are the last two.
LEMMA LateStep ==
  ASSUME WholeImage, TypeOK, ~(host_step < WStep)
  PROVE  host_step \in {WStep, WStep + 1}
<1>1. WStep \in Nat
  BY ProgramFacts
<1>2. host_step \in 0 .. WStep + 1
  BY SentIs
<1> QED
  BY <1>1, <1>2

-----------------------------------------------------------------------------
(***************************************************************************)
(* Steps of the console, whatever the host does next: the console stands   *)
(* at unit p of what is sent.                                              *)
(***************************************************************************)
At(p) == TypeOK /\ OnTheWay(p) /\ LoaderAt(p)

\* The fill is or will be in the ROM; a test is or will be answered.
FillSure == FillPending \/ Filled
AnswerSure == reply # <<>> \/ TestPending

\* What no step of the loader that keeps its place takes back.
Keeps ==
  /\ RomHoldsImageOnly => RomHoldsImageOnly'
  /\ FillSure => FillSure'
  /\ Listening /\ AnswerSure => AnswerSure'

\* The loader takes nothing off the link by itself.
LEMMA LinkKept ==
  ASSUME NEW p \in Int, OnTheWay(p), fifo' = fifo
  PROVE  OnTheWay(p)'
BY DEF OnTheWay, IsUnit

\* How much of the stream there can be on its way.
LEMMA Lengths ==
  ASSUME NEW p \in Int, At(p)
  PROVE  /\ Len(fifo) \in Nat /\ Len(fifo) <= FifoCap
         /\ p + Len(fifo) >= 0 /\ p + Len(fifo) <= ImageUnits + 2 + NameUnits
<1>1. fifo \in Seq(Units) /\ Len(fifo) <= FifoCap /\ p + Len(fifo) \in 0 .. StreamEnd
  BY DEF At, TypeOK, OnTheWay
<1>2. Len(fifo) \in Nat
  BY <1>1, LenProperties
<1>3. StreamEnd = ImageUnits + 2 + NameUnits /\ StreamEnd \in Nat
  BY Constants DEF StreamEnd
<1> DEFINE sent == p + Len(fifo)
<1>4. sent \in 0 .. StreamEnd
  BY <1>1
<1>5. sent >= 0 /\ sent <= ImageUnits + 2 + NameUnits
  BY <1>3, <1>4
<1> QED
  BY <1>1, <1>2, <1>5

\* Which command is served tells where the console stands in the stream.
LEMMA AtDispatch ==
  ASSUME WholeImage, NEW p \in Int, At(p), dev_pc = "dispatch"
  PROVE  \/ p <= 0 /\ cmd \in {TCmd, CCmd}
         \/ p = 1 /\ cmd = WCmd
         \/ p = ImageUnits + 2 /\ cmd = SCmd
<1>1. AtCommand(cmd, p)
  BY DEF At, LoaderAt
<1>2. ImageUnits \in Nat
  BY Constants
<1>3. IsUnit(cmd, p) /\ (p <= 1 \/ p = ImageUnits + 2)
  BY <1>1 DEF AtCommand
<1>4. CASE p <= 0
  BY <1>2, <1>3, <1>4, UnitsOf
<1>5. CASE p = 1
  BY <1>2, <1>3, <1>5, UnitsOf
<1>6. CASE p = ImageUnits + 2
  BY <1>2, <1>3, <1>6, UnitsOf
<1> QED
  BY <1>2, <1>3, <1>4, <1>5, <1>6

\* The player starts the loader.
LEMMA EnterLoaderKeeps ==
  ASSUME NEW p \in Int, At(p), EnterLoader, UNCHANGED hostVars, p <= 0
  PROVE  At(p)' /\ Keeps
<1>1. /\ dev_pc = "menu" /\ dev_pc' = "poll" /\ fifo' = fifo /\ reply' = reply
      /\ cmd' = cmd /\ slen' = slen /\ addr' = addr /\ buff' = buff
      /\ usb_act' = usb_act /\ usb_need' = usb_need /\ usb_buf' = usb_buf /\ rom' = rom
      /\ host_pc' = host_pc /\ host_step' = host_step /\ out' = out /\ sessions' = sessions
  BY DEF EnterLoader, loaderVars, engineVars, linkVars, hostVars
<1>2. TypeOK'
  BY <1>1 DEF At, TypeOK, DevTypeOK, HostTypeOK, DevPlaces
<1>3. LoaderAt(p)'
  <2>1. ~(p >= ImageUnits + 1)
    BY Constants
  <2> QED
    BY <1>1, <2>1 DEF At, LoaderAt, BetweenCommands
<1>4. Keeps
  BY <1>1 DEF Keeps, RomHoldsImageOnly, FillSure, FillPending, IsFill, Filled, AnswerSure,
     TestPending, IsTest
<1> QED
  BY <1>1, <1>2, <1>3, <1>4, LinkKept DEF At

\* A command has begun to arrive.
LEMMA PollKeeps ==
  ASSUME NEW p \in Int, At(p), Poll, UNCHANGED hostVars
  PROVE  At(p)' /\ Keeps
<1>1. /\ dev_pc = "poll" /\ dev_pc' = "rdcmd" /\ fifo # <<>> /\ fifo' = fifo /\ reply' = reply
      /\ cmd' = cmd /\ slen' = slen /\ addr' = addr /\ buff' = buff
      /\ usb_act' = usb_act /\ usb_need' = usb_need /\ usb_buf' = usb_buf /\ rom' = rom
      /\ host_pc' = host_pc /\ host_step' = host_step /\ out' = out /\ sessions' = sessions
  BY DEF Poll, loaderVars, engineVars, linkVars, hostVars
<1>2. TypeOK'
  BY <1>1 DEF At, TypeOK, DevTypeOK, HostTypeOK, DevPlaces
<1>3. LoaderAt(p)'
  BY <1>1 DEF At, LoaderAt, BetweenCommands, Loaded
<1>4. Keeps
  BY <1>1 DEF Keeps, RomHoldsImageOnly, FillSure, FillPending, IsFill, Filled, AnswerSure,
     TestPending, IsTest
<1> QED
  BY <1>1, <1>2, <1>3, <1>4, LinkKept DEF At

\* The engine is told to receive a packet.
LEMMA ReadCommandKeeps ==
  ASSUME NEW p \in Int, At(p), ReadCommand, UNCHANGED hostVars
  PROVE  At(p)' /\ Keeps
<1>1. /\ dev_pc = "rdcmd" /\ dev_pc' = "cmdwait" /\ fifo' = fifo /\ reply' = reply
      /\ cmd' = cmd /\ slen' = slen /\ addr' = addr /\ buff' = buff
      /\ usb_act' = TRUE /\ usb_need' = 1 /\ usb_buf' = <<>> /\ rom' = rom
      /\ host_pc' = host_pc /\ host_step' = host_step /\ out' = out /\ sessions' = sessions
  BY DEF ReadCommand, StartRead, loaderVars, linkVars, hostVars
<1>2. TypeOK'
  BY <1>1, Constants DEF At, TypeOK, DevTypeOK, HostTypeOK, DevPlaces
<1>3. LoaderAt(p)'
  BY <1>1 DEF At, LoaderAt, BetweenCommands, Loaded
<1>4. Keeps
  BY <1>1 DEF Keeps, RomHoldsImageOnly, FillSure, FillPending, IsFill, Filled, AnswerSure,
     TestPending, IsTest
<1> QED
  BY <1>1, <1>2, <1>3, <1>4, LinkKept DEF At

\* The packet is in the engine's buffer.
LEMMA CommandReadKeeps ==
  ASSUME NEW p \in Int, At(p), CommandRead, UNCHANGED hostVars
  PROVE  At(p)' /\ Keeps
<1>1. /\ dev_pc = "cmdwait" /\ ~usb_act /\ dev_pc' = "dispatch" /\ fifo' = fifo /\ reply' = reply
      /\ cmd' = usb_buf[1] /\ slen' = slen /\ addr' = addr /\ buff' = buff
      /\ usb_act' = usb_act /\ usb_need' = usb_need /\ usb_buf' = usb_buf /\ rom' = rom
      /\ host_pc' = host_pc /\ host_step' = host_step /\ out' = out /\ sessions' = sessions
  BY DEF CommandRead, engineVars, linkVars, hostVars
<1>2. TypeOK'
  <2>1. usb_buf \in Seq(Units) /\ Len(usb_buf) = 1
    BY <1>1 DEF At, TypeOK, DevTypeOK, LoaderAt
  <2>2. usb_buf[1] \in Units
    BY <2>1
  <2> QED
    BY <1>1, <2>2 DEF At, TypeOK, DevTypeOK, HostTypeOK, DevPlaces
<1>3. LoaderAt(p)'
  BY <1>1 DEF At, LoaderAt, AtCommand, IsUnit, Loaded
<1>4. Keeps
  BY <1>1 DEF Keeps, RomHoldsImageOnly, FillSure, FillPending, IsFill, Filled, AnswerSure,
     TestPending, IsTest
<1> QED
  BY <1>1, <1>2, <1>3, <1>4, LinkKept DEF At

\* A test is answered.
LEMMA AnswerTestKeeps ==
  ASSUME WholeImage, NEW p \in Int, At(p), AnswerTest(Listening), UNCHANGED hostVars
  PROVE  At(p)' /\ Keeps
<1>1. /\ dev_pc = "dispatch" /\ cmd.op = "t" /\ dev_pc' = "poll" /\ fifo' = fifo
      /\ cmd' = cmd /\ slen' = slen /\ addr' = addr /\ buff' = buff
      /\ usb_act' = FALSE /\ usb_need' = 0 /\ usb_buf' = <<>> /\ rom' = rom
      /\ host_pc' = host_pc /\ host_step' = host_step /\ out' = out /\ sessions' = sessions
  BY DEF AnswerTest, StopEngine, loaderVars, hostVars
<1>2. reply' = Append(reply, "r") \/ (~Listening /\ reply' = reply)
  BY DEF AnswerTest
<1>3. p <= 0
  BY <1>1, AtDispatch, KindsOfUnits
<1>4. reply \in Seq({"r"}) /\ "r" \in {"r"}
  BY DEF At, TypeOK
<1>5. TypeOK'
  <2>1. reply' \in Seq({"r"})
    BY <1>2, <1>4, LastAdded
  <2>2. 0 \in 0 .. Block /\ <<>> \in Seq(Units) /\ Len(<<>>) <= Block
    BY Constants
  <2> QED
    BY <1>1, <2>1, <2>2 DEF At, TypeOK, DevTypeOK, HostTypeOK, DevPlaces
<1>6. LoaderAt(p)'
  <2>1. ~(p >= ImageUnits + 1)
    BY <1>3, Constants
  <2> QED
    BY <1>1, <1>3, <2>1 DEF LoaderAt, BetweenCommands
<1>7. Keeps
  <2>1. FillSure => FillSure'
    BY <1>1 DEF FillSure, FillPending, IsFill, Filled
  <2>2. Listening => reply' # <<>>
    BY <1>2, <1>4, LastAdded
  <2> QED
    BY <1>1, <2>1, <2>2 DEF Keeps, RomHoldsImageOnly, AnswerSure
<1> QED
  BY <1>1, <1>5, <1>6, <1>7, LinkKept DEF At

\* The area that the boot code checks is filled, before the image comes.
LEMMA CmemFillKeeps ==
  ASSUME WholeImage, NEW p \in Int, At(p), CmemFill, UNCHANGED hostVars
  PROVE  At(p)' /\ Keeps
<1>1. /\ dev_pc = "dispatch" /\ cmd.op = "c" /\ dev_pc' = "poll" /\ fifo' = fifo
      /\ reply' = reply /\ cmd' = cmd /\ slen' = slen /\ addr' = addr /\ buff' = buff
      /\ usb_act' = usb_act /\ usb_need' = usb_need /\ usb_buf' = usb_buf
      /\ host_pc' = host_pc /\ host_step' = host_step /\ out' = out /\ sessions' = sessions
  BY DEF CmemFill, loaderVars, engineVars, linkVars, hostVars
<1>2. p <= 0 /\ cmd = CCmd
  BY <1>1, AtDispatch, KindsOfUnits
<1>3. rom' = [a \in RomAddrs |->
        IF a \in 0 .. 0 + CrcArea - 1 THEN Other("fill") ELSE rom[a]]
  BY <1>2, KindsOfUnits DEF CmemFill
<1>4. TypeOK'
  <2>1. rom' \in [RomAddrs -> Units]
    BY <1>3, KindsOfUnits DEF At, TypeOK, DevTypeOK
  <2> QED
    BY <1>1, <2>1 DEF At, TypeOK, DevTypeOK, HostTypeOK, DevPlaces
<1>5. LoaderAt(p)'
  <2>1. ~(p >= ImageUnits + 1)
    BY <1>2, Constants
  <2> QED
    BY <1>1, <1>2, <2>1 DEF At, LoaderAt, BetweenCommands
<1>6. RomHoldsImageOnly => RomHoldsImageOnly'
  <2>1. Other("fill").kind = "fill"
    BY KindsOfUnits
  <2> QED
    BY <1>3, <2>1 DEF RomHoldsImageOnly
<1>7. FillSure'
  <2>1. \A i \in ImageUnits .. CrcArea - 1 : i \in RomAddrs /\ i \in 0 .. 0 + CrcArea - 1
    BY Constants DEF RomAddrs
  <2>2. Filled'
    BY <1>3, <2>1 DEF Filled
  <2> QED
    BY <2>2 DEF FillSure
<1>8. AnswerSure => AnswerSure'
  <2>1. ~IsTest(cmd)
    BY <1>2, KindsOfUnits, UnitsOf
  <2> QED
    BY <1>1, <2>1 DEF AnswerSure, TestPending, IsTest
<1> QED
  BY <1>1, <1>4, <1>5, <1>6, <1>7, <1>8, LinkKept DEF At, Keeps

\* The start command is behind the whole image, and every fill is behind it.
LEMMA StartGameEnds ==
  ASSUME WholeImage, NEW p \in Int, At(p), StartGame, UNCHANGED hostVars,
         out = <<>> \/ \A k \in 1 .. Len(out) : IsUnit(out[k], p + Len(fifo) + k),
         p + Len(fifo) + Len(out) <= StreamEnd, FillSure
  PROVE  /\ TypeOK' /\ (RomHoldsImageOnly => RomHoldsImageOnly')
         /\ dev_pc' = "game" /\ ~usb_act' /\ ImageInRom'
<1>1. /\ dev_pc = "dispatch" /\ cmd.op = "s" /\ dev_pc' = "game" /\ fifo' = fifo
      /\ reply' = reply /\ cmd' = cmd /\ slen' = slen /\ addr' = addr /\ buff' = buff
      /\ usb_act' = usb_act /\ usb_need' = usb_need /\ usb_buf' = usb_buf /\ rom' = rom
      /\ host_pc' = host_pc /\ host_step' = host_step /\ out' = out /\ sessions' = sessions
  BY DEF StartGame, loaderVars, engineVars, linkVars, hostVars
<1>2. TypeOK'
  BY <1>1 DEF At, TypeOK, DevTypeOK, HostTypeOK, DevPlaces
<1>3. p = ImageUnits + 2 /\ cmd = SCmd
  BY <1>1, AtDispatch, KindsOfUnits
<1>4. ImageUnits \in Nat /\ ImageUnits >= 1 /\ NameUnits \in Nat
  BY Constants
<1>5. Len(out) \in Nat
  BY LenProperties DEF At, TypeOK, HostTypeOK
<1>6. ~FillPending
  <2>1. ASSUME NEW k \in 1 .. Len(fifo) PROVE ~IsFill(fifo[k])
    <3>1. IsUnit(fifo[k], p + k)
      BY DEF At, OnTheWay
    <3>2. p + k \in ImageUnits + 3 .. ImageUnits + NameUnits + 2 /\ p + k \in Int
      BY <1>3, <1>4, <2>1, Lengths
    <3>3. fifo[k] = Other("name")
      BY <3>1, <3>2, UnitsOf
    <3> QED
      BY <3>3, KindsOfUnits DEF IsFill
  <2>2. ASSUME NEW k \in 1 .. Len(out) PROVE ~IsFill(out[k])
    <3> DEFINE q == p + Len(fifo) + k
    <3>1. IsUnit(out[k], q)
      BY <1>5, <2>2
    <3>2. q \in ImageUnits + 3 .. ImageUnits + NameUnits + 2 /\ q \in Int
      <4>1. Len(fifo) \in Nat /\ k \in Int /\ k >= 1 /\ k <= Len(out)
        BY <1>5, <2>2, Lengths
      <4>2. q >= ImageUnits + 3 /\ q \in Int
        BY <1>3, <1>4, <4>1
      <4>3. q <= ImageUnits + NameUnits + 2
        BY <1>3, <1>4, <1>5, <4>1 DEF StreamEnd
      <4> QED
        BY <1>4, <4>2, <4>3
    <3> HIDE DEF q
    <3>3. out[k] = Other("name")
      BY <3>1, <3>2, UnitsOf
    <3> QED
      BY <3>3, KindsOfUnits DEF IsFill
  <2> QED
    BY <1>1, <2>1, <2>2 DEF FillPending, IsFill
<1>7. Loaded(ImageUnits) /\ ~usb_act
  BY <1>1, <1>3, <1>4 DEF At, LoaderAt
<1>8. ImageInRom'
  BY <1>1, <1>6, <1>7 DEF FillSure, ImageInRom, Filled, Loaded
<1> QED
  BY <1>1, <1>2, <1>7, <1>8 DEF RomHoldsImageOnly

\* The 'W' command: the first block is asked for.
LEMMA RomWriteStartKeeps ==
  ASSUME WholeImage, NEW p \in Int, At(p), RomWriteStart, UNCHANGED hostVars
  PROVE  At(p)' /\ Keeps
<1>1. /\ dev_pc = "dispatch" /\ cmd.op = "W" /\ dev_pc' = "rdend" /\ fifo' = fifo
      /\ reply' = reply /\ cmd' = cmd /\ slen' = cmd.len /\ addr' = cmd.addr /\ buff' = buff
      /\ usb_act' = TRUE /\ usb_need' = Block /\ usb_buf' = <<>> /\ rom' = rom
      /\ host_pc' = host_pc /\ host_step' = host_step /\ out' = out /\ sessions' = sessions
  BY DEF RomWriteStart, StartRead, linkVars, hostVars
<1>2. p = 1 /\ cmd = WCmd
  BY <1>1, AtDispatch, KindsOfUnits
<1>3. addr' = 0 /\ slen' \in 1 .. RomUnits /\ slen' * Block = ImageUnits
  BY <1>1, <1>2, KindsOfUnits
<1>4. TypeOK'
  <2>1. addr' \in 0 .. RomUnits /\ slen' \in 0 .. RomUnits /\ Block \in 0 .. Block
        /\ <<>> \in Seq(Units) /\ Len(<<>>) <= Block
    BY <1>3, Constants
  <2> QED
    BY <1>1, <2>1 DEF At, TypeOK, DevTypeOK, HostTypeOK, DevPlaces
<1>5. LoaderAt(p)'
  <2>1. Receiving(addr, p)'
    BY <1>1, <1>2, <1>3, Constants DEF Receiving
  <2>2. Loaded(addr)'
    BY <1>3 DEF Loaded
  <2>3. slen' # 0
    BY <1>3, Constants
  <2>4. slen' * Block = ImageUnits - addr'
    <3>1. ImageUnits = ImageUnits - 0
      BY Constants
    <3> QED
      BY <1>3, <3>1
  <2> QED
    BY <1>1, <2>1, <2>2, <2>3, <2>4 DEF LoaderAt
<1>6. Keeps
  <2>1. ~IsTest(cmd)
    BY <1>2, KindsOfUnits, UnitsOf
  <2> QED
    BY <1>1, <2>1 DEF Keeps, RomHoldsImageOnly, FillSure, FillPending, IsFill, Filled,
       AnswerSure, TestPending, IsTest
<1> QED
  BY <1>1, <1>4, <1>5, <1>6, LinkKept DEF At

\* A block is in the CPU's buffer.
LEMMA BlockReadKeeps ==
  ASSUME NEW p \in Int, At(p), BlockRead, UNCHANGED hostVars
  PROVE  At(p)' /\ Keeps
<1>1. /\ dev_pc = "rdend" /\ ~usb_act /\ dev_pc' = "rdnext" /\ fifo' = fifo
      /\ reply' = reply /\ cmd' = cmd /\ slen' = slen - 1 /\ addr' = addr /\ buff' = usb_buf
      /\ usb_act' = usb_act /\ usb_need' = usb_need /\ usb_buf' = usb_buf /\ rom' = rom
      /\ host_pc' = host_pc /\ host_step' = host_step /\ out' = out /\ sessions' = sessions
  BY DEF BlockRead, engineVars, linkVars, hostVars
<1>2. slen # 0 /\ slen * Block = ImageUnits - addr /\ Receiving(addr, p) /\ Loaded(addr)
  BY <1>1 DEF At, LoaderAt
<1>3. /\ slen \in Nat /\ addr \in Nat /\ slen \in 0 .. RomUnits
      /\ usb_buf \in Seq(Units) /\ Len(usb_buf) <= Block /\ Len(usb_buf) \in Nat
  BY LenProperties, Constants DEF At, TypeOK, DevTypeOK
<1>4. TypeOK'
  <2>1. slen - 1 \in 0 .. RomUnits
    BY <1>2, <1>3, Constants
  <2> QED
    BY <1>1, <1>3, <2>1 DEF At, TypeOK, DevTypeOK, HostTypeOK, DevPlaces
<1>5. LoaderAt(p)'
  <2>1. slen' * Block = ImageUnits - addr' - Block
    <3>1. (slen - 1) * Block = slen * Block - Block
      BY <1>2, <1>3, OneBlockLess
    <3> QED
      BY <1>1, <1>2, <3>1
  <2>2. Len(usb_buf) = Block
    BY <1>1, <1>2, <1>3, Constants DEF Receiving
  <2>3. InBuff(addr)'
    BY <1>1, <1>2, <2>2 DEF InBuff, Receiving
  <2>4. p - 1 = addr' + Block
    BY <1>1, <1>2, <2>2 DEF Receiving
  <2>5. Loaded(addr)'
    BY <1>1, <1>2 DEF Loaded
  <2> QED
    BY <1>1, <2>1, <2>3, <2>4, <2>5 DEF LoaderAt
<1>6. Keeps
  BY <1>1 DEF Keeps, RomHoldsImageOnly, FillSure, FillPending, IsFill, Filled, AnswerSure,
     TestPending, IsTest
<1> QED
  BY <1>1, <1>4, <1>5, <1>6, LinkKept DEF At

\* The next block is asked for, if there is one.
LEMMA ReadNextKeeps ==
  ASSUME NEW p \in Int, At(p), ReadNext, UNCHANGED hostVars
  PROVE  At(p)' /\ Keeps
<1>1. /\ dev_pc = "rdnext" /\ dev_pc' = "copy" /\ fifo' = fifo
      /\ reply' = reply /\ cmd' = cmd /\ slen' = slen /\ addr' = addr /\ buff' = buff
      /\ rom' = rom
      /\ host_pc' = host_pc /\ host_step' = host_step /\ out' = out /\ sessions' = sessions
  BY DEF ReadNext, loaderVars, linkVars, hostVars
<1>2. /\ slen # 0 => usb_act' = TRUE /\ usb_need' = Block /\ usb_buf' = <<>>
      /\ slen = 0 => usb_act' = usb_act /\ usb_need' = usb_need /\ usb_buf' = usb_buf
  BY DEF ReadNext, StartRead, engineVars
<1>3. TypeOK'
  <2>1. <<>> \in Seq(Units) /\ Len(<<>>) <= Block /\ Block \in 0 .. Block /\ TRUE \in BOOLEAN
    BY Constants
  <2>2. usb_act' \in BOOLEAN /\ usb_need' \in 0 .. Block /\ usb_buf' \in Seq(Units)
        /\ Len(usb_buf') <= Block
    BY <1>2, <2>1 DEF At, TypeOK, DevTypeOK
  <2> QED
    BY <1>1, <2>2 DEF At, TypeOK, DevTypeOK, HostTypeOK, DevPlaces
<1>4. LoaderAt(p)'
  <2>1. /\ slen * Block = ImageUnits - addr - Block /\ InBuff(addr)
        /\ ~usb_act /\ p - 1 = addr + Block /\ Loaded(addr)
    BY <1>1 DEF At, LoaderAt
  <2>2. InBuff(addr)' /\ Loaded(addr)'
    BY <1>1, <2>1 DEF InBuff, Loaded
  <2>3. slen' # 0 => Receiving(addr + Block, p)'
    <3>1. addr \in Int /\ Block \in Nat /\ Block >= 1
      BY Constants DEF At, TypeOK, DevTypeOK
    <3> QED
      BY <1>1, <1>2, <2>1, <3>1 DEF Receiving
  <2>4. slen' = 0 => ~usb_act'
    BY <1>1, <1>2, <2>1
  <2>5. slen' * Block = ImageUnits - addr' - Block /\ p - 1 = addr' + Block
    BY <1>1, <2>1
  <2> QED
    BY <1>1, <2>2, <2>3, <2>4, <2>5 DEF LoaderAt
<1>5. Keeps
  BY <1>1 DEF Keeps, RomHoldsImageOnly, FillSure, FillPending, IsFill, Filled, AnswerSure,
     TestPending, IsTest
<1> QED
  BY <1>1, <1>3, <1>4, <1>5, LinkKept DEF At

\* The block goes where it belongs, whatever the engine receives meanwhile.
LEMMA CopyBlockKeeps ==
  ASSUME WholeImage, NEW p \in Int, At(p), CopyBlock, UNCHANGED hostVars
  PROVE  At(p)' /\ Keeps
<1>1. /\ dev_pc = "copy" /\ fifo' = fifo
      /\ reply' = reply /\ cmd' = cmd /\ slen' = slen /\ addr' = addr + Block /\ buff' = buff
      /\ usb_act' = usb_act /\ usb_need' = usb_need /\ usb_buf' = usb_buf
      /\ host_pc' = host_pc /\ host_step' = host_step /\ out' = out /\ sessions' = sessions
      /\ dev_pc' = IF slen = 0 THEN "poll" ELSE "rdend"
      /\ rom' = [a \in RomAddrs |->
           IF a \in addr .. addr + Block - 1 THEN buff[a - addr + 1] ELSE rom[a]]
  BY DEF CopyBlock, engineVars, linkVars, hostVars
<1>2. /\ slen * Block = ImageUnits - addr - Block /\ InBuff(addr) /\ Loaded(addr)
      /\ slen = 0 => ~usb_act /\ p - 1 = addr + Block
      /\ slen # 0 => Receiving(addr + Block, p)
  BY <1>1 DEF At, LoaderAt
<1>3. /\ slen \in Nat /\ addr \in Nat /\ Block \in Nat /\ ImageUnits \in Nat
      /\ RomUnits \in Nat /\ ImageUnits <= RomUnits
  BY Constants DEF At, TypeOK, DevTypeOK
<1>4. /\ slen * Block \in Nat /\ addr + Block <= ImageUnits
      /\ slen = 0 => addr + Block = ImageUnits
  <2>1. slen * Block \in Nat /\ (slen = 0 <=> slen * Block = 0)
    BY <1>3, OneBlockLess
  <2> QED
    BY <1>2, <1>3, <2>1
<1>5. \A a \in addr .. addr + Block - 1 :
        a \in RomAddrs /\ a \in 0 .. RomUnits /\ rom'[a] = Data(a)
  <2> TAKE a \in addr .. addr + Block - 1
  <2>1. a \in 0 .. RomUnits - 1 /\ a \in 0 .. RomUnits
    BY <1>3, <1>4
  <2>2. a - addr + 1 \in 1 .. Block /\ addr + (a - addr + 1) - 1 = a
    BY <1>3
  <2>3. buff[a - addr + 1] = Data(a)
    BY <1>2, <2>2 DEF InBuff
  <2> QED
    BY <1>1, <2>1, <2>3 DEF RomAddrs
<1>6. \A a \in RomAddrs : a \notin addr .. addr + Block - 1 => rom'[a] = rom[a]
  BY <1>1
<1>7. TypeOK'
  <2>1. rom' \in [RomAddrs -> Units]
    <3>1. \A a \in RomAddrs : rom[a] \in Units
      BY DEF At, TypeOK, DevTypeOK
    <3>2. \A a \in addr .. addr + Block - 1 : rom'[a] \in Units
      BY <1>5, KindsOfUnits
    <3>3. \A a \in RomAddrs : rom'[a] \in Units
      BY <1>6, <3>1, <3>2
    <3> QED
      BY <1>1, <3>3
  <2>2. addr' \in 0 .. RomUnits
    BY <1>1, <1>3, <1>4
  <2>3. dev_pc' \in DevPlaces
    BY <1>1 DEF DevPlaces
  <2> QED
    BY <1>1, <2>1, <2>2, <2>3 DEF At, TypeOK, DevTypeOK, HostTypeOK
<1>8. RomHoldsImageOnly => RomHoldsImageOnly'
  BY <1>5, <1>6 DEF RomHoldsImageOnly
<1>9. Loaded(addr)'
  <2>1. ASSUME NEW i \in 0 .. addr' - 1 PROVE rom'[i] = Data(i)
    <3>1. i \in 0 .. addr + Block - 1 /\ i \in RomAddrs
      BY <1>1, <1>3, <1>4 DEF RomAddrs
    <3>2. CASE i \in addr .. addr + Block - 1
      BY <1>5, <3>2
    <3>3. CASE i \in 0 .. addr - 1
      <4>1. i \notin addr .. addr + Block - 1
        BY <1>3, <3>3
      <4> QED
        BY <1>2, <1>6, <3>1, <3>3, <4>1 DEF Loaded
    <3> QED
      BY <1>3, <3>1, <3>2, <3>3
  <2> QED
    BY <2>1 DEF Loaded
<1>10. LoaderAt(p)'
  <2>1. CASE slen = 0
    <3>1. addr' = ImageUnits /\ p = ImageUnits + 1 /\ ~usb_act' /\ dev_pc' = "poll"
      BY <1>1, <1>2, <1>3, <1>4, <2>1
    <3>2. Loaded(ImageUnits)'
      BY <1>9, <3>1 DEF Loaded
    <3> QED
      BY <3>1, <3>2 DEF LoaderAt, BetweenCommands
  <2>2. CASE slen # 0
    <3>1. Receiving(addr, p)'
      BY <1>1, <1>2, <2>2 DEF Receiving
    <3>2. slen' # 0 /\ slen' * Block = ImageUnits - addr'
      BY <1>1, <1>2, <1>3, <1>4, <2>2
    <3>3. dev_pc' = "rdend"
      BY <1>1, <2>2
    <3> QED
      BY <1>9, <3>1, <3>2, <3>3 DEF LoaderAt
  <2> QED
    BY <2>1, <2>2
<1>11. FillSure => FillSure'
  <2>1. \A i \in ImageUnits .. CrcArea - 1 :
          i \in RomAddrs /\ i \notin addr .. addr + Block - 1
    BY <1>3, <1>4, Constants DEF RomAddrs
  <2>2. Filled => Filled'
    BY <1>6, <2>1 DEF Filled
  <2>3. FillPending => FillPending'
    BY <1>1 DEF FillPending, IsFill
  <2> QED
    BY <2>2, <2>3 DEF FillSure
<1>12. AnswerSure => AnswerSure'
  BY <1>1 DEF AnswerSure, TestPending, IsTest
<1> QED
  BY <1>1, <1>7, <1>8, <1>10, <1>11, <1>12, LinkKept DEF At, Keeps

\* A unit is received: a command while one is waited for, otherwise the next
\* unit of the block.
LEMMA EngineReceivesKeeps ==
  ASSUME WholeImage, NEW p \in Int, At(p), dev_pc # "game", EngineReceives,
         UNCHANGED hostVars
  PROVE  At(p + 1)' /\ Keeps /\ Len(fifo') = Len(fifo) - 1
<1>1. /\ usb_act /\ fifo # <<>>
      /\ usb_buf' = Append(usb_buf, Head(fifo)) /\ fifo' = Tail(fifo)
      /\ usb_need' = usb_need /\ dev_pc' = dev_pc /\ reply' = reply
      /\ cmd' = cmd /\ slen' = slen /\ addr' = addr /\ buff' = buff /\ rom' = rom
      /\ host_pc' = host_pc /\ host_step' = host_step /\ out' = out /\ sessions' = sessions
  BY DEF EngineReceives, loaderVars, hostVars
<1>2. usb_act' = (Len(usb_buf) + 1 < usb_need)
  BY DEF EngineReceives
<1>3. TypeOK /\ OnTheWay(p) /\ LoaderAt(p)
  BY DEF At
<1>4. fifo \in Seq(Units) /\ usb_buf \in Seq(Units) /\ addr \in Nat /\ slen \in Nat
  BY <1>3 DEF TypeOK, DevTypeOK
<1>5. /\ Head(fifo) = fifo[1] /\ fifo[1] \in Units
      /\ fifo' \in Seq(Units) /\ Len(fifo') = Len(fifo) - 1
      /\ Len(fifo) \in Nat /\ Len(fifo) >= 1
      /\ \A i \in 1 .. Len(fifo) - 1 : fifo'[i] = fifo[i + 1]
  BY <1>1, <1>4, FirstTaken
<1>6. /\ usb_buf' \in Seq(Units) /\ Len(usb_buf') = Len(usb_buf) + 1 /\ Len(usb_buf) \in Nat
      /\ \A i \in 1 .. Len(usb_buf) : usb_buf'[i] = usb_buf[i]
      /\ usb_buf'[Len(usb_buf) + 1] = fifo[1]
  BY <1>1, <1>4, <1>5, LastAdded
<1>7. Block \in Nat /\ Block >= 1 /\ ImageUnits \in Nat
  BY Constants
<1>9. IsUnit(fifo[1], p + 1)
  BY <1>3, <1>5 DEF OnTheWay
<1>10. dev_pc \in {"cmdwait", "rdend"} \/ (dev_pc = "copy" /\ slen # 0)
  BY <1>1, <1>3 DEF LoaderAt, BetweenCommands, TypeOK, DevTypeOK, DevPlaces
<1> DEFINE base == IF dev_pc = "rdend" THEN addr ELSE addr + Block
<1>11. dev_pc # "cmdwait" =>
         /\ Receiving(base, p) /\ base \in Nat /\ base + Block <= ImageUnits
         /\ Len(usb_buf) < Block /\ usb_need = Block
  <2>1. CASE dev_pc = "rdend"
    <3>1. slen # 0 /\ slen * Block = ImageUnits - addr /\ Receiving(addr, p)
      BY <1>3, <2>1 DEF LoaderAt
    <3>2. slen * Block >= Block /\ slen * Block \in Nat
      BY <1>4, <3>1, OneBlockLess
    <3>3. base = addr /\ base \in Nat
      BY <1>4, <2>1
    <3>4. addr + Block <= ImageUnits
      BY <1>4, <1>7, <3>1, <3>2
    <3>5. Len(usb_buf) < Block /\ usb_need = Block
      BY <1>1, <3>1 DEF Receiving
    <3> QED
      BY <3>1, <3>3, <3>4, <3>5
  <2>2. CASE dev_pc = "copy" /\ slen # 0
    <3>1. slen * Block = ImageUnits - addr - Block /\ Receiving(addr + Block, p)
      BY <1>3, <2>2 DEF LoaderAt
    <3>2. slen * Block >= Block /\ slen * Block \in Nat
      BY <1>4, <2>2, OneBlockLess
    <3>3. base = addr + Block /\ base \in Nat
      BY <1>4, <1>7, <2>2
    <3>4. addr + Block + Block <= ImageUnits
      BY <1>4, <1>7, <3>1, <3>2
    <3>5. Len(usb_buf) < Block /\ usb_need = Block
      BY <1>1, <3>1 DEF Receiving
    <3> QED
      BY <3>1, <3>3, <3>4, <3>5
  <2> QED
    BY <1>10, <2>1, <2>2
<1>12. dev_pc = "cmdwait" =>
         usb_need = 1 /\ usb_buf = <<>> /\ (p <= 0 \/ p = ImageUnits + 1)
  BY <1>1, <1>3 DEF LoaderAt
<1> HIDE DEF base
<1>13. dev_pc = "cmdwait" => usb_act' = FALSE /\ Len(usb_buf') = 1 /\ usb_buf'[1] = fifo[1]
  <2>1. SUFFICES ASSUME dev_pc = "cmdwait"
                 PROVE  usb_act' = FALSE /\ Len(usb_buf') = 1 /\ usb_buf'[1] = fifo[1]
    OBVIOUS
  <2>2. Len(usb_buf) = 0 /\ usb_need = 1
    BY <1>12, <2>1
  <2>3. ~(Len(usb_buf) + 1 < usb_need)
    BY <2>2
  <2>4. usb_act' = FALSE
    <3> DEFINE more == Len(usb_buf) + 1 < usb_need
    <3>1. usb_act' = more /\ more \in BOOLEAN /\ ~more
      BY <1>2, <2>3
    <3> HIDE DEF more
    <3> QED
      BY ONLY <3>1
  <2> QED
    BY <1>6, <2>2, <2>4
<1>14. dev_pc # "cmdwait" => fifo[1] = Data(base + Len(usb_buf))
  <2>1. SUFFICES ASSUME dev_pc # "cmdwait" PROVE fifo[1] = Data(base + Len(usb_buf))
    OBVIOUS
  <2>2. p - 1 = base + Len(usb_buf)
    BY <1>11, <2>1 DEF Receiving
  <2>3. p + 1 \in 2 .. ImageUnits + 1 /\ (p + 1) - 2 = base + Len(usb_buf)
        /\ p + 1 \in Int
    BY <1>6, <1>7, <1>11, <2>1, <2>2
  <2> QED
    BY <1>9, <2>3, UnitsOf
<1>15. TypeOK'
  <2>1. Len(usb_buf') <= Block
    BY <1>6, <1>7, <1>11, <1>12
  <2>2. usb_act' \in BOOLEAN
    BY <1>2
  <2>3. Len(fifo') <= FifoCap
    BY <1>3, <1>5, Constants DEF TypeOK
  <2> QED
    BY <1>1, <1>3, <1>5, <1>6, <2>1, <2>2, <2>3 DEF TypeOK, DevTypeOK, HostTypeOK
<1>16. OnTheWay(p + 1)'
  <2>1. ASSUME NEW k \in 1 .. Len(fifo') PROVE IsUnit(fifo'[k], p + 1 + k)
    <3>1. k \in 1 .. Len(fifo) - 1 /\ k + 1 \in 1 .. Len(fifo) /\ p + 1 + k = p + (k + 1)
      BY <1>5, <1>7
    <3> QED
      BY <1>3, <1>5, <3>1 DEF OnTheWay
  <2>2. p + 1 + Len(fifo') = p + Len(fifo)
    BY <1>5
  <2> QED
    BY <1>3, <2>1, <2>2 DEF OnTheWay, IsUnit
<1>17. LoaderAt(p + 1)'
  <2>1. CASE dev_pc = "cmdwait"
    <3>1. usb_act' = FALSE /\ Len(usb_buf') = 1 /\ usb_buf'[1] = fifo[1]
      BY <1>13, <2>1
    <3>2. p + 1 <= 1 \/ p + 1 = ImageUnits + 2
      BY <1>7, <1>12, <2>1
    <3>3. IsUnit(usb_buf'[1], p + 1)
      BY <1>9, <3>1
    <3>4. AtCommand(usb_buf[1], p + 1)'
      BY <3>2, <3>3 DEF AtCommand, IsUnit
    <3>5. p + 1 >= ImageUnits + 1 => p >= ImageUnits + 1
      BY <1>7, <1>12, <2>1, Constants
    <3>6. p + 1 >= ImageUnits + 1 => Loaded(ImageUnits)'
      BY <1>1, <1>3, <2>1, <3>5 DEF LoaderAt, Loaded
    <3> QED
      BY <1>1, <1>12, <2>1, <3>1, <3>4, <3>6 DEF LoaderAt
  <2>2. CASE dev_pc # "cmdwait"
    <3>1. Receiving(base, p)
      BY <1>11, <2>2
    <3>2. usb_act' <=> Len(usb_buf') < Block
      BY <1>2, <1>6, <1>11, <2>2
    <3>3. ASSUME NEW k \in 1 .. Len(usb_buf') PROVE usb_buf'[k] = Data(base + k - 1)
      <4>1. CASE k \in 1 .. Len(usb_buf)
        BY <1>6, <3>1, <4>1 DEF Receiving
      <4>2. CASE k = Len(usb_buf) + 1
        <5>1. base + k - 1 = base + Len(usb_buf)
          BY <1>6, <1>11, <2>2, <4>2
        <5> QED
          BY <1>6, <1>14, <2>2, <4>2, <5>1
      <4> QED
        BY <1>6, <4>1, <4>2
    <3>4. (p + 1) - 1 = base + Len(usb_buf')
      <4>1. p - 1 = base + Len(usb_buf)
        BY <3>1 DEF Receiving
      <4> QED
        BY <1>6, <1>7, <1>11, <2>2, <4>1
    <3>5. /\ usb_need' = Block
          /\ (usb_act' <=> Len(usb_buf') < Block)
          /\ \A k \in 1 .. Len(usb_buf') : usb_buf'[k] = Data(base + k - 1)
          /\ (p + 1) - 1 = base + Len(usb_buf')
      BY <1>1, <1>11, <2>2, <3>2, <3>3, <3>4
    <3>6. CASE dev_pc = "rdend"
      <4>1. base = addr'
        BY <1>1, <3>6 DEF base
      <4>2. Receiving(addr, p + 1)'
        BY <3>5, <4>1 DEF Receiving
      <4>3. slen # 0 /\ slen * Block = ImageUnits - addr /\ Loaded(addr)
        BY <1>3, <3>6 DEF LoaderAt
      <4> QED
        BY <1>1, <3>6, <4>2, <4>3 DEF LoaderAt, Loaded
    <3>7. CASE dev_pc = "copy" /\ slen # 0
      <4>1. base = addr' + Block
        BY <1>1, <3>7 DEF base
      <4>2. Receiving(addr + Block, p + 1)'
        BY <3>5, <4>1 DEF Receiving
      <4>3. slen * Block = ImageUnits - addr - Block /\ InBuff(addr) /\ Loaded(addr)
        BY <1>3, <3>7 DEF LoaderAt
      <4> QED
        BY <1>1, <3>7, <4>2, <4>3 DEF LoaderAt, Loaded, InBuff
    <3> QED
      BY <1>10, <2>2, <3>6, <3>7
  <2> QED
    BY <2>1, <2>2
<1>18. dev_pc # "cmdwait" => ~IsFill(fifo[1]) /\ ~IsTest(fifo[1])
  BY <1>14, KindsOfUnits, UnitsOf DEF IsFill
<1>19. FillSure => FillSure'
  <2>1. ASSUME FillPending PROVE FillPending'
    <3>1. CASE \E k \in 1 .. Len(fifo) : IsFill(fifo[k])
      <4>1. PICK k \in 1 .. Len(fifo) : IsFill(fifo[k])
        BY <3>1
      <4>2. CASE k = 1
        BY <1>1, <1>18, <1>13, <4>1, <4>2 DEF FillPending, IsFill
      <4>3. CASE k # 1
        <5>1. k - 1 \in 1 .. Len(fifo') /\ fifo'[k - 1] = fifo[k]
          BY <1>5, <4>3
        <5> QED
          BY <4>1, <5>1 DEF FillPending, IsFill
      <4> QED
        BY <4>2, <4>3
    <3>2. CASE \E k \in 1 .. Len(out) : IsFill(out[k])
      BY <1>1, <3>2 DEF FillPending, IsFill
    <3>3. ~(dev_pc = "cmdwait" /\ ~usb_act) /\ dev_pc # "dispatch"
      BY <1>1, <1>10
    <3> QED
      BY <2>1, <3>1, <3>2, <3>3 DEF FillPending
  <2> QED
    BY <1>1, <2>1 DEF FillSure, Filled
<1>20. AnswerSure => AnswerSure'
  <2>1. ASSUME TestPending PROVE TestPending'
    <3>1. IsTest(fifo[Len(fifo)])
      BY <1>1, <2>1 DEF TestPending
    <3>2. CASE Len(fifo) = 1
      <4>1. fifo' = <<>> /\ dev_pc = "cmdwait"
        BY <1>5, <1>18, <3>1, <3>2
      <4> QED
        BY <1>1, <1>13, <3>1, <3>2, <4>1 DEF TestPending, IsTest
    <3>3. CASE Len(fifo) # 1
      <4>1. /\ Len(fifo') \in 1 .. Len(fifo) - 1 /\ fifo' # <<>>
            /\ Len(fifo') + 1 = Len(fifo)
        BY <1>5, <3>3
      <4>2. fifo'[Len(fifo')] = fifo[Len(fifo)]
        BY <1>5, <4>1
      <4> QED
        BY <3>1, <4>1, <4>2 DEF TestPending, IsTest
    <3> QED
      BY <3>2, <3>3
  <2> QED
    BY <1>1, <2>1 DEF AnswerSure
<1> QED
  BY <1>1, <1>5, <1>15, <1>16, <1>17, <1>19, <1>20 DEF At, Keeps, RomHoldsImageOnly

\* What the loader never does in step with the stream.
LEMMA NeverDone ==
  ASSUME WholeImage, NEW p \in Int, At(p)
  PROVE  ~IgnoreCommand /\ ~RomWriteAborts
<1>1. dev_pc = "dispatch" => cmd \in {TCmd, CCmd, WCmd, SCmd}
  BY AtDispatch
<1>2. dev_pc # "abort"
  BY DEF At, LoaderAt
<1>3. /\ TCmd.op = "t" /\ CCmd.op = "c" /\ SCmd.op = "s"
      /\ WCmd.op = "W" /\ WCmd.len # 0
  <2>1. WCmd.len \in 1 .. RomUnits /\ RomUnits \in Nat
    BY KindsOfUnits, Constants
  <2>2. WCmd.len # 0
    BY <2>1
  <2> QED
    BY <2>2, KindsOfUnits
<1> QED
  BY <1>1, <1>2, <1>3 DEF IgnoreCommand, RomWriteAborts

\* A step of the console takes a unit from the FIFO, or leaves the FIFO alone.
LEMMA DeviceStepKeeps ==
  ASSUME WholeImage, NEW p \in Int, At(p), dev_pc # "game", DeviceStep, ~StartGame
  PROVE  /\ \E q \in Int : At(q)' /\ q + Len(fifo') = p + Len(fifo)
         /\ Keeps /\ UNCHANGED hostVars /\ dev_pc' \notin {"menu", "game"}
<1>1. UNCHANGED hostVars
  BY DEF DeviceStep
<1>2. CASE EngineReceives
  <2>1. At(p + 1)' /\ Keeps /\ Len(fifo') = Len(fifo) - 1
    BY <1>1, <1>2, EngineReceivesKeeps
  <2>2. p + 1 \in Int /\ p + 1 + Len(fifo') = p + Len(fifo)
    BY <2>1, Lengths
  <2>3. dev_pc' = dev_pc /\ dev_pc # "menu"
    BY <1>2 DEF EngineReceives, At, LoaderAt, BetweenCommands
  <2> QED
    BY <1>1, <2>1, <2>2, <2>3
<1>3. CASE ~EngineReceives
  <2>1. At(p)' /\ Keeps
    BY <1>1, <1>3, PollKeeps, ReadCommandKeeps, CommandReadKeeps, AnswerTestKeeps,
       CmemFillKeeps, RomWriteStartKeeps, BlockReadKeeps, ReadNextKeeps, CopyBlockKeeps,
       NeverDone DEF DeviceStep, LoaderStep
  <2>2. fifo' = fifo /\ dev_pc' \notin {"menu", "game"}
    BY <1>3 DEF DeviceStep, LoaderStep, Poll, ReadCommand, CommandRead, IgnoreCommand,
       StartGame, CmemFill, RomWriteStart, BlockRead, ReadNext, CopyBlock, RomWriteAborts,
       AnswerTest, linkVars
  <2> QED
    BY <1>1, <2>1, <2>2
<1> QED
  BY <1>2, <1>3

-----------------------------------------------------------------------------
(***************************************************************************)
(* Steps of a host that runs: what it writes continues what the console    *)
(* has taken and what is on its way.                                       *)
(***************************************************************************)

\* What the loader knows of the stream is not disturbed by a host that only
\* adds to what is on its way.
LEMMA LoaderKept ==
  ASSUME WholeImage, TypeOK, NEW p \in Int, LoaderAt(p), UNCHANGED devVars,
         NEW q \in Int, q = p \/ (p <= 0 /\ q <= 0),
         fifo # <<>> => fifo' # <<>>
  PROVE  LoaderAt(q)'
<1>1. /\ dev_pc' = dev_pc /\ cmd' = cmd /\ slen' = slen /\ addr' = addr /\ buff' = buff
      /\ usb_act' = usb_act /\ usb_need' = usb_need /\ usb_buf' = usb_buf /\ rom' = rom
  BY DEF devVars, loaderVars, engineVars
<1>2. CASE q = p
  BY <1>1, <1>2 DEF LoaderAt, BetweenCommands, AtCommand, IsUnit, Receiving, InBuff, Loaded
<1>3. CASE p <= 0 /\ q <= 0
  <2>1. addr \in Nat /\ Len(usb_buf) \in Nat
    BY LenProperties DEF TypeOK, DevTypeOK
  <2>2. \A a \in Nat : ~Receiving(a, p)
    BY <1>3, <2>1 DEF Receiving
  <2>3. dev_pc \notin {"rdend", "rdnext", "copy"}
    BY <1>3, <2>1, <2>2, Constants DEF LoaderAt
  <2>4. \A u : IsUnit(u, q) <=> IsUnit(u, p)
    BY <1>3, UnitsOf
  <2>5. ImageUnits \in Nat
    BY Constants
  <2>6. dev_pc = "cmdwait" /\ ~usb_act => AtCommand(usb_buf[1], q)'
    <3>1. dev_pc = "cmdwait" /\ ~usb_act => IsUnit(usb_buf[1], p)
      BY DEF LoaderAt, AtCommand
    <3> QED
      BY <1>1, <1>3, <2>4, <3>1 DEF AtCommand, IsUnit
  <2>7. dev_pc = "dispatch" => AtCommand(cmd, q)'
    <3>1. dev_pc = "dispatch" => IsUnit(cmd, p)
      BY DEF LoaderAt, AtCommand
    <3> QED
      BY <1>1, <1>3, <2>4, <3>1 DEF AtCommand, IsUnit
  <2> QED
    BY <1>1, <1>3, <2>3, <2>5, <2>6, <2>7 DEF LoaderAt, BetweenCommands
<1> QED
  BY <1>2, <1>3

\* A step of the host leaves the console alone.
LEMMA RomKept ==
  ASSUME UNCHANGED devVars
  PROVE  (RomHoldsImageOnly => RomHoldsImageOnly') /\ (Filled => Filled')
BY DEF devVars, RomHoldsImageOnly, Filled

\* A unit more of what is being written is on its way.
LEMMA HostWritesKeeps ==
  ASSUME WholeImage, NEW p \in Int, At(p), p = Taken, OutInv, HostWrites, UNCHANGED devVars
  PROVE  /\ \E q \in Int : At(q)' /\ q = Taken'
         /\ OutInv' /\ (FillSure => FillSure') /\ AnswerInv'
         /\ Len(fifo') = Len(fifo) + 1 /\ \A k \in 1 .. Len(fifo) : fifo'[k] = fifo[k]
         /\ host_step = 1 => IsTest(fifo'[Len(fifo')])
<1>1. TypeOK /\ OnTheWay(p) /\ LoaderAt(p)
  BY DEF At
<1>2. /\ host_pc = "send" /\ out # <<>> /\ Len(fifo) < FifoCap
      /\ fifo' = Append(fifo, Head(out)) /\ out' = Tail(out)
      /\ reply' = reply /\ host_pc' = host_pc /\ host_step' = host_step /\ sessions' = sessions
  BY DEF HostWrites
<1>3. /\ dev_pc' = dev_pc /\ cmd' = cmd /\ slen' = slen /\ addr' = addr /\ buff' = buff
      /\ usb_act' = usb_act /\ usb_need' = usb_need /\ usb_buf' = usb_buf /\ rom' = rom
  BY DEF devVars, loaderVars, engineVars
<1>4. fifo \in Seq(Units) /\ out \in Seq(Units) /\ host_step \in Nat
  BY <1>1 DEF TypeOK, HostTypeOK
<1>5. /\ Head(out) = out[1] /\ out[1] \in Units
      /\ out' \in Seq(Units) /\ Len(out') = Len(out) - 1
      /\ Len(out) \in Nat /\ Len(out) >= 1
      /\ \A i \in 1 .. Len(out) - 1 : out'[i] = out[i + 1]
  BY <1>2, <1>4, FirstTaken
<1>6. /\ fifo' \in Seq(Units) /\ Len(fifo') = Len(fifo) + 1 /\ fifo' # <<>>
      /\ Len(fifo) \in Nat
      /\ \A i \in 1 .. Len(fifo) : fifo'[i] = fifo[i]
      /\ fifo'[Len(fifo) + 1] = out[1]
  BY <1>2, <1>4, <1>5, LastAdded
<1>7. TypeOK'
  BY <1>1, <1>2, <1>3, <1>5, <1>6, Constants DEF TypeOK, DevTypeOK, HostTypeOK
<1>8. /\ StreamEnd = ImageUnits + 2 + NameUnits /\ StreamEnd \in Nat
      /\ ImageUnits \in Nat /\ NameUnits \in Nat
  BY Constants DEF StreamEnd
<1>9. ASSUME host_step < WStep
      PROVE  /\ \E q \in Int : At(q)' /\ q = Taken'
             /\ OutInv' /\ AnswerInv' /\ (host_step = 1 => IsTest(out[1]))
  <2>1. Sent = 0 /\ Sent' = 0 /\ p = 0 - Len(fifo) /\ Taken' = 0 - Len(fifo) - 1
    BY <1>1, <1>2, <1>6, <1>7, <1>9, SentIs, SentWillBe
  <2>2. /\ Len(out) = 1 /\ EarlyCommand(out[1])
        /\ Program[host_step].answered => IsTest(out[1])
    BY <1>5, <1>9 DEF OutInv
  <2>3. \A k \in 1 .. Len(fifo) : EarlyCommand(fifo[k])
    BY <1>1, <1>6, <2>1, UnitsOf DEF OnTheWay
  <2>4. \A k \in 1 .. Len(fifo') : EarlyCommand(fifo'[k])
    BY <1>6, <2>2, <2>3
  <2> DEFINE q == p - 1
  <2>5. q \in Int /\ q <= 0 /\ p <= 0 /\ q = Taken' /\ q + Len(fifo') = 0
    BY <1>6, <2>1
  <2> HIDE DEF q
  <2>6. \A k \in 1 .. Len(fifo') : IsUnit(fifo'[k], q + k)
    <3> DEFINE n == Len(fifo')
    <3>1. n \in Nat /\ q + n = 0
      BY <1>6, <2>5
    <3> HIDE DEF n
    <3>2. \A k \in 1 .. n : q + k \in Int /\ q + k <= 0
      <4>1. q \in Int
        BY <2>5
      <4> QED
        BY <3>1, <4>1
    <3>3. \A k \in 1 .. n : EarlyCommand(fifo'[k])
      BY <2>4 DEF n
    <3>4. \A k \in 1 .. n : IsUnit(fifo'[k], q + k)
      BY <3>2, <3>3, UnitsOf
    <3> QED
      BY <3>4 DEF n
  <2>7. OnTheWay(q)'
    <3>1. q + Len(fifo') \in 0 .. StreamEnd
      BY <1>8, <2>5
    <3> QED
      BY <2>6, <3>1 DEF OnTheWay, IsUnit
  <2>8. LoaderAt(q)'
    BY <1>1, <1>6, <2>5, LoaderKept
  <2>9. OutInv'
    <3>1. Len(out') = 0 /\ Len(out') <= 1
      BY <1>5, <2>2
    <3>2. host_step' < WStep /\ ~(host_step' >= WStep)
      BY <1>2, <1>4, <1>9, ProgramFacts
    <3> QED
      BY <1>2, <3>1, <3>2 DEF OutInv
  <2>10. AnswerInv'
    BY <1>2, <1>5, <1>6, <2>2 DEF AnswerInv, AwaitsAnswer, TestPending
  <2> QED
    BY <1>7, <2>2, <2>5, <2>7, <2>8, <2>9, <2>10, ProgramFacts DEF At
<1>10. ASSUME ~(host_step < WStep)
       PROVE  /\ \E q \in Int : At(q)' /\ q = Taken'
              /\ OutInv' /\ AnswerInv' /\ host_step # 1
  <2>1. Sent' = Sent + 1 /\ Taken' = p /\ p = Sent - Len(fifo) /\ Sent \in Int
    <3>1. host_step \in {WStep, WStep + 1}
      BY <1>1, <1>10, LateStep
    <3>2. CASE host_step = WStep
      <4>1. Sent = ImageUnits + 1 - Len(out) /\ Taken = Sent - Len(fifo)
        BY <1>1, <3>2, SentIs
      <4>2. Sent' = ImageUnits + 1 - Len(out') /\ Taken' = Sent' - Len(fifo')
        BY <1>2, <1>7, <3>2, SentWillBe
      <4> QED
        BY <1>5, <1>6, <4>1, <4>2, Constants
    <3>3. CASE host_step = WStep + 1
      <4>1. Sent = ImageUnits + 2 + NameUnits - Len(out) /\ Taken = Sent - Len(fifo)
        BY <1>1, <3>3, SentIs
      <4>2. Sent' = ImageUnits + 2 + NameUnits - Len(out') /\ Taken' = Sent' - Len(fifo')
        BY <1>2, <1>7, <3>3, SentWillBe
      <4> QED
        BY <1>5, <1>6, <4>1, <4>2, Constants
    <3> QED
      BY <3>1, <3>2, <3>3
  <2>2. \A k \in 1 .. Len(out) : IsUnit(out[k], Sent + k)
    BY <1>4, <1>10, ProgramFacts DEF OutInv
  <2>3. IsUnit(out[1], Sent + 1)
    BY <1>5, <2>2
  <2>4. ASSUME NEW k \in 1 .. Len(out')
        PROVE  IsUnit(out'[k], Sent' + k)
    <3>1. k \in 1 .. Len(out) - 1 /\ k + 1 \in 1 .. Len(out) /\ Sent' + k = Sent + (k + 1)
      BY <1>5, <2>1
    <3> QED
      BY <1>5, <2>2, <3>1
  <2>5. ASSUME NEW k \in 1 .. Len(fifo')
        PROVE  IsUnit(fifo'[k], p + k)
    <3>1. CASE k \in 1 .. Len(fifo)
      BY <1>1, <1>6, <3>1 DEF OnTheWay
    <3>2. CASE k = Len(fifo) + 1
      BY <1>6, <2>1, <2>3, <3>2
    <3> QED
      BY <1>6, <3>1, <3>2
  <2>6. p + Len(fifo') \in 0 .. StreamEnd
    <3>1. Sent' \in 0 .. StreamEnd
      <4>1. Sent \in 0 .. StreamEnd
        BY <1>1, <1>6, <2>1 DEF OnTheWay
      <4>2. Sent' <= StreamEnd
        <5>1. host_step' = WStep \/ host_step' = WStep + 1
          BY <1>1, <1>2, <1>10, LateStep
        <5>2. /\ Len(out') \in Nat
              /\ host_step' = WStep => Sent' = ImageUnits + 1 - Len(out')
              /\ host_step' = WStep + 1 => Sent' = ImageUnits + 2 + NameUnits - Len(out')
          BY <1>7, SentWillBe
        <5> QED
          BY <1>8, <5>1, <5>2
      <4> QED
        BY <1>8, <2>1, <4>1, <4>2
    <3>2. p + Len(fifo') = Sent'
      BY <1>6, <2>1
    <3> QED
      BY <3>1, <3>2
  <2>7. OnTheWay(p)'
    BY <2>5, <2>6 DEF OnTheWay, IsUnit
  <2>8. LoaderAt(p)'
    BY <1>1, <1>6, LoaderKept
  <2>9. OutInv'
    <3>1. (\A k \in 1 .. Len(out) : IsUnit(out[k], Sent + k))'
      BY <2>4 DEF IsUnit
    <3>2. ~(host_step' < WStep) /\ (host_pc' # "send" => out' = <<>>)
      BY <1>2, <1>10
    <3>3. WStep' = WStep
      BY DEF WStep, Program
    <3> QED
      BY <3>1, <3>2, <3>3 DEF OutInv
  <2>10. AnswerInv' /\ host_step # 1
    <3>1. host_step \in {WStep, WStep + 1}
      BY <1>1, <1>10, LateStep
    <3>2. Program[host_step].answered = FALSE /\ host_step # 1
      BY <3>1, ProgramFacts
    <3> QED
      BY <1>2, <3>2 DEF AnswerInv, AwaitsAnswer
  <2> QED
    BY <1>7, <2>1, <2>7, <2>8, <2>9, <2>10 DEF At
<1>11. FillSure => FillSure'
  <2>1. CASE FillPending
    <3>1. CASE \E k \in 1 .. Len(fifo) : IsFill(fifo[k])
      BY <1>6, <3>1 DEF FillSure, FillPending, IsFill
    <3>2. CASE \E k \in 1 .. Len(out) : IsFill(out[k])
      <4>1. PICK k \in 1 .. Len(out) : IsFill(out[k])
        BY <3>2
      <4>2. CASE k = 1
        BY <1>6, <4>1, <4>2 DEF FillSure, FillPending, IsFill
      <4>3. CASE k # 1
        <5>1. k - 1 \in 1 .. Len(out') /\ out'[k - 1] = out[k]
          BY <1>5, <4>3
        <5> QED
          BY <4>1, <5>1 DEF FillSure, FillPending, IsFill
      <4> QED
        BY <4>2, <4>3
    <3>3. CASE dev_pc = "cmdwait" /\ ~usb_act /\ IsFill(usb_buf[1])
      BY <1>3, <3>3 DEF FillSure, FillPending, IsFill
    <3>4. CASE dev_pc = "dispatch" /\ IsFill(cmd)
      BY <1>3, <3>4 DEF FillSure, FillPending, IsFill
    <3> QED
      BY <2>1, <3>1, <3>2, <3>3, <3>4 DEF FillPending
  <2> QED
    BY <2>1, RomKept DEF FillSure
<1>12. host_step = 1 => IsTest(fifo'[Len(fifo')])
  <2>1. fifo'[Len(fifo')] = out[1]
    BY <1>6
  <2> QED
    BY <1>9, <1>10, <2>1
<1> QED
  BY <1>6, <1>9, <1>10, <1>11, <1>12

\* The next step of Program is begun, or Program is through: all that comes
\* before the step is written.
LEMMA StepStarted ==
  ASSUME WholeImage, NEW p \in Int, At(p), out = <<>>, UNCHANGED devVars, fifo' = fifo,
         reply' \in Seq({"r"}), sessions' \in 0 .. MaxSessions,
         NEW n \in Nat, n >= 1, StartStep(n),
         n <= WStep => p + Len(fifo) = 0,
         n = WStep + 1 => p + Len(fifo) = ImageUnits + 1,
         n > WStep + 1 => host_step = WStep + 1 /\ p + Len(fifo) = StreamEnd
  PROVE  /\ At(p)' /\ p = Taken' /\ OutInv' /\ AnswerInv'
         /\ FillSure \/ n <= 2 => (host_step' >= 2 => FillSure')
         /\ Running' /\ (n <= WStep + 1 => host_step' = n)
<1>1. TypeOK /\ OnTheWay(p) /\ LoaderAt(p)
  BY DEF At
<1>2. /\ dev_pc' = dev_pc /\ cmd' = cmd /\ slen' = slen /\ addr' = addr /\ buff' = buff
      /\ usb_act' = usb_act /\ usb_need' = usb_need /\ usb_buf' = usb_buf /\ rom' = rom
  BY DEF devVars, loaderVars, engineVars
<1>3. /\ host_step \in 0 .. WStep + 1 /\ Len(fifo) \in Nat /\ Len(out) = 0
      /\ WStep \in Nat /\ WStep >= 2 /\ Len(Program) = WStep + 1
  BY <1>1, SentIs, ProgramFacts
<1>4. OnTheWay(p)' /\ LoaderAt(p)'
  BY <1>1, LinkKept, LoaderKept
<1>5. StreamEnd = ImageUnits + 2 + NameUnits /\ ImageUnits \in Nat /\ NameUnits \in Nat
  BY Constants DEF StreamEnd
<1>6. CASE n > Len(Program)
  <2>1. host_pc' = "done" /\ host_step' = host_step /\ out' = out
    BY <1>6 DEF StartStep
  <2>2. host_step = WStep + 1 /\ p + Len(fifo) = StreamEnd /\ ~(n <= WStep + 1) /\ ~(n <= 2)
    BY <1>3, <1>6
  <2>3. TypeOK'
    BY <1>1, <1>2, <2>1 DEF TypeOK, DevTypeOK, HostTypeOK
  <2>4. p = Taken'
    <3>1. Sent' = StreamEnd /\ Taken' = Sent' - Len(fifo)
      BY <1>3, <1>5, <2>1, <2>2, <2>3, SentWillBe
    <3> QED
      BY <1>3, <1>5, <2>2, <3>1
  <2>5. OutInv'
    BY <1>3, <2>1 DEF OutInv
  <2>6. (FillSure => FillSure') /\ AnswerInv'
    BY <1>2, <2>1, RomKept DEF FillSure, FillPending, IsFill, AnswerInv, AwaitsAnswer
  <2> QED
    BY <1>4, <2>1, <2>2, <2>3, <2>4, <2>5, <2>6 DEF At, Running
<1>7. CASE ~(n > Len(Program))
  <2> DEFINE send == Program[n].send
  <2>1. host_pc' = "send" /\ host_step' = n /\ out' = send
    BY <1>7 DEF StartStep
  <2>2. n \in 1 .. WStep + 1
    BY <1>3, <1>7
  <2>3. send \in Seq(Units) /\ Len(send) >= 1 /\ Len(send) \in Nat
    BY <2>2, ProgramFacts, LenProperties
  <2>4. TypeOK'
    BY <1>1, <1>2, <1>3, <2>1, <2>2, <2>3 DEF TypeOK, DevTypeOK, HostTypeOK
  <2>5. out' # <<>> /\ Len(out') = Len(send)
    BY <2>1, <2>3
  <2> HIDE DEF send
  <2>6. /\ p = Taken' /\ Sent' = p + Len(fifo)
        /\ n = WStep => out' = RomWrite.send /\ Sent' = 0 /\ Len(out') = ImageUnits + 1
        /\ n = WStep + 1 =>
             out' = StartRom.send /\ Sent' = ImageUnits + 1 /\ Len(out') = NameUnits + 1
    <3>1. CASE n < WStep
      <4>1. Sent' = 0 /\ Taken' = Sent' - Len(fifo) /\ p + Len(fifo) = 0
        BY <1>3, <2>1, <2>2, <2>4, <3>1, SentWillBe
      <4> QED
        BY <1>3, <2>2, <3>1, <4>1
    <3>2. CASE n = WStep
      <4>1. out' = RomWrite.send /\ Len(out') = ImageUnits + 1 /\ p + Len(fifo) = 0
        BY <1>3, <2>1, <3>2, ProgramFacts, SendsOf DEF send
      <4>2. Sent' = ImageUnits + 1 - Len(out') /\ Taken' = Sent' - Len(fifo)
        BY <2>1, <2>4, <3>2, SentWillBe
      <4> QED
        BY <1>3, <1>5, <3>2, <4>1, <4>2
    <3>3. CASE n = WStep + 1
      <4>1. out' = StartRom.send /\ Len(out') = NameUnits + 1 /\ p + Len(fifo) = ImageUnits + 1
        BY <2>1, <3>3, ProgramFacts, SendsOf DEF send
      <4>2. Sent' = ImageUnits + 2 + NameUnits - Len(out') /\ Taken' = Sent' - Len(fifo)
        BY <2>1, <2>4, <3>3, SentWillBe
      <4> QED
        BY <1>3, <1>5, <3>3, <4>1, <4>2
    <3> QED
      BY <1>3, <2>2, <3>1, <3>2, <3>3
  <2>7. OutInv'
    <3>1. ASSUME n < WStep, NEW k \in 1 .. Len(out')
          PROVE  /\ Len(out') = 1 /\ EarlyCommand(out'[k])
                 /\ Program[n].answered => IsTest(out'[k])
      <4>1. n \in 1 .. WStep - 1
        BY <1>3, <2>2, <3>1
      <4>2. Len(out') = 1
        BY <2>1, <4>1, ProgramFacts DEF send
      <4>3. k = 1
        BY <4>2, <3>1
      <4> QED
        BY <2>1, <4>1, <4>2, <4>3, ProgramFacts DEF send
    <3>2. ASSUME n >= WStep
          PROVE  \A k \in 1 .. Len(out') : IsUnit(out'[k], Sent' + k)
      <4>1. CASE n = WStep
        <5>1. \A k \in 1 .. ImageUnits + 1 : Sent' + k = k
          BY <1>5, <2>6, <4>1
        <5> QED
          BY <2>6, <4>1, <5>1, UnitsOf
      <4>2. CASE n = WStep + 1
        BY <2>6, <4>2, UnitsOf
      <4> QED
        BY <1>3, <2>2, <3>2, <4>1, <4>2
    <3>3. (\A k \in 1 .. Len(out) : IsUnit(out[k], Sent + k))' <=>
          (\A k \in 1 .. Len(out') : IsUnit(out'[k], Sent' + k))
      BY DEF IsUnit
    <3>4. n < WStep => Len(out') = 1
      BY <2>3, <2>5, <3>1
    <3> QED
      BY <2>1, <3>1, <3>2, <3>3, <3>4 DEF OutInv
  <2>8. FillSure \/ n <= 2 => (host_step' >= 2 => FillSure')
    <3>1. FillSure => FillSure'
      <4>1. FillPending => FillPending'
        BY <1>2, <1>3 DEF FillPending, IsFill
      <4> QED
        BY <4>1, RomKept DEF FillSure
    <3>2. CASE n = 2 /\ ImageUnits < CrcArea
      <4>1. IsFill(out'[1])
        BY <2>1, <3>2, ProgramFacts, KindsOfUnits DEF IsFill, send
      <4>2. 1 \in 1 .. Len(out')
        BY <2>3, <2>5
      <4> QED
        BY <4>1, <4>2 DEF FillSure, FillPending, IsFill
    <3>3. CASE n = 2 /\ ~(ImageUnits < CrcArea)
      BY <3>3, Constants DEF FillSure, Filled
    <3> QED
      BY <2>1, <2>2, <3>1, <3>2, <3>3
  <2>9. AnswerInv' /\ Running'
    BY <2>1, <2>5 DEF AnswerInv, AwaitsAnswer, Running
  <2> QED
    BY <1>4, <2>1, <2>4, <2>6, <2>7, <2>8, <2>9 DEF At
<1> QED
  BY <1>6, <1>7

\* The step after the present one is begun.
LEMMA NextStepStarted ==
  ASSUME WholeImage, NEW p \in Int, At(p), p = Taken, out = <<>>, UNCHANGED devVars,
         fifo' = fifo, reply' \in Seq({"r"}), sessions' = sessions,
         StartStep(host_step + 1)
  PROVE  /\ At(p)' /\ p = Taken' /\ OutInv' /\ AnswerInv'
         /\ FillInv => FillInv'
         /\ Running' /\ (host_step = 0 => host_step' = 1)
<1>1. TypeOK
  BY DEF At
<1> DEFINE n == host_step + 1
<1>2. /\ n \in Nat /\ n >= 1 /\ WStep \in Nat /\ WStep >= 2 /\ sessions' \in 0 .. MaxSessions
      /\ ImageUnits \in Nat /\ NameUnits \in Nat /\ Len(fifo) \in Nat
  BY <1>1, ProgramFacts, Constants, SentIs DEF TypeOK, HostTypeOK
<1>3. /\ n <= WStep => p + Len(fifo) = 0
      /\ n = WStep + 1 => p + Len(fifo) = ImageUnits + 1
      /\ n > WStep + 1 => host_step = WStep + 1 /\ p + Len(fifo) = StreamEnd
  <2>1. /\ host_step \in 0 .. WStep + 1 /\ Len(out) = 0 /\ p = Sent - Len(fifo) /\ Sent \in Int
        /\ host_step < WStep => Sent = 0
        /\ host_step = WStep => Sent = ImageUnits + 1 - Len(out)
        /\ host_step = WStep + 1 => Sent = ImageUnits + 2 + NameUnits - Len(out)
    BY <1>1, SentIs
  <2> QED
    BY <1>2, <2>1 DEF StreamEnd
<1>4. StartStep(n)
  OBVIOUS
<1> HIDE DEF n
<1>5. /\ At(p)' /\ p = Taken' /\ OutInv' /\ AnswerInv'
      /\ FillSure \/ n <= 2 => (host_step' >= 2 => FillSure')
      /\ Running' /\ (n <= WStep + 1 => host_step' = n)
  BY <1>2, <1>3, <1>4, StepStarted
<1>6. n <= 2 \/ host_step >= 2
  BY <1>1, <1>2 DEF n, TypeOK, HostTypeOK
<1>7. host_step = 0 => host_step' = 1
  <2>1. host_step = 0 => n = 1 /\ n <= WStep + 1
    BY <1>2 DEF n
  <2> QED
    BY <1>5, <2>1
<1> QED
  BY <1>5, <1>6, <1>7 DEF FillInv, FillSure

\* The host does what Program says: the console stays in step, and nothing but
\* a test is sent before the first answer.
LEMMA HostStepKeeps ==
  ASSUME WholeImage, NEW p \in Int, At(p), p = Taken, OutInv, HostStep, UNCHANGED devVars
  PROVE  /\ \E q \in Int : At(q)' /\ q = Taken'
         /\ OutInv' /\ Running' /\ (FillInv => FillInv') /\ (AnswerInv => AnswerInv')
         /\ RomHoldsImageOnly => RomHoldsImageOnly'
         /\ host_step <= 1 /\ reply = <<>> =>
              /\ host_step' <= 1 /\ reply' = <<>>
              /\ host_step = 1 /\ (\A k \in 1 .. Len(fifo) : IsTest(fifo[k])) =>
                   \A k \in 1 .. Len(fifo') : IsTest(fifo'[k])
<1>1. /\ TypeOK /\ host_step \in Nat /\ fifo \in Seq(Units) /\ reply \in Seq({"r"})
      /\ Len(fifo) \in Nat
  BY LenProperties DEF At, TypeOK, HostTypeOK
<1>2. RomHoldsImageOnly => RomHoldsImageOnly'
  BY RomKept
<1>3. CASE HostWrites
  <2>1. /\ \E q \in Int : At(q)' /\ q = Taken'
        /\ OutInv' /\ (FillSure => FillSure') /\ AnswerInv'
        /\ Len(fifo') = Len(fifo) + 1 /\ \A k \in 1 .. Len(fifo) : fifo'[k] = fifo[k]
        /\ host_step = 1 => IsTest(fifo'[Len(fifo')])
    BY <1>3, HostWritesKeeps
  <2>2. /\ host_pc = "send" /\ host_pc' = host_pc /\ host_step' = host_step /\ reply' = reply
    BY <1>3 DEF HostWrites
  <2>3. Running' /\ (FillInv => FillInv')
    BY <2>1, <2>2 DEF Running, FillInv, FillSure
  <2>4. host_step = 1 /\ (\A k \in 1 .. Len(fifo) : IsTest(fifo[k])) =>
          \A k \in 1 .. Len(fifo') : IsTest(fifo'[k])
    <3>1. \A k \in 1 .. Len(fifo') : k \in 1 .. Len(fifo) \/ k = Len(fifo')
      BY <1>1, <2>1
    <3> QED
      BY <2>1, <3>1
  <2> QED
    BY <1>2, <2>1, <2>2, <2>3, <2>4
<1>4. CASE HostWritten
  <2>1. /\ host_pc = "send" /\ out = <<>> /\ fifo' = fifo /\ reply' = reply
        /\ sessions' = sessions
    BY <1>4 DEF HostWritten, linkVars
  <2>2. CASE Program[host_step].answered
    <3>1. host_pc' = "recv" /\ host_step' = host_step /\ out' = out
      BY <1>4, <2>2 DEF HostWritten
    <3>2. TypeOK'
      BY <1>1, <2>1, <3>1 DEF TypeOK, DevTypeOK, HostTypeOK, devVars, loaderVars, engineVars
    <3>3. p = Taken' /\ Sent' = Sent
      BY <2>1, <3>1 DEF Sent, Taken
    <3>4. OnTheWay(p)' /\ LoaderAt(p)'
      BY <2>1, LinkKept, LoaderKept DEF At
    <3>5. OutInv' /\ Running'
      BY <2>1, <3>1, <3>3 DEF OutInv, Running, IsUnit
    <3>6. FillInv => FillInv'
      BY <2>1, <3>1, RomKept DEF FillInv, FillPending, IsFill, devVars, loaderVars, engineVars
    <3>7. AnswerInv => AnswerInv'
      BY <2>1, <2>2, <3>1 DEF AnswerInv, AwaitsAnswer, TestPending, IsTest, devVars,
         loaderVars, engineVars
    <3> QED
      BY <1>2, <2>1, <3>1, <3>2, <3>3, <3>4, <3>5, <3>6, <3>7 DEF At
  <2>3. CASE ~Program[host_step].answered
    <3>1. StartStep(host_step + 1) /\ host_step # 1
      BY <1>4, <2>3, ProgramFacts DEF HostWritten
    <3>2. /\ At(p)' /\ p = Taken' /\ OutInv' /\ AnswerInv' /\ (FillInv => FillInv')
          /\ Running' /\ (host_step = 0 => host_step' = 1)
      BY <1>1, <2>1, <3>1, NextStepStarted
    <3>3. host_step <= 1 => host_step = 0 /\ host_step' <= 1
      BY <1>1, <3>1, <3>2
    <3> QED
      BY <1>2, <2>1, <3>1, <3>2, <3>3
  <2> QED
    BY <2>2, <2>3
<1>5. CASE HostReceives
  <2>1. /\ host_pc = "recv" /\ reply # <<>> /\ reply' = Tail(reply)
        /\ StartStep(host_step + 1) /\ fifo' = fifo /\ sessions' = sessions
    BY <1>5 DEF HostReceives
  <2>2. out = <<>> /\ reply' \in Seq({"r"})
    BY <1>1, <2>1, FirstTaken DEF OutInv
  <2>3. /\ At(p)' /\ p = Taken' /\ OutInv' /\ AnswerInv' /\ (FillInv => FillInv') /\ Running'
    BY <2>1, <2>2, NextStepStarted
  <2> QED
    BY <1>2, <2>1, <2>3
<1> QED
  BY <1>3, <1>4, <1>5 DEF HostStep


-----------------------------------------------------------------------------
(***************************************************************************)
(* The invariant of a load that nobody disturbs.                           *)
(***************************************************************************)

\* Nobody stops the program or pauses in it, and the player stays.
Undisturbed ==
  HostStalls = FALSE /\ HostAborts = FALSE /\ PlayerLeaves = "never" /\ WholeImage

\* Where the console stands, by name and by what the host has sent.
LEMMA AtTaken ==
  ASSUME NEW p \in Int, p = Taken
  PROVE  At(p) <=> TypeOK /\ OnTheWay(Taken) /\ LoaderAt(Taken)
BY DEF At

\* The same after a step.
LEMMA WillBeAtTaken ==
  ASSUME NEW q \in Int, q = Taken', At(q)'
  PROVE  TypeOK' /\ OnTheWay(Taken)' /\ LoaderAt(Taken)'
BY DEF At, OnTheWay, LoaderAt, BetweenCommands, AtCommand, Receiving, InBuff, IsUnit, Loaded

\* The game, once started, is not disturbed by what is still written.
LEMMA GameStays ==
  ASSUME WholeImage, TypeOK, dev_pc = "game", ~usb_act, [Next]_vars
  PROVE  TypeOK' /\ UNCHANGED devVars
<1>1. ~DeviceTimeout /\ ~PlayerStep /\ ~DeviceStep
  <2>1. ~PlayerStep /\ ~DeviceTimeout
    BY DEF PlayerStep, EnterLoader, LeaveLoader, DeviceTimeout, BusyTimeout
  <2>2. ~DeviceStep
    BY DEF DeviceStep, LoaderStep, EngineReceives, AnswerTest, Poll, ReadCommand,
       CommandRead, IgnoreCommand, StartGame, CmemFill, RomWriteStart, BlockRead, ReadNext,
       CopyBlock, RomWriteAborts
  <2> QED
    BY <2>1, <2>2
<1>2. UNCHANGED devVars
  BY <1>1 DEF Next, HostProgress, HostTimeout, HostAbort, vars
<1>3. \/ HostStep \/ Connect(DevicePending) \/ HostTimesOut(DevicePending)
      \/ HostStopped \/ UNCHANGED vars
  BY <1>1 DEF Next, HostProgress, HostTimeout, HostAbort
<1>4. /\ fifo \in Seq(Units) /\ Len(fifo) <= FifoCap /\ reply \in Seq({"r"})
      /\ host_pc \in {"off", "send", "recv", "done", "failed"}
      /\ host_step \in 0 .. Len(Program) /\ out \in Seq(Units)
      /\ sessions \in 0 .. MaxSessions
  BY DEF TypeOK, HostTypeOK
<1>5. ASSUME NEW n \in Nat, n >= 1, StartStep(n)
      PROVE  /\ host_pc' \in {"send", "done"} /\ host_step' \in 0 .. Len(Program)
             /\ out' \in Seq(Units)
  <2>1. CASE n > Len(Program)
    BY <1>4, <1>5, <2>1 DEF StartStep
  <2>2. CASE ~(n > Len(Program))
    <3>1. n \in 1 .. WStep + 1 /\ n \in 0 .. Len(Program)
      BY <1>5, <2>2, ProgramFacts
    <3>2. Program[n].send \in Seq(Units)
      BY <3>1, ProgramFacts
    <3> QED
      BY <1>5, <2>2, <3>1, <3>2 DEF StartStep
  <2> QED
    BY <2>1, <2>2
<1>6. host_step + 1 \in Nat /\ host_step + 1 >= 1
  BY <1>4
<1>7. /\ fifo' \in Seq(Units) /\ Len(fifo') <= FifoCap /\ reply' \in Seq({"r"})
      /\ HostTypeOK'
  <2>1. CASE HostWrites
    <3>1. /\ out # <<>> /\ Len(fifo) < FifoCap
          /\ fifo' = Append(fifo, Head(out)) /\ out' = Tail(out)
          /\ reply' = reply /\ host_pc' = host_pc /\ host_step' = host_step
          /\ sessions' = sessions
      BY <2>1 DEF HostWrites
    <3>2. Head(out) \in Units /\ out' \in Seq(Units)
      BY <1>4, <3>1, FirstTaken
    <3>3. fifo' \in Seq(Units) /\ Len(fifo') = Len(fifo) + 1 /\ Len(fifo) \in Nat
      BY <1>4, <3>1, <3>2, LastAdded
    <3>4. Len(fifo') <= FifoCap
      BY <3>1, <3>3, Constants
    <3> QED
      BY <1>4, <3>1, <3>2, <3>3, <3>4 DEF HostTypeOK
  <2>2. CASE HostWritten
    <3>1. fifo' = fifo /\ reply' = reply /\ sessions' = sessions
      BY <2>2 DEF HostWritten, linkVars
    <3>2. CASE host_pc' = "recv" /\ UNCHANGED <<host_step, out>>
      BY <1>4, <3>1, <3>2 DEF HostTypeOK
    <3>3. CASE StartStep(host_step + 1)
      BY <1>4, <1>5, <1>6, <3>1, <3>3 DEF HostTypeOK
    <3> QED
      BY <2>2, <3>2, <3>3 DEF HostWritten
  <2>3. CASE HostReceives
    <3>1. /\ reply # <<>> /\ reply' = Tail(reply) /\ StartStep(host_step + 1)
          /\ fifo' = fifo /\ sessions' = sessions
      BY <2>3 DEF HostReceives
    <3>2. reply' \in Seq({"r"})
      BY <1>4, <3>1, FirstTaken
    <3> QED
      BY <1>4, <1>5, <1>6, <3>1, <3>2 DEF HostTypeOK
  <2>4. CASE Connect(DevicePending)
    <3>1. /\ sessions < MaxSessions /\ sessions' = sessions + 1 /\ StartStep(1)
          /\ reply' = (IF StaleAnswers THEN reply ELSE <<>>) /\ fifo' = fifo
      BY <2>4 DEF Connect
    <3>2. sessions' \in 0 .. MaxSessions
      BY <1>4, <3>1, Constants
    <3>3. reply' \in Seq({"r"})
      BY <1>4, <3>1
    <3> QED
      BY <1>4, <1>5, <3>1, <3>2, <3>3 DEF HostTypeOK
  <2>5. CASE HostTimesOut(DevicePending) \/ HostStopped
    <3>1. /\ fifo' = fifo /\ reply' = reply /\ host_step' = host_step /\ sessions' = sessions
          /\ host_pc' = "failed" /\ out' = <<>>
      BY <2>5 DEF HostTimesOut, HostStopped, linkVars
    <3> QED
      BY <1>4, <3>1 DEF HostTypeOK
  <2>6. CASE UNCHANGED vars
    BY <1>4, <2>6 DEF vars, linkVars, hostVars, HostTypeOK
  <2> QED
    BY <1>3, <2>1, <2>2, <2>3, <2>4, <2>5, <2>6 DEF HostStep
<1>8. TypeOK'
  BY <1>2, <1>7 DEF TypeOK, DevTypeOK, devVars, loaderVars, engineVars
<1> QED
  BY <1>2, <1>8

\* Nothing was sent yet.
LEMMA Beginning ==
  ASSUME WholeImage, Init
  PROVE  /\ TypeOK /\ RomHoldsImageOnly /\ OnTheWay(0) /\ OutInv /\ LoaderAt(0)
         /\ Sent = 0 /\ Taken = 0
         /\ dev_pc = "menu" /\ fifo = <<>> /\ reply = <<>> /\ out = <<>> /\ host_step = 0
         /\ host_pc = "off"
<1>1. /\ fifo = <<>> /\ reply = <<>> /\ dev_pc = "menu" /\ cmd = Other("name")
      /\ slen = 0 /\ addr = 0 /\ buff = <<>>
      /\ usb_act = FALSE /\ usb_need = 0 /\ usb_buf = <<>>
      /\ rom = [a \in RomAddrs |-> Other("old")]
      /\ host_pc = "off" /\ host_step = 0 /\ out = <<>> /\ sessions = 0
  BY DEF Init, DevInit, HostInit
<1>2. WStep \in Nat /\ WStep >= 2 /\ Len(Program) = WStep + 1
  BY ProgramFacts
<1>3. TypeOK
  <2>1. /\ <<>> \in Seq(Units) /\ <<>> \in Seq({"r"}) /\ Len(<<>>) <= FifoCap
        /\ Len(<<>>) <= Block /\ 0 \in 0 .. RomUnits /\ 0 \in 0 .. Block
        /\ 0 \in 0 .. MaxSessions /\ 0 \in 0 .. WStep + 1
    BY <1>2, Constants
  <2>2. rom \in [RomAddrs -> Units] /\ cmd \in Units
    BY <1>1, KindsOfUnits
  <2> QED
    BY <1>1, <1>2, <2>1, <2>2 DEF TypeOK, DevTypeOK, HostTypeOK, DevPlaces
<1>4. RomHoldsImageOnly
  <2>1. Other("old").kind = "old"
    BY KindsOfUnits
  <2> QED
    BY <1>1, <2>1 DEF RomHoldsImageOnly
<1>5. Sent = 0 /\ Taken = 0
  BY <1>1, <1>2, <1>3, SentIs
<1>6. OnTheWay(0)
  <2>1. StreamEnd \in Nat
    BY Constants DEF StreamEnd
  <2> QED
    BY <1>1, <2>1 DEF OnTheWay
<1>7. OutInv
  BY <1>1, <1>2 DEF OutInv
<1>8. LoaderAt(0)
  BY <1>1, Constants DEF LoaderAt, BetweenCommands
<1> QED
  BY <1>1, <1>3, <1>4, <1>5, <1>6, <1>7, <1>8

\* The console does something.
LEMMA LoadAfterDevice ==
  ASSUME Undisturbed, LoadInv, dev_pc # "game", DeviceStep
  PROVE  LoadInv'
<1>1. TypeOK /\ RomHoldsImageOnly /\ LinkInv /\ LoaderAt(Taken) /\ FillInv /\ AnswerInv
      /\ WholeImage
  BY DEF LoadInv, Undisturbed
<1>2. PICK p \in Int : p = Taken
  BY <1>1, SentIs
<1>3. At(p)
  BY <1>1, <1>2, AtTaken DEF LinkInv
<1>4. p + Len(fifo) = Sent /\ Sent \in Int /\ host_step \in Nat /\ Len(fifo) \in Nat
  BY <1>1, <1>2, SentIs DEF TypeOK, HostTypeOK
<1>5. UNCHANGED hostVars
  BY DEF DeviceStep
<1>6. /\ host_pc' = host_pc /\ host_step' = host_step /\ out' = out /\ Sent' = Sent
  BY <1>5 DEF hostVars, Sent
<1>7. CASE StartGame
  <2>1. dev_pc = "dispatch" /\ p = ImageUnits + 2
    <3>1. dev_pc = "dispatch" /\ cmd.op = "s"
      BY <1>7 DEF StartGame
    <3> QED
      BY <1>1, <1>3, <3>1, AtDispatch, KindsOfUnits
  <2>2. host_step = WStep + 1 /\ Sent = StreamEnd - Len(out) /\ Len(out) \in Nat
    <3>1. /\ host_step \in 0 .. WStep + 1 /\ Len(out) \in Nat /\ ImageUnits \in Nat
          /\ host_step < WStep => Sent = 0
          /\ host_step = WStep => Sent = ImageUnits + 1 - Len(out)
          /\ host_step = WStep + 1 => Sent = ImageUnits + 2 + NameUnits - Len(out)
      BY <1>1, Constants, SentIs
    <3>2. Sent >= ImageUnits + 2
      BY <1>4, <2>1, <3>1
    <3>3. WStep \in Nat /\ ~(host_step < WStep) /\ host_step # WStep
      BY <1>1, <1>4, <3>1, <3>2, ProgramFacts
    <3>4. host_step = WStep + 1
      BY <3>1, <3>3
    <3>5. Sent = ImageUnits + 2 + NameUnits - Len(out) /\ Len(out) \in Nat
      BY <3>1, <3>4
    <3>6. Sent = StreamEnd - Len(out)
      BY <3>5, Constants DEF StreamEnd
    <3> QED
      BY <3>4, <3>5, <3>6
  <2>3. \A k \in 1 .. Len(out) : IsUnit(out[k], p + Len(fifo) + k)
    BY <1>1, <1>4, <2>2, ProgramFacts DEF LinkInv, OutInv
  <2>4. p + Len(fifo) + Len(out) <= StreamEnd
    BY <1>4, <2>2, Constants DEF StreamEnd
  <2>5. FillSure
    BY <1>1, <2>2, ProgramFacts DEF FillInv, FillSure
  <2> QED
    BY <1>1, <1>3, <1>5, <1>7, <2>3, <2>4, <2>5, StartGameEnds DEF LoadInv
<1>8. CASE ~StartGame
  <2>1. /\ \E q \in Int : At(q)' /\ q + Len(fifo') = p + Len(fifo)
        /\ Keeps /\ dev_pc' \notin {"menu", "game"}
    BY <1>1, <1>3, <1>8, DeviceStepKeeps
  <2>2. PICK q \in Int : At(q)' /\ q + Len(fifo') = p + Len(fifo)
    BY <2>1
  <2>3. TypeOK'
    BY <2>2 DEF At
  <2>4. q = Taken'
    <3>1. Taken' = Sent' - Len(fifo') /\ Len(fifo') \in Nat
      BY <1>1, <2>3, SentWillBe
    <3> QED
      BY <1>4, <1>6, <2>2, <3>1
  <2>5. OnTheWay(Taken)' /\ LoaderAt(Taken)'
    BY <2>2, <2>4, WillBeAtTaken
  <2>6. LinkInv'
    BY <1>1, <1>6, <2>1, <2>5 DEF LinkInv, OutInv, IsUnit
  <2>7. FillInv'
    BY <1>1, <1>6, <2>1 DEF FillInv, FillSure, Keeps
  <2>8. AnswerInv'
    BY <1>1, <1>6, <2>1 DEF AnswerInv, AnswerSure, AwaitsAnswer, Listening, Keeps
  <2> QED
    BY <1>1, <2>1, <2>3, <2>5, <2>6, <2>7, <2>8 DEF LoadInv, Keeps
<1> QED
  BY <1>7, <1>8

\* The player starts the loader.
LEMMA LoadAfterEntering ==
  ASSUME Undisturbed, LoadInv, PlayerStep
  PROVE  LoadInv'
<1>1. EnterLoader /\ UNCHANGED hostVars
  BY DEF PlayerStep, MayLeave, Undisturbed
<1>2. /\ dev_pc = "menu" /\ dev_pc' = "poll" /\ fifo' = fifo
      /\ host_pc' = host_pc /\ host_step' = host_step /\ out' = out /\ Sent' = Sent
  BY <1>1 DEF EnterLoader, linkVars, hostVars, Sent
<1>3. /\ TypeOK /\ RomHoldsImageOnly /\ LinkInv /\ LoaderAt(Taken) /\ FillInv /\ AnswerInv
      /\ WholeImage
  BY <1>2 DEF LoadInv, Undisturbed
<1>4. PICK p \in Int : p = Taken
  BY <1>3, SentIs
<1>5. At(p) /\ p <= 0
  <2>1. /\ host_step \in 0 .. WStep + 1 /\ Taken = Sent - Len(fifo) /\ Len(fifo) \in Nat
        /\ host_step < WStep => Sent = 0
    BY <1>3, SentIs
  <2>2. host_step <= 1
    BY <1>2, <1>3 DEF LinkInv
  <2>3. Sent = 0
    BY <2>1, <2>2, <1>3, ProgramFacts
  <2> QED
    BY <1>3, <1>4, <2>1, <2>3, AtTaken DEF LinkInv
<1>6. At(p)' /\ Keeps
  BY <1>1, <1>5, EnterLoaderKeeps
<1>7. p = Taken'
  BY <1>2, <1>4 DEF Taken
<1>8. TypeOK' /\ OnTheWay(Taken)' /\ LoaderAt(Taken)'
  BY <1>6, <1>7, WillBeAtTaken
<1>9. LinkInv'
  BY <1>2, <1>3, <1>8 DEF LinkInv, OutInv, IsUnit
<1>10. FillInv'
  BY <1>2, <1>3, <1>6 DEF FillInv, FillSure, Keeps
<1>11. AnswerInv'
  BY <1>2, <1>3, <1>6 DEF AnswerInv, AnswerSure, AwaitsAnswer, Listening, Keeps
<1> QED
  BY <1>2, <1>3, <1>6, <1>8, <1>9, <1>10, <1>11 DEF LoadInv, Keeps

\* The host does something.
LEMMA LoadAfterHost ==
  ASSUME Undisturbed, LoadInv, dev_pc # "game", HostStep, UNCHANGED devVars
  PROVE  LoadInv'
<1>1. /\ TypeOK /\ RomHoldsImageOnly /\ LinkInv /\ LoaderAt(Taken) /\ FillInv /\ AnswerInv
      /\ WholeImage
  BY DEF LoadInv, Undisturbed
<1>2. PICK p \in Int : p = Taken
  BY <1>1, SentIs
<1>3. At(p) /\ OutInv
  BY <1>1, <1>2, AtTaken DEF LinkInv
<1>4. /\ \E q \in Int : At(q)' /\ q = Taken'
      /\ OutInv' /\ Running' /\ FillInv' /\ AnswerInv' /\ RomHoldsImageOnly'
      /\ host_step <= 1 /\ reply = <<>> => host_step' <= 1 /\ reply' = <<>>
  BY <1>1, <1>2, <1>3, HostStepKeeps
<1>5. TypeOK' /\ OnTheWay(Taken)' /\ LoaderAt(Taken)'
  BY <1>4, WillBeAtTaken
<1>6. dev_pc' = dev_pc
  BY DEF devVars
<1>7. LinkInv'
  BY <1>1, <1>4, <1>5, <1>6 DEF LinkInv, Running
<1> QED
  BY <1>4, <1>5, <1>6, <1>7 DEF LoadInv

\* The user runs the program.
LEMMA LoadAfterConnect ==
  ASSUME Undisturbed, LoadInv, dev_pc # "game", NEW pending, Connect(pending),
         UNCHANGED devVars
  PROVE  LoadInv'
<1>1. /\ TypeOK /\ RomHoldsImageOnly /\ LinkInv /\ LoaderAt(Taken) /\ WholeImage
  BY DEF LoadInv, Undisturbed
<1>2. /\ host_pc \in {"off", "failed"} /\ sessions < MaxSessions
      /\ StartStep(1) /\ fifo' = fifo /\ sessions' = sessions + 1
      /\ reply' = IF StaleAnswers THEN reply ELSE <<>>
  BY DEF Connect
<1>3. out = <<>> /\ host_step <= 1 /\ (dev_pc = "menu" => reply = <<>>)
  BY <1>1, <1>2 DEF LinkInv, OutInv
<1>4. reply \in Seq({"r"}) /\ sessions \in 0 .. MaxSessions
  BY <1>1 DEF TypeOK, HostTypeOK
<1>5. reply' \in Seq({"r"}) /\ (dev_pc = "menu" => reply' = <<>>)
  BY <1>2, <1>3, <1>4
<1>6. sessions' \in 0 .. MaxSessions
  BY <1>2, <1>4, Constants
<1>7. PICK p \in Int : p = Taken
  BY <1>1, SentIs
<1>8. At(p) /\ p + Len(fifo) = 0
  <2>1. /\ host_step \in 0 .. WStep + 1 /\ Taken = Sent - Len(fifo) /\ Len(fifo) \in Nat
        /\ host_step < WStep => Sent = 0
    BY <1>1, SentIs
  <2>2. Sent = 0
    BY <1>1, <1>3, <2>1, ProgramFacts
  <2> QED
    BY <1>1, <1>7, <2>1, <2>2, AtTaken DEF LinkInv
<1>9. WStep \in Nat /\ WStep >= 2
  BY <1>1, ProgramFacts
<1> DEFINE n == 1
<1>10. n \in Nat /\ n >= 1 /\ StartStep(n) /\ n <= WStep + 1 /\ n # WStep + 1 /\ n <= 2
       /\ ~(n > WStep + 1) /\ n = 1
  BY <1>2, <1>9
<1> HIDE DEF n
<1>11. /\ At(p)' /\ p = Taken' /\ OutInv' /\ AnswerInv' /\ (host_step' >= 2 => FillSure')
       /\ Running' /\ host_step' = 1
  BY <1>1, <1>2, <1>3, <1>5, <1>6, <1>8, <1>10, StepStarted
<1>12. TypeOK' /\ OnTheWay(Taken)' /\ LoaderAt(Taken)'
  BY <1>11, WillBeAtTaken
<1>13. dev_pc' = dev_pc
  BY DEF devVars
<1>14. LinkInv'
  BY <1>5, <1>11, <1>12, <1>13 DEF LinkInv, Running
<1>15. RomHoldsImageOnly' /\ FillInv'
  BY <1>1, <1>11, RomKept DEF FillInv, FillSure
<1> QED
  BY <1>11, <1>12, <1>13, <1>14, <1>15 DEF LoadInv

\* The host only gives up when the loader does not run.
LEMMA TimesOutInMenu ==
  ASSUME Undisturbed, LoadInv, HostTimesOut(DevicePending)
  PROVE  dev_pc \in {"menu", "game"}
<1> SUFFICES ASSUME dev_pc \notin {"menu", "game"} PROVE FALSE
  OBVIOUS
<1>1. AnswerInv /\ FifoCap >= 1 /\ TypeOK
  BY Constants DEF LoadInv
<1>2. ~DevicePending
  BY DEF HostTimesOut
<1>3. CASE host_pc = "recv" /\ reply = <<>>
  BY <1>1, <1>2, <1>3 DEF AnswerInv, AwaitsAnswer, TestPending, DevicePending
<1>4. CASE host_pc = "send" /\ out # <<>> /\ Len(fifo) = FifoCap
  <2>1. fifo # <<>>
    BY <1>1, <1>4
  <2> QED
    BY <1>2, <2>1 DEF DevicePending
<1> QED
  BY <1>3, <1>4 DEF HostTimesOut

\* A host that gives up, or nothing.
LEMMA LoadAfterTimeout ==
  ASSUME Undisturbed, LoadInv, dev_pc # "game",
         HostTimeout \/ UNCHANGED vars
  PROVE  LoadInv'
<1>1. /\ TypeOK /\ RomHoldsImageOnly /\ LinkInv /\ LoaderAt(Taken) /\ FillInv /\ AnswerInv
      /\ WholeImage
  BY DEF LoadInv, Undisturbed
<1>2. UNCHANGED devVars /\ fifo' = fifo /\ reply' = reply /\ host_step' = host_step
      /\ sessions' = sessions
  BY DEF HostTimeout, HostTimesOut, vars, linkVars, hostVars
<1>3. /\ dev_pc' = dev_pc /\ cmd' = cmd /\ slen' = slen /\ addr' = addr /\ buff' = buff
      /\ usb_act' = usb_act /\ usb_need' = usb_need /\ usb_buf' = usb_buf /\ rom' = rom
  BY <1>2 DEF devVars, loaderVars, engineVars
<1>4. \/ host_pc' = host_pc /\ out' = out
      \/ host_pc' = "failed" /\ out' = <<>> /\ host_step <= 1 /\ host_step < WStep
  <2>1. CASE HostTimeout
    <3>1. dev_pc = "menu" /\ host_step <= 1
      BY <1>1, <2>1, TimesOutInMenu DEF HostTimeout, LinkInv
    <3>2. WStep \in Nat /\ WStep >= 2 /\ host_step \in Nat
      BY <1>1, ProgramFacts DEF TypeOK, HostTypeOK
    <3>3. host_step < WStep
      BY <3>1, <3>2
    <3> QED
      BY <2>1, <3>1, <3>3 DEF HostTimeout, HostTimesOut
  <2> QED
    BY <2>1 DEF vars, hostVars
<1>5. TypeOK'
  <2>1. HostTypeOK'
    <3>1. <<>> \in Seq(Units)
      OBVIOUS
    <3> QED
      BY <1>1, <1>2, <1>4, <3>1 DEF TypeOK, HostTypeOK
  <2> QED
    BY <1>1, <1>2, <1>3, <2>1 DEF TypeOK, DevTypeOK
<1>6. Sent' = Sent /\ Taken' = Taken
  BY <1>2, <1>4 DEF Sent, Taken, WStep, Program
<1>7. LinkInv'
  <2>1. OnTheWay(Taken)'
    BY <1>1, <1>2, <1>6 DEF LinkInv, OnTheWay, IsUnit
  <2>2. OutInv'
    BY <1>1, <1>2, <1>4, <1>6 DEF LinkInv, OutInv, IsUnit
  <2> QED
    BY <1>1, <1>2, <1>3, <1>4, <2>1, <2>2 DEF LinkInv
<1>8. LoaderAt(Taken)'
  BY <1>1, <1>2, <1>3, <1>6 DEF LoaderAt, BetweenCommands, AtCommand, Receiving, InBuff,
     IsUnit, Loaded
<1>9. FillInv' /\ AnswerInv'
  <2>1. CASE host_pc' = host_pc /\ out' = out
    BY <1>1, <1>2, <1>3, <2>1 DEF FillInv, FillPending, IsFill, Filled, AnswerInv,
       AwaitsAnswer, TestPending, IsTest
  <2>2. CASE host_pc' = "failed" /\ host_step <= 1
    BY <1>1, <1>2, <2>2 DEF FillInv, AnswerInv, AwaitsAnswer, TypeOK, HostTypeOK
  <2> QED
    BY <1>4, <2>1, <2>2
<1> QED
  BY <1>1, <1>2, <1>3, <1>5, <1>7, <1>8, <1>9, RomKept DEF LoadInv

\* In the middle of a block the host, if it is still there, is writing the image.
LEMMA MidBlock ==
  ASSUME WholeImage, TypeOK, usb_act, fifo = <<>>, slen # 0,
         slen * Block = ImageUnits - addr, Receiving(addr, Taken)
  PROVE  out # <<>>
<1> SUFFICES ASSUME out = <<>> PROVE FALSE
  OBVIOUS
<1>1. /\ slen \in Nat /\ addr \in Nat /\ Len(usb_buf) \in Nat /\ Len(out) = 0 /\ Len(fifo) = 0
      /\ Block \in Nat /\ ImageUnits \in Nat /\ NameUnits \in Nat
  BY LenProperties, Constants DEF TypeOK, DevTypeOK
<1>2. slen * Block >= Block /\ slen * Block \in Nat
  BY <1>1, OneBlockLess
<1>3. Taken - 1 = addr + Len(usb_buf) /\ Len(usb_buf) < Block
  BY DEF Receiving
<1>4. /\ host_step \in 0 .. WStep + 1 /\ Taken = Sent - Len(fifo) /\ Sent \in Int
      /\ host_step < WStep => Sent = 0
      /\ host_step = WStep => Sent = ImageUnits + 1 - Len(out)
      /\ host_step = WStep + 1 => Sent = ImageUnits + 2 + NameUnits - Len(out)
  BY SentIs
<1>5. Sent \in 1 .. ImageUnits
  BY <1>1, <1>2, <1>3, <1>4
<1> QED
  BY <1>1, <1>4, <1>5, ProgramFacts

\* The wait for a unit never ends without one: a command is only read when one
\* has begun to arrive, and in the middle of a block the host is writing.
LEMMA NeverStarved ==
  ASSUME Undisturbed, LoadInv
  PROVE  ~DeviceTimeout
<1> SUFFICES ASSUME DeviceTimeout PROVE FALSE
  OBVIOUS
<1>1. /\ dev_pc \in {"cmdwait", "rdend"} /\ usb_act /\ fifo = <<>>
      /\ ~(host_pc = "send" /\ out # <<>>)
  BY DEF DeviceTimeout, BusyTimeout, MayStarve, Undisturbed
<1>2. TypeOK /\ LinkInv /\ LoaderAt(Taken) /\ WholeImage
  BY <1>1 DEF LoadInv, Undisturbed
<1>3. out = <<>>
  BY <1>1, <1>2 DEF LinkInv, OutInv
<1>4. dev_pc = "rdend"
  BY <1>1, <1>2 DEF LoaderAt
<1>5. slen # 0 /\ slen * Block = ImageUnits - addr /\ Receiving(addr, Taken)
  BY <1>2, <1>4 DEF LoaderAt
<1> QED
  BY <1>1, <1>2, <1>3, <1>5, MidBlock

\* One step per action.
LEMMA LoadInvStep ==
  ASSUME Undisturbed, LoadInv, [Next]_vars
  PROVE  LoadInv'
<1>1. WholeImage
  BY DEF Undisturbed
<1>2. CASE dev_pc = "game"
  <2>1. TypeOK /\ RomHoldsImageOnly /\ ~usb_act /\ ImageInRom
    BY <1>2 DEF LoadInv
  <2>2. TypeOK' /\ UNCHANGED devVars
    BY <1>1, <1>2, <2>1, GameStays
  <2> QED
    BY <1>2, <2>1, <2>2 DEF LoadInv, RomHoldsImageOnly, ImageInRom, devVars, engineVars
<1>3. CASE dev_pc # "game"
  <2>1. CASE PlayerStep
    BY <2>1, LoadAfterEntering
  <2>2. CASE DeviceStep
    BY <1>3, <2>2, LoadAfterDevice
  <2>3. CASE DeviceTimeout
    BY <2>3, NeverStarved
  <2>4. CASE HostProgress
    BY <1>3, <2>4, LoadAfterHost, LoadAfterConnect DEF HostProgress
  <2>5. CASE HostTimeout \/ UNCHANGED vars
    BY <1>3, <2>5, LoadAfterTimeout
  <2>6. CASE HostAbort
    BY <2>6 DEF HostAbort, Undisturbed
  <2> QED
    BY <2>1, <2>2, <2>3, <2>4, <2>5, <2>6 DEF Next
<1> QED
  BY <1>2, <1>3

\* LoadInv holds throughout: every unit of every run is where the loader takes
\* it for what it is, for every size of image, area, name, ROM and FIFO.
THEOREM LoadIsInOrder ==
  ASSUME Undisturbed
  PROVE  Spec => []LoadInv
<1>1. Init => LoadInv
  BY Beginning DEF LoadInv, LinkInv, FillInv, AnswerInv, AwaitsAnswer, Undisturbed
<1>2. LoadInv /\ [Next]_vars => LoadInv'
  BY LoadInvStep
<1> QED
  BY <1>1, <1>2, PTL DEF Spec

\* The console only starts a game that was transferred completely, and whose
\* image is followed by the fill (UsbSystem's BootsWholeImage).
THEOREM WholeImagesBoot ==
  ASSUME Undisturbed
  PROVE  Spec => []BootsWholeImage
<1>1. LoadInv => BootsWholeImage
  BY DEF LoadInv, BootsWholeImage
<1> QED
  BY <1>1, LoadIsInOrder, PTL

\* usbCmdRomWR puts every unit where it belongs, although the engine receives
\* the next block while one is copied.
THEOREM RomIsWrittenInPlace ==
  ASSUME Undisturbed
  PROVE  Spec => []RomHoldsImageOnly
<1>1. LoadInv => RomHoldsImageOnly
  BY DEF LoadInv
<1> QED
  BY <1>1, LoadIsInOrder, PTL

\* No part of an image is ever taken for a command packet.
THEOREM CommandsAreCommands ==
  ASSUME Undisturbed
  PROVE  Spec => []NoDataAsCommand
<1>1. LoadInv => NoDataAsCommand
  <2> SUFFICES ASSUME LoadInv, dev_pc = "dispatch" PROVE cmd.kind # "data"
    BY DEF NoDataAsCommand
  <2>1. TypeOK /\ OnTheWay(Taken) /\ LoaderAt(Taken) /\ WholeImage
    BY DEF LoadInv, LinkInv, Undisturbed
  <2>2. PICK p \in Int : p = Taken
    BY <2>1, SentIs
  <2>3. At(p)
    BY <2>1, <2>2, AtTaken
  <2>4. cmd \in {TCmd, CCmd, WCmd, SCmd}
    BY <2>1, <2>3, AtDispatch
  <2> QED
    BY <2>1, <2>4, KindsOfUnits
<1> QED
  BY <1>1, LoadIsInOrder, PTL

\* While the loader waits for a command, no unit is taken out of the FIFO behind
\* its back.
THEOREM EngineIsIdle ==
  ASSUME Undisturbed
  PROVE  Spec => []EngineIdleBetweenCommands
<1>1. LoadInv => EngineIdleBetweenCommands
  BY DEF LoadInv, LoaderAt, BetweenCommands, EngineIdleBetweenCommands
<1> QED
  BY <1>1, LoadIsInOrder, PTL

\* usb64 reports a missing console only when the loader does not run
\* (UsbInterface.cs:111).
THEOREM NotFoundIsTrue ==
  ASSUME Undisturbed
  PROVE  Spec => NotFoundMeansAbsent
<1>1. LoadInv /\ [Next]_vars =>
        [HostTimeout /\ host_step = 1 => dev_pc \in {"menu", "game"}]_vars
  BY TimesOutInMenu DEF HostTimeout
<1> QED
  BY <1>1, LoadIsInOrder, PTL DEF Spec, NotFoundMeansAbsent

-----------------------------------------------------------------------------
(***************************************************************************)
(* The invariant for a host that may be stopped, or give up, and be run    *)
(* again.                                                                  *)
(***************************************************************************)

\* Nobody pauses in the program, answers do not outlive a run, and the player
\* leaves only when the program does not run and all is taken.
Rerunnable ==
  /\ HostStalls = FALSE /\ StaleAnswers = FALSE /\ PlayerLeaves # "any"
  /\ WholeImage

\* The fill is sure where it must be.
FillWhen(p) == (Running /\ host_step >= 2) \/ p + Len(fifo) >= 1 => FillSure

\* What there is in the FIFO when the player is in the menu.
MenuIs ==
  dev_pc = "menu" =>
    /\ \A k \in 1 .. Len(fifo) : IsTest(fifo[k])
    /\ Running => host_step <= 1 /\ reply = <<>>

\* InStep by its parts.
LEMMA PartsOfInStep ==
  ASSUME TypeOK, NEW p \in Int, InStep(p)
  PROVE  /\ At(p) /\ FillWhen(p) /\ MenuIs
         /\ Running => p = Taken /\ OutInv
         /\ ~Running => out = <<>>
BY DEF InStep, At, FillWhen, MenuIs, FillSure

\* The parts make it, after a step.
LEMMA WillBeInStep ==
  ASSUME NEW q \in Int, At(q)', FillWhen(q)', MenuIs',
         Running' => q = Taken' /\ OutInv',
         ~Running' => out' = <<>>
  PROVE  (\E p \in 0 - FifoCap .. StreamEnd : InStep(p))'
<1>1. InStep(q)'
  BY DEF InStep, At, FillWhen, MenuIs, FillSure
<1>2. fifo' \in Seq(Units) /\ Len(fifo') <= FifoCap /\ q + Len(fifo') \in 0 .. StreamEnd
  BY DEF At, TypeOK, OnTheWay, StreamEnd
<1>3. Len(fifo') \in Nat
  BY <1>2, LenProperties
<1>4. StreamEnd \in Nat /\ FifoCap \in Nat
  BY Constants DEF StreamEnd
<1> DEFINE n == Len(fifo')
<1>5. n \in Nat /\ n <= FifoCap /\ q + n >= 0 /\ q + n <= StreamEnd
  BY <1>2, <1>3, <1>4
<1> HIDE DEF n
<1>6. q \in 0 - FifoCap .. StreamEnd
  BY <1>4, <1>5
<1>7. (0 - FifoCap .. StreamEnd)' = 0 - FifoCap .. StreamEnd
  BY DEF StreamEnd
<1> QED
  BY <1>1, <1>6 DEF StreamEnd

\* The host's place in Program.
LEMMA HostPlaceKept ==
  ASSUME WholeImage, TypeOK, HostPlace, [Next]_vars
  PROVE  HostPlace'
<1>1. host_step \in 0 .. Len(Program) /\ Len(Program) \in Nat /\ Len(Program) >= 3
  BY ProgramFacts DEF TypeOK, HostTypeOK
<1>2. ASSUME NEW n \in Nat, n # 0, n <= host_step + 1, StartStep(n), host_step # 0 \/ n = 1
      PROVE  HostPlace'
  <2>1. CASE n > Len(Program)
    <3>1. host_pc' = "done" /\ host_step' = host_step /\ host_step = Len(Program)
      BY <1>1, <1>2, <2>1 DEF StartStep
    <3> QED
      BY <1>1, <3>1 DEF HostPlace, Running, Program, FillCartridge, TestConnection, RomWrite,
         StartRom
  <2>2. CASE ~(n > Len(Program))
    BY <1>2, <2>2 DEF StartStep, HostPlace, Running
  <2> QED
    BY <2>1, <2>2
<1>3. CASE UNCHANGED hostVars
  BY <1>3 DEF HostPlace, Running, hostVars
<1>4. CASE HostStep
  <2>1. Listening /\ host_step # 0
    BY <1>4 DEF HostStep, HostWrites, HostWritten, HostReceives, HostPlace, Running, Listening
  <2>2. CASE StartStep(host_step + 1)
    <3>1. host_step + 1 \in Nat /\ host_step + 1 # 0
      BY <1>1
    <3> QED
      BY <1>1, <1>2, <2>1, <2>2, <3>1
  <2>3. CASE host_pc' \in {"send", "recv"} /\ host_step' = host_step
    BY <2>1, <2>3 DEF HostPlace, Running
  <2> QED
    BY <1>4, <2>2, <2>3 DEF HostStep, HostWrites, HostWritten, HostReceives
<1>5. CASE Connect(DevicePending)
  BY <1>1, <1>2, <1>5 DEF Connect
<1>6. CASE HostTimesOut(DevicePending) \/ HostStopped
  BY <1>6 DEF HostTimesOut, HostStopped, HostPlace, Running
<1> QED
  BY <1>3, <1>4, <1>5, <1>6 DEF Next, PlayerStep, DeviceStep, DeviceTimeout, HostProgress,
     HostTimeout, HostAbort, vars

\* A FIFO that holds nothing but tests stands before the stream.
LEMMA BeforeStream ==
  ASSUME WholeImage, TypeOK, \A k \in 1 .. Len(fifo) : IsTest(fifo[k])
  PROVE  /\ OnTheWay(0 - Len(fifo)) /\ 0 - Len(fifo) \in Int /\ 0 - Len(fifo) <= 0
         /\ 0 - Len(fifo) + Len(fifo) = 0
         /\ host_step <= 1 => 0 - Len(fifo) = Taken
<1> DEFINE n == Len(fifo)
           p == 0 - n
<1>1. n \in Nat
  BY LenProperties DEF TypeOK
<1>2. \A k \in 1 .. n : EarlyCommand(fifo[k])
  BY UnitsOf
<1>3. StreamEnd \in Nat
  BY Constants DEF StreamEnd
<1>4. host_step <= 1 => Sent = 0 /\ Taken = Sent - n
  BY SentIs, ProgramFacts
<1>5. OnTheWay(p) <=> p + n \in 0 .. StreamEnd /\ \A k \in 1 .. n : IsUnit(fifo[k], p + k)
  BY DEF OnTheWay
<1> HIDE DEF n
<1>6. p \in Int /\ p <= 0 /\ p + n = 0
  BY <1>1
<1>7. \A k \in 1 .. n : p + k \in Int /\ p + k <= 0
  BY <1>1
<1> HIDE DEF p
<1>8. \A k \in 1 .. n : IsUnit(fifo[k], p + k)
  BY <1>2, <1>7, UnitsOf
<1>9. OnTheWay(p)
  BY <1>3, <1>5, <1>6, <1>8
<1>10. host_step <= 1 => p = Taken
  BY <1>1, <1>4 DEF p
<1> QED
  BY <1>6, <1>9, <1>10 DEF n, p

\* In the menu the console stands before the stream.
LEMMA MenuPlace ==
  ASSUME WholeImage, TypeOK, NEW p \in Int, InStep(p), dev_pc = "menu"
  PROVE  \E q \in Int : At(q) /\ q <= 0 /\ q + Len(fifo) = 0 /\ (Running => q = Taken)
<1>1. \A k \in 1 .. Len(fifo) : IsTest(fifo[k])
  BY DEF InStep
<1> DEFINE q == 0 - Len(fifo)
<1>2. /\ OnTheWay(q) /\ q \in Int /\ q <= 0 /\ q + Len(fifo) = 0
      /\ host_step <= 1 => q = Taken
  BY <1>1, BeforeStream
<1> HIDE DEF q
<1>3. Running => q = Taken
  BY <1>2 DEF InStep
<1>4. LoaderAt(q)
  <2>1. ~usb_act
    BY DEF InStep, LoaderAt, BetweenCommands
  <2> QED
    BY <1>2, <2>1 DEF LoaderAt, BetweenCommands
<1> QED
  BY <1>2, <1>3, <1>4 DEF At

\* The player starts the loader, or leaves it when nothing is on its way.
LEMMA InStepPlayer ==
  ASSUME Rerunnable, TypeOK, HostPlace, NEW p \in Int, InStep(p), PlayerStep
  PROVE  TypeOK' /\ dev_pc' # "game" /\ (\E q \in 0 - FifoCap .. StreamEnd : InStep(q))'
<1>1. WholeImage
  BY DEF Rerunnable
<1>2. /\ fifo' = fifo /\ reply' = reply /\ rom' = rom
      /\ cmd' = cmd /\ slen' = slen /\ addr' = addr /\ buff' = buff
      /\ usb_act' = usb_act /\ usb_need' = usb_need /\ usb_buf' = usb_buf
      /\ host_pc' = host_pc /\ host_step' = host_step /\ out' = out /\ sessions' = sessions
      /\ Sent' = Sent /\ Taken' = Taken
  BY DEF PlayerStep, EnterLoader, LeaveLoader, loaderVars, engineVars, linkVars, hostVars,
     Sent, Taken
<1>3. CASE EnterLoader
  <2>1. dev_pc = "menu" /\ dev_pc' = "poll"
    BY <1>3 DEF EnterLoader
  <2>2. PICK q \in Int : At(q) /\ q <= 0 /\ q + Len(fifo) = 0 /\ (Running => q = Taken)
    BY <1>1, <2>1, MenuPlace
  <2>3. At(q)'
    BY <1>3, <2>2, EnterLoaderKeeps DEF PlayerStep
  <2>4. Running => host_step <= 1
    BY <2>1 DEF InStep
  <2>5. host_step \in Nat
    BY DEF TypeOK, HostTypeOK
  <2>6. FillWhen(q)'
    BY <1>2, <2>2, <2>4, <2>5 DEF FillWhen, Running
  <2>7. MenuIs'
    BY <2>1 DEF MenuIs
  <2>8. (Running' => q = Taken' /\ OutInv') /\ (~Running' => out' = <<>>)
    BY <1>2, <2>2, PartsOfInStep DEF Running, OutInv, IsUnit
  <2> QED
    BY <2>1, <2>3, <2>6, <2>7, <2>8, WillBeInStep DEF At
<1>4. CASE ~EnterLoader
  <2>1. /\ dev_pc = "poll" /\ dev_pc' = "menu" /\ fifo = <<>> /\ ~Listening
    BY <1>4, SystemAssumption DEF PlayerStep, MayLeave, LeaveLoader, Rerunnable
  <2>2. At(p) /\ BetweenCommands(p) /\ Len(fifo) = 0
    BY <2>1, PartsOfInStep DEF At, LoaderAt
  <2>3. ~Running
    <3> SUFFICES ASSUME Running PROVE FALSE
      OBVIOUS
    <3>1. host_pc = "done" /\ host_step = WStep + 1 /\ p = Taken /\ OutInv
      BY <1>1, <2>1, ProgramFacts, PartsOfInStep DEF Running, Listening, HostPlace, TypeOK,
         HostTypeOK
    <3>2. out = <<>> /\ Len(out) = 0
      BY <3>1 DEF OutInv
    <3>3. p = ImageUnits + 2 + NameUnits
      <4>1. Taken = Sent - Len(fifo) /\ Sent = ImageUnits + 2 + NameUnits - Len(out)
        BY <1>1, <3>1, SentIs
      <4> QED
        BY <2>2, <3>1, <3>2, <4>1, Constants
    <3> QED
      BY <2>2, <3>3, Constants DEF BetweenCommands
  <2>4. TypeOK'
    BY <1>2, <2>1 DEF TypeOK, DevTypeOK, HostTypeOK, DevPlaces
  <2> DEFINE q == 0
  <2>5. q \in Int /\ OnTheWay(q)' /\ LoaderAt(q)'
    <3>1. StreamEnd \in Nat
      BY Constants DEF StreamEnd
    <3>2. OnTheWay(q)'
      BY <1>2, <2>1, <3>1 DEF OnTheWay
    <3>3. LoaderAt(q)'
      BY <1>2, <2>1, <2>2 DEF LoaderAt, BetweenCommands
    <3> QED
      BY <3>2, <3>3
  <2>6. FillWhen(q)'
    BY <1>2, <2>2, <2>3 DEF FillWhen, Running
  <2>7. MenuIs'
    BY <1>2, <2>2, <2>3 DEF MenuIs, Running
  <2>8. ~Running' /\ out' = <<>>
    BY <1>2, <2>3, PartsOfInStep DEF Running
  <2> HIDE DEF q
  <2> QED
    BY <2>1, <2>4, <2>5, <2>6, <2>7, <2>8, WillBeInStep DEF At
<1> QED
  BY <1>3, <1>4

\* What a host that writes the stream has still to write of it.
LEMMA StreamOut ==
  ASSUME WholeImage, NEW p \in Int, At(p), p = Taken, OutInv, p + Len(fifo) >= 1
  PROVE  /\ host_step >= WStep /\ host_step >= 2 /\ Len(out) \in Nat
         /\ \A k \in 1 .. Len(out) : IsUnit(out[k], p + Len(fifo) + k) /\ ~IsFill(out[k])
         /\ p + Len(fifo) + Len(out) <= StreamEnd
<1>1. TypeOK
  BY DEF At
<1>2. /\ host_step \in 0 .. WStep + 1 /\ Len(out) \in Nat /\ Sent \in Int
      /\ WStep \in Nat /\ WStep >= 2 /\ ImageUnits \in Nat /\ NameUnits \in Nat
      /\ Len(fifo) \in Nat /\ Sent = p + Len(fifo) /\ Sent >= 1
      /\ host_step < WStep => Sent = 0
      /\ host_step = WStep => Sent = ImageUnits + 1 - Len(out)
      /\ host_step = WStep + 1 => Sent = ImageUnits + 2 + NameUnits - Len(out)
  BY <1>1, SentIs, ProgramFacts, Constants
<1>3. host_step >= WStep /\ host_step >= 2
  BY <1>2
<1>4. Sent + Len(out) <= ImageUnits + 2 + NameUnits
  <2>1. host_step = WStep \/ host_step = WStep + 1
    BY <1>2, <1>3
  <2> QED
    BY <1>2, <2>1
<1>5. ASSUME NEW k \in 1 .. Len(out)
      PROVE  IsUnit(out[k], Sent + k) /\ ~IsFill(out[k])
  <2> DEFINE n == Sent + k
  <2>1. IsUnit(out[k], n)
    BY <1>3 DEF OutInv
  <2>2. n \in Int /\ n >= 2 /\ n <= ImageUnits + 2 + NameUnits
    BY <1>2, <1>4
  <2> HIDE DEF n
  <2>3. CASE n <= ImageUnits + 1
    <3>1. n \in 2 .. ImageUnits + 1
      BY <1>2, <2>2, <2>3
    <3>2. out[k] = Data(n - 2)
      BY <2>1, <3>1, UnitsOf
    <3> QED
      BY <2>1, <3>2, KindsOfUnits DEF IsFill, n
  <2>4. CASE n = ImageUnits + 2
    <3>1. out[k] = SCmd
      BY <2>1, <2>2, <2>4, UnitsOf
    <3> QED
      BY <2>1, <3>1, KindsOfUnits DEF IsFill, n
  <2>5. CASE n >= ImageUnits + 3
    <3>1. n \in ImageUnits + 3 .. ImageUnits + NameUnits + 2
      BY <1>2, <2>2, <2>5
    <3>2. out[k] = Other("name")
      BY <2>1, <3>1, UnitsOf
    <3> QED
      BY <2>1, <3>2, KindsOfUnits DEF IsFill, n
  <2> QED
    BY <1>2, <2>2, <2>3, <2>4, <2>5
<1>6. p + Len(fifo) + Len(out) <= StreamEnd
  BY <1>2, <1>4 DEF StreamEnd
<1> QED
  BY <1>2, <1>3, <1>5, <1>6

\* The console does something.
LEMMA InStepDevice ==
  ASSUME Rerunnable, TypeOK, NEW p \in Int, InStep(p), dev_pc # "game", DeviceStep
  PROVE  /\ TypeOK'
         /\ dev_pc' = "game" => ~usb_act' /\ ImageInRom'
         /\ dev_pc' # "game" => (\E q \in 0 - FifoCap .. StreamEnd : InStep(q))'
<1>1. WholeImage
  BY DEF Rerunnable
<1>2. /\ At(p) /\ FillWhen(p) /\ MenuIs
      /\ Running => p = Taken /\ OutInv
      /\ ~Running => out = <<>>
  BY PartsOfInStep
<1>3. UNCHANGED hostVars
  BY DEF DeviceStep
<1>4. /\ host_pc' = host_pc /\ host_step' = host_step /\ out' = out /\ Sent' = Sent
  BY <1>3 DEF hostVars, Sent
<1>5. CASE StartGame
  <2>1. dev_pc = "dispatch" /\ p = ImageUnits + 2
    <3>1. dev_pc = "dispatch" /\ cmd.op = "s"
      BY <1>5 DEF StartGame
    <3> QED
      BY <1>1, <1>2, <3>1, AtDispatch, KindsOfUnits
  <2>2. p + Len(fifo) >= 1
    BY <1>2, <2>1, Lengths, Constants
  <2>3. FillSure
    BY <1>2, <2>2 DEF FillWhen
  <2>4. /\ out = <<>> \/ \A k \in 1 .. Len(out) : IsUnit(out[k], p + Len(fifo) + k)
        /\ p + Len(fifo) + Len(out) <= StreamEnd
    <3>1. CASE Running
      BY <1>1, <1>2, <2>2, <3>1, StreamOut
    <3>2. CASE ~Running
      <4>1. Len(out) = 0 /\ out = <<>>
        BY <1>2, <3>2
      <4> QED
        BY <1>2, <4>1, Lengths, Constants DEF StreamEnd
    <3> QED
      BY <3>1, <3>2
  <2> QED
    BY <1>1, <1>2, <1>3, <1>5, <2>3, <2>4, StartGameEnds
<1>6. CASE ~StartGame
  <2>1. /\ \E q \in Int : At(q)' /\ q + Len(fifo') = p + Len(fifo)
        /\ Keeps /\ dev_pc' \notin {"menu", "game"}
    BY <1>1, <1>2, <1>6, DeviceStepKeeps
  <2>2. PICK q \in Int : At(q)' /\ q + Len(fifo') = p + Len(fifo)
    BY <2>1
  <2>3. TypeOK'
    BY <2>2 DEF At
  <2>4. Running => q = Taken'
    <3>1. Taken' = Sent' - Len(fifo') /\ Len(fifo') \in Nat
      BY <1>1, <2>3, SentWillBe
    <3>2. Taken = Sent - Len(fifo) /\ Len(fifo) \in Nat /\ Sent \in Int
      BY <1>1, SentIs
    <3> QED
      BY <1>2, <1>4, <2>2, <3>1, <3>2
  <2>5. FillWhen(q)'
    BY <1>2, <1>4, <2>1, <2>2 DEF FillWhen, Running, Keeps
  <2>6. MenuIs'
    BY <2>1 DEF MenuIs
  <2>7. (Running' => q = Taken' /\ OutInv') /\ (~Running' => out' = <<>>)
    BY <1>2, <1>4, <2>4 DEF Running, OutInv, IsUnit
  <2> QED
    BY <2>1, <2>2, <2>3, <2>5, <2>6, <2>7, WillBeInStep
<1> QED
  BY <1>5, <1>6

\* A wait that ends without a unit: the run has ended in the middle of a block.
LEMMA InStepStarves ==
  ASSUME Rerunnable, TypeOK, NEW p \in Int, InStep(p), DeviceTimeout
  PROVE  TypeOK' /\ dev_pc' # "game" /\ Interrupted'
<1>1. /\ dev_pc \in {"cmdwait", "rdend"} /\ usb_act /\ fifo = <<>>
      /\ ~(host_pc = "send" /\ out # <<>>) /\ WholeImage
  BY DEF DeviceTimeout, BusyTimeout, MayStarve, Rerunnable
<1>2. /\ At(p) /\ LoaderAt(p)
      /\ Running => p = Taken /\ OutInv
      /\ ~Running => out = <<>>
  BY PartsOfInStep DEF At
<1>3. dev_pc = "rdend"
  BY <1>1, <1>2 DEF LoaderAt
<1>4. slen # 0 /\ slen * Block = ImageUnits - addr /\ Receiving(addr, p)
  BY <1>2, <1>3 DEF LoaderAt
<1>5. ~Running
  <2> SUFFICES ASSUME Running PROVE FALSE
    OBVIOUS
  <2>1. p = Taken /\ out = <<>>
    BY <1>1, <1>2 DEF OutInv
  <2>2. Receiving(addr, Taken)
    BY <1>4, <2>1
  <2> QED
    BY <1>1, <1>4, <2>1, <2>2, MidBlock
<1>6. /\ usb_act' = FALSE /\ usb_need' = 0 /\ usb_buf' = <<>>
      /\ slen' = slen - 1 /\ dev_pc' = "abort"
      /\ cmd' = cmd /\ addr' = addr /\ buff' = buff /\ rom' = rom /\ fifo' = fifo
      /\ reply' = reply
      /\ host_pc' = host_pc /\ host_step' = host_step /\ out' = out /\ sessions' = sessions
  BY <1>3 DEF DeviceTimeout, BusyTimeout, StopEngine, linkVars, hostVars
<1>7. TypeOK'
  <2>1. slen - 1 \in 0 .. RomUnits
    BY <1>4, Constants DEF TypeOK, DevTypeOK
  <2>2. 0 \in 0 .. Block /\ <<>> \in Seq(Units) /\ Len(<<>>) <= Block
    BY Constants
  <2> QED
    BY <1>6, <2>1, <2>2 DEF TypeOK, DevTypeOK, HostTypeOK, DevPlaces
<1>8. Len(fifo') = 0 /\ Len(out') = 0 /\ out' = <<>> /\ ~Running'
  BY <1>1, <1>2, <1>5, <1>6 DEF Running
<1> QED
  BY <1>6, <1>7, <1>8 DEF Interrupted

\* The host goes on.
LEMMA InStepHost ==
  ASSUME Rerunnable, TypeOK, HostPlace, NEW p \in Int, InStep(p), dev_pc # "game",
         HostStep, UNCHANGED devVars
  PROVE  TypeOK' /\ (\E q \in 0 - FifoCap .. StreamEnd : InStep(q))'
<1>1. WholeImage
  BY DEF Rerunnable
<1>2. Running
  BY DEF HostStep, HostWrites, HostWritten, HostReceives, Running
<1>3. At(p) /\ FillWhen(p) /\ MenuIs /\ p = Taken /\ OutInv
  BY <1>2, PartsOfInStep
<1>4. FillInv
  BY <1>2, <1>3 DEF FillWhen, FillSure, FillInv
<1>5. /\ \E q \in Int : At(q)' /\ q = Taken'
      /\ OutInv' /\ Running' /\ FillInv'
      /\ host_step <= 1 /\ reply = <<>> =>
           /\ host_step' <= 1 /\ reply' = <<>>
           /\ host_step = 1 /\ (\A k \in 1 .. Len(fifo) : IsTest(fifo[k])) =>
                \A k \in 1 .. Len(fifo') : IsTest(fifo'[k])
  BY <1>1, <1>3, <1>4, HostStepKeeps
<1>6. PICK q \in Int : At(q)' /\ q = Taken'
  BY <1>5
<1>7. TypeOK' /\ dev_pc' = dev_pc
  BY <1>6 DEF At, devVars
<1>8. FillWhen(q)'
  <2>1. q + Len(fifo') >= 1 => host_step' >= 2
    <3>1. /\ host_step' \in 0 .. WStep + 1 /\ Taken' = Sent' - Len(fifo') /\ Len(fifo') \in Nat
          /\ Sent' \in Int /\ WStep \in Nat /\ WStep >= 2
          /\ host_step' < WStep => Sent' = 0
      BY <1>1, <1>7, SentWillBe, ProgramFacts
    <3>2. q + Len(fifo') >= 1 => Sent' >= 1
      BY <1>6, <3>1
    <3> QED
      BY <3>1, <3>2
  <2> QED
    BY <1>5, <2>1 DEF FillInv, FillSure, FillWhen
<1>9. MenuIs'
  <2> SUFFICES ASSUME dev_pc = "menu"
               PROVE  /\ \A k \in 1 .. Len(fifo') : IsTest(fifo'[k])
                      /\ host_step' <= 1 /\ reply' = <<>>
    BY <1>7 DEF MenuIs, IsTest
  <2>1. host_step <= 1 /\ reply = <<>> /\ \A k \in 1 .. Len(fifo) : IsTest(fifo[k])
    BY <1>2, <1>3 DEF MenuIs
  <2>2. host_step = 1
    BY <1>2, <2>1 DEF HostPlace, TypeOK, HostTypeOK
  <2> QED
    BY <1>5, <2>1, <2>2
<1> QED
  BY <1>5, <1>6, <1>7, <1>8, <1>9, WillBeInStep

\* The host ends its run early: what is on its way stays there.
LEMMA InStepEnds ==
  ASSUME Rerunnable, TypeOK, NEW p \in Int, InStep(p), NEW pending,
         HostTimesOut(pending) \/ HostStopped, UNCHANGED devVars
  PROVE  TypeOK' /\ (\E q \in 0 - FifoCap .. StreamEnd : InStep(q))'
<1>1. WholeImage
  BY DEF Rerunnable
<1>2. Running
  BY DEF HostTimesOut, HostStopped, Listening, Running
<1>3. At(p) /\ FillWhen(p) /\ MenuIs /\ p = Taken /\ OutInv
  BY <1>2, PartsOfInStep
<1>4. /\ dev_pc' = dev_pc /\ cmd' = cmd /\ slen' = slen /\ addr' = addr /\ buff' = buff
      /\ usb_act' = usb_act /\ usb_need' = usb_need /\ usb_buf' = usb_buf /\ rom' = rom
  BY DEF devVars, loaderVars, engineVars
<1>5. /\ host_pc' = "failed" /\ out' = <<>> /\ fifo' = fifo /\ reply' = reply
      /\ host_step' = host_step /\ sessions' = sessions
  BY DEF HostTimesOut, HostStopped, linkVars
<1>6. TypeOK'
  <2>1. <<>> \in Seq(Units)
    OBVIOUS
  <2>2. HostTypeOK'
    BY <1>5, <2>1 DEF TypeOK, HostTypeOK
  <2> QED
    BY <1>4, <1>5, <2>2 DEF TypeOK, DevTypeOK
<1>7. OnTheWay(p)' /\ LoaderAt(p)'
  BY <1>1, <1>3, <1>5, LinkKept, LoaderKept DEF At
<1>8. FillWhen(p)'
  <2> SUFFICES ASSUME p + Len(fifo) >= 1 PROVE FillSure'
    BY <1>5 DEF FillWhen, Running
  <2>1. FillSure
    BY <1>3 DEF FillWhen
  <2>2. \A k \in 1 .. Len(out) : ~IsFill(out[k])
    BY <1>1, <1>3, StreamOut
  <2>3. FillPending => FillPending'
    BY <1>4, <1>5, <2>2 DEF FillPending, IsFill
  <2>4. Filled => Filled'
    BY RomKept
  <2> QED
    BY <2>1, <2>3, <2>4 DEF FillSure
<1>9. MenuIs' /\ ~Running'
  BY <1>3, <1>4, <1>5 DEF MenuIs, IsTest, Running
<1> QED
  BY <1>5, <1>6, <1>7, <1>8, <1>9, WillBeInStep DEF At

\* The user runs the program: all that the console takes or answers of the runs
\* before is taken and answered.
LEMMA InStepConnect ==
  ASSUME Rerunnable, TypeOK, NEW p \in Int, InStep(p), dev_pc # "game",
         Connect(DevicePending), UNCHANGED devVars
  PROVE  TypeOK' /\ (Interrupted' \/ (\E q \in 0 - FifoCap .. StreamEnd : InStep(q))')
<1>1. WholeImage /\ StaleAnswers = FALSE
  BY DEF Rerunnable
<1>2. /\ host_pc \in {"off", "failed"} /\ sessions < MaxSessions /\ ~DevicePending
      /\ StartStep(1) /\ fifo' = fifo /\ sessions' = sessions + 1 /\ reply' = <<>>
  BY <1>1 DEF Connect
<1>3. /\ dev_pc' = dev_pc /\ cmd' = cmd /\ slen' = slen /\ addr' = addr /\ buff' = buff
      /\ usb_act' = usb_act /\ usb_need' = usb_need /\ usb_buf' = usb_buf /\ rom' = rom
  BY DEF devVars, loaderVars, engineVars
<1>4. At(p) /\ LoaderAt(p) /\ MenuIs /\ out = <<>> /\ ~Running
  BY <1>2, PartsOfInStep DEF At, Running
<1>5. sessions' \in 0 .. MaxSessions /\ reply' \in Seq({"r"})
  <2>1. sessions \in 0 .. MaxSessions /\ <<>> \in Seq({"r"})
    BY DEF TypeOK, HostTypeOK
  <2> QED
    BY <1>2, <2>1, Constants
<1>6. WStep \in Nat /\ WStep >= 2
  BY <1>1, ProgramFacts
<1>7. ASSUME NEW q \in Int, At(q), q + Len(fifo) = 0
      PROVE  TypeOK' /\ (\E r \in 0 - FifoCap .. StreamEnd : InStep(r))'
  <2> DEFINE n == 1
  <2>1. n \in Nat /\ n >= 1 /\ StartStep(n) /\ n <= WStep + 1 /\ n # WStep + 1 /\ n <= 2
        /\ ~(n > WStep + 1) /\ n = 1
    BY <1>2, <1>6
  <2> HIDE DEF n
  <2>2. At(q)' /\ q = Taken' /\ OutInv' /\ Running' /\ host_step' = 1
    BY <1>1, <1>2, <1>4, <1>5, <1>7, <2>1, StepStarted
  <2>3. FillWhen(q)'
    BY <1>2, <1>7, <2>2 DEF FillWhen
  <2>4. MenuIs'
    BY <1>2, <1>3, <1>4, <2>2 DEF MenuIs, IsTest
  <2> QED
    BY <2>2, <2>3, <2>4, WillBeInStep DEF At
<1>8. CASE dev_pc = "menu"
  BY <1>1, <1>7, <1>8, MenuPlace
<1>9. CASE dev_pc # "menu" /\ dev_pc # "rdend"
  <2>1. fifo = <<>> /\ dev_pc = "poll"
    BY <1>2, <1>4, <1>9 DEF DevicePending, LoaderAt, TypeOK, DevTypeOK, DevPlaces
  <2> DEFINE q == 0
  <2>2. q \in Int /\ q + Len(fifo) = 0 /\ q <= 0
    BY <2>1
  <2>3. OnTheWay(q)
    <3>1. StreamEnd \in Nat
      BY Constants DEF StreamEnd
    <3> QED
      BY <2>1, <3>1 DEF OnTheWay
  <2>4. LoaderAt(q)
    <3>1. ~(q >= ImageUnits + 1)
      BY Constants
    <3> QED
      BY <1>4, <2>1, <2>2, <3>1 DEF LoaderAt, BetweenCommands
  <2> HIDE DEF q
  <2> QED
    BY <1>7, <2>2, <2>3, <2>4 DEF At
<1>10. CASE dev_pc = "rdend"
  <2>1. fifo = <<>> /\ slen # 0 /\ slen * Block = ImageUnits - addr /\ Receiving(addr, p)
    BY <1>2, <1>4, <1>10 DEF DevicePending, LoaderAt
  <2>2. /\ host_pc' = "send" /\ host_step' = 1 /\ out' = Program[1].send
        /\ out' \in Seq(Units) /\ Len(out') = 1 /\ IsTest(out'[1])
    <3> DEFINE n == 1
    <3>1. n \in 1 .. WStep - 1 /\ StartStep(n) /\ ~(n > Len(Program)) /\ n = 1
      BY <1>1, <1>2, <1>6, ProgramFacts
    <3> HIDE DEF n
    <3>2. host_pc' = "send" /\ host_step' = n /\ out' = Program[n].send
      BY <3>1 DEF StartStep
    <3>3. /\ Program[n].send \in Seq(Units) /\ Len(Program[n].send) = 1
          /\ IsTest(Program[n].send[1])
      BY <1>1, <3>1, ProgramFacts
    <3> QED
      BY <3>1, <3>2, <3>3
  <2>3. TypeOK'
    <3>1. 1 \in 0 .. Len(Program)
      BY <1>1, <1>6, ProgramFacts
    <3>2. HostTypeOK'
      BY <1>5, <2>2, <3>1 DEF HostTypeOK, Program, FillCartridge, TestConnection, RomWrite,
         StartRom
    <3> QED
      BY <1>2, <1>3, <1>5, <3>2 DEF TypeOK, DevTypeOK
  <2>4. TakesBlock /\ (usb_act => Len(usb_buf) < usb_need)
    BY <2>1 DEF Receiving, TakesBlock
  <2>5. Len(fifo') = 0 /\ \A k \in 1 .. Len(out') : IsTest(out'[k])
    BY <1>2, <2>1, <2>2
  <2> QED
    BY <1>2, <1>3, <1>10, <2>1, <2>2, <2>3, <2>4, <2>5
       DEF Interrupted, TakesBlock, IsTest, Running
<1> QED
  BY <1>8, <1>9, <1>10

\* A step that changes nothing.
LEMMA InStepStutters ==
  ASSUME TypeOK, NEW p \in Int, InStep(p), UNCHANGED vars
  PROVE  (\E q \in 0 - FifoCap .. StreamEnd : InStep(q))'
<1>1. /\ dev_pc' = dev_pc /\ cmd' = cmd /\ slen' = slen /\ addr' = addr /\ buff' = buff
      /\ usb_act' = usb_act /\ usb_need' = usb_need /\ usb_buf' = usb_buf /\ rom' = rom
      /\ fifo' = fifo /\ reply' = reply /\ host_pc' = host_pc /\ host_step' = host_step
      /\ out' = out /\ sessions' = sessions /\ Taken' = Taken /\ Sent' = Sent
  BY DEF vars, linkVars, devVars, loaderVars, engineVars, hostVars, Taken, Sent
<1>2. /\ At(p) /\ FillWhen(p) /\ MenuIs
      /\ Running => p = Taken /\ OutInv
      /\ ~Running => out = <<>>
  BY PartsOfInStep
<1>3. TypeOK'
  BY <1>1 DEF TypeOK, DevTypeOK, HostTypeOK
<1>4. OnTheWay(p)'
  BY <1>1, <1>2, LinkKept DEF At
<1>5. LoaderAt(p)'
  BY <1>1, <1>2 DEF At, LoaderAt, BetweenCommands, AtCommand, Receiving, InBuff, IsUnit, Loaded
<1>6. FillWhen(p)'
  <2>1. FillSure => FillSure'
    BY <1>1 DEF FillSure, FillPending, IsFill, Filled
  <2> QED
    BY <1>1, <1>2, <2>1 DEF FillWhen, Running
<1>7. MenuIs'
  BY <1>1, <1>2 DEF MenuIs, IsTest, Running
<1>8. (Running' => p = Taken' /\ OutInv') /\ (~Running' => out' = <<>>)
  BY <1>1, <1>2 DEF Running, OutInv, IsUnit
<1> QED
  BY <1>3, <1>4, <1>5, <1>6, <1>7, <1>8, WillBeInStep DEF At

-----------------------------------------------------------------------------
(***************************************************************************)
(* After a run that ended in the middle of a block.                        *)
(***************************************************************************)

\* The player.
LEMMA InterruptedPlayer ==
  ASSUME TypeOK, Interrupted, PlayerStep
  PROVE  TypeOK' /\ dev_pc' # "game" /\ Interrupted'
<1>1. /\ fifo' = fifo /\ reply' = reply /\ rom' = rom
      /\ cmd' = cmd /\ slen' = slen /\ addr' = addr /\ buff' = buff
      /\ usb_act' = usb_act /\ usb_need' = usb_need /\ usb_buf' = usb_buf
      /\ host_pc' = host_pc /\ host_step' = host_step /\ out' = out /\ sessions' = sessions
      /\ dev_pc' \in {"poll", "menu"}
  BY DEF PlayerStep, EnterLoader, LeaveLoader, loaderVars, engineVars, linkVars, hostVars
<1>2. TypeOK'
  BY <1>1 DEF TypeOK, DevTypeOK, HostTypeOK, DevPlaces
<1> QED
  BY <1>1, <1>2 DEF Interrupted, Running, IsTest

\* What Interrupted says of the host and of what is on its way.
OnlyTests ==
  /\ IF Running THEN host_step <= 1 /\ reply = <<>> ELSE out = <<>>
  /\ \A k \in 1 .. Len(fifo) : IsTest(fifo[k])
  /\ Len(out) <= 1 /\ \A k \in 1 .. Len(out) : IsTest(out[k])
  /\ host_pc # "send" => out = <<>>

\* Steps of the loader that take nothing off the link.
LEMMA InterruptedLoader ==
  ASSUME WholeImage, TypeOK, Interrupted, LoaderStep, UNCHANGED hostVars
  PROVE  TypeOK' /\ dev_pc' # "game" /\ Interrupted'
<1>1. /\ fifo' = fifo /\ reply' = reply
      /\ host_pc' = host_pc /\ host_step' = host_step /\ out' = out /\ sessions' = sessions
  BY DEF LoaderStep, Poll, ReadCommand, CommandRead, IgnoreCommand, StartGame, CmemFill,
     RomWriteStart, BlockRead, ReadNext, CopyBlock, RomWriteAborts, linkVars, hostVars
<1>2. OnlyTests'
  BY <1>1 DEF Interrupted, OnlyTests, Running, IsTest
<1>3. /\ Block \in Nat /\ Block >= 1 /\ RomUnits \in Nat /\ ImageUnits \in Nat
      /\ ImageUnits <= RomUnits /\ slen \in 0 .. RomUnits /\ addr \in 0 .. RomUnits
      /\ usb_buf \in Seq(Units) /\ Len(usb_buf) \in Nat /\ Len(usb_buf) <= Block
      /\ <<>> \in Seq(Units) /\ Len(<<>>) = 0 /\ slen \in Nat /\ addr \in Nat
      /\ buff \in Seq(Units)
  BY Constants, LenProperties DEF TypeOK, DevTypeOK
<1>4. dev_pc = "dispatch" => cmd.op = "t"
  BY KindsOfUnits, UnitsOf DEF Interrupted
<1>5. ~IgnoreCommand /\ ~StartGame /\ ~CmemFill /\ ~RomWriteStart
  BY <1>4 DEF IgnoreCommand, StartGame, CmemFill, RomWriteStart
<1>6. CASE Poll
  <2>1. /\ dev_pc' = "rdcmd" /\ cmd' = cmd /\ slen' = slen /\ addr' = addr /\ buff' = buff
        /\ usb_act' = usb_act /\ usb_need' = usb_need /\ usb_buf' = usb_buf /\ rom' = rom
    BY <1>6 DEF Poll, loaderVars, engineVars
  <2>2. TypeOK'
    BY <1>1, <2>1 DEF TypeOK, DevTypeOK, HostTypeOK, DevPlaces
  <2> QED
    BY <1>2, <2>1, <2>2 DEF Interrupted, OnlyTests
<1>7. CASE ReadCommand
  <2>1. /\ dev_pc' = "cmdwait" /\ cmd' = cmd /\ slen' = slen /\ addr' = addr /\ buff' = buff
        /\ usb_act' = TRUE /\ usb_need' = 1 /\ usb_buf' = <<>> /\ rom' = rom
    BY <1>7 DEF ReadCommand, StartRead, loaderVars
  <2>2. TypeOK'
    BY <1>1, <1>3, <2>1 DEF TypeOK, DevTypeOK, HostTypeOK, DevPlaces
  <2> QED
    BY <1>2, <2>1, <2>2 DEF Interrupted, OnlyTests
<1>8. CASE CommandRead
  <2>1. /\ dev_pc = "cmdwait" /\ ~usb_act
        /\ dev_pc' = "dispatch" /\ cmd' = usb_buf[1] /\ slen' = slen /\ addr' = addr
        /\ buff' = buff
        /\ usb_act' = usb_act /\ usb_need' = usb_need /\ usb_buf' = usb_buf /\ rom' = rom
    BY <1>8 DEF CommandRead, engineVars
  <2>2. IsTest(usb_buf[1]) /\ Len(usb_buf) = 1
    BY <2>1 DEF Interrupted
  <2>3. TypeOK'
    <3>1. usb_buf[1] \in Units
      BY <1>3, <2>2
    <3> QED
      BY <1>1, <2>1, <3>1 DEF TypeOK, DevTypeOK, HostTypeOK, DevPlaces
  <2> QED
    BY <1>2, <2>1, <2>2, <2>3 DEF Interrupted, OnlyTests, IsTest
<1>9. CASE BlockRead
  <2>1. /\ dev_pc = "rdend" /\ ~usb_act
        /\ dev_pc' = "rdnext" /\ cmd' = cmd /\ slen' = slen - 1 /\ addr' = addr
        /\ buff' = usb_buf
        /\ usb_act' = usb_act /\ usb_need' = usb_need /\ usb_buf' = usb_buf /\ rom' = rom
    BY <1>9 DEF BlockRead, engineVars
  <2>2. slen # 0 /\ slen * Block = ImageUnits - addr /\ TakesBlock
    BY <2>1 DEF Interrupted
  <2>3. slen - 1 \in 0 .. RomUnits /\ Len(usb_buf) = Block
    BY <1>3, <2>1, <2>2 DEF TakesBlock
  <2>4. (slen - 1) * Block = ImageUnits - addr - Block
    BY <1>3, <2>2, OneBlockLess
  <2>5. TypeOK'
    BY <1>1, <2>1, <2>3, <1>3 DEF TypeOK, DevTypeOK, HostTypeOK, DevPlaces
  <2> QED
    BY <1>2, <2>1, <2>3, <2>4, <2>5 DEF Interrupted, OnlyTests
<1>10. CASE ReadNext
  <2>1. /\ dev_pc = "rdnext" /\ dev_pc' = "copy"
        /\ cmd' = cmd /\ slen' = slen /\ addr' = addr /\ buff' = buff /\ rom' = rom
        /\ slen # 0 => usb_act' = TRUE /\ usb_need' = Block /\ usb_buf' = <<>>
        /\ slen = 0 => usb_act' = usb_act /\ usb_need' = usb_need /\ usb_buf' = usb_buf
    BY <1>10 DEF ReadNext, StartRead, loaderVars, engineVars
  <2>2. slen * Block = ImageUnits - addr - Block /\ Len(buff) = Block /\ ~usb_act
    BY <2>1 DEF Interrupted
  <2>3. TypeOK'
    <3>1. usb_act' \in BOOLEAN /\ usb_need' \in 0 .. Block /\ usb_buf' \in Seq(Units)
          /\ Len(usb_buf') <= Block
      <4>1. CASE slen = 0
        BY <2>1, <4>1 DEF TypeOK, DevTypeOK
      <4>2. CASE slen # 0
        BY <1>3, <2>1, <4>2
      <4> QED
        BY <4>1, <4>2
    <3> QED
      BY <1>1, <2>1, <3>1 DEF TypeOK, DevTypeOK, HostTypeOK, DevPlaces
  <2>4. slen # 0 => TakesBlock'
    BY <1>3, <2>1 DEF TakesBlock
  <2>5. usb_act' => Len(usb_buf') < usb_need'
    <3>1. CASE slen = 0
      BY <2>1, <2>2, <3>1
    <3>2. CASE slen # 0
      <4>1. Len(usb_buf') = 0 /\ usb_need' = Block
        BY <1>3, <2>1, <3>2
      <4> QED
        BY <1>3, <4>1
    <3> QED
      BY <3>1, <3>2
  <2> QED
    BY <1>2, <2>1, <2>2, <2>3, <2>4, <2>5 DEF Interrupted, OnlyTests
<1>11. CASE CopyBlock
  <2>1. /\ dev_pc = "copy" /\ dev_pc' = IF slen = 0 THEN "poll" ELSE "rdend"
        /\ cmd' = cmd /\ slen' = slen /\ addr' = addr + Block /\ buff' = buff
        /\ usb_act' = usb_act /\ usb_need' = usb_need /\ usb_buf' = usb_buf
        /\ rom' = [a \in RomAddrs |->
             IF a \in addr .. addr + Block - 1 THEN buff[a - addr + 1] ELSE rom[a]]
    BY <1>11 DEF CopyBlock, engineVars
  <2>2. /\ slen * Block = ImageUnits - addr - Block /\ Len(buff) = Block
        /\ slen # 0 => TakesBlock
    BY <2>1 DEF Interrupted
  <2>3. slen * Block = ImageUnits - (addr + Block) /\ addr + Block \in 0 .. RomUnits
    <3> DEFINE rest == slen * Block
    <3>1. rest \in Nat /\ rest = ImageUnits - addr - Block
      BY <1>3, <2>2, OneBlockLess
    <3> HIDE DEF rest
    <3>2. rest = ImageUnits - (addr + Block) /\ addr + Block \in 0 .. RomUnits
      BY <1>3, <3>1
    <3> QED
      BY <3>2 DEF rest
  <2>4. rom' \in [RomAddrs -> Units]
    <3>1. ASSUME NEW a \in RomAddrs, a \in addr .. addr + Block - 1
          PROVE  buff[a - addr + 1] \in Units
      <4>1. a - addr + 1 \in 1 .. Len(buff)
        BY <1>3, <2>2, <3>1
      <4> QED
        BY <1>3, <4>1
    <3>2. rom \in [RomAddrs -> Units]
      BY DEF TypeOK, DevTypeOK
    <3> QED
      BY <2>1, <3>1, <3>2
  <2>5. TypeOK'
    BY <1>1, <2>1, <2>3, <2>4 DEF TypeOK, DevTypeOK, HostTypeOK, DevPlaces
  <2>6. usb_act' => Len(usb_buf') < usb_need'
    BY <2>1 DEF Interrupted
  <2> QED
    BY <1>2, <2>1, <2>2, <2>3, <2>5, <2>6 DEF Interrupted, OnlyTests, TakesBlock
<1>12. CASE RomWriteAborts
  <2>1. /\ dev_pc = "abort" /\ dev_pc' = "poll"
        /\ cmd' = cmd /\ slen' = slen /\ addr' = addr /\ buff' = buff /\ rom' = rom
        /\ slen # 0 => usb_act' = TRUE /\ usb_need' = Block /\ usb_buf' = <<>>
        /\ slen = 0 => usb_act' = usb_act /\ usb_need' = usb_need /\ usb_buf' = usb_buf
    BY <1>12 DEF RomWriteAborts, StartRead, loaderVars, engineVars
  <2>2. TypeOK'
    <3>1. usb_act' \in BOOLEAN /\ usb_need' \in 0 .. Block /\ usb_buf' \in Seq(Units)
          /\ Len(usb_buf') <= Block
      <4>1. CASE slen = 0
        BY <2>1, <4>1 DEF TypeOK, DevTypeOK
      <4>2. CASE slen # 0
        BY <1>3, <2>1, <4>2
      <4> QED
        BY <4>1, <4>2
    <3> QED
      BY <1>1, <2>1, <3>1 DEF TypeOK, DevTypeOK, HostTypeOK, DevPlaces
  <2>3. usb_act' => Len(usb_buf') < usb_need'
    <3>1. CASE slen = 0
      <4>1. usb_act => Len(usb_buf) < usb_need
        BY DEF Interrupted
      <4> QED
        BY <2>1, <3>1, <4>1
    <3>2. CASE slen # 0
      <4>1. Len(usb_buf') = 0 /\ usb_need' = Block
        BY <1>3, <2>1, <3>2
      <4> QED
        BY <1>3, <4>1
    <3> QED
      BY <3>1, <3>2
  <2> QED
    BY <1>2, <2>1, <2>2, <2>3 DEF Interrupted, OnlyTests
<1> QED
  BY <1>5, <1>6, <1>7, <1>8, <1>9, <1>10, <1>11, <1>12 DEF LoaderStep

\* The engine takes a unit, which is a test.
LEMMA InterruptedEngine ==
  ASSUME TypeOK, Interrupted, EngineReceives, UNCHANGED hostVars
  PROVE  TypeOK' /\ dev_pc' = dev_pc /\ Interrupted'
<1>1. /\ usb_act /\ fifo # <<>>
      /\ usb_buf' = Append(usb_buf, Head(fifo)) /\ fifo' = Tail(fifo)
      /\ usb_act' = (Len(usb_buf) + 1 < usb_need)
      /\ usb_need' = usb_need /\ dev_pc' = dev_pc /\ reply' = reply
      /\ cmd' = cmd /\ slen' = slen /\ addr' = addr /\ buff' = buff /\ rom' = rom
      /\ host_pc' = host_pc /\ host_step' = host_step /\ out' = out /\ sessions' = sessions
  BY DEF EngineReceives, loaderVars, hostVars
<1>2. /\ fifo \in Seq(Units) /\ usb_buf \in Seq(Units) /\ Len(fifo) <= FifoCap
      /\ usb_need \in Nat /\ usb_need <= Block /\ Block \in Nat /\ FifoCap \in Nat
  BY Constants DEF TypeOK, DevTypeOK
<1>3. /\ Head(fifo) = fifo[1] /\ Head(fifo) \in Units
      /\ fifo' \in Seq(Units) /\ Len(fifo') = Len(fifo) - 1
      /\ Len(fifo) \in Nat /\ Len(fifo) >= 1
      /\ \A i \in 1 .. Len(fifo) - 1 : fifo'[i] = fifo[i + 1]
  BY <1>1, <1>2, FirstTaken
<1>4. /\ usb_buf' \in Seq(Units) /\ Len(usb_buf') = Len(usb_buf) + 1 /\ Len(usb_buf) \in Nat
      /\ usb_buf = <<>> => usb_buf'[1] = fifo[1]
  BY <1>1, <1>2, <1>3, LastAdded
<1>5. /\ Len(usb_buf) < usb_need /\ \A k \in 1 .. Len(fifo) : IsTest(fifo[k])
  BY <1>1 DEF Interrupted
<1>6. TypeOK'
  <2>1. Len(usb_buf') <= Block /\ Len(fifo') <= FifoCap /\ usb_act' \in BOOLEAN
    BY <1>1, <1>2, <1>3, <1>4, <1>5
  <2> QED
    BY <1>1, <1>3, <1>4, <2>1 DEF TypeOK, DevTypeOK, HostTypeOK
<1>7. OnlyTests'
  <2>1. ASSUME NEW k \in 1 .. Len(fifo') PROVE IsTest(fifo'[k])
    <3>1. k \in 1 .. Len(fifo) - 1 /\ k + 1 \in 1 .. Len(fifo)
      BY <1>3
    <3>2. fifo'[k] = fifo[k + 1]
      BY <1>3, <3>1
    <3> QED
      BY <1>5, <3>1, <3>2
  <2> QED
    BY <1>1, <2>1 DEF Interrupted, OnlyTests, Running, IsTest
<1>8. usb_act' => Len(usb_buf') < usb_need'
  BY <1>1, <1>4
<1>9. dev_pc = "cmdwait" => ~usb_act' /\ Len(usb_buf') = 1 /\ IsTest(usb_buf'[1])
  <2> SUFFICES ASSUME dev_pc = "cmdwait"
               PROVE  ~usb_act' /\ Len(usb_buf') = 1 /\ IsTest(usb_buf'[1])
    OBVIOUS
  <2>1. usb_need = 1 /\ usb_buf = <<>>
    BY <1>1 DEF Interrupted
  <2>2. IsTest(fifo[1])
    BY <1>3, <1>5
  <2>3. Len(usb_buf) = 0 /\ Len(usb_buf') = 1
    BY <1>4, <2>1
  <2>4. ~(Len(usb_buf) + 1 < usb_need)
    BY <2>1, <2>3
  <2> QED
    BY <1>1, <1>4, <2>1, <2>2, <2>3, <2>4
<1>10. TakesBlock => TakesBlock'
  BY <1>1, <1>2, <1>4 DEF TakesBlock
<1> QED
  BY <1>1, <1>6, <1>7, <1>8, <1>9, <1>10 DEF Interrupted, OnlyTests, IsTest

\* The first test that was read as a command is answered: the console is in
\* step again.
LEMMA InterruptedEnds ==
  ASSUME WholeImage, TypeOK, Interrupted, AnswerTest(Listening), UNCHANGED hostVars
  PROVE  TypeOK' /\ dev_pc' # "game" /\ (\E q \in 0 - FifoCap .. StreamEnd : InStep(q))'
<1>1. /\ dev_pc = "dispatch" /\ dev_pc' = "poll" /\ fifo' = fifo
      /\ cmd' = cmd /\ slen' = slen /\ addr' = addr /\ buff' = buff
      /\ usb_act' = FALSE /\ usb_need' = 0 /\ usb_buf' = <<>> /\ rom' = rom
      /\ host_pc' = host_pc /\ host_step' = host_step /\ out' = out /\ sessions' = sessions
      /\ Sent' = Sent /\ Taken' = Taken
  BY DEF AnswerTest, StopEngine, loaderVars, hostVars, Sent, Taken
<1>2. reply' \in Seq({"r"})
  <2>1. reply \in Seq({"r"}) /\ "r" \in {"r"}
    BY DEF TypeOK
  <2> QED
    BY <2>1, LastAdded DEF AnswerTest
<1>3. TypeOK'
  <2>1. 0 \in 0 .. Block /\ <<>> \in Seq(Units) /\ Len(<<>>) <= Block
    BY Constants
  <2> QED
    BY <1>1, <1>2, <2>1 DEF TypeOK, DevTypeOK, HostTypeOK, DevPlaces
<1>4. OnlyTests
  BY DEF Interrupted, OnlyTests
<1>5. PICK q \in Int :
        OnTheWay(q) /\ q <= 0 /\ q + Len(fifo) = 0 /\ (host_step <= 1 => q = Taken)
  <2> DEFINE n == 0 - Len(fifo)
  <2>1. /\ OnTheWay(n) /\ n \in Int /\ n <= 0 /\ n + Len(fifo) = 0
        /\ host_step <= 1 => n = Taken
    BY <1>4, BeforeStream DEF OnlyTests
  <2> HIDE DEF n
  <2> QED
    BY <2>1
<1>6. OnTheWay(q)'
  BY <1>1, <1>5, LinkKept
<1>7. LoaderAt(q)'
  <2>1. ~(q >= ImageUnits + 1)
    BY <1>5, Constants
  <2> QED
    BY <1>1, <1>5, <2>1 DEF LoaderAt, BetweenCommands
<1>8. host_step \in Nat /\ WStep \in Nat /\ WStep >= 2
  BY ProgramFacts DEF TypeOK, HostTypeOK
<1>9. FillWhen(q)'
  BY <1>1, <1>4, <1>5, <1>8 DEF FillWhen, Running, OnlyTests
<1>10. MenuIs'
  BY <1>1 DEF MenuIs
<1>11. Running => OutInv
  <2> SUFFICES ASSUME Running PROVE OutInv
    OBVIOUS
  <2>1. host_step < WStep /\ ~(host_step >= WStep)
    BY <1>4, <1>8 DEF OnlyTests
  <2>2. \A u : IsTest(u) => EarlyCommand(u)
    BY UnitsOf
  <2> QED
    BY <1>4, <2>1, <2>2 DEF OutInv, OnlyTests
<1>12. (Running' => q = Taken' /\ OutInv') /\ (~Running' => out' = <<>>)
  BY <1>1, <1>4, <1>5, <1>11 DEF Running, OutInv, OnlyTests, IsUnit
<1> QED
  BY <1>1, <1>3, <1>5, <1>6, <1>7, <1>9, <1>10, <1>12, WillBeInStep DEF At

\* A wait ends without a unit.
LEMMA InterruptedStarves ==
  ASSUME TypeOK, Interrupted, DeviceTimeout
  PROVE  TypeOK' /\ dev_pc' # "game" /\ Interrupted'
<1>1. /\ dev_pc \in {"cmdwait", "rdend"}
      /\ usb_act' = FALSE /\ usb_need' = 0 /\ usb_buf' = <<>>
      /\ slen' = IF dev_pc = "rdend" THEN slen - 1 ELSE slen
      /\ dev_pc' \in {"abort", "poll"}
      /\ cmd' = cmd /\ addr' = addr /\ buff' = buff /\ rom' = rom /\ fifo' = fifo
      /\ reply' = reply
      /\ host_pc' = host_pc /\ host_step' = host_step /\ out' = out /\ sessions' = sessions
  BY DEF DeviceTimeout, BusyTimeout, StopEngine, linkVars, hostVars
<1>2. slen' \in 0 .. RomUnits
  <2>1. dev_pc = "rdend" => slen # 0
    BY DEF Interrupted
  <2> QED
    BY <1>1, <2>1, Constants DEF TypeOK, DevTypeOK
<1>3. TypeOK'
  <2>1. 0 \in 0 .. Block /\ <<>> \in Seq(Units) /\ Len(<<>>) <= Block
    BY Constants
  <2> QED
    BY <1>1, <1>2, <2>1 DEF TypeOK, DevTypeOK, HostTypeOK, DevPlaces
<1> QED
  BY <1>1, <1>3 DEF Interrupted, Running, IsTest

\* The host: it sends tests, and gets no answer.
LEMMA InterruptedHost ==
  ASSUME Rerunnable, TypeOK, HostPlace, Interrupted, UNCHANGED devVars, NEW pending,
         HostStep \/ HostTimesOut(pending) \/ HostStopped \/ Connect(pending)
  PROVE  TypeOK' /\ Interrupted'
<1>1. /\ dev_pc' = dev_pc /\ cmd' = cmd /\ slen' = slen /\ addr' = addr /\ buff' = buff
      /\ usb_act' = usb_act /\ usb_need' = usb_need /\ usb_buf' = usb_buf /\ rom' = rom
  BY DEF devVars, loaderVars, engineVars
<1>2. OnlyTests /\ WholeImage /\ StaleAnswers = FALSE
  BY DEF Interrupted, OnlyTests, Rerunnable
<1>3. /\ fifo \in Seq(Units) /\ out \in Seq(Units) /\ reply \in Seq({"r"})
      /\ Len(fifo) <= FifoCap /\ host_step \in 0 .. Len(Program)
      /\ host_pc \in {"off", "send", "recv", "done", "failed"}
      /\ sessions \in 0 .. MaxSessions /\ MaxSessions \in Nat /\ FifoCap \in Nat
      /\ <<>> \in Seq(Units) /\ <<>> \in Seq({"r"}) /\ Len(<<>>) = 0 /\ Len(out) \in Nat
      /\ Len(fifo) \in Nat
  BY Constants, LenProperties DEF TypeOK, HostTypeOK
<1>4. /\ WStep \in Nat /\ WStep >= 2 /\ Len(Program) = WStep + 1 /\ Program[1].answered
      /\ Program[1].send \in Seq(Units) /\ Len(Program[1].send) = 1
      /\ IsTest(Program[1].send[1])
  <2>1. WStep \in Nat /\ WStep >= 2 /\ 1 \in 1 .. WStep - 1
    BY <1>2, ProgramFacts
  <2> QED
    BY <1>2, <2>1, ProgramFacts
<1>5. ASSUME /\ fifo' \in Seq(Units) /\ Len(fifo') <= FifoCap /\ reply' \in Seq({"r"})
             /\ HostTypeOK' /\ OnlyTests'
      PROVE  TypeOK' /\ Interrupted'
  <2>1. TypeOK'
    BY <1>1, <1>5 DEF TypeOK, DevTypeOK
  <2> QED
    BY <1>1, <1>5, <2>1 DEF Interrupted, OnlyTests, TakesBlock, IsTest
<1>6. CASE HostStep
  <2>1. Listening /\ Running /\ host_step = 1 /\ reply = <<>>
    BY <1>2, <1>3, <1>6 DEF HostStep, HostWrites, HostWritten, HostReceives, Listening, Running,
       OnlyTests, HostPlace
  <2>2. CASE HostWrites
    <3>1. /\ host_pc = "send" /\ out # <<>> /\ Len(fifo) < FifoCap
          /\ fifo' = Append(fifo, Head(out)) /\ out' = Tail(out)
          /\ reply' = reply /\ host_pc' = host_pc /\ host_step' = host_step
          /\ sessions' = sessions
      BY <2>2 DEF HostWrites
    <3>2. /\ Head(out) = out[1] /\ Head(out) \in Units
          /\ out' \in Seq(Units) /\ Len(out') = Len(out) - 1
          /\ Len(out) \in Nat /\ Len(out) >= 1
      BY <1>3, <3>1, FirstTaken
    <3>3. /\ fifo' \in Seq(Units) /\ Len(fifo') = Len(fifo) + 1 /\ Len(fifo) \in Nat
          /\ \A i \in 1 .. Len(fifo) : fifo'[i] = fifo[i]
          /\ fifo'[Len(fifo) + 1] = out[1]
      BY <1>3, <3>1, <3>2, LastAdded
    <3>4. Len(out) <= 1 /\ IsTest(out[1]) /\ \A k \in 1 .. Len(fifo) : IsTest(fifo[k])
      BY <1>2, <3>2 DEF OnlyTests
    <3>5. \A k \in 1 .. Len(fifo') : IsTest(fifo'[k])
      BY <3>3, <3>4
    <3>6. Len(fifo') <= FifoCap /\ Len(out') = 0
      BY <1>3, <3>1, <3>2, <3>3, <3>4
    <3>7. HostTypeOK'
      BY <1>3, <3>1, <3>2 DEF HostTypeOK, Program, FillCartridge, TestConnection, RomWrite,
         StartRom
    <3>8. OnlyTests'
      <4>1. Len(out') <= 1 /\ \A k \in 1 .. Len(out') : IsTest(out'[k])
        BY <3>6
      <4> QED
        BY <2>1, <3>1, <3>5, <4>1 DEF OnlyTests, Running, IsTest
    <3> QED
      BY <1>3, <1>5, <3>1, <3>3, <3>6, <3>7, <3>8
  <2>3. CASE HostWritten
    <3>1. /\ out = <<>> /\ fifo' = fifo /\ reply' = reply /\ sessions' = sessions
          /\ host_pc' = "recv" /\ host_step' = host_step /\ out' = out
      BY <1>4, <2>1, <2>3 DEF HostWritten, linkVars
    <3>2. HostTypeOK'
      BY <1>3, <3>1 DEF HostTypeOK, Program, FillCartridge, TestConnection, RomWrite, StartRom
    <3>3. OnlyTests'
      BY <1>2, <2>1, <3>1 DEF OnlyTests, Running, IsTest
    <3> QED
      BY <1>3, <1>5, <3>1, <3>2, <3>3
  <2>4. CASE HostReceives
    BY <2>1, <2>4 DEF HostReceives
  <2> QED
    BY <1>6, <2>2, <2>3, <2>4 DEF HostStep
<1>7. CASE HostTimesOut(pending) \/ HostStopped
  <2>1. /\ fifo' = fifo /\ reply' = reply /\ host_step' = host_step /\ sessions' = sessions
        /\ host_pc' = "failed" /\ out' = <<>>
    BY <1>7 DEF HostTimesOut, HostStopped, linkVars
  <2>2. HostTypeOK'
    BY <1>3, <2>1 DEF HostTypeOK, Program, FillCartridge, TestConnection, RomWrite, StartRom
  <2>3. OnlyTests'
    BY <1>2, <1>3, <2>1 DEF OnlyTests, Running, IsTest
  <2> QED
    BY <1>3, <1>5, <2>1, <2>2, <2>3
<1>8. CASE Connect(pending)
  <2>1. /\ sessions < MaxSessions /\ sessions' = sessions + 1 /\ StartStep(1)
        /\ reply' = <<>> /\ fifo' = fifo
    BY <1>2, <1>8 DEF Connect
  <2> DEFINE n == 1
  <2>2. StartStep(n) /\ ~(n > Len(Program)) /\ n = 1
    BY <1>4, <2>1
  <2> HIDE DEF n
  <2>3. host_pc' = "send" /\ host_step' = 1 /\ out' = Program[1].send
    BY <2>2 DEF StartStep
  <2>4. HostTypeOK'
    <3>1. 1 \in 0 .. Len(Program) /\ sessions' \in 0 .. MaxSessions
      BY <1>3, <1>4, <2>1
    <3> QED
      BY <1>4, <2>3, <3>1 DEF HostTypeOK, Program, FillCartridge, TestConnection, RomWrite,
         StartRom
  <2>5. OnlyTests'
    <3>1. Len(out') = 1 /\ \A k \in 1 .. Len(out') : IsTest(out'[k])
      BY <1>4, <2>3
    <3> QED
      BY <1>2, <2>1, <2>3, <3>1 DEF OnlyTests, Running, IsTest
  <2> QED
    BY <1>3, <1>5, <2>1, <2>4, <2>5
<1> QED
  BY <1>6, <1>7, <1>8

\* One step per action.
LEMMA RerunInvStep ==
  ASSUME Rerunnable, RerunInv, [Next]_vars
  PROVE  RerunInv'
<1>1. TypeOK /\ HostPlace /\ WholeImage
  BY DEF RerunInv, Rerunnable
<1>2. HostPlace'
  BY <1>1, HostPlaceKept
<1>3. CASE dev_pc = "game"
  <2>1. ~usb_act /\ ImageInRom
    BY <1>3 DEF RerunInv
  <2>2. TypeOK' /\ UNCHANGED devVars
    BY <1>1, <1>3, <2>1, GameStays
  <2> QED
    BY <1>2, <1>3, <2>1, <2>2 DEF RerunInv, ImageInRom, devVars, engineVars
<1>4. ASSUME dev_pc # "game", NEW p \in 0 - FifoCap .. StreamEnd, InStep(p)
      PROVE  RerunInv'
  <2>1. p \in Int
    BY Constants DEF StreamEnd
  <2>2. CASE PlayerStep
    BY <1>1, <1>2, <1>4, <2>1, <2>2, InStepPlayer DEF RerunInv
  <2>3. CASE DeviceStep
    BY <1>1, <1>2, <1>4, <2>1, <2>3, InStepDevice DEF RerunInv
  <2>4. CASE DeviceTimeout
    BY <1>1, <1>2, <1>4, <2>1, <2>4, InStepStarves DEF RerunInv
  <2>5. CASE HostProgress
    <3>1. UNCHANGED devVars /\ dev_pc' # "game"
      BY <1>4, <2>5 DEF HostProgress, devVars
    <3>2. CASE HostStep
      BY <1>1, <1>2, <1>4, <2>1, <3>1, <3>2, InStepHost DEF RerunInv
    <3>3. CASE Connect(DevicePending)
      BY <1>1, <1>2, <1>4, <2>1, <3>1, <3>3, InStepConnect DEF RerunInv
    <3> QED
      BY <2>5, <3>2, <3>3 DEF HostProgress
  <2>6. CASE HostTimeout \/ HostAbort
    <3>1. UNCHANGED devVars /\ dev_pc' # "game"
      BY <1>4, <2>6 DEF HostTimeout, HostAbort, devVars
    <3> QED
      BY <1>1, <1>2, <1>4, <2>1, <2>6, <3>1, InStepEnds DEF HostTimeout, HostAbort, RerunInv
  <2>7. CASE UNCHANGED vars
    <3>1. dev_pc' # "game" /\ TypeOK'
      BY <1>1, <1>4, <2>7 DEF vars, linkVars, devVars, loaderVars, engineVars, hostVars,
         TypeOK, DevTypeOK, HostTypeOK
    <3> QED
      BY <1>1, <1>2, <1>4, <2>1, <2>7, <3>1, InStepStutters DEF RerunInv
  <2> QED
    BY <2>2, <2>3, <2>4, <2>5, <2>6, <2>7 DEF Next
<1>5. ASSUME dev_pc # "game", Interrupted
      PROVE  RerunInv'
  <2>1. CASE PlayerStep
    BY <1>1, <1>2, <1>5, <2>1, InterruptedPlayer DEF RerunInv
  <2>2. CASE DeviceStep
    <3>1. UNCHANGED hostVars
      BY <2>2 DEF DeviceStep
    <3>2. CASE LoaderStep
      BY <1>1, <1>2, <1>5, <3>1, <3>2, InterruptedLoader DEF RerunInv
    <3>3. CASE EngineReceives
      BY <1>1, <1>2, <1>5, <3>1, <3>3, InterruptedEngine DEF RerunInv
    <3>4. CASE AnswerTest(Listening)
      BY <1>1, <1>2, <1>5, <3>1, <3>4, InterruptedEnds DEF RerunInv
    <3> QED
      BY <2>2, <3>2, <3>3, <3>4 DEF DeviceStep
  <2>3. CASE DeviceTimeout
    BY <1>1, <1>2, <1>5, <2>3, InterruptedStarves DEF RerunInv
  <2>4. CASE HostProgress \/ HostTimeout \/ HostAbort
    <3>1. UNCHANGED devVars /\ dev_pc' # "game"
      BY <1>5, <2>4 DEF HostProgress, HostTimeout, HostAbort, devVars
    <3> QED
      BY <1>1, <1>2, <1>5, <2>4, <3>1, InterruptedHost
         DEF HostProgress, HostTimeout, HostAbort, RerunInv
  <2>5. CASE UNCHANGED vars
    <3>1. /\ dev_pc' = dev_pc /\ cmd' = cmd /\ slen' = slen /\ addr' = addr /\ buff' = buff
          /\ usb_act' = usb_act /\ usb_need' = usb_need /\ usb_buf' = usb_buf /\ rom' = rom
          /\ fifo' = fifo /\ reply' = reply /\ host_pc' = host_pc /\ host_step' = host_step
          /\ out' = out /\ sessions' = sessions
      BY <2>5 DEF vars, linkVars, devVars, loaderVars, engineVars, hostVars
    <3>2. TypeOK'
      BY <1>1, <3>1 DEF TypeOK, DevTypeOK, HostTypeOK
    <3>3. Interrupted'
      BY <1>5, <3>1 DEF Interrupted, TakesBlock, IsTest, Running
    <3> QED
      BY <1>2, <1>5, <3>1, <3>2, <3>3 DEF RerunInv
  <2> QED
    BY <2>1, <2>2, <2>3, <2>4, <2>5 DEF Next
<1> QED
  BY <1>3, <1>4, <1>5 DEF RerunInv

\* The same place of the console, seen from the beginning.
LEMMA RerunInvInit ==
  ASSUME Rerunnable, Init
  PROVE  RerunInv
<1>1. /\ TypeOK /\ OnTheWay(0) /\ OutInv /\ LoaderAt(0)
      /\ dev_pc = "menu" /\ fifo = <<>> /\ out = <<>> /\ host_pc = "off"
  BY Beginning DEF Rerunnable
<1>2. HostPlace
  BY <1>1 DEF HostPlace, Running
<1> DEFINE p == 0
<1>3. Len(fifo) = 0 /\ ~(p + Len(fifo) >= 1)
  BY <1>1
<1>4. InStep(p)
  BY <1>1, <1>3 DEF InStep, Running
<1>5. p \in 0 - FifoCap .. StreamEnd
  BY Constants DEF StreamEnd
<1> HIDE DEF p
<1> QED
  BY <1>1, <1>2, <1>4, <1>5 DEF RerunInv

\* However often the program is stopped, gives up and is run again, the console
\* is in step with it, or takes nothing but tests until it is.
THEOREM RerunIsInOrder ==
  ASSUME Rerunnable
  PROVE  Spec => []RerunInv
<1>1. Init => RerunInv
  BY RerunInvInit
<1>2. RerunInv /\ [Next]_vars => RerunInv'
  BY RerunInvStep
<1> QED
  BY <1>1, <1>2, PTL DEF Spec

\* So no run starts a game that was not transferred completely, whatever became
\* of the runs before it (UsbSystem's BootsWholeImage).
THEOREM RerunsBootWholeImages ==
  ASSUME Rerunnable
  PROVE  Spec => []BootsWholeImage
<1>1. RerunInv => BootsWholeImage
  BY DEF RerunInv, BootsWholeImage
<1> QED
  BY <1>1, RerunIsInOrder, PTL

\* Nor is a part of an image taken for a command packet after a run that ended
\* in the middle of it.
THEOREM RerunCommandsAreCommands ==
  ASSUME Rerunnable
  PROVE  Spec => []NoDataAsCommand
<1>1. RerunInv => NoDataAsCommand
  <2> SUFFICES ASSUME RerunInv, dev_pc = "dispatch" PROVE cmd.kind # "data"
    BY DEF NoDataAsCommand
  <2>1. TypeOK /\ WholeImage
    BY DEF RerunInv, Rerunnable
  <2>2. CASE Interrupted
    <3>1. cmd = TCmd
      BY <2>1, <2>2, UnitsOf DEF Interrupted
    <3> QED
      BY <2>1, <3>1, KindsOfUnits
  <2>3. ASSUME NEW p \in 0 - FifoCap .. StreamEnd, InStep(p) PROVE cmd.kind # "data"
    <3>1. p \in Int
      BY Constants DEF StreamEnd
    <3>2. At(p)
      BY <2>1, <2>3, <3>1, PartsOfInStep
    <3>3. cmd \in {TCmd, CCmd, WCmd, SCmd}
      BY <2>1, <3>1, <3>2, AtDispatch
    <3> QED
      BY <2>1, <3>3, KindsOfUnits
  <2> QED
    BY <2>2, <2>3 DEF RerunInv
<1> QED
  BY <1>1, RerunIsInOrder, PTL
=============================================================================
