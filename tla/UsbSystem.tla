------------------------------ MODULE UsbSystem ------------------------------
(***************************************************************************)
(* The usb64 program and the console's USB loader together.                *)
(***************************************************************************)
EXTENDS XioUsb, Usb64Host

CONSTANTS
  HostStalls,    \* TRUE: the host may pause in a Write for longer than
                 \* bi_usb_busy waits
  HostAborts,    \* TRUE: the user may stop the program at any point
  PlayerLeaves   \* when the player may press B: "never", "quiet" (usb64 does not
                 \* run, and the console has taken all it has sent) or "any"

ASSUME SystemAssumption ==
  /\ HostStalls \in BOOLEAN /\ HostAborts \in BOOLEAN
  /\ PlayerLeaves \in {"never", "quiet", "any"}

vars == <<linkVars, devVars, hostVars>>

Init ==
  /\ fifo = <<>> /\ reply = <<>>
  /\ DevInit /\ HostInit

\* The console is going to take what is in the FIFO, or to answer it.
DevicePending ==
  /\ dev_pc \notin {"menu", "game"}
  /\ \/ fifo # <<>>
     \/ dev_pc \in {"dispatch", "rdnext", "copy", "abort"}
     \/ dev_pc \in {"cmdwait", "rdend"} /\ ~usb_act

\* A host in the middle of a Write keeps the engine fed, unless it stalls.
MayStarve == HostStalls \/ ~(host_pc = "send" /\ out # <<>>)

MayLeave ==
  \/ PlayerLeaves = "any"
  \/ PlayerLeaves = "quiet" /\ fifo = <<>> /\ ~Listening

PlayerStep ==
  /\ EnterLoader \/ (MayLeave /\ LeaveLoader)
  /\ UNCHANGED hostVars

DeviceStep ==
  /\ LoaderStep \/ EngineReceives \/ AnswerTest(Listening)
  /\ UNCHANGED hostVars

DeviceTimeout ==
  /\ BusyTimeout /\ MayStarve
  /\ UNCHANGED hostVars

HostProgress == (HostStep \/ Connect(DevicePending)) /\ UNCHANGED devVars

HostTimeout == HostTimesOut(DevicePending) /\ UNCHANGED devVars

HostAbort == HostAborts /\ HostStopped /\ UNCHANGED devVars

Next ==
  \/ PlayerStep \/ DeviceStep \/ DeviceTimeout
  \/ HostProgress \/ HostTimeout \/ HostAbort

Spec == Init /\ [][Next]_vars

\* The loader's loop runs on, the engine takes what is there, the host program
\* goes on writing, and the player starts the loader.
FairSpec ==
  Spec /\ WF_vars(EnterLoader /\ UNCHANGED hostVars) /\ WF_vars(DeviceStep)
       /\ WF_vars(DeviceTimeout) /\ WF_vars(HostStep /\ UNCHANGED devVars)
       /\ WF_vars(HostTimeout)

-----------------------------------------------------------------------------
(***************************************************************************)
(* Properties.                                                             *)
(***************************************************************************)

TypeOK ==
  /\ fifo \in Seq(Units) /\ Len(fifo) <= FifoCap
  /\ reply \in Seq({"r"})
  /\ DevTypeOK /\ HostTypeOK

\* The ROM holds the image, and the rest of the area the boot code checks holds
\* the fill value.
ImageInRom ==
  /\ \A i \in 0 .. ImageUnits - 1 : rom[i] = Data(i)
  /\ \A i \in ImageUnits .. CrcArea - 1 : rom[i] = Other("fill")

\* The console only starts a game that was transferred completely (usb64's
\* README.MD: "Starts the ROM written to the ED64's volatile memory").
BootsWholeImage == dev_pc = "game" => ImageInRom

\* usbCmdRomWR stores units of the image where they belong, although the engine
\* already receives the next block while one is copied.
RomHoldsImageOnly ==
  \A a \in RomAddrs : rom[a].kind \in {"old", "fill"} \/ rom[a] = Data(a)

\* The loader never takes a part of an image for a command packet.
NoDataAsCommand == dev_pc = "dispatch" => cmd.kind # "data"

\* While the loader waits for a command, the engine is idle: no unit can be
\* taken out of the FIFO behind its back.  What is left to receive, in the
\* engine and in the packets, is what the loader waits for.
EngineIdleBetweenCommands ==
  /\ TypeOK
  /\ dev_pc \in {"menu", "poll", "rdcmd", "dispatch"} => ~usb_act
  /\ dev_pc = "rdend" => slen # 0

(***************************************************************************)
(* The inductive strengthening of these four, for a system whose host      *)
(* neither stalls nor stops and whose player stays.                        *)
(***************************************************************************)

\* The last two steps of Program, as one sequence of units: 'W', the image,
\* 's', the file name.
WStep == Len(Program) - 1
Stream(p) ==
  IF p <= ImageUnits + 1 THEN RomWrite.send[p] ELSE StartRom.send[p - ImageUnits - 1]
StreamEnd == ImageUnits + 2 + NameUnits

\* Units of it that are written, and that the console has taken (less the
\* commands before them that it has not).
Sent ==
  CASE host_step < WStep -> 0
    [] host_step = WStep -> ImageUnits + 1 - Len(out)
    [] host_step > WStep -> StreamEnd - Len(out)
Taken == Sent - Len(fifo)

\* Commands that come before the stream.
IsTest(u) == u = Command("t", 0, 0)
EarlyCommand(u) == u \in {Command("t", 0, 0), Command("c", 0, Blocks(CrcArea))}
\* Unit p of all that is sent, counted as in Taken.
IsUnit(u, p) == IF p >= 1 THEN u = Stream(p) ELSE EarlyCommand(u)

\* What is on its way is the program, in order, from unit p + 1 on; what the
\* host still writes continues it.
OnTheWay(p) ==
  /\ p + Len(fifo) \in 0 .. StreamEnd
  /\ \A k \in 1 .. Len(fifo) : IsUnit(fifo[k], p + k)
OutInv ==
  /\ host_step >= WStep => \A k \in 1 .. Len(out) : IsUnit(out[k], Sent + k)
  /\ host_step < WStep =>
       /\ Len(out) <= 1
       /\ \A k \in 1 .. Len(out) :
            EarlyCommand(out[k]) /\ (Program[host_step].answered => IsTest(out[k]))
  /\ host_pc # "send" => out = <<>>
LinkInv ==
  /\ OnTheWay(Taken) /\ OutInv
  /\ host_pc \in {"off", "failed"} => host_step <= 1
  /\ dev_pc = "menu" => host_step <= 1 /\ reply = <<>>

\* The image is in the ROM up to unit a; the engine's buffer receives the block
\* at a, and the console has taken p units.
Loaded(a) == \A i \in 0 .. a - 1 : rom[i] = Data(i)
Receiving(a, p) ==
  /\ usb_need = Block /\ (usb_act <=> Len(usb_buf) < Block)
  /\ \A k \in 1 .. Len(usb_buf) : usb_buf[k] = Data(a + k - 1)
  /\ p - 1 = a + Len(usb_buf)
InBuff(a) == Len(buff) = Block /\ \A k \in 1 .. Block : buff[k] = Data(a + k - 1)

\* Between commands the console stands before the stream or after the image.
BetweenCommands(p) == ~usb_act /\ (p <= 0 \/ p = ImageUnits + 1)
AtCommand(u, p) == (p <= 1 \/ p = ImageUnits + 2) /\ IsUnit(u, p)

\* The loader does what unit p of the stream is for.
LoaderAt(p) ==
  /\ dev_pc \in {"menu", "poll", "rdcmd"} => BetweenCommands(p)
  /\ dev_pc \in {"rdcmd", "cmdwait"} /\ (usb_act \/ dev_pc = "rdcmd") => fifo # <<>>
  /\ dev_pc = "cmdwait" =>
       /\ usb_need = 1
       /\ usb_act => usb_buf = <<>> /\ (p <= 0 \/ p = ImageUnits + 1)
       /\ ~usb_act => Len(usb_buf) = 1 /\ AtCommand(usb_buf[1], p)
  /\ dev_pc = "dispatch" => ~usb_act /\ AtCommand(cmd, p)
  /\ dev_pc = "rdend" => slen # 0 /\ slen * Block = ImageUnits - addr /\ Receiving(addr, p)
  /\ dev_pc \in {"rdnext", "copy"} =>
       slen * Block = ImageUnits - addr - Block /\ InBuff(addr)
  /\ dev_pc = "rdnext" \/ (dev_pc = "copy" /\ slen = 0) =>
       ~usb_act /\ p - 1 = addr + Block
  /\ dev_pc = "copy" /\ slen # 0 => Receiving(addr + Block, p)
  /\ dev_pc \in {"rdend", "rdnext", "copy"} => Loaded(addr)
  /\ dev_pc \in {"poll", "rdcmd", "cmdwait", "dispatch"} /\ p >= ImageUnits + 1 =>
       Loaded(ImageUnits)
  /\ dev_pc # "abort"

\* A 'c' comes before the 'W' of its session, so that it cannot reach the image.
IsFill(u) == u.op = "c"
FillPending ==
  \/ \E k \in 1 .. Len(fifo) : IsFill(fifo[k])
  \/ \E k \in 1 .. Len(out) : IsFill(out[k])
  \/ dev_pc = "cmdwait" /\ ~usb_act /\ IsFill(usb_buf[1])
  \/ dev_pc = "dispatch" /\ IsFill(cmd)
Filled == \A i \in ImageUnits .. CrcArea - 1 : rom[i] = Other("fill")
FillInv == host_step >= 2 => FillPending \/ Filled

\* A test that the host waits for is answered, or is going to be.
TestPending ==
  \/ fifo # <<>> /\ IsTest(fifo[Len(fifo)])
  \/ /\ fifo = <<>>
     /\ \/ dev_pc = "cmdwait" /\ ~usb_act /\ IsTest(usb_buf[1])
        \/ dev_pc = "dispatch" /\ IsTest(cmd)
AwaitsAnswer ==
  host_pc = "recv" \/ (host_pc = "send" /\ out = <<>> /\ Program[host_step].answered)
AnswerInv == AwaitsAnswer => reply # <<>> \/ TestPending

LoadInv ==
  /\ TypeOK /\ RomHoldsImageOnly
  /\ dev_pc = "game" => ~usb_act /\ ImageInRom
  /\ dev_pc # "game" => LinkInv /\ LoaderAt(Taken) /\ FillInv /\ AnswerInv

(***************************************************************************)
(* The strengthening of BootsWholeImage for a host that may be stopped at  *)
(* any point, or give up, and be run again.                                *)
(***************************************************************************)

\* A run that has not ended early.
Running == host_pc \notin {"off", "failed"}
HostPlace ==
  /\ Running => host_step # 0
  /\ host_pc = "done" => host_step = Len(Program)

\* The console stands at unit p of what the run writes, or of what a run that
\* ended early has written.
InStep(p) ==
  /\ OnTheWay(p) /\ LoaderAt(p)
  /\ IF Running THEN p = Taken /\ OutInv ELSE out = <<>>
  /\ (Running /\ host_step >= 2) \/ p + Len(fifo) >= 1 => FillPending \/ Filled
  /\ dev_pc = "menu" =>
       /\ \A k \in 1 .. Len(fifo) : IsTest(fifo[k])
       /\ Running => host_step <= 1 /\ reply = <<>>

\* The engine receives a block, whatever it consists of.
TakesBlock == usb_need = Block /\ (usb_act <=> Len(usb_buf) < Block)

\* A run has ended in the middle of a block, and usbCmdRomWR or the engine may
\* still take what comes for the rest of it.  The runs since then have not got
\* an answer, so that all they have sent are tests; to read one as a command
\* starts the engine anew.
Interrupted ==
  /\ IF Running THEN host_step <= 1 /\ reply = <<>> ELSE out = <<>>
  /\ \A k \in 1 .. Len(fifo) : IsTest(fifo[k])
  /\ Len(out) <= 1 /\ \A k \in 1 .. Len(out) : IsTest(out[k])
  /\ host_pc # "send" => out = <<>>
  /\ usb_act => Len(usb_buf) < usb_need
  /\ dev_pc = "cmdwait" =>
       /\ usb_need = 1
       /\ usb_act => usb_buf = <<>>
       /\ ~usb_act => Len(usb_buf) = 1 /\ IsTest(usb_buf[1])
  /\ dev_pc = "dispatch" => IsTest(cmd)
  /\ dev_pc = "rdend" => slen # 0 /\ slen * Block = ImageUnits - addr /\ TakesBlock
  /\ dev_pc \in {"rdnext", "copy"} =>
       slen * Block = ImageUnits - addr - Block /\ Len(buff) = Block
  /\ dev_pc = "rdnext" => ~usb_act
  /\ dev_pc = "copy" /\ slen # 0 => TakesBlock

RerunInv ==
  /\ TypeOK /\ HostPlace
  /\ dev_pc = "game" => ~usb_act /\ ImageInRom
  /\ dev_pc # "game" => Interrupted \/ \E p \in 0 - FifoCap .. StreamEnd : InStep(p)

\* The program is reported missing only when the loader does not run
\* (UsbInterface.cs:111).
NotFoundMeansAbsent ==
  [][HostTimeout /\ host_step = 1 => dev_pc \in {"menu", "game"}]_vars

\* Once the program runs and the loader too, the game is finally started.
GameStarts == (Listening /\ dev_pc = "poll") ~> (dev_pc = "game")
=============================================================================
