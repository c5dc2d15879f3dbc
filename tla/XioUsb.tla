-------------------------------- MODULE XioUsb --------------------------------
(***************************************************************************)
(* The USB loader of the console: usbLoadGame and its commands             *)
(* (ED64-XIO/ff/usb.c) on top of the bi_usb_* functions (src/bios.c), and  *)
(* the FPGA's receive engine that fills its 512-byte buffer while the CPU  *)
(* does something else.                                                    *)
(***************************************************************************)
EXTENDS UsbLink

VARIABLES
  dev_pc,    \* where the loader stands
  cmd,       \* the command being served
  slen,      \* blocks of it still to be received
  addr,      \* where the next block goes
  buff,      \* the CPU's copy of a block
  usb_act,   \* USB_STA_ACT: the engine is receiving
  usb_need,  \* units it was asked for
  usb_buf,   \* units it has received into the FPGA's buffer
  rom        \* the cartridge ROM

engineVars == <<usb_act, usb_need, usb_buf>>
loaderVars == <<cmd, slen, addr, buff>>
devVars == <<dev_pc, loaderVars, engineVars, rom>>

DevPlaces == {
  "menu",     \* not in the USB loader
  "poll",     \* bi_usb_can_rd in the main loop
  "rdcmd",    \* about to start reading a packet
  "cmdwait",  \* bi_usb_busy for it
  "dispatch", \* the packet is in cmd
  "rdend",    \* bi_usb_rd_end: bi_usb_busy for a block
  "rdnext",   \* the block is in buff
  "copy",     \* sysPI_wr of the block to the ROM
  "abort",    \* bi_usb_busy gave up
  "game" }    \* boot_simulator: the game runs

DevTypeOK ==
  /\ dev_pc \in DevPlaces
  /\ cmd \in Units
  /\ slen \in 0 .. RomUnits
  /\ addr \in 0 .. RomUnits
  /\ buff \in Seq(Units) /\ Len(buff) <= Block
  /\ usb_act \in BOOLEAN
  /\ usb_need \in 0 .. Block
  /\ usb_buf \in Seq(Units) /\ Len(usb_buf) <= Block
  /\ rom \in [RomAddrs -> Units]

DevInit ==
  /\ dev_pc = "menu"
  /\ cmd = Other("name") /\ slen = 0 /\ addr = 0 /\ buff = <<>>
  /\ usb_act = FALSE /\ usb_need = 0 /\ usb_buf = <<>>
  /\ rom = [a \in RomAddrs |-> Other("old")]

-----------------------------------------------------------------------------
\* The FPGA.

\* Writing USB_CMD_RD | baddr to REG_USB_CFG: the engine receives n units.
StartRead(n) == usb_act' = TRUE /\ usb_need' = n /\ usb_buf' = <<>>

\* Writing a NOP command stops it; what it had received is gone.
StopEngine == usb_act' = FALSE /\ usb_need' = 0 /\ usb_buf' = <<>>

EngineReceives ==
  /\ usb_act /\ fifo # <<>>
  /\ usb_buf' = Append(usb_buf, Head(fifo))
  /\ fifo' = Tail(fifo)
  /\ usb_act' = (Len(usb_buf) + 1 < usb_need)
  /\ UNCHANGED <<usb_need, reply, dev_pc, loaderVars, rom>>

-----------------------------------------------------------------------------
\* usbLoadGame

EnterLoader ==
  /\ dev_pc = "menu"
  /\ dev_pc' = "poll"
  /\ UNCHANGED <<loaderVars, engineVars, rom, linkVars>>

\* B is looked at once per frame, between commands only.
LeaveLoader ==
  /\ dev_pc = "poll"
  /\ dev_pc' = "menu"
  /\ UNCHANGED <<loaderVars, engineVars, rom, linkVars>>

\* bi_usb_can_rd
Poll ==
  /\ dev_pc = "poll" /\ fifo # <<>>
  /\ dev_pc' = "rdcmd"
  /\ UNCHANGED <<loaderVars, engineVars, rom, linkVars>>

\* bi_usb_rd(cmd, 16)
ReadCommand ==
  /\ dev_pc = "rdcmd"
  /\ StartRead(1)
  /\ dev_pc' = "cmdwait"
  /\ UNCHANGED <<loaderVars, rom, linkVars>>

CommandRead ==
  /\ dev_pc = "cmdwait" /\ ~usb_act
  /\ cmd' = usb_buf[1]
  /\ dev_pc' = "dispatch"
  /\ UNCHANGED <<slen, addr, buff, engineVars, rom, linkVars>>

\* Not one of the four commands, not a "cmd" packet at all, or a 'W' without
\* blocks.
IgnoreCommand ==
  /\ dev_pc = "dispatch"
  /\ cmd.op \notin {"t", "s", "c", "W"} \/ (cmd.op = "W" /\ cmd.len = 0)
  /\ dev_pc' = "poll"
  /\ UNCHANGED <<loaderVars, engineVars, rom, linkVars>>

\* MUTANT of AnswerTest: the answer is never written.
AnswerTest_Silent(listening) ==
  /\ dev_pc = "dispatch" /\ cmd.op = "t"
  /\ StopEngine
  /\ dev_pc' = "poll"
  /\ UNCHANGED <<fifo, reply, loaderVars, rom>>

\* 't': usbResp.  bi_usb_wr first stops the engine, and its result is ignored;
\* with no program at the other end the answer may get nowhere.
AnswerTest(listening) ==
  /\ dev_pc = "dispatch" /\ cmd.op = "t"
  /\ \/ reply' = Append(reply, "r")
     \/ ~listening /\ reply' = reply
  /\ StopEngine
  /\ dev_pc' = "poll"
  /\ UNCHANGED <<fifo, loaderVars, rom>>

\* 's': the game is booted; the loader does not run again.
StartGame ==
  /\ dev_pc = "dispatch" /\ cmd.op = "s"
  /\ dev_pc' = "game"
  /\ UNCHANGED <<loaderVars, engineVars, rom, linkVars>>

\* MUTANT of CmemFill: the block counter is not decremented.
CmemFill_Forever ==
  /\ dev_pc = "dispatch" /\ cmd.op = "c"
  /\ rom' = [a \in RomAddrs |->
       IF a \in cmd.addr .. cmd.addr + cmd.len * Block - 1 THEN Other("fill") ELSE rom[a]]
  /\ UNCHANGED <<dev_pc, loaderVars, engineVars, linkVars>>

\* 'c': usbCmdCmemFill
CmemFill ==
  /\ dev_pc = "dispatch" /\ cmd.op = "c"
  /\ rom' = [a \in RomAddrs |->
       IF a \in cmd.addr .. cmd.addr + cmd.len * Block - 1 THEN Other("fill") ELSE rom[a]]
  /\ dev_pc' = "poll"
  /\ UNCHANGED <<loaderVars, engineVars, linkVars>>

-----------------------------------------------------------------------------
\* 'W': usbCmdRomWR

\* MUTANT of RomWriteStart: the block being received is not counted.
RomWriteStart_OneShort ==
  /\ dev_pc = "dispatch" /\ cmd.op = "W" /\ cmd.len # 0
  /\ addr' = cmd.addr /\ slen' = cmd.len - 1
  /\ StartRead(Block)
  /\ dev_pc' = IF slen' = 0 THEN "poll" ELSE "rdend"
  /\ UNCHANGED <<cmd, buff, rom, linkVars>>

RomWriteStart ==
  /\ dev_pc = "dispatch" /\ cmd.op = "W" /\ cmd.len # 0
  /\ addr' = cmd.addr /\ slen' = cmd.len
  /\ StartRead(Block)
  /\ dev_pc' = "rdend"
  /\ UNCHANGED <<cmd, buff, rom, linkVars>>

\* bi_usb_rd_end: the FPGA's buffer is copied once it is full.
BlockRead ==
  /\ dev_pc = "rdend" /\ ~usb_act
  /\ buff' = usb_buf
  /\ slen' = slen - 1
  /\ dev_pc' = "rdnext"
  /\ UNCHANGED <<cmd, addr, engineVars, rom, linkVars>>

\* MUTANT of ReadNext: the next block is asked for after the last one, too.
ReadNext_Always ==
  /\ dev_pc = "rdnext"
  /\ StartRead(Block)
  /\ dev_pc' = "copy"
  /\ UNCHANGED <<loaderVars, rom, linkVars>>

\* The next block is received while this one goes to the ROM.
ReadNext ==
  /\ dev_pc = "rdnext"
  /\ IF slen # 0 THEN StartRead(Block) ELSE UNCHANGED engineVars
  /\ dev_pc' = "copy"
  /\ UNCHANGED <<loaderVars, rom, linkVars>>

\* MUTANT of CopyBlock: the block is copied from the FPGA's buffer, which the
\* next one is already filling.
CopyBlock_FromEngine ==
  /\ dev_pc = "copy"
  /\ rom' = [a \in RomAddrs |->
       IF a \in addr .. addr + Block - 1
       THEN (usb_buf \o SubSeq(buff, Len(usb_buf) + 1, Block))[a - addr + 1] ELSE rom[a]]
  /\ addr' = addr + Block
  /\ dev_pc' = IF slen = 0 THEN "poll" ELSE "rdend"
  /\ UNCHANGED <<cmd, slen, buff, engineVars, linkVars>>

CopyBlock ==
  /\ dev_pc = "copy"
  /\ rom' = [a \in RomAddrs |-> IF a \in addr .. addr + Block - 1 THEN buff[a - addr + 1] ELSE rom[a]]
  /\ addr' = addr + Block
  /\ dev_pc' = IF slen = 0 THEN "poll" ELSE "rdend"
  /\ UNCHANGED <<cmd, slen, buff, engineVars, linkVars>>

-----------------------------------------------------------------------------
\* bi_usb_busy gives up after 8192 polls and stops the engine: the units it
\* had received are lost.
BusyTimeout ==
  /\ dev_pc \in {"cmdwait", "rdend"} /\ usb_act /\ fifo = <<>>
  /\ StopEngine
  /\ slen' = IF dev_pc = "rdend" THEN slen - 1 ELSE slen
  /\ dev_pc' = IF dev_pc = "rdend" THEN "abort" ELSE "poll"
  /\ UNCHANGED <<cmd, addr, buff, rom, linkVars>>

\* usbCmdRomWR starts the next block before it looks at the result of this one,
\* then returns with the engine running; nobody looks at what it returns.
RomWriteAborts ==
  /\ dev_pc = "abort"
  /\ IF slen # 0 THEN StartRead(Block) ELSE UNCHANGED engineVars
  /\ dev_pc' = "poll"
  /\ UNCHANGED <<loaderVars, rom, linkVars>>

\* What the loader does by itself, given input.
LoaderStep ==
  \/ Poll \/ ReadCommand \/ CommandRead \/ IgnoreCommand \/ StartGame \/ CmemFill
  \/ RomWriteStart \/ BlockRead \/ ReadNext \/ CopyBlock
  \/ RomWriteAborts
=============================================================================
