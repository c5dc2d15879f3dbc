------------------------------ MODULE SdSession ------------------------------
(***************************************************************************)
(* The multi-block session of the SD driver (ED64-XIO/src/disk.c), the     *)
(* block transfers it is built on (ED64-XIO/src/bios.c), the disk_* entry  *)
(* points FatFs calls (ED64-XIO/ff/diskio.c), and the card on the other    *)
(* side of the bus.                                                        *)
(*                                                                         *)
(* The driver keeps one open-ended CMD18 or CMD25 transfer alive between   *)
(* requests: disk_mode and disk_cur_addr are its idea of where the card's  *)
(* stream stands.  The card has an idea of its own (card, card_pos), and   *)
(* every way of losing a command, an answer or a block can separate them.  *)
(***************************************************************************)
EXTENDS Integers

CONSTANTS
  NSectors,   \* sectors of the card
  MaxCount,   \* the most sectors FatFs asks for in one request (its csize)
  Vals,       \* contents a 512-byte sector may have
  NoVal,      \* a part of the buffer nothing was read into
  CardHC,     \* TRUE: the card is addressed in sectors, FALSE: in bytes
  Faults      \* the faults that may happen

\* What can go wrong on the bus; each is one action of FaultStep.
FaultKinds == {
  "init",     \* the initialisation handshake fails
  "lost12",   \* CMD12 does not reach the card
  "mute12",   \* CMD12 is executed, its answer is missed
  "busy",     \* the card is still programming when the driver stops polling
  "lost18",   \* CMD18 does not reach the card
  "lost25",   \* CMD25 does not reach the card
  "mute25",   \* CMD25 is executed, its answer is missed
  "rd",       \* no start token within 65535 polls, or the DMA reports an error
  "wr" }      \* no, or a negative, status for a written block; busy too long

ASSUME NSectorsAssumption == NSectors \in Nat \ {0}
ASSUME MaxCountAssumption == MaxCount \in Nat \ {0} /\ MaxCount <= 32768
ASSUME ValsAssumption == Vals # {} /\ NoVal \notin Vals
ASSUME CardHCAssumption == CardHC \in BOOLEAN
ASSUME FaultsAssumption == Faults \subseteq FaultKinds

VARIABLES
  media,          \* contents of the card
  card,           \* state of the card
  card_pos,       \* next sector of the card's open transfer
  disk_mode,      \* the driver's idea of the open transfer
  disk_cur_addr,  \* the sector it expects next
  disk_card_type, \* features found by diskInit
  pc,             \* where the driver stands in the request
  req,            \* request being served, or the last one served
  buf,            \* the caller's buffer, one entry per sector
  done,           \* sectors of the request transferred so far
  ret,            \* result of the last request
  ready,          \* the last disk_initialize returned without STA_NOINIT
  retry           \* history: the request repeats the one before, which failed,
                  \* and no CMD12 got lost that leaves the card in a transfer

cardVars == <<media, card, card_pos>>
diskVars == <<disk_mode, disk_cur_addr, disk_card_type>>
callVars == <<req, ready, retry>>
vars == <<cardVars, diskVars, pc, buf, done, ret, callVars>>

Sectors == 0 .. NSectors - 1
Offsets == 0 .. MaxCount - 1

\* SD card states of the physical layer; "err" is rcv after a rejected block,
\* when the card ignores every further block until CMD12.
CardStates == {"idle", "tran", "data", "rcv", "err", "prg"}

BD == INSTANCE BlockDevice WITH busy <- (pc # "idle")

TypeOK ==
  /\ media \in [Sectors -> Vals]
  /\ card \in CardStates
  /\ card_pos \in 0 .. NSectors
  /\ disk_mode \in {"NOP", "RD", "WR"}
  /\ disk_cur_addr \in 0 .. NSectors
  /\ disk_card_type \in SUBSET {"SD_V2", "SD_HC"}
  /\ pc \in {"idle", "init", "open", "close", "wait", "cmd", "xfer"}
  /\ req \in BD!Requests
  /\ buf \in [Offsets -> Vals \cup {NoVal}]
  /\ done \in 0 .. MaxCount
  /\ ret \in {"none", "ok", "error"}
  /\ ready \in BOOLEAN
  /\ retry \in BOOLEAN

Init ==
  /\ media \in [Sectors -> Vals]
  /\ card = "idle" /\ card_pos = 0
  /\ disk_mode = "NOP" /\ disk_cur_addr = 0 /\ disk_card_type = {}
  /\ pc = "idle"
  /\ req = [op |-> "init", sector |-> 0, count |-> 0]
  /\ buf = [i \in Offsets |-> NoVal]
  /\ done = 0
  /\ ret = "none"
  /\ ready = FALSE
  /\ retry = FALSE

-----------------------------------------------------------------------------
\* Helpers.

\* diskRead hands the sector count to a u16 parameter, diskWrite's bi_ram_to_sd
\* as well; FatFs never asks for more than a cluster, 32768 sectors at most.
U16(n) == n % 65536

\* The argument of CMD18 and CMD25, and the sector a card makes of it.
CmdArg(saddr) == IF "SD_HC" \in disk_card_type THEN saddr ELSE saddr * 512
SectorOf(arg) == IF CardHC THEN arg ELSE arg \div 512

ModeOf(op) == IF op = "read" THEN "RD" ELSE "WR"

Return(r) == pc' = "idle" /\ ret' = r

\* diskCloseRW hands its result to disk_ioctl; diskOpenRead and diskOpenWrite
\* ignore it.
CloseReturns(r) ==
  IF req.op = "sync" THEN Return(r) ELSE pc' = "cmd" /\ ret' = ret

\* The card has a transfer open and the driver no longer knows: a CMD12 or the
\* answer of a CMD25 was lost.
Forgotten == disk_mode = "NOP" /\ card \in {"data", "rcv", "err"}

-----------------------------------------------------------------------------
\* Requests of FatFs.

Request(op, s, n) ==
  /\ pc = "idle"
  /\ req' = [op |-> op, sector |-> s, count |-> n]
  /\ retry' = (ret = "error" /\ req' = req /\ ~Forgotten)
  /\ done' = 0
  /\ ret' = "none"
  /\ UNCHANGED cardVars

disk_read(s, n) ==
  /\ ready /\ s + n <= NSectors
  /\ Request("read", s, n)
  /\ pc' = "open"
  /\ buf' = [i \in Offsets |-> NoVal]
  /\ UNCHANGED <<diskVars, ready>>

disk_write(s, n, b) ==
  /\ ready /\ s + n <= NSectors
  /\ Request("write", s, n)
  /\ pc' = "open"
  /\ buf' = [i \in Offsets |-> IF i < n THEN b[i] ELSE NoVal]
  /\ UNCHANGED <<diskVars, ready>>

\* disk_ioctl(CTRL_SYNC)
disk_sync ==
  /\ ready
  /\ Request("sync", 0, 0)
  /\ pc' = "close"
  /\ UNCHANGED <<diskVars, buf, ready>>

disk_initialize ==
  /\ Request("init", 0, 0)
  /\ pc' = "init"
  /\ disk_mode' = "NOP"
  /\ disk_card_type' = {}
  /\ ready' = FALSE
  /\ UNCHANGED <<disk_cur_addr, buf>>

Call ==
  \/ \E s \in Sectors, n \in 1 .. MaxCount : disk_read(s, n)
  \/ \E s \in Sectors, n \in 1 .. MaxCount : \E b \in [0 .. n - 1 -> Vals] : disk_write(s, n, b)
  \/ disk_sync
  \/ disk_initialize

-----------------------------------------------------------------------------
\* diskInit; the handshake itself is module SdInit.

InitSucceeds ==
  /\ pc = "init"
  /\ card' = "tran"
  /\ disk_card_type' = IF CardHC THEN {"SD_V2", "SD_HC"} ELSE {"SD_V2"}
  /\ ready' = TRUE
  /\ Return("ok")
  /\ UNCHANGED <<media, card_pos, disk_mode, disk_cur_addr, buf, done, req, retry>>

InitFails ==
  /\ pc = "init" /\ "init" \in Faults
  /\ card' \in {card, "idle"}
  /\ Return("error")
  /\ UNCHANGED <<media, card_pos, diskVars, buf, done, callVars>>

-----------------------------------------------------------------------------
\* diskOpenRead and diskOpenWrite.

\* MUTANT of OpenReuse: the address is not compared.
OpenReuse_AnyAddress ==
  /\ pc = "open" /\ disk_mode = ModeOf(req.op)
  /\ disk_cur_addr' = req.sector + U16(req.count)
  /\ pc' = "xfer"
  /\ UNCHANGED <<cardVars, disk_mode, disk_card_type, buf, done, ret, callVars>>

\* The open transfer stands at the requested sector: no command is sent.
\* disk_cur_addr advances before the first block moves.
OpenReuse ==
  /\ pc = "open"
  /\ disk_mode = ModeOf(req.op) /\ req.sector = disk_cur_addr
  /\ disk_cur_addr' = disk_cur_addr + U16(req.count)
  /\ pc' = "xfer"
  /\ UNCHANGED <<cardVars, disk_mode, disk_card_type, buf, done, ret, callVars>>

OpenClose ==
  /\ pc = "open"
  /\ ~(disk_mode = ModeOf(req.op) /\ req.sector = disk_cur_addr)
  /\ pc' = "close"
  /\ UNCHANGED <<cardVars, diskVars, buf, done, ret, callVars>>

\* diskCloseRW
CloseNothing ==
  /\ pc = "close" /\ disk_mode = "NOP"
  /\ CloseReturns("ok")
  /\ UNCHANGED <<cardVars, diskVars, buf, done, callVars>>

\* What CMD12 makes of the card's state.
Stopped == CASE card = "data" -> "tran" [] card \in {"rcv", "err"} -> "prg"

\* MUTANT of StopAnswered: disk_mode is not reset.
StopAnswered_ModeKept ==
  /\ pc = "close" /\ disk_mode # "NOP" /\ card \in {"data", "rcv", "err"}
  /\ card' = Stopped
  /\ pc' = "wait"
  /\ UNCHANGED <<media, card_pos, diskVars, buf, done, ret, callVars>>

StopAnswered ==
  /\ pc = "close" /\ disk_mode # "NOP" /\ card \in {"data", "rcv", "err"}
  /\ card' = Stopped
  /\ disk_mode' = "NOP"
  /\ pc' = "wait"
  /\ UNCHANGED <<media, card_pos, disk_cur_addr, disk_card_type, buf, done, ret, callVars>>

\* The card has no transfer to stop and does not answer: DISK_ERR_CTO.
StopIllegal ==
  /\ pc = "close" /\ disk_mode # "NOP" /\ card \notin {"data", "rcv", "err"}
  /\ disk_mode' = "NOP"
  /\ CloseReturns("error")
  /\ UNCHANGED <<cardVars, disk_cur_addr, disk_card_type, buf, done, callVars>>

StopMissed ==
  /\ pc = "close" /\ disk_mode # "NOP" /\ card \in {"data", "rcv", "err"}
  /\ \/ "lost12" \in Faults /\ card' = card
     \/ "mute12" \in Faults /\ card' = Stopped
  /\ disk_mode' = "NOP"
  /\ retry' = (retry /\ card' # card)
  /\ CloseReturns("error")
  /\ UNCHANGED <<media, card_pos, disk_cur_addr, disk_card_type, buf, done, req, ready>>

\* The polling loop ends when the data lines are high again ...
WaitReady ==
  /\ pc = "wait" /\ card # "prg"
  /\ CloseReturns("ok")
  /\ UNCHANGED <<cardVars, diskVars, buf, done, callVars>>

\* ... or after 65534 polls, and then it reports success as well.
WaitGivesUp ==
  /\ pc = "wait" /\ card = "prg" /\ "busy" \in Faults
  /\ CloseReturns("ok")
  /\ UNCHANGED <<cardVars, diskVars, buf, done, callVars>>

\* The card finishes programming whatever the driver does.
CardProgrammed ==
  /\ card = "prg"
  /\ card' = "tran"
  /\ UNCHANGED <<media, card_pos, diskVars, pc, buf, done, ret, callVars>>

\* MUTANT of SendCMD18: the address is advanced for a later, successful end only.
SendCMD18_NoAdvance(received) ==
  /\ pc = "cmd" /\ req.op = "read"
  /\ disk_mode' = "RD"
  /\ disk_cur_addr' = req.sector
  /\ IF received /\ card = "tran"
     THEN card' = "data" /\ card_pos' = SectorOf(CmdArg(req.sector))
     ELSE UNCHANGED <<card, card_pos>>
  /\ pc' = "xfer"
  /\ UNCHANGED <<media, disk_card_type, buf, done, ret, callVars>>

\* The driver does not read the answer of CMD18: a card that ignores it, or
\* never gets it, looks like one that starts sending.
SendCMD18(received) ==
  /\ pc = "cmd" /\ req.op = "read"
  /\ disk_mode' = "RD"
  /\ disk_cur_addr' = req.sector + U16(req.count)
  /\ IF received /\ card = "tran"
     THEN card' = "data" /\ card_pos' = SectorOf(CmdArg(req.sector))
     ELSE UNCHANGED <<card, card_pos>>
  /\ pc' = "xfer"
  /\ UNCHANGED <<media, disk_card_type, buf, done, ret, callVars>>

OpenRead == SendCMD18(TRUE)

\* Lost on its way; a card that is not in tran would have ignored it anyway.
OpenReadLost == "lost18" \in Faults /\ card = "tran" /\ SendCMD18(FALSE)

OpenWrite ==
  /\ pc = "cmd" /\ req.op = "write" /\ card = "tran"
  /\ card' = "rcv" /\ card_pos' = SectorOf(CmdArg(req.sector))
  /\ disk_mode' = "WR"
  /\ disk_cur_addr' = req.sector + req.count
  /\ pc' = "xfer"
  /\ UNCHANGED <<media, disk_card_type, buf, done, ret, callVars>>

\* MUTANT of OpenWriteFails: disk_mode is set before the answer is looked at.
OpenWriteFails_ModeSet ==
  /\ pc = "cmd" /\ req.op = "write"
  /\ disk_mode' = "WR"
  /\ disk_cur_addr' = req.sector
  /\ Return("error")
  /\ UNCHANGED <<media, disk_card_type, buf, done, callVars>>

\* CMD25 is not answered: DISK_ERR_WR1.
OpenWriteFails ==
  /\ pc = "cmd" /\ req.op = "write"
  /\ disk_cur_addr' = req.sector
  /\ Return("error")
  /\ UNCHANGED <<media, disk_mode, disk_card_type, buf, done, callVars>>

OpenWriteIllegal ==
  /\ card # "tran"
  /\ OpenWriteFails /\ UNCHANGED <<card, card_pos>>

OpenWriteMissed ==
  /\ card = "tran"
  /\ \/ "lost25" \in Faults /\ UNCHANGED <<card, card_pos>>
     \/ "mute25" \in Faults /\ card' = "rcv" /\ card_pos' = SectorOf(CmdArg(req.sector))
  /\ OpenWriteFails

-----------------------------------------------------------------------------
\* Block transfers: bi_sd_to_ram, bi_sd_to_rom and bi_ram_to_sd.

Transferring(op) == pc = "xfer" /\ req.op = op /\ done < U16(req.count)

ReadBlock ==
  /\ Transferring("read") /\ card = "data" /\ card_pos < NSectors
  /\ buf' = [buf EXCEPT ![done] = media[card_pos]]
  /\ card_pos' = card_pos + 1
  /\ done' = done + 1
  /\ UNCHANGED <<media, card, diskVars, pc, ret, callVars>>

\* No start token comes: DISK_ERR_RD2.  disk_mode stays RD.
ReadSilent ==
  /\ Transferring("read") /\ ~(card = "data" /\ card_pos < NSectors)
  /\ Return("error")
  /\ UNCHANGED <<cardVars, diskVars, buf, done, callVars>>

\* The token is late, or the FPGA's DMA stops with an error; the block may
\* have gone by.
ReadFails ==
  /\ Transferring("read") /\ card = "data" /\ card_pos < NSectors
  /\ "rd" \in Faults
  /\ card_pos' \in {card_pos, card_pos + 1}
  /\ Return("error")
  /\ UNCHANGED <<media, card, diskVars, buf, done, callVars>>

WriteBlock ==
  /\ Transferring("write") /\ card = "rcv" /\ card_pos < NSectors
  /\ media' = [media EXCEPT ![card_pos] = buf[done]]
  /\ card_pos' = card_pos + 1
  /\ done' = done + 1
  /\ UNCHANGED <<card, diskVars, pc, buf, ret, callVars>>

\* The card gives no status for the block: DISK_ERR_WR2.  disk_mode stays WR.
WriteSilent ==
  /\ Transferring("write") /\ ~(card = "rcv" /\ card_pos < NSectors)
  /\ Return("error")
  /\ UNCHANGED <<cardVars, diskVars, buf, done, callVars>>

\* The block is rejected, missed, or stored without the driver seeing it
\* finished.
WriteFails ==
  /\ Transferring("write") /\ card = "rcv" /\ card_pos < NSectors
  /\ "wr" \in Faults
  /\ \/ card' \in {"rcv", "err"} /\ UNCHANGED <<media, card_pos>>
     \/ /\ media' = [media EXCEPT ![card_pos] = buf[done]]
        /\ card_pos' = card_pos + 1
        /\ card' = card
  /\ Return("error")
  /\ UNCHANGED <<diskVars, buf, done, callVars>>

\* MUTANT of TransferDone: one sector too few.
TransferDone_OneShort ==
  /\ pc = "xfer" /\ done >= U16(req.count) - 1
  /\ Return("ok")
  /\ UNCHANGED <<cardVars, diskVars, buf, done, callVars>>

TransferDone ==
  /\ pc = "xfer" /\ done = U16(req.count)
  /\ Return("ok")
  /\ UNCHANGED <<cardVars, diskVars, buf, done, callVars>>

-----------------------------------------------------------------------------
DriverStep ==
  \/ InitSucceeds
  \/ OpenReuse \/ OpenClose
  \/ CloseNothing \/ StopAnswered \/ StopIllegal \/ WaitReady
  \/ OpenRead \/ OpenWrite \/ OpenWriteIllegal
  \/ ReadBlock \/ ReadSilent \/ WriteBlock \/ WriteSilent \/ TransferDone

FaultStep ==
  \/ InitFails
  \/ StopMissed \/ WaitGivesUp
  \/ OpenReadLost \/ OpenWriteMissed
  \/ ReadFails \/ WriteFails

Next == Call \/ DriverStep \/ CardProgrammed \/ FaultStep

Spec == Init /\ [][Next]_vars

\* The driver is a loop that runs on; the card finishes programming.
FairSpec == Spec /\ WF_vars(DriverStep) /\ WF_vars(CardProgrammed)

-----------------------------------------------------------------------------
(***************************************************************************)
(* Properties.                                                             *)
(***************************************************************************)

\* The faults the session survives: after any of them the next transfer
\* either uses the right sectors or fails.
Tolerated == {"init", "mute12", "busy", "lost18", "lost25", "mute25"}

\* Sectors the running request has still to move.
Owed == IF pc = "xfer" THEN U16(req.count) - done ELSE 0

\* When the driver believes a transfer is open, and the card has one, the
\* two agree on the next sector; and a card that streams is never taken for
\* one with no transfer open (disk.c:225 and 307 rely on both).
SessionAligned ==
  /\ disk_mode = "WR" => card = "rcv" /\ card_pos + Owed = disk_cur_addr
  /\ disk_mode = "RD" /\ card = "data" => card_pos + Owed = disk_cur_addr
  /\ ready /\ disk_mode = "NOP" => card # "data"

Finished(op) == pc = "idle" /\ ret = "ok" /\ req.op = op

\* disk_read returns RES_OK only with the sectors it was asked for.
ReadsReturnRequestedSectors == Finished("read") => BD!Agree(req, buf, media)

\* The card's contents change only inside the write request being served,
\* and only to what the caller's buffer holds for that sector.
WritesStayInRange ==
  [][\A s \in Sectors : media'[s] # media[s] =>
       /\ pc = "xfer" /\ req.op = "write"
       /\ s \in req.sector .. req.sector + req.count - 1
       /\ media'[s] = buf[s - req.sector]]_vars

\* Every fault-tolerant session keeps the following together; it is the
\* inductive strengthening of the three properties above.
RequestInv ==
  /\ pc = "init" => req.op = "init" /\ disk_mode = "NOP"
  /\ pc \notin {"idle", "init"} => ready /\ (pc # "xfer" => done = 0)
  /\ pc \in {"close", "wait"} => req.op # "init"
  /\ pc \in {"open", "cmd", "xfer"} => req.op \in {"read", "write"}
  /\ pc \in {"wait", "cmd"} => disk_mode = "NOP"
  /\ pc # "idle" /\ req.op \in {"read", "write"} => req.sector + req.count <= NSectors
  /\ pc # "idle" /\ req.op = "write" => \A i \in 0 .. req.count - 1 : buf[i] \in Vals
  /\ ready => (CardHC <=> "SD_HC" \in disk_card_type)

TransferInv ==
  /\ pc = "xfer" =>
       /\ disk_mode = ModeOf(req.op)
       /\ disk_cur_addr = req.sector + req.count
       /\ done <= req.count
       /\ \A i \in 0 .. done - 1 : buf[i] = media[req.sector + i]
  /\ Finished("read") => BD!Agree(req, buf, media)

SessionInv == TypeOK /\ SessionAligned /\ RequestInv /\ TransferInv

\* The driver implements the block device.
ImplementsBlockDevice == BD!Spec

\* A failed transfer leaves disk_mode set and disk_cur_addr advanced, so a
\* repeated request never reuses the broken stream: when it succeeds, it has
\* moved the right sectors, whatever failed before (except that a lost CMD12
\* leaves the card in a transfer the driver has forgotten).
RetryIsSafe ==
  retry /\ (Finished("read") \/ Finished("write")) => BD!Agree(req, buf, media)

\* Its inductive strengthening.  A failed request leaves an address no repetition
\* of it reuses; the repetition ends the broken transfer or has none to end, and
\* opens one of its own.
NoReuse == ~(disk_mode = ModeOf(req.op) /\ disk_cur_addr = req.sector)
RetryInv ==
  /\ pc = "xfer" =>
       /\ disk_mode = ModeOf(req.op)
       /\ disk_cur_addr = req.sector + req.count /\ done <= req.count
  /\ pc = "idle" /\ ret = "error" /\ req.op \in {"read", "write"} => NoReuse
  /\ retry /\ pc = "open" => NoReuse
  /\ retry /\ pc \in {"open", "close", "wait", "cmd"} /\ disk_mode = "NOP" =>
       card \notin {"data", "rcv", "err"}
  /\ retry /\ pc = "xfer" =>
       /\ card \in {"data", "rcv"} => card_pos = req.sector + done
       /\ \A i \in 0 .. done - 1 : buf[i] = media[req.sector + i]
  /\ RetryIsSafe

\* CTRL_SYNC succeeds only when the card is neither receiving nor programming
\* (diskio.h: "Complete pending write process").
SyncCompletes == Finished("sync") => card \notin {"rcv", "err", "prg"}

\* The faults after which it does; its inductive strengthening: a card that is
\* receiving is known to be, and one that is programming is waited for.
SyncTolerated == {"init", "lost18", "lost25", "rd", "wr"}
SyncInv ==
  /\ ready /\ card \in {"rcv", "err"} => disk_mode = "WR"
  /\ ready /\ card = "prg" => pc = "wait"
  /\ req.op = "sync" => ready
  /\ pc \notin {"idle", "init"} => ready
  /\ pc = "init" => req.op = "init"
  /\ pc \in {"open", "cmd", "xfer"} => req.op # "sync"
  /\ pc \in {"wait", "cmd"} => disk_mode = "NOP"
  /\ Finished("sync") => disk_mode = "NOP"

\* Whatever is lost on the bus, the driver never takes the card for receiving
\* when it is not: a write is never streamed into a card that would drop it.
WriteSessionHeldByCard == disk_mode = "WR" => card \in {"rcv", "err"}

WriteHeldInv == WriteSessionHeldByCard /\ (pc = "init" => disk_mode = "NOP")

\* A caller that, from some point on, only repeats one request ...
OnlyRepeats(op, s, n) ==
  <>[][~FaultStep /\ (Call => req' = [op |-> op, sector |-> s, count |-> n])]_vars
KeepsCalling == []<>(pc # "idle")
\* ... on a bus that no longer fails, finally gets its answer every time.
Recovers(op, s, n) ==
  OnlyRepeats(op, s, n) /\ KeepsCalling =>
    <>[](pc = "idle" => ret = "ok" /\ BD!Agree(req, buf, media))

\* Repeating a read gets past any earlier fault, because each failure makes
\* the next attempt send CMD12 and open a new stream.
ReadRetryRecovers == \A s \in Sectors : Recovers("read", s, 1)

\* Repeating a write does so too, unless the card keeps a transfer open behind
\* the driver's back: no write sends the CMD12 that would end it.
WriteRetryRecovers ==
  <>[](pc = "idle" => ~Forgotten) => \A s \in Sectors : Recovers("write", s, 1)
=============================================================================
