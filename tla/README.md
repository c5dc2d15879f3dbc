# ED64: specifications, model checks and proofs

This directory holds a TLA+ development of the programs in this repository: the
example console program ED64-XIO for the EverDrive 64 X series (C), and usb64, the
program on the PC that loads games over USB (C#). The modules follow the code,
function by function, down to the file system FatFs that the console program is built
with; TLC checks them on small instances and the TLA+ proof system proves for every value of
the constants what holds of the driver, the initialisation, the bus and its checksums,
the load over USB, the console program, the display, the layout of a volume and the
conversions of usb64. Of FatFs above that layout the long and
short names, the code page search and the sums of entry sets are proved about; the rest is
model-checked only.

- [The system](#the-system)
- [What is hard about it](#what-is-hard-about-it)
- [Modules](#modules)
- [SD card sessions](#sd-card-sessions)
- [SD card initialisation](#sd-card-initialisation)
- [Loading over USB](#loading-over-usb)
- [Display](#display)
- [The console program](#the-console-program)
- [The file system](#the-file-system)
- [Files on exFAT](#files-on-exfat)
- [Pure computations](#pure-computations)
- [Runs](#runs)
- [Proofs](#proofs)
- [Where code and documents disagree](#where-code-and-documents-disagree)
- [What is not modelled](#what-is-not-modelled)
- [Plan](#plan)
- [Using the development](#using-the-development)

## The system

| component | source | state | operations |
|---|---|---|---|
| SD initialisation | `src/disk.c` diskInit | `disk_card_type`, `sd_resp_buff`, card address, clock | CMD0 ... ACMD6 |
| SD session | `src/disk.c`, `ff/diskio.c` | `disk_mode`, `disk_cur_addr` | disk_initialize, disk_read, disk_write, CTRL_SYNC |
| SD transfers | `src/bios.c` bi_sd_to_ram, bi_sd_to_rom, bi_ram_to_sd | none between calls | one block after the other |
| SD bus | `src/bios.c` bi_sd_* | `bi_sd_cfg`, `bi_old_sd_mode` | speed, bit length, direction |
| checksums | `src/disk.c` crc7, `src/bios.c` sdCrc16 | none | pure |
| USB engine | FPGA, driven by `src/bios.c` bi_usb_* | REG_USB_CFG, a 512-byte buffer | read, write, busy |
| USB loader | `ff/usb.c` usbLoadGame | the command, the block counter | t, s, c, W |
| USB terminal | `ff/usb.c` usbTerminal | none | echo |
| usb64 connection | `UsbInterface.cs` | serial port, timeouts | Connect, Read, Write |
| usb64 commands | `CommandProcessor.cs`, `Program.cs` | ROM image, arguments | LoadRom, StartRom, diagnostics, dumps |
| screenshot | `ImageUtilities.cs` | a header | ConvertToBitmap |
| console page | `src/sys.c` g* | `gfx_buff`, `g_cons_ptr` | gCleanScreen, gConsPrint, gAppend* |
| display | `src/sys.c` gRepaint, gVsync | two frame buffers, VI registers | repaint |
| menu | `src/main.c` | selector | demoMenu, edid, printError |
| file manager | `src/fmanager.c` | directory, selector, CFG_SWAP_ON | fmLoadDir, fmLoadGame |
| file demos | `ff/fileio.c` | none | fileRead, fileWrite |
| FatFs | `ff/ff.c`, `ff/ffunicode.c` (a library) | the sector window, `free_clst`, `last_clst`, FIL, DIR | f_mount, f_open, f_read, f_write, f_lseek, ... |
| PI DMA | `src/sys.c` sysPI_rd, sysPI_wr | none | copy |

How they interact:

```
   usb64 (PC)                          ED64-XIO (console)
   Program -> CommandProcessor         main -> demoMenu -> fmanager -> FatFs -> diskio -> disk -> bios -> SD card
                 |                                     \-> fileio  ---/                     |
            UsbInterface                               \-> usbLoadGame, usbTerminal ------->|
                 |                                     \-> gConsPrint, gRepaint -> frame buffers -> VI
                 \==== serial port, FIFOs of the FPGA ======= bi_usb_* <--------------------/
```

On the console one thread calls downwards and nothing calls back. Concurrency comes
from what runs beside the CPU: the card, which programs written blocks by itself and
keeps a transfer open between two calls; the FPGA's receive engine, which fills its
buffer while the CPU copies the block before; the video interface, which scans a frame
buffer; the data cache; and the program on the PC. Everything those share with the CPU
is polled.

Correctness, component by component:

- *SD initialisation*: success means a selected card with a wide bus and the right
  addressing mode; a call on which nothing is lost succeeds; every call returns.
- *SD session*: a request that succeeds has moved exactly its sectors; a write touches
  no other sector; a success of CTRL_SYNC means the card is done; a caller who repeats
  a failed request gets an honest answer, and an answer at all.
- *USB*: a game is started only when it is completely in the ROM; data is never taken
  for a command; a console whose loader runs is found.
- *Console page*: everything written stays inside the page and its lines.
- *Display*: no field shows rows of two pages, and a repainted page is shown.
- *File manager*: the game that boots is the file selected, in the byte order of the
  console, whatever its clusters; nothing boots after an error.
- *FatFs*: what was stored and closed is there after any failure of a later call; no
  cluster belongs to two objects; free clusters are found and counted; every call
  answers what an ordinary file system answers.
- *Checksums, bus, names, volume layout, ROM formats*: each function computes what the
  specification it serves asks for, from every state its caller can leave behind.

## What is hard about it

- *A stream that outlives the call.* The driver keeps CMD18 and CMD25 transfers open
  between requests, and two variables, `disk_mode` and `disk_cur_addr`, say where the
  card's stream stands. Each lost command, answer or block may separate them from the
  card. `disk_cur_addr` is advanced before the transfer.
- *Answers that are not read or not checked*: CMD18's, diskCloseRW's, CMD41's in the
  version 2 loop, CMD7's with address 0.
- *Bounded waits whose end is not reported*: diskCloseRW's busy loop, bi_usb_busy.
- *Double buffering*, twice: the receive engine and the frame buffers.
- *A byte stream without a start mark* between two programs that may both stop at any
  point.
- *Early returns* that leave a mode on: the byte swapping in fmLoadGame.
- *Fixed pages* that take whatever is printed.
- *Crash consistency*: FatFs writes no journal. The order in which FAT, directory and
  data sectors reach the card follows from the moves of a single sector window, not
  from the statements that change them; power may fail at every access, and the card
  may refuse every access, before or after it has carried it out.
- *Counters and hints that outlive a mount*: FSINFO's `free_clst` and `last_clst`; the
  file's own sector buffer beside the window.
- *Links that exist in memory only*: exFAT files that fragment.

Nothing here survives a reset of the console except the card's contents. The restarts
that do exist are modelled: the host program is stopped and run again, the driver
initialises the card again, and a volume is mounted again after a power failure.

## Modules

| module | models | composed by |
|---|---|---|
| `BlockDevice` | what FatFs is promised (abstract) | refined by `SdSession` |
| `SdSession` | disk.c, diskio.c, transfers of bios.c, and the card | `MCSdSession` |
| `SdSession_proofs` | theorems about `SdSession`, with the tolerated faults and with every fault | |
| `SdInit` | diskInit and the card | `MCSdInit` |
| `SdInit_proofs` | theorems about `SdInit` | |
| `SdBus` | bi_sd_*, commands and blocks bit by bit | `Algorithms` |
| `SdCrc` | crc7, sdCrc16 | `Algorithms` |
| `SdBus_proofs` | theorems about `SdBus` and `SdCrc`, over the samples of `Algorithms` | |
| `UsbLink` | units on the wire, FIFOs | `XioUsb`, `Usb64Host` |
| `XioUsb` | the loader and the receive engine | `UsbSystem` |
| `Usb64Host` | usb64 told to load and start a ROM | `UsbSystem` |
| `UsbSystem` | both together | `MCUsbSystem` |
| `UsbSystem_proofs` | theorems about `UsbSystem` | |
| `HostData` | arguments of usb64, byte orders, padding, screen shots | `Algorithms` |
| `Display` | gRepaint, gVsync, cache and VI | `MCDisplay` |
| `Display_proofs` | theorems about `Display` | |
| `Console` | gfx_buff and its writers | `XioApp` |
| `GameLoad` | fmLoadGame over f_read | `XioApp` |
| `XioApp` | main, demoMenu, fmanager, the demos | `MCXioApp` |
| `XioApp_proofs` | theorems about `XioApp` and `GameLoad` | |
| `FatCore` | FatFs: window, FAT, chains, directories | `FatApi` |
| `FatApi` | FatFs: the `f_` calls | `FatFs` |
| `FatFs` | an application, a card that fails, and what is promised | `MCFatFs` |
| `FatEx` | FatFs: files on an exFAT volume | `MCAlgorithms` |
| `FatExDir` | FatFs: entry sets and directories of an exFAT volume | `Encodings` |
| `FatNames` | FatFs: 8.3 names, long names, comparison | `Encodings` |
| `FatUnicode` | code page search, upper case | `FatExDir` |
| `FatMount` | FatFs: partitions, parameter blocks, FAT12 entries, the mount of an exFAT volume | `Algorithms` |
| `Algorithms` | the pure functions of driver, mount and usb64, over samples | `MCAlgorithms` |
| `Algorithms_proofs` | theorems about `FatMount` and `HostData`, over the samples of `Algorithms`, and about `FatUnicode`, `FatNames` and `FatExDir` | |
| `Encodings` | names and entry sets, over samples | `MCAlgorithms` |
| `Induction` | induction over numbers and recursive functions, for the proofs | |

The `MC` modules give the constants their values; a configuration names them. A
definition whose name has an underscore and a second part (`OpenReuse_AnyAddress`) and
whose comment says MUTANT is a wrong version of a definition, kept beside it: the
property it breaks is listed in `PROJECT.json`. No specification uses it.

## SD card sessions

`SdSession` has the driver on one side and the card on the other.

| model | code |
|---|---|
| `disk_mode`, `disk_cur_addr`, `disk_card_type` | the variables of disk.c |
| `card`, `card_pos`, `media` | the card: its state by the physical layer specification, the next sector of its stream, its contents |
| `disk_read` ... `disk_initialize` | the entry points of diskio.c, called one at a time by FatFs |
| `OpenReuse`, `OpenClose` | the test in diskOpenRead and diskOpenWrite whether the open transfer can go on |
| `CloseNothing`, `StopAnswered`, `StopIllegal`, `StopMissed` | diskCloseRW: CMD12, answered, refused by the card's state, or missed |
| `WaitReady`, `WaitGivesUp` | its busy loop, and the end of its patience |
| `OpenRead`, `OpenReadLost`, `OpenWrite`, `OpenWriteIllegal`, `OpenWriteMissed` | CMD18 and CMD25; CMD18's answer is not read |
| `ReadBlock`, `WriteBlock`, `ReadSilent`, `WriteSilent`, `ReadFails`, `WriteFails` | a block of bi_sd_to_ram, bi_sd_to_rom or bi_ram_to_sd; silent: the card does not send or does not listen |
| `CardProgrammed` | the card finishes writing |

Faults are a constant: the set of kinds that may happen, each one an action of
`FaultStep`. The set `Tolerated` (initialisation fails, CMD12 executed but its answer
missed, busy loop too short, CMD18 or CMD25 lost, CMD25 executed but its answer missed)
is the largest under which driver and card stay together; the other three (CMD12 lost,
a block that fails when it is read or written) break the session, and the runs
`SdSession_recover` and `SdSession_stray_write` say what still holds.

Properties:

- `SessionInv`, the inductive invariant. Its main part is `SessionAligned`: a transfer
  the driver believes open is open, at the sector the driver expects. That is what the
  reuse test relies on.
- `ReadsReturnRequestedSectors`, `WritesStayInRange` (an action property),
  `ImplementsBlockDevice` (refinement of `BlockDevice`, `busy` being `pc # "idle"`).
- `RetryIsSafe`: with every fault there is, a request that is repeated at once and
  succeeds has moved the right sectors. The failed transfer leaves `disk_cur_addr`
  behind its own sectors, so its repetition never continues the broken stream. A
  repetition counts (`retry`) only while no CMD12 has been lost: a card that still
  sends a stream the driver has forgotten answers the next CMD18, which nobody looks
  at, with the sectors of the old stream. `RetryInv` is the inductive invariant.
- `SyncCompletes`: success of CTRL_SYNC means the card neither receives nor programs.
  Theorem `SyncCorrect` proves it for the faults in `SyncTolerated`; `SyncInv` is its
  inductive invariant. It is in no run.
- `WriteSessionHeldByCard`: whatever is lost, `disk_mode` is WR only when the card
  receives.
- `ReadRetryRecovers`, `WriteRetryRecovers`: after any history, a caller who only
  repeats one request on a bus that works is served from some point on. For a write
  that needs one condition, `Forgotten` not being true for ever: a card that holds a
  transfer open which the driver has forgotten (CMD12 was lost, or the answer to a
  CMD25) never gets the CMD12 that would end it, because diskCloseRW returns at once
  when `disk_mode` is NOP. A read does not need the condition: a CMD18 that a card in
  another state ignores is no fault (`OpenReadLost` asks for a card that would have
  answered it), and as its answer is not read `disk_mode` becomes RD all the same, so that
  the next repetition begins with the CMD12 that ends what the card still holds.

## SD card initialisation

`SdInit` has one action per command of diskInit and a card for the other side of the
bus: version 1 or 2, standard or high capacity, slow or fast, or an empty slot. Polls
are counted as the code counts them, with both loops' different ends: the version 2
`for` loop gives up when `i` reaches `wait_max`; the version 1 `do` loop increments `i`
past it, so a card that never gets ready passes the test behind the loop and is
refused only because it does not answer CMD2. A command may be lost, or its answer,
for every command in `LostCmds` and `LostAnswers`. `sd_resp_buff` keeps the last
answer, as in the code; the address of the card is read from it after a CMD7 that has
no answer (`Deselect`).

- `InitSound`: success means selected, wide, and the right addressing mode.
- `InitInv`, the inductive invariant, in three parts. `FollowInv`, whatever is lost: how
  far the card has followed, command by command, with `RcaIsPublished` (the address read
  from what CMD7 left behind is the card's) and `FastOnlyWhenSelected` (the high clock
  only for an identified card, also across repeated calls). `TypeInv`: what the driver
  has found out about the card is true. `CleanInv`: where a card that is ready in time
  stands while nothing is lost.
- `CleanCallSucceeds`: a call on which nothing is lost brings up every card that gets
  ready in time, whatever the calls before it left behind.
- `CallReturns`: a call returns.

`InitSound` needs CMD8 to be delivered. It is sent once; a high capacity card whose
answer to it is lost is taken for version 1, `SD_HC` is not set, and every sector
number would be sent as a byte address. The run excludes that fault and `PROJECT.json`
lists the hazard.

## Loading over USB

The unit of transfer is 16 bytes, the size of a command packet; a block of 512 bytes is
`Block` units. `XioUsb` follows usbLoadGame and the bi_usb functions register write by
register write where the receive engine can act in between: `rdend`, `rdnext` and
`copy` are the three points of usbCmdRomWR's loop. `Usb64Host` is the sequence of
exchanges that usb64 makes for `-rom` and `-start`: test, fill and test when the image
is smaller than the area the boot code checks, the image, start and file name. Timeouts
of both sides are actions: `BusyTimeout` (8192 polls) and `HostTimesOut` (200 ms, 2 s).

Assumptions on time, each one a named constant or guard:

- `DeviceTimeout` is possible only when the host has nothing under way, unless
  `HostStalls`: a host in the middle of a Write keeps the engine fed. The console polls
  8192 times, some milliseconds. The operating system of the PC gives no guarantee:
  with `HostStalls` TRUE, `BootsWholeImage` is violated (see below).
- `HostTimesOut` and `Connect` wait until the console has dealt with what it can
  (`DevicePending`): the console needs microseconds for what the host gives it
  hundreds of milliseconds.
- `StaleAnswers`: whether answers that nobody read survive until the port is opened
  again. With them, and with runs that are stopped in between, an old answer can be
  taken for the end of the fill, and the image would be sent while the loader still
  fills; the run with aborts has them FALSE.
- `PlayerLeaves`: when the player may press B in the loader. `"never"`; `"quiet"`: only
  while usb64 does not run and the console has taken all that was sent; `"any"`: at any
  time. The run with aborts has `"quiet"`: a person who leaves looks at a screen that
  has stopped changing. Nothing in the code enforces it (see below for `"any"`).

Properties: `BootsWholeImage`, `RomHoldsImageOnly`, `NoDataAsCommand`, `LoadInv` (the
inductive invariant of a load that is not disturbed, which contains
`EngineIdleBetweenCommands`), `RerunInv` (the inductive invariant when runs may be
stopped at any point, give up, and be repeated), `NotFoundMeansAbsent`, and
`GameStarts`.

What makes a repeated run safe is that a run says nothing before its first test is
answered, and that a loader in the middle of an aborted block answers none: the tests of
the next runs fill the block up or find the loader's timeout, and only when the loader
is back between commands does one of them get an answer. So a run that goes further
starts with a loader that has taken everything sent before.

A player who leaves at any time breaks that argument: what usb64 has sent stays in the
FIFO while the menu is shown, and tests of runs that gave up meanwhile are answered one
run late. `PlayerLeaves = "any"` violates `BootsWholeImage`: with an image as large as
the area the boot code checks in three runs, with a smaller image (where the fill and
its second test have to be got past too) in four, and in a FIFO of four packets or
more. A `t` that was left in the FIFO is answered for the test of the last run, the `W`
that was left behind it takes this test and the new `W` for the first units of its
data, the rest of the image is written two units too high or ignored as so many unknown
commands, and `s` starts a ROM that does not hold the image.

## Display

`Display` has the CPU (`Repaint`, `DrawRow`, `Flush`, `LeaveVsyncLine`,
`EnterVsyncLine`), the data cache (`Evict`) and the video interface (`Scan`). A row of
characters is the unit; a frame buffer maps rows to the number of the page they were
drawn from. `VsyncLine` is where gVsync waits: on NTSC and MPAL consoles line 0x200
lies behind the last visible line (0x1ff), which is `VsyncLine = 0`. On a PAL console
the visible part goes from 0x5f to 0x239 (`vregs[10]`), so the line lies in the
picture: there gRepaint returns while the old buffer is still scanned, and the next
gRepaint draws into it. `NoTearing` is checked and proved for the blank only.

- `NoTearing`: each row scanned belongs to the page the field began with.
- `DisplayInv`: the inductive invariant. It contains `FrontIsFinished`: the buffer on
  its way to the screen is complete in RAM.
- `RepaintShows`: a repainted page gets to the screen.

## The console program

`XioApp` is the program as the player sees it: the function that runs, the selector,
the page and the load. `Console` keeps of each line its first cell and its length.
`GameLoad` follows f_read's walk along the clusters: each disk_read takes as many
sectors as the cluster has left, straight into the cartridge ROM, where the FPGA swaps
bytes while CFG_SWAP_ON is set. What FatFs does besides either works or fails.

- `AppInv`: the selector stays on an item of its menu or directory whatever the keys,
  what is printed stays inside gfx_buff and its line (`PageFits`), the lines of a page
  lie below each other (`PageInv`), and a load has put what it has read where it belongs
  (`LoadProgress`). It is inductive. An empty directory is the exception: fmLoadDir has
  written the first name only, fmanager.c:51 tests those behind it, and so the selector
  may go anywhere in `inf`; a load from there is one that fails (`LoadNothing`). Of the
  terminal the messages are counted and each is as long as a line has room for
  (`EchoLens`); that its text has a terminating zero is assumed.
- `BootsSelectedFile`: every whole sector of the file is in the ROM in the order of
  the console, and no file boots after an error. The partial last sector goes through
  the CPU by single bytes; the model leaves open what the cartridge makes of it.
- `SwapOnlyInLoad`: fmLoadGame returns early when a read fails and leaves the swapping
  on. That is harmless because the error ends the program in printError.
- `LoadEnds`: a load ends in the game or in the error page.

Not stated, because it does not hold: that an *empty* file starts nothing. fmLoadGame
does not compare `br` with what it asked for.

## The file system

The console program is built with FatFs (`ff/ff.c`, configured by `ffconf.h`: FAT12,
FAT16, FAT32 and exFAT, long names, code page 932, fast seek, read and write, one
volume, sectors of 512 bytes, a sector buffer for each file). It is one thread that
runs to its end, so `FatCore` and `FatApi` write every function of the source as a
function that maps the state `s` before the call to the state after it; `Then` goes on
when nothing failed, `With` in any case. `s.res` is the FRESULT and `s.val` the number
a function returns beside it.

What matters besides results is the way of every sector to the card. `disk_read` and
`disk_write` count the accesses in `s.io`; at access `s.fail_at` the power fails
(`"power"`: nothing works any more), or the card refuses this one access without
(`"lost"`) or after (`"done"`) carrying it out. `FatFs.Faulted` makes every call fail in
every one of these ways at every one of its accesses; `PowerLoss` lets the power fail
between two calls. The next call on a path mounts the volume again.

| model | code |
|---|---|
| `s.disk` | the card, sector by sector: FAT sectors, directory sectors, data, FSINFO |
| `s.win`, `s.winsect`, `s.wflag` | the sector window of FATFS |
| `s.free_clst`, `s.last_clst`, `s.fsi_flag` | allocation hints |
| `s.dp`, `s.lfnbuf` | DIR and the long name buffer of the call at work |
| `s.fp` | FIL with its own sector buffer, flags, error and link map |
| `FatCore` | sync_window, move_window, sync_fs, get_fat, put_fat, remove_chain, create_chain, dir_sdi, dir_next, dir_alloc, dir_read, dir_find, dir_register, dir_remove, follow_path, mount_volume |
| `FatApi` | f_open, f_read, f_write, f_lseek (with and without link map), f_truncate, f_sync, f_close, f_unlink, f_mkdir, f_rename, f_opendir, f_readdir, f_stat, f_getfree |
| `FatFs` | an application: what it has written (`draft`), what must be on the card (`want`), what an unfinished or failed call leaves open (`unsure`) |

The application keeps at most one file open and does not touch that file by another
path, shortens no file that has a link map, and moves no directory into itself: FatFs
checks none of this (`FF_FS_LOCK` is 0).

Abstractions: a name is a model value with the number of long-name entries it needs and
the 8.3 form it is cut to; a directory entry is one of the kinds end, deleted, dot,
long-name part, 8.3; 32-bit counters wrap at 8 bits; attributes and times are left out.

The properties read the card by the definition of the FAT format, not by way of the
code:

- `ChainsDisjoint`: no cluster belongs to two objects.
- `EntriesCovered`: every entry leads to allocated clusters that end and are enough for
  its size, and every sector of a directory was written as one.
- `FinishedSurvives`: what the application finished, and left alone since, is what a
  fresh start reads, whatever failed in between.
- `FreeCountTrue`, `SpaceIsFound`: free clusters are counted and found.
- `AnswersTrue`: results, data and listings are those of an ordinary file system. For
  reads with an open file this includes the two sector caches and data written before.

Three stretches are excused (`s.crit`, `s.torn`), because a power failure there does
damage the volume: f_rename between writing the new entry and removing the old (the
source says so for directories; it is as true of files), f_truncate until the file is
synced, and dir_next between linking a new cluster to a directory and clearing it. A
volume torn this way is not used any further; what other files hold is not excused.

## Files on exFAT

On an exFAT volume a file in one piece has no chain in the FAT. When it fragments, FatFs
keeps some links in memory (`obj.stat`, `n_cont`, `n_frag`) until a seek or f_sync writes
them. `FatEx` has this part of FatFs: the clusters of a file, the allocation bitmap, and
the calls f_open, f_write, f_lseek, f_truncate, f_sync, f_close and f_unlink, with the
same three faults at every access. Its unit is a cluster of one sector; the entry set of
a file is one entry in a directory of one sector.

- `CardKept`: on the card the clusters of a file are in use, belong to it alone, end,
  and hold what was written, whatever call was interrupted or refused where.
- `OpenKept`: the clusters FatFs would follow for the open file, from memory and FAT
  together, are its own and hold what was written.
- `NoneLost`: without a fault the bitmap has exactly the clusters in use.

`ExFilesKept` is all three. Two situations are excused because the card really is not
up to date there. A file that is fragmented on the card and grows by a new fragment is
linked to the new cluster before the FAT entry of that cluster is written: until f_sync
its chain runs into whatever the entry held before, perhaps another file (`risk`). A
refused f_truncate of a file that was just fragmented leaves `obj.stat` at 3, and the
next f_sync writes the links of the freed clusters again (`torn`). Without the first
excuse TLC finds `CardKept` violated.

## Pure computations

`Algorithms` and `Encodings` pick one sample and compare what the code makes of it with
a definition written from the specification it serves. The samples are sets in
`MCAlgorithms`, which runs both. Their loops are recursive functions over the numbers of
their passes, so that both can be proved about. `Algorithms` is about the bus, checksums,
volumes and usb64, `Encodings` about names and directories.

- `BusCarriesFrames` (`SdBus`): whatever length, mode and speed the call before has
  left, a command goes out as whole bytes, its answer comes in bit for bit or not at
  all, a block is read from its first nibble, and a write returns 0 only when the card
  has taken the block and is ready; the register agrees with `bi_sd_cfg` afterwards and
  the timing is restored on every early return.
- `ChecksumsMatch` (`SdCrc`): crc7 and the four-line sdCrc16 against the division of
  polynomials.
- `NamesKept` (`FatNames`, `FatUnicode`, `FatExDir`): a name comes back as it was given, from its
  8.3 form or its long entries; names match only when they are the same up to case,
  whatever the buffer held before; letters of two bytes are never cut; upper case is
  final; code page tables are searched to the end.
  On exFAT (`FatExDir`) a set of entries is read as it was written, with its name, and
  refused when any one byte of it has changed; a file is found by its name up to case
  only, also among names of one hash; after up to four calls that make and remove files
  of one to three name entries, a directory holds exactly the files that must be there,
  each whole, and no entry more.
- `VolumeLaidOut` (`FatMount`): partitions are tried in order; the areas of an accepted
  volume lie behind each other, no two clusters share a sector and the FAT has an entry
  for each; FAT12 entries do not disturb their neighbours; the clusters of an accepted
  exFAT volume lie between the start of its data and its end and share no sector, and its bitmap, which is read by counting sectors up, is
  where the bitmap's chain in the FAT says, as far as the links of that chain are
  clusters of the volume. It speaks of volumes whose sums do not wrap (`NoWrap`,
  `ExNoWrap`): mount_volume adds 32-bit numbers of a parameter block without a test.
- `HostConverts` (`HostData`): each byte order becomes the console's and a file in none of
  them is refused, padding keeps a file whole, bitmap headers and pixels are right. After
  any list of arguments the games started are those given; a start without one, or with
  a file that does not exist, starts what the ROM held before.

## Runs

| run | instance | question | distinct states |
|---|---|---|---|
| `SdSession_tolerated` | 3 sectors, requests of up to 2, 2 contents, tolerated faults | Do driver and card stay together, and does the driver implement the block device? | 56480 |
| `SdSession_recover` | 2 sectors, requests of up to 2, byte-addressed card, every fault, fairness | Is a repeated request safe, and does repeating it get through? | 18116 |
| `SdSession_stray_write` | failing written blocks | Does a write stay in its range? (violated) | |
| `SdInit_lossy` | 3 polls, cards that need up to 5, 2 addresses, fairness | Is success of diskInit true, and does it come? | 20355 |
| `UsbSystem_load` | blocks of 2 units, image of 6 in an area of 8, FIFO of 3, fairness | Does a load work, engine and loader in any order? | 659 |
| `UsbSystem_rerun` | image of 4 in an area of 6, FIFO of 8, 5 runs of usb64, stopped anywhere, the loader left in between | Can what an aborted run leaves start a broken game? | 42958 |
| `UsbSystem_tail` | image of 5 units in blocks of 2 | The same for a length that is no multiple of a block (violated) | |
| `Display_ntsc` | 3 rows, 3 pages, fairness | Can a field be torn, a page be lost? | 3336 |
| `XioApp_session` | the program's own screen and list; 4 directories, 6 files, 26 messages | Do pages fit, is the booted game whole? | 682 |
| `FatFs_tree` | FAT32, 7 clusters of one sector, directories and long names, 3 calls, a fault | Is the volume consistent after any failure of create, remove, rename and mkdir? | 46779 |
| `FatFs_file` | FAT16, 3 clusters of 2 sectors, one file read, written, cut and sought, 5 calls, a fault | Is the data right through both caches, the link map and a full volume? | 102148 |
| `Algorithms` | the samples; exFAT with 5 clusters, 2 files, 6 calls, a fault | Are the pure functions right, do files survive on exFAT? | 639863 |

Why the bounds are enough:

- Sessions: a request covers one or two of three sectors, so there are sectors before,
  inside, between and behind two requests, streams that continue, stop short and start
  elsewhere, and the end of the card. Two contents make every wrong sector visible. For
  any sizes see the proofs. The recovery run has two sectors, because its temporal
  formulas multiply the state graph.
- Initialisation: three polls and cards that need zero to five have cards that are ready
  at the first, a middle and the last poll, one later, and never.
- USB: the image has at least two blocks, so that the engine receives one while another
  is copied and there is a last one; a FIFO of three units is shorter than a block and a
  command together, so the host blocks in the middle of each. The run with aborts has a
  FIFO of eight, which holds the commands and the image of a run that nobody reads: a
  short FIFO would hide what a player who leaves at any time can bring about. Five runs
  are enough to bring the engine, the FIFO and the loader out of phase and back; the
  theorems have no such bounds.
- Display: three rows have a first, an inner and a last one; three pages use each buffer
  again.
- Application: screen, list and name limits are the program's own, since overruns depend
  on them; clusters of two sectors in chains that are not contiguous.
- FatFs, tree: the setup leaves two clusters free beside a file in two of them and two
  directories; a long name needs two entries beside its 8.3 entry and fills a directory
  sector of three, so that directories stretch and the volume fills up; the FAT has
  three sectors, so that two links of a chain may be in different ones. Three calls are
  one that changes, one that fails, and one that meets what is left. `FatFs`'s runs take
  every fault at every access, one fault each.
- FatFs, file: positions inside, at the end of and behind a sector, a cluster, the file
  and the volume; five calls open, move, change, look and close.
- Samples: names of up to six characters cross every boundary of a name field of two or
  three; sums and hashes have their 16 bits; the small parameter blocks include each
  limit of the tests from both sides.
- exFAT: five clusters allow a file in three pieces, and a second one in between; four
  FAT entries to a sector put links into two sectors; a behaviour begins with an empty
  volume or with a file in two pieces. Longer behaviours (seven calls) have been
  checked as well.

Deadlock is checked for the driver, the card and the display, which never stop. It is
off in the other runs: a booted game and printError are ends of the program, the user
stops running usb64, and the FatFs and `Algorithms` runs have a bounded number of calls
and samples.

Fairness. `SdSession`, `SdInit`: weak fairness of the driver, a loop that goes on, and
of the card that finishes programming; no fairness of callers or faults, and recovery is
conditional on a caller that keeps calling. `UsbSystem`: weak fairness of the loader's
and the host's loops, of the engine while the FIFO holds something, of both timeouts,
and of the player entering the loader (for `GameStarts`). `Display`: weak fairness of
the scan, and strong fairness of the CPU's steps, since gVsync polls the line register
some thousand times per line and so meets a line that comes again and again. `XioApp`:
weak fairness of a running load, which waits for nothing but bounded loops. FatFs has
no liveness to state: each call is a loop over a bounded volume.

## Proofs

`SdSession_proofs`, for any number of sectors, any contents, requests of up to 32768
sectors (FatFs's largest cluster, which is where `U16` is the identity), both kinds of
addressing, and any set of faults inside `Tolerated`:

- `SessionInvariant`: `Spec => []SessionInv`, and from it `TypeCorrect`, `Alignment`,
  `ReadsCorrect`.
- `WritesCorrect`: `Spec => WritesStayInRange`.
- `Implements`: `Spec => ImplementsBlockDevice`, the initial states and each step mapped.

`SessionInv` is the inductive invariant. Neither `SessionAligned` nor the property of
reads is inductive: alignment between calls follows only from what a running transfer
still owes (`Owed`), from `done` and `disk_cur_addr` agreeing with the request
(`TransferInv`), and from where in a request the mode can be what (`RequestInv`). Four
lemmas take the actions in groups (calls, opening and closing, commands, blocks), with
one step per action and under it one per conjunct that the action can disturb.
`CountFits` isolates the arithmetic of the constants and `ArgNamesSector` that the
argument of a command names the sector meant, on both kinds of card.
`WritesCorrect` needs the invariant twice: a block is stored only by `WriteBlock`, and
there `Owed` places it inside the request. `SyncCorrect` is about other faults
(`SyncTolerated`: initialisation fails, CMD18 or CMD25 lost, blocks that fail) and has an
invariant of its own, `SyncInv`: a card that is receiving is known to be, and one that
is programming is waited for.

The second part of `SdSession_proofs` is about the same constants and every set of
faults, where `SessionInv` is lost:

- `RetriesAreSafe`: `Spec => []RetryIsSafe`; `WriteSessionHeld`:
  `Spec => []WriteSessionHeldByCard`; `TypesWhateverIsLost`: `Spec => []TypeOK`.

`RetryInv` replaces the alignment by what a failure leaves: `NoReuse`, the mode and the
address do not fit the failed request, since the address was advanced by `count >= 1`;
so its repetition closes the stream and opens one of its own, at its own sector. A
repetition that finds `disk_mode` at NOP has a card without a transfer before it, which
is what the exclusion of a lost CMD12 is for.

`SdInit_proofs`, for any set of lost commands and answers, any bound on the polls and any
card:

- `DriverFollowsCard`: `Spec => []FollowInv`.
- `CleanCallsSucceed`: `Spec => []CleanCallSucceeds`.
- `InitInvariant`: `Spec => []InitInv`, and `InitIsSound`: `Spec => []InitSound`, both
  for a bus that keeps CMD8 and its answer (`CMD8Kept`), the assumption `InitSound` needs
  (see above).

`InitSound` speaks of the end of a call only. `FollowInv` carries the state of the card
from command to command; `TypeInv` carries the capacity bit from the answer to CMD41 to
`disk_card_type`; `CleanInv` counts: as long as nothing is lost the card has seen each
poll the driver has counted, so the driver gives up no earlier than the card is ready.
The attempt to prove this found the model of the card wrong at one place: two guards of
the CASE in `Reactions` were true of an empty slot, and TLA+ does not say which branch
is taken. An empty slot is now asked for first.

`UsbSystem_proofs`, for any size of block, image, checked area, file name, ROM and FIFO,
any number of runs, and an image that consists of whole blocks (`WholeImage`; a tail
violates `BootsWholeImage`, see below). The steps of the console and of a host that runs
are proved once, of `At(p)`: the console has taken `p` units of what is written and does
what unit `p` is for. Two invariants are built on it.

When the load is `Undisturbed` (the host neither stalls nor is stopped, the player does
not leave the loader), with and without old answers:

- `LoadIsInOrder`: `Spec => []LoadInv`, and from it `WholeImagesBoot`
  (`BootsWholeImage`), `RomIsWrittenInPlace` (`RomHoldsImageOnly`), `CommandsAreCommands`
  (`NoDataAsCommand`), `EngineIsIdle` (`EngineIdleBetweenCommands`) and `NotFoundIsTrue`
  (`NotFoundMeansAbsent`).

When the runs are `Rerunnable` (usb64 may be stopped at any point, may give up, and is
run again, the player leaves and enters between runs; the host does not stall and an
answer that nobody read is dropped when the port is opened):

- `RerunIsInOrder`: `Spec => []RerunInv`, and from it `RerunsBootWholeImages`
  (`BootsWholeImage`) and `RerunCommandsAreCommands` (`NoDataAsCommand`).

None of the properties is inductive, because two programs on either side of a FIFO know
of each other only by counting. `LoadInv` counts for them: `Sent` is how much of the
stream `W`, image, `s`, name the host has written, `Taken` how much of it the console has
taken. `LinkInv` says that what is in the FIFO and what the host still holds is the
program, from unit `Taken + 1` on; `LoaderAt(p)` that each place of the loader belongs to
one value of `p`: between commands it stands before the stream or behind the image, in a
block at `addr` and what the engine has received. A `t` or a `c` that nobody has taken
yet is counted below zero. `FillInv` says that a fill which was asked for is done or lies
ahead of the `W`, `AnswerInv` that a host that waits for an answer has one on its way,
which is why no timeout of the host can put it out of step.

After a run has ended early nobody counts any more, and `RerunInv` has two cases. Either
the console still stands at some unit `p` of what was written (`InStep(p)`, with
`p = Taken` for a run that goes on), or the end of a run has cut a block in two
(`Interrupted`). In the second case the invariant says nothing of the ROM; it says that
the runs since then have got no answer and so have sent tests only, and that what the
engine or usbCmdRomWR still waits for is a number of units, whatever they are. To read
one of the tests as a command starts the engine anew, and the console is in step again
(`InStep` at an early `p`); only then is a test answered, and only then does a run go on
to its `c` and `W`. Old answers are excluded because they would let a run go on while
the loader is interrupted; `"quiet"` leaving because the menu would keep units of a
dead run in the FIFO.

The proof has one lemma per action and group of invariants, and the arithmetic of blocks
and units (`OneBlockLess`, `FirstTaken`, `LastAdded`, ...) is in lemmas of its own.

`XioApp_proofs`, for every set of files, chain of clusters, cluster size, ROM and
directory:

- `LoadsInOrder`: `Spec => []LoadProgress`; `GameIsTheFile`:
  `Spec => []BootsSelectedFile`; `SwapIsOff`: `Spec => []SwapOnlyInLoad`.
- `PagesStayOnScreen`: `Spec => []AppInv`, on every screen that has room for the longest
  page, a full list of names cut to their length, and the messages of the terminal
  (`ScreenHolds`; the program's own sizes meet it with 26 messages, and not with 27). The
  keys are any and the directories too; in an empty one it says of the selector that it
  stays in `inf`, which is all that the code ensures there.

`LoadProgress` says of a load in the middle that the sectors below `fptr` are in place
and in the console's order (`InRom`), and that `clust` is the cluster of the sector
before `fptr`. The latter makes f_read's walk, which goes to the next cluster at
multiples of `csize` only, agree with the definition of the k-th sector of a file, which
divides (`ClusterIs`, `SameCluster`). A page of `n` lines fits because its last line ends
before row `G_BORDER + n` does (`LineEnds`).

`Display_proofs`, for any number of rows and pages, with `VsyncLine = 0`:

- `DisplayInvariant`: `Spec => []DisplayInv`; `Untorn`: `Spec => []NoTearing`.

`NoTearing` alone is not inductive: it needs that the CPU and the video interface never
share a buffer except between switch and next field (`pc # "app" => buff_sw # origin`),
that what has been drawn so far is in the cache or already behind it (`Drawn`), and
that a running field shows the buffer `origin` stands for, which is where the blank
comes in.

`SdBus_proofs`, over the samples of `Algorithms`, for every bus that a call may have left
behind (`Buses`), any answers, blocks and delays (`BusAssumption`: an answer has 48 or 136
bits and begins with two zeros, a block has `BlockWords` words of four nibbles), and any
limits of the polling loops:

- `BusIsTrue`: `Spec => []BusCarriesFrames`.
- `Crc7IsRemainder`, `Crc16IsRemainder`, and from them `ChecksumsAreTrue`:
  `Spec => []ChecksumsMatch`.

A loop of the driver is a function of its passes (`LET f[n \in 0 .. N] == ...`); a proof
names that function and goes by induction over its passes. Of the bus the invariant of
all loops is `Steady`: the register holds what the program believes it does, and the
direction is the one in force. Under it three lemmas say what a read shows: eight new
clocks (`ShownAfterByte`), the last eight after one more clock (`ShownAfterBit`), four
nibbles. A polling loop ends at the first clock that shows the start bit (`FirstPoll`), so
an answer is aligned whatever the delay before it; a call that reads or writes several
blocks meets each one behind the end of the one before it (`FramesBring`), which is why
the model gives the block behind a block one clock less to come in (`InTime`).

The checksums are proved against the division of polynomials that the SD specification
asks for. crc7 mixes each byte into the register first and then shifts: the invariant of
its inner loop is that the register holds the remainder one place up, with the bits of
the byte that have not been divided yet mixed in (`Mixed`). A step of sdCrc16 through the
table is eight divisions at once: division is linear, so a byte and the upper half of the
old checksum may be divided together and the lower half be added. That the 256 entries of
the table are the remainders of their index is `TableAssumption`, which TLC evaluates for
each of them; it is a fact about constants of the source, not about a parameter. The loop
that shuffles the four checksums into crc_out is proved by counting how many bits of each
line are taken and how many of each word are filled (`Shuffled`).

`Algorithms_proofs`, for every parameter block and every volume:

- `AcceptedAreas`: the FATs, the root directory and the data of an accepted volume whose
  sums do not wrap (`NoWrap`) lie one behind the other.
- `AcceptedEntries`: the FAT entry of every cluster of such a volume lies inside the FAT.
- `ClustersAreApart`: `clst2sect` gives no sector of such a volume to two clusters.
- `EntriesApart`: a FAT12 entry is read back as it was written and writing it changes no
  other, the one it shares a byte with included.
- `FirstIsMounted`: find_volume takes the first partition that holds a volume.
- `ExClustersFit`: every cluster of an accepted exFAT volume (`ExNoWrap`) lies behind the
  start of its data and before its end (`ExClustersInside`), and no two share a sector
  (`ExClustersApart`). `BitmapIsInPlace`: the sectors counted up from the first one of the
  bitmap are those of its chain.
- `VolumesLaidOut`: `Spec => []VolumeLaidOut`, from all of these. `MountAssumption` bounds
  the limits of the cluster counts by what 32 bits hold (`MAX_EXFAT + 2 < DWORDS`), as
  those of ff.c are.

The lemmas under them are the arithmetic of rounding up, of the FAT12 entry's byte and a
half, and of the layout's sums. For the bitmap, mount_volume compares each link of the
chain with the next number until it meets the end of the chain; by induction the chain
is the row of clusters from the first one.

And for files of every length and content, every size of a block and every list of
arguments:

- `ImagesConvert`: an image kept in any of the three orders of `LoadRom` reaches the
  console in the console's order, every whole block of it. It rests on two lemmas about
  `reverse_each`, a function from places to places: a byte and the one it changes places
  with lie in one piece, so each order is its own inverse (`ReverseTwice`), also where
  the last piece is shorter; and the header of a converted image is the converted header
  (`HeaderTells`), by which `LoadRom` knows the order.
- `OthersAreRefused`: a file without the magic word in any order is not loaded.
- `FpgaIsWhole`: padding keeps a configuration whole and adds less than a block.
- `StartsGiven`: usb64 starts a game only with a ROM that it was given, or with the one
  that was there when it was given none. The invariant of the loop over the arguments
  (`LoopInv`) ties the ROM that is written, the file name that `-start` will use and
  whether a file has failed to the arguments behind it; after a file that failed nothing
  is started.
- `PixelIsKept`, `HeaderIsTrue`: each pixel of a screen shot keeps its five bits, and the
  header says a width below 65536 and, of a file below 64 KB, its size: the code keeps
  sixteen bits of each.
- `HostConversions`: `Spec => []HostConverts`.

And about what `Encodings` samples, for every length of the fields of a name (`Body`,
`Ext`, `Part`) and of an exFAT entry (`XPart`):

- `CodesAreFound`: in a sorted code page table of up to 32768 pairs the search finds each
  code, and no other. The stretch between `li` and `hi` halves with every pass and always
  holds the code if there is one (`Searching`, `Narrow`), so that sixteen passes do.
- `LongNamesMatch`, `LongNamesReturn`: a long name of any length, cut into entries, matches
  the name looked for exactly when both are the same up to case, and is read as it was
  written, whatever earlier names have left in the buffer. Both go by induction over the
  entries: `cmp_lfn` of one entry says that the two names agree where it lies (`Agrees`),
  and after `pick_lfn` of one entry the buffer holds the rest of the name from there on
  (`Placed`). The last entry, whose end may fall on the end of the name, is a case of its
  own in each.
- `FormsKeepLetters`, `NumbersKeepLetters`: the 8.3 form of any name, and its numbered
  variants, hold no half of a letter of two bytes. The invariant of create_name's loop is
  that what is written so far is whole and the rest of the field blank (`FieldFilled`); of
  gen_numname's that it stands at the start of a letter (`LetterStarts`).
- `ChangesAreRefused`: load_xdir refuses a set of entries of any length and content after
  a change of any one byte, except the one that counts its entries. Rotation keeps what
  two sums differ in and adding equal bytes does too, so a difference never gets lost
  (`SumsDiffer`). The count decides how many bytes are summed, and so a changed one is
  seen by TLC on the samples only.

`Induction` is what these two modules rest on. The induction theorems of the library take an
operator as a parameter, which the provers cannot be given; here a statement is the set
of the numbers it holds of (`ForAllNumbers`, `ForAllBelow`), obtained from the
well-foundedness of the numbers, and a recursive function is known by its first value and
its step (`StepsExist`). So induction over numbers is available, for definitions that
recur by functions.

Model-checked only:

- Liveness: the prover has no fairness and no ENABLED, so `ReadRetryRecovers`,
  `WriteRetryRecovers`, `CallReturns`, `GameStarts`, `RepaintShows` and `LoadEnds` stay
  with TLC.
- `UsbSystem` when both a run may be stopped and an old answer may survive, when the host
  stalls, or when the player leaves at any time: `BootsWholeImage` does not hold there.
- FatFs above the layout of a volume: `ChainsDisjoint`, `EntriesCovered`,
  `FinishedSurvives`, `FreeCountTrue`, `AnswersTrue` and `SpaceIsFound` of `FatFs`,
  `ExFilesKept` of `FatEx`, and what the theorems on names, code pages and sums leave of
  `NamesKept`. `FatCore`, `FatApi` and `FatEx` are written with RECURSIVE operators, over
  chains and directories, about which the prover can show nothing; and a step of `FatFs` is a whole call with a fault at any of its accesses, so an inductive invariant
  would have to hold between any two accesses of every call.

## Where code and documents disagree

Each one is a run whose property TLC finds violated, with the trace as its witness.

1. `SdSession_stray_write` (disk.c:326). A write that fails in the middle leaves
   `disk_mode` at WR and `disk_cur_addr` behind its last sector. A write that starts
   there continues the card's stream where it really stopped, and stores its data over
   sectors that neither request named. Repeating the failed write is safe; going on
   with the next one is not.
2. `UsbSystem_tail` (CommandProcessor.cs:317). The length of an image is rounded down to
   blocks, its data is not. The tail is read as commands and never reaches the ROM.

Seen while modelling, without a run of their own:

- When bi_usb_busy gives up in the middle of an image the block is lost, nobody is told
  (usb.c:92), and the `s` that follows starts a ROM with a hole: `HostStalls` TRUE
  violates `BootsWholeImage`.
- When the player leaves the loader while usb64's packets are still unread, and usb64 is
  run and fails a few times, a later run can start a ROM that does not hold its image:
  `PlayerLeaves = "any"` violates `BootsWholeImage` (see "Loading over USB"). The
  protocol has no start mark and no number by which an answer could be told from an
  older one (usb.c:68, CommandProcessor.cs:280).
- The 27th message of the terminal is printed behind gfx_buff (usb.c:38): `MaxMessages`
  28 violates `AppInv`.
- diskCloseRW's busy loop ends after 65534 polls and CTRL_SYNC then reports success while
  the card is still programming: `SyncCompletes` does not hold with the fault `busy`.
- After an aborted transfer the receive engine takes the first packet of the next run,
  so that usb64 may report a running console as missing (`NotFoundMeansAbsent` holds
  without aborts).
- README.MD and the help give `-start` without a value. ExtractSubArg then returns the
  argument itself (Program.cs:197), so the save file is named "-start", and the branch
  that takes the ROM's name is reached with `-start=` only.
- The two exFAT situations and the three FAT situations described above.
- On exFAT, a file whose first write failed after its cluster was taken gets an entry
  with a cluster and no size; get_fat has no answer for it (ff.c:1216), and removing or
  overwriting it ends in FR_INT_ERR.
- A file that begins with no known header is, by the message of usb64, "presumed" an
  emulator ROM (CommandProcessor.cs:172), and the next line moves the address it would be
  written to by 0x200000. But that branch reads nothing of the file: IsBootLoader then
  indexes the empty image (CommandProcessor.cs:301) and throws, so that no emulator ROM
  can be loaded (theorem `OthersAreRefused`).
- A `-rom` whose file does not exist does nothing (CommandProcessor.cs:119), and `-start`
  then starts the game that was in the ROM before, under the new name; `HostConverts`
  allows it.
- In an empty directory the file manager tests names that fmLoadDir has not written
  (fmanager.c:51). The selector may leave the empty list, and A then opens whatever name
  is found there; in the model this fails.
- usbTerminal writes a 1 behind the four bytes it prints (usb.c:19), which ends no string:
  gAppendString prints on to the next zero in memory, past the line if it has to.
- An empty file chosen in the file manager boots what the ROM held before
  (fmanager.c:108-120 never compares `br` with what it asked for), and a file beyond
  64 MB wraps around in the ROM.

Hazards that are not in the list of `PROJECT.json`, because no property here speaks of
them and the code gives no promise about them: f_rename moves a directory into itself
(ff.c:5161); a link map is not updated when its file is cut (4458); a search for a free
numbered name ends after 99 tries (2577); the cache lines of a DMA target are dropped
before the transfer, not after it (sys.c:161); the bitmap header keeps 16 bits of sizes
(ImageUtilities.cs:45).

## What is not modelled

- *exFAT beyond files*: f_mkdir, f_rename, and a fault between the entries of a set: in
  `FatEx`, which has the faults, a set is one entry; `FatExDir`, which has the sets, has
  no faults. The new size of a directory that grew, which dir_register notes in the set
  of the directory, and the field of zeros in the boot sector are left out.
- *FatFs options that are switched off*: f_mkfs, f_fdisk, f_expand, f_forward, f_findfirst,
  f_chmod, f_utime, labels, strings (f_gets, f_printf), relative paths, locks, tiny
  buffers, 64-bit sector numbers, other encodings of names. They are not compiled.
- *The code page tables of `ffunicode.c`*: 15,600 of the 25,700 lines of implementation
  are tables of constants, for twenty code pages of which one is compiled; the search
  through a table and the compressed upper-case table are modelled. A model of the
  constants would repeat them. Together with the options above they are why the modelled
  lines are a small share of all lines while nearly all lines of the programs' own
  logic are modelled.
- *FAT12 chains*: FAT12 is modelled at its entries; from get_fat and put_fat upwards it
  is the same code as FAT16.
- *The composition of FatFs with the SD session*: FatFs meets the card through
  disk_read, disk_write and CTRL_SYNC, one at a time; `SdSession` shows what these keep
  (`BlockDevice`), `FatFs` what follows when each of them may fail or stop. Both at once
  are too many states for TLC.
- *usb64's* diagnostics, dumps and FPGA load. The console program of this repository does
  not answer `R`, `r` or `f`, so there is no other side to model.
- *boot_simulator*: assembler that never returns, modelled as the end of the program.
- *PI DMA*: polled to its end inside one call, so a call is one step. Its cache-line
  hazard is a matter of where the compiler puts variables.
- Build files, documents, prebuilt tools and resources.

## Plan

Modelled, in this order: `BlockDevice`, `SdSession` and its proofs; `UsbLink`, `XioUsb`,
`Usb64Host`, `UsbSystem`; `SdInit`; `Display` and its proofs; `Console`, `GameLoad`,
`XioApp`; `SdBus`, `SdCrc`, `HostData`; `FatCore`, `FatApi`, `FatFs`; `FatNames`,
`FatUnicode`, `FatMount`; `FatEx`, `FatExDir`.

Proved since: `SdInit` (`InitInv`, `InitSound`, `CleanCallSucceeds`), `SdSession` with every
fault (`RetryIsSafe`, `WriteSessionHeldByCard`), `UsbSystem` without aborts (`LoadInv` and
what follows from it) and with them (`RerunInv`, `BootsWholeImage`), `XioApp` with
`GameLoad` (`BootsSelectedFile`, `SwapOnlyInLoad`, `AppInv`), `FatMount` (`VolumeLaidOut`),
`HostData` (`HostConverts`), `SdBus` (`BusCarriesFrames`) and `SdCrc` (`ChecksumsMatch`).
For the last four, and for `FatUnicode`, `FatNames` and `FatExDir`, the RECURSIVE operators
were rewritten as recursive functions; of these three the main loops are proved
(`CodesAreFound`, `LongNamesMatch`, `LongNamesReturn`, `FormsKeepLetters`,
`NumbersKeepLetters`, `ChangesAreRefused`).

Left:

- All of `NamesKept`: the upper-case tables, the name made from an 8.3 form again, and the
  directories of `FatExDir` after any calls.
- `ChainsDisjoint` and the other invariants of `FatFs` for every volume, which needs
  chains without recursion and a model of its own.
- The lemma that a block which `SdBus` carries is the block that `SdSession` counts, as
  one refinement of the two.

## Using the development

```
tlc -workers 4 -config SdSession_tolerated.cfg MCSdSession
tlapm SdSession_proofs.tla
```

`PROJECT.json` lists, for machines, the runs, the mutants, the source lines of every
definition, the findings, the hazards of the code with the properties that watch them,
and the theorems.
