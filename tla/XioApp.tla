-------------------------------- MODULE XioApp --------------------------------
(***************************************************************************)
(* The console program without its USB loader: main and demoMenu           *)
(* (ED64-XIO/src/main.c), the file manager (fmanager.c), the file demos    *)
(* (ff/fileio.c) and the USB terminal (ff/usb.c), with the pages they      *)
(* print and the game that the file manager loads.                         *)
(***************************************************************************)
EXTENDS Console, GameLoad

CONSTANTS
  Dirs,            \* root directories: sequences of items
  MAX_DIR_SIZE,    \* items the file manager shows
  MAX_STR_LEN,     \* characters it shows of a name
  EchoLens,        \* lengths of what the terminal prints for one message
  MaxMessages      \* messages the terminal gets (a bound)

\* An item: length of its name; whether it is a directory; the file.
Item(len, isdir, f) == [len |-> len, isdir |-> isdir, file |-> f]
ItemType == [len : Nat \ {0}, isdir : BOOLEAN, file : Files]

ASSUME DirAssumption ==
  /\ MAX_DIR_SIZE \in Nat \ {0} /\ MAX_STR_LEN \in Nat /\ MaxMessages \in Nat
  /\ EchoLens \subseteq Nat
  /\ Dirs \subseteq Seq(ItemType)

VARIABLES
  app,       \* the function that runs
  selector,  \* of the menu, of the file manager
  dir        \* the root directory

vars == <<app, selector, dir, consoleVars, loadVars>>

Places == {"mount", "menu", "fmanager", "load", "fileRead", "fileWrite", "usbTerminal",
           "usbLoadGame", "edid", "game", "halted"}

\* demoMenu's items and their lengths behind ten blanks and the cursor.
Menu == <<"fmanager", "fileRead", "fileWrite", "usbTerminal", "usbLoadGame", "edid">>
MenuPage == <<23, 20, 21, 23, 21, 23>>

\* The pages of the functions that print one: their lines.
PageOf == [fileRead    |-> <<31, 15, 0>> \o [k \in 1 .. 16 |-> 32],
           fileWrite   |-> <<20, 0, 32, 8, 15>>,
           usbTerminal |-> <<21, 15>>,
           usbLoadGame |-> <<24, 15>>,
           edid        |-> <<22, 0, 31, 0, 15>>]

\* MUTANT of Listed: fmLoadDir does not stop at max_items.
Listed_All == Len(dir)

\* What fmLoadDir has read, and the page: a cursor and at most MAX_STR_LEN
\* characters of the name.
Listed == IF Len(dir) < MAX_DIR_SIZE THEN Len(dir) ELSE MAX_DIR_SIZE
NameShown(len) == IF len < MAX_STR_LEN THEN len ELSE MAX_STR_LEN
DirPage == [k \in 1 .. Listed |-> 1 + NameShown(dir[k].len)]

TypeOK ==
  /\ app \in Places
  /\ selector \in Nat
  /\ app = "menu" => selector < Len(Menu)
  /\ app = "fmanager" => selector < Listed \/ (Listed = 0 /\ selector < MAX_DIR_SIZE)
  /\ dir \in Dirs
  /\ g_cons_ptr \in Nat
  /\ load_pc \in LoadPlaces /\ file \in Files
  /\ fptr \in 0 .. RomSectors
  /\ swap \in BOOLEAN /\ failed \in BOOLEAN

Init ==
  /\ app = "mount" /\ selector = 0 /\ dir \in Dirs
  /\ lines = <<Line(Home, 11)>> /\ g_cons_ptr = Home + G_SCREEN_W
  /\ LoadInit /\ \E d \in Dirs : d # <<>> /\ file = d[1].file

\* printError does not return.
PrintError == app' = "halted" /\ Page(<<9>>) /\ UNCHANGED <<selector, dir>>

ShowMenu(s) == app' = "menu" /\ selector' = s /\ Page(MenuPage) /\ UNCHANGED <<dir, loadVars>>

ShowDir(s) == app' = "fmanager" /\ selector' = s /\ Page(DirPage) /\ UNCHANGED <<dir, loadVars>>

\* An error of FatFs in main or demoMenu.
FatError ==
  /\ failed' = TRUE
  /\ PrintError
  /\ UNCHANGED <<load_pc, file, fptr, clust, swap, rom>>

\* f_mount
Mount == app = "mount" /\ (ShowMenu(0) \/ FatError)

MenuUp == app = "menu" /\ selector # 0 /\ ShowMenu(selector - 1)
MenuDown == app = "menu" /\ selector < Len(Menu) - 1 /\ ShowMenu(selector + 1)

\* A in the menu.  The file functions may fail, and demoMenu returns then.
Enter ==
  /\ app = "menu"
  /\ LET item == Menu[selector + 1]
     IN  \/ item = "fmanager" /\ ShowDir(0)
         \/ /\ item # "fmanager"
            /\ app' = item /\ Page(PageOf[item])
            /\ UNCHANGED <<selector, dir, loadVars>>
         \/ item \in {"fmanager", "fileRead", "fileWrite"} /\ FatError

\* B: demoMenu's loop shows the menu again with its own selector.
Leave ==
  /\ app \in {"fmanager", "fileRead", "fileWrite", "usbTerminal", "usbLoadGame", "edid"}
  /\ \E k \in 1 .. Len(Menu) : Menu[k] = app /\ ShowMenu(k - 1)

\* The terminal prints what it has received up to the first zero: of the four
\* characters, or behind data[4], which is 1, of what follows in memory.
Echo ==
  /\ app = "usbTerminal" /\ Len(lines) < Len(PageOf["usbTerminal"]) + MaxMessages
  /\ \E len \in EchoLens : ConsPrint(len)
  /\ UNCHANGED <<app, selector, dir, loadVars>>

-----------------------------------------------------------------------------
\* fmanager

DirUp == app = "fmanager" /\ selector # 0 /\ ShowDir(selector - 1)

\* The item behind the last one read has an empty name.  In an empty directory
\* that is inf[0], and the test reads names which nobody has written: it may go
\* either way.
DirDown ==
  /\ app = "fmanager" /\ selector + 1 < MAX_DIR_SIZE
  /\ selector + 1 < Listed \/ Listed = 0
  /\ ShowDir(selector + 1)

\* A on a file.
LoadSelected ==
  /\ app = "fmanager" /\ selector < Listed /\ ~dir[selector + 1].isdir
  /\ app' = "load" /\ Page(<<10>>)
  /\ StartLoad(dir[selector + 1].file)
  /\ UNCHANGED <<selector, dir>>

\* A in an empty directory: inf[0] has an empty name, the later ones whatever
\* was there, and nobody has written their attributes; f_open fails, there is
\* no such file.
LoadNothing ==
  /\ app = "fmanager" /\ Listed = 0
  /\ FatError

Loading ==
  /\ app = "load" /\ LoadStep
  /\ UNCHANGED <<app, selector, dir, consoleVars>>

\* MUTANT of LoadReturnsError: the result of fmLoadGame is not looked at.
LoadReturnsError_Ignored ==
  /\ app = "load" /\ load_pc = "error"
  /\ app' = "game"
  /\ UNCHANGED <<selector, dir, consoleVars, loadVars>>

\* MUTANT of LoadReturnsError: the file manager tries again.
LoadReturnsError_Retries ==
  /\ app = "load" /\ load_pc = "error"
  /\ load_pc' = "open"
  /\ UNCHANGED <<app, selector, dir, consoleVars, file, fptr, clust, swap, rom, failed>>

\* fmanager and demoMenu return the error to main.
LoadReturnsError ==
  /\ app = "load" /\ load_pc = "error"
  /\ PrintError
  /\ UNCHANGED loadVars

\* boot_simulator
Boot ==
  /\ app = "load" /\ load_pc = "loaded"
  /\ app' = "game"
  /\ UNCHANGED <<selector, dir, consoleVars, loadVars>>

LoaderRuns == Loading \/ LoadReturnsError \/ Boot

Next ==
  \/ Mount \/ MenuUp \/ MenuDown \/ Enter \/ Leave \/ Echo
  \/ DirUp \/ DirDown \/ LoadSelected \/ LoadNothing \/ LoaderRuns

Spec == Init /\ [][Next]_vars

\* fmLoadGame waits for nobody but the card, whose answers the driver bounds.
FairSpec == Spec /\ WF_vars(LoaderRuns)

-----------------------------------------------------------------------------
(***************************************************************************)
(* Properties.                                                             *)
(***************************************************************************)

\* A game is booted only with every whole sector of its file in the ROM, in the
\* byte order the console executes, however its clusters lie on the card, and
\* never after an error of the card or of the file system.
BootsSelectedFile ==
  app = "game" => ~failed /\ \A k \in 0 .. file.size - 1 :
                    rom[k] = Content(SectorOfFile(file, k), "z64")

\* The byte swapping is on only while a file is loaded; when an error makes
\* fmLoadGame return too early (fmanager.c:124), nothing is read any more.
SwapOnlyInLoad == swap => app \in {"load", "halted"}

\* A load ends: the game runs, or the error is shown.
LoadEnds == (app = "load") ~> (app \in {"game", "halted"})

\* The lines of a page lie below each other, and the next one below them.
PageInv ==
  /\ lines \in Seq([start : Nat, len : Nat])
  /\ g_cons_ptr = Home + Len(lines) * G_SCREEN_W
  /\ \A k \in 1 .. Len(lines) : lines[k].start = Home + (k - 1) * G_SCREEN_W

\* Sectors of the file that are in the ROM as the console executes them.
InRom(n) ==
  \A k \in 0 .. n - 1 :
    k < file.size => rom[k] = Content(SectorOfFile(file, k), "z64")

\* What a load has done so far.
LoadProgress ==
  /\ rom \in [0 .. RomSectors - 1 -> [sect : Int, order : {"z64", "v64"}]]
  /\ clust \in Nat
  /\ app = "load" => load_pc # "none"
  /\ load_pc # "none" => app \in {"load", "game", "halted"}
  /\ app = "game" => load_pc = "loaded"
  /\ failed => app = "halted" \/ load_pc = "error"
  /\ load_pc \in {"none", "open", "header"} => fptr = 0
  /\ load_pc \in {"none", "open", "header", "close", "loaded"} => ~swap
  /\ load_pc = "read" =>
       /\ fptr <= Sectors(file)
       /\ fptr # 0 => clust = (fptr - 1) \div csize + 1
       /\ Sectors(file) # 0 => (swap <=> file.order = "v64")
       /\ InRom(fptr)
  /\ load_pc \in {"close", "loaded"} => InRom(file.size)

\* Whatever keys are pressed, the selector stays on an item of the directory,
\* in an empty one at least inside inf, every page fits gfx_buff, whatever the
\* directory, and a load reads cluster after cluster where the file has them.
AppInv == TypeOK /\ PageFits /\ PageInv /\ LoadProgress
=============================================================================
