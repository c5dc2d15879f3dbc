------------------------------- MODULE Display -------------------------------
(***************************************************************************)
(* gRepaint and gVsync (ED64-XIO/src/sys.c): the CPU draws the character   *)
(* page into one of two frame buffers, through its data cache, while the   *)
(* video interface (VI) scans the other one out of RAM.                    *)
(***************************************************************************)
EXTENDS Integers

CONSTANTS
  Rows,       \* character rows of a frame, scanned from 1 on
  VsyncLine,  \* where gVsync waits: 0 is the vertical blank after the last row
  MaxPages    \* pages the program shows (a bound)

ASSUME RowsAssumption == Rows \in Nat \ {0}
ASSUME LineAssumption == VsyncLine \in 0 .. Rows
ASSUME PagesAssumption == MaxPages \in Nat

VARIABLES
  gfx_buff,   \* the character page: its number; 0 before the first
  buff_sw,    \* the frame buffer drawn to
  ram,        \* page number of each row of each frame buffer in RAM
  cache,      \* the same in the data cache; Clean where RAM is up to date
  pc,         \* "app", "draw", "flush", "leave", "enter"
  row,        \* next row to draw
  origin,     \* VI_ORIGIN (vregs[1]): the frame buffer the next field shows
  vi_line,    \* the row the VI scans, 0 in the blank
  shown,      \* the frame buffer this field shows
  flipped,    \* page that was complete when origin was set (history)
  field       \* the same for the running field (history)

cpuVars == <<gfx_buff, buff_sw, pc, row>>
viVars == <<vi_line, shown, field>>
vars == <<cpuVars, ram, cache, origin, flipped, viVars>>

Clean == -1
RowsOfPage == 1 .. Rows

TypeOK ==
  /\ gfx_buff \in 0 .. MaxPages
  /\ buff_sw \in {0, 1} /\ origin \in {0, 1} /\ shown \in {0, 1}
  /\ ram \in [{0, 1} -> [RowsOfPage -> 0 .. MaxPages]]
  /\ cache \in [{0, 1} -> [RowsOfPage -> Clean .. MaxPages]]
  /\ pc \in {"app", "draw", "flush", "leave", "enter"}
  /\ row \in 1 .. Rows + 1
  /\ vi_line \in 0 .. Rows
  /\ flipped \in 0 .. MaxPages /\ field \in 0 .. MaxPages

\* sysInit: both buffers hold what malloc returned, and buffer 0 is shown.
Init ==
  /\ gfx_buff = 0 /\ buff_sw = 0 /\ origin = 0 /\ shown = 0
  /\ ram = [b \in {0, 1} |-> [r \in RowsOfPage |-> 0]]
  /\ cache = [b \in {0, 1} |-> [r \in RowsOfPage |-> Clean]]
  /\ pc = "app" /\ row = 1 /\ vi_line = 0 /\ flipped = 0 /\ field = 0

-----------------------------------------------------------------------------
\* gCleanScreen, gConsPrint and the like have written a page.
NewPage ==
  /\ pc = "app" /\ gfx_buff < MaxPages
  /\ gfx_buff' = gfx_buff + 1
  /\ UNCHANGED <<buff_sw, pc, row, ram, cache, origin, flipped, viVars>>

\* gRepaint
Repaint ==
  /\ pc = "app"
  /\ buff_sw' = 1 - buff_sw
  /\ row' = 1 /\ pc' = "draw"
  /\ UNCHANGED <<gfx_buff, ram, cache, origin, flipped, viVars>>

\* gDrawChar8X8 for each character of a row.
DrawRow ==
  /\ pc = "draw" /\ row <= Rows
  /\ cache' = [cache EXCEPT ![buff_sw][row] = gfx_buff]
  /\ row' = row + 1
  /\ pc' = IF row = Rows THEN "flush" ELSE "draw"
  /\ UNCHANGED <<gfx_buff, buff_sw, ram, origin, flipped, viVars>>

\* MUTANT of Flush: the data stays in the cache.
Flush_Nothing ==
  /\ pc = "flush"
  /\ pc' = "leave"
  /\ UNCHANGED <<gfx_buff, buff_sw, row, ram, cache, origin, flipped, viVars>>

\* data_cache_hit_writeback of the whole buffer.
Flush ==
  /\ pc = "flush"
  /\ ram' = [ram EXCEPT ![buff_sw] =
       [r \in RowsOfPage |-> IF cache[buff_sw][r] = Clean THEN @[r] ELSE cache[buff_sw][r]]]
  /\ cache' = [cache EXCEPT ![buff_sw] = [r \in RowsOfPage |-> Clean]]
  /\ pc' = "leave"
  /\ UNCHANGED <<gfx_buff, buff_sw, row, origin, flipped, viVars>>

\* gVsync, first loop: wait until the line is left.
LeaveVsyncLine ==
  /\ pc = "leave" /\ vi_line # VsyncLine
  /\ pc' = "enter"
  /\ UNCHANGED <<gfx_buff, buff_sw, row, ram, cache, origin, flipped, viVars>>

\* MUTANT of EnterVsyncLine: the second loop is missing.
EnterVsyncLine_Anywhere ==
  /\ pc = "enter"
  /\ origin' = buff_sw /\ flipped' = gfx_buff
  /\ pc' = "app"
  /\ UNCHANGED <<gfx_buff, buff_sw, row, ram, cache, viVars>>

\* MUTANT of EnterVsyncLine: the origin is not written.
EnterVsyncLine_NoOrigin ==
  /\ pc = "enter" /\ vi_line = VsyncLine
  /\ pc' = "app"
  /\ UNCHANGED <<gfx_buff, buff_sw, row, ram, cache, origin, flipped, viVars>>

\* gVsync, second loop, and the new origin: the CPU writes it at once.
EnterVsyncLine ==
  /\ pc = "enter" /\ vi_line = VsyncLine
  /\ origin' = buff_sw /\ flipped' = gfx_buff
  /\ pc' = "app"
  /\ UNCHANGED <<gfx_buff, buff_sw, row, ram, cache, viVars>>

\* The cache writes a line back whenever it likes.
Evict ==
  \E b \in {0, 1}, r \in RowsOfPage :
    /\ cache[b][r] # Clean
    /\ ram' = [ram EXCEPT ![b][r] = cache[b][r]]
    /\ cache' = [cache EXCEPT ![b][r] = Clean]
    /\ UNCHANGED <<cpuVars, origin, flipped, viVars>>

\* The VI goes on by one row.  It takes over the origin with the first one.
Scan ==
  /\ vi_line' = (vi_line + 1) % (Rows + 1)
  /\ IF vi_line = 0 THEN shown' = origin /\ field' = flipped ELSE UNCHANGED <<shown, field>>
  /\ UNCHANGED <<cpuVars, ram, cache, origin, flipped>>

CpuStep == DrawRow \/ Flush \/ LeaveVsyncLine \/ EnterVsyncLine

Next == NewPage \/ Repaint \/ CpuStep \/ Evict \/ Scan

Spec == Init /\ [][Next]_vars

\* The VI does not stop.  gVsync polls far more often than the line changes, so
\* it sees the line it waits for although that line does not stay.
FairSpec == Spec /\ WF_vars(Scan) /\ SF_vars(CpuStep)

-----------------------------------------------------------------------------
(***************************************************************************)
(* Properties.                                                             *)
(***************************************************************************)

\* No tearing: every row the VI scans is a row of the page that was complete
\* when gRepaint set the origin of this field.
NoTearing == vi_line # 0 => ram[shown][vi_line] = field

\* The program never has a drawn row in the cache, or a row still to draw, of
\* the buffer that is on its way to the screen.
FrontIsFinished ==
  \A r \in RowsOfPage : cache[origin][r] = Clean /\ ram[origin][r] = flipped

\* What the CPU would read: the cache, or RAM behind it.
Drawn(b, r) == IF cache[b][r] = Clean THEN ram[b][r] ELSE cache[b][r]

\* The inductive strengthening of both when gVsync waits in the blank: the CPU
\* draws behind, and a running field shows the buffer origin stands for.
DisplayInv ==
  /\ TypeOK /\ FrontIsFinished
  /\ pc = "app" => buff_sw = origin
  /\ pc # "app" => buff_sw # origin
  /\ pc = "draw" => row <= Rows /\ \A r \in 1 .. row - 1 : Drawn(buff_sw, r) = gfx_buff
  /\ pc = "flush" => \A r \in RowsOfPage : Drawn(buff_sw, r) = gfx_buff
  /\ pc \in {"leave", "enter"} =>
       \A r \in RowsOfPage : cache[buff_sw][r] = Clean /\ ram[buff_sw][r] = gfx_buff
  /\ vi_line # 0 => shown = origin /\ field = flipped

\* A page that is repainted gets to the screen.
RepaintShows == \A p \in 1 .. MaxPages : (pc = "draw" /\ gfx_buff = p) ~> (field >= p)
=============================================================================
