------------------------------- MODULE Console -------------------------------
(***************************************************************************)
(* The character page of the console program (gfx_buff and the g* writers  *)
(* of ED64-XIO/src/sys.c).  Of a string only its length matters; a page is *)
(* the sequence of the lengths of its lines.                               *)
(***************************************************************************)
EXTENDS Integers, Sequences

CONSTANTS
  G_SCREEN_W, G_SCREEN_H,   \* columns and rows of gfx_buff
  G_BORDER                  \* G_BORDER_X and G_BORDER_Y

ASSUME ScreenAssumption ==
  /\ G_BORDER \in Nat
  /\ G_SCREEN_W \in Nat /\ G_SCREEN_W > 2 * G_BORDER
  /\ G_SCREEN_H \in Nat /\ G_SCREEN_H > 2 * G_BORDER

VARIABLES
  g_cons_ptr,   \* cell where the next line starts
  lines         \* the lines written: start cell and length

consoleVars == <<g_cons_ptr, lines>>

\* gSetXY(G_BORDER_X, G_BORDER_Y)
Home == G_BORDER + G_BORDER * G_SCREEN_W

Line(start, len) == [start |-> start, len |-> len]

ConsoleInit == g_cons_ptr = Home /\ lines = <<>>

\* gConsPrint, and what is appended to the line.
ConsPrint(len) ==
  /\ lines' = Append(lines, Line(g_cons_ptr, len))
  /\ g_cons_ptr' = g_cons_ptr + G_SCREEN_W

\* gCleanScreen and a gConsPrint for each line.
Page(lens) ==
  /\ lines' = [k \in 1 .. Len(lens) |-> Line(Home + (k - 1) * G_SCREEN_W, lens[k])]
  /\ g_cons_ptr' = Home + Len(lens) * G_SCREEN_W

\* The writers check nothing: every character of every line stays in gfx_buff,
\* and no line runs into the next one.
PageFits ==
  \A k \in DOMAIN lines :
    /\ lines[k].start + lines[k].len <= G_SCREEN_W * G_SCREEN_H
    /\ G_BORDER + lines[k].len <= G_SCREEN_W
=============================================================================
