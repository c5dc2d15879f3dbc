---------------------------- MODULE Display_proofs ----------------------------
(***************************************************************************)
(* Proofs about Display: no field tears, for every number of rows and of   *)
(* pages, when the line gVsync waits for lies in the vertical blank.       *)
(***************************************************************************)
EXTENDS Display, TLAPS

\* Row numbers as the prover needs them.
LEMMA RowFacts ==
  /\ Rows \in Nat /\ 1 <= Rows
  /\ 1 \in RowsOfPage /\ 0 \in 0 .. Rows
  /\ MaxPages \in Nat
BY RowsAssumption, PagesAssumption DEF RowsOfPage

LEMMA InitHolds == Init => DisplayInv
BY RowFacts DEF Init, DisplayInv, TypeOK, FrontIsFinished, Drawn, Clean, RowsOfPage

\* A page is written while nothing is drawn.
LEMMA NewPageHolds == DisplayInv /\ NewPage => DisplayInv'
BY RowFacts DEF NewPage, DisplayInv, TypeOK, FrontIsFinished, viVars

\* The buffer drawn to from now on is not the one on its way to the screen.
LEMMA RepaintHolds == DisplayInv /\ Repaint => DisplayInv'
BY RowFacts DEF Repaint, DisplayInv, TypeOK, FrontIsFinished, viVars

\* One more row of the back buffer is drawn.
LEMMA DrawRowHolds == DisplayInv /\ DrawRow => DisplayInv'
<1> SUFFICES ASSUME DisplayInv, DrawRow PROVE DisplayInv'
  OBVIOUS
<1> USE RowFacts
<1>1. buff_sw \in {0, 1} /\ row \in RowsOfPage /\ gfx_buff \in 0 .. MaxPages /\ buff_sw # origin
  BY DEF DisplayInv, TypeOK, DrawRow, RowsOfPage
<1>2. cache \in [{0, 1} -> [RowsOfPage -> Clean .. MaxPages]]
  BY DEF DisplayInv, TypeOK
<1>3. gfx_buff \in Clean .. MaxPages /\ gfx_buff # Clean
  BY <1>1 DEF Clean
<1>4. \A b \in {0, 1}, r \in RowsOfPage :
        cache'[b][r] = IF b = buff_sw /\ r = row THEN gfx_buff ELSE cache[b][r]
  BY <1>1, <1>2 DEF DrawRow
<1>5. cache' \in [{0, 1} -> [RowsOfPage -> Clean .. MaxPages]]
  BY <1>1, <1>2, <1>3 DEF DrawRow
<1>6. TypeOK'
  BY <1>1, <1>5 DEF DisplayInv, TypeOK, DrawRow, viVars, RowsOfPage
<1>7. FrontIsFinished'
  BY <1>1, <1>4 DEF DisplayInv, TypeOK, FrontIsFinished, DrawRow
<1>8. \A r \in RowsOfPage : r <= row => Drawn(buff_sw, r)' = gfx_buff
  BY <1>1, <1>3, <1>4 DEF DisplayInv, Drawn, DrawRow, RowsOfPage
<1> QED
  BY <1>1, <1>6, <1>7, <1>8 DEF DisplayInv, DrawRow, viVars, RowsOfPage

\* The back buffer gets to RAM.
LEMMA FlushHolds == DisplayInv /\ Flush => DisplayInv'
<1> SUFFICES ASSUME DisplayInv, Flush PROVE DisplayInv'
  OBVIOUS
<1> USE RowFacts
<1>1. buff_sw \in {0, 1} /\ origin \in {0, 1} /\ buff_sw # origin
  BY DEF DisplayInv, TypeOK, Flush
<1>2. /\ cache \in [{0, 1} -> [RowsOfPage -> Clean .. MaxPages]]
      /\ ram \in [{0, 1} -> [RowsOfPage -> 0 .. MaxPages]]
  BY DEF DisplayInv, TypeOK
<1>3. \A r \in RowsOfPage : ram'[buff_sw][r] = gfx_buff /\ cache'[buff_sw][r] = Clean
  BY <1>1, <1>2 DEF Flush, DisplayInv, Drawn
<1>4. \A r \in RowsOfPage : ram'[origin][r] = ram[origin][r] /\ cache'[origin][r] = cache[origin][r]
  BY <1>1, <1>2 DEF Flush
<1>5. gfx_buff \in 0 .. MaxPages /\ Clean \in Clean .. MaxPages
  BY DEF DisplayInv, TypeOK, Clean
<1>6. ram' \in [{0, 1} -> [RowsOfPage -> 0 .. MaxPages]]
  BY <1>1, <1>2, <1>3, <1>5 DEF Flush
<1>7. cache' \in [{0, 1} -> [RowsOfPage -> Clean .. MaxPages]]
  BY <1>1, <1>2, <1>5 DEF Flush
<1>8. TypeOK'
  BY <1>6, <1>7 DEF DisplayInv, TypeOK, Flush, viVars
<1>9. FrontIsFinished'
  BY <1>4 DEF DisplayInv, FrontIsFinished, Flush
<1> QED
  BY <1>1, <1>3, <1>8, <1>9 DEF DisplayInv, Flush, viVars

\* gVsync only waits.
LEMMA LeaveHolds == DisplayInv /\ LeaveVsyncLine => DisplayInv'
BY DEF LeaveVsyncLine, DisplayInv, TypeOK, FrontIsFinished, viVars

\* The origin changes in the blank, to a buffer that is complete in RAM.
LEMMA EnterHolds == VsyncLine = 0 /\ DisplayInv /\ EnterVsyncLine => DisplayInv'
BY DEF EnterVsyncLine, DisplayInv, TypeOK, FrontIsFinished, viVars

\* The cache writes back what the CPU would read anyway, and never a row of the
\* finished buffer.
LEMMA EvictHolds == DisplayInv /\ Evict => DisplayInv'
<1> SUFFICES ASSUME DisplayInv, NEW b \in {0, 1}, NEW r \in RowsOfPage,
                    cache[b][r] # Clean,
                    ram' = [ram EXCEPT ![b][r] = cache[b][r]],
                    cache' = [cache EXCEPT ![b][r] = Clean],
                    UNCHANGED <<cpuVars, origin, flipped, viVars>>
             PROVE  DisplayInv'
  BY DEF Evict
<1> USE RowFacts
<1>1. /\ cache \in [{0, 1} -> [RowsOfPage -> Clean .. MaxPages]]
      /\ ram \in [{0, 1} -> [RowsOfPage -> 0 .. MaxPages]]
  BY DEF DisplayInv, TypeOK
<1>2. cache[b][r] \in 0 .. MaxPages /\ Clean \in Clean .. MaxPages
  BY <1>1 DEF Clean
<1>3. \A c \in {0, 1}, s \in RowsOfPage :
        /\ ram'[c][s] = IF c = b /\ s = r THEN cache[b][r] ELSE ram[c][s]
        /\ cache'[c][s] = IF c = b /\ s = r THEN Clean ELSE cache[c][s]
  BY <1>1
<1>4. TypeOK'
  BY <1>1, <1>2 DEF DisplayInv, TypeOK, cpuVars, viVars
<1>5. \A c \in {0, 1}, s \in RowsOfPage : Drawn(c, s)' = Drawn(c, s)
  BY <1>2, <1>3 DEF Drawn
<1>6. b # origin /\ origin \in {0, 1} /\ buff_sw \in {0, 1}
  BY DEF DisplayInv, FrontIsFinished, TypeOK
<1>7. FrontIsFinished'
  BY <1>3, <1>6 DEF DisplayInv, FrontIsFinished, cpuVars
<1>8. pc \notin {"leave", "enter"}
  BY <1>6 DEF DisplayInv, TypeOK
<1>9. \A n \in 1 .. row - 1 : pc = "draw" => n \in RowsOfPage
  BY DEF DisplayInv, TypeOK, RowsOfPage
<1>10. pc = "draw" => row <= Rows /\ \A n \in 1 .. row - 1 : Drawn(buff_sw, n)' = gfx_buff
  BY <1>5, <1>6, <1>9 DEF DisplayInv, cpuVars
<1>11. pc = "flush" => \A n \in RowsOfPage : Drawn(buff_sw, n)' = gfx_buff
  BY <1>5, <1>6 DEF DisplayInv, cpuVars
<1> QED
  BY <1>4, <1>7, <1>8, <1>10, <1>11 DEF DisplayInv, cpuVars, viVars, Drawn

\* A field begins with the origin that is set, and keeps it to its last row.
LEMMA ScanHolds == DisplayInv /\ Scan => DisplayInv'
<1> SUFFICES ASSUME DisplayInv, Scan PROVE DisplayInv'
  OBVIOUS
<1>1. vi_line' \in 0 .. Rows
  BY RowFacts DEF Scan, DisplayInv, TypeOK
<1>2. shown' \in {0, 1} /\ field' \in 0 .. MaxPages
  BY DEF Scan, DisplayInv, TypeOK
<1>3. (shown' = origin' /\ field' = flipped') \/ vi_line # 0
  BY DEF Scan
<1>4. TypeOK'
  BY <1>1, <1>2 DEF Scan, DisplayInv, TypeOK, cpuVars
<1>5. vi_line # 0 => shown' = origin' /\ field' = flipped'
  BY DEF Scan, DisplayInv
<1> QED
  BY <1>3, <1>4, <1>5 DEF Scan, DisplayInv, FrontIsFinished, cpuVars, Drawn

\* When gVsync waits in the blank, DisplayInv holds throughout: the CPU never
\* draws into the buffer on its way to the screen.
THEOREM DisplayInvariant == VsyncLine = 0 => (Spec => []DisplayInv)
<1> SUFFICES ASSUME VsyncLine = 0 PROVE Spec => []DisplayInv
  OBVIOUS
<1>1. DisplayInv /\ [Next]_vars => DisplayInv'
  <2> SUFFICES ASSUME DisplayInv, [Next]_vars PROVE DisplayInv'
    OBVIOUS
  <2>1. CASE NewPage
    BY <2>1, NewPageHolds
  <2>2. CASE Repaint
    BY <2>2, RepaintHolds
  <2>3. CASE DrawRow
    BY <2>3, DrawRowHolds
  <2>4. CASE Flush
    BY <2>4, FlushHolds
  <2>5. CASE LeaveVsyncLine
    BY <2>5, LeaveHolds
  <2>6. CASE EnterVsyncLine
    BY <2>6, EnterHolds
  <2>7. CASE Evict
    BY <2>7, EvictHolds
  <2>8. CASE Scan
    BY <2>8, ScanHolds
  <2>9. CASE UNCHANGED vars
    BY <2>9 DEF vars, cpuVars, viVars, DisplayInv, TypeOK, FrontIsFinished, Drawn
  <2> QED
    BY <2>1, <2>2, <2>3, <2>4, <2>5, <2>6, <2>7, <2>8, <2>9 DEF Next, CpuStep
<1> QED
  BY <1>1, InitHolds, PTL DEF Spec

\* No field tears: what the VI scans is one complete page (gRepaint writes the
\* cache back and waits for the blank before it sets VI_ORIGIN).
THEOREM Untorn == VsyncLine = 0 => (Spec => []NoTearing)
<1> SUFFICES ASSUME VsyncLine = 0 PROVE Spec => []NoTearing
  OBVIOUS
<1>1. DisplayInv => NoTearing
  BY DEF DisplayInv, TypeOK, FrontIsFinished, NoTearing, RowsOfPage
<1> QED
  BY <1>1, DisplayInvariant, PTL
=============================================================================
