----------------------------- MODULE FatUnicode -----------------------------
(***************************************************************************)
(* The conversions of FatFs (ED64-XIO/ff/ffunicode.c): between Unicode and *)
(* the code page by tables of pairs, and to upper case by tables of blocks.*)
(***************************************************************************)
EXTENDS Integers, Sequences

(***************************************************************************)
(* A table of pairs is sorted by code and ends with the pair (0, 0).       *)
(* Sixteen halvings must do: the largest table has 7390 pairs.             *)
(***************************************************************************)
\* s.at is the pair that was found, 0 as long as there is none.
halve(table, code, s) ==
  LET i == s.li + (s.hi - s.li) \div 2
      p == table[i + 1][1]
  IN  IF s.at # 0 THEN s
      ELSE IF code = p THEN [s EXCEPT !.at = i + 1]
      ELSE IF code > p THEN [s EXCEPT !.li = i]
      ELSE [s EXCEPT !.hi = i]

Halvings == 16
search(table, code) ==
  LET s[n \in 0 .. Halvings] ==
        IF n = 0 THEN [li |-> 0, hi |-> Len(table) - 1, at |-> 0] ELSE halve(table, code, s[n - 1])
  IN  IF s[Halvings].at = 0 THEN 0 ELSE table[s[Halvings].at][2]
ff_uni2oem(uni, table) == IF uni < 128 THEN uni ELSE search(table, uni)
ff_oem2uni(oem, table) == IF oem < 128 THEN oem ELSE search(table, oem)

(***************************************************************************)
(* Upper case.  A block is its first code, 256 * command + size and, for   *)
(* command 0, the codes themselves.                                        *)
(***************************************************************************)
cvt1 == <<
  \h0061, \h031A, \h00E0, \h0317, \h00F8, \h0307, \h00FF, \h0001, \h0178, \h0100, \h0130, \h0132, \h0106, \h0139, \h0110, \h014A,
  \h012E, \h0179, \h0106, \h0180, \h004D, \h0243, \h0181, \h0182, \h0182, \h0184, \h0184, \h0186, \h0187, \h0187, \h0189, \h018A,
  \h018B, \h018B, \h018D, \h018E, \h018F, \h0190, \h0191, \h0191, \h0193, \h0194, \h01F6, \h0196, \h0197, \h0198, \h0198, \h023D,
  \h019B, \h019C, \h019D, \h0220, \h019F, \h01A0, \h01A0, \h01A2, \h01A2, \h01A4, \h01A4, \h01A6, \h01A7, \h01A7, \h01A9, \h01AA,
  \h01AB, \h01AC, \h01AC, \h01AE, \h01AF, \h01AF, \h01B1, \h01B2, \h01B3, \h01B3, \h01B5, \h01B5, \h01B7, \h01B8, \h01B8, \h01BA,
  \h01BB, \h01BC, \h01BC, \h01BE, \h01F7, \h01C0, \h01C1, \h01C2, \h01C3, \h01C4, \h01C5, \h01C4, \h01C7, \h01C8, \h01C7, \h01CA,
  \h01CB, \h01CA, \h01CD, \h0110, \h01DD, \h0001, \h018E, \h01DE, \h0112, \h01F3, \h0003, \h01F1, \h01F4, \h01F4, \h01F8, \h0128,
  \h0222, \h0112, \h023A, \h0009, \h2C65, \h023B, \h023B, \h023D, \h2C66, \h023F, \h0240, \h0241, \h0241, \h0246, \h010A, \h0253,
  \h0040, \h0181, \h0186, \h0255, \h0189, \h018A, \h0258, \h018F, \h025A, \h0190, \h025C, \h025D, \h025E, \h025F, \h0193, \h0261,
  \h0262, \h0194, \h0264, \h0265, \h0266, \h0267, \h0197, \h0196, \h026A, \h2C62, \h026C, \h026D, \h026E, \h019C, \h0270, \h0271,
  \h019D, \h0273, \h0274, \h019F, \h0276, \h0277, \h0278, \h0279, \h027A, \h027B, \h027C, \h2C64, \h027E, \h027F, \h01A6, \h0281,
  \h0282, \h01A9, \h0284, \h0285, \h0286, \h0287, \h01AE, \h0244, \h01B1, \h01B2, \h0245, \h028D, \h028E, \h028F, \h0290, \h0291,
  \h01B7, \h037B, \h0003, \h03FD, \h03FE, \h03FF, \h03AC, \h0004, \h0386, \h0388, \h0389, \h038A, \h03B1, \h0311, \h03C2, \h0002,
  \h03A3, \h03A3, \h03C4, \h0308, \h03CC, \h0003, \h038C, \h038E, \h038F, \h03D8, \h0118, \h03F2, \h000A, \h03F9, \h03F3, \h03F4,
  \h03F5, \h03F6, \h03F7, \h03F7, \h03F9, \h03FA, \h03FA, \h0430, \h0320, \h0450, \h0710, \h0460, \h0122, \h048A, \h0136, \h04C1,
  \h010E, \h04CF, \h0001, \h04C0, \h04D0, \h0144, \h0561, \h0426, \h0000 >>
cvt2 == <<
  \h1D7D, \h0001, \h2C63, \h1E00, \h0196, \h1EA0, \h015A, \h1F00, \h0608, \h1F10, \h0606, \h1F20, \h0608, \h1F30, \h0608, \h1F40,
  \h0606, \h1F51, \h0007, \h1F59, \h1F52, \h1F5B, \h1F54, \h1F5D, \h1F56, \h1F5F, \h1F60, \h0608, \h1F70, \h000E, \h1FBA, \h1FBB,
  \h1FC8, \h1FC9, \h1FCA, \h1FCB, \h1FDA, \h1FDB, \h1FF8, \h1FF9, \h1FEA, \h1FEB, \h1FFA, \h1FFB, \h1F80, \h0608, \h1F90, \h0608,
  \h1FA0, \h0608, \h1FB0, \h0004, \h1FB8, \h1FB9, \h1FB2, \h1FBC, \h1FCC, \h0001, \h1FC3, \h1FD0, \h0602, \h1FE0, \h0602, \h1FE5,
  \h0001, \h1FEC, \h1FF3, \h0001, \h1FFC, \h214E, \h0001, \h2132, \h2170, \h0210, \h2184, \h0001, \h2183, \h24D0, \h051A, \h2C30,
  \h042F, \h2C60, \h0102, \h2C67, \h0106, \h2C75, \h0102, \h2C80, \h0164, \h2D00, \h0826, \hFF41, \h031A, \h0000 >>

Converted(uc, bc, cmd) ==
  CASE cmd = 1 -> uc - ((uc - bc) % 2)
    [] cmd = 2 -> uc - 16
    [] cmd = 3 -> uc - 32
    [] cmd = 4 -> uc - 48
    [] cmd = 5 -> uc - 26
    [] cmd = 6 -> uc + 8
    [] cmd = 7 -> uc - 80
    [] cmd = 8 -> uc - \h1C60

\* What uc becomes, by the blocks of table p from place at on.
blocks_of(p, uc) ==
  LET from[at \in DOMAIN p] ==
        LET bc == p[at]
            nc == p[at + 1] % 256
            cmd == p[at + 1] \div 256
        IN  IF bc = 0 \/ uc < bc THEN uc
            ELSE IF uc < bc + nc THEN IF cmd = 0 THEN p[at + 2 + uc - bc] ELSE Converted(uc, bc, cmd)
            ELSE from[IF cmd = 0 THEN at + 2 + nc ELSE at + 2]
  IN  from[1]

ff_wtoupper(uni) ==
  IF uni >= 65536 THEN uni ELSE blocks_of(IF uni < \h1000 THEN cvt1 ELSE cvt2, uni)
=============================================================================
