------------------------------- MODULE SdCrc -------------------------------
(***************************************************************************)
(* The checksums of the SD bus: crc7 of a command (ED64-XIO/src/disk.c)    *)
(* and sdCrc16 of a block on four data lines (ED64-XIO/src/bios.c), next   *)
(* to the division of polynomials that the SD specification asks for.      *)
(*                                                                         *)
(* A number is the set of the positions of its ones.                       *)
(***************************************************************************)
EXTENDS Integers, Sequences

Bits(n, w) == {i \in 0 .. w - 1 : (n \div 2^i) % 2 = 1}
Xor(x, y) == (x \ y) \cup (y \ x)
Left(x, n, w) == {i \in 0 .. w - 1 : i - n \in x}
Right(x, n) == {i - n : i \in x} \cap Nat

(***************************************************************************)
(* crc7.  buff is a sequence of bytes, crc an u32; 18 is {1, 4}.           *)
(***************************************************************************)
crc7_shift(crc) ==
  LET c == Left(crc, 1, 32) IN IF 8 \in c THEN Xor(c, {1, 4}) ELSE c
crc7_byte(crc, byte) ==
  LET c[a \in 0 .. 8] == IF a = 0 THEN Xor(crc, byte) ELSE crc7_shift(c[a - 1]) IN c[8]
crc7(buff) ==
  LET crc[n \in 0 .. Len(buff)] == IF n = 0 THEN {} ELSE crc7_byte(crc[n - 1], buff[n])
  IN  crc[Len(buff)] \cap 1 .. 7

(***************************************************************************)
(* sdCrc16.                                                                *)
(***************************************************************************)
\* crc_bit_table brings the bits of val into the order of the line: the upper
\* nibble and the lower one in turn.
crc_bit_table(val) == {IF i >= 4 THEN 2 * i - 7 ELSE 2 * i : i \in val}

crc_16_table == <<
  \h0000, \h1021, \h2042, \h3063, \h4084, \h50A5, \h60C6, \h70E7, \h8108, \h9129, \hA14A, \hB16B, \hC18C, \hD1AD, \hE1CE, \hF1EF,
  \h1231, \h0210, \h3273, \h2252, \h52B5, \h4294, \h72F7, \h62D6, \h9339, \h8318, \hB37B, \hA35A, \hD3BD, \hC39C, \hF3FF, \hE3DE,
  \h2462, \h3443, \h0420, \h1401, \h64E6, \h74C7, \h44A4, \h5485, \hA56A, \hB54B, \h8528, \h9509, \hE5EE, \hF5CF, \hC5AC, \hD58D,
  \h3653, \h2672, \h1611, \h0630, \h76D7, \h66F6, \h5695, \h46B4, \hB75B, \hA77A, \h9719, \h8738, \hF7DF, \hE7FE, \hD79D, \hC7BC,
  \h48C4, \h58E5, \h6886, \h78A7, \h0840, \h1861, \h2802, \h3823, \hC9CC, \hD9ED, \hE98E, \hF9AF, \h8948, \h9969, \hA90A, \hB92B,
  \h5AF5, \h4AD4, \h7AB7, \h6A96, \h1A71, \h0A50, \h3A33, \h2A12, \hDBFD, \hCBDC, \hFBBF, \hEB9E, \h9B79, \h8B58, \hBB3B, \hAB1A,
  \h6CA6, \h7C87, \h4CE4, \h5CC5, \h2C22, \h3C03, \h0C60, \h1C41, \hEDAE, \hFD8F, \hCDEC, \hDDCD, \hAD2A, \hBD0B, \h8D68, \h9D49,
  \h7E97, \h6EB6, \h5ED5, \h4EF4, \h3E13, \h2E32, \h1E51, \h0E70, \hFF9F, \hEFBE, \hDFDD, \hCFFC, \hBF1B, \hAF3A, \h9F59, \h8F78,
  \h9188, \h81A9, \hB1CA, \hA1EB, \hD10C, \hC12D, \hF14E, \hE16F, \h1080, \h00A1, \h30C2, \h20E3, \h5004, \h4025, \h7046, \h6067,
  \h83B9, \h9398, \hA3FB, \hB3DA, \hC33D, \hD31C, \hE37F, \hF35E, \h02B1, \h1290, \h22F3, \h32D2, \h4235, \h5214, \h6277, \h7256,
  \hB5EA, \hA5CB, \h95A8, \h8589, \hF56E, \hE54F, \hD52C, \hC50D, \h34E2, \h24C3, \h14A0, \h0481, \h7466, \h6447, \h5424, \h4405,
  \hA7DB, \hB7FA, \h8799, \h97B8, \hE75F, \hF77E, \hC71D, \hD73C, \h26D3, \h36F2, \h0691, \h16B0, \h6657, \h7676, \h4615, \h5634,
  \hD94C, \hC96D, \hF90E, \hE92F, \h99C8, \h89E9, \hB98A, \hA9AB, \h5844, \h4865, \h7806, \h6827, \h18C0, \h08E1, \h3882, \h28A3,
  \hCB7D, \hDB5C, \hEB3F, \hFB1E, \h8BF9, \h9BD8, \hABBB, \hBB9A, \h4A75, \h5A54, \h6A37, \h7A16, \h0AF1, \h1AD0, \h2AB3, \h3A92,
  \hFD2E, \hED0F, \hDD6C, \hCD4D, \hBDAA, \hAD8B, \h9DE8, \h8DC9, \h7C26, \h6C07, \h5C64, \h4C45, \h3CA2, \h2C83, \h1CE0, \h0CC1,
  \hEF1F, \hFF3E, \hCF5D, \hDF7C, \hAF9B, \hBFBA, \h8FD9, \h9FF8, \h6E17, \h7E36, \h4E55, \h5E74, \h2E93, \h3EB2, \h0ED1, \h1EF0 >>
Table16(i) == Bits(crc_16_table[i + 1], 16)
Number(x, w) == LET Sum[i \in 0 .. w] == IF i = 0 THEN 0 ELSE Sum[i - 1] + (IF i - 1 \in x THEN 2^(i - 1) ELSE 0)
                IN  Sum[w]

\* Bits 4 + l and l of the n-th of four bytes go to bits 7 - n and 3 - n of
\* the value of line l.
lane(four, l) == {7 - n : n \in {m \in 0 .. 3 : 4 + l \in four[m + 1]}}
                 \cup {3 - n : n \in {m \in 0 .. 3 : l \in four[m + 1]}}

\* MUTANT of crc_step: the old checksum is not shifted.
crc_step_Unshifted(crc, val) ==
  Xor(Table16(Number(Xor(Right(crc, 8), crc_bit_table(val)), 8)), crc)

crc_step(crc, val) ==
  Xor(Table16(Number(Xor(Right(crc, 8), crc_bit_table(val)), 8)), Left(crc, 8, 16))

\* crc_table behind the loop over src, four bytes at a time.
crc_table(src) ==
  LET crcs[i \in 0 .. Len(src) \div 4] ==
        IF i = 0 THEN [l \in 0 .. 3 |-> {}]
        ELSE [l \in 0 .. 3 |-> crc_step(crcs[i - 1][l], lane(SubSeq(src, 4 * i - 3, 4 * i), l))]
  IN  crcs[Len(src) \div 4]

\* The result is shifted in bit by bit from the four checksums in turn, word 3
\* first; of what crc_out held before nothing is left.
shuffle_bit(s, n) ==
  LET w == 3 - n \div 16
      l == n % 4
  IN  [crcs |-> [s.crcs EXCEPT ![l] = Right(@, 1)],
       out  |-> [s.out EXCEPT ![w] = Right(@, 1) \cup (IF 0 \in s.crcs[l] THEN {15} ELSE {})]]
shuffle(crcs, out) ==
  LET s[n \in 0 .. 64] == IF n = 0 THEN [crcs |-> crcs, out |-> out] ELSE shuffle_bit(s[n - 1], n - 1)
  IN  s[64].out

sdCrc16(src, crc_out) == shuffle(crc_table(src), crc_out)

(***************************************************************************)
(* The SD specification: the remainder of the message, as a polynomial,    *)
(* times x^w, by the generator of degree w.  Messages are sequences of     *)
(* bits, the first one the highest.                                        *)
(***************************************************************************)
divided(r, bit, w, generator) ==
  IF (w - 1 \in r) # (bit = 1) THEN Xor(Left(r, 1, w), generator) ELSE Left(r, 1, w)
Remainder(message, w, generator) ==
  LET r[n \in 0 .. Len(message)] == IF n = 0 THEN {} ELSE divided(r[n - 1], message[n], w, generator)
  IN  r[Len(message)]

BitOf(b) == IF b THEN 1 ELSE 0
ByteBits(buff) == [k \in 1 .. 8 * Len(buff) |-> BitOf(7 - ((k - 1) % 8) \in buff[(k - 1) \div 8 + 1])]
SpecCrc7(buff) == Remainder(ByteBits(buff), 7, {0, 3})

\* Line l carries bits 4 + l and l of each byte, then its checksum.
LineBits(src, l) ==
  [k \in 1 .. 2 * Len(src) |-> BitOf((IF k % 2 = 1 THEN 4 + l ELSE l) \in src[(k + 1) \div 2])]
SpecLine(src, l) == Remainder(LineBits(src, l), 16, {0, 5, 12})

\* The table holds the remainder of every byte.
ASSUME TableAssumption ==
  \A x \in SUBSET (0 .. 7) : Table16(Number(x, 8)) = Remainder(ByteBits(<<x>>), 16, {0, 5, 12})

\* What line l carries of the four words the CPU sends, the highest bit first.
SentOn(out, l) ==
  [k \in 0 .. 15 |-> BitOf(15 - ((4 * k + 3 - l) % 16) \in out[(4 * k) \div 16])]
=============================================================================
