------------------------------- MODULE SdBus -------------------------------
(***************************************************************************)
(* The SD bus as the CPU drives it (ED64-XIO/src/bios.c): the              *)
(* configuration register and its copy bi_sd_cfg, the mode of the lines,   *)
(* and what is shifted out and in.                                         *)
(*                                                                         *)
(* Each access to one of the four line registers clocks the bus as often   *)
(* as the bit length in the configuration register says: a bit per clock   *)
(* on the command line, four on the data lines.  A register that is read   *)
(* holds the last eight bits that came in.  b is the state of CPU and bus: *)
(* cfg is bi_sd_cfg and reg what the FPGA really has, mode is              *)
(* bi_old_sd_mode, pwd the pulse width of the PI; sent collects what is    *)
(* shifted out, cmd_in and dat_in are what the card sends on each line (it *)
(* leaves the lines high behind it), cmd_at and dat_at how much of it has  *)
(* been clocked in, sr_cmd and sr_dat the last eight bits of each.  A      *)
(* function maps b to b, with its result in b.ret.                         *)
(***************************************************************************)
EXTENDS Integers, Sequences

CONSTANTS
  DISK_CMD_TOUT,   \* clocks an answer is waited for           (2048)
  TokenPolls,      \* clocks the start of a block is waited for (65535)
  StatusPolls,     \* clocks the status of a block is waited for (1024)
  BusyPolls,       \* clocks the end of programming is waited for (65535)
  BlockWords       \* words of a block and its checksum        (260)

Lines == {"cmd_wr", "cmd_rd", "dat_wr", "dat_rd"}

\* Element p of what a card sends on a line, which is high behind it.
Element(in, p, high) == IF p \in DOMAIN in THEN in[p] ELSE high

\* A register of w elements behind n clocks, the last at.
Shifted(sr, w, in, at, n, high) ==
  [i \in 1 .. w |-> IF i + n <= w THEN sr[i + n] ELSE Element(in, at + i - w, high)]

\* An access to line register line: the FPGA's part.
Clock(b, line, val) ==
  LET n == b.reg.bits IN
  CASE line \in {"cmd_wr", "dat_wr"} ->
         [b EXCEPT !.sent = IF n = 0 THEN @ ELSE Append(@, [line |-> line, clocks |-> n, val |-> val])]
    [] line = "cmd_rd" ->
         [b EXCEPT !.sr_cmd = Shifted(@, 8, b.cmd_in, b.cmd_at + n, n, 1), !.cmd_at = @ + n]
    [] OTHER ->
         [b EXCEPT !.sr_dat = Shifted(@, 2, b.dat_in, b.dat_at + n, n, 15), !.dat_at = @ + n]

bi_sd_speed(b, fast) == LET cfg == [b.cfg EXCEPT !.fast = fast] IN [b EXCEPT !.cfg = cfg, !.reg = cfg]
bi_sd_bitlen(b, n) == LET cfg == [b.cfg EXCEPT !.bits = n] IN [b EXCEPT !.cfg = cfg, !.reg = cfg]

\* MUTANT of bi_sd_switch_mode: the lines are switched at the length in force.
bi_sd_switch_mode_Clocked(b, line) ==
  IF b.mode = line THEN b ELSE Clock([b EXCEPT !.mode = line], line, 255)

\* The lines change direction without a clock.
bi_sd_switch_mode(b, line) ==
  IF b.mode = line THEN b
  ELSE LET quiet == Clock(bi_sd_bitlen([b EXCEPT !.mode = line], 0), line, 255)
       IN  [quiet EXCEPT !.cfg = b.cfg, !.reg = b.cfg]

bi_sd_cmd_wr(b, val) == Clock(bi_sd_switch_mode(b, "cmd_wr"), "cmd_wr", val)
bi_sd_dat_wr(b, val) == Clock(bi_sd_switch_mode(b, "dat_wr"), "dat_wr", val)
bi_sd_cmd_rd(b) == Clock(bi_sd_switch_mode(b, "cmd_rd"), "cmd_rd", 255)
bi_sd_dat_rd(b) == Clock(bi_sd_switch_mode(b, "dat_rd"), "dat_rd", 255)

\* The bus behind each of n reads of a line.
CmdReads(b, n) ==
  LET f[i \in 0 .. n] == IF i = 0 THEN b ELSE bi_sd_cmd_rd(f[i - 1]) IN f
DatReads(b, n) ==
  LET f[i \in 0 .. n] == IF i = 0 THEN b ELSE bi_sd_dat_rd(f[i - 1]) IN f
\* The read that ends a loop.
First(polls) == CHOOSE i \in polls : \A j \in polls : i <= j

(***************************************************************************)
(* Commands and answers (disk.c).                                          *)
(***************************************************************************)
send_bytes(b, bytes) ==
  LET f[i \in 0 .. Len(bytes)] == IF i = 0 THEN b ELSE bi_sd_cmd_wr(f[i - 1], bytes[i])
  IN  f[Len(bytes)]

\* The first two bits of an answer are zeros.
wait_answer(reads) ==
  LET begun == {i \in 0 .. DISK_CMD_TOUT : reads[i].sr_cmd[1] = 0 /\ reads[i].sr_cmd[2] = 0}
  IN  IF begun = {} THEN [reads[DISK_CMD_TOUT + 1] EXCEPT !.ret = "DISK_ERR_CTO"]
      ELSE [reads[First(begun)] EXCEPT !.ret = "ok"]

resp_len(cmd) == IF cmd \in {"CMD2", "CMD9"} THEN 17 ELSE 6

\* The byte that is in the register, and those behind it.
read_bytes(reads, n) == [reads[n - 1] EXCEPT !.resp = [k \in 1 .. n |-> reads[k - 1].sr_cmd]]
answer_in(begun, cmd) ==
  IF begun.ret # "ok" THEN begun
  ELSE read_bytes(CmdReads(bi_sd_bitlen(begun, 8), resp_len(cmd) - 1), resp_len(cmd))
diskReadResp(b, cmd) ==
  answer_in(wait_answer(CmdReads(bi_sd_bitlen(bi_sd_cmd_rd(b), 1), DISK_CMD_TOUT + 1)), cmd)

answer_of(b, cmd) == IF cmd = "CMD18" THEN [b EXCEPT !.ret = "ok"] ELSE diskReadResp(b, cmd)
\* frame: the bytes of cmd, its argument and their checksum.
diskCmdSD(b, cmd, frame) == answer_of(send_bytes(bi_sd_bitlen(b, 8), <<255>> \o frame), cmd)

(***************************************************************************)
(* Blocks.                                                                 *)
(***************************************************************************)
\* What the PI reads from REG_SDIO_ARD, two bytes to a word, is clocked in at
\* the length in force.
words_in(b) ==
  LET n == BlockWords * b.reg.bits
  IN  [b EXCEPT !.blocks = Append(@, [i \in 1 .. n |-> Element(b.dat_in, b.dat_at + i, 15)]),
                !.dat_at = @ + n]
wait_token(reads) ==
  LET begun == {i \in 1 .. TokenPolls : reads[i].sr_dat[1] = 15 /\ reads[i].sr_dat[2] = 0}
  IN  IF begun = {} THEN [reads[TokenPolls] EXCEPT !.ret = 1]
      ELSE words_in(bi_sd_switch_mode(bi_sd_bitlen(reads[First(begun)], 4), "dat_rd"))
block_in(b) == wait_token(DatReads(bi_sd_bitlen(b, 1), TokenPolls))

\* The bus behind each of slen blocks; a loop that has returned changes nothing.
blocks_in(b, slen) ==
  LET f[k \in 0 .. slen] == IF k = 0 THEN [b EXCEPT !.ret = 0]
                            ELSE IF f[k - 1].ret # 0 THEN f[k - 1] ELSE block_in(f[k - 1])
  IN  f

bi_sd_to_ram(b, slen) ==
  [blocks_in([b EXCEPT !.pwd = "short"], slen)[slen] EXCEPT !.pwd = b.pwd]

\* Start, words and end of a block.
words_out(b, words) ==
  [b EXCEPT !.sent = @ \o [i \in DOMAIN words |-> [line |-> b.mode, clocks |-> b.reg.bits, val |-> words[i]]]]
start_out(b) == bi_sd_dat_wr(bi_sd_dat_wr(bi_sd_bitlen(b, 2), 255), 240)
frame_out(b, words) ==
  bi_sd_dat_wr(bi_sd_bitlen(words_out(bi_sd_bitlen(start_out(b), 4), words), 1), 255)

wait_ready(reads) ==
  LET ready == {i \in 1 .. BusyPolls + 1 : reads[i].sr_dat[1] = 15 /\ reads[i].sr_dat[2] = 15}
  IN  IF ready = {} THEN [reads[BusyPolls + 1] EXCEPT !.ret = 4] ELSE reads[First(ready)]

\* The three bits of the status of a block.
status_of(reads) ==
  4 * (reads[1].sr_dat[2] % 2) + 2 * (reads[2].sr_dat[2] % 2) + (reads[3].sr_dat[2] % 2)
read_status(reads) ==
  IF status_of(reads) = 2 THEN wait_ready(DatReads(reads[3], BusyPolls + 1))
  ELSE [reads[3] EXCEPT !.ret = IF status_of(reads) = 5 THEN 2 ELSE 3]

wait_status(reads) ==
  LET begun == {i \in 1 .. StatusPolls + 1 : reads[i].sr_dat[2] % 2 = 0}
  IN  IF begun = {} THEN [reads[StatusPolls + 1] EXCEPT !.ret = 1]
      ELSE read_status(DatReads(reads[First(begun)], 3))

block_out(b, words) == wait_status(DatReads(frame_out(b, words), StatusPolls + 1))

\* Each block is a sequence of words, the checksum with them.
blocks_out(b, blocks) ==
  LET f[k \in 0 .. Len(blocks)] == IF k = 0 THEN [b EXCEPT !.ret = 0]
                                   ELSE IF f[k - 1].ret # 0 THEN f[k - 1] ELSE block_out(f[k - 1], blocks[k])
  IN  f
bi_ram_to_sd(b, blocks) == blocks_out(b, blocks)[Len(blocks)]
=============================================================================
