----------------------------- MODULE Algorithms -----------------------------
(***************************************************************************)
(* The computations of ED64-XIO and usb64 that are the same whatever else  *)
(* goes on, each over a set of inputs: a behaviour picks one sample, and   *)
(* the invariants compare what the code makes of it with what it is for.   *)
(* Encodings has those of names and directories.                           *)
(***************************************************************************)
EXTENDS SdBus, SdCrc, FatMount, HostData

CONSTANTS
  Answers,          \* answers of a card, as sequences of bits
  Nibbles,          \* blocks, as sequences of what is on the data lines
  Delays, Blocks,   \* clocks before a block, and blocks at once
  Bytes,            \* bytes of commands and blocks, as sets of bits
  Volumes,          \* parameter blocks
  ExVolumes,        \* those of exFAT volumes, each with its FAT and root directory
  Bases,            \* first sectors of volumes
  FileBytes,        \* bytes of files
  Images,           \* ROM images
  Arguments,        \* arguments of usb64
  Files, Roms,      \* files that exist, and those of them that are images
  Screens           \* widths and heights

ASSUME BusAssumption ==
  /\ {DISK_CMD_TOUT, TokenPolls, StatusPolls, BusyPolls, BlockWords} \subseteq Nat \ {0}
  /\ Delays \subseteq Nat /\ Blocks \subseteq Nat
  /\ \A a \in Answers : Len(a) \in {48, 136} /\ a \in Seq({0, 1}) /\ a[1] = 0 /\ a[2] = 0
  /\ \A d \in Nibbles : Len(d) = 4 * BlockWords /\ d \in Seq(0 .. 15)
ASSUME BytesAssumption == Bytes \subseteq SUBSET (0 .. 7)
ASSUME VolumesAssumption ==
  /\ \A bpb \in Volumes : Fields(bpb)
  /\ \A bpb \in ExVolumes : ExFields(bpb)
  /\ Bases \subseteq Nat
ASSUME ImagesAssumption ==
  \A image \in Images : image \in Seq(FileBytes) /\ Len(image) >= 4
ASSUME ArgumentsAssumption ==
  \A arg \in Arguments :
    arg \in [opt : {"", "rom", "start"}, f : STRING] /\ (arg.opt = "" => arg.f # "none")
ASSUME FilesAssumption == Roms \subseteq Files /\ "before" \notin Roms
ASSUME ScreensAssumption ==
  \A size \in Screens : size.width \in Nat /\ size.width < 65536 /\ size.height \in Nat

VARIABLE sample

Init == sample = [kind |-> "none"]

\* The bus as the call before it left it.
Buses ==
  {[cfg |-> [bits |-> n, fast |-> f], reg |-> [bits |-> n, fast |-> f], mode |-> line,
    pwd |-> "slow", sent |-> <<>>, cmd_in |-> <<>>, dat_in |-> <<>>, cmd_at |-> 0, dat_at |-> 0,
    sr_cmd |-> [i \in 1 .. 8 |-> 0], sr_dat |-> dat,
    resp |-> <<>>, blocks |-> <<>>, ret |-> 0] :
      n \in {0, 1, 2, 4, 8}, f \in BOOLEAN, line \in Lines, dat \in {<<15, 0>>, <<0, 0>>, <<15, 15>>}}

Command(b) ==
  \E cmd \in {"CMD2", "CMD17", "CMD18"}, a \in Answers, d \in Delays :
    /\ Len(a) = 8 * resp_len(cmd)
    /\ sample' = [kind |-> "command", cmd |-> cmd, delay |-> d, answer |-> a, b |-> b]
Read(b) ==
  \E n \in Blocks : \E ds \in [1 .. n -> Delays \ {0}], data \in [1 .. n -> Nibbles] :
    sample' = [kind |-> "read", delays |-> ds, data |-> data, b |-> b]
Write(b) ==
  \E n \in Blocks, status \in {0, 2, 5, 7}, d, busy \in Delays :
    sample' = [kind |-> "write", b |-> b, blocks |-> n, status |-> status, delay |-> d, busy |-> busy]

Checksum == \E at \in 1 .. 8, x, y \in Bytes : sample' = [kind |-> "checksum", at |-> at, x |-> x, y |-> y]

ExVolume == \E bpb \in ExVolumes, s \in Bases : sample' = [kind |-> "exvolume", bpb |-> bpb, bsect |-> s]
Volume == \E bpb \in Volumes, s \in Bases : sample' = [kind |-> "volume", bpb |-> bpb, bsect |-> s]
Partitions ==
  \E check \in [0 .. 3 -> 0 .. 4], mbr_pt \in [0 .. 3 -> 0 .. 3] :
    sample' = [kind |-> "partitions", check |-> check, mbr_pt |-> mbr_pt]
Entry12 == \E c, d \in 2 .. 9 : sample' = [kind |-> "entry", c |-> c, d |-> d]
Image == \E image \in Images, n \in {1, 2, 4} : sample' = [kind |-> "image", image |-> image, n |-> n]
Arguments3 ==
  \E n \in 1 .. 3 : \E args \in [1 .. n -> Arguments] : sample' = [kind |-> "args", args |-> args]
Screen ==
  \/ \E c \in 0 .. 255 : sample' = [kind |-> "pixel", c |-> c]
  \/ \E size \in Screens : sample' = [kind |-> "screen", width |-> size.width, height |-> size.height]

Next ==
  /\ sample.kind = "none"
  /\ \/ \E b \in Buses : Command(b) \/ Read(b) \/ Write(b)
     \/ Checksum \/ ExVolume \/ Volume \/ Partitions \/ Entry12
     \/ Image \/ Arguments3 \/ Screen

Spec == Init /\ [][Next]_sample

(***************************************************************************)
(* The SD bus.                                                             *)
(***************************************************************************)
Sent(line, clocks, vals) == [i \in DOMAIN vals |-> [line |-> line, clocks |-> clocks, val |-> vals[i]]]
Settled(b, r) == r.cfg = r.reg /\ r.reg.fast = b.reg.fast /\ r.pwd = b.pwd
Ones(n, one) == [i \in 1 .. n |-> one]

\* The parts one behind the other.
Joined(parts) ==
  LET f[k \in 0 .. Len(parts)] == IF k = 0 THEN <<>> ELSE f[k - 1] \o parts[k] IN f[Len(parts)]

\* The card answers after some clocks.
Answered(s, r) ==
  /\ Settled(s.b, r)
  /\ r.sent = Sent("cmd_wr", 8, <<255, 1, 2, 3, 4, 5, 6>>)
  /\ s.cmd # "CMD18" =>
       IF s.delay <= DISK_CMD_TOUT
       THEN r.ret = "ok" /\ r.resp = [k \in 1 .. Len(s.answer) \div 8 |->
                                        [i \in 1 .. 8 |-> s.answer[8 * (k - 1) + i]]]
       ELSE r.ret = "DISK_ERR_CTO"
CommandTrue(s) ==
  Answered(s, diskCmdSD([s.b EXCEPT !.cmd_in = Ones(s.delay, 1) \o s.answer], s.cmd, <<1, 2, 3, 4, 5, 6>>))

\* A block that the card sends, after some clocks, between a start and an end.
Frame(delay, data) == Ones(delay, 15) \o <<0>> \o data \o <<15>>
\* The clocks up to its start, the end of the block before it with them.
InTime(delays, k) == delays[k] + (IF k = 1 THEN 1 ELSE 2) <= TokenPolls

Received(s, r) ==
  /\ Settled(s.b, r)
  /\ IF \A k \in DOMAIN s.delays : InTime(s.delays, k) THEN r.ret = 0 /\ r.blocks = s.data ELSE r.ret = 1
ReadTrue(s) ==
  LET frames == [k \in DOMAIN s.delays |-> Frame(s.delays[k], s.data[k])]
  IN  Received(s, bi_sd_to_ram([s.b EXCEPT !.dat_in = Joined(frames)], Len(s.delays)))

\* The status that the card sends for a block, and how long it is busy then.
Reply(s) ==
  LET Line(bit) == IF bit = 1 THEN 15 ELSE 14
  IN  Ones(s.delay, 15) \o <<14, Line(s.status \div 4), Line((s.status \div 2) % 2), Line(s.status % 2), 15>>
      \o Ones(s.busy, 14) \o <<15, 15>>
Words == [i \in 1 .. BlockWords |-> i]
BlockFrame == Sent("dat_wr", 2, <<255, 240>>) \o Sent("dat_wr", 4, Words) \o Sent("dat_wr", 1, <<255>>)
Result(s) ==
  IF s.delay > StatusPolls THEN 1
  ELSE CASE s.status = 5         -> 2
         [] s.status \notin {2, 5} -> 3
         [] OTHER -> IF (IF s.busy = 0 THEN 1 ELSE s.busy + 2) > BusyPolls THEN 4 ELSE 0

Stored(s, r) ==
  /\ Settled(s.b, r)
  /\ s.blocks = 1 => r.ret = Result(s) /\ r.sent = BlockFrame
  /\ r.ret = 0 => /\ r.sent = Joined([k \in 1 .. s.blocks |-> BlockFrame])
                  /\ \A p \in DOMAIN r.dat_in : p > r.dat_at => r.dat_in[p] # 14
WriteTrue(s) ==
  LET Each(x) == [k \in 1 .. s.blocks |-> x]
  IN  Stored(s, bi_ram_to_sd([s.b EXCEPT !.dat_in = Joined(Each(Reply(s)))], Each(Words)))

\* Whatever length, mode and speed the call before has left, a command goes
\* out as seven whole bytes and its answer comes in bit for bit or not at all;
\* a block is read from its first nibble on; a block is written in its frame
\* and 0 is returned only when the card has taken it and is ready again
\* (diskCmdSD, bi_sd_to_ram, bi_ram_to_sd).
BusCarriesFrames ==
  CASE sample.kind = "command" -> CommandTrue(sample)
    [] sample.kind = "read"    -> ReadTrue(sample)
    [] sample.kind = "write"   -> WriteTrue(sample)
    [] OTHER                   -> TRUE

(***************************************************************************)
(* Checksums.                                                              *)
(***************************************************************************)
Block8(s) == [i \in 1 .. 8 |-> IF i = s.at THEN s.x ELSE IF i = (s.at % 8) + 1 THEN s.y ELSE {}]

\* crc7 leaves the remainder a card computes in the upper seven bits, sdCrc16
\* puts on every data line the remainder of that line's bits, whatever crc_out
\* held before.
ChecksumsMatch ==
  sample.kind = "checksum" =>
    LET src == Block8(sample)
        buff == SubSeq(src, 1, 5)
        out == sdCrc16(src, [w \in 0 .. 3 |-> sample.x])
    IN  /\ {i - 1 : i \in crc7(buff)} = SpecCrc7(buff)
        /\ \A l \in 0 .. 3 :
             SentOn(out, l) = [k \in 0 .. 15 |-> IF 15 - k \in SpecLine(src, l) THEN 1 ELSE 0]

(***************************************************************************)
(* The volume.                                                             *)
(***************************************************************************)
\* Nibbles of a FAT12 to be changed.
SampleFat == [i \in 0 .. 20 |-> <<i % 16, (7 * i) % 16>>]

\* A volume that is accepted, and whose sums do not wrap, has its areas one
\* behind the other and the FAT entry of every cluster inside the FAT; the
\* first volume of the partition table is the one that is mounted; the
\* clusters of an exFAT volume that is accepted are inside it, each on sectors
\* of its own, and the sectors of its bitmap, which are counted up from the
\* first one, are those of the bitmap's chain in the FAT; a FAT12 entry is
\* written without touching its neighbours (mount_volume, find_volume,
\* get_fat, put_fat).
VolumeLaidOut ==
  CASE sample.kind = "volume" ->
         Accepted(sample.bpb) /\ NoWrap(sample.bpb, sample.bsect)
           => /\ AreasApart(sample.bpb, sample.bsect) /\ ClustersApart(sample.bpb, sample.bsect)
              /\ EntriesInFat(sample.bpb, sample.bsect)
    [] sample.kind = "exvolume" ->
         ex_accepted(sample.bpb, sample.bsect) /\ ExNoWrap(sample.bpb, sample.bsect)
           => /\ ExClustersInside(sample.bpb, sample.bsect) /\ ExClustersApart(sample.bpb, sample.bsect)
              /\ BitmapInPlace(sample.bpb, sample.bsect)
    [] sample.kind = "partitions" -> FirstVolume(sample.check, sample.mbr_pt)
    [] sample.kind = "entry"      -> EntryApart(SampleFat, sample.c, sample.d, <<9, 6, 3>>)
    [] OTHER                      -> TRUE

(***************************************************************************)
(* usb64.                                                                  *)
(***************************************************************************)
\* The ROM gets the bytes of the image in the console's order, whatever order
\* the file has, but for a last part of a block, and the FPGA the whole of its
\* file; a file that is no image is not
\* loaded and, when it was named with -rom, no game is started; a pixel of the
\* screen shot has the colour it had (LoadRom, HandleArguments,
\* ConvertToBitmap).
HostConverts ==
  CASE sample.kind = "image"  -> /\ AnyOrderLoads(sample.image, sample.n) /\ FpgaWhole(sample.image)
                                 /\ OthersRefused(reverse_each(sample.image, sample.n))
    [] sample.kind = "args"   -> StartsWhatWasGiven(sample.args, Files, Roms)
    [] sample.kind = "screen" -> HeaderTrue(sample.width, sample.height)
    [] sample.kind = "pixel"  -> \A d \in 0 .. 255 : PixelKept(sample.c, d)
    [] OTHER                  -> TRUE
=============================================================================
