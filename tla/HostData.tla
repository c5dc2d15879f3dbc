------------------------------ MODULE HostData ------------------------------
(***************************************************************************)
(* What usb64 does to data on its way (usb64/usb64/*.cs): the arguments    *)
(* are carried out (Program.cs), a ROM image is brought into the order of  *)
(* the console (CommandProcessor.cs), a screen becomes a bitmap            *)
(* (ImageUtilities.cs).                                                    *)
(***************************************************************************)
EXTENDS Integers, Sequences

CONSTANTS
  BLOCK,       \* bytes in a block of the link               (512)
  BOOT_END     \* bytes IsBootLoader looks at                (0x34)

ASSUME HostAssumption == BLOCK \in Nat \ {0} /\ BOOT_END \in Nat \ {0}

(***************************************************************************)
(* ROM images.  A file is a sequence of bytes; the first four are those of *)
(* the magic word, in some order, or are not.                              *)
(***************************************************************************)
Magic == <<"80", "37", "12", "40">>

\* Piece by piece of n bytes, each reversed; the last one may be shorter.
reverse_each(data, n) ==
  [i \in 1 .. Len(data) |->
     LET before == n * ((i - 1) \div n)
         end == IF before + n <= Len(data) THEN before + n ELSE Len(data)
     IN  data[before + 1 + end - i]]

Header(file) == SubSeq(file, 1, 4)

\* MUTANT of converted: the words of a little endian image are taken as halves.
converted_Halves(file) ==
  CASE Header(file) = Magic                  -> file
    [] OTHER                                 -> reverse_each(file, 2)

\* romBytes; an image in no known order is not read at all.
converted(file) ==
  CASE Header(file) = Magic                  -> file
    [] Header(file) = reverse_each(Magic, 2) -> reverse_each(file, 2)
    [] Header(file) = reverse_each(Magic, 4) -> reverse_each(file, 4)
    [] OTHER                                 -> <<>>

FixDataSize(data) ==
  data \o [i \in 1 .. (BLOCK - (Len(data) % BLOCK)) % BLOCK |-> "ff"]

\* Blocks are counted in the packet and the data is sent as it is: what the
\* console stores of it.
Taken(data) == SubSeq(data, 1, BLOCK * (Len(data) \div BLOCK))

\* What reaches the console, or the exception that ends the program: the file
\* is too short for the magic word, the image for IsBootLoader.
LoadRom(file) ==
  IF Len(file) < 4 \/ Len(converted(file)) < BOOT_END THEN [ok |-> FALSE, rom |-> <<>>]
  ELSE [ok |-> TRUE, rom |-> Taken(converted(file))]

\* A configuration of the FPGA is padded before it is sent.
LoadFpga(file) == Taken(FixDataSize(file))

\* Whatever order an image is kept in, the console gets the image itself, as
\* many whole blocks as it has.
AnyOrderLoads(image, n) ==
  LET got == LoadRom(reverse_each(image, n))
  IN  Header(image) = Magic /\ Len(image) >= BOOT_END =>
        /\ got.ok
        /\ Len(got.rom) = BLOCK * (Len(image) \div BLOCK)
        /\ \A i \in 1 .. Len(got.rom) : got.rom[i] = image[i]

\* A file without the magic word in any order is not loaded.  LoadRom announces
\* it as an emulator ROM and moves the base address, but reads nothing of it:
\* IsBootLoader throws when it looks into the empty image.
OthersRefused(file) ==
  (\A n \in {1, 2, 4} : Header(file) # reverse_each(Magic, n)) => ~LoadRom(file).ok

\* A configuration arrives as a whole, with less than a block behind it.
FpgaWhole(file) ==
  /\ Len(LoadFpga(file)) \in Len(file) .. Len(file) + BLOCK - 1
  /\ \A i \in 1 .. Len(file) : LoadFpga(file)[i] = file[i]

(***************************************************************************)
(* HandleArguments.  s.rom is the file whose image the ROM holds, s.path   *)
(* the argument of the last -rom; s.name and s.start what the -start       *)
(* options have left for the end; s.started the games that were started,   *)
(* as pairs of the file in the ROM and the name.  files are the files that *)
(* exist, roms those of them that LoadRom does not throw an exception for. *)
(***************************************************************************)
\* What follows "=" in an argument; without one ("none") it is the argument
\* itself, for which the option stands here.
ExtractSubArg(arg) == IF arg.f = "none" THEN arg.opt ELSE arg.f

StartRom(s, name) == [s EXCEPT !.started = Append(@, [rom |-> s.rom, name |-> name])]
Written(s, f, files, roms) ==
  IF f \in roms THEN [s EXCEPT !.rom = f] ELSE [s EXCEPT !.ok = f \notin files]

HandleArgument(s, arg, files, roms) ==
  LET f == ExtractSubArg(arg)
      w == Written(s, arg.f, files, roms)
  IN  IF ~s.ok THEN s
      ELSE CASE arg.opt = "rom" /\ f = "" -> [s EXCEPT !.ok = FALSE]
             [] arg.opt = "rom" /\ f # "" -> Written([s EXCEPT !.path = f], f, files, roms)
             [] arg.opt = "start"         -> [s EXCEPT !.start = TRUE, !.name = IF f = "" THEN @ ELSE f]
             [] arg.opt = "" /\ arg.f \in files -> IF w.ok THEN StartRom(w, arg.f) ELSE w
             [] OTHER                     -> s

\* after[k] is the state behind the first k arguments.
HandleArguments(args, files, roms) ==
  LET after[k \in 0 .. Len(args)] ==
        IF k = 0
        THEN [rom |-> "before", path |-> "", name |-> "", start |-> FALSE, started |-> <<>>, ok |-> TRUE]
        ELSE HandleArgument(after[k - 1], args[k], files, roms)
      s == after[Len(args)]
  IN  IF ~s.start \/ ~s.ok THEN s
      ELSE IF s.name # "" THEN StartRom(s, s.name)
      ELSE IF s.path # "" THEN StartRom(s, s.path)
      ELSE [s EXCEPT !.ok = FALSE]

\* A game that is started is one that was given, or the one that was there
\* before when none was; a file that is no image keeps -start from starting
\* anything; and there is one game at most when all is said with options.
StartsWhatWasGiven(args, files, roms) ==
  LET started == HandleArguments(args, files, roms).started
      given == {ExtractSubArg(args[i]) : i \in {k \in DOMAIN args : args[k].opt # "start"}}
      plain == \A i \in DOMAIN args : args[i].opt # ""
  IN  /\ \A i \in DOMAIN started : started[i].rom \in given \cup {"before"}
      /\ \A i \in DOMAIN started : started[i].rom = "before" => given \cap roms = {}
      /\ plain /\ given \cap (files \ roms) # {} => started = <<>>
      /\ plain => Len(started) <= 1

(***************************************************************************)
(* ConvertToBitmap.                                                        *)
(***************************************************************************)
\* A pixel of the frame buffer is 5 bits each of red, green and blue and one
\* more; one of the bitmap is bytes of blue, green and red.
Pixel(c0, c1) == <<((c1 % 64) \div 2) * 8, (c0 % 8) * 32 + (c1 \div 64) * 8, (c0 \div 8) * 8>>

\* Four bytes of the header, the lower first: two are those of n, which may be
\* negative, two are constants.
Bytes2(n, high) == <<n % 256, (n \div 256) % 256, high, high>>
BitmapHeader(width, height) ==
  [file |-> Bytes2(width * height * 3 + 54, 0), width |-> Bytes2(width, 0),
   height |-> Bytes2(-height, 255), image |-> Bytes2(width * height * 3, 0)]

\* A pixel keeps its colour, less the bits of each that are not there.
PixelKept(c, d) ==
  LET p == 256 * c + d
  IN  Pixel(c, d) = <<8 * ((p \div 2) % 32), 8 * ((p \div 64) % 32), 8 * (p \div 2048)>>

\* The header has the sizes of the picture, those of the file only up to 16 bits.
HeaderTrue(width, height) ==
  LET h == BitmapHeader(width, height)
      Number4(b) == b[1] + 256 * (b[2] + 256 * (b[3] + 256 * b[4]))
  IN  /\ Number4(h.width) = width
      /\ width * height * 3 + 54 < 65536
           => Number4(h.file) = Number4(h.image) + 54 /\ Number4(h.image) = width * height * 3
=============================================================================
