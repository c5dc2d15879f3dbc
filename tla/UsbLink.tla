------------------------------- MODULE UsbLink -------------------------------
(***************************************************************************)
(* What travels between the usb64 program on the PC and the USB loader on  *)
(* the console, and the FIFOs it travels through.  The unit of transfer is *)
(* 16 bytes, the size of a command packet: a command is one unit, a block  *)
(* of ROM data (512 bytes) is Block units.                                 *)
(***************************************************************************)
EXTENDS Integers, Sequences

CONSTANTS
  Block,       \* units of a 512-byte block (32 in the program)
  ImageUnits,  \* units of the ROM image the host loads
  CrcArea,     \* units of the area the boot code checks (0x101000 bytes)
  NameUnits,   \* units of the file name sent after 's' (256 bytes)
  RomUnits,    \* units of the cartridge ROM space
  FifoCap      \* units the path to the console holds

ASSUME BlockAssumption == Block \in Nat \ {0}
ASSUME ImageAssumption == ImageUnits \in Nat \ {0} /\ ImageUnits <= RomUnits
ASSUME AreaAssumption == CrcArea \in Nat /\ CrcArea % Block = 0 /\ CrcArea <= RomUnits
ASSUME SizeAssumption == NameUnits \in Nat /\ RomUnits \in Nat /\ FifoCap \in Nat \ {0}

VARIABLES
  fifo,   \* units on their way to the console, oldest first
  reply   \* answers on their way to the host

linkVars == <<fifo, reply>>

\* "cmd" packets: command letter, address, length in blocks.
Command(c, a, n) == [kind |-> "cmd", op |-> c, addr |-> a, len |-> n]
\* Unit i of the image; a unit of the file name; what 'c' fills the ROM with;
\* what the ROM held before.
Data(i) == [kind |-> "data", op |-> "-", addr |-> i, len |-> 0]
Other(k) == [kind |-> k, op |-> "-", addr |-> 0, len |-> 0]

RomAddrs == 0 .. RomUnits - 1

Units == [kind : {"cmd", "data", "name", "fill", "old"},
          op : {"-", "t", "c", "W", "s"},
          addr : 0 .. RomUnits, len : 0 .. RomUnits]
=============================================================================
