------------------------------ MODULE Usb64Host ------------------------------
(***************************************************************************)
(* The usb64 program (usb64/usb64/*.cs) told to load and start a ROM:      *)
(* Connect, LoadRom, StartRom, over a serial port with timeouts.  After a  *)
(* failure the user may run it again.                                      *)
(***************************************************************************)
EXTENDS UsbLink

CONSTANTS
  MaxSessions,   \* how often the user runs the program
  StaleAnswers   \* TRUE: answers nobody read survive the closing of the port

ASSUME SessionsAssumption == MaxSessions \in Nat \ {0} /\ StaleAnswers \in BOOLEAN

VARIABLES
  host_pc,    \* "off", "send", "recv", "done" or "failed"
  host_step,  \* index in Program
  out,        \* what the current Write has still to write
  sessions    \* runs of the program so far

hostVars == <<host_pc, host_step, out, sessions>>

\* One call of CommandPacketTransmit with the Write that follows it; answered
\* says that CommandPacketReceive comes next.
Exchange(units, answered) == [send |-> units, answered |-> answered]

\* CommandPacketTransmit divides the length in bytes by 512 and drops the rest.
Blocks(units) == units \div Block

TestConnection == Exchange(<<Command("t", 0, 0)>>, TRUE)

\* FillCartridgeRomSpace
FillCartridge ==
  IF ImageUnits < CrcArea
  THEN <<Exchange(<<Command("c", 0, Blocks(CrcArea))>>, FALSE), TestConnection>>
  ELSE <<>>

RomWrite ==
  Exchange(<<Command("W", 0, Blocks(ImageUnits))>> \o [i \in 1 .. ImageUnits |-> Data(i - 1)], FALSE)

StartRom == Exchange(<<Command("s", 0, 0)>> \o [i \in 1 .. NameUnits |-> Other("name")], FALSE)

Program == <<TestConnection>> \o FillCartridge \o <<RomWrite, StartRom>>

HostTypeOK ==
  /\ host_pc \in {"off", "send", "recv", "done", "failed"}
  /\ host_step \in 0 .. Len(Program)
  /\ out \in Seq(Units)
  /\ sessions \in 0 .. MaxSessions

HostInit == host_pc = "off" /\ host_step = 0 /\ out = <<>> /\ sessions = 0

Listening == host_pc \in {"send", "recv"}

StartStep(n) ==
  IF n > Len(Program)
  THEN host_pc' = "done" /\ UNCHANGED <<host_step, out>>
  ELSE host_pc' = "send" /\ host_step' = n /\ out' = Program[n].send

\* MUTANT of Connect: what an earlier run has left unread is still there.
Connect_KeepsAnswers(pending) ==
  /\ host_pc \in {"off", "failed"} /\ sessions < MaxSessions
  /\ ~pending
  /\ sessions' = sessions + 1
  /\ StartStep(1)
  /\ UNCHANGED linkVars

\* UsbInterface.Connect opens the port.  The console empties the FIFO long
\* before a user has typed the command again: pending is as in HostTimesOut.
Connect(pending) ==
  /\ host_pc \in {"off", "failed"} /\ sessions < MaxSessions
  /\ ~pending
  /\ sessions' = sessions + 1
  /\ StartStep(1)
  /\ reply' = IF StaleAnswers THEN reply ELSE <<>>
  /\ UNCHANGED fifo

\* UsbInterface.Write
HostWrites ==
  /\ host_pc = "send" /\ out # <<>> /\ Len(fifo) < FifoCap
  /\ fifo' = Append(fifo, Head(out))
  /\ out' = Tail(out)
  /\ UNCHANGED <<reply, host_pc, host_step, sessions>>

\* MUTANT of HostWritten: the answers of tests are not waited for.
HostWritten_NoWait ==
  /\ host_pc = "send" /\ out = <<>>
  /\ StartStep(host_step + 1)
  /\ UNCHANGED <<linkVars, sessions>>

HostWritten ==
  /\ host_pc = "send" /\ out = <<>>
  /\ IF Program[host_step].answered
     THEN host_pc' = "recv" /\ UNCHANGED <<host_step, out>>
     ELSE StartStep(host_step + 1)
  /\ UNCHANGED <<linkVars, sessions>>

\* CommandPacketReceive gets the answer of a test.
HostReceives ==
  /\ host_pc = "recv" /\ reply # <<>>
  /\ reply' = Tail(reply)
  /\ StartStep(host_step + 1)
  /\ UNCHANGED <<fifo, sessions>>

\* ReadTimeout or WriteTimeout: the exception ends the program.  pending says
\* that the console is still going to take or to answer something.
HostTimesOut(pending) ==
  /\ \/ host_pc = "recv" /\ reply = <<>>
     \/ host_pc = "send" /\ out # <<>> /\ Len(fifo) = FifoCap
  /\ ~pending
  /\ host_pc' = "failed" /\ out' = <<>>
  /\ UNCHANGED <<linkVars, host_step, sessions>>

\* The user interrupts the program, or pulls the cable.
HostStopped ==
  /\ Listening
  /\ host_pc' = "failed" /\ out' = <<>>
  /\ UNCHANGED <<linkVars, host_step, sessions>>

HostStep == HostWrites \/ HostWritten \/ HostReceives
=============================================================================
