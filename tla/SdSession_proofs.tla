-------------------------- MODULE SdSession_proofs --------------------------
(***************************************************************************)
(* Proofs about SdSession: while only tolerated faults happen, SessionInv  *)
(* is inductive, and from it follow type correctness, the alignment of     *)
(* driver and card, the correctness of reads and writes, and that the      *)
(* driver implements BlockDevice; what holds whatever faults the bus has   *)
(* follows at the end.                                                     *)
(***************************************************************************)
EXTENDS SdSession, TLAPS

\* What the assumptions say of the constants.
LEMMA Constants ==
  NSectors \in Nat /\ NSectors >= 1 /\ MaxCount \in Nat /\ MaxCount <= 32768
BY NSectorsAssumption, MaxCountAssumption

\* The request being served; truncating its count to u16 loses nothing.
ReqType ==
  /\ req.op \in {"read", "write", "sync", "init"}
  /\ req.sector \in Nat /\ req.sector < NSectors
  /\ req.count \in Nat /\ req.count <= MaxCount
  /\ U16(req.count) = req.count

\* FatFs's counts fit the driver's u16 parameter.
LEMMA CountFits == TypeOK => ReqType
<1> SUFFICES ASSUME TypeOK PROVE ReqType
  OBVIOUS
<1>1. /\ req.op \in {"read", "write", "sync", "init"}
      /\ req.sector \in Nat /\ req.sector < NSectors
      /\ req.count \in Nat /\ req.count <= MaxCount
  BY Constants DEF TypeOK, BD!Requests, BD!Sectors
<1>2. req.count >= 0 /\ req.count < 65536 /\ req.count \in Int
  BY <1>1, Constants
<1> QED
  BY <1>1, <1>2 DEF U16, ReqType

\* A card addressed in bytes finds the sector the driver meant.
LEMMA ArgNamesSector ==
  TypeOK /\ RequestInv /\ ready => SectorOf(CmdArg(req.sector)) = req.sector
BY CountFits, CardHCAssumption DEF ReqType, RequestInv, SectorOf, CmdArg

\* A fact the SMT solver does not see among Boolean-valued variables.
LEMMA FalseIsBoolean == \A x : x = FALSE => x \in BOOLEAN
BY Zenon

\* FatFs hands over a request: the session is not touched, except that
\* disk_initialize forgets it.
LEMMA CallInv ==
  SessionInv /\ (Call) => SessionInv'
<1> SUFFICES ASSUME TypeOK, SessionAligned, RequestInv, TransferInv,
                   Call
             PROVE  SessionInv'
  BY DEF SessionInv
<1> USE CountFits, Constants DEF ReqType
<1>1. CASE \E s \in Sectors, n \in 1 .. MaxCount : disk_read(s, n)
  <2>1. TypeOK'
    BY <1>1 DEF TypeOK, CardStates, BD!Requests, BD!Sectors, Sectors, Offsets,
       disk_read, Request, cardVars, diskVars
  <2>2. SessionAligned'
    BY <1>1 DEF SessionAligned, Owed, disk_read, Request, cardVars, diskVars
  <2>3. RequestInv'
    BY <1>1 DEF RequestInv, disk_read, Request, cardVars, diskVars
  <2>4. TransferInv'
    BY <1>1 DEF TransferInv, Finished, disk_read, Request, cardVars, diskVars
  <2> QED
    BY <2>1, <2>2, <2>3, <2>4 DEF SessionInv
<1>2. CASE \E s \in Sectors, n \in 1 .. MaxCount : \E b \in [0 .. n - 1 -> Vals] : disk_write(s, n, b)
  <2>1. TypeOK'
    BY <1>2 DEF TypeOK, CardStates, BD!Requests, BD!Sectors, Sectors, Offsets,
       disk_write, Request, cardVars, diskVars
  <2>2. SessionAligned'
    BY <1>2 DEF SessionAligned, Owed, disk_write, Request, cardVars, diskVars
  <2>3. RequestInv'
    BY <1>2, ValsAssumption DEF RequestInv, TypeOK, Sectors, Offsets, disk_write,
       Request, cardVars, diskVars
  <2>4. TransferInv'
    BY <1>2 DEF TransferInv, Finished, disk_write, Request, cardVars, diskVars
  <2> QED
    BY <2>1, <2>2, <2>3, <2>4 DEF SessionInv
<1>3. CASE disk_sync
  <2>1. TypeOK'
    BY <1>3 DEF TypeOK, CardStates, BD!Requests, BD!Sectors, Sectors, Offsets,
       disk_sync, Request, cardVars, diskVars
  <2>2. SessionAligned'
    BY <1>3 DEF SessionAligned, Owed, disk_sync, Request, cardVars, diskVars
  <2>3. RequestInv'
    BY <1>3 DEF RequestInv, disk_sync, Request, cardVars, diskVars
  <2>4. TransferInv'
    BY <1>3 DEF TransferInv, Finished, disk_sync, Request, cardVars, diskVars
  <2> QED
    BY <2>1, <2>2, <2>3, <2>4 DEF SessionInv
<1>4. CASE disk_initialize
  <2>a. disk_card_type' \in SUBSET {"SD_V2", "SD_HC"}
    BY <1>4 DEF disk_initialize
  <2>0. req' \in BD!Requests
    BY <1>4 DEF BD!Requests, BD!Sectors, disk_initialize, Request
  <2>1. TypeOK'
    <3>1. /\ UNCHANGED cardVars
          /\ UNCHANGED <<disk_cur_addr, buf>>
          /\ disk_mode' = "NOP" /\ pc' = "init" /\ ret' = "none" /\ done' = 0
      BY <1>4 DEF disk_initialize, Request
    <3>2. retry' = (ret = "error" /\ req' = req /\ ~Forgotten)
      BY <1>4 DEF disk_initialize, Request
    <3>3. retry' \in BOOLEAN
      BY <3>2
    <3>4. ready' = FALSE
      BY <1>4 DEF disk_initialize
    <3>6. ready' \in BOOLEAN
      BY ONLY <3>4, FalseIsBoolean, Zenon
    <3> QED
      BY <2>0, <2>a, <3>1, <3>3, <3>6 DEF TypeOK, cardVars
  <2>2. SessionAligned'
    BY <1>4 DEF SessionAligned, Owed, disk_initialize, Request, cardVars
  <2>3. RequestInv'
    BY <1>4 DEF RequestInv, disk_initialize, Request, cardVars
  <2>4. TransferInv'
    BY <1>4 DEF TransferInv, Finished, disk_initialize, Request, cardVars
  <2> QED
    BY <2>1, <2>2, <2>3, <2>4 DEF SessionInv
<1> QED
  BY <1>1, <1>2, <1>3, <1>4 DEF Call

\* Opening, stopping and waiting: disk_mode and the card's state change
\* together, or the driver falls back to NOP.
LEMMA OpenInv ==
  Faults \subseteq Tolerated /\ SessionInv /\ (OpenReuse \/ OpenClose \/ CloseNothing
     \/ StopAnswered \/ StopIllegal \/ StopMissed \/ WaitReady \/ WaitGivesUp \/
     CardProgrammed) => SessionInv'
<1> SUFFICES ASSUME Faults \subseteq Tolerated, TypeOK, SessionAligned, RequestInv, TransferInv,
                   OpenReuse \/ OpenClose \/ CloseNothing \/ StopAnswered \/
                      StopIllegal \/ StopMissed \/ WaitReady \/ WaitGivesUp \/
                      CardProgrammed
             PROVE  SessionInv'
  BY DEF SessionInv
<1> USE CountFits, Constants DEF ReqType
<1>1. CASE OpenReuse
  <2>1. TypeOK'
    BY <1>1 DEF TypeOK, CardStates, RequestInv, TransferInv, OpenReuse, cardVars,
       callVars, ModeOf
  <2>2. SessionAligned'
    BY <1>1 DEF SessionAligned, Owed, TypeOK, RequestInv, TransferInv, OpenReuse,
       cardVars, callVars, ModeOf
  <2>3. RequestInv'
    BY <1>1 DEF RequestInv, OpenReuse, cardVars, callVars, ModeOf
  <2>4. TransferInv'
    BY <1>1 DEF TransferInv, Finished, BD!Agree, SessionAligned, Owed, TypeOK,
       RequestInv, OpenReuse, cardVars, callVars, ModeOf
  <2> QED
    BY <2>1, <2>2, <2>3, <2>4 DEF SessionInv
<1>2. CASE OpenClose
  <2>1. TypeOK'
    BY <1>2 DEF TypeOK, CardStates, OpenClose, cardVars, diskVars, callVars, ModeOf
  <2>2. SessionAligned'
    BY <1>2 DEF SessionAligned, Owed, OpenClose, cardVars, diskVars, callVars, ModeOf
  <2>3. RequestInv'
    BY <1>2 DEF RequestInv, OpenClose, cardVars, diskVars, callVars, ModeOf
  <2>4. TransferInv'
    BY <1>2 DEF TransferInv, Finished, OpenClose, cardVars, diskVars, callVars, ModeOf
  <2> QED
    BY <2>1, <2>2, <2>3, <2>4 DEF SessionInv
<1>3. CASE CloseNothing
  <2>1. TypeOK'
    BY <1>3 DEF TypeOK, CardStates, CloseNothing, CloseReturns, Return, cardVars,
       diskVars, callVars
  <2>2. SessionAligned'
    BY <1>3 DEF SessionAligned, Owed, CloseNothing, CloseReturns, Return, cardVars,
       diskVars, callVars
  <2>3. RequestInv'
    BY <1>3 DEF RequestInv, CloseNothing, CloseReturns, Return, cardVars, diskVars, callVars
  <2>4. TransferInv'
    BY <1>3 DEF TransferInv, Finished, CloseNothing, CloseReturns, Return, cardVars,
       diskVars, callVars
  <2> QED
    BY <2>1, <2>2, <2>3, <2>4 DEF SessionInv
<1>4. CASE StopAnswered
  <2>1. TypeOK'
    BY <1>4 DEF TypeOK, CardStates, StopAnswered, Stopped, callVars
  <2>2. SessionAligned'
    BY <1>4 DEF SessionAligned, Owed, StopAnswered, Stopped, callVars
  <2>3. RequestInv'
    BY <1>4 DEF RequestInv, StopAnswered, Stopped, callVars
  <2>4. TransferInv'
    BY <1>4 DEF TransferInv, Finished, StopAnswered, Stopped, callVars
  <2> QED
    BY <2>1, <2>2, <2>3, <2>4 DEF SessionInv
<1>5. CASE StopIllegal
  <2>1. TypeOK'
    BY <1>5 DEF TypeOK, CardStates, StopIllegal, CloseReturns, Return, cardVars, callVars
  <2>2. SessionAligned'
    BY <1>5 DEF SessionAligned, Owed, StopIllegal, CloseReturns, Return, cardVars, callVars
  <2>3. RequestInv'
    BY <1>5 DEF RequestInv, StopIllegal, CloseReturns, Return, cardVars, callVars
  <2>4. TransferInv'
    BY <1>5 DEF TransferInv, Finished, StopIllegal, CloseReturns, Return, cardVars, callVars
  <2> QED
    BY <2>1, <2>2, <2>3, <2>4 DEF SessionInv
<1>6. CASE StopMissed
  <2>1. TypeOK'
    BY <1>6 DEF TypeOK, CardStates, StopMissed, CloseReturns, Return, Stopped,
       callVars, Tolerated
  <2>2. SessionAligned'
    BY <1>6 DEF SessionAligned, Owed, StopMissed, CloseReturns, Return, Stopped,
       callVars, Tolerated
  <2>3. RequestInv'
    BY <1>6 DEF RequestInv, StopMissed, CloseReturns, Return, Stopped, callVars, Tolerated
  <2>4. TransferInv'
    BY <1>6 DEF TransferInv, Finished, StopMissed, CloseReturns, Return, Stopped,
       callVars, Tolerated
  <2> QED
    BY <2>1, <2>2, <2>3, <2>4 DEF SessionInv
<1>7. CASE WaitReady
  <2>1. TypeOK'
    BY <1>7 DEF TypeOK, CardStates, WaitReady, CloseReturns, Return, cardVars,
       diskVars, callVars
  <2>2. SessionAligned'
    BY <1>7 DEF SessionAligned, Owed, WaitReady, CloseReturns, Return, cardVars,
       diskVars, callVars
  <2>3. RequestInv'
    BY <1>7 DEF RequestInv, WaitReady, CloseReturns, Return, cardVars, diskVars, callVars
  <2>4. TransferInv'
    BY <1>7 DEF TransferInv, Finished, WaitReady, CloseReturns, Return, cardVars,
       diskVars, callVars
  <2> QED
    BY <2>1, <2>2, <2>3, <2>4 DEF SessionInv
<1>8. CASE WaitGivesUp
  <2>1. TypeOK'
    BY <1>8 DEF TypeOK, CardStates, WaitGivesUp, CloseReturns, Return, cardVars,
       diskVars, callVars
  <2>2. SessionAligned'
    BY <1>8 DEF SessionAligned, Owed, WaitGivesUp, CloseReturns, Return, cardVars,
       diskVars, callVars
  <2>3. RequestInv'
    BY <1>8 DEF RequestInv, WaitGivesUp, CloseReturns, Return, cardVars, diskVars, callVars
  <2>4. TransferInv'
    BY <1>8 DEF TransferInv, Finished, WaitGivesUp, CloseReturns, Return, cardVars,
       diskVars, callVars
  <2> QED
    BY <2>1, <2>2, <2>3, <2>4 DEF SessionInv
<1>9. CASE CardProgrammed
  <2>1. TypeOK'
    BY <1>9 DEF TypeOK, CardStates, CardProgrammed, diskVars, callVars
  <2>2. SessionAligned'
    BY <1>9 DEF SessionAligned, Owed, CardProgrammed, diskVars, callVars
  <2>3. RequestInv'
    BY <1>9 DEF RequestInv, CardProgrammed, diskVars, callVars
  <2>4. TransferInv'
    BY <1>9 DEF TransferInv, Finished, CardProgrammed, diskVars, callVars
  <2> QED
    BY <2>1, <2>2, <2>3, <2>4 DEF SessionInv
<1> QED
  BY <1>1, <1>2, <1>3, <1>4, <1>5, <1>6, <1>7, <1>8, <1>9

\* Initialisation, CMD18 and CMD25: a transfer starts at the requested sector.
LEMMA CommandInv ==
  Faults \subseteq Tolerated /\ SessionInv /\ (InitSucceeds \/ InitFails \/ OpenRead \/
     OpenReadLost \/ OpenWrite \/ OpenWriteIllegal \/ OpenWriteMissed) => SessionInv'
<1> SUFFICES ASSUME Faults \subseteq Tolerated, TypeOK, SessionAligned, RequestInv, TransferInv,
                   InitSucceeds \/ InitFails \/ OpenRead \/ OpenReadLost \/ OpenWrite
                      \/ OpenWriteIllegal \/ OpenWriteMissed
             PROVE  SessionInv'
  BY DEF SessionInv
<1> USE CountFits, Constants DEF ReqType
<1>0. ready => SectorOf(CmdArg(req.sector)) = req.sector
  BY ArgNamesSector
<1>1. CASE InitSucceeds
  <2>1. TypeOK'
    BY <1>1 DEF TypeOK, CardStates, InitSucceeds, Return
  <2>2. SessionAligned'
    BY <1>1 DEF SessionAligned, Owed, TypeOK, RequestInv, TransferInv, InitSucceeds, Return
  <2>3. RequestInv'
    BY <1>1 DEF RequestInv, InitSucceeds, Return
  <2>4. TransferInv'
    BY <1>1 DEF TransferInv, Finished, BD!Agree, SessionAligned, Owed, TypeOK,
       RequestInv, InitSucceeds, Return
  <2> QED
    BY <2>1, <2>2, <2>3, <2>4 DEF SessionInv
<1>2. CASE InitFails
  <2>1. TypeOK'
    BY <1>2 DEF TypeOK, CardStates, InitFails, Return, diskVars, callVars
  <2>2. SessionAligned'
    BY <1>2 DEF SessionAligned, Owed, TypeOK, RequestInv, TransferInv, InitFails,
       Return, diskVars, callVars
  <2>3. RequestInv'
    BY <1>2 DEF RequestInv, InitFails, Return, diskVars, callVars
  <2>4. TransferInv'
    BY <1>2 DEF TransferInv, Finished, InitFails, Return, diskVars, callVars
  <2> QED
    BY <2>1, <2>2, <2>3, <2>4 DEF SessionInv
<1>3. CASE OpenRead
  <2>1. TypeOK'
    BY <1>3, <1>0 DEF TypeOK, CardStates, RequestInv, TransferInv, OpenRead, SendCMD18,
       callVars, ModeOf
  <2>2. SessionAligned'
    BY <1>3, <1>0 DEF SessionAligned, Owed, TypeOK, RequestInv, TransferInv, OpenRead,
       SendCMD18, callVars, ModeOf
  <2>3. RequestInv'
    BY <1>3 DEF RequestInv, OpenRead, SendCMD18, callVars, ModeOf
  <2>4. TransferInv'
    BY <1>3, <1>0 DEF TransferInv, Finished, BD!Agree, SessionAligned, Owed, TypeOK,
       RequestInv, OpenRead, SendCMD18, callVars, ModeOf
  <2> QED
    BY <2>1, <2>2, <2>3, <2>4 DEF SessionInv
<1>4. CASE OpenReadLost
  <2>1. TypeOK'
    BY <1>4, <1>0 DEF TypeOK, CardStates, RequestInv, TransferInv, OpenReadLost,
       SendCMD18, callVars, ModeOf
  <2>2. SessionAligned'
    BY <1>4, <1>0 DEF SessionAligned, Owed, TypeOK, RequestInv, TransferInv,
       OpenReadLost, SendCMD18, callVars, ModeOf
  <2>3. RequestInv'
    BY <1>4 DEF RequestInv, OpenReadLost, SendCMD18, callVars, ModeOf
  <2>4. TransferInv'
    BY <1>4, <1>0 DEF TransferInv, Finished, BD!Agree, SessionAligned, Owed, TypeOK,
       RequestInv, OpenReadLost, SendCMD18, callVars, ModeOf
  <2> QED
    BY <2>1, <2>2, <2>3, <2>4 DEF SessionInv
<1>5. CASE OpenWrite
  <2>1. TypeOK'
    BY <1>5, <1>0 DEF TypeOK, CardStates, RequestInv, TransferInv, OpenWrite, callVars,
       ModeOf
  <2>2. SessionAligned'
    BY <1>5, <1>0 DEF SessionAligned, Owed, TypeOK, RequestInv, TransferInv, OpenWrite,
       callVars, ModeOf
  <2>3. RequestInv'
    BY <1>5 DEF RequestInv, OpenWrite, callVars, ModeOf
  <2>4. TransferInv'
    BY <1>5, <1>0 DEF TransferInv, Finished, BD!Agree, SessionAligned, Owed, TypeOK,
       RequestInv, OpenWrite, callVars, ModeOf
  <2> QED
    BY <2>1, <2>2, <2>3, <2>4 DEF SessionInv
<1>6. CASE OpenWriteIllegal
  <2>1. TypeOK'
    BY <1>6, <1>0 DEF TypeOK, CardStates, OpenWriteIllegal, OpenWriteFails, Return, callVars
  <2>2. SessionAligned'
    BY <1>6, <1>0 DEF SessionAligned, Owed, TypeOK, RequestInv, TransferInv,
       OpenWriteIllegal, OpenWriteFails, Return, callVars
  <2>3. RequestInv'
    BY <1>6 DEF RequestInv, OpenWriteIllegal, OpenWriteFails, Return, callVars
  <2>4. TransferInv'
    BY <1>6, <1>0 DEF TransferInv, Finished, OpenWriteIllegal, OpenWriteFails, Return,
       callVars
  <2> QED
    BY <2>1, <2>2, <2>3, <2>4 DEF SessionInv
<1>7. CASE OpenWriteMissed
  <2>1. TypeOK'
    BY <1>7, <1>0 DEF TypeOK, CardStates, RequestInv, TransferInv, OpenWriteMissed,
       OpenWriteFails, Return, callVars
  <2>2. SessionAligned'
    BY <1>7, <1>0 DEF SessionAligned, Owed, OpenWriteMissed, OpenWriteFails, Return,
       callVars
  <2>3. RequestInv'
    BY <1>7 DEF RequestInv, OpenWriteMissed, OpenWriteFails, Return, callVars
  <2>4. TransferInv'
    BY <1>7, <1>0 DEF TransferInv, Finished, OpenWriteMissed, OpenWriteFails, Return,
       callVars
  <2> QED
    BY <2>1, <2>2, <2>3, <2>4 DEF SessionInv
<1> QED
  BY <1>1, <1>2, <1>3, <1>4, <1>5, <1>6, <1>7

\* The transfer itself: block and position advance together.
LEMMA TransferStepInv ==
  SessionInv /\ (ReadBlock \/ ReadSilent \/ WriteBlock \/ WriteSilent \/ TransferDone)
     => SessionInv'
<1> SUFFICES ASSUME TypeOK, SessionAligned, RequestInv, TransferInv,
                   ReadBlock \/ ReadSilent \/ WriteBlock \/ WriteSilent \/ TransferDone
             PROVE  SessionInv'
  BY DEF SessionInv
<1> USE CountFits, Constants DEF ReqType
<1>1. CASE ReadBlock
  <2>0. done \in Nat /\ done < req.count /\ done \in Offsets
    BY <1>1 DEF ReadBlock, Transferring, TypeOK, Offsets
  <2>d. card_pos < NSectors /\ card_pos \in Nat
    BY <1>1 DEF ReadBlock, TypeOK
  <2>e. card_pos = req.sector + done
    BY <1>1, <2>0 DEF ReadBlock, Transferring, TypeOK, SessionAligned, Owed,
       TransferInv, ModeOf
  <2>a. card_pos \in Sectors /\ card_pos = req.sector + done
    BY <2>d, <2>e DEF Sectors
  <2>1. TypeOK'
    BY <1>1, <2>0, <2>a DEF TypeOK, ReadBlock, diskVars, callVars
  <2>2. SessionAligned'
    BY <1>1 DEF SessionAligned, Owed, TypeOK, RequestInv, TransferInv, ReadBlock,
       Transferring, diskVars, callVars, ModeOf
  <2>3. RequestInv'
    BY <1>1 DEF RequestInv, ReadBlock, Transferring, diskVars, callVars, ModeOf
  <2>b. \A i \in 0 .. done : buf'[i] = media[req.sector + i]
    <3>1. \A i \in 0 .. done - 1 : buf[i] = media[req.sector + i]
      BY <1>1 DEF TransferInv, ReadBlock, Transferring
    <3>2. buf \in [Offsets -> Vals \cup {NoVal}] /\ buf' = [buf EXCEPT ![done] = media[card_pos]]
      BY <1>1 DEF TypeOK, ReadBlock
    <3>3. \A i \in 0 .. done - 1 : i \in Offsets
      BY <2>0 DEF Offsets
    <3> QED
      BY <2>0, <2>a, <3>1, <3>2, <3>3
  <2>4. TransferInv'
    BY <1>1, <2>0, <2>b DEF TransferInv, Finished, ReadBlock, Transferring, diskVars,
       callVars
  <2> QED
    BY <2>1, <2>2, <2>3, <2>4 DEF SessionInv
<1>2. CASE ReadSilent
  <2>1. TypeOK'
    BY <1>2 DEF TypeOK, CardStates, ReadSilent, Transferring, Return, cardVars,
       diskVars, callVars, ModeOf
  <2>2. SessionAligned'
    BY <1>2 DEF SessionAligned, Owed, TypeOK, RequestInv, TransferInv, ReadSilent,
       Transferring, Return, cardVars, diskVars, callVars, ModeOf
  <2>3. RequestInv'
    BY <1>2 DEF RequestInv, ReadSilent, Transferring, Return, cardVars, diskVars,
       callVars, ModeOf
  <2>4. TransferInv'
    BY <1>2 DEF TransferInv, Finished, ReadSilent, Transferring, Return, cardVars,
       diskVars, callVars, ModeOf
  <2> QED
    BY <2>1, <2>2, <2>3, <2>4 DEF SessionInv
<1>3. CASE WriteBlock
  <2>0. done \in Nat /\ done < req.count /\ buf[done] \in Vals
    BY <1>3 DEF WriteBlock, Transferring, TypeOK, RequestInv
  <2>a. card_pos \in Sectors /\ card_pos = req.sector + done
    <3>1. disk_mode = "WR" /\ disk_cur_addr = req.sector + req.count
      BY <1>3 DEF WriteBlock, Transferring, TransferInv, ModeOf
    <3>2. Owed = req.count - done
      BY <1>3 DEF Owed, WriteBlock, Transferring
    <3>3. card_pos \in Sectors
      BY <1>3 DEF WriteBlock, TypeOK, Sectors
    <3>4. card_pos + Owed = disk_cur_addr
      BY <3>1 DEF SessionAligned
    <3>5. card_pos \in Nat /\ req.sector \in Nat /\ req.count \in Nat
      BY <3>3 DEF Sectors, TypeOK
    <3>6. card_pos + (req.count - done) = req.sector + req.count
      BY <3>1, <3>2, <3>4
    <3> QED
      BY <2>0, <3>3, <3>5, <3>6
  <2>1. TypeOK'
    BY <1>3, <2>0, <2>a DEF TypeOK, WriteBlock, diskVars, callVars
  <2>2. SessionAligned'
    BY <1>3 DEF SessionAligned, Owed, TypeOK, RequestInv, TransferInv, WriteBlock,
       Transferring, diskVars, callVars, ModeOf
  <2>3. RequestInv'
    BY <1>3 DEF RequestInv, WriteBlock, Transferring, diskVars, callVars, ModeOf
  <2>b. \A i \in 0 .. done : buf[i] = media'[req.sector + i]
    <3>1. \A i \in 0 .. done - 1 : buf[i] = media[req.sector + i]
      BY <1>3 DEF TransferInv, WriteBlock, Transferring
    <3>2. media \in [Sectors -> Vals] /\ media' = [media EXCEPT ![card_pos] = buf[done]]
      BY <1>3 DEF TypeOK, WriteBlock
    <3>3. \A i \in 0 .. done - 1 : req.sector + i \in Sectors
      BY <2>0, <2>a DEF Sectors
    <3> QED
      BY <2>0, <2>a, <3>1, <3>2, <3>3
  <2>4. TransferInv'
    BY <1>3, <2>0, <2>b DEF TransferInv, Finished, WriteBlock, Transferring, diskVars,
       callVars
  <2> QED
    BY <2>1, <2>2, <2>3, <2>4 DEF SessionInv
<1>4. CASE WriteSilent
  <2>1. TypeOK'
    BY <1>4 DEF TypeOK, CardStates, WriteSilent, Transferring, Return, cardVars,
       diskVars, callVars, ModeOf
  <2>2. SessionAligned'
    BY <1>4 DEF SessionAligned, Owed, TypeOK, RequestInv, TransferInv, WriteSilent,
       Transferring, Return, cardVars, diskVars, callVars, ModeOf
  <2>3. RequestInv'
    BY <1>4 DEF RequestInv, WriteSilent, Transferring, Return, cardVars, diskVars,
       callVars, ModeOf
  <2>4. TransferInv'
    BY <1>4 DEF TransferInv, Finished, WriteSilent, Transferring, Return, cardVars,
       diskVars, callVars, ModeOf
  <2> QED
    BY <2>1, <2>2, <2>3, <2>4 DEF SessionInv
<1>5. CASE TransferDone
  <2>1. TypeOK'
    BY <1>5 DEF TypeOK, CardStates, TransferDone, Return, cardVars, diskVars, callVars,
       ModeOf
  <2>2. SessionAligned'
    BY <1>5 DEF SessionAligned, Owed, TransferDone, Return, cardVars, diskVars,
       callVars, ModeOf
  <2>3. RequestInv'
    BY <1>5 DEF RequestInv, TransferDone, Return, cardVars, diskVars, callVars, ModeOf
  <2>4. TransferInv'
    BY <1>5 DEF TransferInv, Finished, BD!Agree, SessionAligned, Owed, TypeOK,
       RequestInv, TransferDone, Return, cardVars, diskVars, callVars, ModeOf
  <2> QED
    BY <2>1, <2>2, <2>3, <2>4 DEF SessionInv
<1> QED
  BY <1>1, <1>2, <1>3, <1>4, <1>5

\* No step of the system that suffers only tolerated faults breaks SessionInv.
LEMMA StepInv ==
  Faults \subseteq Tolerated /\ SessionInv /\ [Next]_vars => SessionInv'
<1> SUFFICES ASSUME Faults \subseteq Tolerated, SessionInv, [Next]_vars
             PROVE  SessionInv'
  OBVIOUS
<1>1. CASE Call
  BY <1>1, CallInv
<1>2. CASE DriverStep
  BY <1>2, OpenInv, CommandInv, TransferStepInv DEF DriverStep
<1>3. CASE CardProgrammed
  BY <1>3, OpenInv
<1>4. CASE FaultStep
  <2>1. ~ReadFails /\ ~WriteFails
    BY DEF ReadFails, WriteFails, Tolerated
  <2> QED
    BY <1>4, <2>1, OpenInv, CommandInv DEF FaultStep
<1>5. CASE UNCHANGED vars
  BY <1>5 DEF vars, cardVars, diskVars, callVars, SessionInv, TypeOK, SessionAligned,
     RequestInv, TransferInv, Owed, Finished, BD!Agree
<1> QED
  BY <1>1, <1>2, <1>3, <1>4, <1>5 DEF Next

\* The initial states satisfy the inductive invariant.
LEMMA InitInv == Init => SessionInv
<1> SUFFICES ASSUME Init PROVE SessionInv
  OBVIOUS
<1>1. req \in BD!Requests
  BY Constants DEF Init, BD!Requests, BD!Sectors
<1>a. disk_card_type \in SUBSET {"SD_V2", "SD_HC"}
  BY DEF Init
<1>2. TypeOK
  <2>1. /\ media \in [Sectors -> Vals] /\ buf \in [Offsets -> Vals \cup {NoVal}]
        /\ card = "idle" /\ disk_mode = "NOP" /\ pc = "idle" /\ ret = "none"
        /\ card_pos = 0 /\ disk_cur_addr = 0 /\ done = 0
        /\ ready \in BOOLEAN /\ retry \in BOOLEAN
    BY DEF Init
  <2> QED
    BY <1>1, <1>a, <2>1, Constants DEF TypeOK, CardStates
<1> QED
  BY <1>2 DEF Init, SessionInv, SessionAligned, RequestInv, TransferInv, Finished

\* The bus loses no CMD12 and no block: the driver's idea of the open transfer
\* and the card's stay together through every interleaving of requests.
THEOREM SessionInvariant ==
  ASSUME Faults \subseteq Tolerated
  PROVE  Spec => []SessionInv
<1>1. SessionInv /\ [Next]_vars => SessionInv'
  BY StepInv
<1> QED
  BY <1>1, InitInv, PTL DEF Spec

\* Every variable stays in its type; in particular neither disk_cur_addr nor
\* the card's stream passes the end of the medium.
THEOREM TypeCorrect ==
  ASSUME Faults \subseteq Tolerated
  PROVE  Spec => []TypeOK
<1>1. SessionInv => TypeOK
  BY DEF SessionInv
<1> QED
  BY <1>1, SessionInvariant, PTL

\* diskOpenRead and diskOpenWrite reuse a stream only where it stands.
THEOREM Alignment ==
  ASSUME Faults \subseteq Tolerated
  PROVE  Spec => []SessionAligned
<1>1. SessionInv => SessionAligned
  BY DEF SessionInv
<1> QED
  BY <1>1, SessionInvariant, PTL

\* disk_read returns RES_OK only with the sectors asked for.
THEOREM ReadsCorrect ==
  ASSUME Faults \subseteq Tolerated
  PROVE  Spec => []ReadsReturnRequestedSectors
<1>1. SessionInv => ReadsReturnRequestedSectors
  BY DEF SessionInv, TransferInv, ReadsReturnRequestedSectors
<1> QED
  BY <1>1, SessionInvariant, PTL

\* With tolerated faults only, nothing but WriteBlock changes the medium.
LEMMA MediaStep ==
  Faults \subseteq Tolerated /\ Next => (media' = media \/ WriteBlock)
BY DEF Next, Call, disk_read, disk_write, disk_sync, disk_initialize, Request,
   DriverStep, FaultStep, InitSucceeds, InitFails, OpenReuse, OpenClose,
   CloseNothing, StopAnswered, StopIllegal, StopMissed, WaitReady, WaitGivesUp,
   CardProgrammed, OpenRead, OpenReadLost, SendCMD18, OpenWrite,
   OpenWriteIllegal, OpenWriteMissed, OpenWriteFails, ReadBlock, ReadSilent,
   ReadFails, WriteSilent, WriteFails, TransferDone, cardVars, Tolerated

\* disk_write changes the requested sectors only, and only to the caller's data.
THEOREM WritesCorrect ==
  ASSUME Faults \subseteq Tolerated
  PROVE  Spec => WritesStayInRange
<1> DEFINE Range(s) ==
      media'[s] # media[s] =>
        /\ pc = "xfer" /\ req.op = "write"
        /\ s \in req.sector .. req.sector + req.count - 1
        /\ media'[s] = buf[s - req.sector]
<1>1. SessionInv /\ [Next]_vars => [\A s \in Sectors : Range(s)]_vars
  <2> SUFFICES ASSUME SessionInv, Next, NEW s \in Sectors, media'[s] # media[s]
               PROVE  /\ pc = "xfer" /\ req.op = "write"
                      /\ s \in req.sector .. req.sector + req.count - 1
                      /\ media'[s] = buf[s - req.sector]
    OBVIOUS
  <2>1. WriteBlock
    BY MediaStep
  <2>2. TypeOK /\ ReqType
    BY CountFits DEF SessionInv
  <2>3. pc = "xfer" /\ req.op = "write" /\ done \in Nat /\ done < req.count
    BY <2>1, <2>2 DEF WriteBlock, Transferring, TypeOK, ReqType
  <2>4. card_pos = req.sector + done
    BY <2>1, <2>2, <2>3 DEF WriteBlock, SessionInv, SessionAligned, TransferInv, Owed,
       ModeOf, TypeOK, ReqType
  <2>5. s = card_pos /\ media'[s] = buf[done]
    BY <2>1, <2>2 DEF WriteBlock, TypeOK, Sectors
  <2> QED
    BY <2>2, <2>3, <2>4, <2>5 DEF ReqType
<1> QED
  BY <1>1, SessionInvariant, PTL DEF Spec, WritesStayInRange

\* Every step of the driver and of the card is a step of the block device, or
\* leaves it alone.
LEMMA RefinementStep ==
  Faults \subseteq Tolerated /\ SessionInv /\ SessionInv' /\ [Next]_vars => [BD!Next]_(BD!vars)
<1> SUFFICES ASSUME Faults \subseteq Tolerated, SessionInv, SessionInv', [Next]_vars
             PROVE  BD!Next \/ UNCHANGED BD!vars
  OBVIOUS
<1>0. TypeOK /\ TypeOK' /\ ReqType
  BY CountFits DEF SessionInv
<1>1. CASE Call
  <2>1. pc = "idle" /\ pc' # "idle" /\ ret' = "none" /\ media' = media
    BY <1>1 DEF Call, disk_read, disk_write, disk_sync, disk_initialize, Request, cardVars
  <2>2. BD!Submit
    BY <1>0, <2>1 DEF BD!Submit, BD!Offsets, Offsets, TypeOK
  <2> QED
    BY <2>2 DEF BD!Next
<1>2. CASE ReadBlock
  <2>1. done \in 0 .. req.count - 1 /\ card_pos = req.sector + done
    BY <1>0, <1>2 DEF ReadBlock, Transferring, SessionInv, SessionAligned, TransferInv,
       Owed,
       ModeOf, TypeOK, ReqType
  <2>2. BD!ReadOne
    BY <1>2, <2>1 DEF BD!ReadOne, ReadBlock, Transferring, callVars
  <2> QED
    BY <2>2 DEF BD!Next
<1>3. CASE WriteBlock
  <2>1. done \in 0 .. req.count - 1
    BY <1>0, <1>3 DEF WriteBlock, Transferring, TypeOK, ReqType
  <2>2. card_pos = req.sector + done
    <3>1. disk_mode = "WR" /\ disk_cur_addr = req.sector + req.count
      BY <1>3 DEF WriteBlock, Transferring, SessionInv, TransferInv, ModeOf
    <3>2. Owed = req.count - done
      BY <1>0, <1>3 DEF Owed, WriteBlock, Transferring, ReqType
    <3> QED
      BY <1>0, <2>1, <3>1, <3>2 DEF SessionInv, SessionAligned, TypeOK, ReqType
  <2>3. BD!WriteOne
    BY <1>3, <2>1, <2>2 DEF BD!WriteOne, WriteBlock, Transferring, callVars
  <2> QED
    BY <2>3 DEF BD!Next
<1>4. CASE TransferDone
  <2>1. BD!Agree(req, buf, media)
    BY <1>0, <1>4 DEF TransferDone, SessionInv, TransferInv, BD!Agree, ReqType
  <2>2. BD!Succeed
    BY <1>4, <2>1 DEF BD!Succeed, TransferDone, Return, cardVars, callVars
  <2> QED
    BY <2>2 DEF BD!Next
<1>5. CASE InitSucceeds
  <2>1. BD!Succeed
    BY <1>5 DEF BD!Succeed, InitSucceeds, Return, SessionInv, RequestInv
  <2> QED
    BY <2>1 DEF BD!Next
<1>6. ASSUME NEW r, CloseReturns(r), r \in {"ok", "error"}, pc \in {"close", "wait"},
             UNCHANGED <<media, req, buf>>
      PROVE  BD!Next \/ UNCHANGED BD!vars
  BY <1>6 DEF CloseReturns, Return, BD!Next, BD!Succeed, BD!Fail, BD!vars
<1>7. CASE CloseNothing \/ StopIllegal \/ StopMissed \/ WaitReady \/ WaitGivesUp
  BY <1>6, <1>7 DEF CloseNothing, StopIllegal, StopMissed, WaitReady, WaitGivesUp,
     cardVars, callVars
<1>8. CASE OpenReuse \/ OpenClose \/ StopAnswered \/ CardProgrammed \/ OpenRead \/
   OpenReadLost \/ OpenWrite
  BY <1>8 DEF OpenReuse, OpenClose, StopAnswered, CardProgrammed, OpenRead, OpenReadLost,
     SendCMD18, OpenWrite, cardVars, callVars, BD!vars
<1>9. CASE InitFails \/ OpenWriteIllegal \/ OpenWriteMissed \/ ReadSilent \/ WriteSilent
  <2>1. BD!Fail
    BY <1>9 DEF BD!Fail, InitFails, OpenWriteIllegal, OpenWriteMissed, OpenWriteFails,
       ReadSilent, WriteSilent, Transferring, Return, cardVars, callVars
  <2> QED
    BY <2>1 DEF BD!Next
<1>10. CASE UNCHANGED vars
  BY <1>10 DEF vars, cardVars, callVars, BD!vars
<1>11. ~ReadFails /\ ~WriteFails
  BY DEF ReadFails, WriteFails, Tolerated
<1> QED
  BY <1>1, <1>2, <1>3, <1>4, <1>5, <1>7, <1>8, <1>9, <1>10, <1>11 DEF Next, DriverStep,
     FaultStep

\* The session driver implements the block device: a request that succeeds has
\* moved exactly its sectors, a request that fails has moved some of them.
THEOREM Implements ==
  ASSUME Faults \subseteq Tolerated
  PROVE  Spec => ImplementsBlockDevice
<1>1. Init => BD!Init
  <2> SUFFICES ASSUME Init PROVE BD!Init
    OBVIOUS
  <2>1. TypeOK
    BY InitInv DEF SessionInv
  <2> QED
    BY <2>1 DEF Init, BD!Init, BD!Sectors, BD!Offsets, Sectors, Offsets, TypeOK
<1>2. SessionInv /\ SessionInv' /\ [Next]_vars => [BD!Next]_(BD!vars)
  BY RefinementStep
<1> QED
  BY <1>1, <1>2, SessionInvariant, PTL DEF Spec, BD!Spec, ImplementsBlockDevice

\* A step of a system in which no CMD12 and no end of programming is missed.
LEMMA SyncStep ==
  Faults \subseteq SyncTolerated /\ SyncInv /\ [Next]_vars => SyncInv'
<1> SUFFICES ASSUME Faults \subseteq SyncTolerated, SyncInv, [Next]_vars
             PROVE  SyncInv'
  OBVIOUS
<1>1. CASE Call
  BY <1>1 DEF SyncInv, Finished, Call, disk_read, disk_write, disk_sync, disk_initialize,
     Request, cardVars, diskVars
<1>2. CASE InitSucceeds \/ InitFails
  BY <1>2 DEF SyncInv, Finished, InitSucceeds, InitFails, Return, diskVars, callVars
<1>3. CASE OpenReuse \/ OpenClose
  BY <1>3 DEF SyncInv, Finished, OpenReuse, OpenClose, ModeOf, cardVars, diskVars, callVars
<1>4. CASE CloseNothing \/ StopIllegal \/ WaitReady
  BY <1>4 DEF SyncInv, Finished, CloseNothing, StopIllegal, WaitReady, CloseReturns, Return,
     cardVars, diskVars, callVars
<1>5. CASE StopAnswered \/ CardProgrammed
  BY <1>5 DEF SyncInv, Finished, StopAnswered, CardProgrammed, Stopped, diskVars, callVars
<1>6. ~StopMissed /\ ~WaitGivesUp
  BY DEF StopMissed, WaitGivesUp, SyncTolerated
<1>7. CASE OpenRead \/ OpenReadLost
  BY <1>7 DEF SyncInv, Finished, OpenRead, OpenReadLost, SendCMD18, callVars
<1>8. CASE OpenWrite \/ OpenWriteIllegal \/ OpenWriteMissed
  BY <1>8 DEF SyncInv, Finished, OpenWrite, OpenWriteIllegal, OpenWriteMissed, OpenWriteFails,
     Return, callVars, SyncTolerated
<1>9. CASE ReadBlock \/ ReadSilent \/ ReadFails \/ TransferDone
  BY <1>9 DEF SyncInv, Finished, ReadBlock, ReadSilent, ReadFails, TransferDone, Transferring,
     Return, cardVars, diskVars, callVars
<1>10. CASE WriteBlock \/ WriteSilent \/ WriteFails
  BY <1>10 DEF SyncInv, Finished, WriteBlock, WriteSilent, WriteFails, Transferring,
     Return, cardVars, diskVars, callVars
<1>11. CASE UNCHANGED vars
  BY <1>11 DEF SyncInv, Finished, vars, cardVars, diskVars, callVars
<1> QED
  BY <1>1, <1>2, <1>3, <1>4, <1>5, <1>6, <1>7, <1>8, <1>9, <1>10, <1>11
     DEF Next, DriverStep, FaultStep

\* CTRL_SYNC returns RES_OK only on a card that has finished writing, also
\* after blocks and opening commands were lost: f_sync's data is on the card.
THEOREM SyncCorrect ==
  ASSUME Faults \subseteq SyncTolerated
  PROVE  Spec => []SyncCompletes
<1>1. Init => SyncInv
  BY DEF Init, SyncInv, Finished
<1>2. SyncInv /\ [Next]_vars => SyncInv'
  BY SyncStep
<1>3. SyncInv => SyncCompletes
  BY DEF SyncInv, SyncCompletes, Finished
<1> QED
  BY <1>1, <1>2, <1>3, PTL DEF Spec

-----------------------------------------------------------------------------
(***************************************************************************)
(* Whatever faults the bus has: the driver never streams a write into a    *)
(* card that is not receiving, and the repetition of a failed request      *)
(* moves the right sectors.                                                *)
(***************************************************************************)

\* Where the session stands, whatever has been lost.
AnyFaultInv == TypeOK /\ RequestInv /\ RetryInv

LEMMA AnyFaultInit == Init => AnyFaultInv
<1>1. Init => TypeOK /\ RequestInv
  BY InitInv DEF SessionInv
<1>2. Init => RetryInv
  BY DEF Init, RetryInv, RetryIsSafe, Finished
<1> QED
  BY <1>1, <1>2 DEF AnyFaultInv

\* A request of FatFs: it is taken for a repetition only where it does not
\* reuse the stream that failed.
LEMMA AnyFaultCall == AnyFaultInv /\ Call => AnyFaultInv'
<1> SUFFICES ASSUME TypeOK, RequestInv, RetryInv, Call PROVE AnyFaultInv'
  BY DEF AnyFaultInv
<1> USE CountFits, Constants DEF ReqType
<1>1. TypeOK' /\ RequestInv'
  <2>1. CASE \E s \in Sectors, n \in 1 .. MaxCount : disk_read(s, n)
    BY <2>1 DEF TypeOK, CardStates, BD!Requests, BD!Sectors, Sectors, Offsets, RequestInv,
       disk_read, Request, cardVars, diskVars
  <2>2. CASE \E s \in Sectors, n \in 1 .. MaxCount : \E b \in [0 .. n - 1 -> Vals] : disk_write(s, n, b)
    BY <2>2, ValsAssumption DEF TypeOK, CardStates, BD!Requests, BD!Sectors, Sectors, Offsets,
       RequestInv, disk_write, Request, cardVars, diskVars
  <2>3. CASE disk_sync
    BY <2>3 DEF TypeOK, CardStates, BD!Requests, BD!Sectors, Sectors, Offsets, RequestInv,
       disk_sync, Request, cardVars, diskVars
  <2>4. CASE disk_initialize
    <3>1. req' \in BD!Requests /\ disk_card_type' \in SUBSET {"SD_V2", "SD_HC"}
      BY <2>4 DEF BD!Requests, BD!Sectors, disk_initialize, Request
    <3>2. /\ UNCHANGED cardVars
          /\ UNCHANGED <<disk_cur_addr, buf>>
          /\ disk_mode' = "NOP" /\ pc' = "init" /\ ret' = "none" /\ done' = 0
      BY <2>4 DEF disk_initialize, Request
    <3>a. ready' = FALSE
      BY <2>4 DEF disk_initialize
    <3>3. ready' \in BOOLEAN
      BY ONLY <3>a, FalseIsBoolean, Zenon
    <3>4. retry' \in BOOLEAN
      BY <2>4 DEF disk_initialize, Request
    <3>5. TypeOK'
      BY <3>1, <3>2, <3>3, <3>4 DEF TypeOK, cardVars
    <3>6. RequestInv'
      BY <2>4 DEF RequestInv, disk_initialize, Request, cardVars
    <3> QED
      BY <3>5, <3>6
  <2> QED
    BY <2>1, <2>2, <2>3, <2>4 DEF Call
<1>2. RetryInv'
  <2>1. /\ pc = "idle" /\ pc' \in {"open", "close", "init"} /\ ret' = "none"
        /\ card' = card
        /\ pc' # "init" => disk_mode' = disk_mode /\ disk_cur_addr' = disk_cur_addr
        /\ pc' = "open" => req'.op \in {"read", "write"}
    BY DEF Call, disk_read, disk_write, disk_sync, disk_initialize, Request, cardVars, diskVars
  <2>r. retry' = (ret = "error" /\ req' = req /\ ~Forgotten)
    BY DEF Call, disk_read, disk_write, disk_sync, disk_initialize, Request
  <2>q. retry' => ret = "error" /\ req' = req /\ ~Forgotten
    BY ONLY <2>r, Zenon
  <2>2. RetryIsSafe'
    BY <2>1 DEF RetryIsSafe, Finished
  <2>3. retry' /\ pc' = "open" => NoReuse'
    BY <2>1, <2>q DEF RetryInv, NoReuse
  <2> QED
    BY <2>1, <2>q, <2>2, <2>3 DEF RetryInv, Forgotten
<1> QED
  BY <1>1, <1>2 DEF AnyFaultInv

\* Opening, stopping and waiting.  A CMD12 that gets lost ends the repetition.
LEMMA AnyFaultOpen ==
  AnyFaultInv /\ (OpenReuse \/ OpenClose \/ CloseNothing \/ StopAnswered \/ StopIllegal
     \/ StopMissed \/ WaitReady \/ WaitGivesUp \/ CardProgrammed) => AnyFaultInv'
<1> SUFFICES ASSUME TypeOK, RequestInv, RetryInv,
                   OpenReuse \/ OpenClose \/ CloseNothing \/ StopAnswered \/ StopIllegal
                      \/ StopMissed \/ WaitReady \/ WaitGivesUp \/ CardProgrammed
             PROVE  AnyFaultInv'
  BY DEF AnyFaultInv
<1> USE CountFits, Constants DEF ReqType
<1>1. CASE OpenReuse
  BY <1>1 DEF AnyFaultInv, TypeOK, CardStates, RequestInv, RetryInv, RetryIsSafe, NoReuse,
     Finished, OpenReuse, cardVars, callVars, ModeOf
<1>2. CASE OpenClose
  BY <1>2 DEF AnyFaultInv, TypeOK, CardStates, RequestInv, RetryInv, RetryIsSafe, NoReuse,
     Finished, OpenClose, cardVars, diskVars, callVars, ModeOf
<1>3. CASE CloseNothing \/ WaitReady \/ WaitGivesUp
  <2>a. /\ UNCHANGED <<cardVars, diskVars, buf, done, callVars>>
        /\ pc' \in {"idle", "cmd"} /\ ret' \in {ret, "ok"}
    BY <1>3 DEF CloseNothing, WaitReady, WaitGivesUp, CloseReturns, Return
  <2>1. TypeOK'
    BY <2>a DEF TypeOK, cardVars, diskVars, callVars
  <2>2. RequestInv'
    BY <1>3 DEF RequestInv, CloseNothing, WaitReady, WaitGivesUp, CloseReturns, Return,
       cardVars, diskVars, callVars
  <2>3. RetryInv'
    BY <1>3 DEF TypeOK, RequestInv, RetryInv, RetryIsSafe, NoReuse, Finished, BD!Agree,
       CloseNothing, WaitReady, WaitGivesUp, CloseReturns, Return,
       cardVars, diskVars, callVars
  <2> QED
    BY <2>1, <2>2, <2>3 DEF AnyFaultInv
<1>4. CASE StopAnswered
  BY <1>4 DEF AnyFaultInv, TypeOK, CardStates, RequestInv, RetryInv, RetryIsSafe, NoReuse,
     Finished, StopAnswered, Stopped, callVars
<1>5. CASE StopIllegal
  BY <1>5 DEF AnyFaultInv, TypeOK, CardStates, RequestInv, RetryInv, RetryIsSafe, NoReuse,
     Finished, StopIllegal, CloseReturns, Return, cardVars, callVars
<1>6. CASE StopMissed
  <2>1. TypeOK'
    BY <1>6 DEF TypeOK, CardStates, RequestInv, RetryInv, StopMissed, Stopped, CloseReturns, Return, callVars
  <2>2. RequestInv'
    BY <1>6 DEF RequestInv, StopMissed, Stopped, CloseReturns, Return, callVars
  <2>s. card \in {"data", "rcv", "err"} => Stopped \in {"tran", "prg"}
    BY DEF Stopped
  <2>r. retry' => retry /\ card' # card
    <3>1. retry' = (retry /\ card' # card)
      BY <1>6 DEF StopMissed
    <3> QED
      BY ONLY <3>1, Zenon
  <2>3. /\ pc = "close" /\ card' \in {card, "tran", "prg"}
        /\ disk_mode' = "NOP" /\ ret' \in {ret, "error"}
        /\ pc' = "cmd" \/ (pc' = "idle" /\ ret' = "error" /\ req.op = "sync")
        /\ UNCHANGED <<media, card_pos, disk_cur_addr, buf, done, req>>
    BY <1>6, <2>s DEF StopMissed, CloseReturns, Return
  <2>4. RetryInv'
    BY <2>3, <2>r DEF RetryInv, RetryIsSafe, Finished
  <2> QED
    BY <2>1, <2>2, <2>4 DEF AnyFaultInv
<1>7. CASE CardProgrammed
  BY <1>7 DEF AnyFaultInv, TypeOK, CardStates, RequestInv, RetryInv, RetryIsSafe, NoReuse,
     Finished, CardProgrammed, diskVars, callVars
<1> QED
  BY <1>1, <1>2, <1>3, <1>4, <1>5, <1>6, <1>7

\* Initialisation, CMD18 and CMD25: the repetition's transfer starts at the
\* requested sector, or the card does not take part in it.
LEMMA AnyFaultCommand ==
  AnyFaultInv /\ (InitSucceeds \/ InitFails \/ OpenRead \/ OpenReadLost \/ OpenWrite
     \/ OpenWriteIllegal \/ OpenWriteMissed) => AnyFaultInv'
<1> SUFFICES ASSUME TypeOK, RequestInv, RetryInv,
                   InitSucceeds \/ InitFails \/ OpenRead \/ OpenReadLost \/ OpenWrite
                      \/ OpenWriteIllegal \/ OpenWriteMissed
             PROVE  AnyFaultInv'
  BY DEF AnyFaultInv
<1> USE CountFits, Constants DEF ReqType
<1>0. ready => SectorOf(CmdArg(req.sector)) = req.sector
  BY ArgNamesSector
<1>1. CASE InitSucceeds
  BY <1>1 DEF AnyFaultInv, TypeOK, CardStates, RequestInv, RetryInv, RetryIsSafe, NoReuse,
     Finished, InitSucceeds, Return
<1>2. CASE InitFails
  BY <1>2 DEF AnyFaultInv, TypeOK, CardStates, RequestInv, RetryInv, RetryIsSafe, NoReuse,
     Finished, InitFails, Return, diskVars, callVars
<1>3. CASE OpenRead \/ OpenReadLost
  <2>a. /\ req.op = "read" /\ ready /\ req.sector + req.count <= NSectors
        /\ pc' = "xfer" /\ disk_mode' = "RD" /\ disk_cur_addr' = req.sector + req.count
        /\ \/ UNCHANGED <<card, card_pos>>
           \/ card' = "data" /\ card_pos' = req.sector
        /\ UNCHANGED <<media, disk_card_type, buf, done, ret, callVars>>
    BY <1>0, <1>3 DEF OpenRead, OpenReadLost, SendCMD18, RequestInv
  <2>1. TypeOK'
    BY <2>a DEF TypeOK, CardStates, callVars
  <2>2. RequestInv'
    BY <1>3 DEF RequestInv, OpenRead, OpenReadLost, SendCMD18, ModeOf, callVars
  <2>3. RetryInv'
    BY <1>0, <1>3 DEF TypeOK, RequestInv, RetryInv, RetryIsSafe, NoReuse, Finished, BD!Agree,
       OpenRead, OpenReadLost, SendCMD18, ModeOf, callVars
  <2> QED
    BY <2>1, <2>2, <2>3 DEF AnyFaultInv
<1>4. CASE OpenWrite
  BY <1>0, <1>4 DEF AnyFaultInv, TypeOK, CardStates, RequestInv, RetryInv, RetryIsSafe, NoReuse,
     Finished, OpenWrite, ModeOf, callVars
<1>5. CASE OpenWriteIllegal \/ OpenWriteMissed
  <2>a. /\ pc' = "idle" /\ ret' = "error" /\ disk_cur_addr' = req.sector
        /\ \/ UNCHANGED <<card, card_pos>>
           \/ card' = "rcv" /\ card_pos' = req.sector
        /\ UNCHANGED <<media, disk_mode, disk_card_type, buf, done, callVars>>
    BY <1>0, <1>5 DEF OpenWriteIllegal, OpenWriteMissed, OpenWriteFails, Return, RequestInv
  <2>1. TypeOK'
    BY <2>a DEF TypeOK, CardStates, callVars
  <2>2. RequestInv'
    BY <1>5 DEF RequestInv, OpenWriteIllegal, OpenWriteMissed, OpenWriteFails, Return,
       ModeOf, callVars
  <2>3. RetryInv'
    BY <1>0, <1>5 DEF TypeOK, RequestInv, RetryInv, RetryIsSafe, NoReuse, Finished, BD!Agree,
       OpenWriteIllegal, OpenWriteMissed, OpenWriteFails, Return,
       ModeOf, callVars
  <2> QED
    BY <2>1, <2>2, <2>3 DEF AnyFaultInv
<1> QED
  BY <1>1, <1>2, <1>3, <1>4, <1>5

\* The transfer itself.  A block that goes wrong ends the request with the
\* address already advanced past the sector it began at.
LEMMA AnyFaultTransfer ==
  AnyFaultInv /\ (ReadBlock \/ ReadSilent \/ ReadFails \/ WriteBlock \/ WriteSilent
     \/ WriteFails \/ TransferDone) => AnyFaultInv'
<1> SUFFICES ASSUME TypeOK, RequestInv, RetryInv,
                   ReadBlock \/ ReadSilent \/ ReadFails \/ WriteBlock \/ WriteSilent
                      \/ WriteFails \/ TransferDone
             PROVE  AnyFaultInv'
  BY DEF AnyFaultInv
<1> USE CountFits, Constants DEF ReqType
<1>1. CASE ReadBlock
  <2>0. done \in Nat /\ done < req.count /\ done \in Offsets /\ card_pos \in Sectors
    BY <1>1 DEF ReadBlock, Transferring, TypeOK, Offsets, Sectors
  <2>1. TypeOK'
    BY <1>1, <2>0 DEF TypeOK, ReadBlock, Sectors, diskVars, callVars
  <2>2. RequestInv'
    BY <1>1 DEF RequestInv, ReadBlock, Transferring, diskVars, callVars
  <2>3. ASSUME retry, NEW k \in 0 .. done PROVE buf'[k] = media[req.sector + k]
    <3>1. card_pos = req.sector + done
      BY <1>1, <2>3 DEF RetryInv, ReadBlock, Transferring
    <3>2. \A i \in 0 .. done - 1 : buf[i] = media[req.sector + i]
      BY <1>1, <2>3 DEF RetryInv, ReadBlock, Transferring
    <3>3. k \in Offsets
      BY <2>0 DEF Offsets
    <3> QED
      BY <1>1, <2>0, <3>1, <3>2, <3>3 DEF ReadBlock, TypeOK
  <2>4. RetryInv'
    BY <1>1, <2>0, <2>3 DEF RetryInv, RetryIsSafe, Finished, ReadBlock, Transferring, TypeOK,
       diskVars, callVars
  <2> QED
    BY <2>1, <2>2, <2>4 DEF AnyFaultInv
<1>2. CASE WriteBlock
  <2>0. done \in Nat /\ done < req.count /\ buf[done] \in Vals /\ card_pos \in Sectors
    BY <1>2 DEF WriteBlock, Transferring, TypeOK, RequestInv, Sectors
  <2>1. TypeOK'
    BY <1>2, <2>0 DEF TypeOK, WriteBlock, Sectors, diskVars, callVars
  <2>2. RequestInv'
    BY <1>2 DEF RequestInv, WriteBlock, Transferring, diskVars, callVars
  <2>3. ASSUME retry, NEW k \in 0 .. done PROVE buf[k] = media'[req.sector + k]
    <3>1. card_pos = req.sector + done
      BY <1>2, <2>3 DEF RetryInv, WriteBlock, Transferring
    <3>2. \A i \in 0 .. done - 1 : buf[i] = media[req.sector + i]
      BY <1>2, <2>3 DEF RetryInv, WriteBlock, Transferring
    <3>3. req.sector + k \in Sectors
      BY <2>0, <3>1 DEF Sectors
    <3> QED
      BY <1>2, <2>0, <3>1, <3>2, <3>3 DEF WriteBlock, TypeOK
  <2>4. RetryInv'
    BY <1>2, <2>0, <2>3 DEF RetryInv, RetryIsSafe, Finished, WriteBlock, Transferring, TypeOK,
       diskVars, callVars
  <2> QED
    BY <2>1, <2>2, <2>4 DEF AnyFaultInv
<1>3. CASE ReadSilent \/ ReadFails \/ WriteSilent
  <2>a. /\ pc = "xfer" /\ pc' = "idle" /\ ret' = "error"
        /\ card_pos' = card_pos \/ (card_pos < NSectors /\ card_pos' = card_pos + 1)
        /\ UNCHANGED <<media, card, diskVars, buf, done, callVars>>
    BY <1>3 DEF ReadSilent, ReadFails, WriteSilent, Transferring, Return, cardVars
  <2>1. TypeOK'
    BY <2>a DEF TypeOK, diskVars, callVars
  <2>2. RequestInv'
    BY <2>a DEF RequestInv, diskVars, callVars
  <2>3. req.count > 0
    BY <1>3 DEF ReadSilent, ReadFails, WriteSilent, Transferring, TypeOK
  <2>4. RetryInv'
    BY <2>a, <2>3 DEF RetryInv, RetryIsSafe, Finished, NoReuse, diskVars, callVars
  <2> QED
    BY <2>1, <2>2, <2>4 DEF AnyFaultInv
<1>4. CASE WriteFails
  <2>0. done \in Nat /\ done < req.count /\ buf[done] \in Vals /\ card_pos \in Sectors
    BY <1>4 DEF WriteFails, Transferring, TypeOK, RequestInv, Sectors
  <2>a. /\ pc = "xfer" /\ pc' = "idle" /\ ret' = "error" /\ card' \in {"rcv", "err"}
        /\ \/ UNCHANGED <<media, card_pos>>
           \/ media' = [media EXCEPT ![card_pos] = buf[done]] /\ card_pos' = card_pos + 1
        /\ UNCHANGED <<diskVars, buf, done, callVars>>
    BY <1>4 DEF WriteFails, Transferring, Return
  <2>1. TypeOK'
    BY <2>0, <2>a DEF TypeOK, CardStates, Sectors, diskVars, callVars
  <2>2. RequestInv'
    BY <2>a DEF RequestInv, diskVars, callVars
  <2>3. RetryInv'
    BY <2>0, <2>a DEF RetryInv, RetryIsSafe, Finished, NoReuse, diskVars, callVars
  <2> QED
    BY <2>1, <2>2, <2>3 DEF AnyFaultInv
<1>5. CASE TransferDone
  <2>a. /\ pc = "xfer" /\ done = req.count /\ pc' = "idle" /\ ret' = "ok"
        /\ UNCHANGED <<cardVars, diskVars, buf, done, callVars>>
    BY <1>5 DEF TransferDone, Return
  <2>1. TypeOK'
    BY <2>a DEF TypeOK, cardVars, diskVars, callVars
  <2>2. RequestInv'
    BY <2>a DEF RequestInv, diskVars, callVars
  <2>3. RetryInv'
    BY <2>a DEF RetryInv, RetryIsSafe, Finished, BD!Agree, cardVars, diskVars, callVars
  <2> QED
    BY <2>1, <2>2, <2>3 DEF AnyFaultInv
<1> QED
  BY <1>1, <1>2, <1>3, <1>4, <1>5

LEMMA AnyFaultStep == AnyFaultInv /\ [Next]_vars => AnyFaultInv'
<1> SUFFICES ASSUME AnyFaultInv, [Next]_vars PROVE AnyFaultInv'
  OBVIOUS
<1>1. CASE Next
  BY <1>1, AnyFaultCall, AnyFaultOpen, AnyFaultCommand, AnyFaultTransfer
     DEF Next, DriverStep, FaultStep
<1>2. CASE UNCHANGED vars
  BY <1>2 DEF vars, cardVars, diskVars, callVars, AnyFaultInv, TypeOK, RequestInv, RetryInv,
     RetryIsSafe, NoReuse, Finished, BD!Agree
<1> QED
  BY <1>1, <1>2

\* Whatever is lost: the repetition of a failed read or write, if it succeeds,
\* has moved the right sectors; diskOpenRead and diskOpenWrite never find the
\* address at which the failed stream began (disk.c:225, 307).
THEOREM RetriesAreSafe == Spec => []RetryIsSafe
<1>1. AnyFaultInv => RetryIsSafe
  BY DEF AnyFaultInv, RetryInv
<1> QED
  BY AnyFaultInit, AnyFaultStep, <1>1, PTL DEF Spec

\* Whatever is lost: neither disk_cur_addr nor the card's stream passes the end
\* of the medium, and no request moves more sectors than it asks for.
THEOREM TypesWhateverIsLost == Spec => []TypeOK
<1>1. AnyFaultInv => TypeOK
  BY DEF AnyFaultInv
<1> QED
  BY AnyFaultInit, AnyFaultStep, <1>1, PTL DEF Spec

\* disk_mode becomes WR only when the card has answered CMD25, and every way
\* out of that state passes through diskCloseRW or diskInit, which reset it.
LEMMA WriteHeldStep == WriteHeldInv /\ [Next]_vars => WriteHeldInv'
<1> SUFFICES ASSUME WriteHeldInv, [Next]_vars PROVE WriteHeldInv'
  OBVIOUS
<1> USE DEF WriteHeldInv, WriteSessionHeldByCard
<1>1. CASE Call
  BY <1>1 DEF Call, disk_read, disk_write, disk_sync, disk_initialize, Request, cardVars, diskVars
<1>2. CASE InitSucceeds \/ InitFails
  BY <1>2 DEF InitSucceeds, InitFails, Return, diskVars
<1>3. CASE OpenReuse \/ OpenClose \/ CloseNothing \/ WaitReady \/ WaitGivesUp
  BY <1>3 DEF OpenReuse, OpenClose, CloseNothing, WaitReady, WaitGivesUp, CloseReturns, Return,
     cardVars, diskVars
<1>4. CASE StopAnswered \/ StopIllegal \/ StopMissed \/ CardProgrammed
  BY <1>4 DEF StopAnswered, StopIllegal, StopMissed, CardProgrammed, CloseReturns, Return, diskVars
<1>5. CASE OpenRead \/ OpenReadLost \/ OpenWrite \/ OpenWriteIllegal \/ OpenWriteMissed
  BY <1>5 DEF OpenRead, OpenReadLost, SendCMD18, OpenWrite, OpenWriteIllegal, OpenWriteMissed,
     OpenWriteFails, Return
<1>6. CASE ReadBlock \/ ReadSilent \/ ReadFails \/ TransferDone
  BY <1>6 DEF ReadBlock, ReadSilent, ReadFails, TransferDone, Transferring, Return, cardVars, diskVars
<1>7. CASE WriteBlock \/ WriteSilent \/ WriteFails
  BY <1>7 DEF WriteBlock, WriteSilent, WriteFails, Transferring, Return, cardVars, diskVars
<1>8. CASE UNCHANGED vars
  BY <1>8 DEF vars, cardVars, diskVars
<1> QED
  BY <1>1, <1>2, <1>3, <1>4, <1>5, <1>6, <1>7, <1>8 DEF Next, DriverStep, FaultStep

\* Whatever is lost: while disk_mode is WR the card is receiving, so a write is
\* never streamed into a card that would drop it.
THEOREM WriteSessionHeld == Spec => []WriteSessionHeldByCard
<1>1. Init => WriteHeldInv
  BY DEF Init, WriteHeldInv, WriteSessionHeldByCard
<1>2. WriteHeldInv => WriteSessionHeldByCard
  BY DEF WriteHeldInv
<1> QED
  BY <1>1, <1>2, WriteHeldStep, PTL DEF Spec
=============================================================================
