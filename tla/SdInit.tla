-------------------------------- MODULE SdInit --------------------------------
(***************************************************************************)
(* diskInit (ED64-XIO/src/disk.c): the commands that bring an SD card from *)
(* power-up to the transfer state, sent to a card that may miss a command, *)
(* or whose answer may be missed.  disk_initialize may call it any number  *)
(* of times, on whatever card state the last call left.                    *)
(***************************************************************************)
EXTENDS Integers, Sequences

CONSTANTS
  WaitMax,      \* wait_max: 1024 in the program
  ReadyMax,     \* the slowest card needs so many polls
  Rcas,         \* addresses a card may publish
  LostCmds,     \* commands that may not reach the card
  LostAnswers   \* commands whose answer may not reach the driver

Commands == {"CMD0", "CMD8", "CMD55", "CMD41", "CMD2", "CMD3", "CMD7", "CMD9", "CMD6"}

ASSUME WaitAssumption == WaitMax \in Nat \ {0} /\ ReadyMax \in Nat
ASSUME RcaAssumption == Rcas \subseteq Nat \ {0}
ASSUME LossAssumption == LostCmds \subseteq Commands /\ LostAnswers \subseteq Commands

VARIABLES
  card,            \* the card (below)
  pc,              \* the next command of diskInit, or "idle"
  disk_card_type,  \* subset of {"SD_V2", "SD_HC"}
  i,               \* polls so far
  rca,             \* the card address the driver uses
  sd_resp_buff,    \* the last answer received
  speed,           \* bi_sd_speed
  ret,             \* result of the last call
  lost             \* TRUE: the running or last call has lost something

driverVars == <<pc, disk_card_type, i, rca, sd_resp_buff, speed, ret>>
vars == <<card, driverVars, lost>>

\* What an answer tells the driver: rfd is bit 8 of a status (ready for data),
\* ready and ccs are bits 31 and 30 of an OCR, rca what CMD3 publishes.
Answer(rfd, ready, ccs, r) == [rfd |-> rfd, ready |-> ready, ccs |-> ccs, rca |-> r]
NoAnswer == Answer(FALSE, FALSE, FALSE, -1)
Status == Answer(TRUE, FALSE, FALSE, 0)
Answers == [rfd : BOOLEAN, ready : BOOLEAN, ccs : BOOLEAN, rca : {-1, 0} \cup Rcas]

-----------------------------------------------------------------------------
(***************************************************************************)
(* The card: kind and capacity; its state; whether CMD8 and CMD55 have     *)
(* come; polls it has seen, and how many it needs; its address; bus width. *)
(***************************************************************************)
Cards == [kind : {"V1", "V2", "none"}, hc : BOOLEAN,
          state : {"idle", "ready", "ident", "stby", "tran"},
          seen8 : BOOLEAN, app : BOOLEAN, polls : 0 .. ReadyMax, need : 0 .. ReadyMax,
          rca : {0} \cup Rcas, wide : BOOLEAN]

\* Reactions of the card c to command m with address a in its argument: pairs
\* of its new value and its answer.
Silent(c) == {<<[c EXCEPT !.app = FALSE], NoAnswer>>}
Accept(c, r) == {<<[c EXCEPT !.app = FALSE], r>>}

\* ACMD41 ends when the card is powered up; a high capacity card waits for CMD8.
OpCond(c) ==
  IF c.polls < c.need \/ (c.hc /\ ~c.seen8)
  THEN Accept([c EXCEPT !.polls = IF @ < c.need THEN @ + 1 ELSE @], Answer(FALSE, FALSE, FALSE, 0))
  ELSE Accept([c EXCEPT !.state = "ready"], Answer(FALSE, TRUE, c.hc, 0))

\* A card that powers up may answer CMD55 without the ready-for-data bit.
AppCmd(c) ==
  {<<[c EXCEPT !.app = TRUE], Status>>}
  \cup (IF c.state = "idle" /\ c.polls < c.need
        THEN {<<[c EXCEPT !.app = TRUE, !.polls = @ + 1], Answer(FALSE, FALSE, FALSE, 0)>>} ELSE {})

Reactions(c, m, a) ==
  IF c.kind = "none" THEN Silent(c) ELSE
  CASE m = "CMD0" -> Silent([c EXCEPT !.state = "idle", !.seen8 = FALSE, !.polls = 0,
                                      !.rca = 0, !.wide = FALSE])
    [] m = "CMD8" /\ c.kind = "V2" /\ c.state = "idle" -> Accept([c EXCEPT !.seen8 = TRUE], Status)
    [] m = "CMD55" /\ a = c.rca -> AppCmd(c)
    [] m = "CMD41" /\ c.app /\ c.state = "idle" -> OpCond(c)
    [] m = "CMD2" /\ c.state = "ready" -> Accept([c EXCEPT !.state = "ident"], Status)
    [] m = "CMD3" /\ c.state \in {"ident", "stby"} ->
         UNION {Accept([c EXCEPT !.state = "stby", !.rca = r], Answer(FALSE, FALSE, FALSE, r)) : r \in Rcas}
    [] m = "CMD7" /\ a = c.rca /\ c.state = "stby" -> Accept([c EXCEPT !.state = "tran"], Status)
    [] m = "CMD7" /\ a # c.rca /\ c.state = "tran" -> Silent([c EXCEPT !.state = "stby"])
    [] m = "CMD9" /\ a = c.rca /\ c.state = "stby" -> Accept(c, Status)
    [] m = "CMD6" /\ c.app /\ c.state = "tran" -> Accept([c EXCEPT !.wide = TRUE], Status)
    [] OTHER -> Silent(c)

\* diskCmdSD and diskReadResp: the answer, if there is one, replaces the last.
DiskCmdSD(m, a, answered) ==
  \/ m \in LostCmds /\ ~answered /\ lost' = TRUE /\ UNCHANGED <<card, sd_resp_buff>>
  \/ \E x \in Reactions(card, m, a) :
       /\ card' = x[1]
       /\ \/ answered /\ x[2] # NoAnswer /\ sd_resp_buff' = x[2] /\ lost' = lost
          \/ ~answered /\ x[2] = NoAnswer /\ UNCHANGED <<sd_resp_buff, lost>>
          \/ ~answered /\ x[2] # NoAnswer /\ m \in LostAnswers
             /\ lost' = TRUE /\ UNCHANGED sd_resp_buff

-----------------------------------------------------------------------------
(***************************************************************************)
(* diskInit, one action per command.                                       *)
(***************************************************************************)
TypeOK ==
  /\ card \in Cards
  /\ pc \in {"idle", "CMD0", "CMD8", "poll", "poll41", "type", "CMD2", "CMD3", "deselect",
             "CMD9", "CMD7", "CMD55", "CMD6"}
  /\ disk_card_type \subseteq {"SD_V2", "SD_HC"}
  /\ i \in 0 .. WaitMax + 1
  /\ rca \in {-1, 0} \cup Rcas
  /\ sd_resp_buff \in Answers
  /\ speed \in {"LO", "HI"}
  /\ ret \in {"none", "ok", "error"}
  /\ lost \in BOOLEAN

Init ==
  /\ card \in [kind : {"V1", "V2", "none"}, hc : BOOLEAN, state : {"idle"}, seen8 : {FALSE},
               app : {FALSE}, polls : {0}, need : 0 .. ReadyMax, rca : {0}, wide : {FALSE}]
  /\ card.hc => card.kind = "V2"
  /\ pc = "idle" /\ disk_card_type = {} /\ i = 0 /\ rca = 0 /\ sd_resp_buff = Status
  /\ speed = "LO" /\ ret = "none" /\ lost = FALSE

Return(r) == pc' = "idle" /\ ret' = r

\* disk_initialize
Call ==
  /\ pc = "idle"
  /\ pc' = "CMD0" /\ disk_card_type' = {} /\ speed' = "LO" /\ lost' = FALSE
  /\ UNCHANGED <<card, i, rca, sd_resp_buff, ret>>

\* The result of CMD0 is ignored.
Reset ==
  /\ pc = "CMD0"
  /\ \E ok \in BOOLEAN : DiskCmdSD("CMD0", 0, ok)
  /\ pc' = "CMD8"
  /\ UNCHANGED <<disk_card_type, i, rca, speed, ret>>

\* No answer to CMD8 means a card of version 1.
SendIfCond ==
  /\ pc = "CMD8"
  /\ \E ok \in BOOLEAN :
       /\ DiskCmdSD("CMD8", 0, ok)
       /\ disk_card_type' = IF ok THEN {"SD_V2"} ELSE {}
  /\ i' = 0
  /\ pc' = "poll"
  /\ UNCHANGED <<rca, speed, ret>>

\* CMD55 before CMD41.  For version 2 the for loop ends at wait_max, and an
\* iteration may end here.
PollApp ==
  /\ pc = "poll"
  /\ \E ok \in BOOLEAN :
       /\ DiskCmdSD("CMD55", 0, ok)
       /\ \/ ~ok /\ Return("error") /\ i' = i
          \/ /\ ok /\ "SD_V2" \in disk_card_type /\ ~sd_resp_buff'.rfd
             /\ i' = i + 1
             /\ IF i' = WaitMax THEN Return("error") ELSE UNCHANGED <<pc, ret>>
          \/ /\ ok /\ ("SD_V2" \notin disk_card_type \/ sd_resp_buff'.rfd)
             /\ pc' = "poll41" /\ UNCHANGED <<i, ret>>
  /\ UNCHANGED <<disk_card_type, rca, speed>>

\* MUTANT of PollV2: the polls are not counted.
PollV2_Uncounted ==
  /\ pc = "poll41" /\ "SD_V2" \in disk_card_type
  /\ \E ok \in BOOLEAN : DiskCmdSD("CMD41", 0, ok)
  /\ pc' = IF sd_resp_buff'.ready THEN "type" ELSE "poll"
  /\ UNCHANGED <<disk_card_type, i, rca, speed, ret>>

\* Version 2: an unanswered CMD41 is not noticed, the answer to CMD55 is looked
\* at instead and says "not ready".
PollV2 ==
  /\ pc = "poll41" /\ "SD_V2" \in disk_card_type
  /\ \E ok \in BOOLEAN : DiskCmdSD("CMD41", 0, ok)
  /\ IF sd_resp_buff'.ready THEN pc' = "type" /\ UNCHANGED <<i, ret>>
     ELSE /\ i' = i + 1
          /\ IF i' = WaitMax THEN Return("error") ELSE pc' = "poll" /\ ret' = ret
  /\ UNCHANGED <<disk_card_type, rca, speed>>

\* MUTANT of PollV1: the loop gives up one poll too early.
PollV1_OneLess ==
  /\ pc = "poll41" /\ "SD_V2" \notin disk_card_type
  /\ \E ok \in BOOLEAN :
       /\ DiskCmdSD("CMD41", 0, ok)
       /\ IF ~ok THEN Return("error") /\ i' = i
          ELSE /\ i' = i + 1
               /\ IF i' = WaitMax THEN Return("error")
                  ELSE pc' = (IF sd_resp_buff'.ready THEN "type" ELSE "poll") /\ ret' = ret
  /\ UNCHANGED <<disk_card_type, rca, speed>>

\* Version 1: while (not ready && i++ < wait_max).  A card that is ready at the
\* last poll is given up, and after it i is wait_max + 1, which no test notices.
PollV1 ==
  /\ pc = "poll41" /\ "SD_V2" \notin disk_card_type
  /\ \E ok \in BOOLEAN :
       /\ DiskCmdSD("CMD41", 0, ok)
       /\ CASE ~ok -> Return("error") /\ i' = i
            [] ok /\ sd_resp_buff'.ready /\ i = WaitMax -> Return("error") /\ i' = i
            [] ok /\ sd_resp_buff'.ready /\ i # WaitMax -> pc' = "type" /\ UNCHANGED <<i, ret>>
            [] ok /\ ~sd_resp_buff'.ready ->
                 i' = i + 1 /\ pc' = (IF i < WaitMax THEN "poll" ELSE "type") /\ ret' = ret
  /\ UNCHANGED <<disk_card_type, rca, speed>>

\* The capacity bit counts for version 2 only.
FindType ==
  /\ pc = "type"
  /\ disk_card_type' = disk_card_type
       \cup (IF sd_resp_buff.ccs /\ disk_card_type # {} THEN {"SD_HC"} ELSE {})
  /\ pc' = "CMD2"
  /\ UNCHANGED <<card, i, rca, sd_resp_buff, speed, ret, lost>>

\* MUTANT of Required: the result is not looked at.
Required_Unchecked(m, a, next) ==
  /\ pc = m
  /\ \E ok \in BOOLEAN : DiskCmdSD(m, a, ok)
  /\ pc' = next
  /\ UNCHANGED <<disk_card_type, i, rca, speed, ret>>

\* A command without which diskInit fails.
Required(m, a, next) ==
  /\ pc = m
  /\ \E ok \in BOOLEAN :
       /\ DiskCmdSD(m, a, ok)
       /\ IF ok THEN pc' = next /\ ret' = ret ELSE Return("error")
  /\ UNCHANGED <<disk_card_type, i, rca, speed>>

SendCid == Required("CMD2", 0, "CMD3")
SendRca == Required("CMD3", 0, "deselect")

\* CMD7 with address 0 has no answer, so what is read as the card's address is
\* still the answer to CMD3.
Deselect ==
  /\ pc = "deselect"
  /\ \E ok \in BOOLEAN : DiskCmdSD("CMD7", 0, ok)
  /\ rca' = sd_resp_buff'.rca
  /\ pc' = "CMD9"
  /\ UNCHANGED <<disk_card_type, i, speed, ret>>

SendCsd == Required("CMD9", rca, "CMD7")
Select == Required("CMD7", rca, "CMD55")
WidthApp == Required("CMD55", rca, "CMD6")

\* MUTANT of SetWidth: the result of CMD6 is not looked at.
SetWidth_Unchecked ==
  /\ pc = "CMD6"
  /\ \E ok \in BOOLEAN : DiskCmdSD("CMD6", 2, ok)
  /\ Return("ok") /\ speed' = "HI"
  /\ UNCHANGED <<disk_card_type, i, rca>>

\* ACMD6 and the high clock.
SetWidth ==
  /\ pc = "CMD6"
  /\ \E ok \in BOOLEAN :
       /\ DiskCmdSD("CMD6", 2, ok)
       /\ IF ok THEN Return("ok") /\ speed' = "HI" ELSE Return("error") /\ speed' = speed
  /\ UNCHANGED <<disk_card_type, i, rca>>

DriverStep ==
  \/ Reset \/ SendIfCond \/ PollApp \/ PollV2 \/ PollV1 \/ FindType
  \/ SendCid \/ SendRca \/ Deselect \/ SendCsd \/ Select \/ WidthApp \/ SetWidth

Next == Call \/ DriverStep

Spec == Init /\ [][Next]_vars

\* The driver runs on.
FairSpec == Spec /\ WF_vars(DriverStep)

-----------------------------------------------------------------------------
(***************************************************************************)
(* Properties.                                                             *)
(***************************************************************************)

\* diskInit returns 0 only with a card selected, its bus widened, and the
\* addressing mode it really has: every sector number that diskOpenRead and
\* diskOpenWrite send afterwards depends on SD_HC.
InitSound ==
  pc = "idle" /\ ret = "ok" =>
    card.state = "tran" /\ card.wide /\ ("SD_HC" \in disk_card_type <=> card.hc)

\* The address sent with CMD9, CMD7 and CMD55 is the one the card published in
\* this call (disk.c:121-124 read it from what CMD7 left in sd_resp_buff).
RcaIsPublished ==
  pc \in {"CMD9", "CMD7", "CMD55", "CMD6"} => rca = card.rca /\ rca # 0

\* The high clock is used only for a card that has been identified; the next
\* call starts slowly again.
FastOnlyWhenSelected == speed = "HI" => card.state = "tran" /\ card.wide

\* What the driver believes it has found out agrees with the card.
TypeIsTrue == "SD_HC" \in disk_card_type <=> card.hc

\* How far the card has followed, command by command, whatever is lost.  The
\* second exit of PollV1 leads a card that is still idle to CMD2, which such a
\* card does not answer.
FollowInv ==
  /\ TypeOK /\ RcaIsPublished /\ FastOnlyWhenSelected
  /\ card.hc => card.kind = "V2"
  /\ (speed = "HI" => pc = "idle") /\ (ret = "ok" /\ pc = "idle" => speed = "HI")
  /\ pc \in {"poll", "poll41"} =>
       i <= WaitMax /\ (disk_card_type # {} => i < WaitMax)
  /\ pc \in {"poll", "poll41", "type"} => disk_card_type \subseteq {"SD_V2"}
  /\ pc = "poll41" => ~sd_resp_buff.ready
  /\ pc \in {"type", "CMD2"} => card.state \in {"idle", "ready"}
  /\ pc = "CMD3" => card.state = "ident"
  /\ pc = "deselect" => card.state = "stby" /\ sd_resp_buff.rca = card.rca /\ card.rca # 0
  /\ pc \in {"CMD9", "CMD7"} => card.state = "stby"
  /\ pc \in {"CMD55", "CMD6"} => card.state = "tran"

\* What the driver finds out about the card is true, if no CMD8 is lost.
TypeInv ==
  /\ pc \in {"poll", "poll41", "type"} /\ card.kind = "V2" /\ card.state = "idle" =>
       disk_card_type # {}
  /\ pc = "type" /\ card.state = "ready" =>
       sd_resp_buff.ccs = card.hc /\ (card.hc => disk_card_type # {})
  /\ pc = "CMD2" /\ card.state = "ready" => TypeIsTrue
  /\ pc \in {"CMD3", "deselect", "CMD9", "CMD7", "CMD55", "CMD6"} => TypeIsTrue
  /\ pc = "idle" /\ ret = "ok" => TypeIsTrue

\* Where a card that is ready in time stands while nothing is lost: every poll
\* that is counted is one the card has seen.
InTime == ~lost /\ card.kind # "none" /\ card.need < WaitMax
CleanInv ==
  InTime =>
    /\ pc = "CMD8" => card.state = "idle" /\ card.rca = 0 /\ card.polls = 0 /\ ~card.seen8
    /\ pc \in {"poll", "poll41"} =>
         /\ card.state = "idle" /\ card.rca = 0
         /\ i <= card.polls /\ card.polls <= card.need
         /\ card.hc => card.seen8
    /\ pc \in {"poll41", "CMD6"} => card.app
    /\ pc \in {"type", "CMD2"} => card.state = "ready"
    /\ pc = "idle" => ret # "error"

\* The inductive strengthening of the properties of this module.
InitInv == FollowInv /\ TypeInv /\ CleanInv

\* A call on which nothing is lost brings up every card that is ready in time,
\* whatever the calls before it left behind.
CleanCallSucceeds ==
  pc = "idle" /\ ret = "error" /\ ~lost => card.kind = "none" \/ card.need >= WaitMax

\* A call returns, whatever is lost and however long the card takes.
CallReturns == (pc = "CMD0") ~> (pc = "idle")
=============================================================================
