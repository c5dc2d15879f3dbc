---------------------------- MODULE SdInit_proofs ----------------------------
(***************************************************************************)
(* Proofs about SdInit, for every number of polls, every card and every    *)
(* set of commands and answers that may be lost: FollowInv is inductive,   *)
(* CleanInv is inductive beside it, and TypeInv is when no CMD8 is lost.   *)
(***************************************************************************)
EXTENDS SdInit, TLAPS

\* What a card does not change whatever it is told.
Fixed(c, d) == d.kind = c.kind /\ d.hc = c.hc /\ d.need = c.need

LEMMA AnswerTypes ==
  /\ NoAnswer \in Answers /\ Status \in Answers
  /\ \A rfd, ready, ccs \in BOOLEAN, r \in {0} \cup Rcas : Answer(rfd, ready, ccs, r) \in Answers
BY DEF Answers, Answer, NoAnswer, Status

\* A reaction is a card and an answer.
LEMMA ReactionTypes ==
  ASSUME NEW c \in Cards, NEW m, NEW a, NEW x \in Reactions(c, m, a)
  PROVE  x[1] \in Cards /\ x[2] \in Answers /\ Fixed(c, x[1])
<1> DEFINE Fine(y) == y[1] \in Cards /\ y[2] \in Answers /\ Fixed(c, y[1])
<1>0. /\ 0 \in 0 .. ReadyMax
      /\ c.polls < c.need => c.polls + 1 \in 0 .. ReadyMax
  BY WaitAssumption DEF Cards
<1>1. ASSUME NEW d \in Cards, Fixed(c, d)
      PROVE  /\ \A y \in Silent(d) : Fine(y)
             /\ \A r \in Answers : \A y \in Accept(d, r) : Fine(y)
  <2> DEFINE e == [d EXCEPT !.app = FALSE]
  <2>1. e \in Cards /\ Fixed(c, e)
    BY <1>1 DEF Cards, Fixed
  <2>2. Silent(d) = {<<e, NoAnswer>>} /\ \A r \in Answers : Accept(d, r) = {<<e, r>>}
    BY DEF Silent, Accept
  <2> HIDE DEF e
  <2> QED
    BY <2>1, <2>2, AnswerTypes
<1>2. ASSUME NEW st \in {"idle", "ready", "ident", "stby", "tran"}
      PROVE  [c EXCEPT !.state = st] \in Cards /\ Fixed(c, [c EXCEPT !.state = st])
  BY DEF Cards, Fixed
<1>3. CASE x \in Silent(c)
  BY <1>1, <1>3 DEF Fixed
<1>4. CASE m = "CMD0" /\ c.kind # "none"
  <2> DEFINE d == [c EXCEPT !.state = "idle", !.seen8 = FALSE, !.polls = 0, !.rca = 0, !.wide = FALSE]
  <2>1. d \in Cards /\ Fixed(c, d)
    BY <1>0 DEF Cards, Fixed
  <2>2. x \in Silent(d)
    BY <1>4 DEF Reactions
  <2> QED
    BY <1>1, <2>1, <2>2
<1>5. CASE m = "CMD8" /\ c.kind = "V2" /\ c.state = "idle"
  <2> DEFINE d == [c EXCEPT !.seen8 = TRUE]
  <2>1. d \in Cards /\ Fixed(c, d)
    BY DEF Cards, Fixed
  <2>2. x \in Accept(d, Status)
    BY <1>5 DEF Reactions
  <2> QED
    BY <1>1, <2>1, <2>2, AnswerTypes
<1>6. CASE m = "CMD55" /\ c.kind # "none" /\ a = c.rca
  <2>1. x \in AppCmd(c)
    BY <1>6 DEF Reactions
  <2> DEFINE d == [c EXCEPT !.app = TRUE]
             e == [c EXCEPT !.app = TRUE, !.polls = @ + 1]
  <2>2. /\ d \in Cards /\ Fixed(c, d)
        /\ c.polls < c.need => e \in Cards /\ Fixed(c, e)
    BY <1>0 DEF Cards, Fixed
  <2>3. x \in {<<d, Status>>} \/ (c.polls < c.need /\ x \in {<<e, Answer(FALSE, FALSE, FALSE, 0)>>})
    BY <2>1 DEF AppCmd
  <2> HIDE DEF d, e
  <2>4. Answer(FALSE, FALSE, FALSE, 0) \in Answers
    BY AnswerTypes
  <2>5. CASE x = <<d, Status>>
    BY <2>2, <2>5, AnswerTypes
  <2>6. CASE c.polls < c.need /\ x = <<e, Answer(FALSE, FALSE, FALSE, 0)>>
    BY <2>2, <2>4, <2>6
  <2> QED
    BY <2>3, <2>5, <2>6
<1>7. CASE m = "CMD41" /\ c.kind # "none" /\ c.app /\ c.state = "idle"
  <2>1. x \in OpCond(c)
    BY <1>7 DEF Reactions
  <2> DEFINE d == [c EXCEPT !.polls = IF @ < c.need THEN @ + 1 ELSE @]
  <2>2. d \in Cards /\ Fixed(c, d)
    BY <1>0 DEF Cards, Fixed
  <2>3. Answer(FALSE, FALSE, FALSE, 0) \in Answers /\ Answer(FALSE, TRUE, c.hc, 0) \in Answers
    BY AnswerTypes DEF Cards
  <2> QED
    BY <1>1, <1>2, <2>1, <2>2, <2>3 DEF OpCond
<1>8. CASE m = "CMD2" /\ c.kind # "none" /\ c.state = "ready"
  BY <1>1, <1>2, <1>8, AnswerTypes DEF Reactions
<1>9. CASE m = "CMD3" /\ c.kind # "none" /\ c.state \in {"ident", "stby"}
  <2>1. PICK r \in Rcas : x \in Accept([c EXCEPT !.state = "stby", !.rca = r], Answer(FALSE, FALSE, FALSE, r))
    BY <1>9 DEF Reactions
  <2>2. /\ [c EXCEPT !.state = "stby", !.rca = r] \in Cards
        /\ Fixed(c, [c EXCEPT !.state = "stby", !.rca = r])
    BY DEF Cards, Fixed
  <2> QED
    BY <1>1, <2>1, <2>2, AnswerTypes
<1>10. CASE m = "CMD7" /\ c.kind # "none" /\ a = c.rca /\ c.state = "stby"
  BY <1>1, <1>2, <1>10, AnswerTypes DEF Reactions
<1>11. CASE m = "CMD7" /\ c.kind # "none" /\ a # c.rca /\ c.state = "tran"
  BY <1>1, <1>2, <1>11 DEF Reactions
<1>12. CASE m = "CMD9" /\ c.kind # "none" /\ a = c.rca /\ c.state = "stby"
  BY <1>1, <1>12, AnswerTypes DEF Reactions, Fixed
<1>13. CASE m = "CMD6" /\ c.kind # "none" /\ c.app /\ c.state = "tran"
  <2>1. [c EXCEPT !.wide = TRUE] \in Cards /\ Fixed(c, [c EXCEPT !.wide = TRUE])
    BY DEF Cards, Fixed
  <2> QED
    BY <1>1, <1>13, <2>1, AnswerTypes DEF Reactions
<1>14. \/ x \in Silent(c)
       \/ m = "CMD0" /\ c.kind # "none"
       \/ m = "CMD8" /\ c.kind = "V2" /\ c.state = "idle"
       \/ m = "CMD55" /\ c.kind # "none" /\ a = c.rca
       \/ m = "CMD41" /\ c.kind # "none" /\ c.app /\ c.state = "idle"
       \/ m = "CMD2" /\ c.kind # "none" /\ c.state = "ready"
       \/ m = "CMD3" /\ c.kind # "none" /\ c.state \in {"ident", "stby"}
       \/ m = "CMD7" /\ c.kind # "none" /\ a = c.rca /\ c.state = "stby"
       \/ m = "CMD7" /\ c.kind # "none" /\ a # c.rca /\ c.state = "tran"
       \/ m = "CMD9" /\ c.kind # "none" /\ a = c.rca /\ c.state = "stby"
       \/ m = "CMD6" /\ c.kind # "none" /\ c.app /\ c.state = "tran"
  BY DEF Reactions
<1> QED
  BY <1>14, <1>3, <1>4, <1>5, <1>6, <1>7, <1>8, <1>9, <1>10, <1>11, <1>12, <1>13

\* Whatever is lost, an exchange leaves a card and an answer, and nothing it
\* loses goes unnoticed.
LEMMA ExchangeTypes ==
  ASSUME TypeOK, NEW m, NEW a, NEW ok \in BOOLEAN, DiskCmdSD(m, a, ok)
  PROVE  /\ card' \in Cards /\ sd_resp_buff' \in Answers /\ lost' \in BOOLEAN
         /\ Fixed(card, card')
         /\ lost => lost'
<1>1. CASE UNCHANGED <<card, sd_resp_buff>> /\ lost' = TRUE
  BY <1>1 DEF TypeOK, Fixed
<1>2. CASE \E x \in Reactions(card, m, a) :
             /\ card' = x[1] /\ (sd_resp_buff' = x[2] \/ sd_resp_buff' = sd_resp_buff)
             /\ lost' = lost \/ lost' = TRUE
  <2>1. PICK x \in Reactions(card, m, a) :
               /\ card' = x[1] /\ (sd_resp_buff' = x[2] \/ sd_resp_buff' = sd_resp_buff)
               /\ lost' = lost \/ lost' = TRUE
    BY <1>2
  <2>2. card \in Cards /\ sd_resp_buff \in Answers /\ lost \in BOOLEAN
    BY DEF TypeOK
  <2>3. x[1] \in Cards /\ x[2] \in Answers /\ Fixed(card, x[1])
    BY <2>2, ReactionTypes
  <2> QED
    BY <2>1, <2>2, <2>3
<1> QED
  BY <1>1, <1>2 DEF DiskCmdSD

\* Nothing but the memory of CMD55 changes.
Same(c, d) ==
  d.state = c.state /\ d.seen8 = c.seen8 /\ d.polls = c.polls /\ d.rca = c.rca /\ d.wide = c.wide

LEMMA EndsOf ==
  ASSUME NEW c \in Cards
  PROVE  /\ \A y \in Silent(c) : Same(c, y[1]) /\ y[2] = NoAnswer
         /\ \A r : \A y \in Accept(c, r) : Same(c, y[1]) /\ y[2] = r
<1> DEFINE e == [c EXCEPT !.app = FALSE]
<1>1. Same(c, e)
  BY DEF Cards, Same
<1>2. Silent(c) = {<<e, NoAnswer>>} /\ \A r : Accept(c, r) = {<<e, r>>}
  BY DEF Silent, Accept
<1> HIDE DEF e
<1> QED
  BY <1>1, <1>2

\* A card counts its polls.
LEMMA CardCounts ==
  ASSUME NEW c \in Cards
  PROVE  c.polls \in Nat /\ c.need \in Nat
BY WaitAssumption DEF Cards

\* An answer is not a missing one.
LEMMA AnswersDiffer ==
  /\ NoAnswer.rca = -1 /\ ~NoAnswer.rfd /\ ~NoAnswer.ready
  /\ Status # NoAnswer /\ Status.rfd /\ ~Status.ready
<1>1. /\ NoAnswer.rca = -1 /\ ~NoAnswer.rfd /\ ~NoAnswer.ready
      /\ Status.rca = 0 /\ Status.rfd /\ ~Status.ready
  BY DEF NoAnswer, Status, Answer
<1> QED
  BY <1>1

\* What each command does to the card and what it answers.
LEMMA Reset0 ==
  ASSUME NEW c \in Cards, NEW x \in Reactions(c, "CMD0", 0)
  PROVE  /\ x[2] = NoAnswer
         /\ c.kind # "none" => x[1].state = "idle" /\ ~x[1].seen8 /\ x[1].polls = 0 /\ x[1].rca = 0
<1> DEFINE d == [c EXCEPT !.state = "idle", !.seen8 = FALSE, !.polls = 0, !.rca = 0, !.wide = FALSE]
<1>1. IF c.kind = "none" THEN x \in Silent(c) ELSE x \in Silent(d)
  BY DEF Reactions
<1>2. 0 \in 0 .. ReadyMax
  BY WaitAssumption
<1>3. d \in Cards /\ d.state = "idle" /\ ~d.seen8 /\ d.polls = 0 /\ d.rca = 0
  BY <1>2 DEF Cards
<1> HIDE DEF d
<1> QED
  BY <1>1, <1>3, EndsOf DEF Same

LEMMA IfCond8 ==
  ASSUME NEW c \in Cards, NEW x \in Reactions(c, "CMD8", 0)
  PROVE  /\ x[1].state = c.state /\ x[1].rca = c.rca /\ x[1].polls = c.polls
         /\ c.kind = "V2" /\ c.state = "idle" => x[1].seen8 /\ x[2] # NoAnswer
<1>1. CASE c.kind = "V2" /\ c.state = "idle"
  <2> DEFINE d == [c EXCEPT !.seen8 = TRUE]
  <2>1. x \in Accept(d, Status)
    BY <1>1 DEF Reactions
  <2>2. d \in Cards /\ d.seen8 = TRUE /\ d.state = c.state /\ d.rca = c.rca /\ d.polls = c.polls
    BY DEF Cards
  <2> HIDE DEF d
  <2> QED
    BY <2>1, <2>2, EndsOf, AnswersDiffer DEF Same
<1>2. CASE ~(c.kind = "V2" /\ c.state = "idle")
  <2>1. x \in Silent(c)
    BY <1>2 DEF Reactions
  <2> QED
    BY <1>2, <2>1, EndsOf DEF Same
<1> QED
  BY <1>1, <1>2

LEMMA App55 ==
  ASSUME NEW c \in Cards, NEW a, NEW x \in Reactions(c, "CMD55", a)
  PROVE  /\ x[1].state = c.state /\ x[1].rca = c.rca /\ x[1].seen8 = c.seen8 /\ x[1].wide = c.wide
         /\ ~x[2].ready
         /\ x[2] # NoAnswer => x[1].app
         /\ c.kind # "none" /\ a = c.rca => x[2] # NoAnswer
         /\ \/ x[1].polls = c.polls /\ (x[2].rfd \/ x[2] = NoAnswer)
            \/ x[1].polls = c.polls + 1 /\ c.polls < c.need
<1>1. CASE c.kind # "none" /\ a = c.rca
  <2> DEFINE d == [c EXCEPT !.app = TRUE]
             e == [c EXCEPT !.app = TRUE, !.polls = @ + 1]
             busy == Answer(FALSE, FALSE, FALSE, 0)
  <2>1. x \in AppCmd(c)
    BY <1>1 DEF Reactions
  <2>2. x = <<d, Status>> \/ (c.polls < c.need /\ x = <<e, busy>>)
    BY <2>1 DEF AppCmd
  <2>3. /\ Same(c, d) /\ d.app
        /\ e.state = c.state /\ e.rca = c.rca /\ e.seen8 = c.seen8 /\ e.wide = c.wide
        /\ e.app /\ e.polls = c.polls + 1
    BY DEF Cards, Same
  <2>4. busy.rca = 0 /\ ~busy.ready
    BY DEF Answer
  <2> HIDE DEF d, e, busy
  <2> QED
    BY <2>2, <2>3, <2>4, AnswersDiffer DEF Same
<1>2. CASE ~(c.kind # "none" /\ a = c.rca)
  <2>1. x \in Silent(c)
    BY <1>2 DEF Reactions
  <2> QED
    BY <1>2, <2>1, EndsOf, AnswersDiffer DEF Same
<1> QED
  BY <1>1, <1>2

LEMMA OpCond41 ==
  ASSUME NEW c \in Cards, NEW x \in Reactions(c, "CMD41", 0)
  PROVE  /\ x[1].rca = c.rca /\ x[1].seen8 = c.seen8
         /\ x[2] # NoAnswer => c.kind # "none" /\ c.state = "idle"
         /\ c.kind # "none" /\ c.app /\ c.state = "idle" => x[2] # NoAnswer
         /\ \/ x[1].state = c.state /\ ~x[2].ready
            \/ x[1].state = "ready" /\ x[2].ready /\ x[2].ccs = c.hc
         /\ x[2] # NoAnswer /\ ~x[2].ready /\ (c.hc => c.seen8) =>
              c.polls < c.need /\ x[1].polls = c.polls + 1
<1>1. CASE c.kind # "none" /\ c.app /\ c.state = "idle"
  <2> DEFINE d == [c EXCEPT !.polls = IF @ < c.need THEN @ + 1 ELSE @]
             e == [c EXCEPT !.state = "ready"]
             wait == c.polls < c.need \/ (c.hc /\ ~c.seen8)
             busy == Answer(FALSE, FALSE, FALSE, 0)
             up == Answer(FALSE, TRUE, c.hc, 0)
  <2>1. x \in OpCond(c)
    BY <1>1 DEF Reactions
  <2>2. (wait /\ x \in Accept(d, busy)) \/ (~wait /\ x \in Accept(e, up))
    BY <2>1 DEF OpCond
  <2>3. c.polls < c.need => c.polls + 1 \in 0 .. ReadyMax
    BY WaitAssumption DEF Cards
  <2>4. /\ d \in Cards /\ d.state = c.state /\ d.rca = c.rca /\ d.seen8 = c.seen8
        /\ c.polls < c.need => d.polls = c.polls + 1
    BY <2>3 DEF Cards
  <2>5. e \in Cards /\ e.state = "ready" /\ e.rca = c.rca /\ e.seen8 = c.seen8
    BY DEF Cards
  <2>6. /\ busy.rca = 0 /\ ~busy.ready
        /\ up.rca = 0 /\ up.ready /\ up.ccs = c.hc
    BY DEF Answer
  <2> HIDE DEF d, e, busy, up
  <2>7. CASE wait /\ x \in Accept(d, busy)
    BY <1>1, <2>4, <2>6, <2>7, EndsOf, AnswersDiffer DEF Same
  <2>8. CASE ~wait /\ x \in Accept(e, up)
    BY <1>1, <2>5, <2>6, <2>8, EndsOf, AnswersDiffer DEF Same
  <2> QED
    BY <2>2, <2>7, <2>8
<1>2. CASE ~(c.kind # "none" /\ c.app /\ c.state = "idle")
  <2>1. x \in Silent(c)
    BY <1>2 DEF Reactions
  <2> QED
    BY <1>2, <2>1, EndsOf, AnswersDiffer DEF Same
<1> QED
  BY <1>1, <1>2

LEMMA Cid2 ==
  ASSUME NEW c \in Cards, NEW x \in Reactions(c, "CMD2", 0)
  PROVE  /\ x[2] # NoAnswer => c.state = "ready" /\ x[1].state = "ident"
         /\ c.kind # "none" /\ c.state = "ready" => x[2] # NoAnswer
<1>1. CASE c.kind # "none" /\ c.state = "ready"
  <2> DEFINE d == [c EXCEPT !.state = "ident"]
  <2>1. x \in Accept(d, Status)
    BY <1>1 DEF Reactions
  <2>2. d \in Cards /\ d.state = "ident"
    BY DEF Cards
  <2> HIDE DEF d
  <2> QED
    BY <1>1, <2>1, <2>2, EndsOf, AnswersDiffer DEF Same
<1>2. CASE ~(c.kind # "none" /\ c.state = "ready")
  <2>1. x \in Silent(c)
    BY <1>2 DEF Reactions
  <2> QED
    BY <1>2, <2>1, EndsOf
<1> QED
  BY <1>1, <1>2

LEMMA Rca3 ==
  ASSUME NEW c \in Cards, NEW x \in Reactions(c, "CMD3", 0)
  PROVE  /\ x[2] # NoAnswer => x[1].state = "stby" /\ x[1].rca = x[2].rca /\ x[1].rca # 0
         /\ c.kind # "none" /\ c.state = "ident" => x[2] # NoAnswer
<1>1. CASE c.kind # "none" /\ c.state \in {"ident", "stby"}
  <2>1. PICK r \in Rcas :
               x \in Accept([c EXCEPT !.state = "stby", !.rca = r], Answer(FALSE, FALSE, FALSE, r))
    BY <1>1 DEF Reactions
  <2> DEFINE d == [c EXCEPT !.state = "stby", !.rca = r]
             published == Answer(FALSE, FALSE, FALSE, r)
  <2>2. d \in Cards /\ d.state = "stby" /\ d.rca = r
    BY DEF Cards
  <2>3. r \in Nat /\ r # 0
    BY RcaAssumption
  <2>4. published.rca = r
    BY DEF Answer
  <2>5. x \in Accept(d, published)
    BY <2>1
  <2> HIDE DEF d, published
  <2> QED
    BY <2>2, <2>3, <2>4, <2>5, EndsOf, AnswersDiffer DEF Same
<1>2. CASE ~(c.kind # "none" /\ c.state \in {"ident", "stby"})
  <2>1. x \in Silent(c)
    BY <1>2 DEF Reactions
  <2> QED
    BY <1>2, <2>1, EndsOf
<1> QED
  BY <1>1, <1>2

LEMMA Deselect7 ==
  ASSUME NEW c \in Cards, c.state = "stby", c.rca # 0, NEW x \in Reactions(c, "CMD7", 0)
  PROVE  x[2] = NoAnswer /\ x[1].state = "stby" /\ x[1].rca = c.rca
<1>1. x \in Silent(c)
  BY DEF Reactions
<1> QED
  BY <1>1, EndsOf DEF Same

LEMMA Csd9 ==
  ASSUME NEW c \in Cards, c.state = "stby", NEW x \in Reactions(c, "CMD9", c.rca)
  PROVE  x[1].state = "stby" /\ x[1].rca = c.rca /\ (c.kind # "none" => x[2] # NoAnswer)
<1>1. IF c.kind = "none" THEN x \in Silent(c) ELSE x \in Accept(c, Status)
  BY DEF Reactions
<1> QED
  BY <1>1, EndsOf, AnswersDiffer DEF Same

LEMMA Select7 ==
  ASSUME NEW c \in Cards, c.state = "stby", NEW x \in Reactions(c, "CMD7", c.rca)
  PROVE  /\ x[1].rca = c.rca
         /\ x[2] # NoAnswer => x[1].state = "tran"
         /\ c.kind # "none" => x[2] # NoAnswer
<1> DEFINE d == [c EXCEPT !.state = "tran"]
<1>1. IF c.kind = "none" THEN x \in Silent(c) ELSE x \in Accept(d, Status)
  BY DEF Reactions
<1>2. d \in Cards /\ d.state = "tran" /\ d.rca = c.rca
  BY DEF Cards
<1> HIDE DEF d
<1> QED
  BY <1>1, <1>2, EndsOf, AnswersDiffer DEF Same

LEMMA Width6 ==
  ASSUME NEW c \in Cards, c.state = "tran", NEW x \in Reactions(c, "CMD6", 2)
  PROVE  /\ x[1].rca = c.rca /\ x[1].state = "tran"
         /\ x[2] # NoAnswer => x[1].wide
         /\ c.kind # "none" /\ c.app => x[2] # NoAnswer
<1> DEFINE d == [c EXCEPT !.wide = TRUE]
<1>1. IF c.kind # "none" /\ c.app THEN x \in Accept(d, Status) ELSE x \in Silent(c)
  BY DEF Reactions
<1>2. d \in Cards /\ d.state = "tran" /\ d.rca = c.rca /\ d.wide = TRUE
  BY DEF Cards
<1> HIDE DEF d
<1> QED
  BY <1>1, <1>2, EndsOf, AnswersDiffer DEF Same

\* The same for a command that may be lost and an answer that may be lost.
LEMMA Sent0 ==
  ASSUME TypeOK, NEW ok \in BOOLEAN, DiskCmdSD("CMD0", 0, ok)
  PROVE  ~lost' /\ card.kind # "none" =>
           card'.state = "idle" /\ ~card'.seen8 /\ card'.polls = 0 /\ card'.rca = 0
BY Reset0 DEF DiskCmdSD, TypeOK

LEMMA Sent8 ==
  ASSUME TypeOK, NEW ok \in BOOLEAN, DiskCmdSD("CMD8", 0, ok)
  PROVE  /\ card'.state = card.state /\ card'.rca = card.rca /\ card'.polls = card.polls
         /\ card.kind = "V2" /\ card.state = "idle" =>
              /\ "CMD8" \notin LostCmds \cup LostAnswers => ok
              /\ ~lost' => ok /\ card'.seen8
BY IfCond8 DEF DiskCmdSD, TypeOK

LEMMA Sent55 ==
  ASSUME TypeOK, NEW a, NEW ok \in BOOLEAN, DiskCmdSD("CMD55", a, ok)
  PROVE  /\ card'.state = card.state /\ card'.rca = card.rca
         /\ card'.seen8 = card.seen8 /\ card'.wide = card.wide
         /\ ok => ~sd_resp_buff'.ready /\ card'.app
         /\ ~lost' /\ card.kind # "none" /\ a = card.rca => ok
         /\ \/ card'.polls = card.polls /\ (ok => sd_resp_buff'.rfd)
            \/ card'.polls = card.polls + 1 /\ card.polls < card.need
BY App55 DEF DiskCmdSD, TypeOK

LEMMA Sent41 ==
  ASSUME TypeOK, NEW ok \in BOOLEAN, DiskCmdSD("CMD41", 0, ok), ~sd_resp_buff.ready
  PROVE  /\ card'.rca = card.rca /\ card'.seen8 = card.seen8
         /\ card'.state \in {card.state, "ready"}
         /\ ok => card.state = "idle"
         /\ ~lost' /\ card.kind # "none" /\ card.app /\ card.state = "idle" => ok
         /\ sd_resp_buff'.ready => ok /\ card'.state = "ready" /\ sd_resp_buff'.ccs = card.hc
         /\ ok /\ ~sd_resp_buff'.ready =>
              /\ card'.state = card.state
              /\ (card.hc => card.seen8) => card.polls < card.need /\ card'.polls = card.polls + 1
BY OpCond41 DEF DiskCmdSD, TypeOK

LEMMA Sent2 ==
  ASSUME TypeOK, NEW ok \in BOOLEAN, DiskCmdSD("CMD2", 0, ok)
  PROVE  /\ ok => card.state = "ready" /\ card'.state = "ident"
         /\ ~lost' /\ card.kind # "none" /\ card.state = "ready" => ok
BY Cid2 DEF DiskCmdSD, TypeOK

LEMMA Sent3 ==
  ASSUME TypeOK, NEW ok \in BOOLEAN, DiskCmdSD("CMD3", 0, ok)
  PROVE  /\ ok => card'.state = "stby" /\ card'.rca = sd_resp_buff'.rca /\ card'.rca # 0
         /\ ~lost' /\ card.kind # "none" /\ card.state = "ident" => ok
BY Rca3 DEF DiskCmdSD, TypeOK

LEMMA SentDeselect ==
  ASSUME TypeOK, card.state = "stby", card.rca # 0,
         NEW ok \in BOOLEAN, DiskCmdSD("CMD7", 0, ok)
  PROVE  sd_resp_buff' = sd_resp_buff /\ card'.state = "stby" /\ card'.rca = card.rca
BY Deselect7 DEF DiskCmdSD, TypeOK

LEMMA Sent9 ==
  ASSUME TypeOK, card.state = "stby", NEW ok \in BOOLEAN, DiskCmdSD("CMD9", card.rca, ok)
  PROVE  /\ card'.state = "stby" /\ card'.rca = card.rca
         /\ ~lost' /\ card.kind # "none" => ok
BY Csd9 DEF DiskCmdSD, TypeOK

LEMMA Sent7 ==
  ASSUME TypeOK, card.state = "stby", NEW ok \in BOOLEAN, DiskCmdSD("CMD7", card.rca, ok)
  PROVE  /\ card'.rca = card.rca
         /\ ok => card'.state = "tran"
         /\ ~lost' /\ card.kind # "none" => ok
BY Select7 DEF DiskCmdSD, TypeOK

LEMMA Sent6 ==
  ASSUME TypeOK, card.state = "tran", NEW ok \in BOOLEAN, DiskCmdSD("CMD6", 2, ok)
  PROVE  /\ card'.rca = card.rca /\ card'.state = "tran"
         /\ ok => card'.wide
         /\ ~lost' /\ card.kind # "none" /\ card.app => ok
BY Width6 DEF DiskCmdSD, TypeOK

\* Where FollowInv starts.
LEMMA FollowInit == Init => FollowInv
<1> SUFFICES ASSUME Init PROVE FollowInv
  OBVIOUS
<1>0. 0 \in 0 .. ReadyMax /\ 0 \in {0} \cup Rcas /\ 0 \in 0 .. WaitMax + 1
  BY WaitAssumption
<1>1. /\ card \in Cards /\ (card.hc => card.kind = "V2")
      /\ pc = "idle" /\ disk_card_type = {} /\ i = 0 /\ rca = 0 /\ sd_resp_buff = Status
      /\ speed = "LO" /\ ret = "none" /\ lost = FALSE
  BY <1>0 DEF Init, Cards
<1>2. TypeOK
  BY <1>0, <1>1, AnswerTypes DEF TypeOK
<1> QED
  BY <1>1, <1>2 DEF FollowInv, RcaIsPublished, FastOnlyWhenSelected

\* Every step of diskInitSD and of the card keeps FollowInv.
LEMMA FollowStep == FollowInv /\ Next => FollowInv'
<1> SUFFICES ASSUME FollowInv, Next PROVE FollowInv'
  OBVIOUS
<1> USE DEF Return
<1>0. TypeOK /\ WaitMax \in Nat /\ WaitMax > 0
  BY WaitAssumption DEF FollowInv
<1>1. CASE Call
  BY <1>1 DEF Call, FollowInv, TypeOK, RcaIsPublished, FastOnlyWhenSelected
<1>2. CASE Reset
  BY <1>0, <1>2, ExchangeTypes DEF Reset, FollowInv, TypeOK, RcaIsPublished,
     FastOnlyWhenSelected, Fixed
<1>3. CASE SendIfCond
  BY <1>0, <1>3, ExchangeTypes DEF SendIfCond, FollowInv, TypeOK, RcaIsPublished,
     FastOnlyWhenSelected, Fixed
<1>4. CASE PollApp
  BY <1>0, <1>4, ExchangeTypes, Sent55 DEF PollApp, FollowInv, TypeOK, RcaIsPublished,
     FastOnlyWhenSelected, Fixed
<1>5. CASE PollV2
  BY <1>0, <1>5, ExchangeTypes, Sent41 DEF PollV2, FollowInv, TypeOK, RcaIsPublished,
     FastOnlyWhenSelected, Fixed
<1>6. CASE PollV1
  <2>1. PICK ok \in BOOLEAN :
          /\ DiskCmdSD("CMD41", 0, ok)
          /\ \/ ~ok /\ pc' = "idle" /\ ret' = "error" /\ i' = i
             \/ ok /\ sd_resp_buff'.ready /\ i = WaitMax /\ pc' = "idle" /\ ret' = "error" /\ i' = i
             \/ ok /\ sd_resp_buff'.ready /\ i # WaitMax /\ pc' = "type" /\ UNCHANGED <<i, ret>>
             \/ /\ ok /\ ~sd_resp_buff'.ready
                /\ i' = i + 1 /\ pc' = (IF i < WaitMax THEN "poll" ELSE "type") /\ ret' = ret
    BY <1>6 DEF PollV1
  <2>2. /\ pc = "poll41" /\ disk_card_type = {} /\ ~sd_resp_buff.ready
        /\ UNCHANGED <<disk_card_type, rca, speed>>
    BY <1>6 DEF PollV1, FollowInv
  <2>3. TypeOK'
    BY <1>0, <2>1, <2>2, ExchangeTypes DEF FollowInv, TypeOK
  <2> QED
    BY <1>0, <2>1, <2>2, <2>3, ExchangeTypes, Sent41 DEF FollowInv, RcaIsPublished,
       FastOnlyWhenSelected, TypeOK, Fixed
<1>7. CASE FindType
  BY <1>0, <1>7 DEF FindType, FollowInv, TypeOK, RcaIsPublished, FastOnlyWhenSelected
<1>8. CASE SendCid
  BY <1>0, <1>8, ExchangeTypes, Sent2 DEF SendCid, Required, FollowInv, TypeOK, RcaIsPublished,
     FastOnlyWhenSelected, Fixed
<1>9. CASE SendRca
  BY <1>0, <1>9, ExchangeTypes, Sent3 DEF SendRca, Required, FollowInv, TypeOK, RcaIsPublished,
     FastOnlyWhenSelected, Fixed
<1>10. CASE Deselect
  <2>1. pc = "deselect" /\ card.state = "stby" /\ sd_resp_buff.rca = card.rca /\ card.rca # 0
    BY <1>10 DEF Deselect, FollowInv
  <2>2. /\ card' \in Cards /\ sd_resp_buff' = sd_resp_buff /\ lost' \in BOOLEAN
        /\ card'.state = "stby" /\ card'.rca = card.rca /\ Fixed(card, card')
    BY <1>0, <1>10, <2>1, ExchangeTypes, SentDeselect DEF Deselect
  <2>3. rca' = card.rca /\ card.rca \in Rcas
    BY <1>0, <1>10, <2>1, <2>2 DEF Deselect, TypeOK, Cards
  <2>4. TypeOK'
    BY <1>10, <2>2, <2>3 DEF Deselect, FollowInv, TypeOK
  <2> QED
    BY <1>10, <2>1, <2>2, <2>3, <2>4 DEF Deselect, FollowInv, RcaIsPublished,
       FastOnlyWhenSelected, Fixed
<1>11. CASE SendCsd
  BY <1>0, <1>11, ExchangeTypes, Sent9 DEF SendCsd, Required, FollowInv, TypeOK, RcaIsPublished,
     FastOnlyWhenSelected, Fixed
<1>12. CASE Select
  BY <1>0, <1>12, ExchangeTypes, Sent7 DEF Select, Required, FollowInv, TypeOK, RcaIsPublished,
     FastOnlyWhenSelected, Fixed
<1>13. CASE WidthApp
  BY <1>0, <1>13, ExchangeTypes, Sent55 DEF WidthApp, Required, FollowInv, TypeOK, RcaIsPublished,
     FastOnlyWhenSelected, Fixed
<1>14. CASE SetWidth
  BY <1>0, <1>14, ExchangeTypes, Sent6 DEF SetWidth, FollowInv, TypeOK, RcaIsPublished,
     FastOnlyWhenSelected, Fixed
<1> QED
  BY <1>1, <1>2, <1>3, <1>4, <1>5, <1>6, <1>7, <1>8, <1>9, <1>10, <1>11, <1>12, <1>13, <1>14
     DEF Next, DriverStep

\* A step that nothing is lost on comes from a call on which nothing was lost,
\* except the call itself.
LEMMA CleanStep == FollowInv /\ CleanInv /\ Next => CleanInv'
<1> SUFFICES ASSUME FollowInv, CleanInv, Next, InTime' PROVE CleanInv'
  BY DEF CleanInv
<1> USE DEF Return
<1>0. TypeOK /\ WaitMax \in Nat /\ WaitMax > 0
  BY WaitAssumption DEF FollowInv
<1>a. card.polls \in Nat /\ card.need \in Nat
  BY <1>0, CardCounts DEF TypeOK
<1>1. CASE Call
  BY <1>1 DEF Call, CleanInv
<1> HIDE DEF Return
<1>b. ASSUME DriverStep PROVE InTime /\ Fixed(card, card')
  <2>1. CASE \E m, a : \E ok \in BOOLEAN : DiskCmdSD(m, a, ok)
    BY <1>0, <2>1, ExchangeTypes DEF InTime, Fixed, TypeOK
  <2>2. CASE FindType
    BY <2>2 DEF FindType, InTime, Fixed
  <2> QED
    BY <1>b, <2>1, <2>2 DEF DriverStep, Reset, SendIfCond, PollApp, PollV2, PollV1, SendCid,
       SendRca, Deselect, SendCsd, Select, WidthApp, SetWidth, Required
<1> USE DEF Return
<1>2. CASE Reset
  BY <1>0, <1>b, <1>2, Sent0 DEF DriverStep, Reset, CleanInv, InTime
<1>3. CASE SendIfCond
  <2>1. card.kind \in {"V1", "V2"} /\ (card.hc => card.kind = "V2")
    BY <1>0, <1>b, <1>3 DEF DriverStep, FollowInv, InTime, TypeOK, Cards
  <2>2. /\ card.state = "idle" /\ card.rca = 0 /\ card.polls = 0
        /\ pc' = "poll" /\ i' = 0
    BY <1>b, <1>3 DEF DriverStep, SendIfCond, CleanInv
  <2>3. PICK ok \in BOOLEAN : DiskCmdSD("CMD8", 0, ok)
    BY <1>3 DEF SendIfCond
  <2>4. /\ card'.state = "idle" /\ card'.rca = 0 /\ card'.polls = 0
        /\ card.kind = "V2" => card'.seen8
    BY <1>0, <2>2, <2>3, Sent8 DEF InTime
  <2> QED
    BY <1>a, <1>b, <1>3, <2>1, <2>2, <2>4 DEF DriverStep, CleanInv, Fixed
<1>4. CASE PollApp
  BY <1>0, <1>a, <1>b, <1>4, Sent55 DEF DriverStep, PollApp, CleanInv, InTime, Fixed, TypeOK
<1>5. CASE PollV2
  BY <1>0, <1>a, <1>b, <1>5, Sent41 DEF DriverStep, PollV2, CleanInv, FollowInv, InTime, Fixed, TypeOK
<1>6. CASE PollV1
  <2>1. PICK ok \in BOOLEAN :
          /\ DiskCmdSD("CMD41", 0, ok)
          /\ \/ ~ok
             \/ ok /\ sd_resp_buff'.ready /\ i = WaitMax
             \/ ok /\ sd_resp_buff'.ready /\ pc' = "type"
             \/ /\ ok /\ ~sd_resp_buff'.ready
                /\ i' = i + 1 /\ pc' = (IF i < WaitMax THEN "poll" ELSE "type")
    BY <1>6 DEF PollV1
  <2>i. i \in Nat
    BY <1>0 DEF TypeOK
  <2>p. pc = "poll41" /\ ~sd_resp_buff.ready
    BY <1>6 DEF PollV1, FollowInv
  <2>2. /\ card.state = "idle" /\ card.rca = 0 /\ card.app
        /\ i <= card.polls /\ card.polls <= card.need /\ card.need < WaitMax
        /\ card.hc => card.seen8
    BY <1>b, <1>6, <2>p DEF DriverStep, CleanInv, InTime
  <2>3. /\ ok
        /\ sd_resp_buff'.ready => card'.state = "ready"
        /\ card'.rca = 0 /\ card'.seen8 = card.seen8
        /\ ~sd_resp_buff'.ready =>
             card'.state = "idle" /\ card.polls < card.need /\ card'.polls = card.polls + 1
    BY <1>0, <1>b, <1>6, <2>1, <2>p, <2>2, Sent41 DEF DriverStep, InTime
  <2>4. card'.need = card.need /\ card'.hc = card.hc
    BY <1>b, <1>6 DEF DriverStep, Fixed
  <2>5. CASE sd_resp_buff'.ready
    <3>1. i # WaitMax
      BY <1>0, <1>a, <2>i, <2>2
    <3>2. pc' = "type"
      BY <2>1, <2>3, <2>5, <3>1
    <3> QED
      BY <2>3, <2>5, <3>2 DEF CleanInv
  <2>6. CASE ~sd_resp_buff'.ready
    <3>1. i < WaitMax /\ i + 1 <= card.polls + 1 /\ card.polls + 1 <= card.need
      BY <1>0, <1>a, <2>i, <2>2, <2>3, <2>6
    <3>2. pc' = "poll" /\ i' = i + 1
      BY <2>1, <2>3, <2>6, <3>1
    <3> QED
      BY <2>2, <2>3, <2>4, <2>6, <3>1, <3>2 DEF CleanInv
  <2> QED
    BY <2>5, <2>6
<1>7. CASE FindType
  BY <1>b, <1>7 DEF DriverStep, FindType, CleanInv
<1>8. CASE SendCid
  BY <1>0, <1>b, <1>8, Sent2 DEF DriverStep, SendCid, Required, CleanInv, InTime
<1>9. CASE SendRca
  BY <1>0, <1>b, <1>9, Sent3 DEF DriverStep, SendRca, Required, CleanInv, FollowInv, InTime
<1>10. CASE Deselect
  BY <1>b, <1>10 DEF Deselect, CleanInv
<1>11. CASE SendCsd
  BY <1>0, <1>b, <1>11, Sent9 DEF DriverStep, SendCsd, Required, CleanInv, FollowInv,
     RcaIsPublished, InTime
<1>12. CASE Select
  BY <1>0, <1>b, <1>12, Sent7 DEF DriverStep, Select, Required, CleanInv, FollowInv,
     RcaIsPublished, InTime
<1>13. CASE WidthApp
  BY <1>0, <1>b, <1>13, Sent55 DEF DriverStep, WidthApp, Required, CleanInv, FollowInv,
     RcaIsPublished, InTime
<1>14. CASE SetWidth
  BY <1>0, <1>b, <1>14, Sent6 DEF DriverStep, SetWidth, CleanInv, FollowInv, InTime
<1> QED
  BY <1>1, <1>2, <1>3, <1>4, <1>5, <1>6, <1>7, <1>8, <1>9, <1>10, <1>11, <1>12, <1>13, <1>14
     DEF Next, DriverStep

\* Neither CMD8 nor its answer is ever lost.
CMD8Kept == "CMD8" \notin LostCmds \cup LostAnswers

\* While no CMD8 is lost, every step keeps what is known of the card's type.
LEMMA TypeStep == CMD8Kept /\ FollowInv /\ TypeInv /\ Next => TypeInv'
<1> SUFFICES ASSUME CMD8Kept, FollowInv, TypeInv, Next PROVE TypeInv'
  OBVIOUS
<1> USE DEF Return
<1>0. TypeOK
  BY DEF FollowInv
<1>1. CASE Call
  BY <1>1 DEF Call, TypeInv
<1>2. CASE Reset
  BY <1>2 DEF Reset, TypeInv
<1>3. CASE SendIfCond
  BY <1>0, <1>3, ExchangeTypes, Sent8 DEF SendIfCond, TypeInv, CMD8Kept, Fixed
<1>4. CASE PollApp
  BY <1>0, <1>4, ExchangeTypes, Sent55 DEF PollApp, TypeInv, Fixed
<1>5. CASE PollV2
  BY <1>0, <1>5, ExchangeTypes, Sent41 DEF PollV2, TypeInv, FollowInv, Fixed
<1>6. CASE PollV1
  <2>1. PICK ok \in BOOLEAN : DiskCmdSD("CMD41", 0, ok) /\ (pc' # "idle" => ok)
    BY <1>6 DEF PollV1
  <2>2. pc = "poll41" /\ disk_card_type' = disk_card_type /\ pc' \in {"idle", "poll", "type"}
        /\ (pc' = "idle" => ret' = "error")
    BY <1>6 DEF PollV1
  <2>3. Fixed(card, card') /\ ~sd_resp_buff.ready
    BY <1>0, <2>1, <2>2, ExchangeTypes DEF FollowInv
  <2> HIDE DEF Return
  <2>4. /\ card'.state \in {card.state, "ready"}
        /\ ok => card.state = "idle"
        /\ sd_resp_buff'.ready => sd_resp_buff'.ccs = card.hc
        /\ ok /\ ~sd_resp_buff'.ready => card'.state = card.state
    BY <1>0, <2>1, <2>3, Sent41
  <2>5. CASE pc' = "idle"
    BY <2>2, <2>5 DEF TypeInv
  <2>6. CASE pc' # "idle"
    <3>1. ok /\ card.state = "idle" /\ (card'.state = "ready" => sd_resp_buff'.ready)
      BY <2>1, <2>4, <2>6
    <3>2. card.kind = "V2" => disk_card_type # {}
      BY <2>2, <3>1 DEF TypeInv
    <3>3. card.hc => card.kind = "V2"
      BY DEF FollowInv
    <3>4. card'.hc = card.hc /\ card'.kind = card.kind
      BY <2>3 DEF Fixed
    <3> QED
      BY <2>2, <2>4, <2>6, <3>1, <3>2, <3>3, <3>4 DEF TypeInv
  <2> QED
    BY <2>5, <2>6
<1>7. CASE FindType
  BY <1>7 DEF FindType, TypeInv, FollowInv, TypeIsTrue
<1>8. CASE SendCid
  BY <1>0, <1>8, ExchangeTypes, Sent2 DEF SendCid, Required, TypeInv, TypeIsTrue, Fixed
<1>9. CASE SendRca
  BY <1>0, <1>9, ExchangeTypes DEF SendRca, Required, TypeInv, TypeIsTrue, Fixed
<1>10. CASE Deselect
  BY <1>0, <1>10, ExchangeTypes DEF Deselect, TypeInv, TypeIsTrue, Fixed
<1>11. CASE SendCsd
  BY <1>0, <1>11, ExchangeTypes DEF SendCsd, Required, TypeInv, TypeIsTrue, Fixed
<1>12. CASE Select
  BY <1>0, <1>12, ExchangeTypes DEF Select, Required, TypeInv, TypeIsTrue, Fixed
<1>13. CASE WidthApp
  BY <1>0, <1>13, ExchangeTypes DEF WidthApp, Required, TypeInv, TypeIsTrue, Fixed
<1>14. CASE SetWidth
  BY <1>0, <1>14, ExchangeTypes DEF SetWidth, TypeInv, TypeIsTrue, Fixed
<1> QED
  BY <1>1, <1>2, <1>3, <1>4, <1>5, <1>6, <1>7, <1>8, <1>9, <1>10, <1>11, <1>12, <1>13, <1>14
     DEF Next, DriverStep

\* A step that changes nothing keeps the invariants.
LEMMA StutterStep ==
  UNCHANGED vars => /\ FollowInv => FollowInv'
                    /\ CleanInv => CleanInv'
                    /\ TypeInv => TypeInv'
BY DEF vars, driverVars, FollowInv, CleanInv, TypeInv, InTime, TypeOK, RcaIsPublished,
   FastOnlyWhenSelected, TypeIsTrue

\* Whatever is lost and whatever card is in the slot: the driver only addresses
\* a card by the address it has published, only runs the clock at full speed
\* with a card selected, and every variable keeps its type (disk.c:57-151).
THEOREM DriverFollowsCard == Spec => []FollowInv
<1>1. FollowInv /\ [Next]_vars => FollowInv'
  BY FollowStep, StutterStep
<1> QED
  BY FollowInit, <1>1, PTL DEF Spec

\* Whatever the calls before it left behind: a call on which nothing is lost
\* does not fail with a card that is ready within wait_max polls.
THEOREM CleanCallsSucceed == Spec => []CleanCallSucceeds
<1>1. Init => FollowInv /\ CleanInv
  BY FollowInit DEF Init, CleanInv
<1>2. FollowInv /\ CleanInv /\ [Next]_vars => FollowInv' /\ CleanInv'
  BY FollowStep, CleanStep, StutterStep
<1>3. FollowInv /\ CleanInv => CleanCallSucceeds
  <2> SUFFICES ASSUME FollowInv, CleanInv PROVE CleanCallSucceeds
    OBVIOUS
  <2>1. card.need \in Nat /\ WaitMax \in Nat
    BY CardCounts, WaitAssumption DEF FollowInv, TypeOK
  <2> QED
    BY <2>1 DEF CleanInv, InTime, CleanCallSucceeds
<1> QED
  BY <1>1, <1>2, <1>3, PTL DEF Spec

\* If no CMD8 is lost, all of InitInv holds: what the driver has found out
\* about the card is true as well.
THEOREM InitInvariant ==
  ASSUME CMD8Kept
  PROVE  Spec => []InitInv
<1>1. Init => InitInv
  BY FollowInit DEF Init, InitInv, CleanInv, TypeInv
<1>2. InitInv /\ [Next]_vars => InitInv'
  BY FollowStep, CleanStep, TypeStep, StutterStep DEF InitInv
<1> QED
  BY <1>1, <1>2, PTL DEF Spec

\* diskInit returns 0 only with a card selected, its bus widened, and the
\* addressing mode it really has, if no CMD8 is lost.
THEOREM InitIsSound ==
  ASSUME CMD8Kept
  PROVE  Spec => []InitSound
<1>1. InitInv => InitSound
  BY DEF InitInv, FollowInv, TypeInv, FastOnlyWhenSelected, TypeIsTrue, InitSound
<1> QED
  BY InitInvariant, <1>1, PTL
=============================================================================
