--------------------------- MODULE CardFilesProofs ---------------------------
(***************************************************************************)
(* Reads of an SD card and the files on it (modules SdCard and CardFiles), *)
(* for any number of faults and calls.                                     *)
(***************************************************************************)
EXTENDS CardFiles, SequenceTheorems, TLAPS

-----------------------------------------------------------------------------
(***************************************************************************)
(* The invariant: the card and the driver.                                 *)
(***************************************************************************)

Cards ==
  [st : {"idle", "ready", "ident", "stby", "tran", "data"},
   hc : BOOLEAN, s18 : BOOLEAN, wide : BOOLEAN]

\* Where the card has no address yet, and the driver knows of none.
Unknown ==
  {"power", "GO_IDLE_STATE", "SEND_IF_COND", "IO_SET_OP_COND", "INQUIRY", "SD_SEND_OP_COND",
   "VOLTAGE_SWITCH", "ALL_SEND_CID", "SEND_RELATIVE_ADDR"}
Selecting == {"SELECT_CARD", "SET_BLOCKLEN", "SEND_SCR", "SET_BUS_WIDTH"}
Reading == {"SEND_STATUS", "SELECT_AGAIN", "STOP_TRANSMISSION", "RECHECK", "READ"}

CardTypeOK ==
  /\ kind \in AllKinds /\ card \in Cards
  /\ rca \in BOOLEAN /\ sdhc \in BOOLEAN /\ sup18 \in BOOLEAN /\ failed18 \in BOOLEAN
  /\ wide \in BOOLEAN /\ v2 \in BOOLEAN /\ removed \in BOOLEAN
  /\ pc \in Unknown \cup Selecting \cup Reading \cup {"idle"}
  /\ after \in {"boot", "SEND_STATUS", "RECHECK"}
CountsOK == retry \in Nat /\ faults \in Nat /\ failures \in Nat

\* The states of the card in which each command is sent.
SentIn ==
  /\ pc \in {"SEND_IF_COND", "IO_SET_OP_COND", "INQUIRY", "SD_SEND_OP_COND"} => card.st = "idle"
  /\ pc \in {"VOLTAGE_SWITCH", "ALL_SEND_CID"} => card.st = "ready"
  /\ pc = "SEND_RELATIVE_ADDR" => card.st = "ident"
  /\ pc \in {"SELECT_CARD", "SELECT_AGAIN"} => card.st = "stby"
  /\ pc \in {"SET_BLOCKLEN", "SEND_SCR", "SET_BUS_WIDTH", "RECHECK"} => card.st = "tran"
  /\ pc = "STOP_TRANSMISSION" => card.st = "data"
  /\ pc = "READ" => card.st \in {"tran", "data"}

\* The driver knows an address only of a card that has one, and counts as that card does.
KnownOK ==
  /\ pc \in Unknown => ~rca
  /\ pc \in Selecting \cup Reading => rca
  /\ rca => card.st \in {"stby", "tran", "data"}
  /\ rca \/ pc \in {"VOLTAGE_SWITCH", "ALL_SEND_CID", "SEND_RELATIVE_ADDR"} => sdhc = card.hc

PlaceOK ==
  /\ SentIn
  /\ pc \in Unknown \cup Selecting /\ pc # "power" => ~wide
  /\ pc \in Unknown \cup Selecting /\ pc \notin {"power", "GO_IDLE_STATE"} => ~card.wide
  /\ pc \notin {"READ", "idle"} => retry = 0
  /\ ReadyForData

\* A failure to come: only one side is in 4-bit mode, or a try was lost.
Owed == (rca /\ card.wide # wide) \/ (pc = "READ" /\ retry > 0)
DebtOK == ~removed => failures <= faults /\ (Owed => failures < faults)

CardInv == CardTypeOK /\ CountsOK /\ KnownOK /\ PlaceOK /\ DebtOK

-----------------------------------------------------------------------------
(***************************************************************************)
(* Commands.                                                               *)
(***************************************************************************)

\* What the card becomes is a card.
LEMMA DoneIsCard ==
  ASSUME CardTypeOK, NEW c
  PROVE  Done(c) \in Cards
<1>1. Reset \in Cards BY DEF Reset, Cards
<1>2. /\ card \in Cards /\ [card EXCEPT !.wide = TRUE] \in Cards
      /\ \A st \in {"ident", "stby", "tran", "data"} : [card EXCEPT !.st = st] \in Cards
  BY DEF CardTypeOK, Cards
<1>3. \A hc, s18 \in BOOLEAN : [card EXCEPT !.st = "ready", !.hc = hc, !.s18 = s18] \in Cards
  BY DEF CardTypeOK, Cards
<1>4. (kind \in HighCapacity) \in BOOLEAN /\ (v2 /\ ~failed18 /\ kind = "uhs") \in BOOLEAN
  OBVIOUS
<1>5. [card EXCEPT !.st = "ready", !.hc = kind \in HighCapacity,
                   !.s18 = v2 /\ ~failed18 /\ kind = "uhs"] \in Cards
  BY <1>3, <1>4
<1> QED BY <1>1, <1>2, <1>5 DEF Done

\* A command ends well only if the card takes it and the data arrives; one that ends
\* otherwise was refused for a card that is gone, or costs a fault, or the card could not
\* take it, or only one side is in 4-bit mode.
LEMMA SentFacts ==
  ASSUME CardTypeOK, CountsOK, NEW c, NEW out \in Outs, Sent(c, out)
  PROVE  /\ pc = c /\ kind' = kind /\ removed' = removed
         /\ card' \in Cards /\ card' \in {card, Done(c)} /\ (~Takes(c) \/ removed => card' = card)
         /\ faults' \in {faults, faults + 1}
         /\ out = "ok" => card' = Done(c) /\ Takes(c) /\ faults' = faults /\ ~removed
         /\ out = "bad" => card' = Done(c) /\ Takes(c) /\ c \in Checked
         /\ out = "refused" => removed
         /\ out # "ok" /\ ~removed /\ faults' = faults =>
              \/ ~Takes(c) /\ card' = card /\ out = "cmd_timeout"
              \/ Garbled(c) /\ card' = Done(c) /\ out = "error"
         /\ err' = IF out \in {"ok", "refused", "bad"} THEN err ELSE out
<1>1. card \in Cards /\ Done(c) \in Cards /\ faults \in Nat BY DoneIsCard DEF CardTypeOK, CountsOK
<1>2. pc = c /\ kind' = kind /\ removed' = removed
      /\ err' = (IF out \in {"ok", "refused", "bad"} THEN err ELSE out)
  BY DEF Sent
<1>3. CASE \E e \in Ends(c) : e.out = out /\ card' = e.card /\ faults' = faults
  <2>1. PICK e \in Ends(c) : e.out = out /\ card' = e.card /\ faults' = faults BY <1>3
  <2>2. CASE removed
    <3>1. out = "refused" /\ card' = card BY <2>1, <2>2 DEF Ends
    <3> QED BY <1>1, <1>2, <2>1, <2>2, <3>1
  <2>3. CASE ~removed /\ ~Takes(c)
    <3>1. out = "cmd_timeout" /\ card' = card BY <2>1, <2>3 DEF Ends
    <3> QED BY <1>1, <1>2, <2>1, <2>3, <3>1
  <2>4. CASE ~removed /\ Takes(c) /\ Garbled(c)
    <3>1. out = "error" /\ card' = Done(c) BY <2>1, <2>4 DEF Ends
    <3> QED BY <1>1, <1>2, <2>1, <2>4, <3>1
  <2>5. CASE ~removed /\ Takes(c) /\ ~Garbled(c)
    <3>1. out = "ok" /\ card' = Done(c) BY <2>1, <2>5 DEF Ends
    <3> QED BY <1>1, <1>2, <2>1, <2>5, <3>1
  <2> QED BY <2>2, <2>3, <2>4, <2>5
<1>4. CASE \E e \in Faults(c) : e.out = out /\ card' = e.card /\ faults' = faults + 1
  <2>1. PICK e \in Faults(c) : e.out = out /\ card' = e.card /\ faults' = faults + 1 BY <1>4
  <2>2. ~removed BY <2>1 DEF Faults
  <2>3. \/ e \in [out : {"timeout", "cmd_timeout", "error"},
                  card : {card} \cup IF Takes(c) THEN {Done(c)} ELSE {}]
        \/ Takes(c) /\ c \in Checked /\ e \in [out : {"bad"}, card : {Done(c)}]
    BY <2>1 DEF Faults
  <2>4. faults' # faults BY <1>1, <2>1
  <2>5. CASE e \in [out : {"timeout", "cmd_timeout", "error"},
                    card : {card} \cup IF Takes(c) THEN {Done(c)} ELSE {}]
    <3>1. /\ e.out \in {"timeout", "cmd_timeout", "error"}
          /\ e.card \in {card} \cup IF Takes(c) THEN {Done(c)} ELSE {}
      BY <2>5
    <3> QED BY <1>1, <1>2, <2>1, <2>2, <2>4, <3>1
  <2>6. CASE Takes(c) /\ c \in Checked /\ e \in [out : {"bad"}, card : {Done(c)}]
    <3>1. e.out = "bad" /\ e.card = Done(c) BY <2>6
    <3> QED BY <1>1, <1>2, <2>1, <2>2, <2>4, <2>6, <3>1
  <2> QED BY <2>3, <2>5, <2>6
<1> QED BY <1>3, <1>4 DEF Sent

\* Where the driver goes on, and what it counts.
LEMMA ControlFacts ==
  /\ \A c : Goto(c) => pc' = c /\ after' = after /\ retry' = retry /\ failures' = failures
  /\ Returns => pc' = "idle" /\ after' = after /\ retry' = retry /\ failures' = failures
  /\ Fails => pc' = "idle" /\ after' = after /\ retry' = retry /\ failures' = failures + 1
  /\ InitFails => /\ pc' = "idle" /\ after' = after /\ retry' = retry
                  /\ failures' = failures \/ failures' = failures + 1
BY DEF Goto, Returns, Fails, InitFails

\* A failure is paid for by a fault of this step, or by one that was owed.
LEMMA Paid ==
  ASSUME CountsOK, DebtOK, removed' = removed, retry' \in {retry, retry + 1, 0},
         faults' = faults \/ faults' = faults + 1,
         failures' = failures \/ failures' = failures + 1,
         failures' = failures \/ (~Owed' /\ (removed \/ Owed \/ faults' = faults + 1)),
         Owed' => removed \/ Owed \/ faults' = faults + 1
  PROVE  CountsOK' /\ DebtOK'
<1>1. CountsOK' BY DEF CountsOK
<1>2. CASE removed BY <1>1, <1>2 DEF DebtOK
<1>3. CASE ~removed
  <2>1. failures <= faults /\ (Owed => failures < faults) BY <1>3 DEF DebtOK
  <2>2. failures' = failures \/ (~Owed' /\ (Owed \/ faults' = faults + 1)) BY <1>3
  <2>3. Owed' => Owed \/ faults' = faults + 1 BY <1>3
  <2>4. failures' <= faults' /\ (Owed' => failures' < faults')
    BY <2>1, <2>2, <2>3 DEF CountsOK
  <2> QED BY <1>1, <2>4 DEF DebtOK
<1> QED BY <1>2, <1>3

-----------------------------------------------------------------------------
(***************************************************************************)
(* sd_card_init.                                                           *)
(***************************************************************************)

\* The controller is reset and the card may have lost its power.
LEMMA PowerInv ==
  ASSUME CardInv, Power
  PROVE  CardInv'
<1>1. CardTypeOK /\ CountsOK /\ KnownOK /\ PlaceOK /\ DebtOK BY DEF CardInv
<1>2. /\ pc = "power" /\ card' \in {card, Reset} /\ wide' = FALSE
      /\ kind' = kind /\ rca' = rca /\ sdhc' = sdhc /\ sup18' = sup18 /\ failed18' = failed18
      /\ v2' = v2 /\ removed' = removed
      /\ \/ ~removed /\ Goto("GO_IDLE_STATE") /\ faults' = faults
         \/ faults' = faults + 1 /\ InitFails
         \/ removed /\ InitFails /\ faults' = faults
  BY DEF Power
<1>3. /\ pc' \in {"GO_IDLE_STATE", "idle"} /\ after' = after /\ retry' = retry
      /\ failures' = failures \/ failures' = failures + 1
      /\ faults' = faults \/ faults' = faults + 1
      /\ failures' = failures \/ removed \/ faults' = faults + 1
  BY <1>2, ControlFacts
<1>4. Reset \in Cards BY DEF Reset, Cards
<1>5. CardTypeOK' BY <1>1, <1>2, <1>3, <1>4 DEF CardTypeOK, Unknown
<1>6. ~rca /\ ~rca' /\ retry = 0 BY <1>1, <1>2 DEF KnownOK, PlaceOK, Unknown
<1>7. KnownOK' BY <1>3, <1>6 DEF KnownOK, Selecting, Reading
<1>8. PlaceOK' BY <1>2, <1>3, <1>6 DEF PlaceOK, SentIn, ReadyForData, Unknown, Selecting
<1>9. ~Owed' BY <1>3, <1>6 DEF Owed
<1>10. CountsOK' /\ DebtOK' BY <1>1, <1>2, <1>3, <1>9, Paid
<1> QED BY <1>5, <1>7, <1>8, <1>10 DEF CardInv

\* The card is reset.
LEMMA GoIdleInv ==
  ASSUME CardInv, GoIdle
  PROVE  CardInv'
<1>1. CardTypeOK /\ CountsOK /\ KnownOK /\ PlaceOK /\ DebtOK BY DEF CardInv
<1> DEFINE c == "GO_IDLE_STATE"
<1>2. PICK out \in Outs : Sent(c, out) /\ Then("SEND_IF_COND", out) BY DEF GoIdle
<1>3. Takes(c) /\ Done(c) = Reset /\ ~Garbled(c) BY DEF Takes, Done, Garbled
<1>4. /\ pc = c /\ kind' = kind /\ removed' = removed /\ card' \in Cards
      /\ faults' = faults \/ faults' = faults + 1
      /\ out = "ok" => card' = Reset
      /\ out # "ok" => removed \/ faults' = faults + 1
  BY <1>1, <1>2, <1>3, SentFacts
<1>5. /\ after' = after /\ retry' = retry
      /\ failures' = failures \/ failures' = failures + 1
      /\ IF out = "ok" THEN pc' = "SEND_IF_COND" /\ failures' = failures ELSE pc' = "idle"
      /\ rca' = rca /\ sdhc' = sdhc /\ sup18' = sup18 /\ failed18' = failed18 /\ v2' = v2
      /\ wide' = wide
  BY <1>2, ControlFacts DEF Then, mode
<1>6. CardTypeOK' BY <1>1, <1>4, <1>5 DEF CardTypeOK, Unknown
<1>7. ~rca /\ ~rca' /\ ~wide /\ retry = 0 BY <1>1, <1>4, <1>5 DEF KnownOK, PlaceOK, Unknown
<1>8. KnownOK' BY <1>5, <1>7 DEF KnownOK, Selecting, Reading
<1>9. PlaceOK'
  BY <1>4, <1>5, <1>7 DEF PlaceOK, SentIn, ReadyForData, Unknown, Selecting, Reset
<1>10. ~Owed' BY <1>5, <1>7 DEF Owed
<1>11. CountsOK' /\ DebtOK' BY <1>1, <1>4, <1>5, <1>10, Paid
<1> QED BY <1>6, <1>8, <1>9, <1>11 DEF CardInv

\* The card is asked for its voltages.
LEMMA InquiryInv ==
  ASSUME CardInv, Inquiry
  PROVE  CardInv'
<1>1. CardTypeOK /\ CountsOK /\ KnownOK /\ PlaceOK /\ DebtOK BY DEF CardInv
<1> DEFINE c == "INQUIRY"
<1>2. PICK out \in Outs : Sent(c, out) /\ Then("SD_SEND_OP_COND", out) BY DEF Inquiry
<1>3. pc = c BY <1>2 DEF Sent
<1>4. /\ ~rca /\ ~wide /\ ~card.wide /\ retry = 0 /\ SentIn
  BY <1>1, <1>3 DEF KnownOK, PlaceOK, Unknown, Selecting
<1>4a. card.wide = wide BY <1>1, <1>4 DEF CardTypeOK, Cards
<1>5. Takes(c) /\ Done(c) = card /\ ~Garbled(c)
  BY <1>4a, <1>3, <1>4 DEF Takes, Done, Garbled, SentIn
<1>6. /\ kind' = kind /\ removed' = removed /\ card' \in Cards /\ card' = card
      /\ faults' = faults \/ faults' = faults + 1
      /\ out # "ok" => removed \/ faults' = faults + 1
  BY <1>1, <1>2, <1>5, SentFacts
<1>7. /\ after' = after /\ retry' = retry
      /\ failures' = failures \/ failures' = failures + 1
      /\ IF out = "ok" THEN pc' = "SD_SEND_OP_COND" /\ failures' = failures ELSE pc' = "idle"
      /\ rca' = rca /\ sdhc' = sdhc /\ sup18' = sup18 /\ failed18' = failed18 /\ v2' = v2
      /\ wide' = wide
  BY <1>2, ControlFacts DEF Then, mode
<1>8. CardTypeOK' BY <1>1, <1>6, <1>7 DEF CardTypeOK, Unknown, Selecting
<1>9. card'.wide = card.wide /\ card'.hc = card.hc /\ (card' = card \/ card'.st = "idle")
  BY <1>1, <1>6 DEF CardTypeOK, Cards
<1>10. KnownOK'
  BY <1>1, <1>3, <1>4, <1>6, <1>7, <1>9 DEF KnownOK, SentIn, Unknown, Selecting, Reading
<1>11. out = "ok" => card'.st = "idle"
  BY <1>1, <1>3, <1>4, <1>6 DEF CardTypeOK, Cards, SentIn
<1>12. PlaceOK'
  BY <1>3, <1>4, <1>7, <1>9, <1>11 DEF PlaceOK, SentIn, ReadyForData, Unknown, Selecting
<1>13. ~Owed' BY <1>4a, <1>4, <1>7, <1>9 DEF Owed
<1>14. CountsOK' /\ DebtOK' BY <1>1, <1>6, <1>7, <1>13, Paid
<1> QED BY <1>8, <1>10, <1>12, <1>14 DEF CardInv

\* The card is asked to identify itself.
LEMMA AllSendCidInv ==
  ASSUME CardInv, AllSendCid
  PROVE  CardInv'
<1>1. CardTypeOK /\ CountsOK /\ KnownOK /\ PlaceOK /\ DebtOK BY DEF CardInv
<1> DEFINE c == "ALL_SEND_CID"
<1>2. PICK out \in Outs : Sent(c, out) /\ Then("SEND_RELATIVE_ADDR", out) BY DEF AllSendCid
<1>3. pc = c BY <1>2 DEF Sent
<1>4. /\ ~rca /\ ~wide /\ ~card.wide /\ retry = 0 /\ SentIn
  BY <1>1, <1>3 DEF KnownOK, PlaceOK, Unknown, Selecting
<1>4a. card.wide = wide BY <1>1, <1>4 DEF CardTypeOK, Cards
<1>5. Takes(c) /\ Done(c) = [card EXCEPT !.st = "ident"] /\ ~Garbled(c)
  BY <1>4a, <1>3, <1>4 DEF Takes, Done, Garbled, SentIn
<1>6. /\ kind' = kind /\ removed' = removed /\ card' \in Cards /\ card' \in {card, [card EXCEPT !.st = "ident"]}
      /\ faults' = faults \/ faults' = faults + 1
      /\ out = "ok" => card' = [card EXCEPT !.st = "ident"]
      /\ out # "ok" => removed \/ faults' = faults + 1
  BY <1>1, <1>2, <1>5, SentFacts
<1>7. /\ after' = after /\ retry' = retry
      /\ failures' = failures \/ failures' = failures + 1
      /\ IF out = "ok" THEN pc' = "SEND_RELATIVE_ADDR" /\ failures' = failures ELSE pc' = "idle"
      /\ rca' = rca /\ sdhc' = sdhc /\ sup18' = sup18 /\ failed18' = failed18 /\ v2' = v2
      /\ wide' = wide
  BY <1>2, ControlFacts DEF Then, mode
<1>8. CardTypeOK' BY <1>1, <1>6, <1>7 DEF CardTypeOK, Unknown, Selecting
<1>9. card'.wide = card.wide /\ card'.hc = card.hc /\ (card' = card \/ card'.st = "ident")
  BY <1>1, <1>6 DEF CardTypeOK, Cards
<1>10. KnownOK'
  BY <1>1, <1>3, <1>4, <1>6, <1>7, <1>9 DEF KnownOK, SentIn, Unknown, Selecting, Reading
<1>11. out = "ok" => card'.st = "ident"
  BY <1>1, <1>3, <1>4, <1>6 DEF CardTypeOK, Cards, SentIn
<1>12. PlaceOK'
  BY <1>3, <1>4, <1>7, <1>9, <1>11 DEF PlaceOK, SentIn, ReadyForData, Unknown, Selecting
<1>13. ~Owed' BY <1>4a, <1>4, <1>7, <1>9 DEF Owed
<1>14. CountsOK' /\ DebtOK' BY <1>1, <1>6, <1>7, <1>13, Paid
<1> QED BY <1>8, <1>10, <1>12, <1>14 DEF CardInv

\* The card is selected.
LEMMA SelectCardInv ==
  ASSUME CardInv, SelectCard
  PROVE  CardInv'
<1>1. CardTypeOK /\ CountsOK /\ KnownOK /\ PlaceOK /\ DebtOK BY DEF CardInv
<1> DEFINE c == "SELECT_CARD"
<1>2. PICK out \in Outs : Sent(c, out) /\ Then(IF sdhc THEN "SEND_SCR" ELSE "SET_BLOCKLEN", out) BY DEF SelectCard
<1>3. pc = c BY <1>2 DEF Sent
<1>4. /\ rca /\ ~wide /\ ~card.wide /\ retry = 0 /\ SentIn
  BY <1>1, <1>3 DEF KnownOK, PlaceOK, Unknown, Selecting
<1>4a. card.wide = wide BY <1>1, <1>4 DEF CardTypeOK, Cards
<1>5. Takes(c) /\ Done(c) = [card EXCEPT !.st = "tran"] /\ ~Garbled(c)
  BY <1>4a, <1>3, <1>4 DEF Takes, Done, Garbled, SentIn
<1>6. /\ kind' = kind /\ removed' = removed /\ card' \in Cards /\ card' \in {card, [card EXCEPT !.st = "tran"]}
      /\ faults' = faults \/ faults' = faults + 1
      /\ out = "ok" => card' = [card EXCEPT !.st = "tran"]
      /\ out # "ok" => removed \/ faults' = faults + 1
  BY <1>1, <1>2, <1>5, SentFacts
<1>7. /\ after' = after /\ retry' = retry
      /\ failures' = failures \/ failures' = failures + 1
      /\ IF out = "ok" THEN pc' \in {"SEND_SCR", "SET_BLOCKLEN"} /\ failures' = failures ELSE pc' = "idle"
      /\ rca' = rca /\ sdhc' = sdhc /\ sup18' = sup18 /\ failed18' = failed18 /\ v2' = v2
      /\ wide' = wide
  BY <1>2, ControlFacts DEF Then, mode
<1>8. CardTypeOK' BY <1>1, <1>6, <1>7 DEF CardTypeOK, Unknown, Selecting
<1>9. card'.wide = card.wide /\ card'.hc = card.hc /\ (card' = card \/ card'.st = "tran")
  BY <1>1, <1>6 DEF CardTypeOK, Cards
<1>10. KnownOK'
  BY <1>1, <1>3, <1>4, <1>6, <1>7, <1>9 DEF KnownOK, SentIn, Unknown, Selecting, Reading
<1>11. out = "ok" => card'.st = "tran"
  BY <1>1, <1>3, <1>4, <1>6 DEF CardTypeOK, Cards, SentIn
<1>12. PlaceOK'
  BY <1>3, <1>4, <1>7, <1>9, <1>11 DEF PlaceOK, SentIn, ReadyForData, Unknown, Selecting
<1>13. ~Owed' BY <1>4a, <1>4, <1>7, <1>9 DEF Owed
<1>14. CountsOK' /\ DebtOK' BY <1>1, <1>6, <1>7, <1>13, Paid
<1> QED BY <1>8, <1>10, <1>12, <1>14 DEF CardInv

\* A card that counts in bytes is told the length of a block.
LEMMA SetBlocklenInv ==
  ASSUME CardInv, SetBlocklen
  PROVE  CardInv'
<1>1. CardTypeOK /\ CountsOK /\ KnownOK /\ PlaceOK /\ DebtOK BY DEF CardInv
<1> DEFINE c == "SET_BLOCKLEN"
<1>2. PICK out \in Outs : Sent(c, out) /\ Then("SEND_SCR", out) BY DEF SetBlocklen
<1>3. pc = c BY <1>2 DEF Sent
<1>4. /\ rca /\ ~wide /\ ~card.wide /\ retry = 0 /\ SentIn
  BY <1>1, <1>3 DEF KnownOK, PlaceOK, Unknown, Selecting
<1>4a. card.wide = wide BY <1>1, <1>4 DEF CardTypeOK, Cards
<1>5. Takes(c) /\ Done(c) = card /\ ~Garbled(c)
  BY <1>4a, <1>3, <1>4 DEF Takes, Done, Garbled, SentIn
<1>6. /\ kind' = kind /\ removed' = removed /\ card' \in Cards /\ card' = card
      /\ faults' = faults \/ faults' = faults + 1
      /\ out # "ok" => removed \/ faults' = faults + 1
  BY <1>1, <1>2, <1>5, SentFacts
<1>7. /\ after' = after /\ retry' = retry
      /\ failures' = failures \/ failures' = failures + 1
      /\ IF out = "ok" THEN pc' = "SEND_SCR" /\ failures' = failures ELSE pc' = "idle"
      /\ rca' = rca /\ sdhc' = sdhc /\ sup18' = sup18 /\ failed18' = failed18 /\ v2' = v2
      /\ wide' = wide
  BY <1>2, ControlFacts DEF Then, mode
<1>8. CardTypeOK' BY <1>1, <1>6, <1>7 DEF CardTypeOK, Unknown, Selecting
<1>9. card'.wide = card.wide /\ card'.hc = card.hc /\ (card' = card \/ card'.st = "tran")
  BY <1>1, <1>6 DEF CardTypeOK, Cards
<1>10. KnownOK'
  BY <1>1, <1>3, <1>4, <1>6, <1>7, <1>9 DEF KnownOK, SentIn, Unknown, Selecting, Reading
<1>11. out = "ok" => card'.st = "tran"
  BY <1>1, <1>3, <1>4, <1>6 DEF CardTypeOK, Cards, SentIn
<1>12. PlaceOK'
  BY <1>3, <1>4, <1>7, <1>9, <1>11 DEF PlaceOK, SentIn, ReadyForData, Unknown, Selecting
<1>13. ~Owed' BY <1>4a, <1>4, <1>7, <1>9 DEF Owed
<1>14. CountsOK' /\ DebtOK' BY <1>1, <1>6, <1>7, <1>13, Paid
<1> QED BY <1>8, <1>10, <1>12, <1>14 DEF CardInv

\* The configuration register is read.
LEMMA SendScrInv ==
  ASSUME CardInv, SendScr
  PROVE  CardInv'
<1>1. CardTypeOK /\ CountsOK /\ KnownOK /\ PlaceOK /\ DebtOK BY DEF CardInv
<1> DEFINE c == "SEND_SCR"
<1>2. PICK out \in Outs : Sent(c, out) /\ Then("SET_BUS_WIDTH", out) BY DEF SendScr
<1>3. pc = c BY <1>2 DEF Sent
<1>4. /\ rca /\ ~wide /\ ~card.wide /\ retry = 0 /\ SentIn
  BY <1>1, <1>3 DEF KnownOK, PlaceOK, Unknown, Selecting
<1>4a. card.wide = wide BY <1>1, <1>4 DEF CardTypeOK, Cards
<1>5. Takes(c) /\ Done(c) = card /\ ~Garbled(c)
  BY <1>4a, <1>3, <1>4 DEF Takes, Done, Garbled, SentIn
<1>6. /\ kind' = kind /\ removed' = removed /\ card' \in Cards /\ card' = card
      /\ faults' = faults \/ faults' = faults + 1
      /\ out # "ok" => removed \/ faults' = faults + 1
  BY <1>1, <1>2, <1>5, SentFacts
<1>7. /\ after' = after /\ retry' = retry
      /\ failures' = failures \/ failures' = failures + 1
      /\ IF out = "ok" THEN pc' = "SET_BUS_WIDTH" /\ failures' = failures ELSE pc' = "idle"
      /\ rca' = rca /\ sdhc' = sdhc /\ sup18' = sup18 /\ failed18' = failed18 /\ v2' = v2
      /\ wide' = wide
  BY <1>2, ControlFacts DEF Then, mode
<1>8. CardTypeOK' BY <1>1, <1>6, <1>7 DEF CardTypeOK, Unknown, Selecting
<1>9. card'.wide = card.wide /\ card'.hc = card.hc /\ (card' = card \/ card'.st = "tran")
  BY <1>1, <1>6 DEF CardTypeOK, Cards
<1>10. KnownOK'
  BY <1>1, <1>3, <1>4, <1>6, <1>7, <1>9 DEF KnownOK, SentIn, Unknown, Selecting, Reading
<1>11. out = "ok" => card'.st = "tran"
  BY <1>1, <1>3, <1>4, <1>6 DEF CardTypeOK, Cards, SentIn
<1>12. PlaceOK'
  BY <1>3, <1>4, <1>7, <1>9, <1>11 DEF PlaceOK, SentIn, ReadyForData, Unknown, Selecting
<1>13. ~Owed' BY <1>4a, <1>4, <1>7, <1>9 DEF Owed
<1>14. CountsOK' /\ DebtOK' BY <1>1, <1>6, <1>7, <1>13, Paid
<1> QED BY <1>8, <1>10, <1>12, <1>14 DEF CardInv

\* The card is asked for its version; a card before version 2 does not answer.
LEMMA SendIfCondInv ==
  ASSUME CardInv, SendIfCond
  PROVE  CardInv'
<1>1. CardTypeOK /\ CountsOK /\ KnownOK /\ PlaceOK /\ DebtOK BY DEF CardInv
<1> DEFINE c == "SEND_IF_COND"
<1>2. PICK out \in Outs :
        /\ Sent(c, out) /\ v2' = (out = "ok")
        /\ IF Now(out) \in {"error", "bad"} THEN InitFails ELSE Goto("IO_SET_OP_COND")
        /\ UNCHANGED <<rca, sdhc, sup18, failed18, wide>>
  BY DEF SendIfCond
<1>3. pc = c BY <1>2 DEF Sent
<1>4. ~rca /\ ~wide /\ ~card.wide /\ retry = 0 /\ card.st = "idle"
  BY <1>1, <1>3 DEF KnownOK, PlaceOK, SentIn, Unknown
<1>5. Done(c) = card /\ ~Garbled(c) BY DEF Done, Garbled
<1>6. /\ kind' = kind /\ removed' = removed /\ card' = card
      /\ faults' = faults \/ faults' = faults + 1
      /\ out = "refused" => removed
      /\ out \in {"error", "bad"} => removed \/ faults' = faults + 1
  BY <1>1, <1>2, <1>5, SentFacts
<1>7. /\ after' = after /\ retry' = retry
      /\ failures' = failures \/ failures' = failures + 1
      /\ \/ pc' = "IO_SET_OP_COND" /\ failures' = failures
         \/ pc' = "idle" /\ Now(out) \in {"error", "bad"}
  BY <1>2, ControlFacts
<1>8. failures' = failures \/ removed \/ faults' = faults + 1
  BY <1>6, <1>7 DEF Now
<1>9. /\ rca' = rca /\ sdhc' = sdhc /\ sup18' = sup18 /\ failed18' = failed18 /\ wide' = wide
      /\ v2' \in BOOLEAN
  BY <1>2
<1>10. CardTypeOK' BY <1>1, <1>6, <1>7, <1>9 DEF CardTypeOK, Unknown
<1>11. KnownOK' BY <1>4, <1>7, <1>9 DEF KnownOK, Selecting, Reading
<1>12. PlaceOK'
  BY <1>4, <1>6, <1>7, <1>9 DEF PlaceOK, SentIn, ReadyForData
<1>13. ~Owed' BY <1>4, <1>7, <1>9 DEF Owed
<1>14. CountsOK' /\ DebtOK' BY <1>1, <1>6, <1>7, <1>8, <1>13, Paid
<1> QED BY <1>10, <1>11, <1>12, <1>14 DEF CardInv

\* A memory card does not answer this.
LEMMA IoSetOpCondInv ==
  ASSUME CardInv, IoSetOpCond
  PROVE  CardInv'
<1>1. CardTypeOK /\ CountsOK /\ KnownOK /\ PlaceOK /\ DebtOK BY DEF CardInv
<1> DEFINE c == "IO_SET_OP_COND"
<1>2. PICK out \in Outs :
        /\ Sent(c, out)
        /\ Then("INQUIRY", IF Now(out) \in {"timeout", "cmd_timeout"} THEN "ok" ELSE "no")
  BY DEF IoSetOpCond
<1>3. pc = c BY <1>2 DEF Sent
<1>4. ~rca /\ ~wide /\ ~card.wide /\ retry = 0 /\ card.st = "idle"
  BY <1>1, <1>3 DEF KnownOK, PlaceOK, SentIn, Unknown
<1>5. Done(c) = card /\ ~Garbled(c) /\ ~Takes(c) BY DEF Done, Garbled, Takes
<1>6. /\ kind' = kind /\ removed' = removed /\ card' = card
      /\ faults' = faults \/ faults' = faults + 1
      /\ out = "refused" => removed
      /\ out \in {"error", "bad", "ok"} => removed \/ faults' = faults + 1
  BY <1>1, <1>2, <1>5, SentFacts
<1>7. /\ after' = after /\ retry' = retry
      /\ failures' = failures \/ failures' = failures + 1
      /\ \/ pc' = "INQUIRY" /\ failures' = failures
         \/ pc' = "idle" /\ Now(out) \notin {"timeout", "cmd_timeout"}
      /\ rca' = rca /\ sdhc' = sdhc /\ sup18' = sup18 /\ failed18' = failed18 /\ v2' = v2
      /\ wide' = wide
  BY <1>2, ControlFacts DEF Then, mode
<1>8. failures' = failures \/ removed \/ faults' = faults + 1
  BY <1>6, <1>7 DEF Now, Outs
<1>10. CardTypeOK' BY <1>1, <1>6, <1>7 DEF CardTypeOK, Unknown
<1>11. KnownOK' BY <1>4, <1>7 DEF KnownOK, Selecting, Reading
<1>12. PlaceOK'
  BY <1>4, <1>6, <1>7 DEF PlaceOK, SentIn, ReadyForData
<1>13. ~Owed' BY <1>4, <1>7 DEF Owed
<1>14. CountsOK' /\ DebtOK' BY <1>1, <1>6, <1>7, <1>8, <1>13, Paid
<1> QED BY <1>10, <1>11, <1>12, <1>14 DEF CardInv

\* The card is asked to get ready, and says what it supports.
LEMMA SendOpCondInv ==
  ASSUME CardInv, SendOpCond
  PROVE  CardInv'
<1>1. CardTypeOK /\ CountsOK /\ KnownOK /\ PlaceOK /\ DebtOK BY DEF CardInv
<1> DEFINE c == "SD_SEND_OP_COND"
<1>2. PICK out \in Outs :
        /\ Sent(c, out)
        /\ IF out = "ok"
           THEN /\ ~Busy
                /\ sdhc' = Supports(card').hc
                /\ sup18' = IF failed18 THEN sup18 ELSE Supports(card').s18
                /\ Goto(IF sup18' THEN "VOLTAGE_SWITCH" ELSE "ALL_SEND_CID")
                /\ UNCHANGED <<rca, failed18, wide, v2>>
           ELSE InitFails /\ UNCHANGED mode
  BY DEF SendOpCond
<1>3. pc = c BY <1>2 DEF Sent
<1>4. ~rca /\ ~wide /\ ~card.wide /\ retry = 0 /\ card.st = "idle"
  BY <1>1, <1>3 DEF KnownOK, PlaceOK, SentIn, Unknown
<1>5. Takes(c) /\ ~Garbled(c) BY <1>4 DEF Takes, Garbled
<1>6. /\ kind' = kind /\ removed' = removed /\ card' \in Cards
      /\ faults' = faults \/ faults' = faults + 1
      /\ out = "ok" => card' = Done(c)
      /\ out # "ok" => removed \/ faults' = faults + 1
  BY <1>1, <1>2, <1>5, SentFacts
<1>7. /\ rca' = rca /\ failed18' = failed18 /\ v2' = v2 /\ wide' = wide
      /\ after' = after /\ retry' = retry
      /\ failures' = failures \/ failures' = failures + 1
      /\ out = "ok" => /\ pc' \in {"VOLTAGE_SWITCH", "ALL_SEND_CID"} /\ failures' = failures
                       /\ ~Busy
      /\ out # "ok" => pc' = "idle"
  BY <1>2, ControlFacts DEF mode
<1>8. CASE out = "ok"
  <2>1. sdhc' = card'.hc /\ sup18' = (IF failed18 THEN sup18 ELSE card'.s18)
    BY <1>2, <1>8 DEF Supports
  <2>2. sdhc' \in BOOLEAN /\ sup18' \in BOOLEAN BY <1>1, <1>6, <2>1 DEF CardTypeOK, Cards
  <2>3. card'.st = "ready" /\ card'.wide = card.wide
    <3>1. Done(c) = [card EXCEPT !.st = "ready", !.hc = kind \in HighCapacity,
                                 !.s18 = v2 /\ ~failed18 /\ kind = "uhs"]
      BY <1>7, <1>8 DEF Done
    <3> QED BY <1>1, <1>6, <1>8, <3>1 DEF CardTypeOK, Cards
  <2>4. CardTypeOK' BY <1>1, <1>6, <1>7, <1>8, <2>2 DEF CardTypeOK, Unknown
  <2>5. KnownOK' BY <1>4, <1>7, <1>8, <2>1 DEF KnownOK, Selecting, Reading
  <2>6. PlaceOK'
    BY <1>4, <1>7, <1>8, <2>3 DEF PlaceOK, SentIn, ReadyForData
  <2>7. ~Owed' BY <1>4, <1>7, <1>8 DEF Owed
  <2>8. CountsOK' /\ DebtOK' BY <1>1, <1>6, <1>7, <1>8, <2>7, Paid
  <2> QED BY <2>4, <2>5, <2>6, <2>8 DEF CardInv
<1>9. CASE out # "ok"
  <2>1. sdhc' = sdhc /\ sup18' = sup18 BY <1>2, <1>9 DEF mode
  <2>2. CardTypeOK' BY <1>1, <1>6, <1>7, <1>9, <2>1 DEF CardTypeOK
  <2>3. KnownOK' BY <1>4, <1>7, <1>9 DEF KnownOK, Unknown, Selecting, Reading
  <2>4. PlaceOK' BY <1>7, <1>9 DEF PlaceOK, SentIn, ReadyForData, Unknown, Selecting
  <2>5. ~Owed' BY <1>4, <1>7, <1>9 DEF Owed
  <2>6. CountsOK' /\ DebtOK' BY <1>1, <1>6, <1>7, <1>9, <2>5, Paid
  <2> QED BY <2>2, <2>3, <2>4, <2>6 DEF CardInv
<1> QED BY <1>8, <1>9

\* A switch that fails starts everything again.
LEMMA VoltageSwitchInv ==
  ASSUME CardInv, VoltageSwitch
  PROVE  CardInv'
<1>1. CardTypeOK /\ CountsOK /\ KnownOK /\ PlaceOK /\ DebtOK BY DEF CardInv
<1> DEFINE c == "VOLTAGE_SWITCH"
<1>2. PICK out \in Outs :
        /\ Sent(c, out)
        /\ failed18' = (out # "ok" \/ failed18)
        /\ Goto(IF out = "ok" THEN "ALL_SEND_CID" ELSE "power")
        /\ UNCHANGED <<rca, sdhc, sup18, wide, v2>>
  BY DEF VoltageSwitch
<1>3. pc = c BY <1>2 DEF Sent
<1>4. ~rca /\ ~wide /\ ~card.wide /\ retry = 0 /\ card.st = "ready" /\ sdhc = card.hc
  BY <1>1, <1>3 DEF KnownOK, PlaceOK, SentIn, Unknown
<1>5. Done(c) = card BY DEF Done
<1>6. /\ kind' = kind /\ removed' = removed /\ card' = card
      /\ faults' = faults \/ faults' = faults + 1
  BY <1>1, <1>2, <1>5, SentFacts
<1>7. /\ after' = after /\ retry' = retry /\ failures' = failures
      /\ pc' \in {"ALL_SEND_CID", "power"} /\ failed18' \in BOOLEAN
      /\ rca' = rca /\ sdhc' = sdhc /\ sup18' = sup18 /\ wide' = wide /\ v2' = v2
  BY <1>2, ControlFacts
<1>8. CardTypeOK' BY <1>1, <1>6, <1>7 DEF CardTypeOK, Unknown
<1>9. KnownOK' BY <1>4, <1>6, <1>7 DEF KnownOK, Selecting, Reading
<1>10. PlaceOK' BY <1>4, <1>6, <1>7 DEF PlaceOK, SentIn, ReadyForData
<1>11. ~Owed' BY <1>4, <1>7 DEF Owed
<1>12. CountsOK' /\ DebtOK' BY <1>1, <1>6, <1>7, <1>11, Paid
<1> QED BY <1>8, <1>9, <1>10, <1>12 DEF CardInv

\* The card gives its address, which is kept though the answer reports an error.
LEMMA SendRelativeAddrInv ==
  ASSUME CardInv, SendRelativeAddr
  PROVE  CardInv'
<1>1. CardTypeOK /\ CountsOK /\ KnownOK /\ PlaceOK /\ DebtOK BY DEF CardInv
<1> DEFINE c == "SEND_RELATIVE_ADDR"
<1>2. PICK out \in Outs :
        /\ Sent(c, out)
        /\ rca' = (out \in {"ok", "bad"} \/ rca)
        /\ IF out = "ok" THEN Goto("SELECT_CARD") ELSE InitFails
        /\ UNCHANGED <<sdhc, sup18, failed18, wide, v2>>
  BY DEF SendRelativeAddr
<1>3. pc = c BY <1>2 DEF Sent
<1>4. ~rca /\ ~wide /\ ~card.wide /\ retry = 0 /\ card.st = "ident" /\ sdhc = card.hc
  BY <1>1, <1>3 DEF KnownOK, PlaceOK, SentIn, Unknown
<1>5. Takes(c) /\ ~Garbled(c) /\ Done(c) = [card EXCEPT !.st = "stby"]
  BY <1>4 DEF Takes, Garbled, Done
<1>6. /\ kind' = kind /\ removed' = removed /\ card' \in Cards
      /\ card' \in {card, [card EXCEPT !.st = "stby"]}
      /\ faults' = faults \/ faults' = faults + 1
      /\ out \in {"ok", "bad"} => card' = [card EXCEPT !.st = "stby"]
      /\ out # "ok" => removed \/ faults' = faults + 1
  BY <1>1, <1>2, <1>5, SentFacts
<1>7. /\ after' = after /\ retry' = retry
      /\ failures' = failures \/ failures' = failures + 1
      /\ IF out = "ok" THEN pc' = "SELECT_CARD" /\ failures' = failures ELSE pc' = "idle"
      /\ sdhc' = sdhc /\ sup18' = sup18 /\ failed18' = failed18 /\ v2' = v2 /\ wide' = wide
      /\ rca' \in BOOLEAN /\ (rca' <=> out \in {"ok", "bad"})
  BY <1>2, <1>4, ControlFacts
<1>8. CardTypeOK' BY <1>1, <1>6, <1>7 DEF CardTypeOK, Selecting
<1>9. /\ card'.wide = card.wide /\ card'.hc = card.hc
      /\ out \in {"ok", "bad"} => card'.st = "stby"
  BY <1>1, <1>6 DEF CardTypeOK, Cards
<1>10. KnownOK' BY <1>4, <1>7, <1>9 DEF KnownOK, Unknown, Selecting, Reading
<1>11. PlaceOK'
  BY <1>4, <1>7, <1>9 DEF PlaceOK, SentIn, ReadyForData, Unknown, Selecting
<1>12. card.wide = wide BY <1>1, <1>4 DEF CardTypeOK, Cards
<1>13. ~Owed' BY <1>7, <1>9, <1>12 DEF Owed
<1>14. CountsOK' /\ DebtOK' BY <1>1, <1>6, <1>7, <1>13, Paid
<1> QED BY <1>8, <1>10, <1>11, <1>14 DEF CardInv

\* The card goes to 4-bit mode, and the controller after it if it has answered.
LEMMA SetBusWidthInv ==
  ASSUME CardInv, SetBusWidth
  PROVE  CardInv'
<1>1. CardTypeOK /\ CountsOK /\ KnownOK /\ PlaceOK /\ DebtOK BY DEF CardInv
<1> DEFINE c == "SET_BUS_WIDTH"
<1>2. PICK out \in Outs :
        /\ Sent(c, out)
        /\ wide' = (out = "ok" \/ wide)
        /\ InitDone
        /\ UNCHANGED <<rca, sdhc, sup18, failed18, v2>>
  BY DEF SetBusWidth
<1>3. pc = c BY <1>2 DEF Sent
<1>4. rca /\ ~wide /\ ~card.wide /\ retry = 0 /\ card.st = "tran" /\ sdhc = card.hc
  BY <1>1, <1>3 DEF KnownOK, PlaceOK, SentIn, Unknown, Selecting
<1>5. Takes(c) /\ ~Garbled(c) /\ Done(c) = [card EXCEPT !.wide = TRUE]
  BY <1>4 DEF Takes, Garbled, Done
<1>6. /\ kind' = kind /\ removed' = removed /\ card' \in Cards
      /\ card' \in {card, [card EXCEPT !.wide = TRUE]}
      /\ faults' = faults \/ faults' = faults + 1
      /\ out = "ok" => card' = [card EXCEPT !.wide = TRUE]
      /\ out # "ok" => removed \/ faults' = faults + 1
  BY <1>1, <1>2, <1>5, SentFacts
<1>7. /\ after' = after /\ retry' = retry /\ failures' = failures
      /\ pc' \in {"idle", "SEND_STATUS", "RECHECK"}
      /\ rca' = rca /\ sdhc' = sdhc /\ sup18' = sup18 /\ failed18' = failed18 /\ v2' = v2
      /\ wide' \in BOOLEAN /\ (wide' <=> out = "ok")
  BY <1>1, <1>2, <1>4, ControlFacts DEF InitDone, CardTypeOK
<1>8. CardTypeOK' BY <1>1, <1>6, <1>7 DEF CardTypeOK, Reading
<1>9. /\ card'.st = "tran" /\ card'.hc = card.hc /\ card'.wide \in BOOLEAN
      /\ out = "ok" => card'.wide
  BY <1>1, <1>4, <1>6 DEF CardTypeOK, Cards
<1>10. KnownOK' BY <1>4, <1>7, <1>9 DEF KnownOK, Unknown
<1>11. PlaceOK'
  BY <1>4, <1>7, <1>9 DEF PlaceOK, SentIn, ReadyForData, Unknown, Selecting
<1>12. Owed' => out # "ok"
  <2>1. SUFFICES ASSUME out = "ok" PROVE ~Owed' OBVIOUS
  <2>2. card'.wide = wide' BY <1>7, <1>9, <2>1
  <2> QED BY <1>7, <2>2 DEF Owed
<1>13. CountsOK' /\ DebtOK' BY <1>1, <1>6, <1>7, <1>12, Paid
<1> QED BY <1>8, <1>10, <1>11, <1>13 DEF CardInv

-----------------------------------------------------------------------------
(***************************************************************************)
(* sd_read.                                                                *)
(***************************************************************************)

\* A read that fails forgets the card.
LEMMA UnreadyInv ==
  ASSUME CardInv, pc \in Reading, pc' = "idle", ~rca', rca' \in BOOLEAN, SameMode,
         failures' = failures + 1, kind' = kind, removed' = removed, card' \in Cards,
         after' \in {"boot", "SEND_STATUS", "RECHECK"}, retry' \in {retry, retry + 1},
         faults' = faults \/ faults' = faults + 1, removed \/ Owed \/ faults' = faults + 1
  PROVE  CardInv'
<1>1. CardTypeOK /\ CountsOK /\ KnownOK /\ PlaceOK /\ DebtOK BY DEF CardInv
<1>2. sdhc' = sdhc /\ sup18' = sup18 /\ failed18' = failed18 /\ wide' = wide /\ v2' = v2
  BY DEF SameMode
<1>3. CardTypeOK' BY <1>1, <1>2 DEF CardTypeOK
<1>4. KnownOK' BY DEF KnownOK, Unknown, Selecting, Reading
<1>5. PlaceOK' BY DEF PlaceOK, SentIn, ReadyForData, Unknown, Selecting
<1>6. ~Owed' BY DEF Owed
<1>7. CountsOK' /\ DebtOK' BY <1>1, <1>6, Paid
<1> QED BY <1>3, <1>4, <1>5, <1>7 DEF CardInv

\* The card is asked for its state.
LEMMA SendStatusInv ==
  ASSUME CardInv, SendStatus
  PROVE  CardInv'
<1>1. CardTypeOK /\ CountsOK /\ KnownOK /\ PlaceOK /\ DebtOK BY DEF CardInv
<1> DEFINE c == "SEND_STATUS"
<1>2. PICK out \in Outs :
        /\ Sent(c, out) /\ SameMode
        /\ IF out # "ok" THEN Unready /\ UNCHANGED <<after, blocks, retry>>
           ELSE /\ pc' = EnsuredBy(card.st)
                /\ after' = "RECHECK"
                /\ UNCHANGED <<rca, blocks, retry, failures>>
  BY DEF SendStatus
<1>3. pc = c BY <1>2 DEF Sent
<1>4. rca /\ retry = 0 /\ sdhc = card.hc /\ card.st \in {"stby", "tran", "data"}
  BY <1>1, <1>3 DEF KnownOK, PlaceOK, Unknown, Reading
<1>5. Takes(c) /\ ~Garbled(c) /\ Done(c) = card BY <1>4 DEF Takes, Garbled, Done
<1>6. /\ kind' = kind /\ removed' = removed /\ card' = card
      /\ faults' = faults \/ faults' = faults + 1
      /\ out # "ok" => removed \/ faults' = faults + 1
  BY <1>1, <1>2, <1>5, SentFacts
<1>7. sdhc' = sdhc /\ sup18' = sup18 /\ failed18' = failed18 /\ wide' = wide /\ v2' = v2
  BY <1>2 DEF SameMode
<1>8. CASE out # "ok"
  <2>1. /\ pc' = "idle" /\ ~rca' /\ rca' \in BOOLEAN /\ failures' = failures + 1
        /\ after' = after /\ retry' = retry
    BY <1>2, <1>8, ControlFacts DEF Unready, Forget
  <2>2. card' \in Cards /\ after' \in {"boot", "SEND_STATUS", "RECHECK"} /\ pc \in Reading
    BY <1>1, <1>3, <1>6, <2>1 DEF CardTypeOK, Reading
  <2> QED BY <1>2, <1>6, <1>8, <2>1, <2>2, UnreadyInv
<1>9. CASE out = "ok"
  <2>1. /\ pc' = EnsuredBy(card.st) /\ after' = "RECHECK" /\ rca' = rca /\ retry' = retry
        /\ failures' = failures
    BY <1>2, <1>9
  <2>2. \/ card.st = "stby" /\ pc' = "SELECT_AGAIN"
        \/ card.st = "data" /\ pc' = "STOP_TRANSMISSION"
        \/ card.st = "tran" /\ pc' = "READ"
    BY <1>4, <2>1 DEF EnsuredBy
  <2>3. CardTypeOK' BY <1>1, <1>6, <1>7, <2>1, <2>2 DEF CardTypeOK, Reading
  <2>4. KnownOK' BY <1>4, <1>6, <1>7, <2>1, <2>2 DEF KnownOK, Unknown
  <2>5. PlaceOK'
    BY <1>4, <1>6, <2>1, <2>2 DEF PlaceOK, SentIn, ReadyForData, Unknown, Selecting
  <2>6. Owed' => Owed BY <1>4, <1>6, <1>7, <2>1 DEF Owed
  <2>7. CountsOK' /\ DebtOK' BY <1>1, <1>6, <2>1, <2>6, Paid
  <2> QED BY <2>3, <2>4, <2>5, <2>7 DEF CardInv
<1> QED BY <1>8, <1>9

\* The card is brought to the transfer state.
LEMMA EnsureInv ==
  ASSUME CardInv, NEW c \in {"SELECT_AGAIN", "STOP_TRANSMISSION"}, Ensure(c)
  PROVE  CardInv'
<1>1. CardTypeOK /\ CountsOK /\ KnownOK /\ PlaceOK /\ DebtOK BY DEF CardInv
<1>2. PICK out \in Outs :
        /\ Sent(c, out) /\ SameMode
        /\ IF out = "ok" THEN Goto("RECHECK") /\ rca' = rca ELSE Unready
  BY DEF Ensure
<1>3. pc = c BY <1>2 DEF Sent
<1>4. /\ rca /\ retry = 0 /\ sdhc = card.hc
      /\ c = "SELECT_AGAIN" => card.st = "stby"
      /\ c = "STOP_TRANSMISSION" => card.st = "data"
  BY <1>1, <1>3 DEF KnownOK, PlaceOK, SentIn, Unknown, Reading
<1>5. Takes(c) /\ ~Garbled(c) /\ Done(c) = [card EXCEPT !.st = "tran"]
  BY <1>4 DEF Takes, Garbled, Done
<1>6. /\ kind' = kind /\ removed' = removed /\ card' \in Cards
      /\ faults' = faults \/ faults' = faults + 1
      /\ out = "ok" => card' = [card EXCEPT !.st = "tran"]
      /\ out # "ok" => removed \/ faults' = faults + 1
  BY <1>1, <1>2, <1>5, SentFacts
<1>7. sdhc' = sdhc /\ sup18' = sup18 /\ failed18' = failed18 /\ wide' = wide /\ v2' = v2
  BY <1>2 DEF SameMode
<1>8. CASE out # "ok"
  <2>1. /\ pc' = "idle" /\ ~rca' /\ rca' \in BOOLEAN /\ failures' = failures + 1
        /\ after' = after /\ retry' = retry
    BY <1>2, <1>8, ControlFacts DEF Unready, Forget
  <2>2. after' \in {"boot", "SEND_STATUS", "RECHECK"} /\ pc \in Reading
    BY <1>1, <1>3, <2>1 DEF CardTypeOK, Reading
  <2> QED BY <1>2, <1>6, <1>8, <2>1, <2>2, UnreadyInv
<1>9. CASE out = "ok"
  <2>1. /\ pc' = "RECHECK" /\ after' = after /\ rca' = rca /\ retry' = retry
        /\ failures' = failures
    BY <1>2, <1>9, ControlFacts
  <2>2. card'.st = "tran" /\ card'.hc = card.hc /\ card'.wide = card.wide
    BY <1>1, <1>6, <1>9 DEF CardTypeOK, Cards
  <2>3. CardTypeOK' BY <1>1, <1>6, <1>7, <2>1 DEF CardTypeOK, Reading
  <2>4. KnownOK' BY <1>4, <1>7, <2>1, <2>2 DEF KnownOK, Unknown
  <2>5. PlaceOK' BY <1>4, <2>1, <2>2 DEF PlaceOK, SentIn, ReadyForData, Unknown, Selecting
  <2>6. Owed' => Owed BY <1>7, <2>1, <2>2 DEF Owed
  <2>7. CountsOK' /\ DebtOK' BY <1>1, <1>6, <2>1, <2>6, Paid
  <2> QED BY <2>3, <2>4, <2>5, <2>7 DEF CardInv
<1> QED BY <1>8, <1>9

\* The card is asked again whether it is in the transfer state.
LEMMA RecheckInv ==
  ASSUME CardInv, Recheck
  PROVE  CardInv'
<1>1. CardTypeOK /\ CountsOK /\ KnownOK /\ PlaceOK /\ DebtOK BY DEF CardInv
<1> DEFINE c == "RECHECK"
<1>2. PICK out \in Outs :
        /\ Sent(c, out) /\ SameMode
        /\ IF out = "ok" /\ card.st = "tran" THEN Goto("READ") /\ rca' = rca ELSE Unready
  BY DEF Recheck
<1>3. pc = c BY <1>2 DEF Sent
<1>4. rca /\ retry = 0 /\ sdhc = card.hc /\ card.st = "tran"
  BY <1>1, <1>3 DEF KnownOK, PlaceOK, SentIn, Unknown, Reading
<1>5. Takes(c) /\ ~Garbled(c) /\ Done(c) = card BY <1>4 DEF Takes, Garbled, Done
<1>6. /\ kind' = kind /\ removed' = removed /\ card' = card
      /\ faults' = faults \/ faults' = faults + 1
      /\ out # "ok" => removed \/ faults' = faults + 1
  BY <1>1, <1>2, <1>5, SentFacts
<1>7. sdhc' = sdhc /\ sup18' = sup18 /\ failed18' = failed18 /\ wide' = wide /\ v2' = v2
  BY <1>2 DEF SameMode
<1>8. CASE out # "ok"
  <2>1. /\ pc' = "idle" /\ ~rca' /\ rca' \in BOOLEAN /\ failures' = failures + 1
        /\ after' = after /\ retry' = retry
    BY <1>2, <1>8, ControlFacts DEF Unready, Forget
  <2>2. card' \in Cards /\ after' \in {"boot", "SEND_STATUS", "RECHECK"} /\ pc \in Reading
    BY <1>1, <1>3, <1>6, <2>1 DEF CardTypeOK, Reading
  <2> QED BY <1>2, <1>6, <1>8, <2>1, <2>2, UnreadyInv
<1>9. CASE out = "ok"
  <2>1. /\ pc' = "READ" /\ after' = after /\ rca' = rca /\ retry' = retry
        /\ failures' = failures
    BY <1>2, <1>4, <1>9, ControlFacts
  <2>2. CardTypeOK' BY <1>1, <1>6, <1>7, <2>1 DEF CardTypeOK, Reading
  <2>3. KnownOK' BY <1>4, <1>6, <1>7, <2>1 DEF KnownOK, Unknown
  <2>4. PlaceOK' BY <1>4, <1>6, <2>1 DEF PlaceOK, SentIn, ReadyForData, Unknown, Selecting
  <2>5. Owed' => Owed BY <1>4, <1>6, <1>7, <2>1 DEF Owed
  <2>6. CountsOK' /\ DebtOK' BY <1>1, <1>6, <2>1, <2>5, Paid
  <2> QED BY <2>2, <2>3, <2>4, <2>6 DEF CardInv
<1> QED BY <1>8, <1>9

\* One try of the data command.
LEMMA DoDataCommandInv ==
  ASSUME CardInv, DoDataCommand
  PROVE  CardInv'
<1>1. CardTypeOK /\ CountsOK /\ KnownOK /\ PlaceOK /\ DebtOK BY DEF CardInv
<1> DEFINE c == "READ"
<1>2. PICK out \in Outs :
        /\ Sent(c, out) /\ SameMode
        /\ IF out = "ok" THEN Returns /\ rca' = rca
           ELSE IF Retries
           THEN retry' = NextTry /\ UNCHANGED <<pc, after, blocks, rca, failures>>
           ELSE Unready
  BY DEF DoDataCommand
<1>3. pc = c BY <1>2 DEF Sent
<1>4. /\ rca /\ sdhc = card.hc /\ card.st \in {"tran", "data"}
      /\ retry = 0 => card.st = "tran"
  BY <1>1, <1>3 DEF KnownOK, PlaceOK, SentIn, ReadyForData, Unknown, Reading
<1>5. Done(c) \in {card, [card EXCEPT !.st = "data"]} BY DEF Done
<1>6. ~Takes(c) => Owed
  <2>1. SUFFICES ASSUME ~Takes(c) PROVE Owed OBVIOUS
  <2>2. card.st # "tran" BY <2>1 DEF Takes
  <2>3. retry > 0 BY <1>1, <1>4, <2>2 DEF CountsOK
  <2> QED BY <1>3, <2>3 DEF Owed
<1>7. Garbled(c) => Owed BY <1>4 DEF Garbled, Owed
<1>8. /\ kind' = kind /\ removed' = removed /\ card' \in Cards
      /\ card' \in {card, [card EXCEPT !.st = "data"]}
      /\ faults' = faults \/ faults' = faults + 1
      /\ out # "ok" => removed \/ Owed \/ faults' = faults + 1
  BY <1>1, <1>2, <1>5, <1>6, <1>7, SentFacts
<1>9. sdhc' = sdhc /\ sup18' = sup18 /\ failed18' = failed18 /\ wide' = wide /\ v2' = v2
  BY <1>2 DEF SameMode
<1>10. /\ card'.hc = card.hc /\ card'.wide = card.wide /\ card'.st \in {"tran", "data"}
  BY <1>1, <1>4, <1>8 DEF CardTypeOK, Cards
<1>11. CASE out = "ok"
  <2>1. /\ pc' = "idle" /\ after' = after /\ rca' = rca /\ retry' = retry
        /\ failures' = failures
    BY <1>2, <1>11, ControlFacts
  <2>2. CardTypeOK' BY <1>1, <1>8, <1>9, <2>1 DEF CardTypeOK
  <2>3. KnownOK' BY <1>4, <1>9, <1>10, <2>1 DEF KnownOK, Unknown
  <2>4. PlaceOK' BY <2>1 DEF PlaceOK, SentIn, ReadyForData, Unknown, Selecting
  <2>5. Owed' => Owed BY <1>9, <1>10, <2>1 DEF Owed
  <2>6. CountsOK' /\ DebtOK' BY <1>1, <1>8, <2>1, <2>5, Paid
  <2> QED BY <2>2, <2>3, <2>4, <2>6 DEF CardInv
<1>12. CASE out # "ok" /\ Retries
  <2>1. /\ pc' = "READ" /\ after' = after /\ rca' = rca /\ retry' = retry + 1
        /\ failures' = failures
    BY <1>2, <1>3, <1>12 DEF NextTry
  <2>2. CardTypeOK' BY <1>1, <1>8, <1>9, <2>1 DEF CardTypeOK, Reading
  <2>3. KnownOK' BY <1>4, <1>9, <1>10, <2>1 DEF KnownOK, Unknown
  <2>4. retry' # 0 BY <1>1, <2>1 DEF CountsOK
  <2>5. PlaceOK' BY <1>10, <2>1, <2>4 DEF PlaceOK, SentIn, ReadyForData, Unknown, Selecting
  <2>6. CountsOK' /\ DebtOK' BY <1>1, <1>8, <1>12, <2>1, Paid
  <2> QED BY <2>2, <2>3, <2>5, <2>6 DEF CardInv
<1>13. CASE out # "ok" /\ ~Retries
  <2>1. /\ pc' = "idle" /\ ~rca' /\ rca' \in BOOLEAN /\ failures' = failures + 1
        /\ after' = after /\ retry' = retry
    BY <1>2, <1>13, ControlFacts DEF Unready, Forget
  <2>2. after' \in {"boot", "SEND_STATUS", "RECHECK"} /\ pc \in Reading
    BY <1>1, <1>3, <2>1 DEF CardTypeOK, Reading
  <2> QED BY <1>2, <1>8, <1>13, <2>1, <2>2, UnreadyInv
<1> QED BY <1>11, <1>12, <1>13

\* A read begins.
LEMMA ReadInv ==
  ASSUME CardInv, NEW n, Read(n)
  PROVE  CardInv'
<1>1. CardTypeOK /\ CountsOK /\ KnownOK /\ PlaceOK /\ DebtOK BY DEF CardInv
<1>2. /\ pc = "idle" /\ retry' = 0 /\ pc' = (IF rca THEN "SEND_STATUS" ELSE "power")
      /\ after' = "SEND_STATUS" /\ kind' = kind /\ card' = card /\ rca' = rca /\ sdhc' = sdhc
      /\ sup18' = sup18 /\ failed18' = failed18 /\ wide' = wide /\ v2' = v2
      /\ removed' = removed /\ faults' = faults /\ failures' = failures
  BY DEF Read, cardVars, mode
<1>3. CardTypeOK' BY <1>1, <1>2 DEF CardTypeOK, Unknown, Reading
<1>4. KnownOK' BY <1>1, <1>2 DEF KnownOK, Unknown, Selecting, Reading
<1>5. PlaceOK' BY <1>2 DEF PlaceOK, SentIn, ReadyForData, Unknown, Selecting
<1>6. Owed' => Owed BY <1>2 DEF Owed
<1>7. CountsOK' /\ DebtOK' BY <1>1, <1>2, <1>6, Paid
<1> QED BY <1>3, <1>4, <1>5, <1>7 DEF CardInv

\* The card is taken out.
LEMMA RemoveInv ==
  ASSUME CardInv, Remove
  PROVE  CardInv'
<1>1. CardTypeOK /\ CountsOK /\ KnownOK /\ PlaceOK /\ DebtOK BY DEF CardInv
<1>2. /\ pc' = pc /\ retry' = retry /\ after' = after /\ kind' = kind /\ card' = card
      /\ rca' = rca /\ sdhc' = sdhc /\ sup18' = sup18 /\ failed18' = failed18 /\ wide' = wide
      /\ v2' = v2 /\ removed' = TRUE /\ faults' = faults /\ failures' = failures
  BY DEF Remove, cardVars, mode, call
<1>3. CardTypeOK' BY <1>1, <1>2 DEF CardTypeOK
<1>4. KnownOK' BY <1>1, <1>2 DEF KnownOK
<1>5. PlaceOK' BY <1>1, <1>2 DEF PlaceOK, SentIn, ReadyForData
<1>6. CountsOK' BY <1>1, <1>2 DEF CountsOK
<1>7. DebtOK' BY <1>2 DEF DebtOK
<1> QED BY <1>3, <1>4, <1>5, <1>6, <1>7 DEF CardInv

\* Nothing happens to the card and its driver.
LEMMA SameInv ==
  ASSUME CardInv, UNCHANGED vars
  PROVE  CardInv'
<1>1. CardTypeOK /\ CountsOK /\ KnownOK /\ PlaceOK /\ DebtOK BY DEF CardInv
<1>2. /\ pc' = pc /\ retry' = retry /\ after' = after /\ kind' = kind /\ card' = card
      /\ rca' = rca /\ sdhc' = sdhc /\ sup18' = sup18 /\ failed18' = failed18 /\ wide' = wide
      /\ v2' = v2 /\ removed' = removed /\ faults' = faults /\ failures' = failures
  BY DEF vars, cardVars, mode, call
<1>3. CardTypeOK' BY <1>1, <1>2 DEF CardTypeOK
<1>4. KnownOK' BY <1>1, <1>2 DEF KnownOK
<1>5. PlaceOK' BY <1>1, <1>2 DEF PlaceOK, SentIn, ReadyForData
<1>6. Owed' => Owed BY <1>2 DEF Owed
<1>7. CountsOK' /\ DebtOK' BY <1>1, <1>2, <1>6, Paid
<1> QED BY <1>3, <1>4, <1>5, <1>7 DEF CardInv

\* The driver and the card start.
LEMMA CardInitInv == Init => CardInv
<1> SUFFICES ASSUME Init PROVE CardInv OBVIOUS
<1>1. CardTypeOK
  <2>1. Reset \in Cards BY DEF Reset, Cards
  <2> QED BY <2>1, SdCardAssumption DEF Init, CardTypeOK, Unknown
<1>2. KnownOK /\ PlaceOK
  BY DEF Init, KnownOK, PlaceOK, SentIn, ReadyForData, Unknown, Selecting, Reading
<1>3. CountsOK BY DEF Init, CountsOK
<1>4. ~Owed BY DEF Init, Owed
<1>5. DebtOK BY <1>4 DEF Init, DebtOK
<1> QED BY <1>1, <1>2, <1>3, <1>5 DEF CardInv

\* Every step of the driver keeps the invariant.
LEMMA DriverInv ==
  ASSUME CardInv, CardInit \/ DataStep
  PROVE  CardInv'
BY PowerInv, GoIdleInv, SendIfCondInv, IoSetOpCondInv, InquiryInv, SendOpCondInv,
   VoltageSwitchInv, AllSendCidInv, SendRelativeAddrInv, SelectCardInv, SetBlocklenInv,
   SendScrInv, SetBusWidthInv, SendStatusInv, EnsureInv, RecheckInv, DoDataCommandInv
   DEF CardInit, DataStep, SelectAgain, StopTransmission

-----------------------------------------------------------------------------
(***************************************************************************)
(* The invariant: what is mounted, and the calls of cat.                   *)
(***************************************************************************)

FileTypeOK ==
  /\ medium \in {"whole", "partitioned", "blank"}
  /\ cats \in Nat /\ wrong \in Nat
  /\ asked => job # <<>>

\* The blocks register_storage still reads, and what is mounted.
AtRegister(reads, mounted) == job = reads /\ fs = mounted
RegisterOfWhole ==
  \/ AtRegister(<<To("isFat", 0)>>, NoFs)
  \/ AtRegister(<<To("mount", 0)>>, NoFs)
  \/ AtRegister(<<>>, 0)
RegisterOfPartitioned ==
  \/ AtRegister(<<To("isFat", 0)>>, NoFs)
  \/ AtRegister(<<To("isMbr", 0)>>, NoFs)
  \/ AtRegister(<<To("partitions", 0)>>, NoFs)
  \/ AtRegister(<<To("isFat", PartitionStart)>>, NoFs)
  \/ AtRegister(<<To("mount", PartitionStart)>>, NoFs)
  \/ AtRegister(<<>>, PartitionStart)
RegisterOfBlank ==
  \/ AtRegister(<<To("isFat", 0)>>, NoFs)
  \/ AtRegister(<<To("isMbr", 0)>>, NoFs)
  \/ AtRegister(<<>>, NoFs)

\* Where register_storage is while none of its reads has failed.
RegisterOK ==
  cats = 0 /\ ~unregistered =>
    \/ medium = "whole" /\ RegisterOfWhole
    \/ medium = "partitioned" /\ RegisterOfPartitioned
    \/ medium = "blank" /\ RegisterOfBlank

\* The blocks a call of cat still reads, and what it has read.
AtCat(reads, got) == job = reads /\ answer = got
CatPlaces ==
  \/ AtCat(CatJob, <<>>)
  \/ AtCat(<<To("chain", fs + 1), To("data", fs + 3), To("next", fs + 1), To("data", fs + 4)>>, <<"root">>)
  \/ AtCat(<<To("data", fs + 3), To("next", fs + 1), To("data", fs + 4)>>, <<"root">>)
  \/ AtCat(<<To("next", fs + 1), To("data", fs + 4)>>, <<"root", "first">>)
  \/ AtCat(<<To("data", fs + 4)>>, <<"root", "first">>)
  \/ AtCat(<<>>, TheFile)

\* Where a call of cat is while none of its reads has failed.
CatOK == fs = Start[medium] /\ cats > 0 /\ ~unread => CatPlaces

MountOK == cats > 0 => fs # NoFs /\ (~unregistered => fs = Start[medium])

\* A call of cat that may yet turn out wrong has a failure of its own.
Spoiled == job # <<>> /\ unread
WrongOK ==
  /\ cats = 0 => wrong = 0
  /\ fs = Start[medium] /\ cats > 0 => wrong <= failures /\ (Spoiled => wrong < failures)

FileInv == FileTypeOK /\ RegisterOK /\ CatOK /\ MountOK /\ WrongOK

CardFilesInv == CardInv /\ FileInv

-----------------------------------------------------------------------------
\* The first of the blocks still to read, and the blocks after it.
LEMMA FirstAndRest ==
  /\ \A a : Head(<<a>>) = a /\ Tail(<<a>>) = <<>>
  /\ \A a, b : Head(<<a, b>>) = a /\ Tail(<<a, b>>) = <<b>>
  /\ \A a, b, c : Head(<<a, b, c>>) = a /\ Tail(<<a, b, c>>) = <<b, c>>
  /\ \A a, b, c, d : Head(<<a, b, c, d>>) = a /\ Tail(<<a, b, c, d>>) = <<b, c, d>>
  /\ \A a, b, c, d, e : Head(<<a, b, c, d, e>>) = a /\ Tail(<<a, b, c, d, e>>) = <<b, c, d, e>>
<1>1. \A a : Head(<<a>>) = a /\ Tail(<<a>>) = <<>> OBVIOUS
<1>2. \A a, b : Head(<<a, b>>) = a /\ Tail(<<a, b>>) = <<b>> OBVIOUS
<1>3. \A a, b, c : Head(<<a, b, c>>) = a /\ Tail(<<a, b, c>>) = <<b, c>> OBVIOUS
<1>4. \A a, b, c, d : Head(<<a, b, c, d>>) = a /\ Tail(<<a, b, c, d>>) = <<b, c, d>> OBVIOUS
<1>5. \A a, b, c, d, e : Head(<<a, b, c, d, e>>) = a /\ Tail(<<a, b, c, d, e>>) = <<b, c, d, e>>
  OBVIOUS
<1> QED BY <1>1, <1>2, <1>3, <1>4, <1>5

\* The second cluster that was read comes after the first.
LEMMA AppendToOne ==
  ASSUME NEW x, NEW y
  PROVE  Append(<<x>>, y) = <<x, y>>
<1> DEFINE s == Append(<<x>>, y)
           t == <<x, y>>
           S == {x, y}
<1>1. <<x>> \in Seq(S) /\ y \in S /\ t \in Seq(S) OBVIOUS
<1>2. /\ s \in Seq(S) /\ Len(s) = Len(<<x>>) + 1
      /\ \A i \in 1 .. Len(<<x>>) : s[i] = <<x>>[i]
      /\ s[Len(<<x>>) + 1] = y
  BY <1>1, AppendProperties
<1>3. Len(<<x>>) = 1 /\ Len(t) = 2 /\ t[1] = x /\ t[2] = y OBVIOUS
<1>4. Len(s) = Len(t) /\ s[1] = t[1] /\ s[2] = t[2] BY <1>2, <1>3
<1>5. \A i \in 1 .. Len(s) : s[i] = t[i] BY <1>3, <1>4
<1>6. s = t
  <2>1. s \in Seq(S) /\ t \in Seq(S) BY <1>1, <1>2
  <2> HIDE DEF s, t, S
  <2> QED BY <1>4, <1>5, <2>1, SeqEqual
<1> QED BY <1>6

\* And the third after both.
LEMMA AppendToTwo ==
  ASSUME NEW x, NEW y, NEW z
  PROVE  Append(<<x, y>>, z) = <<x, y, z>>
<1> DEFINE s == Append(<<x, y>>, z)
           t == <<x, y, z>>
           S == {x, y, z}
<1>1. <<x, y>> \in Seq(S) /\ z \in S /\ t \in Seq(S) OBVIOUS
<1>2. /\ s \in Seq(S) /\ Len(s) = Len(<<x, y>>) + 1
      /\ \A i \in 1 .. Len(<<x, y>>) : s[i] = <<x, y>>[i]
      /\ s[Len(<<x, y>>) + 1] = z
  BY <1>1, AppendProperties
<1>3. /\ Len(<<x, y>>) = 2 /\ <<x, y>>[1] = x /\ <<x, y>>[2] = y
      /\ Len(t) = 3 /\ t[1] = x /\ t[2] = y /\ t[3] = z
  OBVIOUS
<1>4. Len(s) = Len(t) /\ s[1] = t[1] /\ s[2] = t[2] /\ s[3] = t[3] BY <1>2, <1>3
<1>5. \A i \in 1 .. Len(s) : s[i] = t[i] BY <1>3, <1>4
<1>6. s = t
  <2>1. s \in Seq(S) /\ t \in Seq(S) BY <1>1, <1>2
  <2> HIDE DEF s, t, S
  <2> QED BY <1>4, <1>5, <2>1, SeqEqual
<1> QED BY <1>6

\* A job that is not done has a block, and one that is done has none.
LEMMA NotDone ==
  /\ \A a : <<a>> # <<>>
  /\ \A a, b : <<a, b>> # <<>>
  /\ \A a, b, c : <<a, b, c>> # <<>>
  /\ \A a, b, c, d : <<a, b, c, d>> # <<>>
  /\ \A a, b, c, d, e : <<a, b, c, d, e>> # <<>>
OBVIOUS

LEMMA ToFields == \A use, at : To(use, at).use = use /\ To(use, at).at = at
BY DEF To

\* What is on each medium.
LEMMA WholeContent ==
  ASSUME medium = "whole"
  PROVE  Start[medium] = 0 /\ Content(0) = "boot"
BY DEF Start, Content, Layout
LEMMA PartitionedContent ==
  ASSUME medium = "partitioned"
  PROVE  Start[medium] = PartitionStart /\ Content(0) = "table" /\ Content(PartitionStart) = "boot"
BY DEF Start, Content, Layout, PartitionStart
LEMMA BlankContent ==
  ASSUME medium = "blank"
  PROVE  Start[medium] = NoFs /\ Content(0) = "other"
BY DEF Start, Content, Layout, NoFs
LEMMA FileContent ==
  ASSUME medium \in {"whole", "partitioned"}, fs = Start[medium]
  PROVE  /\ Content(fs + 1) = "fat" /\ Content(fs + 2) = "root"
         /\ Content(fs + 3) = "first" /\ Content(fs + 4) = "second"
BY DEF Start, Content, Layout, PartitionStart

\* A block is read well while storages are registered.
LEMMA RegisterStep ==
  ASSUME FileInv, job # <<>>, cats = 0, ~unregistered, UNCHANGED medium,
         Register(Head(job).use, Content(Head(job).at), Head(job).at, Tail(job))
  PROVE  \/ medium = "whole" /\ RegisterOfWhole'
         \/ medium = "partitioned" /\ RegisterOfPartitioned'
         \/ medium = "blank" /\ RegisterOfBlank'
<1> USE FirstAndRest, ToFields, NotDone
<1>1. \A a : <<a>> \o <<>> = <<a>> OBVIOUS
<1>2. <<>> \o <<>> = <<>> OBVIOUS
<1>3. CASE medium = "whole"
  <2>1. Content(0) = "boot" BY <1>3, WholeContent
  <2>2. \/ AtRegister(<<To("isFat", 0)>>, NoFs)
        \/ AtRegister(<<To("mount", 0)>>, NoFs)
    BY <1>3 DEF FileInv, RegisterOK, RegisterOfWhole, AtRegister
  <2>3. CASE AtRegister(<<To("isFat", 0)>>, NoFs)
    <3>1. Head(job).use = "isFat" /\ Head(job).at = 0 /\ Tail(job) = <<>> /\ fs = NoFs
      BY <2>3 DEF AtRegister
    <3>2. job' = <<To("mount", 0)>> /\ fs' = NoFs BY <1>1, <2>1, <3>1 DEF Register
    <3> QED BY <1>3, <3>2 DEF RegisterOfWhole, AtRegister
  <2>4. CASE AtRegister(<<To("mount", 0)>>, NoFs)
    <3>1. Head(job).use = "mount" /\ Head(job).at = 0 /\ Tail(job) = <<>>
      BY <2>4 DEF AtRegister
    <3>2. job' = <<>> /\ fs' = 0 BY <2>1, <3>1 DEF Register, FatFilesystem
    <3> QED BY <1>3, <3>2 DEF RegisterOfWhole, AtRegister
  <2> QED BY <2>2, <2>3, <2>4
<1>4. CASE medium = "partitioned"
  <2>1. Content(0) = "table" /\ Content(PartitionStart) = "boot" BY <1>4, PartitionedContent
  <2>2. \/ AtRegister(<<To("isFat", 0)>>, NoFs)
        \/ AtRegister(<<To("isMbr", 0)>>, NoFs)
        \/ AtRegister(<<To("partitions", 0)>>, NoFs)
        \/ AtRegister(<<To("isFat", PartitionStart)>>, NoFs)
        \/ AtRegister(<<To("mount", PartitionStart)>>, NoFs)
    BY <1>4 DEF FileInv, RegisterOK, RegisterOfPartitioned, AtRegister
  <2>3. CASE AtRegister(<<To("isFat", 0)>>, NoFs)
    <3>1. Head(job).use = "isFat" /\ Head(job).at = 0 /\ Tail(job) = <<>> /\ fs = NoFs
      BY <2>3 DEF AtRegister
    <3>2. job' = <<To("isMbr", 0)>> /\ fs' = NoFs BY <1>1, <2>1, <3>1 DEF Register
    <3> QED BY <1>4, <3>2 DEF RegisterOfPartitioned, AtRegister
  <2>4. CASE AtRegister(<<To("isMbr", 0)>>, NoFs)
    <3>1. Head(job).use = "isMbr" /\ Head(job).at = 0 /\ Tail(job) = <<>> /\ fs = NoFs
      BY <2>4 DEF AtRegister
    <3>2. job' = <<To("partitions", 0)>> /\ fs' = NoFs BY <1>1, <2>1, <3>1 DEF Register
    <3> QED BY <1>4, <3>2 DEF RegisterOfPartitioned, AtRegister
  <2>5. CASE AtRegister(<<To("partitions", 0)>>, NoFs)
    <3>1. Head(job).use = "partitions" /\ Head(job).at = 0 /\ Tail(job) = <<>> /\ fs = NoFs
      BY <2>5 DEF AtRegister
    <3>2. (\E p \in Partitions("table") : job' = p \o <<>>) /\ fs' = NoFs
      BY <2>1, <3>1 DEF Register
    <3>3. job' = <<To("isFat", PartitionStart)>> BY <1>1, <3>2 DEF Partitions
    <3> QED BY <1>4, <3>2, <3>3 DEF RegisterOfPartitioned, AtRegister
  <2>6. CASE AtRegister(<<To("isFat", PartitionStart)>>, NoFs)
    <3>1. Head(job).use = "isFat" /\ Head(job).at = PartitionStart /\ Tail(job) = <<>> /\ fs = NoFs
      BY <2>6 DEF AtRegister
    <3>2. job' = <<To("mount", PartitionStart)>> /\ fs' = NoFs
      BY <1>1, <2>1, <3>1 DEF Register
    <3> QED BY <1>4, <3>2 DEF RegisterOfPartitioned, AtRegister
  <2>7. CASE AtRegister(<<To("mount", PartitionStart)>>, NoFs)
    <3>1. Head(job).use = "mount" /\ Head(job).at = PartitionStart /\ Tail(job) = <<>>
      BY <2>7 DEF AtRegister
    <3>2. job' = <<>> /\ fs' = PartitionStart BY <2>1, <3>1 DEF Register, FatFilesystem
    <3> QED BY <1>4, <3>2 DEF RegisterOfPartitioned, AtRegister
  <2> QED BY <2>2, <2>3, <2>4, <2>5, <2>6, <2>7
<1>5. CASE medium = "blank"
  <2>1. Content(0) = "other" BY <1>5, BlankContent
  <2>2. \/ AtRegister(<<To("isFat", 0)>>, NoFs)
        \/ AtRegister(<<To("isMbr", 0)>>, NoFs)
    BY <1>5 DEF FileInv, RegisterOK, RegisterOfBlank, AtRegister
  <2>3. CASE AtRegister(<<To("isFat", 0)>>, NoFs)
    <3>1. Head(job).use = "isFat" /\ Head(job).at = 0 /\ Tail(job) = <<>> /\ fs = NoFs
      BY <2>3 DEF AtRegister
    <3>2. job' = <<To("isMbr", 0)>> /\ fs' = NoFs BY <1>1, <2>1, <3>1 DEF Register
    <3> QED BY <1>5, <3>2 DEF RegisterOfBlank, AtRegister
  <2>4. CASE AtRegister(<<To("isMbr", 0)>>, NoFs)
    <3>1. Head(job).use = "isMbr" /\ Head(job).at = 0 /\ Tail(job) = <<>> /\ fs = NoFs
      BY <2>4 DEF AtRegister
    <3>2. job' = <<>> /\ fs' = NoFs BY <1>2, <2>1, <3>1 DEF Register
    <3> QED BY <1>5, <3>2 DEF RegisterOfBlank, AtRegister
  <2> QED BY <2>2, <2>3, <2>4
<1> QED BY <1>3, <1>4, <1>5 DEF FileInv, FileTypeOK

\* A block is read well in a call of cat of which none was read badly.
LEMMA CatStep ==
  ASSUME FileInv, job # <<>>, cats > 0, fs = Start[medium], CatPlaces, UNCHANGED <<medium, fs>>,
         Cat(Head(job).use, Content(Head(job).at), Tail(job))
  PROVE  CatPlaces' /\ (job' = <<>> => answer' = TheFile)
<1> USE FirstAndRest, ToFields, NotDone
<1>1. medium \in {"whole", "partitioned"}
  BY BlankContent DEF FileInv, FileTypeOK, MountOK
<1>2. /\ Content(fs + 1) = "fat" /\ Content(fs + 2) = "root"
      /\ Content(fs + 3) = "first" /\ Content(fs + 4) = "second"
  BY <1>1, FileContent
<1>3. /\ Append(<<>>, "root") = <<"root">> /\ Append(<<"root">>, "first") = <<"root", "first">>
      /\ Append(<<"root", "first">>, "second") = TheFile
  BY AppendToOne, AppendToTwo DEF TheFile
<1>4. CASE AtCat(CatJob, <<>>)
  <2>1. /\ Head(job).use = "directory" /\ Head(job).at = fs + 2 /\ answer = <<>>
        /\ Tail(job) = <<To("chain", fs + 1), To("data", fs + 3), To("next", fs + 1), To("data", fs + 4)>>
    BY <1>4 DEF AtCat, CatJob
  <2>2. job' = Tail(job) /\ answer' = <<"root">> BY <1>2, <1>3, <2>1 DEF Cat
  <2> QED BY <2>1, <2>2 DEF CatPlaces, AtCat
<1>5. CASE AtCat(<<To("chain", fs + 1), To("data", fs + 3), To("next", fs + 1), To("data", fs + 4)>>, <<"root">>)
  <2>1. /\ Head(job).use = "chain" /\ answer = <<"root">>
        /\ Tail(job) = <<To("data", fs + 3), To("next", fs + 1), To("data", fs + 4)>>
    BY <1>5 DEF AtCat
  <2>2. job' = Tail(job) /\ answer' = <<"root">> BY <2>1 DEF Cat
  <2> QED BY <2>1, <2>2 DEF CatPlaces, AtCat
<1>6. CASE AtCat(<<To("data", fs + 3), To("next", fs + 1), To("data", fs + 4)>>, <<"root">>)
  <2>1. /\ Head(job).use = "data" /\ Head(job).at = fs + 3 /\ answer = <<"root">>
        /\ Tail(job) = <<To("next", fs + 1), To("data", fs + 4)>>
    BY <1>6 DEF AtCat
  <2>2. job' = Tail(job) /\ answer' = <<"root", "first">> BY <1>2, <1>3, <2>1 DEF Cat
  <2> QED BY <2>1, <2>2 DEF CatPlaces, AtCat
<1>7. CASE AtCat(<<To("next", fs + 1), To("data", fs + 4)>>, <<"root", "first">>)
  <2>1. /\ Head(job).use = "next" /\ Head(job).at = fs + 1 /\ answer = <<"root", "first">>
        /\ Tail(job) = <<To("data", fs + 4)>>
    BY <1>7 DEF AtCat
  <2>2. job' = Tail(job) /\ answer' = <<"root", "first">> BY <1>2, <2>1 DEF Cat
  <2> QED BY <2>1, <2>2 DEF CatPlaces, AtCat
<1>8. CASE AtCat(<<To("data", fs + 4)>>, <<"root", "first">>)
  <2>1. /\ Head(job).use = "data" /\ Head(job).at = fs + 4 /\ answer = <<"root", "first">>
        /\ Tail(job) = <<>>
    BY <1>8 DEF AtCat
  <2>2. job' = Tail(job) /\ answer' = TheFile BY <1>2, <1>3, <2>1 DEF Cat
  <2> QED BY <2>1, <2>2 DEF CatPlaces, AtCat
<1> QED BY <1>4, <1>5, <1>6, <1>7, <1>8 DEF CatPlaces, AtCat

\* A step of the driver has at most one failure.
LEMMA OneFailure ==
  ASSUME CardInit \/ DataStep
  PROVE  failures' \in {failures, failures + 1}
<1> USE ControlFacts
<1>1. \A c2, out : Then(c2, out) => failures' \in {failures, failures + 1}
  BY DEF Then
<1>2. InitDone => failures' = failures BY DEF InitDone
<1>3. Unready => failures' = failures + 1 BY DEF Unready
<1>4. CASE CardInit
  <2>1. Power => failures' \in {failures, failures + 1} BY DEF Power
  <2>2. GoIdle \/ IoSetOpCond \/ Inquiry \/ AllSendCid \/ SelectCard \/ SetBlocklen \/ SendScr
        => failures' \in {failures, failures + 1}
    BY <1>1 DEF GoIdle, IoSetOpCond, Inquiry, AllSendCid, SelectCard, SetBlocklen, SendScr
  <2>3. SendIfCond => failures' \in {failures, failures + 1} BY DEF SendIfCond
  <2>4. SendOpCond => failures' \in {failures, failures + 1} BY DEF SendOpCond
  <2>5. VoltageSwitch => failures' \in {failures, failures + 1} BY DEF VoltageSwitch
  <2>6. SendRelativeAddr => failures' \in {failures, failures + 1} BY DEF SendRelativeAddr
  <2>7. SetBusWidth => failures' \in {failures, failures + 1} BY <1>2 DEF SetBusWidth
  <2> QED BY <1>4, <2>1, <2>2, <2>3, <2>4, <2>5, <2>6, <2>7 DEF CardInit
<1>5. CASE DataStep
  <2>1. SendStatus => failures' \in {failures, failures + 1} BY <1>3 DEF SendStatus
  <2>2. SelectAgain \/ StopTransmission => failures' \in {failures, failures + 1}
    BY <1>3 DEF SelectAgain, StopTransmission, Ensure
  <2>3. Recheck => failures' \in {failures, failures + 1} BY <1>3 DEF Recheck
  <2>4. DoDataCommand => failures' \in {failures, failures + 1} BY <1>3 DEF DoDataCommand
  <2> QED BY <1>5, <2>1, <2>2, <2>3, <2>4 DEF DataStep
<1> QED BY <1>4, <1>5

\* What is left alone keeps its invariant, as failures are only added.
LEMMA FileSame ==
  ASSUME FileInv, CountsOK, UNCHANGED <<medium, job, fs, answer, cats, unregistered, unread, wrong>>,
         asked' => asked \/ job # <<>>, failures' \in {failures, failures + 1}
  PROVE  FileInv'
<1>1. FileTypeOK' BY DEF FileInv, FileTypeOK
<1>2. RegisterOK'
  BY DEF FileInv, RegisterOK, RegisterOfWhole, RegisterOfPartitioned, RegisterOfBlank, AtRegister
<1>3. CatOK' BY DEF FileInv, CatOK, CatPlaces, AtCat, CatJob
<1>4. MountOK' BY DEF FileInv, MountOK
<1>5. WrongOK' BY DEF FileInv, FileTypeOK, WrongOK, Spoiled, CountsOK
<1> QED BY <1>1, <1>2, <1>3, <1>4, <1>5 DEF FileInv

\* A block is returned, the one of the card unless its read failed.
LEMMA ReturnedInv ==
  ASSUME FileInv, CountsOK, UNCHANGED medium, asked, failures' \in {failures, failures + 1},
         NEW c, failures' = failures => c = Content(Head(job).at), Returned(c)
  PROVE  FileInv'
<1> DEFINE failed == failures' # failures
<1>1. /\ FileTypeOK /\ RegisterOK /\ CatOK /\ MountOK /\ WrongOK /\ job # <<>>
      /\ medium' = medium /\ Start[medium]' = Start[medium]
  BY DEF FileInv, FileTypeOK
<1>2. asked' = FALSE /\ cats' = cats /\ (unread' <=> unread \/ failed) BY DEF Returned
<1>3. CASE cats = 0
  <2>1. /\ Register(Head(job).use, c, Head(job).at, Tail(job)) /\ wrong' = wrong
        /\ (unregistered' <=> unregistered \/ failed)
    BY <1>3 DEF Returned, Registering
  <2>2. FileTypeOK' BY <1>1, <1>2, <2>1 DEF FileTypeOK
  <2>3. RegisterOK'
    <3>1. SUFFICES ASSUME ~unregistered'
                   PROVE  \/ medium = "whole" /\ RegisterOfWhole'
                          \/ medium = "partitioned" /\ RegisterOfPartitioned'
                          \/ medium = "blank" /\ RegisterOfBlank'
      BY <1>1 DEF RegisterOK
    <3>2. ~unregistered /\ c = Content(Head(job).at) BY <2>1, <3>1
    <3> QED BY <1>1, <1>3, <2>1, <3>2, RegisterStep
  <2>4. CatOK' /\ MountOK' BY <1>2, <1>3 DEF CatOK, MountOK
  <2>5. WrongOK' BY <1>1, <1>2, <1>3, <2>1 DEF WrongOK
  <2> QED BY <2>2, <2>3, <2>4, <2>5 DEF FileInv
<1>4. CASE cats > 0
  <2>1. cats # 0 /\ cats' # 0 BY <1>1, <1>2, <1>4 DEF FileTypeOK
  <2>2. /\ Cat(Head(job).use, c, Tail(job)) /\ fs' = fs /\ (unregistered' <=> unregistered)
        /\ wrong' = IF job' = <<>> /\ answer' # TheFile THEN wrong + 1 ELSE wrong
    BY <2>1 DEF Returned, Registering
  <2>3. FileTypeOK' BY <1>1, <1>2, <2>2 DEF FileTypeOK
  <2>4. RegisterOK' BY <2>1 DEF RegisterOK
  <2>5. MountOK' BY <1>1, <1>2, <2>2 DEF MountOK
  <2>6. fs = Start[medium] /\ ~unread' => CatPlaces' /\ wrong' = wrong
    <3>1. SUFFICES ASSUME fs = Start[medium], ~unread' PROVE CatPlaces' /\ wrong' = wrong
      OBVIOUS
    <3>2. ~unread /\ c = Content(Head(job).at) BY <1>2, <3>1
    <3>3. CatPlaces BY <1>1, <1>4, <3>1, <3>2 DEF CatOK
    <3>4. CatPlaces' /\ (job' = <<>> => answer' = TheFile)
      BY <1>1, <1>4, <2>2, <3>1, <3>2, <3>3, CatStep
    <3> QED BY <2>2, <3>4
  <2>7. CatOK' BY <1>1, <2>2, <2>6 DEF CatOK
  <2>8. WrongOK'
    <3>1. SUFFICES ASSUME fs = Start[medium]
                   PROVE  wrong' <= failures' /\ (Spoiled' => wrong' < failures')
      BY <1>1, <2>1, <2>2 DEF WrongOK
    <3>2. /\ wrong \in Nat /\ failures \in Nat /\ wrong <= failures
          /\ unread => wrong < failures
      BY <1>1, <1>4, <3>1 DEF FileTypeOK, WrongOK, Spoiled, CountsOK
    <3>3. CASE ~unread' BY <2>6, <3>1, <3>2, <3>3 DEF Spoiled
    <3>4. CASE unread'
      <4>1. wrong < failures' BY <1>2, <3>2, <3>4
      <4>2. wrong' = wrong \/ (wrong' = wrong + 1 /\ job' = <<>>) BY <2>2
      <4>3. CASE wrong' = wrong BY <3>2, <4>1, <4>3
      <4>4. CASE wrong' = wrong + 1 /\ job' = <<>> BY <3>2, <4>1, <4>4 DEF Spoiled
      <4> QED BY <4>2, <4>3, <4>4
    <3> QED BY <3>3, <3>4
  <2> QED BY <2>3, <2>4, <2>5, <2>7, <2>8 DEF FileInv
<1> QED BY <1>1, <1>3, <1>4 DEF FileTypeOK

\* cat is called.
LEMMA CallCatInv ==
  ASSUME FileInv, CountsOK, CallCat
  PROVE  FileInv'
<1>1. /\ FileTypeOK /\ RegisterOK /\ CatOK /\ MountOK /\ WrongOK BY DEF FileInv
<1>2. /\ job = <<>> /\ fs # NoFs /\ cats' = cats + 1 /\ job' = CatJob /\ answer' = <<>>
      /\ unread' = FALSE /\ medium' = medium /\ asked' = asked /\ fs' = fs
      /\ unregistered' = unregistered /\ wrong' = wrong /\ failures' = failures
      /\ Start[medium]' = Start[medium]
  BY DEF CallCat, vars
<1>3. cats' \in Nat /\ cats' > 0 /\ cats' # 0 BY <1>1, <1>2 DEF FileTypeOK
<1>4. FileTypeOK' BY <1>1, <1>2, <1>3 DEF FileTypeOK
<1>5. RegisterOK' BY <1>3 DEF RegisterOK
<1>6. CatOK'
  <2>1. CatJob' = CatJob BY <1>2 DEF CatJob
  <2> QED BY <1>2, <2>1 DEF CatOK, CatPlaces, AtCat
<1>7. MountOK'
  <2>1. SUFFICES ASSUME ~unregistered PROVE fs = Start[medium]
    BY <1>2 DEF MountOK
  <2>2. CASE cats = 0
    <3>1. medium = "whole" => Start[medium] = 0 BY WholeContent
    <3>2. medium = "partitioned" => Start[medium] = PartitionStart BY PartitionedContent
    <3>3. medium = "blank" => Start[medium] = NoFs BY BlankContent
    <3> QED BY <1>1, <1>2, <2>1, <2>2, <3>1, <3>2, <3>3, NotDone
            DEF RegisterOK, RegisterOfWhole, RegisterOfPartitioned, RegisterOfBlank, AtRegister
  <2>3. CASE cats # 0
    <3>1. cats > 0 BY <1>1, <2>3 DEF FileTypeOK
    <3> QED BY <1>1, <2>1, <3>1 DEF MountOK
  <2> QED BY <2>2, <2>3
<1>8. WrongOK'
  <2>1. ~Spoiled' BY <1>2 DEF Spoiled
  <2>2. fs = Start[medium] => wrong <= failures
    BY <1>1 DEF WrongOK, FileTypeOK, CountsOK
  <2> QED BY <1>2, <1>3, <2>1, <2>2 DEF WrongOK
<1> QED BY <1>4, <1>5, <1>6, <1>7, <1>8 DEF FileInv

-----------------------------------------------------------------------------
(***************************************************************************)
(* The specification.                                                      *)
(***************************************************************************)

LEMMA InitHolds == CardFilesInit => CardFilesInv
<1> SUFFICES ASSUME CardFilesInit PROVE CardFilesInv OBVIOUS
<1>1. CardInv BY CardInitInv DEF CardFilesInit
<1>2. FileTypeOK BY CardFilesAssumption, NotDone DEF CardFilesInit, FileTypeOK
<1>3. RegisterOK
  BY <1>2 DEF CardFilesInit, FileTypeOK, RegisterOK, RegisterOfWhole, RegisterOfPartitioned,
              RegisterOfBlank, AtRegister
<1>4. CatOK /\ MountOK /\ WrongOK BY DEF CardFilesInit, CatOK, MountOK, WrongOK
<1> QED BY <1>1, <1>2, <1>3, <1>4 DEF FileInv, CardFilesInv

LEMMA StepKeeps ==
  ASSUME CardFilesInv, [CardFilesNext]_cardFilesVars
  PROVE  CardFilesInv'
<1>1. CardInv /\ FileInv /\ CountsOK BY DEF CardFilesInv, CardInv
<1>2. CASE ReadBlock
  <2>1. PICK n : Read(n) BY <1>2 DEF ReadBlock
  <2>2. CardInv' BY <1>1, <2>1, ReadInv
  <2>3. failures' = failures BY <2>1 DEF Read
  <2>4. FileInv' BY <1>1, <1>2, <2>3, FileSame DEF ReadBlock
  <2> QED BY <2>2, <2>4 DEF CardFilesInv
<1>3. CASE Driver
  <2>1. CardInv' BY <1>1, <1>3, DriverInv DEF Driver
  <2>2. failures' \in {failures, failures + 1} /\ medium' = medium
    BY <1>3, OneFailure DEF Driver
  <2>3. CASE asked /\ pc' = "idle"
    <3>1. PICK c \in IF failures' = failures THEN {Content(Head(job).at)} ELSE Contents : Returned(c)
      BY <1>3, <2>3 DEF Driver
    <3>2. failures' = failures => c = Content(Head(job).at) BY <3>1
    <3>3. FileInv' BY <1>1, <2>2, <2>3, <3>1, <3>2, ReturnedInv
    <3> QED BY <2>1, <3>3 DEF CardFilesInv
  <2>4. CASE ~(asked /\ pc' = "idle")
    <3>1. UNCHANGED fileVars BY <1>3, <2>4 DEF Driver
    <3>2. FileInv' BY <1>1, <2>2, <3>1, FileSame DEF fileVars
    <3> QED BY <2>1, <3>2 DEF CardFilesInv
  <2> QED BY <2>3, <2>4
<1>4. CASE TakeOut
  <2>1. CardInv' BY <1>1, <1>4, RemoveInv DEF TakeOut
  <2>2. failures' = failures BY <1>4 DEF TakeOut, Remove
  <2>3. FileInv' BY <1>1, <1>4, <2>2, FileSame DEF TakeOut, fileVars
  <2> QED BY <2>1, <2>3 DEF CardFilesInv
<1>5. CASE CallCat
  <2>1. CardInv' BY <1>1, <1>5, SameInv DEF CallCat
  <2>2. FileInv' BY <1>1, <1>5, CallCatInv
  <2> QED BY <2>1, <2>2 DEF CardFilesInv
<1>6. CASE UNCHANGED cardFilesVars
  <2>1. CardInv' BY <1>1, <1>6, SameInv DEF cardFilesVars
  <2>2. failures' = failures BY <1>6 DEF cardFilesVars, vars
  <2>3. FileInv' BY <1>1, <1>6, <2>2, FileSame DEF cardFilesVars, fileVars
  <2> QED BY <2>1, <2>3 DEF CardFilesInv
<1> QED BY <1>2, <1>3, <1>4, <1>5, <1>6 DEF CardFilesNext

\* The driver and its card (mmc.cpp:1034-1485), and what was mounted and read through
\* them (mmc.cpp:1519-1528, Storage.cpp), stay in the states of CardFilesInv, whatever
\* the number of faults and of calls of cat.
THEOREM CardFilesInvariant == CardFilesSpec => []CardFilesInv
BY InitHolds, StepKeeps, PTL DEF CardFilesSpec

\* The driver addresses a block in the unit the card counts in (mmc.cpp:1423-1424), and
\* first asks for data of a card in the transfer state (1336-1419).
THEOREM ReadsStayAsAsked == CardFilesSpec => []ReadsAsAsked
<1>1. CardFilesInv => ReadsAsAsked
  BY DEF CardFilesInv, CardInv, KnownOK, PlaceOK, ReadsAsAsked, RightUnit, Unknown, Reading
<1> QED BY <1>1, CardFilesInvariant, PTL

\* Registering mounts what is on the card unless one of its own reads failed; reads of a
\* card that is in fail no more often than commands did; and each such failure, which
\* readBlock does not report (mmc.cpp:1524-1528), spoils one call of cat at most.
THEOREM FaultsStayContained == CardFilesSpec => []FaultsContained
<1>1. CardFilesInv => MountedRight
  <2> SUFFICES ASSUME CardFilesInv, job = <<>>, ~unregistered PROVE fs = Start[medium]
    BY DEF MountedRight
  <2>1. FileTypeOK /\ RegisterOK /\ MountOK BY DEF CardFilesInv, FileInv
  <2>2. CASE cats = 0
    <3>1. medium = "whole" => Start[medium] = 0 BY WholeContent
    <3>2. medium = "partitioned" => Start[medium] = PartitionStart BY PartitionedContent
    <3>3. medium = "blank" => Start[medium] = NoFs BY BlankContent
    <3> QED BY <2>1, <2>2, <3>1, <3>2, <3>3, NotDone
            DEF RegisterOK, RegisterOfWhole, RegisterOfPartitioned, RegisterOfBlank, AtRegister
  <2>3. CASE cats # 0
    <3>1. cats > 0 BY <2>1, <2>3 DEF FileTypeOK
    <3> QED BY <2>1, <3>1 DEF MountOK
  <2> QED BY <2>2, <2>3
<1>2. CardFilesInv => OneFaultOneFailure
  BY DEF CardFilesInv, CardInv, DebtOK, OneFaultOneFailure
<1>3. CardFilesInv => FaultSpoilsOneCall
  <2> SUFFICES ASSUME CardFilesInv, fs = Start[medium]
               PROVE  /\ cats > 0 /\ job = <<>> /\ ~unread => answer = TheFile
                      /\ ~removed => wrong <= faults
    BY DEF FaultSpoilsOneCall
  <2>1. FileTypeOK /\ CatOK /\ WrongOK /\ CountsOK /\ DebtOK
    BY DEF CardFilesInv, FileInv, CardInv
  <2>2. cats > 0 /\ job = <<>> /\ ~unread => answer = TheFile
    BY <2>1, NotDone DEF CatOK, CatPlaces, AtCat, CatJob
  <2>3. ~removed => wrong <= faults
    <3> SUFFICES ASSUME ~removed PROVE wrong <= faults OBVIOUS
    <3>1. failures <= faults BY <2>1 DEF DebtOK
    <3>2. wrong <= failures
      <4>1. CASE cats = 0 BY <2>1, <4>1 DEF WrongOK, CountsOK
      <4>2. CASE cats # 0
        <5>1. cats > 0 BY <2>1, <4>2 DEF FileTypeOK
        <5> QED BY <2>1, <5>1 DEF WrongOK
      <4> QED BY <4>1, <4>2
    <3> QED BY <2>1, <3>1, <3>2 DEF FileTypeOK, CountsOK
  <2> QED BY <2>2, <2>3
<1>4. CardFilesInv => FaultsContained BY <1>1, <1>2, <1>3 DEF FaultsContained
<1> QED BY <1>4, CardFilesInvariant, PTL
=============================================================================
