------------------------------- MODULE SdCard -------------------------------
(***************************************************************************)
(* The SD-card driver (rpi/mmc.cpp) above one command: sd_card_init,       *)
(* sd_ensure_data_mode, sd_do_data_command and sd_read, and the card they  *)
(* talk to, in a session of reads.                                         *)
(*                                                                         *)
(* A command is one step here; module SdCommand has its inside.  It        *)
(* succeeds, or fails with what last_error then says.  A command that the  *)
(* card cannot take in its state is not answered ("cmd_timeout").  Beyond  *)
(* that MaxFaults commands fail for no such reason, after the card has     *)
(* done what it was told or before; a block that is not there in time      *)
(* (mmc.cpp:624) is one of these.                                          *)
(*                                                                         *)
(* Left out: clock rates, the contents of OCR, CID and SCR but for the     *)
(* bits named below, a controller that does not reset its command line,    *)
(* and sd_write, which has no caller.                                      *)
(***************************************************************************)
EXTENDS Integers

CONSTANTS
  Kinds,      \* the kinds of card that may be in the slot
  MaxFaults,  \* bound: commands that fail without the card's state being the reason
  Removable   \* whether the card can be taken out

AllKinds == {"v1", "standard", "high", "uhs"}
ASSUME SdCardAssumption ==
  Kinds \subseteq AllKinds /\ MaxFaults \in Nat /\ Removable \in BOOLEAN

HighCapacity == {"high", "uhs"}
Version2 == {"standard", "high", "uhs"}

VARIABLES
  \* the card
  kind,
  card,      \* its state, whether high capacity and 1.8 V were agreed, 4-bit mode
  \* the driver
  rca,       \* card_rca # 0
  sdhc,      \* card_supports_sdhc
  sup18,     \* card_supports_18v
  failed18,  \* failed_voltage_switch
  err,       \* last_error
  wide,      \* the controller is in 4-bit mode
  v2,        \* v2_later
  removed,   \* card_removal, or a removal the next command finds
  pc,        \* the command to send next, or "idle"
  after,     \* where sd_card_init returns to
  blocks,    \* blocks of the read
  retry,     \* retry_count
  \* history
  faults, failures

cardVars == <<kind, card>>
mode == <<rca, sdhc, sup18, failed18, wide, v2>>
call == <<pc, after, blocks, retry>>
vars == <<cardVars, mode, err, removed, call, faults, failures>>

Reset == [st |-> "idle", hc |-> FALSE, s18 |-> FALSE, wide |-> FALSE]

Init ==
  /\ kind \in Kinds /\ card = Reset
  /\ rca = FALSE /\ sdhc = FALSE /\ sup18 = FALSE /\ failed18 = FALSE
  /\ err = "timeout" /\ wide = FALSE /\ v2 = FALSE /\ removed = FALSE
  /\ pc = "power" /\ after = "boot" /\ blocks = 1 /\ retry = 0
  /\ faults = 0 /\ failures = 0

-----------------------------------------------------------------------------
(* The card. *)

\* The states in which the card takes a command.
Takes(c) ==
  CASE c = "GO_IDLE_STATE" -> TRUE
    [] c = "SEND_IF_COND" -> card.st = "idle" /\ kind \in Version2
    [] c = "IO_SET_OP_COND" -> FALSE
    [] c \in {"INQUIRY", "SD_SEND_OP_COND"} -> card.st = "idle"
    [] c = "VOLTAGE_SWITCH" -> card.st = "ready" /\ card.s18
    [] c = "ALL_SEND_CID" -> card.st = "ready"
    [] c = "SEND_RELATIVE_ADDR" -> card.st \in {"ident", "stby"}
    [] c \in {"SELECT_CARD", "SELECT_AGAIN"} -> card.st = "stby"
    [] c \in {"SEND_STATUS", "RECHECK"} -> card.st \in {"stby", "tran", "data"}
    [] c = "STOP_TRANSMISSION" -> card.st = "data"
    [] OTHER -> card.st = "tran"

\* To a driver that does not offer high capacity, a card that has it is busy for ever.
Busy == kind \in HighCapacity /\ ~v2

\* What it is then.  A read of several blocks goes on until it is stopped.
Done(c) ==
  CASE c = "GO_IDLE_STATE" -> Reset
    [] c = "SD_SEND_OP_COND" /\ ~Busy ->
         [card EXCEPT !.st = "ready", !.hc = kind \in HighCapacity,
                      !.s18 = v2 /\ ~failed18 /\ kind = "uhs"]
    [] c = "ALL_SEND_CID" -> [card EXCEPT !.st = "ident"]
    [] c = "SEND_RELATIVE_ADDR" -> [card EXCEPT !.st = "stby"]
    [] c \in {"SELECT_CARD", "SELECT_AGAIN", "STOP_TRANSMISSION"} -> [card EXCEPT !.st = "tran"]
    [] c = "SET_BUS_WIDTH" -> [card EXCEPT !.wide = TRUE]
    [] c = "READ" /\ blocks > 1 -> [card EXCEPT !.st = "data"]
    [] OTHER -> card

\* Data does not arrive when only one side is in 4-bit mode.
Garbled(c) == c \in {"SEND_SCR", "READ"} /\ card.wide # wide

\* The commands whose answer, or what the lines show after it, may be bad.
Checked == {"SEND_IF_COND", "VOLTAGE_SWITCH", "SEND_RELATIVE_ADDR"}

\* How a command can end, and what the card has become.
Ends(c) ==
  (IF removed THEN {[out |-> "refused", card |-> card]}
   ELSE IF ~Takes(c) THEN {[out |-> "cmd_timeout", card |-> card]}
   ELSE IF Garbled(c) THEN {[out |-> "error", card |-> Done(c)]}
   ELSE {[out |-> "ok", card |-> Done(c)]})
Faults(c) ==
  IF faults = MaxFaults \/ removed THEN {}
  ELSE [out : {"timeout", "cmd_timeout", "error"},
        card : {card} \cup IF Takes(c) THEN {Done(c)} ELSE {}]
       \cup IF Takes(c) /\ c \in Checked THEN [out : {"bad"}, card : {Done(c)}] ELSE {}

\* The driver sends a command and sees how it ended.  A command that is refused
\* leaves last_error as it was.
Outs == {"ok", "refused", "timeout", "cmd_timeout", "error", "bad"}
Sent(c, out) ==
  /\ pc = c
  /\ \/ \E e \in Ends(c) : e.out = out /\ card' = e.card /\ faults' = faults
     \/ \E e \in Faults(c) : e.out = out /\ card' = e.card /\ faults' = faults + 1
  /\ err' = IF out \in {"ok", "refused", "bad"} THEN err ELSE out
  /\ UNCHANGED <<kind, removed>>

Remove ==
  /\ Removable /\ ~removed
  /\ removed' = TRUE
  /\ UNCHANGED <<cardVars, mode, err, call, faults, failures>>

-----------------------------------------------------------------------------
(* sd_card_init. *)

Goto(c) == pc' = c /\ UNCHANGED <<after, blocks, retry, failures>>
Returns == pc' = "idle" /\ UNCHANGED <<after, blocks, retry, failures>>
Fails == pc' = "idle" /\ failures' = failures + 1 /\ UNCHANGED <<after, blocks, retry>>
InitFails ==
  IF after = "boot" THEN Returns ELSE Fails
InitDone == IF after = "boot" THEN Returns ELSE Goto(after)

\* Next command c2, or failure.
Then(c2, out) == (IF out = "ok" THEN Goto(c2) ELSE InitFails) /\ UNCHANGED mode

\* The card may lose its power or not, as the result of bcm_2708_power_cycle is
\* not looked at; the controller is reset.
Power ==
  /\ pc = "power"
  /\ card' \in {card, Reset}
  /\ wide' = FALSE
  /\ \/ ~removed /\ Goto("GO_IDLE_STATE") /\ UNCHANGED faults
     \/ faults < MaxFaults /\ faults' = faults + 1 /\ InitFails
     \/ removed /\ InitFails /\ UNCHANGED faults
  /\ UNCHANGED <<kind, rca, sdhc, sup18, failed18, v2, err, removed>>

GoIdle ==
  \E out \in Outs :
    /\ Sent("GO_IDLE_STATE", out)
    /\ Then("SEND_IF_COND", out)

\* TIMEOUT and CMD_TIMEOUT mean a card before version 2.
Now(out) == IF out = "refused" THEN err ELSE out
SendIfCond ==
  \E out \in Outs :
    /\ Sent("SEND_IF_COND", out)
    /\ v2' = (out = "ok")
    /\ IF Now(out) \in {"error", "bad"} THEN InitFails ELSE Goto("IO_SET_OP_COND")
    /\ UNCHANGED <<rca, sdhc, sup18, failed18, wide>>

\* An answer would be that of an SDIO card.
IoSetOpCond ==
  \E out \in Outs :
    /\ Sent("IO_SET_OP_COND", out)
    /\ Then("INQUIRY", IF Now(out) \in {"timeout", "cmd_timeout"} THEN "ok" ELSE "no")

Inquiry ==
  \E out \in Outs :
    /\ Sent("INQUIRY", out)
    /\ Then("SD_SEND_OP_COND", out)

\* What the answer says the card supports.
Supports(c) == [hc |-> c.hc, s18 |-> c.s18]

\* Answers that the card is busy change nothing.  The 1.8 V bit is looked at
\* only while no switch has failed.
SendOpCond ==
  \E out \in Outs :
    /\ Sent("SD_SEND_OP_COND", out)
    /\ IF out = "ok"
       THEN /\ ~Busy
            /\ sdhc' = Supports(card').hc
            /\ sup18' = IF failed18 THEN sup18 ELSE Supports(card').s18
            /\ Goto(IF sup18' THEN "VOLTAGE_SWITCH" ELSE "ALL_SEND_CID")
            /\ UNCHANGED <<rca, failed18, wide, v2>>
       ELSE InitFails /\ UNCHANGED mode

\* A switch that fails, in the command or in what the lines show after it, starts
\* everything again.
VoltageSwitch ==
  \E out \in Outs :
    /\ Sent("VOLTAGE_SWITCH", out)
    /\ failed18' = (out # "ok" \/ failed18)
    /\ Goto(IF out = "ok" THEN "ALL_SEND_CID" ELSE "power")
    /\ UNCHANGED <<rca, sdhc, sup18, wide, v2>>

AllSendCid ==
  \E out \in Outs :
    /\ Sent("ALL_SEND_CID", out)
    /\ Then("SEND_RELATIVE_ADDR", out)

\* The address is kept though the answer may report an error.
SendRelativeAddr ==
  \E out \in Outs :
    /\ Sent("SEND_RELATIVE_ADDR", out)
    /\ rca' = (out \in {"ok", "bad"} \/ rca)
    /\ IF out = "ok" THEN Goto("SELECT_CARD") ELSE InitFails
    /\ UNCHANGED <<sdhc, sup18, failed18, wide, v2>>

SelectCard ==
  \E out \in Outs :
    /\ Sent("SELECT_CARD", out)
    /\ Then(IF sdhc THEN "SEND_SCR" ELSE "SET_BLOCKLEN", out)
SetBlocklen ==
  \E out \in Outs :
    /\ Sent("SET_BLOCKLEN", out)
    /\ Then("SEND_SCR", out)
SendScr ==
  \E out \in Outs :
    /\ Sent("SEND_SCR", out)
    /\ Then("SET_BUS_WIDTH", out)

\* The controller follows when the card has answered; otherwise all goes on.
SetBusWidth ==
  \E out \in Outs :
    /\ Sent("SET_BUS_WIDTH", out)
    /\ wide' = (out = "ok" \/ wide)
    /\ InitDone
    /\ UNCHANGED <<rca, sdhc, sup18, failed18, v2>>

CardInit ==
  \/ Power \/ GoIdle \/ SendIfCond \/ IoSetOpCond \/ Inquiry \/ SendOpCond
  \/ VoltageSwitch \/ AllSendCid \/ SendRelativeAddr \/ SelectCard \/ SetBlocklen
  \/ SendScr \/ SetBusWidth

-----------------------------------------------------------------------------
(* sd_read. *)

\* A card that is not known is initialised first.
Read(n) ==
  /\ pc = "idle" /\ failures <= MaxFaults
  /\ blocks' = n /\ retry' = 0
  /\ pc' = IF rca THEN "SEND_STATUS" ELSE "power"
  /\ after' = "SEND_STATUS"
  /\ UNCHANGED <<cardVars, mode, err, removed, faults, failures>>

\* A defect: the card is still taken for a known one.
StillKnown == UNCHANGED rca
\* The card is forgotten, so that the next read initialises it.
Forget == rca' = FALSE

SameMode == UNCHANGED <<sdhc, sup18, failed18, wide, v2>>
Unready == Forget /\ Fails

\* A defect: a card that is still sending is taken for a ready one.
EnsuredByIgnoring(st) ==
  CASE st = "stby" -> "SELECT_AGAIN"
    [] OTHER -> "READ"

\* sd_ensure_data_mode: what the card's state asks for.
EnsuredBy(st) ==
  CASE st = "stby" -> "SELECT_AGAIN"
    [] st = "data" -> "STOP_TRANSMISSION"
    [] st = "tran" -> "READ"
    [] OTHER -> "power"

SendStatus ==
  \E out \in Outs :
    /\ Sent("SEND_STATUS", out)
    /\ SameMode
    /\ IF out # "ok" THEN Unready /\ UNCHANGED <<after, blocks, retry>>
       ELSE /\ pc' = EnsuredBy(card.st)
            /\ after' = "RECHECK"
            /\ UNCHANGED <<rca, blocks, retry, failures>>

\* The card is brought to the transfer state, and asked again.
Ensure(c) ==
  \E out \in Outs :
    /\ Sent(c, out)
    /\ SameMode
    /\ IF out = "ok" THEN Goto("RECHECK") /\ UNCHANGED rca ELSE Unready
SelectAgain == Ensure("SELECT_AGAIN")
StopTransmission == Ensure("STOP_TRANSMISSION")

Recheck ==
  \E out \in Outs :
    /\ Sent("RECHECK", out)
    /\ SameMode
    /\ IF out = "ok" /\ card.st = "tran" THEN Goto("READ") /\ UNCHANGED rca ELSE Unready

\* A defect: a try that is not counted.
NextTryUncounted == retry
NextTry == retry + 1
MaxRetries == 3
Retries == NextTry < MaxRetries

\* sd_do_data_command.
DoDataCommand ==
  \E out \in Outs :
    /\ Sent("READ", out)
    /\ SameMode
    /\ IF out = "ok" THEN Returns /\ UNCHANGED rca
       ELSE IF Retries
       THEN retry' = NextTry /\ UNCHANGED <<pc, after, blocks, rca, failures>>
       ELSE Unready

DataStep == SendStatus \/ SelectAgain \/ StopTransmission \/ Recheck \/ DoDataCommand

Next == CardInit \/ DataStep \/ (\E n \in 1 .. 2 : Read(n)) \/ Remove

Spec == Init /\ [][Next]_vars

\* The driver runs, and a card does not stay busy for ever.
FairSpec == Spec /\ WF_vars(CardInit \/ DataStep)

-----------------------------------------------------------------------------
\* A card that is told to read is told the block in the unit it counts in: blocks
\* if high capacity was agreed, bytes if not (mmc.cpp:1423-1424), whatever
\* initialisations failed, and where, before.
RightUnit == pc = "READ" /\ card.st = "tran" => sdhc = card.hc

\* The first try of a data command finds the card in the transfer state
\* (sd_ensure_data_mode, 1336-1419), though the read before left it sending or a
\* failed initialisation left it half way.
ReadyForData == pc = "READ" /\ retry = 0 => card.st = "tran"

\* A block that is read is the block that was asked for.
ReadsAsAsked == RightUnit /\ ReadyForData

\* A fault makes at most one read fail: whatever state it left the card and the
\* controller in, the read after it does not suffer, as the card is initialised
\* again (1342, 1353-1380, 1480) or is good enough to go on with.
OneFaultOneFailure == ~removed => failures <= faults

\* Initialisation and every read return, if the card does not count in blocks.  For
\* the others a lost SEND_IF_COND, after which the card stays busy, or a voltage
\* switch that failed keeps sd_card_init going for ever (1048, 1112).
CallReturns == pc # "idle" /\ kind \notin HighCapacity ~> pc = "idle"
=============================================================================
