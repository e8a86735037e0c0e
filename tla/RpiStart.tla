------------------------------ MODULE RpiStart ------------------------------
(***************************************************************************)
(* The start of the kernel on a Raspberry Pi: platform_setup of            *)
(* kernel/src/rpi/platform.cpp and the requests it makes of the VideoCore  *)
(* through the mailbox (rpi/mailbox.cpp) - the extent of the memory, the   *)
(* resolution of the screen (rpi/rpifb.cpp), the power of the SD card and  *)
(* the rate of its clock (rpi/mmc.cpp) - and what is done with the         *)
(* answers.  set_power (rpi/power.cpp) may be called afterwards.           *)
(*                                                                         *)
(* The VideoCore is the other process.  It takes messages in order and     *)
(* answers each on the channel it came on; a question on the property      *)
(* channel is answered in place, in the one buffer `prop`.  A message may  *)
(* be waiting before the kernel starts.                                    *)
(*                                                                         *)
(* Memory is counted in units of 16 MB and clocks in units of 100 kHz.     *)
(* Left out: what the SD controller does with the commands, which modules  *)
(* SdCommand and SdCard have, and every later initialisation of the card.  *)
(***************************************************************************)
EXTENDS Integers, Sequences

CONSTANTS
  Depth,      \* messages the mailbox takes before it is full
  Strays,     \* channels on which a message may wait at the start, or "none"
  Memories,   \* lengths of the memory the VideoCore may leave the processor
  Clocks      \* base clocks it may name

Channels == {"power", "framebuffer", "property", "other"}
ASSUME RpiAssumption ==
  Depth \in Nat \ {0} /\ Strays \subseteq Channels \cup {"none"} /\ Memories \subseteq Nat /\ Clocks \subseteq Nat

VARIABLES
  pc,      \* where platform_setup is: <<the call, a place in it>>
  inbox,   \* messages to the VideoCore: channels
  outbox,  \* messages from it: [channel, value]
  cbs,     \* the callback of each channel
  got,     \* got_prop_cb, modeset_rv and powerUpdate: which of them are set
  prop,    \* the property buffer: [tag, data]
  heap,    \* the regions passed to malloc_add_region
  rate,    \* the base clock as sd_card_init uses it
  control1,\* the SD controller's register: [enable, sd, divisor]
  stale,   \* the copy of it that sd_card_init keeps
  given,   \* history: the memory there is
  strict,  \* whether a reset clears the register, and the clock runs only if enabled
  stray    \* history: the channel of the message that waited at the start

asked == <<inbox, cbs, got, prop>>
card == <<control1, stale>>
settings == <<given, strict, stray>>
rpiVars == <<pc, asked, outbox, heap, rate, card, settings>>

Off == [enable |-> FALSE, sd |-> FALSE, divisor |-> 0]

Ignore == "mailbox_ignore"
CallbackOf(c) ==
  CASE c = "property" -> "prop_cb" [] c = "framebuffer" -> "mode_cb" [] c = "power" -> "power_cb"

RpiInit ==
  /\ pc = <<"memory", "ask">>
  /\ inbox = <<>> /\ got = {} /\ heap = {} /\ rate = 0
  /\ cbs = [c \in Channels |-> Ignore]
  /\ prop = [tag |-> <<"none">>, data |-> 0]
  /\ control1 = Off /\ stale = Off
  /\ given \in Memories /\ strict \in BOOLEAN
  /\ stray \in Strays
  /\ outbox = IF stray = "none" THEN <<>> ELSE <<[channel |-> stray, value |-> 0]>>

-----------------------------------------------------------------------------
(* The VideoCore. *)

Values(tag) ==
  CASE tag = "memory" -> {given}
    [] tag \in {"off", "on"} -> {0, 1}
    [] tag = "clock" -> Clocks

\* It takes a message, does what it says and answers.
VcAnswers ==
  /\ inbox # <<>>
  /\ inbox' = Tail(inbox)
  /\ outbox' = Append(outbox, [channel |-> Head(inbox), value |-> 0])
  /\ IF Head(inbox) = "property"
     THEN \E v \in Values(prop.tag[2]) : prop' = [tag |-> <<"answers", prop.tag[2]>>, data |-> v]
     ELSE prop' = prop
  /\ UNCHANGED <<pc, cbs, got, heap, rate, card, settings>>

-----------------------------------------------------------------------------
(* A request: property_read, RpiFramebuffer::setResolution or set_power. *)

ChannelOf(call) ==
  CASE call = "screen" -> "framebuffer" [] call = "set_power" -> "power" [] OTHER -> "property"

\* got_prop_cb = false, modeset_rv = -1, powerUpdate = false
Forget(c) == got \ {CallbackOf(c)}

Ask ==
  LET c == ChannelOf(pc[1]) IN
    /\ pc[2] = "ask"
    /\ got' = Forget(c)
    /\ prop' = IF c = "property" THEN [tag |-> <<"asks", pc[1]>>, data |-> 0] ELSE prop
    /\ cbs' = [cbs EXCEPT ![c] = CallbackOf(c)]
    /\ pc' = <<pc[1], "send">>
    /\ UNCHANGED <<inbox, outbox, heap, rate, card, settings>>

\* mailbox_send waits until there is room.
Send ==
  /\ pc[2] = "send" /\ Len(inbox) < Depth
  /\ inbox' = Append(inbox, ChannelOf(pc[1]))
  /\ pc' = <<pc[1], "wait">>
  /\ UNCHANGED <<outbox, cbs, got, prop, heap, rate, card, settings>>

\* set_power waits without polling (power.cpp:18).
Polls == pc[2] = "wait" /\ pc[1] # "set_power"

\* mailbox_poll: the callback of the channel is called with the message.
Poll ==
  /\ Polls /\ outbox # <<>>
  /\ outbox' = Tail(outbox)
  /\ LET cb == cbs[Head(outbox).channel] IN got' = IF cb = Ignore THEN got ELSE got \cup {cb}
  /\ UNCHANGED <<pc, inbox, cbs, prop, heap, rate, card, settings>>

\* The mailbox is drained before the flag is looked at.
Answered == pc[2] = "wait" /\ CallbackOf(ChannelOf(pc[1])) \in got /\ (Polls => outbox = <<>>)

-----------------------------------------------------------------------------
(* platform_setup. *)

KernelEnd == 1      \* __end
RamdiskStart == 8   \* 0x8000000
RamdiskEnd == 12    \* 0xC000000

\* A defect: what is behind the ramdisk is not counted from its end.
RegionsWhole(start, length) ==
  (IF start + length > RamdiskEnd THEN {<<RamdiskEnd, length - KernelEnd>>} ELSE {})
  \cup {<<start, IF start + length > RamdiskStart THEN RamdiskStart - start ELSE length>>}

\* setup_memory, once the kernel is cut off
Regions(start, length) ==
  (IF start + length > RamdiskEnd THEN {<<RamdiskEnd, start + length - RamdiskEnd>>} ELSE {})
  \cup {<<start, IF start + length > RamdiskStart THEN RamdiskStart - start ELSE length>>}

SetupMemory ==
  /\ pc[1] = "memory" /\ Answered
  /\ heap' = Regions(KernelEnd, prop.data - KernelEnd)
  /\ pc' = <<"screen", "ask">>
  /\ UNCHANGED <<asked, outbox, rate, card, settings>>

\* Neither the result of the mode set nor that of the power cycle is acted on.
Following ==
  [screen |-> <<"off", "ask">>, off |-> <<"on", "ask">>, on |-> <<"card", "reset">>]
GoOn ==
  /\ pc[1] \in DOMAIN Following /\ Answered
  /\ pc' = Following[pc[1]]
  /\ UNCHANGED <<asked, outbox, heap, rate, card, settings>>

\* A clock that is not known is taken for 100 MHz.
GetBaseClock ==
  /\ pc[1] = "clock" /\ Answered
  /\ rate' = IF prop.data = 0 THEN 1000 ELSE prop.data
  /\ pc' = <<"card", "enable">>
  /\ UNCHANGED <<asked, outbox, heap, card, settings>>

SetPower ==
  /\ pc[1] = "started"
  /\ pc' = <<"set_power", "ask">>
  /\ UNCHANGED <<asked, outbox, heap, rate, card, settings>>

SetPowerReturns ==
  /\ pc[1] = "set_power" /\ Answered
  /\ pc' = <<"started", "idle">>
  /\ UNCHANGED <<asked, outbox, heap, rate, card, settings>>

-----------------------------------------------------------------------------
(* The SD clock. *)

\* The place of the highest bit of n, which the loop of mmc.cpp:442-455 looks for.
FirstBit(n) == CHOOSE b \in 0 .. 31 : 2 ^ b <= n /\ n < 2 * 2 ^ b

\* A defect: a divisor that is no power of two is rounded down.
GetClockDividerDown(base, target) ==
  LET q == base \div target - (IF base % target # 0 THEN 1 ELSE 0)
  IN  IF target > base THEN 0 ELSE IF q = 0 THEN 1023 ELSE IF FirstBit(q) = 0 THEN 0 ELSE 2 ^ (FirstBit(q) - 1)

\* sd_get_clock_divider: the divisor its encoding stands for.
GetClockDivider(base, target) ==
  LET q == IF target > base THEN 1 ELSE base \div target - (IF base % target # 0 THEN 1 ELSE 0)
      divisor == IF q = 0 THEN 31 ELSE FirstBit(q) + (IF q # 2 ^ FirstBit(q) THEN 1 ELSE 0)
      power == IF divisor = 0 THEN 0 ELSE 2 ^ (divisor - 1)
  IN  IF power >= 1024 THEN 1023 ELSE power

\* What the controller makes of it: base / (2 * divisor), or base.
Times(divisor) == IF divisor = 0 THEN 1 ELSE 2 * divisor

(* sd_card_init up to its first command, and sd_switch_clock_rate. *)

\* What is left in the register by a write that asks for a reset.
AfterReset(written) == IF strict THEN Off ELSE written

\* The copy is taken before the reset, with the enable bits cleared in it.
ResetController ==
  /\ pc = <<"card", "reset">>
  /\ stale' = [control1 EXCEPT !.enable = FALSE, !.sd = FALSE]
  /\ control1' = AfterReset(stale')
  /\ pc' = <<"clock", "ask">>
  /\ UNCHANGED <<asked, outbox, heap, rate, settings>>

EnableClock ==
  /\ pc = <<"card", "enable">>
  /\ control1' = [control1 EXCEPT !.enable = TRUE]
  /\ pc' = <<"card", "divide">>
  /\ UNCHANGED <<asked, outbox, heap, rate, stale, settings>>

\* The divider is put into the copy, which still asks for a reset and has the clock
\* disabled.
SetIdentificationRate ==
  /\ pc = <<"card", "divide">>
  /\ control1' = AfterReset([stale EXCEPT !.divisor = GetClockDivider(rate, 4)])
  /\ pc' = <<"card", "stable">>
  /\ UNCHANGED <<asked, outbox, heap, rate, stale, settings>>

\* The clock is waited for; a timeout ends sd_card_init.
AwaitStable ==
  /\ pc = <<"card", "stable">>
  /\ IF strict /\ ~control1.enable
     THEN pc' = <<"started", "no card">> /\ control1' = control1
     ELSE pc' = <<"card", "identify">> /\ control1' = [control1 EXCEPT !.sd = TRUE]
  /\ UNCHANGED <<asked, outbox, heap, rate, stale, settings>>

\* sd_switch_clock_rate: the clock is off while its divider is changed.
SwitchClockRate ==
  /\ \/ /\ pc = <<"card", "identify">>
        /\ control1' = [control1 EXCEPT !.sd = FALSE]
        /\ pc' = <<"card", "new rate">>
     \/ /\ pc = <<"card", "new rate">>
        /\ control1' = [control1 EXCEPT !.divisor = GetClockDivider(rate, 250)]
        /\ pc' = <<"card", "clock on">>
     \/ /\ pc = <<"card", "clock on">>
        /\ control1' = [control1 EXCEPT !.sd = TRUE]
        /\ pc' = <<"started", "idle">>
  /\ UNCHANGED <<asked, outbox, heap, rate, stale, settings>>

CardClock == ResetController \/ EnableClock \/ SetIdentificationRate \/ AwaitStable \/ SwitchClockRate

-----------------------------------------------------------------------------
Setup == Ask \/ Send \/ Poll \/ SetupMemory \/ GoOn \/ GetBaseClock
         \/ CardClock \/ SetPowerReturns
RpiNext == VcAnswers \/ Setup \/ SetPower

-----------------------------------------------------------------------------
\* What property_read returns is the VideoCore's answer to the question asked
\* (property.cpp:19-33), though one buffer serves all questions, answers to the
\* other requests come in between, and messages may wait from before the start -
\* unless one of those waits on the property channel itself.
AnswersOwn ==
  pc[1] \in {"memory", "off", "on", "clock"} /\ Answered /\ stray # "property" =>
    prop.tag = <<"answers", pc[1]>>

Within(region) == region[1] .. region[1] + region[2] - 1
\* The heap gets all of the memory but the kernel and the ramdisk, whatever part of
\* the ramdisk the memory ends in (rpi/platform.cpp:18-29).
HeapIsTheRest ==
  heap # {} /\ stray # "property" =>
    UNION {Within(r) : r \in heap} = (KernelEnd .. given - 1) \ (RamdiskStart .. RamdiskEnd - 1)

\* The first command finds the card's clock running at the identification rate, and
\* then at the normal rate - on a controller that forgives that the register is written
\* from a copy that asks for another reset and has the clock disabled (mmc.cpp:938-941);
\* on one that does not, no command is ever sent.
CommandsClocked ==
  /\ pc = <<"card", "identify">> =>
       ~strict /\ control1.sd /\ control1.divisor = GetClockDivider(rate, 4)
  /\ pc = <<"started", "idle">> /\ rate # 0 => control1.sd
  /\ pc[1] \in {"started", "set_power"} => (strict <=> ~control1.sd)

PowersOfTwo == {2 ^ b : b \in 0 .. 30}
\* For the identification and the normal rate (400 kHz and 25 MHz) the card's clock
\* is too fast exactly when the quotient has a remainder and is, but for 1, a power of two
\* or one more: for a remainder it is lowered where it should be raised (mmc.cpp:430-433).
TooFastOnlyIf ==
  rate # 0 => \A target \in {4, 250} :
    rate > target * Times(GetClockDivider(rate, target)) <=>
      LET quotient == rate \div target IN
        rate % target # 0 /\ quotient > 1 /\ {quotient, quotient - 1} \cap PowersOfTwo # {}

\* Start-up ends, with the VideoCore's answers to every request, and a set_power that
\* is called never returns: it waits for a flag that only mailbox_poll would set.
StartsUp ==
  /\ <>(pc[1] = "started")
  /\ pc[1] = "set_power" ~> [](pc = <<"set_power", "wait">>)
=============================================================================
