------------------------------ MODULE SdCommand ------------------------------
(***************************************************************************)
(* One command of the SD-card driver (rpi/mmc.cpp): sd_issue_command and   *)
(* what it calls, sd_handle_interrupts and sd_issue_command_int, between   *)
(* the driver, which polls, and the controller, which goes on meanwhile.   *)
(*                                                                         *)
(* The interrupt register is a set of bits the controller adds to and the  *)
(* driver clears; a read and the write that clears what was read are two   *)
(* accesses, and the controller may add a bit in between.  A command whose *)
(* block is not there when the driver gives up leaves the controller busy  *)
(* with it, so its answer can come when another command is under way.      *)
(*                                                                         *)
(* Left out: the contents of responses and blocks (a block is known by the *)
(* call it belongs to and its number), and SD_CARD_INTERRUPT, which the    *)
(* driver masks when it starts (mmc.cpp:962-963).                          *)
(***************************************************************************)
EXTENDS Integers, Sequences

CONSTANTS
  MaxBlocks,  \* bound: blocks of a transfer
  MaxCalls,   \* bound: calls of sd_issue_command
  MaxFaults,  \* bound: errors the controller reports
  Removable   \* whether the card can be taken out and put back

ASSUME SdCommandAssumption ==
  /\ MaxBlocks \in Nat /\ MaxCalls \in Nat /\ MaxFaults \in Nat
  /\ Removable \in BOOLEAN

\* The commands of the tables: what kind, how many blocks, and whether it is
\* preceded by APP_CMD.  "busy" has an R1b answer; "abort" is STOP_TRANSMISSION.
Kinds == {"plain", "busy", "abort", "read", "write"}
HasData(c) == c.kind \in {"read", "write"}
HoldsData(c) == c.kind \in {"busy", "abort", "read", "write"}
Commands ==
  {[kind |-> k, blocks |-> n, app |-> a] :
     k \in Kinds, n \in 0 .. MaxBlocks, a \in BOOLEAN}
AppCmd == [kind |-> "plain", blocks |-> 0, app |-> FALSE]
Issuable(c) == /\ HasData(c) <=> c.blocks > 0
               /\ c.app => c.kind = "plain" \/ (c.kind = "read" /\ c.blocks = 1)

DataErrors == {"data_timeout", "data_crc"}
Errors == DataErrors \cup {"cmd_timeout"}
Ready(c) == IF c.kind = "write" THEN "write_ready" ELSE "read_ready"
Bits == Errors \cup {"command", "transfer", "read_ready", "write_ready", "removal", "insertion"}

VARIABLES
  \* the controller and the card
  irpt,      \* regs->interrupt
  line,      \* the command on the command line, as a sequence of at most one
  dat,       \* the command that holds the data lines, likewise
  sent,      \* blocks of it that were ready
  fifo,      \* the block that is ready, likewise: <<call, number>>
  faults,    \* number of errors reported
  present,   \* the card is in
  \* the driver
  pc,        \* where it is
  cmd,       \* the command of the call
  app,       \* TRUE while the APP_CMD before it is under way
  irpts,     \* the local copy of the interrupt register
  cur,       \* cur_block
  got,       \* the blocks moved
  success,   \* last_cmd_success
  error,     \* last_error
  removed,   \* card_removal
  \* history
  calls,     \* number of calls
  expired,   \* a wait of this call ran to its end
  faulted,   \* an error was reported during this call
  unanswered,\* some call ended with its command still on the line
  handled    \* this call found the removal of the card pending

hw == <<irpt, line, dat, sent, fifo, faults, present>>
driver == <<pc, cmd, app, irpts, cur, got, success, error, removed>>
history == <<calls, expired, faulted, handled, unanswered>>
vars == <<hw, driver, history>>

Init ==
  /\ irpt = {} /\ line = <<>> /\ dat = <<>> /\ sent = 0 /\ fifo = <<>>
  /\ faults = 0 /\ present = TRUE
  /\ pc = "idle" /\ cmd = AppCmd /\ app = FALSE /\ irpts = {} /\ cur = 0
  /\ got = <<>> /\ success = FALSE /\ error = {} /\ removed = FALSE
  /\ calls = 0 /\ expired = FALSE /\ faulted = FALSE /\ handled = FALSE
  /\ unanswered = FALSE

-----------------------------------------------------------------------------
(* The controller. *)

Raise(bits) == irpt' = irpt \cup bits

\* The card answers.  While it holds the data lines it takes no other command
\* that needs them, but for the one that stops it.
Answers ==
  /\ line # <<>> /\ present
  /\ HoldsData(line[1].cmd) /\ line[1].cmd.kind # "abort" => dat = <<>>
  /\ Raise({"command"})
  /\ line' = <<>>
  /\ IF HoldsData(line[1].cmd) THEN dat' = line /\ sent' = 0 /\ fifo' = <<>>
     ELSE UNCHANGED <<dat, sent, fifo>>
  /\ UNCHANGED <<faults, present, driver, history>>

\* No answer, because of a fault or because the card cannot give one.
NoAnswer ==
  /\ line # <<>>
  /\ \/ faults < MaxFaults /\ faults' = faults + 1
     \/ /\ ~present \/ (HoldsData(line[1].cmd) /\ line[1].cmd.kind # "abort" /\ dat # <<>>)
        /\ faults' = faults
  /\ Raise({"cmd_timeout"})
  /\ line' = <<>>
  /\ faulted' = TRUE
  /\ UNCHANGED <<dat, sent, fifo, present, driver, calls, expired, handled, unanswered>>

\* The next block is there to be read, or there is room for it to be written.
BlockReady ==
  /\ dat # <<>> /\ fifo = <<>> /\ present
  /\ sent < dat[1].cmd.blocks
  /\ sent' = sent + 1
  /\ fifo' = <<<<dat[1].call, sent + 1>>>>
  /\ Raise({Ready(dat[1].cmd)})
  /\ UNCHANGED <<line, dat, faults, present, driver, history>>

\* All blocks have been moved, or the card is no longer busy.  The time the data
\* took may have run out at the same moment.
TransferDone ==
  /\ dat # <<>> /\ fifo = <<>> /\ sent = dat[1].cmd.blocks
  /\ \/ Raise({"transfer"}) /\ UNCHANGED <<faults, faulted>>
     \/ /\ faults < MaxFaults /\ faults' = faults + 1 /\ faulted' = TRUE
        /\ Raise({"transfer", "data_timeout"})
  /\ dat' = <<>>
  /\ UNCHANGED <<line, sent, fifo, present, driver, calls, expired, handled, unanswered>>

\* A block that could not be read never becomes ready.
DataError ==
  /\ dat # <<>>
  /\ dat[1].cmd.kind = "read" => fifo = <<>> /\ sent < dat[1].cmd.blocks
  /\ \/ faults < MaxFaults /\ faults' = faults + 1
     \/ ~present /\ faults' = faults
  /\ \E e \in DataErrors : Raise({e})
  /\ dat' = <<>> /\ fifo' = <<>>
  /\ faulted' = TRUE
  /\ UNCHANGED <<line, sent, present, driver, calls, expired, handled, unanswered>>

Remove ==
  /\ Removable /\ present
  /\ present' = FALSE /\ Raise({"removal"})
  /\ UNCHANGED <<line, dat, sent, fifo, faults, driver, history>>

Insert ==
  /\ ~present
  /\ present' = TRUE /\ Raise({"insertion"})
  /\ UNCHANGED <<line, dat, sent, fifo, faults, driver, history>>

Controller ==
  Answers \/ NoAnswer \/ BlockReady \/ TransferDone \/ DataError \/ Remove \/ Insert

-----------------------------------------------------------------------------
(* The driver. *)

Goto(p) == pc' = p
\* A defect: last_error keeps what it was.
FailKeepsError(e) == success' = FALSE /\ error' = error /\ Goto("idle")

Fail(e) == success' = FALSE /\ error' = e /\ Goto("idle")
Succeed == success' = TRUE /\ Goto("idle") /\ UNCHANGED error

\* sd_issue_command is called.
Call(c) ==
  /\ pc = "idle" /\ calls < MaxCalls
  /\ calls' = calls + 1
  /\ cmd' = c /\ app' = c.app /\ got' = <<>> /\ cur' = 0
  /\ expired' = FALSE /\ faulted' = FALSE /\ handled' = FALSE
  /\ Goto("pending")
  /\ UNCHANGED <<hw, irpts, success, error, removed, unanswered>>

\* sd_handle_interrupts: sd_reset_dat for a block nobody waits for.
ReadPending ==
  /\ pc = "pending"
  /\ irpts' = irpt
  /\ IF irpt \cap {"read_ready", "write_ready"} # {}
     THEN dat' = <<>> /\ fifo' = <<>> /\ sent' = 0
     ELSE UNCHANGED <<dat, fifo, sent>>
  /\ removed' = (removed \/ "removal" \in irpt)
  /\ handled' = ("removal" \in irpt)
  /\ Goto("clear_pending")
  /\ UNCHANGED <<irpt, line, faults, present, cmd, app, cur, got, success, error,
                 calls, expired, faulted, unanswered>>

\* ... and the end of it: what was seen is cleared, every error if there was one.
\* A removed card takes no command.
ClearPending ==
  /\ pc = "clear_pending"
  /\ irpt' = irpt \ (irpts \cup IF irpts \cap Errors # {} THEN Errors ELSE {})
  /\ IF removed THEN Fail(error) ELSE Goto("issue") /\ UNCHANGED <<success, error>>
  /\ UNCHANGED <<line, dat, sent, fifo, faults, present, cmd, app, irpts, cur, got,
                 removed, history>>

\* The command the register is written with: APP_CMD first, if there is one.
Current == IF app THEN AppCmd ELSE cmd

\* A defect: every command waits for the data lines.
IssueWaitsForData ==
  /\ pc = "issue" /\ line = <<>> /\ dat = <<>>
  /\ line' = <<[call |-> calls, cmd |-> Current]>>
  /\ success' = FALSE
  /\ Goto("await_command")
  /\ UNCHANGED <<irpt, dat, sent, fifo, faults, present, cmd, app, irpts, cur, got, error,
                 removed, history>>

\* sd_issue_command_int up to the write of the command register.  The waits for
\* the lines have no limit.
Issue ==
  /\ pc = "issue" /\ line = <<>>
  /\ Current.kind = "busy" => dat = <<>>
  /\ line' = <<[call |-> calls, cmd |-> Current]>>
  /\ success' = FALSE
  /\ Goto("await_command")
  /\ UNCHANGED <<irpt, dat, sent, fifo, faults, present, cmd, app, irpts, cur, got, error,
                 removed, history>>

\* TIMEOUT_WAIT for one of the bits, or for an error; then the register is read.
Awaits ==
  CASE pc = "await_command" -> "command"
    [] pc = "await_block" -> Ready(cmd)
    [] pc = "await_transfer" -> "transfer"
    [] OTHER -> "none"
After == [await_command |-> "check_command", await_block |-> "check_block",
          await_transfer |-> "check_transfer"]

Await ==
  /\ Awaits # "none"
  /\ irpt \cap ({Awaits} \cup Errors) # {}
  /\ irpts' = irpt
  /\ Goto(After[pc])
  /\ UNCHANGED <<hw, cmd, app, cur, got, success, error, removed, history>>

Expire ==
  /\ Awaits # "none"
  /\ irpts' = irpt
  /\ expired' = TRUE
  /\ Goto(After[pc])
  /\ UNCHANGED <<hw, cmd, app, cur, got, success, error, removed, calls, faulted, handled, unanswered>>

\* A defect: the last block is not waited for.
NextBlockShort(n) ==
  CASE ~HoldsData(cmd) -> "idle"
    [] HasData(cmd) /\ n + 1 < cmd.blocks -> "await_block"
    [] OTHER -> "transfer"

\* Where the call goes when the card has taken the command, or a block.  For one
\* block the wait is not there: the `if` of line 621 has it for its body.
NextBlock(n) ==
  CASE ~HoldsData(cmd) -> "idle"
    [] HasData(cmd) /\ n < cmd.blocks /\ cmd.blocks > 1 -> "await_block"
    [] HasData(cmd) /\ n < cmd.blocks /\ cmd.blocks = 1 -> "read_block"
    [] OTHER -> "transfer"

\* The end of the wait for the command.
CheckCommand ==
  /\ pc = "check_command"
  /\ irpt' = irpt \ (Errors \cup {"command"})
  /\ IF irpts \cap (Errors \cup {"command"}) # {"command"}
     THEN Fail(irpts \cap Errors) /\ UNCHANGED app
     ELSE IF app THEN app' = FALSE /\ Goto("issue") /\ UNCHANGED <<success, error>>
     ELSE /\ Goto(NextBlock(0)) /\ success' = (NextBlock(0) = "idle")
          /\ UNCHANGED <<app, error>>
  /\ unanswered' = (unanswered \/ (pc' = "idle" /\ line # <<>>))
  /\ UNCHANGED <<line, dat, sent, fifo, faults, present, cmd, irpts, cur, got, removed,
                 calls, expired, faulted, handled>>

\* The register is read without a wait.
ReadBlockBits ==
  /\ pc = "read_block"
  /\ irpts' = irpt
  /\ Goto("check_block")
  /\ UNCHANGED <<hw, cmd, app, cur, got, success, error, removed, history>>

\* The block is moved if its bit is there and no error is.
CheckBlock ==
  /\ pc = "check_block"
  /\ irpt' = irpt \ (Errors \cup {Ready(cmd)})
  /\ IF irpts \cap (Errors \cup {Ready(cmd)}) # {Ready(cmd)}
     THEN Fail(irpts \cap Errors) /\ UNCHANGED <<fifo, got, cur>>
     ELSE /\ got' = got \o fifo /\ fifo' = <<>>
          /\ cur' = cur + 1
          /\ Goto(NextBlock(cur + 1)) /\ UNCHANGED <<success, error>>
  /\ UNCHANGED <<line, dat, sent, faults, present, cmd, app, irpts, removed, history>>

\* Free data lines are taken for the end of the transfer.
CheckLines ==
  /\ pc = "transfer"
  /\ IF dat = <<>>
     THEN irpt' = irpt \ (Errors \cup {"transfer"}) /\ Succeed
     ELSE Goto("await_transfer") /\ UNCHANGED <<irpt, success, error>>
  /\ UNCHANGED <<line, dat, sent, fifo, faults, present, cmd, app, irpts, cur, got, removed,
                 history>>

\* The end of the transfer overrides a data timeout.
CheckTransfer ==
  /\ pc = "check_transfer"
  /\ irpt' = irpt \ (Errors \cup {"transfer"})
  /\ IF irpts \cap (Errors \cup {"transfer"}) \in {{"transfer"}, {"transfer", "data_timeout"}}
     THEN Succeed ELSE Fail(irpts \cap Errors)
  /\ UNCHANGED <<line, dat, sent, fifo, faults, present, cmd, app, irpts, cur, got, removed,
                 history>>

Step ==
  \/ ReadPending \/ ClearPending \/ Issue \/ Await
  \/ CheckCommand \/ ReadBlockBits \/ CheckBlock \/ CheckLines \/ CheckTransfer

Next ==
  \/ \E c \in Commands : Issuable(c) /\ Call(c)
  \/ Step \/ Expire
  \/ Controller

Spec == Init /\ [][Next]_vars

\* The driver runs; its waits end; the controller answers the command on the line,
\* if only with an error.
FairSpec ==
  Spec /\ WF_vars(Step) /\ WF_vars(Expire) /\ WF_vars(Answers \/ NoAnswer)

-----------------------------------------------------------------------------
Returned == pc = "idle" /\ calls > 0

\* A read that reports success has put the blocks of this very command into the
\* buffer, each once and in order, whatever an earlier command whose data was given
\* up left behind in the controller (mmc.cpp:604-656, 716-786).  An earlier command
\* that was given up before its answer can break this: the answer may come between
\* sd_handle_interrupts and the wait for the command line (536), and be taken for
\* the answer of the next command.
SuccessMeansRead ==
  Returned /\ success /\ cmd.kind = "read" /\ ~unanswered =>
    got = [i \in 1 .. cmd.blocks |-> <<calls, i>>]

\* A failure has a cause, and last_error tells which, as the macros TIMEOUT and
\* CMD_TIMEOUT (152-165) take it to: no bit, a wait ran to its end; a bit, the
\* controller reported an error.  Not so when the card was removed, nor for the
\* one block that is not waited for.
FailureExplained ==
  Returned /\ ~success /\ ~removed /\ cmd.blocks # 1 =>
    /\ error = {} => expired
    /\ error # {} => faulted

\* The comment at mmc.cpp:604: with data, the driver waits for the appropriate
\* interrupt.  So it does not give up on a block while there is time.
DataAwaited ==
  Returned /\ ~success /\ ~removed /\ HasData(cmd) => expired \/ faulted

\* Every call returns, though the wait for the command line has no limit (536).  A
\* busy command also waits for the data lines (546), which a block that nobody
\* fetches any more can hold for ever, and is not promised to return.
CallReturns == pc # "idle" /\ cmd.kind # "busy" ~> pc = "idle"
=============================================================================
