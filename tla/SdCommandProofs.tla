--------------------------- MODULE SdCommandProofs ---------------------------
(***************************************************************************)
(* What a command of the SD-card driver may claim (module SdCommand), for  *)
(* any number of calls, blocks and errors: a read that reports success has *)
(* read its own blocks, and a failure has a cause that last_error tells.   *)
(***************************************************************************)
EXTENDS SdCommand, TLAPS

Issued == {c \in Commands : Issuable(c)}
Jobs == [call : Nat, cmd : Issued]
AtMostOne(S) == {<<>>} \cup {<<e>> : e \in S}

Moves == {"await_block", "read_block", "check_block"}
Ends == {"transfer", "await_transfer", "check_transfer"}
Asks == {"await_command", "check_command"}

TypeOK ==
  /\ irpt \subseteq Bits /\ irpts \subseteq Bits
  /\ line \in AtMostOne(Jobs) /\ dat \in AtMostOne(Jobs)
  /\ sent \in Nat /\ cur \in Nat /\ calls \in Nat
  /\ fifo \in AtMostOne(Nat \X Nat) /\ got \in Seq(Nat \X Nat)
  /\ pc \in {"idle", "pending", "clear_pending", "issue"} \cup Asks \cup Moves \cup Ends
  /\ cmd \in Issued
  /\ app \in BOOLEAN /\ success \in BOOLEAN /\ removed \in BOOLEAN
  /\ expired \in BOOLEAN /\ faulted \in BOOLEAN /\ unanswered \in BOOLEAN

\* Between the read of the interrupt register and the write that clears what was read,
\* only the controller changes it.
CopyOK ==
  pc \in {"clear_pending", "check_command", "check_block", "check_transfer"} => irpts \subseteq irpt

\* The command on the line is the driver's, which waits for it, until it is answered;
\* so is an answer that nobody has looked at.
LineOK ==
  ~unanswered =>
    /\ line # <<>> =>
         pc \in Asks /\ line = <<[call |-> calls, cmd |-> Current]>> /\ "command" \notin irpt
    /\ "command" \in irpt => pc \in Asks

\* How many blocks have been moved where the driver is.
PlaceOK ==
  /\ pc \in {"pending", "clear_pending", "issue"} \cup Asks => cur = 0
  /\ pc \in Moves => HasData(cmd) /\ cur < cmd.blocks
  /\ pc = "read_block" => cmd.blocks = 1
  /\ pc \in Ends /\ HasData(cmd) => cur = cmd.blocks

\* A bit that says a block can be read is there because one is.
BlockThere == fifo # <<>> /\ dat # <<>> /\ dat[1].cmd.kind = "read"

\* The card has taken the command of this call.
Answered == pc \in Moves \cup Ends \/ (pc \in Asks /\ "command" \in irpt /\ ~app)

DataOK ==
  /\ ~unanswered /\ pc = "clear_pending" => ("read_ready" \in irpt \ irpts => BlockThere)
  /\ ~unanswered /\ cmd.kind = "read" /\ pc \notin {"idle", "pending", "clear_pending"} =>
       /\ "read_ready" \in irpt => BlockThere
       /\ Answered => /\ dat \in {<<>>, <<[call |-> calls, cmd |-> cmd]>>}
                      /\ \/ fifo = <<>> /\ sent = cur
                         \/ fifo = <<<<calls, sent>>>> /\ dat # <<>> /\ sent = cur + 1
  /\ ~unanswered /\ cmd.kind = "read" /\ pc # "idle" => got = [i \in 1 .. cur |-> <<calls, i>>]

\* Errors that are seen belong to this call, and a wait that did not run out saw a bit.
CauseOK ==
  /\ ~faulted => /\ pc = "clear_pending" => (irpt \ irpts) \cap Errors = {}
                 /\ pc \notin {"idle", "pending", "clear_pending"} => irpt \cap Errors = {}
  /\ ~expired =>
       /\ pc = "check_command" => irpts \cap ({"command"} \cup Errors) # {}
       /\ pc = "check_block" /\ cmd.blocks # 1 => irpts \cap ({Ready(cmd)} \cup Errors) # {}
       /\ pc = "check_transfer" => irpts \cap ({"transfer"} \cup Errors) # {}

IInv ==
  /\ TypeOK /\ CopyOK /\ LineOK /\ PlaceOK /\ DataOK /\ CauseOK
  /\ SuccessMeansRead /\ FailureExplained


\* What the tables of commands give.
LEMMA IssuedFacts ==
  ASSUME NEW c \in Issued
  PROVE  /\ c.kind \in Kinds /\ c.blocks \in Nat
         /\ HasData(c) <=> c.blocks > 0
  BY SdCommandAssumption DEF Issued, Commands, Issuable

LEMMA AppCmdIssued == AppCmd \in Issued
<1>1. "plain" \in Kinds /\ 0 \in 0 .. MaxBlocks /\ FALSE \in BOOLEAN
  BY SdCommandAssumption DEF Kinds
<1>2. \E k \in Kinds, n \in 0 .. MaxBlocks, a \in BOOLEAN :
        AppCmd = [kind |-> k, blocks |-> n, app |-> a]
  BY <1>1, Zenon DEF AppCmd
<1>3. Issuable(AppCmd)
  BY DEF AppCmd, Issuable, HasData
<1> QED
  BY <1>2, <1>3 DEF Issued, Commands

LEMMA CurrentIssued == TypeOK => Current \in Issued
  BY AppCmdIssued DEF TypeOK, Current

\* Where a command goes that has moved n of its blocks.
LEMMA NextBlockFacts ==
  ASSUME TypeOK, NEW n \in Nat, n = 0 \/ (HasData(cmd) /\ n <= cmd.blocks)
  PROVE  /\ NextBlock(n) \in {"idle", "await_block", "read_block", "transfer"}
         /\ NextBlock(n) = "idle" <=> ~HoldsData(cmd)
         /\ NextBlock(n) \in {"await_block", "read_block"} => HasData(cmd) /\ n < cmd.blocks
         /\ NextBlock(n) = "read_block" => cmd.blocks = 1
         /\ NextBlock(n) = "transfer" /\ HasData(cmd) => n = cmd.blocks
<1>1. cmd.blocks \in Nat /\ (HasData(cmd) <=> cmd.blocks > 0)
  BY IssuedFacts DEF TypeOK
<1> QED
  BY <1>1 DEF NextBlock, HasData, HoldsData

LEMMA AnswersIInv ==
  ASSUME IInv, Answers
  PROVE  IInv'
<1>1. TypeOK'
  BY DEF IInv, Answers, Raise, TypeOK, AtMostOne, Bits, driver, history
<1>2. CopyOK'
  BY DEF IInv, Answers, Raise, CopyOK, driver
<1>3. LineOK'
  BY DEF IInv, Answers, LineOK, driver, history
<1>4. PlaceOK'
  BY DEF IInv, Answers, PlaceOK, driver
<1>5. DataOK'
  BY DEF IInv, Answers, Raise, LineOK, PlaceOK, DataOK, BlockThere, Answered, Asks, HoldsData,
         Current, AppCmd, driver, history
<1>6. CauseOK'
  BY DEF IInv, Answers, Raise, CauseOK, Errors, DataErrors, driver, history
<1>7. SuccessMeansRead'
  BY DEF IInv, Answers, SuccessMeansRead, Returned, driver, history
<1>8. FailureExplained'
  BY DEF IInv, Answers, FailureExplained, Returned, driver, history
<1> QED
  BY <1>1, <1>2, <1>3, <1>4, <1>5, <1>6, <1>7, <1>8 DEF IInv

LEMMA NoAnswerIInv ==
  ASSUME IInv, NoAnswer
  PROVE  IInv'
<1>1. TypeOK'
  BY DEF IInv, NoAnswer, Raise, TypeOK, AtMostOne, Bits, Errors, driver
<1>2. CopyOK'
  BY DEF IInv, NoAnswer, Raise, CopyOK, driver
<1>3. LineOK'
  BY DEF IInv, NoAnswer, Raise, LineOK
<1>4. PlaceOK'
  BY DEF IInv, NoAnswer, PlaceOK, driver
<1>5. DataOK'
  BY DEF IInv, NoAnswer, Raise, DataOK, BlockThere, Answered, driver
<1>6. CauseOK'
  BY DEF IInv, NoAnswer, CauseOK, driver
<1>7. SuccessMeansRead'
  BY DEF IInv, NoAnswer, SuccessMeansRead, Returned, driver
<1>8. FailureExplained'
  BY DEF IInv, NoAnswer, FailureExplained, Returned, driver
<1> QED
  BY <1>1, <1>2, <1>3, <1>4, <1>5, <1>6, <1>7, <1>8 DEF IInv

LEMMA BlockReadyIInv ==
  ASSUME IInv, BlockReady
  PROVE  IInv'
<1>1. TypeOK'
  BY DEF IInv, BlockReady, Raise, TypeOK, Jobs, AtMostOne, Moves, Bits, Ready, driver, history
<1>2. CopyOK'
  BY DEF IInv, BlockReady, Raise, CopyOK, driver
<1>3. LineOK'
  BY DEF IInv, BlockReady, Raise, LineOK, Current, Ready, driver, history
<1>4. PlaceOK'
  BY DEF IInv, BlockReady, PlaceOK, driver
<1>5. DataOK'
  BY DEF IInv, BlockReady, Raise, TypeOK, DataOK, BlockThere, Answered, HasData, Jobs,
         AtMostOne, Issued, Commands, Issuable, Ready, driver, history
<1>6. CauseOK'
  BY DEF IInv, BlockReady, Raise, CauseOK, Errors, DataErrors, Ready, driver, history
<1>7. SuccessMeansRead'
  BY DEF IInv, BlockReady, SuccessMeansRead, Returned, driver, history
<1>8. FailureExplained'
  BY DEF IInv, BlockReady, FailureExplained, Returned, driver, history
<1> QED
  BY <1>1, <1>2, <1>3, <1>4, <1>5, <1>6, <1>7, <1>8 DEF IInv

LEMMA TransferDoneIInv ==
  ASSUME IInv, TransferDone
  PROVE  IInv'
<1>1. TypeOK'
  BY DEF IInv, TransferDone, Raise, TypeOK, AtMostOne, Bits, Errors, DataErrors, driver
<1>2. CopyOK'
  BY DEF IInv, TransferDone, Raise, CopyOK, driver
<1>3. LineOK'
  BY DEF IInv, TransferDone, Raise, LineOK, Current, driver
<1>4. PlaceOK'
  BY DEF IInv, TransferDone, PlaceOK, driver
<1>5. DataOK'
  BY DEF IInv, TransferDone, Raise, DataOK, BlockThere, Answered, driver
<1>6. CauseOK'
  BY DEF IInv, TransferDone, Raise, CauseOK, Errors, DataErrors, driver
<1>7. SuccessMeansRead'
  BY DEF IInv, TransferDone, SuccessMeansRead, Returned, driver
<1>8. FailureExplained'
  BY DEF IInv, TransferDone, FailureExplained, Returned, driver
<1> QED
  BY <1>1, <1>2, <1>3, <1>4, <1>5, <1>6, <1>7, <1>8 DEF IInv

LEMMA DataErrorIInv ==
  ASSUME IInv, DataError
  PROVE  IInv'
<1>1. TypeOK'
  BY DEF IInv, DataError, Raise, TypeOK, AtMostOne, Bits, Errors, driver
<1>2. CopyOK'
  BY DEF IInv, DataError, Raise, CopyOK, driver
<1>3. LineOK'
  BY DEF IInv, DataError, Raise, LineOK, Current, DataErrors, driver
<1>4. PlaceOK'
  BY DEF IInv, DataError, PlaceOK, driver
<1>5. DataOK'
  BY DEF IInv, DataError, Raise, DataOK, BlockThere, Answered, DataErrors, driver
<1>6. CauseOK'
  BY DEF IInv, DataError, CauseOK, driver
<1>7. SuccessMeansRead'
  BY DEF IInv, DataError, SuccessMeansRead, Returned, driver
<1>8. FailureExplained'
  BY DEF IInv, DataError, FailureExplained, Returned, driver
<1> QED
  BY <1>1, <1>2, <1>3, <1>4, <1>5, <1>6, <1>7, <1>8 DEF IInv

LEMMA RemoveIInv ==
  ASSUME IInv, Remove
  PROVE  IInv'
<1>1. TypeOK'
  BY DEF IInv, Remove, Raise, TypeOK, Bits, driver, history
<1>2. CopyOK'
  BY DEF IInv, Remove, Raise, CopyOK, driver
<1>3. LineOK'
  BY DEF IInv, Remove, Raise, LineOK, Current, driver, history
<1>4. PlaceOK'
  BY DEF IInv, Remove, PlaceOK, driver
<1>5. DataOK'
  BY DEF IInv, Remove, Raise, DataOK, BlockThere, Answered, driver, history
<1>6. CauseOK'
  BY DEF IInv, Remove, Raise, CauseOK, Errors, DataErrors, driver, history
<1>7. SuccessMeansRead'
  BY DEF IInv, Remove, SuccessMeansRead, Returned, driver, history
<1>8. FailureExplained'
  BY DEF IInv, Remove, FailureExplained, Returned, driver, history
<1> QED
  BY <1>1, <1>2, <1>3, <1>4, <1>5, <1>6, <1>7, <1>8 DEF IInv

LEMMA InsertIInv ==
  ASSUME IInv, Insert
  PROVE  IInv'
<1>1. TypeOK'
  BY DEF IInv, Insert, Raise, TypeOK, Bits, driver, history
<1>2. CopyOK'
  BY DEF IInv, Insert, Raise, CopyOK, driver
<1>3. LineOK'
  BY DEF IInv, Insert, Raise, LineOK, Current, driver, history
<1>4. PlaceOK'
  BY DEF IInv, Insert, PlaceOK, driver
<1>5. DataOK'
  BY DEF IInv, Insert, Raise, DataOK, BlockThere, Answered, driver, history
<1>6. CauseOK'
  BY DEF IInv, Insert, Raise, CauseOK, Errors, DataErrors, driver, history
<1>7. SuccessMeansRead'
  BY DEF IInv, Insert, SuccessMeansRead, Returned, driver, history
<1>8. FailureExplained'
  BY DEF IInv, Insert, FailureExplained, Returned, driver, history
<1> QED
  BY <1>1, <1>2, <1>3, <1>4, <1>5, <1>6, <1>7, <1>8 DEF IInv

LEMMA ReadPendingIInv ==
  ASSUME IInv, ReadPending
  PROVE  IInv'
<1>1. TypeOK'
  BY DEF IInv, ReadPending, Goto, TypeOK, AtMostOne
<1>2. CopyOK'
  BY DEF ReadPending, CopyOK
<1>3. LineOK'
  BY DEF IInv, ReadPending, LineOK, Asks
<1>4. PlaceOK'
  BY DEF IInv, ReadPending, Goto, PlaceOK, Moves, Ends
<1>5. DataOK'
  BY DEF IInv, ReadPending, Goto, DataOK
<1>6. CauseOK'
  BY DEF ReadPending, Goto, CauseOK
<1>7. SuccessMeansRead'
  BY DEF ReadPending, Goto, SuccessMeansRead, Returned
<1>8. FailureExplained'
  BY DEF ReadPending, Goto, FailureExplained, Returned
<1> QED
  BY <1>1, <1>2, <1>3, <1>4, <1>5, <1>6, <1>7, <1>8 DEF IInv

LEMMA ClearPendingIInv ==
  ASSUME IInv, ClearPending
  PROVE  IInv'
<1>1. TypeOK'
  BY DEF IInv, ClearPending, Goto, Fail, TypeOK, history
<1>2. CopyOK'
  BY DEF ClearPending, Goto, Fail, CopyOK
<1>3. LineOK'
  BY DEF IInv, ClearPending, LineOK, Asks, history
<1>4. PlaceOK'
  BY DEF IInv, ClearPending, Goto, Fail, PlaceOK, Moves, Ends
<1>5. DataOK'
  BY DEF IInv, ClearPending, Goto, Fail, DataOK, BlockThere, Answered, Moves, Ends, Asks,
         history
<1>6. CauseOK'
  BY DEF IInv, ClearPending, Goto, Fail, CauseOK, history
<1>7. SuccessMeansRead'
  BY DEF ClearPending, Goto, Fail, SuccessMeansRead, Returned
<1>8. FailureExplained'
  BY DEF ClearPending, Goto, FailureExplained, Returned
<1> QED
  BY <1>1, <1>2, <1>3, <1>4, <1>5, <1>6, <1>7, <1>8 DEF IInv

LEMMA IssueIInv ==
  ASSUME IInv, Issue
  PROVE  IInv'
<1>1. TypeOK'
  BY CurrentIssued DEF IInv, Issue, Goto, TypeOK, Jobs, AtMostOne, Asks, history
<1>2. CopyOK'
  BY DEF Issue, Goto, CopyOK
<1>3. LineOK'
  BY DEF IInv, Issue, Goto, LineOK, Current, Asks, history
<1>4. PlaceOK'
  BY DEF IInv, Issue, Goto, PlaceOK, Moves, Ends
<1>5. DataOK'
  BY DEF IInv, Issue, Goto, LineOK, DataOK, BlockThere, Answered, Moves, Ends, history
<1>6. CauseOK'
  BY DEF IInv, Issue, Goto, CauseOK, history
<1>7. SuccessMeansRead'
  BY DEF Issue, SuccessMeansRead
<1>8. FailureExplained'
  BY DEF Issue, Goto, FailureExplained, Returned
<1> QED
  BY <1>1, <1>2, <1>3, <1>4, <1>5, <1>6, <1>7, <1>8 DEF IInv

LEMMA AwaitIInv ==
  ASSUME IInv, Await
  PROVE  IInv'
<1>1. TypeOK'
  BY DEF IInv, Await, Goto, Awaits, After, TypeOK, Moves, Ends, Asks, hw, history
<1>2. CopyOK'
  BY DEF Await, CopyOK, hw
<1>3. LineOK'
  BY DEF IInv, Await, Goto, Awaits, After, LineOK, Current, Asks, hw, history
<1>4. PlaceOK'
  BY DEF IInv, Await, Goto, Awaits, After, PlaceOK, Moves, Ends, Asks
<1>5. DataOK'
  BY DEF IInv, Await, Goto, Awaits, After, TypeOK, DataOK, BlockThere, Answered, Moves, Ends,
         hw, history
<1>6. CauseOK'
  BY DEF IInv, Await, Goto, Awaits, After, CauseOK, hw, history
<1>7. SuccessMeansRead'
  BY DEF Await, Goto, Awaits, After, SuccessMeansRead, Returned
<1>8. FailureExplained'
  BY DEF Await, Goto, Awaits, After, FailureExplained, Returned
<1> QED
  BY <1>1, <1>2, <1>3, <1>4, <1>5, <1>6, <1>7, <1>8 DEF IInv

LEMMA ExpireIInv ==
  ASSUME IInv, Expire
  PROVE  IInv'
<1>1. TypeOK'
  BY DEF IInv, Expire, Goto, Awaits, After, TypeOK, Moves, Ends, Asks, hw
<1>2. CopyOK'
  BY DEF Expire, CopyOK, hw
<1>3. LineOK'
  BY DEF IInv, Expire, Goto, Awaits, After, LineOK, Current, Asks, hw
<1>4. PlaceOK'
  BY DEF IInv, Expire, Goto, Awaits, After, PlaceOK, Moves, Ends, Asks
<1>5. DataOK'
  BY DEF IInv, Expire, Goto, Awaits, After, TypeOK, DataOK, BlockThere, Answered, Moves, Ends,
         hw
<1>6. CauseOK'
  BY DEF IInv, Expire, Awaits, CauseOK, hw
<1>7. SuccessMeansRead'
  BY DEF Expire, Goto, Awaits, After, SuccessMeansRead, Returned
<1>8. FailureExplained'
  BY DEF Expire, Goto, Awaits, After, FailureExplained, Returned
<1> QED
  BY <1>1, <1>2, <1>3, <1>4, <1>5, <1>6, <1>7, <1>8 DEF IInv

LEMMA CheckCommandIInv ==
  ASSUME IInv, CheckCommand
  PROVE  IInv'
<1>1. TypeOK'
  BY DEF IInv, CheckCommand, Goto, Fail, NextBlock, TypeOK, Moves, Ends
<1>2. CopyOK'
  BY DEF CheckCommand, Goto, Fail, NextBlock, CopyOK
<1>3. LineOK'
  BY DEF IInv, CheckCommand, Goto, Fail, CopyOK, LineOK
<1>4. PlaceOK'
  <2>1. cmd.blocks \in Nat /\ cur = 0
    BY IssuedFacts DEF IInv, TypeOK, PlaceOK, CheckCommand, Asks
  <2>2. pc' \in {"idle", "issue", NextBlock(0)} /\ cur' = 0 /\ cmd' = cmd
    BY <2>1 DEF CheckCommand, Goto, Fail
  <2> QED
    BY <2>1, <2>2, NextBlockFacts DEF IInv, PlaceOK, Moves, Ends
<1>5. DataOK'
  BY DEF IInv, CheckCommand, Goto, Fail, NextBlock, TypeOK, CopyOK, DataOK, BlockThere,
         Answered, Moves, Ends
<1>6. CauseOK'
  BY DEF IInv, CheckCommand, Goto, NextBlock, CauseOK
<1>7. SuccessMeansRead'
  BY DEF CheckCommand, Goto, Fail, NextBlock, SuccessMeansRead, Returned, HoldsData
<1>8. FailureExplained'
  BY DEF IInv, CheckCommand, Goto, Fail, CopyOK, CauseOK, FailureExplained, Returned
<1> QED
  BY <1>1, <1>2, <1>3, <1>4, <1>5, <1>6, <1>7, <1>8 DEF IInv

LEMMA ReadBlockBitsIInv ==
  ASSUME IInv, ReadBlockBits
  PROVE  IInv'
<1>1. TypeOK'
  BY DEF IInv, ReadBlockBits, Goto, TypeOK, Moves, hw, history
<1>2. CopyOK'
  BY DEF ReadBlockBits, CopyOK, hw
<1>3. LineOK'
  BY DEF IInv, ReadBlockBits, LineOK, Asks, hw, history
<1>4. PlaceOK'
  BY DEF IInv, ReadBlockBits, Goto, TypeOK, PlaceOK, Moves, Ends
<1>5. DataOK'
  BY DEF IInv, ReadBlockBits, DataOK, BlockThere, Answered, Moves, hw, history
<1>6. CauseOK'
  BY DEF IInv, ReadBlockBits, Goto, PlaceOK, CauseOK, hw, history
<1>7. SuccessMeansRead'
  BY DEF ReadBlockBits, Goto, SuccessMeansRead, Returned
<1>8. FailureExplained'
  BY DEF IInv, ReadBlockBits, PlaceOK, FailureExplained
<1> QED
  BY <1>1, <1>2, <1>3, <1>4, <1>5, <1>6, <1>7, <1>8 DEF IInv

LEMMA CheckBlockIInv ==
  ASSUME IInv, CheckBlock
  PROVE  IInv'
<1>a. /\ cur \in Nat /\ cmd.blocks \in Nat /\ HasData(cmd) /\ cur < cmd.blocks
      /\ calls \in Nat /\ sent \in Nat
  BY IssuedFacts DEF IInv, TypeOK, PlaceOK, Moves, CheckBlock
<1>1. TypeOK'
  <2>1. got \o fifo \in Seq(Nat \X Nat)
    <3>1. got \in Seq(Nat \X Nat)
      BY DEF IInv, TypeOK
    <3>2. fifo = <<>> \/ \E e \in Nat \X Nat : fifo = <<e>>
      BY DEF IInv, TypeOK, AtMostOne
    <3>3. <<>> \in Seq(Nat \X Nat) /\ \A e \in Nat \X Nat : <<e>> \in Seq(Nat \X Nat)
      OBVIOUS
    <3>4. fifo \in Seq(Nat \X Nat)
      BY <3>2, <3>3
    <3> QED
      BY <3>1, <3>4
  <2>2. cur + 1 \in Nat /\ NextBlock(cur + 1) \in {"idle", "await_block", "read_block", "transfer"}
    BY <1>a, NextBlockFacts DEF IInv
  <2> QED
    BY <2>1, <2>2 DEF IInv, CheckBlock, Goto, Fail, TypeOK, AtMostOne, Moves, Ends, history
<1>2. CopyOK'
  BY DEF CheckBlock, Goto, Fail, NextBlock, CopyOK
<1>3. LineOK'
  BY DEF IInv, CheckBlock, LineOK, Asks, history
<1>4. PlaceOK'
  <2>1. /\ cur' \in {cur, cur + 1} /\ cmd' = cmd
        /\ (pc' = "idle" \/ (pc' = NextBlock(cur') /\ cur' = cur + 1))
    BY DEF CheckBlock, Goto, Fail
  <2> QED
    BY <1>a, <2>1, NextBlockFacts DEF IInv, PlaceOK, Moves, Ends, Asks
<1>5. DataOK'
  <2> SUFFICES ASSUME ~unanswered, cmd.kind = "read", pc' # "idle"
               PROVE  /\ "read_ready" \notin irpt'
                      /\ dat' \in {<<>>, <<[call |-> calls, cmd |-> cmd]>>}
                      /\ fifo' = <<>> /\ sent' = cur'
                      /\ got' = [i \in 1 .. cur' |-> <<calls, i>>]
    BY <1>4, <1>a, NextBlockFacts DEF IInv, DataOK, CheckBlock, Goto, Fail, history
  <2>1. /\ "read_ready" \in irpts /\ irpt' = irpt \ (Errors \cup {"read_ready"})
        /\ got' = got \o fifo /\ fifo' = <<>> /\ cur' = cur + 1 /\ dat' = dat /\ sent' = sent
    BY DEF CheckBlock, Ready, Goto, Fail
  <2>2. /\ dat \in {<<>>, <<[call |-> calls, cmd |-> cmd]>>}
        /\ fifo = <<<<calls, sent>>>> /\ sent = cur + 1
        /\ got = [i \in 1 .. cur |-> <<calls, i>>]
    BY <2>1 DEF IInv, CopyOK, DataOK, BlockThere, Answered, Moves, CheckBlock
  <2>3. got' = [i \in 1 .. cur + 1 |-> <<calls, i>>]
    BY <1>a, <2>1, <2>2
  <2> QED
    BY <2>1, <2>2, <2>3
<1>6. CauseOK'
  BY DEF CheckBlock, Goto, Fail, NextBlock, CauseOK
<1>7. SuccessMeansRead'
  BY DEF CheckBlock, Goto, Fail, NextBlock, SuccessMeansRead, Returned, HoldsData
<1>8. FailureExplained'
  BY DEF IInv, CheckBlock, Goto, Fail, NextBlock, CopyOK, PlaceOK, CauseOK, FailureExplained,
         Returned, HasData, HoldsData, Moves, history
<1> QED
  BY <1>1, <1>2, <1>3, <1>4, <1>5, <1>6, <1>7, <1>8 DEF IInv

LEMMA CheckLinesIInv ==
  ASSUME IInv, CheckLines
  PROVE  IInv'
<1>1. TypeOK'
  BY DEF IInv, CheckLines, Goto, Succeed, TypeOK, Ends, history
<1>2. CopyOK'
  BY DEF CheckLines, Goto, Succeed, CopyOK
<1>3. LineOK'
  BY DEF IInv, CheckLines, LineOK, Asks, history
<1>4. PlaceOK'
  BY DEF IInv, CheckLines, Goto, Succeed, TypeOK, PlaceOK, Moves, Asks
<1>5. DataOK'
  BY DEF IInv, CheckLines, Goto, Succeed, DataOK, BlockThere, Answered, Ends, history
<1>6. CauseOK'
  BY DEF IInv, CheckLines, Goto, Succeed, CauseOK, history
<1>7. SuccessMeansRead'
  BY DEF IInv, CheckLines, PlaceOK, DataOK, SuccessMeansRead, HasData, Ends, history
<1>8. FailureExplained'
  BY DEF CheckLines, Goto, Succeed, FailureExplained, Returned
<1> QED
  BY <1>1, <1>2, <1>3, <1>4, <1>5, <1>6, <1>7, <1>8 DEF IInv

LEMMA CheckTransferIInv ==
  ASSUME IInv, CheckTransfer
  PROVE  IInv'
<1>1. TypeOK'
  BY DEF IInv, CheckTransfer, Goto, Fail, Succeed, TypeOK, history
<1>2. CopyOK'
  BY DEF CheckTransfer, Goto, Fail, Succeed, CopyOK
<1>3. LineOK'
  BY DEF IInv, CheckTransfer, LineOK, Asks, history
<1>4. PlaceOK'
  BY DEF IInv, CheckTransfer, Goto, Fail, Succeed, TypeOK, PlaceOK, Moves, Asks
<1>5. DataOK'
  BY DEF CheckTransfer, Goto, Fail, Succeed, DataOK
<1>6. CauseOK'
  BY DEF CheckTransfer, Goto, Fail, Succeed, CauseOK
<1>7. SuccessMeansRead'
  BY DEF IInv, CheckTransfer, PlaceOK, DataOK, SuccessMeansRead, HasData, Ends, history
<1>8. FailureExplained'
  BY DEF IInv, CheckTransfer, Fail, Succeed, CopyOK, CauseOK, FailureExplained, history
<1> QED
  BY <1>1, <1>2, <1>3, <1>4, <1>5, <1>6, <1>7, <1>8 DEF IInv

LEMMA CallIInv ==
  ASSUME IInv, NEW c \in Commands, Issuable(c), Call(c)
  PROVE  IInv'
<1>1. TypeOK'
  <2>1. c \in Issued
    BY DEF Issued
  <2>2. got' \in Seq(Nat \X Nat)
    BY DEF Call
  <2>3. UNCHANGED <<irpt, irpts, line, dat, sent, fifo, success, removed, unanswered>>
    BY DEF Call, hw
  <2>4. calls' \in Nat /\ cur' \in Nat
    BY DEF IInv, TypeOK, Call
  <2>5. app' \in BOOLEAN
    <3>1. c.app \in BOOLEAN
      BY DEF Commands
    <3> QED
      BY <3>1, Zenon DEF Call
  <2>6. pc' = "pending" /\ cmd' \in Issued
    BY <2>1 DEF Call, Goto
  <2>7. expired' \in BOOLEAN /\ faulted' \in BOOLEAN
    BY DEF Call
  <2> QED
    BY <2>2, <2>3, <2>4, <2>5, <2>6, <2>7 DEF IInv, TypeOK
<1>2. CopyOK'
  BY DEF Call, Goto, CopyOK
<1>3. LineOK'
  BY DEF IInv, Call, LineOK, Asks, hw
<1>4. PlaceOK'
  BY DEF Call, Goto, PlaceOK, Moves, Ends
<1>5. DataOK'
  BY DEF Call, Goto, DataOK
<1>6. CauseOK'
  BY DEF Call, Goto, CauseOK
<1>7. SuccessMeansRead'
  BY DEF Call, Goto, SuccessMeansRead, Returned
<1>8. FailureExplained'
  BY DEF Call, Goto, FailureExplained, Returned
<1> QED
  BY <1>1, <1>2, <1>3, <1>4, <1>5, <1>6, <1>7, <1>8 DEF IInv

LEMMA InitIInv == Init => IInv
<1> SUFFICES ASSUME Init PROVE IInv
  OBVIOUS
<1>1. TypeOK
  <2>1. got \in Seq(Nat \X Nat)
    BY DEF Init
  <2> QED
    BY <2>1, AppCmdIssued DEF Init, TypeOK, AtMostOne
<1>2. PlaceOK
  BY DEF Init, PlaceOK, Moves, Ends
<1> QED
  BY <1>1, <1>2 DEF Init, IInv, CopyOK, LineOK, DataOK, CauseOK, SuccessMeansRead,
         FailureExplained, Returned

LEMMA NextIInv == IInv /\ [Next]_vars => IInv'
<1> SUFFICES ASSUME IInv, [Next]_vars PROVE IInv'
  OBVIOUS
<1>1. CASE UNCHANGED vars
  <2> USE <1>1 DEF vars, hw, driver, history
  <2>1. (TypeOK /\ CopyOK /\ LineOK /\ PlaceOK)'
    BY DEF IInv, TypeOK, CopyOK, LineOK, PlaceOK, Current
  <2>2. (DataOK /\ CauseOK)'
    BY DEF IInv, DataOK, BlockThere, Answered, CauseOK
  <2>3. (SuccessMeansRead /\ FailureExplained)'
    BY DEF IInv, SuccessMeansRead, FailureExplained, Returned
  <2> QED
    BY <2>1, <2>2, <2>3 DEF IInv
<1>2. CASE Controller
  BY <1>2, AnswersIInv, NoAnswerIInv, BlockReadyIInv, TransferDoneIInv, DataErrorIInv,
     RemoveIInv, InsertIInv
     DEF Controller
<1>3. CASE Step
  BY <1>3, ReadPendingIInv, ClearPendingIInv, IssueIInv, AwaitIInv, CheckCommandIInv,
     ReadBlockBitsIInv, CheckBlockIInv, CheckLinesIInv, CheckTransferIInv
     DEF Step
<1> QED
  BY <1>1, <1>2, <1>3, ExpireIInv, CallIInv DEF Next

\* What is true wherever the driver and the controller are, for any number of calls,
\* blocks and errors, whether or not the card can be taken out.
THEOREM CommandInvariant == Spec => []IInv
  BY InitIInv, NextIInv, PTL DEF Spec

\* A read that reports success has put the blocks of this very command into the buffer,
\* each once and in order (mmc.cpp:604-656, 716-786).
THEOREM SuccessIsRead == Spec => []SuccessMeansRead
<1>1. IInv => SuccessMeansRead
  BY DEF IInv
<1> QED
  BY <1>1, CommandInvariant, PTL

\* When a command fails, last_error tells why, as TIMEOUT and CMD_TIMEOUT take it to
\* (mmc.cpp:152-165): no bit, a wait ran to its end; a bit, the controller reported it.
THEOREM FailureIsExplained == Spec => []FailureExplained
<1>1. IInv => FailureExplained
  BY DEF IInv
<1> QED
  BY <1>1, CommandInvariant, PTL
==============================================================================
