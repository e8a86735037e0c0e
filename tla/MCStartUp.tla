------------------------------ MODULE MCStartUp ------------------------------
(***************************************************************************)
(* The parts of starting up, one in each behaviour: the boot sector to the *)
(* kernel's entry, the tables for interrupts on a PC, the rest of          *)
(* platform_setup of a PC and what follows, and that of a Raspberry Pi.    *)
(***************************************************************************)
EXTENDS MCBoot, MCPc, RpiStart, InterruptTables

VARIABLE board

startUpVars == <<board, bootVars, pcVars, rpiVars, tableVars>>

\* Addresses, all of whose bytes differ.
MCHandler == [i \in 1 .. 8 |-> i]
MCTssAt == [i \in 1 .. 8 |-> 10 + i]
MCStackTop == [i \in 1 .. 8 |-> 20 + i]

Init ==
  /\ board \in {"medium", "tables", "pc", "rpi"}
  /\ BootInit /\ (board # "medium" => medium = GoodMedium)
  /\ PcInit /\ (board # "pc" => machine = LoopedMachine /\ ~ctl.irq /\ ctl.output = Nothing)
  /\ RpiInit /\ (board # "rpi" => ~strict /\ stray = "none" /\ given = 4)
  /\ IF board = "tables" THEN TRUE ELSE chip = [c \in {"master", "slave"} |-> [expects |-> 0, base |-> IF c = "master" THEN 8 ELSE 112, mask |-> 0]]
  /\ TablesInit

OnMedium(A) == board = "medium" /\ A /\ UNCHANGED <<board, pcVars, rpiVars, tableVars>>
OnPc(A) == board = "pc" /\ A /\ UNCHANGED <<board, bootVars, rpiVars, tableVars>>
OnRpi(A) == board = "rpi" /\ A /\ UNCHANGED <<board, bootVars, pcVars, tableVars>>
OnTables == board = "tables" /\ TablesNext /\ UNCHANGED <<board, bootVars, pcVars, rpiVars>>

Next == OnMedium(BootNext) \/ OnTables \/ OnPc(PcNext) \/ OnRpi(RpiNext)

\* The processor goes on, and so does the hardware: the disk drive, the keyboard
\* controller, the APIC, the VideoCore.  Nobody has to press a key, to read a block or
\* to call set_power, and the PIC and the timer may be silent.
Fairness ==
  /\ WF_startUpVars(OnMedium(BootNext))
  /\ WF_startUpVars(OnPc(Kernel)) /\ WF_startUpVars(OnPc(DriveReady))
  /\ WF_startUpVars(OnPc(ControllerTakes)) /\ WF_startUpVars(OnPc(KeySent))
  /\ WF_startUpVars(OnPc(Interrupt("apic")))
  /\ WF_startUpVars(OnRpi(VcAnswers)) /\ WF_startUpVars(OnRpi(Setup))

Spec == Init /\ [][Next]_startUpVars /\ Fairness

-----------------------------------------------------------------------------
\* What the kernel finds on a PC is what is there, and every key is handled, in order:
\* ScanRight, DisksRight and KeysInOrder.
PcRight == board = "pc" => ScanRight /\ DisksRight /\ KeysInOrder

\* What the VideoCore says is what is used, the heap is the rest of memory, and the
\* card's clock is set from it.
RpiRight == board = "rpi" => AnswersOwn /\ HeapIsTheRest /\ CommandsClocked /\ TooFastOnlyIf

\* What is started is what is on the medium.
BootedRight == board = "medium" => BootedWhole

\* Start-up ends where it can: Boots, Responds and StartsUp.
StartUpEnds ==
  /\ board = "medium" => Boots
  /\ board = "pc" => Responds
  /\ board = "rpi" => StartsUp
=============================================================================
