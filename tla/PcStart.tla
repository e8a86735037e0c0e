------------------------------- MODULE PcStart -------------------------------
(***************************************************************************)
(* The start of the kernel on a PC after its memory is known (module       *)
(* Paging has that part): platform_setup of kernel/src/x8664/platform.cpp, *)
(* the interrupt controllers (apic.cpp), the search of the PCI buses       *)
(* (pci.cpp), the ATA disks (ide.cpp), the screen (bga.cpp), the keyboard  *)
(* controller (ps2.cpp), and then main() with interrupts enabled           *)
(* (interrupts.S, interrupts.cpp).                                         *)
(*                                                                         *)
(* The other processes are the disk drive, the keyboard controller, the    *)
(* user and, once they are enabled, interrupts.  Keys are numbered in the  *)
(* order they are pressed; module Ps2Keyboard has what they mean, module   *)
(* Deque what becomes of them.  The disks are read by register_storage,    *)
(* which looks at block 0, and by main().                                  *)
(*                                                                         *)
(* Module InterruptTables has the descriptor tables.  Left out: the modes  *)
(* of the APIC that isX and isX2 rule out, the registers of an xHCI        *)
(* controller, and 48-bit addresses.                                       *)
(***************************************************************************)
EXTENDS Integers, Sequences, FiniteSets, SequencesExt

CONSTANTS
  Machines,   \* the machines: [devices, drives, badSector, passes, extint]
  Slots,      \* slots of a PCI bus: 32
  Functions,  \* functions of a slot: 8
  CountRange, \* values of the sector count register: 256
  MaxNesting, \* bound: nested calls of pci_detect
  MaxKeys,    \* bound: keys pressed
  MaxReads    \* bound: calls of readBlock by main()

ASSUME PcAssumption ==
  {Slots, Functions, CountRange, MaxNesting} \subseteq Nat \ {0} /\ {MaxKeys, MaxReads} \subseteq Nat

VARIABLES
  machine,    \* the machine the kernel runs on
  stage,      \* "scan", "probe", "read", "ps2" or "running"
  scan,       \* the nested calls of pci_detect: [bus, slot, function, count]
  found,      \* history: the functions reported to onDevice
  screen,     \* the root framebuffer and the one whose memory is mapped, <<>> if none
  probe,      \* the drives createIdeStorage has still to try
  disks,      \* registered storage: drives
  drive,      \* the selected drive: [unit, status, next, left]
  buffer,     \* what readBlock reads: [want, from, blocks, reads], blocks a sequence of
              \* sectors, reads the calls main() made
  ps2,        \* place in the constructor of PS2
  ctl,        \* keyboard controller: [input, output, enabled, irq]
  keys,       \* keys pressed, taken by the controller, and flushed: [pressed, taken, flushed]
  mixedUp,    \* history: ReadData returned something else than the answer waited for
  listening,  \* whether the handler is registered
  irr,        \* interrupts asked for, of the APIC and of the PIC
  isr,        \* those in service
  cpu,        \* "main", the handler's place, and what interrupted
  handled     \* the keys the handler read

pciVars == <<scan, found, screen>>
diskVars == <<probe, disks, drive, buffer>>
keyVars == <<ps2, ctl, keys, mixedUp, listening>>
irqVars == <<irr, isr, cpu, handled>>
pcVars == <<machine, stage, pciVars, diskVars, keyVars, irqVars>>

Frame(bus) == [bus |-> bus, slot |-> 0, function |-> 0, count |-> 1]
NoDrive == [unit |-> "none", status |-> "idle", next |-> 0, left |-> 0]

\* What the controller's buffers hold: nothing, a command, the answer to one, a key.
Empty == "empty"
Nothing == <<Empty, 0>>
Answer(question) == <<question, 0>>
Key(k) == <<"key", k>>

\* The keyboard was in use before: a key may be in the controller, and its
\* interrupts may be on.
PcInit ==
  /\ machine \in Machines
  /\ stage = "scan" /\ scan = <<Frame(0)>> /\ found = <<>>
  /\ screen = [root |-> <<>>, mapped |-> <<>>]
  /\ probe = <<>> /\ disks = <<>> /\ drive = NoDrive /\ buffer = [want |-> 0, from |-> 0, blocks |-> <<>>, reads |-> 0]
  /\ ps2 = 1 /\ keys = [pressed |-> 0, taken |-> 0, flushed |-> 0] /\ mixedUp = FALSE /\ listening = FALSE
  /\ ctl \in [input : {Empty}, output : {Nothing, Key(0)}, enabled : {TRUE}, irq : BOOLEAN]
  /\ irr = {} /\ isr = {} /\ cpu = [at |-> "main", by |-> "none"] /\ handled = <<>>

-----------------------------------------------------------------------------
(* pci_detect. *)

Absent == [kind |-> "absent", multi |-> TRUE, bus |-> 255]
\* pciread32 of a function that is not there gives all ones; a device with one function
\* may answer for all of its slot.
At(bus, slot, function) ==
  LET place == <<bus, slot, function>>  first == <<bus, slot, 0>> IN
    IF place \in DOMAIN machine.devices THEN machine.devices[place]
    ELSE IF first \in DOMAIN machine.devices /\ ~machine.devices[first].multi THEN machine.devices[first]
    ELSE Absent

\* A defect: the functions of the slot before are looked for in the next one.
NextSlotKeeping(f) == [f EXCEPT !.slot = @ + 1, !.function = 0]

NextSlot(f) == [f EXCEPT !.slot = @ + 1, !.function = 0, !.count = 1]

\* createIdeStorage tries four places.
Units == <<"primary 0", "primary 1", "secondary 0", "secondary 1">>

\* BgaFramebuffer: only the first becomes the screen, the memory of each is mapped
\* at one address.
OnScreen(d) ==
  [root |-> IF screen.root = <<>> THEN d ELSE screen.root, mapped |-> d]

\* One turn of the inner loop of pci_detect, with what onDevice does.
PciDetect ==
  LET f == Last(scan)
      here == <<f.bus, f.slot, f.function>>
      d == At(f.bus, f.slot, f.function)
      next == [f EXCEPT !.function = @ + 1, !.count = IF d.multi THEN Functions ELSE @]
  IN
    /\ stage = "scan" /\ scan # <<>> /\ f.slot < Slots /\ f.function < f.count
    /\ found' = IF d.kind = "absent" THEN found ELSE Append(found, here)
    /\ screen' = IF d.kind = "vga" THEN OnScreen(here) ELSE screen
    /\ stage' = IF d.kind = "ide" THEN "probe" ELSE "scan"
    /\ probe' = IF d.kind = "ide" THEN Units ELSE probe
    /\ d.kind = "bridge" => Len(scan) < MaxNesting
    /\ scan' = [scan EXCEPT ![Len(scan)] = next] \o (IF d.kind = "bridge" THEN <<Frame(d.bus)>> ELSE <<>>)
    /\ UNCHANGED <<machine, disks, drive, buffer, keyVars, irqVars>>

PciNextSlot ==
  LET f == Last(scan) IN
    /\ stage = "scan" /\ scan # <<>>
    /\ \/ /\ f.slot < Slots /\ f.function = f.count
          /\ scan' = [scan EXCEPT ![Len(scan)] = NextSlot(f)]
       \/ /\ f.slot = Slots
          /\ scan' = Front(scan)
    /\ stage' = IF scan' = <<>> THEN "ps2" ELSE stage
    /\ UNCHANGED <<machine, found, screen, diskVars, keyVars, irqVars>>

-----------------------------------------------------------------------------
(* The disks. *)

Kind(unit) == machine.drives[unit]

\* The sectors a drive sends for a count: the register is one byte wide, and 0 means
\* as many as it can say.
Sectors(count) == IF count % CountRange = 0 THEN CountRange ELSE count % CountRange

\* SendCommand, with IDENTIFY for a drive that may not be there.
Identify ==
  /\ stage = "probe" /\ probe # <<>> /\ drive.unit = "none"
  /\ drive' = [unit |-> Head(probe), next |-> 0, left |-> 1,
               status |-> IF Kind(Head(probe)) = "none" THEN "absent" ELSE "busy"]
  /\ UNCHANGED <<machine, stage, pciVars, probe, disks, buffer, keyVars, irqVars>>

\* SendCommand, with READ SECTORS.
SendRead(unit, sector, count) ==
  /\ drive' = [unit |-> unit, status |-> "busy", next |-> sector, left |-> Sectors(count)]
  /\ buffer' = [buffer EXCEPT !.want = count, !.from = sector, !.blocks = <<>>]

\* The drive has done what it was told, or reports an error: a packet drive does not
\* identify itself, and there may be a sector that cannot be read.
Refuses == Kind(drive.unit) = "packet" \/ (stage # "probe" /\ drive.next = machine.badSector)
DriveReady ==
  /\ drive.status = "busy"
  /\ drive' = [drive EXCEPT !.status =
                 IF drive.left = 0 THEN "idle" ELSE IF Refuses THEN "error" ELSE "data"]
  /\ UNCHANGED <<machine, stage, pciVars, probe, disks, buffer, keyVars, irqVars>>

\* A drive without linear addresses is not registered.
Registers(unit) == Kind(unit) = "ata"

\* The constructor of IdeStorage polls until the drive has data or none is there.  A
\* drive that is registered is read by register_storage.
IdentifyPoll ==
  /\ stage = "probe" /\ drive.status \in {"absent", "data"}
  /\ IF drive.status = "data" /\ Registers(drive.unit)
     THEN /\ disks' = Append(disks, drive.unit)
          /\ stage' = "read"
          /\ SendRead(drive.unit, 0, 1)
          /\ UNCHANGED probe
     ELSE /\ probe' = Tail(probe) /\ drive' = NoDrive
          /\ stage' = IF probe' = <<>> THEN "scan" ELSE stage
          /\ UNCHANGED <<disks, buffer>>
  /\ UNCHANGED <<machine, pciVars, keyVars, irqVars>>

\* readBlock, as main() may call it.
ReadBlock ==
  /\ stage = "running" /\ cpu.at = "main" /\ drive.unit = "none" /\ buffer.reads < MaxReads
  /\ \E unit \in ToSet(disks), sector \in 0 .. 1, count \in 1 .. CountRange + 1 : SendRead(unit, sector, count)
  /\ UNCHANGED <<machine, stage, pciVars, probe, disks, keyVars, irqVars>>

\* One turn of its loop: WaitForInterrupt and ReadPio.  The block is returned when
\* there are as many sectors as were asked for.
ReadSector ==
  LET last == Len(buffer.blocks) + 1 = buffer.want IN
    /\ stage \in {"read", "running"} /\ cpu.at = "main" /\ drive.status = "data"
    /\ buffer' = [buffer EXCEPT !.blocks = Append(@, drive.next), !.reads = @ + (IF last /\ stage = "running" THEN 1 ELSE 0)]
    /\ drive' = IF last THEN NoDrive
                ELSE [drive EXCEPT !.status = "busy", !.next = @ + 1, !.left = @ - 1]
    /\ IF last /\ stage = "read"
       THEN probe' = Tail(probe) /\ stage' = IF probe' = <<>> THEN "scan" ELSE "probe"
       ELSE UNCHANGED <<probe, stage>>
    /\ UNCHANGED <<machine, pciVars, disks, keyVars, irqVars>>

-----------------------------------------------------------------------------
(* The keyboard controller, and the constructor of PS2. *)

\* The line of the first port, and what is latched when it rises.  The PIC passes its
\* interrupts on where the firmware left the processor's input for them open.
Line(c) == c.irq /\ c.output # Nothing
Latch ==
  irr' = IF Line(ctl') /\ ~Line(ctl)
         THEN irr \cup {"apic"} \cup IF machine.extint THEN {"pic"} ELSE {} ELSE irr

Questions == {"read config", "self test", "test 1"}

\* The controller takes a command or a data byte.  An answer waits for room.
ControllerTakes ==
  /\ ctl.input # Empty
  /\ ctl.input \in Questions => ctl.output = Nothing
  /\ ctl' = [input |-> Empty,
             output |-> IF ctl.input \in Questions THEN Answer(ctl.input) ELSE ctl.output,
             enabled |-> CASE ctl.input = "disable 1" -> FALSE [] ctl.input = "enable 1" -> TRUE [] OTHER -> ctl.enabled,
             irq |-> CASE ctl.input = "irq off" -> FALSE [] ctl.input = "irq on" -> TRUE [] OTHER -> ctl.irq]
  /\ Latch
  /\ UNCHANGED <<machine, stage, pciVars, diskVars, ps2, keys, mixedUp, listening, isr, cpu, handled>>

PressKey ==
  /\ stage \in {"ps2", "running"} /\ keys.pressed < MaxKeys
  /\ keys' = [keys EXCEPT !.pressed = @ + 1]
  /\ UNCHANGED <<machine, stage, pciVars, diskVars, ps2, ctl, mixedUp, listening, irqVars>>

KeySent ==
  /\ keys.taken < keys.pressed /\ ctl.enabled /\ ctl.output = Nothing
  /\ keys' = [keys EXCEPT !.taken = @ + 1]
  /\ ctl' = [ctl EXCEPT !.output = Key(keys'.taken)]
  /\ Latch
  /\ UNCHANGED <<machine, stage, pciVars, diskVars, ps2, mixedUp, listening, isr, cpu, handled>>

\* A defect: the output buffer is not flushed.
ScriptUnflushed ==
  <<<<"write", "disable 1">>, <<"write", "disable 2">>, <<"write", "read config">>, <<"read", "read config">>,
    <<"write", "write config">>, <<"write", "irq off">>, <<"write", "self test">>, <<"read", "self test">>,
    <<"write", "test 1">>, <<"read", "test 1">>, <<"write", "write config">>, <<"write", "irq on">>,
    <<"write", "enable 1">>, <<"register", "keyboard">>>>

\* What PS2::PS2 does: SendCommand and WriteData write when the controller has taken the
\* last byte, ReadData waits for one.
Script ==
  <<<<"write", "disable 1">>, <<"write", "disable 2">>, <<"flush", "output">>,
    <<"write", "read config">>, <<"read", "read config">>, <<"write", "write config">>, <<"write", "irq off">>,
    <<"write", "self test">>, <<"read", "self test">>, <<"write", "test 1">>, <<"read", "test 1">>,
    <<"write", "write config">>, <<"write", "irq on">>, <<"write", "enable 1">>, <<"register", "keyboard">>>>

\* The constructor gives up when the self test does not answer that it passed, and
\* then no keyboard is registered.
Ps2Step ==
  LET op == Script[ps2] IN
    /\ stage = "ps2" /\ ps2 <= Len(Script)
    /\ CASE op[1] = "write" -> ctl.input = Empty /\ ctl' = [ctl EXCEPT !.input = op[2]]
         [] op[1] = "read" -> ctl.output # Nothing /\ ctl' = [ctl EXCEPT !.output = Nothing]
         [] op[1] = "flush" -> ctl' = [ctl EXCEPT !.output = Nothing]
         [] OTHER -> ctl' = ctl
    /\ mixedUp' = (mixedUp \/ (op[1] = "read" /\ ctl.output # Answer(op[2])))
    /\ listening' = (op[1] = "register")
    /\ ps2' = IF op = <<"read", "self test">> /\ ~machine.passes THEN Len(Script) + 1 ELSE ps2 + 1
    /\ keys' = IF op[1] = "flush" /\ ctl.output[1] = "key" THEN [keys EXCEPT !.flushed = ctl.output[2]] ELSE keys
    /\ UNCHANGED <<machine, stage, pciVars, diskVars, irqVars>>

-----------------------------------------------------------------------------
(* Interrupts. *)

\* platform_enable_interrupts ends what the PIC has in service.
EnableInterrupts ==
  /\ stage = "ps2" /\ ps2 > Len(Script)
  /\ stage' = "running"
  /\ isr' = isr \ {"pic", "timer"}
  /\ UNCHANGED <<machine, pciVars, diskVars, keyVars, irr, cpu, handled>>

\* The timer comes before the keyboard at the PIC, and the PIC never sees the end of an
\* interrupt once they are enabled.
Blocked(by) ==
  CASE by = "apic" -> "apic" \in isr
    [] by = "pic" -> isr \cap {"pic", "timer"} # {}
    [] by = "timer" -> "timer" \in isr \/ ~machine.extint

\* x8664_oninterrupt saves the registers and calls onInterrupt; interrupts are disabled.
Interrupt(by) ==
  /\ stage = "running" /\ cpu.at = "main"
  /\ by \in irr \cup {"timer"} /\ ~Blocked(by)
  /\ irr' = irr \ {by} /\ isr' = isr \cup {by}
  /\ cpu' = [at |-> "handlers", by |-> by]
  /\ UNCHANGED <<machine, stage, pciVars, diskVars, keyVars, handled>>

\* onInterrupt calls the keyboard's handler, which reads a byte if there is one.
OnInterrupt ==
  /\ cpu.at = "handlers"
  /\ IF listening /\ ctl.output # Nothing
     THEN handled' = Append(handled, ctl.output[2]) /\ ctl' = [ctl EXCEPT !.output = Nothing]
     ELSE UNCHANGED <<handled, ctl>>
  /\ cpu' = [cpu EXCEPT !.at = "eoi"]
  /\ UNCHANGED <<machine, stage, pciVars, diskVars, ps2, keys, mixedUp, listening, irr, isr>>

\* A defect: the APIC is told before the handlers are called only.
EndOfInterruptForgotten ==
  /\ cpu.at = "eoi"
  /\ isr' = isr
  /\ cpu' = [at |-> "main", by |-> "none"]
  /\ UNCHANGED <<machine, stage, pciVars, diskVars, keyVars, irr, handled>>

\* x8664_endofinterrupt tells the APIC, whoever interrupted; then iretq.
EndOfInterrupt ==
  /\ cpu.at = "eoi"
  /\ isr' = isr \ {"apic"}
  /\ cpu' = [at |-> "main", by |-> "none"]
  /\ UNCHANGED <<machine, stage, pciVars, diskVars, keyVars, irr, handled>>

Kernel ==
  \/ PciDetect \/ PciNextSlot \/ Identify \/ IdentifyPoll \/ ReadSector
  \/ Ps2Step \/ EnableInterrupts \/ OnInterrupt \/ EndOfInterrupt
PcNext ==
  \/ Kernel \/ ReadBlock \/ DriveReady \/ ControllerTakes \/ PressKey \/ KeySent
  \/ \E by \in {"apic", "pic", "timer"} : Interrupt(by)

-----------------------------------------------------------------------------
(* Properties. *)

Devices == DOMAIN machine.devices
OfKind(k) == {d \in Devices : machine.devices[d].kind = k}
Scanned == stage \in {"ps2", "running"}
Rank(d) == CHOOSE i \in DOMAIN found : found[i] = d

\* When the search of the buses ends, every function behind every bridge was reported
\* once, although the count of functions is changed inside the loop it bounds
\* (pci.cpp:50-61), and the screen is the first display found; it shows what is drawn
\* only if it is also the last (bga.cpp:35-38).
ScanRight ==
  Scanned =>
    /\ IsInjective(found) /\ ToSet(found) = Devices
    /\ \A d \in OfKind("vga") :
         /\ screen.root = d <=> \A e \in OfKind("vga") : Rank(d) <= Rank(e)
         /\ screen.mapped = d <=> \A e \in OfKind("vga") : Rank(e) <= Rank(d)

\* Each ATA drive is registered once for every IDE controller there is, as every one is
\* taken to be at the same ports (ide.cpp:117-129), and a block read from one has the
\* sectors asked for, in order, and no more.
DisksRight ==
  /\ Scanned => \A unit \in ToSet(Units) :
       Cardinality({i \in DOMAIN disks : disks[i] = unit}) =
         IF Kind(unit) = "ata" THEN Cardinality(OfKind("ide")) ELSE 0
  /\ \A i \in DOMAIN buffer.blocks : buffer.blocks[i] = buffer.from + i - 1
  /\ Len(buffer.blocks) <= buffer.want

\* The constructor reads the controller's answers and no key, and then the handler reads
\* every key but those flushed, in order, once, though both interrupt controllers report
\* it (ps2.cpp:43-84, platform.cpp:75-86, apic.cpp:67-71, ps2keyboard.cpp:278-280).
KeysInOrder == ~mixedUp /\ handled = [i \in 1 .. Len(handled) |-> keys.flushed + i]

Hangs ==
  \/ \E d \in OfKind("bridge") : machine.devices[d].bus = 0
  \/ OfKind("ide") # {} /\ \E u \in ToSet(Units) : Kind(u) = "packet" \/ (Kind(u) = "ata" /\ machine.badSector = 0)

\* Start-up reaches main() unless a bridge leads back, a drive does not identify itself,
\* or block 0 of a disk cannot be read; then a block arrives if its count fits the
\* register and no sector is bad (ide.cpp:25-33, 71-74), and every key is handled, though
\* the PIC is never told the end of an interrupt (platform.cpp:138-146, apic.cpp:105-107).
Responds ==
  /\ ~Hangs ~> stage = "running"
  /\ Hangs => []~Scanned
  /\ (stage = "running" /\ drive.unit # "none" /\ buffer.want <= CountRange
        /\ machine.badSector \notin buffer.from .. buffer.from + buffer.want - 1)
      ~> drive.unit = "none"
  /\ \A k \in 1 .. MaxKeys : (stage = "running" /\ machine.passes /\ keys.pressed >= k) ~> keys.flushed + Len(handled) >= k
=============================================================================
