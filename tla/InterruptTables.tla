--------------------------- MODULE InterruptTables ---------------------------
(***************************************************************************)
(* The tables by which an interrupt finds its handler on a PC, as          *)
(* platform_setup_interrupts makes them (x8664/platform.cpp), and what the *)
(* processor reads in them: descriptors whose bytes are spread, a task     *)
(* segment with the stack, a gate for each vector from 32 on.  The two     *)
(* PICs are given their vectors.  What a controller holds back while an    *)
(* interrupt is in service is in module PcStart; here a line may come at   *)
(* any time.                                                               *)
(*                                                                         *)
(* An address is its eight bytes, the least significant first.             *)
(***************************************************************************)
EXTENDS Integers, Sequences, SequencesExt

CONSTANTS
  Handler,    \* the address of x8664_oninterrupt
  TssAt,      \* that of _tss
  StackTop,   \* the end of stack_for_interrupts
  BiosMasks,  \* masks the PICs may have from before
  Lines       \* lines that devices raise, 0 to 15

Addresses == [1 .. 8 -> 0 .. 255]
ASSUME InterruptTablesAssumption ==
  {Handler, TssAt, StackTop} \subseteq Addresses /\ BiosMasks \subseteq 0 .. 255 /\ Lines \subseteq 0 .. 15

VARIABLES
  place,    \* place in platform_setup_interrupts and what comes after
  gate,     \* the next gate to set
  gdt, idt, \* the bytes of gdt_, and for each vector those of its gate
  tss,      \* the bytes of _tss, and the one behind it
  chip,     \* each PIC: [expects, base, mask]
  raised,   \* lines that are up
  flag,     \* whether the processor takes interrupts
  running,  \* "main", "handler" or, after an exception, "dead"
  entered,  \* history: [target, stack] of every interrupt
  frameLost \* history: an interrupt was put over the frame of another

tableVars == <<place, gate, gdt, idt, tss, chip, raised, flag, running, entered, frameLost>>
setVars == <<place, gate, gdt, idt, tss>>
cpuVars == <<flag, running, entered, frameLost>>

Little(n, v) == [i \in 1 .. n |-> (v \div 256 ^ (i - 1)) % 256]
Zeros(n) == [i \in 1 .. n |-> 0]

-----------------------------------------------------------------------------
(* The layout of the tables. *)

\* struct gdt
Segment(limit, base, base2, access, flags, base3) == limit \o base \o <<base2, access, flags, base3>>
Flat(access, flags) == Segment(Little(2, 65535), Zeros(2), 0, access, flags, 0)

\* The descriptors of code, of user code, of data, and of the task that is to be filled in.
Gdt ==
  Zeros(8) \o Flat(152, 47) \o Flat(248, 47) \o Flat(146, 47) \o Flat(137, 31) \o Zeros(8)

\* struct tss, packed: a word and three pointers, the eight of ist, and eleven bytes more.
IstOffset(n) == 4 + 3 * 8 + 8 * n
TssSize == IstOffset(8) + 8 + 2 + 1

\* The bits of its address and size, over two entries.
TssDescriptor(p, size) ==
  Segment(Little(2, size), SubSeq(p, 1, 2), p[3], 137, (size \div 65536) % 16, p[4])
    \o Segment(SubSeq(p, 5, 6), SubSeq(p, 7, 8), 0, 0, 0, 0)

\* A defect: a gate that lets other interrupts in.
TrapGate(p) == SubSeq(p, 1, 2) \o Little(2, 8) \o <<1, 143>> \o SubSeq(p, 3, 8) \o Zeros(4)

\* struct idt_entry
Gate(p) == SubSeq(p, 1, 2) \o Little(2, 8) \o <<1, 142>> \o SubSeq(p, 3, 8) \o Zeros(4)

Over(bytes, from, new) == [i \in DOMAIN bytes |-> IF i - from \in DOMAIN new THEN new[i - from] ELSE bytes[i]]

-----------------------------------------------------------------------------
(* The setup. *)

\* disable_pic
PicWrites ==
  <<<<"master", "command", 17>>, <<"slave", "command", 17>>, <<"master", "data", 32>>, <<"slave", "data", 40>>,
    <<"master", "data", 4>>, <<"slave", "data", 2>>, <<"master", "data", 1>>, <<"slave", "data", 1>>,
    <<"master", "data", 0>>, <<"slave", "data", 255>>>>

\* What a PIC makes of a write: a first word, three more, and then masks.
Told(c, port, value) ==
  IF port = "command" THEN [c EXCEPT !.expects = 2, !.mask = 0]
  ELSE CASE c.expects = 2 -> [c EXCEPT !.base = value - (value % 8), !.expects = 3]
         [] c.expects = 3 -> [c EXCEPT !.expects = 4]
         [] c.expects = 4 -> [c EXCEPT !.expects = 0]
         [] OTHER -> [c EXCEPT !.mask = value]

TablesInit ==
  /\ place = 1 /\ gate = 32 /\ gdt = Gdt /\ idt = [v \in 0 .. 255 |-> Zeros(16)]
  /\ tss = Zeros(TssSize + 1)
  /\ \E m \in BiosMasks :
       chip = [c \in {"master", "slave"} |-> [expects |-> 0, base |-> IF c = "master" THEN 8 ELSE 112, mask |-> m]]
  /\ raised = {} /\ flag = FALSE /\ running = "main" /\ entered = {} /\ frameLost = FALSE

tss_set_ist(bytes, n, stack) == Over(bytes, IstOffset(n), stack)

AtTss == Len(PicWrites) + 1
AtGates == AtTss + 1
AtGdt == AtGates + 1
AtEnable == AtGdt + 1

Step == place' = place + 1 /\ UNCHANGED <<raised, cpuVars>>

disable_pic ==
  LET w == PicWrites[place] IN
    /\ place < AtTss
    /\ chip' = [chip EXCEPT ![w[1]] = Told(@, w[2], w[3])]
    /\ Step /\ UNCHANGED <<gate, gdt, idt, tss>>

\* memset and tss_set_ist.
SetStack ==
  /\ place = AtTss
  /\ tss' = tss_set_ist(Over(tss, 0, Zeros(TssSize)), 1, StackTop)
  /\ Step /\ UNCHANGED <<gate, gdt, idt, chip>>

\* One turn of the loop; after the last the table is loaded.
SetGate ==
  /\ place = AtGates
  /\ idt' = [idt EXCEPT ![gate] = Gate(Handler)] /\ gate' = gate + 1
  /\ place' = IF gate = 255 THEN AtGdt ELSE place
  /\ UNCHANGED <<gdt, tss, chip, raised, cpuVars>>

\* The fifth and the sixth entry; then lgdt and ltr.
SetTask ==
  /\ place = AtGdt
  /\ gdt' = Over(gdt, 32, TssDescriptor(TssAt, TssSize))
  /\ Step /\ UNCHANGED <<gate, idt, tss, chip>>

Enable ==
  /\ place = AtEnable
  /\ place' = AtEnable + 1 /\ flag' = TRUE
  /\ UNCHANGED <<gate, gdt, idt, tss, chip, raised, running, entered, frameLost>>

-----------------------------------------------------------------------------
(* The devices and the processor. *)

Raise(n) ==
  /\ n \notin raised
  /\ raised' = raised \cup {n}
  /\ UNCHANGED <<setVars, chip, cpuVars>>

\* The vectors that are presented: a line the PIC does not mask, by way of the master for
\* those of the slave; the I/O APIC has the keyboard's line at 33, and where it gives
\* none, 255 is the local APIC's.
Unmasked(c, n) == (chip[c].mask \div 2 ^ n) % 2 = 0
PicVector(n) == IF n < 8 THEN chip["master"].base + n ELSE chip["slave"].base + n - 8
Presented ==
  {PicVector(n) : n \in {l \in raised : IF l < 8 THEN Unmasked("master", l) ELSE Unmasked("slave", l - 8) /\ Unmasked("master", 2)}}
    \cup (IF raised # {} THEN {33, 255} ELSE {})

\* Where a gate leads, and the stack it is given; the code must be 64-bit code.
Present(g) == g[6] >= 128 /\ LET s == g[3] + 256 * g[4] IN gdt[s + 6] \div 8 = 19 /\ (gdt[s + 7] \div 32) % 2 = 1
Target(g) == SubSeq(g, 1, 2) \o SubSeq(g, 7, 12)
TaskBase == SubSeq(gdt, 35, 37) \o <<gdt[40]>> \o SubSeq(gdt, 41, 44)
TaskLimit == gdt[33] + 256 * gdt[34] + 65536 * (gdt[39] % 16)
Stack(g) ==
  LET from == 36 + 8 * (g[5] - 1) IN
    IF TaskBase = TssAt /\ from + 7 <= TaskLimit THEN SubSeq(tss, from + 1, from + 8) ELSE Zeros(8)

Interrupted(v) ==
  /\ flag /\ v \in Presented /\ running # "dead"
  /\ IF Present(idt[v])
     THEN /\ entered' = entered \cup {[target |-> Target(idt[v]), stack |-> Stack(idt[v])]}
          /\ frameLost' = (frameLost \/ running = "handler")
          /\ running' = "handler" /\ flag' = (idt[v][6] % 16 = 15)
     ELSE running' = "dead" /\ flag' = FALSE /\ UNCHANGED <<entered, frameLost>>
  /\ raised' \in SUBSET raised
  /\ UNCHANGED <<setVars, chip>>

\* iretq
Resumed ==
  /\ running = "handler"
  /\ running' = "main" /\ flag' = TRUE
  /\ UNCHANGED <<setVars, chip, raised, entered, frameLost>>

TablesNext ==
  \/ disable_pic \/ SetStack \/ SetGate \/ SetTask \/ Enable
  \/ \E n \in Lines : Raise(n)
  \/ \E v \in 0 .. 255 : Interrupted(v)
  \/ Resumed

-----------------------------------------------------------------------------
\* Whatever line comes up, and when, an interrupt finds the handler and the end of its
\* stack, none is put over the frame of another, which has the same stack, and none
\* comes without a gate; the task's limit is that of a whole task, although the
\* structure is a byte short, as it is the size that is taken for it
\* (platform.cpp:41-56, 75-132).
TablesRight ==
  /\ entered \subseteq {[target |-> Handler, stack |-> StackTop]}
  /\ ~frameLost /\ running # "dead"
  /\ flag => TaskLimit + 1 = 104 /\ \A v \in 0 .. 255 : Present(idt[v]) <=> v >= 32
=============================================================================
