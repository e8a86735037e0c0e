-------------------------------- MODULE MCPc --------------------------------
(* Machines for PcStart: what is in them, and what is wrong with them. *)
EXTENDS PcStart

D(kind, multi, bus) == [kind |-> kind, multi |-> multi, bus |-> bus]
Single(kind) == D(kind, FALSE, 255)
Multi(kind) == D(kind, TRUE, 255)

NoDrives == [u \in ToSet(Units) |-> "none"]
Drives(p0, p1, s0) == [NoDrives EXCEPT !["primary 0"] = p0, !["primary 1"] = p1, !["secondary 0"] = s0]

Plain == <<0, 0, 0>> :> Single("other") @@ <<0, 1, 0>> :> Single("ide")
\* An IDE controller as a function of the chipset, and a display behind a bridge.
Bridged == <<0, 0, 0>> :> Multi("other") @@ <<0, 0, 1>> :> Multi("ide") @@ <<0, 1, 0>> :> D("bridge", FALSE, 1)
           @@ <<1, 0, 0>> :> Single("vga") @@ <<1, 1, 0>> :> Single("xhci")
TwoScreens == <<0, 0, 0>> :> Single("vga") @@ <<0, 1, 0>> :> D("bridge", TRUE, 1) @@ <<0, 1, 1>> :> Multi("other")
              @@ <<1, 1, 0>> :> Single("vga")
TwoControllers == <<0, 0, 0>> :> Multi("ide") @@ <<0, 0, 1>> :> Multi("ide")
Looped == <<0, 0, 0>> :> Single("vga") @@ <<0, 1, 0>> :> D("bridge", FALSE, 0)

M(devices, drives, bad, passes, extint) ==
  [devices |-> devices, drives |-> drives, badSector |-> bad, passes |-> passes, extint |-> extint]
Good == 99
LoopedMachine == M(Looped, NoDrives, Good, TRUE, FALSE)

MCMachines ==
  {M(Plain, Drives("ata", "old", "none"), 1, TRUE, FALSE),
   M(Plain, Drives("ata", "ata", "none"), 0, TRUE, FALSE),
   M(Bridged, Drives("none", "none", "ata"), Good, TRUE, TRUE),
   M(Bridged, Drives("ata", "none", "packet"), Good, TRUE, FALSE),
   M(TwoScreens, NoDrives, Good, TRUE, TRUE),
   M(TwoScreens, NoDrives, Good, FALSE, TRUE),
   M(TwoControllers, Drives("ata", "none", "none"), Good, TRUE, FALSE),
   LoopedMachine}
=============================================================================
