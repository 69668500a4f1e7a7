------------------------------ MODULE MCDosApp ------------------------------
(* A linear mode of 24 bits, a banked one of 32 bits of the same size, the  *)
(* same in 15 and 16 bits, and one of another size; the list starts with    *)
(* room for one and grows twice.                                            *)
EXTENDS DosApp

CONSTANTS lfb24, banked32, lfb15, banked16, large

MCModes == {lfb24, banked32, lfb15, banked16, large}
MCHasLfb == [m \in MCModes |-> m \in {lfb24, lfb15, large}]
MCSize == [m \in MCModes |-> IF m = banked32 THEN 2 ELSE 1]
MCImagePages == [m \in MCModes |-> 2]
MCWinGran == [m \in MCModes |-> IF m = banked16 THEN 16 ELSE 64]
MCLfbAddr == [m \in MCModes |-> 8]
MCMaxLen == 8
MCSpans == {1, 2, 4, 8}
MCFbLen == [m \in MCModes |-> [n \in {1, 2} |-> n]]
MCMachines == {[vmem |-> 0, wc |-> TRUE, ranges |-> <<Free>>]}
MCGeometry == [m \in MCModes |-> IF m = large THEN "800x600" ELSE "640x480"]
MCDepth == [m \in MCModes |-> CASE m = lfb24 -> 24 [] m = banked32 -> 32
                                [] m = lfb15 -> 15 [] OTHER -> 16]
MCBiosModes == <<banked16, lfb24, large, lfb15, banked32>>
MCAsks == [size : {"640x480", "1x1"}, bpp : {15, 24, 32}]
=============================================================================
