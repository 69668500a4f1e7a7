----------------------------- MODULE MCDosVideo -----------------------------
(* Four modes: linear with one and with two pages, and banked with coarse   *)
(* and with fine windows.  Pages of 1 to 3 chunks make a banked blit leave  *)
(* the first window.  All linear modes begin at the same address; a page of *)
(* lfb1 is not a multiple of 4 KiB.                                         *)
EXTENDS DosVideo

CONSTANTS lfb1, lfb2, banked64, banked16

MCModes == {lfb1, lfb2, banked64, banked16}
MCHasLfb == [m \in MCModes |-> m \in {lfb1, lfb2}]
MCSize == [m \in MCModes |-> IF m = lfb2 THEN 1 ELSE IF m = banked64 THEN 3 ELSE 2]
MCImagePages == [m \in MCModes |-> IF m = lfb1 THEN 1 ELSE 3]
MCWinGran == [m \in MCModes |-> IF m = banked16 THEN 16 ELSE 64]
MCLfbAddr == [m \in MCModes |-> 96]
MCMaxLen == 64
MCSpans == {1, 2, 4, 8, 16, 32, 64}
MCFbLen == [m \in MCModes |-> [n \in {1, 2} |-> IF m = lfb1 THEN 0 ELSE 12 * n]]

(* Memory below 32 is cached.  The machines: one that fits; 48 pages of     *)
(* video memory, whose block of 64 does not begin at 96; a hole among the   *)
(* ranges; an uncacheable range over the frame buffer; a BIOS that has made *)
(* a part of it write combining, with the size unknown; a single free range;*)
(* none; a CPU that cannot.                                                 *)
Cached == [base |-> 0, span |-> 32, type |-> "WB"]
MCMachines ==
  {[vmem |-> 32, wc |-> TRUE, ranges |-> <<Cached, Free, Free, Free>>],
   [vmem |-> 48, wc |-> TRUE, ranges |-> <<Cached, Free, Free, Free>>],
   [vmem |-> 32, wc |-> TRUE, ranges |-> <<Free, Cached, Free>>],
   [vmem |-> 32, wc |-> TRUE,
    ranges |-> <<[base |-> 64, span |-> 64, type |-> "UC"], Cached, Free, Free>>],
   [vmem |-> 0, wc |-> TRUE,
    ranges |-> <<Cached, [base |-> 96, span |-> 16, type |-> "WC"], Free, Free>>],
   [vmem |-> 0, wc |-> TRUE, ranges |-> <<Cached, Free>>],
   [vmem |-> 32, wc |-> TRUE, ranges |-> <<Cached>>],
   [vmem |-> 32, wc |-> FALSE, ranges |-> <<>>]}
=============================================================================
