-------------------------------- MODULE Mtrr --------------------------------
(***************************************************************************)
(* enable_wrcomb of src/dos/gfx.c: the memory type range registers of the  *)
(* CPU, which set_video_mode uses to make the linear frame buffer write    *)
(* combining.  The BIOS has filled some of the ranges before the program   *)
(* starts; the program takes free ones and never gives them back.          *)
(*                                                                         *)
(* Addresses and lengths are counted in pages of 4 KiB.  A range whose     *)
(* mask clears the low bits of span - 1 matches the addresses that agree   *)
(* with its base in the other bits, wherever in its block the base is.     *)
(***************************************************************************)
EXTENDS Integers, Sequences

CONSTANTS
  Machines,   \* computers: video memory, the CPU's ability, the BIOS's ranges
  MaxLen,     \* bound: pages in a range (2^19 for an int)
  Spans       \* the powers of two up to MaxLen

Types == {"UC", "WC", "WB"}
Ranges == [base : Nat, span : Nat \ {0}, type : Types]
Free == [base |-> 0, span |-> 1, type |-> "free"]   \* MTRRMASK_VALID is clear

ASSUME SpansAssumption ==
  /\ MaxLen \in Nat /\ Spans \subseteq Nat \ {0}
  /\ \A len \in 1..MaxLen : \E s \in Spans : len <= s /\ (s = 1 \/ s \div 2 < len)
ASSUME MachinesAssumption ==
  \A m \in Machines :
    /\ m.vmem \in 0..MaxLen    \* vmem_blk << 16, 0 if that is 0 or over 256 MiB
    /\ m.wc \in BOOLEAN       \* CPUID has MTRRs, MTRRCAP has write combining
    /\ m.ranges \in Seq(Ranges \cup {Free})

VARIABLES
  machine,    \* the computer the program runs on, never changed
  mtrr        \* MTRRBASE(i) and MTRRMASK(i)

MtrrInit == machine \in Machines /\ mtrr = machine.ranges

-----------------------------------------------------------------------------
Matches(range, page) == range # Free /\ page \div range.span = range.base \div range.span

(* The code takes the type of the first range that matches; MTRRDEFTYPE is *)
(* uncacheable.                                                            *)
get_page_memtype(page) ==
  LET matching == {i \in DOMAIN mtrr : Matches(mtrr[i], page)}
  IN  IF matching = {} THEN "UC"
      ELSE mtrr[CHOOSE i \in matching : \A j \in matching : i <= j].type

Pages(addr, len) == addr .. addr + len - 1

check_wrcomb_enabled(addr, len) ==
  \A page \in Pages(addr, len) : get_page_memtype(page) = "WC"

FreeRanges == {i \in DOMAIN mtrr : mtrr[i] = Free}
alloc_mtrr == CHOOSE i \in FreeRanges : \A j \in FreeRanges : i <= j

(* The mask: len - 1 with every bit below its highest one set, inverted.   *)
MaskSpan_Truncated(len) == CHOOSE s \in Spans : s <= len /\ len < 2 * s
MaskSpan(len) == CHOOSE s \in Spans : len <= s /\ (s = 1 \/ s \div 2 < len)

(* A length of 0 stands for one that is not a multiple of a page, for which *)
(* the code gives up, as it does for an address that is not one (a frame    *)
(* buffer is assumed to begin at a page).                                   *)
enable_wrcomb(addr, len) ==
  IF len = 0 \/ ~machine.wc \/ check_wrcomb_enabled(addr, len) \/ FreeRanges = {}
    THEN UNCHANGED mtrr
    ELSE mtrr' = [mtrr EXCEPT ![alloc_mtrr] =
                    [base |-> addr, span |-> MaskSpan(len), type |-> "WC"]]

-----------------------------------------------------------------------------
(* The CPU combines all the ranges that match a page (external): write     *)
(* combining only if none of them says otherwise.                          *)
WriteCombined(page) ==
  /\ \E i \in DOMAIN mtrr : Matches(mtrr[i], page)
  /\ \A i \in DOMAIN mtrr : Matches(mtrr[i], page) => mtrr[i].type = "WC"

(* What the code does not look at: the block that the mask selects need    *)
(* not begin at the base, and the BIOS may have given a part of it another *)
(* type.                                                                   *)
Fits(addr, span) ==
  /\ addr % span = 0
  /\ \A page \in Pages(addr, span), i \in DOMAIN machine.ranges :
       Matches(machine.ranges[i], page) => machine.ranges[i].type = "WC"

(* The ranges the program has taken. *)
Taken == {i \in DOMAIN mtrr : mtrr[i] # Free /\ machine.ranges[i] = Free}

NoneTakenTwice ==
  \A i, j \in Taken : i # j /\ mtrr[i] = mtrr[j] => ~Fits(mtrr[i].base, mtrr[i].span)

BiosRangesKept ==
  /\ DOMAIN mtrr = DOMAIN machine.ranges
  /\ \A i \in DOMAIN mtrr : machine.ranges[i] # Free => mtrr[i] = machine.ranges[i]
=============================================================================
