--------------------------- MODULE DosVideoProofs ---------------------------
(***************************************************************************)
(* Proofs about DosVideo, for every mode list that satisfies               *)
(* ModesAssumption: page sizes, page counts and window granularities are   *)
(* arbitrary, and so is the order of mode switches, flips and failures.    *)
(***************************************************************************)
EXTENDS DosVideo, WellFoundedInduction, TLAPS

-----------------------------------------------------------------------------
(* The memory type ranges: what enable_wrcomb keeps and achieves, for any   *)
(* number of ranges, any ranges of the BIOS and any frame buffers.          *)

(* NoneTakenTwice is inductive together with what the program's own ranges *)
(* are: write combining, all of them.                                      *)
RangesTyped == machine \in Machines /\ mtrr \in Seq(Ranges \cup {Free})
TakenAreWc == \A i \in Taken : mtrr[i].type = "WC"
MtrrInv == RangesTyped /\ BiosRangesKept /\ TakenAreWc /\ NoneTakenTwice

(* The memory of a linear mode, as in LfbWriteCombined. *)
Achieved(addr, len) ==
  \/ \A page \in Pages(addr, len) : WriteCombined(page)
  \/ FreeRanges = {} \/ ~Fits(addr, MaskSpan(len))

-----------------------------------------------------------------------------
(* The mask covers the length. *)
LEMMA MaskSpanLemma ==
  ASSUME NEW len \in 1..MaxLen
  PROVE  MaskSpan(len) \in Nat \ {0} /\ len <= MaskSpan(len)
<1> DEFINE P(s) == len <= s /\ (s = 1 \/ s \div 2 < len)
<1>1. \E s \in Spans : P(s)
  BY SpansAssumption
<1>2. MaskSpan(len) \in Spans /\ P(MaskSpan(len))
  BY <1>1 DEF MaskSpan
<1> QED
  BY <1>2, SpansAssumption

(* A block that begins at its base holds the pages that follow it. *)
LEMMA BlockLemma ==
  ASSUME NEW addr \in Nat, NEW span \in Nat \ {0}, addr % span = 0,
         NEW page \in Pages(addr, span)
  PROVE  page \div span = addr \div span
<1> DEFINE q == addr \div span
<1>1. q \in Nat /\ addr = q * span
  OBVIOUS
<1>2. page \in Nat /\ q * span <= page /\ page < q * span + span
  BY <1>1 DEF Pages
<1> QED
  BY <1>1, <1>2

LEMMA LeastNatural ==
  ASSUME NEW S \in SUBSET Nat, S # {}
  PROVE  \E n \in S : \A k \in S : n <= k
<1>1. \E n \in S : \A k \in S : ~ (<<k, n>> \in OpToRel(<, Nat))
  BY NatLessThanWellFounded, WFMin
<1> DEFINE Less == {ss \in Nat \X Nat : ss[1] < ss[2]}
<1>2. OpToRel(<, Nat) = Less
  BY Zenon DEF OpToRel
<1>3. \A k, n \in Nat : k < n => <<k, n>> \in Less
  OBVIOUS
<1> HIDE DEF Less
<1>4. \E n \in S : \A k \in S : <<k, n>> \notin Less
  BY <1>1, <1>2, Zenon
<1>5. PICK n \in S : \A k \in S : <<k, n>> \notin Less
  BY <1>4
<1>6. \A k \in S : k \in Nat /\ n \in Nat /\ ~ (k < n)
  BY <1>3, <1>5
<1> QED
  BY <1>6

-----------------------------------------------------------------------------
(* The first range that matches, which the code takes the type of. *)
LEMMA FirstMatch ==
  ASSUME RangesTyped, NEW page \in Nat
  PROVE  \/ /\ \A i \in DOMAIN mtrr : ~Matches(mtrr[i], page)
            /\ get_page_memtype(page) = "UC"
         \/ \E i \in DOMAIN mtrr : /\ Matches(mtrr[i], page)
                                   /\ get_page_memtype(page) = mtrr[i].type
<1> DEFINE M == {i \in DOMAIN mtrr : Matches(mtrr[i], page)}
           first == CHOOSE i \in M : \A j \in M : i <= j
<1>1. CASE M = {}
  BY <1>1 DEF get_page_memtype
<1>2. CASE M # {}
  <2>1. M \subseteq Nat
    BY DEF RangesTyped
  <2>2. \E i \in M : \A j \in M : i <= j
    BY <1>2, <2>1, LeastNatural
  <2>3. first \in M
    BY <2>2
  <2>4. get_page_memtype(page) = mtrr[first].type
    BY <1>2 DEF get_page_memtype
  <2> QED
    BY <2>3, <2>4
<1> QED
  BY <1>1, <1>2

-----------------------------------------------------------------------------
(* A page of a range that fits is in no range of the BIOS but write        *)
(* combining ones, hence in none at all that is not.                       *)
LEMMA OnlyWcMatches ==
  ASSUME MtrrInv, NEW addr \in Nat, NEW span \in Nat \ {0}, Fits(addr, span),
         NEW page \in Pages(addr, span), NEW i \in DOMAIN mtrr, Matches(mtrr[i], page)
  PROVE  mtrr[i].type = "WC"
<1>1. CASE machine.ranges[i] = Free
  BY <1>1 DEF MtrrInv, TakenAreWc, Taken, Matches
<1>2. CASE machine.ranges[i] # Free
  BY <1>2 DEF MtrrInv, BiosRangesKept, Fits
<1> QED
  BY <1>1, <1>2

LEMMA PagesOfSpan ==
  ASSUME NEW addr \in Nat, NEW len \in 1..MaxLen
  PROVE  Pages(addr, len) \subseteq Pages(addr, MaskSpan(len)) /\ Pages(addr, len) \subseteq Nat
BY MaskSpanLemma DEF Pages

(* enable_wrcomb when it takes a range: the first free one, which has no   *)
(* range of the BIOS.                                                      *)
LEMMA TakesFreeRange ==
  ASSUME MtrrInv, FreeRanges # {}
  PROVE  /\ alloc_mtrr \in DOMAIN mtrr /\ mtrr[alloc_mtrr] = Free
         /\ machine.ranges[alloc_mtrr] = Free
<1>1. FreeRanges \subseteq Nat
  BY DEF FreeRanges, MtrrInv, RangesTyped
<1>2. alloc_mtrr \in FreeRanges
  BY <1>1, LeastNatural DEF alloc_mtrr
<1> QED
  BY <1>2 DEF FreeRanges, MtrrInv, BiosRangesKept

-----------------------------------------------------------------------------
LEMMA EnableInv ==
  ASSUME MtrrInv, UNCHANGED machine, NEW addr \in Nat, NEW len \in 0..MaxLen,
         enable_wrcomb(addr, len)
  PROVE  MtrrInv'
<1>1. CASE UNCHANGED mtrr
  BY <1>1 DEF MtrrInv, RangesTyped, BiosRangesKept, TakenAreWc, NoneTakenTwice, Taken, Fits
<1>2. CASE ~UNCHANGED mtrr
  <2> DEFINE k == alloc_mtrr
             new == [base |-> addr, span |-> MaskSpan(len), type |-> "WC"]
  <2>1. /\ len \in 1..MaxLen /\ ~check_wrcomb_enabled(addr, len) /\ FreeRanges # {}
        /\ mtrr' = [mtrr EXCEPT ![k] = new]
    BY <1>2 DEF enable_wrcomb
  <2>2. k \in DOMAIN mtrr /\ mtrr[k] = Free /\ machine.ranges[k] = Free
    BY <2>1, TakesFreeRange
  <2>3. MaskSpan(len) \in Nat \ {0} /\ new \in Ranges
    BY <2>1, MaskSpanLemma DEF Ranges, Types
  <2> HIDE DEF k, new
  <2>4. /\ DOMAIN mtrr' = DOMAIN mtrr /\ mtrr'[k] = new
        /\ \A i \in DOMAIN mtrr : i # k => mtrr'[i] = mtrr[i]
    BY <2>1, <2>2 DEF MtrrInv, RangesTyped
  <2>5. RangesTyped'
    BY <2>1, <2>2, <2>3 DEF MtrrInv, RangesTyped
  <2>6. BiosRangesKept'
    BY <2>2, <2>4 DEF MtrrInv, BiosRangesKept
  <2>7. Taken' \subseteq Taken \cup {k}
    BY <2>4 DEF Taken
  <2>8. TakenAreWc'
    BY <2>4, <2>7 DEF MtrrInv, TakenAreWc, Taken, new
  <2>9. ASSUME NEW j \in Taken, mtrr[j] = new, Fits(addr, MaskSpan(len))
        PROVE  FALSE
    <3>1. PICK page \in Pages(addr, len) : get_page_memtype(page) # "WC"
      BY <2>1 DEF check_wrcomb_enabled
    <3>2. page \in Pages(addr, MaskSpan(len)) /\ page \in Nat
      BY <2>1, PagesOfSpan
    <3>3. page \div MaskSpan(len) = addr \div MaskSpan(len)
      BY <2>3, <2>9, <3>2, BlockLemma DEF Fits
    <3>4. Matches(mtrr[j], page)
      BY <2>9, <3>3 DEF Matches, Taken, new
    <3>5. PICK i \in DOMAIN mtrr : Matches(mtrr[i], page) /\ get_page_memtype(page) = mtrr[i].type
      BY <3>2, <3>4, FirstMatch DEF MtrrInv, Taken
    <3> QED
      BY <2>3, <2>9, <3>1, <3>2, <3>5, OnlyWcMatches
  <2>10. NoneTakenTwice'
    <3> SUFFICES ASSUME NEW i \in Taken', NEW j \in Taken', i # j, mtrr'[i] = mtrr'[j],
                        Fits(mtrr[i].base, mtrr[i].span)'
                 PROVE  FALSE
      BY DEF NoneTakenTwice
    <3>1. Fits(mtrr'[i].base, mtrr'[i].span)
      BY DEF Fits, Pages, Matches
    <3>2. CASE i # k /\ j # k
      BY <2>4, <2>7, <3>1, <3>2 DEF MtrrInv, NoneTakenTwice, Taken
    <3>3. CASE i = k
      BY <2>4, <2>7, <2>9, <3>1, <3>3 DEF Taken, new
    <3>4. CASE j = k
      BY <2>4, <2>7, <2>9, <3>1, <3>4 DEF Taken, new
    <3> QED
      BY <3>2, <3>3, <3>4
  <2> QED
    BY <2>5, <2>6, <2>8, <2>10 DEF MtrrInv
<1> QED
  BY <1>1, <1>2

(* The frame buffer is write combining after it, or there is a reason.     *)
LEMMA EnableAchieves ==
  ASSUME MtrrInv, MtrrInv', UNCHANGED machine, machine.wc,
         NEW addr \in Nat, NEW len \in 0..MaxLen, enable_wrcomb(addr, len)
  PROVE  Achieved(addr, len)'
<1> SUFFICES ASSUME len # 0, Fits(addr, MaskSpan(len))', (FreeRanges # {})',
                    NEW page \in Pages(addr, len)
             PROVE  WriteCombined(page)'
  BY DEF Achieved, Pages
<1>1. len \in 1..MaxLen /\ MaskSpan(len) \in Nat \ {0} /\ page \in Nat
        /\ page \in Pages(addr, MaskSpan(len))
  BY MaskSpanLemma, PagesOfSpan
<1>2. Fits(addr, MaskSpan(len))
  BY DEF Fits, Pages, Matches
<1>3. \A i \in DOMAIN mtrr' : Matches(mtrr'[i], page) => mtrr'[i].type = "WC"
  <2>1. ASSUME NEW i \in DOMAIN mtrr', Matches(mtrr'[i], page), machine.ranges[i] = Free
        PROVE  mtrr'[i].type = "WC"
    BY <2>1 DEF MtrrInv, TakenAreWc, Taken, Matches
  <2>2. ASSUME NEW i \in DOMAIN mtrr', Matches(mtrr'[i], page), machine.ranges[i] # Free
        PROVE  mtrr'[i].type = "WC"
    BY <1>1, <1>2, <2>2 DEF MtrrInv, BiosRangesKept, Fits
  <2> QED
    BY <2>1, <2>2
<1>4. \E i \in DOMAIN mtrr' : Matches(mtrr'[i], page)
  <2>1. CASE check_wrcomb_enabled(addr, len)
    <3>1. UNCHANGED mtrr /\ get_page_memtype(page) = "WC"
      BY <2>1 DEF enable_wrcomb, check_wrcomb_enabled
    <3> QED
      BY <1>1, <3>1, FirstMatch DEF MtrrInv
  <2>2. CASE ~check_wrcomb_enabled(addr, len) /\ FreeRanges # {}
    <3> DEFINE k == alloc_mtrr
               new == [base |-> addr, span |-> MaskSpan(len), type |-> "WC"]
    <3>1. mtrr' = [mtrr EXCEPT ![k] = new]
      BY <2>2 DEF enable_wrcomb
    <3>2. k \in DOMAIN mtrr
      BY <2>2, TakesFreeRange
    <3>3. k \in DOMAIN mtrr' /\ mtrr'[k] = new
      BY <3>1, <3>2 DEF MtrrInv, RangesTyped
    <3>4. page \div MaskSpan(len) = addr \div MaskSpan(len)
      BY <1>1, <1>2, BlockLemma DEF Fits
    <3> QED
      BY <3>3, <3>4 DEF Matches, Free
  <2>3. CASE FreeRanges = {}
    BY <2>3 DEF enable_wrcomb, FreeRanges
  <2> QED
    BY <2>1, <2>2, <2>3
<1> QED
  BY <1>3, <1>4 DEF WriteCombined

-----------------------------------------------------------------------------
(* The strengthening.  The code tells one page from two by vpgaddr[1]      *)
(* alone, so the proof needs what vpgaddr[1] says about pgcount, frontidx  *)
(* and the mapping, and that a banked blit runs in a banked mode only.     *)
PagesConsistent ==
  /\ vpg1 # "null" => IsMapping(vpg0)
  /\ curmode # NoMode /\ HasLfb[curmode] /\ pc # "crashed" =>
       \/ vpg1 = "null" /\ frontidx = 0 /\ (vpg0 = "map" => mapped = pgsize)
       \/ vpg1 = "second" /\ (vpg0 = "map" => mapped = 2 * pgsize)
  /\ pc = "blit" => curmode # NoMode /\ ~HasLfb[curmode]

IInv ==
  /\ TypeOK /\ PagesConsistent
  /\ MappingOwned /\ BlitInBounds /\ FrontIsShown /\ BankedAddressing
  /\ MtrrInv /\ LfbWriteCombined

-----------------------------------------------------------------------------
(* Operators. *)

(* What is known of a mode. *)
LEMMA ModeFacts ==
  ASSUME NEW m \in Modes
  PROVE  /\ m # NoMode /\ HasLfb[m] \in BOOLEAN /\ WinGran[m] \in Granularities
         /\ Size[m] \in Nat \ {0} /\ ImagePages[m] \in Nat \ {0} /\ LfbAddr[m] \in Nat
         /\ FbLen[m][1] \in 0..MaxLen /\ FbLen[m][2] \in 0..MaxLen
BY ModesAssumption

(* win_64k_step times the granularity is 64 KiB. *)
LEMMA StepLemma ==
  ASSUME NEW g \in Granularities
  PROVE  Step(g) \in Granularities /\ Step(g) * g = 64
<1> DEFINE P(p) == g * p >= 64 /\ (p = 1 \/ g * (p \div 2) < 64)
<1>1. \E p \in Granularities : P(p)
  <2>1. CASE g = 1   BY <2>1, 64 \in Granularities, P(64) DEF Granularities
  <2>2. CASE g = 2   BY <2>2, 32 \in Granularities, P(32) DEF Granularities
  <2>3. CASE g = 4   BY <2>3, 16 \in Granularities, P(16) DEF Granularities
  <2>4. CASE g = 8   BY <2>4, 8 \in Granularities, P(8) DEF Granularities
  <2>5. CASE g = 16  BY <2>5, 4 \in Granularities, P(4) DEF Granularities
  <2>6. CASE g = 32  BY <2>6, 2 \in Granularities, P(2) DEF Granularities
  <2>7. CASE g = 64  BY <2>7, 1 \in Granularities, P(1) DEF Granularities
  <2> QED
    BY <2>1, <2>2, <2>3, <2>4, <2>5, <2>6, <2>7 DEF Granularities
<1>2. Step(g) \in Granularities /\ P(Step(g))
  BY <1>1 DEF Step
<1>3. \A p \in Granularities : P(p) => p * g = 64
  <2>1. CASE g \in {1, 2}    BY <2>1 DEF Granularities
  <2>2. CASE g \in {4, 8}    BY <2>2 DEF Granularities
  <2>3. CASE g \in {16, 32, 64}  BY <2>3 DEF Granularities
  <2> QED
    BY <2>1, <2>2, <2>3 DEF Granularities
<1> QED
  BY <1>2, <1>3

(* One page or two. *)
LEMMA PageCountLemma ==
  ASSUME NEW m \in Modes, NEW nbuf \in 0..3
  PROVE  PageCount(m, nbuf) \in {1, 2}
<1>1. ImagePages[m] \in Nat \ {0}
  BY ModeFacts
<1> QED
  BY <1>1 DEF PageCount

LEMMA MappedSize ==
  ASSUME NEW count \in {1, 2}, NEW size \in Nat
  PROVE  count * size \in Nat
<1>1. CASE count = 1  BY <1>1
<1>2. CASE count = 2  BY <1>2
<1> QED  BY <1>1, <1>2

(* Unmapping leaves no mapping. *)
LEMMA UnmapLemma ==
  ASSUME MappingOwned
  PROVE  LiveAfterUnmap = 0
BY DEF MappingOwned, LiveAfterUnmap

(* TypeOK, conjunct by conjunct. *)
LEMMA TypeParts ==
  TypeOK' <=> /\ StateOK' /\ hwLinear' \in BOOLEAN /\ swapFailed' \in BOOLEAN
              /\ pitchKnown' \in BOOLEAN /\ winFailed' \in BOOLEAN /\ RangesTyped'
BY DEF TypeOK, RangesTyped

(* A step that changes neither the ranges nor the mode keeps what is known  *)
(* about the memory types, and so does one that leaves the linear modes, or *)
(* crashes.                                                                 *)
LEMMA RangesKept ==
  ASSUME IInv, UNCHANGED ranges,
         \/ UNCHANGED <<curmode, pgcount>> /\ pc # "crashed"
         \/ curmode' = NoMode \/ ~HasLfb[curmode'] \/ pc' = "crashed"
  PROVE  MtrrInv' /\ LfbWriteCombined' /\ RangesTyped'
<1> USE DEF ranges
<1>1. MtrrInv' /\ RangesTyped'
  <2>1. RangesTyped' /\ BiosRangesKept'
    BY DEF IInv, MtrrInv, RangesTyped, BiosRangesKept
  <2>2. Taken' = Taken
    BY DEF Taken
  <2>3. TakenAreWc'
    BY <2>2 DEF IInv, MtrrInv, TakenAreWc
  <2>4. NoneTakenTwice'
    BY <2>2 DEF IInv, MtrrInv, NoneTakenTwice, Fits
  <2> QED
    BY <2>1, <2>3, <2>4 DEF MtrrInv
<1>2. LfbWriteCombined'
  BY DEF IInv, LfbWriteCombined, WcLen, Pages, WriteCombined, Matches, FreeRanges, Fits
<1> QED
  BY <1>1, <1>2

(* set_video_mode makes the memory of a linear mode write combining. *)
LEMMA WcLenLemma ==
  ASSUME IInv, NEW m \in Modes, pgcount' \in {1, 2}
  PROVE  WcLen(m, pgcount') \in 0..MaxLen
<1>1. machine.vmem \in 0..MaxLen
  BY MachinesAssumption DEF IInv, MtrrInv, RangesTyped
<1>2. FbLen[m][pgcount'] \in 0..MaxLen
  BY ModeFacts
<1> QED
  BY <1>1, <1>2 DEF WcLen

LEMMA WriteCombineStep ==
  ASSUME IInv, NEW m \in Modes, UNCHANGED machine, WriteCombine(m),
         NEW len \in 0..MaxLen, len = WcLen(m, pgcount')
  PROVE  /\ MtrrInv' /\ RangesTyped'
         /\ machine.wc => Achieved(LfbAddr[m], len)'
<1>1. MtrrInv /\ LfbAddr[m] \in Nat
  BY ModeFacts DEF IInv
<1>2. enable_wrcomb(LfbAddr[m], len)
  BY DEF WriteCombine
<1>3. MtrrInv'
  BY <1>1, <1>2, EnableInv
<1>4. ASSUME machine.wc PROVE Achieved(LfbAddr[m], len)'
  BY <1>1, <1>2, <1>3, <1>4, EnableAchieves
<1> QED
  BY <1>3, <1>4 DEF MtrrInv

-----------------------------------------------------------------------------
LEMMA InitInv == Init => IInv
<1> USE DEF Init
<1>1. Init => StateOK
  BY DEF StateOK
<1>2. Init => TypeOK
  BY <1>1, MachinesAssumption DEF TypeOK, MtrrInit
<1>3. Init => PagesConsistent /\ MappingOwned /\ BlitInBounds /\ FrontIsShown
                /\ BankedAddressing
  BY DEF PagesConsistent, MappingOwned, BlitInBounds, FrontIsShown, BankedAddressing
<1>4. Init => MtrrInv /\ LfbWriteCombined
  BY MachinesAssumption DEF MtrrInit, MtrrInv, RangesTyped, BiosRangesKept, TakenAreWc,
     NoneTakenTwice, Taken, LfbWriteCombined
<1> QED
  BY <1>2, <1>3, <1>4 DEF IInv

(* A mode entered with a linear mapping. *)
LEMMA LfbStep ==
  ASSUME IInv, NEW m \in Modes, NEW nbuf \in 0..3, SetModeLfb(m, nbuf)
  PROVE  IInv'
<1> USE DEF SetModeLfb, Entered
<1>1. pgcount' \in {1, 2} /\ pgsize' \in Nat \ {0} /\ pgsize' = Size[m]
  BY PageCountLemma, ModeFacts
<1>2. curmode' = m /\ pc' = "idle" /\ window' = 0 /\ winFailed' = FALSE
  OBVIOUS
<1>3. framebuf' = pgsize' /\ blit_frame' = "lfb"
  OBVIOUS
<1>12. \/ vpg0' = "map" /\ live' = 1 /\ mapped' = pgcount' * pgsize'
       \/ vpg0' = "unmapped" /\ live' = 0 /\ mapped' = 0
  BY UnmapLemma DEF IInv, dpmi_mmap
<1>4. \/ /\ pgcount' = 1 /\ vpg1' = "null" /\ frontidx' = 0 /\ backidx' = 0
         /\ shown' = 0 /\ swapFailed' = FALSE
      \/ /\ pgcount' = 2 /\ vpg1' = "second" /\ frontidx' = 1 /\ backidx' = 0
         /\ swapFailed' \in BOOLEAN /\ shown' \in {0, 1, Elsewhere}
         /\ ~swapFailed' /\ pitchKnown' => shown' = 1
  <2>1. StartPages /\ vpg1' = IF pgcount' > 1 THEN "second" ELSE "null"
    OBVIOUS
  <2> HIDE DEF SetModeLfb, Entered
  <2>2. pitchKnown' \in BOOLEAN
    BY DEF SetModeLfb, Entered, vbe_setmode
  <2>3. CASE pgcount' = 1
    BY <2>1, <2>3 DEF StartPages
  <2>4. CASE pgcount' = 2
    <3>1. vpg1' = "second" /\ frontidx' = 1 /\ backidx' = 0 /\ vbe_swap(1, FALSE, 0, FALSE)
      <4>1. pgcount' > 1
        BY <2>4
      <4> QED
        BY <2>1, <4>1, Zenon DEF StartPages
    <3>2. /\ swapFailed' \in BOOLEAN /\ shown' \in {0, 1, Elsewhere}
          /\ ~swapFailed' /\ pitchKnown' => shown' = 1
      BY <3>1, Zenon DEF vbe_swap
    <3> QED
      BY <2>4, <3>1, <3>2
  <2> QED
    BY <1>1, <2>3, <2>4
<1>5. /\ mapped' \in Nat /\ pgcount' \in Nat
      /\ vpg0' = "map" /\ pgcount' = 1 => mapped' = pgsize'
      /\ vpg0' = "map" /\ pgcount' = 2 => mapped' = 2 * pgsize'
  BY <1>1, <1>12
<1>6. TypeOK' /\ MtrrInv'
  <2>1. StateOK'
    BY <1>1, <1>2, <1>3, <1>4, <1>5, <1>12 DEF IInv, TypeOK, StateOK
  <2>2. MtrrInv' /\ RangesTyped'
    BY <1>1, WcLenLemma, WriteCombineStep
  <2> QED
    BY <1>2, <1>4, <2>1, <2>2, TypeParts DEF vbe_setmode
<1>7. PagesConsistent'
  BY <1>1, <1>2, <1>3, <1>4, <1>5, <1>12 DEF PagesConsistent, IsMapping
<1>8. MappingOwned' /\ BankedAddressing'
  <2> HIDE DEF SetModeLfb, Entered
  <2>1. curmode' # NoMode /\ HasLfb[curmode']
    BY <1>2, ModeFacts DEF SetModeLfb
  <2> QED
    BY <1>2, <1>12, <2>1 DEF MappingOwned, BankedAddressing
<1>9. BlitInBounds'
  <2>1. curmode' = m /\ HasLfb[m] /\ pgsize' = Size[m] /\ pgsize' \in Nat
    BY <1>1, <1>2
  <2> HIDE DEF SetModeLfb, Entered
  <2>2. vpg0' = "map" => (frontidx' + 1) * pgsize' <= mapped'
    BY <1>1, <1>4, <1>5
  <2> QED
    BY <1>3, <1>12, <2>1, <2>2 DEF BlitInBounds
<1>10. FrontIsShown'
  BY <1>1, <1>2, <1>4 DEF FrontIsShown
<1>11. LfbWriteCombined'
  <2>1. PICK len \in 0..MaxLen : len = WcLen(m, pgcount')
    BY <1>1, WcLenLemma
  <2>2. machine.wc => Achieved(LfbAddr[m], len)'
    BY <2>1, WriteCombineStep
  <2>3. WcLen(m, pgcount)' = len
    BY <2>1 DEF WcLen
  <2> QED
    BY <1>2, <2>2, <2>3 DEF LfbWriteCombined, Achieved
<1> QED
  BY <1>6, <1>7, <1>8, <1>9, <1>10, <1>11 DEF IInv

(* The memset of set_video_mode faults. *)
LEMMA CrashStep ==
  ASSUME IInv, NEW m \in Modes, NEW nbuf \in 0..3, SetModeCrash(m, nbuf)
  PROVE  IInv'
<1> USE DEF SetModeCrash, Entered
<1>1. pgcount' \in {1, 2} /\ pgsize' \in Nat /\ m # NoMode /\ HasLfb[m]
  BY PageCountLemma, ModeFacts
<1>2. /\ curmode' = m /\ pc' = "crashed" /\ window' = 0 /\ winFailed' = FALSE
      /\ vpg0' = "unmapped" /\ vpg1' = "null" /\ shown' = 0 /\ swapFailed' = FALSE
  BY DEF IInv, PagesConsistent
<1>3. live' = 0 /\ mapped' = 0
  BY <1>2, UnmapLemma DEF IInv, dpmi_mmap
<1>4. TypeOK' /\ MtrrInv' /\ LfbWriteCombined'
  <2>1. StateOK'
    BY <1>1, <1>2, <1>3 DEF IInv, TypeOK, StateOK
  <2>2. MtrrInv' /\ RangesTyped' /\ LfbWriteCombined'
    BY <1>2, RangesKept DEF ranges
  <2> QED
    BY <1>2, <2>1, <2>2, TypeParts DEF vbe_setmode
<1>5. PagesConsistent' /\ MappingOwned' /\ FrontIsShown' /\ BlitInBounds'
  BY <1>1, <1>2, <1>3 DEF PagesConsistent, MappingOwned, FrontIsShown, BlitInBounds
<1>6. BankedAddressing'
  BY <1>1, <1>2 DEF BankedAddressing
<1> QED
  BY <1>4, <1>5, <1>6 DEF IInv

(* A mode entered with the window at A0000. *)
LEMMA BankedStep ==
  ASSUME IInv, NEW m \in Modes, NEW nbuf \in 0..3, SetModeBanked(m, nbuf)
  PROVE  IInv'
<1> USE DEF SetModeBanked, Entered
<1>1. pgcount' \in Nat /\ pgsize' \in Nat \ {0} /\ pgsize' = Size[m]
  BY PageCountLemma, ModeFacts
<1>2. live' = 0 /\ vpg0' = "vmem" /\ vpg1' = "null" /\ curmode' = m /\ pc' = "idle"
        /\ window' = 0 /\ winFailed' = FALSE
  BY UnmapLemma DEF IInv
<1>3. framebuf' = pgsize' /\ blit_frame' = "banked"
  OBVIOUS
<1>4. TypeOK' /\ MtrrInv' /\ LfbWriteCombined'
  <2>1. StateOK'
    BY <1>1, <1>2, <1>3 DEF IInv, TypeOK, StateOK
  <2>2. MtrrInv' /\ RangesTyped' /\ LfbWriteCombined'
    BY <1>2, RangesKept DEF ranges
  <2> QED
    BY <1>2, <2>1, <2>2, TypeParts DEF vbe_setmode
<1>5. PagesConsistent' /\ MappingOwned' /\ FrontIsShown'
  BY <1>2 DEF PagesConsistent, MappingOwned, FrontIsShown
<1>7. BankedAddressing'
  <2>1. WinGran[m] \in Nat /\ 0 * WinGran[m] = 0 /\ 0 <= pgsize' * 64
    BY <1>1, ModeFacts DEF Granularities
  <2> QED
    BY <1>2, <2>1 DEF BankedAddressing
<1>6. BlitInBounds'
  BY <1>1, <1>2, <1>3 DEF BlitInBounds
<1> QED
  BY <1>4, <1>5, <1>6, <1>7 DEF IInv

(* Failures that end in text mode. *)
LEMMA FailedStep ==
  ASSUME IInv, NEW m \in Modes, NEW nbuf \in 0..3, SetModeNoFramebuf(m, nbuf)
  PROVE  IInv'
<1> USE DEF SetModeNoFramebuf, Entered, TextMode
<1>1. pgcount' \in {1, 2} /\ pgsize' \in Nat
  BY PageCountLemma, ModeFacts
<1>2. live' = 0 /\ vpg0' \in {"null", "vmem"} /\ vpg1' = "null" /\ curmode' = NoMode
        /\ pc' = "idle" /\ window' = 0 /\ winFailed' = FALSE
  BY UnmapLemma DEF IInv
<1>3. mapped' \in Nat /\ framebuf' \in Nat
  <2>1. pgcount' * pgsize' \in Nat
    BY <1>1, MappedSize
  <2> QED
    BY <1>1, <2>1 DEF IInv, TypeOK, StateOK
<1>4. blit_frame' \in {"null", "lfb", "banked"} /\ hwLinear' = FALSE
  BY DEF IInv, TypeOK, StateOK
<1>5. frontidx' \in {0, 1} /\ backidx' \in {0, 1} /\ shown' \in {0, 1, Elsewhere}
        /\ swapFailed' \in BOOLEAN
  <2>1. CASE UNCHANGED <<frontidx, backidx>> /\ shown' = 0 /\ swapFailed' = FALSE
    BY <2>1 DEF IInv, TypeOK, StateOK
  <2>2. CASE StartPages
    BY <2>2 DEF StartPages, vbe_swap
  <2> QED
    BY <2>1, <2>2
<1>6. offs' \in Nat /\ copied' \in Nat
  BY DEF IInv, TypeOK, StateOK
<1>9. MtrrInv' /\ LfbWriteCombined' /\ RangesTyped' /\ pitchKnown' \in BOOLEAN
  <2>1. CASE UNCHANGED mtrr
    BY <1>2, <2>1, RangesKept DEF ranges, vbe_setmode
  <2>2. CASE WriteCombine(m)
    BY <1>1, <1>2, <2>2, WcLenLemma, WriteCombineStep DEF LfbWriteCombined, vbe_setmode
  <2> QED
    BY <2>1, <2>2
<1> HIDE DEF SetModeNoFramebuf
<1>7. TypeOK'
  <2>1. StateOK'
    BY <1>1, <1>2, <1>3, <1>4, <1>5, <1>6 DEF StateOK
  <2> QED
    BY <1>2, <1>4, <1>5, <1>9, <2>1, TypeParts
<1>8. PagesConsistent' /\ MappingOwned' /\ BankedAddressing' /\ FrontIsShown'
        /\ BlitInBounds'
  BY <1>2 DEF PagesConsistent, MappingOwned, BankedAddressing, FrontIsShown, BlitInBounds
<1> QED
  BY <1>7, <1>8, <1>9 DEF IInv

LEMMA TextStep ==
  ASSUME IInv, set_text_mode
  PROVE  IInv'
<1> USE DEF set_text_mode, TextMode, buffers, blit
<1>1. live' = 0 /\ vpg0' \in {"null", "vmem"} /\ vpg1' = "null" /\ curmode' = NoMode
        /\ pc' = "idle" /\ window' = 0 /\ winFailed' = FALSE
  BY UnmapLemma DEF IInv, PagesConsistent, TypeOK, StateOK, IsMapping
<1>2. TypeOK' /\ MtrrInv' /\ LfbWriteCombined'
  <2>1. StateOK'
    BY <1>1 DEF IInv, TypeOK, StateOK
  <2>2. MtrrInv' /\ RangesTyped' /\ LfbWriteCombined'
    BY <1>1, RangesKept
  <2> QED
    BY <1>1, <2>1, <2>2, TypeParts DEF IInv, TypeOK
<1>3. PagesConsistent' /\ MappingOwned' /\ BankedAddressing' /\ FrontIsShown'
        /\ BlitInBounds'
  BY <1>1 DEF PagesConsistent, MappingOwned, BankedAddressing, FrontIsShown, BlitInBounds
<1> QED
  BY <1>2, <1>3 DEF IInv

LEMMA FlipStep ==
  ASSUME IInv, NEW vblank \in BOOLEAN, page_flip(vblank)
  PROVE  IInv'
<1> USE DEF page_flip, buffers, mapping, blit, win
<1>1. frontidx' \in {0, 1} /\ backidx' \in {0, 1} /\ frontidx' = backidx
        /\ backidx' = 1 - frontidx'
  BY DEF IInv, TypeOK, StateOK
<1>2. shown' \in {0, 1, Elsewhere} /\ swapFailed' \in BOOLEAN
        /\ (~swapFailed' /\ pitchKnown' => shown' = frontidx')
  BY DEF IInv, TypeOK, StateOK, vbe_swap
<1>3. TypeOK' /\ MtrrInv' /\ LfbWriteCombined'
  <2>1. StateOK'
    BY <1>1, <1>2 DEF IInv, TypeOK, StateOK
  <2>2. MtrrInv' /\ RangesTyped' /\ LfbWriteCombined'
    BY RangesKept
  <2> QED
    BY <1>2, <2>1, <2>2, TypeParts DEF IInv, TypeOK
<1>4. PagesConsistent' /\ MappingOwned' /\ BankedAddressing'
  BY DEF IInv, PagesConsistent, MappingOwned, BankedAddressing
<1>5. FrontIsShown'
  BY <1>1, <1>2 DEF FrontIsShown
<1>6. BlitInBounds'
  <2>1. curmode # NoMode /\ HasLfb[curmode] /\ vpg0 = "map"
          => mapped = 2 * pgsize /\ pgsize \in Nat
    BY DEF IInv, PagesConsistent, TypeOK, StateOK
  <2>2. curmode # NoMode /\ HasLfb[curmode] /\ vpg0 = "map"
          => (frontidx' + 1) * pgsize <= mapped
    BY <1>1, <2>1
  <2> QED
    BY <2>2 DEF IInv, BlitInBounds
<1> QED
  BY <1>3, <1>4, <1>5, <1>6 DEF IInv

(* A copy of the frame to the mapping, or a crash for want of one. *)
LEMMA LfbBlitStep ==
  ASSUME IInv, blit_frame_lfb
  PROVE  IInv'
<1> USE DEF blit_frame_lfb, buffers, mapping, flips, win
<1>1. pc = "idle" /\ pc' \in {"idle", "crashed"} /\ curmode # NoMode /\ HasLfb[curmode]
  BY DEF IInv, BlitInBounds
<1>2. TypeOK' /\ MtrrInv' /\ LfbWriteCombined'
  <2>1. StateOK'
    BY <1>1 DEF IInv, TypeOK, StateOK
  <2>2. MtrrInv' /\ RangesTyped' /\ LfbWriteCombined'
    BY <1>1, RangesKept
  <2> QED
    BY <2>1, <2>2, TypeParts DEF IInv, TypeOK
<1>3. PagesConsistent' /\ MappingOwned' /\ FrontIsShown' /\ BlitInBounds'
  BY <1>1 DEF IInv, PagesConsistent, MappingOwned, FrontIsShown, BlitInBounds
<1>4. BankedAddressing'
  BY <1>1 DEF IInv, BankedAddressing
<1> QED
  BY <1>2, <1>3, <1>4 DEF IInv

(* The banked blit, chunk by chunk. *)
LEMMA BlitStep ==
  ASSUME IInv, BeginBlit \/ BlitChunk \/ EndBlit
  PROVE  IInv'
<1> USE DEF buffers, mapping, flips
<1>1. curmode \in Modes /\ ~HasLfb[curmode] /\ WinGran[curmode] \in Granularities
        /\ UNCHANGED <<curmode, buffers, mapping, flips, pitchKnown, hwLinear, ranges>>
  <2>1. StateOK /\ PagesConsistent /\ BlitInBounds
    BY DEF IInv, TypeOK
  <2>2. curmode # NoMode /\ ~HasLfb[curmode]
    BY <2>1 DEF BeginBlit, BlitChunk, EndBlit, PagesConsistent, BlitInBounds
  <2>3. UNCHANGED <<curmode, buffers, mapping, flips, pitchKnown, hwLinear, ranges>>
    BY DEF BeginBlit, BlitChunk, EndBlit
  <2> QED
    BY <2>1, <2>2, <2>3, ModeFacts DEF StateOK
<1> USE DEF BeginBlit, BlitChunk, EndBlit
<1> DEFINE g == WinGran[curmode]
<1>2. Step(g) \in Nat /\ Step(g) * g = 64 /\ g \in Nat
  BY <1>1, StepLemma DEF Granularities
<1>7. pc # "crashed" /\ pc' # "crashed"
  OBVIOUS
<1>3. /\ pc' \in {"idle", "blit"} /\ window' \in Nat /\ offs' \in Nat /\ copied' \in Nat
      /\ winFailed' \in BOOLEAN
  <2>1. StateOK /\ winFailed \in BOOLEAN
    BY DEF IInv, TypeOK
  <2>2. offs' \in Nat /\ copied' \in Nat
    BY <1>2, <2>1 DEF StateOK
  <2>3. window' \in {window, 0, offs'} /\ winFailed' \in BOOLEAN
    BY <2>1, Zenon DEF vbe_setwin, win
  <2> QED
    BY <2>1, <2>2, <2>3 DEF StateOK
<1>8. pgsize' = pgsize /\ pgsize \in Nat /\ copied \in Nat /\ offs \in Nat /\ window \in Nat
  BY <1>1 DEF IInv, TypeOK, StateOK
<1>4. BankedAddressing'
  <2>1. window * g <= pgsize * 64
    BY <1>1, ModeFacts DEF IInv, BankedAddressing
  <2>2. CASE BeginBlit
    BY <1>1, <1>2, <2>1, <2>2 DEF IInv, BankedAddressing, win
  <2>3. CASE EndBlit
    <3>1. \/ window' = 0 /\ winFailed' = FALSE
          \/ window' = window /\ winFailed' = TRUE
      BY <2>3 DEF vbe_setwin
    <3>2. window' * g <= pgsize * 64
      BY <1>2, <1>8, <2>1, <3>1
    <3> QED
      BY <1>1, <2>3, <3>1, <3>2 DEF BankedAddressing
  <2>4. CASE BlitChunk
    <3>1. offs * g = copied * 64
      BY <2>4 DEF IInv, BankedAddressing
    <3>2. offs' = offs + Step(g) /\ copied' = copied + 1 /\ copied + 1 <= pgsize
      BY <1>8, <2>4
    <3>3. (offs + Step(g)) * g = offs * g + Step(g) * g
      BY <1>2, <1>8
    <3>4. offs' * g = copied' * 64 /\ offs' * g <= pgsize * 64
      BY <1>2, <1>8, <3>1, <3>2, <3>3
    <3>5. \/ window' = offs' /\ winFailed' = FALSE
          \/ window' = window /\ winFailed' = TRUE
      BY <2>4 DEF vbe_setwin
    <3>6. window' * g <= pgsize * 64
      BY <2>1, <3>4, <3>5
    <3> QED
      BY <1>1, <2>4, <3>4, <3>5, <3>6 DEF BankedAddressing
  <2> QED
    BY <2>2, <2>3, <2>4
<1>5. TypeOK' /\ MtrrInv' /\ LfbWriteCombined'
  <2>1. StateOK'
    BY <1>1, <1>3 DEF IInv, TypeOK, StateOK
  <2>2. MtrrInv' /\ RangesTyped' /\ LfbWriteCombined'
    BY <1>1, <1>7, RangesKept
  <2> QED
    BY <1>1, <1>3, <2>1, <2>2, TypeParts DEF IInv, TypeOK
<1>6. PagesConsistent' /\ MappingOwned' /\ FrontIsShown' /\ BlitInBounds'
  BY <1>1, <1>7 DEF IInv, PagesConsistent, MappingOwned, FrontIsShown, BlitInBounds
<1> QED
  BY <1>4, <1>5, <1>6 DEF IInv

-----------------------------------------------------------------------------
(* IInv is inductive. *)
LEMMA NextInv == IInv /\ [Next]_vars => IInv'
<1> SUFFICES ASSUME IInv, [Next]_vars PROVE IInv'
  OBVIOUS
<1>1. CASE UNCHANGED vars
  <2>1. TypeOK' /\ PagesConsistent' /\ MappingOwned' /\ BlitInBounds' /\ FrontIsShown'
          /\ BankedAddressing'
    BY <1>1 DEF IInv, TypeOK, StateOK, PagesConsistent, MappingOwned, BlitInBounds,
                FrontIsShown, BankedAddressing, vars, buffers, mapping, flips, win, blit, ranges
  <2>2. MtrrInv' /\ LfbWriteCombined'
    BY <1>1, RangesKept DEF vars, buffers, blit
  <2> QED
    BY <2>1, <2>2 DEF IInv
<1>2. ASSUME NEW m \in Modes, NEW nbuf \in 0..3, set_video_mode(m, nbuf)
      PROVE  IInv'
  BY <1>2, LfbStep, CrashStep, BankedStep, FailedStep DEF set_video_mode
<1> QED
  BY <1>1, <1>2, TextStep, FlipStep, LfbBlitStep, BlitStep DEF Next, Crashed

LEMMA AlwaysInv == Spec => []IInv
BY InitInv, NextInv, PTL DEF Spec

(* Every variable of the video code has its type. *)
THEOREM TypeCorrect == Spec => []TypeOK
<1>1. IInv => TypeOK  BY DEF IInv
<1> QED  BY <1>1, AlwaysInv, PTL

(* set_video_mode and set_text_mode never leak a mapping of video memory    *)
(* and never unmap one twice, whatever fails and in whatever order modes    *)
(* are set; nor do they when the host refused a mapping and dpmi_mmap said  *)
(* nothing of it.                                                           *)
THEOREM NoMappingLeaks == Spec => []MappingOwned
<1>1. IInv => MappingOwned  BY DEF IInv
<1> QED  BY <1>1, AlwaysInv, PTL

(* A frame is copied inside the frame buffer, and inside the mapping if the *)
(* host made one: blit_frame_lfb and blit_frame_banked do not ask.          *)
THEOREM BlitsStayInBounds == Spec => []BlitInBounds
<1>1. IInv => BlitInBounds  BY DEF IInv
<1> QED  BY <1>1, AlwaysInv, PTL

(* Frames are drawn to the page on display while the swaps succeed.         *)
THEOREM FrontPageIsShown == Spec => []FrontIsShown
<1>1. IInv => FrontIsShown  BY DEF IInv
<1> QED  BY <1>1, AlwaysInv, PTL

(* As long as the BIOS moves the window when it is told to, a chunk of a    *)
(* banked blit goes to its place, for every page size and every granularity *)
(* that is a power of two of at most 64 KiB; and a window that a failing    *)
(* vbe_setwin left behind is in the page or one past it.                    *)
THEOREM BankedBlitsAddress == Spec => []BankedAddressing
<1>1. IInv => BankedAddressing  BY DEF IInv
<1> QED  BY <1>1, AlwaysInv, PTL

(* However often and in whatever order modes are set: the ranges of the     *)
(* BIOS are kept; the memory of a linear mode is write combining, unless    *)
(* the CPU cannot do that, its length is no multiple of 4 KiB, no range is  *)
(* free or the range does not fit; and no range is spent twice on memory    *)
(* that fits.                                                               *)
THEOREM WriteCombiningIsSetUpOnce == Spec => []MtrrsSpentWell
<1>1. IInv => MtrrsSpentWell  BY DEF IInv, MtrrInv, MtrrsSpentWell
<1> QED  BY <1>1, AlwaysInv, PTL
=============================================================================
