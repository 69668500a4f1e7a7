------------------------------ MODULE DosVideo ------------------------------
(***************************************************************************)
(* src/dos/gfx.c with resizefb of src/dos/main.c: setting and leaving VESA *)
(* video modes, flipping pages, and copying the frame to the screen either *)
(* through a linear mapping of video memory or 64 KiB at a time through    *)
(* the window at A0000.  The module keeps its own idea of the mode, the    *)
(* mapping, the pages and the frame buffer; every call under it that sets  *)
(* a mode, swaps pages, moves the window, maps or allocates may fail, and  *)
(* a caller may set modes in any order.  The calls of src/dos/vbe.c and of *)
(* the DPMI glue that it makes are here, the memory type ranges of a       *)
(* linear mode in module Mtrr.                                             *)
(*                                                                         *)
(* Sizes are counted in 64 KiB chunks, window granularity in KiB.  The     *)
(* hardware variables stand for the BIOS and the card (external).          *)
(*                                                                         *)
(* A definition named Op_Slip is a faulty variant of Op, a slip that the   *)
(* properties are meant to catch; no action uses it.                       *)
(***************************************************************************)
EXTENDS Mtrr

CONSTANTS
  Modes,       \* the mode list of init_video
  NoMode,      \* curmode == 0, and text mode
  HasLfb,      \* HasLfb[m]: fb_addr is not 0
  Size,        \* Size[m]: chunks in a page, rounded up
  ImagePages,  \* ImagePages[m]: max_pages + 1
  WinGran,     \* WinGran[m]: win_gran
  LfbAddr,     \* LfbAddr[m]: fb_addr, in pages of 4 KiB
  FbLen        \* FbLen[m][n]: fbsize with n pages, in 4 KiB, 0 if not a multiple

Granularities == {1, 2, 4, 8, 16, 32, 64}

ASSUME ModesAssumption ==
  /\ NoMode \notin Modes
  /\ HasLfb \in [Modes -> BOOLEAN]
  /\ Size \in [Modes -> Nat \ {0}]
  /\ ImagePages \in [Modes -> Nat \ {0}]
  /\ WinGran \in [Modes -> Granularities]
  /\ LfbAddr \in [Modes -> Nat]
  /\ FbLen \in [Modes -> [{1, 2} -> 0..MaxLen]]

VARIABLES
  curmode,
  vpg0,               \* vpgaddr[0]: null, a mapping, an unmapped address, or VMEM_PTR
  vpg1,               \* vpgaddr[1]: null, or the page after vpgaddr[0]
  frontidx, backidx,
  pgcount, pgsize,
  blit_frame,         \* the function it points to
  framebuf,           \* chunks allocated, 0 when NULL
  live, mapped,       \* DPMI mappings that exist; chunks covered by the last
  hwLinear,           \* hardware: the mode was set with the LFB bit
  shown,              \* hardware: page displayed, or Elsewhere
  window,             \* hardware: position of window A, in granules
  swapFailed,         \* a vbe_swap failed in this mode
  pitchKnown,         \* vbe.c: cur_pitch is not -1
  winFailed,          \* the last vbe_setwin in this mode failed
  pc,                 \* "idle", "blit" inside blit_frame_banked, or "crashed"
  offs, copied        \* blit_frame_banked: offs, and chunks copied

buffers == <<pgcount, pgsize, framebuf, blit_frame>>
mapping == <<vpg0, vpg1, live, mapped>>
flips == <<frontidx, backidx, shown, swapFailed>>
blit == <<pc, offs, copied>>
win == <<window, winFailed>>
ranges == <<machine, mtrr>>
vars == <<curmode, buffers, mapping, flips, pitchKnown, hwLinear, win, blit, ranges>>

Elsewhere == 2   \* the display starts in the middle of a page

StateOK ==
  /\ curmode \in Modes \cup {NoMode}
  /\ vpg0 \in {"null", "map", "unmapped", "vmem"} /\ vpg1 \in {"null", "second"}
  /\ frontidx \in {0, 1} /\ backidx \in {0, 1} /\ shown \in {0, 1, Elsewhere}
  /\ pgcount \in Nat /\ pgsize \in Nat /\ framebuf \in Nat
  /\ blit_frame \in {"null", "lfb", "banked"}
  /\ live \in Nat /\ mapped \in Nat
  /\ pc \in {"idle", "blit", "crashed"}
  /\ window \in Nat /\ offs \in Nat /\ copied \in Nat

TypeOK ==
  /\ StateOK /\ hwLinear \in BOOLEAN /\ swapFailed \in BOOLEAN /\ pitchKnown \in BOOLEAN
  /\ winFailed \in BOOLEAN
  /\ machine \in Machines /\ mtrr \in Seq(Ranges \cup {Free})

Init ==
  /\ curmode = NoMode /\ vpg0 = "null" /\ vpg1 = "null"
  /\ frontidx = 0 /\ backidx = 0 /\ pgcount = 0 /\ pgsize = 0
  /\ blit_frame = "null" /\ framebuf = 0 /\ live = 0 /\ mapped = 0
  /\ hwLinear = FALSE /\ shown = 0 /\ window = 0 /\ winFailed = FALSE /\ swapFailed = FALSE
  /\ pitchKnown = FALSE /\ pc = "idle" /\ offs = 0 /\ copied = 0
  /\ MtrrInit

-----------------------------------------------------------------------------
(* src/dos/vbe.c *)

(* A mode set that succeeds asks for the pitch, and may get none (-1). *)
vbe_setmode == pitchKnown' \in BOOLEAN

(* Without VBLANK the display start is given as column and line, which     *)
(* come out wrong when the pitch is not known and the offset is not 0.     *)
(* before and failedBefore are what the BIOS leaves when it refuses.       *)
vbe_swap(page, vblank, before, failedBefore) ==
  \/ shown' = before /\ swapFailed' = TRUE
  \/ /\ shown' = IF vblank \/ page = 0 \/ pitchKnown' THEN page ELSE Elsewhere
     /\ swapFailed' = failedBefore

(* The caller ignores the result, and the window stays where it was. *)
vbe_setwin(pos) ==
  \/ window' = pos /\ winFailed' = FALSE
  \/ window' = window /\ winFailed' = TRUE

-----------------------------------------------------------------------------
(* set_video_mode *)

(* What the code takes for a mapping.  dpmi_munmap of an address that is    *)
(* not mapped does nothing.                                                 *)
IsMapping(ptr) == ptr \notin {"null", "vmem"}

(* Mappings left once the previous one is unmapped; VMEM_PTR is not one. *)
LiveAfterUnmap_Leak == live
LiveAfterUnmap == IF vpg0 = "map" THEN live - 1 ELSE live

(* nbuf clamped to 1..2 and to the pages the mode has. *)
PageCount(m, nbuf) ==
  LET n == IF nbuf < 1 THEN 1 ELSE IF nbuf > 2 THEN 2 ELSE nbuf
  IN  IF n > ImagePages[m] THEN ImagePages[m] ELSE n

(* Both vbe_setmode attempts failing, or the mode being current already,    *)
(* changes nothing.  Otherwise the first (with the LFB bit) or the second   *)
(* succeeded, and the BIOS starts the mode at page 0 and window 0.          *)
Entered(m, nbuf) ==
  /\ pc = "idle" /\ m # curmode
  /\ pgcount' = PageCount(m, nbuf) /\ pgsize' = Size[m]
  /\ window' = 0 /\ winFailed' = FALSE
  /\ vbe_setmode
  /\ UNCHANGED <<offs, copied, machine>>

(* With two pages the code flips at once, whether or not vbe_swap works. *)
StartPages_KeepIndices ==
  IF pgcount' > 1
    THEN frontidx' = 1 /\ backidx' = 0 /\ vbe_swap(1, FALSE, 0, FALSE)
    ELSE UNCHANGED <<frontidx, backidx>> /\ shown' = 0 /\ swapFailed' = FALSE
StartPages ==
  IF pgcount' > 1
    THEN frontidx' = 1 /\ backidx' = 0 /\ vbe_swap(1, FALSE, 0, FALSE)
    ELSE frontidx' = 0 /\ backidx' = 0 /\ shown' = 0 /\ swapFailed' = FALSE

(* The video memory is made write combining, or else this mode's part. *)
WcLen(m, pages) == IF machine.vmem > 0 THEN machine.vmem ELSE FbLen[m][pages]
WriteCombine(m) == enable_wrcomb(LfbAddr[m], WcLen(m, pgcount'))

(* Neither build of dpmi_mmap notices that the host refuses: the DJGPP one  *)
(* ignores the result, and the Watcom one adds the carry flag with an add   *)
(* that does not look at it.  Both return the address they asked for.       *)
dpmi_mmap(size) ==
  \/ vpg0' = "map" /\ live' = LiveAfterUnmap + 1 /\ mapped' = size
  \/ vpg0' = "unmapped" /\ live' = LiveAfterUnmap /\ mapped' = 0

SetModeLfb(m, nbuf) ==
  /\ HasLfb[m] /\ Entered(m, nbuf) /\ StartPages /\ WriteCombine(m)
  /\ hwLinear' \in BOOLEAN
  /\ dpmi_mmap(pgcount' * pgsize')
  /\ vpg1' = IF pgcount' > 1 THEN "second" ELSE "null"
  /\ blit_frame' = "lfb" /\ framebuf' = pgsize' /\ curmode' = m
  /\ UNCHANGED pc

(* The memset of the first page faults if that is not mapped.  (Or it       *)
(* writes to whatever is there: then the other actions go on.)              *)
SetModeCrash(m, nbuf) ==
  /\ HasLfb[m] /\ Entered(m, nbuf) /\ pc' = "crashed"
  /\ hwLinear' \in BOOLEAN /\ curmode' = m
  /\ dpmi_mmap(pgcount' * pgsize') /\ vpg0' = "unmapped"
  /\ vpg1' = IF IsMapping(vpg0) THEN "null" ELSE vpg1
  /\ shown' = 0 /\ swapFailed' = FALSE
  /\ UNCHANGED <<frontidx, backidx, blit_frame, framebuf, mtrr>>

SetModeBanked(m, nbuf) ==
  /\ ~HasLfb[m] /\ Entered(m, nbuf)
  /\ hwLinear' \in BOOLEAN
  /\ live' = LiveAfterUnmap
  /\ vpg0' = "vmem" /\ vpg1' = "null"
  /\ shown' = 0 /\ swapFailed' = FALSE
  /\ blit_frame' = "banked" /\ framebuf' = pgsize' /\ curmode' = m
  /\ UNCHANGED <<pc, frontidx, backidx, mapped, mtrr>>

TextMode == curmode' = NoMode /\ hwLinear' = FALSE

(* resizefb frees the old frame buffer and cannot allocate the new one; the *)
(* code goes back to text mode.  set_text_mode leaves a VMEM_PTR where it   *)
(* is.                                                                      *)
SetModeNoFramebuf(m, nbuf) ==
  /\ Entered(m, nbuf) /\ TextMode
  /\ framebuf' = 0 /\ live' = LiveAfterUnmap /\ vpg1' = "null"
  /\ IF HasLfb[m]
       THEN /\ StartPages /\ WriteCombine(m) /\ blit_frame' = "lfb"
            /\ vpg0' = "null" /\ mapped' \in {0, pgcount' * pgsize'}
       ELSE /\ blit_frame' = "banked" /\ vpg0' = "vmem" /\ shown' = 0 /\ swapFailed' = FALSE
            /\ UNCHANGED <<frontidx, backidx, mapped, mtrr>>
  /\ UNCHANGED pc

set_video_mode(m, nbuf) ==
  \/ SetModeLfb(m, nbuf) \/ SetModeCrash(m, nbuf)
  \/ SetModeBanked(m, nbuf) \/ SetModeNoFramebuf(m, nbuf)

set_text_mode ==
  /\ pc = "idle" /\ TextMode
  /\ live' = LiveAfterUnmap
  /\ IF IsMapping(vpg0) THEN vpg0' = "null" /\ vpg1' = "null" ELSE UNCHANGED <<vpg0, vpg1>>
  /\ window' = 0 /\ winFailed' = FALSE /\ shown' = 0 /\ swapFailed' = FALSE
  /\ UNCHANGED <<buffers, mapped, frontidx, backidx, pitchKnown, blit, ranges>>

-----------------------------------------------------------------------------
(* page_flip: without a second page nothing happens; a failing vbe_swap is  *)
(* not noticed.                                                             *)
page_flip_ShowsFront(vblank) ==
  /\ pc = "idle" /\ vpg1 # "null"
  /\ UNCHANGED <<curmode, buffers, mapping, pitchKnown, hwLinear, win, blit, ranges>>
  /\ vbe_swap(frontidx, vblank, shown, swapFailed)
  /\ frontidx' = backidx /\ backidx' = (backidx + 1) % 2
page_flip_NoWrap(vblank) ==
  /\ pc = "idle" /\ vpg1 # "null"
  /\ UNCHANGED <<curmode, buffers, mapping, pitchKnown, hwLinear, win, blit, ranges>>
  /\ vbe_swap(backidx, vblank, shown, swapFailed)
  /\ frontidx' = backidx /\ backidx' = backidx + 1
page_flip(vblank) ==
  /\ pc = "idle" /\ vpg1 # "null"
  /\ UNCHANGED <<curmode, buffers, mapping, pitchKnown, hwLinear, win, blit, ranges>>
  /\ vbe_swap(backidx, vblank, shown, swapFailed)
  /\ frontidx' = backidx /\ backidx' = (backidx + 1) % 2

(* A page is copied to vpgaddr[frontidx] in one go: in bounds, as the       *)
(* invariants say, or through an address that is not mapped.                *)
blit_frame_lfb ==
  /\ pc = "idle" /\ curmode # NoMode /\ blit_frame = "lfb"
  /\ UNCHANGED pc \/ (vpg0 = "unmapped" /\ pc' = "crashed")
  /\ UNCHANGED <<curmode, buffers, mapping, flips, pitchKnown, hwLinear, win, ranges, offs, copied>>

(* win_64k_step: the granularity is doubled until it reaches 64 KiB. *)
Step(gran) ==
  CHOOSE p \in Granularities : gran * p >= 64 /\ (p = 1 \/ gran * (p \div 2) < 64)

(* blit_frame_banked assumes that the window is at 0, and tries to leave it *)
(* there.                                                                   *)
BeginBlit ==
  /\ pc = "idle" /\ curmode # NoMode /\ blit_frame = "banked"
  /\ pc' = "blit" /\ offs' = 0 /\ copied' = 0
  /\ UNCHANGED <<curmode, buffers, mapping, flips, pitchKnown, hwLinear, win, ranges>>

(* One chunk to the window, then the window moves on. *)
BlitChunk_ByteStep ==
  /\ pc = "blit" /\ copied < pgsize
  /\ copied' = copied + 1
  /\ offs' = offs + 1 /\ vbe_setwin(offs')
  /\ UNCHANGED <<curmode, buffers, mapping, flips, pitchKnown, hwLinear, pc, ranges>>
BlitChunk ==
  /\ pc = "blit" /\ copied < pgsize
  /\ copied' = copied + 1
  /\ offs' = offs + Step(WinGran[curmode]) /\ vbe_setwin(offs')
  /\ UNCHANGED <<curmode, buffers, mapping, flips, pitchKnown, hwLinear, pc, ranges>>

EndBlit ==
  /\ pc = "blit" /\ copied = pgsize
  /\ pc' = "idle" /\ vbe_setwin(0)
  /\ UNCHANGED <<curmode, buffers, mapping, flips, pitchKnown, hwLinear, offs, copied, ranges>>

-----------------------------------------------------------------------------
Crashed == pc = "crashed" /\ UNCHANGED vars

Next ==
  \/ \E m \in Modes, nbuf \in 0..3 : set_video_mode(m, nbuf)
  \/ set_text_mode \/ (\E vblank \in BOOLEAN : page_flip(vblank))
  \/ blit_frame_lfb \/ BeginBlit \/ BlitChunk \/ EndBlit \/ Crashed

Spec == Init /\ [][Next]_vars

-----------------------------------------------------------------------------
(* At any time there is at most one mapping, the one vpgaddr[0] points to:  *)
(* no sequence of mode switches and failures leaks one or unmaps one twice, *)
(* the failures of dpmi_mmap that the code does not notice included, and    *)
(* text mode has none.                                                      *)
MappingOwned ==
  /\ live = IF vpg0 = "map" THEN 1 ELSE 0
  /\ curmode = NoMode => live = 0 /\ vpg1 = "null"

(* While a mode is set, a blit reads no more than the frame buffer holds    *)
(* and writes no further than the mapping, through whatever page frontidx   *)
(* was left at by earlier modes; unless the host refused to map anything.   *)
BlitInBounds ==
  curmode # NoMode /\ pc # "crashed" =>
    /\ pgsize = Size[curmode] /\ framebuf = pgsize
    /\ blit_frame = IF HasLfb[curmode] THEN "lfb" ELSE "banked"
    /\ HasLfb[curmode] =>
         vpg0 = "unmapped" \/ (vpg0 = "map" /\ (frontidx + 1) * pgsize <= mapped)
    /\ ~HasLfb[curmode] => vpg0 = "vmem" /\ vpg1 = "null"

(* Frames are drawn to the page on display, and page_flip's pages alternate *)
(* as long as the BIOS honours the swaps and has told the pitch.            *)
FrontIsShown ==
  curmode # NoMode /\ HasLfb[curmode] /\ pc # "crashed" =>
    /\ ~swapFailed /\ pitchKnown => shown = frontidx
    /\ vpg1 # "null" => backidx = 1 - frontidx

(* Every chunk of a banked blit goes to its own place in the page, and the  *)
(* next blit finds the window at 0 as it assumes, unless the BIOS refused   *)
(* to move the window there; the first vbe_setwin that succeeds after that  *)
(* puts it right again, for no position is relative to an earlier one.  A   *)
(* window that stays behind is never further than one past the page.        *)
BankedAddressing ==
  /\ pc = "blit" => offs * WinGran[curmode] = copied * 64
  /\ ~winFailed => window = IF pc = "blit" THEN offs ELSE 0
  /\ curmode # NoMode /\ ~HasLfb[curmode] => window * WinGran[curmode] <= pgsize * 64

(* While a linear mode is set its memory is write combining, if the CPU can *)
(* do that, a range was free and the range fits, and the length to cover is *)
(* a multiple of 4 KiB: the size of the video memory always is, that of the *)
(* pages of a mode need not be, and then the code gives up.  However often  *)
(* modes are set, no range is spent on memory that has one, unless it does  *)
(* not fit: each switch then takes another until none is left.  The ranges  *)
(* of the BIOS are never touched.                                           *)
LfbWriteCombined ==
  LET addr == LfbAddr[curmode]
      len == WcLen(curmode, pgcount)
  IN  curmode # NoMode /\ HasLfb[curmode] /\ pc # "crashed" /\ machine.wc =>
        \/ len = 0
        \/ \A page \in Pages(addr, len) : WriteCombined(page)
        \/ FreeRanges = {} \/ ~Fits(addr, MaskSpan(len))
MtrrsSpentWell == BiosRangesKept /\ NoneTakenTwice /\ LfbWriteCombined

(* gfx.c:191, printed when the LFB mode set fails: "failed to get a linear  *)
(* framebuffer. falling back to banked mode".  Frames are copied through a  *)
(* linear mapping only if the card is in a linear mode.                     *)
LinearBlitNeedsLinearMode ==
  curmode # NoMode /\ blit_frame = "lfb" => hwLinear
=============================================================================
