# retrobench: specifications, model checks and proofs

retrobench is a frame-rate benchmark for old machines. One drawing core
(`src/rbench.c`) is linked with one of three platform drivers: X11 with shared
memory images (`src/x11`), the Linux framebuffer console (`src/fbdev`) and DOS
with VESA BIOS modes and a hooked timer interrupt (`src/dos`, built by Watcom or
DJGPP). A small library of its own (`src/treestor.c`, `src/ts_text.c` and
`src/dynarr.c`) reads the configuration file `rbench.cfg`.

The paths below are relative to the repository. This directory holds TLA+
modules of the parts where order, failure and reuse of state matter, the TLC
configurations that check them, and TLAPS proofs.

## 1. Inventory

| Component | State it keeps | Operations | Talks to | What is hard | Correct when |
|---|---|---|---|---|---|
| X11 driver `src/x11/main.c` | `pending`, `mapped`, the SysV segment, the image, the window, `num_frames` | startup in seven calls, `handle_event`, frame loop, `sig`, cleanup at `end:` | X server by queued requests and events; kernel; `redraw` through the shared image | three actors share memory; requests are executed later than they are sent; a signal hits the middle of a statement; errors arrive at an unrelated call | no frame is drawn into an image being read; the segment dies with the process unless Xlib ended that; a quit is never overlooked |
| Linux console driver `src/fbdev/*` | video mode and saved mode, mapping, `term_fd` and the terminal's line discipline, `quit` | save, set, get, restore mode; `fbev_init`, `fbev_update`, `fbev_shutdown`; frame loop | `/dev/fb0`, `/dev/tty`, the user | two resources outlive the process and there are eight ways out of `main` | the terminal always comes back; the video mode does except in the cases listed |
| DOS timer `src/dos/timer.c` | `ticks`, `tick_interval`, `ticks_per_dos_intr`, `inum`, the saved vector | `init_timer`, `cleanup`, `reset_timer`, `get_msec`, `sleep_msec`, two interrupt handlers | PIT, PIC, the BIOS handler it replaces | handlers run between any two instructions; each interrupt must be acknowledged by exactly one of two parties | one acknowledgement each; the BIOS clock keeps its rate but for rounding; vectors are restored |
| DOS video `src/dos/gfx.c` | `curmode`, `vpgaddr`, `frontidx`, `backidx`, `pgcount`, `pgsize`, `blit_frame`; mode list; MTRRs | `init_video`, `match_video_mode`, `set_video_mode`, `set_text_mode`, `page_flip`, two blits, `enable_wrcomb` | VESA BIOS, DPMI mappings, `resizefb`, the CPU's MTRRs | state left by one mode meets the next; every call may fail; the banked window has to be stepped | mappings are neither leaked nor unmapped twice; blits stay inside frame buffer and mapping; memory type ranges are not wasted |
| Dynamic array `src/dynarr.c` | descriptor (`nelem`, `max_elem`) and buffer | alloc, free, resize, clear, push, pop, finalize, string macros | `malloc`; used by `ts_text.c` and `treestor.c` | growing and shrinking move the array; failures are silent | it is a stack, and strings stay terminated |
| Tree store `src/treestor.c` | trees of nodes with attribute and child lists, values that own strings, vectors and arrays | alloc, init, destroy, free of values, attributes, nodes and trees; setters; copy; list operations; lookups | `malloc`, the text format | ownership when the n-th allocation fails; list tails | each block is freed exactly once; lists and parent pointers agree |
| Text format `src/ts_text.c` | parser state: token, next character, line | `ts_text_load`, `ts_text_save`, tokenizer, recursive descent | tree store, dynamic array, stdio | errors at any depth | what is saved loads as the same tree; errors leave nothing behind |
| Drawing core `src/rbench.c` | `opt`, frame buffer geometry, masks and shifts | `read_config`, `init`, `redraw`, `key_event` | each driver | pixel packing, bounds of the rectangles | writes stay in the frame buffer |
| VESA interface `src/dos/vbe.c`, `vga.c` | none but BIOS buffers | register calls | BIOS | widths of packed fields | |
| DOS program and log `src/dos/main.c`, `logger.c` | `framebuf`, descriptors under stdout and stderr, the list of modes | `main`, `resizefb`, `init_logger`, `stop_logger` | video, timer, console | ways out of `main`; output buffered across two swaps of descriptors; Ctrl-C inside calls of DOS, or anywhere (DJGPP) | timer, video mode and log are undone; each line comes out where it was meant to |
| Glue `djdpmi.c`, `watdpmi.c`, `util.*` | none | DPMI calls, bit tricks | | | |

The components meet in a few places. The drivers call `redraw`, which writes
`framebuf`; the X server or the blit reads it. `set_video_mode` calls
`resizefb` in the DOS program. The timer handlers run inside everything the DOS
program does. `read_config` calls the tree store, which calls the parser, which
keeps its token in a dynamic array.

What can go wrong and is hard to test is listed, line by line, under `hazards`
in `PROJECT.json`, with the properties that cover each.

## 2. Modules

A module models all state changes of the functions it names, and their failures but
for those listed at the end of section 6; `map` in `PROJECT.json` gives the lines of each
definition. A definition named
`Op_Slip` is a wrong variant of `Op` (a dropped guard, a swapped order, an
off-by-one). It is never used by the specification: substituted for `Op` it must
make the property named in `mutants` fail, which shows that the property would
notice that slip.

### X11App

One process, an X server, a window manager with a user, and a SIGINT handler.

* `pc` walks through `main`: the startup stages (each call that can fail is a
  step; a failure goes to `halt` or to `end` as the code does), the loop test,
  the drain loop (`poll`), `redraw` (`draw`), `XSync` (`sync`), the blocking
  `XNextEvent` (`block`), and the cleanup stages.
* `requests` are the requests the server has not executed; `events` those it has
  sent. The server executes in order and takes two steps for `XShmPutImage`, so
  that it can be caught reading (`reading`) the shared image.
* `pending |= REDRAW` in `handle_event` is compiled to a load, an or and a store
  at the optimisation level of the Makefile, and `HandleEvent`/`StoreRedraw` are
  these two halves: `sig` can run between them. `pending |= QUIT` elsewhere does
  not clear a bit it has not seen, and is one step.
* Xlib's default error handler exits the process from whatever call reads the
  connection (`XErrorExit`) once an X error has arrived: the server may refuse the
  window (`XCreateWindow` gives no border pixel, so a visual of another depth than the
  root's is a `BadMatch`, and a size of 0 a `BadValue`) and the segment, and answers
  requests on what it has refused with errors. The I/O error handler exits from any
  Xlib call when the connection is lost (`ConnectionLost`). Neither exit runs what is
  below `end:`. That the window manager sends WM_DELETE_WINDOW to an iconified window is
  in `UserEvent`.
* REDRAW itself is never read by the program and is not kept.

### FbdevApp

`pc` is the place in `main`. Each of `open`, the save ioctl, the mode ioctl,
`mmap`, `malloc` and the terminal calls may fail; `failed` remembers which did, so
that `ModeLeftBehindOnlyIf` can say exactly what leaves the mode behind. Ctrl-C
kills the process while the terminal is cooked and is an ordinary byte once it is
raw. Assumed: the `fcntl` that makes the descriptor non-blocking succeeds (the
code does not look), and putting back a mode the device reported succeeds.

A device is its line length before and after the mode switch, the extent of a row and
of the screen, and the size of its memory. `fbgfx.c` asks for the line length once,
when the device is opened, which is before the switch; `pitch` is that answer, from
which `main` computes the size of `framebuf`. `FrameInBounds` is the extent of what
`redraw` and the copy to video memory touch; a step that leaves it may crash the
program. `MCFbdevApp` has four devices: one whose line length the switch keeps, with
padding, one where it grows, and two where it shrinks.

### DosTimer

The main program, the two handlers, the BIOS handler, the PIT and the PIC.
`handler` names the handler code to run next; the main program runs only when
there is none, handlers never see each other half done. `init_timer` and
`cleanup` disable interrupts and are one step each. `watcom` selects the build:
only that one calls the BIOS handler and has the int 1Ch handler. The bytes the
PIT gets are those of `set_timer_reload`, hence `PitPeriod` is computed modulo
2^16, with 0 standing for 2^16.

### DosVideo, Mtrr, MCDosVideo

All module variables of `gfx.c`, the frame buffer of `resizefb`, and as hardware
the page on display, the window position and whether the card is in a linear
mode. `set_video_mode` has four outcomes once the BIOS has switched (linear,
banked, a fault in its `memset`, `resizefb` failed), each one action; when both mode
sets fail, or the mode is current, nothing changes. `dpmi_mmap` never reports a failure,
in either build: DJGPP's ignores the result of the DPMI call, and Watcom's adds 1 to a
zeroed variable, without the carry the call returns, and compares it with 2. So the code's
own branch for a failed mapping is never taken, and `vpgaddr[0]` may be an address that is
not mapped (`"unmapped"`): clearing or drawing to it faults (`"crashed"`) or writes to whatever is
there, and unmapping it does nothing. Of `vbe.c` there are
`vbe_setmode`, which remembers whether the BIOS told the pitch, `vbe_swap`, which
divides by it, and `vbe_setwin`, whose failures no caller looks at. The banked blit is one
step per 64 KiB chunk. `page_flip`'s callers,
other than `set_video_mode`, are none in this program, but `gfx.h` offers it, and so
it is an action.

`Mtrr` is `enable_wrcomb`, which every linear outcome calls. Addresses and lengths are
in pages of 4 KiB; a length of 0 stands for one that is no multiple of that, for which
`enable_wrcomb` gives up (the size of video memory always is one; that of a mode's pages,
used when the size is not known, need not be). Frame buffers are assumed to begin at a
page. A range matches the pages that agree with its base above the bits of
its mask, so the block it covers need not begin where the frame buffer does; `Fits` says
when it does. `machine` is the computer: the size of its video memory, whether the CPU
can combine writes, and the ranges the BIOS has filled. How the CPU resolves
overlapping ranges is external. Assumed: `MTRRDEFTYPE` is uncacheable and enabled, as
BIOSes leave it.

`MCDosVideo` gives a list of four modes (linear with one page and with two, banked with
64 KiB and with 16 KiB granularity) and eight machines: one where the range fits, one
whose block does not begin at the frame buffer, a free range between two used ones, an
uncacheable range over the frame buffer, a frame buffer write combining in part, one
free range, none, and a CPU that cannot.

### DosApp, MCDosApp

`DosApp` extends `DosVideo` with the rest of the program: `at` is the place in `main`,
`fds` the files behind the descriptors, `stdout` the lines in its buffer, `log` and
`console` those that have come out. `init_logger` opens a file and puts it under
descriptors 1 and 2 by `close` and `dup`, which take the lowest free number; it flushes
nothing, so where a line was printed to and where it comes out are two things. Lines are
tags (what the probe prints, what `set_video_mode` prints and flushes, what it prints
and does not, messages on stderr, the result). `vmodes` is the list `init_video` makes;
it starts with room for `FirstMax` modes (64) and doubles. The program asks for one of
`Asks`, which stands for what `read_config` and the options leave. Of the timer there is
only whether its vector is hooked, and `ticks`. Ctrl-C ends the program without the
`atexit` functions: the DJGPP build's SIGINT arrives at any instruction, the Watcom build's
inside calls of DOS. `CtrlC` is enabled everywhere, and where a step has several effects
(`set_video_mode` and `init_timer`, the way out, `cleanup`) it may find the `screen` or the
vector already changed. Division by 0 and a fault on unmapped video memory end it the same
way. The actions of
`DosVideo` are used as they are; outside of them its variables do not change.

### Stack, Dynarr

`Dynarr` makes one `dynarr_*` call per step. `todo` is the list of calls a macro
or a caller still has to make, so `DYNARR_STRPUSH` is a list of three calls,
between any two of which nothing but the array's own state survives. Every
`realloc` may fail. `Stack` is what `dynarr.h` promises; `Dynarr` implements it
with the cells below `nelem` as the items. `size` and `clear` go through
`dynarr_resize`; `dynarr_empty` and `dynarr_size` change nothing.

### Forest, TsTree, MCTsTree

`TsTree` has the pointers of `struct ts_node` and `struct ts_attr`: parent, next,
heads and tails. Blocks are reused after they are freed; a freed block holds `Junk`.
`ts_remove_child` walks from a `dummy` on its stack and, when it removes an only child,
leaves the address of `dummy` in `child_tail`: the model keeps that as `Dummy`, and
`ts_add_child` is right because it looks at `child_list` first. `Unlinked` and `Linked`
are the two halves of moving a child. `Walk` is the loop that follows a pointer through
a list, a recursive function that stops after as many steps as there are blocks: `Children`,
`Attributes` and `Line`, a node and its ancestors, are walks. `Reached`, what `ts_free_tree`
frees, is the least set with the node and the children of its members. `Forest` is what the
header promises, ordered trees; the refinement reads the lists as sequences. What the callers
must respect, and `ts_text.c` does, is in the guards: no node is added below itself (`ts_add_child` is not
given an ancestor on the `Line` of the new parent), an attribute is added
to one node once, only roots are given to `ts_free_tree`. `ts_free_node` on a node that
still has children is left to the model of the parser, its only such caller, and so are
allocations that fail: `ts_alloc_node` then has no effect on any tree. `MCTsTree` names
the blocks so that siblings can be namesakes. `attr_count` and `child_count` are never
written after the `memset` of `ts_init_node` and never read, and are not kept.

### TsValue, MCTsValue

`TsValue` is the memory behind `struct ts_value`: each pointer is null, freed, or the
number of elements of its block. A call is evaluated as a whole, with its allocations
numbered in the order of the code and a set of those that fail; the state it works on is
threaded through (`Malloc`, `Free`, `Then`), as the C code threads it through the early
returns. `Copy` and `Destroy` recur into the elements of arrays as the code does. The
program ends (`wrong`) at the first double free, use of a null pointer or read past a
block. The setters, `ts_copy_value` and `ts_destroy_value` are actions on two values.
Callers owe one thing: a value whose last compound call failed is destroyed before it is
used again (`ts_copy_attr` and the parser do so). `reset` remembers that a value was set
over content it had, `hurt` that such a failed value was destroyed, or that an allocation
failed where the code cannot recover.

### TsText, MCTsText

One step per call of `next_token`. `frames` holds the calls of the recursive descent in
progress (`ts_text_load`, `read_node`, `read_array`) with their local variables, and `pc`
the place in the innermost one; `read_value` returns before the next token is read
unless it calls `read_array`. The first file is chosen token by token while it is read,
so every sequence of tokens is loaded, also those that no `ts_text_save` writes. When a
tree comes out, `SaveAndReload` saves it, frees it and loads what was saved. `heap`
counts blocks: each step adds what it allocates and subtracts what it frees. A value has
what `struct ts_value` has. What recurs into arrays and trees (`ts_copy_value`,
`print_value`, `ts_text_save`, what freeing frees) is written as recursive functions over
`Value` and `Tree`, the values and trees up to a depth of `MaxDepth`. `MaxDepth` is also the
bound on the calls in progress (the C stack); every call consumes a token, so the run's 14
cuts nothing off. `Given` names the tokens the first file is chosen from.
Trees are records here; that the lists of `treestor.c` are such trees is what `TsTree`
shows. Particulars of the code that the model keeps: a symbol that cannot start a value
leaves it unset without an error, so `a = ;` and even `a = ]` are attributes; an array of
one element is an error; `[1, 2,` followed by the end of the file is an array;
`ts_set_value_arr` does not set `vec_size`, hence a copy of a vector has no `vec`; whatever
follows the root is never read. An unset value is printed as the C library prints a null
string, `(null)`. `MCTsText` has a number that `%g` prints with an exponent.

### X11AppProofs, FbdevProofs, DosTimerProofs, DosVideoProofs, DosAppProofs, DynarrProofs, TsTreeProofs, TsTextProofs

The theorems, see section 5.

## 3. Runs

| Run | Bounds | Distinct states | Shows |
|---|---|---|---|
| `x11_app` | 3 events queued, frames counted to 2 | 19591 | see below |
| `fbdev_app` | four devices, 3 bytes typed ahead, reads of 2 | 4830 | |
| `dos_timer` | `res_hz` 0, 100 and 120, `ticks` modulo 8, sleeps to 3 ticks | 104316 | |
| `dos_video` | four modes, eight machines, pages of 1 to 3 chunks, `nbuf` 0..3 | 50612 | |
| `dos_video_fallback` | the same | | violation |
| `dos_app` | five modes in the BIOS's list, room for 1 at first, 2 ticks, 2 frames | 218256 | |
| `dynarr` | two characters, 6 elements | 269615 | |
| `ts_tree` | four nodes, two attributes, two names, up to exchanging blocks of one name | 87118 | |
| `ts_value` | two values, 4 calls, arrays of 2 and 3, one or all from the n-th of the first six allocations fail | 93656 | |
| `ts_text` | 14 tokens, arrays of at most 2 elements (31 in the code), one name and one string, three numbers | 658218 | |
| `ts_text_vec_size` | 12 tokens | | violation |
| `dynarr_string` | two characters, 4 elements | | violation |

**x11_app.** `NoTearing`: the frame loop never draws while the server reads, or
may yet read, the previous frame. `OneFrameAfterUnmap`: `mapped` is stale for at
most one frame. `XErrorsOnlyEarly`: apart from a server that cannot attach the
segment (a remote display), X errors come before the first frame only: of a window the
server refused, or of a startup that fails after the attach was queued. `SegmentReleased`:
the SysV segment goes with the process by every failure of the startup and every way to
quit. It does outlive a process that Xlib ends past `end:`: when the server refused the
window or the segment, or the connection was lost.
`QuitEventEnds` and `SigintEnds` are liveness; the second says what it
cannot promise: a Ctrl-C inside `pending |= REDRAW` is lost, and one in a blocking
`XNextEvent` is noticed only at the next event. Three queued events let an
Expose, an Unmap and a Quit arrive in any order around a frame; the frame counter
only distinguishes none, one and more.

**fbdev_app.** `TtyRestored`, `ModeLeftBehindOnlyIf`, `FrameFits` and `QuitKeyEnds`.
`FrameFits`: while frames are drawn the terminal is open, the memory of the new mode is
mapped, and a frame has the device's line length and stays inside `framebuf` and video
memory, unless the mode switch changed the line length (`StalePitch`). That exception is
real: the run has devices on which frames come out skewed, and one on which they run past
video memory; a crash there is also the one way the terminal can stay raw. Reads of 2 bytes from up to 3 give full reads, short reads and
empty reads, and a quit key first, last or alone in a read.

**dos_timer.** `OneEoiPerInterrupt`, `BiosTickOnTime`, `HooksUndone`,
`NeverWakesEarly`, `SleepEnds`. 100 Hz is what `main` asks for and gives five
ticks per BIOS tick; at 120 Hz the division has a remainder of more than half (6.59 ticks,
seven by `DIV_ROUND`, and six would be off by more than half a tick); 0 is the other vector.
`BiosTickOnTime` counts what the PIT has counted since the BIOS was last called: in the
Watcom build it is called within half of our period of its 65536 counts, and is never
later, above 18 Hz. In the DJGPP build it is never called and its clock stands still.
`ticks` wraps modulo 8 instead of 2^32, so that sleeps meet the wrap: one whose wakeup time
overflows may return at once, and `NeverWakesEarly` leaves it out.

**dos_video.** `MappingOwned`, `BlitInBounds`, `FrontIsShown`, `BankedAddressing`,
`MtrrsSpentWell`. The four modes are the four paths through `set_video_mode`; the theorems
remove the bound. `FrontIsShown` holds as long as the BIOS honours the swaps and has told
the pitch: otherwise `vbe_swap` divides by -1. `BlitInBounds` has the mapping that the host
refused as its exception. `BankedAddressing`: a chunk goes where it belongs and the next
frame finds the window at 0, unless the BIOS refused the last move; then the window is in
the page or one past it, and the next move that succeeds puts it right. `MtrrsSpentWell`: the BIOS's ranges are
never touched; the memory of a linear mode is write combining when the CPU can do that,
the length is a multiple of 4 KiB, a range was free and the range fits; and however often modes are switched, no range is spent on memory that has one.
Where the range does not fit, each switch does take another, until none is left.

**dos_app.** `NothingLeftBehind`: whichever way the program returns from `main`, the screen
is in text mode, video memory unmapped and the timer's vector restored. A Ctrl-C, or a fault
on video memory that the host has not mapped, leaves whatever there was, which is nothing
before a mode was chosen; the division by 0 leaves the vector. Nothing else ends the program.
`LinesWhereMeant`: when the program returned from `main`, with the log open,
everything until Escape has come to the log and the result to the console; a program that is
killed loses what the buffer of stdout holds. `init_logger` does
not flush before it swaps the descriptors; the flushes of `gfx.c` suffice on each of the
ways to the swap. `ModeAskedFor`: the mode set is on the
list, of the size asked for and of the depth asked for if the list has it, else of one
like it (15 and 16, 24 and 32 bits). Room for one mode makes the list grow twice; two
frames and two ticks separate a run that ends within a tick from one that does not.

**dynarr.** `StringIntact`, `ImplementsStack`, `NoThrashing`. Six
elements make the buffer grow to 8 and shrink to 4, 2, 1 and 0.

**ts_tree.** `PointersAgree`, `ImplementsForest`, `LookupFindsPaths`. Four nodes give
chains, a child between two siblings, moves between parents, and trees freed while
others live; two attributes a list with a head and another tail. A lookup is asked for
the path of every node and attribute of every tree; the path is computed along the
parent pointers, which the lookups do not use. The symmetry exchanges blocks of the
same name, which no definition tells apart; the run has safety properties only.

**ts_value.** `SoundUnlessFailed`: a value can be destroyed, copied and set again whichever
allocations failed, unless its last call was a compound one and failed. Memory is freed
twice or a null pointer followed only after `hurt`, a block over-read only after `reset`.
`NothingLeaks`: failing calls give back all they have allocated; every block is some value's
own unless values were set over their content. Four calls reach a copy of a
value that was set, copied over and destroyed; sources are at most one array deep.

**ts_text.** `RoundTrip` says exactly which trees survive saving and loading: those whose
numbers `%g` prints as they were, with no unset value and no vector. The others are not
merely unproved: the reloaded tree is always different or missing. `NothingLost`
accounts for every block of a load that goes well, copies and dropped elements included,
up to `ts_free_tree` with nothing left. 14 tokens reach an array in an array in an
attribute, three levels of nodes, and with 2 in the place of 31 arrays that are too long.

**Disagreements** between the code and what the repository says of it, each shown
by a run expected to violate the statement:

* `LinearBlitNeedsLinearMode` (`src/dos/gfx.c:191`): the announced fallback to banked
  mode is not one; the choice of the blit looks at `fb_addr` only.
* `LastIsZero` (`src/dynarr.h:60`): the string macros lose their terminating zero
  when a `realloc` fails between their calls.
* `VecSizeIsArraySize` (`src/treestor.h:25`): vectors that the parser makes have `vec_size`
  0. Saved, they are `[]`, which the parser does not accept.

Smaller ones, read but not worth a run:

* `gfx.h` describes what `page_flip` returns as the next page to draw to while blits go to
  `frontidx`.
* `gfx.c:221` has a message for a frame buffer that could not be mapped. It is never printed,
  for neither `dpmi_mmap` tells (the exception of `BlitInBounds`).
* `timer.c:23` says that `DIV_ROUND` rounds "to the nearest integer". By an odd divisor the
  largest remainder gives one too many: 1000 by 7 makes 144 and not 143 (`BiosClockKept` had
  to exclude this case). By a divisor of 1 it divides by 0. Above 2000 Hz `tick_interval` is
  0, and `sleep_msec` divides by that.
* `timer.h:8` gives the resolution as what the timer will run at; for `res_hz` of 18 or
  less the reload value needs 17 bits and `set_timer_reload` sends 16. `main` asks for 100.
* `cleanup` restores "the original timer frequency" with 65535, one less than the 65536
  counts of the BIOS.
* `find_video_mode` never advances its pointer (it has no caller); a failing `init_video`
  frees `vmodes` and keeps the pointer (`main` exits without using it).
* `blit_frame_lfb` copies `pgsize >> 3` times 8 bytes: of a page that is no multiple of 8
  the last bytes are not copied.
* `enable_wrcomb` writes 0 to the high half of the mask, which also clears the mask bits
  above 32 of wider addresses.
* The result line divides by `time_msec`: 0 when the loop ends within the first tick or
  millisecond (`dos/main.c:74`, `x11/main.c:171`, `fbdev/main.c:87`; on the latter two
  everything is released by then). `10000 * num_frames` overflows an `int` after 214748
  frames, which is not modelled.
* `ts_copy_value` that fails leaves the freed pointers in its destination, and
  `ts_copy_attr` and the parser destroy it again; a number array without memory for its
  elements is written through a null pointer; setting an array over a vector keeps the old
  `vec_size`. `TsValue` has these as its exceptions (`hurt`, `reset`).
* `ts_set_valuev` sets no type; `ts_set_value_arr` no `vec_size`.
* `ts_save` returns 0, its value for success, when the file cannot be opened;
  `ts_lookup_node` does not find the root by its own name.

## 4. Fairness

* `X11App`: weak fairness of the main thread and of the server. Nothing is assumed
  of the user, the window manager or signals.
* `FbdevApp`: weak fairness of the process. `QuitKeyEnds` adds the assumption
  `TypingStops`, stated in the property: `fbev_update` reads until the terminal is
  empty, and a user (or a pasted file) that is always faster keeps it there.
* `DosTimer`: weak fairness of the PIT, of interrupt delivery and of the handlers.
  The loop of `sleep_msec` is strongly fair: it is interrupted again and again, so its
  test is not continuously enabled, but between two interrupts it is executed many
  times.
* `DosVideo`, `DosApp`, `Dynarr`, `TsTree`, `TsValue` and `TsText` have safety properties
  only, and no fairness.

No deadlock is allowed in the passing runs but three: the program of `dos_app` ends,
that of `ts_text` ends after the second load, and `ts_value` stops after its last call or
when something has gone wrong.

## 5. Proofs

| Theorem | Statement |
|---|---|
| `X11AppProofs!X11Types` | `Spec => []TypeOK` |
| `X11AppProofs!FramesDoNotTear` | `Spec => []NoTearing` |
| `X11AppProofs!StaleForOneFrame` | `Spec => []OneFrameAfterUnmap` |
| `X11AppProofs!XErrorsOnlyAtStartup` | `Spec => []XErrorsOnlyEarly` |
| `X11AppProofs!SegmentGoesWithProcess` | `Spec => []SegmentReleased` |
| `FbdevProofs!FbdevTypes` | `Spec => []TypeOK` |
| `FbdevProofs!TerminalIsRestored` | `Spec => []TtyRestored` |
| `FbdevProofs!ModeIsRestored` | `Spec => []ModeLeftBehindOnlyIf` |
| `FbdevProofs!FramesFit` | `Spec => []FrameFits` |
| `DosTimerProofs!TimerTypes` | `Spec => []TypeOK` |
| `DosTimerProofs!AcknowledgedOnce` | `Spec => []OneEoiPerInterrupt` |
| `DosTimerProofs!BiosClockKept` | `Spec => []BiosTickOnTime` |
| `DosTimerProofs!VectorsRestored` | `Spec => []HooksUndone` |
| `DosTimerProofs!SleepsLongEnough` | `Spec => NeverWakesEarly` |
| `DosVideoProofs!TypeCorrect` | `Spec => []TypeOK` |
| `DosVideoProofs!NoMappingLeaks` | `Spec => []MappingOwned` |
| `DosVideoProofs!BlitsStayInBounds` | `Spec => []BlitInBounds` |
| `DosVideoProofs!FrontPageIsShown` | `Spec => []FrontIsShown` |
| `DosVideoProofs!BankedBlitsAddress` | `Spec => []BankedAddressing` |
| `DosVideoProofs!WriteCombiningIsSetUpOnce` | `Spec => []MtrrsSpentWell` |
| `DosAppProofs!AppUsesVideo` | `AppSpec => Spec`: the program takes the steps of `DosVideo`, or none |
| `DosAppProofs!NothingIsLeftBehind` | `AppSpec => []NothingLeftBehind` |
| `DosAppProofs!LinesGoWhereMeant` | `AppSpec => []LinesWhereMeant` |
| `DosAppProofs!ModeIsTheOneAskedFor` | `AppSpec => []ModeAskedFor` |
| `DosAppProofs!VideoIsSafeInApp` | `AppSpec => []` of the five invariants of `DosVideo` |
| `DynarrProofs!TypeCorrect` | `Spec => []TypeOK`: in particular no element lies past the buffer |
| `DynarrProofs!PushesAndPopsArePaced` | `Spec => NoThrashing` |
| `DynarrProofs!StringsIntact` | `Spec => []StringIntact` |
| `DynarrProofs!DynarrImplementsStack` | `Spec => ImplementsStack` |
| `TsTreeProofs!PointersTyped` | `Spec => []TypeOK` |
| `TsTreeProofs!PointersAlwaysAgree` | `Spec => []PointersAgree` |
| `TsTreeProofs!LookupsAlwaysFind` | `Spec => []LookupFindsPaths` |
| `TsTreeProofs!TreesImplementForest` | `Spec => ImplementsForest` |
| `TsTextProofs!TypeCorrect` | `Spec => []TypeOK`: in particular `values[]` never overflows |
| `TsTextProofs!LoadingLosesNothing` | `Spec => []NothingLost` |
| `TsTextProofs!SavedTreesReload` | `Spec => []RoundTrip` |

Each module proves that `Init` implies `IInv`, that every step preserves it (one lemma
per action or group of like actions), and that it implies what the theorems say.

**X11App** assumes that the two bounds are positive. Why no frame is drawn while the
server reads is a matter of what is queued at each place in `main`, and the queue only
ever holds what is left of `map attach`, of `map attach put` or of `map attach detach`.
`QueueByStage` says which of these belongs to which place; `HeldByStage` what main has
acquired; `AttachSeen` that the first `XSync` has seen the attach executed, so that a
queued attach and a drawn frame never meet a removed segment; `AttachedUnlessRefused` that
an executed attach is in force until the detach; `Unseen` and `WindowRefused` that no frame
is drawn for a window that does not exist yet or never will; `StaleOnce` that `mapped` was true, hence
no frame stale, when a drain loop began. The lemmas on `Append`, `Head` and `Tail` of
these queues come first.

**FbdevApp** assumes `DevicesAssumption`: positive extents, rows that fit a line, screens
that fit the memory in the mode of the benchmark. `Stages` says what is open, mapped and
allocated at each place in `main`; `RawHasOwner` that a raw terminal has an open
descriptor or a program that crashed; `CrashIsStale` and `SavedIsUsers` carry the
exceptions of the theorems. The one piece of arithmetic, that a frame with the true line
length fits `framebuf` and memory, is `TrueLengthFits`.

**DosTimer** assumes `ConstantsAssumption` and `ResolutionsAssumption` (the divisions
of `init_timer` and `sleep_msec` are not by 0). `VectorsFollow` ties the vectors to the stage of the
program, `ServedByHandler` the PIC to the handlers, `CountsAgree` the handler's own count
to the interrupts the BIOS has missed, `SleepIsCounted` the ticks of a sleeper to the time
it has slept while its wakeup time does not overflow. `BiosClockKept` also needs that
`ticks_per_dos_intr` periods are 65536 counts to within half a period (`CountsPerBios`),
although it is computed from 65535 by a `DIV_ROUND` that is not exact. `NearestMultiple` says that
one count and the rounding never add up to more, but for an odd divisor that leaves the largest
remainder; then it would divide 65536 itself, and `NoOddDivisor` shows by halving that none
but 1 does.

**DosVideo** assumes `ModesAssumption`: sizes and page counts are positive
and granularities are powers of two up to 64. None of the invariants is
inductive alone. `BlitInBounds` needs to know what `page_flip` may do, and the code
decides that by `vpgaddr[1]` only; `PagesConsistent` says what `vpgaddr[1]` implies:
either there is one page and `frontidx` is 0, or the mapping, if the host made one, is two
pages long; a second page belongs to what the code takes for a mapping; a banked blit runs in a banked mode. `IInv` is
`TypeOK`, `PagesConsistent` and the five, and is shown inductive with one lemma per
outcome of each function. `StepLemma` is the numeric core of the banked blit: the
step computed from the granularity is 64 KiB worth of granules.

**Mtrr** assumes `SpansAssumption` (there is a power of two for every length) and
`MachinesAssumption`. `DosVideoProofs` has the lemmas `MtrrsSpentWell` rests on: the mask covers
the length, blocks that fit cover exactly their pages, `get_page_memtype` finds the first
match, and so `enable_wrcomb` leaves the BIOS's ranges and the ranges taken as the invariant
wants (`EnableInv`), and leaves the memory write combining where that is possible
(`EnableAchieves`).

**Dynarr** assumes only that characters, the zero and the junk of a fresh cell
differ and that `MaxElem` is a number. `ArrayOK` (the buffer has `max_elem` cells
and `nelem` does not exceed it) is inductive by itself: `StepCases` splits a step
into one call of `dynarr.c`, or the beginning of a list of calls that leaves the
array alone. The arithmetic of growing (`Grown` exceeds `nelem`) and of shrinking
(`nelem <= max_elem \div 3` implies `nelem <= Shrunk`) appears once each; `Paced`
and the refinement use the same two facts. In the refinement, `MovedKeeps` says
that `realloc` keeps the cells below `nelem`, and each call maps to the operation
of `Stack` it is named for.

`StringIntact` speaks of the moments between macros, and each macro is up to three calls.
`StringInv` says what the array holds at every point of every macro: the string without its
terminator after the pop of `DYNARR_STRPUSH`, the string and the new character before the
last push, two or one elements more than the string inside `DYNARR_STRPOP`, and nothing
known once a call of the macro has failed.

**DosApp** is proved over `DosVideo`, whose invariant `IInv` it contains: `AppUsesVideo`
shows that each of its steps is a step of `DosVideo` or leaves its variables alone.
`AppAssumption` types the list of the BIOS and the attributes of its modes, and gives the
program's list room for at least one mode at first. `AppInv` adds `AppTyped`, what the program's own variables can hold, and four parts. `Stages` says
in which places of `main` the vector is hooked, the screen is in text mode and a mode is
set, what can have killed the program (`Killed`), and what is known of the
clock and the frames where the result is computed. `ListKept` says that the list of modes
is allocated as long as it is used and has no more entries than room. `Chosen` says that
`vmidx` is the index of a mode that fits the one asked for, and that the mode set is that
one. `LinesKept` says where the lines are: the buffer, the log and the console together
hold all that was printed, descriptors 1 and 2 are both the log until the console is opened
and both the console from then on, and the buffer is empty by then of all but the result.
`MatchFits` is the lemma about the search of `match_video_mode`.

**TsTree** assumes only `BlocksAssumption`: the blocks are finitely many, and the three
special addresses are none of them. `PointersAgree` is not inductive: it speaks of the
walks, and a walk that is cut off could agree with anything. `TreeInv` says that the
pointers of children and attributes form lists (`IsList`: consecutive elements are linked,
none occurs twice, the last one ends it) and so do parent pointers, hence there is no cycle.
The length of a walk is what needs induction, and the library's induction theorems cannot be
used; `Least` gets the least element of a set of numbers from the well-foundedness of
strict inclusion on a finite set, `Induct` induction for a given set of numbers, and `WalkIs`
that the walk along a list is that list. From then on proofs speak of sequences: each
operation is described by the lists before and after it (`Appended`, `Joined`, `Cut` and
others say when the new sequence is a list again), and `ListsFound` turns that into `TreeInv'`
and into the values of `Children`, `Attributes` and `Line`. For the refinement, `Reached`
is `Subtree` of the mapped forest, and `n \notin Subtree(c)` follows from `c` not being on
`Line(n)`. For the lookups, `RootOf` shows that the line of what a root reaches ends in that
root, and `DescendsTo`, by induction along the path, that the descent is at the ancestor it
should be at exactly as long as no namesake stood in the way.

**TsText** assumes `TextAssumption`: at least two elements fit `values[]`, null is no word,
number or string, `(null)` is a string, and `%g` makes of a number either its own token or
a text that begins with another token. The theorems are about files of any length over any
words, strings and numbers, and about values and trees of any depth. The proof has three
parts.

The recursive functions first. Nothing is known of a recursive function before it is shown
to exist. Values and trees both come in levels (`IsLevels`: the parts of a member of level
`d` are in level `d - 1`), and `LevelRecursion` shows for any step function that a function
with this recursion exists on all levels, by `Induct` on the depth. From it follow, for each
function of the model, its domain, its range and its equation (`CopyIs`, `ValueBlocksIs`,
`TreeBlocksIs`, `PrintIs`, `SaveIs`, `PrintableIs`, `AllPrintableIs`), and `LevelInduct` is
the induction used for what they compute (`CopyTwice`, `PrintableCopies`). `Total` and
`FlattenSeq` are folds of the community modules, and are shown to be running sums and
concatenations (`TotalAppend`, `AfterIs`).

The calls in progress second. `TypeOK` is not inductive: what `read_node` returns has to be
what its caller can take. `IInv` is about the stack of calls: `Stack` says that the first
call is `ts_text_load` and each other was made by the one below it at a place that makes
such calls (`Calls`: a node that has read a name, and allocated an attribute if it waits for
a value), with values and trees of a depth that fits its own; `Place` says which call is on
top at each `pc`; and `heap` is what the calls own (`OwnedBy`). One lemma per action shows
that it is kept; `FailSound` that an error does not free what the calls do not own.

The round trip third. `Reloading` says of every state after the save that one of three
things holds. `Following`: every call is reading a part of the saved tree (`Chain`: call
`i + 1` reads the next part of what call `i` reads), all it has read so far equals what was
saved, and the text that is left is the rest of the innermost part followed by the rests of
the others (`Level`, `Linked`, `AtTop`). `Away`: some call has read an element, attribute or
child that differs from the saved one (`Diverged`), and the tree is not printable. Or the
tree is back. `NodeRestIs`, `ArrayRestIs` and `PrintedIs` say how each text begins; so each
token is the one expected, up to the first value that does not survive printing. There the
load strays (`ReturnedStrays`), and `Blame` finds the tree unprintable. What has been read
is never read again, so straying stays (`AwayStays`) and reaches the result: a call that has
read something else returns something else (`ReturnDiffers`), copies of values included.

Only model-checked: `TsValue`, whose properties rest on RECURSIVE operators (a copy that
fails half-way destroys what it has copied, with the memory threaded through), which puts
them out of the prover's reach with all that extends them, and every liveness property, since
the prover does not do ENABLED and fairness.

## 6. Not modelled

* `rbench.c`, the drawing core: stateless arithmetic on pixels and option texts. What the
  rest of the program sees of it is modelled with the drivers: the extent of what `redraw`
  writes (`FrameInBounds` of FbdevApp), and the options `read_config` and `parse_args`
  leave (`Asks` of DosApp).
* Register packing in `vbe.c` and `vga.c` and the calls of them that nothing uses (palette,
  scan lines, saved states), the DPMI glue but for mappings, `util` and the assembly: single calls into the
  machine with no state between them.
* Colour masks, messages and the printing of mode descriptions.
* `tools/lutgen.c`, a generator run by hand; the build files.
* Opening and closing of files in `ts_load` and `ts_save`, and the typed variants of the
  lookups (`ts_lookup_num` and the like).
* These failures: of `FBIOGET_FSCREENINFO` and `FBIOGET_VSCREENINFO`, whose results
  `fbgfx.c:32`, `:58` and `:83` ignore, and of the `fcntl` of `fbevents.c:27`; an X server that runs out
  of memory; signals other than SIGINT; allocations that fail in the parser and the tree
  lists (`TsValue` has those of values).
* What the system under the program restores itself when that is killed: in `DosApp` the
  vector and the screen stay as the program left them. The fields of `regs` that
  `vbe.c` leaves uninitialised are the BIOS's to ignore.
* Of hooking the vectors in the DJGPP build, the allocation of a wrapper, which may fail.

Two hazards have no property. `x11/main.c:146`: with the window unmapped, main sleeps in
`XNextEvent`, and a Ctrl-C is not seen until another event comes; the model has this, and
`SigintEnds` is stated for a mapped window. `ts_text.c:167`: a load that fails loses what it
has read so far; the model has these leaks, and `NothingLost` is stated for loads that
succeed.
