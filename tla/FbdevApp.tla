------------------------------ MODULE FbdevApp ------------------------------
(***************************************************************************)
(* src/fbdev: the Linux console driver of the benchmark (main.c, fbgfx.c,  *)
(* fbevents.c).  The program changes two things that outlive it, the video *)
(* mode of /dev/fb0 and the line discipline of /dev/tty, and undoes them   *)
(* only on some of its ways out.  Every call may fail.  The user types at  *)
(* any time; Ctrl-C is a signal that kills the process while the terminal  *)
(* is cooked and an ordinary byte once it is raw.                          *)
(*                                                                         *)
(* A definition named Op_Slip is a faulty variant of Op, a slip that the   *)
(* properties are meant to catch; no action uses it.                       *)
(***************************************************************************)
EXTENDS Naturals, Sequences

CONSTANTS
  Devices,    \* frame buffer devices, see DevicesAssumption
  MaxInput,   \* bound: bytes waiting in the terminal's input queue
  ReadSize    \* bytes fbev_update reads at once (64 in the code)

Modes == {"user", "bench"}

ASSUME BoundsAssumption == MaxInput \in Nat \ {0} /\ ReadSize \in Nat \ {0}

(* line_length in either mode; the rows of the benchmark's mode and the     *)
(* bytes of one; smem_len.  What a device reports of a mode fits that mode. *)
ASSUME DevicesAssumption ==
  \A d \in Devices :
    /\ d.line \in [Modes -> Nat \ {0}] /\ d.row \in Nat \ {0}
    /\ d.height \in Nat \ {0} /\ d.mem \in Nat \ {0}
    /\ d.row <= d.line["bench"] /\ d.line["bench"] * d.height <= d.mem

VARIABLES
  pc,
  device,   \* the device behind /dev/fb0, never changed
  mode,     \* the mode of the device: the user's or the benchmark's
  saved,    \* saved_vinfo, "none" unless saved_vinfo_valid
  fbOpen,   \* fbgfx.c: fd >= 0
  vmem,     \* fbgfx.c: the mapping of video memory, all of it
  pitch,    \* curvm.pitch and fb_pitch, 0 when the device did not tell
  framebuf, \* bytes allocated
  termFd,   \* fbevents.c: term_fd is -1, open, or >= 0 but already closed
  raw,      \* the terminal is in raw mode
  input,    \* bytes typed and not yet read
  quit,     \* main.c: quit
  failed,   \* the calls that failed; "bounds" for a frame out of bounds
  killed    \* the process died of Ctrl-C

gfx == <<device, mode, saved, fbOpen, vmem, pitch, framebuf>>
tty == <<termFd, raw, input>>
vars == <<pc, gfx, tty, quit, failed, killed>>

Keys == {"quit", "other"}   \* "quit" is Escape, q or Q

TypeOK ==
  /\ pc \in {"save", "set", "malloc", "tty", "drain", "frame", "shutdown", "restore",
             "gone"}
  /\ device \in Devices /\ pitch \in Nat /\ framebuf \in Nat
  /\ mode \in Modes /\ saved \in Modes \cup {"none"}
  /\ vmem \in {"none", "mapped"} /\ (vmem = "mapped" => fbOpen)
  /\ termFd \in {"none", "open", "closed"}
  /\ fbOpen \in BOOLEAN /\ raw \in BOOLEAN /\ quit \in BOOLEAN /\ killed \in BOOLEAN
  /\ input \in Seq(Keys) /\ Len(input) <= MaxInput
  /\ failed \subseteq {"open", "save", "put", "mmap", "malloc", "tty", "bounds"}

Init ==
  /\ device \in Devices /\ pitch = 0 /\ framebuf = 0
  /\ pc = "save" /\ mode = "user" /\ saved = "none" /\ fbOpen = FALSE /\ vmem = "none"
  /\ termFd = "none" /\ raw = FALSE /\ input = <<>>
  /\ quit = FALSE /\ failed = {} /\ killed = FALSE

Fail(call) == failed' = failed \cup {call}

(* fbgfx.c init(), called by every entry point: opens the device once, and  *)
(* takes the line length it has then.                                       *)
DeviceOpen ==
  /\ fbOpen' = TRUE
  /\ IF fbOpen THEN UNCHANGED pitch ELSE pitch' \in {device.line[mode], 0}
OpenFails == ~fbOpen /\ fbOpen' = FALSE /\ Fail("open") /\ UNCHANGED pitch

-----------------------------------------------------------------------------
(* fbgfx_save_video_mode: main does not look at the outcome. *)
SaveVideoMode ==
  /\ pc = "save" /\ pc' = "set"
  /\ \/ DeviceOpen /\ saved' = mode /\ UNCHANGED failed
     \/ DeviceOpen /\ Fail("save") /\ UNCHANGED saved
     \/ OpenFails /\ UNCHANGED saved
  /\ UNCHANGED <<device, mode, vmem, framebuf, tty, quit, killed>>

(* fbgfx_set_video_mode ends in fbgfx_get_video_mode, which maps the memory; *)
(* if any call fails main returns 1.  Nothing is as long as 0 bytes to map.  *)
SetVideoMode_MapFailedKept ==
  /\ pc = "set"
  /\ \/ OpenFails /\ pc' = "gone" /\ UNCHANGED <<mode, vmem>>
     \/ DeviceOpen /\ Fail("put") /\ pc' = "gone" /\ UNCHANGED <<mode, vmem>>
     \/ DeviceOpen /\ Fail("mmap") /\ pc' = "gone" /\ mode' = "bench" /\ vmem' = "MAP_FAILED"
     \/ /\ DeviceOpen /\ pc' = "malloc" /\ mode' = "bench" /\ vmem' = "mapped"
        /\ pitch' # 0 /\ UNCHANGED failed
  /\ UNCHANGED <<device, saved, framebuf, tty, quit, killed>>
SetVideoMode ==
  /\ pc = "set"
  /\ \/ OpenFails /\ pc' = "gone" /\ UNCHANGED <<mode, vmem>>
     \/ DeviceOpen /\ Fail("put") /\ pc' = "gone" /\ UNCHANGED <<mode, vmem>>
     \/ DeviceOpen /\ Fail("mmap") /\ pc' = "gone" /\ mode' = "bench" /\ vmem' = "none"
     \/ /\ DeviceOpen /\ pc' = "malloc" /\ mode' = "bench" /\ vmem' = "mapped"
        /\ pitch' # 0 /\ UNCHANGED failed
  /\ UNCHANGED <<device, saved, framebuf, tty, quit, killed>>

(* framebuf; on failure main returns 1 from here, past fbgfx_restore. *)
AllocateFramebuffer_NoPadding ==
  /\ pc = "malloc"
  /\ \/ pc' = "tty" /\ framebuf' = device.row * device.height /\ UNCHANGED failed
     \/ pc' = "gone" /\ Fail("malloc") /\ UNCHANGED framebuf
  /\ UNCHANGED <<device, mode, saved, fbOpen, vmem, pitch, tty, quit, killed>>
AllocateFramebuffer ==
  /\ pc = "malloc"
  /\ \/ pc' = "tty" /\ framebuf' = pitch * device.height /\ UNCHANGED failed
     \/ pc' = "gone" /\ Fail("malloc") /\ UNCHANGED framebuf
  /\ UNCHANGED <<device, mode, saved, fbOpen, vmem, pitch, tty, quit, killed>>

(* fbev_init; on failure `goto end`.  After open, a failing tcgetattr or     *)
(* tcsetattr closes the descriptor but leaves its number in term_fd.         *)
TtyFailsTo(next) ==
  /\ pc' = next /\ Fail("tty") /\ termFd' \in {"none", "closed"} /\ UNCHANGED raw
TtyOpens == pc' = "drain" /\ termFd' = "open" /\ raw' = TRUE /\ UNCHANGED failed
InitEvents_ReturnsAtOnce ==
  /\ pc = "tty" /\ (TtyOpens \/ TtyFailsTo("gone"))
  /\ UNCHANGED <<gfx, input, quit, killed>>
InitEvents ==
  /\ pc = "tty" /\ (TtyOpens \/ TtyFailsTo("shutdown"))
  /\ UNCHANGED <<gfx, input, quit, killed>>

-----------------------------------------------------------------------------
(* keyb for every byte of a read. *)
keyb_FirstByteOnly(buf) == buf[1] = "quit"
keyb(buf) == \E i \in DOMAIN buf : buf[i] = "quit"

(* fbev_update reads until the terminal has nothing left. *)
ReadKeys ==
  /\ pc = "drain" /\ input # <<>>
  /\ LET n == IF Len(input) < ReadSize THEN Len(input) ELSE ReadSize IN
       /\ quit' = (quit \/ keyb(SubSeq(input, 1, n)))
       /\ input' = SubSeq(input, n + 1, Len(input))
  /\ UNCHANGED <<pc, gfx, termFd, raw, failed, killed>>

(* read() finds nothing: leave the loop or draw a frame. *)
ReadNothing ==
  /\ pc = "drain" /\ input = <<>>
  /\ pc' = IF quit THEN "shutdown" ELSE "frame"
  /\ UNCHANGED <<gfx, tty, quit, failed, killed>>

(* redraw() writes width pixels every pitch bytes of framebuf, which is     *)
(* copied to video memory.  Out of bounds it may crash the program.         *)
FrameInBounds ==
  /\ (device.height - 1) * pitch + device.row <= framebuf
  /\ pitch * device.height <= framebuf
  /\ pitch * device.height <= device.mem
DrawFrame ==
  /\ pc = "frame"
  /\ \/ pc' = "drain" /\ UNCHANGED failed
     \/ ~FrameInBounds /\ pc' = "gone" /\ Fail("bounds")
  /\ UNCHANGED <<gfx, tty, quit, killed>>

-----------------------------------------------------------------------------
(* fbev_shutdown.  On a descriptor closed already both calls fail. *)
ShutdownEvents_NoTcsetattr ==
  /\ pc = "shutdown" /\ pc' = "restore"
  /\ termFd' = "none"
  /\ UNCHANGED <<gfx, raw, input, quit, failed, killed>>
ShutdownEvents ==
  /\ pc = "shutdown" /\ pc' = "restore"
  /\ termFd' = "none"
  /\ raw' = (raw /\ termFd # "open")
  /\ UNCHANGED <<gfx, input, quit, failed, killed>>

(* fbgfx_restore_video_mode, of a mode the device reported itself, and      *)
(* return 0.                                                                *)
RestoreVideoMode ==
  /\ pc = "restore" /\ pc' = "gone"
  /\ mode' = IF saved = "none" THEN mode ELSE saved
  /\ UNCHANGED <<device, saved, fbOpen, vmem, pitch, framebuf, tty, quit, failed, killed>>

-----------------------------------------------------------------------------
(* The user (external). *)
Type(key) ==
  /\ Len(input) < MaxInput
  /\ input' = Append(input, key)
  /\ UNCHANGED <<pc, gfx, termFd, raw, quit, failed, killed>>

TypeKey == pc # "gone" /\ \E key \in Keys : Type(key)

CtrlC ==
  /\ pc # "gone"
  /\ IF raw THEN Type("other")
     ELSE pc' = "gone" /\ killed' = TRUE /\ UNCHANGED <<gfx, tty, quit, failed>>

-----------------------------------------------------------------------------
Main ==
  \/ SaveVideoMode \/ SetVideoMode \/ AllocateFramebuffer \/ InitEvents
  \/ ReadKeys \/ ReadNothing \/ DrawFrame \/ ShutdownEvents \/ RestoreVideoMode
Done == pc = "gone" /\ UNCHANGED vars

Next == Main \/ TypeKey \/ CtrlC \/ Done

(* The process is scheduled; nobody owes it a key. *)
Spec == Init /\ [][Next]_vars /\ WF_vars(Main)

-----------------------------------------------------------------------------
(* The line length is the one of the mode before the switch, and differs.  *)
StalePitch == pitch = device.line["user"] /\ pitch # device.line["bench"]

(* Once the process is gone the terminal is cooked again, whatever failed,  *)
(* unless a stale pitch crashed it; Ctrl-C cannot strand it in raw mode,    *)
(* because raw mode disarms Ctrl-C.                                         *)
TtyRestored == pc = "gone" /\ raw => "bounds" \in failed /\ StalePitch

(* The user gets the video mode back, except when the old mode could not be *)
(* read, mmap or malloc fails after the switch (both return 1 without       *)
(* fbgfx_restore_video_mode), a stale pitch crashes the program, or Ctrl-C  *)
(* comes before the terminal is raw or after it is cooked again.            *)
ModeLeftBehindOnlyIf ==
  pc = "gone" /\ mode # "user" =>
    killed \/ failed \cap {"open", "save", "mmap", "malloc", "bounds"} # {}

(* While frames are drawn the terminal is open (more than the code's        *)
(* assert(term_fd >= 0)), video memory is mapped in the benchmark's mode,   *)
(* and frames stay inside framebuf and video memory and have the line       *)
(* length of the device, unless the mode switch has changed that: the       *)
(* length is read when the device is opened, and never again.               *)
FrameFits ==
  pc \in {"drain", "frame"} =>
    /\ termFd = "open" /\ vmem = "mapped" /\ mode = "bench"
    /\ StalePitch \/ (FrameInBounds /\ pitch = device.line["bench"])

(* A quit key anywhere in the input ends the program, also when it arrives  *)
(* in the same read as other keys, once the user stops typing.  (The drain  *)
(* loop does not look at quit: keys arriving as fast as they are read keep  *)
(* the program in it.)                                                      *)
TypingStops == <>[][input' # input => Len(input') < Len(input)]_vars
QuitKeyEnds ==
  TypingStops =>
    ((pc = "drain" /\ \E i \in DOMAIN input : input[i] = "quit") ~> pc = "gone")
=============================================================================
