------------------------------- MODULE DosApp -------------------------------
(***************************************************************************)
(* The DOS program from src/dos/main.c: the log that stdout and stderr go  *)
(* to while it runs (src/dos/logger.c), the list of modes the BIOS offers, *)
(* the choice of one, the frame loop and the ways out of it.  The video    *)
(* state and set_video_mode, set_text_mode and the blits are those of      *)
(* DosVideo; of the timer there is only whether its vector is hooked (see  *)
(* DosTimer).                                                              *)
(*                                                                         *)
(* Lines of output are tags: what the probe prints, what set_video_mode    *)
(* and resizefb print, messages, and the result.                           *)
(*                                                                         *)
(* A definition named Op_Slip is a faulty variant of Op, a slip that the   *)
(* properties are meant to catch; no action uses it.                       *)
(***************************************************************************)
EXTENDS DosVideo, FiniteSetsExt

CONSTANTS
  Geometry,    \* Geometry[m]: width and height of a mode
  Depth,       \* Depth[m]: bpp
  BiosModes,   \* the list of the BIOS
  FirstMax,    \* max_modes at first (64)
  Asks,        \* what rbench.cfg and the arguments can ask for
  MaxTicks, MaxFrames   \* bounds of the counters

ASSUME AppAssumption ==
  /\ BiosModes \in Seq(Modes) /\ FirstMax \in Nat \ {0}
  /\ Depth \in [Modes -> {8, 15, 16, 24, 32}]
  /\ DOMAIN Geometry = Modes

VARIABLES
  at,                      \* where main is
  opt,
  vmodes, max_modes,       \* the list and the room for it
  vmodesPtr,               \* null, live or freed
  probed,                  \* modes of the BIOS asked about
  vmidx,
  fds,                     \* the files behind the descriptors
  stdout,                  \* lines in the buffer of stdout
  printed, log, console,   \* lines printed; lines that came to the log, to CON
  logOpened, conOpened,
  hooked,                  \* the timer's vector is ours
  screen,                  \* hardware: in text mode or in a graphics mode
  ticks, time_msec, num_frames,
  interrupted              \* Ctrl-C was pressed

files == <<fds, logOpened, conOpened>>
output == <<stdout, printed, log, console>>
list == <<vmodes, max_modes, vmodesPtr, probed>>
clock == <<hooked, ticks>>
frames == <<time_msec, num_frames, interrupted>>
appVars == <<at, opt, list, vmidx, files, output, clock, screen, frames>>

(* DOS starts a program with five descriptors. *)
Descriptors == 0..6
AppInit ==
  /\ Init
  /\ at = "start" /\ opt \in Asks
  /\ vmodes = <<>> /\ max_modes = 0 /\ vmodesPtr = "null" /\ probed = 0 /\ vmidx = 0
  /\ fds = [fd \in Descriptors |-> CASE fd \in 0..2 -> "console" [] fd \in 3..4 -> "device"
                                     [] OTHER -> "closed"]
  /\ stdout = {} /\ printed = {} /\ log = {} /\ console = {}
  /\ logOpened = FALSE /\ conOpened = FALSE
  /\ hooked = FALSE /\ screen = "text" /\ ticks = 0 /\ time_msec = 0 /\ num_frames = 0
  /\ interrupted = FALSE

-----------------------------------------------------------------------------
(* Descriptors and stdout.  Nothing is printed before the log is open, so  *)
(* stdout is fully buffered if that is a file, else line by line.          *)
Opened(tab, file) ==
  LET fd == CHOOSE n \in DOMAIN tab : /\ tab[n] = "closed"
                                      /\ \A k \in 0..(n - 1) : tab[k] # "closed"
  IN  [tab EXCEPT ![fd] = file]
Redirected_OneDup(file) ==
  Opened([Opened(fds, file) EXCEPT ![1] = "closed", ![2] = "closed"], file)
Redirected(file) ==
  Opened(Opened([Opened(fds, file) EXCEPT ![1] = "closed", ![2] = "closed"], file), file)

(* Of the lines printed, flushed ones reach the file for sure, loose ones   *)
(* when the buffer is full, and err goes to stderr.                         *)
Output(flushed, loose, err) ==
  \E full \in BOOLEAN :
    LET all == full \/ ~logOpened
        kept == IF all THEN {} ELSE (IF flushed = {} THEN stdout ELSE {}) \cup loose
        sent == (stdout \cup flushed \cup loose) \ kept
        To(file) == (IF fds[1] = file THEN sent ELSE {}) \cup (IF fds[2] = file THEN err ELSE {})
    IN  /\ printed' = printed \cup flushed \cup loose \cup err
        /\ stdout' = kept
        /\ log' = log \cup To("log") /\ console' = console \cup To("console")

(* init_logger; without a file everything stays where it is. *)
init_logger(file) ==
  \/ fds' = Redirected(file) /\ UNCHANGED output
  \/ fds' = fds /\ Output({}, {}, {"no log"})

-----------------------------------------------------------------------------
(* read_config and parse_args leave opt; a bad argument or -h ends it. *)
Start ==
  /\ at = "start"
  /\ \/ /\ at' = "exit" /\ Output({}, {}, {"usage"})
        /\ UNCHANGED files
     \/ /\ at' = "probe" /\ init_logger("log")
        /\ logOpened' = (fds' # fds) /\ UNCHANGED conOpened
  /\ UNCHANGED <<vars, opt, list, vmidx, clock, screen, frames>>

(* init_video: the BIOS's answer and the first list. *)
ProbeBios ==
  /\ at = "probe"
  /\ \/ /\ at' = "exit" /\ Output({}, {}, {"message"}) /\ UNCHANGED list
     \/ /\ at' = "exit" /\ Output({"probe"}, {}, {"message"}) /\ UNCHANGED list
     \/ /\ at' = "list" /\ Output({"probe"}, {}, {})
        /\ vmodes' = <<>> /\ max_modes' = FirstMax /\ vmodesPtr' = "live" /\ probed' = 0
  /\ UNCHANGED <<vars, opt, vmidx, files, clock, screen, frames>>

(* Each mode: not described, or added to the list, which may have to grow. *)
ProbeMode ==
  /\ at = "list" /\ probed < Len(BiosModes) /\ probed' = probed + 1
  /\ \/ Output({}, {}, {"message"}) /\ UNCHANGED <<at, vmodes, max_modes, vmodesPtr>>
     \/ /\ vmodes' = Append(vmodes, BiosModes[probed'])
        /\ max_modes' = IF Len(vmodes) >= max_modes THEN 2 * max_modes ELSE max_modes
        /\ Output({"probe"}, {}, {}) /\ UNCHANGED <<at, vmodesPtr>>
     \/ /\ Len(vmodes) >= max_modes
        /\ at' = "exit" /\ vmodesPtr' = "freed"
        /\ Output({}, {}, {"message"}) /\ UNCHANGED <<vmodes, max_modes>>
  /\ UNCHANGED <<vars, opt, vmidx, files, clock, screen, frames>>

SAME_BPP(a, b) == a = b \/ {a, b} = {15, 16} \/ {a, b} = {24, 32}

(* The last mode that will do, up to the first with the depth asked for. *)
match_video_mode_LastWins ==
  LET right == {i \in DOMAIN vmodes : Geometry[vmodes[i]] = opt.size}
      best == {i \in right : SAME_BPP(Depth[vmodes[i]], opt.bpp)}
  IN  IF best = {} THEN 0 ELSE Max(best)
match_video_mode ==
  LET right == {i \in DOMAIN vmodes : Geometry[vmodes[i]] = opt.size}
      tried == {i \in right : \A j \in right : j < i => Depth[vmodes[j]] # opt.bpp}
      best == {i \in tried : SAME_BPP(Depth[vmodes[i]], opt.bpp)}
  IN  IF best = {} THEN 0 ELSE Max(best)

Match ==
  /\ at = "list" /\ probed = Len(BiosModes)
  /\ vmidx' = match_video_mode
  /\ IF vmidx' = 0 THEN at' = "exit" /\ Output({}, {}, {"message"})
     ELSE at' = "set" /\ UNCHANGED output
  /\ UNCHANGED <<vars, opt, list, files, clock, screen, frames>>

(* set_video_mode with one page, then init_timer, which starts counting.   *)
(* A failure ends the program before the timer is hooked, and so does a    *)
(* fault on a mapping that is none.                                        *)
ModeSet_NoFlush ==
  /\ at = "set"
  /\ LET m == vmodes[vmidx]
     IN  \/ /\ at' = "exit" /\ UNCHANGED <<vars, clock, screen>>
            /\ Output({"mode"}, {}, {"message"})
         \/ /\ SetModeLfb(m, 1) \/ SetModeBanked(m, 1)
            /\ at' = "loop" /\ hooked' = TRUE /\ ticks' = 0 /\ screen' = "graphics"
            /\ Output({"mode"}, {"fb"}, {})
         \/ /\ SetModeCrash(m, 1)
            /\ at' = "killed" /\ screen' = "graphics" /\ UNCHANGED clock
            /\ Output({"mode"}, {}, {})
         \/ /\ SetModeNoFramebuf(m, 1)
            /\ at' = "exit" /\ UNCHANGED <<clock, screen>> /\ Output({"mode"}, {"fb"}, {"message"})
  /\ UNCHANGED <<opt, list, vmidx, files, frames>>
ModeSet ==
  /\ at = "set"
  /\ LET m == vmodes[vmidx]
     IN  \/ /\ at' = "exit" /\ UNCHANGED <<vars, clock, screen>>
            /\ Output({"mode"}, {}, {"message"})
         \/ /\ SetModeLfb(m, 1) \/ SetModeBanked(m, 1)
            /\ at' = "loop" /\ hooked' = TRUE /\ ticks' = 0 /\ screen' = "graphics"
            /\ Output({"mode", "fb"}, {}, {})
         \/ /\ SetModeCrash(m, 1)
            /\ at' = "killed" /\ screen' = "graphics" /\ UNCHANGED clock
            /\ Output({"mode"}, {}, {})
         \/ /\ SetModeNoFramebuf(m, 1)
            /\ at' = "exit" /\ UNCHANGED <<clock, screen>> /\ Output({"mode"}, {"fb"}, {"message"})
  /\ UNCHANGED <<opt, list, vmidx, files, frames>>

-----------------------------------------------------------------------------
(* The timer interrupt, between any two steps. *)
Tick ==
  /\ hooked /\ at # "ended" /\ ticks < MaxTicks
  /\ ticks' = ticks + 1
  /\ UNCHANGED <<vars, at, opt, list, vmidx, files, output, hooked, screen, frames>>

(* Ctrl-C ends the program without its atexit functions, in the DJGPP build *)
(* at any instruction (external), else inside calls of DOS such as kbhit's. *)
(* Inside a step the screen and the vector may have been changed already;   *)
(* what is left of the rest is not looked at any more.                      *)
CtrlC ==
  /\ at \notin {"killed", "ended"} /\ at' = "killed" /\ interrupted' = TRUE
  /\ \/ UNCHANGED <<screen, hooked>>
     \/ at = "set" /\ screen' = "graphics" /\ hooked' \in BOOLEAN
     \/ at = "loop" /\ screen' = "text" /\ UNCHANGED hooked
     \/ at = "exit" /\ hooked' = FALSE /\ UNCHANGED screen
  /\ UNCHANGED <<vars, opt, list, vmidx, files, output, ticks, time_msec, num_frames>>

(* No key is waiting: one frame.  Other keys than Escape do nothing. *)
Frame ==
  /\ at = "loop" /\ num_frames < MaxFrames
  /\ time_msec' = ticks /\ num_frames' = num_frames + 1
  /\ blit_frame_lfb \/ BeginBlit
  /\ at' = IF pc' = "crashed" THEN "killed" ELSE at
  /\ UNCHANGED <<opt, list, vmidx, files, output, clock, screen, interrupted>>

Blit ==
  /\ at = "loop" /\ (BlitChunk \/ EndBlit)
  /\ UNCHANGED appVars

(* Escape: set_text_mode, cleanup_video, stop_logger. *)
Escape_NoTextMode ==
  /\ at = "loop" /\ pc = "idle"
  /\ UNCHANGED <<vars, screen>>
  /\ vmodesPtr' = "freed" /\ init_logger("console") /\ conOpened' = (fds' # fds)
  /\ at' = IF num_frames > 0 THEN "result" ELSE "exit"
  /\ UNCHANGED <<opt, vmodes, max_modes, probed, vmidx, logOpened, clock, frames>>
Escape ==
  /\ at = "loop" /\ pc = "idle"
  /\ set_text_mode /\ screen' = "text"
  /\ vmodesPtr' = "freed" /\ init_logger("console") /\ conOpened' = (fds' # fds)
  /\ at' = IF num_frames > 0 THEN "result" ELSE "exit"
  /\ UNCHANGED <<opt, vmodes, max_modes, probed, vmidx, logOpened, clock, frames>>

(* Two lines.  The second divides by time_msec, and an exception handler   *)
(* of the system ends a program that divides by 0.                         *)
Result ==
  /\ at = "result" /\ Output({}, {"result"}, {})
  /\ at' = IF time_msec = 0 THEN "killed" ELSE "exit"
  /\ UNCHANGED <<vars, opt, list, vmidx, files, clock, screen, frames>>

(* Returning from main: the atexit function of init_timer, then stdio. *)
Exit ==
  /\ at = "exit" /\ at' = "ended"
  /\ hooked' = FALSE
  /\ log' = IF fds[1] = "log" THEN log \cup stdout ELSE log
  /\ console' = IF fds[1] = "console" THEN console \cup stdout ELSE console
  /\ stdout' = {}
  /\ UNCHANGED <<vars, opt, list, vmidx, files, printed, ticks, screen, frames>>

AppNext ==
  \/ Start \/ ProbeBios \/ ProbeMode \/ Match \/ ModeSet
  \/ Tick \/ CtrlC \/ Frame \/ Blit \/ Escape \/ Result \/ Exit

AppSpec == AppInit /\ [][AppNext]_<<vars, appVars>>

-----------------------------------------------------------------------------
(* When the program returns from main or calls exit, the screen is in text  *)
(* mode, video memory is unmapped and the timer's vector is restored.       *)
(* Nothing else ends it but a Ctrl-C, a fault on video memory that the host *)
(* has not mapped, or the division, when Escape is pressed within the first *)
(* tick of the timer, after a frame.  The division finds the screen in text *)
(* mode; and whatever kills the program before it has chosen a mode leaves  *)
(* screen and vector alone.                                                 *)
NothingLeftBehind ==
  /\ at = "ended" => screen = "text" /\ curmode = NoMode /\ live = 0 /\ ~hooked
  /\ at = "killed" =>
       /\ interrupted \/ pc = "crashed" \/ (num_frames > 0 /\ time_msec = 0 /\ screen = "text")
       /\ vmidx = 0 => screen = "text" /\ ~hooked

(* With the log open, what the program prints until Escape comes to the log *)
(* and to nowhere else, through the buffer of stdout, whether main returns  *)
(* early or late; the result comes to the console if that can be opened     *)
(* again.  A program that is killed loses what the buffer holds.            *)
LinesWhereMeant ==
  at = "ended" /\ logOpened =>
    /\ console \subseteq {"result"}
    /\ printed \ {"result"} \subseteq log
    /\ "result" \in printed =>
         IF conOpened THEN console = {"result"} /\ "result" \notin log ELSE "result" \in log

(* The mode set is one the list still holds, of the size asked for, and of  *)
(* the depth asked for if the list has that, else of one like it; the list  *)
(* never outgrows its block.                                                *)
ModeAskedFor ==
  /\ vmodesPtr = "live" => Len(vmodes) <= max_modes
  /\ curmode # NoMode =>
       /\ vmodesPtr = "live"
       /\ \E i \in DOMAIN vmodes : curmode = vmodes[i]
       /\ Geometry[curmode] = opt.size /\ SAME_BPP(Depth[curmode], opt.bpp)
       /\ Depth[curmode] # opt.bpp =>
            ~ \E i \in DOMAIN vmodes : /\ Geometry[vmodes[i]] = opt.size
                                       /\ Depth[vmodes[i]] = opt.bpp
=============================================================================
