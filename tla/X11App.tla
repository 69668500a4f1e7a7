------------------------------- MODULE X11App -------------------------------
(***************************************************************************)
(* src/x11/main.c: the X11 driver of the benchmark.  Three actors share    *)
(* state: the main thread, the X server (it executes our requests in       *)
(* order, later than we send them, and reads the shared-memory image while *)
(* it executes XShmPutImage) and the SIGINT handler, which may run between *)
(* any two instructions of the main thread.                                *)
(*                                                                         *)
(* A call that reads the connection (XPending, XNextEvent, XSync,          *)
(* XCloseDisplay) also runs Xlib's default error handler, which exits the  *)
(* process, when an X error has arrived; and any call exits the process    *)
(* when the connection is lost.  The server may refuse the window and the  *)
(* segment; that it runs out of memory for anything else is left out, and  *)
(* so is every signal but SIGINT.                                          *)
(*                                                                         *)
(* A definition named Op_Slip is a faulty variant of Op, a slip that the   *)
(* properties are meant to catch; no action uses it.                       *)
(***************************************************************************)
EXTENDS Naturals, Sequences

CONSTANTS
  MaxEvents,    \* bound: events queued on the connection
  MaxFrames     \* bound: num_frames is counted up to here and saturates

ASSUME BoundsAssumption == MaxEvents \in Nat \ {0} /\ MaxFrames \in Nat \ {0}

VARIABLES
  pc,          \* where the main thread is
  held,        \* what main has acquired and not given back
  mapped,      \* mapped, as main last heard
  quit,        \* the QUIT bit of pending
  copy,        \* QUIT bit in the register of a `pending |= REDRAW` in progress
  frames,      \* num_frames
  stale,       \* frames drawn since main learned that the window is unmapped
  events,      \* events sent by the server, not yet handled
  requests,    \* our requests, not yet executed
  winMapped,   \* server: the window is viewable
  srvAttached, \* server: the segment is attached
  reading,     \* server: executing XShmPutImage, reading the segment
  rmid,        \* the segment is marked for removal
  xerror,      \* an X error for us is on the connection
  refused,     \* the server could not attach a segment that existed
  noWindow,    \* the server refused the window
  broken       \* the connection was lost

main == <<pc, held, mapped, quit, copy, frames, stale>>
verdicts == <<refused, noWindow, broken>>
server == <<winMapped, srvAttached, reading, verdicts>>
wire == <<events, requests, xerror>>
vars == <<main, server, wire, rmid>>

Resources == {"display", "window", "image", "shmid", "shmaddr"}
StartupStages == {"display", "shmext", "window", "image", "shmid", "shmaddr", "attach"}
CleanupStages == {"end", "shmdt", "rmid", "close"}
EventNames == {"Map", "Unmap", "Expose", "Quit", "Other"}
RequestNames == {"map", "attach", "put", "detach"}

TypeOK ==
  /\ pc \in StartupStages \cup CleanupStages \cup
            {"loop", "poll", "draw", "sync", "block", "store_poll", "store_loop",
             "halt", "gone"}
  /\ held \subseteq Resources
  /\ mapped \in BOOLEAN /\ quit \in BOOLEAN /\ copy \in BOOLEAN
  /\ winMapped \in BOOLEAN /\ srvAttached \in BOOLEAN /\ reading \in BOOLEAN
  /\ rmid \in BOOLEAN /\ xerror \in BOOLEAN /\ refused \in BOOLEAN
  /\ noWindow \in BOOLEAN /\ broken \in BOOLEAN
  /\ frames \in 0..MaxFrames /\ stale \in 0..MaxFrames
  /\ events \in Seq(EventNames) /\ Len(events) <= MaxEvents
  /\ requests \in Seq(RequestNames) /\ Len(requests) <= 3

(* A SysV segment outlives IPC_RMID until the last process detaches it. *)
SegmentAlive ==
  "shmid" \in held /\ (rmid => "shmaddr" \in held \/ srvAttached)

Init ==
  /\ pc = "display" /\ held = {} /\ frames = 0 /\ stale = 0
  /\ mapped = FALSE /\ quit = FALSE /\ copy = FALSE
  /\ events = <<>> /\ requests = <<>> /\ xerror = FALSE
  /\ winMapped = FALSE /\ srvAttached = FALSE /\ reading = FALSE
  /\ refused = FALSE /\ noWindow = FALSE /\ broken = FALSE
  /\ rmid = FALSE

-----------------------------------------------------------------------------
(* Startup: one stage per call that can fail. *)

Stage(here, next) ==
  /\ pc = here /\ pc' = next
  /\ UNCHANGED <<mapped, quit, copy, frames, stale, events, xerror, server, rmid>>

Acquire(here, next) ==
  Stage(here, next) /\ held' = held \cup {here} /\ UNCHANGED requests

OpenDisplay == Acquire("display", "shmext")

QueryShm == Stage("shmext", "window") /\ UNCHANGED <<held, requests>>

(* create_win without a visual or a colormap returns 0.  Its requests, from *)
(* XCreateColormap to XMapWindow, are queued as one: none is waited for.    *)
CreateWindow ==
  /\ Stage("window", "image")
  /\ held' = held \cup {"window"}
  /\ requests' = Append(requests, "map")

CreateImage == Acquire("image", "shmid")
ShmGet == Acquire("shmid", "shmaddr")
ShmAt == Acquire("shmaddr", "attach")

(* XShmAttach only queues the request: a refusal arrives later. *)
ShmAttach ==
  /\ Stage("attach", "loop")
  /\ requests' = Append(requests, "attach")
  /\ UNCHANGED held

(* Without a display, the extension or a window main returns 1 at once; from *)
(* the image on it takes `goto end`.                                         *)
FailStartup ==
  /\ \/ \E s \in {"display", "window"} : Stage(s, "halt") /\ UNCHANGED held
     \/ Stage("shmext", "halt") /\ held' = held \ {"display"}
     \/ \E s \in {"image", "shmid", "shmaddr", "attach"} : Stage(s, "end") /\ UNCHANGED held
  /\ UNCHANGED requests

-----------------------------------------------------------------------------
(* The frame loop. *)

ToLoopBranch_MappedIgnored == IF quit THEN "end" ELSE "poll"
ToLoopBranch_QuitIgnored == IF mapped THEN "poll" ELSE "block"
ToLoopBranch == IF quit THEN "end" ELSE IF mapped THEN "poll" ELSE "block"

LoopTest ==
  /\ pc = "loop" /\ pc' = ToLoopBranch
  /\ UNCHANGED <<held, mapped, quit, copy, frames, stale, server, wire, rmid>>

AfterEvent_QuitAfterDrain(q, here) ==
  IF here = "block" THEN (IF q THEN "end" ELSE "loop") ELSE here
AfterEvent(q, here) ==
  IF q THEN "end" ELSE IF here = "block" THEN "loop" ELSE here

(* handle_event, then `if(pending & QUIT) goto end`.  Expose only loads     *)
(* pending here; StoreRedraw writes it back.                                *)
HandleEvent ==
  /\ pc \in {"poll", "block"} /\ events # <<>>
  /\ events' = Tail(events)
  /\ LET e == Head(events) IN
       /\ mapped' = (e = "Map" \/ (mapped /\ e # "Unmap"))
       /\ stale' = IF e = "Map" THEN 0 ELSE stale
       /\ IF e = "Expose"
            THEN /\ copy' = quit /\ UNCHANGED quit
                 /\ pc' = IF pc = "poll" THEN "store_poll" ELSE "store_loop"
            ELSE /\ quit' = (quit \/ e = "Quit") /\ UNCHANGED copy
                 /\ pc' = AfterEvent(quit', pc)
  /\ UNCHANGED <<held, frames, requests, xerror, server, rmid>>

(* The second half of `pending |= REDRAW`: a load, an or and a store in the *)
(* -O3 build, so a SIGINT in between is overwritten.                        *)
StoreRedraw ==
  /\ pc \in {"store_poll", "store_loop"}
  /\ quit' = copy
  /\ pc' = AfterEvent(copy, IF pc = "store_poll" THEN "poll" ELSE "block")
  /\ UNCHANGED <<held, mapped, copy, frames, stale, server, wire, rmid>>

(* No event left: count the frame and enter redraw().  wait_putimg is never *)
(* set (its assignment is commented out), so nothing else is waited for.    *)
StartFrame ==
  /\ pc = "poll" /\ events = <<>> /\ ~xerror
  /\ pc' = "draw"
  /\ frames' = IF frames < MaxFrames THEN frames + 1 ELSE frames
  /\ stale' = IF ~mapped /\ stale < MaxFrames THEN stale + 1 ELSE stale
  /\ UNCHANGED <<held, mapped, quit, copy, server, wire, rmid>>

(* redraw() is done: XShmPutImage and the request half of XSync. *)
PutImage ==
  /\ pc = "draw" /\ pc' = "sync"
  /\ requests' = Append(requests, "put")
  /\ UNCHANGED <<held, mapped, quit, copy, frames, stale, events, xerror, server, rmid>>

(* XSync's reply comes after every request before it has been executed. *)
ServerCaughtUp == requests = <<>> /\ ~reading

Sync_Flush ==
  /\ pc = "sync" /\ pc' = "loop"
  /\ UNCHANGED <<held, mapped, quit, copy, frames, stale, server, wire, rmid>>
Sync ==
  /\ pc = "sync" /\ ServerCaughtUp /\ ~xerror
  /\ pc' = "loop"
  /\ UNCHANGED <<held, mapped, quit, copy, frames, stale, server, wire, rmid>>

-----------------------------------------------------------------------------
(* `end:`, one step per call the server or the kernel can tell apart. *)

ShmDetach ==
  /\ pc = "end"
  /\ IF "image" \in held
       THEN pc' = "shmdt" /\ held' = held \ {"image"} /\ requests' = Append(requests, "detach")
       ELSE pc' = "close" /\ UNCHANGED <<held, requests>>
  /\ UNCHANGED <<mapped, quit, copy, frames, stale, events, xerror, server, rmid>>

ShmDt ==
  /\ pc = "shmdt" /\ pc' = "rmid"
  /\ held' = held \ {"shmaddr"}
  /\ UNCHANGED <<mapped, quit, copy, frames, stale, server, wire, rmid>>

RemoveSegment_IfAttached ==
  /\ pc = "rmid" /\ pc' = "close"
  /\ rmid' = ("shmaddr" \in held)
  /\ UNCHANGED <<held, mapped, quit, copy, frames, stale, server, wire>>
RemoveSegment ==
  /\ pc = "rmid" /\ pc' = "close"
  /\ rmid' = ("shmid" \in held)
  /\ UNCHANGED <<held, mapped, quit, copy, frames, stale, server, wire>>

(* XFreeGC and XDestroyWindow, then XCloseDisplay, which waits like XSync. *)
CloseDisplay ==
  /\ pc = "close" /\ ServerCaughtUp /\ ~xerror
  /\ pc' = "halt" /\ held' = held \ {"display", "window"}
  /\ UNCHANGED <<mapped, quit, copy, frames, stale, server, wire, rmid>>

(* The default error handler calls exit(1): nothing under end: runs. *)
ExitInXlib ==
  /\ pc' = "halt" /\ held' = held \cap {"shmid"}
  /\ UNCHANGED <<mapped, quit, copy, frames, stale, wire, rmid>>

XErrorExit ==
  /\ xerror /\ pc \in {"poll", "block", "sync", "close"}
  /\ ExitInXlib /\ UNCHANGED server

(* So does the I/O error handler when the server died or closed the         *)
(* connection (external); the loss is told by the next call, at any stage   *)
(* that makes one.                                                          *)
XlibStages == {"shmext", "window", "attach", "poll", "block", "draw", "sync", "end", "close"}
ConnectionLost ==
  /\ "display" \in held /\ pc \in XlibStages
  /\ broken' = TRUE /\ ExitInXlib
  /\ UNCHANGED <<winMapped, srvAttached, reading, refused, noWindow>>

(* static void sig(int s) { pending |= QUIT; }, on Ctrl-C *)
sig ==
  /\ pc \notin {"halt", "gone"} /\ ~quit
  /\ quit' = TRUE
  /\ UNCHANGED <<pc, held, mapped, copy, frames, stale, server, wire, rmid>>

-----------------------------------------------------------------------------
(* The X server, the window manager and the user (external). *)

Serve(request) ==
  /\ requests # <<>> /\ Head(requests) = request /\ ~reading
  /\ UNCHANGED <<main, rmid>>

(* The window is refused when its visual does not suit (a depth other than  *)
(* the root's, and no border pixel) or its size is 0; an error comes back.  *)
ServeMap ==
  /\ Serve("map") /\ requests' = Tail(requests)
  /\ \/ /\ winMapped' = TRUE /\ events' = Append(events, "Map")
        /\ UNCHANGED <<noWindow, xerror>>
     \/ noWindow' = TRUE /\ xerror' = TRUE /\ UNCHANGED <<winMapped, events>>
  /\ UNCHANGED <<srvAttached, reading, refused, broken>>

(* A server on another machine announces the extension and refuses here. *)
ServeAttach ==
  /\ Serve("attach") /\ requests' = Tail(requests)
  /\ \/ SegmentAlive /\ srvAttached' = TRUE /\ UNCHANGED <<xerror, refused>>
     \/ xerror' = TRUE /\ refused' = SegmentAlive /\ UNCHANGED srvAttached
  /\ UNCHANGED <<winMapped, reading, noWindow, broken, events>>

ServePut ==
  /\ Serve("put")
  /\ IF srvAttached
       THEN reading' = TRUE /\ UNCHANGED <<requests, xerror>>
       ELSE requests' = Tail(requests) /\ xerror' = TRUE /\ UNCHANGED reading
  /\ UNCHANGED <<winMapped, srvAttached, verdicts, events>>

FinishPut ==
  /\ reading /\ reading' = FALSE /\ requests' = Tail(requests)
  /\ UNCHANGED <<main, winMapped, srvAttached, verdicts, events, xerror, rmid>>

ServeDetach ==
  /\ Serve("detach") /\ requests' = Tail(requests)
  /\ srvAttached' = FALSE /\ xerror' = (xerror \/ ~srvAttached)
  /\ UNCHANGED <<winMapped, reading, verdicts, events>>

(* The process is gone: the server drops its requests, window and segment. *)
CloseDown ==
  /\ pc = "halt" /\ pc' = "gone"
  /\ requests' = <<>> /\ events' = <<>> /\ xerror' = FALSE
  /\ winMapped' = FALSE /\ srvAttached' = FALSE /\ reading' = FALSE
  /\ UNCHANGED <<held, mapped, quit, copy, frames, stale, verdicts, rmid>>

SendEvent(e) ==
  /\ pc \notin {"halt", "gone"} /\ Len(events) < MaxEvents
  /\ events' = Append(events, e)
  /\ UNCHANGED <<main, requests, xerror, srvAttached, reading, verdicts, rmid>>

(* The window exists and has been mapped once. *)
Managed == "window" \in held /\ ~noWindow /\ "map" \notin {requests[i] : i \in DOMAIN requests}

(* The window manager iconifies and restores; the user types and drags in a *)
(* window on the screen.  "Quit" is an Escape key, or the WM_DELETE_WINDOW  *)
(* message that closes a window even when it is iconified.                  *)
Iconify == winMapped /\ winMapped' = FALSE /\ SendEvent("Unmap")
Restore == ~winMapped /\ Managed /\ winMapped' = TRUE /\ SendEvent("Map")
UserEvent ==
  /\ UNCHANGED winMapped
  /\ \/ winMapped /\ \E e \in {"Expose", "Quit", "Other"} : SendEvent(e)
     \/ Managed /\ SendEvent("Quit")

-----------------------------------------------------------------------------
Startup ==
  \/ OpenDisplay \/ QueryShm \/ CreateWindow \/ CreateImage \/ ShmGet \/ ShmAt
  \/ ShmAttach \/ FailStartup
Main ==
  \/ Startup \/ LoopTest \/ HandleEvent \/ StoreRedraw \/ StartFrame \/ PutImage \/ Sync
  \/ ShmDetach \/ ShmDt \/ RemoveSegment \/ CloseDisplay \/ XErrorExit
Server == ServeMap \/ ServeAttach \/ ServePut \/ FinishPut \/ ServeDetach \/ CloseDown
User == Iconify \/ Restore \/ UserEvent
Done == pc = "gone" /\ UNCHANGED vars

Next == Main \/ Server \/ User \/ sig \/ ConnectionLost \/ Done

(* The scheduler runs the process and the server; nobody owes us an event,  *)
(* or a broken connection.                                                  *)
Spec == Init /\ [][Next]_vars /\ WF_vars(Main) /\ WF_vars(Server)

-----------------------------------------------------------------------------
(* The server is never reading the shared image while redraw() writes it:   *)
(* the XSync after XShmPutImage stands in for the ShmCompletion event.      *)
NoTearing == pc = "draw" => ~reading /\ "put" \notin {requests[i] : i \in DOMAIN requests}

(* An UnmapNotify handled inside the drain loop still lets one frame        *)
(* through; there is never a second one before the next MapNotify.          *)
OneFrameAfterUnmap == stale <= 1

(* An X error comes only if the server refused the segment, or before the   *)
(* first frame.  Early errors are a window refused (its MapNotify, which    *)
(* the first frame waits for, never comes) and an IPC_RMID at `end:` that   *)
(* outran the queued XShmAttach, as it cannot once an XSync was waited for. *)
XErrorsOnlyEarly == xerror /\ ~refused => frames = 0

(* The SysV segment goes with the process, unless Xlib ended that past      *)
(* `end:` after shmget: because the server refused the window or the        *)
(* segment, or the connection was lost.                                     *)
SegmentReleased == pc = "gone" /\ SegmentAlive => refused \/ noWindow \/ broken

(* Escape and the close button end the program, however many other events   *)
(* are queued before them or keep coming.                                   *)
QuitEventEnds == (\E i \in DOMAIN events : events[i] = "Quit") ~> pc = "gone"

(* Ctrl-C ends it too when the window is mapped, unless it arrives inside   *)
(* `pending |= REDRAW`, which may lose it.  (With the window unmapped main  *)
(* sleeps in XNextEvent until somebody sends an event.)                     *)
SigintEnds == (quit /\ pc \notin {"store_poll", "store_loop"} /\ winMapped) ~> pc = "gone"
=============================================================================
