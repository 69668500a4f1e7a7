---------------------------- MODULE DosAppProofs ----------------------------
(***************************************************************************)
(* Proofs about DosApp, for every list of the BIOS, every mode asked for   *)
(* and any number of ticks and frames: that the program drives the video   *)
(* code of DosVideo by its own steps, what it leaves behind, where its     *)
(* output goes, and which mode it sets.                                    *)
(***************************************************************************)
EXTENDS DosApp, DosVideoProofs, FiniteSetTheorems

-----------------------------------------------------------------------------
(* The inductive invariant. *)
Places == {"start", "probe", "list", "set", "loop", "result", "exit", "killed", "ended"}
Files == {"console", "device", "log", "closed"}
Startup == {"start", "probe", "list", "set"}

AppTyped ==
  /\ at \in Places
  /\ vmodes \in Seq(Modes) /\ max_modes \in Nat /\ probed \in 0..Len(BiosModes)
  /\ vmidx \in 0..Len(vmodes)
  /\ fds \in [Descriptors -> Files] /\ fds[0] # "closed"
  /\ logOpened \in BOOLEAN /\ conOpened \in BOOLEAN
  /\ time_msec \in Nat /\ num_frames \in Nat /\ ticks \in Nat

(* Where a mode is set and the vector hooked, and what kills the program.   *)
Killed ==
  interrupted \/ pc = "crashed" \/ (num_frames > 0 /\ time_msec = 0 /\ screen = "text")
Stages ==
  /\ at \in Startup => ~hooked
  /\ at = "loop" => curmode # NoMode
  /\ curmode # NoMode => at \in {"loop", "killed"}
  /\ at \in {"set", "loop", "result"} => vmidx # 0
  /\ vmidx = 0 => screen = "text" /\ ~hooked
  /\ at \notin {"loop", "killed"} => screen = "text"
  /\ at = "ended" => ~hooked
  /\ at = "result" => num_frames > 0
  /\ at = "killed" => Killed

(* The list holds as many modes as there is room for, and is kept as long   *)
(* as a mode of it is set.                                                  *)
ListKept ==
  /\ at \in {"list", "set", "loop"} => vmodesPtr = "live"
  /\ curmode # NoMode => vmodesPtr = "live"
  /\ at \in {"start", "probe", "list"} => vmidx = 0
  /\ vmodesPtr = "live" => max_modes > 0 /\ Len(vmodes) <= max_modes

(* What Match chose. *)
Fitting(i) ==
  /\ i \in DOMAIN vmodes
  /\ Geometry[vmodes[i]] = opt.size /\ SAME_BPP(Depth[vmodes[i]], opt.bpp)
  /\ Depth[vmodes[i]] # opt.bpp =>
       ~ \E j \in DOMAIN vmodes : Geometry[vmodes[j]] = opt.size /\ Depth[vmodes[j]] = opt.bpp
Chosen ==
  /\ at \in {"set", "loop"} => Fitting(vmidx)
  /\ curmode # NoMode => curmode = vmodes[vmidx] /\ Fitting(vmidx)

(* Where the lines are while the log is open, before and after Escape.      *)
LinesInLog ==
  /\ fds[1] = fds[2] /\ fds[1] = IF conOpened THEN "console" ELSE "log"
  /\ printed = stdout \cup log \cup console
  /\ console \subseteq {"result"} /\ (~conOpened => console = {})
  /\ conOpened => stdout \subseteq {"result"} /\ "result" \notin log
                    /\ at \notin Startup \cup {"loop"}
  /\ "result" \in printed => at \in {"exit", "killed", "ended"}
  /\ at \in {"loop", "result", "ended"} => stdout = {}
LinesKept ==
  /\ at = "start" =>
       ~logOpened /\ ~conOpened /\ printed = {} /\ stdout = {} /\ log = {} /\ console = {}
  /\ logOpened => LinesInLog

AppInv == IInv /\ AppTyped /\ Stages /\ ListKept /\ Chosen /\ LinesKept

-----------------------------------------------------------------------------
(* The largest of a bounded set of numbers, by the finite sets 0..n.        *)
LEMMA Greatest ==
  ASSUME NEW n \in Nat, NEW S \in SUBSET (1..n), S # {}
  PROVE  Max(S) \in S /\ \A k \in S : k <= Max(S)
<1> DEFINE Above == {k..n : k \in S}
<1>1. Above \subseteq SUBSET (1..n) /\ Above # {}
  <2>1. PICK k \in S : TRUE
    OBVIOUS
  <2>2. k..n \in Above
    OBVIOUS
  <2>3. ASSUME NEW B \in Above PROVE B \subseteq 1..n
    OBVIOUS
  <2> QED
    BY <2>2, <2>3
<1>2. IsWellFoundedOn(StrictSubsetOrdering(1..n), SUBSET (1..n))
  <2>1. IsFiniteSet(1..n)
    BY FS_Interval
  <2> QED
    BY <2>1, FS_StrictSubsetOrderingWellFounded, FS_FiniteSubsetsOfFinite
<1>3. PICK A \in Above : \A B \in Above : ~ (<<B, A>> \in StrictSubsetOrdering(1..n))
  <2> HIDE DEF Above
  <2> QED
    BY <1>1, <1>2, WFMin
<1>4. PICK m \in S : A = m..n
  BY <1>3
<1>5. ASSUME NEW k \in S PROVE m >= k
  <2>1. ~(k..n \subseteq m..n) \/ k..n = m..n
    BY <1>1, <1>3, <1>4 DEF StrictSubsetOrdering
  <2> QED
    BY <2>1, k \in k..n, m \in m..n
<1>6. Max(S) \in S /\ \A k \in S : Max(S) >= k
  BY <1>5, Zenon DEF Max
<1> QED
  BY <1>6

(* match_video_mode finds a mode that fits, or none. *)
LEMMA MatchFits ==
  ASSUME AppTyped
  PROVE  /\ match_video_mode \in 0..Len(vmodes)
         /\ match_video_mode # 0 => Fitting(match_video_mode)
<1> DEFINE n == Len(vmodes)
           right == {i \in DOMAIN vmodes : Geometry[vmodes[i]] = opt.size}
           exact == {i \in right : Depth[vmodes[i]] = opt.bpp}
           tried == {i \in right : \A j \in right : j < i => Depth[vmodes[j]] # opt.bpp}
           best == {i \in tried : SAME_BPP(Depth[vmodes[i]], opt.bpp)}
<1>1. n \in Nat /\ DOMAIN vmodes = 1..n
  BY DEF AppTyped
<1>2. match_video_mode = IF best = {} THEN 0 ELSE Max(best)
  BY DEF match_video_mode
<1>3. CASE best = {}
  BY <1>1, <1>2, <1>3
<1>4. CASE best # {}
  <2> DEFINE i == Max(best)
  <2>1. i \in best /\ \A k \in best : k <= i
    <3>1. best \in SUBSET (1..n)
      BY <1>1
    <3> HIDE DEF best
    <3> QED
      BY <1>1, <1>4, <3>1, Greatest
  <2>2. ASSUME exact # {} PROVE Depth[vmodes[i]] = opt.bpp
    <3> DEFINE mirror == {n + 1 - j : j \in exact}
    <3>1. mirror \in SUBSET (1..n) /\ mirror # {}
      BY <1>1, <2>2
    <3>2. Max(mirror) \in mirror /\ \A k \in mirror : k <= Max(mirror)
      <4> HIDE DEF mirror
      <4> QED
        BY <1>1, <3>1, Greatest
    <3>3. PICK j \in exact : Max(mirror) = n + 1 - j
      BY <3>2
    <3>4. \A k \in exact : n + 1 - k <= n + 1 - j
      <4>1. \A k \in exact : n + 1 - k \in mirror
        OBVIOUS
      <4> HIDE DEF mirror
      <4> QED
        BY <3>2, <3>3, <4>1
    <3>5. \A k \in exact : j <= k
      BY <1>1, <3>4
    <3>6. j \in best
      BY <1>1, <3>5 DEF SAME_BPP
    <3>7. j <= i /\ ~(j < i)
      BY <2>1, <3>3, <3>6
    <3>8. i \in Nat /\ j \in Nat
      <4>1. best \in SUBSET (1..n) /\ exact \in SUBSET (1..n)
        BY <1>1
      <4> HIDE DEF i, best, exact
      <4> QED
        BY <1>1, <2>1, <4>1
    <3> HIDE DEF i
    <3>9. i = j
      BY <3>7, <3>8
    <3> QED
      BY <3>9
  <2>3. i \in DOMAIN vmodes /\ Geometry[vmodes[i]] = opt.size
          /\ SAME_BPP(Depth[vmodes[i]], opt.bpp)
    BY <2>1
  <2>4. Depth[vmodes[i]] # opt.bpp =>
          ~ \E j \in DOMAIN vmodes : Geometry[vmodes[j]] = opt.size /\ Depth[vmodes[j]] = opt.bpp
    BY <2>2
  <2>5. match_video_mode = i
    BY <1>2, <1>4
  <2> HIDE DEF i
  <2>6. Fitting(i)
    BY <2>3, <2>4 DEF Fitting
  <2>7. i \in 0..Len(vmodes)
    BY <1>1, <2>3
  <2> QED
    BY <2>5, <2>6, <2>7
<1> QED
  BY <1>3, <1>4

(* A line is where its descriptor leads, or in the buffer of stdout; a      *)
(* flush leaves only loose lines in the buffer.                             *)
LEMMA OutputMoves ==
  ASSUME NEW flushed, NEW loose, NEW err, Output(flushed, loose, err)
  PROVE  /\ printed' = printed \cup flushed \cup loose \cup err
         /\ stdout' \subseteq stdout \cup loose
         /\ flushed # {} => stdout' \subseteq loose
         /\ fds[1] = "log" /\ fds[2] = "log" =>
              /\ log' \cup stdout' = log \cup stdout \cup flushed \cup loose \cup err
              /\ console' = console
         /\ fds[1] = "console" /\ err = {} =>
              /\ console' \cup stdout' = console \cup stdout \cup flushed \cup loose
              /\ log' = log
BY DEF Output

(* Printing before Escape. *)
LEMMA StartupLines ==
  ASSUME AppInv, at \in {"probe", "list", "set"}, UNCHANGED files, at' # "start", at' # "ended",
         NEW flushed, NEW loose, NEW err, Output(flushed, loose, err),
         "result" \notin flushed \cup loose \cup err,
         at' \in {"loop", "result"} => flushed # {} /\ loose = {}
  PROVE  LinesKept'
<1> SUFFICES ASSUME logOpened PROVE LinesInLog'
  BY DEF LinesKept, files
<1>1. LinesInLog /\ ~conOpened /\ "result" \notin printed /\ conOpened' = FALSE /\ fds' = fds
  BY DEF AppInv, LinesKept, LinesInLog, Startup, files, AppTyped
<1>2. fds[1] = "log" /\ fds[2] = "log" /\ console = {}
  BY <1>1 DEF LinesInLog
<1>3. printed = stdout \cup log \cup console
  BY <1>1 DEF LinesInLog
<1>4. /\ printed' = printed \cup flushed \cup loose \cup err
      /\ flushed # {} => stdout' \subseteq loose
      /\ log' \cup stdout' = log \cup stdout \cup flushed \cup loose \cup err
      /\ console' = {}
  BY <1>2, OutputMoves
<1>5. printed' = stdout' \cup log' \cup console' /\ "result" \notin printed'
  BY <1>1, <1>2, <1>3, <1>4
<1>6. at' \in {"loop", "result", "ended"} => stdout' = {}
  BY <1>4
<1> QED
  BY <1>1, <1>2, <1>4, <1>5, <1>6 DEF LinesInLog

(* Redirecting the first two descriptors, in either direction. *)
LEMMA RedirectedFds ==
  ASSUME AppTyped, NEW file \in {"log", "console"}
  PROVE  /\ Redirected(file) \in [Descriptors -> Files] /\ Redirected(file)[0] # "closed"
         /\ Redirected(file)[1] = file /\ Redirected(file)[2] = file
<1> USE DEF Files
<1>1. ASSUME NEW tab \in [Descriptors -> Files], tab[0] # "closed"
      PROVE  /\ Opened(tab, file) \in [Descriptors -> Files] /\ Opened(tab, file)[0] # "closed"
             /\ tab[1] = "closed" => Opened(tab, file) = [tab EXCEPT ![1] = file]
             /\ tab[1] # "closed" /\ tab[2] = "closed" =>
                  Opened(tab, file) = [tab EXCEPT ![2] = file]
  <2> DEFINE First(fd) == tab[fd] = "closed" /\ \A k \in 0..(fd - 1) : tab[k] # "closed"
             fd == CHOOSE n \in DOMAIN tab : First(n)
  <2>1. Opened(tab, file) = [tab EXCEPT ![fd] = file]
    BY DEF Opened
  <2>2. DOMAIN tab = 0..6
    BY <1>1 DEF Descriptors
  <2>3. tab[1] = "closed" => fd = 1
    <3>1. ASSUME tab[1] = "closed", NEW m \in 0..6 PROVE First(m) <=> m = 1
      <4>1. 0..(1 - 1) = {0}
        OBVIOUS
      <4>2. First(1)
        BY <1>1, <3>1, <4>1
      <4>3. First(m) => m = 1
        BY <1>1, <3>1
      <4> QED
        BY <4>2, <4>3
    <3> QED
      BY <2>2, <3>1
  <2>4. tab[1] # "closed" /\ tab[2] = "closed" => fd = 2
    <3>1. ASSUME tab[1] # "closed", tab[2] = "closed", NEW m \in 0..6 PROVE First(m) <=> m = 2
      <4>1. 0..(2 - 1) = {0, 1}
        OBVIOUS
      <4>2. First(2)
        BY <1>1, <3>1, <4>1
      <4>3. First(m) => m = 2
        BY <1>1, <3>1
      <4> QED
        BY <4>2, <4>3
    <3> QED
      BY <2>2, <3>1
  <2> HIDE DEF fd
  <2>5. [tab EXCEPT ![fd] = file] \in [Descriptors -> Files]
    BY <1>1
  <2>6. [tab EXCEPT ![fd] = file][0] # "closed"
    BY <1>1 DEF Descriptors
  <2> QED
    BY <2>1, <2>3, <2>4, <2>5, <2>6
<1> DEFINE copy == Opened(fds, file)
           bare == [copy EXCEPT ![1] = "closed", ![2] = "closed"]
           one == Opened(bare, file)
<1>2. copy \in [Descriptors -> Files] /\ copy[0] # "closed"
  BY <1>1 DEF AppTyped
<1> HIDE DEF copy
<1>3. bare \in [Descriptors -> Files] /\ bare[0] # "closed" /\ bare[1] = "closed"
        /\ bare[2] = "closed"
  BY <1>2 DEF Descriptors
<1> HIDE DEF bare
<1>4. one = [bare EXCEPT ![1] = file]
  BY <1>1, <1>3
<1>5. one \in [Descriptors -> Files] /\ one[0] # "closed" /\ one[1] = file /\ one[2] = "closed"
  BY <1>3, <1>4 DEF Descriptors
<1> HIDE DEF one
<1>6. Opened(one, file) = [one EXCEPT ![2] = file]
  BY <1>1, <1>5
<1>7. Redirected(file) = Opened(one, file)
  BY DEF Redirected, one, bare, copy
<1> QED
  BY <1>5, <1>6, <1>7 DEF Descriptors

-----------------------------------------------------------------------------
LEMMA ListedModes ==
  ASSUME AppTyped, NEW i \in DOMAIN vmodes
  PROVE  vmodes[i] \in Modes
BY DEF AppTyped

(* The steps of the program are steps of the video code, or leave it alone. *)
LEMMA VideoStep ==
  ASSUME AppInv, [AppNext]_<<vars, appVars>>
  PROVE  [Next]_vars
<1>1. CASE ModeSet
  <2> DEFINE m == vmodes[vmidx]
  <2>1. m \in Modes
    BY <1>1, ListedModes DEF AppInv, Chosen, Fitting, ModeSet
  <2>2. UNCHANGED vars \/ set_video_mode(m, 1)
    BY <1>1 DEF ModeSet, set_video_mode
  <2> HIDE DEF m
  <2> QED
    BY <2>1, <2>2, 1 \in 0..3 DEF Next
<1>2. CASE Escape
  BY <1>2 DEF Escape, Next
<1>3. CASE Frame \/ Blit
  BY <1>3 DEF Frame, Blit, Next
<1>4. CASE Start \/ ProbeBios \/ ProbeMode \/ Match \/ Tick \/ CtrlC \/ Result \/ Exit
             \/ UNCHANGED <<vars, appVars>>
  BY <1>4 DEF Start, ProbeBios, ProbeMode, Match, Tick, CtrlC, Result, Exit
<1> QED
  BY <1>1, <1>2, <1>3, <1>4 DEF AppNext

LEMMA VideoInv ==
  ASSUME AppInv, [AppNext]_<<vars, appVars>>
  PROVE  IInv'
BY VideoStep, NextInv DEF AppInv

-----------------------------------------------------------------------------
(* One lemma for each step, of the invariant's parts about main. *)
OwnInv == AppTyped /\ Stages /\ ListKept /\ Chosen /\ LinesKept

LEMMA AppInitInv == AppInit => AppInv
<1> SUFFICES ASSUME AppInit PROVE AppInv
  OBVIOUS
<1> USE DEF AppInit, Init
<1>1. IInv
  BY InitInv
<1>2. AppTyped
  <2>1. Len(BiosModes) \in Nat /\ <<>> \in Seq(Modes) /\ Len(<<>>) = 0
    BY AppAssumption
  <2>2. fds \in [Descriptors -> Files] /\ fds[0] # "closed"
    BY DEF Descriptors, Files
  <2>3. at \in Places /\ vmidx \in 0..Len(vmodes)
    BY <2>1 DEF Places
  <2>4. logOpened \in BOOLEAN /\ conOpened \in BOOLEAN
    OBVIOUS
  <2>5. time_msec \in Nat /\ num_frames \in Nat /\ ticks \in Nat /\ max_modes \in Nat
    OBVIOUS
  <2>6. vmodes \in Seq(Modes) /\ probed \in 0..Len(BiosModes)
    BY <2>1
  <2> QED
    BY <2>2, <2>3, <2>4, <2>5, <2>6 DEF AppTyped
<1>3. Stages /\ ListKept /\ Chosen /\ LinesKept
  BY DEF Stages, ListKept, Chosen, LinesKept
<1> QED
  BY <1>1, <1>2, <1>3 DEF AppInv

LEMMA StartStep ==
  ASSUME AppInv, Start
  PROVE  OwnInv'
<1> USE DEF AppInv, Start, vars, list, clock, frames
<1>1. fds' \in [Descriptors -> Files] /\ fds'[0] # "closed"
        /\ (fds' # fds => fds'[1] = "log" /\ fds'[2] = "log")
        /\ logOpened' \in BOOLEAN /\ conOpened' = FALSE
        /\ (logOpened' => fds' # fds /\ UNCHANGED output)
  <2>1. CASE UNCHANGED files
    BY <2>1 DEF files, AppTyped, LinesKept
  <2>2. CASE init_logger("log") /\ logOpened' = (fds' # fds) /\ UNCHANGED conOpened
    <3>1. (fds' = Redirected("log") /\ UNCHANGED output) \/ fds' = fds
      BY <2>2 DEF init_logger
    <3> QED
      BY <2>2, <3>1, RedirectedFds DEF AppTyped, LinesKept
  <2> QED
    BY <2>1, <2>2
<1>2. AppTyped'
  BY <1>1 DEF AppTyped, Places
<1>3. Stages' /\ ListKept' /\ Chosen'
  BY DEF Stages, ListKept, Chosen, Startup
<1>4. LinesKept'
  BY <1>1 DEF LinesKept, LinesInLog, output
<1> QED
  BY <1>2, <1>3, <1>4 DEF OwnInv

LEMMA ProbeBiosStep ==
  ASSUME AppInv, ProbeBios
  PROVE  OwnInv'
<1> USE DEF ProbeBios, vars, clock, frames
<1>1. AppTyped'
  <2>1. CASE UNCHANGED list
    BY <2>1 DEF AppInv, AppTyped, Places, list, files
  <2>2. CASE vmodes' = <<>> /\ max_modes' = FirstMax /\ probed' = 0
    <3>1. Len(BiosModes) \in Nat /\ FirstMax \in Nat /\ <<>> \in Seq(Modes) /\ Len(<<>>) = 0
      BY AppAssumption
    <3>2. vmidx = 0
      BY DEF AppInv, ListKept
    <3> QED
      BY <2>2, <3>1, <3>2 DEF AppInv, AppTyped, Places, files
  <2> QED
    BY <2>1, <2>2
<1>2. Stages' /\ Chosen'
  BY DEF AppInv, Stages, Chosen, Startup
<1>3. ListKept'
  BY AppAssumption DEF AppInv, ListKept, Stages, list
<1>4. LinesKept'
  <2>1. CASE Output({}, {}, {"message"})
    BY <2>1, StartupLines
  <2>2. CASE Output({"probe"}, {}, {"message"})
    BY <2>2, StartupLines
  <2>3. CASE Output({"probe"}, {}, {})
    BY <2>3, StartupLines
  <2> QED
    BY <2>1, <2>2, <2>3
<1> QED
  BY <1>1, <1>2, <1>3, <1>4 DEF OwnInv

LEMMA ProbeModeStep ==
  ASSUME AppInv, ProbeMode
  PROVE  OwnInv'
<1> USE DEF ProbeMode, vars, clock, frames
<1>1. BiosModes[probed'] \in Modes /\ probed' \in 0..Len(BiosModes)
  <2>1. probed' \in 1..Len(BiosModes)
    BY AppAssumption DEF AppInv, AppTyped
  <2> QED
    BY <2>1, AppAssumption
<1>2. curmode = NoMode /\ curmode' = NoMode /\ vmodesPtr = "live" /\ max_modes > 0
        /\ Len(vmodes) <= max_modes
  BY DEF AppInv, Stages, ListKept
<1>3. \/ UNCHANGED <<vmodes, max_modes>> /\ vmodesPtr' \in {vmodesPtr, "freed"}
      \/ /\ vmodes' = Append(vmodes, BiosModes[probed']) /\ UNCHANGED vmodesPtr
         /\ max_modes' = IF Len(vmodes) >= max_modes THEN 2 * max_modes ELSE max_modes
  OBVIOUS
<1>4. vmodes' \in Seq(Modes) /\ Len(vmodes') \in Nat /\ max_modes' \in Nat
        /\ Len(vmodes') <= max_modes' /\ Len(vmodes) <= Len(vmodes') /\ max_modes' > 0
  <2>1. vmodes \in Seq(Modes) /\ Len(vmodes) \in Nat /\ max_modes \in Nat
    BY DEF AppInv, AppTyped
  <2>2. CASE UNCHANGED <<vmodes, max_modes>>
    BY <1>2, <2>1, <2>2
  <2>3. CASE /\ vmodes' = Append(vmodes, BiosModes[probed'])
             /\ max_modes' = IF Len(vmodes) >= max_modes THEN 2 * max_modes ELSE max_modes
    <3>1. vmodes' \in Seq(Modes) /\ Len(vmodes') = Len(vmodes) + 1
      BY <1>1, <2>1, <2>3
    <3>2. max_modes' \in Nat /\ max_modes' > Len(vmodes)
      BY <1>2, <2>1, <2>3
    <3> QED
      BY <2>1, <3>1, <3>2
  <2> QED
    BY <1>3, <2>2, <2>3
<1>5. AppTyped'
  <2>1. vmidx' \in 0..Len(vmodes')
    BY <1>4 DEF AppInv, AppTyped
  <2>2. at' \in Places
    BY DEF Places
  <2> QED
    BY <1>1, <1>4, <2>1, <2>2 DEF AppInv, AppTyped, files
<1>6. Stages' /\ Chosen'
  BY <1>2 DEF AppInv, Stages, Chosen, Startup
<1>7. ListKept'
  <2>1. at' = "list" => vmodesPtr' = "live"
    BY <1>2
  <2> QED
    BY <1>2, <1>4, <2>1 DEF AppInv, ListKept
<1>8. LinesKept'
  <2>1. CASE Output({}, {}, {"message"})
    BY <2>1, StartupLines
  <2>2. CASE Output({"probe"}, {}, {})
    BY <2>2, StartupLines
  <2> QED
    BY <2>1, <2>2
<1> QED
  BY <1>5, <1>6, <1>7, <1>8 DEF OwnInv

LEMMA MatchStep ==
  ASSUME AppInv, Match
  PROVE  OwnInv'
<1> USE DEF Match, vars, clock, frames, list
<1>1. vmidx' = match_video_mode /\ match_video_mode \in 0..Len(vmodes)
        /\ (match_video_mode # 0 => Fitting(match_video_mode))
  BY MatchFits DEF AppInv
<1>2. at' = "exit" \/ (at' = "set" /\ vmidx' # 0)
  OBVIOUS
<1>3. AppTyped'
  BY <1>1, <1>2 DEF AppInv, AppTyped, Places, files
<1>4. Stages' /\ ListKept'
  BY <1>2 DEF AppInv, Stages, ListKept, Startup
<1>5. Chosen'
  <2>1. curmode' = NoMode
    BY DEF AppInv, Stages
  <2>2. at' = "set" => Fitting(vmidx)'
    BY <1>1, <1>2 DEF Fitting
  <2> QED
    BY <1>2, <2>1, <2>2 DEF Chosen
<1>6. LinesKept'
  <2>1. CASE Output({}, {}, {"message"})
    BY <1>2, <2>1, StartupLines
  <2>2. CASE UNCHANGED output
    BY <1>2, <2>2 DEF AppInv, LinesKept, LinesInLog, files, output, Startup
  <2> QED
    BY <2>1, <2>2
<1> QED
  BY <1>3, <1>4, <1>5, <1>6 DEF OwnInv

LEMMA ModeSetStep ==
  ASSUME AppInv, ModeSet
  PROVE  OwnInv'
<1> USE DEF ModeSet, list, frames
<1> DEFINE m == vmodes[vmidx]
<1>1. Fitting(vmidx) /\ m \in Modes /\ m # NoMode /\ curmode = NoMode
  <2>1. Fitting(vmidx) /\ curmode = NoMode
    BY DEF AppInv, Chosen, Stages
  <2>2. m \in Modes
    BY <2>1, ListedModes DEF AppInv, Fitting
  <2> QED
    BY <2>1, <2>2, ModeFacts
<1>2. \/ at' = "exit" /\ curmode' = NoMode /\ UNCHANGED <<clock, screen>>
      \/ at' = "loop" /\ curmode' = m /\ hooked' = TRUE /\ ticks' = 0
      \/ at' = "killed" /\ curmode' = m /\ pc' = "crashed" /\ UNCHANGED clock
  BY <1>1 DEF SetModeLfb, SetModeCrash, SetModeBanked, SetModeNoFramebuf, TextMode, vars
<1>3. AppTyped'
  BY <1>2 DEF AppInv, AppTyped, Places, files, clock
<1>4. Stages' /\ ListKept'
  BY <1>1, <1>2 DEF AppInv, Stages, Killed, ListKept, Startup, clock
<1>5. Chosen'
  <2>1. Fitting(vmidx)'
    BY <1>1 DEF Fitting
  <2> QED
    BY <1>2, <2>1 DEF Chosen
<1>6. LinesKept'
  <2>1. CASE at' = "exit" /\ Output({"mode"}, {}, {"message"})
    BY <2>1, StartupLines
  <2>2. CASE at' = "loop" /\ Output({"mode", "fb"}, {}, {})
    BY <2>2, StartupLines
  <2>3. CASE at' = "exit" /\ Output({"mode"}, {"fb"}, {"message"})
    BY <2>3, StartupLines
  <2>4. CASE at' = "killed" /\ Output({"mode"}, {}, {})
    BY <2>4, StartupLines
  <2> QED
    BY <2>1, <2>2, <2>3, <2>4
<1> QED
  BY <1>3, <1>4, <1>5, <1>6 DEF OwnInv

(* In the loop, and Ctrl-C wherever it strikes. *)
LEMMA LoopStep ==
  ASSUME AppInv, Tick \/ CtrlC \/ Frame \/ Blit
  PROVE  OwnInv'
<1> USE DEF Tick, CtrlC, Frame, Blit, list, clock, frames, appVars
<1>1. UNCHANGED <<curmode, opt, vmodes, max_modes, vmodesPtr, probed, vmidx, files, output>>
  BY DEF vars, blit_frame_lfb, BeginBlit, BlitChunk, EndBlit
<1>2. \/ UNCHANGED <<at, interrupted, hooked, screen, num_frames, time_msec, pc>>
      \/ at = "loop" /\ at' = "loop" /\ UNCHANGED <<hooked, screen>>
      \/ at = "loop" /\ at' = "killed" /\ pc' = "crashed" /\ UNCHANGED <<hooked, screen>>
      \/ at \notin {"killed", "ended"} /\ CtrlC
  <2>1. CASE Tick
    BY <2>1 DEF vars, blit
  <2>2. CASE Frame \/ Blit
    BY <2>2
  <2> QED
    BY <2>1, <2>2
<1>3. AppTyped'
  <2>1. at' \in Places
    BY <1>2 DEF AppInv, AppTyped, Places
  <2>2. time_msec' \in Nat /\ num_frames' \in Nat /\ ticks' \in Nat
    BY DEF AppInv, AppTyped
  <2> QED
    BY <1>1, <2>1, <2>2 DEF AppInv, AppTyped, files
<1>4. Stages' /\ ListKept'
  <2>1. ListKept'
    BY <1>1, <1>2 DEF AppInv, ListKept
  <2>2. CASE UNCHANGED <<at, interrupted, hooked, screen, num_frames, time_msec, pc>>
    BY <1>1, <2>1, <2>2 DEF AppInv, Stages, Killed
  <2>3. CASE \/ at = "loop" /\ at' = "loop"
             \/ at = "loop" /\ at' = "killed" /\ pc' = "crashed"
    <3>1. (hooked' = hooked /\ screen' = screen) \/ CtrlC
      BY <1>2, <2>3
    <3> QED
      BY <1>1, <2>1, <2>3, <3>1 DEF AppInv, Stages, Killed, Startup
  <2>4. CASE CtrlC
    <3>1. at' = "killed" /\ interrupted'
      BY <2>4
    <3>2. vmidx = 0 => screen' = "text" /\ ~hooked'
      BY <2>4 DEF AppInv, Stages
    <3> QED
      BY <1>1, <2>1, <3>1, <3>2 DEF AppInv, Stages, Killed, Startup
  <2> QED
    BY <1>2, <2>1, <2>2, <2>3, <2>4
<1>5. Chosen'
  BY <1>1, <1>2 DEF AppInv, Chosen, Fitting
<1>6. LinesKept'
  BY <1>1, <1>2 DEF AppInv, LinesKept, LinesInLog, files, output, Startup
<1> QED
  BY <1>3, <1>4, <1>5, <1>6 DEF OwnInv

LEMMA EscapeStep ==
  ASSUME AppInv, Escape
  PROVE  OwnInv'
<1> USE DEF Escape, clock, frames
<1>1. curmode' = NoMode /\ at' \in {"result", "exit"} /\ (at' = "result" => num_frames > 0)
        /\ UNCHANGED <<time_msec, num_frames, interrupted, hooked, ticks>>
  BY DEF set_text_mode, TextMode
<1>2. \/ fds' = Redirected("console") /\ UNCHANGED output
      \/ fds' = fds /\ Output({}, {}, {"no log"})
  BY DEF init_logger
<1>3. fds' \in [Descriptors -> Files] /\ fds'[0] # "closed"
        /\ (fds' # fds => fds'[1] = "console" /\ fds'[2] = "console")
  BY <1>2, RedirectedFds DEF AppInv, AppTyped
<1>4. AppTyped'
  BY <1>1, <1>3 DEF AppInv, AppTyped, Places
<1>5. Stages' /\ ListKept' /\ Chosen'
  BY <1>1 DEF AppInv, Stages, Killed, ListKept, Chosen, Startup
<1>6. LinesKept'
  <2> SUFFICES ASSUME logOpened PROVE LinesInLog'
    BY <1>1 DEF LinesKept
  <2>1. /\ fds[1] = "log" /\ fds[2] = "log" /\ stdout = {} /\ console = {}
        /\ printed = log /\ "result" \notin printed
    BY DEF AppInv, LinesKept, LinesInLog, AppTyped
  <2>2. CASE fds' # fds /\ UNCHANGED output
    BY <1>1, <1>3, <2>1, <2>2 DEF LinesInLog, output, Startup
  <2>3. CASE fds' = fds /\ Output({}, {}, {"no log"})
    <3> DEFINE none == {}  err == {"no log"}
    <3>1. Output(none, none, err)
      BY <2>3
    <3> HIDE DEF none, err
    <3>2. /\ printed' = printed \cup none \cup none \cup err /\ stdout' \subseteq stdout \cup none
          /\ log' \cup stdout' = log \cup stdout \cup none \cup none \cup err
          /\ console' = console
      BY <2>1, <3>1, OutputMoves
    <3>3. stdout' = {} /\ printed' = log' /\ printed' = printed \cup {"no log"} /\ console' = {}
      BY <2>1, <3>2 DEF none, err
    <3> QED
      BY <1>1, <2>1, <2>3, <3>3 DEF LinesInLog
  <2> QED
    BY <1>2, <1>3, <2>1, <2>2, <2>3, RedirectedFds DEF AppInv
<1> QED
  BY <1>4, <1>5, <1>6 DEF OwnInv

LEMMA ResultStep ==
  ASSUME AppInv, Result
  PROVE  OwnInv'
<1> USE DEF Result, vars, list, clock, frames
<1>1. at' \in {"exit", "killed"} /\ (at' = "killed" => time_msec = 0)
  OBVIOUS
<1>2. AppTyped'
  BY <1>1 DEF AppInv, AppTyped, Places, files
<1>3. Stages' /\ ListKept' /\ Chosen'
  BY <1>1 DEF AppInv, Stages, Killed, ListKept, Chosen, Startup
<1>4. LinesKept'
  <2> SUFFICES ASSUME logOpened PROVE LinesInLog'
    BY <1>1 DEF LinesKept, files
  <2>1. LinesInLog /\ stdout = {} /\ fds[1] = fds[2] /\ conOpened \in BOOLEAN
          /\ UNCHANGED <<fds, conOpened>>
    BY DEF AppInv, LinesKept, LinesInLog, AppTyped, files
  <2>2. printed' = printed \cup {"result"} /\ stdout' \subseteq {"result"}
    BY <2>1, OutputMoves
  <2>3. CASE conOpened
    <3>1. console' \cup stdout' = console \cup {"result"} /\ log' = log
      BY <2>1, <2>3, OutputMoves DEF LinesInLog
    <3> QED
      BY <1>1, <2>1, <2>2, <2>3, <3>1 DEF LinesInLog, Startup
  <2>4. CASE ~conOpened
    <3>1. log' \cup stdout' = log \cup {"result"} /\ console' = console
      BY <2>1, <2>4, OutputMoves DEF LinesInLog
    <3> QED
      BY <1>1, <2>1, <2>2, <2>4, <3>1 DEF LinesInLog
  <2> QED
    BY <2>1, <2>3, <2>4
<1> QED
  BY <1>2, <1>3, <1>4 DEF OwnInv

LEMMA ExitStep ==
  ASSUME AppInv, Exit
  PROVE  OwnInv'
<1> USE DEF Exit, vars, list, frames
<1>1. AppTyped'
  BY DEF AppInv, AppTyped, Places, files
<1>2. Stages' /\ ListKept' /\ Chosen'
  BY DEF AppInv, Stages, ListKept, Chosen, Startup
<1>3. LinesKept'
  BY DEF AppInv, LinesKept, LinesInLog, files, Startup
<1> QED
  BY <1>1, <1>2, <1>3 DEF OwnInv

LEMMA StutterStep ==
  ASSUME AppInv, UNCHANGED <<vars, appVars>>
  PROVE  OwnInv'
BY DEF AppInv, OwnInv, AppTyped, Stages, Killed, ListKept, Chosen, Fitting, LinesKept, LinesInLog,
       vars, blit, appVars, list, files, output, clock, frames

LEMMA AppNextInv == AppInv /\ [AppNext]_<<vars, appVars>> => AppInv'
<1> SUFFICES ASSUME AppInv, [AppNext]_<<vars, appVars>> PROVE AppInv'
  OBVIOUS
<1>1. OwnInv'
  BY StartStep, ProbeBiosStep, ProbeModeStep, MatchStep, ModeSetStep, LoopStep, EscapeStep,
     ResultStep, ExitStep, StutterStep DEF AppNext
<1> QED
  BY <1>1, VideoInv DEF AppInv, OwnInv

LEMMA AppAlwaysInv == AppSpec => []AppInv
BY AppInitInv, AppNextInv, PTL DEF AppSpec

-----------------------------------------------------------------------------
(* The program is a user of the video code that keeps to its interface:     *)
(* every theorem about DosVideo holds of it.                                *)
THEOREM AppUsesVideo == AppSpec => Spec
<1>1. AppInit => Init
  BY DEF AppInit
<1>2. AppInv /\ [AppNext]_<<vars, appVars>> => [Next]_vars
  BY VideoStep
<1> QED
  BY <1>1, <1>2, AppAlwaysInv, PTL DEF AppSpec, Spec

(* When the program returns from main or calls exit, the screen, the        *)
(* mapping and the timer's vector are restored; it ends otherwise only by a *)
(* Ctrl-C, which may strike anywhere, by a fault on memory the host has not *)
(* mapped, or by the division by 0, with the screen in text mode; and what  *)
(* kills it before it has chosen a mode finds nothing to restore.           *)
THEOREM NothingIsLeftBehind == AppSpec => []NothingLeftBehind
<1>1. AppInv => NothingLeftBehind
  BY DEF AppInv, Stages, Killed, NothingLeftBehind, IInv, MappingOwned
<1> QED
  BY <1>1, AppAlwaysInv, PTL

(* When the program returns from main and the log was open, every line has  *)
(* come to the log, and the result to the console if that could be opened.  *)
(* A program that is killed is outside this: it loses what stdout buffers.  *)
THEOREM LinesGoWhereMeant == AppSpec => []LinesWhereMeant
<1>1. AppInv => LinesWhereMeant
  BY DEF AppInv, AppTyped, LinesKept, LinesInLog, LinesWhereMeant
<1> QED
  BY <1>1, AppAlwaysInv, PTL

(* The mode set is the one asked for, or the nearest the list has.          *)
THEOREM ModeIsTheOneAskedFor == AppSpec => []ModeAskedFor
<1>1. AppInv => ModeAskedFor
  BY DEF AppInv, ListKept, Chosen, Fitting, ModeAskedFor
<1> QED
  BY <1>1, AppAlwaysInv, PTL

(* What is proved of the video code holds of it as the program drives it,   *)
(* with its exceptions: the frames stay inside the buffer, and inside the   *)
(* mapping if the host made one; they go to the page on display, and each   *)
(* chunk to its place, while the BIOS does as it is told; no mapping is     *)
(* leaked and no memory type range wasted.                                  *)
THEOREM VideoIsSafeInApp ==
  AppSpec => [](MappingOwned /\ BlitInBounds /\ FrontIsShown /\ BankedAddressing /\ MtrrsSpentWell)
<1>1. AppInv => MappingOwned /\ BlitInBounds /\ FrontIsShown /\ BankedAddressing
                  /\ MtrrsSpentWell
  BY DEF AppInv, IInv, MtrrInv, MtrrsSpentWell
<1> QED
  BY <1>1, AppAlwaysInv, PTL
=============================================================================
