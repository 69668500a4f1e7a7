----------------------------- MODULE FbdevProofs -----------------------------
(***************************************************************************)
(* Proofs about FbdevApp, for every device, every amount of typing and     *)
(* every failure: what the program leaves behind, and what frames need.    *)
(***************************************************************************)
EXTENDS FbdevApp, TLAPS

Loop == {"drain", "frame"}
AfterSwitch == {"malloc", "tty", "shutdown", "restore"} \cup Loop

(* What each stage of main has behind it.  The device is opened before the  *)
(* mode is switched, so the line length is the old mode's.                  *)
Stages ==
  /\ pc \in {"save", "set"} => mode = "user" /\ framebuf = 0
  /\ fbOpen => pitch \in {0, device.line["user"]}
  /\ pc \in AfterSwitch =>
       mode = "bench" /\ fbOpen /\ vmem = "mapped" /\ pitch = device.line["user"]
  /\ pc \in AfterSwitch \ {"malloc"} => framebuf = pitch * device.height
  /\ pc \in Loop => termFd = "open"
  /\ pc \in {"save", "set", "malloc", "tty", "restore"} => ~raw

(* A terminal in raw mode is open, and only a crash leaves it so. *)
RawHasOwner ==
  /\ raw => pc \in Loop \cup {"shutdown", "gone"} /\ termFd = "open"
  /\ raw /\ pc = "gone" => "bounds" \in failed

CrashIsStale == "bounds" \in failed => pc = "gone" /\ StalePitch

(* What is saved is the user's mode, and if nothing is, a call has failed. *)
SavedIsUsers ==
  /\ saved \in {"none", "user"}
  /\ pc # "save" /\ saved = "none" => killed \/ failed \cap {"open", "save"} # {}

IInv ==
  /\ TypeOK /\ Stages /\ RawHasOwner /\ CrashIsStale /\ SavedIsUsers
  /\ ModeLeftBehindOnlyIf

-----------------------------------------------------------------------------
(* A frame with the line length of the device's mode fits. *)
LEMMA TrueLengthFits ==
  ASSUME device \in Devices, pitch = device.line["bench"], framebuf = pitch * device.height
  PROVE  FrameInBounds
<1>1. /\ pitch \in Nat /\ device.height \in Nat \ {0} /\ device.row \in Nat
      /\ device.row <= pitch /\ pitch * device.height <= device.mem
  BY DevicesAssumption DEF Modes
<1>2. pitch * device.height \in Nat
  BY <1>1
<1>3. (device.height - 1) * pitch = pitch * device.height - pitch
  BY <1>1
<1> QED
  BY <1>1, <1>2, <1>3 DEF FrameInBounds

LEMMA LineLengths ==
  ASSUME device \in Devices
  PROVE  /\ device.line["user"] \in Nat \ {0} /\ device.line["bench"] \in Nat \ {0}
         /\ device.height \in Nat \ {0}
BY DevicesAssumption DEF Modes

LEMMA InitInv == Init => IInv
<1> SUFFICES ASSUME Init PROVE IInv
  OBVIOUS
<1> USE DEF Init
<1>1. input \in Seq(Keys) /\ Len(input) <= MaxInput
  BY BoundsAssumption
<1>2. TypeOK
  BY <1>1, Zenon DEF TypeOK, Modes
<1> QED
  BY <1>2 DEF IInv, Stages, RawHasOwner, CrashIsStale, SavedIsUsers, ModeLeftBehindOnlyIf,
     Loop, AfterSwitch

LEMMA SaveStep ==
  ASSUME IInv, SaveVideoMode
  PROVE  IInv'
<1> USE DEF SaveVideoMode, DeviceOpen, OpenFails, Fail, tty
<1>1. device \in Devices /\ mode = "user"
  BY DEF IInv, TypeOK, Stages
<1>2. TypeOK'
  <2>1. pitch' \in Nat /\ saved' \in Modes \cup {"none"}
    BY <1>1, LineLengths DEF IInv, TypeOK, Modes
  <2>2. failed' \subseteq failed \cup {"open", "save"}
    OBVIOUS
  <2>3. input' \in Seq(Keys) /\ Len(input') <= MaxInput
    BY DEF IInv, TypeOK
  <2> QED
    BY <2>1, <2>2, <2>3 DEF IInv, TypeOK
<1>3. Stages' /\ RawHasOwner' /\ CrashIsStale'
  BY <1>1 DEF IInv, Stages, RawHasOwner, CrashIsStale, AfterSwitch, Loop, StalePitch
<1>4. SavedIsUsers' /\ ModeLeftBehindOnlyIf'
  BY <1>1 DEF IInv, SavedIsUsers, ModeLeftBehindOnlyIf
<1> QED
  BY <1>2, <1>3, <1>4 DEF IInv

LEMMA SetStep ==
  ASSUME IInv, SetVideoMode
  PROVE  IInv'
<1> USE DEF SetVideoMode, DeviceOpen, OpenFails, Fail, tty
<1>1. device \in Devices /\ mode = "user" /\ framebuf = 0 /\ ~raw /\ "bounds" \notin failed
  BY DEF IInv, TypeOK, Stages, CrashIsStale
<1>2. TypeOK'
  <2>1. pitch' \in Nat
    BY <1>1, LineLengths DEF IInv, TypeOK, Modes
  <2>2. failed' \subseteq failed \cup {"open", "put", "mmap"}
    OBVIOUS
  <2>3. input' \in Seq(Keys) /\ Len(input') <= MaxInput
    BY DEF IInv, TypeOK
  <2>4. pc' \in {"gone", "malloc"} /\ mode' \in Modes /\ vmem' \in {"none", "mapped"}
          /\ fbOpen' \in BOOLEAN /\ (vmem' = "mapped" => fbOpen')
    BY DEF IInv, TypeOK, Modes
  <2> QED
    BY <2>1, <2>2, <2>3, <2>4 DEF IInv, TypeOK
<1>3. Stages'
  BY <1>1 DEF IInv, Stages, AfterSwitch, Loop
<1>4. RawHasOwner' /\ CrashIsStale' /\ SavedIsUsers' /\ ModeLeftBehindOnlyIf'
  BY <1>1 DEF IInv, RawHasOwner, CrashIsStale, SavedIsUsers, ModeLeftBehindOnlyIf
<1> QED
  BY <1>2, <1>3, <1>4 DEF IInv

LEMMA AllocateStep ==
  ASSUME IInv, AllocateFramebuffer
  PROVE  IInv'
<1> USE DEF AllocateFramebuffer, Fail, tty
<1>1. /\ device \in Devices /\ pitch = device.line["user"] /\ ~raw /\ mode = "bench"
      /\ "bounds" \notin failed
  BY DEF IInv, TypeOK, Stages, CrashIsStale, AfterSwitch
<1>2. TypeOK'
  <2>1. pitch * device.height \in Nat
    BY <1>1, LineLengths
  <2>2. failed' \subseteq failed \cup {"malloc"} /\ framebuf' \in Nat
    BY <2>1 DEF IInv, TypeOK
  <2> QED
    BY <2>2 DEF IInv, TypeOK
<1>3. Stages' /\ RawHasOwner' /\ CrashIsStale' /\ SavedIsUsers' /\ ModeLeftBehindOnlyIf'
  BY <1>1 DEF IInv, Stages, AfterSwitch, Loop, RawHasOwner, CrashIsStale, SavedIsUsers,
     ModeLeftBehindOnlyIf
<1> QED
  BY <1>2, <1>3 DEF IInv

LEMMA InitEventsStep ==
  ASSUME IInv, InitEvents
  PROVE  IInv'
<1> USE DEF InitEvents, TtyOpens, TtyFailsTo, Fail, gfx
<1>1. ~raw /\ "bounds" \notin failed
  BY DEF IInv, Stages, CrashIsStale
<1>2. TypeOK'
  BY DEF IInv, TypeOK
<1>3. Stages' /\ RawHasOwner' /\ CrashIsStale' /\ SavedIsUsers' /\ ModeLeftBehindOnlyIf'
  BY <1>1 DEF IInv, Stages, AfterSwitch, Loop, RawHasOwner, CrashIsStale, SavedIsUsers,
     ModeLeftBehindOnlyIf
<1> QED
  BY <1>2, <1>3 DEF IInv

-----------------------------------------------------------------------------
(* What is read leaves a shorter queue. *)
LEMMA ReadStep ==
  ASSUME IInv, ReadKeys
  PROVE  IInv'
<1> USE DEF ReadKeys, gfx
<1> DEFINE n == IF Len(input) < ReadSize THEN Len(input) ELSE ReadSize
<1>1. input \in Seq(Keys) /\ Len(input) \in Nat /\ Len(input) <= MaxInput
  BY DEF IInv, TypeOK
<1>2. n \in 0..Len(input) /\ n \in Nat
  BY <1>1, BoundsAssumption
<1>3. input' = SubSeq(input, n + 1, Len(input)) /\ quit' = (quit \/ keyb(SubSeq(input, 1, n)))
  OBVIOUS
<1> HIDE DEF n
<1>4. input' \in Seq(Keys) /\ Len(input') <= MaxInput
  BY <1>1, <1>2, <1>3, BoundsAssumption
<1>5. quit' \in BOOLEAN
  BY <1>3 DEF IInv, TypeOK
<1>6. TypeOK'
  BY <1>4, <1>5 DEF IInv, TypeOK
<1>7. Stages' /\ RawHasOwner' /\ CrashIsStale' /\ SavedIsUsers' /\ ModeLeftBehindOnlyIf'
  BY DEF IInv, Stages, AfterSwitch, Loop, RawHasOwner, CrashIsStale, SavedIsUsers,
     ModeLeftBehindOnlyIf, StalePitch
<1> QED
  BY <1>6, <1>7 DEF IInv

(* A frame out of bounds has a stale line length. *)
LEMMA FrameStep ==
  ASSUME IInv, DrawFrame
  PROVE  IInv'
<1> USE DEF DrawFrame, Fail, gfx, tty
<1>1. /\ device \in Devices /\ mode = "bench" /\ pitch = device.line["user"]
      /\ framebuf = pitch * device.height /\ termFd = "open" /\ vmem = "mapped" /\ fbOpen
  BY DEF IInv, TypeOK, Stages, AfterSwitch, Loop
<1>2. ~FrameInBounds => StalePitch
  BY <1>1, TrueLengthFits DEF StalePitch
<1>3. TypeOK'
  BY DEF IInv, TypeOK
<1>4. Stages' /\ RawHasOwner'
  BY <1>1 DEF IInv, Stages, AfterSwitch, Loop, RawHasOwner
<1>5. CrashIsStale' /\ SavedIsUsers' /\ ModeLeftBehindOnlyIf'
  BY <1>2 DEF IInv, CrashIsStale, StalePitch, SavedIsUsers, ModeLeftBehindOnlyIf
<1> QED
  BY <1>3, <1>4, <1>5 DEF IInv

LEMMA QuietStep ==
  ASSUME IInv, ReadNothing
  PROVE  IInv'
<1> USE DEF ReadNothing, gfx, tty
<1>1. TypeOK'
  BY DEF IInv, TypeOK
<1>2. Stages' /\ RawHasOwner' /\ CrashIsStale' /\ SavedIsUsers' /\ ModeLeftBehindOnlyIf'
  BY DEF IInv, Stages, AfterSwitch, Loop, RawHasOwner, CrashIsStale, SavedIsUsers,
     ModeLeftBehindOnlyIf, StalePitch
<1> QED
  BY <1>1, <1>2 DEF IInv

-----------------------------------------------------------------------------
LEMMA ShutdownStep ==
  ASSUME IInv, ShutdownEvents
  PROVE  IInv'
<1> USE DEF ShutdownEvents, gfx
<1>1. ~raw'
  BY DEF IInv, RawHasOwner
<1>2. TypeOK'
  BY <1>1 DEF IInv, TypeOK
<1>3. Stages' /\ RawHasOwner' /\ CrashIsStale' /\ SavedIsUsers' /\ ModeLeftBehindOnlyIf'
  BY <1>1 DEF IInv, Stages, AfterSwitch, Loop, RawHasOwner, CrashIsStale, SavedIsUsers,
     ModeLeftBehindOnlyIf, StalePitch
<1> QED
  BY <1>2, <1>3 DEF IInv

LEMMA RestoreStep ==
  ASSUME IInv, RestoreVideoMode
  PROVE  IInv'
<1> USE DEF RestoreVideoMode, tty
<1>1. ~raw /\ mode = "bench"
  BY DEF IInv, Stages, AfterSwitch
<1>2. TypeOK'
  BY DEF IInv, TypeOK, SavedIsUsers, Modes
<1>3. Stages' /\ RawHasOwner' /\ CrashIsStale'
  BY <1>1 DEF IInv, Stages, AfterSwitch, Loop, RawHasOwner, CrashIsStale
<1>4. SavedIsUsers' /\ ModeLeftBehindOnlyIf'
  BY <1>1 DEF IInv, SavedIsUsers, ModeLeftBehindOnlyIf
<1> QED
  BY <1>2, <1>3, <1>4 DEF IInv

(* The user's keys change nothing else; Ctrl-C kills a program whose        *)
(* terminal is cooked.                                                      *)
LEMMA TypeStep ==
  ASSUME IInv, NEW key \in Keys, Type(key)
  PROVE  IInv'
<1> USE DEF Type, gfx
<1>1. input' \in Seq(Keys) /\ Len(input') <= MaxInput
  <2>1. input \in Seq(Keys) /\ Len(input) \in Nat /\ MaxInput \in Nat
    BY BoundsAssumption DEF IInv, TypeOK
  <2> QED
    BY <2>1
<1>2. TypeOK'
  BY <1>1 DEF IInv, TypeOK
<1>3. Stages' /\ RawHasOwner' /\ CrashIsStale' /\ SavedIsUsers' /\ ModeLeftBehindOnlyIf'
  BY DEF IInv, Stages, AfterSwitch, Loop, RawHasOwner, CrashIsStale, SavedIsUsers,
     ModeLeftBehindOnlyIf, StalePitch
<1> QED
  BY <1>2, <1>3 DEF IInv

LEMMA KillStep ==
  ASSUME IInv, CtrlC, ~raw
  PROVE  IInv'
<1> USE DEF CtrlC, gfx, tty
<1>1. TypeOK'
  BY DEF IInv, TypeOK
<1>2. Stages' /\ RawHasOwner' /\ CrashIsStale' /\ SavedIsUsers' /\ ModeLeftBehindOnlyIf'
  BY DEF IInv, Stages, AfterSwitch, Loop, RawHasOwner, CrashIsStale, SavedIsUsers,
     ModeLeftBehindOnlyIf, StalePitch
<1> QED
  BY <1>1, <1>2 DEF IInv

-----------------------------------------------------------------------------
(* IInv is inductive. *)
LEMMA NextInv == IInv /\ [Next]_vars => IInv'
<1> SUFFICES ASSUME IInv, [Next]_vars PROVE IInv'
  OBVIOUS
<1>1. CASE UNCHANGED vars
  BY <1>1 DEF vars, gfx, tty, IInv, TypeOK, Stages, RawHasOwner, CrashIsStale, SavedIsUsers,
     ModeLeftBehindOnlyIf, StalePitch
<1>2. CASE Main
  BY <1>2, SaveStep, SetStep, AllocateStep, InitEventsStep, ReadStep, QuietStep, FrameStep,
     ShutdownStep, RestoreStep DEF Main
<1>3. CASE TypeKey
  BY <1>3, TypeStep DEF TypeKey
<1>4. CASE CtrlC /\ raw
  <2>1. Type("other")
    BY <1>4 DEF CtrlC
  <2> QED
    BY <2>1, TypeStep DEF Keys
<1>5. CASE CtrlC /\ ~raw
  BY <1>5, KillStep
<1> QED
  BY <1>1, <1>2, <1>3, <1>4, <1>5 DEF Next, Done

LEMMA AlwaysInv == Spec => []IInv
BY InitInv, NextInv, PTL DEF Spec

(* Every variable of the console driver has its type. *)
THEOREM FbdevTypes == Spec => []TypeOK
<1>1. IInv => TypeOK  BY DEF IInv
<1> QED  BY <1>1, AlwaysInv, PTL

(* The terminal is cooked when the process is gone, whatever failed and     *)
(* whatever the user typed, unless a stale line length crashed it.          *)
THEOREM TerminalIsRestored == Spec => []TtyRestored
<1>1. IInv => TtyRestored  BY DEF IInv, RawHasOwner, CrashIsStale, TtyRestored
<1> QED  BY <1>1, AlwaysInv, PTL

(* The user's video mode is restored except after the failures named.       *)
THEOREM ModeIsRestored == Spec => []ModeLeftBehindOnlyIf
<1>1. IInv => ModeLeftBehindOnlyIf  BY DEF IInv
<1> QED  BY <1>1, AlwaysInv, PTL

(* Frames fit, on every device whose line length the mode switch keeps.     *)
THEOREM FramesFit == Spec => []FrameFits
<1>1. ASSUME IInv PROVE FrameFits
  <2>1. SUFFICES ASSUME pc \in Loop
                 PROVE  /\ termFd = "open" /\ vmem = "mapped" /\ mode = "bench"
                        /\ StalePitch \/ (FrameInBounds /\ pitch = device.line["bench"])
    BY DEF FrameFits, Loop
  <2>2. /\ device \in Devices /\ pitch = device.line["user"] /\ termFd = "open"
        /\ vmem = "mapped" /\ mode = "bench" /\ framebuf = pitch * device.height
    BY <1>1, <2>1 DEF IInv, TypeOK, Stages, AfterSwitch, Loop
  <2>3. CASE pitch = device.line["bench"]
    BY <2>2, <2>3, TrueLengthFits
  <2>4. CASE pitch # device.line["bench"]
    BY <2>2, <2>4 DEF StalePitch
  <2> QED
    BY <2>2, <2>3, <2>4
<1> QED  BY <1>1, AlwaysInv, PTL
=============================================================================
