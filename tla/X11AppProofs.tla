---------------------------- MODULE X11AppProofs ----------------------------
(***************************************************************************)
(* Proofs about X11App, for any number of events in flight and of frames:  *)
(* what is queued for the server at each stage of main, hence that no      *)
(* frame is drawn while the server reads one, that X errors are over with  *)
(* the first frame, and which ways out of the process leave the segment.   *)
(***************************************************************************)
EXTENDS X11App, SequenceTheorems, TLAPS

LoopStages == {"loop", "poll", "block", "store_poll", "store_loop"}

(* What the queue may hold: whatever is left of the startup, of a frame,     *)
(* and of the cleanup.                                                      *)
Leftovers == {<<>>, <<"map">>, <<"map", "attach">>, <<"attach">>}
Drawn == {<<"map", "attach", "put">>, <<"attach", "put">>, <<"put">>}
Closing == {<<"map", "attach", "detach">>, <<"attach", "detach">>,
            <<"map", "detach">>, <<"detach">>}
Queues == Leftovers \cup Drawn \cup Closing

Mapping == {<<"map">>, <<"map", "attach">>, <<"map", "attach", "put">>,
            <<"map", "attach", "detach">>, <<"map", "detach">>}
Attaching == {<<"map", "attach">>, <<"attach">>, <<"map", "attach", "put">>,
              <<"attach", "put">>, <<"map", "attach", "detach">>,
              <<"attach", "detach">>}

(* What may be queued, by the stage main is at. *)
QueueByStage ==
  /\ requests \in Queues
  /\ pc \in {"display", "shmext", "window", "gone"} => requests = <<>>
  /\ pc \in {"image", "shmid", "shmaddr", "attach"} =>
       requests \in {<<>>, <<"map">>}
  /\ pc \in LoopStages \cup {"draw"} => requests \in Leftovers \ {<<"map">>}
  /\ pc = "sync" => requests \in Drawn \cup {<<>>}
  /\ pc = "end" => requests \in Leftovers
  /\ pc \in {"shmdt", "rmid", "close"} => requests \in Leftovers \cup Closing
  /\ reading => requests = <<"put">>
  /\ pc = "gone" => ~srvAttached

(* What main holds, by the stage it is at. *)
Running == LoopStages \cup {"draw", "sync"}
HeldByStage ==
  /\ pc \in {"display", "shmext", "window"} => "window" \notin held
  /\ pc \in {"display", "shmext", "window", "image", "shmid"} => "shmid" \notin held
  /\ pc \in StartupStages \ {"attach"} => "shmaddr" \notin held
  /\ pc \in {"shmid", "shmaddr", "attach"} \cup Running => "image" \in held
  /\ pc \in {"shmaddr", "attach"} \cup Running => "shmid" \in held
  /\ pc = "end" /\ "image" \notin held =>
       "shmid" \notin held /\ "shmaddr" \notin held
  /\ pc \in {"rmid", "close", "halt", "gone"} => "shmaddr" \notin held
  /\ rmid => pc \in {"close", "halt", "gone"}
  /\ pc = "close" /\ "shmid" \in held => rmid
  /\ pc \in {"halt", "gone"} /\ "shmid" \in held =>
       rmid \/ refused \/ noWindow \/ broken

(* The first XSync has seen the attach executed. *)
AttachSeen ==
  /\ pc \in StartupStages => frames = 0
  /\ pc \in {"draw", "sync"} \/ requests \in Drawn => frames > 0
  /\ frames > 0 /\ requests \in Attaching =>
       pc \in {"draw", "sync", "halt"} /\ ~rmid /\ "shmid" \in held

(* An attach that was executed is in force until the detach, or refused. *)
AttachedUnlessRefused ==
  /\ refused => requests \notin Attaching
  /\ refused \/ (xerror /\ ~noWindow) => pc \notin StartupStages
  /\ requests \notin Attaching =>
       \/ srvAttached \/ refused
       \/ /\ pc \notin Running
          /\ requests \notin Drawn
          /\ frames > 0 => pc # "end" /\ requests \notin Closing
  /\ xerror /\ pc \in Running => refused \/ noWindow

(* mapped is looked at before each drain loop. *)
StaleOnce ==
  /\ stale <= 1
  /\ mapped \/ pc \in {"poll", "store_poll"} => stale = 0

(* TypeOK in parts. *)
StageTyped ==
  /\ pc \in StartupStages \cup CleanupStages \cup
            {"loop", "poll", "draw", "sync", "block", "store_poll", "store_loop",
             "halt", "gone"}
  /\ held \subseteq Resources
FlagsTyped ==
  /\ mapped \in BOOLEAN /\ quit \in BOOLEAN /\ copy \in BOOLEAN
  /\ winMapped \in BOOLEAN /\ srvAttached \in BOOLEAN /\ reading \in BOOLEAN
  /\ rmid \in BOOLEAN /\ xerror \in BOOLEAN /\ refused \in BOOLEAN
  /\ noWindow \in BOOLEAN /\ broken \in BOOLEAN
CountersTyped == frames \in 0..MaxFrames /\ stale \in 0..MaxFrames

EventsFit == events \in Seq(EventNames) /\ Len(events) <= MaxEvents

(* Nothing is heard of a window that the server has not made, and no frame  *)
(* is drawn before it is mapped.                                            *)
Unseen ==
  requests \in Mapping \/ noWindow \/ pc \in {"display", "shmext", "window"} =>
    /\ events = <<>> /\ ~winMapped /\ ~mapped /\ frames = 0
    /\ pc \notin {"poll", "store_poll", "store_loop", "draw", "sync"}
(* A window that was refused is not asked for again. *)
WindowRefused ==
  noWindow => requests \notin Mapping /\ pc \notin {"display", "shmext", "window"}

IInv ==
  /\ StageTyped /\ FlagsTyped /\ CountersTyped /\ EventsFit
  /\ QueueByStage /\ HeldByStage
  /\ AttachSeen /\ AttachedUnlessRefused /\ XErrorsOnlyEarly /\ StaleOnce
  /\ Unseen /\ WindowRefused

-----------------------------------------------------------------------------
(* Sequences of two and of three. *)
LEMMA Pairs ==
  ASSUME NEW S, NEW x \in S, NEW y \in S
  PROVE  <<x, y>> \in Seq(S) /\ Len(<<x, y>>) = 2
OBVIOUS

LEMMA Triples ==
  ASSUME NEW S, NEW x \in S, NEW y \in S, NEW z \in S
  PROVE  <<x, y, z>> \in Seq(S) /\ Len(<<x, y, z>>) = 3
OBVIOUS

LEMMA AppendPair ==
  ASSUME NEW S, NEW x \in S, NEW y \in S
  PROVE  Append(<<x>>, y) = <<x, y>>
<1>1. <<x>> \in Seq(S) /\ Len(<<x>>) = 1 /\ <<x>>[1] = x
  OBVIOUS
<1>2. <<x, y>> \in Seq(S) /\ Len(<<x, y>>) = 2
  BY Pairs
<1>3. /\ Append(<<x>>, y) \in Seq(S) /\ Len(Append(<<x>>, y)) = 2
      /\ Append(<<x>>, y)[1] = x /\ Append(<<x>>, y)[2] = y
  BY <1>1, AppendProperties
<1>4. \A i \in 1..2 : Append(<<x>>, y)[i] = <<x, y>>[i]
  BY <1>3
<1> QED
  BY <1>2, <1>3, <1>4, SeqEqual

LEMMA AppendTriple ==
  ASSUME NEW S, NEW x \in S, NEW y \in S, NEW z \in S
  PROVE  Append(<<x, y>>, z) = <<x, y, z>>
<1>1. <<x, y>> \in Seq(S) /\ Len(<<x, y>>) = 2
  BY Pairs
<1>2. <<x, y, z>> \in Seq(S) /\ Len(<<x, y, z>>) = 3
  BY Triples
<1>3. /\ Append(<<x, y>>, z) \in Seq(S) /\ Len(Append(<<x, y>>, z)) = 3
      /\ Append(<<x, y>>, z)[3] = z
      /\ \A i \in 1..2 : Append(<<x, y>>, z)[i] = <<x, y>>[i]
  BY <1>1, AppendProperties
<1>4. \A i \in 1..3 : Append(<<x, y>>, z)[i] = <<x, y, z>>[i]
  BY <1>3
<1> QED
  BY <1>2, <1>3, <1>4, SeqEqual

(* Appending to the queue, and serving its head. *)
LEMMA QueueAppends ==
  /\ Append(<<>>, "map") = <<"map">>
  /\ Append(<<>>, "attach") = <<"attach">>
  /\ Append(<<"map">>, "attach") = <<"map", "attach">>
  /\ Append(<<>>, "put") = <<"put">>
  /\ Append(<<"attach">>, "put") = <<"attach", "put">>
  /\ Append(<<"map", "attach">>, "put") = <<"map", "attach", "put">>
  /\ Append(<<>>, "detach") = <<"detach">>
  /\ Append(<<"map">>, "detach") = <<"map", "detach">>
  /\ Append(<<"attach">>, "detach") = <<"attach", "detach">>
  /\ Append(<<"map", "attach">>, "detach") = <<"map", "attach", "detach">>
<1>1. \A x : Append(<<>>, x) = <<x>>
  OBVIOUS
<1>2. \A x, y \in RequestNames : Append(<<x>>, y) = <<x, y>>
  BY AppendPair
<1>3. \A x, y, z \in RequestNames : Append(<<x, y>>, z) = <<x, y, z>>
  BY AppendTriple
<1> QED
  BY <1>1, <1>2, <1>3 DEF RequestNames

LEMMA QueueHeads ==
  ASSUME NEW q \in Queues, q # <<>>
  PROVE  /\ Head(q) = "map" <=> q \in Mapping
         /\ Head(q) = "attach" <=> q \in Attaching \ Mapping
         /\ Head(q) = "put" <=> q = <<"put">>
         /\ Head(q) = "detach" <=> q = <<"detach">>
BY DEF Queues, Leftovers, Drawn, Closing, Mapping, Attaching

LEMMA QueueTails ==
  /\ Tail(<<"map">>) = <<>>
  /\ Tail(<<"map", "attach">>) = <<"attach">>
  /\ Tail(<<"map", "attach", "put">>) = <<"attach", "put">>
  /\ Tail(<<"map", "attach", "detach">>) = <<"attach", "detach">>
  /\ Tail(<<"map", "detach">>) = <<"detach">>
  /\ Tail(<<"attach">>) = <<>>
  /\ Tail(<<"attach", "put">>) = <<"put">>
  /\ Tail(<<"attach", "detach">>) = <<"detach">>
  /\ Tail(<<"put">>) = <<>>
  /\ Tail(<<"detach">>) = <<>>
OBVIOUS

LEMMA QueuesDiffer ==
  /\ <<>> \notin Mapping \cup Attaching \cup Drawn \cup Closing
  /\ <<"map">> \notin Attaching \cup Drawn \cup Closing \cup {<<>>}
  /\ <<"attach">> \notin Mapping \cup Drawn \cup Closing \cup {<<>>}
  /\ <<"map", "attach">> \notin Drawn \cup Closing \cup {<<>>}
  /\ Drawn \cap (Leftovers \cup Closing) = {}
  /\ Closing \cap (Leftovers \cup Drawn) = {}
  /\ <<"put">> \notin Mapping \cup Attaching
  /\ <<"detach">> \notin Mapping \cup Attaching
BY DEF Leftovers, Drawn, Closing, Mapping, Attaching

(* Which of them may be alike. *)
LEMMA QueuesApart ==
  /\ Queues = Leftovers \cup Drawn \cup Closing
  /\ Drawn \cap (Leftovers \cup Closing) = {} /\ Closing \cap Leftovers = {}
  /\ <<>> \in Leftovers /\ <<"map">> \in Leftovers /\ <<>> # <<"map">>
  /\ <<>> \notin Mapping \cup Attaching /\ <<"map">> \in Mapping \ Attaching
  /\ <<"put">> \in Drawn /\ <<"put">> \notin Mapping \cup Attaching
  /\ <<"detach">> \in Closing /\ <<"detach">> \notin Mapping \cup Attaching
BY QueuesDiffer DEF Queues, Leftovers, Mapping, Drawn, Closing

LEMMA QueueGrows ==
  /\ Append(<<>>, "map") = <<"map">>
  /\ \A q \in {<<>>, <<"map">>} :
       /\ Append(q, "attach") \in (Leftovers \cap Attaching) \ {<<"map">>}
       /\ Append(q, "attach") \in Mapping <=> q \in Mapping
  /\ \A q \in Leftovers \ {<<"map">>} :
       /\ Append(q, "put") \in Drawn
       /\ Append(q, "put") \in Mapping <=> q \in Mapping
       /\ Append(q, "put") \in Attaching <=> q \in Attaching
  /\ \A q \in Leftovers :
       /\ Append(q, "detach") \in Closing
       /\ Append(q, "detach") \in Mapping <=> q \in Mapping
       /\ Append(q, "detach") \in Attaching <=> q \in Attaching
<1>1. \A q \in {<<>>, <<"map">>} :
       /\ Append(q, "attach") \in (Leftovers \cap Attaching) \ {<<"map">>}
       /\ Append(q, "attach") \in Mapping <=> q \in Mapping
  <2>1. Append(<<>>, "attach") \in
          (Leftovers \cap Attaching) \ ({<<"map">>} \cup Mapping)
    BY QueueAppends, QueuesDiffer DEF Leftovers, Attaching
  <2>2. Append(<<"map">>, "attach") \in
          (Leftovers \cap Attaching \cap Mapping) \ {<<"map">>}
    BY QueueAppends, QueuesDiffer DEF Leftovers, Attaching, Mapping
  <2> QED
    BY <2>1, <2>2, QueuesApart
<1>2. \A q \in Leftovers \ {<<"map">>} :
       /\ Append(q, "put") \in Drawn
       /\ Append(q, "put") \in Mapping <=> q \in Mapping
       /\ Append(q, "put") \in Attaching <=> q \in Attaching
  <2>1. Append(<<>>, "put") \in Drawn \ (Mapping \cup Attaching)
    BY QueueAppends, QueuesDiffer DEF Drawn
  <2>2. Append(<<"attach">>, "put") \in (Drawn \cap Attaching) \ Mapping
    BY QueueAppends, QueueHeads DEF Drawn, Attaching, Mapping
  <2>3. Append(<<"map", "attach">>, "put") \in Drawn \cap Attaching \cap Mapping
    BY QueueAppends DEF Drawn, Attaching, Mapping
  <2> QED
    BY <2>1, <2>2, <2>3, QueuesDiffer DEF Leftovers, Attaching, Mapping
<1>3. \A q \in Leftovers :
       /\ Append(q, "detach") \in Closing
       /\ Append(q, "detach") \in Mapping <=> q \in Mapping
       /\ Append(q, "detach") \in Attaching <=> q \in Attaching
  <2>1. Append(<<>>, "detach") \in Closing \ (Mapping \cup Attaching)
    BY QueueAppends, QueuesDiffer DEF Closing
  <2>2. Append(<<"attach">>, "detach") \in (Closing \cap Attaching) \ Mapping
    BY QueueAppends DEF Closing, Attaching, Mapping
  <2>3. Append(<<"map", "attach">>, "detach") \in Closing \cap Attaching \cap Mapping
    BY QueueAppends DEF Closing, Attaching, Mapping
  <2>4. Append(<<"map">>, "detach") \in (Closing \cap Mapping) \ Attaching
    BY QueueAppends DEF Closing, Attaching, Mapping
  <2> QED
    BY <2>1, <2>2, <2>3, <2>4, QueuesDiffer DEF Leftovers, Attaching, Mapping
<1> QED
  BY <1>1, <1>2, <1>3, QueueAppends

LEMMA QueueShrinks ==
  ASSUME NEW q \in Queues, q # <<>>
  PROVE  /\ Head(q) \in {"map", "attach"} =>
              /\ Tail(q) \in Queues \ Mapping
              /\ q \in Leftovers => Tail(q) \in Leftovers \ {<<"map">>}
              /\ q \in Drawn => Tail(q) \in Drawn
              /\ q \in Closing => Tail(q) \in Closing
         /\ Head(q) = "map" =>
              q \in Mapping /\ (Tail(q) \in Attaching <=> q \in Attaching)
         /\ Head(q) = "attach" => q \in Attaching \ Mapping /\ Tail(q) \notin Attaching
         /\ Head(q) = "put" => q = <<"put">> /\ Tail(q) = <<>>
         /\ Head(q) = "detach" => q = <<"detach">> /\ Tail(q) = <<>>
<1>1. CASE Head(q) = "map"
  <2>1. q \in Mapping
    BY <1>1, QueueHeads
  <2>2. CASE q = <<"map">>
    BY <1>1, <2>2, QueueTails, QueuesApart
  <2>3. CASE q = <<"map", "attach">>
    <3>1. /\ q \in Leftovers /\ q \in Mapping /\ q \in Attaching
          /\ q \notin Drawn /\ q \notin Closing
      BY <2>3, QueuesApart DEF Leftovers, Mapping, Attaching
    <3>2. /\ Tail(q) = <<"attach">> /\ <<"attach">> \in Leftovers \ {<<"map">>}
          /\ <<"attach">> \in Attaching \ Mapping
      BY <2>3, QueueTails, QueuesDiffer DEF Leftovers, Attaching
    <3> QED
      BY <1>1, <3>1, <3>2, QueuesApart
  <2>4. CASE q = <<"map", "attach", "put">>
    BY <1>1, <2>4, QueueTails, QueuesDiffer DEF Queues, Drawn, Attaching, Mapping
  <2>5. CASE q = <<"map", "attach", "detach">>
    BY <1>1, <2>5, QueueTails, QueuesDiffer DEF Queues, Closing, Attaching, Mapping
  <2>6. CASE q = <<"map", "detach">>
    BY <1>1, <2>6, QueueTails, QueuesDiffer DEF Queues, Closing, Attaching, Mapping
  <2> QED
    BY <2>1, <2>2, <2>3, <2>4, <2>5, <2>6 DEF Mapping
<1>2. CASE Head(q) = "attach"
  <2>1. q \in Attaching \ Mapping
    BY <1>2, QueueHeads
  <2>2. q \in {<<"attach">>, <<"attach", "put">>, <<"attach", "detach">>}
    BY <2>1 DEF Attaching, Mapping
  <2>3. Tail(q) \in {<<>>, <<"put">>, <<"detach">>}
    BY <2>2, QueueTails
  <2>4. Tail(q) \in Queues \ (Mapping \cup Attaching)
    BY <2>3, QueuesDiffer DEF Queues, Leftovers, Drawn, Closing
  <2>5. CASE q = <<"attach">>
    BY <1>2, <2>1, <2>4, <2>5, QueueTails, QueuesDiffer DEF Leftovers
  <2>6. CASE q = <<"attach", "put">>
    BY <1>2, <2>1, <2>4, <2>6, QueueTails, QueuesDiffer DEF Drawn
  <2>7. CASE q = <<"attach", "detach">>
    BY <1>2, <2>1, <2>4, <2>7, QueueTails, QueuesDiffer DEF Closing
  <2> QED
    BY <2>2, <2>5, <2>6, <2>7
<1>3. CASE Head(q) \in {"put", "detach"}
  BY <1>3, QueueHeads, QueueTails
<1>4. CASE Head(q) \notin {"map", "attach", "put", "detach"}
  BY <1>4
<1> QED
  BY <1>1, <1>2, <1>3, <1>4

LEMMA QueueTyped ==
  ASSUME NEW q \in Queues
  PROVE  q \in Seq(RequestNames) /\ Len(q) <= 3
<1>1. CASE q = <<>>
  BY <1>1
<1>2. CASE \E x \in RequestNames : q = <<x>>
  BY <1>2
<1>3. CASE \E x, y \in RequestNames : q = <<x, y>>
  BY <1>3, Pairs
<1>4. CASE \E x, y, z \in RequestNames : q = <<x, y, z>>
  BY <1>4, Triples
<1> QED
  BY <1>1, <1>2, <1>3, <1>4 DEF Queues, Leftovers, Drawn, Closing, RequestNames

(* An event more and an event less. *)
LEMMA EventAdded ==
  ASSUME NEW es \in Seq(EventNames), NEW e \in EventNames
  PROVE  Append(es, e) \in Seq(EventNames) /\ Len(Append(es, e)) = Len(es) + 1
BY AppendProperties

LEMMA EventTaken ==
  ASSUME NEW es \in Seq(EventNames), es # <<>>
  PROVE  /\ Head(es) \in EventNames /\ Tail(es) \in Seq(EventNames)
         /\ Len(Tail(es)) = Len(es) - 1
BY HeadTailProperties

-----------------------------------------------------------------------------
LEMMA TypesFollow == IInv => TypeOK
BY QueueTyped DEF IInv, StageTyped, FlagsTyped, CountersTyped, EventsFit,
  QueueByStage, TypeOK

LEMMA InitInv == Init => IInv
<1> SUFFICES ASSUME Init PROVE IInv
  OBVIOUS
<1>1. StageTyped /\ CountersTyped
  BY BoundsAssumption DEF Init, StageTyped, CountersTyped, StartupStages
<1>0. FlagsTyped
  BY DEF Init, FlagsTyped
<1>2. EventsFit
  BY BoundsAssumption DEF Init, EventsFit
<1>3. QueueByStage /\ HeldByStage
  BY DEF Init, QueueByStage, HeldByStage, Queues, Leftovers, LoopStages,
    Running, StartupStages
<1>4. AttachSeen /\ AttachedUnlessRefused /\ XErrorsOnlyEarly /\ StaleOnce
  BY QueuesApart DEF Init, AttachSeen, AttachedUnlessRefused,
    XErrorsOnlyEarly, StaleOnce, LoopStages, Running
<1>5. Unseen /\ WindowRefused
  BY DEF Init, Unseen, WindowRefused
<1> QED
  BY <1>0, <1>1, <1>2, <1>3, <1>4, <1>5 DEF IInv

-----------------------------------------------------------------------------
(* Every step preserves each part of the invariant: main, the server, and   *)
(* the user and the signal handler.                                         *)
LEMMA StartupStep ==
  ASSUME IInv, OpenDisplay \/ QueryShm \/ CreateImage \/ ShmGet \/ ShmAt
  PROVE  IInv'
<1> USE DEF vars, main, server, verdicts, wire, OpenDisplay, QueryShm, CreateImage,
  ShmGet, ShmAt, Acquire, Stage
<1>1. /\ FlagsTyped' /\ CountersTyped' /\ EventsFit'
      /\ XErrorsOnlyEarly' /\ StaleOnce'
  BY DEF IInv, FlagsTyped, CountersTyped, EventsFit, XErrorsOnlyEarly,
    StaleOnce
<1>2. StageTyped'
  BY DEF IInv, StageTyped, StartupStages, CleanupStages, Resources
<1>3. QueueByStage'
  BY DEF IInv, QueueByStage, LoopStages
<1>4. HeldByStage'
  BY DEF IInv, HeldByStage, AttachedUnlessRefused, LoopStages, Running,
    StartupStages
<1>5. AttachSeen'
  BY DEF IInv, AttachSeen, StartupStages
<1>6. AttachedUnlessRefused'
  BY DEF IInv, AttachedUnlessRefused, LoopStages, Running, StartupStages
<1>7. Unseen' /\ WindowRefused'
  BY DEF IInv, Unseen, WindowRefused
<1> QED
  BY <1>1, <1>2, <1>3, <1>4, <1>5, <1>6, <1>7 DEF IInv

LEMMA CreateWindowStep ==
  ASSUME IInv, CreateWindow
  PROVE  IInv'
<1> USE DEF vars, main, server, verdicts, wire, CreateWindow, Stage
<1>1. requests = <<>> /\ requests' = <<"map">>
  BY QueueGrows DEF IInv, QueueByStage
<1>2. /\ FlagsTyped' /\ CountersTyped' /\ EventsFit'
      /\ XErrorsOnlyEarly' /\ StaleOnce'
  BY DEF IInv, FlagsTyped, CountersTyped, EventsFit, XErrorsOnlyEarly,
    StaleOnce
<1>3. StageTyped'
  BY DEF IInv, StageTyped, StartupStages, CleanupStages, Resources
<1>4. QueueByStage'
  BY QueuesApart DEF IInv, QueueByStage, LoopStages
<1>5. HeldByStage'
  BY DEF IInv, HeldByStage, AttachedUnlessRefused, LoopStages, Running,
    StartupStages
<1>6. AttachSeen'
  BY QueuesApart DEF IInv, CountersTyped, AttachSeen, QueueByStage,
    StartupStages
<1>7. AttachedUnlessRefused'
  BY QueuesApart DEF IInv, AttachedUnlessRefused, QueueByStage, LoopStages,
    Running, StartupStages
<1>8. Unseen' /\ WindowRefused'
  BY <1>1, QueuesApart DEF IInv, Unseen, WindowRefused
<1> QED
  BY <1>2, <1>3, <1>4, <1>5, <1>6, <1>7, <1>8 DEF IInv

LEMMA ShmAttachStep ==
  ASSUME IInv, ShmAttach
  PROVE  IInv'
<1> USE DEF vars, main, server, verdicts, wire, ShmAttach, Stage
<1>1. /\ requests \in {<<>>, <<"map">>}
      /\ requests' \in (Leftovers \cap Attaching) \ {<<"map">>}
      /\ requests' \in Mapping <=> requests \in Mapping
  BY QueueGrows DEF IInv, QueueByStage
<1>2. /\ StageTyped' /\ FlagsTyped' /\ CountersTyped'
      /\ XErrorsOnlyEarly' /\ StaleOnce'
  BY DEF IInv, StageTyped, FlagsTyped, CountersTyped, XErrorsOnlyEarly,
    StaleOnce
<1>3. QueueByStage'
  BY <1>1, QueuesApart DEF IInv, QueueByStage
<1>4. EventsFit'
  BY <1>1 DEF IInv, EventsFit
<1>5. HeldByStage'
  BY DEF IInv, HeldByStage, AttachedUnlessRefused, StartupStages
<1>6. AttachSeen'
  BY <1>3, QueuesApart DEF IInv, CountersTyped, AttachSeen, QueueByStage,
    LoopStages, StartupStages
<1>7. AttachedUnlessRefused'
  BY <1>1 DEF IInv, AttachedUnlessRefused, StartupStages
<1>8. Unseen' /\ WindowRefused'
  BY <1>1 DEF IInv, Unseen, WindowRefused
<1> QED
  BY <1>2, <1>3, <1>4, <1>5, <1>6, <1>7, <1>8 DEF IInv

LEMMA FailStartupStep ==
  ASSUME IInv, FailStartup
  PROVE  IInv'
<1> USE DEF vars, main, server, verdicts, wire, FailStartup, Stage
<1>1. /\ FlagsTyped' /\ CountersTyped' /\ EventsFit'
      /\ XErrorsOnlyEarly' /\ StaleOnce'
  BY DEF IInv, FlagsTyped, CountersTyped, EventsFit, XErrorsOnlyEarly,
    StaleOnce
<1>2. StageTyped'
  BY DEF IInv, StageTyped, CleanupStages, Resources
<1>3. QueueByStage'
  BY QueuesApart DEF IInv, QueueByStage, LoopStages
<1>4. HeldByStage'
  BY DEF IInv, HeldByStage, AttachedUnlessRefused, LoopStages, Running,
    StartupStages
<1>5. AttachSeen'
  BY DEF IInv, AttachSeen, StartupStages
<1>6. AttachedUnlessRefused'
  BY DEF IInv, AttachedUnlessRefused, AttachSeen, LoopStages, Running,
    StartupStages
<1>7. Unseen' /\ WindowRefused'
  BY DEF IInv, Unseen, WindowRefused
<1> QED
  BY <1>1, <1>2, <1>3, <1>4, <1>5, <1>6, <1>7 DEF IInv

LEMMA LoopStep ==
  ASSUME IInv, LoopTest \/ StoreRedraw \/ Sync
  PROVE  IInv'
<1> USE DEF vars, main, server, verdicts, wire, LoopTest, StoreRedraw, Sync,
  ToLoopBranch, AfterEvent, ServerCaughtUp
<1>1. /\ FlagsTyped' /\ CountersTyped' /\ EventsFit'
      /\ XErrorsOnlyEarly' /\ StaleOnce'
  BY DEF IInv, FlagsTyped, CountersTyped, EventsFit, XErrorsOnlyEarly,
    StaleOnce
<1>2. StageTyped'
  BY DEF IInv, StageTyped, CleanupStages, Resources
<1>3. QueueByStage'
  BY QueuesApart DEF IInv, QueueByStage, LoopStages
<1>4. HeldByStage'
  BY DEF IInv, HeldByStage, AttachedUnlessRefused, LoopStages, Running,
    StartupStages
<1>5. AttachSeen'
  BY QueuesApart DEF IInv, AttachSeen, StartupStages
<1>6. AttachedUnlessRefused'
  BY DEF IInv, AttachedUnlessRefused, LoopStages, Running, StartupStages
<1>7. Unseen' /\ WindowRefused'
  BY DEF IInv, Unseen, WindowRefused
<1> QED
  BY <1>1, <1>2, <1>3, <1>4, <1>5, <1>6, <1>7 DEF IInv

LEMMA EventStep ==
  ASSUME IInv, HandleEvent
  PROVE  IInv'
<1> USE DEF vars, main, server, verdicts, wire, HandleEvent, AfterEvent
<1>1. FlagsTyped' /\ XErrorsOnlyEarly'
  BY DEF IInv, FlagsTyped, XErrorsOnlyEarly
<1>2. StageTyped'
  BY DEF IInv, StageTyped, CleanupStages, Resources
<1>3. CountersTyped'
  BY BoundsAssumption DEF IInv, CountersTyped
<1>4. QueueByStage'
  BY DEF IInv, QueueByStage, LoopStages
<1>5. EventsFit'
  BY BoundsAssumption DEF IInv, EventsFit
<1>6. HeldByStage'
  BY DEF IInv, HeldByStage, AttachedUnlessRefused, LoopStages, Running,
    StartupStages
<1>7. AttachSeen'
  BY DEF IInv, AttachSeen, StartupStages
<1>8. AttachedUnlessRefused'
  BY DEF IInv, AttachedUnlessRefused, LoopStages, Running, StartupStages
<1>9. StaleOnce'
  BY DEF IInv, StaleOnce, FlagsTyped, CountersTyped
<1>10. Unseen' /\ WindowRefused'
  BY DEF IInv, Unseen, WindowRefused
<1> QED
  BY <1>1, <1>2, <1>3, <1>4, <1>5, <1>6, <1>7, <1>8, <1>9, <1>10 DEF IInv

LEMMA StartFrameStep ==
  ASSUME IInv, StartFrame
  PROVE  IInv'
<1> USE DEF vars, main, server, verdicts, wire, StartFrame
<1>1. /\ StageTyped' /\ FlagsTyped' /\ EventsFit'
      /\ XErrorsOnlyEarly' /\ StaleOnce'
  BY DEF IInv, StageTyped, FlagsTyped, EventsFit, XErrorsOnlyEarly, StaleOnce
<1>2. CountersTyped'
  BY BoundsAssumption DEF IInv, CountersTyped
<1>3. QueueByStage'
  BY DEF IInv, QueueByStage, LoopStages
<1>4. HeldByStage'
  BY DEF IInv, HeldByStage, AttachedUnlessRefused, LoopStages, Running,
    StartupStages
<1>5. AttachSeen'
  BY BoundsAssumption DEF IInv, CountersTyped, AttachSeen, HeldByStage,
    LoopStages, Running, StartupStages
<1>6. AttachedUnlessRefused'
  BY DEF IInv, AttachedUnlessRefused, LoopStages, Running, StartupStages
<1>7. Unseen' /\ WindowRefused'
  BY DEF IInv, Unseen, WindowRefused
<1> QED
  BY <1>1, <1>2, <1>3, <1>4, <1>5, <1>6, <1>7 DEF IInv

LEMMA PutImageStep ==
  ASSUME IInv, PutImage
  PROVE  IInv'
<1> USE DEF vars, main, server, verdicts, wire, PutImage
<1>1. /\ requests \in Leftovers \ {<<"map">>} /\ requests' \in Drawn
      /\ requests' \in Mapping <=> requests \in Mapping
      /\ requests' \in Attaching <=> requests \in Attaching
  BY QueueGrows DEF IInv, QueueByStage
<1>2. /\ StageTyped' /\ FlagsTyped' /\ CountersTyped'
      /\ XErrorsOnlyEarly' /\ StaleOnce'
  BY DEF IInv, StageTyped, FlagsTyped, CountersTyped, XErrorsOnlyEarly,
    StaleOnce
<1>3. QueueByStage'
  BY <1>1, QueuesApart DEF IInv, QueueByStage, LoopStages
<1>4. EventsFit'
  BY <1>1 DEF IInv, EventsFit
<1>5. HeldByStage'
  BY DEF IInv, HeldByStage, AttachedUnlessRefused, Running, StartupStages
<1>6. AttachSeen'
  BY DEF IInv, AttachSeen, HeldByStage, Running, StartupStages
<1>7. AttachedUnlessRefused'
  BY <1>1 DEF IInv, AttachedUnlessRefused, Running, StartupStages
<1>8. Unseen' /\ WindowRefused'
  BY <1>1 DEF IInv, Unseen, WindowRefused
<1> QED
  BY <1>2, <1>3, <1>4, <1>5, <1>6, <1>7, <1>8 DEF IInv

LEMMA DetachStep ==
  ASSUME IInv, ShmDetach
  PROVE  IInv'
<1> USE DEF vars, main, server, verdicts, wire, ShmDetach
<1>1. /\ requests \in Leftovers /\ requests' \in Leftovers \cup Closing
      /\ requests' # requests => requests' \in Closing
      /\ requests' \in Mapping <=> requests \in Mapping
      /\ requests' \in Attaching <=> requests \in Attaching
  <2>1. requests \in Leftovers
    BY DEF IInv, QueueByStage
  <2>2. requests' = requests \/ requests' = Append(requests, "detach")
    OBVIOUS
  <2>3. CASE requests' = requests
    BY <2>1, <2>3
  <2>4. CASE requests' = Append(requests, "detach")
    BY <2>1, <2>4, QueueGrows
  <2> QED
    BY <2>2, <2>3, <2>4
<1>2. FlagsTyped' /\ CountersTyped' /\ XErrorsOnlyEarly' /\ StaleOnce'
  BY DEF IInv, FlagsTyped, CountersTyped, XErrorsOnlyEarly, StaleOnce
<1>3. StageTyped'
  BY DEF IInv, StageTyped, CleanupStages, Resources
<1>4. QueueByStage'
  BY <1>1, QueuesApart DEF IInv, QueueByStage, LoopStages
<1>5. EventsFit'
  BY <1>1 DEF IInv, EventsFit
<1>6. HeldByStage'
  BY DEF IInv, HeldByStage, AttachedUnlessRefused, LoopStages, Running,
    StartupStages
<1>7. AttachSeen'
  BY <1>1, QueuesApart DEF IInv, AttachSeen, StartupStages
<1>8. AttachedUnlessRefused'
  BY <1>1, QueuesApart DEF IInv, AttachedUnlessRefused, LoopStages, Running,
    StartupStages
<1>9. Unseen' /\ WindowRefused'
  BY <1>1 DEF IInv, Unseen, WindowRefused
<1> QED
  BY <1>2, <1>3, <1>4, <1>5, <1>6, <1>7, <1>8, <1>9 DEF IInv

LEMMA ShmDtStep ==
  ASSUME IInv, ShmDt
  PROVE  IInv'
<1> USE DEF vars, main, server, verdicts, wire, ShmDt
<1>1. /\ FlagsTyped' /\ CountersTyped' /\ EventsFit'
      /\ XErrorsOnlyEarly' /\ StaleOnce'
  BY DEF IInv, FlagsTyped, CountersTyped, EventsFit, XErrorsOnlyEarly,
    StaleOnce
<1>2. StageTyped'
  BY DEF IInv, StageTyped, CleanupStages, Resources
<1>3. QueueByStage'
  BY DEF IInv, QueueByStage, LoopStages
<1>4. HeldByStage'
  BY DEF IInv, HeldByStage, LoopStages, Running
<1>5. AttachSeen'
  BY DEF IInv, AttachSeen, StartupStages
<1>6. AttachedUnlessRefused'
  BY DEF IInv, AttachedUnlessRefused, LoopStages, Running, StartupStages
<1>7. Unseen' /\ WindowRefused'
  BY DEF IInv, Unseen, WindowRefused
<1> QED
  BY <1>1, <1>2, <1>3, <1>4, <1>5, <1>6, <1>7 DEF IInv

LEMMA RemoveStep ==
  ASSUME IInv, RemoveSegment
  PROVE  IInv'
<1> USE DEF vars, main, server, verdicts, wire, RemoveSegment
<1>1. /\ FlagsTyped' /\ CountersTyped' /\ EventsFit'
      /\ XErrorsOnlyEarly' /\ StaleOnce'
  BY DEF IInv, FlagsTyped, CountersTyped, EventsFit, XErrorsOnlyEarly,
    StaleOnce
<1>2. StageTyped'
  BY DEF IInv, StageTyped, CleanupStages, Resources
<1>3. QueueByStage'
  BY DEF IInv, QueueByStage, LoopStages
<1>4. HeldByStage'
  BY DEF IInv, HeldByStage, LoopStages, Running
<1>5. AttachSeen'
  BY DEF IInv, AttachSeen, StartupStages
<1>6. AttachedUnlessRefused'
  BY DEF IInv, AttachedUnlessRefused, LoopStages, Running, StartupStages
<1>7. Unseen' /\ WindowRefused'
  BY DEF IInv, Unseen, WindowRefused
<1> QED
  BY <1>1, <1>2, <1>3, <1>4, <1>5, <1>6, <1>7 DEF IInv

LEMMA CloseDisplayStep ==
  ASSUME IInv, CloseDisplay
  PROVE  IInv'
<1> USE DEF vars, main, server, verdicts, wire, CloseDisplay, ServerCaughtUp
<1>1. /\ StageTyped' /\ FlagsTyped' /\ CountersTyped'
      /\ EventsFit' /\ XErrorsOnlyEarly' /\ StaleOnce'
  BY DEF IInv, StageTyped, FlagsTyped, CountersTyped, EventsFit,
    XErrorsOnlyEarly, StaleOnce
<1>2. QueueByStage'
  BY DEF IInv, QueueByStage, LoopStages
<1>3. HeldByStage'
  BY DEF IInv, HeldByStage, LoopStages, Running
<1>4. AttachSeen'
  BY DEF IInv, AttachSeen, StartupStages
<1>5. AttachedUnlessRefused'
  BY DEF IInv, AttachedUnlessRefused, LoopStages, Running, StartupStages
<1>6. Unseen' /\ WindowRefused'
  BY DEF IInv, Unseen, WindowRefused
<1> QED
  BY <1>1, <1>2, <1>3, <1>4, <1>5, <1>6 DEF IInv

LEMMA XErrorStep ==
  ASSUME IInv, XErrorExit
  PROVE  IInv'
<1> USE DEF vars, main, server, verdicts, wire, XErrorExit, ExitInXlib
<1>1. /\ StageTyped' /\ FlagsTyped' /\ CountersTyped'
      /\ EventsFit' /\ XErrorsOnlyEarly' /\ StaleOnce'
  BY DEF IInv, StageTyped, FlagsTyped, CountersTyped, EventsFit,
    XErrorsOnlyEarly, StaleOnce
<1>2. QueueByStage'
  BY DEF IInv, QueueByStage, LoopStages
<1>3. HeldByStage'
  BY DEF IInv, HeldByStage, AttachedUnlessRefused, LoopStages, Running
<1>4. AttachSeen'
  BY DEF IInv, AttachSeen, StartupStages
<1>5. AttachedUnlessRefused'
  BY DEF IInv, AttachedUnlessRefused, LoopStages, Running, StartupStages
<1>6. Unseen' /\ WindowRefused'
  BY DEF IInv, Unseen, WindowRefused
<1> QED
  BY <1>1, <1>2, <1>3, <1>4, <1>5, <1>6 DEF IInv

LEMMA ServeMapStep ==
  ASSUME IInv, ServeMap
  PROVE  IInv'
<1> USE DEF vars, main, server, verdicts, wire, ServeMap, Serve
<1>1. /\ requests \in Queues \cap Mapping /\ requests' \in Queues \ Mapping
      /\ requests \in Leftovers => requests' \in Leftovers \ {<<"map">>}
      /\ requests \in Drawn => requests' \in Drawn
      /\ requests \in Closing => requests' \in Closing
      /\ requests' \in Attaching <=> requests \in Attaching
      /\ requests = <<"map">> => requests' = <<>>
  BY QueueShrinks, QueueTails DEF IInv, QueueByStage
<1>2. StageTyped' /\ CountersTyped' /\ HeldByStage' /\ StaleOnce'
  BY DEF IInv, StageTyped, CountersTyped, HeldByStage, StaleOnce
<1>3. QueueByStage'
  BY <1>1 DEF IInv, QueueByStage
<1>4. EventsFit'
  <2>1. events = <<>> /\ events' \in {<<>>, Append(<<>>, "Map")}
    BY <1>1 DEF IInv, Unseen
  <2>2. <<>> \in Seq(EventNames) /\ Len(<<>>) = 0 /\ "Map" \in EventNames
    BY DEF EventNames
  <2>3. Append(<<>>, "Map") \in Seq(EventNames) /\ Len(Append(<<>>, "Map")) = 1
    BY <2>2, EventAdded
  <2>4. events' \in Seq(EventNames) /\ Len(events') \in {0, 1}
    BY <2>1, <2>2, <2>3
  <2> HIDE DEF ServeMap, Serve
  <2> QED
    BY <2>4, BoundsAssumption DEF EventsFit
<1>5. AttachSeen'
  BY <1>1, QueuesApart DEF IInv, AttachSeen
<1>6. AttachedUnlessRefused'
  BY <1>1, QueuesApart DEF IInv, AttachedUnlessRefused
<1>7. Unseen' /\ WindowRefused'
  BY <1>1, QueuesApart DEF IInv, Unseen, WindowRefused, QueueByStage
<1>8. XErrorsOnlyEarly'
  BY <1>1 DEF IInv, XErrorsOnlyEarly, Unseen
<1>9. FlagsTyped'
  <2>1. winMapped' \in BOOLEAN /\ noWindow' \in BOOLEAN /\ xerror' \in BOOLEAN
    BY DEF IInv, FlagsTyped
  <2> QED
    BY <2>1 DEF IInv, FlagsTyped
<1> QED
  BY <1>2, <1>3, <1>4, <1>5, <1>6, <1>7, <1>8, <1>9 DEF IInv

LEMMA ServeAttachStep ==
  ASSUME IInv, ServeAttach
  PROVE  IInv'
<1> USE DEF vars, main, server, verdicts, wire, ServeAttach, Serve, SegmentAlive
<1>1. /\ requests \in Attaching \ Mapping
      /\ requests' \in Queues \ (Mapping \cup Attaching)
      /\ requests \in Leftovers => requests' \in Leftovers \ {<<"map">>}
      /\ requests \in Drawn => requests' \in Drawn
      /\ requests \in Closing => requests' \in Closing
  BY QueueShrinks DEF IInv, QueueByStage
<1>2. /\ pc \in Running \/ frames > 0 => SegmentAlive
      /\ SegmentAlive => srvAttached' \/ refused'
      /\ ~SegmentAlive => ~refused' /\ xerror'
  BY <1>1 DEF IInv, HeldByStage, AttachSeen, Running, LoopStages
<1>3. xerror' /\ ~refused' => (xerror /\ ~refused) \/ ~SegmentAlive
  OBVIOUS
<1>4. StageTyped' /\ CountersTyped' /\ StaleOnce'
  BY DEF IInv, StageTyped, CountersTyped, StaleOnce
<1>5. QueueByStage'
  BY <1>1, <1>2, <1>3 DEF IInv, QueueByStage
<1>6. EventsFit'
  BY <1>1, <1>2, <1>3 DEF IInv, EventsFit
<1>7. HeldByStage'
  BY DEF IInv, FlagsTyped, CountersTyped, HeldByStage, AttachedUnlessRefused
<1>8. AttachSeen'
  BY <1>1, <1>2, <1>3, QueuesApart DEF IInv, AttachSeen, QueueByStage
<1>9. AttachedUnlessRefused'
  BY <1>1, <1>2, <1>3, QueuesApart DEF IInv, AttachedUnlessRefused,
    QueueByStage, AttachSeen, StartupStages
<1>10. XErrorsOnlyEarly'
  BY <1>1, <1>2, <1>3 DEF IInv, CountersTyped, XErrorsOnlyEarly,
    AttachedUnlessRefused
<1>11. Unseen' /\ WindowRefused'
  BY <1>1 DEF IInv, Unseen, WindowRefused
<1>12. FlagsTyped'
  BY Zenon DEF IInv, FlagsTyped
<1> QED
  BY <1>4, <1>5, <1>6, <1>7, <1>8, <1>9, <1>10, <1>11, <1>12 DEF IInv

LEMMA ServePutStep ==
  ASSUME IInv, ServePut
  PROVE  IInv'
<1> USE DEF vars, main, server, verdicts, wire, ServePut, Serve
<1>1. /\ requests = <<"put">> /\ requests' \in {<<>>, <<"put">>}
      /\ srvAttached \/ requests' = <<>>
  BY QueueShrinks DEF IInv, QueueByStage
<1>2. StageTyped' /\ CountersTyped' /\ HeldByStage' /\ StaleOnce'
  BY DEF IInv, StageTyped, CountersTyped, HeldByStage, StaleOnce
<1>3. FlagsTyped'
  BY DEF IInv, FlagsTyped
<1>4. QueueByStage'
  BY <1>1, QueuesApart DEF IInv, QueueByStage
<1>5. EventsFit'
  BY <1>1, QueuesApart DEF IInv, EventsFit
<1>6. AttachSeen'
  BY <1>1, QueuesApart DEF IInv, AttachSeen
<1>7. AttachedUnlessRefused'
  BY <1>1, QueuesApart DEF IInv, AttachedUnlessRefused
<1>8. XErrorsOnlyEarly'
  BY <1>1, QueuesApart DEF IInv, XErrorsOnlyEarly, AttachedUnlessRefused
<1>9. Unseen' /\ WindowRefused'
  BY <1>1, QueuesApart DEF IInv, Unseen, WindowRefused
<1> QED
  BY <1>2, <1>3, <1>4, <1>5, <1>6, <1>7, <1>8, <1>9 DEF IInv

LEMMA FinishPutStep ==
  ASSUME IInv, FinishPut
  PROVE  IInv'
<1> USE DEF vars, main, server, verdicts, wire, FinishPut
<1>1. requests = <<"put">> /\ requests' = <<>>
  BY QueueTails DEF IInv, QueueByStage
<1>2. /\ StageTyped' /\ CountersTyped' /\ HeldByStage'
      /\ XErrorsOnlyEarly' /\ StaleOnce'
  BY DEF IInv, StageTyped, CountersTyped, HeldByStage, XErrorsOnlyEarly,
    StaleOnce
<1>3. FlagsTyped'
  BY DEF IInv, FlagsTyped
<1>4. QueueByStage'
  BY <1>1, QueuesApart DEF IInv, QueueByStage
<1>5. EventsFit'
  BY <1>1, QueuesApart DEF IInv, EventsFit
<1>6. AttachSeen'
  BY <1>1, QueuesApart DEF IInv, AttachSeen
<1>7. AttachedUnlessRefused'
  BY <1>1, QueuesApart DEF IInv, AttachedUnlessRefused
<1>8. Unseen' /\ WindowRefused'
  BY <1>1, QueuesApart DEF IInv, Unseen, WindowRefused
<1> QED
  BY <1>2, <1>3, <1>4, <1>5, <1>6, <1>7, <1>8 DEF IInv

LEMMA ServeDetachStep ==
  ASSUME IInv, ServeDetach
  PROVE  IInv'
<1> USE DEF vars, main, server, verdicts, wire, ServeDetach, Serve
<1>1. requests = <<"detach">> /\ requests' = <<>>
  BY QueueShrinks DEF IInv, QueueByStage
<1>2. xerror' => xerror \/ ~srvAttached
  OBVIOUS
<1>3. StageTyped' /\ CountersTyped' /\ HeldByStage' /\ StaleOnce'
  BY DEF IInv, StageTyped, CountersTyped, HeldByStage, StaleOnce
<1>4. FlagsTyped'
  BY DEF IInv, FlagsTyped
<1>5. QueueByStage'
  BY <1>1, <1>2, QueuesApart DEF IInv, QueueByStage
<1>6. EventsFit'
  BY <1>1, <1>2, QueuesApart DEF IInv, EventsFit
<1>7. AttachSeen'
  BY <1>1, <1>2, QueuesApart DEF IInv, AttachSeen
<1>8. AttachedUnlessRefused'
  BY <1>1, <1>2, QueuesApart DEF IInv, AttachedUnlessRefused, QueueByStage,
    Running, StartupStages
<1>9. XErrorsOnlyEarly'
  BY <1>1, <1>2, QueuesApart DEF IInv, CountersTyped, XErrorsOnlyEarly,
    AttachedUnlessRefused
<1>10. Unseen' /\ WindowRefused'
  BY <1>1, QueuesApart DEF IInv, Unseen, WindowRefused
<1> QED
  BY <1>3, <1>4, <1>5, <1>6, <1>7, <1>8, <1>9, <1>10 DEF IInv

LEMMA CloseDownStep ==
  ASSUME IInv, CloseDown
  PROVE  IInv'
<1> USE DEF vars, main, server, verdicts, wire, CloseDown
<1>1. /\ StageTyped' /\ FlagsTyped' /\ CountersTyped'
      /\ XErrorsOnlyEarly' /\ StaleOnce'
  BY DEF IInv, StageTyped, FlagsTyped, CountersTyped, XErrorsOnlyEarly,
    StaleOnce
<1>2. QueueByStage'
  BY QueuesApart DEF IInv, QueueByStage
<1>3. EventsFit'
  BY BoundsAssumption DEF IInv, EventsFit
<1>4. HeldByStage'
  BY DEF IInv, HeldByStage, LoopStages, Running
<1>5. AttachSeen'
  BY QueuesApart DEF IInv, AttachSeen, StartupStages
<1>6. AttachedUnlessRefused'
  BY QueuesApart DEF IInv, AttachedUnlessRefused, LoopStages, Running,
    StartupStages
<1>7. Unseen' /\ WindowRefused'
  BY QueuesApart DEF IInv, Unseen, WindowRefused
<1> QED
  BY <1>1, <1>2, <1>3, <1>4, <1>5, <1>6, <1>7 DEF IInv

LEMMA SendKeeps ==
  ASSUME EventsFit, NEW e \in EventNames, SendEvent(e)
  PROVE  EventsFit'
<1>1. /\ events \in Seq(EventNames) /\ Len(events) < MaxEvents
      /\ events' = Append(events, e)
  BY DEF EventsFit, SendEvent
<1>2. events' \in Seq(EventNames) /\ Len(events') = Len(events) + 1
  BY <1>1, EventAdded
<1>3. Len(events') <= MaxEvents
  BY <1>1, <1>2, LenProperties, BoundsAssumption
<1> QED
  BY <1>2, <1>3 DEF EventsFit

(* A window that is managed has been served. *)
LEMMA ManagedSeen ==
  ASSUME IInv, Managed
  PROVE  requests \notin Mapping /\ ~noWindow /\ pc \notin {"display", "shmext", "window"}
<1>1. ASSUME requests \in Mapping PROVE FALSE
  <2>1. 1 \in DOMAIN requests /\ requests[1] = "map"
    BY <1>1 DEF Mapping
  <2> QED
    BY <2>1 DEF Managed
<1> QED
  BY <1>1 DEF IInv, Managed, HeldByStage

LEMMA UserStep ==
  ASSUME IInv, User \/ sig \/ Done \/ UNCHANGED vars
  PROVE  IInv'
<1> USE DEF vars, main, server, verdicts, wire, User, Iconify, Restore, UserEvent,
  SendEvent, sig, Done
<1>1. /\ StageTyped' /\ CountersTyped' /\ QueueByStage'
      /\ HeldByStage' /\ AttachSeen' /\ AttachedUnlessRefused'
      /\ XErrorsOnlyEarly' /\ StaleOnce' /\ WindowRefused'
  BY DEF IInv, StageTyped, CountersTyped, QueueByStage, HeldByStage,
    AttachSeen, AttachedUnlessRefused, XErrorsOnlyEarly, StaleOnce, WindowRefused
<1>2. FlagsTyped'
  <2>1. winMapped' \in BOOLEAN /\ quit' \in BOOLEAN
    BY DEF IInv, FlagsTyped
  <2> QED
    BY <2>1 DEF IInv, FlagsTyped
<1>3. EventsFit' /\ Unseen'
  <2> HIDE DEF Iconify, Restore, UserEvent, SendEvent
  <2>1. ASSUME NEW e \in EventNames, SendEvent(e)
        PROVE  EventsFit'
    BY <2>1, SendKeeps DEF IInv
  <2>2. CASE Iconify \/ Restore \/ UserEvent
    <3>1. /\ winMapped \/ Managed
          /\ \E e \in EventNames : SendEvent(e)
      BY <2>2 DEF Iconify, Restore, UserEvent, EventNames
    <3>2. UNCHANGED <<main, requests, noWindow>>
      BY <3>1 DEF SendEvent
    <3>3. ~(requests \in Mapping \/ noWindow \/ pc \in {"display", "shmext", "window"})
      BY <3>1, ManagedSeen DEF IInv, Unseen
    <3> QED
      BY <2>1, <3>1, <3>2, <3>3 DEF Unseen
  <2>3. CASE sig \/ Done \/ UNCHANGED vars
    BY <2>3 DEF IInv, EventsFit, Unseen
  <2> QED
    BY <2>2, <2>3
<1> QED
  BY <1>1, <1>2, <1>3 DEF IInv

(* The error handlers of Xlib. *)
LEMMA ConnectionLostStep ==
  ASSUME IInv, ConnectionLost
  PROVE  IInv'
<1> USE DEF vars, main, wire, ConnectionLost, ExitInXlib, XlibStages
<1>1. /\ StageTyped' /\ FlagsTyped' /\ CountersTyped'
      /\ EventsFit' /\ XErrorsOnlyEarly' /\ StaleOnce'
  BY DEF IInv, StageTyped, FlagsTyped, CountersTyped, EventsFit,
    XErrorsOnlyEarly, StaleOnce
<1>2. QueueByStage'
  BY DEF IInv, QueueByStage, LoopStages
<1>3. HeldByStage'
  BY DEF IInv, HeldByStage, LoopStages, Running
<1>4. AttachSeen'
  BY QueuesApart DEF IInv, AttachSeen, StartupStages
<1>5. AttachedUnlessRefused'
  BY DEF IInv, AttachedUnlessRefused, LoopStages, Running, StartupStages
<1>6. Unseen' /\ WindowRefused'
  BY DEF IInv, Unseen, WindowRefused
<1> QED
  BY <1>1, <1>2, <1>3, <1>4, <1>5, <1>6 DEF IInv

LEMMA NextInv == IInv /\ [Next]_vars => IInv'
<1> SUFFICES ASSUME IInv, [Next]_vars PROVE IInv'
  OBVIOUS
<1>1. CASE Startup
  BY <1>1, StartupStep, CreateWindowStep, ShmAttachStep, FailStartupStep DEF Startup
<1>2. CASE LoopTest \/ HandleEvent \/ StoreRedraw \/ StartFrame \/ PutImage \/ Sync
  BY <1>2, LoopStep, EventStep, StartFrameStep, PutImageStep
<1>3. CASE ShmDetach \/ ShmDt \/ RemoveSegment \/ CloseDisplay \/ XErrorExit
  BY <1>3, DetachStep, ShmDtStep, RemoveStep, CloseDisplayStep, XErrorStep
<1>4. CASE Server
  BY <1>4, ServeMapStep, ServeAttachStep, ServePutStep, FinishPutStep,
    ServeDetachStep, CloseDownStep DEF Server
<1>5. CASE User \/ sig \/ ConnectionLost \/ Done \/ UNCHANGED vars
  BY <1>5, UserStep, ConnectionLostStep
<1> QED
  BY <1>1, <1>2, <1>3, <1>4, <1>5 DEF Next, Main

LEMMA Invariant == Spec => []IInv
BY InitInv, NextInv, PTL DEF Spec

-----------------------------------------------------------------------------
(* Every variable of the driver has its type; in particular never more than *)
(* three requests are queued.                                               *)
THEOREM X11Types == Spec => []TypeOK
BY Invariant, TypesFollow, PTL

(* XSync keeps redraw() and the server's reading of the image apart: no     *)
(* XShmPutImage is queued or in progress while main is in the loop.         *)
THEOREM FramesDoNotTear == Spec => []NoTearing
<1>1. IInv => NoTearing
  <2> SUFFICES ASSUME IInv, pc = "draw"
               PROVE  ~reading /\ "put" \notin {requests[i] : i \in DOMAIN requests}
    BY DEF NoTearing
  <2>1. requests \in {<<>>, <<"map", "attach">>, <<"attach">>}
    BY DEF IInv, QueueByStage, Leftovers
  <2>2. ~reading
    BY <2>1, QueuesDiffer DEF IInv, QueueByStage
  <2>3. CASE requests = <<>>
    BY <2>2, <2>3
  <2>4. CASE requests = <<"map", "attach">>
    BY <2>2, <2>4
  <2>5. CASE requests = <<"attach">>
    BY <2>2, <2>5
  <2> QED
    BY <2>1, <2>3, <2>4, <2>5
<1> QED
  BY <1>1, Invariant, PTL

(* mapped, read once before each drain loop, is out of date for at most one *)
(* frame: the loop comes back to the test before it draws another.          *)
THEOREM StaleForOneFrame == Spec => []OneFrameAfterUnmap
<1>1. IInv => OneFrameAfterUnmap
  BY DEF IInv, StaleOnce, OneFrameAfterUnmap
<1> QED
  BY <1>1, Invariant, PTL

(* No X error comes once a frame has been drawn, unless the server refused  *)
(* to attach the segment: a refused window is never mapped, so no frame is  *)
(* drawn for it, and the first XSync has seen the attach executed.          *)
THEOREM XErrorsOnlyAtStartup == Spec => []XErrorsOnlyEarly
<1>1. IInv => XErrorsOnlyEarly
  BY DEF IInv
<1> QED
  BY <1>1, Invariant, PTL

(* The segment goes with the process, by every failure of the startup and   *)
(* every way to quit.  What leaves it are the exits of Xlib's own handlers: *)
(* the server refused the window or the segment, or the connection broke.   *)
THEOREM SegmentGoesWithProcess == Spec => []SegmentReleased
<1>1. IInv => SegmentReleased
  BY DEF IInv, QueueByStage, HeldByStage, SegmentReleased, SegmentAlive
<1> QED
  BY <1>1, Invariant, PTL
=============================================================================
