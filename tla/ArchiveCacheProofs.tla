------------------------- MODULE ArchiveCacheProofs -------------------------
(***************************************************************************)
(* Proofs about ArchiveCache, for any number of requests, collectors and   *)
(* builds, any tree of parents and any number of faults.                   *)
(***************************************************************************)
EXTENDS ArchiveCache, FiniteSetTheorems, TLAPS

-----------------------------------------------------------------------------
(* Types *)

\* A step that changes the frame of one request or of one collector.
Others(r) == \A q \in Requests \ {r} : request'[q] = request[q]
OtherCollectors(g) == \A h \in Collectors \ {g} : collector'[h] = collector[h]

Placed(r) ==
    LET f == request[r] IN
    /\ f.pc \notin {"idle", "publish"} => f.build \in Builds
    /\ f.pc \in {"collect", "replay"} => f.oldest \in Builds
    /\ f.pc \in {"publish", "materialize"} => f.child # None
    /\ f.pc = "record" => f.path # 0

TypeInv ==
    /\ TypeOK
    /\ \A r \in Requests : Placed(r)
    /\ \A g \in Collectors : collector[g].pc # "idle" => collector[g].build \in Builds

LEMMA FramesAre ==
    /\ Builds \subseteq Nat /\ None \notin Builds /\ NoRow \in Row
    /\ Free \in RequestFrame /\ Free.pc = "idle" /\ Free.child = None
    /\ Rest \in CollectFrame /\ Rest.pc = "idle"
BY CacheBounds
   DEF Builds, None, NoRow, Row, RowStates, Paths, Free, RequestFrame, RequestPcs, Rest,
       CollectFrame, CollectPcs

LEMMA FrameUpdate ==
    ASSUME TypeOK, NEW r \in Requests, NEW f \in RequestFrame, request' = [request EXCEPT ![r] = f]
    PROVE  request' \in [Requests -> RequestFrame] /\ request'[r] = f /\ Others(r)
BY DEF TypeOK, Others

LEMMA CollectUpdate ==
    ASSUME TypeOK, NEW g \in Collectors, NEW f \in CollectFrame,
           collector' = [collector EXCEPT ![g] = f]
    PROVE  collector' \in [Collectors -> CollectFrame] /\ collector'[g] = f /\ OtherCollectors(g)
BY DEF TypeOK, OtherCollectors

LEMMA TypeInit == Init => TypeInv
<1> SUFFICES ASSUME Init PROVE TypeInv
  OBVIOUS
<1>0. 1 \in Paths
  BY CacheBounds DEF Paths
<1>1. [NoRow EXCEPT !.state = "uploaded", !.path = 1] \in Row
  BY <1>0 DEF NoRow, Row, RowStates
<1>2. 1 \in Builds /\ <<1, 1>> \in Builds \X (1 .. MaxObjects)
  BY CacheBounds DEF Builds
<1>3. row \in [Builds -> Row]
  BY <1>1, FramesAre DEF Init
<1>4. TypeOK
  BY <1>2, <1>3, FramesAre, CacheBounds DEF Init, TypeOK
<1> QED BY <1>4, FramesAre DEF TypeInv, Placed, Init

-----------------------------------------------------------------------------
(* What the actions do to a frame *)

\* The frame of r keeps its build and its push.
Becomes(r, pc, copy, was, path) ==
    LET e == request[r] f == request'[r] IN
    /\ request' \in [Requests -> RequestFrame] /\ Others(r)
    /\ f.build = e.build /\ f.child = e.child
    /\ f.pc = pc /\ f.copy = copy /\ f.was = was /\ f.path = path

Moves(r, pc) ==
    LET e == request[r] f == request'[r] IN
    Becomes(r, pc, e.copy, e.was, e.path) /\ f.oldest = e.oldest /\ f.locked = e.locked

Leaves(r) ==
    /\ request' \in [Requests -> RequestFrame] /\ Others(r) /\ request'[r] = Free

LEMMA GotoMoves ==
    ASSUME TypeOK, NEW r \in Requests, NEW pc \in RequestPcs, Goto(r, pc)
    PROVE  Moves(r, pc)
<1> DEFINE f == [request[r] EXCEPT !.pc = pc]
<1>1. request' = [request EXCEPT ![r] = f]
  BY DEF Goto
<1>2. request[r] \in RequestFrame
  BY DEF TypeOK
<1>3. f \in RequestFrame
  BY <1>2 DEF RequestFrame
<1>4. /\ f.build = request[r].build /\ f.child = request[r].child /\ f.pc = pc
      /\ f.copy = request[r].copy /\ f.was = request[r].was /\ f.path = request[r].path
      /\ f.oldest = request[r].oldest /\ f.locked = request[r].locked
  BY <1>2 DEF RequestFrame
<1>5. request' \in [Requests -> RequestFrame] /\ request'[r] = f /\ Others(r)
  BY <1>1, <1>3, FrameUpdate
<1> HIDE DEF f
<1> QED BY <1>4, <1>5 DEF Moves, Becomes

LEMMA FreeLeaves ==
    ASSUME TypeOK, NEW r \in Requests, request' = [request EXCEPT ![r] = Free]
    PROVE  Leaves(r)
BY FramesAre, FrameUpdate DEF Leaves

\* A push that fails takes its build with it.
Fails(r) ==
    /\ Leaves(r)
    /\ build' \in [Builds -> {"started", "completed", "failed"}]
    /\ \A b \in Builds : b # request[r].child => build'[b] = build[b]

LEMMA FailFails == ASSUME TypeOK, NEW r \in Requests, Fail(r) PROVE Fails(r)
<1>1. Leaves(r)
  BY FreeLeaves DEF Fail
<1>2. /\ build' \in [Builds -> {"started", "completed", "failed"}]
      /\ \A b \in Builds : b # request[r].child => build'[b] = build[b]
  BY DEF Fail, TypeOK
<1> QED BY <1>1, <1>2 DEF Fails

LEMMA UnlockedTypes ==
    ASSUME TypeOK, NEW p, NEW b
    PROVE  Unlocked(p, b) \in [Builds -> SUBSET (Requests \cup Collectors)]
BY DEF TypeOK, Unlocked

LEMMA FaultTypes ==
    ASSUME TypeOK, Fault \/ UNCHANGED faults PROVE faults' \in 0 .. MaxFaults
BY CacheBounds DEF TypeOK, Fault

Tables == <<build, stored, head, row, fresh, objects>>

LEMMA DownloadDoes ==
    ASSUME TypeInv, NEW r \in Requests, NEW b \in Builds, Download(r, b) \/ Push(r, b)
    PROVE  LET f == request'[r] IN
           /\ UNCHANGED <<Tables, lock, collector, faults>> /\ request[r].pc = "idle"
           /\ request' \in [Requests -> RequestFrame] /\ Others(r)
           /\ f.pc = "ensure" => f.build \in Builds
           /\ f.pc \in {"ensure", "publish"} /\ ~f.locked /\ f.path = 0 /\ f.copy = NoRow
           /\ f.pc = "publish" => f.child # None
           /\ f.child # None => /\ f.child \in Builds /\ build[f.child] = "started"
                                /\ \A q \in Requests : request[q].child # f.child
<1>1. CASE Download(r, b)
  <2> DEFINE f == [Free EXCEPT !.pc = "ensure", !.build = b]
  <2>1. f \in RequestFrame /\ f.pc = "ensure" /\ f.build = b /\ ~f.locked /\ f.path = 0
        /\ f.copy = NoRow /\ f.child = None
    BY FramesAre DEF RequestFrame, RequestPcs, Free
  <2>2. request' \in [Requests -> RequestFrame] /\ request'[r] = f /\ Others(r)
    BY <1>1, <2>1, FrameUpdate DEF Download, TypeInv
  <2> QED BY <1>1, <2>1, <2>2 DEF Download, Tables
<1>2. CASE Push(r, b)
  <2> DEFINE pc == IF Parent[b] = None THEN "publish" ELSE "ensure"
             f == [Free EXCEPT !.pc = pc, !.build = Parent[b], !.child = b]
  <2>1. Parent[b] \in Builds \cup {None} /\ pc \in RequestPcs
    BY ParentAssumption DEF RequestPcs
  <2>2. f \in RequestFrame /\ f.pc = pc /\ f.build = Parent[b] /\ ~f.locked /\ f.path = 0
        /\ f.copy = NoRow /\ f.child = b
    BY <2>1, FramesAre DEF RequestFrame, Free
  <2>3. request' \in [Requests -> RequestFrame] /\ request'[r] = f /\ Others(r)
    BY <1>2, <2>2, FrameUpdate DEF Push, TypeInv
  <2>4. build[b] = "started" /\ \A q \in Requests : request[q].child # b
    BY <1>2 DEF Push
  <2>5. UNCHANGED <<Tables, lock, collector, faults>> /\ request[r].pc = "idle"
    BY <1>2 DEF Push, Tables
  <2>6. b # None
    BY FramesAre
  <2>7. (pc = "ensure" => Parent[b] \in Builds) /\ pc \in {"ensure", "publish"}
    BY <2>1
  <2> HIDE DEF f, pc
  <2> QED BY <2>2, <2>3, <2>4, <2>5, <2>6, <2>7
<1> QED BY <1>1, <1>2

LEMMA EnsureDoes ==
    ASSUME TypeInv, NEW r \in Requests, Ensure(r)
    PROVE  /\ UNCHANGED <<Tables, lock, collector>> /\ (Fault \/ UNCHANGED faults)
           /\ request[r].pc = "ensure" /\ request[r].build \in Builds
           /\ \/ /\ Warm(request[r].build)
                 /\ Becomes(r, "touch", request[r].copy, request[r].was, row[request[r].build].path)
              \/ Moves(r, IF request[r].locked THEN "begin" ELSE "lock")
<1> DEFINE b == request[r].build
<1>1. request[r].pc = "ensure" /\ b \in Builds /\ row[b].path \in Paths /\ request[r] \in RequestFrame
  BY DEF TypeInv, TypeOK, Placed, Ensure, Row
<1>2. ASSUME Warm(b), request' = [request EXCEPT ![r].pc = "touch", ![r].path = row[b].path]
      PROVE  Becomes(r, "touch", request[r].copy, request[r].was, row[b].path)
  <2> DEFINE f == [request[r] EXCEPT !.pc = "touch", !.path = row[b].path]
  <2>1. request' = [request EXCEPT ![r] = f]
    BY <1>2
  <2>2. f \in RequestFrame
    BY <1>1 DEF RequestFrame, RequestPcs
  <2>3. /\ f.build = b /\ f.child = request[r].child /\ f.pc = "touch" /\ f.path = row[b].path
        /\ f.copy = request[r].copy /\ f.was = request[r].was
    BY <1>1 DEF RequestFrame
  <2>4. request' \in [Requests -> RequestFrame] /\ request'[r] = f /\ Others(r)
    BY <2>1, <2>2, FrameUpdate DEF TypeInv
  <2> HIDE DEF f
  <2> QED BY <2>3, <2>4 DEF Becomes
<1>3. ASSUME Goto(r, IF request[r].locked THEN "begin" ELSE "lock")
      PROVE  Moves(r, IF request[r].locked THEN "begin" ELSE "lock")
  BY <1>3, GotoMoves DEF TypeInv, RequestPcs
<1>4. UNCHANGED <<Tables, lock, collector>> /\ (Fault \/ UNCHANGED faults)
  BY DEF Ensure, HeadFails, Tables
<1> QED BY <1>1, <1>2, <1>3, <1>4 DEF Ensure

LEMMA CancelDoes ==
    ASSUME TypeInv, NEW r \in Requests, Cancel(r)
    PROVE  UNCHANGED <<Tables, lock, collector, faults>> /\ Moves(r, request[r].pc)
<1> DEFINE f == [request[r] EXCEPT !.done = TRUE]
<1>1. request[r] \in RequestFrame
  BY DEF TypeInv, TypeOK
<1>2. /\ f \in RequestFrame /\ f.build = request[r].build /\ f.child = request[r].child
      /\ f.pc = request[r].pc /\ f.path = request[r].path /\ f.copy = request[r].copy
      /\ f.was = request[r].was /\ f.oldest = request[r].oldest /\ f.locked = request[r].locked
  BY <1>1 DEF RequestFrame
<1>3. request' \in [Requests -> RequestFrame] /\ request'[r] = f /\ Others(r)
  BY <1>2, FrameUpdate DEF TypeInv, Cancel
<1>4. UNCHANGED <<Tables, lock, collector, faults>>
  BY DEF Cancel, Tables
<1> HIDE DEF f
<1> QED BY <1>2, <1>3, <1>4 DEF Moves, Becomes

LEMMA LockDoes ==
    ASSUME TypeInv, NEW r \in Requests, Lock(r)
    PROVE  /\ UNCHANGED <<Tables, collector, faults>>
           /\ request[r].pc = "lock" /\ request[r].build \in Builds
           /\ lock[request[r].build] = {} /\ lock' = [lock EXCEPT ![request[r].build] = {r}]
           /\ lock' \in [Builds -> SUBSET (Requests \cup Collectors)]
           /\ Becomes(r, "ensure", request[r].copy, request[r].was, request[r].path)
<1> DEFINE f == [request[r] EXCEPT !.pc = "ensure", !.locked = TRUE]
<1>1. request[r] \in RequestFrame
  BY DEF TypeInv, TypeOK
<1>2. /\ f \in RequestFrame /\ f.build = request[r].build /\ f.child = request[r].child
      /\ f.pc = "ensure" /\ f.path = request[r].path /\ f.copy = request[r].copy
      /\ f.was = request[r].was
  BY <1>1 DEF RequestFrame, RequestPcs
<1>3. request' = [request EXCEPT ![r] = f]
  BY DEF Lock
<1>4. request' \in [Requests -> RequestFrame] /\ request'[r] = f /\ Others(r)
  BY <1>2, <1>3, FrameUpdate DEF TypeInv
<1>5. /\ UNCHANGED <<Tables, collector, faults>> /\ request[r].pc = "lock"
      /\ lock[request[r].build] = {} /\ lock' = [lock EXCEPT ![request[r].build] = {r}]
  BY DEF Lock, Tables
<1>6. request[r].build \in Builds
  BY <1>5 DEF TypeInv, Placed
<1>7. lock' \in [Builds -> SUBSET (Requests \cup Collectors)]
  BY <1>5 DEF TypeInv, TypeOK
<1> HIDE DEF f
<1> QED BY <1>2, <1>4, <1>5, <1>6, <1>7 DEF Becomes

LEMMA GiveUpDoes ==
    ASSUME TypeInv, NEW r \in Requests, GiveUp(r)
    PROVE  UNCHANGED <<stored, head, row, fresh, objects, lock, collector, faults>> /\ Fails(r)
BY FailFails DEF TypeInv, GiveUp

LEMMA BeginRebuildDoes ==
    ASSUME TypeInv, NEW r \in Requests, BeginRebuild(r)
    PROVE  LET b == request[r].build IN
           /\ UNCHANGED <<stored, head, row, fresh, objects, collector, faults>>
           /\ request[r].pc = "begin" /\ b \in Builds
           /\ \/ /\ UNCHANGED <<build, lock>> /\ build[b] = "completed"
                 /\ Becomes(r, "mark", row[b], row[b].evicted, request[r].path)
              \/ Fails(r) /\ lock' = Unlocked(r, b)
<1> DEFINE b == request[r].build
           f == [request[r] EXCEPT !.pc = "mark", !.copy = row[b], !.was = row[b].evicted]
<1>1. /\ request[r] \in RequestFrame /\ request[r].pc = "begin" /\ b \in Builds
      /\ row[b] \in Row
  BY DEF TypeInv, TypeOK, Placed, BeginRebuild
<1>2. /\ f \in RequestFrame /\ f.build = b /\ f.child = request[r].child
      /\ f.pc = "mark" /\ f.path = request[r].path /\ f.copy = row[b] /\ f.was = row[b].evicted
  BY <1>1 DEF RequestFrame, RequestPcs, RebuildPcs, Row
<1>3. ASSUME request' = [request EXCEPT ![r] = f]
      PROVE  Becomes(r, "mark", row[b], row[b].evicted, request[r].path)
  <2>1. request' \in [Requests -> RequestFrame] /\ request'[r] = f /\ Others(r)
    BY <1>2, <1>3, FrameUpdate DEF TypeInv
  <2> HIDE DEF f
  <2> QED BY <1>2, <2>1 DEF Becomes
<1>4. UNCHANGED <<stored, head, row, fresh, objects, collector, faults>>
  BY DEF BeginRebuild
<1>5. \/ request' = [request EXCEPT ![r] = f] /\ UNCHANGED <<build, lock>> /\ build[b] = "completed"
      \/ Fail(r) /\ lock' = Unlocked(r, b)
  BY DEF BeginRebuild
<1> QED BY <1>1, <1>3, <1>4, <1>5, FailFails DEF TypeInv

\* The row of b is written.
Writes(b, new) ==
    /\ row' \in [Builds -> Row]
    /\ row'[b] = new /\ \A c \in Builds \ {b} : row'[c] = row[c]

LEMMA RowUpdate ==
    ASSUME TypeOK, NEW b \in Builds, NEW new \in Row, row' = [row EXCEPT ![b] = new]
    PROVE  Writes(b, new)
BY DEF TypeOK, Writes

LEMMA StateUpdate ==
    ASSUME NEW copy \in Row, NEW state \in RowStates
    PROVE  LET new == [copy EXCEPT !.state = state] IN
           new \in Row /\ new.state = state /\ new.path = copy.path /\ new.evicted = copy.evicted
BY DEF Row

LEMMA MarkRebuildingDoes ==
    ASSUME TypeInv, NEW r \in Requests, MarkRebuilding(r)
    PROVE  LET b == request[r].build IN
           /\ UNCHANGED <<build, stored, head, fresh, objects, lock, collector, faults>>
           /\ request[r].pc = "mark" /\ b \in Builds
           /\ Becomes(r, "collect", request[r].copy, request[r].was, request[r].path)
           /\ request'[r].oldest = b
           /\ Writes(b, [request[r].copy EXCEPT !.state = "rebuilding"])
<1> DEFINE b == request[r].build
           f == [request[r] EXCEPT !.pc = "collect", !.chain = {b}, !.oldest = b]
<1>1. request[r] \in RequestFrame /\ request[r].pc = "mark" /\ b \in Builds
  BY DEF TypeInv, TypeOK, Placed, MarkRebuilding
<1>2. /\ f \in RequestFrame /\ f.build = b /\ f.child = request[r].child /\ f.oldest = b
      /\ f.pc = "collect" /\ f.path = request[r].path /\ f.copy = request[r].copy
      /\ f.was = request[r].was
  BY <1>1 DEF RequestFrame, RequestPcs, RebuildPcs
<1>3. request' = [request EXCEPT ![r] = f]
  BY DEF MarkRebuilding
<1>4. request' \in [Requests -> RequestFrame] /\ request'[r] = f /\ Others(r)
  BY <1>2, <1>3, FrameUpdate DEF TypeInv
<1>5. [request[r].copy EXCEPT !.state = "rebuilding"] \in Row
  BY <1>1, StateUpdate DEF RequestFrame, RowStates
<1>6. Writes(b, [request[r].copy EXCEPT !.state = "rebuilding"])
  BY <1>1, <1>5, RowUpdate DEF MarkRebuilding, TypeInv
<1>7. UNCHANGED <<build, stored, head, fresh, objects, lock, collector, faults>>
  BY DEF MarkRebuilding
<1> HIDE DEF f
<1> QED BY <1>1, <1>2, <1>4, <1>6, <1>7 DEF Becomes

LEMMA CollectChainDoes ==
    ASSUME TypeInv, NEW r \in Requests, CollectChain(r)
    PROVE  /\ UNCHANGED <<Tables, lock, collector>> /\ (Fault \/ UNCHANGED faults)
           /\ request[r].pc = "collect"
           /\ \/ Moves(r, "replay") \/ Moves(r, "revert")
              \/ /\ Becomes(r, "collect", request[r].copy, request[r].was, request[r].path)
                 /\ request'[r].oldest \in Builds
<1> DEFINE p == Parent[request[r].oldest]
           f == [request[r] EXCEPT !.chain = @ \cup {p}, !.oldest = p]
<1>1. request[r] \in RequestFrame /\ request[r].pc = "collect" /\ p \in Builds \cup {None}
  BY ParentAssumption DEF TypeInv, TypeOK, Placed, CollectChain
<1>2. ASSUME p # None, request' = [request EXCEPT ![r].chain = @ \cup {p}, ![r].oldest = p]
      PROVE  /\ Becomes(r, "collect", request[r].copy, request[r].was, request[r].path)
             /\ request'[r].oldest \in Builds
  <2>1. /\ f \in RequestFrame /\ f.build = request[r].build /\ f.child = request[r].child
        /\ f.oldest = p /\ p \in Builds /\ f.pc = "collect" /\ f.path = request[r].path
        /\ f.copy = request[r].copy /\ f.was = request[r].was
    BY <1>1, <1>2 DEF RequestFrame
  <2>2. request' = [request EXCEPT ![r] = f]
    BY <1>2
  <2>3. request' \in [Requests -> RequestFrame] /\ request'[r] = f /\ Others(r)
    BY <2>1, <2>2, FrameUpdate DEF TypeInv
  <2> HIDE DEF f, p
  <2> QED BY <2>1, <2>3 DEF Becomes
<1>3. ASSUME NEW pc \in {"replay", "revert"}, Goto(r, pc) PROVE Moves(r, pc)
  BY <1>3, GotoMoves DEF TypeInv, RequestPcs, RebuildPcs
<1>4. /\ \/ Goto(r, "replay") \/ Goto(r, "revert")
         \/ p # None /\ request' = [request EXCEPT ![r].chain = @ \cup {p}, ![r].oldest = p]
      /\ UNCHANGED <<Tables, lock, collector>> /\ (Fault \/ UNCHANGED faults)
  BY DEF CollectChain, HeadFails, Tables
<1> QED BY <1>1, <1>2, <1>3, <1>4

LEMMA ReplayChainDoes ==
    ASSUME TypeInv, NEW r \in Requests, ReplayChain(r)
    PROVE  LET b == request[r].build IN
           /\ UNCHANGED <<build, stored, head, row, fresh, lock, collector>>
           /\ Fault \/ UNCHANGED faults
           /\ request[r].pc = "replay" /\ b \in Builds
           /\ \/ \E key \in NewKeys(b) :
                    /\ objects' = objects \cup {<<b, key>>}
                    /\ Becomes(r, "record", request[r].copy, request[r].was, key)
              \/ Moves(r, "revert") /\ UNCHANGED objects
<1> DEFINE b == request[r].build
<1>1. request[r] \in RequestFrame /\ request[r].pc = "replay" /\ b \in Builds
  BY DEF TypeInv, TypeOK, Placed, ReplayChain
<1>2. ASSUME NEW key \in NewKeys(b), request' = [request EXCEPT ![r].pc = "record", ![r].path = key]
      PROVE  Becomes(r, "record", request[r].copy, request[r].was, key)
  <2> DEFINE f == [request[r] EXCEPT !.pc = "record", !.path = key]
  <2>1. key \in Paths
    BY CacheBounds DEF NewKeys, Paths
  <2>2. /\ f \in RequestFrame /\ f.build = b /\ f.child = request[r].child
        /\ f.pc = "record" /\ f.path = key /\ f.copy = request[r].copy /\ f.was = request[r].was
    BY <1>1, <2>1 DEF RequestFrame, RequestPcs, RebuildPcs
  <2>3. request' = [request EXCEPT ![r] = f]
    BY <1>2
  <2>4. request' \in [Requests -> RequestFrame] /\ request'[r] = f /\ Others(r)
    BY <2>2, <2>3, FrameUpdate DEF TypeInv
  <2> HIDE DEF f
  <2> QED BY <2>2, <2>4 DEF Becomes
<1>3. ASSUME Goto(r, "revert") PROVE Moves(r, "revert")
  BY <1>3, GotoMoves DEF TypeInv, RequestPcs, RebuildPcs
<1>4. /\ UNCHANGED <<build, stored, head, row, fresh, lock, collector>>
      /\ Fault \/ UNCHANGED faults
  BY DEF ReplayChain
<1>5. \/ \E key \in NewKeys(b) :
            /\ objects' = objects \cup {<<b, key>>}
            /\ request' = [request EXCEPT ![r].pc = "record", ![r].path = key]
      \/ Goto(r, "revert") /\ UNCHANGED objects
  <2>1. NewKeys(b) # {} => (CHOOSE n \in NewKeys(b) : TRUE) \in NewKeys(b)
    OBVIOUS
  <2> QED BY <2>1 DEF ReplayChain
<1> QED BY <1>1, <1>2, <1>3, <1>4, <1>5

Rebuilt(r) == [state |-> "uploaded", path |-> request[r].path, evicted |-> FALSE]

LEMMA RecordRebuiltDoes ==
    ASSUME TypeInv, NEW r \in Requests, RecordRebuilt(r)
    PROVE  /\ UNCHANGED <<build, stored, head, fresh, objects, lock, collector>>
           /\ Fault \/ UNCHANGED faults
           /\ request[r].pc = "record" /\ request[r].build \in Builds
           /\ \/ Writes(request[r].build, Rebuilt(r)) /\ Moves(r, "touch")
              \/ /\ UNCHANGED row
                 /\ Becomes(r, "revert", Rebuilt(r), request[r].was, request[r].path)
<1> DEFINE b == request[r].build new == Rebuilt(r)
<1>1. request[r] \in RequestFrame /\ request[r].pc = "record" /\ b \in Builds
  BY DEF TypeInv, TypeOK, Placed, RecordRebuilt
<1>2. new \in Row
  BY <1>1 DEF RequestFrame, Row, RowStates, Rebuilt
<1>3. ASSUME request' = [request EXCEPT ![r].pc = "revert", ![r].copy = new]
      PROVE  Becomes(r, "revert", new, request[r].was, request[r].path)
  <2> DEFINE f == [request[r] EXCEPT !.pc = "revert", !.copy = new]
  <2> HIDE DEF new
  <2>1. /\ f \in RequestFrame /\ f.build = b /\ f.child = request[r].child
        /\ f.pc = "revert" /\ f.path = request[r].path /\ f.copy = new /\ f.was = request[r].was
    BY <1>1, <1>2 DEF RequestFrame, RequestPcs, RebuildPcs
  <2>2. request' = [request EXCEPT ![r] = f]
    BY <1>3
  <2>3. request' \in [Requests -> RequestFrame] /\ request'[r] = f /\ Others(r)
    BY <2>1, <2>2, FrameUpdate DEF TypeInv
  <2> HIDE DEF f
  <2> QED BY <2>1, <2>3 DEF Becomes
<1>4. ASSUME Goto(r, "touch") PROVE Moves(r, "touch")
  BY <1>4, GotoMoves DEF TypeInv, RequestPcs
<1>5. ASSUME row' = [row EXCEPT ![b] = new] PROVE Writes(b, new)
  BY <1>1, <1>2, <1>5, RowUpdate DEF TypeInv
<1>6. /\ UNCHANGED <<build, stored, head, fresh, objects, lock, collector>>
      /\ Fault \/ UNCHANGED faults
      /\ \/ row' = [row EXCEPT ![b] = new] /\ Goto(r, "touch")
         \/ UNCHANGED row /\ request' = [request EXCEPT ![r].pc = "revert", ![r].copy = new]
  BY DEF RecordRebuilt, Rebuilt
<1> HIDE DEF new
<1> QED BY <1>1, <1>3, <1>4, <1>5, <1>6 DEF new

LEMMA RevertDoes ==
    ASSUME TypeInv, NEW r \in Requests, Revert(r)
    PROVE  LET b == request[r].build IN
           /\ UNCHANGED <<stored, head, fresh, objects, collector, faults>>
           /\ request[r].pc = "revert" /\ b \in Builds
           /\ \/ request[r].was /\ Writes(b, [request[r].copy EXCEPT !.state = "evicted"])
              \/ UNCHANGED row
           /\ Fails(r) /\ lock' = Unlocked(r, b)
<1> DEFINE b == request[r].build new == [request[r].copy EXCEPT !.state = "evicted"]
<1>1. request[r] \in RequestFrame /\ request[r].pc = "revert" /\ b \in Builds
  BY DEF TypeInv, TypeOK, Placed, Revert
<1>2. new \in Row
  BY <1>1, StateUpdate DEF RequestFrame, RowStates
<1>3. (request[r].was /\ row' = [row EXCEPT ![b] = new]) \/ UNCHANGED row
  BY DEF Revert
<1>4. row' = [row EXCEPT ![b] = new] => Writes(b, new)
  BY <1>1, <1>2, RowUpdate DEF TypeInv
<1>5. /\ UNCHANGED <<stored, head, fresh, objects, collector, faults>> /\ Fail(r)
      /\ lock' = Unlocked(r, b)
  BY DEF Revert
<1> QED BY <1>1, <1>3, <1>4, <1>5, FailFails DEF TypeInv

LEMMA TouchDoes ==
    ASSUME TypeInv, NEW r \in Requests, Touch(r)
    PROVE  /\ UNCHANGED <<build, stored, head, row, objects, collector>>
           /\ fresh' \in [Builds -> BOOLEAN] /\ (Fault \/ UNCHANGED faults)
           /\ request[r].pc = "touch" /\ request[r].build \in Builds
           /\ lock' = Unlocked(r, request[r].build)
           /\ Leaves(r) \/ (request[r].child # None /\ Moves(r, "materialize"))
<1>1. request[r].pc = "touch" /\ request[r].build \in Builds
  BY DEF TypeInv, Placed, Touch
<1>2. fresh' \in [Builds -> BOOLEAN]
  BY DEF TypeInv, TypeOK, Touch
<1>3. Goto(r, "materialize") => Moves(r, "materialize")
  BY GotoMoves DEF TypeInv, RequestPcs
<1>4. request' = [request EXCEPT ![r] = Free] => Leaves(r)
  BY FreeLeaves DEF TypeInv
<1> QED BY <1>1, <1>2, <1>3, <1>4 DEF Touch

LEMMA MaterializeDoes ==
    ASSUME TypeInv, NEW r \in Requests, Materialize(r)
    PROVE  /\ UNCHANGED <<stored, head, row, fresh, objects, lock, collector, faults>>
           /\ request[r].pc = "materialize"
           /\ (UNCHANGED build /\ Moves(r, "publish")) \/ Fails(r)
BY GotoMoves, FailFails DEF Materialize, TypeInv, RequestPcs

Pushed == [state |-> "uploaded", path |-> 1, evicted |-> FALSE]

LEMMA PublishDoes ==
    ASSUME TypeInv, NEW r \in Requests, Publish(r)
    PROVE  LET c == request[r].child IN
           /\ UNCHANGED <<stored, lock, collector, faults>> /\ Leaves(r)
           /\ request[r].pc = "publish" /\ c \in Builds
           /\ objects' = objects \cup {<<c, 1>>} /\ objects' \subseteq Builds \X (1 .. MaxObjects)
           /\ Writes(c, Pushed) /\ head' = c /\ fresh' \in [Builds -> BOOLEAN]
           /\ build' \in [Builds -> {"started", "completed", "failed"}]
           /\ build'[c] = "completed" /\ \A b \in Builds \ {c} : build'[b] = build[b]
<1> DEFINE c == request[r].child
<1>1. request[r] \in RequestFrame /\ request[r].pc = "publish" /\ c # None
  BY DEF TypeInv, TypeOK, Placed, Publish
<1>2. c \in Builds
  BY <1>1 DEF RequestFrame
<1>3. Pushed \in Row /\ 1 \in 1 .. MaxObjects
  <2>1. 1 \in Paths /\ 1 \in 1 .. MaxObjects
    BY CacheBounds DEF Paths
  <2> QED BY <2>1 DEF Pushed, Row, RowStates
<1>4. Writes(c, Pushed)
  BY <1>2, <1>3, RowUpdate DEF Publish, TypeInv, Pushed
<1>5. Leaves(r) /\ UNCHANGED <<stored, lock, collector, faults>>
      /\ objects' = objects \cup {<<c, 1>>} /\ head' = c
  BY FreeLeaves DEF Publish, TypeInv
<1>6. objects' \subseteq Builds \X (1 .. MaxObjects)
  BY <1>2, <1>3, <1>5 DEF TypeInv, TypeOK
<1>7. fresh' \in [Builds -> BOOLEAN]
  BY DEF TypeInv, TypeOK, Publish
<1>8. /\ build' \in [Builds -> {"started", "completed", "failed"}]
      /\ build'[c] = "completed" /\ \A b \in Builds \ {c} : build'[b] = build[b]
  BY <1>2 DEF TypeInv, TypeOK, Publish
<1> QED BY <1>1, <1>2, <1>4, <1>5, <1>6, <1>7, <1>8

LEMMA CrashRequestDoes ==
    ASSUME TypeInv, NEW r \in Requests, CrashRequest(r)
    PROVE  /\ UNCHANGED <<stored, head, row, fresh, objects, collector>> /\ Fault
           /\ lock' \in [Builds -> SUBSET (Requests \cup Collectors)] /\ Fails(r)
<1>1. lock' \in [Builds -> SUBSET (Requests \cup Collectors)]
  BY DEF TypeInv, TypeOK, CrashRequest
<1>2. Fail(r)
  BY DEF CrashRequest, Fail
<1> QED BY <1>1, <1>2, FailFails DEF CrashRequest, TypeInv

-----------------------------------------------------------------------------
(* What the collector does *)

\* A collector between the lock and the release.
Takes(g, pc, copy) ==
    LET e == collector[g] f == collector'[g] IN
    /\ collector' \in [Collectors -> CollectFrame] /\ OtherCollectors(g)
    /\ f.build = e.build /\ f.pc = pc /\ f.copy = copy

Rests(g) ==
    /\ collector' \in [Collectors -> CollectFrame] /\ OtherCollectors(g) /\ collector'[g] = Rest

LEMMA StepTakes ==
    ASSUME TypeOK, NEW g \in Collectors, NEW pc \in CollectPcs, NEW copy \in Row,
           collector' = [collector EXCEPT ![g] = [collector[g] EXCEPT !.pc = pc, !.copy = copy]]
    PROVE  Takes(g, pc, copy)
<1> DEFINE f == [collector[g] EXCEPT !.pc = pc, !.copy = copy]
<1>1. collector[g] \in CollectFrame
  BY DEF TypeOK
<1>2. f \in CollectFrame /\ f.build = collector[g].build /\ f.pc = pc /\ f.copy = copy
  BY <1>1 DEF CollectFrame
<1>3. collector' \in [Collectors -> CollectFrame] /\ collector'[g] = f /\ OtherCollectors(g)
  BY <1>2, CollectUpdate
<1> HIDE DEF f
<1> QED BY <1>2, <1>3 DEF Takes

LEMMA RestRests ==
    ASSUME TypeOK, NEW g \in Collectors, collector' = [collector EXCEPT ![g] = Rest]
    PROVE  Rests(g)
BY FramesAre, CollectUpdate DEF Rests

LEMMA ListDoes ==
    ASSUME TypeInv, NEW g \in Collectors, ListEvictable(g) \/ ListLeftover(g)
    PROVE  LET f == collector'[g] IN
           /\ UNCHANGED <<Tables, lock, request, faults>>
           /\ collector' \in [Collectors -> CollectFrame] /\ OtherCollectors(g)
           /\ f.pc = "try_lock" /\ f.copy = NoRow /\ f.build \in Builds
           /\ build[f.build] = "completed" \/ row[f.build].state = "evicted"
<1>1. ASSUME NEW b \in Builds, NEW f \in CollectFrame, collector' = [collector EXCEPT ![g] = f],
             f.pc = "try_lock", f.copy = NoRow, f.build = b
      PROVE  /\ collector' \in [Collectors -> CollectFrame] /\ OtherCollectors(g)
             /\ collector'[g].pc = "try_lock" /\ collector'[g].copy = NoRow /\ collector'[g].build = b
  BY <1>1, CollectUpdate DEF TypeInv
<1>2. CASE ListEvictable(g)
  <2>1. PICK b \in Builds : /\ build[b] = "completed"
                            /\ collector' = [collector EXCEPT ![g] =
                                  [Rest EXCEPT !.pc = "try_lock", !.build = b]]
    BY <1>2 DEF ListEvictable
  <2> DEFINE f == [Rest EXCEPT !.pc = "try_lock", !.build = b]
  <2>2. f \in CollectFrame /\ f.build = b /\ f.pc = "try_lock" /\ f.copy = NoRow
    BY FramesAre DEF CollectFrame, CollectPcs, Rest
  <2> QED BY <1>1, <1>2, <2>1, <2>2 DEF ListEvictable, Tables
<1>3. CASE ListLeftover(g)
  <2>1. PICK b \in Builds : /\ row[b].state = "evicted"
                            /\ collector' = [collector EXCEPT ![g] =
                                  [Rest EXCEPT !.pc = "try_lock", !.build = b, !.sweep = TRUE]]
    BY <1>3 DEF ListLeftover
  <2> DEFINE f == [Rest EXCEPT !.pc = "try_lock", !.build = b, !.sweep = TRUE]
  <2>2. f \in CollectFrame /\ f.build = b /\ f.pc = "try_lock" /\ f.copy = NoRow
    BY FramesAre DEF CollectFrame, CollectPcs, Rest
  <2> QED BY <1>1, <1>3, <2>1, <2>2 DEF ListLeftover, Tables
<1> QED BY <1>2, <1>3

LEMMA WorkingCollector ==
    ASSUME TypeInv, NEW g \in Collectors, collector[g].pc # "idle"
    PROVE  /\ collector[g] \in CollectFrame /\ collector[g].build \in Builds
           /\ collector[g].copy \in Row /\ row[collector[g].build] \in Row
BY DEF TypeInv, TypeOK, CollectFrame

LEMMA TryLockDoes ==
    ASSUME TypeInv, NEW g \in Collectors, TryLock(g)
    PROVE  LET b == collector[g].build IN
           /\ UNCHANGED <<Tables, request, faults>> /\ collector[g].pc = "try_lock"
           /\ \/ /\ lock[b] = {} /\ lock' = [lock EXCEPT ![b] = {g}]
                 /\ Takes(g, "verify", collector[g].copy)
              \/ Rests(g) /\ UNCHANGED lock
<1> DEFINE b == collector[g].build
<1>1. collector[g].pc = "try_lock" /\ UNCHANGED <<Tables, request, faults>>
  BY DEF TryLock, Tables
<1>2. collector[g] \in CollectFrame /\ collector[g].copy \in Row
  BY <1>1, WorkingCollector
<1>3. ASSUME Step(g, "verify") PROVE Takes(g, "verify", collector[g].copy)
  <2>1. [collector[g] EXCEPT !.pc = "verify"]
           = [collector[g] EXCEPT !.pc = "verify", !.copy = collector[g].copy]
    BY <1>2 DEF CollectFrame
  <2> QED BY <1>2, <1>3, <2>1, StepTakes DEF Step, TypeInv, CollectPcs
<1> QED BY <1>1, <1>3, RestRests DEF TryLock, TypeInv

LEMMA LeaveDoes ==
    ASSUME TypeInv, NEW g \in Collectors, Leave(g)
    PROVE  Rests(g) /\ lock' = Unlocked(g, collector[g].build)
BY RestRests DEF Leave, TypeInv

LEMMA VerifyDoes ==
    ASSUME TypeInv, NEW g \in Collectors, Verify(g)
    PROVE  LET b == collector[g].build IN
           /\ UNCHANGED <<Tables, request, faults>> /\ collector[g].pc = "verify"
           /\ \/ EvictionGuard(b) /\ UNCHANGED lock /\ Takes(g, "mark", row[b])
              \/ row[b].state = "evicted" /\ UNCHANGED lock /\ Takes(g, "delete", row[b])
              \/ Rests(g) /\ lock' = Unlocked(g, b)
<1> DEFINE b == collector[g].build
<1>1. collector[g].pc = "verify" /\ UNCHANGED <<Tables, request, faults>>
  BY DEF Verify, Tables
<1>2. row[b] \in Row
  BY <1>1, WorkingCollector
<1>3. ASSUME NEW pc \in {"mark", "delete"},
             collector' = [collector EXCEPT ![g].pc = pc, ![g].copy = row[b]]
      PROVE  Takes(g, pc, row[b])
  BY <1>2, <1>3, StepTakes DEF TypeInv, CollectPcs
<1> QED BY <1>1, <1>3, LeaveDoes DEF Verify

LEMMA MarkEvictedDoes ==
    ASSUME TypeInv, NEW g \in Collectors, MarkEvicted(g)
    PROVE  LET b == collector[g].build
               marked == [collector[g].copy EXCEPT !.state = "evicted", !.evicted = TRUE] IN
           /\ UNCHANGED <<build, stored, head, fresh, objects, lock, request, faults>>
           /\ collector[g].pc = "mark" /\ b \in Builds
           /\ marked.state = "evicted" /\ marked.path = collector[g].copy.path
           /\ Takes(g, "delete", marked) /\ Writes(b, marked)
<1> DEFINE b == collector[g].build
           marked == [collector[g].copy EXCEPT !.state = "evicted", !.evicted = TRUE]
<1>1. collector[g].pc = "mark"
  BY DEF MarkEvicted
<1>2. collector[g].copy \in Row /\ b \in Builds
  BY <1>1, WorkingCollector
<1>3. marked \in Row /\ marked.state = "evicted" /\ marked.path = collector[g].copy.path
  BY <1>2 DEF Row, RowStates
<1>4. /\ UNCHANGED <<build, stored, head, fresh, objects, lock, request, faults>>
      /\ row' = [row EXCEPT ![b] = marked]
      /\ collector' = [collector EXCEPT ![g].pc = "delete", ![g].copy = marked]
  BY DEF MarkEvicted
<1> HIDE DEF marked
<1>5. Writes(b, marked)
  BY <1>2, <1>3, <1>4, RowUpdate DEF TypeInv
<1>6. Takes(g, "delete", marked)
  BY <1>3, <1>4, StepTakes DEF TypeInv, CollectPcs
<1> QED BY <1>1, <1>2, <1>3, <1>4, <1>5, <1>6 DEF marked

LEMMA DeleteObjectDoes ==
    ASSUME TypeInv, NEW g \in Collectors, DeleteObject(g)
    PROVE  /\ UNCHANGED <<build, stored, head, row, fresh, request>>
           /\ collector[g].pc = "delete"
           /\ \/ /\ objects' = objects \ {<<collector[g].build, collector[g].copy.path>>}
                 /\ Takes(g, "clear", collector[g].copy) /\ UNCHANGED <<lock, faults>>
              \/ /\ UNCHANGED objects /\ Fault
                 /\ Rests(g) /\ lock' = Unlocked(g, collector[g].build)
<1>1. collector[g].pc = "delete"
  BY DEF DeleteObject
<1>2. collector[g] \in CollectFrame /\ collector[g].copy \in Row
  BY <1>1, WorkingCollector
<1>3. ASSUME Step(g, "clear") PROVE Takes(g, "clear", collector[g].copy)
  <2>1. [collector[g] EXCEPT !.pc = "clear"]
           = [collector[g] EXCEPT !.pc = "clear", !.copy = collector[g].copy]
    BY <1>2 DEF CollectFrame
  <2> QED BY <1>2, <1>3, <2>1, StepTakes DEF Step, TypeInv, CollectPcs
<1> QED BY <1>1, <1>3, LeaveDoes DEF DeleteObject

LEMMA ClearPathDoes ==
    ASSUME TypeInv, NEW g \in Collectors, ClearPath(g)
    PROVE  LET b == collector[g].build
               cleared == [collector[g].copy EXCEPT !.path = 0] IN
           /\ UNCHANGED <<build, stored, head, fresh, objects, request, faults>>
           /\ collector[g].pc = "clear" /\ b \in Builds
           /\ cleared.state = collector[g].copy.state /\ cleared.path = 0
           /\ Writes(b, cleared) /\ Rests(g) /\ lock' = Unlocked(g, b)
<1> DEFINE b == collector[g].build
           cleared == [collector[g].copy EXCEPT !.path = 0]
<1>1. collector[g].pc = "clear"
  BY DEF ClearPath
<1>2. collector[g].copy \in Row /\ b \in Builds /\ 0 \in Paths
  BY <1>1, WorkingCollector, CacheBounds DEF Paths
<1>3. cleared \in Row /\ cleared.state = collector[g].copy.state /\ cleared.path = 0
  BY <1>2 DEF Row, RowStates
<1>4. /\ UNCHANGED <<build, stored, head, fresh, objects, request, faults>>
      /\ row' = [row EXCEPT ![b] = cleared] /\ Leave(g)
  BY DEF ClearPath
<1> HIDE DEF cleared
<1>5. Writes(b, cleared)
  BY <1>2, <1>3, <1>4, RowUpdate DEF TypeInv
<1> QED BY <1>1, <1>2, <1>3, <1>4, <1>5, LeaveDoes DEF cleared

LEMMA CrashCollectorDoes ==
    ASSUME TypeInv, NEW g \in Collectors, CrashCollector(g)
    PROVE  /\ UNCHANGED <<Tables, request>> /\ Fault
           /\ Rests(g) /\ lock' = Unlocked(g, collector[g].build)
BY LeaveDoes DEF CrashCollector, Tables

LEMMA EnvironmentDoes ==
    ASSUME TypeInv, NEW b \in Builds, Expire(b) \/ LoseLock(b)
    PROVE  /\ UNCHANGED <<build, stored, head, row, objects, request, collector>>
           /\ fresh' \in [Builds -> BOOLEAN]
           /\ lock' \in [Builds -> SUBSET (Requests \cup Collectors)]
           /\ UNCHANGED <<lock, faults>> \/ Fault
<1>1. CASE Expire(b)
  BY <1>1 DEF Expire, TypeInv, TypeOK
<1>2. CASE LoseLock(b)
  BY <1>2 DEF LoseLock, TypeInv, TypeOK
<1> QED BY <1>1, <1>2

-----------------------------------------------------------------------------
(* Type correctness *)

LEMMA RequestStepTypes ==
    ASSUME TypeInv, TypeOK', NEW r \in Requests, Others(r), Placed(r)', UNCHANGED collector
    PROVE  TypeInv'
BY DEF TypeInv, Placed, Others

LEMMA CollectStepTypes ==
    ASSUME TypeInv, TypeOK', NEW g \in Collectors, OtherCollectors(g), UNCHANGED request,
           collector'[g].pc # "idle" => collector'[g].build \in Builds
    PROVE  TypeInv'
BY DEF TypeInv, Placed, OtherCollectors

LEMMA LeavesPlaces == ASSUME NEW r \in Requests, Leaves(r) PROVE Placed(r)' /\ Others(r)
BY FramesAre DEF Leaves, Placed

LEMMA FailsPlaces == ASSUME NEW r \in Requests, Fails(r) PROVE Placed(r)' /\ Others(r)
BY LeavesPlaces DEF Fails

LEMMA MovesPlaces ==
    ASSUME NEW r \in Requests, NEW pc, Moves(r, pc), request[r].build \in Builds,
           pc \in {"collect", "replay"} => request[r].oldest \in Builds,
           pc \in {"publish", "materialize"} => request[r].child # None,
           pc # "record"
    PROVE  Placed(r)' /\ Others(r)
BY DEF Moves, Becomes, Placed

LEMMA RequestTypes ==
    ASSUME TypeInv, NEW r \in Requests, Advance(r) \/ Lock(r) \/ Cancel(r) \/ CrashRequest(r)
    PROVE  TypeInv'
<1> USE DEF TypeInv, TypeOK, Tables
<1>0. Placed(r)
  OBVIOUS
<1>1. CASE Ensure(r)
  <2>1. Placed(r)' /\ Others(r)
    BY <1>0, <1>1, EnsureDoes, MovesPlaces DEF Becomes, Placed
  <2>2. TypeOK'
    BY <1>1, EnsureDoes, FaultTypes DEF Becomes, Moves
  <2> QED BY <1>1, <2>1, <2>2, EnsureDoes, RequestStepTypes
<1>2. CASE GiveUp(r)
  <2>1. TypeOK'
    BY <1>2, GiveUpDoes DEF Fails, Leaves
  <2> QED BY <1>2, <2>1, GiveUpDoes, FailsPlaces, RequestStepTypes
<1>3. CASE BeginRebuild(r)
  <2>1. Placed(r)' /\ Others(r)
    BY <1>3, BeginRebuildDoes, FailsPlaces DEF Becomes, Placed
  <2>2. TypeOK'
    BY <1>3, BeginRebuildDoes, UnlockedTypes DEF Becomes, Fails, Leaves
  <2> QED BY <1>3, <2>1, <2>2, BeginRebuildDoes, RequestStepTypes
<1>4. CASE MarkRebuilding(r)
  <2>1. Placed(r)' /\ Others(r)
    BY <1>4, MarkRebuildingDoes DEF Becomes, Placed
  <2>2. TypeOK'
    BY <1>4, MarkRebuildingDoes DEF Becomes, Writes
  <2> QED BY <1>4, <2>1, <2>2, MarkRebuildingDoes, RequestStepTypes
<1>5. CASE CollectChain(r)
  <2>1. request[r].build \in Builds /\ request[r].oldest \in Builds
    BY <1>0, <1>5, CollectChainDoes DEF Placed
  <2>2. Placed(r)' /\ Others(r)
    BY <1>5, <2>1, CollectChainDoes, MovesPlaces DEF Becomes, Placed
  <2>3. TypeOK'
    BY <1>5, CollectChainDoes, FaultTypes DEF Becomes, Moves
  <2> QED BY <1>5, <2>2, <2>3, CollectChainDoes, RequestStepTypes
<1>6. CASE ReplayChain(r)
  <2>1. \A key \in NewKeys(request[r].build) : key # 0 /\ key \in 1 .. MaxObjects
    BY CacheBounds DEF NewKeys
  <2>2. Placed(r)' /\ Others(r)
    BY <1>6, <2>1, ReplayChainDoes, MovesPlaces DEF Becomes, Placed
  <2>3. objects' \subseteq Builds \X (1 .. MaxObjects)
    BY <1>6, <2>1, ReplayChainDoes
  <2>4. TypeOK'
    BY <1>6, <2>3, ReplayChainDoes, FaultTypes DEF Becomes, Moves
  <2> QED BY <1>6, <2>2, <2>4, ReplayChainDoes, RequestStepTypes
<1>7. CASE RecordRebuilt(r)
  <2>1. Placed(r)' /\ Others(r)
    BY <1>7, RecordRebuiltDoes, MovesPlaces DEF Becomes, Placed
  <2>2. TypeOK'
    BY <1>7, RecordRebuiltDoes, FaultTypes DEF Becomes, Moves, Writes
  <2> QED BY <1>7, <2>1, <2>2, RecordRebuiltDoes, RequestStepTypes
<1>8. CASE Revert(r)
  <2>0. row' \in [Builds -> Row]
    BY <1>8, RevertDoes DEF Writes
  <2>1. UNCHANGED <<stored, head, fresh, objects, collector, faults>> /\ Fails(r)
    BY <1>8, RevertDoes
  <2>2. lock' = Unlocked(r, request[r].build)
    BY <1>8, RevertDoes
  <2>4. lock' \in [Builds -> SUBSET (Requests \cup Collectors)]
    BY <2>2, UnlockedTypes
  <2>3. TypeOK'
    BY <2>0, <2>1, <2>4 DEF Fails, Leaves
  <2> QED BY <2>1, <2>3, FailsPlaces, RequestStepTypes
<1>9. CASE Touch(r)
  <2>1. Placed(r)' /\ Others(r)
    BY <1>9, TouchDoes, MovesPlaces, LeavesPlaces
  <2>2. TypeOK'
    BY <1>9, TouchDoes, UnlockedTypes, FaultTypes DEF Leaves, Becomes, Moves
  <2> QED BY <1>9, <2>1, <2>2, TouchDoes, RequestStepTypes
<1>10. CASE Materialize(r)
  <2>1. request[r].build \in Builds /\ request[r].child # None
    BY <1>0, <1>10, MaterializeDoes DEF Placed
  <2>2. Placed(r)' /\ Others(r)
    BY <1>10, <2>1, MaterializeDoes, MovesPlaces, FailsPlaces
  <2>3. TypeOK'
    BY <1>10, MaterializeDoes DEF Leaves, Fails, Becomes, Moves
  <2> QED BY <1>10, <2>2, <2>3, MaterializeDoes, RequestStepTypes
<1>11. CASE Publish(r)
  <2>1. TypeOK'
    BY <1>11, PublishDoes DEF Leaves, Writes
  <2> QED BY <1>11, <2>1, PublishDoes, LeavesPlaces, RequestStepTypes
<1>12. CASE Lock(r)
  <2>1. Placed(r)' /\ Others(r)
    BY <1>12, LockDoes DEF Becomes, Placed
  <2>2. TypeOK'
    BY <1>12, LockDoes DEF Becomes
  <2> QED BY <1>12, <2>1, <2>2, LockDoes, RequestStepTypes
<1>13. CASE Cancel(r)
  <2>1. Placed(r)' /\ Others(r)
    BY <1>0, <1>13, CancelDoes DEF Moves, Becomes, Placed
  <2>2. TypeOK'
    BY <1>13, CancelDoes DEF Moves, Becomes
  <2> QED BY <1>13, <2>1, <2>2, CancelDoes, RequestStepTypes
<1>14. CASE CrashRequest(r)
  <2>1. TypeOK'
    BY <1>14, CrashRequestDoes, FaultTypes DEF Fails, Leaves
  <2> QED BY <1>14, <2>1, CrashRequestDoes, FailsPlaces, RequestStepTypes
<1> QED BY <1>1, <1>2, <1>3, <1>4, <1>5, <1>6, <1>7, <1>8, <1>9, <1>10, <1>11, <1>12, <1>13, <1>14
        DEF Advance

LEMMA RestsTypes ==
    ASSUME TypeInv, TypeOK', NEW g \in Collectors, Rests(g), UNCHANGED request PROVE TypeInv'
BY FramesAre, CollectStepTypes DEF Rests

LEMMA TakesTypes ==
    ASSUME TypeInv, TypeOK', NEW g \in Collectors, NEW pc, NEW copy, Takes(g, pc, copy),
           collector[g].pc # "idle", UNCHANGED request
    PROVE  TypeInv'
<1>1. collector[g].build \in Builds
  BY DEF TypeInv
<1> QED BY <1>1, CollectStepTypes DEF Takes

LEMMA CollectTypes ==
    ASSUME TypeInv, NEW g \in Collectors,
           ListEvictable(g) \/ ListLeftover(g) \/ Collect(g) \/ CrashCollector(g)
    PROVE  TypeInv'
<1> USE DEF TypeOK, Tables
<1>0. TypeOK
  BY DEF TypeInv
<1>1. CASE ListEvictable(g) \/ ListLeftover(g)
  <2>1. TypeOK'
    BY <1>0, <1>1, ListDoes
  <2> QED BY <1>1, <2>1, ListDoes, CollectStepTypes
<1>2. CASE TryLock(g)
  <2>1. TypeOK'
    BY <1>0, <1>2, TryLockDoes DEF Takes, Rests
  <2> QED BY <1>2, <2>1, TryLockDoes, RestsTypes, TakesTypes
<1>3. CASE Verify(g)
  <2>1. TypeOK'
    BY <1>0, <1>3, VerifyDoes, UnlockedTypes DEF Takes, Rests
  <2> QED BY <1>3, <2>1, VerifyDoes, RestsTypes, TakesTypes
<1>4. CASE MarkEvicted(g)
  <2>1. TypeOK'
    BY <1>0, <1>4, MarkEvictedDoes DEF Takes, Writes
  <2> QED BY <1>4, <2>1, MarkEvictedDoes, TakesTypes
<1>5. CASE DeleteObject(g)
  <2>1. TypeOK'
    BY <1>0, <1>5, DeleteObjectDoes, UnlockedTypes, FaultTypes DEF Takes, Rests
  <2> QED BY <1>5, <2>1, DeleteObjectDoes, RestsTypes, TakesTypes
<1>6. CASE ClearPath(g)
  <2>0. row' \in [Builds -> Row]
    BY <1>6, ClearPathDoes DEF Writes
  <2>1. UNCHANGED <<build, stored, head, fresh, objects, request, faults>> /\ Rests(g)
    BY <1>6, ClearPathDoes
  <2>2. lock' = Unlocked(g, collector[g].build)
    BY <1>6, ClearPathDoes
  <2>4. lock' \in [Builds -> SUBSET (Requests \cup Collectors)]
    BY <1>0, <2>2, UnlockedTypes
  <2>3. TypeOK'
    BY <1>0, <2>0, <2>1, <2>4 DEF Rests
  <2> QED BY <2>1, <2>3, RestsTypes
<1>7. CASE CrashCollector(g)
  <2>1. TypeOK'
    BY <1>0, <1>7, CrashCollectorDoes, UnlockedTypes, FaultTypes DEF Rests
  <2> QED BY <1>7, <2>1, CrashCollectorDoes, RestsTypes
<1> QED BY <1>1, <1>2, <1>3, <1>4, <1>5, <1>6, <1>7 DEF Collect

LEMMA TypeStep == TypeInv /\ [Next]_vars => TypeInv'
<1> SUFFICES ASSUME TypeInv, [Next]_vars PROVE TypeInv'
  OBVIOUS
<1>1. ASSUME NEW r \in Requests, NEW b \in Builds, Download(r, b) \/ Push(r, b) PROVE TypeInv'
  <2>1. TypeOK'
    BY <1>1, DownloadDoes DEF TypeInv, TypeOK, Tables
  <2>2. Placed(r)'
    BY <1>1, DownloadDoes DEF Placed
  <2> QED BY <1>1, <2>1, <2>2, DownloadDoes, RequestStepTypes
<1>2. ASSUME NEW b \in Builds, Expire(b) \/ LoseLock(b) PROVE TypeInv'
  BY <1>2, EnvironmentDoes, FaultTypes DEF TypeInv, TypeOK, Placed
<1>3. CASE UNCHANGED vars
  BY <1>3 DEF vars, TypeInv, TypeOK, Placed
<1> QED BY <1>1, <1>2, <1>3, RequestTypes, CollectTypes DEF Next

LEMMA TypeInvHolds == Spec => []TypeInv
BY TypeInit, TypeStep, PTL DEF Spec

\* Rows, objects, locks and frames keep their types, and no walk of
\* collectRebuildChain leaves the builds, whatever fails, is cancelled or dies.
THEOREM CacheTypeCorrect == Spec => []TypeOK
<1>1. TypeInv => TypeOK
  BY DEF TypeInv
<1> QED BY <1>1, TypeInvHolds, PTL

-----------------------------------------------------------------------------
(* The builds that pushes are at work on *)

HatchInv ==
    /\ \A r \in Requests : request[r].child # None => build[request[r].child] = "started"
    /\ \A q, r \in Requests :
          q # r /\ request[q].child # None => request[q].child # request[r].child

\* A push changes its own build only, and leaves it when it does.
Nurses(r) ==
    LET c == request[r].child IN
    /\ Others(r) /\ UNCHANGED <<stored>>
    /\ \/ request'[r].child = c /\ UNCHANGED <<build, head>>
       \/ /\ request'[r].child = None /\ \A b \in Builds : b # c => build'[b] = build[b]
          /\ head' = head \/ (c # None /\ head' = c)

LEMMA RequestNurses ==
    ASSUME TypeInv, NEW r \in Requests, Advance(r) \/ Lock(r) \/ Cancel(r) \/ CrashRequest(r)
    PROVE  Nurses(r)
<1>1. ASSUME Fails(r), UNCHANGED <<stored, head>> PROVE Nurses(r)
  BY <1>1, FramesAre DEF Nurses, Fails, Leaves
<1>2. ASSUME Leaves(r), UNCHANGED <<stored, head, build>> PROVE Nurses(r)
  BY <1>2, FramesAre DEF Nurses, Leaves
<1>3. ASSUME NEW pc, NEW copy, NEW was, NEW path, Becomes(r, pc, copy, was, path),
             UNCHANGED <<stored, head, build>>
      PROVE  Nurses(r)
  BY <1>3 DEF Nurses, Becomes
<1>4. ASSUME NEW pc, Moves(r, pc), UNCHANGED <<stored, head, build>> PROVE Nurses(r)
  BY <1>3, <1>4 DEF Moves
<1>5. CASE Ensure(r)
  BY <1>3, <1>4, <1>5, EnsureDoes DEF Tables
<1>6. CASE GiveUp(r)
  BY <1>1, <1>6, GiveUpDoes
<1>7. CASE BeginRebuild(r)
  BY <1>1, <1>3, <1>7, BeginRebuildDoes
<1>8. CASE MarkRebuilding(r)
  BY <1>3, <1>8, MarkRebuildingDoes
<1>9. CASE CollectChain(r)
  BY <1>3, <1>4, <1>9, CollectChainDoes DEF Tables
<1>10. CASE ReplayChain(r)
  BY <1>3, <1>4, <1>10, ReplayChainDoes
<1>11. CASE RecordRebuilt(r)
  BY <1>3, <1>4, <1>11, RecordRebuiltDoes
<1>12. CASE Revert(r)
  BY <1>1, <1>12, RevertDoes
<1>13. CASE Touch(r)
  BY <1>2, <1>4, <1>13, TouchDoes
<1>14. CASE Materialize(r)
  BY <1>1, <1>4, <1>14, MaterializeDoes
<1>15. CASE Publish(r)
  BY <1>15, PublishDoes, FramesAre DEF Nurses, Leaves
<1>16. CASE Lock(r)
  BY <1>3, <1>16, LockDoes DEF Tables
<1>17. CASE Cancel(r)
  BY <1>4, <1>17, CancelDoes DEF Tables
<1>18. CASE CrashRequest(r)
  BY <1>1, <1>18, CrashRequestDoes
<1> QED BY <1>5, <1>6, <1>7, <1>8, <1>9, <1>10, <1>11, <1>12, <1>13, <1>14, <1>15, <1>16, <1>17,
           <1>18 DEF Advance

LEMMA CollectorKeeps ==
    ASSUME TypeInv, NEW g \in Collectors,
           ListEvictable(g) \/ ListLeftover(g) \/ Collect(g) \/ CrashCollector(g)
    PROVE  UNCHANGED <<build, stored, head, request>> /\ OtherCollectors(g)
<1>1. UNCHANGED <<build, stored, head, request>>
  BY DEF ListEvictable, ListLeftover, Collect, CrashCollector, TryLock, Verify, MarkEvicted,
         DeleteObject, ClearPath
<1>2. CASE ListEvictable(g) \/ ListLeftover(g)
  BY <1>1, <1>2, ListDoes
<1>3. CASE Collect(g)
  BY <1>1, <1>3, TryLockDoes, VerifyDoes, MarkEvictedDoes, DeleteObjectDoes, ClearPathDoes
     DEF Collect, Takes, Rests
<1>4. CASE CrashCollector(g)
  BY <1>1, <1>4, CrashCollectorDoes DEF Rests
<1> QED BY <1>2, <1>3, <1>4

LEMMA HatchInit == Init => HatchInv
BY FramesAre DEF Init, HatchInv

LEMMA HatchStep == TypeInv /\ HatchInv /\ [Next]_vars => HatchInv'
<1> SUFFICES ASSUME TypeInv, HatchInv, [Next]_vars PROVE HatchInv'
  OBVIOUS
<1>1. ASSUME NEW r \in Requests, NEW b \in Builds, Download(r, b) \/ Push(r, b) PROVE HatchInv'
  BY <1>1, DownloadDoes DEF HatchInv, Others, Tables
<1>2. ASSUME NEW r \in Requests, Nurses(r) PROVE HatchInv'
  <2>1. \A q \in Requests : request[q].child \in Builds \cup {None}
    BY DEF TypeInv, TypeOK, RequestFrame
  <2> QED BY <1>2, <2>1 DEF HatchInv, Nurses, Others
<1>3. ASSUME UNCHANGED <<build, request>> PROVE HatchInv'
  BY <1>3 DEF HatchInv
<1> QED BY <1>1, <1>2, <1>3, RequestNurses, CollectorKeeps, EnvironmentDoes DEF Next, vars

-----------------------------------------------------------------------------
(* Evicted archives can be rebuilt and are not the head's *)

Cold(b) == stored[b] = Links /\ head # b /\ build[b] = "completed"

Gone(copy) == copy.state = "evicted" \/ copy.evicted

RebuildsCold(r) ==
    LET f == request[r] IN
    f.pc \in RebuildPcs => /\ build[f.build] = "completed"
                           /\ f.was \/ f.copy.evicted => Cold(f.build)

EvictsCold(g) == collector[g].pc \in {"mark", "delete", "clear"} => Cold(collector[g].build)

ColdInv ==
    /\ \A r \in Requests : RebuildsCold(r)
    /\ \A g \in Collectors : EvictsCold(g)
    /\ \A b \in Builds : Gone(row[b]) => Cold(b)

LEMMA ColdStays ==
    ASSUME TypeInv, HatchInv, [Next]_vars, NEW b \in Builds
    PROVE  /\ build[b] = "completed" => build'[b] = "completed"
           /\ Cold(b) => Cold(b)'
<1>1. ASSUME UNCHANGED <<build, stored, head>>
      PROVE  /\ build[b] = "completed" => build'[b] = "completed"
             /\ Cold(b) => Cold(b)'
  BY <1>1 DEF Cold
<1>2. ASSUME NEW r \in Requests, Nurses(r)
      PROVE  /\ build[b] = "completed" => build'[b] = "completed"
             /\ Cold(b) => Cold(b)'
  <2>2. CASE b # request[r].child
    BY <1>2, <2>2 DEF Nurses, Cold
  <2>3. CASE b = request[r].child
    BY <2>3, FramesAre DEF HatchInv, Cold
  <2> QED BY <2>2, <2>3
<1> QED BY <1>1, <1>2, RequestNurses, CollectorKeeps, EnvironmentDoes, DownloadDoes
        DEF Next, vars, Tables

LEMMA ColdInit == Init => ColdInv
BY FramesAre DEF Init, ColdInv, RebuildsCold, EvictsCold, Gone, NoRow, Free, Rest, RebuildPcs

\* The rows that a step writes.
WritesCold == \A b \in Builds : row'[b] = row[b] \/ (Gone(row'[b]) => Cold(b))

LEMMA RequestColdStep ==
    ASSUME TypeInv, HatchInv, ColdInv, [Next]_vars, NEW r \in Requests, Others(r),
           UNCHANGED collector, RebuildsCold(r)', WritesCold
    PROVE  ColdInv'
<1>1. ASSUME NEW q \in Requests \ {r} PROVE RebuildsCold(q)'
  <2>1. request'[q] = request[q] /\ RebuildsCold(q)
    BY DEF Others, ColdInv
  <2>2. request[q].pc \in RebuildPcs => request[q].build \in Builds
    BY DEF TypeInv, Placed, RebuildPcs
  <2> QED BY <2>1, <2>2, ColdStays DEF RebuildsCold
<1>2. ASSUME NEW g \in Collectors PROVE EvictsCold(g)'
  BY ColdStays DEF EvictsCold, ColdInv, TypeInv
<1>3. ASSUME NEW b \in Builds PROVE Gone(row[b])' => Cold(b)'
  BY ColdStays DEF ColdInv, WritesCold
<1> QED BY <1>1, <1>2, <1>3 DEF ColdInv

LEMMA CollectColdStep ==
    ASSUME TypeInv, HatchInv, ColdInv, [Next]_vars, NEW g \in Collectors, OtherCollectors(g),
           UNCHANGED request, EvictsCold(g)', WritesCold
    PROVE  ColdInv'
<1>1. ASSUME NEW q \in Requests PROVE RebuildsCold(q)'
  <2>1. request'[q] = request[q] /\ RebuildsCold(q)
    BY DEF ColdInv
  <2>2. request[q].pc \in RebuildPcs => request[q].build \in Builds
    BY DEF TypeInv, Placed, RebuildPcs
  <2> QED BY <2>1, <2>2, ColdStays DEF RebuildsCold
<1>2. ASSUME NEW h \in Collectors \ {g} PROVE EvictsCold(h)'
  <2>1. collector'[h] = collector[h] /\ EvictsCold(h)
    BY DEF OtherCollectors, ColdInv
  <2>2. collector[h].pc \in {"mark", "delete", "clear"} => collector[h].build \in Builds
    BY DEF TypeInv
  <2> QED BY <2>1, <2>2, ColdStays DEF EvictsCold
<1>3. ASSUME NEW b \in Builds PROVE Gone(row[b])' => Cold(b)'
  BY ColdStays DEF ColdInv, WritesCold
<1> QED BY <1>1, <1>2, <1>3 DEF ColdInv

LEMMA UnwrittenIsCold == UNCHANGED row => WritesCold
BY DEF WritesCold

LEMMA WrittenIsCold ==
    ASSUME NEW b \in Builds, NEW new, Writes(b, new), Gone(new) => Cold(b)
    PROVE  WritesCold
BY DEF Writes, WritesCold

\* A frame that leaves, or moves without its copy changing.
LEMMA CalmFrames ==
    ASSUME TypeInv, HatchInv, ColdInv, [Next]_vars, NEW r \in Requests,
           \/ Leaves(r)
           \/ \E pc : /\ Becomes(r, pc, request[r].copy, request[r].was, request'[r].path)
                      /\ pc \in RebuildPcs => request[r].pc \in RebuildPcs
    PROVE  RebuildsCold(r)'
<1>1. CASE Leaves(r)
  BY <1>1, FramesAre DEF Leaves, RebuildsCold, RebuildPcs
<1>2. ASSUME NEW pc, Becomes(r, pc, request[r].copy, request[r].was, request'[r].path),
             pc \in RebuildPcs => request[r].pc \in RebuildPcs
      PROVE  RebuildsCold(r)'
  <2>1. RebuildsCold(r) /\ (request[r].pc \in RebuildPcs => request[r].build \in Builds)
    BY DEF ColdInv, TypeInv, Placed, RebuildPcs
  <2> QED BY <1>2, <2>1, ColdStays DEF Becomes, RebuildsCold
<1> QED BY <1>1, <1>2

LEMMA RequestCold ==
    ASSUME TypeInv, HatchInv, ColdInv, [Next]_vars, NEW r \in Requests,
           Advance(r) \/ Lock(r) \/ Cancel(r) \/ CrashRequest(r)
    PROVE  ColdInv'
<1> DEFINE b == request[r].build e == request[r]
<1>0. Others(r) /\ RebuildsCold(r)
  BY RequestNurses DEF Nurses, ColdInv
<1>1. ASSUME NEW pc, Moves(r, pc), pc \in RebuildPcs => e.pc \in RebuildPcs, UNCHANGED <<collector, row>>
      PROVE  ColdInv'
  <2>1. RebuildsCold(r)'
    BY <1>1, CalmFrames DEF Moves, Becomes
  <2> QED BY <1>0, <1>1, <2>1, UnwrittenIsCold, RequestColdStep
<1>2. ASSUME Leaves(r) \/ Fails(r), UNCHANGED <<collector, row>> PROVE ColdInv'
  <2>1. RebuildsCold(r)'
    BY <1>2, CalmFrames DEF Fails
  <2> QED BY <1>0, <1>2, <2>1, UnwrittenIsCold, RequestColdStep
<1>3. ASSUME NEW pc, NEW path, Becomes(r, pc, e.copy, e.was, path),
             pc \in RebuildPcs => e.pc \in RebuildPcs, UNCHANGED collector, WritesCold
      PROVE  ColdInv'
  <2>1. RebuildsCold(r)'
    BY <1>3, CalmFrames DEF Becomes
  <2> QED BY <1>0, <1>3, <2>1, RequestColdStep
<1>4. CASE Ensure(r)
  BY <1>1, <1>3, <1>4, EnsureDoes, UnwrittenIsCold DEF Tables, RebuildPcs
<1>5. CASE GiveUp(r)
  BY <1>2, <1>5, GiveUpDoes
<1>6. CASE BeginRebuild(r)
  <2>1. CASE Fails(r)
    BY <1>2, <1>6, <2>1, BeginRebuildDoes
  <2>2. CASE Becomes(r, "mark", row[b], row[b].evicted, e.path) /\ build[b] = "completed"
    <3>1. b \in Builds /\ UNCHANGED <<collector, row>>
      BY <1>6, BeginRebuildDoes
    <3>2. row[b].evicted => Cold(b)
      BY <3>1 DEF ColdInv, Gone
    <3>3. RebuildsCold(r)'
      BY <2>2, <3>1, <3>2, ColdStays DEF Becomes, RebuildsCold
    <3> QED BY <1>0, <3>1, <3>3, UnwrittenIsCold, RequestColdStep
  <2> QED BY <1>6, <2>1, <2>2, BeginRebuildDoes
<1>7. CASE MarkRebuilding(r)
  <2> DEFINE new == [e.copy EXCEPT !.state = "rebuilding"]
  <2>1. e \in RequestFrame /\ b \in Builds /\ Writes(b, new) /\ UNCHANGED collector
        /\ Becomes(r, "collect", e.copy, e.was, e.path) /\ e.pc = "mark"
    BY <1>7, MarkRebuildingDoes DEF TypeInv, TypeOK
  <2>2. new.state = "rebuilding" /\ new.evicted = e.copy.evicted
    BY <2>1, StateUpdate DEF RequestFrame, RowStates
  <2> HIDE DEF new
  <2>3. Gone(new) => Cold(b)
    BY <1>0, <2>1, <2>2 DEF RebuildsCold, RebuildPcs, Gone
  <2>4. WritesCold
    BY <2>1, <2>3, WrittenIsCold
  <2> QED BY <1>3, <2>1, <2>4 DEF RebuildPcs
<1>8. CASE CollectChain(r)
  BY <1>1, <1>3, <1>8, CollectChainDoes, UnwrittenIsCold DEF Tables, RebuildPcs
<1>9. CASE ReplayChain(r)
  BY <1>1, <1>3, <1>9, ReplayChainDoes, UnwrittenIsCold DEF RebuildPcs
<1>10. CASE RecordRebuilt(r)
  <2>1. CASE Writes(b, Rebuilt(r)) /\ Moves(r, "touch")
    <3>1. ~Gone(Rebuilt(r)) /\ b \in Builds /\ UNCHANGED collector
      BY <1>10, RecordRebuiltDoes DEF Gone, Rebuilt
    <3> QED BY <1>3, <2>1, <3>1, WrittenIsCold DEF Moves, RebuildPcs
  <2>2. CASE UNCHANGED row /\ Becomes(r, "revert", Rebuilt(r), e.was, e.path)
    <3>1. b \in Builds /\ UNCHANGED collector /\ e.pc = "record"
      BY <1>10, RecordRebuiltDoes
    <3>2. ~Rebuilt(r).evicted
      BY DEF Rebuilt
    <3>3. RebuildsCold(r)'
      BY <1>0, <2>2, <3>1, <3>2, ColdStays DEF Becomes, RebuildsCold, RebuildPcs
    <3> QED BY <1>0, <2>2, <3>1, <3>3, UnwrittenIsCold, RequestColdStep
  <2> QED BY <1>10, <2>1, <2>2, RecordRebuiltDoes
<1>11. CASE Revert(r)
  <2>1. b \in Builds /\ UNCHANGED collector /\ Fails(r) /\ e.pc = "revert"
    BY <1>11, RevertDoes
  <2>2. CASE UNCHANGED row
    BY <1>2, <2>1, <2>2
  <2>3. CASE e.was /\ Writes(b, [e.copy EXCEPT !.state = "evicted"])
    <3>1. Cold(b)
      BY <1>0, <2>1, <2>3 DEF RebuildsCold, RebuildPcs
    <3>2. WritesCold
      BY <2>1, <2>3, <3>1, WrittenIsCold
    <3>3. RebuildsCold(r)'
      BY <2>1, CalmFrames DEF Fails
    <3> QED BY <1>0, <2>1, <3>2, <3>3, RequestColdStep
  <2> QED BY <1>11, <2>2, <2>3, RevertDoes
<1>12. CASE Touch(r)
  BY <1>1, <1>2, <1>12, TouchDoes DEF RebuildPcs
<1>13. CASE Materialize(r)
  BY <1>1, <1>2, <1>13, MaterializeDoes DEF RebuildPcs
<1>14. CASE Publish(r)
  <2>1. ~Gone(Pushed) /\ e.child \in Builds /\ Writes(e.child, Pushed) /\ UNCHANGED collector
        /\ Leaves(r)
    BY <1>14, PublishDoes DEF Gone, Pushed
  <2>2. WritesCold
    BY <2>1, WrittenIsCold
  <2> QED BY <1>0, <2>1, <2>2, CalmFrames, RequestColdStep
<1>15. CASE Lock(r)
  BY <1>3, <1>15, LockDoes, UnwrittenIsCold DEF Tables, RebuildPcs
<1>16. CASE Cancel(r)
  BY <1>1, <1>16, CancelDoes DEF Tables
<1>17. CASE CrashRequest(r)
  BY <1>2, <1>17, CrashRequestDoes
<1> QED BY <1>4, <1>5, <1>6, <1>7, <1>8, <1>9, <1>10, <1>11, <1>12, <1>13, <1>14, <1>15, <1>16, <1>17
        DEF Advance

LEMMA CollectCold ==
    ASSUME TypeInv, HatchInv, ColdInv, [Next]_vars, NEW g \in Collectors,
           ListEvictable(g) \/ ListLeftover(g) \/ Collect(g) \/ CrashCollector(g)
    PROVE  ColdInv'
<1> DEFINE b == collector[g].build
<1>0. OtherCollectors(g) /\ UNCHANGED request /\ EvictsCold(g)
  BY CollectorKeeps DEF ColdInv
<1>1. ASSUME Rests(g), WritesCold PROVE ColdInv'
  <2>1. EvictsCold(g)'
    BY <1>1, FramesAre DEF Rests, EvictsCold
  <2> QED BY <1>0, <1>1, <2>1, CollectColdStep
<1>2. ASSUME NEW pc, NEW copy, Takes(g, pc, copy), Cold(b) \/ pc = "verify", b \in Builds, WritesCold
      PROVE  ColdInv'
  <2>1. EvictsCold(g)'
    BY <1>2, ColdStays DEF Takes, EvictsCold
  <2> QED BY <1>0, <1>2, <2>1, CollectColdStep
<1>3. CASE ListEvictable(g) \/ ListLeftover(g)
  <2>1. EvictsCold(g)' /\ UNCHANGED row
    BY <1>3, ListDoes DEF EvictsCold, Tables
  <2> QED BY <1>0, <2>1, UnwrittenIsCold, CollectColdStep
<1>4. CASE TryLock(g)
  BY <1>1, <1>2, <1>4, TryLockDoes, WorkingCollector, UnwrittenIsCold DEF Tables
<1>5. CASE Verify(g)
  <2>1. b \in Builds /\ WritesCold
    BY <1>5, VerifyDoes, WorkingCollector, UnwrittenIsCold DEF Tables
  <2>2. EvictionGuard(b) \/ row[b].state = "evicted" => Cold(b)
    BY <2>1 DEF EvictionGuard, Cold, ColdInv, Gone
  <2> QED BY <1>1, <1>2, <1>5, <2>1, <2>2, VerifyDoes
<1>6. CASE MarkEvicted(g)
  <2> DEFINE marked == [collector[g].copy EXCEPT !.state = "evicted", !.evicted = TRUE]
  <2>1. b \in Builds /\ Cold(b) /\ Takes(g, "delete", marked) /\ Writes(b, marked)
    BY <1>0, <1>6, MarkEvictedDoes DEF EvictsCold
  <2> HIDE DEF marked
  <2> QED BY <1>2, <2>1, WrittenIsCold
<1>7. CASE DeleteObject(g)
  BY <1>0, <1>1, <1>2, <1>7, DeleteObjectDoes, WorkingCollector, UnwrittenIsCold DEF EvictsCold
<1>8. CASE ClearPath(g)
  <2> DEFINE cleared == [collector[g].copy EXCEPT !.path = 0]
  <2>1. b \in Builds /\ Cold(b) /\ Rests(g) /\ Writes(b, cleared)
    BY <1>0, <1>8, ClearPathDoes DEF EvictsCold
  <2> HIDE DEF cleared
  <2> QED BY <1>1, <2>1, WrittenIsCold
<1>9. CASE CrashCollector(g)
  BY <1>1, <1>9, CrashCollectorDoes, UnwrittenIsCold DEF Tables
<1> QED BY <1>3, <1>4, <1>5, <1>6, <1>7, <1>8, <1>9 DEF Collect

LEMMA ColdStep == TypeInv /\ HatchInv /\ ColdInv /\ [Next]_vars => ColdInv'
<1> SUFFICES ASSUME TypeInv, HatchInv, ColdInv, [Next]_vars PROVE ColdInv'
  OBVIOUS
<1>1. ASSUME NEW r \in Requests, NEW b \in Builds, Download(r, b) \/ Push(r, b) PROVE ColdInv'
  <2>1. RebuildsCold(r)' /\ Others(r) /\ UNCHANGED <<collector, row>>
    BY <1>1, DownloadDoes DEF RebuildsCold, RebuildPcs, Tables
  <2> QED BY <2>1, UnwrittenIsCold, RequestColdStep
<1>2. ASSUME UNCHANGED <<build, stored, head, row, request, collector>> PROVE ColdInv'
  BY <1>2 DEF ColdInv, RebuildsCold, EvictsCold, Cold, Gone
<1> QED BY <1>1, <1>2, RequestCold, CollectCold, EnvironmentDoes DEF Next, vars

LEMMA ColdInvHolds == Spec => [](HatchInv /\ ColdInv)
BY HatchInit, HatchStep, ColdInit, ColdStep, TypeInvHolds, PTL DEF Spec

\* No archive is evicted, or goes back to evicted, whose own patch or signature
\* is missing, with any number of requests, collectors and faults.
THEOREM EvictedCanBeRebuilt == Spec => []EvictedIsRebuildable
<1>1. ColdInv => EvictedIsRebuildable
  BY DEF ColdInv, EvictedIsRebuildable, Gone, Cold
<1> QED BY <1>1, ColdInvHolds, PTL

\* The channel's current build is never left evicted: evictArchive's guard is
\* about the row it then writes, and a push makes only its own build the head.
THEOREM HeadsStayCached == Spec => []HeadIsNotEvicted
<1>1. TypeInv /\ ColdInv => HeadIsNotEvicted
  BY DEF ColdInv, HeadIsNotEvicted, Gone, Cold, TypeInv, TypeOK
<1> QED BY <1>1, ColdInvHolds, TypeInvHolds, PTL

-----------------------------------------------------------------------------
(* Uploaded rows name stored objects *)

\* An archive that is stored and not recorded yet has a key of its own.
RecordsFit(r) ==
    LET b == request[r].build n == request[r].path IN
    request[r].pc = "record" =>
        /\ <<b, n>> \in objects /\ row[b].path # n
        /\ \A q \in Requests \ {r} :
              request[q].build = b => n # request[q].copy.path /\ n # request[q].path
        /\ \A g \in Collectors : collector[g].build = b => collector[g].copy.path # n

\* The key that a collector deletes is not the row's any more.
DeletesFit(g) ==
    LET b == collector[g].build copy == collector[g].copy IN
    /\ collector[g].pc \in {"delete", "clear"} => copy.state = "evicted"
    /\ collector[g].pc = "delete" => ~(row[b].state = "uploaded" /\ row[b].path = copy.path)

StoreInv ==
    /\ \A r \in Requests : RecordsFit(r)
    /\ \A g \in Collectors : DeletesFit(g)
    /\ UploadedIsStored

\* The key n of b is not that of an archive still to be recorded by one of rs.
Spares(b, n, rs) ==
    \A q \in rs : request[q].pc = "record" /\ request[q].build = b => request[q].path # n

LEMMA SparedKeys ==
    ASSUME TypeInv, StoreInv, NEW b
    PROVE  /\ Spares(b, 0, Requests) /\ Spares(b, row[b].path, Requests)
           /\ \A n \in NewKeys(b) : Spares(b, n, Requests)
           /\ \A r \in Requests : request[r].build = b =>
                 /\ Spares(b, request[r].copy.path, Requests \ {r})
                 /\ Spares(b, request[r].path, Requests \ {r})
           /\ \A g \in Collectors : collector[g].build = b => Spares(b, collector[g].copy.path, Requests)
<1>1. Spares(b, 0, Requests)
  BY DEF TypeInv, Placed, Spares
<1>2. Spares(b, row[b].path, Requests)
  BY DEF StoreInv, RecordsFit, Spares
<1>3. \A n \in NewKeys(b) : Spares(b, n, Requests)
  BY DEF NewKeys, Spares
<1>4. ASSUME NEW r \in Requests, request[r].build = b
      PROVE  Spares(b, request[r].copy.path, Requests \ {r}) /\ Spares(b, request[r].path, Requests \ {r})
  BY <1>4 DEF StoreInv, RecordsFit, Spares
<1>5. ASSUME NEW g \in Collectors, collector[g].build = b
      PROVE  Spares(b, collector[g].copy.path, Requests)
  BY <1>5 DEF StoreInv, RecordsFit, Spares
<1> QED BY <1>1, <1>2, <1>3, <1>4, <1>5

\* What a request may write: a key that nobody waits to record and, in an
\* uploaded row, one that is stored and that no collector deletes.
Deleted(b) == {collector[g].copy.path : g \in {h \in Collectors : collector[h].pc = "delete" /\ collector[h].build = b}}

MayWrite(r, b, new) ==
    /\ Spares(b, new.path, Requests \ {r})
    /\ new.state = "uploaded" => <<b, new.path>> \in objects' /\ new.path \notin Deleted(b)

LEMMA RequestStoreStep ==
    ASSUME TypeInv, StoreInv, NEW r \in Requests, Others(r), UNCHANGED collector,
           objects \subseteq objects', RecordsFit(r)',
           Spares(request'[r].build, request'[r].copy.path, Requests \ {r}),
           Spares(request'[r].build, request'[r].path, Requests \ {r}),
           \A b \in Builds : row'[b] = row[b] \/ MayWrite(r, b, row'[b])
    PROVE  StoreInv'
<1>1. ASSUME NEW q \in Requests \ {r} PROVE RecordsFit(q)'
  <2> SUFFICES ASSUME request'[q].pc = "record" PROVE RecordsFit(q)'
    BY DEF RecordsFit
  <2> DEFINE b == request[q].build n == request[q].path
  <2>1. request'[q] = request[q] /\ RecordsFit(q) /\ request[q].pc = "record" /\ b \in Builds
    BY DEF Others, StoreInv, TypeInv, Placed
  <2>2. <<b, n>> \in objects' /\ \A g \in Collectors : collector'[g].build = b => collector'[g].copy.path # n
    BY <2>1 DEF RecordsFit
  <2>3. row'[b].path # n
    BY <2>1 DEF RecordsFit, MayWrite, Spares
  <2>4. ASSUME NEW p \in Requests \ {q}, request'[p].build = b
        PROVE  n # request'[p].copy.path /\ n # request'[p].path
    BY <2>1, <2>4 DEF RecordsFit, Spares, Others
  <2> QED BY <2>1, <2>2, <2>3, <2>4 DEF RecordsFit
<1>2. ASSUME NEW g \in Collectors PROVE DeletesFit(g)'
  <2> DEFINE b == collector[g].build
  <2>1. DeletesFit(g) /\ collector' = collector /\ (collector[g].pc # "idle" => b \in Builds)
    BY DEF StoreInv, TypeInv
  <2>2. collector[g].pc = "delete" => collector[g].copy.path \in Deleted(b)
    BY DEF Deleted
  <2> QED BY <2>1, <2>2 DEF DeletesFit, MayWrite
<1>3. UploadedIsStored'
  BY DEF StoreInv, UploadedIsStored, MayWrite
<1> QED BY <1>1, <1>2, <1>3 DEF StoreInv

LEMMA CollectStoreStep ==
    ASSUME TypeInv, StoreInv, NEW g \in Collectors, OtherCollectors(g), UNCHANGED request,
           DeletesFit(g)', Spares(collector'[g].build, collector'[g].copy.path, Requests),
           \A b \in Builds : \/ row'[b] = row[b]
                             \/ row'[b].state # "uploaded" /\ Spares(b, row'[b].path, Requests),
           \A b \in Builds, n \in Nat : <<b, n>> \in objects \ objects' =>
              Spares(b, n, Requests) /\ ~(row'[b].state = "uploaded" /\ row'[b].path = n)
    PROVE  StoreInv'
<1>1. ASSUME NEW q \in Requests PROVE RecordsFit(q)'
  <2> SUFFICES ASSUME request[q].pc = "record" PROVE RecordsFit(q)'
    BY DEF RecordsFit
  <2> DEFINE b == request[q].build n == request[q].path
  <2>1. RecordsFit(q) /\ b \in Builds /\ n \in Nat
    BY DEF StoreInv, TypeInv, TypeOK, Placed, RequestFrame, Paths
  <2>2. <<b, n>> \in objects'
    BY <2>1 DEF RecordsFit, Spares
  <2>3. row'[b].path # n
    BY <2>1 DEF RecordsFit, Spares
  <2>4. ASSUME NEW h \in Collectors, collector'[h].build = b PROVE collector'[h].copy.path # n
    BY <2>1, <2>4 DEF RecordsFit, Spares, OtherCollectors
  <2> QED BY <2>1, <2>2, <2>3, <2>4 DEF RecordsFit
<1>2. ASSUME NEW h \in Collectors \ {g} PROVE DeletesFit(h)'
  <2>1. DeletesFit(h) /\ collector'[h] = collector[h]
        /\ (collector[h].pc # "idle" => collector[h].build \in Builds)
    BY DEF StoreInv, TypeInv, OtherCollectors
  <2> QED BY <2>1 DEF DeletesFit
<1>3. UploadedIsStored'
  <2> SUFFICES ASSUME NEW b \in Builds, row'[b].state = "uploaded" PROVE <<b, row'[b].path>> \in objects'
    BY DEF UploadedIsStored
  <2>1. <<b, row'[b].path>> \in objects /\ row'[b].path \in Nat
    BY DEF StoreInv, UploadedIsStored, TypeInv, TypeOK, Row, Paths
  <2> QED BY <2>1
<1> QED BY <1>1, <1>2, <1>3 DEF StoreInv

LEMMA StoreInit == Init => StoreInv
BY FramesAre DEF Init, StoreInv, RecordsFit, DeletesFit, UploadedIsStored, NoRow

LEMMA LeavesStore ==
    ASSUME TypeInv, StoreInv, NEW r \in Requests, Leaves(r), UNCHANGED <<collector, row, objects>>
    PROVE  StoreInv'
<1>1. request'[r].path = 0 /\ request'[r].copy.path = 0 /\ request'[r].pc = "idle"
  BY DEF Leaves, Free, NoRow
<1>2. RecordsFit(r)' /\ Others(r)
  BY <1>1 DEF RecordsFit, Leaves
<1>3. Spares(request'[r].build, 0, Requests \ {r})
  BY SparedKeys DEF Spares
<1> QED BY <1>1, <1>2, <1>3, RequestStoreStep

\* A frame that takes over a row's path, or moves as it is.
LEMMA CalmStore ==
    ASSUME TypeInv, StoreInv, NEW r \in Requests, NEW pc, NEW copy, NEW was, NEW path,
           Becomes(r, pc, copy, was, path), pc # "record", UNCHANGED collector,
           objects' = objects,
           copy.path \in {request[r].copy.path, request[r].path, row[request[r].build].path},
           path \in {request[r].path, row[request[r].build].path},
           \A b \in Builds : row'[b] = row[b] \/ MayWrite(r, b, row'[b])
    PROVE  StoreInv'
<1> DEFINE b == request[r].build
<1>1. /\ Spares(b, request[r].copy.path, Requests \ {r}) /\ Spares(b, request[r].path, Requests \ {r})
      /\ Spares(b, row[b].path, Requests \ {r})
  BY SparedKeys DEF Spares
<1>2. /\ Others(r) /\ request'[r].build = b /\ request'[r].pc = pc /\ request'[r].copy = copy
      /\ request'[r].path = path
  BY DEF Becomes
<1>3. RecordsFit(r)'
  BY <1>2 DEF RecordsFit
<1> QED BY <1>1, <1>2, <1>3, RequestStoreStep

LEMMA WrittenStore ==
    ASSUME NEW r, NEW b \in Builds, NEW new, Writes(b, new), MayWrite(r, b, new)
    PROVE  \A c \in Builds : row'[c] = row[c] \/ MayWrite(r, c, row'[c])
BY DEF Writes

LEMMA RequestStore ==
    ASSUME TypeInv, HatchInv, ColdInv, StoreInv, NEW r \in Requests,
           Advance(r) \/ Lock(r) \/ Cancel(r) \/ CrashRequest(r)
    PROVE  StoreInv'
<1> DEFINE b == request[r].build e == request[r]
<1>0. /\ Spares(b, e.copy.path, Requests \ {r}) /\ Spares(b, e.path, Requests \ {r})
      /\ Spares(b, row[b].path, Requests \ {r}) /\ RecordsFit(r)
  BY SparedKeys DEF Spares, StoreInv
<1>1. ASSUME NEW pc, Moves(r, pc), pc # "record", UNCHANGED <<collector, row, objects>>
      PROVE  StoreInv'
  BY <1>1, CalmStore DEF Moves
<1>2. ASSUME Leaves(r) \/ Fails(r), UNCHANGED <<collector, row, objects>> PROVE StoreInv'
  BY <1>2, LeavesStore DEF Fails
<1>3. CASE Ensure(r)
  <2>1. UNCHANGED <<collector, row, objects>>
    BY <1>3, EnsureDoes DEF Tables
  <2>2. CASE Becomes(r, "touch", e.copy, e.was, row[b].path)
    BY <2>1, <2>2, CalmStore
  <2> QED BY <1>1, <1>3, <2>1, <2>2, EnsureDoes
<1>4. CASE GiveUp(r)
  BY <1>2, <1>4, GiveUpDoes
<1>5. CASE BeginRebuild(r)
  <2>1. UNCHANGED <<collector, row, objects>>
    BY <1>5, BeginRebuildDoes
  <2>2. CASE Becomes(r, "mark", row[b], row[b].evicted, e.path)
    BY <2>1, <2>2, CalmStore
  <2> QED BY <1>2, <1>5, <2>1, <2>2, BeginRebuildDoes
<1>6. CASE MarkRebuilding(r)
  <2> DEFINE new == [e.copy EXCEPT !.state = "rebuilding"]
  <2>1. e \in RequestFrame /\ b \in Builds /\ Writes(b, new) /\ UNCHANGED <<collector, objects>>
        /\ Becomes(r, "collect", e.copy, e.was, e.path)
    BY <1>6, MarkRebuildingDoes DEF TypeInv, TypeOK
  <2>2. new.state = "rebuilding" /\ new.path = e.copy.path
    BY <2>1, StateUpdate DEF RequestFrame, RowStates
  <2> HIDE DEF new
  <2>3. MayWrite(r, b, new)
    BY <1>0, <2>2 DEF MayWrite
  <2>4. \A c \in Builds : row'[c] = row[c] \/ MayWrite(r, c, row'[c])
    BY <2>1, <2>3, WrittenStore
  <2> QED BY <2>1, <2>4, CalmStore
<1>7. CASE CollectChain(r)
  <2>1. UNCHANGED <<collector, row, objects>>
    BY <1>7, CollectChainDoes DEF Tables
  <2>2. CASE Becomes(r, "collect", e.copy, e.was, e.path)
    BY <2>1, <2>2, CalmStore
  <2> QED BY <1>1, <1>7, <2>1, <2>2, CollectChainDoes
<1>8. CASE ReplayChain(r)
  <2>1. b \in Builds /\ UNCHANGED <<collector, row>>
    BY <1>8, ReplayChainDoes
  <2>2. ASSUME NEW key \in NewKeys(b), objects' = objects \cup {<<b, key>>},
               Becomes(r, "record", e.copy, e.was, key)
        PROVE  StoreInv'
    <3>1. Spares(b, key, Requests \ {r})
      BY SparedKeys DEF Spares
    <3>2. /\ Others(r) /\ request'[r].build = b /\ request'[r].copy = e.copy
          /\ request'[r].path = key
      BY <2>2 DEF Becomes
    <3>3. \A q \in Requests \ {r} :
             request'[q].build = b => key # request'[q].copy.path /\ key # request'[q].path
      BY <3>2 DEF NewKeys, Others
    <3>4. \A g \in Collectors : collector'[g].build = b => collector'[g].copy.path # key
      BY <2>1 DEF NewKeys
    <3>5. <<b, key>> \in objects' /\ row'[b].path # key
      BY <2>1, <2>2 DEF NewKeys
    <3>6. RecordsFit(r)'
      BY <3>2, <3>3, <3>4, <3>5 DEF RecordsFit
    <3> QED BY <1>0, <2>1, <2>2, <3>1, <3>2, <3>6, RequestStoreStep
  <2> QED BY <1>1, <1>8, <2>1, <2>2, ReplayChainDoes
<1>9. CASE RecordRebuilt(r)
  <2>1. b \in Builds /\ UNCHANGED <<collector, objects>> /\ e.pc = "record"
    BY <1>9, RecordRebuiltDoes
  <2>2. Rebuilt(r).path = e.path
    BY DEF Rebuilt
  <2>3. CASE Writes(b, Rebuilt(r)) /\ Moves(r, "touch")
    <3>1. <<b, e.path>> \in objects' /\ e.path \notin Deleted(b)
      BY <1>0, <2>1 DEF RecordsFit, Deleted
    <3>2. MayWrite(r, b, Rebuilt(r))
      BY <1>0, <2>2, <3>1 DEF MayWrite
    <3>3. \A c \in Builds : row'[c] = row[c] \/ MayWrite(r, c, row'[c])
      BY <2>1, <2>3, <3>2, WrittenStore
    <3> QED BY <2>1, <2>3, <3>3, CalmStore DEF Moves
  <2>4. CASE UNCHANGED row /\ Becomes(r, "revert", Rebuilt(r), e.was, e.path)
    BY <2>1, <2>2, <2>4, CalmStore
  <2> QED BY <1>9, <2>3, <2>4, RecordRebuiltDoes
<1>10. CASE Revert(r)
  <2> DEFINE new == [e.copy EXCEPT !.state = "evicted"]
  <2>1. e \in RequestFrame /\ b \in Builds /\ UNCHANGED <<collector, objects>> /\ Leaves(r)
    BY <1>10, RevertDoes DEF TypeInv, TypeOK, Fails
  <2>2. new.state = "evicted" /\ new.path = e.copy.path
    BY <2>1, StateUpdate DEF RequestFrame, RowStates
  <2>3. CASE UNCHANGED row
    BY <1>2, <2>1, <2>3
  <2>4. CASE Writes(b, new)
    <3> HIDE DEF new
    <3>1. MayWrite(r, b, new)
      BY <1>0, <2>2 DEF MayWrite
    <3>2. \A c \in Builds : row'[c] = row[c] \/ MayWrite(r, c, row'[c])
      BY <2>1, <2>4, <3>1, WrittenStore
    <3>3. request'[r].path = 0 /\ request'[r].copy.path = 0 /\ RecordsFit(r)' /\ Others(r)
      BY <2>1 DEF Leaves, Free, NoRow, RecordsFit
    <3>4. Spares(request'[r].build, 0, Requests \ {r})
      BY SparedKeys DEF Spares
    <3> QED BY <2>1, <3>2, <3>3, <3>4, RequestStoreStep
  <2> QED BY <1>10, <2>3, <2>4, RevertDoes
<1>11. CASE Touch(r)
  BY <1>1, <1>2, <1>11, TouchDoes
<1>12. CASE Materialize(r)
  BY <1>1, <1>2, <1>12, MaterializeDoes
<1>13. CASE Publish(r)
  <2> DEFINE c == e.child
  <2>1. /\ c \in Builds /\ Writes(c, Pushed) /\ UNCHANGED collector /\ Leaves(r)
        /\ objects' = objects \cup {<<c, 1>>} /\ Pushed.state = "uploaded" /\ Pushed.path = 1
    BY <1>13, PublishDoes DEF Pushed
  <2>2. build[c] = "started"
    BY <2>1, FramesAre DEF HatchInv
  <2>3. Spares(c, 1, Requests \ {r})
    BY <2>2 DEF Spares, ColdInv, RebuildsCold, RebuildPcs
  <2>4. Deleted(c) = {}
    BY <2>2 DEF Deleted, ColdInv, EvictsCold, Cold
  <2>5. MayWrite(r, c, Pushed)
    BY <2>1, <2>3, <2>4 DEF MayWrite
  <2>6. \A d \in Builds : row'[d] = row[d] \/ MayWrite(r, d, row'[d])
    BY <2>1, <2>5, WrittenStore
  <2>7. request'[r].path = 0 /\ request'[r].copy.path = 0 /\ RecordsFit(r)' /\ Others(r)
    BY <2>1 DEF Leaves, Free, NoRow, RecordsFit
  <2>8. Spares(request'[r].build, 0, Requests \ {r})
    BY SparedKeys DEF Spares
  <2> QED BY <2>1, <2>6, <2>7, <2>8, RequestStoreStep
<1>14. CASE Lock(r)
  <2>1. UNCHANGED <<collector, row, objects>> /\ Becomes(r, "ensure", e.copy, e.was, e.path)
    BY <1>14, LockDoes DEF Tables
  <2> QED BY <2>1, CalmStore
<1>15. CASE Cancel(r)
  <2>1. e.pc # "record"
    BY <1>15 DEF Cancel
  <2> QED BY <1>1, <1>15, <2>1, CancelDoes DEF Tables
<1>16. CASE CrashRequest(r)
  BY <1>2, <1>16, CrashRequestDoes
<1> QED BY <1>3, <1>4, <1>5, <1>6, <1>7, <1>8, <1>9, <1>10, <1>11, <1>12, <1>13, <1>14, <1>15, <1>16
        DEF Advance

LEMMA CollectStore ==
    ASSUME TypeInv, HatchInv, ColdInv, StoreInv, NEW g \in Collectors,
           ListEvictable(g) \/ ListLeftover(g) \/ Collect(g) \/ CrashCollector(g)
    PROVE  StoreInv'
<1> DEFINE b == collector[g].build copy == collector[g].copy
<1>0. /\ OtherCollectors(g) /\ UNCHANGED request /\ DeletesFit(g) /\ Spares(b, copy.path, Requests)
      /\ Spares(b, row[b].path, Requests) /\ \A c : Spares(c, 0, Requests)
  BY CollectorKeeps, SparedKeys DEF StoreInv
<1>1. ASSUME Rests(g), objects' = objects,
             \A c \in Builds : \/ row'[c] = row[c]
                               \/ row'[c].state # "uploaded" /\ Spares(c, row'[c].path, Requests)
      PROVE  StoreInv'
  <2>1. DeletesFit(g)' /\ collector'[g].copy.path = 0
    BY <1>1 DEF Rests, Rest, NoRow, DeletesFit
  <2> QED BY <1>0, <1>1, <2>1, CollectStoreStep
<1>2. ASSUME NEW pc, NEW new, Takes(g, pc, new), pc \notin {"delete", "clear"},
             new.path \in {copy.path, row[b].path}, UNCHANGED <<row, objects>>
      PROVE  StoreInv'
  <2>1. DeletesFit(g)' /\ collector'[g].copy = new /\ collector'[g].build = b
    BY <1>2 DEF Takes, DeletesFit
  <2> QED BY <1>0, <1>2, <2>1, CollectStoreStep
<1>3. CASE ListEvictable(g) \/ ListLeftover(g)
  <2>1. DeletesFit(g)' /\ collector'[g].copy.path = 0 /\ UNCHANGED <<row, objects>>
    BY <1>3, ListDoes DEF DeletesFit, NoRow, Tables
  <2> QED BY <1>0, <2>1, CollectStoreStep
<1>4. CASE TryLock(g)
  BY <1>1, <1>2, <1>4, TryLockDoes DEF Tables
<1>5. CASE Verify(g)
  <2>1. UNCHANGED <<row, objects>>
    BY <1>5, VerifyDoes DEF Tables
  <2>2. CASE row[b].state = "evicted" /\ Takes(g, "delete", row[b])
    <3>1. DeletesFit(g)' /\ collector'[g].copy = row[b] /\ collector'[g].build = b
      BY <2>1, <2>2 DEF Takes, DeletesFit
    <3> QED BY <1>0, <2>1, <3>1, CollectStoreStep
  <2> QED BY <1>1, <1>2, <1>5, <2>1, <2>2, VerifyDoes
<1>6. CASE MarkEvicted(g)
  <2> DEFINE marked == [copy EXCEPT !.state = "evicted", !.evicted = TRUE]
  <2>1. /\ b \in Builds /\ Takes(g, "delete", marked) /\ Writes(b, marked) /\ UNCHANGED objects
        /\ marked.state = "evicted" /\ marked.path = copy.path
    BY <1>6, MarkEvictedDoes
  <2> HIDE DEF marked
  <2>2. DeletesFit(g)' /\ collector'[g].copy = marked /\ collector'[g].build = b
    BY <2>1 DEF Takes, DeletesFit, Writes
  <2> QED BY <1>0, <2>1, <2>2, CollectStoreStep DEF Writes
<1>7. CASE DeleteObject(g)
  <2>1. CASE objects' = objects \ {<<b, copy.path>>} /\ Takes(g, "clear", copy)
    <3>1. UNCHANGED row /\ collector[g].pc = "delete"
      BY <1>7, DeleteObjectDoes
    <3>2. DeletesFit(g)' /\ collector'[g].copy = copy /\ collector'[g].build = b
      BY <1>0, <2>1, <3>1 DEF Takes, DeletesFit
    <3>3. ~(row[b].state = "uploaded" /\ row[b].path = copy.path)
      BY <1>0, <3>1 DEF DeletesFit
    <3>4. \A c \in Builds, n \in Nat : <<c, n>> \in objects \ objects' => c = b /\ n = copy.path
      BY <2>1
    <3> QED BY <1>0, <3>1, <3>2, <3>3, <3>4, CollectStoreStep
  <2> QED BY <1>1, <1>7, <2>1, DeleteObjectDoes
<1>8. CASE ClearPath(g)
  <2> DEFINE cleared == [copy EXCEPT !.path = 0]
  <2>1. /\ b \in Builds /\ Rests(g) /\ Writes(b, cleared) /\ UNCHANGED objects
        /\ cleared.state = copy.state /\ cleared.path = 0 /\ collector[g].pc = "clear"
    BY <1>8, ClearPathDoes
  <2> HIDE DEF cleared
  <2>2. cleared.state # "uploaded"
    BY <1>0, <2>1 DEF DeletesFit
  <2> QED BY <1>0, <1>1, <2>1, <2>2 DEF Writes
<1>9. CASE CrashCollector(g)
  BY <1>1, <1>9, CrashCollectorDoes DEF Tables
<1> QED BY <1>3, <1>4, <1>5, <1>6, <1>7, <1>8, <1>9 DEF Collect

LEMMA StoreStep == TypeInv /\ HatchInv /\ ColdInv /\ StoreInv /\ [Next]_vars => StoreInv'
<1> SUFFICES ASSUME TypeInv, HatchInv, ColdInv, StoreInv, [Next]_vars PROVE StoreInv'
  OBVIOUS
<1>1. ASSUME NEW r \in Requests, NEW b \in Builds, Download(r, b) \/ Push(r, b) PROVE StoreInv'
  <2>1. /\ request'[r].pc # "record" /\ request'[r].path = 0 /\ request'[r].copy.path = 0
        /\ Others(r) /\ UNCHANGED <<collector, row, objects>>
    BY <1>1, DownloadDoes DEF NoRow, Tables
  <2>2. RecordsFit(r)' /\ Spares(request'[r].build, 0, Requests \ {r})
    BY <2>1, SparedKeys DEF RecordsFit, Spares
  <2> QED BY <2>1, <2>2, RequestStoreStep
<1>2. ASSUME UNCHANGED <<row, objects, request, collector>> PROVE StoreInv'
  BY <1>2 DEF StoreInv, RecordsFit, DeletesFit, UploadedIsStored
<1> QED BY <1>1, <1>2, RequestStore, CollectStore, EnvironmentDoes DEF Next, vars

\* A row that says "uploaded" names a stored object, however requests and
\* collectors interleave, crash or lose the lock they work under.
THEOREM UploadedRowsAreStored == Spec => []UploadedIsStored
<1>1. Spec => []StoreInv
  BY StoreInit, StoreStep, ColdInvHolds, TypeInvHolds, PTL DEF Spec
<1>2. StoreInv => UploadedIsStored
  BY DEF StoreInv
<1> QED BY <1>1, <1>2, PTL

-----------------------------------------------------------------------------
(* One owner of a build's archive *)

Holding(r) ==
    LET f == request[r] IN f.pc \in RebuildPcs \cup {"begin"} \/ (f.pc = "ensure" /\ f.locked)

Working(g) == collector[g].pc \in {"verify", "mark", "delete", "clear"}

LockInv ==
    faults = 0 =>
        /\ \A b \in Builds : \A p, q \in lock[b] : p = q
        /\ \A r \in Requests : Holding(r) => r \in lock[request[r].build]
        /\ \A g \in Collectors : Working(g) => g \in lock[collector[g].build]

\* What p does to the locks.
Locking(p) ==
    \A b \in Builds : \/ lock'[b] = lock[b]
                      \/ lock'[b] = lock[b] \ {p}
                      \/ lock[b] = {} /\ lock'[b] = {p}

LEMMA UnlockedIsLocking ==
    ASSUME TypeInv, NEW p, NEW b, lock' = lock \/ lock' = Unlocked(p, b) PROVE Locking(p)
BY DEF TypeInv, TypeOK, Unlocked, Locking

LEMMA FaultyLocks == ASSUME TypeInv, Fault PROVE LockInv'
BY DEF TypeInv, TypeOK, Fault, LockInv

LEMMA LockingIsExclusive ==
    ASSUME LockInv, faults = 0, NEW p, Locking(p), NEW b \in Builds
    PROVE  \A q, s \in lock'[b] : q = s
BY DEF LockInv, Locking

LEMMA LockingSpares ==
    ASSUME NEW p, Locking(p), NEW q, q # p, NEW b \in Builds, q \in lock[b]
    PROVE  q \in lock'[b]
BY DEF Locking

LEMMA RequestLockStep ==
    ASSUME TypeInv, LockInv, UNCHANGED faults, NEW r \in Requests, Others(r), UNCHANGED collector,
           Locking(r), faults = 0 /\ Holding(r)' => r \in lock'[request'[r].build]
    PROVE  LockInv'
<1> SUFFICES ASSUME faults = 0 PROVE LockInv'
  BY DEF LockInv
<1>1. ASSUME NEW q \in Requests, Holding(q)' PROVE q \in lock'[request'[q].build]
  <2>1. CASE q # r
    <3>1. Holding(q) /\ request'[q] = request[q]
      BY <1>1, <2>1 DEF Others, Holding
    <3>2. request[q].build \in Builds
      BY <3>1 DEF Holding, RebuildPcs, TypeInv, Placed
    <3> QED BY <2>1, <3>1, <3>2, LockingSpares DEF LockInv
  <2> QED BY <1>1, <2>1
<1>2. ASSUME NEW g \in Collectors, Working(g)' PROVE g \in lock'[collector'[g].build]
  <2>1. Working(g) /\ collector[g].build \in Builds /\ g # r
    BY <1>2, ProcessAssumption DEF Working, TypeInv
  <2> QED BY <2>1, LockingSpares DEF LockInv
<1> QED BY <1>1, <1>2, LockingIsExclusive DEF LockInv

LEMMA CollectLockStep ==
    ASSUME TypeInv, LockInv, UNCHANGED faults, NEW g \in Collectors, OtherCollectors(g),
           UNCHANGED request, Locking(g),
           faults = 0 /\ Working(g)' => g \in lock'[collector'[g].build]
    PROVE  LockInv'
<1> SUFFICES ASSUME faults = 0 PROVE LockInv'
  BY DEF LockInv
<1>1. ASSUME NEW q \in Requests, Holding(q)' PROVE q \in lock'[request'[q].build]
  <2>1. Holding(q) /\ q # g
    BY <1>1, ProcessAssumption DEF Holding
  <2>2. request[q].build \in Builds
    BY <2>1 DEF Holding, RebuildPcs, TypeInv, Placed
  <2> QED BY <2>1, <2>2, LockingSpares DEF LockInv
<1>2. ASSUME NEW h \in Collectors, Working(h)' PROVE h \in lock'[collector'[h].build]
  <2>1. CASE h # g
    <3>1. Working(h) /\ collector'[h] = collector[h] /\ collector[h].build \in Builds
      BY <1>2, <2>1 DEF Working, OtherCollectors, TypeInv
    <3> QED BY <2>1, <3>1, LockingSpares DEF LockInv
  <2> QED BY <1>2, <2>1
<1> QED BY <1>1, <1>2, LockingIsExclusive DEF LockInv

LEMMA RequestLocks ==
    ASSUME TypeInv, LockInv, NEW r \in Requests, Advance(r) \/ Lock(r) \/ Cancel(r) \/ CrashRequest(r)
    PROVE  LockInv'
<1> DEFINE b == request[r].build e == request[r]
<1>0. Others(r) /\ (faults = 0 /\ Holding(r) => r \in lock[b])
  BY RequestNurses DEF Nurses, LockInv
<1> SUFFICES ASSUME ~Fault PROVE LockInv'
  BY FaultyLocks
<1>1. ASSUME Leaves(r) \/ Fails(r), UNCHANGED <<collector, faults>>,
             lock' = lock \/ lock' = Unlocked(r, b)
      PROVE  LockInv'
  <2>1. ~Holding(r)'
    BY <1>1, FramesAre DEF Leaves, Fails, Holding, RebuildPcs
  <2> QED BY <1>0, <1>1, <2>1, UnlockedIsLocking, RequestLockStep
<1>2. ASSUME NEW pc, NEW copy, NEW was, NEW path, Becomes(r, pc, copy, was, path), pc # "ensure",
             pc \in RebuildPcs \cup {"begin"} => lock' = lock /\ Holding(r),
             UNCHANGED <<collector, faults>>, lock' = lock \/ lock' = Unlocked(r, b)
      PROVE  LockInv'
  <2>1. Holding(r)' => lock' = lock /\ Holding(r) /\ request'[r].build = b
    BY <1>2 DEF Becomes, Holding
  <2> QED BY <1>0, <1>2, <2>1, UnlockedIsLocking, RequestLockStep
<1>3. CASE Ensure(r)
  <2>1. UNCHANGED <<collector, lock, faults>> /\ e.pc = "ensure"
    BY <1>3, EnsureDoes DEF Tables
  <2>2. e.locked => Holding(r)
    BY <2>1 DEF Holding
  <2> QED BY <1>2, <1>3, <2>1, <2>2, EnsureDoes DEF Moves, RebuildPcs
<1>4. CASE GiveUp(r)
  BY <1>1, <1>4, GiveUpDoes
<1>5. CASE BeginRebuild(r)
  <2>1. UNCHANGED <<collector, faults>> /\ Holding(r)
    BY <1>5, BeginRebuildDoes DEF Holding
  <2> QED BY <1>1, <1>2, <1>5, <2>1, BeginRebuildDoes
<1>6. CASE MarkRebuilding(r)
  BY <1>2, <1>6, MarkRebuildingDoes DEF Holding, RebuildPcs
<1>7. CASE CollectChain(r)
  <2>1. UNCHANGED <<collector, lock, faults>> /\ Holding(r)
    BY <1>7, CollectChainDoes DEF Tables, Holding, RebuildPcs
  <2> QED BY <1>2, <1>7, <2>1, CollectChainDoes DEF Moves
<1>8. CASE ReplayChain(r)
  <2>1. UNCHANGED <<collector, lock, faults>> /\ Holding(r)
    BY <1>8, ReplayChainDoes DEF Holding, RebuildPcs
  <2> QED BY <1>2, <1>8, <2>1, ReplayChainDoes DEF Moves
<1>9. CASE RecordRebuilt(r)
  <2>1. UNCHANGED <<collector, lock, faults>> /\ Holding(r)
    BY <1>9, RecordRebuiltDoes DEF Holding, RebuildPcs
  <2> QED BY <1>2, <1>9, <2>1, RecordRebuiltDoes DEF Moves
<1>10. CASE Revert(r)
  BY <1>1, <1>10, RevertDoes
<1>11. CASE Touch(r)
  BY <1>1, <1>2, <1>11, TouchDoes DEF Moves, RebuildPcs
<1>12. CASE Materialize(r)
  BY <1>1, <1>2, <1>12, MaterializeDoes DEF Moves, RebuildPcs
<1>13. CASE Publish(r)
  BY <1>1, <1>13, PublishDoes
<1>14. CASE Lock(r)
  <2>1. /\ b \in Builds /\ UNCHANGED <<collector, faults>> /\ lock[b] = {}
        /\ lock' = [lock EXCEPT ![b] = {r}] /\ request'[r].build = b
    BY <1>14, LockDoes DEF Becomes
  <2>2. Locking(r) /\ r \in lock'[b]
    BY <2>1 DEF TypeInv, TypeOK, Locking
  <2> QED BY <1>0, <2>1, <2>2, RequestLockStep
<1>15. CASE Cancel(r)
  <2>1. UNCHANGED <<collector, lock, faults>> /\ Moves(r, e.pc)
    BY <1>15, CancelDoes
  <2>2. Holding(r)' => Holding(r) /\ request'[r].build = b
    BY <2>1 DEF Moves, Becomes, Holding
  <2> QED BY <1>0, <2>1, <2>2, UnlockedIsLocking, RequestLockStep
<1>16. CASE CrashRequest(r)
  BY <1>16, CrashRequestDoes
<1> QED BY <1>3, <1>4, <1>5, <1>6, <1>7, <1>8, <1>9, <1>10, <1>11, <1>12, <1>13, <1>14, <1>15, <1>16
        DEF Advance

LEMMA CollectLocks ==
    ASSUME TypeInv, LockInv, NEW g \in Collectors,
           ListEvictable(g) \/ ListLeftover(g) \/ Collect(g) \/ CrashCollector(g)
    PROVE  LockInv'
<1> DEFINE b == collector[g].build
<1>0. OtherCollectors(g) /\ UNCHANGED request /\ (faults = 0 /\ Working(g) => g \in lock[b])
  BY CollectorKeeps DEF LockInv
<1> SUFFICES ASSUME ~Fault PROVE LockInv'
  BY FaultyLocks
<1>1. ASSUME Rests(g), UNCHANGED faults, lock' = lock \/ lock' = Unlocked(g, b) PROVE LockInv'
  <2>1. ~Working(g)'
    BY <1>1, FramesAre DEF Rests, Working
  <2> QED BY <1>0, <1>1, <2>1, UnlockedIsLocking, CollectLockStep
<1>2. ASSUME NEW pc, NEW copy, Takes(g, pc, copy), Working(g), UNCHANGED <<lock, faults>>
      PROVE  LockInv'
  BY <1>0, <1>2, UnlockedIsLocking, CollectLockStep DEF Takes
<1>3. CASE ListEvictable(g) \/ ListLeftover(g)
  <2>1. ~Working(g)' /\ UNCHANGED <<lock, faults>>
    BY <1>3, ListDoes DEF Working
  <2> QED BY <1>0, <2>1, UnlockedIsLocking, CollectLockStep
<1>4. CASE TryLock(g)
  <2>1. UNCHANGED faults /\ b \in Builds
    BY <1>4, TryLockDoes, WorkingCollector
  <2>2. CASE lock[b] = {} /\ lock' = [lock EXCEPT ![b] = {g}] /\ Takes(g, "verify", collector[g].copy)
    <3>1. Locking(g) /\ g \in lock'[b] /\ collector'[g].build = b
      BY <2>1, <2>2 DEF TypeInv, TypeOK, Locking, Takes
    <3> QED BY <1>0, <2>1, <3>1, CollectLockStep
  <2> QED BY <1>1, <1>4, <2>1, <2>2, TryLockDoes
<1>5. CASE Verify(g)
  BY <1>1, <1>2, <1>5, VerifyDoes DEF Working
<1>6. CASE MarkEvicted(g)
  BY <1>2, <1>6, MarkEvictedDoes DEF Working
<1>7. CASE DeleteObject(g)
  BY <1>2, <1>7, DeleteObjectDoes DEF Working
<1>8. CASE ClearPath(g)
  BY <1>1, <1>8, ClearPathDoes
<1>9. CASE CrashCollector(g)
  BY <1>9, CrashCollectorDoes
<1> QED BY <1>3, <1>4, <1>5, <1>6, <1>7, <1>8, <1>9 DEF Collect

LEMMA LockInit == Init => LockInv
BY FramesAre DEF Init, LockInv, Holding, Working, RebuildPcs, Free, Rest

LEMMA LockStep == TypeInv /\ LockInv /\ [Next]_vars => LockInv'
<1> SUFFICES ASSUME TypeInv, LockInv, [Next]_vars PROVE LockInv'
  OBVIOUS
<1>1. ASSUME NEW r \in Requests, NEW b \in Builds, Download(r, b) \/ Push(r, b) PROVE LockInv'
  <2>1. ~Holding(r)' /\ Others(r) /\ UNCHANGED <<lock, collector, faults>>
    BY <1>1, DownloadDoes DEF Holding, RebuildPcs
  <2> QED BY <2>1, UnlockedIsLocking, RequestLockStep
<1>2. ASSUME UNCHANGED <<lock, request, collector, faults>> PROVE LockInv'
  BY <1>2 DEF LockInv, Holding, Working
<1> QED BY <1>1, <1>2, RequestLocks, CollectLocks, EnvironmentDoes, FaultyLocks DEF Next, vars

\* As long as nothing fails, at most one request or collector is at work on a
\* build's archive row: nobody leaves ensureArchive or the collector's walk with
\* the lock, and nobody works on the row without it.
THEOREM ArchiveLockIsExclusive == Spec => []LockIsExclusive
<1>1. LockInv => LockIsExclusive
  <2> SUFFICES ASSUME LockInv, faults = 0, NEW b \in Builds PROVE Cardinality(Owns(b)) <= 1
    BY DEF LockIsExclusive
  <2>1. Owns(b) \subseteq lock[b]
    BY DEF LockInv, Owns, Holding, Working
  <2>2. \A p, q \in Owns(b) : p = q
    BY <2>1 DEF LockInv
  <2>3. CASE Owns(b) = {}
    <3>1. Cardinality(Owns(b)) = 0
      BY <2>3, FS_EmptySet
    <3> QED BY <3>1
  <2>4. CASE Owns(b) # {}
    <3>1. PICK p : p \in Owns(b)
      BY <2>4
    <3>2. Owns(b) = {p}
      BY <2>2, <3>1
    <3>3. Cardinality(Owns(b)) = 1
      BY <3>2, FS_Singleton
    <3> QED BY <3>3
  <2> QED BY <2>3, <2>4
<1>2. Spec => []LockInv
  BY LockInit, LockStep, TypeInvHolds, PTL DEF Spec
<1> QED BY <1>1, <1>2, PTL
=============================================================================
