---------------------------- MODULE ArchiveCache ----------------------------
(***************************************************************************)
(* The archive cache: ensureArchive, which serves downloads and the parent *)
(* trees of pushes and rebuilds an evicted archive from the patch chain,   *)
(* and the collector, which evicts archives and sweeps what a crash left   *)
(* of an eviction.  Both take the build's advisory lock.                   *)
(*                                                                         *)
(* A row read and the storage call on the key it holds are one step where  *)
(* nothing is written in between; every write is a step of its own.        *)
(***************************************************************************)
EXTENDS Naturals, FiniteSets

CONSTANTS
    Requests,    \* concurrent requests: archive downloads and pushes
    Collectors,  \* archive GC goroutines, one per replica of the server
    NBuilds,     \* number of builds
    Parent,      \* parent_build_id of each build
    MaxObjects,  \* bound: archive keys of one build in use at a time
    MaxFaults,   \* bound: failing calls, lost connections and crashes
    Losable,     \* kinds of artifacts that builds may have lost since their push
    Cancels      \* TRUE: clients go away and rebuild timeouts pass

Builds == 1 .. NBuilds
None   == 0
Links  == {"patch", "signature"}

ASSUME CacheBounds == NBuilds \in Nat \ {0} /\ MaxObjects \in Nat \ {0} /\ MaxFaults \in Nat
ASSUME ParentAssumption ==
    Parent \in [Builds -> Builds \cup {None}] /\ \A b \in Builds : Parent[b] < b
ASSUME ProcessAssumption ==
    Requests \cap Collectors = {} /\ Losable \subseteq Links /\ Cancels \in BOOLEAN

VARIABLES
    build,     \* state column of each build
    stored,    \* what is left of each published build's patch and signature
    head,      \* current_build_id of the channel
    row,       \* the archive/default row of each build
    fresh,     \* last_accessed_at is within the TTL
    objects,   \* archive objects in storage: <<build, key>>
    lock,      \* holders of each build's advisory lock
    request,   \* frame of each request
    collector, \* frame of each collector
    faults     \* faults so far

vars == <<build, stored, head, row, fresh, objects, lock, request, collector, faults>>

RowStates == {"absent", "uploaded", "evicted", "rebuilding"}
Paths     == 0 .. MaxObjects       \* 0 is the empty storage_path
Row       == [state : RowStates, path : Paths, evicted : BOOLEAN]
NoRow     == [state |-> "absent", path |-> 0, evicted |-> FALSE]

RebuildPcs == {"mark", "collect", "replay", "record", "revert"}
RequestPcs == {"idle", "ensure", "lock", "begin", "touch", "materialize", "publish"}
                  \cup RebuildPcs
CollectPcs == {"idle", "try_lock", "verify", "mark", "delete", "clear"}

\* A request's frame: the build whose archive it ensures, the build it pushes
\* if any, whether it has taken the lock and its context is done, the row it
\* read, whether that was evicted, the path it returns, and the chain it
\* walked, up to the build "oldest".
RequestFrame == [pc : RequestPcs, build : Builds \cup {None}, child : Builds \cup {None},
                 locked : BOOLEAN, done : BOOLEAN, copy : Row, was : BOOLEAN, path : Paths,
                 chain : SUBSET Builds, oldest : Builds \cup {None}]
CollectFrame == [pc : CollectPcs, build : Builds \cup {None}, sweep : BOOLEAN, copy : Row]

Free == [pc |-> "idle", build |-> None, child |-> None, locked |-> FALSE, done |-> FALSE,
         copy |-> NoRow, was |-> FALSE, path |-> 0, chain |-> {}, oldest |-> None]
Rest == [pc |-> "idle", build |-> None, sweep |-> FALSE, copy |-> NoRow]

Warm(b) == b # None /\ row[b].state = "uploaded" /\ <<b, row[b].path>> \in objects
Unlocked(p, b) == [lock EXCEPT ![b] = @ \ {p}]
Fault == faults < MaxFaults /\ faults' = faults + 1

Init ==
    /\ build = [b \in Builds |-> IF b = 1 THEN "completed" ELSE "started"]
    /\ stored \in {s \in [Builds -> SUBSET Links] : \A b \in Builds : Links \ s[b] \subseteq Losable}
    /\ head = 1
    /\ row = [b \in Builds |-> IF b = 1 THEN [NoRow EXCEPT !.state = "uploaded", !.path = 1] ELSE NoRow]
    /\ fresh = [b \in Builds |-> TRUE]
    /\ objects = {<<1, 1>>}
    /\ lock = [b \in Builds |-> {}]
    /\ request = [r \in Requests |-> Free]
    /\ collector = [g \in Collectors |-> Rest]
    /\ faults = 0

-----------------------------------------------------------------------------
(* Requests *)

Goto(r, pc) == request' = [request EXCEPT ![r].pc = pc]

\* The request answers; a push whose parent's tree cannot be had fails its build.
Fail(r) ==
    /\ request' = [request EXCEPT ![r] = Free]
    /\ LET c == request[r].child IN
       build' = IF c = None THEN build ELSE [build EXCEPT ![c] = "failed"]

\* serveArchiveDownload: ensureArchive for the client.
Download(r, b) ==
    /\ request[r].pc = "idle"
    /\ request' = [request EXCEPT ![r] = [Free EXCEPT !.pc = "ensure", !.build = b]]
    /\ UNCHANGED <<build, stored, head, row, fresh, objects, lock, collector, faults>>

\* generateArchiveDefault of a claimed build: materializeBuildTree ensures the
\* parent's archive; a root build starts from nothing.
Push(r, c) ==
    /\ request[r].pc = "idle"
    /\ build[c] = "started" /\ \A q \in Requests : request[q].child # c
    /\ Parent[c] # None => build[Parent[c]] = "completed"
    /\ request' = [request EXCEPT ![r] =
          [Free EXCEPT !.pc = IF Parent[c] = None THEN "publish" ELSE "ensure",
                       !.build = Parent[c], !.child = c]]
    /\ UNCHANGED <<build, stored, head, row, fresh, objects, lock, collector, faults>>

\* The client goes or, once the first look has failed, the timeout passes.
Cancel(r) ==
    /\ Cancels
    /\ request[r].pc \in {"ensure", "lock", "begin", "mark", "collect", "replay"}
    /\ request[r].child = None \/ request[r].pc # "ensure" \/ request[r].locked
    /\ ~request[r].done
    /\ request' = [request EXCEPT ![r].done = TRUE]
    /\ UNCHANGED <<build, stored, head, row, fresh, objects, lock, collector, faults>>

\* A Head that the context or a fault makes fail.
HeadFails(r) == IF request[r].done THEN UNCHANGED faults ELSE Fault

\* warmArchive up to the Head, before the lock is taken and once it is held.
\* A failing Head counts as a missing object.
Ensure(r) ==
    /\ request[r].pc = "ensure"
    /\ LET b == request[r].build IN
       \/ /\ Warm(b) /\ ~request[r].done
          /\ request' = [request EXCEPT ![r].pc = "touch", ![r].path = row[b].path]
          /\ UNCHANGED faults
       \/ /\ IF Warm(b) THEN HeadFails(r) ELSE UNCHANGED faults
          /\ Goto(r, IF request[r].locked THEN "begin" ELSE "lock")
    /\ UNCHANGED <<build, stored, head, row, fresh, objects, lock, collector>>

\* MUTANT: the lock is shared.
LockShared(r) ==
    /\ request[r].pc = "lock"
    /\ lock' = [lock EXCEPT ![request[r].build] = @ \cup {r}]
    /\ request' = [request EXCEPT ![r].pc = "ensure", ![r].locked = TRUE]
    /\ UNCHANGED <<build, stored, head, row, fresh, objects, collector, faults>>

\* AcquireBuildArchiveLock blocks until the lock is free.
Lock(r) ==
    /\ request[r].pc = "lock" /\ ~request[r].done
    /\ lock[request[r].build] = {}
    /\ lock' = [lock EXCEPT ![request[r].build] = {r}]
    /\ request' = [request EXCEPT ![r].pc = "ensure", ![r].locked = TRUE]
    /\ UNCHANGED <<build, stored, head, row, fresh, objects, collector, faults>>

\* The context was done before the lock was free.
GiveUp(r) ==
    /\ request[r].pc = "lock" /\ request[r].done
    /\ Fail(r)
    /\ UNCHANGED <<stored, head, row, fresh, objects, lock, collector, faults>>

\* rebuildArchive reads the build and the archive row.
BeginRebuild(r) ==
    /\ request[r].pc = "begin"
    /\ LET b == request[r].build IN
       IF build[b] = "completed"
       THEN /\ request' = [request EXCEPT ![r].pc = "mark", ![r].copy = row[b],
                                          ![r].was = row[b].evicted]
            /\ UNCHANGED <<build, lock>>
       ELSE Fail(r) /\ lock' = Unlocked(r, b)
    /\ UNCHANGED <<stored, head, row, fresh, objects, collector, faults>>

MarkRebuilding(r) ==
    /\ request[r].pc = "mark"
    /\ LET b == request[r].build IN
       /\ row' = [row EXCEPT ![b] = [request[r].copy EXCEPT !.state = "rebuilding"]]
       /\ request' = [request EXCEPT ![r].pc = "collect", ![r].chain = {b}, ![r].oldest = b]
    /\ UNCHANGED <<build, stored, head, fresh, objects, lock, collector, faults>>

\* MUTANT: the walk does not end at a root.
CollectPastRoot(r) ==
    /\ request[r].pc = "collect"
    /\ LET p == Parent[request[r].oldest] IN
       \/ /\ Warm(p) /\ ~request[r].done
          /\ Goto(r, "replay")
          /\ UNCHANGED faults
       \/ /\ IF Warm(p) THEN HeadFails(r) ELSE UNCHANGED faults
          /\ request' = [request EXCEPT ![r].chain = @ \cup {p}, ![r].oldest = p]
    /\ UNCHANGED <<build, stored, head, row, fresh, objects, lock, collector>>

\* One link of collectRebuildChain's walk: it ends at a root or below a warm
\* ancestor, and then the patches and signatures of the chain are looked up.
CollectChain(r) ==
    /\ request[r].pc = "collect"
    /\ LET p == Parent[request[r].oldest] IN
       \/ /\ p = None \/ (Warm(p) /\ ~request[r].done)
          /\ Goto(r, IF \A c \in request[r].chain : stored[c] = Links THEN "replay" ELSE "revert")
          /\ UNCHANGED faults
       \/ /\ p # None
          /\ IF Warm(p) THEN HeadFails(r) ELSE UNCHANGED faults
          /\ request' = [request EXCEPT ![r].chain = @ \cup {p}, ![r].oldest = p]
       \/ Fault /\ Goto(r, "revert")
    /\ UNCHANGED <<build, stored, head, row, fresh, objects, lock, collector>>

\* What makes a uuid new: nothing stored and no copy of a row has it.
NewKeys(b) ==
    {n \in 1 .. MaxObjects :
        /\ <<b, n>> \notin objects /\ row[b].path # n
        /\ \A r \in Requests : request[r].build = b => n \notin {request[r].copy.path, request[r].path}
        /\ \A g \in Collectors : collector[g].build = b => collector[g].copy.path # n}

\* The tree that the chain is replayed on: nothing, or an archive and its
\* build's signature.
BaseIsUsable(p) == p # None => Warm(p) /\ "signature" \in stored[p]

\* replayArchiveChain: the base's tree and signature, the patches, and the Put
\* of the archive under a new key.  It fails when the base was evicted since
\* or the context is done.
ReplayChain(r) ==
    /\ request[r].pc = "replay"
    /\ LET b == request[r].build
           p == Parent[request[r].oldest] IN
       \/ /\ ~request[r].done /\ BaseIsUsable(p)
          /\ NewKeys(b) # {}
          /\ LET key == CHOOSE n \in NewKeys(b) : TRUE IN
             /\ objects' = objects \cup {<<b, key>>}
             /\ request' = [request EXCEPT ![r].pc = "record", ![r].path = key]
          /\ UNCHANGED faults
       \/ /\ IF request[r].done \/ ~BaseIsUsable(p) THEN UNCHANGED faults ELSE Fault
          /\ Goto(r, "revert")
          /\ UNCHANGED objects
    /\ UNCHANGED <<build, stored, head, row, fresh, lock, collector>>

\* UpdateBuildFile with the new key.  When it fails the frame's copy already
\* has the new key and no eviction time.
RecordRebuilt(r) ==
    /\ request[r].pc = "record"
    /\ LET new == [state |-> "uploaded", path |-> request[r].path, evicted |-> FALSE] IN
       \/ /\ row' = [row EXCEPT ![request[r].build] = new]
          /\ Goto(r, "touch")
          /\ UNCHANGED faults
       \/ /\ Fault
          /\ request' = [request EXCEPT ![r].pc = "revert", ![r].copy = new]
          /\ UNCHANGED row
    /\ UNCHANGED <<build, stored, head, fresh, objects, lock, collector>>

\* MUTANT: whatever the row was, it goes back to "evicted".
RevertAnyway(r) ==
    /\ request[r].pc = "revert"
    /\ LET b == request[r].build IN
       /\ row' = [row EXCEPT ![b] = [request[r].copy EXCEPT !.state = "evicted"]]
       /\ lock' = Unlocked(r, b)
    /\ Fail(r)
    /\ UNCHANGED <<stored, head, fresh, objects, collector, faults>>

\* A failed rebuild puts an evicted row back and answers with an error.
Revert(r) ==
    /\ request[r].pc = "revert"
    /\ LET b == request[r].build IN
       /\ row' = IF request[r].was
                 THEN [row EXCEPT ![b] = [request[r].copy EXCEPT !.state = "evicted"]]
                 ELSE row
       /\ lock' = Unlocked(r, b)
    /\ Fail(r)
    /\ UNCHANGED <<stored, head, fresh, objects, collector, faults>>

\* MUTANT: the lock is not released on the way out.
TouchKeepsLock(r) ==
    /\ request[r].pc = "touch"
    /\ fresh' = [fresh EXCEPT ![request[r].build] = TRUE]
    /\ IF request[r].child = None
       THEN request' = [request EXCEPT ![r] = Free]
       ELSE Goto(r, "materialize")
    /\ UNCHANGED <<build, stored, head, row, objects, lock, collector, faults>>

\* TouchBuildFileAccess; ensureArchive returns and releases the lock.  A
\* touch that fails is only logged.  A download is redirected to the path it
\* holds.
Touch(r) ==
    /\ request[r].pc = "touch"
    /\ \/ fresh' = [fresh EXCEPT ![request[r].build] = TRUE] /\ UNCHANGED faults
       \/ Fault /\ UNCHANGED fresh
    /\ lock' = Unlocked(r, request[r].build)
    /\ IF request[r].child = None
       THEN request' = [request EXCEPT ![r] = Free]
       ELSE Goto(r, "materialize")
    /\ UNCHANGED <<build, stored, head, row, objects, collector>>

\* materializeArchivedTree and readParentSignature for a push.
Materialize(r) ==
    /\ request[r].pc = "materialize"
    /\ LET b == request[r].build IN
       IF Warm(b) /\ "signature" \in stored[b]
       THEN Goto(r, "publish") /\ UNCHANGED build
       ELSE Fail(r)
    /\ UNCHANGED <<stored, head, row, fresh, objects, lock, collector, faults>>

\* The pushed build's archive is stored and recorded, the build completed and
\* made the head; BuildPipeline has these one by one.
Publish(r) ==
    /\ request[r].pc = "publish"
    /\ LET c == request[r].child IN
       /\ objects' = objects \cup {<<c, 1>>}
       /\ row' = [row EXCEPT ![c] = [state |-> "uploaded", path |-> 1, evicted |-> FALSE]]
       /\ fresh' = [fresh EXCEPT ![c] = TRUE]
       /\ build' = [build EXCEPT ![c] = "completed"]
       /\ head' = c
    /\ request' = [request EXCEPT ![r] = Free]
    /\ UNCHANGED <<stored, lock, collector, faults>>

-----------------------------------------------------------------------------
(* The collector *)

Step(g, pc) == collector' = [collector EXCEPT ![g].pc = pc]
Leave(g) ==
    /\ collector' = [collector EXCEPT ![g] = Rest]
    /\ lock' = Unlocked(g, collector[g].build)

\* ListEvictableArchiveFiles names a candidate.
ListEvictable(g) ==
    /\ collector[g].pc = "idle"
    /\ \E b \in Builds :
        /\ row[b].state = "uploaded" /\ build[b] = "completed" /\ ~fresh[b] /\ head # b
        /\ collector' = [collector EXCEPT ![g] = [Rest EXCEPT !.pc = "try_lock", !.build = b]]
    /\ UNCHANGED <<build, stored, head, row, fresh, objects, lock, request, faults>>

\* ListEvictedArchiveFilesWithStorage names what an eviction left behind.
ListLeftover(g) ==
    /\ collector[g].pc = "idle"
    /\ \E b \in Builds :
        /\ row[b].state = "evicted" /\ row[b].path # 0
        /\ collector' = [collector EXCEPT ![g] =
              [Rest EXCEPT !.pc = "try_lock", !.build = b, !.sweep = TRUE]]
    /\ UNCHANGED <<build, stored, head, row, fresh, objects, lock, request, faults>>

\* TryAcquireBuildArchiveLock: a build whose lock is taken is skipped.
TryLock(g) ==
    /\ collector[g].pc = "try_lock"
    /\ LET b == collector[g].build IN
       IF lock[b] = {}
       THEN lock' = [lock EXCEPT ![b] = {g}] /\ Step(g, "verify")
       ELSE collector' = [collector EXCEPT ![g] = Rest] /\ UNCHANGED lock
    /\ UNCHANGED <<build, stored, head, row, fresh, objects, request, faults>>

\* MUTANT: the patch and the signature are not looked up.
GuardWithoutLinks(b) ==
    row[b].state = "uploaded" /\ row[b].path # 0 /\ ~fresh[b] /\ head # b /\ build[b] = "completed"

\* What evictArchive verifies under the lock.
EvictionGuard(b) ==
    /\ row[b].state = "uploaded" /\ row[b].path # 0
    /\ ~fresh[b]
    /\ head # b
    /\ build[b] = "completed"
    /\ stored[b] = Links

Verify(g) ==
    /\ collector[g].pc = "verify"
    /\ LET b == collector[g].build IN
       \/ /\ ~collector[g].sweep /\ EvictionGuard(b)
          /\ collector' = [collector EXCEPT ![g].pc = "mark", ![g].copy = row[b]]
          /\ UNCHANGED lock
       \/ /\ collector[g].sweep /\ row[b].state = "evicted" /\ row[b].path # 0
          /\ collector' = [collector EXCEPT ![g].pc = "delete", ![g].copy = row[b]]
          /\ UNCHANGED lock
       \/ /\ ~(IF collector[g].sweep THEN row[b].state = "evicted" /\ row[b].path # 0
                                      ELSE EvictionGuard(b))
          /\ Leave(g)
    /\ UNCHANGED <<build, stored, head, row, fresh, objects, request, faults>>

\* MUTANT: the object goes before the row is marked.
DeleteFirst(g) ==
    /\ collector[g].pc = "mark"
    /\ objects' = objects \ {<<collector[g].build, collector[g].copy.path>>}
    /\ Step(g, "clear")
    /\ UNCHANGED <<build, stored, head, row, fresh, lock, request, faults>>

\* "Mark first, delete second."
MarkEvicted(g) ==
    /\ collector[g].pc = "mark"
    /\ LET marked == [collector[g].copy EXCEPT !.state = "evicted", !.evicted = TRUE] IN
       /\ row' = [row EXCEPT ![collector[g].build] = marked]
       /\ collector' = [collector EXCEPT ![g].pc = "delete", ![g].copy = marked]
    /\ UNCHANGED <<build, stored, head, fresh, objects, lock, request, faults>>

\* MUTANT: the failing deletion returns without a release.
DeleteKeepsLock(g) ==
    /\ collector[g].pc = "delete"
    /\ \/ /\ objects' = objects \ {<<collector[g].build, collector[g].copy.path>>}
          /\ Step(g, "clear")
          /\ UNCHANGED faults
       \/ Fault /\ collector' = [collector EXCEPT ![g] = Rest] /\ UNCHANGED objects
    /\ UNCHANGED <<build, stored, head, row, fresh, lock, request>>

DeleteObject(g) ==
    /\ collector[g].pc = "delete"
    /\ \/ /\ objects' = objects \ {<<collector[g].build, collector[g].copy.path>>}
          /\ Step(g, "clear")
          /\ UNCHANGED <<lock, faults>>
       \/ Fault /\ Leave(g) /\ UNCHANGED objects
    /\ UNCHANGED <<build, stored, head, row, fresh, request>>

ClearPath(g) ==
    /\ collector[g].pc = "clear"
    /\ row' = [row EXCEPT ![collector[g].build] = [collector[g].copy EXCEPT !.path = 0]]
    /\ Leave(g)
    /\ UNCHANGED <<build, stored, head, fresh, objects, request, faults>>

-----------------------------------------------------------------------------
(* The environment *)

\* The TTL passes.  No request lasts that long after touching a row.
Expire(b) ==
    /\ fresh[b]
    /\ \A r \in Requests : request[r].pc = "materialize" => request[r].build # b
    /\ fresh' = [fresh EXCEPT ![b] = FALSE]
    /\ UNCHANGED <<build, stored, head, row, objects, lock, request, collector, faults>>

\* The server dies under a request or a collector, or a call of theirs fails
\* that they undo nothing for: the lock goes with the connection or with the
\* release.  A push that dies leaves its build in "processing" for good, which
\* is as good as failed here.
CrashRequest(r) ==
    /\ request[r].pc # "idle" /\ Fault
    /\ lock' = [b \in Builds |-> lock[b] \ {r}]
    /\ request' = [request EXCEPT ![r] = Free]
    /\ build' = IF request[r].child = None THEN build
                ELSE [build EXCEPT ![request[r].child] = "failed"]
    /\ UNCHANGED <<stored, head, row, fresh, objects, collector>>

CrashCollector(g) ==
    /\ collector[g].pc # "idle" /\ Fault
    /\ Leave(g)
    /\ UNCHANGED <<build, stored, head, row, fresh, objects, request>>

\* Only the pinned connection is lost: its owner goes on without the lock.
LoseLock(b) ==
    /\ lock[b] # {} /\ Fault
    /\ lock' = [lock EXCEPT ![b] = {}]
    /\ UNCHANGED <<build, stored, head, row, fresh, objects, request, collector>>

-----------------------------------------------------------------------------
Advance(r) ==
    \/ Ensure(r) \/ GiveUp(r) \/ BeginRebuild(r) \/ MarkRebuilding(r) \/ CollectChain(r)
    \/ ReplayChain(r) \/ RecordRebuilt(r) \/ Revert(r) \/ Touch(r) \/ Materialize(r)
    \/ Publish(r)

Collect(g) ==
    TryLock(g) \/ Verify(g) \/ MarkEvicted(g) \/ DeleteObject(g) \/ ClearPath(g)

Next ==
    \/ \E r \in Requests, b \in Builds : Download(r, b) \/ Push(r, b)
    \/ \E r \in Requests : Advance(r) \/ Lock(r) \/ Cancel(r) \/ CrashRequest(r)
    \/ \E g \in Collectors :
           ListEvictable(g) \/ ListLeftover(g) \/ Collect(g) \/ CrashCollector(g)
    \/ \E b \in Builds : Expire(b) \/ LoseLock(b)

Spec == Init /\ [][Next]_vars

\* Handlers run, PostgreSQL grants a lock that keeps coming free, and the
\* collector's ticker comes round to a leftover that stays one.
FairSpec ==
    /\ Spec
    /\ \A r \in Requests : WF_vars(Advance(r)) /\ SF_vars(Lock(r))
    /\ \A g \in Collectors : WF_vars(Collect(g)) /\ SF_vars(ListLeftover(g))

-----------------------------------------------------------------------------
(* Properties *)

\* Rows, objects, locks and frames keep the types of what they stand for; the
\* walk of a chain never leaves the builds.
TypeOK ==
    /\ build \in [Builds -> {"started", "completed", "failed"}]
    /\ stored \in [Builds -> SUBSET Links]
    /\ head \in Builds
    /\ row \in [Builds -> Row]
    /\ fresh \in [Builds -> BOOLEAN]
    /\ objects \subseteq Builds \X (1 .. MaxObjects)
    /\ lock \in [Builds -> SUBSET (Requests \cup Collectors)]
    /\ request \in [Requests -> RequestFrame]
    /\ collector \in [Collectors -> CollectFrame]
    /\ faults \in 0 .. MaxFaults

\* A row that says "uploaded" names a stored object, even when a rebuild goes
\* on without its lock: the row is marked before its object goes, every rebuild
\* stores under a key of its own, and the row names it only then.
UploadedIsStored ==
    \A b \in Builds : row[b].state = "uploaded" => <<b, row[b].path>> \in objects

\* "Channel-head archives [...] are never evicted": no order of pushes,
\* failing rebuilds and collections leaves the head's row evicted.
HeadIsNotEvicted == row[head].state # "evicted"

\* No archive is or goes back to evicted that its own patch and signature could
\* not bring back: evictArchive's guard and the revert of a failed rebuild.
EvictedIsRebuildable ==
    \A b \in Builds : row[b].state = "evicted" => stored[b] = Links

\* The processes at work on a build's archive row.
Owns(b) ==
    {r \in Requests : request[r].build = b /\ request[r].pc \in RebuildPcs \cup {"begin"}} \cup
    {g \in Collectors : collector[g].build = b /\ collector[g].pc \in {"verify", "mark", "delete", "clear"}}

\* At most one process at a time works on a build's archive row, as long as no
\* connection that holds a lock is lost.
LockIsExclusive ==
    faults = 0 => \A b \in Builds : Cardinality(Owns(b)) <= 1

\* A build in "rebuilding" has a request at work on it: a rebuild that fails
\* puts the row back to "the previous cache state".
RebuildingIsAttended ==
    faults = 0 => \A b \in Builds : row[b].state = "rebuilding" =>
        \E r \in Requests : request[r].build = b /\ request[r].pc \in RebuildPcs

\* The object an eviction left behind stays named by its row until it is gone:
\* "a crash in between leaves an evicted row with a still-present object, which
\* the sweep below cleans up later".
LeftoverStaysNamed ==
    [][\A b \in Builds :
         row[b].evicted /\ <<b, row[b].path>> \in objects /\ row'[b].path # row[b].path
             => <<b, row[b].path>> \notin objects']_vars

\* A leftover object is swept or its row taken over by a rebuild.
LeftoverIsSwept ==
    \A b \in Builds : (row[b].state = "evicted" /\ row[b].path # 0) ~>
                           ~(row[b].state = "evicted" /\ row[b].path # 0)

\* Every request is answered: nobody waits for a lock for ever.
RequestsEnd == \A r \in Requests : request[r].pc # "idle" ~> request[r].pc = "idle"
=============================================================================
