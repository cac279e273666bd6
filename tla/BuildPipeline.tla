--------------------------- MODULE BuildPipeline ---------------------------
(***************************************************************************)
(* The life of a pushed build: CreateBuild, CreateBuildFile, the client's  *)
(* PUT, FinalizeBuildFile, and the check it starts, which claims the       *)
(* build, generates archive/default, completes the build and advances the  *)
(* channel head.  All pushes go to one channel name of one game.           *)
(*                                                                         *)
(* Every SQL statement and every object-storage call is one atomic step;   *)
(* nothing groups them into transactions, so between two statements of a   *)
(* handler the statements of any other may run.  A worker is one request   *)
(* handler together with the goroutine it starts; its frame holds the      *)
(* copies the handler works on.                                            *)
(***************************************************************************)
EXTENDS Naturals, FiniteSets, Sequences

CONSTANTS
    Workers,         \* concurrent request handlers
    MaxUploads,      \* bound: how many upload rows are inserted
    MaxBuilds,       \* bound: how many build rows are inserted
    MaxRows,         \* bound: build_files rows of one kind of one build,
    MaxClientRows,   \* and those of them that clients create
    MaxFaults,       \* bound: how many calls fail or handlers die
    ClientKinds,     \* kinds of file clients create rows for
    StoredSizes,     \* sizes of the objects clients may store
    HonestClients    \* TRUE: clients tell true sizes and never re-upload

ASSUME BoundsAssumption ==
    {MaxUploads, MaxBuilds, MaxRows, MaxClientRows, MaxFaults} \subseteq Nat

Kinds  == {"patch", "signature", "archive"}
Sizes  == {"empty", "short", "full"}  \* 0, a truncated upload's, the intended
BuildIds   == 1 .. MaxBuilds    \* SERIAL ids, as are the uploads'
Uploads    == 1 .. MaxUploads
None       == 0
MaybeBuild == BuildIds \cup {None}
\* A row's build and kind never change and its id's order is never used, so
\* they and a number name the row.
Files      == BuildIds \X Kinds \X (1 .. MaxRows)
NoFile     == <<None, "patch", 0>>

ASSUME ClientAssumption ==
    ClientKinds \subseteq Kinds /\ StoredSizes \subseteq Sizes /\ HonestClients \in BOOLEAN

VARIABLES
    nbuilds,  \* last value of the builds id sequence
    nuploads, \* of the uploads id sequence
    build,    \* the builds table
    upload,   \* the uploads table, each row with its channels row
    file,     \* the build_files table
    object,   \* object storage: size of the object at each row's path
    worker,   \* frame of each handler
    faults    \* faults so far

vars == <<nbuilds, nuploads, build, upload, file, object, worker, faults>>

BuildStates == {"absent", "started", "processing", "completed", "failed"}
FileStates  == {"absent", "uploading", "uploaded", "failed"}
CreatePcs   == {"create_upload", "create_build", "create_channel"}
GeneratePcs == {"generate", "record_archive"}
CheckPcs    == {"check_build", "check_files", "fail", "claim", "complete",
                "advance"} \cup GeneratePcs
Pcs == {"idle", "finalize_write"} \cup CreatePcs \cup CheckPcs

BuildRow  == [state : BuildStates, upload : Uploads \cup {None}, parent : MaybeBuild]
UploadRow == [channel : BOOLEAN, head : MaybeBuild]
FileRow   == [state : FileStates, size : Sizes, url : BOOLEAN]
Frame     == [pc : Pcs, build : MaybeBuild, upload : Uploads \cup {None},
              parent : MaybeBuild, known : BOOLEAN, file : Files \cup {NoFile},
              write : {"uploaded", "failed"}, size : Sizes,
              seen : {"started", "processing"}]

\* The frame of a handler that is not running.
Idle == [pc |-> "idle", build |-> None, upload |-> None,
         parent |-> None, known |-> FALSE, file |-> NoFile,
         write |-> "uploaded", size |-> "empty", seen |-> "started"]

\* The frame of checkAndUpdateBuildState(b) about to read the build row.
CheckFrame(b) == [Idle EXCEPT !.pc = "check_build", !.build = b]

Goto(w, pc) == worker' = [worker EXCEPT ![w].pc = pc]
Return(w)   == worker' = [worker EXCEPT ![w] = Idle]

Init ==
    /\ nbuilds = 0 /\ nuploads = 0
    /\ build = [b \in BuildIds |-> [state |-> "absent", upload |-> None, parent |-> None]]
    /\ upload = [u \in Uploads |-> [channel |-> FALSE, head |-> None]]
    /\ file = [f \in Files |-> [state |-> "absent", size |-> "empty", url |-> FALSE]]
    /\ object = [f \in Files |-> "none"]
    /\ worker = [w \in Workers |-> Idle]
    /\ faults = 0

Fault == faults < MaxFaults /\ faults' = faults + 1

-----------------------------------------------------------------------------
(* CreateBuild *)

Creating == {w \in Workers : worker[w].pc \in {"create_upload", "create_build"}}

\* MUTANT: the newest build of the upload becomes the parent, not the head.
ParentIsNewest(w) ==
    \E u \in {v \in Uploads : upload[v].channel} :
        \E b \in {c \in BuildIds : build[c].upload = u} :
            /\ \A c \in BuildIds : build[c].upload = u => c <= b
            /\ worker' = [worker EXCEPT ![w] = [Idle EXCEPT !.pc = "create_build",
                              !.upload = u, !.known = TRUE, !.parent = b]]
            /\ UNCHANGED faults

\* The first upload, in no particular order, that already has the channel;
\* its head becomes the parent.  When the second lookup of the channel fails
\* the build gets no parent and the channel row is inserted anew.
CreateBuildFindsChannel(w) ==
    \E u \in {v \in Uploads : upload[v].channel}, known \in BOOLEAN :
        /\ worker' = [worker EXCEPT ![w] = [Idle EXCEPT !.pc = "create_build",
                          !.upload = u, !.known = known,
                          !.parent = IF known THEN upload[u].head ELSE None]]
        /\ IF known THEN UNCHANGED faults ELSE Fault

\* No upload has the channel, or the lookup failed: the loop takes any error
\* for "no such channel".
CreateBuildFindsNone(w) ==
    /\ \/ (\A u \in Uploads : ~upload[u].channel) /\ UNCHANGED faults
       \/ Fault
    /\ worker' = [worker EXCEPT ![w] = [Idle EXCEPT !.pc = "create_upload"]]

CreateBuildLookup(w) ==
    /\ worker[w].pc = "idle"
    /\ nbuilds + Cardinality(Creating) < MaxBuilds
    /\ CreateBuildFindsChannel(w) \/ CreateBuildFindsNone(w)
    /\ UNCHANGED <<nbuilds, nuploads, build, upload, file, object>>

CreateBuildUpload(w) ==
    /\ worker[w].pc = "create_upload"
    /\ nuploads < MaxUploads
    /\ nuploads' = nuploads + 1
    /\ worker' = [worker EXCEPT ![w].pc = "create_build", ![w].upload = nuploads + 1]
    /\ UNCHANGED <<nbuilds, build, upload, file, object, faults>>

\* MUTANT: the build inserted last becomes the parent.
ParentIsPrevious(w) ==
    /\ worker[w].pc = "create_build"
    /\ nbuilds < MaxBuilds
    /\ nbuilds' = nbuilds + 1
    /\ build' = [build EXCEPT ![nbuilds + 1] =
                    [state |-> "started", upload |-> worker[w].upload, parent |-> nbuilds]]
    /\ worker' = [worker EXCEPT ![w].pc = "create_channel", ![w].build = nbuilds + 1]
    /\ UNCHANGED <<nuploads, upload, file, object, faults>>

CreateBuildInsert(w) ==
    /\ worker[w].pc = "create_build"
    /\ nbuilds < MaxBuilds
    /\ nbuilds' = nbuilds + 1
    /\ build' = [build EXCEPT ![nbuilds + 1] =
                    [state |-> "started", upload |-> worker[w].upload, parent |-> worker[w].parent]]
    /\ IF worker[w].known
       THEN Return(w)
       ELSE worker' = [worker EXCEPT ![w].pc = "create_channel", ![w].build = nbuilds + 1]
    /\ UNCHANGED <<nuploads, upload, file, object, faults>>

\* MUTANT: the channel is created with its first build as the head.
CreateChannelWithHead(w) ==
    /\ worker[w].pc = "create_channel"
    /\ upload' = [upload EXCEPT ![worker[w].upload] = [channel |-> TRUE, head |-> worker[w].build]]
    /\ Return(w)
    /\ UNCHANGED <<nbuilds, nuploads, build, file, object, faults>>

\* A second row for the same upload and name violates the table's UNIQUE and
\* only fails the request.
CreateBuildChannel(w) ==
    /\ worker[w].pc = "create_channel"
    /\ upload' = [upload EXCEPT ![worker[w].upload].channel = TRUE]
    /\ Return(w)
    /\ UNCHANGED <<nbuilds, nuploads, build, file, object, faults>>

-----------------------------------------------------------------------------
(* Clients: they learn a build's id from CreateBuild's answer or, if that   *)
(* died, from the build list.                                               *)

Visible(b) ==
    /\ build[b].state # "absent"
    /\ \A w \in Workers : ~(worker[w].pc = "create_channel" /\ worker[w].build = b)

RowsOf(b, k) == {f \in Files : f[1] = b /\ f[2] = k /\ file[f].state # "absent"}
Uploaded(b, k) == {f \in RowsOf(b, k) : file[f].state = "uploaded"}

\* INSERT INTO build_files
InsertFile(b, k, row) ==
    LET n == Cardinality(RowsOf(b, k)) + 1 IN
    n <= MaxRows /\ file' = [file EXCEPT ![<<b, k, n>>] = row]

\* CreateBuildFile.  Nobody can store the object or finalize the row before
\* the answer hands out the upload URL, so the row's second write, of the
\* URL, is not a step of its own.
CreateBuildFile(b, k) ==
    /\ Visible(b)
    /\ Cardinality({f \in RowsOf(b, k) : file[f].url}) < MaxClientRows
    /\ InsertFile(b, k, [state |-> "uploading", size |-> "empty", url |-> TRUE])
    /\ UNCHANGED <<nbuilds, nuploads, build, upload, object, worker, faults>>

\* The client stores bytes at the presigned URL, or commits a session there.
PutObject(f, s) ==
    /\ file[f].url
    /\ object[f] # s
    /\ HonestClients =>
        /\ file[f].state = "uploading" /\ object[f] = "none"
        /\ \A w \in Workers : worker[w].file # f
    /\ object' = [object EXCEPT ![f] = s]
    /\ UNCHANGED <<nbuilds, nuploads, build, upload, file, worker, faults>>

-----------------------------------------------------------------------------
(* FinalizeBuildFile *)

\* Load the row, check that the object exists, read its size and compare it
\* with the client's.  A claim of "empty" is a request without a size.
FinalizeLoad(w, f, claimed) ==
    /\ worker[w].pc = "idle"
    /\ object[f] # "none"
    /\ HonestClients => file[f].url /\ claimed = "full"
    /\ LET mismatch == claimed # "empty" /\ claimed # object[f] IN
       worker' = [worker EXCEPT ![w] = [Idle EXCEPT
           !.pc = "finalize_write", !.build = f[1], !.file = f,
           !.write = IF mismatch THEN "failed" ELSE "uploaded",
           !.size = IF mismatch THEN file[f].size ELSE object[f]]]
    /\ UNCHANGED <<nbuilds, nuploads, build, upload, file, object, faults>>

\* MUTANT: only the signature's finalization starts a check.
FinalizeChecksSignature(w) ==
    /\ worker[w].pc = "finalize_write"
    /\ file' = [file EXCEPT ![worker[w].file].state = worker[w].write,
                            ![worker[w].file].size = worker[w].size]
    /\ worker' = [worker EXCEPT ![w] = IF worker[w].file[2] = "signature"
                                       THEN CheckFrame(worker[w].build) ELSE Idle]
    /\ UNCHANGED <<nbuilds, nuploads, build, upload, object, faults>>

\* Write the whole row back; the check follows, in a goroutine after the
\* answer, or before it when the sizes differ; then it follows even when the
\* write fails.
FinalizeWrite(w) ==
    /\ worker[w].pc = "finalize_write"
    /\ \/ /\ file' = [file EXCEPT ![worker[w].file].state = worker[w].write,
                                  ![worker[w].file].size = worker[w].size]
          /\ UNCHANGED faults
       \/ worker[w].write = "failed" /\ Fault /\ UNCHANGED file
    /\ worker' = [worker EXCEPT ![w] = CheckFrame(worker[w].build)]
    /\ UNCHANGED <<nbuilds, nuploads, build, upload, object>>

-----------------------------------------------------------------------------
(* checkAndUpdateBuildState *)

\* MUTANT: a settled build is checked like any other.
CheckSettledToo(w) ==
    /\ worker[w].pc = "check_build"
    /\ worker' = [worker EXCEPT ![w].pc = "check_files", ![w].seen = build[worker[w].build].state]
    /\ UNCHANGED <<nbuilds, nuploads, build, upload, file, object, faults>>

CheckBuild(w) ==
    /\ worker[w].pc = "check_build"
    /\ LET state == build[worker[w].build].state IN
       IF state \in {"started", "processing"}
       THEN worker' = [worker EXCEPT ![w].pc = "check_files", ![w].seen = state]
       ELSE Return(w)
    /\ UNCHANGED <<nbuilds, nuploads, build, upload, file, object, faults>>

\* MUTANT: the archive is not required.
ReadyWithoutArchive(b, k) ==
    IF k = "archive" THEN {TRUE} ELSE {file[f].size # "empty" : f \in Uploaded(b, k)} \cup {FALSE}

\* MUTANT: the signature is enough.
SignatureSuffices(b, k) == {k = "signature" => Uploaded(b, k) # {}}

\* What hasReadyRequiredFile may say of a kind: of several uploaded rows the
\* last one read counts, and the query has no ORDER BY.
Readiness(b, k) ==
    IF Uploaded(b, k) = {} THEN {FALSE}
    ELSE {file[f].size # "empty" : f \in Uploaded(b, k)}

HasFailedFile(b) == \E f \in Files : f[1] = b /\ file[f].state = "failed"

CheckFiles(w) ==
    /\ worker[w].pc = "check_files"
    /\ LET b == worker[w].build IN
       \/ /\ HasFailedFile(b)
          /\ Goto(w, "fail")
       \/ /\ ~HasFailedFile(b)
          /\ \E patch \in Readiness(b, "patch"), signature \in Readiness(b, "signature"),
                archive \in Readiness(b, "archive") :
                \/ /\ patch /\ signature /\ ~archive /\ worker[w].seen = "started"
                   /\ Goto(w, "claim")
                \/ /\ patch /\ signature /\ archive
                   /\ Goto(w, "complete")
                \/ /\ ~(patch /\ signature /\ (archive \/ worker[w].seen = "started"))
                   /\ Return(w)
    /\ UNCHANGED <<nbuilds, nuploads, build, upload, file, object, faults>>

\* UpdateBuild writes the whole row, whatever its state is by now.
SetBuildState(b, state) == build' = [build EXCEPT ![b].state = state]

\* MUTANT: a failed build is opened again for a retry.
ReopenBuild(w) ==
    /\ worker[w].pc = "fail"
    /\ SetBuildState(worker[w].build, "started")
    /\ Return(w)
    /\ UNCHANGED <<nbuilds, nuploads, upload, file, object, faults>>

FailBuild(w) ==
    /\ worker[w].pc = "fail"
    /\ SetBuildState(worker[w].build, "failed")
    /\ Return(w)
    /\ UNCHANGED <<nbuilds, nuploads, upload, file, object, faults>>

\* MUTANT: the claim is an unconditional UpdateBuild.
ClaimAnyway(w) ==
    /\ worker[w].pc = "claim"
    /\ SetBuildState(worker[w].build, "processing")
    /\ Goto(w, "generate")
    /\ UNCHANGED <<nbuilds, nuploads, upload, file, object, faults>>

\* ClaimBuildProcessing: a compare-and-set; the loser returns.
Claim(w) ==
    /\ worker[w].pc = "claim"
    /\ IF build[worker[w].build].state = "started"
       THEN SetBuildState(worker[w].build, "processing") /\ Goto(w, "generate")
       ELSE Return(w) /\ UNCHANGED build
    /\ UNCHANGED <<nbuilds, nuploads, upload, file, object, faults>>

Usable(b, k) == \E f \in Uploaded(b, k) : object[f] = "full"

\* Of several uploaded rows the first that the query yields is taken.
Sound(b, k) == Uploaded(b, k) # {} /\ \A f \in Uploaded(b, k) : object[f] = "full"

\* What generateArchiveDefault needs: the parent's tree and signature, the
\* patch, and the build's own signature to verify the result.
Inputs(b) ==
    {<<b, "patch">>, <<b, "signature">>} \cup
    IF build[b].parent = None THEN {}
    ELSE {<<build[b].parent, "archive">>, <<build[b].parent, "signature">>}

CanGenerate(b) == \A i \in Inputs(b) : Usable(i[1], i[2])
CanFail(b)     == \E i \in Inputs(b) : ~Sound(i[1], i[2])

\* Up to the Put of the archive.  The upload row's columns that it fills from
\* the archive's metadata are not modelled.
GenerateArchive(w) ==
    /\ worker[w].pc = "generate"
    /\ \/ CanGenerate(worker[w].build) /\ Goto(w, "record_archive") /\ UNCHANGED faults
       \/ CanFail(worker[w].build) /\ Goto(w, "fail") /\ UNCHANGED faults
       \/ Fault /\ Goto(w, "fail")
    /\ UNCHANGED <<nbuilds, nuploads, build, upload, file, object>>

\* MUTANT: nothing checks the build again after the generation.
RecordAndReturn(w) ==
    /\ worker[w].pc = "record_archive"
    /\ InsertFile(worker[w].build, "archive", [state |-> "uploaded", size |-> "full", url |-> FALSE])
    /\ Return(w)
    /\ UNCHANGED <<nbuilds, nuploads, build, upload, object, faults>>

\* Its last statement inserts the row; then the check starts over.  The
\* object has a key of its own, which only this row names.
RecordArchive(w) ==
    /\ worker[w].pc = "record_archive"
    /\ LET b == worker[w].build IN
       /\ InsertFile(b, "archive", [state |-> "uploaded", size |-> "full", url |-> FALSE])
       /\ object' = [object EXCEPT ![<<b, "archive", Cardinality(RowsOf(b, "archive")) + 1>>] = "full"]
    /\ worker' = [worker EXCEPT ![w] = CheckFrame(worker[w].build)]
    /\ UNCHANGED <<nbuilds, nuploads, build, upload, faults>>

\* The upload row's size, which is written first, is not modelled.
Complete(w) ==
    /\ worker[w].pc = "complete"
    /\ SetBuildState(worker[w].build, "completed")
    /\ Goto(w, "advance")
    /\ UNCHANGED <<nbuilds, nuploads, upload, file, object, faults>>

\* advanceCompletedChannelHead: an error, logged, when there is no channel row.
AdvanceHead(w) ==
    /\ worker[w].pc = "advance"
    /\ LET b == worker[w].build
           u == build[b].upload IN
       IF upload[u].channel
       THEN upload' = [upload EXCEPT ![u].head = b]
       ELSE UNCHANGED upload
    /\ Return(w)
    /\ UNCHANGED <<nbuilds, nuploads, build, file, object, faults>>

\* A statement or storage call fails and the handler gives up where it is, or
\* the process dies; a crash is this, of every worker.
Abandon(w) ==
    /\ worker[w].pc # "idle"
    /\ Fault
    /\ Return(w)
    /\ UNCHANGED <<nbuilds, nuploads, build, upload, file, object>>

-----------------------------------------------------------------------------
(* GetUpgradePath, which changes nothing *)

\* The builds from "installed" to "target" along the parent links; empty when
\* the walk meets no such build.
Walk(installed, target) ==
    LET walk[b \in BuildIds] ==
            IF b = installed THEN <<b>>
            ELSE IF build[b].parent = None THEN <<>>
            ELSE LET below == walk[build[b].parent]
                 IN  IF below = <<>> THEN <<>> ELSE Append(below, b)
    IN  walk[target]

\* The path the client gets: within the upload, and with every patch there.
UpgradePath(installed, target) ==
    LET path == Walk(installed, target) IN
    IF /\ \A i \in 1 .. Len(path) : build[path[i]].upload = build[target].upload
       /\ \A i \in 2 .. Len(path) : Uploaded(path[i], "patch") # {}
    THEN path ELSE <<>>

-----------------------------------------------------------------------------
\* What a running handler does next.
Advance(w) ==
    \/ CreateBuildUpload(w) \/ CreateBuildInsert(w) \/ CreateBuildChannel(w)
    \/ FinalizeWrite(w) \/ CheckBuild(w) \/ CheckFiles(w) \/ FailBuild(w)
    \/ Claim(w) \/ GenerateArchive(w) \/ RecordArchive(w) \/ Complete(w)
    \/ AdvanceHead(w)

Next ==
    \/ \E w \in Workers : CreateBuildLookup(w) \/ Advance(w) \/ Abandon(w)
    \/ \E b \in BuildIds, k \in ClientKinds : CreateBuildFile(b, k)
    \/ \E f \in Files, s \in StoredSizes : PutObject(f, s)
    \/ \E w \in Workers, f \in Files, s \in Sizes : FinalizeLoad(w, f, s)

Spec == Init /\ [][Next]_vars

\* A goroutine that is ready to run is eventually scheduled; requests need
\* not arrive.
FairSpec == Spec /\ \A w \in Workers : WF_vars(Advance(w))

-----------------------------------------------------------------------------
(* Properties *)

\* Rows, frames and counters keep the types their columns and variables have.
TypeOK ==
    /\ nbuilds \in 0 .. MaxBuilds
    /\ nuploads \in 0 .. MaxUploads
    /\ build \in [BuildIds -> BuildRow]
    /\ upload \in [Uploads -> UploadRow]
    /\ file \in [Files -> FileRow]
    /\ object \in [Files -> Sizes \cup {"none"}]
    /\ worker \in [Workers -> Frame]
    /\ faults \in 0 .. MaxFaults

\* A parent is an older build of the same upload, so the parent links that
\* the archive rebuild and the upgrade path walk end at a root, whatever
\* clients do and whatever fails (collectRebuildChain's guard never trips).
ParentIsOlder ==
    \A b \in BuildIds : build[b].parent # None =>
        build[b].parent < b /\ build[build[b].parent].upload = build[b].upload

\* At most one handler generates a build's archive, and only while the build
\* is unsettled or another's stale write settled it: the claim of
\* checkAndUpdateBuildState has one winner.
SingleGeneration ==
    \A v, w \in Workers :
        /\ worker[v].pc \in GeneratePcs /\ worker[w].pc \in GeneratePcs
        /\ worker[v].build = worker[w].build
        => v = w

\* The server inserts at most one archive row per build, whatever the number
\* of finalizations and their order.
OneGeneratedArchive ==
    \A b \in BuildIds : \A f, g \in RowsOf(b, "archive") :
        ~file[f].url /\ ~file[g].url => f = g

\* A build that was claimed or settled is never open for a claim again.
NeverReopened ==
    [][\A b \in BuildIds : build[b].state \notin {"absent", "started"} =>
            build'[b].state \notin {"absent", "started"}]_vars

\* With clients that upload each artifact once, a settled build stays as it
\* settled although UpdateBuild writes rows read long before.
SettledIsFinal ==
    [][\A b \in BuildIds : build[b].state \in {"completed", "failed"} =>
            build'[b].state = build[b].state]_vars

\* A completed build has a stored patch, signature and archive: what
\* downloads, upgrade paths and archive rebuilds take from it.
CompletedIsWhole ==
    \A b \in BuildIds : build[b].state = "completed" => \A k \in Kinds : Usable(b, k)

\* The channel head "do[es] not advance ... until the build has completed all
\* required artifacts", and the head build stays completed.
HeadIsCompleted ==
    \A u \in Uploads : upload[u].head # None =>
        /\ build[upload[u].head].state = "completed"
        /\ build[upload[u].head].upload = u

\* A push whose parent was handed out can always be generated: the parent's
\* tree and signature are there for as long as the build is unsettled.
ParentIsUsable ==
    \A b \in BuildIds : build[b].state \in {"started", "processing"} /\ build[b].parent # None =>
        Usable(build[b].parent, "archive") /\ Usable(build[b].parent, "signature")

\* Whoever installed a build that a completed build descends from gets the
\* path of patches to it, link by link, without a gap in the history.
UpgradesResolve ==
    \A target \in BuildIds : build[target].state = "completed" /\ build[target].parent # None =>
        LET base == build[target].parent IN
        /\ build[base].state = "completed"
        /\ \A installed \in BuildIds : UpgradePath(installed, base) # <<>> =>
               UpgradePath(installed, target) = Append(UpgradePath(installed, base), target)

\* A build in "processing" has a handler at work on it ("another finalization
\* is already generating this archive"): no build is left in the middle.
ProcessingIsAttended ==
    \A b \in BuildIds : build[b].state = "processing" =>
        \E w \in Workers : worker[w].build = b /\ worker[w].pc \in CheckPcs

Quiet == \A w \in Workers : worker[w].pc = "idle"

\* A build is left half-way, in "processing" with nobody at work or completed
\* on a channel without a head, only when a call failed or a handler died.
StrandedOnlyByFaults ==
    faults = 0 =>
        /\ ProcessingIsAttended
        /\ Quiet => \A b \in BuildIds : build[b].state = "completed" =>
                        upload[build[b].upload].head # None

\* When nothing fails and clients are honest, only a truncated upload fails a
\* build: no order of the handlers' statements does.
FailureIsWarranted ==
    faults = 0 => \A b \in BuildIds : build[b].state = "failed" => HasFailedFile(b)

\* What the tables say to those who see neither handlers nor rows.
StageOf  == [b \in BuildIds |-> IF build[b].state \in {"started", "processing"}
                                THEN "open" ELSE build[b].state]
UploadOf == [b \in BuildIds |-> build[b].upload]
ParentOf == [b \in BuildIds |-> build[b].parent]
HeadOf   == [u \in Uploads |-> upload[u].head]
StoredArtifacts ==
    LET stored == {f \in Files : file[f].state = "uploaded" /\ object[f] = "full"}
    IN  {<<f[1], f[2]>> : f \in stored}

\* The pipeline implements what BuildHistory promises.
History == INSTANCE BuildHistory WITH
    Builds <- BuildIds, Pushed <- {"patch", "signature"}, Generated <- {"archive"},
    stage <- StageOf, upload <- UploadOf, parent <- ParentOf, head <- HeadOf,
    stored <- StoredArtifacts

\* To clients that upload each artifact once, all the statements of all the
\* handlers, and whatever fails between them, come to a history of pushes that
\* gather artifacts, settle once and are published when complete.
ImplementsHistory == History!Spec

\* Every required artifact is finalized and no other row of the build spoils
\* the check.
AllFinalized(b) ==
    /\ \A k \in {"patch", "signature"} : TRUE \in Readiness(b, k)
    /\ \A k \in Kinds : Uploaded(b, k) # {} => FALSE \notin Readiness(b, k)

\* Of the checks that the finalizations start, one sees all artifacts and
\* carries the build through: no wake-up is lost.
FinalizedSettles ==
    \A b \in BuildIds : <>[]AllFinalized(b) => <>(build[b].state \in {"completed", "failed"})
=============================================================================
