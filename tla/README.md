# DenKit Stash: TLA+ specifications and proofs

DenKit Stash receives game builds from `butler` (the wharf protocol), keeps
their artifacts in object storage and their rows in PostgreSQL, generates a
full archive for every build on the server, and treats those archives as a
cache: a collector evicts cold ones, a download rebuilds them from the patches.

No handler uses a transaction.  Every guarantee rests on single SQL
statements, on the order in which they and the storage calls are issued, on
one compare-and-set and on one advisory lock per build.  That is what these
specifications are about.

    BuildPipeline    pushes: create, finalize, check, generate, complete, head;
                     for honest clients  implements  BuildHistory
    ArchiveCache     downloads, rebuilds, evictions and sweeps
    UploadSession    one resumable upload;  implements  ResumableUpload
    Accounts         users and the commands that change them;  implements  AccountBook
    Catalogue        requests on top of Accounts: games, uploads, channels, upload rows
    MC*.tla, *.cfg   instances for TLC
    *Proofs.tla      theorems checked by TLAPS

## 1. Inventory

| Component (`src/`) | State | Operations | Hard part |
|---|---|---|---|
| Build pipeline (`handlers/wharf_builds.go`, `wharf_archive.go`) | `builds`, `build_files`, `uploads`, `channels` rows; objects | CreateBuild, CreateBuildFile, FinalizeBuildFile, `checkAndUpdateBuildState` in a goroutine | concurrent checks, whole-row writes of old copies, death after the claim |
| Archive rebuild (`wharf_rebuild.go`) | archive row, objects, advisory lock | `ensureArchive`, `rebuildArchive`, `replayArchiveChain` | the first look takes no lock; clients go away; failing writes |
| Archive collector (`archive_gc.go`) | the same | `evictArchive`, sweep | stale candidates, crash between mark, delete and clear |
| Statements and locks (`models/postgres.go`) | tables, session locks | one statement each | the lock dies with its connection |
| Upload sessions (`wharf_upload_sessions.go`) | session row, local file, object | PUT of a range, commit | cut bodies, retries, overlapping PUTs, int64 ranges |
| Channels and downloads (`wharf_channels.go`, `wharf_downloads.go`) | none of its own | lists, redirects, upgrade path | walks over rows that change |
| Games, uploads (`wharf_builds.go`, `core.go`, `wharf_support.go`) | `games`, `uploads`, `channels` | get-or-create in CreateBuild, read-modify-write of upload rows | no UNIQUE title, inserts cut off half-way, lost updates |
| Users (`auth/`, `models/api_keys.go`, flags of `main.go`) | `users`, the copy in a request's context | create, ensure, (de)activate, key lookup | read-modify-write across processes, stale copies |
| Object storage client (`objectstorage.go`) | bucket | Put, Get, Head, Delete | any call may fail |
| HTTP, responses, configuration, startup (`http_api.go`, `responses.go`, `main.go`, ...) | none | routing, encoding | none that a model would show |

How they interact.  A finalization starts a check; the check that wins the
claim generates the archive, which for a build with a parent calls
`ensureArchive` of the parent; the same call serves downloads.  Rebuilds and
evictions of a build exclude each other by its advisory lock, but the pipeline
writes the same row without it.  A push finds or creates the game, the upload
and the channel its build belongs to; pushes, generations and completions all
rewrite the upload's row.  A request acts on the copy of its user that the
middleware read, while account commands, which are processes of their own,
change the users.  Upload sessions end in the object that a
finalization looks for.

What makes them correct, in a line each:

* pipeline: a completed build has everything that downloads, upgrades and
  rebuilds take from it; the head is completed; the archive is generated once;
  a finalized build settles;
* cache: an "uploaded" row names a stored object; heads stay; what is evicted
  can be brought back; nothing is left behind unnamed;
* sessions: acknowledged bytes are on disk; only the whole upload is stored;
  a client that keeps sending finishes;
* users: a command takes effect as a whole at one moment or changes nothing;
* catalogue: a developer's push stays in the developer's namespace; pushes that
  do not overlap share their rows; the head is a listed, completed build, and
  the upload row tracks it.

`PROJECT.json` lists the hazards line by line, with the properties that cover
each, and says of the uncovered ones why.

## 2. The modules and the code

**BuildPipeline**, with **BuildHistory** as what it promises honest clients.  A
worker is a request handler and the goroutine it starts; its frame holds the
copies the handler works on.  Each statement and storage call is one action,
named after the function it belongs to: `CreateBuildLookup`
(with its two outcomes), `CreateBuildUpload`, `CreateBuildInsert`,
`CreateBuildChannel`; `CreateBuildFile`; `FinalizeLoad`, `FinalizeWrite`;
`CheckBuild`, `CheckFiles`, `FailBuild`, `Claim`, `GenerateArchive`,
`RecordArchive`, `Complete`, `AdvanceHead`.  `Abandon` is a failing call that
ends the handler, or its death, at any step; a crash of the server is one
`Abandon` per worker.  Where the code ignores an error (the lookup loop of
CreateBuild, the failed row's update of FinalizeBuildFile) the model goes on as
the code does.  `UpdateBuild` writes rows read earlier, so `FailBuild` and
`Complete` write whatever the build has become.  `hasReadyRequiredFile` takes
the last uploaded row that an unordered query yields: `Readiness` is the set
of its possible answers.  `HonestClients` says that clients tell true sizes and
store each artifact once; what they store may still be truncated.
`UpgradePath` is the answer of GetUpgradePath, a walk over the parent links
that changes nothing.

BuildHistory has no rows and no handlers: of each build its stage, upload,
parent and stored artifacts, of each upload its head.  A build is pushed onto a
completed one or onto nothing (`Push`), gathers artifacts (`Store`), is settled
once, completed exactly if it then has them all (`Settle`), and may be published
from then on (`Publish`).  The mapping is `StageOf` ("started" and "processing"
are both "open"), `UploadOf`, `ParentOf`, `HeadOf` and `StoredArtifacts` (rows in
"uploaded" whose object is whole).  The promise is as weak as the code: a push
may be onto a build that is no longer the head, and the head may go back to an
older build that completes later.

**ArchiveCache.**  The requests are downloads and pushes, both through
`ensureArchive`; the collectors are the archive GC goroutines of the server's
replicas.  The stages of a frame are `warmArchive` (`Ensure`), the lock, the
second look, `rebuildArchive` (`BeginRebuild`, `MarkRebuilding`, `Revert`), the
chain (`CollectChain`, one link a step), its replay, and the touch.  A push
publishes its build in one step, which BuildPipeline has statement by
statement.  `LoseLock` is the loss of the pinned connection alone: its owner
goes on.  `Cancel` is a client that goes away or the rebuild timeout; it makes
context-bound calls fail and leaves the writes, as in the code.  Keys are
uuids: `NewKeys` takes one that no object, row or frame has.

**UploadSession**, with **ResumableUpload** as what it promises.  The row is
`size` and `state`, the local file a sequence of byte numbers with 0 for a byte
never written, the object what the last PUT stored.  PUTs come with any start,
any end up to the largest int64, and with or without a total.  `Wrap` is int64
addition.  `Truncate` cuts *or extends*, and `CopyByte` writes at the offset the
handler read.  `Overlap` says whether a client sends again while an earlier PUT
still runs.

**Accounts**, with **AccountBook** as what it promises.  A command is a process
started with one of the account flags: `Start`, `Lookup` (or `LookupAnswers`,
where the lookup decides the answer), `Write`, and `Exit`, which is also a
process that is killed or whose call fails.  `Written` is the row that
UpdateUser or CreateUser is called with; `Accepts` the two UNIQUE constraints.
Keys stand for their digests, one to one; `Fresh` is a random key.  Between the
lookup and the write other commands may write: the book takes effect at the
write, so what a switch (`--activate-user`, `--deactivate-user`) read must still
be right then.  It is, except for the status and against another switch of the
same user, unless the user is ensured meanwhile.  `Overlap` allows that; without
it the operator ensures and switches one user one at a time.

**Catalogue** extends Accounts with the request handlers.  A frame holds what
the request came with (key, user's name and role as AuthMiddleware read them),
its target and channel, and the rows and columns it has read.  CreateBuild is
`CreateBuild` (access and owner), `CreateBuildGames`, `CreateGame`,
`CreateBuildUploads`, `CreateBuildPlatforms`, `CreateUpload`,
`CreateBuildInsert`, `CreateBuildChannel`.  What BuildPipeline has in detail is
coarse here: `Claim`, `Generate`, `WriteMetadata`, `RecordArchive`, then
`ReadSize`, `WriteSize`, `Complete`, `AdvanceHead`, which any check that finds
the archive may carry out too (`Check`).  An upload row's size and platforms are
read in one action and written back whole in a later one; a build stands for
its archive's size, as two archives that are equally long would only hide a
lost update.  An upload carries its channels row, of which CreateBuild makes at
most one.  `Listed` and `BuildsListed` are the answers of the channel and build
listings.  Two history variables say on which rows a property makes no claim:
`crowded` has the targets two pushes of which overlapped or failed to find a
channel that is there, `disturbed` the uploads whose row two handlers had in
hand at once or one left half-way.

## 3. Runs

| Run | Instance | Shows |
|---|---|---|
| `pipeline_honest` | 2 workers, 2 builds, 3 uploads, 1 fault, honest clients, truncated uploads | ParentIsOlder, CompletedIsWhole, HeadIsCompleted, ParentIsUsable, UpgradesResolve, StrandedOnlyByFaults, FailureIsWarranted, SettledIsFinal, ImplementsHistory |
| `pipeline_arbitrary` | 2 workers, 1 build, 1 fault, any client | TypeOK, SingleGeneration, OneGeneratedArchive, NeverReopened |
| `pipeline_settles` | fair, no fault, any client | FinalizedSettles: no wake-up is lost |
| `pipeline_stuck` | 1 fault | refutes ProcessingIsAttended |
| `pipeline_stale_fail` | no fault, any client | refutes HeadIsCompleted |
| `cache_safety` | 2 requests, 1 collector, 2 builds, 1 fault, cancels | TypeOK, UploadedIsStored, HeadIsNotEvicted, EvictedIsRebuildable, LockIsExclusive |
| `cache_settles` | fair, 1 request, 2 collectors, 1 fault, cancels | LeftoverIsSwept, RequestsEnd |
| `cache_cancel` | no fault, cancels | refutes RebuildingIsAttended |
| `cache_leftover` | 1 fault | refutes LeftoverStaysNamed |
| `upload_session` | fair, upload of 4 bytes, 3 faults, no overlap | TypeOK, AckedIsDurable, ImplementsPromise, UploadFinishes |
| `catalogue` | 2 users, 2 keys, 2 channels, 1 title, 2 requests, 2 commands; commands, pushes and faults within (3,0,0), (1,1,1) or (0,2,1) | TypeOK, KeepsToNamespace, PushesShareRows, HeadIsListed, UploadTracksHead, CommandsAreAtomic |
| `upload_overlap` | 2 PUTs at a time, no fault | refutes AckedIsDurable |

Why the bounds are enough to be interesting.

* Two workers make every pair of statements of two handlers meet: two checks of
  one build, a check and a finalization, two first pushes of a channel.  Two
  builds make a parent and a child; two rows of a kind make the client's and
  the server's, or a repeated one.  Three uploads leave room for each push and
  for a failed lookup.
* In the cache a chain of two builds has a head and an evictable build below
  it; two requests and a collector contend for one lock, and one fault is
  enough for every state that needs a crash or a failing call.  Two keys per
  build suffice where nothing has to end; under fairness orphaned objects hold
  keys, and a replay that finds none could not go on, so that run has four.
* A session of four bytes has room for three chunks and a final one, and 7 as
  the largest int64 makes ranges wrap.
* In the catalogue two commands make every read and write of two commands meet,
  and a third may follow; one command beside a push changes the user whose copy
  the push carries; two pushes make a developer's and an administrator's of one
  namespace, overlapping or not, and one fault cuts one of them off anywhere.
  `Budgets` leaves out only the sums of the three, which interact through the
  users table alone.  Requests, commands and channels are symmetric; titles are
  one because games of two titles share nothing that a second user's do not.

Fairness.  `BuildPipeline!FairSpec` and the handlers' part of the other two are
weak fairness of what a goroutine that is ready does next; nothing requires a
request to come.  `ArchiveCache!FairSpec` adds strong fairness of `Lock`
(PostgreSQL queues waiters of an advisory lock) and of `ListLeftover` (the
ticker comes round to a leftover that stays one).  `UploadSession!FairSpec` adds
strong fairness of `SendRest`: a client that is not done keeps sending the rest
from the offset it is told.  Faults are never fair and are bounded, so liveness
is claimed once faults have stopped.

`upload_session` and `upload_overlap` switch the deadlock check off because a
completed session really stops, and `catalogue` because its bounds do: with no
command, push or fault left and every build settled nothing is to be done.

## 4. What the runs found

* **A dead generator strands its build** (`pipeline_stuck`,
  `wharf_archive.go:61`).  A check that loses the claim returns because
  "another finalization is already generating this archive", but no claim is
  undone when its handler dies, and nothing looks at startup.
* **A late failure overwrites a completed head** (`pipeline_stale_fail`,
  `wharf_archive.go:47`).  A check that read a failed row writes the build
  failed after another check, which saw the row finalized again, completed it.
* **A cancelled rebuild leaves a fresh row in "rebuilding"** (`cache_cancel`,
  `wharf_rebuild.go:132`).  Only rows that had been evicted are reverted; a
  download that came before the push completed rebuilds a row that was not.
* **A rebuild before the sweep orphans the leftover object** (`cache_leftover`,
  `wharf_rebuild.go:196`).
* **Overlapping PUTs cut acknowledged bytes** (`upload_overlap`,
  `wharf_upload_sessions.go:120`).

## 5. Proofs

All proofs hold for every value of the constants under the named assumptions of
the modules, which the runs evaluate.  That includes any number of workers,
builds, rows, uploads and faults, and any length, quota and integer width.

`BuildPipelineProofs`

* `TypeCorrect`: `Spec => []TypeOK`.
* `LineageIsAcyclic`: `Spec => []ParentIsOlder`.  The invariant is strengthened
  with what is between the lookup and the insertion: the parent in a worker's
  frame is a head of that worker's upload and not newer than the last build,
  and every head is an existing build of its upload.

`BuildPipelineClaimProofs`

* `ClaimsAreFinal`: `Spec => NeverReopened`.
* `GenerationIsExclusive`: `Spec => []SingleGeneration`.
* `ArchiveIsGeneratedOnce`: `Spec => []OneGeneratedArchive`.  Neither of the
  last two is inductive: a worker that generates must be known to generate for
  a build that is no longer claimable, and an archive row of the server must
  exclude both a claim to come and a generation under way.  The invariant ties
  the claim, the frames and the server's rows together.

`BuildPipelineHonestProofs`

These assume `Butler`: clients like butler, who upload every artifact of a build
once, state its true size and leave the archive to the server (the constants of
the run `pipeline_honest`).  The code does not enforce it, and the runs of section 4
show what happens otherwise.  Handlers, builds and faults are any number.

* `SettledBuildsStay`, `CompletedBuildsAreWhole`, `HeadsAreCompleted` and
  `ParentsAreUsable`: `Spec => SettledIsFinal`, `Spec => []CompletedIsWhole`,
  `Spec => []HeadIsCompleted` and `Spec => []ParentIsUsable`.  A check decides from
  rows it read long before and then writes the build's whole row.  The argument is
  that what it has learnt stays true: rows of a kind are one (`OneRow`), a
  repeated finalization judges as the first did (`WriteFits`), so a build that is
  `Whole` stays whole and one that has a failed file or is `Doomed` (claimed,
  without an archive, and nobody generates one) stays so (`FactsLast`), and none is
  both (`WholeIsNotFailing`).  `BuildInv` says that handlers about to complete or
  to fail a build, settled builds, parents and heads are what these facts say.
* `FailuresAreWarranted` and `OnlyFaultsStrand`: `Spec => []FailureIsWarranted` and
  `Spec => []StrandedOnlyByFaults`.  As long as nothing failed, a generation has
  whole inputs (`GenerationSucceeds`), a build in processing has a handler that
  will complete it (`WorkInv`), a build that clients see has its channel row
  (`ChannelInv`), and a completed build has set its channel's head or is about to
  (`HeadInv`).
* `HistoryHasNoGaps`: `Spec => []UpgradesResolve`.  `Walk` is a recursive function
  of the build's id, defined by `CHOOSE`; parents are older, so such a function
  exists (`WalksExist`) and obeys its equation (`WalkStep`).  Both that and
  `WalkLeads` (a walk ends at its target and starts at no newer build) need
  induction on ids; a least counterexample takes its place (`Least`, from the
  library's well-founded order), as the prover cannot instantiate the induction
  theorems.  The links come from `BuildInv`: a completed build has its patch,
  and its parent is completed and of the same upload.
* `PipelineImplementsHistory`: `Spec => ImplementsHistory`.  `HistoryInv` is the
  invariant above with two additions: ids handed out have rows (`Inserted`), and
  a push about to insert its build has an upload (`Chosen`).  `CreateBuildInsert`
  is `Push`, `FinalizeWrite` and `RecordArchive` are `Store` or nothing new,
  `FailBuild` and `Complete` are `Settle` or repeat what was settled,
  `AdvanceHead` is `Publish`, and the rest is `Unseen`; one lemma each.  That a
  build fails only when it lacks an artifact, although its check decided
  earlier, is `WholeIsNotFailing`.

`ArchiveCacheProofs`

What each action does to a frame, a row and a lock is a lemma of its own
(`EnsureDoes`, ..., `LeaveDoes`), and the proofs below go by these.

* `CacheTypeCorrect`: `Spec => []TypeOK`.  `TypeInv` adds that a frame at work
  has a build, and that a walk of a chain is at one (`Placed`).
* `EvictedCanBeRebuilt`, `HeadsStayCached`: `Spec => []EvictedIsRebuildable` and
  `Spec => []HeadIsNotEvicted`, lost locks included.  A build is `Cold` when its
  patch and signature are there, it is completed and it is not the head; a cold
  build stays cold, as a push completes or fails only the build it holds
  (`HatchInv`: a started one, held by nobody else).  `ColdInv` says that evicted
  rows, rebuilds that would put a row back to evicted, and collectors past the
  guard are all about cold builds.
* `UploadedRowsAreStored`: `Spec => []UploadedIsStored`, lost locks included.
  `StoreInv` adds that an archive that is stored and not recorded yet has a key
  that no row, no other frame and no collector holds (`RecordsFit`), and that
  what a collector deletes is not an uploaded row's key (`DeletesFit`).  It
  needs `ColdInv`: a push never writes the row of a build that is being rebuilt
  or collected.
* `ArchiveLockIsExclusive`: `Spec => []LockIsExclusive`.  `LockInv` says that as
  long as nothing failed each lock has one holder and whoever works on a row
  holds its lock.

`UploadSessionProofs`

* `SessionTypeCorrect`: `Spec => []TypeOK`, overlapping PUTs included.  The
  strengthening is that a PUT copies at the offset it starts from and within
  the upload.
* `AcknowledgedIsOnDisk`: `~Overlap` implies `Spec => []AckedIsDurable`.
  `SessionInv` says of a running PUT what it has checked or done so far: its
  offset is the row's, the bytes up to the one it copies are in place, a last
  range ends at the length, what it is about to store is whole.  One PUT runs
  at a time, so the others' part is idle (`OneMoves`), and each action has a
  lemma of its own.
* `SessionImplementsPromise`: `~Overlap` implies `Spec => ImplementsPromise`,
  from the same invariant: `UpdateSize` is `Accept`, `StoreObject` is `Store`,
  `Complete` is `Finish`, and the rest stutters.

`AccountsProofs` (lemmas) and `CatalogueProofs`

* `AccountCommandsAreAtomic`: `~Overlap` implies `Spec => CommandsAreAtomic`.
  `BookInv` says that a switch that has read a row holds the key and role that
  the row still has, as only ensuring would change them, and that a user and a
  running ensure of it exclude a running switch; `Write` is then the book's
  `Perform` or `Refuse`, and everything else `Order`, `Leave`, `Refuse`,
  `Perform` without effect, or a stutter.
* `PushesKeepToNamespace`: `Spec => []KeepsToNamespace`, for any `Overlap`:
  each handler's frame names rows of its own target (`PushFits`), and rows never
  change their owner.
* `HeadsAreListed`: `Spec => []HeadIsListed`.  The invariant `Inv` adds that
  one handler at most generates a build's archive, that a build whose archive
  is settled was recorded or completed (`SettleFits`, `SoleGenerator`), that one
  push at most holds an upload without a channel (`SoleHolder`), and that a head
  has its upload's channel.
* `NonOverlappingPushesShareRows`: `Spec => []PushesShareRows`.  `SharedInv`
  carries what a push found missing until it has inserted it (`FoundNothing`)
  and that no other push of an uncrowded target runs (`SolePush`).

`CatalogueRowsProofs`

* `SizeTracksHead`: `Spec => []UploadTracksHead`.  `TrackInv` adds `WindowFits`:
  an undisturbed upload's row is in the hands of one handler at most (`In`), a
  push that is about to reset the platforms holds the size the row still has,
  and a build about to be completed or to become the head has its size in the
  row.  `Tracks` says what a step must do for that to last; each action has a
  lemma (`ReadSizeTracks`, ..., `AdvanceHeadTracks`).
* `CatalogueTypes`: `Spec => []TypeOK`, the bounds on ids included.  `RefsInv`
  says that ids in frames and rows are ids of rows; `RoomInv` that the rows of a
  table and the pushes that have yet to insert theirs are together no more than
  the pushes.  TLC checked `WindowFits`, `RefsInv` and `RoomInv` on the instance
  of the run `catalogue` before they were proved.

Every safety invariant and action property of the runs that pass is proved.
Only model-checked is what holds under fairness (FinalizedSettles,
LeftoverIsSwept, RequestsEnd, UploadFinishes): liveness and ENABLED are outside
what the prover handles.

## 6. Not modelled

* The content of patches, signatures and archives: a replay succeeds on
  complete inputs and fails on damaged ones (external libraries).
* Wording, encoding and routing of requests; a request that is refused before
  it writes is a step that is not taken.
* Sub-types other than `default`; names and classifications of games and
  uploads; user profiles and lists, which change nothing.
* In Catalogue: files, and checks that fail a build; that a build fails after
  it became the head (`pipeline_stale_fail`) is BuildPipeline's finding, and
  HeadIsListed is about builds that do not.
* The connection pool: waiters of an advisory lock do not exhaust it.
* Loss of the local session file.  Sessions are kept under the relative path
  `storage/upload-sessions`; the model takes the file system to keep what was
  written.  A deployment that loses that directory on a restart makes `Truncate`
  extend an empty file with zeros, which the code accepts.
* `maxArchiveChainLength`: by ParentIsOlder the walk ends before it.
* Batches of the collector: a candidate at a time, in any order.

## 7. Plan

Done, in this order: BuildPipeline and its runs; its three proof modules;
ArchiveCache, its runs and proofs; UploadSession, ResumableUpload, their runs and
proofs; Accounts, AccountBook, Catalogue, their run and proofs; the upgrade
path, the upload row and the catalogue's types proved; BuildHistory, checked and
proved.

Next, the most important first.

1. *Stash*: pipeline and cache composed on one archive row, with client-created
   archive rows and the whole-row write of FinalizeBuildFile against an
   eviction or a rebuild (`wharf_builds.go:354`), and a build whose files are
   finalized again after it completed.
2. *Collector batches*: candidates that the guard refuses against the batch
   limit (`archive_gc.go:74`), and chains whose base lost its signature
   (`archive_gc.go:133`).
3. *An abstract cache*: what ArchiveCache promises a download (the archive is
   there, or is brought back, or the answer is an error), as BuildHistory is for
   pushes.
4. *Operators*: the latest completed build against a reference definition.
