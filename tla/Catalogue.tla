----------------------------- MODULE Catalogue -----------------------------
(***************************************************************************)
(* Whom a request may push for and what its push leaves in the catalogue:  *)
(* AuthMiddleware's copy of the user, CreateBuild's get-or-create of the   *)
(* game, the upload and its channel, and the upload row, whose size and    *)
(* platforms pushes, generations and completions read, change and write    *)
(* back whole.  The commands of Accounts change the users meanwhile.       *)
(*                                                                         *)
(* What BuildPipeline has in detail (files, checks, failures) is one step  *)
(* here: a build is claimed, its archive generated, the build completed.   *)
(*                                                                         *)
(* A list of uploads and the lookups of their channels are one step: an    *)
(* upload without a channel row has not been written since its insertion,  *)
(* and a channel row is never deleted.                                     *)
(***************************************************************************)
EXTENDS Accounts, Sequences, FiniteSets

CONSTANTS
    Requests,  \* concurrent request handlers, each with the goroutine it starts
    Titles,    \* titles of games
    Channels,  \* channel names
    NoChannel, \* no channel row
    MaxPushes, \* bound: builds that are created, and games and uploads with them
    MaxFaults, \* bound: calls that fail and handlers that die
    Budgets    \* bound: the <<commands, pushes, faults>> of one behaviour together

ASSUME PushesAssumption == MaxPushes \in Nat /\ MaxFaults \in Nat
ASSUME ChannelAssumption == NoChannel \notin Channels
ASSUME BudgetsAssumption ==
    Budgets \subseteq (0 .. MaxCommands) \X (0 .. MaxPushes) \X (0 .. MaxFaults)

VARIABLES
    game,       \* the games table: the target of each
    upload,     \* the uploads table, each row with its channels row
    build,      \* the builds table
    request,    \* frame of each handler
    pushes,     \* CreateBuild requests so far
    faults,     \* faults so far
    crowded,    \* targets two pushes of which overlapped, or failed to find a channel
    disturbed   \* uploads whose row two handlers wrote at a time, or one half-way

catalogueVars == <<game, upload, build, request, pushes, faults, crowded, disturbed>>
vars == <<accountVars, catalogueVars>>

Ids  == 1 .. MaxPushes  \* SERIAL ids of games, uploads and builds
None == 0
MaybeId == Ids \cup {None}
Targets == Names \X Titles
NoTarget == <<>>

\* The columns of an upload row that change.  Archives of two builds differ
\* in size, so a build stands for its archive's size; platforms come from the
\* channel's name or from the archive's file name.
Columns == [size : MaybeId, platforms : {"channel", "archive"}]
New == [size |-> None, platforms |-> "channel"]

UploadRow == [game : Ids, channel : Channels \cup {NoChannel}, head : MaybeId, row : Columns]
BuildRow == [upload : Ids, channel : Channels,
             state : {"started", "processing", "archived", "completed"}]

CreatePcs == {"games", "create_game", "uploads", "platforms", "create_upload", "build", "channel"}
SettlePcs == {"generate", "write_metadata", "record", "size", "write_size", "complete", "advance"}

\* A request's frame: the key and the copy of the user it came with, the
\* target and channel of its push, the rows it found and the columns it read.
Frame == [pc : {"idle"} \cup CreatePcs \cup SettlePcs,
          as : Names \cup {None}, key : Keys \cup {NoKey}, role : Book!Roles,
          target : Targets \cup {NoTarget}, channel : Channels \cup {NoChannel},
          game : MaybeId, upload : MaybeId, copy : Columns, build : MaybeId]
Idle == [pc |-> "idle", as |-> None, key |-> NoKey, role |-> "user", target |-> NoTarget,
         channel |-> NoChannel, game |-> None, upload |-> None, copy |-> New, build |-> None]

Games == DOMAIN game
Uploads == DOMAIN upload
Builds == DOMAIN build

CatalogueInit ==
    /\ game = <<>> /\ upload = <<>> /\ build = <<>>
    /\ request = [r \in Requests |-> Idle]
    /\ pushes = 0 /\ faults = 0 /\ crowded = {} /\ disturbed = {}

Goto(r, pc) == request' = [request EXCEPT ![r].pc = pc]
Forget(r, pc) == request' = [request EXCEPT ![r].pc = pc, ![r].copy = New]
Return(r)   == request' = [request EXCEPT ![r] = Idle]

\* The bounds leave room for these numbers together.
Within(c, p, f) == \E most \in Budgets : c <= most[1] /\ p <= most[2] /\ f <= most[3]
Fault == Within(commands, pushes, faults + 1) /\ faults' = faults + 1

\* Handlers between the read of an upload row and the last write that depends
\* on it, which for a completion is the channel's head.
WindowPcs == {"platforms", "write_metadata", "write_size", "complete", "advance"}
In(u) == {r \in Requests : request[r].upload = u /\ request[r].pc \in WindowPcs}
Enter(u) == disturbed' = IF In(u) = {} THEN disturbed ELSE disturbed \cup {u}

\* The row has been written for a build that is not the channel's head yet.
UnfinishedPcs == {"record", "size", "write_size", "complete", "advance"}

-----------------------------------------------------------------------------
(* CreateBuild *)

Pushing(target) == {r \in Requests : request[r].pc \in CreatePcs /\ request[r].target = target}

\* IsAdmin, CanAccessNamespace.
CanAccess(name, role, namespace) == role = "admin" \/ name = namespace

\* AuthMiddleware gives the handler a copy of the user's row, on which it acts
\* to its end; validateNamespaceAccess, and the owner's lookup.
CreateBuild(r, k, target, channel) ==
    /\ request[r].pc = "idle"
    /\ Within(commands, pushes + 1, faults)
    /\ user[target[1]] # Book!NoUser
    /\ \E n \in Authenticated(k) :
        /\ CanAccess(n, user[n].role, target[1])
        /\ request' = [request EXCEPT ![r] =
              [Idle EXCEPT !.pc = "games", !.as = n, !.key = k, !.role = user[n].role,
                           !.target = target, !.channel = channel]]
    /\ pushes' = pushes + 1
    /\ crowded' = IF Pushing(target) = {} THEN crowded ELSE crowded \cup {target}
    /\ UNCHANGED <<accountVars, game, upload, build, faults, disturbed>>

\* MUTANT: a game is found by its title, whoever owns it.
GamesTitled(target) == {g \in Games : game[g][2] = target[2]}

GamesOf(target) == {g \in Games : game[g] = target}

\* MUTANT: the games of the pushing user are searched.
SearchOwnGames(r) ==
    /\ request[r].pc = "games"
    /\ LET matches == GamesOf(<<request[r].as, request[r].target[2]>>) IN
       IF matches = {} THEN Goto(r, "create_game")
       ELSE \E g \in matches :
            request' = [request EXCEPT ![r].pc = "uploads", ![r].game = g]
    /\ UNCHANGED <<accountVars, game, upload, build, pushes, faults, crowded, disturbed>>

\* GetGamesByUserID: the first with the title, in no particular order.
CreateBuildGames(r) ==
    /\ request[r].pc = "games"
    /\ LET matches == GamesOf(request[r].target) IN
       IF matches = {} THEN Goto(r, "create_game")
       ELSE \E g \in matches :
            request' = [request EXCEPT ![r].pc = "uploads", ![r].game = g]
    /\ UNCHANGED <<accountVars, game, upload, build, pushes, faults, crowded, disturbed>>

CreateGame(r) ==
    /\ request[r].pc = "create_game"
    /\ game' = Append(game, request[r].target)
    /\ request' = [request EXCEPT ![r].pc = "uploads", ![r].game = Len(game) + 1]
    /\ UNCHANGED <<accountVars, upload, build, pushes, faults, crowded, disturbed>>

UploadsOf(g, channel) == {u \in Uploads : upload[u].game = g /\ upload[u].channel = channel}

\* GetUploadsByGameID and GetChannelByName of each: the first that has the
\* channel.  A lookup that fails is taken for a channel that is not there.
CreateBuildUploads(r) ==
    /\ request[r].pc = "uploads"
    /\ LET matches == UploadsOf(request[r].game, request[r].channel) IN
       \/ \E u \in matches :
            IF upload[u].row.platforms = "channel"
            THEN /\ request' = [request EXCEPT ![r].pc = "build", ![r].upload = u]
                 /\ UNCHANGED <<faults, crowded, disturbed>>
            ELSE /\ request' = [request EXCEPT ![r].pc = "platforms", ![r].upload = u,
                                               ![r].copy = upload[u].row]
                 /\ Enter(u)
                 /\ UNCHANGED <<faults, crowded>>
       \/ /\ \/ matches = {} /\ UNCHANGED <<faults, crowded>>
             \/ Fault /\ crowded' = crowded \cup {request[r].target}
          /\ Goto(r, "create_upload")
          /\ UNCHANGED disturbed
    /\ UNCHANGED <<accountVars, game, upload, build, pushes>>

\* UpdateUpload writes every column of the row that was read.
UpdateUpload(u, columns) == upload' = [upload EXCEPT ![u].row = columns]

CreateBuildPlatforms(r) ==
    /\ request[r].pc = "platforms"
    /\ UpdateUpload(request[r].upload, [request[r].copy EXCEPT !.platforms = "channel"])
    /\ Forget(r, "build")
    /\ UNCHANGED <<accountVars, game, build, pushes, faults, crowded, disturbed>>

CreateUpload(r) ==
    /\ request[r].pc = "create_upload"
    /\ upload' = Append(upload,
          [game |-> request[r].game, channel |-> NoChannel, head |-> None, row |-> New])
    /\ request' = [request EXCEPT ![r].pc = "build", ![r].upload = Len(upload) + 1]
    /\ UNCHANGED <<accountVars, game, build, pushes, faults, crowded, disturbed>>

\* The parent is BuildPipeline's matter.
CreateBuildInsert(r) ==
    /\ request[r].pc = "build"
    /\ build' = Append(build, [upload |-> request[r].upload, channel |-> request[r].channel,
                               state |-> "started"])
    /\ IF upload[request[r].upload].channel = NoChannel THEN Goto(r, "channel") ELSE Return(r)
    /\ UNCHANGED <<accountVars, game, upload, pushes, faults, crowded, disturbed>>

CreateBuildChannel(r) ==
    /\ request[r].pc = "channel"
    /\ upload' = [upload EXCEPT ![request[r].upload].channel = request[r].channel]
    /\ Return(r)
    /\ UNCHANGED <<accountVars, game, build, pushes, faults, crowded, disturbed>>

-----------------------------------------------------------------------------
(* What becomes of a build *)

SetState(b, state) == build' = [build EXCEPT ![b].state = state]
Current(r) == upload[request[r].upload].row

Settling(r, b, pc) ==
    /\ request[r].pc = "idle"
    /\ request' = [request EXCEPT ![r] =
          [Idle EXCEPT !.pc = pc, !.build = b, !.upload = build[b].upload]]
    /\ UNCHANGED <<accountVars, game, upload, pushes, faults, crowded, disturbed>>

\* checkAndUpdateBuildState of a finalized build: the claim.
Claim(r, b) ==
    /\ build[b].state = "started"
    /\ SetState(b, "processing")
    /\ Settling(r, b, "generate")

\* Another check, which finds the archive.
Check(r, b) ==
    /\ build[b].state = "archived"
    /\ Settling(r, b, "size")
    /\ UNCHANGED build

\* generateArchiveDefault, whose tree may hold no metadata, up to the read of
\* updateUploadFromArchiveMetadata.
Generate(r) ==
    /\ request[r].pc = "generate"
    /\ \/ Goto(r, "record") /\ UNCHANGED disturbed
       \/ /\ request' = [request EXCEPT ![r].pc = "write_metadata", ![r].copy = Current(r)]
          /\ Enter(request[r].upload)
    /\ UNCHANGED <<accountVars, game, upload, build, pushes, faults, crowded>>

\* The original archive's name may tell the platforms.
WriteMetadata(r) ==
    /\ request[r].pc = "write_metadata"
    /\ \E p \in {request[r].copy.platforms, "archive"} :
          UpdateUpload(request[r].upload, [size |-> request[r].build, platforms |-> p])
    /\ Forget(r, "record")
    /\ UNCHANGED <<accountVars, game, build, pushes, faults, crowded, disturbed>>

\* MUTANT: the build is given the state of its file.
RecordAsUploaded(r) ==
    /\ request[r].pc = "record"
    /\ SetState(request[r].build, "uploaded")
    /\ Goto(r, "size")
    /\ UNCHANGED <<accountVars, game, upload, pushes, faults, crowded, disturbed>>

\* The archive's row is inserted and the check starts over.
RecordArchive(r) ==
    /\ request[r].pc = "record"
    /\ SetState(request[r].build, "archived")
    /\ Goto(r, "size")
    /\ UNCHANGED <<accountVars, game, upload, pushes, faults, crowded, disturbed>>

\* MUTANT: a size that is set is taken to be right.
ReadSizeOnce(r) ==
    /\ request[r].pc = "size"
    /\ IF Current(r).size # None
       THEN Goto(r, "complete")
       ELSE request' = [request EXCEPT ![r].pc = "write_size", ![r].copy = Current(r)]
    /\ Enter(request[r].upload)
    /\ UNCHANGED <<accountVars, game, upload, build, pushes, faults, crowded>>

\* updateUploadSizeFromArchive: nothing to write when the size is right.
ReadSize(r) ==
    /\ request[r].pc = "size"
    /\ IF Current(r).size = request[r].build
       THEN Goto(r, "complete")
       ELSE request' = [request EXCEPT ![r].pc = "write_size", ![r].copy = Current(r)]
    /\ Enter(request[r].upload)
    /\ UNCHANGED <<accountVars, game, upload, build, pushes, faults, crowded>>

WriteSize(r) ==
    /\ request[r].pc = "write_size"
    /\ UpdateUpload(request[r].upload, [request[r].copy EXCEPT !.size = request[r].build])
    /\ Forget(r, "complete")
    /\ UNCHANGED <<accountVars, game, build, pushes, faults, crowded, disturbed>>

Complete(r) ==
    /\ request[r].pc = "complete"
    /\ SetState(request[r].build, "completed")
    /\ Goto(r, "advance")
    /\ UNCHANGED <<accountVars, game, upload, pushes, faults, crowded, disturbed>>

\* MUTANT: the head becomes the upload's newest build.
AdvanceToNewest(r) ==
    /\ request[r].pc = "advance"
    /\ LET u == request[r].upload IN
       IF upload[u].channel = build[request[r].build].channel
       THEN /\ \E b \in Builds :
                 /\ build[b].upload = u /\ \A a \in Builds : build[a].upload = u => a <= b
                 /\ upload' = [upload EXCEPT ![u].head = b]
            /\ UNCHANGED disturbed
       ELSE UNCHANGED upload /\ disturbed' = disturbed \cup {u}
    /\ Return(r)
    /\ UNCHANGED <<accountVars, game, build, pushes, faults, crowded>>

\* advanceCompletedChannelHead: an error when there is no channel row (yet).
AdvanceHead(r) ==
    /\ request[r].pc = "advance"
    /\ LET u == request[r].upload IN
       IF upload[u].channel = build[request[r].build].channel
       THEN upload' = [upload EXCEPT ![u].head = request[r].build] /\ UNCHANGED disturbed
       ELSE UNCHANGED upload /\ disturbed' = disturbed \cup {u}
    /\ Return(r)
    /\ UNCHANGED <<accountVars, game, build, pushes, faults, crowded>>

\* A call fails and the handler gives up, or the process dies.  Marked failed
\* or not, nobody settles a build after that whose archive is not recorded.
Abandon(r) ==
    /\ request[r].pc # "idle"
    /\ Fault
    /\ disturbed' = IF request[r].pc \in UnfinishedPcs
                    THEN disturbed \cup {request[r].upload} ELSE disturbed
    /\ Return(r)
    /\ UNCHANGED <<accountVars, game, upload, build, pushes, crowded>>

-----------------------------------------------------------------------------
(* Lookups *)

\* ListChannels and GetChannel: the uploads a channel's answer is taken from.
Listed(target, channel) == UNION {UploadsOf(g, channel) : g \in GamesOf(target)}

\* ListBuilds.
BuildsListed(g, channel) ==
    {b \in Builds : upload[build[b].upload].game = g /\ build[b].channel = channel}

-----------------------------------------------------------------------------
\* What a handler does by itself.
Handle(r) ==
    \/ CreateBuildGames(r) \/ CreateGame(r) \/ CreateBuildUploads(r) \/ CreateBuildPlatforms(r)
    \/ CreateUpload(r) \/ CreateBuildInsert(r)
    \/ CreateBuildChannel(r) \/ Generate(r) \/ WriteMetadata(r) \/ RecordArchive(r)
    \/ ReadSize(r) \/ WriteSize(r) \/ Complete(r) \/ AdvanceHead(r)

Init == AccountsInit /\ CatalogueInit

CommandNext ==
    \/ \E c \in Commands, o \in Orders :
          Start(c, o) /\ Within(commands + 1, pushes, faults) /\ UNCHANGED catalogueVars
    \/ \E c \in Commands : LookupAnswers(c) /\ UNCHANGED catalogueVars
    \/ \E c \in Commands : Lookup(c) /\ UNCHANGED catalogueVars
    \/ \E c \in Commands : Write(c) /\ UNCHANGED catalogueVars
    \/ \E c \in Commands : Exit(c) /\ UNCHANGED catalogueVars

RequestNext ==
    \/ \E r \in Requests, k \in Keys, target \in Targets, channel \in Channels :
          CreateBuild(r, k, target, channel)
    \/ \E r \in Requests, b \in Builds : Claim(r, b) \/ Check(r, b)
    \/ \E r \in Requests : Handle(r)
    \/ \E r \in Requests : Abandon(r)

Next == CommandNext \/ RequestNext

Spec == Init /\ [][Next]_vars

-----------------------------------------------------------------------------
(* Properties *)

TypeOK ==
    /\ AccountsTypeOK
    /\ game \in Seq(Targets) /\ upload \in Seq(UploadRow) /\ build \in Seq(BuildRow)
    /\ request \in [Requests -> Frame]
    /\ pushes \in 0 .. MaxPushes /\ faults \in 0 .. MaxFaults
    /\ crowded \subseteq Targets /\ disturbed \subseteq Uploads

\* A developer's push finds and writes rows of the developer's own namespace
\* only, and of the channel it names, whatever administrators push there and
\* whatever becomes of the user meanwhile.
KeepsToNamespace ==
    \A r \in Requests : request[r].pc \in CreatePcs /\ request[r].role = "user" =>
        /\ request[r].game # None => game[request[r].game][1] = request[r].as
        /\ request[r].upload # None =>
              LET row == upload[request[r].upload] IN
              /\ game[row.game][1] = request[r].as
              /\ row.channel \in {request[r].channel, NoChannel}

\* Get-or-create: pushes to one target that do not overlap share its game, and
\* those to one channel of it the upload, so that there is one answer to what
\* the channel's head is, whoever pushes and whatever dies half-way.
PushesShareRows ==
    \A target \in Targets \ crowded :
        /\ \A g, h \in GamesOf(target) : g = h
        /\ \A channel \in Channels : \A u, v \in Listed(target, channel) : u = v

\* What the channel reports as its head, and offers for download, is a build
\* of that channel, completed and in the list of the channel's builds, in
\* whatever order claims, channel rows and completions come.
HeadIsListed ==
    \A target \in Targets, channel \in Channels : \A u \in Listed(target, channel) :
        upload[u].head # None =>
            /\ build[upload[u].head].state = "completed"
            /\ upload[u].head \in BuildsListed(upload[u].game, channel)

\* "An upload row tracks the channel head": its size is the head's archive's
\* unless a build of it is being completed, two handlers had the row in hand
\* at once, or one of them gave up between its write and the new head.
UploadTracksHead ==
    \A u \in Uploads \ disturbed :
        (\A r \in Requests : request[r].upload = u => request[r].pc \notin UnfinishedPcs)
            => upload[u].row.size = upload[u].head
=============================================================================
