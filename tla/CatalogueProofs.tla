--------------------------- MODULE CatalogueProofs ---------------------------
(***************************************************************************)
(* Proofs about Catalogue, for any number of requests, commands, users,    *)
(* games and channels and any tables to start from.                        *)
(***************************************************************************)
EXTENDS Catalogue, AccountsProofs

-----------------------------------------------------------------------------
(* Requests leave the users alone *)

LEMMA StepOfAccounts ==
    ASSUME [Next]_vars
    PROVE  (\E c \in Commands : Command(c)) \/ UNCHANGED accountVars
<1>1. CASE CommandNext
  BY <1>1 DEF CommandNext, Command
<1>2. ASSUME NEW r \in Requests, Handle(r) PROVE UNCHANGED accountVars
  BY <1>2 DEF Handle, CreateBuildGames, CreateGame, CreateBuildUploads, CreateBuildPlatforms,
              CreateUpload, CreateBuildInsert, CreateBuildChannel, Generate, WriteMetadata,
              RecordArchive, ReadSize, WriteSize, Complete, AdvanceHead
<1>3. CASE RequestNext
  BY <1>2, <1>3 DEF RequestNext, CreateBuild, Claim, Check, Settling, Abandon
<1>4. CASE UNCHANGED vars
  BY <1>4 DEF vars
<1> QED BY <1>1, <1>3, <1>4 DEF Next

LEMMA BookInvStutters == ASSUME BookInv, UNCHANGED accountVars PROVE BookInv'
BY DEF accountVars, BookInv, AccountInv, BookTypes, KeptApart, HoldsSwitch, Running, SwitchIsCurrent, IsSwitch

LEMMA BookInvHolds == ASSUME ~Overlap PROVE Spec => []BookInv
<1>1. Init => BookInv
  BY BookInit DEF Init
<1>2. BookInv /\ [Next]_vars => BookInv'
  BY StepOfAccounts, BookInvStep, BookInvStutters
<1> QED BY <1>1, <1>2, PTL DEF Spec

\* As long as no user is ensured and switched at the same time, every command
\* takes effect at one moment and as a whole, or is refused: reading a user and
\* writing the row back later loses nothing.
THEOREM AccountCommandsAreAtomic == ASSUME ~Overlap PROVE Spec => CommandsAreAtomic
<1>1. Init => Book!Init
  BY BookStarts DEF Init
<1>2. BookInv /\ [Next]_vars => [Book!Next]_(Book!bookVars)
  <2>1. UNCHANGED accountVars => UNCHANGED Book!bookVars
    BY DEF accountVars, Book!bookVars
  <2> QED BY <2>1, StepOfAccounts, BookStep
<1> QED BY <1>1, <1>2, BookInvHolds, PTL DEF Spec, CommandsAreAtomic, Book!Spec

-----------------------------------------------------------------------------
(* Types: as TypeOK, with any number for an id *)

Pcs == {"idle"} \cup CreatePcs \cup SettlePcs

WideColumns == [size : Nat, platforms : {"channel", "archive"}]
WideFrame == [pc : Pcs, as : Names \cup {None}, key : Keys \cup {NoKey}, role : Book!Roles,
              target : Targets \cup {NoTarget}, channel : Channels \cup {NoChannel},
              game : Nat, upload : Nat, copy : WideColumns, build : Nat]
WideUploadRow == [game : Nat, channel : Channels \cup {NoChannel}, head : Nat, row : WideColumns]
WideBuildRow == [upload : Nat, channel : Channels,
                 state : {"started", "processing", "archived", "completed"}]

Types ==
    /\ user \in [Names -> Rows]
    /\ game \in Seq(Targets)
    /\ upload \in Seq(WideUploadRow)
    /\ build \in Seq(WideBuildRow)
    /\ request \in [Requests -> WideFrame]

LEMMA PcsAre == /\ CreatePcs \subseteq Pcs /\ SettlePcs \subseteq Pcs /\ "idle" \in Pcs
                /\ CreatePcs \cap SettlePcs = {} /\ "idle" \notin CreatePcs \cup SettlePcs
BY DEF Pcs, CreatePcs, SettlePcs

-----------------------------------------------------------------------------
(* What an action does to the frames *)

Others(r) == \A s \in Requests \ {r} : request'[s] = request[s]

\* The frame moves to pc and has the game g and the upload u.
Moves(r, pc, g, u) ==
    LET e == request[r] f == request'[r] IN
    /\ request' \in [Requests -> WideFrame] /\ Others(r)
    /\ f.pc = pc /\ f.game = g /\ f.upload = u /\ f.build = e.build
    /\ f.as = e.as /\ f.role = e.role /\ f.target = e.target /\ f.channel = e.channel

Leaves(r) == request' \in [Requests -> WideFrame] /\ Others(r) /\ request'[r].pc = "idle"

LEMMA UpdateIs ==
    ASSUME Types, NEW r \in Requests, NEW f \in WideFrame, request' = [request EXCEPT ![r] = f]
    PROVE  request' \in [Requests -> WideFrame] /\ request'[r] = f /\ Others(r)
BY DEF Types, Others

LEMMA GotoMoves ==
    ASSUME Types, NEW r \in Requests, NEW pc \in Pcs, Goto(r, pc)
    PROVE  Moves(r, pc, request[r].game, request[r].upload)
<1> DEFINE f == [request[r] EXCEPT !.pc = pc]
<1>1. request' = [request EXCEPT ![r] = f]
  BY DEF Goto
<1>2. f \in WideFrame
  BY DEF WideFrame, Types
<1>3. /\ f.pc = pc /\ f.game = request[r].game /\ f.upload = request[r].upload
      /\ f.build = request[r].build /\ f.as = request[r].as /\ f.role = request[r].role
      /\ f.target = request[r].target /\ f.channel = request[r].channel
  BY DEF WideFrame, Types
<1> HIDE DEF f
<1> QED BY <1>1, <1>2, <1>3, UpdateIs DEF Moves

LEMMA GameMoves ==
    ASSUME Types, NEW r \in Requests, NEW pc \in Pcs, NEW g \in Nat,
           request' = [request EXCEPT ![r].pc = pc, ![r].game = g]
    PROVE  Moves(r, pc, g, request[r].upload)
<1> DEFINE f == [request[r] EXCEPT !.pc = pc, !.game = g]
<1>1. request' = [request EXCEPT ![r] = f]
  BY DEF Types, WideFrame
<1>2. f \in WideFrame
  BY DEF WideFrame, Types
<1>3. /\ f.pc = pc /\ f.game = g /\ f.upload = request[r].upload
      /\ f.build = request[r].build /\ f.as = request[r].as /\ f.role = request[r].role
      /\ f.target = request[r].target /\ f.channel = request[r].channel
  BY DEF WideFrame, Types
<1> HIDE DEF f
<1> QED BY <1>1, <1>2, <1>3, UpdateIs DEF Moves

LEMMA UploadMoves ==
    ASSUME Types, NEW r \in Requests, NEW pc \in Pcs, NEW u \in Nat,
           request' = [request EXCEPT ![r].pc = pc, ![r].upload = u]
    PROVE  Moves(r, pc, request[r].game, u)
<1> DEFINE f == [request[r] EXCEPT !.pc = pc, !.upload = u]
<1>1. request' = [request EXCEPT ![r] = f]
  BY DEF Types, WideFrame
<1>2. f \in WideFrame
  BY DEF WideFrame, Types
<1>3. /\ f.pc = pc /\ f.game = request[r].game /\ f.upload = u
      /\ f.build = request[r].build /\ f.as = request[r].as /\ f.role = request[r].role
      /\ f.target = request[r].target /\ f.channel = request[r].channel
  BY DEF WideFrame, Types
<1> HIDE DEF f
<1> QED BY <1>1, <1>2, <1>3, UpdateIs DEF Moves

LEMMA CopyMoves ==
    ASSUME Types, NEW r \in Requests, NEW pc \in Pcs, NEW u \in Nat, NEW c \in WideColumns,
           request' = [request EXCEPT ![r].pc = pc, ![r].upload = u, ![r].copy = c]
    PROVE  Moves(r, pc, request[r].game, u)
<1> DEFINE f == [request[r] EXCEPT !.pc = pc, !.upload = u, !.copy = c]
<1>1. request' = [request EXCEPT ![r] = f]
  BY DEF Types, WideFrame
<1>2. f \in WideFrame
  BY DEF WideFrame, Types
<1>3. /\ f.pc = pc /\ f.game = request[r].game /\ f.upload = u
      /\ f.build = request[r].build /\ f.as = request[r].as /\ f.role = request[r].role
      /\ f.target = request[r].target /\ f.channel = request[r].channel
  BY DEF WideFrame, Types
<1> HIDE DEF f
<1> QED BY <1>1, <1>2, <1>3, UpdateIs DEF Moves

LEMMA ReadMoves ==
    ASSUME Types, NEW r \in Requests, NEW pc \in Pcs, NEW c \in WideColumns,
           request' = [request EXCEPT ![r].pc = pc, ![r].copy = c]
    PROVE  Moves(r, pc, request[r].game, request[r].upload)
<1> DEFINE f == [request[r] EXCEPT !.pc = pc, !.copy = c]
<1>1. request' = [request EXCEPT ![r] = f]
  BY DEF Types, WideFrame
<1>2. f \in WideFrame
  BY DEF WideFrame, Types
<1>3. /\ f.pc = pc /\ f.game = request[r].game /\ f.upload = request[r].upload
      /\ f.build = request[r].build /\ f.as = request[r].as /\ f.role = request[r].role
      /\ f.target = request[r].target /\ f.channel = request[r].channel
  BY DEF WideFrame, Types
<1> HIDE DEF f
<1> QED BY <1>1, <1>2, <1>3, UpdateIs DEF Moves

LEMMA IdleIs ==
    /\ Idle \in WideFrame /\ Idle.pc = "idle"
    /\ Idle.game = None /\ Idle.upload = None
BY PcsAre DEF Idle, WideFrame, New, WideColumns, None, NoTarget, Book!Roles

LEMMA ReturnLeaves == ASSUME Types, NEW r \in Requests, Return(r) PROVE Leaves(r)
BY IdleIs, UpdateIs DEF Return, Leaves

LEMMA ForgetMoves ==
    ASSUME Types, NEW r \in Requests, NEW pc \in Pcs, Forget(r, pc)
    PROVE  Moves(r, pc, request[r].game, request[r].upload)
<1>1. New \in WideColumns
  BY DEF New, WideColumns, None
<1> QED BY <1>1, ReadMoves DEF Forget

-----------------------------------------------------------------------------
(* What each action does to the tables and to its frame *)

RowTables == <<game, upload, build>>

LEMMA AppendIs ==
    ASSUME NEW S, NEW q \in Seq(S), NEW x \in S
    PROVE  /\ Append(q, x) \in Seq(S)
           /\ \A i \in DOMAIN q : i \in DOMAIN Append(q, x) /\ Append(q, x)[i] = q[i]
           /\ Len(q) + 1 \in Nat \ {0}
           /\ Len(q) + 1 \in DOMAIN Append(q, x) /\ Append(q, x)[Len(q) + 1] = x
           /\ Len(q) + 1 \notin DOMAIN q
           /\ \A i \in DOMAIN Append(q, x) : i \in DOMAIN q \/ i = Len(q) + 1
OBVIOUS

LEMMA ReplaceIs ==
    ASSUME NEW S, NEW q \in Seq(S), NEW i \in DOMAIN q, NEW x \in S
    PROVE  /\ [q EXCEPT ![i] = x] \in Seq(S) /\ DOMAIN [q EXCEPT ![i] = x] = DOMAIN q
           /\ [q EXCEPT ![i] = x][i] = x
           /\ \A j \in DOMAIN q \ {i} : [q EXCEPT ![i] = x][j] = q[j]
OBVIOUS

LEMMA IdsAre ==
    ASSUME Types
    PROVE  /\ \A g \in Games : g \in Nat \ {0} /\ game[g] \in Targets
           /\ \A u \in Uploads : u \in Nat \ {0} /\ upload[u] \in WideUploadRow
           /\ \A b \in Builds : b \in Nat \ {0} /\ build[b] \in WideBuildRow
BY DEF Types, Games, Uploads, Builds

LEMMA CreateBuildDoes ==
    ASSUME Types, NEW r \in Requests, NEW k \in Keys, NEW target \in Targets,
           NEW channel \in Channels, CreateBuild(r, k, target, channel)
    PROVE  LET f == request'[r] IN
           /\ request[r].pc = "idle" /\ UNCHANGED RowTables
           /\ request' \in [Requests -> WideFrame] /\ Others(r)
           /\ f.pc = "games" /\ f.game = None /\ f.upload = None
           /\ f.target = target /\ f.channel = channel /\ CanAccess(f.as, f.role, target[1])
<1>1. PICK n \in Authenticated(k) :
          /\ CanAccess(n, user[n].role, target[1])
          /\ request' = [request EXCEPT ![r] =
                [Idle EXCEPT !.pc = "games", !.as = n, !.key = k, !.role = user[n].role,
                             !.target = target, !.channel = channel]]
  BY DEF CreateBuild
<1> DEFINE f == [Idle EXCEPT !.pc = "games", !.as = n, !.key = k, !.role = user[n].role,
                             !.target = target, !.channel = channel]
<1>2. n \in Names /\ user[n].role \in Book!Roles
  BY <1>1, RowIs DEF Authenticated, Types, RowType
<1>3. f \in WideFrame
  BY <1>2, IdleIs DEF WideFrame, Pcs, CreatePcs
<1>4. /\ f.pc = "games" /\ f.game = None /\ f.upload = None /\ f.target = target
      /\ f.channel = channel /\ f.as = n /\ f.role = user[n].role
  BY <1>2, IdleIs DEF WideFrame
<1> HIDE DEF f
<1>5. request' \in [Requests -> WideFrame] /\ Others(r) /\ request'[r] = f
  BY <1>1, <1>3, UpdateIs DEF f
<1> QED BY <1>1, <1>4, <1>5 DEF CreateBuild, RowTables

LEMMA CreateBuildGamesDoes ==
    ASSUME Types, NEW r \in Requests, CreateBuildGames(r)
    PROVE  /\ request[r].pc = "games" /\ UNCHANGED RowTables
           /\ \/ /\ GamesOf(request[r].target) = {}
                 /\ Moves(r, "create_game", request[r].game, request[r].upload)
              \/ \E g \in GamesOf(request[r].target) : Moves(r, "uploads", g, request[r].upload)
<1>1. "create_game" \in Pcs /\ "uploads" \in Pcs
  BY DEF Pcs, CreatePcs
<1>2. \A g \in GamesOf(request[r].target) : g \in Nat
  BY IdsAre DEF GamesOf
<1> QED BY <1>1, <1>2, GotoMoves, GameMoves DEF CreateBuildGames, RowTables

LEMMA CreateGameDoes ==
    ASSUME Types, NEW r \in Requests, CreateGame(r), request[r].target \in Targets
    PROVE  /\ request[r].pc = "create_game" /\ UNCHANGED <<upload, build>>
           /\ game' = Append(game, request[r].target) /\ game' \in Seq(Targets)
           /\ Moves(r, "uploads", Len(game) + 1, request[r].upload)
<1>1. "uploads" \in Pcs
  BY DEF Pcs, CreatePcs
<1>2. Len(game) + 1 \in Nat /\ Append(game, request[r].target) \in Seq(Targets)
  BY DEF Types
<1> QED BY <1>1, <1>2, GameMoves DEF CreateGame

LEMMA CreateBuildUploadsDoes ==
    ASSUME Types, NEW r \in Requests, CreateBuildUploads(r)
    PROVE  /\ request[r].pc = "uploads" /\ UNCHANGED RowTables
           /\ \/ \E u \in UploadsOf(request[r].game, request[r].channel) :
                    \/ Moves(r, "build", request[r].game, u)
                    \/ Moves(r, "platforms", request[r].game, u)
              \/ /\ \/ UploadsOf(request[r].game, request[r].channel) = {}
                    \/ request[r].target \in crowded'
                 /\ Moves(r, "create_upload", request[r].game, request[r].upload)
<1>1. "build" \in Pcs /\ "platforms" \in Pcs /\ "create_upload" \in Pcs
  BY DEF Pcs, CreatePcs
<1>2. \A u \in UploadsOf(request[r].game, request[r].channel) : u \in Nat /\ upload[u].row \in WideColumns
  BY IdsAre DEF UploadsOf, WideUploadRow
<1> QED BY <1>1, <1>2, GotoMoves, UploadMoves, CopyMoves DEF CreateBuildUploads, RowTables

\* The columns of an upload are written, which leaves its keys alone.
RowsRewritten ==
    /\ upload' \in Seq(WideUploadRow) /\ Uploads' = Uploads
    /\ \A v \in Uploads : /\ upload'[v].game = upload[v].game
                          /\ upload'[v].channel = upload[v].channel
                          /\ upload'[v].head = upload[v].head

\* The upload u gets its channel row, or the channel's head.
ChannelInserted(u, channel) ==
    /\ upload' \in Seq(WideUploadRow) /\ Uploads' = Uploads
    /\ \A v \in Uploads : upload'[v].game = upload[v].game /\ upload'[v].head = upload[v].head
    /\ \A v \in Uploads \ {u} : upload'[v].channel = upload[v].channel
    /\ u \in Uploads => upload'[u].channel = channel

HeadSet(u, b) ==
    /\ upload' \in Seq(WideUploadRow) /\ Uploads' = Uploads
    /\ \A v \in Uploads : upload'[v].game = upload[v].game /\ upload'[v].channel = upload[v].channel
    /\ \A v \in Uploads \ {u} : upload'[v].head = upload[v].head
    /\ u \in Uploads => upload'[u].head = b

StateSet(b, state) ==
    /\ build' \in Seq(WideBuildRow) /\ Builds' = Builds
    /\ \A a \in Builds : build'[a].upload = build[a].upload /\ build'[a].channel = build[a].channel
    /\ \A a \in Builds \ {b} : build'[a].state = build[a].state
    /\ b \in Builds => build'[b].state = state

LEMMA UpdateUploadRewrites ==
    ASSUME Types, NEW i, NEW columns \in WideColumns, UpdateUpload(i, columns)
    PROVE  RowsRewritten
<1>1. CASE i \in Uploads
  <2> DEFINE row == [upload[i] EXCEPT !.row = columns]
  <2>1. upload[i] \in WideUploadRow /\ upload \in Seq(WideUploadRow)
    BY <1>1, IdsAre DEF Types
  <2>2. row \in WideUploadRow
    BY <2>1 DEF WideUploadRow
  <2>3. /\ row.game = upload[i].game
        /\ row.channel = upload[i].channel
        /\ row.head = upload[i].head
    BY <2>1 DEF WideUploadRow
  <2>4. upload' = [upload EXCEPT ![i] = row]
    BY DEF UpdateUpload
  <2> HIDE DEF row
  <2> DEFINE q == [upload EXCEPT ![i] = row]
  <2>5. /\ q \in Seq(WideUploadRow) /\ DOMAIN q = DOMAIN upload /\ q[i] = row
        /\ \A j \in DOMAIN upload \ {i} : q[j] = upload[j]
    BY <1>1, <2>1, <2>2, ReplaceIs DEF Uploads
  <2>6. upload' = q
    BY <2>4
  <2> HIDE DEF q
  <2> QED BY <1>1, <2>3, <2>5, <2>6 DEF RowsRewritten, Uploads
<1>2. CASE i \notin Uploads
  <2>1. upload' = upload /\ upload \in Seq(WideUploadRow)
    BY <1>2 DEF UpdateUpload, Types, Uploads
  <2> QED BY <1>2, <2>1 DEF RowsRewritten, Uploads
<1> QED BY <1>1, <1>2

LEMMA ChannelIsInserted ==
    ASSUME Types, NEW i, NEW channel \in Channels, upload' = [upload EXCEPT ![i].channel = channel]
    PROVE  ChannelInserted(i, channel)
<1>1. CASE i \in Uploads
  <2> DEFINE row == [upload[i] EXCEPT !.channel = channel]
  <2>1. upload[i] \in WideUploadRow /\ upload \in Seq(WideUploadRow)
    BY <1>1, IdsAre DEF Types
  <2>2. row \in WideUploadRow
    BY <2>1 DEF WideUploadRow
  <2>3. /\ row.game = upload[i].game
        /\ row.channel = channel
        /\ row.head = upload[i].head
    BY <2>1 DEF WideUploadRow
  <2>4. upload' = [upload EXCEPT ![i] = row]
    OBVIOUS
  <2> HIDE DEF row
  <2> DEFINE q == [upload EXCEPT ![i] = row]
  <2>5. /\ q \in Seq(WideUploadRow) /\ DOMAIN q = DOMAIN upload /\ q[i] = row
        /\ \A j \in DOMAIN upload \ {i} : q[j] = upload[j]
    BY <1>1, <2>1, <2>2, ReplaceIs DEF Uploads
  <2>6. upload' = q
    BY <2>4
  <2> HIDE DEF q
  <2> QED BY <1>1, <2>3, <2>5, <2>6 DEF ChannelInserted, Uploads
<1>2. CASE i \notin Uploads
  <2>1. upload' = upload /\ upload \in Seq(WideUploadRow)
    BY <1>2 DEF Types, Uploads
  <2> QED BY <1>2, <2>1 DEF ChannelInserted, Uploads
<1> QED BY <1>1, <1>2

LEMMA HeadIsSet ==
    ASSUME Types, NEW i, NEW b \in Nat, upload' = [upload EXCEPT ![i].head = b]
    PROVE  HeadSet(i, b)
<1>1. CASE i \in Uploads
  <2> DEFINE row == [upload[i] EXCEPT !.head = b]
  <2>1. upload[i] \in WideUploadRow /\ upload \in Seq(WideUploadRow)
    BY <1>1, IdsAre DEF Types
  <2>2. row \in WideUploadRow
    BY <2>1 DEF WideUploadRow
  <2>3. /\ row.game = upload[i].game
        /\ row.channel = upload[i].channel
        /\ row.head = b
    BY <2>1 DEF WideUploadRow
  <2>4. upload' = [upload EXCEPT ![i] = row]
    OBVIOUS
  <2> HIDE DEF row
  <2> DEFINE q == [upload EXCEPT ![i] = row]
  <2>5. /\ q \in Seq(WideUploadRow) /\ DOMAIN q = DOMAIN upload /\ q[i] = row
        /\ \A j \in DOMAIN upload \ {i} : q[j] = upload[j]
    BY <1>1, <2>1, <2>2, ReplaceIs DEF Uploads
  <2>6. upload' = q
    BY <2>4
  <2> HIDE DEF q
  <2> QED BY <1>1, <2>3, <2>5, <2>6 DEF HeadSet, Uploads
<1>2. CASE i \notin Uploads
  <2>1. upload' = upload /\ upload \in Seq(WideUploadRow)
    BY <1>2 DEF Types, Uploads
  <2> QED BY <1>2, <2>1 DEF HeadSet, Uploads
<1> QED BY <1>1, <1>2

LEMMA StateIsSet ==
    ASSUME Types, NEW i, NEW state \in {"started", "processing", "archived", "completed"},
           SetState(i, state)
    PROVE  StateSet(i, state)
<1>1. CASE i \in Builds
  <2> DEFINE row == [build[i] EXCEPT !.state = state]
  <2>1. build[i] \in WideBuildRow /\ build \in Seq(WideBuildRow)
    BY <1>1, IdsAre DEF Types
  <2>2. row \in WideBuildRow
    BY <2>1 DEF WideBuildRow
  <2>3. /\ row.upload = build[i].upload
        /\ row.channel = build[i].channel
        /\ row.state = state
    BY <2>1 DEF WideBuildRow
  <2>4. build' = [build EXCEPT ![i] = row]
    BY DEF SetState
  <2> HIDE DEF row
  <2> DEFINE q == [build EXCEPT ![i] = row]
  <2>5. /\ q \in Seq(WideBuildRow) /\ DOMAIN q = DOMAIN build /\ q[i] = row
        /\ \A j \in DOMAIN build \ {i} : q[j] = build[j]
    BY <1>1, <2>1, <2>2, ReplaceIs DEF Builds
  <2>6. build' = q
    BY <2>4
  <2> HIDE DEF q
  <2> QED BY <1>1, <2>3, <2>5, <2>6 DEF StateSet, Builds
<1>2. CASE i \notin Builds
  <2>1. build' = build /\ build \in Seq(WideBuildRow)
    BY <1>2 DEF SetState, Types, Builds
  <2> QED BY <1>2, <2>1 DEF StateSet, Builds
<1> QED BY <1>1, <1>2

LEMMA CreateBuildPlatformsDoes ==
    ASSUME Types, NEW r \in Requests, CreateBuildPlatforms(r)
    PROVE  /\ request[r].pc = "platforms" /\ UNCHANGED <<game, build>> /\ RowsRewritten
           /\ Moves(r, "build", request[r].game, request[r].upload)
<1>1. "build" \in Pcs
  BY DEF Pcs, CreatePcs
<1>2. [request[r].copy EXCEPT !.platforms = "channel"] \in WideColumns
  BY DEF Types, WideFrame, WideColumns
<1> QED BY <1>1, <1>2, UpdateUploadRewrites, ForgetMoves DEF CreateBuildPlatforms

LEMMA CreateUploadDoes ==
    ASSUME Types, NEW r \in Requests, CreateUpload(r)
    PROVE  /\ request[r].pc = "create_upload" /\ UNCHANGED <<game, build>>
           /\ upload' = Append(upload,
                 [game |-> request[r].game, channel |-> NoChannel, head |-> None, row |-> New])
           /\ upload' \in Seq(WideUploadRow)
           /\ Moves(r, "build", request[r].game, Len(upload) + 1)
<1>1. "build" \in Pcs
  BY DEF Pcs, CreatePcs
<1>2. [game |-> request[r].game, channel |-> NoChannel, head |-> None, row |-> New] \in WideUploadRow
  BY DEF Types, WideFrame, WideUploadRow, WideColumns, New, None
<1>3. Len(upload) + 1 \in Nat /\ upload \in Seq(WideUploadRow)
  BY DEF Types
<1> DEFINE row == [game |-> request[r].game, channel |-> NoChannel, head |-> None, row |-> New]
<1>4. upload' = Append(upload, row)
  BY DEF CreateUpload
<1>5. request[r].pc = "create_upload" /\ UNCHANGED <<game, build>>
  BY DEF CreateUpload
<1>6. Moves(r, "build", request[r].game, Len(upload) + 1)
  BY <1>1, <1>3, UploadMoves DEF CreateUpload
<1> HIDE DEF row
<1>7. upload' \in Seq(WideUploadRow)
  BY <1>2, <1>3, <1>4, AppendIs DEF row
<1> QED BY <1>4, <1>5, <1>6, <1>7 DEF row

LEMMA CreateBuildInsertDoes ==
    ASSUME Types, NEW r \in Requests, CreateBuildInsert(r), request[r].channel \in Channels
    PROVE  /\ request[r].pc = "build" /\ UNCHANGED <<game, upload>>
           /\ build' = Append(build, [upload |-> request[r].upload,
                                      channel |-> request[r].channel, state |-> "started"])
           /\ build' \in Seq(WideBuildRow)
           /\ \/ /\ upload[request[r].upload].channel = NoChannel
                 /\ Moves(r, "channel", request[r].game, request[r].upload)
              \/ Leaves(r)
<1>1. "channel" \in Pcs
  BY DEF Pcs, CreatePcs
<1>2. [upload |-> request[r].upload, channel |-> request[r].channel, state |-> "started"]
        \in WideBuildRow
  BY DEF Types, WideFrame, WideBuildRow
<1>3. build \in Seq(WideBuildRow)
  BY DEF Types
<1> QED BY <1>1, <1>2, <1>3, GotoMoves, ReturnLeaves, AppendIs DEF CreateBuildInsert

LEMMA CreateBuildChannelDoes ==
    ASSUME Types, NEW r \in Requests, CreateBuildChannel(r), request[r].channel \in Channels
    PROVE  /\ request[r].pc = "channel" /\ UNCHANGED <<game, build>> /\ Leaves(r)
           /\ ChannelInserted(request[r].upload, request[r].channel)
BY ReturnLeaves, ChannelIsInserted DEF CreateBuildChannel

\* The handler settles the build b from pc on.
Takes(r, b, pc) ==
    LET f == request'[r] IN
    /\ request[r].pc = "idle" /\ UNCHANGED <<game, upload>>
    /\ request' \in [Requests -> WideFrame] /\ Others(r)
    /\ f.pc = pc /\ f.build = b /\ f.upload = build[b].upload

LEMMA SettlingTakes ==
    ASSUME Types, NEW r \in Requests, NEW b \in Builds, NEW pc \in SettlePcs, Settling(r, b, pc)
    PROVE  Takes(r, b, pc)
<1> DEFINE f == [Idle EXCEPT !.pc = pc, !.build = b, !.upload = build[b].upload]
<1>1. pc \in Pcs /\ b \in Nat /\ build[b].upload \in Nat
  BY IdsAre, PcsAre DEF WideBuildRow
<1>2. f \in WideFrame
  BY <1>1, IdleIs DEF WideFrame
<1>3. f.pc = pc /\ f.build = b /\ f.upload = build[b].upload
  BY IdleIs DEF WideFrame
<1>4. request' = [request EXCEPT ![r] = f]
  BY DEF Settling
<1> HIDE DEF f
<1> QED BY <1>2, <1>3, <1>4, UpdateIs DEF Settling, Takes

LEMMA ClaimDoes ==
    ASSUME Types, NEW r \in Requests, NEW b \in Builds, Claim(r, b)
    PROVE  build[b].state = "started" /\ Takes(r, b, "generate") /\ StateSet(b, "processing")
BY SettlingTakes, StateIsSet DEF Claim, SettlePcs

LEMMA CheckDoes ==
    ASSUME Types, NEW r \in Requests, NEW b \in Builds, Check(r, b)
    PROVE  build[b].state = "archived" /\ Takes(r, b, "size") /\ UNCHANGED build
BY SettlingTakes DEF Check, SettlePcs

LEMMA CurrentIs ==
    ASSUME Types, NEW r \in Requests, request[r].upload \in Uploads
    PROVE  Current(r) \in WideColumns
BY IdsAre DEF Current, WideUploadRow

LEMMA GenerateDoes ==
    ASSUME Types, NEW r \in Requests, Generate(r), request[r].upload \in Uploads
    PROVE  /\ request[r].pc = "generate" /\ UNCHANGED RowTables
           /\ \E pc \in {"record", "write_metadata"} :
                 Moves(r, pc, request[r].game, request[r].upload)
<1>1. "record" \in Pcs /\ "write_metadata" \in Pcs
  BY DEF Pcs, SettlePcs
<1> QED BY <1>1, CurrentIs, GotoMoves, ReadMoves DEF Generate, RowTables

LEMMA WriteMetadataDoes ==
    ASSUME Types, NEW r \in Requests, WriteMetadata(r)
    PROVE  /\ request[r].pc = "write_metadata" /\ UNCHANGED <<game, build>> /\ RowsRewritten
           /\ Moves(r, "record", request[r].game, request[r].upload)
<1>1. "record" \in Pcs
  BY DEF Pcs, SettlePcs
<1>2. PICK p \in {request[r].copy.platforms, "archive"} :
          UpdateUpload(request[r].upload, [size |-> request[r].build, platforms |-> p])
  BY DEF WriteMetadata
<1>3. [size |-> request[r].build, platforms |-> p] \in WideColumns
  BY DEF Types, WideFrame, WideColumns
<1> QED BY <1>1, <1>2, <1>3, UpdateUploadRewrites, ForgetMoves DEF WriteMetadata

LEMMA RecordArchiveDoes ==
    ASSUME Types, NEW r \in Requests, RecordArchive(r)
    PROVE  /\ request[r].pc = "record" /\ UNCHANGED <<game, upload>>
           /\ StateSet(request[r].build, "archived")
           /\ Moves(r, "size", request[r].game, request[r].upload)
<1>1. "size" \in Pcs
  BY DEF Pcs, SettlePcs
<1> QED BY <1>1, StateIsSet, GotoMoves DEF RecordArchive

LEMMA ReadSizeDoes ==
    ASSUME Types, NEW r \in Requests, ReadSize(r), request[r].upload \in Uploads
    PROVE  /\ request[r].pc = "size" /\ UNCHANGED RowTables
           /\ \E pc \in {"complete", "write_size"} :
                 Moves(r, pc, request[r].game, request[r].upload)
<1>1. "complete" \in Pcs /\ "write_size" \in Pcs
  BY DEF Pcs, SettlePcs
<1> QED BY <1>1, CurrentIs, GotoMoves, ReadMoves DEF ReadSize, RowTables

LEMMA WriteSizeDoes ==
    ASSUME Types, NEW r \in Requests, WriteSize(r)
    PROVE  /\ request[r].pc = "write_size" /\ UNCHANGED <<game, build>> /\ RowsRewritten
           /\ Moves(r, "complete", request[r].game, request[r].upload)
<1>1. "complete" \in Pcs
  BY DEF Pcs, SettlePcs
<1>2. [request[r].copy EXCEPT !.size = request[r].build] \in WideColumns
  BY DEF Types, WideFrame, WideColumns
<1> QED BY <1>1, <1>2, UpdateUploadRewrites, ForgetMoves DEF WriteSize

LEMMA CompleteDoes ==
    ASSUME Types, NEW r \in Requests, Complete(r)
    PROVE  /\ request[r].pc = "complete" /\ UNCHANGED <<game, upload>>
           /\ StateSet(request[r].build, "completed")
           /\ Moves(r, "advance", request[r].game, request[r].upload)
<1>1. "advance" \in Pcs
  BY DEF Pcs, SettlePcs
<1> QED BY <1>1, StateIsSet, GotoMoves DEF Complete

LEMMA AdvanceHeadDoes ==
    ASSUME Types, NEW r \in Requests, AdvanceHead(r)
    PROVE  /\ request[r].pc = "advance" /\ UNCHANGED <<game, build>> /\ Leaves(r)
           /\ \/ /\ upload[request[r].upload].channel = build[request[r].build].channel
                 /\ HeadSet(request[r].upload, request[r].build)
              \/ UNCHANGED upload
<1>1. request[r].build \in Nat
  BY DEF Types, WideFrame
<1> QED BY <1>1, HeadIsSet, ReturnLeaves DEF AdvanceHead

LEMMA AbandonDoes ==
    ASSUME Types, NEW r \in Requests, Abandon(r)
    PROVE  request[r].pc # "idle" /\ UNCHANGED RowTables /\ Leaves(r)
BY ReturnLeaves DEF Abandon, RowTables

-----------------------------------------------------------------------------
(* The invariant: what a handler holds fits the tables *)

HasGame   == {"uploads", "platforms", "create_upload", "build", "channel"}
HasUpload == {"platforms", "build", "channel"}
Generating == {"generate", "write_metadata", "record"}
Archived  == {"size", "write_size", "complete"}

\* A push has the rows of its target.
PushFits(r) ==
    LET f == request[r] IN
    f.pc \in CreatePcs =>
        /\ f.target \in Targets /\ f.channel \in Channels
        /\ CanAccess(f.as, f.role, f.target[1])
        /\ f.game # None => f.pc \in HasGame
        /\ f.upload # None => f.pc \in HasUpload
        /\ f.pc \in HasGame => f.game \in Games /\ game[f.game] = f.target
        /\ f.pc \in HasUpload =>
              /\ f.upload \in Uploads /\ upload[f.upload].game = f.game
              /\ upload[f.upload].channel \in {f.channel, NoChannel}
        /\ f.pc = "channel" => upload[f.upload].channel = NoChannel

\* Only the push that inserted an upload has it while there is no channel row.
SoleHolder ==
    \A r, s \in Requests :
        /\ r # s /\ request[r].pc \in HasUpload /\ request[s].pc \in HasUpload
        /\ request[r].upload = request[s].upload
        => upload[request[r].upload].channel # NoChannel

\* A handler that settles a build found it in the state that its pc implies.
SettleFits(r) ==
    LET f == request[r] IN
    f.pc \in SettlePcs =>
        /\ f.build \in Builds /\ f.upload = build[f.build].upload
        /\ f.pc \in Generating => build[f.build].state = "processing"
        /\ f.pc \in Archived => build[f.build].state \in {"archived", "completed"}
        /\ f.pc = "advance" => build[f.build].state = "completed"

\* The claim has one winner.
SoleGenerator ==
    \A r, s \in Requests :
        request[r].pc \in Generating /\ request[s].pc \in Generating
            /\ request[r].build = request[s].build => r = s

BuildFits(b) == build[b].upload \in Uploads

HeadFits(u) ==
    LET b == upload[u].head IN
    b # None =>
        /\ b \in Builds /\ build[b].upload = u /\ build[b].state = "completed"
        /\ build[b].channel = upload[u].channel

Inv ==
    /\ AccountInv
    /\ Types
    /\ \A r \in Requests : PushFits(r) /\ SettleFits(r)
    /\ SoleHolder
    /\ SoleGenerator
    /\ \A b \in Builds : BuildFits(b)
    /\ \A u \in Uploads : HeadFits(u)

LEMMA InvInit == Init => Inv
<1> SUFFICES ASSUME Init PROVE Inv
  OBVIOUS
<1>1. BookInv
  BY BookInit DEF Init
<1>2. AccountInv /\ user \in [Names -> Rows]
  BY <1>1 DEF BookInv, AccountInv, BookTypes
<1>3. \A r \in Requests : request[r].pc = "idle"
  BY IdleIs DEF Init, CatalogueInit
<1>4. Types
  BY <1>2, IdleIs DEF Init, CatalogueInit, Types
<1>5. Uploads = {} /\ Builds = {}
  BY DEF Init, CatalogueInit, Uploads, Builds
<1>6. \A r \in Requests : request[r].pc \notin CreatePcs \cup SettlePcs \cup HasUpload \cup Generating
  BY <1>3, PcsAre DEF HasUpload, Generating
<1> QED BY <1>2, <1>4, <1>5, <1>6 DEF Inv, PushFits, SettleFits, SoleHolder, SoleGenerator

LEMMA SettleHasUpload ==
    ASSUME Inv, NEW r \in Requests, request[r].pc \in SettlePcs
    PROVE  request[r].build \in Builds /\ request[r].upload \in Uploads
BY DEF Inv, SettleFits, BuildFits

-----------------------------------------------------------------------------
(* Rows stay *)

RowsStay ==
    /\ \A g \in Games : g \in Games' /\ game'[g] = game[g]
    /\ \A u \in Uploads : u \in Uploads' /\ upload'[u].game = upload[u].game
    /\ \A b \in Builds : /\ b \in Builds' /\ build'[b].upload = build[b].upload
                         /\ build'[b].channel = build[b].channel

ChannelStays(u) == upload'[u].channel = upload[u].channel
HeadStays(u) == upload'[u].head = upload[u].head
StateStays(b) == build'[b].state = build[b].state

LEMMA PcSets ==
    /\ HasUpload \subseteq HasGame /\ HasGame \subseteq CreatePcs
    /\ Generating \subseteq SettlePcs /\ Archived \subseteq SettlePcs /\ "advance" \in SettlePcs
    /\ Generating \cap Archived = {}
BY DEF HasUpload, HasGame, CreatePcs, Generating, Archived, SettlePcs

Untouched ==
    /\ RowsStay
    /\ \A u \in Uploads : ChannelStays(u) /\ HeadStays(u)
    /\ \A b \in Builds : StateStays(b)

LEMMA TypesKept ==
    ASSUME Inv, UNCHANGED accountVars, game' \in Seq(Targets), upload' \in Seq(WideUploadRow),
           build' \in Seq(WideBuildRow), request' \in [Requests -> WideFrame]
    PROVE  Types' /\ AccountInv'
BY DEF accountVars, Inv, Types, AccountInv, BookTypes, HoldsSwitch, Running, IsSwitch

LEMMA TablesAre ==
    ASSUME Inv
    PROVE  game \in Seq(Targets) /\ upload \in Seq(WideUploadRow) /\ build \in Seq(WideBuildRow)
BY DEF Inv, Types

LEMMA UnchangedTables ==
    ASSUME UNCHANGED RowTables
    PROVE  Untouched /\ Games' = Games /\ Uploads' = Uploads /\ Builds' = Builds
BY DEF RowTables, Untouched, RowsStay, ChannelStays, HeadStays, StateStays, Games, Uploads, Builds

LEMMA RewrittenTables ==
    ASSUME RowsRewritten, UNCHANGED <<game, build>>
    PROVE  Untouched /\ Games' = Games /\ Uploads' = Uploads /\ Builds' = Builds
BY DEF RowsRewritten, Untouched, RowsStay, ChannelStays, HeadStays, StateStays, Games, Builds

LEMMA NewGame ==
    ASSUME Inv, NEW target \in Targets, game' = Append(game, target), UNCHANGED <<upload, build>>
    PROVE  /\ Untouched /\ Uploads' = Uploads /\ Builds' = Builds
           /\ Len(game) + 1 \in Games' /\ game'[Len(game) + 1] = target
           /\ Len(game) + 1 \in Nat \ {0}
           /\ \A g \in Games' : g \in Games \/ game'[g] = target
<1>1. game \in Seq(Targets)
  BY TablesAre
<1> QED BY <1>1, AppendIs
        DEF Untouched, RowsStay, ChannelStays, HeadStays, StateStays, Games, Uploads, Builds

LEMMA NewUpload ==
    ASSUME Inv, NEW row \in WideUploadRow, upload' = Append(upload, row), UNCHANGED <<game, build>>
    PROVE  /\ Untouched /\ Games' = Games /\ Builds' = Builds
           /\ Len(upload) + 1 \in Uploads' \ Uploads /\ upload'[Len(upload) + 1] = row
           /\ Len(upload) + 1 \in Nat \ {0}
           /\ \A u \in Uploads' : u \in Uploads \/ u = Len(upload) + 1
<1>1. upload \in Seq(WideUploadRow)
  BY TablesAre
<1> QED BY <1>1, AppendIs
        DEF Untouched, RowsStay, ChannelStays, HeadStays, StateStays, Games, Uploads, Builds

LEMMA NewBuild ==
    ASSUME Inv, NEW row \in WideBuildRow, build' = Append(build, row), UNCHANGED <<game, upload>>
    PROVE  /\ Untouched /\ Games' = Games /\ Uploads' = Uploads
           /\ \A b \in Builds' : b \in Builds \/ build'[b] = row
<1>1. build \in Seq(WideBuildRow)
  BY TablesAre
<1> QED BY <1>1, AppendIs
        DEF Untouched, RowsStay, ChannelStays, HeadStays, StateStays, Games, Uploads, Builds

-----------------------------------------------------------------------------
(* What a step keeps of the invariant *)

LEMMA OtherPush ==
    ASSUME Inv, RowsStay, NEW s \in Requests, request'[s] = request[s],
           request[s].pc \in HasUpload => ChannelStays(request[s].upload)
    PROVE  PushFits(s)'
<1> SUFFICES ASSUME request[s].pc \in CreatePcs PROVE PushFits(s)'
  BY DEF PushFits
<1>1. PushFits(s)
  BY DEF Inv
<1>2. request[s].pc \in HasGame => request[s].game \in Games' /\ game'[request[s].game] = request[s].target
  BY <1>1 DEF PushFits, RowsStay
<1>3. request[s].pc \in HasUpload =>
        /\ request[s].upload \in Uploads'
        /\ upload'[request[s].upload].game = request[s].game
        /\ upload'[request[s].upload].channel = upload[request[s].upload].channel
  BY <1>1 DEF PushFits, RowsStay, ChannelStays
<1>4. request[s].pc = "channel" => request[s].pc \in HasUpload
  BY DEF HasUpload
<1> QED BY <1>1, <1>2, <1>3, <1>4 DEF PushFits

LEMMA NoPush == ASSUME NEW s \in Requests, request'[s].pc \notin CreatePcs PROVE PushFits(s)'
BY DEF PushFits

LEMMA OtherSettle ==
    ASSUME Inv, RowsStay, NEW s \in Requests, request'[s] = request[s],
           request[s].pc \in SettlePcs => StateStays(request[s].build)
    PROVE  SettleFits(s)'
BY PcSets DEF Inv, SettleFits, RowsStay, StateStays

LEMMA NoSettle == ASSUME NEW s \in Requests, request'[s].pc \notin SettlePcs PROVE SettleFits(s)'
BY DEF SettleFits

LEMMA HoldersKept ==
    ASSUME Inv, \A u \in Uploads : upload[u].channel # NoChannel => upload'[u].channel # NoChannel,
           \A s \in Requests : request'[s].pc \in HasUpload =>
               request[s].pc \in HasUpload /\ request'[s].upload = request[s].upload
    PROVE  SoleHolder'
<1> SUFFICES ASSUME NEW r \in Requests, NEW s \in Requests, r # s, request'[r].pc \in HasUpload,
                    request'[s].pc \in HasUpload, request'[r].upload = request'[s].upload
             PROVE  upload'[request'[r].upload].channel # NoChannel
  BY DEF SoleHolder
<1>1. upload[request[r].upload].channel # NoChannel
  BY DEF Inv, SoleHolder
<1>2. request[r].upload \in Uploads
  BY PcSets DEF Inv, PushFits
<1> QED BY <1>1, <1>2

LEMMA GeneratorsKept ==
    ASSUME Inv, \A s \in Requests : request'[s].pc \in Generating =>
                    request[s].pc \in Generating /\ request'[s].build = request[s].build
    PROVE  SoleGenerator'
BY DEF Inv, SoleGenerator

LEMMA BuildsKept ==
    ASSUME Inv, RowsStay, \A b \in Builds' : b \in Builds \/ build'[b].upload \in Uploads'
    PROVE  \A b \in Builds' : BuildFits(b)'
BY DEF Inv, BuildFits, RowsStay

LEMMA HeadsKept ==
    ASSUME Inv, RowsStay, \A u \in Uploads' : u \in Uploads \/ upload'[u].head = None,
           \A u \in Uploads : HeadStays(u) /\ (upload[u].head # None => ChannelStays(u)),
           \A b \in Builds : build[b].state = "completed" => build'[b].state = "completed"
    PROVE  \A u \in Uploads' : HeadFits(u)'
<1> SUFFICES ASSUME NEW u \in Uploads', upload'[u].head # None PROVE HeadFits(u)'
  BY DEF HeadFits
<1>1. u \in Uploads /\ upload'[u].head = upload[u].head /\ upload'[u].channel = upload[u].channel
  BY DEF HeadStays, ChannelStays
<1>2. HeadFits(u)
  BY <1>1 DEF Inv
<1> QED BY <1>1, <1>2 DEF HeadFits, RowsStay

\* The steps that touch no channel, no head and no state.
LEMMA UntouchedKeeps ==
    ASSUME Inv, Untouched, NEW r \in Requests, Others(r), Types', AccountInv',
           PushFits(r)', SettleFits(r)',
           SoleHolder',
           request'[r].pc \in Generating =>
               request[r].pc \in Generating /\ request'[r].build = request[r].build,
           \A b \in Builds' : b \in Builds \/ build'[b].upload \in Uploads',
           \A u \in Uploads' : u \in Uploads \/ upload'[u].head = None
    PROVE  Inv'
<1>1. \A s \in Requests \ {r} : PushFits(s)' /\ SettleFits(s)'
  <2> SUFFICES ASSUME NEW s \in Requests \ {r} PROVE PushFits(s)' /\ SettleFits(s)'
    OBVIOUS
  <2>1. request'[s] = request[s]
    BY DEF Others
  <2>2. request[s].pc \in HasUpload => ChannelStays(request[s].upload)
    BY PcSets DEF Inv, PushFits, Untouched
  <2>3. request[s].pc \in SettlePcs => StateStays(request[s].build)
    BY SettleHasUpload DEF Untouched
  <2> QED BY <2>1, <2>2, <2>3, OtherPush, OtherSettle DEF Untouched
<1>2. SoleGenerator'
  BY GeneratorsKept DEF Others
<1>3. \A b \in Builds' : BuildFits(b)'
  BY BuildsKept DEF Untouched
<1>4. \A u \in Uploads' : HeadFits(u)'
  BY HeadsKept DEF Untouched, StateStays
<1> QED BY <1>1, <1>2, <1>3, <1>4 DEF Inv

LEMMA HolderTakes ==
    ASSUME Inv, NEW r \in Requests, Others(r), \A u \in Uploads : ChannelStays(u),
           request'[r].pc \in HasUpload =>
               \/ request[r].pc \in HasUpload /\ request'[r].upload = request[r].upload
               \/ /\ request'[r].upload \in Uploads
                  /\ upload[request'[r].upload].channel # NoChannel
               \/ request'[r].upload \notin Uploads
    PROVE  SoleHolder'
<1> SUFFICES ASSUME NEW a \in Requests, NEW b \in Requests, a # b, request'[a].pc \in HasUpload,
                    request'[b].pc \in HasUpload, request'[a].upload = request'[b].upload
             PROVE  upload'[request'[a].upload].channel # NoChannel
  BY DEF SoleHolder
<1> DEFINE u == request'[a].upload
<1>1. \A s \in Requests : request[s].pc \in HasUpload => request[s].upload \in Uploads
  BY PcSets DEF Inv, PushFits
<1>2. u \in Uploads
  BY <1>1 DEF Others
<1>3. upload[u].channel # NoChannel
  BY <1>1 DEF Others, Inv, SoleHolder
<1> QED BY <1>2, <1>3 DEF ChannelStays

-----------------------------------------------------------------------------
(* Every step keeps the invariant *)

LEMMA CreateBuildKeeps ==
    ASSUME Inv, NEW r \in Requests, NEW k \in Keys, NEW target \in Targets,
           NEW channel \in Channels, CreateBuild(r, k, target, channel)
    PROVE  Inv'
<1>1. Types
  BY DEF Inv
<1>2. /\ UNCHANGED RowTables /\ request' \in [Requests -> WideFrame] /\ Others(r)
      /\ request'[r].pc = "games" /\ request'[r].game = None /\ request'[r].upload = None
      /\ request'[r].target = target /\ request'[r].channel = channel
      /\ CanAccess(request'[r].as, request'[r].role, target[1])
  BY <1>1, CreateBuildDoes
<1>3. Untouched /\ Games' = Games /\ Uploads' = Uploads /\ Builds' = Builds
  BY <1>2, UnchangedTables
<1>4. Types' /\ AccountInv'
  BY <1>2, TablesAre, TypesKept DEF CreateBuild, RowTables
<1>5. "games" \in CreatePcs /\ "games" \notin HasGame /\ "games" # "channel"
      /\ "games" \notin Generating /\ "games" \notin SettlePcs /\ "games" \notin HasUpload
  BY DEF CreatePcs, HasGame, HasUpload, Generating, SettlePcs
<1>6. PushFits(r)'
  BY <1>2, <1>5 DEF PushFits
<1>7. SoleHolder'
  BY <1>2, <1>3, <1>5, HolderTakes DEF Untouched
<1> QED BY <1>2, <1>3, <1>4, <1>5, <1>6, <1>7, NoSettle, UntouchedKeeps

LEMMA CreateBuildGamesKeeps == ASSUME Inv, NEW r \in Requests, CreateBuildGames(r) PROVE Inv'
<1>1. Types /\ PushFits(r)
  BY DEF Inv
<1>2. PICK pc \in {"create_game", "uploads"}, g \in GamesOf(request[r].target) \cup {request[r].game} :
          /\ Moves(r, pc, g, request[r].upload)
          /\ pc = "create_game" => g = request[r].game
          /\ pc = "uploads" => g \in GamesOf(request[r].target)
  BY <1>1, CreateBuildGamesDoes
<1>3. request[r].pc = "games" /\ UNCHANGED RowTables
  BY <1>1, CreateBuildGamesDoes
<1>4. Untouched /\ Games' = Games /\ Uploads' = Uploads /\ Builds' = Builds
  BY <1>3, UnchangedTables
<1>5. Types' /\ AccountInv'
  BY <1>2, <1>3, TablesAre, TypesKept DEF CreateBuildGames, RowTables, Moves
<1>6. /\ request'[r].pc \in {"create_game", "uploads"}
      /\ request'[r].pc \notin HasUpload \cup Generating \cup SettlePcs
      /\ Others(r)
  BY <1>2 DEF Moves, HasUpload, Generating, SettlePcs
<1>7. PushFits(r)'
  <2>1. request[r].game = None /\ request[r].upload = None
    BY <1>1, <1>3 DEF PushFits, CreatePcs, HasGame, HasUpload
  <2>2. pc = "uploads" => g \in Games /\ game[g] = request[r].target
    BY <1>2 DEF GamesOf
  <2>3. request[r].pc \in CreatePcs /\ (pc = "create_game" => pc \notin HasGame)
        /\ (pc = "uploads" => pc \in HasGame) /\ pc \notin HasUpload /\ pc # "channel"
    BY <1>3 DEF CreatePcs, HasGame, HasUpload
  <2> QED BY <1>1, <1>2, <1>3, <1>4, <2>1, <2>2, <2>3 DEF PushFits, Moves, RowTables
<1>8. SoleHolder'
  BY <1>4, <1>6, HolderTakes DEF Untouched
<1> QED BY <1>4, <1>5, <1>6, <1>7, <1>8, NoSettle, UntouchedKeeps

LEMMA CreateGameKeeps == ASSUME Inv, NEW r \in Requests, CreateGame(r) PROVE Inv'
<1>1. Types /\ PushFits(r) /\ request[r].pc = "create_game"
  BY DEF Inv, CreateGame
<1>2. request[r].target \in Targets /\ request[r].upload = None
  BY <1>1 DEF PushFits, CreatePcs, HasUpload
<1> DEFINE g == Len(game) + 1
<1>3. /\ UNCHANGED <<upload, build>> /\ game' = Append(game, request[r].target)
      /\ game' \in Seq(Targets) /\ Moves(r, "uploads", g, request[r].upload)
  BY <1>1, <1>2, CreateGameDoes
<1>4. /\ Untouched /\ Uploads' = Uploads /\ Builds' = Builds
      /\ g \in Games' /\ game'[g] = request[r].target
  BY <1>2, <1>3, NewGame
<1> HIDE DEF g
<1>5. Types' /\ AccountInv'
  BY <1>3, TablesAre, TypesKept DEF CreateGame, Moves
<1>6. /\ request'[r].pc = "uploads" /\ Others(r)
      /\ "uploads" \notin HasUpload \cup Generating \cup SettlePcs /\ "uploads" \in HasGame
      /\ "uploads" \in CreatePcs /\ "uploads" # "channel" /\ request[r].pc \in CreatePcs
  BY <1>1, <1>3 DEF Moves, HasUpload, HasGame, Generating, SettlePcs, CreatePcs
<1>7. PushFits(r)'
  BY <1>1, <1>2, <1>3, <1>4, <1>6 DEF PushFits, Moves
<1>8. SoleHolder'
  BY <1>4, <1>6, HolderTakes DEF Untouched
<1> QED BY <1>4, <1>5, <1>6, <1>7, <1>8, NoSettle, UntouchedKeeps

LEMMA CreateBuildUploadsKeeps == ASSUME Inv, NEW r \in Requests, CreateBuildUploads(r) PROVE Inv'
<1>1. Types /\ PushFits(r) /\ request[r].pc = "uploads"
  BY DEF Inv, CreateBuildUploads
<1>2. PICK pc \in {"build", "platforms", "create_upload"}, u \in Nat :
          /\ Moves(r, pc, request[r].game, u)
          /\ pc = "create_upload" => u = request[r].upload
          /\ pc # "create_upload" => u \in UploadsOf(request[r].game, request[r].channel)
  <2>1. request[r].upload \in Nat /\ \A u \in UploadsOf(request[r].game, request[r].channel) : u \in Nat
    BY <1>1, IdsAre DEF UploadsOf, Types, WideFrame
  <2> QED BY <1>1, <2>1, CreateBuildUploadsDoes
<1>3. UNCHANGED RowTables
  BY <1>1, CreateBuildUploadsDoes
<1>4. Untouched /\ Games' = Games /\ Uploads' = Uploads /\ Builds' = Builds
  BY <1>3, UnchangedTables
<1>5. Types' /\ AccountInv'
  BY <1>2, <1>3, TablesAre, TypesKept DEF CreateBuildUploads, RowTables, Moves
<1>6. /\ request'[r].pc = pc /\ Others(r) /\ pc \notin Generating \cup SettlePcs
      /\ pc \in CreatePcs /\ pc \in HasGame /\ pc # "channel" /\ (pc \in HasUpload <=> pc # "create_upload")
      /\ request[r].pc \in CreatePcs /\ request[r].pc \in HasGame /\ request[r].pc \notin HasUpload
  BY <1>1, <1>2 DEF Moves, HasUpload, HasGame, Generating, SettlePcs, CreatePcs
<1>7. pc \in HasUpload =>
          /\ u \in Uploads /\ upload[u].game = request[r].game
          /\ upload[u].channel = request[r].channel /\ request[r].channel # NoChannel
  BY <1>1, <1>2, <1>6, ChannelAssumption DEF UploadsOf, PushFits
<1>8. PushFits(r)'
  <2>1. request[r].upload = None
    BY <1>1, <1>6 DEF PushFits
  <2> QED BY <1>1, <1>2, <1>3, <1>4, <1>6, <1>7, <2>1 DEF PushFits, Moves, RowTables
<1>9. SoleHolder'
  BY <1>2, <1>4, <1>6, <1>7, HolderTakes DEF Untouched, Moves
<1> QED BY <1>4, <1>5, <1>6, <1>8, <1>9, NoSettle, UntouchedKeeps

LEMMA CreateBuildPlatformsKeeps ==
    ASSUME Inv, NEW r \in Requests, CreateBuildPlatforms(r) PROVE Inv'
<1>1. Types /\ PushFits(r) /\ request[r].pc = "platforms"
  BY DEF Inv, CreateBuildPlatforms
<1>2. /\ UNCHANGED <<game, build>> /\ RowsRewritten
      /\ Moves(r, "build", request[r].game, request[r].upload)
  BY <1>1, CreateBuildPlatformsDoes
<1>3. Untouched /\ Games' = Games /\ Uploads' = Uploads /\ Builds' = Builds
  BY <1>2, RewrittenTables
<1>4. Types' /\ AccountInv'
  BY <1>2, TablesAre, TypesKept DEF CreateBuildPlatforms, Moves, RowsRewritten
<1>5. /\ request'[r].pc = "build" /\ Others(r) /\ "build" \notin Generating \cup SettlePcs
      /\ request[r].pc \in HasUpload /\ "build" \in HasUpload /\ "build" \in HasGame
      /\ request[r].pc \in HasGame /\ request[r].pc \in CreatePcs /\ "build" # "channel"
  BY <1>1, <1>2 DEF Moves, HasUpload, HasGame, Generating, SettlePcs, CreatePcs
<1>6. PushFits(r)'
  BY <1>1, <1>2, <1>3, <1>5 DEF PushFits, Moves, Untouched, RowsStay, ChannelStays
<1>7. SoleHolder'
  BY <1>2, <1>3, <1>5, HolderTakes DEF Untouched, Moves
<1> QED BY <1>3, <1>4, <1>5, <1>6, <1>7, NoSettle, UntouchedKeeps

LEMMA CreateUploadKeeps == ASSUME Inv, NEW r \in Requests, CreateUpload(r) PROVE Inv'
<1>1. Types /\ PushFits(r) /\ request[r].pc = "create_upload"
  BY DEF Inv, CreateUpload
<1> DEFINE u == Len(upload) + 1
           row == [game |-> request[r].game, channel |-> NoChannel, head |-> None, row |-> New]
<1>2. /\ UNCHANGED <<game, build>> /\ upload' = Append(upload, row)
      /\ upload' \in Seq(WideUploadRow) /\ Moves(r, "build", request[r].game, u)
  BY <1>1, CreateUploadDoes
<1>3. row \in WideUploadRow /\ row.game = request[r].game /\ row.channel = NoChannel /\ row.head = None
  BY <1>1 DEF Types, WideFrame, WideUploadRow, WideColumns, New, None
<1> HIDE DEF row
<1>4. /\ Untouched /\ Games' = Games /\ Builds' = Builds
      /\ u \in Uploads' \ Uploads /\ upload'[u] = row
      /\ \A v \in Uploads' : v \in Uploads \/ v = u
  BY <1>2, <1>3, NewUpload
<1> HIDE DEF u
<1>5. Types' /\ AccountInv'
  BY <1>2, TablesAre, TypesKept DEF CreateUpload, Moves
<1>6. /\ request'[r].pc = "build" /\ Others(r) /\ "build" \notin Generating \cup SettlePcs
      /\ "build" \in HasUpload /\ "build" \in HasGame
      /\ request[r].pc \in HasGame /\ request[r].pc \in CreatePcs /\ "build" # "channel"
  BY <1>1, <1>2 DEF Moves, HasUpload, HasGame, Generating, SettlePcs, CreatePcs
<1>7. PushFits(r)'
  BY <1>1, <1>2, <1>3, <1>4, <1>6 DEF PushFits, Moves, Untouched, RowsStay
<1>8. SoleHolder'
  BY <1>2, <1>4, <1>6, HolderTakes DEF Untouched, Moves
<1> QED BY <1>3, <1>4, <1>5, <1>6, <1>7, <1>8, NoSettle, UntouchedKeeps

LEMMA CreateBuildInsertKeeps == ASSUME Inv, NEW r \in Requests, CreateBuildInsert(r) PROVE Inv'
<1>1. Types /\ PushFits(r) /\ request[r].pc = "build"
  BY DEF Inv, CreateBuildInsert
<1>2. /\ request[r].pc \in CreatePcs /\ request[r].pc \in HasUpload /\ request[r].pc \in HasGame
      /\ request[r].channel \in Channels /\ request[r].upload \in Uploads
  BY <1>1 DEF PushFits, CreatePcs, HasUpload, HasGame
<1> DEFINE row == [upload |-> request[r].upload, channel |-> request[r].channel, state |-> "started"]
<1>3. /\ UNCHANGED <<game, upload>> /\ build' = Append(build, row) /\ build' \in Seq(WideBuildRow)
      /\ \/ /\ upload[request[r].upload].channel = NoChannel
            /\ Moves(r, "channel", request[r].game, request[r].upload)
         \/ Leaves(r)
  BY <1>1, <1>2, CreateBuildInsertDoes
<1>4. row \in WideBuildRow /\ row.upload = request[r].upload
  BY <1>1, <1>2 DEF Types, WideFrame, WideBuildRow
<1> HIDE DEF row
<1>5. /\ Untouched /\ Games' = Games /\ Uploads' = Uploads
      /\ \A b \in Builds' : b \in Builds \/ build'[b] = row
  BY <1>3, <1>4, NewBuild
<1>6. Types' /\ AccountInv'
  BY <1>3, TablesAre, TypesKept DEF CreateBuildInsert, Moves, Leaves
<1>7. /\ Others(r) /\ request'[r].pc \in {"idle", "channel"}
      /\ request'[r].pc \notin Generating \cup SettlePcs
      /\ "idle" \notin CreatePcs \cup HasUpload /\ "channel" \in HasUpload /\ "channel" \in HasGame
  BY <1>3 DEF Moves, Leaves, HasUpload, HasGame, Generating, SettlePcs, CreatePcs
<1>8. PushFits(r)'
  <2>1. CASE request'[r].pc = "idle"
    BY <1>7, <2>1, NoPush
  <2>2. CASE request'[r].pc = "channel"
    BY <1>1, <1>2, <1>3, <1>5, <1>7, <2>2 DEF PushFits, Moves, Leaves, Untouched, RowsStay
  <2> QED BY <1>7, <2>1, <2>2
<1>9. SoleHolder'
  BY <1>2, <1>3, <1>5, <1>7, HolderTakes DEF Untouched, Moves, Leaves
<1> QED BY <1>2, <1>4, <1>5, <1>6, <1>7, <1>8, <1>9, NoSettle, UntouchedKeeps

LEMMA CreateBuildChannelKeeps == ASSUME Inv, NEW r \in Requests, CreateBuildChannel(r) PROVE Inv'
<1> DEFINE u == request[r].upload
<1>1. Types /\ PushFits(r) /\ request[r].pc = "channel"
  BY DEF Inv, CreateBuildChannel
<1>2. /\ request[r].channel \in Channels /\ u \in Uploads /\ upload[u].channel = NoChannel
      /\ request[r].pc \in HasUpload
  BY <1>1 DEF PushFits, CreatePcs, HasUpload
<1>3. UNCHANGED <<game, build>> /\ Leaves(r) /\ ChannelInserted(u, request[r].channel)
  BY <1>1, <1>2, CreateBuildChannelDoes
<1>4. /\ RowsStay /\ Games' = Games /\ Uploads' = Uploads /\ Builds' = Builds
      /\ \A v \in Uploads : HeadStays(v) /\ (v # u => ChannelStays(v))
      /\ \A b \in Builds : StateStays(b)
      /\ upload'[u].channel # NoChannel
  BY <1>2, <1>3, ChannelAssumption
     DEF ChannelInserted, RowsStay, HeadStays, ChannelStays, StateStays, Games, Builds
<1>5. Types' /\ AccountInv'
  BY <1>3, TablesAre, TypesKept DEF CreateBuildChannel, Leaves, ChannelInserted
<1>6. request'[r].pc \notin CreatePcs \cup HasUpload \cup SettlePcs \cup Generating /\ Others(r)
  BY <1>3 DEF Leaves, CreatePcs, HasUpload, SettlePcs, Generating
<1>7. ASSUME NEW s \in Requests \ {r} PROVE PushFits(s)' /\ SettleFits(s)'
  <2>1. request'[s] = request[s]
    BY <1>6 DEF Others
  <2>2. request[s].pc \in HasUpload => request[s].upload \in Uploads /\ request[s].upload # u
    BY <1>2, PcSets DEF Inv, SoleHolder, PushFits
  <2>3. request[s].pc \in SettlePcs => StateStays(request[s].build)
    BY <1>4, SettleHasUpload
  <2> QED BY <1>4, <2>1, <2>2, <2>3, OtherPush, OtherSettle
<1>8. SoleHolder'
  BY <1>4, <1>6, HoldersKept DEF ChannelStays, Others
<1>9. SoleGenerator'
  BY <1>6, GeneratorsKept DEF Others
<1>10. \A b \in Builds' : BuildFits(b)'
  BY <1>4, BuildsKept
<1>11. \A v \in Uploads' : HeadFits(v)'
  <2>1. upload[u].head = None
    <3>1. SUFFICES ASSUME upload[u].head # None PROVE FALSE
      OBVIOUS
    <3>2. build[upload[u].head].channel = NoChannel /\ upload[u].head \in Builds
      BY <1>2, <3>1 DEF Inv, HeadFits
    <3> QED BY <1>1, <3>2, IdsAre, ChannelAssumption DEF WideBuildRow
  <2> QED BY <1>4, <2>1, HeadsKept DEF StateStays
<1> QED BY <1>5, <1>6, <1>7, <1>8, <1>9, <1>10, <1>11, NoPush, NoSettle DEF Inv

LEMMA GenerateKeeps == ASSUME Inv, NEW r \in Requests, Generate(r) PROVE Inv'
<1>1. Types /\ SettleFits(r) /\ request[r].pc = "generate" /\ "generate" \in SettlePcs
  BY DEF Inv, Generate, SettlePcs
<1>2. request[r].upload \in Uploads
  BY <1>1, SettleHasUpload
<1>3. PICK pc \in {"record", "write_metadata"} : Moves(r, pc, request[r].game, request[r].upload)
  BY <1>1, <1>2, GenerateDoes
<1>4. Untouched /\ Games' = Games /\ Uploads' = Uploads /\ Builds' = Builds
  BY <1>1, <1>2, GenerateDoes, UnchangedTables
<1>5. Types' /\ AccountInv'
  BY <1>1, <1>2, <1>3, GenerateDoes, TablesAre, TypesKept DEF Generate, Moves, RowTables
<1>6. /\ request'[r].pc = pc /\ Others(r) /\ pc \notin CreatePcs \cup HasUpload
      /\ pc \in Generating <=> "generate" \in Generating
      /\ pc \in Archived <=> "generate" \in Archived
      /\ pc # "advance" /\ pc \in SettlePcs
  BY <1>3 DEF Moves, CreatePcs, HasUpload, Generating, Archived, SettlePcs
<1>7. SettleFits(r)'
  BY <1>1, <1>3, <1>4, <1>6 DEF SettleFits, Moves, Untouched, RowsStay, StateStays
<1>8. SoleHolder'
  BY <1>4, <1>6, HolderTakes DEF Untouched
<1> QED BY <1>1, <1>3, <1>4, <1>5, <1>6, <1>7, <1>8, NoPush, UntouchedKeeps DEF Moves

LEMMA WriteMetadataKeeps == ASSUME Inv, NEW r \in Requests, WriteMetadata(r) PROVE Inv'
<1>1. Types /\ SettleFits(r) /\ request[r].pc = "write_metadata" /\ "write_metadata" \in SettlePcs
  BY DEF Inv, WriteMetadata, SettlePcs
<1>2. request[r].upload \in Uploads
  BY <1>1, SettleHasUpload
<1>3. PICK pc \in {"record"} : Moves(r, pc, request[r].game, request[r].upload)
  BY <1>1, <1>2, WriteMetadataDoes
<1>4. Untouched /\ Games' = Games /\ Uploads' = Uploads /\ Builds' = Builds
  BY <1>1, <1>2, WriteMetadataDoes, RewrittenTables
<1>5. Types' /\ AccountInv'
  BY <1>1, <1>2, <1>3, WriteMetadataDoes, TablesAre, TypesKept DEF WriteMetadata, Moves, RowsRewritten
<1>6. /\ request'[r].pc = pc /\ Others(r) /\ pc \notin CreatePcs \cup HasUpload
      /\ pc \in Generating <=> "write_metadata" \in Generating
      /\ pc \in Archived <=> "write_metadata" \in Archived
      /\ pc # "advance" /\ pc \in SettlePcs
  BY <1>3 DEF Moves, CreatePcs, HasUpload, Generating, Archived, SettlePcs
<1>7. SettleFits(r)'
  BY <1>1, <1>3, <1>4, <1>6 DEF SettleFits, Moves, Untouched, RowsStay, StateStays
<1>8. SoleHolder'
  BY <1>4, <1>6, HolderTakes DEF Untouched
<1> QED BY <1>1, <1>3, <1>4, <1>5, <1>6, <1>7, <1>8, NoPush, UntouchedKeeps DEF Moves

LEMMA ReadSizeKeeps == ASSUME Inv, NEW r \in Requests, ReadSize(r) PROVE Inv'
<1>1. Types /\ SettleFits(r) /\ request[r].pc = "size" /\ "size" \in SettlePcs
  BY DEF Inv, ReadSize, SettlePcs
<1>2. request[r].upload \in Uploads
  BY <1>1, SettleHasUpload
<1>3. PICK pc \in {"complete", "write_size"} : Moves(r, pc, request[r].game, request[r].upload)
  BY <1>1, <1>2, ReadSizeDoes
<1>4. Untouched /\ Games' = Games /\ Uploads' = Uploads /\ Builds' = Builds
  BY <1>1, <1>2, ReadSizeDoes, UnchangedTables
<1>5. Types' /\ AccountInv'
  BY <1>1, <1>2, <1>3, ReadSizeDoes, TablesAre, TypesKept DEF ReadSize, Moves, RowTables
<1>6. /\ request'[r].pc = pc /\ Others(r) /\ pc \notin CreatePcs \cup HasUpload
      /\ pc \in Generating <=> "size" \in Generating
      /\ pc \in Archived <=> "size" \in Archived
      /\ pc # "advance" /\ pc \in SettlePcs
  BY <1>3 DEF Moves, CreatePcs, HasUpload, Generating, Archived, SettlePcs
<1>7. SettleFits(r)'
  BY <1>1, <1>3, <1>4, <1>6 DEF SettleFits, Moves, Untouched, RowsStay, StateStays
<1>8. SoleHolder'
  BY <1>4, <1>6, HolderTakes DEF Untouched
<1> QED BY <1>1, <1>3, <1>4, <1>5, <1>6, <1>7, <1>8, NoPush, UntouchedKeeps DEF Moves

LEMMA WriteSizeKeeps == ASSUME Inv, NEW r \in Requests, WriteSize(r) PROVE Inv'
<1>1. Types /\ SettleFits(r) /\ request[r].pc = "write_size" /\ "write_size" \in SettlePcs
  BY DEF Inv, WriteSize, SettlePcs
<1>2. request[r].upload \in Uploads
  BY <1>1, SettleHasUpload
<1>3. PICK pc \in {"complete"} : Moves(r, pc, request[r].game, request[r].upload)
  BY <1>1, <1>2, WriteSizeDoes
<1>4. Untouched /\ Games' = Games /\ Uploads' = Uploads /\ Builds' = Builds
  BY <1>1, <1>2, WriteSizeDoes, RewrittenTables
<1>5. Types' /\ AccountInv'
  BY <1>1, <1>2, <1>3, WriteSizeDoes, TablesAre, TypesKept DEF WriteSize, Moves, RowsRewritten
<1>6. /\ request'[r].pc = pc /\ Others(r) /\ pc \notin CreatePcs \cup HasUpload
      /\ pc \in Generating <=> "write_size" \in Generating
      /\ pc \in Archived <=> "write_size" \in Archived
      /\ pc # "advance" /\ pc \in SettlePcs
  BY <1>3 DEF Moves, CreatePcs, HasUpload, Generating, Archived, SettlePcs
<1>7. SettleFits(r)'
  BY <1>1, <1>3, <1>4, <1>6 DEF SettleFits, Moves, Untouched, RowsStay, StateStays
<1>8. SoleHolder'
  BY <1>4, <1>6, HolderTakes DEF Untouched
<1> QED BY <1>1, <1>3, <1>4, <1>5, <1>6, <1>7, <1>8, NoPush, UntouchedKeeps DEF Moves

LEMMA CheckKeeps == ASSUME Inv, NEW r \in Requests, NEW b \in Builds, Check(r, b) PROVE Inv'
<1>1. Types
  BY DEF Inv
<1>2. build[b].state = "archived" /\ Takes(r, b, "size") /\ UNCHANGED RowTables
  BY <1>1, CheckDoes DEF Takes, RowTables
<1>3. Untouched /\ Games' = Games /\ Uploads' = Uploads /\ Builds' = Builds
  BY <1>2, UnchangedTables
<1>4. Types' /\ AccountInv'
  BY <1>2, TablesAre, TypesKept DEF Check, Settling, Takes, RowTables
<1>5. /\ request'[r].pc = "size" /\ Others(r) /\ "size" \notin CreatePcs \cup HasUpload \cup Generating
      /\ "size" # "advance"
  BY <1>2 DEF Takes, CreatePcs, HasUpload, Generating
<1>6. SettleFits(r)'
  BY <1>2, <1>3, <1>5 DEF SettleFits, Takes, Untouched, RowsStay, StateStays
<1>7. SoleHolder'
  BY <1>3, <1>5, HolderTakes DEF Untouched
<1> QED BY <1>3, <1>4, <1>5, <1>6, <1>7, NoPush, UntouchedKeeps

\* The steps that set a build's state: what is left to show of each.
LEMMA StateSetKeeps ==
    ASSUME Inv, NEW r \in Requests, NEW b \in Builds, NEW state, StateSet(b, state),
           UNCHANGED <<game, upload>>, Others(r), Types', AccountInv',
           request'[r].pc \notin CreatePcs, SettleFits(r)', SoleGenerator',
           \A s \in Requests \ {r} :
               request[s].pc \in SettlePcs /\ request[s].build = b => SettleFits(s)',
           build[b].state = "completed" => state = "completed"
    PROVE  Inv'
<1>1. /\ RowsStay /\ Games' = Games /\ Uploads' = Uploads /\ Builds' = Builds
      /\ \A v \in Uploads : HeadStays(v) /\ ChannelStays(v)
      /\ \A a \in Builds \ {b} : StateStays(a)
  BY DEF StateSet, RowsStay, HeadStays, ChannelStays, StateStays, Games, Uploads
<1>2. request'[r].pc \notin HasUpload
  BY PcSets
<1>3. ASSUME NEW s \in Requests \ {r} PROVE PushFits(s)' /\ SettleFits(s)'
  <2>1. request'[s] = request[s]
    BY DEF Others
  <2>2. request[s].pc \in HasUpload => ChannelStays(request[s].upload)
    BY <1>1, PcSets DEF Inv, PushFits
  <2>3. request[s].pc \in SettlePcs /\ request[s].build # b => StateStays(request[s].build)
    BY <1>1, SettleHasUpload
  <2> QED BY <1>1, <2>1, <2>2, <2>3, OtherPush, OtherSettle
<1>4. SoleHolder'
  BY <1>1, <1>2, HolderTakes
<1>5. \A a \in Builds' : BuildFits(a)'
  BY <1>1, BuildsKept
<1>6. \A v \in Uploads' : HeadFits(v)'
  <2>1. \A a \in Builds : build[a].state = "completed" => build'[a].state = "completed"
    BY <1>1 DEF StateSet, StateStays
  <2> QED BY <1>1, <2>1, HeadsKept
<1> QED BY <1>1, <1>3, <1>4, <1>5, <1>6, NoPush DEF Inv

LEMMA ClaimKeeps == ASSUME Inv, NEW r \in Requests, NEW b \in Builds, Claim(r, b) PROVE Inv'
<1>1. Types
  BY DEF Inv
<1>2. build[b].state = "started" /\ Takes(r, b, "generate") /\ StateSet(b, "processing")
  BY <1>1, ClaimDoes
<1>3. Types' /\ AccountInv'
  BY <1>2, TablesAre, TypesKept DEF Claim, Settling, Takes, StateSet
<1>4. /\ request'[r].pc = "generate" /\ Others(r) /\ "generate" \notin CreatePcs \cup Archived
      /\ "generate" # "advance" /\ UNCHANGED <<game, upload>>
  BY <1>2 DEF Takes, CreatePcs, Archived
<1>5. SettleFits(r)'
  BY <1>2, <1>4 DEF SettleFits, Takes, StateSet
<1>6. \A s \in Requests : request[s].pc \in SettlePcs => request[s].build # b
  <2>1. \A s \in Requests : request[s].pc \in SettlePcs =>
            request[s].pc \in Generating \cup Archived \cup {"advance"}
    BY DEF SettlePcs, Generating, Archived
  <2> QED BY <1>2, <2>1 DEF Inv, SettleFits
<1>7. SoleGenerator'
  BY <1>2, <1>4, <1>6, PcSets DEF Inv, SoleGenerator, Takes, Others
<1> QED BY <1>2, <1>3, <1>4, <1>5, <1>6, <1>7, StateSetKeeps

LEMMA RecordArchiveKeeps == ASSUME Inv, NEW r \in Requests, RecordArchive(r) PROVE Inv'
<1> DEFINE b == request[r].build
<1>1. Types /\ SettleFits(r) /\ request[r].pc = "record" /\ "record" \in SettlePcs /\ "record" \in Generating
  BY DEF Inv, RecordArchive, SettlePcs, Generating
<1>2. /\ UNCHANGED <<game, upload>> /\ StateSet(b, "archived")
      /\ Moves(r, "size", request[r].game, request[r].upload)
  BY <1>1, RecordArchiveDoes
<1>3. b \in Builds /\ build[b].state = "processing"
  BY <1>1 DEF SettleFits
<1>4. Types' /\ AccountInv'
  BY <1>2, TablesAre, TypesKept DEF RecordArchive, Moves, StateSet
<1>5. /\ request'[r].pc = "size" /\ Others(r) /\ "size" \notin CreatePcs \cup Generating
      /\ "size" # "advance" /\ request'[r].build = b /\ request'[r].upload = request[r].upload
  BY <1>2 DEF Moves, CreatePcs, Generating
<1>6. SettleFits(r)'
  BY <1>1, <1>2, <1>3, <1>5 DEF SettleFits, StateSet
<1>7. \A s \in Requests \ {r} : request[s].pc \in SettlePcs => request[s].build # b
  <2>1. \A s \in Requests : request[s].pc \in SettlePcs =>
            request[s].pc \in Generating \cup Archived \cup {"advance"}
    BY DEF SettlePcs, Generating, Archived
  <2> QED BY <1>1, <1>3, <2>1 DEF Inv, SettleFits, SoleGenerator
<1>8. SoleGenerator'
  BY <1>5, GeneratorsKept DEF Others
<1> QED BY <1>2, <1>3, <1>4, <1>5, <1>6, <1>7, <1>8, StateSetKeeps

LEMMA CompleteKeeps == ASSUME Inv, NEW r \in Requests, Complete(r) PROVE Inv'
<1> DEFINE b == request[r].build
<1>1. Types /\ SettleFits(r) /\ request[r].pc = "complete" /\ "complete" \in SettlePcs /\ "complete" \in Archived
  BY DEF Inv, Complete, SettlePcs, Archived
<1>2. /\ UNCHANGED <<game, upload>> /\ StateSet(b, "completed")
      /\ Moves(r, "advance", request[r].game, request[r].upload)
  BY <1>1, CompleteDoes
<1>3. b \in Builds /\ build[b].state \in {"archived", "completed"}
  BY <1>1 DEF SettleFits
<1>4. Types' /\ AccountInv'
  BY <1>2, TablesAre, TypesKept DEF Complete, Moves, StateSet
<1>5. /\ request'[r].pc = "advance" /\ Others(r) /\ "advance" \notin CreatePcs \cup Generating \cup Archived
      /\ request'[r].build = b /\ request'[r].upload = request[r].upload
  BY <1>2 DEF Moves, CreatePcs, Generating, Archived
<1>6. SettleFits(r)'
  BY <1>1, <1>2, <1>3, <1>5 DEF SettleFits, StateSet
<1>7. ASSUME NEW s \in Requests \ {r}, request[s].pc \in SettlePcs, request[s].build = b
      PROVE  SettleFits(s)'
  <2>1. SettleFits(s) /\ request'[s] = request[s]
    BY <1>5 DEF Inv, Others
  <2>2. request[s].pc \notin Generating
    BY <1>3, <1>7, <2>1 DEF SettleFits
  <2> QED BY <1>2, <1>3, <1>7, <2>1, <2>2 DEF SettleFits, StateSet
<1>8. SoleGenerator'
  BY <1>5, GeneratorsKept DEF Others
<1> QED BY <1>2, <1>3, <1>4, <1>5, <1>6, <1>7, <1>8, StateSetKeeps

LEMMA AdvanceHeadKeeps == ASSUME Inv, NEW r \in Requests, AdvanceHead(r) PROVE Inv'
<1> DEFINE b == request[r].build
           u == request[r].upload
<1>1. Types /\ SettleFits(r) /\ request[r].pc = "advance" /\ "advance" \in SettlePcs
  BY DEF Inv, AdvanceHead, SettlePcs
<1>2. UNCHANGED <<game, build>> /\ Leaves(r)
  BY <1>1, AdvanceHeadDoes
<1>3. request'[r].pc \notin CreatePcs \cup HasUpload \cup SettlePcs \cup Generating /\ Others(r)
  BY <1>2 DEF Leaves, CreatePcs, HasUpload, SettlePcs, Generating
<1>4. PushFits(r)' /\ SettleFits(r)'
  BY <1>3, NoPush, NoSettle
<1>5. CASE UNCHANGED upload
  <2>1. Untouched /\ Games' = Games /\ Uploads' = Uploads /\ Builds' = Builds
    BY <1>2, <1>5, UnchangedTables DEF RowTables
  <2>2. Types' /\ AccountInv'
    BY <1>2, <1>5, TablesAre, TypesKept DEF AdvanceHead, Leaves
  <2>3. SoleHolder'
    BY <1>3, <2>1, HolderTakes DEF Untouched
  <2> QED BY <1>3, <1>4, <2>1, <2>2, <2>3, UntouchedKeeps
<1>6. CASE upload[u].channel = build[b].channel /\ HeadSet(u, b)
  <2>1. /\ RowsStay /\ Games' = Games /\ Uploads' = Uploads /\ Builds' = Builds
        /\ \A v \in Uploads : ChannelStays(v) /\ (v # u => HeadStays(v))
        /\ \A a \in Builds : StateStays(a)
    BY <1>2, <1>6 DEF HeadSet, RowsStay, HeadStays, ChannelStays, StateStays, Games, Builds
  <2>2. Types' /\ AccountInv'
    BY <1>2, <1>6, TablesAre, TypesKept DEF AdvanceHead, Leaves, HeadSet
  <2>3. SoleHolder'
    BY <1>3, <2>1, HolderTakes
  <2>4. ASSUME NEW s \in Requests \ {r} PROVE PushFits(s)' /\ SettleFits(s)'
    <3>1. request'[s] = request[s]
      BY <1>3 DEF Others
    <3>2. request[s].pc \in HasUpload => ChannelStays(request[s].upload)
      BY <2>1, PcSets DEF Inv, PushFits
    <3>3. request[s].pc \in SettlePcs => StateStays(request[s].build)
      BY <2>1, SettleHasUpload
    <3> QED BY <2>1, <3>1, <3>2, <3>3, OtherPush, OtherSettle
  <2>5. SoleGenerator'
    BY <1>3, GeneratorsKept DEF Others
  <2>6. \A a \in Builds' : BuildFits(a)'
    BY <2>1, BuildsKept
  <2>7. ASSUME NEW v \in Uploads' PROVE HeadFits(v)'
    <3>1. CASE v # u
      BY <2>1, <2>7, <3>1 DEF Inv, HeadFits, HeadStays, ChannelStays, StateStays, RowsStay
    <3>2. CASE v = u
      <4>1. b \in Builds /\ build[b].upload = u /\ build[b].state = "completed"
        BY <1>1 DEF SettleFits
      <4> QED BY <1>2, <1>6, <2>1, <2>7, <3>2, <4>1 DEF HeadFits, HeadSet
    <3> QED BY <3>1, <3>2
  <2> QED BY <1>4, <2>2, <2>3, <2>4, <2>5, <2>6, <2>7 DEF Inv
<1> QED BY <1>1, <1>5, <1>6, AdvanceHeadDoes

LEMMA AbandonKeeps == ASSUME Inv, NEW r \in Requests, Abandon(r) PROVE Inv'
<1>1. UNCHANGED RowTables /\ Leaves(r)
  BY AbandonDoes DEF Inv
<1>2. Untouched /\ Games' = Games /\ Uploads' = Uploads /\ Builds' = Builds
  BY <1>1, UnchangedTables
<1>3. Types' /\ AccountInv'
  BY <1>1, TablesAre, TypesKept DEF Abandon, Leaves, RowTables
<1>4. request'[r].pc \notin CreatePcs \cup HasUpload \cup SettlePcs \cup Generating /\ Others(r)
  BY <1>1 DEF Leaves, CreatePcs, HasUpload, SettlePcs, Generating
<1>5. SoleHolder'
  BY <1>2, <1>4, HolderTakes DEF Untouched
<1> QED BY <1>2, <1>3, <1>4, <1>5, NoPush, NoSettle, UntouchedKeeps

LEMMA AccountsKeep == ASSUME Inv, UNCHANGED catalogueVars, AccountInv' PROVE Inv'
<1>1. Types'
  BY DEF Inv, Types, AccountInv, BookTypes, catalogueVars
<1> QED BY <1>1
        DEF catalogueVars, Inv, PushFits, SettleFits, SoleHolder, SoleGenerator, BuildFits, HeadFits,
            Games, Uploads, Builds

LEMMA InvStep == Inv /\ [Next]_vars => Inv'
<1> SUFFICES ASSUME Inv, [Next]_vars PROVE Inv'
  OBVIOUS
<1>1. CASE CommandNext
  <2>1. UNCHANGED catalogueVars /\ \E c \in Commands : Command(c)
    BY <1>1 DEF CommandNext, Command
  <2> QED BY <2>1, AccountInvStep, AccountsKeep DEF Inv
<1>2. ASSUME NEW r \in Requests, Handle(r) PROVE Inv'
  BY <1>2, CreateBuildGamesKeeps, CreateGameKeeps, CreateBuildUploadsKeeps, CreateBuildPlatformsKeeps,
     CreateUploadKeeps, CreateBuildInsertKeeps, CreateBuildChannelKeeps, GenerateKeeps,
     WriteMetadataKeeps, RecordArchiveKeeps, ReadSizeKeeps, WriteSizeKeeps, CompleteKeeps,
     AdvanceHeadKeeps DEF Handle
<1>3. CASE RequestNext
  BY <1>2, <1>3, CreateBuildKeeps, ClaimKeeps, CheckKeeps, AbandonKeeps DEF RequestNext
<1>4. CASE UNCHANGED vars
  <2>1. UNCHANGED catalogueVars /\ AccountInv'
    BY <1>4 DEF vars, accountVars, Inv, AccountInv, BookTypes, HoldsSwitch, Running, IsSwitch
  <2> QED BY <2>1, AccountsKeep
<1> QED BY <1>1, <1>3, <1>4 DEF Next

LEMMA InvHolds == Spec => []Inv
BY InvInit, InvStep, PTL DEF Spec

-----------------------------------------------------------------------------
\* A developer's push finds and writes rows of the developer's own namespace
\* only, whatever administrators, other pushes and account commands do.
THEOREM PushesKeepToNamespace == Spec => []KeepsToNamespace
<1>1. Inv => KeepsToNamespace
  <2> SUFFICES ASSUME Inv, NEW r \in Requests, request[r].pc \in CreatePcs, request[r].role = "user"
               PROVE  /\ request[r].game # None => game[request[r].game][1] = request[r].as
                      /\ request[r].upload # None =>
                            LET row == upload[request[r].upload] IN
                            /\ game[row.game][1] = request[r].as
                            /\ row.channel \in {request[r].channel, NoChannel}
    BY DEF KeepsToNamespace
  <2>1. PushFits(r)
    BY DEF Inv
  <2>2. request[r].target[1] = request[r].as
    BY <2>1 DEF PushFits, CanAccess
  <2> QED BY <2>1, <2>2, PcSets DEF PushFits
<1> QED BY <1>1, InvHolds, PTL

\* A channel's head is a completed build of that channel and in its list of
\* builds, in whatever order claims, channel rows and completions come.
THEOREM HeadsAreListed == Spec => []HeadIsListed
<1>1. Inv => HeadIsListed
  <2> SUFFICES ASSUME Inv, NEW target \in Targets, NEW channel \in Channels,
                      NEW u \in Listed(target, channel), upload[u].head # None
               PROVE  /\ build[upload[u].head].state = "completed"
                      /\ upload[u].head \in BuildsListed(upload[u].game, channel)
    BY DEF HeadIsListed
  <2>1. u \in Uploads /\ upload[u].channel = channel
    BY DEF Listed, UploadsOf
  <2> QED BY <2>1 DEF Inv, HeadFits, BuildsListed
<1> QED BY <1>1, InvHolds, PTL

-----------------------------------------------------------------------------
(* Get-or-create *)

\* What a push that found nothing relies on until it has inserted its rows.
FoundNothing(r) ==
    LET f == request[r] IN
    f.pc \in CreatePcs /\ f.target \notin crowded =>
        /\ f.pc = "create_game" => GamesOf(f.target) = {}
        /\ f.pc = "create_upload" => UploadsOf(f.game, f.channel) = {}
        /\ f.pc \in HasUpload /\ upload[f.upload].channel = NoChannel
              => UploadsOf(f.game, f.channel) = {}

SolePush ==
    \A r, s \in Requests :
        /\ request[r].pc \in CreatePcs /\ request[s].pc \in CreatePcs
        /\ request[r].target = request[s].target /\ request[r].target \notin crowded
        => r = s

OneGame(target) == \A g, h \in GamesOf(target) : g = h
OneUpload(target, channel) == \A u, v \in Listed(target, channel) : u = v

SharedInv ==
    /\ Inv
    /\ \A u \in Uploads : upload[u].game \in Games
    /\ SolePush
    /\ \A r \in Requests : FoundNothing(r)
    /\ \A target \in Targets \ crowded :
          OneGame(target) /\ \A channel \in Channels : OneUpload(target, channel)

LEMMA SharedInit == Init => SharedInv
<1> SUFFICES ASSUME Init PROVE SharedInv
  OBVIOUS
<1>1. Uploads = {} /\ Games = {}
  BY DEF Init, CatalogueInit, Uploads, Games
<1>2. \A r \in Requests : request[r].pc \notin CreatePcs
  BY IdleIs, PcsAre DEF Init, CatalogueInit
<1> QED BY <1>1, <1>2, InvInit
        DEF SharedInv, SolePush, FoundNothing, OneGame, OneUpload, Listed, GamesOf

\* The rows that lookups find are the same after the step.
SameLookups ==
    /\ \A target \in Targets : GamesOf(target)' = GamesOf(target)
    /\ \A g \in Games, channel \in Channels : UploadsOf(g, channel)' = UploadsOf(g, channel)

LEMMA SameRows ==
    ASSUME Inv, RowsStay, Games' = Games, \A u \in Uploads : ChannelStays(u),
           \A u \in Uploads' : u \in Uploads \/ upload'[u].channel = NoChannel
    PROVE  SameLookups
<1>1. \A target \in Targets : GamesOf(target)' = GamesOf(target)
  BY DEF RowsStay, GamesOf
<1>2. \A g \in Games, channel \in Channels : UploadsOf(g, channel)' = UploadsOf(g, channel)
  BY ChannelAssumption DEF RowsStay, ChannelStays, UploadsOf
<1> QED BY <1>1, <1>2 DEF SameLookups

LEMMA SameListed ==
    ASSUME Inv, SameLookups, NEW target \in Targets, NEW channel \in Channels
    PROVE  Listed(target, channel)' = Listed(target, channel)
<1>1. GamesOf(target)' = GamesOf(target) /\ GamesOf(target) \subseteq Games
  BY DEF SameLookups, GamesOf
<1>2. \A g \in GamesOf(target) : UploadsOf(g, channel)' = UploadsOf(g, channel)
  BY <1>1 DEF SameLookups
<1> QED BY <1>1, <1>2 DEF Listed

LEMMA OtherFoundNothing ==
    ASSUME SharedInv, Inv', SameLookups, crowded \subseteq crowded', \A u \in Uploads : ChannelStays(u),
           NEW s \in Requests, request'[s] = request[s]
    PROVE  FoundNothing(s)'
<1> SUFFICES ASSUME request[s].pc \in CreatePcs, request[s].target \notin crowded PROVE FoundNothing(s)'
  BY DEF FoundNothing
<1>1. FoundNothing(s) /\ PushFits(s)
  BY DEF SharedInv, Inv
<1>2. request[s].target \in Targets /\ request[s].channel \in Channels
  BY <1>1 DEF PushFits
<1>3. GamesOf(request[s].target)' = GamesOf(request[s].target)
  BY <1>2 DEF SameLookups
<1>4. request[s].pc \in HasGame =>
          UploadsOf(request[s].game, request[s].channel)' = UploadsOf(request[s].game, request[s].channel)
  BY <1>1, <1>2 DEF SameLookups, PushFits
<1>5. request[s].pc \in HasUpload => ChannelStays(request[s].upload)
  BY <1>1 DEF PushFits
<1>6. "create_upload" \in HasGame /\ HasUpload \subseteq HasGame
  BY PcSets DEF HasGame
<1> QED BY <1>1, <1>3, <1>4, <1>5, <1>6 DEF FoundNothing, ChannelStays

\* The steps after which every lookup finds what it found before.
LEMMA SharedKept ==
    ASSUME SharedInv, Inv', SameLookups, RowsStay, crowded \subseteq crowded',
           \A u \in Uploads : ChannelStays(u),
           \A u \in Uploads' : u \in Uploads \/ upload'[u].game \in Games',
           NEW r \in Requests, Others(r), FoundNothing(r)', SolePush'
    PROVE  SharedInv'
<1>1. \A u \in Uploads' : upload'[u].game \in Games'
  BY DEF SharedInv, RowsStay
<1>2. \A s \in Requests : FoundNothing(s)'
  BY OtherFoundNothing DEF Others
<1>3. \A target \in Targets \ crowded' : OneGame(target)'
  BY DEF SharedInv, SameLookups, OneGame
<1>4. \A target \in Targets \ crowded' : \A channel \in Channels : OneUpload(target, channel)'
  BY SameListed DEF SharedInv, OneUpload
<1> QED BY <1>1, <1>2, <1>3, <1>4 DEF SharedInv

LEMMA PushesAreKept ==
    ASSUME SharedInv, crowded \subseteq crowded', NEW r \in Requests, Others(r),
           request'[r].pc \in CreatePcs =>
               request[r].pc \in CreatePcs /\ request'[r].target = request[r].target
    PROVE  SolePush'
BY DEF SharedInv, SolePush, Others

\* The steps of a handler that pushes nothing, or that keep what it found.
LEMMA QuietShares ==
    ASSUME SharedInv, Inv', NEW r \in Requests, Others(r), RowsStay, Games' = Games,
           Uploads' = Uploads, \A u \in Uploads : ChannelStays(u), UNCHANGED crowded,
           request'[r].pc \in CreatePcs =>
               /\ request[r].pc \in CreatePcs /\ request'[r].target = request[r].target
               /\ request'[r].pc \notin {"create_game", "create_upload"}
               /\ request'[r].pc \in HasUpload =>
                     /\ request[r].pc \in HasUpload
                     /\ request'[r].game = request[r].game /\ request'[r].upload = request[r].upload
                     /\ request'[r].channel = request[r].channel
    PROVE  SharedInv'
<1>1. Inv
  BY DEF SharedInv
<1>2. SameLookups
  BY <1>1, SameRows
<1>3. FoundNothing(r)'
  <2> SUFFICES ASSUME request'[r].pc \in HasUpload, request'[r].target \notin crowded,
                      upload'[request'[r].upload].channel = NoChannel, request'[r].pc \in CreatePcs
               PROVE  UploadsOf(request[r].game, request[r].channel)' = {}
    BY DEF FoundNothing
  <2>1. FoundNothing(r) /\ PushFits(r) /\ request[r].pc \in CreatePcs
    BY PcSets DEF SharedInv, Inv
  <2>2. upload[request[r].upload].channel = NoChannel
    BY <2>1 DEF PushFits, ChannelStays
  <2>3. UploadsOf(request[r].game, request[r].channel) = {}
    BY <2>1, <2>2 DEF FoundNothing
  <2>4. request[r].game \in Games /\ request[r].channel \in Channels
    BY <2>1, PcSets DEF PushFits
  <2> QED BY <1>2, <2>3, <2>4 DEF SameLookups
<1>4. SolePush'
  BY PushesAreKept
<1>5. crowded \subseteq crowded'
  OBVIOUS
<1> QED BY <1>1, <1>2, <1>3, <1>4, <1>5, SharedKept

Settles(r) ==
    \/ \E b \in Builds : Claim(r, b) \/ Check(r, b)
    \/ Generate(r) \/ WriteMetadata(r) \/ RecordArchive(r) \/ ReadSize(r) \/ WriteSize(r)
    \/ Complete(r) \/ AdvanceHead(r) \/ Abandon(r)

LEMMA SettlingIsQuiet ==
    ASSUME Inv, NEW r \in Requests, Settles(r)
    PROVE  /\ Others(r) /\ RowsStay /\ Games' = Games /\ Uploads' = Uploads /\ UNCHANGED crowded
           /\ \A u \in Uploads : ChannelStays(u)
           /\ request'[r].pc \notin CreatePcs
<1> USE DEF SettlePcs, CreatePcs
<1>1. Types /\ (request[r].pc \in SettlePcs => request[r].upload \in Uploads)
  BY SettleHasUpload DEF Inv
<1>2. ASSUME UNCHANGED RowTables PROVE RowsStay /\ Games' = Games /\ Uploads' = Uploads
                                    /\ \A u \in Uploads : ChannelStays(u)
  BY <1>2, UnchangedTables DEF Untouched
<1>3. ASSUME RowsRewritten, UNCHANGED <<game, build>>
      PROVE  RowsStay /\ Games' = Games /\ Uploads' = Uploads /\ \A u \in Uploads : ChannelStays(u)
  BY <1>3, RewrittenTables DEF Untouched
<1>4. ASSUME NEW b, NEW state, StateSet(b, state), UNCHANGED <<game, upload>>
      PROVE  RowsStay /\ Games' = Games /\ Uploads' = Uploads /\ \A u \in Uploads : ChannelStays(u)
  BY <1>4 DEF StateSet, RowsStay, ChannelStays, Games, Uploads
<1>5. ASSUME NEW u, NEW b, HeadSet(u, b), UNCHANGED <<game, build>>
      PROVE  RowsStay /\ Games' = Games /\ Uploads' = Uploads /\ \A v \in Uploads : ChannelStays(v)
  BY <1>5 DEF HeadSet, RowsStay, ChannelStays, Games, Uploads, Builds
<1>6. ASSUME NEW b \in Builds, Claim(r, b)
      PROVE  /\ Takes(r, b, "generate") /\ StateSet(b, "processing") /\ UNCHANGED crowded
  BY <1>1, <1>6, ClaimDoes DEF Claim, Settling
<1>7. ASSUME NEW b \in Builds, Check(r, b)
      PROVE  Takes(r, b, "size") /\ UNCHANGED build /\ UNCHANGED crowded
  BY <1>1, <1>7, CheckDoes DEF Check, Settling
<1>8. CASE Generate(r)
  BY <1>1, <1>2, <1>8, GenerateDoes DEF Generate, Moves
<1>9. CASE WriteMetadata(r)
  BY <1>1, <1>3, <1>9, WriteMetadataDoes DEF WriteMetadata, Moves
<1>10. CASE RecordArchive(r)
  BY <1>1, <1>4, <1>10, RecordArchiveDoes DEF RecordArchive, Moves
<1>11. CASE ReadSize(r)
  BY <1>1, <1>2, <1>11, ReadSizeDoes DEF ReadSize, Moves
<1>12. CASE WriteSize(r)
  BY <1>1, <1>3, <1>12, WriteSizeDoes DEF WriteSize, Moves
<1>13. CASE Complete(r)
  BY <1>1, <1>4, <1>13, CompleteDoes DEF Complete, Moves
<1>14. CASE AdvanceHead(r)
  BY <1>1, <1>2, <1>5, <1>14, AdvanceHeadDoes DEF AdvanceHead, Leaves, RowTables
<1>15. CASE Abandon(r)
  BY <1>1, <1>2, <1>15, AbandonDoes DEF Abandon, Leaves
<1>16. CASE \E b \in Builds : Claim(r, b) \/ Check(r, b)
  BY <1>2, <1>4, <1>6, <1>7, <1>16 DEF Takes, RowTables
<1> QED BY <1>8, <1>9, <1>10, <1>11, <1>12, <1>13, <1>14, <1>15, <1>16 DEF Settles

LEMMA SettlesShares == ASSUME SharedInv, Inv', NEW r \in Requests, Settles(r) PROVE SharedInv'
BY SettlingIsQuiet, QuietShares DEF SharedInv

LEMMA CreateBuildShares ==
    ASSUME SharedInv, Inv', NEW r \in Requests, NEW k \in Keys, NEW target \in Targets,
           NEW channel \in Channels, CreateBuild(r, k, target, channel)
    PROVE  SharedInv'
<1>1. Inv /\ Types
  BY DEF SharedInv, Inv
<1>2. /\ UNCHANGED RowTables /\ Others(r) /\ request'[r].pc = "games"
      /\ request'[r].target = target
  BY <1>1, CreateBuildDoes
<1>3. Untouched /\ Games' = Games /\ Uploads' = Uploads
  BY <1>2, UnchangedTables
<1>4. RowsStay /\ SameLookups /\ \A u \in Uploads : ChannelStays(u)
  BY <1>1, <1>3, SameRows DEF Untouched
<1>5. crowded \subseteq crowded' /\ (Pushing(target) = {} \/ target \in crowded')
  BY DEF CreateBuild
<1>6. FoundNothing(r)'
  BY <1>2 DEF FoundNothing, HasUpload
<1>7. SolePush'
  <2>1. target \in crowded' \/ \A s \in Requests : request[s].pc \in CreatePcs => request[s].target # target
    BY <1>5 DEF Pushing
  <2> QED BY <1>2, <1>5, <2>1 DEF SharedInv, SolePush, Others
<1> QED BY <1>2, <1>3, <1>4, <1>5, <1>6, <1>7, SharedKept

LEMMA CreateBuildGamesShares ==
    ASSUME SharedInv, Inv', NEW r \in Requests, CreateBuildGames(r) PROVE SharedInv'
<1>1. Inv /\ Types /\ PushFits(r)
  BY DEF SharedInv, Inv
<1>2. PICK pc \in {"create_game", "uploads"}, g \in GamesOf(request[r].target) \cup {request[r].game} :
          /\ Moves(r, pc, g, request[r].upload)
          /\ pc = "create_game" => GamesOf(request[r].target) = {}
  BY <1>1, CreateBuildGamesDoes
<1>3. UNCHANGED RowTables /\ UNCHANGED crowded /\ request[r].pc = "games"
  BY <1>1, CreateBuildGamesDoes DEF CreateBuildGames
<1>4. Untouched /\ Games' = Games /\ Uploads' = Uploads
  BY <1>3, UnchangedTables
<1>5. RowsStay /\ SameLookups /\ \A u \in Uploads : ChannelStays(u)
  BY <1>1, <1>4, SameRows DEF Untouched
<1>6. /\ request'[r].pc = pc /\ Others(r) /\ request'[r].target = request[r].target
      /\ request[r].pc \in CreatePcs /\ pc # "create_upload" /\ pc \notin HasUpload
  BY <1>2, <1>3 DEF Moves, HasUpload, CreatePcs
<1>7. FoundNothing(r)'
  <2>1. request[r].target \in Targets
    BY <1>1, <1>6 DEF PushFits
  <2>2. pc = "create_game" => GamesOf(request[r].target)' = {}
    <3>1. PICK t \in Targets : t = request[r].target
      BY <2>1
    <3>2. pc = "create_game" => GamesOf(t)' = {}
      BY <1>2, <1>5, <3>1 DEF SameLookups
    <3> QED BY <1>6, <3>1, <3>2
  <2> QED BY <1>6, <2>2 DEF FoundNothing
<1>8. SolePush'
  BY <1>3, <1>6, PushesAreKept
<1> QED BY <1>3, <1>4, <1>5, <1>6, <1>7, <1>8, SharedKept

LEMMA CreateGameShares ==
    ASSUME SharedInv, Inv', NEW r \in Requests, CreateGame(r) PROVE SharedInv'
<1>1. Inv /\ Types /\ PushFits(r) /\ FoundNothing(r) /\ request[r].pc = "create_game"
  BY DEF SharedInv, Inv, CreateGame
<1>2. request[r].pc \in CreatePcs
  BY <1>1 DEF CreatePcs
<1>3. PICK t \in Targets : t = request[r].target
  BY <1>1, <1>2 DEF PushFits
<1>0. PICK new : new = Len(game) + 1
  OBVIOUS
<1>4. /\ UNCHANGED <<upload, build>> /\ game' = Append(game, t) /\ UNCHANGED crowded
      /\ Moves(r, "uploads", new, request[r].upload)
  BY <1>0, <1>1, <1>3, CreateGameDoes DEF CreateGame
<1>5. /\ Untouched /\ Uploads' = Uploads /\ new \in Games' /\ game'[new] = t
      /\ \A g \in Games' : g \in Games \/ game'[g] = t
      /\ \A g \in Games' : g \in Games \/ g = new
  <2>1. game \in Seq(Targets)
    BY <1>1 DEF Types
  <2> QED BY <1>0, <1>1, <1>4, <2>1, NewGame, AppendIs DEF Games
<1>6. /\ request'[r].pc = "uploads" /\ Others(r) /\ request'[r].target = t
      /\ "uploads" \in CreatePcs /\ "uploads" \notin HasUpload
  BY <1>3, <1>4 DEF Moves, HasUpload, CreatePcs
<1>7. \A target \in Targets \ {t} : GamesOf(target)' = GamesOf(target)
  BY <1>5 DEF GamesOf, Untouched, RowsStay
<1>8. \A g \in Games, channel \in Channels : UploadsOf(g, channel)' = UploadsOf(g, channel)
  BY <1>4 DEF UploadsOf, Uploads
<1>9. \A channel \in Channels : UploadsOf(new, channel)' = {} \/ new \in Games
  BY <1>4 DEF SharedInv, UploadsOf, Uploads
<1>10. SolePush'
  BY <1>2, <1>3, <1>4, <1>6, PushesAreKept
<1>11. \A s \in Requests : FoundNothing(s)'
  <2>1. FoundNothing(r)'
    BY <1>6 DEF FoundNothing
  <2>2. ASSUME NEW s \in Requests \ {r}, request[s].pc \in CreatePcs, request[s].target \notin crowded
        PROVE  FoundNothing(s)'
    <3>1. FoundNothing(s) /\ PushFits(s) /\ request'[s] = request[s]
      BY <1>6 DEF SharedInv, Inv, Others
    <3>2. request[s].target \in Targets \ {t} /\ request[s].channel \in Channels
      BY <1>2, <1>3, <2>2, <3>1 DEF SharedInv, SolePush, PushFits
    <3>3. PICK target \in Targets \ {t} : target = request[s].target
      BY <3>2
    <3>4. PICK channel \in Channels, g \in Nat : channel = request[s].channel /\ g = request[s].game
      BY <1>1, <3>2 DEF Types, WideFrame
    <3>5. GamesOf(target)' = GamesOf(target) /\ (g \in Games => UploadsOf(g, channel)' = UploadsOf(g, channel))
      BY <1>7, <1>8
    <3>6. request[s].pc \in HasUpload => upload'[request[s].upload].channel = upload[request[s].upload].channel
      BY <1>4
    <3>7. request[s].pc \in HasUpload \/ request[s].pc = "create_upload" => g \in Games
      BY <3>1, <3>4, <2>2, PcSets DEF PushFits, HasGame
    <3> QED BY <1>4, <2>2, <3>1, <3>3, <3>4, <3>5, <3>6, <3>7 DEF FoundNothing
  <2> QED BY <1>4, <1>6, <2>1, <2>2 DEF FoundNothing, Others
<1>12. ASSUME NEW target \in Targets \ crowded
       PROVE  OneGame(target)' /\ \A channel \in Channels : OneUpload(target, channel)'
  <2>1. OneGame(target) /\ \A channel \in Channels : OneUpload(target, channel)
    BY DEF SharedInv
  <2>2. CASE target # t
    <3>1. GamesOf(target)' = GamesOf(target)
      BY <1>7, <2>2
    <3>2. \A channel \in Channels, g \in GamesOf(target) : UploadsOf(g, channel)' = UploadsOf(g, channel)
      BY <1>8 DEF GamesOf
    <3>3. \A channel \in Channels : Listed(target, channel)' = Listed(target, channel)
      BY <3>1, <3>2 DEF Listed
    <3> QED BY <2>1, <3>1, <3>3 DEF OneGame, OneUpload
  <2>3. CASE target = t
    <3>1. GamesOf(t) = {}
      BY <1>1, <1>2, <1>3, <2>3 DEF FoundNothing
    <3>2. new \notin Games
      BY <1>0, <1>1, <1>4, AppendIs DEF Types, Games
    <3>3. GamesOf(t)' = {new}
      BY <1>5, <3>1, <3>2 DEF GamesOf, Untouched, RowsStay
    <3>4. OneGame(target)'
      BY <2>3, <3>3 DEF OneGame
    <3>5. \A channel \in Channels : UploadsOf(new, channel)' = {}
      BY <1>9, <3>2
    <3>6. \A channel \in Channels : Listed(target, channel)' = {}
      BY <2>3, <3>3, <3>5 DEF Listed
    <3> QED BY <3>4, <3>6 DEF OneUpload
  <2> QED BY <2>2, <2>3
<1>13. \A u \in Uploads' : upload'[u].game \in Games'
  BY <1>4, <1>5 DEF SharedInv, Untouched, RowsStay
<1> QED BY <1>4, <1>10, <1>11, <1>12, <1>13 DEF SharedInv

LEMMA CreateBuildUploadsShares ==
    ASSUME SharedInv, Inv', NEW r \in Requests, CreateBuildUploads(r) PROVE SharedInv'
<1>1. Inv /\ Types /\ PushFits(r) /\ request[r].pc = "uploads"
  BY DEF SharedInv, Inv, CreateBuildUploads
<1>2. request[r].pc \in CreatePcs /\ request[r].pc \in HasGame
  BY <1>1 DEF CreatePcs, HasGame
<1>3. PICK channel \in Channels, g \in Games : channel = request[r].channel /\ g = request[r].game
  BY <1>1, <1>2 DEF PushFits
<1>4. PICK pc \in {"build", "platforms", "create_upload"}, u \in Nat :
          /\ Moves(r, pc, g, u)
          /\ pc = "create_upload" => UploadsOf(g, channel) = {} \/ request[r].target \in crowded'
          /\ pc # "create_upload" => u \in UploadsOf(g, channel)
  <2>1. request[r].upload \in Nat /\ \A u \in UploadsOf(g, channel) : u \in Nat
    BY <1>1, IdsAre DEF UploadsOf, Types, WideFrame
  <2> QED BY <1>1, <1>3, <2>1, CreateBuildUploadsDoes
<1>5. UNCHANGED RowTables /\ crowded \subseteq crowded'
  BY <1>1, CreateBuildUploadsDoes DEF CreateBuildUploads
<1>6. Untouched /\ Games' = Games /\ Uploads' = Uploads
  BY <1>5, UnchangedTables
<1>7. RowsStay /\ SameLookups /\ \A v \in Uploads : ChannelStays(v)
  BY <1>1, <1>6, SameRows DEF Untouched
<1>8. /\ request'[r].pc = pc /\ Others(r) /\ request'[r].target = request[r].target
      /\ request'[r].game = g /\ request'[r].channel = channel /\ request'[r].upload = u
      /\ pc # "create_game" /\ "create_upload" \notin HasUpload
  BY <1>3, <1>4 DEF Moves, HasUpload
<1>9. FoundNothing(r)'
  <2>1. pc = "create_upload" => UploadsOf(g, channel)' = {} \/ request'[r].target \in crowded'
    BY <1>4, <1>7, <1>8 DEF SameLookups
  <2>2. pc # "create_upload" => upload'[u].channel # NoChannel
    BY <1>4, <1>7, ChannelAssumption DEF UploadsOf, ChannelStays
  <2> QED BY <1>8, <2>1, <2>2 DEF FoundNothing
<1>10. SolePush'
  BY <1>2, <1>5, <1>8, PushesAreKept
<1> QED BY <1>5, <1>6, <1>7, <1>8, <1>9, <1>10, SharedKept

LEMMA CreateBuildPlatformsShares ==
    ASSUME SharedInv, Inv', NEW r \in Requests, CreateBuildPlatforms(r) PROVE SharedInv'
<1>1. Inv /\ Types /\ request[r].pc = "platforms"
  BY DEF SharedInv, Inv, CreateBuildPlatforms
<1>2. /\ UNCHANGED <<game, build>> /\ RowsRewritten /\ UNCHANGED crowded
      /\ Moves(r, "build", request[r].game, request[r].upload)
  BY <1>1, CreateBuildPlatformsDoes DEF CreateBuildPlatforms
<1>3. Untouched /\ Games' = Games /\ Uploads' = Uploads
  BY <1>2, RewrittenTables
<1>4. /\ "platforms" \in CreatePcs /\ "platforms" \in HasUpload
      /\ "build" \notin {"create_game", "create_upload"}
  BY DEF CreatePcs, HasUpload
<1> QED BY <1>1, <1>2, <1>3, <1>4, QuietShares DEF Moves, Untouched

LEMMA CreateUploadShares ==
    ASSUME SharedInv, Inv', NEW r \in Requests, CreateUpload(r) PROVE SharedInv'
<1>1. Inv /\ Types /\ PushFits(r) /\ FoundNothing(r) /\ request[r].pc = "create_upload"
  BY DEF SharedInv, Inv, CreateUpload
<1>2. request[r].pc \in CreatePcs /\ request[r].pc \in HasGame
  BY <1>1 DEF CreatePcs, HasGame
<1>3. PICK channel \in Channels, g \in Games : channel = request[r].channel /\ g = request[r].game
  BY <1>1, <1>2 DEF PushFits
<1> DEFINE u == Len(upload) + 1
           row == [game |-> request[r].game, channel |-> NoChannel, head |-> None, row |-> New]
<1>4. /\ UNCHANGED <<game, build>> /\ upload' = Append(upload, row) /\ UNCHANGED crowded
      /\ Moves(r, "build", request[r].game, u)
  BY <1>1, CreateUploadDoes DEF CreateUpload
<1>5. row \in WideUploadRow /\ row.game = request[r].game /\ row.channel = NoChannel
  BY <1>1 DEF Types, WideFrame, WideUploadRow, WideColumns, New, None
<1> HIDE DEF row
<1>6. /\ Untouched /\ Games' = Games /\ upload'[u] = row
      /\ \A v \in Uploads' : v \in Uploads \/ v = u
  BY <1>1, <1>4, <1>5, NewUpload
<1> HIDE DEF u
<1>7. RowsStay /\ SameLookups /\ \A v \in Uploads : ChannelStays(v)
  BY <1>1, <1>5, <1>6, SameRows DEF Untouched
<1>8. /\ request'[r].pc = "build" /\ Others(r) /\ request'[r].target = request[r].target
      /\ request'[r].game = g /\ request'[r].channel = channel
  BY <1>3, <1>4 DEF Moves
<1>9. FoundNothing(r)'
  <2>1. request[r].target \notin crowded => UploadsOf(g, channel)' = {}
    BY <1>1, <1>2, <1>3, <1>7 DEF FoundNothing, SameLookups
  <2> QED BY <1>4, <1>8, <2>1 DEF FoundNothing
<1>10. SolePush'
  BY <1>2, <1>4, <1>8, PushesAreKept
<1>11. \A v \in Uploads' : v \in Uploads \/ upload'[v].game \in Games'
  BY <1>3, <1>5, <1>6
<1> QED BY <1>1, <1>4, <1>7, <1>8, <1>9, <1>10, <1>11, SharedKept

LEMMA CreateBuildInsertShares ==
    ASSUME SharedInv, Inv', NEW r \in Requests, CreateBuildInsert(r) PROVE SharedInv'
<1>1. Inv /\ Types /\ PushFits(r) /\ request[r].pc = "build"
  BY DEF SharedInv, Inv, CreateBuildInsert
<1>2. request[r].pc \in CreatePcs /\ request[r].pc \in HasUpload /\ "idle" \notin CreatePcs
  BY <1>1 DEF CreatePcs, HasUpload
<1>3. request[r].channel \in Channels
  BY <1>1, <1>2 DEF PushFits
<1> DEFINE row == [upload |-> request[r].upload, channel |-> request[r].channel, state |-> "started"]
<1>4. /\ UNCHANGED <<game, upload>> /\ build' = Append(build, row) /\ UNCHANGED crowded
      /\ Moves(r, "channel", request[r].game, request[r].upload) \/ Leaves(r)
  BY <1>1, <1>3, CreateBuildInsertDoes DEF CreateBuildInsert
<1>5. row \in WideBuildRow
  BY <1>1, <1>3 DEF Types, WideFrame, WideBuildRow
<1> HIDE DEF row
<1>6. Untouched /\ Games' = Games /\ Uploads' = Uploads
  BY <1>1, <1>4, <1>5, NewBuild
<1> QED BY <1>2, <1>4, <1>6, QuietShares DEF Moves, Leaves, Untouched

LEMMA CreateBuildChannelShares ==
    ASSUME SharedInv, Inv', NEW r \in Requests, CreateBuildChannel(r) PROVE SharedInv'
<1>1. Inv /\ Types /\ PushFits(r) /\ FoundNothing(r) /\ request[r].pc = "channel"
  BY DEF SharedInv, Inv, CreateBuildChannel
<1>2. request[r].pc \in CreatePcs /\ request[r].pc \in HasGame /\ request[r].pc \in HasUpload
  BY <1>1 DEF CreatePcs, HasGame, HasUpload
<1>3. PICK t \in Targets, c \in Channels, g \in Games, u \in Uploads :
          t = request[r].target /\ c = request[r].channel /\ g = request[r].game /\ u = request[r].upload
  BY <1>1, <1>2 DEF PushFits
<1>4. /\ upload[u].channel = NoChannel /\ upload[u].game = g /\ game[g] = t
      /\ t \notin crowded => UploadsOf(g, c) = {}
  BY <1>1, <1>2, <1>3 DEF PushFits, FoundNothing
<1>5. /\ UNCHANGED <<game, build>> /\ Leaves(r) /\ ChannelInserted(u, c) /\ UNCHANGED crowded
  BY <1>1, <1>3, CreateBuildChannelDoes DEF CreateBuildChannel
<1>6. /\ RowsStay /\ Games' = Games /\ Uploads' = Uploads
      /\ \A v \in Uploads \ {u} : ChannelStays(v)
      /\ upload'[u].channel = c
  BY <1>5 DEF ChannelInserted, RowsStay, ChannelStays, Games, Builds
<1>7. \A h \in Games, d \in Channels :
          UploadsOf(h, d)' = IF h = g /\ d = c THEN UploadsOf(h, d) \cup {u} ELSE UploadsOf(h, d)
  BY <1>4, <1>6, ChannelAssumption DEF RowsStay, ChannelStays, UploadsOf
<1>8. \A target \in Targets : GamesOf(target)' = GamesOf(target)
  BY <1>6 DEF RowsStay, GamesOf
<1>9. request'[r].pc \notin CreatePcs /\ Others(r)
  BY <1>5 DEF Leaves, CreatePcs
<1>10. SolePush'
  BY <1>5, <1>9, PushesAreKept
<1>11. \A s \in Requests : FoundNothing(s)'
  <2>1. FoundNothing(r)'
    BY <1>9 DEF FoundNothing
  <2>2. ASSUME NEW s \in Requests \ {r}, request[s].pc \in CreatePcs, request[s].target \notin crowded
        PROVE  FoundNothing(s)'
    <3>1. FoundNothing(s) /\ PushFits(s) /\ request'[s] = request[s]
      BY <1>9 DEF SharedInv, Inv, Others
    <3>2. request[s].target # t
      BY <1>2, <1>3, <2>2 DEF SharedInv, SolePush
    <3>3. PICK target \in Targets, d \in Channels : target = request[s].target /\ d = request[s].channel
      BY <2>2, <3>1 DEF PushFits
    <3>4. PICK h \in Nat, v \in Nat : h = request[s].game /\ v = request[s].upload
      BY <1>1 DEF Types, WideFrame
    <3>5. GamesOf(target)' = GamesOf(target)
      BY <1>8
    <3>6. request[s].pc \in HasGame => UploadsOf(h, d)' = UploadsOf(h, d)
      BY <1>4, <1>7, <2>2, <3>1, <3>2, <3>3, <3>4 DEF PushFits
    <3>7. request[s].pc \in HasUpload => v # u /\ v \in Uploads
      BY <1>1, <1>2, <1>3, <1>4, <2>2, <3>1, <3>2, <3>4, PcSets DEF PushFits
    <3>8. request[s].pc \in HasUpload => upload'[v].channel = upload[v].channel
      BY <1>6, <3>7 DEF ChannelStays
    <3>9. "create_upload" \in HasGame /\ HasUpload \subseteq HasGame
      BY PcSets DEF HasGame
    <3> QED BY <1>5, <2>2, <3>1, <3>3, <3>4, <3>5, <3>6, <3>8, <3>9 DEF FoundNothing
  <2> QED BY <1>5, <1>9, <2>1, <2>2 DEF FoundNothing, Others
<1>12. ASSUME NEW target \in Targets \ crowded
       PROVE  OneGame(target)' /\ \A channel \in Channels : OneUpload(target, channel)'
  <2>1. OneGame(target) /\ \A channel \in Channels : OneUpload(target, channel)
    BY DEF SharedInv
  <2>2. GamesOf(target)' = GamesOf(target)
    BY <1>8
  <2>3. OneGame(target)'
    BY <2>1, <2>2 DEF OneGame
  <2>4. ASSUME NEW channel \in Channels, target # t \/ channel # c
        PROVE  OneUpload(target, channel)'
    <3>1. \A h \in GamesOf(target) : UploadsOf(h, channel)' = UploadsOf(h, channel)
      BY <1>4, <1>7, <2>4 DEF GamesOf
    <3>2. Listed(target, channel)' = Listed(target, channel)
      BY <2>2, <3>1 DEF Listed
    <3> QED BY <2>1, <3>2 DEF OneUpload
  <2>5. ASSUME target = t PROVE OneUpload(target, c)'
    <3>1. GamesOf(t) = {g}
      BY <1>4, <2>1, <2>5 DEF OneGame, GamesOf
    <3>2. UploadsOf(g, c)' = {u}
      BY <1>4, <1>7, <2>5
    <3>3. Listed(t, c)' = {u}
      BY <2>2, <2>5, <3>1, <3>2 DEF Listed
    <3> QED BY <2>5, <3>3 DEF OneUpload
  <2> QED BY <2>3, <2>4, <2>5
<1>13. \A v \in Uploads' : upload'[v].game \in Games'
  BY <1>6 DEF SharedInv, RowsStay
<1> QED BY <1>5, <1>10, <1>11, <1>12, <1>13 DEF SharedInv

LEMMA AccountsShare == ASSUME SharedInv, Inv', UNCHANGED catalogueVars PROVE SharedInv'
BY DEF catalogueVars, SharedInv, SolePush, FoundNothing, OneGame, OneUpload, Listed, GamesOf,
       UploadsOf, Games, Uploads

LEMMA SharedStep == SharedInv /\ [Next]_vars => SharedInv'
<1> SUFFICES ASSUME SharedInv, [Next]_vars PROVE SharedInv'
  OBVIOUS
<1>1. Inv'
  BY InvStep DEF SharedInv
<1>2. CASE CommandNext
  BY <1>1, <1>2, AccountsShare DEF CommandNext
<1>3. ASSUME NEW r \in Requests, Handle(r) PROVE SharedInv'
  <2>1. CASE Settles(r)
    BY <1>1, <2>1, SettlesShares
  <2> QED BY <1>1, <1>3, <2>1, CreateBuildGamesShares, CreateGameShares, CreateBuildUploadsShares,
             CreateBuildPlatformsShares, CreateUploadShares, CreateBuildInsertShares,
             CreateBuildChannelShares DEF Handle, Settles
<1>4. CASE RequestNext
  BY <1>1, <1>3, <1>4, CreateBuildShares, SettlesShares DEF RequestNext, Settles
<1>5. CASE UNCHANGED vars
  BY <1>1, <1>5, AccountsShare DEF vars
<1> QED BY <1>2, <1>4, <1>5 DEF Next

\* Get-or-create of games and uploads by pushes to a target that do not
\* overlap and whose channel lookups answer: CreateBuild never leaves two
\* games of one title or two uploads with one channel.
THEOREM NonOverlappingPushesShareRows == Spec => []PushesShareRows
<1>1. Spec => []SharedInv
  BY SharedInit, SharedStep, PTL DEF Spec
<1>2. SharedInv => PushesShareRows
  BY DEF SharedInv, PushesShareRows, OneGame, OneUpload
<1> QED BY <1>1, <1>2, PTL
=============================================================================
