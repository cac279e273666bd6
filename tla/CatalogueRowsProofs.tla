------------------------- MODULE CatalogueRowsProofs -------------------------
(***************************************************************************)
(* Proofs about the columns of Catalogue's rows, for any number of         *)
(* requests, commands, users, games and channels: that the size in an      *)
(* upload's row tracks the channel's head, and that every id in a row or a *)
(* frame is one that was handed out, within the bounds of the behaviour.   *)
(***************************************************************************)
EXTENDS CatalogueProofs, FiniteSetTheorems

-----------------------------------------------------------------------------
(* What the writes of an upload row do to its columns *)

RowsKept == \A v \in Uploads : upload'[v].row = upload[v].row

LEMMA RowIsWritten ==
    ASSUME Types, NEW i \in Uploads, NEW columns \in WideColumns, UpdateUpload(i, columns)
    PROVE  upload'[i].row = columns /\ \A v \in Uploads \ {i} : upload'[v].row = upload[v].row
<1> DEFINE row == [upload[i] EXCEPT !.row = columns]
<1>1. upload[i] \in WideUploadRow /\ upload \in Seq(WideUploadRow)
  BY IdsAre DEF Types
<1>2. row \in WideUploadRow /\ row.row = columns
  BY <1>1 DEF WideUploadRow
<1>3. upload' = [upload EXCEPT ![i] = row]
  BY DEF UpdateUpload
<1> HIDE DEF row
<1> QED BY <1>1, <1>2, <1>3, ReplaceIs DEF Uploads

LEMMA ChannelKeepsRows ==
    ASSUME Types, NEW i \in Uploads, NEW channel \in Channels,
           upload' = [upload EXCEPT ![i].channel = channel]
    PROVE  RowsKept
<1> DEFINE row == [upload[i] EXCEPT !.channel = channel]
<1>1. upload[i] \in WideUploadRow /\ upload \in Seq(WideUploadRow)
  BY IdsAre DEF Types
<1>2. row \in WideUploadRow /\ row.row = upload[i].row
  BY <1>1 DEF WideUploadRow
<1>3. upload' = [upload EXCEPT ![i] = row]
  OBVIOUS
<1> HIDE DEF row
<1> QED BY <1>1, <1>2, <1>3, ReplaceIs DEF Uploads, RowsKept

LEMMA HeadKeepsRows ==
    ASSUME Types, NEW i \in Uploads, NEW b \in Nat, upload' = [upload EXCEPT ![i].head = b]
    PROVE  RowsKept
<1> DEFINE row == [upload[i] EXCEPT !.head = b]
<1>1. upload[i] \in WideUploadRow /\ upload \in Seq(WideUploadRow)
  BY IdsAre DEF Types
<1>2. row \in WideUploadRow /\ row.row = upload[i].row
  BY <1>1 DEF WideUploadRow
<1>3. upload' = [upload EXCEPT ![i] = row]
  OBVIOUS
<1> HIDE DEF row
<1> QED BY <1>1, <1>2, <1>3, ReplaceIs DEF Uploads, RowsKept

-----------------------------------------------------------------------------
(* What the steps of a handler do to the columns it read *)

LEMMA CopyKept ==
    ASSUME Types, NEW r \in Requests, NEW pc \in Pcs, NEW g \in Nat, NEW u \in Nat,
           \/ request' = [request EXCEPT ![r].pc = pc]
           \/ request' = [request EXCEPT ![r].pc = pc, ![r].game = g]
           \/ request' = [request EXCEPT ![r].pc = pc, ![r].upload = u]
    PROVE  request'[r].copy = request[r].copy
BY DEF Types, WideFrame

LEMMA CopyRead ==
    ASSUME Types, NEW r \in Requests, NEW pc \in Pcs, NEW u \in Nat, NEW c \in WideColumns,
           \/ request' = [request EXCEPT ![r].pc = pc, ![r].copy = c]
           \/ request' = [request EXCEPT ![r].pc = pc, ![r].upload = u, ![r].copy = c]
    PROVE  request'[r].copy = c
BY DEF Types, WideFrame

LEMMA ReturnsIdle == ASSUME Types, NEW r \in Requests, Return(r) PROVE request'[r] = Idle
BY IdleIs, UpdateIs DEF Return

-----------------------------------------------------------------------------
(* The size tracks the head: nobody else has the row in hand *)

WindowFits(r) ==
    LET f == request[r] IN
    f.pc \in WindowPcs /\ f.upload \notin disturbed =>
        /\ In(f.upload) = {r}
        /\ f.pc = "platforms" => f.copy.size = upload[f.upload].row.size
        /\ f.pc \in {"complete", "advance"} => upload[f.upload].row.size = f.build

TrackInv ==
    /\ Inv
    /\ \A r \in Requests : WindowFits(r)
    /\ UploadTracksHead

SizeStays(v) == upload'[v].row.size = upload[v].row.size

\* What a step of r must do for that.
EntersAlone(r) ==
    LET f == request'[r] IN
    f.pc \in WindowPcs /\ f.upload \notin disturbed' => r \in In(f.upload) \/ In(f.upload) = {}

LeavesFitting(r) ==
    LET f == request'[r] IN
    f.upload \notin disturbed' =>
        /\ f.pc = "platforms" => f.copy.size = upload'[f.upload].row.size
        /\ f.pc \in {"complete", "advance"} => upload'[f.upload].row.size = f.build

Follows(r, v) ==
    \/ request'[r].upload = v /\ request'[r].pc \in UnfinishedPcs
    \/ upload'[v].row.size = upload'[v].head
    \/ /\ ~(request[r].upload = v /\ request[r].pc \in UnfinishedPcs)
       /\ SizeStays(v) /\ HeadStays(v)

Tracks(r) ==
    /\ Others(r)
    /\ disturbed \subseteq disturbed'
    /\ \A v \in Uploads' \ Uploads : upload'[v].row.size = upload'[v].head
    /\ \A v \in Uploads : SizeStays(v) \/ r \in In(v)
    /\ EntersAlone(r) /\ LeavesFitting(r)
    /\ \A v \in Uploads \ disturbed' : Follows(r, v)

LEMMA WindowHasUpload ==
    ASSUME Inv, NEW r \in Requests, request[r].pc \in WindowPcs PROVE request[r].upload \in Uploads
<1>1. request[r].pc \in HasUpload \/ request[r].pc \in SettlePcs
  BY DEF WindowPcs, HasUpload, SettlePcs
<1>2. CASE request[r].pc \in HasUpload
  BY <1>2, PcSets DEF Inv, PushFits
<1>3. CASE request[r].pc \in SettlePcs
  BY <1>3, SettleHasUpload
<1> QED BY <1>1, <1>2, <1>3

LEMMA TrackInit == Init => TrackInv
<1> SUFFICES ASSUME Init PROVE TrackInv
  OBVIOUS
<1>1. \A r \in Requests : request[r].pc = "idle"
  BY IdleIs DEF Init, CatalogueInit
<1>2. Uploads = {} /\ "idle" \notin WindowPcs
  BY DEF Init, CatalogueInit, Uploads, WindowPcs
<1> QED BY <1>1, <1>2, InvInit DEF TrackInv, WindowFits, UploadTracksHead

\* Only one handler is in an undisturbed window after the step.
LEMMA StaysAlone ==
    ASSUME TrackInv, NEW r \in Requests, Others(r), disturbed \subseteq disturbed', EntersAlone(r),
           NEW s \in Requests, request'[s].pc \in WindowPcs, NEW v, v = request'[s].upload, v \notin disturbed'
    PROVE  /\ In(v)' = {s}
           /\ s # r => s \in In(v) /\ r \notin In(v)
<1>1. \A t \in Requests : t \in In(v)' <=> request'[t].upload = v /\ request'[t].pc \in WindowPcs
  BY DEF In
<1>2. \A t \in Requests : t \in In(v) <=> request[t].upload = v /\ request[t].pc \in WindowPcs
  BY DEF In
<1>3. \A t \in In(v) : In(v) = {t}
  BY <1>2 DEF TrackInv, WindowFits, In
<1>4. \A t \in Requests \ {r} : t \in In(v)' <=> t \in In(v)
  BY <1>1, <1>2 DEF Others
<1>5. r \in In(v)' => r \in In(v) \/ In(v) = {}
  BY <1>1 DEF EntersAlone
<1>6. s \in In(v)'
  BY <1>1
<1>7. In(v)' \subseteq Requests /\ In(v) \subseteq Requests
  BY DEF In
<1> QED BY <1>3, <1>4, <1>5, <1>6, <1>7

LEMMA TracksKeeps == ASSUME TrackInv, Inv', NEW r \in Requests, Tracks(r) PROVE TrackInv'
<1> USE DEF Tracks
<1>1. Inv /\ Others(r) /\ disturbed \subseteq disturbed'
  BY DEF TrackInv
<1>2. ASSUME NEW s \in Requests PROVE WindowFits(s)'
  <2>1. SUFFICES ASSUME request'[s].pc \in WindowPcs, request'[s].upload \notin disturbed'
                 PROVE  WindowFits(s)'
    BY DEF WindowFits
  <2>2. PICK v : v = request'[s].upload
    OBVIOUS
  <2>3. In(v)' = {s} /\ (s # r => s \in In(v) /\ r \notin In(v))
    BY <1>1, <2>1, <2>2, StaysAlone
  <2>4. CASE s = r
    BY <2>1, <2>2, <2>3, <2>4 DEF WindowFits, LeavesFitting
  <2>5. CASE s # r
    <3>1. request'[s] = request[s] /\ v \notin disturbed
      BY <1>1, <2>1, <2>2, <2>5 DEF Others
    <3>2. v \in Uploads
      BY <1>1, <2>1, <2>2, <3>1, WindowHasUpload
    <3>3. SizeStays(v)
      BY <2>3, <2>5, <3>2
    <3>4. /\ request[s].pc = "platforms" => request[s].copy.size = upload[v].row.size
          /\ request[s].pc \in {"complete", "advance"} => upload[v].row.size = request[s].build
      BY <2>1, <2>2, <3>1 DEF TrackInv, WindowFits
    <3> QED BY <2>2, <2>3, <3>1, <3>3, <3>4 DEF WindowFits, SizeStays
  <2> QED BY <2>4, <2>5
<1>3. UploadTracksHead'
  <2> SUFFICES ASSUME NEW v \in Uploads', v \notin disturbed',
                      \A s \in Requests : request'[s].upload = v => request'[s].pc \notin UnfinishedPcs
               PROVE  upload'[v].row.size = upload'[v].head
    BY DEF UploadTracksHead
  <2>1. CASE v \notin Uploads
    BY <2>1
  <2>2. CASE v \in Uploads
    <3>1. Follows(r, v)
      BY <2>2
    <3>2. ASSUME ~(request[r].upload = v /\ request[r].pc \in UnfinishedPcs), SizeStays(v), HeadStays(v)
          PROVE  upload'[v].row.size = upload'[v].head
      <4>1. \A s \in Requests : request[s].upload = v => request[s].pc \notin UnfinishedPcs
        BY <1>1, <3>2 DEF Others
      <4>2. upload[v].row.size = upload[v].head
        BY <1>1, <2>2, <4>1 DEF TrackInv, UploadTracksHead
      <4> QED BY <3>2, <4>2 DEF SizeStays, HeadStays
    <3> QED BY <3>1, <3>2 DEF Follows
  <2> QED BY <2>1, <2>2
<1> QED BY <1>2, <1>3 DEF TrackInv

-----------------------------------------------------------------------------
(* Every step keeps it *)

LEMMA KeepsRows ==
    ASSUME UNCHANGED upload PROVE Uploads' = Uploads /\ RowsKept /\ \A v \in Uploads : HeadStays(v)
BY DEF Uploads, RowsKept, HeadStays

\* Steps that write no row: a handler that has one in an unfinished state
\* goes on with it or leaves it disturbed.
LEMMA KeepsTrack ==
    ASSUME NEW r \in Requests, Others(r), disturbed \subseteq disturbed', UNCHANGED upload \/
               (Uploads' = Uploads /\ RowsKept /\ \A v \in Uploads : HeadStays(v)),
           EntersAlone(r), LeavesFitting(r),
           request[r].pc \in UnfinishedPcs =>
               \/ request'[r].pc \in UnfinishedPcs /\ request'[r].upload = request[r].upload
               \/ request[r].upload \in disturbed'
    PROVE  Tracks(r)
<1>1. Uploads' = Uploads /\ RowsKept /\ \A v \in Uploads : HeadStays(v)
  BY KeepsRows
<1>2. \A v \in Uploads : SizeStays(v)
  BY <1>1 DEF RowsKept, SizeStays
<1> QED BY <1>1, <1>2 DEF Tracks, Follows

LEMMA OutsideFits == ASSUME NEW r \in Requests, request'[r].pc \notin WindowPcs
                     PROVE  EntersAlone(r) /\ LeavesFitting(r)
BY DEF EntersAlone, LeavesFitting, WindowPcs

LEMMA EntersOrDisturbs ==
    ASSUME NEW r \in Requests, NEW u, request'[r].upload = u, Enter(u)
    PROVE  disturbed \subseteq disturbed' /\ EntersAlone(r)
BY DEF Enter, EntersAlone

LEMMA StaysInWindow ==
    ASSUME NEW r \in Requests, request[r].pc \in WindowPcs, request'[r].upload = request[r].upload
    PROVE  r \in In(request[r].upload) /\ EntersAlone(r)
BY DEF EntersAlone, In

LEMMA CreateBuildTracks ==
    ASSUME TrackInv, NEW r \in Requests, NEW k \in Keys, NEW target \in Targets,
           NEW channel \in Channels, CreateBuild(r, k, target, channel)
    PROVE  Tracks(r)
<1>1. Types
  BY DEF TrackInv, Inv
<1>2. request[r].pc = "idle" /\ UNCHANGED RowTables /\ Others(r) /\ request'[r].pc = "games"
  BY <1>1, CreateBuildDoes
<1>3. "games" \notin WindowPcs /\ "idle" \notin UnfinishedPcs /\ UNCHANGED <<upload, disturbed>>
  BY <1>2 DEF WindowPcs, UnfinishedPcs, CreateBuild
<1> QED BY <1>2, <1>3, OutsideFits, KeepsTrack

LEMMA CreateBuildGamesTracks ==
    ASSUME TrackInv, NEW r \in Requests, CreateBuildGames(r) PROVE Tracks(r)
<1>1. Types
  BY DEF TrackInv, Inv
<1>2. request[r].pc = "games" /\ Others(r) /\ request'[r].pc \in {"create_game", "uploads"}
  BY <1>1, CreateBuildGamesDoes DEF Moves
<1>3. /\ request'[r].pc \notin WindowPcs /\ request[r].pc \notin UnfinishedPcs
      /\ UNCHANGED <<upload, disturbed>>
  BY <1>2 DEF WindowPcs, UnfinishedPcs, CreateBuildGames
<1> QED BY <1>2, <1>3, OutsideFits, KeepsTrack

LEMMA CreateGameTracks == ASSUME TrackInv, NEW r \in Requests, CreateGame(r) PROVE Tracks(r)
<1>1. Types /\ PushFits(r) /\ request[r].pc = "create_game"
  BY DEF TrackInv, Inv, CreateGame
<1>2. request[r].target \in Targets
  BY <1>1 DEF PushFits, CreatePcs
<1>3. Others(r) /\ request'[r].pc = "uploads"
  BY <1>1, <1>2, CreateGameDoes DEF Moves
<1>4. /\ request'[r].pc \notin WindowPcs /\ request[r].pc \notin UnfinishedPcs
      /\ UNCHANGED <<upload, disturbed>>
  BY <1>1, <1>3 DEF WindowPcs, UnfinishedPcs, CreateGame
<1> QED BY <1>3, <1>4, OutsideFits, KeepsTrack

LEMMA CreateBuildUploadsTracks ==
    ASSUME TrackInv, NEW r \in Requests, CreateBuildUploads(r) PROVE Tracks(r)
<1>1. Types /\ request[r].pc = "uploads" /\ UNCHANGED upload
  BY DEF TrackInv, Inv, CreateBuildUploads
<1>2. Others(r) /\ request'[r].pc \in {"build", "platforms", "create_upload"}
  BY <1>1, CreateBuildUploadsDoes DEF Moves
<1>3. request[r].pc \notin UnfinishedPcs
  BY <1>1 DEF UnfinishedPcs
<1>4. CASE request'[r].pc # "platforms"
  <2>1. request'[r].pc \notin WindowPcs
    BY <1>2, <1>4 DEF WindowPcs
  <2>2. disturbed \subseteq disturbed'
    BY DEF CreateBuildUploads, Enter
  <2> QED BY <1>1, <1>2, <1>3, <2>1, <2>2, OutsideFits, KeepsTrack
<1>5. CASE request'[r].pc = "platforms"
  <2>1. PICK u \in Uploads :
            /\ request' = [request EXCEPT ![r].pc = "platforms", ![r].upload = u,
                                          ![r].copy = upload[u].row]
            /\ Enter(u)
    <3>1. ASSUME NEW u \in Uploads,
                 request' = [request EXCEPT ![r].pc = "build", ![r].upload = u]
          PROVE  FALSE
      BY <1>1, <1>5, <3>1 DEF Types, WideFrame
    <3>2. ~Goto(r, "create_upload")
      BY <1>1, <1>5 DEF Types, WideFrame, Goto
    <3> QED BY <3>1, <3>2 DEF CreateBuildUploads, UploadsOf
  <2>2. upload[u].row \in WideColumns /\ u \in Nat /\ "platforms" \in Pcs
    BY <1>1, IdsAre DEF WideUploadRow, Pcs, CreatePcs
  <2>3. request'[r].upload = u /\ request'[r].copy = upload[u].row
    <3>1. Moves(r, "platforms", request[r].game, u)
      BY <1>1, <2>1, <2>2, CopyMoves
    <3>2. request'[r].copy = upload[u].row
      BY <1>1, <2>1, <2>2, CopyRead
    <3> QED BY <3>1, <3>2 DEF Moves
  <2>4. LeavesFitting(r)
    BY <1>1, <1>5, <2>3 DEF LeavesFitting
  <2> QED BY <1>1, <1>2, <1>3, <2>1, <2>3, <2>4, EntersOrDisturbs, KeepsTrack
<1> QED BY <1>4, <1>5

LEMMA CreateUploadTracks == ASSUME TrackInv, NEW r \in Requests, CreateUpload(r) PROVE Tracks(r)
<1>1. Inv /\ Types /\ request[r].pc = "create_upload" /\ UNCHANGED disturbed
  BY DEF TrackInv, Inv, CreateUpload
<1> DEFINE u == Len(upload) + 1
           row == [game |-> request[r].game, channel |-> NoChannel, head |-> None, row |-> New]
<1>2. /\ UNCHANGED <<game, build>> /\ upload' = Append(upload, row)
      /\ Moves(r, "build", request[r].game, u)
  BY <1>1, CreateUploadDoes
<1>3. row \in WideUploadRow /\ row.head = None /\ row.row.size = None
  BY <1>1 DEF Types, WideFrame, WideUploadRow, WideColumns, New, None
<1> HIDE DEF row
<1>4. /\ \A v \in Uploads : v \in Uploads' /\ upload'[v] = upload[v]
      /\ \A v \in Uploads' : v \in Uploads \/ v = u
      /\ upload'[u] = row
  BY <1>1, <1>2, <1>3, AppendIs DEF Types, Uploads
<1> HIDE DEF u
<1>5. /\ Others(r) /\ request'[r].pc \notin WindowPcs /\ request[r].pc \notin UnfinishedPcs
  BY <1>1, <1>2 DEF WindowPcs, UnfinishedPcs, Moves
<1>6. \A v \in Uploads : SizeStays(v) /\ HeadStays(v)
  BY <1>4 DEF SizeStays, HeadStays
<1>7. \A v \in Uploads' \ Uploads : upload'[v].row.size = upload'[v].head
  BY <1>3, <1>4
<1> QED BY <1>1, <1>5, <1>6, <1>7, OutsideFits DEF Tracks, Follows

LEMMA CreateBuildInsertTracks ==
    ASSUME TrackInv, NEW r \in Requests, CreateBuildInsert(r) PROVE Tracks(r)
<1>1. Types /\ PushFits(r) /\ request[r].pc = "build"
  BY DEF TrackInv, Inv, CreateBuildInsert
<1>2. request[r].channel \in Channels
  BY <1>1 DEF PushFits, CreatePcs
<1>3. Others(r) /\ request'[r].pc \in {"channel", "idle"}
  BY <1>1, <1>2, CreateBuildInsertDoes DEF Moves, Leaves
<1>4. /\ request'[r].pc \notin WindowPcs /\ request[r].pc \notin UnfinishedPcs
      /\ UNCHANGED <<upload, disturbed>>
  BY <1>1, <1>3 DEF WindowPcs, UnfinishedPcs, CreateBuildInsert
<1> QED BY <1>3, <1>4, OutsideFits, KeepsTrack

LEMMA CreateBuildChannelTracks ==
    ASSUME TrackInv, NEW r \in Requests, CreateBuildChannel(r) PROVE Tracks(r)
<1>1. Types /\ PushFits(r) /\ request[r].pc = "channel"
  BY DEF TrackInv, Inv, CreateBuildChannel
<1>2. request[r].channel \in Channels /\ request[r].upload \in Uploads
  BY <1>1 DEF PushFits, CreatePcs, HasUpload
<1>3. Leaves(r) /\ ChannelInserted(request[r].upload, request[r].channel)
  BY <1>1, <1>2, CreateBuildChannelDoes
<1>4. Uploads' = Uploads /\ RowsKept /\ \A v \in Uploads : HeadStays(v)
  BY <1>1, <1>2, <1>3, ChannelKeepsRows DEF CreateBuildChannel, ChannelInserted, HeadStays
<1>5. /\ request'[r].pc \notin WindowPcs /\ request[r].pc \notin UnfinishedPcs
      /\ UNCHANGED disturbed /\ Others(r)
  BY <1>1, <1>3 DEF WindowPcs, UnfinishedPcs, CreateBuildChannel, Leaves
<1> QED BY <1>4, <1>5, OutsideFits, KeepsTrack

LEMMA SettlingTracks ==
    ASSUME TrackInv, NEW r \in Requests, NEW b \in Builds, Claim(r, b) \/ Check(r, b) PROVE Tracks(r)
<1>1. Types
  BY DEF TrackInv, Inv
<1>2. Takes(r, b, "generate") \/ Takes(r, b, "size")
  BY <1>1, ClaimDoes, CheckDoes
<1>3. /\ Others(r) /\ request'[r].pc \notin WindowPcs /\ request[r].pc \notin UnfinishedPcs
      /\ UNCHANGED <<upload, disturbed>>
  BY <1>2 DEF Takes, WindowPcs, UnfinishedPcs, Claim, Check, Settling
<1> QED BY <1>3, OutsideFits, KeepsTrack

LEMMA GenerateTracks == ASSUME TrackInv, NEW r \in Requests, Generate(r) PROVE Tracks(r)
<1>1. Types /\ request[r].pc = "generate" /\ UNCHANGED upload
  BY DEF TrackInv, Inv, Generate
<1>2. request[r].upload \in Uploads
  BY <1>1, SettleHasUpload DEF TrackInv, SettlePcs
<1>3. PICK pc \in {"record", "write_metadata"} : Moves(r, pc, request[r].game, request[r].upload)
  BY <1>1, <1>2, GenerateDoes
<1>4. /\ Others(r) /\ request'[r].pc = pc /\ request[r].pc \notin UnfinishedPcs
      /\ request'[r].upload = request[r].upload
  BY <1>1, <1>3 DEF Moves, UnfinishedPcs
<1>5. \/ UNCHANGED disturbed /\ pc = "record"
      \/ Enter(request[r].upload)
  <2>1. "record" \in Pcs /\ "write_metadata" \in Pcs
    BY DEF Pcs, SettlePcs
  <2>2. Goto(r, "record") => request'[r].pc = "record"
    BY <1>1, <2>1, GotoMoves DEF Moves
  <2> QED BY <1>4, <2>2 DEF Generate
<1>6. disturbed \subseteq disturbed' /\ EntersAlone(r)
  BY <1>4, <1>5, EntersOrDisturbs, OutsideFits DEF WindowPcs
<1>7. LeavesFitting(r)
  BY <1>4 DEF LeavesFitting
<1> QED BY <1>1, <1>4, <1>6, <1>7, KeepsTrack

LEMMA RecordArchiveTracks == ASSUME TrackInv, NEW r \in Requests, RecordArchive(r) PROVE Tracks(r)
<1>1. Types /\ request[r].pc = "record" /\ UNCHANGED <<upload, disturbed>>
  BY DEF TrackInv, Inv, RecordArchive
<1>2. Others(r) /\ request'[r].pc = "size" /\ request'[r].upload = request[r].upload
  BY <1>1, RecordArchiveDoes DEF Moves
<1>3. request'[r].pc \notin WindowPcs /\ request'[r].pc \in UnfinishedPcs
  BY <1>2 DEF WindowPcs, UnfinishedPcs
<1> QED BY <1>1, <1>2, <1>3, OutsideFits, KeepsTrack

LEMMA ReadSizeTracks == ASSUME TrackInv, NEW r \in Requests, ReadSize(r) PROVE Tracks(r)
<1>1. Types /\ request[r].pc = "size" /\ UNCHANGED upload /\ Enter(request[r].upload)
  BY DEF TrackInv, Inv, ReadSize
<1>2. request[r].upload \in Uploads
  BY <1>1, SettleHasUpload DEF TrackInv, SettlePcs
<1>3. PICK pc \in {"complete", "write_size"} : Moves(r, pc, request[r].game, request[r].upload)
  BY <1>1, <1>2, ReadSizeDoes
<1>4. /\ Others(r) /\ request'[r].pc = pc /\ pc \in UnfinishedPcs
      /\ request'[r].upload = request[r].upload /\ request'[r].build = request[r].build
  BY <1>3 DEF Moves, UnfinishedPcs
<1>5. pc = "complete" => Current(r).size = request[r].build
  <2>1. Current(r) \in WideColumns /\ "write_size" \in Pcs
    BY <1>1, <1>2, CurrentIs DEF Pcs, SettlePcs
  <2>2. ASSUME request' = [request EXCEPT ![r].pc = "write_size", ![r].copy = Current(r)]
        PROVE  pc # "complete"
    <3>1. Moves(r, "write_size", request[r].game, request[r].upload)
      BY <1>1, <2>1, <2>2, ReadMoves
    <3> QED BY <1>4, <3>1 DEF Moves
  <2> QED BY <2>2 DEF ReadSize
<1>6. LeavesFitting(r)
  BY <1>1, <1>4, <1>5 DEF LeavesFitting, Current
<1> QED BY <1>1, <1>4, <1>6, EntersOrDisturbs, KeepsTrack

LEMMA CompleteTracks == ASSUME TrackInv, NEW r \in Requests, Complete(r) PROVE Tracks(r)
<1>1. Types /\ request[r].pc = "complete" /\ UNCHANGED <<upload, disturbed>>
  BY DEF TrackInv, Inv, Complete
<1>2. /\ Others(r) /\ request'[r].pc = "advance" /\ request'[r].upload = request[r].upload
      /\ request'[r].build = request[r].build
  BY <1>1, CompleteDoes DEF Moves
<1>3. request[r].pc \in WindowPcs /\ request'[r].pc \in UnfinishedPcs
  BY <1>1, <1>2 DEF WindowPcs, UnfinishedPcs
<1>4. LeavesFitting(r)
  BY <1>1, <1>2, <1>3 DEF LeavesFitting, TrackInv, WindowFits
<1> QED BY <1>1, <1>2, <1>3, <1>4, StaysInWindow, KeepsTrack

LEMMA AbandonTracks == ASSUME TrackInv, NEW r \in Requests, Abandon(r) PROVE Tracks(r)
<1>1. Types /\ UNCHANGED upload
  BY DEF TrackInv, Inv, Abandon
<1>2. Others(r) /\ request'[r].pc \notin WindowPcs
  BY <1>1, AbandonDoes DEF Leaves, WindowPcs
<1>3. /\ disturbed \subseteq disturbed'
      /\ request[r].pc \in UnfinishedPcs => request[r].upload \in disturbed'
  BY DEF Abandon
<1> QED BY <1>1, <1>2, <1>3, OutsideFits, KeepsTrack

LEMMA AdvanceHeadTracks == ASSUME TrackInv, NEW r \in Requests, AdvanceHead(r) PROVE Tracks(r)
<1> DEFINE u == request[r].upload
           b == request[r].build
<1>1. Types /\ request[r].pc = "advance"
  BY DEF TrackInv, Inv, AdvanceHead
<1>2. u \in Uploads /\ b \in Nat
  BY <1>1, SettleHasUpload DEF TrackInv, SettlePcs, Types, WideFrame
<1>3. /\ Others(r) /\ request'[r].pc \notin WindowPcs
      /\ disturbed \subseteq disturbed'
  BY <1>1, AdvanceHeadDoes DEF Leaves, WindowPcs, AdvanceHead
<1>4. CASE UNCHANGED upload /\ u \in disturbed'
  BY <1>3, <1>4, OutsideFits, KeepsTrack
<1>5. CASE upload' = [upload EXCEPT ![u].head = b] /\ UNCHANGED disturbed
  <2>1. HeadSet(u, b) /\ RowsKept
    BY <1>1, <1>2, <1>5, HeadIsSet, HeadKeepsRows
  <2>2. u \notin disturbed => upload[u].row.size = b
    BY <1>1 DEF TrackInv, WindowFits, WindowPcs
  <2>3. Uploads' = Uploads /\ \A v \in Uploads : SizeStays(v)
    BY <2>1 DEF HeadSet, RowsKept, SizeStays
  <2>4. u \notin disturbed => upload'[u].row.size = upload'[u].head
    BY <1>2, <2>1, <2>2, <2>3 DEF HeadSet, SizeStays
  <2>5. \A v \in Uploads \ disturbed' : Follows(r, v)
    BY <1>5, <2>1, <2>3, <2>4 DEF Follows, HeadSet, HeadStays
  <2> QED BY <1>3, <2>3, <2>5, OutsideFits DEF Tracks
<1> QED BY <1>4, <1>5 DEF AdvanceHead

\* The three writes of a row that was read before.
LEMMA WriteTracks ==
    ASSUME TrackInv, NEW r \in Requests, request[r].pc \in WindowPcs, Others(r), UNCHANGED disturbed,
           NEW columns \in WideColumns, UpdateUpload(request[r].upload, columns),
           request'[r].upload = request[r].upload, LeavesFitting(r),
           \/ request'[r].pc \in UnfinishedPcs
           \/ /\ request[r].pc \notin UnfinishedPcs
              /\ request[r].upload \notin disturbed => columns.size = upload[request[r].upload].row.size
    PROVE  Tracks(r)
<1> DEFINE u == request[r].upload
<1>1. Inv /\ Types /\ u \in Uploads
  BY WindowHasUpload DEF TrackInv, Inv
<1>2. RowsRewritten
  BY <1>1, UpdateUploadRewrites
<1>3. upload'[u].row = columns /\ \A v \in Uploads \ {u} : SizeStays(v)
  BY <1>1, RowIsWritten DEF SizeStays
<1>4. Uploads' = Uploads /\ \A v \in Uploads : HeadStays(v)
  BY <1>2 DEF RowsRewritten, HeadStays
<1>5. r \in In(u) /\ EntersAlone(r)
  BY StaysInWindow
<1>6. ASSUME NEW v \in Uploads \ disturbed' PROVE Follows(r, v)
  <2>1. CASE v # u
    BY <1>3, <1>4, <1>6, <2>1 DEF Follows
  <2>2. CASE v = u /\ request'[r].pc \in UnfinishedPcs
    BY <2>2 DEF Follows
  <2>3. CASE v = u /\ request[r].pc \notin UnfinishedPcs /\ columns.size = upload[u].row.size
    BY <1>3, <1>4, <2>3 DEF Follows, SizeStays
  <2> QED BY <1>6, <2>1, <2>2, <2>3
<1> QED BY <1>3, <1>4, <1>5, <1>6 DEF Tracks

LEMMA CreateBuildPlatformsTracks ==
    ASSUME TrackInv, NEW r \in Requests, CreateBuildPlatforms(r) PROVE Tracks(r)
<1> DEFINE columns == [request[r].copy EXCEPT !.platforms = "channel"]
<1>1. Types /\ request[r].pc = "platforms" /\ UNCHANGED disturbed
  BY DEF TrackInv, Inv, CreateBuildPlatforms
<1>2. Others(r) /\ request'[r].pc = "build" /\ request'[r].upload = request[r].upload
  BY <1>1, CreateBuildPlatformsDoes DEF Moves
<1>3. columns \in WideColumns /\ columns.size = request[r].copy.size
  BY <1>1 DEF Types, WideFrame, WideColumns
<1>4. /\ request[r].pc \in WindowPcs /\ request[r].pc \notin UnfinishedPcs
      /\ request'[r].pc \notin WindowPcs
  BY <1>1, <1>2 DEF WindowPcs, UnfinishedPcs
<1>5. request[r].upload \notin disturbed => columns.size = upload[request[r].upload].row.size
  BY <1>1, <1>3, <1>4 DEF TrackInv, WindowFits
<1>6. UpdateUpload(request[r].upload, columns)
  BY DEF CreateBuildPlatforms
<1> HIDE DEF columns
<1> QED BY <1>1, <1>2, <1>3, <1>4, <1>5, <1>6, OutsideFits, WriteTracks

LEMMA WriteMetadataTracks == ASSUME TrackInv, NEW r \in Requests, WriteMetadata(r) PROVE Tracks(r)
<1>1. Types /\ request[r].pc = "write_metadata" /\ UNCHANGED disturbed
  BY DEF TrackInv, Inv, WriteMetadata
<1>2. Others(r) /\ request'[r].pc = "record" /\ request'[r].upload = request[r].upload
  BY <1>1, WriteMetadataDoes DEF Moves
<1>3. PICK p \in {request[r].copy.platforms, "archive"} :
          UpdateUpload(request[r].upload, [size |-> request[r].build, platforms |-> p])
  BY DEF WriteMetadata
<1>4. [size |-> request[r].build, platforms |-> p] \in WideColumns
  BY <1>1 DEF Types, WideFrame, WideColumns
<1>5. /\ request[r].pc \in WindowPcs /\ request'[r].pc \in UnfinishedPcs
      /\ request'[r].pc \notin WindowPcs
  BY <1>1, <1>2 DEF WindowPcs, UnfinishedPcs
<1> QED BY <1>1, <1>2, <1>3, <1>4, <1>5, OutsideFits, WriteTracks

LEMMA WriteSizeTracks == ASSUME TrackInv, NEW r \in Requests, WriteSize(r) PROVE Tracks(r)
<1> DEFINE columns == [request[r].copy EXCEPT !.size = request[r].build]
<1>1. Inv /\ Types /\ request[r].pc = "write_size" /\ UNCHANGED disturbed
  BY DEF TrackInv, Inv, WriteSize
<1>2. /\ Others(r) /\ request'[r].pc = "complete" /\ request'[r].upload = request[r].upload
      /\ request'[r].build = request[r].build
  BY <1>1, WriteSizeDoes DEF Moves
<1>3. columns \in WideColumns /\ columns.size = request[r].build
  BY <1>1 DEF Types, WideFrame, WideColumns
<1>4. request[r].pc \in WindowPcs /\ request'[r].pc \in UnfinishedPcs
  BY <1>1, <1>2 DEF WindowPcs, UnfinishedPcs
<1>5. UpdateUpload(request[r].upload, columns) /\ request[r].upload \in Uploads
  BY <1>1, <1>4, WindowHasUpload DEF WriteSize
<1> HIDE DEF columns
<1>6. LeavesFitting(r)
  <2>1. upload'[request[r].upload].row = columns
    BY <1>1, <1>3, <1>5, RowIsWritten
  <2> QED BY <1>2, <1>3, <2>1 DEF LeavesFitting
<1> QED BY <1>1, <1>2, <1>3, <1>4, <1>5, <1>6, WriteTracks

LEMMA AccountsTrack == ASSUME TrackInv, Inv', UNCHANGED catalogueVars PROVE TrackInv'
BY DEF catalogueVars, TrackInv, WindowFits, In, UploadTracksHead, Uploads

LEMMA TrackStep == TrackInv /\ [Next]_vars => TrackInv'
<1> SUFFICES ASSUME TrackInv, [Next]_vars PROVE TrackInv'
  OBVIOUS
<1>1. Inv'
  BY InvStep DEF TrackInv
<1>2. CASE CommandNext
  BY <1>1, <1>2, AccountsTrack DEF CommandNext
<1>3. ASSUME NEW r \in Requests, Handle(r) PROVE Tracks(r)
  BY <1>3, CreateBuildGamesTracks, CreateGameTracks, CreateBuildUploadsTracks,
     CreateBuildPlatformsTracks, CreateUploadTracks, CreateBuildInsertTracks,
     CreateBuildChannelTracks, GenerateTracks, WriteMetadataTracks, RecordArchiveTracks,
     ReadSizeTracks, WriteSizeTracks, CompleteTracks, AdvanceHeadTracks DEF Handle
<1>4. CASE RequestNext
  BY <1>1, <1>3, <1>4, TracksKeeps, CreateBuildTracks, SettlingTracks, AbandonTracks DEF RequestNext
<1>5. CASE UNCHANGED vars
  BY <1>1, <1>5, AccountsTrack DEF vars
<1> QED BY <1>2, <1>4, <1>5 DEF Next

\* updateUploadSizeFromArchive, updateUploadFromArchiveMetadata and CreateBuild
\* read the upload's row, change a column and write the whole row back: its
\* size is still that of the head's archive whenever no completion is under
\* way, unless two of them had the row in hand or one gave up half-way.
THEOREM SizeTracksHead == Spec => []UploadTracksHead
<1>1. Spec => []TrackInv
  BY TrackInit, TrackStep, PTL DEF Spec
<1>2. TrackInv => UploadTracksHead
  BY DEF TrackInv
<1> QED BY <1>1, <1>2, PTL

-----------------------------------------------------------------------------
(* Types with their bounds: the numbers and the ghosts *)

NumbersInv ==
    /\ commands \in 0 .. MaxCommands /\ pushes \in 0 .. MaxPushes /\ faults \in 0 .. MaxFaults
    /\ crowded \subseteq Targets /\ disturbed \subseteq Uploads

LEMMA WithinIs ==
    ASSUME NEW c \in Nat, NEW p \in Nat, NEW f \in Nat, Within(c, p, f)
    PROVE  c \in 0 .. MaxCommands /\ p \in 0 .. MaxPushes /\ f \in 0 .. MaxFaults
<1>1. PICK most \in Budgets : c <= most[1] /\ p <= most[2] /\ f <= most[3]
  BY DEF Within
<1>2. most \in (0 .. MaxCommands) \X (0 .. MaxPushes) \X (0 .. MaxFaults)
  BY <1>1, BudgetsAssumption
<1>3. MaxCommands \in Nat /\ MaxPushes \in Nat /\ MaxFaults \in Nat
  BY CommandsAssumption, PushesAssumption
<1>4. most[1] \in 0 .. MaxCommands /\ most[2] \in 0 .. MaxPushes /\ most[3] \in 0 .. MaxFaults
  BY <1>2
<1> QED BY <1>1, <1>3, <1>4

LEMMA NumbersInit == Init => NumbersInv
BY CommandsAssumption, PushesAssumption DEF Init, AccountsInit, CatalogueInit, NumbersInv

LEMMA NumbersAre == ASSUME NumbersInv PROVE commands \in Nat /\ pushes \in Nat /\ faults \in Nat
BY CommandsAssumption, PushesAssumption DEF NumbersInv

LEMMA FaultIsWithin == ASSUME NumbersInv, Fault PROVE faults' \in 0 .. MaxFaults
<1>1. faults + 1 \in Nat
  BY NumbersAre
<1> QED BY <1>1, NumbersAre, WithinIs DEF Fault

\* Rows are only added.
Grows == Games \subseteq Games' /\ Uploads \subseteq Uploads' /\ Builds \subseteq Builds'

LEMMA TablesGrow == ASSUME Inv, NEW r \in Requests, Handle(r) PROVE Grows
<1>1. Types /\ PushFits(r)
  BY DEF Inv
<1>2. request[r].pc \in CreatePcs => request[r].target \in Targets /\ request[r].channel \in Channels
  BY <1>1 DEF PushFits
<1>3. UNCHANGED RowTables => Grows
  BY DEF RowTables, Grows, Games, Uploads, Builds
<1>4. \A b \in Builds : \A state : StateSet(b, state) /\ UNCHANGED <<game, upload>> => Grows
  BY DEF StateSet, Grows, Games, Uploads
<1>5. RowsRewritten /\ UNCHANGED <<game, build>> => Grows
  BY DEF RowsRewritten, Grows, Games, Builds
<1>6. CASE CreateGame(r)
  <2>1. request[r].pc \in CreatePcs
    BY <1>6 DEF CreateGame, CreatePcs
  <2> QED BY <1>1, <1>2, <1>6, <2>1, CreateGameDoes, AppendIs DEF Types, Grows, Games, Uploads, Builds
<1>7. CASE CreateUpload(r)
  <2> DEFINE row == [game |-> request[r].game, channel |-> NoChannel, head |-> None, row |-> New]
  <2>1. row \in WideUploadRow
    BY <1>1 DEF Types, WideFrame, WideUploadRow, WideColumns, New, None
  <2>2. upload' = Append(upload, row) /\ UNCHANGED <<game, build>>
    BY <1>7 DEF CreateUpload
  <2> HIDE DEF row
  <2> QED BY <1>1, <2>1, <2>2, AppendIs DEF Types, Grows, Games, Uploads, Builds
<1>8. CASE CreateBuildInsert(r)
  <2> DEFINE row == [upload |-> request[r].upload, channel |-> request[r].channel, state |-> "started"]
  <2>1. request[r].pc \in CreatePcs
    BY <1>8 DEF CreateBuildInsert, CreatePcs
  <2>2. row \in WideBuildRow
    BY <1>1, <1>2, <2>1 DEF Types, WideFrame, WideBuildRow
  <2>3. build' = Append(build, row) /\ UNCHANGED <<game, upload>>
    BY <1>8 DEF CreateBuildInsert
  <2> HIDE DEF row
  <2> QED BY <1>1, <2>2, <2>3, AppendIs DEF Types, Grows, Games, Uploads, Builds
<1>9. CASE CreateBuildChannel(r)
  <2>1. request[r].pc \in CreatePcs
    BY <1>9 DEF CreateBuildChannel, CreatePcs
  <2> QED BY <1>1, <1>2, <1>9, <2>1, CreateBuildChannelDoes DEF ChannelInserted, Grows, Games, Builds
<1>10. CASE AdvanceHead(r)
  BY <1>1, <1>10, AdvanceHeadDoes DEF HeadSet, Grows, Games, Uploads, Builds
<1>11. CASE RecordArchive(r) \/ Complete(r)
  <2>1. request[r].build \in Builds
    BY <1>11, SettleHasUpload DEF RecordArchive, Complete, SettlePcs
  <2> QED BY <1>1, <1>4, <1>11, <2>1, RecordArchiveDoes, CompleteDoes
<1>12. CASE CreateBuildPlatforms(r) \/ WriteMetadata(r) \/ WriteSize(r)
  BY <1>1, <1>5, <1>12, CreateBuildPlatformsDoes, WriteMetadataDoes, WriteSizeDoes
<1>13. CASE CreateBuildGames(r) \/ CreateBuildUploads(r) \/ Generate(r) \/ ReadSize(r)
  BY <1>3, <1>13 DEF CreateBuildGames, CreateBuildUploads, Generate, ReadSize, RowTables
<1> QED BY <1>6, <1>7, <1>8, <1>9, <1>10, <1>11, <1>12, <1>13 DEF Handle

LEMMA HandleKeepsNumbers ==
    ASSUME NumbersInv, Inv, NEW r \in Requests, Handle(r) PROVE NumbersInv'
<1>1. Types /\ UNCHANGED <<commands, pushes>>
  <2>1. UNCHANGED <<accountVars, pushes>>
    BY DEF Handle, CreateBuildGames, CreateGame, CreateBuildUploads, CreateBuildPlatforms,
           CreateUpload, CreateBuildInsert, CreateBuildChannel, Generate, WriteMetadata,
           RecordArchive, ReadSize, WriteSize, Complete, AdvanceHead
  <2> QED BY <2>1 DEF accountVars, Inv
<1>2. Uploads \subseteq Uploads'
  BY TablesGrow DEF Grows
<1>3. CASE UNCHANGED <<faults, crowded, disturbed>>
  BY <1>1, <1>2, <1>3 DEF NumbersInv
<1>4. CASE CreateBuildUploads(r)
  <2>1. UNCHANGED upload /\ request[r].pc = "uploads"
    BY <1>4 DEF CreateBuildUploads
  <2>2. request[r].target \in Targets
    BY <2>1 DEF Inv, PushFits, CreatePcs
  <2>3. disturbed' \subseteq disturbed \cup Uploads
    BY <1>4 DEF CreateBuildUploads, Enter, UploadsOf
  <2>4. /\ UNCHANGED faults \/ Fault
        /\ crowded' \subseteq crowded \cup {request[r].target}
    BY <1>4 DEF CreateBuildUploads
  <2>5. disturbed' \subseteq Uploads'
    BY <1>2, <2>3 DEF NumbersInv
  <2> QED BY <1>1, <2>2, <2>4, <2>5, FaultIsWithin DEF NumbersInv
<1>5. CASE Generate(r) \/ ReadSize(r) \/ AdvanceHead(r)
  <2>1. UNCHANGED <<faults, crowded>> /\ disturbed' \subseteq disturbed \cup {request[r].upload}
    BY <1>5 DEF Generate, ReadSize, AdvanceHead, Enter
  <2>2. request[r].pc \in SettlePcs
    BY <1>5 DEF Generate, ReadSize, AdvanceHead, SettlePcs
  <2>3. request[r].upload \in Uploads
    BY <2>2, SettleHasUpload
  <2>4. disturbed' \subseteq Uploads'
    BY <1>2, <2>1, <2>3 DEF NumbersInv
  <2> QED BY <1>1, <2>1, <2>4 DEF NumbersInv
<1> QED BY <1>3, <1>4, <1>5
        DEF Handle, CreateBuildGames, CreateGame, CreateBuildPlatforms, CreateUpload, CreateBuildInsert,
            CreateBuildChannel, WriteMetadata, RecordArchive, WriteSize, Complete

LEMMA NumbersStep == NumbersInv /\ Inv /\ [Next]_vars => NumbersInv'
<1> SUFFICES ASSUME NumbersInv, Inv, [Next]_vars PROVE NumbersInv'
  OBVIOUS
<1>1. commands \in Nat /\ pushes \in Nat /\ faults \in Nat
  BY NumbersAre
<1>2. ASSUME UNCHANGED catalogueVars, commands' \in 0 .. MaxCommands PROVE NumbersInv'
  BY <1>2 DEF catalogueVars, NumbersInv, Uploads
<1>3. CASE CommandNext
  <2>1. ASSUME NEW c \in Commands, NEW o \in Orders, Start(c, o), Within(commands + 1, pushes, faults)
        PROVE  commands' \in 0 .. MaxCommands
    <3>1. commands + 1 \in Nat /\ commands' = commands + 1
      BY <1>1, <2>1 DEF Start
    <3> QED BY <1>1, <2>1, <3>1, WithinIs
  <2>2. ASSUME NEW c \in Commands, LookupAnswers(c) \/ Lookup(c) \/ Write(c) \/ Exit(c)
        PROVE  commands' = commands
    BY <2>2 DEF LookupAnswers, Lookup, Write, Exit
  <2>3. UNCHANGED catalogueVars /\ commands' \in 0 .. MaxCommands
    BY <1>3, <2>1, <2>2 DEF CommandNext, NumbersInv
  <2> QED BY <1>2, <2>3
<1>4. ASSUME NEW r \in Requests, NEW k \in Keys, NEW target \in Targets, NEW channel \in Channels,
             CreateBuild(r, k, target, channel)
      PROVE  NumbersInv'
  <2>1. pushes + 1 \in 0 .. MaxPushes
    <3>1. pushes + 1 \in Nat /\ Within(commands, pushes + 1, faults)
      BY <1>1, <1>4 DEF CreateBuild
    <3> QED BY <1>1, <3>1, WithinIs
  <2>2. /\ UNCHANGED <<commands, faults, disturbed, upload>> /\ pushes' = pushes + 1
        /\ crowded' \subseteq crowded \cup {target}
    BY <1>4 DEF CreateBuild, accountVars
  <2> QED BY <2>1, <2>2 DEF NumbersInv, Uploads
<1>5. ASSUME NEW r \in Requests, NEW b \in Builds, Claim(r, b) \/ Check(r, b) PROVE NumbersInv'
  BY <1>5 DEF Claim, Check, Settling, accountVars, NumbersInv, Uploads
<1>6. ASSUME NEW r \in Requests, Abandon(r) PROVE NumbersInv'
  <2>1. UNCHANGED <<commands, upload, pushes, crowded>> /\ faults' \in 0 .. MaxFaults
    BY <1>6, FaultIsWithin DEF Abandon, accountVars
  <2>2. request[r].pc \in UnfinishedPcs => request[r].upload \in Uploads
    BY SettleHasUpload DEF UnfinishedPcs, SettlePcs
  <2>3. disturbed' \subseteq Uploads
    BY <1>6, <2>2 DEF Abandon, NumbersInv
  <2> QED BY <2>1, <2>3 DEF NumbersInv, Uploads
<1>7. CASE RequestNext
  BY <1>4, <1>5, <1>6, <1>7, HandleKeepsNumbers DEF RequestNext
<1>8. CASE UNCHANGED vars
  BY <1>2, <1>8 DEF vars, accountVars, NumbersInv
<1> QED BY <1>3, <1>7, <1>8 DEF Next

-----------------------------------------------------------------------------
(* Every id that a frame or a row holds was handed out *)

MaybeGame == Games \cup {None}
MaybeUpload == Uploads \cup {None}
MaybeBuild == Builds \cup {None}

FrameRefers(r) ==
    LET f == request[r] IN
    /\ f.game \in MaybeGame /\ f.upload \in MaybeUpload
    /\ f.build \in MaybeBuild /\ f.copy.size \in MaybeBuild

RefsInv ==
    /\ \A r \in Requests : FrameRefers(r)
    /\ \A u \in Uploads : upload[u].row.size \in MaybeBuild

LEMMA RefsInit == Init => RefsInv
<1> SUFFICES ASSUME Init PROVE RefsInv
  OBVIOUS
<1>1. /\ \A r \in Requests : request[r] = Idle
      /\ upload = <<>>
  BY DEF Init, CatalogueInit
<1>2. Idle.game = None /\ Idle.upload = None /\ Idle.build = None /\ Idle.copy.size = None
  BY DEF Idle, New
<1> HIDE DEF Idle
<1> QED BY <1>1, <1>2 DEF RefsInv, FrameRefers, MaybeGame, MaybeUpload, MaybeBuild, Uploads

LEMMA IdleRefers == ASSUME NEW r, request'[r] = Idle PROVE FrameRefers(r)'
BY DEF Idle, New, FrameRefers, MaybeGame, MaybeUpload, MaybeBuild

LEMMA MovesRefers ==
    ASSUME Grows, NEW r \in Requests, FrameRefers(r), NEW pc, NEW g \in MaybeGame', NEW u \in MaybeUpload',
           Moves(r, pc, g, u), request'[r].copy.size \in MaybeBuild
    PROVE  FrameRefers(r)'
BY DEF FrameRefers, Moves, Grows, MaybeGame, MaybeUpload, MaybeBuild

\* The columns that a handler holds come from a row or are new.
LEMMA HandleCopies ==
    ASSUME Inv, RefsInv, NEW r \in Requests, Handle(r)
    PROVE  request'[r].copy.size \in MaybeBuild
<1>1. Types /\ FrameRefers(r) /\ request[r].copy.size \in MaybeBuild
  BY DEF Inv, RefsInv, FrameRefers
<1>2. New.size \in MaybeBuild /\ Idle.copy = New /\ New \in WideColumns
  BY DEF New, Idle, MaybeBuild, WideColumns, None
<1>3. /\ {"create_game", "uploads", "build", "platforms", "create_upload", "channel"} \subseteq Pcs
      /\ {"record", "write_metadata", "size", "write_size", "complete", "advance"} \subseteq Pcs
  BY DEF Pcs, CreatePcs, SettlePcs
<1>4. request[r].game \in Nat /\ request[r].upload \in Nat
  BY <1>1 DEF Types, WideFrame
<1>5. ASSUME NEW pc \in Pcs, Goto(r, pc) PROVE request'[r].copy.size \in MaybeBuild
  BY <1>1, <1>4, <1>5, CopyKept DEF Goto
<1>6. ASSUME Return(r) PROVE request'[r].copy.size \in MaybeBuild
  BY <1>1, <1>2, <1>6, ReturnsIdle
<1>7. ASSUME NEW pc \in Pcs, Forget(r, pc) PROVE request'[r].copy.size \in MaybeBuild
  BY <1>1, <1>2, <1>4, <1>7, CopyRead DEF Forget
<1>8. ASSUME NEW v \in Uploads PROVE upload[v].row \in WideColumns /\ upload[v].row.size \in MaybeBuild
  BY <1>1, IdsAre DEF RefsInv, WideUploadRow
<1>9. CASE CreateBuildGames(r)
  <2>1. \A g \in GamesOf(request[r].target) : g \in Nat
    BY <1>1, IdsAre DEF GamesOf
  <2> QED BY <1>1, <1>3, <1>4, <1>5, <1>9, <2>1, CopyKept DEF CreateBuildGames
<1>10. CASE CreateGame(r)
  <2>1. Len(game) + 1 \in Nat
    BY <1>1 DEF Types
  <2> QED BY <1>1, <1>3, <1>4, <1>10, <2>1, CopyKept DEF CreateGame
<1>11. CASE CreateBuildUploads(r)
  <2>1. \A u \in UploadsOf(request[r].game, request[r].channel) : u \in Nat /\ u \in Uploads
    BY <1>1, IdsAre DEF UploadsOf
  <2>2. CASE Goto(r, "create_upload")
    BY <1>3, <1>5, <2>2
  <2>3. ASSUME NEW u \in Uploads, u \in Nat,
               \/ request' = [request EXCEPT ![r].pc = "build", ![r].upload = u]
               \/ request' = [request EXCEPT ![r].pc = "platforms", ![r].upload = u,
                                             ![r].copy = upload[u].row]
        PROVE  request'[r].copy.size \in MaybeBuild
    <3>1. "build" \in Pcs /\ "platforms" \in Pcs
      BY <1>3
    <3>2. CASE request' = [request EXCEPT ![r].pc = "build", ![r].upload = u]
      BY <1>1, <1>4, <2>3, <3>1, <3>2, CopyKept
    <3>3. CASE request' = [request EXCEPT ![r].pc = "platforms", ![r].upload = u,
                                          ![r].copy = upload[u].row]
      BY <1>1, <1>8, <2>3, <3>1, <3>3, CopyRead
    <3> QED BY <2>3, <3>2, <3>3
  <2> QED BY <1>11, <2>1, <2>2, <2>3 DEF CreateBuildUploads
<1>12. CASE CreateUpload(r)
  <2>1. Len(upload) + 1 \in Nat
    BY <1>1 DEF Types
  <2> QED BY <1>1, <1>3, <1>4, <1>12, <2>1, CopyKept DEF CreateUpload
<1>13. ASSUME Generate(r) \/ ReadSize(r) PROVE request'[r].copy.size \in MaybeBuild
  <2>1. request[r].pc \in SettlePcs
    BY <1>13 DEF Generate, ReadSize, SettlePcs
  <2>2. Current(r) \in WideColumns /\ Current(r).size \in MaybeBuild
    BY <1>8, <2>1, SettleHasUpload DEF Current
  <2>3. \/ \E pc \in {"record", "complete"} : Goto(r, pc)
        \/ \E pc \in {"write_metadata", "write_size"} :
              request' = [request EXCEPT ![r].pc = pc, ![r].copy = Current(r)]
    BY <1>13 DEF Generate, ReadSize
  <2>4. ASSUME NEW pc \in Pcs, request' = [request EXCEPT ![r].pc = pc, ![r].copy = Current(r)]
        PROVE  request'[r].copy.size \in MaybeBuild
    BY <1>1, <1>4, <2>2, <2>4, CopyRead
  <2> QED BY <1>3, <1>5, <2>3, <2>4
<1>14. CASE CreateBuildInsert(r) \/ CreateBuildChannel(r) \/ AdvanceHead(r)
  BY <1>3, <1>5, <1>6, <1>14 DEF CreateBuildInsert, CreateBuildChannel, AdvanceHead
<1>15. CASE CreateBuildPlatforms(r) \/ WriteMetadata(r) \/ WriteSize(r)
  BY <1>3, <1>7, <1>15 DEF CreateBuildPlatforms, WriteMetadata, WriteSize
<1>16. CASE RecordArchive(r) \/ Complete(r)
  BY <1>3, <1>5, <1>16 DEF RecordArchive, Complete
<1> QED BY <1>9, <1>10, <1>11, <1>12, <1>13, <1>14, <1>15, <1>16 DEF Handle

\* A size that is written is that of a build, or was read.
LEMMA HandleSizes ==
    ASSUME Inv, RefsInv, NEW r \in Requests, Handle(r)
    PROVE  \A v \in Uploads' : upload'[v].row.size \in MaybeBuild
<1>1. Types /\ FrameRefers(r) /\ PushFits(r)
  BY DEF Inv, RefsInv
<1>2. \A v \in Uploads : upload[v].row.size \in MaybeBuild
  BY DEF RefsInv
<1>3. CASE UNCHANGED upload
  BY <1>2, <1>3 DEF Uploads
<1>4. ASSUME NEW columns \in WideColumns, columns.size \in MaybeBuild,
             request[r].upload \in Uploads, UpdateUpload(request[r].upload, columns)
      PROVE  \A v \in Uploads' : upload'[v].row.size \in MaybeBuild
  BY <1>1, <1>2, <1>4, UpdateUploadRewrites, RowIsWritten DEF RowsRewritten
<1>5. request[r].pc \in WindowPcs => request[r].upload \in Uploads
  BY WindowHasUpload
<1>6. request[r].copy \in WideColumns /\ request[r].build \in Nat
      /\ request[r].copy.size \in MaybeBuild /\ request[r].build \in MaybeBuild
  BY <1>1 DEF Types, WideFrame, FrameRefers
<1>7. CASE CreateBuildPlatforms(r)
  <2> DEFINE columns == [request[r].copy EXCEPT !.platforms = "channel"]
  <2>1. columns \in WideColumns /\ columns.size \in MaybeBuild
    BY <1>6 DEF WideColumns
  <2>2. UpdateUpload(request[r].upload, columns) /\ request[r].pc \in WindowPcs
    BY <1>7 DEF CreateBuildPlatforms, WindowPcs
  <2> HIDE DEF columns
  <2> QED BY <1>4, <1>5, <2>1, <2>2
<1>8. CASE WriteMetadata(r)
  <2>1. PICK p \in {request[r].copy.platforms, "archive"} :
            UpdateUpload(request[r].upload, [size |-> request[r].build, platforms |-> p])
    BY <1>8 DEF WriteMetadata
  <2> DEFINE columns == [size |-> request[r].build, platforms |-> p]
  <2>2. columns \in WideColumns /\ columns.size \in MaybeBuild
    BY <1>6 DEF WideColumns
  <2>3. UpdateUpload(request[r].upload, columns) /\ request[r].pc \in WindowPcs
    BY <1>8, <2>1 DEF WriteMetadata, WindowPcs
  <2> HIDE DEF columns
  <2> QED BY <1>4, <1>5, <2>2, <2>3
<1>9. CASE WriteSize(r)
  <2> DEFINE columns == [request[r].copy EXCEPT !.size = request[r].build]
  <2>1. columns \in WideColumns /\ columns.size \in MaybeBuild
    BY <1>6 DEF WideColumns
  <2>2. UpdateUpload(request[r].upload, columns) /\ request[r].pc \in WindowPcs
    BY <1>9 DEF WriteSize, WindowPcs
  <2> HIDE DEF columns
  <2> QED BY <1>4, <1>5, <2>1, <2>2
<1>10. CASE CreateUpload(r)
  <2> DEFINE u == Len(upload) + 1
             row == [game |-> request[r].game, channel |-> NoChannel, head |-> None, row |-> New]
  <2>1. row \in WideUploadRow /\ row.row.size = None
    BY <1>1 DEF Types, WideFrame, WideUploadRow, WideColumns, New, None
  <2>2. upload' = Append(upload, row)
    BY <1>10 DEF CreateUpload
  <2> HIDE DEF row
  <2>3. /\ \A v \in Uploads : upload'[v] = upload[v]
        /\ \A v \in Uploads' : v \in Uploads \/ v = u
        /\ upload'[u] = row
    BY <1>1, <2>1, <2>2, AppendIs DEF Types, Uploads
  <2> HIDE DEF u
  <2> QED BY <1>2, <2>1, <2>3 DEF MaybeBuild
<1>11. CASE CreateBuildChannel(r)
  <2>1. request[r].channel \in Channels /\ request[r].upload \in Uploads
    BY <1>1, <1>11 DEF PushFits, CreateBuildChannel, CreatePcs, HasUpload
  <2>2. ChannelInserted(request[r].upload, request[r].channel) /\ RowsKept
    BY <1>1, <1>11, <2>1, CreateBuildChannelDoes, ChannelKeepsRows DEF CreateBuildChannel
  <2> QED BY <1>2, <2>2 DEF ChannelInserted, RowsKept
<1>12. ASSUME AdvanceHead(r), ~UNCHANGED upload
       PROVE  \A v \in Uploads' : upload'[v].row.size \in MaybeBuild
  <2>1. request[r].upload \in Uploads
    BY <1>5, <1>12 DEF AdvanceHead, WindowPcs
  <2>2. HeadSet(request[r].upload, request[r].build)
    BY <1>1, <1>12, AdvanceHeadDoes
  <2>3. upload' = [upload EXCEPT ![request[r].upload].head = request[r].build]
    BY <1>12 DEF AdvanceHead
  <2>4. RowsKept
    BY <1>1, <1>6, <2>1, <2>3, HeadKeepsRows
  <2> QED BY <1>2, <2>2, <2>4 DEF HeadSet, RowsKept
<1> QED BY <1>3, <1>7, <1>8, <1>9, <1>10, <1>11, <1>12
        DEF Handle, CreateBuildGames, CreateGame, CreateBuildUploads, CreateBuildInsert,
            Generate, RecordArchive, ReadSize, Complete

LEMMA HandleRefers ==
    ASSUME Inv, RefsInv, NEW r \in Requests, Handle(r)
    PROVE  FrameRefers(r)' /\ Others(r)
<1>1. Types /\ FrameRefers(r) /\ PushFits(r) /\ Grows /\ request'[r].copy.size \in MaybeBuild
  BY TablesGrow, HandleCopies DEF Inv, RefsInv
<1>2. request[r].game \in MaybeGame' /\ request[r].upload \in MaybeUpload'
  BY <1>1 DEF FrameRefers, Grows, MaybeGame, MaybeUpload
<1>3. ASSUME NEW pc, Moves(r, pc, request[r].game, request[r].upload) PROVE FrameRefers(r)' /\ Others(r)
  BY <1>1, <1>2, <1>3, MovesRefers DEF Moves
<1>4. ASSUME NEW pc, NEW g \in MaybeGame', Moves(r, pc, g, request[r].upload)
      PROVE  FrameRefers(r)' /\ Others(r)
  BY <1>1, <1>2, <1>4, MovesRefers DEF Moves
<1>5. ASSUME NEW pc, NEW u \in MaybeUpload', Moves(r, pc, request[r].game, u)
      PROVE  FrameRefers(r)' /\ Others(r)
  BY <1>1, <1>2, <1>5, MovesRefers DEF Moves
<1>6. ASSUME Return(r) PROVE FrameRefers(r)' /\ Others(r)
  BY <1>1, <1>6, ReturnsIdle, ReturnLeaves, IdleRefers DEF Leaves
<1>7. CASE CreateBuildGames(r)
  <2>1. GamesOf(request[r].target) \subseteq MaybeGame'
    BY <1>1 DEF GamesOf, Grows, MaybeGame
  <2> QED BY <1>1, <1>3, <1>4, <1>7, <2>1, CreateBuildGamesDoes
<1>8. CASE CreateGame(r)
  <2>1. request[r].target \in Targets
    BY <1>1, <1>8 DEF CreateGame, PushFits, CreatePcs
  <2>2. Len(game) + 1 \in MaybeGame'
    BY <1>1, <1>8, <2>1, AppendIs DEF CreateGame, Types, MaybeGame, Games
  <2> QED BY <1>1, <1>4, <1>8, <2>1, <2>2, CreateGameDoes
<1>9. CASE CreateBuildUploads(r)
  <2>1. UploadsOf(request[r].game, request[r].channel) \subseteq MaybeUpload'
    BY <1>1 DEF UploadsOf, Grows, MaybeUpload
  <2> QED BY <1>1, <1>3, <1>5, <1>9, <2>1, CreateBuildUploadsDoes
<1>10. CASE CreateUpload(r)
  <2> DEFINE row == [game |-> request[r].game, channel |-> NoChannel, head |-> None, row |-> New]
  <2>1. row \in WideUploadRow /\ upload' = Append(upload, row)
    BY <1>1, <1>10 DEF Types, WideFrame, WideUploadRow, WideColumns, New, None, CreateUpload
  <2> HIDE DEF row
  <2>2. Len(upload) + 1 \in MaybeUpload'
    BY <1>1, <2>1, AppendIs DEF Types, MaybeUpload, Uploads
  <2> QED BY <1>1, <1>5, <1>10, <2>2, CreateUploadDoes
<1>11. CASE CreateBuildInsert(r)
  <2>1. "channel" \in Pcs
    BY DEF Pcs, CreatePcs
  <2> QED BY <1>1, <1>3, <1>6, <1>11, <2>1, GotoMoves DEF CreateBuildInsert
<1>12. CASE CreateBuildChannel(r) \/ AdvanceHead(r)
  BY <1>6, <1>12 DEF CreateBuildChannel, AdvanceHead
<1>13. CASE Generate(r) \/ ReadSize(r)
  <2>1. request[r].upload \in Uploads
    BY <1>13, SettleHasUpload DEF Generate, ReadSize, SettlePcs
  <2> QED BY <1>1, <1>3, <1>13, <2>1, GenerateDoes, ReadSizeDoes
<1>14. CASE CreateBuildPlatforms(r) \/ WriteMetadata(r) \/ RecordArchive(r) \/ WriteSize(r) \/ Complete(r)
  BY <1>1, <1>3, <1>14, CreateBuildPlatformsDoes, WriteMetadataDoes, RecordArchiveDoes,
     WriteSizeDoes, CompleteDoes
<1> QED BY <1>7, <1>8, <1>9, <1>10, <1>11, <1>12, <1>13, <1>14 DEF Handle

LEMMA RefsKept ==
    ASSUME RefsInv, NEW r \in Requests, Others(r), Grows, FrameRefers(r)',
           \A v \in Uploads' : upload'[v].row.size \in MaybeBuild
    PROVE  RefsInv'
<1>1. /\ MaybeGame \subseteq MaybeGame' /\ MaybeUpload \subseteq MaybeUpload'
      /\ MaybeBuild \subseteq MaybeBuild'
  BY DEF Grows, MaybeGame, MaybeUpload, MaybeBuild
<1>2. \A s \in Requests \ {r} : FrameRefers(s)'
  BY <1>1 DEF RefsInv, FrameRefers, Others
<1> QED BY <1>1, <1>2 DEF RefsInv

LEMMA RefsStep == RefsInv /\ Inv /\ [Next]_vars => RefsInv'
<1> SUFFICES ASSUME RefsInv, Inv, [Next]_vars PROVE RefsInv'
  OBVIOUS
<1>1. Types /\ \A v \in Uploads : upload[v].row.size \in MaybeBuild
  BY DEF Inv, RefsInv
<1>2. ASSUME UNCHANGED catalogueVars PROVE RefsInv'
  BY <1>2 DEF catalogueVars, RefsInv, FrameRefers, MaybeGame, MaybeUpload, MaybeBuild, Games, Uploads, Builds
<1>3. ASSUME NEW r \in Requests, NEW k \in Keys, NEW target \in Targets, NEW channel \in Channels,
             CreateBuild(r, k, target, channel)
      PROVE  RefsInv'
  <2>1. PICK n \in Authenticated(k) :
            request' = [request EXCEPT ![r] =
                [Idle EXCEPT !.pc = "games", !.as = n, !.key = k, !.role = user[n].role,
                             !.target = target, !.channel = channel]]
    BY <1>3 DEF CreateBuild
  <2> DEFINE f == [Idle EXCEPT !.pc = "games", !.as = n, !.key = k, !.role = user[n].role,
                               !.target = target, !.channel = channel]
  <2>2. f.game = None /\ f.upload = None /\ f.build = None /\ f.copy.size = None
    BY DEF Idle, New
  <2>3. request'[r] = f
    BY <1>1, <2>1 DEF Types
  <2> HIDE DEF f
  <2>4. FrameRefers(r)'
    BY <2>2, <2>3 DEF FrameRefers, MaybeGame, MaybeUpload, MaybeBuild
  <2>5. Others(r) /\ UNCHANGED RowTables
    BY <1>1, <1>3, CreateBuildDoes
  <2>6. Grows /\ Uploads' = Uploads /\ upload' = upload
    BY <2>5 DEF RowTables, Grows, Games, Uploads, Builds
  <2> QED BY <1>1, <2>4, <2>5, <2>6, RefsKept
<1>4. ASSUME NEW r \in Requests, NEW b \in Builds, Claim(r, b) \/ Check(r, b) PROVE RefsInv'
  <2>1. PICK pc \in {"generate", "size"} : Settling(r, b, pc)
    BY <1>4 DEF Claim, Check
  <2> DEFINE f == [Idle EXCEPT !.pc = pc, !.build = b, !.upload = build[b].upload]
  <2>2. f.game = None /\ f.upload = build[b].upload /\ f.build = b /\ f.copy.size = None
    BY DEF Idle, New
  <2>3. request'[r] = f /\ UNCHANGED <<game, upload>>
    BY <1>1, <2>1 DEF Types, Settling
  <2> HIDE DEF f
  <2>4. build[b].upload \in Uploads
    BY DEF Inv, BuildFits
  <2>5. Others(r) /\ Builds' = Builds
    BY <1>1, <1>4, ClaimDoes, CheckDoes DEF Takes, StateSet, Builds
  <2>6. Grows /\ Uploads' = Uploads
    BY <2>3, <2>5 DEF Grows, Games, Uploads
  <2>7. FrameRefers(r)'
    BY <2>2, <2>3, <2>4, <2>5, <2>6 DEF FrameRefers, MaybeGame, MaybeUpload, MaybeBuild
  <2> QED BY <1>1, <2>3, <2>5, <2>6, <2>7, RefsKept
<1>5. ASSUME NEW r \in Requests, Abandon(r) PROVE RefsInv'
  <2>1. FrameRefers(r)' /\ Others(r)
    BY <1>1, <1>5, ReturnsIdle, IdleRefers, AbandonDoes DEF Abandon, Leaves
  <2>2. Grows /\ Uploads' = Uploads /\ UNCHANGED upload
    BY <1>5 DEF Abandon, Grows, Games, Uploads, Builds
  <2> QED BY <1>1, <2>1, <2>2, RefsKept
<1>6. ASSUME NEW r \in Requests, Handle(r) PROVE RefsInv'
  BY <1>6, HandleRefers, HandleSizes, TablesGrow, RefsKept
<1>7. CASE CommandNext
  BY <1>2, <1>7 DEF CommandNext
<1>8. CASE RequestNext
  BY <1>3, <1>4, <1>5, <1>6, <1>8 DEF RequestNext
<1>9. CASE UNCHANGED vars
  BY <1>2, <1>9 DEF vars
<1> QED BY <1>7, <1>8, <1>9 DEF Next

-----------------------------------------------------------------------------
(* Every row was inserted by a push of its own *)

GamePcs == {"games", "create_game"}
UploadPcs == GamePcs \cup {"uploads", "create_upload"}
BuildPcs == UploadPcs \cup {"platforms", "build"}

Pending(pcs) == {r \in Requests : request[r].pc \in pcs}

\* The n rows there are and those yet to be inserted are no more than the pushes.
Room(n, pcs) == IsFiniteSet(Pending(pcs)) /\ n + Cardinality(Pending(pcs)) <= pushes

RoomInv ==
    /\ Room(Len(game), GamePcs)
    /\ Room(Len(upload), UploadPcs)
    /\ Room(Len(build), BuildPcs)

LEMMA RoomInit == Init => RoomInv
<1> SUFFICES ASSUME Init PROVE RoomInv
  OBVIOUS
<1>1. \A r \in Requests : request[r].pc = "idle"
  BY IdleIs DEF Init, CatalogueInit
<1>2. Pending(GamePcs) = {} /\ Pending(UploadPcs) = {} /\ Pending(BuildPcs) = {}
  BY <1>1 DEF Pending, GamePcs, UploadPcs, BuildPcs
<1>3. Len(game) = 0 /\ Len(upload) = 0 /\ Len(build) = 0 /\ pushes = 0
  BY DEF Init, CatalogueInit
<1> QED BY <1>2, <1>3, FS_EmptySet DEF RoomInv, Room

\* A row is inserted by a handler that has none to insert afterwards.
Pays(r, n, m, pcs) ==
    \/ m = n /\ (request'[r].pc \in pcs => request[r].pc \in pcs)
    \/ m = n + 1 /\ request[r].pc \in pcs /\ request'[r].pc \notin pcs

LEMMA RoomStays ==
    ASSUME NEW n \in Nat, NEW m \in Nat, NEW pcs, Room(n, pcs), pushes \in Nat, UNCHANGED pushes,
           NEW r \in Requests, Others(r), Pays(r, n, m, pcs)
    PROVE  Room(m, pcs)'
<1> DEFINE P == Pending(pcs)
<1>0. PICK Q : Q = Pending(pcs)'
  OBVIOUS
<1>1. /\ \A s \in Requests : s \in P <=> request[s].pc \in pcs
      /\ \A s \in Requests : s \in Q <=> request'[s].pc \in pcs
      /\ P \subseteq Requests /\ Q \subseteq Requests
  BY <1>0 DEF Pending
<1>2. IsFiniteSet(P) /\ n + Cardinality(P) <= pushes
  BY DEF Room
<1> HIDE DEF P
<1>3. Cardinality(P) \in Nat
  BY <1>2, FS_CardinalityType
<1>4. CASE m = n /\ Q \subseteq P
  <2>1. IsFiniteSet(Q) /\ Cardinality(Q) <= Cardinality(P)
    BY <1>2, <1>4, FS_Subset
  <2>2. Cardinality(Q) \in Nat
    BY <2>1, FS_CardinalityType
  <2>3. m + Cardinality(Q) <= pushes'
    BY <1>2, <1>3, <1>4, <2>1, <2>2
  <2> QED BY <1>0, <2>1, <2>3 DEF Room
<1>5. CASE m = n + 1 /\ r \in P /\ Q = P \ {r}
  <2>1. IsFiniteSet(Q) /\ Cardinality(Q) = Cardinality(P) - 1
    BY <1>2, <1>5, FS_RemoveElement
  <2>2. m + Cardinality(Q) <= pushes'
    BY <1>2, <1>3, <1>5, <2>1
  <2> QED BY <1>0, <2>1, <2>2 DEF Room
<1>6. m = n => Q \subseteq P \/ ~(request'[r].pc \in pcs => request[r].pc \in pcs)
  BY <1>1 DEF Others
<1>7. request[r].pc \in pcs /\ request'[r].pc \notin pcs => r \in P /\ Q = P \ {r}
  BY <1>1 DEF Others
<1> QED BY <1>4, <1>5, <1>6, <1>7 DEF Pays

LEMMA RoomGrows ==
    ASSUME NEW n \in Nat, NEW pcs, Room(n, pcs), pushes \in Nat, pushes' = pushes + 1,
           NEW r \in Requests, Others(r)
    PROVE  Room(n, pcs)'
<1> DEFINE P == Pending(pcs)
<1>0. PICK Q : Q = Pending(pcs)'
  OBVIOUS
<1>1. Q \subseteq P \cup {r}
  BY <1>0 DEF Pending, Others
<1>2. IsFiniteSet(P) /\ n + Cardinality(P) <= pushes
  BY DEF Room
<1> HIDE DEF P
<1>3. /\ Cardinality(P) \in Nat /\ IsFiniteSet(P \cup {r})
      /\ Cardinality(P \cup {r}) \in {Cardinality(P), Cardinality(P) + 1}
  BY <1>2, FS_CardinalityType, FS_AddElement
<1>4. IsFiniteSet(Q) /\ Cardinality(Q) <= Cardinality(P \cup {r})
  BY <1>1, <1>3, FS_Subset
<1>5. Cardinality(Q) \in Nat
  BY <1>4, FS_CardinalityType
<1>6. n + Cardinality(Q) <= pushes'
  BY <1>2, <1>3, <1>4, <1>5
<1> QED BY <1>0, <1>4, <1>6 DEF Room

LEMMA LengthsAre == ASSUME Types PROVE Len(game) \in Nat /\ Len(upload) \in Nat /\ Len(build) \in Nat
BY DEF Types

LEMMA SameLength == ASSUME NEW S, NEW p \in Seq(S), NEW q \in Seq(S), DOMAIN q = DOMAIN p
                    PROVE  Len(q) = Len(p)
OBVIOUS

PaysAll(r) ==
    /\ Others(r) /\ UNCHANGED pushes
    /\ Pays(r, Len(game), Len(game'), GamePcs)
    /\ Pays(r, Len(upload), Len(upload'), UploadPcs)
    /\ Pays(r, Len(build), Len(build'), BuildPcs)

LEMMA PayingKeepsRoom ==
    ASSUME RoomInv, Types, Types', pushes \in Nat, NEW r \in Requests, PaysAll(r) PROVE RoomInv'
<1>1. PICK g \in Nat, u \in Nat, b \in Nat : g = Len(game) /\ u = Len(upload) /\ b = Len(build)
  BY LengthsAre
<1>2. PICK h \in Nat, v \in Nat, c \in Nat : h = Len(game') /\ v = Len(upload') /\ c = Len(build')
  BY DEF Types
<1>3. Room(g, GamePcs) /\ Room(u, UploadPcs) /\ Room(b, BuildPcs)
  BY <1>1 DEF RoomInv
<1>4. Room(h, GamePcs)' /\ Room(v, UploadPcs)' /\ Room(c, BuildPcs)'
  BY <1>1, <1>2, <1>3, RoomStays DEF PaysAll
<1> QED BY <1>2, <1>4 DEF RoomInv

\* The steps that insert nothing.
LEMMA InsertsNothing ==
    ASSUME NEW r \in Requests, Others(r), UNCHANGED pushes, Len(game') = Len(game),
           Len(upload') = Len(upload), Len(build') = Len(build),
           \/ request'[r].pc \notin BuildPcs
           \/ request[r].pc = "games" /\ request'[r].pc \in {"create_game", "uploads"}
           \/ request[r].pc = "uploads" /\ request'[r].pc \in {"create_upload", "platforms", "build"}
           \/ request[r].pc = "platforms" /\ request'[r].pc = "build"
    PROVE  PaysAll(r)
BY DEF PaysAll, Pays, GamePcs, UploadPcs, BuildPcs

LEMMA HandlePays ==
    ASSUME Inv, Types', NEW r \in Requests, Handle(r) PROVE PaysAll(r)
<1>1. Types /\ PushFits(r) /\ UNCHANGED pushes
  BY DEF Inv, Handle, CreateBuildGames, CreateGame, CreateBuildUploads, CreateBuildPlatforms,
         CreateUpload, CreateBuildInsert, CreateBuildChannel, Generate, WriteMetadata,
         RecordArchive, ReadSize, WriteSize, Complete, AdvanceHead
<1>2. /\ Uploads' = Uploads => Len(upload') = Len(upload)
      /\ Builds' = Builds => Len(build') = Len(build)
  BY <1>1, SameLength DEF Types, Uploads, Builds
<1>3. request[r].pc \in CreatePcs => request[r].target \in Targets /\ request[r].channel \in Channels
  BY <1>1 DEF PushFits
<1>4. request[r].pc \in SettlePcs => request[r].upload \in Uploads
  BY SettleHasUpload
<1>5. CASE CreateGame(r)
  <2>1. request[r].pc = "create_game" /\ request'[r].pc = "uploads" /\ Others(r)
        /\ game' = Append(game, request[r].target) /\ UNCHANGED <<upload, build>>
    BY <1>1, <1>3, <1>5, CreateGameDoes DEF CreateGame, Moves, CreatePcs
  <2>2. Len(game') = Len(game) + 1
    BY <1>1, <2>1 DEF Types
  <2> QED BY <1>1, <2>1, <2>2 DEF PaysAll, Pays, GamePcs, UploadPcs, BuildPcs
<1>6. CASE CreateUpload(r)
  <2>1. request[r].pc = "create_upload" /\ request'[r].pc = "build" /\ Others(r)
        /\ UNCHANGED <<game, build>>
    BY <1>1, <1>6, CreateUploadDoes DEF Moves
  <2> DEFINE row == [game |-> request[r].game, channel |-> NoChannel, head |-> None, row |-> New]
  <2>2. row \in WideUploadRow /\ upload' = Append(upload, row)
    BY <1>1, <1>6 DEF Types, WideFrame, WideUploadRow, WideColumns, New, None, CreateUpload
  <2> HIDE DEF row
  <2>3. Len(upload') = Len(upload) + 1
    BY <1>1, <2>2 DEF Types
  <2> QED BY <1>1, <2>1, <2>3 DEF PaysAll, Pays, GamePcs, UploadPcs, BuildPcs
<1>7. CASE CreateBuildInsert(r)
  <2>1. request[r].pc = "build" /\ request'[r].pc \in {"channel", "idle"} /\ Others(r)
        /\ UNCHANGED <<game, upload>>
    BY <1>1, <1>3, <1>7, CreateBuildInsertDoes DEF Moves, Leaves, CreatePcs, CreateBuildInsert
  <2> DEFINE row == [upload |-> request[r].upload, channel |-> request[r].channel, state |-> "started"]
  <2>2. row \in WideBuildRow /\ build' = Append(build, row)
    BY <1>1, <1>3, <1>7 DEF Types, WideFrame, WideBuildRow, CreateBuildInsert, CreatePcs
  <2> HIDE DEF row
  <2>3. Len(build') = Len(build) + 1
    BY <1>1, <2>2 DEF Types
  <2> QED BY <1>1, <2>1, <2>3 DEF PaysAll, Pays, GamePcs, UploadPcs, BuildPcs
<1>8. CASE CreateBuildGames(r)
  BY <1>1, <1>8, CreateBuildGamesDoes, InsertsNothing DEF Moves, RowTables
<1>9. CASE CreateBuildUploads(r)
  BY <1>1, <1>9, CreateBuildUploadsDoes, InsertsNothing DEF Moves, RowTables
<1>10. CASE CreateBuildPlatforms(r)
  BY <1>1, <1>2, <1>10, CreateBuildPlatformsDoes, InsertsNothing DEF Moves, RowsRewritten
<1>11. CASE CreateBuildChannel(r)
  <2>1. request[r].channel \in Channels
    BY <1>3, <1>11 DEF CreateBuildChannel, CreatePcs
  <2>2. Leaves(r) /\ Uploads' = Uploads /\ UNCHANGED <<game, build>>
    BY <1>1, <1>11, <2>1, CreateBuildChannelDoes DEF ChannelInserted
  <2> QED BY <1>1, <1>2, <2>2, InsertsNothing DEF Leaves, BuildPcs, UploadPcs, GamePcs
<1>12. CASE \/ Generate(r) \/ WriteMetadata(r) \/ RecordArchive(r) \/ ReadSize(r) \/ WriteSize(r)
            \/ Complete(r) \/ AdvanceHead(r)
  <2>1. request[r].upload \in Uploads
    BY <1>4, <1>12 DEF SettlePcs, Generate, WriteMetadata, RecordArchive, ReadSize, WriteSize,
                       Complete, AdvanceHead
  <2>2. request[r].build \in Builds
    BY <1>12, SettleHasUpload DEF SettlePcs, Generate, WriteMetadata, RecordArchive, ReadSize,
                       WriteSize, Complete, AdvanceHead
  <2>3. Others(r) /\ request'[r].pc \notin BuildPcs
    <3>1. Leaves(r) \/ \E pc \in {"record", "write_metadata", "size", "complete", "write_size", "advance"} :
              Moves(r, pc, request[r].game, request[r].upload)
      BY <1>1, <1>12, <2>1, GenerateDoes, WriteMetadataDoes, RecordArchiveDoes, ReadSizeDoes,
         WriteSizeDoes, CompleteDoes, AdvanceHeadDoes
    <3> QED BY <3>1 DEF Leaves, Moves, BuildPcs, UploadPcs, GamePcs
  <2>4. UNCHANGED game /\ Uploads' = Uploads /\ Builds' = Builds
    BY <1>1, <1>12, <2>1, GenerateDoes, WriteMetadataDoes, RecordArchiveDoes, ReadSizeDoes,
       WriteSizeDoes, CompleteDoes, AdvanceHeadDoes
       DEF RowTables, RowsRewritten, StateSet, HeadSet, Uploads, Builds
  <2> QED BY <1>1, <1>2, <2>3, <2>4, InsertsNothing
<1> QED BY <1>5, <1>6, <1>7, <1>8, <1>9, <1>10, <1>11, <1>12 DEF Handle

LEMMA RoomStep == RoomInv /\ NumbersInv /\ Inv /\ [Next]_vars => RoomInv'
<1> SUFFICES ASSUME RoomInv, NumbersInv, Inv, [Next]_vars PROVE RoomInv'
  OBVIOUS
<1>1. Types /\ Types' /\ pushes \in Nat
  BY InvStep, NumbersAre DEF Inv
<1>2. ASSUME UNCHANGED catalogueVars PROVE RoomInv'
  BY <1>2 DEF catalogueVars, RoomInv, Room, Pending
<1>3. ASSUME NEW r \in Requests, NEW k \in Keys, NEW target \in Targets, NEW channel \in Channels,
             CreateBuild(r, k, target, channel)
      PROVE  RoomInv'
  <2>0. Others(r)
    BY <1>1, <1>3, CreateBuildDoes
  <2>1. Others(r) /\ UNCHANGED <<game, upload, build>> /\ pushes' = pushes + 1
    BY <1>3, <2>0 DEF CreateBuild
  <2>2. PICK g \in Nat, u \in Nat, b \in Nat : g = Len(game) /\ u = Len(upload) /\ b = Len(build)
    BY <1>1, LengthsAre
  <2>3. Room(g, GamePcs) /\ Room(u, UploadPcs) /\ Room(b, BuildPcs)
    BY <2>2 DEF RoomInv
  <2>4. Room(g, GamePcs)' /\ Room(u, UploadPcs)' /\ Room(b, BuildPcs)'
    BY <1>1, <2>1, <2>3, RoomGrows
  <2> QED BY <2>1, <2>2, <2>4 DEF RoomInv
<1>4. ASSUME NEW r \in Requests, NEW b \in Builds, Claim(r, b) \/ Check(r, b) PROVE RoomInv'
  <2>1. Others(r) /\ request'[r].pc \in {"generate", "size"} /\ Builds' = Builds
    BY <1>1, <1>4, ClaimDoes, CheckDoes DEF Takes, StateSet, Builds
  <2>2. UNCHANGED <<game, upload, pushes>> /\ Len(build') = Len(build)
    BY <1>1, <1>4, <2>1, SameLength DEF Claim, Check, Settling, Types, Builds
  <2> QED BY <1>1, <2>1, <2>2, InsertsNothing, PayingKeepsRoom DEF BuildPcs, UploadPcs, GamePcs
<1>5. ASSUME NEW r \in Requests, Abandon(r) PROVE RoomInv'
  <2>1. Others(r) /\ request'[r].pc = "idle" /\ UNCHANGED <<game, upload, build, pushes>>
    BY <1>1, <1>5, AbandonDoes DEF Leaves, Abandon
  <2> QED BY <1>1, <2>1, InsertsNothing, PayingKeepsRoom DEF BuildPcs, UploadPcs, GamePcs
<1>6. ASSUME NEW r \in Requests, Handle(r) PROVE RoomInv'
  BY <1>1, <1>6, HandlePays, PayingKeepsRoom
<1>7. CASE CommandNext
  BY <1>2, <1>7 DEF CommandNext
<1>8. CASE RequestNext
  BY <1>3, <1>4, <1>5, <1>6, <1>8 DEF RequestNext
<1>9. CASE UNCHANGED vars
  BY <1>2, <1>9 DEF vars
<1> QED BY <1>7, <1>8, <1>9 DEF Next

-----------------------------------------------------------------------------
(* The type invariant *)

LEMMA RowsWithin ==
    ASSUME Types, RoomInv, NumbersInv
    PROVE  Games \subseteq Ids /\ Uploads \subseteq Ids /\ Builds \subseteq Ids
<1>1. pushes \in 0 .. MaxPushes /\ MaxPushes \in Nat
  BY PushesAssumption DEF NumbersInv
<1>2. ASSUME NEW n \in Nat, NEW pcs, Room(n, pcs) PROVE 1 .. n \subseteq Ids
  <2>1. Cardinality(Pending(pcs)) \in Nat /\ n + Cardinality(Pending(pcs)) <= pushes
    BY <1>2, FS_CardinalityType DEF Room
  <2> QED BY <1>1, <2>1 DEF Ids
<1>3. Games = 1 .. Len(game) /\ Uploads = 1 .. Len(upload) /\ Builds = 1 .. Len(build)
  BY DEF Types, Games, Uploads, Builds
<1>4. Len(game) \in Nat /\ Len(upload) \in Nat /\ Len(build) \in Nat
  BY LengthsAre
<1> QED BY <1>2, <1>3, <1>4 DEF RoomInv

LEMMA Narrows == ASSUME NEW S, NEW T, NEW q \in Seq(S), \A i \in DOMAIN q : q[i] \in T PROVE q \in Seq(T)
OBVIOUS

LEMMA TypesMeet ==
    ASSUME SharedInv, NumbersInv, RefsInv, RoomInv PROVE TypeOK
<1>1. Inv /\ Types /\ \A v \in Uploads : upload[v].game \in Games
  BY DEF SharedInv, Inv
<1>2. /\ Games \subseteq Ids /\ Uploads \subseteq Ids /\ Builds \subseteq Ids
  BY <1>1, RowsWithin
<1>3. MaybeGame \subseteq MaybeId /\ MaybeUpload \subseteq MaybeId /\ MaybeBuild \subseteq MaybeId
  BY <1>2 DEF MaybeGame, MaybeUpload, MaybeBuild, MaybeId
<1>4. ASSUME NEW c \in WideColumns, c.size \in MaybeBuild PROVE c \in Columns
  BY <1>3, <1>4 DEF WideColumns, Columns
<1>5. upload \in Seq(UploadRow)
  <2>1. ASSUME NEW v \in DOMAIN upload PROVE upload[v] \in UploadRow
    <3>1. PICK u \in Uploads : u = v
      BY <2>1 DEF Uploads
    <3>2. upload[u] \in WideUploadRow /\ upload[u].game \in Ids
      BY <1>1, <1>2, IdsAre
    <3>3. upload[u].row \in Columns
      BY <1>4, <3>2 DEF RefsInv, WideUploadRow
    <3>4. upload[u].head \in MaybeId
      BY <1>1, <1>2 DEF Inv, HeadFits, MaybeId
    <3> QED BY <3>1, <3>2, <3>3, <3>4 DEF WideUploadRow, UploadRow
  <2> QED BY <1>1, <2>1, Narrows DEF Types
<1>6. build \in Seq(BuildRow)
  <2>1. ASSUME NEW b \in DOMAIN build PROVE build[b] \in BuildRow
    <3>1. PICK c \in Builds : c = b
      BY <2>1 DEF Builds
    <3>2. build[c] \in WideBuildRow /\ build[c].upload \in Ids
      BY <1>1, <1>2, IdsAre DEF Inv, BuildFits
    <3> QED BY <3>1, <3>2 DEF WideBuildRow, BuildRow
  <2> QED BY <1>1, <2>1, Narrows DEF Types
<1>7. ASSUME NEW r \in Requests PROVE request[r] \in Frame
  <2>1. request[r] \in WideFrame /\ FrameRefers(r)
    BY <1>1 DEF Types, RefsInv
  <2>2. /\ request[r].game \in MaybeId /\ request[r].upload \in MaybeId /\ request[r].build \in MaybeId
        /\ request[r].copy.size \in MaybeBuild
    BY <1>3, <2>1 DEF FrameRefers
  <2>3. request[r].copy \in Columns
    BY <1>4, <2>1, <2>2 DEF WideFrame
  <2> QED BY <2>1, <2>2, <2>3 DEF WideFrame, Frame, Pcs
<1>8. request \in [Requests -> Frame]
  BY <1>1, <1>7 DEF Types
<1>9. AccountsTypeOK
  BY <1>1 DEF Inv, AccountInv, BookTypes, AccountsTypeOK, NumbersInv
<1> QED BY <1>1, <1>5, <1>6, <1>8, <1>9 DEF Types, NumbersInv, TypeOK

\* The tables and the frames of the handlers keep their types and bounds; every
\* id in a row or a frame is one of a row that was inserted, and there are no
\* more games, uploads or builds than pushes.
THEOREM CatalogueTypes == Spec => []TypeOK
<1>1. Spec => []SharedInv
  BY SharedInit, SharedStep, PTL DEF Spec
<1>2. SharedInv => Inv
  BY DEF SharedInv
<1>3. Spec => []NumbersInv
  BY <1>1, <1>2, NumbersInit, NumbersStep, PTL DEF Spec
<1>4. Spec => []RefsInv
  BY <1>1, <1>2, RefsInit, RefsStep, PTL DEF Spec
<1>5. Spec => []RoomInv
  BY <1>1, <1>2, <1>3, RoomInit, RoomStep, PTL DEF Spec
<1> QED BY <1>1, <1>3, <1>4, <1>5, TypesMeet, PTL
=============================================================================
