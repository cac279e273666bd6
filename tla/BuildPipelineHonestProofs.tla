---------------------- MODULE BuildPipelineHonestProofs ----------------------
(***************************************************************************)
(* What holds when clients are like butler: each uploads every artifact of *)
(* a build at most once, states its true size, and leaves the archive to   *)
(* the server.  Any number of handlers, builds and faults.                 *)
(***************************************************************************)
EXTENDS BuildPipelineClaimProofs, FiniteSetTheorems, WellFoundedInduction

Butler == HonestClients /\ "archive" \notin ClientKinds /\ MaxClientRows = 1

-----------------------------------------------------------------------------
(* What the actions do *)

Rest(w) == \A v \in Workers \ {w} : worker'[v] = worker[v]
Stops(w) == Rest(w) /\ worker'[w] = Idle

\* The handler goes on with the build it works on.
Goes(w, pc) ==
    /\ Rest(w) /\ worker'[w].pc = pc /\ worker'[w].build = worker[w].build
    /\ worker'[w].upload = worker[w].upload \/ pc \in CheckPcs

Tables == <<nbuilds, build, upload, file, object>>

LEMMA GotoGoes ==
    ASSUME TypeOK, NEW w \in Workers, NEW pc, Goto(w, pc) PROVE Goes(w, pc)
<1>1. worker[w] \in Frame /\ w \in DOMAIN worker
  BY DEF TypeOK
<1> DEFINE frame == [worker[w] EXCEPT !.pc = pc]
<1>2. frame.pc = pc /\ frame.build = worker[w].build /\ frame.upload = worker[w].upload
  BY <1>1 DEF Frame
<1>3. worker' = [worker EXCEPT ![w] = frame]
  BY DEF Goto
<1> HIDE DEF frame
<1> QED BY <1>1, <1>2, <1>3 DEF Goes, Rest, TypeOK

LEMMA ReturnStops == ASSUME TypeOK, NEW w \in Workers, Return(w) PROVE Stops(w)
BY DEF TypeOK, Return, Stops, Rest

LEMMA CheckGoes ==
    ASSUME TypeOK, NEW w \in Workers, worker' = [worker EXCEPT ![w] = CheckFrame(worker[w].build)]
    PROVE  Goes(w, "check_build")
<1>1. CheckFrame(worker[w].build).pc = "check_build"
      /\ CheckFrame(worker[w].build).build = worker[w].build
  BY DEF CheckFrame, Idle
<1> QED BY <1>1 DEF TypeOK, Goes, Rest, CheckPcs

LEMMA LookupDoes ==
    ASSUME TypeOK, NEW w \in Workers, CreateBuildLookup(w)
    PROVE  LET frame == worker'[w] IN
           /\ UNCHANGED Tables /\ Rest(w) /\ worker[w].pc = "idle"
           /\ Fault \/ UNCHANGED faults
           /\ frame.pc \in {"create_upload", "create_build"}
           /\ frame.pc = "create_upload" => frame.parent = None /\ ~frame.known
           /\ frame.pc = "create_build" =>
                 /\ frame.upload \in Uploads /\ upload[frame.upload].channel
                 /\ frame.parent = None \/ frame.parent = upload[frame.upload].head
<1>1. UNCHANGED Tables /\ worker[w].pc = "idle"
  BY DEF CreateBuildLookup, Tables
<1>2. CASE CreateBuildFindsChannel(w)
  <2>1. PICK u \in {v \in Uploads : upload[v].channel}, known \in BOOLEAN :
           /\ worker' = [worker EXCEPT ![w] = [Idle EXCEPT !.pc = "create_build",
                            !.upload = u, !.known = known,
                            !.parent = IF known THEN upload[u].head ELSE None]]
           /\ IF known THEN UNCHANGED faults ELSE Fault
    BY <1>2 DEF CreateBuildFindsChannel
  <2> DEFINE frame == [Idle EXCEPT !.pc = "create_build", !.upload = u, !.known = known,
                           !.parent = IF known THEN upload[u].head ELSE None]
  <2>2. /\ frame.pc = "create_build" /\ frame.upload = u
        /\ frame.parent = None \/ frame.parent = upload[u].head
    BY DEF Idle
  <2>3. worker' = [worker EXCEPT ![w] = frame]
    BY <2>1
  <2> HIDE DEF frame
  <2>4. worker'[w] = frame /\ Rest(w)
    BY <2>3 DEF TypeOK, Rest
  <2> QED BY <1>1, <2>1, <2>2, <2>4
<1>3. CASE CreateBuildFindsNone(w)
  <2> DEFINE frame == [Idle EXCEPT !.pc = "create_upload"]
  <2>1. frame.pc = "create_upload" /\ frame.parent = None /\ ~frame.known
    BY DEF Idle
  <2>2. worker' = [worker EXCEPT ![w] = frame] /\ (Fault \/ UNCHANGED faults)
    BY <1>3 DEF CreateBuildFindsNone
  <2> HIDE DEF frame
  <2>3. worker'[w] = frame /\ Rest(w)
    BY <2>2 DEF TypeOK, Rest
  <2> QED BY <1>1, <2>1, <2>2, <2>3
<1> QED BY <1>2, <1>3 DEF CreateBuildLookup

LEMMA UploadDoes ==
    ASSUME TypeOK, NEW w \in Workers, CreateBuildUpload(w)
    PROVE  LET frame == worker'[w] IN
           /\ UNCHANGED <<Tables, faults>> /\ Rest(w) /\ worker[w].pc = "create_upload"
           /\ frame.pc = "create_build" /\ frame.upload \in Uploads
           /\ frame.parent = worker[w].parent /\ frame.known = worker[w].known
<1> DEFINE frame == [worker[w] EXCEPT !.pc = "create_build", !.upload = nuploads + 1]
<1>1. worker[w] \in Frame /\ nuploads + 1 \in Uploads
  BY Bounds DEF TypeOK, CreateBuildUpload, Uploads
<1>2. /\ frame.pc = "create_build" /\ frame.upload \in Uploads /\ frame.parent = worker[w].parent
      /\ frame.known = worker[w].known
  BY <1>1 DEF Frame
<1>3. worker' = [worker EXCEPT ![w] = frame]
  BY DEF CreateBuildUpload
<1> HIDE DEF frame
<1>4. worker'[w] = frame /\ Rest(w)
  BY <1>3 DEF TypeOK, Rest
<1> QED BY <1>2, <1>4 DEF CreateBuildUpload, Tables

LEMMA InsertDoes ==
    ASSUME TypeOK, NEW w \in Workers, CreateBuildInsert(w)
    PROVE  LET b == nbuilds + 1 frame == worker'[w] IN
           /\ UNCHANGED <<upload, file, object, faults>> /\ Rest(w)
           /\ worker[w].pc = "create_build" /\ b \in BuildIds
           /\ nbuilds' = b
           /\ build'[b] = [state |-> "started", upload |-> worker[w].upload,
                           parent |-> worker[w].parent]
           /\ \A c \in BuildIds : c # b => build'[c] = build[c]
           /\ \/ worker[w].known /\ Stops(w)
              \/ frame.pc = "create_channel" /\ frame.build = b /\ frame.upload = worker[w].upload
<1> DEFINE b == nbuilds + 1
           frame == [worker[w] EXCEPT !.pc = "create_channel", !.build = b]
<1>1. worker[w] \in Frame /\ b \in BuildIds
  BY Bounds DEF TypeOK, CreateBuildInsert, BuildIds
<1>2. frame.pc = "create_channel" /\ frame.build = b /\ frame.upload = worker[w].upload
  BY <1>1 DEF Frame
<1>3. /\ build'[b] = [state |-> "started", upload |-> worker[w].upload, parent |-> worker[w].parent]
      /\ \A c \in BuildIds : c # b => build'[c] = build[c]
  BY <1>1 DEF CreateBuildInsert, TypeOK
<1>4. (worker[w].known /\ Stops(w)) \/ worker' = [worker EXCEPT ![w] = frame]
  BY ReturnStops DEF CreateBuildInsert
<1> HIDE DEF frame
<1>5. worker' = [worker EXCEPT ![w] = frame] => worker'[w] = frame /\ Rest(w)
  BY DEF TypeOK, Rest
<1>6. UNCHANGED <<upload, file, object, faults>> /\ worker[w].pc = "create_build" /\ nbuilds' = b
  BY DEF CreateBuildInsert
<1> QED BY <1>1, <1>2, <1>3, <1>4, <1>5, <1>6 DEF Stops

LEMMA ChannelDoes ==
    ASSUME TypeOK, NEW w \in Workers, CreateBuildChannel(w)
    PROVE  LET u == worker[w].upload IN
           /\ UNCHANGED <<nbuilds, build, file, object, faults>> /\ Stops(w)
           /\ worker[w].pc = "create_channel"
           /\ \A v \in Uploads : upload'[v].head = upload[v].head
           /\ \A v \in Uploads : upload[v].channel \/ v = u => upload'[v].channel
BY ReturnStops DEF CreateBuildChannel, TypeOK, UploadRow

LEMMA SetStateDoes ==
    ASSUME TypeOK, NEW b \in BuildIds, NEW state, SetBuildState(b, state)
    PROVE  /\ build'[b].state = state
           /\ \A c \in BuildIds : /\ c # b => build'[c] = build[c]
                                  /\ build'[c].parent = build[c].parent
                                  /\ build'[c].upload = build[c].upload
BY DEF SetBuildState, TypeOK, BuildRow

\* A step of the check that moves on or returns and leaves the tables alone.
LEMMA CheckBuildDoes ==
    ASSUME TypeOK, NEW w \in Workers, CheckBuild(w)
    PROVE  /\ UNCHANGED <<Tables, faults>> /\ worker[w].pc = "check_build"
           /\ IF build[worker[w].build].state \in {"started", "processing"}
              THEN Goes(w, "check_files") ELSE Stops(w)
<1> DEFINE state == build[worker[w].build].state
           frame == [worker[w] EXCEPT !.pc = "check_files", !.seen = state]
<1>1. worker[w] \in Frame
  BY DEF TypeOK
<1>2. frame.pc = "check_files" /\ frame.build = worker[w].build /\ frame.upload = worker[w].upload
  BY <1>1 DEF Frame
<1>3. IF state \in {"started", "processing"} THEN worker' = [worker EXCEPT ![w] = frame] ELSE Return(w)
  BY DEF CheckBuild
<1> HIDE DEF frame
<1>4. worker' = [worker EXCEPT ![w] = frame] => worker'[w] = frame /\ Rest(w)
  BY DEF TypeOK, Rest
<1>5. UNCHANGED <<Tables, faults>> /\ worker[w].pc = "check_build"
  BY DEF CheckBuild, Tables
<1> QED BY <1>2, <1>3, <1>4, <1>5, ReturnStops DEF Goes

Ready(b) == Uploaded(b, "patch") # {} /\ Uploaded(b, "signature") # {}
Whole(b) == Ready(b) /\ Uploaded(b, "archive") # {}

LEMMA CheckFilesDoes ==
    ASSUME TypeOK, NEW w \in Workers, CheckFiles(w)
    PROVE  LET b == worker[w].build IN
           /\ UNCHANGED <<Tables, faults>> /\ worker[w].pc = "check_files"
           /\ \/ HasFailedFile(b) /\ Goes(w, "fail")
              \/ Ready(b) /\ Goes(w, "claim")
              \/ Whole(b) /\ Goes(w, "complete")
              \/ Stops(w)
<1> DEFINE b == worker[w].build
<1>1. UNCHANGED <<Tables, faults>> /\ worker[w].pc = "check_files"
  BY DEF CheckFiles, Tables
<1>2. CASE HasFailedFile(b)
  BY <1>1, <1>2, GotoGoes DEF CheckFiles
<1>3. CASE ~HasFailedFile(b)
  <2>1. PICK patch \in Readiness(b, "patch"), signature \in Readiness(b, "signature"),
             archive \in Readiness(b, "archive") :
                \/ /\ patch /\ signature /\ ~archive /\ worker[w].seen = "started"
                   /\ Goto(w, "claim")
                \/ /\ patch /\ signature /\ archive
                   /\ Goto(w, "complete")
                \/ /\ ~(patch /\ signature /\ (archive \/ worker[w].seen = "started"))
                   /\ Return(w)
    BY <1>3 DEF CheckFiles
  <2>2. \A k : Uploaded(b, k) = {} => ~(\E x \in Readiness(b, k) : x)
    BY DEF Readiness
  <2>3. (patch => Uploaded(b, "patch") # {}) /\ (signature => Uploaded(b, "signature") # {})
        /\ (archive => Uploaded(b, "archive") # {})
    BY <2>2
  <2> QED BY <1>1, <2>1, <2>3, GotoGoes, ReturnStops DEF Ready, Whole
<1> QED BY <1>2, <1>3

-----------------------------------------------------------------------------
(* Rows: what was uploaded stays as it was judged *)

Present(f) == file[f].state # "absent"

RowFits(f) ==
    /\ Present(f) => (file[f].url <=> f[2] # "archive")
    /\ file[f].state = "uploaded" => object[f] = "full" /\ file[f].size = "full"
    /\ file[f].state = "failed" => object[f] \notin {"none", "full"}
    /\ f[2] = "archive" => file[f].state \in {"absent", "uploaded"}

\* A finalization in progress has judged its row by the object, which honest
\* clients store once.
WriteFits(w) ==
    LET frame == worker[w] f == frame.file IN
    frame.pc = "finalize_write" =>
        /\ file[f].url /\ object[f] # "none"
        /\ IF object[f] = "full" THEN frame.write = "uploaded" /\ frame.size = "full"
                                 ELSE frame.write = "failed"

OneRow == \A f, g \in Files : Present(f) /\ Present(g) /\ f[1] = g[1] /\ f[2] = g[2] => f = g

RowsInv == (\A f \in Files : RowFits(f)) /\ (\A w \in Workers : WriteFits(w)) /\ OneRow

LEMMA RowsInit == Init => RowsInv
BY DEF Init, RowsInv, RowFits, WriteFits, OneRow, Present, Idle

LEMMA RowsAreFinite ==
    ASSUME NEW b, NEW k, NEW S \in SUBSET RowsOf(b, k) PROVE IsFiniteSet(S)
<1> DEFINE T == {f \in Files : f[1] = b /\ f[2] = k}
           h == [n \in 1 .. MaxRows |-> <<b, k, n>>]
<1>1. CASE T = {}
  <2>1. S = {}
    BY <1>1 DEF RowsOf
  <2> QED BY <2>1, FS_EmptySet
<1>2. CASE T # {}
  <2>1. b \in BuildIds /\ k \in Kinds
    BY <1>2 DEF Files
  <2>2. h \in [1 .. MaxRows -> T]
    BY <2>1 DEF Files
  <2>3. \A f \in T : \E n \in 1 .. MaxRows : h[n] = f
    BY DEF Files
  <2> HIDE DEF h
  <2>4. h \in Surjection(1 .. MaxRows, T)
    BY <2>2, <2>3 DEF Surjection
  <2>5. IsFiniteSet(1 .. MaxRows)
    BY Bounds, FS_Interval
  <2>6. IsFiniteSet(T)
    BY <2>4, <2>5, FS_Surjection
  <2>7. S \in SUBSET T
    BY DEF RowsOf
  <2> QED BY <2>6, <2>7, FS_Subset
<1> QED BY <1>1, <1>2

\* The first row of its kind.
FirstRow(b, k, row) ==
    LET f == <<b, k, 1>> IN
    /\ f \in Files /\ RowsOf(b, k) = {} /\ file' = [file EXCEPT ![f] = row]

LEMMA InsertsFirst ==
    ASSUME NEW b \in BuildIds, NEW k \in Kinds, NEW row, RowsOf(b, k) = {}, InsertFile(b, k, row)
    PROVE  FirstRow(b, k, row)
<1>1. Cardinality(RowsOf(b, k)) = 0
  BY FS_EmptySet
<1>2. Cardinality(RowsOf(b, k)) + 1 = 1
  BY <1>1
<1>3. 1 <= MaxRows /\ file' = [file EXCEPT ![<<b, k, 1>>] = row]
  BY <1>2 DEF InsertFile
<1>4. <<b, k, 1>> \in Files
  BY <1>3, Bounds DEF Files
<1> QED BY <1>3, <1>4 DEF FirstRow

LEMMA ClientRowIsFirst ==
    ASSUME Butler, TypeOK, RowsInv, NEW b \in BuildIds, NEW k \in ClientKinds, CreateBuildFile(b, k)
    PROVE  /\ FirstRow(b, k, [state |-> "uploading", size |-> "empty", url |-> TRUE])
           /\ k # "archive" /\ UNCHANGED <<nbuilds, build, upload, object, worker, faults>>
           /\ Visible(b)
<1> DEFINE S == {f \in RowsOf(b, k) : file[f].url}
<1>1. k \in Kinds /\ k # "archive"
  BY ClientAssumption DEF Butler
<1>2. S = {}
  <2>1. IsFiniteSet(S)
    BY RowsAreFinite
  <2>2. Cardinality(S) < 1
    BY DEF CreateBuildFile, Butler
  <2> HIDE DEF S
  <2>3. Cardinality(S) = 0
    BY <2>1, <2>2, FS_CardinalityType
  <2> QED BY <2>1, <2>3, FS_EmptySet
<1>3. RowsOf(b, k) = {}
  BY <1>1, <1>2 DEF RowsOf, RowsInv, RowFits, Present
<1>4. InsertFile(b, k, [state |-> "uploading", size |-> "empty", url |-> TRUE])
  BY DEF CreateBuildFile
<1> QED BY <1>1, <1>3, <1>4, InsertsFirst DEF CreateBuildFile

LEMMA ArchiveRowIsFirst ==
    ASSUME TypeOK, LineageInv, ClaimInv, RowsInv, NEW w \in Workers, RecordArchive(w)
    PROVE  LET b == worker[w].build IN
           /\ b \in BuildIds /\ Generating(w) /\ worker[w].pc = "record_archive"
           /\ FirstRow(b, "archive", [state |-> "uploaded", size |-> "full", url |-> FALSE])
           /\ object' = [object EXCEPT ![<<b, "archive", 1>>] = "full"]
           /\ Goes(w, "check_build") /\ UNCHANGED <<nbuilds, build, upload, faults>>
<1> DEFINE b == worker[w].build
<1>1. b \in BuildIds /\ Generating(w) /\ worker[w].pc = "record_archive"
  BY BusyBuild DEF RecordArchive, BusyPcs, CheckPcs, GeneratePcs, Generating
<1>2. RowsOf(b, "archive") = {}
  BY <1>1 DEF RowsOf, RowsInv, RowFits, Present, Generated, ClaimInv, GeneratedIsOver
<1>3. InsertFile(b, "archive", [state |-> "uploaded", size |-> "full", url |-> FALSE])
      /\ UNCHANGED <<nbuilds, build, upload, faults>>
  BY DEF RecordArchive
<1>4. "archive" \in Kinds
  BY DEF Kinds
<1>5. FirstRow(b, "archive", [state |-> "uploaded", size |-> "full", url |-> FALSE])
  BY <1>1, <1>2, <1>3, <1>4, InsertsFirst
<1>6. Cardinality(RowsOf(b, "archive")) + 1 = 1
  BY <1>2, FS_EmptySet
<1>7. object' = [object EXCEPT ![<<b, "archive", 1>>] = "full"]
  BY <1>6 DEF RecordArchive
<1>8. Goes(w, "check_build")
  BY CheckGoes DEF RecordArchive
<1> QED BY <1>1, <1>3, <1>5, <1>7, <1>8

\* A finalization writes what the object says, or nothing.
LEMMA WriteDoes ==
    ASSUME TypeOK, LineageInv, RowsInv, NEW w \in Workers, FinalizeWrite(w)
    PROVE  LET f == worker[w].file IN
           /\ worker[w].pc = "finalize_write" /\ f \in Files /\ Present(f) /\ f[2] # "archive"
           /\ Goes(w, "check_build") /\ UNCHANGED <<nbuilds, build, upload, object>>
           /\ Fault \/ UNCHANGED faults
           /\ object[f] # "none"
           /\ \/ UNCHANGED file
              \/ /\ file' \in [Files -> FileRow] /\ \A g \in Files \ {f} : file'[g] = file[g]
                 /\ file'[f].url = file[f].url
                 /\ IF object[f] = "full"
                    THEN file'[f].state = "uploaded" /\ file'[f].size = "full"
                    ELSE file'[f].state = "failed"
<1> DEFINE f == worker[w].file
           row == [file[f] EXCEPT !.state = worker[w].write, !.size = worker[w].size]
<1>1. worker[w].pc = "finalize_write" /\ f \in Files /\ Present(f)
  BY DEF FinalizeWrite, LineageInv, FramesExist, FrameLineage, Present
<1>2. file[f].url /\ f[2] # "archive" /\ object[f] # "none"
  BY <1>1 DEF RowsInv, RowFits, WriteFits
<1>3. IF object[f] = "full" THEN worker[w].write = "uploaded" /\ worker[w].size = "full"
                            ELSE worker[w].write = "failed"
  BY <1>1 DEF RowsInv, WriteFits
<1>4. /\ row \in FileRow /\ row.state = worker[w].write /\ row.size = worker[w].size
      /\ row.url = file[f].url
  <2>1. file[f] \in FileRow /\ worker[w] \in Frame
    BY <1>1 DEF TypeOK
  <2>2. worker[w].write \in FileStates /\ worker[w].size \in Sizes
    BY <2>1 DEF Frame, FileStates
  <2> QED BY <2>1, <2>2 DEF FileRow
<1>5. file' = [file EXCEPT ![f] = row] \/ UNCHANGED file
  BY <1>1 DEF FinalizeWrite, TypeOK
<1>6. UNCHANGED <<nbuilds, build, upload, object>> /\ (Fault \/ UNCHANGED faults) /\ Goes(w, "check_build")
  BY CheckGoes DEF FinalizeWrite
<1> HIDE DEF row
<1>7. file' = [file EXCEPT ![f] = row] =>
          /\ file' \in [Files -> FileRow] /\ file'[f] = row
          /\ \A g \in Files \ {f} : file'[g] = file[g]
  BY <1>1, <1>4 DEF TypeOK
<1> QED BY <1>1, <1>2, <1>3, <1>4, <1>5, <1>6, <1>7

LEMMA LoadDoes ==
    ASSUME Butler, TypeOK, RowsInv, NEW w \in Workers, NEW f \in Files, NEW s \in Sizes,
           FinalizeLoad(w, f, s)
    PROVE  LET frame == worker'[w] IN
           /\ UNCHANGED <<Tables, faults>> /\ Rest(w) /\ worker[w].pc = "idle"
           /\ frame.pc = "finalize_write" /\ frame.file = f /\ frame.build = f[1]
           /\ file[f].url /\ object[f] # "none"
           /\ IF object[f] = "full" THEN frame.write = "uploaded" /\ frame.size = "full"
                                    ELSE frame.write = "failed"
<1> DEFINE frame == [Idle EXCEPT !.pc = "finalize_write", !.build = f[1], !.file = f,
             !.write = IF s # "empty" /\ s # object[f] THEN "failed" ELSE "uploaded",
             !.size = IF s # "empty" /\ s # object[f] THEN file[f].size ELSE object[f]]
<1>1. /\ UNCHANGED <<Tables, faults>> /\ worker[w].pc = "idle" /\ file[f].url
      /\ object[f] # "none" /\ s = "full" /\ worker' = [worker EXCEPT ![w] = frame]
  BY DEF FinalizeLoad, Butler, Tables
<1>2. /\ frame.pc = "finalize_write" /\ frame.file = f /\ frame.build = f[1]
      /\ IF object[f] = "full" THEN frame.write = "uploaded" /\ frame.size = "full"
                               ELSE frame.write = "failed"
  BY <1>1 DEF Idle
<1> HIDE DEF frame
<1>3. worker'[w] = frame /\ Rest(w)
  BY <1>1 DEF TypeOK, Rest
<1> QED BY <1>1, <1>2, <1>3

LEMMA PutDoes ==
    ASSUME Butler, TypeOK, NEW f \in Files, NEW s \in StoredSizes, PutObject(f, s)
    PROVE  /\ UNCHANGED <<nbuilds, build, upload, file, worker, faults>>
           /\ file[f].url /\ file[f].state = "uploading" /\ object[f] = "none"
           /\ \A w \in Workers : worker[w].file # f
           /\ \A g \in Files \ {f} : object'[g] = object[g]
BY DEF PutObject, Butler, TypeOK

\* Every other step leaves rows and objects alone and starts no write.
Apart(w) == UNCHANGED <<file, object>> /\ Rest(w) /\ worker'[w].pc # "finalize_write"

LEMMA OthersApart ==
    ASSUME TypeOK, NEW w \in Workers, CreateBuildLookup(w) \/ Abandon(w) \/ Advance(w)
    PROVE  Apart(w) \/ FinalizeWrite(w) \/ RecordArchive(w)
<1>1. ASSUME Stops(w), UNCHANGED <<file, object>> PROVE Apart(w)
  BY <1>1 DEF Stops, Apart, Idle
<1>2. ASSUME NEW pc, Goes(w, pc), pc # "finalize_write", UNCHANGED <<file, object>> PROVE Apart(w)
  BY <1>2 DEF Goes, Apart
<1>3. CASE CreateBuildLookup(w)
  BY <1>3, LookupDoes DEF Apart, Tables
<1>4. CASE CreateBuildUpload(w)
  BY <1>4, UploadDoes DEF Apart, Tables
<1>5. CASE CreateBuildInsert(w)
  BY <1>1, <1>5, InsertDoes DEF Apart
<1>6. CASE CreateBuildChannel(w)
  BY <1>1, <1>6, ChannelDoes
<1>7. CASE CheckBuild(w)
  BY <1>1, <1>2, <1>7, CheckBuildDoes DEF Tables
<1>8. CASE CheckFiles(w)
  BY <1>1, <1>2, <1>8, CheckFilesDoes DEF Tables
<1>9. CASE FailBuild(w) \/ AdvanceHead(w) \/ Abandon(w)
  BY <1>1, <1>9, ReturnStops DEF FailBuild, AdvanceHead, Abandon
<1>10. CASE Claim(w)
  BY <1>1, <1>2, <1>10, ReturnStops, GotoGoes DEF Claim
<1>11. CASE GenerateArchive(w)
  BY <1>2, <1>11, GotoGoes DEF GenerateArchive
<1>12. CASE Complete(w)
  BY <1>2, <1>12, GotoGoes DEF Complete
<1> QED BY <1>3, <1>4, <1>5, <1>6, <1>7, <1>8, <1>9, <1>10, <1>11, <1>12 DEF Advance

\* Rows appear where there was none, and a judgement is repeated, not changed.
RowsStay ==
    \A f \in Files : /\ Present(f) => Present(f)'
                     /\ file[f].state = "uploaded" => file'[f].state = "uploaded"
                     /\ file[f].state = "failed" => file'[f].state = "failed"

LEMMA FirstRowStays ==
    ASSUME TypeOK, NEW b, NEW k, NEW row, FirstRow(b, k, row)
    PROVE  LET f == <<b, k, 1>> IN
           /\ f \in Files /\ ~Present(f) /\ file'[f] = row
           /\ \A g \in Files \ {f} : file'[g] = file[g]
           /\ \A g \in Files : Present(g) => ~(g[1] = b /\ g[2] = k)
           /\ RowsStay
BY DEF FirstRow, RowsOf, Present, TypeOK, RowsStay

LEMMA RowsStep ==
    ASSUME Butler, TypeOK, LineageInv, ClaimInv, RowsInv, [Next]_vars
    PROVE  RowsInv' /\ RowsStay
<1>1. ASSUME NEW w \in Workers, Apart(w) PROVE RowsInv' /\ RowsStay
  BY <1>1 DEF Apart, Rest, RowsInv, RowFits, WriteFits, OneRow, Present, RowsStay
<1>2. ASSUME NEW w \in Workers, FinalizeWrite(w) PROVE RowsInv' /\ RowsStay
  <2> DEFINE f == worker[w].file
  <2>1. /\ f \in Files /\ Present(f) /\ f[2] # "archive" /\ Rest(w) /\ UNCHANGED object
        /\ worker'[w].pc # "finalize_write" /\ RowFits(f) /\ object[f] # "none"
    BY <1>2, WriteDoes DEF Goes, RowsInv
  <2>2. CASE UNCHANGED file
    BY <1>1, <2>1, <2>2 DEF Apart
  <2>3. CASE /\ file' \in [Files -> FileRow] /\ \A g \in Files \ {f} : file'[g] = file[g]
             /\ file'[f].url = file[f].url
             /\ IF object[f] = "full"
                THEN file'[f].state = "uploaded" /\ file'[f].size = "full"
                ELSE file'[f].state = "failed"
    <3>1. file'[f].state \in {"uploaded", "failed"}
      BY <2>3
    <3>2. \A g \in Files : RowFits(g)' /\ (Present(g)' <=> Present(g))
      <4> SUFFICES ASSUME NEW g \in Files PROVE RowFits(g)' /\ (Present(g)' <=> Present(g))
        OBVIOUS
      <4>1. CASE g = f
        <5> HIDE DEF f
        <5> QED BY <2>1, <2>3, <3>1, <4>1 DEF RowFits, Present
      <4>2. CASE g # f
        BY <2>1, <2>3, <4>2 DEF RowsInv, RowFits, Present
      <4> QED BY <4>1, <4>2
    <3>3. \A g \in Files : file'[g].url = file[g].url
      BY <2>1, <2>3
    <3>4. \A v \in Workers \ {w} : worker[v].pc = "finalize_write" => worker[v].file \in Files
      BY DEF LineageInv, FramesExist, FrameLineage
    <3>5. \A v \in Workers : WriteFits(v)'
      BY <2>1, <3>3, <3>4 DEF Rest, RowsInv, WriteFits
    <3>6. RowsStay
      BY <2>1, <2>3, <3>1, <3>2 DEF RowsStay, RowFits
    <3> QED BY <3>2, <3>5, <3>6 DEF RowsInv, OneRow
  <2> QED BY <1>2, <2>2, <2>3, WriteDoes
<1>3. ASSUME NEW w \in Workers, RecordArchive(w) PROVE RowsInv' /\ RowsStay
  <2> DEFINE b == worker[w].build f == <<b, "archive", 1>>
             row == [state |-> "uploaded", size |-> "full", url |-> FALSE]
  <2>1. /\ FirstRow(b, "archive", row) /\ object' = [object EXCEPT ![f] = "full"]
        /\ Goes(w, "check_build")
    BY <1>3, ArchiveRowIsFirst
  <2>2. /\ f \in Files /\ ~Present(f) /\ file'[f] = row
        /\ \A g \in Files \ {f} : file'[g] = file[g]
        /\ \A g \in Files : Present(g) => ~(g[1] = b /\ g[2] = "archive")
        /\ RowsStay
    BY <2>1, FirstRowStays
  <2>3. object'[f] = "full" /\ \A g \in Files \ {f} : object'[g] = object[g]
    BY <2>1, <2>2 DEF TypeOK
  <2>4. f[1] = b /\ f[2] = "archive" /\ row.state = "uploaded" /\ row.size = "full" /\ ~row.url
    OBVIOUS
  <2>5. \A v \in Workers \ {w} : worker[v].pc = "finalize_write" =>
             worker[v].file \in Files /\ Present(worker[v].file)
    BY DEF LineageInv, FramesExist, FrameLineage, Present
  <2> HIDE DEF f, row
  <2>6. \A v \in Workers : WriteFits(v)'
    BY <2>1, <2>2, <2>3, <2>5 DEF Goes, Rest, RowsInv, WriteFits
  <2>7. \A g \in Files : RowFits(g)'
    BY <2>2, <2>3, <2>4 DEF RowsInv, RowFits, Present
  <2>8. OneRow'
    BY <2>2, <2>4 DEF RowsInv, OneRow, Present
  <2> QED BY <2>2, <2>6, <2>7, <2>8 DEF RowsInv
<1>4. ASSUME NEW b \in BuildIds, NEW k \in ClientKinds, CreateBuildFile(b, k)
      PROVE  RowsInv' /\ RowsStay
  <2> DEFINE f == <<b, k, 1>> row == [state |-> "uploading", size |-> "empty", url |-> TRUE]
  <2>1. FirstRow(b, k, row) /\ UNCHANGED <<object, worker>> /\ k # "archive"
    BY <1>4, ClientRowIsFirst
  <2>2. /\ f \in Files /\ ~Present(f) /\ file'[f] = row
        /\ \A g \in Files \ {f} : file'[g] = file[g]
        /\ \A g \in Files : Present(g) => ~(g[1] = b /\ g[2] = k)
        /\ RowsStay
    BY <2>1, FirstRowStays
  <2>3. f[1] = b /\ f[2] = k /\ row.state = "uploading" /\ row.url
    OBVIOUS
  <2>4. \A v \in Workers : worker[v].pc = "finalize_write" =>
             worker[v].file \in Files /\ Present(worker[v].file)
    BY DEF LineageInv, FramesExist, FrameLineage, Present
  <2> HIDE DEF f, row
  <2>5. \A v \in Workers : WriteFits(v)'
    BY <2>1, <2>2, <2>4 DEF RowsInv, WriteFits
  <2>6. \A g \in Files : RowFits(g)'
    BY <2>1, <2>2, <2>3 DEF RowsInv, RowFits, Present
  <2>7. OneRow'
    BY <2>2, <2>3 DEF RowsInv, OneRow, Present
  <2> QED BY <2>2, <2>5, <2>6, <2>7 DEF RowsInv
<1>5. ASSUME NEW f \in Files, NEW s \in StoredSizes, PutObject(f, s) PROVE RowsInv' /\ RowsStay
  <2>1. /\ UNCHANGED <<file, worker>> /\ file[f].state = "uploading"
        /\ \A w \in Workers : worker[w].file # f
        /\ \A g \in Files \ {f} : object'[g] = object[g]
    BY <1>5, PutDoes
  <2>2. \A v \in Workers : worker[v].pc = "finalize_write" => worker[v].file \in Files
    BY DEF LineageInv, FramesExist, FrameLineage
  <2>3. \A v \in Workers : WriteFits(v)'
    BY <2>1, <2>2 DEF RowsInv, WriteFits
  <2>4. \A g \in Files : RowFits(g)'
    BY <2>1 DEF RowsInv, RowFits, Present
  <2> QED BY <2>1, <2>3, <2>4 DEF RowsInv, OneRow, Present, RowsStay
<1>6. ASSUME NEW w \in Workers, NEW f \in Files, NEW s \in Sizes, FinalizeLoad(w, f, s)
      PROVE  RowsInv' /\ RowsStay
  <2>1. UNCHANGED <<file, object>>
    BY <1>6, LoadDoes DEF Tables
  <2>2. \A v \in Workers : WriteFits(v)'
    BY <1>6, <2>1, LoadDoes DEF RowsInv, WriteFits, Rest
  <2> QED BY <2>1, <2>2 DEF RowsInv, RowFits, OneRow, Present, RowsStay
<1>7. CASE UNCHANGED vars
  BY <1>7 DEF vars, RowsInv, RowFits, WriteFits, OneRow, Present, RowsStay
<1> QED BY <1>1, <1>2, <1>3, <1>4, <1>5, <1>6, <1>7, OthersApart DEF Next

-----------------------------------------------------------------------------
(* How a step moves handlers, builds and heads *)

\* What the handler that takes a step has learnt when it goes on.
Moves(w) ==
    LET b == worker[w].build pc == worker'[w].pc IN
    /\ Rest(w)
    /\ pc \in GeneratePcs \cup {"fail", "claim", "complete", "advance"} => worker'[w].build = b
    /\ pc = "fail" => \/ HasFailedFile(b)
                      \/ /\ worker[w].pc = "generate" /\ UNCHANGED file
                         /\ Fault \/ CanFail(b)
    /\ pc = "claim" => Ready(b)
    /\ pc = "generate" => worker[w].pc = "claim" /\ build[b].state = "started"
    /\ pc = "record_archive" => worker[w].pc = "generate"
    /\ pc = "complete" => Whole(b)
    /\ pc = "advance" => worker[w].pc = "complete" /\ build'[b].state = "completed"
    /\ pc = "create_upload" => ~worker'[w].known
    /\ pc = "create_build" =>
           /\ \/ worker'[w].parent = None
              \/ \E u \in Uploads : worker'[w].parent = upload[u].head
           /\ worker'[w].upload \in Uploads
           /\ \/ upload[worker'[w].upload].channel
              \/ worker[w].pc = "create_upload" /\ worker'[w].known = worker[w].known

BuildMoves(b) ==
    \/ build'[b] = build[b]
    \/ /\ build'[b].parent = build[b].parent /\ build'[b].upload = build[b].upload
       /\ \E w \in Workers :
              /\ worker[w].build = b
              /\ \/ /\ build[b].state = "started" /\ build'[b].state = "processing"
                    /\ worker[w].pc = "claim" /\ Goes(w, "generate")
                 \/ worker[w].pc = "fail" /\ build'[b].state = "failed"
                 \/ /\ build'[b].state = "completed"
                    /\ worker[w].pc = "complete" /\ Goes(w, "advance")
    \/ /\ build[b].state = "absent" /\ build'[b].state = "started"
       /\ \E w \in Workers :
              /\ worker[w].pc = "create_build" /\ build'[b].parent = worker[w].parent
              /\ build'[b].upload = worker[w].upload
              /\ \/ worker[w].known
                 \/ /\ worker'[w].pc = "create_channel" /\ worker'[w].build = b
                    /\ worker'[w].upload = worker[w].upload

HeadMoves(u) ==
    /\ upload[u].channel => upload'[u].channel
    /\ \/ upload'[u].head = upload[u].head
       \/ \E w \in Workers : /\ worker[w].pc = "advance" /\ upload'[u].head = worker[w].build
                             /\ UNCHANGED build

LEMMA StopsMoves == ASSUME NEW w \in Workers, Stops(w) PROVE Moves(w)
BY DEF Stops, Moves, Idle, GeneratePcs

LEMMA GoesMoves ==
    ASSUME NEW w \in Workers, NEW pc \in {"check_build", "check_files", "create_channel"}, Goes(w, pc)
    PROVE  Moves(w)
BY DEF Goes, Moves, GeneratePcs

LEMMA FailDoes ==
    ASSUME TypeOK, LineageInv, NEW w \in Workers, FailBuild(w)
    PROVE  LET b == worker[w].build IN
           /\ worker[w].pc = "fail" /\ b \in BuildIds /\ Stops(w)
           /\ build'[b].state = "failed"
           /\ build'[b].parent = build[b].parent /\ build'[b].upload = build[b].upload
           /\ \A c \in BuildIds \ {b} : build'[c] = build[c]
           /\ UNCHANGED <<nbuilds, upload, file, object, faults>>
<1>1. worker[w].pc = "fail" /\ worker[w].build \in BuildIds
  BY BusyBuild DEF FailBuild, BusyPcs, CheckPcs
<1>2. SetBuildState(worker[w].build, "failed") /\ UNCHANGED <<nbuilds, upload, file, object, faults>>
  BY DEF FailBuild
<1> QED BY <1>1, <1>2, SetStateDoes, ReturnStops DEF FailBuild

LEMMA CompleteDoes ==
    ASSUME TypeOK, LineageInv, NEW w \in Workers, Complete(w)
    PROVE  LET b == worker[w].build IN
           /\ worker[w].pc = "complete" /\ b \in BuildIds /\ Goes(w, "advance")
           /\ build'[b].state = "completed"
           /\ build'[b].parent = build[b].parent /\ build'[b].upload = build[b].upload
           /\ \A c \in BuildIds \ {b} : build'[c] = build[c]
           /\ UNCHANGED <<nbuilds, upload, file, object, faults>>
<1>1. worker[w].pc = "complete" /\ worker[w].build \in BuildIds
  BY BusyBuild DEF Complete, BusyPcs, CheckPcs
<1>2. SetBuildState(worker[w].build, "completed") /\ UNCHANGED <<nbuilds, upload, file, object, faults>>
  BY DEF Complete
<1> QED BY <1>1, <1>2, SetStateDoes, GotoGoes DEF Complete

LEMMA ClaimDoes ==
    ASSUME TypeOK, LineageInv, NEW w \in Workers, Claim(w)
    PROVE  LET b == worker[w].build IN
           /\ worker[w].pc = "claim" /\ b \in BuildIds
           /\ UNCHANGED <<nbuilds, upload, file, object, faults>>
           /\ \/ /\ build[b].state = "started" /\ build'[b].state = "processing"
                 /\ build'[b].parent = build[b].parent /\ build'[b].upload = build[b].upload
                 /\ \A c \in BuildIds \ {b} : build'[c] = build[c]
                 /\ Goes(w, "generate")
              \/ build[b].state # "started" /\ UNCHANGED build /\ Stops(w)
<1>1. worker[w].pc = "claim" /\ worker[w].build \in BuildIds
  BY BusyBuild DEF Claim, BusyPcs, CheckPcs
<1>2. CASE build[worker[w].build].state = "started"
  <2>1. SetBuildState(worker[w].build, "processing") /\ Goto(w, "generate")
        /\ UNCHANGED <<nbuilds, upload, file, object, faults>>
    BY <1>2 DEF Claim
  <2> QED BY <1>1, <1>2, <2>1, SetStateDoes, GotoGoes
<1>3. CASE build[worker[w].build].state # "started"
  BY <1>1, <1>3, ReturnStops DEF Claim
<1> QED BY <1>2, <1>3

LEMMA GenerateDoes ==
    ASSUME TypeOK, NEW w \in Workers, GenerateArchive(w)
    PROVE  /\ worker[w].pc = "generate" /\ UNCHANGED Tables
           /\ \/ Goes(w, "record_archive") /\ UNCHANGED faults
              \/ Goes(w, "fail") /\ (Fault \/ (CanFail(worker[w].build) /\ UNCHANGED faults))
<1>1. worker[w].pc = "generate" /\ UNCHANGED Tables
  BY DEF GenerateArchive, Tables
<1> QED BY <1>1, GotoGoes DEF GenerateArchive

LEMMA HeadDoes ==
    ASSUME TypeOK, NEW w \in Workers, AdvanceHead(w)
    PROVE  LET b == worker[w].build IN
           /\ worker[w].pc = "advance" /\ Stops(w)
           /\ UNCHANGED <<nbuilds, build, file, object, faults>>
           /\ \A u \in Uploads : /\ upload'[u].channel = upload[u].channel
                                 /\ \/ upload'[u].head = upload[u].head
                                    \/ upload'[u].head = b
           /\ LET u == build[b].upload IN
              u \in Uploads /\ upload[u].channel => upload'[u].head = b
BY ReturnStops DEF AdvanceHead, TypeOK, UploadRow

LEMMA AbandonDoes ==
    ASSUME TypeOK, NEW w \in Workers, Abandon(w)
    PROVE  Stops(w) /\ Fault /\ UNCHANGED Tables
BY ReturnStops DEF Abandon, Tables

\* A step is of one handler, or of a client and moves none.
LEMMA StepMoves ==
    ASSUME Butler, TypeOK, LineageInv, ClaimInv, RowsInv, [Next]_vars
    PROVE  /\ UNCHANGED worker \/ \E w \in Workers : Moves(w)
           /\ \A b \in BuildIds : BuildMoves(b)
           /\ \A u \in Uploads : HeadMoves(u)
<1> DEFINE All == /\ UNCHANGED worker \/ \E w \in Workers : Moves(w)
                  /\ \A b \in BuildIds : BuildMoves(b)
                  /\ \A u \in Uploads : HeadMoves(u)
<1>1. ASSUME UNCHANGED <<build, upload>>, UNCHANGED worker \/ \E w \in Workers : Moves(w) PROVE All
  BY <1>1 DEF BuildMoves, HeadMoves
<1>2. ASSUME NEW w \in Workers, CreateBuildLookup(w) PROVE All
  <2>1. Moves(w)
    BY <1>2, LookupDoes DEF Moves, GeneratePcs
  <2> QED BY <1>1, <1>2, <2>1, LookupDoes DEF Tables
<1>3. ASSUME NEW w \in Workers, CreateBuildUpload(w) PROVE All
  <2>1. worker[w].parent = None
    BY <1>3 DEF CreateBuildUpload, LineageInv, FramesExist, FrameLineage
  <2>2. Moves(w)
    BY <1>3, <2>1, UploadDoes DEF Moves, GeneratePcs
  <2> QED BY <1>1, <1>3, <2>2, UploadDoes DEF Tables
<1>4. ASSUME NEW w \in Workers, CreateBuildInsert(w) PROVE All
  <2> DEFINE b == nbuilds + 1
  <2>1. Moves(w)
    BY <1>4, InsertDoes, StopsMoves DEF Moves, GeneratePcs
  <2>2. /\ b \in BuildIds /\ worker[w].pc = "create_build"
        /\ build'[b] = [state |-> "started", upload |-> worker[w].upload, parent |-> worker[w].parent]
    BY <1>4, InsertDoes
  <2>3. build[b].state = "absent"
    <3>1. b > nbuilds
      BY Bounds DEF TypeOK
    <3> QED BY <2>2, <3>1 DEF LineageInv, UninsertedBuilds
  <2>4. /\ build'[b].state = "started"
        /\ build'[b].parent = worker[w].parent /\ build'[b].upload = worker[w].upload
    BY <2>2
  <2>5. BuildMoves(b)
    BY <1>4, <2>2, <2>3, <2>4, InsertDoes DEF BuildMoves
  <2>6. \A c \in BuildIds : c # b => BuildMoves(c)
    BY <1>4, InsertDoes DEF BuildMoves
  <2> QED BY <1>4, <2>1, <2>5, <2>6, InsertDoes DEF HeadMoves
<1>5. ASSUME NEW w \in Workers, CreateBuildChannel(w) PROVE All
  BY <1>5, ChannelDoes, StopsMoves DEF BuildMoves, HeadMoves
<1>6. ASSUME NEW w \in Workers, FinalizeWrite(w) PROVE All
  BY <1>1, <1>6, WriteDoes, GoesMoves
<1>7. ASSUME NEW w \in Workers, CheckBuild(w) PROVE All
  BY <1>1, <1>7, CheckBuildDoes, GoesMoves, StopsMoves DEF Tables
<1>8. ASSUME NEW w \in Workers, CheckFiles(w) PROVE All
  <2>1. Moves(w)
    BY <1>8, CheckFilesDoes, StopsMoves DEF Goes, Moves, GeneratePcs
  <2> QED BY <1>1, <1>8, <2>1, CheckFilesDoes DEF Tables
<1>9. ASSUME NEW w \in Workers, FailBuild(w) PROVE All
  BY <1>9, FailDoes, StopsMoves DEF BuildMoves, HeadMoves
<1>10. ASSUME NEW w \in Workers, Claim(w) PROVE All
  <2>1. Moves(w)
    BY <1>10, ClaimDoes, StopsMoves DEF Goes, Moves, GeneratePcs
  <2>2. \A b \in BuildIds : BuildMoves(b)
    BY <1>10, ClaimDoes DEF BuildMoves
  <2> QED BY <1>10, <2>1, <2>2, ClaimDoes DEF HeadMoves
<1>11. ASSUME NEW w \in Workers, GenerateArchive(w) PROVE All
  <2>1. Moves(w)
    BY <1>11, GenerateDoes DEF Goes, Moves, GeneratePcs, Tables
  <2> QED BY <1>1, <1>11, <2>1, GenerateDoes DEF Tables
<1>12. ASSUME NEW w \in Workers, RecordArchive(w) PROVE All
  BY <1>1, <1>12, ArchiveRowIsFirst, GoesMoves
<1>13. ASSUME NEW w \in Workers, Complete(w) PROVE All
  <2>1. Moves(w)
    BY <1>13, CompleteDoes DEF Goes, Moves, GeneratePcs
  <2> QED BY <1>13, <2>1, CompleteDoes DEF BuildMoves, HeadMoves
<1>14. ASSUME NEW w \in Workers, AdvanceHead(w) PROVE All
  BY <1>14, HeadDoes, StopsMoves DEF BuildMoves, HeadMoves
<1>15. ASSUME NEW w \in Workers, Abandon(w) PROVE All
  BY <1>1, <1>15, AbandonDoes, StopsMoves DEF Tables
<1>16. ASSUME NEW w \in Workers, NEW f \in Files, NEW s \in Sizes, FinalizeLoad(w, f, s) PROVE All
  <2>1. Moves(w)
    BY <1>16, LoadDoes DEF Moves, GeneratePcs
  <2> QED BY <1>1, <1>16, <2>1, LoadDoes DEF Tables
<1>17. ASSUME UNCHANGED <<build, upload, worker>> PROVE All
  BY <1>1, <1>17
<1> HIDE DEF All
<1>18. ASSUME NEW w \in Workers, Advance(w) PROVE All
  BY <1>18, <1>3, <1>4, <1>5, <1>6, <1>7, <1>8, <1>9, <1>10, <1>11, <1>12, <1>13, <1>14 DEF Advance
<1>19. ASSUME NEW b, NEW k, CreateBuildFile(b, k) PROVE All
  BY <1>17, <1>19 DEF CreateBuildFile
<1>20. ASSUME NEW f, NEW s, PutObject(f, s) PROVE All
  BY <1>17, <1>20 DEF PutObject
<1>21. All
  BY <1>2, <1>15, <1>16, <1>17, <1>18, <1>19, <1>20 DEF Next, vars
<1> QED BY <1>21 DEF All

\* Archive rows are inserted by the handler that generates the archive, other
\* rows for builds that clients see.
LEMMA NewRow ==
    ASSUME Butler, TypeOK, LineageInv, ClaimInv, RowsInv, [Next]_vars,
           NEW f \in Files, ~Present(f), Present(f)'
    PROVE  \/ f[2] # "archive" /\ Visible(f[1])
           \/ \E w \in Workers : Generating(w) /\ worker[w].build = f[1]
<1>1. ASSUME UNCHANGED file PROVE FALSE
  BY <1>1 DEF Present
<1>2. ASSUME NEW w \in Workers, FinalizeWrite(w) PROVE FALSE
  BY <1>1, <1>2, WriteDoes DEF Present
<1>3. ASSUME NEW b \in BuildIds, NEW k \in ClientKinds, CreateBuildFile(b, k)
      PROVE  f[2] # "archive" /\ Visible(f[1])
  <2> DEFINE row == [state |-> "uploading", size |-> "empty", url |-> TRUE]
  <2>1. FirstRow(b, k, row) /\ k # "archive" /\ Visible(b)
    BY <1>3, ClientRowIsFirst
  <2> HIDE DEF row
  <2>2. \A g \in Files \ {<<b, k, 1>>} : file'[g] = file[g]
    BY <2>1, FirstRowStays
  <2> QED BY <2>1, <2>2 DEF Present
<1>4. ASSUME NEW w \in Workers, RecordArchive(w)
      PROVE  Generating(w) /\ worker[w].build = f[1]
  <2> DEFINE row == [state |-> "uploaded", size |-> "full", url |-> FALSE]
  <2>1. FirstRow(worker[w].build, "archive", row) /\ Generating(w)
    BY <1>4, ArchiveRowIsFirst
  <2>2. \A g \in Files \ {<<worker[w].build, "archive", 1>>} : file'[g] = file[g]
    BY <2>1, FirstRowStays
  <2> QED BY <2>1, <2>2 DEF Present
<1>5. ASSUME NEW w \in Workers, CreateBuildLookup(w) \/ Advance(w) \/ Abandon(w)
      PROVE  RecordArchive(w)
  BY <1>1, <1>2, <1>5, OthersApart DEF Apart
<1>6. ASSUME NEW w \in Workers, NEW g \in Files, NEW s \in Sizes, FinalizeLoad(w, g, s) PROVE FALSE
  BY <1>1, <1>6 DEF FinalizeLoad
<1>7. ASSUME NEW g \in Files, NEW s \in StoredSizes, PutObject(g, s) PROVE FALSE
  BY <1>1, <1>7 DEF PutObject
<1>8. ~UNCHANGED vars
  BY <1>1 DEF vars
<1> QED BY <1>3, <1>4, <1>5, <1>6, <1>7, <1>8 DEF Next

-----------------------------------------------------------------------------
(* Builds: what is learnt about a build's files stays true, so an old copy  *)
(* of the build row decides as a new one would                              *)

\* A claimed build whose archive nobody generates and nobody has generated:
\* nothing but a failure comes of it.
Doomed(b) ==
    /\ Claimed(b) /\ RowsOf(b, "archive") = {}
    /\ \A w \in Workers : Generating(w) => worker[w].build # b

Failing(b) == HasFailedFile(b) \/ Doomed(b)

LEMMA WholeIsNotFailing ==
    ASSUME RowsInv, NEW b \in BuildIds, Whole(b) PROVE ~Failing(b)
<1>1. ~Doomed(b)
  BY DEF Whole, Uploaded, Doomed
<1>2. ASSUME NEW f \in Files, f[1] = b, file[f].state = "failed" PROVE FALSE
  <2>1. f[2] \in Kinds
    BY DEF Files
  <2>2. Uploaded(b, f[2]) # {}
    BY <2>1 DEF Whole, Ready, Kinds
  <2>3. PICK g \in Files : g[1] = b /\ g[2] = f[2] /\ file[g].state = "uploaded"
    BY <2>2 DEF Uploaded, RowsOf
  <2>4. f = g
    BY <1>2, <2>3 DEF RowsInv, OneRow, Present
  <2> QED BY <1>2, <2>3, <2>4
<1> QED BY <1>1, <1>2 DEF Failing, HasFailedFile

LEMMA GeneratingFrom ==
    ASSUME NEW w \in Workers, Moves(w), NEW v \in Workers, Generating(v)'
    PROVE  \/ Generating(v) /\ worker'[v].build = worker[v].build
           \/ ~Claimed(worker'[v].build)
<1>1. CASE v # w
  BY <1>1 DEF Moves, Rest, Generating
<1>2. CASE v = w
  BY <1>2 DEF Moves, Generating, GeneratePcs, Claimed
<1> QED BY <1>1, <1>2

LEMMA FactsLast ==
    ASSUME Butler, TypeOK, LineageInv, ClaimInv, RowsInv, [Next]_vars, NEW b \in BuildIds
    PROVE  /\ Ready(b) => Ready(b)'
           /\ Whole(b) => Whole(b)'
           /\ HasFailedFile(b) => HasFailedFile(b)'
           /\ Doomed(b) => Doomed(b)'
           /\ Failing(b) => Failing(b)'
<1>1. RowsStay
  BY RowsStep
<1>2. ASSUME NEW k, Uploaded(b, k) # {} PROVE Uploaded(b, k)' # {}
  BY <1>1, <1>2 DEF RowsStay, Uploaded, RowsOf
<1>3. (Ready(b) => Ready(b)') /\ (Whole(b) => Whole(b)')
  BY <1>2 DEF Ready, Whole
<1>4. HasFailedFile(b) => HasFailedFile(b)'
  BY <1>1 DEF RowsStay, HasFailedFile
<1>5. ASSUME Doomed(b) PROVE Doomed(b)'
  <2>1. Claimed(b)'
    BY <1>5, ClaimsLast DEF Doomed
  <2>2. RowsOf(b, "archive")' = {}
    BY <1>5, NewRow DEF Doomed, RowsOf, Present
  <2>3. \A v \in Workers : Generating(v)' => worker'[v].build # b
    <3>1. CASE UNCHANGED worker
      BY <1>5, <3>1 DEF Doomed, Generating
    <3>2. CASE \E w \in Workers : Moves(w)
      BY <1>5, <3>2, GeneratingFrom DEF Doomed
    <3> QED BY <3>1, <3>2, StepMoves
  <2> QED BY <2>1, <2>2, <2>3 DEF Doomed, Generating
<1> QED BY <1>3, <1>4, <1>5 DEF Failing

\* What a frame knows of its build is still so.
FrameFits(w) ==
    LET frame == worker[w] b == frame.build IN
    /\ frame.pc = "claim" => Ready(b)
    /\ frame.pc \in GeneratePcs => Ready(b)
    /\ frame.pc \in {"complete", "advance"} => Whole(b)
    /\ frame.pc = "advance" => build[b].state = "completed"
    /\ frame.pc = "fail" => Failing(b)
    /\ frame.pc = "create_build" /\ frame.parent # None => build[frame.parent].state = "completed"

BuildFits(b) ==
    /\ build[b].state = "completed" => Whole(b)
    /\ build[b].state = "failed" => Failing(b)
    /\ build[b].parent # None => build[build[b].parent].state = "completed"

HeadFits(u) == upload[u].head # None => build[upload[u].head].state = "completed"

BuildInv ==
    /\ \A w \in Workers : FrameFits(w)
    /\ \A b \in BuildIds : BuildFits(b)
    /\ \A u \in Uploads : HeadFits(u)

LEMMA BuildInit == Init => BuildInv
BY DEF Init, BuildInv, FrameFits, BuildFits, HeadFits, Idle, GeneratePcs

LEMMA SettledLasts ==
    ASSUME Butler, TypeOK, LineageInv, ClaimInv, RowsInv, BuildInv, [Next]_vars,
           NEW b \in BuildIds, build[b].state \in {"completed", "failed"}
    PROVE  build'[b].state = build[b].state
<1>1. BuildMoves(b)
  BY StepMoves
<1>2. ASSUME NEW w \in Workers, worker[w].build = b, worker[w].pc = "fail" PROVE build[b].state = "failed"
  BY <1>2, WholeIsNotFailing DEF BuildInv, FrameFits, BuildFits
<1>3. ASSUME NEW w \in Workers, worker[w].build = b, worker[w].pc = "complete"
      PROVE  build[b].state = "completed"
  BY <1>3, WholeIsNotFailing DEF BuildInv, FrameFits, BuildFits
<1> QED BY <1>1, <1>2, <1>3 DEF BuildMoves

\* A handler that gives up a claimed build leaves no archive behind.
LEMMA GenerationFails ==
    ASSUME Butler, TypeOK, LineageInv, ClaimInv, RowsInv, [Next]_vars,
           NEW w \in Workers, Moves(w), worker[w].pc = "generate", worker'[w].pc = "fail",
           UNCHANGED file, NEW b \in BuildIds, worker[w].build = b
    PROVE  Doomed(b)'
<1>1. Generating(w) /\ Claimed(b)
  BY DEF Generating, GeneratePcs, ClaimInv, GeneratingIsClaimed
<1>2. RowsOf(b, "archive") = {}
  BY <1>1 DEF ClaimInv, GeneratedIsOver, Generated, RowsInv, RowFits, Present, RowsOf
<1>3. RowsOf(b, "archive")' = {}
  BY <1>2 DEF RowsOf
<1>4. \A v \in Workers : Generating(v) /\ worker[v].build = b => v = w
  BY <1>1 DEF ClaimInv, SingleGeneration, Generating
<1>5. \A v \in Workers : Generating(v)' => worker'[v].build # b
  BY <1>1, <1>4 DEF Moves, Rest, Generating, GeneratePcs
<1>6. Claimed(b)'
  BY <1>1, ClaimsLast
<1> QED BY <1>3, <1>5, <1>6 DEF Doomed, Generating

LEMMA BuildStep ==
    ASSUME Butler, TypeOK, LineageInv, ClaimInv, RowsInv, BuildInv, [Next]_vars
    PROVE  BuildInv'
<1>1. \A b \in BuildIds : build[b].state \in {"completed", "failed"} => build'[b].state = build[b].state
  BY SettledLasts
<1>2. \A b \in BuildIds : /\ Ready(b) => Ready(b)'
                          /\ Whole(b) => Whole(b)'
                          /\ Failing(b) => Failing(b)'
  BY FactsLast
<1>3. \A v \in Workers : worker[v].pc \in BusyPcs => worker[v].build \in BuildIds
  BY BusyBuild
<1>4. \A v \in Workers : worker[v].parent \in MaybeBuild
  BY DEF TypeOK, Frame
<1>5. \A u \in Uploads : upload[u].head \in MaybeBuild
  BY DEF TypeOK, UploadRow
<1>6. \A b \in BuildIds : build[b].parent \in MaybeBuild
  BY DEF TypeOK, BuildRow
<1>7. ASSUME NEW v \in Workers, worker'[v] = worker[v] PROVE FrameFits(v)'
  <2>1. FrameFits(v)
    BY DEF BuildInv
  <2>2. worker[v].pc \in {"claim", "complete", "advance", "fail"} \cup GeneratePcs => worker[v].build \in BuildIds
    BY <1>3 DEF BusyPcs, CheckPcs
  <2> QED BY <1>1, <1>2, <1>4, <1>7, <2>1, <2>2 DEF FrameFits, MaybeBuild
<1>8. ASSUME NEW w \in Workers, Moves(w) PROVE FrameFits(w)'
  <2> DEFINE b == worker[w].build pc == worker'[w].pc
  <2>1. ASSUME pc = "claim" PROVE \E c \in BuildIds : worker'[w].build = c /\ Ready(c)'
    <3>1. PICK c : c = b
      OBVIOUS
    <3>2. Ready(c) /\ worker'[w].build = c
      BY <1>8, <2>1, <3>1 DEF Moves
    <3>3. c \in BuildIds
      BY <3>2 DEF Ready, Uploaded, RowsOf, Files
    <3> QED BY <1>2, <3>2, <3>3
  <2>2. ASSUME pc \in GeneratePcs PROVE \E c \in BuildIds : worker'[w].build = c /\ Ready(c)'
    <3>1. PICK c : c = b
      OBVIOUS
    <3>2. worker'[w].build = c /\ worker[w].pc \in {"claim", "generate"}
      BY <1>8, <2>2, <3>1 DEF Moves, GeneratePcs
    <3>3. c \in BuildIds /\ Ready(c)
      BY <1>3, <3>1, <3>2 DEF BuildInv, FrameFits, GeneratePcs, BusyPcs, CheckPcs
    <3> QED BY <1>2, <3>2, <3>3
  <2>3. ASSUME pc \in {"complete", "advance"} PROVE \E c \in BuildIds : worker'[w].build = c /\ Whole(c)'
    <3>1. PICK c : c = b
      OBVIOUS
    <3>2. worker'[w].build = c /\ Whole(c)
      BY <1>8, <2>3, <3>1 DEF Moves, BuildInv, FrameFits
    <3>3. c \in BuildIds
      BY <3>2 DEF Whole, Ready, Uploaded, RowsOf, Files
    <3> QED BY <1>2, <3>2, <3>3
  <2>4. ASSUME pc = "advance" PROVE build'[worker'[w].build].state = "completed"
    BY <1>8, <2>4 DEF Moves
  <2>5. ASSUME pc = "fail" PROVE \E c \in BuildIds : worker'[w].build = c /\ Failing(c)'
    <3>1. PICK c : c = b
      OBVIOUS
    <3>2. worker'[w].build = c
      BY <1>8, <2>5, <3>1 DEF Moves
    <3>3. CASE HasFailedFile(c)
      <4>1. c \in BuildIds
        BY <3>3 DEF HasFailedFile, Files
      <4>2. Failing(c)
        BY <3>3 DEF Failing
      <4>3. Failing(c)'
        BY <4>1, <4>2, FactsLast
      <4> QED BY <3>2, <4>1, <4>3
    <3>4. CASE worker[w].pc = "generate" /\ UNCHANGED file
      <4>1. c \in BuildIds
        BY <1>3, <3>1, <3>4 DEF BusyPcs, CheckPcs, GeneratePcs
      <4>2. Doomed(c)'
        BY <1>8, <2>5, <3>1, <3>4, <4>1, GenerationFails
      <4>3. Failing(c)'
        BY <4>2 DEF Failing
      <4> QED BY <3>2, <4>1, <4>3
    <3> QED BY <1>8, <2>5, <3>1, <3>3, <3>4 DEF Moves
  <2>6. ASSUME pc = "create_build", worker'[w].parent # None
        PROVE  build'[worker'[w].parent].state = "completed"
    <3>1. PICK u \in Uploads : worker'[w].parent = upload[u].head
      BY <1>8, <2>6 DEF Moves
    <3>2. build[upload[u].head].state = "completed" /\ upload[u].head \in BuildIds
      BY <1>5, <2>6, <3>1 DEF BuildInv, HeadFits, MaybeBuild
    <3> QED BY <1>1, <3>1, <3>2
  <2> QED BY <2>1, <2>2, <2>3, <2>4, <2>5, <2>6 DEF FrameFits
<1>9. \A v \in Workers : FrameFits(v)'
  BY <1>7, <1>8, StepMoves DEF Moves, Rest
<1>10. ASSUME NEW b \in BuildIds PROVE BuildFits(b)'
  <2>1. BuildFits(b) /\ BuildMoves(b)
    BY StepMoves DEF BuildInv
  <2>2. ASSUME build'[b].state = "completed" PROVE Whole(b)
    BY <2>1, <2>2 DEF BuildMoves, BuildFits, BuildInv, FrameFits
  <2>3. ASSUME build'[b].state = "failed" PROVE Failing(b)
    BY <2>1, <2>3 DEF BuildMoves, BuildFits, BuildInv, FrameFits
  <2>4. ASSUME build'[b].parent # None PROVE build'[build'[b].parent].state = "completed"
    <3>1. \/ build'[b].parent = build[b].parent
          \/ \E w \in Workers : worker[w].pc = "create_build" /\ build'[b].parent = worker[w].parent
      BY <2>1 DEF BuildMoves
    <3>2. build'[b].parent \in BuildIds /\ build[build'[b].parent].state = "completed"
      BY <1>4, <1>6, <2>1, <2>4, <3>1 DEF BuildFits, BuildInv, FrameFits, MaybeBuild
    <3> QED BY <1>1, <3>2
  <2> QED BY <1>2, <2>2, <2>3, <2>4 DEF BuildFits
<1>11. ASSUME NEW u \in Uploads PROVE HeadFits(u)'
  <2>1. ASSUME upload'[u].head # None
        PROVE  upload'[u].head \in BuildIds /\ build[upload'[u].head].state = "completed"
    <3>1. CASE upload'[u].head = upload[u].head
      BY <1>5, <2>1, <3>1 DEF BuildInv, HeadFits, MaybeBuild
    <3>2. CASE \E w \in Workers : worker[w].pc = "advance" /\ upload'[u].head = worker[w].build
      BY <1>3, <3>2 DEF BuildInv, FrameFits, BusyPcs, CheckPcs
    <3> QED BY <3>1, <3>2, StepMoves DEF HeadMoves
  <2> QED BY <1>1, <2>1 DEF HeadFits
<1> QED BY <1>9, <1>10, <1>11 DEF BuildInv

-----------------------------------------------------------------------------
(* Theorems *)

LEMMA ButlerHolds ==
    ASSUME Butler
    PROVE  Spec => [](TypeOK /\ LineageInv /\ ClaimInv /\ RowsInv /\ BuildInv)
<1>1. Init => RowsInv /\ BuildInv
  BY RowsInit, BuildInit
<1>2. TypeOK /\ LineageInv /\ ClaimInv /\ RowsInv /\ BuildInv /\ [Next]_vars => (RowsInv /\ BuildInv)'
  BY RowsStep, BuildStep
<1> QED BY <1>1, <1>2, ClaimHolds, PTL DEF Spec

\* However many handlers decide from old copies of the build row, and whatever
\* fails between their statements, a completed or failed build stays so.
THEOREM SettledBuildsStay == ASSUME Butler PROVE Spec => SettledIsFinal
<1>1. TypeOK /\ LineageInv /\ ClaimInv /\ RowsInv /\ BuildInv /\ [Next]_vars =>
          [\A b \in BuildIds : build[b].state \in {"completed", "failed"} =>
               build'[b].state = build[b].state]_vars
  BY SettledLasts
<1> QED BY <1>1, ButlerHolds, PTL DEF Spec, SettledIsFinal

\* What the completion by checkAndUpdateBuildState promises to downloads,
\* upgrade paths and rebuilds: the three artifacts' rows name whole objects.
THEOREM CompletedBuildsAreWhole == ASSUME Butler PROVE Spec => []CompletedIsWhole
<1>1. RowsInv /\ BuildInv => CompletedIsWhole
  BY DEF RowsInv, RowFits, BuildInv, BuildFits, Whole, Ready, Kinds, CompletedIsWhole, Usable,
     Uploaded, RowsOf
<1> QED BY <1>1, ButlerHolds, PTL

\* A channel head is a completed build of that channel's upload.
THEOREM HeadsAreCompleted == ASSUME Butler PROVE Spec => []HeadIsCompleted
<1>1. LineageInv /\ BuildInv => HeadIsCompleted
  BY DEF LineageInv, HeadsExist, BuildInv, HeadFits, HeadIsCompleted
<1> QED BY <1>1, ButlerHolds, PTL

\* The archive and the signature of an unsettled build's parent are stored.
THEOREM ParentsAreUsable == ASSUME Butler PROVE Spec => []ParentIsUsable
<1>1. ASSUME TypeOK, RowsInv, BuildInv PROVE ParentIsUsable
  <2>1. CompletedIsWhole
    BY <1>1 DEF RowsInv, RowFits, BuildInv, BuildFits, Whole, Ready, Kinds, CompletedIsWhole, Usable,
       Uploaded, RowsOf
  <2>2. \A b \in BuildIds : build[b].parent # None =>
            build[b].parent \in BuildIds /\ build[build[b].parent].state = "completed"
    BY <1>1 DEF TypeOK, BuildRow, MaybeBuild, BuildInv, BuildFits
  <2> QED BY <2>1, <2>2 DEF CompletedIsWhole, ParentIsUsable, Kinds
<1> QED BY <1>1, ButlerHolds, PTL

-----------------------------------------------------------------------------
(* Without faults nothing is left half-way *)

\* A handler is moved by its own statements, by their failure, or by a request.
LEMMA Mover ==
    ASSUME TypeOK, [Next]_vars, NEW w \in Workers, worker'[w] # worker[w], worker[w].pc # "idle"
    PROVE  Advance(w) \/ Abandon(w)
<1>1. ~UNCHANGED worker
  OBVIOUS
<1>2. ASSUME NEW v \in Workers, Rest(v) PROVE v = w
  BY <1>2 DEF Rest
<1>3. ASSUME NEW v \in Workers, CreateBuildLookup(v) PROVE FALSE
  BY <1>2, <1>3, LookupDoes
<1>4. ASSUME NEW v \in Workers, Advance(v) \/ Abandon(v) PROVE v = w
  <2>1. ASSUME NEW frame, worker' = [worker EXCEPT ![v] = frame] PROVE v = w
    BY <2>1 DEF TypeOK
  <2>2. CASE CreateBuildUpload(v) \/ CreateBuildInsert(v) \/ CheckBuild(v)
    BY <1>2, <2>2, UploadDoes, InsertDoes, CheckBuildDoes DEF Goes, Stops
  <2>3. CASE CreateBuildChannel(v) \/ FailBuild(v) \/ AdvanceHead(v) \/ Abandon(v)
    BY <1>2, <2>3, ReturnStops DEF CreateBuildChannel, FailBuild, AdvanceHead, Abandon, Stops
  <2>4. CASE CheckFiles(v)
    BY <1>2, <2>4, CheckFilesDoes DEF Goes, Stops
  <2>5. CASE Claim(v) \/ GenerateArchive(v) \/ Complete(v)
    BY <1>2, <2>5, ReturnStops, GotoGoes DEF Claim, GenerateArchive, Complete, Goes, Stops
  <2>6. CASE FinalizeWrite(v) \/ RecordArchive(v)
    BY <2>1, <2>6 DEF FinalizeWrite, RecordArchive
  <2> QED BY <1>4, <2>2, <2>3, <2>4, <2>5, <2>6 DEF Advance
<1>5. ASSUME NEW v \in Workers, NEW f \in Files, NEW s \in Sizes, FinalizeLoad(v, f, s) PROVE FALSE
  BY <1>5 DEF FinalizeLoad, TypeOK
<1> QED
  BY <1>1, <1>3, <1>4, <1>5 DEF Next, vars, CreateBuildFile, PutObject

\* A step that is no fault, before any fault.
Clean == faults = 0 /\ faults' = 0

LEMMA CleanStep ==
    ASSUME TypeOK, [Next]_vars, faults' = 0 PROVE Clean
<1>1. ASSUME NEW w \in Workers, CreateBuildLookup(w) \/ Abandon(w) PROVE Fault \/ UNCHANGED faults
  BY <1>1, LookupDoes DEF Abandon
<1>2. ASSUME NEW w \in Workers, Advance(w) PROVE Fault \/ UNCHANGED faults
  BY <1>2 DEF Advance, CreateBuildUpload, CreateBuildInsert, CreateBuildChannel, FinalizeWrite,
     CheckBuild, CheckFiles, FailBuild, Claim, GenerateArchive, RecordArchive, Complete, AdvanceHead
<1>3. Fault \/ UNCHANGED faults
  BY <1>1, <1>2 DEF Next, vars, CreateBuildFile, PutObject, FinalizeLoad
<1>4. faults \in Nat
  BY Bounds DEF TypeOK
<1> QED BY <1>3, <1>4 DEF Fault, Clean

LEMMA CleanIsNoFault == ASSUME Clean PROVE ~Fault
BY DEF Clean, Fault

\* Every input of the generation is there and whole.
LEMMA GenerationSucceeds ==
    ASSUME TypeOK, RowsInv, BuildInv, NEW w \in Workers, worker[w].pc = "generate",
           NEW b \in BuildIds, worker[w].build = b
    PROVE  ~CanFail(b)
<1>1. \A c, k : Uploaded(c, k) # {} => Sound(c, k)
  BY DEF RowsInv, RowFits, Uploaded, RowsOf, Sound
<1>2. Ready(b)
  BY DEF BuildInv, FrameFits, GeneratePcs
<1>3. build[b].parent # None => Whole(build[b].parent)
  BY DEF BuildInv, BuildFits, TypeOK, BuildRow, MaybeBuild
<1>4. \A i \in Inputs(b) : Uploaded(i[1], i[2]) # {}
  BY <1>2, <1>3 DEF Inputs, Ready, Whole
<1> QED BY <1>1, <1>4 DEF CanFail

FailInv ==
    faults = 0 =>
        /\ \A w \in Workers : worker[w].pc = "fail" => HasFailedFile(worker[w].build)
        /\ \A b \in BuildIds : build[b].state = "failed" => HasFailedFile(b)

LEMMA FailStep ==
    ASSUME Butler, TypeOK, LineageInv, ClaimInv, RowsInv, BuildInv, FailInv, [Next]_vars
    PROVE  FailInv'
<1> SUFFICES ASSUME faults' = 0
             PROVE  /\ \A w \in Workers : worker'[w].pc = "fail" => HasFailedFile(worker[w].build)'
                    /\ \A b \in BuildIds : build'[b].state = "failed" => HasFailedFile(b)'
  BY DEF FailInv
<1>1. Clean /\ ~Fault
  BY CleanStep, CleanIsNoFault
<1>2. \A b \in BuildIds : HasFailedFile(b) => HasFailedFile(b)'
  BY FactsLast
<1>3. \A b : HasFailedFile(b) => b \in BuildIds
  BY DEF HasFailedFile, Files
<1>4. ASSUME NEW v \in Workers, worker'[v].pc = "fail"
      PROVE  \E c \in BuildIds : worker'[v].build = c /\ HasFailedFile(c)
  <2>1. CASE worker'[v] = worker[v]
    BY <1>1, <1>3, <1>4, <2>1 DEF FailInv, Clean
  <2>2. CASE Moves(v)
    <3>1. ASSUME worker[v].pc = "generate" PROVE ~CanFail(worker[v].build)
      BY <3>1, BusyBuild, GenerationSucceeds DEF BusyPcs, CheckPcs, GeneratePcs
    <3> QED BY <1>1, <1>3, <1>4, <2>2, <3>1 DEF Moves
  <2> QED BY <2>1, <2>2, StepMoves DEF Moves, Rest
<1>5. ASSUME NEW b \in BuildIds, build'[b].state = "failed" PROVE HasFailedFile(b)
  <2>1. BuildMoves(b)
    BY StepMoves
  <2> QED BY <1>1, <1>5, <2>1 DEF BuildMoves, FailInv, Clean
<1>6. \A v \in Workers : worker'[v].pc = "fail" => HasFailedFile(worker[v].build)'
  BY <1>2, <1>4
<1> QED BY <1>2, <1>5, <1>6

\* The handler that will complete the build.
Working(w, b) ==
    /\ worker[w].build = b
    /\ \/ Generating(w)
       \/ worker[w].pc \in {"check_build", "check_files", "complete"} /\ Whole(b)

LEMMA WholeCompletes ==
    ASSUME TypeOK, RowsInv, NEW w \in Workers, NEW b \in BuildIds, worker[w].build = b, Whole(b), CheckFiles(w)
    PROVE  Goto(w, "complete")
<1>1. ~HasFailedFile(b)
  BY WholeIsNotFailing DEF Failing
<1>2. \A k \in Kinds : Uploaded(b, k) # {}
  BY DEF Whole, Ready, Kinds
<1>3. \A k \in Kinds : \A x \in Readiness(b, k) : x
  BY <1>2 DEF Readiness, RowsInv, RowFits, Uploaded, RowsOf
<1>4. \A x \in Readiness(b, "patch") : x
  BY <1>3 DEF Kinds
<1>5. \A x \in Readiness(b, "signature") : x
  BY <1>3 DEF Kinds
<1>6. \A x \in Readiness(b, "archive") : x
  BY <1>3 DEF Kinds
<1>7. PICK patch \in Readiness(b, "patch"), signature \in Readiness(b, "signature"),
           archive \in Readiness(b, "archive") :
              \/ /\ patch /\ signature /\ ~archive /\ worker[w].seen = "started"
                 /\ Goto(w, "claim")
              \/ /\ patch /\ signature /\ archive
                 /\ Goto(w, "complete")
              \/ /\ ~(patch /\ signature /\ (archive \/ worker[w].seen = "started"))
                 /\ Return(w)
  BY <1>1 DEF CheckFiles
<1> QED BY <1>4, <1>5, <1>6, <1>7

LEMMA WorkGoesOn ==
    ASSUME Butler, TypeOK, LineageInv, ClaimInv, RowsInv, BuildInv, Clean, [Next]_vars,
           NEW w \in Workers, NEW b \in BuildIds, Working(w, b), build[b].state = "processing"
    PROVE  Working(w, b)' \/ build'[b].state # "processing"
<1>1. Whole(b) => Whole(b)'
  BY FactsLast
<1>2. CASE worker'[w] = worker[w]
  BY <1>1, <1>2 DEF Working, Generating
<1>3. ASSUME NEW pc, Goes(w, pc), pc \in GeneratePcs PROVE Working(w, b)'
  BY <1>3 DEF Goes, Working, Generating
<1>4. ASSUME NEW pc, Goes(w, pc), pc \in {"check_build", "check_files", "complete"}, Whole(b)'
      PROVE  Working(w, b)'
  BY <1>4 DEF Goes, Working
<1>5. worker[w].pc \in {"check_build", "check_files", "complete", "generate", "record_archive"}
      /\ worker[w].build = b
  BY DEF Working, Generating, GeneratePcs
<1>6. CASE GenerateArchive(w)
  BY <1>3, <1>5, <1>6, GenerateDoes, GenerationSucceeds, CleanIsNoFault DEF GeneratePcs
<1>7. CASE RecordArchive(w)
  <2> DEFINE row == [state |-> "uploaded", size |-> "full", url |-> FALSE]
  <2>1. FirstRow(b, "archive", row) /\ row.state = "uploaded" /\ Goes(w, "check_build")
    BY <1>5, <1>7, ArchiveRowIsFirst
  <2>2. Ready(b)
    BY <1>5, <1>7 DEF RecordArchive, BuildInv, FrameFits, GeneratePcs
  <2>3. Ready(b)'
    BY <2>2, FactsLast
  <2> HIDE DEF row
  <2>4. <<b, "archive", 1>> \in Files /\ file'[<<b, "archive", 1>>].state = "uploaded"
    BY <2>1, FirstRowStays
  <2>5. Whole(b)'
    BY <2>3, <2>4 DEF Whole, Uploaded, RowsOf
  <2> QED BY <1>4, <2>1, <2>5
<1>8. CASE CheckBuild(w)
  BY <1>1, <1>4, <1>5, <1>8, CheckBuildDoes DEF Working, Generating, GeneratePcs
<1>9. CASE CheckFiles(w)
  <2>1. Whole(b)
    BY <1>9 DEF CheckFiles, Working, Generating, GeneratePcs
  <2>2. Goes(w, "complete")
    BY <1>5, <1>9, <2>1, WholeCompletes, GotoGoes
  <2> QED BY <1>1, <1>4, <2>1, <2>2
<1>10. CASE Complete(w)
  BY <1>5, <1>10, CompleteDoes
<1>11. CASE Advance(w)
  BY <1>5, <1>6, <1>7, <1>8, <1>9, <1>10, <1>11 DEF Advance, CreateBuildUpload, CreateBuildInsert,
     CreateBuildChannel, FinalizeWrite, FailBuild, Claim, AdvanceHead
<1>12. ~Abandon(w)
  BY CleanIsNoFault DEF Abandon
<1> QED BY <1>2, <1>5, <1>11, <1>12, Mover

Attended(b) == \E w \in Workers : Working(w, b)

WorkInv == faults = 0 => \A b \in BuildIds : build[b].state = "processing" => Attended(b)

LEMMA WorkStep ==
    ASSUME Butler, TypeOK, LineageInv, ClaimInv, RowsInv, BuildInv, WorkInv, [Next]_vars
    PROVE  WorkInv'
<1> SUFFICES ASSUME faults' = 0, NEW b \in BuildIds, build'[b].state = "processing"
             PROVE  \E w \in Workers : Working(w, b)'
  BY DEF WorkInv, Attended
<1>1. Clean /\ BuildMoves(b)
  BY CleanStep, StepMoves
<1>2. CASE build[b].state = "processing"
  <2>1. PICK w \in Workers : Working(w, b)
    BY <1>1, <1>2 DEF WorkInv, Attended, Clean
  <2> QED BY <1>1, <1>2, <2>1, WorkGoesOn
<1>3. CASE build[b].state # "processing"
  <2>1. PICK w \in Workers : worker[w].build = b /\ Goes(w, "generate")
    BY <1>1, <1>3 DEF BuildMoves
  <2> QED BY <2>1 DEF Goes, Working, Generating, GeneratePcs
<1> QED BY <1>2, <1>3

Inserted == \A b \in BuildIds : b <= nbuilds => build[b].state # "absent"

LEMMA InsertedStep ==
    ASSUME Butler, TypeOK, LineageInv, ClaimInv, RowsInv, Inserted, [Next]_vars PROVE Inserted'
<1>1. \/ nbuilds' = nbuilds
      \/ nbuilds' = nbuilds + 1 /\ build'[nbuilds + 1].state = "started"
  <2>1. ASSUME NEW w \in Workers, CreateBuildInsert(w)
        PROVE  nbuilds' = nbuilds + 1 /\ build'[nbuilds + 1].state = "started"
    <3>1. nbuilds' = nbuilds + 1 /\ build'[nbuilds + 1] =
              [state |-> "started", upload |-> worker[w].upload, parent |-> worker[w].parent]
      BY <2>1, InsertDoes
    <3> QED BY <3>1
  <2>2. ASSUME NEW w \in Workers, Advance(w), ~CreateBuildInsert(w) PROVE UNCHANGED nbuilds
    BY <2>2 DEF Advance, CreateBuildUpload, CreateBuildChannel, FinalizeWrite, CheckBuild,
       CheckFiles, FailBuild, Claim, GenerateArchive, RecordArchive, Complete, AdvanceHead
  <2> QED BY <2>1, <2>2 DEF Next, vars, CreateBuildLookup, Abandon, CreateBuildFile, PutObject,
         FinalizeLoad
<1>2. \A b \in BuildIds : build[b].state # "absent" => build'[b].state # "absent"
  BY StepMoves DEF BuildMoves
<1>3. nbuilds \in Nat /\ \A b \in BuildIds : b \in Nat
  BY Bounds DEF TypeOK, BuildIds
<1> QED BY <1>1, <1>2, <1>3 DEF Inserted

\* The upload of a build has its channel row, or CreateBuild is about to
\* insert it; clients see the build only then.
Open(b) == build[b].upload \in Uploads /\ upload[build[b].upload].channel

Opened(b) ==
    \/ Open(b)
    \/ \E w \in Workers : /\ worker[w].pc = "create_channel" /\ worker[w].build = b
                          /\ worker[w].upload = build[b].upload /\ build[b].upload \in Uploads

FrameOpens(w) ==
    LET frame == worker[w] IN
    /\ frame.pc = "create_upload" => ~frame.known
    /\ frame.pc = "create_build" => /\ frame.upload \in Uploads
                                    /\ frame.known => upload[frame.upload].channel

ChannelInv ==
    faults = 0 =>
        /\ \A w \in Workers : FrameOpens(w)
        /\ \A b \in BuildIds : build[b].state # "absent" => Opened(b)
        /\ \A f \in Files : Present(f) => Open(f[1])

\* A build of which there are rows is not inserted again.
LEMMA OpenLasts ==
    ASSUME Butler, TypeOK, LineageInv, ClaimInv, RowsInv, [Next]_vars, NEW b \in BuildIds, Open(b),
           build[b].state # "absent"
    PROVE  Open(b)'
<1>1. build'[b].upload = build[b].upload
  BY StepMoves DEF BuildMoves
<1>2. \A u \in Uploads : upload[u].channel => upload'[u].channel
  BY StepMoves DEF HeadMoves
<1> QED BY <1>1, <1>2 DEF Open

LEMMA ChannelStep ==
    ASSUME Butler, TypeOK, LineageInv, ClaimInv, RowsInv, BuildInv, Inserted, ChannelInv, [Next]_vars
    PROVE  ChannelInv'
<1> SUFFICES ASSUME faults' = 0
             PROVE  /\ \A w \in Workers : FrameOpens(w)'
                    /\ \A b \in BuildIds : build'[b].state # "absent" => Opened(b)'
                    /\ \A f \in Files : Present(f)' => Open(f[1])'
  BY DEF ChannelInv
<1>1. Clean /\ ~Fault
  BY CleanStep, CleanIsNoFault
<1>2. /\ \A w \in Workers : FrameOpens(w)
      /\ \A b \in BuildIds : build[b].state # "absent" => Opened(b)
      /\ \A f \in Files : Present(f) => Open(f[1])
  BY <1>1 DEF ChannelInv, Clean
<1>3. \A u \in Uploads : upload[u].channel => upload'[u].channel
  BY StepMoves DEF HeadMoves
<1>4. ASSUME NEW v \in Workers PROVE FrameOpens(v)'
  <2>1. CASE worker'[v] = worker[v]
    BY <1>2, <1>3, <2>1 DEF FrameOpens
  <2>2. CASE Moves(v)
    BY <1>2, <1>3, <2>2 DEF FrameOpens, Moves
  <2> QED BY <2>1, <2>2, StepMoves DEF Moves, Rest
<1>5. ASSUME NEW b \in BuildIds, build'[b].state # "absent" PROVE Opened(b)'
  <2>1. CASE build[b].state = "absent"
    <3>1. \A w \in Workers : worker[w].pc \in BusyPcs => worker[w].build # b
      BY <2>1, BusyBuild DEF Inserted
    <3>2. PICK w \in Workers :
              /\ worker[w].pc = "create_build" /\ build'[b].upload = worker[w].upload
              /\ \/ worker[w].known
                 \/ /\ worker'[w].pc = "create_channel" /\ worker'[w].build = b
                    /\ worker'[w].upload = worker[w].upload
      BY <1>5, <2>1, <3>1, StepMoves DEF BuildMoves, BusyPcs, CheckPcs
    <3> QED BY <1>2, <1>3, <3>2 DEF FrameOpens, Opened, Open
  <2>2. CASE build[b].state # "absent" /\ Open(b)
    BY <2>2, OpenLasts DEF Opened
  <2>3. CASE build[b].state # "absent" /\ ~Open(b)
    <3>1. build'[b].upload = build[b].upload
      BY <2>3, StepMoves DEF BuildMoves
    <3>2. PICK w \in Workers : /\ worker[w].pc = "create_channel" /\ worker[w].build = b
                               /\ worker[w].upload = build[b].upload /\ build[b].upload \in Uploads
      BY <1>2, <2>3 DEF Opened
    <3>3. CASE worker'[w] = worker[w]
      BY <3>1, <3>2, <3>3 DEF Opened
    <3>4. CASE worker'[w] # worker[w]
      <4>1. CreateBuildChannel(w)
        BY <1>1, <3>2, <3>4, Mover DEF Advance, Abandon, CreateBuildUpload, CreateBuildInsert,
           FinalizeWrite, CheckBuild, CheckFiles, FailBuild, Claim, GenerateArchive, RecordArchive,
           Complete, AdvanceHead
      <4> QED BY <3>1, <3>2, <4>1, ChannelDoes DEF Opened, Open
    <3> QED BY <3>3, <3>4
  <2> QED BY <2>1, <2>2, <2>3
<1>6. ASSUME NEW f \in Files, Present(f)' PROVE Open(f[1])'
  <2>1. f[1] \in BuildIds
    BY DEF Files
  <2>2. ASSUME NEW g \in Files, Present(g), g[1] = f[1] PROVE build[f[1]].state # "absent" /\ Open(f[1])
    BY <1>2, <2>1, <2>2 DEF LineageInv, RowsExist, Present, Inserted
  <2>3. CASE Present(f)
    BY <2>1, <2>2, <2>3, OpenLasts
  <2>4. CASE f[2] # "archive" /\ Visible(f[1])
    <3>1. build[f[1]].state # "absent" /\ Open(f[1])
      BY <1>2, <2>1, <2>4 DEF Visible, Opened
    <3> QED BY <2>1, <3>1, OpenLasts
  <2>5. CASE \E w \in Workers : Generating(w) /\ worker[w].build = f[1]
    <3>1. Ready(f[1])
      BY <2>5 DEF BuildInv, FrameFits, Generating
    <3>2. \E g \in Files : Present(g) /\ g[1] = f[1]
      BY <3>1 DEF Ready, Uploaded, RowsOf, Present
    <3>3. build[f[1]].state # "absent" /\ Open(f[1])
      BY <2>2, <3>2
    <3> QED BY <2>1, <3>3, OpenLasts
  <2> QED BY <1>6, <2>3, <2>4, <2>5, NewRow
<1> QED BY <1>4, <1>5, <1>6

\* A completed build is its channel's head, or was, or is about to be.
HeadSet(b) == build[b].upload \in Uploads /\ upload[build[b].upload].head # None

Heading(b) == \E w \in Workers : worker[w].pc = "advance" /\ worker[w].build = b

HeadInv == faults = 0 => \A b \in BuildIds : build[b].state = "completed" => HeadSet(b) \/ Heading(b)

LEMMA HeadStep ==
    ASSUME Butler, TypeOK, LineageInv, ClaimInv, RowsInv, BuildInv, Inserted, ChannelInv, HeadInv,
           [Next]_vars
    PROVE  HeadInv'
<1> SUFFICES ASSUME faults' = 0, NEW b \in BuildIds, build'[b].state = "completed"
             PROVE  HeadSet(b)' \/ Heading(b)'
  BY DEF HeadInv
<1>1. Clean /\ ~Fault /\ BuildMoves(b)
  BY CleanStep, CleanIsNoFault, StepMoves
<1>2. CASE build[b].state = "completed"
  <2>1. build'[b].upload = build[b].upload
    BY <1>1, <1>2 DEF BuildMoves
  <2>2. CASE HeadSet(b)
    <3>1. \A w \in Workers : worker[w].pc = "advance" => worker[w].build # None
      BY BusyBuild, Bounds DEF BusyPcs, CheckPcs, BuildIds, None
    <3> QED BY <2>1, <2>2, <3>1, StepMoves DEF HeadSet, HeadMoves
  <2>3. CASE Heading(b)
    <3>1. PICK w \in Workers : worker[w].pc = "advance" /\ worker[w].build = b
      BY <2>3 DEF Heading
    <3>2. CASE worker'[w] = worker[w]
      BY <3>1, <3>2 DEF Heading
    <3>3. CASE worker'[w] # worker[w]
      <4>1. AdvanceHead(w)
        BY <1>1, <3>1, <3>3, Mover DEF Advance, Abandon, CreateBuildUpload, CreateBuildInsert,
           CreateBuildChannel, FinalizeWrite, CheckBuild, CheckFiles, FailBuild, Claim,
           GenerateArchive, RecordArchive, Complete
      <4>2. \E f \in Files : Present(f) /\ f[1] = b
        BY <1>2 DEF BuildInv, BuildFits, Whole, Ready, Uploaded, RowsOf, Present
      <4>3. Open(b)
        BY <1>1, <4>2 DEF ChannelInv, Clean
      <4>4. b # None
        BY DEF BuildIds, None
      <4> QED BY <2>1, <3>1, <4>1, <4>3, <4>4, HeadDoes DEF Open, HeadSet
    <3> QED BY <3>2, <3>3
  <2> QED BY <1>1, <1>2, <2>2, <2>3 DEF HeadInv, Clean
<1>3. CASE build[b].state # "completed"
  <2>1. PICK w \in Workers : worker[w].build = b /\ Goes(w, "advance")
    BY <1>1, <1>3 DEF BuildMoves
  <2> QED BY <2>1 DEF Goes, Heading
<1> QED BY <1>2, <1>3

LEMMA CalmHolds ==
    ASSUME Butler
    PROVE  Spec => [](/\ TypeOK /\ LineageInv /\ ClaimInv /\ RowsInv /\ BuildInv
                      /\ FailInv /\ WorkInv /\ Inserted /\ ChannelInv /\ HeadInv)
<1>1. Init => FailInv /\ WorkInv /\ Inserted /\ ChannelInv /\ HeadInv
  BY Bounds DEF Init, FailInv, WorkInv, Inserted, ChannelInv, FrameOpens, HeadInv, Present, Idle, BuildIds
<1>2. /\ TypeOK /\ LineageInv /\ ClaimInv /\ RowsInv /\ BuildInv /\ [Next]_vars
      /\ FailInv /\ WorkInv /\ Inserted /\ ChannelInv /\ HeadInv
      => (FailInv /\ WorkInv /\ Inserted /\ ChannelInv /\ HeadInv)'
  BY FailStep, WorkStep, InsertedStep, ChannelStep, HeadStep
<1> QED BY <1>1, <1>2, ButlerHolds, PTL DEF Spec

\* Of all the orders in which finalizations, checks and the generation can run,
\* none fails a build whose client uploaded every artifact whole.
THEOREM FailuresAreWarranted == ASSUME Butler PROVE Spec => []FailureIsWarranted
<1>1. FailInv => FailureIsWarranted
  BY DEF FailInv, FailureIsWarranted
<1> QED BY <1>1, CalmHolds, PTL

\* Without failed calls and deaths, a build in "processing" has its handler,
\* and when all handlers are done every completed build's channel has a head.
THEOREM OnlyFaultsStrand == ASSUME Butler PROVE Spec => []StrandedOnlyByFaults
<1>1. WorkInv /\ HeadInv => StrandedOnlyByFaults
  BY DEF WorkInv, Attended, Working, Generating, GeneratePcs, CheckPcs, HeadInv, HeadSet, Heading,
     StrandedOnlyByFaults, ProcessingIsAttended, Quiet
<1> QED BY <1>1, CalmHolds, PTL

-----------------------------------------------------------------------------
(* Upgrade paths.  Parents are older than their builds, so the recursive     *)
(* function of the walks exists, and a least build would be the first        *)
(* without the property: the well-founded order takes induction's place.     *)

\* A set of numbers has a least one: what the proofs below use for induction.
LEMMA Least == ASSUME NEW S \in SUBSET Nat, S # {} PROVE \E m \in S : \A k \in S : m <= k
<1> DEFINE R == OpToRel(<, Nat)
<1>1. \A x, y \in Nat : <<x, y>> \in R <=> x < y
  BY DEF OpToRel
<1>2. PICK m \in S : \A k \in S : ~(<<k, m>> \in R)
  BY NatLessThanWellFounded, WFMin
<1> HIDE DEF R
<1>3. ASSUME NEW k \in S PROVE m <= k
  <2>1. k \in Nat /\ m \in Nat /\ ~(k < m)
    BY <1>1, <1>2
  <2> QED BY <2>1
<1> QED BY <1>3

Older == \A b \in BuildIds : build[b].parent # None => build[b].parent \in 1 .. (b - 1)

\* How walk[b] is computed from the walks to older builds.
Onward(walk, installed, b) ==
    IF b = installed THEN <<b>>
    ELSE IF build[b].parent = None THEN <<>>
    ELSE LET below == walk[build[b].parent]
         IN  IF below = <<>> THEN <<>> ELSE Append(below, b)

Walks(installed) == CHOOSE walk : walk = [b \in BuildIds |-> Onward(walk, installed, b)]

LEMMA WalkIs == ASSUME NEW installed, NEW target PROVE Walk(installed, target) = Walks(installed)[target]
BY DEF Walk, Walks, Onward

LEMMA OnwardDepends ==
    ASSUME NEW b, NEW installed, NEW f, NEW g,
           build[b].parent # None => f[build[b].parent] = g[build[b].parent]
    PROVE  Onward(f, installed, b) = Onward(g, installed, b)
BY DEF Onward

\* The walks are defined up to every build.
LEMMA WalksExist ==
    ASSUME Older, NEW installed
    PROVE  \E walk : walk = [b \in BuildIds |-> Onward(walk, installed, b)]
<1> DEFINE Walked(n) == \E walk : walk = [b \in 1 .. n |-> Onward(walk, installed, b)]
           Missing == {n \in 0 .. MaxBuilds : ~Walked(n)}
<1>1. MaxBuilds \in Nat
  BY Bounds
<1>2. SUFFICES ASSUME ~Walked(MaxBuilds) PROVE FALSE
  BY DEF BuildIds
<1>3. Missing \in SUBSET Nat /\ Missing # {}
  BY <1>1, <1>2
<1>4. PICK n \in Missing : \A k \in Missing : n <= k
  BY <1>3, Least
<1>5. n # 0
  <2>1. [b \in 1 .. 0 |-> <<>>] = [b \in 1 .. 0 |-> Onward([c \in 1 .. 0 |-> <<>>], installed, b)]
    OBVIOUS
  <2>2. [b \in 1 .. 0 |-> <<>>] = [c \in 1 .. 0 |-> <<>>]
    OBVIOUS
  <2>3. Walked(0)
    BY <2>1
  <2> HIDE DEF Walked
  <2> QED BY <1>4, <2>3
<1>6. n \in 1 .. MaxBuilds /\ n - 1 \in 0 .. MaxBuilds /\ Walked(n - 1)
  <2> HIDE DEF Walked
  <2>1. n \in 1 .. MaxBuilds /\ n - 1 \in 0 .. MaxBuilds /\ ~(n <= n - 1)
    BY <1>1, <1>4, <1>5
  <2>2. n - 1 \notin Missing
    BY <1>4, <2>1
  <2> QED BY <2>1, <2>2
<1>7. PICK walk : walk = [b \in 1 .. (n - 1) |-> Onward(walk, installed, b)]
  BY <1>6
<1> DEFINE longer == [b \in 1 .. n |-> IF b = n THEN Onward(walk, installed, n) ELSE walk[b]]
<1>8. ASSUME NEW b \in 1 .. n PROVE longer[b] = Onward(longer, installed, b)
  <2>1. b \in BuildIds /\ n \in Nat
    BY <1>1, <1>6 DEF BuildIds
  <2>2. build[b].parent # None => longer[build[b].parent] = walk[build[b].parent]
    BY <2>1 DEF Older
  <2>3. Onward(longer, installed, b) = Onward(walk, installed, b)
    BY <2>2, OnwardDepends
  <2>4. CASE b = n
    BY <2>3, <2>4
  <2>5. CASE b # n
    <3>1. b \in 1 .. (n - 1)
      BY <2>1, <2>5
    <3>2. longer[b] = walk[b] /\ walk[b] = Onward(walk, installed, b)
      BY <1>7, <2>5, <3>1
    <3> QED BY <2>3, <3>2
  <2> QED BY <2>4, <2>5
<1>9. longer = [b \in 1 .. n |-> Onward(longer, installed, b)]
  BY <1>8
<1>10. Walked(n)
  BY <1>9
<1> HIDE DEF Walked
<1> QED BY <1>4, <1>10

LEMMA WalkStep ==
    ASSUME Older, NEW installed, NEW b \in BuildIds
    PROVE  Walk(installed, b) =
               IF b = installed THEN <<b>>
               ELSE IF build[b].parent = None THEN <<>>
               ELSE LET below == Walk(installed, build[b].parent)
                    IN  IF below = <<>> THEN <<>> ELSE Append(below, b)
<1>1. Walks(installed) = [c \in BuildIds |-> Onward(Walks(installed), installed, c)]
  BY WalksExist DEF Walks
<1>2. Walks(installed)[b] = Onward(Walks(installed), installed, b)
  BY <1>1
<1> QED BY <1>2, WalkIs DEF Onward

\* A walk leads to the build it was asked for, from the installed one, which
\* is not newer.
Leads(installed, b) ==
    LET path == Walk(installed, b) IN
    /\ path \in Seq(BuildIds)
    /\ path # <<>> => installed <= b /\ path[Len(path)] = b

LEMMA WalkLeads ==
    ASSUME Older, NEW installed \in BuildIds, NEW b \in BuildIds PROVE Leads(installed, b)
<1> DEFINE Stray == {c \in BuildIds : ~Leads(installed, c)}
<1>1. SUFFICES ASSUME Stray # {} PROVE FALSE
  OBVIOUS
<1>2. Stray \in SUBSET Nat
  BY Bounds DEF BuildIds
<1>3. PICK c \in Stray : \A k \in Stray : c <= k
  BY <1>1, <1>2, Least
<1>4. c \in BuildIds /\ c \in Nat /\ ~Leads(installed, c) /\ installed \in Nat
  BY <1>2, <1>3, Bounds DEF BuildIds
<1>5. CASE c = installed
  <2>1. PICK alone : alone = <<c>>
    OBVIOUS
  <2>2. Walk(installed, c) = alone
    BY <1>4, <1>5, <2>1, WalkStep
  <2>3. alone \in Seq(BuildIds) /\ alone[Len(alone)] = c
    BY <1>4, <2>1
  <2>4. installed <= c
    BY <1>4, <1>5
  <2>5. Leads(installed, c)
    BY <2>2, <2>3, <2>4 DEF Leads
  <2> QED BY <1>4, <2>5
<1>6. CASE c # installed /\ build[c].parent = None
  <2>1. PICK nowhere : nowhere = <<>>
    OBVIOUS
  <2>2. Walk(installed, c) = nowhere
    BY <1>4, <1>6, <2>1, WalkStep
  <2>3. nowhere \in Seq(BuildIds)
    BY <2>1
  <2>4. Leads(installed, c)
    BY <2>1, <2>2, <2>3 DEF Leads
  <2> QED BY <1>4, <2>4
<1>7. CASE c # installed /\ build[c].parent # None
  <2> DEFINE p == build[c].parent below == Walk(installed, p)
  <2>1. p \in BuildIds /\ p \in Nat /\ p < c
    BY <1>4, <1>7, Bounds DEF Older, BuildIds
  <2>2. Leads(installed, p)
    BY <1>3, <1>4, <2>1
  <2>3. Walk(installed, c) = IF below = <<>> THEN <<>> ELSE Append(below, c)
    BY <1>4, <1>7, WalkStep
  <2>4. below \in Seq(BuildIds) /\ (below # <<>> => installed <= p)
    BY <2>2 DEF Leads
  <2>5. CASE below = <<>>
    BY <1>4, <2>3, <2>5 DEF Leads
  <2>6. CASE below # <<>>
    <3> HIDE DEF below
    <3>1. Append(below, c) \in Seq(BuildIds) /\ Append(below, c)[Len(Append(below, c))] = c
      BY <1>4, <2>4
    <3>2. installed <= c
      BY <1>4, <2>1, <2>4, <2>6
    <3> QED BY <1>4, <2>3, <2>6, <3>1, <3>2 DEF Leads
  <2> QED BY <2>5, <2>6
<1> QED BY <1>5, <1>6, <1>7

\* The path to a completed build is the path to its parent and the build.
LEMMA PathGoesOn ==
    ASSUME Older, NEW installed \in BuildIds, NEW target \in BuildIds,
           build[target].parent # None,
           build[build[target].parent].upload = build[target].upload,
           Uploaded(target, "patch") # {},
           UpgradePath(installed, build[target].parent) # <<>>
    PROVE  UpgradePath(installed, target) =
               Append(UpgradePath(installed, build[target].parent), target)
<1> DEFINE base == build[target].parent
           below == Walk(installed, base)
           path == Walk(installed, target)
<1>1. base \in BuildIds /\ base < target /\ base \in Nat /\ target \in Nat /\ installed \in Nat
  BY Bounds DEF Older, BuildIds
<1>2. /\ below # <<>> /\ UpgradePath(installed, base) = below
      /\ \A i \in 1 .. Len(below) : build[below[i]].upload = build[base].upload
      /\ \A i \in 2 .. Len(below) : Uploaded(below[i], "patch") # {}
  BY DEF UpgradePath
<1>3. below \in Seq(BuildIds) /\ installed <= base
  BY <1>1, <1>2, WalkLeads DEF Leads
<1>4. path = Append(below, target)
  <2>1. target # installed
    BY <1>1, <1>3
  <2> QED BY <1>2, <2>1, WalkStep
<1> HIDE DEF below, path
<1>5. /\ Len(path) = Len(below) + 1 /\ path[Len(below) + 1] = target
      /\ \A i \in 1 .. Len(below) : path[i] = below[i]
  BY <1>3, <1>4
<1>6. Len(below) \in Nat
  BY <1>3
<1>7. /\ \A i \in 1 .. Len(path) : build[path[i]].upload = build[target].upload
      /\ \A i \in 2 .. Len(path) : Uploaded(path[i], "patch") # {}
  BY <1>2, <1>5, <1>6
<1>8. UpgradePath(installed, target) = path
  BY <1>7 DEF UpgradePath, path
<1> QED BY <1>2, <1>4, <1>8

\* Whoever has a build that a completed build descends from is led to it patch
\* by patch, through completed builds of the same upload.
THEOREM HistoryHasNoGaps == ASSUME Butler PROVE Spec => []UpgradesResolve
<1>1. ASSUME TypeOK, LineageInv, RowsInv, BuildInv PROVE UpgradesResolve
  <2>1. Older
    BY <1>1, Bounds DEF TypeOK, BuildRow, MaybeBuild, BuildIds, LineageInv, ParentIsOlder, Older
  <2>2. ASSUME NEW target \in BuildIds, build[target].state = "completed", build[target].parent # None
        PROVE  /\ build[build[target].parent].state = "completed"
               /\ build[build[target].parent].upload = build[target].upload
               /\ Uploaded(target, "patch") # {}
    BY <1>1, <2>2 DEF BuildInv, BuildFits, Whole, Ready, LineageInv, ParentIsOlder
  <2> QED BY <2>1, <2>2, PathGoesOn DEF UpgradesResolve
<1> QED BY <1>1, ButlerHolds, PTL

-----------------------------------------------------------------------------
(* Refinement: the pipeline implements BuildHistory *)

Chosen == \A w \in Workers : worker[w].pc = "create_build" => worker[w].upload \in Uploads

HistoryInv ==
    TypeOK /\ LineageInv /\ ClaimInv /\ RowsInv /\ BuildInv /\ Inserted /\ Chosen

LEMMA ChosenStep ==
    ASSUME Butler, TypeOK, LineageInv, ClaimInv, RowsInv, Chosen, [Next]_vars PROVE Chosen'
<1>1. CASE UNCHANGED worker
  BY <1>1 DEF Chosen
<1>2. ASSUME NEW w \in Workers, Moves(w) PROVE Chosen'
  BY <1>2 DEF Chosen, Moves, Rest
<1> QED BY <1>1, <1>2, StepMoves

LEMMA HistoryInvHolds == ASSUME Butler PROVE Spec => []HistoryInv
<1>1. Init => Inserted /\ Chosen
  BY Bounds DEF Init, Inserted, Chosen, Idle, BuildIds
<1>2. /\ TypeOK /\ LineageInv /\ ClaimInv /\ RowsInv /\ BuildInv /\ [Next]_vars
      /\ Inserted /\ Chosen
      => (Inserted /\ Chosen)'
  BY InsertedStep, ChosenStep
<1> QED BY <1>1, <1>2, ButlerHolds, PTL DEF Spec, HistoryInv

\* Between honest clients and the server an uploaded row is a stored artifact.
LEMMA StoredIs ==
    ASSUME RowsInv, NEW b \in BuildIds, NEW k \in Kinds
    PROVE  <<b, k>> \in StoredArtifacts <=> Uploaded(b, k) # {}
<1>1. ASSUME <<b, k>> \in StoredArtifacts PROVE Uploaded(b, k) # {}
  <2>1. PICK f \in Files : file[f].state = "uploaded" /\ <<f[1], f[2]>> = <<b, k>>
    BY <1>1 DEF StoredArtifacts
  <2> QED BY <2>1 DEF Uploaded, RowsOf
<1>2. ASSUME Uploaded(b, k) # {} PROVE <<b, k>> \in StoredArtifacts
  <2>1. PICK f \in Files : f[1] = b /\ f[2] = k /\ file[f].state = "uploaded"
    BY <1>2 DEF Uploaded, RowsOf
  <2>2. object[f] = "full"
    BY <2>1 DEF RowsInv, RowFits
  <2> QED BY <2>1, <2>2 DEF StoredArtifacts
<1> QED BY <1>1, <1>2

LEMMA WholeIsStored ==
    ASSUME RowsInv, NEW b \in BuildIds
    PROVE  /\ Whole(b) <=> {b} \X History!Artifacts \subseteq StoredArtifacts
           /\ Ready(b) => {b} \X {"patch", "signature"} \subseteq StoredArtifacts
<1>1. \A k \in Kinds : <<b, k>> \in StoredArtifacts <=> Uploaded(b, k) # {}
  BY StoredIs
<1>2. History!Artifacts = Kinds
  BY DEF History!Artifacts, Kinds
<1>3. Whole(b) <=> \A k \in Kinds : <<b, k>> \in StoredArtifacts
  BY <1>1 DEF Whole, Ready, Kinds
<1>4. Ready(b) => \A k \in {"patch", "signature"} : <<b, k>> \in StoredArtifacts
  BY <1>1 DEF Ready, Kinds
<1> QED BY <1>2, <1>3, <1>4

IsStored(f) == file[f].state = "uploaded" /\ object[f] = "full"

\* A step that makes of one row, at most, a stored artifact.
LEMMA StoredGrows ==
    ASSUME NEW f \in Files, \A g \in Files \ {f} : IsStored(g)' <=> IsStored(g)
    PROVE  /\ (IsStored(f)' <=> IsStored(f)) => UNCHANGED StoredArtifacts
           /\ IsStored(f)' => StoredArtifacts' = StoredArtifacts \cup {<<f[1], f[2]>>}
<1>1. StoredArtifacts = {<<g[1], g[2]>> : g \in {h \in Files : IsStored(h)}}
  BY DEF StoredArtifacts, IsStored
<1>2. StoredArtifacts' = {<<g[1], g[2]>> : g \in {h \in Files : IsStored(h)'}}
  BY DEF StoredArtifacts, IsStored
<1>3. ASSUME IsStored(f)' <=> IsStored(f) PROVE UNCHANGED StoredArtifacts
  <2>1. {h \in Files : IsStored(h)'} = {h \in Files : IsStored(h)}
    BY <1>3
  <2> QED BY <1>1, <1>2, <2>1
<1>4. ASSUME IsStored(f)' PROVE StoredArtifacts' = StoredArtifacts \cup {<<f[1], f[2]>>}
  <2>1. {h \in Files : IsStored(h)'} = {h \in Files : IsStored(h)} \cup {f}
    BY <1>4
  <2> QED BY <1>1, <1>2, <2>1
<1> QED BY <1>3, <1>4

\* What BuildHistory does not see: a step that stores nothing, settles nothing
\* and publishes nothing.
Unseen == UNCHANGED <<StageOf, UploadOf, ParentOf, StoredArtifacts, HeadOf>>

LEMMA TablesUnseen == ASSUME UNCHANGED Tables PROVE Unseen
BY DEF Tables, Unseen, StageOf, UploadOf, ParentOf, StoredArtifacts, HeadOf

\* A step that writes the state of one build and nothing else.
LEMMA StateSeen ==
    ASSUME NEW b \in BuildIds, \A c \in BuildIds \ {b} : build'[c] = build[c],
           build'[b].parent = build[b].parent, build'[b].upload = build[b].upload,
           UNCHANGED <<upload, file, object>>
    PROVE  /\ UNCHANGED <<UploadOf, ParentOf, StoredArtifacts, HeadOf>>
           /\ StageOf'[b] = StageOf[b] => UNCHANGED StageOf
           /\ StageOf' = [StageOf EXCEPT ![b] = StageOf'[b]]
<1>1. UNCHANGED <<UploadOf, ParentOf, StoredArtifacts, HeadOf>>
  BY DEF UploadOf, ParentOf, StoredArtifacts, HeadOf
<1>2. \A c \in BuildIds \ {b} : StageOf'[c] = StageOf[c]
  BY DEF StageOf
<1>3. StageOf' = [c \in BuildIds |-> StageOf'[c]] /\ StageOf = [c \in BuildIds |-> StageOf[c]]
  BY DEF StageOf
<1> QED BY <1>1, <1>2, <1>3

LEMMA InsertPushes ==
    ASSUME HistoryInv, NEW w \in Workers, CreateBuildInsert(w)
    PROVE  \E b \in BuildIds : History!Push(b)
<1> DEFINE b == nbuilds + 1 u == worker[w].upload p == worker[w].parent
           row == [state |-> "started", upload |-> u, parent |-> p]
<1>1. /\ UNCHANGED <<upload, file, object>> /\ worker[w].pc = "create_build" /\ b \in BuildIds
      /\ build'[b] = row /\ \A c \in BuildIds : c # b => build'[c] = build[c]
  BY InsertDoes DEF HistoryInv
<1>2. row.state = "started" /\ row.upload = u /\ row.parent = p
  OBVIOUS
<1>3. build[b].state = "absent"
  <2>1. b > nbuilds
    BY Bounds DEF HistoryInv, TypeOK
  <2> QED BY <1>1, <2>1 DEF HistoryInv, LineageInv, UninsertedBuilds
<1>4. u \in Uploads /\ p \in MaybeBuild
  BY <1>1 DEF HistoryInv, Chosen, TypeOK, Frame
<1>5. p # None => p \in BuildIds /\ build[p].state = "completed" /\ build[p].upload = u
  BY <1>1, <1>4 DEF HistoryInv, BuildInv, FrameFits, LineageInv, FramesExist, FrameLineage, MaybeBuild
<1> HIDE DEF b, u, p, row
<1>6. /\ StageOf' = [StageOf EXCEPT ![b] = "open"]
      /\ UploadOf' = [UploadOf EXCEPT ![b] = u] /\ ParentOf' = [ParentOf EXCEPT ![b] = p]
  BY <1>1, <1>2 DEF StageOf, UploadOf, ParentOf
<1>7. UNCHANGED <<StoredArtifacts, HeadOf>>
  BY <1>1 DEF StoredArtifacts, HeadOf
<1>8. StageOf[b] = "absent"
  BY <1>1, <1>3 DEF StageOf
<1>9. p \in {None} \cup {c \in BuildIds : StageOf[c] = "completed" /\ UploadOf[c] = u}
  BY <1>5 DEF StageOf, UploadOf
<1>10. History!Push(b)
  BY <1>4, <1>6, <1>7, <1>8, <1>9 DEF History!Push
<1> QED BY <1>1, <1>10

LEMMA Stores ==
    ASSUME NEW b \in BuildIds, NEW k \in Kinds, <<b, k>> \notin StoredArtifacts, History!Store(b, k)
    PROVE  History!Next
<1>1. <<b, k>> \in (StoredArtifacts' \ StoredArtifacts) \cap (BuildIds \X History!Artifacts)
  BY DEF History!Store, History!Artifacts, Kinds
<1> DEFINE new == <<b, k>>
<1>2. History!Store(new[1], new[2])
  OBVIOUS
<1> HIDE DEF new
<1>3. new \in (StoredArtifacts' \ StoredArtifacts) \cap (BuildIds \X History!Artifacts)
  BY <1>1 DEF new
<1> QED BY <1>2, <1>3 DEF History!Next

LEMMA WriteStores ==
    ASSUME HistoryInv, NEW w \in Workers, FinalizeWrite(w)
    PROVE  History!Next \/ Unseen
<1>0. PICK f : f = worker[w].file
  OBVIOUS
<1>1. /\ f \in Files /\ Present(f) /\ f[2] # "archive" /\ UNCHANGED <<nbuilds, build, upload, object>>
      /\ \/ UNCHANGED file
         \/ /\ \A g \in Files \ {f} : file'[g] = file[g]
            /\ IF object[f] = "full" THEN file'[f].state = "uploaded" ELSE file'[f].state = "failed"
  BY <1>0, WriteDoes DEF HistoryInv
<1>2. CASE UNCHANGED file
  BY <1>1, <1>2, TablesUnseen DEF Tables
<1>3. CASE \A g \in Files \ {f} : file'[g] = file[g]
  <2>1. UNCHANGED <<StageOf, UploadOf, ParentOf, HeadOf>>
    BY <1>1 DEF StageOf, UploadOf, ParentOf, HeadOf
  <2>2. \A g \in Files \ {f} : IsStored(g)' <=> IsStored(g)
    BY <1>1, <1>3 DEF IsStored
  <2>3. CASE ~IsStored(f)'
    <3>1. object[f] # "full" \/ UNCHANGED file
      BY <1>1, <2>3 DEF IsStored
    <3>2. IsStored(f)' <=> IsStored(f)
      BY <1>1, <2>3, <3>1 DEF IsStored
    <3> QED BY <1>1, <2>1, <2>2, <3>2, StoredGrows DEF Unseen
  <2>4. CASE IsStored(f)'
    <3>0. PICK b, k : b = f[1] /\ k = f[2]
      OBVIOUS
    <3>1. b \in BuildIds /\ k \in Kinds /\ k \in {"patch", "signature"}
      BY <1>1, <3>0 DEF Files, Kinds
    <3>2. StoredArtifacts' = StoredArtifacts \cup {<<b, k>>}
      BY <1>1, <2>2, <2>4, <3>0, StoredGrows
    <3>3. StageOf[b] # "absent"
      BY <1>1, <3>0, <3>1 DEF HistoryInv, LineageInv, RowsExist, Present, Inserted, StageOf
    <3>4. CASE <<b, k>> \in StoredArtifacts
      <4>1. UNCHANGED StoredArtifacts
        BY <3>2, <3>4
      <4> QED BY <2>1, <4>1 DEF Unseen
    <3>5. CASE <<b, k>> \notin StoredArtifacts
      <4>1. History!Store(b, k)
        BY <2>1, <3>1, <3>2, <3>3 DEF History!Store
      <4> QED BY <3>1, <3>5, <4>1, Stores
    <3> QED BY <3>4, <3>5
  <2> QED BY <2>3, <2>4
<1> QED BY <1>1, <1>2, <1>3

LEMMA RecordStores ==
    ASSUME HistoryInv, NEW w \in Workers, RecordArchive(w) PROVE History!Next
<1>0. PICK b : b = worker[w].build
  OBVIOUS
<1> DEFINE row == [state |-> "uploaded", size |-> "full", url |-> FALSE]
<1>1. /\ b \in BuildIds /\ Generating(w) /\ FirstRow(b, "archive", row)
      /\ object' = [object EXCEPT ![<<b, "archive", 1>>] = "full"] /\ UNCHANGED <<nbuilds, build, upload>>
  BY <1>0, ArchiveRowIsFirst DEF HistoryInv
<1>2. Ready(b) /\ Claimed(b)
  BY <1>0, <1>1 DEF HistoryInv, BuildInv, FrameFits, Generating, ClaimInv, GeneratingIsClaimed
<1>3. Uploaded(b, "archive") = {}
  BY <1>1 DEF FirstRow, Uploaded
<1>4. StageOf[b] = "open"
  <2>1. ~Whole(b)
    BY <1>3 DEF Whole
  <2>2. ~Doomed(b)
    BY <1>0, <1>1 DEF Doomed
  <2>3. ASSUME NEW g \in Files, g[1] = b, file[g].state = "failed" PROVE FALSE
    <3>1. g[2] \in {"patch", "signature"}
      BY <2>3 DEF HistoryInv, RowsInv, RowFits, Files, Kinds
    <3>2. Uploaded(b, g[2]) # {}
      BY <1>2, <3>1 DEF Ready
    <3>3. PICK h \in Files : h[1] = b /\ h[2] = g[2] /\ file[h].state = "uploaded"
      BY <3>2 DEF Uploaded, RowsOf
    <3>4. g = h
      BY <2>3, <3>3 DEF HistoryInv, RowsInv, OneRow, Present
    <3> QED BY <2>3, <3>3, <3>4
  <2>4. ~Failing(b)
    BY <2>2, <2>3 DEF Failing, HasFailedFile
  <2>5. build[b].state \notin {"completed", "failed"}
    BY <1>1, <2>1, <2>4 DEF HistoryInv, BuildInv, BuildFits
  <2>6. build[b].state \in BuildStates
    BY <1>1 DEF HistoryInv, TypeOK, BuildRow
  <2> QED BY <1>1, <1>2, <2>5, <2>6 DEF Claimed, BuildStates, StageOf
<1>5. UNCHANGED <<StageOf, UploadOf, ParentOf, HeadOf>>
  BY <1>1 DEF StageOf, UploadOf, ParentOf, HeadOf
<1>6. {b} \X {"patch", "signature"} \subseteq StoredArtifacts
  BY <1>1, <1>2, WholeIsStored DEF HistoryInv
<1>7. "archive" \in Kinds
  BY DEF Kinds
<1>8. <<b, "archive">> \notin StoredArtifacts
  BY <1>1, <1>3, <1>7, StoredIs DEF HistoryInv
<1>9. StoredArtifacts' = StoredArtifacts \cup {<<b, "archive">>}
  <2>1. row.state = "uploaded"
    OBVIOUS
  <2> HIDE DEF row
  <2>0. PICK f : f = <<b, "archive", 1>>
    OBVIOUS
  <2>2. f \in Files /\ file'[f] = row /\ \A g \in Files \ {f} : file'[g] = file[g]
    BY <1>1, <2>0, FirstRowStays DEF HistoryInv
  <2>3. object'[f] = "full" /\ \A g \in Files \ {f} : object'[g] = object[g]
    BY <1>1, <2>0, <2>2 DEF HistoryInv, TypeOK
  <2>4. f[1] = b /\ f[2] = "archive"
    BY <2>0
  <2>5. IsStored(f)' /\ \A g \in Files \ {f} : IsStored(g)' <=> IsStored(g)
    BY <2>1, <2>2, <2>3 DEF IsStored
  <2> QED BY <2>2, <2>4, <2>5, StoredGrows
<1>10. History!Store(b, "archive")
  BY <1>4, <1>5, <1>6, <1>9 DEF History!Store
<1> QED BY <1>1, <1>7, <1>8, <1>10, Stores

LEMMA FailSettles ==
    ASSUME HistoryInv, NEW w \in Workers, FailBuild(w)
    PROVE  Unseen \/ \E b \in BuildIds : History!Settle(b)
<1>0. PICK b : b = worker[w].build
  OBVIOUS
<1>1. /\ worker[w].pc = "fail" /\ b \in BuildIds /\ build'[b].state = "failed"
      /\ build'[b].parent = build[b].parent /\ build'[b].upload = build[b].upload
      /\ \A c \in BuildIds \ {b} : build'[c] = build[c]
      /\ UNCHANGED <<nbuilds, upload, file, object>>
  BY <1>0, FailDoes DEF HistoryInv
<1>2. build[b].state # "absent"
  BY <1>0, <1>1, BusyBuild DEF HistoryInv, Inserted, BusyPcs, CheckPcs
<1>3. ~Whole(b)
  <2>1. Failing(b)
    BY <1>0, <1>1 DEF HistoryInv, BuildInv, FrameFits
  <2> QED BY <1>1, <2>1, WholeIsNotFailing DEF HistoryInv
<1>4. StageOf[b] \in {"open", "failed"} /\ StageOf'[b] = "failed"
  <2>1. build[b].state \in {"started", "processing", "failed"}
    BY <1>1, <1>2, <1>3 DEF HistoryInv, BuildInv, BuildFits, TypeOK, BuildRow, BuildStates
  <2> QED BY <1>1, <2>1 DEF StageOf
<1>5. /\ UNCHANGED <<UploadOf, ParentOf, StoredArtifacts, HeadOf>>
      /\ StageOf'[b] = StageOf[b] => UNCHANGED StageOf
      /\ StageOf' = [StageOf EXCEPT ![b] = StageOf'[b]]
  BY <1>1, StateSeen
<1>6. ~({b} \X History!Artifacts \subseteq StoredArtifacts)
  BY <1>1, <1>3, WholeIsStored DEF HistoryInv
<1>7. CASE StageOf[b] = "open"
  BY <1>1, <1>4, <1>5, <1>6, <1>7 DEF History!Settle
<1> QED BY <1>4, <1>5, <1>7 DEF Unseen

LEMMA CompleteSettles ==
    ASSUME HistoryInv, NEW w \in Workers, Complete(w)
    PROVE  Unseen \/ \E b \in BuildIds : History!Settle(b)
<1>0. PICK b : b = worker[w].build
  OBVIOUS
<1>1. /\ worker[w].pc = "complete" /\ b \in BuildIds /\ build'[b].state = "completed"
      /\ build'[b].parent = build[b].parent /\ build'[b].upload = build[b].upload
      /\ \A c \in BuildIds \ {b} : build'[c] = build[c]
      /\ UNCHANGED <<nbuilds, upload, file, object>>
  BY <1>0, CompleteDoes DEF HistoryInv
<1>2. build[b].state # "absent"
  BY <1>0, <1>1, BusyBuild DEF HistoryInv, Inserted, BusyPcs, CheckPcs
<1>3. Whole(b)
  BY <1>0, <1>1 DEF HistoryInv, BuildInv, FrameFits
<1>4. StageOf[b] \in {"open", "completed"} /\ StageOf'[b] = "completed"
  <2>1. build[b].state # "failed"
    BY <1>1, <1>3, WholeIsNotFailing DEF HistoryInv, BuildInv, BuildFits
  <2>2. build[b].state \in {"started", "processing", "completed"}
    BY <1>1, <1>2, <2>1 DEF HistoryInv, TypeOK, BuildRow, BuildStates
  <2> QED BY <1>1, <2>2 DEF StageOf
<1>5. /\ UNCHANGED <<UploadOf, ParentOf, StoredArtifacts, HeadOf>>
      /\ StageOf'[b] = StageOf[b] => UNCHANGED StageOf
      /\ StageOf' = [StageOf EXCEPT ![b] = StageOf'[b]]
  BY <1>1, StateSeen
<1>6. {b} \X History!Artifacts \subseteq StoredArtifacts
  BY <1>1, <1>3, WholeIsStored DEF HistoryInv
<1>7. CASE StageOf[b] = "open"
  BY <1>1, <1>4, <1>5, <1>6, <1>7 DEF History!Settle
<1> QED BY <1>4, <1>5, <1>7 DEF Unseen

LEMMA AdvancePublishes ==
    ASSUME HistoryInv, NEW w \in Workers, AdvanceHead(w)
    PROVE  Unseen \/ \E b \in BuildIds : History!Publish(b)
<1>0. PICK b, u : b = worker[w].build /\ u = build[b].upload
  OBVIOUS
<1>1. /\ worker[w].pc = "advance" /\ UNCHANGED <<build, file, object>>
      /\ upload' = [upload EXCEPT ![u].head = b] \/ UNCHANGED upload
  BY <1>0 DEF AdvanceHead
<1>2. b \in BuildIds /\ build[b].state = "completed"
  BY <1>0, <1>1, BusyBuild DEF HistoryInv, BuildInv, FrameFits, BusyPcs, CheckPcs
<1>3. UNCHANGED <<StageOf, UploadOf, ParentOf, StoredArtifacts>>
  BY <1>1 DEF StageOf, UploadOf, ParentOf, StoredArtifacts
<1>4. StageOf[b] = "completed" /\ UploadOf[b] = u
  BY <1>0, <1>2 DEF StageOf, UploadOf
<1>5. CASE upload' = [upload EXCEPT ![u].head = b]
  <2>1. \A v \in Uploads : upload'[v].head = IF v = u THEN b ELSE upload[v].head
    BY <1>5 DEF HistoryInv, TypeOK, UploadRow
  <2>2. HeadOf' = [v \in Uploads |-> IF v = u THEN b ELSE upload[v].head]
    BY <2>1 DEF HeadOf
  <2>3. HeadOf' = [HeadOf EXCEPT ![UploadOf[b]] = b]
    BY <1>4, <2>2 DEF HeadOf
  <2> QED BY <1>2, <1>3, <1>4, <2>3 DEF History!Publish
<1>6. CASE UNCHANGED upload
  BY <1>3, <1>6 DEF HeadOf, Unseen
<1> QED BY <1>1, <1>5, <1>6

\* The other statements, and the clients' requests, show nothing.
LEMMA OthersUnseen ==
    ASSUME Butler, HistoryInv, NEW w \in Workers,
           \/ CreateBuildLookup(w) \/ CreateBuildUpload(w) \/ CreateBuildChannel(w)
           \/ CheckBuild(w) \/ CheckFiles(w) \/ Claim(w) \/ GenerateArchive(w) \/ Abandon(w)
    PROVE  Unseen
<1>1. CASE CreateBuildLookup(w) \/ CreateBuildUpload(w)
  BY <1>1, LookupDoes, UploadDoes, TablesUnseen DEF HistoryInv, Tables
<1>2. CASE CreateBuildChannel(w)
  <2>1. UNCHANGED <<build, file, object>> /\ \A v \in Uploads : upload'[v].head = upload[v].head
    BY <1>2, ChannelDoes DEF HistoryInv
  <2> QED BY <2>1 DEF Unseen, StageOf, UploadOf, ParentOf, StoredArtifacts, HeadOf
<1>3. CASE CheckBuild(w) \/ CheckFiles(w)
  BY <1>3, CheckBuildDoes, CheckFilesDoes, TablesUnseen DEF HistoryInv, Tables
<1>4. CASE Claim(w)
  <2>0. PICK b : b = worker[w].build
    OBVIOUS
  <2>1. /\ b \in BuildIds /\ UNCHANGED <<nbuilds, upload, file, object>>
        /\ \/ UNCHANGED build
           \/ /\ build[b].state = "started" /\ build'[b].state = "processing"
              /\ build'[b].parent = build[b].parent /\ build'[b].upload = build[b].upload
              /\ \A c \in BuildIds \ {b} : build'[c] = build[c]
    BY <1>4, <2>0, ClaimDoes DEF HistoryInv
  <2>2. CASE UNCHANGED build
    BY <2>1, <2>2, TablesUnseen DEF Tables
  <2>3. CASE build[b].state = "started" /\ build'[b].state = "processing"
    <3>1. StageOf'[b] = StageOf[b]
      BY <2>1, <2>3 DEF StageOf
    <3>2. \A c \in BuildIds \ {b} : build'[c] = build[c]
      BY <2>1, <2>3
    <3> QED BY <2>1, <2>3, <3>1, <3>2, StateSeen DEF Unseen
  <2> QED BY <2>1, <2>2, <2>3
<1>5. CASE GenerateArchive(w) \/ Abandon(w)
  BY <1>5, GenerateDoes, AbandonDoes, TablesUnseen DEF HistoryInv
<1> QED BY <1>1, <1>2, <1>3, <1>4, <1>5

LEMMA ClientsUnseen ==
    ASSUME Butler, HistoryInv
    PROVE  /\ \A b \in BuildIds, k \in ClientKinds : CreateBuildFile(b, k) => Unseen
           /\ \A f \in Files, s \in StoredSizes : PutObject(f, s) => Unseen
           /\ \A w \in Workers, f \in Files, s \in Sizes : FinalizeLoad(w, f, s) => Unseen
<1>1. ASSUME NEW f \in Files, UNCHANGED <<build, upload>>, ~IsStored(f), ~IsStored(f)',
             \A g \in Files \ {f} : IsStored(g)' <=> IsStored(g)
      PROVE  Unseen
  <2>1. UNCHANGED StoredArtifacts
    BY <1>1, StoredGrows
  <2> QED BY <1>1, <2>1 DEF Unseen, StageOf, UploadOf, ParentOf, HeadOf
<1>2. ASSUME NEW b \in BuildIds, NEW k \in ClientKinds, CreateBuildFile(b, k) PROVE Unseen
  <2> DEFINE f == <<b, k, 1>> row == [state |-> "uploading", size |-> "empty", url |-> TRUE]
  <2>1. FirstRow(b, k, row) /\ UNCHANGED <<nbuilds, build, upload, object>>
    BY <1>2, ClientRowIsFirst DEF HistoryInv
  <2>2. row.state = "uploading"
    OBVIOUS
  <2> HIDE DEF row
  <2>3. /\ f \in Files /\ ~Present(f) /\ file'[f] = row
        /\ \A g \in Files \ {f} : file'[g] = file[g]
    BY <2>1, FirstRowStays DEF HistoryInv
  <2>4. ~IsStored(f) /\ ~IsStored(f)' /\ \A g \in Files \ {f} : IsStored(g)' <=> IsStored(g)
    BY <2>1, <2>2, <2>3 DEF IsStored, Present
  <2> HIDE DEF f
  <2> QED BY <1>1, <2>1, <2>3, <2>4
<1>3. ASSUME NEW f \in Files, NEW s \in StoredSizes, PutObject(f, s) PROVE Unseen
  <2>1. /\ UNCHANGED <<build, upload, file>> /\ file[f].state = "uploading"
        /\ \A g \in Files \ {f} : object'[g] = object[g]
    BY <1>3, PutDoes DEF HistoryInv
  <2> QED BY <1>1, <2>1 DEF IsStored
<1>4. ASSUME NEW w \in Workers, NEW f \in Files, NEW s \in Sizes, FinalizeLoad(w, f, s) PROVE Unseen
  BY <1>4, LoadDoes, TablesUnseen DEF HistoryInv, Tables
<1> QED BY <1>2, <1>3, <1>4

LEMMA HistoryInit == Init => History!Init
BY DEF Init, History!Init, StageOf, UploadOf, ParentOf, StoredArtifacts, HeadOf

LEMMA HistoryStep ==
    ASSUME Butler, HistoryInv, [Next]_vars PROVE [History!Next]_(History!vars)
<1>1. Unseen => UNCHANGED History!vars
  BY DEF Unseen, History!vars
<1>2. CASE UNCHANGED vars
  BY <1>1, <1>2, TablesUnseen DEF vars, Tables
<1>3. ASSUME NEW w \in Workers, CreateBuildLookup(w) \/ Advance(w) \/ Abandon(w)
      PROVE  History!Next \/ Unseen
  <2>1. CASE CreateBuildInsert(w)
    BY <2>1, InsertPushes DEF History!Next
  <2>2. CASE FinalizeWrite(w) \/ RecordArchive(w)
    BY <2>2, WriteStores, RecordStores
  <2>3. CASE FailBuild(w) \/ Complete(w)
    BY <2>3, FailSettles, CompleteSettles DEF History!Next
  <2>4. CASE AdvanceHead(w)
    BY <2>4, AdvancePublishes DEF History!Next
  <2> QED BY <1>3, <2>1, <2>2, <2>3, <2>4, OthersUnseen DEF Advance
<1>4. CASE Next
  BY <1>1, <1>3, <1>4, ClientsUnseen DEF Next
<1> QED BY <1>1, <1>2, <1>4

\* To honest clients the pipeline, with all its statements, handlers and
\* faults, is what BuildHistory promises: pushes onto completed builds, which
\* gather artifacts, settle once by what they have, and are published complete.
THEOREM PipelineImplementsHistory == ASSUME Butler PROVE Spec => ImplementsHistory
BY HistoryInit, HistoryStep, HistoryInvHolds, PTL DEF Spec, ImplementsHistory, History!Spec
=============================================================================
