------------------------ MODULE BuildPipelineProofs ------------------------
(***************************************************************************)
(* Theorems about BuildPipeline, for every number of handlers, builds,     *)
(* rows and faults and for clients of either kind.                         *)
(***************************************************************************)
EXTENDS BuildPipeline, TLAPS

\* The bounds are natural numbers, one by one.
LEMMA Bounds ==
    MaxUploads \in Nat /\ MaxBuilds \in Nat /\ MaxRows \in Nat /\ MaxFaults \in Nat
BY BoundsAssumption

\* A new handler frame, and the frame a check starts from, are frames.
LEMMA FrameTypes == Idle \in Frame /\ \A b \in MaybeBuild : CheckFrame(b) \in Frame
BY DEF Idle, CheckFrame, Frame, Pcs, CheckPcs, MaybeBuild, Sizes, None

\* Moving a handler's program counter leaves it a frame.
LEMMA GotoType ==
    ASSUME TypeOK, NEW w \in Workers, NEW pc \in Pcs
    PROVE  [worker EXCEPT ![w].pc = pc] \in [Workers -> Frame]
<1>1. worker[w] \in Frame
  BY DEF TypeOK
<1>2. [worker[w] EXCEPT !.pc = pc] \in Frame
  BY <1>1 DEF Frame
<1> QED
  BY <1>2 DEF TypeOK

\* So does replacing the frame.
LEMMA FrameUpdate ==
    ASSUME TypeOK, NEW w \in Workers, NEW frame \in Frame
    PROVE  [worker EXCEPT ![w] = frame] \in [Workers -> Frame]
BY DEF TypeOK

\* CheckFiles decides where the check goes on, and nothing else.
LEMMA CheckFilesMoves ==
    ASSUME NEW w, CheckFiles(w)
    PROVE  Goto(w, "fail") \/ Goto(w, "claim") \/ Goto(w, "complete") \/ Return(w)
<1> DEFINE b == worker[w].build
<1>1. CASE HasFailedFile(b)
  BY <1>1 DEF CheckFiles
<1>2. CASE ~HasFailedFile(b)
  <2>1. PICK patch, signature, archive :
           \/ /\ patch /\ signature /\ ~archive /\ worker[w].seen = "started"
              /\ Goto(w, "claim")
           \/ /\ patch /\ signature /\ archive
              /\ Goto(w, "complete")
           \/ /\ ~(patch /\ signature /\ (archive \/ worker[w].seen = "started"))
              /\ Return(w)
    BY <1>2 DEF CheckFiles
  <2> QED BY <2>1
<1> QED BY <1>1, <1>2

\* INSERT and UPDATE of a well-typed file row keep the table well typed.
LEMMA FileUpdate ==
    ASSUME TypeOK, NEW f, NEW row \in FileRow
    PROVE  [file EXCEPT ![f] = row] \in [Files -> FileRow]
BY DEF TypeOK

LEMMA TypeInvariant == TypeOK /\ [Next]_vars => TypeOK'
<1> SUFFICES ASSUME TypeOK, [Next]_vars PROVE TypeOK'
  OBVIOUS
<1> USE Bounds DEF TypeOK
<1>1. ASSUME NEW w \in Workers, CreateBuildLookup(w) PROVE TypeOK'
  <2>1. CASE CreateBuildFindsChannel(w)
    <3>1. PICK u \in Uploads, known \in BOOLEAN :
             /\ worker' = [worker EXCEPT ![w] = [Idle EXCEPT !.pc = "create_build",
                              !.upload = u, !.known = known,
                              !.parent = IF known THEN upload[u].head ELSE None]]
             /\ IF known THEN UNCHANGED faults ELSE Fault
      BY <2>1 DEF CreateBuildFindsChannel
    <3>2. (IF known THEN upload[u].head ELSE None) \in MaybeBuild
      BY DEF UploadRow, MaybeBuild
    <3>3. [Idle EXCEPT !.pc = "create_build", !.upload = u, !.known = known,
              !.parent = IF known THEN upload[u].head ELSE None] \in Frame
      BY <3>2, FrameTypes DEF Frame, Pcs, CreatePcs
    <3>4. worker' \in [Workers -> Frame]
      BY <3>1, <3>3, FrameUpdate
    <3>5. faults' \in 0 .. MaxFaults
      BY <3>1 DEF Fault
    <3> QED BY <1>1, <3>4, <3>5 DEF CreateBuildLookup
  <2>2. CASE CreateBuildFindsNone(w)
    <3>1. [Idle EXCEPT !.pc = "create_upload"] \in Frame
      BY FrameTypes DEF Frame, Pcs, CreatePcs
    <3>2. worker' \in [Workers -> Frame]
      BY <2>2, <3>1, FrameUpdate DEF CreateBuildFindsNone
    <3>3. faults' \in 0 .. MaxFaults
      BY <2>2 DEF CreateBuildFindsNone, Fault
    <3> QED BY <1>1, <3>2, <3>3 DEF CreateBuildLookup
  <2> QED BY <1>1, <2>1, <2>2 DEF CreateBuildLookup
<1>2. ASSUME NEW w \in Workers, CreateBuildUpload(w) PROVE TypeOK'
  <2>1. nuploads + 1 \in Uploads /\ nuploads' \in 0 .. MaxUploads
    BY <1>2 DEF CreateBuildUpload, Uploads
  <2>2. worker[w] \in Frame
    OBVIOUS
  <2>3. [worker[w] EXCEPT !.pc = "create_build", !.upload = nuploads + 1] \in Frame
    BY <2>1, <2>2 DEF Frame, Pcs, CreatePcs
  <2>4. worker' = [worker EXCEPT ![w] =
                      [worker[w] EXCEPT !.pc = "create_build", !.upload = nuploads + 1]]
    BY <1>2 DEF CreateBuildUpload
  <2> QED BY <1>2, <2>1, <2>3, <2>4, FrameUpdate DEF CreateBuildUpload
<1>3. ASSUME NEW w \in Workers, CreateBuildInsert(w) PROVE TypeOK'
  <2>1. nbuilds + 1 \in BuildIds /\ nbuilds' \in 0 .. MaxBuilds
    BY <1>3 DEF CreateBuildInsert, BuildIds
  <2>2. worker[w] \in Frame
    OBVIOUS
  <2>3. [state |-> "started", upload |-> worker[w].upload, parent |-> worker[w].parent] \in BuildRow
    BY <2>2 DEF Frame, BuildRow, BuildStates
  <2>4. [worker[w] EXCEPT !.pc = "create_channel", !.build = nbuilds + 1] \in Frame
    BY <2>1, <2>2 DEF Frame, Pcs, CreatePcs, MaybeBuild
  <2>5. \/ worker' = [worker EXCEPT ![w] = Idle]
        \/ worker' = [worker EXCEPT ![w] =
                         [worker[w] EXCEPT !.pc = "create_channel", !.build = nbuilds + 1]]
    BY <1>3 DEF CreateBuildInsert, Return
  <2>6. worker' \in [Workers -> Frame]
    BY <2>4, <2>5, FrameTypes, FrameUpdate
  <2> QED BY <1>3, <2>1, <2>3, <2>6 DEF CreateBuildInsert
<1>4. ASSUME NEW w \in Workers, CreateBuildChannel(w) PROVE TypeOK'
  BY <1>4, FrameTypes DEF CreateBuildChannel, Return, UploadRow
<1>5. ASSUME NEW w \in Workers, FinalizeWrite(w) PROVE TypeOK'
  <2> DEFINE f == worker[w].file
             row == [file[f] EXCEPT !.state = worker[w].write, !.size = worker[w].size]
  <2>1. worker[w].write \in FileStates /\ worker[w].size \in Sizes /\ worker[w].build \in MaybeBuild
    BY DEF Frame, FileStates
  <2>2. file' = [file EXCEPT ![f] = row] \/ UNCHANGED file
    BY <1>5 DEF FinalizeWrite
  <2>3. file' \in [Files -> FileRow]
    <3>1. CASE f \in Files
      <4>1. row \in FileRow
        BY <2>1, <3>1 DEF FileRow
      <4> HIDE DEF row, f
      <4> QED BY <2>2, <3>1, <4>1, FileUpdate
    <3>2. CASE f \notin Files
      <4> HIDE DEF row, f
      <4> QED BY <2>2, <3>2
    <3> QED BY <3>1, <3>2
  <2>4. faults' \in 0 .. MaxFaults
    BY <1>5 DEF FinalizeWrite, Fault
  <2>5. UNCHANGED <<nbuilds, nuploads, build, upload, object>>
        /\ worker' = [worker EXCEPT ![w] = CheckFrame(worker[w].build)]
    BY <1>5 DEF FinalizeWrite
  <2> QED BY <2>1, <2>3, <2>4, <2>5, FrameTypes, FrameUpdate
<1>6. ASSUME NEW w \in Workers, CheckBuild(w) PROVE TypeOK'
  <2> DEFINE state == build[worker[w].build].state
  <2>1. CASE state \in {"started", "processing"}
    <3>1. [worker[w] EXCEPT !.pc = "check_files", !.seen = state] \in Frame
      BY <2>1 DEF Frame, Pcs, CheckPcs
    <3>2. worker' = [worker EXCEPT ![w] = [worker[w] EXCEPT !.pc = "check_files", !.seen = state]]
      BY <1>6, <2>1 DEF CheckBuild
    <3> HIDE DEF state
    <3> QED BY <1>6, <3>1, <3>2, FrameUpdate DEF CheckBuild
  <2>2. CASE state \notin {"started", "processing"}
    BY <1>6, <2>2, FrameTypes DEF CheckBuild, Return
  <2> QED BY <2>1, <2>2
<1>7. ASSUME NEW w \in Workers, CheckFiles(w) PROVE TypeOK'
  <2>1. Goto(w, "fail") \/ Goto(w, "claim") \/ Goto(w, "complete") \/ Return(w)
    BY <1>7, CheckFilesMoves
  <2>2. worker' \in [Workers -> Frame]
    <3>1. {"fail", "claim", "complete"} \subseteq Pcs
      BY DEF Pcs, CheckPcs
    <3> HIDE DEF TypeOK
    <3> QED BY <2>1, <3>1, FrameTypes, FrameUpdate, GotoType DEF Goto, Return
  <2> QED BY <1>7, <2>2 DEF CheckFiles
<1>8. ASSUME NEW w \in Workers, FailBuild(w) PROVE TypeOK'
  BY <1>8, FrameTypes DEF FailBuild, SetBuildState, Return, BuildRow, BuildStates
<1>9. ASSUME NEW w \in Workers, Claim(w) PROVE TypeOK'
  <2>1. worker' \in [Workers -> Frame]
    BY <1>9, FrameTypes, FrameUpdate, GotoType DEF Claim, Goto, Return, Pcs, CheckPcs, GeneratePcs
  <2>2. build' \in [BuildIds -> BuildRow]
    BY <1>9 DEF Claim, SetBuildState, BuildRow, BuildStates
  <2> QED BY <1>9, <2>1, <2>2 DEF Claim
<1>10. ASSUME NEW w \in Workers, GenerateArchive(w) PROVE TypeOK'
  <2>1. worker' \in [Workers -> Frame]
    BY <1>10, GotoType DEF GenerateArchive, Goto, Pcs, CheckPcs, GeneratePcs
  <2> QED BY <1>10, <2>1 DEF GenerateArchive, Fault
<1>11. ASSUME NEW w \in Workers, RecordArchive(w) PROVE TypeOK'
  <2>1. PICK n : /\ file' = [file EXCEPT ![<<worker[w].build, "archive", n>>] =
                                [state |-> "uploaded", size |-> "full", url |-> FALSE]]
                 /\ object' = [object EXCEPT ![<<worker[w].build, "archive", n>>] = "full"]
    BY <1>11 DEF RecordArchive, InsertFile
  <2>2. [state |-> "uploaded", size |-> "full", url |-> FALSE] \in FileRow
    BY DEF FileRow, FileStates, Sizes
  <2>3. file' \in [Files -> FileRow] /\ object' \in [Files -> Sizes \cup {"none"}]
    BY <2>1, <2>2, FileUpdate DEF Sizes
  <2>4. worker' \in [Workers -> Frame]
    BY <1>11, FrameTypes DEF RecordArchive, Frame
  <2> QED BY <1>11, <2>3, <2>4 DEF RecordArchive
<1>12. ASSUME NEW w \in Workers, Complete(w) PROVE TypeOK'
  <2>1. worker' \in [Workers -> Frame]
    BY <1>12, GotoType DEF Complete, Goto, Pcs, CheckPcs
  <2> QED BY <1>12, <2>1 DEF Complete, SetBuildState, BuildRow, BuildStates
<1>13. ASSUME NEW w \in Workers, AdvanceHead(w) PROVE TypeOK'
  <2>1. worker[w] \in Frame
    OBVIOUS
  <2>2. worker[w].build \in MaybeBuild
    BY <2>1 DEF Frame
  <2>3. upload' \in [Uploads -> UploadRow]
    BY <1>13, <2>2 DEF AdvanceHead, UploadRow
  <2> QED BY <1>13, <2>3, FrameTypes, FrameUpdate DEF AdvanceHead, Return
<1>14. ASSUME NEW w \in Workers, Abandon(w) PROVE TypeOK'
  BY <1>14, FrameTypes DEF Abandon, Fault, Return
<1>15. ASSUME NEW b \in BuildIds, NEW k \in ClientKinds, CreateBuildFile(b, k) PROVE TypeOK'
  <2>1. PICK n : file' = [file EXCEPT ![<<b, k, n>>] =
                             [state |-> "uploading", size |-> "empty", url |-> TRUE]]
    BY <1>15 DEF CreateBuildFile, InsertFile
  <2>2. [state |-> "uploading", size |-> "empty", url |-> TRUE] \in FileRow
    BY DEF FileRow, FileStates, Sizes
  <2> QED BY <1>15, <2>1, <2>2, FileUpdate DEF CreateBuildFile
<1>16. ASSUME NEW f \in Files, NEW s \in StoredSizes, PutObject(f, s) PROVE TypeOK'
  BY <1>16, ClientAssumption DEF PutObject
<1>17. ASSUME NEW w \in Workers, NEW f \in Files, NEW s \in Sizes, FinalizeLoad(w, f, s)
       PROVE  TypeOK'
  <2> DEFINE frame == [Idle EXCEPT !.pc = "finalize_write", !.build = f[1], !.file = f,
             !.write = IF s # "empty" /\ s # object[f] THEN "failed" ELSE "uploaded",
             !.size = IF s # "empty" /\ s # object[f] THEN file[f].size ELSE object[f]]
  <2>1. f[1] \in MaybeBuild
    BY DEF Files, MaybeBuild
  <2>2. file[f].size \in Sizes /\ object[f] \in Sizes
    BY <1>17 DEF FinalizeLoad, FileRow
  <2>3. frame \in Frame
    BY <2>1, <2>2, FrameTypes DEF Frame, Pcs
  <2>4. worker' = [worker EXCEPT ![w] = frame]
    BY <1>17 DEF FinalizeLoad
  <2> HIDE DEF frame
  <2> QED BY <1>17, <2>3, <2>4, FrameUpdate DEF FinalizeLoad
<1>18. CASE UNCHANGED vars
  BY <1>18 DEF vars
<1> QED
  BY <1>1, <1>2, <1>3, <1>4, <1>5, <1>6, <1>7, <1>8, <1>9, <1>10, <1>11, <1>12, <1>13,
     <1>14, <1>15, <1>16, <1>17, <1>18 DEF Next, Advance

LEMMA TypeInit == Init => TypeOK
BY Bounds, FrameTypes DEF Init, TypeOK, BuildRow, BuildStates, UploadRow, FileRow, FileStates, Sizes,
      MaybeBuild, None

\* Every variable keeps its type: no step of any handler, client or fault
\* writes a value its column or frame cannot hold.
THEOREM TypeCorrect == Spec => []TypeOK
BY TypeInit, TypeInvariant, PTL DEF Spec

-----------------------------------------------------------------------------
(* Lineage: what the parent column, the heads and the handlers' copies say   *)
(* about builds is about builds that exist.                                  *)

BusyPcs == {"finalize_write"} \cup CheckPcs

UninsertedBuilds ==
    \A b \in BuildIds : b > nbuilds => build[b].state = "absent" /\ build[b].parent = None

HeadsExist ==
    \A u \in Uploads : upload[u].head # None =>
        upload[u].head <= nbuilds /\ build[upload[u].head].upload = u

\* What a frame knows: its chosen parent, its build and its file row exist.
FrameLineage(frame) ==
    /\ frame.pc = "create_upload" => frame.parent = None
    /\ frame.pc = "create_build" /\ frame.parent # None =>
           frame.parent <= nbuilds /\ build[frame.parent].upload = frame.upload
    /\ frame.pc \in BusyPcs => frame.build \in 1 .. nbuilds
    /\ frame.pc = "finalize_write" => /\ frame.file \in Files /\ frame.file[1] = frame.build
                                      /\ file[frame.file].state # "absent"

FramesExist == \A w \in Workers : FrameLineage(worker[w])

RowsExist ==
    \A f \in Files : file[f].url \/ object[f] # "none" \/ file[f].state # "absent" =>
        file[f].state # "absent" /\ f[1] <= nbuilds

LineageInv ==
    UninsertedBuilds /\ HeadsExist /\ FramesExist /\ RowsExist /\ ParentIsOlder

LEMMA LineageInit == Init => LineageInv
BY Bounds DEF Init, LineageInv, UninsertedBuilds, HeadsExist, FramesExist, FrameLineage,
   RowsExist, ParentIsOlder, Idle, BusyPcs, CheckPcs, GeneratePcs

\* A step that leaves the tables alone and moves one handler keeps the
\* lineage when the handler's new frame does.
LEMMA LineageOfFrames ==
    ASSUME TypeOK, LineageInv, NEW w \in Workers, NEW frame,
           worker' = [worker EXCEPT ![w] = frame],
           UNCHANGED <<nbuilds, build, upload, file, object>>,
           FrameLineage(frame)
    PROVE  LineageInv'
BY DEF TypeOK, LineageInv, UninsertedBuilds, HeadsExist, FramesExist, FrameLineage,
   RowsExist, ParentIsOlder

\* So does a step that writes build states only.
LEMMA LineageOfStates ==
    ASSUME TypeOK, LineageInv, NEW b \in 1 .. nbuilds, NEW state, NEW w \in Workers, NEW frame,
           build' = [build EXCEPT ![b].state = state],
           worker' = [worker EXCEPT ![w] = frame],
           UNCHANGED <<nbuilds, upload, file, object>>,
           frame.pc \in CheckPcs => frame.build \in 1 .. nbuilds,
           frame.pc \in CheckPcs \cup {"idle"}
    PROVE  LineageInv'
<1>1. \A c \in BuildIds : /\ build'[c].upload = build[c].upload
                          /\ build'[c].parent = build[c].parent
                          /\ c # b => build'[c].state = build[c].state
  BY DEF TypeOK, BuildRow
<1>2. UninsertedBuilds' /\ HeadsExist' /\ ParentIsOlder'
  BY <1>1, Bounds DEF TypeOK, LineageInv, UninsertedBuilds, HeadsExist, ParentIsOlder, UploadRow,
     BuildRow, MaybeBuild, BuildIds
<1>3. FramesExist' /\ RowsExist'
  BY <1>1, Bounds DEF TypeOK, LineageInv, FramesExist, FrameLineage, RowsExist, Frame, MaybeBuild,
     BuildIds, BusyPcs, CheckPcs, GeneratePcs
<1> QED BY <1>2, <1>3 DEF LineageInv

\* And a step that writes one file row, of a build that exists, and maybe its
\* object.
LEMMA LineageOfRows ==
    ASSUME TypeOK, LineageInv, NEW f, NEW row, f \in Files => f[1] <= nbuilds,
           file' = [file EXCEPT ![f] = row], row.state # "absent",
           \/ UNCHANGED object
           \/ \E s : object' = [object EXCEPT ![f] = s],
           \A w \in Workers : FrameLineage(worker'[w]),
           UNCHANGED <<nbuilds, build, upload>>
    PROVE  LineageInv'
<1>1. UninsertedBuilds' /\ HeadsExist' /\ ParentIsOlder'
  BY DEF LineageInv, UninsertedBuilds, HeadsExist, ParentIsOlder
<1>2. FramesExist'
  BY DEF LineageInv, FramesExist, FrameLineage
<1>3. RowsExist'
  BY DEF TypeOK, LineageInv, RowsExist
<1> QED BY <1>1, <1>2, <1>3 DEF LineageInv

\* A handler that returns, or goes on with the build it works on.
LEMMA FrameLineageKept ==
    ASSUME TypeOK, LineageInv, NEW w \in Workers
    PROVE  /\ FrameLineage(Idle)
           /\ worker[w].pc \in BusyPcs => FrameLineage(CheckFrame(worker[w].build))
           /\ \A pc \in CheckPcs : worker[w].pc \in BusyPcs =>
                  FrameLineage([worker[w] EXCEPT !.pc = pc])
BY DEF TypeOK, LineageInv, FramesExist, FrameLineage, Idle, CheckFrame, BusyPcs, CheckPcs, GeneratePcs,
       Frame

LEMMA LineageStep == TypeOK /\ LineageInv /\ [Next]_vars => LineageInv'
<1> SUFFICES ASSUME TypeOK, LineageInv, [Next]_vars PROVE LineageInv'
  OBVIOUS
<1> USE Bounds
<1>1. ASSUME NEW w \in Workers, CreateBuildLookup(w) PROVE LineageInv'
  <2>1. CASE CreateBuildFindsChannel(w)
    <3>1. PICK u \in Uploads, known \in BOOLEAN :
             worker' = [worker EXCEPT ![w] = [Idle EXCEPT !.pc = "create_build",
                              !.upload = u, !.known = known,
                              !.parent = IF known THEN upload[u].head ELSE None]]
      BY <2>1 DEF CreateBuildFindsChannel
    <3> DEFINE frame == [Idle EXCEPT !.pc = "create_build", !.upload = u, !.known = known,
                             !.parent = IF known THEN upload[u].head ELSE None]
    <3>2. /\ frame.pc = "create_build" /\ frame.upload = u
          /\ frame.parent = IF known THEN upload[u].head ELSE None
      BY DEF Idle
    <3>3. FrameLineage(frame)
      BY <3>2 DEF LineageInv, HeadsExist, FrameLineage, BusyPcs, CheckPcs, GeneratePcs
    <3>4. UNCHANGED <<nbuilds, build, upload, file, object>>
      BY <1>1 DEF CreateBuildLookup
    <3>5. worker' = [worker EXCEPT ![w] = frame]
      BY <3>1
    <3> HIDE DEF frame
    <3> QED BY <3>3, <3>4, <3>5, LineageOfFrames
  <2>2. CASE CreateBuildFindsNone(w)
    <3>1. FrameLineage([Idle EXCEPT !.pc = "create_upload"])
      BY DEF Idle, FrameLineage, BusyPcs, CheckPcs, GeneratePcs
    <3> QED BY <1>1, <2>2, <3>1, LineageOfFrames DEF CreateBuildLookup, CreateBuildFindsNone
  <2> QED BY <1>1, <2>1, <2>2 DEF CreateBuildLookup
<1>2. ASSUME NEW w \in Workers, CreateBuildUpload(w) PROVE LineageInv'
  <2> DEFINE frame == [worker[w] EXCEPT !.pc = "create_build", !.upload = nuploads + 1]
  <2>1. worker' = [worker EXCEPT ![w] = frame]
    BY <1>2 DEF CreateBuildUpload
  <2>2. frame.pc = "create_build" /\ frame.parent = worker[w].parent
    BY DEF TypeOK, Frame
  <2>3. worker[w].parent = None
    BY <1>2 DEF CreateBuildUpload, LineageInv, FramesExist, FrameLineage
  <2>4. FrameLineage(frame)
    BY <2>2, <2>3 DEF FrameLineage, BusyPcs, CheckPcs, GeneratePcs
  <2> HIDE DEF frame
  <2> QED BY <1>2, <2>1, <2>4, LineageOfFrames DEF CreateBuildUpload
<1>3. ASSUME NEW w \in Workers, CreateBuildInsert(w) PROVE LineageInv'
  <2>1. /\ nbuilds' = nbuilds + 1 /\ nbuilds + 1 \in BuildIds
        /\ build' = [build EXCEPT ![nbuilds + 1] = [state |-> "started",
                        upload |-> worker[w].upload, parent |-> worker[w].parent]]
        /\ UNCHANGED <<upload, file, object>>
    BY <1>3 DEF CreateBuildInsert, BuildIds, TypeOK
  <2>2. \A c \in BuildIds : c # nbuilds + 1 => build'[c] = build[c]
    BY <2>1 DEF TypeOK
  <2>3. UninsertedBuilds' /\ HeadsExist' /\ RowsExist'
    BY <2>1, <2>2 DEF LineageInv, UninsertedBuilds, HeadsExist, RowsExist, TypeOK, UploadRow,
       MaybeBuild, BuildIds, Files
  <2>4. ParentIsOlder'
    BY <1>3, <2>1, <2>2 DEF CreateBuildInsert, LineageInv, FramesExist, FrameLineage,
       ParentIsOlder, UninsertedBuilds, TypeOK, Frame, MaybeBuild, BuildIds, BuildRow
  <2>5. \A v \in Workers : worker'[v] = worker[v] \/ worker'[v].pc \in {"idle", "create_channel"}
    BY <1>3 DEF CreateBuildInsert, Return, Idle, TypeOK, Frame
  <2>6. FramesExist'
    BY <2>1, <2>2, <2>5 DEF LineageInv, FramesExist, FrameLineage, TypeOK, Frame, MaybeBuild,
       BuildIds, BusyPcs, CheckPcs, GeneratePcs
  <2> QED BY <2>3, <2>4, <2>6 DEF LineageInv
<1>4. ASSUME NEW w \in Workers, CreateBuildChannel(w) PROVE LineageInv'
  <2>1. \A u \in Uploads : upload'[u].head = upload[u].head
    BY <1>4 DEF CreateBuildChannel, TypeOK, UploadRow
  <2>2. UninsertedBuilds' /\ HeadsExist' /\ RowsExist' /\ ParentIsOlder'
    BY <1>4, <2>1 DEF CreateBuildChannel, LineageInv, UninsertedBuilds, HeadsExist, RowsExist,
       ParentIsOlder
  <2>3. FramesExist'
    BY <1>4, FrameLineageKept DEF CreateBuildChannel, Return, LineageInv, FramesExist,
       FrameLineage, TypeOK
  <2> QED BY <2>2, <2>3 DEF LineageInv
<1>5. ASSUME NEW w \in Workers, FinalizeWrite(w) PROVE LineageInv'
  <2> DEFINE f == worker[w].file
             row == [file[f] EXCEPT !.state = worker[w].write, !.size = worker[w].size]
  <2>1. f \in Files /\ f[1] <= nbuilds /\ worker[w].pc \in BusyPcs
    BY <1>5 DEF FinalizeWrite, LineageInv, FramesExist, FrameLineage, TypeOK, Frame, BusyPcs
  <2>2. row.state # "absent"
    BY <2>1 DEF TypeOK, Frame, FileRow
  <2>3. file' = [file EXCEPT ![f] = row] \/ UNCHANGED file
    BY <1>5, <2>1 DEF FinalizeWrite, TypeOK
  <2>4. \A v \in Workers : FrameLineage(worker'[v])
    BY <1>5, <2>1, FrameLineageKept DEF FinalizeWrite, LineageInv, FramesExist, TypeOK
  <2>5. UNCHANGED <<nbuilds, build, upload, object>>
    BY <1>5 DEF FinalizeWrite
  <2> HIDE DEF f, row
  <2>6. CASE file' = [file EXCEPT ![f] = row]
    BY <2>1, <2>2, <2>4, <2>5, <2>6, LineageOfRows
  <2>7. CASE UNCHANGED file
    <3>1. worker' = [worker EXCEPT ![w] = CheckFrame(worker[w].build)]
      BY <1>5 DEF FinalizeWrite
    <3>2. FrameLineage(CheckFrame(worker[w].build))
      BY <2>4, <3>1 DEF TypeOK
    <3> QED BY <2>5, <2>7, <3>1, <3>2, LineageOfFrames
  <2> QED BY <2>3, <2>6, <2>7
<1>6. ASSUME NEW w \in Workers, CheckBuild(w) PROVE LineageInv'
  <2> DEFINE frame == [worker[w] EXCEPT !.pc = "check_files", !.seen = build[worker[w].build].state]
  <2>1. worker' = [worker EXCEPT ![w] = frame] \/ worker' = [worker EXCEPT ![w] = Idle]
    BY <1>6 DEF CheckBuild, Return
  <2>2. worker[w].build \in 1 .. nbuilds
    BY <1>6 DEF CheckBuild, LineageInv, FramesExist, FrameLineage, BusyPcs, CheckPcs
  <2>3. FrameLineage(frame)
    BY <2>2 DEF FrameLineage, BusyPcs, TypeOK, Frame
  <2>4. UNCHANGED <<nbuilds, build, upload, file, object>>
    BY <1>6 DEF CheckBuild
  <2> HIDE DEF frame
  <2> QED BY <2>1, <2>3, <2>4, FrameLineageKept, LineageOfFrames
<1>7. ASSUME NEW w \in Workers, CheckFiles(w) PROVE LineageInv'
  <2>1. \/ \E pc \in CheckPcs : worker' = [worker EXCEPT ![w].pc = pc]
        \/ worker' = [worker EXCEPT ![w] = Idle]
    <3>1. Goto(w, "fail") \/ Goto(w, "claim") \/ Goto(w, "complete") \/ Return(w)
      BY <1>7, CheckFilesMoves
    <3> QED BY <3>1 DEF Goto, Return, CheckPcs
  <2>2. worker[w].pc \in BusyPcs
    BY <1>7 DEF CheckFiles, BusyPcs, CheckPcs
  <2>3. UNCHANGED <<nbuilds, build, upload, file, object>>
    BY <1>7 DEF CheckFiles
  <2> QED BY <2>1, <2>2, <2>3, FrameLineageKept, LineageOfFrames
<1>8. ASSUME NEW w \in Workers, FailBuild(w) PROVE LineageInv'
  BY <1>8, LineageOfStates DEF FailBuild, SetBuildState, Return, Idle, CheckPcs, GeneratePcs,
     BusyPcs, LineageInv, FramesExist, FrameLineage
<1>9. ASSUME NEW w \in Workers, Claim(w) PROVE LineageInv'
  <2>1. worker[w].pc \in BusyPcs /\ worker[w].build \in 1 .. nbuilds
    BY <1>9 DEF Claim, LineageInv, FramesExist, FrameLineage, BusyPcs, CheckPcs
  <2>2. CASE build[worker[w].build].state = "started"
    <3> DEFINE frame == [worker[w] EXCEPT !.pc = "generate"]
    <3>1. frame.pc = "generate" /\ frame.build = worker[w].build
      BY DEF TypeOK, Frame
    <3>2. /\ build' = [build EXCEPT ![worker[w].build].state = "processing"]
          /\ worker' = [worker EXCEPT ![w] = frame]
          /\ UNCHANGED <<nbuilds, upload, file, object>>
      BY <1>9, <2>2 DEF Claim, SetBuildState, Goto
    <3> HIDE DEF frame
    <3> QED BY <2>1, <3>1, <3>2, LineageOfStates DEF CheckPcs, GeneratePcs
  <2>3. CASE build[worker[w].build].state # "started"
    BY <1>9, <2>3, FrameLineageKept, LineageOfFrames DEF Claim, Return
  <2> QED BY <2>2, <2>3
<1>10. ASSUME NEW w \in Workers, GenerateArchive(w) PROVE LineageInv'
  <2>1. \E pc \in CheckPcs : worker' = [worker EXCEPT ![w].pc = pc]
    BY <1>10 DEF GenerateArchive, Goto, CheckPcs, GeneratePcs
  <2>2. worker[w].pc \in BusyPcs
    BY <1>10 DEF GenerateArchive, BusyPcs, CheckPcs, GeneratePcs
  <2>3. UNCHANGED <<nbuilds, build, upload, file, object>>
    BY <1>10 DEF GenerateArchive
  <2> QED BY <2>1, <2>2, <2>3, FrameLineageKept, LineageOfFrames
<1>11. ASSUME NEW w \in Workers, RecordArchive(w) PROVE LineageInv'
  <2> DEFINE b == worker[w].build
             row == [state |-> "uploaded", size |-> "full", url |-> FALSE]
  <2>1. worker[w].pc \in BusyPcs /\ b <= nbuilds
    BY <1>11 DEF RecordArchive, LineageInv, FramesExist, FrameLineage, BusyPcs, CheckPcs,
       GeneratePcs, TypeOK
  <2>2. PICK n : /\ file' = [file EXCEPT ![<<b, "archive", n>>] = row]
                 /\ object' = [object EXCEPT ![<<b, "archive", n>>] = "full"]
    BY <1>11 DEF RecordArchive, InsertFile
  <2>3. \A v \in Workers : FrameLineage(worker'[v])
    BY <1>11, <2>1, FrameLineageKept DEF RecordArchive, LineageInv, FramesExist, TypeOK
  <2>4. UNCHANGED <<nbuilds, build, upload>>
    BY <1>11 DEF RecordArchive
  <2>5. row.state # "absent" /\ <<b, "archive", n>>[1] <= nbuilds
    BY <2>1
  <2> HIDE DEF b, row
  <2> QED BY <2>2, <2>3, <2>4, <2>5, LineageOfRows
<1>12. ASSUME NEW w \in Workers, Complete(w) PROVE LineageInv'
  <2>1. worker[w].build \in 1 .. nbuilds
    BY <1>12 DEF Complete, LineageInv, FramesExist, FrameLineage, BusyPcs, CheckPcs
  <2> DEFINE frame == [worker[w] EXCEPT !.pc = "advance"]
  <2>2. frame.pc = "advance" /\ frame.build = worker[w].build
    BY DEF TypeOK, Frame
  <2>3. /\ build' = [build EXCEPT ![worker[w].build].state = "completed"]
        /\ worker' = [worker EXCEPT ![w] = frame]
        /\ UNCHANGED <<nbuilds, upload, file, object>>
    BY <1>12 DEF Complete, SetBuildState, Goto
  <2> HIDE DEF frame
  <2> QED BY <2>1, <2>2, <2>3, LineageOfStates DEF CheckPcs
<1>13. ASSUME NEW w \in Workers, AdvanceHead(w) PROVE LineageInv'
  <2> DEFINE b == worker[w].build
  <2>1. b \in 1 .. nbuilds
    BY <1>13 DEF AdvanceHead, LineageInv, FramesExist, FrameLineage, BusyPcs, CheckPcs
  <2>2. \A u \in Uploads : upload'[u].head = upload[u].head \/ (u = build[b].upload /\ upload'[u].head = b)
    BY <1>13 DEF AdvanceHead, TypeOK, UploadRow
  <2>3. HeadsExist'
    BY <1>13, <2>1, <2>2 DEF AdvanceHead, LineageInv, HeadsExist, TypeOK
  <2>4. UninsertedBuilds' /\ RowsExist' /\ ParentIsOlder'
    BY <1>13 DEF AdvanceHead, LineageInv, UninsertedBuilds, RowsExist, ParentIsOlder
  <2>5. FramesExist'
    BY <1>13, FrameLineageKept DEF AdvanceHead, Return, LineageInv, FramesExist, FrameLineage, TypeOK
  <2> QED BY <2>3, <2>4, <2>5 DEF LineageInv
<1>14. ASSUME NEW w \in Workers, Abandon(w) PROVE LineageInv'
  BY <1>14, FrameLineageKept, LineageOfFrames DEF Abandon, Return
<1>15. ASSUME NEW b \in BuildIds, NEW k \in ClientKinds, CreateBuildFile(b, k) PROVE LineageInv'
  <2> DEFINE row == [state |-> "uploading", size |-> "empty", url |-> TRUE]
  <2>1. b <= nbuilds
    BY <1>15 DEF CreateBuildFile, Visible, LineageInv, UninsertedBuilds, TypeOK, BuildIds
  <2>2. PICK n : file' = [file EXCEPT ![<<b, k, n>>] = row]
    BY <1>15 DEF CreateBuildFile, InsertFile
  <2>3. UNCHANGED <<nbuilds, build, upload, object, worker>>
    BY <1>15 DEF CreateBuildFile
  <2>4. row.state # "absent" /\ <<b, k, n>>[1] <= nbuilds
    BY <2>1
  <2>5. \A v \in Workers : FrameLineage(worker'[v])
    BY <2>3 DEF LineageInv, FramesExist
  <2> HIDE DEF row
  <2> QED BY <2>2, <2>3, <2>4, <2>5, LineageOfRows
<1>16. ASSUME NEW f \in Files, NEW s \in StoredSizes, PutObject(f, s) PROVE LineageInv'
  BY <1>16 DEF PutObject, LineageInv, UninsertedBuilds, HeadsExist, FramesExist, FrameLineage,
     RowsExist, ParentIsOlder, TypeOK
<1>17. ASSUME NEW w \in Workers, NEW f \in Files, NEW s \in Sizes, FinalizeLoad(w, f, s)
       PROVE  LineageInv'
  <2> DEFINE frame == [Idle EXCEPT !.pc = "finalize_write", !.build = f[1], !.file = f,
             !.write = IF s # "empty" /\ s # object[f] THEN "failed" ELSE "uploaded",
             !.size = IF s # "empty" /\ s # object[f] THEN file[f].size ELSE object[f]]
  <2>1. frame.pc = "finalize_write" /\ frame.build = f[1] /\ frame.file = f
    BY DEF Idle
  <2>2. file[f].state # "absent" /\ f[1] \in 1 .. nbuilds
    BY <1>17 DEF FinalizeLoad, LineageInv, RowsExist, Files, BuildIds, TypeOK
  <2>3. FrameLineage(frame)
    BY <2>1, <2>2 DEF FrameLineage
  <2>4. worker' = [worker EXCEPT ![w] = frame] /\ UNCHANGED <<nbuilds, build, upload, file, object>>
    BY <1>17 DEF FinalizeLoad
  <2> HIDE DEF frame
  <2> QED BY <2>3, <2>4, LineageOfFrames
<1>18. CASE UNCHANGED vars
  BY <1>18 DEF vars, LineageInv, UninsertedBuilds, HeadsExist, FramesExist, FrameLineage, RowsExist,
     ParentIsOlder
<1> QED
  BY <1>1, <1>2, <1>3, <1>4, <1>5, <1>6, <1>7, <1>8, <1>9, <1>10, <1>11, <1>12, <1>13,
     <1>14, <1>15, <1>16, <1>17, <1>18 DEF Next, Advance

LEMMA LineageHolds == Spec => [](TypeOK /\ LineageInv)
BY TypeInit, TypeInvariant, LineageInit, LineageStep, PTL DEF Spec

\* Parents are older builds of the same upload, whatever clients do and
\* whatever fails: every walk along parent_build_id ends.
THEOREM LineageIsAcyclic == Spec => []ParentIsOlder
<1>1. LineageInv => ParentIsOlder
  BY DEF LineageInv
<1> QED BY <1>1, LineageHolds, PTL
=============================================================================
