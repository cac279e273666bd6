---------------------- MODULE BuildPipelineClaimProofs ----------------------
(***************************************************************************)
(* The claim of checkAndUpdateBuildState: one handler wins it, generates   *)
(* the archive and inserts its one row, for any number of finalizations,   *)
(* with clients of either kind and whatever fails.                         *)
(***************************************************************************)
EXTENDS BuildPipelineProofs

Claimed(b) == build[b].state \notin {"absent", "started"}
Generating(w) == worker[w].pc \in GeneratePcs

\* A row that the server inserted: CreateBuildFile's rows hold an upload URL.
Generated(f) == file[f].state # "absent" /\ ~file[f].url

GeneratingIsClaimed == \A w \in Workers : Generating(w) => Claimed(worker[w].build)

\* Once its row is there a build is claimed for good and nobody generates it.
GeneratedIsOver ==
    \A f \in Files : Generated(f) =>
        Claimed(f[1]) /\ \A w \in Workers : Generating(w) => worker[w].build # f[1]

OneGeneratedRow ==
    \A f, g \in Files : Generated(f) /\ Generated(g) /\ f[1] = g[1] => f = g

ClaimInv ==
    GeneratingIsClaimed /\ GeneratedIsOver /\ OneGeneratedRow /\ SingleGeneration

LEMMA ClaimInit == Init => ClaimInv
BY DEF Init, ClaimInv, GeneratingIsClaimed, GeneratedIsOver, OneGeneratedRow, SingleGeneration,
   Generating, Generated, Idle, GeneratePcs

\* A handler that is not idle works on a build that was inserted.
LEMMA BusyBuild ==
    ASSUME TypeOK, LineageInv, NEW w \in Workers, worker[w].pc \in BusyPcs
    PROVE  worker[w].build \in BuildIds /\ worker[w].build <= nbuilds
BY Bounds DEF TypeOK, LineageInv, FramesExist, FrameLineage, BuildIds

\* No statement takes a claim back: CreateBuildInsert writes a row that was
\* absent, and UpdateBuild writes processing, completed or failed.
LEMMA ClaimsLast ==
    TypeOK /\ LineageInv /\ [Next]_vars => \A b \in BuildIds : Claimed(b) => Claimed(b)'
<1> SUFFICES ASSUME TypeOK, LineageInv, [Next]_vars, NEW b \in BuildIds, Claimed(b)
             PROVE  Claimed(b)'
  OBVIOUS
<1>1. ASSUME NEW w \in Workers, CreateBuildInsert(w) PROVE Claimed(b)'
  <2>1. nbuilds + 1 > nbuilds
    BY DEF TypeOK
  <2>2. b # nbuilds + 1
    BY <2>1, Bounds DEF Claimed, LineageInv, UninsertedBuilds
  <2> QED BY <1>1, <2>2 DEF CreateBuildInsert, Claimed, TypeOK
<1>2. ASSUME NEW c, NEW state \in {"processing", "completed", "failed"}, SetBuildState(c, state)
      PROVE  Claimed(b)'
  BY <1>2 DEF SetBuildState, Claimed, TypeOK, BuildRow
<1>3. ASSUME NEW w \in Workers, Claim(w) PROVE Claimed(b)'
  <2>1. SetBuildState(worker[w].build, "processing") \/ UNCHANGED build
    BY <1>3 DEF Claim
  <2> QED BY <1>2, <2>1 DEF Claimed
<1>4. ASSUME NEW w \in Workers, FailBuild(w) \/ Complete(w) PROVE Claimed(b)'
  BY <1>2, <1>4 DEF FailBuild, Complete
<1>5. CASE UNCHANGED build
  BY <1>5 DEF Claimed
<1> QED
  BY <1>1, <1>3, <1>4, <1>5 DEF Next, Advance, vars, CreateBuildLookup, CreateBuildUpload,
     CreateBuildChannel, FinalizeWrite, CheckBuild, CheckFiles, GenerateArchive, RecordArchive,
     AdvanceHead, Abandon, CreateBuildFile, PutObject, FinalizeLoad

\* A build that was claimed or settled is never open for a claim again.
THEOREM ClaimsAreFinal == Spec => NeverReopened
<1>1. TypeOK /\ LineageInv /\ [Next]_vars =>
         [\A b \in BuildIds : build[b].state \notin {"absent", "started"} =>
              build'[b].state \notin {"absent", "started"}]_vars
  BY ClaimsLast DEF Claimed
<1> QED BY <1>1, LineageHolds, PTL DEF Spec, NeverReopened

\* Nobody starts to generate and no generated row appears.
Calm ==
    /\ \A w \in Workers : Generating(w)' => Generating(w) /\ worker'[w].build = worker[w].build
    /\ \A f \in Files : Generated(f)' => Generated(f)

\* Such a step keeps the invariant.
LEMMA ClaimKept ==
    ASSUME TypeOK, LineageInv, ClaimInv, [Next]_vars, Calm
    PROVE  ClaimInv'
<1>1. \A b \in BuildIds : Claimed(b) => Claimed(b)'
  BY ClaimsLast
<1>2. \A w \in Workers : Generating(w) => worker[w].build \in BuildIds
  BY BusyBuild DEF Generating, BusyPcs, CheckPcs
<1>3. \A f \in Files : f[1] \in BuildIds
  BY DEF Files
<1>4. GeneratingIsClaimed'
  BY <1>1, <1>2 DEF Calm, ClaimInv, GeneratingIsClaimed
<1>5. GeneratedIsOver'
  BY <1>1, <1>3 DEF Calm, ClaimInv, GeneratedIsOver
<1>6. OneGeneratedRow'
  BY DEF Calm, ClaimInv, OneGeneratedRow
<1>7. SingleGeneration'
  BY DEF Calm, ClaimInv, SingleGeneration, Generating
<1> QED BY <1>4, <1>5, <1>6, <1>7 DEF ClaimInv

\* The frames of handlers that are not generating.
LEMMA NotGenerating ==
    ASSUME TypeOK, NEW w \in Workers, NEW frame, frame.pc \notin GeneratePcs,
           worker' = [worker EXCEPT ![w] = frame]
    PROVE  \A v \in Workers : Generating(v)' => Generating(v) /\ worker'[v].build = worker[v].build
BY DEF TypeOK, Generating

\* Steps that move one handler, not into the generation, and leave rows alone.
LEMMA CalmMove ==
    ASSUME TypeOK, NEW w \in Workers, NEW frame, frame.pc \notin GeneratePcs,
           worker' = [worker EXCEPT ![w] = frame], UNCHANGED file
    PROVE  Calm
<1>1. \A f \in Files : Generated(f)' => Generated(f)
  BY DEF Generated
<1> QED BY <1>1, NotGenerating DEF Calm

LEMMA CalmGoto ==
    ASSUME TypeOK, NEW w \in Workers, NEW pc, pc \notin GeneratePcs,
           Goto(w, pc) \/ Return(w), UNCHANGED file
    PROVE  Calm
<1>1. [worker[w] EXCEPT !.pc = pc].pc = pc
  BY DEF TypeOK, Frame
<1>2. Idle.pc \notin GeneratePcs
  BY DEF Idle, GeneratePcs
<1> QED BY <1>1, <1>2, CalmMove DEF Goto, Return

\* The winner of the claim is the only one who generates: a build that is
\* still started has neither a generating handler nor a generated row.
LEMMA ClaimStep ==
    ASSUME TypeOK, LineageInv, ClaimInv, [Next]_vars, NEW w \in Workers, Claim(w),
           build[worker[w].build].state = "started"
    PROVE  ClaimInv'
<1> DEFINE b == worker[w].build
<1>1. b \in BuildIds
  BY BusyBuild DEF Claim, BusyPcs, CheckPcs
<1>2. /\ build' = [build EXCEPT ![b].state = "processing"]
      /\ worker' = [worker EXCEPT ![w].pc = "generate"]
      /\ UNCHANGED file
  BY DEF Claim, SetBuildState, Goto
<1>3. /\ worker'[w].build = b
      /\ \A v \in Workers : v # w => worker'[v] = worker[v]
  BY <1>2 DEF TypeOK, Frame
<1>4. ~Claimed(b) /\ build'[b].state = "processing"
  BY <1>1, <1>2 DEF TypeOK, BuildRow, Claimed
<1>5. \A v \in Workers : Generating(v) => worker[v].build # b
  BY <1>4 DEF ClaimInv, GeneratingIsClaimed
<1>6. \A f \in Files : Generated(f) => f[1] # b
  BY <1>4 DEF ClaimInv, GeneratedIsOver
<1>7. \A c \in BuildIds : Claimed(c) => Claimed(c)'
  BY ClaimsLast
<1>8. \A v \in Workers : Generating(v) => worker[v].build \in BuildIds
  BY BusyBuild DEF Generating, BusyPcs, CheckPcs
<1>9. \A f \in Files : f[1] \in BuildIds /\ Generated(f)' = Generated(f)
  BY <1>2 DEF Files, Generated
<1> HIDE DEF b
<1>10. GeneratingIsClaimed'
  <2> SUFFICES ASSUME NEW v \in Workers, Generating(v)'
               PROVE  Claimed(worker[v].build)'
    BY DEF GeneratingIsClaimed
  <2>1. CASE v = w
    BY <1>3, <1>4, <2>1 DEF Claimed
  <2>2. CASE v # w
    <3>1. worker'[v] = worker[v] /\ Generating(v)
      BY <1>3, <2>2 DEF Generating
    <3>2. Claimed(worker[v].build) /\ worker[v].build \in BuildIds
      BY <1>8, <3>1 DEF ClaimInv, GeneratingIsClaimed
    <3> QED BY <1>7, <3>1, <3>2 DEF Claimed
  <2> QED BY <2>1, <2>2
<1>11. GeneratedIsOver'
  BY <1>3, <1>6, <1>7, <1>9 DEF ClaimInv, GeneratedIsOver, Generating
<1>12. OneGeneratedRow'
  BY <1>9 DEF ClaimInv, OneGeneratedRow
<1>13. SingleGeneration'
  BY <1>3, <1>5 DEF ClaimInv, SingleGeneration, Generating
<1> QED BY <1>10, <1>11, <1>12, <1>13 DEF ClaimInv

\* The generating handler's row is the build's only generated one, and the
\* handler generates no more.
LEMMA RecordStep ==
    ASSUME TypeOK, LineageInv, ClaimInv, [Next]_vars, NEW w \in Workers, RecordArchive(w)
    PROVE  ClaimInv'
<1> DEFINE b == worker[w].build
<1>1. b \in BuildIds /\ Generating(w)
  BY BusyBuild DEF RecordArchive, BusyPcs, CheckPcs, GeneratePcs, Generating
<1>2. PICK n : file' = [file EXCEPT ![<<b, "archive", n>>] =
                           [state |-> "uploaded", size |-> "full", url |-> FALSE]]
  BY DEF RecordArchive, InsertFile
<1> DEFINE g == <<b, "archive", n>>
<1>3. worker' = [worker EXCEPT ![w] = CheckFrame(b)] /\ CheckFrame(b).pc \notin GeneratePcs
  BY DEF RecordArchive, CheckFrame, Idle, GeneratePcs
<1>4. \A v \in Workers : Generating(v)' => /\ v # w
                                          /\ Generating(v)
                                          /\ worker'[v].build = worker[v].build
  BY <1>3 DEF TypeOK, Generating
<1>5. \A f \in Files : Generated(f)' => f = g \/ Generated(f)
  BY <1>2 DEF TypeOK, Generated
<1>6. \A f \in Files : Generated(f) => f[1] # b
  BY <1>1 DEF ClaimInv, GeneratedIsOver
<1>7. \A v \in Workers : Generating(v) /\ v # w => worker[v].build # b
  BY <1>1 DEF ClaimInv, SingleGeneration, Generating
<1>8. UNCHANGED build
  BY DEF RecordArchive
<1>9. Claimed(b) /\ g[1] = b
  BY <1>1 DEF ClaimInv, GeneratingIsClaimed
<1> HIDE DEF b, g
<1>10. GeneratingIsClaimed'
  BY <1>4, <1>8 DEF ClaimInv, GeneratingIsClaimed, Claimed
<1>11. GeneratedIsOver'
  BY <1>4, <1>5, <1>7, <1>8, <1>9 DEF ClaimInv, GeneratedIsOver, Claimed
<1>12. OneGeneratedRow'
  BY <1>5, <1>6, <1>9 DEF ClaimInv, OneGeneratedRow
<1>13. SingleGeneration'
  BY <1>4 DEF ClaimInv, SingleGeneration, Generating
<1> QED BY <1>10, <1>11, <1>12, <1>13 DEF ClaimInv

\* Every step but a won claim and the insertion of the archive row is calm.
LEMMA CalmSteps ==
    ASSUME TypeOK, LineageInv, [Next]_vars
    PROVE  \/ Calm
           \/ \E w \in Workers : Claim(w) /\ build[worker[w].build].state = "started"
           \/ \E w \in Workers : RecordArchive(w)
<1>1. ASSUME NEW w \in Workers, CreateBuildLookup(w) PROVE Calm
  <2>1. UNCHANGED file
    BY <1>1 DEF CreateBuildLookup
  <2>2. CASE CreateBuildFindsChannel(w)
    <3>1. PICK u, known :
             worker' = [worker EXCEPT ![w] = [Idle EXCEPT !.pc = "create_build",
                              !.upload = u, !.known = known,
                              !.parent = IF known THEN upload[u].head ELSE None]]
      BY <2>2 DEF CreateBuildFindsChannel
    <3> DEFINE frame == [Idle EXCEPT !.pc = "create_build", !.upload = u, !.known = known,
                             !.parent = IF known THEN upload[u].head ELSE None]
    <3>2. frame.pc \notin GeneratePcs /\ worker' = [worker EXCEPT ![w] = frame]
      BY <3>1 DEF Idle, GeneratePcs
    <3> HIDE DEF frame
    <3> QED BY <2>1, <3>2, CalmMove
  <2>3. CASE CreateBuildFindsNone(w)
    <3>1. [Idle EXCEPT !.pc = "create_upload"].pc \notin GeneratePcs
      BY DEF Idle, GeneratePcs
    <3> QED BY <2>1, <2>3, <3>1, CalmMove DEF CreateBuildFindsNone
  <2> QED BY <1>1, <2>2, <2>3 DEF CreateBuildLookup
<1>2. ASSUME NEW w \in Workers, CreateBuildUpload(w) PROVE Calm
  <2> DEFINE frame == [worker[w] EXCEPT !.pc = "create_build", !.upload = nuploads + 1]
  <2>1. frame.pc \notin GeneratePcs
    BY DEF TypeOK, Frame, GeneratePcs
  <2>2. worker' = [worker EXCEPT ![w] = frame]
    BY <1>2 DEF CreateBuildUpload
  <2> HIDE DEF frame
  <2> QED BY <1>2, <2>1, <2>2, CalmMove DEF CreateBuildUpload
<1>3. ASSUME NEW w \in Workers, CreateBuildInsert(w) PROVE Calm
  <2> DEFINE frame == [worker[w] EXCEPT !.pc = "create_channel", !.build = nbuilds + 1]
  <2>1. frame.pc \notin GeneratePcs /\ Idle.pc \notin GeneratePcs
    BY DEF TypeOK, Frame, Idle, GeneratePcs
  <2>2. worker' = [worker EXCEPT ![w] = frame] \/ worker' = [worker EXCEPT ![w] = Idle]
    BY <1>3 DEF CreateBuildInsert, Return
  <2> HIDE DEF frame
  <2> QED BY <1>3, <2>1, <2>2, CalmMove DEF CreateBuildInsert
<1>4. ASSUME NEW w \in Workers, CreateBuildChannel(w) \/ FailBuild(w) \/ AdvanceHead(w) \/ Abandon(w)
      PROVE  Calm
  BY <1>4, CalmGoto DEF CreateBuildChannel, FailBuild, AdvanceHead, Abandon, GeneratePcs
<1>5. ASSUME NEW w \in Workers, FinalizeWrite(w) PROVE Calm
  <2> DEFINE f == worker[w].file
  <2>1. f \in Files /\ file[f].state # "absent"
    BY <1>5 DEF FinalizeWrite, LineageInv, FramesExist, FrameLineage
  <2>2. \A g \in Files : file'[g].url = file[g].url /\ (g # f => file'[g] = file[g])
    BY <1>5, <2>1 DEF FinalizeWrite, TypeOK, FileRow
  <2>3. \A g \in Files : Generated(g)' => Generated(g)
    BY <2>1, <2>2 DEF Generated
  <2>4. worker' = [worker EXCEPT ![w] = CheckFrame(worker[w].build)]
    BY <1>5 DEF FinalizeWrite
  <2>5. CheckFrame(worker[w].build).pc \notin GeneratePcs
    BY DEF CheckFrame, Idle, GeneratePcs
  <2> QED BY <2>3, <2>4, <2>5, NotGenerating DEF Calm
<1>6. ASSUME NEW w \in Workers, CheckBuild(w) PROVE Calm
  <2> DEFINE frame == [worker[w] EXCEPT !.pc = "check_files", !.seen = build[worker[w].build].state]
  <2>1. frame.pc \notin GeneratePcs /\ Idle.pc \notin GeneratePcs
    BY DEF TypeOK, Frame, Idle, GeneratePcs
  <2>2. worker' = [worker EXCEPT ![w] = frame] \/ worker' = [worker EXCEPT ![w] = Idle]
    BY <1>6 DEF CheckBuild, Return
  <2> HIDE DEF frame
  <2> QED BY <1>6, <2>1, <2>2, CalmMove DEF CheckBuild
<1>7. ASSUME NEW w \in Workers, CheckFiles(w) PROVE Calm
  <2>1. \E pc \in {"fail", "claim", "complete"} : Goto(w, pc) \/ Return(w)
    BY <1>7, CheckFilesMoves
  <2> QED BY <1>7, <2>1, CalmGoto DEF CheckFiles, GeneratePcs
<1>8. ASSUME NEW w \in Workers, Claim(w), build[worker[w].build].state # "started" PROVE Calm
  BY <1>8, CalmGoto DEF Claim, GeneratePcs
<1>9. ASSUME NEW w \in Workers, GenerateArchive(w) PROVE Calm
  <2>1. \E pc \in Pcs : worker' = [worker EXCEPT ![w].pc = pc]
    BY <1>9 DEF GenerateArchive, Goto, Pcs, CheckPcs, GeneratePcs
  <2>2. \A v \in Workers : worker'[v].build = worker[v].build /\ (v # w => worker'[v] = worker[v])
    BY <2>1 DEF TypeOK, Frame
  <2>3. Generating(w)
    BY <1>9 DEF GenerateArchive, Generating, GeneratePcs
  <2> QED BY <1>9, <2>2, <2>3 DEF GenerateArchive, Calm, Generating, Generated
<1>10. ASSUME NEW w \in Workers, Complete(w) PROVE Calm
  BY <1>10, CalmGoto DEF Complete, GeneratePcs
<1>11. ASSUME NEW b \in BuildIds, NEW k \in ClientKinds, CreateBuildFile(b, k) PROVE Calm
  <2>1. PICK n : file' = [file EXCEPT ![<<b, k, n>>] =
                             [state |-> "uploading", size |-> "empty", url |-> TRUE]]
    BY <1>11 DEF CreateBuildFile, InsertFile
  <2>2. \A f \in Files : file'[f] = file[f] \/ file'[f].url
    BY <2>1 DEF TypeOK
  <2> QED BY <1>11, <2>2 DEF CreateBuildFile, Calm, Generating, Generated
<1>12. ASSUME NEW f \in Files, NEW s \in StoredSizes, PutObject(f, s) PROVE Calm
  BY <1>12 DEF PutObject, Calm, Generating, Generated
<1>13. ASSUME NEW w \in Workers, NEW f \in Files, NEW s \in Sizes, FinalizeLoad(w, f, s)
       PROVE  Calm
  <2> DEFINE frame == [Idle EXCEPT !.pc = "finalize_write", !.build = f[1], !.file = f,
             !.write = IF s # "empty" /\ s # object[f] THEN "failed" ELSE "uploaded",
             !.size = IF s # "empty" /\ s # object[f] THEN file[f].size ELSE object[f]]
  <2>1. frame.pc \notin GeneratePcs
    BY DEF Idle, GeneratePcs
  <2>2. worker' = [worker EXCEPT ![w] = frame] /\ UNCHANGED file
    BY <1>13 DEF FinalizeLoad
  <2> HIDE DEF frame
  <2> QED BY <2>1, <2>2, CalmMove
<1>14. CASE UNCHANGED vars
  BY <1>14 DEF vars, Calm, Generating, Generated
<1> QED
  BY <1>1, <1>2, <1>3, <1>4, <1>5, <1>6, <1>7, <1>8, <1>9, <1>10, <1>11, <1>12, <1>13, <1>14
  DEF Next, Advance

LEMMA ClaimHolds == Spec => [](TypeOK /\ LineageInv /\ ClaimInv)
<1>1. TypeOK /\ LineageInv /\ ClaimInv /\ [Next]_vars => ClaimInv'
  BY CalmSteps, ClaimKept, ClaimStep, RecordStep
<1> QED BY <1>1, ClaimInit, LineageHolds, PTL DEF Spec

\* At most one handler generates a build's archive.
THEOREM GenerationIsExclusive == Spec => []SingleGeneration
<1>1. ClaimInv => SingleGeneration
  BY DEF ClaimInv
<1> QED BY <1>1, ClaimHolds, PTL

\* The server inserts at most one archive row per build.
THEOREM ArchiveIsGeneratedOnce == Spec => []OneGeneratedArchive
<1>1. ClaimInv => OneGeneratedArchive
  BY DEF ClaimInv, OneGeneratedRow, Generated, OneGeneratedArchive, RowsOf
<1> QED BY <1>1, ClaimHolds, PTL
=============================================================================
