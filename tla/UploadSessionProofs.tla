------------------------ MODULE UploadSessionProofs ------------------------
(***************************************************************************)
(* Proofs about UploadSession: its type invariant for every client, and,   *)
(* for clients that wait for an answer, that acknowledged bytes are on     *)
(* disk and that the session implements ResumableUpload.                   *)
(***************************************************************************)
EXTENDS UploadSession, TLAPS

LEMMA SizesAreNatural ==
    /\ Length \in Nat /\ Quota \in Nat /\ MaxInt \in Nat /\ MaxFaults \in Nat
    /\ 0 < Length /\ Length <= Quota /\ Quota < MaxInt
BY SizesAssumption

-----------------------------------------------------------------------------
(* The helpers on files *)

LEMMA ResizeIs ==
    ASSUME NEW f \in Seq(0 .. Length), NEW n \in Nat
    PROVE  /\ Resize(f, n) \in Seq(0 .. Length)
           /\ Len(Resize(f, n)) = n
           /\ \A i \in 1 .. n : i <= Len(f) => Resize(f, n)[i] = f[i]
<1>1. \A i \in 1 .. n : (IF i <= Len(f) THEN f[i] ELSE 0) \in 0 .. Length
  BY SizesAreNatural
<1> QED BY <1>1 DEF Resize

LEMMA WriteAtIs ==
    ASSUME NEW f \in Seq(0 .. Length), NEW i \in Nat \ {0}, NEW v \in 0 .. Length
    PROVE  /\ WriteAt(f, i, v) \in Seq(0 .. Length)
           /\ Len(WriteAt(f, i, v)) = IF i > Len(f) THEN i ELSE Len(f)
           /\ WriteAt(f, i, v)[i] = v
           /\ \A j \in 1 .. Len(f) : j # i => WriteAt(f, i, v)[j] = f[j]
<1> DEFINE n == IF i > Len(f) THEN i ELSE Len(f)
           g == Resize(f, n)
<1>1. n \in Nat /\ i \in 1 .. n /\ Len(f) \in Nat /\ Len(f) <= n
  OBVIOUS
<1>2. g \in Seq(0 .. Length) /\ Len(g) = n /\ \A j \in 1 .. n : j <= Len(f) => g[j] = f[j]
  <2> HIDE DEF n
  <2> QED BY <1>1, ResizeIs
<1>3. WriteAt(f, i, v) = [g EXCEPT ![i] = v]
  BY DEF WriteAt
<1> HIDE DEF g
<1>4. /\ [g EXCEPT ![i] = v] \in Seq(0 .. Length)
      /\ Len([g EXCEPT ![i] = v]) = n
      /\ [g EXCEPT ![i] = v][i] = v
      /\ \A j \in 1 .. n : j # i => [g EXCEPT ![i] = v][j] = g[j]
  BY <1>1, <1>2
<1>5. \A j \in 1 .. Len(f) : j \in 1 .. n /\ j <= Len(f)
  BY <1>1
<1> QED BY <1>2, <1>3, <1>4, <1>5

-----------------------------------------------------------------------------
(* Types *)

\* What a frame's type leaves out: a PUT copies at the offset that it starts
\* from, and within the upload.
FrameShape(f) ==
    f.pc \in {"truncate", "copy"} =>
        /\ f.size = f.start /\ f.size + f.written <= Length
        /\ f.pc = "truncate" => f.written = 0

TypeInv == TypeOK /\ \A h \in Handlers : FrameShape(handler[h])

LEMMA FrameReplaced ==
    ASSUME TypeInv, NEW h \in Handlers, NEW f \in Frame, FrameShape(f),
           handler' = [handler EXCEPT ![h] = f]
    PROVE  handler' \in [Handlers -> Frame] /\ \A g \in Handlers : FrameShape(handler'[g])
BY DEF TypeInv, TypeOK

LEMMA IdleIsFrame == Idle \in Frame /\ FrameShape(Idle)
BY SizesAreNatural DEF Idle, Frame, FrameShape, Pcs, Int64

\* The fields of a frame, for the provers.
LEMMA FrameFields ==
    ASSUME TypeInv, NEW h \in Handlers
    PROVE  /\ handler[h].pc \in Pcs
           /\ handler[h].size \in Nat /\ handler[h].size <= Length
           /\ handler[h].start \in Nat /\ handler[h].start <= Length
           /\ handler[h].chunk \in Int64
           /\ handler[h].written \in Nat /\ handler[h].written <= Length
           /\ handler[h].next \in {"update", "store"}
           /\ FrameShape(handler[h])
<1>1. handler[h] \in Frame /\ FrameShape(handler[h])
  BY DEF TypeInv, TypeOK
<1> QED BY <1>1, SizesAreNatural DEF Frame

LEMMA FrameIs ==
    ASSUME TypeInv, NEW h \in Handlers
    PROVE  /\ handler[h] \in Frame
           /\ handler[h] = [pc |-> handler[h].pc, size |-> handler[h].size,
                            start |-> handler[h].start, chunk |-> handler[h].chunk,
                            written |-> handler[h].written, next |-> handler[h].next]
<1>1. handler[h] \in Frame
  BY DEF TypeInv, TypeOK
<1> QED BY <1>1 DEF Frame

LEMMA FrameCopied ==
    ASSUME NEW f \in Frame, NEW n \in 0 .. Length
    PROVE  LET g == [f EXCEPT !.written = n]
           IN  g \in Frame /\ g.pc = f.pc /\ g.size = f.size /\ g.start = f.start /\ g.written = n
BY DEF Frame

LEMMA FrameMade ==
    ASSUME NEW pc \in Pcs, NEW n \in 0 .. Length, NEW start \in 0 .. Length,
           NEW chunk \in Int64, NEW written \in 0 .. Length, NEW next \in {"update", "store"}
    PROVE  [pc |-> pc, size |-> n, start |-> start, chunk |-> chunk,
            written |-> written, next |-> next] \in Frame
BY DEF Frame

LEMMA TypeInit == Init => TypeInv
<1> SUFFICES ASSUME Init PROVE TypeInv
  OBVIOUS
<1>1. <<>> \in Seq(0 .. Length) /\ Len(<<>>) = 0
  OBVIOUS
<1> QED BY <1>1, IdleIsFrame, SizesAreNatural DEF Init, TypeInv, TypeOK

LEMMA TypeStep == TypeInv /\ [Next]_vars => TypeInv'
<1> SUFFICES ASSUME TypeInv, [Next]_vars PROVE TypeInv'
  OBVIOUS
<1> USE SizesAreNatural
<1>1. ASSUME NEW h \in Handlers, NEW start \in 0 .. Length, NEW end \in 0 .. MaxInt,
             NEW final \in BOOLEAN, PutChunk(h, start, end, final)
      PROVE  TypeInv'
  <2> DEFINE f == ChunkFrame(start, end, final)
  <2>1. Wrap(end - start + 1) \in Int64
    BY DEF Wrap, Int64
  <2>2. f \in Frame
    BY <2>1 DEF ChunkFrame, Frame, Pcs, TypeInv, TypeOK
  <2>3. FrameShape(f)
    BY <1>1 DEF PutChunk, ChunkFrame, FrameShape, TypeInv, TypeOK
  <2>4. handler' = [handler EXCEPT ![h] = f]
    BY <1>1 DEF PutChunk
  <2> HIDE DEF f
  <2> QED BY <1>1, <2>2, <2>3, <2>4, FrameReplaced DEF PutChunk, TypeInv, TypeOK
<1>2. ASSUME NEW h \in Handlers, NEW start \in 0 .. Length, PutEmptyFinal(h, start)
      PROVE  TypeInv'
  <2> DEFINE f == StoreFrame
  <2>1. 0 \in Int64 /\ "store" \in Pcs /\ size \in 0 .. Length /\ 0 \in 0 .. Length
    BY DEF Int64, Pcs, TypeInv, TypeOK
  <2>2. f \in Frame
    BY <2>1, FrameMade DEF StoreFrame
  <2>3. FrameShape(f)
    BY DEF StoreFrame, FrameShape
  <2>4. handler' = [handler EXCEPT ![h] = f]
    BY <1>2 DEF PutEmptyFinal
  <2> HIDE DEF f
  <2> QED BY <1>2, <2>2, <2>3, <2>4, FrameReplaced DEF PutEmptyFinal, TypeInv, TypeOK
<1>3. ASSUME NEW h \in Handlers, Truncate(h) PROVE TypeInv'
  <2> DEFINE f == [handler[h] EXCEPT !.pc = "copy"]
  <2>1. f \in Frame /\ FrameShape(f)
    BY <1>3 DEF Truncate, Frame, FrameShape, Pcs, TypeInv, TypeOK
  <2>2. handler[h].size \in Nat /\ handler[h].size <= Length
    BY DEF TypeInv, TypeOK, Frame
  <2>3. file' \in Seq(0 .. Length) /\ Len(file') <= Length
    BY <1>3, <2>2, ResizeIs DEF Truncate, TypeInv, TypeOK
  <2>4. handler' = [handler EXCEPT ![h] = f]
    BY <1>3 DEF Truncate, TypeInv, TypeOK, Frame
  <2> HIDE DEF f
  <2> QED BY <1>3, <2>1, <2>3, <2>4, FrameReplaced DEF Truncate, TypeInv, TypeOK
<1>4. ASSUME NEW h \in Handlers, CopyByte(h) PROVE TypeInv'
  <2> DEFINE f == [handler[h] EXCEPT !.written = @ + 1]
             at == handler[h].size + handler[h].written + 1
             value == handler[h].start + handler[h].written + 1
  <2>1. handler[h].pc = "copy" /\ Length - handler[h].start - handler[h].written > 0
    BY <1>4 DEF CopyByte, BodyLeft
  <2>2. /\ handler[h].pc = "copy" /\ handler[h].size = handler[h].start
        /\ handler[h].start + handler[h].written < Length
    BY <2>1, FrameFields DEF FrameShape
  <2>3. f \in Frame /\ FrameShape(f)
    <3>1. handler[h].written + 1 \in 0 .. Length
      BY <2>2, FrameFields
    <3>2. /\ f \in Frame /\ f.pc = "copy" /\ f.size = handler[h].size
          /\ f.start = handler[h].start /\ f.written = handler[h].written + 1
      BY <2>2, <3>1, FrameIs, FrameCopied
    <3> HIDE DEF f
    <3> QED BY <2>2, <3>2, FrameFields DEF FrameShape
  <2>4. at \in Nat \ {0} /\ at <= Length /\ value \in 0 .. Length
    BY <2>2, FrameFields
  <2>5. file' = WriteAt(file, at, value)
    BY <1>4 DEF CopyByte
  <2>6. handler' = [handler EXCEPT ![h] = f]
    BY <1>4 DEF CopyByte
  <2> HIDE DEF f, at, value
  <2>7. file' \in Seq(0 .. Length) /\ Len(file') <= Length
    BY <2>4, <2>5, WriteAtIs DEF TypeInv, TypeOK
  <2> QED BY <1>4, <2>3, <2>6, <2>7, FrameReplaced DEF CopyByte, TypeInv, TypeOK
<1>5. ASSUME NEW h \in Handlers, EndCopy(h) PROVE TypeInv'
  <2> DEFINE f == [handler[h] EXCEPT !.pc = handler[h].next,
                                     !.size = @ + handler[h].written]
  <2>1. f \in Frame /\ FrameShape(f)
    <3>1. handler[h].pc = "copy"
      BY <1>5 DEF EndCopy
    <3>2. handler[h].size + handler[h].written \in 0 .. Length
      BY <3>1, FrameFields DEF FrameShape
    <3>3. handler[h].next \in Pcs /\ handler[h].next \notin {"truncate", "copy"}
      BY FrameFields DEF Pcs
    <3>4. f \in Frame /\ f.pc = handler[h].next
      <4>1. PICK n \in 0 .. Length, pc \in Pcs :
                n = handler[h].size + handler[h].written /\ pc = handler[h].next
        BY <3>2, <3>3
      <4>2. f = [handler[h] EXCEPT !.pc = pc, !.size = n]
        BY <4>1
      <4>3. handler[h] \in Frame
        BY FrameIs
      <4> HIDE DEF f
      <4> QED BY <4>1, <4>2, <4>3 DEF Frame
    <3> HIDE DEF f
    <3> QED BY <3>3, <3>4 DEF FrameShape
  <2>2. handler' = [handler EXCEPT ![h] = f] \/ handler' = [handler EXCEPT ![h] = Idle]
    BY <1>5 DEF EndCopy, Return
  <2> HIDE DEF f
  <2> QED BY <1>5, <2>1, <2>2, IdleIsFrame, FrameReplaced DEF EndCopy, TypeInv, TypeOK
<1>6. ASSUME NEW h \in Handlers, UpdateSize(h) \/ Complete(h) PROVE TypeInv'
  <2>1. handler[h].size \in 0 .. Length
    BY DEF TypeInv, TypeOK, Frame
  <2> QED BY <1>6, <2>1, IdleIsFrame, FrameReplaced
             DEF UpdateSize, Complete, Return, TypeInv, TypeOK
<1>7. ASSUME NEW h \in Handlers, StoreObject(h) PROVE TypeInv'
  <2> DEFINE f == [handler[h] EXCEPT !.pc = "complete"]
  <2>1. f \in Frame /\ FrameShape(f)
    BY DEF Frame, FrameShape, Pcs, TypeInv, TypeOK
  <2>2. handler' = [handler EXCEPT ![h] = f] \/ handler' = [handler EXCEPT ![h] = Idle]
    BY <1>7 DEF StoreObject, Return
  <2> HIDE DEF f
  <2> QED BY <1>7, <2>1, <2>2, IdleIsFrame, FrameReplaced DEF StoreObject, TypeInv, TypeOK
<1>8. ASSUME NEW h \in Handlers, Abandon(h) PROVE TypeInv'
  BY <1>8, IdleIsFrame, FrameReplaced DEF Abandon, Return, TypeInv, TypeOK
<1>9. CASE UNCHANGED vars
  BY <1>9 DEF vars, TypeInv, TypeOK
<1> QED BY <1>1, <1>2, <1>3, <1>4, <1>5, <1>6, <1>7, <1>8, <1>9 DEF Next, Advance

\* Offsets and lengths stay within the upload and int64, whatever ranges
\* clients send and however their PUTs overlap.
THEOREM SessionTypeCorrect == Spec => []TypeOK
<1>1. Spec => []TypeInv
  BY TypeInit, TypeStep, PTL DEF Spec
<1>2. TypeInv => TypeOK
  BY DEF TypeInv
<1> QED BY <1>1, <1>2, PTL
-----------------------------------------------------------------------------
(* Clients that wait for an answer: ~Overlap *)

\* The first n bytes of the upload are in the file, in their places.
Durable(n) == n <= Len(file) /\ \A i \in 1 .. n : file[i] = i

OneAtATime == \A g, h \in Handlers :
    handler[g].pc # "idle" /\ handler[h].pc # "idle" => g = h

\* What a PUT has checked or done when it is at its next step.
Range(h) ==
    LET f == handler[h] IN
    /\ f.size = size
    /\ f.chunk # 0
    /\ f.next = "store" => f.start + f.chunk = Length

Progress(h) ==
    LET f == handler[h] IN
    /\ f.pc # "idle" => state = "active"
    /\ f.pc \in {"truncate", "copy"} => Range(h)
    /\ f.pc = "copy" => Durable(f.size + f.written)
    /\ f.pc = "update" => size < f.size /\ Durable(f.size)
    /\ f.pc \in {"store", "complete"} => f.size = Length /\ Durable(Length)
    /\ f.pc = "complete" => object = Content

Stored ==
    /\ object = <<>> \/ object = Content
    /\ state = "completed" => object = Content /\ size = Length

SessionInv ==
    /\ TypeInv /\ OneAtATime /\ AckedIsDurable /\ Stored
    /\ \A h \in Handlers : Progress(h)

\* While one PUT runs, the others are idle, before and after its step.
LEMMA OneMoves ==
    ASSUME TypeInv, OneAtATime, NEW h \in Handlers, NEW f,
           \A g \in Handlers : g # h => handler[g].pc = "idle",
           handler' = [handler EXCEPT ![h] = f]
    PROVE  /\ handler'[h] = f
           /\ OneAtATime'
           /\ \A g \in Handlers : g # h => Progress(g)'
<1>1. handler'[h] = f /\ \A g \in Handlers : g # h => handler'[g].pc = "idle"
  BY DEF TypeInv, TypeOK
<1>2. OneAtATime'
  BY <1>1 DEF OneAtATime
<1>3. ASSUME NEW g \in Handlers, g # h PROVE Progress(g)'
  BY <1>1, <1>3 DEF Progress
<1> QED BY <1>1, <1>2, <1>3

LEMMA OthersIdle ==
    ASSUME OneAtATime, NEW h \in Handlers, handler[h].pc # "idle"
    PROVE  \A g \in Handlers : g # h => handler[g].pc = "idle"
BY DEF OneAtATime

LEMMA SessionInit == Init => SessionInv
<1> SUFFICES ASSUME Init PROVE SessionInv
  OBVIOUS
<1>1. \A h \in Handlers : handler[h].pc = "idle"
  BY DEF Init, Idle
<1>2. OneAtATime /\ \A h \in Handlers : Progress(h)
  BY <1>1 DEF OneAtATime, Progress
<1>3. AckedIsDurable /\ Stored
  BY DEF Init, AckedIsDurable, Stored
<1> QED BY <1>2, <1>3, TypeInit DEF SessionInv

\* What is left to show of a step of one PUT.
LEMMA OneStep ==
    ASSUME SessionInv, TypeInv', NEW h \in Handlers, NEW f,
           \A g \in Handlers : g # h => handler[g].pc = "idle",
           handler' = [handler EXCEPT ![h] = f],
           AckedIsDurable', Stored', handler'[h] = f => Progress(h)'
    PROVE  SessionInv'
BY OneMoves DEF SessionInv

LEMMA PutKeeps ==
    ASSUME SessionInv, TypeInv', ~Overlap, NEW h \in Handlers, NEW start \in 0 .. Length,
           \/ PutEmptyFinal(h, start)
           \/ \E end \in 0 .. MaxInt, final \in BOOLEAN : PutChunk(h, start, end, final)
    PROVE  SessionInv'
<1> USE SizesAreNatural
<1>1. /\ \A g \in Handlers : handler[g].pc = "idle"
      /\ state = "active" /\ size \in 0 .. Length
      /\ UNCHANGED <<size, state, file, object>>
  BY DEF PutEmptyFinal, PutChunk, Arrives, SessionInv, TypeInv, TypeOK
<1>2. AckedIsDurable' /\ Stored'
  BY <1>1 DEF SessionInv, AckedIsDurable, Stored
<1>3. CASE PutEmptyFinal(h, start)
  <2>1. handler' = [handler EXCEPT ![h] = StoreFrame] /\ size = Length
    BY <1>3 DEF PutEmptyFinal
  <2>2. StoreFrame.pc = "store" /\ StoreFrame.size = Length
    BY <2>1 DEF StoreFrame
  <2>3. Durable(Length)'
    BY <1>1, <2>1 DEF SessionInv, AckedIsDurable, Durable
  <2>4. handler'[h] = StoreFrame => Progress(h)'
    BY <1>1, <2>2, <2>3 DEF Progress
  <2> QED BY <1>1, <1>2, <2>1, <2>4, OneStep
<1>4. CASE \E end \in 0 .. MaxInt, final \in BOOLEAN : PutChunk(h, start, end, final)
  <2>1. PICK end \in 0 .. MaxInt, final \in BOOLEAN : PutChunk(h, start, end, final)
    BY <1>4
  <2> DEFINE f == ChunkFrame(start, end, final)
             chunk == Wrap(end - start + 1)
  <2>2. handler' = [handler EXCEPT ![h] = f] /\ start = size /\ start <= end
    BY <2>1 DEF PutChunk
  <2>3. final => Wrap(start + chunk) = Length
    BY <2>1 DEF PutChunk
  <2>4. /\ f.pc = "truncate" /\ f.size = size /\ f.start = start /\ f.chunk = chunk
        /\ f.next = IF final THEN "store" ELSE "update"
    BY DEF ChunkFrame
  <2>5. chunk # 0 /\ (final => start + chunk = Length)
    BY <2>2, <2>3 DEF Wrap
  <2> HIDE DEF f, chunk
  <2>6. handler'[h] = f => Progress(h)'
    BY <1>1, <2>4, <2>5 DEF Progress, Range
  <2> QED BY <1>1, <1>2, <2>2, <2>6, OneStep
<1> QED BY <1>3, <1>4

LEMMA TruncateKeeps ==
    ASSUME SessionInv, TypeInv', NEW h \in Handlers, Truncate(h)
    PROVE  SessionInv'
<1> DEFINE f == [handler[h] EXCEPT !.pc = "copy"]
           n == handler[h].size
<1>1. /\ handler[h].pc = "truncate" /\ handler' = [handler EXCEPT ![h] = f]
      /\ file' = Resize(file, n) /\ UNCHANGED <<size, state, object>>
  BY DEF Truncate, SessionInv, TypeInv, TypeOK, Frame
<1>2. /\ f.pc = "copy" /\ f.size = n /\ f.start = handler[h].start /\ f.chunk = handler[h].chunk
      /\ f.written = handler[h].written /\ f.next = handler[h].next
  BY DEF SessionInv, TypeInv, TypeOK, Frame
<1>3. /\ state = "active" /\ n = size /\ handler[h].written = 0 /\ Range(h)
      /\ n \in Nat /\ file \in Seq(0 .. Length) /\ n <= Len(file)
  BY <1>1, FrameFields DEF SessionInv, Progress, Range, FrameShape, AckedIsDurable, TypeInv, TypeOK
<1> HIDE DEF f, n
<1>4. Len(file') = n /\ \A i \in 1 .. n : file'[i] = i
  <2>1. \A i \in 1 .. n : file[i] = i /\ i <= Len(file)
    BY <1>3 DEF SessionInv, AckedIsDurable
  <2> QED BY <1>1, <1>3, <2>1, ResizeIs
<1>5. AckedIsDurable' /\ Stored'
  BY <1>1, <1>3, <1>4 DEF SessionInv, AckedIsDurable, Stored
<1>6. handler'[h] = f => Progress(h)'
  <2> SUFFICES ASSUME handler'[h] = f PROVE Progress(h)'
    OBVIOUS
  <2>1. Range(h)'
    BY <1>1, <1>2, <1>3 DEF Range
  <2>2. f.size + f.written = n
    BY <1>2, <1>3
  <2>3. Durable(handler[h].size + handler[h].written)'
    BY <1>4, <2>2 DEF Durable
  <2> QED BY <1>1, <1>2, <1>3, <2>1, <2>3 DEF Progress
<1>7. \A g \in Handlers : g # h => handler[g].pc = "idle"
  BY <1>1, OthersIdle DEF SessionInv
<1> QED BY <1>1, <1>5, <1>6, <1>7, OneStep

LEMMA CopyByteKeeps ==
    ASSUME SessionInv, TypeInv', NEW h \in Handlers, CopyByte(h)
    PROVE  SessionInv'
<1> USE SizesAreNatural
<1> DEFINE w == handler[h].written + 1
           f == [handler[h] EXCEPT !.written = w]
           n == handler[h].size + handler[h].written
<1>1. /\ handler[h].pc = "copy" /\ handler' = [handler EXCEPT ![h] = f]
      /\ file' = WriteAt(file, n + 1, handler[h].start + handler[h].written + 1)
      /\ UNCHANGED <<size, state, object>>
  BY DEF CopyByte
<1>2. Length - handler[h].start - handler[h].written > 0
  BY DEF CopyByte, BodyLeft
<1>3. /\ f.pc = handler[h].pc /\ f.size = handler[h].size /\ f.start = handler[h].start
      /\ f.chunk = handler[h].chunk /\ f.written = w /\ f.next = handler[h].next
  BY FrameIs, FrameCopied DEF SessionInv, TypeInv, TypeOK, Frame
<1>4. /\ state = "active" /\ handler[h].size = size /\ handler[h].start = size /\ Range(h)
      /\ size \in Nat /\ handler[h].written \in Nat /\ Durable(n)
      /\ file \in Seq(0 .. Length)
  BY <1>1, FrameFields DEF SessionInv, Progress, Range, FrameShape, TypeInv, TypeOK
<1> HIDE DEF f
<1>5. n \in Nat /\ n < Length /\ size <= n /\ f.size + f.written = n + 1
  <2>1. n = size + handler[h].written
    BY <1>4
  <2>2. n \in Nat /\ n < Length /\ size <= n
    <3> HIDE DEF n
    <3> QED BY <1>2, <1>4, <2>1
  <2>3. f.size = size /\ f.written = handler[h].written + 1
    BY <1>3, <1>4
  <2> HIDE DEF n
  <2> QED BY <1>4, <2>1, <2>2, <2>3
<1>6. file' = WriteAt(file, n + 1, n + 1)
  BY <1>1, <1>4
<1> HIDE DEF n, w
<1>7. n + 1 <= Len(file') /\ \A i \in 1 .. n + 1 : file'[i] = i
  <2>1. n + 1 \in Nat \ {0} /\ n + 1 \in 0 .. Length
    BY <1>5
  <2>2. \A i \in 1 .. n : file[i] = i /\ i \in 1 .. Len(file) /\ i # n + 1
    BY <1>4, <1>5 DEF Durable
  <2>3. /\ Len(file') = IF n + 1 > Len(file) THEN n + 1 ELSE Len(file)
        /\ file'[n + 1] = n + 1
        /\ \A i \in 1 .. Len(file) : i # n + 1 => file'[i] = file[i]
    <3>1. PICK m \in Nat \ {0} : m = n + 1 /\ m \in 0 .. Length
      BY <2>1
    <3>2. file' = WriteAt(file, m, m)
      BY <1>6, <3>1
    <3>3. m \in Nat \ {0} /\ m \in 0 .. Length /\ file \in Seq(0 .. Length)
      BY <1>4, <3>1
    <3>4. /\ Len(WriteAt(file, m, m)) = IF m > Len(file) THEN m ELSE Len(file)
          /\ WriteAt(file, m, m)[m] = m
          /\ \A i \in 1 .. Len(file) : i # m => WriteAt(file, m, m)[i] = file[i]
      BY ONLY <3>3, WriteAtIs
    <3> QED BY <3>1, <3>2, <3>4
  <2>4. Len(file) \in Nat
    BY <1>4
  <2>5. \A i \in 1 .. n : file'[i] = i
    BY <2>2, <2>3
  <2>6. \A i \in 1 .. n + 1 : i \in 1 .. n \/ i = n + 1
    BY <1>5
  <2>7. n + 1 <= Len(file')
    BY <1>5, <2>3, <2>4
  <2> QED BY <2>3, <2>5, <2>6, <2>7
<1>8. AckedIsDurable' /\ Stored'
  <2>1. Len(file') \in Nat
    BY DEF TypeInv, TypeOK
  <2>2. size <= Len(file') /\ \A i \in 1 .. size : i \in 1 .. n + 1
    BY <1>4, <1>5, <1>7, <2>1
  <2> QED BY <1>1, <1>7, <2>2 DEF SessionInv, AckedIsDurable, Stored
<1>9. handler'[h] = f => Progress(h)'
  <2> SUFFICES ASSUME handler'[h] = f PROVE Progress(h)'
    OBVIOUS
  <2>1. Range(h)'
    BY <1>1, <1>3, <1>4 DEF Range
  <2>2. Durable(handler[h].size + handler[h].written)'
    BY <1>5, <1>7 DEF Durable
  <2> QED BY <1>1, <1>3, <1>4, <2>1, <2>2 DEF Progress
<1>10. \A g \in Handlers : g # h => handler[g].pc = "idle"
  BY <1>1, OthersIdle DEF SessionInv
<1> QED BY <1>1, <1>8, <1>9, <1>10, OneStep

LEMMA EndCopyKeeps ==
    ASSUME SessionInv, TypeInv', NEW h \in Handlers, EndCopy(h)
    PROVE  SessionInv'
<1> USE SizesAreNatural
<1> DEFINE n == handler[h].size + handler[h].written
           f == [handler[h] EXCEPT !.pc = handler[h].next, !.size = n]
<1>1. /\ handler[h].pc = "copy" /\ UNCHANGED <<size, state, file, object>>
      /\ \/ handler[h].written = handler[h].chunk /\ handler' = [handler EXCEPT ![h] = f]
         \/ handler' = [handler EXCEPT ![h] = Idle]
  BY DEF EndCopy, Return
<1>2. /\ f.pc = handler[h].next /\ f.size = n /\ handler[h].next \in {"update", "store"}
  BY FrameFields DEF SessionInv, TypeInv, TypeOK, Frame
<1>3. /\ state = "active" /\ handler[h].size = size /\ handler[h].start = size /\ Range(h)
      /\ handler[h].written \in Nat /\ handler[h].chunk \in Int /\ size \in Nat /\ Durable(n)
  BY <1>1, FrameFields DEF SessionInv, Progress, Range, FrameShape, TypeInv, TypeOK, Int64
<1> HIDE DEF f
<1>4. AckedIsDurable' /\ Stored'
  BY <1>1 DEF SessionInv, AckedIsDurable, Stored
<1>5. \A g \in Handlers : g # h => handler[g].pc = "idle"
  BY <1>1, OthersIdle DEF SessionInv
<1>6. CASE handler' = [handler EXCEPT ![h] = Idle]
  <2>1. handler'[h] = Idle => Progress(h)'
    BY DEF Progress, Idle
  <2> QED BY <1>4, <1>5, <1>6, <2>1, OneStep
<1>7. CASE handler[h].written = handler[h].chunk /\ handler' = [handler EXCEPT ![h] = f]
  <2>1. size < n /\ (handler[h].next = "store" => n = Length)
    BY <1>3, <1>7 DEF Range
  <2> HIDE DEF n
  <2>3. handler'[h] = f => Progress(h)'
    <3> SUFFICES ASSUME handler'[h] = f PROVE Progress(h)'
      OBVIOUS
    <3>1. n <= Len(file') /\ \A i \in 1 .. n : file'[i] = i
      BY <1>1, <1>3 DEF Durable
    <3> QED BY <1>1, <1>2, <1>3, <2>1, <3>1 DEF Progress, Durable
  <2> QED BY <1>4, <1>5, <1>7, <2>3, OneStep
<1> QED BY <1>1, <1>6, <1>7

LEMMA StoreKeeps ==
    ASSUME SessionInv, TypeInv', NEW h \in Handlers, StoreObject(h)
    PROVE  SessionInv' /\ (object' = object \/ object' = Content)
<1> USE SizesAreNatural
<1> DEFINE f == [handler[h] EXCEPT !.pc = "complete"]
<1>1. /\ handler[h].pc = "store" /\ UNCHANGED <<size, state, file>>
      /\ \/ /\ Len(file) = handler[h].size /\ object' = file
            /\ handler' = [handler EXCEPT ![h] = f]
         \/ handler' = [handler EXCEPT ![h] = Idle] /\ object' = object
  BY DEF StoreObject, Return
<1>2. f.pc = "complete" /\ f.size = handler[h].size
  BY DEF SessionInv, TypeInv, TypeOK, Frame
<1>3. /\ state = "active" /\ handler[h].size = Length /\ Durable(Length)
      /\ file \in Seq(0 .. Length)
  BY <1>1 DEF SessionInv, Progress, TypeInv, TypeOK
<1> HIDE DEF f
<1>4. \A g \in Handlers : g # h => handler[g].pc = "idle"
  BY <1>1, OthersIdle DEF SessionInv
<1>5. AckedIsDurable'
  BY <1>1 DEF SessionInv, AckedIsDurable
<1>6. CASE handler' = [handler EXCEPT ![h] = Idle] /\ object' = object
  <2>1. handler'[h] = Idle => Progress(h)'
    BY DEF Progress, Idle
  <2>2. Stored'
    BY <1>1, <1>6 DEF SessionInv, Stored
  <2> QED BY <1>4, <1>5, <1>6, <2>1, <2>2, OneStep
<1>7. CASE /\ Len(file) = handler[h].size /\ object' = file
           /\ handler' = [handler EXCEPT ![h] = f]
  <2>1. file = Content
    <3>1. Len(file) = Length /\ \A i \in 1 .. Length : file[i] = i
      BY <1>3, <1>7 DEF Durable
    <3> QED BY <1>3, <3>1 DEF Content
  <2>2. Stored'
    BY <1>1, <1>3, <1>7, <2>1 DEF Stored
  <2>3. handler'[h] = f => Progress(h)'
    BY <1>1, <1>2, <1>3, <1>7, <2>1 DEF Progress, Durable
  <2> QED BY <1>4, <1>5, <1>7, <2>1, <2>2, <2>3, OneStep
<1> QED BY <1>1, <1>6, <1>7

LEMMA ReturnKeeps ==
    ASSUME SessionInv, TypeInv', NEW h \in Handlers, UpdateSize(h) \/ Complete(h) \/ Abandon(h)
    PROVE  SessionInv'
<1>1. handler[h].pc # "idle" /\ handler' = [handler EXCEPT ![h] = Idle] /\ UNCHANGED <<file, object>>
  BY DEF UpdateSize, Complete, Abandon, Return
<1>2. handler'[h] = Idle => Progress(h)'
  BY DEF Progress, Idle
<1>3. \A g \in Handlers : g # h => handler[g].pc = "idle"
  BY <1>1, OthersIdle DEF SessionInv
<1>4. AckedIsDurable' /\ Stored'
  <2>1. CASE UpdateSize(h)
    BY <1>1, <2>1 DEF UpdateSize, SessionInv, Progress, Durable, AckedIsDurable, Stored
  <2>2. CASE Complete(h)
    <3>1. size' = Length /\ state' = "completed" /\ object = Content
      BY <2>2 DEF Complete, SessionInv, Progress
    <3>2. Durable(Length)
      BY <2>2 DEF Complete, SessionInv, Progress
    <3>3. AckedIsDurable'
      BY <1>1, <3>1, <3>2 DEF Durable, AckedIsDurable
    <3> QED BY <1>1, <3>1, <3>3 DEF Stored
  <2>3. CASE Abandon(h)
    BY <1>1, <2>3 DEF Abandon, SessionInv, AckedIsDurable, Stored
  <2> QED BY <2>1, <2>2, <2>3
<1> QED BY <1>1, <1>2, <1>3, <1>4, OneStep

LEMMA SessionStep == ASSUME ~Overlap PROVE SessionInv /\ [Next]_vars => SessionInv'
<1> SUFFICES ASSUME SessionInv, [Next]_vars PROVE SessionInv'
  OBVIOUS
<1>1. TypeInv'
  BY TypeStep DEF SessionInv
<1>2. CASE Next
  <2>1. CASE \E h \in Handlers, start \in 0 .. Length :
            \/ \E end \in 0 .. MaxInt, final \in BOOLEAN : PutChunk(h, start, end, final)
            \/ PutEmptyFinal(h, start)
    BY <1>1, <2>1, PutKeeps
  <2>2. ASSUME NEW h \in Handlers, Advance(h) \/ Abandon(h) PROVE SessionInv'
    BY <1>1, <2>2, TruncateKeeps, CopyByteKeeps, EndCopyKeeps, StoreKeeps, ReturnKeeps DEF Advance
  <2> QED BY <1>2, <2>1, <2>2 DEF Next
<1>3. CASE UNCHANGED vars
  <2>1. AckedIsDurable' /\ Stored' /\ OneAtATime'
    BY <1>3 DEF vars, SessionInv, AckedIsDurable, Stored, OneAtATime
  <2>2. ASSUME NEW h \in Handlers PROVE Progress(h)'
    BY <1>3, <2>2 DEF vars, SessionInv, Progress, Range, Durable
  <2> QED BY <1>1, <2>1, <2>2 DEF SessionInv
<1> QED BY <1>2, <1>3

\* A client that waits for an answer before it sends again finds every byte
\* that the session acknowledged on disk, whatever was cut off or failed.
THEOREM AcknowledgedIsOnDisk == ASSUME ~Overlap PROVE Spec => []AckedIsDurable
<1>1. SessionInv => AckedIsDurable
  BY DEF SessionInv
<1>2. Spec => []SessionInv
  BY SessionInit, SessionStep, PTL DEF Spec
<1> QED BY <1>1, <1>2, PTL

LEMMA PromiseInit == Init => Promise!Init
BY DEF Init, Promise!Init

LEMMA ContentIsSome == Content # <<>>
<1>1. 1 \in DOMAIN Content
  BY SizesAreNatural DEF Content
<1> QED BY <1>1

LEMMA PromiseStep ==
    ASSUME ~Overlap PROVE SessionInv /\ [Next]_vars => [Promise!Next]_(Promise!vars)
<1> SUFFICES ASSUME SessionInv, [Next]_vars PROVE [Promise!Next]_(Promise!vars)
  OBVIOUS
<1>1. CASE UNCHANGED <<size, state, object>>
  BY <1>1 DEF Promise!vars
<1>2. ASSUME NEW h \in Handlers, UpdateSize(h) PROVE Promise!Accept
  <2>1. /\ size' = handler[h].size /\ state' = "active" /\ object' = object
        /\ state = "active" /\ size < size'
    BY <1>2 DEF UpdateSize, SessionInv, Progress
  <2>2. size \in Nat /\ size' \in Nat /\ size' <= Length
    BY <2>1, FrameFields DEF SessionInv, TypeInv, TypeOK
  <2> QED BY <2>1, <2>2, SizesAreNatural DEF Promise!Accept
<1>3. ASSUME NEW h \in Handlers, StoreObject(h) PROVE Promise!Store \/ UNCHANGED <<size, state, object>>
  <2>1. state = "active" /\ size' = size /\ state' = state
    BY <1>3 DEF StoreObject, SessionInv, Progress
  <2>2. SessionInv' /\ (object' = object \/ object' = Content)
    BY <1>3, StoreKeeps, TypeStep DEF SessionInv
  <2>3. CASE object' = Content
    BY <2>1, <2>3, ContentIsSome DEF Promise!Store
  <2> QED BY <2>1, <2>2, <2>3
<1>4. ASSUME NEW h \in Handlers, Complete(h) PROVE Promise!Finish
  <2>1. /\ size' = Length /\ state' = "completed" /\ object' = object
        /\ state = "active" /\ object = Content
    BY <1>4 DEF Complete, SessionInv, Progress
  <2> QED BY <2>1, ContentIsSome DEF Promise!Finish
<1>5. CASE Next
  <2>1. CASE \E h \in Handlers, start \in 0 .. Length :
            \/ \E end \in 0 .. MaxInt, final \in BOOLEAN : PutChunk(h, start, end, final)
            \/ PutEmptyFinal(h, start)
    BY <1>1, <2>1 DEF PutChunk, PutEmptyFinal
  <2>2. ASSUME NEW h \in Handlers,
               Truncate(h) \/ CopyByte(h) \/ EndCopy(h) \/ Abandon(h)
        PROVE  UNCHANGED <<size, state, object>>
    BY <2>2 DEF Truncate, CopyByte, EndCopy, Abandon
  <2> QED BY <1>1, <1>2, <1>3, <1>4, <1>5, <2>1, <2>2 DEF Next, Advance, Promise!Next
<1>6. CASE UNCHANGED vars
  BY <1>1, <1>6 DEF vars
<1> QED BY <1>5, <1>6

\* To such a client the session is what ResumableUpload promises: offsets only
\* grow, and it completes once the whole upload, and nothing else, is stored.
THEOREM SessionImplementsPromise == ASSUME ~Overlap PROVE Spec => ImplementsPromise
<1>1. Spec => []SessionInv
  BY SessionInit, SessionStep, PTL DEF Spec
<1> QED BY <1>1, PromiseInit, PromiseStep, PTL DEF Spec, ImplementsPromise, Promise!Spec
=============================================================================
