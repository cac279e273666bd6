--------------------------- MODULE UploadSession ---------------------------
(***************************************************************************)
(* One deferred resumable upload: the upload_sessions row, the local file  *)
(* that collects the bytes, and the object that the last PUT stores.  The  *)
(* client sends what it means to, in any ranges and from any offset; a PUT *)
(* may be cut off, fail or die with the server at any step.                *)
(*                                                                         *)
(* Answers change nothing and are not modelled: a PUT that is refused, or  *)
(* that finds the session completed, is a step that is not enabled.        *)
(***************************************************************************)
EXTENDS Integers, Sequences

CONSTANTS
    Handlers,  \* concurrent PUTs
    Length,    \* bytes the client means to upload
    Quota,     \* maxUploadSessionBytes
    MaxInt,    \* largest int64
    MaxFaults, \* bound: cut bodies, failing calls and crashes
    Overlap    \* TRUE: the client may retry while an earlier PUT still runs

ASSUME SizesAssumption ==
    /\ {Length, Quota, MaxInt, MaxFaults} \subseteq Nat
    /\ 0 < Length /\ Length <= Quota /\ Quota < MaxInt
ASSUME OverlapAssumption == Overlap \in BOOLEAN

VARIABLES
    size,    \* size column of the session: bytes acknowledged
    state,   \* its state column
    file,    \* local file: the bytes' numbers, 0 for a byte never written
    object,  \* object at the storage path, empty when there is none
    handler, \* frame of each PUT
    faults   \* faults so far

vars == <<size, state, file, object, handler, faults>>

Content == [i \in 1 .. Length |-> i]

Pcs   == {"idle", "truncate", "copy", "update", "store", "complete"}
Int64 == (-MaxInt - 1) .. MaxInt
\* A PUT's copy of the row's size, the start of its range, how many bytes it
\* is to copy and has copied, and what comes next: the last PUT, whose range
\* names the total, stores; another updates the row.
Frame == [pc : Pcs, size : 0 .. Length, start : 0 .. Length, chunk : Int64,
          written : 0 .. Length, next : {"update", "store"}]
Idle  == [pc |-> "idle", size |-> 0, start |-> 0, chunk |-> 0, written |-> 0, next |-> "update"]

Wrap(n) == IF n > MaxInt THEN n - 2 * (MaxInt + 1) ELSE n

Resize(f, n)     == [i \in 1 .. n |-> IF i <= Len(f) THEN f[i] ELSE 0]
WriteAt(f, i, v) == [Resize(f, IF i > Len(f) THEN i ELSE Len(f)) EXCEPT ![i] = v]

Init ==
    /\ size = 0 /\ state = "active"
    /\ file = <<>> /\ object = <<>>
    /\ handler = [h \in Handlers |-> Idle]
    /\ faults = 0

Return(h) == handler' = [handler EXCEPT ![h] = Idle]

\* A PUT arrives: after the answer to the one before, unless they overlap.
Arrives(h) ==
    /\ handler[h].pc = "idle"
    /\ Overlap \/ \A g \in Handlers : handler[g].pc = "idle"
    /\ state # "completed"

-----------------------------------------------------------------------------
(* PutUploadSession *)

\* The frame of a PUT of the bytes from "start" to "end".
ChunkFrame(start, end, final) ==
    [pc |-> "truncate", size |-> size, start |-> start, chunk |-> Wrap(end - start + 1),
     written |-> 0, next |-> IF final THEN "store" ELSE "update"]

\* MUTANT: the start of the range is not compared with the offset.
AcceptAnyStart(h, start, end, final) ==
    /\ Arrives(h)
    /\ end >= start
    /\ LET chunk == Wrap(end - start + 1) IN
       /\ Wrap(size + chunk) <= Quota
       /\ final => Wrap(start + chunk) = Length
    /\ handler' = [handler EXCEPT ![h] = ChunkFrame(start, end, final)]
    /\ UNCHANGED <<size, state, file, object, faults>>

\* MUTANT: a last chunk need not reach the total.
AcceptAnyTotal(h, start, end, final) ==
    /\ Arrives(h)
    /\ start = size /\ end >= start
    /\ Wrap(size + Wrap(end - start + 1)) <= Quota
    /\ handler' = [handler EXCEPT ![h] = ChunkFrame(start, end, final)]
    /\ UNCHANGED <<size, state, file, object, faults>>

\* "bytes start-end/*" or, when final, "bytes start-end/Length".
PutChunk(h, start, end, final) ==
    /\ Arrives(h)
    /\ start = size /\ end >= start
    /\ LET chunk == Wrap(end - start + 1) IN
       /\ Wrap(size + chunk) <= Quota
       /\ final => Length <= Quota /\ Wrap(start + chunk) = Length
    /\ handler' = [handler EXCEPT ![h] = ChunkFrame(start, end, final)]
    /\ UNCHANGED <<size, state, file, object, faults>>

StoreFrame ==
    [pc |-> "store", size |-> size, start |-> 0, chunk |-> 0, written |-> 0, next |-> "store"]

\* MUTANT: off by one, the last byte's index for the count of bytes.
EmptyFinalAtLastByte(h, start) ==
    /\ Arrives(h)
    /\ start = size /\ size = Length - 1
    /\ handler' = [handler EXCEPT ![h] = StoreFrame]
    /\ UNCHANGED <<size, state, file, object, faults>>

\* "bytes start--1/Length": all bytes are there, commit them.
PutEmptyFinal(h, start) ==
    /\ Arrives(h)
    /\ Length <= Quota
    /\ start = size /\ size = Length
    /\ handler' = [handler EXCEPT ![h] = StoreFrame]
    /\ UNCHANGED <<size, state, file, object, faults>>

\* Open the file, cut it or extend it with zeros to the persisted size.
Truncate(h) ==
    /\ handler[h].pc = "truncate"
    /\ file' = Resize(file, handler[h].size)
    /\ handler' = [handler EXCEPT ![h].pc = "copy"]
    /\ UNCHANGED <<size, state, object, faults>>

\* The client's bytes that are left for a range that starts at "start".
BodyLeft(h)  == Length - handler[h].start - handler[h].written
LimitLeft(h) == handler[h].chunk - handler[h].written

CopyByte(h) ==
    /\ handler[h].pc = "copy" /\ BodyLeft(h) > 0 /\ LimitLeft(h) > 0
    /\ file' = WriteAt(file, handler[h].size + handler[h].written + 1,
                             handler[h].start + handler[h].written + 1)
    /\ handler' = [handler EXCEPT ![h].written = @ + 1]
    /\ UNCHANGED <<size, state, object, faults>>

\* MUTANT: the range counts, not the bytes that came.
CountRange(h) ==
    /\ handler[h].pc = "copy" /\ (BodyLeft(h) <= 0 \/ LimitLeft(h) <= 0)
    /\ handler' = [handler EXCEPT ![h].pc = handler[h].next,
                                  ![h].size = @ + handler[h].chunk]
    /\ UNCHANGED <<size, state, file, object, faults>>

\* The body or the limit is at its end; fewer bytes than the range says are
\* an error.
EndCopy(h) ==
    /\ handler[h].pc = "copy" /\ (BodyLeft(h) <= 0 \/ LimitLeft(h) <= 0)
    /\ IF handler[h].written = handler[h].chunk
       THEN handler' = [handler EXCEPT
                ![h].pc = handler[h].next,
                ![h].size = @ + handler[h].written]
       ELSE Return(h)
    /\ UNCHANGED <<size, state, file, object, faults>>

\* UpdateUploadSession after a chunk that is not the last: the whole row.
UpdateSize(h) ==
    /\ handler[h].pc = "update"
    /\ size' = handler[h].size /\ state' = "active"
    /\ Return(h)
    /\ UNCHANGED <<file, object, faults>>

\* commitUploadSession: a Put of a file of another length than the session's
\* fails.
StoreObject(h) ==
    /\ handler[h].pc = "store"
    /\ IF Len(file) = handler[h].size
       THEN object' = file /\ handler' = [handler EXCEPT ![h].pc = "complete"]
       ELSE Return(h) /\ UNCHANGED object
    /\ UNCHANGED <<size, state, file, faults>>

Complete(h) ==
    /\ handler[h].pc = "complete"
    /\ size' = handler[h].size /\ state' = "completed"
    /\ Return(h)
    /\ UNCHANGED <<file, object, faults>>

\* The body is cut off, a call fails, or the server dies; the file stays.
Abandon(h) ==
    /\ handler[h].pc # "idle"
    /\ faults < MaxFaults /\ faults' = faults + 1
    /\ Return(h)
    /\ UNCHANGED <<size, state, file, object>>

-----------------------------------------------------------------------------
Advance(h) ==
    Truncate(h) \/ CopyByte(h) \/ EndCopy(h) \/ UpdateSize(h) \/ StoreObject(h) \/ Complete(h)

Next ==
    \/ \E h \in Handlers, start \in 0 .. Length :
        \/ \E end \in 0 .. MaxInt, final \in BOOLEAN : PutChunk(h, start, end, final)
        \/ PutEmptyFinal(h, start)
    \/ \E h \in Handlers : Advance(h) \/ Abandon(h)

Spec == Init /\ [][Next]_vars

\* The client sends the rest from the offset it was told.
SendRest == \E h \in Handlers : PutChunk(h, size, Length - 1, TRUE) \/ PutEmptyFinal(h, size)

\* Handlers run, and a client that is not done keeps sending the rest.
FairSpec == Spec /\ SF_vars(SendRest) /\ \A h \in Handlers : WF_vars(Advance(h))

-----------------------------------------------------------------------------
(* Properties *)

\* Offsets and lengths stay within the upload and int64, whatever ranges the
\* client sends: no arithmetic on a range slips through the checks.
TypeOK ==
    /\ size \in 0 .. Length
    /\ state \in {"active", "completed"}
    /\ file \in Seq(0 .. Length) /\ Len(file) <= Length
    /\ object \in Seq(0 .. Length)
    /\ handler \in [Handlers -> Frame]
    /\ faults \in 0 .. MaxFaults

\* PutUploadSession "appends": every byte that the session acknowledges, and
\* that the client will not send again, is in the local file in its place.
AckedIsDurable == size <= Len(file) /\ \A i \in 1 .. size : file[i] = i

\* The session implements what ResumableUpload promises.
Promise == INSTANCE ResumableUpload WITH
    acked  <- size,
    stored <- IF object = <<>> THEN "nothing" ELSE IF object = Content THEN "whole" ELSE "damaged",
    done   <- state = "completed"

\* No cut, failure, crash or retry makes an offset go back, stores anything
\* but the whole upload, or completes a session whose upload is not stored.
ImplementsPromise == Promise!Spec

\* A client that keeps sending the rest gets its upload stored.
UploadFinishes == <>(state = "completed")
=============================================================================
