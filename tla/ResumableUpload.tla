-------------------------- MODULE ResumableUpload --------------------------
(***************************************************************************)
(* What an upload session promises a client that sends one request after   *)
(* another: the offset it acknowledges only grows, nothing but the whole   *)
(* upload is ever stored, and the session completes once and only then.    *)
(***************************************************************************)
EXTENDS Naturals

CONSTANT Length      \* bytes of the upload

VARIABLES
    acked,  \* bytes the client has been told it need not send again
    stored, \* what is at the storage path: "nothing", "whole" or "damaged"
    done    \* the session is completed

vars == <<acked, stored, done>>

Init == acked = 0 /\ stored = "nothing" /\ done = FALSE

\* A chunk is acknowledged.
Accept ==
    /\ ~done
    /\ acked' \in (acked + 1) .. Length
    /\ UNCHANGED <<stored, done>>

\* The upload is stored, before the client is told.
Store ==
    /\ ~done
    /\ stored' = "whole"
    /\ UNCHANGED <<acked, done>>

Finish ==
    /\ ~done /\ stored = "whole"
    /\ done' = TRUE /\ acked' = Length
    /\ UNCHANGED stored

Next == Accept \/ Store \/ Finish

Spec == Init /\ [][Next]_vars
=============================================================================
