---------------------------- MODULE BuildHistory ----------------------------
(***************************************************************************)
(* What the server promises of the builds pushed to its channels: a build  *)
(* is pushed onto a completed one or onto nothing, gathers artifacts and   *)
(* keeps them, settles once, completed exactly when it has them all, and   *)
(* is published only then.                                                 *)
(***************************************************************************)
CONSTANTS
    Builds, Uploads,
    None,       \* no build
    Pushed,     \* the artifacts that clients push
    Generated   \* and those that the server generates from them

VARIABLES
    stage,      \* of each build: "absent", "open", "completed" or "failed"
    upload,     \* the upload it was pushed to
    parent,     \* the build it was pushed onto, or None
    stored,     \* the artifacts that are stored, each with its build
    head        \* of each upload: the build that is published, or None

Artifacts == Pushed \cup Generated

vars == <<stage, upload, parent, stored, head>>

Init ==
    /\ stage = [b \in Builds |-> "absent"]
    /\ upload = [b \in Builds |-> None] /\ parent = [b \in Builds |-> None]
    /\ stored = {}
    /\ head = [u \in Uploads |-> None]

\* Not necessarily onto the head: another may have been published meanwhile.
Push(b) ==
    /\ stage[b] = "absent"
    /\ stage' = [stage EXCEPT ![b] = "open"]
    /\ \E u \in Uploads :
           /\ upload' = [upload EXCEPT ![b] = u]
           /\ \E p \in {None} \cup {c \in Builds : stage[c] = "completed" /\ upload[c] = u} :
                  parent' = [parent EXCEPT ![b] = p]
    /\ UNCHANGED <<stored, head>>

\* What clients push may arrive after the build has failed; the rest is
\* generated from what they pushed.
Store(b, k) ==
    /\ stage[b] # "absent"
    /\ k \in Generated => stage[b] = "open" /\ {b} \X Pushed \subseteq stored
    /\ stored' = stored \cup {<<b, k>>}
    /\ UNCHANGED <<stage, upload, parent, head>>

Settle(b) ==
    /\ stage[b] = "open"
    /\ stage' = [stage EXCEPT ![b] =
           IF {b} \X Artifacts \subseteq stored THEN "completed" ELSE "failed"]
    /\ UNCHANGED <<upload, parent, stored, head>>

Publish(b) ==
    /\ stage[b] = "completed"
    /\ head' = [head EXCEPT ![upload[b]] = b]
    /\ UNCHANGED <<stage, upload, parent, stored>>

\* Only what is new can have been stored, so only that is tried.
Next ==
    \/ \E new \in (stored' \ stored) \cap (Builds \X Artifacts) : Store(new[1], new[2])
    \/ \E b \in Builds : Push(b) \/ Settle(b) \/ Publish(b)

Spec == Init /\ [][Next]_vars
=============================================================================
