---------------------------- MODULE MCCatalogue ----------------------------
(***************************************************************************)
(* Catalogue on a small instance: a developer and, in one of the two       *)
(* tables to start from, an administrator.                                 *)
(***************************************************************************)
EXTENDS Catalogue, TLC

CONSTANTS dev, boss, k1, k2

Developer == [key |-> k1, role |-> "user", status |-> "active"]
Administrator == [key |-> k2, role |-> "admin", status |-> "active"]

StartTables == {dev :> Developer @@ boss :> Book!NoUser,
                dev :> Developer @@ boss :> Administrator}

Symmetry == Permutations(Requests) \cup Permutations(Commands) \cup Permutations(Channels)

SomeBudgets == {<<3, 0, 0>>, <<1, 1, 1>>, <<0, 2, 1>>}
=============================================================================
