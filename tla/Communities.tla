---------------------------- MODULE Communities ----------------------------
(***************************************************************************)
(* The residential areas the platform delivers to.  The back office edits  *)
(* them; accounts, addresses and stores refer to them.  Names and places,  *)
(* whose uniqueness the database checks, are left out.                     *)
(***************************************************************************)

CONSTANT Communities

VARIABLE community  \* rows of communities: status, is deletedAt set?

CommunityRows == [status : {"none", "ENABLED", "DISABLED"}, deleted : BOOLEAN]

CommunitiesInit ==
  community \in [Communities -> {[status |-> "none", deleted |-> FALSE],
                                 [status |-> "ENABLED", deleted |-> FALSE]}]

\* What residents are offered, and what every check of a reference asks.
Available(c) == community[c].status = "ENABLED" /\ ~community[c].deleted

CreateCommunity(c) ==
  /\ community[c].status = "none"
  /\ \E s \in {"ENABLED", "DISABLED"} :
       community' = [community EXCEPT ![c].status = s]

\* Editing and changing the status.  The row was looked up, undeleted, in an earlier
\* statement; the write asks for its id only, so it also reaches a deleted row.
UpdateCommunity(c) ==
  /\ community[c].status # "none"
  /\ \E s \in {"ENABLED", "DISABLED"} :
       community' = [community EXCEPT ![c].status = s]

SoftDeleteCommunity(c) ==
  /\ community[c].status # "none"
  /\ community' = [community EXCEPT ![c] = [status |-> "DISABLED", deleted |-> TRUE]]

CommunitiesNext ==
  \E c \in Communities :
    CreateCommunity(c) \/ UpdateCommunity(c) \/ SoftDeleteCommunity(c)
=============================================================================
