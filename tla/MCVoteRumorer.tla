---------------------------- MODULE MCVoteRumorer ----------------------------
(***************************************************************************)
(* Two nodes whose users ask for polls; n2 may vote.                       *)
(***************************************************************************)
EXTENDS VoteRumorer, TLC

CONSTANTS n1, n2, r1, r2

\* Two polls, of two users, who both vote.
OneEach    == (r1 :> n1) @@ (r2 :> n2)
BothVote   == [n \in {n1, n2} |-> {0, 1}]

\* Two polls, of one user, who votes.
BothByN1   == [r \in {r1, r2} |-> n1]
OnlyN1     == (n1 :> {1}) @@ (n2 :> {})

OneText    == [r \in {r1, r2} |-> "a"]
PairGuests == [r \in {r1, r2} |-> {n2}]
=============================================================================
