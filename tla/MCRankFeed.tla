----------------------------- MODULE MCRankFeed -----------------------------
(***************************************************************************)
(* Two plans that differ in one card's evidence and in a card that only    *)
(* one has, and the emptied plan with no card at all.  The model reorders   *)
(* with an unknown and a repeated id, or answers nothing readable.         *)
(***************************************************************************)
EXTENDS RankFeed

MCOrder == <<"power", "train", "stock">>
MCEvidence ==
  [p |-> [power |-> "low", train |-> "far", stock |-> None],
   q |-> [power |-> "out", train |-> "far", stock |-> "slow"],
   z |-> [power |-> None, train |-> None, stock |-> None]]
MCReply ==
  {[order |-> <<"train", "bogus", "train", "power">>, notes |-> {"power", "train", "bogus"},
    headline |-> TRUE, wild |-> TRUE],
   None}
==============================================================================
