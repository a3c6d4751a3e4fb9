----------------------------- MODULE MCBounties -----------------------------
(* A link that Bountycaster may list twice and GitHub once, another of     *)
(* Algora's, and two historical bounties, the second a social one that is  *)
(* worth too little for the adapter.  The heuristic matches the text of    *)
(* one posting and of the first historical bounty.                         *)
EXTENDS Bounties, TLC

CONSTANTS bc1, bc2, gh, algora, m1, social

MCSourceOf == (bc1 :> "bc") @@ (bc2 :> "bc") @@ (gh :> "gh") @@ (algora :> "algora")
MCLinkOf == [b \in {bc1, bc2, gh} |-> "issues/1"] @@ (algora :> "issues/2")
MCDirOf ==
  [b \in {bc1, bc2} |-> "1"] @@ [b \in {gh, algora} |-> "repo"] @@ (m1 :> "api") @@ (social :> "post")
=============================================================================
