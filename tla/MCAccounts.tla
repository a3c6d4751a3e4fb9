----------------------------- MODULE MCAccounts -----------------------------
(* Two wallets that share their first eight characters.                    *)
EXTENDS Accounts, TLC

CONSTANTS r1, r2, w1, w2

MCEmails == {"own", "wallet"}
MCDefaultEmail == [w \in {w1, w2} |-> "wallet"]
(* The limiter touches nothing else: it is run where nothing else is.      *)
MCApart ==
  \/ \A s \in Spellings : counter[s] = 0
  \/ users = <<>> /\ \A r \in Requests : request[r] = Idle
MCSymmetry == Permutations({r1, r2}) \cup Permutations({w1, w2})
=============================================================================
