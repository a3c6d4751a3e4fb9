--------------------------- MODULE EscrowPromise ----------------------------
(***************************************************************************)
(* What the settlement contract promises about the escrow of one task: it  *)
(* is taken from the user once; after that the two parties collect their   *)
(* shares, each at most once and in either order, unless the whole of it   *)
(* is returned to the user, which is possible only while nobody has        *)
(* collected and is final.                                                 *)
(***************************************************************************)
CONSTANT Tasks

VARIABLES
  escrow,    (* task -> "none", "held" or "returned"                       *)
  collected  (* task -> the parties that have collected their share        *)

Party == {"worker", "developer"}

Init ==
  /\ escrow = [t \in Tasks |-> "none"]
  /\ collected = [t \in Tasks |-> {}]

Hold(t) ==
  /\ escrow[t] = "none"
  /\ escrow' = [escrow EXCEPT ![t] = "held"]
  /\ UNCHANGED collected

Return(t) ==
  /\ escrow[t] = "held"
  /\ collected[t] = {}
  /\ escrow' = [escrow EXCEPT ![t] = "returned"]
  /\ UNCHANGED collected

Collect(t, p) ==
  /\ escrow[t] = "held"
  /\ p \notin collected[t]
  /\ collected' = [collected EXCEPT ![t] = @ \cup {p}]
  /\ UNCHANGED escrow

Next == \E t \in Tasks : Hold(t) \/ Return(t) \/ \E p \in Party : Collect(t, p)

Spec == Init /\ [][Next]_<<escrow, collected>>
=============================================================================
