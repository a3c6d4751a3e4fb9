-------------------------- MODULE PeripheryProofs --------------------------
(***************************************************************************)
(* The properties of the three parts of the gateway that stand beside the  *)
(* path of a task and share no state with it or with one another: the      *)
(* accounts (Accounts), the off-chain books (MockLedger) and the bounty    *)
(* hunter (Bounties), each for any sets of its constants.                  *)
(*                                                                         *)
(* Accounts.  Each action is first reduced to its effect on the accounts,  *)
(* on the requests and on the keys; the invariants follow from the         *)
(* effects.  LoginIsOwn needs that every account's wallet was linked to it *)
(* (Owners).  KeysNearLimit is not inductive: requests that have counted   *)
(* and not inserted yet must be counted with the keys (KeysPromised).      *)
(*                                                                         *)
(* MockLedger.  The invariant (BInv) compares Redis with the books while   *)
(* an operation's writes are under way: an entry that waits for no write   *)
(* is the same in both, but for the collateral that slashes took and did   *)
(* not save (Gap), and what takes money out of Redis is written before     *)
(* what puts money in (FallsFirst).  So a prefix of the writes leaves      *)
(* Redis worth no more than it was, or no more than the books and the Gap. *)
(*                                                                         *)
(* Bounties.  What was begun has been seen and left the batch (Begun), the *)
(* daemon waits while it is served (Turns), and what was requested has a   *)
(* branch, which outlives the daemon (Requested).                          *)
(***************************************************************************)
EXTENDS Accounts, MockLedger, Bounties, Sums, SequenceTheorems

-----------------------------------------------------------------------------
(* Accounts: the shapes of the tables, and the effects of the actions.     *)
Row == [email : Emails, wallet : Wallets \cup {NoWallet}]
KeyRow == [user : Nat, live : BOOLEAN]
Labels == {"idle", "create", "again", "loggedin", "profile", "insert", "select", "compare",
           "admitted"}
Local == [pc : Labels, user : Nat, wallet : Wallets \cup {NoWallet}, email : Emails \cup {""},
          key : Nat, dead : BOOLEAN]

(* The tables are sequences of rows; a request refers to rows that exist.  *)
Shapes ==
  /\ users \in Seq(Row) /\ keys \in Seq(KeyRow)
  /\ request \in [Requests -> Local]
  /\ counter \in [Spellings -> Nat] /\ passed \in [Spellings -> Nat]
Names ==
  \A r \in Requests :
    /\ request[r].pc \in {"create", "again"} => request[r].wallet \in Wallets
    /\ request[r].pc = "profile" => request[r].user \in Accounts /\ request[r].email \in Emails
    /\ request[r].pc \in {"select", "compare"} => request[r].key \in Keys

(* What an action may do to the tables and to a request.                   *)
RowAdded ==
  \E e \in Emails, w \in Wallets \cup {NoWallet} : ~UniqueViolated(e, NoUser) /\ Insert(e, w)
WalletLinked ==
  \E i \in Accounts, w \in Wallets :
    users' = [users EXCEPT ![i].wallet = w] /\ linked' = linked \cup {<<i, w>>}
EmailChanged ==
  \E i \in Accounts, e \in Emails :
    ~UniqueViolated(e, i) /\ users' = [users EXCEPT ![i].email = e] /\ linked' = linked
UsersEffect == UNCHANGED <<users, linked>> \/ RowAdded \/ WalletLinked \/ EmailChanged

Reached(r, l) ==
  \/ l = Idle
  \/ l.pc = "loggedin" /\ <<l.user, l.wallet>> \in linked'
  \/ l.pc = "create" /\ l.wallet \in Wallets
  \/ l.pc = "again" /\ l.wallet \in Wallets
  \/ l.pc = "profile" /\ l.user \in Accounts /\ l.email \in Emails
  \/ l.pc = "insert"
  \/ l.pc = "select" /\ l.key \in Keys /\ keys' = keys /\ l.dead = ~keys[l.key].live
  \/ l.pc = "compare" /\ l.key \in Keys /\ keys' = keys /\ keys[l.key].live
       /\ request[r].pc = "select" /\ l.dead = request[r].dead /\ l.key = request[r].key
  \/ l.pc = "admitted" /\ request[r].pc = "compare" /\ l.dead = request[r].dead
RequestEffect ==
  \/ request' = request
  \/ \E r \in Requests, l \in Local : request' = [request EXCEPT ![r] = l] /\ Reached(r, l)

KeyAdded == \E i \in Nat : keys' = Append(keys, [user |-> i, live |-> TRUE])
KeyRevoked == \E k \in Keys : keys' = [keys EXCEPT ![k].live = FALSE]
KeysEffect == keys' = keys \/ KeyAdded \/ KeyRevoked

-----------------------------------------------------------------------------
(* Every account's wallet was linked to it.                                *)
Owners == \A i \in Accounts : <<i, users[i].wallet>> \in linked

LEMMA FirstIn == ASSUME NEW S, First(S) # NoUser PROVE First(S) \in S
  BY DEF First

LEMMA IdleLocal == Idle \in Local /\ Idle.pc = "idle"
  BY DEF Idle, Local, Labels, NoUser, NoKey

LEMMA LoggedInEffect ==
  ASSUME Shapes, NEW r \in Requests, NEW i \in Nat, NEW w \in Wallets \cup {NoWallet},
         LoggedIn(r, i, w), <<i, w>> \in linked'
  PROVE  RequestEffect
  <1> DEFINE l == [Idle EXCEPT !.pc = "loggedin", !.user = i, !.wallet = w]
  <1>1. l \in Local /\ l.pc = "loggedin" /\ l.user = i /\ l.wallet = w
    BY DEF Idle, Local, Labels, NoUser, NoKey
  <1>2. request' = [request EXCEPT ![r] = l]
    BY DEF LoggedIn
  <1>3. QED
    BY <1>1, <1>2 DEF RequestEffect, Reached

LEMMA EndEffect == ASSUME NEW r \in Requests, End(r) PROVE RequestEffect
  BY IdleLocal DEF End, RequestEffect, Reached

(* An action of a request ends it, logs it in or moves it one label on.    *)
LEMMA RequestActions ==
  ASSUME Shapes, Names, Owners, NEW r \in Requests, AccountAssumption,
         \/ \E w \in Wallets : LookUp(r, w)
         \/ CreateAccount(r) \/ AddressTaken(r) \/ LookUpAgain(r) \/ Done(r)
         \/ \E e \in Emails : Login(r, e)
         \/ \E i \in TokenHolders :
              \/ CountKeys(r, i)
              \/ \E e \in Emails : CheckEmail(r, i, e)
         \/ UpdateEmail(r) \/ InsertKey(r)
         \/ \E k \in Keys : Arrive(r, k)
         \/ SelectKeys(r) \/ AcceptKey(r)
  PROVE  UsersEffect /\ RequestEffect /\ KeysEffect
  <1> USE DEF UsersEffect, KeysEffect, At
  <1>0. /\ Accounts \subseteq Nat /\ Keys \subseteq Nat /\ Len(users) \in Nat
        /\ \A i \in Accounts : users[i] \in Row
        /\ request[r] \in Local
    BY DEF Shapes, Accounts, Keys
  <1>1. ASSUME NEW w \in Wallets, LookUp(r, w) PROVE UsersEffect /\ RequestEffect /\ KeysEffect
    <2>1. CASE ByWallet(w) # NoUser
      <3>1. ByWallet(w) \in Accounts /\ users[ByWallet(w)].wallet = w
        BY <2>1, FirstIn DEF ByWallet
      <3>2. <<ByWallet(w), w>> \in linked /\ linked' = linked
        BY <1>1, <3>1 DEF Owners, LookUp
      <3>3. RequestEffect
        BY <1>0, <1>1, <2>1, <3>1, <3>2, LoggedInEffect DEF LookUp
      <3>4. QED
        BY <1>1, <3>3 DEF LookUp
    <2>2. CASE ByWallet(w) = NoUser
      <3> DEFINE l == [Idle EXCEPT !.pc = "create", !.wallet = w]
      <3>1. l \in Local /\ l.pc = "create" /\ l.wallet = w
        BY DEF Idle, Local, Labels, NoUser, NoKey
      <3>2. request' = [request EXCEPT ![r] = l]
        BY <1>1, <2>2 DEF LookUp, Begin
      <3>3. RequestEffect
        BY <3>1, <3>2 DEF RequestEffect, Reached
      <3>4. QED
        BY <1>1, <3>3 DEF LookUp
    <2>3. QED
      BY <2>1, <2>2
  <1>2. ASSUME CreateAccount(r) PROVE UsersEffect /\ RequestEffect /\ KeysEffect
    <2> DEFINE w == request[r].wallet
    <2>1. w \in Wallets /\ DefaultEmail[w] \in Emails
      BY <1>2 DEF CreateAccount, Names, AccountAssumption
    <2>2. RowAdded
      BY <1>2, <2>1 DEF CreateAccount, RowAdded
    <2>3. RequestEffect
      <3>1. <<Len(users) + 1, w>> \in linked' /\ LoggedIn(r, Len(users) + 1, w)
        BY <1>2 DEF CreateAccount, Insert
      <3>2. QED
        BY <1>0, <2>1, <3>1, LoggedInEffect
    <2>4. QED
      BY <1>2, <2>2, <2>3 DEF CreateAccount
  <1>3. ASSUME AddressTaken(r) PROVE UsersEffect /\ RequestEffect /\ KeysEffect
    <2> DEFINE l == [request[r] EXCEPT !.pc = "again"]
    <2>1. l \in Local /\ l.pc = "again" /\ l.wallet = request[r].wallet
      BY <1>0 DEF Local, Labels
    <2>2. request' = [request EXCEPT ![r] = l]
      BY <1>3 DEF AddressTaken
    <2>3. RequestEffect
      BY <1>3, <2>1, <2>2 DEF RequestEffect, Reached, AddressTaken, Names
    <2>4. QED
      BY <1>3, <2>3 DEF AddressTaken
  <1>4. ASSUME LookUpAgain(r) PROVE UsersEffect /\ RequestEffect /\ KeysEffect
    <2> DEFINE w == request[r].wallet
    <2>1. w \in Wallets
      BY <1>4 DEF LookUpAgain, Names
    <2>2. CASE Missing(FoundAgain(w))
      BY <1>4, <2>2, EndEffect DEF LookUpAgain
    <2>3. CASE ~Missing(FoundAgain(w))
      <3>1. ByWallet(w) \in Accounts /\ users[ByWallet(w)].wallet = w
        BY <2>3, FirstIn DEF ByWallet, FoundAgain, Missing
      <3>2. <<ByWallet(w), w>> \in linked' /\ LoggedIn(r, ByWallet(w), w)
        BY <1>4, <2>3, <3>1 DEF Owners, LookUpAgain, FoundAgain
      <3>3. RequestEffect
        BY <1>0, <2>1, <3>1, <3>2, LoggedInEffect
      <3>4. QED
        BY <1>4, <3>3 DEF LookUpAgain
    <2>4. QED
      BY <2>2, <2>3
  <1>5. ASSUME Done(r) PROVE UsersEffect /\ RequestEffect /\ KeysEffect
    BY <1>5, EndEffect DEF Done
  <1>6. ASSUME NEW e \in Emails, Login(r, e) PROVE UsersEffect /\ RequestEffect /\ KeysEffect
    <2>1. ByEmail(e) \in Accounts
      BY <1>6, FirstIn DEF ByEmail, Login
    <2>2. /\ LoggedIn(r, ByEmail(e), users[ByEmail(e)].wallet)
          /\ <<ByEmail(e), users[ByEmail(e)].wallet>> \in linked'
      BY <1>6, <2>1 DEF Login, Owners
    <2>3. users[ByEmail(e)].wallet \in Wallets \cup {NoWallet}
      BY <1>0, <2>1 DEF Row
    <2>4. RequestEffect
      BY <1>0, <2>1, <2>2, <2>3, LoggedInEffect
    <2>5. QED
      BY <1>6, <2>4 DEF Login
  <1>7. ASSUME NEW i \in TokenHolders, CountKeys(r, i)
        PROVE UsersEffect /\ RequestEffect /\ KeysEffect
    <2> DEFINE l == [Idle EXCEPT !.pc = "insert", !.user = i]
    <2>1. l \in Local /\ l.pc = "insert"
      BY <1>0 DEF Idle, Local, Labels, NoUser, NoKey, TokenHolders
    <2>2. request' = [request EXCEPT ![r] = l]
      BY <1>7 DEF CountKeys, Begin
    <2>3. RequestEffect
      BY <2>1, <2>2 DEF RequestEffect, Reached
    <2>4. QED
      BY <1>7, <2>3 DEF CountKeys
  <1>8. ASSUME NEW i \in TokenHolders, NEW e \in Emails, CheckEmail(r, i, e)
        PROVE UsersEffect /\ RequestEffect /\ KeysEffect
    <2> DEFINE l == [Idle EXCEPT !.pc = "profile", !.user = i, !.email = e]
    <2>1. l \in Local /\ l.pc = "profile" /\ l.user \in Accounts /\ l.email \in Emails
      BY <1>0 DEF Idle, Local, Labels, NoUser, NoKey, TokenHolders
    <2>2. request' = [request EXCEPT ![r] = l]
      BY <1>8 DEF CheckEmail, Begin
    <2>3. RequestEffect
      BY <2>1, <2>2 DEF RequestEffect, Reached
    <2>4. QED
      BY <1>8, <2>3 DEF CheckEmail
  <1>9. ASSUME UpdateEmail(r) PROVE UsersEffect /\ RequestEffect /\ KeysEffect
    <2>1. request[r].user \in Accounts /\ request[r].email \in Emails
      BY <1>9 DEF UpdateEmail, Names
    <2>2. UsersEffect
      BY <1>9, <2>1 DEF UpdateEmail, EmailChanged
    <2>3. QED
      BY <1>9, <2>2, EndEffect DEF UpdateEmail
  <1>10. ASSUME InsertKey(r) PROVE UsersEffect /\ RequestEffect /\ KeysEffect
    BY <1>0, <1>10, EndEffect DEF InsertKey, KeyAdded, Local
  <1>11. ASSUME NEW k \in Keys, Arrive(r, k) PROVE UsersEffect /\ RequestEffect /\ KeysEffect
    <2> DEFINE l == [Idle EXCEPT !.pc = "select", !.key = k, !.dead = ~keys[k].live]
    <2>1. /\ l \in Local /\ l.pc = "select"
          /\ l.key = k /\ l.dead = ~keys[k].live
      BY <1>0 DEF Idle, Local, Labels, NoUser, NoKey
    <2>2. request' = [request EXCEPT ![r] = l] /\ keys' = keys
      BY <1>11 DEF Arrive, Begin
    <2> HIDE DEF l
    <2>3. Reached(r, l)
      BY <2>1, <2>2 DEF Reached
    <2>4. RequestEffect
      BY <2>1, <2>2, <2>3 DEF RequestEffect
    <2>5. QED
      BY <1>11, <2>4 DEF Arrive
  <1>12. ASSUME SelectKeys(r) PROVE UsersEffect /\ RequestEffect /\ KeysEffect
    <2>1. CASE request[r].key \in Selected
      <3> DEFINE l == [request[r] EXCEPT !.pc = "compare"]
      <3>1. /\ l \in Local /\ l.pc = "compare"
            /\ l.key = request[r].key /\ l.dead = request[r].dead
        BY <1>0 DEF Local, Labels
      <3>2. request' = [request EXCEPT ![r] = l] /\ keys' = keys /\ request[r].pc = "select"
        BY <1>12, <2>1 DEF SelectKeys
      <3>3. RequestEffect
        BY <2>1, <3>1, <3>2 DEF RequestEffect, Reached, Selected
      <3>4. QED
        BY <1>12, <3>3 DEF SelectKeys
    <2>2. CASE request[r].key \notin Selected
      BY <1>12, <2>2, EndEffect DEF SelectKeys
    <2>3. QED
      BY <2>1, <2>2
  <1>13. ASSUME AcceptKey(r) PROVE UsersEffect /\ RequestEffect /\ KeysEffect
    <2> DEFINE l == [request[r] EXCEPT !.pc = "admitted"]
    <2>1. l \in Local /\ l.pc = "admitted" /\ l.dead = request[r].dead
      BY <1>0 DEF Local, Labels
    <2>2. request' = [request EXCEPT ![r] = l] /\ request[r].pc = "compare"
      BY <1>13 DEF AcceptKey
    <2>3. RequestEffect
      BY <2>1, <2>2 DEF RequestEffect, Reached
    <2>4. QED
      BY <1>13, <2>3 DEF AcceptKey
  <1>14. QED
    BY <1>1, <1>2, <1>3, <1>4, <1>5, <1>6, <1>7, <1>8, <1>9, <1>10, <1>11, <1>12, <1>13

(* So does every action.                                                   *)
LEMMA NextEffects ==
  ASSUME Shapes, Names, Owners, [Next]_vars
  PROVE  UsersEffect /\ RequestEffect /\ KeysEffect
  <1> USE DEF UsersEffect, RequestEffect, KeysEffect
  <1>1. ASSUME NEW e \in Emails, NEW w \in Wallets \cup {NoWallet}, Register(e, w)
        PROVE  UsersEffect /\ RequestEffect /\ KeysEffect
    BY <1>1 DEF Register, RowAdded
  <1>2. ASSUME NEW i \in TokenHolders, NEW w \in Wallets, LinkWallet(i, w)
        PROVE  UsersEffect /\ RequestEffect /\ KeysEffect
    BY <1>2 DEF LinkWallet, WalletLinked, TokenHolders
  <1>3. ASSUME NEW i \in TokenHolders, NEW k \in Keys, Revoke(i, k)
        PROVE  UsersEffect /\ RequestEffect /\ KeysEffect
    BY <1>3 DEF Revoke, KeyRevoked
  <1>4. ASSUME NextWindow \/ \E s \in Spellings, valid \in BOOLEAN : Signed(s, valid)
        PROVE  UsersEffect /\ RequestEffect /\ KeysEffect
    BY <1>4 DEF NextWindow, Signed
  <1>5. CASE UNCHANGED vars
    BY <1>5 DEF vars
  <1>6. QED
    BY <1>1, <1>2, <1>3, <1>4, <1>5, RequestActions, AccountAssumption DEF Next

-----------------------------------------------------------------------------
(* The table of users keeps its form, its rows and its unique addresses.   *)
LEMMA UsersKept ==
  ASSUME users \in Seq(Row), Owners, EmailsUnique, UsersEffect
  PROVE  /\ users' \in Seq(Row)
         /\ Len(users) <= Len(users') /\ Accounts \subseteq Accounts' /\ linked \subseteq linked'
         /\ Owners' /\ EmailsUnique'
  <1> USE DEF Accounts
  <1>0. Len(users) \in Nat /\ \A i \in Accounts : users[i] \in Row
    OBVIOUS
  <1>1. CASE UNCHANGED <<users, linked>>
    BY <1>0, <1>1 DEF Owners, EmailsUnique
  <1>2. ASSUME NEW e \in Emails, NEW w \in Wallets \cup {NoWallet},
               ~UniqueViolated(e, NoUser), Insert(e, w)
        PROVE  /\ users' \in Seq(Row)
               /\ Len(users) <= Len(users') /\ Accounts \subseteq Accounts' /\ linked \subseteq linked'
               /\ Owners' /\ EmailsUnique'
    <2> DEFINE row == [email |-> e, wallet |-> w]
    <2>1. row \in Row /\ row.email = e /\ row.wallet = w
      BY DEF Row
    <2>2. users' = Append(users, row) /\ linked' = linked \cup {<<Len(users) + 1, w>>}
      BY <1>2 DEF Insert
    <2> HIDE DEF row
    <2>3. /\ users' \in Seq(Row) /\ Len(users') = Len(users) + 1
          /\ \A i \in 1..Len(users) : users'[i] = users[i]
          /\ users'[Len(users) + 1] = row
      BY <2>1, <2>2, AppendProperties
    <2>4. \A i \in Accounts : users[i].email # e
      BY <1>0, <1>2 DEF UniqueViolated, NoUser
    <2>5. \A i \in Accounts' : i \in Accounts \/ i = Len(users) + 1
      BY <1>0, <2>3
    <2>6. Owners'
      BY <2>1, <2>2, <2>3, <2>5 DEF Owners
    <2>7. EmailsUnique'
      BY <2>1, <2>3, <2>4, <2>5 DEF EmailsUnique
    <2>8. QED
      BY <1>0, <2>2, <2>3, <2>6, <2>7
  <1>3. ASSUME NEW i \in Accounts, NEW w \in Wallets,
               users' = [users EXCEPT ![i].wallet = w], linked' = linked \cup {<<i, w>>}
        PROVE  /\ users' \in Seq(Row)
               /\ Len(users) <= Len(users') /\ Accounts \subseteq Accounts' /\ linked \subseteq linked'
               /\ Owners' /\ EmailsUnique'
    <2>1. [users[i] EXCEPT !.wallet = w] \in Row
      BY <1>0 DEF Row
    <2>2. /\ users' \in Seq(Row) /\ Len(users') = Len(users)
          /\ \A j \in 1..Len(users) :
               users'[j] = IF j = i THEN [users[i] EXCEPT !.wallet = w] ELSE users[j]
      BY <1>3, <2>1, ExceptSeq
    <2>3. \A j \in Accounts : /\ users'[j].email = users[j].email
                              /\ users'[j].wallet = IF j = i THEN w ELSE users[j].wallet
      BY <1>0, <2>2 DEF Row
    <2>4. Owners' /\ EmailsUnique'
      BY <1>3, <2>2, <2>3 DEF Owners, EmailsUnique
    <2>5. QED
      BY <1>0, <1>3, <2>2, <2>4
  <1>4. ASSUME NEW i \in Accounts, NEW e \in Emails, ~UniqueViolated(e, i),
               users' = [users EXCEPT ![i].email = e], linked' = linked
        PROVE  /\ users' \in Seq(Row)
               /\ Len(users) <= Len(users') /\ Accounts \subseteq Accounts' /\ linked \subseteq linked'
               /\ Owners' /\ EmailsUnique'
    <2>1. [users[i] EXCEPT !.email = e] \in Row
      BY <1>0 DEF Row
    <2>2. /\ users' \in Seq(Row) /\ Len(users') = Len(users)
          /\ \A j \in 1..Len(users) :
               users'[j] = IF j = i THEN [users[i] EXCEPT !.email = e] ELSE users[j]
      BY <1>4, <2>1, ExceptSeq
    <2>3. \A j \in Accounts : /\ users'[j].email = IF j = i THEN e ELSE users[j].email
                              /\ users'[j].wallet = users[j].wallet
      BY <1>0, <2>2 DEF Row
    <2>4. Owners' /\ EmailsUnique'
      BY <1>4, <2>2, <2>3 DEF Owners, EmailsUnique, UniqueViolated
    <2>5. QED
      BY <1>0, <1>4, <2>2, <2>4
  <1>5. QED
    BY <1>1, <1>2, <1>3, <1>4 DEF UsersEffect, RowAdded, WalletLinked, EmailChanged

(* A key that was issued stays, and once revoked stays revoked.            *)
LEMMA KeysKept ==
  ASSUME keys \in Seq(KeyRow), KeysEffect
  PROVE  /\ keys' \in Seq(KeyRow) /\ Keys \subseteq Keys'
         /\ \A k \in Keys : ~keys[k].live => ~keys'[k].live
  <1> USE DEF Keys
  <1>0. Len(keys) \in Nat /\ \A k \in Keys : keys[k] \in KeyRow
    OBVIOUS
  <1>1. CASE keys' = keys
    BY <1>1
  <1>2. ASSUME NEW i \in Nat, keys' = Append(keys, [user |-> i, live |-> TRUE])
        PROVE  /\ keys' \in Seq(KeyRow) /\ Keys \subseteq Keys'
               /\ \A k \in Keys : keys'[k] = keys[k]
    <2>1. [user |-> i, live |-> TRUE] \in KeyRow
      BY DEF KeyRow
    <2>2. QED
      BY <1>0, <1>2, <2>1, AppendProperties
  <1>3. ASSUME NEW k \in Keys, keys' = [keys EXCEPT ![k].live = FALSE]
        PROVE  /\ keys' \in Seq(KeyRow) /\ Keys \subseteq Keys'
               /\ \A j \in Keys : keys'[j] = keys[j] \/ keys'[j].live = FALSE
    <2>1. [keys[k] EXCEPT !.live = FALSE] \in KeyRow /\ [keys[k] EXCEPT !.live = FALSE].live = FALSE
      BY <1>0 DEF KeyRow
    <2>2. QED
      BY <1>0, <1>3, <2>1, ExceptSeq
  <1>4. QED
    BY <1>1, <1>2, <1>3 DEF KeysEffect, KeyAdded, KeyRevoked

(* A request that came with a revoked key goes no further.                 *)
Admission ==
  \A r \in Requests :
    /\ request[r].pc = "select" /\ request[r].dead => ~keys[request[r].key].live
    /\ request[r].pc \in {"compare", "admitted"} => ~request[r].dead

(* Requests refer to rows that exist, are logged in to accounts of their   *)
(* own, and get through with live keys only.                               *)
LEMMA RequestsKept ==
  ASSUME Shapes, Names, LoginIsOwn, Admission, RequestEffect,
         Accounts \subseteq Accounts', linked \subseteq linked', Keys \subseteq Keys',
         \A k \in Keys : ~keys[k].live => ~keys'[k].live
  PROVE  request' \in [Requests -> Local] /\ Names' /\ LoginIsOwn' /\ Admission'
  <1> USE DEF Names, LoginIsOwn, Admission, At
  <1>0. request \in [Requests -> Local]
    BY DEF Shapes
  <1>1. CASE request' = request
    <2>1. Names'
      BY <1>1
    <2>2. LoginIsOwn'
      BY <1>1
    <2>3. Admission'
      BY <1>1
    <2>4. QED
      BY <1>0, <1>1, <2>1, <2>2, <2>3
  <1>2. ASSUME NEW r \in Requests, NEW l \in Local,
               request' = [request EXCEPT ![r] = l], Reached(r, l)
        PROVE  request' \in [Requests -> Local] /\ Names' /\ LoginIsOwn' /\ Admission'
    <2>1. /\ request' \in [Requests -> Local] /\ request'[r] = l
          /\ \A q \in Requests : q # r => request'[q] = request[q]
      BY <1>0, <1>2
    <2>2. Names'
      <3>1. /\ l.pc \in {"create", "again"} => l.wallet \in Wallets
            /\ l.pc = "profile" => l.user \in Accounts' /\ l.email \in Emails
            /\ l.pc \in {"select", "compare"} => l.key \in Keys'
        BY <1>2, IdleLocal DEF Reached
      <3>2. QED
        BY <2>1, <3>1
    <2>3. LoginIsOwn'
      <3>1. l.pc = "loggedin" => <<l.user, l.wallet>> \in linked'
        BY <1>2, IdleLocal DEF Reached
      <3>2. QED
        BY <2>1, <3>1
    <2>4. Admission'
      <3>1. l.pc = "select" /\ l.dead => ~keys'[l.key].live
        BY <1>2, IdleLocal DEF Reached
      <3>2. l.pc = "compare" => ~l.dead
        BY <1>2, IdleLocal DEF Reached
      <3>3. l.pc = "admitted" => ~l.dead
        BY <1>2, IdleLocal DEF Reached
      <3>4. \A q \in Requests : q # r =>
              /\ request'[q].pc = "select" /\ request'[q].dead => ~keys'[request'[q].key].live
              /\ request'[q].pc \in {"compare", "admitted"} => ~request'[q].dead
        BY <2>1
      <3>5. QED
        BY <2>1, <3>1, <3>2, <3>3, <3>4
    <2>5. QED
      BY <2>1, <2>2, <2>3, <2>4
  <1>3. QED
    BY <1>1, <1>2 DEF RequestEffect

(* The limiter lets no more through than it counts, under each spelling.   *)
Limited == \A s \in Spellings : passed[s] <= RateMax /\ passed[s] <= counter[s]
LimiterTypes == counter \in [Spellings -> Nat] /\ passed \in [Spellings -> Nat]

LEMMA LimiterKept ==
  ASSUME LimiterTypes, Limited, [Next]_vars
  PROVE  LimiterTypes' /\ Limited'
  <1>1. ASSUME NEW s \in Spellings, NEW valid \in BOOLEAN, Signed(s, valid)
        PROVE  LimiterTypes' /\ Limited'
    <2>1. counter' = [counter EXCEPT ![s] = @ + 1] /\ counter'[s] = counter[s] + 1
      BY <1>1 DEF Signed, LimiterTypes
    <2>2. \/ passed' = passed
          \/ counter'[s] <= RateMax /\ passed' = [passed EXCEPT ![s] = @ + 1]
      BY <1>1, <2>1, AccountAssumption DEF Signed, Exceeded, LimiterTypes
    <2>3. LimiterTypes'
      BY <2>1, <2>2 DEF LimiterTypes
    <2>4. Limited'
      BY <2>1, <2>2, AccountAssumption DEF Limited, LimiterTypes
    <2>5. QED
      BY <2>3, <2>4
  <1>2. CASE NextWindow
    BY <1>2, AccountAssumption DEF NextWindow, Limited, LimiterTypes
  <1>3. CASE UNCHANGED limiter
    BY <1>3 DEF limiter, Limited, LimiterTypes
  <1>4. QED
    BY <1>1, <1>2, <1>3
    DEF Next, vars, limiter, Register, LinkWallet, Revoke, LookUp, CreateAccount, AddressTaken,
        LookUpAgain, Done, Login, CountKeys, CheckEmail, UpdateEmail, InsertKey, Arrive, SelectKeys,
        AcceptKey

-----------------------------------------------------------------------------
(* The keys of an account and the requests about to insert one for it.     *)
Inserting(i) == {r \in Requests : request[r].pc = "insert" /\ request[r].user = i}
KeysPromised ==
  \A i \in Nat : Cardinality(Live(i)) + Cardinality(Inserting(i)) < MaxKeys + Cardinality(Requests)

LEMMA Finite ==
  ASSUME keys \in Seq(KeyRow), NEW i \in Nat
  PROVE  /\ IsFiniteSet(Live(i)) /\ Cardinality(Live(i)) \in Nat
         /\ IsFiniteSet(Inserting(i)) /\ Cardinality(Inserting(i)) \in Nat
         /\ Cardinality(Inserting(i)) <= Cardinality(Requests)
         /\ Cardinality(Requests) \in Nat
  <1>1. IsFiniteSet(Keys)
    BY FS_Interval, LenProperties DEF Keys
  <1>2. Live(i) \in SUBSET Keys /\ Inserting(i) \in SUBSET Requests
    BY DEF Live, Inserting
  <1>3. QED
    BY <1>1, <1>2, FS_Subset, FS_CardinalityType, AccountAssumption

(* What most actions do: no key changes, nor who is about to insert one.   *)
KeysLeft == keys' = keys /\ \A i \in Nat : Inserting(i)' = Inserting(i)

LEMMA InsertingLeft ==
  ASSUME Shapes, NEW r \in Requests, NEW l, request' = [request EXCEPT ![r] = l],
         request[r].pc # "insert", l.pc # "insert", keys' = keys
  PROVE  KeysLeft
  BY DEF KeysLeft, Inserting, Shapes

LEMMA KeysLeftOr ==
  ASSUME Shapes, [Next]_vars
  PROVE  \/ KeysLeft
         \/ \E r \in Requests : InsertKey(r) \/ \E i \in Accounts : CountKeys(r, i)
         \/ \E i \in Accounts, k \in Keys : Revoke(i, k)
  <1> USE DEF At
  <1>0. Idle.pc = "idle"
    BY DEF Idle
  <1>1. ASSUME UNCHANGED <<keys, request>> PROVE KeysLeft
    BY <1>1 DEF KeysLeft, Inserting
  <1>2. ASSUME NEW r \in Requests, request[r].pc # "insert", End(r), keys' = keys PROVE KeysLeft
    BY <1>0, <1>2, InsertingLeft DEF End
  <1>3. ASSUME NEW r \in Requests, request[r].pc # "insert", keys' = keys,
               NEW i, NEW w, LoggedIn(r, i, w)
        PROVE  KeysLeft
    <2>1. [Idle EXCEPT !.pc = "loggedin", !.user = i, !.wallet = w].pc = "loggedin"
      BY DEF Idle
    <2>2. QED
      BY <1>3, <2>1, InsertingLeft DEF LoggedIn
  <1>4. ASSUME NEW r \in Requests, NEW label \in Labels \ {"insert"}, request[r].pc # "insert",
               request' = [request EXCEPT ![r].pc = label], keys' = keys
        PROVE  KeysLeft
    <2>1. request[r] \in Local
      BY DEF Shapes
    <2>2. [request[r] EXCEPT !.pc = label].pc = label
      BY <2>1 DEF Local
    <2>3. QED
      BY <1>4, <2>2, InsertingLeft
  <1>5. ASSUME NEW r \in Requests, NEW w \in Wallets, LookUp(r, w) PROVE KeysLeft
    <2>1. [Idle EXCEPT !.pc = "create", !.wallet = w].pc = "create"
      BY DEF Idle
    <2>2. CASE ByWallet(w) # NoUser
      BY <1>3, <1>5, <2>2 DEF LookUp
    <2>3. CASE ByWallet(w) = NoUser
      BY <1>5, <2>1, <2>3, InsertingLeft DEF LookUp, Begin
    <2>4. QED
      BY <2>2, <2>3
  <1>6. ASSUME NEW r \in Requests, CreateAccount(r) \/ \E e \in Emails : Login(r, e) PROVE KeysLeft
    BY <1>3, <1>6 DEF CreateAccount, Login
  <1>7. ASSUME NEW r \in Requests, LookUpAgain(r) PROVE KeysLeft
    BY <1>2, <1>3, <1>7 DEF LookUpAgain
  <1>8. ASSUME NEW r \in Requests, AddressTaken(r) \/ AcceptKey(r) PROVE KeysLeft
    BY <1>4, <1>8 DEF AddressTaken, AcceptKey, Labels
  <1>9. ASSUME NEW r \in Requests, SelectKeys(r) PROVE KeysLeft
    BY <1>2, <1>4, <1>9 DEF SelectKeys, Labels
  <1>10. ASSUME NEW r \in Requests, Done(r) \/ UpdateEmail(r) PROVE KeysLeft
    BY <1>2, <1>10 DEF Done, UpdateEmail
  <1>11. ASSUME NEW r \in Requests, NEW i, NEW e, CheckEmail(r, i, e) PROVE KeysLeft
    <2>1. [Idle EXCEPT !.pc = "profile", !.user = i, !.email = e].pc = "profile"
      BY DEF Idle
    <2>2. QED
      BY <1>11, <2>1, InsertingLeft DEF CheckEmail, Begin
  <1>12. ASSUME NEW r \in Requests, NEW k, Arrive(r, k) PROVE KeysLeft
    <2>1. [Idle EXCEPT !.pc = "select", !.key = k, !.dead = ~keys[k].live].pc = "select"
      BY DEF Idle
    <2>2. QED
      BY <1>12, <2>1, InsertingLeft DEF Arrive, Begin
  <1>13. ASSUME \/ \E e \in Emails, w \in Wallets \cup {NoWallet} : Register(e, w)
                \/ \E i \in TokenHolders, w \in Wallets : LinkWallet(i, w)
                \/ \E s \in Spellings, valid \in BOOLEAN : Signed(s, valid)
                \/ NextWindow \/ UNCHANGED vars
         PROVE  KeysLeft
    BY <1>1, <1>13 DEF Register, LinkWallet, Signed, NextWindow, vars
  <1>14. QED
    BY <1>5, <1>6, <1>7, <1>8, <1>9, <1>10, <1>11, <1>12, <1>13 DEF Next, TokenHolders

LEMMA PromisesKept ==
  ASSUME Shapes, keys' \in Seq(KeyRow), KeysPromised, [Next]_vars
  PROVE  KeysPromised'
  <1> USE DEF At
  <1>0. keys \in Seq(KeyRow) /\ request \in [Requests -> Local] /\ Accounts \subseteq Nat
    BY DEF Shapes, Accounts
  <1> SUFFICES ASSUME NEW j \in Nat
               PROVE  Cardinality(Live(j)') + Cardinality(Inserting(j)')
                        < MaxKeys + Cardinality(Requests)
    BY DEF KeysPromised
  <1>1. Cardinality(Live(j)) + Cardinality(Inserting(j)) < MaxKeys + Cardinality(Requests)
    BY DEF KeysPromised
  <1>2. CASE KeysLeft
    BY <1>1, <1>2 DEF KeysLeft, Live, Keys
  <1>3. ASSUME NEW r \in Requests, NEW i \in Accounts, CountKeys(r, i)
        PROVE  Cardinality(Live(j)') + Cardinality(Inserting(j)') < MaxKeys + Cardinality(Requests)
    <2> DEFINE l == [Idle EXCEPT !.pc = "insert", !.user = i]
    <2>1. l.pc = "insert" /\ l.user = i
      BY DEF Idle
    <2>2. request' = [request EXCEPT ![r] = l] /\ keys' = keys /\ request[r].pc = "idle"
      BY <1>3 DEF CountKeys, Begin
    <2>3. Live(j)' = Live(j)
      BY <2>2 DEF Live, Keys
    <2> HIDE DEF l
    <2>4. CASE j = i
      <3>1. Cardinality(Live(j)) < MaxKeys
        BY <1>0, <1>3, <2>4, Finite, AccountAssumption DEF CountKeys, AtLimit
      <3>2. Inserting(j)' \in SUBSET Requests
        BY DEF Inserting
      <3>3. Cardinality(Inserting(j)') <= Cardinality(Requests) /\ Cardinality(Inserting(j)') \in Nat
        BY <3>2, FS_Subset, FS_CardinalityType, AccountAssumption
      <3>4. Cardinality(Live(j)') = Cardinality(Live(j))
        BY <2>3
      <3>5. Cardinality(Live(j)) \in Nat /\ Cardinality(Requests) \in Nat /\ MaxKeys \in Nat
        BY <1>0, Finite, FS_CardinalityType, AccountAssumption
      <3>6. QED
        BY <3>1, <3>3, <3>4, <3>5
    <2>5. CASE j # i
      <3>1. Inserting(j)' = Inserting(j)
        BY <1>0, <2>1, <2>2, <2>5 DEF Inserting
      <3>2. QED
        BY <1>1, <2>3, <3>1
    <2>6. QED
      BY <2>4, <2>5
  <1>4. ASSUME NEW r \in Requests, InsertKey(r)
        PROVE  Cardinality(Live(j)') + Cardinality(Inserting(j)') < MaxKeys + Cardinality(Requests)
    <2> DEFINE u == request[r].user
    <2> DEFINE row == [user |-> u, live |-> TRUE]
    <2>1. row \in KeyRow /\ row.user = u /\ row.live = TRUE
      BY <1>0 DEF KeyRow, Local
    <2>2. keys' = Append(keys, row) /\ request' = [request EXCEPT ![r] = Idle]
          /\ request[r].pc = "insert" /\ Idle.pc # "insert"
      BY <1>4 DEF InsertKey, End, Idle
    <2> HIDE DEF row
    <2>3. /\ Len(keys') = Len(keys) + 1 /\ Len(keys) \in Nat
          /\ \A k \in 1..Len(keys) : keys'[k] = keys[k]
          /\ keys'[Len(keys) + 1] = row
      BY <1>0, <2>1, <2>2, AppendProperties, LenProperties
    <2>4. CASE j = u
      <3>1. Live(j)' = Live(j) \cup {Len(keys) + 1} /\ Len(keys) + 1 \notin Live(j)
        BY <2>1, <2>3, <2>4 DEF Live, Keys
      <3>2. Inserting(j)' = Inserting(j) \ {r} /\ r \in Inserting(j)
        BY <1>0, <2>2, <2>4 DEF Inserting
      <3>3. Cardinality(Live(j)') = Cardinality(Live(j)) + 1
        BY <1>0, <3>1, Finite, FS_AddElement
      <3>4. Cardinality(Inserting(j)') = Cardinality(Inserting(j)) - 1
        BY <1>0, <3>2, Finite, FS_RemoveElement
      <3>5. QED
        BY <1>0, <1>1, <3>3, <3>4, Finite
    <2>5. CASE j # u
      <3>1. Live(j)' = Live(j)
        BY <2>1, <2>3, <2>5 DEF Live, Keys
      <3>2. Inserting(j)' = Inserting(j)
        BY <1>0, <2>2, <2>5 DEF Inserting
      <3>3. QED
        BY <1>1, <3>1, <3>2
    <2>6. QED
      BY <2>4, <2>5
  <1>5. ASSUME NEW i \in Accounts, NEW k \in Keys, Revoke(i, k)
        PROVE  Cardinality(Live(j)') + Cardinality(Inserting(j)') < MaxKeys + Cardinality(Requests)
    <2>1. keys' = [keys EXCEPT ![k].live = FALSE] /\ request' = request
      BY <1>5 DEF Revoke
    <2>2. keys[k] \in KeyRow /\ k \in 1..Len(keys)
      BY <1>0 DEF Keys
    <2>3. /\ [keys[k] EXCEPT !.live = FALSE] \in KeyRow
          /\ [keys[k] EXCEPT !.live = FALSE].live = FALSE
      BY <2>2 DEF KeyRow
    <2>4. Live(j)' \in SUBSET Live(j)
      BY <1>0, <2>1, <2>2, <2>3, ExceptSeq DEF Live, Keys
    <2>5. Inserting(j)' = Inserting(j)
      BY <2>1 DEF Inserting
    <2>6. Cardinality(Live(j)') <= Cardinality(Live(j)) /\ Cardinality(Live(j)') \in Nat
      BY <1>0, <2>4, Finite, FS_Subset, FS_CardinalityType
    <2>7. Cardinality(Inserting(j)') = Cardinality(Inserting(j))
      BY <2>5
    <2>8. /\ Cardinality(Live(j)) \in Nat /\ Cardinality(Inserting(j)) \in Nat
          /\ Cardinality(Requests) \in Nat /\ MaxKeys \in Nat
      BY <1>0, Finite, FS_CardinalityType, AccountAssumption
    <2>9. QED
      BY <1>1, <2>6, <2>7, <2>8
  <1>6. QED
    BY <1>2, <1>3, <1>4, <1>5, KeysLeftOr

-----------------------------------------------------------------------------
IInv ==
  /\ Shapes /\ Names /\ Owners /\ EmailsUnique /\ LoginIsOwn
  /\ Admission /\ Limited /\ KeysPromised

LEMMA InitIInv == Init => IInv
  <1> SUFFICES ASSUME Init PROVE IInv
    OBVIOUS
  <1>1. users = <<>> /\ keys = <<>> /\ Len(users) = 0 /\ Len(keys) = 0
    BY DEF Init
  <1>2. \A r \in Requests : request[r] = Idle
    BY DEF Init
  <1>3. Idle.pc = "idle"
    BY DEF Idle
  <1>4. Shapes
    BY IdleLocal DEF Init, Shapes
  <1>5. Owners /\ EmailsUnique
    BY <1>1 DEF Owners, EmailsUnique, Accounts
  <1>6. Names /\ LoginIsOwn /\ Admission
    BY <1>2, <1>3 DEF Names, LoginIsOwn, Admission, At
  <1>7. Limited
    BY AccountAssumption DEF Init, Limited
  <1>8. KeysPromised
    <2>1. \A i \in Nat : Live(i) = {} /\ Inserting(i) = {}
      BY <1>1, <1>2, <1>3 DEF Live, Keys, Inserting
    <2>2. Cardinality(Requests) \in Nat
      BY FS_CardinalityType, AccountAssumption
    <2>3. Cardinality({}) = 0 /\ 0 + 0 < MaxKeys + Cardinality(Requests)
      BY <2>2, FS_EmptySet, AccountAssumption
    <2>4. \A i \in Nat : Cardinality(Live(i)) = 0 /\ Cardinality(Inserting(i)) = 0
      BY <2>1, <2>3
    <2>5. QED
      BY <2>3, <2>4 DEF KeysPromised
  <1>9. QED
    BY <1>4, <1>5, <1>6, <1>7, <1>8 DEF IInv

LEMMA NextIInv == IInv /\ [Next]_vars => IInv'
  <1> SUFFICES ASSUME IInv, [Next]_vars PROVE IInv'
    OBVIOUS
  <1> USE DEF IInv
  <1>1. UsersEffect /\ RequestEffect /\ KeysEffect
    BY NextEffects
  <1>2. /\ users' \in Seq(Row) /\ Accounts \subseteq Accounts' /\ linked \subseteq linked'
        /\ Owners' /\ EmailsUnique'
    BY <1>1, UsersKept DEF Shapes
  <1>3. /\ keys' \in Seq(KeyRow) /\ Keys \subseteq Keys'
        /\ \A k \in Keys : ~keys[k].live => ~keys'[k].live
    BY <1>1, KeysKept DEF Shapes
  <1>4. request' \in [Requests -> Local] /\ Names' /\ LoginIsOwn' /\ Admission'
    BY <1>1, <1>2, <1>3, RequestsKept
  <1>5. LimiterTypes' /\ Limited'
    BY LimiterKept DEF Shapes, LimiterTypes
  <1>6. KeysPromised'
    BY <1>3, PromisesKept
  <1>7. QED
    BY <1>2, <1>3, <1>4, <1>5, <1>6 DEF Shapes, LimiterTypes

LEMMA IInvHolds == Spec => []IInv
  BY InitIInv, NextIInv, PTL DEF Spec

(* An address names one account, however registrations, wallet logins and  *)
(* changes of profile interleave: create_user, update_profile.             *)
THEOREM EmailsSafe == Spec => []EmailsUnique
  <1>1. IInv => EmailsUnique
    BY DEF IInv
  <1>2. QED
    BY IInvHolds, <1>1, PTL

(* A wallet is logged in to an account it was linked to, and to no other:  *)
(* auth_wallet_login.                                                      *)
THEOREM LoginSafe == Spec => []LoginIsOwn
  <1>1. IInv => LoginIsOwn
    BY DEF IInv
  <1>2. QED
    BY IInvHolds, <1>1, PTL

(* Requests at one time exceed the limit of keys by fewer than there are   *)
(* of them: generate_api_key.                                              *)
THEOREM KeysBounded == Spec => []KeysNearLimit
  <1>1. IInv => KeysNearLimit
    <2> SUFFICES ASSUME IInv, NEW i \in Accounts
                 PROVE  Cardinality(Live(i)) < MaxKeys + Cardinality(Requests)
      BY DEF KeysNearLimit
    <2>1. i \in Nat /\ keys \in Seq(KeyRow)
      BY DEF IInv, Shapes, Accounts
    <2>2. QED
      <3>1. Cardinality(Live(i)) + Cardinality(Inserting(i)) < MaxKeys + Cardinality(Requests)
        BY <2>1 DEF IInv, KeysPromised
      <3>2. Cardinality(Live(i)) \in Nat /\ Cardinality(Inserting(i)) \in Nat
        BY <2>1, Finite
      <3>3. MaxKeys \in Nat /\ Cardinality(Requests) \in Nat
        BY FS_CardinalityType, AccountAssumption
      <3>4. QED
        BY <3>1, <3>2, <3>3
  <1>2. QED
    BY IInvHolds, <1>1, PTL

(* Nothing gets through with a key revoked before it came, nor more signed *)
(* requests than the limit under one spelling of the address:              *)
(* verify_api_key, verify_wallet_middleware.                               *)
THEOREM AdmissionSafe == Spec => []LetThrough
  <1>1. IInv => LetThrough
    BY DEF IInv, LetThrough, Admission, Limited, At
  <1>2. QED
    BY IInvHolds, <1>1, PTL

-----------------------------------------------------------------------------
(* MockLedger: the books, Redis, and the writes that wait.                 *)
(* The entries of the books, as writes names them.                         *)
KeyedByUser == {"user", "used", "rep", "rated"}
KeyedByWorker == {"dev", "coll", "strikes"}
Entries == (KeyedByUser \X Users) \cup (KeyedByWorker \X Workers) \cup ({"vault"} \X Ids)
           \cup {<<f, f>> : f \in Scalars}

(* What a book is: every entry of its type, the collateral whole cents.    *)
Holds == {NoHold} \cup [owner : Users, kind : {"freeze", "hold"}, amount : Nat]

Book(user, dev, vault, treasury, ids, coll, strikes, used, rep, rated, entries, score) ==
  [user |-> user, dev |-> dev, vault |-> vault, treasury |-> treasury, counter |-> ids,
   coll |-> coll, strikes |-> strikes, used |-> used, rep |-> rep, rated |-> rated,
   entries |-> entries, score |-> score]

IsBook(b) ==
  /\ b = Book(b.user, b.dev, b.vault, b.treasury, b.counter, b.coll, b.strikes, b.used,
              b.rep, b.rated, b.entries, b.score)
  /\ b.user \in [Users -> Nat] /\ b.dev \in [Workers -> Nat] /\ b.coll \in [Workers -> Nat]
  /\ b.vault \in [Ids -> Holds] /\ b.treasury \in Nat /\ b.counter \in Nat
  /\ b.strikes \in [Workers -> Nat] /\ b.used \in [Users -> BOOLEAN]
  /\ b.rep \in [Users -> Nat] /\ b.rated \in [Users -> Nat]
  /\ \A w \in Workers : b.coll[w] % Cent = 0

(* What is in Redis (s) when of the books (m) only the entries in q are    *)
(* still to be written:                                                    *)
(* everything else, except for what slashes did not save.                  *)
Waiting(W) == {W[n] : n \in 1..Len(W)}

Saves(s, m, q) ==
  /\ \A u \in Users : /\ <<"user", u>> \in q \/ s.user[u] = m.user[u]
                      /\ <<"used", u>> \in q \/ s.used[u] = m.used[u]
                      /\ <<"rep", u>> \in q \/ s.rep[u] = m.rep[u]
                      /\ <<"rated", u>> \in q \/ s.rated[u] = m.rated[u]
  /\ \A w \in Workers : <<"dev", w>> \in q \/ s.dev[w] = m.dev[w]
  /\ \A i \in Ids : <<"vault", i>> \in q \/ s.vault[i] = m.vault[i]
  /\ Whole("entries") \in q \/ s.entries = m.entries
  /\ Whole("score") \in q \/ s.score = m.score
  /\ Whole("counter") \in q \/ s.counter >= m.counter

SavesSlashes(s, m, q, slashed) ==
  /\ \A w \in Workers : <<"coll", w>> \in q \/ s.coll[w] - m.coll[w] \in 0..Slash * slashed
  /\ Whole("treasury") \in q \/ s.treasury <= m.treasury
  /\ slashed = 0 =>
       /\ Whole("treasury") \in q \/ s.treasury = m.treasury
       /\ \A w \in Workers : <<"strikes", w>> \in q \/ s.strikes[w] = m.strikes[w]

(* What takes money out of Redis is written before what puts money in.     *)
Money == {"user", "dev", "coll", "vault", "treasury"}
Amount(b, e) ==
  IF e[1] = "treasury" THEN b.treasury
  ELSE IF e[1] = "vault" THEN b.vault[e[2]].amount ELSE b[e[1]][e[2]]
Rises(s, m, e) == e[1] \in Money /\ Amount(s, e) < Amount(m, e)
Falls(s, m, e) == e[1] \in Money /\ Amount(s, e) > Amount(m, e)
FallsFirst(s, m, W) ==
  \A k, n \in 1..Len(W) : k < n /\ Rises(s, m, W[k]) => ~Falls(s, m, W[n])

(* The collateral that slashes took and Redis still has.                   *)
Gap(s, m, q) == [w \in Workers |-> IF <<"coll", w>> \in q THEN 0 ELSE s.coll[w] - m.coll[w]]
Limit(c) == c.seeded + Slash * c.slashed + Cent * c.settled
Bounded(p, s, m, q, limit) ==
  /\ Worth(s) <= limit
  /\ p => Worth(m) + SumFunctionOnSet(Gap(s, m, q), Workers) <= limit
  /\ ~p => Worth(m) <= limit /\ Worth(s) = 0

(* The types, and the invariant.  Without Redis nothing is ever saved.     *)
Counts == [ops : Nat, crashes : Nat, seeded : Nat, settled : Nat, slashed : Nat]

BookTypes ==
  /\ persistent \in BOOLEAN /\ IsBook(mem) /\ IsBook(saved)
  /\ writes \in Seq(Entries) /\ (~persistent => writes = <<>>)
  /\ count \in Counts

BInv ==
  /\ BookTypes
  /\ persistent => /\ Saves(saved, mem, Waiting(writes))
                   /\ SavesSlashes(saved, mem, Waiting(writes), count.slashed)
                   /\ FallsFirst(saved, mem, writes)
  /\ Bounded(persistent, saved, mem, Waiting(writes), Limit(count))

-----------------------------------------------------------------------------
(* Rounding; sums of which one term moves; the worth of two books.         *)
LEMMA CentsNear ==
  ASSUME NEW n \in Nat, NEW c \in Cents(n, 1)
  PROVE  c \in Nat /\ c % Cent = 0 /\ c - n \in -5..5
  BY DEF Cents, Nearest, Cent

LEMMA TaxFits ==
  ASSUME NEW n \in Nat, NEW c \in Tax(n)
  PROVE  c \in Nat /\ c <= n
  BY DEF Tax, Cents, Nearest, Cent

LEMMA BooksConstants ==
  /\ IsFiniteSet(Users) /\ IsFiniteSet(Workers) /\ IsFiniteSet(Ids)
  /\ Slash \in Nat /\ Stake \in Nat /\ Slash > 0 /\ Stake > 0 /\ Slash % Cent = 0
  /\ Stake % Cent = 0 /\ Seeds \subseteq Nat /\ Budgets \subseteq Nat \ {0} /\ Costs \subseteq Nat
<1>1. IsFiniteSet(Ids)
  <2>1. 1 \in Int /\ MaxIds \in Int
    BY LedgerAssumption
  <2>2. QED
    BY <2>1, FS_Interval DEF Ids
<1>2. QED
  BY <1>1, LedgerAssumption

(* g is f but for one term, which differs by d; or f itself.               *)
Moved(S, f, g, d) ==
  \/ d = 0 /\ \A x \in S : g[x] = f[x]
  \/ \E k \in S : g[k] = f[k] + d /\ \A x \in S : x # k => g[x] = f[x]

LEMMA SumMoved ==
  ASSUME NEW S, IsFiniteSet(S), NEW f, NEW g, \A x \in S : f[x] \in Int /\ g[x] \in Int,
         NEW d \in Int, Moved(S, f, g, d)
  PROVE  SumFunctionOnSet(g, S) = SumFunctionOnSet(f, S) + d /\ SumFunctionOnSet(f, S) \in Int
  <1>1. SumFunctionOnSet(f, S) \in Int
    BY SumRemoves
  <1>2. CASE d = 0 /\ \A x \in S : g[x] = f[x]
    <2>1. SumFunctionOnSet(g, S) = SumFunctionOnSet(f, S)
      BY <1>2, SumSame
    <2>2. QED
      BY <1>1, <1>2, <2>1
  <1>3. ASSUME NEW k \in S, g[k] = f[k] + d, \A x \in S : x # k => g[x] = f[x]
        PROVE  SumFunctionOnSet(g, S) = SumFunctionOnSet(f, S) + d
    <2>0. \A y \in S : f[y] \in Int /\ g[y] \in Int
      OBVIOUS
    <2>9. \A y \in S : y # k => g[y] = f[y]
      BY <1>3
    <2>1. SumFunctionOnSet(g, S) = SumFunctionOnSet(f, S) + g[k] - f[k]
      BY <2>0, <2>9, SumChange
    <2>2. f[k] \in Int /\ g[k] - f[k] = d
      BY <1>3
    <2>3. QED
      BY <1>1, <1>3, <2>1, <2>2
  <1>4. CASE \E k \in S : g[k] = f[k] + d /\ \A x \in S : x # k => g[x] = f[x]
    BY <1>1, <1>3, <1>4
  <1>5. QED
    BY <1>2, <1>4 DEF Moved

Held(b) == [i \in Ids |-> b.vault[i].amount]

LEMMA HeldType ==
  ASSUME NEW b, IsBook(b)
  PROVE  Held(b) \in [Ids -> Nat]
  BY DEF IsBook, Held, Holds, NoHold

LEMMA WorthMoved ==
  ASSUME NEW b, NEW c, IsBook(b), IsBook(c),
         NEW x1 \in Int, NEW x2 \in Int, NEW x3 \in Int, NEW x4 \in Int,
         Moved(Users, b.user, c.user, x1), Moved(Workers, b.dev, c.dev, x2),
         Moved(Workers, b.coll, c.coll, x3), Moved(Ids, Held(b), Held(c), x4)
  PROVE  /\ Worth(c) = Worth(b) + x1 + x2 + x3 + x4 + (c.treasury - b.treasury)
         /\ Worth(b) \in Int
  <1>1. /\ SumFunctionOnSet(c.user, Users) = SumFunctionOnSet(b.user, Users) + x1
        /\ SumFunctionOnSet(b.user, Users) \in Int
    <2>1. \A x \in Users : b.user[x] \in Int /\ c.user[x] \in Int
      BY DEF IsBook
    <2>2. QED
      BY <2>1, BooksConstants, SumMoved
  <1>2. /\ SumFunctionOnSet(c.dev, Workers) = SumFunctionOnSet(b.dev, Workers) + x2
        /\ SumFunctionOnSet(b.dev, Workers) \in Int
    <2>1. \A x \in Workers : b.dev[x] \in Int /\ c.dev[x] \in Int
      BY DEF IsBook
    <2>2. QED
      BY <2>1, BooksConstants, SumMoved
  <1>3. /\ SumFunctionOnSet(c.coll, Workers) = SumFunctionOnSet(b.coll, Workers) + x3
        /\ SumFunctionOnSet(b.coll, Workers) \in Int
    <2>1. \A x \in Workers : b.coll[x] \in Int /\ c.coll[x] \in Int
      BY DEF IsBook
    <2>2. QED
      BY <2>1, BooksConstants, SumMoved
  <1>4. /\ SumFunctionOnSet(Held(c), Ids) = SumFunctionOnSet(Held(b), Ids) + x4
        /\ SumFunctionOnSet(Held(b), Ids) \in Int
    <2>1. \A x \in Ids : Held(b)[x] \in Int /\ Held(c)[x] \in Int
      BY HeldType
    <2>2. QED
      BY <2>1, BooksConstants, SumMoved
  <1>5. b.treasury \in Nat /\ c.treasury \in Nat
    BY DEF IsBook
  <1>6. QED
    BY <1>1, <1>2, <1>3, <1>4, <1>5 DEF Worth, Held

LEMMA WorthIsInt ==
  ASSUME NEW b, IsBook(b)
  PROVE  Worth(b) \in Int
  <1>1. /\ Moved(Users, b.user, b.user, 0) /\ Moved(Workers, b.dev, b.dev, 0)
        /\ Moved(Workers, b.coll, b.coll, 0) /\ Moved(Ids, Held(b), Held(b), 0)
    BY DEF Moved
  <1>2. QED
    BY <1>1, WorthMoved

(* Entry by entry no more, but for x in the collateral.                    *)
LEMMA WorthWithin ==
  ASSUME NEW b, NEW c, IsBook(b), IsBook(c), NEW x \in [Workers -> Int],
         \A u \in Users : b.user[u] <= c.user[u], \A w \in Workers : b.dev[w] <= c.dev[w],
         \A w \in Workers : b.coll[w] <= c.coll[w] + x[w], b.treasury <= c.treasury,
         \A i \in Ids : b.vault[i].amount <= c.vault[i].amount
  PROVE  Worth(b) <= Worth(c) + SumFunctionOnSet(x, Workers)
  <1>1. /\ SumFunctionOnSet(b.user, Users) <= SumFunctionOnSet(c.user, Users)
        /\ SumFunctionOnSet(b.user, Users) \in Int /\ SumFunctionOnSet(c.user, Users) \in Int
    <2>1. \A u \in Users : b.user[u] \in Int /\ c.user[u] \in Int
      BY DEF IsBook
    <2>2. QED
      BY <2>1, BooksConstants, SumAtMost
  <1>2. /\ SumFunctionOnSet(b.dev, Workers) <= SumFunctionOnSet(c.dev, Workers)
        /\ SumFunctionOnSet(b.dev, Workers) \in Int /\ SumFunctionOnSet(c.dev, Workers) \in Int
    <2>1. \A u \in Workers : b.dev[u] \in Int /\ c.dev[u] \in Int
      BY DEF IsBook
    <2>2. QED
      BY <2>1, BooksConstants, SumAtMost
  <1>3. /\ SumFunctionOnSet(b.coll, Workers)
             <= SumFunctionOnSet(c.coll, Workers) + SumFunctionOnSet(x, Workers)
        /\ SumFunctionOnSet(b.coll, Workers) \in Int /\ SumFunctionOnSet(c.coll, Workers) \in Int
        /\ SumFunctionOnSet(x, Workers) \in Int
    <2> DEFINE h == [w \in Workers |-> c.coll[w] + x[w]]
    <2>1. \A w \in Workers : /\ b.coll[w] \in Int /\ c.coll[w] \in Int /\ x[w] \in Int
                             /\ h[w] \in Int /\ h[w] = c.coll[w] + x[w] /\ b.coll[w] <= h[w]
      BY DEF IsBook
    <2> HIDE DEF h
    <2>2. SumFunctionOnSet(h, Workers)
            = SumFunctionOnSet(c.coll, Workers) + SumFunctionOnSet(x, Workers)
      BY <2>1, BooksConstants, SumPlus
    <2>3. /\ SumFunctionOnSet(b.coll, Workers) <= SumFunctionOnSet(h, Workers)
          /\ SumFunctionOnSet(b.coll, Workers) \in Int
      BY <2>1, BooksConstants, SumAtMost
    <2>4. SumFunctionOnSet(c.coll, Workers) \in Int /\ SumFunctionOnSet(x, Workers) \in Int
      BY <2>1, BooksConstants, SumRemoves
    <2>5. QED
      BY <2>2, <2>3, <2>4
  <1>4. /\ SumFunctionOnSet(Held(b), Ids) <= SumFunctionOnSet(Held(c), Ids)
        /\ SumFunctionOnSet(Held(b), Ids) \in Int /\ SumFunctionOnSet(Held(c), Ids) \in Int
    <2>1. \A i \in Ids : Held(b)[i] \in Int /\ Held(c)[i] \in Int /\ Held(b)[i] <= Held(c)[i]
      BY HeldType DEF Held
    <2>2. QED
      BY <2>1, BooksConstants, SumAtMost
  <1>5. b.treasury \in Nat /\ c.treasury \in Nat
    BY DEF IsBook
  <1>6. QED
    BY <1>1, <1>2, <1>3, <1>4, <1>5 DEF Worth, Held

-----------------------------------------------------------------------------
(* One command: t is s but for the entry e, which is that of m.            *)
WrittenTo(s, m, e) ==
  IF e[1] \in Scalars THEN [s EXCEPT ![e[1]] = m[e[1]]]
                       ELSE [s EXCEPT ![e[1]][e[2]] = m[e[1]][e[2]]]

From(e, f, k, old, new) == IF e = <<f, k>> THEN new ELSE old

OneEntry(t, s, m, e) ==
  /\ \A u \in Users : /\ t.user[u] = From(e, "user", u, s.user[u], m.user[u])
                      /\ t.used[u] = From(e, "used", u, s.used[u], m.used[u])
                      /\ t.rep[u] = From(e, "rep", u, s.rep[u], m.rep[u])
                      /\ t.rated[u] = From(e, "rated", u, s.rated[u], m.rated[u])
  /\ \A w \in Workers : /\ t.dev[w] = From(e, "dev", w, s.dev[w], m.dev[w])
                        /\ t.coll[w] = From(e, "coll", w, s.coll[w], m.coll[w])
                        /\ t.strikes[w] = From(e, "strikes", w, s.strikes[w], m.strikes[w])
  /\ \A i \in Ids : t.vault[i] = From(e, "vault", i, s.vault[i], m.vault[i])
  /\ t.treasury = From(e, "treasury", "treasury", s.treasury, m.treasury)
  /\ t.counter = From(e, "counter", "counter", s.counter, m.counter)
  /\ t.entries = From(e, "entries", "entries", s.entries, m.entries)
  /\ t.score = From(e, "score", "score", s.score, m.score)

(* What a command of Redis makes of a book is a book, but for one entry.   *)
LEMMA WrittenIs ==
  ASSUME NEW s, NEW m, IsBook(s), IsBook(m), NEW e \in Entries
  PROVE  IsBook(WrittenTo(s, m, e)) /\ OneEntry(WrittenTo(s, m, e), s, m, e)
  <1>1. ASSUME NEW k \in Users, e = <<"user", k>>
        PROVE  IsBook(WrittenTo(s, m, e)) /\ OneEntry(WrittenTo(s, m, e), s, m, e)
    <2> DEFINE h == [s.user EXCEPT ![k] = m.user[k]]
               t == [user |-> h, dev |-> s.dev, vault |-> s.vault, treasury |-> s.treasury, counter
               |-> s.counter, coll |-> s.coll, strikes |-> s.strikes, used |-> s.used, rep
               |-> s.rep, rated |-> s.rated, entries |-> s.entries, score |-> s.score]
    <2>1. WrittenTo(s, m, e) = t
      <3>1. WrittenTo(s, m, e) = [s EXCEPT !.user[k] = m.user[k]]
        BY <1>1 DEF WrittenTo, Scalars
      <3>2. QED
        BY <3>1 DEF IsBook, Book
    <2>2. /\ s.user \in [Users -> Nat]
          /\ m.user[k] \in Nat
      BY DEF IsBook, Book
    <2>3. /\ h \in [Users -> Nat]
          /\ \A x \in Users : h[x] = From(e, "user", x, s.user[x], m.user[x])
      BY <1>1, <2>2 DEF From
    <2> HIDE DEF h
    <2>4. IsBook(t)
      BY <2>3 DEF IsBook, Book
    <2>5. OneEntry(t, s, m, e)
      BY <1>1, <2>3 DEF OneEntry, From
    <2>6. QED
      BY <2>1, <2>4, <2>5
  <1>2. ASSUME NEW k \in Users, e = <<"used", k>>
        PROVE  IsBook(WrittenTo(s, m, e)) /\ OneEntry(WrittenTo(s, m, e), s, m, e)
    <2> DEFINE h == [s.used EXCEPT ![k] = m.used[k]]
               t == [user |-> s.user, dev |-> s.dev, vault |-> s.vault, treasury |-> s.treasury,
               counter |-> s.counter, coll |-> s.coll, strikes |-> s.strikes, used |-> h, rep
               |-> s.rep, rated |-> s.rated, entries |-> s.entries, score |-> s.score]
    <2>1. WrittenTo(s, m, e) = t
      <3>1. WrittenTo(s, m, e) = [s EXCEPT !.used[k] = m.used[k]]
        BY <1>2 DEF WrittenTo, Scalars
      <3>2. QED
        BY <3>1 DEF IsBook, Book
    <2>2. /\ s.used \in [Users -> BOOLEAN]
          /\ m.used[k] \in BOOLEAN
      BY DEF IsBook, Book
    <2>3. /\ h \in [Users -> BOOLEAN]
          /\ \A x \in Users : h[x] = From(e, "used", x, s.used[x], m.used[x])
      BY <1>2, <2>2 DEF From
    <2> HIDE DEF h
    <2>4. IsBook(t)
      BY <2>3 DEF IsBook, Book
    <2>5. OneEntry(t, s, m, e)
      BY <1>2, <2>3 DEF OneEntry, From
    <2>6. QED
      BY <2>1, <2>4, <2>5
  <1>3. ASSUME NEW k \in Users, e = <<"rep", k>>
        PROVE  IsBook(WrittenTo(s, m, e)) /\ OneEntry(WrittenTo(s, m, e), s, m, e)
    <2> DEFINE h == [s.rep EXCEPT ![k] = m.rep[k]]
               t == [user |-> s.user, dev |-> s.dev, vault |-> s.vault, treasury |-> s.treasury,
               counter |-> s.counter, coll |-> s.coll, strikes |-> s.strikes, used |->
               s.used, rep |-> h, rated |-> s.rated, entries |-> s.entries, score |-> s.score]
    <2>1. WrittenTo(s, m, e) = t
      <3>1. WrittenTo(s, m, e) = [s EXCEPT !.rep[k] = m.rep[k]]
        BY <1>3 DEF WrittenTo, Scalars
      <3>2. QED
        BY <3>1 DEF IsBook, Book
    <2>2. /\ s.rep \in [Users -> Nat]
          /\ m.rep[k] \in Nat
      BY DEF IsBook, Book
    <2>3. /\ h \in [Users -> Nat]
          /\ \A x \in Users : h[x] = From(e, "rep", x, s.rep[x], m.rep[x])
      BY <1>3, <2>2 DEF From
    <2> HIDE DEF h
    <2>4. IsBook(t)
      BY <2>3 DEF IsBook, Book
    <2>5. OneEntry(t, s, m, e)
      BY <1>3, <2>3 DEF OneEntry, From
    <2>6. QED
      BY <2>1, <2>4, <2>5
  <1>4. ASSUME NEW k \in Users, e = <<"rated", k>>
        PROVE  IsBook(WrittenTo(s, m, e)) /\ OneEntry(WrittenTo(s, m, e), s, m, e)
    <2> DEFINE h == [s.rated EXCEPT ![k] = m.rated[k]]
               t == [user |-> s.user, dev |-> s.dev, vault |-> s.vault, treasury |-> s.treasury,
               counter |-> s.counter, coll |-> s.coll, strikes |-> s.strikes, used |->
               s.used, rep |-> s.rep, rated |-> h, entries |-> s.entries, score |-> s.score]
    <2>1. WrittenTo(s, m, e) = t
      <3>1. WrittenTo(s, m, e) = [s EXCEPT !.rated[k] = m.rated[k]]
        BY <1>4 DEF WrittenTo, Scalars
      <3>2. QED
        BY <3>1 DEF IsBook, Book
    <2>2. /\ s.rated \in [Users -> Nat]
          /\ m.rated[k] \in Nat
      BY DEF IsBook, Book
    <2>3. /\ h \in [Users -> Nat]
          /\ \A x \in Users : h[x] = From(e, "rated", x, s.rated[x], m.rated[x])
      BY <1>4, <2>2 DEF From
    <2> HIDE DEF h
    <2>4. IsBook(t)
      BY <2>3 DEF IsBook, Book
    <2>5. OneEntry(t, s, m, e)
      BY <1>4, <2>3 DEF OneEntry, From
    <2>6. QED
      BY <2>1, <2>4, <2>5
  <1>5. ASSUME NEW k \in Workers, e = <<"dev", k>>
        PROVE  IsBook(WrittenTo(s, m, e)) /\ OneEntry(WrittenTo(s, m, e), s, m, e)
    <2> DEFINE h == [s.dev EXCEPT ![k] = m.dev[k]]
               t == [user |-> s.user, dev |-> h, vault |-> s.vault, treasury |-> s.treasury,
               counter |-> s.counter, coll |-> s.coll, strikes |-> s.strikes, used |->
               s.used, rep |-> s.rep, rated |-> s.rated, entries |-> s.entries, score |->
               s.score]
    <2>1. WrittenTo(s, m, e) = t
      <3>1. WrittenTo(s, m, e) = [s EXCEPT !.dev[k] = m.dev[k]]
        BY <1>5 DEF WrittenTo, Scalars
      <3>2. QED
        BY <3>1 DEF IsBook, Book
    <2>2. /\ s.dev \in [Workers -> Nat]
          /\ m.dev[k] \in Nat
      BY DEF IsBook, Book
    <2>3. /\ h \in [Workers -> Nat]
          /\ \A x \in Workers : h[x] = From(e, "dev", x, s.dev[x], m.dev[x])
      BY <1>5, <2>2 DEF From
    <2> HIDE DEF h
    <2>4. IsBook(t)
      BY <2>3 DEF IsBook, Book
    <2>5. OneEntry(t, s, m, e)
      BY <1>5, <2>3 DEF OneEntry, From
    <2>6. QED
      BY <2>1, <2>4, <2>5
  <1>6. ASSUME NEW k \in Workers, e = <<"coll", k>>
        PROVE  IsBook(WrittenTo(s, m, e)) /\ OneEntry(WrittenTo(s, m, e), s, m, e)
    <2> DEFINE h == [s.coll EXCEPT ![k] = m.coll[k]]
               t == [user |-> s.user, dev |-> s.dev, vault |-> s.vault, treasury |-> s.treasury,
               counter |-> s.counter, coll |-> h, strikes |-> s.strikes, used |-> s.used, rep
               |-> s.rep, rated |-> s.rated, entries |-> s.entries, score |-> s.score]
    <2>1. WrittenTo(s, m, e) = t
      <3>1. WrittenTo(s, m, e) = [s EXCEPT !.coll[k] = m.coll[k]]
        BY <1>6 DEF WrittenTo, Scalars
      <3>2. QED
        BY <3>1 DEF IsBook, Book
    <2>2. /\ s.coll \in [Workers -> Nat]
          /\ m.coll[k] \in Nat
      BY DEF IsBook, Book
    <2>3. /\ h \in [Workers -> Nat]
          /\ \A x \in Workers : h[x] = From(e, "coll", x, s.coll[x], m.coll[x])
      BY <1>6, <2>2 DEF From
    <2> HIDE DEF h
    <2>4. IsBook(t)
      BY <2>3, <1>6 DEF IsBook, Book, From
    <2>5. OneEntry(t, s, m, e)
      BY <1>6, <2>3 DEF OneEntry, From
    <2>6. QED
      BY <2>1, <2>4, <2>5
  <1>7. ASSUME NEW k \in Workers, e = <<"strikes", k>>
        PROVE  IsBook(WrittenTo(s, m, e)) /\ OneEntry(WrittenTo(s, m, e), s, m, e)
    <2> DEFINE h == [s.strikes EXCEPT ![k] = m.strikes[k]]
               t == [user |-> s.user, dev |-> s.dev, vault |-> s.vault, treasury |-> s.treasury,
               counter |-> s.counter, coll |-> s.coll, strikes |-> h, used |-> s.used, rep
               |-> s.rep, rated |-> s.rated, entries |-> s.entries, score |-> s.score]
    <2>1. WrittenTo(s, m, e) = t
      <3>1. WrittenTo(s, m, e) = [s EXCEPT !.strikes[k] = m.strikes[k]]
        BY <1>7 DEF WrittenTo, Scalars
      <3>2. QED
        BY <3>1 DEF IsBook, Book
    <2>2. /\ s.strikes \in [Workers -> Nat]
          /\ m.strikes[k] \in Nat
      BY DEF IsBook, Book
    <2>3. /\ h \in [Workers -> Nat]
          /\ \A x \in Workers : h[x] = From(e, "strikes", x, s.strikes[x], m.strikes[x])
      BY <1>7, <2>2 DEF From
    <2> HIDE DEF h
    <2>4. IsBook(t)
      BY <2>3 DEF IsBook, Book
    <2>5. OneEntry(t, s, m, e)
      BY <1>7, <2>3 DEF OneEntry, From
    <2>6. QED
      BY <2>1, <2>4, <2>5
  <1>8. ASSUME NEW k \in Ids, e = <<"vault", k>>
        PROVE  IsBook(WrittenTo(s, m, e)) /\ OneEntry(WrittenTo(s, m, e), s, m, e)
    <2> DEFINE h == [s.vault EXCEPT ![k] = m.vault[k]]
               t == [user |-> s.user, dev |-> s.dev, vault |-> h, treasury |-> s.treasury, counter
               |-> s.counter, coll |-> s.coll, strikes |-> s.strikes, used |-> s.used, rep
               |-> s.rep, rated |-> s.rated, entries |-> s.entries, score |-> s.score]
    <2>1. WrittenTo(s, m, e) = t
      <3>1. WrittenTo(s, m, e) = [s EXCEPT !.vault[k] = m.vault[k]]
        BY <1>8 DEF WrittenTo, Scalars
      <3>2. QED
        BY <3>1 DEF IsBook, Book
    <2>2. /\ s.vault \in [Ids -> Holds]
          /\ m.vault[k] \in Holds
      BY DEF IsBook, Book
    <2>3. /\ h \in [Ids -> Holds]
          /\ \A x \in Ids : h[x] = From(e, "vault", x, s.vault[x], m.vault[x])
      BY <1>8, <2>2 DEF From
    <2> HIDE DEF h
    <2>4. IsBook(t)
      BY <2>3 DEF IsBook, Book
    <2>5. OneEntry(t, s, m, e)
      BY <1>8, <2>3 DEF OneEntry, From
    <2>6. QED
      BY <2>1, <2>4, <2>5
  <1>9. CASE e = <<"treasury", "treasury">>
    <2>1. WrittenTo(s, m, e) = [s EXCEPT !.treasury = m.treasury]
      BY <1>9 DEF WrittenTo, Scalars
    <2>2. QED
      BY <1>9, <2>1 DEF OneEntry, From, IsBook, Book
  <1>10. CASE e = <<"counter", "counter">>
    <2>1. WrittenTo(s, m, e) = [s EXCEPT !.counter = m.counter]
      BY <1>10 DEF WrittenTo, Scalars
    <2>2. QED
      BY <1>10, <2>1 DEF OneEntry, From, IsBook, Book
  <1>11. CASE e = <<"entries", "entries">>
    <2>1. WrittenTo(s, m, e) = [s EXCEPT !.entries = m.entries]
      BY <1>11 DEF WrittenTo, Scalars
    <2>2. QED
      BY <1>11, <2>1 DEF OneEntry, From, IsBook, Book
  <1>12. CASE e = <<"score", "score">>
    <2>1. WrittenTo(s, m, e) = [s EXCEPT !.score = m.score]
      BY <1>12 DEF WrittenTo, Scalars
    <2>2. QED
      BY <1>12, <2>1 DEF OneEntry, From, IsBook, Book
  <1>13. QED
    BY <1>1, <1>2, <1>3, <1>4, <1>5, <1>6, <1>7, <1>8, <1>9, <1>10, <1>11, <1>12
       DEF Entries, KeyedByUser, KeyedByWorker, Scalars

LEMMA AfterHead ==
  ASSUME NEW W \in Seq(Entries), W # <<>>
  PROVE  /\ Head(W) \in Entries /\ Tail(W) \in Seq(Entries)
         /\ Len(W) >= 1 /\ Head(W) = W[1] /\ Len(Tail(W)) = Len(W) - 1
         /\ \A n \in 1..Len(Tail(W)) : Tail(W)[n] = W[n + 1]
         /\ \A e \in Waiting(W) : e = Head(W) \/ e \in Waiting(Tail(W))
         /\ \A e \in Waiting(Tail(W)) : e \in Waiting(W)
  <1>1. /\ Head(W) \in Entries /\ Tail(W) \in Seq(Entries)
        /\ Len(W) >= 1 /\ Head(W) = W[1] /\ Len(Tail(W)) = Len(W) - 1
        /\ \A n \in 1..Len(Tail(W)) : Tail(W)[n] = W[n + 1]
    BY HeadTailProperties
  <1>2. ASSUME NEW e \in Waiting(W) PROVE e = Head(W) \/ e \in Waiting(Tail(W))
    <2>1. PICK n \in 1..Len(W) : e = W[n]
      BY DEF Waiting
    <2>2. CASE n = 1
      BY <1>1, <2>1, <2>2
    <2>3. CASE n # 1
      <3>1. n - 1 \in 1..Len(Tail(W)) /\ Tail(W)[n - 1] = e
        BY <1>1, <2>1, <2>3
      <3>2. QED
        BY <3>1 DEF Waiting
    <2>4. QED
      BY <2>2, <2>3
  <1>3. ASSUME NEW e \in Waiting(Tail(W)) PROVE e \in Waiting(W)
    <2>1. PICK n \in 1..Len(Tail(W)) : e = Tail(W)[n]
      BY DEF Waiting
    <2>2. n + 1 \in 1..Len(W) /\ W[n + 1] = e
      BY <1>1, <2>1
    <2>3. QED
      BY <2>2 DEF Waiting
  <1>4. QED
    BY <1>1, <1>2, <1>3

LEMMA MoneyEntry ==
  ASSUME NEW x \in Entries, x[1] \in Money
  PROVE  \/ \E u \in Users : x = <<"user", u>>
         \/ \E w \in Workers : x = <<"dev", w>>
         \/ \E w \in Workers : x = <<"coll", w>>
         \/ \E i \in Ids : x = <<"vault", i>>
         \/ x = <<"treasury", "treasury">>
  BY DEF Entries, KeyedByUser, KeyedByWorker, Scalars, Money

LEMMA AmountIs ==
  ASSUME NEW b
  PROVE  /\ \A u : Amount(b, <<"user", u>>) = b.user[u] /\ <<"user", u>>[1] \in Money
         /\ \A w : Amount(b, <<"dev", w>>) = b.dev[w] /\ <<"dev", w>>[1] \in Money
         /\ \A w : Amount(b, <<"coll", w>>) = b.coll[w] /\ <<"coll", w>>[1] \in Money
         /\ \A i : Amount(b, <<"vault", i>>) = b.vault[i].amount /\ <<"vault", i>>[1] \in Money
         /\ Amount(b, <<"treasury", "treasury">>) = b.treasury
         /\ <<"treasury", "treasury">>[1] \in Money
  BY DEF Amount, Money

LEMMA AmountNat ==
  ASSUME NEW b, IsBook(b), NEW x \in Entries, x[1] \in Money
  PROVE  Amount(b, x) \in Nat
  <1>1. ASSUME NEW u \in Users, x = <<"user", u>> PROVE Amount(b, x) \in Nat
    BY <1>1 DEF Amount, IsBook
  <1>2. ASSUME NEW w \in Workers, x = <<"dev", w>> PROVE Amount(b, x) \in Nat
    BY <1>2 DEF Amount, IsBook
  <1>3. ASSUME NEW w \in Workers, x = <<"coll", w>> PROVE Amount(b, x) \in Nat
    BY <1>3 DEF Amount, IsBook
  <1>4. ASSUME NEW i \in Ids, x = <<"vault", i>> PROVE Amount(b, x) \in Nat
    <2>1. b.vault[i] \in Holds
      BY DEF IsBook
    <2>2. b.vault[i].amount \in Nat
      BY <2>1 DEF Holds, NoHold
    <2>3. QED
      BY <1>4, <2>2 DEF Amount
  <1>5. CASE x = <<"treasury", "treasury">>
    BY <1>5 DEF Amount, IsBook
  <1>6. QED
    BY <1>1, <1>2, <1>3, <1>4, <1>5, MoneyEntry

LEMMA AmountWritten ==
  ASSUME NEW t, NEW s, NEW m, NEW e \in Entries, NEW x \in Entries, x[1] \in Money,
         OneEntry(t, s, m, e)
  PROVE  Amount(t, x) = IF x = e THEN Amount(m, x) ELSE Amount(s, x)
  <1>1. ASSUME NEW u \in Users, x = <<"user", u>>
        PROVE  Amount(t, x) = IF x = e THEN Amount(m, x) ELSE Amount(s, x)
    BY <1>1 DEF Amount, OneEntry, From
  <1>2. ASSUME NEW w \in Workers, x = <<"dev", w>>
        PROVE  Amount(t, x) = IF x = e THEN Amount(m, x) ELSE Amount(s, x)
    BY <1>2 DEF Amount, OneEntry, From
  <1>3. ASSUME NEW w \in Workers, x = <<"coll", w>>
        PROVE  Amount(t, x) = IF x = e THEN Amount(m, x) ELSE Amount(s, x)
    BY <1>3 DEF Amount, OneEntry, From
  <1>4. ASSUME NEW i \in Ids, x = <<"vault", i>>
        PROVE  Amount(t, x) = IF x = e THEN Amount(m, x) ELSE Amount(s, x)
    BY <1>4 DEF Amount, OneEntry, From
  <1>5. CASE x = <<"treasury", "treasury">>
    BY <1>5 DEF Amount, OneEntry, From
  <1>6. QED
    BY <1>1, <1>2, <1>3, <1>4, <1>5, MoneyEntry

(* A write keeps what it must, of a sequence W that begins with it.        *)
LEMMA WrittenSaves ==
  ASSUME NEW s, NEW m, IsBook(s), IsBook(m), NEW W \in Seq(Entries), W # <<>>,
         NEW slashed \in Nat,
         Saves(s, m, Waiting(W)), SavesSlashes(s, m, Waiting(W), slashed), FallsFirst(s, m, W),
         NEW t, OneEntry(t, s, m, Head(W))
  PROVE  /\ Saves(t, m, Waiting(Tail(W)))
         /\ SavesSlashes(t, m, Waiting(Tail(W)), slashed)
         /\ FallsFirst(t, m, Tail(W))
  <1> DEFINE e == Head(W)
             q == Waiting(W)
             r == Waiting(Tail(W))
  <1>1. e \in Entries /\ \A x : x \in q => x = e \/ x \in r
    BY AfterHead
  <1>2. Slash * slashed \in Nat
    BY BooksConstants
  <1>3. Saves(s, m, q) /\ SavesSlashes(s, m, q, slashed) /\ OneEntry(t, s, m, e)
    OBVIOUS
  <1>4. /\ m.counter \in Nat /\ m.treasury \in Nat /\ \A w \in Workers : m.coll[w] \in Nat
    BY DEF IsBook
  <1>5. FallsFirst(t, m, Tail(W))
    <2> SUFFICES ASSUME NEW k \in 1..Len(Tail(W)), NEW n \in 1..Len(Tail(W)), k < n,
                        Rises(t, m, Tail(W)[k]), Falls(t, m, Tail(W)[n])
                 PROVE  FALSE
      BY DEF FallsFirst
    <2>1. /\ k + 1 \in 1..Len(W) /\ n + 1 \in 1..Len(W) /\ k + 1 < n + 1
          /\ Tail(W)[k] = W[k + 1] /\ Tail(W)[n] = W[n + 1]
          /\ W[k + 1] \in Entries /\ W[n + 1] \in Entries
      BY AfterHead
    <2>2. Amount(t, W[k + 1]) = IF W[k + 1] = e THEN Amount(m, W[k + 1]) ELSE Amount(s, W[k + 1])
      BY <1>1, <2>1, AmountWritten DEF Rises
    <2>3. Amount(t, W[n + 1]) = IF W[n + 1] = e THEN Amount(m, W[n + 1]) ELSE Amount(s, W[n + 1])
      BY <1>1, <2>1, AmountWritten DEF Falls
    <2>4. \A x \in Entries : x[1] \in Money => Amount(m, x) \in Int
      BY AmountNat
    <2>5. Rises(s, m, W[k + 1]) /\ Falls(s, m, W[n + 1])
      BY <2>1, <2>2, <2>3, <2>4 DEF Rises, Falls
    <2>6. QED
      BY <2>1, <2>5 DEF FallsFirst
  <1> HIDE DEF e, q, r
  <1>6. Saves(t, m, r)
    BY <1>1, <1>3, <1>4 DEF Saves, OneEntry, From, Whole
  <1>7. SavesSlashes(t, m, r, slashed)
    BY <1>1, <1>2, <1>3, <1>4 DEF SavesSlashes, OneEntry, From, Whole
  <1>8. QED
    BY <1>5, <1>6, <1>7 DEF r

LEMMA WrittenBounded ==
  ASSUME NEW s, NEW m, NEW t, IsBook(s), IsBook(m), IsBook(t),
         NEW W \in Seq(Entries), W # <<>>, NEW slashed \in Nat, NEW limit \in Int,
         Saves(s, m, Waiting(W)), SavesSlashes(s, m, Waiting(W), slashed), FallsFirst(s, m, W),
         Bounded(TRUE, s, m, Waiting(W), limit), OneEntry(t, s, m, Head(W))
  PROVE  Bounded(TRUE, t, m, Waiting(Tail(W)), limit)
  <1> DEFINE e == Head(W)
             q == Waiting(W)
             r == Waiting(Tail(W))
             zero == [w \in Workers |-> 0]
  <1>1. /\ e \in Entries /\ e \in q /\ (\A x : x \in q => x = e \/ x \in r)
        /\ \A x \in r : x \in q
    <2>1. Len(W) >= 1 /\ e = W[1] /\ Len(W) \in Nat
      BY AfterHead
    <2>2. e \in q
      BY <2>1 DEF Waiting
    <2>3. QED
      BY <2>2, AfterHead
  <1>2. \A x \in q : Rises(s, m, e) => ~Falls(s, m, x)
    <2> SUFFICES ASSUME NEW n \in 1..Len(W), Rises(s, m, e), Falls(s, m, W[n]) PROVE FALSE
      BY DEF Waiting
    <2>1. Len(W) >= 1 /\ e = W[1] /\ Len(W) \in Nat
      BY AfterHead
    <2>2. CASE n = 1
      <3>1. Amount(s, e) \in Nat /\ Amount(m, e) \in Nat
        BY <1>1, AmountNat DEF Rises
      <3>2. QED
        BY <2>1, <2>2, <3>1 DEF Rises, Falls
    <2>3. CASE n # 1
      BY <2>1, <2>3 DEF FallsFirst
    <2>4. QED
      BY <2>2, <2>3
  <1>3. /\ Saves(s, m, q) /\ SavesSlashes(s, m, q, slashed) /\ OneEntry(t, s, m, e)
        /\ Bounded(TRUE, s, m, q, limit)
    OBVIOUS
  <1> HIDE DEF e, q, r
  <1>4. /\ \A w \in Workers : s.coll[w] \in Nat /\ m.coll[w] \in Nat /\ t.coll[w] \in Nat
        /\ \A w \in Workers : s.dev[w] \in Nat /\ m.dev[w] \in Nat /\ t.dev[w] \in Nat
        /\ \A u \in Users : s.user[u] \in Nat /\ m.user[u] \in Nat /\ t.user[u] \in Nat
        /\ s.treasury \in Nat /\ m.treasury \in Nat /\ t.treasury \in Nat
    BY DEF IsBook
  <1>5. \A i \in Ids : /\ s.vault[i].amount \in Nat /\ m.vault[i].amount \in Nat
                       /\ t.vault[i].amount \in Nat
    BY HeldType DEF Held
  <1>6. /\ Gap(s, m, q) \in [Workers -> Int] /\ Gap(t, m, r) \in [Workers -> Int]
        /\ SumFunctionOnSet(Gap(t, m, r), Workers) = SumFunctionOnSet(Gap(s, m, q), Workers)
        /\ SumFunctionOnSet(Gap(s, m, q), Workers) \in Int
    <2>1. Gap(s, m, q) \in [Workers -> Int] /\ Gap(t, m, r) \in [Workers -> Int]
      BY <1>4 DEF Gap
    <2>2. \A w \in Workers : Gap(t, m, r)[w] = Gap(s, m, q)[w]
      BY <1>1, <1>3, <1>4 DEF Gap, OneEntry, From
    <2>3. \A w \in Workers : Gap(t, m, r)[w] \in Int /\ Gap(s, m, q)[w] \in Int
      BY <2>1
    <2>4. QED
      BY <2>1, <2>2, <2>3, BooksConstants, SumSame, SumRemoves
  <1>7. CASE Rises(s, m, e)
    <2>1. \A u \in Users : t.user[u] <= m.user[u]
      <3> SUFFICES ASSUME NEW u \in Users PROVE t.user[u] <= m.user[u]
        OBVIOUS
      <3>1. <<"user", u>> \in q => s.user[u] <= m.user[u]
        BY <1>2, <1>4, <1>7, AmountIs DEF Falls
      <3>2. <<"user", u>> \in q \/ s.user[u] = m.user[u]
        BY <1>3 DEF Saves
      <3>3. t.user[u] = s.user[u] \/ t.user[u] = m.user[u]
        BY <1>3 DEF OneEntry, From
      <3>4. QED
        BY <1>4, <3>1, <3>2, <3>3
    <2>2. \A w \in Workers : t.dev[w] <= m.dev[w]
      <3> SUFFICES ASSUME NEW w \in Workers PROVE t.dev[w] <= m.dev[w]
        OBVIOUS
      <3>1. <<"dev", w>> \in q => s.dev[w] <= m.dev[w]
        BY <1>2, <1>4, <1>7, AmountIs DEF Falls
      <3>2. <<"dev", w>> \in q \/ s.dev[w] = m.dev[w]
        BY <1>3 DEF Saves
      <3>3. t.dev[w] = s.dev[w] \/ t.dev[w] = m.dev[w]
        BY <1>3 DEF OneEntry, From
      <3>4. QED
        BY <1>4, <3>1, <3>2, <3>3
    <2>3. \A w \in Workers : t.coll[w] <= m.coll[w] + Gap(s, m, q)[w]
      <3> SUFFICES ASSUME NEW w \in Workers PROVE t.coll[w] <= m.coll[w] + Gap(s, m, q)[w]
        OBVIOUS
      <3>1. <<"coll", w>> \in q => s.coll[w] <= m.coll[w]
        BY <1>2, <1>4, <1>7, AmountIs DEF Falls
      <3>2. Gap(s, m, q)[w] = IF <<"coll", w>> \in q THEN 0 ELSE s.coll[w] - m.coll[w]
        BY DEF Gap
      <3>3. t.coll[w] = s.coll[w] \/ (<<"coll", w>> \in q /\ t.coll[w] = m.coll[w])
        BY <1>1, <1>3 DEF OneEntry, From
      <3>4. QED
        BY <1>4, <3>1, <3>2, <3>3
    <2>4. t.treasury <= m.treasury
      <3>1. <<"treasury", "treasury">> \in q => s.treasury <= m.treasury
        BY <1>2, <1>4, <1>7, AmountIs DEF Falls
      <3>2. QED
        BY <1>3, <1>4, <3>1 DEF SavesSlashes, OneEntry, From, Whole
    <2>5. \A i \in Ids : t.vault[i].amount <= m.vault[i].amount
      <3> SUFFICES ASSUME NEW i \in Ids PROVE t.vault[i].amount <= m.vault[i].amount
        OBVIOUS
      <3>1. <<"vault", i>> \in q => s.vault[i].amount <= m.vault[i].amount
        BY <1>2, <1>5, <1>7, AmountIs DEF Falls
      <3>2. QED
        BY <1>3, <1>5, <3>1 DEF Saves, OneEntry, From
    <2>6. Worth(t) <= Worth(m) + SumFunctionOnSet(Gap(s, m, q), Workers)
      BY <1>6, <2>1, <2>2, <2>3, <2>4, <2>5, WorthWithin
    <2>7. Worth(t) \in Int /\ Worth(m) \in Int
      BY WorthIsInt
    <2>8. QED
      BY <1>3, <1>6, <2>6, <2>7 DEF Bounded, r
  <1>8. CASE ~Rises(s, m, e)
    <2>1. e[1] \in Money => Amount(m, e) <= Amount(s, e)
      <3>1. e[1] \in Money => Amount(m, e) \in Nat /\ Amount(s, e) \in Nat
        BY <1>1, AmountNat
      <3>2. QED
        BY <1>8, <3>1 DEF Rises
    <2>2. \A u \in Users : t.user[u] <= s.user[u]
      BY <1>3, <1>4, <2>1 DEF Amount, Money, OneEntry, From
    <2>3. \A w \in Workers : t.dev[w] <= s.dev[w]
      BY <1>3, <1>4, <2>1 DEF Amount, Money, OneEntry, From
    <2>4. \A w \in Workers : t.coll[w] <= s.coll[w] + zero[w]
      BY <1>3, <1>4, <2>1 DEF Amount, Money, OneEntry, From
    <2>5. t.treasury <= s.treasury
      BY <1>3, <1>4, <2>1 DEF Amount, Money, OneEntry, From
    <2>6. \A i \in Ids : t.vault[i].amount <= s.vault[i].amount
      BY <1>3, <1>5, <2>1 DEF Amount, Money, OneEntry, From
    <2>7. zero \in [Workers -> Int] /\ \A w \in Workers : zero[w] = 0
      OBVIOUS
    <2> HIDE DEF zero
    <2>8. Worth(t) <= Worth(s) + SumFunctionOnSet(zero, Workers)
      BY <2>2, <2>3, <2>4, <2>5, <2>6, <2>7, WorthWithin
    <2>9. SumFunctionOnSet(zero, Workers) = 0
      BY <2>7, BooksConstants, SumZero
    <2>10. Worth(t) \in Int /\ Worth(s) \in Int
      BY WorthIsInt
    <2>11. QED
      BY <1>3, <1>6, <2>8, <2>9, <2>10 DEF Bounded, r
  <1>9. QED
    BY <1>7, <1>8

-----------------------------------------------------------------------------
(* An operation changes only the entries that it goes on to write.         *)
Changes(m, n, q) ==
  /\ \A u \in Users : /\ <<"user", u>> \in q \/ n.user[u] = m.user[u]
                      /\ <<"used", u>> \in q \/ n.used[u] = m.used[u]
                      /\ <<"rep", u>> \in q \/ n.rep[u] = m.rep[u]
                      /\ <<"rated", u>> \in q \/ n.rated[u] = m.rated[u]
  /\ \A w \in Workers : /\ <<"dev", w>> \in q \/ n.dev[w] = m.dev[w]
                        /\ <<"coll", w>> \in q \/ n.coll[w] = m.coll[w]
                        /\ <<"strikes", w>> \in q \/ n.strikes[w] = m.strikes[w]
  /\ \A i \in Ids : <<"vault", i>> \in q \/ n.vault[i] = m.vault[i]
  /\ Whole("treasury") \in q \/ n.treasury = m.treasury
  /\ Whole("counter") \in q \/ n.counter = m.counter
  /\ Whole("entries") \in q \/ n.entries = m.entries
  /\ Whole("score") \in q \/ n.score = m.score

LEMMA NothingWaits == Waiting(<<>>) = {}
  BY DEF Waiting

LEMMA LimitType ==
  ASSUME NEW c \in Counts
  PROVE  Limit(c) \in Int
  <1>1. c.seeded \in Nat /\ c.settled \in Nat /\ c.slashed \in Nat /\ Cent * c.settled \in Nat
    BY DEF Counts, Cent
  <1>2. Slash * c.slashed \in Nat
    BY <1>1, BooksConstants
  <1>3. QED
    BY <1>1, <1>2 DEF Limit

LEMMA GapSum ==
  ASSUME NEW s, NEW m, IsBook(s), IsBook(m), NEW q
  PROVE  /\ Gap(s, m, q) \in [Workers -> Int]
         /\ SumFunctionOnSet(Gap(s, m, q), Workers) \in Int
  <1>1. Gap(s, m, q) \in [Workers -> Int]
    BY DEF Gap, IsBook
  <1>2. \A w \in Workers : Gap(s, m, q)[w] \in Int
    BY <1>1
  <1>3. QED
    BY <1>1, <1>2, BooksConstants, SumRemoves

LEMMA GapShrinks ==
  ASSUME NEW s, NEW m, NEW n, IsBook(s), IsBook(m), IsBook(n), NEW q, NEW slashed \in Nat,
         SavesSlashes(s, m, {}, slashed), Changes(m, n, q)
  PROVE  SumFunctionOnSet(Gap(s, n, q), Workers) <= SumFunctionOnSet(Gap(s, m, {}), Workers)
  <1>1. \A w \in Workers : /\ Gap(s, n, q)[w] \in Int /\ Gap(s, m, {})[w] \in Int
                           /\ Gap(s, n, q)[w] <= Gap(s, m, {})[w]
    <2> SUFFICES ASSUME NEW w \in Workers
                 PROVE  /\ Gap(s, n, q)[w] \in Int /\ Gap(s, m, {})[w] \in Int
                        /\ Gap(s, n, q)[w] <= Gap(s, m, {})[w]
      OBVIOUS
    <2>1. s.coll[w] \in Nat /\ m.coll[w] \in Nat /\ n.coll[w] \in Nat /\ Slash * slashed \in Nat
      BY BooksConstants DEF IsBook
    <2>2. s.coll[w] - m.coll[w] \in 0..Slash * slashed
      BY DEF SavesSlashes
    <2>3. <<"coll", w>> \in q \/ n.coll[w] = m.coll[w]
      BY DEF Changes
    <2>4. QED
      BY <2>1, <2>2, <2>3 DEF Gap
  <1>2. QED
    BY <1>1, BooksConstants, SumAtMost

LEMMA OperationKeeps ==
  ASSUME BInv, NEW W \in Seq(Entries), writes = <<>>,
         saved' = saved, persistent' = persistent,
         IsBook(mem'), writes' = IF persistent THEN W ELSE <<>>,
         Changes(mem, mem', Waiting(W)), persistent => FallsFirst(saved, mem', W),
         count' \in Counts, count'.slashed = count.slashed,
         NEW d \in Int, Worth(mem') = Worth(mem) + d,
         NEW l \in Nat, Limit(count') - Limit(count) = l, d <= l
  PROVE  BInv'
  <1>1. /\ persistent \in BOOLEAN /\ IsBook(mem) /\ IsBook(saved) /\ count.slashed \in Nat
        /\ Limit(count) \in Int /\ Limit(count') \in Int
    <2>1. count \in Counts /\ count' \in Counts
      BY DEF BInv, BookTypes
    <2>2. count.slashed \in Nat /\ Limit(count) \in Int /\ Limit(count') \in Int
      BY <2>1, LimitType DEF Counts
    <2>3. QED
      BY <2>2 DEF BInv, BookTypes
  <1>2. /\ Bounded(persistent, saved, mem, {}, Limit(count))
        /\ persistent => /\ Saves(saved, mem, {})
                         /\ SavesSlashes(saved, mem, {}, count.slashed)
    BY NothingWaits DEF BInv
  <1>3. Worth(mem) \in Int /\ Worth(mem') \in Int /\ Worth(saved) \in Int
    BY <1>1, WorthIsInt
  <1>4. CASE persistent
    <2>1. Saves(saved, mem', Waiting(W))
      <3>1. saved.counter \in Nat /\ mem.counter \in Nat /\ mem'.counter \in Nat
        BY <1>1 DEF IsBook
      <3>2. Saves(saved, mem, {})
        BY <1>2, <1>4
      <3>3. Whole("counter") \in Waiting(W) \/ saved.counter >= mem'.counter
        BY <3>1, <3>2 DEF Saves, Changes
      <3>4. QED
        <4>1. \A u \in Users : /\ <<"user", u>> \in Waiting(W) \/ saved.user[u] = mem'.user[u]
                               /\ <<"used", u>> \in Waiting(W) \/ saved.used[u] = mem'.used[u]
                               /\ <<"rep", u>> \in Waiting(W) \/ saved.rep[u] = mem'.rep[u]
                               /\ <<"rated", u>> \in Waiting(W)
                                    \/ saved.rated[u] = mem'.rated[u]
          BY <3>2 DEF Saves, Changes
        <4>2. \A w \in Workers : <<"dev", w>> \in Waiting(W) \/ saved.dev[w] = mem'.dev[w]
          BY <3>2 DEF Saves, Changes
        <4>3. \A i \in Ids : <<"vault", i>> \in Waiting(W) \/ saved.vault[i] = mem'.vault[i]
          BY <3>2 DEF Saves, Changes
        <4>4. /\ Whole("entries") \in Waiting(W) \/ saved.entries = mem'.entries
              /\ Whole("score") \in Waiting(W) \/ saved.score = mem'.score
          BY <3>2 DEF Saves, Changes
        <4>5. QED
          BY <3>3, <4>1, <4>2, <4>3, <4>4 DEF Saves
    <2>2. SavesSlashes(saved, mem', Waiting(W), count'.slashed)
      BY <1>2, <1>4 DEF SavesSlashes, Changes
    <2>3. SumFunctionOnSet(Gap(saved, mem', Waiting(W)), Workers)
            <= SumFunctionOnSet(Gap(saved, mem, {}), Workers)
      BY <1>1, <1>2, <1>4, GapShrinks
    <2>4. /\ SumFunctionOnSet(Gap(saved, mem', Waiting(W)), Workers) \in Int
          /\ SumFunctionOnSet(Gap(saved, mem, {}), Workers) \in Int
      BY <1>1, GapSum
    <2>5. Bounded(persistent', saved', mem', Waiting(W), Limit(count'))
      <3>1. /\ Worth(saved) <= Limit(count)
            /\ Worth(mem) + SumFunctionOnSet(Gap(saved, mem, {}), Workers) <= Limit(count)
        BY <1>2, <1>4 DEF Bounded
      <3>2. Limit(count') = Limit(count) + l /\ Worth(mem') = Worth(mem) + d
        BY <1>1
      <3>3. Worth(saved) <= Limit(count')
        BY <1>1, <1>3, <3>1, <3>2
      <3>4. Worth(mem') + SumFunctionOnSet(Gap(saved, mem', Waiting(W)), Workers) <= Limit(count')
        BY <1>1, <1>3, <2>3, <2>4, <3>1, <3>2
      <3>5. QED
        BY <1>4, <3>3, <3>4 DEF Bounded
    <2>6. writes' = W
      BY <1>4
    <2>7. QED
      BY <1>1, <1>4, <2>1, <2>2, <2>5, <2>6 DEF BInv, BookTypes
  <1>5. CASE ~persistent
    <2>1. writes' = <<>> /\ writes' \in Seq(Entries)
      BY <1>5
    <2>2. Bounded(persistent', saved', mem', Waiting(writes'), Limit(count'))
      BY <1>1, <1>2, <1>3, <1>5 DEF Bounded
    <2>3. QED
      BY <1>1, <1>5, <2>1, <2>2 DEF BInv, BookTypes
  <1>6. QED
    BY <1>1, <1>4, <1>5

(* The counts of an operation, and what they let the wealth move by.       *)
LEMMA SeededCount ==
  ASSUME BInv, NEW a \in Nat, Counted("seeded", a)
  PROVE  /\ count' \in Counts /\ count'.slashed = count.slashed
         /\ count'.crashes = count.crashes /\ count'.seeded = count.seeded + a
         /\ Limit(count') - Limit(count) = a
  <1>1. count \in Counts
    BY DEF BInv, BookTypes
  <1>2. /\ count' \in Counts /\ count'.slashed = count.slashed /\ count'.crashes = count.crashes
        /\ count'.seeded = count.seeded + a /\ count'.settled = count.settled
    <2>1. count' = [ops |-> count.ops + 1, crashes |-> count.crashes, seeded |-> count.seeded + a,
                   settled |-> count.settled, slashed |-> count.slashed]
      BY <1>1 DEF Counted, Counts
    <2>2. QED
      BY <1>1, <2>1 DEF Counts
  <1>3. Slash * count.slashed \in Int /\ count.seeded \in Nat /\ Cent * count.settled \in Int
    BY <1>1, BooksConstants DEF Counts, Cent
  <1>4. Limit(count') - Limit(count) = a
    BY <1>2, <1>3 DEF Limit
  <1>5. QED
    BY <1>2, <1>4

LEMMA SettledCount ==
  ASSUME BInv, NEW n \in Nat, Counted("settled", n)
  PROVE  /\ count' \in Counts /\ count'.slashed = count.slashed
         /\ count'.crashes = count.crashes /\ count'.seeded = count.seeded
         /\ Limit(count') - Limit(count) = Cent * n
  <1>1. count \in Counts
    BY DEF BInv, BookTypes
  <1>2. /\ count' \in Counts /\ count'.slashed = count.slashed /\ count'.crashes = count.crashes
        /\ count'.seeded = count.seeded /\ count'.settled = count.settled + n
    <2>1. count' = [ops |-> count.ops + 1, crashes |-> count.crashes, seeded |-> count.seeded,
                   settled |-> count.settled + n, slashed |-> count.slashed]
      BY <1>1 DEF Counted, Counts
    <2>2. QED
      BY <1>1, <2>1 DEF Counts
  <1>3. Slash * count.slashed \in Int /\ count.seeded \in Nat /\ count.settled \in Nat
    BY <1>1, BooksConstants DEF Counts
  <1>4. Limit(count') - Limit(count) = Cent * n
    BY <1>2, <1>3 DEF Limit, Cent
  <1>5. QED
    BY <1>2, <1>4

LEMMA SlashedCount ==
  ASSUME BInv, NEW n \in {0, 1}, Counted("slashed", n)
  PROVE  /\ count' \in Counts /\ count'.slashed = IF n = 0 THEN count.slashed ELSE count.slashed + 1
         /\ count'.crashes = count.crashes /\ count'.seeded = count.seeded
         /\ Limit(count') - Limit(count) = IF n = 0 THEN 0 ELSE Slash
  <1>1. count \in Counts
    BY DEF BInv, BookTypes
  <1>2. /\ count' \in Counts /\ count'.slashed = count.slashed + n /\ count'.crashes = count.crashes
        /\ count'.seeded = count.seeded /\ count'.settled = count.settled
    <2>1. count' = [ops |-> count.ops + 1, crashes |-> count.crashes, seeded |-> count.seeded,
                   settled |-> count.settled, slashed |-> count.slashed + n]
      BY <1>1 DEF Counted, Counts
    <2>2. QED
      BY <1>1, <2>1 DEF Counts
  <1>3. /\ Slash * count.slashed \in Int /\ count.seeded \in Nat /\ Cent * count.settled \in Int
        /\ Slash * (count.slashed + n) = Slash * count.slashed + (IF n = 0 THEN 0 ELSE Slash)
        /\ Slash \in Int
    BY <1>1, BooksConstants DEF Counts, Cent
  <1>4. Limit(count') - Limit(count) = IF n = 0 THEN 0 ELSE Slash
    BY <1>2, <1>3 DEF Limit
  <1>5. count'.slashed = IF n = 0 THEN count.slashed ELSE count.slashed + 1
    BY <1>1, <1>2 DEF Counts
  <1>6. QED
    BY <1>2, <1>4, <1>5

(* Where what falls is written before what rises.                          *)
LEMMA SplitAt ==
  ASSUME NEW s, NEW m, NEW W \in Seq(Entries), NEW j \in Nat,
         \A n \in 1..Len(W) : n <= j => ~Rises(s, m, W[n]),
         \A n \in 1..Len(W) : n > j => ~Falls(s, m, W[n])
  PROVE  FallsFirst(s, m, W)
  <1> SUFFICES ASSUME NEW k \in 1..Len(W), NEW n \in 1..Len(W), k < n,
                      Rises(s, m, W[k]), Falls(s, m, W[n])
               PROVE  FALSE
    BY DEF FallsFirst
  <1>1. k \in Int /\ n \in Int /\ j \in Int
    OBVIOUS
  <1>2. ~(k <= j) /\ ~(n > j)
    OBVIOUS
  <1>3. QED
    BY <1>1, <1>2

LEMMA IsWaiting ==
  ASSUME NEW W, NEW n \in 1..Len(W)
  PROVE  W[n] \in Waiting(W)
  BY DEF Waiting

(* What Redis holds when nothing waits to be written.                      *)
LEMMA WhenSaved ==
  ASSUME BInv, writes = <<>>, persistent
  PROVE  /\ \A u \in Users : saved.user[u] = mem.user[u] /\ mem.user[u] \in Nat
         /\ \A w \in Workers : saved.dev[w] = mem.dev[w] /\ mem.dev[w] \in Nat
         /\ \A w \in Workers : /\ saved.coll[w] >= mem.coll[w] /\ mem.coll[w] \in Nat
                               /\ saved.coll[w] \in Nat
         /\ \A i \in Ids : saved.vault[i] = mem.vault[i]
         /\ saved.treasury <= mem.treasury /\ mem.treasury \in Nat /\ saved.treasury \in Nat
  <1>1. /\ IsBook(mem) /\ IsBook(saved) /\ Saves(saved, mem, {})
        /\ SavesSlashes(saved, mem, {}, count.slashed) /\ count.slashed \in Nat
    BY NothingWaits DEF BInv, BookTypes, Counts
  <1>2. Slash * count.slashed \in Nat
    BY <1>1, BooksConstants
  <1>3. /\ \A w \in Workers : mem.coll[w] \in Nat /\ saved.coll[w] \in Nat
        /\ mem.treasury \in Nat /\ saved.treasury \in Nat
        /\ \A u \in Users : mem.user[u] \in Nat
        /\ \A w \in Workers : mem.dev[w] \in Nat
    BY <1>1 DEF IsBook
  <1>4. QED
    BY <1>1, <1>2, <1>3 DEF Saves, SavesSlashes

LEMMA BookMade ==
  ASSUME NEW user \in [Users -> Nat], NEW dev \in [Workers -> Nat], NEW vault \in [Ids -> Holds],
         NEW treasury \in Nat, NEW ids \in Nat, NEW coll \in [Workers -> Nat],
         NEW strikes \in [Workers -> Nat], NEW used \in [Users -> BOOLEAN],
         NEW rep \in [Users -> Nat], NEW rated \in [Users -> Nat], NEW entries, NEW score,
         \A w \in Workers : coll[w] % Cent = 0
  PROVE  IsBook(Book(user, dev, vault, treasury, ids, coll, strikes, used, rep, rated,
                     entries, score))
  BY DEF IsBook, Book

LEMMA MemTypes ==
  ASSUME BInv
  PROVE  /\ mem.user \in [Users -> Nat] /\ mem.dev \in [Workers -> Nat]
         /\ mem.vault \in [Ids -> Holds] /\ mem.treasury \in Nat /\ mem.counter \in Nat
         /\ mem.coll \in [Workers -> Nat] /\ mem.strikes \in [Workers -> Nat]
         /\ mem.used \in [Users -> BOOLEAN] /\ mem.rep \in [Users -> Nat]
         /\ mem.rated \in [Users -> Nat] /\ \A w \in Workers : mem.coll[w] % Cent = 0
  BY DEF BInv, BookTypes, IsBook

LEMMA WorthMoves ==
  ASSUME IsBook(mem), IsBook(mem'),
         NEW x1 \in Int, NEW x2 \in Int, NEW x3 \in Int, NEW x4 \in Int,
         Moved(Users, mem.user, mem'.user, x1), Moved(Workers, mem.dev, mem'.dev, x2),
         Moved(Workers, mem.coll, mem'.coll, x3), Moved(Ids, Held(mem), Held(mem'), x4)
  PROVE  /\ Worth(mem') = Worth(mem) + x1 + x2 + x3 + x4 + (mem'.treasury - mem.treasury)
         /\ Worth(mem) \in Int
  BY WorthMoved

LEMMA SixWrites ==
  ASSUME NEW a, NEW b, NEW c, NEW d, NEW e, NEW f
  PROVE  <<a, b, c, d>> \o <<e, f>> = <<a, b, c, d, e, f>>
  <1> DEFINE s == <<a, b, c, d>> \o <<e, f>>
             t == <<a, b, c, d, e, f>>
             S == {a, b, c, d, e, f}
  <1>1. <<a, b, c, d>> \in Seq(S) /\ <<e, f>> \in Seq(S) /\ t \in Seq(S)
    OBVIOUS
  <1>2. s \in Seq(S) /\ Len(s) = Len(t)
    BY <1>1, ConcatProperties
  <1>3. \A i \in 1..Len(s) : s[i] = t[i]
    BY <1>1, <1>2, ConcatProperties
  <1>4. QED
    BY <1>1, <1>2, <1>3, SeqEqual

LEMMA OnlyMoneyMoves ==
  ASSUME NEW s, NEW m, NEW e, e[1] \notin Money
  PROVE  ~Rises(s, m, e) /\ ~Falls(s, m, e)
  BY DEF Rises, Falls

(* Which way an entry moves in Redis when an operation writes it.          *)
LEMMA UserMoves ==
  ASSUME BInv, writes = <<>>, persistent, NEW m, IsBook(m), NEW u \in Users
  PROVE  /\ m.user[u] <= mem.user[u] => ~Rises(saved, m, <<"user", u>>)
         /\ m.user[u] >= mem.user[u] => ~Falls(saved, m, <<"user", u>>)
  <1>1. m.user[u] \in Nat
    BY DEF IsBook
  <1>2. QED
    BY <1>1, WhenSaved, AmountIs DEF Rises, Falls

LEMMA DevMoves ==
  ASSUME BInv, writes = <<>>, persistent, NEW m, IsBook(m), NEW w \in Workers
  PROVE  /\ m.dev[w] <= mem.dev[w] => ~Rises(saved, m, <<"dev", w>>)
         /\ m.dev[w] >= mem.dev[w] => ~Falls(saved, m, <<"dev", w>>)
  <1>1. m.dev[w] \in Nat
    BY DEF IsBook
  <1>2. QED
    BY <1>1, WhenSaved, AmountIs DEF Rises, Falls

LEMMA CollMoves ==
  ASSUME BInv, writes = <<>>, persistent, NEW m, IsBook(m), NEW w \in Workers,
         m.coll[w] <= mem.coll[w]
  PROVE  ~Rises(saved, m, <<"coll", w>>)
  <1>1. m.coll[w] \in Nat
    BY DEF IsBook
  <1>2. QED
    BY <1>1, WhenSaved, AmountIs DEF Rises

LEMMA HoldMoves ==
  ASSUME BInv, writes = <<>>, persistent, NEW m, IsBook(m), NEW i \in Ids,
         m.vault[i].amount <= mem.vault[i].amount
  PROVE  ~Rises(saved, m, <<"vault", i>>)
  <1>1. m.vault[i].amount \in Nat /\ mem.vault[i].amount \in Nat
    BY HeldType DEF Held, BInv, BookTypes
  <1>2. QED
    BY <1>1, WhenSaved, AmountIs DEF Rises

LEMMA TreasuryMoves ==
  ASSUME BInv, writes = <<>>, persistent, NEW m, IsBook(m), m.treasury >= mem.treasury
  PROVE  ~Falls(saved, m, Whole("treasury"))
  <1>1. m.treasury \in Nat
    BY DEF IsBook
  <1>2. QED
    BY <1>1, WhenSaved, AmountIs DEF Falls, Whole

-----------------------------------------------------------------------------
(* The operations, one by one: the new book, the entries that change, the  *)
(* order in which money leaves and enters Redis, and the wealth moved.     *)
LEMMA SeedUsdtKeeps ==
  ASSUME BInv, NEW u \in Users, NEW a \in Seeds, SeedUsdt(u, a)
  PROVE  BInv' /\ Conserves
  <1> DEFINE W == << <<"user", u>> >>
  <1>0. /\ writes = <<>> /\ saved' = saved /\ persistent' = persistent
        /\ writes' = (IF persistent THEN W ELSE <<>>) /\ Counted("seeded", a)
        /\ mem' = [mem EXCEPT !.user[u] = @ + a]
    BY DEF SeedUsdt, Operation, Save
  <1>1. /\ writes = <<>> /\ saved' = saved /\ persistent' = persistent
        /\ writes' = (IF persistent THEN W ELSE <<>>) /\ Counted("seeded", a)
    BY <1>0
  <1> DEFINE h == [mem.user EXCEPT ![u] = @ + a]
  <1>2. IsBook(mem) /\ a \in Nat
    BY BooksConstants DEF BInv, BookTypes
  <1>3. mem' = Book(h, mem.dev, mem.vault, mem.treasury, mem.counter, mem.coll, mem.strikes,
                    mem.used, mem.rep, mem.rated, mem.entries, mem.score)
    BY <1>0, <1>2 DEF IsBook, Book
  <1>4. /\ h \in [Users -> Nat]
        /\ h[u] = mem.user[u] + a /\ \A x \in Users : x # u => h[x] = mem.user[x]
    BY <1>2 DEF IsBook
  <1>5. /\ W \in Seq(Entries) /\ Len(W) = 1
        /\ W[1] = <<"user", u>> /\ <<"user", u>> \in Waiting(W)
    <2>1. /\ W \in Seq(Entries) /\ Len(W) = 1
          /\ W[1] = <<"user", u>>
      BY <1>2 DEF Entries, KeyedByUser, KeyedByWorker, Scalars, Whole
    <2>2. 1 \in 1..Len(W)
      BY <2>1
    <2>3. QED
      BY <2>1, <2>2, IsWaiting
  <1> HIDE DEF W, h
  <1>6. /\ mem'.user = h /\ mem'.dev = mem.dev /\ mem'.vault = mem.vault
           /\ mem'.treasury = mem.treasury /\ mem'.counter = mem.counter /\ mem'.coll = mem.coll
           /\ mem'.strikes = mem.strikes /\ mem'.used = mem.used /\ mem'.rep = mem.rep
           /\ mem'.rated = mem.rated /\ mem'.entries = mem.entries /\ mem'.score = mem.score
    BY <1>3 DEF Book
  <1>7. IsBook(mem')
    BY <1>2, <1>3, <1>4, MemTypes, BookMade
  <1>8. Changes(mem, mem', Waiting(W))
    BY <1>4, <1>5, <1>6 DEF Changes
  <1>9. persistent => FallsFirst(saved, mem', W)
    BY <1>5 DEF FallsFirst
  <1>10. /\ Moved(Users, mem.user, mem'.user, a) /\ a \in Int
         /\ Moved(Workers, mem.dev, mem'.dev, 0) /\ 0 \in Int
         /\ Moved(Workers, mem.coll, mem'.coll, 0) /\ 0 \in Int
         /\ Moved(Ids, Held(mem), Held(mem'), 0) /\ 0 \in Int
    <2>1. Moved(Users, mem.user, mem'.user, a) /\ a \in Int
      BY <1>2, <1>4, <1>6 DEF Moved
    <2>2. Moved(Workers, mem.dev, mem'.dev, 0) /\ 0 \in Int
      BY <1>2, <1>4, <1>6 DEF Moved
    <2>3. Moved(Workers, mem.coll, mem'.coll, 0) /\ 0 \in Int
      BY <1>2, <1>4, <1>6 DEF Moved
    <2>4. Moved(Ids, Held(mem), Held(mem'), 0) /\ 0 \in Int
      BY <1>2, <1>4, <1>6 DEF Moved, Held, NoHold
    <2>5. QED
      BY <2>1, <2>2, <2>3, <2>4
  <1>11. /\ count' \in Counts /\ count'.slashed = count.slashed
         /\ Limit(count') - Limit(count) = a /\ count'.seeded = count.seeded + a
    BY <1>1, <1>2, SeededCount
  <1> DEFINE d == a
  <1>12. /\ d \in Int /\ a \in Nat /\ d <= a /\ count.seeded \in Nat
         /\ d = a
    <2>1. count.seeded \in Nat
      BY DEF BInv, BookTypes, Counts
    <2>2. QED
      BY <1>2, <2>1
  <1>13. Worth(mem') = Worth(mem) + d /\ Worth(mem) \in Int
    <2>1. Worth(mem') = Worth(mem) + a + 0 + 0 + 0 + (mem'.treasury - mem.treasury)
      <3>1. IsBook(mem)
        BY <1>2
      <3>2. QED
        BY <1>7, <1>10, <3>1, WorthMoves
    <2>2. mem.treasury \in Nat /\ mem'.treasury \in Nat /\ Worth(mem) \in Int
      BY <1>2, <1>7, WorthIsInt DEF IsBook
    <2>3. QED
      BY <1>2, <1>6, <2>1, <2>2
  <1> HIDE DEF d
  <1>14. BInv'
    BY <1>1, <1>5, <1>7, <1>8, <1>9, <1>11, <1>12, <1>13, OperationKeeps
  <1>15. Conserves
    BY <1>11, <1>12, <1>13 DEF Conserves, Cent
  <1>16. QED
    BY <1>14, <1>15

LEMMA SeedDevUsdtKeeps ==
  ASSUME BInv, NEW w \in Workers, NEW a \in Seeds, SeedDevUsdt(w, a)
  PROVE  BInv' /\ Conserves
  <1> DEFINE W == << <<"dev", w>> >>
  <1>0. /\ writes = <<>> /\ saved' = saved /\ persistent' = persistent
        /\ writes' = (IF persistent THEN W ELSE <<>>) /\ Counted("seeded", a)
        /\ mem' = [mem EXCEPT !.dev[w] = @ + a]
    BY DEF SeedDevUsdt, Operation, Save
  <1>1. /\ writes = <<>> /\ saved' = saved /\ persistent' = persistent
        /\ writes' = (IF persistent THEN W ELSE <<>>) /\ Counted("seeded", a)
    BY <1>0
  <1> DEFINE h == [mem.dev EXCEPT ![w] = @ + a]
  <1>2. IsBook(mem) /\ a \in Nat
    BY BooksConstants DEF BInv, BookTypes
  <1>3. mem' = Book(mem.user, h, mem.vault, mem.treasury, mem.counter, mem.coll, mem.strikes,
                    mem.used, mem.rep, mem.rated, mem.entries, mem.score)
    BY <1>0, <1>2 DEF IsBook, Book
  <1>4. /\ h \in [Workers -> Nat]
        /\ h[w] = mem.dev[w] + a /\ \A x \in Workers : x # w => h[x] = mem.dev[x]
    BY <1>2 DEF IsBook
  <1>5. /\ W \in Seq(Entries) /\ Len(W) = 1
        /\ W[1] = <<"dev", w>> /\ <<"dev", w>> \in Waiting(W)
    <2>1. /\ W \in Seq(Entries) /\ Len(W) = 1
          /\ W[1] = <<"dev", w>>
      BY <1>2 DEF Entries, KeyedByUser, KeyedByWorker, Scalars, Whole
    <2>2. 1 \in 1..Len(W)
      BY <2>1
    <2>3. QED
      BY <2>1, <2>2, IsWaiting
  <1> HIDE DEF W, h
  <1>6. /\ mem'.user = mem.user /\ mem'.dev = h /\ mem'.vault = mem.vault
           /\ mem'.treasury = mem.treasury /\ mem'.counter = mem.counter /\ mem'.coll = mem.coll
           /\ mem'.strikes = mem.strikes /\ mem'.used = mem.used /\ mem'.rep = mem.rep
           /\ mem'.rated = mem.rated /\ mem'.entries = mem.entries /\ mem'.score = mem.score
    BY <1>3 DEF Book
  <1>7. IsBook(mem')
    BY <1>2, <1>3, <1>4, MemTypes, BookMade
  <1>8. Changes(mem, mem', Waiting(W))
    BY <1>4, <1>5, <1>6 DEF Changes
  <1>9. persistent => FallsFirst(saved, mem', W)
    BY <1>5 DEF FallsFirst
  <1>10. /\ Moved(Users, mem.user, mem'.user, 0) /\ 0 \in Int
         /\ Moved(Workers, mem.dev, mem'.dev, a) /\ a \in Int
         /\ Moved(Workers, mem.coll, mem'.coll, 0) /\ 0 \in Int
         /\ Moved(Ids, Held(mem), Held(mem'), 0) /\ 0 \in Int
    <2>1. Moved(Users, mem.user, mem'.user, 0) /\ 0 \in Int
      BY <1>2, <1>4, <1>6 DEF Moved
    <2>2. Moved(Workers, mem.dev, mem'.dev, a) /\ a \in Int
      BY <1>2, <1>4, <1>6 DEF Moved
    <2>3. Moved(Workers, mem.coll, mem'.coll, 0) /\ 0 \in Int
      BY <1>2, <1>4, <1>6 DEF Moved
    <2>4. Moved(Ids, Held(mem), Held(mem'), 0) /\ 0 \in Int
      BY <1>2, <1>4, <1>6 DEF Moved, Held, NoHold
    <2>5. QED
      BY <2>1, <2>2, <2>3, <2>4
  <1>11. /\ count' \in Counts /\ count'.slashed = count.slashed
         /\ Limit(count') - Limit(count) = a /\ count'.seeded = count.seeded + a
    BY <1>1, <1>2, SeededCount
  <1> DEFINE d == a
  <1>12. /\ d \in Int /\ a \in Nat /\ d <= a /\ count.seeded \in Nat
         /\ d = a
    <2>1. count.seeded \in Nat
      BY DEF BInv, BookTypes, Counts
    <2>2. QED
      BY <1>2, <2>1
  <1>13. Worth(mem') = Worth(mem) + d /\ Worth(mem) \in Int
    <2>1. Worth(mem') = Worth(mem) + 0 + a + 0 + 0 + (mem'.treasury - mem.treasury)
      <3>1. IsBook(mem)
        BY <1>2
      <3>2. QED
        BY <1>7, <1>10, <3>1, WorthMoves
    <2>2. mem.treasury \in Nat /\ mem'.treasury \in Nat /\ Worth(mem) \in Int
      BY <1>2, <1>7, WorthIsInt DEF IsBook
    <2>3. QED
      BY <1>2, <1>6, <2>1, <2>2
  <1> HIDE DEF d
  <1>14. BInv'
    BY <1>1, <1>5, <1>7, <1>8, <1>9, <1>11, <1>12, <1>13, OperationKeeps
  <1>15. Conserves
    BY <1>11, <1>12, <1>13 DEF Conserves, Cent
  <1>16. QED
    BY <1>14, <1>15

LEMMA LastIsFree ==
  ASSUME NEW s, NEW m, NEW W \in Seq(Entries), Len(W) = 3,
         ~Rises(s, m, W[1]), ~Rises(s, m, W[3]), ~Falls(s, m, W[3])
  PROVE  FallsFirst(s, m, W)
  BY DEF FallsFirst

(* What leaves one account for another is rounded twice.                   *)
LEMMA NearTogether ==
  ASSUME NEW x \in Nat, NEW y \in Nat, NEW k \in Nat, NEW l \in Nat, NEW m \in Nat,
         l - (x - k) \in -5..5, m - (y + k) \in -5..5
  PROVE  /\ (l - x) + (m - y) \in Int
         /\ (l - x) + (m - y) <= 10
         /\ (l - x) + (m - y) \in -10..10
  OBVIOUS

LEMMA RegisterKeeps ==
  ASSUME BInv, NEW w \in Workers, RegisterWorker(w)
  PROVE  BInv' /\ Conserves
  <1> DEFINE W == << <<"dev", w>>, <<"coll", w>>, <<"strikes", w>> >>
  <1>0. PICK left \in Cents(mem.dev[w] - Stake, 1), staked \in Cents(mem.coll[w] + Stake, 1) :
      /\ writes = <<>> /\ saved' = saved /\ persistent' = persistent
        /\ writes' = (IF persistent THEN W ELSE <<>>) /\ Counted("settled", 1)
        /\ mem.dev[w] >= Stake
        /\ mem' = [mem EXCEPT !.dev[w] = left, !.coll[w] = staked]
    BY DEF RegisterWorker, Operation, Save
  <1>1. /\ writes = <<>> /\ saved' = saved /\ persistent' = persistent
        /\ writes' = (IF persistent THEN W ELSE <<>>) /\ Counted("settled", 1)
    BY <1>0
  <1> DEFINE h == [mem.dev EXCEPT ![w] = left]
             g == [mem.coll EXCEPT ![w] = staked]
  <1>2. /\ IsBook(mem) /\ mem.dev[w] \in Nat /\ mem.coll[w] \in Nat /\ Stake \in Nat
        /\ left \in Nat /\ left - (mem.dev[w] - Stake) \in -5..5 /\ left <= mem.dev[w]
        /\ staked \in Nat /\ staked - (mem.coll[w] + Stake) \in -5..5
    <2>1. IsBook(mem) /\ mem.dev[w] \in Nat /\ mem.coll[w] \in Nat
      BY DEF BInv, BookTypes, IsBook
    <2>2. Stake \in Nat /\ Stake >= 10
      BY BooksConstants DEF Cent
    <2> DEFINE have == mem.dev[w]
    <2>a. have \in Nat /\ have >= Stake
      BY <1>0, <2>1
    <2> HIDE DEF have
    <2>b. have - Stake \in Nat
      BY <2>a, <2>2
    <2>3. mem.dev[w] - Stake \in Nat /\ mem.coll[w] + Stake \in Nat
      BY <2>1, <2>2, <2>b DEF have
    <2>4. left \in Nat /\ left - (mem.dev[w] - Stake) \in -5..5
      BY <1>0, <2>3, CentsNear
    <2>5. staked \in Nat /\ staked - (mem.coll[w] + Stake) \in -5..5
      BY <1>0, <2>3, CentsNear
    <2>6. left <= mem.dev[w]
      BY <2>1, <2>2, <2>4
    <2>7. QED
      BY <2>1, <2>2, <2>4, <2>5, <2>6
  <1>3. mem' = Book(mem.user, h, mem.vault, mem.treasury, mem.counter, g, mem.strikes, mem.used,
                    mem.rep, mem.rated, mem.entries, mem.score)
    BY <1>0, <1>2 DEF IsBook, Book
  <1>4. /\ h \in [Workers -> Nat]
        /\ h[w] = left /\ \A x \in Workers : x # w => h[x] = mem.dev[x]
        /\ g \in [Workers -> Nat]
        /\ g[w] = staked /\ \A x \in Workers : x # w => g[x] = mem.coll[x]
    BY <1>2 DEF IsBook
  <1>w. \A x \in Workers : g[x] % Cent = 0
    <2>1. staked % Cent = 0
      BY <1>2, CentsNear
    <2>2. \A x \in Workers : mem.coll[x] % Cent = 0
      BY <1>2 DEF IsBook
    <2> HIDE DEF g
    <2>3. QED
      BY <1>4, <2>1, <2>2
  <1>5. /\ W \in Seq(Entries) /\ Len(W) = 3
        /\ W[1] = <<"dev", w>> /\ <<"dev", w>> \in Waiting(W)
        /\ W[2] = <<"coll", w>> /\ <<"coll", w>> \in Waiting(W)
        /\ W[3] = <<"strikes", w>> /\ <<"strikes", w>> \in Waiting(W)
    <2>1. /\ W \in Seq(Entries) /\ Len(W) = 3
          /\ W[1] = <<"dev", w>>
          /\ W[2] = <<"coll", w>>
          /\ W[3] = <<"strikes", w>>
      BY <1>2 DEF Entries, KeyedByUser, KeyedByWorker, Scalars, Whole
    <2>2. 1 \in 1..Len(W) /\ 2 \in 1..Len(W) /\ 3 \in 1..Len(W)
      BY <2>1
    <2>3. QED
      BY <2>1, <2>2, IsWaiting
  <1> HIDE DEF W, h, g
  <1>6. /\ mem'.user = mem.user /\ mem'.dev = h /\ mem'.vault = mem.vault
           /\ mem'.treasury = mem.treasury /\ mem'.counter = mem.counter /\ mem'.coll = g
           /\ mem'.strikes = mem.strikes /\ mem'.used = mem.used /\ mem'.rep = mem.rep
           /\ mem'.rated = mem.rated /\ mem'.entries = mem.entries /\ mem'.score = mem.score
    BY <1>3 DEF Book
  <1>7. IsBook(mem')
    BY <1>2, <1>3, <1>4, <1>w, MemTypes, BookMade
  <1>8. Changes(mem, mem', Waiting(W))
    BY <1>4, <1>5, <1>6 DEF Changes
  <1>9. persistent => FallsFirst(saved, mem', W)
    <2> SUFFICES ASSUME persistent PROVE FallsFirst(saved, mem', W)
      OBVIOUS
    <2>1. ~Rises(saved, mem', W[1])
      <3>1. mem'.dev[w] <= mem.dev[w]
        BY <1>2, <1>4, <1>6
      <3>2. QED
        BY <1>1, <1>2, <1>5, <1>7, <3>1, DevMoves
    <2>2. ~Rises(saved, mem', W[3]) /\ ~Falls(saved, mem', W[3])
      BY <1>5, OnlyMoneyMoves DEF Money, Whole
    <2>3. QED
      BY <1>5, <2>1, <2>2, LastIsFree
  <1>10. /\ Moved(Users, mem.user, mem'.user, 0) /\ 0 \in Int
         /\ Moved(Workers, mem.dev, mem'.dev, (left - mem.dev[w])) /\ (left - mem.dev[w]) \in Int
         /\ Moved(Workers, mem.coll, mem'.coll, (staked - mem.coll[w]))
         /\ (staked - mem.coll[w]) \in Int
         /\ Moved(Ids, Held(mem), Held(mem'), 0) /\ 0 \in Int
    <2>1. Moved(Users, mem.user, mem'.user, 0) /\ 0 \in Int
      BY <1>2, <1>4, <1>6 DEF Moved
    <2>2. Moved(Workers, mem.dev, mem'.dev, (left - mem.dev[w])) /\ (left - mem.dev[w]) \in Int
      BY <1>2, <1>4, <1>6 DEF Moved
    <2>3. /\ Moved(Workers, mem.coll, mem'.coll, (staked - mem.coll[w]))
          /\ (staked - mem.coll[w]) \in Int
      BY <1>2, <1>4, <1>6 DEF Moved
    <2>4. Moved(Ids, Held(mem), Held(mem'), 0) /\ 0 \in Int
      BY <1>2, <1>4, <1>6 DEF Moved, Held, NoHold
    <2>5. QED
      BY <2>1, <2>2, <2>3, <2>4
  <1>11. /\ count' \in Counts /\ count'.slashed = count.slashed
         /\ Limit(count') - Limit(count) = 10 /\ count'.seeded = count.seeded
    BY <1>1, <1>2, SettledCount DEF Cent
  <1> DEFINE d == (left - mem.dev[w]) + (staked - mem.coll[w])
  <1>12. /\ d \in Int /\ 10 \in Nat /\ d <= 10 /\ count.seeded \in Nat
         /\ d \in -10..10
    <2>1. count.seeded \in Nat
      BY DEF BInv, BookTypes, Counts
    <2>2. /\ mem.dev[w] \in Nat /\ mem.coll[w] \in Nat /\ Stake \in Nat /\ left \in Nat
          /\ left - (mem.dev[w] - Stake) \in -5..5
          /\ staked \in Nat /\ staked - (mem.coll[w] + Stake) \in -5..5
      BY <1>2
    <2>3. d \in Int /\ d <= 10 /\ d \in -10..10
      BY <2>2, NearTogether
    <2>4. QED
      BY <2>1, <2>3
  <1>13. Worth(mem') = Worth(mem) + d /\ Worth(mem) \in Int
    <2>1. Worth(mem') = Worth(mem) + 0 + (left - mem.dev[w]) + (staked - mem.coll[w]) + 0
                            + (mem'.treasury - mem.treasury)
      <3>1. IsBook(mem)
        BY <1>2
      <3>2. QED
        BY <1>7, <1>10, <3>1, WorthMoves
    <2>2. mem.treasury \in Nat /\ mem'.treasury \in Nat /\ Worth(mem) \in Int
      BY <1>2, <1>7, WorthIsInt DEF IsBook
    <2>3. QED
      BY <1>2, <1>6, <2>1, <2>2
  <1> HIDE DEF d
  <1>14. BInv'
    BY <1>1, <1>5, <1>7, <1>8, <1>9, <1>11, <1>12, <1>13, OperationKeeps
  <1>15. Conserves
    BY <1>11, <1>12, <1>13 DEF Conserves, Cent
  <1>16. QED
    BY <1>14, <1>15

LEMMA StrikeKeeps ==
  ASSUME BInv, NEW w \in Workers, ApplyPenalty(w), ~Slashable(w)
  PROVE  BInv' /\ Conserves
  <1> DEFINE W == << <<"strikes", w>>, <<"coll", w>>, Whole("treasury") >>
  <1>0. /\ writes = <<>> /\ saved' = saved /\ persistent' = persistent
        /\ writes' = (IF persistent THEN W ELSE <<>>) /\ Counted("slashed", 0)
        /\ mem' = [mem EXCEPT !.strikes[w] = @ + 1]
    BY DEF ApplyPenalty, PenaltyWrites, Operation, Save
  <1>1. /\ writes = <<>> /\ saved' = saved /\ persistent' = persistent
        /\ writes' = (IF persistent THEN W ELSE <<>>) /\ Counted("slashed", 0)
    BY <1>0
  <1> DEFINE h == [mem.strikes EXCEPT ![w] = @ + 1]
  <1>2. IsBook(mem) /\ mem.coll[w] \in Nat /\ mem.treasury \in Nat
    BY BooksConstants DEF BInv, BookTypes, IsBook
  <1>3. mem' = Book(mem.user, mem.dev, mem.vault, mem.treasury, mem.counter, mem.coll, h,
                    mem.used, mem.rep, mem.rated, mem.entries, mem.score)
    BY <1>0, <1>2 DEF IsBook, Book
  <1>4. /\ h \in [Workers -> Nat]
        /\ h[w] = mem.strikes[w] + 1 /\ \A x \in Workers : x # w => h[x] = mem.strikes[x]
    BY <1>2 DEF IsBook
  <1>5. /\ W \in Seq(Entries) /\ Len(W) = 3
        /\ W[1] = <<"strikes", w>> /\ <<"strikes", w>> \in Waiting(W)
        /\ W[2] = <<"coll", w>> /\ <<"coll", w>> \in Waiting(W)
        /\ W[3] = Whole("treasury") /\ Whole("treasury") \in Waiting(W)
    <2>1. /\ W \in Seq(Entries) /\ Len(W) = 3
          /\ W[1] = <<"strikes", w>>
          /\ W[2] = <<"coll", w>>
          /\ W[3] = Whole("treasury")
      BY <1>2 DEF Entries, KeyedByUser, KeyedByWorker, Scalars, Whole
    <2>2. 1 \in 1..Len(W) /\ 2 \in 1..Len(W) /\ 3 \in 1..Len(W)
      BY <2>1
    <2>3. QED
      BY <2>1, <2>2, IsWaiting
  <1> HIDE DEF W, h
  <1>6. /\ mem'.user = mem.user /\ mem'.dev = mem.dev /\ mem'.vault = mem.vault
           /\ mem'.treasury = mem.treasury /\ mem'.counter = mem.counter /\ mem'.coll = mem.coll
           /\ mem'.strikes = h /\ mem'.used = mem.used /\ mem'.rep = mem.rep
           /\ mem'.rated = mem.rated /\ mem'.entries = mem.entries /\ mem'.score = mem.score
    BY <1>3 DEF Book
  <1>7. IsBook(mem')
    BY <1>2, <1>3, <1>4, MemTypes, BookMade
  <1>8. Changes(mem, mem', Waiting(W))
    BY <1>4, <1>5, <1>6 DEF Changes
  <1>9. persistent => FallsFirst(saved, mem', W)
    <2> SUFFICES ASSUME persistent PROVE FallsFirst(saved, mem', W)
      OBVIOUS
    <2>1. ~Rises(saved, mem', <<"strikes", w>>)
      BY OnlyMoneyMoves DEF Money, Whole
    <2>2. ~Rises(saved, mem', <<"coll", w>>)
      <3>1. mem'.coll[w] <= mem.coll[w]
        BY <1>2, <1>4, <1>6 DEF IsBook, NoHold
      <3>2. QED
        BY <1>1, <1>2, <1>7, <3>1, CollMoves
    <2>3. ~Falls(saved, mem', Whole("treasury"))
      <3>1. mem'.treasury >= mem.treasury
        BY <1>2, <1>4, <1>6 DEF IsBook, NoHold
      <3>2. QED
        BY <1>1, <1>2, <1>7, <3>1, TreasuryMoves
    <2>4. /\ \A n \in 1..Len(W) : n <= 2 => ~Rises(saved, mem', W[n])
          /\ \A n \in 1..Len(W) : n > 2 => ~Falls(saved, mem', W[n])
      BY <1>5, <2>1, <2>2, <2>3
    <2>5. QED
      BY <1>5, <2>4, SplitAt
  <1>10. /\ Moved(Users, mem.user, mem'.user, 0) /\ 0 \in Int
         /\ Moved(Workers, mem.dev, mem'.dev, 0) /\ 0 \in Int
         /\ Moved(Workers, mem.coll, mem'.coll, 0) /\ 0 \in Int
         /\ Moved(Ids, Held(mem), Held(mem'), 0) /\ 0 \in Int
    <2>1. Moved(Users, mem.user, mem'.user, 0) /\ 0 \in Int
      BY <1>2, <1>4, <1>6 DEF Moved
    <2>2. Moved(Workers, mem.dev, mem'.dev, 0) /\ 0 \in Int
      BY <1>2, <1>4, <1>6 DEF Moved
    <2>3. Moved(Workers, mem.coll, mem'.coll, 0) /\ 0 \in Int
      BY <1>2, <1>4, <1>6 DEF Moved
    <2>4. Moved(Ids, Held(mem), Held(mem'), 0) /\ 0 \in Int
      BY <1>2, <1>4, <1>6 DEF Moved, Held, NoHold
    <2>5. QED
      BY <2>1, <2>2, <2>3, <2>4
  <1>11. /\ count' \in Counts /\ count'.slashed = count.slashed
         /\ Limit(count') - Limit(count) = 0 /\ count'.seeded = count.seeded
    BY <1>1, <1>2, SlashedCount
  <1> DEFINE d == 0
  <1>12. /\ d \in Int /\ 0 \in Nat /\ d <= 0 /\ count.seeded \in Nat
         /\ d \in -10..10
    <2>1. count.seeded \in Nat
      BY DEF BInv, BookTypes, Counts
    <2>2. QED
      BY <1>2, <2>1
  <1>13. Worth(mem') = Worth(mem) + d /\ Worth(mem) \in Int
    <2>1. Worth(mem') = Worth(mem) + 0 + 0 + 0 + 0 + (mem'.treasury - mem.treasury)
      <3>1. IsBook(mem)
        BY <1>2
      <3>2. QED
        BY <1>7, <1>10, <3>1, WorthMoves
    <2>2. mem.treasury \in Nat /\ mem'.treasury \in Nat /\ Worth(mem) \in Int
      BY <1>2, <1>7, WorthIsInt DEF IsBook
    <2>3. QED
      BY <1>2, <1>6, <2>1, <2>2
  <1> HIDE DEF d
  <1>14. BInv'
    BY <1>1, <1>5, <1>7, <1>8, <1>9, <1>11, <1>12, <1>13, OperationKeeps
  <1>15. Conserves
    BY <1>11, <1>12, <1>13 DEF Conserves, Cent
  <1>16. QED
    BY <1>14, <1>15

LEMMA FreezeKeeps ==
  ASSUME BInv, NEW u \in Users, NEW kind \in {"freeze", "hold"}, NEW a \in Budgets,
         Freeze(u, kind, a)
  PROVE  BInv' /\ Conserves
  <1> DEFINE W == << <<"user", u>>, <<"vault", NextId>>, Whole("counter") >>
  <1>0. /\ writes = <<>> /\ saved' = saved /\ persistent' = persistent
        /\ writes' = (IF persistent THEN W ELSE <<>>) /\ Counted("settled", 0)
        /\ mem.user[u] >= a /\ NextId \in Ids
        /\ mem' = [mem EXCEPT !.user[u] = @ - a, !.counter = NextId,
                       !.vault[NextId] = [owner |-> u, kind |-> kind, amount |-> a]]
    BY DEF Freeze, HoldWrites, Operation, Save
  <1>1. /\ writes = <<>> /\ saved' = saved /\ persistent' = persistent
        /\ writes' = (IF persistent THEN W ELSE <<>>) /\ Counted("settled", 0)
    BY <1>0
  <1> DEFINE h == [mem.user EXCEPT ![u] = @ - a]
             g == [mem.vault EXCEPT ![NextId] = [owner |-> u, kind |-> kind, amount |-> a]]
  <1>2. /\ IsBook(mem) /\ a \in Nat /\ mem.user[u] \in Nat /\ mem.user[u] >= a
        /\ mem.vault[NextId].amount \in Nat /\ NextId \in Ids /\ NextId \in Nat
        /\ [owner |-> u, kind |-> kind, amount |-> a] \in Holds
    <2>1. IsBook(mem) /\ a \in Nat /\ mem.user[u] \in Nat
      BY BooksConstants DEF BInv, BookTypes, IsBook
    <2>2. mem.vault[NextId].amount \in Nat
      BY <1>0, <2>1, HeldType DEF Held
    <2>3. [owner |-> u, kind |-> kind, amount |-> a] \in Holds
      BY <2>1 DEF Holds
    <2>4. NextId \in Nat
      BY <1>0 DEF Ids
    <2>5. QED
      BY <1>0, <2>1, <2>2, <2>3, <2>4
  <1>3. mem' = Book(h, mem.dev, g, mem.treasury, NextId, mem.coll, mem.strikes, mem.used, mem.rep,
                    mem.rated, mem.entries, mem.score)
    BY <1>0, <1>2 DEF IsBook, Book
  <1>4. /\ h \in [Users -> Nat]
        /\ h[u] = mem.user[u] - a /\ \A x \in Users : x # u => h[x] = mem.user[x]
        /\ g \in [Ids -> Holds]
        /\ g[NextId] = [owner |-> u, kind |-> kind, amount |-> a]
        /\ \A x \in Ids : x # NextId => g[x] = mem.vault[x]
        /\ NextId \in Nat
    BY <1>2 DEF IsBook
  <1>5. /\ W \in Seq(Entries) /\ Len(W) = 3
        /\ W[1] = <<"user", u>> /\ <<"user", u>> \in Waiting(W)
        /\ W[2] = <<"vault", NextId>> /\ <<"vault", NextId>> \in Waiting(W)
        /\ W[3] = Whole("counter") /\ Whole("counter") \in Waiting(W)
    <2>1. /\ W \in Seq(Entries) /\ Len(W) = 3
          /\ W[1] = <<"user", u>>
          /\ W[2] = <<"vault", NextId>>
          /\ W[3] = Whole("counter")
      BY <1>2 DEF Entries, KeyedByUser, KeyedByWorker, Scalars, Whole
    <2>2. 1 \in 1..Len(W) /\ 2 \in 1..Len(W) /\ 3 \in 1..Len(W)
      BY <2>1
    <2>3. QED
      BY <2>1, <2>2, IsWaiting
  <1> HIDE DEF W, h, g
  <1>6. /\ mem'.user = h /\ mem'.dev = mem.dev /\ mem'.vault = g
           /\ mem'.treasury = mem.treasury /\ mem'.counter = NextId /\ mem'.coll = mem.coll
           /\ mem'.strikes = mem.strikes /\ mem'.used = mem.used /\ mem'.rep = mem.rep
           /\ mem'.rated = mem.rated /\ mem'.entries = mem.entries /\ mem'.score = mem.score
    BY <1>3 DEF Book
  <1>7. IsBook(mem')
    BY <1>2, <1>3, <1>4, MemTypes, BookMade
  <1>8. Changes(mem, mem', Waiting(W))
    BY <1>4, <1>5, <1>6 DEF Changes
  <1>9. persistent => FallsFirst(saved, mem', W)
    <2> SUFFICES ASSUME persistent PROVE FallsFirst(saved, mem', W)
      OBVIOUS
    <2>1. ~Rises(saved, mem', W[1])
      <3>1. mem'.user[u] <= mem.user[u]
        BY <1>2, <1>4, <1>6
      <3>2. QED
        BY <1>1, <1>2, <1>5, <1>7, <3>1, UserMoves
    <2>2. ~Rises(saved, mem', W[3]) /\ ~Falls(saved, mem', W[3])
      BY <1>5, OnlyMoneyMoves DEF Money, Whole
    <2>3. QED
      BY <1>5, <2>1, <2>2, LastIsFree
  <1>10. /\ Moved(Users, mem.user, mem'.user, (-a)) /\ (-a) \in Int
         /\ Moved(Workers, mem.dev, mem'.dev, 0) /\ 0 \in Int
         /\ Moved(Workers, mem.coll, mem'.coll, 0) /\ 0 \in Int
         /\ Moved(Ids, Held(mem), Held(mem'), (a - mem.vault[NextId].amount))
         /\ (a - mem.vault[NextId].amount) \in Int
    <2>1. Moved(Users, mem.user, mem'.user, (-a)) /\ (-a) \in Int
      BY <1>2, <1>4, <1>6 DEF Moved
    <2>2. Moved(Workers, mem.dev, mem'.dev, 0) /\ 0 \in Int
      BY <1>2, <1>4, <1>6 DEF Moved
    <2>3. Moved(Workers, mem.coll, mem'.coll, 0) /\ 0 \in Int
      BY <1>2, <1>4, <1>6 DEF Moved
    <2>4. /\ Moved(Ids, Held(mem), Held(mem'), (a - mem.vault[NextId].amount))
          /\ (a - mem.vault[NextId].amount) \in Int
      <3>1. /\ Held(mem)[NextId] = mem.vault[NextId].amount /\ Held(mem')[NextId] = a
            /\ \A x \in Ids : x # NextId => Held(mem')[x] = Held(mem)[x]
        <4>1. \A x \in Ids : /\ Held(mem)[x] = mem.vault[x].amount
                             /\ Held(mem')[x] = g[x].amount
          BY <1>6 DEF Held
        <4>2. NextId \in Ids /\ g[NextId].amount = a
          BY <1>2, <1>4
        <4>3. \A x \in Ids : x # NextId => g[x] = mem.vault[x]
          BY <1>4
        <4>4. QED
          BY <4>1, <4>2, <4>3
      <3>2. Held(mem')[NextId] = Held(mem)[NextId] + (a - mem.vault[NextId].amount)
        <4>1. \A x \in Nat : a = x + (a - x)
          BY <1>2
        <4>2. mem.vault[NextId].amount \in Nat
          BY <1>2
        <4>3. QED
          BY <3>1, <4>1, <4>2
      <3>3. (a - mem.vault[NextId].amount) \in Int /\ NextId \in Ids
        BY <1>2
      <3>4. QED
        BY <3>1, <3>2, <3>3, Zenon DEF Moved
    <2>5. QED
      BY <2>1, <2>2, <2>3, <2>4
  <1>11. /\ count' \in Counts /\ count'.slashed = count.slashed
         /\ Limit(count') - Limit(count) = 0 /\ count'.seeded = count.seeded
    BY <1>1, <1>2, SettledCount DEF Cent
  <1> DEFINE d == -mem.vault[NextId].amount
  <1>12. /\ d \in Int /\ 0 \in Nat /\ d <= 0 /\ count.seeded \in Nat
         /\ (~Buries => d = 0)
    <2>1. d \in Int /\ 0 \in Nat /\ d <= 0
      BY <1>2
    <2>2. ~Buries => d = 0
      BY <1>2, <1>6 DEF Buries, NoHold
    <2>3. count.seeded \in Nat
      BY DEF BInv, BookTypes, Counts
    <2>4. QED
      BY <2>1, <2>2, <2>3
  <1>13. Worth(mem') = Worth(mem) + d /\ Worth(mem) \in Int
    <2>1. Worth(mem') = Worth(mem) + (-a) + 0 + 0 + (a - mem.vault[NextId].amount)
                            + (mem'.treasury - mem.treasury)
      <3>1. IsBook(mem)
        BY <1>2
      <3>2. QED
        BY <1>7, <1>10, <3>1, WorthMoves
    <2>2. mem.treasury \in Nat /\ mem'.treasury \in Nat /\ Worth(mem) \in Int
      BY <1>2, <1>7, WorthIsInt DEF IsBook
    <2>3. QED
      BY <1>2, <1>6, <2>1, <2>2
  <1> HIDE DEF d
  <1>14. BInv'
    BY <1>1, <1>5, <1>7, <1>8, <1>9, <1>11, <1>12, <1>13, OperationKeeps
  <1>15. Conserves
    BY <1>11, <1>12, <1>13 DEF Conserves, Cent
  <1>16. QED
    BY <1>14, <1>15

LEMMA SettleKeeps ==
  ASSUME BInv, NEW i \in Ids, NEW w \in Workers, SettleEscrow(i, w, TRUE)
  PROVE  BInv' /\ Conserves
  <1> DEFINE u == mem.vault[i].owner
             a == mem.vault[i].amount
             W == << <<"vault", i>>, Whole("treasury"), <<"dev", w>>, <<"user", u>> >>
  <1>0. PICK tax \in Tax(a), net \in UNION {Cents(a - x, 1) : x \in Tax(a)} :
      /\ writes = <<>> /\ saved' = saved /\ persistent' = persistent
        /\ writes' = (IF persistent THEN W ELSE <<>>) /\ Counted("settled", 1)
        /\ mem.vault[i].kind = "freeze"
        /\ net \in Cents(a - tax, 1)
        /\ mem' = [[mem EXCEPT !.vault[i] = NoHold] EXCEPT !.treasury = @ + tax, !.dev[w] = @ + net]
    BY DEF SettleEscrow, PayWrites, Emptied, Operation, Save
  <1>1. /\ writes = <<>> /\ saved' = saved /\ persistent' = persistent
        /\ writes' = (IF persistent THEN W ELSE <<>>) /\ Counted("settled", 1)
    BY <1>0
  <1> DEFINE h == [mem.dev EXCEPT ![w] = @ + net]
             g == [mem.vault EXCEPT ![i] = NoHold]
  <1>2. /\ IsBook(mem) /\ u \in Users /\ a \in Nat /\ mem.vault[i].amount = a
        /\ tax \in Nat /\ net \in Nat /\ net - (a - tax) \in -5..5
        /\ mem.treasury \in Nat /\ mem.dev[w] \in Nat /\ NoHold \in Holds
    <2>1. IsBook(mem) /\ mem.vault[i] \in Holds
      BY DEF BInv, BookTypes, IsBook
    <2>0. u \in Users /\ a \in Nat /\ mem.vault[i].amount = a
      BY <1>0, <2>1 DEF Holds, NoHold
    <2>2. mem.treasury \in Nat /\ mem.dev[w] \in Nat /\ NoHold \in Holds
      BY DEF BInv, BookTypes, IsBook, Holds
    <2>3. tax \in Nat /\ a - tax \in Nat
      BY <1>0, <2>0, TaxFits
    <2>4. net \in Nat /\ net - (a - tax) \in -5..5
      BY <1>0, <2>3, CentsNear
    <2>5. QED
      BY <2>0, <2>1, <2>2, <2>3, <2>4
  <1> HIDE DEF u, a
  <1>3. mem' = Book(mem.user, h, g, mem.treasury + tax, mem.counter, mem.coll, mem.strikes,
                    mem.used, mem.rep, mem.rated, mem.entries, mem.score)
    BY <1>0, <1>2 DEF IsBook, Book
  <1>4. /\ h \in [Workers -> Nat]
        /\ h[w] = mem.dev[w] + net /\ \A x \in Workers : x # w => h[x] = mem.dev[x]
        /\ g \in [Ids -> Holds]
        /\ g[i] = NoHold /\ \A x \in Ids : x # i => g[x] = mem.vault[x]
        /\ mem.treasury + tax \in Nat
    BY <1>2 DEF IsBook
  <1>5. /\ W \in Seq(Entries) /\ Len(W) = 4
        /\ W[1] = <<"vault", i>> /\ <<"vault", i>> \in Waiting(W)
        /\ W[2] = Whole("treasury") /\ Whole("treasury") \in Waiting(W)
        /\ W[3] = <<"dev", w>> /\ <<"dev", w>> \in Waiting(W)
        /\ W[4] = <<"user", u>> /\ <<"user", u>> \in Waiting(W)
    <2>1. /\ W \in Seq(Entries) /\ Len(W) = 4
          /\ W[1] = <<"vault", i>>
          /\ W[2] = Whole("treasury")
          /\ W[3] = <<"dev", w>>
          /\ W[4] = <<"user", u>>
      BY <1>2 DEF Entries, KeyedByUser, KeyedByWorker, Scalars, Whole
    <2>2. 1 \in 1..Len(W) /\ 2 \in 1..Len(W) /\ 3 \in 1..Len(W) /\ 4 \in 1..Len(W)
      BY <2>1
    <2>3. QED
      BY <2>1, <2>2, IsWaiting
  <1> HIDE DEF W, h, g
  <1>6. /\ mem'.user = mem.user /\ mem'.dev = h /\ mem'.vault = g
           /\ mem'.treasury = mem.treasury + tax /\ mem'.counter = mem.counter
           /\ mem'.coll = mem.coll /\ mem'.strikes = mem.strikes /\ mem'.used = mem.used
           /\ mem'.rep = mem.rep /\ mem'.rated = mem.rated /\ mem'.entries = mem.entries
           /\ mem'.score = mem.score
    BY <1>3 DEF Book
  <1>7. IsBook(mem')
    BY <1>2, <1>3, <1>4, MemTypes, BookMade
  <1>8. Changes(mem, mem', Waiting(W))
    BY <1>4, <1>5, <1>6 DEF Changes
  <1>9. persistent => FallsFirst(saved, mem', W)
    <2> SUFFICES ASSUME persistent PROVE FallsFirst(saved, mem', W)
      OBVIOUS
    <2>1. ~Rises(saved, mem', <<"vault", i>>)
      <3>1. mem'.vault[i].amount <= a
        BY <1>2, <1>4, <1>6 DEF IsBook, NoHold
      <3>2. QED
        BY <1>1, <1>2, <1>7, <3>1, HoldMoves
    <2>2. ~Falls(saved, mem', Whole("treasury"))
      <3>1. mem'.treasury >= mem.treasury
        BY <1>2, <1>4, <1>6 DEF IsBook, NoHold
      <3>2. QED
        BY <1>1, <1>2, <1>7, <3>1, TreasuryMoves
    <2>3. ~Falls(saved, mem', <<"dev", w>>)
      <3>1. mem'.dev[w] >= mem.dev[w]
        BY <1>2, <1>4, <1>6 DEF IsBook, NoHold
      <3>2. QED
        BY <1>1, <1>2, <1>7, <3>1, DevMoves
    <2>4. ~Falls(saved, mem', <<"user", u>>)
      <3>1. mem'.user[u] >= mem.user[u]
        BY <1>2, <1>4, <1>6 DEF IsBook, NoHold
      <3>2. QED
        BY <1>1, <1>2, <1>7, <3>1, UserMoves
    <2>5. /\ \A n \in 1..Len(W) : n <= 1 => ~Rises(saved, mem', W[n])
          /\ \A n \in 1..Len(W) : n > 1 => ~Falls(saved, mem', W[n])
      <3>1. /\ ~Rises(saved, mem', W[1]) /\ ~Falls(saved, mem', W[2])
            /\ ~Falls(saved, mem', W[3]) /\ ~Falls(saved, mem', W[4])
        BY <1>5, <2>1, <2>2, <2>3, <2>4
      <3>2. \A n \in 1..Len(W) : (n <= 1 => n = 1) /\ (n > 1 => n = 2 \/ n = 3 \/ n = 4)
        BY <1>5
      <3>3. QED
        BY <3>1, <3>2
    <2>6. QED
      BY <1>5, <2>5, SplitAt
  <1>10. /\ Moved(Users, mem.user, mem'.user, 0) /\ 0 \in Int
         /\ Moved(Workers, mem.dev, mem'.dev, net) /\ net \in Int
         /\ Moved(Workers, mem.coll, mem'.coll, 0) /\ 0 \in Int
         /\ Moved(Ids, Held(mem), Held(mem'), (-a)) /\ (-a) \in Int
    <2>1. Moved(Users, mem.user, mem'.user, 0) /\ 0 \in Int
      BY <1>2, <1>4, <1>6 DEF Moved
    <2>2. Moved(Workers, mem.dev, mem'.dev, net) /\ net \in Int
      BY <1>2, <1>4, <1>6 DEF Moved
    <2>3. Moved(Workers, mem.coll, mem'.coll, 0) /\ 0 \in Int
      BY <1>2, <1>4, <1>6 DEF Moved
    <2>4. Moved(Ids, Held(mem), Held(mem'), (-a)) /\ (-a) \in Int
      BY <1>2, <1>4, <1>6 DEF Moved, Held, NoHold
    <2>5. QED
      BY <2>1, <2>2, <2>3, <2>4
  <1>11. /\ count' \in Counts /\ count'.slashed = count.slashed
         /\ Limit(count') - Limit(count) = 10 /\ count'.seeded = count.seeded
    BY <1>1, <1>2, SettledCount DEF Cent
  <1> DEFINE d == net - a + tax
  <1>12. /\ d \in Int /\ 10 \in Nat /\ d <= 10 /\ count.seeded \in Nat
         /\ d \in -10..10
    <2>1. count.seeded \in Nat
      BY DEF BInv, BookTypes, Counts
    <2>2. QED
      BY <1>2, <2>1
  <1>13. Worth(mem') = Worth(mem) + d /\ Worth(mem) \in Int
    <2>1. Worth(mem') = Worth(mem) + 0 + net + 0 + (-a) + (mem'.treasury - mem.treasury)
      <3>1. IsBook(mem)
        BY <1>2
      <3>2. QED
        BY <1>7, <1>10, <3>1, WorthMoves
    <2>2. mem.treasury \in Nat /\ mem'.treasury \in Nat /\ Worth(mem) \in Int
      BY <1>2, <1>7, WorthIsInt DEF IsBook
    <2>3. QED
      BY <1>2, <1>6, <2>1, <2>2
  <1> HIDE DEF d
  <1>14. BInv'
    BY <1>1, <1>5, <1>7, <1>8, <1>9, <1>11, <1>12, <1>13, OperationKeeps
  <1>15. Conserves
    BY <1>11, <1>12, <1>13 DEF Conserves, Cent
  <1>16. QED
    BY <1>14, <1>15

LEMMA ReleaseKeeps ==
  ASSUME BInv, NEW i \in Ids, NEW w \in Workers, NEW c \in Costs,
         ReleaseEscrowDynamic(i, w, c, TRUE)
  PROVE  BInv' /\ Conserves
  <1> DEFINE u == mem.vault[i].owner
             a == mem.vault[i].amount
             t == IF c < a THEN c ELSE a
             W == << <<"vault", i>>, Whole("treasury"), <<"dev", w>>, <<"user", u>>,
                     <<"used", u>>, <<"rep", u>> >>
  <1>0. PICK tax \in Tax(t), back \in Unused(a, t),
           net \in UNION {Cents(t - x, 1) : x \in Tax(t)} :
      /\ writes = <<>> /\ saved' = saved /\ persistent' = persistent
        /\ writes' = (IF persistent THEN W ELSE <<>>) /\ Counted("settled", 1)
        /\ mem.vault[i].kind = "hold"
        /\ net \in Cents(t - tax, 1)
        /\ mem' = [[mem EXCEPT !.vault[i] = NoHold] EXCEPT !.treasury = @ + tax, !.dev[w] = @ + net,
                       !.user[u] = @ + back, !.used[u] = TRUE]
    <2>1. PayWrites(i, w, u) \o << <<"used", u>>, <<"rep", u>> >> = W
      BY SixWrites DEF PayWrites
    <2>2. /\ mem.vault[i].kind = "hold" /\ Operation /\ Counted("settled", 1) /\ Save(W)
          /\ \E tax \in Tax(t), back \in Unused(a, t) : \E net \in Cents(t - tax, 1) :
               mem' = [Emptied(i) EXCEPT !.treasury = @ + tax, !.dev[w] = @ + net,
                         !.user[u] = @ + back, !.used[u] = TRUE]
      BY <2>1 DEF ReleaseEscrowDynamic
    <2> HIDE DEF a, t, u, W
    <2>3. PICK x \in Tax(t), y \in Unused(a, t) : \E z \in Cents(t - x, 1) :
            mem' = [Emptied(i) EXCEPT !.treasury = @ + x, !.dev[w] = @ + z,
                      !.user[u] = @ + y, !.used[u] = TRUE]
      BY <2>2
    <2>4. PICK z \in Cents(t - x, 1) :
            mem' = [Emptied(i) EXCEPT !.treasury = @ + x, !.dev[w] = @ + z,
                      !.user[u] = @ + y, !.used[u] = TRUE]
      BY <2>3
    <2>5. z \in UNION {Cents(t - v, 1) : v \in Tax(t)}
      OBVIOUS
    <2>6. QED
      BY <2>2, <2>4, <2>5 DEF Emptied, Operation, Save
  <1>1. /\ writes = <<>> /\ saved' = saved /\ persistent' = persistent
        /\ writes' = (IF persistent THEN W ELSE <<>>) /\ Counted("settled", 1)
    BY <1>0
  <1> DEFINE f == [mem.user EXCEPT ![u] = @ + back]
             h == [mem.dev EXCEPT ![w] = @ + net]
             g == [mem.vault EXCEPT ![i] = NoHold]
             k == [mem.used EXCEPT ![u] = TRUE]
  <1>2. /\ IsBook(mem) /\ u \in Users /\ a \in Nat /\ mem.vault[i].amount = a
        /\ t \in Nat /\ tax \in Nat /\ net \in Nat /\ net - (t - tax) \in -5..5
        /\ back \in Nat /\ back - (a - t) \in -5..5 /\ mem.user[u] \in Nat
        /\ mem.treasury \in Nat /\ mem.dev[w] \in Nat /\ NoHold \in Holds
    <2>1. IsBook(mem) /\ mem.vault[i] \in Holds
      BY DEF BInv, BookTypes, IsBook
    <2>0. u \in Users /\ a \in Nat /\ mem.vault[i].amount = a
      BY <1>0, <2>1 DEF Holds, NoHold
    <2>2. mem.treasury \in Nat /\ mem.dev[w] \in Nat /\ NoHold \in Holds
      BY DEF BInv, BookTypes, IsBook, Holds
    <2>3. t \in Nat /\ a - t \in Nat
      BY <2>0, BooksConstants DEF t
    <2>4. tax \in Nat /\ t - tax \in Nat
      BY <1>0, <2>3, TaxFits
    <2>5. net \in Nat /\ net - (t - tax) \in -5..5
      BY <1>0, <2>4, CentsNear
    <2>6. back \in Nat /\ back - (a - t) \in -5..5
      BY <1>0, <2>3, CentsNear DEF Unused
    <2>7. mem.user[u] \in Nat
      BY <2>0, <2>1 DEF IsBook
    <2>8. QED
      BY <2>0, <2>1, <2>2, <2>3, <2>4, <2>5, <2>6, <2>7
  <1> HIDE DEF u, a, t
  <1>3. mem' = Book(f, h, g, mem.treasury + tax, mem.counter, mem.coll, mem.strikes, k, mem.rep,
                    mem.rated, mem.entries, mem.score)
    BY <1>0, <1>2 DEF IsBook, Book
  <1>4. /\ f \in [Users -> Nat]
        /\ f[u] = mem.user[u] + back /\ \A x \in Users : x # u => f[x] = mem.user[x]
        /\ h \in [Workers -> Nat]
        /\ h[w] = mem.dev[w] + net /\ \A x \in Workers : x # w => h[x] = mem.dev[x]
        /\ g \in [Ids -> Holds]
        /\ g[i] = NoHold /\ \A x \in Ids : x # i => g[x] = mem.vault[x]
        /\ mem.treasury + tax \in Nat
        /\ k \in [Users -> BOOLEAN]
        /\ k[u] = TRUE /\ \A x \in Users : x # u => k[x] = mem.used[x]
    BY <1>2 DEF IsBook
  <1>5. /\ W \in Seq(Entries) /\ Len(W) = 6
        /\ W[1] = <<"vault", i>> /\ <<"vault", i>> \in Waiting(W)
        /\ W[2] = Whole("treasury") /\ Whole("treasury") \in Waiting(W)
        /\ W[3] = <<"dev", w>> /\ <<"dev", w>> \in Waiting(W)
        /\ W[4] = <<"user", u>> /\ <<"user", u>> \in Waiting(W)
        /\ W[5] = <<"used", u>> /\ <<"used", u>> \in Waiting(W)
        /\ W[6] = <<"rep", u>> /\ <<"rep", u>> \in Waiting(W)
    <2>1. /\ W \in Seq(Entries) /\ Len(W) = 6
          /\ W[1] = <<"vault", i>>
          /\ W[2] = Whole("treasury")
          /\ W[3] = <<"dev", w>>
          /\ W[4] = <<"user", u>>
          /\ W[5] = <<"used", u>>
          /\ W[6] = <<"rep", u>>
      BY <1>2 DEF Entries, KeyedByUser, KeyedByWorker, Scalars, Whole
    <2>2. /\ 1 \in 1..Len(W) /\ 2 \in 1..Len(W) /\ 3 \in 1..Len(W)
          /\ 4 \in 1..Len(W) /\ 5 \in 1..Len(W) /\ 6 \in 1..Len(W)
      BY <2>1
    <2>3. QED
      BY <2>1, <2>2, IsWaiting
  <1> HIDE DEF W, f, h, g, k
  <1>6. /\ mem'.user = f /\ mem'.dev = h /\ mem'.vault = g
           /\ mem'.treasury = mem.treasury + tax /\ mem'.counter = mem.counter
           /\ mem'.coll = mem.coll /\ mem'.strikes = mem.strikes /\ mem'.used = k
           /\ mem'.rep = mem.rep /\ mem'.rated = mem.rated /\ mem'.entries = mem.entries
           /\ mem'.score = mem.score
    BY <1>3 DEF Book
  <1>7. IsBook(mem')
    BY <1>2, <1>3, <1>4, MemTypes, BookMade
  <1>8. Changes(mem, mem', Waiting(W))
    BY <1>4, <1>5, <1>6 DEF Changes
  <1>9. persistent => FallsFirst(saved, mem', W)
    <2> SUFFICES ASSUME persistent PROVE FallsFirst(saved, mem', W)
      OBVIOUS
    <2>1. ~Rises(saved, mem', <<"vault", i>>)
      <3>1. mem'.vault[i].amount <= a
        BY <1>2, <1>4, <1>6 DEF IsBook, NoHold
      <3>2. QED
        BY <1>1, <1>2, <1>7, <3>1, HoldMoves
    <2>2. ~Falls(saved, mem', Whole("treasury"))
      <3>1. mem'.treasury >= mem.treasury
        BY <1>2, <1>4, <1>6 DEF IsBook, NoHold
      <3>2. QED
        BY <1>1, <1>2, <1>7, <3>1, TreasuryMoves
    <2>3. ~Falls(saved, mem', <<"dev", w>>)
      <3>1. mem'.dev[w] >= mem.dev[w]
        BY <1>2, <1>4, <1>6 DEF IsBook, NoHold
      <3>2. QED
        BY <1>1, <1>2, <1>7, <3>1, DevMoves
    <2>4. ~Falls(saved, mem', <<"user", u>>)
      <3>1. mem'.user[u] >= mem.user[u]
        BY <1>2, <1>4, <1>6 DEF IsBook, NoHold
      <3>2. QED
        BY <1>1, <1>2, <1>7, <3>1, UserMoves
    <2>5. ~Falls(saved, mem', <<"used", u>>)
      BY OnlyMoneyMoves DEF Money, Whole
    <2>6. ~Falls(saved, mem', <<"rep", u>>)
      BY OnlyMoneyMoves DEF Money, Whole
    <2>w. /\ ~Rises(saved, mem', W[1])
          /\ ~Falls(saved, mem', W[2])
          /\ ~Falls(saved, mem', W[3])
          /\ ~Falls(saved, mem', W[4])
          /\ ~Falls(saved, mem', W[5])
          /\ ~Falls(saved, mem', W[6])
      BY <1>5, <2>1, <2>2, <2>3, <2>4, <2>5, <2>6
    <2>v. Len(W) = 6
      BY <1>5
    <2>7. /\ \A n \in 1..Len(W) : n <= 1 => ~Rises(saved, mem', W[n])
          /\ \A n \in 1..Len(W) : n > 1 => ~Falls(saved, mem', W[n])
      BY <2>v, <2>w
    <2>8. QED
      BY <1>5, <2>7, SplitAt
  <1>10. /\ Moved(Users, mem.user, mem'.user, back) /\ back \in Int
         /\ Moved(Workers, mem.dev, mem'.dev, net) /\ net \in Int
         /\ Moved(Workers, mem.coll, mem'.coll, 0) /\ 0 \in Int
         /\ Moved(Ids, Held(mem), Held(mem'), (-a)) /\ (-a) \in Int
    <2>1. Moved(Users, mem.user, mem'.user, back) /\ back \in Int
      BY <1>2, <1>4, <1>6 DEF Moved
    <2>2. Moved(Workers, mem.dev, mem'.dev, net) /\ net \in Int
      BY <1>2, <1>4, <1>6 DEF Moved
    <2>3. Moved(Workers, mem.coll, mem'.coll, 0) /\ 0 \in Int
      BY <1>2, <1>4, <1>6 DEF Moved
    <2>4. Moved(Ids, Held(mem), Held(mem'), (-a)) /\ (-a) \in Int
      BY <1>2, <1>4, <1>6 DEF Moved, Held, NoHold
    <2>5. QED
      BY <2>1, <2>2, <2>3, <2>4
  <1>11. /\ count' \in Counts /\ count'.slashed = count.slashed
         /\ Limit(count') - Limit(count) = 10 /\ count'.seeded = count.seeded
    BY <1>1, <1>2, SettledCount DEF Cent
  <1> DEFINE d == back + net - a + tax
  <1>12. /\ d \in Int /\ 10 \in Nat /\ d <= 10 /\ count.seeded \in Nat
         /\ d \in -10..10
    <2>1. count.seeded \in Nat
      BY DEF BInv, BookTypes, Counts
    <2>2. QED
      BY <1>2, <2>1
  <1>13. Worth(mem') = Worth(mem) + d /\ Worth(mem) \in Int
    <2>1. Worth(mem') = Worth(mem) + back + net + 0 + (-a) + (mem'.treasury - mem.treasury)
      <3>1. IsBook(mem)
        BY <1>2
      <3>2. QED
        BY <1>7, <1>10, <3>1, WorthMoves
    <2>2. mem.treasury \in Nat /\ mem'.treasury \in Nat /\ Worth(mem) \in Int
      BY <1>2, <1>7, WorthIsInt DEF IsBook
    <2>3. QED
      BY <1>2, <1>6, <2>1, <2>2
  <1> HIDE DEF d
  <1>14. BInv'
    BY <1>1, <1>5, <1>7, <1>8, <1>9, <1>11, <1>12, <1>13, OperationKeeps
  <1>15. Conserves
    BY <1>11, <1>12, <1>13 DEF Conserves, Cent
  <1>16. QED
    BY <1>14, <1>15

LEMMA RefundKeeps ==
  ASSUME BInv, NEW i \in Ids, NEW w \in Workers, NEW c,
         SettleEscrow(i, w, FALSE) \/ ReleaseEscrowDynamic(i, w, c, FALSE)
  PROVE  BInv' /\ Conserves
  <1> DEFINE u == mem.vault[i].owner
             a == mem.vault[i].amount
             W == << <<"vault", i>>, <<"user", u>> >>
  <1>0. /\ writes = <<>> /\ saved' = saved /\ persistent' = persistent
        /\ writes' = (IF persistent THEN W ELSE <<>>) /\ Counted("settled", 1)
        /\ mem.vault[i].kind \in {"freeze", "hold"}
        /\ mem' = [[mem EXCEPT !.vault[i] = NoHold] EXCEPT !.user[u] = @ + a]
    BY DEF SettleEscrow, ReleaseEscrowDynamic, Emptied, Operation, Save
  <1>1. /\ writes = <<>> /\ saved' = saved /\ persistent' = persistent
        /\ writes' = (IF persistent THEN W ELSE <<>>) /\ Counted("settled", 1)
    BY <1>0
  <1> DEFINE f == [mem.user EXCEPT ![u] = @ + a]
             g == [mem.vault EXCEPT ![i] = NoHold]
  <1>2. /\ IsBook(mem) /\ u \in Users /\ a \in Nat /\ mem.vault[i].amount = a
        /\ mem.user[u] \in Nat /\ NoHold \in Holds
    <2>1. IsBook(mem) /\ mem.vault[i] \in Holds
      BY DEF BInv, BookTypes, IsBook
    <2>0. u \in Users /\ a \in Nat /\ mem.vault[i].amount = a
      BY <1>0, <2>1 DEF Holds, NoHold
    <2>2. NoHold \in Holds
      BY DEF BInv, BookTypes, IsBook, Holds
    <2>3. mem.user[u] \in Nat
      BY <2>0, <2>1 DEF IsBook
    <2>4. QED
      BY <2>0, <2>1, <2>2, <2>3
  <1> HIDE DEF u, a
  <1>3. mem' = Book(f, mem.dev, g, mem.treasury, mem.counter, mem.coll, mem.strikes, mem.used,
                    mem.rep, mem.rated, mem.entries, mem.score)
    BY <1>0, <1>2 DEF IsBook, Book
  <1>4. /\ f \in [Users -> Nat]
        /\ f[u] = mem.user[u] + a /\ \A x \in Users : x # u => f[x] = mem.user[x]
        /\ g \in [Ids -> Holds]
        /\ g[i] = NoHold /\ \A x \in Ids : x # i => g[x] = mem.vault[x]
    BY <1>2 DEF IsBook
  <1>5. /\ W \in Seq(Entries) /\ Len(W) = 2
        /\ W[1] = <<"vault", i>> /\ <<"vault", i>> \in Waiting(W)
        /\ W[2] = <<"user", u>> /\ <<"user", u>> \in Waiting(W)
    <2>1. /\ W \in Seq(Entries) /\ Len(W) = 2
          /\ W[1] = <<"vault", i>>
          /\ W[2] = <<"user", u>>
      BY <1>2 DEF Entries, KeyedByUser, KeyedByWorker, Scalars, Whole
    <2>2. 1 \in 1..Len(W) /\ 2 \in 1..Len(W)
      BY <2>1
    <2>3. QED
      BY <2>1, <2>2, IsWaiting
  <1> HIDE DEF W, f, g
  <1>6. /\ mem'.user = f /\ mem'.dev = mem.dev /\ mem'.vault = g
           /\ mem'.treasury = mem.treasury /\ mem'.counter = mem.counter /\ mem'.coll = mem.coll
           /\ mem'.strikes = mem.strikes /\ mem'.used = mem.used /\ mem'.rep = mem.rep
           /\ mem'.rated = mem.rated /\ mem'.entries = mem.entries /\ mem'.score = mem.score
    BY <1>3 DEF Book
  <1>7. IsBook(mem')
    BY <1>2, <1>3, <1>4, MemTypes, BookMade
  <1>8. Changes(mem, mem', Waiting(W))
    BY <1>4, <1>5, <1>6 DEF Changes
  <1>9. persistent => FallsFirst(saved, mem', W)
    <2> SUFFICES ASSUME persistent PROVE FallsFirst(saved, mem', W)
      OBVIOUS
    <2>1. ~Rises(saved, mem', <<"vault", i>>)
      <3>1. mem'.vault[i].amount <= a
        BY <1>2, <1>4, <1>6 DEF IsBook, NoHold
      <3>2. QED
        BY <1>1, <1>2, <1>7, <3>1, HoldMoves
    <2>2. ~Falls(saved, mem', <<"user", u>>)
      <3>1. mem'.user[u] >= mem.user[u]
        BY <1>2, <1>4, <1>6 DEF IsBook, NoHold
      <3>2. QED
        BY <1>1, <1>2, <1>7, <3>1, UserMoves
    <2>3. /\ \A n \in 1..Len(W) : n <= 1 => ~Rises(saved, mem', W[n])
          /\ \A n \in 1..Len(W) : n > 1 => ~Falls(saved, mem', W[n])
      <3>1. ~Rises(saved, mem', W[1]) /\ ~Falls(saved, mem', W[2])
        BY <1>5, <2>1, <2>2
      <3>2. \A n \in 1..Len(W) : (n <= 1 => n = 1) /\ (n > 1 => n = 2)
        BY <1>5
      <3>3. QED
        BY <3>1, <3>2
    <2>4. QED
      BY <1>5, <2>3, SplitAt
  <1>10. /\ Moved(Users, mem.user, mem'.user, a) /\ a \in Int
         /\ Moved(Workers, mem.dev, mem'.dev, 0) /\ 0 \in Int
         /\ Moved(Workers, mem.coll, mem'.coll, 0) /\ 0 \in Int
         /\ Moved(Ids, Held(mem), Held(mem'), (-a)) /\ (-a) \in Int
    <2>1. Moved(Users, mem.user, mem'.user, a) /\ a \in Int
      BY <1>2, <1>4, <1>6 DEF Moved
    <2>2. Moved(Workers, mem.dev, mem'.dev, 0) /\ 0 \in Int
      BY <1>2, <1>4, <1>6 DEF Moved
    <2>3. Moved(Workers, mem.coll, mem'.coll, 0) /\ 0 \in Int
      BY <1>2, <1>4, <1>6 DEF Moved
    <2>4. Moved(Ids, Held(mem), Held(mem'), (-a)) /\ (-a) \in Int
      BY <1>2, <1>4, <1>6 DEF Moved, Held, NoHold
    <2>5. QED
      BY <2>1, <2>2, <2>3, <2>4
  <1>11. /\ count' \in Counts /\ count'.slashed = count.slashed
         /\ Limit(count') - Limit(count) = 10 /\ count'.seeded = count.seeded
    BY <1>1, <1>2, SettledCount DEF Cent
  <1> DEFINE d == 0
  <1>12. /\ d \in Int /\ 10 \in Nat /\ d <= 10 /\ count.seeded \in Nat
         /\ d \in -10..10
    <2>1. count.seeded \in Nat
      BY DEF BInv, BookTypes, Counts
    <2>2. QED
      BY <1>2, <2>1
  <1>13. Worth(mem') = Worth(mem) + d /\ Worth(mem) \in Int
    <2>1. Worth(mem') = Worth(mem) + a + 0 + 0 + (-a) + (mem'.treasury - mem.treasury)
      <3>1. IsBook(mem)
        BY <1>2
      <3>2. QED
        BY <1>7, <1>10, <3>1, WorthMoves
    <2>2. mem.treasury \in Nat /\ mem'.treasury \in Nat /\ Worth(mem) \in Int
      BY <1>2, <1>7, WorthIsInt DEF IsBook
    <2>3. QED
      BY <1>2, <1>6, <2>1, <2>2
  <1> HIDE DEF d
  <1>14. BInv'
    BY <1>1, <1>5, <1>7, <1>8, <1>9, <1>11, <1>12, <1>13, OperationKeeps
  <1>15. Conserves
    BY <1>11, <1>12, <1>13 DEF Conserves, Cent
  <1>16. QED
    BY <1>14, <1>15

LEMMA OutlierKeeps ==
  ASSUME BInv, NEW u \in Users, NEW r \in Ratings, SubmitRating(u, r), Outlier(mem.entries, r)
  PROVE  BInv' /\ Conserves
  <1> DEFINE W == << <<"rep", u>> >>
  <1>0. /\ writes = <<>> /\ saved' = saved /\ persistent' = persistent
        /\ writes' = (IF persistent THEN W ELSE <<>>) /\ Counted("settled", 0)
        /\ mem' = [mem EXCEPT !.rep[u] = IF @ > 0 THEN @ - 1 ELSE 0]
    BY DEF SubmitRating, Operation, Save
  <1>1. /\ writes = <<>> /\ saved' = saved /\ persistent' = persistent
        /\ writes' = (IF persistent THEN W ELSE <<>>) /\ Counted("settled", 0)
    BY <1>0
  <1> DEFINE h == [mem.rep EXCEPT ![u] = IF @ > 0 THEN @ - 1 ELSE 0]
  <1>2. IsBook(mem)
    BY DEF BInv, BookTypes
  <1>3. mem' = Book(mem.user, mem.dev, mem.vault, mem.treasury, mem.counter, mem.coll,
                    mem.strikes, mem.used, h, mem.rated, mem.entries, mem.score)
    BY <1>0, <1>2 DEF IsBook, Book
  <1>4. /\ h \in [Users -> Nat]
        /\ h[u] = (IF mem.rep[u] > 0 THEN mem.rep[u] - 1 ELSE 0)
        /\ \A x \in Users : x # u => h[x] = mem.rep[x]
    BY <1>2 DEF IsBook
  <1>5. /\ W \in Seq(Entries) /\ Len(W) = 1
        /\ W[1] = <<"rep", u>> /\ <<"rep", u>> \in Waiting(W)
    <2>1. /\ W \in Seq(Entries) /\ Len(W) = 1
          /\ W[1] = <<"rep", u>>
      BY <1>2 DEF Entries, KeyedByUser, KeyedByWorker, Scalars, Whole
    <2>2. 1 \in 1..Len(W)
      BY <2>1
    <2>3. QED
      BY <2>1, <2>2, IsWaiting
  <1> HIDE DEF W, h
  <1>6. /\ mem'.user = mem.user /\ mem'.dev = mem.dev /\ mem'.vault = mem.vault
           /\ mem'.treasury = mem.treasury /\ mem'.counter = mem.counter /\ mem'.coll = mem.coll
           /\ mem'.strikes = mem.strikes /\ mem'.used = mem.used /\ mem'.rep = h
           /\ mem'.rated = mem.rated /\ mem'.entries = mem.entries /\ mem'.score = mem.score
    BY <1>3 DEF Book
  <1>7. IsBook(mem')
    BY <1>2, <1>3, <1>4, MemTypes, BookMade
  <1>8. Changes(mem, mem', Waiting(W))
    BY <1>4, <1>5, <1>6 DEF Changes
  <1>9. persistent => FallsFirst(saved, mem', W)
    BY <1>5 DEF FallsFirst
  <1>10. /\ Moved(Users, mem.user, mem'.user, 0) /\ 0 \in Int
         /\ Moved(Workers, mem.dev, mem'.dev, 0) /\ 0 \in Int
         /\ Moved(Workers, mem.coll, mem'.coll, 0) /\ 0 \in Int
         /\ Moved(Ids, Held(mem), Held(mem'), 0) /\ 0 \in Int
    <2>1. Moved(Users, mem.user, mem'.user, 0) /\ 0 \in Int
      BY <1>2, <1>4, <1>6 DEF Moved
    <2>2. Moved(Workers, mem.dev, mem'.dev, 0) /\ 0 \in Int
      BY <1>2, <1>4, <1>6 DEF Moved
    <2>3. Moved(Workers, mem.coll, mem'.coll, 0) /\ 0 \in Int
      BY <1>2, <1>4, <1>6 DEF Moved
    <2>4. Moved(Ids, Held(mem), Held(mem'), 0) /\ 0 \in Int
      BY <1>2, <1>4, <1>6 DEF Moved, Held, NoHold
    <2>5. QED
      BY <2>1, <2>2, <2>3, <2>4
  <1>11. /\ count' \in Counts /\ count'.slashed = count.slashed
         /\ Limit(count') - Limit(count) = 0 /\ count'.seeded = count.seeded
    BY <1>1, <1>2, SettledCount DEF Cent
  <1> DEFINE d == 0
  <1>12. /\ d \in Int /\ 0 \in Nat /\ d <= 0 /\ count.seeded \in Nat
         /\ d \in -10..10
    <2>1. count.seeded \in Nat
      BY DEF BInv, BookTypes, Counts
    <2>2. QED
      BY <1>2, <2>1
  <1>13. Worth(mem') = Worth(mem) + d /\ Worth(mem) \in Int
    <2>1. Worth(mem') = Worth(mem) + 0 + 0 + 0 + 0 + (mem'.treasury - mem.treasury)
      <3>1. IsBook(mem)
        BY <1>2
      <3>2. QED
        BY <1>7, <1>10, <3>1, WorthMoves
    <2>2. mem.treasury \in Nat /\ mem'.treasury \in Nat /\ Worth(mem) \in Int
      BY <1>2, <1>7, WorthIsInt DEF IsBook
    <2>3. QED
      BY <1>2, <1>6, <2>1, <2>2
  <1> HIDE DEF d
  <1>14. BInv'
    BY <1>1, <1>5, <1>7, <1>8, <1>9, <1>11, <1>12, <1>13, OperationKeeps
  <1>15. Conserves
    BY <1>11, <1>12, <1>13 DEF Conserves, Cent
  <1>16. QED
    BY <1>14, <1>15

LEMMA RatingKeeps ==
  ASSUME BInv, NEW u \in Users, NEW r \in Ratings, SubmitRating(u, r), ~Outlier(mem.entries, r)
  PROVE  BInv' /\ Conserves
  <1> DEFINE W == << Whole("entries"), Whole("score"), <<"rated", u>> >>
             s == Append(mem.entries, [user |-> u, rep |-> mem.rep[u], rating |-> r])
  <1>0. PICK score \in Scores(s) :
      /\ writes = <<>> /\ saved' = saved /\ persistent' = persistent
        /\ writes' = (IF persistent THEN W ELSE <<>>) /\ Counted("settled", 0)
        /\ mem' = [mem EXCEPT !.entries = s, !.score = score, !.rated[u] = @ + 1]
    BY DEF SubmitRating, RatingWrites, Operation, Save
  <1>1. /\ writes = <<>> /\ saved' = saved /\ persistent' = persistent
        /\ writes' = (IF persistent THEN W ELSE <<>>) /\ Counted("settled", 0)
    BY <1>0
  <1> DEFINE h == [mem.rated EXCEPT ![u] = @ + 1]
  <1>2. IsBook(mem)
    BY DEF BInv, BookTypes
  <1>3. mem' = Book(mem.user, mem.dev, mem.vault, mem.treasury, mem.counter, mem.coll,
                    mem.strikes, mem.used, mem.rep, h, s, score)
    BY <1>0, <1>2 DEF IsBook, Book
  <1>4. /\ h \in [Users -> Nat]
        /\ h[u] = mem.rated[u] + 1 /\ \A x \in Users : x # u => h[x] = mem.rated[x]
    BY <1>2 DEF IsBook
  <1>5. /\ W \in Seq(Entries) /\ Len(W) = 3
        /\ W[1] = Whole("entries") /\ Whole("entries") \in Waiting(W)
        /\ W[2] = Whole("score") /\ Whole("score") \in Waiting(W)
        /\ W[3] = <<"rated", u>> /\ <<"rated", u>> \in Waiting(W)
    <2>1. /\ W \in Seq(Entries) /\ Len(W) = 3
          /\ W[1] = Whole("entries")
          /\ W[2] = Whole("score")
          /\ W[3] = <<"rated", u>>
      BY <1>2 DEF Entries, KeyedByUser, KeyedByWorker, Scalars, Whole
    <2>2. 1 \in 1..Len(W) /\ 2 \in 1..Len(W) /\ 3 \in 1..Len(W)
      BY <2>1
    <2>3. QED
      BY <2>1, <2>2, IsWaiting
  <1> HIDE DEF W, h
  <1>6. /\ mem'.user = mem.user /\ mem'.dev = mem.dev /\ mem'.vault = mem.vault
           /\ mem'.treasury = mem.treasury /\ mem'.counter = mem.counter /\ mem'.coll = mem.coll
           /\ mem'.strikes = mem.strikes /\ mem'.used = mem.used /\ mem'.rep = mem.rep
           /\ mem'.rated = h /\ mem'.entries = s /\ mem'.score = score
    BY <1>3 DEF Book
  <1>7. IsBook(mem')
    BY <1>2, <1>3, <1>4, MemTypes, BookMade
  <1>8. Changes(mem, mem', Waiting(W))
    BY <1>4, <1>5, <1>6 DEF Changes
  <1>9. persistent => FallsFirst(saved, mem', W)
    <2> SUFFICES ASSUME persistent PROVE FallsFirst(saved, mem', W)
      OBVIOUS
    <2>1. ~Falls(saved, mem', Whole("entries"))
      BY OnlyMoneyMoves DEF Money, Whole
    <2>2. ~Falls(saved, mem', Whole("score"))
      BY OnlyMoneyMoves DEF Money, Whole
    <2>3. ~Falls(saved, mem', <<"rated", u>>)
      BY OnlyMoneyMoves DEF Money, Whole
    <2>4. /\ \A n \in 1..Len(W) : n <= 0 => ~Rises(saved, mem', W[n])
          /\ \A n \in 1..Len(W) : n > 0 => ~Falls(saved, mem', W[n])
      BY <1>5, <2>1, <2>2, <2>3
    <2>5. QED
      BY <1>5, <2>4, SplitAt
  <1>10. /\ Moved(Users, mem.user, mem'.user, 0) /\ 0 \in Int
         /\ Moved(Workers, mem.dev, mem'.dev, 0) /\ 0 \in Int
         /\ Moved(Workers, mem.coll, mem'.coll, 0) /\ 0 \in Int
         /\ Moved(Ids, Held(mem), Held(mem'), 0) /\ 0 \in Int
    <2>1. Moved(Users, mem.user, mem'.user, 0) /\ 0 \in Int
      BY <1>2, <1>4, <1>6 DEF Moved
    <2>2. Moved(Workers, mem.dev, mem'.dev, 0) /\ 0 \in Int
      BY <1>2, <1>4, <1>6 DEF Moved
    <2>3. Moved(Workers, mem.coll, mem'.coll, 0) /\ 0 \in Int
      BY <1>2, <1>4, <1>6 DEF Moved
    <2>4. Moved(Ids, Held(mem), Held(mem'), 0) /\ 0 \in Int
      BY <1>2, <1>4, <1>6 DEF Moved, Held, NoHold
    <2>5. QED
      BY <2>1, <2>2, <2>3, <2>4
  <1>11. /\ count' \in Counts /\ count'.slashed = count.slashed
         /\ Limit(count') - Limit(count) = 0 /\ count'.seeded = count.seeded
    BY <1>1, <1>2, SettledCount DEF Cent
  <1> DEFINE d == 0
  <1>12. /\ d \in Int /\ 0 \in Nat /\ d <= 0 /\ count.seeded \in Nat
         /\ d \in -10..10
    <2>1. count.seeded \in Nat
      BY DEF BInv, BookTypes, Counts
    <2>2. QED
      BY <1>2, <2>1
  <1>13. Worth(mem') = Worth(mem) + d /\ Worth(mem) \in Int
    <2>1. Worth(mem') = Worth(mem) + 0 + 0 + 0 + 0 + (mem'.treasury - mem.treasury)
      <3>1. IsBook(mem)
        BY <1>2
      <3>2. QED
        BY <1>7, <1>10, <3>1, WorthMoves
    <2>2. mem.treasury \in Nat /\ mem'.treasury \in Nat /\ Worth(mem) \in Int
      BY <1>2, <1>7, WorthIsInt DEF IsBook
    <2>3. QED
      BY <1>2, <1>6, <2>1, <2>2
  <1> HIDE DEF d
  <1>14. BInv'
    BY <1>1, <1>5, <1>7, <1>8, <1>9, <1>11, <1>12, <1>13, OperationKeeps
  <1>15. Conserves
    BY <1>11, <1>12, <1>13 DEF Conserves, Cent
  <1>16. QED
    BY <1>14, <1>15

(* A slash is saved by nobody: Redis keeps the dollar, and Gap counts it.  *)
LEMMA SlashKeeps ==
  ASSUME BInv, NEW w \in Workers, ApplyPenalty(w), Slashable(w)
  PROVE  BInv' /\ Conserves
  <1>0. PICK left \in Cents(mem.coll[w] - Slash, 1) :
          /\ writes = <<>> /\ saved' = saved /\ persistent' = persistent /\ writes' = <<>>
          /\ Counted("slashed", 1) /\ mem.coll[w] >= Slash
          /\ mem' = [mem EXCEPT !.coll[w] = left, !.treasury = @ + Slash, !.strikes[w] = 0]
    BY DEF ApplyPenalty, Slashable, Operation
  <1>1. /\ writes = <<>> /\ saved' = saved /\ persistent' = persistent /\ writes' = <<>>
        /\ Counted("slashed", 1)
    BY <1>0
  <1> DEFINE g == [mem.coll EXCEPT ![w] = left]
             h == [mem.strikes EXCEPT ![w] = 0]
  <1>2. /\ IsBook(mem) /\ IsBook(saved) /\ mem.coll[w] \in Nat /\ Slash \in Nat /\ Slash > 0
        /\ left \in Nat /\ left = mem.coll[w] - Slash /\ mem.treasury \in Nat
    <2>1. IsBook(mem) /\ IsBook(saved) /\ mem.coll[w] \in Nat /\ mem.treasury \in Nat
      BY DEF BInv, BookTypes, IsBook
    <2>2. Slash \in Nat /\ Slash > 0 /\ Slash % 10 = 0 /\ mem.coll[w] % 10 = 0
      BY <2>1, BooksConstants DEF IsBook, Cent
    <2>3. mem.coll[w] - Slash \in Nat
      BY <1>0, <2>1, <2>2
    <2>4. left \in Nat /\ left - (mem.coll[w] - Slash) \in -5..5 /\ left % 10 = 0
      BY <2>3, CentsNear DEF Cent
    <2>5. left = mem.coll[w] - Slash
      BY <2>1, <2>2, <2>3, <2>4
    <2>6. QED
      BY <2>1, <2>2, <2>4, <2>5
  <1>3. mem' = Book(mem.user, mem.dev, mem.vault, mem.treasury + Slash, mem.counter, g, h, mem.used,
                    mem.rep, mem.rated, mem.entries, mem.score)
    BY <1>0, <1>2 DEF IsBook, Book
  <1>4. /\ g \in [Workers -> Nat] /\ g[w] = mem.coll[w] - Slash
        /\ \A x \in Workers : x # w => g[x] = mem.coll[x]
        /\ h \in [Workers -> Nat]
    BY <1>2 DEF IsBook
  <1>w. \A x \in Workers : g[x] % Cent = 0
    <2>1. left % Cent = 0
      <3>1. mem.coll[w] - Slash \in Nat
        BY <1>0, <1>2
      <3>2. QED
        BY <3>1, CentsNear
    <2>2. \A x \in Workers : mem.coll[x] % Cent = 0
      BY <1>2 DEF IsBook
    <2>3. g[w] % Cent = 0
      BY <1>2, <1>4, <2>1
    <2> HIDE DEF g
    <2>4. QED
      BY <1>4, <2>2, <2>3
  <1> HIDE DEF g, h
  <1>6. /\ mem'.user = mem.user /\ mem'.dev = mem.dev /\ mem'.vault = mem.vault
        /\ mem'.treasury = mem.treasury + Slash /\ mem'.counter = mem.counter /\ mem'.coll = g
        /\ mem'.strikes = h /\ mem'.used = mem.used /\ mem'.rep = mem.rep
        /\ mem'.rated = mem.rated /\ mem'.entries = mem.entries /\ mem'.score = mem.score
    BY <1>3 DEF Book
  <1>7. IsBook(mem')
    <2>1. mem.treasury + Slash \in Nat
      BY <1>2
    <2>2. QED
      BY <1>3, <1>4, <1>w, <2>1, MemTypes, BookMade
  <1>8. Worth(mem') = Worth(mem) /\ Worth(mem) \in Int /\ Worth(saved) \in Int
    <2>1. /\ Moved(Users, mem.user, mem'.user, 0) /\ Moved(Workers, mem.dev, mem'.dev, 0)
          /\ Moved(Ids, Held(mem), Held(mem'), 0)
      BY <1>2, <1>6 DEF Moved, Held
    <2>2. Moved(Workers, mem.coll, mem'.coll, -Slash) /\ -Slash \in Int
      BY <1>2, <1>4, <1>6 DEF Moved
    <2>3. Worth(mem') = Worth(mem) + 0 + 0 + (-Slash) + 0 + (mem'.treasury - mem.treasury)
      BY <1>2, <1>7, <2>1, <2>2, WorthMoves
    <2>4. Worth(mem) \in Int /\ Worth(saved) \in Int
      BY <1>2, WorthIsInt
    <2>5. QED
      BY <1>2, <1>6, <2>3, <2>4
  <1>9. /\ count' \in Counts /\ count'.slashed = count.slashed + 1
        /\ Limit(count') - Limit(count) = Slash /\ count'.seeded = count.seeded
        /\ Limit(count) \in Int /\ Limit(count') \in Int /\ count.slashed \in Nat
        /\ count.seeded \in Nat
    <2>1. /\ count' \in Counts /\ count'.slashed = count.slashed + 1
          /\ Limit(count') - Limit(count) = Slash /\ count'.seeded = count.seeded
      BY <1>1, SlashedCount
    <2>2. count \in Counts
      BY DEF BInv, BookTypes
    <2>3. QED
      BY <2>1, <2>2, LimitType DEF Counts
  <1>10. BInv'
    <2>1. CASE persistent
      <3>1. /\ Saves(saved, mem, {}) /\ SavesSlashes(saved, mem, {}, count.slashed)
            /\ Bounded(TRUE, saved, mem, {}, Limit(count))
        BY <1>1, <2>1, NothingWaits DEF BInv, Bounded
      <3>2. Saves(saved, mem', {})
        BY <1>6, <3>1 DEF Saves
      <3>3. SavesSlashes(saved, mem', {}, count'.slashed)
        <4>1. /\ Slash * count'.slashed = Slash * count.slashed + Slash
              /\ Slash * count.slashed \in Nat
          BY <1>2, <1>9
        <4>2. \A x \in Workers : saved.coll[x] - mem'.coll[x] \in 0..Slash * count'.slashed
          <5> SUFFICES ASSUME NEW x \in Workers
                       PROVE  saved.coll[x] - mem'.coll[x] \in 0..Slash * count'.slashed
            OBVIOUS
          <5>1. saved.coll[x] - mem.coll[x] \in 0..Slash * count.slashed
            BY <3>1 DEF SavesSlashes
          <5>2. saved.coll[x] \in Nat /\ mem.coll[x] \in Nat
            BY <1>2 DEF IsBook
          <5>3. mem'.coll[x] = IF x = w THEN mem.coll[x] - Slash ELSE mem.coll[x]
            BY <1>4, <1>6
          <5>4. QED
            BY <1>2, <4>1, <5>1, <5>2, <5>3
        <4>3. saved.treasury <= mem'.treasury
          <5>1. saved.treasury <= mem.treasury /\ saved.treasury \in Nat
            BY <1>2, <3>1 DEF SavesSlashes, IsBook
          <5>2. QED
            BY <1>2, <1>6, <5>1
        <4>4. count'.slashed # 0
          BY <1>9
        <4>5. QED
          BY <4>2, <4>3, <4>4 DEF SavesSlashes
      <3>4. SumFunctionOnSet(Gap(saved, mem', {}), Workers)
              = SumFunctionOnSet(Gap(saved, mem, {}), Workers) + Slash
        <4>1. \A x \in Workers : /\ Gap(saved, mem', {})[x] \in Int
                                 /\ Gap(saved, mem, {})[x] \in Int
          BY <1>2, <1>7, GapSum
        <4>2. \A x \in Workers : saved.coll[x] \in Nat /\ mem.coll[x] \in Nat
          BY <1>2 DEF IsBook
        <4>3. Moved(Workers, Gap(saved, mem, {}), Gap(saved, mem', {}), Slash)
          BY <1>2, <1>4, <1>6, <4>2 DEF Moved, Gap
        <4>4. QED
          BY <1>2, <4>1, <4>3, BooksConstants, SumMoved
      <3>5. SumFunctionOnSet(Gap(saved, mem, {}), Workers) \in Int
        BY <1>2, GapSum
      <3>6. Bounded(TRUE, saved, mem', {}, Limit(count'))
        BY <1>2, <1>8, <1>9, <3>1, <3>4, <3>5 DEF Bounded
      <3>7. FallsFirst(saved, mem', <<>>) /\ <<>> \in Seq(Entries)
        BY DEF FallsFirst
      <3>8. QED
        BY <1>1, <1>2, <1>7, <1>9, <2>1, <3>2, <3>3, <3>6, <3>7, NothingWaits
           DEF BInv, BookTypes, Bounded
    <2>2. CASE ~persistent
      <3>1. Bounded(FALSE, saved, mem, {}, Limit(count))
        BY <1>1, <2>2, NothingWaits DEF BInv, Bounded
      <3>2. Bounded(FALSE, saved, mem', {}, Limit(count'))
        BY <1>2, <1>8, <1>9, <3>1 DEF Bounded
      <3>3. QED
        BY <1>1, <1>2, <1>7, <1>9, <2>2, <3>2, NothingWaits DEF BInv, BookTypes, Bounded
    <2>3. QED
      BY <2>1, <2>2 DEF BInv, BookTypes
  <1>11. Conserves
    BY <1>8, <1>9 DEF Conserves, Cent
  <1>12. QED
    BY <1>10, <1>11

(* A command that raises nothing keeps Redis under what it was; one that   *)
(* raises comes after all that lower, and brings Redis nearer to mem.      *)
LEMMA WriteKeeps ==
  ASSUME BInv, Write
  PROVE  BInv' /\ Conserves
  <1> DEFINE e == Head(writes)
             t == WrittenTo(saved, mem, e)
  <1>1. /\ writes # <<>> /\ saved' = t /\ writes' = Tail(writes)
        /\ persistent' = persistent /\ mem' = mem /\ count' = count
    BY DEF Write, WrittenTo
  <1>2. /\ IsBook(mem) /\ IsBook(saved) /\ writes \in Seq(Entries) /\ persistent \in BOOLEAN
        /\ count \in Counts /\ persistent = TRUE
    BY <1>1 DEF BInv, BookTypes
  <1>3. e \in Entries /\ Tail(writes) \in Seq(Entries)
    BY <1>1, <1>2, AfterHead
  <1> HIDE DEF e, t
  <1>4. IsBook(t) /\ OneEntry(t, saved, mem, e)
    BY <1>2, <1>3, WrittenIs DEF t
  <1>5. /\ Saves(saved, mem, Waiting(writes))
        /\ SavesSlashes(saved, mem, Waiting(writes), count.slashed)
        /\ FallsFirst(saved, mem, writes)
        /\ Bounded(TRUE, saved, mem, Waiting(writes), Limit(count))
    BY <1>2 DEF BInv
  <1>6. count.slashed \in Nat /\ Limit(count) \in Int
    BY <1>2, LimitType DEF Counts
  <1>7. /\ Saves(t, mem, Waiting(Tail(writes)))
        /\ SavesSlashes(t, mem, Waiting(Tail(writes)), count.slashed)
        /\ FallsFirst(t, mem, Tail(writes))
    BY <1>1, <1>2, <1>4, <1>5, <1>6, WrittenSaves DEF e
  <1>8. Bounded(TRUE, t, mem, Waiting(Tail(writes)), Limit(count))
    BY <1>1, <1>2, <1>4, <1>5, <1>6, WrittenBounded DEF e
  <1>9. BInv'
    BY <1>1, <1>2, <1>3, <1>4, <1>7, <1>8 DEF BInv, BookTypes
  <1>10. Worth(mem) \in Int /\ count.seeded \in Nat
    BY <1>2, WorthIsInt DEF Counts
  <1>11. Worth(mem') = Worth(mem) /\ count'.seeded = count.seeded
    BY <1>1
  <1>12. Worth(mem') - Worth(mem) - (count'.seeded - count.seeded) \in -10..10
    BY <1>10, <1>11
  <1>13. Conserves
    BY <1>12 DEF Conserves, Cent
  <1>14. QED
    BY <1>9, <1>13

(* record() increments the counter in Redis and nothing else of a book.    *)
LEMMA RecordKeeps ==
  ASSUME BInv, NEW u \in Users, RecordStart(u)
  PROVE  BInv' /\ Conserves
  <1> DEFINE n == saved.counter + 1
  <1>1. /\ saved' = [saved EXCEPT !.counter = n]
        /\ persistent' = persistent /\ mem' = mem /\ writes' = writes /\ count' = count
    BY DEF RecordStart, book
  <1>2. /\ IsBook(mem) /\ IsBook(saved) /\ count \in Counts /\ saved.counter \in Nat
        /\ mem.counter \in Nat /\ n \in Nat /\ n > saved.counter
    <2>1. IsBook(mem) /\ IsBook(saved) /\ count \in Counts
      BY DEF BInv, BookTypes
    <2>2. saved.counter \in Nat /\ mem.counter \in Nat
      BY <2>1 DEF IsBook
    <2>3. QED
      BY <2>1, <2>2
  <1>3. saved' = Book(saved.user, saved.dev, saved.vault, saved.treasury, n, saved.coll,
                      saved.strikes, saved.used, saved.rep, saved.rated, saved.entries, saved.score)
    BY <1>1, <1>2 DEF IsBook, Book
  <1> HIDE DEF n
  <1>4. /\ saved'.user = saved.user /\ saved'.dev = saved.dev /\ saved'.vault = saved.vault
        /\ saved'.treasury = saved.treasury /\ saved'.counter = n /\ saved'.coll = saved.coll
        /\ saved'.strikes = saved.strikes /\ saved'.used = saved.used /\ saved'.rep = saved.rep
        /\ saved'.rated = saved.rated /\ saved'.entries = saved.entries
        /\ saved'.score = saved.score
    BY <1>3 DEF Book
  <1>5. IsBook(saved')
    BY <1>2, <1>3, <1>4 DEF IsBook
  <1>6. Worth(saved') = Worth(saved)
    BY <1>4 DEF Worth
  <1>7. Gap(saved', mem, Waiting(writes)) = Gap(saved, mem, Waiting(writes))
    BY <1>4 DEF Gap
  <1>8. persistent => /\ Saves(saved', mem, Waiting(writes))
                      /\ SavesSlashes(saved', mem, Waiting(writes), count.slashed)
    <2> SUFFICES ASSUME persistent
                 PROVE  /\ Saves(saved', mem, Waiting(writes))
                        /\ SavesSlashes(saved', mem, Waiting(writes), count.slashed)
      OBVIOUS
    <2>1. /\ Saves(saved, mem, Waiting(writes))
          /\ SavesSlashes(saved, mem, Waiting(writes), count.slashed)
      BY DEF BInv
    <2>2. Saves(saved', mem, Waiting(writes))
      BY <1>2, <1>4, <2>1 DEF Saves
    <2>3. SavesSlashes(saved', mem, Waiting(writes), count.slashed)
      BY <1>4, <2>1 DEF SavesSlashes
    <2>4. QED
      BY <2>2, <2>3
  <1>9. persistent => FallsFirst(saved', mem, writes)
    <2>1. \A x : Amount(saved', x) = Amount(saved, x) \/ x[1] \notin Money
      BY <1>4 DEF Amount, Money
    <2>2. QED
      BY <2>1 DEF BInv, FallsFirst, Rises, Falls
  <1>10. Bounded(persistent, saved', mem, Waiting(writes), Limit(count))
    BY <1>6, <1>7 DEF BInv, Bounded
  <1>11. BInv'
    BY <1>1, <1>5, <1>8, <1>9, <1>10 DEF BInv, BookTypes
  <1>12. Worth(mem) \in Int /\ count.seeded \in Nat
    BY <1>2, WorthIsInt DEF Counts
  <1>13. Conserves
    BY <1>1, <1>12 DEF Conserves, Cent
  <1>14. QED
    BY <1>11, <1>13

(* A restart: what Redis has is what there is.                             *)
LEMMA CrashKeeps ==
  ASSUME BInv, Crash
  PROVE  BInv' /\ Conserves
  <1>1. /\ persistent /\ mem' = saved /\ writes' = <<>> /\ saved' = saved
        /\ persistent' = persistent /\ count' = [count EXCEPT !.crashes = @ + 1]
    BY DEF Crash, Loaded
  <1>2. /\ IsBook(saved) /\ count \in Counts /\ persistent \in BOOLEAN
        /\ Worth(saved) <= Limit(count)
    BY DEF BInv, BookTypes, Bounded
  <1>3. /\ count' \in Counts /\ count'.seeded = count.seeded /\ count'.settled = count.settled
        /\ count'.slashed = count.slashed /\ count'.crashes = count.crashes + 1
    <2>1. count' = [ops |-> count.ops, crashes |-> count.crashes + 1, seeded |-> count.seeded,
                    settled |-> count.settled, slashed |-> count.slashed]
      BY <1>1, <1>2 DEF Counts
    <2>2. QED
      BY <1>2, <2>1 DEF Counts
  <1>4. Limit(count') = Limit(count) /\ count'.crashes # count.crashes
    BY <1>2, <1>3 DEF Limit, Counts
  <1>5. count.slashed \in Nat /\ Slash * count.slashed \in Nat /\ Limit(count) \in Int
    BY <1>2, BooksConstants, LimitType DEF Counts
  <1>6. SumFunctionOnSet(Gap(saved, saved, {}), Workers) = 0
    <2>1. \A w \in Workers : Gap(saved, saved, {})[w] = 0
      BY <1>2 DEF Gap, IsBook
    <2>2. QED
      BY <2>1, BooksConstants, SumZero
  <1>7. Worth(saved) \in Int
    BY <1>2, WorthIsInt
  <1>8. Bounded(TRUE, saved, saved, {}, Limit(count))
    BY <1>2, <1>5, <1>6, <1>7 DEF Bounded
  <1>9. Saves(saved, saved, {}) /\ SavesSlashes(saved, saved, {}, count.slashed)
    BY <1>2, <1>5 DEF Saves, SavesSlashes, IsBook
  <1>10. FallsFirst(saved, saved, <<>>) /\ <<>> \in Seq(Entries)
    BY DEF FallsFirst
  <1>11. BInv'
    BY <1>1, <1>2, <1>3, <1>4, <1>8, <1>9, <1>10, NothingWaits DEF BInv, BookTypes, Bounded
  <1>12. Conserves
    BY <1>1, <1>4 DEF Conserves
  <1>13. QED
    BY <1>11, <1>12

LEMMA BooksStart == BooksInit => BInv
  <1> SUFFICES ASSUME BooksInit PROVE BInv
    OBVIOUS
  <1>1. /\ persistent \in BOOLEAN /\ mem = EmptyBook /\ saved = EmptyBook /\ writes = <<>>
        /\ count = [ops |-> 0, crashes |-> 0, seeded |-> 0, settled |-> 0, slashed |-> 0]
    BY DEF BooksInit
  <1>2. /\ EmptyBook.user = [u \in Users |-> 0] /\ EmptyBook.dev = [w \in Workers |-> 0]
        /\ EmptyBook.coll = [w \in Workers |-> 0] /\ EmptyBook.treasury = 0
        /\ EmptyBook.vault = [i \in Ids |-> NoHold]
    BY DEF EmptyBook
  <1>3. IsBook(EmptyBook)
    <2>1. EmptyBook = Book(EmptyBook.user, EmptyBook.dev, EmptyBook.vault, EmptyBook.treasury,
                EmptyBook.counter, EmptyBook.coll, EmptyBook.strikes, EmptyBook.used,
                EmptyBook.rep, EmptyBook.rated, EmptyBook.entries, EmptyBook.score)
      BY DEF EmptyBook, Book
    <2>2. /\ EmptyBook.counter = 0 /\ EmptyBook.strikes = [w \in Workers |-> 0]
          /\ EmptyBook.used = [u \in Users |-> FALSE] /\ EmptyBook.rep = [u \in Users |-> FullRep]
          /\ EmptyBook.rated = [u \in Users |-> 0]
      BY DEF EmptyBook
    <2>3. FullRep \in Nat /\ NoHold \in Holds
      BY LedgerAssumption DEF Holds
    <2>4. 0 % Cent = 0
      BY DEF Cent
    <2>5. QED
      BY <1>2, <2>1, <2>2, <2>3, <2>4 DEF IsBook
  <1>4. Worth(EmptyBook) = 0
    <2>1. SumFunctionOnSet(EmptyBook.user, Users) = 0
      BY <1>2, BooksConstants, SumZero
    <2>2. SumFunctionOnSet(EmptyBook.dev, Workers) = 0
      BY <1>2, BooksConstants, SumZero
    <2>3. SumFunctionOnSet(EmptyBook.coll, Workers) = 0
      BY <1>2, BooksConstants, SumZero
    <2>4. SumFunctionOnSet(Held(EmptyBook), Ids) = 0
      <3>1. \A i \in Ids : Held(EmptyBook)[i] = 0
        BY <1>2 DEF Held, NoHold
      <3>2. QED
        BY <3>1, BooksConstants, SumZero
    <2>5. QED
      BY <1>2, <2>1, <2>2, <2>3, <2>4 DEF Worth, Held
  <1>5. count \in Counts /\ count.slashed = 0 /\ Limit(count) = 0
    <2>1. count \in Counts /\ count.slashed = 0 /\ count.seeded = 0 /\ count.settled = 0
      BY <1>1 DEF Counts
    <2>2. Slash * count.slashed = 0
      BY <2>1, BooksConstants
    <2>3. QED
      BY <2>1, <2>2 DEF Limit, Cent
  <1>6. SumFunctionOnSet(Gap(EmptyBook, EmptyBook, {}), Workers) = 0
    <2>1. \A w \in Workers : Gap(EmptyBook, EmptyBook, {})[w] = 0
      BY <1>2 DEF Gap
    <2>2. QED
      BY <2>1, BooksConstants, SumZero
  <1>7. Bounded(persistent, saved, mem, {}, Limit(count))
    BY <1>1, <1>4, <1>5, <1>6 DEF Bounded
  <1>8. Saves(EmptyBook, EmptyBook, {}) /\ SavesSlashes(EmptyBook, EmptyBook, {}, 0)
    <2>1. Slash * 0 = 0 /\ EmptyBook.counter \in Nat /\ EmptyBook.treasury \in Nat
      BY <1>3, BooksConstants DEF IsBook
    <2>2. \A w \in Workers : EmptyBook.coll[w] - EmptyBook.coll[w] \in 0..Slash * 0
      BY <1>2, <2>1
    <2>3. QED
      BY <2>1, <2>2 DEF Saves, SavesSlashes
  <1>9. FallsFirst(saved, mem, <<>>) /\ <<>> \in Seq(Entries)
    BY DEF FallsFirst
  <1>10. QED
    BY <1>1, <1>3, <1>5, <1>7, <1>8, <1>9, NothingWaits DEF BInv, BookTypes

-----------------------------------------------------------------------------
(* The steps together, and what the invariant says.                        *)
LEMMA StillKeeps ==
  ASSUME BInv, UNCHANGED <<persistent, mem, writes, saved, count>>
  PROVE  BInv' /\ Conserves
  <1>1. /\ persistent' = persistent /\ mem' = mem /\ writes' = writes /\ saved' = saved
        /\ count' = count
    OBVIOUS
  <1>2. BInv'
    BY <1>1 DEF BInv, BookTypes
  <1>3. Worth(mem) \in Int /\ count.seeded \in Nat
    BY WorthIsInt DEF BInv, BookTypes, Counts
  <1>4. Worth(mem') = Worth(mem) /\ count'.seeded = count.seeded
    BY <1>1
  <1>5. Worth(mem') - Worth(mem) - (count'.seeded - count.seeded) \in -10..10
    BY <1>3, <1>4
  <1>6. QED
    BY <1>2, <1>5 DEF Conserves, Cent

LEMMA BooksStep == BInv /\ [BooksNext]_booksVars => BInv' /\ Conserves
  <1> SUFFICES ASSUME BInv, [BooksNext]_booksVars PROVE BInv' /\ Conserves
    OBVIOUS
  <1>1. ASSUME NEW u \in Users, NEW a \in Seeds, SeedUsdt(u, a) PROVE BInv' /\ Conserves
    BY <1>1, SeedUsdtKeeps
  <1>2. ASSUME NEW w \in Workers, NEW a \in Seeds, SeedDevUsdt(w, a) PROVE BInv' /\ Conserves
    BY <1>2, SeedDevUsdtKeeps
  <1>3. ASSUME NEW w \in Workers, RegisterWorker(w) PROVE BInv' /\ Conserves
    BY <1>3, RegisterKeeps
  <1>4. ASSUME NEW w \in Workers, ApplyPenalty(w) PROVE BInv' /\ Conserves
    <2>1. CASE Slashable(w)
      BY <1>4, <2>1, SlashKeeps
    <2>2. CASE ~Slashable(w)
      BY <1>4, <2>2, StrikeKeeps
    <2>3. QED
      BY <2>1, <2>2
  <1>5. ASSUME NEW u \in Users, NEW a \in Budgets, FreezeUsdt(u, a) \/ CreateEscrowHold(u, a)
        PROVE  BInv' /\ Conserves
    <2>1. PICK kind \in {"freeze", "hold"} : Freeze(u, kind, a)
      BY <1>5 DEF FreezeUsdt, CreateEscrowHold
    <2>2. QED
      BY <2>1, FreezeKeeps
  <1>6. ASSUME NEW i \in Ids, NEW w \in Workers, NEW s \in BOOLEAN, SettleEscrow(i, w, s)
        PROVE  BInv' /\ Conserves
    <2>1. CASE s = TRUE
      <3>1. SettleEscrow(i, w, TRUE)
        BY <1>6, <2>1
      <3>2. QED
        BY <3>1, SettleKeeps
    <2>2. CASE s = FALSE
      <3>1. SettleEscrow(i, w, FALSE)
        BY <1>6, <2>2
      <3>2. QED
        BY <3>1, RefundKeeps
    <2>3. QED
      BY <2>1, <2>2
  <1>7. ASSUME NEW i \in Ids, NEW w \in Workers, NEW s \in BOOLEAN, NEW c \in Costs,
               ReleaseEscrowDynamic(i, w, c, s)
        PROVE  BInv' /\ Conserves
    <2>1. CASE s = TRUE
      <3>1. ReleaseEscrowDynamic(i, w, c, TRUE)
        BY <1>7, <2>1
      <3>2. QED
        BY <3>1, ReleaseKeeps
    <2>2. CASE s = FALSE
      <3>1. ReleaseEscrowDynamic(i, w, c, FALSE)
        BY <1>7, <2>2
      <3>2. QED
        BY <3>1, RefundKeeps
    <2>3. QED
      BY <2>1, <2>2
  <1>8. ASSUME NEW u \in Users, NEW r \in Ratings, SubmitRating(u, r) PROVE BInv' /\ Conserves
    <2>1. CASE Outlier(mem.entries, r)
      BY <1>8, <2>1, OutlierKeeps
    <2>2. CASE ~Outlier(mem.entries, r)
      BY <1>8, <2>2, RatingKeeps
    <2>3. QED
      BY <2>1, <2>2
  <1>9. ASSUME NEW u \in Users, RecordStart(u) PROVE BInv' /\ Conserves
    BY <1>9, RecordKeeps
  <1>10. CASE RecordStore \/ RecordIndex \/ UNCHANGED booksVars
    <2>1. UNCHANGED <<persistent, mem, writes, saved, count>>
      BY <1>10 DEF RecordStore, RecordIndex, booksVars, book
    <2>2. QED
      BY <2>1, StillKeeps
  <1>11. CASE Write
    BY <1>11, WriteKeeps
  <1>12. CASE Crash
    BY <1>12, CrashKeeps
  <1>13. QED
    BY <1>1, <1>2, <1>3, <1>4, <1>5, <1>6, <1>7, <1>8, <1>9, <1>10, <1>11, <1>12 DEF BooksNext

LEMMA SavedThen ==
  ASSUME BInv
  PROVE  AcknowledgedIsSaved
  <1> SUFFICES ASSUME persistent, writes = <<>>
               PROVE
      /\ \A f \in {"user", "dev", "vault", "used", "rep", "rated", "entries", "score"} :
           saved[f] = mem[f]
      /\ saved.counter >= mem.counter
      /\ count.slashed = 0 => saved.coll = mem.coll /\ saved.strikes = mem.strikes
                                /\ saved.treasury = mem.treasury
      /\ \A w \in Workers : saved.coll[w] - mem.coll[w] \in 0..Slash * count.slashed
    BY DEF AcknowledgedIsSaved
  <1>1. /\ IsBook(mem) /\ IsBook(saved) /\ Saves(saved, mem, {})
        /\ SavesSlashes(saved, mem, {}, count.slashed)
    BY NothingWaits DEF BInv, BookTypes
  <1>2. saved.user = mem.user /\ saved.used = mem.used
    BY <1>1 DEF Saves, IsBook
  <1>3. saved.rep = mem.rep /\ saved.rated = mem.rated
    BY <1>1 DEF Saves, IsBook
  <1>4. saved.dev = mem.dev /\ saved.vault = mem.vault
    BY <1>1 DEF Saves, IsBook
  <1>5. saved.entries = mem.entries /\ saved.score = mem.score /\ saved.counter >= mem.counter
    BY <1>1 DEF Saves
  <1>6. ASSUME count.slashed = 0
        PROVE  saved.coll = mem.coll /\ saved.strikes = mem.strikes /\ saved.treasury = mem.treasury
    <2>1. /\ saved.coll \in [Workers -> Nat] /\ mem.coll \in [Workers -> Nat]
          /\ saved.strikes \in [Workers -> Nat] /\ mem.strikes \in [Workers -> Nat]
      BY <1>1 DEF IsBook
    <2>2. Slash * 0 = 0
      BY BooksConstants
    <2>3. \A w \in Workers : saved.coll[w] - mem.coll[w] \in 0..0
      BY <1>1, <1>6, <2>2 DEF SavesSlashes
    <2>4. saved.coll = mem.coll
      <3>1. \A w \in Workers : saved.coll[w] = mem.coll[w]
        <4> TAKE w \in Workers
        <4>1. saved.coll[w] - mem.coll[w] \in 0..0 /\ saved.coll[w] \in Nat /\ mem.coll[w] \in Nat
          BY <2>1, <2>3
        <4>2. QED
          BY <4>1
      <3>2. QED
        BY <2>1, <3>1
    <2>5. \A w \in Workers : saved.strikes[w] = mem.strikes[w]
      BY <1>1, <1>6 DEF SavesSlashes
    <2>6. saved.treasury = mem.treasury
      BY <1>1, <1>6 DEF SavesSlashes
    <2>7. saved.strikes = mem.strikes
      BY <2>1, <2>5
    <2>8. QED
      BY <2>4, <2>6, <2>7
  <1>7. \A w \in Workers : saved.coll[w] - mem.coll[w] \in 0..Slash * count.slashed
    BY <1>1 DEF SavesSlashes
  <1>8. QED
    BY <1>2, <1>3, <1>4, <1>5, <1>6, <1>7

LEMMA MintsThen ==
  ASSUME BInv
  PROVE  RestartMintsOnlySlashes
  BY DEF BInv, Bounded, Limit, RestartMintsOnlySlashes

(* When an operation has returned, Redis has what it did, except for the   *)
(* strikes, the collateral and the treasury of slashes: MockLedger's       *)
(* operations, their _persist_* calls and any restart between them.        *)
THEOREM AcknowledgedSafe == BooksSpec => []AcknowledgedIsSaved
  <1>1. BInv /\ [BooksNext]_booksVars => BInv'
    BY BooksStep
  <1>2. BInv => AcknowledgedIsSaved
    BY SavedThen
  <1>3. QED
    BY <1>1, <1>2, BooksStart, PTL DEF BooksSpec

(* Whatever Redis command the process ends at, what the next one loads is  *)
(* worth no more than was paid in, a cent a settlement and a dollar a      *)
(* slash: _load_state after any prefix of an operation's writes.           *)
THEOREM RestartSafe == BooksSpec => []RestartMintsOnlySlashes
  <1>1. BInv /\ [BooksNext]_booksVars => BInv'
    BY BooksStep
  <1>2. BInv => RestartMintsOnlySlashes
    BY MintsThen
  <1>3. QED
    BY <1>1, <1>2, BooksStart, PTL DEF BooksSpec

(* No step makes or destroys more than the rounding of a settlement, but   *)
(* for a hold that gets the id of a live one after a restart.              *)
THEOREM WealthSafe == BooksSpec => WealthMoves
  <1>1. BInv /\ [BooksNext]_booksVars => BInv' /\ [Conserves]_booksVars
    BY BooksStep
  <1>2. QED
    BY <1>1, BooksStart, PTL DEF BooksSpec, WealthMoves

-----------------------------------------------------------------------------
(* record(): what is still to do of a record, and what is stored.          *)
Steps == {<<>>, <<"index">>, <<"store", "index">>}

Recorded ==
  /\ recording.todo \in Steps
  /\ recording.todo # <<>> => recording.user \in Users /\ recording.id \in Nat
  /\ recording.todo = <<"index">> => recording.id \in DOMAIN txns
  /\ index \in [Users -> Seq(Nat)]
  /\ recording = [todo |-> recording.todo, id |-> recording.id, user |-> recording.user]

HistoryInv == Recorded /\ IndexedIsStored

LEMMA LastOfIs ==
  ASSUME NEW s \in Seq(Nat), NEW x \in Nat, NEW k \in Nat \ {0}
  PROVE  /\ LastOf(Append(s, x), k) \in Seq(Nat)
         /\ \A n \in DOMAIN LastOf(Append(s, x), k) :
              \/ LastOf(Append(s, x), k)[n] = x
              \/ \E j \in DOMAIN s : LastOf(Append(s, x), k)[n] = s[j]
  <1> DEFINE t == Append(s, x)
  <1>1. /\ t \in Seq(Nat) /\ Len(t) = Len(s) + 1 /\ Len(s) \in Nat
        /\ \A n \in 1..Len(t) : t[n] = x \/ \E j \in DOMAIN s : t[n] = s[j]
    OBVIOUS
  <1> HIDE DEF t
  <1>2. CASE Len(t) <= k
    BY <1>1, <1>2 DEF LastOf, t
  <1>3. CASE ~(Len(t) <= k)
    <2> DEFINE m == Len(t) - k + 1
               r == SubSeq(t, m, Len(t))
    <2>1. m \in Nat /\ m >= 1 /\ m <= Len(t) /\ Len(t) \in Nat
      BY <1>1, <1>3
    <2> HIDE DEF m
    <2>2. \A i \in m..Len(t) : t[i] \in Nat
      BY <1>1, <2>1
    <2>3. /\ r \in Seq(Nat) /\ Len(r) = Len(t) - m + 1
          /\ \A i \in 1..Len(t) - m + 1 : r[i] = t[m + i - 1]
      BY <2>1, <2>2, SubSeqProperties
    <2> HIDE DEF r
    <2>4. LastOf(t, k) = r
      BY <1>3 DEF LastOf, r, m
    <2>5. \A n \in DOMAIN r : r[n] = x \/ \E j \in DOMAIN s : r[n] = s[j]
      <3> TAKE n \in DOMAIN r
      <3>1. n \in 1..Len(t) - m + 1 /\ n \in Int
        <4>1. DOMAIN r = 1..Len(r) /\ n \in DOMAIN r
          BY <2>3
        <4>2. Len(r) = Len(t) - m + 1 /\ Len(t) - m + 1 \in Int
          BY <2>1, <2>3
        <4>3. QED
          BY <4>1, <4>2
      <3>2. r[n] = t[m + n - 1] /\ m + n - 1 \in 1..Len(t)
        <4>1. r[n] = t[m + n - 1]
          BY <2>3, <3>1
        <4>2. m + n - 1 \in 1..Len(t)
          BY <2>1, <3>1
        <4>3. QED
          BY <4>1, <4>2
      <3>3. QED
        BY <1>1, <3>2
    <2>6. QED
      BY <2>3, <2>4, <2>5 DEF t
  <1>4. QED
    BY <1>2, <1>3

LEMMA HistoryStart == BooksInit => HistoryInv
  BY DEF BooksInit, HistoryInv, Recorded, Steps, NoRecord, IndexedIsStored

LEMMA HistoryStep == HistoryInv /\ BInv /\ [BooksNext]_booksVars => HistoryInv'
  <1> SUFFICES ASSUME HistoryInv, BInv, [BooksNext]_booksVars PROVE HistoryInv'
    OBVIOUS
  <1>1. ASSUME NEW u \in Users, RecordStart(u) PROVE HistoryInv'
    <2>1. /\ recording' = [todo |-> <<"store", "index">>, id |-> saved'.counter, user |-> u]
          /\ txns' = txns /\ index' = index /\ saved' = [saved EXCEPT !.counter = @ + 1]
      BY <1>1 DEF RecordStart, RecordSteps
    <2>2. saved.counter \in Nat /\ IsBook(saved)
      BY DEF BInv, BookTypes, IsBook
    <2>3. saved'.counter = saved.counter + 1
      <3>1. saved = Book(saved.user, saved.dev, saved.vault, saved.treasury, saved.counter,
                         saved.coll, saved.strikes, saved.used, saved.rep, saved.rated,
                         saved.entries, saved.score)
        BY <2>2 DEF IsBook
      <3>2. QED
        BY <2>1, <3>1 DEF Book
    <2>4. /\ recording'.todo = <<"store", "index">> /\ recording'.id \in Nat
          /\ recording'.user = u /\ <<"store", "index">> # <<"index">>
          /\ recording' = [todo |-> recording'.todo, id |-> recording'.id,
                           user |-> recording'.user]
      BY <2>1, <2>2, <2>3
    <2>5. QED
      BY <2>1, <2>4 DEF HistoryInv, Recorded, Steps, IndexedIsStored
  <1>2. CASE RecordStore
    <2>1. /\ recording.todo = <<"store", "index">> /\ recording.id \in Nat
          /\ recording.user \in Users
      BY <1>2 DEF RecordStore, Pending, HistoryInv, Recorded, Steps
    <2>2. /\ DOMAIN txns' = DOMAIN txns \cup {recording.id} /\ index' = index
          /\ recording' = [recording EXCEPT !.todo = <<"index">>]
      BY <1>2, <2>1 DEF RecordStore, StepDone
    <2>3. recording' = [todo |-> <<"index">>, id |-> recording.id, user |-> recording.user]
      BY <2>2 DEF HistoryInv, Recorded
    <2>4. QED
      BY <2>1, <2>2, <2>3 DEF HistoryInv, Recorded, Steps, IndexedIsStored
  <1>3. CASE RecordIndex
    <2>1. /\ recording.todo = <<"index">> /\ recording.id \in Nat
          /\ recording.user \in Users /\ recording.id \in DOMAIN txns
      BY <1>3 DEF RecordIndex, Pending, HistoryInv, Recorded, Steps
    <2> DEFINE u == recording.user
               s == LastOf(Append(index[u], recording.id), HistoryLimit)
    <2>2. /\ index' = [index EXCEPT ![u] = s] /\ txns' = txns /\ recording' = NoRecord
      BY <1>3, <2>1 DEF RecordIndex, StepDone
    <2>3. index \in [Users -> Seq(Nat)] /\ HistoryLimit \in Nat \ {0} /\ u \in Users
      BY <2>1, LedgerAssumption DEF HistoryInv, Recorded
    <2>4. /\ s \in Seq(Nat)
          /\ \A n \in DOMAIN s : \/ s[n] = recording.id
                                 \/ \E j \in DOMAIN index[u] : s[n] = index[u][j]
      <3>1. index[u] \in Seq(Nat) /\ recording.id \in Nat
        BY <2>1, <2>3
      <3> HIDE DEF u
      <3>2. QED
        BY <2>3, <3>1, LastOfIs
    <2> HIDE DEF s, u
    <2>5. \A n \in DOMAIN s : s[n] \in DOMAIN txns
      BY <2>1, <2>3, <2>4 DEF HistoryInv, IndexedIsStored
    <2>6. \A v \in Users : \A n \in DOMAIN index'[v] : index'[v][n] \in DOMAIN txns
      BY <2>2, <2>3, <2>5 DEF HistoryInv, IndexedIsStored
    <2>7. index' \in [Users -> Seq(Nat)]
      BY <2>2, <2>3, <2>4
    <2>8. QED
      BY <2>2, <2>6, <2>7 DEF HistoryInv, Recorded, Steps, IndexedIsStored, NoRecord
  <1>4. CASE Crash
    <2>1. recording' = NoRecord /\ txns' = txns /\ index' = index
      BY <1>4 DEF Crash
    <2>2. QED
      BY <2>1 DEF HistoryInv, Recorded, Steps, IndexedIsStored, NoRecord
  <1>5. CASE UNCHANGED history
    BY <1>5 DEF history, HistoryInv, Recorded, IndexedIsStored
  <1>6. \/ \E u \in Users : RecordStart(u)
        \/ RecordStore \/ RecordIndex \/ Crash \/ UNCHANGED history
    <2>1. Operation \/ Write \/ UNCHANGED booksVars => UNCHANGED history
      BY DEF Operation, Write, booksVars, history
    <2>2. CASE UNCHANGED booksVars
      BY <2>1, <2>2
    <2>3. CASE BooksNext
      <3>1. CASE \E u \in Users, a \in Seeds : SeedUsdt(u, a)
        BY <2>1, <3>1 DEF SeedUsdt
      <3>2. CASE \E w \in Workers, a \in Seeds : SeedDevUsdt(w, a)
        BY <2>1, <3>2 DEF SeedDevUsdt
      <3>3. CASE \E w \in Workers : RegisterWorker(w) \/ ApplyPenalty(w)
        BY <2>1, <3>3 DEF RegisterWorker, ApplyPenalty
      <3>4. CASE \E u \in Users, a \in Budgets : FreezeUsdt(u, a) \/ CreateEscrowHold(u, a)
        BY <2>1, <3>4 DEF FreezeUsdt, CreateEscrowHold, Freeze
      <3>5. CASE \E i \in Ids, w \in Workers, s \in BOOLEAN :
                   \/ SettleEscrow(i, w, s)
                   \/ \E c \in Costs : ReleaseEscrowDynamic(i, w, c, s)
        <4>1. ASSUME NEW i \in Ids, NEW w \in Workers, NEW s \in BOOLEAN, NEW c \in Costs
              PROVE  ReleaseEscrowDynamic(i, w, c, s) => Operation
          BY DEF ReleaseEscrowDynamic
        <4>2. ASSUME NEW i \in Ids, NEW w \in Workers, NEW s \in BOOLEAN
              PROVE  SettleEscrow(i, w, s) => Operation
          BY DEF SettleEscrow
        <4>3. Operation
          BY <3>5, <4>1, <4>2
        <4>4. QED
          BY <2>1, <4>3
      <3>6. CASE \E u \in Users, r \in Ratings : SubmitRating(u, r)
        BY <2>1, <3>6 DEF SubmitRating
      <3>7. QED
        BY <2>1, <2>3, <3>1, <3>2, <3>3, <3>4, <3>5, <3>6 DEF BooksNext
    <2>4. QED
      BY <2>2, <2>3
  <1>7. QED
    BY <1>1, <1>2, <1>3, <1>4, <1>5, <1>6

(* A user's history names stored transactions only, wherever record() is   *)
(* cut short.                                                              *)
THEOREM IndexSafe == BooksSpec => []IndexedIsStored
  <1>1. BInv /\ [BooksNext]_booksVars => BInv'
    BY BooksStep
  <1>2. HistoryInv => IndexedIsStored
    BY DEF HistoryInv
  <1>3. QED
    BY <1>1, <1>2, BooksStart, HistoryStart, HistoryStep, PTL DEF BooksSpec

-----------------------------------------------------------------------------
(* Bounties: the daemon, the adapter that serves it, and their caches.     *)
(* Where the daemon has a bounty in hand.                                  *)
Hands == {"evaluate", "clone", "attempt", "test", "deliver"}
Prices == {"absent"} \cup Values
Offers == [item : Posts, value : Prices]

HuntTypes ==
  /\ posted \in [Posts -> Prices] /\ cache \in [Posts -> Prices]
  /\ serving \in [mock : BOOLEAN, next : {"idle", "mock", "bc", "gh", "algora", "answer"},
                  found : SUBSET Offers]
  /\ daemon \in [pc : {"down", "asleep", "polling", "cycle"} \cup Hands, dry : BOOLEAN,
                 item : Items \cup {NoItem}, attempt : Int]
  /\ seen \in SUBSET Items /\ batch \in SUBSET Items
  /\ prs \in [Items -> Nat] /\ worked \in [Items -> Nat]

(* Only a daemon that waits for an answer is served, and only when it is   *)
(* between two cycles, with nothing in its hands.                          *)
Turns ==
  /\ daemon.pc \in Hands <=> daemon.item # NoItem
  /\ daemon.pc \in {"down", "asleep", "polling"} => batch = {}
  /\ serving.next # "idle" => daemon.pc = "polling"

(* What was begun has been seen and is no longer in the batch; what was    *)
(* requested has a branch.                                                 *)
Begun ==
  /\ batch \subseteq seen
  /\ \A b \in Items : worked[b] <= 1 /\ (worked[b] > 0 => b \in seen \ batch)

Requested == \A b \in Items : prs[b] <= 1 /\ (prs[b] > 0 => b \in branches)

HInv ==
  HuntTypes /\ Turns /\ Begun /\ Requested /\ OneBountyPerLink

USE DEF Values, Prices, Hands

(* What one answer of the adapter may be: no two postings of one link.     *)
Distinct(answer) == \A b, c \in answer \cap Posts : LinkOf[b] = LinkOf[c] => b = c

LEMMA HuntInitInv == HuntInit => HInv
BY BountyAssumption DEF HuntInit, HInv, HuntTypes, Turns, Begun, Requested, OneBountyPerLink,
   InHand, Serve, Down, Offers, Items

(* What the adapter offers holds no link twice: one offer of each was kept. *)
LEMMA OfferedOnce ==
  ASSUME NEW found \in SUBSET Offers, NEW kept \in FirstOfLink(found)
  PROVE  Valid(kept) \subseteq Posts /\ Distinct(Valid(kept))
  <1>1. /\ kept \subseteq Offers
        /\ \A o, p \in kept : LinkOf[o.item] = LinkOf[p.item] => o = p
    BY DEF FirstOfLink, SameLink
  <1>2. \A b \in Valid(kept) : b \in Posts /\ \E o \in kept : b = o.item
    BY <1>1 DEF Valid, Offers
  <1>3. QED
    BY <1>1, <1>2 DEF Distinct

LEMMA HistoricalOnce ==
  ASSUME NEW answer \in SUBSET Mocks
  PROVE  answer \subseteq Items /\ Distinct(answer)
  BY BountyAssumption DEF Items, Distinct

(* Whatever it is answered, the daemon has in hand only what is new.       *)
LEMMA ReceiveKeeps ==
  ASSUME HInv, NEW answer \in SUBSET Items, Distinct(answer),
         Receive(answer), daemon.pc \in {"asleep", "polling"},
         serving'.next = "idle", serving' \in [mock : BOOLEAN,
           next : {"idle", "mock", "bc", "gh", "algora", "answer"}, found : SUBSET Offers],
         UNCHANGED <<posted, cache, disk>>
  PROVE  HInv'
  <1>1. /\ daemon.item = NoItem /\ daemon' = [daemon EXCEPT !.pc = "cycle"]
        /\ batch' = answer \ seen /\ seen' = seen \cup answer /\ worked' = worked
    BY DEF HInv, Turns, HuntTypes, Receive, NewBounties, Goto
  <1>2. HuntTypes'
    BY <1>1 DEF HInv, HuntTypes, disk
  <1>3. Turns' /\ InHand' \subseteq answer
    BY <1>1 DEF HInv, HuntTypes, Turns, InHand
  <1>4. Begun'
    BY <1>1 DEF HInv, HuntTypes, Begun
  <1>5. Requested'
    BY DEF HInv, Requested, disk
  <1>6. QED
    BY <1>2, <1>3, <1>4, <1>5 DEF HInv, OneBountyPerLink, Distinct

(* The sources and the adapter touch nothing of the daemon's.              *)
LEMMA AdapterKeeps ==
  ASSUME HInv, UNCHANGED <<sniper, disk>>, HuntTypes',
         serving'.next # "idle" => serving.next # "idle"
  PROVE  HInv'
BY DEF HInv, Turns, Begun, Requested, OneBountyPerLink, InHand, sniper, disk

LEMMA AdapterInv ==
  ASSUME HInv, Adapter
  PROVE  HInv'
  <1> USE DEF HInv
  <1>1. ASSUME NEW b \in Posts, NEW v \in Prices, Post(b, v) PROVE HInv'
    <2>1. HuntTypes'
      BY <1>1 DEF Post, HuntTypes, sniper, disk
    <2>2. QED
      BY <1>1, <2>1, AdapterKeeps DEF Post
  <1>2. ASSUME FetchBountycaster PROVE HInv'
    <2>1. PICK got \in SUBSET Listed("bc") :
            /\ cache' = [b \in Posts |-> IF b \in got THEN Detail(b) ELSE cache[b]]
            /\ serving' = [serving EXCEPT !.next = "gh",
                                          !.found = {Offer(b, Detail(b)) : b \in got}]
      BY <1>2 DEF FetchBountycaster
    <2>2. got \subseteq Posts
      BY DEF Listed
    <2>3. \A b \in Posts : Detail(b) \in Prices
      BY DEF Detail, HuntTypes
    <2>4. {Offer(b, Detail(b)) : b \in got} \in SUBSET Offers
      BY <2>2, <2>3 DEF Offer, Offers
    <2>5. HuntTypes'
      BY <1>2, <2>1, <2>3, <2>4 DEF FetchBountycaster, HuntTypes, sniper, disk
    <2>6. QED
      BY <1>2, <2>5, AdapterKeeps DEF FetchBountycaster
  <1>3. ASSUME NEW source \in {"gh", "algora"}, NEW next \in {"algora", "answer"},
               Search(source, next)
        PROVE  HInv'
    <2>1. PICK got \in SUBSET Listed(source) :
            serving' = [serving EXCEPT !.next = next,
                                       !.found = @ \cup {Offer(b, posted[b]) : b \in got}]
      BY <1>3 DEF Search
    <2>2. {Offer(b, posted[b]) : b \in got} \in SUBSET Offers
      BY DEF Listed, Offer, Offers, HuntTypes
    <2>3. HuntTypes'
      BY <1>3, <2>1, <2>2 DEF Search, HuntTypes, sniper, disk
    <2>4. QED
      BY <1>3, <2>3, AdapterKeeps DEF Search
  <1>4. ASSUME Answer PROVE HInv'
    <2>1. PICK kept \in FirstOfLink(serving.found) : Receive(Valid(kept))
      BY <1>4 DEF Answer
    <2>2. /\ serving' = Serve(FALSE) /\ daemon.pc = "polling"
          /\ UNCHANGED <<posted, cache, disk>>
      BY <1>4 DEF Answer, Turns
    <2>4. Valid(kept) \subseteq Items /\ Distinct(Valid(kept))
      BY OfferedOnce DEF HuntTypes, Items
    <2>3. /\ serving'.next = "idle"
          /\ serving' \in [mock : BOOLEAN, next : {"idle", "mock", "bc", "gh", "algora", "answer"},
                           found : SUBSET Offers]
      BY <2>2 DEF Serve
    <2>5. QED
      BY <2>1, <2>2, <2>3, <2>4, ReceiveKeeps
  <1>5. ASSUME AnswerMock PROVE HInv'
    <2>1. /\ Receive(Funded) /\ serving' = Serve(TRUE)
          /\ UNCHANGED <<posted, cache, disk>> /\ daemon.pc = "polling"
      BY <1>5 DEF AnswerMock, Turns
    <2>2. Funded \in SUBSET Mocks
      BY BountyAssumption
    <2>3. /\ serving'.next = "idle"
          /\ serving' \in [mock : BOOLEAN, next : {"idle", "mock", "bc", "gh", "algora", "answer"},
                           found : SUBSET Offers]
      BY <2>1 DEF Serve
    <2>4. QED
      BY <2>1, <2>2, <2>3, HistoricalOnce, ReceiveKeeps
  <1>6. ASSUME NEW b \in Posts, CacheExpires(b) PROVE HInv'
    <2>1. HuntTypes'
      BY <1>6 DEF CacheExpires, HuntTypes, sniper, disk
    <2>2. QED
      BY <1>6, <2>1, AdapterKeeps DEF CacheExpires
  <1>7. ASSUME NEW mock \in BOOLEAN, RestartAdapter(mock) PROVE HInv'
    <2>1. HuntTypes' /\ serving'.next = "idle"
      BY <1>7 DEF RestartAdapter, Serve, HuntTypes, sniper, disk
    <2>2. QED
      BY <1>7, <2>1, AdapterKeeps DEF RestartAdapter
  <1>8. QED
    BY <1>1, <1>2, <1>3, <1>4, <1>5, <1>6, <1>7 DEF Adapter, SearchGitHub, SearchAlgora

(* The daemon is gone with all it had in memory; the disk stays.           *)
LEMMA StoppedKeeps ==
  ASSUME HInv, Stopped, UNCHANGED <<posted, cache, prs, branches>>
  PROVE  HInv'
  <1>1. /\ daemon' = Down /\ seen' = {} /\ batch' = {} /\ worked' = [b \in Items |-> 0]
        /\ serving' = Serve(serving.mock) /\ serving.mock \in BOOLEAN
    BY DEF Stopped, HInv, HuntTypes
  <1>2. HuntTypes' /\ Turns' /\ InHand' = {}
    BY <1>1 DEF HInv, HuntTypes, Turns, InHand, Down, Serve
  <1>3. Begun' /\ Requested'
    BY <1>1 DEF HInv, Begun, Requested
  <1>4. QED
    BY <1>2, <1>3 DEF HInv, OneBountyPerLink

(* The daemon goes on without taking or dropping a bounty, or drops the    *)
(* one in its hands.                                                       *)
LEMMA GoesOnKeeps ==
  ASSUME HInv, UNCHANGED <<posted, cache, seen, batch, worked, branches, prs>>,
         HuntTypes', Turns', daemon'.item \in {daemon.item, NoItem}
  PROVE  HInv'
  <1>1. InHand' \subseteq InHand
    BY DEF InHand
  <1>2. QED
    BY <1>1 DEF HInv, Begun, Requested, OneBountyPerLink

(* What becomes of the daemon when it drops its bounty, or goes on.        *)
LEMMA DaemonIs ==
  ASSUME HuntTypes
  PROVE  /\ daemon = [pc |-> daemon.pc, dry |-> daemon.dry, item |-> daemon.item,
                      attempt |-> daemon.attempt]
         /\ daemon.dry \in BOOLEAN /\ daemon.attempt \in Int
         /\ daemon.item \in Items \cup {NoItem}
  BY DEF HuntTypes

LEMMA DaemonDrops ==
  ASSUME HuntTypes, NextBounty
  PROVE  /\ daemon' \in [pc : {"cycle"}, dry : BOOLEAN, item : {NoItem}, attempt : Int]
         /\ daemon'.pc = "cycle" /\ daemon'.item = NoItem
  <1>1. daemon' = [pc |-> "cycle", dry |-> daemon.dry, item |-> NoItem, attempt |-> 0]
    BY DaemonIs DEF NextBounty
  <1>2. QED
    BY <1>1, DaemonIs

LEMMA DaemonGoes ==
  ASSUME HuntTypes, NEW label \in Hands, Goto(label)
  PROVE  /\ daemon' \in [pc : {"cycle"} \cup Hands, dry : BOOLEAN, item : Items \cup {NoItem},
                         attempt : Int]
         /\ daemon'.pc \in Hands /\ daemon'.item = daemon.item
  <1>1. daemon' = [pc |-> label, dry |-> daemon.dry, item |-> daemon.item,
                   attempt |-> daemon.attempt]
    BY DaemonIs DEF Goto
  <1>2. QED
    BY <1>1, DaemonIs

LEMMA DaemonTriesAgain ==
  ASSUME HuntTypes, NEW n \in Int, daemon' = [daemon EXCEPT !.pc = "attempt", !.attempt = n]
  PROVE  /\ daemon' \in [pc : {"cycle"} \cup Hands, dry : BOOLEAN, item : Items \cup {NoItem},
                         attempt : Int]
         /\ daemon'.pc \in Hands /\ daemon'.item = daemon.item
  <1>1. daemon' = [pc |-> "attempt", dry |-> daemon.dry, item |-> daemon.item, attempt |-> n]
    BY DaemonIs
  <1>2. QED
    BY <1>1, DaemonIs

LEMMA SniperInv ==
  ASSUME HInv, RunOnce
  PROVE  HInv'
  <1> USE DEF HInv
  <1>1. ASSUME Poll PROVE HInv'
    <2>1. HuntTypes' /\ Turns'
      BY <1>1 DEF Poll, Doing, Goto, HuntTypes, Turns, disk
    <2>2. QED
      BY <1>1, <2>1, GoesOnKeeps DEF Poll, Goto, HuntTypes, disk
  <1>2. ASSUME PollDry PROVE HInv'
    <2>1. Receive(Mocks) /\ daemon.pc = "asleep" /\ UNCHANGED <<posted, cache, disk, serving>>
      BY <1>2 DEF PollDry, Doing
    <2>2. serving.next = "idle"
      BY <2>1 DEF Turns
    <2>3. QED
      BY <2>1, <2>2, HistoricalOnce, ReceiveKeeps DEF HuntTypes
  <1>3. ASSUME PollFails PROVE HInv'
    <2>1. /\ Receive({}) /\ daemon.pc = "polling" /\ UNCHANGED <<posted, cache, disk>>
          /\ serving' = Serve(serving.mock)
      BY <1>3 DEF PollFails, Doing
    <2>2. /\ serving'.next = "idle"
          /\ serving' \in [mock : BOOLEAN, next : {"idle", "mock", "bc", "gh", "algora", "answer"},
                           found : SUBSET Offers]
      BY <2>1 DEF Serve, HuntTypes
    <2>3. Distinct({})
      BY DEF Distinct
    <2>4. QED
      BY <2>1, <2>2, <2>3, ReceiveKeeps
  <1>4. ASSUME NEW b \in Items, BeginBounty(b) PROVE HInv'
    <2>1. /\ daemon.pc = "cycle" /\ b \in batch /\ batch' = batch \ {b}
          /\ worked' = [worked EXCEPT ![b] = @ + 1] /\ seen' = seen
          /\ daemon' = [daemon EXCEPT !.pc = "evaluate", !.item = b]
          /\ UNCHANGED <<posted, serving, cache, branches, prs>>
      BY <1>4 DEF BeginBounty, Doing, disk
    <2>2. HuntTypes' /\ Turns'
      <3>1. daemon' \in [pc : Hands, dry : BOOLEAN, item : Items, attempt : Int]
        BY <2>1 DEF HuntTypes
      <3>2. worked' \in [Items -> Nat] /\ batch' \in SUBSET Items
        BY <2>1 DEF HuntTypes
      <3>3. HuntTypes'
        BY <2>1, <3>1, <3>2 DEF HuntTypes
      <3>4. Turns'
        BY <2>1, <3>1, BountyAssumption DEF Turns
      <3>5. QED
        BY <3>3, <3>4
    <2>3. worked[b] = 0
      BY <2>1 DEF Begun, HuntTypes
    <2>4. Begun' /\ Requested'
      BY <2>1, <2>3 DEF HuntTypes, Begun, Requested
    <2>5. InHand' \subseteq InHand
      BY <2>1 DEF HuntTypes, InHand
    <2>6. QED
      BY <2>2, <2>4, <2>5 DEF OneBountyPerLink
  <1>5. ASSUME EndCycle PROVE HInv'
    <2>1. HuntTypes' /\ Turns'
      BY <1>5 DEF EndCycle, Doing, Goto, HuntTypes, Turns, disk
    <2>2. QED
      BY <1>5, <2>1, GoesOnKeeps DEF EndCycle, Goto, HuntTypes, disk
  <1>6. ASSUME \/ Evaluate \/ UseClone \/ MakeClone \/ Repair \/ TestsPass \/ AttemptFails
               \/ DeliverDry
        PROVE  HInv'
    <2>1. /\ daemon.pc \in Hands /\ daemon.item \in Items
          /\ UNCHANGED <<posted, serving, cache, seen, batch, worked, branches, prs>>
      BY <1>6 DEF Evaluate, UseClone, MakeClone, Repair, TestsPass, AttemptFails, DeliverDry,
         Doing, Memory, disk, Turns, HuntTypes
    <2>2. \/ NextBounty
          \/ Goto("clone") \/ Goto("test") \/ Goto("deliver")
          \/ daemon' = [daemon EXCEPT !.pc = "attempt", !.attempt = 1]
          \/ daemon' = [daemon EXCEPT !.pc = "attempt", !.attempt = NextAttempt]
      <3>1. CASE Evaluate \/ Repair \/ TestsPass \/ DeliverDry
        BY <3>1 DEF Evaluate, Repair, TestsPass, DeliverDry
      <3>2. CASE UseClone
        BY <3>2 DEF UseClone
      <3>3. CASE MakeClone
        BY <3>3 DEF MakeClone
      <3>4. CASE AttemptFails
        BY <3>4 DEF AttemptFails
      <3>5. QED
        BY <1>6, <3>1, <3>2, <3>3, <3>4
    <2>3. /\ daemon' \in [pc : {"cycle"} \cup Hands, dry : BOOLEAN, item : Items \cup {NoItem},
                         attempt : Int]
          /\ \/ daemon'.pc = "cycle" /\ daemon'.item = NoItem
             \/ daemon'.pc \in Hands /\ daemon'.item = daemon.item
      <3>1. CASE NextBounty
        BY <3>1, DaemonDrops
      <3> DEFINE On == /\ daemon' \in [pc : {"cycle"} \cup Hands, dry : BOOLEAN,
                                       item : Items \cup {NoItem}, attempt : Int]
                       /\ daemon'.pc \in Hands /\ daemon'.item = daemon.item
                 Again(n) == daemon' = [daemon EXCEPT !.pc = "attempt", !.attempt = n]
      <3>2. ASSUME NEW label \in Hands, Goto(label) PROVE On
        BY <3>2, DaemonGoes
      <3>3. ASSUME NEW n \in Int, Again(n) PROVE On
        BY <3>3, DaemonTriesAgain
      <3>4. 1 \in Int /\ NextAttempt \in Int
        BY DEF NextAttempt, HuntTypes
      <3>5. \/ NextBounty \/ Goto("clone") \/ Goto("test") \/ Goto("deliver")
            \/ Again(1) \/ Again(NextAttempt)
        BY <2>2
      <3> HIDE DEF On, Again
      <3>6. NextBounty \/ On
        BY <3>2, <3>3, <3>4, <3>5
      <3>7. QED
        BY <3>1, <3>6 DEF On
    <2>4. Turns' /\ daemon'.item \in {daemon.item, NoItem}
      BY <2>1, <2>3, BountyAssumption DEF Turns
    <2>5. HuntTypes'
      BY <2>1, <2>3 DEF HuntTypes
    <2>6. QED
      BY <2>1, <2>4, <2>5, GoesOnKeeps
  <1>7. ASSUME TimesOut PROVE HInv'
    BY <1>7, StoppedKeeps DEF TimesOut
  <1>8. ASSUME DeliverRaises PROVE HInv'
    BY <1>8, StoppedKeeps DEF DeliverRaises, disk
  <1>9. ASSUME Deliver PROVE HInv'
    <2> DEFINE b == daemon.item
    <2>1. /\ daemon.pc = "deliver" /\ b \notin branches /\ NextBounty
          /\ branches \subseteq branches'
          /\ UNCHANGED <<posted, serving, cache, seen, batch, worked>>
          /\ \/ b \in branches' /\ prs' = [prs EXCEPT ![b] = @ + 1]
             \/ prs' = prs
      BY <1>9 DEF Deliver, Doing, BranchRefused, Memory
    <2>2. b \in Items
      BY <2>1 DEF Turns, HuntTypes
    <2>3. prs[b] = 0
      BY <2>1, <2>2 DEF Requested, HuntTypes
    <2>4. HuntTypes'
      <3>1. daemon' \in [pc : {"cycle"}, dry : BOOLEAN, item : {NoItem}, attempt : Int]
        BY <2>1, DaemonDrops
      <3>2. prs' \in [Items -> Nat]
        BY <2>1, <2>2 DEF HuntTypes
      <3>3. QED
        BY <2>1, <3>1, <3>2 DEF HuntTypes
    <2>5. Turns' /\ InHand' \subseteq InHand
      BY <2>1 DEF HuntTypes, Turns, NextBounty, InHand
    <2>6. Begun'
      BY <2>1 DEF Begun
    <2> HIDE DEF b
    <2>7. Requested'
      BY <2>1, <2>2, <2>3 DEF HuntTypes, Requested
    <2>8. QED
      BY <2>4, <2>5, <2>6, <2>7 DEF OneBountyPerLink
  <1>10. QED
    BY <1>1, <1>2, <1>3, <1>4, <1>5, <1>6, <1>7, <1>8, <1>9 DEF RunOnce

LEMMA HuntNextInv == HInv /\ [HuntNext]_huntVars => HInv'
  <1> SUFFICES ASSUME HInv, [HuntNext]_huntVars PROVE HInv'
    OBVIOUS
  <1>1. ASSUME Kill PROVE HInv'
    BY <1>1, StoppedKeeps DEF Kill
  <1>2. ASSUME NEW dry \in BOOLEAN, Start(dry) PROVE HInv'
    <2>1. /\ daemon' = [pc |-> "asleep", dry |-> dry, item |-> NoItem, attempt |-> 0]
          /\ daemon.pc = "down"
          /\ UNCHANGED <<posted, serving, cache, seen, batch, worked, branches, prs>>
      BY <1>2 DEF Start, Doing, Down, disk
    <2>2. HuntTypes' /\ Turns' /\ daemon'.item = NoItem
      BY <2>1 DEF HInv, HuntTypes, Turns
    <2>3. QED
      BY <2>1, <2>2, GoesOnKeeps DEF HInv, HuntTypes
  <1>3. ASSUME UNCHANGED huntVars PROVE HInv'
    BY <1>3 DEF huntVars, sniper, disk, HInv, HuntTypes, Turns, Begun, Requested,
       OneBountyPerLink, InHand
  <1>4. QED
    BY <1>1, <1>2, <1>3, AdapterInv, SniperInv DEF HuntNext

(* However the sources fail and change while they are read, one cycle      *)
(* never works on two postings of one link: DedupEngine.                   *)
THEOREM LinksSafe == HuntSpec => []OneBountyPerLink
  <1>1. HInv => OneBountyPerLink
    BY DEF HInv
  <1>2. QED
    BY <1>1, HuntInitInv, HuntNextInv, PTL DEF HuntSpec

(* A bounty is begun once as long as the daemon lives and one pull request *)
(* is opened for it, however often the daemon is killed and started again. *)
THEOREM RequestsSafe == HuntSpec => []OnePullRequest
  <1>1. HInv => OnePullRequest
    BY DEF HInv, Begun, Requested, OnePullRequest
  <1>2. QED
    BY <1>1, HuntInitInv, HuntNextInv, PTL DEF HuntSpec
=============================================================================
