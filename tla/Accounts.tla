------------------------------ MODULE Accounts ------------------------------
(***************************************************************************)
(* Who is asking: the accounts, API keys and tokens of                     *)
(* src/gateway/database.py, the endpoints /api/auth/* and the middleware   *)
(* that lets a request through (src/gateway/server.py).                    *)
(*                                                                         *)
(* A database call runs in a thread of an executor and may be several SQL  *)
(* statements with a slow hash in between; each statement is atomic, and   *)
(* all threads share one connection.  An action is one statement, or a     *)
(* handler with one statement.  Passwords and signatures are right or      *)
(* wrong, and wrong ones change nothing but the rate limiter.              *)
(*                                                                         *)
(* An account is its row number.  Accounts are not deleted, their secrets  *)
(* not changed, and whoever has one can log in again, so that a request    *)
(* may come with a token of any account.                                   *)
(***************************************************************************)
EXTENDS Integers, Sequences, FiniteSets

CONSTANTS
  Requests,
  Wallets, NoWallet,
  Emails,         (* addresses people register with                         *)
  DefaultEmail,   (* of a wallet: made from its first eight characters      *)
  Spellings,      (* one wallet's address, in upper and lower case letters  *)
  MaxKeys,        (* MAX_API_KEYS_PER_USER                                  *)
  RateMax,        (* RATE_LIMIT_MAX                                         *)
  MaxUsers, MaxIssued,            (* bounds on rows of users and api_keys   *)
  MaxLinks                        (* and on links of wallets                *)

ASSUME AccountAssumption ==
  /\ NoWallet \notin Wallets
  /\ IsFiniteSet(Requests)
  /\ DefaultEmail \in [Wallets -> Emails]
  /\ MaxKeys \in Nat \ {0} /\ RateMax \in Nat
  /\ MaxUsers \in Nat /\ MaxIssued \in Nat /\ MaxLinks \in Nat

VARIABLES
  users,          (* rows [email, wallet]                                   *)
  keys,           (* rows [user, live]                                      *)
  request,        (* locals of a request                                    *)
  counter,        (* signed requests of one wallet in this window, by the   *)
                  (* spelling of its address                                *)
  passed,         (* those let through: history                             *)
  linked          (* <<account, wallet>> ever linked: history               *)

vars == <<users, keys, request, counter, passed, linked>>
limiter == <<counter, passed>>

Accounts == 1..Len(users)
Keys == 1..Len(keys)
NoUser == 0
NoKey == 0
Idle == [pc |-> "idle", user |-> NoUser, wallet |-> NoWallet, email |-> "", key |-> NoKey,
         dead |-> FALSE]

Init ==
  /\ users = <<>> /\ keys = <<>> /\ linked = {}
  /\ request = [r \in Requests |-> Idle]
  /\ counter = [s \in Spellings |-> 0] /\ passed = [s \in Spellings |-> 0]

At(r, label) == request[r].pc = label
Begin(r, locals) == At(r, "idle") /\ request' = [request EXCEPT ![r] = locals]
End(r) == request' = [request EXCEPT ![r] = Idle]

-----------------------------------------------------------------------------
(* The table of users.                                                     *)

(* Mutant: the schema does not declare the address UNIQUE.                 *)
NeverViolated(e, self) == FALSE
UniqueViolated(e, self) == \E i \in Accounts : i # self /\ users[i].email = e

(* fetchone: a row; where several match, the query does not say which.     *)
First(S) == IF S = {} THEN NoUser ELSE CHOOSE i \in S : TRUE
ByWallet(w) == First({i \in Accounts : users[i].wallet = w})
ByEmail(e) == First({i \in Accounts : users[i].email = e})

Insert(e, w) ==
  /\ Len(users) < MaxUsers
  /\ users' = Append(users, [email |-> e, wallet |-> w])
  /\ linked' = linked \cup {<<Len(users) + 1, w>>}

Register(e, w) ==
  /\ ~UniqueViolated(e, NoUser)
  /\ Insert(e, w)
  /\ UNCHANGED <<keys, request, limiter>>

(* create_jwt: the answer carries a token of the account and its wallet.   *)
LoggedIn(r, i, w) ==
  request' = [request EXCEPT ![r] = [Idle EXCEPT !.pc = "loggedin", !.user = i, !.wallet = w]]

(* authenticate_user: the row of the address, and the right password.      *)
Login(r, e) ==
  /\ At(r, "idle")
  /\ ByEmail(e) # NoUser
  /\ LoggedIn(r, ByEmail(e), users[ByEmail(e)].wallet)
  /\ UNCHANGED <<users, keys, limiter, linked>>

(* auth_wallet_login: look the wallet up, create an account, and where the *)
(* address is taken look again.                                            *)
LookUp(r, w) ==
  /\ At(r, "idle")
  /\ IF ByWallet(w) # NoUser
       THEN LoggedIn(r, ByWallet(w), w)
       ELSE Begin(r, [Idle EXCEPT !.pc = "create", !.wallet = w])
  /\ UNCHANGED <<users, keys, limiter, linked>>

CreateAccount(r) ==
  LET w == request[r].wallet IN
  /\ At(r, "create")
  /\ ~UniqueViolated(DefaultEmail[w], NoUser)
  /\ Insert(DefaultEmail[w], w)
  /\ LoggedIn(r, Len(users) + 1, w)
  /\ UNCHANGED <<keys, limiter>>

AddressTaken(r) ==
  /\ At(r, "create")
  /\ UniqueViolated(DefaultEmail[request[r].wallet], NoUser)
  /\ request' = [request EXCEPT ![r].pc = "again"]
  /\ UNCHANGED <<users, keys, limiter, linked>>

(* Mutant: the second look is for the address that was taken.              *)
ByTakenEmail(w) == ByEmail(DefaultEmail[w])
FoundAgain(w) == ByWallet(w)
Missing(i) == i = NoUser

LookUpAgain(r) ==
  LET w == request[r].wallet IN
  /\ At(r, "again")
  /\ IF Missing(FoundAgain(w))
       THEN End(r)
       ELSE LoggedIn(r, FoundAgain(w), w)
  /\ UNCHANGED <<users, keys, limiter, linked>>

(* The answer of a login or an admission has been sent.                    *)
Done(r) ==
  /\ At(r, "loggedin") \/ At(r, "admitted")
  /\ End(r)
  /\ UNCHANGED <<users, keys, limiter, linked>>

(* auth_link_wallet: the tokens issued before keep the old wallet.         *)
LinkWallet(i, w) ==
  /\ Cardinality(linked) < MaxLinks
  /\ users' = [users EXCEPT ![i].wallet = w]
  /\ linked' = linked \cup {<<i, w>>}
  /\ UNCHANGED <<keys, request, limiter>>

(* update_profile: a query whether the address is in use, then the update, *)
(* which the schema may still refuse.                                      *)
CheckEmail(r, i, e) ==
  /\ ~UniqueViolated(e, i)
  /\ Begin(r, [Idle EXCEPT !.pc = "profile", !.user = i, !.email = e])
  /\ UNCHANGED <<users, keys, limiter, linked>>

UpdateEmail(r) ==
  LET i == request[r].user IN
  /\ At(r, "profile")
  /\ users' = IF UniqueViolated(request[r].email, i) THEN users
              ELSE [users EXCEPT ![i].email = request[r].email]
  /\ End(r)
  /\ UNCHANGED <<keys, limiter, linked>>

-----------------------------------------------------------------------------
(* The table of API keys.                                                  *)

Live(i) == {k \in Keys : keys[k].user = i /\ keys[k].live}

(* Mutant: one key more.                                                   *)
PastLimit(n) == n > MaxKeys
AtLimit(n) == n >= MaxKeys

(* generate_api_key: the count, the slow hash, the insertion.              *)
CountKeys(r, i) ==
  /\ ~AtLimit(Cardinality(Live(i)))
  /\ Begin(r, [Idle EXCEPT !.pc = "insert", !.user = i])
  /\ UNCHANGED <<users, keys, limiter, linked>>

InsertKey(r) ==
  /\ At(r, "insert")
  /\ Len(keys) < MaxIssued
  /\ keys' = Append(keys, [user |-> request[r].user, live |-> TRUE])
  /\ End(r)
  /\ UNCHANGED <<users, limiter, linked>>

(* revoke_api_key, by the owner.                                           *)
Revoke(i, k) ==
  /\ keys[k].user = i
  /\ keys' = [keys EXCEPT ![k].live = FALSE]
  /\ UNCHANGED <<users, request, limiter, linked>>

(* verify_api_key reads the live keys and compares hash after hash; the    *)
(* key may be revoked before it comes to the right one.                    *)
Arrive(r, k) ==
  /\ Begin(r, [Idle EXCEPT !.pc = "select", !.key = k, !.dead = ~keys[k].live])
  /\ UNCHANGED <<users, keys, limiter, linked>>

(* Mutant: the query reads revoked keys as well.                           *)
AllKeys == Keys
Selected == {k \in Keys : keys[k].live}

SelectKeys(r) ==
  /\ At(r, "select")
  /\ IF request[r].key \in Selected
       THEN request' = [request EXCEPT ![r].pc = "compare"]
       ELSE End(r)
  /\ UNCHANGED <<users, keys, limiter, linked>>

(* The hash fits; the account is read for its wallet.                      *)
AcceptKey(r) ==
  /\ At(r, "compare")
  /\ request' = [request EXCEPT ![r].pc = "admitted"]
  /\ UNCHANGED <<users, keys, limiter, linked>>

-----------------------------------------------------------------------------
(* The wallet's own signature, behind a rate limiter.  The name of the     *)
(* counter holds the address as the header spells it and the number of the *)
(* window; the signer is compared in lower case.                           *)

Exceeded(n) == n > RateMax

Signed(s, valid) ==
  /\ counter[s] <= RateMax + 1
  /\ counter' = [counter EXCEPT ![s] = @ + 1]
  /\ passed' = IF valid /\ ~Exceeded(counter'[s]) THEN [passed EXCEPT ![s] = @ + 1] ELSE passed
  /\ UNCHANGED <<users, keys, request, linked>>

NextWindow ==
  /\ \E s \in Spellings : counter[s] > 0
  /\ counter' = [s \in Spellings |-> 0] /\ passed' = [s \in Spellings |-> 0]
  /\ UNCHANGED <<users, keys, request, linked>>

-----------------------------------------------------------------------------
(* verify_jwt: the account a token names exists, and its secret signed it. *)
TokenHolders == Accounts

Next ==
  \/ \E e \in Emails, w \in Wallets \cup {NoWallet} : Register(e, w)
  \/ \E i \in TokenHolders :
       \/ \E w \in Wallets : LinkWallet(i, w)
       \/ \E k \in Keys : Revoke(i, k)
  \/ \E r \in Requests :
       \/ \E w \in Wallets : LookUp(r, w)
       \/ CreateAccount(r) \/ AddressTaken(r) \/ LookUpAgain(r) \/ Done(r)
       \/ \E e \in Emails : Login(r, e)
       \/ \E i \in TokenHolders :
            \/ CountKeys(r, i)
            \/ \E e \in Emails : CheckEmail(r, i, e)
       \/ UpdateEmail(r) \/ InsertKey(r)
       \/ \E k \in Keys : Arrive(r, k)
       \/ SelectKeys(r) \/ AcceptKey(r)
  \/ \E s \in Spellings, valid \in BOOLEAN : Signed(s, valid)
  \/ NextWindow

Spec == Init /\ [][Next]_vars

-----------------------------------------------------------------------------
(* PROPERTIES                                                              *)

(* However registrations, wallet logins and changes of profile meet, an    *)
(* address names one account: create_user, update_profile.                 *)
EmailsUnique == \A i, j \in Accounts : users[i].email = users[j].email => i = j

(* A wallet whose default address is taken, by a racing login or by a      *)
(* wallet with the same first characters, is never logged in to an account *)
(* that is not its own: auth_wallet_login.                                 *)
LoginIsOwn ==
  \A r \in Requests : At(r, "loggedin") => <<request[r].user, request[r].wallet>> \in linked

(* What the endpoint and the error say: at most MAX_API_KEYS_PER_USER live *)
(* keys per account.  The count and the insertion are apart, so that       *)
(* requests at one time may pass it together: generate_api_key.            *)
KeysWithinLimit == \A i \in Accounts : Cardinality(Live(i)) <= MaxKeys

(* What the code keeps to instead: an account passes the limit by less     *)
(* than there are requests at a time, and not at all where there is one.   *)
KeysNearLimit ==
  \A i \in Accounts : Cardinality(Live(i)) < MaxKeys + Cardinality(Requests)

(* No request gets through with a key that was revoked before it arrived,  *)
(* though one revoked since may, and no more than RATE_LIMIT_MAX signed    *)
(* ones in a window under one spelling of the address: verify_api_key,     *)
(* verify_wallet_middleware.                                               *)
LetThrough ==
  /\ \A r \in Requests : At(r, "admitted") => ~request[r].dead
  /\ \A s \in Spellings : passed[s] <= RateMax
=============================================================================
