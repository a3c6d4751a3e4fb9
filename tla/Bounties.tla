------------------------------ MODULE Bounties ------------------------------
(***************************************************************************)
(* The bounty hunter beside the gateway: the adapter                       *)
(* (scripts/bounty_adapter.py), an HTTP server that gathers bounties from  *)
(* three sources, and the sniper (scripts/gitcoin_sniper.py), a daemon     *)
(* that polls it, asks the gateway which bounties can be automated, works  *)
(* on them in a clone and opens a pull request.                            *)
(*                                                                         *)
(* A posting has an id of its own, even where two are about one issue.     *)
(* The adapter serves one request at a time and reads its sources one      *)
(* after the other, each of which may fail or stop early.  The sniper      *)
(* keeps in memory which ids it has seen, and on disk its clones, one      *)
(* directory to the last part of a repository's address.  Whatever         *)
(* run_once raises ends it.                                                *)
(*                                                                         *)
(* A link is the text of an address and not the issue it leads to: what    *)
(* Bountycaster's posting says up to a space or a bracket, and GitHub's    *)
(* own spelling of it in the other two.  One issue may have several.       *)
(* A posting without a GitHub link is left out: the adapter never offers   *)
(* it and it hides none.                                                   *)
(***************************************************************************)
EXTENDS Integers, FiniteSets, FiniteSetsExt

CONSTANTS
  Posts,          (* ids of the postings that sources may list              *)
  SourceOf,       (* and where                                              *)
  LinkOf,         (* github_url                                             *)
  Mocks,          (* HISTORICAL_BOUNTIES                                    *)
  Funded,         (* those of them above MIN_BOUNTY_USD, with a link        *)
  Automatable,    (* bounties whose text the keyword heuristic matches      *)
  Dirs, DirOf, NoItem,
  MaxExecRetries, (* MAX_EXEC_RETRIES                                       *)
  MaxChanges, MaxStarts           (* bounds on postings and on restarts     *)

Sources == {"bc", "gh", "algora"}
Items == Posts \cup Mocks

ASSUME BountyAssumption ==
  /\ Posts \cap Mocks = {} /\ NoItem \notin Items
  /\ SourceOf \in [Posts -> Sources] /\ DOMAIN LinkOf = Posts
  /\ Funded \subseteq Mocks /\ Automatable \subseteq Items
  /\ DirOf \in [Items -> Dirs]
  /\ MaxExecRetries \in Nat \ {0} /\ MaxChanges \in Nat /\ MaxStarts \in Nat

VARIABLES
  posted,         (* what the sources list: "absent", or its value          *)
  serving,        (* the adapter: its mode, the next source, what it found  *)
  cache,          (* Bountycaster details it keeps for CACHE_TTL            *)
  daemon,         (* the sniper: where it is in run_once, or "down"         *)
  seen, batch,    (* ids seen, and bounties of this cycle not yet begun     *)
  dirs, branches, (* the working directory                                  *)
  prs,            (* pull requests opened, per bounty                       *)
  worked,         (* times a bounty was begun since the start: history      *)
  changes, starts

sniper == <<daemon, seen, batch, worked>>
disk == <<dirs, branches, prs>>
huntVars == <<posted, serving, cache, sniper, disk, changes, starts>>

Values == {"low", "good"}       (* below MIN_BOUNTY_USD, or not             *)
Down == [pc |-> "down", dry |-> FALSE, item |-> NoItem, attempt |-> 0]
Doing(label) == daemon.pc = label
Goto(label) == daemon' = [daemon EXCEPT !.pc = label]
Serve(mock) == [mock |-> mock, next |-> "idle", found |-> {}]

HuntInit ==
  /\ posted = [b \in Posts |-> "good"]
  /\ serving \in {Serve(mock) : mock \in BOOLEAN}
  /\ cache = [b \in Posts |-> "absent"]
  /\ daemon = Down /\ seen = {} /\ batch = {}
  /\ dirs = {} /\ branches = {}
  /\ prs = [b \in Items |-> 0] /\ worked = [b \in Items |-> 0]
  /\ changes = 0 /\ starts = 0

-----------------------------------------------------------------------------
(* The adapter.                                                            *)

(* A source lists a bounty, changes its value or closes it.                *)
Post(b, v) ==
  /\ changes < MaxChanges
  /\ posted' = [posted EXCEPT ![b] = v]
  /\ changes' = changes + 1
  /\ UNCHANGED <<serving, cache, sniper, disk, starts>>

Listed(source) == {b \in Posts : SourceOf[b] = source /\ posted[b] # "absent"}
Offer(b, v) == [item |-> b, value |-> v]

(* fetch_and_convert: any detail may fail, or all.  A detail in the cache  *)
(* is not asked for again until it has expired.                            *)
Detail(b) == IF cache[b] = "absent" THEN posted[b] ELSE cache[b]
FetchBountycaster ==
  /\ serving.next = "bc"
  /\ \E got \in SUBSET Listed("bc") :
       /\ cache' = [b \in Posts |-> IF b \in got THEN Detail(b) ELSE cache[b]]
       /\ serving' = [serving EXCEPT !.next = "gh",
                                     !.found = {Offer(b, Detail(b)) : b \in got}]
  /\ UNCHANGED <<posted, sniper, disk, changes, starts>>

CacheExpires(b) ==
  /\ cache[b] # "absent"
  /\ cache' = [cache EXCEPT ![b] = "absent"]
  /\ UNCHANGED <<posted, serving, sniper, disk, changes, starts>>

(* GitHubBountyClient.fetch and AlgoraClient.fetch: pages of a search, of  *)
(* which a rate limit or an error leaves the first ones.                   *)
Search(source, next) ==
  /\ serving.next = source
  /\ \E got \in SUBSET Listed(source) :
       serving' = [serving EXCEPT !.next = next,
                                  !.found = @ \cup {Offer(b, posted[b]) : b \in got}]
  /\ UNCHANGED <<posted, cache, sniper, disk, changes, starts>>

SearchGitHub == Search("gh", "algora")
SearchAlgora == Search("algora", "answer")

(* DedupEngine.filter keeps the first of a link: of the earliest source,   *)
(* and one of those that source lists, in whatever order it does.          *)
(* is_valid_bounty looks at the value only then.                           *)
Rank == [bc |-> 1, gh |-> 2, algora |-> 3]
SameLink(o, p) == LinkOf[o.item] = LinkOf[p.item]
NoLater(o, p) == Rank[SourceOf[o.item]] <= Rank[SourceOf[p.item]]
(* Mutant: duplicates are told by their id.                                *)
FirstOfId(found) == {found}
FirstOfLink(found) ==
  {kept \in SUBSET found :
     /\ \A o \in found : \E p \in kept : SameLink(o, p) /\ NoLater(p, o)
     /\ \A o, p \in kept : SameLink(o, p) => o = p}
Valid(kept) == {o.item : o \in {p \in kept : p.value = "good"}}

NewBounties(answer) == answer \ seen

(* new_bounties marks them seen before anything is done about them.        *)
Receive(answer) ==
  /\ batch' = NewBounties(answer)
  /\ seen' = seen \cup answer
  /\ Goto("cycle")
  /\ UNCHANGED worked

(* The answer of fetch_all.                                                *)
Answer ==
  /\ serving.next = "answer"
  /\ serving' = Serve(FALSE)
  /\ \E kept \in FirstOfLink(serving.found) : Receive(Valid(kept))
  /\ UNCHANGED <<posted, cache, disk, changes, starts>>

AnswerMock ==
  /\ serving.next = "mock"
  /\ serving' = Serve(TRUE)
  /\ Receive(Funded)
  /\ UNCHANGED <<posted, cache, disk, changes, starts>>

(* The adapter is started anew, serving live bounties or historical ones.  *)
RestartAdapter(mock) ==
  /\ starts < MaxStarts
  /\ starts' = starts + 1
  /\ serving' = Serve(mock)
  /\ cache' = [b \in Posts |-> "absent"]
  /\ UNCHANGED <<posted, sniper, disk, changes>>

-----------------------------------------------------------------------------
(* The sniper.                                                             *)

Start(dry) ==
  /\ Doing("down")
  /\ starts < MaxStarts
  /\ starts' = starts + 1
  /\ daemon' = [Down EXCEPT !.pc = "asleep", !.dry = dry]
  /\ UNCHANGED <<posted, serving, cache, seen, batch, worked, disk, changes>>

Dir == DirOf[daemon.item]
(* What is left where a clone, or the directory of a dry run, is cut       *)
(* short: nothing, or a directory, finished or not.                        *)
Leftovers == IF Doing("clone") THEN {dirs, dirs \cup {Dir}} ELSE {dirs}

(* It is killed, or run_once raises: everything in memory is gone.         *)
Stopped ==
  /\ daemon' = Down
  /\ serving' = Serve(serving.mock)
  /\ seen' = {} /\ batch' = {}
  /\ worked' = [b \in Items |-> 0]

Kill ==
  /\ ~Doing("down")
  /\ dirs' \in Leftovers
  /\ Stopped
  /\ UNCHANGED <<posted, cache, branches, prs, changes, starts>>

(* A live sniper asks the adapter.                                         *)
Poll ==
  /\ Doing("asleep") /\ ~daemon.dry
  /\ Goto("polling")
  /\ serving' = [serving EXCEPT !.next = IF serving.mock THEN "mock" ELSE "bc"]
  /\ UNCHANGED <<posted, cache, seen, batch, worked, disk, changes, starts>>

(* A dry run reads its own copy of the historical list.                    *)
PollDry ==
  /\ Doing("asleep") /\ daemon.dry
  /\ Receive(Mocks)
  /\ UNCHANGED <<posted, serving, cache, disk, changes, starts>>

(* Refused, an error or no answer within the timeout: an empty batch.      *)
(* What the adapter still reads for the request can only fill its cache,   *)
(* as if it had been read before.                                          *)
PollFails ==
  /\ Doing("polling")
  /\ Receive({})
  /\ serving' = Serve(serving.mock)
  /\ UNCHANGED <<posted, cache, disk, changes, starts>>

BeginBounty(b) ==
  /\ Doing("cycle")
  /\ b \in batch
  /\ batch' = batch \ {b}
  /\ worked' = [worked EXCEPT ![b] = @ + 1]
  /\ daemon' = [daemon EXCEPT !.pc = "evaluate", !.item = b]
  /\ UNCHANGED <<posted, serving, cache, seen, disk, changes, starts>>

EndCycle ==
  /\ Doing("cycle")
  /\ batch = {}
  /\ Goto("asleep")
  /\ UNCHANGED <<posted, serving, cache, seen, batch, worked, disk, changes, starts>>

(* The bounty in hand is done with, for better or worse.                   *)
NextBounty == daemon' = [daemon EXCEPT !.pc = "cycle", !.item = NoItem, !.attempt = 0]
Memory == <<seen, batch, worked>>

(* Where the gateway refuses to run the skill, the heuristic decides;      *)
(* where it accepts, its answer holds a task id and no verdict, which      *)
(* reads as NO_MATCH, like an error.                                       *)
Evaluate ==
  /\ Doing("evaluate")
  /\ \/ NextBounty /\ ~daemon.dry
     \/ daemon.item \in Automatable /\ Goto("clone")
     \/ daemon.item \notin Automatable /\ NextBounty
  /\ UNCHANGED <<posted, serving, cache, Memory, disk, changes, starts>>

(* A directory of that name is taken for the repository, whoever made it:  *)
(* a dry run, a clone cut short, or a clone of another repository.  It is  *)
(* pulled, and whether that worked is not looked at.                       *)
UseClone ==
  /\ Doing("clone")
  /\ Dir \in dirs
  /\ daemon' = [daemon EXCEPT !.pc = "attempt", !.attempt = 1]
  /\ UNCHANGED <<posted, serving, cache, Memory, disk, changes, starts>>

MakeClone ==
  /\ Doing("clone")
  /\ Dir \notin dirs
  /\ \/ /\ dirs' = dirs \cup {Dir}
        /\ daemon' = [daemon EXCEPT !.pc = "attempt", !.attempt = 1]
     \/ ~daemon.dry /\ NextBounty /\ UNCHANGED dirs         (* FAILED: clone *)
  /\ UNCHANGED <<posted, serving, cache, Memory, branches, prs, changes, starts>>

(* git or claude exceed their time, and nothing catches it.                *)
TimesOut ==
  /\ ~daemon.dry
  /\ Doing("clone") \/ Doing("attempt") \/ Doing("test")
  /\ dirs' \in Leftovers
  /\ Stopped
  /\ UNCHANGED <<posted, cache, branches, prs, changes, starts>>

(* Mutant: a failed attempt is not counted.                                *)
SameAttempt == daemon.attempt
NextAttempt == daemon.attempt + 1
Last == daemon.attempt >= MaxExecRetries

(* claude, then the tests, in Docker or on the host; either may fail.      *)
(* Where no test framework is found the bounty passes, as every dry run    *)
(* does.                                                                   *)
Repair ==
  /\ Doing("attempt")
  /\ Goto("test")
  /\ UNCHANGED <<posted, serving, cache, Memory, disk, changes, starts>>

TestsPass ==
  /\ Doing("test")
  /\ Goto("deliver")
  /\ UNCHANGED <<posted, serving, cache, Memory, disk, changes, starts>>

AttemptFails ==
  /\ (Doing("attempt") \/ Doing("test")) /\ ~daemon.dry
  /\ IF Last THEN NextBounty
     ELSE daemon' = [daemon EXCEPT !.pc = "attempt", !.attempt = NextAttempt]
  /\ UNCHANGED <<posted, serving, cache, Memory, disk, changes, starts>>

(* git checkout -b aims-sniper/<id>: git takes no colon in a branch, which *)
(* every live id has, and no branch that exists.                           *)
HasColon(b) == b \in Posts
(* Mutant: the exit status of git checkout is not looked at.               *)
BranchUnchecked(b) == HasColon(b)
BranchRefused(b) == HasColon(b) \/ b \in branches

DeliverRaises ==
  /\ Doing("deliver") /\ ~daemon.dry
  /\ BranchRefused(daemon.item)
  /\ Stopped
  /\ UNCHANGED <<posted, cache, disk, changes, starts>>

(* The commit, the push and the pull request.  Nothing has looked at what  *)
(* the directory is: git and gh say whether they succeed.  Whether or not  *)
(* they did or were cut short, the bounty counts as DELIVERED.  Only a     *)
(* branch that exists is pushed, and a commit makes it one.                *)
Deliver ==
  /\ Doing("deliver") /\ ~daemon.dry
  /\ ~BranchRefused(daemon.item)
  /\ \/ /\ branches' = branches \cup {daemon.item}
        /\ prs' = [prs EXCEPT ![daemon.item] = @ + 1]
     \/ branches' \in {branches, branches \cup {daemon.item}} /\ UNCHANGED prs
  /\ NextBounty
  /\ UNCHANGED <<posted, serving, cache, Memory, dirs, changes, starts>>

DeliverDry ==
  /\ Doing("deliver") /\ daemon.dry
  /\ NextBounty
  /\ UNCHANGED <<posted, serving, cache, Memory, disk, changes, starts>>

-----------------------------------------------------------------------------
Adapter ==
  \/ \E b \in Posts, v \in {"absent"} \cup Values : Post(b, v)
  \/ FetchBountycaster \/ SearchGitHub \/ SearchAlgora \/ Answer \/ AnswerMock
  \/ \E b \in Posts : CacheExpires(b)
  \/ \E mock \in BOOLEAN : RestartAdapter(mock)

(* The daemon's one thread.  Every command it waits for has a timeout.     *)
RunOnce ==
  \/ Poll \/ PollDry \/ PollFails \/ EndCycle
  \/ \E b \in Items : BeginBounty(b)
  \/ Evaluate \/ UseClone \/ MakeClone \/ TimesOut \/ Repair \/ TestsPass \/ AttemptFails
  \/ Deliver \/ DeliverDry \/ DeliverRaises

HuntNext == Adapter \/ RunOnce \/ Kill \/ \E dry \in BOOLEAN : Start(dry)

HuntSpec == HuntInit /\ [][HuntNext]_huntVars
FairHuntSpec == HuntSpec /\ WF_huntVars(RunOnce)

-----------------------------------------------------------------------------
(* PROPERTIES                                                              *)

InHand == batch \cup ({daemon.item} \ {NoItem})

(* However the three sources fail and change while they are read, and      *)
(* however often one of them lists it, one cycle never works on two        *)
(* postings of one link: DedupEngine.  Two spellings of an issue's address *)
(* are two links, and two cycles two matters.                              *)
OneBountyPerLink == \A b, c \in InHand \cap Posts : LinkOf[b] = LinkOf[c] => b = c

(* A bounty is begun once as long as the daemon lives, whatever became of  *)
(* it, and, killed and restarted at any point, with what it had seen       *)
(* forgotten and its branches still on disk, the sniper opens one pull     *)
(* request for it: new_bounties, AutoDeliverer.deliver.                    *)
OnePullRequest == \A b \in Items : worked[b] <= 1 /\ prs[b] <= 1

(* A bounty that cannot be solved never holds up the others: every one of  *)
(* a cycle gets its turn, or the daemon is gone.                           *)
EveryoneGetsATurn == \A b \in Items : b \in batch ~> b \notin batch
=============================================================================
