--------------------------- MODULE SettlementFeed ---------------------------
(***************************************************************************)
(* How a settlement gets to the screens: the chain listener's thread       *)
(* (src/gateway/chain_listener.py) reads the contract's events and hands   *)
(* them to broadcast_settlement, as do the circuit breaker with its        *)
(* transitions and the request threads; every client of the event stream   *)
(* polls the buffer they all append to (src/gateway/server.py).            *)
(*                                                                         *)
(* The contract is a chain, of which block k has the event k or none, or   *)
(* the in-memory contract, whose list of events it then is.  An entry of   *)
(* the feed is the state a transition led to, "chain" or "other".          *)
(***************************************************************************)
EXTENDS CircuitBreaker, Sequences

CONSTANTS
  Clients,
  BufferMax,      (* maxlen of _settlement_buffer                           *)
  MaxBlocks,      (* _max_blocks                                            *)
  MaxHead, MaxSent, MaxStarts     (* bounds on events, entries and restarts *)

ASSUME FeedAssumption ==
  /\ BufferMax \in Nat \ {0} /\ MaxBlocks \in Nat
  /\ MaxHead \in Nat /\ MaxSent \in Nat /\ MaxStarts \in Nat

VARIABLES
  web3,           (* the contract client has a _w3                          *)
  head,           (* current block, or number of events                     *)
  logs,           (* blocks with an event                                   *)
  saved,          (* chain_listener:last_processed_block                    *)
  cursor,         (* _last_processed_block or _last_event_count             *)
  poll,           (* the listener's thread [pc, to, left]                   *)
  sent,           (* everything appended to the buffer                      *)
  client,         (* of a stream: seen, and the positions in sent it got    *)
  tried,          (* events ever given to _decode_log or _dispatch: history *)
  shown,          (* events ever broadcast: history                         *)
  starts          (* restarts                                               *)

contract == <<web3, head, logs>>
listener == <<saved, cursor, poll, tried, shown>>
feed == <<sent, client>>
feedVars == <<vars, contract, listener, feed, starts>>

Asleep == [pc |-> "sleep", to |-> 0, left |-> {}]
(* _init_web3 failed: _w3 stays None and nothing is polled.                *)
Off == [Asleep EXCEPT !.pc = "off"]
NewStream == [seen |-> 0, got |-> <<>>]

FeedInit ==
  /\ Init
  /\ web3 \in BOOLEAN
  /\ head = 0 /\ logs = {} /\ saved = 0 /\ cursor = 0
  /\ poll \in (IF web3 THEN {Asleep, Off} ELSE {Asleep})
  /\ sent = <<>> /\ client = [c \in Clients |-> NewStream]
  /\ tried = {} /\ shown = {} /\ starts = 0

-----------------------------------------------------------------------------
(* The feed.                                                               *)

Broadcast(entries) == sent' = sent \o entries
Buffer == SubSeq(sent, IF Len(sent) > BufferMax THEN Len(sent) - BufferMax + 1 ELSE 1, Len(sent))
Dropped == Len(sent) - Len(Buffer)

(* Settlements of the commerce engine, refunds, vaults.                    *)
BroadcastOther ==
  /\ Len(sent) < MaxSent
  /\ Broadcast(<<"other">>)
  /\ UNCHANGED <<vars, contract, listener, client, starts>>

(* Mutant: the last event is not counted as seen.                          *)
SeenButLast == Len(Buffer) - 1
(* Mutant: the next event is counted as seen.                              *)
SeenNext == Len(Buffer) + 1
SeenNow == Len(Buffer)

(* event_generator                                                         *)
Stream(c) ==
  /\ Len(Buffer) > client[c].seen
  /\ LET new == [i \in 1..Len(Buffer) - client[c].seen |-> Dropped + client[c].seen + i]
     IN  client' = [client EXCEPT ![c] = [seen |-> SeenNow, got |-> client[c].got \o new]]
  /\ UNCHANGED <<vars, contract, listener, sent, starts>>

Connect(c) ==
  /\ client[c] # NewStream
  /\ client' = [client EXCEPT ![c] = NewStream]
  /\ UNCHANGED <<vars, contract, listener, sent, starts>>

(* The streams, which run on the same event loop as the breaker, may go on *)
(* in the middle of an operation here: they see the feed and not Redis.    *)
BreakerStep ==
  /\ \/ Len(sent) <= MaxSent /\ Operation /\ UNCHANGED sent
     \/ (Tick \/ Write) /\ UNCHANGED sent
     \/ Alert /\ Broadcast(<<state>>)
     \/ Tell /\ Broadcast(<<"other">>)
  /\ UNCHANGED <<contract, listener, client, starts>>

-----------------------------------------------------------------------------
(* The contract.                                                           *)
Settle ==
  /\ head < MaxHead
  /\ head' = head + 1
  /\ logs' = logs \cup {head + 1}
  /\ UNCHANGED <<vars, web3, listener, feed, starts>>

EmptyBlock ==
  /\ web3
  /\ head < MaxHead
  /\ head' = head + 1
  /\ UNCHANGED <<vars, web3, logs, listener, feed, starts>>

-----------------------------------------------------------------------------
(* The listener.                                                           *)
Between(from, to) == {k \in logs : from < k /\ k <= to}

(* Mutant: a block more is taken for processed than was asked for.         *)
LastAskedPlusOne == IF head > cursor + MaxBlocks THEN cursor + MaxBlocks + 2 ELSE head
LastAsked == IF head > cursor + 1 + MaxBlocks THEN cursor + 1 + MaxBlocks ELSE head

(* _poll_web3, up to the answer of get_logs; where that fails the thread   *)
(* sleeps and asks again.                                                  *)
GetLogs ==
  /\ web3 /\ poll.pc = "sleep"
  /\ head > cursor
  /\ poll' = [pc |-> "dispatch", to |-> LastAsked,
              left |-> Between(cursor, cursor + 1 + MaxBlocks)]
  /\ UNCHANGED <<vars, contract, saved, cursor, tried, shown, feed, starts>>

(* _poll_inmemory measures the list, copies its tail and sets the count;   *)
(* an event may be appended in between.                                    *)
Measure ==
  /\ ~web3 /\ poll.pc = "sleep"
  /\ head > cursor
  /\ poll' = [Asleep EXCEPT !.pc = "copy", !.to = head]
  /\ UNCHANGED <<vars, contract, saved, cursor, tried, shown, feed, starts>>

Copy ==
  /\ poll.pc = "copy"
  /\ poll' = [poll EXCEPT !.pc = "count", !.left = Between(cursor, head)]
  /\ UNCHANGED <<vars, contract, saved, cursor, tried, shown, feed, starts>>

Measured == poll.to

Count ==
  /\ poll.pc = "count"
  /\ poll' = [poll EXCEPT !.pc = "dispatch"]
  /\ cursor' = Measured
  /\ UNCHANGED <<vars, contract, saved, tried, shown, feed, starts>>

(* _decode_log makes an event of no log of the chain: with the library the *)
(* requirements name, hex() of a topic has no 0x and none is recognised;   *)
(* decoding one would raise, which is caught, as its data is no text.      *)
Decodes == ~web3

(* The logs or events are gone through in their order.                     *)
Dispatch ==
  /\ poll.pc = "dispatch"
  /\ \E k \in poll.left :
       /\ \A j \in poll.left : k <= j
       /\ poll' = [poll EXCEPT !.left = @ \ {k}]
       /\ tried' = tried \cup {k}
       /\ IF Decodes
            THEN Broadcast(<<"chain">>) /\ shown' = shown \cup {k}
            ELSE UNCHANGED <<sent, shown>>
  /\ UNCHANGED <<vars, contract, saved, cursor, client, starts>>

(* Mutant: the cursor is saved while events are still to be dispatched.    *)
Whenever == TRUE
AllDispatched == poll.left = {}

Advance ==
  /\ poll.pc = "dispatch" /\ AllDispatched
  /\ IF web3
       THEN poll' = [poll EXCEPT !.pc = "save"] /\ cursor' = poll.to
       ELSE poll' = Asleep /\ UNCHANGED cursor
  /\ UNCHANGED <<vars, contract, saved, tried, shown, feed, starts>>

(* The storage may refuse; the loop logs it and goes on.                   *)
Save ==
  /\ poll.pc = "save"
  /\ saved' \in {poll.to} \cup (IF redis THEN {saved} ELSE {})
  /\ poll' = Asleep
  /\ UNCHANGED <<vars, contract, cursor, tried, shown, feed, starts>>

-----------------------------------------------------------------------------
(* The gateway restarts: memory is lost, the in-memory contract with it,   *)
(* and the clients connect again.                                          *)
BreakerRestarts ==
  IF redis THEN Restart
  ELSE /\ state' = "CLOSED" /\ fails' = 0 /\ degraded' = 0 /\ cooled' = TRUE
       /\ db' = [state |-> "CLOSED", fails |-> 0, cooled |-> TRUE]
       /\ todo' = {}
       /\ streak' = 0 /\ worse' = 0 /\ forced' = FALSE
       /\ held' = [worse |-> 0, forced |-> FALSE] /\ cuts' = 0
       /\ UNCHANGED redis

GatewayRestarts ==
  /\ starts < MaxStarts
  /\ starts' = starts + 1
  /\ BreakerRestarts
  /\ saved' = IF redis THEN saved ELSE 0
  /\ cursor' = IF web3 THEN saved' ELSE 0
  /\ IF web3 THEN poll' \in {Asleep, Off} /\ UNCHANGED <<head, logs, tried, shown>>
     ELSE poll' = Asleep /\ head' = 0 /\ logs' = {} /\ tried' = {} /\ shown' = {}
  /\ sent' = <<>> /\ client' = [c \in Clients |-> NewStream]
  /\ UNCHANGED web3

Listen == GetLogs \/ Measure \/ Copy \/ Count \/ Dispatch \/ Advance \/ Save

FeedNext ==
  \/ BroadcastOther \/ BreakerStep
  \/ Settle \/ EmptyBlock
  \/ Listen
  \/ \E c \in Clients : Stream(c) \/ Connect(c)
  \/ GatewayRestarts

FeedSpec == FeedInit /\ [][FeedNext]_feedVars

(* The listener's loop and a stream's never end, and the node answers      *)
(* sooner or later.                                                        *)
FairFeedSpec ==
  FeedSpec /\ WF_feedVars(Listen) /\ \A c \in Clients : WF_feedVars(Stream(c))

-----------------------------------------------------------------------------
(* PROPERTIES                                                              *)

(* Over a chain, no cursor passes a log that _decode_log was not given, not *)
(* even across a crash between dispatch and save; in memory, however the   *)
(* list grows while it is polled, an event is in the copy under way, or was*)
(* broadcast, or is counted as new: _poll_web3, _poll_inmemory.            *)
NoEventSkipped ==
  IF web3
    THEN \A k \in logs : k <= cursor \/ k <= saved => k \in tried
    ELSE \A k \in logs : k > cursor \/ k \in poll.left \/ k \in shown

(* A stream counts what it has seen of a buffer that loses its oldest      *)
(* entries; still it repeats nothing and keeps the order: event_generator. *)
StreamInOrder ==
  \A c \in Clients : \A i, j \in DOMAIN client[c].got :
    i < j => client[c].got[i] < client[c].got[j]

(* Every event of the in-memory contract reaches the feed, and every log of *)
(* a chain the decoder, unless the listener could not connect at its start.*)
EventsAreRead ==
  []<>(logs \subseteq (IF web3 THEN tried ELSE shown) \/ poll.pc = "off")

(* While the buffer has not dropped anything, every stream gets all of it. *)
StreamsCatchUp ==
  \A c \in Clients : []<>(Len(client[c].got) = Len(sent) \/ Dropped > 0)
=============================================================================
