# Verification of the ActivityPub gateway

TLA+ models of `libp2p-activity-pub-gw`, the TLC runs that check them and the
TLAPS proofs about them. Sources are cited as `file:line` relative to `src/`.

To check a module: `tlc -workers 2 -config X.cfg M`. To check proofs:
`tlapm M.tla`.

## 1. The system

The gateway makes users of Warpnet (a libp2p network of member nodes) visible
on the Fediverse, and Fediverse accounts visible in Warpnet. It keeps almost
nothing: a signing key, caches, and the set of users whose posts it federates.

```
 Fediverse servers --HTTP--> rate limiter -> inbox ----Follow---> acceptFollow --> onFollowed
                                              |                       |                |
                                              |other activities       | Add            v
                                              v                       v        outbound federation
                                       requestForUser          requestUser      scanner, per user:
                                              \                      /         tweet poller, follow
                                               multi-network node (multinet.go)  poller, profile
                                                        |                              |
                                          node client (nodeclient.go, discovery.go)    | fan-out
                                                        |                              v
                                               Warpnet member nodes          delivery pool --> inboxes
```

### Inventory

| Component | Source | State | Operations | Hard behaviour | What makes it correct |
|---|---|---|---|---|---|
| Member requests | `nodeclient.go` | remembered members, throttle marks; per request the attempts, a reply channel, a hedge timer, a hand-kept counter | `tryMembers`, `requestUser`, `ownerNode`, `lookupUser` | replies, timer and deadline race in one `select`; attempts outlive the call | writes are not raced or needlessly repeated; failure means every member failed; no goroutine is left behind |
| Outbound federation | `outbound.go`, `main.go` | started users and their cancel functions, empty-scan counters | `start`, `stop`, `scan`, `onFollowed`, shutdown | scanner and accepted Follows call `start`/`stop` concurrently; reads of the network blip | one session per user; stop only on repeated empty reads; resume after restart |
| Tweet poller | `tweetpoller.go` | set of seen tweets with a TTL | seed, poll | failed seed, partial answers, expiry racing polls | every new post once, no history |
| Follow poller | `outbound.go` | followings known after the last poll | baseline, compare, Follow/Undo | reads that fail, are partial or do not resolve | Follows and Undos alternate; knowledge converges to the owner's list |
| Delivery pool | `publish.go`, `inbox.go` | `gateway.sem` | fan-out, accept, forward | shared slots, cancellation while waiting | no slot leaks, no early return, every fan-out ends |
| Inbox | `inbox.go`, `inbound.go` | none of its own | Follow, Undo, other activities, Delete | goroutines of one account's activities are not ordered; retries | the follower graph says what the account asked for |
| Multi-network node | `multinet.go` | remembered network of each user | `locate`, `GetUser`, `requestUser`, `requestIn` | stale caches shared by concurrent requests while users move | requests stay in the user's networks; caches heal |
| Member directory | `discovery.go` | remembered members, cooldowns | `memberCandidates`, `demoteThrottled`, `remember` | two sources merged while members come, go and cool down | a duplicate-free order, nobody lost |
| Follower stores | `nodefollowers.go`, `followers.go` | none / a map | `Add`, `List` | paging cursors | every page read once |
| Signed fetches | `server.go` | a 1 s cache, singleflight | `signedGet`, `sendRetry` | shared flights, cancellation | one fetch per window |
| Rate limiter | `rate-limit.go` | a global and per-client windows | middleware, drain | a locked limiter never expires its own tasks | no permanent lock, no early second budget |
| Mastodon bridge, libp2p server | `mastodon-bridge.go`, `mastodon-map.go`, `nodeserver.go` | caches of ids and handles | read routes; reactions, boosts, follows, replies, deletions | ordered results of concurrent lookups; posts whose answer is lost; events sent again | order and identity are kept; a reply is shown once and goes with its Delete; success means delivered |
| Recommendations | `recommendations.go` | a cache | directory paging | overflow of the cursor | pages do not repeat |
| Log ring | `log-buffer.go` | a ring buffer | `Fire`, `lines` | wrap-around | the last `size` lines, oldest first |
| Keys | `keys.go` | a key file | `loadOrCreateKey` | crash while writing | the key is stable across restarts |
| HTTP signatures | `httpsig.go` | none | `verifyRequest` | four checks in two files | what is stored was written by whom it is booked to |
| Others | `notes.go`, `mediaproxy.go`, `badge.go`, ... | none | formatting, I/O | | |

`PROJECT.json` lists every component with its status, and under "hazards" each
place where the code is hard to test, with the properties that cover it.

### Interactions

- An accepted Follow calls `onFollowed`, which calls `outboundFederation.start`
  from the goroutine of the inbox; the scanner calls `start` and `stop` from
  its own. Both sides share the follower graph kept in Warpnet.
- Everything that reaches Warpnet goes through the multi-network node, then
  through a node client: directly to the owner's node, or to the members in
  turn.
- Accepts, forwards and fan-outs share one semaphore.
- Cancellation comes from above: the application's context cancels the
  federation's, that of every session, and the sends in progress.

## 2. Modules

| Module | Models | Needs |
|---|---|---|
| `RequestContract` | what a caller of a member request relies on: one final outcome; candidates are refused one by one; failure only when all were | |
| `MemberRequest` | `nodeClient.tryMembers` | refines `RequestContract` |
| `MemberRequestProofs` | theorems about it | `MemberRequest` |
| `Federation` | `outboundFederation`, with `onFollowed`, shutdown, crash and restart | |
| `FederationProofs` | theorems about it | `Federation` |
| `TweetPoller` | `tweetPoller` of one session | |
| `FollowPoller` | `followPoller` of one session | |
| `Delivery` | `deliverToFollowers` and the pool | |
| `Outbound` | the two pollers and the pool side by side | `TweetPoller`, `FollowPoller`, `Delivery` |
| `PollerProofs` | theorems about the pollers, and that `Outbound` keeps each part's specification | `Outbound` |
| `DeliveryProofs` | theorems about it | `Delivery` |
| `UserRouting`, `MCUserRouting` | `multiNode` above the owner-targeted part of `nodeClient` | |
| `UserRoutingProofs` | theorems about it | `UserRouting` |
| `FollowHandshake` | Follow and Undo from the POST to the follower graph | |
| `FollowHandshakeProofs` | theorems about it | `FollowHandshake` |
| `RateLimit` | the HTTP throttle: limiters, middleware, drain | |
| `RateLimitProofs` | theorems about it | `RateLimit` |
| `SignedGet` | `signedGet`: cache, singleflight, retries | |
| `BridgeWrites` | what members write to the Fediverse, and the status document read back | |
| `Interactions` | likes, boosts, replies and quotes from the signed POST to the owner's node | |
| `Selection` | loops that keep the elements of a list that pass a test | |
| `Directory` | the members a request is sent to | `Selection`; its order is what `MemberRequest` tries |
| `ThreadWalk` | pages of replies, and the pool that resolves them | `Selection` |
| `FollowerList` | `nodeFollowerStore.List` | `Selection` |
| `WhoToFollow` | the cursors of the directory | |
| `LogRing` | the ring behind `/logs` | |
| `KeyFile` | the signing key on disk | |
| `Services` | the nine modules from `SignedGet` to `KeyFile` side by side, and their constants' assumptions | those modules |
| `MCServices` | the events and activities of its instance | `Services` |
| `ServicesProofs` | theorems about the parts | `Services` |

Definitions whose comment says "Faulty variant" are not part of any
specification. They are versions of an action as a plausible mistake would
write it, and each is matched in `PROJECT.json` with the property that
detects it.

### MemberRequest (nodeclient.go:281-361)

A state is one call of `tryMembers`. `attempt[i]` is the goroutine of the i-th
candidate, `replies` the buffered channel, `inFlight` the loop's counter,
`budgetSpent` the outer context, `taken` the attempts whose reply was
received. `Execute` and `Settle` are the member and its goroutine (a member
may execute a request whose reply is lost); `ReceiveAnswer`, `ReceiveFailure`,
`Hedge`, `GiveUp` and `Exhaust` are the branches of the `select` loop.
`executed` is a history of which members carried the request out. `read`
distinguishes the routes that may be hedged.

### Federation (outbound.go:42-106, 254-332; main.go; inbox.go:168-201)

A session stands for what one `start()` spawns. `started[u]` is the map of
cancel functions, `emptyScans` its counters (saturated at the threshold, where
the code stops and deletes). A scan is `BeginScan`, then for each user
`ReadFollowers` (outside the lock) and one of `ApplyError`, `ApplySome`,
`ApplyEmpty`. `PersistFollower` and `OnFollowed` are the goroutine of an
accepted Follow, as seen from here. `Weather` makes reads unreliable: while
`healthy` is false a read may fail or come back empty, which is what
`nodeFollowerStore.List` returns when the owner does not answer and another
member does, or when no follower resolves. `Shutdown` is the signal, `Die` the
end of the process at any moment, `Boot` the next start: only the graph
survives. The model is the federation of one network; `main.go:196-209` makes
one for each, and they share nothing.

### TweetPoller (tweetpoller.go)

Time counts in poll intervals. `life[t]` is the remaining life of the entry of
`t` in the seen set; every poll that fetches `t` refreshes it. `page` is what
is left of the current page. A fetch of an unhealthy owner fails (an empty
page) or returns part of the feed. A poll may last longer than an interval:
`due` counts the intervals since it was last due, and `Overrun` bounds them
(`2 * Overrun < TTL`: polls are slow, not a day late). The size limit of the
seen set (8192) is left out: no page comes near it. `before` remembers what was
posted before the poller started.

### FollowPoller (outbound.go:114-252)

`known`, `current` and `baseline` are the variables of the closure. `read` is
the latest answer of GET_FOLLOWINGS and `resolvable` the accounts whose handle
can be resolved now. `listed` is the first page of the followings, the only one
the code asks for (`outbound.go:157` has no cursor): an account leaves it when
the owner unfollows it or newer followings push it off, and is sent an Undo
either way. Failed deliveries are logged by the code and not
repeated, so `sent` says what was attempted.

### Delivery (publish.go:72-118; inbox.go:100-112, 134-153)

`sem` counts the tokens in the channel and `holding` names the goroutines that
put them there. The two are separate so that a lost or doubled release shows.
A member of `Follower` is an entry of the list, so an account listed twice is two
of them.

### Outbound

What `start()` sets going. The pollers and the pool have no variable in common,
so a behaviour of `Outbound` works on one of them while the others rest.

### UserRouting (multinet.go:122-272; nodeclient.go:384-491)

One user, several requests, and the caches they share: the remembered network
(`home`), each network's profile cache (`users`) and owner cache (`ownerOf`).
Every gap between a read of a cache and its use is a step. The owner moves
between nodes and networks (`Move`), replicated profiles follow later
(`Replicate`), and while the networks are not calm any call may fail. The
lookups that lose the race of `firstWithUser` end later and fill the caches of
their networks too (`LateAnswer`); which of them still run is not recorded, so
in any network one may.

### FollowHandshake (inbox.go:51-201; inbound.go:147-160, 224-245; nodefollowers.go:79-119; mastodon-bridge.go:234-270)

The n-th activity of an account is a Follow if n is odd and its Undo if even.
The remote posts an activity until it gets an answer or gives up, so a job is
one POST of one activity. A Follow job goes `deliver`, `identify`, `persist`,
`notify`; an Undo job `resolve` (in the handler) and `forward`. `mishaps` is a
history of what may excuse a wrong follower graph: an activity lost, one that
overlapped or overtook another, a handle that could not be looked up, a call
that failed. The handle cache is left out: a lookup may succeed or fail every
time, which includes what the cache does.

### RateLimit (rate-limit.go)

A limiter is the library's sliding-window log over the gateway's `taskQueue`:
its tasks with their ages, and the library's unsigned `total`. `Limit` is the
only thing that expires tasks, and the middleware does not call it on a locked
limiter, so that nothing but the drain brings one back. A request is looked up
(`Request`), refused or charged (`ChargeGlobal`, `ChargeClient`) in separate
steps: between them the drain (`DrainGlobal`, `Peek`, `resetStuckClient`) or the
LRU (`Evict`) may replace its limiter, and it then charges one nobody reads.
The library holds a request that crosses the budget for up to a window; `held`
counts that time. `late` marks a limiter charged by such a request, the one
case where the drain may drop a window that is not empty.

### SignedGet (server.go:686-696, 744-935)

One key of the cache, which the code makes of the Accept header and the url. A caller that misses the cache joins the flight, whose leader looks
again (`Recheck`), fetches with retries, and lands with one result for all,
which is what singleflight (external) promises.
The end of the leader's context is `Stop`: waiters get its error. `sinceFetch`
is a ghost clock of the last answered fetch.

### BridgeWrites (nodeserver.go:110-238; mastodon-bridge.go:1283-1442; server.go:744-786, 962-1000; notes.go:117-152)

`op` holds the events members sent, in order, and where the handler of each is.
A handler resolves the object's author and posts; a post may be carried out
and its answer lost (`AnswerLost`) and is then posted again with the same body.
The remote server (external) drops activity ids it has seen, removes what a
tombstone names, and keeps what it dereferences under the id it was served
with. Ids are modelled as what they are made of: the member's reply id and the
parent for a note, the event for a random token, which an event without an id
gets for its note too. `node` is what the member's node holds: `serveStatus`
looks the reply up there and makes the id of the document of the row's id and
the parent that was asked for.

### Interactions (httpsig.go:60-196; inbox.go:51-154; inbound.go:53-222; mastodon-map.go:262-353)

`Wires` are the ways a POST can arrive: which headers are signed, whether the
date is fresh, the digest matches, the key is found, the signature is valid,
and whether the body was altered after signing. A valid signature speaks for
the headers it covers. `translateInbound` is a function from an activity to a
Warpnet event; `forwards` are the goroutines that carry events to the owner's
node, in any order; `rows` is what that node (external) stores. The ghost
`author` of a forward is the account that wrote it, or nobody if altered.

### Directory (discovery.go; nodeclient.go:258-279, 328-376)

`good` are the remembered members, `table` the DHT's peers, `throttled` those
cooling down on the route. `memberCandidates` is the pure function of the three
that a request is given; the actions are all that changes them.

### ThreadWalk, FollowerList, WhoToFollow, LogRing, KeyFile

`ThreadWalk` (mastodon-bridge.go:1041-1128) names an item by page and index and
lets the goroutines of a page end in any order, with or without a tweet.
`FollowerList` (nodefollowers.go:121-160) reads a graph of native, bridged and
unresolvable followers from nodes that end a listing in three ways: no cursor,
the cursor they were asked with, or one that leads to an empty page. The list
does not change while it is read.
`WhoToFollow` (recommendations.go:25-81) keeps the cursor's width.
`LogRing` (log-buffer.go:41-108) keeps the last lines in a ghost queue beside
the ring. `KeyFile` (keys.go:45-78) splits `WriteFile` into creation and
writing, with a crash of the process possible before, between and after; the
code does not sync the file, and a loss of power that undoes a finished write is
outside the model.

## 3. What is checked

All bounds are CONSTANTs of the configurations.

| Run | Instance | Distinct states (about) | Shows |
|---|---|---|---|
| `MemberRequest` | 4 candidates, reads and writes | 79 000 | every property of the call, the refinement, termination |
| `Federation` | 1 user, 3 sessions, threshold 2 | 21 000 | one session per user, stop only after two empty reads; federation resumes, ends, and drains on shutdown |
| `FederationBlip` | 1 user | counterexample | see Findings |
| `Outbound` | 1 post and 1 retweet, TTL 3, overrun 1; 2 accounts; 2 slots, 2 fan-outs, 2 followers, 2 inbound | 170 000 | a fetched post is published, a refreshed entry never again; what was sent agrees with `known`, which converges; slots are exact, fan-outs return settled and end |
| `TweetPollerExpiry`, `TweetPollerHistory` | the same tweets | counterexamples | see Findings |
| `FollowPollerUnresolvable` | the same accounts | counterexample | see Findings |
| `UserRouting` | 2 networks, one node each, 2 requests | 308 000 | confinement, healing of the caches |
| `FollowHandshake` | 1 opaque account, a Follow and its Undo, 2 POSTs each | 73 000 | the graph is wrong only after a named mishap |
| `FollowHandshakeRace` | same | counterexample | see Findings |
| `RateLimit` | 1 client, 2 handlers, a cheap control and a dear data route, window 2, TTL 5 | 173 000 | refusals are earned, no fresh budget within a window, no limiter locked for ever |
| `Services` | see below | 645 000 | the properties of the nine parts of `Services` |

`Services` checks parts that share no state in one run: `part` picks one of
them and the others rest in their initial state, so the state spaces add up.
What each part shows:

| Part | Instance | Property |
|---|---|---|
| `SignedGet` | 3 callers, 2 tries, cache of 2 ticks | `OneFetchPerWindow`: no second fetch within the window, nothing served after it |
| `BridgeWrites` | 3 of 12 events in any order and repeated, 2 posts each | `RepliesMirrored`: a reply is shown once and not after its Delete; `SuccessIsDelivered` |
| `Interactions` | 2 accounts, 8 notes and one id used by both accounts, 11 other activities, every way to sign, 3 accepted | `RowsAreGenuine`: author, content and target are what was signed; `RepliesStoredOnce` |
| `Directory` | 3 members, a relay and ourselves, room for 2 | `CandidatesAreRight`: nobody lost, nobody twice, the right order |
| `ThreadWalk` | 2 pages of up to 3 items, room for 4, 2 slots | `ThreadInOrder` |
| `FollowerList` | 5 followers, pages of 2 | `ListIsExact` |
| `WhoToFollow` | 16 cursor values, pages up to 3 | `PagesAdvance` |
| `LogRing` | 3 places, 2 texts, 2 networks | `ServesRecentLines` |
| `KeyFile` | 3 keys | `KeyIsStable` |

Deadlock is checked except in `MemberRequest` (a request is one-shot) and in
`Services`, where a behaviour that has used up its events ends.

Why the bounds are enough:

- Four candidates let a hedge, a rate-limit refusal, an error and an answer
  happen in one call, in every order. The safety part is proved for any number.
- Users of a federation interact only through the scan's listing and the lock,
  and every map is keyed by the user. Three sessions of one user are an old one
  that winds down, the one that replaced it, and one more after a stop. For
  safety this is also proved for any number of users and sessions.
- With TTL 3 an entry can be refreshed, age, be refreshed again and lapse. The
  real value (24 h at one poll a minute) only makes the gap longer. An overrun of
  one interval is the least that lets an entry age during a poll; the safety
  properties are proved for every TTL and overrun.
- Two followings are needed for the guard against an empty reading to be met
  and missed; two slots with four claimants make every claimant wait or be
  refused.
- One node in each of two networks makes each move one between networks, the
  case the caches are built for; a move within a network is not in this run.
- A client budget of 8 and a global one of 4, with weights 4 and 8, let one
  request fill a limiter, the next lock it, and the control plane go on while
  the data plane is refused; two handlers make one charge a limiter the other's
  request or the drain has replaced. `Modulus` 64 is far above every total that
  does not wrap, so a wrapped one is seen.
- Three callers are a leader, a waiter and one that missed the cache before the
  flight ended. Three events let a reply be sent twice and deleted, or deleted
  twice. Three members with room for two make both bounds of the directory
  bite. Five followers in pages of two end on a short page, and every shorter
  list is there too, the full last page included.
- Two activities of one account are the shortest exchange with an order to get
  wrong, and two POSTs of each make every late duplicate possible. Accounts do
  not interact: they have separate entries in the graph.

### Fairness

Safety properties are checked without relying on fairness. The liveness
properties assume only what the Go code arranges for:

- goroutines that can run do (weak fairness of the loop, the scanner, the
  pollers, the accept goroutines, cancelled sessions);
- each attempt, delivery and request ends, because each has a context with a
  timeout (`perPeerTimeout`, `acceptDeliveryTimeout`, and so on): weak fairness
  of the step that settles it;
- tickers tick (the pollers', the scanner's, the drain's, which `main` starts
  once), the clock advances, and cache entries that nobody refreshes expire;
- a sender blocked on a full channel is served in order and before a later
  non-blocking send (Go's channel queue): strong fairness of `Dispatch` only;
- profiles are replicated eventually (`Replicate`), outside this code.

Nothing is assumed of members, remote servers, users, the operator, the
hedge timer or the overall budget of a request.

## 4. What is proved

The proofs hold for every value of the constants that satisfies the named
assumptions of the modules.

**MemberRequestProofs**, for any number of candidates. The invariant `Inv` is
the conjunction of `TypeOK`; `InOrder` (candidates below `launched` are
exactly those attempted); `ChannelSound` (the channel holds each reply not yet
received once); `TakenSettled`; `InFlightIsExact` (the counter against the
taken set); `DryMeansAll` (when nothing is in flight in the loop, all
candidates were launched); `WriteChain` (an earlier attempt of a write failed
before a later one was launched); `ExecutedSound` and `OutcomeSound`. The
counter is the centre of the argument: failure is exhaustive, and writes are
not raced, because `inFlight = 0` really means that every launched attempt was
received. None of the safety properties is inductive alone. From `Inv` follow
`TypeCorrect`, `CounterIsExact`, `WritesSequential`, `WriteRepetition`,
`FailureExhaustive`, `AnswerGenuine`, `NothingAfterReturn` and `Refinement`
(each step is a step of `RequestContract` or a stutter).

**FederationProofs**, for any users, sessions and any threshold of at least
two. `Inv` is `TypeOK`, `ReadingInScan`, `OneLiveSession`, `DownIsFresh` and
`CountedReads`. The last is the strengthening that makes `TwoEmptyReads`
provable: a user with a positive counter had an empty latest conclusive read,
so that the read that makes the counter reach the threshold is the second in
a row. `DownIsFresh` says that a process that is down has no memory, so a boot
starts from the initial state of everything but the graph. `TypeCorrect` of
this module and `NothingAfterReturn` of `MemberRequestProofs` are proved only:
no run lists them.

**DeliveryProofs**, for any capacity, any finite sets of followers, fan-outs
and inbound activities. `SlotsAreExact` is inductive once `holding` is known to
be finite: a token enters the channel only for a goroutine that had none
(`AcquireExact`) and leaves it with the goroutine it was for (`ReleaseExact`).
For `ReturnsSettled` two facts are added: `InboundHeld` (an inbound activity
holds a slot only while it is worked on) and `LoopEnded` (a loop that no longer
dispatches went through its list or was cancelled).

**PollerProofs**, for any tweets, any life of a seen entry and any accounts.
The tweet poller's invariant says that an entry's remaining life and the time
since it was last handled add up to the TTL (`EntriesAge`), from which
`NoEarlyRepublication` follows at once: an entry that lapsed was not handled for
the whole TTL. `HandledIsPublished` and `SeedIsFirst` carry `PollsPublish`
through the middle of a poll. For the follow poller `KnownMatchesSent` speaks of
finished polls only; `SendingAgrees` and `SentAll` say what holds while the
Follows and Undos of a poll are going out, and `SilentBefore` that nothing was
sent before the baseline. The run checks all of this on `Outbound`; `PartsAreKept`
shows that its behaviours are behaviours of each part's own specification, so
the theorems about the parts are theorems about it.

**UserRoutingProofs**, for at least two networks, any nodes and any number of
requests. `Confined` needs to know where the values came from: every cache holds
only networks and nodes the user has lived in, and a network's caches only its
own nodes (`CachesAreHistory`). `RequestsOnTrack` says at which points of its way
a request has a network and a target, so that a value read from a cache and used
after the cache has changed is still one the caches once held.

**FollowHandshakeProofs**, for any finite set of accounts, any number of
activities and of POSTs of each. `AcceptPrecedesStoring` needs that a job past
the Accept has it recorded (`ToldFirst`), that it has a name to store (`Named`),
that Follows and Undos go their own ways (`Kinds`) and that only what was sent is
posted (`WasSent`). `UndisturbedIsHonoured` is the deepest
argument of the project: for an account without a mishap the jobs are in order
(`InOrder`): one at a time, the one running is for the latest activity received,
an Undo still being resolved is not answered yet, whatever was answered was
received, all used one name, a follower is added before the federation is told,
and once all is answered and done the graph says what was asked for last. Each
conjunct is what some kind of mishap would break.

**RateLimitProofs**, for any clients, handlers, routes, budgets, any window and
any TTL of more than two windows (the code has five; the library may hold a
request for one window between the look-up that adds an entry and the charge,
and the drain waits for another, so with less an entry could be dropped while
the drain counts and its count would be charged to its successor).
`NoEarlyBudget` rests on `WaitIsTrue`: while the drain has seen a limiter locked
for s ticks every task is at least s old, the limiter stays locked, and whoever
can still charge it was held, which makes the limiter `late`. `EntryIsRecent`
bounds the age of an LRU entry by a window more than the age of each task, or
than the drain's wait. What the library's total adds up to plays no part here.
`RefusedOnlyOverBudget` is about that total, for any width of the unsigned
integer (`WidthsAssumption`). `CountsInv` says of every limiter that its total is
the weight of its queue but for a multiple of the modulus (`Counted`): `Limit`
subtracts exactly what it cuts off and adds exactly what it records
(`LimitCounts`). A total within the width never exceeds a weight it is congruent
to (`TotalWithinWeight`), so a limiter that is locked is really overspent; a
subtraction too much would break the congruence. The weight of a queue is
the cardinality of its units (`Units`: one pair of an index and a number for
each unit of weight), so that appending, cutting and ageing are facts about
finite sets and need no induction along the queue.
`MaxOfIndices` is a proof by minimal counterexample from `WFMin`, the
library's one induction principle that takes a set.

**ServicesProofs**. The parts share no state; `Parts` shows that a step of the
composition is a step of each part or leaves it alone, so each has an invariant
over its own variables.

| Theorem | For any | Invariant beyond the property |
|---|---|---|
| `KeyNeverChanges` | number of starts | a published key is the one in the file; while a new one is made or written the file holds none, so none was published |
| `FetchedOncePerWindow` | callers, cache window | the cached entry is as old as the last answered fetch |
| `DirectoryAdvances` | width, page limit | every page in the cache leads on, to a cursor of that width or to the end |
| `RingServesRecent` | ring size, networks, texts | place by place the ring, read from the write index, is the queue of the last lines (`RingIsRecent`) |
| `SuccessMeansDelivered` | script of events, losses and retries | none: the type of the handlers |
| `RepliesShownOnce` | script in which Deletes and repetitions of a reply name the reply's parent and root (`ScriptAssumption`: they come from one row of the member's node) | `ShownAreReplies`: a shown note is a reply of the script under its own parent, and its Create, like that of every removed one, is known |
| `CandidatesStayRight` | members, relays, bound, history of answers, limits and routing tables | `CandidatesInv`: members are remembered once each and fit, the table lists peers once. What merging, truncating and demoting do to such lists is `ListedFacts` and `DemotedFacts` |
| `ThreadKeepsOrder` | pages, items, slots, order of resolution | `ThreadInv`: what is collected is of the pages done and in order; what is being resolved or resolved since belongs to the current page, and there is room for all of it |
| `ListHoldsAll` | page size, list, way a node ends it | `ListInv`: the urls found are the bridged followers of the pages read, the cursor is where those pages end, and there is a next page |
| `StoredIsGenuine`, `NoteIsOneReply` | activities whose urls are split into owner and id (`ActsAssumption`) | forwards, and the rows they left, are of activities sent by their own author |

`CandidatesStayRight`, `ThreadKeepsOrder` and `ListHoldsAll` are about lists that
the code filters and joins.
`Selected` (module `Selection`) gives the k-th element kept as the one with k
kept elements up to it, which is the result of the loop stated position by
position. `SelectedFacts` shows what every proof uses: the kept elements come
from a strictly increasing list of exactly the indices that pass the test. Two
increasing lists of the same set of numbers are equal (`ListedOnce`), which makes
"once and in order" an equation of sets and replaces induction over lists.

Assumptions beyond types: `ScriptAssumption` and `ActsAssumption` as in the table;
`CandidatesAssumption`, that the members are disjoint from the relays and the
gateway itself (the two kinds of peer `memberCandidates` leaves out); a page of at least one follower, a ring of at least one line.

Only model-checked, and why:

- the liveness properties, because fairness is outside the prover's temporal
  reasoning: `EverythingEnds`, `Resumes`, `StopsForGood`, `DrainsAfterShutdown`,
  `PostsAreFederated`, `Converges`, `FanOutsEnd`, `Heals`, `AcceptedIsFederated`
  and `NoLimiterStaysLocked`. Every other property of a passing run is stated by
  a theorem;
- the properties of the five runs that end in a counterexample.

## 5. Findings

Each is a run that TLC ends with a counterexample to a sentence of the
repository.

1. `FederationBlip`, `outbound.go:322`. `start()` does not clear the counter
   of empty scans. A user without a Fediverse follower already has a positive
   counter when the first Follow is accepted, so that one empty read of an
   unreachable owner node stops the new federation, against the comment "so
   require it twice". The next scan that reads the followers starts it again.
2. `FollowPollerUnresolvable`, `outbound.go:179`. An account that cannot be
   resolved during a poll is sent an Undo(Follow) while the owner follows it,
   when another account does resolve. The test that says the contrary only
   reads one account that never resolved before, so there is nothing to undo.
3. `FollowHandshakeRace`, `inbox.go:192`. An Undo forwarded while its Follow is
   between the Accept and the Add removes nothing; the Add then stores a
   follower that has left, and the user is federated to it from then on.
4. `TweetPollerExpiry`, `tweetpoller.go:95`. Only a poll whose fetch succeeds
   refreshes entries. When none does for the life of an entry, it lapses while
   its post is in the feed and the next poll publishes the post again, against
   "expiry can't cause a re-publish" (`tweetpoller.go:43`, and
   `tweetpoller_test.go:90`). `PublishesOnlyNewOrLapsed` is the guarantee that
   remains: this is the only way.
5. `TweetPollerHistory`, `tweetpoller.go:74`. A seed whose fetch fails marks
   nothing, and the next poll publishes what was posted before the start,
   against "only posts created afterwards are federated"
   (`tweetpoller.go:49-51`).

Behaviours met while modelling that no run states; most contradict no sentence
of the repository:

- A Delete carried out before the Create of its reply, which was delayed by a
  retry, leaves the reply shown (`mastodon-bridge.go:1390`); `RepliesMirrored`
  speaks of Deletes that came after.
- A second reaction within the second that the note is cached returns the count
  of the first (`mastodon-bridge.go:1298`).
- A page of replies is cut to the room left before its items are resolved
  (`mastodon-bridge.go:1078`), so items that do not resolve take up room.
- Remembered members fill the candidate list before the routing table is looked
  at (`discovery.go:70`): with 64 of them, all gone, a request reaches nobody
  new until one answers.
- A request held by the library charges a limiter late, so the drain may drop a
  limiter whose window is not empty (`late` in `RateLimit`).
- The owner's last unfollow is never sent: a poll that resolves nobody is
  skipped whenever somebody was known (`outbound.go:188`). `Converges`
  therefore speaks of non-empty sets.
- A baseline taken from a partial answer makes the other followings look new,
  and they are sent a Follow again (`outbound.go:184`): the failed first read of
  finding 5, in the other poller.
- An account that newer followings push off the first page is sent an
  Undo(Follow) (`outbound.go:157`), since the poller reads no other page.
- Callers that share a fetch share the fate of the first one's context
  (`server.go:799`): its cancellation is everybody's error.
- An opaque account whose document cannot be fetched is stored under an id
  read off its url, and its Undo may name another (`mastodon-bridge.go:259`);
  the comment there accepts that. It is the mishap "name".
- `acceptFollow` starts the federation of a user whose follower could not be
  stored (`inbox.go:192-199`); the scanner stops it later.

## 6. Not modelled

Left out for good, because it keeps no state whose order matters:

- documents and formatting (`notes.go`, `activitypub.go`, `badge.go`, the DTO
  types and most of `mastodon-map.go`), the media proxy, cryptography itself;
- the bridge's reads (REST first, ActivityPub as the fallback) and the read
  routes of the libp2p server: each is one request that maps one document. The
  cache of misses and the handle caches only turn a lookup into an earlier
  answer of the same lookup, which the models that use lookups allow anyway;
- the start of the libp2p host and of several networks, the merging of listings
  of several networks, configuration, logging;
- the in-memory follower store, a map under a lock, used without a node.

Libraries (libp2p and its DHT, the expirable LRU, singleflight, the sliding
window limiter) and the other ends (member nodes, remote servers) are external
and modelled by what the code relies on.

Not counted by a model: how often the owner's node carries out a targeted write
that is repeated by a broadcast (`nodeclient.go:397`).
