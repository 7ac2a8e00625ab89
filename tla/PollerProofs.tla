---------------------------- MODULE PollerProofs ----------------------------
(***************************************************************************)
(* Proofs about the two pollers of a federated user, for every set of      *)
(* tweets, every life of a seen entry and every set of accounts, and about *)
(* their composition with the delivery pool.                               *)
(***************************************************************************)
EXTENDS Outbound, TLAPS

-----------------------------------------------------------------------------
(* The tweet poller. *)

\* A seen entry and the time since the tweet was last handled add up to the life
\* of an entry, and only handled tweets have one.
EntriesAge ==
  \A t \in Tweet : IF t \in handled THEN life[t] + gap[t] = TTL ELSE life[t] = 0

\* What was handled after the seed has been published, at any time.
HandledIsPublished ==
  \A t \in (Original \cap handled) \ seeded : published[t] > 0

\* Nothing is handled before the seed.
SeedIsFirst == phase = "seeding" => handled = {} /\ page = {}

TweetInv ==
  /\ TweetTypeOK
  /\ EntriesAge
  /\ HandledIsPublished
  /\ SeedIsFirst

\* The invariant holds before the seed.
LEMMA TweetInitInv == TweetInit => TweetInv
<1> SUFFICES ASSUME TweetInit PROVE TweetInv
  OBVIOUS
<1>1. TweetTypeOK
  <2>1. /\ life \in [Tweet -> 0..TTL] /\ gap \in [Tweet -> 0..TTL]
        /\ published \in [Tweet -> 0..2] /\ due \in 0..Overrun
    BY TTLAssumption, OverrunAssumption DEF TweetInit
  <2> QED
    BY <2>1 DEF TweetInit, TweetTypeOK
<1>2. EntriesAge /\ HandledIsPublished /\ SeedIsFirst
  BY DEF TweetInit, EntriesAge, HandledIsPublished, SeedIsFirst
<1> QED
  BY <1>1, <1>2 DEF TweetInv

\* A fetch returns part of the feed.
LEMMA FetchedInFeed ==
  ASSUME NEW got \in Fetched
  PROVE  got \subseteq feed
BY DEF Fetched

\* The seed marks what it fetched.
LEMMA SeedInv ==
  ASSUME TweetInv, Seed
  PROVE  TweetInv'
<1> USE TTLAssumption, OriginalAssumption DEF surroundings
<1>1. PICK got \in Fetched :
        /\ life' = [t \in Tweet |-> IF t \in got THEN TTL ELSE life[t]]
        /\ seeded' = got
        /\ handled' = handled \cup got
        /\ gap' = [t \in Tweet |-> IF t \in got THEN 0 ELSE gap[t]]
  BY DEF Seed, NoteHandled
<1>2. got \subseteq feed /\ handled = {} /\ phase' = "waiting"
      /\ UNCHANGED <<due, page, before, published, healthy, cancelled, feed, posted>>
  BY FetchedInFeed DEF Seed, TweetInv, SeedIsFirst
<1>3. TweetTypeOK'
  BY <1>1, <1>2 DEF TweetInv, TweetTypeOK
<1>4. EntriesAge'
  BY <1>1, <1>2 DEF TweetInv, TweetTypeOK, EntriesAge
<1>5. HandledIsPublished' /\ SeedIsFirst'
  BY <1>1, <1>2 DEF HandledIsPublished, SeedIsFirst
<1> QED
  BY <1>3, <1>4, <1>5 DEF TweetInv

\* Handling a tweet of the page refreshes or makes its entry.
LEMMA HandleInv ==
  ASSUME TweetInv, NEW t \in Tweet, SkipSeen(t) \/ HandleNew(t)
  PROVE  TweetInv'
<1> USE TTLAssumption, OriginalAssumption DEF surroundings
<1>1. /\ phase = "polling" /\ phase' = "polling" /\ t \in page /\ page' = page \ {t}
      /\ handled' = handled \cup {t}
      /\ gap' = [u \in Tweet |-> IF u \in {t} THEN 0 ELSE gap[u]]
      /\ life' = [life EXCEPT ![t] = TTL]
      /\ UNCHANGED <<due, before, seeded, healthy, cancelled, feed, posted>>
  BY DEF SkipSeen, HandleNew, NoteHandled
<1>2. /\ published' \in [Tweet -> 0..2]
      /\ \A u \in Tweet : published[u] > 0 => published'[u] > 0
      /\ t \in Original => (published'[t] > 0 \/ (life[t] > 0 /\ published' = published))
  <2>1. published \in [Tweet -> 0..2]
    BY DEF TweetInv, TweetTypeOK
  <2>2. CASE SkipSeen(t)
    BY <2>1, <2>2 DEF SkipSeen
  <2>3. CASE HandleNew(t)
    BY <2>1, <2>3 DEF HandleNew
  <2> QED
    BY <2>2, <2>3
<1>3. TweetTypeOK'
  <2>1. life' \in [Tweet -> 0..TTL] /\ gap' \in [Tweet -> 0..TTL]
    BY <1>1 DEF TweetInv, TweetTypeOK
  <2>2. page' \in SUBSET posted' /\ handled' \in SUBSET posted' /\ seeded' \in SUBSET handled'
    BY <1>1 DEF TweetInv, TweetTypeOK
  <2> QED
    BY <1>1, <1>2, <2>1, <2>2 DEF TweetInv, TweetTypeOK
<1>4. EntriesAge'
  BY <1>1 DEF TweetInv, TweetTypeOK, EntriesAge
<1>5. HandledIsPublished'
  <2> SUFFICES ASSUME NEW u \in Original, u \in handled', u \notin seeded'
               PROVE  published'[u] > 0
    BY DEF HandledIsPublished
  <2>1. CASE u \in handled
    BY <1>1, <1>2, <2>1 DEF TweetInv, HandledIsPublished
  <2>2. CASE u \notin handled
    BY <1>1, <1>2, <2>2 DEF TweetInv, TweetTypeOK, EntriesAge
  <2> QED
    BY <2>1, <2>2
<1> QED
  BY <1>1, <1>3, <1>4, <1>5 DEF TweetInv, SeedIsFirst

\* Entries age with the clock.
LEMMA TickInv ==
  ASSUME TweetInv, Tick
  PROVE  TweetInv'
<1> USE TTLAssumption DEF surroundings
<1>1. /\ life' = [t \in Tweet |-> IF life[t] = 0 THEN 0 ELSE life[t] - 1]
      /\ gap' = [t \in Tweet |-> IF t \in handled /\ gap[t] < TTL THEN gap[t] + 1 ELSE gap[t]]
      /\ UNCHANGED <<phase, page, before, seeded, handled, published, healthy, cancelled, feed, posted>>
  BY DEF Tick
<1>4. due' \in 0..Overrun
  <2>1. due \in 0..Overrun /\ Overrun \in Nat
    BY OverrunAssumption DEF TweetInv, TweetTypeOK
  <2> QED
    BY <2>1 DEF Tick
<1>2. TweetTypeOK'
  BY <1>1, <1>4 DEF TweetInv, TweetTypeOK
<1>3. EntriesAge'
  BY <1>1 DEF TweetInv, TweetTypeOK, EntriesAge
<1> QED
  BY <1>1, <1>2, <1>3 DEF TweetInv, HandledIsPublished, SeedIsFirst

\* The other steps leave entries, history and publications alone.
LEMMA IdleInv ==
  ASSUME TweetInv,
         \/ BeginPoll \/ EndPoll \/ Stop \/ Weather \/ Cancel \/ UNCHANGED tweetVars
         \/ \E t \in Tweet : Post(t) \/ Shuffle(t)
  PROVE  TweetInv'
<1> USE DEF surroundings, notes, tweetVars
<1>1. UNCHANGED <<life, before, seeded, handled, gap, published>>
  BY DEF BeginPoll, EndPoll, Stop, Weather, Cancel, Post, Shuffle
<1>2. /\ page' \in SUBSET posted'
      /\ phase' \in {"seeding", "waiting", "polling", "stopped"}
      /\ phase' = "seeding" => phase = "seeding" /\ page' = page
  <2>1. CASE BeginPoll
    BY <2>1, FetchedInFeed DEF BeginPoll, TweetInv, TweetTypeOK
  <2>2. CASE ~BeginPoll
    BY <2>2 DEF EndPoll, Stop, Weather, Cancel, Post, Shuffle, TweetInv, TweetTypeOK
  <2> QED
    BY <2>1, <2>2
<1>3. /\ posted \subseteq posted' /\ posted' \in SUBSET Tweet /\ feed' \in SUBSET posted'
      /\ healthy' \in BOOLEAN /\ cancelled' \in BOOLEAN
  BY DEF BeginPoll, EndPoll, Stop, Weather, Cancel, Post, Shuffle, TweetInv, TweetTypeOK
<1>4. due' \in 0..Overrun
  <2>1. due' \in {0, due}
    BY DEF BeginPoll, EndPoll, Stop, Weather, Cancel, Post, Shuffle
  <2> QED
    BY <2>1, OverrunAssumption DEF TweetInv, TweetTypeOK
<1> QED
  BY <1>1, <1>2, <1>3, <1>4
     DEF TweetInv, TweetTypeOK, EntriesAge, HandledIsPublished, SeedIsFirst

\* The invariant of the tweet poller holds in every reachable state.
LEMMA TweetInvariance == TweetSpec => []TweetInv
<1>1. TweetInv /\ [TweetNext]_tweetVars => TweetInv'
  BY SeedInv, HandleInv, TickInv, IdleInv DEF TweetNext, Poller
<1> QED
  BY <1>1, TweetInitInv, PTL DEF TweetSpec

\* Every original post that a completed poll fetched was published, unless the
\* seed had marked it: marking before publishing loses nothing (tweetPoller.poll).
THEOREM PollsPublish == TweetSpec => []FetchedIsPublished
<1>1. TweetInv => FetchedIsPublished
  BY DEF TweetInv, HandledIsPublished, FetchedIsPublished
<1> QED
  BY <1>1, TweetInvariance, PTL

\* A post is published again only when no poll handled it for the whole life of a
\* seen entry, whatever is fetched, deleted or shuffled meanwhile (tweetPoller.poll).
THEOREM NoEarlyRepublication == TweetSpec => PublishesOnlyNewOrLapsed
<1>1. ASSUME TweetInv, [TweetNext]_tweetVars
      PROVE  [\A t \in Tweet :
                published'[t] # published[t] => t \notin handled \/ gap[t] = TTL]_tweetVars
  <2> SUFFICES ASSUME NEW t \in Tweet, published'[t] # published[t]
               PROVE  t \notin handled \/ gap[t] = TTL
    OBVIOUS
  <2>1. HandleNew(t)
    <3>1. PICK u \in Tweet : HandleNew(u)
      BY <1>1 DEF TweetNext, Poller, Seed, BeginPoll, SkipSeen, EndPoll, Stop, Tick, Post,
         Shuffle, Weather, Cancel, tweetVars
    <3> QED
      BY <1>1, <3>1 DEF HandleNew, TweetInv, TweetTypeOK
  <2> QED
    BY <1>1, <2>1, TTLAssumption DEF HandleNew, TweetInv, TweetTypeOK, EntriesAge
<1> QED
  BY <1>1, TweetInvariance, PTL DEF TweetSpec, PublishesOnlyNewOrLapsed

-----------------------------------------------------------------------------
(* The follow poller. *)

\* While a poll sends, what was last sent agrees with the accounts it found,
\* except where it has yet to send the opposite.
SendingAgrees ==
  followPhase = "sending" =>
    \A a \in Actor :
      /\ sent[a] = "follow" => a \in current \/ a \in toUndo
      /\ sent[a] = "undo" => a \notin current \/ a \in toFollow

\* Nothing is left to send outside a poll.
SentAll == followPhase # "sending" => toFollow = {} /\ toUndo = {}

\* Before the first answer was recorded nothing has been sent.
SilentBefore == ~baseline => followPhase # "sending" /\ \A a \in Actor : sent[a] = "none"

FollowInv ==
  /\ KnownMatchesSent
  /\ SendingAgrees
  /\ SentAll
  /\ SilentBefore

\* A new poller has sent nothing.
LEMMA FollowStart == FollowInit => FollowInv
BY DEF FollowInit, FollowInv, KnownMatchesSent, FollowTypeOK, SendingAgrees, SentAll, SilentBefore

\* What a poll reads are accounts.
LEMMA AnswersAreAccounts ==
  ASSUME FollowTypeOK, NEW got \in Answers
  PROVE  got \subseteq Actor /\ Resolved(got) \subseteq got
BY DEF FollowTypeOK, Answers, Resolved

\* Starting a poll keeps the invariant.
LEMMA PollStartsInv ==
  ASSUME FollowInv, PollStarts
  PROVE  FollowInv'
<1> USE DEF world
<1>t. FollowTypeOK
  BY DEF FollowInv, KnownMatchesSent
<1>1. followPhase = "waiting" /\ read' \subseteq Actor /\ Resolved(read') \subseteq read'
  <2>1. read' \in Answers /\ followPhase = "waiting"
    BY DEF PollStarts, PollBaseline, PollSkips, PollCompares
  <2> QED
    BY <2>1, <1>t, AnswersAreAccounts
<1>2. CASE PollBaseline
  <2>1. FollowTypeOK'
    BY <1>1, <1>2, <1>t DEF FollowTypeOK, PollBaseline
  <2>2. sent' = sent /\ followPhase' = "waiting" /\ \A a \in Actor : sent[a] = "none"
    BY <1>1, <1>2 DEF PollBaseline, FollowInv, SilentBefore
  <2> QED
    BY <1>2, <2>1, <2>2
       DEF PollBaseline, FollowInv, KnownMatchesSent, SendingAgrees, SentAll, SilentBefore
<1>3. CASE PollSkips
  <2>1. FollowTypeOK'
    BY <1>1, <1>3, <1>t DEF FollowTypeOK, PollSkips, FollowInv, SentAll
  <2> QED
    BY <1>3, <2>1
       DEF PollSkips, FollowInv, KnownMatchesSent, SendingAgrees, SentAll, SilentBefore
<1>4. CASE PollCompares
  <2>1. FollowTypeOK'
    BY <1>1, <1>4, <1>t DEF FollowTypeOK, PollCompares
  <2>2. SendingAgrees'
    BY <1>1, <1>4 DEF PollCompares, FollowInv, KnownMatchesSent, SendingAgrees
  <2> QED
    BY <1>4, <2>1, <2>2 DEF PollCompares, FollowInv, KnownMatchesSent, SentAll, SilentBefore
<1> QED
  BY <1>2, <1>3, <1>4 DEF PollStarts

\* An activity sent settles its account.
LEMMA SendInv ==
  ASSUME FollowInv, NEW a \in Actor, SendFollow(a) \/ SendUndo(a)
  PROVE  FollowInv'
<1> USE DEF world
<1>t. FollowTypeOK
  BY DEF FollowInv, KnownMatchesSent
<1>1. /\ followPhase = "sending" /\ followPhase' = "sending" /\ baseline' = baseline
      /\ UNCHANGED <<known, current>>
      /\ toFollow' \subseteq toFollow /\ toUndo' \subseteq toUndo
      /\ toFollow \ {a} \subseteq toFollow' /\ toUndo \ {a} \subseteq toUndo'
      /\ \/ a \in current /\ sent' = [sent EXCEPT ![a] = "follow"]
         \/ a \notin current /\ sent' = [sent EXCEPT ![a] = "undo"]
  BY <1>t DEF SendFollow, SendUndo, FollowTypeOK
<1>2. FollowTypeOK'
  BY <1>t DEF SendFollow, SendUndo, FollowTypeOK
<1>3. SendingAgrees'
  BY <1>1, <1>t DEF FollowInv, SendingAgrees, FollowTypeOK
<1> QED
  BY <1>1, <1>2, <1>3 DEF FollowInv, KnownMatchesSent, SentAll, SilentBefore

\* The end of a poll makes what it found the known accounts.
LEMMA EndPollInv ==
  ASSUME FollowInv, FollowEndPoll
  PROVE  FollowInv'
<1> USE DEF world, poll
<1>1. FollowTypeOK'
  BY DEF FollowInv, KnownMatchesSent, FollowTypeOK, FollowEndPoll
<1> QED
  BY <1>1 DEF FollowInv, KnownMatchesSent, FollowEndPoll, SendingAgrees, SentAll, SilentBefore

\* A poller that stops, the next one, and whatever happens outside keep it.
LEMMA OutsideInv ==
  ASSUME FollowInv,
         \/ FollowStop \/ NewPoller \/ OwnerNode \/ FollowCancel \/ UNCHANGED followVars
         \/ \E a \in Actor : Enter(a) \/ Leave(a) \/ Instance(a)
  PROVE  FollowInv'
<1> USE DEF world, poll, followVars
<1>1. CASE NewPoller
  BY <1>1 DEF FollowInv, KnownMatchesSent, FollowTypeOK, NewPoller, SendingAgrees, SentAll,
     SilentBefore
<1>2. CASE ~NewPoller
  <2>1. UNCHANGED <<baseline, known, current, toFollow, toUndo, read, sent>>
    BY <1>2 DEF FollowStop, OwnerNode, FollowCancel, Enter, Leave, Instance
  <2>2. /\ followPhase' \in {followPhase, "stopped"} /\ followCancelled' \in BOOLEAN
        /\ ownerUp' \in BOOLEAN /\ resolvable' \in SUBSET Actor /\ listed' \in SUBSET Actor
    BY <1>2 DEF FollowStop, OwnerNode, FollowCancel, Enter, Leave, Instance,
       FollowInv, KnownMatchesSent, FollowTypeOK
  <2>3. FollowStop => followPhase = "waiting"
    BY DEF FollowStop
  <2>4. followPhase' = "stopped" => followPhase # "sending"
    BY <1>2 DEF FollowStop, OwnerNode, FollowCancel, Enter, Leave, Instance
  <2> QED
    BY <2>1, <2>2, <2>4 DEF FollowInv, KnownMatchesSent, FollowTypeOK, SendingAgrees, SentAll,
       SilentBefore
<1> QED
  BY <1>1, <1>2

\* When a poll is over, the last activity sent to each account agrees with what
\* the poller knows, for any accounts, partial reads, failed lookups and
\* restarts (outbound.go: followPoller).
THEOREM SendingIsExact == FollowSpec => []KnownMatchesSent
<1>1. FollowInv /\ [FollowNext]_followVars => FollowInv'
  BY PollStartsInv, SendInv, EndPollInv, OutsideInv DEF FollowNext, FollowLoop
<1>2. FollowInv => KnownMatchesSent
  BY DEF FollowInv
<1> QED
  BY <1>1, <1>2, FollowStart, PTL DEF FollowSpec

-----------------------------------------------------------------------------
(* The composition. *)

\* A behaviour of what runs for a federated user is one of each of its parts, so
\* whatever is proved of a poller or of the delivery pool alone holds of it
\* (outboundFederation.start).
THEOREM PartsAreKept == Spec => TweetSpec /\ FollowSpec /\ PoolSpec
<1>1. Init => TweetInit /\ FollowInit /\ PoolInit
  BY DEF Init
<1>2. [Next]_vars => [TweetNext]_tweetVars /\ [FollowNext]_followVars /\ [PoolNext]_poolVars
  BY DEF Next, Only, vars
<1> QED
  BY <1>1, <1>2, PTL DEF Spec, TweetSpec, FollowSpec, PoolSpec
=============================================================================
