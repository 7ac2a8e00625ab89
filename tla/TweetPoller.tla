---------------------------- MODULE TweetPoller ----------------------------
(***************************************************************************)
(* The tweet poller of one federated user (tweetpoller.go): the seed, the  *)
(* polls, and the expiring set of tweets already seen.                     *)
(*                                                                         *)
(* Time advances in poll intervals.  A seen entry lives TTL of them (24    *)
(* hours of one minute in the code) unless a poll refreshes it.  The       *)
(* owner's feed is the page the owner node returns: posts enter it, leave  *)
(* it when they are deleted or pushed off by newer ones, and come back     *)
(* when newer ones are deleted.  While the network is not healthy a fetch  *)
(* may fail, which the poller reads as an empty page, or be answered by a  *)
(* member that holds only part of the feed.                                *)
(***************************************************************************)
EXTENDS Naturals, FiniteSets

CONSTANTS
  Tweet,
  Original,               \* those that publishableTweet accepts
  TTL,                    \* tweetSeenTTL in poll intervals
  Overrun                 \* intervals that may elapse between two fetches

ASSUME OriginalAssumption == Original \subseteq Tweet
ASSUME TTLAssumption == TTL \in Nat \ {0}

\* A poll may outlast many intervals, but not half the life of a seen entry: 12
\* hours, against requests and deliveries that are bounded by timeouts.
ASSUME OverrunAssumption == Overrun \in Nat \ {0} /\ 2 * Overrun < TTL

VARIABLES
  phase,                  \* "seeding", "waiting", "polling" or "stopped"
  healthy,                \* a fetch returns exactly the feed
  cancelled,              \* ctx.Done() is closed
  due,                    \* ticks since the last one was taken: the channel,
                          \* of capacity one, holds a tick when it is not 0
  feed,                   \* the page the owner node would return
  posted,                 \* every tweet the owner has posted so far
  before,                 \* history: those posted before the poller started
  page,                   \* fetched tweets that the poll has yet to handle
  life,                   \* remaining life of each seen entry, 0 if absent
  seeded,                 \* history: handled by the seed
  handled,                \* history: handled by the seed or by a poll
  gap,                    \* history: intervals since it was last handled
  published               \* history: how often it was published (2 for more)

tweetVars == <<phase, healthy, cancelled, due, feed, posted, before, page, life,
               seeded, handled, gap, published>>

surroundings == <<healthy, cancelled, feed, posted>>
notes == <<before, seeded, handled, gap>>

TweetTypeOK ==
  /\ phase \in {"seeding", "waiting", "polling", "stopped"}
  /\ healthy \in BOOLEAN
  /\ cancelled \in BOOLEAN
  /\ due \in 0..Overrun
  /\ posted \in SUBSET Tweet
  /\ before \in SUBSET posted
  /\ feed \in SUBSET posted
  /\ page \in SUBSET posted
  /\ life \in [Tweet -> 0..TTL]
  /\ seeded \in SUBSET handled
  /\ handled \in SUBSET posted
  /\ gap \in [Tweet -> 0..TTL]
  /\ published \in [Tweet -> 0..2]

TweetInit ==
  /\ phase = "seeding"
  /\ healthy \in BOOLEAN
  /\ cancelled = FALSE
  /\ due = 0
  /\ posted \in SUBSET Tweet
  /\ before = posted
  /\ feed \in SUBSET posted
  /\ page = {}
  /\ life = [t \in Tweet |-> 0]
  /\ seeded = {}
  /\ handled = {}
  /\ gap = [t \in Tweet |-> 0]
  /\ published = [t \in Tweet |-> 0]

-----------------------------------------------------------------------------
(* The poller. *)

\* What fetch() may return: nothing on any failure, an error envelope included.
Fetched == IF healthy THEN {feed} ELSE SUBSET feed

\* History of handling the tweets of got.
NoteHandled(got) ==
  /\ handled' = handled \cup got
  /\ gap' = [t \in Tweet |-> IF t \in got THEN 0 ELSE gap[t]]

Seed ==
  /\ phase = "seeding"
  /\ \E got \in Fetched :
       /\ life' = [t \in Tweet |-> IF t \in got THEN TTL ELSE life[t]]
       /\ seeded' = got
       /\ NoteHandled(got)
  /\ phase' = "waiting"
  /\ UNCHANGED <<due, page, before, published, surroundings>>

\* The ticker wins the select and the poll fetches the page.
BeginPoll ==
  /\ phase = "waiting"
  /\ due > 0
  /\ due' = 0
  /\ page' \in Fetched
  /\ phase' = "polling"
  /\ UNCHANGED <<life, published, surroundings, notes>>

\* Faulty variant: a seen tweet is skipped without refreshing its entry.
SkipSeenWithoutRefresh(t) ==
  /\ phase = "polling"
  /\ t \in page
  /\ life[t] > 0
  /\ page' = page \ {t}
  /\ NoteHandled({t})
  /\ UNCHANGED <<phase, due, life, before, seeded, published, surroundings>>

\* Already seen: refresh the entry.
SkipSeen(t) ==
  /\ phase = "polling"
  /\ t \in page
  /\ life[t] > 0
  /\ page' = page \ {t}
  /\ NoteHandled({t})
  /\ life' = [life EXCEPT ![t] = TTL]
  /\ UNCHANGED <<phase, due, before, seeded, published, surroundings>>

\* Faulty variant: the poll marks the tweet and looks it up afterwards.
HandleNewMarkedFirst(t) ==
  /\ phase = "polling"
  /\ t \in page
  /\ life[t] = 0
  /\ page' = page \ {t}
  /\ NoteHandled({t})
  /\ life' = [life EXCEPT ![t] = TTL]
  /\ UNCHANGED <<phase, due, before, seeded, published, surroundings>>

\* Seen for the first time: mark it, then publish it if it is an original post.
\* The mark precedes the publication, which is best effort.
HandleNew(t) ==
  /\ phase = "polling"
  /\ t \in page
  /\ life[t] = 0
  /\ page' = page \ {t}
  /\ NoteHandled({t})
  /\ life' = [life EXCEPT ![t] = TTL]
  /\ published' = IF t \in Original
                  THEN [published EXCEPT ![t] = IF @ = 2 THEN 2 ELSE @ + 1]
                  ELSE published
  /\ UNCHANGED <<phase, due, before, seeded, surroundings>>

EndPoll ==
  /\ phase = "polling"
  /\ page = {}
  /\ phase' = "waiting"
  /\ UNCHANGED <<due, page, life, published, surroundings, notes>>

\* The select picks ctx.Done(); when a tick is there too it may pick either.
Stop ==
  /\ phase = "waiting"
  /\ cancelled
  /\ phase' = "stopped"
  /\ UNCHANGED <<due, page, life, published, surroundings, notes>>

Poller ==
  \/ Seed
  \/ BeginPoll
  \/ \E t \in Tweet : SkipSeen(t) \/ HandleNew(t)
  \/ EndPoll
  \/ Stop

-----------------------------------------------------------------------------
(* The clock, the owner and the network. *)

\* An interval elapses: the ticker ticks, dropping the tick when its channel is
\* full, and entries age.
Tick ==
  /\ phase # "stopped"
  /\ due < Overrun
  /\ due' = IF phase = "seeding" THEN 0 ELSE due + 1
  /\ life' = [t \in Tweet |-> IF life[t] = 0 THEN 0 ELSE life[t] - 1]
  /\ gap' = [t \in Tweet |->
               IF t \in handled /\ gap[t] < TTL THEN gap[t] + 1 ELSE gap[t]]
  /\ UNCHANGED <<phase, page, before, seeded, handled, published, surroundings>>

Post(t) ==
  /\ t \notin posted
  /\ posted' = posted \cup {t}
  /\ feed' = feed \cup {t}
  /\ UNCHANGED <<phase, healthy, cancelled, due, page, life,
                 published, notes>>

\* A tweet leaves the page, or comes back to it.
Shuffle(t) ==
  /\ t \in posted
  /\ feed' = IF t \in feed THEN feed \ {t} ELSE feed \cup {t}
  /\ UNCHANGED <<phase, healthy, cancelled, due, posted, page, life,
                 published, notes>>

Weather ==
  /\ healthy' = ~healthy
  /\ UNCHANGED <<phase, cancelled, due, feed, posted, page, life,
                 published, notes>>

\* outboundFederation.stop, or the gateway shuts down.
Cancel ==
  /\ ~cancelled
  /\ cancelled' = TRUE
  /\ UNCHANGED <<phase, healthy, due, feed, posted, page, life,
                 published, notes>>

TweetNext ==
  \/ Poller
  \/ Tick
  \/ \E t \in Tweet : Post(t) \/ Shuffle(t)
  \/ Weather
  \/ Cancel

TweetSpec == TweetInit /\ [][TweetNext]_tweetVars

\* The poller's goroutine is scheduled and its ticker keeps ticking.
TweetFairSpec == TweetSpec /\ WF_tweetVars(Poller) /\ WF_tweetVars(Tick)

-----------------------------------------------------------------------------
(* Correctness. *)

\* A tweet is published only if it was never handled before, or if no poll
\* handled it for the whole life of a seen entry: refreshing the entries on every
\* poll keeps what every fetch returns from being published again.  The comments
\* of the poller promise more than this; see the last two properties.
PublishesOnlyNewOrLapsed ==
  [][\A t \in Tweet :
       published'[t] # published[t] => t \notin handled \/ gap[t] = TTL]_tweetVars

\* Every original post that a completed poll fetched was published, unless the
\* seed had already marked it.
FetchedIsPublished ==
  /\ TweetTypeOK
  /\ phase = "waiting" =>
       \A t \in (Original \cap handled) \ seeded : published[t] > 0

\* A post that stays in the feed of a reachable owner is published, unless the
\* seed handled it, as long as the user remains federated.
PostsAreFederated ==
  \A t \in Original :
    <>[](healthy /\ t \in feed /\ ~cancelled) =>
      <>(published[t] > 0 \/ t \in seeded)

\* "expiry can't cause a re-publish" (tweetpoller.go:43), "expiry can never cause
\* an old post to be federated a second time" (tweetpoller_test.go:90): a post
\* that was published is not published again.
ExpiryNeverRepublishes ==
  [][\A t \in Tweet : published[t] > 0 => published'[t] = published[t]]_tweetVars

\* "at startup it marks existing tweets as seen, so only posts created afterwards
\* are federated" (tweetpoller.go:50): nothing that was posted before the poller
\* started is published.
HistoryIsNotReplayed == \A t \in before : published[t] = 0
=============================================================================
