------------------------------ MODULE ThreadWalk ------------------------------
(***************************************************************************)
(* Reading a thread or a timeline over ActivityPub (mastodon-bridge.go:    *)
(* apReplies, resolveReplyItems, resolveTimelineItems).  The pages of a    *)
(* collection are walked one after the other; the items of a page are      *)
(* resolved concurrently by a bounded pool, and come out in the order of   *)
(* the page.  An item is its <<page, index>>; what it says is left out.    *)
(***************************************************************************)
EXTENDS Integers, Sequences, FiniteSets, Selection

CONSTANTS
  MaxItems,    \* most items on a page
  MaxPages,    \* maxPages
  MaxReplies,  \* maxReplies
  Slots        \* maxConcurrent

VARIABLES
  walk,      \* where the walk is, the page it is on and the items taken of it
  spawned,   \* items of the page handed to the pool
  busy,      \* items being resolved
  good,      \* items that resolved to a tweet
  reply      \* the tweets collected so far

twVars == <<walk, spawned, busy, good, reply>>

Outside == [at |-> "idle", page |-> 0, items |-> 0]

TwInit ==
  /\ walk = Outside
  /\ spawned = 0
  /\ busy = {}
  /\ good = {}
  /\ reply = <<>>

Quiet == UNCHANGED <<spawned, busy, good, reply>>

Begin ==
  /\ walk.at = "idle"
  /\ walk' = [Outside EXCEPT !.at = "next"]
  /\ Quiet

\* The loop's condition, and a page that cannot be fetched or is not named.
Leave(more) ==
  /\ walk.at = "next"
  /\ ~more \/ walk.page = MaxPages \/ Len(reply) >= MaxReplies
  /\ walk' = [walk EXCEPT !.at = "done"]
  /\ Quiet

\* A page with n items; no more are taken than there is room for.
NextPage(n) ==
  LET room == MaxReplies - Len(reply)
  IN /\ walk.at = "next"
     /\ walk.page < MaxPages /\ Len(reply) < MaxReplies
     /\ walk' = [at |-> "page", page |-> walk.page + 1,
                 items |-> IF n > room THEN room ELSE n]
     /\ spawned' = 0
     /\ UNCHANGED <<busy, good, reply>>

Item(i) == <<walk.page, i>>

\* The goroutine of the next item starts when the pool has a slot.
Spawn ==
  /\ walk.at = "page" /\ spawned < walk.items
  /\ Cardinality(busy) < Slots
  /\ spawned' = spawned + 1
  /\ busy' = busy \cup {Item(spawned + 1)}
  /\ UNCHANGED <<walk, good, reply>>

\* A fetch, a mapping and a quoted author: it ends with a tweet or without.
Resolve(it, ok) ==
  /\ it \in busy
  /\ busy' = busy \ {it}
  /\ good' = IF ok THEN good \cup {it} ELSE good
  /\ UNCHANGED <<walk, spawned, reply>>

\* Faulty variant: the page is collected without waiting for its goroutines.
CollectEarly ==
  /\ walk.at = "page" /\ spawned = walk.items
  /\ reply' = reply \o Selected([i \in 1..walk.items |-> Item(i)], good)
  /\ walk' = [walk EXCEPT !.at = "next"]
  /\ UNCHANGED <<spawned, busy, good>>

\* After wg.Wait() the tweets are taken in the order of the page.
Collect ==
  /\ walk.at = "page" /\ spawned = walk.items /\ busy = {}
  /\ reply' = reply \o Selected([i \in 1..walk.items |-> Item(i)], good)
  /\ walk' = [walk EXCEPT !.at = "next"]
  /\ UNCHANGED <<spawned, busy, good>>

\* The response is returned and the next request begins.
Finish ==
  /\ walk.at = "done"
  /\ walk' = Outside
  /\ good' = {} /\ reply' = <<>> /\ spawned' = 0
  /\ UNCHANGED busy

TwNext ==
  \/ Begin \/ (\E more \in BOOLEAN : Leave(more)) \/ (\E n \in 0..MaxItems : NextPage(n))
  \/ Spawn \/ Collect \/ Finish
  \/ \E it \in busy, ok \in BOOLEAN : Resolve(it, ok)

------------------------------------------------------------------------------
Earlier(s, t) == s[1] < t[1] \/ (s[1] = t[1] /\ s[2] < t[2])

\* Whatever order the pool resolves the items in, a thread is returned in the
\* order of its pages with nothing twice, no longer than MaxReplies, and with
\* nothing left out that resolved; nothing is still being resolved when it is
\* returned (resolveReplyItems, resolveTimelineItems, apReplies).
ThreadInOrder ==
  /\ \A i, j \in DOMAIN reply : i < j => Earlier(reply[i], reply[j])
  /\ Len(reply) <= MaxReplies
  /\ walk.at = "done" => busy = {} /\ good = {reply[i] : i \in DOMAIN reply}
==============================================================================
