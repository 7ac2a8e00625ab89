-------------------------- MODULE FollowHandshake --------------------------
(***************************************************************************)
(* How a remote account becomes, and stops being, a follower of a local    *)
(* user (inbox.go, inbound.go, nodefollowers.go).                          *)
(*                                                                         *)
(* The remote server posts Follow and Undo(Follow) to the inbox.  A Follow *)
(* is answered 202 at once and completed by a goroutine of its own: the    *)
(* signed Accept, then the follower stored on the owner's node, then the   *)
(* user handed to the federation.  An Undo is translated in the handler,   *)
(* answered, and forwarded by another goroutine.  Nothing orders the two.  *)
(*                                                                         *)
(* The n-th activity of an account is a Follow when n is odd and its Undo  *)
(* when n is even.  Each POST of it that reaches the handler is a job.     *)
(***************************************************************************)
EXTENDS Naturals, FiniteSets

CONSTANTS
  Actor,                  \* remote accounts
  Opaque,                 \* those whose url hides their handle behind an id
  MaxSends,               \* activities an account sends
  MaxTries                \* POSTs of one activity that reach the handler

ASSUME ActorAssumption == Opaque \subseteq Actor /\ IsFiniteSet(Actor)
ASSUME BoundAssumption == MaxSends \in Nat /\ MaxTries \in Nat

VARIABLES
  sent,                   \* activities the account has sent
  outbox,                 \* <<a, n>>: the remote still has no answer for it
  at,                     \* where each job stands
  name,                   \* the id a job resolved its account to
  stored,                 \* <<a, id>>: the follower graph on the owner's node
  accepted,               \* <<a, n>>: the remote has the Accept of this Follow
  announced,              \* the federation was told the user has a follower
  mishaps                 \* what went wrong so far for the account (history)

vars == <<sent, outbox, at, name, stored, accepted, announced, mishaps>>

Message == Actor \X (1..MaxSends)
Job == Actor \X (1..MaxSends) \X (1..MaxTries)
IsFollow(n) == n % 2 = 1

Live == {"resolve", "deliver", "identify", "persist", "forward", "notify"}
Stage == Live \cup {"none", "ended"}
Mishap == {"lost", "overlap", "reordered", "name", "error"}

Running(a) == {j \in Job : j[1] = a /\ at[j] \in Live}
Received(a) == {j \in Job : j[1] = a /\ at[j] # "none"}
Followers(a) == {f \in stored : f[1] = a}
Quiet(a) == Running(a) = {} /\ ~ \E n \in 1..MaxSends : <<a, n>> \in outbox

\* canonicalHandle: the account's handle, or for an opaque url whose document
\* cannot be fetched the "id@host" read off the url.
Names(a) == IF a \in Opaque THEN {"handle", "naive"} ELSE {"handle"}

TypeOK ==
  /\ sent \in [Actor -> 0..MaxSends]
  /\ outbox \in SUBSET Message
  /\ at \in [Job -> Stage]
  /\ name \in [Job -> {"unknown", "handle", "naive"}]
  /\ stored \in SUBSET (Actor \X {"handle", "naive"})
  /\ accepted \in SUBSET Message
  /\ announced \in BOOLEAN
  /\ mishaps \in [Actor -> SUBSET Mishap]

Init ==
  /\ sent = [a \in Actor |-> 0]
  /\ outbox = {}
  /\ at = [j \in Job |-> "none"]
  /\ name = [j \in Job |-> "unknown"]
  /\ stored = {}
  /\ accepted = {}
  /\ announced = FALSE
  /\ mishaps = [a \in Actor |-> {}]

Note(a, what) == mishaps' = [mishaps EXCEPT ![a] = @ \cup what]
MoveTo(j, stage) == at' = [at EXCEPT ![j] = stage]
Forget(j) == name' = [name EXCEPT ![j] = "unknown"]

-----------------------------------------------------------------------------
(* The remote server. *)

Send(a) ==
  /\ sent[a] < MaxSends
  /\ sent' = [sent EXCEPT ![a] = @ + 1]
  /\ outbox' = outbox \cup {<<a, sent[a] + 1>>}
  /\ UNCHANGED <<at, name, stored, accepted, announced, mishaps>>

\* It stops retrying: its own limit, or a 4xx answer (a signature that could
\* not be verified, a local user the source could not look up).
GiveUp(m) ==
  /\ m \in outbox
  /\ outbox' = outbox \ {m}
  /\ Note(m[1], {"lost"})
  /\ UNCHANGED <<sent, at, name, stored, accepted, announced>>

\* The answer to a POST reaches the remote, or is lost and it will post again.
Answer(m) == outbox' \in {outbox, outbox \ {m}}

-----------------------------------------------------------------------------
(* handleInbox. *)

\* What the arrival of activity n reveals about the ones before it.
Arrival(a, n) ==
  (IF Running(a) # {} THEN {"overlap"} ELSE {}) \cup
  (IF \E j \in Received(a) : j[2] > n THEN {"reordered"} ELSE {})

NextTry(j) ==
  /\ at[j] = "none"
  /\ \A k \in 1..(j[3] - 1) : at[<<j[1], j[2], k>>] # "none"

\* A slot of the delivery pool is free: 202, and a goroutine for the Accept.
ReceiveFollow(j) ==
  /\ <<j[1], j[2]>> \in outbox /\ NextTry(j)
  /\ IsFollow(j[2])
  /\ MoveTo(j, "deliver")
  /\ Answer(<<j[1], j[2]>>)
  /\ Note(j[1], Arrival(j[1], j[2]))
  /\ UNCHANGED <<sent, name, stored, accepted, announced>>

\* translateInbound runs in the handler, before the answer.
ReceiveUndo(j) ==
  /\ <<j[1], j[2]>> \in outbox /\ NextTry(j)
  /\ ~ IsFollow(j[2])
  /\ MoveTo(j, "resolve")
  /\ Note(j[1], Arrival(j[1], j[2]))
  /\ UNCHANGED <<sent, outbox, name, stored, accepted, announced>>

\* The pool is full: 503, and the remote keeps the activity to retry.  (For a
\* Follow the pool is the first thing tried, and a refusal changes nothing.)
Busy(j) ==
  /\ at[j] = "resolve"
  /\ MoveTo(j, "ended")
  /\ UNCHANGED <<sent, outbox, name, stored, accepted, announced, mishaps>>

Resolve(j, next) ==
  \E id \in Names(j[1]) :
    /\ name' = [name EXCEPT ![j] = id]
    /\ Note(j[1], IF id = "naive" THEN {"name"} ELSE {})
    /\ MoveTo(j, next)

\* bridgedUser names the follower, a slot is free: 202, forwarded in background.
AdmitUndo(j) ==
  /\ at[j] = "resolve"
  /\ Resolve(j, "forward")
  /\ Answer(<<j[1], j[2]>>)
  /\ UNCHANGED <<sent, stored, accepted, announced>>

\* Faulty variant: the local user is taken for the follower.
ForwardUndoSwapped(j) ==
  /\ at[j] = "forward"
  /\ MoveTo(j, "ended")
  /\ Forget(j)
  /\ UNCHANGED <<sent, outbox, stored, accepted, announced, mishaps>>

\* requestForUser and nodeResponseError: an error may hide a write that was made.
ForwardUndo(j) ==
  /\ at[j] = "forward"
  /\ MoveTo(j, "ended")
  /\ Forget(j)
  /\ \/ stored' = stored \ {<<j[1], name[j]>>} /\ UNCHANGED mishaps
     \/ stored' \in {stored, stored \ {<<j[1], name[j]>>}} /\ Note(j[1], {"error"})
  /\ UNCHANGED <<sent, outbox, accepted, announced>>

-----------------------------------------------------------------------------
(* acceptFollow. *)

\* The inbox is resolved and the Accept posted.
DeliverAccept(j) ==
  /\ at[j] = "deliver"
  /\ accepted' = accepted \cup {<<j[1], j[2]>>}
  /\ MoveTo(j, "identify")
  /\ UNCHANGED <<sent, outbox, name, stored, announced, mishaps>>

\* Faulty variant: a failed delivery is only logged.
FailAcceptAndGoOn(j) ==
  /\ at[j] = "deliver"
  /\ accepted' \in {accepted, accepted \cup {<<j[1], j[2]>>}}
  /\ Note(j[1], {"error"})
  /\ MoveTo(j, "identify")
  /\ UNCHANGED <<sent, outbox, name, stored, announced>>

\* The inbox is unknown, or the last attempt failed; the remote may still have
\* taken an Accept whose answer did not come back.
FailAccept(j) ==
  /\ at[j] = "deliver"
  /\ accepted' \in {accepted, accepted \cup {<<j[1], j[2]>>}}
  /\ Note(j[1], {"error"})
  /\ MoveTo(j, "ended")
  /\ UNCHANGED <<sent, outbox, name, stored, announced>>

\* followerID.
Identify(j) ==
  /\ at[j] = "identify"
  /\ Resolve(j, "persist")
  /\ UNCHANGED <<sent, outbox, stored, accepted, announced>>

\* Faulty variant: the goroutine returns when the follower is not stored.
PersistOrReturn(j) ==
  /\ at[j] = "persist"
  /\ \/ /\ stored' = stored \cup {<<j[1], name[j]>>}
        /\ MoveTo(j, "notify")
        /\ UNCHANGED <<name, mishaps>>
     \/ /\ Note(j[1], {"error"})
        /\ MoveTo(j, "ended")
        /\ Forget(j)
        /\ UNCHANGED stored
  /\ UNCHANGED <<sent, outbox, accepted, announced>>

\* followers.Add; a failure is logged and the goroutine goes on.
Persist(j) ==
  /\ at[j] = "persist"
  /\ MoveTo(j, "notify")
  /\ \/ stored' = stored \cup {<<j[1], name[j]>>} /\ UNCHANGED mishaps
     \/ stored' \in {stored, stored \cup {<<j[1], name[j]>>}} /\ Note(j[1], {"error"})
  /\ UNCHANGED <<sent, outbox, name, accepted, announced>>

\* onFollowed: the user's federation starts.
Notify(j) ==
  /\ at[j] = "notify"
  /\ announced' = TRUE
  /\ MoveTo(j, "ended")
  /\ Forget(j)
  /\ UNCHANGED <<sent, outbox, stored, accepted, mishaps>>

-----------------------------------------------------------------------------
Work(j) ==
  \/ AdmitUndo(j) \/ ForwardUndo(j)
  \/ DeliverAccept(j) \/ FailAccept(j) \/ Identify(j) \/ Persist(j) \/ Notify(j)

Next ==
  \/ \E a \in Actor : Send(a)
  \/ \E m \in Message : GiveUp(m)
  \/ \E j \in Job : ReceiveFollow(j) \/ ReceiveUndo(j) \/ Busy(j) \/ Work(j)

Spec == Init /\ [][Next]_vars

\* Every call a goroutine makes is bounded by a timeout, so each goes on.
FairSpec == Spec /\ \A j \in Job : WF_vars(Work(j))

-----------------------------------------------------------------------------
(* Properties. *)

\* An account is in the follower graph only after the remote server has an
\* Accept for one of its Follows (acceptFollow posts before it adds): nobody
\* is delivered to who was not told that the follow stands.
FollowersWereAccepted ==
  /\ TypeOK
  /\ \A f \in stored : \E n \in 1..MaxSends : <<f[1], n>> \in accepted

\* Once the exchange with an account is over, the follower graph says what the
\* account last asked for, under exactly one id, unless an activity was lost,
\* one overtook or overlapped another, an opaque name could not be looked up,
\* or a call failed.  Retried POSTs of an activity already handled do no harm.
GraphMatchesRemote ==
  \A a \in Actor :
    Quiet(a) /\ mishaps[a] = {} =>
      Cardinality(Followers(a)) = IF IsFollow(sent[a]) THEN 1 ELSE 0

\* A Follow whose Accept was delivered ends with the user federated, whether
\* or not the follower could be stored (acceptFollow logs that error and goes
\* on to onFollowed).
AcceptedIsFederated ==
  \A j \in Job : at[j] = "identify" ~> announced

\* outbound.go:266: a user's federation "stops when a user's last Fediverse
\* follower unfollows".  With nothing lost, reordered, failed or misnamed, an
\* account whose last activity was an Undo is no longer stored.
UndoIsHonoured ==
  \A a \in Actor :
    Quiet(a) /\ mishaps[a] \subseteq {"overlap"} /\ ~ IsFollow(sent[a]) =>
      Followers(a) = {}
=============================================================================
