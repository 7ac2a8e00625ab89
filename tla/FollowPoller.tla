---------------------------- MODULE FollowPoller ----------------------------
(***************************************************************************)
(* The follow poller of one federated user (outbound.go): it compares the  *)
(* Fediverse accounts on the page of followings it reads with those of its *)
(* last poll, and sends signed Follow and Undo(Follow) activities for the  *)
(* difference.                                                             *)
(*                                                                         *)
(* The poller asks for one page, without a cursor, and ignores the one it  *)
(* is answered with.  An account enters that page when the owner follows   *)
(* it, and leaves it when the owner unfollows it or when newer followings  *)
(* push it off, which look the same to the poller.  Only bridged accounts  *)
(* are modelled; the poller skips the others.  An account resolves when    *)
(* its WebFinger lookup answers (or is cached).  While the owner node does *)
(* not answer, a poll fails or reads what another member happens to hold.  *)
(* Activities are delivered at best once: a delivery that fails is only    *)
(* logged.                                                                 *)
(***************************************************************************)
EXTENDS FiniteSets

CONSTANT Actor

VARIABLES
  followPhase,            \* "waiting", "sending" (inside a poll) or "stopped"
  followCancelled,        \* ctx.Done() is closed
  ownerUp,                \* the owner node answers GET_FOLLOWINGS itself
  resolvable,             \* accounts whose actor url can be resolved now
  listed,                 \* accounts on the first page of the followings
  baseline,               \* known is not nil: a first poll has completed
  known,                  \* accounts resolved by the last poll that counted
  current,                \* accounts resolved by the poll in progress
  toFollow, toUndo,       \* activities this poll has yet to send
  read,                   \* history: the followings the last poll was given
  sent                    \* history: the last activity sent to each account

followVars == <<followPhase, followCancelled, ownerUp, resolvable, listed, baseline, known,
                current, toFollow, toUndo, read, sent>>

world == <<ownerUp, resolvable, listed>>
poll == <<current, toFollow, toUndo>>

FollowTypeOK ==
  /\ followPhase \in {"waiting", "sending", "stopped"}
  /\ followCancelled \in BOOLEAN
  /\ baseline \in BOOLEAN
  /\ ownerUp \in BOOLEAN
  /\ resolvable \in SUBSET Actor
  /\ listed \in SUBSET Actor
  /\ known \in SUBSET Actor
  /\ current \in SUBSET read
  /\ toFollow \in SUBSET (current \ known)
  /\ toUndo \in SUBSET (known \ current)
  /\ read \in SUBSET Actor
  /\ sent \in [Actor -> {"none", "follow", "undo"}]

FollowInit ==
  /\ followPhase = "waiting"
  /\ followCancelled = FALSE
  /\ ownerUp \in BOOLEAN
  /\ resolvable \in SUBSET Actor
  /\ listed \in SUBSET Actor
  /\ baseline = FALSE
  /\ known = {}
  /\ current = {}
  /\ toFollow = {}
  /\ toUndo = {}
  /\ read = {}
  /\ sent = [a \in Actor |-> "none"]

-----------------------------------------------------------------------------
(* One poll.  The first one runs at once, the others when the ticker fires;   *)
(* a pending tick and ctx.Done() are chosen between at random.                *)

\* What GET_FOLLOWINGS may answer, on its first page.  A request that fails, and an error envelope,
\* leave the poller as it was: a step that changes nothing.
Answers == IF ownerUp THEN {listed} ELSE SUBSET listed

Resolved(got) == got \cap resolvable

\* The first answer is recorded and nothing is sent.
PollBaseline ==
  /\ followPhase = "waiting"
  /\ ~baseline
  /\ read' \in Answers
  /\ baseline' = TRUE
  /\ known' = Resolved(read')
  /\ UNCHANGED <<followPhase, followCancelled, sent, world>>
  /\ current' = {}
  /\ toFollow' = {}
  /\ toUndo' = {}

\* "followings went empty": leave everything as it is.
PollSkips ==
  /\ followPhase = "waiting"
  /\ baseline
  /\ read' \in Answers
  /\ Resolved(read') = {}
  /\ known # {}
  /\ current' = {}
  /\ UNCHANGED <<followPhase, followCancelled, baseline, known, toFollow, toUndo,
                 sent, world>>

PollCompares ==
  /\ followPhase = "waiting"
  /\ baseline
  /\ read' \in Answers
  /\ current' = Resolved(read')
  /\ current' # {} \/ known = {}
  /\ toFollow' = current' \ known
  /\ toUndo' = known \ current'
  /\ followPhase' = "sending"
  /\ UNCHANGED <<followCancelled, baseline, known, sent, world>>

\* deliverFollow resolves the inbox and posts.  A delivery that fails is logged
\* and counts as sent: the poller never learns of it.
SendFollow(a) ==
  /\ followPhase = "sending"
  /\ a \in toFollow
  /\ toFollow' = toFollow \ {a}
  /\ sent' = [sent EXCEPT ![a] = "follow"]
  /\ UNCHANGED <<followPhase, followCancelled, baseline, known, current, toUndo, read, world>>

SendUndo(a) ==
  /\ followPhase = "sending"
  /\ toFollow = {}
  /\ a \in toUndo
  /\ toUndo' = toUndo \ {a}
  /\ sent' = [sent EXCEPT ![a] = "undo"]
  /\ UNCHANGED <<followPhase, followCancelled, baseline, known, current, toFollow, read,
                 world>>

\* Faulty variants: the poll forgets to record what it saw; it records
\* additions only.
FollowEndPollForgetting ==
  /\ followPhase = "sending"
  /\ toFollow = {} /\ toUndo = {}
  /\ followPhase' = "waiting"
  /\ UNCHANGED <<followCancelled, baseline, known, poll, read, sent, world>>

FollowEndPollAdding ==
  /\ followPhase = "sending"
  /\ toFollow = {} /\ toUndo = {}
  /\ followPhase' = "waiting"
  /\ known' = known \cup current
  /\ UNCHANGED <<followCancelled, baseline, poll, read, sent, world>>

FollowEndPoll ==
  /\ followPhase = "sending"
  /\ toFollow = {} /\ toUndo = {}
  /\ followPhase' = "waiting"
  /\ known' = current
  /\ UNCHANGED <<followCancelled, baseline, poll, read, sent, world>>

FollowStop ==
  /\ followPhase = "waiting"
  /\ followCancelled
  /\ followPhase' = "stopped"
  /\ UNCHANGED <<followCancelled, baseline, known, poll, read, sent, world>>

\* Federation of the user resumes, or the gateway restarts: a new poller that
\* knows nothing.
NewPoller ==
  /\ followPhase = "stopped"
  /\ followPhase' = "waiting"
  /\ followCancelled' = FALSE
  /\ baseline' = FALSE
  /\ known' = {}
  /\ current' = {}
  /\ toFollow' = {}
  /\ toUndo' = {}
  /\ read' = {}
  /\ sent' = [a \in Actor |-> "none"]
  /\ UNCHANGED <<ownerUp, resolvable, listed>>

PollStarts == PollBaseline \/ PollSkips \/ PollCompares

FollowLoop ==
  \/ PollStarts
  \/ \E a \in Actor : SendFollow(a) \/ SendUndo(a)
  \/ FollowEndPoll
  \/ FollowStop

-----------------------------------------------------------------------------
(* The owner and the network. *)

\* The owner follows an account, or the end of a newer following makes room for it.
Enter(a) ==
  /\ a \notin listed
  /\ listed' = listed \cup {a}
  /\ UNCHANGED <<followPhase, followCancelled, ownerUp, resolvable, baseline, known, poll,
                 read, sent>>

\* The owner unfollows an account, or newer followings push it off the page.
Leave(a) ==
  /\ a \in listed
  /\ listed' = listed \ {a}
  /\ UNCHANGED <<followPhase, followCancelled, ownerUp, resolvable, baseline, known, poll,
                 read, sent>>

OwnerNode ==
  /\ ownerUp' = ~ownerUp
  /\ UNCHANGED <<followPhase, followCancelled, resolvable, listed, baseline, known, poll,
                 read, sent>>

Instance(a) ==
  /\ resolvable' = IF a \in resolvable THEN resolvable \ {a}
                   ELSE resolvable \cup {a}
  /\ UNCHANGED <<followPhase, followCancelled, ownerUp, listed, baseline, known, poll,
                 read, sent>>

FollowCancel ==
  /\ ~followCancelled
  /\ followCancelled' = TRUE
  /\ UNCHANGED <<followPhase, baseline, known, poll, read, sent, world>>

FollowNext ==
  \/ FollowLoop
  \/ NewPoller
  \/ \E a \in Actor : Enter(a) \/ Leave(a) \/ Instance(a)
  \/ OwnerNode
  \/ FollowCancel

FollowSpec == FollowInit /\ [][FollowNext]_followVars

\* The poller's goroutine is scheduled and its ticker keeps firing.
FollowFairSpec == FollowSpec /\ WF_followVars(FollowLoop)

-----------------------------------------------------------------------------
(* Correctness. *)

\* Sending is exact: when a poll is over, the last activity sent to each account
\* agrees with what the poller now knows.
KnownMatchesSent ==
  /\ FollowTypeOK
  /\ followPhase = "waiting" =>
       \A a \in Actor :
         /\ sent[a] = "follow" => a \in known
         /\ sent[a] = "undo" => a \notin known

\* Under a stable network and a stable, non-empty page of followings the poller
\* comes to know exactly that page, with nothing left to send.
Stable(F) == ownerUp /\ resolvable = Actor /\ listed = F /\ ~followCancelled
Converges ==
  \A F \in (SUBSET Actor) \ {{}} :
    <>[]Stable(F) => <>[](baseline /\ known = F /\ toFollow = {} /\ toUndo = {})

\* "An unresolvable following must be skipped, not treated as an unfollow."
\* (tweetpoller_test.go:167): an Undo is never sent to an account that the
\* reading still lists among the owner's followings.
UnresolvableIsNotUnfollowed ==
  [][\A a \in Actor : a \in toUndo \ toUndo' => a \notin read]_followVars
=============================================================================
