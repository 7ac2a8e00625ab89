---------------------------- MODULE BridgeWrites ----------------------------
(***************************************************************************)
(* What members write to the Fediverse through the gateway: the write      *)
(* routes of the libp2p server (nodeserver.go), the bridge operations      *)
(* behind them (mastodon-bridge.go: Reply, Delete, React, Announce,        *)
(* Follow), signed posts with retries (server.go: postSigned), and the     *)
(* status document the remote server reads back (notes.go: serveStatus).   *)
(*                                                                         *)
(* A member may send an event again while or after it was worked on; a     *)
(* post may be carried out and its answer lost, and is then posted again.  *)
(* The remote server drops activities whose id it has seen, removes what a *)
(* tombstone names, and stores what it dereferences under its id.          *)
(***************************************************************************)
EXTENDS Integers, Sequences

CONSTANTS
  Script,      \* the events members may send
  MaxEvents,   \* events sent in one behaviour
  MaxPosts     \* attempts of the retrier

VARIABLES
  op,       \* the events received, in order, and how far each was handled
  node,     \* replies the member's node holds, as <<note id, parent>>
  seen,     \* remote: ids of the activities it has carried out
  shown,    \* remote: notes it shows; `of` is a ghost naming the reply
  removed   \* ghost: replies whose Delete was carried out after their Create

bwVars == <<op, node, seen, shown, removed>>

NoUrl == "none"
NoId == ""

BwInit ==
  /\ op = <<>>
  /\ node = {}
  /\ seen = {}
  /\ shown = {}
  /\ removed = {}

------------------------------------------------------------------------------
(* The activities the bridge builds *)

\* The parent is the event's own, or the thread's root.
ParentURL(ev) == IF ev.parent # NoUrl THEN ev.parent ELSE ev.root

\* randomToken(): what no other event has, here the index of the event.
Token(i) == <<NoId, i>>

\* A note goes by the id of the member's event, so that a second event for the
\* same reply names the same note; without one it gets an id of its own.
StatusID(id) == <<id, 0>>
NoteID(ev, i) == IF ev.id = NoId THEN Token(i) ELSE StatusID(ev.id)

\* The note's url carries the parent.
ReplyURL(ev, i) == <<NoteID(ev, i), ParentURL(ev)>>

\* Faulty variant: the tombstone always names the root, not the reply's parent.
TombstoneURLOfRoot(ev, i) == <<StatusID(ev.id), ev.root>>

TombstoneURL(ev, i) == <<StatusID(ev.id), ParentURL(ev)>>

\* Creates and Deletes go by their note, likes, boosts and follows by a token.
ActivityID(ev, i) ==
  CASE ev.type = "reply" -> <<"create", NoteID(ev, i)>>
    [] ev.type = "delete" -> <<"delete", StatusID(ev.id)>>
    [] OTHER -> <<ev.type, Token(i)>>

\* Handlers that answer without posting anything: an emoji the Fediverse has no
\* favourite for, the deletion of a top-level tweet, and a new tweet, whose
\* fan-out is in Delivery.
Dropped(ev) ==
  \/ ev.type = "react" /\ ev.emoji # "heart"
  \/ ev.type = "delete" /\ ev.parent = NoUrl /\ ev.root = NoUrl
  \/ ev.type = "tweet"

\* Where the route's handler goes first.
Dispatched(ev) == IF Dropped(ev) THEN "ok" ELSE "resolve"

------------------------------------------------------------------------------
(* The remote server *)

Carried(ev, i) ==
  IF ActivityID(ev, i) \in seen
  THEN UNCHANGED <<seen, shown, removed>>
  ELSE /\ seen' = seen \cup {ActivityID(ev, i)}
       /\ shown' = CASE ev.type = "reply" -> shown \cup {[url |-> ReplyURL(ev, i), of |-> NoteID(ev, i)]}
                     [] ev.type = "delete" -> {n \in shown : n.url # TombstoneURL(ev, i)}
                     [] OTHER -> shown
       /\ removed' = IF ev.type = "delete" /\ \E n \in shown : n.of = StatusID(ev.id)
                     THEN removed \cup {StatusID(ev.id)} ELSE removed

NotCarried == UNCHANGED <<seen, shown, removed>>

\* serveStatus: the id of the note served is made of the id of the tweet found
\* and of the parent in the url that was asked for.
ServedURL(reply, url) == <<reply[1], url[2]>>

\* The node looks a reply up by its id under its parent.
Dereference(n) ==
  /\ n \in shown
  /\ \E reply \in node :
       /\ reply[1] = n.url[1] /\ reply[2] = n.url[2]
       /\ shown' = shown \cup {[url |-> ServedURL(reply, n.url), of |-> n.of]}
  /\ UNCHANGED <<op, node, seen, removed>>

------------------------------------------------------------------------------
(* The libp2p server *)

\* streamHandler and wrapJSON: an envelope that cannot be read or verified gets
\* no answer, and a body that does not decode an error.  A member deletes a
\* reply only after it made it.
Send(ev) ==
  /\ Len(op) < MaxEvents
  /\ ev.type = "delete" /\ ~Dropped(ev) =>
       \E i \in DOMAIN op : op[i].ev.type = "reply" /\ op[i].ev.id = ev.id
  /\ node' = CASE /\ ev.type = "reply" /\ ev.id # NoId
                  /\ ~\E i \in DOMAIN op : op[i].ev.id = ev.id
                 -> node \cup {<<StatusID(ev.id), ParentURL(ev)>>}
               [] ev.type = "delete" -> node \ {<<StatusID(ev.id), ParentURL(ev)>>}
               [] OTHER -> node
  /\ \E good \in BOOLEAN :
       op' = Append(op, [ev |-> ev, posts |-> 0,
                         at |-> IF good THEN Dispatched(ev) ELSE "refused"])
  /\ NotCarried

At(i, where) == op[i].at = where

Goes(i, where) == op' = [op EXCEPT ![i].at = where]

\* authorInbox or resolveHandle: the note and its author's inbox are fetched.
Resolve(i) ==
  /\ At(i, "resolve")
  /\ \E found \in BOOLEAN : Goes(i, IF found THEN "post" ELSE "error")
  /\ UNCHANGED node
  /\ NotCarried

\* What the member is told of a delivery that failed: Follow hands its activity
\* to deliverFollow, which only logs it.
Failed(i) == Goes(i, IF op[i].ev.type = "follow" THEN "ok" ELSE "error")

\* Faulty variant: the last failed attempt is reported as a success.
PostAgainThenOk(i) ==
  IF op[i].posts + 1 < MaxPosts THEN op' = [op EXCEPT ![i].posts = @ + 1] ELSE Goes(i, "ok")

\* sendRetry: another attempt, with the same body, while there is one left.
PostAgain(i) ==
  IF op[i].posts + 1 < MaxPosts THEN op' = [op EXCEPT ![i].posts = @ + 1] ELSE Failed(i)

Accepted(i) ==
  /\ At(i, "post")
  /\ Carried(op[i].ev, i)
  /\ Goes(i, "ok")
  /\ UNCHANGED node

AnswerLost(i) ==
  /\ At(i, "post")
  /\ Carried(op[i].ev, i)
  /\ PostAgain(i)
  /\ UNCHANGED node

NotReached(i) ==
  /\ At(i, "post")
  /\ PostAgain(i)
  /\ UNCHANGED node
  /\ NotCarried

\* A status that is not retried, or a request that cannot be built.
Rejected(i) ==
  /\ At(i, "post")
  /\ Failed(i)
  /\ UNCHANGED node
  /\ NotCarried

postSigned(i) == Accepted(i) \/ AnswerLost(i) \/ NotReached(i) \/ Rejected(i)

BwNext ==
  \/ \E ev \in Script : Send(ev)
  \/ \E i \in DOMAIN op : Resolve(i) \/ postSigned(i)
  \/ \E n \in shown : Dereference(n)

------------------------------------------------------------------------------
(* Properties *)

\* The remote server shows a reply at most once, however often its event, its
\* post or its document is repeated, and never again once a Delete of it was
\* carried out after its Create (Reply, Delete, serveStatus name one note).  Each
\* event without an id is a reply of its own.
RepliesMirrored ==
  /\ \A m, n \in shown : m.of = n.of => m = n
  /\ \A n \in shown : n.of \notin removed

\* A member is told that its write succeeded only when the remote server has
\* carried it out, whatever was lost and retried on the way; exempt are what
\* the gateway drops on purpose and Follow (postSigned, streamHandler).
SuccessIsDelivered ==
  \A i \in DOMAIN op :
    At(i, "ok") /\ ~Dropped(op[i].ev) /\ op[i].ev.type # "follow"
      => ActivityID(op[i].ev, i) \in seen
=============================================================================
