---------------------------- MODULE Interactions ----------------------------
(***************************************************************************)
(* What Fediverse accounts do to our statuses: the checks of a signed post *)
(* to the inbox (httpsig.go: verifyRequest; inbox.go: handleInbox), the    *)
(* translation of likes, boosts, replies, quotes and their undos into      *)
(* Warpnet events (inbound.go: translateInbound), and the goroutine that   *)
(* forwards the event to the network of the status's owner.                *)
(*                                                                         *)
(* A url is one of our statuses, [owner, id], or a foreign one, or none.   *)
(* Texts are told apart by where an "RE: <url>" stands in them.  Accounts  *)
(* go by one name here; FollowHandshake models how names are resolved.     *)
(***************************************************************************)
EXTENDS Integers, FiniteSets

CONSTANTS
  Accounts,    \* remote actors
  Acts,        \* activities they write
  MaxAccepted  \* activities forwarded in one behaviour

VARIABLES
  forwards,  \* events accepted and not yet carried out by the owner's node
  rows,      \* owner nodes: the reactions, retweets, quotes and replies stored
  accepted   \* number of events accepted so far, which names random ids

inVars == <<forwards, rows, accepted>>

Foreign == [owner |-> "foreign", id |-> "foreign"]
NoStatus == [owner |-> "none", id |-> "none"]

parseLocalStatus(url) == url \notin {Foreign, NoStatus}

InInit == forwards = {} /\ rows = {} /\ accepted = 0

------------------------------------------------------------------------------
(* The signed request *)

minSignedHeaders == {"(request-target)", "host", "date"}

SignedHeaders == {minSignedHeaders, minSignedHeaders \cup {"digest"}, {"date"}}

\* How a post can arrive.  A valid signature speaks for the headers it covers,
\* so an altered body disagrees with a covered digest.
Wires ==
  {w \in [signer : Accounts, headers : SignedHeaders, date : {"fresh", "stale", "missing"},
          digest : BOOLEAN, altered : BOOLEAN, key : BOOLEAN, valid : BOOLEAN] :
     w.altered /\ w.valid /\ "digest" \in w.headers => ~w.digest}

\* Faulty variant: the digest need neither be signed nor match.
verifyRequestAnyDigest(w) ==
  /\ minSignedHeaders \subseteq w.headers
  /\ w.date = "fresh"
  /\ w.key
  /\ w.valid

verifyRequest(w) ==
  /\ minSignedHeaders \subseteq w.headers
  /\ w.date = "fresh"
  /\ "digest" \in w.headers
  /\ w.digest
  /\ w.key
  /\ w.valid

\* handleInbox: the signer must be the actor the activity names.
Admits(w, act) == verifyRequest(w) /\ w.signer = act.actor

------------------------------------------------------------------------------
(* The translation *)

NotHandled == [route |-> "none"]

Event(route, url, by, key) == [route |-> route, user |-> url.owner, tweet |-> url.id, by |-> by, key |-> key]

\* The url of an "RE:" that closes a comment, and of one that opens the text.
splitREQuote(note) == IF note.re = "after" THEN note.reURL ELSE NoStatus

splitREPrefix(note) == IF note.re \in {"before", "alone"} THEN note.reURL ELSE NoStatus

\* A quote property, else a closing "RE:".
quotedNoteURL(note) == IF note.quote # NoStatus THEN note.quote ELSE splitREQuote(note)

\* Faulty variant: every delivery of a note gets a new id.
ingestedNoteIDRandom(note, token) == <<"token", token>>

\* The note's id, else its url, else a random token.
ingestedNoteID(note, token) ==
  IF note.id # "none" THEN <<"id", note.id>>
  ELSE IF note.url # "none" THEN <<"url", note.url>> ELSE <<"token", token>>

\* A reply by its inReplyTo, else a quote of one of ours, else a reply by an
\* "RE:" the text opens with.
translateCreate(act, token) ==
  LET note == act.note
      reply(parent) == Event("reply", parent, act.actor, ingestedNoteID(note, token))
      quoted == quotedNoteURL(note)
  IN IF parseLocalStatus(note.inReplyTo) THEN reply(note.inReplyTo)
     ELSE IF parseLocalStatus(quoted) THEN Event("quote", quoted, act.actor, <<"tweet", quoted.id>>)
     ELSE IF parseLocalStatus(splitREPrefix(note)) THEN reply(splitREPrefix(note))
     ELSE NotHandled

\* A Delete is acknowledged and not carried out; Follow is in FollowHandshake.
translateInbound(act, token) ==
  CASE act.type \in {"like", "announce", "undo-like", "undo-announce"} /\ parseLocalStatus(act.object)
         -> Event(act.type, act.object, act.actor, <<"tweet", act.object.id>>)
    [] act.type = "create" -> translateCreate(act, token)
    [] OTHER -> NotHandled

------------------------------------------------------------------------------
\* A post whose body was altered on the way names whatever it names: the ghost
\* `author` is who wrote the activity that is forwarded, nobody for such a one.
\* A post that is refused or not handled, a Delete too, leaves no trace.
Receive(w, act) ==
  /\ accepted < MaxAccepted
  /\ Admits(w, act)
  /\ LET event == translateInbound(act, accepted)
     IN /\ event # NotHandled
        /\ forwards' = forwards \cup
             {[event |-> event, act |-> act, n |-> accepted,
               author |-> IF w.altered THEN "nobody" ELSE w.signer]}
  /\ accepted' = accepted + 1
  /\ UNCHANGED rows

\* The goroutine's request to the owner's node: carried out or lost.  The node
\* keys a reply by its id under the tweet it replies to, whoever wrote it, and a
\* reaction or retweet by account and tweet.
Row(f) ==
  [kind |-> CASE f.event.route \in {"undo-like", "like"} -> "reaction"
              [] f.event.route = "undo-announce" -> "announce"
              [] OTHER -> f.event.route,
   node |-> f.event.user, tweet |-> f.event.tweet, by |-> f.event.by, key |-> f.event.key,
   act |-> f.act, author |-> f.author]

SameRow(r, s) ==
  /\ r.kind = s.kind /\ r.node = s.node /\ r.tweet = s.tweet /\ r.key = s.key
  /\ r.kind = "reply" \/ r.by = s.by

Forward(f) ==
  LET others == {r \in rows : ~SameRow(r, Row(f))}
  IN /\ f \in forwards
     /\ forwards' = forwards \ {f}
     /\ rows' = IF f.event.route \in {"undo-like", "undo-announce"} THEN others
                ELSE others \cup {Row(f)}
     /\ UNCHANGED accepted

Lose(f) ==
  /\ f \in forwards
  /\ forwards' = forwards \ {f}
  /\ UNCHANGED <<rows, accepted>>

InNext ==
  \/ \E w \in Wires, act \in Acts : Receive(w, act)
  \/ \E f \in forwards : Forward(f) \/ Lose(f)

------------------------------------------------------------------------------
(* Properties *)

Named(act) ==
  IF act.type # "create" THEN {act.object}
  ELSE {act.note.inReplyTo, act.note.quote, act.note.reURL}

\* Whatever an owner's node stores was written by the account it is booked to,
\* reached the gateway unaltered, and is about a status the activity names, in
\* the network of that status's owner (verifyRequest, handleInbox,
\* translateInbound).
RowsAreGenuine ==
  \A r \in rows :
    /\ r.by = r.author
    /\ [owner |-> r.node, id |-> r.tweet] \in Named(r.act)

\* A note that has an id or a url is stored as one reply however often and in
\* whatever order it is delivered (ingestedNoteID).
RepliesStoredOnce ==
  \A r, s \in rows :
    r.kind = "reply" /\ r.act = s.act /\ (r.act.note.id # "none" \/ r.act.note.url # "none")
      => r = s
=============================================================================
