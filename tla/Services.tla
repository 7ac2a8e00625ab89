------------------------------ MODULE Services ------------------------------
(***************************************************************************)
(* The gateway's smaller parts, which share no state.  A behaviour works   *)
(* on one of them while the others rest in their initial state, so that    *)
(* the state spaces add up instead of multiplying.                         *)
(***************************************************************************)
EXTENDS Integers, Sequences

CONSTANTS
  Callers, MaxTries, CacheTTL,                \* SignedGet
  Script, MaxEvents, MaxPosts,                \* BridgeWrites
  Accounts, Acts, MaxAccepted,                \* Interactions
  Members, Relays, Self, MaxCandidates,       \* Directory
  MaxItems, ThreadPages, MaxReplies, Slots,   \* ThreadWalk
  MaxFollowers, PageSize, ListPages,          \* FollowerList
  DirectoryLimit, Width,                      \* WhoToFollow
  Texts, Networks, RingSize,                  \* LogRing
  MaxKeys                                     \* KeyFile

ASSUME GetAssumption == CacheTTL \in Nat

\* A reply's Delete, and a repetition of its event, name the parent and the root
\* that the reply has on its member's node.  An event without an id has none.
ASSUME ScriptAssumption ==
  /\ \A ev \in Script : ev.type \in {"reply", "delete", "tweet", "react", "unreact",
                                     "announce", "follow"}
  /\ \A ev, other \in Script :
       {ev.type, other.type} \subseteq {"reply", "delete"} /\ ev.id = other.id /\ ev.id # "" =>
         ev.parent = other.parent /\ ev.root = other.root

\* Urls are statuses of ours or one of the two that stand for all others.
IsStatus(url) == url = [owner |-> url.owner, id |-> url.id]
ASSUME ActsAssumption ==
  \A act \in Acts :
    IF act.type = "create"
    THEN /\ IsStatus(act.note.inReplyTo)
         /\ IsStatus(act.note.quote)
         /\ IsStatus(act.note.reURL)
    ELSE IsStatus(act.object)

\* A member is a peer that is neither a relay nor the gateway itself.
ASSUME CandidatesAssumption ==
  Members \cap (Relays \cup {Self}) = {} /\ MaxCandidates \in Nat

ASSUME ThreadAssumption == MaxItems \in Nat /\ MaxReplies \in Nat
ASSUME ListAssumption == PageSize \in Nat \ {0} /\ ListPages \in Nat
ASSUME CursorAssumption == DirectoryLimit \in Nat /\ Width \in Nat \ {0}
ASSUME RingAssumption == RingSize \in Nat \ {0}

VARIABLES
  part,                               \* the part this behaviour explores
  call, flight, cache, sinceFetch,    \* SignedGet
  op, node, seen, shown, removed,     \* BridgeWrites
  forwards, rows, accepted,           \* Interactions
  good, table, throttled, request,    \* Directory
  page, spawned, busy, resolved, reply, \* ThreadWalk
  graph, walk,                        \* FollowerList
  offset, cached,                     \* WhoToFollow
  buf, next, full, recent,            \* LogRing
  file, process, key, generated, published \* KeyFile

G == INSTANCE SignedGet
B == INSTANCE BridgeWrites
I == INSTANCE Interactions
D == INSTANCE Directory
T == INSTANCE ThreadWalk WITH MaxPages <- ThreadPages, walk <- page, good <- resolved
F == INSTANCE FollowerList WITH MaxPages <- ListPages
W == INSTANCE WhoToFollow
L == INSTANCE LogRing
K == INSTANCE KeyFile

------------------------------------------------------------------------------
vars == <<part, G!getVars, B!bwVars, I!inVars, D!dirmVars, T!twVars, F!listVars, W!dirVars,
          L!ringVars, K!keyVars>>

Init ==
  /\ part \in {"get", "write", "inbox", "directory", "thread", "list", "who", "ring", "key"}
  /\ G!GetInit /\ B!BwInit /\ I!InInit /\ D!DirectoryInit /\ T!TwInit /\ F!ListInit
  /\ W!DirInit /\ L!RingInit /\ K!KeyInit

\* The parts other than p rest.
Only(p) ==
  /\ part = p
  /\ UNCHANGED part
  /\ IF p = "get" THEN TRUE ELSE UNCHANGED <<call, flight, cache, sinceFetch>>
  /\ IF p = "write" THEN TRUE ELSE UNCHANGED <<op, node, seen, shown, removed>>
  /\ IF p = "inbox" THEN TRUE ELSE UNCHANGED <<forwards, rows, accepted>>
  /\ IF p = "directory" THEN TRUE ELSE UNCHANGED <<good, table, throttled, request>>
  /\ IF p = "thread" THEN TRUE ELSE UNCHANGED <<page, spawned, busy, resolved, reply>>
  /\ IF p = "list" THEN TRUE ELSE UNCHANGED <<graph, walk>>
  /\ IF p = "who" THEN TRUE ELSE UNCHANGED <<offset, cached>>
  /\ IF p = "ring" THEN TRUE ELSE UNCHANGED <<buf, next, full, recent>>
  /\ IF p = "key" THEN TRUE ELSE UNCHANGED <<file, process, key, generated, published>>

Next ==
  \/ Only("get") /\ G!GetNext
  \/ Only("write") /\ B!BwNext
  \/ Only("inbox") /\ I!InNext
  \/ Only("directory") /\ D!DirectoryNext
  \/ Only("thread") /\ T!TwNext
  \/ Only("list") /\ F!ListNext
  \/ Only("who") /\ W!DirNext
  \/ Only("ring") /\ L!RingNext
  \/ Only("key") /\ K!KeyNext

Spec == Init /\ [][Next]_vars

------------------------------------------------------------------------------
(* The parts' properties *)

\* A url is fetched once per cache window, and never served after it (signedGet).
OneFetchPerWindow == G!OneFetchPerWindow

\* A member's reply is shown once, and not after its Delete (Reply, Delete).
RepliesMirrored == B!RepliesMirrored

\* A write reported as done was carried out remotely (postSigned).
SuccessIsDelivered == B!SuccessIsDelivered

\* What an owner's node stores was written by the account it is booked to and is
\* about the status it names (verifyRequest, handleInbox, translateInbound).
RowsAreGenuine == I!RowsAreGenuine

\* A redelivered note is one reply (ingestedNoteID).
RepliesStoredOnce == I!RepliesStoredOnce

\* The candidates are the known members, once each, in the right order
\* (memberCandidates, demoteThrottled, remember).
CandidatesAreRight == D!CandidatesAreRight

\* Concurrent resolution keeps the order of a thread (resolveReplyItems).
ThreadInOrder == T!ThreadInOrder

\* A listing holds every bridged follower once (nodeFollowerStore.List).
ListIsExact == F!ListIsExact

\* The pages of the directory go forward (GetWhoToFollow).
PagesAdvance == W!PagesAdvance

\* The ring serves the most recent lines in order (logRing.lines).
ServesRecentLines == L!ServesRecentLines

\* Every successful start signs with the same key (loadOrCreateKey).
KeyIsStable == K!KeyIsStable
=============================================================================
