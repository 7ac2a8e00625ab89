----------------------------- MODULE UserRouting -----------------------------
(***************************************************************************)
(* How a request about one Warpnet user finds the network that serves the  *)
(* user and, in it, the user's own node: multiNode.locate, GetUser,        *)
(* requestUser and requestIn (multinet.go) above nodeClient.requestUser,   *)
(* ownerNode and lookupUser (nodeclient.go), with the caches all requests  *)
(* share.                                                                  *)
(*                                                                         *)
(* Every cache entry is about one user, so one user is modelled.  The node *)
(* that owns the user may change, also to another network; the profile     *)
(* GET_USER answers is replicated and follows later.  What happens among   *)
(* the members of a network is one step here and all of MemberRequest.     *)
(* While the networks are not calm any read, lookup or stream may fail.    *)
(***************************************************************************)
CONSTANTS
  Net,                    \* the joined networks
  Node,
  NetOf,                  \* the network of each node
  Request,                \* requests in progress
  None

\* With a single network locate() returns it and asks nobody.
ASSUME NetAssumption == \E n1, n2 \in Net : n1 # n2
ASSUME NetOfAssumption == NetOf \in [Node -> Net]
ASSUME NoneAssumption == None \notin Net /\ None \notin Node

VARIABLES
  owner,                  \* the node that owns the user
  owners,                 \* history: the nodes that have owned the user
  profile,                \* each network's replicated node_id, or None
  calm,                   \* members answer
  home,                   \* multiNode.home: the remembered network, or None
  users,                  \* networks whose nodeClient.users holds the profile
  ownerOf,                \* nodeClient.owner of each network, or None
  pc,                     \* what each request does next
  op,                     \* "owner" (requestUser), "scoped" (requestIn) or "profile"
  net,                    \* the network the request was sent to, or None
  target                  \* the node it is sent to, or None

vars == <<owner, owners, profile, calm, home, users, ownerOf, pc, op, net, target>>

world == <<owner, owners, profile, calm>>
caches == <<home, users, ownerOf>>
request == <<pc, op, net, target>>

Lived == {NetOf[m] : m \in owners}
InNet(m, n) == m = None \/ NetOf[m] = n

TypeOK ==
  /\ owner \in owners /\ owners \in SUBSET Node
  /\ DOMAIN profile = Net /\ \A n \in Net : InNet(profile[n], n)
  /\ calm \in BOOLEAN
  /\ home \in Net \cup {None}
  /\ users \in SUBSET Net
  /\ DOMAIN ownerOf = Net /\ \A n \in Net : InNet(ownerOf[n], n)
  /\ pc \in [Request -> {"idle", "recheck", "forget", "race", "remember",
                         "resolve", "learned", "stream", "broadcast"}]
  /\ op \in [Request -> {"owner", "scoped", "profile"}]
  /\ net \in [Request -> Net \cup {None}]
  /\ target \in [Request -> Node \cup {None}]

Init ==
  /\ owner \in Node
  /\ owners = {owner}
  /\ profile = [n \in Net |-> IF n = NetOf[owner] THEN owner ELSE None]
  /\ calm \in BOOLEAN
  /\ home = None
  /\ users = {}
  /\ ownerOf = [n \in Net |-> None]
  /\ pc = [r \in Request |-> "idle"]
  /\ op = [r \in Request |-> "scoped"]
  /\ net = [r \in Request |-> None]
  /\ target = [r \in Request |-> None]

-----------------------------------------------------------------------------
(* The control of one request. *)

\* What a request does in network n: an owner-targeted one looks for the owner, a
\* broadcast one asks the members.
Inside(r, o, n) ==
  /\ pc' = [pc EXCEPT ![r] = IF o = "owner" THEN "resolve" ELSE "broadcast"]
  /\ net' = [net EXCEPT ![r] = n]
  /\ UNCHANGED target

Goto(r, label, n) ==
  /\ pc' = [pc EXCEPT ![r] = label]
  /\ net' = [net EXCEPT ![r] = n]
  /\ UNCHANGED target

Send(r, label, m) ==
  /\ pc' = [pc EXCEPT ![r] = label]
  /\ target' = [target EXCEPT ![r] = m]
  /\ UNCHANGED net

Return(r) ==
  /\ pc' = [pc EXCEPT ![r] = "idle"]
  /\ op' = [op EXCEPT ![r] = "scoped"]
  /\ net' = [net EXCEPT ![r] = None]
  /\ target' = [target EXCEPT ![r] = None]

-----------------------------------------------------------------------------
(* Locating the network. *)

\* requestUser, requestIn: locate() takes the remembered network or races for it.
Begin(r, o) ==
  /\ pc[r] = "idle"
  /\ op' = [op EXCEPT ![r] = o]
  /\ IF home # None THEN Inside(r, o, home) ELSE Goto(r, "race", None)
  /\ UNCHANGED <<world, caches>>

\* GetUser.
BeginProfile(r) ==
  /\ pc[r] = "idle"
  /\ op' = [op EXCEPT ![r] = "profile"]
  /\ IF home # None THEN Goto(r, "recheck", home) ELSE Goto(r, "race", None)
  /\ UNCHANGED <<world, caches>>

\* lookupUser finds the profile in its cache or asks the members.
Finds(n) == n \in users \/ profile[n] # None
Misses(n) == n \notin users /\ (profile[n] = None \/ ~calm)

\* GetUser reads the profile in the remembered network first, and forgets that
\* network when the user is not found there.
RecheckHit(r) ==
  /\ pc[r] = "recheck"
  /\ Finds(net[r])
  /\ users' = users \cup {net[r]}
  /\ Return(r)
  /\ UNCHANGED <<world, home, ownerOf>>

RecheckMiss(r) ==
  /\ pc[r] = "recheck"
  /\ Misses(net[r])
  /\ Goto(r, "forget", net[r])
  /\ UNCHANGED <<world, caches, op>>

Forget(r) ==
  /\ pc[r] = "forget"
  /\ home' = None
  /\ Goto(r, "race", None)
  /\ UNCHANGED <<world, users, ownerOf, op>>

\* Faulty variant: the first network to answer wins, with or without a profile.
RaceFirstAnswer(r) ==
  /\ pc[r] = "race"
  /\ \E n \in Net : Goto(r, "remember", n)
  /\ UNCHANGED <<world, caches, op>>

\* firstWithUser: one of the networks that know the profile answers first.  The
\* lookups in the others go on.
Race(r) ==
  /\ pc[r] = "race"
  /\ \E n \in Net :
       /\ Finds(n)
       /\ users' = users \cup {n}
       /\ Goto(r, "remember", n)
  /\ UNCHANGED <<world, home, ownerOf, op>>

\* A lookup that lost its race ends: nobody takes its answer any more, but the
\* profile it found is cached in its network.  Which lookups still run is not
\* recorded; in any network one may.
LateAnswer(n) ==
  /\ n \notin users
  /\ profile[n] # None
  /\ users' = users \cup {n}
  /\ UNCHANGED <<world, home, ownerOf, request>>

\* No network knows the user: the request fails.
RaceLost(r) ==
  /\ pc[r] = "race"
  /\ \A n \in Net : Misses(n)
  /\ Return(r)
  /\ UNCHANGED <<world, caches>>

RememberHome(r) ==
  /\ pc[r] = "remember"
  /\ home' = net[r]
  /\ IF op[r] = "profile" THEN Return(r)
     ELSE Inside(r, op[r], net[r]) /\ UNCHANGED op
  /\ UNCHANGED <<world, users, ownerOf>>

-----------------------------------------------------------------------------
(* Inside the network. *)

\* ownerNode: the cached owner.  A node that rate limits the route is passed over.
ResolveCached(r) ==
  /\ pc[r] = "resolve"
  /\ ownerOf[net[r]] # None
  /\ \/ Send(r, "stream", ownerOf[net[r]])
     \/ ~calm /\ Send(r, "broadcast", None)
  /\ UNCHANGED <<world, caches, op>>

\* ownerNode: GET_USER names the node, which is cached afterwards.
ResolveAsking(r) ==
  /\ pc[r] = "resolve"
  /\ ownerOf[net[r]] = None
  /\ \/ profile[net[r]] # None /\ Send(r, "learned", profile[net[r]])
     \/ (profile[net[r]] = None \/ ~calm) /\ Send(r, "broadcast", None)
  /\ UNCHANGED <<world, caches, op>>

CacheOwner(r) ==
  /\ pc[r] = "learned"
  /\ ownerOf' = [ownerOf EXCEPT ![net[r]] = target[r]]
  /\ \/ Send(r, "stream", target[r])
     \/ ~calm /\ Send(r, "broadcast", None)
  /\ UNCHANGED <<world, home, users, op>>

StreamAnswered(r) ==
  /\ pc[r] = "stream"
  /\ Return(r)
  /\ UNCHANGED <<world, caches>>

\* The owner rate limits the route: ask the members of its network.
StreamLimited(r) ==
  /\ pc[r] = "stream"
  /\ ~calm
  /\ Send(r, "broadcast", None)
  /\ UNCHANGED <<world, caches, op>>

\* The owner is unreachable, or its reply was lost: forget it, ask the members.
StreamFailed(r) ==
  /\ pc[r] = "stream"
  /\ ~calm
  /\ ownerOf' = [ownerOf EXCEPT ![net[r]] = None]
  /\ Send(r, "broadcast", None)
  /\ UNCHANGED <<world, home, users, op>>

\* nodeClient.request: see MemberRequest.
Broadcast(r) ==
  /\ pc[r] = "broadcast"
  /\ Return(r)
  /\ UNCHANGED <<world, caches>>

Continue(r) ==
  \/ RecheckHit(r) \/ RecheckMiss(r) \/ Forget(r)
  \/ Race(r) \/ RaceLost(r) \/ RememberHome(r)
  \/ ResolveCached(r) \/ ResolveAsking(r) \/ CacheOwner(r)
  \/ StreamAnswered(r) \/ StreamLimited(r) \/ StreamFailed(r)
  \/ Broadcast(r)

-----------------------------------------------------------------------------
(* Expiry, and the networks. *)

\* Faulty variant: the entries of home have no TTL.
HomeNeverExpires == FALSE

\* homeCacheTTL, userCacheTTL and ownerCacheTTL.
ExpireHome ==
  /\ home # None
  /\ home' = None
  /\ UNCHANGED <<world, users, ownerOf, request>>

ExpireUser(n) ==
  /\ n \in users
  /\ users' = users \ {n}
  /\ UNCHANGED <<world, home, ownerOf, request>>

ExpireOwner(n) ==
  /\ ownerOf[n] # None
  /\ ownerOf' = [ownerOf EXCEPT ![n] = None]
  /\ UNCHANGED <<world, home, users, request>>

Expire ==
  \/ ExpireHome
  \/ \E n \in Net : ExpireUser(n) \/ ExpireOwner(n)

\* The user moves to another node.
Move(m) ==
  /\ m # owner
  /\ owner' = m
  /\ owners' = owners \cup {m}
  /\ UNCHANGED <<profile, calm, caches, request>>

\* The profile of network n catches up.
Replicate(n) ==
  /\ profile' = [profile EXCEPT ![n] = IF NetOf[owner] = n THEN owner ELSE None]
  /\ UNCHANGED <<owner, owners, calm, caches, request>>

Weather ==
  /\ calm' = ~calm
  /\ UNCHANGED <<owner, owners, profile, caches, request>>

Next ==
  \/ \E r \in Request :
       \/ Begin(r, "owner") \/ Begin(r, "scoped") \/ BeginProfile(r)
       \/ Continue(r)
  \/ \E n \in Net : LateAnswer(n)
  \/ Expire
  \/ \E m \in Node : Move(m)
  \/ \E n \in Net : Replicate(n)
  \/ Weather

Spec == Init /\ [][Next]_vars

\* Requests are bounded by timeouts; entries that nobody uses or refreshes live
\* no longer than their TTL; profiles are replicated.
Fairness ==
  /\ \A r \in Request : WF_vars(Continue(r))
  /\ WF_vars(ExpireHome)
  /\ \A n \in Net : WF_vars(ExpireUser(n)) /\ WF_vars(ExpireOwner(n)) /\ WF_vars(Replicate(n))

FairSpec == Spec /\ Fairness

-----------------------------------------------------------------------------
(* Correctness. *)

\* Confinement (multinet.go:9-12): a request is sent only into a network that the
\* user lives in or has lived in, and directly only to a node of that network
\* that owns or has owned the user, however the caches age under it.
Confined ==
  /\ TypeOK
  /\ \A r \in Request :
       /\ net[r] # None => net[r] \in Lived
       /\ target[r] # None => target[r] \in owners /\ NetOf[target[r]] = net[r]

\* "the TTL lets a user that moves networks be picked up" (multinet.go:57): once
\* the user stays on a node, the shared caches name that node or nothing, and
\* requests still under way with an old answer cannot bring it back for good.
Heals ==
  \A m \in Node :
    <>[](owner = m) =>
      <>[](home \in {None, NetOf[m]} /\ \A n \in Net : ownerOf[n] \in {None, m})
=============================================================================
