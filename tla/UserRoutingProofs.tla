-------------------------- MODULE UserRoutingProofs --------------------------
(***************************************************************************)
(* Confinement of the requests about one user, for any networks, nodes and *)
(* requests in progress.                                                   *)
(***************************************************************************)
EXTENDS UserRouting, TLAPS

\* The profiles and the shared caches name only networks and nodes in which the
\* user lives or has lived, and a network's caches only its own nodes.
CachesAreHistory ==
  /\ home # None => home \in Lived
  /\ users \subseteq Lived
  /\ \A n \in Net : profile[n] # None => profile[n] \in owners
  /\ \A n \in Net : ownerOf[n] # None => ownerOf[n] \in owners

\* A request is in a network exactly while it has one, and has a target only
\* between learning of the owner and the end of the stream.
RequestsOnTrack ==
  \A r \in Request :
    /\ pc[r] \notin {"idle", "race"} => net[r] # None
    /\ pc[r] \in {"idle", "race"} => net[r] = None
    /\ pc[r] = "learned" => target[r] # None
    /\ pc[r] \notin {"learned", "stream"} => target[r] = None

Inv == Confined /\ CachesAreHistory /\ RequestsOnTrack

\* The network of a node that owned the user is one the user lived in.
LEMMA LivedIn ==
  ASSUME NEW m \in owners
  PROVE  NetOf[m] \in Lived
BY DEF Lived

\* Nothing is remembered and nothing is under way at the start.
LEMMA InitInv == Init => Inv
<1> SUFFICES ASSUME Init PROVE Inv
  OBVIOUS
<1>1. /\ pc \in [Request -> {"idle", "recheck", "forget", "race", "remember",
                             "resolve", "learned", "stream", "broadcast"}]
      /\ op \in [Request -> {"owner", "scoped", "profile"}]
      /\ net \in [Request -> Net \cup {None}]
      /\ target \in [Request -> Node \cup {None}]
  BY DEF Init
<1>2. /\ DOMAIN profile = Net /\ \A n \in Net : InNet(profile[n], n)
      /\ DOMAIN ownerOf = Net /\ \A n \in Net : InNet(ownerOf[n], n)
  BY DEF Init, InNet
<1>3. TypeOK
  BY <1>1, <1>2 DEF Init, TypeOK
<1>4. CachesAreHistory
  BY DEF Init, CachesAreHistory
<1>5. RequestsOnTrack
  BY DEF Init, RequestsOnTrack
<1> QED
  BY <1>3, <1>4, <1>5 DEF Inv, Confined, Init

-----------------------------------------------------------------------------
(* Steps of one request. *)

\* How a step of request r may leave it: nobody else's state changes, and its own
\* is one the invariant allows.
Moves(r, p, o, n, m) ==
  /\ pc' = [pc EXCEPT ![r] = p]
  /\ op' = [op EXCEPT ![r] = o]
  /\ net' = [net EXCEPT ![r] = n]
  /\ target' = [target EXCEPT ![r] = m]

Allowed(p, o, n, m) ==
  /\ p \in {"idle", "recheck", "forget", "race", "remember",
            "resolve", "learned", "stream", "broadcast"}
  /\ o \in {"owner", "scoped", "profile"}
  /\ IF p \in {"idle", "race"} THEN n = None ELSE n \in Net /\ n \in Lived
  /\ IF p \in {"learned", "stream"} THEN m # None ELSE m = None
  /\ m # None => m \in owners /\ NetOf[m] = n

\* What a step of one request needs to show.
LEMMA RequestStep ==
  ASSUME Inv, NEW r \in Request, NEW p, NEW o, NEW n, NEW m,
         Moves(r, p, o, n, m), Allowed(p, o, n, m),
         UNCHANGED world,
         home' \in Net \cup {None}, home' # None => home' \in Lived,
         users' \in SUBSET Net, users' \subseteq Lived,
         DOMAIN ownerOf' = Net,
         \A k \in Net : InNet(ownerOf'[k], k) /\ (ownerOf'[k] # None => ownerOf'[k] \in owners)
  PROVE  Inv'
<1> USE NoneAssumption, NetOfAssumption DEF world
<1>1. Lived' = Lived
  BY DEF Lived
<1>2. /\ pc \in [Request -> {"idle", "recheck", "forget", "race", "remember",
                             "resolve", "learned", "stream", "broadcast"}]
      /\ op \in [Request -> {"owner", "scoped", "profile"}]
      /\ net \in [Request -> Net \cup {None}]
      /\ target \in [Request -> Node \cup {None}]
      /\ owners \in SUBSET Node
  BY DEF Inv, Confined, TypeOK
<1>3. \A q \in Request : q # r => /\ pc'[q] = pc[q] /\ op'[q] = op[q]
                                  /\ net'[q] = net[q] /\ target'[q] = target[q]
  BY <1>2 DEF Moves
<1>4. pc'[r] = p /\ op'[r] = o /\ net'[r] = n /\ target'[r] = m
  BY <1>2 DEF Moves
<1>5. /\ pc' \in [Request -> {"idle", "recheck", "forget", "race", "remember",
                             "resolve", "learned", "stream", "broadcast"}]
      /\ op' \in [Request -> {"owner", "scoped", "profile"}]
      /\ net' \in [Request -> Net \cup {None}]
      /\ target' \in [Request -> Node \cup {None}]
  BY <1>2 DEF Moves, Allowed
<1>6. TypeOK'
  BY <1>5 DEF Inv, Confined, TypeOK, InNet
<1>7. CachesAreHistory'
  BY <1>1 DEF Inv, CachesAreHistory
<1>8. RequestsOnTrack'
  BY <1>3, <1>4 DEF Inv, RequestsOnTrack, Allowed
<1>9. \A q \in Request :
        /\ net'[q] # None => net'[q] \in Lived'
        /\ target'[q] # None => target'[q] \in owners' /\ NetOf[target'[q]] = net'[q]
  BY <1>1, <1>3, <1>4 DEF Inv, Confined, Allowed
<1> QED
  BY <1>6, <1>7, <1>8, <1>9 DEF Inv, Confined

\* The facts about the present state that every step starts from.
LEMMA Present ==
  ASSUME Inv, NEW r \in Request
  PROVE  /\ pc[r] \in {"idle", "recheck", "forget", "race", "remember",
                       "resolve", "learned", "stream", "broadcast"}
         /\ op[r] \in {"owner", "scoped", "profile"}
         /\ pc[r] \notin {"idle", "race"} => net[r] \in Net /\ net[r] \in Lived
         /\ pc[r] \in {"idle", "race"} => net[r] = None
         /\ pc[r] = "learned" => target[r] # None
         /\ pc[r] \notin {"learned", "stream"} => target[r] = None
         /\ target[r] # None => target[r] \in owners /\ NetOf[target[r]] = net[r]
         /\ op = [op EXCEPT ![r] = op[r]]
         /\ net = [net EXCEPT ![r] = net[r]]
         /\ target = [target EXCEPT ![r] = target[r]]
         /\ home \in Net \cup {None} /\ (home # None => home \in Lived)
         /\ users \in SUBSET Net /\ users \subseteq Lived
         /\ DOMAIN ownerOf = Net
         /\ \A k \in Net : InNet(ownerOf[k], k) /\ (ownerOf[k] # None => ownerOf[k] \in owners)
         /\ \A k \in Net : InNet(profile[k], k) /\ (profile[k] # None => profile[k] \in owners)
BY DEF Inv, Confined, TypeOK, CachesAreHistory, RequestsOnTrack

\* A network in which the profile is found is one the user lived in.
LEMMA FoundIsLived ==
  ASSUME Inv, NEW n \in Net, Finds(n)
  PROVE  n \in Lived
<1>1. CASE n \in users
  BY <1>1 DEF Inv, CachesAreHistory
<1>2. CASE profile[n] # None
  <2>1. profile[n] \in owners /\ NetOf[profile[n]] = n
    BY <1>2 DEF Inv, Confined, TypeOK, CachesAreHistory, InNet
  <2> QED
    BY <2>1, LivedIn
<1> QED
  BY <1>1, <1>2 DEF Finds

\* Locating the network keeps the invariant.
LEMMA LocateInv ==
  ASSUME Inv, NEW r \in Request,
         \/ Begin(r, "owner") \/ Begin(r, "scoped") \/ BeginProfile(r)
         \/ RecheckHit(r) \/ RecheckMiss(r) \/ Forget(r)
         \/ Race(r) \/ RaceLost(r) \/ RememberHome(r)
  PROVE  Inv'
<1> USE NoneAssumption DEF caches, Allowed, Moves
<1>1. CASE Begin(r, "owner") \/ Begin(r, "scoped")
  <2>1. PICK o \in {"owner", "scoped"} : Begin(r, o)
    BY <1>1
  <2>2. CASE home # None
    <3>1. Moves(r, IF o = "owner" THEN "resolve" ELSE "broadcast", o, home, None)
      BY <2>1, <2>2, Present DEF Begin, Inside
    <3> QED
      BY <2>1, <2>2, <3>1, Present, RequestStep DEF Begin
  <2>3. CASE home = None
    <3>1. Moves(r, "race", o, None, None)
      BY <2>1, <2>3, Present DEF Begin, Goto
    <3> QED
      BY <2>1, <2>3, <3>1, Present, RequestStep DEF Begin
  <2> QED
    BY <2>2, <2>3
<1>2. CASE BeginProfile(r)
  <2>2. CASE home # None
    <3>1. Moves(r, "recheck", "profile", home, None)
      BY <1>2, <2>2, Present DEF BeginProfile, Goto
    <3> QED
      BY <1>2, <2>2, <3>1, Present, RequestStep DEF BeginProfile
  <2>3. CASE home = None
    <3>1. Moves(r, "race", "profile", None, None)
      BY <1>2, <2>3, Present DEF BeginProfile, Goto
    <3> QED
      BY <1>2, <2>3, <3>1, Present, RequestStep DEF BeginProfile
  <2> QED
    BY <2>2, <2>3
<1>3. CASE RecheckHit(r)
  <2>1. Moves(r, "idle", "scoped", None, None)
    BY <1>3 DEF RecheckHit, Return
  <2>2. users' \in SUBSET Net /\ users' \subseteq Lived
    BY <1>3, Present DEF RecheckHit
  <2> QED
    BY <1>3, <2>1, <2>2, Present, RequestStep DEF RecheckHit
<1>4. CASE RecheckMiss(r)
  <2>1. Moves(r, "forget", op[r], net[r], None)
    BY <1>4, Present DEF RecheckMiss, Goto
  <2> QED
    BY <1>4, <2>1, Present, RequestStep DEF RecheckMiss
<1>5. CASE Forget(r)
  <2>1. Moves(r, "race", op[r], None, None)
    BY <1>5, Present DEF Forget, Goto
  <2> QED
    BY <1>5, <2>1, Present, RequestStep DEF Forget
<1>6. CASE Race(r)
  <2>1. PICK n \in Net : Finds(n) /\ users' = users \cup {n} /\ Goto(r, "remember", n)
    BY <1>6 DEF Race
  <2>2. Moves(r, "remember", op[r], n, None)
    BY <1>6, <2>1, Present DEF Race, Goto
  <2>3. n \in Lived
    BY <2>1, FoundIsLived
  <2>4. users' \in SUBSET Net /\ users' \subseteq Lived
    BY <2>1, <2>3, Present
  <2> QED
    BY <1>6, <2>2, <2>3, <2>4, Present, RequestStep DEF Race
<1>7. CASE RaceLost(r)
  <2>1. Moves(r, "idle", "scoped", None, None)
    BY <1>7 DEF RaceLost, Return
  <2> QED
    BY <1>7, <2>1, Present, RequestStep DEF RaceLost
<1>8. CASE RememberHome(r)
  <2>1. CASE op[r] = "profile"
    <3>1. Moves(r, "idle", "scoped", None, None)
      BY <1>8, <2>1 DEF RememberHome, Return
    <3> QED
      BY <1>8, <3>1, Present, RequestStep DEF RememberHome
  <2>2. CASE op[r] # "profile"
    <3>1. Moves(r, IF op[r] = "owner" THEN "resolve" ELSE "broadcast", op[r], net[r], None)
      BY <1>8, <2>2, Present DEF RememberHome, Inside
    <3> QED
      BY <1>8, <3>1, Present, RequestStep DEF RememberHome
  <2> QED
    BY <2>1, <2>2
<1> QED
  BY <1>1, <1>2, <1>3, <1>4, <1>5, <1>6, <1>7, <1>8

\* So does what it does inside the network.
LEMMA InsideInv ==
  ASSUME Inv, NEW r \in Request,
         \/ ResolveCached(r) \/ ResolveAsking(r) \/ CacheOwner(r)
         \/ StreamAnswered(r) \/ StreamLimited(r) \/ StreamFailed(r)
         \/ Broadcast(r)
  PROVE  Inv'
<1> USE NoneAssumption DEF caches, Allowed, Moves
<1>1. CASE ResolveCached(r)
  <2>1. \/ Moves(r, "stream", op[r], net[r], ownerOf[net[r]])
        \/ Moves(r, "broadcast", op[r], net[r], None)
    BY <1>1, Present DEF ResolveCached, Send
  <2>2. ownerOf[net[r]] \in owners /\ NetOf[ownerOf[net[r]]] = net[r]
    BY <1>1, Present DEF ResolveCached, InNet
  <2>3. /\ UNCHANGED <<world, home, users, ownerOf>>
        /\ ownerOf[net[r]] # None /\ net[r] \in Net /\ net[r] \in Lived
    BY <1>1, Present DEF ResolveCached
  <2>4. CASE Moves(r, "stream", op[r], net[r], ownerOf[net[r]])
    BY <2>2, <2>3, <2>4, Present, RequestStep
  <2>5. CASE Moves(r, "broadcast", op[r], net[r], None)
    BY <2>3, <2>5, Present, RequestStep
  <2> QED
    BY <2>1, <2>4, <2>5
<1>2. CASE ResolveAsking(r)
  <2>3. /\ UNCHANGED <<world, home, users, ownerOf>>
        /\ net[r] \in Net /\ net[r] \in Lived
    BY <1>2, Present DEF ResolveAsking
  <2>1. \/ profile[net[r]] # None /\ Moves(r, "learned", op[r], net[r], profile[net[r]])
        \/ Moves(r, "broadcast", op[r], net[r], None)
    BY <1>2, Present DEF ResolveAsking, Send
  <2>4. CASE profile[net[r]] # None /\ Moves(r, "learned", op[r], net[r], profile[net[r]])
    <3>1. profile[net[r]] \in owners /\ NetOf[profile[net[r]]] = net[r]
      BY <2>3, <2>4, Present DEF InNet
    <3> QED
      BY <2>3, <2>4, <3>1, Present, RequestStep
  <2>5. CASE Moves(r, "broadcast", op[r], net[r], None)
    BY <2>3, <2>5, Present, RequestStep
  <2> QED
    BY <2>1, <2>4, <2>5
<1>3. CASE CacheOwner(r)
  <2>1. /\ UNCHANGED <<world, home, users>>
        /\ net[r] \in Net /\ net[r] \in Lived /\ target[r] # None
        /\ target[r] \in owners /\ NetOf[target[r]] = net[r]
    BY <1>3, Present DEF CacheOwner
  <2>2. /\ DOMAIN ownerOf' = Net
        /\ \A k \in Net : InNet(ownerOf'[k], k) /\ (ownerOf'[k] # None => ownerOf'[k] \in owners)
    BY <1>3, <2>1, Present DEF CacheOwner, InNet
  <2>3. \/ Moves(r, "stream", op[r], net[r], target[r])
        \/ Moves(r, "broadcast", op[r], net[r], None)
    BY <1>3, Present DEF CacheOwner, Send
  <2>4. CASE Moves(r, "stream", op[r], net[r], target[r])
    BY <2>1, <2>2, <2>4, Present, RequestStep
  <2>5. CASE Moves(r, "broadcast", op[r], net[r], None)
    BY <2>1, <2>2, <2>5, Present, RequestStep
  <2> QED
    BY <2>3, <2>4, <2>5
<1>4. CASE StreamAnswered(r) \/ Broadcast(r)
  <2>1. Moves(r, "idle", "scoped", None, None)
    BY <1>4 DEF StreamAnswered, Broadcast, Return
  <2> QED
    BY <1>4, <2>1, Present, RequestStep DEF StreamAnswered, Broadcast
<1>5. CASE StreamLimited(r)
  <2>1. Moves(r, "broadcast", op[r], net[r], None)
    BY <1>5, Present DEF StreamLimited, Send
  <2> QED
    BY <1>5, <2>1, Present, RequestStep DEF StreamLimited
<1>6. CASE StreamFailed(r)
  <2>1. Moves(r, "broadcast", op[r], net[r], None)
    BY <1>6, Present DEF StreamFailed, Send
  <2>2. /\ DOMAIN ownerOf' = Net
        /\ \A k \in Net : InNet(ownerOf'[k], k) /\ (ownerOf'[k] # None => ownerOf'[k] \in owners)
    BY <1>6, Present DEF StreamFailed, InNet
  <2> QED
    BY <1>6, <2>1, <2>2, Present, RequestStep DEF StreamFailed
<1> QED
  BY <1>1, <1>2, <1>3, <1>4, <1>5, <1>6

-----------------------------------------------------------------------------
(* Late lookups, expiry, moves and replication. *)

\* What a late lookup caches it found in a network the user lived in.
LEMMA LateInv ==
  ASSUME Inv, NEW n \in Net, LateAnswer(n)
  PROVE  Inv'
<1> USE NoneAssumption DEF world, request
<1>1. /\ UNCHANGED <<owner, owners, profile, calm, home, ownerOf, pc, op, net, target>>
      /\ users' = users \cup {n}
  BY DEF LateAnswer
<1>2. Lived' = Lived
  BY <1>1 DEF Lived
<1>3. n \in Lived
  BY FoundIsLived DEF LateAnswer, Finds
<1>4. TypeOK'
  BY <1>1 DEF Inv, Confined, TypeOK, InNet
<1>5. CachesAreHistory'
  BY <1>1, <1>2, <1>3 DEF Inv, CachesAreHistory
<1> QED
  BY <1>1, <1>2, <1>4, <1>5 DEF Inv, Confined, RequestsOnTrack

\* Entries that expire only shrink the caches.
LEMMA ExpireInv ==
  ASSUME Inv, Expire
  PROVE  Inv'
<1> USE NoneAssumption DEF world, caches, request
<1>1. /\ UNCHANGED <<owner, owners, profile, calm, pc, op, net, target>>
      /\ home' \in {home, None}
      /\ users' \subseteq users
      /\ DOMAIN ownerOf' = DOMAIN ownerOf
      /\ \A k \in Net : ownerOf'[k] \in {ownerOf[k], None}
  BY DEF Expire, ExpireHome, ExpireUser, ExpireOwner, Inv, Confined, TypeOK
<1>2. Lived' = Lived
  BY <1>1 DEF Lived
<1>3. TypeOK'
  BY <1>1 DEF Inv, Confined, TypeOK, InNet
<1>4. CachesAreHistory'
  BY <1>1, <1>2 DEF Inv, CachesAreHistory
<1> QED
  BY <1>1, <1>2, <1>3, <1>4 DEF Inv, Confined, RequestsOnTrack

\* A move only adds to the user's history; a replication copies the owner.
LEMMA WorldInv ==
  ASSUME Inv,
         \/ \E m \in Node : Move(m)
         \/ \E n \in Net : Replicate(n)
         \/ Weather \/ UNCHANGED vars
  PROVE  Inv'
<1> USE NoneAssumption DEF world, caches, request, vars
<1>1. /\ UNCHANGED <<home, users, ownerOf, pc, op, net, target>>
      /\ owners \subseteq owners' /\ owners' \in SUBSET Node /\ owner' \in owners'
      /\ calm' \in BOOLEAN
  BY DEF Move, Replicate, Weather, Inv, Confined, TypeOK
<1>2. /\ DOMAIN profile' = Net
      /\ \A k \in Net : InNet(profile'[k], k) /\ (profile'[k] # None => profile'[k] \in owners')
  BY <1>1 DEF Move, Replicate, Weather, Inv, Confined, TypeOK, CachesAreHistory, InNet
<1>3. Lived \subseteq Lived'
  BY <1>1 DEF Lived
<1>4. TypeOK'
  BY <1>1, <1>2 DEF Inv, Confined, TypeOK
<1>5. CachesAreHistory'
  BY <1>1, <1>2, <1>3 DEF Inv, CachesAreHistory
<1> QED
  BY <1>1, <1>3, <1>4, <1>5 DEF Inv, Confined, RequestsOnTrack

\* Confinement, for any number of networks, nodes and concurrent requests: a
\* request goes only into a network the user lives or has lived in, and directly
\* only to a node there that owns or has owned the user, however the shared
\* caches are filled, expire and go stale under it (multinet.go, nodeclient.go).
THEOREM RequestsAreConfined == Spec => []Confined
<1>1. Inv /\ [Next]_vars => Inv'
  <2> SUFFICES ASSUME Inv, [Next]_vars PROVE Inv'
    OBVIOUS
  <2> QED
    BY LocateInv, InsideInv, LateInv, ExpireInv, WorldInv DEF Next, Continue
<1>2. Inv => Confined
  BY DEF Inv
<1> QED
  BY <1>1, <1>2, InitInv, PTL DEF Spec
=============================================================================
