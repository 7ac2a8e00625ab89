-------------------------- MODULE FederationProofs --------------------------
(***************************************************************************)
(* Proofs about Federation for every set of users, every pool of sessions  *)
(* and every threshold of at least two.                                    *)
(***************************************************************************)
EXTENDS Federation, TLAPS

\* A user whose count of empty scans is positive last read empty.
CountedReads ==
  \A u \in User :
    emptyScans[u] > 0 =>
      lastReads[u] # <<>> /\ lastReads[u][Len(lastReads[u])] = "empty"

\* Nothing is started, running or lingering in a process that is down.
DownIsFresh ==
  proc = "down" => started = NothingStarted /\ session = NoSessions

\* A listing is in progress only inside a scan.
ReadingInScan == reading # None => scanner = "scanning"

Inv ==
  /\ TypeOK
  /\ ReadingInScan
  /\ OneLiveSession
  /\ DownIsFresh
  /\ CountedReads

-----------------------------------------------------------------------------
\* A fresh gateway satisfies the invariant.
LEMMA InitInv == Init => Inv
<1> SUFFICES ASSUME Init PROVE Inv
  OBVIOUS
<1> USE NoneAssumption, ThresholdAssumption
    DEF Init, NothingStarted, NoSessions, NoCounts, NoReads
<1>1. TypeOK
  BY DEF TypeOK, Result
<1>2. OneLiveSession
  BY DEF OneLiveSession
<1>3. DownIsFresh /\ CountedReads /\ ReadingInScan
  BY DEF DownIsFresh, CountedReads, ReadingInScan
<1> QED
  BY <1>1, <1>2, <1>3 DEF Inv

\* start() in a process that is not down keeps what concerns the sessions.
LEMMA StartKeepsSessions ==
  ASSUME Inv, NEW u \in User, proc # "down", proc' = proc, Start(u)
  PROVE  /\ started' \in [User -> Session \cup {None}]
         /\ session' \in [User -> [Session -> {"free", "running", "cancelled"}]]
         /\ emptySinceStart' \in [User -> 0..EmptyScansToStop]
         /\ OneLiveSession'
         /\ DownIsFresh'
         /\ \A v \in User : started[v] # None => started'[v] # None
<1> USE NoneAssumption, ThresholdAssumption
<1>1. CASE started[u] # None
  BY <1>1 DEF Start, Inv, TypeOK, OneLiveSession, DownIsFresh
<1>2. CASE started[u] = None
  <2>1. PICK s \in Session :
          /\ session[u][s] = "free"
          /\ started' = [started EXCEPT ![u] = s]
          /\ session' = [session EXCEPT ![u][s] =
                           IF proc = "up" THEN "running" ELSE "cancelled"]
          /\ emptySinceStart' = [emptySinceStart EXCEPT ![u] = 0]
    BY <1>2 DEF Start
  <2>2. started' \in [User -> Session \cup {None}]
    BY <2>1 DEF Inv, TypeOK
  <2>3. session' \in [User -> [Session -> {"free", "running", "cancelled"}]]
    BY <2>1 DEF Inv, TypeOK
  <2>4. emptySinceStart' \in [User -> 0..EmptyScansToStop]
    BY <2>1 DEF Inv, TypeOK
  <2>5. OneLiveSession'
    <3> SUFFICES ASSUME NEW v \in User, NEW t \in Session
                 PROVE  session'[v][t] = "running" <=> proc = "up" /\ started'[v] = t
      BY DEF OneLiveSession
    <3>0. session[v][t] = "running" <=> proc = "up" /\ started[v] = t
      BY DEF Inv, OneLiveSession
    <3>1. CASE v # u
      BY <2>1, <3>0, <3>1 DEF Inv, TypeOK
    <3>2. CASE v = u /\ t = s
      BY <2>1, <3>2 DEF Inv, TypeOK
    <3>3. CASE v = u /\ t # s
      BY <1>2, <2>1, <3>0, <3>3 DEF Inv, TypeOK
    <3> QED
      BY <3>1, <3>2, <3>3
  <2>6. \A v \in User : started[v] # None => started'[v] # None
    BY <2>1 DEF Inv, TypeOK
  <2> QED
    BY <2>2, <2>3, <2>4, <2>5, <2>6 DEF DownIsFresh
<1> QED
  BY <1>1, <1>2

\* stop() in a process that is not down does too.
LEMMA StopKeepsSessions ==
  ASSUME Inv, NEW u \in User, proc # "down", proc' = proc, Stop(u)
  PROVE  /\ started' \in [User -> Session \cup {None}]
         /\ session' \in [User -> [Session -> {"free", "running", "cancelled"}]]
         /\ OneLiveSession'
         /\ DownIsFresh'
         /\ \A v \in User \ {u} : started'[v] = started[v]
<1> USE NoneAssumption
<1>1. CASE started[u] = None
  BY <1>1 DEF Stop, Inv, TypeOK, OneLiveSession, DownIsFresh
<1>2. CASE started[u] # None
  <2>1. /\ started' = [started EXCEPT ![u] = None]
        /\ session' = [session EXCEPT ![u][started[u]] = "cancelled"]
        /\ started[u] \in Session
    BY <1>2 DEF Stop, Inv, TypeOK
  <2>2. started' \in [User -> Session \cup {None}]
    BY <2>1 DEF Inv, TypeOK
  <2>3. session' \in [User -> [Session -> {"free", "running", "cancelled"}]]
    BY <2>1 DEF Inv, TypeOK
  <2>4. OneLiveSession'
    <3> SUFFICES ASSUME NEW v \in User, NEW t \in Session
                 PROVE  session'[v][t] = "running" <=> proc = "up" /\ started'[v] = t
      BY DEF OneLiveSession
    <3>0. session[v][t] = "running" <=> proc = "up" /\ started[v] = t
      BY DEF Inv, OneLiveSession
    <3>1. CASE v # u
      BY <2>1, <3>0, <3>1 DEF Inv, TypeOK
    <3>2. CASE v = u
      BY <2>1, <3>0, <3>2 DEF Inv, TypeOK
    <3> QED
      BY <3>1, <3>2
  <2> QED
    BY <2>1, <2>2, <2>3, <2>4 DEF DownIsFresh, Inv, TypeOK
<1> QED
  BY <1>1, <1>2

-----------------------------------------------------------------------------
\* Accepting a Follow keeps the invariant.
LEMMA AcceptInv ==
  ASSUME Inv, NEW u \in User, PersistFollower(u) \/ OnFollowed(u)
  PROVE  Inv'
<1> USE DEF env, scanVars, history
<1>1. CASE PersistFollower(u)
  <2>1. UNCHANGED <<proc, healthy, started, session, emptyScans, scanner, todo,
                    reading, result, lastReads, emptySinceStart>>
    BY <1>1 DEF PersistFollower
  <2>2. follower' \in [User -> BOOLEAN] /\ accepting' \in SUBSET User
    BY <1>1 DEF PersistFollower, Inv, TypeOK
  <2> QED
    BY <2>1, <2>2 DEF Inv, TypeOK, OneLiveSession, DownIsFresh, CountedReads,
       ReadingInScan
<1>2. CASE OnFollowed(u)
  <2>1. /\ proc # "down" /\ proc' = proc
        /\ accepting' \in SUBSET User
        /\ UNCHANGED <<healthy, follower, emptyScans, scanner, todo, reading,
                       result, lastReads>>
    BY <1>2 DEF OnFollowed, Inv, TypeOK
  <2>2. CASE Start(u)
    BY <2>1, <2>2, StartKeepsSessions
       DEF Inv, TypeOK, CountedReads, ReadingInScan
  <2>3. CASE UNCHANGED <<started, session, emptySinceStart>>
    BY <2>1, <2>3 DEF Inv, TypeOK, OneLiveSession, DownIsFresh, CountedReads,
       ReadingInScan
  <2> QED
    BY <1>2, <2>2, <2>3 DEF OnFollowed
<1> QED
  BY <1>1, <1>2

\* What the history of reads looks like after one more.
LEMMA RememberLast ==
  ASSUME TypeOK, NEW u \in User, NEW r \in {"some", "empty"}, Remember(u, r)
  PROVE  /\ lastReads' \in [User -> Seq({"some", "empty"})]
         /\ \A v \in User \ {u} : lastReads'[v] = lastReads[v]
         /\ lastReads'[u] # <<>>
         /\ lastReads'[u][Len(lastReads'[u])] = r
         /\ lastReads[u] # <<>> =>
              lastReads'[u] = <<lastReads[u][Len(lastReads[u])], r>>
<1>1. CASE lastReads[u] = <<>>
  <2>1. lastReads' = [lastReads EXCEPT ![u] = <<r>>]
    BY <1>1 DEF Remember, TypeOK
  <2> QED
    BY <1>1, <2>1 DEF TypeOK
<1>2. CASE lastReads[u] # <<>>
  <2> DEFINE l == lastReads[u][Len(lastReads[u])]
  <2>1. l \in {"some", "empty"}
    BY <1>2 DEF TypeOK
  <2>2. lastReads' = [lastReads EXCEPT ![u] = <<l, r>>]
    BY <1>2 DEF Remember, TypeOK
  <2> HIDE DEF l
  <2>3. <<l, r>> \in Seq({"some", "empty"})
    BY <2>1
  <2>4. lastReads'[u] = <<l, r>>
    BY <2>2 DEF TypeOK
  <2>5. lastReads' \in [User -> Seq({"some", "empty"})]
    BY <2>2, <2>3 DEF TypeOK
  <2>6. lastReads[u] # <<>> => lastReads'[u] = <<lastReads[u][Len(lastReads[u])], r>>
    BY <2>4 DEF l
  <2> QED
    BY <2>2, <2>4, <2>5, <2>6 DEF TypeOK
<1> QED
  BY <1>1, <1>2

\* Applying a listing that found followers keeps the invariant.
LEMMA ApplySomeInv ==
  ASSUME Inv, ApplySome
  PROVE  Inv'
<1> USE DEF env, scanVars, history
<1> DEFINE u == reading
<1>1. /\ u \in User /\ proc # "down" /\ proc' = proc
      /\ Start(u) /\ Remember(u, "some")
      /\ emptyScans' = [emptyScans EXCEPT ![u] = 0]
      /\ reading' = None /\ result' = "error"
      /\ UNCHANGED <<healthy, follower, accepting, scanner, todo>>
  BY DEF ApplySome, ReadingDone, Inv, TypeOK
<1>t. TypeOK
  BY DEF Inv
<1> HIDE DEF u
<1>2. /\ started' \in [User -> Session \cup {None}]
      /\ session' \in [User -> [Session -> {"free", "running", "cancelled"}]]
      /\ emptySinceStart' \in [User -> 0..EmptyScansToStop]
      /\ OneLiveSession'
      /\ DownIsFresh'
  BY <1>1, StartKeepsSessions
<1>3. /\ lastReads' \in [User -> Seq({"some", "empty"})]
      /\ \A v \in User \ {u} : lastReads'[v] = lastReads[v]
  BY <1>1, <1>t, RememberLast
<1>4. TypeOK'
  BY <1>1, <1>2, <1>3, <1>t, NoneAssumption, ThresholdAssumption DEF TypeOK, Result
<1>5. CountedReads' /\ ReadingInScan'
  BY <1>1, <1>3, <1>t DEF Inv, TypeOK, CountedReads, ReadingInScan
<1> QED
  BY <1>2, <1>4, <1>5 DEF Inv

\* Applying a listing that found none keeps the invariant.
LEMMA ApplyEmptyInv ==
  ASSUME Inv, ApplyEmpty
  PROVE  Inv'
<1> USE DEF env, scanVars, history
<1> DEFINE u == reading
<1>1. /\ u \in User /\ proc # "down" /\ proc' = proc
      /\ Stop(u) \/ UNCHANGED <<started, session>>
      /\ Remember(u, "empty")
      /\ emptyScans' = [emptyScans EXCEPT ![u] = AtMost(@ + 1, EmptyScansToStop)]
      /\ emptySinceStart' = [emptySinceStart EXCEPT
                               ![u] = AtMost(@ + 1, EmptyScansToStop)]
      /\ reading' = None /\ result' = "error"
      /\ UNCHANGED <<healthy, follower, accepting, scanner, todo>>
  BY DEF ApplyEmpty, ReadingDone, Inv, TypeOK
<1>t. TypeOK
  BY DEF Inv
<1> HIDE DEF u
<1>2. /\ started' \in [User -> Session \cup {None}]
      /\ session' \in [User -> [Session -> {"free", "running", "cancelled"}]]
      /\ OneLiveSession'
      /\ DownIsFresh'
  <2>1. CASE Stop(u)
    BY <1>1, <2>1, StopKeepsSessions
  <2>2. CASE UNCHANGED <<started, session>>
    BY <1>1, <2>2 DEF Inv, TypeOK, OneLiveSession, DownIsFresh
  <2> QED
    BY <1>1, <2>1, <2>2
<1>3. /\ lastReads' \in [User -> Seq({"some", "empty"})]
      /\ \A v \in User \ {u} : lastReads'[v] = lastReads[v]
      /\ lastReads'[u] # <<>>
      /\ lastReads'[u][Len(lastReads'[u])] = "empty"
  BY <1>1, <1>t, RememberLast
<1>4. \A n \in 0..EmptyScansToStop :
         AtMost(n + 1, EmptyScansToStop) \in 0..EmptyScansToStop
  BY ThresholdAssumption DEF AtMost
<1>5. /\ emptyScans' \in [User -> 0..EmptyScansToStop]
      /\ emptySinceStart' \in [User -> 0..EmptyScansToStop]
  BY <1>1, <1>4, <1>t DEF TypeOK
<1>6. TypeOK'
  BY <1>1, <1>2, <1>3, <1>5, <1>t, NoneAssumption DEF TypeOK, Result
<1>7. CountedReads' /\ ReadingInScan'
  BY <1>1, <1>3, <1>t DEF Inv, TypeOK, CountedReads, ReadingInScan
<1> QED
  BY <1>2, <1>6, <1>7 DEF Inv

\* The rest of the scanner only moves through the listing.
LEMMA ListingInv ==
  ASSUME Inv,
         \/ BeginScan
         \/ \E u \in User : ReadFollowers(u)
         \/ ApplyError
         \/ EndScan
         \/ ExitScanner
  PROVE  Inv'
<1> USE NoneAssumption DEF env, scanVars, history
<1>1. UNCHANGED <<proc, started, session, emptyScans, lastReads>>
  BY DEF BeginScan, ReadFollowers, ApplyError, EndScan, ExitScanner
<1>2. OneLiveSession' /\ DownIsFresh' /\ CountedReads'
  BY <1>1 DEF Inv, OneLiveSession, DownIsFresh, CountedReads
<1>3. TypeOK'
  <2>0. TypeOK
    BY DEF Inv
  <2>1. CASE BeginScan
    <3>1. reading = None
      BY <2>1 DEF Inv, ReadingInScan, BeginScan
    <3> QED
      BY <2>0, <2>1, <3>1 DEF TypeOK, BeginScan
  <2>2. CASE \E u \in User : ReadFollowers(u)
    BY <2>0, <2>2 DEF TypeOK, ReadFollowers
  <2>3. CASE ApplyError
    BY <2>0, <2>3 DEF TypeOK, ApplyError, ReadingDone, Result
  <2>4. CASE EndScan
    BY <2>0, <2>4 DEF TypeOK, EndScan
  <2>5. CASE ExitScanner
    BY <2>0, <2>5 DEF TypeOK, ExitScanner
  <2> QED
    BY <2>1, <2>2, <2>3, <2>4, <2>5
<1>4. ReadingInScan'
  BY DEF BeginScan, ReadFollowers, ApplyError, ReadingDone, EndScan, ExitScanner,
     Inv, ReadingInScan
<1> QED
  BY <1>2, <1>3, <1>4 DEF Inv

\* Sessions ending, shutdown, death, boot and the network keep the invariant.
LEMMA OutsideInv ==
  ASSUME Inv,
         \/ \E u \in User, s \in Session : EndSession(u, s)
         \/ Shutdown
         \/ Die
         \/ Boot
         \/ \E u \in User : Unfollow(u)
         \/ Weather
         \/ UNCHANGED vars
  PROVE  Inv'
<1> USE DEF env, scanVars, history
<1>t. TypeOK
  BY DEF Inv
<1>1. CASE \E u \in User, s \in Session : EndSession(u, s)
  <2> PICK u \in User, s \in Session : EndSession(u, s)
    BY <1>1
  <2>1. session' \in [User -> [Session -> {"free", "running", "cancelled"}]]
    BY <1>t DEF EndSession, TypeOK
  <2>2. OneLiveSession'
    <3> SUFFICES ASSUME NEW v \in User, NEW r \in Session
                 PROVE  session'[v][r] = "running" <=> session[v][r] = "running"
      BY DEF EndSession, Inv, OneLiveSession
    <3> QED
      BY <1>t DEF EndSession, TypeOK
  <2> QED
    BY <2>1, <2>2 DEF EndSession, Inv, TypeOK, DownIsFresh, CountedReads,
       ReadingInScan
<1>2. CASE Shutdown
  <2>1. session' \in [User -> [Session -> {"free", "running", "cancelled"}]]
    BY <1>t, <1>2 DEF Shutdown, TypeOK
  <2>2. \A u \in User, s \in Session : session'[u][s] # "running"
    BY <1>2 DEF Shutdown
  <2> QED
    BY <1>2, <2>1, <2>2 DEF Shutdown, Inv, TypeOK, OneLiveSession, DownIsFresh,
       CountedReads, ReadingInScan
<1>3. CASE Die
  BY <1>3, NoneAssumption, ThresholdAssumption
     DEF Die, Inv, TypeOK, OneLiveSession, DownIsFresh, CountedReads,
     ReadingInScan, NothingStarted, NoSessions, NoCounts, NoReads, Result
<1>4. CASE Boot
  BY <1>4, NoneAssumption
     DEF Boot, Inv, TypeOK, OneLiveSession, DownIsFresh, CountedReads,
     ReadingInScan, NothingStarted, NoSessions
<1>5. CASE \E u \in User : Unfollow(u)
  BY <1>5 DEF Unfollow, Inv, TypeOK, OneLiveSession, DownIsFresh, CountedReads,
     ReadingInScan
<1>6. CASE Weather
  BY <1>6 DEF Weather, Inv, TypeOK, OneLiveSession, DownIsFresh, CountedReads,
     ReadingInScan
<1>7. CASE UNCHANGED vars
  BY <1>7 DEF vars, Inv, TypeOK, OneLiveSession, DownIsFresh, CountedReads,
     ReadingInScan
<1> QED
  BY <1>1, <1>2, <1>3, <1>4, <1>5, <1>6, <1>7

-----------------------------------------------------------------------------
\* Every step keeps the invariant.
LEMMA NextInv == Inv /\ [Next]_vars => Inv'
<1> SUFFICES ASSUME Inv, [Next]_vars PROVE Inv'
  OBVIOUS
<1>1. CASE Scanner
  BY <1>1, ApplySomeInv, ApplyEmptyInv, ListingInv DEF Scanner
<1>2. CASE \E u \in User : PersistFollower(u) \/ OnFollowed(u)
  BY <1>2, AcceptInv
<1>3. CASE \/ \E u \in User, s \in Session : EndSession(u, s)
           \/ Shutdown
           \/ Die
           \/ Boot
           \/ \E u \in User : Unfollow(u)
           \/ Weather
           \/ UNCHANGED vars
  BY <1>3, OutsideInv
<1> QED
  BY <1>1, <1>2, <1>3 DEF Next

\* The invariant holds in every reachable state of the gateway.
THEOREM Invariance == Spec => []Inv
<1> QED
  BY InitInv, NextInv, PTL DEF Spec

\* The variables keep their types; in particular no user is listed while still
\* due to be listed in the same scan.
THEOREM TypeCorrect == Spec => []TypeOK
<1>1. Inv => TypeOK
  BY DEF Inv
<1> QED
  BY <1>1, Invariance, PTL

\* Whatever follows, scans, stops, shutdowns and restarts interleave, the running
\* pollers are exactly those whose cancel function is kept in o.started.
THEOREM ExactlyOneSession == Spec => []OneLiveSession
<1>1. Inv => OneLiveSession
  BY DEF Inv
<1> QED
  BY <1>1, Invariance, PTL

-----------------------------------------------------------------------------
\* Only an empty listing stops a user in a process that stays up, and then the
\* user's two latest conclusive reads were empty.
LEMMA StopStep ==
  ASSUME Inv, [Next]_vars, NEW u \in User,
         started[u] # None, started'[u] = None, proc' # "down"
  PROVE  lastReads'[u] = <<"empty", "empty">>
<1> USE DEF env, scanVars, history
<1>t. TypeOK
  BY DEF Inv
<1>1. CASE ApplyEmpty
  <2> DEFINE v == reading
  <2>1. /\ v \in User /\ proc # "down" /\ proc' = proc
        /\ Remember(v, "empty")
        /\ emptyScans' = [emptyScans EXCEPT ![v] = AtMost(@ + 1, EmptyScansToStop)]
        /\ IF emptyScans'[v] >= EmptyScansToStop
           THEN Stop(v) ELSE UNCHANGED <<started, session>>
    BY <1>1 DEF ApplyEmpty, Inv, TypeOK
  <2> HIDE DEF v
  <2>2. emptyScans'[v] >= EmptyScansToStop /\ Stop(v)
    BY <2>1
  <2>3. u = v
    BY <2>1, <2>2, StopKeepsSessions
  <2>4. emptyScans[v] \in Nat /\ emptyScans'[v] = AtMost(emptyScans[v] + 1, EmptyScansToStop)
    BY <2>1, <1>t, ThresholdAssumption DEF TypeOK
  <2>5. emptyScans[v] > 0
    BY <2>2, <2>4, ThresholdAssumption DEF AtMost
  <2>6. lastReads[v] # <<>> /\ lastReads[v][Len(lastReads[v])] = "empty"
    BY <2>1, <2>5 DEF Inv, CountedReads
  <2> QED
    BY <2>1, <2>3, <2>6, <1>t, RememberLast
<1>2. CASE ApplySome
  <2>1. /\ reading \in User /\ proc # "down" /\ proc' = proc /\ Start(reading)
    BY <1>2 DEF ApplySome, Inv, TypeOK
  <2>2. started'[u] # None
    BY <2>1, StartKeepsSessions
  <2> QED
    BY <2>2
<1>3. CASE \E v \in User : OnFollowed(v)
  <2> PICK v \in User : OnFollowed(v)
    BY <1>3
  <2>1. proc # "down" /\ proc' = proc
    BY DEF OnFollowed
  <2>2. started'[u] # None
    <3>1. CASE Start(v)
      BY <2>1, <3>1, StartKeepsSessions
    <3>2. CASE UNCHANGED started
      BY <3>2
    <3> QED
      BY <3>1, <3>2 DEF OnFollowed
  <2> QED
    BY <2>2
<1>4. CASE UNCHANGED started
  BY <1>4
<1>5. CASE Die
  BY <1>5 DEF Die
<1> QED
  BY <1>1, <1>2, <1>3, <1>4, <1>5
     DEF Next, Scanner, vars, BeginScan, ReadFollowers, ApplyError, EndScan,
     ExitScanner, PersistFollower, Unfollow, EndSession, Shutdown, Boot, Weather

\* Federation of a user is never stopped on a failed read, nor on a first empty
\* one after a non-empty one.
THEOREM TwoEmptyReads == Spec => StopNeedsTwoEmptyReads
<1>1. Inv /\ [Next]_vars =>
        [\A u \in User :
           started[u] # None /\ started'[u] = None /\ proc' # "down" =>
             lastReads'[u] = <<"empty", "empty">>]_vars
  BY StopStep
<1> QED
  BY <1>1, Invariance, PTL DEF Spec, StopNeedsTwoEmptyReads
=============================================================================
