----------------------------- MODULE Federation -----------------------------
(***************************************************************************)
(* Which Warpnet users a gateway federates: outboundFederation             *)
(* (outbound.go) with its start, stop and scanner, the onFollowed callback *)
(* that accepted Follows call (inbox.go, main.go), shutdown and restart.   *)
(*                                                                         *)
(* A session stands for what one start() spawns under one cancellable      *)
(* context: the tweet poller, the follow poller and the profile update.    *)
(* The follower graph lives in the network and survives the gateway; one   *)
(* Boolean per user says whether it holds a Fediverse follower of theirs.  *)
(* While the network is not healthy a listing may fail or read empty: the  *)
(* owner node does not answer and another member reads back nothing, or    *)
(* no follower's handle resolves (nodefollowers.go).                       *)
(***************************************************************************)
EXTENDS Naturals, Sequences

CONSTANTS
  User,                   \* users whose network is not a bridged one
  Session,                \* identities for sessions, reused when one has ended
  None,
  EmptyScansToStop        \* emptyScansToStop

ASSUME NoneAssumption == None \notin Session /\ None \notin User
ASSUME ThresholdAssumption == EmptyScansToStop \in Nat \ {0, 1}

VARIABLES
  proc,                   \* "up", "stopping" after appCancel(), or "down"
  healthy,                \* reads of the network are complete and authoritative
  follower,               \* the graph: u has a Fediverse follower
  accepting,              \* acceptFollow is past followers.Add, before onFollowed
  started,                \* o.started[u]: the session whose cancel is kept, or None
  session,                \* the state of each session of each user
  emptyScans,             \* o.emptyScans[u], saturated at the threshold
  scanner,                \* "idle", "scanning" or "exited"
  todo,                   \* users of the listing that this scan has yet to visit
  reading,                \* the user whose followers were listed, or None
  result,                 \* what that listing returned
  lastReads,              \* history: the last two conclusive reads of u
  emptySinceStart         \* history: empty reads applied since u was started

vars == <<proc, healthy, follower, accepting, started, session, emptyScans,
          scanner, todo, reading, result, lastReads, emptySinceStart>>

env == <<healthy, follower>>
scanVars == <<scanner, todo, reading, result>>
history == <<lastReads, emptySinceStart>>

Result == {"some", "empty", "error"}

TypeOK ==
  /\ proc \in {"up", "stopping", "down"}
  /\ healthy \in BOOLEAN
  /\ follower \in [User -> BOOLEAN]
  /\ accepting \in SUBSET User
  /\ started \in [User -> Session \cup {None}]
  /\ session \in [User -> [Session -> {"free", "running", "cancelled"}]]
  /\ emptyScans \in [User -> 0..EmptyScansToStop]
  /\ scanner \in {"idle", "scanning", "exited"}
  /\ todo \in SUBSET User
  /\ reading \in (User \cup {None}) \ todo
  /\ result \in Result
  /\ lastReads \in [User -> Seq({"some", "empty"})]
  /\ emptySinceStart \in [User -> 0..EmptyScansToStop]

\* A gateway that has just started knows nothing: it persists no federation state.
NothingStarted == [u \in User |-> None]
NoSessions == [u \in User |-> [s \in Session |-> "free"]]
NoCounts == [u \in User |-> 0]
NoReads == [u \in User |-> <<>>]

Init ==
  /\ proc = "up"
  /\ healthy \in BOOLEAN
  /\ follower \in [User -> BOOLEAN]
  /\ accepting = {}
  /\ started = NothingStarted
  /\ session = NoSessions
  /\ emptyScans = NoCounts
  /\ scanner = "idle"
  /\ todo = {}
  /\ reading = None
  /\ result = "error"
  /\ lastReads = NoReads
  /\ emptySinceStart = NoCounts

AtMost(n, bound) == IF n > bound THEN bound ELSE n

-----------------------------------------------------------------------------
(* start() and stop(), both under o.mu. *)

\* Faulty variant: a second start spawns again and overwrites the cancel.
StartAgain(u) ==
  \E s \in Session :
    /\ session[u][s] = "free"
    /\ started' = [started EXCEPT ![u] = s]
    /\ session' = [session EXCEPT ![u][s] =
                     IF proc = "up" THEN "running" ELSE "cancelled"]
    /\ emptySinceStart' = [emptySinceStart EXCEPT ![u] = 0]

\* Idempotent per user.  Under a cancelled o.ctx the child context is born
\* cancelled.
Start(u) ==
  \/ /\ started[u] # None
     /\ UNCHANGED <<started, session, emptySinceStart>>
  \/ /\ started[u] = None
     /\ \E s \in Session :
          /\ session[u][s] = "free"
          /\ started' = [started EXCEPT ![u] = s]
          /\ session' = [session EXCEPT ![u][s] =
                           IF proc = "up" THEN "running" ELSE "cancelled"]
     /\ emptySinceStart' = [emptySinceStart EXCEPT ![u] = 0]

Stop(u) ==
  \/ /\ started[u] = None
     /\ UNCHANGED <<started, session>>
  \/ /\ started[u] # None
     /\ started' = [started EXCEPT ![u] = None]
     /\ session' = [session EXCEPT ![u][started[u]] = "cancelled"]

-----------------------------------------------------------------------------
(* Inbound Follows.  acceptFollow stores the follower, then calls onFollowed; *)
(* the two are separate steps and the store may fail without stopping it.     *)
(* Follows are still accepted while the gateway shuts down.                   *)

PersistFollower(u) ==
  /\ proc # "down"
  /\ u \notin accepting
  /\ accepting' = accepting \cup {u}
  /\ follower' \in {follower, [follower EXCEPT ![u] = TRUE]}
  /\ healthy /\ proc = "up" => follower'[u]
  /\ UNCHANGED <<proc, healthy, started, session, emptyScans, scanVars, history>>

\* nodes.locate may fail to find the user's network; then nothing starts.
OnFollowed(u) ==
  /\ proc # "down"
  /\ u \in accepting
  /\ accepting' = accepting \ {u}
  /\ \/ Start(u)
     \/ ~healthy /\ UNCHANGED <<started, session, emptySinceStart>>
  /\ UNCHANGED <<proc, env, emptyScans, scanVars, lastReads>>

-----------------------------------------------------------------------------
(* The scanner goroutine. *)

\* The timer elapses, or the gateway has just started: page the users.  When the
\* context is done too, the select may still pick the timer.
BeginScan ==
  /\ proc # "down"
  /\ scanner = "idle"
  /\ scanner' = "scanning"
  /\ todo' = User
  /\ UNCHANGED <<proc, env, accepting, started, session, emptyScans, reading,
                 result, history>>

\* followers.List(u): the state it returns may be stale when it is applied.
ReadFollowers(u) ==
  /\ proc # "down"
  /\ scanner = "scanning"
  /\ reading = None
  /\ u \in todo
  /\ todo' = todo \ {u}
  /\ reading' = u
  /\ result' \in Result
  /\ follower[u] /\ healthy => result' = "some"
  /\ ~follower[u] => result' # "some"
  /\ ~follower[u] /\ healthy => result' = "empty"
  /\ UNCHANGED <<proc, env, accepting, started, session, emptyScans, scanner,
                 history>>

Remember(u, r) ==
  lastReads' = [lastReads EXCEPT ![u] =
                  IF @ = <<>> THEN <<r>> ELSE <<@[Len(@)], r>>]

ReadingDone ==
  /\ reading' = None
  /\ result' = "error"

\* A listing that failed leaves the user untouched.
ApplyError ==
  /\ proc # "down"
  /\ reading # None
  /\ result = "error"
  /\ ReadingDone
  /\ UNCHANGED <<proc, env, accepting, started, session, emptyScans, scanner,
                 todo, history>>

\* Faulty variant: the count of empty scans is not reset.
ApplySomeKeepingCount ==
  /\ proc # "down"
  /\ reading # None
  /\ result = "some"
  /\ Start(reading)
  /\ Remember(reading, "some")
  /\ ReadingDone
  /\ UNCHANGED <<proc, env, accepting, emptyScans, scanner, todo>>

\* Faulty variant: the scanner only counts, it never starts anyone.
ApplySomeWithoutStart ==
  /\ proc # "down"
  /\ reading # None
  /\ result = "some"
  /\ emptyScans' = [emptyScans EXCEPT ![reading] = 0]
  /\ Remember(reading, "some")
  /\ ReadingDone
  /\ UNCHANGED <<proc, env, accepting, started, session, emptySinceStart,
                 scanner, todo>>

ApplySome ==
  /\ proc # "down"
  /\ reading # None
  /\ result = "some"
  /\ emptyScans' = [emptyScans EXCEPT ![reading] = 0]
  /\ Start(reading)
  /\ Remember(reading, "some")
  /\ ReadingDone
  /\ UNCHANGED <<proc, env, accepting, scanner, todo>>

\* Faulty variant: == instead of >=, which misses users that were already
\* reading empty when a follow started them.
ApplyEmptyExactly ==
  /\ proc # "down"
  /\ reading # None
  /\ result = "empty"
  /\ emptyScans' = [emptyScans EXCEPT ![reading] = AtMost(@ + 1, EmptyScansToStop)]
  /\ IF emptyScans[reading] + 1 = EmptyScansToStop
     THEN Stop(reading) ELSE UNCHANGED <<started, session>>
  /\ emptySinceStart' = [emptySinceStart EXCEPT
                           ![reading] = AtMost(@ + 1, EmptyScansToStop)]
  /\ Remember(reading, "empty")
  /\ ReadingDone
  /\ UNCHANGED <<proc, env, accepting, scanner, todo>>

\* Saturating the count loses nothing: only >= reads it.
ApplyEmpty ==
  /\ proc # "down"
  /\ reading # None
  /\ result = "empty"
  /\ emptyScans' = [emptyScans EXCEPT ![reading] = AtMost(@ + 1, EmptyScansToStop)]
  /\ IF emptyScans'[reading] >= EmptyScansToStop
     THEN Stop(reading) ELSE UNCHANGED <<started, session>>
  /\ emptySinceStart' = [emptySinceStart EXCEPT
                           ![reading] = AtMost(@ + 1, EmptyScansToStop)]
  /\ Remember(reading, "empty")
  /\ ReadingDone
  /\ UNCHANGED <<proc, env, accepting, scanner, todo>>

\* The listing is exhausted; or, in trouble, a page of it could not be read and
\* the rest of the users are not visited this time.
EndScan ==
  /\ proc # "down"
  /\ scanner = "scanning"
  /\ reading = None
  /\ todo = {} \/ ~healthy
  /\ scanner' = IF proc = "up" THEN "idle" ELSE "exited"
  /\ todo' = {}
  /\ UNCHANGED <<proc, env, accepting, started, session, emptyScans, reading,
                 result, history>>

\* The waiting scanner selects o.ctx.Done().
ExitScanner ==
  /\ proc = "stopping"
  /\ scanner = "idle"
  /\ scanner' = "exited"
  /\ UNCHANGED <<proc, env, accepting, started, session, emptyScans, todo,
                 reading, result, history>>

-----------------------------------------------------------------------------
(* Sessions, the process and the network. *)

\* The tasks of a cancelled session finish what they were doing and return.
EndSession(u, s) ==
  /\ proc # "down"
  /\ session[u][s] = "cancelled"
  /\ session' = [session EXCEPT ![u][s] = "free"]
  /\ UNCHANGED <<proc, env, accepting, started, emptyScans, scanVars, history>>

\* Faulty variant: the contexts of the sessions are not children of o.ctx.
ShutdownOrphaning ==
  /\ proc = "up"
  /\ proc' = "stopping"
  /\ UNCHANGED <<env, accepting, started, session, emptyScans, scanVars, history>>

\* SIGTERM: appCancel() cancels o.ctx and with it every session's context.
Shutdown ==
  /\ proc = "up"
  /\ proc' = "stopping"
  /\ session' = [u \in User |-> [s \in Session |->
                   IF session[u][s] = "running" THEN "cancelled"
                   ELSE session[u][s]]]
  /\ UNCHANGED <<env, accepting, started, emptyScans, scanVars, history>>

\* main returns, or the process dies: everything in memory is gone.
Die ==
  /\ proc # "down"
  /\ proc' = "down"
  /\ accepting' = {}
  /\ started' = NothingStarted
  /\ session' = NoSessions
  /\ emptyScans' = NoCounts
  /\ scanner' = "idle"
  /\ todo' = {}
  /\ reading' = None
  /\ result' = "error"
  /\ lastReads' = NoReads
  /\ emptySinceStart' = NoCounts
  /\ UNCHANGED env

Boot ==
  /\ proc = "down"
  /\ proc' = "up"
  /\ UNCHANGED <<env, accepting, started, session, emptyScans, scanVars, history>>

\* The follower graph changes without the gateway: an Undo reaches the node.
Unfollow(u) ==
  /\ follower[u]
  /\ follower' = [follower EXCEPT ![u] = FALSE]
  /\ UNCHANGED <<proc, healthy, accepting, started, session, emptyScans,
                 scanVars, history>>

Weather ==
  /\ healthy' = ~healthy
  /\ UNCHANGED <<proc, follower, accepting, started, session, emptyScans,
                 scanVars, history>>

Scanner ==
  \/ BeginScan
  \/ \E u \in User : ReadFollowers(u)
  \/ ApplyError
  \/ ApplySome
  \/ ApplyEmpty
  \/ EndScan
  \/ ExitScanner

Next ==
  \/ Scanner
  \/ \E u \in User : PersistFollower(u) \/ OnFollowed(u) \/ Unfollow(u)
  \/ \E u \in User, s \in Session : EndSession(u, s)
  \/ Shutdown
  \/ Die
  \/ Boot
  \/ Weather

Spec == Init /\ [][Next]_vars

\* Goroutines that can run do: the scanner, whose timer always elapses again,
\* the acceptances in progress and the cancelled sessions.  Nothing is assumed
\* of the network, of the followers or of the operator.
Fairness ==
  /\ WF_vars(Scanner)
  /\ \A u \in User : WF_vars(OnFollowed(u))
  /\ \A u \in User, s \in Session : WF_vars(EndSession(u, s))

FairSpec == Spec /\ Fairness

-----------------------------------------------------------------------------
(* Correctness. *)

\* Exactly the session recorded for a user runs: repeated and concurrent follows
\* never leave a second set of pollers, stop() never leaves an uncancelled one
\* behind, and none survives the cancellation of the application's context.
OneLiveSession ==
  \A u \in User, s \in Session :
    session[u][s] = "running" <=> proc = "up" /\ started[u] = s

\* A scan stops a user's federation only when the two latest conclusive reads of
\* the user's followers were both empty; a failed read is not one of them and a
\* non-empty read in between starts the count again (outbound.go:311, 315-325).
StopNeedsTwoEmptyReads ==
  [][\A u \in User :
       started[u] # None /\ started'[u] = None /\ proc' # "down" =>
         lastReads'[u] = <<"empty", "empty">>]_vars

\* "A real unfollow keeps reading empty, so require it twice" (outbound.go:320):
\* a user who has a Fediverse follower is stopped only after two empty reads that
\* were applied since that user's federation was started, so that one blip of the
\* owner node does not end it.
OneBlipNeverStops ==
  [][\A u \in User :
       follower[u] /\ started[u] # None /\ started'[u] = None /\ proc' # "down" =>
         emptySinceStart'[u] >= EmptyScansToStop]_vars

\* Federation resumes from the follower graph alone, whatever happened before: a
\* running gateway that can read the network federates every user who keeps a
\* Fediverse follower.
Resumes ==
  \A u \in User :
    <>[](proc = "up" /\ healthy /\ follower[u]) => <>[](started[u] # None)

\* Federation of a user whose last Fediverse follower is gone ends, and so do the
\* tasks spawned for it.
StopsForGood ==
  \A u \in User :
    <>[](proc = "up" /\ healthy /\ ~follower[u] /\ u \notin accepting) =>
      <>[](started[u] = None /\ \A s \in Session : session[u][s] = "free")

\* After appCancel every task ends although scans and acceptances already under
\* way may still call start().
DrainsAfterShutdown ==
  <>[](proc = "stopping") =>
    <>[](scanner = "exited" /\ \A u \in User, s \in Session : session[u][s] = "free")
=============================================================================
