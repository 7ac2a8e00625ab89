------------------------------ MODULE RateLimit ------------------------------
(***************************************************************************)
(* The request throttle of the HTTP side (rate-limit.go): one global       *)
(* limiter, one limiter per client IP in an expirable LRU, the middleware  *)
(* that refuses requests of a locked limiter, and the drain that replaces  *)
(* a limiter that stayed locked.                                           *)
(*                                                                         *)
(* A limiter is the library's sliding-window log over the gateway's own    *)
(* taskQueue.  Only Limit() expires tasks, and the middleware does not     *)
(* call it on a locked limiter: once over budget nothing but the drain     *)
(* brings a limiter back.  Time is counted in ticks and kept as ages.      *)
(* A request looks its limiters up, and charges them later: between the    *)
(* two the drain may replace them, and a request that crosses the global   *)
(* budget is held by the library before it reaches its client's limiter.   *)
(***************************************************************************)
EXTENDS Integers, Sequences, FiniteSetsExt

CONSTANTS
  Clients,        \* client IPs; fewer than maxClientLimiters, so none is crowded out
  Handlers,       \* requests served at a time
  Routes,         \* classes of paths requested
  ClientBudget, GlobalBudget,
  Window,         \* the sliding window, in ticks
  TTL,            \* clientLimiterTTL, in ticks; the code has five windows
  Modulus         \* the width of the library's unsigned total

ASSUME ClientsAssumption == "global" \notin Clients /\ "nobody" \notin Clients

\* The library holds a request for up to a window, so an entry of the LRU has
\* to outlive two of them.
ASSUME TimesAssumption == Window \in Nat \ {0} /\ TTL \in Nat /\ TTL > 2 * Window

\* The library's total is an unsigned machine word.
ASSUME WidthsAssumption ==
  ClientBudget \in Nat /\ GlobalBudget \in Nat /\ Modulus \in Nat \ {0}

VARIABLES
  global,   \* the current global limiter
  clients,  \* the LRU: the limiter of each client, or None
  idle,     \* ticks since a client's entry was last added
  since,    \* the drain's lockedSince, as an age; Unseen when it has no entry
  peeked,   \* the client whose limiter the drain found stuck and is replacing
  req       \* the requests being served

vars == <<global, clients, idle, since, peeked, req>>

None == [none |-> TRUE]
Nobody == "nobody"
Unseen == -1
Global == "global"    \* the drain's entry for the global limiter

\* A route is the class of a path: "actor" is a user's document, "instance" the
\* gateway's own.
Control == {"actor", "instance", "inbox", "webfinger"}

isControlPlane(r) == r \in Control

requestWeight(r) ==
  CASE r = "media" -> 8
    [] r \in {"inbox", "collection"} -> 4
    [] r \in {"actor", "webfinger"} -> 2
    [] OTHER -> 1

------------------------------------------------------------------------------
(* Limiters *)

newLimiter == [tasks |-> <<>>, total |-> 0, late |-> FALSE]

IsLocked(l, budget) == l.total > budget

\* A task of weight w stands for w units; the weight of tasks is their number.
Units(tasks) == UNION {{i} \X (1..tasks[i].weight) : i \in DOMAIN tasks}

Weight(tasks) == Cardinality(Units(tasks))

\* Faulty variant: the library's own queue ignores a cut at or past its end.
CutOffBeforeEndIgnored(tasks, start) ==
  IF start >= Len(tasks) THEN tasks ELSE SubSeq(tasks, start + 1, Len(tasks))

CutOffBefore(tasks, start) ==
  IF start >= Len(tasks) THEN <<>> ELSE SubSeq(tasks, start + 1, Len(tasks))

\* Limit: the expired prefix is subtracted from the total and cut off the
\* queue, the request is appended.  `late` is a ghost: the limiter was charged
\* by a request that had been held since its look-up.
Limit(l, w, held) ==
  LET expired == {i \in 1..Len(l.tasks) : l.tasks[i].age >= Window}
      start == IF expired = {} THEN 0 ELSE Max(expired)
      gone == Weight(SubSeq(l.tasks, 1, start))
  IN [tasks |-> Append(CutOffBefore(l.tasks, start), [age |-> 0, weight |-> w]),
      total |-> (l.total - gone + w) % Modulus,
      late |-> l.late \/ held > 0]

------------------------------------------------------------------------------
Idle == [at |-> "idle"]

Init ==
  /\ global = newLimiter
  /\ clients = [c \in Clients |-> None]
  /\ idle = [c \in Clients |-> 0]
  /\ since = [x \in Clients \cup {Global} |-> Unseen]
  /\ peeked = Nobody
  /\ req = [h \in Handlers |-> Idle]

\* client(): get or create, re-adding the entry so that its TTL starts again.
client(c) ==
  /\ clients' = [clients EXCEPT ![c] = IF @ = None THEN newLimiter ELSE @]
  /\ idle' = [idle EXCEPT ![c] = 0]

\* A control-plane request is answered for the client's own budget only.
Refuses(l, g, r) ==
  \/ IsLocked(l, ClientBudget)
  \/ ~isControlPlane(r) /\ IsLocked(g, GlobalBudget)

\* The middleware looks both limiters up and refuses, or goes on to charge
\* the global one, or at once the client's for the control plane.  `g` and
\* `l` say whether the limiter the request holds is still the current one.
Request(h, c, r) ==
  /\ req[h] = Idle
  /\ client(c)
  /\ req' = [req EXCEPT ![h] =
       [at |-> IF Refuses(clients[c]', global, r) THEN "refused"
               ELSE IF isControlPlane(r) THEN "client" ELSE "global",
        client |-> c, route |-> r, held |-> 0, g |-> TRUE, l |-> TRUE]]
  /\ UNCHANGED <<global, since, peeked>>

Refuse(h) ==
  /\ req[h].at = "refused"
  /\ req' = [req EXCEPT ![h] = Idle]
  /\ UNCHANGED <<global, clients, idle, since, peeked>>

ChargeGlobal(h) ==
  /\ req[h].at = "global"
  /\ global' = IF req[h].g
               THEN Limit(global, requestWeight(req[h].route), req[h].held)
               ELSE global
  /\ req' = [req EXCEPT ![h].at = "client"]
  /\ UNCHANGED <<clients, idle, since, peeked>>

ChargeClient(h) ==
  /\ req[h].at = "client"
  /\ clients' = [clients EXCEPT ![req[h].client] =
       IF req[h].l THEN Limit(@, requestWeight(req[h].route), req[h].held) ELSE @]
  /\ req' = [req EXCEPT ![h] = Idle]
  /\ UNCHANGED <<global, idle, since, peeked>>

------------------------------------------------------------------------------
(* The drain *)

\* Requests in flight keep the limiter they looked up.
Orphan(field, S) ==
  req' = [h \in Handlers |-> IF req[h] # Idle /\ (field = "g" \/ req[h].client \in S)
                             THEN [req[h] EXCEPT ![field] = FALSE] ELSE req[h]]

\* Faulty variant: the second drain tick that finds it locked replaces it.
StuckEarly(x, locked) == locked /\ since[x] # Unseen

Stuck(x, locked) == locked /\ since[x] >= Window

\* Faulty variant: every drain tick starts the wait again.
SeenForgetful(x, locked) == IF locked THEN 0 ELSE Unseen

\* What lockedSince becomes at a drain tick for a limiter that is not replaced.
Seen(x, locked) ==
  CASE ~locked -> Unseen
    [] locked /\ since[x] = Unseen -> 0
    [] OTHER -> since[x]

resetGlobalIfStuck ==
  LET locked == IsLocked(global, GlobalBudget)
  IN IF Stuck(Global, locked)
     THEN /\ global' = newLimiter
          /\ since' = [since EXCEPT ![Global] = Unseen]
          /\ Orphan("g", {})
     ELSE /\ since' = [since EXCEPT ![Global] = Seen(Global, locked)]
          /\ UNCHANGED <<global, req>>

DrainGlobal ==
  /\ peeked = Nobody
  /\ resetGlobalIfStuck
  /\ UNCHANGED <<clients, idle, peeked>>

Peek(c) ==
  LET locked == clients[c] # None /\ IsLocked(clients[c], ClientBudget)
  IN /\ peeked = Nobody
     /\ peeked' = IF Stuck(c, locked) THEN c ELSE Nobody
     /\ since' = [since EXCEPT ![c] = Seen(c, locked)]
     /\ UNCHANGED <<global, clients, idle, req>>

resetStuckClient(c) ==
  /\ peeked = c
  /\ clients' = [clients EXCEPT ![c] = newLimiter]
  /\ idle' = [idle EXCEPT ![c] = 0]
  /\ since' = [since EXCEPT ![c] = Unseen]
  /\ peeked' = Nobody
  /\ Orphan("l", {c})
  /\ UNCHANGED global

\* The LRU drops an entry that was not added again for its TTL.
Evict(c) ==
  /\ clients[c] # None
  /\ idle[c] >= TTL
  /\ clients' = [clients EXCEPT ![c] = None]
  /\ Orphan("l", {c})
  /\ UNCHANGED <<global, idle, since, peeked>>

------------------------------------------------------------------------------
Older(n, cap) == IF n = Unseen \/ n >= cap THEN n ELSE n + 1

AgedTask(t) == [t EXCEPT !.age = Older(@, Window)]

Aged(l) ==
  [tasks |-> [i \in DOMAIN l.tasks |-> AgedTask(l.tasks[i])], total |-> l.total, late |-> l.late]

Locked(x) ==
  IF x = Global THEN IsLocked(global, GlobalBudget)
  ELSE clients[x] # None /\ IsLocked(clients[x], ClientBudget)

\* A clock tick.  drainInterval is a small part of a tick, so by its end the
\* drain has looked at every limiter and replaced every one that was due; and
\* the library holds a request for no more than its window.
Tick ==
  /\ peeked = Nobody
  /\ \A h \in Handlers : req[h] # Idle => req[h].held < Window
  /\ \A x \in DOMAIN since :
       since[x] \in IF Locked(x) THEN 0..(Window - 1) ELSE {Unseen}
  /\ global' = Aged(global)
  /\ clients' = [c \in Clients |-> IF clients[c] = None THEN None ELSE Aged(clients[c])]
  /\ idle' = [c \in Clients |-> Older(idle[c], TTL)]
  /\ since' = [x \in DOMAIN since |-> Older(since[x], Window)]
  /\ req' = [h \in Handlers |-> IF req[h] = Idle THEN Idle
                                ELSE [req[h] EXCEPT !.held = @ + 1]]
  /\ UNCHANGED peeked

Serve(h) == Refuse(h) \/ ChargeGlobal(h) \/ ChargeClient(h)

Drain == DrainGlobal \/ \E c \in Clients : Peek(c) \/ resetStuckClient(c)

Next ==
  \/ \E h \in Handlers, c \in Clients, r \in Routes : Request(h, c, r)
  \/ \E h \in Handlers : Serve(h)
  \/ Drain
  \/ \E c \in Clients : Evict(c)
  \/ Tick

\* The ticker fires for as long as the gateway runs (main starts the drain
\* once), the clock advances and a handler that was admitted goes on.
Fairness ==
  /\ WF_vars(Tick)
  /\ WF_vars(DrainGlobal)
  /\ \A c \in Clients : WF_vars(Peek(c)) /\ WF_vars(resetStuckClient(c))
  /\ \A h \in Handlers : WF_vars(Serve(h))

Spec == Init /\ [][Next]_vars /\ Fairness

------------------------------------------------------------------------------
(* Properties *)

Overspent(l, budget) == l # None /\ Weight(l.tasks) > budget

\* A request is refused only when the requests recorded against its client,
\* or for the data plane against everybody, really exceed the budget: idle
\* gaps never make the unsigned total wrap, and crawlers that spend the global
\* budget never lock the control plane out (taskQueue, middleware).
RefusalIsEarned ==
  [][\A h \in Handlers :
       req'[h].at = "refused" /\ req[h] = Idle =>
         \/ Overspent(clients[req'[h].client], ClientBudget)
         \/ ~isControlPlane(req'[h].route) /\ Overspent(global, GlobalBudget)]_vars

Drained(l) == \A i \in DOMAIN l.tasks : l.tasks[i].age >= Window

\* A limiter is dropped for a fresh budget, by the drain or by the LRU, only
\* when its sliding window is empty; the exception is a limiter that was
\* charged by a request the library had held (drain, client).
FreshBudgetOnlyAfterWindow ==
  [][/\ global' = newLimiter /\ ~global.late => Drained(global)
     /\ \A c \in Clients :
          clients[c] # None /\ clients'[c] \in {None, newLimiter} /\ ~clients[c].late
            => Drained(clients[c])]_vars

\* Nobody is refused for ever: every limiter is again and again unlocked,
\* although no request that finds it locked expires its tasks (drain).
NoLimiterStaysLocked ==
  /\ []<>~IsLocked(global, GlobalBudget)
  /\ \A c \in Clients : []<>(clients[c] = None \/ ~IsLocked(clients[c], ClientBudget))
==============================================================================
