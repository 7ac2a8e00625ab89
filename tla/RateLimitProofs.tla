--------------------------- MODULE RateLimitProofs ---------------------------
(***************************************************************************)
(* Proofs about the throttle for any clients, handlers, routes, budgets,   *)
(* any window, any TTL of more than two windows and any width of the       *)
(* library's total.  What the total adds up to plays no part in when a     *)
(* limiter is replaced (Inv), and decides who is refused (CountsInv).      *)
(***************************************************************************)
EXTENDS RateLimit, WellFoundedInduction, FiniteSetTheorems, TLAPS

Task == [age : Nat, weight : Nat]

IsLimiter(l) ==
  /\ l = [tasks |-> l.tasks, total |-> l.total, late |-> l.late]
  /\ l.tasks \in Seq(Task)
  /\ l.late \in BOOLEAN

Served ==
  [at : {"refused", "global", "client"}, client : Clients, route : Routes,
   held : 0..Window, g : BOOLEAN, l : BOOLEAN]

TypeOK ==
  /\ IsLimiter(global)
  /\ clients = [c \in Clients |-> clients[c]]
  /\ \A c \in Clients : clients[c] = None \/ IsLimiter(clients[c])
  /\ idle \in [Clients -> Nat]
  /\ since \in [Clients \cup {Global} -> {Unseen} \cup (0..Window)]
  /\ peeked \in Clients \cup {Nobody}
  /\ req \in [Handlers -> Served \cup {Idle}]

\* A request in flight that will still charge the current limiter of x.
Holds(h, x) ==
  IF x = Global THEN req[h].at = "global" /\ req[h].g
  ELSE req[h].at \in {"global", "client"} /\ req[h].client = x /\ req[h].l

\* For how long those that may still charge it have been held.
Charging(x) == {req[h].held : h \in {k \in Handlers : Holds(k, x)}}

\* While the drain has seen a limiter locked for s ticks, its tasks are at
\* least that old, it stays locked, and whoever can still charge it was held.
WaitIsTrue(l, s, budget, helds) ==
  ~l.late =>
    /\ \A i \in 1..Len(l.tasks) : l.tasks[i].age >= s
    /\ s > 0 => IsLocked(l, budget) /\ \A k \in helds : k > 0

\* The entry of a client, last added n ticks ago, is not much older than any of
\* its tasks, nor than the lock the drain has seen or has yet to see.
EntryIsRecent(l, s, n) ==
  /\ \A i \in 1..Len(l.tasks) :
       l.tasks[i].age >= Window \/ n <= Window + l.tasks[i].age
  /\ IsLocked(l, ClientBudget) /\ s = Unseen => n <= Window
  /\ s # Unseen => n <= Window + s

ClientSound(c) ==
  IF clients[c] = None THEN since[c] = Unseen
  ELSE /\ WaitIsTrue(clients[c], since[c], ClientBudget, Charging(c))
       /\ EntryIsRecent(clients[c], since[c], idle[c])

\* A request in flight looked its client's limiter up when it began.
HoldersSound ==
  \A h \in Handlers, c \in Clients :
    Holds(h, c) => clients[c] # None /\ idle[c] <= req[h].held

\* The drain replaces a limiter it has seen locked for a whole window.
PeekSound == peeked # Nobody => since[peeked] = Window

Inv ==
  /\ TypeOK
  /\ WaitIsTrue(global, since[Global], GlobalBudget, Charging(Global))
  /\ \A c \in Clients : ClientSound(c)
  /\ HoldersSound
  /\ PeekSound

-----------------------------------------------------------------------------
(* Limiters *)

\* An entry of the LRU is told from its absence.
LEMMA NoneIsNoLimiter == \A l : IsLimiter(l) => l # None
BY DEF IsLimiter, None

\* A limiter that was just created: nothing recorded, nobody waited for.
LEMMA FreshLimiter ==
  /\ IsLimiter(newLimiter)
  /\ Len(newLimiter.tasks) = 0
  /\ ~newLimiter.late
BY DEF IsLimiter, newLimiter, Task

\* Tasks have an age.
LEMMA TasksHaveAges ==
  ASSUME NEW l, IsLimiter(l)
  PROVE  \A i \in 1..Len(l.tasks) : l.tasks[i].age \in Nat
<1>1. l.tasks \in Seq(Task)
  BY DEF IsLimiter
<1>2. \A i \in 1..Len(l.tasks) : l.tasks[i] \in Task
  BY <1>1
<1> QED
  BY <1>2 DEF Task

\* The expired prefix ends at its last expired task.
LEMMA MaxOfIndices ==
  ASSUME NEW n \in Nat, NEW S \in SUBSET (1..n), S # {}
  PROVE  Max(S) \in S
<1> DEFINE Below == {n - i : i \in S}
           Less == {p \in Nat \X Nat : p[1] < p[2]}
<1>1. Below \subseteq Nat /\ Below # {}
  <2>1. \A i \in S : n - i \in Nat
    OBVIOUS
  <2>2. PICK i \in S : TRUE
    OBVIOUS
  <2>3. n - i \in Below
    OBVIOUS
  <2> QED
    BY <2>1, <2>3
<1>0. IsWellFoundedOn(Less, Nat)
  BY NatLessThanWellFounded DEF OpToRel
<1>2. PICK x \in Below : \A y \in Below : ~(<<y, x>> \in Less)
  <2> HIDE DEF Below, Less
  <2> QED
    BY <1>0, <1>1, WFMin
<1>3. \A y \in Below : ~(y < x)
  BY <1>1, <1>2
<1>4. PICK i \in S : x = n - i
  BY <1>2
<1>5. \A j \in S : i >= j
  BY <1>3, <1>4
<1> QED
  BY <1>4, <1>5 DEF Max

\* What is left of a queue after the cut is the end of it.
LEMMA CutKeepsTasks ==
  ASSUME NEW tasks \in Seq(Task), NEW start \in 0..Len(tasks)
  PROVE  LET q == CutOffBefore(tasks, start)
         IN /\ q \in Seq(Task)
            /\ \A i \in 1..Len(q) : \E j \in 1..Len(tasks) : q[i] = tasks[j]
<1>1. CASE start = Len(tasks)
  BY <1>1 DEF CutOffBefore
<1>2. CASE start < Len(tasks)
  <2> DEFINE q == SubSeq(tasks, start + 1, Len(tasks))
  <2>1. CutOffBefore(tasks, start) = q
    BY <1>2 DEF CutOffBefore
  <2>2. q \in Seq(Task) /\ Len(q) = Len(tasks) - start
        /\ \A i \in 1..Len(q) : q[i] = tasks[i + start]
    BY <1>2
  <2> HIDE DEF q
  <2>3. \A i \in 1..Len(q) : i + start \in 1..Len(tasks)
    BY <2>2, <1>2
  <2> QED
    BY <2>1, <2>2, <2>3
<1> QED
  BY <1>1, <1>2

\* Limit records the request at age 0 and otherwise only drops tasks.
LEMMA LimitFacts ==
  ASSUME NEW l, IsLimiter(l), NEW w \in Nat, NEW held \in Nat
  PROVE  LET m == Limit(l, w, held)
         IN /\ IsLimiter(m)
            /\ m.late = (l.late \/ held > 0)
            /\ Len(m.tasks) > 0
            /\ \A i \in 1..Len(m.tasks) :
                 \/ m.tasks[i].age = 0
                 \/ \E j \in 1..Len(l.tasks) : m.tasks[i] = l.tasks[j]
<1> DEFINE expired == {i \in 1..Len(l.tasks) : l.tasks[i].age >= Window}
           start == IF expired = {} THEN 0 ELSE Max(expired)
           q == CutOffBefore(l.tasks, start)
           t == [age |-> 0, weight |-> w]
           m == Limit(l, w, held)
<1>1. l.tasks \in Seq(Task) /\ l.late \in BOOLEAN
  BY DEF IsLimiter
<1>2. start \in 0..Len(l.tasks)
  <2>1. Len(l.tasks) \in Nat
    BY <1>1
  <2>2. expired # {} => Max(expired) \in expired
    BY <2>1, MaxOfIndices
  <2> QED
    BY <2>1, <2>2
<1>3. /\ q \in Seq(Task)
      /\ \A i \in 1..Len(q) : \E j \in 1..Len(l.tasks) : q[i] = l.tasks[j]
  BY <1>1, <1>2, CutKeepsTasks
<1>4. t \in Task /\ t.age = 0
  BY DEF Task
<1>5. m.tasks = Append(q, t) /\ m.late = (l.late \/ held > 0)
      /\ m = [tasks |-> m.tasks, total |-> m.total, late |-> m.late]
  BY DEF Limit
<1> HIDE DEF q, t, m, start, expired
<1>6. m.tasks \in Seq(Task) /\ Len(m.tasks) = Len(q) + 1
      /\ \A i \in 1..Len(m.tasks) : m.tasks[i] = IF i <= Len(q) THEN q[i] ELSE t
  BY <1>3, <1>4, <1>5
<1>7. IsLimiter(m)
  BY <1>1, <1>5, <1>6 DEF IsLimiter
<1>8. \A i \in 1..Len(m.tasks) :
        m.tasks[i].age = 0 \/ \E j \in 1..Len(l.tasks) : m.tasks[i] = l.tasks[j]
  BY <1>3, <1>4, <1>6
<1>9. Len(m.tasks) > 0
  BY <1>3, <1>6
<1> QED
  BY <1>5, <1>7, <1>8, <1>9 DEF m

\* A clock tick makes the tasks older and leaves the lock alone.
LEMMA AgedFacts ==
  ASSUME NEW l, IsLimiter(l)
  PROVE  /\ IsLimiter(Aged(l))
         /\ Aged(l).total = l.total
         /\ Aged(l).late = l.late
         /\ Len(Aged(l).tasks) = Len(l.tasks)
         /\ \A i \in 1..Len(l.tasks) :
              Aged(l).tasks[i].age = IF l.tasks[i].age >= Window THEN l.tasks[i].age
                                     ELSE l.tasks[i].age + 1
<1> DEFINE older == [i \in DOMAIN l.tasks |->
                       AgedTask(l.tasks[i])]
<1>1. l.tasks \in Seq(Task) /\ l.late \in BOOLEAN
  BY DEF IsLimiter
<1>2. \A t \in Task :
        /\ AgedTask(t) \in Task
        /\ AgedTask(t).age = IF t.age >= Window THEN t.age ELSE t.age + 1
  BY TimesAssumption DEF Task, AgedTask, Older, Unseen
<1>3. /\ DOMAIN older = 1..Len(l.tasks)
      /\ \A i \in 1..Len(l.tasks) : l.tasks[i] \in Task /\ older[i] = AgedTask(l.tasks[i])
  BY <1>1
<1>4. older \in Seq(Task) /\ Len(older) = Len(l.tasks)
  <2>1. older \in [1..Len(l.tasks) -> Task]
    BY <1>2, <1>3
  <2>2. Len(l.tasks) \in Nat
    BY <1>1
  <2> HIDE DEF older
  <2> QED
    BY <2>1, <2>2
<1>5. Aged(l) = [tasks |-> older, total |-> l.total, late |-> l.late]
  BY DEF Aged
<1> HIDE DEF older
<1>6. Aged(l).tasks = older /\ Aged(l).total = l.total /\ Aged(l).late = l.late
  BY <1>5
<1>7. IsLimiter(Aged(l))
  BY <1>1, <1>4, <1>5, <1>6 DEF IsLimiter
<1> QED
  BY <1>2, <1>3, <1>4, <1>6, <1>7

-----------------------------------------------------------------------------
(* The drain's wait *)

\* A wait that has just begun, or has not, says nothing yet.
LEMMA WaitBegins ==
  ASSUME NEW l, IsLimiter(l), NEW s \in {Unseen, 0}, NEW budget, NEW helds
  PROVE  WaitIsTrue(l, s, budget, helds)
<1>1. \A i \in 1..Len(l.tasks) : l.tasks[i].age \in Nat
  BY TasksHaveAges
<1> QED
  BY <1>1 DEF WaitIsTrue, Unseen

\* Requests that end, or are admitted by an unlocked limiter, do not disturb it.
LEMMA WaitGoesOn ==
  ASSUME NEW l, NEW s, NEW budget, NEW helds, NEW others,
         WaitIsTrue(l, s, budget, helds),
         others \subseteq helds \/ ~IsLocked(l, budget)
  PROVE  WaitIsTrue(l, s, budget, others)
BY DEF WaitIsTrue

\* A charge during the wait comes from a request that was held.
LEMMA WaitSurvivesCharge ==
  ASSUME NEW l, IsLimiter(l), NEW s \in {Unseen} \cup (0..Window), NEW budget,
         NEW helds \in SUBSET Nat, NEW others, WaitIsTrue(l, s, budget, helds),
         NEW w \in Nat, NEW held \in helds
  PROVE  WaitIsTrue(Limit(l, w, held), s, budget, others)
<1> DEFINE m == Limit(l, w, held)
<1>1. IsLimiter(m) /\ m.late = (l.late \/ held > 0)
  BY LimitFacts
<1> HIDE DEF m
<1>2. CASE s \in {Unseen, 0}
  BY <1>1, <1>2, WaitBegins DEF m
<1>3. CASE s \notin {Unseen, 0}
  <2>1. s > 0
    BY <1>3, TimesAssumption
  <2>2. m.late
    BY <1>1, <2>1 DEF WaitIsTrue, IsLimiter
  <2> QED
    BY <2>2 DEF WaitIsTrue, m
<1> QED
  BY <1>2, <1>3

\* A tick ages the wait, the tasks and the requests alike.
LEMMA WaitAges ==
  ASSUME NEW l, IsLimiter(l), NEW s, NEW budget, NEW helds, NEW others,
         WaitIsTrue(l, s, budget, helds),
         s \in IF IsLocked(l, budget) THEN 0..(Window - 1) ELSE {Unseen},
         \A k \in others : k > 0
  PROVE  WaitIsTrue(Aged(l), Older(s, Window), budget, others)
<1>1. /\ IsLimiter(Aged(l))
      /\ Aged(l).late = l.late
      /\ IsLocked(Aged(l), budget) <=> IsLocked(l, budget)
      /\ Len(Aged(l).tasks) = Len(l.tasks)
      /\ \A i \in 1..Len(l.tasks) :
           Aged(l).tasks[i].age = IF l.tasks[i].age >= Window THEN l.tasks[i].age
                                  ELSE l.tasks[i].age + 1
  BY AgedFacts DEF IsLocked
<1>2. \A i \in 1..Len(l.tasks) : l.tasks[i].age \in Nat
  BY TasksHaveAges
<1>3. CASE s = Unseen
  BY <1>1, <1>3, WaitBegins DEF Older
<1>4. CASE s # Unseen
  <2>1. IsLocked(l, budget) /\ s \in 0..(Window - 1)
    BY <1>4
  <2>2. Older(s, Window) = s + 1
    BY <2>1, TimesAssumption DEF Older, Unseen
  <2> QED
    BY <1>1, <1>2, <2>1, <2>2, TimesAssumption DEF WaitIsTrue
<1> QED
  BY <1>3, <1>4

-----------------------------------------------------------------------------
(* The age of an entry *)

\* An entry that was just added is recent whatever it holds.
LEMMA AddedIsRecent ==
  ASSUME NEW l, IsLimiter(l), NEW s \in {Unseen} \cup (0..Window)
  PROVE  EntryIsRecent(l, s, 0)
<1>1. \A i \in 1..Len(l.tasks) : l.tasks[i].age \in Nat
  BY TasksHaveAges
<1> QED
  BY <1>1, TimesAssumption DEF EntryIsRecent, Unseen

\* A charge is made within a window of the entry's last addition.
LEMMA ChargedIsRecent ==
  ASSUME NEW l, IsLimiter(l), NEW s \in {Unseen} \cup (0..Window), NEW n \in 0..Window,
         EntryIsRecent(l, s, n), NEW w \in Nat, NEW held \in Nat
  PROVE  EntryIsRecent(Limit(l, w, held), s, n)
<1> DEFINE m == Limit(l, w, held)
<1>1. IsLimiter(m)
  BY LimitFacts
<1>2. \A i \in 1..Len(m.tasks) : m.tasks[i].age \in Nat
  BY <1>1, TasksHaveAges
<1> HIDE DEF m
<1> QED
  BY <1>2, TimesAssumption DEF EntryIsRecent, Unseen, m

\* A tick makes an entry older by no more than its tasks and its lock.
LEMMA RecentAges ==
  ASSUME NEW l, IsLimiter(l), NEW s, NEW n \in Nat, EntryIsRecent(l, s, n),
         s \in IF IsLocked(l, ClientBudget) THEN 0..(Window - 1) ELSE {Unseen}
  PROVE  EntryIsRecent(Aged(l), Older(s, Window), Older(n, TTL))
<1>1. /\ IsLocked(Aged(l), ClientBudget) <=> IsLocked(l, ClientBudget)
      /\ Len(Aged(l).tasks) = Len(l.tasks)
      /\ \A i \in 1..Len(l.tasks) :
           Aged(l).tasks[i].age = IF l.tasks[i].age >= Window THEN l.tasks[i].age
                                  ELSE l.tasks[i].age + 1
  BY AgedFacts DEF IsLocked
<1>2. \A i \in 1..Len(l.tasks) : l.tasks[i].age \in Nat
  BY TasksHaveAges
<1>3. Older(n, TTL) \in Nat /\ Older(n, TTL) <= n + 1
  BY TimesAssumption DEF Older, Unseen
<1>4. ASSUME NEW i \in 1..Len(l.tasks)
      PROVE  \/ Aged(l).tasks[i].age >= Window
             \/ Older(n, TTL) <= Window + Aged(l).tasks[i].age
  <2> DEFINE age == l.tasks[i].age
             older == Aged(l).tasks[i].age
             m == Older(n, TTL)
  <2>1. age \in Nat /\ older = IF age >= Window THEN age ELSE age + 1
    BY <1>1, <1>2
  <2>2. age >= Window \/ n <= Window + age
    BY DEF EntryIsRecent
  <2>3. m \in Nat /\ m <= n + 1
    BY <1>3
  <2> HIDE DEF age, older, m
  <2>4. older >= Window \/ m <= Window + older
    BY <2>1, <2>2, <2>3, TimesAssumption
  <2> QED
    BY <2>4 DEF older, m
<1>5. CASE IsLocked(l, ClientBudget)
  <2>1. s \in 0..(Window - 1) /\ Older(s, Window) = s + 1 /\ Older(s, Window) # Unseen
    BY <1>5, TimesAssumption DEF Older, Unseen
  <2>2. Older(n, TTL) <= Window + Older(s, Window)
    BY <1>3, <2>1, TimesAssumption DEF EntryIsRecent, Unseen
  <2> QED
    BY <1>1, <1>4, <2>1, <2>2 DEF EntryIsRecent
<1>6. CASE ~IsLocked(l, ClientBudget)
  <2>1. Older(s, Window) = Unseen
    BY <1>6 DEF Older
  <2> QED
    BY <1>1, <1>4, <1>6, <2>1 DEF EntryIsRecent
<1> QED
  BY <1>5, <1>6

-----------------------------------------------------------------------------
(* Requests in flight *)

\* A request that will charge a limiter is one that is being served.
LEMMA HoldersAreServed ==
  ASSUME TypeOK
  PROVE  /\ \A h \in Handlers : \A x : Holds(h, x) => req[h] \in Served
         /\ \A x : Charging(x) \in SUBSET Nat
<1>1. \A h \in Handlers : \A x : Holds(h, x) => req[h] # Idle
  BY DEF Holds, Idle
<1>2. \A h \in Handlers : \A x : Holds(h, x) => req[h] \in Served
  BY <1>1 DEF TypeOK
<1>3. \A h \in Handlers : \A x : Holds(h, x) => req[h].held \in Nat
  BY <1>2, TimesAssumption DEF Served
<1> QED
  BY <1>2, <1>3 DEF Charging

\* Those who may charge a limiter become fewer when nobody looks it up.
LEMMA ChargingShrinks ==
  ASSUME NEW x,
         \A h \in Handlers : Holds(h, x)' => Holds(h, x) /\ req'[h].held = req[h].held
  PROVE  Charging(x)' \subseteq Charging(x)
BY DEF Charging

\* A request keeps the limiter it looked up, and now nobody else has it.
LEMMA OrphansOfGlobal ==
  ASSUME TypeOK, Orphan("g", {})
  PROVE  /\ req' \in [Handlers -> Served \cup {Idle}]
         /\ \A h \in Handlers :
              /\ ~Holds(h, Global)'
              /\ \A c \in Clients : Holds(h, c)' <=> Holds(h, c)
              /\ \A c \in Clients : Holds(h, c) => req'[h].held = req[h].held
<1>1. \A h \in Handlers : req[h] \in Served \cup {Idle}
  BY DEF TypeOK
<1>2. \A h \in Handlers :
        req'[h] = IF req[h] # Idle THEN [req[h] EXCEPT !.g = FALSE] ELSE req[h]
  BY DEF Orphan
<1>3. req' \in [Handlers -> Served \cup {Idle}]
  <2>1. \A r \in Served : [r EXCEPT !.g = FALSE] \in Served
    BY DEF Served
  <2> QED
    BY <1>1, <1>2, <2>1 DEF Orphan
<1>4. ASSUME NEW h \in Handlers
      PROVE  /\ ~Holds(h, Global)'
             /\ \A c \in Clients : Holds(h, c)' <=> Holds(h, c)
             /\ \A c \in Clients : Holds(h, c) => req'[h].held = req[h].held
  <2>1. CASE req[h] = Idle
    BY <1>2, <2>1, ClientsAssumption DEF Holds, Idle, Global
  <2>2. CASE req[h] # Idle
    <3>1. req[h] \in Served /\ req'[h] = [req[h] EXCEPT !.g = FALSE]
      BY <1>1, <1>2, <2>2
    <3>2. ~req'[h].g /\ req'[h].at = req[h].at /\ req'[h].client = req[h].client
          /\ req'[h].l = req[h].l /\ req'[h].held = req[h].held
      BY <3>1 DEF Served
    <3> QED
      BY <3>2, ClientsAssumption DEF Holds, Global
  <2> QED
    BY <2>1, <2>2
<1> QED
  BY <1>3, <1>4

\* The same for the limiter of one client.
LEMMA OrphansOfClient ==
  ASSUME TypeOK, NEW d \in Clients, Orphan("l", {d})
  PROVE  /\ req' \in [Handlers -> Served \cup {Idle}]
         /\ \A h \in Handlers :
              /\ ~Holds(h, d)'
              /\ \A x \in (Clients \ {d}) \cup {Global} :
                   /\ Holds(h, x)' <=> Holds(h, x)
                   /\ Holds(h, x) => req'[h].held = req[h].held
<1>1. \A h \in Handlers : req[h] \in Served \cup {Idle}
  BY DEF TypeOK
<1>2. \A h \in Handlers :
        req'[h] = IF req[h] # Idle /\ req[h].client = d
                  THEN [req[h] EXCEPT !.l = FALSE] ELSE req[h]
  BY DEF Orphan
<1>3. req' \in [Handlers -> Served \cup {Idle}]
  <2>1. \A r \in Served : [r EXCEPT !.l = FALSE] \in Served
    BY DEF Served
  <2> QED
    BY <1>1, <1>2, <2>1 DEF Orphan
<1>4. ASSUME NEW h \in Handlers
      PROVE  /\ ~Holds(h, d)'
             /\ \A x \in (Clients \ {d}) \cup {Global} :
                  /\ Holds(h, x)' <=> Holds(h, x)
                  /\ Holds(h, x) => req'[h].held = req[h].held
  <2>1. CASE req[h] = Idle
    BY <1>2, <2>1, ClientsAssumption DEF Holds, Idle, Global
  <2>2. CASE req[h] # Idle /\ req[h].client # d
    BY <1>2, <2>2, ClientsAssumption DEF Holds, Global
  <2>3. CASE req[h] # Idle /\ req[h].client = d
    <3>1. req[h] \in Served /\ req'[h] = [req[h] EXCEPT !.l = FALSE]
      BY <1>1, <1>2, <2>3
    <3>2. ~req'[h].l /\ req'[h].at = req[h].at /\ req'[h].client = req[h].client
          /\ req'[h].g = req[h].g /\ req'[h].held = req[h].held
      BY <3>1 DEF Served
    <3> QED
      BY <3>2, <2>3, ClientsAssumption DEF Holds, Global
  <2> QED
    BY <2>1, <2>2, <2>3
<1> QED
  BY <1>3, <1>4

-----------------------------------------------------------------------------
(* The invariant *)

\* At the start nobody has asked for anything.
LEMMA InitInv == Init => Inv
<1> SUFFICES ASSUME Init PROVE Inv
  OBVIOUS
<1>1. TypeOK
  BY FreshLimiter, ClientsAssumption DEF Init, TypeOK
<1>2. WaitIsTrue(global, since[Global], GlobalBudget, Charging(Global))
  BY FreshLimiter, WaitBegins DEF Init
<1>3. \A c \in Clients : ClientSound(c)
  BY DEF Init, ClientSound
<1>4. HoldersSound
  BY ClientsAssumption DEF Init, HoldersSound, Holds, Idle, Global
<1>5. PeekSound
  BY DEF Init, PeekSound
<1> QED
  BY <1>1, <1>2, <1>3, <1>4, <1>5 DEF Inv

\* A client whose limiter nobody touches.
LEMMA ClientKept ==
  ASSUME NEW d \in Clients, ClientSound(d),
         clients'[d] = clients[d], idle'[d] = idle[d], since'[d] = since[d],
         \A k \in Handlers : Holds(k, d)' => Holds(k, d) /\ req'[k].held = req[k].held
  PROVE  ClientSound(d)'
<1>1. Charging(d)' \subseteq Charging(d)
  BY ChargingShrinks
<1> QED
  BY <1>1, WaitGoesOn DEF ClientSound

\* The global limiter when nobody touches it.
LEMMA GlobalKept ==
  ASSUME WaitIsTrue(global, since[Global], GlobalBudget, Charging(Global)),
         global' = global, since'[Global] = since[Global],
         \A k \in Handlers :
           Holds(k, Global)' => Holds(k, Global) /\ req'[k].held = req[k].held
  PROVE  WaitIsTrue(global, since[Global], GlobalBudget, Charging(Global))'
<1>1. Charging(Global)' \subseteq Charging(Global)
  BY ChargingShrinks
<1> QED
  BY <1>1, WaitGoesOn

\* A look-up adds the client's entry again, and is admitted only if unlocked.
LEMMA RequestInv ==
  ASSUME Inv, NEW h \in Handlers, NEW c \in Clients, NEW r \in Routes, Request(h, c, r)
  PROVE  Inv'
<1> DEFINE l == IF clients[c] = None THEN newLimiter ELSE clients[c]
<1>0. TypeOK
  BY DEF Inv
<1>1. /\ clients' = [clients EXCEPT ![c] = l]
      /\ idle' = [idle EXCEPT ![c] = 0]
      /\ UNCHANGED <<global, since, peeked>>
  BY DEF Request, client
<1>2. /\ clients'[c] = l
      /\ \A d \in Clients \ {c} : clients'[d] = clients[d] /\ idle'[d] = idle[d]
      /\ idle'[c] = 0
  BY <1>0, <1>1 DEF TypeOK
<1>3. IsLimiter(l) /\ l # None
  BY <1>0, FreshLimiter, NoneIsNoLimiter DEF TypeOK
<1>4. /\ req'[h] \in Served
      /\ req'[h].client = c /\ req'[h].held = 0
      /\ req'[h].at = "global" => ~IsLocked(global, GlobalBudget)
      /\ req'[h].at \in {"global", "client"} => ~IsLocked(l, ClientBudget)
      /\ \A k \in Handlers \ {h} : req'[k] = req[k]
      /\ req' \in [Handlers -> Served \cup {Idle}]
  <2> DEFINE new == [at |-> IF Refuses(clients'[c], global, r) THEN "refused"
                            ELSE IF isControlPlane(r) THEN "client" ELSE "global",
                     client |-> c, route |-> r, held |-> 0, g |-> TRUE, l |-> TRUE]
  <2>1. req' = [req EXCEPT ![h] = new]
    BY DEF Request
  <2>2. new \in Served
    BY TimesAssumption DEF Served
  <2>3. /\ new.client = c /\ new.held = 0
        /\ new.at = "global" => ~IsLocked(global, GlobalBudget)
        /\ new.at \in {"global", "client"} => ~IsLocked(l, ClientBudget)
    BY <1>2 DEF Refuses
  <2> HIDE DEF new
  <2> QED
    BY <1>0, <2>1, <2>2, <2>3 DEF TypeOK
<1> HIDE DEF l
<1>5. TypeOK'
  BY <1>0, <1>1, <1>2, <1>3, <1>4 DEF TypeOK
<1>6. WaitIsTrue(global, since[Global], GlobalBudget, Charging(Global))'
  <2>1. WaitIsTrue(global, since[Global], GlobalBudget, Charging(Global))
    BY DEF Inv
  <2>2. CASE req'[h].at = "global"
    BY <1>1, <1>4, <2>1, <2>2, WaitGoesOn
  <2>3. CASE req'[h].at # "global"
    <3>1. \A k \in Handlers :
            Holds(k, Global)' => Holds(k, Global) /\ req'[k].held = req[k].held
      BY <1>4, <2>3 DEF Holds
    <3>2. Charging(Global)' \subseteq Charging(Global)
      BY <3>1, ChargingShrinks
    <3> QED
      BY <1>1, <2>1, <3>2, WaitGoesOn
  <2> QED
    BY <2>2, <2>3
<1>7. \A d \in Clients \ {c}, k \in Handlers :
        Holds(k, d)' => Holds(k, d) /\ req'[k].held = req[k].held
  BY <1>4, ClientsAssumption DEF Holds, Global
<1>8. ASSUME NEW d \in Clients PROVE ClientSound(d)'
  <2>1. ClientSound(d)
    BY DEF Inv
  <2>2. CASE d # c
    <3>1. Charging(d)' \subseteq Charging(d)
      BY <1>7, <2>2, ChargingShrinks
    <3> QED
      BY <1>1, <1>2, <2>1, <2>2, <3>1, WaitGoesOn DEF ClientSound
  <2>3. CASE d = c
    <3>1. EntryIsRecent(l, since[c], 0)
      BY <1>0, <1>3, AddedIsRecent DEF TypeOK
    <3>2. CASE clients[c] = None
      <4>1. since[c] = Unseen
        BY <2>1, <2>3, <3>2 DEF ClientSound
      <4>2. WaitIsTrue(l, since[c], ClientBudget, Charging(c)')
        BY <4>1, <1>3, WaitBegins
      <4> QED
        BY <1>1, <1>2, <1>3, <2>3, <3>1, <4>2 DEF ClientSound
    <3>3. CASE clients[c] # None
      <4>1. l = clients[c] /\ WaitIsTrue(l, since[c], ClientBudget, Charging(c))
        BY <2>1, <2>3, <3>3 DEF ClientSound, l
      <4>2. CASE req'[h].at \in {"global", "client"}
        BY <1>1, <1>2, <1>3, <1>4, <2>3, <3>1, <4>1, <4>2, WaitGoesOn DEF ClientSound
      <4>3. CASE req'[h].at \notin {"global", "client"}
        <5>1. \A k \in Handlers : Holds(k, c)' => Holds(k, c) /\ req'[k].held = req[k].held
          BY <1>4, <4>3, ClientsAssumption DEF Holds, Global
        <5>2. Charging(c)' \subseteq Charging(c)
          BY <5>1, ChargingShrinks
        <5> QED
          BY <1>1, <1>2, <1>3, <2>3, <3>1, <4>1, <5>2, WaitGoesOn DEF ClientSound
      <4> QED
        BY <4>2, <4>3
    <3> QED
      BY <3>2, <3>3
  <2> QED
    BY <2>2, <2>3
<1>9. HoldersSound'
  <2> SUFFICES ASSUME NEW k \in Handlers, NEW d \in Clients, Holds(k, d)'
               PROVE  clients'[d] # None /\ idle'[d] <= req'[k].held
    BY DEF HoldersSound
  <2>1. CASE d = c
    <3>1. req'[k] \in Served
      BY <1>5, HoldersAreServed, ClientsAssumption DEF Holds, TypeOK, Idle, Global
    <3>2. req'[k].held >= 0
      BY <3>1 DEF Served
    <3> QED
      BY <1>2, <1>3, <2>1, <3>2
  <2>2. CASE d # c
    BY <1>2, <1>7, <2>2 DEF Inv, HoldersSound
  <2> QED
    BY <2>1, <2>2
<1>10. PeekSound'
  BY <1>1 DEF Inv, PeekSound
<1> QED
  BY <1>5, <1>6, <1>8, <1>9, <1>10 DEF Inv

\* A refused request charges nobody.
LEMMA RefuseInv ==
  ASSUME Inv, NEW h \in Handlers, Refuse(h)
  PROVE  Inv'
<1>0. TypeOK
  BY DEF Inv
<1>1. /\ req' = [req EXCEPT ![h] = Idle]
      /\ UNCHANGED <<global, clients, idle, since, peeked>>
  BY DEF Refuse
<1>2. \A k \in Handlers : \A x :
        Holds(k, x)' => Holds(k, x) /\ req'[k].held = req[k].held
  BY <1>0, <1>1 DEF TypeOK, Holds, Idle
<1>3. TypeOK'
  BY <1>0, <1>1 DEF TypeOK
<1>4. WaitIsTrue(global, since[Global], GlobalBudget, Charging(Global))'
  BY <1>1, <1>2, GlobalKept DEF Inv
<1>5. \A c \in Clients : ClientSound(c)'
  BY <1>1, <1>2, ClientKept DEF Inv
<1>6. HoldersSound' /\ PeekSound'
  BY <1>1, <1>2 DEF Inv, HoldersSound, PeekSound
<1> QED
  BY <1>3, <1>4, <1>5, <1>6 DEF Inv

\* Weights are what the middleware says they are.
LEMMA WeightIsNat == \A r : requestWeight(r) \in Nat
BY DEF requestWeight

\* The global limiter is charged by a request that holds it, or not at all.
LEMMA ChargeGlobalInv ==
  ASSUME Inv, NEW h \in Handlers, ChargeGlobal(h)
  PROVE  Inv'
<1>0. TypeOK
  BY DEF Inv
<1>1. req[h] \in Served /\ req[h].at = "global"
  BY <1>0 DEF TypeOK, ChargeGlobal, Idle
<1>2. /\ req' = [req EXCEPT ![h].at = "client"]
      /\ UNCHANGED <<clients, idle, since, peeked>>
  BY DEF ChargeGlobal
<1>3. /\ req'[h] \in Served /\ req'[h].at = "client"
      /\ req'[h].client = req[h].client /\ req'[h].held = req[h].held
      /\ req'[h].l = req[h].l
      /\ \A k \in Handlers \ {h} : req'[k] = req[k]
      /\ req' \in [Handlers -> Served \cup {Idle}]
  <2> DEFINE new == [req[h] EXCEPT !.at = "client"]
  <2>1. new \in Served /\ new.at = "client" /\ new.client = req[h].client
        /\ new.held = req[h].held /\ new.l = req[h].l
    BY <1>1 DEF Served
  <2>2. req' = [req EXCEPT ![h] = new]
    BY <1>2
  <2> HIDE DEF new
  <2> QED
    BY <1>0, <2>1, <2>2 DEF TypeOK
<1>4. \A k \in Handlers, x \in Clients \cup {Global} :
        Holds(k, x)' => Holds(k, x) /\ req'[k].held = req[k].held
  BY <1>1, <1>3 DEF Holds
<1>5. IsLimiter(global') /\ WaitIsTrue(global, since[Global], GlobalBudget, Charging(Global))'
  <2>1. CASE req[h].g
    <3>1. global' = Limit(global, requestWeight(req[h].route), req[h].held)
      BY <2>1 DEF ChargeGlobal
    <3>2. req[h].held \in Charging(Global) /\ Charging(Global) \in SUBSET Nat
      BY <1>0, <1>1, <2>1, HoldersAreServed DEF Charging, Holds
    <3>3. since[Global] \in {Unseen} \cup (0..Window) /\ since'[Global] = since[Global]
          /\ IsLimiter(global)
      BY <1>0, <1>2 DEF TypeOK
    <3>4. WaitIsTrue(global', since[Global], GlobalBudget, Charging(Global)')
      BY <3>1, <3>2, <3>3, WeightIsNat, WaitSurvivesCharge DEF Inv
    <3>5. IsLimiter(global')
      BY <3>1, <3>2, <3>3, WeightIsNat, LimitFacts
    <3> QED
      BY <3>3, <3>4, <3>5
  <2>2. CASE ~req[h].g
    <3>1. global' = global
      BY <2>2 DEF ChargeGlobal
    <3> QED
      BY <1>0, <1>2, <1>4, <3>1, GlobalKept DEF Inv, TypeOK
  <2> QED
    BY <2>1, <2>2
<1>6. TypeOK'
  BY <1>0, <1>2, <1>3, <1>5 DEF TypeOK
<1>7. \A c \in Clients : ClientSound(c)'
  BY <1>2, <1>4, ClientKept DEF Inv
<1>8. HoldersSound' /\ PeekSound'
  BY <1>2, <1>4 DEF Inv, HoldersSound, PeekSound
<1> QED
  BY <1>5, <1>6, <1>7, <1>8 DEF Inv

\* So is a client's, within a window of the look-up that added its entry.
LEMMA ChargeClientInv ==
  ASSUME Inv, NEW h \in Handlers, ChargeClient(h)
  PROVE  Inv'
<1>0. TypeOK
  BY DEF Inv
<1>1. req[h] \in Served /\ req[h].at = "client" /\ req[h].held \in 0..Window
  BY <1>0 DEF TypeOK, ChargeClient, Idle, Served
<1>c. PICK c \in Clients : c = req[h].client
  BY <1>1 DEF Served
<1>2. /\ req' = [req EXCEPT ![h] = Idle]
      /\ clients' = [clients EXCEPT ![c] =
           IF req[h].l THEN Limit(clients[c], requestWeight(req[h].route), req[h].held)
           ELSE clients[c]]
      /\ UNCHANGED <<global, idle, since, peeked>>
  BY <1>c DEF ChargeClient
<1>3. \A k \in Handlers : \A x :
        Holds(k, x)' => Holds(k, x) /\ req'[k].held = req[k].held
  BY <1>0, <1>2 DEF TypeOK, Holds, Idle
<1>4. /\ clients'[c] = IF req[h].l THEN Limit(clients[c], requestWeight(req[h].route), req[h].held)
                       ELSE clients[c]
      /\ \A d \in Clients \ {c} : clients'[d] = clients[d]
      /\ clients' = [d \in Clients |-> clients'[d]]
  BY <1>0, <1>1, <1>2 DEF TypeOK
<1>5. (clients'[c] = None <=> clients[c] = None)
      /\ (clients'[c] = None \/ IsLimiter(clients'[c])) /\ ClientSound(c)'
  <2>1. CASE req[h].l
    <3>1. Holds(h, c)
      BY <1>1, <2>1, <1>c, ClientsAssumption DEF Holds, Global
    <3>2. clients[c] # None /\ idle[c] <= req[h].held
      BY <1>1, <3>1 DEF Inv, HoldersSound
    <3>3. /\ IsLimiter(clients[c])
          /\ since[c] \in {Unseen} \cup (0..Window)
          /\ idle[c] \in 0..Window
          /\ req[h].held \in Nat
      BY <1>0, <1>1, <3>2, TimesAssumption DEF TypeOK
    <3>4. /\ WaitIsTrue(clients[c], since[c], ClientBudget, Charging(c))
          /\ EntryIsRecent(clients[c], since[c], idle[c])
      BY <1>1, <3>2 DEF Inv, ClientSound
    <3>5. req[h].held \in Charging(c) /\ Charging(c) \in SUBSET Nat
      BY <1>0, <3>1, HoldersAreServed DEF Charging
    <3>6. WaitIsTrue(clients'[c], since[c], ClientBudget, Charging(c)')
      BY <1>4, <2>1, <3>3, <3>4, <3>5, WeightIsNat, WaitSurvivesCharge
    <3>7. EntryIsRecent(clients'[c], since[c], idle[c])
      BY <1>4, <2>1, <3>3, <3>4, WeightIsNat, ChargedIsRecent
    <3>8. IsLimiter(clients'[c]) /\ clients'[c] # None
      <4>1. IsLimiter(Limit(clients[c], requestWeight(req[h].route), req[h].held))
        BY <3>3, WeightIsNat, LimitFacts
      <4>2. IsLimiter(clients'[c])
        BY <1>4, <2>1, <4>1
      <4> QED
        BY <4>2, NoneIsNoLimiter
    <3> QED
      BY <1>2, <3>2, <3>6, <3>7, <3>8 DEF ClientSound
  <2>2. CASE ~req[h].l
    <3>1. clients'[c] = clients[c] /\ idle'[c] = idle[c] /\ since'[c] = since[c]
      BY <1>2, <1>4, <2>2
    <3>2. ClientSound(c)
      BY <1>1 DEF Inv
    <3> QED
      BY <1>0, <1>1, <1>3, <3>1, <3>2, ClientKept DEF TypeOK
  <2> QED
    BY <2>1, <2>2
<1>6. TypeOK'
  BY <1>0, <1>1, <1>2, <1>4, <1>5 DEF TypeOK
<1>7. WaitIsTrue(global, since[Global], GlobalBudget, Charging(Global))'
  BY <1>2, <1>3, GlobalKept DEF Inv
<1>8. \A d \in Clients : ClientSound(d)'
  BY <1>2, <1>3, <1>4, <1>5, ClientKept DEF Inv
<1>9. HoldersSound' /\ PeekSound'
  BY <1>2, <1>3, <1>4, <1>5 DEF Inv, HoldersSound, PeekSound
<1> QED
  BY <1>6, <1>7, <1>8, <1>9 DEF Inv

\* What the drain notes of a limiter it does not replace.
LEMMA SeenFacts ==
  ASSUME TypeOK, NEW x \in Clients \cup {Global}, NEW locked \in BOOLEAN
  PROVE  /\ Seen(x, locked) \in {Unseen} \cup (0..Window)
         /\ Seen(x, locked) \notin {Unseen, 0} => locked /\ Seen(x, locked) = since[x]
         /\ Seen(x, locked) = 0 => locked /\ since[x] \in {Unseen, 0}
<1>1. since[x] \in {Unseen} \cup (0..Window)
  BY DEF TypeOK
<1> QED
  BY <1>1, TimesAssumption DEF Seen, Unseen

\* The drain notes a locked global limiter, or replaces it after a window.
LEMMA DrainGlobalInv ==
  ASSUME Inv, DrainGlobal
  PROVE  Inv'
<1> DEFINE locked == IsLocked(global, GlobalBudget)
<1>0. TypeOK /\ Global \notin Clients
  BY ClientsAssumption DEF Inv, Global
<1>1. UNCHANGED <<clients, idle, peeked>> /\ peeked = Nobody
  BY DEF DrainGlobal
<1>2. \A d \in Clients : since'[d] = since[d]
  BY <1>0 DEF DrainGlobal, resetGlobalIfStuck, TypeOK
<1>3. CASE Stuck(Global, locked)
  <2>1. global' = newLimiter /\ since' = [since EXCEPT ![Global] = Unseen] /\ Orphan("g", {})
    BY <1>3 DEF DrainGlobal, resetGlobalIfStuck
  <2>2. /\ req' \in [Handlers -> Served \cup {Idle}]
        /\ \A k \in Handlers, d \in Clients :
             Holds(k, d)' => Holds(k, d) /\ req'[k].held = req[k].held
    BY <1>0, <2>1, OrphansOfGlobal
  <2>3. TypeOK'
    BY <1>0, <1>1, <2>1, <2>2, FreshLimiter DEF TypeOK
  <2>4. since'[Global] = Unseen
    BY <1>0, <2>1 DEF TypeOK
  <2>5. WaitIsTrue(global, since[Global], GlobalBudget, Charging(Global))'
    BY <2>1, <2>4, FreshLimiter, WaitBegins
  <2>6. \A d \in Clients : ClientSound(d)'
    BY <1>1, <1>2, <2>2, ClientKept DEF Inv
  <2>7. HoldersSound' /\ PeekSound'
    BY <1>1, <2>2 DEF Inv, HoldersSound, PeekSound
  <2> QED
    BY <2>3, <2>5, <2>6, <2>7 DEF Inv
<1>4. CASE ~Stuck(Global, locked)
  <2>1. since' = [since EXCEPT ![Global] = Seen(Global, locked)] /\ UNCHANGED <<global, req>>
    BY <1>4 DEF DrainGlobal, resetGlobalIfStuck
  <2>2. since'[Global] = Seen(Global, locked)
    BY <1>0, <2>1 DEF TypeOK
  <2>3. locked \in BOOLEAN
    BY DEF IsLocked
  <2> HIDE DEF locked
  <2>4. TypeOK'
    BY <1>0, <1>1, <2>1, <2>3, SeenFacts DEF TypeOK
  <2>5. \A k \in Handlers : \A x : (Holds(k, x)' <=> Holds(k, x)) /\ req'[k].held = req[k].held
    BY <2>1 DEF Holds
  <2>6. WaitIsTrue(global, since[Global], GlobalBudget, Charging(Global))'
    <3>1. CASE since'[Global] \in {Unseen, 0}
      BY <1>0, <2>1, <3>1, WaitBegins DEF TypeOK
    <3>2. CASE since'[Global] \notin {Unseen, 0}
      <4>1. since'[Global] = since[Global]
        BY <1>0, <2>2, <2>3, <3>2, SeenFacts
      <4> QED
        BY <2>1, <2>5, <4>1, GlobalKept DEF Inv
    <3> QED
      BY <3>1, <3>2
  <2>7. \A d \in Clients : ClientSound(d)'
    BY <1>1, <1>2, <2>5, ClientKept DEF Inv
  <2>8. HoldersSound' /\ PeekSound'
    BY <1>1, <2>5 DEF Inv, HoldersSound, PeekSound
  <2> QED
    BY <2>4, <2>6, <2>7, <2>8 DEF Inv
<1> QED
  BY <1>3, <1>4

\* The same look at a client's limiter; it is replaced in a later step.
LEMMA PeekInv ==
  ASSUME Inv, NEW c \in Clients, Peek(c)
  PROVE  Inv'
<1> DEFINE locked == clients[c] # None /\ IsLocked(clients[c], ClientBudget)
<1>0. TypeOK /\ Global \notin Clients
  BY ClientsAssumption DEF Inv, Global
<1>1. /\ UNCHANGED <<global, clients, idle, req>>
      /\ since' = [since EXCEPT ![c] = Seen(c, locked)]
      /\ peeked' = IF Stuck(c, locked) THEN c ELSE Nobody
  BY DEF Peek
<1>2. locked \in BOOLEAN
  BY DEF IsLocked
<1>3. /\ since'[c] = Seen(c, locked)
      /\ \A x \in (Clients \ {c}) \cup {Global} : since'[x] = since[x]
  BY <1>0, <1>1 DEF TypeOK
<1>4. \A k \in Handlers : \A x : (Holds(k, x)' <=> Holds(k, x)) /\ req'[k].held = req[k].held
  BY <1>1 DEF Holds
<1>5. TypeOK'
  <2>1. since' \in [Clients \cup {Global} -> {Unseen} \cup (0..Window)]
    <3> HIDE DEF locked
    <3> QED
      BY <1>0, <1>1, <1>2, SeenFacts DEF TypeOK
  <2>2. peeked' \in Clients \cup {Nobody}
    BY <1>1
  <2> QED
    BY <1>0, <1>1, <2>1, <2>2 DEF TypeOK
<1>6. WaitIsTrue(global, since[Global], GlobalBudget, Charging(Global))'
  BY <1>1, <1>3, <1>4, GlobalKept DEF Inv
<1>7. ClientSound(c)'
  <2>1. ClientSound(c)
    BY DEF Inv
  <2>2. CASE ~locked
    <3>1. since'[c] = Unseen
      BY <1>3, <2>2 DEF Seen
    <3>2. clients[c] # None => IsLimiter(clients[c])
      BY <1>0 DEF TypeOK
    <3>3. clients[c] # None => WaitIsTrue(clients[c], since'[c], ClientBudget, Charging(c)')
      BY <3>1, <3>2, WaitBegins
    <3>4. clients[c] # None => EntryIsRecent(clients[c], since'[c], idle[c])
      BY <2>1, <2>2, <3>1 DEF ClientSound, EntryIsRecent
    <3> QED
      BY <1>1, <3>1, <3>3, <3>4 DEF ClientSound
  <2>3. CASE locked /\ since[c] = Unseen
    <3>1. since'[c] = 0
      BY <1>3, <2>3 DEF Seen
    <3>2. IsLimiter(clients[c]) /\ idle[c] \in Nat
      BY <1>0, <2>3 DEF TypeOK
    <3>3. WaitIsTrue(clients[c], since'[c], ClientBudget, Charging(c)')
      BY <3>1, <3>2, WaitBegins
    <3>4. EntryIsRecent(clients[c], since'[c], idle[c])
      BY <2>1, <2>3, <3>1, <3>2, TimesAssumption DEF ClientSound, EntryIsRecent, Unseen
    <3> QED
      BY <1>1, <2>3, <3>3, <3>4 DEF ClientSound
  <2>4. CASE locked /\ since[c] # Unseen
    <3>1. since'[c] = since[c]
      BY <1>3, <2>4 DEF Seen
    <3> QED
      BY <1>1, <1>4, <2>1, <3>1, ClientKept
  <2> QED
    BY <2>2, <2>3, <2>4
<1>8. \A d \in Clients : ClientSound(d)'
  BY <1>1, <1>3, <1>4, <1>7, ClientKept DEF Inv
<1>9. HoldersSound'
  BY <1>1, <1>4 DEF Inv, HoldersSound
<1>10. PeekSound'
  <2>1. CASE Stuck(c, locked)
    <3>1. locked /\ since[c] >= Window /\ since[c] \in {Unseen} \cup (0..Window)
      BY <1>0, <2>1 DEF Stuck, TypeOK
    <3>2. since[c] = Window /\ since[c] # Unseen
      BY <3>1, TimesAssumption DEF Unseen
    <3>3. since'[c] = Window /\ peeked' = c
      BY <1>1, <1>3, <2>1, <3>1, <3>2 DEF Seen
    <3> QED
      BY <3>3 DEF PeekSound
  <2>2. CASE ~Stuck(c, locked)
    BY <1>1, <2>2 DEF PeekSound
  <2> QED
    BY <2>1, <2>2
<1> QED
  BY <1>5, <1>6, <1>8, <1>9, <1>10 DEF Inv

\* A fresh limiter is added in place of the one found stuck.
LEMMA ResetInv ==
  ASSUME Inv, NEW c \in Clients, resetStuckClient(c)
  PROVE  Inv'
<1>0. TypeOK /\ Global \notin Clients
  BY ClientsAssumption DEF Inv, Global
<1>1. /\ clients' = [clients EXCEPT ![c] = newLimiter]
      /\ idle' = [idle EXCEPT ![c] = 0]
      /\ since' = [since EXCEPT ![c] = Unseen]
      /\ peeked' = Nobody
      /\ Orphan("l", {c})
      /\ global' = global
  BY DEF resetStuckClient
<1>2. /\ clients'[c] = newLimiter /\ idle'[c] = 0 /\ since'[c] = Unseen
      /\ \A d \in Clients \ {c} : clients'[d] = clients[d] /\ idle'[d] = idle[d]
      /\ \A x \in (Clients \ {c}) \cup {Global} : since'[x] = since[x]
  BY <1>0, <1>1 DEF TypeOK
<1>3. /\ req' \in [Handlers -> Served \cup {Idle}]
      /\ \A k \in Handlers : ~Holds(k, c)'
      /\ \A k \in Handlers, x \in (Clients \ {c}) \cup {Global} :
           Holds(k, x)' => Holds(k, x) /\ req'[k].held = req[k].held
  BY <1>0, <1>1, OrphansOfClient
<1>4. TypeOK'
  BY <1>0, <1>1, <1>2, <1>3, FreshLimiter DEF TypeOK
<1>5. WaitIsTrue(global, since[Global], GlobalBudget, Charging(Global))'
  BY <1>1, <1>2, <1>3, GlobalKept DEF Inv
<1>6. ClientSound(c)'
  <2>1. WaitIsTrue(clients'[c], since'[c], ClientBudget, Charging(c)')
    BY <1>2, FreshLimiter, WaitBegins
  <2>2. EntryIsRecent(clients'[c], since'[c], idle'[c])
    BY <1>2, FreshLimiter, AddedIsRecent
  <2>3. clients'[c] # None
    BY <1>2, FreshLimiter, NoneIsNoLimiter
  <2> QED
    BY <2>1, <2>2, <2>3 DEF ClientSound
<1>7. \A d \in Clients : ClientSound(d)'
  BY <1>2, <1>3, <1>6, ClientKept DEF Inv
<1>8. HoldersSound'
  BY <1>2, <1>3 DEF Inv, HoldersSound
<1>9. PeekSound'
  BY <1>1 DEF PeekSound
<1> QED
  BY <1>4, <1>5, <1>7, <1>8, <1>9 DEF Inv

\* The LRU drops no limiter that the drain is waiting for.
LEMMA EvictInv ==
  ASSUME Inv, NEW c \in Clients, Evict(c)
  PROVE  Inv'
<1>0. TypeOK /\ Global \notin Clients
  BY ClientsAssumption DEF Inv, Global
<1>1. /\ clients[c] # None /\ idle[c] >= TTL
      /\ clients' = [clients EXCEPT ![c] = None]
      /\ Orphan("l", {c})
      /\ UNCHANGED <<global, idle, since, peeked>>
  BY DEF Evict
<1>2. clients'[c] = None /\ \A d \in Clients \ {c} : clients'[d] = clients[d]
  BY <1>0, <1>1 DEF TypeOK
<1>3. /\ req' \in [Handlers -> Served \cup {Idle}]
      /\ \A k \in Handlers : ~Holds(k, c)'
      /\ \A k \in Handlers, x \in (Clients \ {c}) \cup {Global} :
           Holds(k, x)' => Holds(k, x) /\ req'[k].held = req[k].held
  BY <1>0, <1>1, OrphansOfClient
<1>4. TypeOK'
  BY <1>0, <1>1, <1>2, <1>3 DEF TypeOK
<1>5. WaitIsTrue(global, since[Global], GlobalBudget, Charging(Global))'
  BY <1>1, <1>3, GlobalKept DEF Inv
<1>6. since[c] = Unseen
  <2>1. since[c] \in {Unseen} \cup (0..Window) /\ idle[c] \in Nat
    BY <1>0 DEF TypeOK
  <2>2. since[c] # Unseen => idle[c] <= Window + since[c]
    BY <1>1 DEF Inv, ClientSound, EntryIsRecent
  <2> QED
    BY <1>1, <2>1, <2>2, TimesAssumption
<1>7. ClientSound(c)'
  BY <1>1, <1>2, <1>6 DEF ClientSound
<1>8. \A d \in Clients : ClientSound(d)'
  BY <1>1, <1>2, <1>3, <1>7, ClientKept DEF Inv
<1>9. HoldersSound'
  BY <1>1, <1>2, <1>3 DEF Inv, HoldersSound
<1>10. PeekSound'
  BY <1>1 DEF Inv, PeekSound
<1> QED
  BY <1>4, <1>5, <1>8, <1>9, <1>10 DEF Inv

\* A tick makes everything older together.
LEMMA TickInv ==
  ASSUME Inv, Tick
  PROVE  Inv'
<1>0. TypeOK /\ Global \notin Clients
  BY ClientsAssumption DEF Inv, Global
<1>1. /\ peeked' = peeked /\ peeked = Nobody
      /\ global' = Aged(global)
      /\ clients' = [c \in Clients |-> IF clients[c] = None THEN None ELSE Aged(clients[c])]
      /\ idle' = [c \in Clients |-> Older(idle[c], TTL)]
      /\ since' = [x \in Clients \cup {Global} |-> Older(since[x], Window)]
  BY <1>0 DEF Tick, TypeOK
<1>2. \A x \in Clients \cup {Global} :
        since[x] \in IF Locked(x) THEN 0..(Window - 1) ELSE {Unseen}
  BY <1>0 DEF Tick, TypeOK
<1>3. /\ req' \in [Handlers -> Served \cup {Idle}]
      /\ \A k \in Handlers, x \in Clients \cup {Global} :
           Holds(k, x)' => Holds(k, x) /\ req[k].held \in Nat /\ req'[k].held = req[k].held + 1
  <2>1. ASSUME NEW k \in Handlers
        PROVE  /\ req'[k] \in Served \cup {Idle}
               /\ \A x \in Clients \cup {Global} :
                    Holds(k, x)' => Holds(k, x) /\ req[k].held \in Nat
                                    /\ req'[k].held = req[k].held + 1
    <3>1. CASE req[k] = Idle
      BY <3>1 DEF Tick, Holds, Idle
    <3>2. CASE req[k] # Idle
      <4>1. req[k] \in Served /\ req[k].held < Window
        BY <1>0, <3>2 DEF TypeOK, Tick
      <4>2. req'[k] = [req[k] EXCEPT !.held = req[k].held + 1]
        BY <3>2 DEF Tick
      <4>3. /\ req'[k] \in Served /\ req'[k].at = req[k].at /\ req'[k].client = req[k].client
            /\ req'[k].g = req[k].g /\ req'[k].l = req[k].l
            /\ req[k].held \in Nat /\ req'[k].held = req[k].held + 1
        BY <4>1, <4>2, TimesAssumption DEF Served
      <4> QED
        BY <4>3 DEF Holds
    <3> QED
      BY <3>1, <3>2
  <2>2. req' = [k \in Handlers |-> req'[k]]
    BY DEF Tick
  <2> QED
    BY <2>1, <2>2
<1>4. \A x \in Clients \cup {Global} : \A n \in Charging(x)' : n > 0
  BY <1>3 DEF Charging
<1>5. \A c \in Clients : clients[c] # None => IsLimiter(clients[c])
  BY <1>0 DEF TypeOK
<1>6. \A c \in Clients :
        clients[c] # None => /\ IsLimiter(Aged(clients[c]))
                             /\ clients'[c] = Aged(clients[c]) /\ clients'[c] # None
  BY <1>1, <1>5, AgedFacts, NoneIsNoLimiter
<1>7. TypeOK'
  <2>1. IsLimiter(global')
    BY <1>0, <1>1, AgedFacts DEF TypeOK
  <2>2. \A c \in Clients : clients'[c] = None \/ IsLimiter(clients'[c])
    BY <1>1, <1>6
  <2>3. idle' \in [Clients -> Nat]
    BY <1>0, <1>1, TimesAssumption DEF TypeOK, Older
  <2>4. since' \in [Clients \cup {Global} -> {Unseen} \cup (0..Window)]
    <3>1. \A x \in Clients \cup {Global} : Older(since[x], Window) \in {Unseen} \cup (0..Window)
      BY <1>0, TimesAssumption DEF TypeOK, Older, Unseen
    <3> QED
      BY <1>1, <3>1
  <2>5. clients' = [c \in Clients |-> clients'[c]]
    BY <1>1
  <2> QED
    BY <1>0, <1>1, <1>3, <2>1, <2>2, <2>3, <2>4, <2>5 DEF TypeOK
<1>8. WaitIsTrue(global, since[Global], GlobalBudget, Charging(Global))'
  <2>1. since[Global] \in IF IsLocked(global, GlobalBudget) THEN 0..(Window - 1) ELSE {Unseen}
    BY <1>2 DEF Locked
  <2>2. WaitIsTrue(Aged(global), Older(since[Global], Window), GlobalBudget, Charging(Global)')
    BY <1>0, <1>4, <2>1, WaitAges DEF Inv, TypeOK
  <2> QED
    BY <1>1, <2>2
<1>9. ASSUME NEW c \in Clients PROVE ClientSound(c)'
  <2>1. ClientSound(c) /\ c # Global
    BY <1>0 DEF Inv
  <2>2. since'[c] = Older(since[c], Window) /\ idle'[c] = Older(idle[c], TTL)
    BY <1>1
  <2>3. CASE clients[c] = None
    BY <1>1, <2>1, <2>2, <2>3 DEF ClientSound, Older
  <2>4. CASE clients[c] # None
    <3>1. since[c] \in IF IsLocked(clients[c], ClientBudget) THEN 0..(Window - 1) ELSE {Unseen}
      BY <1>2, <2>1, <2>4 DEF Locked
    <3>2. WaitIsTrue(Aged(clients[c]), since'[c], ClientBudget, Charging(c)')
      BY <1>4, <1>5, <2>1, <2>2, <2>4, <3>1, WaitAges DEF ClientSound
    <3>3. EntryIsRecent(Aged(clients[c]), since'[c], idle'[c])
      <4>1. idle[c] \in Nat
        BY <1>0 DEF TypeOK
      <4> QED
        BY <1>5, <2>1, <2>2, <2>4, <3>1, <4>1, RecentAges DEF ClientSound
    <3> QED
      BY <1>6, <2>4, <3>2, <3>3 DEF ClientSound
  <2> QED
    BY <2>3, <2>4
<1>10. HoldersSound'
  <2> SUFFICES ASSUME NEW k \in Handlers, NEW d \in Clients, Holds(k, d)'
               PROVE  clients'[d] # None /\ idle'[d] <= req'[k].held
    BY DEF HoldersSound
  <2>1. clients[d] # None /\ idle[d] <= req[k].held
        /\ req[k].held \in Nat /\ req'[k].held = req[k].held + 1
    BY <1>3 DEF Inv, HoldersSound
  <2>2. idle[d] \in Nat /\ idle'[d] <= idle[d] + 1 /\ idle'[d] \in Nat
    BY <1>0, <1>1, TimesAssumption DEF TypeOK, Older, Unseen
  <2> QED
    BY <1>6, <2>1, <2>2
<1>11. PeekSound'
  BY <1>1 DEF PeekSound
<1> QED
  BY <1>7, <1>8, <1>9, <1>10, <1>11 DEF Inv

\* Every step of the throttle keeps the invariant.
LEMMA NextInv == Inv /\ [Next]_vars => Inv'
<1> SUFFICES ASSUME Inv, [Next]_vars PROVE Inv'
  OBVIOUS
<1>1. ASSUME NEW h \in Handlers, NEW c \in Clients, NEW r \in Routes, Request(h, c, r)
      PROVE  Inv'
  BY <1>1, RequestInv
<1>2. ASSUME NEW h \in Handlers, Serve(h)
      PROVE  Inv'
  BY <1>2, RefuseInv, ChargeGlobalInv, ChargeClientInv DEF Serve
<1>3. CASE Drain
  BY <1>3, DrainGlobalInv, PeekInv, ResetInv DEF Drain
<1>4. ASSUME NEW c \in Clients, Evict(c)
      PROVE  Inv'
  BY <1>4, EvictInv
<1>5. CASE Tick
  BY <1>5, TickInv
<1>6. CASE UNCHANGED vars
  BY <1>6 DEF vars, Inv, TypeOK, ClientSound, HoldersSound, PeekSound, Charging, Holds
<1> QED
  BY <1>1, <1>2, <1>3, <1>4, <1>5, <1>6 DEF Next

-----------------------------------------------------------------------------
(* A fresh budget *)

\* A limiter without tasks has an empty window.
LEMMA FreshIsDrained == \A l : Len(l.tasks) = 0 /\ l.tasks \in Seq(Task) => Drained(l)
BY DEF Drained

\* A limiter that was charged or has aged is not a fresh one in disguise.
LEMMA OnlyFreshLooksFresh ==
  ASSUME NEW l, IsLimiter(l)
  PROVE  /\ Aged(l) = newLimiter => Drained(l)
         /\ l = newLimiter => Drained(l)
         /\ \A w, held \in Nat : Limit(l, w, held) # newLimiter
<1>1. l.tasks \in Seq(Task)
  BY DEF IsLimiter
<1>2. Len(Aged(l).tasks) = Len(l.tasks)
  BY AgedFacts
<1>3. \A w, held \in Nat : Len(Limit(l, w, held).tasks) > 0
  BY LimitFacts
<1>4. ASSUME Aged(l) = newLimiter \/ l = newLimiter PROVE Drained(l)
  <2>1. Len(l.tasks) = 0
    BY <1>2, <1>4, FreshLimiter
  <2> QED
    BY <1>1, <2>1, FreshIsDrained
<1>5. ASSUME NEW w \in Nat, NEW held \in Nat PROVE Limit(l, w, held) # newLimiter
  <2>1. Len(Limit(l, w, held).tasks) > 0
    BY <1>3
  <2>2. ~(Len(newLimiter.tasks) > 0)
    BY FreshLimiter
  <2> QED
    BY <2>1, <2>2
<1> QED
  BY <1>4, <1>5

\* What the drain or the LRU drops is drained.
LEMMA StepIsFair ==
  ASSUME Inv, [Next]_vars
  PROVE  /\ global' = newLimiter /\ ~global.late => Drained(global)
         /\ \A c \in Clients :
              clients[c] # None /\ clients'[c] \in {None, newLimiter} /\ ~clients[c].late
                => Drained(clients[c])
<1>0. TypeOK /\ Global \notin Clients
  BY ClientsAssumption DEF Inv, Global
<1>1. IsLimiter(global) /\ \A c \in Clients : clients[c] # None => IsLimiter(clients[c])
  BY <1>0 DEF TypeOK
<1>2. DOMAIN global.tasks = 1..Len(global.tasks)
      /\ \A c \in Clients : clients[c] # None =>
           DOMAIN clients[c].tasks = 1..Len(clients[c].tasks)
  BY <1>1 DEF IsLimiter
<1>3. ASSUME global' = newLimiter, ~global.late
      PROVE  Drained(global)
  <2>1. CASE global' = global
    BY <1>1, <1>3, <2>1, OnlyFreshLooksFresh
  <2>2. CASE Tick
    BY <1>1, <1>3, <2>2, OnlyFreshLooksFresh DEF Tick
  <2>3. ASSUME NEW h \in Handlers, ChargeGlobal(h)
        PROVE  Drained(global)
    <3>1. req[h] \in Served
      BY <1>0, <2>3 DEF TypeOK, ChargeGlobal, Idle
    <3>2. req[h].held \in Nat
      BY <3>1, TimesAssumption DEF Served
    <3> QED
      BY <1>1, <1>3, <2>1, <2>3, <3>2, WeightIsNat, OnlyFreshLooksFresh DEF ChargeGlobal
  <2>4. CASE DrainGlobal /\ global' # global
    <3>1. since[Global] >= Window
      BY <2>4 DEF DrainGlobal, resetGlobalIfStuck, Stuck
    <3>2. \A i \in 1..Len(global.tasks) : global.tasks[i].age >= since[Global]
      BY <1>3 DEF Inv, WaitIsTrue
    <3>3. since[Global] \in Int /\ \A i \in 1..Len(global.tasks) : global.tasks[i].age \in Nat
      BY <1>0, <1>1, TasksHaveAges, TimesAssumption DEF TypeOK, Unseen
    <3> QED
      BY <1>2, <3>1, <3>2, <3>3, TimesAssumption DEF Drained
  <2> QED
    BY <2>1, <2>2, <2>3, <2>4 DEF Next, vars, Request, Serve, Refuse, ChargeClient, Drain,
                                  Peek, resetStuckClient, Evict
<1>4. ASSUME NEW c \in Clients, clients[c] # None, clients'[c] \in {None, newLimiter},
             ~clients[c].late
      PROVE  Drained(clients[c])
  <2>1. CASE clients'[c] = clients[c]
    BY <1>1, <1>4, <2>1, OnlyFreshLooksFresh
  <2>2. CASE Tick
    <3>1. clients'[c] = Aged(clients[c]) /\ IsLimiter(Aged(clients[c]))
      BY <1>1, <1>4, <2>2, AgedFacts DEF Tick
    <3> QED
      BY <1>1, <1>4, <3>1, NoneIsNoLimiter, OnlyFreshLooksFresh
  <2>3. ASSUME NEW h \in Handlers, ChargeClient(h), clients'[c] # clients[c]
        PROVE  Drained(clients[c])
    <3>1. req[h] \in Served
      BY <1>0, <2>3 DEF TypeOK, ChargeClient, Idle
    <3>2. req[h].held \in Nat
      BY <3>1, TimesAssumption DEF Served
    <3>3. clients'[c] = Limit(clients[c], requestWeight(req[h].route), req[h].held)
      BY <1>0, <2>3 DEF ChargeClient, TypeOK
    <3>4. IsLimiter(clients'[c])
      BY <1>1, <1>4, <3>2, <3>3, WeightIsNat, LimitFacts
    <3> QED
      BY <1>1, <1>4, <3>2, <3>3, <3>4, WeightIsNat, NoneIsNoLimiter, OnlyFreshLooksFresh
  <2>4. CASE resetStuckClient(c)
    <3>1. since[c] = Window
      BY <2>4, ClientsAssumption DEF Inv, PeekSound, resetStuckClient, Nobody
    <3>2. \A i \in 1..Len(clients[c].tasks) : clients[c].tasks[i].age >= since[c]
      BY <1>4 DEF Inv, ClientSound, WaitIsTrue
    <3> QED
      BY <1>2, <1>4, <3>1, <3>2 DEF Drained
  <2>5. CASE Evict(c)
    <3>1. idle[c] >= TTL /\ idle[c] \in Nat
      BY <1>0, <2>5 DEF Evict, TypeOK
    <3>2. ASSUME NEW i \in 1..Len(clients[c].tasks)
          PROVE  clients[c].tasks[i].age >= Window
      <4>1. clients[c].tasks[i].age >= Window \/ idle[c] <= Window + clients[c].tasks[i].age
        BY <1>4 DEF Inv, ClientSound, EntryIsRecent
      <4>2. clients[c].tasks[i].age \in Nat
        BY <1>1, <1>4, TasksHaveAges
      <4> QED
        BY <3>1, <4>1, <4>2, TimesAssumption
    <3> QED
      BY <1>2, <1>4, <3>2 DEF Drained
  <2>6. ASSUME NEW h \in Handlers, NEW d \in Clients, NEW r \in Routes, Request(h, d, r)
        PROVE  clients'[c] = clients[c]
    BY <1>0, <1>4, <2>6 DEF Request, client, TypeOK
  <2>7. ASSUME NEW d \in Clients, d # c, resetStuckClient(d) \/ Evict(d)
        PROVE  clients'[c] = clients[c]
    BY <1>0, <2>7 DEF resetStuckClient, Evict, TypeOK
  <2>8. CASE clients' = clients
    BY <2>1, <2>8
  <2> QED
    BY <2>1, <2>2, <2>3, <2>4, <2>5, <2>6, <2>7, <2>8
       DEF Next, vars, Serve, Refuse, ChargeGlobal, Drain, DrainGlobal, Peek
<1> QED
  BY <1>3, <1>4

\* Nobody gets a second budget within a window: whatever requests, drain ticks
\* and expiries come in whatever order, a limiter is replaced or dropped only
\* when its sliding window is empty (drain, client).
THEOREM NoEarlyBudget == Spec => FreshBudgetOnlyAfterWindow
<1>1. Init => Inv
  BY InitInv
<1>2. Inv /\ [Next]_vars => Inv'
  BY NextInv
<1>3. Spec => []Inv
  BY <1>1, <1>2, PTL DEF Spec
<1>4. Inv /\ [Next]_vars =>
        [/\ global' = newLimiter /\ ~global.late => Drained(global)
         /\ \A c \in Clients :
              clients[c] # None /\ clients'[c] \in {None, newLimiter} /\ ~clients[c].late
                => Drained(clients[c])]_vars
  BY StepIsFair
<1> QED
  BY <1>3, <1>4, PTL DEF Spec, FreshBudgetOnlyAfterWindow

-----------------------------------------------------------------------------
(* What the total counts *)

\* Counting to n.
LEMMA Counting == \A n \in Nat : IsFiniteSet(1..n) /\ Cardinality(1..n) = n
<1> SUFFICES ASSUME NEW n \in Nat PROVE IsFiniteSet(1..n) /\ Cardinality(1..n) = n
  OBVIOUS
<1>1. IsFiniteSet(1..n) /\ Cardinality(1..n) = IF 1 > n THEN 0 ELSE n - 1 + 1
  BY FS_Interval
<1> QED
  BY <1>1

\* The units of one task.
LEMMA UnitsOfOne ==
  ASSUME NEW i, NEW w \in Nat
  PROVE  IsFiniteSet({i} \X (1..w)) /\ Cardinality({i} \X (1..w)) = w
<1> DEFINE A == {i}
           B == 1..w
<1>1. IsFiniteSet(A) /\ Cardinality(A) = 1
  BY FS_Singleton
<1>2. IsFiniteSet(B) /\ Cardinality(B) = w
  BY Counting
<1> HIDE DEF A, B
<1>3. IsFiniteSet(A \X B) /\ Cardinality(A \X B) = Cardinality(A) * Cardinality(B)
  BY <1>1, <1>2, FS_Product
<1> QED
  BY <1>1, <1>2, <1>3 DEF A, B

\* A unit is a task and one of its weight.
LEMMA UnitsOf ==
  ASSUME NEW tasks \in Seq(Task)
  PROVE  /\ \A i \in 1..Len(tasks), j \in Nat \ {0} :
              <<i, j>> \in Units(tasks) <=> j <= tasks[i].weight
         /\ \A u \in Units(tasks) :
              u = <<u[1], u[2]>> /\ u[1] \in 1..Len(tasks) /\ u[2] \in Nat \ {0}
<1>1. DOMAIN tasks = 1..Len(tasks) /\ \A i \in 1..Len(tasks) : tasks[i] \in Task
  OBVIOUS
<1>2. \A i \in 1..Len(tasks) : tasks[i].weight \in Nat
  BY <1>1 DEF Task
<1>3. \A u : u \in Units(tasks) <=> \E i \in 1..Len(tasks) : u \in {i} \X (1..tasks[i].weight)
  BY <1>1 DEF Units
<1> QED
  BY <1>2, <1>3

\* A queue holds finitely many.
LEMMA UnitsAreFinite ==
  ASSUME NEW tasks \in Seq(Task)
  PROVE  IsFiniteSet(Units(tasks)) /\ Weight(tasks) \in Nat
<1> DEFINE n == Len(tasks)
           Of(i) == {i} \X (1..tasks[i].weight)
           f == [i \in 1..n |-> Of(i)]
           S == {Of(i) : i \in 1..n}
<1>1. n \in Nat /\ DOMAIN tasks = 1..n /\ \A i \in 1..n : tasks[i].weight \in Nat
  <2>1. n \in Nat /\ DOMAIN tasks = 1..n /\ \A i \in 1..n : tasks[i] \in Task
    OBVIOUS
  <2> QED
    BY <2>1 DEF Task
<1>2. f \in Surjection(1..n, S)
  BY DEF Surjection
<1>3. IsFiniteSet(S)
  <2>1. IsFiniteSet(1..n)
    BY <1>1, Counting
  <2> HIDE DEF f, S
  <2> QED
    BY <1>2, <2>1, FS_Surjection
<1>4. \A i \in 1..n : IsFiniteSet(Of(i))
  BY <1>1, UnitsOfOne
<1>5. IsFiniteSet(UNION S)
  BY <1>3, <1>4, FS_UNION
<1>6. Units(tasks) = UNION S
  BY <1>1 DEF Units
<1> QED
  BY <1>5, <1>6, FS_CardinalityType DEF Weight

\* A queue and its end: the weights add up.
LEMMA WeightOfAppend ==
  ASSUME NEW tasks \in Seq(Task), NEW t \in Task
  PROVE  Weight(Append(tasks, t)) = Weight(tasks) + t.weight
<1> DEFINE n == Len(tasks)
           longer == Append(tasks, t)
           new == {n + 1} \X (1..t.weight)
<1>1. n \in Nat /\ t.weight \in Nat
  BY DEF Task
<1>2. /\ longer \in Seq(Task) /\ Len(longer) = n + 1 /\ longer[n + 1] = t
      /\ \A i \in 1..n : longer[i] = tasks[i]
  OBVIOUS
<1>3. IsFiniteSet(new) /\ Cardinality(new) = t.weight
  BY <1>1, UnitsOfOne
<1> HIDE DEF longer
<1>4. Units(longer) = Units(tasks) \cup new
  <2>1. \A u \in Units(longer) : u \in Units(tasks) \cup new
    <3> SUFFICES ASSUME NEW u \in Units(longer) PROVE u \in Units(tasks) \cup new
      OBVIOUS
    <3>1. u = <<u[1], u[2]>> /\ u[1] \in 1..(n + 1) /\ u[2] \in Nat \ {0}
          /\ u[2] <= longer[u[1]].weight
      BY <1>2, UnitsOf
    <3>2. CASE u[1] = n + 1
      BY <1>1, <1>2, <3>1, <3>2
    <3>3. CASE u[1] # n + 1
      BY <1>1, <1>2, <3>1, <3>3, UnitsOf
    <3> QED
      BY <3>2, <3>3
  <2>2. \A u \in Units(tasks) : u \in Units(longer)
    <3> SUFFICES ASSUME NEW u \in Units(tasks) PROVE u \in Units(longer)
      OBVIOUS
    <3>1. u = <<u[1], u[2]>> /\ u[1] \in 1..n /\ u[2] \in Nat \ {0} /\ u[2] <= tasks[u[1]].weight
      BY UnitsOf
    <3>2. u[1] \in 1..(n + 1) /\ longer[u[1]] = tasks[u[1]]
      BY <1>1, <1>2, <3>1
    <3> QED
      BY <1>2, <3>1, <3>2, UnitsOf
  <2>3. \A u \in new : u \in Units(longer)
    <3> SUFFICES ASSUME NEW u \in new PROVE u \in Units(longer)
      OBVIOUS
    <3>1. u = <<n + 1, u[2]>> /\ u[2] \in Nat \ {0} /\ u[2] <= t.weight /\ n + 1 \in 1..(n + 1)
      BY <1>1
    <3> QED
      BY <1>2, <3>1, UnitsOf
  <2> QED
    BY <2>1, <2>2, <2>3
<1>5. Units(tasks) \cap new = {}
  BY <1>1, UnitsOf
<1>6. IsFiniteSet(Units(tasks)) /\ Weight(tasks) \in Nat
  BY UnitsAreFinite
<1> HIDE DEF new
<1>7. Cardinality(Units(tasks) \cup new) = Weight(tasks) + t.weight - 0
  BY <1>3, <1>5, <1>6, FS_Union, FS_EmptySet DEF Weight
<1> QED
  BY <1>1, <1>4, <1>6, <1>7 DEF Weight, longer

\* So do those of the two parts of a queue.
LEMMA WeightOfParts ==
  ASSUME NEW tasks \in Seq(Task), NEW start \in 0..Len(tasks)
  PROVE  Weight(SubSeq(tasks, 1, start)) + Weight(CutOffBefore(tasks, start)) = Weight(tasks)
<1> DEFINE n == Len(tasks)
           head == SubSeq(tasks, 1, start)
           tail == CutOffBefore(tasks, start)
           late == {u \in Units(tasks) : u[1] > start}
           f == [u \in Units(tail) |-> <<u[1] + start, u[2]>>]
<1>1. n \in Nat /\ start \in Nat
  OBVIOUS
<1>2. head \in Seq(Task) /\ Len(head) = start /\ \A i \in 1..start : head[i] = tasks[i]
  OBVIOUS
<1>3. /\ tail \in Seq(Task) /\ Len(tail) = n - start
      /\ \A i \in 1..(n - start) : tail[i] = tasks[i + start]
  <2>1. CASE start = n
    BY <2>1 DEF CutOffBefore
  <2>2. CASE start < n
    BY <2>2 DEF CutOffBefore
  <2> QED
    BY <2>1, <2>2
<1> HIDE DEF head, tail
<1>4. Units(tasks) = Units(head) \cup late
  <2>1. \A u \in Units(tasks) : u \in Units(head) \cup late
    <3> SUFFICES ASSUME NEW u \in Units(tasks), ~(u[1] > start) PROVE u \in Units(head)
      OBVIOUS
    <3>1. u = <<u[1], u[2]>> /\ u[1] \in 1..start /\ u[2] \in Nat \ {0} /\ u[2] <= tasks[u[1]].weight
      BY <1>1, UnitsOf
    <3> QED
      BY <1>2, <3>1, UnitsOf
  <2>2. \A u \in Units(head) : u \in Units(tasks)
    <3> SUFFICES ASSUME NEW u \in Units(head) PROVE u \in Units(tasks)
      OBVIOUS
    <3>1. u = <<u[1], u[2]>> /\ u[1] \in 1..start /\ u[2] \in Nat \ {0} /\ u[2] <= head[u[1]].weight
      BY <1>2, UnitsOf
    <3>2. u[1] \in 1..n /\ head[u[1]] = tasks[u[1]]
      BY <1>1, <1>2, <3>1
    <3> QED
      BY <3>1, <3>2, UnitsOf
  <2> QED
    BY <2>1, <2>2
<1>5. Units(head) \cap late = {}
  BY <1>1, <1>2, UnitsOf
<1>6. f \in Bijection(Units(tail), late)
  <2>1. ASSUME NEW u \in Units(tail)
        PROVE  /\ u = <<u[1], u[2]>> /\ u[1] \in 1..(n - start) /\ u[2] \in Nat
               /\ f[u] = <<u[1] + start, u[2]>> /\ f[u] \in late
    <3>1. /\ u = <<u[1], u[2]>> /\ u[1] \in 1..(n - start) /\ u[2] \in Nat \ {0}
          /\ u[2] <= tail[u[1]].weight
      BY <1>3, UnitsOf
    <3>2. u[1] + start \in 1..n /\ tail[u[1]] = tasks[u[1] + start] /\ u[1] + start > start
      BY <1>1, <1>3, <3>1
    <3>3. <<u[1] + start, u[2]>> \in Units(tasks)
      BY <3>1, <3>2, UnitsOf
    <3> QED
      BY <3>1, <3>2, <3>3
  <2>2. ASSUME NEW v \in late
        PROVE  \E u \in Units(tail) : f[u] = v
    <3>1. /\ v = <<v[1], v[2]>> /\ v[1] \in 1..n /\ v[1] > start /\ v[2] \in Nat \ {0}
          /\ v[2] <= tasks[v[1]].weight
      BY <1>1, UnitsOf
    <3>2. v[1] - start \in 1..(n - start) /\ tail[v[1] - start] = tasks[(v[1] - start) + start]
      BY <1>1, <1>3, <3>1
    <3>3. (v[1] - start) + start = v[1]
      BY <1>1, <3>1
    <3>4. <<v[1] - start, v[2]>> \in Units(tail)
      BY <1>3, <3>1, <3>2, <3>3, UnitsOf
    <3>5. f[<<v[1] - start, v[2]>>] = v
      BY <3>1, <3>3, <3>4
    <3> QED
      BY <3>4, <3>5
  <2>3. \A u, v \in Units(tail) : f[u] = f[v] => u = v
    <3> SUFFICES ASSUME NEW u \in Units(tail), NEW v \in Units(tail), f[u] = f[v] PROVE u = v
      OBVIOUS
    <3>1. /\ u = <<u[1], u[2]>> /\ v = <<v[1], v[2]>> /\ u[1] \in Int /\ v[1] \in Int
          /\ f[u] = <<u[1] + start, u[2]>> /\ f[v] = <<v[1] + start, v[2]>>
      BY <2>1
    <3>2. u[1] + start = v[1] + start /\ u[2] = v[2]
      BY <3>1
    <3>3. u[1] = v[1]
      BY <1>1, <3>1, <3>2
    <3> QED
      BY <3>1, <3>2, <3>3
  <2>4. f \in [Units(tail) -> late] /\ DOMAIN f = Units(tail)
    BY <2>1
  <2> HIDE DEF f, late
  <2> QED
    BY <2>2, <2>3, <2>4 DEF Bijection, Injection, Surjection, IsInjective
<1>7. IsFiniteSet(late) /\ Cardinality(late) = Weight(tail)
  <2>1. IsFiniteSet(Units(tail))
    BY <1>3, UnitsAreFinite
  <2>2. ExistsBijection(Units(tail), late)
    BY <1>6 DEF ExistsBijection
  <2> HIDE DEF late
  <2> QED
    BY <2>1, <2>2, FS_Bijection DEF Weight
<1>8. IsFiniteSet(Units(head)) /\ Weight(head) \in Nat /\ Weight(tail) \in Nat
  BY <1>2, <1>3, UnitsAreFinite
<1> HIDE DEF late
<1>9. Cardinality(Units(tasks)) = Weight(head) + Weight(tail) - 0
  BY <1>4, <1>5, <1>7, <1>8, FS_Union, FS_EmptySet DEF Weight
<1> QED
  BY <1>8, <1>9 DEF Weight, head, tail

\* Ageing changes no weight.
LEMMA WeightOfAged ==
  ASSUME NEW l, IsLimiter(l)
  PROVE  Weight(Aged(l).tasks) = Weight(l.tasks)
<1> DEFINE older == [i \in DOMAIN l.tasks |-> AgedTask(l.tasks[i])]
<1>1. Aged(l).tasks = older /\ DOMAIN older = DOMAIN l.tasks
  BY DEF Aged
<1>2. \A i \in DOMAIN l.tasks : l.tasks[i] \in Task
  BY DEF IsLimiter
<1>3. \A t \in Task : AgedTask(t).weight = t.weight
  BY DEF Task, AgedTask
<1>4. \A i \in DOMAIN l.tasks : older[i].weight = l.tasks[i].weight
  BY <1>2, <1>3
<1> HIDE DEF older
<1>5. Units(older) = Units(l.tasks)
  BY <1>1, <1>4 DEF Units
<1> QED
  BY <1>1, <1>5 DEF Weight

\* A remainder is what is left of whole moduli.
LEMMA Remainder ==
  ASSUME NEW y \in Int
  PROVE  /\ y % Modulus \in 0..(Modulus - 1)
         /\ \E q \in Int : y = (y % Modulus) + q * Modulus
<1> DEFINE q == y \div Modulus
<1>1. /\ y % Modulus \in 0..(Modulus - 1) /\ q \in Int
      /\ y = (y % Modulus) + q * Modulus
  BY WidthsAssumption
<1> QED
  BY <1>1

\* The total is the weight of the queue, but for wrapping around.
Counted(l) ==
  /\ l.total \in 0..(Modulus - 1)
  /\ \E k \in Int : Weight(l.tasks) = l.total + k * Modulus

\* A total never exceeds the weight.
LEMMA TotalWithinWeight ==
  ASSUME NEW l, IsLimiter(l), Counted(l)
  PROVE  l.total \in Nat /\ Weight(l.tasks) \in Nat /\ l.total <= Weight(l.tasks)
<1>1. Weight(l.tasks) \in Nat
  BY UnitsAreFinite DEF IsLimiter
<1>2. PICK k \in Int : Weight(l.tasks) = l.total + k * Modulus
  BY DEF Counted
<1>3. l.total \in 0..(Modulus - 1) /\ Modulus \in Nat \ {0}
  BY WidthsAssumption DEF Counted
<1>4. k < 0 => k * Modulus <= -Modulus
  BY <1>3
<1>5. k >= 0
  BY <1>1, <1>2, <1>3, <1>4
<1>6. k * Modulus >= 0
  BY <1>3, <1>5
<1> QED
  BY <1>1, <1>2, <1>3, <1>6

\* Limit subtracts what it cuts off and adds what it records.
LEMMA LimitCounts ==
  ASSUME NEW l, IsLimiter(l), Counted(l), NEW w \in Nat, NEW held
  PROVE  Counted(Limit(l, w, held))
<1> DEFINE expired == {i \in 1..Len(l.tasks) : l.tasks[i].age >= Window}
           start == IF expired = {} THEN 0 ELSE Max(expired)
           head == SubSeq(l.tasks, 1, start)
           rest == CutOffBefore(l.tasks, start)
           t == [age |-> 0, weight |-> w]
           y == l.total - Weight(head) + w
           m == Limit(l, w, held)
<1>1. l.tasks \in Seq(Task) /\ Len(l.tasks) \in Nat
  BY DEF IsLimiter
<1>2. start \in 0..Len(l.tasks)
  <2>1. expired # {} => Max(expired) \in expired
    BY <1>1, MaxOfIndices
  <2> QED
    BY <1>1, <2>1
<1>3. t \in Task /\ t.weight = w
  BY DEF Task
<1>4. m.tasks = Append(rest, t) /\ m.total = y % Modulus
  BY DEF Limit
<1> HIDE DEF start, expired, m, t
<1>5. head \in Seq(Task) /\ rest \in Seq(Task)
  BY <1>1, <1>2, CutKeepsTasks
<1>6. Weight(head) + Weight(rest) = Weight(l.tasks)
  BY <1>1, <1>2, WeightOfParts
<1>7. Weight(m.tasks) = Weight(rest) + w
  BY <1>3, <1>4, <1>5, WeightOfAppend
<1>8. Weight(head) \in Nat /\ Weight(rest) \in Nat /\ Weight(l.tasks) \in Nat
  BY <1>1, <1>5, UnitsAreFinite
<1> HIDE DEF head, rest
<1>9. PICK k \in Int : Weight(l.tasks) = l.total + k * Modulus
  BY DEF Counted
<1>10. Modulus \in Int /\ l.total \in Int /\ y \in Int
  BY <1>8, WidthsAssumption DEF Counted
<1>11. PICK q \in Int : y = (y % Modulus) + q * Modulus
  BY <1>10, Remainder
<1>12. Weight(m.tasks) = y + k * Modulus
  BY <1>6, <1>7, <1>8, <1>9, <1>10
<1>13. y % Modulus \in 0..(Modulus - 1)
  BY <1>10, Remainder
<1> HIDE DEF y
<1>14. Weight(m.tasks) = m.total + (q + k) * Modulus
  <2>1. (q + k) * Modulus = q * Modulus + k * Modulus
    BY <1>10
  <2> DEFINE a == q * Modulus
             b == k * Modulus
  <2>2. a \in Int /\ b \in Int /\ m.total \in Int
    BY <1>4, <1>10, <1>13
  <2>3. y = m.total + a /\ Weight(m.tasks) = y + b
    BY <1>4, <1>11, <1>12
  <2> HIDE DEF a, b
  <2>4. Weight(m.tasks) = m.total + (a + b)
    BY <1>10, <2>2, <2>3
  <2> QED
    BY <2>1, <2>4 DEF a, b
<1>15. q + k \in Int
  OBVIOUS
<1> QED
  BY <1>4, <1>13, <1>14, <1>15 DEF Counted, m

-----------------------------------------------------------------------------
(* Refusals *)

\* Every limiter counts right.
CountsInv ==
  /\ Counted(global)
  /\ \A c \in Clients : clients[c] # None => Counted(clients[c])

\* A fresh limiter has counted nothing.
LEMMA FreshCounts == Counted(newLimiter)
<1>1. newLimiter.total = 0 /\ newLimiter.tasks = <<>>
  BY DEF newLimiter
<1>2. Units(<<>>) = {}
  BY DEF Units
<1>3. Weight(newLimiter.tasks) = 0
  BY <1>1, <1>2, FS_EmptySet DEF Weight
<1>4. 0 \in 0..(Modulus - 1) /\ 0 = 0 + 0 * Modulus
  BY WidthsAssumption
<1> QED
  BY <1>1, <1>3, <1>4 DEF Counted

\* Charges, drains, expiries and ticks keep it so.
LEMMA NextCounts ==
  ASSUME Inv, CountsInv, [Next]_vars
  PROVE  CountsInv'
<1>0. TypeOK
  BY DEF Inv
<1>1. IsLimiter(global) /\ \A c \in Clients : clients[c] # None => IsLimiter(clients[c])
  BY <1>0 DEF TypeOK
<1>2. \A l : IsLimiter(l) /\ Counted(l) => Counted(Aged(l))
  BY AgedFacts, WeightOfAged DEF Counted
<1>3. global' \in {global, newLimiter, Aged(global)} \/
        \E w \in Nat : \E held : global' = Limit(global, w, held)
  BY WeightIsNat DEF Next, vars, Request, Serve, Refuse, ChargeGlobal, ChargeClient, Drain,
     DrainGlobal, resetGlobalIfStuck, Peek, resetStuckClient, Evict, Tick
<1>4. Counted(global')
  BY <1>1, <1>2, <1>3, FreshCounts, LimitCounts DEF CountsInv
<1>5. ASSUME NEW c \in Clients
      PROVE  \/ clients'[c] \in {None, clients[c], newLimiter}
             \/ clients[c] # None /\ clients'[c] = Aged(clients[c])
             \/ clients[c] # None /\ \E w \in Nat : \E held : clients'[c] = Limit(clients[c], w, held)
  <2>1. ASSUME NEW h \in Handlers, ChargeClient(h)
        PROVE  \/ clients'[c] = clients[c]
               \/ /\ clients[c] # None
                  /\ \E w \in Nat : \E held : clients'[c] = Limit(clients[c], w, held)
    <3>1. CASE req[h].client = c /\ req[h].l
      <4>1. req[h] \in Served
        BY <1>0, <2>1 DEF TypeOK, ChargeClient, Idle
      <4>2. clients[c] # None
        BY <1>0, <2>1, <3>1, ClientsAssumption DEF Inv, HoldersSound, Holds, ChargeClient, Global
      <4>3. clients'[c] = Limit(clients[c], requestWeight(req[h].route), req[h].held)
        BY <1>0, <2>1, <3>1 DEF ChargeClient, TypeOK
      <4> QED
        BY <4>2, <4>3, WeightIsNat
    <3>2. CASE ~(req[h].client = c /\ req[h].l)
      BY <1>0, <2>1, <3>2 DEF ChargeClient, TypeOK
    <3> QED
      BY <3>1, <3>2
  <2>2. CASE Tick
    BY <2>2 DEF Tick
  <2>3. ASSUME NEW h \in Handlers, NEW d \in Clients, NEW r \in Routes, Request(h, d, r)
        PROVE  clients'[c] \in {clients[c], newLimiter}
    BY <1>0, <2>3 DEF Request, client, TypeOK
  <2>4. ASSUME NEW d \in Clients, resetStuckClient(d) \/ Evict(d)
        PROVE  clients'[c] \in {None, clients[c], newLimiter}
    BY <1>0, <2>4 DEF resetStuckClient, Evict, TypeOK
  <2>5. CASE clients' = clients
    BY <2>5
  <2> QED
    BY <2>1, <2>2, <2>3, <2>4, <2>5 DEF Next, vars, Serve, Refuse, ChargeGlobal, Drain,
       DrainGlobal, Peek
<1>6. ASSUME NEW c \in Clients, clients'[c] # None
      PROVE  Counted(clients'[c])
  <2>1. CASE clients[c] = None
    BY <1>5, <1>6, <2>1, FreshCounts
  <2>2. CASE clients[c] # None
    <3>1. IsLimiter(clients[c]) /\ Counted(clients[c])
      BY <1>1, <2>2 DEF CountsInv
    <3> QED
      BY <1>2, <1>5, <1>6, <3>1, FreshCounts, LimitCounts
  <2> QED
    BY <2>1, <2>2
<1> QED
  BY <1>4, <1>6 DEF CountsInv

\* A request that is turned away met a budget that was really spent.
LEMMA RefusedIsEarned ==
  ASSUME Inv, CountsInv, [Next]_vars, NEW h \in Handlers, req'[h].at = "refused", req[h] = Idle
  PROVE  \/ Overspent(clients[req'[h].client], ClientBudget)
         \/ ~isControlPlane(req'[h].route) /\ Overspent(global, GlobalBudget)
<1>0. TypeOK
  BY DEF Inv
<1>1. req[h].at # "refused"
  BY DEF Idle
<1>2. PICK c \in Clients, r \in Routes : Request(h, c, r)
  <2>1. ASSUME NEW k \in Handlers, NEW c \in Clients, NEW r \in Routes, Request(k, c, r), k # h
        PROVE  req'[h] = req[h]
    BY <1>0, <2>1 DEF Request, TypeOK
  <2>2. ASSUME NEW k \in Handlers, Serve(k)
        PROVE  req'[h].at # "refused"
    BY <1>0, <1>1, <2>2 DEF Serve, Refuse, ChargeGlobal, ChargeClient, TypeOK, Idle
  <2>3. ASSUME NEW field, NEW S, Orphan(field, S)
        PROVE  req'[h] = req[h]
    BY <2>3 DEF Orphan
  <2>4. CASE Drain
    BY <1>1, <2>3, <2>4 DEF Drain, DrainGlobal, resetGlobalIfStuck, Peek, resetStuckClient
  <2>5. ASSUME NEW c \in Clients, Evict(c)
        PROVE  req'[h] = req[h]
    BY <2>3, <2>5 DEF Evict
  <2>6. CASE Tick
    BY <1>1, <2>6 DEF Tick
  <2>7. CASE UNCHANGED vars
    BY <1>1, <2>7 DEF vars
  <2> QED
    BY <1>1, <2>1, <2>2, <2>4, <2>5, <2>6, <2>7 DEF Next
<1>3. /\ req'[h].client = c /\ req'[h].route = r
      /\ Refuses(clients'[c], global, r)
      /\ clients'[c] = IF clients[c] = None THEN newLimiter ELSE clients[c]
  BY <1>0, <1>2 DEF Request, client, TypeOK
<1>4. CASE IsLocked(clients'[c], ClientBudget)
  <2>1. clients[c] # None
    BY <1>3, <1>4, WidthsAssumption DEF IsLocked, newLimiter
  <2>2. IsLimiter(clients[c]) /\ Counted(clients[c])
    BY <1>0, <2>1 DEF CountsInv, TypeOK
  <2>3. Weight(clients[c].tasks) > ClientBudget
    BY <1>3, <1>4, <2>1, <2>2, TotalWithinWeight, WidthsAssumption DEF IsLocked
  <2> QED
    BY <1>3, <2>1, <2>3 DEF Overspent
<1>5. CASE ~isControlPlane(r) /\ IsLocked(global, GlobalBudget)
  <2>1. IsLimiter(global) /\ Counted(global)
    BY <1>0 DEF CountsInv, TypeOK
  <2>2. Weight(global.tasks) > GlobalBudget
    BY <1>5, <2>1, TotalWithinWeight, WidthsAssumption DEF IsLocked
  <2> QED
    BY <1>3, <1>5, <2>1, <2>2, NoneIsNoLimiter DEF Overspent
<1> QED
  BY <1>3, <1>4, <1>5 DEF Refuses

\* A request is refused only for a budget that was really spent, for any budgets,
\* window and width of the library's total, whatever gaps, drain ticks and
\* expiries there are between requests; the control plane is refused only for
\* its own client's (taskQueue, Limit, middleware).
THEOREM RefusedOnlyOverBudget == Spec => RefusalIsEarned
<1>1. Init => Inv /\ CountsInv
  BY InitInv, FreshCounts DEF Init, CountsInv
<1>2. Inv /\ CountsInv /\ [Next]_vars => (Inv /\ CountsInv)'
  BY NextInv, NextCounts
<1>3. Inv /\ CountsInv /\ [Next]_vars =>
        [\A h \in Handlers :
           req'[h].at = "refused" /\ req[h] = Idle =>
             \/ Overspent(clients[req'[h].client], ClientBudget)
             \/ ~isControlPlane(req'[h].route) /\ Overspent(global, GlobalBudget)]_vars
  BY RefusedIsEarned
<1> QED
  BY <1>1, <1>2, <1>3, PTL DEF Spec, RefusalIsEarned
==============================================================================
