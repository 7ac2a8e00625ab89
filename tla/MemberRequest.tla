--------------------------- MODULE MemberRequest ---------------------------
(***************************************************************************)
(* One route request to the members of a Warpnet network:                  *)
(* nodeClient.tryMembers (nodeclient.go) from the first launch to its      *)
(* return, with the attempt goroutines it spawns, which outlive it.        *)
(*                                                                         *)
(* The candidates are numbered in the order in which they are tried.  Time *)
(* is abstract: the hedge timer may elapse whenever it is armed, the       *)
(* request's budget may run out at any moment, and an attempt may settle   *)
(* in any way at any moment (its own perPeerTimeout makes it settle).      *)
(* The member's side is one fact per candidate: whether it carried the     *)
(* request out.  A member may do so after the gateway gave up on it.       *)
(***************************************************************************)
EXTENDS Naturals, Sequences, FiniteSets

CONSTANT N                \* len(peers); request() returns early when it is 0

ASSUME CandidatesAssumption == N \in Nat \ {0}

VARIABLES
  read,                   \* isReadRoute(route)
  launched,               \* next: how many candidates have been launched
  inFlight,               \* the loop's counter of attempts it waits for
  attempt,                \* what became of each candidate's goroutine
  replies,                \* the buffered channel, as the candidates in it
  taken,                  \* the candidates whose reply the loop has received
  budgetSpent,            \* ctx.Done() is closed
  outcome,                \* how tryMembers returned, "pending" before
  winner,                 \* the candidate whose response was returned, or 0
  front,                  \* the member remember() put first, 0 if none
  throttled,              \* members marked as rate limiting this route
  executed                \* members that carried the request out

vars == <<read, launched, inFlight, attempt, replies, taken, budgetSpent,
          outcome, winner, front, throttled, executed>>

Candidate == 1..N

\* Faulty variant: the channel has room for one reply only.
CapacityOne == 1

\* The capacity of the channel: len(peers).
Capacity == N

Settled == {"ok", "limited", "error"}

TypeOK ==
  /\ read \in BOOLEAN
  /\ launched \in 1..N
  /\ inFlight \in 0..N
  /\ attempt \in [Candidate -> {"idle", "running"} \cup Settled]
  /\ replies \in Seq(Candidate)
  /\ taken \in SUBSET Candidate
  /\ budgetSpent \in BOOLEAN
  /\ outcome \in {"pending", "answered", "failed", "timeout"}
  /\ winner \in 0..N
  /\ front \in 0..N
  /\ throttled \in SUBSET Candidate
  /\ executed \in SUBSET Candidate

\* State after the first launchNext(), before the loop.
Init ==
  /\ read \in BOOLEAN
  /\ launched = 1
  /\ inFlight = 1
  /\ attempt = [i \in Candidate |-> IF i = 1 THEN "running" ELSE "idle"]
  /\ replies = <<>>
  /\ taken = {}
  /\ budgetSpent = FALSE
  /\ outcome = "pending"
  /\ winner = 0
  /\ front = 0
  /\ throttled = {}
  /\ executed = {}

-----------------------------------------------------------------------------
(* The environment: the members, the attempts and the clock. *)

\* The member handles the request.  It can do so after its attempt failed
\* here: the bytes were sent, and the deadline only stops the waiting.
Execute(i) ==
  /\ attempt[i] \in {"running", "error"}
  /\ executed' = executed \cup {i}
  /\ UNCHANGED <<read, launched, inFlight, attempt, replies, taken,
                 budgetSpent, outcome, winner, front, throttled>>

\* stream() returns and the goroutine puts its reply into the channel, for which
\* it waits as long as the channel is full.  A rate-limited member declined the request; any other response means it was
\* handled; an error (refused, lost, timed out, cancelled) says nothing.
Settle(i, verdict) ==
  /\ attempt[i] = "running"
  /\ Len(replies) < Capacity
  /\ verdict = "ok" => i \in executed
  /\ verdict = "limited" => i \notin executed
  /\ attempt' = [attempt EXCEPT ![i] = verdict]
  /\ replies' = Append(replies, i)
  /\ UNCHANGED <<read, launched, inFlight, taken, budgetSpent, outcome,
                 winner, front, throttled, executed>>

\* requestTimeout elapses.
SpendBudget ==
  /\ ~budgetSpent
  /\ budgetSpent' = TRUE
  /\ UNCHANGED <<read, launched, inFlight, attempt, replies, taken, outcome,
                 winner, front, throttled, executed>>

-----------------------------------------------------------------------------
(* The loop of tryMembers. *)

\* Faulty variant: the timer of a write is not stopped.
HedgeAlwaysArmed == TRUE

\* Writes run with the hedge timer stopped.
HedgeArmed == read

\* Faulty variants of launchNext: it runs past the last candidate; it never
\* reaches the last candidate.
LaunchNextPastEnd(waiting) ==
  /\ attempt' = [attempt EXCEPT ![launched + 1] = "running"]
  /\ launched' = launched + 1
  /\ inFlight' = waiting + 1

LaunchNextButLast(waiting) ==
  IF launched + 1 < N THEN LaunchNextPastEnd(waiting)
  ELSE inFlight' = waiting /\ UNCHANGED <<attempt, launched>>

\* launchNext() when the loop is waiting for `waiting' other attempts.
LaunchNext(waiting) ==
  IF launched < N
  THEN /\ attempt' = [attempt EXCEPT ![launched + 1] = "running"]
       /\ launched' = launched + 1
       /\ inFlight' = waiting + 1
  ELSE /\ inFlight' = waiting
       /\ UNCHANGED <<attempt, launched>>

InLoop == outcome = "pending" /\ inFlight > 0

\* Faulty variant: the rate-limit envelope passes for a response.
ReceiveAnyEnvelope ==
  /\ InLoop
  /\ replies # <<>>
  /\ attempt[Head(replies)] \in {"ok", "limited"}
  /\ inFlight' = inFlight - 1
  /\ replies' = Tail(replies)
  /\ taken' = taken \cup {Head(replies)}
  /\ front' = Head(replies)
  /\ winner' = Head(replies)
  /\ outcome' = "answered"
  /\ UNCHANGED <<read, launched, attempt, budgetSpent, throttled, executed>>

\* A usable response: remember the member and return.
ReceiveAnswer ==
  /\ InLoop
  /\ replies # <<>>
  /\ attempt[Head(replies)] = "ok"
  /\ inFlight' = inFlight - 1
  /\ replies' = Tail(replies)
  /\ taken' = taken \cup {Head(replies)}
  /\ front' = Head(replies)
  /\ winner' = Head(replies)
  /\ outcome' = "answered"
  /\ UNCHANGED <<read, launched, attempt, budgetSpent, throttled, executed>>

\* An error or a rate-limit envelope: note it, try the next member at once.
ReceiveFailure ==
  /\ InLoop
  /\ replies # <<>>
  /\ attempt[Head(replies)] \in {"limited", "error"}
  /\ LaunchNext(inFlight - 1)
  /\ replies' = Tail(replies)
  /\ taken' = taken \cup {Head(replies)}
  /\ throttled' = IF attempt[Head(replies)] = "limited"
                  THEN throttled \cup {Head(replies)} ELSE throttled
  /\ UNCHANGED <<read, budgetSpent, outcome, winner, front, executed>>

\* The hedge timer elapsed: race one more member, re-arm the timer.
Hedge ==
  /\ InLoop
  /\ HedgeArmed
  /\ LaunchNext(inFlight)
  /\ UNCHANGED <<read, replies, taken, budgetSpent, outcome, winner, front,
                 throttled, executed>>

\* ctx.Done() was selected; select may also pick a ready reply instead.
GiveUp ==
  /\ InLoop
  /\ budgetSpent
  /\ outcome' = "timeout"
  /\ UNCHANGED <<read, launched, inFlight, attempt, replies, taken,
                 budgetSpent, winner, front, throttled, executed>>

\* The loop condition fails: every launched attempt was received.
Exhaust ==
  /\ outcome = "pending"
  /\ inFlight = 0
  /\ outcome' = "failed"
  /\ UNCHANGED <<read, launched, inFlight, attempt, replies, taken,
                 budgetSpent, winner, front, throttled, executed>>

Loop == ReceiveAnswer \/ ReceiveFailure \/ Exhaust

Next ==
  \/ \E i \in Candidate : Execute(i)
  \/ \E i \in Candidate, verdict \in Settled : Settle(i, verdict)
  \/ SpendBudget
  \/ ReceiveAnswer
  \/ ReceiveFailure
  \/ Hedge
  \/ GiveUp
  \/ Exhaust

Spec == Init /\ [][Next]_vars

\* The goroutine running the loop is scheduled, and perPeerTimeout makes every
\* attempt settle.  Nothing is assumed of the members, of the hedge timer or of
\* the overall budget.
Fairness ==
  /\ WF_vars(Loop)
  /\ \A i \in Candidate : WF_vars(Settle(i, "error"))

FairSpec == Spec /\ Fairness

-----------------------------------------------------------------------------
(* Correctness. *)

\* A write (any route that is not a read) is never raced: while the loop runs,
\* at most one member has a launched attempt whose reply it has not received.
\* tryMembers stops the hedge timer for this (nodeclient.go:319).
Outstanding == {i \in Candidate : attempt[i] # "idle"} \ taken
WritesAreNotRaced ==
  ~read => \A i, j \in Outstanding : i = j

\* Two members carry out the same write only when the gateway lost the reply of
\* all but the last of them: a write is never repeated after a response or after
\* a rate-limit refusal, however the attempts and the members interleave.
WriteRepeatedOnlyAfterError ==
  ~read => \A i, j \in executed : i < j => attempt[i] = "error"

\* The error "failed on all member nodes" is true: no candidate is left untried,
\* none is still running and none of them gave a usable response.
FailureIsExhaustive ==
  outcome = "failed" =>
    \A i \in Candidate : attempt[i] \in {"limited", "error"} /\ i \in taken

\* The returned response is one that its member produced by handling the
\* request, that member is the one remembered as good, and no member is marked
\* as throttled unless its own reply said so.
AnswerIsGenuine ==
  /\ outcome = "answered" => /\ winner \in executed
                             /\ attempt[winner] = "ok"
                             /\ front = winner
  /\ \A i \in throttled : attempt[i] = "limited" /\ i \notin executed

\* inFlight is exactly the number of launched attempts not yet received, so the
\* loop neither returns while a reply is due nor waits for one that cannot come.
InFlightIsExact ==
  inFlight + Cardinality(taken) = launched

\* After tryMembers returned nothing more is launched on its behalf: only
\* attempts already running settle.
NoLaunchAfterReturn ==
  [][outcome # "pending" => \A i \in Candidate :
        attempt[i] = "idle" => attempt'[i] = "idle"]_vars

\* The request returns and every goroutine it spawned ends, also when no member
\* ever answers, the budget never runs out and nobody reads the channel any more:
\* the channel has room for the replies of attempts that lost the race.
EverythingEnds ==
  <>[](outcome # "pending" /\ \A i \in Candidate : attempt[i] # "running")

\* The loop implements what its callers rely on.
Contract == INSTANCE RequestContract WITH
              refused <- {i \in taken : attempt[i] # "ok"}
ImplementsContract == Contract!Spec
=============================================================================
