------------------------ MODULE MemberRequestProofs ------------------------
(***************************************************************************)
(* Proofs about MemberRequest for every number of candidates.              *)
(***************************************************************************)
EXTENDS MemberRequest, FiniteSetTheorems, TLAPS

\* Candidates are launched in order.
InOrder ==
  \A i \in Candidate : attempt[i] = "idle" <=> i > launched

\* The channel holds settled attempts, each once, and none that was received.
ChannelSound ==
  /\ \A k \in 1..Len(replies) :
        attempt[replies[k]] \in Settled /\ replies[k] \notin taken
  /\ \A k, l \in 1..Len(replies) : replies[k] = replies[l] => k = l

\* What was received had settled, and was a failure while the loop still runs.
TakenSettled ==
  /\ \A i \in taken : attempt[i] \in Settled
  /\ outcome = "pending" => \A i \in taken : attempt[i] # "ok"

\* The loop runs dry only when no candidate is left.
DryMeansAll ==
  outcome = "pending" /\ inFlight = 0 => launched = N

\* A write reached its last candidate by failing at every earlier one.
WriteChain ==
  ~read => \A i \in 1..(launched - 1) :
              i \in taken /\ attempt[i] \in {"limited", "error"}

\* What a member did agrees with what its attempt reports.
ExecutedSound ==
  \A i \in Candidate :
    /\ attempt[i] = "ok" => i \in executed
    /\ attempt[i] \in {"idle", "limited"} => i \notin executed

OutcomeSound ==
  /\ \A i \in throttled : attempt[i] = "limited"
  /\ outcome = "answered" =>
       winner \in Candidate /\ attempt[winner] = "ok" /\ front = winner
  /\ outcome = "failed" =>
       taken = Candidate /\ \A i \in Candidate : attempt[i] # "ok"

Inv ==
  /\ TypeOK
  /\ InOrder
  /\ ChannelSound
  /\ TakenSettled
  /\ InFlightIsExact
  /\ DryMeansAll
  /\ WriteChain
  /\ ExecutedSound
  /\ OutcomeSound

-----------------------------------------------------------------------------
\* Receiving a reply that was not received before counts exactly once, and once
\* as many replies are received as there are candidates, all of them were.
LEMMA TakenCount ==
  ASSUME TypeOK
  PROVE  /\ Cardinality(taken) \in Nat
         /\ \A i \in Candidate \ taken :
               Cardinality(taken \cup {i}) = Cardinality(taken) + 1
         /\ Cardinality(taken) = N => taken = Candidate
<1>1. IsFiniteSet(Candidate) /\ Cardinality(Candidate) = N
  BY FS_Interval, CandidatesAssumption DEF Candidate
<1>2. IsFiniteSet(taken)
  BY <1>1, FS_Subset DEF TypeOK
<1>3. Cardinality(taken) \in Nat
  BY <1>2, FS_CardinalityType
<1>4. \A i \in Candidate \ taken :
          Cardinality(taken \cup {i}) = Cardinality(taken) + 1
  BY <1>2, FS_AddElement
<1>5. Cardinality(taken) = N => taken = Candidate
  BY <1>1, FS_Subset DEF TypeOK
<1> QED
  BY <1>3, <1>4, <1>5

\* The first launch establishes the invariant.
LEMMA InitInv == Init => Inv
<1> SUFFICES ASSUME Init PROVE Inv
  OBVIOUS
<1> USE CandidatesAssumption DEF Init, Candidate, Settled
<1>1. TypeOK
  <2>1. attempt \in [Candidate -> {"idle", "running"} \cup Settled]
    OBVIOUS
  <2>2. replies \in Seq(Candidate)
    OBVIOUS
  <2>3. launched \in 1..N /\ inFlight \in 0..N /\ winner \in 0..N
    OBVIOUS
  <2> QED
    BY <2>1, <2>2, <2>3 DEF TypeOK
<1>2. InOrder /\ ChannelSound /\ TakenSettled /\ DryMeansAll /\ WriteChain
  BY DEF InOrder, ChannelSound, TakenSettled, DryMeansAll, WriteChain
<1>3. InFlightIsExact
  BY FS_EmptySet DEF InFlightIsExact
<1>4. ExecutedSound /\ OutcomeSound
  BY DEF ExecutedSound, OutcomeSound
<1> QED
  BY <1>1, <1>2, <1>3, <1>4 DEF Inv

\* What members, attempts and the clock do keeps the invariant.
LEMMA EnvironmentInv ==
  ASSUME Inv,
         \/ \E i \in Candidate : Execute(i)
         \/ \E i \in Candidate, verdict \in Settled : Settle(i, verdict)
         \/ SpendBudget
         \/ UNCHANGED vars
  PROVE  Inv'
<1>1. CASE \E i \in Candidate : Execute(i)
  BY <1>1 DEF Execute, Inv, TypeOK, InOrder, ChannelSound, TakenSettled,
     InFlightIsExact, DryMeansAll, WriteChain, ExecutedSound, OutcomeSound,
     Candidate, Settled
<1>2. CASE \E i \in Candidate, verdict \in Settled : Settle(i, verdict)
  <2> PICK i \in Candidate, verdict \in Settled : Settle(i, verdict)
    BY <1>2
  <2> USE DEF Settle, Candidate, Settled
  <2>1. TypeOK'
    BY DEF Inv, TypeOK
  <2>2. InOrder'
    BY DEF Inv, TypeOK, InOrder
  <2>3. ChannelSound'
    <3>1. i \notin taken
      BY DEF Inv, TakenSettled
    <3>2. /\ Len(replies') = Len(replies) + 1
          /\ replies'[Len(replies) + 1] = i
          /\ \A k \in 1..Len(replies) : replies'[k] = replies[k]
      BY DEF Inv, TypeOK
    <3>3. \A k \in 1..Len(replies) : replies[k] # i
      BY DEF Inv, ChannelSound
    <3>4. Len(replies) \in Nat
      BY DEF Inv, TypeOK
    <3> QED
      BY <3>1, <3>2, <3>3, <3>4 DEF Inv, TypeOK, ChannelSound
  <2>4. TakenSettled'
    BY DEF Inv, TypeOK, TakenSettled
  <2>5. InFlightIsExact' /\ DryMeansAll'
    BY DEF Inv, InFlightIsExact, DryMeansAll
  <2>6. WriteChain'
    BY CandidatesAssumption DEF Inv, TypeOK, WriteChain
  <2>7. ExecutedSound'
    BY DEF Inv, TypeOK, ExecutedSound
  <2>8. OutcomeSound'
    BY DEF Inv, TypeOK, OutcomeSound, TakenSettled
  <2> QED
    BY <2>1, <2>2, <2>3, <2>4, <2>5, <2>6, <2>7, <2>8 DEF Inv
<1>3. CASE SpendBudget
  BY <1>3 DEF SpendBudget, Inv, TypeOK, InOrder, ChannelSound, TakenSettled,
     InFlightIsExact, DryMeansAll, WriteChain, ExecutedSound, OutcomeSound
<1>4. CASE UNCHANGED vars
  BY <1>4 DEF vars, Inv, TypeOK, InOrder, ChannelSound, TakenSettled,
     InFlightIsExact, DryMeansAll, WriteChain, ExecutedSound, OutcomeSound
<1> QED
  BY <1>1, <1>2, <1>3, <1>4

\* What the loop knows about the reply it takes from the channel.
LEMMA HeadOfChannel ==
  ASSUME Inv, InLoop, replies # <<>>
  PROVE  /\ Head(replies) \in Candidate \ taken
         /\ attempt[Head(replies)] \in Settled
         /\ Head(replies) <= launched
         /\ Tail(replies) \in Seq(Candidate)
         /\ Len(Tail(replies)) = Len(replies) - 1
         /\ \A k \in 1..Len(Tail(replies)) :
               Tail(replies)[k] = replies[k + 1] /\ Tail(replies)[k] # Head(replies)
<1>1. replies \in Seq(Candidate) /\ Len(replies) \in Nat \ {0}
  BY DEF Inv, TypeOK
<1>2. Head(replies) = replies[1]
  BY <1>1
<1>3. /\ Head(replies) \in Candidate \ taken
      /\ attempt[Head(replies)] \in Settled
  BY <1>1, <1>2 DEF Inv, ChannelSound
<1>4. Head(replies) <= launched
  BY <1>3 DEF Inv, TypeOK, InOrder, Candidate, Settled
<1>5. /\ Tail(replies) \in Seq(Candidate)
      /\ Len(Tail(replies)) = Len(replies) - 1
      /\ \A k \in 1..Len(Tail(replies)) : Tail(replies)[k] = replies[k + 1]
  BY <1>1
<1>6. \A k \in 1..Len(Tail(replies)) : Tail(replies)[k] # Head(replies)
  BY <1>1, <1>2, <1>5 DEF Inv, ChannelSound
<1> QED
  BY <1>3, <1>4, <1>5, <1>6

\* Returning an answer keeps the invariant.
LEMMA ReceiveAnswerInv ==
  ASSUME Inv, ReceiveAnswer
  PROVE  Inv'
<1> DEFINE h == Head(replies)
<1>1. /\ h \in Candidate \ taken
      /\ h <= launched
      /\ Tail(replies) \in Seq(Candidate)
      /\ Len(Tail(replies)) = Len(replies) - 1
      /\ \A k \in 1..Len(Tail(replies)) :
            Tail(replies)[k] = replies[k + 1] /\ Tail(replies)[k] # h
  BY HeadOfChannel DEF ReceiveAnswer
<1>2. /\ taken' = taken \cup {h} /\ replies' = Tail(replies)
      /\ inFlight' = inFlight - 1 /\ inFlight > 0
      /\ attempt[h] = "ok" /\ winner' = h /\ front' = h
      /\ outcome = "pending" /\ outcome' = "answered"
      /\ UNCHANGED <<read, launched, attempt, budgetSpent, throttled, executed>>
  BY DEF ReceiveAnswer, InLoop
<1>t. TypeOK
  BY DEF Inv
<1> HIDE DEF h
<1>3. TypeOK'
  <2>1. inFlight' \in 0..N /\ winner' \in 0..N /\ front' \in 0..N
    BY <1>1, <1>2, <1>t, CandidatesAssumption DEF TypeOK, Candidate
  <2> QED
    BY <2>1, <1>1, <1>2, <1>t DEF TypeOK
<1>4. InOrder'
  BY <1>2 DEF Inv, InOrder
<1>5. ChannelSound'
  BY <1>1, <1>2, <1>t DEF Inv, TypeOK, ChannelSound
<1>6. TakenSettled'
  BY <1>2 DEF Inv, TakenSettled, Settled
<1>7. InFlightIsExact'
  <2>1. Cardinality(taken) \in Nat /\ Cardinality(taken \cup {h}) = Cardinality(taken) + 1
    BY <1>1, <1>t, TakenCount
  <2> QED
    BY <2>1, <1>2, <1>t DEF Inv, InFlightIsExact, TypeOK
<1>8. DryMeansAll' /\ WriteChain' /\ ExecutedSound'
  BY <1>2 DEF Inv, DryMeansAll, WriteChain, ExecutedSound
<1>9. OutcomeSound'
  BY <1>1, <1>2 DEF Inv, OutcomeSound
<1> QED
  BY <1>3, <1>4, <1>5, <1>6, <1>7, <1>8, <1>9 DEF Inv

\* Going on after a failure keeps the invariant.
LEMMA ReceiveFailureInv ==
  ASSUME Inv, ReceiveFailure
  PROVE  Inv'
<1> DEFINE h == Head(replies)
<1>1. /\ h \in Candidate \ taken
      /\ h <= launched
      /\ Tail(replies) \in Seq(Candidate)
      /\ Len(Tail(replies)) = Len(replies) - 1
      /\ \A k \in 1..Len(Tail(replies)) :
            Tail(replies)[k] = replies[k + 1] /\ Tail(replies)[k] # h
  BY HeadOfChannel DEF ReceiveFailure
<1>2. /\ taken' = taken \cup {h} /\ replies' = Tail(replies)
      /\ attempt[h] \in {"limited", "error"} /\ outcome = "pending"
      /\ inFlight > 0
      /\ throttled' = IF attempt[h] = "limited" THEN throttled \cup {h}
                      ELSE throttled
      /\ LaunchNext(inFlight - 1)
      /\ UNCHANGED <<read, budgetSpent, outcome, winner, front, executed>>
  BY DEF ReceiveFailure, InLoop
<1>t. TypeOK
  BY DEF Inv
<1>n. N \in Nat \ {0}
  BY CandidatesAssumption
<1> HIDE DEF h
<1>l. /\ launched' \in {launched, launched + 1}
      /\ launched' = launched + (IF launched < N THEN 1 ELSE 0)
      /\ inFlight' = inFlight - 1 + (IF launched < N THEN 1 ELSE 0)
      /\ \A i \in Candidate :
            attempt'[i] = IF i = launched + 1 THEN "running" ELSE attempt[i]
  BY <1>2, <1>t, <1>n DEF LaunchNext, TypeOK, Candidate
<1>i. \A i \in Candidate : attempt[i] # "idle" => attempt'[i] = attempt[i]
  BY <1>l, <1>t DEF Inv, InOrder, Candidate, TypeOK
<1>3. TypeOK'
  <2>1. inFlight' \in 0..N /\ launched' \in 1..N
    BY <1>2, <1>l, <1>t, <1>n DEF TypeOK
  <2>2. attempt' \in [Candidate -> {"idle", "running"} \cup Settled]
    BY <1>2, <1>t DEF LaunchNext, TypeOK
  <2>3. throttled' \in SUBSET Candidate
    BY <1>1, <1>2, <1>t DEF TypeOK
  <2> QED
    BY <2>1, <2>2, <2>3, <1>1, <1>2, <1>t DEF TypeOK
<1>4. InOrder'
  <2> SUFFICES ASSUME NEW i \in Candidate
               PROVE  attempt'[i] = "idle" <=> i > launched'
    BY DEF InOrder
  <2>1. attempt[i] = "idle" <=> i > launched
    BY DEF Inv, InOrder
  <2> QED
    BY <2>1, <1>l, <1>t, <1>n DEF TypeOK, Candidate
<1>5. ChannelSound'
  <2>1. \A k \in 1..Len(replies) : attempt'[replies[k]] = attempt[replies[k]]
    BY <1>i, <1>t DEF Inv, ChannelSound, TypeOK, Settled
  <2> QED
    BY <2>1, <1>1, <1>2, <1>t DEF Inv, TypeOK, ChannelSound
<1>6. TakenSettled'
  BY <1>1, <1>2, <1>i, <1>t DEF Inv, TakenSettled, Settled, TypeOK
<1>7. InFlightIsExact'
  <2>1. Cardinality(taken) \in Nat /\ Cardinality(taken \cup {h}) = Cardinality(taken) + 1
    BY <1>1, <1>t, TakenCount
  <2> QED
    BY <2>1, <1>2, <1>l, <1>t DEF Inv, InFlightIsExact, TypeOK
<1>8. DryMeansAll'
  BY <1>2, <1>l, <1>t, <1>n DEF DryMeansAll, TypeOK
<1>9. WriteChain'
  <2> SUFFICES ASSUME ~read, NEW i \in 1..(launched' - 1)
               PROVE  i \in taken' /\ attempt'[i] \in {"limited", "error"}
    BY <1>2 DEF WriteChain
  <2>1. i \in 1..launched /\ launched \in 1..N /\ i \in Candidate
    BY <1>l, <1>t, <1>n DEF TypeOK, Candidate
  <2>2. \A j \in 1..(launched - 1) :
           j \in taken /\ attempt[j] \in {"limited", "error"}
    BY DEF Inv, WriteChain
  <2>3. h = launched
    BY <2>1, <2>2, <1>1 DEF Candidate
  <2>4. i \in taken' /\ attempt[i] \in {"limited", "error"}
    BY <2>1, <2>2, <2>3, <1>2
  <2> QED
    BY <2>1, <2>4, <1>i
<1>10. ExecutedSound'
  BY <1>2, <1>l, <1>t DEF Inv, ExecutedSound, InOrder, TypeOK, Candidate
<1>11. OutcomeSound'
  BY <1>1, <1>2, <1>i, <1>t DEF Inv, OutcomeSound, TypeOK
<1> QED
  BY <1>3, <1>4, <1>5, <1>6, <1>7, <1>8, <1>9, <1>10, <1>11 DEF Inv

\* Hedging keeps the invariant: only reads do it.
LEMMA HedgeInv ==
  ASSUME Inv, Hedge
  PROVE  Inv'
<1>2. /\ read /\ outcome = "pending" /\ inFlight > 0
      /\ LaunchNext(inFlight)
      /\ UNCHANGED <<read, replies, taken, budgetSpent, outcome, winner, front,
                     throttled, executed>>
  BY DEF Hedge, HedgeArmed, InLoop
<1>t. TypeOK
  BY DEF Inv
<1>n. N \in Nat \ {0}
  BY CandidatesAssumption
<1>c. Cardinality(taken) \in Nat /\ inFlight + Cardinality(taken) = launched
  BY <1>t, TakenCount DEF Inv, InFlightIsExact
<1>l. /\ launched' = launched + (IF launched < N THEN 1 ELSE 0)
      /\ inFlight' = inFlight + (IF launched < N THEN 1 ELSE 0)
      /\ \A i \in Candidate :
            attempt'[i] = IF i = launched + 1 THEN "running" ELSE attempt[i]
  BY <1>2, <1>t, <1>n DEF LaunchNext, TypeOK, Candidate
<1>i. \A i \in Candidate : attempt[i] # "idle" => attempt'[i] = attempt[i]
  BY <1>l, <1>t DEF Inv, InOrder, Candidate, TypeOK
<1>3. TypeOK'
  <2>1. inFlight' \in 0..N /\ launched' \in 1..N
    BY <1>l, <1>c, <1>t, <1>n DEF TypeOK
  <2>2. attempt' \in [Candidate -> {"idle", "running"} \cup Settled]
    BY <1>2, <1>t DEF LaunchNext, TypeOK
  <2> QED
    BY <2>1, <2>2, <1>2, <1>t DEF TypeOK
<1>4. InOrder'
  <2> SUFFICES ASSUME NEW i \in Candidate
               PROVE  attempt'[i] = "idle" <=> i > launched'
    BY DEF InOrder
  <2>1. attempt[i] = "idle" <=> i > launched
    BY DEF Inv, InOrder
  <2> QED
    BY <2>1, <1>l, <1>t, <1>n DEF TypeOK, Candidate
<1>5. ChannelSound'
  BY <1>2, <1>i, <1>t DEF Inv, ChannelSound, TypeOK, Settled
<1>6. TakenSettled'
  BY <1>2, <1>i, <1>t DEF Inv, TakenSettled, Settled, TypeOK
<1>7. InFlightIsExact'
  BY <1>2, <1>l, <1>c, <1>t DEF InFlightIsExact, TypeOK
<1>8. DryMeansAll' /\ WriteChain'
  BY <1>2, <1>l, <1>t DEF DryMeansAll, WriteChain, TypeOK
<1>9. ExecutedSound'
  BY <1>2, <1>l, <1>t DEF Inv, ExecutedSound, InOrder, TypeOK, Candidate
<1>10. OutcomeSound'
  BY <1>2, <1>i, <1>t DEF Inv, OutcomeSound, TypeOK
<1> QED
  BY <1>3, <1>4, <1>5, <1>6, <1>7, <1>8, <1>9, <1>10 DEF Inv

\* Returning without an answer keeps the invariant.
LEMMA ReturnInv ==
  ASSUME Inv, GiveUp \/ Exhaust
  PROVE  Inv'
<1>t. TypeOK
  BY DEF Inv
<1>1. CASE GiveUp
  BY <1>1 DEF GiveUp, InLoop, Inv, TypeOK, InOrder, ChannelSound, TakenSettled,
     InFlightIsExact, DryMeansAll, WriteChain, ExecutedSound, OutcomeSound
<1>2. CASE Exhaust
  <2>1. launched = N
    BY <1>2 DEF Exhaust, Inv, DryMeansAll
  <2>2. taken = Candidate
    BY <2>1, <1>2, <1>t, TakenCount, CandidatesAssumption
       DEF Exhaust, Inv, InFlightIsExact
  <2>3. OutcomeSound'
    BY <2>2, <1>2 DEF Exhaust, Inv, OutcomeSound, TakenSettled
  <2> QED
    BY <2>3, <1>2 DEF Exhaust, Inv, TypeOK, InOrder, ChannelSound, TakenSettled,
       InFlightIsExact, DryMeansAll, WriteChain, ExecutedSound
<1> QED
  BY <1>1, <1>2

-----------------------------------------------------------------------------
\* Every step of a request keeps the invariant.
LEMMA NextInv == Inv /\ [Next]_vars => Inv'
<1> SUFFICES ASSUME Inv, [Next]_vars PROVE Inv'
  OBVIOUS
<1>1. CASE \E i \in Candidate : Execute(i)
  BY <1>1, EnvironmentInv
<1>2. CASE \E i \in Candidate, verdict \in Settled : Settle(i, verdict)
  BY <1>2, EnvironmentInv
<1>3. CASE SpendBudget
  BY <1>3, EnvironmentInv
<1>4. CASE ReceiveAnswer
  BY <1>4, ReceiveAnswerInv
<1>5. CASE ReceiveFailure
  BY <1>5, ReceiveFailureInv
<1>6. CASE Hedge
  BY <1>6, HedgeInv
<1>7. CASE GiveUp \/ Exhaust
  BY <1>7, ReturnInv
<1>8. CASE UNCHANGED vars
  BY <1>8, EnvironmentInv
<1> QED
  BY <1>1, <1>2, <1>3, <1>4, <1>5, <1>6, <1>7, <1>8 DEF Next

\* The invariant holds in every reachable state of a request.
THEOREM Invariance == Spec => []Inv
<1> QED
  BY InitInv, NextInv, PTL DEF Spec

\* The variables of tryMembers keep their types; in particular the loop counter
\* never goes below zero or above the number of candidates.
THEOREM TypeCorrect == Spec => []TypeOK
<1>1. Inv => TypeOK
  BY DEF Inv
<1> QED
  BY <1>1, Invariance, PTL

\* The loop's counter is the number of replies it is still owed.
THEOREM CounterIsExact == Spec => []InFlightIsExact
<1>1. Inv => InFlightIsExact
  BY DEF Inv
<1> QED
  BY <1>1, Invariance, PTL

\* A write has at most one outstanding attempt (nodeclient.go:319).
THEOREM WritesSequential == Spec => []WritesAreNotRaced
<1>1. Inv => WritesAreNotRaced
  <2> SUFFICES ASSUME Inv, ~read, NEW i \in Outstanding, NEW j \in Outstanding
               PROVE  i = j
    BY DEF WritesAreNotRaced
  <2>1. \A k \in Outstanding : k = launched
    BY CandidatesAssumption
       DEF Outstanding, Inv, TypeOK, InOrder, WriteChain, Candidate
  <2> QED
    BY <2>1
<1> QED
  BY <1>1, Invariance, PTL

\* A write is carried out by a second member only after the reply of the first
\* was lost.
THEOREM WriteRepetition == Spec => []WriteRepeatedOnlyAfterError
<1>1. Inv => WriteRepeatedOnlyAfterError
  <2> SUFFICES ASSUME Inv, ~read, NEW i \in executed, NEW j \in executed, i < j
               PROVE  attempt[i] = "error"
    BY DEF WriteRepeatedOnlyAfterError
  <2>1. i \in Candidate /\ j \in Candidate /\ launched \in 1..N
    BY DEF Inv, TypeOK
  <2>2. attempt[j] # "idle" /\ attempt[i] # "limited"
    BY <2>1 DEF Inv, ExecutedSound
  <2>3. i \in 1..(launched - 1)
    BY <2>1, <2>2, CandidatesAssumption DEF Inv, InOrder, Candidate
  <2> QED
    BY <2>2, <2>3 DEF Inv, WriteChain
<1> QED
  BY <1>1, Invariance, PTL

\* "failed on all member nodes" (nodeclient.go:350) is never said too early.
THEOREM FailureExhaustive == Spec => []FailureIsExhaustive
<1>1. Inv => FailureIsExhaustive
  BY DEF Inv, FailureIsExhaustive, OutcomeSound, TakenSettled, Settled
<1> QED
  BY <1>1, Invariance, PTL

\* The response returned is genuine, and so are the throttle marks.
THEOREM AnswerGenuine == Spec => []AnswerIsGenuine
<1>1. Inv => AnswerIsGenuine
  BY DEF Inv, AnswerIsGenuine, OutcomeSound, ExecutedSound, TypeOK, Candidate
<1> QED
  BY <1>1, Invariance, PTL

\* Nothing is launched once tryMembers returned.
THEOREM NothingAfterReturn == Spec => NoLaunchAfterReturn
<1>1. Inv /\ [Next]_vars =>
        [outcome # "pending" => \A i \in Candidate :
            attempt[i] = "idle" => attempt'[i] = "idle"]_vars
  BY DEF Inv, TypeOK, Next, vars, Execute, Settle, SpendBudget, ReceiveAnswer,
     ReceiveFailure, Hedge, GiveUp, Exhaust, InLoop
<1> QED
  BY <1>1, Invariance, PTL DEF Spec, NoLaunchAfterReturn

-----------------------------------------------------------------------------
\* tryMembers implements the contract its callers rely on.
THEOREM Refinement == Spec => ImplementsContract
<1> DEFINE refused == {i \in taken : attempt[i] # "ok"}
<1>1. Init => Contract!Init
  BY DEF Init, Contract!Init
<1>2. Inv /\ Inv' /\ [Next]_vars => [Contract!Next]_(Contract!vars)
  <2> SUFFICES ASSUME Inv, Inv', [Next]_vars
               PROVE  [Contract!Next]_(Contract!vars)
    OBVIOUS
  <2>1. CASE \E i \in Candidate : Execute(i)
    BY <2>1 DEF Execute, Contract!vars
  <2>2. CASE \E i \in Candidate, verdict \in Settled : Settle(i, verdict)
    <3> PICK i \in Candidate, verdict \in Settled : Settle(i, verdict)
      BY <2>2
    <3>1. \A k \in taken : attempt'[k] = attempt[k]
      BY DEF Settle, Inv, TakenSettled, TypeOK, Settled
    <3> QED
      BY <3>1 DEF Settle, Contract!vars
  <2>3. CASE SpendBudget
    BY <2>3 DEF SpendBudget, Contract!vars
  <2>4. CASE ReceiveAnswer
    <3>1. Head(replies) \in Candidate \ taken
      BY <2>4, HeadOfChannel DEF ReceiveAnswer
    <3>2. Contract!Answer(Head(replies))
      BY <2>4, <3>1 DEF ReceiveAnswer, InLoop, Contract!Answer
    <3> QED
      BY <3>1, <3>2 DEF Contract!Next, Contract!Candidate, Candidate
  <2>5. CASE ReceiveFailure
    <3>1. Head(replies) \in Candidate \ taken
      BY <2>5, HeadOfChannel DEF ReceiveFailure
    <3>2. \A k \in taken \cup {Head(replies)} : attempt'[k] = attempt[k]
      <4>1. \A k \in taken \cup {Head(replies)} : attempt[k] # "idle"
        BY <2>5 DEF ReceiveFailure, Inv, TakenSettled, Settled
      <4>2. \A k \in taken \cup {Head(replies)} :
              k \in Candidate /\ k <= launched
        BY <4>1, <3>1 DEF Inv, TypeOK, InOrder, Candidate
      <4> QED
        BY <2>5, <4>2 DEF ReceiveFailure, LaunchNext, Inv, TypeOK, Candidate
    <3>3. PICK i \in Candidate \ taken : i = Head(replies)
      BY <3>1
    <3>4. Contract!Refuse(i)
      BY <2>5, <3>2, <3>3 DEF ReceiveFailure, InLoop, Contract!Refuse
    <3> QED
      BY <3>4 DEF Contract!Next, Contract!Candidate, Candidate
  <2>6. CASE Hedge
    <3>1. \A k \in taken : k \in Candidate /\ k <= launched
      BY DEF Inv, TypeOK, InOrder, TakenSettled, Settled, Candidate
    <3>2. \A k \in taken : attempt'[k] = attempt[k]
      BY <2>6, <3>1 DEF Hedge, LaunchNext, Inv, TypeOK, Candidate
    <3> QED
      BY <2>6, <3>2 DEF Hedge, Contract!vars
  <2>7. CASE GiveUp
    BY <2>7 DEF GiveUp, InLoop, Contract!Next, Contract!Expire
  <2>8. CASE Exhaust
    <3>1. outcome' = "failed" /\ outcome = "pending"
          /\ UNCHANGED <<taken, attempt, winner>>
      BY <2>8 DEF Exhaust
    <3>2. refused = Contract!Candidate
      BY <3>1 DEF Inv, OutcomeSound, Contract!Candidate, Candidate
    <3> QED
      BY <3>1, <3>2 DEF Contract!Next, Contract!Fail
  <2>9. CASE UNCHANGED vars
    BY <2>9 DEF vars, Contract!vars
  <2> QED
    BY <2>1, <2>2, <2>3, <2>4, <2>5, <2>6, <2>7, <2>8, <2>9 DEF Next
<1> QED
  BY <1>1, <1>2, Invariance, PTL DEF Spec, ImplementsContract, Contract!Spec
=============================================================================
