------------------------ MODULE FollowHandshakeProofs ------------------------
(***************************************************************************)
(* The follow handshake, for any accounts, activities and retries: who is  *)
(* stored was told so, and an exchange nothing disturbed leaves the graph  *)
(* the account asked for.                                                  *)
(***************************************************************************)
EXTENDS FollowHandshake, FiniteSetTheorems, TLAPS

-----------------------------------------------------------------------------
(* The invariant. *)

\* Jobs that have posted the Accept.
Told == {"identify", "persist", "notify"}

\* A job past the delivery has its Accept at the remote.
ToldFirst == \A j \in Job : at[j] \in Told => <<j[1], j[2]>> \in accepted

\* Jobs that use a name have one.
Named == \A j \in Job : at[j] \in {"persist", "notify", "forward"} => name[j] # "unknown"

\* Follows and Undos go their own ways.
Kinds ==
  \A j \in Job :
    /\ at[j] \in {"deliver", "identify", "persist", "notify"} => IsFollow(j[2])
    /\ at[j] \in {"resolve", "forward"} => ~ IsFollow(j[2])

\* Only what was sent is posted or received.
WasSent ==
  /\ \A a \in Actor, n \in 1..MaxSends : <<a, n>> \in outbox => n <= sent[a]
  /\ \A j \in Job : at[j] # "none" => j[2] <= sent[j[1]]

\* The exchange with an account that nothing has disturbed so far: one job at a
\* time, for the latest activity received; an Undo still being resolved is not
\* answered; whatever was answered was received; one name is in use; and when all
\* is answered and done the graph says what was asked for last.
OneJob(a) == \A i, j \in Running(a) : i = j
LatestRuns(a) == \A j \in Running(a), i \in Received(a) : i[2] <= j[2]
UndoUnanswered(a) == \A j \in Running(a) : at[j] = "resolve" => <<a, j[2]>> \in outbox
NoneSkipped(a) ==
  \A n \in 1..MaxSends :
    n <= sent[a] /\ <<a, n>> \notin outbox => \E j \in Received(a) : j[2] = n
OneName(a) ==
  /\ <<a, "naive">> \notin stored
  /\ \A j \in Running(a) : at[j] \in {"persist", "notify", "forward"} => name[j] = "handle"
AddedFirst(a) == \A j \in Running(a) : at[j] = "notify" => <<a, "handle">> \in stored
Settled(a) ==
  Running(a) = {} /\ <<a, sent[a]>> \notin outbox =>
    (<<a, "handle">> \in stored <=> IsFollow(sent[a]))

InOrder(a) ==
  /\ OneJob(a) /\ LatestRuns(a) /\ UndoUnanswered(a) /\ NoneSkipped(a)
  /\ OneName(a) /\ AddedFirst(a) /\ Settled(a)

Undisturbed == \A a \in Actor : mishaps[a] = {} => InOrder(a)

Inv ==
  /\ FollowersWereAccepted
  /\ ToldFirst
  /\ Named
  /\ Kinds
  /\ WasSent

-----------------------------------------------------------------------------
(* Jobs and the steps that move them. *)

\* A job is an account, the number of an activity and of a try.
LEMMA JobParts ==
  ASSUME NEW j \in Job
  PROVE  /\ j[1] \in Actor /\ j[2] \in 1..MaxSends /\ j[3] \in 1..MaxTries
         /\ <<j[1], j[2]>> \in Message
         /\ j[2] \in Nat \ {0}
BY BoundAssumption DEF Job, Message

\* A move changes where one job stands.
LEMMA Moved ==
  ASSUME TypeOK, NEW j \in Job, NEW s \in Stage, MoveTo(j, s)
  PROVE  /\ at' \in [Job -> Stage]
         /\ at'[j] = s
         /\ \A i \in Job : i # j => at'[i] = at[i]
BY DEF TypeOK, MoveTo

\* A job that starts joins the running ones of its account.
LEMMA Starts ==
  ASSUME TypeOK, NEW j \in Job, NEW s \in Live, at[j] = "none", MoveTo(j, s)
  PROVE  /\ Running(j[1])' = Running(j[1]) \cup {j}
         /\ Received(j[1])' = Received(j[1]) \cup {j}
<1>1. s \in Stage /\ s # "none"
  BY DEF Stage, Live
<1> QED
  BY <1>1, Moved DEF Running, Received, Live

\* One that goes on is still running.
LEMMA GoesOn ==
  ASSUME TypeOK, NEW j \in Job, NEW s \in Live, at[j] \in Live, MoveTo(j, s)
  PROVE  /\ Running(j[1])' = Running(j[1]) /\ j \in Running(j[1])
         /\ Received(j[1])' = Received(j[1]) /\ j \in Received(j[1])
<1>1. s \in Stage /\ s # "none" /\ at[j] # "none"
  BY DEF Stage, Live
<1> QED
  BY <1>1, Moved DEF Running, Received

\* One that ends leaves them, and has been received.
LEMMA Ends ==
  ASSUME TypeOK, NEW j \in Job, at[j] \in Live, MoveTo(j, "ended")
  PROVE  /\ Running(j[1])' = Running(j[1]) \ {j} /\ j \in Running(j[1])
         /\ Received(j[1])' = Received(j[1]) /\ j \in Received(j[1])
<1>1. "ended" \in Stage /\ "ended" # "none" /\ at[j] # "none" /\ "ended" \notin Live
  BY DEF Stage, Live
<1> QED
  BY <1>1, Moved DEF Running, Received

-----------------------------------------------------------------------------
(* Who is stored was told. *)

\* Nothing is stored at the start.
LEMMA InitInv == Init => Inv /\ Undisturbed
<1> SUFFICES ASSUME Init PROVE Inv /\ Undisturbed
  OBVIOUS
<1>1. TypeOK
  <2>1. sent \in [Actor -> 0..MaxSends]
    BY BoundAssumption DEF Init
  <2>2. /\ at \in [Job -> Stage] /\ name \in [Job -> {"unknown", "handle", "naive"}]
        /\ mishaps \in [Actor -> SUBSET Mishap]
    BY DEF Init, Stage
  <2> QED
    BY <2>1, <2>2 DEF Init, TypeOK
<1>2. Inv
  BY <1>1 DEF Init, Inv, FollowersWereAccepted, ToldFirst, Named, Kinds, WasSent, Told
<1>3. ASSUME NEW a \in Actor
      PROVE  InOrder(a)
  <2>1. Running(a) = {} /\ Received(a) = {} /\ sent[a] = 0 /\ outbox = {} /\ stored = {}
    BY DEF Init, Running, Received, Live
  <2>2. ~ IsFollow(0)
    BY DEF IsFollow
  <2> QED
    BY <2>1, <2>2, BoundAssumption
       DEF InOrder, OneJob, LatestRuns, UndoUnanswered, NoneSkipped, OneName, AddedFirst, Settled
<1> QED
  BY <1>2, <1>3 DEF Undisturbed

\* The remote's steps: sending and giving up.
LEMMA RemoteInv ==
  ASSUME Inv, (\E a \in Actor : Send(a)) \/ (\E m \in Message : GiveUp(m))
  PROVE  Inv'
<1>1. CASE \E a \in Actor : Send(a)
  <2>1. PICK a \in Actor : Send(a)
    BY <1>1
  <2>2. /\ sent[a] \in 0..MaxSends /\ sent[a] < MaxSends
        /\ sent' = [sent EXCEPT ![a] = sent[a] + 1]
        /\ outbox' = outbox \cup {<<a, sent[a] + 1>>}
        /\ UNCHANGED <<at, name, stored, accepted, announced, mishaps>>
        /\ sent[a] + 1 \in 1..MaxSends
        /\ \A b \in Actor : sent[b] <= sent'[b] /\ sent[b] \in Nat /\ sent'[b] \in 0..MaxSends
        /\ sent'[a] = sent[a] + 1
    BY <2>1, BoundAssumption DEF Send, Inv, FollowersWereAccepted, TypeOK
  <2>3. TypeOK'
    BY <2>2 DEF Inv, FollowersWereAccepted, TypeOK, Message
  <2>4. WasSent'
    <3>1. ASSUME NEW b \in Actor, NEW n \in 1..MaxSends, <<b, n>> \in outbox'
          PROVE  n <= sent'[b]
      <4>1. CASE <<b, n>> \in outbox
        BY <2>2, <4>1, BoundAssumption DEF Inv, WasSent
      <4>2. CASE <<b, n>> = <<a, sent[a] + 1>>
        BY <2>2, <4>2
      <4> QED
        BY <2>2, <3>1, <4>1, <4>2
    <3>2. ASSUME NEW j \in Job, at'[j] # "none"
          PROVE  j[2] <= sent'[j[1]]
      <4>1. j[2] <= sent[j[1]] /\ j[1] \in Actor /\ j[2] \in Nat
        BY <2>2, <3>2, JobParts DEF Inv, WasSent
      <4>2. sent[j[1]] <= sent'[j[1]] /\ sent[j[1]] \in Nat /\ sent'[j[1]] \in Nat
        BY <2>2, <4>1
      <4> QED
        BY <4>1, <4>2
    <3> QED
      BY <3>1, <3>2 DEF WasSent
  <2> QED
    BY <2>2, <2>3, <2>4 DEF Inv, FollowersWereAccepted, ToldFirst, Named, Kinds
<1>2. CASE \E m \in Message : GiveUp(m)
  <2>1. PICK m \in Message : GiveUp(m)
    BY <1>2
  <2>2. /\ outbox' \subseteq outbox
        /\ UNCHANGED <<sent, at, name, stored, accepted, announced>>
        /\ mishaps' = [mishaps EXCEPT ![m[1]] = @ \cup {"lost"}]
    BY <2>1 DEF GiveUp, Note
  <2>3. m[1] \in Actor /\ {"lost"} \subseteq Mishap
    BY DEF Message, Mishap
  <2>4. TypeOK'
    BY <2>2, <2>3 DEF Inv, FollowersWereAccepted, TypeOK
  <2> QED
    BY <2>2, <2>4 DEF Inv, FollowersWereAccepted, ToldFirst, Named, Kinds, WasSent
<1> QED
  BY <1>1, <1>2

\* What the step of a job needs to show: its own part.
LEMMA JobStep ==
  ASSUME Inv, NEW j \in Job, NEW s \in Stage, MoveTo(j, s),
         sent' = sent, outbox' \subseteq outbox, accepted \subseteq accepted',
         accepted' \subseteq Message, announced' \in BOOLEAN,
         mishaps' \in [Actor -> SUBSET Mishap],
         NEW id \in {"unknown", "handle", "naive"}, name' = [name EXCEPT ![j] = id],
         stored' \in SUBSET (Actor \X {"handle", "naive"}),
         stored' \subseteq stored \cup {<<j[1], name[j]>>},
         at[j] \in Told \/ stored' \subseteq stored,
         s \in Told => <<j[1], j[2]>> \in accepted',
         s \in {"persist", "notify", "forward"} => id # "unknown",
         s \in {"deliver", "identify", "persist", "notify"} => IsFollow(j[2]),
         s \in {"resolve", "forward"} => ~ IsFollow(j[2]),
         j[2] <= sent[j[1]]
  PROVE  Inv'
<1>t. TypeOK
  BY DEF Inv, FollowersWereAccepted
<1>1. /\ at' \in [Job -> Stage] /\ at'[j] = s
      /\ \A i \in Job : i # j => at'[i] = at[i]
  BY <1>t, Moved
<1>2. /\ name' \in [Job -> {"unknown", "handle", "naive"}] /\ name'[j] = id
      /\ \A i \in Job : i # j => name'[i] = name[i]
  BY <1>t DEF TypeOK
<1>3. TypeOK'
  BY <1>t, <1>1, <1>2 DEF TypeOK
<1>4. \A f \in stored' : \E n \in 1..MaxSends : <<f[1], n>> \in accepted'
  <2> SUFFICES ASSUME NEW f \in stored'
               PROVE  \E n \in 1..MaxSends : <<f[1], n>> \in accepted'
    OBVIOUS
  <2>1. CASE f \in stored
    BY <2>1 DEF Inv, FollowersWereAccepted
  <2>2. CASE f \notin stored
    <3>1. f = <<j[1], name[j]>> /\ at[j] \in Told
      BY <2>2
    <3>2. <<j[1], j[2]>> \in accepted
      BY <3>1 DEF Inv, ToldFirst
    <3> QED
      BY <3>1, <3>2, JobParts
  <2> QED
    BY <2>1, <2>2
<1>5. ToldFirst'
  BY <1>1 DEF Inv, ToldFirst
<1>6. Named'
  BY <1>1, <1>2 DEF Inv, Named
<1>7. Kinds'
  BY <1>1 DEF Inv, Kinds
<1>8. WasSent'
  BY <1>1 DEF Inv, WasSent
<1> QED
  BY <1>3, <1>4, <1>5, <1>6, <1>7, <1>8 DEF Inv, FollowersWereAccepted

\* Noting mishaps keeps the type of the history.
LEMMA NoteType ==
  ASSUME TypeOK, NEW a \in Actor, NEW what \in SUBSET Mishap, Note(a, what)
  PROVE  mishaps' \in [Actor -> SUBSET Mishap]
BY DEF TypeOK, Note

\* The same for a step that resolves no name.
LEMMA NamelessStep ==
  ASSUME Inv, NEW j \in Job, NEW s \in Stage, MoveTo(j, s),
         sent' = sent, outbox' \subseteq outbox, accepted \subseteq accepted',
         accepted' \subseteq Message, announced' \in BOOLEAN,
         mishaps' \in [Actor -> SUBSET Mishap],
         name' = name,
         stored' \in SUBSET (Actor \X {"handle", "naive"}),
         stored' \subseteq stored \cup {<<j[1], name[j]>>},
         at[j] \in Told \/ stored' \subseteq stored,
         s \in Told => <<j[1], j[2]>> \in accepted',
         s \in {"persist", "notify", "forward"} => name[j] # "unknown",
         s \in {"deliver", "identify", "persist", "notify"} => IsFollow(j[2]),
         s \in {"resolve", "forward"} => ~ IsFollow(j[2]),
         j[2] <= sent[j[1]]
  PROVE  Inv'
<1> DEFINE id == name[j]
<1>1. id \in {"unknown", "handle", "naive"} /\ name' = [name EXCEPT ![j] = id]
  BY DEF Inv, FollowersWereAccepted, TypeOK
<1>2. s \in {"persist", "notify", "forward"} => id # "unknown"
  OBVIOUS
<1> HIDE DEF id
<1> QED
  BY <1>1, <1>2, JobStep

\* Every step of a job keeps the invariant.
LEMMA JobInv ==
  ASSUME Inv, NEW j \in Job,
         ReceiveFollow(j) \/ ReceiveUndo(j) \/ Busy(j) \/ Work(j)
  PROVE  Inv'
<1> USE JobParts
<1>t. TypeOK
  BY DEF Inv, FollowersWereAccepted
<1>a. Arrival(j[1], j[2]) \in SUBSET Mishap
  BY DEF Arrival, Mishap
<1>b. at[j] # "none" => j[2] <= sent[j[1]]
  BY DEF Inv, WasSent
<1>c. /\ "deliver" \in Stage /\ "resolve" \in Stage /\ "ended" \in Stage /\ "forward" \in Stage
      /\ "identify" \in Stage /\ "persist" \in Stage /\ "notify" \in Stage
      /\ {"error"} \in SUBSET Mishap /\ {} \in SUBSET Mishap /\ {"name"} \in SUBSET Mishap
  BY DEF Stage, Live, Mishap
<1>d. accepted \subseteq Message /\ stored \in SUBSET (Actor \X {"handle", "naive"})
      /\ announced \in BOOLEAN /\ mishaps \in [Actor -> SUBSET Mishap]
  BY <1>t DEF TypeOK
<1>e. /\ at[j] \in {"persist", "notify", "forward"} => name[j] \in {"handle", "naive"}
      /\ name[j] \in {"unknown", "handle", "naive"}
      /\ at[j] \in Told => <<j[1], j[2]>> \in accepted
      /\ at[j] \in {"deliver", "identify", "persist", "notify"} => IsFollow(j[2])
      /\ at[j] \in {"resolve", "forward"} => ~ IsFollow(j[2])
  BY <1>t DEF Inv, Named, TypeOK, ToldFirst, Kinds
<1>1. CASE ReceiveFollow(j)
  <2>1. <<j[1], j[2]>> \in outbox => j[2] <= sent[j[1]]
    BY DEF Inv, WasSent
  <2>2. /\ MoveTo(j, "deliver") /\ IsFollow(j[2]) /\ j[2] <= sent[j[1]]
        /\ outbox' \subseteq outbox
        /\ UNCHANGED <<sent, name, stored, accepted, announced>>
    BY <1>1, <2>1 DEF ReceiveFollow, Answer
  <2>3. mishaps' \in [Actor -> SUBSET Mishap]
    BY <1>1, <1>t, <1>a, NoteType DEF ReceiveFollow
  <2> QED
    BY <1>t, <1>c, <1>d, <2>2, <2>3, NamelessStep DEF Told
<1>2. CASE ReceiveUndo(j)
  <2>1. <<j[1], j[2]>> \in outbox => j[2] <= sent[j[1]]
    BY DEF Inv, WasSent
  <2>2. /\ MoveTo(j, "resolve") /\ ~ IsFollow(j[2]) /\ j[2] <= sent[j[1]]
        /\ UNCHANGED <<sent, outbox, name, stored, accepted, announced>>
    BY <1>2, <2>1 DEF ReceiveUndo
  <2>3. mishaps' \in [Actor -> SUBSET Mishap]
    BY <1>2, <1>t, <1>a, NoteType DEF ReceiveUndo
  <2> QED
    BY <1>t, <1>c, <1>d, <2>2, <2>3, NamelessStep DEF Told
<1>3. CASE Busy(j)
  BY <1>3, <1>t, <1>b, <1>c, <1>d, NamelessStep DEF Busy, Told
<1>4. CASE AdmitUndo(j)
  <2>1. PICK id \in Names(j[1]) :
          /\ name' = [name EXCEPT ![j] = id]
          /\ Note(j[1], IF id = "naive" THEN {"name"} ELSE {})
          /\ MoveTo(j, "forward")
    BY <1>4 DEF AdmitUndo, Resolve
  <2>2. id \in {"handle", "naive"}
    BY DEF Names
  <2>3. mishaps' \in [Actor -> SUBSET Mishap]
    BY <2>1, <1>t, <1>c, NoteType
  <2>4. /\ at[j] = "resolve" /\ outbox' \subseteq outbox
        /\ UNCHANGED <<sent, stored, accepted, announced>>
    BY <1>4 DEF AdmitUndo, Answer
  <2> QED
    BY <1>b, <1>c, <1>d, <1>e, <2>1, <2>2, <2>3, <2>4, JobStep DEF Told
<1>5. CASE ForwardUndo(j)
  <2>1. /\ at[j] = "forward" /\ MoveTo(j, "ended") /\ name' = [name EXCEPT ![j] = "unknown"]
        /\ stored' \subseteq stored
        /\ UNCHANGED <<sent, outbox, accepted, announced>>
    BY <1>5 DEF ForwardUndo, Forget
  <2>2. mishaps' \in [Actor -> SUBSET Mishap]
    BY <1>5, <1>t, <1>c, <1>d, NoteType DEF ForwardUndo
  <2> QED
    BY <1>b, <1>c, <1>d, <2>1, <2>2, JobStep DEF Told
<1>6. CASE DeliverAccept(j)
  <2>1. /\ at[j] = "deliver" /\ MoveTo(j, "identify")
        /\ accepted' = accepted \cup {<<j[1], j[2]>>}
        /\ UNCHANGED <<sent, outbox, name, stored, announced, mishaps>>
    BY <1>6 DEF DeliverAccept
  <2>2. accepted' \subseteq Message /\ <<j[1], j[2]>> \in accepted' /\ IsFollow(j[2])
    BY <2>1, <1>d, <1>e
  <2> QED
    BY <1>t, <1>b, <1>c, <1>d, <2>1, <2>2, NamelessStep DEF Told
<1>7. CASE FailAccept(j)
  <2>1. /\ at[j] = "deliver" /\ MoveTo(j, "ended")
        /\ accepted \subseteq accepted' /\ accepted' \subseteq Message
        /\ UNCHANGED <<sent, outbox, name, stored, announced>>
    BY <1>7, <1>d DEF FailAccept
  <2>2. mishaps' \in [Actor -> SUBSET Mishap]
    BY <1>7, <1>t, <1>c, NoteType DEF FailAccept
  <2> QED
    BY <1>t, <1>b, <1>c, <1>d, <2>1, <2>2, NamelessStep DEF Told
<1>8. CASE Identify(j)
  <2>1. PICK id \in Names(j[1]) :
          /\ name' = [name EXCEPT ![j] = id]
          /\ Note(j[1], IF id = "naive" THEN {"name"} ELSE {})
          /\ MoveTo(j, "persist")
    BY <1>8 DEF Identify, Resolve
  <2>2. id \in {"handle", "naive"}
    BY DEF Names
  <2>3. mishaps' \in [Actor -> SUBSET Mishap]
    BY <2>1, <1>t, <1>c, NoteType
  <2>4. /\ at[j] = "identify"
        /\ UNCHANGED <<sent, outbox, stored, accepted, announced>>
    BY <1>8 DEF Identify
  <2> QED
    BY <1>b, <1>c, <1>d, <1>e, <2>1, <2>2, <2>3, <2>4, JobStep DEF Told
<1>9. CASE Persist(j)
  <2>1. /\ at[j] = "persist" /\ MoveTo(j, "notify")
        /\ stored' \in {stored, stored \cup {<<j[1], name[j]>>}}
        /\ UNCHANGED <<sent, outbox, name, accepted, announced>>
    BY <1>9 DEF Persist
  <2>2. mishaps' \in [Actor -> SUBSET Mishap]
    BY <1>9, <1>t, <1>c, <1>d, NoteType DEF Persist
  <2>3. /\ stored' \in SUBSET (Actor \X {"handle", "naive"})
        /\ stored' \subseteq stored \cup {<<j[1], name[j]>>}
        /\ name[j] # "unknown"
    BY <2>1, <1>d, <1>e
  <2> QED
    BY <1>t, <1>b, <1>c, <1>d, <1>e, <2>1, <2>2, <2>3, NamelessStep DEF Told
<1>10. CASE Notify(j)
  <2>1. /\ at[j] = "notify" /\ MoveTo(j, "ended") /\ name' = [name EXCEPT ![j] = "unknown"]
        /\ announced' = TRUE
        /\ UNCHANGED <<sent, outbox, stored, accepted, mishaps>>
    BY <1>10 DEF Notify, Forget
  <2> QED
    BY <1>b, <1>c, <1>d, <2>1, JobStep DEF Told
<1> QED
  BY <1>1, <1>2, <1>3, <1>4, <1>5, <1>6, <1>7, <1>8, <1>9, <1>10 DEF Work

\* The steps of the specification keep the invariant.
LEMMA NextInv ==
  ASSUME Inv, [Next]_vars
  PROVE  Inv'
<1>1. CASE UNCHANGED vars
  BY <1>1 DEF vars, Inv, FollowersWereAccepted, TypeOK, ToldFirst, Named, Kinds, WasSent
<1> QED
  BY <1>1, RemoteInv, JobInv DEF Next

\* An account is in the follower graph only after the remote server has an Accept
\* for one of its Follows, for any number of accounts, activities and retries and
\* whatever fails (acceptFollow posts the Accept before it adds the follower).
THEOREM AcceptPrecedesStoring == Spec => []FollowersWereAccepted
<1>1. Inv => FollowersWereAccepted
  BY DEF Inv
<1>2. Inv /\ [Next]_vars => Inv'
  BY NextInv
<1>3. Init => Inv
  BY InitInv
<1> QED
  BY <1>1, <1>2, <1>3, PTL DEF Spec

-----------------------------------------------------------------------------
(* The exchange that nothing disturbs. *)

\* Whether all is in order with an account depends on its own state alone.
LEMMA Elsewhere ==
  ASSUME NEW b \in Actor, mishaps[b] = {} => InOrder(b), TypeOK,
         \A j \in Job : j[1] = b => at'[j] = at[j] /\ name'[j] = name[j],
         sent'[b] = sent[b], mishaps'[b] = mishaps[b],
         \A n \in Nat : <<b, n>> \in outbox' <=> <<b, n>> \in outbox,
         \A id \in {"handle", "naive"} : <<b, id>> \in stored' <=> <<b, id>> \in stored
  PROVE  mishaps'[b] = {} => InOrder(b)'
<1>1. Running(b)' = Running(b) /\ Received(b)' = Received(b)
  BY DEF Running, Received
<1>2. \A j \in Running(b) : j \in Job /\ at'[j] = at[j] /\ name'[j] = name[j]
  BY DEF Running
<1>3. \A j \in Job : j[2] \in Nat
  BY JobParts
<1>4. sent[b] \in Nat /\ \A n \in 1..MaxSends : n \in Nat
  BY BoundAssumption DEF TypeOK
<1> SUFFICES ASSUME InOrder(b) PROVE InOrder(b)'
  OBVIOUS
<1>5. (OneJob(b) /\ LatestRuns(b))'
  BY <1>1 DEF InOrder, OneJob, LatestRuns
<1>6. UndoUnanswered(b)'
  BY <1>1, <1>2, <1>3 DEF InOrder, UndoUnanswered
<1>7. NoneSkipped(b)'
  BY <1>1, <1>4 DEF InOrder, NoneSkipped
<1>8. OneName(b)' /\ AddedFirst(b)'
  BY <1>1, <1>2 DEF InOrder, OneName, AddedFirst
<1>9. Settled(b)'
  BY <1>1, <1>4 DEF InOrder, Settled
<1> QED
  BY <1>5, <1>6, <1>7, <1>8, <1>9 DEF InOrder

\* When the last activity is answered, the running job is about it.
LEMMA RunsLast ==
  ASSUME Inv, NEW j \in Job, at[j] \in Live, InOrder(j[1]),
         <<j[1], sent[j[1]]>> \notin outbox
  PROVE  j[2] = sent[j[1]]
<1> DEFINE a == j[1]
<1>1. /\ j[2] \in 1..MaxSends /\ j[2] \in Nat \ {0} /\ sent[a] \in 0..MaxSends
      /\ j[2] <= sent[a] /\ j \in Running(a)
  BY JobParts DEF Inv, FollowersWereAccepted, TypeOK, WasSent, Live, Running
<1>2. sent[a] \in 1..MaxSends /\ sent[a] <= sent[a]
  BY <1>1, BoundAssumption
<1>3. PICK i \in Received(a) : i[2] = sent[a]
  BY <1>2 DEF InOrder, NoneSkipped
<1>4. i[2] <= j[2]
  BY <1>1 DEF InOrder, LatestRuns
<1> QED
  BY <1>1, <1>3, <1>4

\* A job that begins on a quiet account, for its latest activity.
LEMMA BeginsInOrder ==
  ASSUME Inv, NEW j \in Job, InOrder(j[1]), NEW s \in {"deliver", "resolve"},
         at[j] = "none", MoveTo(j, s),
         Arrival(j[1], j[2]) = {},
         sent' = sent, name' = name, stored' = stored,
         outbox \ {<<j[1], j[2]>>} \subseteq outbox',
         outbox' \subseteq outbox,
         s = "resolve" => <<j[1], j[2]>> \in outbox'
  PROVE  InOrder(j[1])'
<1> DEFINE a == j[1]
<1>t. TypeOK
  BY DEF Inv, FollowersWereAccepted
<1>1. Running(a) = {} /\ \A i \in Received(a) : ~ (i[2] > j[2])
  BY DEF Arrival
<1>2. s \in Live /\ s \in Stage
  BY DEF Live, Stage
<1>3. Running(a)' = {j} /\ Received(a)' = Received(a) \cup {j} /\ at'[j] = s
  BY <1>t, <1>1, <1>2, Starts, Moved
<1>4. j[2] \in Nat /\ \A i \in Received(a) : i[2] \in Nat
  BY JobParts DEF Received
<1>5. (OneJob(a) /\ LatestRuns(a))'
  BY <1>1, <1>3, <1>4 DEF OneJob, LatestRuns
<1>6. UndoUnanswered(a)'
  BY <1>3 DEF UndoUnanswered
<1>7. NoneSkipped(a)'
  BY <1>3 DEF InOrder, NoneSkipped
<1>8. OneName(a)' /\ AddedFirst(a)' /\ Settled(a)'
  BY <1>3 DEF InOrder, OneName, AddedFirst, Settled
<1> QED
  BY <1>5, <1>6, <1>7, <1>8 DEF InOrder

\* A job that goes on to stage s.
LEMMA GoesOnInOrder ==
  ASSUME Inv, NEW j \in Job, InOrder(j[1]), at[j] \in Live,
         NEW s \in {"forward", "identify", "persist", "notify"}, MoveTo(j, s),
         sent' = sent, <<j[1], "naive">> \notin stored',
         outbox \ {<<j[1], j[2]>>} \subseteq outbox',
         s \in {"persist", "notify", "forward"} => name'[j] = "handle",
         s = "notify" => <<j[1], "handle">> \in stored'
  PROVE  InOrder(j[1])'
<1> DEFINE a == j[1]
<1>t. TypeOK
  BY DEF Inv, FollowersWereAccepted
<1>2. s \in Live /\ s \in Stage
  BY DEF Live, Stage
<1>3. /\ Running(a)' = Running(a) /\ Received(a)' = Received(a) /\ at'[j] = s
      /\ j \in Running(a) /\ j \in Received(a)
  BY <1>t, <1>2, GoesOn, Moved
<1>4. Running(a) = {j}
  BY <1>3 DEF InOrder, OneJob
<1>5. (OneJob(a) /\ LatestRuns(a))'
  BY <1>3 DEF InOrder, OneJob, LatestRuns
<1>6. UndoUnanswered(a)'
  BY <1>3, <1>4 DEF UndoUnanswered
<1>7. NoneSkipped(a)'
  BY <1>3 DEF InOrder, NoneSkipped
<1>8. OneName(a)' /\ AddedFirst(a)' /\ Settled(a)'
  BY <1>3, <1>4 DEF InOrder, OneName, AddedFirst, Settled
<1> QED
  BY <1>5, <1>6, <1>7, <1>8 DEF InOrder

\* A job that ends: if it was about the last activity and that is answered, the
\* graph has to be right.
LEMMA EndsInOrder ==
  ASSUME Inv, NEW j \in Job, InOrder(j[1]), at[j] \in Live, MoveTo(j, "ended"),
         sent' = sent, outbox' = outbox, <<j[1], "naive">> \notin stored',
         <<j[1], sent[j[1]]>> \notin outbox /\ j[2] = sent[j[1]] =>
           (<<j[1], "handle">> \in stored' <=> IsFollow(j[2]))
  PROVE  InOrder(j[1])'
<1> DEFINE a == j[1]
<1>t. TypeOK
  BY DEF Inv, FollowersWereAccepted
<1>3. /\ Running(a)' = Running(a) \ {j} /\ Received(a)' = Received(a)
      /\ j \in Running(a)
  BY <1>t, Ends
<1>4. Running(a)' = {}
  BY <1>3 DEF InOrder, OneJob
<1>5. (OneJob(a) /\ LatestRuns(a) /\ UndoUnanswered(a) /\ OneName(a) /\ AddedFirst(a))'
  BY <1>4 DEF OneJob, LatestRuns, UndoUnanswered, OneName, AddedFirst
<1>6. NoneSkipped(a)'
  BY <1>3 DEF InOrder, NoneSkipped
<1>7. Settled(a)'
  BY RunsLast DEF Settled
<1> QED
  BY <1>5, <1>6, <1>7 DEF InOrder

\* The step of a job is about its own account.
LEMMA JobIsLocal ==
  ASSUME Inv, NEW j \in Job,
         ReceiveFollow(j) \/ ReceiveUndo(j) \/ Busy(j) \/ Work(j),
         NEW b \in Actor, b # j[1], mishaps[b] = {} => InOrder(b)
  PROVE  mishaps'[b] = {} => InOrder(b)'
<1>t. TypeOK /\ j[1] \in Actor
  BY JobParts DEF Inv, FollowersWereAccepted
<1>1. /\ sent' = sent
      /\ \E s \in {"deliver", "resolve", "ended", "forward", "identify", "persist", "notify"} :
           at' = [at EXCEPT ![j] = s]
      /\ name' = name \/ \E id \in {"unknown", "handle", "naive"} : name' = [name EXCEPT ![j] = id]
  BY DEF ReceiveFollow, ReceiveUndo, Busy, Work, AdmitUndo, ForwardUndo, DeliverAccept,
     FailAccept, Identify, Persist, Notify, MoveTo, Forget, Resolve, Names
<1>2. outbox' \in {outbox, outbox \ {<<j[1], j[2]>>}}
  BY DEF ReceiveFollow, ReceiveUndo, Busy, Work, AdmitUndo, ForwardUndo, DeliverAccept,
     FailAccept, Identify, Persist, Notify, Answer
<1>3. stored' \in {stored, stored \cup {<<j[1], name[j]>>}, stored \ {<<j[1], name[j]>>}}
  BY DEF ReceiveFollow, ReceiveUndo, Busy, Work, AdmitUndo, ForwardUndo, DeliverAccept,
     FailAccept, Identify, Persist, Notify
<1>4. mishaps' = mishaps \/ \E what : mishaps' = [mishaps EXCEPT ![j[1]] = @ \cup what]
  BY DEF ReceiveFollow, ReceiveUndo, Busy, Work, AdmitUndo, ForwardUndo, DeliverAccept,
     FailAccept, Identify, Persist, Notify, Note, Resolve
<1>5. \A i \in Job : i[1] = b => at'[i] = at[i] /\ name'[i] = name[i]
  BY <1>t, <1>1 DEF TypeOK
<1>6. \A n \in Nat : <<b, n>> \in outbox' <=> <<b, n>> \in outbox
  BY <1>2
<1>7. \A id \in {"handle", "naive"} : <<b, id>> \in stored' <=> <<b, id>> \in stored
  BY <1>3
<1>8. mishaps'[b] = mishaps[b]
  BY <1>t, <1>4 DEF TypeOK
<1> QED
  BY <1>t, <1>1, <1>5, <1>6, <1>7, <1>8, Elsewhere

\* An account without a mishap after a note had none before, and none was noted.
LEMMA NothingNoted ==
  ASSUME TypeOK, NEW a \in Actor, NEW what, Note(a, what), mishaps'[a] = {}
  PROVE  mishaps[a] = {} /\ what = {}
BY DEF TypeOK, Note

\* The steps of a job keep an undisturbed exchange in order.
LEMMA JobInOrder ==
  ASSUME Inv, NEW j \in Job,
         ReceiveFollow(j) \/ ReceiveUndo(j) \/ Busy(j) \/ Work(j),
         mishaps[j[1]] = {} => InOrder(j[1]), mishaps'[j[1]] = {}
  PROVE  InOrder(j[1])'
<1>t. TypeOK /\ j[1] \in Actor
  BY JobParts DEF Inv, FollowersWereAccepted
<1>l. {"resolve", "deliver", "identify", "persist", "forward", "notify"} = Live
  BY DEF Live
<1>k. /\ at[j] \in {"deliver", "identify", "persist", "notify"} => IsFollow(j[2])
      /\ at[j] \in {"resolve", "forward"} => ~ IsFollow(j[2])
  BY DEF Inv, Kinds
<1>n. InOrder(j[1]) /\ at[j] \in Live =>
        /\ <<j[1], "naive">> \notin stored
        /\ at[j] \in {"persist", "notify", "forward"} => name[j] = "handle"
        /\ at[j] = "notify" => <<j[1], "handle">> \in stored
        /\ at[j] = "resolve" => <<j[1], j[2]>> \in outbox
  BY DEF InOrder, OneName, AddedFirst, UndoUnanswered, Running
<1>1. CASE ReceiveFollow(j)
  <2>1. mishaps[j[1]] = {} /\ Arrival(j[1], j[2]) = {}
    BY <1>t, <1>1, NothingNoted DEF ReceiveFollow
  <2>2. /\ at[j] = "none" /\ MoveTo(j, "deliver") /\ sent' = sent /\ name' = name
        /\ stored' = stored
        /\ outbox \ {<<j[1], j[2]>>} \subseteq outbox' /\ outbox' \subseteq outbox
    BY <1>1 DEF ReceiveFollow, NextTry, Answer
  <2> QED
    BY <2>1, <2>2, BeginsInOrder
<1>2. CASE ReceiveUndo(j)
  <2>1. mishaps[j[1]] = {} /\ Arrival(j[1], j[2]) = {}
    BY <1>t, <1>2, NothingNoted DEF ReceiveUndo
  <2>2. /\ at[j] = "none" /\ MoveTo(j, "resolve") /\ sent' = sent /\ name' = name
        /\ stored' = stored /\ outbox' = outbox /\ <<j[1], j[2]>> \in outbox
    BY <1>2 DEF ReceiveUndo, NextTry
  <2> QED
    BY <2>1, <2>2, BeginsInOrder
<1>3. CASE Busy(j)
  <2>1. /\ at[j] = "resolve" /\ MoveTo(j, "ended") /\ mishaps[j[1]] = {}
        /\ sent' = sent /\ outbox' = outbox /\ stored' = stored
    BY <1>3 DEF Busy
  <2> QED
    BY <1>l, <1>n, <2>1, EndsInOrder
<1>4. CASE AdmitUndo(j)
  <2>1. PICK id \in Names(j[1]) :
          /\ name' = [name EXCEPT ![j] = id]
          /\ Note(j[1], IF id = "naive" THEN {"name"} ELSE {})
          /\ MoveTo(j, "forward")
    BY <1>4 DEF AdmitUndo, Resolve
  <2>2. mishaps[j[1]] = {} /\ (IF id = "naive" THEN {"name"} ELSE {}) = {}
    BY <1>t, <2>1, NothingNoted
  <2>3. id = "handle"
    BY <2>2 DEF Names
  <2>4. name'[j] = "handle"
    BY <1>t, <2>1, <2>3 DEF TypeOK
  <2>5. /\ at[j] = "resolve" /\ sent' = sent /\ stored' = stored
        /\ outbox \ {<<j[1], j[2]>>} \subseteq outbox'
    BY <1>4 DEF AdmitUndo, Answer
  <2> QED
    BY <1>l, <1>n, <2>1, <2>2, <2>4, <2>5, GoesOnInOrder
<1>5. CASE ForwardUndo(j)
  <2>1. /\ at[j] = "forward" /\ MoveTo(j, "ended") /\ sent' = sent /\ outbox' = outbox
    BY <1>5 DEF ForwardUndo
  <2>2. stored' = stored \ {<<j[1], name[j]>>} /\ mishaps[j[1]] = {}
    <3>1. ~ Note(j[1], {"error"})
      BY <1>t, NothingNoted
    <3> QED
      BY <1>5, <3>1 DEF ForwardUndo
  <2>3. name[j] = "handle" /\ <<j[1], "naive">> \notin stored /\ InOrder(j[1])
    BY <1>l, <1>n, <2>1, <2>2
  <2> QED
    BY <1>l, <1>k, <2>1, <2>2, <2>3, EndsInOrder
<1>6. CASE DeliverAccept(j)
  <2>1. /\ at[j] = "deliver" /\ MoveTo(j, "identify") /\ mishaps[j[1]] = {}
        /\ UNCHANGED <<sent, outbox, stored>>
    BY <1>6 DEF DeliverAccept
  <2> QED
    BY <1>l, <1>n, <2>1, GoesOnInOrder
<1>7. CASE FailAccept(j)
  BY <1>t, <1>7, NothingNoted DEF FailAccept
<1>8. CASE Identify(j)
  <2>1. PICK id \in Names(j[1]) :
          /\ name' = [name EXCEPT ![j] = id]
          /\ Note(j[1], IF id = "naive" THEN {"name"} ELSE {})
          /\ MoveTo(j, "persist")
    BY <1>8 DEF Identify, Resolve
  <2>2. mishaps[j[1]] = {} /\ (IF id = "naive" THEN {"name"} ELSE {}) = {}
    BY <1>t, <2>1, NothingNoted
  <2>3. id = "handle"
    BY <2>2 DEF Names
  <2>4. name'[j] = "handle"
    BY <1>t, <2>1, <2>3 DEF TypeOK
  <2>5. at[j] = "identify" /\ UNCHANGED <<sent, outbox, stored>>
    BY <1>8 DEF Identify
  <2> QED
    BY <1>l, <1>n, <2>1, <2>2, <2>4, <2>5, GoesOnInOrder
<1>9. CASE Persist(j)
  <2>1. at[j] = "persist" /\ MoveTo(j, "notify") /\ UNCHANGED <<sent, outbox, name>>
    BY <1>9 DEF Persist
  <2>2. stored' = stored \cup {<<j[1], name[j]>>} /\ mishaps[j[1]] = {}
    <3>1. ~ Note(j[1], {"error"})
      BY <1>t, NothingNoted
    <3> QED
      BY <1>9, <3>1 DEF Persist
  <2>3. name[j] = "handle" /\ <<j[1], "naive">> \notin stored /\ InOrder(j[1])
    BY <1>l, <1>n, <2>1, <2>2
  <2>4. name'[j] = "handle" /\ <<j[1], "naive">> \notin stored' /\ <<j[1], "handle">> \in stored'
    BY <2>1, <2>2, <2>3
  <2> QED
    BY <1>l, <2>1, <2>3, <2>4, GoesOnInOrder
<1>10. CASE Notify(j)
  <2>1. /\ at[j] = "notify" /\ MoveTo(j, "ended") /\ mishaps[j[1]] = {}
        /\ UNCHANGED <<sent, outbox, stored>>
    BY <1>10 DEF Notify
  <2> QED
    BY <1>l, <1>k, <1>n, <2>1, EndsInOrder
<1> QED
  BY <1>1, <1>2, <1>3, <1>4, <1>5, <1>6, <1>7, <1>8, <1>9, <1>10 DEF Work

\* The remote's steps: an activity sent is unanswered, one given up is lost.
LEMMA RemoteInOrder ==
  ASSUME Inv, Undisturbed, (\E a \in Actor : Send(a)) \/ (\E m \in Message : GiveUp(m))
  PROVE  Undisturbed'
<1>t. TypeOK
  BY DEF Inv, FollowersWereAccepted
<1>1. CASE \E a \in Actor : Send(a)
  <2>1. PICK a \in Actor : Send(a)
    BY <1>1
  <2>2. /\ sent' = [sent EXCEPT ![a] = sent[a] + 1] /\ sent[a] \in Nat
        /\ outbox' = outbox \cup {<<a, sent[a] + 1>>}
        /\ UNCHANGED <<at, name, stored, mishaps>>
        /\ sent'[a] = sent[a] + 1
        /\ \A b \in Actor : b # a => sent'[b] = sent[b]
    BY <1>t, <2>1, BoundAssumption DEF Send, TypeOK
  <2>3. ASSUME NEW b \in Actor, b # a
        PROVE  mishaps'[b] = {} => InOrder(b)'
    <3>1. \A n \in Nat : <<b, n>> \in outbox' <=> <<b, n>> \in outbox
      BY <2>2, <2>3
    <3> QED
      BY <1>t, <2>2, <2>3, <3>1, Elsewhere DEF Undisturbed
  <2>4. ASSUME InOrder(a)
        PROVE  InOrder(a)'
    <3>1. Running(a)' = Running(a) /\ Received(a)' = Received(a)
      BY <2>2 DEF Running, Received
    <3>2. (OneJob(a) /\ LatestRuns(a) /\ UndoUnanswered(a) /\ OneName(a) /\ AddedFirst(a))'
      BY <2>2, <2>4, <3>1
         DEF InOrder, OneJob, LatestRuns, UndoUnanswered, OneName, AddedFirst
    <3>3. NoneSkipped(a)'
      <4> SUFFICES ASSUME NEW n \in 1..MaxSends, n <= sent'[a], <<a, n>> \notin outbox'
                   PROVE  \E j \in Received(a)' : j[2] = n
        BY DEF NoneSkipped
      <4>1. n # sent[a] + 1 /\ <<a, n>> \notin outbox
        BY <2>2
      <4>2. n <= sent[a]
        BY <2>2, <4>1, BoundAssumption
      <4> QED
        BY <2>4, <3>1, <4>1, <4>2 DEF InOrder, NoneSkipped
    <3>4. Settled(a)'
      BY <2>2 DEF Settled
    <3> QED
      BY <3>2, <3>3, <3>4 DEF InOrder
  <2> QED
    BY <2>2, <2>3, <2>4 DEF Undisturbed
<1>2. CASE \E m \in Message : GiveUp(m)
  <2>1. PICK m \in Message : GiveUp(m)
    BY <1>2
  <2>2. m[1] \in Actor /\ m = <<m[1], m[2]>>
    BY DEF Message
  <2>3. /\ outbox' = outbox \ {m} /\ UNCHANGED <<sent, at, name, stored>>
        /\ Note(m[1], {"lost"})
    BY <2>1 DEF GiveUp
  <2>4. mishaps'[m[1]] # {}
    BY <1>t, <2>2, <2>3, NothingNoted
  <2>5. ASSUME NEW b \in Actor, b # m[1]
        PROVE  mishaps'[b] = {} => InOrder(b)'
    <3>1. \A n \in Nat : <<b, n>> \in outbox' <=> <<b, n>> \in outbox
      BY <2>2, <2>3, <2>5
    <3>2. mishaps'[b] = mishaps[b]
      BY <1>t, <2>2, <2>3, <2>5 DEF Note, TypeOK
    <3> QED
      BY <1>t, <2>3, <3>1, <3>2, Elsewhere DEF Undisturbed
  <2> QED
    BY <2>4, <2>5 DEF Undisturbed
<1> QED
  BY <1>1, <1>2

\* Every step keeps undisturbed exchanges in order.
LEMMA NextInOrder ==
  ASSUME Inv, Undisturbed, [Next]_vars
  PROVE  Undisturbed'
<1>1. CASE \E j \in Job : ReceiveFollow(j) \/ ReceiveUndo(j) \/ Busy(j) \/ Work(j)
  <2>1. PICK j \in Job : ReceiveFollow(j) \/ ReceiveUndo(j) \/ Busy(j) \/ Work(j)
    BY <1>1
  <2>2. j[1] \in Actor
    BY JobParts
  <2>3. mishaps'[j[1]] = {} => InOrder(j[1])'
    BY <2>1, <2>2, JobInOrder DEF Undisturbed
  <2>4. \A b \in Actor : b # j[1] => (mishaps'[b] = {} => InOrder(b)')
    BY <2>1, JobIsLocal DEF Undisturbed
  <2> QED
    BY <2>3, <2>4 DEF Undisturbed
<1>2. CASE UNCHANGED vars
  BY <1>2, Elsewhere DEF vars, Undisturbed, Inv, FollowersWereAccepted
<1> QED
  BY <1>1, <1>2, RemoteInOrder DEF Next

\* What is in order is what the remote asked for.
LEMMA InOrderMatches ==
  ASSUME Inv, Undisturbed
  PROVE  GraphMatchesRemote
<1> SUFFICES ASSUME NEW a \in Actor, Quiet(a), mishaps[a] = {}
             PROVE  Cardinality(Followers(a)) = IF IsFollow(sent[a]) THEN 1 ELSE 0
  BY DEF GraphMatchesRemote
<1>1. InOrder(a) /\ TypeOK
  BY DEF Undisturbed, Inv, FollowersWereAccepted
<1>2. <<a, sent[a]>> \notin outbox
  <2>1. \A m \in outbox : m[2] \in 1..MaxSends
    BY <1>1 DEF TypeOK, Message
  <2> QED
    BY <2>1 DEF Quiet
<1>3. <<a, "handle">> \in stored <=> IsFollow(sent[a])
  BY <1>1, <1>2 DEF Quiet, InOrder, Settled
<1>4. Followers(a) \subseteq {<<a, "handle">>}
  BY <1>1 DEF Followers, TypeOK, InOrder, OneName
<1>5. CASE IsFollow(sent[a])
  <2>1. Followers(a) = {<<a, "handle">>}
    BY <1>3, <1>4, <1>5 DEF Followers
  <2> QED
    BY <1>5, <2>1, FS_Singleton
<1>6. CASE ~ IsFollow(sent[a])
  <2>1. Followers(a) = {}
    BY <1>3, <1>4, <1>6 DEF Followers
  <2> QED
    BY <1>6, <2>1, FS_EmptySet
<1> QED
  BY <1>5, <1>6

\* Once an exchange that nothing lost, reordered, overlapped, misnamed or failed
\* is over, the follower graph says what the account asked for last, under one id:
\* retried POSTs and lost answers do no harm, however many accounts exchange
\* activities at once (inbox.go, inbound.go, nodefollowers.go).
THEOREM UndisturbedIsHonoured == Spec => []GraphMatchesRemote
<1>1. Init => Inv /\ Undisturbed
  BY InitInv
<1>2. (Inv /\ Undisturbed) /\ [Next]_vars => (Inv /\ Undisturbed)'
  BY NextInv, NextInOrder
<1>3. Inv /\ Undisturbed => GraphMatchesRemote
  BY InOrderMatches
<1> QED
  BY <1>1, <1>2, <1>3, PTL DEF Spec
=============================================================================
