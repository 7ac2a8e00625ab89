------------------------------ MODULE Directory ------------------------------
(***************************************************************************)
(* Which members a request is sent to (discovery.go: memberCandidates,     *)
(* demoteThrottled, remember; nodeclient.go: request, markThrottled).  The *)
(* order mixes the members remembered from earlier answers with the DHT's  *)
(* routing table; MemberRequest tries the candidates in that order.  One   *)
(* route is modelled.                                                      *)
(***************************************************************************)
EXTENDS Integers, Sequences, Functions, Selection

CONSTANTS
  Members, Relays, Self,
  MaxCandidates   \* maxMemberCandidates

VARIABLES
  good,       \* members that answered, the last one first
  table,      \* peers of the routing table, in the order it lists them
  throttled,  \* members cooling down after a rate-limit answer
  request     \* the request in progress and the candidates it was given

dirmVars == <<good, table, throttled, request>>

Peers == Members \cup Relays \cup {Self}
NoRequest == [at |-> "idle", peers |-> <<>>]

DirectoryInit ==
  /\ good = <<>>
  /\ table = <<>>
  /\ throttled = {}
  /\ request = NoRequest

Truncated(s) == IF Len(s) > MaxCandidates THEN SubSeq(s, 1, MaxCandidates) ELSE s

Without(s, S) == Selected(s, Range(s) \ S)

\* Faulty variant: throttled members are dropped instead of moved to the end.
DemoteDropping(s) == Without(s, throttled)

\* demoteThrottled: the members cooling down go last.
Demote(s) == Without(s, throttled) \o Selected(s, throttled)

\* add: neither ourselves nor a relay, nor a peer that is there already.
Listed(s, t) == Without(s, Relays \cup {Self}) \o Without(t, Relays \cup {Self} \cup Range(s))

memberCandidates == Demote(Truncated(Listed(good, table)))

------------------------------------------------------------------------------
\* remember: to the front, and the list keeps its bound.
remember(p) == good' = Truncated(<<p>> \o Without(good, {p}))

Gives == request' = [at |-> IF memberCandidates = <<>> THEN "refused" ELSE "trying",
                     peers |-> memberCandidates]

\* request: an empty list is refreshed once before the request is refused.
BeginRequest ==
  /\ request.at = "idle"
  /\ IF memberCandidates = <<>> THEN request' = [NoRequest EXCEPT !.at = "refreshing"] ELSE Gives
  /\ UNCHANGED <<good, table, throttled>>

Refreshed ==
  /\ request.at = "refreshing"
  /\ Gives
  /\ UNCHANGED <<good, table, throttled>>

Refuse ==
  /\ request.at = "refused"
  /\ request' = NoRequest
  /\ UNCHANGED <<good, table, throttled>>

\* tryMembers: some candidate answers, or is rate limited, or all fail.
Answered(p) ==
  /\ request.at = "trying" /\ p \in Range(request.peers)
  /\ remember(p)
  /\ request' = NoRequest
  /\ UNCHANGED <<table, throttled>>

RateLimited(p) ==
  /\ request.at = "trying" /\ p \in Range(request.peers)
  /\ throttled' = throttled \cup {p}
  /\ UNCHANGED <<good, table, request>>

Failed ==
  /\ request.at = "trying"
  /\ request' = NoRequest
  /\ UNCHANGED <<good, table, throttled>>

CoolDown(p) ==
  /\ p \in throttled
  /\ throttled' = throttled \ {p}
  /\ UNCHANGED <<good, table, request>>

\* The DHT learns of peers and forgets them.
Appear(p) ==
  /\ p \notin Range(table)
  /\ table' = Append(table, p)
  /\ UNCHANGED <<good, throttled, request>>

Vanish(p) ==
  /\ p \in Range(table)
  /\ table' = Without(table, {p})
  /\ UNCHANGED <<good, throttled, request>>

DirectoryNext ==
  \/ BeginRequest \/ Refreshed \/ Refuse \/ Failed
  \/ \E p \in Members : Answered(p) \/ RateLimited(p) \/ CoolDown(p)
  \/ \E p \in Peers : Appear(p) \/ Vanish(p)

------------------------------------------------------------------------------
Before(p, q, s) == \E i, j \in DOMAIN s : i < j /\ s[i] = p /\ s[j] = q

\* Every member that is known is a candidate, once, as long as they fit, and
\* however often members answered, were throttled, came and went; remembered
\* ones come before the others and throttled ones after those that are ready
\* (memberCandidates, demoteThrottled, remember).
CandidatesAreRight ==
  LET c == memberCandidates
      known == (Range(good) \cup Range(table)) \cap Members
  IN /\ IsInjective(c)
     /\ Range(c) \subseteq known
     /\ Cardinality(known) <= MaxCandidates => Range(c) = known
     /\ Range(good) \subseteq Range(c)
     /\ \A p, q \in Range(c) :
          Before(p, q, c) => /\ p \in throttled => q \in throttled
                             /\ q \in Range(good) /\ p \notin Range(good) => q \in throttled
==============================================================================
