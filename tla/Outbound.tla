------------------------------ MODULE Outbound ------------------------------
(***************************************************************************)
(* What the gateway sends on its own account for a federated user: the     *)
(* goroutines that outboundFederation.start spawns, TweetPoller and        *)
(* FollowPoller, and the delivery pool that their publications and the     *)
(* inbound activities share.                                               *)
(*                                                                         *)
(* The three touch no common variable: the pollers hold the results of     *)
(* their own reads, and a publication is, to the tweet poller, a call that *)
(* returns.  A behaviour therefore works on one of them while the others   *)
(* rest, so that the state spaces add up instead of multiplying.           *)
(***************************************************************************)
EXTENDS TweetPoller, FollowPoller, Delivery

VARIABLE part             \* the one that this behaviour explores

vars == <<part, tweetVars, followVars, poolVars>>

Part == {"tweets", "follows", "deliveries"}

\* A poller that rests does so next to an owner with nothing to read.
Init ==
  /\ part \in Part
  /\ TweetInit /\ FollowInit /\ PoolInit
  /\ part # "tweets" => posted = {} /\ ~healthy
  /\ part # "follows" => listed = {} /\ resolvable = {} /\ ~ownerUp

Only(p) ==
  /\ part = p
  /\ UNCHANGED part
  /\ p # "tweets" => UNCHANGED tweetVars
  /\ p # "follows" => UNCHANGED followVars
  /\ p # "deliveries" => UNCHANGED poolVars

Next ==
  \/ Only("tweets") /\ TweetNext
  \/ Only("follows") /\ FollowNext
  \/ Only("deliveries") /\ PoolNext

Spec == Init /\ [][Next]_vars

\* The fairness of TweetFairSpec, FollowFairSpec and PoolFairSpec, for the one at
\* work.
Fairness ==
  /\ WF_vars(Only("tweets") /\ Poller)
  /\ WF_vars(Only("tweets") /\ Tick)
  /\ WF_vars(Only("follows") /\ FollowLoop)
  /\ \A f \in FanOut :
       /\ WF_vars(Only("deliveries") /\ Dispatched(f))
       /\ WF_vars(Only("deliveries") /\ EndFanOut(f))
       /\ SF_vars(Only("deliveries") /\ Dispatch(f))
       /\ \A a \in Follower : WF_vars(Only("deliveries") /\ Settle(f, a))
  /\ \A i \in Inbound : WF_vars(Only("deliveries") /\ EndInbound(i))

FairSpec == Spec /\ Fairness
=============================================================================
