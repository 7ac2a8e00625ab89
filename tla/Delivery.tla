------------------------------ MODULE Delivery ------------------------------
(***************************************************************************)
(* The delivery pool: gateway.sem, a buffered channel of Cap slots shared  *)
(* by the fan-outs of deliverToFollowers (publish.go), which wait for a    *)
(* slot, and by inbound activities (inbox.go), which are refused when      *)
(* there is none.                                                          *)
(*                                                                         *)
(* A holder is a goroutine that has put its token into the channel and     *)
(* takes one out when it ends: <<job, follower>> for one delivery of a     *)
(* fan-out, <<request, Self>> for an inbound activity being answered or    *)
(* forwarded.  Deliveries are bounded by timeouts, so every one settles.   *)
(***************************************************************************)
EXTENDS Naturals, FiniteSets

CONSTANTS
  Cap,                    \* maxInflightDeliveries
  FanOut,                 \* fan-outs in progress: posts, profile updates
  Follower,               \* entries of the follower list, each delivered to on
                          \* its own even if two of them carry the same url
  Inbound,                \* inbound requests being handled
  Self

ASSUME CapAssumption == Cap \in Nat \ {0}
ASSUME JobsAssumption == FanOut \cap Inbound = {} /\ Self \notin Follower
ASSUME FiniteAssumption ==
  IsFiniteSet(FanOut) /\ IsFiniteSet(Follower) /\ IsFiniteSet(Inbound)

VARIABLES
  sem,                    \* tokens in the channel
  holding,                \* goroutines that hold a slot
  fan,                    \* "idle", "sending" (the loop) or "waiting" (wg.Wait)
  todo,                   \* followers the loop has not reached
  settled,                \* followers whose delivery succeeded or failed
  ctxDone,                \* the context of the fan-out is cancelled
  inbound                 \* "idle", "accepted" (202) or "refused" (503)

poolVars == <<sem, holding, fan, todo, settled, ctxDone, inbound>>
fanVars == <<fan, todo, settled, ctxDone>>

Holder == (FanOut \X Follower) \cup (Inbound \X {Self})
InFlight(f) == {a \in Follower : <<f, a>> \in holding}

PoolTypeOK ==
  /\ sem \in 0..Cap
  /\ holding \in SUBSET Holder
  /\ fan \in [FanOut -> {"idle", "sending", "waiting"}]
  /\ todo \in [FanOut -> SUBSET Follower]
  /\ settled \in [FanOut -> SUBSET Follower]
  /\ ctxDone \in [FanOut -> BOOLEAN]
  /\ inbound \in [Inbound -> {"idle", "accepted", "refused"}]

PoolInit ==
  /\ sem = 0
  /\ holding = {}
  /\ fan = [f \in FanOut |-> "idle"]
  /\ todo = [f \in FanOut |-> {}]
  /\ settled = [f \in FanOut |-> {}]
  /\ ctxDone = [f \in FanOut |-> FALSE]
  /\ inbound = [i \in Inbound |-> "idle"]

\* A token enters the channel; one leaves it.
Acquire(h) ==
  /\ sem < Cap
  /\ sem' = sem + 1
  /\ holding' = holding \cup {h}

Release(h) ==
  /\ h \in holding
  /\ sem' = sem - 1
  /\ holding' = holding \ {h}

-----------------------------------------------------------------------------
(* Fan-outs. *)

\* followers.List returned someone; a failed or empty listing sends nothing.
BeginFanOut(f) ==
  /\ fan[f] = "idle"
  /\ \E list \in (SUBSET Follower) \ {{}} : todo' = [todo EXCEPT ![f] = list]
  /\ fan' = [fan EXCEPT ![f] = "sending"]
  /\ settled' = [settled EXCEPT ![f] = {}]
  /\ ctxDone' \in {[ctxDone EXCEPT ![f] = b] : b \in BOOLEAN}
  /\ UNCHANGED <<sem, holding, inbound>>

\* The loop gets a slot for the next follower; followers are taken in any order.
Dispatch(f) ==
  /\ fan[f] = "sending"
  /\ \E a \in todo[f] :
       /\ Acquire(<<f, a>>)
       /\ todo' = [todo EXCEPT ![f] = @ \ {a}]
  /\ UNCHANGED <<fan, settled, ctxDone, inbound>>

\* Faulty variant: a cancelled loop returns without waiting.
AbandonWithoutWait(f) ==
  /\ fan[f] = "sending"
  /\ ctxDone[f] /\ todo[f] # {}
  /\ fan' = [fan EXCEPT ![f] = "idle"]
  /\ UNCHANGED <<sem, holding, todo, settled, ctxDone, inbound>>

\* The loop selects ctx.Done() instead of a slot and stops dispatching.
Abandon(f) ==
  /\ fan[f] = "sending"
  /\ ctxDone[f] /\ todo[f] # {}
  /\ fan' = [fan EXCEPT ![f] = "waiting"]
  /\ UNCHANGED <<sem, holding, todo, settled, ctxDone, inbound>>

Dispatched(f) ==
  /\ fan[f] = "sending"
  /\ todo[f] = {}
  /\ fan' = [fan EXCEPT ![f] = "waiting"]
  /\ UNCHANGED <<sem, holding, todo, settled, ctxDone, inbound>>

\* Faulty variant: a delivery that fails keeps its slot.
SettleLeaking(f, a) ==
  /\ <<f, a>> \in holding
  /\ settled' = [settled EXCEPT ![f] = @ \cup {a}]
  /\ \/ Release(<<f, a>>)
     \/ UNCHANGED sem /\ holding' = holding \ {<<f, a>>}
  /\ UNCHANGED <<fan, todo, ctxDone, inbound>>

\* One delivery ends: inbox not resolved, post refused, or delivered.
Settle(f, a) ==
  /\ Release(<<f, a>>)
  /\ settled' = [settled EXCEPT ![f] = @ \cup {a}]
  /\ UNCHANGED <<fan, todo, ctxDone, inbound>>

\* wg.Wait() returns, and with it deliverToFollowers.
EndFanOut(f) ==
  /\ fan[f] = "waiting"
  /\ InFlight(f) = {}
  /\ fan' = [fan EXCEPT ![f] = "idle"]
  /\ UNCHANGED <<sem, holding, todo, settled, ctxDone, inbound>>

\* The user's federation stops, the gateway shuts down, or the deadline of a
\* gossiped post passes.
CancelFanOut(f) ==
  /\ fan[f] # "idle"
  /\ ~ctxDone[f]
  /\ ctxDone' = [ctxDone EXCEPT ![f] = TRUE]
  /\ UNCHANGED <<sem, holding, fan, todo, settled, inbound>>

-----------------------------------------------------------------------------
(* Inbound activities: a Follow to accept, or an activity to forward. *)

\* Faulty variant: the slot is awaited for, the request never refused.
AcceptInboundUnbounded(i) ==
  /\ inbound[i] = "idle"
  /\ inbound' = [inbound EXCEPT ![i] = "accepted"]
  /\ sem' = IF sem < Cap THEN sem + 1 ELSE sem
  /\ holding' = holding \cup {<<i, Self>>}
  /\ UNCHANGED fanVars

AcceptInbound(i) ==
  /\ inbound[i] = "idle"
  /\ Acquire(<<i, Self>>)
  /\ inbound' = [inbound EXCEPT ![i] = "accepted"]
  /\ UNCHANGED fanVars

RefuseInbound(i) ==
  /\ inbound[i] = "idle"
  /\ sem = Cap
  /\ inbound' = [inbound EXCEPT ![i] = "refused"]
  /\ UNCHANGED <<sem, holding, fanVars>>

\* The accept or the forward is over.
EndInbound(i) ==
  /\ Release(<<i, Self>>)
  /\ inbound' = [inbound EXCEPT ![i] = "idle"]
  /\ UNCHANGED fanVars

\* The peer was told "busy" and asks again later.
RetryInbound(i) ==
  /\ inbound[i] = "refused"
  /\ inbound' = [inbound EXCEPT ![i] = "idle"]
  /\ UNCHANGED <<sem, holding, fanVars>>

PoolNext ==
  \/ \E f \in FanOut :
       \/ BeginFanOut(f) \/ Dispatch(f) \/ Abandon(f) \/ Dispatched(f)
       \/ EndFanOut(f) \/ CancelFanOut(f)
  \/ \E f \in FanOut, a \in Follower : Settle(f, a)
  \/ \E i \in Inbound :
       \/ AcceptInbound(i) \/ RefuseInbound(i) \/ EndInbound(i) \/ RetryInbound(i)

PoolSpec == PoolInit /\ [][PoolNext]_poolVars

\* Every delivery and every inbound task is bounded by timeouts.  A goroutine
\* blocked on a full channel is served before a later send, and in order, so a
\* fan-out is not passed over for ever.
PoolFairness ==
  /\ \A f \in FanOut :
       /\ WF_poolVars(Dispatched(f)) /\ WF_poolVars(EndFanOut(f)) /\ SF_poolVars(Dispatch(f))
       /\ \A a \in Follower : WF_poolVars(Settle(f, a))
  /\ \A i \in Inbound : WF_poolVars(EndInbound(i))

PoolFairSpec == PoolSpec /\ PoolFairness

-----------------------------------------------------------------------------
(* Correctness. *)

\* The channel holds one token for each goroutine that still works, so no slot
\* leaks and no more than Cap deliveries and inbound tasks run at a time.
SlotsAreExact == PoolTypeOK /\ sem = Cardinality(holding)

\* deliverToFollowers returns only when none of its deliveries is running, and it
\* has dealt with every follower unless its context was cancelled: the loop and
\* the goroutines it spawned agree on each follower, none is delivered to twice.
ReturnsSettled ==
  \A f \in FanOut :
    /\ fan[f] = "idle" => InFlight(f) = {} /\ (todo[f] = {} \/ ctxDone[f])
    /\ InFlight(f) \cap todo[f] = {}
    /\ settled[f] \cap (InFlight(f) \cup todo[f]) = {}

\* Every fan-out ends, however busy the pool is kept by inbound activities.
FanOutsEnd ==
  \A f \in FanOut : fan[f] # "idle" ~> fan[f] = "idle"
=============================================================================
