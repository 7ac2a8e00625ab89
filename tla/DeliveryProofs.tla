--------------------------- MODULE DeliveryProofs ---------------------------
(***************************************************************************)
(* Proofs about the delivery pool for every capacity, every set of         *)
(* followers and any number of fan-outs and inbound requests.              *)
(***************************************************************************)
EXTENDS Delivery, FiniteSetTheorems, TLAPS

\* An inbound request holds a slot only while it is being worked on.
InboundHeld ==
  \A i \in Inbound : <<i, Self>> \in holding => inbound[i] = "accepted"

\* A loop that no longer dispatches went through its list or was cancelled.
LoopEnded ==
  \A f \in FanOut : fan[f] # "sending" => todo[f] = {} \/ ctxDone[f]

Inv ==
  /\ SlotsAreExact
  /\ IsFiniteSet(holding)
  /\ ReturnsSettled
  /\ InboundHeld
  /\ LoopEnded

-----------------------------------------------------------------------------
\* A gateway that has just started holds no slot.
LEMMA InitInv == PoolInit => Inv
<1> SUFFICES ASSUME PoolInit PROVE Inv
  OBVIOUS
<1>1. PoolTypeOK
  BY CapAssumption DEF PoolInit, PoolTypeOK
<1>2. sem = Cardinality(holding) /\ IsFiniteSet(holding)
  BY FS_EmptySet DEF PoolInit
<1>3. ReturnsSettled /\ InboundHeld /\ LoopEnded
  BY DEF PoolInit, ReturnsSettled, InboundHeld, LoopEnded, InFlight
<1> QED
  BY <1>1, <1>2, <1>3 DEF Inv, SlotsAreExact

\* A token that enters the channel is for a goroutine that did not hold one.
LEMMA AcquireExact ==
  ASSUME Inv, NEW h \in Holder, h \notin holding, Acquire(h)
  PROVE  /\ sem' \in 0..Cap
         /\ holding' \in SUBSET Holder
         /\ sem' = Cardinality(holding')
         /\ IsFiniteSet(holding')
<1>1. sem \in 0..Cap /\ sem = Cardinality(holding) /\ IsFiniteSet(holding)
  BY DEF Inv, SlotsAreExact, PoolTypeOK
<1>2. IsFiniteSet(holding') /\ Cardinality(holding') = Cardinality(holding) + 1
  BY <1>1, FS_AddElement DEF Acquire
<1>3. sem' \in 0..Cap
  BY <1>1, CapAssumption DEF Acquire
<1> QED
  BY <1>1, <1>2, <1>3 DEF Acquire, Inv, SlotsAreExact, PoolTypeOK

\* A token that leaves the channel is that of the goroutine that ends.
LEMMA ReleaseExact ==
  ASSUME Inv, NEW h \in Holder, Release(h)
  PROVE  /\ sem' \in 0..Cap
         /\ holding' \in SUBSET Holder
         /\ sem' = Cardinality(holding')
         /\ IsFiniteSet(holding')
<1>1. sem \in 0..Cap /\ sem = Cardinality(holding) /\ IsFiniteSet(holding) /\ h \in holding
  BY DEF Inv, SlotsAreExact, PoolTypeOK, Release
<1>2. IsFiniteSet(holding') /\ Cardinality(holding') = Cardinality(holding) - 1
  BY <1>1, FS_RemoveElement DEF Release
<1>3. Cardinality(holding') \in Nat
  BY <1>2, FS_CardinalityType
<1>4. sem' \in 0..Cap
  BY <1>1, <1>2, <1>3, CapAssumption DEF Release
<1> QED
  BY <1>1, <1>2, <1>4 DEF Release, Inv, SlotsAreExact, PoolTypeOK

\* Steps that leave the pool alone keep its count.
LEMMA PoolUnchanged ==
  ASSUME Inv, UNCHANGED <<sem, holding>>
  PROVE  /\ sem' \in 0..Cap
         /\ holding' \in SUBSET Holder
         /\ sem' = Cardinality(holding')
         /\ IsFiniteSet(holding')
BY DEF Inv, SlotsAreExact, PoolTypeOK

-----------------------------------------------------------------------------
\* The loop of a fan-out and its return keep the invariant.
LEMMA LoopInv ==
  ASSUME Inv, NEW f \in FanOut,
         BeginFanOut(f) \/ Abandon(f) \/ Dispatched(f) \/ EndFanOut(f) \/ CancelFanOut(f)
  PROVE  Inv'
<1>0. UNCHANGED <<sem, holding, inbound>>
  BY DEF BeginFanOut, Abandon, Dispatched, EndFanOut, CancelFanOut
<1>1. /\ sem' \in 0..Cap /\ holding' \in SUBSET Holder
      /\ sem' = Cardinality(holding') /\ IsFiniteSet(holding')
  BY <1>0, PoolUnchanged
<1>t. PoolTypeOK
  BY DEF Inv, SlotsAreExact
<1>2. PoolTypeOK'
  <2>1. CASE BeginFanOut(f)
    BY <1>0, <1>1, <1>t, <2>1 DEF PoolTypeOK, BeginFanOut
  <2>2. CASE Abandon(f) \/ Dispatched(f) \/ EndFanOut(f)
    BY <1>0, <1>1, <1>t, <2>2 DEF PoolTypeOK, Abandon, Dispatched, EndFanOut
  <2>3. CASE CancelFanOut(f)
    BY <1>0, <1>1, <1>t, <2>3 DEF PoolTypeOK, CancelFanOut
  <2> QED
    BY <2>1, <2>2, <2>3
<1>3. InboundHeld'
  BY <1>0 DEF Inv, InboundHeld
<1>4. ReturnsSettled' /\ LoopEnded'
  <2> SUFFICES ASSUME NEW g \in FanOut
               PROVE  /\ fan'[g] = "idle" => InFlight(g)' = {}
                      /\ fan'[g] # "sending" => todo'[g] = {} \/ ctxDone'[g]
                      /\ InFlight(g)' \cap todo'[g] = {}
                      /\ settled'[g] \cap (InFlight(g)' \cup todo'[g]) = {}
    BY DEF ReturnsSettled, LoopEnded
  <2>1. InFlight(g)' = InFlight(g)
    BY <1>0 DEF InFlight
  <2>2. /\ fan[g] = "idle" => InFlight(g) = {}
        /\ fan[g] # "sending" => todo[g] = {} \/ ctxDone[g]
        /\ InFlight(g) \cap todo[g] = {}
        /\ settled[g] \cap (InFlight(g) \cup todo[g]) = {}
    BY DEF Inv, ReturnsSettled, LoopEnded
  <2>3. CASE BeginFanOut(f)
    BY <1>t, <2>1, <2>2, <2>3 DEF BeginFanOut, PoolTypeOK
  <2>4. CASE Abandon(f)
    BY <1>t, <2>1, <2>2, <2>4 DEF Abandon, PoolTypeOK
  <2>5. CASE Dispatched(f)
    BY <1>t, <2>1, <2>2, <2>5 DEF Dispatched, PoolTypeOK
  <2>6. CASE EndFanOut(f)
    BY <1>t, <2>1, <2>2, <2>6 DEF EndFanOut, PoolTypeOK
  <2>7. CASE CancelFanOut(f)
    BY <1>t, <2>1, <2>2, <2>7 DEF CancelFanOut, PoolTypeOK
  <2> QED
    BY <2>3, <2>4, <2>5, <2>6, <2>7
<1> QED
  BY <1>1, <1>2, <1>3, <1>4 DEF Inv, SlotsAreExact

\* A delivery that starts was still on the list of its fan-out.
LEMMA DispatchInv ==
  ASSUME Inv, NEW f \in FanOut, Dispatch(f)
  PROVE  Inv'
<1>t. PoolTypeOK
  BY DEF Inv, SlotsAreExact
<1>1. PICK a \in todo[f] : Acquire(<<f, a>>) /\ todo' = [todo EXCEPT ![f] = @ \ {a}]
  BY DEF Dispatch
<1>2. a \in Follower /\ <<f, a>> \in Holder
  BY <1>1, <1>t DEF PoolTypeOK, Holder
<1>3. <<f, a>> \notin holding
  BY <1>1, <1>2 DEF Inv, ReturnsSettled, InFlight
<1>4. /\ sem' \in 0..Cap /\ holding' \in SUBSET Holder
      /\ sem' = Cardinality(holding') /\ IsFiniteSet(holding')
  BY <1>1, <1>2, <1>3, AcquireExact
<1>5. PoolTypeOK'
  BY <1>1, <1>4, <1>t DEF PoolTypeOK, Dispatch
<1>6. InboundHeld'
  BY <1>1, <1>2, JobsAssumption DEF Inv, InboundHeld, Acquire, Dispatch
<1>7. ReturnsSettled' /\ LoopEnded'
  <2> SUFFICES ASSUME NEW g \in FanOut
               PROVE  /\ fan'[g] = "idle" => InFlight(g)' = {}
                      /\ fan'[g] # "sending" => todo'[g] = {} \/ ctxDone'[g]
                      /\ InFlight(g)' \cap todo'[g] = {}
                      /\ settled'[g] \cap (InFlight(g)' \cup todo'[g]) = {}
    BY DEF ReturnsSettled, LoopEnded
  <2>1. InFlight(g)' = IF g = f THEN InFlight(g) \cup {a} ELSE InFlight(g)
    BY <1>1, <1>2 DEF Acquire, InFlight
  <2>2. /\ fan[g] = "idle" => InFlight(g) = {}
        /\ fan[g] # "sending" => todo[g] = {} \/ ctxDone[g]
        /\ InFlight(g) \cap todo[g] = {}
        /\ settled[g] \cap (InFlight(g) \cup todo[g]) = {}
    BY DEF Inv, ReturnsSettled, LoopEnded
  <2>3. /\ todo'[g] = IF g = f THEN todo[g] \ {a} ELSE todo[g]
        /\ fan' = fan /\ settled' = settled /\ ctxDone' = ctxDone /\ fan[f] = "sending"
    BY <1>1, <1>t DEF PoolTypeOK, Dispatch
  <2> QED
    BY <1>1, <2>1, <2>2, <2>3
<1> QED
  BY <1>4, <1>5, <1>6, <1>7 DEF Inv, SlotsAreExact

\* A delivery that ends moves its follower from the running to the settled.
LEMMA SettleInv ==
  ASSUME Inv, NEW f \in FanOut, NEW a \in Follower, Settle(f, a)
  PROVE  Inv'
<1>t. PoolTypeOK
  BY DEF Inv, SlotsAreExact
<1>1. Release(<<f, a>>) /\ <<f, a>> \in Holder
  BY DEF Settle, Holder
<1>2. /\ sem' \in 0..Cap /\ holding' \in SUBSET Holder
      /\ sem' = Cardinality(holding') /\ IsFiniteSet(holding')
  BY <1>1, ReleaseExact
<1>3. PoolTypeOK'
  BY <1>2, <1>t DEF PoolTypeOK, Settle
<1>4. InboundHeld'
  BY <1>1 DEF Inv, InboundHeld, Release, Settle
<1>5. ReturnsSettled' /\ LoopEnded'
  <2> SUFFICES ASSUME NEW g \in FanOut
               PROVE  /\ fan'[g] = "idle" => InFlight(g)' = {}
                      /\ fan'[g] # "sending" => todo'[g] = {} \/ ctxDone'[g]
                      /\ InFlight(g)' \cap todo'[g] = {}
                      /\ settled'[g] \cap (InFlight(g)' \cup todo'[g]) = {}
    BY DEF ReturnsSettled, LoopEnded
  <2>1. InFlight(g)' = IF g = f THEN InFlight(g) \ {a} ELSE InFlight(g)
    BY <1>1 DEF Release, InFlight
  <2>2. /\ fan[g] = "idle" => InFlight(g) = {}
        /\ fan[g] # "sending" => todo[g] = {} \/ ctxDone[g]
        /\ InFlight(g) \cap todo[g] = {}
        /\ settled[g] \cap (InFlight(g) \cup todo[g]) = {}
    BY DEF Inv, ReturnsSettled, LoopEnded
  <2>3. /\ settled'[g] = IF g = f THEN settled[g] \cup {a} ELSE settled[g]
        /\ fan' = fan /\ todo' = todo /\ ctxDone' = ctxDone
        /\ g = f => a \in InFlight(g)
    BY <1>1, <1>t DEF PoolTypeOK, Settle, Release, InFlight
  <2> QED
    BY <2>1, <2>2, <2>3
<1> QED
  BY <1>2, <1>3, <1>4, <1>5 DEF Inv, SlotsAreExact

-----------------------------------------------------------------------------
\* What inbound requests do does not touch the fan-outs.
LEMMA FanOutsUntouched ==
  ASSUME Inv, UNCHANGED fanVars,
         \A f \in FanOut, a \in Follower : <<f, a>> \in holding' <=> <<f, a>> \in holding
  PROVE  ReturnsSettled' /\ LoopEnded'
<1>1. \A f \in FanOut : InFlight(f)' = InFlight(f)
  BY DEF InFlight
<1> QED
  BY <1>1 DEF Inv, ReturnsSettled, LoopEnded, fanVars

\* Accepting, refusing, ending and retrying an inbound request keep it.
LEMMA InboundInv ==
  ASSUME Inv, NEW i \in Inbound,
         AcceptInbound(i) \/ RefuseInbound(i) \/ EndInbound(i) \/ RetryInbound(i)
  PROVE  Inv'
<1>t. PoolTypeOK
  BY DEF Inv, SlotsAreExact
<1>h. <<i, Self>> \in Holder
  BY DEF Holder
<1>f. UNCHANGED fanVars
  BY DEF AcceptInbound, RefuseInbound, EndInbound, RetryInbound
<1>1. CASE AcceptInbound(i)
  <2>1. Acquire(<<i, Self>>) /\ <<i, Self>> \notin holding
    BY <1>1 DEF AcceptInbound, Inv, InboundHeld
  <2>2. /\ sem' \in 0..Cap /\ holding' \in SUBSET Holder
        /\ sem' = Cardinality(holding') /\ IsFiniteSet(holding')
    BY <1>h, <2>1, AcquireExact
  <2>3. PoolTypeOK'
    BY <1>1, <1>f, <2>2, <1>t DEF PoolTypeOK, AcceptInbound, fanVars
  <2>4. InboundHeld'
    BY <1>1, <1>t, <2>1 DEF Inv, InboundHeld, AcceptInbound, Acquire, PoolTypeOK
  <2>5. ReturnsSettled' /\ LoopEnded'
    <3>1. \A f \in FanOut, a \in Follower : <<f, a>> \in holding' <=> <<f, a>> \in holding
      BY <2>1, JobsAssumption DEF Acquire
    <3> QED
      BY <1>f, <3>1, FanOutsUntouched
  <2> QED
    BY <2>2, <2>3, <2>4, <2>5 DEF Inv, SlotsAreExact
<1>2. CASE EndInbound(i)
  <2>1. Release(<<i, Self>>)
    BY <1>2 DEF EndInbound
  <2>2. /\ sem' \in 0..Cap /\ holding' \in SUBSET Holder
        /\ sem' = Cardinality(holding') /\ IsFiniteSet(holding')
    BY <1>h, <2>1, ReleaseExact
  <2>3. PoolTypeOK'
    BY <1>2, <1>f, <2>2, <1>t DEF PoolTypeOK, EndInbound, fanVars
  <2>4. InboundHeld'
    BY <1>2, <1>t, <2>1 DEF Inv, InboundHeld, EndInbound, Release, PoolTypeOK
  <2>5. ReturnsSettled' /\ LoopEnded'
    <3>1. \A f \in FanOut, a \in Follower : <<f, a>> \in holding' <=> <<f, a>> \in holding
      BY <2>1, JobsAssumption DEF Release
    <3> QED
      BY <1>f, <3>1, FanOutsUntouched
  <2> QED
    BY <2>2, <2>3, <2>4, <2>5 DEF Inv, SlotsAreExact
<1>3. CASE RefuseInbound(i) \/ RetryInbound(i)
  <2>1. /\ UNCHANGED <<sem, holding>>
        /\ inbound[i] # "accepted"
        /\ inbound' \in [Inbound -> {"idle", "accepted", "refused"}]
        /\ \A k \in Inbound \ {i} : inbound'[k] = inbound[k]
    BY <1>3, <1>t DEF RefuseInbound, RetryInbound, PoolTypeOK
  <2>2. /\ sem' \in 0..Cap /\ holding' \in SUBSET Holder
        /\ sem' = Cardinality(holding') /\ IsFiniteSet(holding')
    BY <2>1, PoolUnchanged
  <2>3. PoolTypeOK'
    BY <1>f, <2>1, <2>2, <1>t DEF PoolTypeOK, fanVars
  <2>4. InboundHeld'
    BY <2>1 DEF Inv, InboundHeld
  <2>5. ReturnsSettled' /\ LoopEnded'
    BY <1>f, <2>1, FanOutsUntouched
  <2> QED
    BY <2>2, <2>3, <2>4, <2>5 DEF Inv, SlotsAreExact
<1> QED
  BY <1>1, <1>2, <1>3

-----------------------------------------------------------------------------
\* The invariant holds in every reachable state.
LEMMA Invariance == PoolSpec => []Inv
<1>1. Inv /\ [PoolNext]_poolVars => Inv'
  <2> SUFFICES ASSUME Inv, [PoolNext]_poolVars PROVE Inv'
    OBVIOUS
  <2>1. CASE UNCHANGED poolVars
    BY <2>1 DEF poolVars, Inv, SlotsAreExact, PoolTypeOK, ReturnsSettled, InboundHeld, LoopEnded, InFlight
  <2>2. CASE PoolNext
    BY <2>2, LoopInv, DispatchInv, SettleInv, InboundInv DEF PoolNext
  <2> QED
    BY <2>1, <2>2
<1> QED
  BY <1>1, InitInv, PTL DEF PoolSpec

\* The pool's channel holds one token for each goroutine that works, whatever
\* fan-outs, cancellations and inbound activities compete for it: no slot leaks
\* and the pool's bound is kept (gateway.sem, deliverToFollowers, handleInbox).
THEOREM SlotsExact == PoolSpec => []SlotsAreExact
BY Invariance, PTL DEF Inv

\* deliverToFollowers returns when none of its deliveries is running and every
\* follower was dealt with unless it was cancelled, and delivers to none twice.
THEOREM FanOutsReturnSettled == PoolSpec => []ReturnsSettled
BY Invariance, PTL DEF Inv
=============================================================================
