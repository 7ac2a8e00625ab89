------------------------------ MODULE SignedGet ------------------------------
(***************************************************************************)
(* Signed GETs of remote documents (server.go: signedGet, sendRetry and    *)
(* the decoding readers fetchActor, apGetJSON, apGetArray).  Callers look  *)
(* in the one-second cache; those that miss share one flight, whose leader *)
(* looks again, fetches with retries under its own context, and leaves the *)
(* final answer, whatever its status, in the cache.  Flights and entries   *)
(* go by media type and url; one such key is modelled.                     *)
(***************************************************************************)
EXTENDS Integers

CONSTANTS
  Callers,    \* concurrent requests for the url
  MaxTries,   \* attempts of the retrier
  CacheTTL    \* getCacheTTL, in ticks

VARIABLES
  call,       \* call[c].at: where caller c is; .got: what it was handed
  flight,     \* the singleflight of the url
  cache,      \* the memoized answer and its age
  sinceFetch  \* ghost: ticks since the last fetch that was answered

getVars == <<call, flight, cache, sinceFetch>>

NoFlight == [at |-> "none"]
NoEntry == [age |-> CacheTTL, got |-> "error"]
Resting == [at |-> "idle", got |-> "error"]

\* What a reader makes of a final answer: only a 200 that decodes is a document.
Answers == {"document", "error"}

GetInit ==
  /\ call = [c \in Callers |-> Resting]
  /\ flight = NoFlight
  /\ cache = NoEntry
  /\ sinceFetch = CacheTTL

Live == cache.age < CacheTTL

Handed(got) == [at |-> "done", got |-> got]

\* A url the guard rejects is an error before any fetch.
RejectUrl(c) ==
  /\ call[c].at = "idle"
  /\ call' = [call EXCEPT ![c] = Handed("error")]
  /\ UNCHANGED <<flight, cache, sinceFetch>>

\* The first look at the cache.
Look(c) ==
  /\ call[c].at = "idle"
  /\ call' = [call EXCEPT ![c] = IF Live THEN Handed(cache.got)
                                 ELSE [Resting EXCEPT !.at = "missed"]]
  /\ UNCHANGED <<flight, cache, sinceFetch>>

\* sf.Do: the first caller leads, the others wait for it and ignore their own
\* context.
Join(c) ==
  /\ call[c].at = "missed"
  /\ IF flight = NoFlight
     THEN /\ flight' = [at |-> "look", leader |-> c, tries |-> 0]
          /\ call' = [call EXCEPT ![c].at = "leading"]
     ELSE /\ call' = [call EXCEPT ![c].at = "waiting"]
          /\ UNCHANGED flight
  /\ UNCHANGED <<cache, sinceFetch>>

\* singleflight: the flight ends and its result, the error of a leader whose
\* context ended too, goes to everybody who joined it.
Land(got) ==
  /\ flight' = NoFlight
  /\ call' = [c \in Callers |-> IF call[c].at \in {"leading", "waiting"}
                                THEN Handed(got) ELSE call[c]]

\* Faulty variant: the flight does not look at the cache again.
RecheckNothing ==
  /\ flight.at = "look"
  /\ flight' = [flight EXCEPT !.at = "fetch"]
  /\ UNCHANGED <<call, cache, sinceFetch>>

\* The second look, inside the flight: an earlier flight may just have ended.
Recheck ==
  /\ flight.at = "look"
  /\ IF Live THEN Land(cache.got)
     ELSE /\ flight' = [flight EXCEPT !.at = "fetch"]
          /\ UNCHANGED call
  /\ UNCHANGED <<cache, sinceFetch>>

\* An answer that is not to be retried is final and is cached, a 404 too.
Answered(got) ==
  /\ flight.at = "fetch"
  /\ cache' = [age |-> 0, got |-> got]
  /\ sinceFetch' = 0
  /\ Land(got)

\* A network error, 429 or 5xx is tried again until the tries are used up.
Retry ==
  /\ flight.at = "fetch"
  /\ IF flight.tries + 1 < MaxTries
     THEN /\ flight' = [flight EXCEPT !.tries = @ + 1]
          /\ UNCHANGED call
     ELSE Land("error")
  /\ UNCHANGED <<cache, sinceFetch>>

\* A request that cannot be built or a body over the limit stops the retrier,
\* and so does the end of the leader's context; nothing is cached.
Stop ==
  /\ flight.at = "fetch"
  /\ Land("error")
  /\ UNCHANGED <<cache, sinceFetch>>

Fly == Recheck \/ (\E got \in Answers : Answered(got)) \/ Retry \/ Stop

\* The caller goes on with what it was handed.
Return(c) ==
  /\ call[c].at = "done"
  /\ call' = [call EXCEPT ![c] = Resting]
  /\ UNCHANGED <<flight, cache, sinceFetch>>

Older(age) == IF age < CacheTTL THEN age + 1 ELSE age

GetTick ==
  /\ cache' = [cache EXCEPT !.age = Older(@)]
  /\ sinceFetch' = Older(sinceFetch)
  /\ UNCHANGED <<call, flight>>

GetNext ==
  \/ \E c \in Callers : RejectUrl(c) \/ Look(c) \/ Join(c) \/ Return(c)
  \/ Fly
  \/ GetTick

------------------------------------------------------------------------------
(* Properties *)

Handing(c) == call[c].at # "done" /\ call'[c].at = "done"

\* The url is fetched once per window: no fetch is begun within CacheTTL of an
\* answered one, by any interleaving of callers that missed the cache before
\* it, and nobody is served from the cache after that (signedGet).
OneFetchPerWindow ==
  [][/\ flight'.at = "fetch" /\ flight.at # "fetch" => sinceFetch >= CacheTTL
     /\ \A c \in Callers : call[c].at = "idle" /\ Handing(c) =>
          sinceFetch < CacheTTL \/ call'[c].got = "error"]_getVars
==============================================================================
