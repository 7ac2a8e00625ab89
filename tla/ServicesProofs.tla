--------------------------- MODULE ServicesProofs ---------------------------
(***************************************************************************)
(* Proofs about the gateway's smaller parts, for every value of their      *)
(* constants.  The parts share no state, so each has an invariant of its   *)
(* own over its own variables.                                             *)
(***************************************************************************)
EXTENDS Services, Selection, SequenceTheorems, FiniteSetTheorems, TLAPS

\* A step of the composition is a step of each part, or leaves it alone.
LEMMA Parts ==
  ASSUME [Next]_vars
  PROVE  /\ [G!GetNext]_(G!getVars)
         /\ [B!BwNext]_(B!bwVars)
         /\ [I!InNext]_(I!inVars)
         /\ [D!DirectoryNext]_(D!dirmVars)
         /\ [T!TwNext]_(T!twVars)
         /\ [F!ListNext]_(F!listVars)
         /\ [W!DirNext]_(W!dirVars)
         /\ [L!RingNext]_(L!ringVars)
         /\ [K!KeyNext]_(K!keyVars)
BY DEF Next, Only, vars, G!getVars, B!bwVars, I!inVars, D!dirmVars, T!twVars, F!listVars,
   W!dirVars, L!ringVars, K!keyVars

-----------------------------------------------------------------------------
(* The signing key. *)

\* A key that was published is the one in the file; while a new one is made the
\* file holds none, so none was published.
KeyInv ==
  /\ generated \in Nat
  /\ file \in {K!Absent, K!Partial} \cup (Nat \ {0})
  /\ \A k \in published : k = file /\ k \in Nat \ {0}
  /\ process = "generated" => file = K!Absent /\ key \in Nat \ {0}
  /\ process = "writing" => file = K!Partial /\ key \in Nat \ {0}
  /\ process = "up" => file = key /\ key \in Nat \ {0}

\* The starts, crashes and errors of loadOrCreateKey keep it.
LEMMA KeyStep ==
  ASSUME KeyInv, [K!KeyNext]_(K!keyVars)
  PROVE  KeyInv'
<1> USE DEF KeyInv, K!Absent, K!Partial, K!NoKey
<1>1. CASE K!LoadKey
  BY <1>1 DEF K!LoadKey, K!Serves
<1>2. CASE \E readable \in BOOLEAN : K!GenerateKey(readable)
  BY <1>2 DEF K!GenerateKey, K!MayGenerate
<1>3. CASE K!RefuseKey \/ K!WriteFails \/ K!Crash
  BY <1>3 DEF K!RefuseKey, K!WriteFails, K!Crash, K!Exits
<1>4. CASE K!CreateFile
  BY <1>4 DEF K!CreateFile
<1>5. CASE K!WriteKey
  BY <1>5 DEF K!WriteKey, K!Serves
<1>6. CASE K!RemovePartial
  BY <1>6 DEF K!RemovePartial
<1>7. CASE UNCHANGED K!keyVars
  BY <1>7 DEF K!keyVars
<1> QED
  BY <1>1, <1>2, <1>3, <1>4, <1>5, <1>6, <1>7 DEF K!KeyNext

\* Every start that succeeds signs with the key the first one signed with, and a
\* running gateway's key is the one on disk, over any number of starts, crashes
\* and write errors (loadOrCreateKey).
THEOREM KeyNeverChanges == Spec => []KeyIsStable
<1>1. Init => KeyInv
  BY DEF Init, K!KeyInit, KeyInv, K!Absent, K!NoKey
<1>2. KeyInv /\ [Next]_vars => KeyInv'
  BY KeyStep, Parts
<1>3. KeyInv => KeyIsStable
  BY DEF KeyInv, KeyIsStable, K!KeyIsStable
<1> QED
  BY <1>1, <1>2, <1>3, PTL DEF Spec

-----------------------------------------------------------------------------
(* Signed fetches. *)

\* The entry of the cache is as old as the last answered fetch.
GetInv ==
  /\ call \in [Callers -> [at : {"idle", "missed", "leading", "waiting", "done"},
                           got : G!Answers]]
  /\ cache \in [age : Nat, got : G!Answers]
  /\ sinceFetch = cache.age

\* A flight that lands hands its result to those who joined it.
LEMMA LandTyped ==
  ASSUME GetInv, NEW got \in G!Answers, G!Land(got)
  PROVE  /\ call' \in [Callers -> [at : {"idle", "missed", "leading", "waiting", "done"},
                                   got : G!Answers]]
         /\ \A c \in Callers : call[c].at = "idle" => call'[c] = call[c]
         /\ flight' = G!NoFlight
BY DEF GetInv, G!Land, G!Handed

\* The steps of callers, flights and the clock keep it, and none of them begins
\* a fetch or serves a caller against the age of the entry.
LEMMA GetStep ==
  ASSUME GetInv, [G!GetNext]_(G!getVars)
  PROVE  /\ GetInv'
         /\ [/\ flight'.at = "fetch" /\ flight.at # "fetch" => sinceFetch >= CacheTTL
             /\ \A c \in Callers : call[c].at = "idle" /\ G!Handing(c) =>
                  sinceFetch < CacheTTL \/ call'[c].got = "error"]_(G!getVars)
<1> DEFINE Good == /\ flight'.at = "fetch" /\ flight.at # "fetch" => sinceFetch >= CacheTTL
                   /\ \A c \in Callers : call[c].at = "idle" /\ G!Handing(c) =>
                        sinceFetch < CacheTTL \/ call'[c].got = "error"
<1> SUFFICES GetInv' /\ (Good \/ UNCHANGED G!getVars)
  OBVIOUS
<1> USE GetAssumption DEF G!Answers, G!NoFlight
<1>1. ASSUME NEW d \in Callers, G!RejectUrl(d) \/ G!Look(d)
      PROVE  GetInv' /\ Good
  BY <1>1 DEF GetInv, G!RejectUrl, G!Look, G!Handed, G!Resting, G!Live, G!Handing
<1>2. ASSUME NEW d \in Callers, G!Join(d) \/ G!Return(d)
      PROVE  GetInv' /\ Good
  <2>1. GetInv'
    BY <1>2 DEF GetInv, G!Join, G!Return, G!Resting
  <2>2. \A c \in Callers : call[c].at = "idle" => call'[c].at # "done"
    BY <1>2 DEF GetInv, G!Join, G!Return, G!Resting
  <2>3. flight' = flight \/ flight'.at = "look"
    BY <1>2 DEF G!Join, G!Return
  <2> QED
    BY <2>1, <2>2, <2>3 DEF G!Handing
<1>3. CASE G!Recheck
  <2>1. CASE G!Live
    <3>1. cache.got \in G!Answers /\ G!Land(cache.got) /\ UNCHANGED <<cache, sinceFetch>>
      BY <1>3, <2>1 DEF G!Recheck, GetInv
    <3> QED
      BY <3>1, LandTyped DEF GetInv, G!Handing
  <2>2. CASE ~G!Live
    BY <1>3, <2>2 DEF G!Recheck, G!Live, GetInv, G!Handing
  <2> QED
    BY <2>1, <2>2
<1>4. ASSUME NEW got \in G!Answers, G!Answered(got)
      PROVE  GetInv' /\ Good
  BY <1>4, LandTyped DEF GetInv, G!Answered, G!Handing
<1>5. CASE G!Retry \/ G!Stop
  <2>1. flight.at = "fetch" /\ UNCHANGED <<cache, sinceFetch>> /\ (call' = call \/ G!Land("error"))
    BY <1>5 DEF G!Retry, G!Stop
  <2> QED
    BY <2>1, LandTyped DEF GetInv, G!Handing
<1>6. CASE G!GetTick
  BY <1>6 DEF GetInv, G!GetTick, G!Older, G!Handing
<1>7. CASE UNCHANGED G!getVars
  BY <1>7 DEF GetInv, G!getVars
<1> QED
  BY <1>1, <1>2, <1>3, <1>4, <1>5, <1>6, <1>7 DEF G!GetNext, G!Fly

\* A url is fetched once per cache window and never served after it, for any
\* number of callers and tries and any life of an entry (signedGet).
THEOREM FetchedOncePerWindow == Spec => OneFetchPerWindow
<1>1. Init => GetInv
  BY GetAssumption DEF Init, G!GetInit, GetInv, G!Resting, G!NoEntry, G!Answers
<1>2. GetInv /\ [Next]_vars => GetInv'
  BY GetStep, Parts
<1>3. GetInv /\ [Next]_vars =>
        [/\ flight'.at = "fetch" /\ flight.at # "fetch" => sinceFetch >= CacheTTL
         /\ \A c \in Callers : call[c].at = "idle" /\ G!Handing(c) =>
              sinceFetch < CacheTTL \/ call'[c].got = "error"]_(G!getVars)
  BY GetStep, Parts
<1> QED
  BY <1>1, <1>2, <1>3, PTL DEF Spec, OneFetchPerWindow, G!OneFetchPerWindow

-----------------------------------------------------------------------------
(* The directory's cursors. *)

\* A page in the cache leads on.
DirInv ==
  /\ offset \in {W!End} \cup 0..(Width - 1)
  /\ \A c \in cached : /\ c[3] \in {W!End} \cup 0..(Width - 1)
                       /\ c[3] = W!End \/ c[3] > c[1]

\* A page that is fetched or cached starts after its cursor.
LEMMA PageStep ==
  ASSUME DirInv, NEW limit \in 1..DirectoryLimit, W!Page(limit)
  PROVE  DirInv' /\ (offset' = W!End \/ offset' > offset)
<1> USE CursorAssumption DEF W!End
<1>1. /\ offset \in 0..(Width - 1) /\ limit \in Nat \ {0} /\ offset + limit <= Width - 1
      /\ Width \in Nat \ {0}
  BY DEF DirInv, W!Page, W!Fits
<1>2. (offset + limit) % Width = offset + limit
  BY <1>1
<1>3. CASE \E c \in cached : /\ c[1] = offset /\ c[2] = limit
                             /\ offset' = c[3]
                             /\ UNCHANGED cached
  BY <1>1, <1>3 DEF DirInv
<1>4. CASE /\ \E isFull \in BOOLEAN :
                offset' = IF isFull THEN (offset + limit) % Width ELSE W!End
           /\ cached' = {<<offset, limit, offset'>>}
  <2>1. offset' \in {W!End} \cup 0..(Width - 1) /\ (offset' = W!End \/ offset' > offset)
    BY <1>1, <1>2, <1>4
  <2>2. \A c \in cached' : c[1] = offset /\ c[3] = offset'
    BY <1>4
  <2> QED
    BY <2>1, <2>2 DEF DirInv
<1> QED
  BY <1>3, <1>4 DEF W!Page

\* So do all steps.
LEMMA DirStep ==
  ASSUME DirInv, [W!DirNext]_(W!dirVars)
  PROVE  DirInv'
<1>1. CASE \E o \in 0..(Width - 1) : W!Ask(o)
  BY <1>1 DEF DirInv, W!Ask
<1>2. CASE \E c \in cached : W!Expire(c)
  BY <1>2 DEF DirInv, W!Expire
<1>3. CASE UNCHANGED W!dirVars
  BY <1>3 DEF DirInv, W!dirVars
<1> QED
  BY <1>1, <1>2, <1>3, PageStep DEF W!DirNext

\* The next page starts after this one, for any width of a cursor, 2^64 too, any
\* page size and whatever cursors clients come back with (GetWhoToFollow).
THEOREM DirectoryAdvances == Spec => PagesAdvance
<1>1. Init => DirInv
  BY CursorAssumption DEF Init, W!DirInit, DirInv, W!End
<1>2. DirInv /\ [Next]_vars => DirInv'
  BY DirStep, Parts
<1>3. DirInv =>
        [\A limit \in 1..DirectoryLimit :
           W!Page(limit) => offset' = W!End \/ offset' > offset]_(W!dirVars)
  BY PageStep
<1> QED
  BY <1>1, <1>2, <1>3, PTL DEF Spec, PagesAdvance, W!PagesAdvance

-----------------------------------------------------------------------------
(* The log ring. *)

\* The place of the i-th of the lines in a full ring.
Place(i) == IF next + i - 1 < RingSize THEN next + i - 1 ELSE next + i - 1 - RingSize

\* The ring holds the recent lines, the oldest at the write index once it is full.
RingInv ==
  /\ next \in 0..(RingSize - 1)
  /\ full \in BOOLEAN
  /\ recent \in Seq(L!Line)
  /\ buf \in [0..(RingSize - 1) -> L!Line \cup {L!Blank}]
  /\ ~full => Len(recent) = next /\ \A i \in 1..next : recent[i] = buf[i - 1]
  /\ full => Len(recent) = RingSize /\ \A i \in 1..RingSize : recent[i] = buf[Place(i)]

\* A line takes the oldest one's place.
LEMMA RingStep ==
  ASSUME RingInv, [L!RingNext]_(L!ringVars)
  PROVE  RingInv'
<1>1. CASE UNCHANGED L!ringVars
  BY <1>1 DEF RingInv, L!ringVars, Place
<1>2. ASSUME NEW line \in L!Line, L!Fire(line)
      PROVE  RingInv'
  <2> USE RingAssumption
  <2>0. (next + 1) % RingSize = IF next + 1 = RingSize THEN 0 ELSE next + 1
    <3>1. next \in 0..(RingSize - 1)
      BY DEF RingInv
    <3>2. CASE next + 1 = RingSize
      BY <3>2
    <3>3. CASE next + 1 # RingSize
      BY <3>1, <3>3
    <3> QED
      BY <3>2, <3>3
  <2>1. /\ next' = IF next + 1 = RingSize THEN 0 ELSE next + 1
        /\ next' \in 0..(RingSize - 1)
        /\ full' = (full \/ next' = 0)
        /\ buf' = [buf EXCEPT ![next] = line]
        /\ buf' \in [0..(RingSize - 1) -> L!Line \cup {L!Blank}]
        /\ buf'[next] = line
        /\ \A k \in 0..(RingSize - 1) : k # next => buf'[k] = buf[k]
    BY <1>2, <2>0 DEF RingInv, L!Fire
  <2>2. full' \in BOOLEAN
    BY <2>1 DEF RingInv
  <2>3. CASE ~full
    <3>1. /\ recent' = Append(recent, line) /\ recent' \in Seq(L!Line)
          /\ Len(recent) = next /\ Len(recent') = next + 1
          /\ recent'[next + 1] = line
          /\ \A i \in 1..next : recent'[i] = buf[i - 1]
      BY <1>2, <2>3 DEF RingInv, L!Fire, L!Remembered
    <3>2. \A i \in 1..(next + 1) : recent'[i] = buf'[i - 1]
      BY <2>1, <3>1 DEF RingInv
    <3>3. CASE next + 1 = RingSize
      <4>1. full' /\ next' = 0
        BY <2>1, <3>3
      <4>2. \A i \in 1..RingSize : Place(i)' = i - 1
        BY <4>1 DEF Place
      <4> QED
        BY <2>1, <2>2, <3>1, <3>2, <3>3, <4>1, <4>2 DEF RingInv
    <3>4. CASE next + 1 # RingSize
      <4>1. ~full' /\ next' = next + 1
        BY <2>1, <2>3, <3>4 DEF RingInv
      <4> QED
        BY <2>1, <2>2, <3>1, <3>2, <4>1 DEF RingInv
    <3> QED
      BY <3>3, <3>4
  <2>4. CASE full
    <3>1. recent' = Append(Tail(recent), line) /\ Len(recent) = RingSize
      BY <1>2, <2>4 DEF RingInv, L!Fire, L!Remembered
    <3>2. /\ Tail(recent) \in Seq(L!Line) /\ Len(Tail(recent)) = RingSize - 1
          /\ \A i \in 1..(RingSize - 1) : Tail(recent)[i] = recent[i + 1]
      BY <3>1 DEF RingInv
    <3>3. /\ recent' \in Seq(L!Line) /\ Len(recent') = RingSize
          /\ recent'[RingSize] = line
          /\ \A i \in 1..(RingSize - 1) : recent'[i] = recent[i + 1]
      BY <3>1, <3>2
    <3>4. \A i \in 1..RingSize : recent'[i] = buf'[Place(i)']
      <4> SUFFICES ASSUME NEW i \in 1..RingSize
                   PROVE  recent'[i] = buf'[Place(i)']
        OBVIOUS
      <4>1. CASE i = RingSize
        <5>1. Place(i)' = next
          BY <2>1, <4>1 DEF Place, RingInv
        <5> QED
          BY <2>1, <3>3, <4>1, <5>1
      <4>2. CASE i # RingSize
        <5>1. /\ i \in 1..(RingSize - 1) /\ i + 1 \in 1..RingSize
              /\ Place(i)' = Place(i + 1)
              /\ Place(i + 1) \in 0..(RingSize - 1) /\ Place(i + 1) # next
          BY <2>1, <4>2 DEF Place, RingInv
        <5>2. recent[i + 1] = buf[Place(i + 1)]
          BY <2>4, <5>1 DEF RingInv
        <5> QED
          BY <2>1, <3>3, <5>1, <5>2
      <4> QED
        BY <4>1, <4>2
    <3> QED
      BY <2>1, <2>2, <2>4, <3>3, <3>4 DEF RingInv
  <2> QED
    BY <2>3, <2>4 DEF RingInv
<1> QED
  BY <1>1, <1>2 DEF L!RingNext

\* The two slices put together are the recent lines.
LEMMA RingIsRecent ==
  ASSUME RingInv
  PROVE  L!Ordered = recent
<1> USE RingAssumption
<1>1. CASE ~full
  <2>1. Len(recent) = next /\ recent = [i \in 1..next |-> recent[i]]
    BY <1>1 DEF RingInv
  <2>2. L!Slice(0, next) = [i \in 1..next |-> buf[i - 1]]
    BY DEF L!Slice, RingInv
  <2>3. L!Slice(0, next) = recent
    BY <1>1, <2>1, <2>2 DEF RingInv
  <2> QED
    BY <1>1, <2>3 DEF L!Ordered
<1>2. CASE full
  <2> DEFINE old == L!Slice(next, RingSize)
             new == L!Slice(0, next)
             Any == L!Line \cup {L!Blank}
  <2>1. /\ old \in Seq(Any) /\ Len(old) = RingSize - next
        /\ \A i \in 1..(RingSize - next) : old[i] = buf[next + i - 1]
    BY DEF RingInv, L!Slice
  <2>2. /\ new \in Seq(Any) /\ Len(new) = next
        /\ \A i \in 1..next : new[i] = buf[i - 1]
    BY DEF RingInv, L!Slice
  <2>3. recent \in Seq(Any) /\ Len(recent) = RingSize
    BY <1>2 DEF RingInv
  <2> HIDE DEF old, new, Any
  <2>4. old \o new \in Seq(Any) /\ Len(old \o new) = RingSize
    BY <2>1, <2>2 DEF RingInv
  <2>5. \A i \in 1..RingSize : (old \o new)[i] = recent[i]
    <3> SUFFICES ASSUME NEW i \in 1..RingSize
                 PROVE  (old \o new)[i] = recent[i]
      OBVIOUS
    <3>1. recent[i] = buf[Place(i)]
      BY <1>2 DEF RingInv
    <3>2. CASE i <= RingSize - next
      <4>1. Place(i) = next + i - 1 /\ i \in 1..(RingSize - next)
        BY <3>2 DEF Place, RingInv
      <4>2. (old \o new)[i] = old[i]
        BY <2>1, <2>2, <4>1
      <4> QED
        BY <2>1, <3>1, <4>1, <4>2
    <3>3. CASE ~(i <= RingSize - next)
      <4>1. /\ Place(i) = (i - (RingSize - next)) - 1
            /\ i - (RingSize - next) \in 1..next
            /\ i > RingSize - next
        BY <3>3 DEF Place, RingInv
      <4>2. (old \o new)[i] = new[i - (RingSize - next)]
        BY <2>1, <2>2, <4>1
      <4> QED
        BY <2>2, <3>1, <4>1, <4>2
    <3> QED
      BY <3>2, <3>3
  <2>6. old \o new = recent
    BY <2>3, <2>4, <2>5, SeqEqual
  <2> QED
    BY <1>2, <2>6 DEF L!Ordered, old, new
<1> QED
  BY <1>1, <1>2 DEF RingInv

\* /logs serves the last lines of a network, oldest first, for a ring of any size
\* and at any position of its write index (logRing.lines).
THEOREM RingServesRecent == Spec => []ServesRecentLines
<1>1. Init => RingInv
  <2> SUFFICES ASSUME Init PROVE RingInv
    OBVIOUS
  <2>1. /\ next = 0 /\ full = FALSE /\ recent = <<>>
        /\ buf = [i \in 0..(RingSize - 1) |-> L!Blank]
    BY DEF Init, L!RingInit
  <2> QED
    BY <2>1, RingAssumption DEF RingInv
<1>2. RingInv /\ [Next]_vars => RingInv'
  BY RingStep, Parts
<1>3. RingInv => ServesRecentLines
  BY RingIsRecent DEF ServesRecentLines, L!ServesRecentLines, L!lines
<1> QED
  BY <1>1, <1>2, <1>3, PTL DEF Spec

-----------------------------------------------------------------------------
(* What members write to the Fediverse. *)

Handler == [ev : Script, posts : Nat, at : {"refused", "resolve", "post", "ok", "error"}]

OpsTyped == op \in Seq(Handler)

\* The reply a shown note is of is one of the script's, under its own parent, and
\* its Create is known; so are the Creates of the replies removed.
ShownAreReplies ==
  /\ \A n \in shown :
       /\ n = [url |-> n.url, of |-> n.of]
       /\ <<"create", n.of>> \in seen
       /\ \E ev \in Script, i \in Nat \ {0} :
            ev.type = "reply" /\ n.of = B!NoteID(ev, i) /\ n.url = <<n.of, B!ParentURL(ev)>>
  /\ \A id \in removed : <<"create", id>> \in seen

BwInv ==
  /\ OpsTyped
  /\ SuccessIsDelivered
  /\ ShownAreReplies
  /\ RepliesMirrored

\* The remote server's part: carrying out the activity of an event.
LEMMA CarryOut ==
  ASSUME ShownAreReplies, RepliesMirrored, NEW ev \in Script, NEW i \in Nat \ {0},
         B!Carried(ev, i)
  PROVE  /\ (ShownAreReplies /\ RepliesMirrored)'
         /\ seen \subseteq seen' /\ B!ActivityID(ev, i) \in seen'
<1> USE DEF B!RepliesMirrored, RepliesMirrored
<1>1. CASE B!ActivityID(ev, i) \in seen
  BY <1>1 DEF B!Carried, ShownAreReplies
<1>2. CASE B!ActivityID(ev, i) \notin seen /\ ev.type = "reply"
  <2> DEFINE id == B!NoteID(ev, i)
  <2>1. B!ActivityID(ev, i) = <<"create", id>> /\ B!ReplyURL(ev, i) = <<id, B!ParentURL(ev)>>
    BY <1>2 DEF B!ActivityID, B!ReplyURL
  <2>2. /\ seen' = seen \cup {<<"create", id>>}
        /\ shown' = shown \cup {[url |-> <<id, B!ParentURL(ev)>>, of |-> id]}
        /\ removed' = removed
    BY <1>2, <2>1 DEF B!Carried
  <2>3. id \notin removed /\ \A n \in shown : n.of # id
    BY <1>2, <2>1 DEF ShownAreReplies
  <2>4. ShownAreReplies'
    BY <1>2, <2>2 DEF ShownAreReplies
  <2> QED
    BY <2>1, <2>2, <2>3, <2>4
<1>3. CASE B!ActivityID(ev, i) \notin seen /\ ev.type = "delete"
  <2> DEFINE id == B!StatusID(ev.id)
  <2>1. /\ seen' = seen \cup {B!ActivityID(ev, i)}
        /\ shown' = {n \in shown : n.url # <<id, B!ParentURL(ev)>>}
        /\ removed' = IF \E n \in shown : n.of = id THEN removed \cup {id} ELSE removed
    BY <1>3 DEF B!Carried, B!TombstoneURL
  <2>2. \A n \in shown : n.of = id => n.url = <<id, B!ParentURL(ev)>>
    <3> SUFFICES ASSUME NEW n \in shown, n.of = id
                 PROVE  n.url = <<id, B!ParentURL(ev)>>
      OBVIOUS
    <3>1. PICK e \in Script, j \in Nat \ {0} :
            e.type = "reply" /\ n.of = B!NoteID(e, j) /\ n.url = <<n.of, B!ParentURL(e)>>
      BY DEF ShownAreReplies
    <3>2. e.id = ev.id /\ e.id # ""
      <4>1. B!NoteID(e, j) = <<ev.id, 0>>
        BY <3>1 DEF B!StatusID
      <4>2. e.id # ""
        BY <4>1 DEF B!NoteID, B!Token, B!NoId
      <4>3. B!NoteID(e, j) = <<e.id, 0>>
        BY <4>2 DEF B!NoteID, B!StatusID, B!NoId
      <4>4. <<ev.id, 0>>[1] = ev.id /\ <<e.id, 0>>[1] = e.id
        OBVIOUS
      <4>5. <<ev.id, 0>> = <<e.id, 0>>
        BY <4>1, <4>3, Zenon
      <4> QED
        BY <4>2, <4>4, <4>5, Zenon
    <3>3. e.parent = ev.parent /\ e.root = ev.root
      BY <1>3, <3>1, <3>2, ScriptAssumption
    <3> QED
      BY <3>1, <3>3 DEF B!ParentURL
  <2>3. \A gone \in removed' : <<"create", gone>> \in seen'
    BY <2>1 DEF ShownAreReplies
  <2>4. ShownAreReplies'
    BY <2>1, <2>3 DEF ShownAreReplies
  <2> QED
    BY <2>1, <2>2, <2>4
<1>4. CASE B!ActivityID(ev, i) \notin seen /\ ev.type \notin {"reply", "delete"}
  BY <1>4 DEF B!Carried, ShownAreReplies
<1> QED
  BY <1>1, <1>2, <1>3, <1>4

\* A note read back is the note that is shown.
LEMMA ReadBack ==
  ASSUME ShownAreReplies, NEW n \in shown, B!Dereference(n)
  PROVE  UNCHANGED <<op, seen, shown, removed>>
<1>1. n = [url |-> n.url, of |-> n.of] /\ n.url = <<n.url[1], n.url[2]>>
  <2>1. PICK ev \in Script : n.url = <<n.of, B!ParentURL(ev)>>
    BY DEF ShownAreReplies
  <2>2. n.url[1] = n.of /\ n.url[2] = B!ParentURL(ev)
    BY <2>1
  <2> QED
    BY <2>1, <2>2 DEF ShownAreReplies
<1>2. PICK row \in node : /\ row[1] = n.url[1]
                          /\ shown' = shown \cup {[url |-> B!ServedURL(row, n.url), of |-> n.of]}
  BY DEF B!Dereference
<1>3. B!ServedURL(row, n.url) = n.url
  BY <1>1, <1>2 DEF B!ServedURL
<1> QED
  BY <1>1, <1>2, <1>3 DEF B!Dereference

\* What a handler is made of.
LEMMA HandlerParts ==
  ASSUME OpsTyped, NEW i \in DOMAIN op
  PROVE  /\ op \in Seq(Handler) /\ i \in 1..Len(op) /\ DOMAIN op = 1..Len(op)
         /\ op[i].ev \in Script /\ op[i].posts \in Nat
         /\ op[i] = [ev |-> op[i].ev, posts |-> op[i].posts, at |-> op[i].at]
<1>1. op \in Seq(Handler) /\ i \in 1..Len(op) /\ DOMAIN op = 1..Len(op)
  BY DEF OpsTyped
<1>2. op[i] \in Handler
  BY <1>1
<1> QED
  BY <1>1, <1>2 DEF Handler

\* How the step of a handler may leave it.
LEMMA HandlerStep ==
  ASSUME OpsTyped, SuccessIsDelivered, NEW i \in DOMAIN op,
         NEW w \in {"refused", "resolve", "post", "ok", "error"}, NEW k \in Nat,
         op' = [op EXCEPT ![i] = [ev |-> op[i].ev, posts |-> k, at |-> w]],
         seen \subseteq seen',
         w = "ok" => op[i].ev.type = "follow" \/ B!ActivityID(op[i].ev, i) \in seen'
  PROVE  (OpsTyped /\ SuccessIsDelivered)'
<1> USE DEF B!SuccessIsDelivered, SuccessIsDelivered
<1> DEFINE h == [ev |-> op[i].ev, posts |-> k, at |-> w]
<1>1. op \in Seq(Handler) /\ i \in 1..Len(op) /\ h \in Handler /\ DOMAIN op = 1..Len(op)
  BY HandlerParts DEF Handler
<1>2. /\ op' \in Seq(Handler) /\ Len(op') = Len(op)
      /\ \A j \in 1..Len(op) : op'[j] = IF j = i THEN h ELSE op[j]
  BY <1>1, ExceptSeq
<1>3. DOMAIN op' = DOMAIN op
  BY <1>1, <1>2
<1>4. \A j \in DOMAIN op : op'[j].ev = op[j].ev /\ (j # i => op'[j].at = op[j].at)
  BY <1>1, <1>2
<1>5. op'[i].at = w
  BY <1>1, <1>2
<1>6. ASSUME NEW j \in DOMAIN op', B!At(j, "ok")', ~B!Dropped(op'[j].ev), op'[j].ev.type # "follow"
      PROVE  B!ActivityID(op'[j].ev, j) \in seen'
  <2>1. CASE j = i
    BY <1>1, <1>3, <1>4, <1>5, <1>6, <2>1 DEF B!At
  <2>2. CASE j # i
    BY <1>3, <1>4, <1>6, <2>2 DEF B!At
  <2> QED
    BY <2>1, <2>2
<1> QED
  BY <1>2, <1>6 DEF OpsTyped

\* The steps of members, handlers and the remote server keep the invariant.
LEMMA BwStep ==
  ASSUME BwInv, [B!BwNext]_(B!bwVars)
  PROVE  BwInv'
<1>1. ASSUME NEW ev \in Script, B!Send(ev)
      PROVE  BwInv'
  <2>1. PICK w \in {"refused", "resolve", "ok"} :
          /\ op' = Append(op, [ev |-> ev, posts |-> 0, at |-> w])
          /\ w = "ok" => B!Dropped(ev)
    BY <1>1 DEF B!Send, B!Dispatched
  <2>2. UNCHANGED <<seen, shown, removed>>
    BY <1>1 DEF B!Send, B!NotCarried
  <2>3. /\ op \in Seq(Handler) /\ [ev |-> ev, posts |-> 0, at |-> w] \in Handler
        /\ DOMAIN op = 1..Len(op)
    BY DEF BwInv, OpsTyped, Handler
  <2>4. /\ op' \in Seq(Handler) /\ DOMAIN op' = 1..(Len(op) + 1)
        /\ op'[Len(op) + 1] = [ev |-> ev, posts |-> 0, at |-> w]
        /\ \A j \in 1..Len(op) : op'[j] = op[j]
    BY <2>1, <2>3
  <2>5. \A j \in DOMAIN op' : \/ j \in DOMAIN op /\ op'[j] = op[j]
                              \/ op'[j].ev = ev /\ op'[j].at = w
    BY <2>3, <2>4
  <2>6. SuccessIsDelivered'
    BY <2>1, <2>2, <2>5 DEF BwInv, SuccessIsDelivered, B!SuccessIsDelivered, B!At
  <2>7. (ShownAreReplies /\ RepliesMirrored)'
    BY <2>2 DEF BwInv, ShownAreReplies, RepliesMirrored, B!RepliesMirrored
  <2> QED
    BY <2>4, <2>6, <2>7 DEF BwInv, OpsTyped
<1>2. ASSUME NEW i \in DOMAIN op, B!Resolve(i) \/ B!postSigned(i)
      PROVE  BwInv'
  <2>1. /\ OpsTyped /\ SuccessIsDelivered /\ ShownAreReplies /\ RepliesMirrored
        /\ op[i].ev \in Script /\ op[i].posts \in Nat
        /\ op[i] = [ev |-> op[i].ev, posts |-> op[i].posts, at |-> op[i].at]
        /\ i \in Nat \ {0}
    BY HandlerParts DEF BwInv
  <2>2. \A w : B!Goes(i, w) =>
          op' = [op EXCEPT ![i] = [ev |-> op[i].ev, posts |-> op[i].posts, at |-> w]]
    BY <2>1 DEF B!Goes
  <2>3. B!PostAgain(i) =>
          \/ op' = [op EXCEPT ![i] = [ev |-> op[i].ev, posts |-> op[i].posts + 1, at |-> op[i].at]]
          \/ B!Failed(i)
    BY <2>1 DEF B!PostAgain
  <2>4. B!Failed(i) =>
          \E w \in {"ok", "error"} : /\ B!Goes(i, w)
                                     /\ w = "ok" => op[i].ev.type = "follow"
    BY DEF B!Failed
  <2>5. op[i].posts + 1 \in Nat
    BY <2>1
  <2>6. \/ UNCHANGED <<seen, shown, removed>>
        \/ B!Carried(op[i].ev, i)
    BY <1>2 DEF B!Resolve, B!postSigned, B!Accepted, B!AnswerLost, B!NotReached, B!Rejected,
       B!NotCarried
  <2>7. seen \subseteq seen' /\ (ShownAreReplies /\ RepliesMirrored)'
    <3>1. CASE UNCHANGED <<seen, shown, removed>>
      BY <2>1, <3>1 DEF ShownAreReplies, RepliesMirrored, B!RepliesMirrored
    <3>2. CASE B!Carried(op[i].ev, i)
      BY <2>1, <3>2, CarryOut
    <3> QED
      BY <2>6, <3>1, <3>2
  <2>8. \E w \in {"refused", "resolve", "post", "ok", "error"}, k \in Nat :
          /\ op' = [op EXCEPT ![i] = [ev |-> op[i].ev, posts |-> k, at |-> w]]
          /\ w = "ok" => op[i].ev.type = "follow" \/ B!ActivityID(op[i].ev, i) \in seen'
    <3>1. CASE B!Resolve(i)
      BY <2>1, <2>2, <3>1 DEF B!Resolve
    <3>2. CASE B!Accepted(i)
      <4>1. B!Goes(i, "ok") /\ B!ActivityID(op[i].ev, i) \in seen'
        BY <2>1, <3>2, CarryOut DEF B!Accepted
      <4> QED
        BY <2>1, <2>2, <4>1
    <3>3. CASE B!AnswerLost(i) \/ B!NotReached(i) \/ B!Rejected(i)
      <4>1. op[i].at = "post" /\ (B!PostAgain(i) \/ B!Failed(i))
        BY <3>3 DEF B!AnswerLost, B!NotReached, B!Rejected, B!At
      <4>2. CASE B!Failed(i)
        BY <2>1, <2>2, <2>4, <4>2
      <4>3. CASE ~B!Failed(i)
        BY <2>1, <2>3, <2>5, <4>1, <4>3
      <4> QED
        BY <4>2, <4>3
    <3> QED
      BY <1>2, <3>1, <3>2, <3>3 DEF B!postSigned
  <2>9. (OpsTyped /\ SuccessIsDelivered)'
    BY <2>1, <2>7, <2>8, HandlerStep
  <2> QED
    BY <2>7, <2>9 DEF BwInv
<1>3. ASSUME NEW n \in shown, B!Dereference(n)
      PROVE  BwInv'
  <2>1. UNCHANGED <<op, seen, shown, removed>>
    BY <1>3, ReadBack DEF BwInv
  <2> QED
    BY <2>1 DEF BwInv, OpsTyped, SuccessIsDelivered, B!SuccessIsDelivered, B!At, ShownAreReplies,
       RepliesMirrored, B!RepliesMirrored
<1>4. CASE UNCHANGED B!bwVars
  BY <1>4 DEF B!bwVars, BwInv, OpsTyped, SuccessIsDelivered, B!SuccessIsDelivered, B!At,
     ShownAreReplies, RepliesMirrored, B!RepliesMirrored
<1> QED
  BY <1>1, <1>2, <1>3, <1>4 DEF B!BwNext

\* The invariant of the members' writes holds in every reachable state.
LEMMA BwInvariance == Spec => []BwInv
<1>1. Init => BwInv
  BY DEF Init, B!BwInit, BwInv, OpsTyped, SuccessIsDelivered, B!SuccessIsDelivered,
     ShownAreReplies, RepliesMirrored, B!RepliesMirrored
<1>2. BwInv /\ [Next]_vars => BwInv'
  BY BwStep, Parts
<1> QED
  BY <1>1, <1>2, PTL DEF Spec

\* A member is told of a success only when the remote server has carried out the
\* write, for any events and any number of repetitions and lost answers, except
\* what is dropped on purpose and Follow (postSigned, streamHandler).
THEOREM SuccessMeansDelivered == Spec => []SuccessIsDelivered
<1>1. BwInv => SuccessIsDelivered
  BY DEF BwInv
<1> QED
  BY <1>1, BwInvariance, PTL

\* The remote server shows a reply once, and not after its Delete was carried out
\* after its Create, for any replies, provided Reply and Delete events of one reply
\* agree on its parent (Reply, Delete, serveStatus name one note).
THEOREM RepliesShownOnce == Spec => []RepliesMirrored
<1>1. BwInv => RepliesMirrored
  BY DEF BwInv
<1> QED
  BY <1>1, BwInvariance, PTL

-----------------------------------------------------------------------------
(* What Fediverse accounts do to our statuses. *)

\* The forward of an activity by its own author.
Signed(act, n) ==
  [event |-> I!translateInbound(act, n), act |-> act, n |-> n, author |-> act.actor]

\* Forwards, and the rows they left, are of such activities.
InInv ==
  /\ accepted \in Nat
  /\ \A f \in forwards : \E act \in Acts, n \in Nat :
       f = Signed(act, n) /\ I!translateInbound(act, n) # I!NotHandled
  /\ \A r \in rows : \E act \in Acts, n \in Nat :
       r = I!Row(Signed(act, n)) /\ I!translateInbound(act, n) # I!NotHandled

\* A request that passes all the checks was not altered and comes from the actor.
LEMMA AdmittedIsSigned ==
  ASSUME NEW w \in I!Wires, NEW act, I!Admits(w, act)
  PROVE  ~w.altered /\ w.signer = act.actor
BY DEF I!Wires, I!Admits, I!verifyRequest

\* An event is about a status that the activity names, by its actor.
LEMMA EventIsNamed ==
  ASSUME NEW act \in Acts, NEW n, I!translateInbound(act, n) # I!NotHandled
  PROVE  LET event == I!translateInbound(act, n)
         IN /\ event.by = act.actor
            /\ [owner |-> event.user, id |-> event.tweet] \in I!Named(act)
<1> DEFINE event == I!translateInbound(act, n)
<1> USE DEF I!Event
<1>1. CASE act.type # "create"
  <2>1. event = I!Event(act.type, act.object, act.actor, <<"tweet", act.object.id>>)
    BY <1>1 DEF I!translateInbound
  <2>2. act.object = [owner |-> act.object.owner, id |-> act.object.id]
    BY <1>1, ActsAssumption DEF IsStatus
  <2>3. event.by = act.actor /\ event.user = act.object.owner /\ event.tweet = act.object.id
    BY <2>1
  <2> QED
    BY <1>1, <2>2, <2>3 DEF I!Named
<1>2. CASE act.type = "create"
  <2> DEFINE note == act.note
  <2>1. event = I!translateCreate(act, n)
    BY <1>2 DEF I!translateInbound
  <2>2. IsStatus(note.inReplyTo) /\ IsStatus(note.quote) /\ IsStatus(note.reURL)
    BY <1>2, ActsAssumption
  <2>3. PICK url \in {note.inReplyTo, I!quotedNoteURL(note), I!splitREPrefix(note)} :
          /\ I!parseLocalStatus(url)
          /\ event.by = act.actor /\ event.user = url.owner /\ event.tweet = url.id
    BY <2>1 DEF I!translateCreate
  <2>4. url \in {note.inReplyTo, note.quote, note.reURL}
    BY <2>3 DEF I!parseLocalStatus, I!quotedNoteURL, I!splitREQuote, I!splitREPrefix
  <2>5. url = [owner |-> url.owner, id |-> url.id]
    BY <2>2, <2>4 DEF IsStatus
  <2> QED
    BY <1>2, <2>3, <2>4, <2>5 DEF I!Named
<1> QED
  BY <1>1, <1>2

\* A note with an id or a url is translated the same way every time.
LEMMA TranslatedAlike ==
  ASSUME NEW act, NEW m, NEW n, act.type = "create",
         act.note.id # "none" \/ act.note.url # "none"
  PROVE  I!translateInbound(act, m) = I!translateInbound(act, n)
<1>1. I!ingestedNoteID(act.note, m) = I!ingestedNoteID(act.note, n)
  BY DEF I!ingestedNoteID
<1>2. I!translateCreate(act, m) = I!translateCreate(act, n)
  BY <1>1 DEF I!translateCreate
<1> QED
  BY <1>2 DEF I!translateInbound

\* Only notes become replies.
LEMMA RepliesAreNotes ==
  ASSUME NEW act \in Acts, NEW n, I!translateInbound(act, n) # I!NotHandled,
         I!Row(Signed(act, n)).kind = "reply"
  PROVE  act.type = "create"
<1> SUFFICES ASSUME act.type # "create" PROVE FALSE
  OBVIOUS
<1>1. /\ act.type \in {"like", "announce", "undo-like", "undo-announce"}
      /\ I!translateInbound(act, n).route = act.type
  BY DEF I!translateInbound, I!Event
<1> QED
  BY <1>1 DEF I!Row, Signed

\* Posts, forwards and losses keep the invariant.
LEMMA InStep ==
  ASSUME InInv, [I!InNext]_(I!inVars)
  PROVE  InInv'
<1>1. ASSUME NEW w \in I!Wires, NEW act \in Acts, I!Receive(w, act)
      PROVE  InInv'
  <2>1. ~w.altered /\ w.signer = act.actor
    BY <1>1, AdmittedIsSigned DEF I!Receive
  <2>2. /\ forwards' = forwards \cup {Signed(act, accepted)}
        /\ I!translateInbound(act, accepted) # I!NotHandled
        /\ accepted' = accepted + 1 /\ rows' = rows
    BY <1>1, <2>1 DEF I!Receive, Signed
  <2> QED
    BY <2>2 DEF InInv
<1>2. ASSUME NEW f \in forwards, I!Forward(f) \/ I!Lose(f)
      PROVE  InInv'
  <2>1. forwards' \subseteq forwards /\ accepted' = accepted /\ rows' \subseteq rows \cup {I!Row(f)}
    BY <1>2 DEF I!Forward, I!Lose
  <2>2. PICK act \in Acts, n \in Nat :
          f = Signed(act, n) /\ I!translateInbound(act, n) # I!NotHandled
    BY DEF InInv
  <2>3. \A r \in rows' : r \in rows \/ r = I!Row(Signed(act, n))
    BY <2>1, <2>2
  <2> QED
    BY <2>1, <2>2, <2>3 DEF InInv
<1>3. CASE UNCHANGED I!inVars
  BY <1>3 DEF InInv, I!inVars
<1> QED
  BY <1>1, <1>2, <1>3 DEF I!InNext

\* The invariant of the inbox holds in every reachable state.
LEMMA InInvariance == Spec => []InInv
<1>1. Init => InInv
  BY DEF Init, I!InInit, InInv
<1>2. InInv /\ [Next]_vars => InInv'
  BY InStep, Parts
<1> QED
  BY <1>1, <1>2, PTL DEF Spec

\* Whatever an owner's node stores was written by the account it is booked to,
\* arrived unaltered, and is about a status that the activity names, for any
\* accounts, activities and orders of forwarding (verifyRequest, handleInbox,
\* translateInbound).
THEOREM StoredIsGenuine == Spec => []RowsAreGenuine
<1>1. InInv => RowsAreGenuine
  <2> SUFFICES ASSUME InInv, NEW r \in rows
               PROVE  /\ r.by = r.author
                      /\ [owner |-> r.node, id |-> r.tweet] \in I!Named(r.act)
    BY DEF RowsAreGenuine, I!RowsAreGenuine
  <2>1. PICK act \in Acts, n \in Nat :
          r = I!Row(Signed(act, n)) /\ I!translateInbound(act, n) # I!NotHandled
    BY DEF InInv
  <2>2. /\ r.by = I!translateInbound(act, n).by /\ r.author = act.actor /\ r.act = act
        /\ r.node = I!translateInbound(act, n).user /\ r.tweet = I!translateInbound(act, n).tweet
    BY <2>1 DEF I!Row, Signed
  <2> QED
    BY <2>1, <2>2, EventIsNamed
<1> QED
  BY <1>1, InInvariance, PTL

\* A note that has an id or a url is stored as one reply, however often and in
\* whatever order it is delivered (ingestedNoteID).
THEOREM NoteIsOneReply == Spec => []RepliesStoredOnce
<1>1. InInv => RepliesStoredOnce
  <2> SUFFICES ASSUME InInv, NEW r \in rows, NEW s \in rows, r.kind = "reply", r.act = s.act,
                      r.act.note.id # "none" \/ r.act.note.url # "none"
               PROVE  r = s
    BY DEF RepliesStoredOnce, I!RepliesStoredOnce
  <2>1. PICK act \in Acts, n \in Nat :
          r = I!Row(Signed(act, n)) /\ I!translateInbound(act, n) # I!NotHandled
    BY DEF InInv
  <2>2. PICK other \in Acts, m \in Nat : s = I!Row(Signed(other, m))
    BY DEF InInv
  <2>3. r.act = act /\ s.act = other
    BY <2>1, <2>2 DEF I!Row, Signed
  <2>4. act = other /\ act.type = "create"
    BY <2>1, <2>3, RepliesAreNotes
  <2>5. I!translateInbound(act, n) = I!translateInbound(act, m)
    BY <2>3, <2>4, TranslatedAlike
  <2> QED
    BY <2>1, <2>2, <2>4, <2>5 DEF I!Row, Signed
<1> QED
  BY <1>1, InInvariance, PTL

-----------------------------------------------------------------------------
(* Selecting from a sequence. *)

\* Counting to n.
LEMMA Counting == \A n \in Nat : IsFiniteSet(1..n) /\ Cardinality(1..n) = n
<1> SUFFICES ASSUME NEW n \in Nat PROVE IsFiniteSet(1..n) /\ Cardinality(1..n) = n
  OBVIOUS
<1>1. IsFiniteSet(1..n) /\ Cardinality(1..n) = IF 1 > n THEN 0 ELSE n - 1 + 1
  BY FS_Interval
<1> QED
  BY <1>1

\* q lists the numbers of R in their order.
Lists(q, R) ==
  /\ q \in Seq(Int)
  /\ \A i, j \in 1..Len(q) : i < j => q[i] < q[j]
  /\ R = {q[i] : i \in 1..Len(q)}

\* The first k of them.
First(q, k) == {q[i] : i \in 1..k}

\* What a list is made of.
LEMMA ListParts ==
  ASSUME NEW q, NEW R, Lists(q, R)
  PROVE  /\ q \in Seq(Int) /\ Len(q) \in Nat
         /\ \A i \in 1..Len(q) : q[i] \in Int /\ q[i] \in R
         /\ \A x \in R : \E i \in 1..Len(q) : x = q[i]
         /\ \A i, k \in 1..Len(q) : i <= k <=> q[i] <= q[k]
<1>1. /\ q \in Seq(Int) /\ Len(q) \in Nat
      /\ \A i \in 1..Len(q) : q[i] \in Int /\ q[i] \in R
      /\ \A x \in R : \E i \in 1..Len(q) : x = q[i]
  BY DEF Lists
<1>2. ASSUME NEW i \in 1..Len(q), NEW k \in 1..Len(q)
      PROVE  i <= k <=> q[i] <= q[k]
  <2>1. i < k => q[i] < q[k]
    BY DEF Lists
  <2>2. k < i => q[k] < q[i]
    BY DEF Lists
  <2>3. q[i] \in Int /\ q[k] \in Int /\ i \in Int /\ k \in Int
    BY <1>1
  <2>4. i = k => q[i] = q[k]
    OBVIOUS
  <2> QED
    BY <2>1, <2>2, <2>3, <2>4
<1> QED
  BY <1>1, <1>2

\* Up to the k-th of them there are k.
LEMMA ListCounts ==
  ASSUME NEW q, NEW R, Lists(q, R), NEW k \in 0..Len(q)
  PROVE  IsFiniteSet(First(q, k)) /\ Cardinality(First(q, k)) = k
<1> DEFINE f == [i \in 1..k |-> q[i]]
<1>1. k \in Nat /\ Len(q) \in Nat /\ \A i \in 1..k : i \in 1..Len(q) /\ q[i] \in Int
  BY ListParts
<1>2. \A i, j \in 1..k : f[i] = f[j] => i = j
  <2> SUFFICES ASSUME NEW i \in 1..k, NEW j \in 1..k, q[i] = q[j] PROVE i = j
    OBVIOUS
  <2>1. i <= j /\ j <= i
    BY <1>1, ListParts
  <2> QED
    BY <2>1
<1>3. f \in [1..k -> First(q, k)] /\ DOMAIN f = 1..k /\ \A x \in First(q, k) : \E i \in 1..k : f[i] = x
  BY DEF First
<1> HIDE DEF f
<1>4. f \in Bijection(1..k, First(q, k))
  BY <1>2, <1>3 DEF Bijection, Injection, Surjection, IsInjective
<1>5. ExistsBijection(1..k, First(q, k))
  BY <1>4 DEF ExistsBijection
<1>6. IsFiniteSet(1..k) /\ Cardinality(1..k) = k
  BY <1>1, Counting
<1> QED
  BY <1>5, <1>6, FS_Bijection

\* They are those that do not exceed the k-th.
LEMMA FirstAreSmallest ==
  ASSUME NEW q, NEW R, Lists(q, R), NEW k \in 1..Len(q)
  PROVE  First(q, k) = {x \in R : x <= q[k]}
<1>1. k \in Nat /\ Len(q) \in Nat /\ \A i \in 1..k : i \in 1..Len(q) /\ i <= k
  BY ListParts
<1>2. \A i \in 1..k : q[i] \in R /\ q[i] <= q[k]
  BY <1>1, ListParts
<1>3. ASSUME NEW x \in R, x <= q[k] PROVE \E i \in 1..k : x = q[i]
  <2>1. PICK i \in 1..Len(q) : x = q[i]
    BY ListParts
  <2>2. i <= k
    BY <1>3, <2>1, ListParts
  <2> QED
    BY <1>1, <2>1, <2>2
<1> QED
  BY <1>2, <1>3 DEF First

\* Sets of numbers are listed in one way.
LEMMA ListedOnce ==
  ASSUME NEW p, NEW q, NEW R, Lists(p, R), Lists(q, R)
  PROVE  p = q
<1>1. p \in Seq(Int) /\ q \in Seq(Int) /\ Len(p) \in Nat /\ Len(q) \in Nat
  BY ListParts
<1>2. First(p, Len(p)) = R /\ First(q, Len(q)) = R
  BY DEF Lists, First
<1>3. Len(p) \in 0..Len(p) /\ Len(q) \in 0..Len(q)
  BY <1>1
<1>4. Cardinality(First(p, Len(p))) = Len(p) /\ Cardinality(First(q, Len(q))) = Len(q)
  BY <1>3, ListCounts
<1>5. Len(p) = Len(q)
  BY <1>2, <1>4
<1>6. ASSUME NEW k \in 1..Len(p) PROVE p[k] = q[k]
  <2>1. PICK l \in 1..Len(q) : p[k] = q[l]
    BY ListParts
  <2>2. First(p, k) = First(q, l)
    <3>1. First(p, k) = {x \in R : x <= p[k]}
      BY FirstAreSmallest
    <3>2. First(q, l) = {x \in R : x <= q[l]}
      BY FirstAreSmallest
    <3> QED
      BY <2>1, <3>1, <3>2
  <2>3. k \in 0..Len(p) /\ l \in 0..Len(q)
    BY <1>1
  <2>4. Cardinality(First(p, k)) = k /\ Cardinality(First(q, l)) = l
    BY <2>3, ListCounts
  <2> QED
    BY <2>1, <2>2, <2>4
<1> QED
  BY <1>1, <1>5, <1>6, SeqEqual

\* The indices that a selection keeps.
Kept(s, S) == {i \in 1..Len(s) : s[i] \in S}

\* Selected takes the elements at the indices it keeps, in their order.
LEMMA SelectedFacts ==
  ASSUME NEW E, NEW s \in Seq(E), NEW S
  PROVE  /\ Selected(s, S) \in Seq(E)
         /\ \E f : /\ Lists(f, Kept(s, S))
                   /\ Len(f) = Len(Selected(s, S))
                   /\ \A k \in 1..Len(f) : f[k] \in Kept(s, S) /\ Selected(s, S)[k] = s[f[k]]
<1> DEFINE at == Kept(s, S)
           Upto(i) == {j \in at : j <= i}
           n == Cardinality(at)
           rank == [i \in at |-> Cardinality(Upto(i))]
           index(k) == CHOOSE i \in at : Cardinality(Upto(i)) = k
           f == [k \in 1..n |-> index(k)]
           t == Selected(s, S)
<1>1. DOMAIN s = 1..Len(s) /\ Len(s) \in Nat /\ at \subseteq 1..Len(s)
      /\ \A i \in at : i \in Nat
  BY DEF Kept
<1>2. t = [k \in 1..n |-> s[index(k)]]
  BY <1>1 DEF Selected, Kept
<1>3. IsFiniteSet(at) /\ n \in Nat
  <2>1. IsFiniteSet(1..Len(s))
    BY <1>1, Counting
  <2> HIDE DEF at
  <2> QED
    BY <1>1, <2>1, FS_Subset, FS_CardinalityType
<1> HIDE DEF at, t, index
<1>4. ASSUME NEW i \in at
      PROVE  /\ IsFiniteSet(Upto(i)) /\ Cardinality(Upto(i)) \in 1..n
             /\ Cardinality(Upto(i)) \in Nat
  <2>1. Upto(i) \subseteq at /\ i \in Upto(i)
    BY <1>1
  <2> HIDE DEF Upto
  <2>2. IsFiniteSet(Upto(i)) /\ Cardinality(Upto(i)) <= n
    BY <1>3, <2>1, FS_Subset
  <2>3. Cardinality(Upto(i)) \in Nat /\ Cardinality(Upto(i)) # 0
    BY <2>1, <2>2, FS_CardinalityType, FS_EmptySet
  <2> QED
    BY <1>3, <2>2, <2>3
<1>5. ASSUME NEW i \in at, NEW j \in at, i < j
      PROVE  Cardinality(Upto(i)) < Cardinality(Upto(j))
  <2>1. Upto(i) \subseteq Upto(j) /\ j \in Upto(j) /\ j \notin Upto(i)
    <3>1. i \in Nat /\ j \in Nat /\ \A m \in at : m \in Nat
      BY <1>1
    <3>2. j <= j /\ ~(j <= i) /\ \A m \in at : m <= i => m <= j
      BY <1>5, <3>1
    <3> QED
      BY <3>2
  <2>2. Cardinality(Upto(i)) \in Nat /\ Cardinality(Upto(j)) \in Nat /\ IsFiniteSet(Upto(j))
    BY <1>4
  <2> HIDE DEF Upto
  <2>3. Cardinality(Upto(i)) <= Cardinality(Upto(j)) /\ Cardinality(Upto(j)) # Cardinality(Upto(i))
    BY <2>1, <2>2, FS_Subset
  <2> QED
    BY <2>2, <2>3
<1>6. rank \in Injection(at, 1..n)
  <2>1. rank \in [at -> 1..n]
    BY <1>4
  <2>2. ASSUME NEW i \in at, NEW j \in at, rank[i] = rank[j] PROVE i = j
    <3>1. rank[i] = Cardinality(Upto(i)) /\ rank[j] = Cardinality(Upto(j)) /\ i \in Nat /\ j \in Nat
      BY <1>1
    <3>2. Cardinality(Upto(i)) \in Nat /\ Cardinality(Upto(j)) \in Nat
      BY <1>4
    <3>3. (i < j => rank[i] < rank[j]) /\ (j < i => rank[j] < rank[i])
      BY <1>5, <3>1
    <3>4. rank[i] \in Nat /\ rank[j] \in Nat
      BY <3>1, <3>2
    <3> HIDE DEF rank, Upto
    <3> QED
      BY <2>2, <3>1, <3>3, <3>4
  <2> HIDE DEF rank
  <2> QED
    BY <2>1, <2>2 DEF Injection, IsInjective
<1>7. rank \in Surjection(at, 1..n)
  <2>1. IsFiniteSet(1..n) /\ Cardinality(1..n) = n
    BY <1>3, Counting
  <2> HIDE DEF rank
  <2> QED
    BY <1>6, <2>1, FS_Injection
<1>8. \A k \in 1..n : f[k] \in at /\ Cardinality(Upto(f[k])) = k
  <2> SUFFICES ASSUME NEW k \in 1..n PROVE f[k] \in at /\ Cardinality(Upto(f[k])) = k
    OBVIOUS
  <2>1. \E i \in at : rank[i] = k
    <3> HIDE DEF rank
    <3> QED
      BY <1>7 DEF Surjection
  <2>2. \E i \in at : Cardinality(Upto(i)) = k
    BY <2>1
  <2>3. f[k] = index(k)
    OBVIOUS
  <2> HIDE DEF f, rank
  <2> QED
    BY <2>2, <2>3 DEF index
<1>9. f \in [1..n -> at] /\ f \in Seq(Int) /\ Len(f) = n
  <2> HIDE DEF n
  <2>1. f = [k \in 1..n |-> f[k]]
    OBVIOUS
  <2> HIDE DEF f
  <2>2. f \in [1..n -> at]
    BY <1>8, <2>1
  <2>3. \A i \in at : i \in Int
    BY <1>1
  <2>4. f \in [1..n -> Int]
    BY <2>2, <2>3
  <2> QED
    BY <1>3, <2>2, <2>4
<1>10. t = [k \in 1..n |-> s[f[k]]]
  BY <1>2
<1> HIDE DEF f, rank
<1>11. ASSUME NEW k \in 1..n, NEW l \in 1..n, k < l PROVE f[k] < f[l]
  <2>1. f[k] \in at /\ f[l] \in at /\ Cardinality(Upto(f[k])) = k /\ Cardinality(Upto(f[l])) = l
    BY <1>8
  <2>2. f[k] \in Nat /\ f[l] \in Nat
    BY <1>1, <2>1
  <2> HIDE DEF Upto
  <2>3. f[k] # f[l] /\ ~(f[l] < f[k])
    BY <1>3, <1>5, <1>11, <2>1
  <2> QED
    BY <2>2, <2>3
<1>12. at = {f[k] : k \in 1..n}
  <2>1. ASSUME NEW i \in at PROVE \E k \in 1..n : i = f[k]
    <3>1. rank[i] \in 1..n /\ rank[i] = Cardinality(Upto(i))
      BY <1>4 DEF rank
    <3>2. f[rank[i]] \in at /\ Cardinality(Upto(f[rank[i]])) = rank[i]
      BY <1>8, <3>1
    <3>3. rank[f[rank[i]]] = rank[i]
      BY <3>2 DEF rank
    <3>4. f[rank[i]] = i
      BY <1>6, <3>2, <3>3 DEF Injection, IsInjective
    <3> QED
      BY <3>1, <3>4
  <2> QED
    BY <1>8, <2>1
<1>13. t \in Seq(E) /\ Len(t) = n /\ \A k \in 1..n : t[k] = s[f[k]]
  <2> HIDE DEF n
  <2>1. \A k \in 1..n : s[f[k]] \in E
    <3>1. \A i \in 1..Len(s) : s[i] \in E
      OBVIOUS
    <3> QED
      BY <1>1, <1>8, <3>1
  <2>2. t \in [1..n -> E]
    BY <1>10, <2>1
  <2> QED
    BY <1>3, <1>10, <2>2
<1>14. Lists(f, at) /\ Len(f) = Len(t) /\ \A k \in 1..Len(f) : f[k] \in at /\ t[k] = s[f[k]]
  BY <1>8, <1>9, <1>11, <1>12, <1>13 DEF Lists
<1> QED
  BY <1>13, <1>14 DEF at, t

\* The instances select alike.
LEMMA SelectAlike ==
  \A s, S : D!Selected(s, S) = Selected(s, S) /\ T!Selected(s, S) = Selected(s, S)
            /\ F!Selected(s, S) = Selected(s, S)
BY DEF Selected, D!Selected, T!Selected, F!Selected, Cardinality, D!Cardinality, T!Cardinality,
   F!Cardinality

-----------------------------------------------------------------------------
(* The follower list. *)

\* Positions of the bridged followers up to one.
BridgedUpTo(n) == {i \in 1..n : i <= Len(graph.list) /\ graph.list[i] = "bridged"}

\* While a list is read, the urls found are the bridged followers of the pages
\* read so far; the next one may be empty.
ListInv ==
  /\ graph.list \in Seq(F!Followers) /\ graph.ends \in F!Ends
  /\ walk.at = "reading" =>
       /\ walk.pages \in Nat /\ walk.cursor = walk.pages * PageSize
       /\ Lists(walk.urls, BridgedUpTo(walk.cursor))
  /\ walk.at = "done" =>
       \/ Lists(walk.urls, BridgedUpTo(Len(graph.list)))
       \/ Len(graph.list) > PageSize * ListPages

\* Where the elements of two sequences are when one follows the other.
LEMMA ConcatParts ==
  ASSUME NEW E, NEW p \in Seq(E), NEW q \in Seq(E)
  PROVE  /\ p \o q \in Seq(E) /\ Len(p \o q) = Len(p) + Len(q)
         /\ \A i \in 1..Len(p) : i \in 1..Len(p \o q) /\ (p \o q)[i] = p[i]
         /\ \A i \in 1..Len(q) :
              i + Len(p) \in 1..Len(p \o q) /\ (p \o q)[i + Len(p)] = q[i]
         /\ \A i \in 1..Len(p \o q) :
              \/ i \in 1..Len(p) /\ (p \o q)[i] = p[i]
              \/ \E j \in 1..Len(q) : i = j + Len(p) /\ (p \o q)[i] = q[j]
<1> DEFINE r == p \o q
<1>1. Len(p) \in Nat /\ Len(q) \in Nat
  OBVIOUS
<1>2. /\ r \in Seq(E) /\ Len(r) = Len(p) + Len(q)
      /\ \A i \in 1..Len(r) : r[i] = IF i <= Len(p) THEN p[i] ELSE q[i - Len(p)]
  OBVIOUS
<1> HIDE DEF r
<1>3. \A i \in 1..Len(p) : i \in 1..Len(r) /\ r[i] = p[i]
  BY <1>1, <1>2
<1>4. ASSUME NEW i \in 1..Len(q)
      PROVE  i + Len(p) \in 1..Len(r) /\ r[i + Len(p)] = q[i]
  <2>1. i + Len(p) \in 1..Len(r) /\ ~(i + Len(p) <= Len(p)) /\ (i + Len(p)) - Len(p) = i
    BY <1>1, <1>2
  <2>2. r[i + Len(p)] = q[(i + Len(p)) - Len(p)]
    BY <1>2, <2>1
  <2> QED
    BY <2>1, <2>2
<1>5. ASSUME NEW i \in 1..Len(r)
      PROVE  \/ i \in 1..Len(p) /\ r[i] = p[i]
             \/ \E j \in 1..Len(q) : i = j + Len(p) /\ r[i] = q[j]
  <2>1. CASE i <= Len(p)
    <3>1. i \in 1..Len(p)
      BY <1>1, <1>2, <2>1
    <3> QED
      BY <1>3, <3>1
  <2>2. CASE ~(i <= Len(p))
    <3>1. i - Len(p) \in 1..Len(q) /\ i = (i - Len(p)) + Len(p)
      BY <1>1, <1>2, <2>2
    <3> QED
      BY <1>4, <3>1
  <2> QED
    BY <2>1, <2>2
<1> QED
  BY <1>2, <1>3, <1>4, <1>5 DEF r

\* Two lists of numbers, one after the other, list both sets.
LEMMA ListsJoin ==
  ASSUME NEW p, NEW q, NEW P, NEW Q, Lists(p, P), Lists(q, Q), \A x \in P, y \in Q : x < y
  PROVE  Lists(p \o q, P \cup Q)
<1> DEFINE r == p \o q
<1>1. /\ p \in Seq(Int) /\ Len(p) \in Nat /\ q \in Seq(Int) /\ Len(q) \in Nat
      /\ \A i \in 1..Len(p) : p[i] \in P
      /\ \A i \in 1..Len(q) : q[i] \in Q
  BY ListParts
<1>2. /\ r \in Seq(Int)
      /\ \A i \in 1..Len(p) : i \in 1..Len(r) /\ r[i] = p[i]
      /\ \A i \in 1..Len(q) : i + Len(p) \in 1..Len(r) /\ r[i + Len(p)] = q[i]
      /\ \A i \in 1..Len(r) : \/ i \in 1..Len(p) /\ r[i] = p[i]
                             \/ \E j \in 1..Len(q) : i = j + Len(p) /\ r[i] = q[j]
  BY <1>1, ConcatParts
<1> HIDE DEF r
<1>3. ASSUME NEW i \in 1..Len(r), NEW j \in 1..Len(r), i < j PROVE r[i] < r[j]
  <2>1. CASE i \in 1..Len(p) /\ r[i] = p[i] /\ j \in 1..Len(p) /\ r[j] = p[j]
    BY <1>3, <2>1 DEF Lists
  <2>2. CASE i \in 1..Len(p) /\ r[i] = p[i] /\ \E l \in 1..Len(q) : r[j] = q[l]
    BY <1>1, <2>2
  <2>3. CASE \E k \in 1..Len(q) : i = k + Len(p) /\ r[i] = q[k]
    <3>1. PICK k \in 1..Len(q) : i = k + Len(p) /\ r[i] = q[k]
      BY <2>3
    <3>2. j \notin 1..Len(p)
      BY <1>1, <1>3, <3>1
    <3>3. PICK l \in 1..Len(q) : j = l + Len(p) /\ r[j] = q[l]
      BY <1>2, <3>2
    <3>4. k < l
      BY <1>1, <1>3, <3>1, <3>3
    <3> QED
      BY <3>1, <3>3, <3>4 DEF Lists
  <2> QED
    BY <1>2, <2>1, <2>2, <2>3
<1>4. \A i \in 1..Len(r) : r[i] \in P \cup Q
  BY <1>1, <1>2
<1>5. \A x \in P \cup Q : \E i \in 1..Len(r) : x = r[i]
  <2>1. ASSUME NEW x \in P PROVE \E i \in 1..Len(r) : x = r[i]
    <3>1. PICK i \in 1..Len(p) : x = p[i]
      BY ListParts
    <3>2. i \in 1..Len(r) /\ r[i] = p[i]
      BY <1>2
    <3> QED
      BY <3>1, <3>2
  <2>2. ASSUME NEW x \in Q PROVE \E i \in 1..Len(r) : x = r[i]
    <3>1. PICK i \in 1..Len(q) : x = q[i]
      BY ListParts
    <3>2. i + Len(p) \in 1..Len(r) /\ r[i + Len(p)] = q[i]
      BY <1>2
    <3> QED
      BY <3>1, <3>2
  <2> QED
    BY <2>1, <2>2
<1>6. P \cup Q = {r[i] : i \in 1..Len(r)}
  BY <1>4, <1>5
<1> QED
  BY <1>2, <1>3, <1>6 DEF Lists, r

\* Numbers selected from consecutive ones are listed.
LEMMA SelectedNumbers ==
  ASSUME NEW a \in Nat, NEW n \in Nat, NEW S \in SUBSET ((a + 1)..(a + n))
  PROVE  Lists(Selected([i \in 1..n |-> a + i], S), S)
<1> DEFINE s == [i \in 1..n |-> a + i]
           t == Selected(s, S)
           kept == Kept(s, S)
<1>1. s \in Seq(Int) /\ Len(s) = n /\ \A i \in 1..n : s[i] = a + i
  <2>1. s \in [1..n -> Int]
    OBVIOUS
  <2> QED
    BY <2>1
<1> HIDE DEF s
<1>2. t \in Seq(Int)
  BY <1>1, SelectedFacts
<1>3. PICK f : /\ Lists(f, kept) /\ Len(f) = Len(t)
               /\ \A k \in 1..Len(f) : f[k] \in kept /\ t[k] = s[f[k]]
  BY <1>1, SelectedFacts
<1> HIDE DEF t
<1>4. \A k \in 1..Len(t) : f[k] \in 1..n /\ t[k] = a + f[k] /\ t[k] \in S
  BY <1>1, <1>3 DEF Kept
<1>5. \A i, j \in 1..Len(t) : i < j => t[i] < t[j]
  <2> SUFFICES ASSUME NEW i \in 1..Len(t), NEW j \in 1..Len(t), i < j PROVE t[i] < t[j]
    OBVIOUS
  <2>1. f[i] < f[j]
    BY <1>3 DEF Lists
  <2>2. f[i] \in Int /\ f[j] \in Int
    BY <1>4
  <2> QED
    BY <1>4, <2>1, <2>2
<1>6. ASSUME NEW x \in S PROVE \E k \in 1..Len(t) : x = t[k]
  <2>1. x - a \in 1..n /\ a + (x - a) = x
    OBVIOUS
  <2>2. x - a \in kept
    BY <1>1, <2>1 DEF Kept
  <2>3. \A y \in kept : \E k \in 1..Len(f) : y = f[k]
    BY <1>3, ListParts
  <2>4. PICK k \in 1..Len(f) : x - a = f[k]
    BY <2>2, <2>3
  <2> QED
    BY <1>3, <1>4, <2>1, <2>4
<1>7. S = {t[k] : k \in 1..Len(t)}
  BY <1>4, <1>6
<1> QED
  BY <1>2, <1>5, <1>7 DEF Lists, t, s

\* A page beyond the end of the list is the last one and adds nothing.
LEMMA EmptyPageStep ==
  ASSUME ListInv, F!ReadPage, Len(graph.list) <= walk.cursor
  PROVE  ListInv'
<1> DEFINE n == Len(graph.list)
           c == walk.cursor
<1> USE ListAssumption
<1>1. /\ n \in Nat /\ graph' = graph /\ c \in Nat /\ n <= c
      /\ Lists(walk.urls, BridgedUpTo(c))
  BY DEF ListInv, F!ReadPage
<1>2. BridgedUpTo(c) = BridgedUpTo(n)
  BY <1>1 DEF BridgedUpTo
<1> HIDE DEF c, n
<1>3. F!Indices(c) = {} /\ 1..(n - c) = {}
  BY <1>1 DEF F!Indices, n
<1>4. walk'.at = "done" /\ walk'.urls = walk.urls \o F!Found(c)
  BY <1>3 DEF F!ReadPage, F!LastPage, c
<1>5. Lists(F!Found(c), {})
  <2>1. F!Found(c) = Selected([i \in 1..(n - c) |-> c + i], {})
    BY <1>3, SelectAlike DEF F!Found, n
  <2>2. [i \in 1..(n - c) |-> c + i] = [i \in 1..0 |-> c + i]
    BY <1>3
  <2>3. {} \in SUBSET ((c + 1)..(c + 0)) /\ 0 \in Nat
    OBVIOUS
  <2>4. Lists(Selected([i \in 1..0 |-> c + i], {}), {})
    BY <1>1, <2>3, SelectedNumbers
  <2> QED
    BY <2>1, <2>2, <2>4, Zenon
<1>6. Lists(walk.urls \o F!Found(c), BridgedUpTo(c))
  <2>1. BridgedUpTo(c) \cup {} = BridgedUpTo(c)
    OBVIOUS
  <2>2. \A x \in BridgedUpTo(c), y \in {} : x < y
    OBVIOUS
  <2>3. Lists(walk.urls \o F!Found(c), BridgedUpTo(c) \cup {})
    BY <1>1, <1>5, <2>2, ListsJoin
  <2> QED
    BY <2>1, <2>3
<1>7. Lists(walk'.urls, BridgedUpTo(Len(graph.list))')
  BY <1>1, <1>2, <1>4, <1>6 DEF BridgedUpTo, n
<1> QED
  BY <1>1, <1>4, <1>7 DEF ListInv

\* Reading a page goes on to the next one, or has read the list or its MaxPages.
LEMMA ReadPageStep ==
  ASSUME ListInv, F!ReadPage, walk.cursor < Len(graph.list)
  PROVE  ListInv'
<1> DEFINE n == Len(graph.list)
           c == walk.cursor
           read == {i \in F!Indices(c) : graph.list[i] = "bridged"}
           upTo == IF c + PageSize < n THEN c + PageSize ELSE n
<1> USE ListAssumption
<1>1. /\ n \in Nat /\ graph' = graph
      /\ walk.pages \in Nat /\ c = walk.pages * PageSize /\ c < n
      /\ Lists(walk.urls, BridgedUpTo(c))
  BY DEF ListInv, F!ReadPage
<1>2. c \in Nat /\ c <= n
  BY <1>1
<1> HIDE DEF c, n
<1>3. F!Indices(c) = (c + 1)..upTo /\ upTo \in c..n
  BY <1>2, <1>1 DEF F!Indices, n
<1>4. Lists(F!Found(c), read)
  <2>1. c + (n - c) = n /\ n - c \in Nat
    BY <1>1, <1>2
  <2>2. read \in SUBSET ((c + 1)..(c + (n - c)))
    <3>1. \A i \in (c + 1)..upTo : i \in (c + 1)..n
      BY <1>1, <1>2, <1>3
    <3> QED
      BY <1>3, <2>1, <3>1
  <2>3. F!Found(c) = Selected([i \in 1..(n - c) |-> c + i], read)
    BY SelectAlike DEF F!Found, n
  <2> HIDE DEF read
  <2> QED
    BY <1>2, <2>1, <2>2, <2>3, SelectedNumbers
<1>5. BridgedUpTo(c) \cup read = BridgedUpTo(upTo)
  <2>1. \A i \in 1..c : i \in 1..upTo
    BY <1>1, <1>2, <1>3
  <2>2. \A i \in (c + 1)..upTo : i \in 1..upTo /\ i <= n
    BY <1>1, <1>2, <1>3
  <2>3. \A i \in 1..upTo : i \in 1..c \/ i \in (c + 1)..upTo
    BY <1>1, <1>2, <1>3
  <2> HIDE DEF upTo
  <2> QED
    BY <1>3, <2>1, <2>2, <2>3 DEF BridgedUpTo, n
<1>6. \A x \in BridgedUpTo(c), y \in read : x < y
  <2>1. \A x \in BridgedUpTo(c) : x \in 1..c
    BY DEF BridgedUpTo
  <2>2. \A y \in read : y \in (c + 1)..upTo
    BY <1>3
  <2> HIDE DEF read
  <2> QED
    BY <1>1, <1>2, <1>3, <2>1, <2>2
<1>7. Lists(walk.urls \o F!Found(c), BridgedUpTo(upTo))
  <2> HIDE DEF read, upTo
  <2> QED
    BY <1>1, <1>4, <1>5, <1>6, ListsJoin
<1>8. /\ walk'.urls = walk.urls \o F!Found(c) /\ walk'.pages = walk.pages + 1
      /\ walk'.cursor = F!NextCursor(c)
      /\ walk'.at = IF F!LastPage(c) \/ walk.pages + 1 = ListPages THEN "done" ELSE "reading"
  BY DEF F!ReadPage, c
<1>11. c + PageSize = (walk.pages + 1) * PageSize /\ walk.pages + 1 \in Nat
  <2>1. \A m, k \in Nat : (m + 1) * k = m * k + k
    OBVIOUS
  <2>2. (walk.pages + 1) * PageSize = walk.pages * PageSize + PageSize
    BY <1>1, <2>1
  <2>3. c + PageSize = walk.pages * PageSize + PageSize
    BY <1>1
  <2>4. walk.pages + 1 \in Nat
    BY <1>1
  <2> QED
    BY <2>2, <2>3, <2>4, Zenon
<1>9. CASE upTo = n
  <2>1. n <= c + PageSize
    BY <1>1, <1>2, <1>9
  <2>2. Lists(walk'.urls, BridgedUpTo(n))
    BY <1>7, <1>8, <1>9
  <2>3. CASE walk'.at = "done"
    <3>1. Lists(walk'.urls, BridgedUpTo(Len(graph.list))')
      BY <1>1, <2>2 DEF BridgedUpTo, n
    <3> QED
      BY <1>1, <2>3, <3>1 DEF ListInv
  <2>4. CASE walk'.at = "reading"
    <3>1. walk'.cursor = c + PageSize
      <4>1. ~F!LastPage(c)
        BY <1>8, <2>4
      <4>2. graph.ends \in F!Ends
        BY DEF ListInv
      <4> QED
        BY <1>1, <1>2, <1>8, <2>1, <4>1, <4>2 DEF F!LastPage, F!NextCursor, F!Ends, n
    <3>2. BridgedUpTo(n) = BridgedUpTo(c + PageSize)
      BY <1>1, <1>2, <2>1 DEF BridgedUpTo, n
    <3>3. Lists(walk'.urls, BridgedUpTo(walk.cursor)')
      BY <1>1, <2>2, <3>1, <3>2 DEF BridgedUpTo
    <3> QED
      BY <1>1, <1>8, <1>11, <2>4, <3>1, <3>3 DEF ListInv
  <2> QED
    BY <1>8, <2>3, <2>4
<1>10. CASE upTo # n
  <2>1. c + PageSize < n /\ upTo = c + PageSize
    BY <1>10
  <2>2. F!NextCursor(c) = c + PageSize
    BY <2>1 DEF F!NextCursor, n
  <2>4. CASE walk'.at = "reading"
    <3>1. Lists(walk'.urls, BridgedUpTo(walk.cursor)')
      BY <1>1, <1>7, <1>8, <2>1, <2>2 DEF BridgedUpTo
    <3> QED
      BY <1>1, <1>8, <1>11, <2>1, <2>2, <2>4, <3>1 DEF ListInv, n
  <2>5. CASE walk'.at = "done"
    <3>1. ~F!LastPage(c)
      BY <1>2, <1>3, <2>1, <2>2 DEF F!LastPage
    <3>2. walk.pages + 1 = ListPages
      BY <1>8, <2>5, <3>1
    <3>3. n > PageSize * ListPages
      BY <1>1, <1>2, <1>11, <2>1, <3>2
    <3> QED
      BY <1>1, <2>5, <3>3 DEF ListInv, n
  <2> QED
    BY <1>8, <2>4, <2>5
<1> QED
  BY <1>9, <1>10

\* So do the other steps of a listing and of the node.
LEMMA ListStep ==
  ASSUME ListInv, [F!ListNext]_(F!listVars)
  PROVE  ListInv'
<1>1. ASSUME NEW follower \in F!Followers, F!Grow(follower)
      PROVE  ListInv'
  <2>1. /\ graph'.list = Append(graph.list, follower) /\ graph'.ends \in F!Ends
        /\ walk' = walk /\ walk.at = "idle"
    BY <1>1 DEF F!Grow
  <2> QED
    BY <2>1 DEF ListInv
<1>2. CASE F!BeginList
  <2>1. /\ graph' = graph /\ walk'.at = "reading" /\ walk'.cursor = 0 /\ walk'.pages = 0
        /\ walk'.urls = <<>>
    BY <1>2 DEF F!BeginList, F!NotWalking
  <2>2. Lists(<<>>, {})
    BY DEF Lists
  <2>3. BridgedUpTo(walk.cursor)' = {}
    BY <2>1 DEF BridgedUpTo
  <2>4. 0 = 0 * PageSize /\ 0 \in Nat
    BY ListAssumption
  <2>5. Lists(walk'.urls, BridgedUpTo(walk.cursor)')
    BY <2>1, <2>2, <2>3
  <2> QED
    BY <2>1, <2>4, <2>5 DEF ListInv
<1>3. CASE F!FailPage \/ F!EndList
  BY <1>3 DEF ListInv, F!FailPage, F!EndList, F!NotWalking
<1>4. CASE UNCHANGED F!listVars
  BY <1>4 DEF ListInv, F!listVars, BridgedUpTo
<1>5. CASE F!ReadPage
  <2>1. Len(graph.list) <= walk.cursor \/ walk.cursor < Len(graph.list)
    BY <1>5, ListAssumption DEF ListInv, F!ReadPage
  <2> QED
    BY <1>5, <2>1, EmptyPageStep, ReadPageStep
<1> QED
  BY <1>1, <1>2, <1>3, <1>4, <1>5 DEF F!ListNext

\* A listing that is read to its end holds every bridged follower that resolves,
\* once and in order, for any page size, any list and each way a node ends it;
\* only a list longer than the pages it may read is cut (nodeFollowerStore.List).
THEOREM ListHoldsAll == Spec => []ListIsExact
<1>1. Init => ListInv
  BY DEF Init, F!ListInit, ListInv, F!NotWalking, F!Ends
<1>2. ListInv /\ [Next]_vars => ListInv'
  BY ListStep, Parts
<1>3. ListInv => ListIsExact
  <2> SUFFICES ASSUME ListInv, walk.at = "done", Len(graph.list) <= PageSize * ListPages
               PROVE  walk.urls = F!Positions("bridged")
    BY DEF ListIsExact, F!ListIsExact
  <2> DEFINE n == Len(graph.list)
             all == BridgedUpTo(n)
  <2>1. n \in Nat /\ DOMAIN graph.list = 1..n
    BY DEF ListInv
  <2>2. Lists(walk.urls, all)
    BY <2>1, ListAssumption DEF ListInv
  <2>3. all = {i \in DOMAIN graph.list : graph.list[i] = "bridged"}
    BY <2>1 DEF BridgedUpTo
  <2>4. [i \in 1..n |-> i] = [i \in 1..n |-> 0 + i]
    BY <2>1
  <2>5. all \in SUBSET ((0 + 1)..(0 + n))
    BY <2>1 DEF BridgedUpTo
  <2>6. F!Positions("bridged") = Selected([i \in 1..n |-> 0 + i], all)
    BY <2>3, <2>4, SelectAlike DEF F!Positions
  <2> HIDE DEF all, n
  <2>7. Lists(F!Positions("bridged"), all)
    BY <2>1, <2>5, <2>6, SelectedNumbers
  <2> QED
    BY <2>2, <2>7, ListedOnce
<1> QED
  BY <1>1, <1>2, <1>3, PTL DEF Spec

-----------------------------------------------------------------------------
(* A thread. *)

\* An item by its page and its place on it.
ItemAt(p, i) == <<p, i>>

\* A page of n items.
PageOf(p, n) == [i \in 1..n |-> ItemAt(p, i)]

\* The items of page p up to the n-th.
ItemsOf(p, n) == {ItemAt(p, i) : i \in 1..n}

\* The tweets collected are in order and of the pages done.  On a page, what is
\* being resolved and what resolved since are items of it, and there is room for
\* all of them; between pages everything that resolved is collected.
ThreadInv ==
  /\ page.at \in {"idle", "next", "page", "done"}
  /\ page.page \in Nat /\ page.items \in Nat /\ spawned \in Nat
  /\ reply \in Seq(Nat \X Nat) /\ Len(reply) <= MaxReplies
  /\ \A i, j \in 1..Len(reply) : i < j => T!Earlier(reply[i], reply[j])
  /\ page.at = "page" =>
       /\ spawned <= page.items /\ Len(reply) + page.items <= MaxReplies
       /\ \A i \in 1..Len(reply) : reply[i] \in resolved /\ reply[i][1] < page.page
       /\ busy \subseteq ItemsOf(page.page, spawned)
       /\ \A it \in resolved :
            it \in {reply[i] : i \in 1..Len(reply)} \/ it \in ItemsOf(page.page, spawned)
  /\ page.at # "page" =>
       /\ busy = {} /\ resolved = {reply[i] : i \in 1..Len(reply)}
       /\ \A i \in 1..Len(reply) : reply[i][1] <= page.page
  /\ page.at = "idle" => reply = <<>>

\* t holds the items of a page that are in S, in the order of the page.
InPageOrder(t, p, n, S) ==
  /\ t \in Seq(Nat \X Nat) /\ Len(t) <= n
  /\ \A k \in 1..Len(t) : t[k][1] = p /\ t[k] \in S
  /\ \A k, l \in 1..Len(t) : k < l => t[k][2] < t[l][2]
  /\ \A it \in ItemsOf(p, n) : it \in S => \E k \in 1..Len(t) : it = t[k]

\* The items of a page that resolved come out in its order.
LEMMA SelectedItems ==
  ASSUME NEW p \in Nat, NEW n \in Nat, NEW S
  PROVE  InPageOrder(Selected(PageOf(p, n), S), p, n, S)
<1> DEFINE s == PageOf(p, n)
           t == Selected(s, S)
           E == Nat \X Nat
<1>1. s \in Seq(E) /\ Len(s) = n /\ \A i \in 1..n : s[i] = ItemAt(p, i)
  <2>1. s \in [1..n -> E]
    BY DEF ItemAt, PageOf
  <2> QED
    BY <2>1 DEF PageOf
<1> HIDE DEF s, E
<1>2. t \in Seq(E)
  BY <1>1, SelectedFacts
<1>3. PICK f : /\ Lists(f, Kept(s, S)) /\ Len(f) = Len(t)
               /\ \A k \in 1..Len(f) : f[k] \in Kept(s, S) /\ t[k] = s[f[k]]
  BY <1>1, SelectedFacts
<1> HIDE DEF t
<1>4. \A k \in 1..Len(t) : f[k] \in 1..n /\ t[k] = ItemAt(p, f[k]) /\ t[k] \in S
  BY <1>1, <1>3 DEF Kept
<1>5. \A k \in 1..Len(t) : t[k][1] = p /\ t[k][2] = f[k]
  BY <1>4 DEF ItemAt
<1>6. \A k, l \in 1..Len(t) : k < l => t[k][2] < t[l][2]
  <2> SUFFICES ASSUME NEW k \in 1..Len(t), NEW l \in 1..Len(t), k < l PROVE t[k][2] < t[l][2]
    OBVIOUS
  <2>1. f[k] < f[l]
    BY <1>3 DEF Lists
  <2> QED
    BY <1>5, <2>1
<1>7. ASSUME NEW it \in ItemsOf(p, n), it \in S PROVE \E k \in 1..Len(t) : it = t[k]
  <2>1. PICK i \in 1..n : it = ItemAt(p, i)
    BY DEF ItemsOf
  <2>2. i \in Kept(s, S)
    BY <1>1, <1>7, <2>1 DEF Kept
  <2>3. \A y \in Kept(s, S) : \E k \in 1..Len(f) : y = f[k]
    BY <1>3, ListParts
  <2>4. PICK k \in 1..Len(f) : i = f[k]
    BY <2>2, <2>3
  <2> QED
    BY <1>3, <1>4, <2>1, <2>4
<1>8. Len(t) <= n
  <2>1. Len(f) \in 0..Len(f) /\ Len(f) \in Nat
    BY <1>3, ListParts
  <2>2. IsFiniteSet(First(f, Len(f))) /\ Cardinality(First(f, Len(f))) = Len(f)
    BY <1>3, <2>1, ListCounts
  <2>3. First(f, Len(f)) \subseteq 1..n
    BY <1>3, <1>4 DEF First
  <2>4. IsFiniteSet(1..n) /\ Cardinality(1..n) = n
    BY Counting
  <2>5. Cardinality(First(f, Len(f))) <= Cardinality(1..n)
    <3> DEFINE P == First(f, Len(f))
               Q == 1..n
    <3>1. P \in SUBSET Q /\ IsFiniteSet(Q)
      BY <2>3, <2>4
    <3> HIDE DEF P, Q
    <3>2. Cardinality(P) <= Cardinality(Q)
      BY <3>1, FS_Subset
    <3> QED
      BY <3>2 DEF P, Q
  <2> QED
    BY <1>3, <2>2, <2>4, <2>5
<1> QED
  BY <1>2, <1>4, <1>5, <1>6, <1>7, <1>8 DEF InPageOrder, E, t, s

\* A page that is collected is added at the end, in its order.
LEMMA CollectStep ==
  ASSUME ThreadInv, T!Collect
  PROVE  ThreadInv'
<1> DEFINE p == page.page
           n == page.items
           t == Selected(PageOf(p, n), resolved)
           r == reply \o t
<1>1. /\ p \in Nat /\ n \in Nat /\ spawned = n /\ busy = {} /\ page.at = "page"
      /\ reply \in Seq(Nat \X Nat) /\ Len(reply) \in Nat /\ Len(reply) + n <= MaxReplies
      /\ \A i \in 1..Len(reply) : reply[i] \in resolved /\ reply[i][1] < p
      /\ \A i, j \in 1..Len(reply) : i < j => T!Earlier(reply[i], reply[j])
      /\ \A it \in resolved : it \in {reply[i] : i \in 1..Len(reply)} \/ it \in ItemsOf(p, n)
  BY DEF ThreadInv, T!Collect
<1>2. /\ reply' = r /\ UNCHANGED <<spawned, busy, resolved>>
      /\ page'.at = "next" /\ page'.page = p /\ page'.items = n
  <2>1. reply' = reply \o T!Selected([i \in 1..n |-> T!Item(i)], resolved)
    BY DEF T!Collect
  <2>2. [i \in 1..n |-> T!Item(i)] = PageOf(p, n)
    BY DEF T!Item, ItemAt, PageOf
  <2>3. UNCHANGED <<spawned, busy, resolved>> /\ page' = [page EXCEPT !.at = "next"]
    BY DEF T!Collect
  <2>4. page'.at = "next" /\ page'.page = p /\ page'.items = n
    BY <2>3 DEF ThreadInv, T!Outside
  <2> QED
    BY <2>1, <2>2, <2>3, <2>4, SelectAlike
<1>3. /\ t \in Seq(Nat \X Nat) /\ Len(t) <= n
      /\ \A k \in 1..Len(t) : t[k][1] = p /\ t[k] \in resolved
      /\ \A k, l \in 1..Len(t) : k < l => t[k][2] < t[l][2]
      /\ \A it \in ItemsOf(p, n) : it \in resolved => \E k \in 1..Len(t) : it = t[k]
  <2>1. InPageOrder(t, p, n, resolved)
    BY <1>1, SelectedItems
  <2> HIDE DEF t
  <2> QED
    BY <2>1 DEF InPageOrder
<1> HIDE DEF t
<1>4. /\ r \in Seq(Nat \X Nat) /\ Len(r) = Len(reply) + Len(t)
      /\ \A i \in 1..Len(reply) : i \in 1..Len(r) /\ r[i] = reply[i]
      /\ \A i \in 1..Len(t) : i + Len(reply) \in 1..Len(r) /\ r[i + Len(reply)] = t[i]
      /\ \A i \in 1..Len(r) : \/ i \in 1..Len(reply) /\ r[i] = reply[i]
                             \/ \E j \in 1..Len(t) : i = j + Len(reply) /\ r[i] = t[j]
  BY <1>1, <1>3, ConcatParts
<1> HIDE DEF r
<1>5. Len(r) <= MaxReplies
  <2>1. Len(t) \in Nat
    BY <1>3
  <2> QED
    BY <1>1, <1>3, <1>4, <2>1, ThreadAssumption
<1>6. ASSUME NEW i \in 1..Len(r), NEW j \in 1..Len(r), i < j PROVE T!Earlier(r[i], r[j])
  <2>1. CASE i \in 1..Len(reply) /\ r[i] = reply[i] /\ j \in 1..Len(reply) /\ r[j] = reply[j]
    BY <1>1, <1>6, <2>1
  <2>2. CASE i \in 1..Len(reply) /\ r[i] = reply[i] /\ \E l \in 1..Len(t) : r[j] = t[l]
    <3>1. r[i][1] < p /\ r[j][1] = p
      BY <1>1, <1>3, <2>2
    <3> QED
      BY <3>1 DEF T!Earlier
  <2>3. CASE \E k \in 1..Len(t) : i = k + Len(reply) /\ r[i] = t[k]
    <3>1. PICK k \in 1..Len(t) : i = k + Len(reply) /\ r[i] = t[k]
      BY <2>3
    <3>2. j \notin 1..Len(reply)
      BY <1>1, <1>6, <3>1
    <3>3. PICK l \in 1..Len(t) : j = l + Len(reply) /\ r[j] = t[l]
      BY <1>4, <3>2
    <3>4. k < l
      BY <1>1, <1>6, <3>1, <3>3
    <3>5. r[i][1] = p /\ r[j][1] = p /\ r[i][2] < r[j][2]
      BY <1>3, <3>1, <3>3, <3>4
    <3> QED
      BY <3>5 DEF T!Earlier
  <2> QED
    BY <1>4, <2>1, <2>2, <2>3
<1>7. \A m \in 1..Len(r) : r[m] \in resolved /\ r[m][1] <= p
  <2>1. \A i \in 1..Len(reply) : reply[i][1] \in Nat
    BY <1>1
  <2>2. \A i \in 1..Len(reply) : reply[i][1] <= p
    BY <1>1, <2>1
  <2>3. \A k \in 1..Len(t) : t[k] \in resolved /\ t[k][1] <= p
    BY <1>1, <1>3
  <2> HIDE DEF p
  <2> SUFFICES ASSUME NEW m \in 1..Len(r) PROVE r[m] \in resolved /\ r[m][1] <= p
    OBVIOUS
  <2>4. CASE m \in 1..Len(reply) /\ r[m] = reply[m]
    BY <1>1, <2>2, <2>4
  <2>5. CASE \E j \in 1..Len(t) : r[m] = t[j]
    BY <2>3, <2>5
  <2> QED
    BY <1>4, <2>4, <2>5
<1>8. ASSUME NEW it \in resolved PROVE \E i \in 1..Len(r) : it = r[i]
  <2>1. CASE it \in {reply[i] : i \in 1..Len(reply)}
    BY <1>4, <2>1
  <2>2. CASE it \in ItemsOf(p, n)
    <3>1. PICK k \in 1..Len(t) : it = t[k]
      BY <1>3, <2>2
    <3> QED
      BY <1>4, <3>1
  <2> QED
    BY <1>1, <2>1, <2>2
<1>9. resolved = {r[i] : i \in 1..Len(r)}
  BY <1>7, <1>8
<1> QED
  BY <1>1, <1>2, <1>4, <1>5, <1>6, <1>7, <1>9 DEF ThreadInv

\* So do the other steps of a walk and of its pool.
LEMMA ThreadStep ==
  ASSUME ThreadInv, [T!TwNext]_(T!twVars)
  PROVE  ThreadInv'
<1>1. CASE T!Begin
  <2>1. /\ page.at = "idle" /\ page'.at = "next" /\ page'.page = 0 /\ page'.items = 0
        /\ UNCHANGED <<spawned, busy, resolved, reply>>
    BY <1>1 DEF T!Begin, T!Outside, T!Quiet
  <2>2. reply = <<>> /\ Len(<<>>) = 0
    BY <2>1 DEF ThreadInv
  <2> QED
    BY <2>1, <2>2 DEF ThreadInv
<1>2. ASSUME NEW more \in BOOLEAN, T!Leave(more)
      PROVE  ThreadInv'
  BY <1>2 DEF ThreadInv, T!Leave, T!Quiet
<1>3. ASSUME NEW n \in 0..MaxItems, T!NextPage(n)
      PROVE  ThreadInv'
  <2>1. /\ page.at = "next" /\ Len(reply) < MaxReplies
        /\ page'.at = "page" /\ page'.page = page.page + 1
        /\ page'.items = IF n > MaxReplies - Len(reply) THEN MaxReplies - Len(reply) ELSE n
        /\ spawned' = 0 /\ UNCHANGED <<busy, resolved, reply>>
    BY <1>3 DEF T!NextPage
  <2>2. Len(reply) \in Nat /\ page.page \in Nat /\ reply \in Seq(Nat \X Nat)
    BY DEF ThreadInv
  <2>3. page'.items \in Nat /\ Len(reply) + page'.items <= MaxReplies
    BY <2>1, <2>2, ThreadAssumption
  <2>4. \A i \in 1..Len(reply) : reply[i] \in resolved /\ reply[i][1] \in Nat
                                 /\ reply[i][1] <= page.page
    BY <2>1, <2>2 DEF ThreadInv
  <2>5. \A i \in 1..Len(reply) : reply[i][1] < page.page + 1
    BY <2>2, <2>4
  <2>6. /\ busy = {} /\ resolved = {reply[i] : i \in 1..Len(reply)}
        /\ Len(reply) <= MaxReplies
        /\ \A i, j \in 1..Len(reply) : i < j => T!Earlier(reply[i], reply[j])
    BY <2>1 DEF ThreadInv
  <2>7. page.page + 1 \in Nat /\ 0 <= page'.items
    BY <2>2, <2>3
  <2> QED
    BY <2>1, <2>2, <2>3, <2>4, <2>5, <2>6, <2>7 DEF ThreadInv
<1>4. CASE T!Spawn
  <2>1. /\ page.at = "page" /\ spawned < page.items /\ spawned' = spawned + 1
        /\ busy' = busy \cup {ItemAt(page.page, spawned + 1)} /\ UNCHANGED <<page, resolved, reply>>
    BY <1>4 DEF T!Spawn, T!Item, ItemAt
  <2>2. spawned \in Nat /\ page.items \in Nat
    BY DEF ThreadInv
  <2>3. /\ ItemsOf(page.page, spawned) \subseteq ItemsOf(page.page, spawned + 1)
        /\ ItemAt(page.page, spawned + 1) \in ItemsOf(page.page, spawned + 1)
    BY <2>2 DEF ItemsOf
  <2>4. spawned + 1 \in Nat /\ spawned + 1 <= page.items
    BY <2>1, <2>2
  <2> QED
    BY <2>1, <2>3, <2>4 DEF ThreadInv
<1>5. ASSUME NEW it \in busy, NEW ok \in BOOLEAN, T!Resolve(it, ok)
      PROVE  ThreadInv'
  <2>1. /\ busy' = busy \ {it} /\ resolved' \in {resolved, resolved \cup {it}}
        /\ UNCHANGED <<page, spawned, reply>> /\ page.at = "page"
    BY <1>5 DEF ThreadInv, T!Resolve
  <2>2. it \in ItemsOf(page.page, spawned)
    BY <2>1 DEF ThreadInv
  <2> QED
    BY <2>1, <2>2 DEF ThreadInv
<1>6. CASE T!Finish
  <2>1. /\ page.at = "done" /\ page' = T!Outside /\ resolved' = {} /\ reply' = <<>>
        /\ spawned' = 0 /\ busy' = busy
    BY <1>6 DEF T!Finish
  <2>2. busy = {}
    BY <2>1 DEF ThreadInv
  <2> QED
    BY <2>1, <2>2, ThreadAssumption DEF ThreadInv, T!Outside
<1>7. CASE UNCHANGED T!twVars
  BY <1>7 DEF ThreadInv, T!twVars
<1> QED
  BY <1>1, <1>2, <1>3, <1>4, <1>5, <1>6, <1>7, CollectStep DEF T!TwNext

\* A thread comes out in the order of its pages, with nothing twice, nothing left
\* out that resolved and no more than it may hold, for any number of pages, items
\* and slots and whatever order the pool resolves in (resolveReplyItems,
\* resolveTimelineItems, apReplies).
THEOREM ThreadKeepsOrder == Spec => []ThreadInOrder
<1>1. Init => ThreadInv
  BY ThreadAssumption DEF Init, T!TwInit, ThreadInv, T!Outside
<1>2. ThreadInv /\ [Next]_vars => ThreadInv'
  BY ThreadStep, Parts
<1>3. ThreadInv => ThreadInOrder
  <2> SUFFICES ASSUME ThreadInv PROVE ThreadInOrder
    OBVIOUS
  <2>1. DOMAIN reply = 1..Len(reply)
    BY DEF ThreadInv
  <2> QED
    BY <2>1 DEF ThreadInv, ThreadInOrder, T!ThreadInOrder
<1> QED
  BY <1>1, <1>2, <1>3, PTL DEF Spec

-----------------------------------------------------------------------------
(* Who a request is sent to. *)

\* What a sequence holds, whether it holds it once, and what comes before what.
Elements(s) == {s[i] : i \in 1..Len(s)}
Distinct(s) == \A i, j \in 1..Len(s) : s[i] = s[j] => i = j
Precedes(x, y, s) == \E i, j \in 1..Len(s) : i < j /\ s[i] = x /\ s[j] = y

\* Directory says it of the domain.
LEMMA SameWords ==
  ASSUME NEW E, NEW s \in Seq(E)
  PROVE  /\ D!Range(s) = Elements(s)
         /\ D!IsInjective(s) <=> Distinct(s)
         /\ \A x, y : D!Before(x, y, s) <=> Precedes(x, y, s)
<1>1. DOMAIN s = 1..Len(s)
  OBVIOUS
<1> QED
  BY <1>1 DEF D!Range, Elements, D!IsInjective, Distinct, D!Before, Precedes

\* t is made of elements of s: the ones in S, each as often, in their order.
PartOf(t, s, S) ==
  /\ Elements(t) = Elements(s) \cap S
  /\ Distinct(s) => Distinct(t)
  /\ \A x, y : Precedes(x, y, t) => Precedes(x, y, s)

\* A selection is.
LEMMA SelectedPart ==
  ASSUME NEW E, NEW s \in Seq(E), NEW S
  PROVE  Selected(s, S) \in Seq(E) /\ PartOf(Selected(s, S), s, S)
<1> DEFINE t == Selected(s, S)
<1>1. t \in Seq(E)
  BY SelectedFacts
<1>2. PICK f : /\ Lists(f, Kept(s, S)) /\ Len(f) = Len(t)
               /\ \A k \in 1..Len(f) : f[k] \in Kept(s, S) /\ t[k] = s[f[k]]
  BY SelectedFacts
<1> HIDE DEF t
<1>3. \A k \in 1..Len(t) : f[k] \in 1..Len(s) /\ t[k] = s[f[k]] /\ t[k] \in S /\ f[k] \in Int
  BY <1>2 DEF Kept
<1>4. \A k, l \in 1..Len(t) : k < l => f[k] < f[l]
  BY <1>2 DEF Lists
<1>5. ASSUME NEW i \in 1..Len(s), s[i] \in S PROVE \E k \in 1..Len(t) : t[k] = s[i]
  <2>1. \A y \in Kept(s, S) : \E k \in 1..Len(f) : y = f[k]
    BY <1>2, ListParts
  <2>2. i \in Kept(s, S)
    BY <1>5 DEF Kept
  <2>3. PICK k \in 1..Len(f) : i = f[k]
    BY <2>1, <2>2
  <2> QED
    BY <1>2, <2>3
<1>6. Elements(t) = Elements(s) \cap S
  BY <1>3, <1>5 DEF Elements
<1>7. Distinct(s) => Distinct(t)
  <2> SUFFICES ASSUME Distinct(s), NEW k \in 1..Len(t), NEW l \in 1..Len(t), t[k] = t[l]
               PROVE  k = l
    BY DEF Distinct
  <2>1. f[k] = f[l]
    BY <1>3 DEF Distinct
  <2>2. ~(k < l) /\ ~(l < k)
    BY <1>3, <1>4, <2>1
  <2>3. Len(t) \in Nat
    BY <1>1
  <2> QED
    BY <2>2, <2>3
<1>8. ASSUME NEW x, NEW y, Precedes(x, y, t) PROVE Precedes(x, y, s)
  <2>1. PICK k, l \in 1..Len(t) : k < l /\ t[k] = x /\ t[l] = y
    BY <1>8 DEF Precedes
  <2>2. /\ f[k] \in 1..Len(s) /\ f[l] \in 1..Len(s) /\ f[k] < f[l]
        /\ s[f[k]] = x /\ s[f[l]] = y
    BY <1>3, <1>4, <2>1
  <2> QED
    BY <2>2 DEF Precedes
<1> QED
  BY <1>1, <1>6, <1>7, <1>8 DEF PartOf, t

\* Leaving elements out is a selection of the others.
LEMMA WithoutPart ==
  ASSUME NEW E, NEW s \in Seq(E), NEW S
  PROVE  /\ D!Without(s, S) \in Seq(E)
         /\ PartOf(D!Without(s, S), s, Elements(s) \ S)
         /\ Elements(D!Without(s, S)) = Elements(s) \ S
<1>1. D!Without(s, S) = Selected(s, Elements(s) \ S)
  BY SameWords, SelectAlike DEF D!Without
<1>2. /\ D!Without(s, S) \in Seq(E)
      /\ PartOf(D!Without(s, S), s, Elements(s) \ S)
  BY <1>1, SelectedPart
<1> QED
  BY <1>2 DEF PartOf

\* The front of a sequence.
LEMMA TruncatedPart ==
  ASSUME NEW E, NEW s \in Seq(E)
  PROVE  LET t == D!Truncated(s)
         IN /\ t \in Seq(E) /\ Len(t) <= MaxCandidates
            /\ Elements(t) \subseteq Elements(s)
            /\ Distinct(s) => Distinct(t)
            /\ \A x, y : Precedes(x, y, t) => Precedes(x, y, s)
            /\ \A i \in 1..Len(s) : i <= MaxCandidates => s[i] \in Elements(t)
            /\ Len(s) <= MaxCandidates => t = s
<1> DEFINE t == D!Truncated(s)
<1> USE CandidatesAssumption
<1>1. Len(s) \in Nat
  OBVIOUS
<1>2. CASE ~(Len(s) > MaxCandidates)
  <2>1. t = s
    BY <1>2 DEF D!Truncated
  <2> QED
    BY <1>1, <1>2, <2>1 DEF Elements
<1>3. CASE Len(s) > MaxCandidates
  <2>1. t = SubSeq(s, 1, MaxCandidates)
    BY <1>3 DEF D!Truncated
  <2>2. /\ t \in Seq(E) /\ Len(t) = MaxCandidates
        /\ \A i \in 1..MaxCandidates : t[i] = s[i]
    BY <1>3, <2>1
  <2> HIDE DEF t
  <2>3. \A i \in 1..Len(t) : i \in 1..Len(s) /\ t[i] = s[i]
    BY <1>1, <1>3, <2>2
  <2>4. Elements(t) \subseteq Elements(s)
    BY <2>3 DEF Elements
  <2>5. Distinct(s) => Distinct(t)
    BY <2>3 DEF Distinct
  <2>6. ASSUME NEW x, NEW y, Precedes(x, y, t) PROVE Precedes(x, y, s)
    BY <2>3, <2>6 DEF Precedes
  <2>7. \A i \in 1..Len(s) : i <= MaxCandidates => s[i] \in Elements(t)
    <3>1. \A i \in 1..Len(s) : i <= MaxCandidates => i \in 1..Len(t)
      BY <1>1, <2>2
    <3> QED
      BY <2>3, <3>1 DEF Elements
  <2> QED
    BY <1>1, <1>3, <2>2, <2>4, <2>5, <2>6, <2>7 DEF t
<1> QED
  BY <1>2, <1>3

\* One sequence after another.
LEMMA JoinedParts ==
  ASSUME NEW E, NEW p \in Seq(E), NEW q \in Seq(E)
  PROVE  /\ p \o q \in Seq(E) /\ Len(p \o q) = Len(p) + Len(q)
         /\ \A i \in 1..Len(p) : i \in 1..Len(p \o q) /\ (p \o q)[i] = p[i]
         /\ Elements(p \o q) = Elements(p) \cup Elements(q)
         /\ Distinct(p) /\ Distinct(q) /\ Elements(p) \cap Elements(q) = {} => Distinct(p \o q)
         /\ \A x, y : Precedes(x, y, p \o q) =>
              \/ Precedes(x, y, p) \/ Precedes(x, y, q)
              \/ x \in Elements(p) /\ y \in Elements(q)
<1> DEFINE r == p \o q
<1>1. Len(p) \in Nat /\ Len(q) \in Nat
  OBVIOUS
<1>2. /\ r \in Seq(E) /\ Len(r) = Len(p) + Len(q)
      /\ \A i \in 1..Len(p) : i \in 1..Len(r) /\ r[i] = p[i]
      /\ \A i \in 1..Len(q) : i + Len(p) \in 1..Len(r) /\ r[i + Len(p)] = q[i]
      /\ \A i \in 1..Len(r) : \/ i \in 1..Len(p) /\ r[i] = p[i]
                             \/ \E j \in 1..Len(q) : i = j + Len(p) /\ r[i] = q[j]
  BY ConcatParts
<1> HIDE DEF r
<1>3. Elements(r) = Elements(p) \cup Elements(q)
  <2>1. Elements(r) \subseteq Elements(p) \cup Elements(q)
    BY <1>2 DEF Elements
  <2>2. Elements(p) \subseteq Elements(r)
    BY <1>2 DEF Elements
  <2>3. Elements(q) \subseteq Elements(r)
    BY <1>2 DEF Elements
  <2> QED
    BY <2>1, <2>2, <2>3
<1>4. ASSUME Distinct(p), Distinct(q), Elements(p) \cap Elements(q) = {} PROVE Distinct(r)
  <2> SUFFICES ASSUME NEW i \in 1..Len(r), NEW j \in 1..Len(r), r[i] = r[j] PROVE i = j
    BY DEF Distinct
  <2>1. CASE i \in 1..Len(p) /\ r[i] = p[i] /\ j \in 1..Len(p) /\ r[j] = p[j]
    BY <1>4, <2>1 DEF Distinct
  <2>2. ASSUME NEW k \in 1..Len(q), i = k + Len(p), r[i] = q[k],
               NEW l \in 1..Len(q), j = l + Len(p), r[j] = q[l]
        PROVE  i = j
    BY <1>4, <2>2 DEF Distinct
  <2>3. \A k \in 1..Len(p), l \in 1..Len(q) : p[k] # q[l]
    BY <1>4 DEF Elements
  <2> QED
    BY <1>2, <2>1, <2>2, <2>3
<1>5. ASSUME NEW x, NEW y, Precedes(x, y, r)
      PROVE  \/ Precedes(x, y, p) \/ Precedes(x, y, q)
             \/ x \in Elements(p) /\ y \in Elements(q)
  <2>1. PICK i, j \in 1..Len(r) : i < j /\ r[i] = x /\ r[j] = y
    BY <1>5 DEF Precedes
  <2>2. CASE i \in 1..Len(p) /\ r[i] = p[i] /\ j \in 1..Len(p) /\ r[j] = p[j]
    BY <2>1, <2>2 DEF Precedes
  <2>3. CASE i \in 1..Len(p) /\ r[i] = p[i] /\ \E l \in 1..Len(q) : r[j] = q[l]
    BY <2>1, <2>3 DEF Elements
  <2>4. CASE \E k \in 1..Len(q) : i = k + Len(p) /\ r[i] = q[k]
    <3>1. PICK k \in 1..Len(q) : i = k + Len(p) /\ r[i] = q[k]
      BY <2>4
    <3>2. j \notin 1..Len(p)
      BY <1>1, <2>1, <3>1
    <3>3. PICK l \in 1..Len(q) : j = l + Len(p) /\ r[j] = q[l]
      BY <1>2, <3>2
    <3>4. k < l
      BY <1>1, <2>1, <3>1, <3>3
    <3> QED
      BY <2>1, <3>1, <3>3, <3>4 DEF Precedes
  <2> QED
    BY <1>2, <2>2, <2>3, <2>4
<1> QED
  BY <1>2, <1>3, <1>4, <1>5 DEF r

\* A sequence without repetitions is as long as it holds elements.
LEMMA DistinctCounts ==
  ASSUME NEW E, NEW s \in Seq(E), Distinct(s)
  PROVE  IsFiniteSet(Elements(s)) /\ Cardinality(Elements(s)) = Len(s)
<1> DEFINE n == Len(s)
           f == [i \in 1..n |-> s[i]]
<1>1. n \in Nat
  OBVIOUS
<1>2. /\ f \in [1..n -> Elements(s)] /\ DOMAIN f = 1..n
      /\ \A x \in Elements(s) : \E i \in 1..n : f[i] = x
      /\ \A i, j \in 1..n : f[i] = f[j] => i = j
  BY DEF Elements, Distinct
<1> HIDE DEF f, n
<1>3. f \in Bijection(1..n, Elements(s))
  BY <1>2 DEF Bijection, Injection, Surjection, IsInjective
<1>4. ExistsBijection(1..n, Elements(s))
  BY <1>3 DEF ExistsBijection
<1>5. IsFiniteSet(1..n) /\ Cardinality(1..n) = n
  BY <1>1, Counting
<1> QED
  BY <1>4, <1>5, FS_Bijection DEF n

\* Members are remembered once each and fit; the routing table lists peers once.
CandidatesInv ==
  /\ good \in Seq(Members) /\ Distinct(good) /\ Len(good) <= MaxCandidates
  /\ table \in Seq(D!Peers) /\ Distinct(table)

\* Remembering puts a member at the front, once.
LEMMA RememberStep ==
  ASSUME CandidatesInv, NEW m \in Members, D!remember(m)
  PROVE  good' \in Seq(Members) /\ Distinct(good)' /\ Len(good') <= MaxCandidates
<1> DEFINE others == D!Without(good, {m})
           front == <<m>>
           all == front \o others
<1>1. good \in Seq(Members) /\ Distinct(good)
  BY DEF CandidatesInv
<1>2. /\ others \in Seq(Members) /\ Elements(others) = Elements(good) \ {m}
      /\ Distinct(others)
  BY <1>1, WithoutPart DEF PartOf
<1>3. front \in Seq(Members) /\ Elements(front) = {m} /\ Distinct(front)
  BY DEF Elements, Distinct
<1>4. good' = D!Truncated(all)
  BY DEF D!remember
<1> HIDE DEF others, front
<1>5. all \in Seq(Members) /\ Distinct(all)
  BY <1>2, <1>3, JoinedParts
<1> HIDE DEF all
<1> QED
  BY <1>4, <1>5, TruncatedPart

\* Answers, limits, and the DHT's coming and going keep it.
LEMMA CandidatesStep ==
  ASSUME CandidatesInv, [D!DirectoryNext]_(D!dirmVars)
  PROVE  CandidatesInv'
<1>1. ASSUME NEW m \in Members, D!Answered(m)
      PROVE  CandidatesInv'
  <2>1. D!remember(m) /\ table' = table
    BY <1>1 DEF D!Answered
  <2> QED
    BY <2>1, RememberStep DEF CandidatesInv, Distinct
<1>2. ASSUME NEW m \in D!Peers, D!Appear(m)
      PROVE  CandidatesInv'
  <2>1. table \in Seq(D!Peers) /\ Distinct(table) /\ m \notin Elements(table)
    BY <1>2, SameWords DEF CandidatesInv, D!Appear
  <2>2. table' = Append(table, m) /\ good' = good
    BY <1>2 DEF D!Appear
  <2>3. /\ table' \in Seq(D!Peers) /\ Len(table') = Len(table) + 1 /\ Len(table) \in Nat
        /\ table'[Len(table) + 1] = m /\ \A i \in 1..Len(table) : table'[i] = table[i]
    BY <2>1, <2>2
  <2>4. Distinct(table')
    <3> SUFFICES ASSUME NEW i \in 1..Len(table'), NEW j \in 1..Len(table'), table'[i] = table'[j]
                 PROVE  i = j
      BY DEF Distinct
    <3>1. i \in 1..Len(table) \/ i = Len(table) + 1
      BY <2>3
    <3>2. j \in 1..Len(table) \/ j = Len(table) + 1
      BY <2>3
    <3>3. \A k \in 1..Len(table) : table[k] # m
      BY <2>1 DEF Elements
    <3> QED
      BY <2>1, <2>3, <3>1, <3>2, <3>3 DEF Distinct
  <2> QED
    BY <2>2, <2>3, <2>4 DEF CandidatesInv, Distinct
<1>3. ASSUME NEW m \in D!Peers, D!Vanish(m)
      PROVE  CandidatesInv'
  <2>1. table' = D!Without(table, {m}) /\ good' = good
    BY <1>3 DEF D!Vanish
  <2>2. table' \in Seq(D!Peers) /\ Distinct(table')
    BY <2>1, WithoutPart DEF CandidatesInv, PartOf
  <2> QED
    BY <2>1, <2>2 DEF CandidatesInv, Distinct
<1>4. CASE UNCHANGED <<good, table>>
  BY <1>4 DEF CandidatesInv, Distinct
<1> QED
  BY <1>1, <1>2, <1>3, <1>4 DEF D!DirectoryNext, D!dirmVars, D!BeginRequest, D!Refreshed, D!Refuse,
     D!Failed, D!RateLimited, D!CoolDown

\* The members that are known, remembered ones first.
LEMMA ListedFacts ==
  ASSUME CandidatesInv
  PROVE  LET a == D!Listed(good, table)
         IN /\ a \in Seq(D!Peers) /\ Distinct(a)
            /\ Elements(a) = (Elements(good) \cup Elements(table)) \cap Members
            /\ \A x \in Elements(good) : \E i \in 1..Len(a) : i <= Len(good) /\ x = a[i]
            /\ \A x, y : Precedes(x, y, a) /\ y \in Elements(good) => x \in Elements(good)
<1> DEFINE R == Relays \cup {Self}
           p == D!Without(good, R)
           q == D!Without(table, R \cup Elements(good))
           a == p \o q
<1>1. /\ good \in Seq(D!Peers) /\ Distinct(good) /\ table \in Seq(D!Peers) /\ Distinct(table)
      /\ Elements(good) \subseteq Members /\ Elements(table) \subseteq D!Peers
  BY DEF CandidatesInv, D!Peers, Elements
<1>2. Members \cap R = {} /\ D!Peers = Members \cup R
  BY CandidatesAssumption DEF D!Peers
<1>3. D!Listed(good, table) = a
  BY <1>1, SameWords DEF D!Listed
<1>4. /\ p \in Seq(D!Peers) /\ Distinct(p) /\ Elements(p) = Elements(good) \ R
      /\ q \in Seq(D!Peers) /\ Distinct(q) /\ Elements(q) = Elements(table) \ (R \cup Elements(good))
  <2> HIDE DEF R
  <2> QED
    BY <1>1, WithoutPart DEF PartOf
<1> HIDE DEF p, q
<1>5. Elements(p) = Elements(good) /\ Elements(p) \cap Elements(q) = {}
  BY <1>1, <1>2, <1>4
<1>6. /\ a \in Seq(D!Peers) /\ Distinct(a) /\ Elements(a) = Elements(p) \cup Elements(q)
      /\ \A i \in 1..Len(p) : i \in 1..Len(a) /\ a[i] = p[i]
      /\ \A x, y : Precedes(x, y, a) =>
              \/ Precedes(x, y, p) \/ Precedes(x, y, q)
              \/ x \in Elements(p) /\ y \in Elements(q)
  BY <1>4, <1>5, JoinedParts
<1> HIDE DEF a
<1>7. Len(p) = Len(good)
  BY <1>1, <1>4, <1>5, DistinctCounts
<1>8. ASSUME NEW x \in Elements(good) PROVE \E i \in 1..Len(a) : i <= Len(good) /\ x = a[i]
  <2>1. PICK i \in 1..Len(p) : x = p[i]
    BY <1>5 DEF Elements
  <2>2. i \in 1..Len(a) /\ a[i] = x /\ i <= Len(good)
    BY <1>6, <1>7, <2>1
  <2> QED
    BY <2>2
<1>9. ASSUME NEW x, NEW y, Precedes(x, y, a), y \in Elements(good) PROVE x \in Elements(good)
  <2>1. \A s : Precedes(x, y, s) => x \in Elements(s) /\ y \in Elements(s)
    BY DEF Precedes, Elements
  <2> QED
    BY <1>5, <1>6, <1>9, <2>1
<1>10. Elements(a) = (Elements(good) \cup Elements(table)) \cap Members
  BY <1>1, <1>2, <1>4, <1>5, <1>6
<1> QED
  BY <1>3, <1>6, <1>8, <1>9, <1>10

\* Those who are cooling down go to the end.
LEMMA DemotedFacts ==
  ASSUME NEW E, NEW b \in Seq(E)
  PROVE  LET c == D!Demote(b)
         IN /\ c \in Seq(E) /\ Elements(c) = Elements(b)
            /\ Distinct(b) => Distinct(c)
            /\ \A x, y : Precedes(x, y, c) =>
                 /\ x \in throttled => y \in throttled
                 /\ y \in throttled \/ Precedes(x, y, b)
<1> DEFINE p == D!Without(b, throttled)
           q == Selected(b, throttled)
           c == p \o q
<1>1. D!Demote(b) = c
  BY SelectAlike DEF D!Demote
<1>2. /\ p \in Seq(E) /\ PartOf(p, b, Elements(b) \ throttled)
      /\ Elements(p) = Elements(b) \ throttled
  BY WithoutPart
<1>3. q \in Seq(E) /\ PartOf(q, b, throttled) /\ Elements(q) = Elements(b) \cap throttled
  BY SelectedPart DEF PartOf
<1> HIDE DEF p, q
<1>4. Elements(p) \cap Elements(q) = {} /\ Elements(p) \cup Elements(q) = Elements(b)
  BY <1>2, <1>3
<1>5. /\ c \in Seq(E) /\ Elements(c) = Elements(b)
      /\ Distinct(p) /\ Distinct(q) => Distinct(c)
      /\ \A x, y : Precedes(x, y, c) =>
              \/ Precedes(x, y, p) \/ Precedes(x, y, q)
              \/ x \in Elements(p) /\ y \in Elements(q)
  BY <1>2, <1>3, <1>4, JoinedParts
<1> HIDE DEF c
<1>6. Distinct(b) => Distinct(c)
  BY <1>2, <1>3, <1>5 DEF PartOf
<1>7. ASSUME NEW x, NEW y, Precedes(x, y, c)
      PROVE  (x \in throttled => y \in throttled) /\ (y \in throttled \/ Precedes(x, y, b))
  <2>1. \A s : Precedes(x, y, s) => x \in Elements(s) /\ y \in Elements(s)
    BY DEF Precedes, Elements
  <2>2. CASE Precedes(x, y, p)
    BY <1>2, <2>1, <2>2 DEF PartOf
  <2>3. CASE y \in Elements(q)
    BY <1>3, <2>3
  <2> QED
    BY <1>5, <1>7, <2>1, <2>2, <2>3
<1> QED
  BY <1>1, <1>5, <1>6, <1>7

\* So the candidates of a request are right.
LEMMA CandidatesFollow == CandidatesInv => CandidatesAreRight
<1> SUFFICES ASSUME CandidatesInv PROVE CandidatesAreRight
  OBVIOUS
<1> DEFINE a == D!Listed(good, table)
           b == D!Truncated(a)
           c == D!Demote(b)
           known == (Elements(good) \cup Elements(table)) \cap Members
<1>1. /\ good \in Seq(Members) /\ table \in Seq(D!Peers) /\ Len(good) \in Nat
      /\ Len(good) <= MaxCandidates
  BY DEF CandidatesInv
<1>2. /\ a \in Seq(D!Peers) /\ Distinct(a) /\ Elements(a) = known
      /\ \A x \in Elements(good) : \E i \in 1..Len(a) : i <= Len(good) /\ x = a[i]
      /\ \A x, y : Precedes(x, y, a) /\ y \in Elements(good) => x \in Elements(good)
  BY ListedFacts
<1> HIDE DEF a, known
<1>3. /\ b \in Seq(D!Peers) /\ Distinct(b) /\ Elements(b) \subseteq known
      /\ \A x, y : Precedes(x, y, b) => Precedes(x, y, a)
      /\ \A i \in 1..Len(a) : i <= MaxCandidates => a[i] \in Elements(b)
      /\ Len(a) <= MaxCandidates => b = a
  BY <1>2, TruncatedPart
<1> HIDE DEF b
<1>4. /\ c \in Seq(D!Peers) /\ Elements(c) = Elements(b) /\ Distinct(c)
      /\ \A x, y : Precedes(x, y, c) =>
                 /\ x \in throttled => y \in throttled
                 /\ y \in throttled \/ Precedes(x, y, b)
  BY <1>3, DemotedFacts
<1> HIDE DEF c
<1>5. Cardinality(known) <= MaxCandidates => Elements(c) = known
  <2>1. Cardinality(known) = Len(a)
    BY <1>2, DistinctCounts
  <2> QED
    BY <1>2, <1>3, <1>4, <2>1
<1>6. Elements(good) \subseteq Elements(c)
  <2> SUFFICES ASSUME NEW x \in Elements(good) PROVE x \in Elements(c)
    OBVIOUS
  <2>1. PICK i \in 1..Len(a) : i <= Len(good) /\ x = a[i]
    BY <1>2
  <2>2. i <= MaxCandidates
    BY <1>1, <2>1, CandidatesAssumption
  <2> QED
    BY <1>3, <1>4, <2>1, <2>2
<1>7. \A x, y : Precedes(x, y, c) =>
        /\ x \in throttled => y \in throttled
        /\ y \in Elements(good) /\ x \notin Elements(good) => y \in throttled
  BY <1>2, <1>3, <1>4
<1>8. c = D!memberCandidates
  BY DEF D!memberCandidates, c, b, a
<1>9. /\ D!Range(good) = Elements(good) /\ D!Range(table) = Elements(table)
      /\ D!Range(c) = Elements(c) /\ (D!IsInjective(c) <=> Distinct(c))
      /\ \A x, y : D!Before(x, y, c) <=> Precedes(x, y, c)
  BY <1>1, <1>4, SameWords
<1>10. \A S : D!Cardinality(S) = Cardinality(S)
  BY DEF D!Cardinality, Cardinality
<1> QED
  BY <1>3, <1>4, <1>5, <1>6, <1>7, <1>8, <1>9, <1>10
     DEF CandidatesAreRight, D!CandidatesAreRight, known

\* The candidates of a request are the members that are known, once each, the
\* remembered ones first and those cooling down last, none left out as long as
\* they fit, for any members, relays, bound and whatever answers, limits and
\* changes of the routing table there were (memberCandidates, demoteThrottled,
\* remember).
THEOREM CandidatesStayRight == Spec => []CandidatesAreRight
<1>1. Init => CandidatesInv
  BY CandidatesAssumption DEF Init, D!DirectoryInit, CandidatesInv, Distinct
<1>2. CandidatesInv /\ [Next]_vars => CandidatesInv'
  BY CandidatesStep, Parts
<1>3. CandidatesInv => CandidatesAreRight
  BY CandidatesFollow
<1> QED
  BY <1>1, <1>2, <1>3, PTL DEF Spec
=============================================================================
