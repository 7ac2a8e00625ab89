------------------------------- MODULE LogRing -------------------------------
(***************************************************************************)
(* The ring of recent log lines behind /logs (log-buffer.go).  A line is a *)
(* text and the network it came from, none for the ActivityPub side.       *)
(***************************************************************************)
EXTENDS Integers, Sequences

CONSTANTS
  Texts, Networks,
  RingSize

VARIABLES
  buf, next, full,  \* the ring
  recent            \* ghost: the last RingSize lines, oldest first

ringVars == <<buf, next, full, recent>>

NoNetwork == "none"
Line == [text : Texts, network : Networks \cup {NoNetwork}]
Blank == [text |-> "", network |-> NoNetwork]

RingInit ==
  /\ buf = [i \in 0..(RingSize - 1) |-> Blank]
  /\ next = 0
  /\ full = FALSE
  /\ recent = <<>>

Remembered(line) ==
  recent' = IF Len(recent) < RingSize THEN Append(recent, line) ELSE Append(Tail(recent), line)

\* Faulty variant: the ring is taken for full one line early.
FireFullEarly(line) ==
  /\ buf' = [buf EXCEPT ![next] = line]
  /\ next' = (next + 1) % RingSize
  /\ full' = (full \/ next' = RingSize - 1)
  /\ Remembered(line)

Fire(line) ==
  /\ buf' = [buf EXCEPT ![next] = line]
  /\ next' = (next + 1) % RingSize
  /\ full' = (full \/ next' = 0)
  /\ Remembered(line)

\* The slice of the buffer from first up to, and without, last.
Slice(first, last) == [i \in 1..(last - first) |-> buf[first + i - 1]]

Ordered == IF full THEN Slice(next, RingSize) \o Slice(0, next) ELSE Slice(0, next)

Shows(network, line) ==
  network = NoNetwork \/ line.network \in {NoNetwork, network}

Shown(s, network) == SelectSeq(s, LAMBDA line : Shows(network, line))

lines(network) == Shown(Ordered, network)

RingNext == \E line \in Line : Fire(line)

------------------------------------------------------------------------------
\* At any position of the write index /logs serves the last RingSize lines that
\* belong to the network asked for or to none, oldest first (logRing.lines).
ServesRecentLines ==
  \A network \in Networks \cup {NoNetwork} :
    lines(network) = Shown(recent, network)
==============================================================================
