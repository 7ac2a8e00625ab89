------------------------------- MODULE KeyFile -------------------------------
(***************************************************************************)
(* The signing key (keys.go: loadOrCreateKey; main.go calls it once at     *)
(* start).  WriteFile creates, then writes: a crash or a full disk between *)
(* the two leaves a file that does not parse.  A start that fails ends the *)
(* process; the operator may remove a file no start ever got past.  What   *)
(* crashes is the process: nothing is synced, and a loss of power right    *)
(* after a start is left out.                                              *)
(***************************************************************************)
EXTENDS Integers

CONSTANT MaxKeys   \* keys generated in one behaviour

VARIABLES
  file,       \* "absent", "partial" or the key it holds
  process,    \* "down", "generated", "writing" or "up"
  key,        \* the key in memory; 0 when there is none
  generated,  \* number of keys generated, which names them
  published   \* ghost: keys a running gateway has signed with

keyVars == <<file, process, key, generated, published>>

Absent == -2
Partial == -1
NoKey == 0

KeyInit ==
  /\ file = Absent
  /\ process = "down"
  /\ key = NoKey
  /\ generated = 0
  /\ published = {}

Exits ==
  /\ process' = "down"
  /\ key' = NoKey
  /\ UNCHANGED <<file, generated, published>>

Serves(k) ==
  /\ process' = "up"
  /\ key' = k
  /\ published' = published \cup {k}
  /\ UNCHANGED generated

LoadKey ==
  /\ process = "down"
  /\ file > NoKey
  /\ Serves(file)
  /\ UNCHANGED file

\* Faulty variant: any error of the read leads to a new key.
MayGenerateOnAnyError(readable) == file = Absent \/ ~readable

\* A file that is not there, and only that, leads to a new key.
MayGenerate(readable) == file = Absent

GenerateKey(readable) ==
  /\ process = "down"
  /\ MayGenerate(readable)
  /\ generated < MaxKeys
  /\ process' = "generated"
  /\ generated' = generated + 1
  /\ key' = generated + 1
  /\ UNCHANGED <<file, published>>

\* A partial file is refused, and so is one that cannot be read.
RefuseKey ==
  /\ process = "down"
  /\ file # Absent
  /\ Exits

CreateFile ==
  /\ process = "generated"
  /\ process' = "writing"
  /\ file' = Partial
  /\ UNCHANGED <<key, generated, published>>

WriteKey ==
  /\ process = "writing"
  /\ file' = key
  /\ Serves(key)

\* WriteFile fails: the error ends the process.
WriteFails ==
  /\ process \in {"generated", "writing"}
  /\ Exits

Crash ==
  /\ process # "down"
  /\ Exits

RemovePartial ==
  /\ process = "down"
  /\ file = Partial
  /\ file' = Absent
  /\ UNCHANGED <<process, key, generated, published>>

KeyNext ==
  \/ LoadKey
  \/ \E readable \in BOOLEAN : GenerateKey(readable)
  \/ RefuseKey \/ CreateFile \/ WriteKey \/ WriteFails \/ Crash \/ RemovePartial

------------------------------------------------------------------------------
\* Whatever crashes, write errors and unreadable files come between, every
\* start that succeeds signs with the key the first one signed with, and a
\* running gateway's key is the one on disk (loadOrCreateKey).
KeyIsStable ==
  /\ \A k, l \in published : k = l
  /\ process = "up" => file = key
==============================================================================
