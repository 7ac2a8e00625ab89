----------------------------- MODULE FollowerList -----------------------------
(***************************************************************************)
(* The follower list read page by page from the owner's node               *)
(* (nodefollowers.go: nodeFollowerStore.List).  The list grows between     *)
(* listings, not while one is read.                                        *)
(***************************************************************************)
EXTENDS Integers, Sequences, Selection

CONSTANTS
  MaxFollowers,  \* followers the owner's node holds
  PageSize,      \* followersPageSize
  MaxPages       \* followersMaxPages

VARIABLES
  graph,   \* the follower list of the owner's node, and how it ends a listing
  walk     \* List: the cursor, the pages read and the urls found

listVars == <<graph, walk>>

\* A follower is a native member, a bridged account, or a bridged account that
\* does not resolve at the moment.
Followers == {"native", "bridged", "unresolved"}
\* With its last page a node answers no cursor, the one it was asked with, or one
\* that leads to an empty page.
Ends == {"none", "same", "empty"}
NotWalking == [at |-> "idle", cursor |-> 0, pages |-> 0, urls |-> <<>>]

ListInit ==
  /\ graph = [list |-> <<>>, ends |-> "none"]
  /\ walk = NotWalking

\* The empty cursor is 0.
Grow(f) ==
  /\ walk.at = "idle"
  /\ Len(graph.list) < MaxFollowers
  /\ \E e \in Ends : graph' = [list |-> Append(graph.list, f), ends |-> e]
  /\ UNCHANGED walk

BeginList ==
  /\ walk.at = "idle"
  /\ walk' = [NotWalking EXCEPT !.at = "reading"]
  /\ UNCHANGED graph

Indices(cursor) == (cursor + 1)..(IF cursor + PageSize < Len(graph.list)
                                  THEN cursor + PageSize ELSE Len(graph.list))

\* What the node answers after the last page.
NextCursor(cursor) ==
  IF cursor + PageSize < Len(graph.list) THEN cursor + PageSize
  ELSE CASE graph.ends = "none" -> 0
         [] graph.ends = "same" -> cursor
         [] graph.ends = "empty" -> cursor + PageSize

\* The bridged followers of a page that resolve, by their position.
Found(cursor) ==
  Selected([i \in 1..(Len(graph.list) - cursor) |-> cursor + i],
           {i \in Indices(cursor) : graph.list[i] = "bridged"})

\* Faulty variant: a cursor that does not move is followed.
LastPageByCursorOnly(cursor) ==
  Indices(cursor) = {} \/ NextCursor(cursor) = 0

LastPage(cursor) ==
  Indices(cursor) = {} \/ NextCursor(cursor) = 0 \/ NextCursor(cursor) = cursor

ReadPage ==
  /\ walk.at = "reading"
  /\ walk' = [at |-> IF LastPage(walk.cursor) \/ walk.pages + 1 = MaxPages THEN "done" ELSE "reading",
              cursor |-> NextCursor(walk.cursor),
              pages |-> walk.pages + 1,
              urls |-> walk.urls \o Found(walk.cursor)]
  /\ UNCHANGED graph

\* A request that fails, is refused or does not decode fails the whole list.
FailPage ==
  /\ walk.at = "reading"
  /\ walk' = [NotWalking EXCEPT !.at = "failed"]
  /\ UNCHANGED graph

EndList ==
  /\ walk.at \in {"done", "failed"}
  /\ walk' = NotWalking
  /\ UNCHANGED graph

ListNext ==
  \/ \E f \in Followers : Grow(f)
  \/ BeginList \/ ReadPage \/ FailPage \/ EndList

------------------------------------------------------------------------------
Positions(f) ==
  Selected([i \in 1..Len(graph.list) |-> i], {i \in DOMAIN graph.list : graph.list[i] = f})

\* A list that is read to its end holds every bridged follower that resolves,
\* once and in order, although nodes end a list in different ways and a page
\* may hold none; it gives up only at MaxPages (nodeFollowerStore.List).
ListIsExact ==
  walk.at = "done" /\ Len(graph.list) <= PageSize * MaxPages
    => walk.urls = Positions("bridged")
==============================================================================
