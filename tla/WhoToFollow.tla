----------------------------- MODULE WhoToFollow -----------------------------
(***************************************************************************)
(* The directory of accounts to follow (recommendations.go:                *)
(* GetWhoToFollow).  Its cursors are unsigned integers that come back from *)
(* clients; a page is kept in a cache under its offset and limit.  The     *)
(* accounts on a page are left out.                                        *)
(***************************************************************************)
EXTENDS Integers

CONSTANTS
  DirectoryLimit, \* directoryLimit, the largest page
  Width           \* number of values of an unsigned cursor

VARIABLES
  offset,  \* the offset of the client's cursor, or End
  cached   \* the page in the cache, as <<offset, limit, next>>; room for one

dirVars == <<offset, cached>>

End == -1

DirInit == offset = 0 /\ cached = {}

\* A client may come back with any cursor.
Ask(o) ==
  /\ offset' = o
  /\ UNCHANGED cached

\* Faulty variant: the overflow of the cursor is not refused.
FitsAlways(o, limit) == TRUE

\* offset > ^uint64(0) - limit is refused.
Fits(o, limit) == o <= (Width - 1) - limit

\* A page from the cache, or fetched: a full one has a next page.
Page(limit) ==
  /\ offset # End
  /\ Fits(offset, limit)
  /\ \/ \E c \in cached :
          /\ c[1] = offset /\ c[2] = limit
          /\ offset' = c[3]
          /\ UNCHANGED cached
     \/ /\ ~\E c \in cached : c[1] = offset /\ c[2] = limit
        /\ \E isFull \in BOOLEAN :
             offset' = IF isFull THEN (offset + limit) % Width ELSE End
        /\ cached' = {<<offset, limit, offset'>>}

\* The cache's entries expire.
Expire(c) ==
  /\ c \in cached
  /\ cached' = cached \ {c}
  /\ UNCHANGED offset

DirNext ==
  \/ \E o \in 0..(Width - 1) : Ask(o)
  \/ \E limit \in 1..DirectoryLimit : Page(limit)
  \/ \E c \in cached : Expire(c)

------------------------------------------------------------------------------
\* The next page of the directory starts after this one: a cursor at the end
\* of the integers does not wrap round to the beginning (GetWhoToFollow).
PagesAdvance ==
  [][\A limit \in 1..DirectoryLimit : Page(limit) => offset' = End \/ offset' > offset]_dirVars
=============================================================================
