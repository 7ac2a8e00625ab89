----------------------------- MODULE MCServices -----------------------------
(* TLC instance of Services: the events members send and the activities      *)
(* Fediverse accounts write.                                                  *)
EXTENDS Services

------------------------------------------------------------------------------
(* Replies with a parent of their own, under the root and without an id, the *)
(* deletions of the first two, a tweet and its deletion, both kinds of        *)
(* reactions, a boost and a follow.                                           *)

BwEvent(type, id, parent, root, emoji) ==
  [type |-> type, id |-> id, parent |-> parent, root |-> root, emoji |-> emoji]

BwScript ==
  {BwEvent(type, "r1", "p1", "p0", "none") : type \in {"reply", "delete"}} \cup
  {BwEvent(type, "r2", "none", "p0", "none") : type \in {"reply", "delete"}} \cup
  {BwEvent("reply", "", "p1", "p0", "none")} \cup
  {BwEvent(type, "t1", "none", "none", "none") : type \in {"tweet", "delete"}} \cup
  {BwEvent("react", "s1", "none", "p0", emoji) : emoji \in {"heart", "laugh"}} \cup
  {BwEvent(type, "s1", "none", "p0", "none") : type \in {"unreact", "announce", "follow"}}

------------------------------------------------------------------------------
(* Two accounts; notes that reply to, quote or open with one of our statuses,*)
(* with and without an id, and notes about foreign ones.                     *)

Ours == [owner |-> "u1", id |-> "t1"]
Theirs == [owner |-> "foreign", id |-> "foreign"]
NoUrl == [owner |-> "none", id |-> "none"]

Note(id, url, inReplyTo, quote, re, reURL) ==
  [id |-> id, url |-> url, inReplyTo |-> inReplyTo, quote |-> quote, re |-> re, reURL |-> reURL]

Notes ==
  {Note("n1", "none", Ours, NoUrl, "none", NoUrl), Note("none", "x1", Ours, NoUrl, "none", NoUrl),
   Note("none", "none", Ours, NoUrl, "none", NoUrl), Note("n2", "none", Theirs, Ours, "none", NoUrl),
   Note("n3", "none", NoUrl, NoUrl, "after", Ours), Note("n4", "none", NoUrl, Theirs, "before", Ours),
   Note("n5", "none", NoUrl, NoUrl, "alone", Ours), Note("n6", "none", Theirs, NoUrl, "none", NoUrl)}

InActs ==
  {[type |-> "create", actor |-> "alice", note |-> n] : n \in Notes} \cup
  {[type |-> "create", actor |-> "bob", note |-> Note("n1", "none", Ours, NoUrl, "none", NoUrl)]} \cup
  {[type |-> type, actor |-> actor, object |-> Ours] :
     type \in {"like", "announce", "undo-like", "undo-announce", "delete"}, actor \in {"alice", "bob"}} \cup
  {[type |-> "like", actor |-> "bob", object |-> Theirs]}
=============================================================================
