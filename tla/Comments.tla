------------------------------ MODULE Comments ------------------------------
(***************************************************************************)
(* The comments service: posting (several requests at a time, if the       *)
(* behaviour is overlapping), deletion, moderation, and the two lists.     *)
(* Time passes in ticks; the cooldown between two comments is one tick.    *)
(* What a comment says, and the names and titles fetched for the lists,    *)
(* are left out.                                                           *)
(***************************************************************************)
EXTENDS Integers, Sequences, FiniteSets

CONSTANTS
  Authors, Boards,  \* users and the markets they comment on
  Posters,          \* requests handled at the same time
  MaxComments,      \* bound: comments in a behaviour
  LastTick          \* bound: ticks in a behaviour

CommentsAssumption ==
  Posters # {} /\ IsFiniteSet(Posters) /\ MaxComments \in Nat /\ LastTick \in Nat

VARIABLES
  overlapping,  \* whether requests to post overlap
  tick,
  comments,     \* rows, in the order of their creation
  posting       \* create, per request

vars == <<overlapping, tick, comments, posting>>

Cooldown == 1
Ids      == DOMAIN comments
Comment  == [author: Authors, board: Boards, parent: Nat, at: 0..LastTick,
             hidden: BOOLEAN, deleted: BOOLEAN]
NoPost   == [pc |-> "idle"]
Post     == [pc: {"cooldown", "parent", "insert"}, author: Authors, board: Boards, parent: Nat]

TypeOK ==
  /\ overlapping \in BOOLEAN /\ tick \in 0..LastTick
  /\ comments \in Seq(Comment)
  /\ posting \in [Posters -> Post \cup {NoPost}]

Init ==
  /\ overlapping \in BOOLEAN
  /\ tick = 0
  /\ comments = <<>>
  /\ posting = [h \in Posters |-> NoPost]

Tick ==
  /\ tick < LastTick
  /\ tick' = tick + 1
  /\ UNCHANGED <<overlapping, comments, posting>>

-----------------------------------------------------------------------------
Goto(h, post) == posting' = [posting EXCEPT ![h] = post] /\ UNCHANGED <<overlapping, tick>>
To(h, pc)     == [posting[h] EXCEPT !.pc = pc]

(* A comment, or a reply (parent is not 0), with its contents in order. *)
Arrive(h) ==
  /\ posting[h] = NoPost
  /\ overlapping \/ \A g \in Posters : posting[g] = NoPost
  /\ Len(comments) < MaxComments
  /\ \E a \in Authors, b \in Boards, p \in Ids \cup {0} :
       Goto(h, [pc |-> "cooldown", author |-> a, board |-> b, parent |-> p])
  /\ UNCHANGED comments

TooSoon(a) == \E i \in Ids : comments[i].author = a /\ tick - comments[i].at < Cooldown

CheckCooldown(h) ==
  /\ posting[h].pc = "cooldown"
  /\ Goto(h, IF TooSoon(posting[h].author) THEN NoPost
             ELSE To(h, IF posting[h].parent = 0 THEN "insert" ELSE "parent"))
  /\ UNCHANGED comments

(* Mutant: the market of the parent is not compared. *)
MayReplyAnywhere(p, b) == comments[p].parent = 0

MayReply(p, b) == comments[p].parent = 0 /\ comments[p].board = b

CheckParent(h) ==
  /\ posting[h].pc = "parent"
  /\ Goto(h, IF MayReply(posting[h].parent, posting[h].board) THEN To(h, "insert") ELSE NoPost)
  /\ UNCHANGED comments

Insert(h) ==
  LET post == posting[h]
  IN  /\ post.pc = "insert"
      /\ Len(comments) < MaxComments
      /\ comments' = Append(comments,
           [author |-> post.author, board |-> post.board, parent |-> post.parent,
            at |-> tick, hidden |-> FALSE, deleted |-> FALSE])
      /\ Goto(h, NoPost)

-----------------------------------------------------------------------------
Set(i, row) == comments' = [comments EXCEPT ![i] = row] /\ UNCHANGED <<overlapping, tick, posting>>

deleteOwn(a) ==
  \E i \in Ids : comments[i].author = a /\ Set(i, [comments[i] EXCEPT !.deleted = TRUE])

adminDelete == \E i \in Ids : Set(i, [comments[i] EXCEPT !.deleted = TRUE])

adminHide == \E i \in Ids : Set(i, [comments[i] EXCEPT !.hidden = TRUE])

adminUnhide == \E i \in Ids : Set(i, [comments[i] EXCEPT !.hidden = FALSE])

Next ==
  \/ Tick
  \/ \E h \in Posters : Arrive(h) \/ CheckCooldown(h) \/ CheckParent(h) \/ Insert(h)
  \/ \E a \in Authors : deleteOwn(a)
  \/ adminDelete \/ adminHide \/ adminUnhide

Spec == Init /\ [][Next]_vars

-----------------------------------------------------------------------------
Visible(i) == ~comments[i].hidden /\ ~comments[i].deleted

(* The first level by market, the second by parent. *)
listForMarket(b) ==
  LET top == {i \in Ids : comments[i].board = b /\ comments[i].parent = 0 /\ Visible(i)}
  IN  top \cup {i \in Ids : comments[i].parent \in top /\ Visible(i)}

adminListModerationQueue == {i \in Ids : ~comments[i].deleted}

(* Replies go one level deep, are younger than what they answer and stay   *)
(* in its market, whatever happens to the parent between the checks and    *)
(* the insert; so the list of a market, whose second level is fetched by   *)
(* parent alone, shows nothing of another one, and nothing that moderators *)
(* do not see.  A user posts once per cooldown, or, when requests overlap, *)
(* once more for each request that was checked before another's insert.    *)
ThreadsAreOrderly ==
  /\ \A i \in Ids : comments[i].parent # 0 =>
       /\ comments[i].parent < i
       /\ comments[comments[i].parent].parent = 0
  /\ \A b \in Boards : \A i \in listForMarket(b) :
       comments[i].board = b /\ i \in adminListModerationQueue
  /\ \A i \in Ids :
       Cardinality({j \in Ids : /\ comments[j].author = comments[i].author
                                /\ comments[j].at - comments[i].at \in 0..(Cooldown - 1)})
         <= IF overlapping THEN Cardinality(Posters) ELSE 1
=============================================================================
