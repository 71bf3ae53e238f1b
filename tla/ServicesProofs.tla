----------------------------- MODULE ServicesProofs -----------------------------
(***************************************************************************)
(* The services around the money do what the properties of Services say    *)
(* for every number of handlers, users, messages, rows and markets.        *)
(*                                                                         *)
(* A behaviour of Services is, seen by each service, a behaviour of it or  *)
(* of its initial state at rest; so each service has an inductive          *)
(* invariant of its own: ThreadInv, BellInv, StageInv (with KycInv,        *)
(* SessionsInv and CodesInv), BoardInv and VerdictInv.                     *)
(***************************************************************************)
EXTENDS Services, FiniteSetTheorems, SequenceTheorems, SumProofs, TLAPS

-----------------------------------------------------------------------------
(* Comments.  A request that has found the comment it answers finds it     *)
(* again, because rows are never removed; and an author's comments of      *)
(* this minute and requests past the cooldown are together no more than    *)
(* the requests that overlap.                                              *)

LEMMA ComCardinality == \A S : Com!Cardinality(S) = Cardinality(S)
BY DEF Com!Cardinality, Cardinality

LEMMA PostersFinite == IsFiniteSet(Posters)
BY ServicesAssumption DEF Com!CommentsAssumption, Com!IsFiniteSet, IsFiniteSet

(* What the comments service does of a behaviour. *)
LEMMA CommentsBehave == Spec => Com!Spec
<1>1. Init => Com!Init
  BY DEF Init
<1>2. [Next]_vars => [Com!Next]_Com!vars
  <2> SUFFICES ASSUME [Next]_vars PROVE [Com!Next]_threads
    BY DEF threads, Com!vars
  <2> QED BY DEF Next, vars, AccountsStep, AnalyticsStep, CommentsStep, NotificationsStep,
                 MarketStep
<1> QED BY <1>1, <1>2, PTL DEF Spec, Com!Spec

(* A row keeps what it was created with. *)
SameRow(c, d) == c.author = d.author /\ c.board = d.board /\ c.parent = d.parent /\ c.at = d.at

(* Comment p of the first n may be replied to in market b.                 *)
Reply(p, b, n) == p \in 1..n /\ comments[p].parent = 0 /\ comments[p].board = b

(* What a request has found of the comment it answers is still true. *)
Answers(q, n) ==
  /\ q.pc # "idle" => q.parent \in 0..n
  /\ q.pc = "insert" => q.parent = 0 \/ Reply(q.parent, q.board, n)

(* What author a has posted at t, and may still post with the requests     *)
(* that are past the cooldown; and how many that may be.                   *)
At(a, t)  == {j \in 1..Len(comments) : comments[j].author = a /\ comments[j].at = t}
Past(a)   == {h \in Posters : posting[h].pc \in {"parent", "insert"} /\ posting[h].author = a}
Cap       == IF overlapping THEN Cardinality(Posters) ELSE 1

(* What a request has found is still so, requests come in turn if they do   *)
(* not overlap, threads are one level deep in one market, and posting is    *)
(* limited, the requests past the cooldown included.                       *)
ThreadInv ==
  /\ Com!TypeOK
  /\ \A h \in Posters : Answers(posting[h], Len(comments))
  /\ ~overlapping => \A g, h \in Posters : posting[g].pc # "idle" /\ posting[h].pc # "idle" =>
       g = h
  /\ \A i \in 1..Len(comments) :
       /\ comments[i].at <= tick
       /\ comments[i].parent # 0 =>
            /\ comments[i].parent < i
            /\ Reply(comments[i].parent, comments[i].board, Len(comments))
  /\ \A a \in Authors, t \in 0..LastTick :
       Cardinality(At(a, t)) + (IF t = tick THEN Cardinality(Past(a)) ELSE 0) <= Cap

LEMMA PostingType ==
  ASSUME Com!TypeOK, NEW h \in Posters
  PROVE  /\ posting[h] = Com!NoPost \/ posting[h] \in Com!Post
         /\ posting[h] = Com!NoPost <=> posting[h].pc = "idle"
         /\ posting[h].pc # "idle" => /\ posting[h].author \in Authors
              /\ posting[h].board \in Boards
                                      /\ posting[h].parent \in Nat
                                      /\ posting[h].pc \in {"cooldown", "parent", "insert"}
BY DEF Com!TypeOK, Com!Post, Com!NoPost

LEMMA ThreadFacts ==
  ASSUME ThreadInv
  PROVE  /\ tick \in 0..LastTick /\ overlapping \in BOOLEAN
         /\ comments \in Seq(Com!Comment) /\ Len(comments) \in Nat
         /\ \A i \in 1..Len(comments) : comments[i] \in Com!Comment
         /\ DOMAIN posting = Posters
         /\ LastTick \in Nat
BY ServicesAssumption DEF ThreadInv, Com!TypeOK, Com!CommentsAssumption

LEMMA PastFinite ==
  ASSUME NEW a
  PROVE  /\ IsFiniteSet(Past(a)) /\ Cardinality(Past(a)) \in Nat
         /\ Cardinality(Past(a)) <= Cardinality(Posters)
         /\ Cardinality(Posters) \in Nat /\ Cardinality(Posters) >= 1
<1>1. Past(a) \subseteq Posters
  BY DEF Past
<1>2. Posters # {}
  BY ServicesAssumption DEF Com!CommentsAssumption
<1>3. Cardinality(Posters) \in Nat /\ Cardinality(Posters) # 0
  BY <1>2, PostersFinite, FS_CardinalityType, FS_EmptySet
<1> QED BY <1>1, <1>3, PostersFinite, FS_Subset, FS_CardinalityType

LEMMA AtFinite ==
  ASSUME Len(comments) \in Nat, NEW a, NEW t
  PROVE  IsFiniteSet(At(a, t)) /\ Cardinality(At(a, t)) \in Nat
<1>1. At(a, t) \subseteq 1..Len(comments) /\ IsFiniteSet(1..Len(comments))
  BY FS_Interval DEF At
<1> QED BY <1>1, FS_Subset, FS_CardinalityType

(* A step of one request, which leaves the rows alone. *)
LEMMA RequestStep ==
  ASSUME ThreadInv, Com!TypeOK', NEW h \in Posters,
         UNCHANGED <<overlapping, tick, comments>>,
         \A g \in Posters \ {h} : posting'[g] = posting[g],
         posting'[h].pc = "idle" \/ posting[h].pc # "idle" \/ overlapping
           \/ \A g \in Posters : posting[g].pc = "idle",
         Answers(posting'[h], Len(comments)),
         \A a \in Authors : Cardinality(At(a, tick)) + Cardinality(Past(a)') <= Cap
  PROVE  ThreadInv'
<1>1. ASSUME NEW g \in Posters PROVE Answers(posting[g], Len(comments))'
  <2>1. Answers(posting'[g], Len(comments))
    BY DEF ThreadInv
  <2> QED BY <2>1 DEF Answers, Reply
<1>2. ~overlapping' => \A f, g \in Posters :
                        posting'[f].pc # "idle" /\ posting'[g].pc # "idle" => f = g
  BY DEF ThreadInv
<1>3. \A i \in 1..Len(comments') :
       /\ comments'[i].at <= tick'
       /\ comments'[i].parent # 0 =>
            /\ comments'[i].parent < i
            /\ Reply(comments[i].parent, comments[i].board, Len(comments))'
  BY DEF ThreadInv, Reply
<1>4. ASSUME NEW a \in Authors, NEW t \in 0..LastTick
      PROVE  Cardinality(At(a, t)') + (IF t = tick' THEN Cardinality(Past(a)') ELSE 0) <= Cap'
  <2>1. At(a, t)' = At(a, t) /\ Cap' = Cap
    BY DEF At, Cap
  <2> QED BY <2>1 DEF ThreadInv
<1> QED BY <1>1, <1>2, <1>3, <1>4 DEF ThreadInv, Reply

(* A step that shows no more requests past the cooldown. *)
LEMMA NoMorePast ==
  ASSUME ThreadInv, NEW h \in Posters, NEW a \in Authors,
         \A g \in Posters \ {h} : posting'[g] = posting[g],
         posting'[h].pc \in {"parent", "insert"} => h \in Past(posting'[h].author)
  PROVE  Cardinality(At(a, tick)) + Cardinality(Past(a)') <= Cap
<1>1. Past(a)' \subseteq Past(a)
  BY DEF Past
<1>2. Cardinality(Past(a)') <= Cardinality(Past(a)) /\ Cardinality(Past(a)') \in Nat
  BY <1>1, PastFinite, FS_Subset, FS_CardinalityType
<1>3. Cardinality(At(a, tick)) + Cardinality(Past(a)) <= Cap
  BY ThreadFacts DEF ThreadInv
<1>4. Cardinality(At(a, tick)) \in Nat /\ Cardinality(Past(a)) \in Nat /\ Cap \in Nat
  BY ThreadFacts, AtFinite, PastFinite DEF Cap
<1> QED BY <1>2, <1>3, <1>4

LEMMA ArriveThreads ==
  ASSUME ThreadInv, NEW h \in Posters, Com!Arrive(h)
  PROVE  ThreadInv'
<1>1. PICK a \in Authors, b \in Boards, p \in Com!Ids \cup {0} :
        posting' = [posting EXCEPT ![h] =
                      [pc |-> "cooldown", author |-> a, board |-> b, parent |-> p]]
  BY DEF Com!Arrive, Com!Goto
<1>0. p \in 0..Len(comments)
  BY ThreadFacts DEF Com!Ids
<1> DEFINE q == [pc |-> "cooldown", author |-> a, board |-> b, parent |-> p]
<1>2. q \in Com!Post /\ q.pc = "cooldown" /\ q.parent = p
  BY <1>0, ThreadFacts DEF Com!Post
<1>3. posting' = [posting EXCEPT ![h] = q]
  BY <1>1
<1> HIDE DEF q
<1>4. posting'[h] = q /\ \A g \in Posters \ {h} : posting'[g] = posting[g]
  BY <1>3, ThreadFacts
<1>5. UNCHANGED <<overlapping, tick, comments>>
  BY DEF Com!Arrive, Com!Goto
<1>6. Com!TypeOK'
  BY <1>2, <1>3, <1>5 DEF ThreadInv, Com!TypeOK
<1>7. Answers(posting'[h], Len(comments))
  BY <1>0, <1>2, <1>4 DEF Answers
<1>8. overlapping \/ \A g \in Posters : posting[g].pc = "idle"
  BY DEF Com!Arrive, Com!NoPost
<1>9. \A c \in Authors : Cardinality(At(c, tick)) + Cardinality(Past(c)') <= Cap
  BY <1>2, <1>4, NoMorePast
<1> QED BY <1>4, <1>5, <1>6, <1>7, <1>8, <1>9, RequestStep

(* A request that goes on to q, or ends. *)
LEMMA GoesOn ==
  ASSUME ThreadInv, NEW h \in Posters, NEW pc \in {"parent", "insert"},
         posting[h].pc # "idle"
  PROVE  /\ Com!To(h, pc) \in Com!Post
         /\ Com!To(h, pc).pc = pc
         /\ Com!To(h, pc).author = posting[h].author
         /\ Com!To(h, pc).board = posting[h].board
         /\ Com!To(h, pc).parent = posting[h].parent
<1>1. posting[h] \in Com!Post
  BY PostingType DEF ThreadInv
<1> QED BY <1>1 DEF Com!To, Com!Post

LEMMA GotoThreads ==
  ASSUME ThreadInv, NEW h \in Posters, NEW q, Com!Goto(h, q), UNCHANGED comments,
         q = Com!NoPost \/ q \in Com!Post
  PROVE  /\ Com!TypeOK' /\ UNCHANGED <<overlapping, tick, comments>>
         /\ posting'[h] = q /\ \A g \in Posters \ {h} : posting'[g] = posting[g]
BY ThreadFacts DEF ThreadInv, Com!Goto, Com!TypeOK

LEMMA EndThreads ==
  ASSUME ThreadInv, NEW h \in Posters, Com!Goto(h, Com!NoPost), UNCHANGED comments
  PROVE  ThreadInv'
<1>1. /\ Com!TypeOK' /\ UNCHANGED <<overlapping, tick, comments>>
      /\ posting'[h] = Com!NoPost /\ \A g \in Posters \ {h} : posting'[g] = posting[g]
  BY GotoThreads
<1>2. posting'[h].pc = "idle"
  BY <1>1 DEF Com!NoPost
<1>3. Answers(posting'[h], Len(comments))
  BY <1>2 DEF Answers
<1>4. \A a \in Authors : Cardinality(At(a, tick)) + Cardinality(Past(a)') <= Cap
  BY <1>1, <1>2, NoMorePast
<1> QED BY <1>1, <1>2, <1>3, <1>4, RequestStep

LEMMA CooldownThreads ==
  ASSUME ThreadInv, NEW h \in Posters, Com!CheckCooldown(h)
  PROVE  ThreadInv'
<1>1. CASE Com!TooSoon(posting[h].author)
  BY <1>1, EndThreads DEF Com!CheckCooldown
<1>2. CASE ~Com!TooSoon(posting[h].author)
  <2>0. posting[h].pc = "cooldown" /\ UNCHANGED comments
    BY DEF Com!CheckCooldown
  <2>1. PICK pc \in {"parent", "insert"} :
          /\ Com!Goto(h, Com!To(h, pc))
          /\ pc = "insert" => posting[h].parent = 0
    BY <1>2 DEF Com!CheckCooldown
  <2>2. /\ Com!To(h, pc) \in Com!Post /\ Com!To(h, pc).pc = pc
        /\ Com!To(h, pc).author = posting[h].author
        /\ Com!To(h, pc).parent = posting[h].parent
    BY <2>0, GoesOn
  <2>3. /\ Com!TypeOK' /\ UNCHANGED <<overlapping, tick, comments>>
        /\ posting'[h] = Com!To(h, pc) /\ \A g \in Posters \ {h} : posting'[g] = posting[g]
    BY <2>0, <2>1, <2>2, GotoThreads
  <2>4. Answers(posting'[h], Len(comments))
    BY <2>0, <2>1, <2>2, <2>3 DEF ThreadInv, Answers
  <2>5. ASSUME NEW a \in Authors
        PROVE  Cardinality(At(a, tick)) + Cardinality(Past(a)') <= Cap
    <3>1. CASE a # posting[h].author
      <4>1. Past(a)' \subseteq Past(a)
        BY <2>2, <2>3, <3>1 DEF Past
      <4>2. Cardinality(Past(a)') <= Cardinality(Past(a)) /\ Cardinality(Past(a)') \in Nat
        BY <4>1, PastFinite, FS_Subset, FS_CardinalityType
      <4>3. Cardinality(At(a, tick)) + Cardinality(Past(a)) <= Cap
        BY ThreadFacts DEF ThreadInv
      <4>4. Cardinality(At(a, tick)) \in Nat /\ Cardinality(Past(a)) \in Nat /\ Cap \in Nat
        BY ThreadFacts, AtFinite, PastFinite DEF Cap
      <4> QED BY <4>2, <4>3, <4>4
    <3>2. CASE a = posting[h].author
      <4>1. ASSUME NEW j \in At(a, tick) PROVE FALSE
        <5>1. j \in Com!Ids /\ comments[j].author = a /\ comments[j].at = tick
          BY ThreadFacts DEF At, Com!Ids
        <5> QED BY <1>2, <3>2, <5>1, ThreadFacts DEF Com!TooSoon, Com!Cooldown
      <4>2. At(a, tick) = {} /\ Cardinality(At(a, tick)) = 0
        BY <4>1, FS_EmptySet
      <4>3. Past(a)' \subseteq Posters
        BY DEF Past
      <4>4. Cardinality(Past(a)') <= Cardinality(Posters) /\ Cardinality(Past(a)') \in Nat
        BY <4>3, PostersFinite, FS_Subset, FS_CardinalityType
      <4>5. ASSUME ~overlapping PROVE Cardinality(Past(a)') <= 1
        <5>1. \A g \in Posters \ {h} : posting[g].pc = "idle"
          BY <2>0, <4>5 DEF ThreadInv
        <5>2. Past(a)' \subseteq {h}
          BY <2>3, <5>1 DEF Past
        <5>3. IsFiniteSet({h}) /\ Cardinality({h}) = 1
          BY FS_Singleton
        <5> QED BY <5>2, <5>3, FS_Subset
      <4> QED BY <4>2, <4>4, <4>5 DEF Cap
    <3> QED BY <3>1, <3>2
  <2> QED BY <2>0, <2>3, <2>4, <2>5, RequestStep
<1> QED BY <1>1, <1>2

LEMMA ParentThreads ==
  ASSUME ThreadInv, NEW h \in Posters, Com!CheckParent(h)
  PROVE  ThreadInv'
<1>0. posting[h].pc = "parent" /\ UNCHANGED comments
  BY DEF Com!CheckParent
<1>1. CASE ~Com!MayReply(posting[h].parent, posting[h].board)
  BY <1>0, <1>1, EndThreads DEF Com!CheckParent
<1>2. CASE Com!MayReply(posting[h].parent, posting[h].board)
  <2>1. Com!Goto(h, Com!To(h, "insert"))
    BY <1>2 DEF Com!CheckParent
  <2>2. /\ Com!To(h, "insert") \in Com!Post /\ Com!To(h, "insert").pc = "insert"
        /\ Com!To(h, "insert").author = posting[h].author
        /\ Com!To(h, "insert").board = posting[h].board
        /\ Com!To(h, "insert").parent = posting[h].parent
    BY <1>0, GoesOn
  <2>3. /\ Com!TypeOK' /\ UNCHANGED <<overlapping, tick, comments>>
        /\ posting'[h] = Com!To(h, "insert")
             /\ \A g \in Posters \ {h} : posting'[g] = posting[g]
    BY <1>0, <2>1, <2>2, GotoThreads
  <2>4. Answers(posting[h], Len(comments))
    BY DEF ThreadInv
  <2>5. posting[h].parent \in 0..Len(comments) /\ Len(comments) \in Nat
    BY <1>0, <2>4, ThreadFacts DEF Answers
  <2>6. Answers(posting'[h], Len(comments))
    BY <1>2, <2>2, <2>3, <2>5 DEF Answers, Reply, Com!MayReply
  <2>7. \A a \in Authors : Cardinality(At(a, tick)) + Cardinality(Past(a)') <= Cap
    <3>1. h \in Past(posting'[h].author)
      BY <1>0, <2>2, <2>3 DEF Past
    <3> QED BY <2>3, <3>1, NoMorePast
  <2> QED BY <1>0, <2>3, <2>6, <2>7, RequestStep
<1> QED BY <1>1, <1>2

LEMMA InsertThreads ==
  ASSUME ThreadInv, NEW h \in Posters, Com!Insert(h)
  PROVE  ThreadInv'
<1> DEFINE n == Len(comments)
           a == posting[h].author
           row == [author |-> a, board |-> posting[h].board, parent |-> posting[h].parent,
                   at |-> tick, hidden |-> FALSE, deleted |-> FALSE]
<1>1. /\ posting[h].pc = "insert" /\ a \in Authors /\ posting[h].board \in Boards
      /\ posting[h].parent \in Nat /\ n \in Nat /\ row \in Com!Comment
  <2>1. posting[h].pc = "insert"
    BY DEF Com!Insert
  <2> QED BY <2>1, PostingType, ThreadFacts DEF ThreadInv, Com!Comment
<1>2. comments' = Append(comments, row) /\ UNCHANGED <<overlapping, tick>>
  BY DEF Com!Insert, Com!Goto
<1>3. /\ row.author = a /\ row.board = posting[h].board /\ row.parent = posting[h].parent
      /\ row.at = tick
  OBVIOUS
<1> HIDE DEF row
<1>4. /\ Len(comments') = n + 1 /\ comments'[n + 1] = row
      /\ \A i \in 1..n : comments'[i] = comments[i]
      /\ comments' \in Seq(Com!Comment)
  BY <1>1, <1>2, ThreadFacts
<1>5. posting' = [posting EXCEPT ![h] = Com!NoPost]
  BY DEF Com!Insert, Com!Goto
<1>6. /\ posting'[h] = Com!NoPost /\ posting'[h].pc = "idle"
      /\ \A g \in Posters \ {h} : posting'[g] = posting[g]
  BY <1>5, ThreadFacts DEF Com!NoPost
<1>7. Com!TypeOK'
  BY <1>2, <1>4, <1>5 DEF ThreadInv, Com!TypeOK
<1>8. ASSUME NEW g \in Posters PROVE Answers(posting[g], Len(comments))'
  <2>1. CASE g = h
    BY <1>6, <2>1 DEF Answers
  <2>2. CASE g # h
    <3>1. Answers(posting[g], Len(comments))
      BY DEF ThreadInv
    <3> QED BY <1>1, <1>4, <1>6, <2>2, <3>1 DEF Answers, Reply
  <2> QED BY <2>1, <2>2
<1>9. ~overlapping' => \A f, g \in Posters :
                        posting'[f].pc # "idle" /\ posting'[g].pc # "idle" => f = g
  BY <1>2, <1>6 DEF ThreadInv
<1>10. ASSUME NEW i \in 1..Len(comments')
       PROVE  /\ comments'[i].at <= tick'
              /\ comments'[i].parent # 0 =>
                   /\ comments'[i].parent < i
                   /\ Reply(comments[i].parent, comments[i].board, Len(comments))'
  <2>1. CASE i \in 1..n
    <3>1. /\ comments[i].at <= tick
          /\ comments[i].parent # 0 =>
               /\ comments[i].parent < i
               /\ Reply(comments[i].parent, comments[i].board, Len(comments))
      BY <2>1 DEF ThreadInv
    <3> QED BY <1>1, <1>2, <1>4, <2>1, <3>1 DEF Reply
  <2>2. CASE i = n + 1
    <3>1. Answers(posting[h], Len(comments))
      BY DEF ThreadInv
    <3>2. row.parent # 0 => row.parent \in 1..n /\ Reply(row.parent, row.board, n)
      BY <1>1, <1>3, <3>1 DEF Answers, Reply
    <3>3. tick \in Nat
      BY ThreadFacts
    <3> QED BY <1>1, <1>2, <1>3, <1>4, <2>2, <3>2, <3>3 DEF Reply
  <2> QED BY <1>1, <1>4, <2>1, <2>2
<1>11. ASSUME NEW b \in Authors, NEW t \in 0..LastTick
       PROVE  Cardinality(At(b, t)') + (IF t = tick' THEN Cardinality(Past(b)') ELSE 0) <= Cap'
  <2>0. Cap' = Cap /\ Cap \in Nat
    BY <1>2, PastFinite DEF Cap
  <2>1. Cardinality(At(b, t)) + (IF t = tick THEN Cardinality(Past(b)) ELSE 0) <= Cap
    BY DEF ThreadInv
  <2>2. IsFiniteSet(At(b, t)) /\ IsFiniteSet(Past(b))
    BY <1>1, AtFinite, PastFinite
  <2>3. Cardinality(At(b, t)) \in Nat /\ Cardinality(Past(b)) \in Nat
    BY <2>2, FS_CardinalityType
  <2>4. CASE b = a /\ t = tick
    <3>1. At(b, t)' = At(b, t) \cup {n + 1} /\ n + 1 \notin At(b, t)
      BY <1>1, <1>3, <1>4, <2>4 DEF At
    <3>2. Past(b)' = Past(b) \ {h} /\ h \in Past(b)
      BY <1>1, <1>6, <2>4 DEF Past
    <3>3. Cardinality(At(b, t)') = Cardinality(At(b, t)) + 1
      BY <2>2, <3>1, FS_AddElement
    <3>4. Cardinality(Past(b)') = Cardinality(Past(b)) - 1
      BY <2>2, <3>2, FS_RemoveElement
    <3> QED BY <1>2, <2>0, <2>1, <2>3, <2>4, <3>3, <3>4
  <2>5. CASE ~(b = a /\ t = tick)
    <3>1. At(b, t)' = At(b, t)
      BY <1>1, <1>3, <1>4, <2>5 DEF At
    <3>2. Past(b)' \subseteq Past(b)
      BY <1>6 DEF Past
    <3>3. Cardinality(Past(b)') <= Cardinality(Past(b)) /\ Cardinality(Past(b)') \in Nat
      BY <2>2, <3>2, FS_Subset, FS_CardinalityType
    <3> QED BY <1>2, <2>0, <2>1, <2>3, <3>1, <3>3
  <2> QED BY <2>4, <2>5
<1> QED BY <1>7, <1>8, <1>9, <1>10, <1>11 DEF ThreadInv, Reply

(* Deleting and hiding. *)
LEMMA EditThreads ==
  ASSUME ThreadInv, NEW i \in Com!Ids, NEW row \in Com!Comment,
         SameRow(row, comments[i]), Com!Set(i, row)
  PROVE  ThreadInv'
<1>0. i \in 1..Len(comments) /\ Len(comments) \in Nat
  BY ThreadFacts DEF Com!Ids
<1>1. comments' = [comments EXCEPT ![i] = row] /\ UNCHANGED <<overlapping, tick, posting>>
  BY DEF Com!Set
<1>2. /\ comments' \in Seq(Com!Comment) /\ Len(comments') = Len(comments)
      /\ \A j \in 1..Len(comments) : SameRow(comments'[j], comments[j])
  BY <1>0, <1>1, ThreadFacts DEF SameRow
<1>3. Com!TypeOK'
  BY <1>1, <1>2 DEF ThreadInv, Com!TypeOK
<1>4. ASSUME NEW g \in Posters PROVE Answers(posting[g], Len(comments))'
  <2>1. Answers(posting[g], Len(comments))
    BY DEF ThreadInv
  <2> QED BY <1>1, <1>2, <2>1 DEF Answers, Reply, SameRow
<1>5. ~overlapping' => \A f, g \in Posters :
                        posting'[f].pc # "idle" /\ posting'[g].pc # "idle" => f = g
  BY <1>1 DEF ThreadInv
<1>6. ASSUME NEW j \in 1..Len(comments')
      PROVE  /\ comments'[j].at <= tick'
             /\ comments'[j].parent # 0 =>
                  /\ comments'[j].parent < j
                  /\ Reply(comments[j].parent, comments[j].board, Len(comments))'
  <2>1. /\ comments[j].at <= tick
        /\ comments[j].parent # 0 =>
             /\ comments[j].parent < j
             /\ Reply(comments[j].parent, comments[j].board, Len(comments))
    BY <1>2 DEF ThreadInv
  <2> QED BY <1>1, <1>2, <2>1 DEF Reply, SameRow
<1>7. ASSUME NEW b \in Authors, NEW t \in 0..LastTick
      PROVE  Cardinality(At(b, t)') + (IF t = tick' THEN Cardinality(Past(b)') ELSE 0) <= Cap'
  <2>1. Cardinality(At(b, t)) + (IF t = tick THEN Cardinality(Past(b)) ELSE 0) <= Cap
    BY DEF ThreadInv
  <2>2. At(b, t)' = At(b, t) /\ Past(b)' = Past(b) /\ Cap' = Cap
    BY <1>1, <1>2 DEF At, SameRow, Past, Cap
  <2> QED BY <1>1, <2>1, <2>2
<1> QED BY <1>3, <1>4, <1>5, <1>6, <1>7 DEF ThreadInv, Reply

LEMMA TickThreads ==
  ASSUME ThreadInv, Com!Tick
  PROVE  ThreadInv'
<1>1. tick' = tick + 1 /\ tick < LastTick /\ UNCHANGED <<overlapping, comments, posting>>
  BY DEF Com!Tick
<1>2. tick \in Nat /\ LastTick \in Nat /\ Com!TypeOK'
  BY <1>1, ThreadFacts DEF ThreadInv, Com!TypeOK
<1>3. ASSUME NEW g \in Posters PROVE Answers(posting[g], Len(comments))'
  <2>1. Answers(posting[g], Len(comments))
    BY DEF ThreadInv
  <2> QED BY <1>1, <2>1 DEF Answers, Reply
<1>4. ASSUME NEW i \in 1..Len(comments')
      PROVE  /\ comments'[i].at <= tick'
             /\ comments'[i].parent # 0 =>
                  /\ comments'[i].parent < i
                  /\ Reply(comments[i].parent, comments[i].board, Len(comments))'
  <2>1. /\ comments[i].at <= tick /\ comments[i].at \in Nat
        /\ comments[i].parent # 0 =>
             /\ comments[i].parent < i
             /\ Reply(comments[i].parent, comments[i].board, Len(comments))
    BY <1>1, ThreadFacts DEF ThreadInv, Com!Comment
  <2> QED BY <1>1, <1>2, <2>1 DEF Reply
<1>5. ASSUME NEW b \in Authors, NEW t \in 0..LastTick
      PROVE  Cardinality(At(b, t)') + (IF t = tick' THEN Cardinality(Past(b)') ELSE 0) <= Cap'
  <2>1. At(b, t)' = At(b, t) /\ Past(b)' = Past(b) /\ Cap' = Cap
    BY <1>1 DEF At, Past, Cap
  <2>2. Cardinality(At(b, t)) + (IF t = tick THEN Cardinality(Past(b)) ELSE 0) <= Cap
    BY DEF ThreadInv
  <2>3. /\ Cardinality(At(b, t)) \in Nat /\ Cardinality(Past(b)) \in Nat /\ Cap \in Nat
        /\ Cardinality(At(b, tick)) \in Nat
    BY ThreadFacts, AtFinite, PastFinite DEF Cap
  <2>4. CASE t = tick + 1
    <3>1. At(b, t) = {}
      BY <1>2, <2>4 DEF At, ThreadInv
    <3>2. Cardinality(At(b, t)) = 0
      BY <3>1, FS_EmptySet
    <3>3. Cardinality(At(b, tick)) + Cardinality(Past(b)) <= Cap
      BY ThreadFacts DEF ThreadInv
    <3> QED BY <1>1, <2>1, <2>3, <2>4, <3>2, <3>3
  <2>5. CASE t # tick + 1
    BY <1>1, <2>1, <2>2, <2>3, <2>5
  <2> QED BY <2>4, <2>5
<1>6. ~overlapping' => \A f, g \in Posters :
                        posting'[f].pc # "idle" /\ posting'[g].pc # "idle" => f = g
  BY <1>1 DEF ThreadInv
<1> QED BY <1>2, <1>3, <1>4, <1>5, <1>6 DEF ThreadInv, Reply

LEMMA InitThreads == Com!Init => ThreadInv
<1> SUFFICES ASSUME Com!Init PROVE ThreadInv
  OBVIOUS
<1>1. comments = << >> /\ tick = 0 /\ \A h \in Posters : posting[h].pc = "idle"
  BY DEF Com!Init, Com!NoPost
<1>2. Com!TypeOK /\ LastTick \in Nat
  BY ServicesAssumption DEF Com!Init, Com!TypeOK, Com!CommentsAssumption
<1>3. ASSUME NEW a \in Authors, NEW t \in 0..LastTick
      PROVE  Cardinality(At(a, t)) + (IF t = tick THEN Cardinality(Past(a)) ELSE 0) <= Cap
  <2>1. At(a, t) = {} /\ Past(a) = {}
    BY <1>1 DEF At, Past
  <2>2. Cap \in Nat
    BY PastFinite DEF Cap
  <2> QED BY <2>1, <2>2, FS_EmptySet
<1> QED BY <1>1, <1>2, <1>3 DEF ThreadInv, Answers

LEMMA NextThreads == ThreadInv /\ [Com!Next]_Com!vars => ThreadInv'
<1> SUFFICES ASSUME ThreadInv, [Com!Next]_Com!vars PROVE ThreadInv'
  OBVIOUS
<1>1. CASE Com!Tick
  BY <1>1, TickThreads
<1>2. ASSUME NEW h \in Posters,
             Com!Arrive(h) \/ Com!CheckCooldown(h) \/ Com!CheckParent(h) \/ Com!Insert(h)
      PROVE  ThreadInv'
  BY <1>2, ArriveThreads, CooldownThreads, ParentThreads, InsertThreads
<1>3. CASE (\E a \in Authors : Com!deleteOwn(a)) \/ Com!adminDelete \/ Com!adminHide
           \/ Com!adminUnhide
  <2>1. PICK i \in Com!Ids :
          \/ Com!Set(i, [comments[i] EXCEPT !.deleted = TRUE])
          \/ \E b \in BOOLEAN : Com!Set(i, [comments[i] EXCEPT !.hidden = b])
    BY <1>3 DEF Com!deleteOwn, Com!adminDelete, Com!adminHide, Com!adminUnhide
  <2>2. comments[i] \in Com!Comment
    BY <2>1, ThreadFacts DEF Com!Ids
  <2>3. CASE Com!Set(i, [comments[i] EXCEPT !.deleted = TRUE])
    <3> DEFINE row == [comments[i] EXCEPT !.deleted = TRUE]
    <3>1. row \in Com!Comment /\ SameRow(row, comments[i])
      BY <2>2 DEF Com!Comment, SameRow
    <3> HIDE DEF row
    <3>2. Com!Set(i, row)
      BY <2>3 DEF row
    <3> QED BY <3>1, <3>2, EditThreads
  <2>4. ASSUME NEW b \in BOOLEAN, Com!Set(i, [comments[i] EXCEPT !.hidden = b])
        PROVE  ThreadInv'
    <3> DEFINE row == [comments[i] EXCEPT !.hidden = b]
    <3>1. row \in Com!Comment /\ SameRow(row, comments[i])
      BY <2>2 DEF Com!Comment, SameRow
    <3> HIDE DEF row
    <3>2. Com!Set(i, row)
      BY <2>4 DEF row
    <3> QED BY <3>1, <3>2, EditThreads
  <2> QED BY <2>1, <2>3, <2>4
<1>4. CASE UNCHANGED Com!vars
  <2>1. UNCHANGED <<overlapping, tick, comments, posting>>
    BY <1>4 DEF Com!vars
  <2> QED BY <2>1 DEF ThreadInv, Com!TypeOK, Answers, Reply, At, Past, Cap, Com!Comment,
                      Com!Post, Com!NoPost
<1> QED BY <1>1, <1>2, <1>3, <1>4 DEF Com!Next

LEMMA ThreadInvariant == Spec => []ThreadInv
<1>1. Com!Spec => []ThreadInv
  BY InitThreads, NextThreads, PTL DEF Com!Spec
<1> QED BY <1>1, CommentsBehave, PTL

(* Replies stay in the market of what they answer and one level deep, what *)
(* is listed is in the moderators' queue, and within a cooldown an author  *)
(* posts at most once, or once for each request that overlaps: for any     *)
(* authors, markets, requests and comments.                                *)
THEOREM ThreadsAreOrderlyHolds == Spec => []ThreadsAreOrderly
<1>1. ThreadInv => ThreadsAreOrderly
  <2> SUFFICES ASSUME ThreadInv PROVE Com!ThreadsAreOrderly
    BY DEF ThreadsAreOrderly
  <2>0. Com!Ids = 1..Len(comments)
    BY ThreadFacts DEF Com!Ids
  <2>1. \A i \in Com!Ids : comments[i].parent # 0 =>
          /\ comments[i].parent < i
          /\ comments[comments[i].parent].parent = 0
    BY <2>0 DEF ThreadInv, Reply
  <2>2. ASSUME NEW b \in Boards, NEW i \in Com!listForMarket(b)
        PROVE  comments[i].board = b /\ i \in Com!adminListModerationQueue
    <3>1. i \in Com!Ids /\ Com!Visible(i)
      BY DEF Com!listForMarket
    <3>2. CASE comments[i].parent = 0
      <4>1. 0 \notin Com!Ids
        BY <2>0
      <4>2. comments[i].board = b
        BY <3>2, <4>1 DEF Com!listForMarket
      <4> QED BY <3>1, <4>2 DEF Com!adminListModerationQueue, Com!Visible
    <3>3. CASE comments[i].parent # 0
      <4>1. comments[comments[i].parent].parent = 0
              /\ comments[comments[i].parent].board = comments[i].board
        BY <2>0, <3>1, <3>3 DEF ThreadInv, Reply
      <4>2. comments[comments[i].parent].board = b
        BY <3>3 DEF Com!listForMarket
      <4> QED BY <3>1, <4>1, <4>2 DEF Com!adminListModerationQueue, Com!Visible
    <3> QED BY <3>2, <3>3
  <2>3. ASSUME NEW i \in Com!Ids
        PROVE  Cardinality({j \in Com!Ids :
                              /\ comments[j].author = comments[i].author
                              /\ comments[j].at - comments[i].at \in 0..(Com!Cooldown - 1)})
                 <= IF overlapping THEN Cardinality(Posters) ELSE 1
    <3>1. /\ \A j \in Com!Ids : comments[j].at \in 0..LastTick
          /\ comments[i].author \in Authors
      BY <2>0, ThreadFacts DEF Com!Comment
    <3>2. {j \in Com!Ids : /\ comments[j].author = comments[i].author
                           /\ comments[j].at - comments[i].at \in 0..(Com!Cooldown - 1)}
            = At(comments[i].author, comments[i].at)
      <4>1. \A j \in Com!Ids : comments[j].at - comments[i].at \in 0..(Com!Cooldown - 1)
                                <=> comments[j].at = comments[i].at
        BY <3>1 DEF Com!Cooldown
      <4> QED BY <2>0, <4>1 DEF At
    <3>3. Cardinality(At(comments[i].author, comments[i].at))
            + (IF comments[i].at = tick THEN Cardinality(Past(comments[i].author)) ELSE 0)
              <= Cap
      BY <3>1 DEF ThreadInv
    <3>4. /\ Cardinality(At(comments[i].author, comments[i].at)) \in Nat
          /\ Cardinality(Past(comments[i].author)) \in Nat /\ Cap \in Nat
      BY ThreadFacts, AtFinite, PastFinite DEF Cap
    <3>5. Cardinality(At(comments[i].author, comments[i].at)) <= Cap
      BY <3>3, <3>4
    <3> QED BY <3>2, <3>5 DEF Cap
  <2> QED BY <2>1, <2>2, <2>3, ComCardinality DEF Com!ThreadsAreOrderly
<1> QED BY <1>1, ThreadInvariant, PTL

-----------------------------------------------------------------------------
(* Notifications.  The row a handler has created is there until the        *)
(* message is acknowledged, so that only a crash between the two makes it  *)
(* create another.                                                         *)

LEMMA NotCardinality == \A S : Not!Cardinality(S) = Cardinality(S)
BY DEF Not!Cardinality, Cardinality

LEMMA NotFinite == \A S : Not!IsFiniteSet(S) <=> IsFiniteSet(S)
BY DEF Not!IsFiniteSet, IsFiniteSet

(* What the notification service does of a behaviour. *)
LEMMA NotificationsBehave == Spec => Not!Spec
<1>1. Init => Not!Init
  BY DEF Init
<1>2. [Next]_vars => [Not!Next]_Not!vars
  <2> SUFFICES ASSUME [Next]_vars PROVE [Not!Next]_bells
    BY DEF bells, Not!vars, Not!service, Not!clients
  <2> QED BY DEF Next, vars, AccountsStep, AnalyticsStep, CommentsStep, NotificationsStep,
                 MarketStep
<1> QED BY <1>1, <1>2, PTL DEF Spec, Not!Spec

Bell      == [about: Happenings, read: BOOLEAN, announced: BOOLEAN]
About(e)  == {i \in 1..Len(notifications) : notifications[i].about = e}
Acked(e)  == <<"notify", e>> \in acked
Rung(e)   == \E i \in About(e) : notifications[i].announced

(* The handler of a message, and what it has done. *)
Told(e) ==
  /\ worker[e].pc # "idle" => ~Acked(e) /\ About(e) # {}
  /\ worker[e].pc \in {"tokens", "push"} => Rung(e)
  /\ worker[e].devices \X {Not!UserOf(e)} \subseteq owners
  /\ "error" \notin faults /\ Acked(e) => Rung(e)
  /\ "crash" \notin faults =>
       /\ About(e) # {} => Acked(e) \/ worker[e].pc # "idle"
       /\ \A i, j \in About(e) : i = j

(* The entry of the feed, and the acknowledgement of its message.          *)
Fed(e) ==
  /\ "error" \notin faults /\ <<"feed", e>> \in acked => feedItem[e] > 0
  /\ "crash" \notin faults /\ feedItem[e] > 0 => <<"feed", e>> \in acked /\ feedItem[e] = 1

(* A screen shows its user's affairs, a token is of an owner of the device. *)
Clients ==
  /\ \A s \in Sockets : room[s] # Not!Nobody => shown[s] \subseteq {room[s]}
  /\ \A d \in Devices : deviceToken[d] # Not!Nobody => <<d, deviceToken[d]>> \in owners
  /\ pushed \subseteq owners

BellInv ==
  /\ Not!TypeOK
  /\ \A e \in Happenings : Told(e) /\ Fed(e)
  /\ Clients

LEMMA BellFacts ==
  ASSUME Not!TypeOK
  PROVE  /\ notifications \in Seq(Bell) /\ Len(notifications) \in Nat
         /\ Not!Rows = 1..Len(notifications)
         /\ \A i \in 1..Len(notifications) : notifications[i] \in Bell
         /\ DOMAIN worker = Happenings
         /\ \A e \in Happenings : /\ worker[e] \in [pc: {"idle", "publish", "tokens", "push"},
                                                   devices: SUBSET Devices]
                                  /\ Not!UserOf(e) \in Recipients
                                  /\ Not!UserOf(e) # Not!Nobody
                                  /\ feedItem[e] \in Nat
<1>1. Happenings \subseteq Not!Kinds \X Recipients \X Nat /\ Not!Nobody \notin Recipients
  BY ServicesAssumption DEF Not!NotificationsAssumption
<1>2. notifications \in Seq(Bell) /\ Len(notifications) \in Nat
  BY DEF Not!TypeOK, Bell
<1>3. Not!Rows = 1..Len(notifications)
  BY <1>2 DEF Not!Rows
<1>4. \A e \in Happenings : Not!UserOf(e) \in Recipients
  BY <1>1 DEF Not!UserOf
<1> QED BY <1>1, <1>2, <1>3, <1>4 DEF Not!TypeOK

LEMMA RestType ==
  /\ Not!Resting \in [pc: {"idle", "publish", "tokens", "push"}, devices: SUBSET Devices]
  /\ Not!Resting.pc = "idle" /\ Not!Resting.devices = {}
BY DEF Not!Resting

(* A step of the worker of e to w. *)
LEMMA Works ==
  ASSUME Not!TypeOK, NEW e \in Happenings, NEW w, Not!Work(e, w)
  PROVE  /\ worker'[e] = w
         /\ \A f \in Happenings \ {e} : worker'[f] = worker[f]
         /\ w \in [pc: {"idle", "publish", "tokens", "push"}, devices: SUBSET Devices] =>
              worker' \in [Happenings ->
                 [pc: {"idle", "publish", "tokens", "push"}, devices: SUBSET Devices]]
BY DEF Not!TypeOK, Not!Work

(* Steps of the notifications about e alone. *)
LEMMA WorkerStep ==
  ASSUME BellInv, Not!TypeOK', NEW e \in Happenings,
         UNCHANGED <<faults, feedItem, deviceToken, owners, room, shown>>,
         \A f \in Happenings \ {e} :
           /\ worker'[f] = worker[f] /\ (Acked(f)' <=> Acked(f))
           /\ About(f)' = About(f)
           /\ \A i \in About(f) : notifications'[i] = notifications[i],
         \A f \in Happenings : <<"feed", f>> \in acked' <=> <<"feed", f>> \in acked,
         pushed' \subseteq owners,
         Told(e)'
  PROVE  BellInv'
<1>1. ASSUME NEW f \in Happenings PROVE Told(f)'
  <2>1. CASE f = e
    BY <2>1
  <2>2. CASE f # e
    <3>1. Rung(f)' <=> Rung(f)
      BY <2>2 DEF Rung
    <3> QED BY <2>2, <3>1 DEF BellInv, Told
  <2> QED BY <2>1, <2>2
<1>2. ASSUME NEW f \in Happenings PROVE Fed(f)'
  BY DEF BellInv, Fed
<1>3. Clients'
  BY DEF BellInv, Clients
<1> QED BY <1>1, <1>2, <1>3 DEF BellInv

(* An acknowledgement.                                                     *)
LEMMA AcknowledgeSteps ==
  ASSUME BellInv, NEW e \in Happenings, Not!Acknowledge(e),
         UNCHANGED <<faults, notifications, feedItem, deviceToken, owners, room, shown, moves>>,
         pushed' \subseteq owners, pushed' \subseteq Devices \X Recipients,
         "error" \in faults \/ Rung(e), "crash" \in faults \/ \A i, j \in About(e) : i = j
  PROVE  BellInv'
<1>1. acked' = acked \cup {<<"notify", e>>} /\ Not!Work(e, Not!Resting)
  BY DEF Not!Acknowledge
<1>2. /\ worker'[e] = Not!Resting /\ \A f \in Happenings \ {e} : worker'[f] = worker[f]
      /\ worker' \in [Happenings ->
                 [pc: {"idle", "publish", "tokens", "push"}, devices: SUBSET Devices]]
  BY <1>1, Works, RestType DEF BellInv
<1>3. Not!TypeOK'
  BY <1>1, <1>2 DEF BellInv, Not!TypeOK
<1>4. \A f \in Happenings : About(f)' = About(f) /\ (Rung(f)' <=> Rung(f))
  BY DEF About, Rung
<1>5. \A f \in Happenings \ {e} : Acked(f)' <=> Acked(f)
  BY <1>1 DEF Acked
<1>6. Acked(e)' /\ \A f \in Happenings : <<"feed", f>> \in acked' <=> <<"feed", f>> \in acked
  BY <1>1 DEF Acked
<1>7. Told(e)'
  <2>1. worker'[e].pc = "idle" /\ worker'[e].devices = {}
    BY <1>2, RestType
  <2> QED BY <1>4, <1>6, <2>1 DEF Told
<1> QED BY <1>2, <1>3, <1>4, <1>5, <1>6, <1>7, WorkerStep

LEMMA CreateBells ==
  ASSUME BellInv, NEW e \in Happenings, Not!CreateNotification(e)
  PROVE  BellInv'
<1>0. /\ worker[e] = Not!Resting /\ worker[e].pc = "idle" /\ ~Acked(e) /\ Not!TypeOK
      /\ UNCHANGED <<faults, feedItem, pushed, deviceToken, owners, room, shown, moves>>
  BY RestType DEF Not!CreateNotification, Not!GroupIsFree, Acked, BellInv, Not!clients
<1>1. CASE Not!Acknowledge(e) /\ UNCHANGED notifications /\ "error" \in faults
  <2>1. "crash" \notin faults => \A i, j \in About(e) : i = j
    BY DEF BellInv, Told
  <2>2. pushed' \subseteq owners /\ pushed' \subseteq Devices \X Recipients
    BY <1>0 DEF BellInv, Clients, Not!TypeOK
  <2> QED BY <1>0, <1>1, <2>1, <2>2, AcknowledgeSteps
<1>2. CASE ~(Not!Acknowledge(e) /\ UNCHANGED notifications /\ "error" \in faults)
  <2> DEFINE n == Len(notifications)
             row == [about |-> e, read |-> FALSE, announced |-> FALSE]
             w == [Not!Resting EXCEPT !.pc = "publish"]
  <2>1. notifications' = Append(notifications, row) /\ Not!Work(e, w) /\ acked' = acked
    BY <1>2 DEF Not!CreateNotification
  <2>2. row \in Bell /\ row.about = e /\ row.announced = FALSE
    BY DEF Bell
  <2>3. /\ w.pc = "publish" /\ w.devices = {}
        /\ w \in [pc: {"idle", "publish", "tokens", "push"}, devices: SUBSET Devices]
    BY DEF Not!Resting
  <2> HIDE DEF row, w
  <2>4. /\ n \in Nat /\ Len(notifications') = n + 1 /\ notifications'[n + 1] = row
        /\ \A i \in 1..n : notifications'[i] = notifications[i]
        /\ notifications' \in Seq(Bell)
    BY <1>0, <2>1, <2>2, BellFacts
  <2>5. /\ worker'[e] = w /\ \A f \in Happenings \ {e} : worker'[f] = worker[f]
        /\ worker' \in [Happenings ->
                   [pc: {"idle", "publish", "tokens", "push"}, devices: SUBSET Devices]]
    BY <1>0, <2>1, <2>3, Works
  <2>6. Not!TypeOK'
    BY <1>0, <2>1, <2>4, <2>5 DEF Not!TypeOK, Bell
  <2>7. \A f \in Happenings \ {e} : About(f)' = About(f)
    BY <2>2, <2>4 DEF About
  <2>8. About(e)' = About(e) \cup {n + 1}
    BY <2>2, <2>4 DEF About
  <2>9. ~Acked(e)' /\ \A f \in Happenings : Acked(f)' <=> Acked(f)
    BY <1>0, <2>1 DEF Acked
  <2>10. Told(e)'
    <3>1. "crash" \notin faults => About(e) = {}
      BY <1>0 DEF BellInv, Told
    <3> QED BY <1>0, <2>3, <2>5, <2>8, <2>9, <3>1 DEF Told
  <2>11. \A f \in Happenings : \A i \in About(f) : notifications'[i] = notifications[i]
    BY <2>4 DEF About
  <2>12. pushed' \subseteq owners
    BY <1>0 DEF BellInv, Clients
  <2> QED BY <1>0, <2>1, <2>5, <2>6, <2>7, <2>9, <2>10, <2>11, <2>12, WorkerStep
<1> QED BY <1>1, <1>2

(* Among numbers up to n there is a last one. *)
LEMMA LastNumber ==
  ASSUME NEW n \in Nat, NEW S, S \subseteq 1..n, S # {}
  PROVE  \E i \in S : \A j \in S : j <= i
<1> DEFINE T == {n - i : i \in S}
<1>1. T \subseteq Nat /\ T # {}
  <2>1. \A i \in S : n - i \in Nat
    OBVIOUS
  <2> QED BY <2>1
<1>2. PICK k \in T : \A m \in T : k <= m
  BY <1>1, LeastNumber
<1>3. PICK i \in S : k = n - i
  BY <1>2
<1>4. ASSUME NEW j \in S PROVE j <= i
  <2>1. n - i <= n - j
    BY <1>2, <1>3
  <2> QED BY <2>1
<1> QED BY <1>4

LEMMA NewestRowAbout ==
  ASSUME Not!TypeOK, NEW e \in Happenings, About(e) # {}
  PROVE  Not!NewestRow(e) \in About(e)
<1>1. Not!Rows = 1..Len(notifications) /\ Len(notifications) \in Nat
  BY BellFacts
<1>2. About(e) \subseteq 1..Len(notifications)
  BY DEF About
<1>3. PICK i \in About(e) : \A j \in About(e) : j <= i
  BY <1>1, <1>2, LastNumber
<1>4. \E k \in Not!Rows : /\ notifications[k].about = e
                          /\ \A j \in Not!Rows : notifications[j].about = e => j <= k
  BY <1>1, <1>3 DEF About
<1>5. /\ Not!NewestRow(e) \in Not!Rows /\ notifications[Not!NewestRow(e)].about = e
  BY <1>4 DEF Not!NewestRow
<1> QED BY <1>1, <1>5 DEF About

LEMMA PublishBells ==
  ASSUME BellInv, NEW e \in Happenings, Not!PublishCreated(e)
  PROVE  BellInv'
<1>0. /\ worker[e].pc = "publish" /\ Not!TypeOK
      /\ UNCHANGED <<faults, feedItem, pushed, deviceToken, owners, room, shown, moves>>
  BY DEF Not!PublishCreated, BellInv, Not!clients
<1>1. ~Acked(e) /\ About(e) # {} /\ ("crash" \notin faults => \A i, j \in About(e) : i = j)
  BY <1>0 DEF BellInv, Told
<1>2. pushed' \subseteq owners /\ pushed' \subseteq Devices \X Recipients
  BY <1>0 DEF BellInv, Clients, Not!TypeOK
<1>3. CASE Not!Acknowledge(e) /\ UNCHANGED notifications /\ "error" \in faults
  BY <1>0, <1>1, <1>2, <1>3, AcknowledgeSteps
<1>4. CASE ~(Not!Acknowledge(e) /\ UNCHANGED notifications /\ "error" \in faults)
  <2> DEFINE k == Not!NewestRow(e)
             row == [notifications[k] EXCEPT !.announced = TRUE]
             w == [Not!Resting EXCEPT !.pc = "tokens"]
  <2>1. /\ notifications' = [notifications EXCEPT ![k] = row]
        /\ Not!Work(e, w) /\ acked' = acked
    BY <1>4 DEF Not!PublishCreated
  <2>2. k \in About(e) /\ k \in 1..Len(notifications) /\ Len(notifications) \in Nat
    BY <1>0, <1>1, NewestRowAbout, BellFacts DEF About
  <2>3. notifications[k] \in Bell /\ notifications[k].about = e
    BY <1>0, <2>2, BellFacts DEF About
  <2>4. row \in Bell /\ row.about = e /\ row.announced = TRUE
    BY <2>3 DEF Bell
  <2>5. /\ w.pc = "tokens" /\ w.devices = {}
        /\ w \in [pc: {"idle", "publish", "tokens", "push"}, devices: SUBSET Devices]
    BY DEF Not!Resting
  <2> HIDE DEF k, row, w
  <2>6. /\ Len(notifications') = Len(notifications) /\ notifications'[k] = row
        /\ \A i \in 1..Len(notifications) : i # k => notifications'[i] = notifications[i]
        /\ notifications' \in Seq(Bell)
    BY <1>0, <2>1, <2>2, <2>4, BellFacts
  <2>7. /\ worker'[e] = w /\ \A f \in Happenings \ {e} : worker'[f] = worker[f]
        /\ worker' \in [Happenings ->
                   [pc: {"idle", "publish", "tokens", "push"}, devices: SUBSET Devices]]
    BY <1>0, <2>1, <2>5, Works
  <2>8. Not!TypeOK'
    BY <1>0, <2>1, <2>6, <2>7 DEF Not!TypeOK, Bell
  <2>9. \A f \in Happenings : About(f)' = About(f)
    BY <2>2, <2>3, <2>4, <2>6 DEF About
  <2>10. \A f \in Happenings \ {e} : \A i \in About(f) : notifications'[i] = notifications[i]
    BY <2>2, <2>3, <2>6 DEF About
  <2>11. \A f \in Happenings : Acked(f)' <=> Acked(f)
    BY <2>1 DEF Acked
  <2>12. Rung(e)'
    BY <2>2, <2>4, <2>6, <2>9 DEF Rung
  <2>13. Told(e)'
    BY <1>0, <1>1, <2>5, <2>7, <2>9, <2>11, <2>12 DEF Told
  <2> QED BY <1>0, <1>2, <2>1, <2>7, <2>8, <2>9, <2>10, <2>11, <2>13, WorkerStep
<1> QED BY <1>3, <1>4

LEMMA TokensBells ==
  ASSUME BellInv, NEW e \in Happenings, Not!ReadTokens(e)
  PROVE  BellInv'
<1>0. /\ worker[e].pc = "tokens" /\ Not!TypeOK
      /\ UNCHANGED <<faults, notifications, feedItem, pushed, deviceToken, owners, room, shown,
           moves>>
  BY DEF Not!ReadTokens, BellInv, Not!clients
<1>1. ~Acked(e) /\ About(e) # {} /\ Rung(e)
        /\ ("crash" \notin faults => \A i, j \in About(e) : i = j)
  BY <1>0 DEF BellInv, Told
<1>2. pushed' \subseteq owners /\ pushed' \subseteq Devices \X Recipients
  BY <1>0 DEF BellInv, Clients, Not!TypeOK
<1> DEFINE D == Not!DevicesOf(Not!UserOf(e))
           w == [pc |-> "push", devices |-> D]
<1>3. CASE D = {}
  <2>1. Not!Acknowledge(e)
    BY <1>3 DEF Not!ReadTokens
  <2> QED BY <1>0, <1>1, <1>2, <2>1, AcknowledgeSteps
<1>4. CASE D # {}
  <2>1. Not!Work(e, w) /\ acked' = acked
    BY <1>4 DEF Not!ReadTokens
  <2>2. D \subseteq Devices /\ D \X {Not!UserOf(e)} \subseteq owners
    <3>1. \A d \in D : d \in Devices /\ deviceToken[d] = Not!UserOf(e)
      BY DEF Not!DevicesOf
    <3>2. Not!UserOf(e) # Not!Nobody
      BY <1>0, BellFacts
    <3> QED BY <3>1, <3>2 DEF BellInv, Clients
  <2>3. /\ w.pc = "push" /\ w.devices = D
        /\ w \in [pc: {"idle", "publish", "tokens", "push"}, devices: SUBSET Devices]
    BY <2>2
  <2> HIDE DEF w, D
  <2>4. /\ worker'[e] = w /\ \A f \in Happenings \ {e} : worker'[f] = worker[f]
        /\ worker' \in [Happenings ->
                   [pc: {"idle", "publish", "tokens", "push"}, devices: SUBSET Devices]]
    BY <1>0, <2>1, <2>3, Works
  <2>5. Not!TypeOK'
    BY <1>0, <2>1, <2>4 DEF Not!TypeOK
  <2>6. \A f \in Happenings : About(f)' = About(f) /\ (Acked(f)' <=> Acked(f))
          /\ (Rung(f)' <=> Rung(f))
    BY <1>0, <2>1 DEF About, Acked, Rung
  <2>7. Told(e)'
    BY <1>0, <1>1, <2>2, <2>3, <2>4, <2>6 DEF Told
  <2>8. \A f \in Happenings : \A i \in About(f) : notifications'[i] = notifications[i]
    BY <1>0
  <2> QED BY <1>0, <1>2, <2>1, <2>4, <2>5, <2>6, <2>7, <2>8, WorkerStep
<1> QED BY <1>3, <1>4

LEMMA PushBells ==
  ASSUME BellInv, NEW e \in Happenings, Not!sendMulticast(e)
  PROVE  BellInv'
<1>0. /\ worker[e].pc = "push" /\ Not!TypeOK /\ Not!Acknowledge(e)
      /\ UNCHANGED <<faults, notifications, feedItem, deviceToken, owners, room, shown, moves>>
  BY DEF Not!sendMulticast, BellInv, Not!clients
<1>1. Rung(e) /\ ("crash" \notin faults => \A i, j \in About(e) : i = j)
  BY <1>0 DEF BellInv, Told
<1>2. pushed' \subseteq owners
  BY DEF BellInv, Clients, Told, Not!sendMulticast
<1>3. owners \subseteq Devices \X Recipients
  BY <1>0 DEF Not!TypeOK
<1> QED BY <1>0, <1>1, <1>2, <1>3, AcknowledgeSteps

LEMMA CrashBells ==
  ASSUME BellInv, Not!Crash
  PROVE  BellInv'
<1>0. /\ "crash" \in faults /\ worker' = [e \in Happenings |-> Not!Resting]
      /\ UNCHANGED <<faults, notifications, feedItem, acked, pushed, deviceToken, owners,
                     room, shown, moves>>
  BY DEF Not!Crash, Not!clients
<1>1. Not!TypeOK'
  BY <1>0, RestType DEF BellInv, Not!TypeOK
<1>2. ASSUME NEW e \in Happenings PROVE Told(e)' /\ Fed(e)'
  <2>1. Told(e) /\ Fed(e)
    BY DEF BellInv
  <2>2. worker'[e].pc = "idle" /\ worker'[e].devices = {}
    BY <1>0, RestType
  <2>3. (Rung(e)' <=> Rung(e)) /\ (Acked(e)' <=> Acked(e))
    BY <1>0 DEF Rung, About, Acked
  <2> QED BY <1>0, <2>1, <2>2, <2>3 DEF Told, Fed
<1>3. Clients'
  BY <1>0 DEF BellInv, Clients
<1> QED BY <1>1, <1>2, <1>3 DEF BellInv

LEMMA FeedBells ==
  ASSUME BellInv, NEW e \in Happenings, Not!addToFeed(e)
  PROVE  BellInv'
<1>0. /\ <<"feed", e>> \notin acked /\ Not!TypeOK
      /\ UNCHANGED <<faults, notifications, worker, pushed, deviceToken, owners, room, shown,
           moves>>
  BY DEF Not!addToFeed, BellInv, Not!clients
<1>1. PICK created \in BOOLEAN, committed \in BOOLEAN :
        /\ created \/ faults # {}
        /\ committed \/ "crash" \in faults
        /\ created \/ ~committed \/ "error" \in faults
        /\ feedItem' = [feedItem EXCEPT ![e] = feedItem[e] + (IF created THEN 1 ELSE 0)]
        /\ acked' = IF committed THEN acked \cup {<<"feed", e>>} ELSE acked
  BY DEF Not!addToFeed
<1>2. /\ \A f \in Happenings : feedItem[f] \in Nat
      /\ feedItem'[e] = feedItem[e] + (IF created THEN 1 ELSE 0)
      /\ \A f \in Happenings \ {e} : feedItem'[f] = feedItem[f]
      /\ feedItem' \in [Happenings -> Nat]
  BY <1>0, <1>1 DEF Not!TypeOK
<1>3. Not!TypeOK'
  BY <1>0, <1>1, <1>2 DEF Not!TypeOK
<1>4. ASSUME NEW f \in Happenings PROVE Told(f)'
  <2>1. (Rung(f)' <=> Rung(f)) /\ (Acked(f)' <=> Acked(f)) /\ About(f)' = About(f)
    BY <1>0, <1>1 DEF Rung, About, Acked
  <2> QED BY <1>0, <2>1 DEF BellInv, Told
<1>5. ASSUME NEW f \in Happenings PROVE Fed(f)'
  <2>0. Fed(f) /\ Fed(e)
    BY DEF BellInv
  <2>1. CASE f # e
    BY <1>0, <1>1, <1>2, <2>0, <2>1 DEF Fed
  <2>2. CASE f = e
    <3>1. "crash" \notin faults => feedItem[e] = 0
      BY <1>0, <1>2, <2>0 DEF Fed
    <3>2. <<"feed", e>> \in acked' <=> committed
      BY <1>0, <1>1
    <3> QED BY <1>0, <1>1, <1>2, <2>2, <3>1, <3>2 DEF Fed
  <2> QED BY <2>1, <2>2
<1>6. Clients'
  BY <1>0 DEF BellInv, Clients
<1> QED BY <1>3, <1>4, <1>5, <1>6 DEF BellInv

(* What the gateway and the users do leaves the handlers alone. *)
LEMMA ClientStep ==
  ASSUME BellInv, Not!TypeOK', UNCHANGED <<faults, worker, feedItem, acked, pushed>>,
         owners \subseteq owners', Clients',
         Len(notifications') = Len(notifications),
         \A i \in 1..Len(notifications) :
           /\ notifications'[i].about = notifications[i].about
           /\ notifications'[i].announced = notifications[i].announced
  PROVE  BellInv'
<1>1. ASSUME NEW e \in Happenings PROVE Told(e)' /\ Fed(e)'
  <2>1. Told(e) /\ Fed(e)
    BY DEF BellInv
  <2>2. About(e)' = About(e) /\ (Acked(e)' <=> Acked(e))
    BY DEF About, Acked
  <2>3. Rung(e)' <=> Rung(e)
    BY <2>2 DEF Rung, About
  <2> QED BY <2>1, <2>2, <2>3 DEF Told, Fed
<1> QED BY <1>1 DEF BellInv

LEMMA EmitBells ==
  ASSUME BellInv, NEW u \in Recipients, Not!Emit(u)
  PROVE  BellInv'
<1>1. /\ shown' = [s \in Sockets |-> IF room[s] = u THEN shown[s] \cup {u} ELSE shown[s]]
      /\ UNCHANGED <<faults, notifications, worker, feedItem, acked, pushed, deviceToken,
           owners,
                     room, moves>>
  BY DEF Not!Emit, Not!service
<1>2. Not!TypeOK'
  BY <1>1 DEF BellInv, Not!TypeOK
<1>3. Clients'
  BY <1>1 DEF BellInv, Clients
<1> QED BY <1>1, <1>2, <1>3, ClientStep

LEMMA MoveBells ==
  ASSUME BellInv, Not!Move \/ UNCHANGED <<faults, moves>>,
         UNCHANGED <<notifications, worker, feedItem, acked, pushed>>,
         \/ \E s \in Sockets : \/ \E u \in Recipients : Not!handleConnection(s, u)
                               \/ Not!handleDisconnect(s)
         \/ \E d \in Devices : \/ \E u \in Recipients : Not!registerDeviceToken(u, d)
                               \/ Not!removeDeviceToken(d)
  PROVE  BellInv'
<1>0. /\ Not!TypeOK /\ Clients /\ UNCHANGED faults /\ moves' \in 0..MaxMoves
  BY ServicesAssumption DEF BellInv, Not!Move, Not!TypeOK, Not!NotificationsAssumption
<1>1. ASSUME NEW s \in Sockets, NEW u \in Recipients, Not!handleConnection(s, u)
      PROVE  BellInv'
  <2>1. /\ room' = [room EXCEPT ![s] = u] /\ shown' = [shown EXCEPT ![s] = {}]
        /\ UNCHANGED <<deviceToken, owners>>
    BY <1>1 DEF Not!handleConnection, Not!ClearScreen
  <2>2. Not!TypeOK'
    BY <1>0, <2>1 DEF Not!TypeOK
  <2>3. Clients'
    BY <1>0, <2>1 DEF Clients, Not!TypeOK
  <2> QED BY <1>0, <2>1, <2>2, <2>3, ClientStep
<1>2. ASSUME NEW s \in Sockets, Not!handleDisconnect(s)
      PROVE  BellInv'
  <2>1. /\ room' = [room EXCEPT ![s] = Not!Nobody] /\ UNCHANGED <<deviceToken, owners, shown>>
    BY <1>2 DEF Not!handleDisconnect
  <2>2. Not!TypeOK'
    BY <1>0, <2>1 DEF Not!TypeOK
  <2>3. Clients'
    BY <1>0, <2>1 DEF Clients, Not!TypeOK
  <2> QED BY <1>0, <2>1, <2>2, <2>3, ClientStep
<1>3. ASSUME NEW d \in Devices, NEW u \in Recipients, Not!registerDeviceToken(u, d)
      PROVE  BellInv'
  <2>1. /\ deviceToken' = [deviceToken EXCEPT ![d] = u] /\ owners' = owners \cup {<<d, u>>}
        /\ UNCHANGED <<room, shown>>
    BY <1>3 DEF Not!registerDeviceToken
  <2>2. Not!TypeOK'
    BY <1>0, <2>1 DEF Not!TypeOK
  <2>3. Clients'
    BY <1>0, <2>1 DEF Clients, Not!TypeOK
  <2> QED BY <1>0, <2>1, <2>2, <2>3, ClientStep
<1>4. ASSUME NEW d \in Devices, Not!removeDeviceToken(d)
      PROVE  BellInv'
  <2>1. /\ deviceToken' = [deviceToken EXCEPT ![d] = Not!Nobody]
        /\ UNCHANGED <<owners, room, shown>>
    BY <1>4 DEF Not!removeDeviceToken
  <2>2. Not!TypeOK'
    BY <1>0, <2>1 DEF Not!TypeOK
  <2>3. Clients'
    BY <1>0, <2>1 DEF Clients, Not!TypeOK
  <2> QED BY <1>0, <2>1, <2>2, <2>3, ClientStep
<1> QED BY <1>1, <1>2, <1>3, <1>4

LEMMA ReadBells ==
  ASSUME BellInv, NEW S, Not!Move, Not!Read(S),
         UNCHANGED <<worker, feedItem, acked, pushed, deviceToken, owners, room, shown>>
  PROVE  BellInv'
<1>0. /\ Not!TypeOK /\ UNCHANGED faults /\ moves' \in 0..MaxMoves
  BY ServicesAssumption DEF BellInv, Not!Move, Not!TypeOK, Not!NotificationsAssumption
<1>1. Not!Rows = 1..Len(notifications) /\ Len(notifications) \in Nat
  BY <1>0, BellFacts
<1> DEFINE row(i) == [notifications[i] EXCEPT !.read = notifications[i].read \/ i \in S]
<1>2. ASSUME NEW i \in 1..Len(notifications)
      PROVE  /\ row(i) \in Bell /\ row(i).about = notifications[i].about
             /\ row(i).announced = notifications[i].announced
  <2>1. notifications[i] \in Bell
    BY <1>0, BellFacts
  <2> QED BY <2>1 DEF Bell
<1>3. notifications' = [i \in 1..Len(notifications) |-> row(i)]
  BY <1>1 DEF Not!Read
<1> HIDE DEF row
<1>4. /\ notifications' \in Seq(Bell) /\ Len(notifications') = Len(notifications)
      /\ \A i \in 1..Len(notifications) : notifications'[i] = row(i)
  BY <1>1, <1>2, <1>3
<1>5. Not!TypeOK'
  BY <1>0, <1>4 DEF Not!TypeOK, Bell
<1>6. Clients'
  BY DEF BellInv, Clients
<1> QED BY <1>0, <1>2, <1>4, <1>5, <1>6, ClientStep

LEMMA InitBells == Not!Init => BellInv
<1> SUFFICES ASSUME Not!Init PROVE BellInv
  OBVIOUS
<1>1. Not!TypeOK
  BY RestType, ServicesAssumption DEF Not!Init, Not!TypeOK, Not!NotificationsAssumption
<1>2. ASSUME NEW e \in Happenings PROVE Told(e) /\ Fed(e)
  <2>1. worker[e].pc = "idle" /\ worker[e].devices = {} /\ acked = {} /\ feedItem[e] = 0
        /\ notifications = << >>
    BY RestType DEF Not!Init
  <2> QED BY <2>1 DEF Told, Fed, Acked, About, Rung
<1>3. Clients
  BY DEF Not!Init, Clients
<1> QED BY <1>1, <1>2, <1>3 DEF BellInv

LEMMA NextBells == BellInv /\ [Not!Next]_Not!vars => BellInv'
<1> SUFFICES ASSUME BellInv, [Not!Next]_Not!vars PROVE BellInv'
  OBVIOUS
<1>1. ASSUME NEW e \in Happenings,
             \/ Not!CreateNotification(e) \/ Not!PublishCreated(e) \/ Not!ReadTokens(e)
             \/ Not!sendMulticast(e) \/ Not!addToFeed(e)
      PROVE  BellInv'
  BY <1>1, CreateBells, PublishBells, TokensBells, PushBells, FeedBells
<1>2. CASE Not!Crash
  BY <1>2, CrashBells
<1>3. CASE Not!emitNotificationCreated \/ Not!EmitHappening
  <2>1. /\ \A i \in Not!Rows : notifications[i].about \in Happenings
        /\ \A e \in Happenings : Not!UserOf(e) \in Recipients
    BY BellFacts DEF BellInv, Bell
  <2>2. PICK u \in Recipients : Not!Emit(u)
    BY <1>3, <2>1 DEF Not!emitNotificationCreated, Not!EmitHappening
  <2> QED BY <2>2, EmitBells
<1>4. ASSUME NEW u \in Recipients, Not!markRead(u) \/ Not!markAllRead(u)
      PROVE  BellInv'
  <2>1. PICK S : Not!Read(S)
    BY <1>4 DEF Not!markRead, Not!markAllRead
  <2>2. Not!Move /\ UNCHANGED <<worker, feedItem, acked, pushed, deviceToken, owners, room,
          shown>>
    BY <1>4 DEF Not!markRead, Not!markAllRead, Not!clients
  <2> QED BY <2>1, <2>2, ReadBells
<1>5. CASE \/ \E s \in Sockets : \/ \E u \in Recipients : Not!handleConnection(s, u)
                                 \/ Not!handleDisconnect(s)
           \/ \E d \in Devices : \/ \E u \in Recipients : Not!registerDeviceToken(u, d)
                                 \/ Not!removeDeviceToken(d)
  <2>1. /\ Not!Move \/ UNCHANGED <<faults, moves>>
        /\ UNCHANGED <<notifications, worker, feedItem, acked, pushed>>
    BY <1>5 DEF Not!handleConnection, Not!handleDisconnect, Not!registerDeviceToken,
                Not!removeDeviceToken, Not!service
  <2> QED BY <1>5, <2>1, MoveBells
<1>6. CASE UNCHANGED Not!vars
  <2>1. UNCHANGED <<faults, notifications, worker, feedItem, acked, pushed, deviceToken, owners,
                    room, shown, moves>>
    BY <1>6 DEF Not!vars, Not!service, Not!clients
  <2>2. Not!TypeOK'
    BY <2>1 DEF BellInv, Not!TypeOK
  <2>3. Clients'
    BY <2>1 DEF BellInv, Clients
  <2> QED BY <2>1, <2>2, <2>3, ClientStep
<1> QED BY <1>1, <1>2, <1>3, <1>4, <1>5, <1>6 DEF Not!Next

LEMMA FewHappenings == IsFiniteSet(Happenings)
BY ServicesAssumption, NotFinite DEF Not!NotificationsAssumption

LEMMA BellInvariant == Spec => []BellInv
<1>1. Not!Spec => []BellInv
  BY InitBells, NextBells, PTL DEF Not!Spec
<1> QED BY <1>1, NotificationsBehave, PTL

(* Screens and devices show a user their own affairs only; without errors  *)
(* what the handlers have acknowledged is told and in the feed, and without *)
(* crashes it is told once: for any number of messages of every kind, to    *)
(* any users, and for any devices and sockets.                              *)
THEOREM ToldTheirOwnOnceHolds == Spec => []ToldTheirOwnOnce
<1>1. BellInv => ToldTheirOwnOnce
  <2> SUFFICES ASSUME BellInv PROVE Not!ToldTheirOwn /\ Not!ToldOfEverything
    BY DEF ToldTheirOwnOnce
  <2>0. /\ Not!Rows = 1..Len(notifications) /\ Len(notifications) \in Nat
        /\ \A i \in Not!Rows : notifications[i] \in Bell
    BY BellFacts DEF BellInv
  <2>1. Not!ToldTheirOwn
    BY DEF BellInv, Clients, Not!ToldTheirOwn
  <2>2. ASSUME NEW e \in Happenings, "error" \notin faults
        PROVE  /\ <<"notify", e>> \in acked =>
                    \E i \in Not!RowsAbout(e) : notifications[i].announced
               /\ <<"feed", e>> \in acked => e \in Not!getUserFeed(Not!UserOf(e))
    BY <2>0, <2>2 DEF BellInv, Told, Fed, Acked, Rung, About, Not!RowsAbout, Not!getUserFeed
  <2>3. ASSUME NEW e \in Happenings, "crash" \notin faults
        PROVE  /\ Cardinality(Not!RowsAbout(e)) <= 1 /\ feedItem[e] <= 1
               /\ Not!getForUser(Not!UserOf(e)).unreadCount
                    <= Cardinality({f \in Happenings : Not!UserOf(f) = Not!UserOf(e)})
    <3>1. Not!RowsAbout(e) = About(e)
      BY <2>0 DEF Not!RowsAbout, About
    <3>2. Cardinality(About(e)) <= 1
      <4>1. \A i, j \in About(e) : i = j
        BY <2>3 DEF BellInv, Told
      <4>2. CASE About(e) = {}
        BY <4>2, FS_EmptySet
      <4>3. CASE About(e) # {}
        <5>1. PICK i \in About(e) : About(e) = {i}
          BY <4>1, <4>3
        <5>2. Cardinality({i}) = 1
          BY FS_Singleton
        <5> QED BY <5>1, <5>2
      <4> QED BY <4>2, <4>3
    <3>3. feedItem[e] <= 1
      <4>1. Fed(e) /\ feedItem[e] \in Nat
        BY BellFacts DEF BellInv
      <4> QED BY <2>3, <4>1 DEF Fed
    <3> DEFINE S == {i \in Not!RowsOf(Not!UserOf(e)) : ~notifications[i].read}
               T == {f \in Happenings : Not!UserOf(f) = Not!UserOf(e)}
               g == [i \in S |-> notifications[i].about]
    <3>4. g \in Injection(S, T)
      <4>1. \A i \in S : i \in Not!Rows /\ Not!UserOf(notifications[i].about) = Not!UserOf(e)
        BY DEF Not!RowsOf
      <4>2. \A i \in S : notifications[i].about \in T
        BY <2>0, <4>1 DEF Bell
      <4>3. \A i, j \in S : notifications[i].about = notifications[j].about => i = j
        BY <2>0, <2>3, <4>1, <4>2 DEF BellInv, Told, About
      <4> QED BY <4>2, <4>3 DEF Injection, IsInjective
    <3>5. IsFiniteSet(T)
      BY FewHappenings, FS_Subset
    <3>6. Cardinality(S) <= Cardinality(T)
      BY <3>4, <3>5, FS_Injection
    <3>7. Not!getForUser(Not!UserOf(e)).unreadCount = Cardinality(S)
      BY NotCardinality DEF Not!getForUser
    <3> QED BY <3>1, <3>2, <3>3, <3>6, <3>7
  <2> QED BY <2>1, <2>2, <2>3, NotCardinality DEF Not!ToldOfEverything
<1> QED BY <1>1, BellInvariant, PTL

-----------------------------------------------------------------------------
(* Accounts: what a handler has read of the tables, at each of its         *)
(* awaits.                                                                 *)

LEMMA AccCardinality == \A S : Acc!Cardinality(S) = Cardinality(S)
BY DEF Acc!Cardinality, Cardinality

LEMMA AccSum == \A f, S : Acc!SumFunctionOnSet(f, S) = SumFunctionOnSet(f, S)
BY SumUnfold DEF Acc!SumFunctionOnSet, Acc!FoldFunctionOnSet, Acc!MapThenFoldSet, Solves, Chosen

(* What the auth service and the profiles do of a behaviour. *)
LEMMA AccountsBehave == Spec => Acc!Spec
<1>1. Init => Acc!Init
  BY DEF Init
<1>2. [Next]_vars => [Acc!Next]_Acc!vars
  <2> SUFFICES ASSUME [Next]_vars PROVE [Acc!Next]_accounts
    BY DEF accounts, Acc!vars, Acc!auth
  <2> QED BY DEF Next, vars, AccountsStep, AnalyticsStep, CommentsStep, NotificationsStep,
                 MarketStep
<1> QED BY <1>1, <1>2, PTL DEF Spec, Acc!Spec

(* A handler k at each of its awaits. *)
Staged(k) ==
  /\ k.pc = "auth" => k.op = "login"
  /\ k.pc \in {"find", "use"} => k.ref \in 1..Len(codes)
  /\ k.pc = "use" => codes[k.ref].purpose = Acc!PurposeOf(k.op)
  /\ k.pc = "verified" => Acc!PurposeOf(k.op) = "PHONE_VERIFY"
  /\ k.pc \in {"session", "revoke"} => k.op = "refresh"
  /\ k.pc \in {"session", "revoke", "logout"} => k.ref \in 1..Len(sessions)
  /\ k.pc \notin {"idle", "check", "create"} => user.exists
  /\ k.pc \in {"submit", "submitted", "documents", "verdict"} => profile.exists
  /\ k.pc = "issue" => k.tier <= profile.tier

(* What exists of the user and the profile, and the tiers of tokens.       *)
Held ==
  /\ ~user.exists => user.gen = 0 /\ ~user.verified /\ Len(sessions) = 0
  /\ ~profile.exists => profile.pending = 0 /\ profile.status = "NONE"
  /\ profile.tier \in {0, 2}
  /\ \A s \in 1..Len(sessions) : sessions[s].tier <= profile.tier

(* One handler at a time, if the behaviour is not concurrent.              *)
InOrder ==
  ~concurrent => \A g, h \in Handlers : call[g].pc # "idle" /\ call[h].pc # "idle" => g = h

(* The invariant of the accounts that the others build on.                 *)
StageInv ==
  /\ Acc!TypeOK
  /\ \A h \in Handlers : Staged(call[h])
  /\ Held /\ InOrder

LEMMA AccFacts ==
  ASSUME Acc!TypeOK
  PROVE  /\ \A h \in Handlers : call[h] \in Acc!Call
         /\ DOMAIN call = Handlers
         /\ codes \in Seq(Acc!Code) /\ Len(codes) \in Nat /\ DOMAIN codes = 1..Len(codes)
         /\ \A i \in 1..Len(codes) : codes[i] \in Acc!Code
         /\ sessions \in Seq(Acc!Session) /\ Len(sessions) \in Nat
         /\ DOMAIN sessions = 1..Len(sessions)
         /\ \A s \in 1..Len(sessions) : sessions[s] \in Acc!Session
         /\ user \in Acc!User /\ user.gen \in Nat
         /\ profile \in Acc!Profile /\ profile.tier \in Nat /\ profile.pending \in Nat
BY DEF Acc!TypeOK, Acc!User, Acc!Profile

LEMMA IdleCall == Acc!Idle \in Acc!Call /\ Acc!Idle.pc = "idle"
BY DEF Acc!Idle, Acc!Call, Acc!Ops

(* A handler goes on to pc. *)
LEMMA GotoCall ==
  ASSUME Acc!TypeOK, NEW h \in Handlers, NEW pc \in {"idle"} \cup Acc!Stages, Acc!Goto(h, pc)
  PROVE  /\ call' \in [Handlers -> Acc!Call] /\ call'[h].pc = pc
         /\ pc # "idle" => /\ call'[h].op = call[h].op /\ call'[h].ref = call[h].ref
                           /\ call'[h].gen = call[h].gen /\ call'[h].tier = call[h].tier
         /\ \A g \in Handlers \ {h} : call'[g] = call[g]
         /\ UNCHANGED <<scene, concurrent, publishing, calls>>
<1> DEFINE c == IF pc = "idle" THEN Acc!Idle ELSE [call[h] EXCEPT !.pc = pc]
<1>1. call[h] \in Acc!Call
  BY AccFacts
<1>2. c \in Acc!Call /\ c.pc = pc
  BY <1>1, IdleCall DEF Acc!Call
<1>3. pc # "idle" => /\ c.op = call[h].op /\ c.ref = call[h].ref
                     /\ c.gen = call[h].gen /\ c.tier = call[h].tier
  BY <1>1 DEF Acc!Call
<1>4. call' = [call EXCEPT ![h] = c] /\ UNCHANGED <<scene, concurrent, publishing, calls>>
  BY DEF Acc!Goto, Acc!Go
<1> HIDE DEF c
<1> QED BY <1>2, <1>3, <1>4 DEF Acc!TypeOK

LEMMA GoCall ==
  ASSUME Acc!TypeOK, NEW h \in Handlers, NEW c \in Acc!Call, Acc!Go(h, c)
  PROVE  /\ call' \in [Handlers -> Acc!Call] /\ call'[h] = c
         /\ \A g \in Handlers \ {h} : call'[g] = call[g]
         /\ UNCHANGED <<scene, concurrent, publishing, calls>>
BY DEF Acc!TypeOK, Acc!Go

(* The tables only grow.                                                   *)
Grow ==
  /\ user.exists => user'.exists
  /\ profile.exists => profile'.exists
  /\ profile.tier <= profile'.tier
  /\ Len(codes) <= Len(codes') /\ Len(sessions) <= Len(sessions')
  /\ \A i \in 1..Len(codes) : codes'[i].purpose = codes[i].purpose

LEMMA StaysStaged ==
  ASSUME Acc!TypeOK, Acc!TypeOK', Grow, NEW h \in Handlers, Staged(call[h]), call'[h] = call[h]
  PROVE  Staged(call[h])'
<1>1. /\ Len(codes) \in Nat /\ Len(sessions) \in Nat /\ profile.tier \in Nat
      /\ Len(codes') \in Nat /\ Len(sessions') \in Nat /\ profile'.tier \in Nat
  BY DEF Acc!TypeOK, Acc!Profile
<1>2. call[h].tier \in Nat /\ call[h].ref \in Nat
  BY DEF Acc!TypeOK, Acc!Call
<1>3. PICK k : k = call[h]
  OBVIOUS
<1>4. call'[h] = k /\ Staged(k) /\ k.tier \in Nat /\ k.ref \in Nat
  BY <1>2, <1>3
<1>5. Staged(k)'
  BY <1>1, <1>4 DEF Staged, Grow
<1> QED BY <1>4, <1>5 DEF Staged

LEMMA HandlerStep ==
  ASSUME StageInv, Acc!TypeOK', NEW h \in Handlers, UNCHANGED concurrent, Grow,
         \A g \in Handlers \ {h} : call'[g] = call[g],
         \/ call[h].pc # "idle" \/ concurrent
         \/ \A g \in Handlers : call[g].pc = "idle",
         Staged(call[h])', Held'
  PROVE  StageInv'
<1>1. ASSUME NEW g \in Handlers PROVE Staged(call[g])'
  BY StaysStaged DEF StageInv
<1>2. InOrder'
  BY DEF StageInv, InOrder
<1> QED BY <1>1, <1>2 DEF StageInv

(* A handler that goes on without touching a table. *)
LEMMA QuietStep ==
  ASSUME StageInv, NEW h \in Handlers, NEW pc \in {"idle"} \cup Acc!Stages, Acc!Goto(h, pc),
         call[h].pc # "idle", registered' \in 0..1,
         UNCHANGED <<user, codes, sessions, profile>>,
         Staged(call[h])'
  PROVE  StageInv'
<1>1. /\ call' \in [Handlers -> Acc!Call] /\ \A g \in Handlers \ {h} : call'[g] = call[g]
      /\ UNCHANGED <<scene, concurrent, publishing, calls>> /\ Acc!TypeOK
  BY GotoCall DEF StageInv
<1>2. Acc!TypeOK'
  BY <1>1 DEF Acc!TypeOK
<1>3. Grow
  BY <1>1, AccFacts DEF Grow
<1>4. Held'
  BY DEF StageInv, Held
<1> QED BY <1>1, <1>2, <1>3, <1>4, HandlerStep

(* One that changes tables. *)
LEMMA TableStep ==
  ASSUME StageInv, NEW h \in Handlers, NEW c \in Acc!Call, call' = [call EXCEPT ![h] = c],
         UNCHANGED <<scene, concurrent, publishing, calls>>, call[h].pc # "idle",
         registered' \in 0..1,
         user' \in Acc!User, codes' \in Seq(Acc!Code), sessions' \in Seq(Acc!Session),
         profile' \in Acc!Profile, Grow, Held', Staged(c)'
  PROVE  StageInv'
<1>1. /\ call' \in [Handlers -> Acc!Call] /\ \A g \in Handlers \ {h} : call'[g] = call[g]
      /\ call'[h] = c /\ Acc!TypeOK
  BY DEF StageInv, Acc!TypeOK
<1>2. Acc!TypeOK'
  BY <1>1 DEF Acc!TypeOK
<1>3. Staged(call[h])'
  BY <1>1 DEF Staged
<1> QED BY <1>1, <1>2, <1>3, HandlerStep

LEMMA StartStage ==
  ASSUME StageInv, NEW h \in Handlers, Acc!Start(h)
  PROVE  StageInv'
<1>0. /\ call[h].pc = "idle" /\ Acc!TypeOK
      /\ UNCHANGED <<scene, concurrent, publishing, user, codes, sessions, registered, profile>>
      /\ concurrent \/ \A g \in Handlers : call[g].pc = "idle"
      /\ calls < MaxCalls /\ calls' = calls + 1
  BY DEF StageInv, Acc!Start, Acc!auth, Acc!At, Acc!InTurn
<1>a. PICK op \in scene :
        /\ op # "register" => user.exists
        /\ op \in {"submit", "approve", "reject"} => profile.exists
        /\ \E ref \in Acc!Brings(op) :
             call' = [call EXCEPT ![h] = [pc |-> Acc!First(op), op |-> op, ref |-> ref,
                                          gen |-> user.gen, tier |-> 0]]
  BY DEF Acc!Start
<1>1. PICK ref \in Acc!Brings(op) :
        call' = [call EXCEPT ![h] = [pc |-> Acc!First(op), op |-> op, ref |-> ref,
                                     gen |-> user.gen, tier |-> 0]]
  BY <1>a
<1> DEFINE c == [pc |-> Acc!First(op), op |-> op, ref |-> ref, gen |-> user.gen, tier |-> 0]
<1>2. op \in Acc!Ops
  BY <1>0, ServicesAssumption DEF Acc!TypeOK, Acc!AccountsAssumption
<1>3. ref \in Nat
  BY <1>0, AccFacts DEF Acc!Brings
<1>4. c \in Acc!Call
  <2>1. Acc!First(op) \in Acc!Stages
    BY <1>2 DEF Acc!First, Acc!Stages
  <2>2. user.gen \in Nat
    BY <1>0, AccFacts
  <2> QED BY <1>2, <1>3, <2>1, <2>2 DEF Acc!Call
<1>5. Staged(c)
  <2>1. c.pc = Acc!First(op) /\ c.op = op /\ c.ref = ref
    OBVIOUS
  <2> HIDE DEF c
  <2>2. op \in {"verify", "reset", "confirm"} => ref \in 1..Len(codes)
    BY <1>0, AccFacts DEF Acc!Brings
  <2>3. op \in {"refresh", "logout"} => ref \in 1..Len(sessions)
    BY <1>0, AccFacts DEF Acc!Brings
  <2> QED BY <1>a, <1>2, <2>1, <2>2, <2>3 DEF Staged, Acc!First, Acc!Ops
<1>6. call' = [call EXCEPT ![h] = c]
  BY <1>1
<1> HIDE DEF c
<1>7. call' \in [Handlers -> Acc!Call] /\ call'[h] = c
        /\ \A g \in Handlers \ {h} : call'[g] = call[g]
  BY <1>0, <1>4, <1>6 DEF Acc!TypeOK
<1>8. Acc!TypeOK'
  BY <1>0, <1>7, ServicesAssumption DEF Acc!TypeOK, Acc!AccountsAssumption
<1>9. Grow /\ Held'
  BY <1>0, AccFacts DEF Grow, StageInv, Held
<1>10. Staged(call[h])'
  BY <1>0, <1>5, <1>7 DEF Staged
<1> QED BY <1>0, <1>7, <1>8, <1>9, <1>10, HandlerStep

LEMMA RegistrationStage ==
  ASSUME StageInv, NEW h \in Handlers, Acc!Registration(h)
  PROVE  StageInv'
<1>0. /\ Acc!TypeOK /\ Staged(call[h]) /\ Held
      /\ UNCHANGED <<codes, sessions, registered, profile>> /\ registered' \in 0..1
  BY DEF StageInv, Acc!Registration, Acc!TypeOK
<1>1. CASE call[h].pc = "check"
  <2>1. PICK pc \in {"idle", "create"} : Acc!Goto(h, pc) /\ UNCHANGED user
    BY <1>1 DEF Acc!Registration, Acc!At
  <2>2. pc \in {"idle"} \cup Acc!Stages /\ call'[h].pc = pc
    BY <1>0, <2>1, GotoCall DEF Acc!Stages
  <2>3. Staged(call[h])'
    BY <2>2 DEF Staged
  <2> QED BY <1>0, <1>1, <2>1, <2>2, <2>3, QuietStep
<1>2. CASE call[h].pc = "create" /\ user.exists
  <2>1. Acc!Goto(h, "idle") /\ UNCHANGED user
    BY <1>2 DEF Acc!Registration, Acc!At
  <2>2. call'[h].pc = "idle"
    BY <1>0, <2>1, GotoCall
  <2>3. Staged(call[h])'
    BY <2>2 DEF Staged
  <2> QED BY <1>0, <1>2, <2>1, <2>2, <2>3, QuietStep
<1>3. CASE call[h].pc = "create" /\ ~user.exists
  <2>0. PICK c : c = [call[h] EXCEPT !.pc = "invalidate", !.gen = 1]
    OBVIOUS
  <2>1. user' = [exists |-> TRUE, gen |-> 1, verified |-> FALSE] /\ Acc!Go(h, c)
    BY <1>3, <2>0 DEF Acc!Registration, Acc!At
  <2>2. c \in Acc!Call /\ c.pc = "invalidate"
    BY <1>0, <2>0, AccFacts DEF Acc!Call, Acc!Stages
  <2>3. user' \in Acc!User /\ user'.exists
    BY <2>1 DEF Acc!User
  <2>4. Staged(c)'
    BY <2>2, <2>3 DEF Staged
  <2>5. Grow /\ Held'
    BY <1>0, <2>3, AccFacts DEF Grow, Held
  <2>6. /\ call' = [call EXCEPT ![h] = c] /\ UNCHANGED <<scene, concurrent, publishing, calls>>
        /\ call[h].pc # "idle" /\ codes' \in Seq(Acc!Code) /\ sessions' \in Seq(Acc!Session)
        /\ profile' \in Acc!Profile
    BY <1>0, <1>3, <2>1 DEF Acc!Go, Acc!TypeOK
  <2> QED BY <1>0, <2>2, <2>3, <2>4, <2>5, <2>6, TableStep
<1> QED BY <1>1, <1>2, <1>3 DEF Acc!Registration, Acc!At

LEMMA PublishStage ==
  ASSUME StageInv, NEW h \in Handlers, Acc!Publish(h)
  PROVE  StageInv'
<1>0. /\ Acc!TypeOK /\ Staged(call[h]) /\ call[h].pc = "publish"
      /\ UNCHANGED <<user, codes, sessions, profile>> /\ registered' \in 0..1
  BY DEF StageInv, Acc!Publish, Acc!TypeOK, Acc!At, Acc!auth
<1>1. PICK pc \in {"idle", "tier"} : Acc!Goto(h, pc)
  BY DEF Acc!Publish
<1>2. pc \in {"idle"} \cup Acc!Stages /\ call'[h].pc = pc
  BY <1>0, <1>1, GotoCall DEF Acc!Stages
<1>3. Staged(call[h])'
  BY <1>0, <1>2 DEF Staged
<1> QED BY <1>0, <1>1, <1>2, <1>3, QuietStep

LEMMA RequestOtpStage ==
  ASSUME StageInv, NEW h \in Handlers, Acc!RequestOtp(h)
  PROVE  StageInv'
<1>0. /\ Acc!TypeOK /\ Staged(call[h]) /\ call[h].pc = "count"
      /\ UNCHANGED <<user, codes, sessions, profile>> /\ registered' \in 0..1
  BY DEF StageInv, Acc!RequestOtp, Acc!TypeOK, Acc!At, Acc!auth
<1>1. PICK pc \in {"idle", "invalidate"} : Acc!Goto(h, pc)
  BY DEF Acc!RequestOtp
<1>2. pc \in {"idle"} \cup Acc!Stages /\ call'[h].pc = pc
  BY <1>0, <1>1, GotoCall DEF Acc!Stages
<1>3. Staged(call[h])'
  BY <1>0, <1>2 DEF Staged
<1> QED BY <1>0, <1>1, <1>2, <1>3, QuietStep

(* What marking the codes of a purpose leaves. *)
LEMMA InvalidateType ==
  ASSUME Acc!TypeOK, NEW p
  PROVE  /\ Acc!InvalidateCodes(p) \in Seq(Acc!Code)
         /\ Len(Acc!InvalidateCodes(p)) = Len(codes)
         /\ \A i \in 1..Len(codes) :
              /\ Acc!InvalidateCodes(p)[i].purpose = codes[i].purpose
              /\ Acc!InvalidateCodes(p)[i].accepted = codes[i].accepted
              /\ Acc!InvalidateCodes(p)[i].expired = codes[i].expired
              /\ Acc!InvalidateCodes(p)[i].used <=> codes[i].used \/ codes[i].purpose = p
<1> DEFINE row(i) == IF codes[i].purpose = p THEN [codes[i] EXCEPT !.used = TRUE] ELSE codes[i]
<1>1. ASSUME NEW i \in 1..Len(codes)
      PROVE  /\ row(i) \in Acc!Code /\ row(i).purpose = codes[i].purpose
             /\ row(i).accepted = codes[i].accepted /\ row(i).expired = codes[i].expired
             /\ row(i).used <=> codes[i].used \/ codes[i].purpose = p
  <2>1. codes[i] \in Acc!Code
    BY AccFacts
  <2> QED BY <2>1 DEF Acc!Code
<1>2. Acc!InvalidateCodes(p) = [i \in 1..Len(codes) |-> row(i)] /\ Len(codes) \in Nat
  BY AccFacts DEF Acc!InvalidateCodes
<1> HIDE DEF row
<1> QED BY <1>1, <1>2

LEMMA CreateOtpStage ==
  ASSUME StageInv, NEW h \in Handlers, Acc!CreateOtp(h)
  PROVE  StageInv'
<1>0. /\ Acc!TypeOK /\ Staged(call[h]) /\ Held
      /\ UNCHANGED <<user, sessions, registered, profile>> /\ registered' \in 0..1
  BY DEF StageInv, Acc!CreateOtp, Acc!TypeOK
<1>1. CASE call[h].pc = "dispatch"
  <2>1. PICK pc \in {"idle", "publish"} : Acc!Goto(h, pc) /\ UNCHANGED codes
    BY <1>1 DEF Acc!CreateOtp, Acc!At
  <2>2. pc \in {"idle"} \cup Acc!Stages /\ call'[h].pc = pc
    BY <1>0, <2>1, GotoCall DEF Acc!Stages
  <2>3. Staged(call[h])'
    BY <1>0, <1>1, <2>2 DEF Staged
  <2> QED BY <1>0, <1>1, <2>1, <2>2, <2>3, QuietStep
<1>2. CASE call[h].pc \in {"invalidate", "insert"}
  <2>1. PICK pc \in {"insert", "dispatch"} : Acc!Goto(h, pc)
    BY <1>2 DEF Acc!CreateOtp, Acc!At
  <2>2. /\ call' \in [Handlers -> Acc!Call] /\ call'[h].pc = pc
        /\ \A g \in Handlers \ {h} : call'[g] = call[g]
        /\ UNCHANGED <<scene, concurrent, publishing, calls>>
    BY <1>0, <2>1, GotoCall DEF Acc!Stages
  <2>3. /\ codes' \in Seq(Acc!Code) /\ Len(codes) <= Len(codes')
        /\ \A i \in 1..Len(codes) : codes'[i].purpose = codes[i].purpose
    <3>1. CASE codes' = Acc!InvalidateCodes(Acc!Purpose(h))
      BY <1>0, <3>1, InvalidateType, AccFacts
    <3>2. CASE codes' = Append(codes, [purpose |-> Acc!Purpose(h), used |-> FALSE,
                                       expired |-> FALSE, accepted |-> 0])
      <4> DEFINE row == [purpose |-> Acc!Purpose(h), used |-> FALSE,
                         expired |-> FALSE, accepted |-> 0]
      <4>1. row \in Acc!Code
        BY DEF Acc!Code, Acc!Purpose, Acc!PurposeOf, Acc!Purposes
      <4>2. codes' = Append(codes, row)
        BY <3>2
      <4> HIDE DEF row
      <4> QED BY <1>0, <4>1, <4>2, AccFacts
    <3> QED BY <1>2, <3>1, <3>2 DEF Acc!CreateOtp, Acc!At
  <2>4. Acc!TypeOK'
    BY <1>0, <2>2, <2>3 DEF Acc!TypeOK
  <2>5. Grow /\ Held'
    BY <1>0, <2>3, AccFacts DEF Grow, Held
  <2>6. Staged(call[h])'
    BY <1>0, <1>2, <2>2 DEF Staged
  <2> QED BY <1>2, <2>2, <2>4, <2>5, <2>6, HandlerStep
<1> QED BY <1>1, <1>2 DEF Acc!CreateOtp, Acc!At

LEMMA AppendRow ==
  ASSUME NEW S, NEW q \in Seq(S), NEW e \in S
  PROVE  /\ Append(q, e) \in Seq(S) /\ Len(Append(q, e)) = Len(q) + 1
         /\ \A i \in 1..Len(q) : Append(q, e)[i] = q[i]
         /\ Append(q, e)[Len(q) + 1] = e
OBVIOUS

LEMMA ExceptRow ==
  ASSUME NEW S, NEW q \in Seq(S), NEW i \in 1..Len(q), NEW e \in S
  PROVE  /\ [q EXCEPT ![i] = e] \in Seq(S) /\ Len([q EXCEPT ![i] = e]) = Len(q)
         /\ [q EXCEPT ![i] = e][i] = e
         /\ \A j \in 1..Len(q) \ {i} : [q EXCEPT ![i] = e][j] = q[j]
OBVIOUS

(* A code that is accepted. *)
LEMMA AcceptedRow ==
  ASSUME NEW r \in Acc!Code
  PROVE  LET e == [r EXCEPT !.used = TRUE, !.accepted = r.accepted + 1]
         IN  /\ e \in Acc!Code /\ e.purpose = r.purpose /\ e.expired = r.expired
             /\ e.used /\ e.accepted = r.accepted + 1
<1>1. r.accepted + 1 \in Nat
  BY DEF Acc!Code
<1>2. PICK n \in Nat : n = r.accepted + 1
  BY <1>1
<1>3. [r EXCEPT !.used = TRUE, !.accepted = n] \in Acc!Code
  BY DEF Acc!Code
<1>4. LET e == [r EXCEPT !.used = TRUE, !.accepted = n]
      IN  /\ e.purpose = r.purpose /\ e.expired = r.expired
          /\ e.used /\ e.accepted = n
  BY DEF Acc!Code
<1> QED BY <1>2, <1>3, <1>4

LEMMA ExpireStage ==
  ASSUME StageInv, Acc!Expire
  PROVE  StageInv'
<1>0. /\ Acc!TypeOK /\ Held
      /\ UNCHANGED <<scene, concurrent, publishing, user, sessions, registered, profile, call,
           calls>>
  BY DEF StageInv, Acc!Expire
<1>1. PICK i \in 1..Len(codes) :
        codes' = [codes EXCEPT ![i] = [codes[i] EXCEPT !.expired = TRUE]]
  BY <1>0, AccFacts DEF Acc!Expire
<1>2. PICK e : e = [codes[i] EXCEPT !.expired = TRUE]
  OBVIOUS
<1>3. codes[i] \in Acc!Code
  BY <1>0, AccFacts
<1>4. e \in Acc!Code /\ e.purpose = codes[i].purpose
  BY <1>2, <1>3 DEF Acc!Code
<1>5. codes' = [codes EXCEPT ![i] = e] /\ codes \in Seq(Acc!Code)
  BY <1>0, <1>1, <1>2, AccFacts
<1>6. /\ codes' \in Seq(Acc!Code) /\ Len(codes') = Len(codes)
      /\ \A j \in 1..Len(codes) : codes'[j].purpose = codes[j].purpose
  BY <1>4, <1>5, ExceptRow
<1>7. Acc!TypeOK'
  BY <1>0, <1>6 DEF Acc!TypeOK
<1>8. Grow /\ Held'
  <2>1. Len(codes) \in Nat /\ Len(sessions) \in Nat /\ profile.tier \in Nat
    BY <1>0, AccFacts
  <2>2. Grow
    BY <1>0, <1>6, <2>1 DEF Grow
  <2>3. Held'
    BY <1>0 DEF Held
  <2> QED BY <2>2, <2>3
<1>9. \A g \in Handlers : Staged(call[g])'
  BY <1>0, <1>7, <1>8, StaysStaged DEF StageInv
<1>10. InOrder'
  BY <1>0 DEF StageInv, InOrder
<1> QED BY <1>7, <1>8, <1>9, <1>10 DEF StageInv

LEMMA CreateProfileStage ==
  ASSUME StageInv, Acc!CreateProfile
  PROVE  StageInv'
<1>0. /\ Acc!TypeOK /\ Held
      /\ UNCHANGED <<scene, concurrent, publishing, user, codes, sessions, call, calls>>
      /\ registered' = 0
  BY DEF StageInv, Acc!CreateProfile, Acc!auth
<1>1. profile' = IF profile.exists THEN profile ELSE [profile EXCEPT !.exists = TRUE]
  BY DEF Acc!CreateProfile
<1>2. /\ profile' \in Acc!Profile /\ profile'.exists
      /\ profile'.tier = profile.tier /\ profile'.pending = profile.pending
      /\ profile'.status = profile.status
  BY <1>0, <1>1 DEF Acc!TypeOK, Acc!Profile
<1>3. Acc!TypeOK'
  BY <1>0, <1>2 DEF Acc!TypeOK
<1>4. Grow /\ Held'
  BY <1>0, <1>2, AccFacts DEF Grow, Held
<1>5. \A g \in Handlers : Staged(call[g])'
  BY <1>0, <1>3, <1>4, StaysStaged DEF StageInv
<1>6. InOrder'
  BY <1>0 DEF StageInv, InOrder
<1> QED BY <1>3, <1>4, <1>5, <1>6 DEF StageInv

(* The newest of the valid codes is one of them. *)
LEMMA LastValid ==
  ASSUME Acc!TypeOK, NEW p, Acc!Live(p) # {}
  PROVE  Acc!Max(Acc!Live(p)) \in Acc!Live(p)
<1> DEFINE S == Acc!Live(p)
<1>1. S \subseteq 1..Len(codes) /\ Len(codes) \in Nat
  BY AccFacts DEF Acc!Live
<1>3. S # {}
  OBVIOUS
<1> HIDE DEF S
<1>4. \E x \in S : \A y \in S : x >= y
  <2>1. PICK x \in S : \A y \in S : y <= x
    BY <1>1, <1>3, LastNumber
  <2>2. \A y \in S : x >= y
    BY <1>1, <2>1
  <2> QED BY <2>2
<1>5. Acc!Max(S) = CHOOSE x \in S : \A y \in S : x >= y
  BY DEF Acc!Max
<1>6. Acc!Max(S) \in S
  BY <1>4, <1>5
<1> QED BY <1>6 DEF S

LEMMA FindCodeStage ==
  ASSUME StageInv, NEW h \in Handlers, Acc!FindCode(h)
  PROVE  StageInv'
<1>0. /\ Acc!TypeOK /\ Staged(call[h]) /\ call[h].pc = "find"
      /\ UNCHANGED <<user, codes, sessions, profile>> /\ registered' \in 0..1
  BY DEF StageInv, Acc!FindCode, Acc!TypeOK, Acc!At, Acc!auth
<1>1. PICK pc \in {"idle", "use"} :
        /\ Acc!Goto(h, pc)
        /\ pc = "use" => /\ Acc!Live(Acc!Purpose(h)) # {}
                         /\ call[h].ref = Acc!Max(Acc!Live(Acc!Purpose(h)))
  BY DEF Acc!FindCode
<1>2. /\ pc \in {"idle"} \cup Acc!Stages /\ call'[h].pc = pc
      /\ pc # "idle" => call'[h].op = call[h].op /\ call'[h].ref = call[h].ref
  BY <1>0, <1>1, GotoCall DEF Acc!Stages
<1>3. pc = "use" => codes[call[h].ref].purpose = Acc!PurposeOf(call[h].op)
  <2>1. ASSUME pc = "use" PROVE call[h].ref \in Acc!Live(Acc!Purpose(h))
    BY <1>0, <1>1, <2>1, LastValid
  <2> QED BY <2>1 DEF Acc!Live, Acc!Purpose, Acc!Op
<1>4. Staged(call[h])'
  BY <1>0, <1>2, <1>3 DEF Staged, Acc!PurposeOf
<1> QED BY <1>0, <1>1, <1>2, <1>4, QuietStep

LEMMA LoginStage ==
  ASSUME StageInv, NEW h \in Handlers, Acc!Login(h)
  PROVE  StageInv'
<1>0. /\ Acc!TypeOK /\ Staged(call[h]) /\ call[h].pc = "auth"
      /\ UNCHANGED <<user, codes, sessions, profile>> /\ registered' \in 0..1
  BY DEF StageInv, Acc!Login, Acc!TypeOK, Acc!At, Acc!auth
<1>1. PICK pc \in {"idle", "invalidate", "tier"} : Acc!Goto(h, pc)
  BY DEF Acc!Login
<1>2. pc \in {"idle"} \cup Acc!Stages /\ call'[h].pc = pc
  BY <1>0, <1>1, GotoCall DEF Acc!Stages
<1>3. Staged(call[h])'
  BY <1>0, <1>1, <1>2 DEF Staged
<1> QED BY <1>0, <1>1, <1>2, <1>3, QuietStep

LEMMA UseCodeStage ==
  ASSUME StageInv, NEW h \in Handlers, Acc!UseCode(h)
  PROVE  StageInv'
<1> DEFINE i == call[h].ref
<1>0. /\ Acc!TypeOK /\ Staged(call[h]) /\ Held /\ call[h].pc = "use"
      /\ UNCHANGED <<user, sessions, registered, profile>>
  BY DEF StageInv, Acc!UseCode, Acc!At
<1>1. PICK pc \in {"idle", "verified", "hash"} :
        /\ Acc!Goto(h, pc)
        /\ pc = "verified" => call[h].op = "verify"
  BY DEF Acc!UseCode, Acc!Op
<1>2. /\ call' \in [Handlers -> Acc!Call] /\ call'[h].pc = pc
      /\ pc # "idle" => call'[h].op = call[h].op
      /\ \A g \in Handlers \ {h} : call'[g] = call[g]
      /\ UNCHANGED <<scene, concurrent, publishing, calls>>
  BY <1>0, <1>1, GotoCall DEF Acc!Stages
<1>3. PICK e : e = [codes[i] EXCEPT !.used = TRUE, !.accepted = codes[i].accepted + 1]
  OBVIOUS
<1>4. i \in 1..Len(codes) /\ codes[i] \in Acc!Code
  BY <1>0, AccFacts DEF Staged
<1>5. e \in Acc!Code /\ e.purpose = codes[i].purpose
  BY <1>3, <1>4, AcceptedRow
<1>6. codes' = [codes EXCEPT ![i] = e] /\ codes \in Seq(Acc!Code)
  BY <1>0, <1>3, AccFacts DEF Acc!UseCode
<1>7. /\ codes' \in Seq(Acc!Code) /\ Len(codes') = Len(codes)
      /\ \A j \in 1..Len(codes) : codes'[j].purpose = codes[j].purpose
  BY <1>4, <1>5, <1>6, ExceptRow
<1>8. Acc!TypeOK'
  BY <1>0, <1>2, <1>7 DEF Acc!TypeOK
<1>9. Grow /\ Held'
  BY <1>0, <1>7, AccFacts DEF Grow, Held
<1>10. Staged(call[h])'
  BY <1>0, <1>1, <1>2 DEF Staged, Acc!PurposeOf
<1> QED BY <1>0, <1>2, <1>8, <1>9, <1>10, HandlerStep

LEMMA VerifyPhoneStage ==
  ASSUME StageInv, NEW h \in Handlers, Acc!VerifyPhone(h)
  PROVE  StageInv'
<1>0. /\ Acc!TypeOK /\ Staged(call[h]) /\ Held /\ call[h].pc = "verified"
      /\ UNCHANGED <<codes, sessions, registered, profile>> /\ Acc!Goto(h, "publish")
  BY DEF StageInv, Acc!VerifyPhone, Acc!At
<1>1. /\ call' \in [Handlers -> Acc!Call] /\ call'[h].pc = "publish"
      /\ \A g \in Handlers \ {h} : call'[g] = call[g]
      /\ UNCHANGED <<scene, concurrent, publishing, calls>>
  BY <1>0, GotoCall DEF Acc!Stages
<1>2. user' \in Acc!User /\ user'.exists = user.exists /\ user'.gen = user.gen
  BY <1>0, AccFacts DEF Acc!VerifyPhone, Acc!User
<1>3. Acc!TypeOK'
  BY <1>0, <1>1, <1>2 DEF Acc!TypeOK
<1>4. user.exists
  BY <1>0 DEF Staged
<1>5. Grow /\ Held'
  BY <1>0, <1>2, <1>4, AccFacts DEF Grow, Held
<1>6. Staged(call[h])'
  BY <1>1, <1>2, <1>4 DEF Staged
<1> QED BY <1>0, <1>1, <1>3, <1>5, <1>6, HandlerStep

(* What revoking leaves of the sessions. *)
LEMMA RevokedRow ==
  ASSUME NEW r \in Acc!Session
  PROVE  LET e == [r EXCEPT !.live = FALSE]
         IN  /\ e \in Acc!Session /\ ~e.live /\ e.gen = r.gen
             /\ e.tier = r.tier /\ e.root = r.root
BY DEF Acc!Session

LEMMA RevokedAllSessions ==
  ASSUME Acc!TypeOK
  PROVE  /\ Acc!RevokedAll \in Seq(Acc!Session) /\ Len(Acc!RevokedAll) = Len(sessions)
         /\ \A s \in 1..Len(sessions) :
              /\ ~Acc!RevokedAll[s].live /\ Acc!RevokedAll[s].tier = sessions[s].tier
              /\ Acc!RevokedAll[s].root = sessions[s].root
<1> DEFINE row(s) == [sessions[s] EXCEPT !.live = FALSE]
<1>1. ASSUME NEW s \in 1..Len(sessions)
      PROVE  /\ row(s) \in Acc!Session /\ ~row(s).live /\ row(s).tier = sessions[s].tier
             /\ row(s).root = sessions[s].root
  BY AccFacts, RevokedRow
<1>2. Acc!RevokedAll = [s \in 1..Len(sessions) |-> row(s)] /\ Len(sessions) \in Nat
  BY AccFacts DEF Acc!RevokedAll
<1> HIDE DEF row
<1> QED BY <1>1, <1>2

LEMMA ResetPasswordStage ==
  ASSUME StageInv, NEW h \in Handlers, Acc!ResetPassword(h)
  PROVE  StageInv'
<1>0. /\ Acc!TypeOK /\ Staged(call[h]) /\ Held /\ call[h].pc \in {"hash", "revokeAll"}
      /\ UNCHANGED <<codes, registered, profile>>
  BY DEF StageInv, Acc!ResetPassword, Acc!At
<1>1. PICK pc \in {"idle", "revokeAll"} : Acc!Goto(h, pc)
  BY DEF Acc!ResetPassword
<1>2. /\ call' \in [Handlers -> Acc!Call] /\ call'[h].pc = pc
      /\ \A g \in Handlers \ {h} : call'[g] = call[g]
      /\ UNCHANGED <<scene, concurrent, publishing, calls>>
  BY <1>0, <1>1, GotoCall DEF Acc!Stages
<1>3. user.exists
  BY <1>0 DEF Staged
<1>4. user' \in Acc!User /\ user'.exists
  BY <1>0, <1>3, AccFacts DEF Acc!ResetPassword, Acc!User
<1>5. /\ sessions' \in Seq(Acc!Session) /\ Len(sessions') = Len(sessions)
      /\ \A s \in 1..Len(sessions) : sessions'[s].tier = sessions[s].tier
  BY <1>0, AccFacts, RevokedAllSessions DEF Acc!ResetPassword
<1>6. Acc!TypeOK'
  BY <1>0, <1>2, <1>4, <1>5 DEF Acc!TypeOK
<1>7. Grow
  BY <1>0, <1>4, <1>5, AccFacts DEF Grow
<1>8. Held'
  BY <1>0, <1>4, <1>5 DEF Held
<1>9. Staged(call[h])'
  BY <1>2, <1>4 DEF Staged
<1> QED BY <1>0, <1>2, <1>6, <1>7, <1>8, <1>9, HandlerStep

(* A refresh or a log-out. *)
LEMMA RevokeSession ==
  ASSUME Acc!TypeOK, NEW t \in 1..Len(sessions), Acc!Revoke(t)
  PROVE  /\ sessions' \in Seq(Acc!Session) /\ Len(sessions') = Len(sessions)
         /\ \A s \in 1..Len(sessions) :
              /\ sessions'[s].live <=> sessions[s].live /\ s # t
              /\ sessions'[s].gen = sessions[s].gen /\ sessions'[s].tier = sessions[s].tier
              /\ sessions'[s].root = sessions[s].root
<1>1. PICK e : e = [sessions[t] EXCEPT !.live = FALSE]
  OBVIOUS
<1>2. sessions \in Seq(Acc!Session) /\ sessions[t] \in Acc!Session
  BY AccFacts
<1>3. /\ e \in Acc!Session /\ ~e.live /\ e.gen = sessions[t].gen
      /\ e.tier = sessions[t].tier /\ e.root = sessions[t].root
  BY <1>1, <1>2, RevokedRow
<1>4. sessions' = [sessions EXCEPT ![t] = e]
  BY <1>1 DEF Acc!Revoke
<1>5. /\ sessions' \in Seq(Acc!Session) /\ Len(sessions') = Len(sessions)
      /\ sessions'[t] = e /\ \A s \in 1..Len(sessions) \ {t} : sessions'[s] = sessions[s]
  BY <1>2, <1>3, <1>4, ExceptRow
<1>6. \A s \in 1..Len(sessions) : sessions[s].live \in BOOLEAN
  BY AccFacts DEF Acc!Session
<1> QED BY <1>3, <1>5, <1>6

LEMMA RefreshStage ==
  ASSUME StageInv, NEW h \in Handlers, Acc!Refresh(h)
  PROVE  StageInv'
<1>0. /\ Acc!TypeOK /\ Staged(call[h]) /\ Held
      /\ call[h].pc \in {"session", "revoke", "logout"}
      /\ UNCHANGED <<user, codes, registered, profile>>
  BY DEF StageInv, Acc!Refresh, Acc!At
<1>1. call[h].ref \in 1..Len(sessions) /\ user.exists /\ call[h] \in Acc!Call
  BY <1>0, AccFacts DEF Staged
<1>2. CASE call[h].pc = "session"
  <2>1. PICK c : c = IF sessions[call[h].ref].live
                     THEN [call[h] EXCEPT !.pc = "revoke", !.gen = sessions[call[h].ref].gen]
                     ELSE Acc!Idle
    OBVIOUS
  <2>2. Acc!Go(h, c) /\ UNCHANGED sessions
    BY <1>2, <2>1 DEF Acc!Refresh, Acc!At
  <2>3. sessions[call[h].ref].gen \in Nat
    BY <1>0, <1>1, AccFacts DEF Acc!Session
  <2>4. \/ c \in Acc!Call /\ c.pc = "idle"
        \/ c \in Acc!Call /\ c.pc = "revoke" /\ c.op = call[h].op /\ c.ref = call[h].ref
    <3>1. CASE sessions[call[h].ref].live
      <4>1. c = [pc |-> "revoke", op |-> call[h].op, ref |-> call[h].ref,
                 gen |-> sessions[call[h].ref].gen, tier |-> call[h].tier]
        BY <1>1, <2>1, <3>1 DEF Acc!Call
      <4> QED BY <1>1, <2>3, <4>1 DEF Acc!Call, Acc!Stages
    <3>2. CASE ~sessions[call[h].ref].live
      BY <2>1, <3>2, IdleCall
    <3> QED BY <3>1, <3>2
  <2>5. /\ call' = [call EXCEPT ![h] = c] /\ UNCHANGED <<scene, concurrent, publishing, calls>>
        /\ call[h].pc # "idle" /\ registered' \in 0..1 /\ user' \in Acc!User
        /\ codes' \in Seq(Acc!Code) /\ sessions' \in Seq(Acc!Session)
        /\ profile' \in Acc!Profile
    BY <1>0, <1>2, <2>2 DEF Acc!Go, Acc!TypeOK
  <2>6. Grow
    BY <1>0, <2>2, AccFacts DEF Grow
  <2>7. Held'
    BY <1>0, <2>2 DEF Held
  <2>8. Staged(c)'
    BY <1>0, <1>1, <1>2, <2>2, <2>4 DEF Staged
  <2> QED BY <2>4, <2>5, <2>6, <2>7, <2>8, TableStep
<1>3. CASE call[h].pc \in {"revoke", "logout"}
  <2>1. PICK pc \in {"idle", "tier"} : Acc!Goto(h, pc)
    BY <1>3 DEF Acc!Refresh, Acc!At
  <2>2. /\ call' \in [Handlers -> Acc!Call] /\ call'[h].pc = pc
        /\ \A g \in Handlers \ {h} : call'[g] = call[g]
        /\ UNCHANGED <<scene, concurrent, publishing, calls>>
    BY <1>0, <2>1, GotoCall DEF Acc!Stages
  <2>3. Acc!Revoke(call[h].ref)
    BY <1>3 DEF Acc!Refresh, Acc!At
  <2>4. /\ sessions' \in Seq(Acc!Session) /\ Len(sessions') = Len(sessions)
        /\ \A s \in 1..Len(sessions) : sessions'[s].tier = sessions[s].tier
    BY <1>0, <1>1, <2>3, RevokeSession
  <2>5. Acc!TypeOK'
    BY <1>0, <2>2, <2>4 DEF Acc!TypeOK
  <2>6. Grow
    BY <1>0, <2>4, AccFacts DEF Grow
  <2>7. Held'
    BY <1>0, <2>4 DEF Held
  <2>8. Staged(call[h])'
    BY <1>0, <1>1, <2>2 DEF Staged
  <2> QED BY <1>0, <2>2, <2>5, <2>6, <2>7, <2>8, HandlerStep
<1> QED BY <1>0, <1>2, <1>3

LEMMA FetchKycTierStage ==
  ASSUME StageInv, NEW h \in Handlers, Acc!FetchKycTier(h)
  PROVE  StageInv'
<1>0. /\ Acc!TypeOK /\ Staged(call[h]) /\ Held /\ call[h].pc = "tier"
      /\ UNCHANGED <<user, codes, sessions, registered, profile>>
  BY DEF StageInv, Acc!FetchKycTier, Acc!At, Acc!auth
<1>1. PICK t \in Acc!Tiers : Acc!Go(h, [call[h] EXCEPT !.pc = "issue", !.tier = t])
  BY DEF Acc!FetchKycTier
<1>2. t \in Nat /\ t <= profile.tier
  BY <1>0, <1>1, AccFacts DEF Acc!Tiers
<1>3. PICK c : c = [call[h] EXCEPT !.pc = "issue", !.tier = t]
  OBVIOUS
<1>4. call[h] \in Acc!Call
  BY <1>0, AccFacts
<1>5. c = [pc |-> "issue", op |-> call[h].op, ref |-> call[h].ref,
           gen |-> call[h].gen, tier |-> t]
  BY <1>3, <1>4 DEF Acc!Call
<1>6. c \in Acc!Call /\ c.pc = "issue" /\ c.tier = t
  BY <1>2, <1>4, <1>5 DEF Acc!Call, Acc!Stages
<1>7. /\ call' = [call EXCEPT ![h] = c] /\ UNCHANGED <<scene, concurrent, publishing, calls>>
      /\ call[h].pc # "idle" /\ registered' \in 0..1 /\ user' \in Acc!User
      /\ codes' \in Seq(Acc!Code) /\ sessions' \in Seq(Acc!Session)
      /\ profile' \in Acc!Profile
  BY <1>0, <1>1, <1>3 DEF Acc!Go, Acc!TypeOK
<1>8. Grow
  BY <1>0, AccFacts DEF Grow
<1>9. Held'
  BY <1>0 DEF Held
<1>10. Staged(c)'
  BY <1>0, <1>2, <1>6 DEF Staged
<1> QED BY <1>6, <1>7, <1>8, <1>9, <1>10, TableStep

LEMMA CreateSessionStage ==
  ASSUME StageInv, NEW h \in Handlers, Acc!CreateSession(h)
  PROVE  StageInv'
<1>0. /\ Acc!TypeOK /\ Staged(call[h]) /\ Held /\ call[h].pc = "issue"
      /\ UNCHANGED <<user, codes, registered, profile>>
  BY DEF StageInv, Acc!CreateSession, Acc!At
<1>1. PICK pc \in {"idle", "publish"} : Acc!Goto(h, pc)
  BY DEF Acc!CreateSession
<1>2. /\ call' \in [Handlers -> Acc!Call] /\ call'[h].pc = pc
      /\ \A g \in Handlers \ {h} : call'[g] = call[g]
      /\ UNCHANGED <<scene, concurrent, publishing, calls>>
  BY <1>0, <1>1, GotoCall DEF Acc!Stages
<1>3. PICK e : e = [live |-> TRUE, gen |-> call[h].gen, tier |-> call[h].tier,
                    root |-> Acc!Op(h) # "refresh"]
  OBVIOUS
<1>4. e \in Acc!Session /\ e.tier = call[h].tier
  BY <1>0, <1>3, AccFacts DEF Acc!Session, Acc!Call
<1>5. sessions' = Append(sessions, e) /\ sessions \in Seq(Acc!Session)
  BY <1>0, <1>3, AccFacts DEF Acc!CreateSession
<1>6. /\ sessions' \in Seq(Acc!Session) /\ Len(sessions') = Len(sessions) + 1
      /\ \A s \in 1..Len(sessions) : sessions'[s] = sessions[s]
      /\ sessions'[Len(sessions) + 1] = e /\ Len(sessions) \in Nat
  BY <1>4, <1>5, AppendRow
<1>7. Acc!TypeOK'
  BY <1>0, <1>2, <1>6 DEF Acc!TypeOK
<1>8. Grow
  BY <1>0, <1>6, AccFacts DEF Grow
<1>9. call[h].tier <= profile.tier
  BY <1>0 DEF Staged
<1>10. \A s \in 1..Len(sessions') : sessions'[s].tier <= profile.tier
  BY <1>0, <1>4, <1>6, <1>9 DEF Held
<1>11. Held'
  <2>1. user.exists
    BY <1>0 DEF Staged
  <2> QED BY <1>0, <1>10, <2>1 DEF Held
<1>12. Staged(call[h])'
  BY <1>0, <1>2 DEF Staged
<1> QED BY <1>0, <1>2, <1>7, <1>8, <1>11, <1>12, HandlerStep

(* A submission and a review change only the profile. *)
LEMMA KycStage ==
  ASSUME StageInv, NEW h \in Handlers, Acc!SubmitKyc(h) \/ Acc!ReviewKyc(h)
  PROVE  StageInv'
<1>0. /\ Acc!TypeOK /\ Staged(call[h]) /\ Held
      /\ call[h].pc \in {"submit", "submitted", "documents", "verdict"}
      /\ UNCHANGED <<user, codes, sessions, registered>>
  BY DEF StageInv, Acc!SubmitKyc, Acc!ReviewKyc, Acc!At, Acc!auth
<1>1. PICK pc \in {"submitted", "verdict", "publish"} : Acc!Goto(h, pc)
  BY DEF Acc!SubmitKyc, Acc!ReviewKyc
<1>2. /\ call' \in [Handlers -> Acc!Call] /\ call'[h].pc = pc
      /\ \A g \in Handlers \ {h} : call'[g] = call[g]
      /\ UNCHANGED <<scene, concurrent, publishing, calls>>
  BY <1>0, <1>1, GotoCall DEF Acc!Stages
<1>3. user.exists /\ profile.exists
  BY <1>0 DEF Staged
<1>4. /\ profile.pending \in Nat /\ profile.tier \in Nat /\ profile.tier \in {0, 2}
      /\ profile \in Acc!Profile
  BY <1>0, AccFacts DEF Held
<1>5. /\ profile' \in Acc!Profile /\ profile'.exists
      /\ profile'.tier \in {profile.tier, 2}
  <2>1. CASE profile' = [profile EXCEPT !.pending = profile.pending + 1]
    BY <1>3, <1>4, <2>1 DEF Acc!Profile
  <2>2. CASE profile' = [profile EXCEPT !.status = "ID_SUBMITTED"]
    BY <1>3, <1>4, <2>2 DEF Acc!Profile
  <2>3. CASE profile' = [profile EXCEPT !.pending = 0]
    BY <1>3, <1>4, <2>3 DEF Acc!Profile
  <2>4. ASSUME NEW t \in {profile.tier, 2}, NEW s \in {"APPROVED", "REJECTED"},
               profile' = [profile EXCEPT !.tier = t, !.status = s]
        PROVE  profile' \in Acc!Profile /\ profile'.exists
                 /\ profile'.tier \in {profile.tier, 2}
    <3>1. profile' = [exists |-> profile.exists, tier |-> t, pending |-> profile.pending,
                      status |-> s]
      BY <1>4, <2>4 DEF Acc!Profile
    <3> QED BY <1>3, <1>4, <3>1 DEF Acc!Profile
  <2> QED BY <2>1, <2>2, <2>3, <2>4
       DEF Acc!SubmitKyc, Acc!ReviewKyc, Acc!TierAfter, Acc!PendingAfterReview
<1>6. profile.tier <= profile'.tier /\ profile'.tier \in {0, 2}
  BY <1>4, <1>5
<1>7. Acc!TypeOK'
  BY <1>0, <1>2, <1>5 DEF Acc!TypeOK
<1>8. Grow
  BY <1>0, <1>5, <1>6, AccFacts DEF Grow
<1>9. \A s \in 1..Len(sessions) : sessions[s].tier \in Nat
  BY <1>0, AccFacts DEF Acc!Session
<1>10. Held'
  BY <1>0, <1>3, <1>5, <1>6, <1>9 DEF Held
<1>11. Staged(call[h])'
  BY <1>2, <1>3, <1>5, <1>0 DEF Staged
<1> QED BY <1>0, <1>2, <1>7, <1>8, <1>10, <1>11, HandlerStep

LEMMA AccInitStage == Acc!Init => StageInv
<1> SUFFICES ASSUME Acc!Init PROVE StageInv
  OBVIOUS
<1>0. PICK old \in BOOLEAN :
        /\ user = [exists |-> old, gen |-> IF old THEN 1 ELSE 0, verified |-> old]
        /\ profile = [exists |-> old, tier |-> 0, pending |-> 0, status |-> "NONE"]
        /\ codes = IF old THEN <<[purpose |-> "PHONE_VERIFY", used |-> TRUE,
                                  expired |-> FALSE, accepted |-> 1]>>
                          ELSE <<>>
  BY DEF Acc!Init
<1>1. /\ user \in Acc!User /\ profile \in Acc!Profile /\ codes \in Seq(Acc!Code)
      /\ ~user.exists => user.gen = 0 /\ ~user.verified
      /\ ~profile.exists => profile.pending = 0 /\ profile.status = "NONE"
      /\ profile.tier = 0
  <2>1. user \in Acc!User /\ (~user.exists => user.gen = 0 /\ ~user.verified)
    BY <1>0 DEF Acc!User
  <2>2. /\ profile \in Acc!Profile /\ profile.tier = 0
        /\ ~profile.exists => profile.pending = 0 /\ profile.status = "NONE"
    BY <1>0 DEF Acc!Profile
  <2>3. [purpose |-> "PHONE_VERIFY", used |-> TRUE, expired |-> FALSE, accepted |-> 1]
          \in Acc!Code
    BY DEF Acc!Code, Acc!Purposes
  <2>4. codes \in Seq(Acc!Code)
    BY <1>0, <2>3
  <2> QED BY <2>1, <2>2, <2>4
<1>2. sessions \in Seq(Acc!Session) /\ Len(sessions) = 0
  BY DEF Acc!Init
<1>3. \A h \in Handlers : call[h] = Acc!Idle
  BY DEF Acc!Init
<1>4. call \in [Handlers -> Acc!Call]
  BY IdleCall DEF Acc!Init
<1>5. Acc!TypeOK
  BY <1>1, <1>2, <1>4, ServicesAssumption DEF Acc!Init, Acc!TypeOK, Acc!AccountsAssumption
<1>6. \A h \in Handlers : Staged(call[h])
  BY <1>3, IdleCall DEF Staged
<1>7. Held
  BY <1>1, <1>2 DEF Held
<1>8. InOrder
  BY <1>3, IdleCall DEF InOrder
<1> QED BY <1>5, <1>6, <1>7, <1>8 DEF StageInv

LEMMA AccStageStep == StageInv /\ [Acc!Next]_Acc!vars => StageInv'
<1> SUFFICES ASSUME StageInv, [Acc!Next]_Acc!vars PROVE StageInv'
  OBVIOUS
<1>1. CASE Acc!CreateProfile
  BY <1>1, CreateProfileStage
<1>2. CASE Acc!Expire
  BY <1>2, ExpireStage
<1>3. ASSUME NEW h \in Handlers, Acc!Start(h) PROVE StageInv'
  BY <1>3, StartStage
<1>4. ASSUME NEW h \in Handlers, Acc!Handle(h) PROVE StageInv'
  BY <1>4, RegistrationStage, PublishStage, RequestOtpStage, CreateOtpStage, FindCodeStage,
     UseCodeStage, VerifyPhoneStage, ResetPasswordStage, LoginStage, RefreshStage,
     FetchKycTierStage, CreateSessionStage, KycStage DEF Acc!Handle
<1>5. CASE UNCHANGED Acc!vars
  <2>1. UNCHANGED <<scene, concurrent, publishing, user, codes, sessions, registered, profile,
                    call, calls>>
    BY <1>5 DEF Acc!vars, Acc!auth
  <2>2. \A h \in Handlers : Staged(call[h])'
    BY <2>1 DEF StageInv, Staged
  <2>3. Acc!TypeOK' /\ Held' /\ InOrder'
    BY <2>1 DEF StageInv, Acc!TypeOK, Held, InOrder
  <2> QED BY <2>2, <2>3 DEF StageInv
<1> QED BY <1>1, <1>2, <1>3, <1>4, <1>5 DEF Acc!Next

LEMMA StageInvariant == Acc!Spec => []StageInv
BY AccInitStage, AccStageStep, PTL DEF Acc!Spec

-----------------------------------------------------------------------------
(* KYC.  In turn, a profile is on the list of the reviewers if and only    *)
(* if documents wait, except while the one handler is between the two      *)
(* writes.                                                                 *)

(* Where a handler goes from an await. *)
Onward(p) ==
  CASE p = "check"      -> {"idle", "create"}
    [] p = "create"     -> {"idle", "invalidate"}
    [] p = "publish"    -> {"idle", "tier"}
    [] p = "count"      -> {"idle", "invalidate"}
    [] p = "invalidate" -> {"insert"}
    [] p = "insert"     -> {"dispatch"}
    [] p = "dispatch"   -> {"idle", "publish"}
    [] p = "find"       -> {"idle", "use"}
    [] p = "use"        -> {"idle", "verified", "hash"}
    [] p = "verified"   -> {"publish"}
    [] p = "hash"       -> {"revokeAll"}
    [] p = "auth"       -> {"idle", "invalidate", "tier"}
    [] p = "session"    -> {"idle", "revoke"}
    [] p = "revoke"     -> {"tier"}
    [] p = "tier"       -> {"issue"}
    [] p = "issue"      -> {"idle", "publish"}
    [] p = "submit"     -> {"submitted"}
    [] p = "submitted"  -> {"publish"}
    [] p = "documents"  -> {"verdict"}
    [] p = "verdict"    -> {"publish"}
    [] OTHER            -> {"idle"}

(* The step of a handler: where it goes, what it keeps, and the only table *)
(* that it may change.                                                     *)
Routed(h) ==
  /\ call[h].pc # "idle"
  /\ call'[h].pc \in Onward(call[h].pc)
  /\ call'[h].pc # "idle" => call'[h].op = call[h].op /\ call'[h].ref = call[h].ref
  /\ call'[h].pc # "idle" /\ call[h].pc \notin {"create", "session"} =>
       call'[h].gen = call[h].gen
  /\ \A g \in Handlers \ {h} : call'[g] = call[g]
  /\ UNCHANGED concurrent

LEMMA GotoRoutes ==
  ASSUME Acc!TypeOK, NEW h \in Handlers, NEW pc \in Onward(call[h].pc),
         pc \in {"idle"} \cup Acc!Stages, call[h].pc # "idle", Acc!Goto(h, pc)
  PROVE  Routed(h)
<1>1. /\ call'[h].pc = pc
      /\ pc # "idle" => /\ call'[h].op = call[h].op /\ call'[h].ref = call[h].ref
                        /\ call'[h].gen = call[h].gen
      /\ \A g \in Handlers \ {h} : call'[g] = call[g]
      /\ UNCHANGED concurrent
  BY GotoCall
<1> QED BY <1>1 DEF Routed

LEMMA GoRoutes ==
  ASSUME Acc!TypeOK, NEW h \in Handlers, NEW c, Acc!Go(h, c),
         c.pc \in Onward(call[h].pc), call[h].pc # "idle",
         c.pc # "idle" => c.op = call[h].op /\ c.ref = call[h].ref,
         c.pc # "idle" /\ call[h].pc \notin {"create", "session"} => c.gen = call[h].gen
  PROVE  Routed(h)
<1>1. call'[h] = c /\ UNCHANGED concurrent /\ \A g \in Handlers \ {h} : call'[g] = call[g]
  BY DEF Acc!Go, Acc!TypeOK
<1> QED BY <1>1 DEF Routed

LEMMA EveryRoute ==
  ASSUME Acc!TypeOK, NEW h \in Handlers, Acc!Handle(h)
  PROVE  Routed(h)
<1>1. ASSUME \E pc \in Onward(call[h].pc) : pc \in {"idle"} \cup Acc!Stages /\ Acc!Goto(h, pc),
             call[h].pc # "idle"
      PROVE  Routed(h)
  BY <1>1, GotoRoutes
<1>r. call[h] \in Acc!Call
  BY AccFacts
<1>2. CASE Acc!Registration(h)
  <2>1. CASE call[h].pc = "check"
    BY <1>1, <1>2, <2>1 DEF Acc!Registration, Acc!At, Onward, Acc!Stages
  <2>2. CASE call[h].pc = "create" /\ user.exists
    BY <1>1, <1>2, <2>2 DEF Acc!Registration, Acc!At, Onward, Acc!Stages
  <2>3. CASE call[h].pc = "create" /\ ~user.exists
    <3>1. PICK c : c = [call[h] EXCEPT !.pc = "invalidate", !.gen = 1]
      OBVIOUS
    <3>2. Acc!Go(h, c)
      BY <1>2, <2>3, <3>1 DEF Acc!Registration, Acc!At
    <3>3. c.pc = "invalidate" /\ c.op = call[h].op /\ c.ref = call[h].ref
      BY <1>r, <3>1 DEF Acc!Call
    <3>4. c.pc \in Onward(call[h].pc)
      BY <2>3, <3>3 DEF Onward
    <3> QED BY <2>3, <3>2, <3>3, <3>4, GoRoutes
  <2> QED BY <1>2, <2>1, <2>2, <2>3 DEF Acc!Registration, Acc!At
<1>3. CASE Acc!Publish(h)
  BY <1>1, <1>3 DEF Acc!Publish, Acc!At, Onward, Acc!Stages
<1>4. CASE Acc!RequestOtp(h)
  BY <1>1, <1>4 DEF Acc!RequestOtp, Acc!At, Onward, Acc!Stages
<1>5. CASE Acc!CreateOtp(h)
  BY <1>1, <1>5 DEF Acc!CreateOtp, Acc!At, Onward, Acc!Stages
<1>6. CASE Acc!FindCode(h)
  BY <1>1, <1>6 DEF Acc!FindCode, Acc!At, Onward, Acc!Stages
<1>7. CASE Acc!UseCode(h)
  BY <1>1, <1>7 DEF Acc!UseCode, Acc!At, Onward, Acc!Stages
<1>8. CASE Acc!VerifyPhone(h)
  BY <1>1, <1>8 DEF Acc!VerifyPhone, Acc!At, Onward, Acc!Stages
<1>9. CASE Acc!ResetPassword(h)
  <2>1. CASE call[h].pc = "hash"
    BY <1>1, <1>9, <2>1 DEF Acc!ResetPassword, Acc!At, Onward, Acc!Stages
  <2>2. CASE call[h].pc = "revokeAll"
    BY <1>1, <1>9, <2>2 DEF Acc!ResetPassword, Acc!At, Onward, Acc!Stages
  <2> QED BY <1>9, <2>1, <2>2 DEF Acc!ResetPassword, Acc!At
<1>10. CASE Acc!Login(h)
  BY <1>1, <1>10 DEF Acc!Login, Acc!At, Onward, Acc!Stages
<1>11. CASE Acc!Refresh(h)
  <2>1. CASE call[h].pc = "session"
    <3>1. PICK c : c = IF sessions[call[h].ref].live
                       THEN [call[h] EXCEPT !.pc = "revoke", !.gen = sessions[call[h].ref].gen]
                       ELSE Acc!Idle
      OBVIOUS
    <3>2. Acc!Go(h, c)
      BY <1>11, <2>1, <3>1 DEF Acc!Refresh, Acc!At
    <3>3. \/ c.pc = "revoke" /\ c.op = call[h].op /\ c.ref = call[h].ref
          \/ c.pc = "idle"
      BY <1>r, <3>1, IdleCall DEF Acc!Call
    <3>4. c.pc \in Onward(call[h].pc)
      BY <2>1, <3>3 DEF Onward
    <3> QED BY <2>1, <3>2, <3>3, <3>4, GoRoutes
  <2>2. CASE call[h].pc = "revoke"
    BY <1>1, <1>11, <2>2 DEF Acc!Refresh, Acc!At, Onward, Acc!Stages
  <2>3. CASE call[h].pc = "logout"
    BY <1>1, <1>11, <2>3 DEF Acc!Refresh, Acc!At, Onward, Acc!Stages
  <2> QED BY <1>11, <2>1, <2>2, <2>3 DEF Acc!Refresh, Acc!At
<1>12. CASE Acc!FetchKycTier(h)
  <2>1. PICK t \in Acc!Tiers : Acc!Go(h, [call[h] EXCEPT !.pc = "issue", !.tier = t])
    BY <1>12 DEF Acc!FetchKycTier
  <2>2. PICK c : c = [call[h] EXCEPT !.pc = "issue", !.tier = t]
    OBVIOUS
  <2>3. c.pc = "issue" /\ c.op = call[h].op /\ c.ref = call[h].ref /\ c.gen = call[h].gen
    BY <1>r, <2>2 DEF Acc!Call
  <2>4. call[h].pc = "tier" /\ Acc!Go(h, c)
    BY <1>12, <2>1, <2>2 DEF Acc!FetchKycTier, Acc!At
  <2>5. c.pc \in Onward(call[h].pc)
    BY <2>3, <2>4 DEF Onward
  <2> QED BY <2>3, <2>4, <2>5, GoRoutes
<1>13. CASE Acc!CreateSession(h)
  BY <1>1, <1>13 DEF Acc!CreateSession, Acc!At, Onward, Acc!Stages
<1>14. CASE Acc!SubmitKyc(h)
  BY <1>1, <1>14 DEF Acc!SubmitKyc, Acc!At, Onward, Acc!Stages
<1>15. CASE Acc!ReviewKyc(h)
  BY <1>1, <1>15 DEF Acc!ReviewKyc, Acc!At, Onward, Acc!Stages
<1> QED BY <1>2, <1>3, <1>4, <1>5, <1>6, <1>7, <1>8, <1>9, <1>10, <1>11, <1>12, <1>13, <1>14,
           <1>15 DEF Acc!Handle

LEMMA OneTable ==
  ASSUME NEW h \in Handlers, Acc!Handle(h)
  PROVE  /\ call[h].pc \notin {"create", "verified", "hash"} => UNCHANGED user
         /\ call[h].pc \notin {"invalidate", "insert", "use"} => UNCHANGED codes
         /\ call[h].pc \notin {"revokeAll", "revoke", "logout", "issue"} => UNCHANGED sessions
         /\ call[h].pc \notin {"submit", "submitted", "documents", "verdict"} =>
              UNCHANGED profile
BY DEF Acc!Handle, Acc!Registration, Acc!Publish, Acc!RequestOtp, Acc!CreateOtp, Acc!FindCode,
   Acc!UseCode, Acc!VerifyPhone, Acc!ResetPassword, Acc!Login, Acc!Refresh, Acc!FetchKycTier,
   Acc!CreateSession, Acc!SubmitKyc, Acc!ReviewKyc, Acc!auth, Acc!At

LEMMA StartsAt ==
  ASSUME Acc!TypeOK, NEW h \in Handlers, Acc!Start(h)
  PROVE  /\ call[h].pc = "idle"
         /\ call'[h].pc \in {"check", "find", "auth", "session", "logout", "count",
              "invalidate",
                             "submit", "documents"}
         /\ call'[h].gen = user.gen
         /\ call'[h].op = "refresh" => call'[h].pc = "session"
         /\ \A g \in Handlers \ {h} : call'[g] = call[g]
         /\ UNCHANGED <<concurrent, user, codes, sessions, profile>>
<1>1. PICK op \in scene : \E ref \in Acc!Brings(op) :
        call' = [call EXCEPT ![h] = [pc |-> Acc!First(op), op |-> op, ref |-> ref,
                                     gen |-> user.gen, tier |-> 0]]
  BY DEF Acc!Start
<1>2. PICK ref \in Acc!Brings(op) :
        call' = [call EXCEPT ![h] = [pc |-> Acc!First(op), op |-> op, ref |-> ref,
                                     gen |-> user.gen, tier |-> 0]]
  BY <1>1
<1>3. DOMAIN call = Handlers
  BY DEF Acc!TypeOK
<1>4. /\ call'[h] = [pc |-> Acc!First(op), op |-> op, ref |-> ref, gen |-> user.gen, tier |-> 0]
      /\ \A g \in Handlers \ {h} : call'[g] = call[g]
  BY <1>2, <1>3
<1>5. Acc!First(op) \in {"check", "find", "auth", "session", "logout", "count", "invalidate",
                         "submit", "documents"}
  BY DEF Acc!First
<1>6. op = "refresh" => Acc!First(op) = "session"
  BY DEF Acc!First
<1> QED BY <1>4, <1>5, <1>6 DEF Acc!Start, Acc!At, Acc!auth

(* In turn, the documents and the status agree between a submission's two  *)
(* writes and between a review's.                                          *)
Reviewing(h) == call[h].pc \in {"submitted", "verdict"}

(* Waiting documents and the status, but for the handler between the two    *)
(* writes of a submission or a review.                                     *)
KycAgrees ==
  /\ (\A h \in Handlers : ~Reviewing(h)) =>
       (profile.status = "ID_SUBMITTED" <=> profile.pending > 0)
  /\ \A h \in Handlers : /\ call[h].pc = "submitted" => profile.pending > 0
                         /\ call[h].pc = "verdict" => profile.pending = 0

KycInv == ~concurrent => KycAgrees

LEMMA KycHandled ==
  ASSUME StageInv, KycInv, NEW h \in Handlers, Acc!Handle(h)
  PROVE  KycInv'
<1> SUFFICES ASSUME ~concurrent' PROVE KycAgrees'
  BY DEF KycInv
<1>1. Acc!TypeOK /\ Routed(h) /\ Held
  BY EveryRoute DEF StageInv
<1>2. ~concurrent /\ call[h].pc # "idle" /\ \A g \in Handlers \ {h} : call'[g] = call[g]
  BY <1>1 DEF Routed
<1>3. \A g \in Handlers \ {h} : call[g].pc = "idle" /\ call'[g].pc = "idle"
  BY <1>2 DEF StageInv, InOrder
<1>4. profile.pending \in Nat /\ profile \in Acc!Profile
  BY <1>1, AccFacts
<1>5. CASE call[h].pc \notin {"submit", "submitted", "documents", "verdict"}
  <2>1. UNCHANGED profile
    BY <1>5, OneTable
  <2>2. call'[h].pc \notin {"submitted", "verdict"}
    BY <1>1, <1>5 DEF Routed, Onward
  <2>3. \A g \in Handlers : ~Reviewing(g) /\ call'[g].pc \notin {"submitted", "verdict"}
    BY <1>3, <1>5, <2>2 DEF Reviewing
  <2>4. profile.status = "ID_SUBMITTED" <=> profile.pending > 0
    BY <1>2, <2>3 DEF KycInv, KycAgrees
  <2> QED BY <2>1, <2>3, <2>4 DEF KycAgrees
<1>6. CASE call[h].pc = "submit"
  <2>1. profile' = [profile EXCEPT !.pending = profile.pending + 1]
    BY <1>6 DEF Acc!Handle, Acc!Registration, Acc!Publish, Acc!RequestOtp, Acc!CreateOtp,
       Acc!FindCode, Acc!UseCode, Acc!VerifyPhone, Acc!ResetPassword, Acc!Login, Acc!Refresh,
       Acc!FetchKycTier, Acc!CreateSession, Acc!SubmitKyc, Acc!ReviewKyc, Acc!At
  <2>2. profile'.pending > 0 /\ call'[h].pc = "submitted"
    BY <1>1, <1>4, <1>6, <2>1 DEF Routed, Onward, Acc!Profile
  <2> QED BY <1>3, <2>2 DEF KycAgrees, Reviewing
<1>7. CASE call[h].pc = "submitted"
  <2>1. profile' = [profile EXCEPT !.status = "ID_SUBMITTED"]
    BY <1>7 DEF Acc!Handle, Acc!Registration, Acc!Publish, Acc!RequestOtp, Acc!CreateOtp,
       Acc!FindCode, Acc!UseCode, Acc!VerifyPhone, Acc!ResetPassword, Acc!Login, Acc!Refresh,
       Acc!FetchKycTier, Acc!CreateSession, Acc!SubmitKyc, Acc!ReviewKyc, Acc!At
  <2>2. call'[h].pc = "publish"
    BY <1>1, <1>7 DEF Routed, Onward
  <2>3. profile'.status = "ID_SUBMITTED" /\ profile'.pending = profile.pending
    BY <1>4, <2>1 DEF Acc!Profile
  <2>4. profile.pending > 0
    BY <1>2, <1>7 DEF KycInv, KycAgrees
  <2> QED BY <1>3, <2>2, <2>3, <2>4 DEF KycAgrees
<1>8. CASE call[h].pc = "documents"
  <2>1. profile' = [profile EXCEPT !.pending = Acc!PendingAfterReview]
    BY <1>8 DEF Acc!Handle, Acc!Registration, Acc!Publish, Acc!RequestOtp, Acc!CreateOtp,
       Acc!FindCode, Acc!UseCode, Acc!VerifyPhone, Acc!ResetPassword, Acc!Login, Acc!Refresh,
       Acc!FetchKycTier, Acc!CreateSession, Acc!SubmitKyc, Acc!ReviewKyc, Acc!At
  <2>2. profile'.pending = 0 /\ call'[h].pc = "verdict"
    BY <1>1, <1>4, <1>8, <2>1 DEF Routed, Onward, Acc!Profile, Acc!PendingAfterReview
  <2> QED BY <1>3, <2>2 DEF KycAgrees, Reviewing
<1>9. CASE call[h].pc = "verdict"
  <2>1. \E t : \E s \in {"APPROVED", "REJECTED"} :
          profile' = [profile EXCEPT !.tier = t, !.status = s]
    BY <1>9 DEF Acc!Handle, Acc!Registration, Acc!Publish, Acc!RequestOtp, Acc!CreateOtp,
       Acc!FindCode, Acc!UseCode, Acc!VerifyPhone, Acc!ResetPassword, Acc!Login, Acc!Refresh,
       Acc!FetchKycTier, Acc!CreateSession, Acc!SubmitKyc, Acc!ReviewKyc, Acc!At
  <2>2. call'[h].pc = "publish"
    BY <1>1, <1>9 DEF Routed, Onward
  <2>3. profile'.status # "ID_SUBMITTED" /\ profile'.pending = profile.pending
    BY <1>4, <2>1 DEF Acc!Profile
  <2>4. profile.pending = 0
    BY <1>2, <1>9 DEF KycInv, KycAgrees
  <2> QED BY <1>3, <2>2, <2>3, <2>4 DEF KycAgrees
<1> QED BY <1>5, <1>6, <1>7, <1>8, <1>9

LEMMA KycStep ==
  StageInv /\ KycInv /\ [Acc!Next]_Acc!vars => KycInv'
<1> SUFFICES ASSUME StageInv, KycInv, [Acc!Next]_Acc!vars PROVE KycInv'
  OBVIOUS
<1>0. Acc!TypeOK
  BY DEF StageInv
<1>1. CASE Acc!CreateProfile
  <2>1. UNCHANGED <<concurrent, call>>
    BY <1>1 DEF Acc!CreateProfile
  <2>2. profile'.pending = profile.pending /\ profile'.status = profile.status
    BY <1>0, <1>1 DEF Acc!CreateProfile, Acc!TypeOK, Acc!Profile
  <2> QED BY <2>1, <2>2 DEF KycInv, KycAgrees, Reviewing
<1>2. CASE Acc!Expire
  BY <1>2 DEF Acc!Expire, KycInv, KycAgrees, Reviewing
<1>3. ASSUME NEW h \in Handlers, Acc!Start(h) PROVE KycInv'
  <2>1. /\ call[h].pc = "idle" /\ call'[h].pc \notin {"submitted", "verdict"}
        /\ \A g \in Handlers \ {h} : call'[g] = call[g]
        /\ UNCHANGED <<concurrent, profile>>
    BY <1>0, <1>3, StartsAt
  <2> QED BY <2>1 DEF KycInv, KycAgrees, Reviewing
<1>4. ASSUME NEW h \in Handlers, Acc!Handle(h) PROVE KycInv'
  BY <1>4, KycHandled
<1>5. CASE UNCHANGED Acc!vars
  BY <1>5 DEF Acc!vars, KycInv, KycAgrees, Reviewing
<1> QED BY <1>1, <1>2, <1>3, <1>4, <1>5 DEF Acc!Next

(* No token carries more than the granted tier, and in turn exactly the    *)
(* profiles with waiting documents are on the list of the reviewers.       *)
THEOREM TiersFollowReviewsHolds == Spec => []TiersFollowReviews
<1>1. Acc!Init => KycInv
  <2> SUFFICES ASSUME Acc!Init PROVE KycInv
    OBVIOUS
  <2>1. profile.pending = 0 /\ profile.status = "NONE"
    BY DEF Acc!Init
  <2>2. \A h \in Handlers : call[h].pc = "idle"
    BY IdleCall DEF Acc!Init
  <2> QED BY <2>1, <2>2 DEF KycInv, KycAgrees
<1>2. StageInv /\ KycInv => TiersFollowReviews
  <2> SUFFICES ASSUME StageInv, KycInv PROVE TiersFollowReviews
    OBVIOUS
  <2>1. Held /\ Acc!TypeOK
    BY DEF StageInv
  <2>2. Acc!TokensNeverOverPermit
    BY <2>1, AccFacts DEF Acc!TokensNeverOverPermit, Held, Acc!getKycStatus
  <2>3. Acc!PendingIsListed
    <3> SUFFICES ASSUME ~concurrent, Acc!InTurn
                 PROVE  Acc!listUsers("ID_SUBMITTED") <=> profile.pending > 0
      BY DEF Acc!PendingIsListed
    <3>1. profile.status = "ID_SUBMITTED" <=> profile.pending > 0
      BY DEF KycInv, KycAgrees, Reviewing, Acc!InTurn, Acc!At
    <3>2. profile.pending > 0 => profile.exists
      BY <2>1 DEF Held
    <3> QED BY <3>1, <3>2 DEF Acc!listUsers
  <2> QED BY <2>2, <2>3 DEF TiersFollowReviews
<1> QED BY <1>1, <1>2, KycStep, StageInvariant, AccountsBehave, PTL DEF Acc!Spec

-----------------------------------------------------------------------------
(* Sessions.  In turn, a refresh that has revoked a session owes the next  *)
(* one, and a reset that has changed the password owes the revocation.     *)

LiveIn(q) == {s \in 1..Len(q) : q[s].live}
RootsIn(q) == {s \in 1..Len(q) : q[s].root}

(* A refresh that has revoked a session and has not created the next. *)
Owing(h) == call[h].op = "refresh" /\ call[h].pc \in {"tier", "issue"}

(* A refresh publishes nothing. *)
Refreshes(k) ==
  k.op = "refresh" => k.pc \in {"idle", "session", "revoke", "tier", "issue"}

(* Live sessions rest on the password of now, but for a handler about to    *)
(* revoke them all; they are at most the log-ins, less those a refresh owes. *)
SessionsAgree ==
  /\ (\A h \in Handlers : call[h].pc # "revokeAll") =>
       \A s \in LiveIn(sessions) : sessions[s].gen = user.gen
  /\ \A h \in Handlers : call[h].pc \notin {"idle", "revokeAll"} => call[h].gen = user.gen
  /\ \A h \in Handlers : call[h].pc = "revoke" => sessions[call[h].ref].live
  /\ \A h \in Handlers : Refreshes(call[h])
  /\ Cardinality(LiveIn(sessions)) <= Cardinality(RootsIn(sessions))
  /\ \A h \in Handlers : Owing(h) =>
       Cardinality(LiveIn(sessions)) < Cardinality(RootsIn(sessions))

SessionsInv == ~concurrent => SessionsAgree

LEMMA FewSessions ==
  ASSUME NEW q \in Seq(Acc!Session)
  PROVE  /\ LiveIn(q) \subseteq 1..Len(q) /\ RootsIn(q) \subseteq 1..Len(q)
         /\ IsFiniteSet(LiveIn(q)) /\ IsFiniteSet(RootsIn(q)) /\ Len(q) \in Nat
         /\ Cardinality(LiveIn(q)) \in Nat /\ Cardinality(RootsIn(q)) \in Nat
<1>1. Len(q) \in Nat /\ LiveIn(q) \subseteq 1..Len(q) /\ RootsIn(q) \subseteq 1..Len(q)
  BY DEF LiveIn, RootsIn
<1>2. IsFiniteSet(1..Len(q))
  BY <1>1, FS_Interval
<1> QED BY <1>1, <1>2, FS_Subset, FS_CardinalityType

(* Revoking a live session. *)
LEMMA FewerLive ==
  ASSUME Acc!TypeOK, NEW t \in 1..Len(sessions), Acc!Revoke(t)
  PROVE  /\ LiveIn(sessions') = LiveIn(sessions) \ {t}
         /\ RootsIn(sessions') = RootsIn(sessions)
         /\ Cardinality(LiveIn(sessions')) <= Cardinality(LiveIn(sessions))
         /\ sessions[t].live =>
              Cardinality(LiveIn(sessions')) = Cardinality(LiveIn(sessions)) - 1
<1>1. /\ sessions' \in Seq(Acc!Session) /\ Len(sessions') = Len(sessions)
      /\ \A s \in 1..Len(sessions) :
           /\ sessions'[s].live <=> sessions[s].live /\ s # t
           /\ sessions'[s].root = sessions[s].root
  BY RevokeSession
<1>2. LiveIn(sessions') = LiveIn(sessions) \ {t}
  BY <1>1 DEF LiveIn
<1>3. RootsIn(sessions') = RootsIn(sessions)
  BY <1>1 DEF RootsIn
<1>4. sessions \in Seq(Acc!Session)
  BY AccFacts
<1>5. IsFiniteSet(LiveIn(sessions)) /\ Cardinality(LiveIn(sessions)) \in Nat
  BY <1>4, FewSessions
<1>6. sessions[t].live => t \in LiveIn(sessions)
  BY DEF LiveIn
<1>7. ~sessions[t].live => LiveIn(sessions') = LiveIn(sessions)
  BY <1>2 DEF LiveIn
<1>8. t \in LiveIn(sessions) =>
        Cardinality(LiveIn(sessions) \ {t}) = Cardinality(LiveIn(sessions)) - 1
  BY <1>5, FS_RemoveElement
<1>9. sessions[t].live => Cardinality(LiveIn(sessions')) = Cardinality(LiveIn(sessions)) - 1
  BY <1>2, <1>6, <1>8
<1>10. Cardinality(LiveIn(sessions')) <= Cardinality(LiveIn(sessions))
  <2>1. CASE sessions[t].live
    BY <1>5, <1>9, <2>1
  <2>2. CASE ~sessions[t].live
    BY <1>5, <1>7, <2>2
  <2> QED BY <2>1, <2>2
<1> QED BY <1>2, <1>3, <1>9, <1>10

(* A session more. *)
LEMMA MoreSessions ==
  ASSUME NEW q \in Seq(Acc!Session), NEW e \in Acc!Session, e.live
  PROVE  /\ LiveIn(Append(q, e)) = LiveIn(q) \cup {Len(q) + 1}
         /\ Cardinality(LiveIn(Append(q, e))) = Cardinality(LiveIn(q)) + 1
         /\ Cardinality(RootsIn(Append(q, e))) =
              Cardinality(RootsIn(q)) + (IF e.root THEN 1 ELSE 0)
<1> DEFINE n == Len(q) + 1
<1> DEFINE r == Append(q, e)
<1>1. /\ r \in Seq(Acc!Session) /\ Len(r) = n /\ r[n] = e
      /\ \A i \in 1..Len(q) : r[i] = q[i]
  BY AppendRow
<1>2. Len(q) \in Nat /\ IsFiniteSet(LiveIn(q)) /\ IsFiniteSet(RootsIn(q))
  BY FewSessions
<1>3. 1..n = (1..Len(q)) \cup {n} /\ n \notin 1..Len(q)
  BY <1>2
<1> HIDE DEF r, n
<1>4. LiveIn(r) = LiveIn(q) \cup {n} /\ n \notin LiveIn(q)
  BY <1>1, <1>3 DEF LiveIn
<1>5. RootsIn(r) = (IF e.root THEN RootsIn(q) \cup {n} ELSE RootsIn(q)) /\ n \notin RootsIn(q)
  BY <1>1, <1>3 DEF RootsIn
<1>6. /\ Cardinality(LiveIn(q) \cup {n}) = Cardinality(LiveIn(q)) + 1
      /\ Cardinality(RootsIn(q) \cup {n}) = Cardinality(RootsIn(q)) + 1
  BY <1>2, <1>4, <1>5, FS_AddElement
<1>7. Cardinality(RootsIn(q)) \in Nat
  BY FewSessions
<1>8. Cardinality(RootsIn(r)) = Cardinality(RootsIn(q)) + (IF e.root THEN 1 ELSE 0)
  BY <1>5, <1>6, <1>7
<1>9. LiveIn(r) = LiveIn(q) \cup {n} /\ Cardinality(LiveIn(r)) = Cardinality(LiveIn(q)) + 1
  BY <1>4, <1>6
<1> QED BY <1>8, <1>9 DEF r, n

(* The session of the account is written by four handlers in turn. *)
LEMMA SessionsHandled ==
  ASSUME StageInv, SessionsInv, NEW h \in Handlers, Acc!Handle(h)
  PROVE  SessionsInv'
<1> SUFFICES ASSUME ~concurrent' PROVE SessionsAgree'
  BY DEF SessionsInv
<1>1. Acc!TypeOK /\ Routed(h) /\ Staged(call[h])
  BY EveryRoute DEF StageInv
<1>2. /\ ~concurrent /\ call[h].pc # "idle" /\ \A g \in Handlers \ {h} : call'[g] = call[g]
      /\ call'[h].pc \in Onward(call[h].pc)
      /\ call'[h].pc # "idle" => call'[h].op = call[h].op /\ call'[h].ref = call[h].ref
      /\ call'[h].pc # "idle" /\ call[h].pc \notin {"create", "session"} =>
           call'[h].gen = call[h].gen
  BY <1>1 DEF Routed
<1>3. \A g \in Handlers \ {h} : call[g].pc = "idle" /\ call'[g].pc = "idle"
  BY <1>2 DEF StageInv, InOrder
<1>4. SessionsAgree
  BY <1>2 DEF SessionsInv
<1>5. /\ sessions \in Seq(Acc!Session) /\ call[h] \in Acc!Call /\ user \in Acc!User
      /\ Cardinality(LiveIn(sessions)) \in Nat /\ Cardinality(RootsIn(sessions)) \in Nat
      /\ Len(sessions) \in Nat
  BY <1>1, AccFacts, FewSessions
<1>r. \A g \in Handlers : Refreshes(call'[g])
  <2>1. call[h].op = "refresh" => call[h].pc \in {"session", "revoke", "tier", "issue"}
    BY <1>2, <1>4 DEF SessionsAgree, Refreshes
  <2>2. CASE call[h].pc = "issue" /\ call[h].op = "refresh"
    <3>1. Acc!Goto(h, "idle")
      BY <2>2 DEF Acc!Handle, Acc!Registration, Acc!Publish, Acc!RequestOtp,
         Acc!CreateOtp, Acc!FindCode, Acc!UseCode, Acc!VerifyPhone, Acc!ResetPassword, Acc!Login,
         Acc!Refresh, Acc!FetchKycTier, Acc!CreateSession, Acc!SubmitKyc, Acc!ReviewKyc, Acc!At,
         Acc!Op
    <3>2. call'[h].pc = "idle"
      BY <1>1, <3>1, GotoCall
    <3> QED BY <1>3, <3>2 DEF Refreshes
  <2>3. CASE call[h].pc \in {"session", "revoke", "tier"} /\ call[h].op = "refresh"
    <3>1. call'[h].pc \in {"idle", "revoke", "tier", "issue"}
      BY <1>2, <2>3 DEF Onward
    <3> QED BY <1>3, <3>1 DEF Refreshes
  <2>4. CASE call[h].op # "refresh"
    BY <1>2, <1>3, <2>4 DEF Refreshes
  <2> QED BY <2>1, <2>2, <2>3, <2>4
<1>6. ASSUME UNCHANGED <<sessions, user>>, call[h].pc # "session", call[h].pc # "revoke",
             call[h].pc # "revokeAll", call[h].pc # "create",
             Owing(h)' => Owing(h)
      PROVE  SessionsAgree'
  <2>3. \A g \in Handlers : call[g].pc # "revokeAll"
    BY <1>3, <1>6
  <2>4. \A s \in LiveIn(sessions) : sessions[s].gen = user.gen
    BY <1>4, <2>3 DEF SessionsAgree
  <2>5. call[h].gen = user.gen
    BY <1>2, <1>4, <1>6 DEF SessionsAgree
  <2>6. call'[h].pc \notin {"idle", "revokeAll"} => call'[h].gen = user.gen
    BY <1>2, <1>6, <2>5
  <2>7. call'[h].pc # "revoke"
    BY <1>2, <1>6 DEF Onward
  <2>8. \A g \in Handlers : Owing(g)' => Owing(g)
    BY <1>3, <1>6 DEF Owing
  <2> QED BY <1>r, <1>3, <1>4, <1>6, <2>4, <2>6, <2>7, <2>8 DEF SessionsAgree
<1>7. CASE call[h].pc \notin {"create", "verified", "hash", "revokeAll", "session", "revoke",
                              "logout", "issue"}
  <2>1. UNCHANGED <<sessions, user>>
    BY <1>7, OneTable
  <2>2. call'[h].pc \in {"tier", "issue"} /\ call[h].op = "refresh" => call[h].pc = "tier"
    BY <1>2, <1>4, <1>7 DEF Onward, SessionsAgree, Refreshes
  <2>3. Owing(h)' => Owing(h)
    BY <1>2, <2>2 DEF Owing
  <2> QED BY <1>6, <1>7, <2>1, <2>3
<1>8. CASE call[h].pc = "verified"
  <2>1. user' = [user EXCEPT !.verified = TRUE] /\ UNCHANGED sessions
    BY <1>8 DEF Acc!Handle, Acc!Registration, Acc!Publish, Acc!RequestOtp, Acc!CreateOtp,
       Acc!FindCode, Acc!UseCode, Acc!VerifyPhone, Acc!ResetPassword, Acc!Login, Acc!Refresh,
       Acc!FetchKycTier, Acc!CreateSession, Acc!SubmitKyc, Acc!ReviewKyc, Acc!At
  <2>2. user'.gen = user.gen /\ call'[h].pc = "publish"
    BY <1>2, <1>5, <1>8, <2>1 DEF Acc!User, Onward
  <2>3. \A s \in LiveIn(sessions) : sessions[s].gen = user.gen
    BY <1>3, <1>4, <1>8 DEF SessionsAgree
  <2>4. call'[h].gen = user'.gen
    BY <1>2, <1>4, <1>8, <2>2 DEF SessionsAgree
  <2>5. \A g \in Handlers : ~Owing(g)'
    BY <1>3, <2>2 DEF Owing
  <2> QED BY <1>r, <1>3, <1>4, <2>1, <2>2, <2>3, <2>4, <2>5 DEF SessionsAgree
<1>9. CASE call[h].pc = "create"
  <2>1. /\ UNCHANGED sessions
        /\ \/ UNCHANGED user /\ Acc!Goto(h, "idle")
           \/ /\ user' = [exists |-> TRUE, gen |-> 1, verified |-> FALSE] /\ ~user.exists
              /\ Acc!Go(h, [call[h] EXCEPT !.pc = "invalidate", !.gen = 1])
    BY <1>9 DEF Acc!Handle, Acc!Registration, Acc!Publish, Acc!RequestOtp, Acc!CreateOtp,
       Acc!FindCode, Acc!UseCode, Acc!VerifyPhone, Acc!ResetPassword, Acc!Login, Acc!Refresh,
       Acc!FetchKycTier, Acc!CreateSession, Acc!SubmitKyc, Acc!ReviewKyc, Acc!At
  <2>2. call'[h].pc \in {"idle", "invalidate"}
    BY <1>2, <1>9 DEF Onward
  <2>3. \A g \in Handlers : ~Owing(g)'
    BY <1>3, <2>2 DEF Owing
  <2>4. \A s \in LiveIn(sessions) : sessions[s].gen = user.gen
    BY <1>3, <1>4, <1>9 DEF SessionsAgree
  <2>5. CASE UNCHANGED user /\ Acc!Goto(h, "idle")
    <3>1. call'[h].pc = "idle"
      BY <1>1, <2>5, GotoCall
    <3> QED BY <1>r, <1>3, <1>4, <2>1, <2>3, <2>4, <2>5, <3>1 DEF SessionsAgree
  <2>6. CASE /\ user' = [exists |-> TRUE, gen |-> 1, verified |-> FALSE] /\ ~user.exists
             /\ Acc!Go(h, [call[h] EXCEPT !.pc = "invalidate", !.gen = 1])
    <3>1. PICK c : c = [call[h] EXCEPT !.pc = "invalidate", !.gen = 1]
      OBVIOUS
    <3>2. c.pc = "invalidate" /\ c.gen = 1
      BY <1>5, <3>1 DEF Acc!Call
    <3>3. call'[h] = c
      BY <1>1, <2>6, <3>1 DEF Acc!Go, Acc!TypeOK
    <3>4. LiveIn(sessions) = {}
      BY <2>6 DEF StageInv, Held, LiveIn
    <3> QED BY <1>r, <1>3, <1>4, <2>1, <2>3, <2>6, <3>2, <3>3, <3>4 DEF SessionsAgree
  <2> QED BY <2>1, <2>5, <2>6

<1>10. CASE call[h].pc = "hash"
  <2>1. /\ user' = [user EXCEPT !.gen = user.gen + 1] /\ UNCHANGED sessions
        /\ call'[h].pc = "revokeAll"
    BY <1>2, <1>10 DEF Onward, Acc!Handle, Acc!Registration, Acc!Publish, Acc!RequestOtp,
       Acc!CreateOtp, Acc!FindCode, Acc!UseCode, Acc!VerifyPhone, Acc!ResetPassword, Acc!Login,
       Acc!Refresh, Acc!FetchKycTier, Acc!CreateSession, Acc!SubmitKyc, Acc!ReviewKyc, Acc!At
  <2>2. \A g \in Handlers : ~Owing(g)'
    BY <1>3, <2>1 DEF Owing
  <2> QED BY <1>r, <1>3, <1>4, <2>1, <2>2 DEF SessionsAgree
<1>11. CASE call[h].pc = "revokeAll"
  <2>1. sessions' = Acc!RevokedAll /\ UNCHANGED user /\ call'[h].pc = "idle"
    BY <1>2, <1>11 DEF Onward, Acc!Handle, Acc!Registration, Acc!Publish, Acc!RequestOtp,
       Acc!CreateOtp, Acc!FindCode, Acc!UseCode, Acc!VerifyPhone, Acc!ResetPassword, Acc!Login,
       Acc!Refresh, Acc!FetchKycTier, Acc!CreateSession, Acc!SubmitKyc, Acc!ReviewKyc, Acc!At
  <2>2. \A g \in Handlers : ~Owing(g)'
    BY <1>3, <2>1 DEF Owing
  <2>3. sessions' \in Seq(Acc!Session) /\ LiveIn(sessions') = {}
    BY <1>1, <2>1, RevokedAllSessions DEF LiveIn
  <2>4. Cardinality(LiveIn(sessions')) = 0 /\ Cardinality(RootsIn(sessions')) \in Nat
    BY <2>3, FewSessions, FS_EmptySet
  <2> QED BY <1>r, <1>3, <2>1, <2>2, <2>3, <2>4 DEF SessionsAgree
<1>12. CASE call[h].pc = "session"
  <2>1. PICK c : c = IF sessions[call[h].ref].live
                     THEN [call[h] EXCEPT !.pc = "revoke", !.gen = sessions[call[h].ref].gen]
                     ELSE Acc!Idle
    OBVIOUS
  <2>2. Acc!Go(h, c) /\ UNCHANGED <<user, sessions>>
    BY <1>12, <2>1 DEF Acc!Handle, Acc!Registration, Acc!Publish, Acc!RequestOtp,
       Acc!CreateOtp, Acc!FindCode, Acc!UseCode, Acc!VerifyPhone, Acc!ResetPassword, Acc!Login,
       Acc!Refresh, Acc!FetchKycTier, Acc!CreateSession, Acc!SubmitKyc, Acc!ReviewKyc, Acc!At
  <2>3. \/ c.pc = "idle"
        \/ /\ sessions[call[h].ref].live /\ c.pc = "revoke" /\ c.ref = call[h].ref
           /\ c.gen = sessions[call[h].ref].gen
    BY <1>5, <2>1, IdleCall DEF Acc!Call
  <2>4. call'[h] = c
    BY <1>1, <2>2 DEF Acc!Go, Acc!TypeOK
  <2>5. \A s \in LiveIn(sessions) : sessions[s].gen = user.gen
    BY <1>3, <1>4, <1>12 DEF SessionsAgree
  <2>6. call[h].ref \in 1..Len(sessions)
    BY <1>1, <1>12 DEF Staged
  <2>7. c.pc = "idle" \/ (c.pc = "revoke" /\ c.gen = user.gen /\ sessions[c.ref].live)
    BY <2>3, <2>5, <2>6 DEF LiveIn
  <2>8. \A g \in Handlers : ~Owing(g)'
    BY <1>3, <2>4, <2>7 DEF Owing
  <2> QED BY <1>r, <1>3, <1>4, <2>2, <2>4, <2>5, <2>7, <2>8 DEF SessionsAgree
<1>13. CASE call[h].pc = "revoke" \/ call[h].pc = "logout"
  <2>1. Acc!Revoke(call[h].ref) /\ UNCHANGED user
    BY <1>13 DEF Acc!Handle, Acc!Registration, Acc!Publish, Acc!RequestOtp,
       Acc!CreateOtp, Acc!FindCode, Acc!UseCode, Acc!VerifyPhone, Acc!ResetPassword, Acc!Login,
       Acc!Refresh, Acc!FetchKycTier, Acc!CreateSession, Acc!SubmitKyc, Acc!ReviewKyc, Acc!At
  <2>2. call[h].ref \in 1..Len(sessions)
    BY <1>1, <1>13 DEF Staged
  <2>3. /\ LiveIn(sessions') = LiveIn(sessions) \ {call[h].ref}
        /\ RootsIn(sessions') = RootsIn(sessions)
        /\ Cardinality(LiveIn(sessions')) <= Cardinality(LiveIn(sessions))
        /\ sessions[call[h].ref].live =>
             Cardinality(LiveIn(sessions')) = Cardinality(LiveIn(sessions)) - 1
    BY <1>1, <2>1, <2>2, FewerLive
  <2>4. sessions' \in Seq(Acc!Session) /\ Cardinality(LiveIn(sessions')) \in Nat
    BY <1>1, <2>1, <2>2, RevokeSession, FewSessions
  <2>5. \A s \in LiveIn(sessions) : sessions[s].gen = user.gen
    BY <1>3, <1>4, <1>13 DEF SessionsAgree
  <2>6. \A s \in LiveIn(sessions') : sessions'[s].gen = user'.gen
    <3>1. \A s \in 1..Len(sessions) : sessions'[s].gen = sessions[s].gen
      BY <1>1, <2>1, <2>2, RevokeSession
    <3>2. LiveIn(sessions) \subseteq 1..Len(sessions)
      BY DEF LiveIn
    <3> QED BY <2>1, <2>3, <2>5, <3>1, <3>2
  <2>7. Cardinality(LiveIn(sessions')) <= Cardinality(RootsIn(sessions'))
    BY <1>4, <1>5, <2>3, <2>4 DEF SessionsAgree
  <2>8. CASE call[h].pc = "revoke"
    <3>1. call'[h].pc = "tier" /\ call'[h].gen = user'.gen
      BY <1>2, <1>4, <2>1, <2>8 DEF Onward, SessionsAgree
    <3>2. sessions[call[h].ref].live
      BY <1>4, <2>8 DEF SessionsAgree
    <3>3. Cardinality(LiveIn(sessions')) < Cardinality(RootsIn(sessions'))
      BY <1>4, <1>5, <2>3, <3>2 DEF SessionsAgree
    <3> QED BY <1>r, <1>3, <2>6, <2>7, <3>1, <3>3 DEF SessionsAgree
  <2>9. CASE call[h].pc = "logout"
    <3>1. call'[h].pc = "idle"
      BY <1>2, <2>9 DEF Onward
    <3>2. \A g \in Handlers : ~Owing(g)'
      BY <1>3, <3>1 DEF Owing
    <3> QED BY <1>r, <1>3, <2>6, <2>7, <3>1, <3>2 DEF SessionsAgree
  <2> QED BY <1>13, <2>8, <2>9
<1>14. CASE call[h].pc = "issue"
  <2>1. PICK e : e = [live |-> TRUE, gen |-> call[h].gen, tier |-> call[h].tier,
                      root |-> Acc!Op(h) # "refresh"]
    OBVIOUS
  <2>2. sessions' = Append(sessions, e) /\ UNCHANGED user
    BY <1>14, <2>1 DEF Acc!Handle, Acc!Registration, Acc!Publish, Acc!RequestOtp,
       Acc!CreateOtp, Acc!FindCode, Acc!UseCode, Acc!VerifyPhone, Acc!ResetPassword, Acc!Login,
       Acc!Refresh, Acc!FetchKycTier, Acc!CreateSession, Acc!SubmitKyc, Acc!ReviewKyc, Acc!At
  <2>3. /\ e \in Acc!Session /\ e.live /\ e.gen = call[h].gen
        /\ e.root <=> call[h].op # "refresh"
    BY <1>5, <2>1 DEF Acc!Session, Acc!Call, Acc!Op
  <2>4. /\ LiveIn(sessions') = LiveIn(sessions) \cup {Len(sessions) + 1}
        /\ Cardinality(LiveIn(sessions')) = Cardinality(LiveIn(sessions)) + 1
        /\ Cardinality(RootsIn(sessions')) =
             Cardinality(RootsIn(sessions)) + (IF e.root THEN 1 ELSE 0)
    BY <1>5, <2>2, <2>3, MoreSessions
  <2>5. /\ \A s \in 1..Len(sessions) : sessions'[s] = sessions[s]
        /\ sessions'[Len(sessions) + 1] = e
    BY <1>5, <2>2, <2>3, AppendRow
  <2>6. \A s \in LiveIn(sessions) : s \in 1..Len(sessions) /\ sessions[s].gen = user.gen
    BY <1>3, <1>4, <1>14 DEF SessionsAgree, LiveIn
  <2>7. call[h].gen = user.gen
    BY <1>4, <1>14 DEF SessionsAgree
  <2>8. \A s \in LiveIn(sessions') : sessions'[s].gen = user'.gen
    BY <2>2, <2>3, <2>4, <2>5, <2>6, <2>7
  <2>9. Cardinality(LiveIn(sessions')) <= Cardinality(RootsIn(sessions'))
    <3>1. CASE e.root
      BY <1>4, <1>5, <2>4, <3>1 DEF SessionsAgree
    <3>2. CASE ~e.root
      <4>1. Owing(h)
        BY <1>14, <2>3, <3>2 DEF Owing
      <4>2. Cardinality(LiveIn(sessions)) < Cardinality(RootsIn(sessions))
        BY <1>4, <4>1 DEF SessionsAgree
      <4> QED BY <1>5, <2>4, <3>2, <4>2
    <3> QED BY <3>1, <3>2
  <2>10. call'[h].pc \in {"idle", "publish"}
    BY <1>2, <1>14 DEF Onward
  <2>11. \A g \in Handlers : ~Owing(g)'
    BY <1>3, <2>10 DEF Owing
  <2>12. call'[h].pc # "idle" => call'[h].gen = user'.gen
    BY <1>2, <1>14, <2>2, <2>7
  <2> QED BY <1>r, <1>3, <2>8, <2>9, <2>10, <2>11, <2>12 DEF SessionsAgree
<1> QED BY <1>7, <1>8, <1>9, <1>10, <1>11, <1>12, <1>13, <1>14

LEMMA SessionsStep ==
  StageInv /\ SessionsInv /\ [Acc!Next]_Acc!vars => SessionsInv'
<1> SUFFICES ASSUME StageInv, SessionsInv, [Acc!Next]_Acc!vars PROVE SessionsInv'
  OBVIOUS
<1>0. Acc!TypeOK
  BY DEF StageInv
<1>1. CASE Acc!CreateProfile
  BY <1>1 DEF Acc!CreateProfile, Acc!auth, SessionsInv, SessionsAgree, LiveIn, RootsIn, Owing,
              Refreshes
<1>2. CASE Acc!Expire
  BY <1>2 DEF Acc!Expire, SessionsInv, SessionsAgree, LiveIn, RootsIn, Owing, Refreshes
<1>3. ASSUME NEW h \in Handlers, Acc!Start(h) PROVE SessionsInv'
  <2>1. /\ call[h].pc = "idle"
        /\ call'[h].pc \notin {"revokeAll", "revoke", "tier", "issue"}
        /\ call'[h].gen = user.gen
        /\ call'[h].op = "refresh" => call'[h].pc = "session"
        /\ \A g \in Handlers \ {h} : call'[g] = call[g]
        /\ UNCHANGED <<concurrent, user, sessions>>
    BY <1>0, <1>3, StartsAt
  <2>2. ~Owing(h)'
    BY <2>1 DEF Owing
  <2>3. \A g \in Handlers \ {h} : Owing(g)' <=> Owing(g)
    BY <2>1 DEF Owing
  <2>4. Refreshes(call'[h])
    BY <2>1 DEF Refreshes
  <2> QED BY <2>1, <2>2, <2>3, <2>4 DEF SessionsInv, SessionsAgree
<1>4. ASSUME NEW h \in Handlers, Acc!Handle(h) PROVE SessionsInv'
  BY <1>4, SessionsHandled
<1>5. CASE UNCHANGED Acc!vars
  BY <1>5 DEF Acc!vars, Acc!auth, SessionsInv, SessionsAgree, LiveIn, RootsIn, Owing, Refreshes
<1> QED BY <1>1, <1>2, <1>3, <1>4, <1>5 DEF Acc!Next

(* In turn no session outlives the password that it rests on, and a        *)
(* refresh token has one successor, for any number of requests.            *)
THEOREM SessionsFollowPasswordHolds == Spec => []SessionsFollowPassword
<1>1. Acc!Init => SessionsInv
  <2> SUFFICES ASSUME Acc!Init PROVE SessionsInv
    OBVIOUS
  <2>1. LiveIn(sessions) = {} /\ RootsIn(sessions) = {}
    BY DEF Acc!Init, LiveIn, RootsIn
  <2>2. \A h \in Handlers : call[h].pc = "idle" /\ Refreshes(call[h])
    BY IdleCall DEF Acc!Init, Refreshes
  <2>3. Cardinality(LiveIn(sessions)) <= Cardinality(RootsIn(sessions))
    BY <2>1, FS_EmptySet
  <2> QED BY <2>1, <2>2, <2>3 DEF SessionsInv, SessionsAgree, Owing
<1>2. StageInv /\ SessionsInv => SessionsFollowPassword
  <2> SUFFICES ASSUME StageInv, SessionsInv, ~concurrent, Acc!InTurn
               PROVE  LET live == {s \in DOMAIN sessions : sessions[s].live}
                      IN  /\ \A s \in live : sessions[s].gen = user.gen
                          /\ Acc!Cardinality(live) <=
                               Acc!Cardinality({s \in DOMAIN sessions : sessions[s].root})
    BY DEF SessionsFollowPassword, Acc!SessionsFollowPassword
  <2>1. DOMAIN sessions = 1..Len(sessions)
    BY AccFacts DEF StageInv
  <2>2. /\ {s \in DOMAIN sessions : sessions[s].live} = LiveIn(sessions)
        /\ {s \in DOMAIN sessions : sessions[s].root} = RootsIn(sessions)
    BY <2>1 DEF LiveIn, RootsIn
  <2>3. \A h \in Handlers : call[h].pc # "revokeAll"
    BY DEF Acc!InTurn, Acc!At
  <2> QED BY <2>2, <2>3, AccCardinality DEF SessionsInv, SessionsAgree
<1> QED BY <1>1, <1>2, SessionsStep, StageInvariant, AccountsBehave, PTL DEF Acc!Spec

-----------------------------------------------------------------------------
(* One-time codes.  Each acceptance of a code for a reset has led to one   *)
(* change of the password, or is with a handler that is hashing the new    *)
(* one.                                                                    *)

(* The acceptances of codes of purpose p. *)
OfPurpose(q, p) == {i \in 1..Len(q) : q[i].purpose = p}
Acceptances(q) == [i \in 1..Len(q) |-> q[i].accepted]
Total(q, p) == SumFunctionOnSet(Acceptances(q), OfPurpose(q, p))

LEMMA AcceptedTotal ==
  ASSUME Acc!TypeOK
  PROVE  \A p : Acc!Accepted(p) = Total(codes, p)
<1>1. DOMAIN codes = 1..Len(codes)
  BY AccFacts
<1> QED BY <1>1, AccSum DEF Acc!Accepted, Total, Acceptances, OfPurpose

LEMMA TotalFacts ==
  ASSUME NEW q \in Seq(Acc!Code), NEW p
  PROVE  /\ Len(q) \in Nat /\ OfPurpose(q, p) \subseteq 1..Len(q)
         /\ \A i \in 1..Len(q) : Acceptances(q)[i] = q[i].accepted /\ q[i].accepted \in Nat
         /\ IsFiniteSet(OfPurpose(q, p))
         /\ Sums(Acceptances(q), OfPurpose(q, p))
         /\ Total(q, p) \in Nat
<1>1. Len(q) \in Nat /\ OfPurpose(q, p) \subseteq 1..Len(q)
  BY DEF OfPurpose
<1>2. \A i \in 1..Len(q) : Acceptances(q)[i] = q[i].accepted /\ q[i].accepted \in Nat
  <2>1. \A i \in 1..Len(q) : q[i] \in Acc!Code
    OBVIOUS
  <2>2. \A i \in 1..Len(q) : q[i].accepted \in Nat
    BY <2>1 DEF Acc!Code
  <2> QED BY <2>2 DEF Acceptances
<1>3. IsFiniteSet(OfPurpose(q, p))
  <2>1. IsFiniteSet(1..Len(q))
    BY <1>1, FS_Interval
  <2> QED BY <1>1, <2>1, FS_Subset
<1>4. \A i \in OfPurpose(q, p) : Acceptances(q)[i] \in Nat
  BY <1>1, <1>2
<1>5. Total(q, p) \in Nat
  BY <1>3, <1>4, SumNat DEF Total
<1>6. Sums(Acceptances(q), OfPurpose(q, p))
  BY <1>3, <1>4 DEF Sums
<1> QED BY <1>1, <1>2, <1>3, <1>5, <1>6

LEMMA SameTotal ==
  ASSUME NEW q \in Seq(Acc!Code), NEW r \in Seq(Acc!Code), Len(r) = Len(q),
         \A i \in 1..Len(q) : r[i].purpose = q[i].purpose /\ r[i].accepted = q[i].accepted
  PROVE  \A p : Total(r, p) = Total(q, p)
BY DEF Total, Acceptances, OfPurpose

(* A new code has not been accepted. *)
LEMMA TotalOfNew ==
  ASSUME NEW q \in Seq(Acc!Code), NEW e \in Acc!Code, e.accepted = 0, NEW p
  PROVE  Total(Append(q, e), p) = Total(q, p)
<1> DEFINE r == Append(q, e)
           n == Len(q)
<1>1. /\ r \in Seq(Acc!Code) /\ Len(r) = n + 1 /\ r[n + 1] = e
      /\ \A i \in 1..n : r[i] = q[i]
  BY AppendRow
<1>2. n \in Nat
  OBVIOUS
<1> HIDE DEF r
<1>3. 1..Len(r) = (1..n) \cup {n + 1} /\ n + 1 \notin 1..n
  BY <1>1, <1>2
<1>4. OfPurpose(r, p) = IF e.purpose = p THEN OfPurpose(q, p) \cup {n + 1} ELSE OfPurpose(q, p)
  BY <1>1, <1>3 DEF OfPurpose
<1>5. /\ OfPurpose(q, p) \in SUBSET (1..n)
      /\ \A i \in OfPurpose(q, p) : Acceptances(q)[i] \in Int
                                    /\ Acceptances(r)[i] = Acceptances(q)[i]
      /\ Acceptances(r)[n + 1] = 0
  <2>1. \A i \in 1..n : Acceptances(q)[i] = q[i].accepted /\ q[i].accepted \in Nat
    BY TotalFacts
  <2>2. \A i \in 1..Len(r) : Acceptances(r)[i] = r[i].accepted
    BY <1>1, TotalFacts
  <2> QED BY <1>1, <1>3, <2>1, <2>2 DEF OfPurpose
<1>a. PICK f, g, S : f = Acceptances(q) /\ g = Acceptances(r) /\ S = OfPurpose(q, p)
  OBVIOUS
<1>b. S \in SUBSET (1..n) /\ g[n + 1] = 0 /\ \A i \in S : f[i] \in Int /\ g[i] = f[i]
  BY <1>5, <1>a
<1>c. /\ SumFunctionOnSet(g, S) = SumFunctionOnSet(f, S)
      /\ SumFunctionOnSet(g, S \cup {n + 1}) = SumFunctionOnSet(f, S) + g[n + 1]
      /\ SumFunctionOnSet(f, S) \in Int
  <2>1. PICK x : x = n + 1
    OBVIOUS
  <2>2. x \notin S /\ IsFiniteSet(S)
    <3>1. IsFiniteSet(1..n)
      BY <1>2, FS_Interval
    <3>2. S \in SUBSET (1..n)
      BY <1>b
    <3>3. IsFiniteSet(S)
      BY <3>1, <3>2, FS_Subset
    <3>4. x \notin 1..n
      BY <1>2, <2>1
    <3> QED BY <3>2, <3>3, <3>4
  <2>3. IsFiniteSet(S \cup {x})
    BY <2>2, FS_AddElement
  <2>4. Sums(f, S) /\ Sums(g, S \cup {x})
    BY <1>b, <2>1, <2>2, <2>3 DEF Sums
  <2>5. SumFunctionOnSet(g, S) = SumFunctionOnSet(f, S)
    BY <1>b, <2>4, SumSame
  <2>6. SumFunctionOnSet(g, S \cup {x}) = g[x] + SumFunctionOnSet(g, S)
    BY <2>2, <2>4, SumAdd
  <2>7. SumFunctionOnSet(f, S) \in Int
    BY <2>4, SumInt
  <2> QED BY <1>b, <2>1, <2>5, <2>6, <2>7
<1> HIDE DEF n
<1>6. /\ SumFunctionOnSet(Acceptances(r), OfPurpose(q, p)) = Total(q, p)
      /\ SumFunctionOnSet(Acceptances(r), OfPurpose(q, p) \cup {n + 1}) = Total(q, p) + 0
      /\ Total(q, p) \in Int
  BY <1>a, <1>b, <1>c DEF Total
<1>7. Total(r, p) = Total(q, p)
  BY <1>4, <1>6 DEF Total
<1> QED BY <1>7 DEF r

(* An acceptance counts for the purpose of the code. *)
LEMMA TotalOfUse ==
  ASSUME NEW q \in Seq(Acc!Code), NEW r \in Seq(Acc!Code), Len(r) = Len(q),
         NEW j \in 1..Len(q), r[j].purpose = q[j].purpose,
         r[j].accepted = q[j].accepted + 1,
         \A i \in 1..Len(q) \ {j} : r[i] = q[i], NEW p
  PROVE  Total(r, p) = Total(q, p) + (IF q[j].purpose = p THEN 1 ELSE 0)
<1> DEFINE S == OfPurpose(q, p)
<1>1. OfPurpose(r, p) = S
  BY DEF OfPurpose
<1>2. Sums(Acceptances(q), S) /\ Sums(Acceptances(r), S)
  BY <1>1, TotalFacts
<1>3. \A i \in 1..Len(q) : /\ Acceptances(q)[i] = q[i].accepted
                           /\ Acceptances(r)[i] = r[i].accepted
                           /\ q[i].accepted \in Nat
  BY TotalFacts
<1>4. Total(q, p) \in Nat
  BY TotalFacts
<1>5. CASE q[j].purpose = p
  <2>1. j \in S /\ \A i \in S \ {j} : Acceptances(q)[i] = Acceptances(r)[i]
    BY <1>3, <1>5 DEF OfPurpose
  <2> HIDE DEF S
  <2>2. SumFunctionOnSet(Acceptances(r), S) =
          SumFunctionOnSet(Acceptances(q), S) - Acceptances(q)[j] + Acceptances(r)[j]
    <3>1. PICK f, g, T : f = Acceptances(q) /\ g = Acceptances(r) /\ T = S
      OBVIOUS
    <3>2. Sums(f, T) /\ Sums(g, T) /\ j \in T /\ \A i \in T : i # j => f[i] = g[i]
      BY <1>2, <2>1, <3>1
    <3>3. PICK R : R = T \ {j}
      OBVIOUS
    <3>4. SumFunctionOnSet(f, T) = f[j] + SumFunctionOnSet(f, R)
      BY <3>2, <3>3, SumRemove
    <3>5. SumFunctionOnSet(g, T) = g[j] + SumFunctionOnSet(g, R)
      BY <3>2, <3>3, SumRemove
    <3>6. Sums(f, R) /\ \A i \in R : f[i] = g[i]
      BY <3>2, <3>3, SumsSub
    <3>7. SumFunctionOnSet(f, R) = SumFunctionOnSet(g, R)
      BY <3>6, SumSame
    <3>8. SumFunctionOnSet(f, R) \in Int /\ f[j] \in Int /\ g[j] \in Int
      BY <3>2, <3>6, SumInt DEF Sums
    <3> QED BY <3>1, <3>4, <3>5, <3>7, <3>8
  <2>3. Total(r, p) = Total(q, p) - q[j].accepted + (q[j].accepted + 1)
    BY <1>1, <1>3, <2>2 DEF Total, S
  <2>4. q[j].accepted \in Nat
    BY <1>3
  <2> QED BY <1>4, <1>5, <2>3, <2>4
<1>6. CASE q[j].purpose # p
  <2>1. \A i \in S : Acceptances(q)[i] = Acceptances(r)[i]
    BY <1>3, <1>6 DEF OfPurpose
  <2> HIDE DEF S
  <2>2. SumFunctionOnSet(Acceptances(r), S) = SumFunctionOnSet(Acceptances(q), S)
    BY <1>2, <2>1, SumSame
  <2> QED BY <1>1, <1>4, <1>6, <2>2 DEF Total, S
<1> QED BY <1>5, <1>6

(* The handlers that have accepted a code for a new password and have not  *)
(* stored it yet.                                                          *)
Hashing == {h \in Handlers : call[h].pc = "hash"}

(* The changes made and under way are covered by acceptances.              *)
CodesCount ==
  /\ user.verified \/ (\E h \in Handlers : call[h].pc = "verified") =>
       Total(codes, "PHONE_VERIFY") > 0
  /\ IsFiniteSet(Hashing)
  /\ user.gen + Cardinality(Hashing) <= 1 + Total(codes, "PASSWORD_RESET")

(* In turn there is one valid code of a purpose, ... *)
Valid(c) == ~c.used /\ ~c.expired

(* In turn, a code is accepted once and at most one of a purpose is valid.  *)
OneCode ==
  /\ \A i, j \in 1..Len(codes) :
       Valid(codes[i]) /\ Valid(codes[j]) /\ codes[i].purpose = codes[j].purpose => i = j
  /\ \A i \in 1..Len(codes) : codes[i].accepted <= 1 /\ (codes[i].accepted > 0 => codes[i].used)
  /\ \A h \in Handlers : call[h].pc = "use" => ~codes[call[h].ref].used
  /\ \A h \in Handlers : call[h].pc = "insert" =>
       \A i \in 1..Len(codes) :
         codes[i].purpose = Acc!PurposeOf(call[h].op) => ~Valid(codes[i])

CodesInv == CodesCount /\ (~concurrent => OneCode)

(* What the steps of a handler do to the codes: they void those of a       *)
(* purpose, add one, or accept one.                                        *)
Voids(h, q) ==
  /\ q \in Seq(Acc!Code) /\ Len(q) = Len(codes)
  /\ \A i \in 1..Len(codes) :
       /\ q[i].purpose = codes[i].purpose /\ q[i].accepted = codes[i].accepted
       /\ q[i].expired = codes[i].expired
       /\ q[i].used <=> codes[i].used \/ codes[i].purpose = Acc!PurposeOf(call[h].op)

Adds(h, q) ==
  \E e \in Acc!Code :
    /\ q = Append(codes, e) /\ e.purpose = Acc!PurposeOf(call[h].op) /\ e.accepted = 0

Accepts(h, q) ==
  /\ q \in Seq(Acc!Code) /\ Len(q) = Len(codes) /\ call[h].ref \in 1..Len(codes)
  /\ codes[call[h].ref].purpose = Acc!PurposeOf(call[h].op)
  /\ q[call[h].ref].purpose = codes[call[h].ref].purpose
  /\ q[call[h].ref].accepted = codes[call[h].ref].accepted + 1
  /\ q[call[h].ref].used
  /\ \A i \in 1..Len(codes) \ {call[h].ref} : q[i] = codes[i]

LEMMA CodeSteps ==
  ASSUME StageInv, NEW h \in Handlers, Acc!Handle(h)
  PROVE  /\ call[h].pc = "invalidate" => Voids(h, codes')
         /\ call[h].pc = "insert" => Adds(h, codes')
         /\ call[h].pc = "use" => Accepts(h, codes')
<1>0. Acc!TypeOK /\ Staged(call[h])
  BY DEF StageInv
<1>1. CASE call[h].pc = "invalidate"
  <2>1. codes' = Acc!InvalidateCodes(Acc!Purpose(h))
    BY <1>1 DEF Acc!Handle, Acc!Registration, Acc!Publish, Acc!RequestOtp,
       Acc!CreateOtp, Acc!FindCode, Acc!UseCode, Acc!VerifyPhone, Acc!ResetPassword, Acc!Login,
       Acc!Refresh, Acc!FetchKycTier, Acc!CreateSession, Acc!SubmitKyc, Acc!ReviewKyc, Acc!At
  <2> QED BY <1>0, <1>1, <2>1, InvalidateType DEF Voids, Acc!Purpose, Acc!Op
<1>2. CASE call[h].pc = "insert"
  <2>1. PICK e : e = [purpose |-> Acc!Purpose(h), used |-> FALSE,
                      expired |-> FALSE, accepted |-> 0]
    OBVIOUS
  <2>2. codes' = Append(codes, e)
    BY <1>2, <2>1 DEF Acc!Handle, Acc!Registration, Acc!Publish, Acc!RequestOtp,
       Acc!CreateOtp, Acc!FindCode, Acc!UseCode, Acc!VerifyPhone, Acc!ResetPassword, Acc!Login,
       Acc!Refresh, Acc!FetchKycTier, Acc!CreateSession, Acc!SubmitKyc, Acc!ReviewKyc, Acc!At
  <2>3. Acc!Purpose(h) \in Acc!Purposes /\ Acc!Purpose(h) = Acc!PurposeOf(call[h].op)
    BY DEF Acc!Purpose, Acc!Purposes, Acc!PurposeOf, Acc!Op
  <2>4. e \in Acc!Code /\ e.purpose = Acc!PurposeOf(call[h].op) /\ e.accepted = 0
    BY <2>1, <2>3 DEF Acc!Code
  <2> QED BY <1>2, <2>2, <2>4 DEF Adds
<1>3. CASE call[h].pc = "use"
  <2> DEFINE i == call[h].ref
  <2>1. PICK e : e = [codes[i] EXCEPT !.used = TRUE, !.accepted = codes[i].accepted + 1]
    OBVIOUS
  <2>2. codes' = [codes EXCEPT ![i] = e]
    BY <1>3, <2>1 DEF Acc!Handle, Acc!Registration, Acc!Publish, Acc!RequestOtp,
       Acc!CreateOtp, Acc!FindCode, Acc!UseCode, Acc!VerifyPhone, Acc!ResetPassword, Acc!Login,
       Acc!Refresh, Acc!FetchKycTier, Acc!CreateSession, Acc!SubmitKyc, Acc!ReviewKyc, Acc!At
  <2>3. /\ i \in 1..Len(codes) /\ codes[i] \in Acc!Code /\ codes \in Seq(Acc!Code)
        /\ codes[i].purpose = Acc!PurposeOf(call[h].op)
    BY <1>0, <1>3, AccFacts DEF Staged
  <2>4. e \in Acc!Code /\ e.purpose = codes[i].purpose /\ e.used
        /\ e.accepted = codes[i].accepted + 1
    BY <2>1, <2>3, AcceptedRow
  <2>5. /\ codes' \in Seq(Acc!Code) /\ Len(codes') = Len(codes) /\ codes'[i] = e
        /\ \A j \in 1..Len(codes) \ {i} : codes'[j] = codes[j]
    BY <2>2, <2>3, <2>4, ExceptRow
  <2> QED BY <1>3, <2>3, <2>4, <2>5 DEF Accepts
<1> QED BY <1>1, <1>2, <1>3

(* The acceptances are counted. *)
LEMMA CountHandled ==
  ASSUME StageInv, CodesCount, NEW h \in Handlers, Acc!Handle(h)
  PROVE  CodesCount'
<1>1. Acc!TypeOK /\ Routed(h) /\ Staged(call[h]) /\ Held
  BY EveryRoute DEF StageInv
<1>2. /\ call[h].pc # "idle" /\ \A g \in Handlers \ {h} : call'[g] = call[g]
      /\ call'[h].pc \in Onward(call[h].pc)
  BY <1>1 DEF Routed
<1>3. /\ codes \in Seq(Acc!Code) /\ user \in Acc!User /\ user.gen \in Nat
      /\ user.verified \in BOOLEAN
      /\ Total(codes, "PHONE_VERIFY") \in Nat /\ Total(codes, "PASSWORD_RESET") \in Nat
  BY <1>1, AccFacts, TotalFacts DEF Acc!User
<1>4. IsFiniteSet(Hashing) /\ Cardinality(Hashing) \in Nat
  BY FS_CardinalityType DEF CodesCount
<1>5. /\ Hashing' = IF call'[h].pc = "hash" THEN Hashing \cup {h} ELSE Hashing \ {h}
      /\ h \in Hashing <=> call[h].pc = "hash"
  BY <1>2 DEF Hashing
<1>6. (\E g \in Handlers : call'[g].pc = "verified") =>
        (\E g \in Handlers : call[g].pc = "verified") \/ call'[h].pc = "verified"
  BY <1>2
<1>7. ASSUME \A p : Total(codes', p) = Total(codes, p), call[h].pc # "use",
             user'.verified => user.verified \/ call[h].pc = "verified",
             user'.gen = user.gen + (IF call[h].pc = "hash" THEN 1 ELSE 0)
      PROVE  CodesCount'
  <2>1. call'[h].pc \notin {"verified", "hash"}
    BY <1>2, <1>7 DEF Onward
  <2>2. Hashing' = Hashing \ {h}
    BY <1>5, <2>1
  <2>3. IsFiniteSet(Hashing') /\ Cardinality(Hashing') =
          Cardinality(Hashing) - (IF call[h].pc = "hash" THEN 1 ELSE 0)
    <3>1. CASE h \in Hashing
      BY <1>4, <1>5, <2>2, <3>1, FS_RemoveElement
    <3>2. CASE h \notin Hashing
      <4>1. Hashing' = Hashing
        BY <2>2, <3>2
      <4> QED BY <1>4, <1>5, <3>2, <4>1
    <3> QED BY <3>1, <3>2
  <2>4. user'.gen + Cardinality(Hashing') = user.gen + Cardinality(Hashing)
    BY <1>3, <1>4, <1>7, <2>3
  <2>5. user'.verified \/ (\E g \in Handlers : call'[g].pc = "verified") =>
          user.verified \/ (\E g \in Handlers : call[g].pc = "verified")
    BY <1>6, <1>7, <2>1
  <2> QED BY <1>7, <2>3, <2>4, <2>5 DEF CodesCount
<1>8. CASE call[h].pc \notin {"create", "verified", "hash", "invalidate", "insert", "use"}
  <2>1. UNCHANGED <<user, codes>>
    BY <1>8, OneTable
  <2> QED BY <1>3, <1>7, <1>8, <2>1
<1>9. CASE call[h].pc = "verified"
  <2>1. user' = [user EXCEPT !.verified = TRUE]
    BY <1>9 DEF Acc!Handle, Acc!Registration, Acc!Publish, Acc!RequestOtp,
       Acc!CreateOtp, Acc!FindCode, Acc!UseCode, Acc!VerifyPhone, Acc!ResetPassword, Acc!Login,
       Acc!Refresh, Acc!FetchKycTier, Acc!CreateSession, Acc!SubmitKyc, Acc!ReviewKyc, Acc!At
  <2>2. user'.gen = user.gen /\ UNCHANGED codes
    BY <1>3, <1>9, <2>1, OneTable DEF Acc!User
  <2> QED BY <1>3, <1>7, <1>9, <2>2
<1>10. CASE call[h].pc = "hash"
  <2>1. user' = [user EXCEPT !.gen = user.gen + 1]
    BY <1>10 DEF Acc!Handle, Acc!Registration, Acc!Publish, Acc!RequestOtp,
       Acc!CreateOtp, Acc!FindCode, Acc!UseCode, Acc!VerifyPhone, Acc!ResetPassword, Acc!Login,
       Acc!Refresh, Acc!FetchKycTier, Acc!CreateSession, Acc!SubmitKyc, Acc!ReviewKyc, Acc!At
  <2>2. user'.gen = user.gen + 1 /\ user'.verified = user.verified /\ UNCHANGED codes
    BY <1>3, <1>10, <2>1, OneTable DEF Acc!User
  <2> QED BY <1>7, <1>10, <2>2
<1>11. CASE call[h].pc \in {"invalidate", "insert"}
  <2>1. UNCHANGED user
    BY <1>11, OneTable
  <2>2. \A p : Total(codes', p) = Total(codes, p)
    <3>1. CASE call[h].pc = "invalidate"
      BY <1>3, <3>1, CodeSteps, SameTotal DEF Voids
    <3>2. CASE call[h].pc = "insert"
      BY <1>3, <3>2, CodeSteps, TotalOfNew DEF Adds
    <3> QED BY <1>11, <3>1, <3>2
  <2> QED BY <1>3, <1>7, <1>11, <2>1, <2>2
<1>12. CASE call[h].pc = "create"
  <2>1. /\ UNCHANGED codes
        /\ \/ UNCHANGED user
           \/ user' = [exists |-> TRUE, gen |-> 1, verified |-> FALSE] /\ ~user.exists
    BY <1>12 DEF Acc!Handle, Acc!Registration, Acc!Publish, Acc!RequestOtp,
       Acc!CreateOtp, Acc!FindCode, Acc!UseCode, Acc!VerifyPhone, Acc!ResetPassword, Acc!Login,
       Acc!Refresh, Acc!FetchKycTier, Acc!CreateSession, Acc!SubmitKyc, Acc!ReviewKyc, Acc!At
  <2>2. CASE UNCHANGED user
    BY <1>3, <1>7, <1>12, <2>1, <2>2
  <2>3. CASE user' = [exists |-> TRUE, gen |-> 1, verified |-> FALSE] /\ ~user.exists
    <3>1. \A g \in Handlers : call[g].pc \notin {"hash", "verified"}
      BY <2>3 DEF StageInv, Staged
    <3>2. call'[h].pc \notin {"hash", "verified"}
      BY <1>2, <1>12 DEF Onward
    <3>3. Hashing' = {}
      BY <1>2, <3>1, <3>2 DEF Hashing
    <3>4. Cardinality(Hashing') = 0 /\ IsFiniteSet(Hashing')
      BY <3>3, FS_EmptySet
    <3>5. ~user'.verified /\ \A g \in Handlers : call'[g].pc # "verified"
      BY <1>2, <2>3, <3>1, <3>2
    <3> QED BY <1>3, <2>1, <2>3, <3>4, <3>5 DEF CodesCount
  <2> QED BY <2>1, <2>2, <2>3
<1>13. CASE call[h].pc = "use"
  <2>1. UNCHANGED user /\ Accepts(h, codes')
    BY <1>13, OneTable, CodeSteps
  <2>2. PICK p : p = Acc!PurposeOf(call[h].op)
    OBVIOUS
  <2>3. \A d : Total(codes', d) = Total(codes, d) + (IF p = d THEN 1 ELSE 0)
    <3>1. PICK j, q : j = call[h].ref /\ q = codes'
      OBVIOUS
    <3>2. /\ q \in Seq(Acc!Code) /\ Len(q) = Len(codes) /\ j \in 1..Len(codes)
          /\ codes[j].purpose = p /\ q[j].purpose = codes[j].purpose
          /\ q[j].accepted = codes[j].accepted + 1
          /\ \A i \in 1..Len(codes) \ {j} : q[i] = codes[i]
      BY <2>1, <2>2, <3>1 DEF Accepts
    <3>3. \A d : Total(q, d) = Total(codes, d) + (IF codes[j].purpose = d THEN 1 ELSE 0)
      BY <1>3, <3>2, TotalOfUse
    <3> QED BY <3>1, <3>2, <3>3
  <2>4. /\ call'[h].pc = "verified" => p = "PHONE_VERIFY"
        /\ call'[h].pc = "hash" => p = "PASSWORD_RESET"
    <3>1. PICK pc \in {"verified", "hash", "idle"} :
            /\ Acc!Goto(h, pc)
            /\ pc = "verified" => call[h].op = "verify"
            /\ pc = "hash" => call[h].op = "reset"
      BY <1>13 DEF Acc!Handle, Acc!Registration, Acc!Publish, Acc!RequestOtp,
         Acc!CreateOtp, Acc!FindCode, Acc!UseCode, Acc!VerifyPhone, Acc!ResetPassword, Acc!Login,
         Acc!Refresh, Acc!FetchKycTier, Acc!CreateSession, Acc!SubmitKyc, Acc!ReviewKyc, Acc!At,
         Acc!Op
    <3>2. call'[h].pc = pc
      BY <1>1, <3>1, GotoCall DEF Acc!Stages
    <3> QED BY <2>2, <3>1, <3>2 DEF Acc!PurposeOf
  <2>5. user'.verified \/ (\E g \in Handlers : call'[g].pc = "verified") =>
          Total(codes', "PHONE_VERIFY") > 0
    BY <1>3, <1>6, <2>1, <2>3, <2>4 DEF CodesCount
  <2>6. h \notin Hashing
    BY <1>5, <1>13
  <2>7. IsFiniteSet(Hashing') /\ Cardinality(Hashing') =
          Cardinality(Hashing) + (IF call'[h].pc = "hash" THEN 1 ELSE 0)
    <3>1. CASE call'[h].pc = "hash"
      BY <1>4, <1>5, <2>6, <3>1, FS_AddElement
    <3>2. CASE call'[h].pc # "hash"
      <4>1. Hashing' = Hashing
        BY <1>5, <2>6, <3>2
      <4> QED BY <1>4, <3>2, <4>1
    <3> QED BY <3>1, <3>2
  <2>8. user'.gen + Cardinality(Hashing') <= 1 + Total(codes', "PASSWORD_RESET")
    BY <1>3, <1>4, <2>1, <2>3, <2>4, <2>7 DEF CodesCount
  <2> QED BY <2>5, <2>7, <2>8 DEF CodesCount
<1> QED BY <1>8, <1>9, <1>10, <1>11, <1>12, <1>13

(* A step that makes no code valid. *)
NoneAdded ==
  /\ Len(codes') = Len(codes)
  /\ \A i \in 1..Len(codes) :
       /\ codes'[i].purpose = codes[i].purpose
       /\ Valid(codes'[i]) => Valid(codes[i])

LEMMA OneCodeHandled ==
  ASSUME StageInv, StageInv', CodesInv, NEW h \in Handlers, Acc!Handle(h), ~concurrent
  PROVE  OneCode'
<1>1. Acc!TypeOK /\ Acc!TypeOK' /\ Routed(h) /\ Staged(call[h]) /\ OneCode
  BY EveryRoute DEF StageInv, CodesInv
<1>2. /\ call[h].pc # "idle" /\ \A g \in Handlers \ {h} : call'[g] = call[g]
      /\ call'[h].pc \in Onward(call[h].pc)
      /\ call'[h].pc # "idle" => call'[h].op = call[h].op /\ call'[h].ref = call[h].ref
  BY <1>1 DEF Routed
<1>3. \A g \in Handlers \ {h} : call[g].pc = "idle" /\ call'[g].pc = "idle"
  BY <1>2 DEF StageInv, InOrder
<1>4. /\ codes \in Seq(Acc!Code) /\ Len(codes) \in Nat
      /\ \A i \in 1..Len(codes) : codes[i] \in Acc!Code /\ codes[i].accepted \in Nat
                                  /\ codes[i].used \in BOOLEAN
  BY <1>1, AccFacts DEF Acc!Code
<1>5. ASSUME NoneAdded,
             \A i \in 1..Len(codes') :
               codes'[i].accepted <= 1 /\ (codes'[i].accepted > 0 => codes'[i].used),
             call'[h].pc = "use" => ~codes'[call'[h].ref].used,
             call'[h].pc = "insert" =>
               \A i \in 1..Len(codes') :
                 codes'[i].purpose = Acc!PurposeOf(call[h].op) => ~Valid(codes'[i])
      PROVE  OneCode'
  <2>1. \A i, j \in 1..Len(codes') :
          Valid(codes'[i]) /\ Valid(codes'[j]) /\ codes'[i].purpose = codes'[j].purpose => i = j
    BY <1>1, <1>5 DEF OneCode, NoneAdded
  <2>2. \A g \in Handlers : call'[g].pc = "use" => ~codes'[call'[g].ref].used
    BY <1>3, <1>5
  <2>3. \A g \in Handlers : call'[g].pc = "insert" =>
          \A i \in 1..Len(codes') :
            codes'[i].purpose = Acc!PurposeOf(call'[g].op) => ~Valid(codes'[i])
    BY <1>2, <1>3, <1>5
  <2> QED BY <1>5, <2>1, <2>2, <2>3 DEF OneCode
<1>6. CASE call[h].pc \notin {"invalidate", "insert", "use"}
  <2>1. UNCHANGED codes
    BY <1>6, OneTable
  <2>2. NoneAdded
    BY <2>1 DEF NoneAdded
  <2>3. call'[h].pc # "insert"
    BY <1>2, <1>6 DEF Onward
  <2>4. ASSUME call'[h].pc = "use" PROVE ~codes'[call'[h].ref].used
    <3>1. call[h].pc = "find"
      BY <1>2, <1>6, <2>4 DEF Onward
    <3>2. PICK pc \in {"idle", "use"} :
            /\ Acc!Goto(h, pc)
            /\ pc = "use" => /\ Acc!Live(Acc!Purpose(h)) # {}
                             /\ call[h].ref = Acc!Max(Acc!Live(Acc!Purpose(h)))
      BY <3>1 DEF Acc!Handle, Acc!Registration, Acc!Publish, Acc!RequestOtp,
         Acc!CreateOtp, Acc!FindCode, Acc!UseCode, Acc!VerifyPhone, Acc!ResetPassword, Acc!Login,
         Acc!Refresh, Acc!FetchKycTier, Acc!CreateSession, Acc!SubmitKyc, Acc!ReviewKyc, Acc!At
    <3>3. call'[h].pc = pc
      BY <1>1, <3>2, GotoCall DEF Acc!Stages
    <3>4. call[h].ref \in Acc!Live(Acc!Purpose(h))
      BY <1>1, <2>4, <3>2, <3>3, LastValid
    <3>5. ~codes[call[h].ref].used
      BY <3>4 DEF Acc!Live
    <3> QED BY <1>2, <2>1, <2>4, <3>5
  <2> QED BY <1>1, <1>5, <2>1, <2>2, <2>3, <2>4 DEF OneCode
<1>7. CASE call[h].pc = "invalidate"
  <2>1. Voids(h, codes') /\ call'[h].pc = "insert"
    BY <1>2, <1>7, CodeSteps DEF Onward
  <2>2. NoneAdded
    BY <2>1 DEF Voids, NoneAdded, Valid
  <2>3. \A i \in 1..Len(codes') :
          codes'[i].purpose = Acc!PurposeOf(call[h].op) => ~Valid(codes'[i])
    BY <2>1 DEF Voids, Valid
  <2>4. \A i \in 1..Len(codes') :
          codes'[i].accepted <= 1 /\ (codes'[i].accepted > 0 => codes'[i].used)
    BY <1>1, <2>1 DEF Voids, OneCode
  <2> QED BY <1>5, <2>1, <2>2, <2>3, <2>4
<1>8. CASE call[h].pc = "insert"
  <2>1. call'[h].pc = "dispatch"
    BY <1>2, <1>8 DEF Onward
  <2>2. PICK e \in Acc!Code :
          codes' = Append(codes, e) /\ e.purpose = Acc!PurposeOf(call[h].op) /\ e.accepted = 0
    BY <1>8, CodeSteps DEF Adds
  <2>3. /\ Len(codes') = Len(codes) + 1 /\ codes'[Len(codes) + 1] = e
        /\ \A i \in 1..Len(codes) : codes'[i] = codes[i]
    BY <1>4, <2>2, AppendRow
  <2>4. 1..Len(codes') = (1..Len(codes)) \cup {Len(codes) + 1}
    BY <1>4, <2>3
  <2>5. \A i \in 1..Len(codes') :
          codes'[i].accepted <= 1 /\ (codes'[i].accepted > 0 => codes'[i].used)
    BY <1>1, <2>2, <2>3, <2>4 DEF OneCode
  <2>7. ASSUME NEW i \in 1..Len(codes'), NEW j \in 1..Len(codes'),
               Valid(codes'[i]), Valid(codes'[j]), codes'[i].purpose = codes'[j].purpose
        PROVE  i = j
    <3>1. \A k \in 1..Len(codes) : codes[k].purpose = e.purpose => ~Valid(codes[k])
      BY <1>1, <1>8, <2>2 DEF OneCode
    <3>2. CASE i \in 1..Len(codes) /\ j \in 1..Len(codes)
      BY <1>1, <2>3, <2>7, <3>2 DEF OneCode
    <3>3. CASE i = Len(codes) + 1 /\ j \in 1..Len(codes)
      BY <2>3, <2>7, <3>1, <3>3
    <3>4. CASE j = Len(codes) + 1 /\ i \in 1..Len(codes)
      BY <2>3, <2>7, <3>1, <3>4
    <3> QED BY <2>4, <3>2, <3>3, <3>4
  <2>8. \A g \in Handlers : call'[g].pc \notin {"use", "insert"}
    BY <1>3, <2>1
  <2> QED BY <2>5, <2>7, <2>8 DEF OneCode
<1>9. CASE call[h].pc = "use"
  <2>1. Accepts(h, codes') /\ call'[h].pc \notin {"use", "insert"}
    BY <1>2, <1>9, CodeSteps DEF Onward
  <2>2. PICK r : r = call[h].ref
    OBVIOUS
  <2>3. /\ Len(codes') = Len(codes) /\ r \in 1..Len(codes)
        /\ codes'[r].purpose = codes[r].purpose
        /\ codes'[r].accepted = codes[r].accepted + 1 /\ codes'[r].used
        /\ \A i \in 1..Len(codes) \ {r} : codes'[i] = codes[i]
    BY <2>1, <2>2 DEF Accepts
  <2>4. ~codes[r].used
    BY <1>1, <1>9, <2>2 DEF OneCode
  <2>5. codes[r].accepted = 0
    BY <1>1, <1>4, <2>3, <2>4 DEF OneCode
  <2>6. \A i \in 1..Len(codes') :
          codes'[i].accepted <= 1 /\ (codes'[i].accepted > 0 => codes'[i].used)
    BY <1>1, <2>3, <2>5 DEF OneCode
  <2>7. NoneAdded
    BY <2>3 DEF NoneAdded, Valid
  <2> QED BY <1>5, <2>1, <2>6, <2>7
<1> QED BY <1>6, <1>7, <1>8, <1>9

LEMMA CodesStep ==
  StageInv /\ StageInv' /\ CodesInv /\ [Acc!Next]_Acc!vars => CodesInv'
<1> SUFFICES ASSUME StageInv, StageInv', CodesInv, [Acc!Next]_Acc!vars PROVE CodesInv'
  OBVIOUS
<1>0. Acc!TypeOK /\ Acc!TypeOK'
  BY DEF StageInv
<1>1. CASE Acc!CreateProfile
  <2>1. UNCHANGED <<concurrent, user, codes, call>>
    BY <1>1 DEF Acc!CreateProfile, Acc!auth
  <2> QED BY <2>1 DEF CodesInv, CodesCount, OneCode, Hashing, Valid
<1>2. CASE Acc!Expire
  <2>1. PICK i \in 1..Len(codes) :
          ~codes[i].used /\ codes' = [codes EXCEPT ![i] = [codes[i] EXCEPT !.expired = TRUE]]
    BY <1>0, <1>2, AccFacts DEF Acc!Expire
  <2>2. UNCHANGED <<concurrent, user, call>>
    BY <1>2 DEF Acc!Expire
  <2>3. PICK e : e = [codes[i] EXCEPT !.expired = TRUE]
    OBVIOUS
  <2>4. codes[i] \in Acc!Code /\ codes \in Seq(Acc!Code)
    BY <1>0, AccFacts
  <2>5. /\ e \in Acc!Code /\ e.purpose = codes[i].purpose /\ e.used = codes[i].used
        /\ e.accepted = codes[i].accepted /\ e.expired
    BY <2>3, <2>4 DEF Acc!Code
  <2>6. codes' = [codes EXCEPT ![i] = e]
    BY <2>1, <2>3
  <2>7. /\ codes' \in Seq(Acc!Code) /\ Len(codes') = Len(codes) /\ codes'[i] = e
        /\ \A j \in 1..Len(codes) \ {i} : codes'[j] = codes[j]
    BY <2>4, <2>5, <2>6, ExceptRow
  <2>8. \A j \in 1..Len(codes) :
          /\ codes'[j].purpose = codes[j].purpose /\ codes'[j].accepted = codes[j].accepted
          /\ codes'[j].used = codes[j].used /\ (codes[j].expired => codes'[j].expired)
    BY <2>5, <2>7
  <2>9. \A p : Total(codes', p) = Total(codes, p)
    BY <2>4, <2>7, <2>8, SameTotal
  <2>10. CodesCount'
    BY <2>2, <2>9 DEF CodesInv, CodesCount, Hashing
  <2>11. NoneAdded
    BY <2>7, <2>8 DEF NoneAdded, Valid
  <2>12. ASSUME ~concurrent' PROVE OneCode'
    <3>1. OneCode
      BY <2>2, <2>12 DEF CodesInv
    <3>2. \A j, k \in 1..Len(codes') :
            Valid(codes'[j]) /\ Valid(codes'[k]) /\ codes'[j].purpose = codes'[k].purpose =>
              j = k
      BY <2>11, <3>1 DEF OneCode, NoneAdded
    <3>3. \A j \in 1..Len(codes') :
            codes'[j].accepted <= 1 /\ (codes'[j].accepted > 0 => codes'[j].used)
      BY <2>7, <2>8, <3>1 DEF OneCode
    <3>4. \A h \in Handlers : call'[h].pc = "use" => ~codes'[call'[h].ref].used
      <4> TAKE h \in Handlers
      <4>1. call[h].pc = "use" => call[h].ref \in 1..Len(codes)
        BY DEF StageInv, Staged
      <4> QED BY <2>2, <2>8, <3>1, <4>1 DEF OneCode
    <3>5. \A h \in Handlers : call'[h].pc = "insert" =>
            \A j \in 1..Len(codes') :
              codes'[j].purpose = Acc!PurposeOf(call'[h].op) => ~Valid(codes'[j])
      BY <2>2, <2>11, <3>1 DEF OneCode, NoneAdded
    <3> QED BY <3>2, <3>3, <3>4, <3>5 DEF OneCode
  <2> QED BY <2>10, <2>12 DEF CodesInv
<1>3. ASSUME NEW h \in Handlers, Acc!Start(h) PROVE CodesInv'
  <2>1. /\ call[h].pc = "idle"
        /\ call'[h].pc \notin {"hash", "verified", "use", "insert"}
        /\ \A g \in Handlers \ {h} : call'[g] = call[g]
        /\ UNCHANGED <<concurrent, user, codes>>
    BY <1>0, <1>3, StartsAt
  <2>2. Hashing' = Hashing
    BY <2>1 DEF Hashing
  <2>3. CodesCount'
    BY <2>1, <2>2 DEF CodesInv, CodesCount
  <2>5. OneCode => OneCode'
    BY <2>1 DEF OneCode, Valid
  <2> QED BY <2>1, <2>3, <2>5 DEF CodesInv
<1>4. ASSUME NEW h \in Handlers, Acc!Handle(h) PROVE CodesInv'
  <2>1. CodesCount'
    BY <1>4, CountHandled DEF CodesInv
  <2>2. UNCHANGED concurrent
    BY <1>0, <1>4, EveryRoute DEF Routed
  <2>3. ~concurrent => OneCode'
    BY <1>4, OneCodeHandled
  <2> QED BY <2>1, <2>2, <2>3 DEF CodesInv
<1>5. CASE UNCHANGED Acc!vars
  <2>1. UNCHANGED <<concurrent, user, codes, call>>
    BY <1>5 DEF Acc!vars, Acc!auth
  <2> QED BY <2>1 DEF CodesInv, CodesCount, OneCode, Hashing, Valid
<1> QED BY <1>1, <1>2, <1>3, <1>4, <1>5 DEF Acc!Next

LEMMA CodesInit == Acc!Init => CodesInv
<1> SUFFICES ASSUME Acc!Init PROVE CodesInv
  OBVIOUS
<1>0. PICK old \in BOOLEAN :
        /\ user = [exists |-> old, gen |-> IF old THEN 1 ELSE 0, verified |-> old]
        /\ codes = IF old THEN <<[purpose |-> "PHONE_VERIFY", used |-> TRUE,
                                  expired |-> FALSE, accepted |-> 1]>>
                          ELSE <<>>
  BY DEF Acc!Init
<1>1. \A h \in Handlers : call[h].pc = "idle"
  BY IdleCall DEF Acc!Init
<1>2. Hashing = {}
  BY <1>1 DEF Hashing
<1>3. IsFiniteSet(Hashing) /\ Cardinality(Hashing) = 0
  BY <1>2, FS_EmptySet
<1>4. Acc!TypeOK
  BY AccInitStage DEF StageInv
<1>5. codes \in Seq(Acc!Code) /\ Total(codes, "PASSWORD_RESET") \in Nat
  BY <1>4, AccFacts, TotalFacts
<1>6. user.verified => Total(codes, "PHONE_VERIFY") > 0
  <2> SUFFICES ASSUME old PROVE Total(codes, "PHONE_VERIFY") > 0
    BY <1>0
  <2>1. Len(codes) = 1 /\ codes[1].purpose = "PHONE_VERIFY" /\ codes[1].accepted = 1
    BY <1>0
  <2>2. 1 \in OfPurpose(codes, "PHONE_VERIFY")
    BY <2>1 DEF OfPurpose
  <2>3. PICK f, S : f = Acceptances(codes) /\ S = OfPurpose(codes, "PHONE_VERIFY")
    OBVIOUS
  <2>4. IsFiniteSet(S) /\ \A i \in S : f[i] \in Nat
    BY <1>5, <2>3, TotalFacts
  <2>5. f[1] <= SumFunctionOnSet(f, S)
    BY <2>2, <2>3, <2>4, SumAtLeast
  <2>6. f[1] = 1
    BY <2>1, <2>3 DEF Acceptances
  <2>7. SumFunctionOnSet(f, S) \in Nat
    BY <2>4, SumNat
  <2> QED BY <2>3, <2>5, <2>6, <2>7 DEF Total
<1>7. user.gen <= 1 /\ user.gen \in Nat
  BY <1>0
<1>8. CodesCount
  BY <1>1, <1>3, <1>5, <1>6, <1>7 DEF CodesCount
<1>9. \A i \in 1..Len(codes) : codes[i].accepted = 1 /\ codes[i].used
  <2>1. CASE ~old
    BY <1>0, <2>1
  <2>2. CASE old
    <3>1. Len(codes) = 1 /\ codes[1].accepted = 1 /\ codes[1].used
      BY <1>0, <2>2
    <3> QED BY <3>1
  <2> QED BY <2>1, <2>2
<1>11. OneCode
  BY <1>1, <1>9 DEF OneCode, Valid
<1> QED BY <1>8, <1>11 DEF CodesInv

(* What is verified or changed rests on an accepted code, one change for   *)
(* each acceptance, and in turn a code is accepted once and only the       *)
(* newest one is valid.                                                    *)
THEOREM CodesAreOneTimeHolds == Spec => []CodesAreOneTime
<1>1. StageInv /\ CodesInv => CodesAreOneTime
  <2> SUFFICES ASSUME StageInv, CodesInv PROVE Acc!CodesAreOneTime
    BY DEF CodesAreOneTime
  <2>1. Acc!TypeOK /\ DOMAIN codes = 1..Len(codes) /\ Len(codes) \in Nat
        /\ codes \in Seq(Acc!Code) /\ user.gen \in Nat
    BY AccFacts DEF StageInv
  <2>2. user.verified => Acc!Accepted("PHONE_VERIFY") > 0
    BY <2>1, AcceptedTotal DEF CodesInv, CodesCount
  <2>3. user.gen <= 1 + Acc!Accepted("PASSWORD_RESET")
    <3>1. Cardinality(Hashing) \in Nat /\ Total(codes, "PASSWORD_RESET") \in Nat
      BY <2>1, FS_CardinalityType, TotalFacts DEF CodesInv, CodesCount
    <3> QED BY <2>1, <3>1, AcceptedTotal DEF CodesInv, CodesCount
  <2>4. ASSUME ~concurrent, NEW p \in Acc!Purposes PROVE Acc!Cardinality(Acc!Live(p)) <= 1
    <3>1. \A i, j \in Acc!Live(p) : i = j
      BY <2>1, <2>4 DEF CodesInv, OneCode, Valid, Acc!Live
    <3>2. PICK S : S = Acc!Live(p)
      OBVIOUS
    <3>3. CASE S = {}
      <4>1. Cardinality(S) = 0
        BY <3>3, FS_EmptySet
      <4> QED BY <3>2, <4>1, AccCardinality
    <3>4. CASE S # {}
      <4>1. PICK i : S = {i}
        BY <3>1, <3>2, <3>4
      <4>2. Cardinality({i}) = 1
        BY FS_Singleton
      <4> QED BY <3>2, <4>1, <4>2, AccCardinality
    <3> QED BY <3>3, <3>4
  <2>5. ~concurrent => \A i \in DOMAIN codes : codes[i].accepted <= 1
    BY <2>1 DEF CodesInv, OneCode
  <2> QED BY <2>2, <2>3, <2>4, <2>5 DEF Acc!CodesAreOneTime
<1> QED BY <1>1, CodesInit, CodesStep, StageInvariant, AccountsBehave, PTL DEF Acc!Spec

-----------------------------------------------------------------------------
(* Analytics.  The views are sums over the same rows, sorted by market,    *)
(* by user or by day.                                                      *)

LEMMA AnaCardinality == \A S : Ana!Cardinality(S) = Cardinality(S)
BY DEF Ana!Cardinality, Cardinality

LEMMA AnaFinite == \A S : Ana!IsFiniteSet(S) <=> IsFiniteSet(S)
BY DEF Ana!IsFiniteSet, IsFiniteSet

LEMMA AnaSum == \A f, S : Ana!SumOver(f, S) = SumFunctionOnSet(f, S)
BY SumUnfold DEF Ana!SumOver, Ana!SumFunctionOnSet, Ana!FoldFunctionOnSet,
   Ana!MapThenFoldSet, Solves, Chosen

(* What the analytics service does of a behaviour. *)
LEMMA AnalyticsBehave == Spec => Ana!Init /\ [][Ana!Next]_Ana!vars
<1>1. Init => Ana!Init
  BY DEF Init
<1>2. [Next]_vars => [Ana!Next]_Ana!vars
  <2> SUFFICES ASSUME [Next]_vars PROVE [Ana!Next]_analytics
    BY DEF analytics, Ana!vars, Ana!events, Ana!cached
  <2> QED BY DEF Next, vars, AccountsStep, AnalyticsStep, CommentsStep, NotificationsStep,
                 MarketStep
<1> QED BY <1>1, <1>2, PTL DEF Spec

Cron == [pc: {"idle", "settlements", "entries", "ranks", "volumes"}, week: Ana!Weeks,
         volume: [Traders -> Nat], todo: SUBSET Traders, pnl: [Traders -> Int],
         wins: [Traders -> Nat], ranked: BOOLEAN]

Trade == [user: Traders, market: Markets, outcome: {"YES", "NO"}]

(* The trades of one trader in one market. *)
HeldIn(q, p) == {i \in DOMAIN q : q[i].user = p[1] /\ q[i].market = p[2]}

(* A row of a settlement, and the messages it is made of. *)
RowTrue(q, v, p, r) ==
  r.exists =>
    /\ r.cost <= SumFunctionOnSet([i \in DOMAIN q |-> i], HeldIn(q, p))
    /\ \A o \in {"YES", "NO"} :
         {q[i].outcome : i \in HeldIn(q, p)} = {o} => r.won = (o = v[p[2]])

(* All rows are true of what was sent.                                     *)
RowsTrue ==
  \A q, v : q = sent /\ v = verdict =>
    \A p \in Traders \X Markets : \A r : r = settlementEvent[p] => RowTrue(q, v, p, r)

(* The ranks of a week are 1 to n by profit. *)
Ranked(week) ==
  LET on == {u \in Traders : week[u].exists}
  IN  /\ {week[u].rank : u \in on} = 1..Cardinality(on)
      /\ \A u, v \in on : week[u].rank < week[v].rank => week[u].pnl >= week[v].pnl

(* The invariant of analytics.                                             *)
BoardInv ==
  /\ Ana!TypeOK
  /\ cron \in Cron
  /\ RowsTrue
  /\ cron.pc # "idle" => ~cron.ranked
  /\ cron.ranked \/ cron.pc = "volumes" => \A b : b = board[cron.week] => Ranked(b)

LEMMA Bounds ==
  /\ LastDay \in Nat /\ PayoutKes \in Nat
  /\ IsFiniteSet(Traders) /\ IsFiniteSet(Markets) /\ IsFiniteSet(Traders \X Markets)
  /\ FirstWeekdays \subseteq 0..6
  /\ Published \subseteq [sent: Seq(Trade), verdict: [Markets -> {"YES", "NO"}]]
<1>1. /\ LastDay \in Nat /\ PayoutKes \in Nat
      /\ IsFiniteSet(Traders) /\ IsFiniteSet(Markets)
      /\ FirstWeekdays \subseteq 0..6
      /\ Published \subseteq [sent: Seq(Trade), verdict: [Markets -> {"YES", "NO"}]]
  BY ServicesAssumption, AnaFinite DEF Ana!AnalyticsAssumption, Trade
<1>2. IsFiniteSet(Traders \X Markets)
  BY <1>1, FS_Product
<1> QED BY <1>1, <1>2

(* What the types say. *)
LEMMA TablesTyped ==
  ASSUME Ana!TypeOK
  PROVE  /\ sent \in Seq(Trade) /\ verdict \in [Markets -> {"YES", "NO"}]
         /\ Len(sent) \in Nat /\ Ana!Ids = 1..Len(sent) /\ IsFiniteSet(1..Len(sent))
         /\ \A i \in 1..Len(sent) : /\ sent[i] \in Trade
                                    /\ sent[i].user \in Traders /\ sent[i].market \in Markets
         /\ jan1 \in 0..6 /\ today \in 0..LastDay
         /\ tradeEvent \in [1..Len(sent) -> (0..LastDay) \cup {-1}]
         /\ settlementEvent \in [Traders \X Markets -> Ana!Row]
         /\ \A p \in Traders \X Markets : /\ settlementEvent[p] \in Ana!Row
                                          /\ settlementEvent[p].payout \in Nat
                                          /\ settlementEvent[p].cost \in Nat
<1>1. [sent |-> sent, verdict |-> verdict] \in Published
  BY DEF Ana!TypeOK
<1>2. [sent |-> sent, verdict |-> verdict]
        \in [sent: Seq(Trade), verdict: [Markets -> {"YES", "NO"}]]
  BY <1>1, Bounds
<1>3. sent \in Seq(Trade) /\ verdict \in [Markets -> {"YES", "NO"}]
  BY <1>2
<1>4. Len(sent) \in Nat /\ Ana!Ids = 1..Len(sent)
  BY <1>3 DEF Ana!Ids
<1>5. IsFiniteSet(1..Len(sent))
  BY <1>4, FS_Interval
<1>6. \A i \in 1..Len(sent) : sent[i] \in Trade
  BY <1>3
<1>7. jan1 \in 0..6 /\ today \in 0..LastDay
  BY Bounds DEF Ana!TypeOK, Ana!Days
<1>8. tradeEvent \in [1..Len(sent) -> (0..LastDay) \cup {-1}]
  BY <1>4 DEF Ana!TypeOK, Ana!Days, Ana!None
<1>9. settlementEvent \in [Traders \X Markets -> Ana!Row]
  BY DEF Ana!TypeOK
<1>10. \A p \in Traders \X Markets : settlementEvent[p] \in Ana!Row
  BY <1>9
<1> QED BY <1>3, <1>4, <1>5, <1>6, <1>7, <1>8, <1>9, <1>10 DEF Trade, Ana!Row

(* Sums of trades, of payouts and of costs. *)
KesTable    == [i \in 1..Len(sent) |-> i]
PayoutTable == [p \in Traders \X Markets |-> settlementEvent[p].payout]
CostTable   == [p \in Traders \X Markets |-> settlementEvent[p].cost]

LEMMA KesFacts ==
  ASSUME Ana!TypeOK
  PROVE  /\ Sums(KesTable, 1..Len(sent))
         /\ \A i \in 1..Len(sent) : KesTable[i] \in Nat
         /\ \A S \in SUBSET (1..Len(sent)) :
              /\ Ana!Kes(S) = SumFunctionOnSet(KesTable, S)
              /\ Ana!Kes(S) \in Nat
              /\ Sums(KesTable, S)
<1>1. \A i \in 1..Len(sent) : KesTable[i] \in Nat
  BY TablesTyped DEF KesTable
<1>2. Sums(KesTable, 1..Len(sent))
  BY <1>1, TablesTyped DEF Sums
<1>3. ASSUME NEW S \in SUBSET (1..Len(sent))
      PROVE /\ Ana!Kes(S) = SumFunctionOnSet(KesTable, S)
            /\ Ana!Kes(S) \in Nat
            /\ Sums(KesTable, S)
  <2>1. Ana!Kes(S) = SumFunctionOnSet(KesTable, S)
    BY AnaSum, TablesTyped DEF Ana!Kes, KesTable
  <2>2. Sums(KesTable, S)
    BY <1>2, SumsSub
  <2>3. SumFunctionOnSet(KesTable, S) \in Nat
    BY <1>1, <2>2, SumNat DEF Sums
  <2> QED BY <2>1, <2>2, <2>3
<1> QED BY <1>1, <1>2, <1>3

LEMMA MoneyFacts ==
  ASSUME Ana!TypeOK
  PROVE  /\ Sums(PayoutTable, Traders \X Markets) /\ Sums(CostTable, Traders \X Markets)
         /\ \A p \in Traders \X Markets : PayoutTable[p] \in Nat /\ CostTable[p] \in Nat
         /\ \A S \in SUBSET (Traders \X Markets) :
              /\ Ana!Payouts(S) = SumFunctionOnSet(PayoutTable, S)
              /\ Ana!CostsOf(S) = SumFunctionOnSet(CostTable, S)
              /\ Ana!Payouts(S) \in Nat /\ Ana!CostsOf(S) \in Nat
              /\ Sums(PayoutTable, S) /\ Sums(CostTable, S)
              /\ Ana!Profit(S) \in Int
              /\ IsFiniteSet(S)
<1>1. \A p \in Traders \X Markets : PayoutTable[p] \in Nat /\ CostTable[p] \in Nat
  BY TablesTyped DEF PayoutTable, CostTable
<1>2. Sums(PayoutTable, Traders \X Markets) /\ Sums(CostTable, Traders \X Markets)
  BY <1>1, Bounds DEF Sums
<1>3. ASSUME NEW S \in SUBSET (Traders \X Markets)
      PROVE /\ Ana!Payouts(S) = SumFunctionOnSet(PayoutTable, S)
            /\ Ana!CostsOf(S) = SumFunctionOnSet(CostTable, S)
            /\ Ana!Payouts(S) \in Nat /\ Ana!CostsOf(S) \in Nat
            /\ Sums(PayoutTable, S) /\ Sums(CostTable, S)
            /\ Ana!Profit(S) \in Int
            /\ IsFiniteSet(S)
  <2>1. Sums(PayoutTable, S) /\ Sums(CostTable, S) /\ IsFiniteSet(S)
    BY <1>2, SumsSub DEF Sums
  <2>2. PICK f, g : /\ f = [p \in S |-> settlementEvent[p].payout]
                    /\ g = [p \in S |-> settlementEvent[p].cost]
    OBVIOUS
  <2>3. \A p \in S : PayoutTable[p] = f[p] /\ CostTable[p] = g[p]
    BY <2>2 DEF PayoutTable, CostTable
  <2>4. /\ SumFunctionOnSet(PayoutTable, S) = SumFunctionOnSet(f, S)
        /\ SumFunctionOnSet(CostTable, S) = SumFunctionOnSet(g, S)
    BY <2>1, <2>3, SumSame
  <2>5. Ana!Payouts(S) = SumFunctionOnSet(f, S) /\ Ana!CostsOf(S) = SumFunctionOnSet(g, S)
    BY <2>2, AnaSum DEF Ana!Payouts, Ana!CostsOf
  <2>6. SumFunctionOnSet(PayoutTable, S) \in Nat /\ SumFunctionOnSet(CostTable, S) \in Nat
    BY <1>1, <2>1, SumNat
  <2>7. Ana!Payouts(S) \in Nat /\ Ana!CostsOf(S) \in Nat
    BY <2>4, <2>5, <2>6
  <2>8. Ana!Profit(S) \in Int
    BY <2>7 DEF Ana!Profit
  <2> QED BY <2>1, <2>4, <2>5, <2>7, <2>8
<1> QED BY <1>1, <1>2, <1>3

(* The trades sorted by market, by user and by day. *)
LEMMA TradesSorted ==
  ASSUME Ana!TypeOK
  PROVE  /\ Ana!Kes(Ana!Recorded)
              = SumFunctionOnSet([m \in Markets |-> Ana!Kes(Ana!On(m))], Markets)
         /\ Ana!Kes(Ana!Recorded)
              = SumFunctionOnSet([u \in Traders |-> Ana!Kes(Ana!ByUser(u))], Traders)
<1>1. PICK R, f, marketOf, userOf, onMarket, byUser, ofMarket, ofUser :
        /\ R = Ana!Recorded /\ f = KesTable
        /\ marketOf = [i \in 1..Len(sent) |-> sent[i].market]
        /\ userOf = [i \in 1..Len(sent) |-> sent[i].user]
        /\ onMarket = [m \in Markets |-> Ana!On(m)]
        /\ byUser = [u \in Traders |-> Ana!ByUser(u)]
        /\ ofMarket = [m \in Markets |-> Ana!Kes(Ana!On(m))]
        /\ ofUser = [u \in Traders |-> Ana!Kes(Ana!ByUser(u))]
  OBVIOUS
<1>2. R \in SUBSET (1..Len(sent))
  BY <1>1, TablesTyped DEF Ana!Recorded
<1>3. \A S \in SUBSET R : Ana!Kes(S) = SumFunctionOnSet(f, S)
  BY <1>1, <1>2, KesFacts
<1>4. \A i \in R : marketOf[i] \in Markets /\ userOf[i] \in Traders
  BY <1>1, <1>2, TablesTyped
<1>5. \A m \in Markets : /\ onMarket[m] \subseteq R
                         /\ \A i \in R : i \in onMarket[m] <=> marketOf[i] = m
  BY <1>1, <1>2 DEF Ana!On
<1>6. \A u \in Traders : /\ byUser[u] \subseteq R
                         /\ \A i \in R : i \in byUser[u] <=> userOf[i] = u
  BY <1>1, <1>2 DEF Ana!ByUser
<1>7. \A m \in Markets : ofMarket[m] = SumFunctionOnSet(f, onMarket[m])
  BY <1>1, <1>3, <1>5
<1>8. \A u \in Traders : ofUser[u] = SumFunctionOnSet(f, byUser[u])
  BY <1>1, <1>3, <1>6
<1>9. Sums(f, R) /\ IsFiniteSet(Markets) /\ IsFiniteSet(Traders)
  BY <1>1, <1>2, KesFacts, Bounds
<1>10. SumFunctionOnSet(ofMarket, Markets) = SumFunctionOnSet(f, R)
  BY <1>4, <1>5, <1>7, <1>9, SumByKey
<1>11. SumFunctionOnSet(ofUser, Traders) = SumFunctionOnSet(f, R)
  BY <1>4, <1>6, <1>8, <1>9, SumByKey
<1> QED BY <1>1, <1>3, <1>10, <1>11

LEMMA DaysSorted ==
  ASSUME Ana!TypeOK, NEW R \in SUBSET Ana!Recorded
  PROVE  Ana!Kes(R)
           = SumFunctionOnSet([d \in Ana!Days |-> Ana!Kes({i \in R : tradeEvent[i] = d})],
             Ana!Days)
<1>1. PICK f, D, dayOf, on, byDay :
        /\ f = KesTable /\ D = Ana!Days /\ dayOf = tradeEvent
        /\ on = [d \in D |-> {i \in R : tradeEvent[i] = d}]
        /\ byDay = [d \in D |-> Ana!Kes({i \in R : tradeEvent[i] = d})]
  OBVIOUS
<1>2. R \in SUBSET (1..Len(sent))
  BY TablesTyped DEF Ana!Recorded
<1>3. \A S \in SUBSET R : Ana!Kes(S) = SumFunctionOnSet(f, S)
  BY <1>1, <1>2, KesFacts
<1>4. \A i \in R : dayOf[i] \in D
  BY <1>1, <1>2, TablesTyped DEF Ana!Recorded, Ana!Days, Ana!None
<1>5. \A d \in D : /\ on[d] \subseteq R
                   /\ \A i \in R : i \in on[d] <=> dayOf[i] = d
  BY <1>1
<1>6. \A d \in D : byDay[d] = SumFunctionOnSet(f, on[d])
  BY <1>1, <1>3, <1>5
<1>7. Sums(f, R) /\ IsFiniteSet(D)
  <2>1. LastDay \in Int
    BY Bounds
  <2>2. IsFiniteSet(0..LastDay)
    BY <2>1, FS_Interval
  <2> QED BY <1>1, <1>2, <2>2, KesFacts DEF Ana!Days
<1>8. SumFunctionOnSet(byDay, D) = SumFunctionOnSet(f, R)
  BY <1>4, <1>5, <1>6, <1>7, SumByKey
<1> QED BY <1>1, <1>3, <1>8

(* The settlements there are, sorted by trader and by market. *)
Settled == {p \in Traders \X Markets : settlementEvent[p].exists}

LEMMA SettlementsSorted ==
  ASSUME Ana!TypeOK, NEW U \in SUBSET Traders, \A p \in Settled : p[1] \in U
  PROVE  /\ Ana!Payouts(Settled)
              = SumFunctionOnSet([u \in U |-> Ana!Payouts(Ana!SettlementsOf(u))], U)
         /\ Ana!CostsOf(Settled)
              = SumFunctionOnSet([u \in U |-> Ana!CostsOf(Ana!SettlementsOf(u))], U)
         /\ \A u \in U : Ana!SettlementsOf(u) \in SUBSET (Traders \X Markets)
<1>1. PICK S, f, e, trader, of, paid, cost :
        /\ S = Settled /\ f = PayoutTable /\ e = CostTable
        /\ trader = [p \in Traders \X Markets |-> p[1]]
        /\ of = [u \in U |-> Ana!SettlementsOf(u)]
        /\ paid = [u \in U |-> Ana!Payouts(Ana!SettlementsOf(u))]
        /\ cost = [u \in U |-> Ana!CostsOf(Ana!SettlementsOf(u))]
  OBVIOUS
<1>2. S \in SUBSET (Traders \X Markets)
  BY <1>1 DEF Settled
<1>3. \A u \in U : /\ of[u] \subseteq S
                   /\ \A p \in S : p \in of[u] <=> trader[p] = u
  BY <1>1, <1>2 DEF Ana!SettlementsOf, Settled
<1>4. \A p \in S : trader[p] \in U
  BY <1>1, <1>2
<1>5. \A u \in U : /\ paid[u] = SumFunctionOnSet(f, of[u])
                   /\ cost[u] = SumFunctionOnSet(e, of[u])
                   /\ Ana!SettlementsOf(u) \in SUBSET (Traders \X Markets)
  BY <1>1, <1>2, <1>3, MoneyFacts
<1>6. /\ Sums(f, S) /\ Sums(e, S)
      /\ Ana!Payouts(S) = SumFunctionOnSet(f, S) /\ Ana!CostsOf(S) = SumFunctionOnSet(e, S)
  BY <1>1, <1>2, MoneyFacts
<1>7. IsFiniteSet(U)
  BY Bounds, FS_Subset
<1>8. SumFunctionOnSet(paid, U) = SumFunctionOnSet(f, S)
  BY <1>3, <1>4, <1>5, <1>6, <1>7, SumByKey
<1>9. SumFunctionOnSet(cost, U) = SumFunctionOnSet(e, S)
  BY <1>3, <1>4, <1>5, <1>6, <1>7, SumByKey
<1> QED BY <1>1, <1>5, <1>6, <1>8, <1>9

(* The settlements on the payouts page are part of them.                   *)
LEMMA MarketsListed ==
  ASSUME Ana!TypeOK, NEW listed,
         listed = SumFunctionOnSet([m \in marketEarnings |-> Ana!Payouts(Ana!SettlementsIn(m))],
                                   marketEarnings)
  PROVE  /\ listed <= Ana!Payouts(Settled)
         /\ (\A m \in Markets : Ana!SettlementsIn(m) # {} => m \in marketEarnings)
              => listed = Ana!Payouts(Settled)
<1>1. PICK S, M, L, f, market, in, paid :
        /\ S = Settled /\ M = marketEarnings /\ f = PayoutTable
        /\ L = {p \in Settled : p[2] \in M}
        /\ market = [p \in Traders \X Markets |-> p[2]]
        /\ in = [m \in M |-> Ana!SettlementsIn(m)]
        /\ paid = [m \in M |-> Ana!Payouts(Ana!SettlementsIn(m))]
  OBVIOUS
<1>2. M \in SUBSET Markets
  BY <1>1 DEF Ana!TypeOK
<1>3. S \in SUBSET (Traders \X Markets) /\ L \in SUBSET S
  BY <1>1 DEF Settled
<1>4. \A m \in M : /\ in[m] \subseteq L
                   /\ \A p \in L : p \in in[m] <=> market[p] = m
  BY <1>1, <1>2, <1>3 DEF Ana!SettlementsIn, Settled
<1>5. \A p \in L : market[p] \in M
  BY <1>1, <1>3
<1>6. \A m \in M : paid[m] = SumFunctionOnSet(f, in[m])
  <2> TAKE m \in M
  <2>1. in[m] \in SUBSET (Traders \X Markets)
    BY <1>3, <1>4
  <2>2. paid[m] = Ana!Payouts(in[m])
    BY <1>1
  <2> QED BY <1>1, <2>1, <2>2, MoneyFacts
<1>7. /\ Sums(f, L) /\ IsFiniteSet(S) /\ Ana!Payouts(S) = SumFunctionOnSet(f, S)
      /\ \A p \in S : f[p] \in Nat
  BY <1>1, <1>3, MoneyFacts
<1>8. IsFiniteSet(M)
  BY <1>2, Bounds, FS_Subset
<1>9. SumFunctionOnSet(paid, M) = SumFunctionOnSet(f, L)
  BY <1>4, <1>5, <1>6, <1>7, <1>8, SumByKey
<1>10. SumFunctionOnSet(f, L) <= SumFunctionOnSet(f, S)
  BY <1>3, <1>7, SumSubset
<1>11. (\A m \in Markets : Ana!SettlementsIn(m) # {} => m \in marketEarnings) => L = S
  <2> SUFFICES ASSUME \A m \in Markets : Ana!SettlementsIn(m) # {} => m \in marketEarnings,
                      NEW p \in S
               PROVE  p \in L
    BY <1>3
  <2>1. p \in Traders \X Markets /\ settlementEvent[p].exists
    BY <1>1 DEF Settled
  <2>2. p \in Ana!SettlementsIn(p[2])
    BY <2>1 DEF Ana!SettlementsIn
  <2> QED BY <1>1, <2>1, <2>2
<1> QED BY <1>1, <1>7, <1>9, <1>10, <1>11

(* What the platform loses to its users is what they win. *)
LEMMA ProfitsAddUp ==
  ASSUME Ana!TypeOK
  PROVE  Ana!CostsOf(Settled) - Ana!Payouts(Settled)
           = -SumFunctionOnSet([u \in Traders |-> Ana!Profit(Ana!SettlementsOf(u))], Traders)
<1> DEFINE paid == [u \in Traders |-> Ana!Payouts(Ana!SettlementsOf(u))]
           cost == [u \in Traders |-> Ana!CostsOf(Ana!SettlementsOf(u))]
           profit == [u \in Traders |-> Ana!Profit(Ana!SettlementsOf(u))]
<1>0. \A p \in Settled : p[1] \in Traders
  BY DEF Settled
<1>1. /\ Ana!Payouts(Settled) = SumFunctionOnSet(paid, Traders)
      /\ Ana!CostsOf(Settled) = SumFunctionOnSet(cost, Traders)
      /\ \A u \in Traders : Ana!SettlementsOf(u) \in SUBSET (Traders \X Markets)
  BY <1>0, SettlementsSorted
<1>2. \A u \in Traders : /\ paid[u] \in Int /\ cost[u] \in Int /\ profit[u] \in Int
                         /\ paid[u] = profit[u] + cost[u]
  <2> TAKE u \in Traders
  <2>1. PICK S \in SUBSET (Traders \X Markets) : S = Ana!SettlementsOf(u)
    BY <1>1
  <2>2. Ana!Payouts(S) \in Nat /\ Ana!CostsOf(S) \in Nat
    BY MoneyFacts
  <2>3. Ana!Profit(S) = Ana!Payouts(S) - Ana!CostsOf(S)
    BY DEF Ana!Profit
  <2> QED BY <2>1, <2>2, <2>3
<1> HIDE DEF paid, cost, profit
<1>3. Sums(profit, Traders) /\ Sums(cost, Traders)
  BY <1>2, Bounds DEF Sums
<1>4. SumFunctionOnSet(paid, Traders)
        = SumFunctionOnSet(profit, Traders) + SumFunctionOnSet(cost, Traders)
  BY <1>2, <1>3, SumPlus
<1>5. SumFunctionOnSet(profit, Traders) \in Int /\ SumFunctionOnSet(cost, Traders) \in Int
  BY <1>3, SumInt
<1> QED BY <1>1, <1>4, <1>5 DEF profit

(* The views agree whatever the tables hold. *)
LEMMA TheViewsAgree == ASSUME Ana!TypeOK PROVE Ana!ViewsAgree
<1> DEFINE overview == Ana!getPlatformOverview(LastDay)
           payouts == Ana!getPayoutsOverview
           users == Ana!getUserSettlementsOverview
           since == {i \in Ana!Recorded : tradeEvent[i] >= today - LastDay}
<1>1. overview.totalVolume
        = SumFunctionOnSet([m \in Markets |-> Ana!getMarketStats(m).totalVolume], Markets)
  BY TradesSorted DEF Ana!getPlatformOverview, Ana!getMarketStats
<1>2. overview.totalVolume
        = SumFunctionOnSet([u \in Traders |-> Ana!getUserStats(u).totalVolume], Traders)
  BY TradesSorted DEF Ana!getPlatformOverview, Ana!getUserStats
<1>3. overview.recentVolume = SumFunctionOnSet(overview.dailyVolume, Ana!Days)
  <2>1. since \in SUBSET Ana!Recorded
    OBVIOUS
  <2>2. /\ overview.recentVolume = Ana!Kes(since)
        /\ overview.dailyVolume
             = [d \in Ana!Days |-> Ana!Kes({i \in since : tradeEvent[i] = d})]
    BY DEF Ana!getPlatformOverview
  <2> HIDE DEF overview, since
  <2> QED BY <2>1, <2>2, DaysSorted
<1>4. payouts.totalPayouts
        = SumFunctionOnSet([u \in DOMAIN users.users |-> users.users[u].won],
          DOMAIN users.users)
  <2> DEFINE U == {p[1] : p \in Settled}
  <2>1. U \in SUBSET Traders /\ \A p \in Settled : p[1] \in U
    BY DEF Settled
  <2>2. payouts.totalPayouts = Ana!Payouts(Settled)
    BY DEF Ana!getPayoutsOverview, Ana!PayoutTotal, Settled
  <2>3. DOMAIN users.users = U /\ \A u \in U : users.users[u].won =
          Ana!Payouts(Ana!SettlementsOf(u))
    BY DEF Ana!getUserSettlementsOverview, Settled
  <2> HIDE DEF users, U
  <2>4. Ana!Payouts(Settled)
          = SumFunctionOnSet([u \in U |-> Ana!Payouts(Ana!SettlementsOf(u))], U)
    BY <2>1, SettlementsSorted
  <2>5. [u \in DOMAIN users.users |-> users.users[u].won]
          = [u \in U |-> Ana!Payouts(Ana!SettlementsOf(u))]
    BY <2>3
  <2> QED BY <2>2, <2>3, <2>4, <2>5
<1>5. users.netUserLoss
        = -SumFunctionOnSet([u \in Traders |-> Ana!getUserStats(u).totalPnl], Traders)
  <2>1. users.netUserLoss = Ana!CostsOf(Settled) - Ana!Payouts(Settled)
    BY DEF Ana!getUserSettlementsOverview, Settled
  <2>2. [u \in Traders |-> Ana!getUserStats(u).totalPnl]
          = [u \in Traders |-> Ana!Profit(Ana!SettlementsOf(u))]
    BY DEF Ana!getUserStats
  <2> QED BY <2>1, <2>2, ProfitsAddUp
<1>6. [m \in marketEarnings |-> payouts.markets[m].payouts]
        = [m \in marketEarnings |-> Ana!Payouts(Ana!SettlementsIn(m))]
  BY DEF Ana!getPayoutsOverview
<1>7. payouts.totalPayouts = Ana!Payouts(Settled)
  BY DEF Ana!getPayoutsOverview, Ana!PayoutTotal, Settled
<1> HIDE DEF overview, payouts, users
<1> DEFINE listed == SumFunctionOnSet([m \in marketEarnings |-> payouts.markets[m].payouts],
                                      marketEarnings)
<1>8. /\ listed <= payouts.totalPayouts
      /\ (\A m \in Markets : Ana!SettlementsIn(m) # {} => m \in marketEarnings)
           => listed = payouts.totalPayouts
  BY <1>6, <1>7, MarketsListed
<1> QED BY <1>1, <1>2, <1>3, <1>4, <1>5, <1>8, AnaSum
    DEF Ana!ViewsAgree, overview, payouts, users

LEMMA RowsAreTrue == RowsTrue <=> Ana!SettledOnce
<1>1. ASSUME NEW p \in Traders \X Markets
      PROVE  RowTrue(sent, verdict, p, settlementEvent[p]) <=>
               LET held == {i \in DOMAIN sent : sent[i].user = p[1] /\ sent[i].market = p[2]}
                   row  == settlementEvent[p]
               IN  row.exists =>
                     /\ row.cost <= Ana!Kes(held)
                     /\ \A o \in Ana!Outcomes : {sent[i].outcome : i \in held} = {o} =>
                          row.won = (o = verdict[p[2]])
  <2>1. Ana!Kes(HeldIn(sent, p)) = SumFunctionOnSet([i \in DOMAIN sent |-> i], HeldIn(sent, p))
    BY AnaSum DEF Ana!Kes, Ana!Ids
  <2> QED BY <2>1 DEF RowTrue, HeldIn, Ana!Outcomes
<1> QED BY <1>1 DEF RowsTrue, Ana!SettledOnce

(* The days of a week. *)
LEMMA WeekFacts ==
  ASSUME Ana!TypeOK
  PROVE  /\ Ana!WeekOf(today) \in Ana!Weeks
         /\ (jan1 + today) % 7 # 0 => Ana!InPeriod(Ana!WeekOf(today), today)
<1>1. jan1 \in 0..6 /\ today \in 0..LastDay /\ LastDay \in Nat
  BY TablesTyped, Bounds
<1>2. PICK q, n, r : n = today + jan1 /\ q = n \div 7 /\ r = n % 7
  OBVIOUS
<1>3. n \in Nat /\ q \in Nat /\ r \in 0..6 /\ n = 7 * q + r
  BY <1>1, <1>2
<1>4. Ana!WeekOf(today) = q + 1
  <2>1. (n + 7) \div 7 = q + 1
    BY <1>2, <1>3
  <2>2. today + jan1 + 1 + 6 = n + 7
    BY <1>1, <1>2
  <2> QED BY <2>1, <2>2 DEF Ana!WeekOf
<1>5. q + 1 \in Ana!Weeks
  <2>1. n + 7 <= LastDay + 13
    BY <1>1, <1>2
  <2>2. q + 1 <= (LastDay + 13) \div 7
    BY <1>1, <1>3, <2>1
  <2> QED BY <1>1, <1>3, <2>2 DEF Ana!Weeks
<1>6. (jan1 + today) % 7 # 0 => Ana!InPeriod(q + 1, today)
  <2> SUFFICES ASSUME (jan1 + today) % 7 # 0 PROVE Ana!InPeriod(q + 1, today)
    OBVIOUS
  <2>1. r # 0
    BY <1>1, <1>2
  <2>2. Ana!PeriodStart(q + 1) = 7 * q - jan1 + 1
    BY <1>1, <1>3 DEF Ana!PeriodStart
  <2>3. today \in (7 * q - jan1 + 1)..(7 * q - jan1 + 1 + 6)
    BY <1>1, <1>2, <1>3, <2>1
  <2> QED BY <2>2, <2>3 DEF Ana!InPeriod
<1> QED BY <1>4, <1>5, <1>6

LEMMA CronFields ==
  ASSUME BoardInv
  PROVE  /\ cron.week \in Ana!Weeks /\ cron.volume \in [Traders -> Nat]
         /\ cron.todo \in SUBSET Traders /\ cron.pnl \in [Traders -> Int]
         /\ cron.wins \in [Traders -> Nat] /\ cron.ranked \in BOOLEAN
         /\ cron.pc \in {"idle", "settlements", "entries", "ranks", "volumes"}
         /\ cron = [pc |-> cron.pc, week |-> cron.week, volume |-> cron.volume,
                    todo |-> cron.todo, pnl |-> cron.pnl, wins |-> cron.wins,
                    ranked |-> cron.ranked]
BY DEF BoardInv, Cron

(* Rows stay true where no settlement is recorded. *)
LEMMA RowsStay ==
  ASSUME RowsTrue, UNCHANGED <<sent, verdict, settlementEvent>>
  PROVE  RowsTrue'
BY DEF RowsTrue

LEMMA NextDayBoard == ASSUME BoardInv, Ana!NextDay PROVE BoardInv'
<1>1. today' \in Ana!Days
  BY Bounds DEF BoardInv, Ana!TypeOK, Ana!NextDay, Ana!Days
<1> QED BY <1>1, RowsStay
        DEF BoardInv, Ana!TypeOK, Ana!NextDay, Ana!events, Ana!cached, Ana!Ids

LEMMA ConfirmedBoard == ASSUME BoardInv, Ana!handleTradeConfirmed PROVE BoardInv'
<1>1. PICK i \in DOMAIN sent : tradeEvent' = [tradeEvent EXCEPT ![i] = Ana!FirstDay(i)]
  BY DEF Ana!handleTradeConfirmed
<1>2. tradeEvent' \in [Ana!Ids -> Ana!Days \cup {Ana!None}]
  BY <1>1 DEF BoardInv, Ana!TypeOK, Ana!FirstDay, Ana!Ids
<1> QED BY <1>2, RowsStay
        DEF BoardInv, Ana!TypeOK, Ana!handleTradeConfirmed, Ana!events, Ana!cached, Ana!Ids

LEMMA ResolvedBoard == ASSUME BoardInv, Ana!handleMarketResolved PROVE BoardInv'
<1>1. marketEarnings' \subseteq Markets
  BY DEF BoardInv, Ana!TypeOK, Ana!handleMarketResolved
<1> QED BY <1>1, RowsStay
        DEF BoardInv, Ana!TypeOK, Ana!handleMarketResolved, Ana!events, Ana!cached, Ana!Ids

(* A settlement takes its cost from the trades recorded so far. *)
LEMMA SettledBoard == ASSUME BoardInv, Ana!handleMarketSettled PROVE BoardInv'
<1>0. Ana!TypeOK /\ RowsTrue
  BY DEF BoardInv
<1>1. PICK t \in Ana!Range(sent) :
        LET p   == <<t.user, t.market>>
            won == t.outcome = verdict[t.market]
        IN  settlementEvent' =
              IF settlementEvent[p].exists THEN settlementEvent
              ELSE [settlementEvent EXCEPT ![p] =
                      [exists |-> TRUE, won |-> won,
                       payout |-> IF won THEN PayoutKes ELSE 0,
                       cost |-> Ana!CostBasis(t.user, t.market), day |-> today]]
  BY DEF Ana!handleMarketSettled
<1>2. PICK j \in 1..Len(sent) : t = sent[j]
  BY <1>0, <1>1, TablesTyped DEF Ana!Range, Ana!Ids
<1>3. PICK p, won, r : /\ p = <<t.user, t.market>>
                       /\ won = (t.outcome = verdict[t.market])
                       /\ r = [exists |-> TRUE, won |-> won,
                               payout |-> IF won THEN PayoutKes ELSE 0,
                               cost |-> Ana!CostBasis(t.user, t.market), day |-> today]
  OBVIOUS
<1>4. t.user \in Traders /\ t.market \in Markets /\ p \in Traders \X Markets
      /\ p[1] = t.user /\ p[2] = t.market
  BY <1>0, <1>2, <1>3, TablesTyped
<1>5. \/ settlementEvent' = settlementEvent
      \/ settlementEvent' = [settlementEvent EXCEPT ![p] = r]
  BY <1>1, <1>3
<1>6. PICK C : C = Ana!ByUser(t.user) \cap Ana!On(t.market)
  OBVIOUS
<1>7. C \in SUBSET HeldIn(sent, p) /\ HeldIn(sent, p) \in SUBSET (1..Len(sent))
        /\ DOMAIN sent = 1..Len(sent)
  BY <1>0, <1>4, <1>6, TablesTyped DEF Ana!ByUser, Ana!On, Ana!Recorded, Ana!Ids, HeldIn
<1>8. r.cost = Ana!Kes(C) /\ r.cost \in Nat
  <2>1. C \in SUBSET (1..Len(sent))
    BY <1>7
  <2> QED BY <1>0, <1>3, <1>6, <2>1, KesFacts DEF Ana!CostBasis
<1>9. Ana!Kes(C) <= SumFunctionOnSet([i \in DOMAIN sent |-> i], HeldIn(sent, p))
  <2>1. C \in SUBSET (1..Len(sent))
    BY <1>7
  <2>2. Ana!Kes(C) = SumFunctionOnSet(KesTable, C)
    BY <1>0, <2>1, KesFacts
  <2>3. IsFiniteSet(HeldIn(sent, p)) /\ \A i \in HeldIn(sent, p) : KesTable[i] \in Nat
    BY <1>0, <1>7, KesFacts DEF Sums
  <2>4. SumFunctionOnSet(KesTable, C) <= SumFunctionOnSet(KesTable, HeldIn(sent, p))
    BY <1>7, <2>3, SumSubset
  <2> QED BY <1>7, <2>2, <2>4 DEF KesTable
<1>10. r \in Ana!Row
  BY <1>0, <1>3, <1>8, TablesTyped, Bounds DEF Ana!Row, Ana!Days
<1>11. settlementEvent' \in [Traders \X Markets -> Ana!Row]
  BY <1>0, <1>4, <1>5, <1>10, TablesTyped
<1>12. RowTrue(sent, verdict, p, r)
  <2>1. j \in HeldIn(sent, p)
    BY <1>2, <1>4, <1>7 DEF HeldIn
  <2>2. ASSUME NEW o \in {"YES", "NO"}, {sent[i].outcome : i \in HeldIn(sent, p)} = {o}
        PROVE  r.won = (o = verdict[p[2]])
    <3>1. t.outcome = o
      BY <1>2, <2>1, <2>2
    <3> QED BY <1>3, <1>4, <3>1
  <2> QED BY <1>8, <1>9, <2>2 DEF RowTrue
<1>13. RowsTrue'
  <2> SUFFICES ASSUME NEW x \in Traders \X Markets
               PROVE  RowTrue(sent, verdict, x, settlementEvent'[x])
    BY DEF RowsTrue, Ana!handleMarketSettled
  <2>1. RowTrue(sent, verdict, x, settlementEvent[x])
    BY <1>0 DEF RowsTrue
  <2>2. settlementEvent'[x] = settlementEvent[x] \/ (x = p /\ settlementEvent'[x] = r)
    BY <1>0, <1>4, <1>5, TablesTyped
  <2> QED BY <1>12, <2>1, <2>2
<1> QED BY <1>11, <1>13
        DEF BoardInv, Ana!TypeOK, Ana!handleMarketSettled, Ana!events, Ana!cached, Ana!Ids

(* computeLeaderboard. *)
LEMMA ReadTradesBoard == ASSUME BoardInv, Ana!ReadTrades PROVE BoardInv'
<1>0. Ana!TypeOK
  BY DEF BoardInv
<1>1. PICK w, S, V : /\ w = Ana!WeekOf(today)
                     /\ S = {sent[i].user : i \in Ana!TradesIn(w)}
                     /\ V = [u \in Traders |-> Ana!Kes(Ana!TradesIn(w) \cap Ana!ByUser(u))]
  OBVIOUS
<1>2. Ana!TradesIn(w) \in SUBSET (1..Len(sent))
  BY <1>0, TablesTyped DEF Ana!TradesIn, Ana!Recorded
<1>3. w \in Ana!Weeks /\ S \subseteq Traders
  <2>1. w \in Ana!Weeks
    BY <1>0, <1>1, WeekFacts
  <2>2. \A i \in Ana!TradesIn(w) : sent[i].user \in Traders
    BY <1>0, <1>2, TablesTyped
  <2> QED BY <1>1, <2>1, <2>2
<1>4. V \in [Traders -> Nat]
  <2>1. ASSUME NEW u \in Traders PROVE Ana!Kes(Ana!TradesIn(w) \cap Ana!ByUser(u)) \in Nat
    <3>1. Ana!TradesIn(w) \cap Ana!ByUser(u) \in SUBSET (1..Len(sent))
      BY <1>2
    <3> QED BY <1>0, <3>1, KesFacts
  <2> QED BY <1>1, <2>1
<1>5. cron' = [pc |-> "settlements", week |-> w, volume |-> V, todo |-> S,
               pnl |-> [u \in Traders |-> 0], wins |-> [u \in Traders |-> 0], ranked |-> FALSE]
  BY <1>1 DEF Ana!ReadTrades, Ana!Resting
<1>6. cron' \in Cron /\ cron'.pc = "settlements" /\ ~cron'.ranked /\ cron'.week = w
      /\ cron'.todo = S
  BY <1>3, <1>4, <1>5 DEF Cron
<1> QED BY <1>3, <1>6, RowsStay
        DEF BoardInv, Ana!TypeOK, Ana!ReadTrades, Ana!Calendar, Ana!events, Ana!Ids

LEMMA ReadSettlementsBoard == ASSUME BoardInv, Ana!ReadSettlements PROVE BoardInv'
<1>0. Ana!TypeOK
  BY DEF BoardInv
<1>1. PICK w, P, W : /\ w = cron.week
                     /\ P = [u \in Traders |-> Ana!Profit(Ana!SettledIn(w, u))]
                     /\ W = [u \in Traders |-> Ana!Wins(Ana!SettledIn(w, u))]
  OBVIOUS
<1>2. ASSUME NEW u \in Traders
      PROVE  Ana!Profit(Ana!SettledIn(w, u)) \in Int /\ Ana!Wins(Ana!SettledIn(w, u)) \in Nat
  <2>1. PICK S : S = Ana!SettledIn(w, u)
    OBVIOUS
  <2>2. S \in SUBSET (Traders \X Markets)
    BY <2>1 DEF Ana!SettledIn, Ana!SettlementsOf
  <2>3. Ana!Profit(S) \in Int /\ IsFiniteSet(S)
    BY <1>0, <2>2, MoneyFacts
  <2>4. IsFiniteSet({p \in S : settlementEvent[p].won})
    BY <2>3, FS_Subset
  <2>5. Cardinality({p \in S : settlementEvent[p].won}) \in Nat
    BY <2>4, FS_CardinalityType
  <2>6. Ana!Wins(S) \in Nat
    BY <2>5, AnaCardinality DEF Ana!Wins
  <2> QED BY <2>1, <2>3, <2>6
<1>3. P \in [Traders -> Int] /\ W \in [Traders -> Nat]
  BY <1>1, <1>2
<1>4. cron' = [pc |-> "entries", week |-> w, volume |-> cron.volume, todo |-> cron.todo,
               pnl |-> P, wins |-> W, ranked |-> cron.ranked]
  BY <1>1, CronFields DEF Ana!ReadSettlements
<1>5. /\ cron' \in Cron /\ cron'.pc = "entries" /\ cron'.ranked = cron.ranked
      /\ cron'.week = w /\ cron'.todo = cron.todo /\ cron.pc # "idle"
  <2>1. cron.pc = "settlements"
    BY DEF Ana!ReadSettlements
  <2>2. cron' \in Cron
    BY <1>1, <1>3, <1>4, CronFields DEF Cron
  <2> QED BY <1>4, <2>1, <2>2
<1> QED BY <1>1, <1>5, CronFields, RowsStay
        DEF BoardInv, Ana!TypeOK, Ana!ReadSettlements, Ana!Calendar, Ana!events, Ana!Ids

LEMMA UpsertBoard == ASSUME BoardInv, Ana!UpsertEntry PROVE BoardInv'
<1>0. Ana!TypeOK
  BY DEF BoardInv
<1>1. PICK u \in cron.todo :
        /\ board' = [board EXCEPT ![cron.week][u] =
                      [exists |-> TRUE, pnl |-> cron.pnl[u],
                       volume |-> cron.volume[u], wins |-> cron.wins[u],
                       rank |-> board[cron.week][u].rank]]
        /\ cron' = [cron EXCEPT !.todo = cron.todo \ {u},
                                !.pc = IF cron.todo = {u} THEN "ranks" ELSE "entries"]
  BY DEF Ana!UpsertEntry
<1>2. PICK w, e, b, s, k : /\ w = cron.week
                           /\ e = [exists |-> TRUE, pnl |-> cron.pnl[u],
                                   volume |-> cron.volume[u], wins |-> cron.wins[u],
                                   rank |-> board[w][u].rank]
                           /\ b = [board[w] EXCEPT ![u] = e]
                           /\ s = cron.todo \ {u}
                           /\ k = IF cron.todo = {u} THEN "ranks" ELSE "entries"
  OBVIOUS
<1>3. u \in Traders /\ w \in Ana!Weeks /\ board \in [Ana!Weeks -> [Traders -> Ana!Entry]]
  BY <1>0, <1>2, CronFields DEF Ana!TypeOK
<1>4. e \in Ana!Entry
  <2>1. board[w][u] \in Ana!Entry
    BY <1>3
  <2>2. board[w][u].rank \in Nat
    BY <2>1 DEF Ana!Entry
  <2>3. cron.pnl[u] \in Int /\ cron.volume[u] \in Nat /\ cron.wins[u] \in Nat
    BY <1>3, CronFields
  <2> QED BY <1>2, <2>2, <2>3 DEF Ana!Entry
<1>5. b \in [Traders -> Ana!Entry]
  <2>1. board[w] \in [Traders -> Ana!Entry]
    BY <1>3
  <2> QED BY <1>2, <1>3, <1>4, <2>1
<1>6. board' = [board EXCEPT ![w] = b]
  BY <1>1, <1>2
<1>7. board' \in [Ana!Weeks -> [Traders -> Ana!Entry]]
  BY <1>3, <1>5, <1>6
<1>8. cron' = [pc |-> k, week |-> w, volume |-> cron.volume, todo |-> s,
               pnl |-> cron.pnl, wins |-> cron.wins, ranked |-> cron.ranked]
  BY <1>1, <1>2, CronFields
<1>9. k \in {"ranks", "entries"} /\ s \in SUBSET Traders
  BY <1>2, CronFields
<1>10. cron' \in Cron /\ cron'.pc = k /\ cron'.ranked = cron.ranked /\ cron'.week = w
      /\ cron'.todo = s /\ ~cron.ranked
  BY <1>2, <1>8, <1>9, CronFields DEF Cron, Ana!UpsertEntry, BoardInv
<1> QED BY <1>3, <1>7, <1>9, <1>10, RowsStay
        DEF BoardInv, Ana!TypeOK, Ana!UpsertEntry, Ana!Calendar, Ana!events, Ana!Ids

LEMMA AssignBoard == ASSUME BoardInv, Ana!AssignRanks PROVE BoardInv'
<1>0. Ana!TypeOK
  BY DEF BoardInv
<1>1. PICK w, old, E : /\ w = cron.week /\ old = board[w]
                       /\ E = {u \in Traders : old[u].exists}
  OBVIOUS
<1>2. PICK rank \in Ana!Bijection(E, 1..Cardinality(E)) :
        /\ \A u, v \in E : Ana!Before(old[u], old[v]) => rank[u] < rank[v]
        /\ board' = [board EXCEPT ![w] =
             [u \in Traders |-> IF u \in E THEN [old[u] EXCEPT !.rank = rank[u]] ELSE old[u]]]
  <2> DEFINE entries == {u \in Traders : board[cron.week][u].exists}
  <2>1. PICK rank \in Ana!Bijection(entries, 1..Ana!Cardinality(entries)) :
          /\ \A u, v \in entries : Ana!Before(board[cron.week][u], board[cron.week][v])
                                      => rank[u] < rank[v]
          /\ board' = [board EXCEPT ![cron.week] =
               [u \in Traders |-> IF u \in entries
                                  THEN [board[cron.week][u] EXCEPT !.rank = rank[u]]
                                  ELSE board[cron.week][u]]]
    BY DEF Ana!AssignRanks
  <2>2. entries = E /\ Ana!Cardinality(E) = Cardinality(E)
    BY <1>1, AnaCardinality
  <2>3. rank \in Ana!Bijection(E, 1..Cardinality(E))
    BY <2>1, <2>2
  <2>4. \A u, v \in E : Ana!Before(old[u], old[v]) => rank[u] < rank[v]
    BY <1>1, <2>1, <2>2
  <2>5. board' = [board EXCEPT ![w] =
          [u \in Traders |-> IF u \in E THEN [old[u] EXCEPT !.rank = rank[u]] ELSE old[u]]]
    BY <1>1, <2>1, <2>2
  <2> QED BY <2>3, <2>4, <2>5
<1>3. PICK b :
        b = [u \in Traders |-> IF u \in E THEN [old[u] EXCEPT !.rank = rank[u]] ELSE old[u]]
  OBVIOUS
<1>4. /\ w \in Ana!Weeks /\ board \in [Ana!Weeks -> [Traders -> Ana!Entry]]
      /\ old \in [Traders -> Ana!Entry] /\ E \in SUBSET Traders
      /\ \A u \in Traders : old[u] \in Ana!Entry
  BY <1>0, <1>1, CronFields DEF Ana!TypeOK
<1>5. IsFiniteSet(E) /\ Cardinality(E) \in Nat
  BY <1>4, Bounds, FS_Subset, FS_CardinalityType
<1>6. /\ rank \in [E -> 1..Cardinality(E)]
      /\ \A n \in 1..Cardinality(E) : \E u \in E : rank[u] = n
  BY <1>2 DEF Ana!Bijection, Ana!Surjection, Ana!Injection
<1>7. \A u \in E : rank[u] \in 1..Cardinality(E) /\ rank[u] \in Nat
  BY <1>5, <1>6
<1>8. \A u \in Traders : /\ u \in E => b[u] = [old[u] EXCEPT !.rank = rank[u]]
                         /\ u \notin E => b[u] = old[u]
  BY <1>3
<1>9. \A u \in Traders : /\ b[u] \in Ana!Entry /\ b[u].exists = old[u].exists
                         /\ b[u].pnl = old[u].pnl /\ old[u].pnl \in Int
                         /\ old[u].volume \in Nat
                         /\ u \in E => b[u].rank = rank[u]
  <2> TAKE u \in Traders
  <2>1. /\ old[u] \in Ana!Entry /\ old[u].pnl \in Int /\ old[u].volume \in Nat
    BY <1>4 DEF Ana!Entry
  <2>2. CASE u \in E
    <3>1. PICK n \in Nat : n = rank[u]
      BY <1>7, <2>2
    <3>2. b[u] = [old[u] EXCEPT !.rank = n]
      BY <1>8, <2>2, <3>1
    <3> QED BY <2>1, <3>1, <3>2 DEF Ana!Entry
  <2>3. CASE u \notin E
    BY <1>8, <2>1, <2>3
  <2> QED BY <2>2, <2>3
<1>10. b \in [Traders -> Ana!Entry]
  BY <1>3, <1>9
<1>11. board' = [board EXCEPT ![w] = b]
  BY <1>2, <1>3
<1>12. board' \in [Ana!Weeks -> [Traders -> Ana!Entry]] /\ board'[w] = b
  BY <1>4, <1>10, <1>11
<1>13. {u \in Traders : b[u].exists} = E
  BY <1>1, <1>9
<1>14. {b[u].rank : u \in E} = 1..Cardinality(E)
  BY <1>4, <1>6, <1>7, <1>9
<1>15. ASSUME NEW u \in E, NEW v \in E, b[u].rank < b[v].rank PROVE b[u].pnl >= b[v].pnl
  <2>1. rank[u] < rank[v] /\ rank[u] \in Nat /\ rank[v] \in Nat
    BY <1>4, <1>7, <1>9, <1>15
  <2>2. ~Ana!Before(old[v], old[u])
    BY <1>2, <2>1
  <2>3. ~(old[v].pnl > old[u].pnl)
    BY <2>2 DEF Ana!Before
  <2> QED BY <1>4, <1>9, <2>3
<1>16. Ranked(b)
  BY <1>13, <1>14, <1>15 DEF Ranked
<1>17. cron' = [pc |-> "volumes", week |-> w, volume |-> cron.volume, todo |-> cron.todo,
                pnl |-> cron.pnl, wins |-> cron.wins, ranked |-> cron.ranked]
  BY <1>1, CronFields DEF Ana!AssignRanks
<1>18. cron' \in Cron /\ cron'.pc = "volumes" /\ cron'.week = w /\ cron'.todo = cron.todo
       /\ cron'.ranked = cron.ranked /\ ~cron.ranked
  BY <1>1, <1>17, CronFields DEF Cron, Ana!AssignRanks, BoardInv
<1> QED BY <1>4, <1>12, <1>16, <1>18, CronFields, RowsStay
        DEF BoardInv, Ana!TypeOK, Ana!AssignRanks, Ana!Calendar, Ana!events, Ana!Ids

LEMMA VolumesBoard == ASSUME BoardInv, Ana!computeMarketVolumes PROVE BoardInv'
<1>0. Ana!TypeOK
  BY DEF BoardInv
<1>1. PICK w, V :
        /\ w = cron.week
        /\ V = [m \in Markets |-> IF Ana!TradesIn(w) \cap Ana!On(m) = {}
                                    THEN marketVolume[w][m]
                                    ELSE Ana!Kes(Ana!TradesIn(w) \cap Ana!On(m))]
  OBVIOUS
<1>2. w \in Ana!Weeks /\ marketVolume \in [Ana!Weeks -> [Markets -> Nat]]
  BY <1>0, <1>1, CronFields DEF Ana!TypeOK
<1>3. V \in [Markets -> Nat]
  <2>1. ASSUME NEW m \in Markets
        PROVE  Ana!Kes(Ana!TradesIn(w) \cap Ana!On(m)) \in Nat /\ marketVolume[w][m] \in Nat
    <3>1. Ana!TradesIn(w) \cap Ana!On(m) \in SUBSET (1..Len(sent))
      BY <1>0, TablesTyped DEF Ana!TradesIn, Ana!Recorded
    <3> QED BY <1>0, <1>2, <3>1, KesFacts
  <2> QED BY <1>1, <2>1
<1>4. marketVolume' = [marketVolume EXCEPT ![w] = V]
  BY <1>1 DEF Ana!computeMarketVolumes
<1>5. marketVolume' \in [Ana!Weeks -> [Markets -> Nat]]
  BY <1>2, <1>3, <1>4
<1>6. cron' = [pc |-> "idle", week |-> w, volume |-> [u \in Traders |-> 0], todo |-> {},
               pnl |-> [u \in Traders |-> 0], wins |-> [u \in Traders |-> 0], ranked |-> TRUE]
  BY <1>1 DEF Ana!computeMarketVolumes, Ana!Resting
<1>7. cron' \in Cron /\ cron'.pc = "idle" /\ cron'.week = w /\ cron'.todo = {}
        /\ cron.pc = "volumes"
  <2>1. cron.pc = "volumes"
    BY DEF Ana!computeMarketVolumes
  <2>2. cron' \in Cron
    BY <1>2, <1>6 DEF Cron
  <2> QED BY <1>6, <2>1, <2>2
<1>8. \A b : b = board[w] => Ranked(b)
  BY <1>1, <1>7 DEF BoardInv
<1> QED BY <1>2, <1>5, <1>7, <1>8, RowsStay
        DEF BoardInv, Ana!TypeOK, Ana!computeMarketVolumes, Ana!Calendar, Ana!events, Ana!Ids

LEMMA FailsBoard == ASSUME BoardInv, Ana!CronFails PROVE BoardInv'
<1>1. PICK w : w = cron.week
  OBVIOUS
<1>2. w \in Ana!Weeks
  BY <1>1, CronFields
<1>3. cron' = [pc |-> "idle", week |-> w, volume |-> [u \in Traders |-> 0], todo |-> {},
               pnl |-> [u \in Traders |-> 0], wins |-> [u \in Traders |-> 0], ranked |-> FALSE]
  BY <1>1 DEF Ana!CronFails, Ana!Resting
<1>4. cron' \in Cron /\ cron'.pc = "idle" /\ cron'.week = w /\ cron'.todo = {} /\ ~cron'.ranked
  BY <1>2, <1>3 DEF Cron
<1> QED BY <1>2, <1>4, RowsStay
        DEF BoardInv, Ana!TypeOK, Ana!CronFails, Ana!Calendar, Ana!events, Ana!Ids

LEMMA BoardStep == BoardInv /\ [Ana!Next]_Ana!vars => BoardInv'
<1> SUFFICES ASSUME BoardInv, [Ana!Next]_Ana!vars PROVE BoardInv'
  OBVIOUS
<1>1. CASE UNCHANGED Ana!vars
  BY <1>1, RowsStay
  DEF BoardInv, Ana!TypeOK, Ana!vars, Ana!events, Ana!cached, Ana!Ids
<1> QED BY <1>1, NextDayBoard, ConfirmedBoard, SettledBoard, ResolvedBoard, ReadTradesBoard,
           ReadSettlementsBoard, UpsertBoard, AssignBoard, VolumesBoard, FailsBoard DEF Ana!Next

LEMMA BoardInit == Ana!Init => BoardInv
<1> SUFFICES ASSUME Ana!Init PROVE BoardInv
  OBVIOUS
<1>1. PICK p \in Published : sent = p.sent /\ verdict = p.verdict
  BY DEF Ana!Init
<1>2. p \in [sent: Seq(Trade), verdict: [Markets -> {"YES", "NO"}]]
  BY Bounds
<1>3. [sent |-> sent, verdict |-> verdict] \in Published
  <2>1. p = [sent |-> p.sent, verdict |-> p.verdict]
    BY <1>2
  <2> QED BY <1>1, <2>1
<1>4. 0 \in Ana!Days /\ 1 \in Ana!Weeks
  <2>1. (LastDay + 13) \div 7 \in Int /\ (LastDay + 13) \div 7 >= 1
    BY Bounds
  <2> QED BY <2>1, Bounds DEF Ana!Days, Ana!Weeks
<1>5. Ana!NoRow \in Ana!Row /\ Ana!NoEntry \in Ana!Entry
  BY <1>4 DEF Ana!NoRow, Ana!Row, Ana!NoEntry, Ana!Entry
<1>6. cron \in Cron /\ cron.pc = "idle" /\ cron.week = 1 /\ cron.todo = {}
        /\ cron.ranked = FALSE
  BY <1>4 DEF Ana!Init, Ana!Resting, Cron
<1>7. Ana!TypeOK
  BY <1>3, <1>4, <1>5, <1>6 DEF Ana!Init, Ana!TypeOK
<1>8. RowsTrue
  BY DEF RowsTrue, RowTrue, Ana!Init, Ana!NoRow
<1> QED BY <1>6, <1>7, <1>8 DEF BoardInv

LEMMA BoardInvariant == Spec => []BoardInv
BY BoardInit, BoardStep, AnalyticsBehave, PTL

LEMMA TheBoardIsRanked == ASSUME BoardInv PROVE Ana!BoardIsRanked
<1>0. Ana!TypeOK
  BY DEF BoardInv
<1>1. ASSUME cron.ranked
      PROVE  LET week == board[cron.week]
                 on   == {u \in Traders : week[u].exists}
             IN  /\ {week[u].rank : u \in on} = 1..Ana!Cardinality(on)
                 /\ \A u, v \in on : week[u].rank < week[v].rank => week[u].pnl >= week[v].pnl
  <2>1. PICK b : b = board[cron.week]
    OBVIOUS
  <2>2. Ranked(b)
    BY <1>1, <2>1 DEF BoardInv
  <2> QED BY <2>1, <2>2, AnaCardinality DEF Ranked
<1>2. ASSUME (jan1 + today) % 7 # 0, NEW i \in Ana!Recorded, tradeEvent[i] = today
      PROVE  sent[i].user \in DOMAIN Ana!getLeaderboard(Ana!WeekOf(today))
  <2>1. Ana!InPeriod(Ana!WeekOf(today), tradeEvent[i])
    BY <1>0, <1>2, WeekFacts
  <2>2. i \in Ana!TradesIn(Ana!WeekOf(today))
    BY <2>1 DEF Ana!TradesIn
  <2> QED BY <2>2 DEF Ana!getLeaderboard
<1> QED BY <1>1, <1>2 DEF Ana!BoardIsRanked

(* Totals, histories, earnings and volumes agree with one another, a        *)
(* settlement is recorded once and truly, and the board is ranked: whatever *)
(* the order in which the consumer groups get to the messages.             *)
THEOREM AnalyticsAgreeHolds == Spec => []AnalyticsAgree
<1>1. BoardInv => AnalyticsAgree
  BY TheViewsAgree, TheBoardIsRanked, RowsAreTrue DEF BoardInv, AnalyticsAgree
<1> QED BY <1>1, BoardInvariant, PTL

-----------------------------------------------------------------------------
(* Markets.  Where none was accepted while another was deciding, the       *)
(* status that a request, or the cron job, was accepted for is still the   *)
(* market's when it is carried out; and a repeated resolution clears what  *)
(* an earlier one has flagged.                                             *)

LEMMA MktCardinality == \A S : Mkt!Cardinality(S) = Cardinality(S)
BY DEF Mkt!Cardinality, Cardinality

(* What the market service does of a behaviour. *)
LEMMA MarketBehaves == Spec => Mkt!Init /\ [][Mkt!Next]_Mkt!vars
<1>1. Init => Mkt!Init
  BY DEF Init
<1>2. [Next]_vars => [Mkt!Next]_Mkt!vars
  <2> SUFFICES ASSUME [Next]_vars PROVE [Mkt!Next]_listings
    BY DEF listings, Mkt!vars
  <2> QED BY DEF Next, vars, AccountsStep, AnalyticsStep, CommentsStep, NotificationsStep,
                 MarketStep
<1> QED BY <1>1, <1>2, PTL DEF Spec

AdminPC == {"idle", "find", "clear", "flag", "update", "publish"}
AdminRecord == [pc: AdminPC, op: Mkt!Ops \cup {"create"}, market: Mkt!AllMarkets,
                choice: Mkt!Choices]
CronRecord  == [pc: {"idle", "update", "publish"}, found: SUBSET Mkt!AllMarkets]

WinnerOf(m, o, w) == IF m \in Multi THEN w ELSE {o} \ {"NONE"}

(* The row and the announcements of a market. *)
Book(m, s, o, w, e) ==
  /\ \A i \in 1..Len(e) : e[i].type = "RESOLVED" =>
       s = "RESOLVED" /\ WinnerOf(m, o, w) = {e[i].choice}
  /\ \A i \in 1..Len(e) : e[i].type = "CANCELLED" => s = "CANCELLED"
  /\ \A i, j \in 1..Len(e) : e[i].type = "RESOLVED" /\ e[j].type = "RESOLVED" => i = j
  /\ s = "RESOLVED" => \E x \in Mkt!Choices : WinnerOf(m, o, w) = {x}

(* A request k under way names an operation, and a winner that it may name, *)
ValidRequest(k) ==
  /\ k.pc \in {"find", "clear", "flag", "update"} => k.op \in Mkt!Ops
  /\ k.pc \in {"clear", "flag"} =>
       k.op = "resolve" /\ k.market \in Multi /\ k.choice \in Options
  /\ k.pc = "update" /\ k.op = "resolve" /\ k.market \notin Multi =>
       k.choice \in Mkt!Outcomes

(* and the market is still in the state that it was accepted for. *)
StillAccepted(k, m, s, o, w, e) ==
  /\ k.pc \in {"clear", "flag", "update"} => Mkt!Allowed(k.op, s)
  /\ k.pc = "flag" => w = {}
  /\ k.pc = "update" /\ k.op = "resolve" /\ m \in Multi => w = {k.choice}
  /\ k.pc = "publish" /\ k.op = "resolve" =>
       /\ s = "RESOLVED" /\ WinnerOf(m, o, w) = {k.choice}
       /\ \A i \in 1..Len(e) : e[i].type # "RESOLVED"
  /\ k.pc = "publish" /\ k.op = "cancel" => s = "CANCELLED"

(* It has a say in the verdict, until that is announced. *)
Acting(k) == k.pc \in {"clear", "flag", "update"} \/ (k.pc = "publish" /\ k.op = "resolve")
ActsOn(a, m) == admin[a].market = m /\ Acting(admin[a])

(* Nobody but a has a say about m. *)
Free(a, m) == Mkt!Closing(m) = {} /\ \A b \in Admins \ {a} : ~ActsOn(b, m)

ClosesAlone(m) ==
  \A j \in Mkt!Closing(m) :
    /\ status[m] = "ACTIVE"
    /\ \A a \in Admins : ~ActsOn(a, m)
    /\ \A i \in Mkt!Closing(m) : i = j

(* What is claimed of a market on which nobody raced: one at a time has a   *)
(* say, and carries out what the status allows.                             *)
Orderly(m) ==
  /\ Book(m, status[m], outcome[m], isWinner[m], events[m])
  /\ \A a \in Admins : admin[a].market = m =>
       StillAccepted(admin[a], m, status[m], outcome[m], isWinner[m], events[m])
  /\ \A a, b \in Admins : ActsOn(a, m) /\ ActsOn(b, m) => a = b
  /\ ClosesAlone(m)

Watched == Mkt!AllMarkets \ raced

(* The invariant of the market service.                                    *)
VerdictInv ==
  /\ Mkt!TypeOK
  /\ \A a \in Admins : /\ ValidRequest(admin[a])
                       /\ admin[a].pc # "idle" => status[admin[a].market] # "NONE"
  /\ \A m \in Watched : Orderly(m)

-----------------------------------------------------------------------------
(* What a step of a request does to the request: the next request k. *)
LEMMA IdleRequest == Mkt!Idle \in AdminRecord /\ Mkt!Idle.pc = "idle"
<1>1. (CHOOSE m \in Mkt!AllMarkets : TRUE) \in Mkt!AllMarkets
  BY ServicesAssumption DEF Mkt!MarketAssumption
<1> QED BY <1>1 DEF Mkt!Idle, AdminRecord, AdminPC, Mkt!Ops, Mkt!Choices

LEMMA RequestFields ==
  ASSUME NEW op \in Mkt!Ops \cup {"create"}, NEW m \in Mkt!AllMarkets, NEW c \in Mkt!Choices,
         NEW pc \in AdminPC
  PROVE  /\ Mkt!Request(op, m, c, pc) \in AdminRecord
         /\ Mkt!Request(op, m, c, pc).pc = pc
         /\ Mkt!Request(op, m, c, pc).market = m
         /\ Mkt!Request(op, m, c, pc).op = op
BY DEF Mkt!Request, AdminRecord

LEMMA RequestGoes ==
  ASSUME Mkt!TypeOK, NEW a \in Admins, NEW pc \in AdminPC, Mkt!Goto(a, pc)
  PROVE  /\ admin' \in [Admins -> AdminRecord]
         /\ admin'[a].pc = pc
         /\ admin'[a].op = admin[a].op
         /\ admin'[a].market = admin[a].market
         /\ admin'[a].choice = admin[a].choice
         /\ \A b \in Admins \ {a} : admin'[b] = admin[b]
<1>1. admin \in [Admins -> AdminRecord]
  BY DEF Mkt!TypeOK, AdminRecord, AdminPC
<1> DEFINE k == [admin[a] EXCEPT !.pc = pc]
<1>2. /\ k \in AdminRecord /\ k.pc = pc /\ k.op = admin[a].op
      /\ k.market = admin[a].market /\ k.choice = admin[a].choice
  BY <1>1 DEF AdminRecord
<1>3. admin' = [admin EXCEPT ![a] = k]
  BY DEF Mkt!Goto
<1> HIDE DEF k
<1> QED BY <1>1, <1>2, <1>3

LEMMA RequestEnds ==
  ASSUME Mkt!TypeOK, NEW a \in Admins, Mkt!End(a)
  PROVE  /\ admin' \in [Admins -> AdminRecord] /\ admin'[a].pc = "idle"
         /\ \A b \in Admins \ {a} : admin'[b] = admin[b]
<1>1. admin \in [Admins -> AdminRecord]
  BY DEF Mkt!TypeOK, AdminRecord, AdminPC
<1> QED BY <1>1, IdleRequest DEF Mkt!End

(* A step of request a about market n, where a has the say, ... *)
DecidedBy(a, n) ==
  /\ Free(a, n)
  /\ status[n] = "CANCELLED" => status'[n] = "CANCELLED"

(* ... or where it has none. *)
NotDecidedBy(a, n) ==
  /\ status'[n] = status[n] /\ outcome'[n] = outcome[n] /\ isWinner'[n] = isWinner[n]
  /\ \A i \in 1..Len(events'[n]) :
       events'[n][i].type = "RESOLVED" => i \in 1..Len(events[n]) /\ events[n][i].type = "RESOLVED"
  /\ ~Acting(admin'[a])

(* The others' requests about n are none of its business. *)
LEMMA OthersStand ==
  ASSUME NEW a \in Admins, NEW n \in Mkt!AllMarkets, Orderly(n),
         DecidedBy(a, n) \/ NotDecidedBy(a, n),
         NEW b \in Admins \ {a}, admin[b].market = n
  PROVE  StillAccepted(admin[b], n, status'[n], outcome'[n], isWinner'[n], events'[n])
<1>1. StillAccepted(admin[b], n, status[n], outcome[n], isWinner[n], events[n])
  BY DEF Orderly
<1>2. CASE DecidedBy(a, n)
  <2>1. ~Acting(admin[b])
    BY <1>2 DEF DecidedBy, Free, ActsOn
  <2> QED BY <1>1, <1>2, <2>1 DEF DecidedBy, Acting, StillAccepted
<1>3. CASE NotDecidedBy(a, n)
  BY <1>1, <1>3 DEF NotDecidedBy, StillAccepted
<1> QED BY <1>2, <1>3

(* Whoever has the say has it alone, and his market exists. *)
LEMMA ActorIsFree ==
  ASSUME VerdictInv, NEW a \in Admins, Acting(admin[a])
  PROVE  /\ admin[a].market \in Watched =>
              Orderly(admin[a].market) /\ Free(a, admin[a].market)
         /\ status[admin[a].market] # "NONE"
<1>1. ActsOn(a, admin[a].market)
  BY DEF ActsOn
<1> QED BY <1>1 DEF VerdictInv, Orderly, ClosesAlone, Free, Acting

(* A step of one request on one market: the rest stays, *)
OnlyMoves(a, n) ==
  /\ \A b \in Admins \ {a} : admin'[b] = admin[b]
  /\ \A m \in Mkt!AllMarkets \ {n} :
       /\ status'[m] = status[m] /\ outcome'[m] = outcome[m]
       /\ isWinner'[m] = isWinner[m] /\ events'[m] = events[m]

(* and the market is left in the order it was in. *)
KeepsOrder(a, n) ==
  n \in Watched' =>
    /\ Book(n, status'[n], outcome'[n], isWinner'[n], events'[n])
    /\ admin'[a].pc # "idle" =>
         StillAccepted(admin'[a], n, status'[n], outcome'[n], isWinner'[n], events'[n])
    /\ DecidedBy(a, n) \/ NotDecidedBy(a, n)

LEMMA RequestSteps ==
  ASSUME VerdictInv, Mkt!TypeOK', NEW a \in Admins, NEW n \in Mkt!AllMarkets,
         UNCHANGED closer, raced \subseteq raced',
         status'[n] # "NONE" \/ status'[n] = status[n],
         admin'[a].pc = "idle" \/
            /\ admin'[a].market = n /\ status'[n] # "NONE"
            /\ ValidRequest(admin'[a]),
         OnlyMoves(a, n), KeepsOrder(a, n)
  PROVE  VerdictInv'
<1> USE DEF OnlyMoves, KeepsOrder
<1>1. ValidRequest(admin'[a])
  BY DEF ValidRequest
<1>2. \A b \in Admins : /\ admin[b] \in AdminRecord /\ admin'[b] \in AdminRecord
                        /\ admin[b].market \in Mkt!AllMarkets
  BY DEF VerdictInv, Mkt!TypeOK, AdminRecord, AdminPC
<1>3. ASSUME NEW b \in Admins
      PROVE  /\ ValidRequest(admin'[b])
             /\ admin'[b].pc # "idle" => status'[admin'[b].market] # "NONE"
  <2>1. CASE b = a
    BY <1>1, <2>1
  <2>2. CASE b # a
    BY <1>2, <2>2 DEF VerdictInv
  <2> QED BY <2>1, <2>2
<1>4. \A m \in Mkt!AllMarkets : Mkt!Closing(m)' = Mkt!Closing(m)
  BY DEF Mkt!Closing
<1>5. \A m \in Watched' : m \in Mkt!AllMarkets /\ Orderly(m)
  BY DEF Watched, VerdictInv
<1>6. ASSUME NEW m \in Watched', m # n PROVE Orderly(m)'
  <2>1. /\ m \in Mkt!AllMarkets /\ Orderly(m)
        /\ status'[m] = status[m] /\ outcome'[m] = outcome[m]
        /\ isWinner'[m] = isWinner[m] /\ events'[m] = events[m]
    BY <1>5, <1>6
  <2>2. \A b \in Admins : ActsOn(b, m)' => ActsOn(b, m) /\ b # a
    BY <1>6 DEF ActsOn, Acting
  <2>3. ASSUME NEW b \in Admins, admin'[b].market = m
        PROVE  StillAccepted(admin'[b], m, status'[m], outcome'[m], isWinner'[m], events'[m])
    <3>1. CASE b = a
      BY <1>6, <2>3, <3>1 DEF StillAccepted
    <3>2. CASE b # a
      BY <2>1, <2>3, <3>2 DEF Orderly
    <3> QED BY <3>1, <3>2
  <2>4. /\ Book(m, status'[m], outcome'[m], isWinner'[m], events'[m])
        /\ \A b, c \in Admins : ActsOn(b, m)' /\ ActsOn(c, m)' => b = c
    BY <2>1, <2>2 DEF Orderly
  <2>5. \A j \in Mkt!Closing(m) : /\ status'[m] = "ACTIVE"
                                  /\ \A b \in Admins : ~ActsOn(b, m)'
                                  /\ \A i \in Mkt!Closing(m) : i = j
    BY <2>1, <2>2 DEF Orderly, ClosesAlone
  <2> QED BY <1>4, <2>1, <2>3, <2>4, <2>5 DEF Orderly, ClosesAlone
<1>7. ASSUME n \in Watched' PROVE Orderly(n)'
  <2>1. Orderly(n) /\ (DecidedBy(a, n) \/ NotDecidedBy(a, n))
    BY <1>5, <1>7
  <2>2. ASSUME NEW b \in Admins, admin'[b].market = n
        PROVE  StillAccepted(admin'[b], n, status'[n], outcome'[n], isWinner'[n], events'[n])
    <3>1. CASE b = a
      <4>1. CASE admin'[a].pc = "idle"
        BY <3>1, <4>1 DEF StillAccepted
      <4>2. CASE admin'[a].pc # "idle"
        BY <1>7, <3>1, <4>2
      <4> QED BY <4>1, <4>2
    <3>2. CASE b # a
      BY <2>1, <2>2, <3>2, OthersStand
    <3> QED BY <3>1, <3>2
  <2>3. \A b \in Admins \ {a} : ActsOn(b, n)' <=> ActsOn(b, n)
    BY DEF ActsOn
  <2>4. /\ \A b, c \in Admins : ActsOn(b, n)' /\ ActsOn(c, n)' => b = c
        /\ \A j \in Mkt!Closing(n) : /\ status'[n] = "ACTIVE"
                                     /\ \A b \in Admins : ~ActsOn(b, n)'
                                     /\ \A i \in Mkt!Closing(n) : i = j
    <3>1. CASE DecidedBy(a, n)
      BY <2>3, <3>1 DEF DecidedBy, Free
    <3>2. CASE NotDecidedBy(a, n)
      <4>1. ~ActsOn(a, n)'
        BY <3>2 DEF NotDecidedBy, ActsOn
      <4>2. \A b \in Admins : ActsOn(b, n)' => ActsOn(b, n)
        BY <2>3, <4>1
      <4> QED BY <2>1, <3>2, <4>2 DEF NotDecidedBy, Orderly, ClosesAlone
    <3> QED BY <2>1, <3>1, <3>2
  <2> QED BY <1>4, <1>7, <2>2, <2>4 DEF Orderly, ClosesAlone
<1>8. \A m \in Watched' : Orderly(m)'
  BY <1>6, <1>7
<1> QED BY <1>3, <1>8 DEF VerdictInv

LEMMA InitVerdict == Mkt!Init => VerdictInv
<1> SUFFICES ASSUME Mkt!Init PROVE VerdictInv
  OBVIOUS
<1>1. Mkt!TypeOK
  BY IdleRequest, ServicesAssumption
     DEF Mkt!MarketAssumption, Mkt!Init, Mkt!TypeOK, AdminRecord, AdminPC, Mkt!Outcomes,
         Mkt!Statuses, Mkt!Event
<1>2. \A a \in Admins : admin[a].pc = "idle"
  BY IdleRequest DEF Mkt!Init
<1>3. \A m \in Mkt!AllMarkets : status[m] = "NONE" /\ events[m] = <<>>
  BY DEF Mkt!Init
<1>4. \A m \in Mkt!AllMarkets : Mkt!Closing(m) = {}
  BY DEF Mkt!Init, Mkt!Closing
<1>5. \A m \in Watched : Orderly(m)
  BY <1>2, <1>3, <1>4 DEF Orderly, ClosesAlone, Watched, ActsOn, Acting, Book, StillAccepted
<1> QED BY <1>1, <1>2, <1>5 DEF VerdictInv, ValidRequest

LEMMA EventsGrow ==
  ASSUME Mkt!TypeOK, NEW m \in Mkt!AllMarkets, NEW c \in Mkt!Choices,
         NEW type \in {"CREATED", "ACTIVATED", "CLOSED", "RESOLVED", "CANCELLED"},
         Mkt!Publish(m, type, c)
  PROVE  /\ events' \in [Mkt!AllMarkets -> Seq(Mkt!Event)]
         /\ events'[m] = Append(events[m], [type |-> type, choice |-> c])
         /\ \A n \in Mkt!AllMarkets \ {m} : events'[n] = events[n]
<1>1. [type |-> type, choice |-> c] \in Mkt!Event
  BY DEF Mkt!Event
<1>2. events \in [Mkt!AllMarkets -> Seq(Mkt!Event)]
  BY DEF Mkt!TypeOK
<1> DEFINE ev == [type |-> type, choice |-> c]
<1>3. Append(events[m], ev) \in Seq(Mkt!Event)
  BY <1>1, <1>2
<1>4. events' = [events EXCEPT ![m] = Append(events[m], ev)]
  BY DEF Mkt!Publish
<1> HIDE DEF ev
<1> QED BY <1>2, <1>3, <1>4 DEF ev

(* The announcements of a market with one more. *)
LEMMA OneEventMore ==
  ASSUME NEW s \in Seq(Mkt!Event), NEW ev \in Mkt!Event
  PROVE  /\ Append(s, ev) \in Seq(Mkt!Event)
         /\ \A i \in 1..Len(Append(s, ev)) :
              \/ i \in 1..Len(s) /\ Append(s, ev)[i] = s[i]
              \/ i = Len(s) + 1 /\ Append(s, ev)[i] = ev
<1>1. PICK n \in Nat : n = Len(s)
  OBVIOUS
<1> QED BY <1>1

LEMMA CreateVerdict ==
  ASSUME VerdictInv, NEW a \in Admins, Mkt!CreateMarket(a)
  PROVE  VerdictInv'
<1>1. Mkt!TypeOK
  BY DEF VerdictInv
<1>2. PICK m \in Mkt!AllMarkets :
        /\ status[m] = "NONE"
        /\ status' = [status EXCEPT ![m] = "DRAFT"]
        /\ admin' = [admin EXCEPT ![a] = Mkt!Request("create", m, "NONE", "publish")]
        /\ UNCHANGED <<outcome, isWinner, expired, closer, events, requests, raced>>
  BY DEF Mkt!CreateMarket
<1> DEFINE k == Mkt!Request("create", m, "NONE", "publish")
<1>3. k \in AdminRecord /\ k.pc = "publish" /\ k.market = m /\ k.op = "create"
  BY RequestFields DEF AdminPC, Mkt!Choices
<1>4. /\ admin' \in [Admins -> AdminRecord] /\ admin'[a] = k
      /\ \A b \in Admins \ {a} : admin'[b] = admin[b]
  BY <1>1, <1>2, <1>3 DEF Mkt!TypeOK, AdminRecord, AdminPC
<1> HIDE DEF k
<1>5. Mkt!TypeOK'
  BY <1>1, <1>2, <1>4 DEF Mkt!TypeOK, AdminRecord, AdminPC, Mkt!Statuses
<1>6. m \in Watched => Book(m, status'[m], outcome'[m], isWinner'[m], events'[m])
  BY <1>1, <1>2 DEF VerdictInv, Orderly, Book, Mkt!TypeOK
<1>7. ValidRequest(k) /\ StillAccepted(k, m, status'[m], outcome'[m], isWinner'[m], events'[m])
  BY <1>3 DEF ValidRequest, StillAccepted
<1>8. /\ status'[m] = "DRAFT" /\ Watched' = Watched
      /\ \A n \in Mkt!AllMarkets \ {m} : status'[n] = status[n]
  BY <1>1, <1>2 DEF Mkt!TypeOK, Watched
<1>9. \A b \in Admins : ~ActsOn(b, m)
  BY <1>2 DEF VerdictInv, ActsOn, Acting
<1>10. m \in Watched => DecidedBy(a, m)
  BY <1>2, <1>9 DEF VerdictInv, Orderly, ClosesAlone, DecidedBy, Free
<1>21. OnlyMoves(a, m)
  BY <1>2, <1>3, <1>4, <1>5, <1>6, <1>7, <1>8, <1>10 DEF OnlyMoves
<1>22. KeepsOrder(a, m)
  BY <1>2, <1>3, <1>4, <1>5, <1>6, <1>7, <1>8, <1>10 DEF KeepsOrder
<1> QED BY <1>2, <1>3, <1>4, <1>5, <1>6, <1>7, <1>8, <1>10, <1>21, <1>22, RequestSteps

LEMMA ReceiveVerdict ==
  ASSUME VerdictInv, NEW a \in Admins, Mkt!Receive(a)
  PROVE  VerdictInv'
<1>1. Mkt!TypeOK
  BY DEF VerdictInv
<1>2. PICK op \in Mkt!Ops, m \in Mkt!AllMarkets, c \in Mkt!Choices :
        status[m] # "NONE" /\ admin' = [admin EXCEPT ![a] = Mkt!Request(op, m, c, "find")]
  BY DEF Mkt!Receive, Mkt!Choices
<1> DEFINE k == Mkt!Request(op, m, c, "find")
<1>3. k \in AdminRecord /\ k.pc = "find" /\ k.market = m /\ k.op = op
  BY RequestFields DEF AdminPC
<1>4. /\ admin' \in [Admins -> AdminRecord] /\ admin'[a] = k
      /\ \A b \in Admins \ {a} : admin'[b] = admin[b]
  BY <1>1, <1>2, <1>3 DEF Mkt!TypeOK, AdminRecord, AdminPC
<1> HIDE DEF k
<1>5. Mkt!TypeOK'
  BY <1>1, <1>4, ServicesAssumption
     DEF Mkt!MarketAssumption, Mkt!TypeOK, AdminRecord, AdminPC, Mkt!Receive, Mkt!rows
<1>6. m \in Watched => Book(m, status'[m], outcome'[m], isWinner'[m], events'[m])
  BY DEF VerdictInv, Orderly, Mkt!Receive, Mkt!rows
<1>7. ValidRequest(k) /\ StillAccepted(k, m, status'[m], outcome'[m], isWinner'[m], events'[m])
  BY <1>3 DEF ValidRequest, StillAccepted
<1>8. /\ UNCHANGED <<status, outcome, isWinner, closer, events, raced>>
      /\ Watched' = Watched
  BY DEF Mkt!Receive, Mkt!rows, Watched
<1>9. NotDecidedBy(a, m)
  BY <1>3, <1>4, <1>8 DEF NotDecidedBy, Acting
<1>21. OnlyMoves(a, m)
  BY <1>2, <1>3, <1>4, <1>5, <1>6, <1>7, <1>8, <1>9 DEF OnlyMoves
<1>22. KeepsOrder(a, m)
  BY <1>2, <1>3, <1>4, <1>5, <1>6, <1>7, <1>8, <1>9 DEF KeepsOrder
<1> QED BY <1>2, <1>3, <1>4, <1>5, <1>6, <1>7, <1>8, <1>9, <1>21, <1>22, RequestSteps

LEMMA EndVerdict ==
  ASSUME VerdictInv, NEW a \in Admins, Mkt!End(a),
         UNCHANGED <<Mkt!rows, expired, closer, events, requests, raced>>
  PROVE  VerdictInv'
<1>1. Mkt!TypeOK
  BY DEF VerdictInv
<1>2. /\ admin' \in [Admins -> AdminRecord] /\ admin'[a].pc = "idle"
      /\ \A b \in Admins \ {a} : admin'[b] = admin[b]
  BY <1>1, RequestEnds
<1>3. Mkt!TypeOK'
  BY <1>1, <1>2 DEF Mkt!TypeOK, AdminRecord, AdminPC, Mkt!rows
<1>4. PICK n \in Mkt!AllMarkets : TRUE
  BY ServicesAssumption DEF Mkt!MarketAssumption
<1>5. n \in Watched => Book(n, status'[n], outcome'[n], isWinner'[n], events'[n])
  BY DEF VerdictInv, Orderly, Mkt!rows
<1>6. UNCHANGED <<status, outcome, isWinner, closer, events, raced>> /\ Watched' = Watched
  BY DEF Mkt!rows, Watched
<1>7. NotDecidedBy(a, n)
  BY <1>2, <1>6 DEF NotDecidedBy, Acting
<1>21. OnlyMoves(a, n)
  BY <1>2, <1>3, <1>4, <1>5, <1>6, <1>7 DEF OnlyMoves
<1>22. KeepsOrder(a, n)
  BY <1>2, <1>3, <1>4, <1>5, <1>6, <1>7 DEF KeepsOrder
<1> QED BY <1>2, <1>3, <1>4, <1>5, <1>6, <1>7, <1>21, <1>22, RequestSteps

(* A request that is accepted where no other is deciding has the say, with  *)
(* the status that it was accepted for.                                     *)
LEMMA FindVerdict ==
  ASSUME VerdictInv, NEW a \in Admins, Mkt!FindMarket(a)
  PROVE  VerdictInv'
<1> DEFINE r == admin[a]
           m == r.market
           pc == IF r.op = "resolve" /\ r.market \in Multi THEN "clear" ELSE "update"
<1>1. Mkt!TypeOK
  BY DEF VerdictInv
<1>2. CASE Mkt!End(a) /\ UNCHANGED raced
  BY <1>2, EndVerdict DEF Mkt!FindMarket
<1>3. CASE /\ Mkt!Goto(a, pc) /\ Mkt!Allowed(r.op, status[m]) /\ Mkt!ValidWinner(r)
           /\ raced' = raced \cup {n \in {m} : Mkt!Contested(n)}
  <2>1. /\ r \in AdminRecord /\ m \in Mkt!AllMarkets /\ r.pc = "find"
    BY <1>1 DEF Mkt!TypeOK, AdminRecord, AdminPC, Mkt!FindMarket
  <2>2. /\ admin' \in [Admins -> AdminRecord]
        /\ admin'[a].pc = pc /\ admin'[a].op = r.op
        /\ admin'[a].market = m /\ admin'[a].choice = r.choice
        /\ \A b \in Admins \ {a} : admin'[b] = admin[b]
    BY <1>1, <1>3, RequestGoes DEF AdminPC
  <2>3. UNCHANGED <<status, outcome, isWinner, expired, closer, events, requests>>
    BY DEF Mkt!FindMarket, Mkt!rows
  <2>4. Mkt!TypeOK'
    BY <1>1, <1>3, <2>1, <2>2, <2>3 DEF Mkt!TypeOK, AdminRecord, AdminPC
  <2>5. m \in Watched' => m \in Watched /\ Orderly(m) /\ ~Mkt!Contested(m)
    BY <1>3 DEF VerdictInv, Watched
  <2>6. r.op \in Mkt!Ops /\ status[m] # "NONE"
    BY <2>1 DEF VerdictInv, ValidRequest
  <2>7. ValidRequest(admin'[a])
    BY <1>3, <2>2, <2>6 DEF ValidRequest, Mkt!ValidWinner
  <2>8. StillAccepted(admin'[a], m, status'[m], outcome'[m], isWinner'[m], events'[m])
    BY <1>3, <2>2, <2>3 DEF StillAccepted
  <2>9. status[m] # "RESOLVED"
    BY <1>3, <2>6 DEF Mkt!Allowed, Mkt!Ops
  <2> HIDE DEF r, pc, m
  <2>10. ASSUME m \in Watched', NEW b \in Admins, ActsOn(b, m) PROVE FALSE
    <3>1. b \notin Mkt!Deciding(m) /\ Orderly(m)
      BY <2>5, <2>10 DEF Mkt!Contested
    <3>2. admin[b].market = m /\ admin[b].pc = "publish" /\ admin[b].op = "resolve"
      BY <2>10, <3>1 DEF ActsOn, Acting, Mkt!Deciding
    <3> QED BY <2>9, <3>1, <3>2 DEF Orderly, StillAccepted
  <2>11. m \in Watched' => DecidedBy(a, m)
    BY <2>3, <2>5, <2>10 DEF DecidedBy, Free, Mkt!Contested
  <2>12. m \in Watched' => Book(m, status'[m], outcome'[m], isWinner'[m], events'[m])
    BY <2>3, <2>5 DEF Orderly
  <2>13. raced \subseteq raced'
    BY <1>3
  <2>21. OnlyMoves(a, m)
    BY <2>1, <2>2, <2>3, <2>4, <2>6, <2>7, <2>8, <2>11, <2>12, <2>13 DEF OnlyMoves
  <2>22. KeepsOrder(a, m)
    BY <2>1, <2>2, <2>3, <2>4, <2>6, <2>7, <2>8, <2>11, <2>12, <2>13 DEF KeepsOrder
  <2> QED BY <2>1, <2>2, <2>3, <2>4, <2>6, <2>7, <2>8, <2>11, <2>12, <2>13, <2>21,
            <2>22, RequestSteps
<1> QED BY <1>2, <1>3 DEF Mkt!FindMarket

(* The flags of an earlier attempt go, *)
LEMMA ClearVerdict == ASSUME VerdictInv, NEW a \in Admins, Mkt!ClearWinners(a) PROVE VerdictInv'
<1> DEFINE r == admin[a]
           m == r.market
<1>1. Mkt!TypeOK
  BY DEF VerdictInv
<1>2. r \in AdminRecord /\ m \in Mkt!AllMarkets /\ r.pc = "clear"
  BY <1>1 DEF Mkt!TypeOK, AdminRecord, AdminPC, Mkt!ClearWinners
<1>3. /\ admin' \in [Admins -> AdminRecord]
      /\ admin'[a].pc = "flag" /\ admin'[a].op = r.op
      /\ admin'[a].market = m /\ admin'[a].choice = r.choice
      /\ \A b \in Admins \ {a} : admin'[b] = admin[b]
  BY <1>1, RequestGoes DEF AdminPC, Mkt!ClearWinners
<1>4. /\ isWinner' \in [Mkt!AllMarkets -> SUBSET Options] /\ isWinner'[m] = {}
      /\ \A n \in Mkt!AllMarkets \ {m} : isWinner'[n] = isWinner[n]
  BY <1>1, <1>2 DEF Mkt!TypeOK, Mkt!ClearWinners
<1>5. /\ UNCHANGED <<status, outcome, expired, closer, events, requests, raced>>
      /\ Watched' = Watched
  BY DEF Mkt!ClearWinners, Watched
<1>6. Mkt!TypeOK'
  BY <1>1, <1>3, <1>4, <1>5 DEF Mkt!TypeOK, AdminRecord, AdminPC
<1>7. r.op = "resolve" /\ m \in Multi /\ r.choice \in Options
  BY <1>2 DEF VerdictInv, ValidRequest
<1>0. /\ m \in Watched => Orderly(m) /\ Free(a, m)
      /\ status[m] # "NONE"
  BY <1>2, ActorIsFree DEF Acting
<1>8. m \in Watched =>
        /\ Mkt!Allowed(r.op, status[m])
        /\ Book(m, status[m], outcome[m], isWinner[m], events[m])
  BY <1>0, <1>2 DEF Orderly, StillAccepted
<1>12. m \in Watched => DecidedBy(a, m)
  BY <1>0, <1>5 DEF DecidedBy
<1> HIDE DEF r, m
<1>9. m \in Watched => Book(m, status'[m], outcome'[m], isWinner'[m], events'[m])
  BY <1>5, <1>7, <1>8 DEF Book, Mkt!Allowed
<1>10. ValidRequest(admin'[a])
  BY <1>3, <1>7 DEF ValidRequest, Mkt!Ops
<1>11. m \in Watched =>
         StillAccepted(admin'[a], m, status'[m], outcome'[m], isWinner'[m], events'[m])
  BY <1>3, <1>4, <1>5, <1>8 DEF StillAccepted
<1>21. OnlyMoves(a, m)
  BY <1>0, <1>2, <1>3, <1>4, <1>5, <1>6, <1>9, <1>10, <1>11, <1>12 DEF OnlyMoves
<1>22. KeepsOrder(a, m)
  BY <1>0, <1>2, <1>3, <1>4, <1>5, <1>6, <1>9, <1>10, <1>11, <1>12 DEF KeepsOrder
<1> QED BY <1>0, <1>2, <1>3, <1>4, <1>5, <1>6, <1>9, <1>10, <1>11, <1>12, <1>21, <1>22, RequestSteps

(* and this one flags its own. *)
LEMMA FlagVerdict == ASSUME VerdictInv, NEW a \in Admins, Mkt!FlagWinner(a) PROVE VerdictInv'
<1> DEFINE r == admin[a]
           m == r.market
<1>1. Mkt!TypeOK
  BY DEF VerdictInv
<1>2. r \in AdminRecord /\ m \in Mkt!AllMarkets /\ r.pc = "flag"
  BY <1>1 DEF Mkt!TypeOK, AdminRecord, AdminPC, Mkt!FlagWinner
<1>3. /\ admin' \in [Admins -> AdminRecord]
      /\ admin'[a].pc = "update" /\ admin'[a].op = r.op
      /\ admin'[a].market = m /\ admin'[a].choice = r.choice
      /\ \A b \in Admins \ {a} : admin'[b] = admin[b]
  BY <1>1, RequestGoes DEF AdminPC, Mkt!FlagWinner
<1>4. r.op = "resolve" /\ m \in Multi /\ r.choice \in Options
  BY <1>2 DEF VerdictInv, ValidRequest
<1>5. /\ isWinner' \in [Mkt!AllMarkets -> SUBSET Options]
      /\ isWinner'[m] = isWinner[m] \cup {r.choice}
      /\ \A n \in Mkt!AllMarkets \ {m} : isWinner'[n] = isWinner[n]
  BY <1>1, <1>2, <1>4 DEF Mkt!TypeOK, Mkt!FlagWinner
<1>6. /\ UNCHANGED <<status, outcome, expired, closer, events, requests, raced>>
      /\ Watched' = Watched
  BY DEF Mkt!FlagWinner, Watched
<1>7. Mkt!TypeOK'
  BY <1>1, <1>3, <1>5, <1>6 DEF Mkt!TypeOK, AdminRecord, AdminPC
<1>0. /\ m \in Watched => Orderly(m) /\ Free(a, m)
      /\ status[m] # "NONE"
  BY <1>2, ActorIsFree DEF Acting
<1>8. m \in Watched =>
        /\ Mkt!Allowed(r.op, status[m]) /\ isWinner[m] = {}
        /\ Book(m, status[m], outcome[m], isWinner[m], events[m])
  BY <1>0, <1>2 DEF Orderly, StillAccepted
<1>12. m \in Watched => DecidedBy(a, m)
  BY <1>0, <1>6 DEF DecidedBy
<1> HIDE DEF r, m
<1>9. m \in Watched => Book(m, status'[m], outcome'[m], isWinner'[m], events'[m])
  BY <1>4, <1>6, <1>8 DEF Book, Mkt!Allowed
<1>10. m \in Multi \cap Mkt!AllMarkets /\ ValidRequest(admin'[a])
  BY <1>2, <1>3, <1>4 DEF ValidRequest, Mkt!Ops
<1>11. m \in Watched =>
         StillAccepted(admin'[a], m, status'[m], outcome'[m], isWinner'[m], events'[m])
  BY <1>3, <1>5, <1>6, <1>8 DEF StillAccepted
<1>21. OnlyMoves(a, m)
  BY <1>0, <1>2, <1>3, <1>5, <1>6, <1>7, <1>9, <1>10, <1>11, <1>12 DEF OnlyMoves
<1>22. KeepsOrder(a, m)
  BY <1>0, <1>2, <1>3, <1>5, <1>6, <1>7, <1>9, <1>10, <1>11, <1>12 DEF KeepsOrder
<1> QED BY <1>0, <1>2, <1>3, <1>5, <1>6, <1>7, <1>9, <1>10, <1>11, <1>12, <1>21, <1>22, RequestSteps

(* What the update makes of the outcome. *)
NewOutcome(k, m, o, p) ==
  /\ k.op # "resolve" => p = o
  /\ k.op = "resolve" => p = IF m \in Multi THEN "NONE" ELSE k.choice

(* No resolution among the announcements. *)
Unresolved(e) == \A i \in 1..Len(e) : e[i].type # "RESOLVED"

(* The row after the update of request k. *)
Updated(k, m, s, o, w, e) ==
  /\ Book(m, s, o, w, e)
  /\ k.op = "resolve" => s = "RESOLVED" /\ WinnerOf(m, o, w) = {k.choice} /\ Unresolved(e)
  /\ k.op = "cancel" => s = "CANCELLED"

LEMMA NewVerdict ==
  ASSUME NEW k \in AdminRecord, ValidRequest(k), k.pc = "update", NEW m \in Mkt!AllMarkets,
         k.market = m, NEW s, NEW o, NEW w, NEW e, NEW p,
         Book(m, s, o, w, e), StillAccepted(k, m, s, o, w, e),
         NewOutcome(k, m, o, p)
  PROVE  Updated(k, m, Mkt!Target(k.op), p, w, e)
<1>1. k.op \in Mkt!Ops /\ k.choice \in Mkt!Choices /\ Mkt!Allowed(k.op, s)
  BY DEF ValidRequest, StillAccepted, AdminRecord
<1>2. k.op = "resolve" => WinnerOf(m, p, w) = {k.choice}
  BY DEF ValidRequest, StillAccepted, WinnerOf, Mkt!Outcomes, NewOutcome
<1>3. k.op = "resolve" \/ k.op = "cancel" \/ k.op = "activate" \/ k.op = "close"
  BY <1>1 DEF Mkt!Ops
<1>4. CASE k.op = "resolve"
  <2>1. s \notin {"RESOLVED", "CANCELLED"} /\ Mkt!Target(k.op) = "RESOLVED"
    BY <1>1, <1>4 DEF Mkt!Allowed, Mkt!Target
  <2> QED BY <1>1, <1>2, <1>4, <2>1 DEF Updated, Book, NewOutcome, Unresolved
<1>5. CASE k.op = "cancel"
  <2>1. s # "RESOLVED" /\ Mkt!Target(k.op) = "CANCELLED"
    BY <1>1, <1>5 DEF Mkt!Allowed, Mkt!Target
  <2> QED BY <1>5, <2>1 DEF Updated, Book, NewOutcome, Unresolved
<1>6. CASE k.op = "activate" \/ k.op = "close"
  <2>1. /\ s \notin {"RESOLVED", "CANCELLED"}
        /\ Mkt!Target(k.op) \notin {"RESOLVED", "CANCELLED"}
    BY <1>1, <1>6 DEF Mkt!Allowed, Mkt!Target
  <2> QED BY <1>6, <2>1 DEF Updated, Book, NewOutcome, Unresolved
<1> QED BY <1>3, <1>4, <1>5, <1>6

LEMMA UpdateVerdict ==
  ASSUME VerdictInv, NEW a \in Admins, Mkt!UpdateMarket(a)
  PROVE  VerdictInv'
<1> DEFINE r == admin[a]
           m == r.market
           p == IF r.op # "resolve" THEN outcome[m]
                ELSE IF m \in Multi THEN "NONE" ELSE r.choice
<1>1. Mkt!TypeOK
  BY DEF VerdictInv
<1>2. r \in AdminRecord /\ m \in Mkt!AllMarkets /\ r.pc = "update" /\ ValidRequest(r)
  BY <1>1 DEF Mkt!TypeOK, AdminRecord, AdminPC, Mkt!UpdateMarket, VerdictInv
<1>3. /\ admin' \in [Admins -> AdminRecord]
      /\ admin'[a].pc = "publish" /\ admin'[a].op = r.op
      /\ admin'[a].market = m /\ admin'[a].choice = r.choice
      /\ \A b \in Admins \ {a} : admin'[b] = admin[b]
  BY <1>1, RequestGoes DEF AdminPC, Mkt!UpdateMarket
<1>4. r.op \in Mkt!Ops
  BY <1>2 DEF ValidRequest
<1>5. Mkt!ResolvedOutcome(a) = p
  BY DEF Mkt!ResolvedOutcome
<1>6. Mkt!Target(r.op) \in Mkt!Statuses /\ p \in Mkt!Outcomes \cup {"NONE"}
  <2>1. Mkt!Target(r.op) \in Mkt!Statuses
    BY <1>4 DEF Mkt!Target, Mkt!Ops, Mkt!Statuses
  <2>2. p \in Mkt!Outcomes \cup {"NONE"}
    BY <1>1, <1>2 DEF ValidRequest, Mkt!TypeOK
  <2> QED BY <2>1, <2>2
<1> HIDE DEF p
<1>7. /\ status' = [status EXCEPT ![m] = Mkt!Target(r.op)]
      /\ outcome' = [outcome EXCEPT ![m] = p]
      /\ UNCHANGED <<isWinner, expired, closer, events, requests, raced>>
      /\ Watched' = Watched
  BY <1>5 DEF Mkt!UpdateMarket, Watched
<1>8. /\ status' \in [Mkt!AllMarkets -> Mkt!Statuses \cup {"NONE"}]
      /\ outcome' \in [Mkt!AllMarkets -> Mkt!Outcomes \cup {"NONE"}]
      /\ status'[m] = Mkt!Target(r.op) /\ outcome'[m] = p
      /\ \A n \in Mkt!AllMarkets \ {m} : status'[n] = status[n] /\ outcome'[n] = outcome[n]
  BY <1>1, <1>2, <1>6, <1>7 DEF Mkt!TypeOK
<1>9. Mkt!TypeOK'
  BY <1>1, <1>3, <1>7, <1>8 DEF Mkt!TypeOK, AdminRecord, AdminPC
<1>11. m \in Watched => Orderly(m) /\ Free(a, m)
  BY <1>2, ActorIsFree DEF Acting
<1>10. m \in Watched =>
         /\ StillAccepted(r, m, status[m], outcome[m], isWinner[m], events[m])
         /\ Book(m, status[m], outcome[m], isWinner[m], events[m])
  BY <1>11 DEF Orderly
<1>12. r.market = m
  OBVIOUS
<1>13. NewOutcome(r, m, outcome[m], p)
  BY DEF p, NewOutcome
<1> HIDE DEF r, m
<1>14. m \in Watched => Updated(r, m, Mkt!Target(r.op), p, isWinner[m], events[m])
  BY <1>2, <1>10, <1>12, <1>13, NewVerdict
<1>15. m \in Watched => Book(m, status'[m], outcome'[m], isWinner'[m], events'[m])
  BY <1>7, <1>8, <1>14 DEF Updated
<1>16. ValidRequest(admin'[a])
  BY <1>3 DEF ValidRequest
<1>17. m \in Watched =>
         StillAccepted(admin'[a], m, status'[m], outcome'[m], isWinner'[m], events'[m])
  BY <1>3, <1>7, <1>8, <1>14 DEF StillAccepted, Updated, Unresolved
<1>18. status'[m] # "NONE"
  BY <1>6, <1>8 DEF Mkt!Statuses
<1>19. m \in Watched => DecidedBy(a, m)
  <2> SUFFICES ASSUME m \in Watched, status[m] = "CANCELLED"
               PROVE  Mkt!Target(r.op) = "CANCELLED"
    BY <1>8, <1>11 DEF DecidedBy
  <2>1. r.op = "cancel"
    BY <1>2, <1>4, <1>10 DEF StillAccepted, Mkt!Allowed, Mkt!Ops
  <2> QED BY <2>1 DEF Mkt!Target
<1>21. OnlyMoves(a, m)
  BY <1>2, <1>3, <1>7, <1>8, <1>9, <1>15, <1>16, <1>17, <1>18, <1>19 DEF OnlyMoves
<1>22. KeepsOrder(a, m)
  BY <1>2, <1>3, <1>7, <1>8, <1>9, <1>15, <1>16, <1>17, <1>18, <1>19 DEF KeepsOrder
<1> QED BY <1>2, <1>3, <1>7, <1>8, <1>9, <1>15, <1>16, <1>17, <1>18, <1>19,
           <1>21, <1>22, RequestSteps

(* What is announced is what is on record, and it is announced once. *)
LEMMA PublishVerdict ==
  ASSUME VerdictInv, NEW a \in Admins, Mkt!PublishMarket(a)
  PROVE  VerdictInv'
<1> DEFINE r == admin[a]
           m == r.market
           ev == [type |-> Mkt!Announcement(r.op), choice |-> r.choice]
<1>1. Mkt!TypeOK
  BY DEF VerdictInv
<1>2. r \in AdminRecord /\ m \in Mkt!AllMarkets /\ r.pc = "publish"
  BY <1>1 DEF Mkt!TypeOK, AdminRecord, AdminPC, Mkt!PublishMarket
<1>3. CASE UNCHANGED events
  BY <1>3, EndVerdict DEF Mkt!PublishMarket
<1>4. CASE Mkt!Publish(m, Mkt!Announcement(r.op), r.choice)
  <2>1. /\ admin' \in [Admins -> AdminRecord] /\ admin'[a].pc = "idle"
        /\ \A b \in Admins \ {a} : admin'[b] = admin[b]
    BY <1>1, RequestEnds DEF Mkt!PublishMarket
  <2>2. r.op \in Mkt!Ops \cup {"create"} /\ r.choice \in Mkt!Choices
    BY <1>2 DEF AdminRecord
  <2>3. /\ Mkt!Announcement(r.op) \in {"CREATED", "ACTIVATED", "CLOSED", "RESOLVED",
             "CANCELLED"}
        /\ Mkt!Announcement(r.op) = "RESOLVED" => r.op = "resolve"
        /\ Mkt!Announcement(r.op) = "CANCELLED" => r.op = "cancel"
    BY <2>2 DEF Mkt!Announcement, Mkt!Target, Mkt!Ops
  <2>4. /\ events' \in [Mkt!AllMarkets -> Seq(Mkt!Event)]
        /\ events'[m] = Append(events[m], ev)
        /\ \A n \in Mkt!AllMarkets \ {m} : events'[n] = events[n]
    BY <1>1, <1>2, <1>4, <2>2, <2>3, EventsGrow
  <2>5. /\ UNCHANGED <<status, outcome, isWinner, expired, closer, requests, raced>>
        /\ Watched' = Watched
    BY DEF Mkt!PublishMarket, Mkt!rows, Watched
  <2>6. Mkt!TypeOK'
    BY <1>1, <2>1, <2>4, <2>5 DEF Mkt!TypeOK, AdminRecord, AdminPC
  <2>7. ev \in Mkt!Event /\ ev.type = Mkt!Announcement(r.op) /\ ev.choice = r.choice
    BY <2>2, <2>3 DEF Mkt!Event
  <2>8. events[m] \in Seq(Mkt!Event)
    BY <1>1, <1>2 DEF Mkt!TypeOK
  <2>9. m \in Watched =>
          /\ StillAccepted(r, m, status[m], outcome[m], isWinner[m], events[m])
          /\ Book(m, status[m], outcome[m], isWinner[m], events[m])
    BY DEF VerdictInv, Orderly
  <2>13. m \in Watched /\ r.op = "resolve" => Free(a, m)
    BY <1>2, ActorIsFree DEF Acting
  <2> HIDE DEF r, m, ev
  <2>10. \A i \in 1..Len(Append(events[m], ev)) :
            \/ i \in 1..Len(events[m]) /\ Append(events[m], ev)[i] = events[m][i]
            \/ i = Len(events[m]) + 1 /\ Append(events[m], ev)[i] = ev
    BY <2>7, <2>8, OneEventMore
  <2>11. m \in Watched => Book(m, status[m], outcome[m], isWinner[m], Append(events[m], ev))
    <3> SUFFICES ASSUME m \in Watched
                 PROVE  Book(m, status[m], outcome[m], isWinner[m], Append(events[m], ev))
      OBVIOUS
    <3> DEFINE e == Append(events[m], ev)
    <3>1. ev.type = "RESOLVED" =>
            /\ status[m] = "RESOLVED" /\ WinnerOf(m, outcome[m], isWinner[m]) = {ev.choice}
            /\ \A i \in 1..Len(events[m]) : events[m][i].type # "RESOLVED"
      BY <1>2, <2>3, <2>7, <2>9 DEF StillAccepted
    <3>2. ev.type = "CANCELLED" => status[m] = "CANCELLED"
      BY <1>2, <2>3, <2>7, <2>9 DEF StillAccepted
    <3>3. \A i \in 1..Len(e) : e[i].type = "RESOLVED" =>
            status[m] = "RESOLVED" /\ WinnerOf(m, outcome[m], isWinner[m]) = {e[i].choice}
      BY <2>9, <2>10, <3>1 DEF Book
    <3>4. \A i \in 1..Len(e) : e[i].type = "CANCELLED" => status[m] = "CANCELLED"
      BY <2>9, <2>10, <3>2 DEF Book
    <3>5. \A i, j \in 1..Len(e) : e[i].type = "RESOLVED" /\ e[j].type = "RESOLVED" => i = j
      BY <2>9, <2>10, <3>1 DEF Book
    <3> QED BY <2>9, <3>3, <3>4, <3>5 DEF Book
  <2>12. m \in Watched => Book(m, status'[m], outcome'[m], isWinner'[m], events'[m])
    BY <2>4, <2>5, <2>11
  <2>14. m \in Watched => DecidedBy(a, m) \/ NotDecidedBy(a, m)
    <3>1. CASE r.op = "resolve"
      BY <2>5, <2>13, <3>1 DEF DecidedBy
    <3>2. CASE r.op # "resolve"
      BY <2>1, <2>3, <2>4, <2>5, <2>7, <2>10, <3>2 DEF NotDecidedBy, Acting
    <3> QED BY <3>1, <3>2
  <2>21. OnlyMoves(a, m)
    BY <1>2, <2>1, <2>4, <2>5, <2>6, <2>12, <2>14 DEF OnlyMoves
  <2>22. KeepsOrder(a, m)
    BY <1>2, <2>1, <2>4, <2>5, <2>6, <2>12, <2>14 DEF KeepsOrder
  <2> QED BY <1>2, <2>1, <2>4, <2>5, <2>6, <2>12, <2>14, <2>21, <2>22, RequestSteps
<1> QED BY <1>3, <1>4 DEF Mkt!PublishMarket

(* The cron job has the say about what it has found, until it has closed it. *)
NobodyActs(m) == \A a \in Admins : ~ActsOn(a, m)

OnlyCloses(m) ==
  \/ status'[m] = status[m]
  \/ /\ status[m] = "ACTIVE" /\ status'[m] = "CLOSED"
     /\ Mkt!Closing(m)' = {} /\ NobodyActs(m)

TakesUp(m) ==
  \/ Mkt!Closing(m)' \subseteq Mkt!Closing(m)
  \/ /\ status'[m] = "ACTIVE" /\ NobodyActs(m)
     /\ \A i, j \in Mkt!Closing(m)' : i = j

AnnouncesClosed(m) ==
  \A i \in 1..Len(events'[m]) :
    \/ i \in 1..Len(events[m]) /\ events'[m][i] = events[m][i]
    \/ events'[m][i].type = "CLOSED"

LEMMA CronSteps ==
  ASSUME VerdictInv, Mkt!TypeOK', UNCHANGED <<outcome, isWinner, admin>>,
         raced \subseteq raced',
         \A m \in Mkt!AllMarkets : status[m] # "NONE" => status'[m] # "NONE",
         \A m \in Watched' : OnlyCloses(m),
         \A m \in Watched' : TakesUp(m),
         \A m \in Watched' : AnnouncesClosed(m)
  PROVE  VerdictInv'
<1>1. ASSUME NEW m \in Watched' PROVE Orderly(m)'
  <2>1. /\ m \in Mkt!AllMarkets /\ Orderly(m)
    BY DEF Watched, VerdictInv
  <2>0. /\ status'[m] = status[m]
             \/ (/\ status[m] = "ACTIVE" /\ status'[m] = "CLOSED"
                 /\ Mkt!Closing(m)' = {} /\ \A a \in Admins : ~ActsOn(a, m))
        /\ \/ Mkt!Closing(m)' \subseteq Mkt!Closing(m)
           \/ /\ status'[m] = "ACTIVE" /\ \A a \in Admins : ~ActsOn(a, m)
              /\ \A i, j \in Mkt!Closing(m)' : i = j
        /\ \A i \in 1..Len(events'[m]) :
             \/ i \in 1..Len(events[m]) /\ events'[m][i] = events[m][i]
             \/ events'[m][i].type = "CLOSED"
    BY DEF OnlyCloses, TakesUp, AnnouncesClosed, NobodyActs
  <2>2. status'[m] = status[m] \/ (status[m] = "ACTIVE" /\ status'[m] = "CLOSED")
    BY <2>0
  <2>3. Book(m, status'[m], outcome'[m], isWinner'[m], events'[m])
    <3> DEFINE e == events[m]
               f == events'[m]
    <3>1. \A i \in 1..Len(f) : f[i].type \in {"RESOLVED", "CANCELLED"} =>
            i \in 1..Len(e) /\ f[i] = e[i]
      BY <2>0
    <3>2. Book(m, status[m], outcome[m], isWinner[m], e)
      BY <2>1 DEF Orderly
    <3> HIDE DEF e, f
    <3>3. Book(m, status[m], outcome[m], isWinner[m], f)
      BY <3>1, <3>2 DEF Book
    <3>4. status[m] # status'[m] => \A i \in 1..Len(f) : f[i].type \notin {"RESOLVED", "CANCELLED"}
      BY <2>2, <3>3 DEF Book
    <3> QED BY <2>2, <3>3, <3>4 DEF Book, f
  <2>4. ASSUME NEW a \in Admins, admin[a].market = m
        PROVE  StillAccepted(admin[a], m, status'[m], outcome'[m], isWinner'[m], events'[m])
    <3>1. StillAccepted(admin[a], m, status[m], outcome[m], isWinner[m], events[m])
      BY <2>1, <2>4 DEF Orderly
    <3>2. CASE status'[m] = status[m]
      BY <2>0, <3>1, <3>2 DEF StillAccepted
    <3>3. CASE status'[m] # status[m]
      <4>1. ~Acting(admin[a]) /\ status[m] = "ACTIVE"
        BY <2>0, <2>4, <3>3 DEF ActsOn
      <4> QED BY <3>1, <4>1 DEF StillAccepted, Acting
    <3> QED BY <3>2, <3>3
  <2>5. \A a \in Admins : ActsOn(a, m)' <=> ActsOn(a, m)
    BY DEF ActsOn
  <2>6. ASSUME NEW j \in Mkt!Closing(m)'
        PROVE  /\ status'[m] = "ACTIVE" /\ \A a \in Admins : ~ActsOn(a, m)
               /\ \A i \in Mkt!Closing(m)' : i = j
    <3>1. ClosesAlone(m)
      BY <2>1 DEF Orderly
    <3>2. status'[m] = status[m] /\ Mkt!Closing(m)' # {}
      BY <2>0, <2>6
    <3>3. CASE Mkt!Closing(m)' \subseteq Mkt!Closing(m)
      <4>1. j \in Mkt!Closing(m)
        BY <2>6, <3>3
      <4>2. /\ status[m] = "ACTIVE" /\ \A a \in Admins : ~ActsOn(a, m)
            /\ \A i \in Mkt!Closing(m) : i = j
        BY <3>1, <4>1 DEF ClosesAlone
      <4> QED BY <3>2, <3>3, <4>2
    <3>4. CASE ~(Mkt!Closing(m)' \subseteq Mkt!Closing(m))
      BY <2>0, <2>6, <3>4
    <3> QED BY <3>3, <3>4
  <2>7. ClosesAlone(m)'
    BY <2>5, <2>6 DEF ClosesAlone
  <2>8. \A a, b \in Admins : ActsOn(a, m)' /\ ActsOn(b, m)' => a = b
    BY <2>1, <2>5 DEF Orderly
  <2>9. \A a \in Admins : admin'[a].market = m =>
          StillAccepted(admin'[a], m, status'[m], outcome'[m], isWinner'[m], events'[m])
    BY <2>4
  <2> QED BY <2>3, <2>7, <2>8, <2>9 DEF Orderly
<1>2. \A a \in Admins : admin[a].pc # "idle" => status'[admin[a].market] # "NONE"
  BY DEF VerdictInv, Mkt!TypeOK
<1> QED BY <1>1, <1>2 DEF VerdictInv

LEMMA MarketsRest ==
  ASSUME VerdictInv, Mkt!TypeOK',
         UNCHANGED <<status, outcome, isWinner, admin, closer, events, raced>>
  PROVE  VerdictInv'
<1>1. \A m \in Watched' : OnlyCloses(m)
  BY DEF OnlyCloses
<1>2. \A m \in Watched' : TakesUp(m)
  BY DEF TakesUp, Mkt!Closing
<1>3. \A m \in Watched' : AnnouncesClosed(m)
  BY DEF AnnouncesClosed
<1> QED BY <1>1, <1>2, <1>3, CronSteps

LEMMA DeadlineVerdict ==
  ASSUME VerdictInv, NEW m \in Mkt!AllMarkets, Mkt!PassDeadline(m)
  PROVE  VerdictInv'
<1>1. Mkt!TypeOK'
  BY DEF VerdictInv, Mkt!PassDeadline, Mkt!TypeOK, Mkt!rows
<1>2. UNCHANGED <<status, outcome, isWinner, admin, closer, events, raced>>
  BY DEF Mkt!PassDeadline, Mkt!rows
<1> QED BY <1>1, <1>2, MarketsRest

LEMMA AutoCloseVerdict == ASSUME VerdictInv, NEW j \in Crons, Mkt!AutoClose(j) PROVE VerdictInv'
<1>1. /\ Mkt!TypeOK /\ closer \in [Crons -> CronRecord]
  BY DEF VerdictInv, Mkt!TypeOK, CronRecord
<1>2. ASSUME NEW pc \in {"idle", "update", "publish"}, NEW found \in SUBSET Mkt!AllMarkets,
             Mkt!SetCron(j, pc, found)
      PROVE  /\ closer' \in [Crons -> CronRecord]
             /\ closer'[j].pc = pc /\ closer'[j].found = found
             /\ \A i \in Crons \ {j} : closer'[i] = closer[i]
  <2> DEFINE k == [pc |-> pc, found |-> found]
  <2>1. k \in CronRecord /\ k.found = found /\ k.pc = pc
    BY DEF CronRecord
  <2>2. closer' = [closer EXCEPT ![j] = k]
    BY <1>2 DEF Mkt!SetCron
  <2> HIDE DEF k
  <2> QED BY <1>1, <2>1, <2>2
<1>3. closer[j].found \in SUBSET Mkt!AllMarkets
  BY <1>1 DEF CronRecord
<1>4. CASE Mkt!FindExpired(j)
  <2>1. Mkt!Expired \in SUBSET Mkt!AllMarkets
    BY <1>1 DEF Mkt!Expired, Mkt!TypeOK
  <2>2. /\ closer' \in [Crons -> CronRecord]
        /\ closer'[j].pc = "update" /\ closer'[j].found = Mkt!Expired
        /\ \A i \in Crons \ {j} : closer'[i] = closer[i]
    BY <1>2, <1>4, <2>1 DEF Mkt!FindExpired
  <2>3. /\ UNCHANGED <<status, outcome, isWinner, expired, admin, events, requests>>
        /\ raced' = raced \cup {m \in Mkt!Expired : Mkt!Contested(m)}
    BY <1>4 DEF Mkt!FindExpired, Mkt!rows
  <2>4. Mkt!TypeOK'
    BY <1>1, <2>1, <2>2, <2>3 DEF Mkt!TypeOK, CronRecord
  <2>5. ASSUME NEW m \in Watched', m \notin Mkt!Expired
        PROVE  Mkt!Closing(m)' \subseteq Mkt!Closing(m)
    BY <2>2, <2>5 DEF Mkt!Closing
  <2>6. ASSUME NEW m \in Watched', m \in Mkt!Expired
        PROVE  /\ status[m] = "ACTIVE" /\ \A a \in Admins : ~ActsOn(a, m)
               /\ \A h, i \in Mkt!Closing(m)' : h = i
    <3>1. ~Mkt!Contested(m) /\ status[m] = "ACTIVE" /\ Orderly(m)
      BY <2>3, <2>6 DEF Watched, VerdictInv, Mkt!Expired
    <3>2. Mkt!Closing(m)' \subseteq {j}
      BY <2>2, <3>1 DEF Mkt!Contested, Mkt!Closing
    <3>3. ASSUME NEW a \in Admins, ActsOn(a, m) PROVE FALSE
      <4>1. admin[a].market = m /\ admin[a].pc = "publish" /\ admin[a].op = "resolve"
        BY <3>1, <3>3 DEF ActsOn, Acting, Mkt!Contested, Mkt!Deciding
      <4> QED BY <3>1, <4>1 DEF Orderly, StillAccepted
    <3> QED BY <3>1, <3>2, <3>3
  <2>7. \A m \in Watched' : TakesUp(m)
    BY <2>3, <2>5, <2>6 DEF TakesUp, NobodyActs
  <2>8. \A m \in Watched' : OnlyCloses(m)
    BY <2>3 DEF OnlyCloses
  <2>9. \A m \in Watched' : AnnouncesClosed(m)
    BY <2>3 DEF AnnouncesClosed
  <2>10. raced \subseteq raced' /\ UNCHANGED <<outcome, isWinner, admin>>
    BY <2>3
  <2>11. \A m \in Mkt!AllMarkets : status[m] # "NONE" => status'[m] # "NONE"
    BY <2>3
  <2> QED BY <2>4, <2>7, <2>8, <2>9, <2>10, <2>11, CronSteps
<1>5. CASE Mkt!CloseExpired(j)
  <2>1. /\ closer' \in [Crons -> CronRecord]
        /\ closer'[j].pc = "publish"
        /\ \A i \in Crons \ {j} : closer'[i] = closer[i]
    BY <1>2, <1>3, <1>5 DEF Mkt!CloseExpired
  <2>2. /\ UNCHANGED <<outcome, isWinner, expired, admin, events, requests, raced>>
        /\ closer[j].pc = "update"
        /\ status' = [m \in Mkt!AllMarkets |->
                        IF m \in closer[j].found THEN "CLOSED" ELSE status[m]]
    BY <1>5 DEF Mkt!CloseExpired
  <2>3. /\ status' \in [Mkt!AllMarkets -> Mkt!Statuses \cup {"NONE"}]
        /\ \A m \in Mkt!AllMarkets : status[m] # "NONE" => status'[m] # "NONE"
    BY <1>1, <2>2 DEF Mkt!TypeOK, Mkt!Statuses
  <2>4. Mkt!TypeOK'
    BY <1>1, <2>1, <2>2, <2>3 DEF Mkt!TypeOK, CronRecord
  <2>5. \A m \in Watched' : Mkt!Closing(m)' \subseteq Mkt!Closing(m) \ {j}
    BY <2>1 DEF Mkt!Closing
  <2>6. ASSUME NEW m \in Watched', status'[m] # status[m]
        PROVE  /\ status[m] = "ACTIVE" /\ status'[m] = "CLOSED" /\ Mkt!Closing(m)' = {}
               /\ \A a \in Admins : ~ActsOn(a, m)
    <3>1. m \in Mkt!AllMarkets /\ Orderly(m)
      BY <2>2 DEF Watched, VerdictInv
    <3>2. m \in closer[j].found /\ status'[m] = "CLOSED"
      BY <2>2, <2>6, <3>1
    <3>3. j \in Mkt!Closing(m)
      BY <2>2, <3>2 DEF Mkt!Closing
    <3>4. /\ status[m] = "ACTIVE" /\ \A a \in Admins : ~ActsOn(a, m)
          /\ \A i \in Mkt!Closing(m) : i = j
      BY <3>1, <3>3 DEF Orderly, ClosesAlone
    <3>5. Mkt!Closing(m)' = {}
      BY <2>5, <3>4
    <3> QED BY <3>2, <3>4, <3>5
  <2>7. \A m \in Watched' : TakesUp(m)
    BY <2>5 DEF TakesUp
  <2>8. \A m \in Watched' : OnlyCloses(m)
    BY <2>6 DEF OnlyCloses, NobodyActs
  <2>9. \A m \in Watched' : AnnouncesClosed(m)
    BY <2>2 DEF AnnouncesClosed
  <2>10. raced \subseteq raced' /\ UNCHANGED <<outcome, isWinner, admin>>
    BY <2>2
  <2> QED BY <2>3, <2>4, <2>7, <2>8, <2>9, <2>10, CronSteps
<1>6. CASE Mkt!PublishClosed(j)
  <2>1. /\ closer' \in [Crons -> CronRecord]
        /\ closer'[j].pc = "idle"
        /\ \A i \in Crons \ {j} : closer'[i] = closer[i]
    BY <1>2, <1>6 DEF Mkt!PublishClosed
  <2>2. UNCHANGED <<status, outcome, isWinner, expired, admin, requests, raced>>
    BY <1>6 DEF Mkt!PublishClosed, Mkt!rows
  <2>3. /\ Mkt!Closed \in Mkt!Event /\ Mkt!Closed.type = "CLOSED"
    BY DEF Mkt!Closed, Mkt!Event, Mkt!Choices
  <2>4. /\ events' \in [Mkt!AllMarkets -> Seq(Mkt!Event)]
        /\ \A m \in Mkt!AllMarkets : \A i \in 1..Len(events'[m]) :
             \/ i \in 1..Len(events[m]) /\ events'[m][i] = events[m][i]
             \/ events'[m][i].type = "CLOSED"
    <3>1. CASE UNCHANGED events
      BY <1>1, <3>1 DEF Mkt!TypeOK
    <3>2. CASE events' = [m \in Mkt!AllMarkets |-> IF m \in closer[j].found
                            THEN Append(events[m], Mkt!Closed) ELSE events[m]]
      <4>1. \A m \in Mkt!AllMarkets : events[m] \in Seq(Mkt!Event)
        BY <1>1 DEF Mkt!TypeOK
      <4>2. ASSUME NEW m \in Mkt!AllMarkets
            PROVE  /\ Append(events[m], Mkt!Closed) \in Seq(Mkt!Event)
                   /\ \A i \in 1..Len(Append(events[m], Mkt!Closed)) :
                        \/ i \in 1..Len(events[m])
                              /\ Append(events[m], Mkt!Closed)[i] = events[m][i]
                        \/ i = Len(events[m]) + 1
                              /\ Append(events[m], Mkt!Closed)[i] = Mkt!Closed
        BY <2>3, <4>1, OneEventMore
      <4> QED BY <2>3, <3>2, <4>1, <4>2
    <3> QED BY <1>6, <3>1, <3>2 DEF Mkt!PublishClosed
  <2>5. Mkt!TypeOK'
    BY <1>1, <2>1, <2>2, <2>4 DEF Mkt!TypeOK, CronRecord
  <2>6. \A m \in Watched' : Mkt!Closing(m)' \subseteq Mkt!Closing(m) /\ m \in Mkt!AllMarkets
    BY <2>1 DEF Mkt!Closing, Watched
  <2>7. \A m \in Watched' : TakesUp(m)
    BY <2>6 DEF TakesUp
  <2>8. \A m \in Watched' : OnlyCloses(m)
    BY <2>2 DEF OnlyCloses
  <2>9. \A m \in Watched' : AnnouncesClosed(m)
    BY <2>4, <2>6 DEF AnnouncesClosed
  <2>10. raced \subseteq raced' /\ UNCHANGED <<outcome, isWinner, admin>>
    BY <2>2
  <2>11. \A m \in Mkt!AllMarkets : status[m] # "NONE" => status'[m] # "NONE"
    BY <2>2
  <2> QED BY <2>5, <2>7, <2>8, <2>9, <2>10, <2>11, CronSteps
<1> QED BY <1>4, <1>5, <1>6 DEF Mkt!AutoClose

LEMMA NextVerdict == VerdictInv /\ [Mkt!Next]_Mkt!vars => VerdictInv'
<1> SUFFICES ASSUME VerdictInv, [Mkt!Next]_Mkt!vars PROVE VerdictInv'
  OBVIOUS
<1>1. CASE UNCHANGED Mkt!vars
  <2>1. /\ UNCHANGED <<status, outcome, isWinner, expired, admin, closer, events, requests, raced>>
    BY <1>1 DEF Mkt!vars
  <2>2. Mkt!TypeOK'
    BY <2>1 DEF VerdictInv, Mkt!TypeOK
  <2> QED BY <2>1, <2>2, MarketsRest
<1>2. ASSUME NEW a \in Admins, Mkt!Crash(a) PROVE VerdictInv'
  BY <1>2, EndVerdict DEF Mkt!Crash
<1> QED BY <1>1, <1>2, DeadlineVerdict, CreateVerdict, ReceiveVerdict, FindVerdict,
           ClearVerdict, FlagVerdict,
           UpdateVerdict, PublishVerdict, AutoCloseVerdict DEF Mkt!Next, Mkt!Serve

(* The inductive invariant: where none was accepted while another was       *)
(* deciding, requests and the cron job find the market in the status that   *)
(* they were accepted for, and what is announced is what is on record.      *)
THEOREM MarketInvariant == Spec => []VerdictInv
BY InitVerdict, NextVerdict, MarketBehaves, PTL

LEMMA OnceOfVerdict == VerdictInv => Mkt!OneVerdict
<1> SUFFICES ASSUME VerdictInv, NEW m \in Mkt!AllMarkets \ raced
             PROVE  /\ Mkt!Times(m, "RESOLVED") <= 1
                    /\ Mkt!Times(m, "RESOLVED") = 0 \/ Mkt!Times(m, "CANCELLED") = 0
  BY DEF Mkt!OneVerdict
<1> DEFINE Of(type) == {i \in 1..Len(events[m]) : events[m][i].type = type}
<1>1. Book(m, status[m], outcome[m], isWinner[m], events[m])
  BY DEF VerdictInv, Orderly, Watched
<1>2. \A i, j \in Of("RESOLVED") : i = j
  BY <1>1 DEF Book
<1>3. Of("RESOLVED") = {} \/ \E i : Of("RESOLVED") = {i}
  BY <1>2
<1>4. Of("RESOLVED") = {} \/ Of("CANCELLED") = {}
  BY <1>1 DEF Book
<1>5. Cardinality(Of("RESOLVED")) \in {0, 1}
  BY <1>3, FS_EmptySet, FS_Singleton
<1>6. Cardinality(Of("RESOLVED")) = 0 \/ Cardinality(Of("CANCELLED")) = 0
  BY <1>4, FS_EmptySet
<1> QED BY <1>5, <1>6, MktCardinality DEF Mkt!Times

LEMMA WinnerOfVerdict == VerdictInv => Mkt!OneWinner
<1> SUFFICES ASSUME VerdictInv, NEW m \in Mkt!AllMarkets \ raced
             PROVE  /\ Mkt!getMarket(m).status = "RESOLVED" =>
                         Cardinality(Mkt!WinnerOnRecord(m)) = 1
                    /\ \A i \in 1..Len(events[m]) : events[m][i].type = "RESOLVED" =>
                         Mkt!WinnerOnRecord(m) = {events[m][i].choice}
  BY MktCardinality DEF Mkt!OneWinner
<1>1. Book(m, status[m], outcome[m], isWinner[m], events[m])
  BY DEF VerdictInv, Orderly, Watched
<1>2. Mkt!WinnerOnRecord(m) = WinnerOf(m, outcome[m], isWinner[m])
        /\ Mkt!getMarket(m).status = status[m]
  BY DEF Mkt!WinnerOnRecord, WinnerOf, Mkt!getMarket
<1>3. \A x : Cardinality({x}) = 1
  BY FS_Singleton
<1> QED BY <1>1, <1>2, <1>3 DEF Book

(* A market is resolved at most once and never both resolved and cancelled, *)
(* and a resolved market has one winner on record, the one announced: for   *)
(* any number of markets, options, admins and runs of the cron job, before  *)
(* the deadline and after it, wherever none of them was accepted while      *)
(* another was between its read and its write.                              *)
THEOREM OneVerdictOneWinnerHolds == Spec => []OneVerdictOneWinner
<1>1. VerdictInv => OneVerdictOneWinner
  BY OnceOfVerdict, WinnerOfVerdict DEF OneVerdictOneWinner, Mkt!OneVerdictOneWinner
<1> QED BY <1>1, MarketInvariant, PTL

(* Nothing but cancelling a cancelled market once more is accepted. *)
HasVerdict(m) == status[m] \in {"RESOLVED", "CANCELLED"}

LEMMA UnchallengedVerdict ==
  ASSUME VerdictInv, NEW m \in Mkt!AllMarkets, Mkt!HasFinalVerdict(m)
  PROVE  HasVerdict(m) /\ ~Mkt!Challenged(m)
<1>1. CASE m \in raced
  BY <1>1 DEF Mkt!HasFinalVerdict, HasVerdict
<1>2. CASE m \notin raced
  <2>1. Orderly(m) /\ HasVerdict(m)
    BY <1>2 DEF VerdictInv, Watched, Mkt!HasFinalVerdict, HasVerdict
  <2>2. Mkt!Closing(m) = {}
    BY <2>1 DEF Orderly, ClosesAlone, HasVerdict
  <2>3. ASSUME NEW a \in Mkt!Deciding(m) PROVE Mkt!Allowed(admin[a].op, status[m])
    <3>1. a \in Admins /\ admin[a].market = m /\ admin[a].pc \in {"clear", "flag", "update"}
      BY DEF Mkt!Deciding
    <3> QED BY <2>1, <3>1 DEF Orderly, StillAccepted
  <2> QED BY <2>1, <2>2, <2>3 DEF Mkt!Challenged
<1> QED BY <1>1, <1>2

LEMMA OnlyRepeats ==
  ASSUME VerdictInv, NEW m \in Mkt!AllMarkets, HasVerdict(m), NEW a \in Admins,
         admin[a].pc \in {"find", "clear", "flag", "update"}, Mkt!Allowed(admin[a].op, status[m])
  PROVE  admin[a].op = "cancel" /\ status[m] = "CANCELLED" /\ admin[a].pc \in {"find", "update"}
<1>1. ValidRequest(admin[a]) /\ admin[a].op \in Mkt!Ops
  BY DEF VerdictInv, ValidRequest
<1>2. admin[a].op = "cancel" /\ status[m] # "RESOLVED"
  BY <1>1 DEF Mkt!Allowed, Mkt!Ops, HasVerdict
<1> QED BY <1>1, <1>2 DEF ValidRequest, HasVerdict

(* The status and the winner stay, ... *)
LEMMA VerdictStays ==
  ASSUME VerdictInv, Mkt!Next, NEW m \in Mkt!AllMarkets, HasVerdict(m), ~Mkt!Challenged(m)
  PROVE  /\ status'[m] = status[m]
         /\ status[m] = "RESOLVED" => outcome'[m] = outcome[m] /\ isWinner'[m] = isWinner[m]
<1>1. Mkt!TypeOK
  BY DEF VerdictInv
<1>2. CASE UNCHANGED Mkt!rows
  BY <1>2 DEF Mkt!rows
<1>3. ASSUME NEW a \in Admins, Mkt!CreateMarket(a)
      PROVE  status'[m] = status[m] /\ UNCHANGED <<outcome, isWinner>>
  BY <1>1, <1>3 DEF Mkt!CreateMarket, Mkt!TypeOK, HasVerdict
<1>4. ASSUME NEW a \in Admins, Mkt!ClearWinners(a) \/ Mkt!FlagWinner(a) \/ Mkt!UpdateMarket(a),
             admin[a].market # m
      PROVE  status'[m] = status[m] /\ outcome'[m] = outcome[m] /\ isWinner'[m] = isWinner[m]
  BY <1>1, <1>4 DEF Mkt!ClearWinners, Mkt!FlagWinner, Mkt!UpdateMarket, Mkt!TypeOK
<1>5. ASSUME NEW a \in Admins, admin[a].market = m, admin[a].pc \in {"clear", "flag", "update"}
      PROVE  /\ admin[a].pc = "update" /\ admin[a].op = "cancel"
             /\ status[m] = "CANCELLED"
  <2>1. Mkt!Allowed(admin[a].op, status[m])
    BY <1>5 DEF Mkt!Challenged, Mkt!Deciding
  <2> QED BY <1>5, <2>1, OnlyRepeats
<1>6. ASSUME NEW a \in Admins, Mkt!ClearWinners(a) \/ Mkt!FlagWinner(a) \/ Mkt!UpdateMarket(a),
             admin[a].market = m
      PROVE  status'[m] = status[m] /\ status[m] # "RESOLVED"
  <2>1. Mkt!UpdateMarket(a) /\ admin[a].op = "cancel" /\ status[m] = "CANCELLED"
    BY <1>5, <1>6 DEF Mkt!ClearWinners, Mkt!FlagWinner, Mkt!UpdateMarket
  <2>2. Mkt!Target("cancel") = "CANCELLED"
    BY DEF Mkt!Target
  <2> QED BY <1>1, <1>6, <2>1, <2>2 DEF Mkt!UpdateMarket, Mkt!TypeOK
<1>7. ASSUME NEW j \in Crons, Mkt!CloseExpired(j)
      PROVE  status'[m] = status[m] /\ UNCHANGED <<outcome, isWinner>>
  <2>1. m \notin closer[j].found
    BY <1>7 DEF Mkt!CloseExpired, Mkt!Challenged, Mkt!Closing
  <2> QED BY <1>7, <2>1 DEF Mkt!CloseExpired
<1> QED BY <1>2, <1>3, <1>4, <1>6, <1>7
        DEF Mkt!Next, Mkt!PassDeadline, Mkt!Receive, Mkt!Serve, Mkt!FindMarket,
            Mkt!PublishMarket, Mkt!Crash,
            Mkt!AutoClose, Mkt!FindExpired, Mkt!PublishClosed

(* ... and nobody new is accepted who could change them: neither by a      *)
(* step of request a, ...                                                  *)
LEMMA RequestsDoNotChallenge ==
  ASSUME VerdictInv, NEW m \in Mkt!AllMarkets, HasVerdict(m), ~Mkt!Challenged(m),
         NEW a \in Admins, UNCHANGED closer, status'[m] = status[m],
         \A b \in Admins \ {a} : admin'[b] = admin[b],
         a \in Mkt!Deciding(m)' => Mkt!Allowed(admin'[a].op, status[m])
  PROVE  ~Mkt!Challenged(m)'
<1>1. Mkt!Closing(m)' = {}
  BY DEF Mkt!Challenged, Mkt!Closing
<1>2. ASSUME NEW b \in Mkt!Deciding(m)' PROVE Mkt!Allowed(admin'[b].op, status[m])
  <2>1. CASE b = a
    BY <1>2, <2>1
  <2>2. CASE b # a
    <3>1. b \in Admins /\ admin'[b] = admin[b] /\ b \in Mkt!Deciding(m)
      BY <1>2, <2>2 DEF Mkt!Deciding
    <3> QED BY <3>1 DEF Mkt!Challenged
  <2> QED BY <2>1, <2>2
<1> QED BY <1>1, <1>2 DEF Mkt!Challenged, Mkt!Allowed

LEMMA ServingDoesNotChallenge ==
  ASSUME VerdictInv, NEW m \in Mkt!AllMarkets, HasVerdict(m), ~Mkt!Challenged(m),
         NEW a \in Admins,
         Mkt!CreateMarket(a) \/ Mkt!Receive(a) \/ Mkt!Serve(a) \/ Mkt!Crash(a),
         status'[m] = status[m]
  PROVE  ~Mkt!Challenged(m)'
<1> DEFINE r == admin[a]
<1>1. Mkt!TypeOK /\ admin \in [Admins -> AdminRecord]
  BY DEF VerdictInv, Mkt!TypeOK, AdminRecord, AdminPC
<1>2. UNCHANGED closer
  BY DEF Mkt!CreateMarket, Mkt!Receive, Mkt!Serve, Mkt!Crash, Mkt!FindMarket,
         Mkt!ClearWinners, Mkt!FlagWinner, Mkt!UpdateMarket, Mkt!PublishMarket
<1>3. CASE Mkt!End(a)
  <2>1. admin'[a].pc = "idle" /\ \A b \in Admins \ {a} : admin'[b] = admin[b]
    BY <1>1, <1>3, RequestEnds
  <2>2. a \notin Mkt!Deciding(m)'
    BY <2>1 DEF Mkt!Deciding
  <2> QED BY <1>2, <2>1, <2>2, RequestsDoNotChallenge
<1>4. CASE Mkt!CreateMarket(a) \/ Mkt!Receive(a)
  <2>1. PICK op \in Mkt!Ops \cup {"create"}, n \in Mkt!AllMarkets, c \in Mkt!Choices,
             pc \in {"find", "publish"} :
          admin' = [admin EXCEPT ![a] = Mkt!Request(op, n, c, pc)]
    BY <1>4 DEF Mkt!CreateMarket, Mkt!Receive, Mkt!Choices
  <2> DEFINE k == Mkt!Request(op, n, c, pc)
  <2>2. k.pc = pc
    BY DEF Mkt!Request
  <2> HIDE DEF k
  <2>3. admin'[a] = k /\ \A b \in Admins \ {a} : admin'[b] = admin[b]
    BY <1>1, <2>1 DEF k
  <2>4. a \notin Mkt!Deciding(m)'
    BY <2>2, <2>3 DEF Mkt!Deciding
  <2> QED BY <1>2, <2>3, <2>4, RequestsDoNotChallenge
<1>5. CASE Mkt!Serve(a) /\ ~Mkt!End(a)
  <2>1. PICK pc \in {"clear", "flag", "update", "publish"} : Mkt!Goto(a, pc)
    BY <1>5 DEF Mkt!Serve, Mkt!FindMarket, Mkt!ClearWinners, Mkt!FlagWinner,
                Mkt!UpdateMarket, Mkt!PublishMarket
  <2>2. /\ admin'[a].op = r.op /\ admin'[a].market = r.market
        /\ \A b \in Admins \ {a} : admin'[b] = admin[b]
    BY <1>1, <2>1, RequestGoes DEF AdminPC
  <2>3. CASE Mkt!FindMarket(a)
    <3>1. Mkt!Allowed(r.op, status[r.market])
      BY <1>5, <2>3 DEF Mkt!FindMarket
    <3>2. a \in Mkt!Deciding(m)' => Mkt!Allowed(admin'[a].op, status[m])
      BY <2>2, <3>1 DEF Mkt!Deciding
    <3> QED BY <1>2, <2>2, <3>2, RequestsDoNotChallenge
  <2>4. CASE ~Mkt!FindMarket(a)
    <3>1. r.pc \in {"clear", "flag", "update", "publish"}
            /\ (r.pc = "publish" => Mkt!End(a))
      BY <1>5, <2>4 DEF Mkt!Serve, Mkt!ClearWinners, Mkt!FlagWinner, Mkt!UpdateMarket,
                        Mkt!PublishMarket
    <3>2. r.market = m => a \in Mkt!Deciding(m)
      BY <1>5, <3>1 DEF Mkt!Deciding
    <3>3. a \in Mkt!Deciding(m)' => Mkt!Allowed(admin'[a].op, status[m])
      BY <2>2, <3>2 DEF Mkt!Deciding, Mkt!Challenged
    <3> QED BY <1>2, <2>2, <3>3, RequestsDoNotChallenge
  <2> QED BY <2>3, <2>4
<1> QED BY <1>3, <1>4, <1>5 DEF Mkt!Crash

(* ... nor by the cron job. *)
LEMMA ClosingDoesNotChallenge ==
  ASSUME VerdictInv, NEW m \in Mkt!AllMarkets, HasVerdict(m), ~Mkt!Challenged(m),
         NEW j \in Crons, Mkt!AutoClose(j), status'[m] = status[m]
  PROVE  ~Mkt!Challenged(m)'
<1>1. closer \in [Crons -> CronRecord]
  BY DEF VerdictInv, Mkt!TypeOK, CronRecord
<1>2. UNCHANGED admin
  BY DEF Mkt!AutoClose, Mkt!FindExpired, Mkt!CloseExpired, Mkt!PublishClosed
<1>10. closer[j].found \in SUBSET Mkt!AllMarkets /\ Mkt!Expired \in SUBSET Mkt!AllMarkets
  BY <1>1 DEF CronRecord, VerdictInv, Mkt!TypeOK, Mkt!Expired
<1>3. PICK pc \in {"idle", "update", "publish"}, found \in SUBSET Mkt!AllMarkets :
        /\ Mkt!SetCron(j, pc, found)
        /\ pc = "update" => found = Mkt!Expired
  BY <1>10 DEF Mkt!AutoClose, Mkt!FindExpired, Mkt!CloseExpired, Mkt!PublishClosed
<1>4. /\ closer'[j] = [pc |-> pc, found |-> found]
      /\ \A i \in Crons \ {j} : closer'[i] = closer[i]
  BY <1>1, <1>3 DEF Mkt!SetCron
<1>5. m \notin Mkt!Expired
  BY DEF Mkt!Expired, HasVerdict
<1>6. j \notin Mkt!Closing(m)'
  BY <1>3, <1>4, <1>5 DEF Mkt!Closing
<1>7. Mkt!Closing(m)' = {}
  BY <1>4, <1>6 DEF Mkt!Closing, Mkt!Challenged
<1>8. Mkt!Deciding(m)' = Mkt!Deciding(m)
  BY <1>2 DEF Mkt!Deciding
<1>9. \A a \in Mkt!Deciding(m) : Mkt!Allowed(admin'[a].op, status'[m])
  BY <1>2 DEF Mkt!Challenged
<1> QED BY <1>7, <1>8, <1>9 DEF Mkt!Challenged, Mkt!Allowed

LEMMA VerdictStep ==
  ASSUME VerdictInv, Mkt!Next, NEW m \in Mkt!AllMarkets, Mkt!HasFinalVerdict(m)
  PROVE  /\ ~Mkt!Challenged(m)'
         /\ status'[m] = status[m]
         /\ status[m] = "RESOLVED" => outcome'[m] = outcome[m] /\ isWinner'[m] = isWinner[m]
<1>1. HasVerdict(m) /\ ~Mkt!Challenged(m)
  BY UnchallengedVerdict
<1>2. /\ status'[m] = status[m]
      /\ status[m] = "RESOLVED" => outcome'[m] = outcome[m] /\ isWinner'[m] = isWinner[m]
  BY <1>1, VerdictStays
<1>3. ASSUME NEW n \in Mkt!AllMarkets, Mkt!PassDeadline(n) PROVE ~Mkt!Challenged(m)'
  <2>1. UNCHANGED <<status, admin, closer>>
    BY <1>3 DEF Mkt!PassDeadline, Mkt!rows
  <2> QED BY <1>1, <2>1 DEF Mkt!Challenged, Mkt!Closing, Mkt!Deciding, Mkt!Allowed
<1>4. ~Mkt!Challenged(m)'
  BY <1>1, <1>2, <1>3, ServingDoesNotChallenge, ClosingDoesNotChallenge DEF Mkt!Next
<1> QED BY <1>2, <1>4

(* A verdict is final: on a market where admins and the cron job did not    *)
(* race nothing changes the status of a resolved or cancelled market, nor   *)
(* its winner, and on one where they did nothing does once those accepted   *)
(* before the verdict are through.  For any number of admins, requests and  *)
(* runs of the cron job, before the deadline and after it.                  *)
THEOREM VerdictIsFinalHolds == Spec => VerdictIsFinal
<1> DEFINE A == \A m \in Mkt!AllMarkets : Mkt!HasFinalVerdict(m) =>
                  /\ ~Mkt!Challenged(m)'
                  /\ status'[m] = status[m]
                  /\ status[m] = "RESOLVED" =>
                       outcome'[m] = outcome[m] /\ isWinner'[m] = isWinner[m]
<1>1. VerdictInv /\ [Mkt!Next]_Mkt!vars => [A]_Mkt!vars
  BY VerdictStep
<1>2. Spec => [][A]_Mkt!vars
  <2> HIDE DEF A
  <2> QED BY <1>1, MarketInvariant, MarketBehaves, PTL
<1> QED BY <1>2 DEF VerdictIsFinal, Mkt!VerdictIsFinal
-----------------------------------------------------------------------------
(* Types.                                                                  *)

(* The tables, handlers, messages and views of the five services have      *)
(* their types in every reachable state.                                   *)
THEOREM TypeCorrect == Spec => []TypeOK
<1> DEFINE Busy == busy \in Parts
<1>1. Init => Busy
  BY DEF Init
<1>2. Busy /\ [Next]_vars => Busy'
  BY DEF Next, vars, AccountsStep, AnalyticsStep, CommentsStep, NotificationsStep, MarketStep
<1>3. Spec => []Busy
  BY <1>1, <1>2, PTL DEF Spec
<1>4. Busy /\ StageInv /\ BoardInv /\ ThreadInv /\ BellInv /\ VerdictInv => TypeOK
  BY DEF TypeOK, StageInv, BoardInv, ThreadInv, BellInv, VerdictInv
<1>5. Spec => []StageInv
  BY StageInvariant, AccountsBehave, PTL
<1> HIDE DEF Busy
<1> QED BY <1>3, <1>4, <1>5, BoardInvariant, ThreadInvariant, BellInvariant,
           MarketInvariant, PTL
=============================================================================
