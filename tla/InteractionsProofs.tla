--------------------------- MODULE InteractionsProofs ---------------------------
(***************************************************************************)
(* What the board calls answered has been answered in Codex, where requests   *)
(* and messages are told apart.                                                 *)
(*                                                                         *)
(* What Codex has closed and what it was replied only grows (Grows), so what     *)
(* the board, the events under way and the users have seen of it stays true.    *)
(* The board records a history by a recursive function; that it is sound is    *)
(* shown by the least of the entries after which it is not (NatMin).            *)
(***************************************************************************)
EXTENDS Interactions, NaturalsInduction, WellFoundedInduction, TLAPS

\* The user interface tells a request from a message.
Apart == Requests \cap Messages = {}

Ev == [kind : {"request", "resolved", "ask", "reply"}, item : Items, parts : SUBSET Parts]
RowRec == [status : {"none", "pending", "resolved", "canceled"}, given : SUBSET Parts]

CodexFields == {"history", "open", "made", "cast"}
LinkFields == {"up", "registered", "events", "known"}
BoardFields == {"row", "waits", "queued", "dropped", "late", "read", "over"}

CodexOK(c) ==
  /\ DOMAIN c = CodexFields
  /\ c.history \in Seq(Ev) /\ c.open \subseteq c.made
  /\ \A k \in 1..Len(c.history) : c.history[k].kind \in {"ask", "reply"}
  /\ \A k \in 1..Len(c.history) : c.history[k].item \in Messages

\* The question m has its answers, or they are in the queue, or have been dropped from it.
Settled(c, queued, dropped, m) == Replied(c.history, m) = Parts \/ m \in queued \cup dropped

\* What is recorded of x is true: replies that were given, an answer that was.
Fits(x, r, c, queued, dropped) ==
  /\ r \in RowRec
  /\ x \in Messages => r.given \subseteq Replied(c.history, x)
  /\ r.status = "resolved" =>
       IF x \in Requests THEN x \in c.made \ c.open ELSE Settled(c, queued, dropped, x)

\* The queue has one place, and what is given up was answered once.
QueueOK(b, c) ==
  /\ b.queued \subseteq Messages /\ b.dropped \subseteq Messages
  /\ \A m, n \in b.queued : m = n
  /\ b.late \subseteq Items /\ b.late \cap Requests \subseteq c.made

BoardOK(b, c) ==
  /\ DOMAIN b = BoardFields /\ DOMAIN b.row = Items /\ QueueOK(b, c)
  /\ b.read \in Nat /\ b.read <= Len(c.history)
  /\ \A x \in Items : Fits(x, b.row[x], c, b.queued, b.dropped)

\* What an event says is true.
Truthful(c, e) ==
  /\ e \in Ev
  /\ e.kind = "request" => e.item \in Requests \cap c.made
  /\ e.kind = "resolved" => e.item \in Requests \cap (c.made \ c.open)
  /\ e.kind \in {"ask", "reply"} => e.item \in Messages
  /\ e.kind = "reply" => e.parts \subseteq Replied(c.history, e.item)

LinkOK(l, c) ==
  /\ DOMAIN l = LinkFields /\ l.known \subseteq c.made /\ l.events \in Seq(Ev)
  /\ \A k \in 1..Len(l.events) : Truthful(c, l.events[k])

\* What a user is answering has been asked, and is answered when it is sent.
UserOK(a, c, queued, dropped) ==
  /\ DOMAIN a = {"pc", "item", "seen"} /\ a.pc \in {"idle", "send", "sent"}
  /\ a.pc # "idle" => a.item \in Items
  /\ a.pc # "idle" /\ a.item \in Requests => a.item \in c.made
  /\ a.pc = "sent" /\ a.item \in Requests => a.item \in c.made \ c.open
  /\ a.pc = "sent" /\ a.item \in Messages => Settled(c, queued, dropped, a.item)

Agreed ==
  /\ CodexOK(codex) /\ BoardOK(board, codex) /\ LinkOK(link, codex)
  /\ DOMAIN user = Users
  /\ \A u \in Users : UserOK(user[u], codex, board.queued, board.dropped)

\* Codex closes no request again, and forgets no reply.
Grows(c, d) ==
  /\ c.made \subseteq d.made /\ c.made \ c.open \subseteq d.made \ d.open
  /\ Len(c.history) <= Len(d.history)
  /\ \A m \in Messages : /\ Replied(c.history, m) \subseteq Replied(d.history, m)
                         /\ Replied(c.history, m) = Parts => Replied(d.history, m) = Parts
-----------------------------------------------------------------------------
(* Replies and histories.                                                  *)

LEMMA NatMin ==
  ASSUME NEW T \in SUBSET Nat, T # {}
  PROVE  \E n \in T : \A m \in T : n <= m
<1> DEFINE R == OpToRel(<, Nat)
<1>1. IsWellFoundedOn(R, Nat)
  BY NatLessThanWellFounded
<1>2. \A x, y \in Nat : y < x => <<y, x>> \in R
  BY DEF OpToRel
<1> HIDE DEF R
<1>3. PICK n \in T : \A y \in T : ~(<<y, n>> \in R)
  BY <1>1, WFMin
<1>4. \A m \in T : ~(m < n)
  BY <1>2, <1>3
<1> QED BY <1>3, <1>4

\* What has been replied is made of the parts of the questions.
LEMMA RepliedParts ==
  ASSUME NEW h \in Seq(Ev), NEW m
  PROVE  Replied(h, m) \subseteq Parts
<1>1. \A k \in 1..Len(h) : h[k].parts \subseteq Parts
  <2> TAKE k \in 1..Len(h)
  <2>1. h[k] \in Ev
    OBVIOUS
  <2> QED BY <2>1 DEF Ev
<1> QED BY <1>1 DEF Replied

LEMMA RepliedIs ==
  ASSUME NEW h, NEW m, NEW part
  PROVE  part \in Replied(h, m) <=>
           \E k \in 1..Len(h) : h[k].kind = "reply" /\ h[k].item = m /\ part \in h[k].parts
BY DEF Replied

\* g is h with e said after it, as far as m is concerned.
Said(h, e, g, m) ==
  /\ Replied(h, m) \subseteq Replied(g, m)
  /\ e.kind = "reply" /\ e.item = m => e.parts \subseteq Replied(g, m)
  /\ g \in Seq(Ev) /\ Len(g) = Len(h) + 1 /\ g[Len(h) + 1] = e
  /\ \A k \in 1..Len(h) : g[k] = h[k]

LEMMA RepliedMore ==
  ASSUME NEW h \in Seq(Ev), NEW e \in Ev, NEW g, g = Append(h, e), NEW m
  PROVE  Said(h, e, g, m)
<1> DEFINE S == Ev
<1>1. /\ g \in Seq(S) /\ Len(g) = Len(h) + 1 /\ g[Len(h) + 1] = e
      /\ \A k \in 1..Len(h) : g[k] = h[k]
  <2> HIDE DEF S
  <2>1. h \in Seq(S) /\ e \in S
    BY DEF S
  <2> QED BY <2>1
<1> HIDE DEF S
<1>2. Len(h) \in Nat
  OBVIOUS
<1>3. ASSUME NEW part \in Replied(h, m) PROVE part \in Replied(g, m)
  <2>1. PICK k \in 1..Len(h) : h[k].kind = "reply" /\ h[k].item = m /\ part \in h[k].parts
    BY RepliedIs
  <2>2. k \in 1..Len(g) /\ g[k] = h[k]
    BY <1>1, <1>2
  <2> QED BY <2>1, <2>2 DEF Replied
<1>4. ASSUME e.kind = "reply", e.item = m, NEW part \in e.parts PROVE part \in Replied(g, m)
  <2>1. Len(h) + 1 \in 1..Len(g) /\ g[Len(h) + 1] = e
    BY <1>1, <1>2
  <2> QED BY <1>4, <2>1 DEF Replied
<1> QED BY <1>1, <1>3, <1>4 DEF S, Said

-----------------------------------------------------------------------------
(* What is recorded.                                                        *)

\* Everything but a row is the same in d as in b.
Beside(b, d) ==
  /\ DOMAIN d = BoardFields /\ d.queued = b.queued /\ d.dropped = b.dropped
  /\ d.late = b.late /\ d.read = b.read

\* d is b with r recorded of x.
Rowed(b, d, x, r) == Beside(b, d) /\ d.row = [b.row EXCEPT ![x] = r]

LEMMA RowedOK ==
  ASSUME NEW b, NEW c, BoardOK(b, c), NEW x \in Items, NEW r, Fits(x, r, c, b.queued, b.dropped),
         NEW d, Rowed(b, d, x, r)
  PROVE  BoardOK(d, c)
<1>1. DOMAIN d.row = Items
  BY DEF BoardOK, Rowed
<1>2. ASSUME NEW y \in Items PROVE Fits(y, d.row[y], c, b.queued, b.dropped)
  <2>1. CASE y = x
    BY <2>1 DEF BoardOK, Rowed
  <2>2. CASE y # x
    BY <2>2 DEF BoardOK, Rowed
  <2> QED BY <2>1, <2>2
<1> QED BY <1>1, <1>2 DEF BoardOK, QueueOK, Rowed, Beside

LEMMA ClosedIs ==
  ASSUME NEW b, DOMAIN b = BoardFields, DOMAIN b.row = Items, NEW x \in Items, NEW status
  PROVE  /\ Rowed(b, Close(b, x, status), x, [b.row[x] EXCEPT !.status = status])
         /\ Close(b, x, status).waits = b.waits
BY DEF Close, Rowed, Beside, BoardFields

LEMMA OpenedIs ==
  ASSUME NEW b, DOMAIN b = BoardFields, DOMAIN b.row = Items, NEW x \in Items,
         b.row[x].status = "none"
  PROVE  /\ Rowed(b, Open(b, x), x, [b.row[x] EXCEPT !.status = "pending"])
         /\ Open(b, x).waits = b.waits
BY DEF Open, Rowed, Beside, BoardFields

LEMMA RowFields ==
  ASSUME NEW r \in RowRec, NEW status \in {"none", "pending", "resolved", "canceled"},
         NEW given \in SUBSET Parts
  PROVE  /\ [r EXCEPT !.status = status] \in RowRec
         /\ [r EXCEPT !.status = status].status = status
         /\ [r EXCEPT !.status = status].given = r.given
         /\ [r EXCEPT !.given = given] \in RowRec
         /\ [r EXCEPT !.given = given].status = r.status
         /\ [r EXCEPT !.given = given].given = given
BY DEF RowRec

LEMMA CloseOK ==
  ASSUME NEW b, NEW c, BoardOK(b, c), NEW x \in Items,
         NEW status \in {"resolved", "canceled"},
         status = "resolved" =>
           IF x \in Requests THEN x \in c.made \ c.open ELSE Settled(c, b.queued, b.dropped, x)
  PROVE  BoardOK(Close(b, x, status), c) /\ Beside(b, Close(b, x, status))
<1> DEFINE r == [b.row[x] EXCEPT !.status = status]
<1>1. Fits(x, b.row[x], c, b.queued, b.dropped)
  BY DEF BoardOK
<1>2. r \in RowRec /\ r.status = status /\ r.given = b.row[x].given
  <2>1. b.row[x] \in RowRec
    BY <1>1 DEF Fits
  <2> QED BY <2>1 DEF RowRec
<1>3. Rowed(b, Close(b, x, status), x, r)
  BY ClosedIs DEF BoardOK
<1> HIDE DEF r
<1>4. Fits(x, r, c, b.queued, b.dropped)
  BY <1>1, <1>2 DEF Fits
<1> QED BY <1>3, <1>4, RowedOK DEF Rowed

LEMMA OpenOK ==
  ASSUME NEW b, NEW c, BoardOK(b, c), NEW x \in Items
  PROVE  BoardOK(Open(b, x), c) /\ Beside(b, Open(b, x))
<1>1. CASE b.row[x].status # "none"
  BY <1>1 DEF Open, BoardOK, Beside
<1>2. CASE b.row[x].status = "none"
  <2> DEFINE r == [b.row[x] EXCEPT !.status = "pending"]
  <2>1. Fits(x, b.row[x], c, b.queued, b.dropped)
    BY DEF BoardOK
  <2>2. r \in RowRec /\ r.status = "pending" /\ r.given = b.row[x].given
    <3>1. b.row[x] \in RowRec
      BY <2>1 DEF Fits
    <3> QED BY <3>1 DEF RowRec
  <2>3. Rowed(b, Open(b, x), x, r)
    BY <1>2, OpenedIs DEF BoardOK
  <2> HIDE DEF r
  <2>4. Fits(x, r, c, b.queued, b.dropped)
    BY <2>1, <2>2 DEF Fits
  <2> QED BY <2>3, <2>4, RowedOK DEF Rowed
<1> QED BY <1>1, <1>2

\* A recorded question or reply is true, if it is.
LEMMA RecordOK ==
  ASSUME Apart, NEW b, NEW c, CodexOK(c), BoardOK(b, c), NEW e, Truthful(c, e),
         e.kind \in {"ask", "reply"}
  PROVE  BoardOK(Record(b, e), c) /\ Beside(b, Record(b, e))
<1> DEFINE m == e.item
           given == Combined(b.row[m].given, e.parts)
           known == [b EXCEPT !.row[m].given = given]
           r == [b.row[m] EXCEPT !.given = given]
<1>1. m \in Messages /\ m \in Items /\ m \notin Requests
  BY DEF Truthful, Apart, Items
<1>2. Fits(m, b.row[m], c, b.queued, b.dropped) /\ Beside(b, b)
  BY <1>1 DEF BoardOK, Beside
<1>3. CASE e.kind = "ask"
  <2>1. Record(b, e) = Open(b, m)
    BY <1>3 DEF Record
  <2> QED BY <1>1, <2>1, OpenOK
<1>4. CASE e.kind = "reply" /\ b.row[m].status # "pending"
  <2>1. Record(b, e) = b
    BY <1>4 DEF Record
  <2> QED BY <1>2, <2>1
<1>5. CASE e.kind = "reply" /\ b.row[m].status = "pending"
  <2>1. given \subseteq Replied(c.history, m)
    BY <1>1, <1>2, <1>5 DEF Combined, Fits, Truthful
  <2>2. Replied(c.history, m) \subseteq Parts
    BY RepliedParts DEF CodexOK
  <2>3. r \in RowRec /\ r.status = "pending" /\ r.given = given
    <3>1. b.row[m] \in RowRec /\ given \in SUBSET Parts
      BY <1>2, <2>1, <2>2 DEF Fits
    <3> HIDE DEF given
    <3> QED BY <1>5, <3>1 DEF RowRec
  <2>4. Rowed(b, known, m, r)
    <3>1. DOMAIN b = BoardFields /\ DOMAIN b.row = Items
      BY DEF BoardOK
    <3> HIDE DEF given
    <3> QED BY <1>1, <3>1 DEF Rowed, Beside, BoardFields
  <2>5. Record(b, e) = IF given = Parts THEN Close(known, m, "resolved") ELSE known
    BY <1>5 DEF Record
  <2> HIDE DEF given, r, known
  <2>6. Fits(m, r, c, b.queued, b.dropped)
    BY <2>1, <2>3 DEF Fits
  <2>7. BoardOK(known, c) /\ Beside(b, known)
    BY <1>1, <2>4, <2>6, RowedOK DEF Rowed
  <2>8. CASE given = Parts
    <3>1. Settled(c, known.queued, known.dropped, m)
      BY <2>1, <2>2, <2>8 DEF Settled
    <3>2. BoardOK(Close(known, m, "resolved"), c) /\ Beside(known, Close(known, m, "resolved"))
      BY <1>1, <2>7, <3>1, CloseOK
    <3> QED BY <2>5, <2>7, <2>8, <3>2 DEF Beside
  <2> QED BY <2>5, <2>7, <2>8
<1> QED BY <1>3, <1>4, <1>5

\* g[k] is the board after the first k entries of h.
Recorded(b, h, n, g) ==
  /\ DOMAIN g = 0..n /\ g[0] = b
  /\ \A k \in 1..n : g[k] = Record(g[k - 1], h[k])

\* There is such a function, and it is the one that Hydrated chooses.
LEMMA RecordedExists ==
  ASSUME NEW b, NEW h, NEW n \in Nat
  PROVE  \E g : Recorded(b, h, n, g)
<1> DEFINE T == {k \in Nat : ~ \E g : Recorded(b, h, k, g)}
<1> SUFFICES ASSUME T # {} PROVE FALSE
  OBVIOUS
<1>1. PICK k \in T : \A j \in T : k <= j
  BY NatMin
<1>2. CASE k = 0
  <2> DEFINE g == [j \in 0..0 |-> b]
  <2>1. Recorded(b, h, 0, g)
    BY DEF Recorded
  <2> QED BY <1>2, <2>1
<1>3. CASE k # 0
  <2>1. k \in Nat /\ k - 1 \in Nat /\ k - 1 \notin T
    BY <1>1, <1>3
  <2>2. PICK g : Recorded(b, h, k - 1, g)
    BY <2>1
  <2> DEFINE f == [j \in 0..k |-> IF j = k THEN Record(g[k - 1], h[k]) ELSE g[j]]
  <2>3. DOMAIN f = 0..k
    OBVIOUS
  <2>4. f[0] = b
    BY <1>3, <2>1, <2>2 DEF Recorded
  <2>5. ASSUME NEW j \in 1..k PROVE f[j] = Record(f[j - 1], h[j])
    <3>1. CASE j = k
      BY <2>1, <3>1
    <3>2. CASE j # k
      <4>1. j \in 1..(k - 1) /\ j - 1 \in 0..k /\ j - 1 # k /\ j \in 0..k
        BY <2>1, <3>2
      <4>2. f[j] = g[j] /\ f[j - 1] = g[j - 1]
        BY <3>2, <4>1
      <4>3. g[j] = Record(g[j - 1], h[j])
        BY <2>2, <4>1 DEF Recorded
      <4> QED BY <4>2, <4>3
    <3> QED BY <3>1, <3>2
  <2> HIDE DEF f
  <2>6. Recorded(b, h, k, f)
    BY <2>3, <2>4, <2>5 DEF Recorded
  <2> QED BY <2>6
<1> QED BY <1>2, <1>3

LEMMA HydratedIs ==
  ASSUME NEW b, NEW h, Len(h) \in Nat
  PROVE  \E g : Recorded(b, h, Len(h), g) /\ Hydrated(b, h) = g[Len(h)]
<1> DEFINE n == Len(h)
           F(f) == [k \in 0..n |-> IF k = 0 THEN b ELSE Record(f[k - 1], h[k])]
           f == CHOOSE f : f = F(f)
<1>1. PICK g : Recorded(b, h, n, g)
  BY RecordedExists
<1>2. g = F(g)
  <2>1. DOMAIN g = 0..n
    BY <1>1 DEF Recorded
  <2>2. g = [k \in 0..n |-> g[k]]
    BY <1>1, <2>1 
  <2>3. \A k \in 0..n : g[k] = IF k = 0 THEN b ELSE Record(g[k - 1], h[k])
    BY <1>1 DEF Recorded
  <2> QED BY <2>2, <2>3
<1>3. f = F(f)
  BY <1>2
<1>4. Hydrated(b, h) = f[n]
  BY DEF Hydrated
<1> HIDE DEF f
<1>5. Recorded(b, h, n, f)
  <2>1. DOMAIN f = 0..n
    BY <1>3
  <2>2. n \in Nat
    OBVIOUS
  <2>3. \A k \in 0..n : f[k] = IF k = 0 THEN b ELSE Record(f[k - 1], h[k])
    BY <1>3
  <2>4. f[0] = b
    BY <2>2, <2>3
  <2>5. ASSUME NEW k \in 1..n PROVE f[k] = Record(f[k - 1], h[k])
    <3>1. k \in 0..n /\ k # 0
      BY <2>2
    <3> QED BY <2>3, <3>1
  <2> HIDE DEF n
  <2> QED BY <2>1, <2>4, <2>5 DEF Recorded
<1> QED BY <1>4, <1>5

\* Reading a history records nothing but what is in it.
LEMMA HydratedOK ==
  ASSUME Apart, NEW b, NEW c, CodexOK(c), BoardOK(b, c), NEW h, Len(h) \in Nat,
         \A k \in 1..Len(h) : Truthful(c, h[k]) /\ h[k].kind \in {"ask", "reply"}
  PROVE  BoardOK(Hydrated(b, h), c) /\ Beside(b, Hydrated(b, h))
<1>1. PICK g : Recorded(b, h, Len(h), g) /\ Hydrated(b, h) = g[Len(h)]
  BY HydratedIs
<1> DEFINE Fine(k) == BoardOK(g[k], c) /\ Beside(b, g[k])
           T == {k \in Nat : k <= Len(h) /\ ~Fine(k)}
<1>2. ASSUME T # {} PROVE FALSE
  <2>1. PICK k \in T : \A j \in T : k <= j
    BY <1>2, NatMin
  <2>2. CASE k = 0
    <3>1. g[0] = b
      BY <1>1 DEF Recorded
    <3> QED BY <2>1, <2>2, <3>1 DEF BoardOK, Beside
  <2>3. CASE k # 0
    <3>1. k \in 1..Len(h) /\ k - 1 \in Nat /\ k - 1 <= Len(h) /\ k - 1 \notin T
      BY <2>1, <2>3
    <3>2. BoardOK(g[k - 1], c) /\ Beside(b, g[k - 1])
      BY <3>1
    <3>3. g[k] = Record(g[k - 1], h[k])
      BY <1>1, <3>1 DEF Recorded
    <3> DEFINE d == g[k - 1]
               e == h[k]
    <3>4. BoardOK(d, c) /\ Truthful(c, e) /\ e.kind \in {"ask", "reply"}
      BY <3>1, <3>2
    <3> HIDE DEF d, e
    <3>5. BoardOK(Record(d, e), c) /\ Beside(d, Record(d, e))
      BY <3>4, RecordOK
    <3>6. BoardOK(g[k], c) /\ Beside(d, g[k])
      BY <3>3, <3>5 DEF d, e
    <3>7. Fine(k)
      BY <3>2, <3>6 DEF Beside, d
    <3> QED BY <2>1, <3>7
  <2> QED BY <2>2, <2>3
<1>3. Len(h) \notin T
  BY <1>2
<1> QED BY <1>1, <1>3
-----------------------------------------------------------------------------
(* What Codex knows only grows.                                             *)

LEMMA GrowsFits ==
  ASSUME NEW c, NEW d, Grows(c, d), NEW x \in Items, NEW r, NEW queued, NEW dropped,
         Fits(x, r, c, queued, dropped)
  PROVE  Fits(x, r, d, queued, dropped)
<1>1. x \in Messages => Replied(c.history, x) \subseteq Replied(d.history, x)
  BY DEF Grows
<1>2. x \in Messages /\ Settled(c, queued, dropped, x) => Settled(d, queued, dropped, x)
  BY DEF Grows, Settled
<1> QED BY <1>1, <1>2 DEF Fits, Grows, Items

LEMMA GrowsBoard ==
  ASSUME NEW c, NEW d, Grows(c, d), CodexOK(c), CodexOK(d), NEW b, BoardOK(b, c)
  PROVE  BoardOK(b, d)
<1>1. ASSUME NEW x \in Items PROVE Fits(x, b.row[x], d, b.queued, b.dropped)
  BY GrowsFits DEF BoardOK
<1>2. b.read \in Nat /\ b.read <= Len(d.history)
  <2>1. Len(c.history) \in Nat /\ Len(d.history) \in Nat
    <3> DEFINE S == Ev
    <3>1. c.history \in Seq(S) /\ d.history \in Seq(S)
      BY DEF CodexOK
    <3> HIDE DEF S
    <3> QED BY <3>1
  <2> QED BY <2>1 DEF Grows, BoardOK
<1>3. QueueOK(b, d)
  BY DEF QueueOK, Grows, BoardOK
<1> QED BY <1>1, <1>2, <1>3 DEF BoardOK

LEMMA GrowsTruthful ==
  ASSUME NEW c, NEW d, Grows(c, d), NEW e, Truthful(c, e)
  PROVE  Truthful(d, e)
BY DEF Grows, Truthful

LEMMA GrowsLink ==
  ASSUME NEW c, NEW d, Grows(c, d), NEW l, LinkOK(l, c)
  PROVE  LinkOK(l, d)
<1>1. l.known \subseteq d.made
  BY DEF Grows, LinkOK
<1>2. \A k \in 1..Len(l.events) : Truthful(d, l.events[k])
  BY GrowsTruthful DEF LinkOK
<1> QED BY <1>1, <1>2 DEF LinkOK

LEMMA GrowsUser ==
  ASSUME NEW c, NEW d, Grows(c, d), NEW a, NEW queued, NEW dropped, UserOK(a, c, queued, dropped)
  PROVE  UserOK(a, d, queued, dropped)
<1>1. \A m \in Messages : Settled(c, queued, dropped, m) => Settled(d, queued, dropped, m)
  BY DEF Grows, Settled
<1> QED BY <1>1 DEF Grows, UserOK

\* Codex moves on, and the renderer tells of it or not.
LEMMA GrowsAgreed ==
  ASSUME Agreed, Grows(codex, codex'), CodexOK(codex'), board' = board, user' = user,
         LinkOK(link', codex')
  PROVE  Agreed'
<1>1. BoardOK(board, codex')
  BY GrowsBoard DEF Agreed
<1>2. \A u \in Users : UserOK(user[u], codex', board.queued, board.dropped)
  BY GrowsUser DEF Agreed
<1>3. DOMAIN user' = Users
  BY DEF Agreed
<1> QED BY <1>1, <1>2, <1>3 DEF Agreed

LEMMA TellOK ==
  ASSUME NEW c, LinkOK(link, c), NEW e, Truthful(c, e), Tell(e)
  PROVE  LinkOK(link', c)
<1> DEFINE S == Ev
           q == Append(link.events, e)
<1>1. CASE link' = link
  BY <1>1
<1>2. CASE link' = [link EXCEPT !.events = Append(@, e)]
  <2>1. DOMAIN link' = LinkFields /\ link'.known = link.known /\ link'.events = q
    BY <1>2 DEF LinkOK, LinkFields
  <2>2. e \in S /\ link.events \in Seq(S)
    BY DEF Truthful, LinkOK
  <2> HIDE DEF S, q
  <2>3. q \in Seq(S) /\ Len(q) = Len(link.events) + 1 /\ q[Len(link.events) + 1] = e
        /\ Len(link.events) \in Nat /\ \A k \in 1..Len(link.events) : q[k] = link.events[k]
    BY <2>2 DEF q
  <2>4. ASSUME NEW k \in 1..Len(q) PROVE Truthful(c, q[k])
    <3>1. CASE k \in 1..Len(link.events)
      BY <2>3, <3>1 DEF LinkOK
    <3>2. CASE k = Len(link.events) + 1
      BY <2>3, <3>2
    <3> QED BY <2>3, <3>1, <3>2
  <2> QED BY <2>1, <2>3, <2>4 DEF LinkOK, S
<1> QED BY <1>1, <1>2 DEF Tell

\* What is said is in the history from then on.
LEMMA SaidGrows ==
  ASSUME NEW c, CodexOK(c), NEW e \in Ev, e.kind \in {"ask", "reply"}, e.item \in Messages,
         NEW d, d = [c EXCEPT !.history = Append(@, e)]
  PROVE  CodexOK(d) /\ Grows(c, d) /\ Truthful(d, e)
<1> DEFINE g == Append(c.history, e)
           S == Ev
<1>1. /\ DOMAIN d = CodexFields /\ d.history = g
      /\ d.open = c.open /\ d.made = c.made /\ d.cast = c.cast
  BY DEF CodexOK, CodexFields
<1>2. c.history \in Seq(S)
  BY DEF CodexOK
<1>3. Len(c.history) \in Nat
  <2> HIDE DEF S
  <2> QED BY <1>2
<1> HIDE DEF g
<1>4. ASSUME NEW m
      PROVE  /\ Replied(c.history, m) \subseteq Replied(g, m)
             /\ e.kind = "reply" /\ e.item = m => e.parts \subseteq Replied(g, m)
             /\ g \in Seq(Ev) /\ Len(g) = Len(c.history) + 1 /\ g[Len(c.history) + 1] = e
             /\ \A k \in 1..Len(c.history) : g[k] = c.history[k]
  <2> DEFINE h == c.history
  <2>1. g = Append(h, e)
    BY DEF g
  <2>2. h \in Seq(Ev)
    BY DEF CodexOK
  <2> HIDE DEF S, h
  <2>3. Said(h, e, g, m)
    BY <2>1, <2>2, RepliedMore
  <2> QED BY <2>3 DEF h, Said
<1>5. \A m : Replied(g, m) \subseteq Parts
  BY <1>4, RepliedParts
<1>6. ASSUME NEW k \in 1..Len(g) PROVE g[k].kind \in {"ask", "reply"} /\ g[k].item \in Messages
  <2>1. CASE k \in 1..Len(c.history)
    BY <1>4, <2>1 DEF CodexOK
  <2>2. CASE k = Len(c.history) + 1
    BY <1>4, <2>2
  <2>3. Len(g) = Len(c.history) + 1
    BY <1>4
  <2> HIDE DEF S
  <2> QED BY <1>3, <2>1, <2>2, <2>3
<1>7. CodexOK(d)
  BY <1>1, <1>4, <1>6 DEF CodexOK
<1>8. Len(c.history) <= Len(d.history)
  BY <1>1, <1>3, <1>4
<1>9. \A m \in Messages : /\ Replied(c.history, m) \subseteq Replied(d.history, m)
                          /\ Replied(c.history, m) = Parts => Replied(d.history, m) = Parts
  BY <1>1, <1>4, <1>5
<1>10. Grows(c, d)
  BY <1>1, <1>8, <1>9 DEF Grows
<1>11. Truthful(d, e)
  BY <1>1, <1>4 DEF Truthful
<1> QED BY <1>7, <1>10, <1>11

\* Every question of m has an answer once all of them are said.
LEMMA AllSaid ==
  ASSUME NEW d, CodexOK(d), NEW e, Truthful(d, e), e.kind = "reply", e.parts = Parts
  PROVE  Replied(d.history, e.item) = Parts
<1>1. Replied(d.history, e.item) \subseteq Parts
  BY RepliedParts DEF CodexOK
<1> QED BY <1>1 DEF Truthful

\* More requests, or fewer that are open.
LEMMA RequestsGrow ==
  ASSUME NEW c, CodexOK(c), NEW d, DOMAIN d = CodexFields, d.history = c.history,
         c.made \subseteq d.made, d.open \subseteq d.made, c.made \cap d.open \subseteq c.open
  PROVE  CodexOK(d) /\ Grows(c, d)
<1>1. Len(c.history) \in Nat
  <2> DEFINE S == Ev
  <2>1. c.history \in Seq(S)
    BY DEF CodexOK
  <2> HIDE DEF S
  <2> QED BY <2>1
<1>2. Len(c.history) <= Len(d.history)
  BY <1>1
<1> QED BY <1>2 DEF CodexOK, Grows

LEMMA EventIs ==
  ASSUME NEW kind \in {"request", "resolved", "ask", "reply"}, NEW x \in Items,
         NEW parts \in SUBSET Parts
  PROVE  /\ Event(kind, x, parts) \in Ev
         /\ Event(kind, x, parts).kind = kind /\ Event(kind, x, parts).item = x
         /\ Event(kind, x, parts).parts = parts
BY DEF Event, Ev

\* Of what Codex and its user do.
LEMMA SaidAgreed ==
  ASSUME Agreed, NEW e \in Ev, e.kind \in {"ask", "reply"}, e.item \in Messages, Say(e)
  PROVE  CodexOK(codex') /\ Grows(codex, codex') /\ Truthful(codex', e) /\ LinkOK(link', codex')
<1>1. codex' = [codex EXCEPT !.history = Append(@, e)] /\ Tell(e)
  BY DEF Say
<1>2. CodexOK(codex') /\ Grows(codex, codex') /\ Truthful(codex', e)
  BY <1>1, SaidGrows DEF Agreed
<1>3. LinkOK(link, codex')
  BY <1>2, GrowsLink DEF Agreed
<1> QED BY <1>1, <1>2, <1>3, TellOK

LEMMA AskAgreed ==
  ASSUME Agreed, NEW m \in Messages, Ask(m)
  PROVE  Agreed'
<1> DEFINE e == Event("ask", m, {})
<1>1. e \in Ev /\ e.kind = "ask" /\ e.item = m
  BY EventIs DEF Items
<1>2. Say(e) /\ board' = board /\ user' = user
  BY DEF Ask
<1> HIDE DEF e
<1> QED BY <1>1, <1>2, SaidAgreed, GrowsAgreed

LEMMA NativeReplyAgreed ==
  ASSUME Agreed, NEW m \in Messages, NEW part \in Parts, NativeReply(m, part)
  PROVE  Agreed'
<1> DEFINE e == Event("reply", m, {part})
<1>1. e \in Ev /\ e.kind = "reply" /\ e.item = m
  BY EventIs DEF Items
<1>2. Say(e) /\ board' = board /\ user' = user
  BY DEF NativeReply
<1> HIDE DEF e
<1> QED BY <1>1, <1>2, SaidAgreed, GrowsAgreed

\* r is open: it is asked for the first time, and Codex tells of it.
LEMMA RequireAgreed ==
  ASSUME Agreed, NEW r \in Requests, Require(r)
  PROVE  Agreed'
<1> DEFINE e == Event("request", r, {})
<1>1. e \in Ev /\ e.kind = "request" /\ e.item = r
  BY EventIs DEF Items
<1>2. Tell(e) /\ board' = board /\ user' = user /\ r \notin codex.made
  BY DEF Require
<1>3. /\ DOMAIN codex' = CodexFields /\ codex'.history = codex.history
      /\ codex'.made = codex.made \cup {r} /\ codex'.open = codex.open \cup {r}
  BY DEF Require, Agreed, CodexOK, CodexFields
<1> HIDE DEF e
<1>4. CodexOK(codex')  /\ Grows(codex, codex')
  <2>1. codex.open \subseteq codex.made
    BY DEF Agreed, CodexOK
  <2> QED BY <1>2, <1>3, <2>1, RequestsGrow DEF Agreed
<1>5. Truthful(codex', e)
  BY <1>1, <1>3 DEF Truthful
<1>6. LinkOK(link', codex')
  BY <1>2, <1>4, <1>5, GrowsLink, TellOK DEF Agreed
<1> QED BY <1>2, <1>4, <1>6, GrowsAgreed

LEMMA ResolvedGrows ==
  ASSUME Agreed, NEW r \in Requests, r \in codex.open,
         codex' = [codex EXCEPT !.open = @ \ {r}], Tell(Event("resolved", r, {}))
  PROVE  /\ CodexOK(codex') /\ Grows(codex, codex') /\ LinkOK(link', codex')
         /\ r \in codex'.made \ codex'.open
<1> DEFINE e == Event("resolved", r, {})
<1>1. e \in Ev /\ e.kind = "resolved" /\ e.item = r /\ Tell(e)
  BY EventIs DEF Items
<1>2. /\ DOMAIN codex' = CodexFields /\ codex'.history = codex.history
      /\ codex'.made = codex.made /\ codex'.open = codex.open \ {r}
  BY DEF Agreed, CodexOK, CodexFields
<1> HIDE DEF e
<1>3. codex.open \subseteq codex.made
  BY DEF Agreed, CodexOK
<1>4. CodexOK(codex') /\ Grows(codex, codex')
  BY <1>2, <1>3, RequestsGrow DEF Agreed
<1>5. Truthful(codex', e)
  BY <1>1, <1>2, <1>3 DEF Truthful
<1>6. LinkOK(link', codex')
  BY <1>1, <1>4, <1>5, GrowsLink, TellOK DEF Agreed
<1> QED BY <1>2, <1>3, <1>4, <1>6

LEMMA NativeResolveAgreed ==
  ASSUME Agreed, NEW r \in Requests, NativeResolve(r)
  PROVE  Agreed'
BY ResolvedGrows, GrowsAgreed DEF NativeResolve

-----------------------------------------------------------------------------
(* What the board records keeps agreeing.                                   *)

\* The rows, the queue and the end of the task stay.
LEMMA SameRowsOK ==
  ASSUME NEW b, NEW c, BoardOK(b, c), NEW d, DOMAIN d = BoardFields, d.row = b.row,
         d.queued = b.queued, d.dropped = b.dropped, d.late = b.late, d.read \in Nat,
         d.read <= Len(c.history)
  PROVE  BoardOK(d, c)
BY DEF BoardOK, QueueOK

LEMMA GoesOK ==
  ASSUME NEW b, NEW c, BoardOK(b, c)
  PROVE  BoardOK(Goes(b), c) /\ Beside(b, Goes(b))
<1>1. /\ DOMAIN Goes(b) = BoardFields /\ Goes(b).row = b.row /\ Goes(b).queued = b.queued
      /\ Goes(b).dropped = b.dropped /\ Goes(b).late = b.late /\ Goes(b).read = b.read
  BY DEF Goes, BoardOK, BoardFields
<1>2. b.read \in Nat /\ b.read <= Len(c.history)
  BY DEF BoardOK
<1>3. BoardOK(Goes(b), c)
  BY <1>1, <1>2, SameRowsOK
<1> QED BY <1>1, <1>3 DEF Beside

LEMMA BoardAgreed ==
  ASSUME Agreed, BoardOK(board', codex), board'.queued = board.queued,
         board'.dropped = board.dropped, codex' = codex, user' = user, LinkOK(link', codex)
  PROVE  Agreed'
BY DEF Agreed

\* The event that is delivered is the first under way.
LEMMA DeliveredEvent ==
  ASSUME NEW c, LinkOK(link, c), link.events # <<>>, NEW l, NEW known, known \subseteq c.made,
         DOMAIN l = LinkFields, l.known = known, l.events = Tail(link.events)
  PROVE  Truthful(c, Head(link.events)) /\ LinkOK(l, c)
<1> DEFINE S == Ev
           q == link.events
           r == Tail(q)
<1>1. q \in Seq(S) /\ q # <<>> /\ \A k \in 1..Len(q) : Truthful(c, q[k])
  BY DEF LinkOK
<1>2. l.events = r
  OBVIOUS
<1> HIDE DEF S, q
<1>3. /\ 1 \in 1..Len(q) /\ Head(q) = q[1] /\ r \in Seq(S) /\ Len(r) = Len(q) - 1
      /\ Len(q) \in Nat /\ \A k \in 1..Len(r) : r[k] = q[k + 1]
  BY <1>1
<1> HIDE DEF r
<1>4. \A k \in 1..Len(r) : k + 1 \in 1..Len(q)
  BY <1>3
<1>5. \A k \in 1..Len(r) : Truthful(c, r[k])
  BY <1>1, <1>3, <1>4
<1>6. LinkOK(l, c)
  BY <1>2, <1>3, <1>5 DEF LinkOK, S
<1> QED BY <1>1, <1>3, <1>6 DEF q

LEMMA DeliverAgreed ==
  ASSUME Apart, Agreed, Deliver
  PROVE  Agreed'
<1> DEFINE e == Head(link.events)
           x == e.item
           rest == [link EXCEPT !.events = Tail(@)]
<1>1. /\ link.events # <<>> /\ codex' = codex /\ user' = user
      /\ CodexOK(codex) /\ BoardOK(board, codex) /\ LinkOK(link, codex)
      /\ Beside(board, board)
  BY DEF Deliver, Agreed, BoardOK, Beside
<1>2. link.known \subseteq codex.made
  BY <1>1 DEF LinkOK
<1>3. DOMAIN rest = LinkFields /\ rest.known = link.known /\ rest.events = Tail(link.events)
  BY <1>1 DEF LinkOK, LinkFields
<1>4. Truthful(codex, e) /\ LinkOK(rest, codex)
  BY <1>1, <1>2, <1>3, DeliveredEvent
<1>5. ASSUME NEW known, known \subseteq codex.made
      PROVE  LinkOK([rest EXCEPT !.known = known], codex)
  <2> DEFINE l == [rest EXCEPT !.known = known]
  <2>1. DOMAIN l = LinkFields /\ l.known = known /\ l.events = Tail(link.events)
    BY <1>3 DEF LinkFields
  <2> HIDE DEF l
  <2>2. LinkOK(l, codex)
    BY <1>1, <1>5, <2>1, DeliveredEvent
  <2> QED BY <2>2 DEF l
<1>6. x \in Items /\ e.kind \in {"request", "resolved", "ask", "reply"}
  BY <1>4 DEF Truthful, Ev
<1>7. CASE e.kind = "request"
  <2>1. /\ link' = [rest EXCEPT !.known = link.known \cup {x}]
        /\ \/ board' = [Open(board, x) EXCEPT !.waits = TRUE]
           \/ board' = board
    BY <1>3, <1>7 DEF Deliver
  <2>2. x \in codex.made
    BY <1>4, <1>7 DEF Truthful
  <2> HIDE DEF rest, x, e
  <2>3. LinkOK(link', codex)
    BY <1>2, <1>5, <2>1, <2>2
  <2>4. BoardOK(Open(board, x), codex) /\ Beside(board, Open(board, x))
    BY <1>1, <1>6, OpenOK
  <2>5. CASE board' = [Open(board, x) EXCEPT !.waits = TRUE]
    <3> DEFINE b == Open(board, x)
    <3>1. BoardOK(b, codex) /\ Beside(board, b) /\ board' = [b EXCEPT !.waits = TRUE]
      BY <2>4, <2>5
    <3> HIDE DEF b
    <3>2. /\ DOMAIN board' = BoardFields /\ board'.row = b.row /\ board'.queued = b.queued
          /\ board'.dropped = b.dropped /\ board'.late = b.late /\ board'.read = b.read
      BY <3>1 DEF BoardFields, BoardOK
    <3>3. b.read \in Nat /\ b.read <= Len(codex.history)
      BY <3>1 DEF BoardOK
    <3>4. BoardOK(board', codex)
      BY <3>1, <3>2, <3>3, SameRowsOK
    <3> QED BY <1>1, <2>3, <3>1, <3>2, <3>4, BoardAgreed DEF Beside
  <2>6. CASE board' = board
    BY <1>1, <2>3, <2>6, BoardAgreed
  <2> QED BY <2>1, <2>5, <2>6
<1>8. CASE e.kind = "resolved"
  <2>1. /\ link' = [rest EXCEPT !.known = link.known \ {x}]
        /\ \/ board' = Goes(Close(board, x, "resolved"))
           \/ board' = Goes(board)
    BY <1>3, <1>8 DEF Deliver
  <2>2. x \in Requests /\ x \in codex.made \ codex.open
    BY <1>4, <1>8 DEF Truthful
  <2> HIDE DEF rest, x, e
  <2>3. LinkOK(link', codex)
    BY <1>2, <1>5, <2>1
  <2>4. BoardOK(Close(board, x, "resolved"), codex) /\ Beside(board, Close(board, x, "resolved"))
    BY <1>1, <1>6, <2>2, CloseOK
  <2>5. BoardOK(board', codex) /\ Beside(board, board')
    BY <1>1, <2>1, <2>4, GoesOK DEF Beside
  <2> QED BY <1>1, <2>3, <2>5, BoardAgreed DEF Beside
<1>9. CASE e.kind \in {"ask", "reply"}
  <2>1. link' = rest /\ board' = Record(board, e)
    BY <1>9 DEF Deliver
  <2> HIDE DEF rest, x, e
  <2>2. BoardOK(Record(board, e), codex) /\ Beside(board, Record(board, e))
    BY <1>1, <1>4, <1>9, RecordOK
  <2> QED BY <1>1, <1>4, <2>1, <2>2, BoardAgreed DEF Beside
<1> QED BY <1>6, <1>7, <1>8, <1>9

LEMMA HistoryLength ==
  ASSUME NEW c, CodexOK(c)
  PROVE  Len(c.history) \in Nat
<1> DEFINE S == Ev
<1>1. c.history \in Seq(S)
  BY DEF CodexOK
<1> HIDE DEF S
<1> QED BY <1>1

LEMMA ReadAgreed ==
  ASSUME Agreed, Read
  PROVE  Agreed'
<1>1. /\ codex' = codex /\ user' = user /\ CodexOK(codex) /\ BoardOK(board, codex)
      /\ LinkOK(link, codex)
      /\ link' = [link EXCEPT !.registered = TRUE]
      /\ board' = [board EXCEPT !.read = Len(codex.history)]
  BY DEF Read, Agreed
<1>2. LinkOK(link', codex)
  <2>1. /\ DOMAIN link' = LinkFields /\ link'.known = link.known
        /\ link'.events = link.events
    BY <1>1 DEF LinkOK, LinkFields
  <2> QED BY <1>1, <2>1 DEF LinkOK
<1>3. /\ DOMAIN board' = BoardFields /\ board'.row = board.row /\ board'.queued = board.queued
      /\ board'.dropped = board.dropped /\ board'.late = board.late
      /\ board'.read = Len(codex.history)
  BY <1>1 DEF BoardOK, BoardFields
<1>4. Len(codex.history) \in Nat /\ Len(codex.history) <= Len(codex.history)
  BY <1>1, HistoryLength
<1>5. BoardOK(board', codex)
  BY <1>1, <1>3, <1>4, SameRowsOK
<1> QED BY <1>1, <1>2, <1>3, <1>5, BoardAgreed

\* The entries of a history are true.
LEMMA HistoryTruthful ==
  ASSUME NEW c, CodexOK(c), NEW k \in 1..Len(c.history)
  PROVE  Truthful(c, c.history[k]) /\ c.history[k].kind \in {"ask", "reply"}
<1> DEFINE S == Ev
<1>1. c.history[k] \in S
  <2>1. c.history \in Seq(S)
    BY DEF CodexOK
  <2> HIDE DEF S
  <2> QED BY <2>1
<1>2. c.history[k].kind \in {"ask", "reply"} /\ c.history[k].item \in Messages
  BY DEF CodexOK
<1>3. c.history[k].kind = "reply" => c.history[k].parts \subseteq Replied(c.history, c.history[k].item)
  BY DEF Replied
<1> QED BY <1>1, <1>2, <1>3 DEF Truthful

LEMMA HydrateAgreed ==
  ASSUME Apart, Agreed, Hydrate
  PROVE  Agreed'
<1> DEFINE h == SubSeq(codex.history, 1, board.read)
           b == Hydrated(board, h)
<1>1. /\ codex' = codex /\ user' = user /\ link' = link /\ board' = [b EXCEPT !.read = 0]
      /\ CodexOK(codex) /\ BoardOK(board, codex) /\ LinkOK(link, codex)
  BY DEF Hydrate, Agreed
<1>2. Len(h) \in Nat /\ \A k \in 1..Len(h) : k \in 1..Len(codex.history) /\ h[k] = codex.history[k]
  <2> DEFINE S == Ev
             s == codex.history
             n == board.read
  <2>1. s \in Seq(S) /\ n \in Nat /\ n <= Len(s)
    BY <1>1 DEF CodexOK, BoardOK
  <2> HIDE DEF S, s, n
  <2>2. /\ Len(SubSeq(s, 1, n)) = n
        /\ \A k \in 1..n : k \in 1..Len(s) /\ SubSeq(s, 1, n)[k] = s[k]
    BY <2>1
  <2> QED BY <2>1, <2>2 DEF s, n
<1>3. \A k \in 1..Len(h) : Truthful(codex, h[k]) /\ h[k].kind \in {"ask", "reply"}
  BY <1>1, <1>2, HistoryTruthful
<1> HIDE DEF h
<1>4. BoardOK(b, codex) /\ Beside(board, b)
  BY <1>1, <1>2, <1>3, HydratedOK
<1> HIDE DEF b
<1>5. /\ DOMAIN board' = BoardFields /\ board'.row = b.row /\ board'.queued = b.queued
      /\ board'.dropped = b.dropped /\ board'.late = b.late /\ board'.read = 0
  BY <1>1, <1>4 DEF BoardOK, BoardFields
<1>6. 0 <= Len(codex.history)
  BY <1>1, HistoryLength
<1>7. BoardOK(board', codex)
  BY <1>4, <1>5, <1>6, SameRowsOK
<1> QED BY <1>1, <1>4, <1>5, <1>7, BoardAgreed DEF Beside
-----------------------------------------------------------------------------
(* Answers.                                                                 *)

\* An answer goes on, or is over.
LEMMA UserAgreed ==
  ASSUME Agreed, CodexOK(codex'), Grows(codex, codex'), LinkOK(link', codex'),
         BoardOK(board', codex'), NEW u \in Users, NEW a,
         user' = [user EXCEPT ![u] = a], UserOK(a, codex', board'.queued, board'.dropped),
         board'.queued = board.queued /\ board'.dropped = board.dropped
  PROVE  Agreed'
<1>1. ASSUME NEW v \in Users PROVE UserOK(user'[v], codex', board'.queued, board'.dropped)
  <2>1. CASE v = u
    BY <2>1 DEF Agreed
  <2>2. CASE v # u
    BY <2>2, GrowsUser DEF Agreed
  <2> QED BY <2>1, <2>2
<1>2. DOMAIN user' = Users
  BY DEF Agreed
<1> QED BY <1>1, <1>2 DEF Agreed

LEMMA IdleOK ==
  ASSUME NEW c, NEW queued, NEW dropped
  PROVE  UserOK(NoAnswer, c, queued, dropped)
BY DEF UserOK, NoAnswer

LEMMA StillGrows ==
  ASSUME NEW c, CodexOK(c)
  PROVE  Grows(c, c)
BY HistoryLength DEF Grows

LEMMA AnswerAgreed ==
  ASSUME Apart, Agreed, NEW u \in Users, NEW x \in Items, Answer(u, x)
  PROVE  Agreed'
<1> DEFINE a == [pc |-> "send", item |-> x, seen |-> board.row[x].given]
<1>1. /\ codex' = codex /\ link' = link /\ board' = board /\ user' = [user EXCEPT ![u] = a]
      /\ CodexOK(codex) /\ BoardOK(board, codex) /\ LinkOK(link, codex)
      /\ x \in Requests => x \in link.known
  BY DEF Answer, Agreed
<1>2. x \in Requests => x \in codex.made
  BY <1>1 DEF LinkOK
<1>3. UserOK(a, codex', board'.queued, board'.dropped)
  BY <1>2, <1>1 DEF UserOK
<1> HIDE DEF a
<1> QED BY <1>1, <1>3, StillGrows, UserAgreed

\* An answer that reaches Codex is an answer there.
LEMMA ReachGrows ==
  ASSUME Apart, Agreed, NEW x \in Items, x \in Requests => x \in codex.made, Reach(x)
  PROVE  /\ CodexOK(codex') /\ Grows(codex, codex') /\ LinkOK(link', codex')
         /\ x \in Requests => x \in codex'.made \ codex'.open
         /\ x \in Messages => Replied(codex'.history, x) = Parts
<1>1. CASE x \in Messages
  <2> DEFINE e == Event("reply", x, Parts)
  <2>1. e \in Ev /\ e.kind = "reply" /\ e.item = x /\ e.parts = Parts
    BY EventIs
  <2>2. Say(e)
    BY <1>1 DEF Reach
  <2> HIDE DEF e
  <2>3. CodexOK(codex') /\ Grows(codex, codex') /\ Truthful(codex', e) /\ LinkOK(link', codex')
    BY <1>1, <2>1, <2>2, SaidAgreed
  <2>4. Replied(codex'.history, x) = Parts
    BY <2>1, <2>3, AllSaid
  <2> QED BY <1>1, <2>3, <2>4 DEF Apart
<1>2. CASE x \notin Messages /\ x \in codex.open
  <2>1. x \in Requests /\ codex' = [codex EXCEPT !.open = @ \ {x}] /\ Tell(Event("resolved", x, {}))
    BY <1>2 DEF Reach, Items
  <2> QED BY <1>2, <2>1, ResolvedGrows
<1>3. CASE x \notin Messages /\ x \notin codex.open
  <2>1. codex' = codex /\ link' = link /\ x \in Requests
    BY <1>3 DEF Reach, Items
  <2>2. CodexOK(codex) /\ LinkOK(link, codex)
    BY DEF Agreed
  <2> QED BY <1>3, <2>1, <2>2, StillGrows
<1> QED BY <1>1, <1>2, <1>3

\* What a user is answering.
LEMMA Answering ==
  ASSUME Agreed, NEW u \in Users, At(u, "send")
  PROVE  /\ user[u].item \in Items
         /\ user[u].item \in Requests => user[u].item \in codex.made
         /\ DOMAIN user[u] = {"pc", "item", "seen"}
BY DEF Agreed, UserOK, At

LEMMA SendAgreed ==
  ASSUME Apart, Agreed, NEW u \in Users, Send(u)
  PROVE  Agreed'
<1> DEFINE x == user[u].item
           a == [user[u] EXCEPT !.pc = "sent"]
<1>1. Reach(x) /\ At(u, "send") /\ board' = board /\ user' = [user EXCEPT ![u] = a]
  BY DEF Send, Turn, Agreed
<1>2. /\ x \in Items
      /\ x \in Requests => x \in codex.made
      /\ DOMAIN user[u] = {"pc", "item", "seen"}
  BY <1>1, Answering
<1>3. DOMAIN a = {"pc", "item", "seen"} /\ a.pc = "sent" /\ a.item = x
  BY <1>2
<1> HIDE DEF a, x
<1>4. /\ CodexOK(codex') /\ Grows(codex, codex') /\ LinkOK(link', codex')
      /\ x \in Requests => x \in codex'.made \ codex'.open
      /\ x \in Messages => Replied(codex'.history, x) = Parts
  BY <1>1, <1>2, ReachGrows
<1>5. UserOK(a, codex', board'.queued, board'.dropped)
  BY <1>2, <1>3, <1>4 DEF UserOK, Settled
<1>6. BoardOK(board', codex')
  BY <1>1, <1>4, GrowsBoard DEF Agreed
<1> QED BY <1>1, <1>4, <1>5, <1>6, UserAgreed

\* What was settled stays settled, though the queue of the task changes.
Settles(c, b, d, e) ==
  \A m \in Messages : Settled(c, b.queued, b.dropped, m) => Settled(d, e.queued, e.dropped, m)

LEMMA SettlesFits ==
  ASSUME NEW c, NEW d, Grows(c, d), NEW b, NEW e, Settles(c, b, d, e),
         NEW x \in Items, NEW r, Fits(x, r, c, b.queued, b.dropped)
  PROVE  Fits(x, r, d, e.queued, e.dropped)
<1>1. x \in Messages => Replied(c.history, x) \subseteq Replied(d.history, x)
  BY DEF Grows
<1> QED BY <1>1 DEF Fits, Grows, Items, Settles

LEMMA SettlesUser ==
  ASSUME NEW c, NEW d, Grows(c, d), NEW b, NEW e, Settles(c, b, d, e), NEW a,
         UserOK(a, c, b.queued, b.dropped)
  PROVE  UserOK(a, d, e.queued, e.dropped)
BY DEF Grows, UserOK, Settles

\* Only the queue changes on the board.
LEMMA SettlesBoard ==
  ASSUME NEW c, NEW d, Grows(c, d), CodexOK(c), CodexOK(d), NEW b, NEW e, Settles(c, b, d, e),
         BoardOK(b, c), DOMAIN e = BoardFields, e.row = b.row, e.read = b.read, QueueOK(e, d)
  PROVE  BoardOK(e, d)
<1>1. ASSUME NEW x \in Items PROVE Fits(x, e.row[x], d, e.queued, e.dropped)
  BY SettlesFits DEF BoardOK
<1>2. e.read \in Nat /\ e.read <= Len(d.history)
  BY HistoryLength DEF Grows, BoardOK
<1> QED BY <1>1, <1>2 DEF BoardOK

LEMMA FailAgreed ==
  ASSUME Apart, Agreed, NEW u \in Users, Fail(u)
  PROVE  Agreed'
<1> DEFINE x == user[u].item
<1>1. /\ At(u, "send") /\ board' \in {board, GivenUp(board, x)}
      /\ user' = [user EXCEPT ![u] = NoAnswer]
      /\ UNCHANGED <<codex, link>> \/ Reach(x)
      /\ BoardOK(board, codex)
  BY DEF Fail, Over, Failed, Agreed
<1>2. x \in Items /\ (x \in Requests => x \in codex.made)
  BY <1>1, Answering
<1> HIDE DEF x
<1>3. CodexOK(codex') /\ Grows(codex, codex') /\ LinkOK(link', codex')
  <2>1. CASE UNCHANGED <<codex, link>>
    BY <2>1, StillGrows DEF Agreed
  <2>2. CASE Reach(x)
    BY <1>2, <2>2, ReachGrows
  <2> QED BY <1>1, <2>1, <2>2
<1>4. /\ DOMAIN board' = BoardFields /\ board'.row = board.row /\ board'.read = board.read
      /\ board'.queued = board.queued /\ board'.dropped = board.dropped
      /\ board'.late \in {board.late, board.late \cup {x}}
  BY <1>1 DEF GivenUp, BoardOK, BoardFields
<1>5. QueueOK(board', codex')
  BY <1>1, <1>2, <1>3, <1>4 DEF BoardOK, QueueOK, Grows
<1>6. Settles(codex, board, codex', board')
  BY <1>3, <1>4 DEF Settles, Settled, Grows
<1>7. BoardOK(board', codex')
  BY <1>1, <1>3, <1>4, <1>5, <1>6, SettlesBoard DEF Agreed
<1> QED BY <1>1, <1>3, <1>4, <1>7, IdleOK, UserAgreed

\* Codex gets an answer that was given up.
LEMMA BelatedAgreed ==
  ASSUME Apart, Agreed, NEW x \in Items, Belated(x)
  PROVE  Agreed'
<1>1. /\ x \in board.late /\ Reach(x) /\ user' = user
      /\ board' = [board EXCEPT !.late = @ \ {x}]
      /\ CodexOK(codex) /\ BoardOK(board, codex)
  BY DEF Belated, Agreed
<1>2. x \in Requests => x \in codex.made
  BY <1>1 DEF BoardOK, QueueOK
<1>3. CodexOK(codex') /\ Grows(codex, codex') /\ LinkOK(link', codex')
  BY <1>1, <1>2, ReachGrows
<1>4. /\ DOMAIN board' = BoardFields /\ board'.row = board.row /\ board'.read = board.read
      /\ board'.queued = board.queued /\ board'.dropped = board.dropped
      /\ board'.late = board.late \ {x}
  BY <1>1 DEF BoardOK, BoardFields
<1>5. Settles(codex, board, codex', board')
  BY <1>3, <1>4 DEF Settles, Settled, Grows
<1>6. QueueOK(board', codex')
  BY <1>1, <1>3, <1>4 DEF BoardOK, QueueOK, Grows
<1>7. BoardOK(board', codex')
  BY <1>1, <1>3, <1>4, <1>5, <1>6, SettlesBoard
<1>8. \A u \in Users : UserOK(user'[u], codex', board'.queued, board'.dropped)
  BY <1>1, <1>3, <1>5, SettlesUser DEF Agreed
<1>9. DOMAIN user' = Users
  BY <1>1 DEF Agreed
<1> QED BY <1>3, <1>7, <1>8, <1>9 DEF Agreed

LEMMA EnqueueAgreed ==
  ASSUME Apart, Agreed, NEW u \in Users, Enqueue(u)
  PROVE  Agreed'
<1> DEFINE x == user[u].item
           a == [user[u] EXCEPT !.pc = "sent"]
<1>1. /\ At(u, "send") /\ x \in Messages /\ user' = [user EXCEPT ![u] = a]
      /\ board' = [board EXCEPT !.queued = {x}] /\ codex' = codex /\ link' = link
      /\ board.queued = {}
      /\ CodexOK(codex) /\ BoardOK(board, codex) /\ LinkOK(link, codex)
  BY DEF Enqueue, Turn, Agreed
<1>2. x \in Items /\ DOMAIN user[u] = {"pc", "item", "seen"}
  BY <1>1, Answering
<1>3. DOMAIN a = {"pc", "item", "seen"} /\ a.pc = "sent" /\ a.item = x
  BY <1>2
<1> HIDE DEF a, x
<1>4. /\ DOMAIN board' = BoardFields /\ board'.row = board.row /\ board'.read = board.read
      /\ board'.dropped = board.dropped /\ board'.queued = {x} /\ board'.late = board.late
  BY <1>1 DEF BoardOK, BoardFields
<1>5. Grows(codex, codex') /\ Settles(codex, board, codex', board')
  BY <1>1, <1>4, StillGrows DEF Settles, Settled
<1>6. BoardOK(board', codex')
  <2>1. QueueOK(board', codex')
    BY <1>1, <1>4 DEF BoardOK, QueueOK
  <2>2. CodexOK(codex')
    BY <1>1
  <2> QED BY <1>1, <1>4, <1>5, <2>1, <2>2, SettlesBoard
<1>7. UserOK(a, codex', board'.queued, board'.dropped)
  BY <1>1, <1>2, <1>3, <1>4 DEF UserOK, Settled, Apart
<1>8. ASSUME NEW v \in Users PROVE UserOK(user'[v], codex', board'.queued, board'.dropped)
  <2>1. UserOK(user[v], codex', board'.queued, board'.dropped)
    BY <1>5, SettlesUser DEF Agreed
  <2> QED BY <1>1, <1>7, <2>1 DEF Agreed
<1>9. DOMAIN user' = Users
  BY <1>1 DEF Agreed
<1> QED BY <1>1, <1>6, <1>8, <1>9 DEF Agreed

LEMMA StartQueuedAgreed ==
  ASSUME Apart, Agreed, NEW m \in Messages, StartQueued(m)
  PROVE  Agreed'
<1> DEFINE e == Event("reply", m, Parts)
<1>1. e \in Ev /\ e.kind = "reply" /\ e.item = m /\ e.parts = Parts
  BY EventIs DEF Items
<1>2. /\ Say(e) /\ user' = user /\ board' = [board EXCEPT !.queued = @ \ {m}]
      /\ CodexOK(codex) /\ BoardOK(board, codex)
  BY DEF StartQueued, Agreed
<1> HIDE DEF e
<1>3. CodexOK(codex') /\ Grows(codex, codex') /\ Truthful(codex', e) /\ LinkOK(link', codex')
  BY <1>1, <1>2, SaidAgreed
<1>4. Replied(codex'.history, m) = Parts
  BY <1>1, <1>3, AllSaid
<1>5. /\ DOMAIN board' = BoardFields /\ board'.row = board.row /\ board'.read = board.read
      /\ board'.dropped = board.dropped /\ board'.queued = board.queued \ {m}
      /\ board'.late = board.late
  BY <1>2 DEF BoardOK, BoardFields
<1>6. Settles(codex, board, codex', board')
  BY <1>3, <1>4, <1>5 DEF Settles, Settled, Grows
<1>7. BoardOK(board', codex')
  <2>1. QueueOK(board', codex')
    BY <1>2, <1>3, <1>5 DEF BoardOK, QueueOK, Grows
  <2> QED BY <1>2, <1>3, <1>5, <1>6, <2>1, SettlesBoard
<1>8. \A u \in Users : UserOK(user'[u], codex', board'.queued, board'.dropped)
  BY <1>2, <1>3, <1>6, SettlesUser DEF Agreed
<1>9. DOMAIN user' = Users
  BY <1>2 DEF Agreed
<1> QED BY <1>3, <1>7, <1>8, <1>9 DEF Agreed

\* A queued answer is dropped with its turn.
LEMMA DropQueuedAgreed ==
  ASSUME Apart, Agreed, NEW m \in Messages, DropQueued(m)
  PROVE  Agreed'
<1> DEFINE b == [board EXCEPT !.queued = @ \ {m}, !.dropped = @ \cup {m}]
<1>1. /\ codex' = codex /\ link' = link /\ user' = user /\ board' \in {b, GivenUp(b, m)}
      /\ CodexOK(codex) /\ BoardOK(board, codex) /\ LinkOK(link, codex)
  BY DEF DropQueued, Agreed
<1>2. /\ DOMAIN b = BoardFields /\ b.row = board.row /\ b.read = board.read
      /\ b.queued = board.queued \ {m} /\ b.dropped = board.dropped \cup {m}
      /\ b.late = board.late
  BY <1>1 DEF BoardOK, BoardFields
<1> HIDE DEF b
<1>3. /\ DOMAIN board' = BoardFields /\ board'.row = board.row /\ board'.read = board.read
      /\ board'.queued = board.queued \ {m} /\ board'.dropped = board.dropped \cup {m}
      /\ board'.late \in {board.late, board.late \cup {m}}
  BY <1>1, <1>2 DEF GivenUp, BoardFields
<1>4. Grows(codex, codex') /\ Settles(codex, board, codex', board')
  BY <1>1, <1>3, StillGrows DEF Settles, Settled
<1>5. QueueOK(board', codex')
  BY <1>1, <1>3 DEF BoardOK, QueueOK, Items, Apart
<1>6. BoardOK(board', codex')
  BY <1>1, <1>3, <1>4, <1>5, SettlesBoard
<1>7. \A u \in Users : UserOK(user'[u], codex', board'.queued, board'.dropped)
  BY <1>1, <1>4, SettlesUser DEF Agreed
<1>8. DOMAIN user' = Users
  BY <1>1 DEF Agreed
<1> QED BY <1>1, <1>6, <1>7, <1>8 DEF Agreed

LEMMA ReturnAgreed ==
  ASSUME Apart, Agreed, NEW u \in Users, Return(u)
  PROVE  Agreed'
<1> DEFINE x == user[u].item
<1>1. /\ At(u, "sent") /\ user' = [user EXCEPT ![u] = NoAnswer] /\ codex' = codex
      /\ link' = link /\ CodexOK(codex) /\ BoardOK(board, codex) /\ LinkOK(link, codex)
      /\ \/ board' = board
         \/ board' = Goes(Close(board, x, "resolved"))
         \/ board' = Close(board, x, "resolved")
  BY DEF Return, Over, Agreed
<1>2. /\ x \in Items
      /\ x \in Requests => x \in codex.made \ codex.open
      /\ x \in Messages => Settled(codex, board.queued, board.dropped, x)
  BY <1>1 DEF Agreed, UserOK, At
<1> HIDE DEF x
<1>3. BoardOK(Close(board, x, "resolved"), codex) /\ Beside(board, Close(board, x, "resolved"))
  BY <1>1, <1>2, CloseOK DEF Items
<1>4. BoardOK(board', codex) /\ board'.queued = board.queued /\ board'.dropped = board.dropped
  BY <1>1, <1>3, GoesOK DEF Beside
<1> QED BY <1>1, <1>4, IdleOK, StillGrows, UserAgreed

LEMMA DismissAgreed ==
  ASSUME Agreed, NEW m \in Messages, Dismiss(m)
  PROVE  Agreed'
<1>1. /\ board' = Close(board, m, "canceled") /\ codex' = codex /\ link' = link /\ user' = user
      /\ BoardOK(board, codex) /\ LinkOK(link, codex) /\ m \in Items
  BY DEF Dismiss, Agreed, Items
<1>2. BoardOK(board', codex) /\ Beside(board, board')
  BY <1>1, CloseOK
<1> QED BY <1>1, <1>2, BoardAgreed DEF Beside
-----------------------------------------------------------------------------
(* Cancellations, the connection and the backend.                           *)

LEMMA CloseAllOK ==
  ASSUME NEW b, NEW c, BoardOK(b, c), NEW items, NEW d, d = CloseAll(b, items, "canceled")
  PROVE  /\ DOMAIN d = BoardFields /\ d.queued = b.queued /\ d.dropped = b.dropped
         /\ d.late = b.late /\ d.read = b.read /\ DOMAIN d.row = Items
         /\ \A x \in Items : Fits(x, d.row[x], c, b.queued, b.dropped)
<1> DEFINE r(x) == IF x \in items /\ b.row[x].status = "pending"
                     THEN [b.row[x] EXCEPT !.status = "canceled"] ELSE b.row[x]
<1>1. /\ DOMAIN d = BoardFields /\ d.queued = b.queued /\ d.dropped = b.dropped
      /\ d.late = b.late /\ d.read = b.read /\ d.row = [x \in Items |-> r(x)]
  BY DEF CloseAll, BoardOK, BoardFields
<1>2. ASSUME NEW x \in Items PROVE Fits(x, r(x), c, b.queued, b.dropped)
  <2> DEFINE n == [b.row[x] EXCEPT !.status = "canceled"]
  <2>1. Fits(x, b.row[x], c, b.queued, b.dropped)
    BY DEF BoardOK
  <2>2. n \in RowRec /\ n.status = "canceled" /\ n.given = b.row[x].given
    <3>1. b.row[x] \in RowRec
      BY <2>1 DEF Fits
    <3> QED BY <3>1 DEF RowRec
  <2>3. r(x) \in {n, b.row[x]}
    OBVIOUS
  <2> HIDE DEF n, r
  <2>4. Fits(x, n, c, b.queued, b.dropped)
    BY <2>1, <2>2 DEF Fits
  <2> QED BY <2>1, <2>3, <2>4
<1> HIDE DEF r
<1> QED BY <1>1, <1>2

LEMMA CancelAgreed ==
  ASSUME Agreed, Cancel
  PROVE  Agreed'
<1> DEFINE d == CloseAll(board, Items, "canceled")
<1>1. /\ board' = [d EXCEPT !.over = TRUE, !.waits = FALSE, !.queued = {},
                      !.dropped = @ \cup board.queued]
      /\ codex' = [codex EXCEPT !.open = {}] /\ link' = link /\ user' = user
      /\ CodexOK(codex) /\ BoardOK(board, codex) /\ LinkOK(link, codex)
  BY DEF Cancel, Agreed
<1>2. /\ DOMAIN d = BoardFields /\ d.read = board.read /\ DOMAIN d.row = Items
      /\ \A x \in Items : Fits(x, d.row[x], codex, board.queued, board.dropped)
  BY <1>1, CloseAllOK
<1>13. d.queued = board.queued /\ d.dropped = board.dropped /\ d.late = board.late
  BY <1>1, CloseAllOK
<1> HIDE DEF d
<1>3. /\ DOMAIN codex' = CodexFields /\ codex'.history = codex.history
      /\ codex'.made = codex.made /\ codex'.open = {}
  BY <1>1 DEF CodexOK, CodexFields
<1>4. CodexOK(codex') /\ Grows(codex, codex')
  BY <1>1, <1>3, RequestsGrow
<1>5. /\ DOMAIN board' = BoardFields /\ board'.row = d.row /\ board'.read = board.read
      /\ board'.queued = {} /\ board'.dropped = board.dropped \cup board.queued
      /\ board'.late = board.late
  BY <1>1, <1>2, <1>13 DEF BoardFields
<1>6. Settles(codex, board, codex', board')
  BY <1>4, <1>5 DEF Settles, Settled, Grows
<1>7. \A x \in Items : Fits(x, board'.row[x], codex', board'.queued, board'.dropped)
  BY <1>2, <1>4, <1>5, <1>6, SettlesFits
<1>8. board'.read \in Nat /\ board'.read <= Len(codex'.history)
  BY <1>1, <1>3, <1>5 DEF BoardOK
<1>14. QueueOK(board', codex')
  BY <1>1, <1>3, <1>5 DEF BoardOK, QueueOK
<1>9. BoardOK(board', codex')
  BY <1>2, <1>5, <1>7, <1>8, <1>14 DEF BoardOK
<1>10. \A u \in Users : UserOK(user'[u], codex', board'.queued, board'.dropped)
  BY <1>1, <1>4, <1>6, SettlesUser DEF Agreed
<1>11. LinkOK(link', codex')
  BY <1>1, <1>4, GrowsLink
<1>12. DOMAIN user' = Users
  BY <1>1 DEF Agreed
<1> QED BY <1>4, <1>9, <1>10, <1>11, <1>12 DEF Agreed

LEMMA UnreadOK ==
  ASSUME NEW b, NEW c, BoardOK(b, c), CodexOK(c), NEW d, d = [b EXCEPT !.read = 0]
  PROVE  BoardOK(d, c) /\ d.queued = b.queued /\ d.dropped = b.dropped
<1>1. /\ DOMAIN d = BoardFields /\ d.row = b.row /\ d.queued = b.queued /\ d.dropped = b.dropped
      /\ d.late = b.late /\ d.read = 0
  BY DEF BoardOK, BoardFields
<1>2. d.read \in Nat /\ d.read <= Len(c.history)
  BY <1>1, HistoryLength
<1> QED BY <1>1, <1>2, SameRowsOK

LEMMA DisconnectAgreed ==
  ASSUME Agreed, Disconnect
  PROVE  Agreed'
<1>1. /\ board' = [board EXCEPT !.read = 0] /\ link' = [link EXCEPT !.up = FALSE]
      /\ codex' = codex /\ user' = user
      /\ CodexOK(codex) /\ BoardOK(board, codex) /\ LinkOK(link, codex)
  BY DEF Disconnect, Agreed
<1>2. LinkOK(link', codex)
  <2>1. /\ DOMAIN link' = LinkFields /\ link'.known = link.known
        /\ link'.events = link.events
    BY <1>1 DEF LinkOK, LinkFields
  <2> QED BY <1>1, <2>1 DEF LinkOK
<1>3. BoardOK(board', codex) /\ board'.queued = board.queued /\ board'.dropped = board.dropped
  BY <1>1, UnreadOK
<1> QED BY <1>1, <1>2, <1>3, BoardAgreed

LEMMA ConnectAgreed ==
  ASSUME Agreed, Connect
  PROVE  Agreed'
<1>1. /\ board' = board /\ link' = [link EXCEPT !.up = TRUE] /\ codex' = codex /\ user' = user
      /\ BoardOK(board, codex) /\ LinkOK(link, codex)
  BY DEF Connect, Agreed
<1>2. LinkOK(link', codex)
  <2>1. /\ DOMAIN link' = LinkFields /\ link'.known = link.known
        /\ link'.events = link.events
    BY <1>1 DEF LinkOK, LinkFields
  <2> QED BY <1>1, <2>1 DEF LinkOK
<1> QED BY <1>1, <1>2, BoardAgreed

LEMMA RestartAgreed ==
  ASSUME Agreed, Restart
  PROVE  Agreed'
<1> DEFINE d == CloseAll(board, Requests, "canceled")
<1>1. /\ board' = [d EXCEPT !.read = 0] /\ codex' = codex
      /\ link' = [up |-> FALSE, registered |-> FALSE, events |-> <<>>, known |-> {}]
      /\ user' = [u \in Users |-> NoAnswer]
      /\ CodexOK(codex) /\ BoardOK(board, codex)
  BY DEF Restart, Agreed
<1>2. BoardOK(d, codex)
  <2>1. /\ DOMAIN d = BoardFields /\ d.queued = board.queued /\ d.dropped = board.dropped
        /\ d.late = board.late /\ d.read = board.read /\ DOMAIN d.row = Items
        /\ \A x \in Items : Fits(x, d.row[x], codex, board.queued, board.dropped)
    BY <1>1, CloseAllOK
  <2> HIDE DEF d
  <2> QED BY <1>1, <2>1 DEF BoardOK, QueueOK
<1> HIDE DEF d
<1>3. BoardOK(board', codex)
  BY <1>1, <1>2, UnreadOK
<1>4. LinkOK(link', codex)
  BY <1>1 DEF LinkOK, LinkFields
<1>5. \A u \in Users : UserOK(user'[u], codex', board'.queued, board'.dropped)
  BY <1>1, IdleOK
<1> QED BY <1>1, <1>3, <1>4, <1>5 DEF Agreed
-----------------------------------------------------------------------------
LEMMA InitAgreed == Init => Agreed
<1> SUFFICES ASSUME Init PROVE Agreed
  OBVIOUS
<1>1. /\ DOMAIN codex = CodexFields /\ codex.history = <<>> /\ codex.open = {} /\ codex.made = {}
  BY DEF Init, CodexFields
<1>2. CodexOK(codex)
  BY <1>1 DEF CodexOK
<1>3. /\ DOMAIN board = BoardFields /\ board.queued = {} /\ board.read = 0
      /\ board.dropped = {} /\ board.late = {}
      /\ board.row = [x \in Items |-> [status |-> "none", given |-> {}]]
  BY DEF Init, BoardFields
<1>4. BoardOK(board, codex)
  BY <1>1, <1>3 DEF BoardOK, QueueOK, Fits, RowRec
<1>5. LinkOK(link, codex)
  BY DEF Init, LinkOK, LinkFields
<1>6. DOMAIN user = Users /\ \A u \in Users : UserOK(user[u], codex, board.queued, board.dropped)
  BY IdleOK DEF Init
<1> QED BY <1>2, <1>4, <1>5, <1>6 DEF Agreed

LEMMA NextAgreed ==
  ASSUME Apart, Agreed, Next
  PROVE  Agreed'
<1>1. ASSUME NEW m \in Messages, Ask(m) \/ StartQueued(m) \/ DropQueued(m) \/ Dismiss(m)
      PROVE  Agreed'
  BY <1>1, AskAgreed, StartQueuedAgreed, DropQueuedAgreed, DismissAgreed
<1>2. ASSUME NEW m \in Messages, NEW part \in Parts, NativeReply(m, part) PROVE Agreed'
  BY <1>2, NativeReplyAgreed
<1>3. ASSUME NEW r \in Requests, Require(r) \/ NativeResolve(r) PROVE Agreed'
  BY <1>3, RequireAgreed, NativeResolveAgreed
<1>4. ASSUME NEW u \in Users, Send(u) \/ Enqueue(u) \/ Fail(u) \/ Return(u) PROVE Agreed'
  BY <1>4, SendAgreed, EnqueueAgreed, FailAgreed, ReturnAgreed
<1>5. ASSUME NEW u \in Users, NEW x \in Items, Answer(u, x) PROVE Agreed'
  BY <1>5, AnswerAgreed
<1>6. CASE Deliver \/ Read \/ Hydrate
  BY <1>6, DeliverAgreed, ReadAgreed, HydrateAgreed
<1>7. CASE Cancel \/ Disconnect \/ Connect \/ Restart
  BY <1>7, CancelAgreed, DisconnectAgreed, ConnectAgreed, RestartAgreed
<1>8. ASSUME NEW x \in Items, Belated(x) PROVE Agreed'
  BY <1>8, BelatedAgreed
<1> QED BY <1>1, <1>2, <1>3, <1>4, <1>5, <1>6, <1>7, <1>8 DEF Next

\* The records of the board, the events under way and the answers being given agree with
\* Codex: Agreed is inductive.
LEMMA AgreedAlways == ASSUME Apart PROVE Spec => []Agreed
<1>1. Init => Agreed
  BY InitAgreed
<1>2. Agreed /\ [Next]_vars => Agreed'
  <2> SUFFICES ASSUME Agreed, [Next]_vars PROVE Agreed'
    OBVIOUS
  <2>1. CASE Next
    BY <2>1, NextAgreed
  <2>2. CASE UNCHANGED vars
    BY <2>2 DEF vars, Agreed
  <2> QED BY <2>1, <2>2
<1> QED BY <1>1, <1>2, PTL DEF Spec

\* What the board calls answered has been answered: a request is closed in Codex and every
\* question of a message has a reply in the history, or its answer waits in the queue of the
\* task or was dropped from it: through lost notifications and confirmations, late answers,
\* repeated readings and restarts of the backend no answer is lost in another way.
THEOREM AnswersReal == ASSUME Apart PROVE Spec => []AnsweredForReal
<1>1. Agreed => AnsweredForReal
  BY DEF Agreed, BoardOK, Fits, Settled, AnsweredForReal, Answered
<1> QED BY <1>1, AgreedAlways, PTL

\* The rows, the queue, the history being read and the requests seen open are of this
\* conversation (the tables interactions and scheduler_queue, the requests of DesktopAppServer).
THEOREM InteractionsTyped == ASSUME Apart PROVE Spec => []TypeOK
<1>1. Agreed => TypeOK
  <2> SUFFICES ASSUME Agreed PROVE TypeOK
    OBVIOUS
  <2>1. \A x \in Items : board.row[x] \in RowRec
    BY DEF Agreed, BoardOK, Fits
  <2>2. Len(codex.history) \in Nat /\ board.read \in Nat /\ board.read <= Len(codex.history)
    BY HistoryLength DEF Agreed, BoardOK
  <2>3. /\ codex.open \subseteq codex.made /\ link.known \subseteq codex.made
        /\ board.queued \subseteq Messages /\ board.dropped \subseteq Messages
        /\ \A m, n \in board.queued : m = n
    BY DEF Agreed, CodexOK, LinkOK, BoardOK, QueueOK
  <2> QED BY <2>1, <2>2, <2>3 DEF TypeOK, RowRec
<1> QED BY <1>1, AgreedAlways, PTL
=============================================================================
