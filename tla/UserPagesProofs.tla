-------------------------- MODULE UserPagesProofs --------------------------
(***************************************************************************)
(* Proofs about UserPages, for any number of rows and types, any sizes of   *)
(* the pages, any number of requests in flight and of the user's actions.   *)
(***************************************************************************)
EXTENDS UserPages, FiniteSetTheorems, TLAPS

-----------------------------------------------------------------------------
(* Requests.                                                                *)

CallsType == [Slots -> Calls \cup {None}]

LEMMA ViewTypes ==
    /\ Recent \in Views /\ FirstView \in Views
    /\ Recent.filter = "recent" /\ FirstView.filter = "all"
BY DEF Recent, FirstView, Views, Filters

LEMMA NewCallType ==
    ASSUME NEW what \in {"items", "count", "detail", "mark", "markAll"},
           NEW v \in Views, NEW n \in Notes \cup {None}
    PROVE  LET c == NewCall(what, v, n) IN
           /\ c \in Calls
           /\ c.what = what /\ c.view = v /\ c.note = n
           /\ c.state = "sent" /\ c.rows = <<>> /\ c.mine
BY DEF NewCall, Calls

\* The requests that are sent get free slots, and each of them gets one.
LEMMA PutEffect ==
    ASSUME NEW base \in CallsType, NEW new \in Seq(Calls), Put(base, new)
    PROVE  /\ calls' \in CallsType
           /\ \A s \in Slots : base[s] # None => calls'[s] = base[s]
           /\ \A s \in Slots : base[s] = None =>
                calls'[s] = None \/ \E i \in DOMAIN new : calls'[s] = new[i]
           /\ \A i \in DOMAIN new : \E s \in Slots : calls'[s] = new[i]
<1>1. PICK f \in [DOMAIN new -> {s \in Slots : base[s] = None}] :
        /\ \A i, j \in DOMAIN new : f[i] = f[j] => i = j
        /\ calls' = [s \in Slots |->
              IF \E i \in DOMAIN new : f[i] = s
              THEN new[CHOOSE i \in DOMAIN new : f[i] = s] ELSE base[s]]
  BY DEF Put
<1>2. ASSUME NEW i \in DOMAIN new
      PROVE  f[i] \in Slots /\ base[f[i]] = None /\ calls'[f[i]] = new[i]
  <2>1. f[i] \in Slots /\ base[f[i]] = None
    BY <1>1
  <2>2. (CHOOSE j \in DOMAIN new : f[j] = f[i]) = i
    BY <1>1
  <2> QED BY <1>1, <2>1, <2>2
<1>3. ASSUME NEW s \in Slots, ~\E i \in DOMAIN new : f[i] = s
      PROVE  calls'[s] = base[s]
  BY <1>1, <1>3
<1>4. \A i \in DOMAIN new : new[i] \in Calls
  OBVIOUS
<1>5. ASSUME NEW s \in Slots
      PROVE  calls'[s] \in Calls \cup {None}
  BY <1>2, <1>3, <1>4 DEF CallsType
<1>6. calls' \in CallsType
  BY <1>1, <1>5 DEF CallsType
<1>7. \A s \in Slots : base[s] # None => calls'[s] = base[s]
  BY <1>2, <1>3
<1>8. \A s \in Slots : base[s] = None =>
        calls'[s] = None \/ \E i \in DOMAIN new : calls'[s] = new[i]
  BY <1>2, <1>3
<1>9. \A i \in DOMAIN new : \E s \in Slots : calls'[s] = new[i]
  BY <1>2
<1> QED BY <1>6, <1>7, <1>8, <1>9

\* What is left of the requests of a page that is left.
LEMMA LeaveEffect ==
    ASSUME calls \in CallsType
    PROVE  /\ Leave \in CallsType
           /\ \A s \in Slots : Leave[s] # None =>
                /\ calls[s] # None /\ ~Leave[s].mine
                /\ Leave[s].what \in {"mark", "markAll"} /\ Leave[s].what = calls[s].what
                /\ Leave[s].note = calls[s].note /\ Leave[s].rows = calls[s].rows
                /\ Leave[s].state = calls[s].state /\ Leave[s].view = calls[s].view
<1>1. ASSUME NEW s \in Slots
      PROVE  \/ Leave[s] = None
             \/ /\ calls[s] \in Calls /\ calls[s] # None /\ calls[s].what \notin Reads
                /\ Leave[s] = [calls[s] EXCEPT !.mine = FALSE]
  BY DEF Leave, CallsType
<1>2. ASSUME NEW c \in Calls, c.what \notin Reads
      PROVE  LET d == [c EXCEPT !.mine = FALSE] IN
             /\ d \in Calls /\ ~d.mine
             /\ d.what \in {"mark", "markAll"} /\ d.what = c.what
             /\ d.note = c.note /\ d.rows = c.rows /\ d.state = c.state /\ d.view = c.view
  BY <1>2 DEF Calls, Reads
<1>3. Leave = [s \in Slots |-> Leave[s]]
  BY DEF Leave
<1>4. Leave \in CallsType
  BY <1>1, <1>2, <1>3 DEF CallsType
<1> QED BY <1>1, <1>2, <1>4

\* The server answers the request in a slot.
LEMMA AnswerEffect ==
    ASSUME calls \in CallsType, NEW s \in Slots, calls[s] # None,
           NEW rows \in Seq(Rows), NEW num \in Nat, Answer(s, rows, num)
    PROVE  /\ calls' \in CallsType /\ calls'[s] # None
           /\ calls'[s].what = calls[s].what /\ calls'[s].view = calls[s].view
           /\ calls'[s].note = calls[s].note /\ calls'[s].mine = calls[s].mine
           /\ calls'[s].state = "answered" /\ calls'[s].rows = rows
           /\ \A t \in Slots \ {s} : calls'[t] = calls[t]
<1> DEFINE c == [calls[s] EXCEPT !.state = "answered", !.rows = rows, !.num = num]
<1>1. calls[s] \in Calls
  BY DEF CallsType
<1>2. calls' = [calls EXCEPT ![s] = c]
  BY <1>1 DEF Answer, CallsType, Calls
<1>3. c \in Calls /\ c.what = calls[s].what /\ c.view = calls[s].view
      /\ c.note = calls[s].note /\ c.mine = calls[s].mine
      /\ c.state = "answered" /\ c.rows = rows
  BY <1>1 DEF Calls
<1>4. c # None
  BY <1>3, PagesAssumption
<1> HIDE DEF c
<1> QED BY <1>2, <1>3, <1>4 DEF CallsType

LEMMA RowType ==
    ASSUME NEW n \in Notes
    PROVE  Row(n) \in Rows /\ Row(n).id = n /\ (Row(n).read <=> n \in read)
<1> DEFINE b == n \in read
<1>1. b \in BOOLEAN
  OBVIOUS
<1>2. Row(n) = [id |-> n, read |-> b]
  BY DEF Row
<1> HIDE DEF b
<1>3. Row(n) \in Rows /\ Row(n).id = n /\ Row(n).read = b
  BY <1>1, <1>2 DEF Rows
<1> QED BY <1>3 DEF b

LEMMA CountsAreNaturals ==
    /\ Cardinality(Unread) \in Nat
    /\ \A v \in Views : Cardinality(Selected(v)) \in Nat
<1>1. IsFiniteSet(Notes)
  BY FS_Interval, PagesAssumption DEF Notes
<1>2. Unread \subseteq Notes /\ \A v \in Views : Selected(v) \subseteq Notes
  BY DEF Unread, Stored, Selected
<1> QED BY <1>1, <1>2, FS_Subset, FS_CardinalityType

LEMMA SizeType ==
    ASSUME NEW v \in Views
    PROVE  Size(v) \in Nat \ {0}
BY PagesAssumption DEF Size

LEMMA PagesType ==
    ASSUME NEW v \in Views
    PROVE  Pages(v) \in Nat
<1>1. ASSUME NEW a \in Nat, NEW b \in Nat \ {0}
      PROVE  a \div b \in Nat
  BY Z3
<1>2. Cardinality(Selected(v)) + Size(v) - 1 \in Nat
  BY CountsAreNaturals, SizeType
<1> QED BY <1>1, <1>2, SizeType DEF Pages

\* setNotifications: the event in front, if its row is not there, and a cut.
LEMMA CutType ==
    ASSUME NEW q \in Seq(Rows), NEW size \in Nat \ {0}
    PROVE  /\ Cut(q, size) \in Seq(Rows)
           /\ Len(Cut(q, size)) <= size /\ Len(Cut(q, size)) <= Len(q)
           /\ \A i \in DOMAIN Cut(q, size) : i \in DOMAIN q /\ Cut(q, size)[i] = q[i]
BY DEF Cut

LEMMA PrependEffect ==
    ASSUME shown \in Seq(Rows), NEW e \in Rows, NEW size \in Nat \ {0}, Prepend(e, size)
    PROVE  /\ shown' \in Seq(Rows)
           /\ shown' = shown \/ Len(shown') <= size
           /\ \A i \in DOMAIN shown' :
                shown'[i] = e \/ \E j \in DOMAIN shown : shown'[i] = shown[j]
           /\ (\A i, j \in DOMAIN shown : shown[i].id = shown[j].id => i = j) =>
                \A i, j \in DOMAIN shown' : shown'[i].id = shown'[j].id => i = j
<1>1. CASE e.id \in Ids
  BY <1>1 DEF Prepend
<1>2. CASE e.id \notin Ids
  <2> DEFINE q == <<e>> \o shown
  <2>1. q \in Seq(Rows) /\ Len(q) = Len(shown) + 1
    OBVIOUS
  <2>2. q[1] = e /\ \A i \in DOMAIN q \ {1} : i - 1 \in DOMAIN shown /\ q[i] = shown[i - 1]
    OBVIOUS
  <2>3. shown' = Cut(q, size)
    BY <1>2 DEF Prepend
  <2>4. \A j \in DOMAIN shown : shown[j].id # e.id
    BY <1>2 DEF Ids
  <2> HIDE DEF q
  <2>5. /\ shown' \in Seq(Rows) /\ Len(shown') <= size
        /\ \A i \in DOMAIN shown' : i \in DOMAIN q /\ shown'[i] = q[i]
    BY <2>1, <2>3, CutType
  <2>6. \A i \in DOMAIN shown' : shown'[i] = e \/ \E j \in DOMAIN shown : shown'[i] = shown[j]
    BY <2>2, <2>5
  <2>7. ASSUME \A i, j \in DOMAIN shown : shown[i].id = shown[j].id => i = j,
               NEW i \in DOMAIN shown', NEW j \in DOMAIN shown', shown'[i].id = shown'[j].id
        PROVE  i = j
    <3>1. q[i].id = q[j].id /\ i \in DOMAIN q /\ j \in DOMAIN q
      BY <2>5, <2>7
    <3>2. i \in Nat /\ j \in Nat
      BY <2>1, <3>1
    <3>3. CASE i = 1 \/ j = 1
      BY <2>2, <2>4, <3>1, <3>3
    <3>4. CASE i # 1 /\ j # 1
      <4>1. i - 1 \in DOMAIN shown /\ j - 1 \in DOMAIN shown
            /\ shown[i - 1].id = shown[j - 1].id
        BY <2>2, <3>1, <3>4
      <4>2. i - 1 = j - 1
        BY <2>7, <4>1
      <4> QED BY <3>2, <4>2
    <3> QED BY <3>3, <3>4
  <2> QED BY <2>5, <2>6, <2>7
<1> QED BY <1>1, <1>2

-----------------------------------------------------------------------------
(* Types.                                                                   *)

\* What the types of the list's part of a page say.
LEMMA DeliverTypes ==
    ASSUME TypeOK, Deliver
    PROVE  /\ shown' \in Seq(Rows) /\ unreadCount' \in Nat
           /\ Head(wire) \in Rows /\ wire' \in Seq(Rows)
           /\ \A i \in DOMAIN shown' :
                shown'[i] = Head(wire) \/ \E j \in DOMAIN shown : shown'[i] = shown[j]
           /\ (\A i, j \in DOMAIN shown : shown[i].id = shown[j].id => i = j) =>
                \A i, j \in DOMAIN shown' : shown'[i].id = shown'[j].id => i = j
           /\ \/ shown' = shown
              \/ page = "dashboard" /\ Len(shown') <= RecentSize
              \/ page = "list" /\ Len(shown') <= PageSize
<1>1. Head(wire) \in Rows /\ wire' \in Seq(Rows) /\ shown \in Seq(Rows) /\ unreadCount \in Nat
  BY DEF TypeOK, Deliver
<1>2. CASE page = "dashboard"
  <2>1. Prepend(Head(wire), RecentSize) /\ unreadCount' = unreadCount + 1
    BY <1>2 DEF Deliver, OnDashboard
  <2> QED BY <1>1, <1>2, <2>1, PrependEffect, PagesAssumption
<1>3. CASE page = "list"
  <2>1. unreadCount' \in Nat
    BY <1>1, <1>3 DEF Deliver, OnList
  <2>2. Prepend(Head(wire), PageSize) \/ shown' = shown
    BY <1>3 DEF Deliver, OnList
  <2> QED BY <1>1, <1>3, <2>1, <2>2, PrependEffect, PagesAssumption
<1>4. CASE page \notin {"dashboard", "list"}
  BY <1>1, <1>4 DEF Deliver, listVars
<1> QED BY <1>2, <1>3, <1>4

LEMMA MarkedType ==
    ASSUME shown \in Seq(Rows), NEW ids
    PROVE  /\ Marked(ids) \in Seq(Rows) /\ Len(Marked(ids)) = Len(shown)
           /\ \A i \in DOMAIN shown :
                /\ Marked(ids)[i].id = shown[i].id
                /\ Marked(ids)[i].read => shown[i].read \/ shown[i].id \in ids
<1> DEFINE q == Marked(ids)
<1>1. \A r \in Rows : LET t == [r EXCEPT !.read = TRUE] IN t \in Rows /\ t.id = r.id
  BY DEF Rows
<1>2. DOMAIN q = 1..Len(shown) /\ Len(shown) \in Nat
  BY DEF Marked
<1>3. \A i \in DOMAIN shown : shown[i] \in Rows
  OBVIOUS
<1>4. \A i \in 1..Len(shown) :
        /\ q[i] \in Rows /\ q[i].id = shown[i].id
        /\ q[i].read => shown[i].read \/ shown[i].id \in ids
  BY <1>1, <1>3 DEF Marked
<1>5. q = [i \in 1..Len(shown) |-> q[i]]
  BY DEF Marked
<1> HIDE DEF q
<1>6. q \in [1..Len(shown) -> Rows]
  BY <1>4, <1>5
<1>7. q \in Seq(Rows) /\ Len(q) = Len(shown)
  BY <1>2, <1>6
<1>8. DOMAIN shown = 1..Len(shown)
  OBVIOUS
<1> QED BY <1>4, <1>7, <1>8 DEF q

-----------------------------------------------------------------------------
(* What the steps of the server do to the requests.                         *)

\* Rows that are read, or were before a dispatch wrote them back: what a page
\* may show as read.  The set only grows.
Known == read \cup undone

\* The rows of an answer: each once, read only if they are known so, and as many
\* as were asked for; and a mark that is answered was carried out.
CallOK(c, known) ==
    /\ \A i, j \in DOMAIN c.rows : c.rows[i].id = c.rows[j].id => i = j
    /\ \A i \in DOMAIN c.rows : c.rows[i].read => c.rows[i].id \in known
    /\ c.what = "items" => Len(c.rows) <= Size(c.view)
    /\ c.what = "mark" /\ c.state = "answered" => c.note \in known

Serve(s) ==
    ServeCount(s) \/ ServeItems(s) \/ ServeDetail(s) \/ ServeMark(s) \/ LoadUnread(s) \/ SaveRead(s)

\* A page of a query has no row twice.
LEMMA PageRows ==
    ASSUME NEW v \in Views, NEW k \in Nat, NEW q \in [1..k -> Selected(v)], IsPage(q, v)
    PROVE  \A i, j \in 1..k : q[i] = q[j] => i = j
<1> DEFINE from == (v.page - 1) * Size(v)
           above(n) == Cardinality({m \in Selected(v) : Before(m, n, v)})
<1>1. from \in Int
  <2>1. v.page - 1 \in Int /\ Size(v) \in Int
    BY SizeType DEF Views
  <2> QED BY <2>1
<1>2. \A i \in 1..k : above(q[i]) = from + i - 1
  BY DEF IsPage
<1> HIDE DEF from, above
<1>3. ASSUME NEW i \in 1..k, NEW j \in 1..k, q[i] = q[j]
      PROVE  i = j
  <2>1. from + i - 1 = from + j - 1
    BY <1>2, <1>3
  <2> QED BY <1>1, <2>1
<1> QED BY <1>3

LEMMA PageAnswer ==
    ASSUME NEW v \in Views, NEW k \in 0..Size(v), NEW q \in [1..k -> Selected(v)], IsPage(q, v)
    PROVE  LET rows == [i \in 1..k |-> Row(q[i])] IN
           /\ rows \in Seq(Rows) /\ Len(rows) <= Size(v)
           /\ \A i, j \in DOMAIN rows : rows[i].id = rows[j].id => i = j
           /\ \A i \in DOMAIN rows : rows[i].read => rows[i].id \in read
<1> DEFINE rows == [i \in 1..k |-> Row(q[i])]
<1>1. k \in Nat /\ k <= Size(v)
  BY SizeType
<1>2. \A i \in 1..k : q[i] \in Notes
  BY DEF Selected, Stored
<1>3. \A i \in 1..k : rows[i] \in Rows /\ rows[i].id = q[i] /\ (rows[i].read => q[i] \in read)
  BY <1>2, RowType
<1>4. DOMAIN rows = 1..k /\ rows = [i \in 1..k |-> rows[i]]
  OBVIOUS
<1> HIDE DEF rows
<1>5. rows \in [1..k -> Rows]
  BY <1>3, <1>4
<1>6. rows \in Seq(Rows) /\ Len(rows) = k
  BY <1>1, <1>5
<1>7. \A i, j \in 1..k : rows[i].id = rows[j].id => i = j
  BY <1>1, <1>3, PageRows
<1> QED BY <1>1, <1>3, <1>4, <1>6, <1>7 DEF rows

LEMMA LoadedRows ==
    ASSUME NEW k \in Nat, NEW q \in [1..k -> Rows],
           \A i \in DOMAIN q : q[i].id \in Unread /\ ~q[i].read,
           \A i, j \in DOMAIN q : i < j => q[i].id < q[j].id
    PROVE  /\ q \in Seq(Rows)
           /\ \A i, j \in DOMAIN q : q[i].id = q[j].id => i = j
           /\ \A i \in DOMAIN q : ~q[i].read /\ q[i].id \in Notes
<1>1. \A i \in DOMAIN q : i \in Int /\ q[i].id \in Int /\ q[i].id \in Notes
  BY DEF Rows, Notes
<1>2. ASSUME NEW i \in DOMAIN q, NEW j \in DOMAIN q, q[i].id = q[j].id
      PROVE  i = j
  <2>1. ~(i < j) /\ ~(j < i)
    BY <1>1, <1>2
  <2> QED BY <1>1, <2>1
<1> QED BY <1>1, <1>2

LEMMA ServeEffect ==
    ASSUME TypeOK, NEW s \in Slots, Serve(s), calls[s] # None => CallOK(calls[s], Known)
    PROVE  /\ calls' \in CallsType /\ calls[s] # None /\ calls'[s] # None
           /\ calls'[s].what = calls[s].what /\ calls'[s].view = calls[s].view
           /\ calls'[s].note = calls[s].note /\ calls'[s].mine = calls[s].mine
           /\ \A t \in Slots \ {s} : calls'[t] = calls[t]
           /\ CallOK(calls'[s], Known')
           /\ read \subseteq read' /\ read' \subseteq Notes
           /\ UNCHANGED <<stage, undone, wire, pageVars, turns>>
<1>1. calls[s] # None /\ calls[s] \in Calls /\ calls \in CallsType
  BY DEF Serve, ServeCount, ServeItems, ServeDetail, ServeMark, LoadUnread, SaveRead, Is, TypeOK,
     CallsType
<1>2. <<>> \in Seq(Rows) /\ DOMAIN <<>> = {} /\ Len(<<>>) = 0
  OBVIOUS
<1>3. \A v \in Views : 0 <= Size(v)
  BY SizeType
<1>4. calls[s].view \in Views
  BY <1>1 DEF Calls
<1>5. CASE ServeCount(s)
  <2>1. Answer(s, <<>>, Cardinality(Unread)) /\ read' = read
    BY <1>5 DEF ServeCount
  <2>2. calls[s].what = "count"
    BY <1>5 DEF ServeCount, Is
  <2>3. UNCHANGED <<stage, undone, wire, pageVars, turns>>
    BY <2>1 DEF Answer
  <2>4. CallOK(calls'[s], Known')
    BY <1>1, <1>2, <2>1, <2>2, AnswerEffect, CountsAreNaturals DEF CallOK
  <2> QED BY <1>1, <1>2, <2>1, <2>3, <2>4, AnswerEffect, CountsAreNaturals DEF TypeOK
<1>6. CASE ServeItems(s)
  <2>1. PICK k \in 0..Size(calls[s].view) : \E q \in [1..k -> Selected(calls[s].view)] :
          /\ IsPage(q, calls[s].view)
          /\ Answer(s, [i \in 1..k |-> Row(q[i])], Pages(calls[s].view))
    BY <1>6 DEF ServeItems
  <2>2. PICK q \in [1..k -> Selected(calls[s].view)] :
          /\ IsPage(q, calls[s].view)
          /\ Answer(s, [i \in 1..k |-> Row(q[i])], Pages(calls[s].view))
    BY <2>1
  <2> DEFINE rows == [i \in 1..k |-> Row(q[i])]
  <2>3. /\ rows \in Seq(Rows) /\ Len(rows) <= Size(calls[s].view)
        /\ \A i, j \in DOMAIN rows : rows[i].id = rows[j].id => i = j
        /\ \A i \in DOMAIN rows : rows[i].read => rows[i].id \in read
    BY <1>4, <2>2, PageAnswer
  <2>4. Answer(s, rows, Pages(calls[s].view)) /\ read' = read
    BY <1>6, <2>2 DEF ServeItems
  <2> HIDE DEF rows
  <2>5. calls[s].what = "items"
    BY <1>6 DEF ServeItems, Is
  <2>6. UNCHANGED <<stage, undone, wire, pageVars, turns>>
    BY <2>4 DEF Answer
  <2>7. /\ calls' \in CallsType /\ calls'[s] # None
        /\ calls'[s].what = calls[s].what /\ calls'[s].view = calls[s].view
        /\ calls'[s].note = calls[s].note /\ calls'[s].mine = calls[s].mine
        /\ calls'[s].rows = rows
        /\ \A t \in Slots \ {s} : calls'[t] = calls[t]
    BY <1>1, <1>4, <2>3, <2>4, AnswerEffect, PagesType
  <2>8. Known' = Known
    BY <2>4, <2>6 DEF Known
  <2>9. CallOK(calls'[s], Known')
    BY <2>3, <2>5, <2>7, <2>8 DEF CallOK, Known
  <2> QED BY <1>1, <2>4, <2>6, <2>7, <2>9 DEF TypeOK
<1>7. CASE ServeDetail(s)
  <2> DEFINE rows == <<Row(calls[s].note)>>
  <2>1. Answer(s, rows, 0) /\ read' = read
    BY <1>7 DEF ServeDetail
  <2>2. calls[s].what = "detail" /\ calls[s].note \in Notes
    BY <1>7 DEF ServeDetail, Is, Stored
  <2>3. rows \in Seq(Rows) /\ DOMAIN rows = {1} /\ (rows[1].read => rows[1].id \in read)
    BY <2>2, RowType
  <2> HIDE DEF rows
  <2>4. UNCHANGED <<stage, undone, wire, pageVars, turns>>
    BY <2>1 DEF Answer
  <2>5. CallOK(calls'[s], Known')
    BY <1>1, <2>1, <2>2, <2>3, <2>4, AnswerEffect DEF CallOK, Known
  <2> QED BY <1>1, <2>1, <2>3, <2>4, <2>5, AnswerEffect DEF TypeOK
<1>8. CASE ServeMark(s)
  <2>1. Answer(s, <<>>, 0) /\ read' = read \cup {calls[s].note}
    BY <1>8 DEF ServeMark
  <2>2. calls[s].what = "mark" /\ calls[s].note \in Notes
    BY <1>8 DEF ServeMark, Is, Stored
  <2>3. UNCHANGED <<stage, undone, wire, pageVars, turns>>
    BY <2>1 DEF Answer
  <2>4. CallOK(calls'[s], Known')
    BY <1>1, <1>2, <2>1, <2>2, <2>3, AnswerEffect DEF CallOK, Known
  <2> QED BY <1>1, <1>2, <2>1, <2>2, <2>3, <2>4, AnswerEffect DEF TypeOK
<1>9. CASE LoadUnread(s)
  <2>1. PICK q \in [1..Cardinality(Unread) -> Rows] :
          /\ \A i \in DOMAIN q : q[i].id \in Unread /\ ~q[i].read
          /\ \A i, j \in DOMAIN q : i < j => q[i].id < q[j].id
          /\ calls' = [calls EXCEPT ![s].state = "loaded", ![s].rows = q]
    BY <1>9 DEF LoadUnread
  <2>2. /\ q \in Seq(Rows)
        /\ \A i, j \in DOMAIN q : q[i].id = q[j].id => i = j
        /\ \A i \in DOMAIN q : ~q[i].read
    BY <2>1, LoadedRows, CountsAreNaturals
  <2>3. calls[s].what = "markAll"
    BY <1>9 DEF LoadUnread, Is
  <2> DEFINE c == [calls[s] EXCEPT !.state = "loaded", !.rows = q]
  <2>4. calls' = [calls EXCEPT ![s] = c]
    BY <1>1, <2>1 DEF CallsType, Calls
  <2>5. c \in Calls /\ c.what = "markAll" /\ c.view = calls[s].view /\ c.note = calls[s].note
        /\ c.mine = calls[s].mine /\ c.rows = q
    BY <1>1, <2>2, <2>3 DEF Calls
  <2>6. c # None
    BY <2>5, PagesAssumption
  <2> HIDE DEF c
  <2>7. CallOK(c, Known')
    BY <2>2, <2>5 DEF CallOK
  <2>8. UNCHANGED <<serverVars, wire, pageVars, turns>>
    BY <1>9 DEF LoadUnread
  <2> QED BY <1>1, <2>3, <2>4, <2>5, <2>6, <2>7, <2>8 DEF TypeOK, CallsType, serverVars
<1>10. CASE SaveRead(s)
  <2>1. /\ Answer(s, <<>>, 0)
        /\ read' = read \cup {calls[s].rows[i].id : i \in DOMAIN calls[s].rows}
    BY <1>10 DEF SaveRead
  <2>2. calls[s].what = "markAll"
    BY <1>10 DEF SaveRead, Is
  <2>3. UNCHANGED <<stage, undone, wire, pageVars, turns>>
    BY <2>1 DEF Answer
  <2>4. \A i \in DOMAIN calls[s].rows : calls[s].rows[i].id \in Notes
    <3>1. calls[s].rows \in Seq(Rows)
      BY <1>1 DEF Calls
    <3>2. \A i \in DOMAIN calls[s].rows : calls[s].rows[i] \in Rows
      BY <3>1
    <3> QED BY <3>2 DEF Rows
  <2>5. read \subseteq read' /\ read' \subseteq Notes
    <3>1. {calls[s].rows[i].id : i \in DOMAIN calls[s].rows} \subseteq Notes
      BY <2>4
    <3> QED BY <2>1, <3>1 DEF TypeOK
  <2>6. CallOK(calls'[s], Known')
    BY <1>1, <1>2, <2>1, <2>2, AnswerEffect DEF CallOK
  <2> QED BY <1>1, <1>2, <2>1, <2>3, <2>5, <2>6, AnswerEffect
<1> QED BY <1>5, <1>6, <1>7, <1>8, <1>9, <1>10 DEF Serve

-----------------------------------------------------------------------------
(* What the pages' own steps do to the requests.                            *)

Fresh(c) == c \in Calls /\ c # None /\ c.state = "sent" /\ c.rows = <<>> /\ c.mine

LEMMA NewCallIsFresh ==
    ASSUME NEW what \in {"items", "count", "detail", "mark", "markAll"},
           NEW v \in Views, NEW n \in Notes \cup {None}
    PROVE  LET c == NewCall(what, v, n) IN
           Fresh(c) /\ c.what = what /\ c.view = v /\ c.note = n
<1> DEFINE c == NewCall(what, v, n)
<1>1. c \in Calls /\ c.what = what /\ c.view = v /\ c.note = n
      /\ c.state = "sent" /\ c.rows = <<>> /\ c.mine
  BY NewCallType
<1> HIDE DEF c
<1>2. c # None
  BY <1>1, PagesAssumption
<1>3. Fresh(c) /\ c.what = what /\ c.view = v /\ c.note = n
  BY <1>1, <1>2 DEF Fresh
<1> QED BY <1>3 DEF c

LEMMA FreshCalls ==
    /\ \A v \in Views :
        /\ Fresh(ItemsCall(v)) /\ ItemsCall(v).what = "items" /\ ItemsCall(v).view = v
        /\ Fresh(CountCall(v)) /\ CountCall(v).what = "count" /\ CountCall(v).view = v
    /\ \A n \in Notes :
        /\ Fresh(DetailCall(n)) /\ DetailCall(n).what = "detail"
        /\ Fresh(MarkCall(n)) /\ MarkCall(n).what = "mark" /\ MarkCall(n).note = n
    /\ Fresh(MarkAllCall) /\ MarkAllCall.what = "markAll"
BY NewCallIsFresh, ViewTypes DEF ItemsCall, CountCall, DetailCall, MarkCall, MarkAllCall

\* A page takes an answer, or the failure of a request.
Take(s) ==
    \/ ItemsAnswered(s) \/ CountAnswered(s) \/ DetailAnswered(s) \/ ReadFails(s)
    \/ MarkAnswered(s) \/ MarkAllAnswered(s) \/ MarkFails(s)

LEMMA TakeEffect ==
    ASSUME TypeOK, NEW s \in Slots, Take(s)
    PROVE  /\ calls' \in CallsType
           /\ calls[s] # None /\ calls[s] \in Calls
           /\ \A t \in Slots \ {s} : calls'[t] = calls[t]
           /\ \/ calls'[s] = None
              \/ /\ Fresh(calls'[s])
                 /\ calls[s].what = "items"
                 /\ calls'[s].what = "count" /\ calls'[s].view = calls[s].view
              \/ /\ Fresh(calls'[s])
                 /\ page = "dashboard"
                 /\ calls'[s].what = "items" /\ calls'[s].view = Recent
           /\ UNCHANGED <<serverVars, wire, page, view, turns>>
<1>1. /\ calls[s] # None /\ calls \in CallsType
      /\ UNCHANGED <<serverVars, wire, page, view, turns>>
  BY DEF Take, ItemsAnswered, CountAnswered, DetailAnswered, ReadFails, MarkAnswered,
     MarkAllAnswered, MarkFails, Is, TypeOK, CallsType, viewVars
<1>2. calls[s] \in Calls /\ calls[s].view \in Views
  BY <1>1 DEF CallsType, Calls
<1>3. CASE calls' = Without(s)
  BY <1>1, <1>2, <1>3 DEF Without, CallsType
<1>4. CASE calls' = [calls EXCEPT ![s] = CountCall(calls[s].view)] /\ calls[s].what = "items"
  BY <1>1, <1>2, <1>4, FreshCalls DEF CallsType, Fresh
<1>5. CASE calls' = [calls EXCEPT ![s] = ItemsCall(Recent)] /\ page = "dashboard"
  BY <1>1, <1>2, <1>5, FreshCalls, ViewTypes DEF CallsType, Fresh
<1>6. \/ calls' = Without(s)
      \/ calls' = [calls EXCEPT ![s] = CountCall(calls[s].view)] /\ calls[s].what = "items"
      \/ calls' = [calls EXCEPT ![s] = ItemsCall(Recent)] /\ page = "dashboard"
  <2>1. CASE ItemsAnswered(s)
    BY <2>1 DEF ItemsAnswered, Is
  <2>2. CASE CountAnswered(s) \/ DetailAnswered(s) \/ ReadFails(s) \/ MarkFails(s)
    BY <2>2 DEF CountAnswered, DetailAnswered, ReadFails, MarkFails
  <2>3. CASE MarkAnswered(s) \/ MarkAllAnswered(s)
    <3>1. Emit(s) /\ page' = page
      BY <2>3 DEF MarkAnswered, MarkAllAnswered, viewVars
    <3> QED BY <3>1 DEF Emit
  <2> QED BY <2>1, <2>2, <2>3 DEF Take
<1> QED BY <1>3, <1>4, <1>5, <1>6

\* The requests of a page that is mounted: those that were sent for it, and PUTs
\* of pages that were left.
LEMMA MountEffect ==
    ASSUME calls \in CallsType, NEW p, NEW v, NEW new \in Seq(Calls), Mount(p, v, new)
    PROVE  /\ calls' \in CallsType
           /\ \A s \in Slots : calls'[s] # None =>
                \/ \E i \in DOMAIN new : calls'[s] = new[i]
                \/ /\ calls[s] # None /\ ~calls'[s].mine
                   /\ calls'[s].what \in {"mark", "markAll"} /\ calls'[s].what = calls[s].what
                   /\ calls'[s].note = calls[s].note /\ calls'[s].rows = calls[s].rows
                   /\ calls'[s].state = calls[s].state
           /\ \A i \in DOMAIN new : \E s \in Slots : calls'[s] = new[i]
<1>1. Leave \in CallsType /\ Put(Leave, new)
  BY LeaveEffect DEF Mount
<1>2. /\ calls' \in CallsType
      /\ \A s \in Slots : Leave[s] # None => calls'[s] = Leave[s]
      /\ \A s \in Slots : Leave[s] = None =>
           calls'[s] = None \/ \E i \in DOMAIN new : calls'[s] = new[i]
      /\ \A i \in DOMAIN new : \E s \in Slots : calls'[s] = new[i]
  BY <1>1, PutEffect
<1> QED BY <1>2, LeaveEffect

\* What is mounted, and what it asks for.
LEMMA MountActions ==
    ASSUME TypeOK, OpenDashboard \/ OpenList \/ \E n \in Notes : OpenDetail(n)
    PROVE  \E p \in {"dashboard", "list", "detail"}, v \in Views, new \in Seq(Calls) :
           /\ Mount(p, v, new)
           /\ p = "dashboard" => v = Recent
           /\ p = "list" => v.filter \in Filters
           /\ \E i \in DOMAIN new :
                new[i].what \in Reads /\ (p # "detail" => new[i].what = "items" /\ new[i].view = v)
           /\ \A i \in DOMAIN new :
                /\ Fresh(new[i])
                /\ p = "detail" => new[i].what = "detail"
                /\ p # "detail" => new[i].what = "items" /\ new[i].view = v
<1>1. CASE OpenDashboard
  <2> DEFINE new == <<ItemsCall(Recent)>>
  <2>1. Mount("dashboard", Recent, new)
    BY <1>1 DEF OpenDashboard
  <2>2. /\ new \in Seq(Calls) /\ DOMAIN new = {1} /\ Fresh(new[1])
        /\ new[1].what = "items" /\ new[1].view = Recent
    BY FreshCalls, ViewTypes DEF Fresh
  <2> HIDE DEF new
  <2> QED BY <2>1, <2>2, ViewTypes DEF Reads
<1>2. CASE OpenList
  <2> DEFINE new == <<ItemsCall(FirstView), ItemsCall(FirstView)>>
  <2>1. Mount("list", FirstView, new)
    BY <1>2 DEF OpenList
  <2>2. new \in Seq(Calls) /\ DOMAIN new = {1, 2}
    BY FreshCalls, ViewTypes DEF Fresh
  <2>3. \A i \in {1, 2} : Fresh(new[i]) /\ new[i].what = "items" /\ new[i].view = FirstView
    BY FreshCalls, ViewTypes
  <2> HIDE DEF new
  <2>4. FirstView.filter \in Filters
    BY ViewTypes DEF Filters
  <2> QED BY <2>1, <2>2, <2>3, <2>4, ViewTypes DEF Reads
<1>3. CASE \E n \in Notes : OpenDetail(n)
  <2>1. PICK n \in Notes : OpenDetail(n)
    BY <1>3
  <2> DEFINE new == <<DetailCall(n)>>
  <2>2. Mount("detail", Recent, new)
    BY <2>1 DEF OpenDetail
  <2>3. new \in Seq(Calls) /\ DOMAIN new = {1} /\ Fresh(new[1]) /\ new[1].what = "detail"
    BY FreshCalls DEF Fresh
  <2> HIDE DEF new
  <2> QED BY <2>2, <2>3, ViewTypes DEF Reads
<1> QED BY <1>1, <1>2, <1>3

\* What the list shows next, and what it asks for.
LEMMA ShowActions ==
    ASSUME TypeOK, view.filter \in Filters,
           \/ ChangeSearch \/ SubmitSearch
           \/ \E n \in Notes : ChangePage(n)
           \/ \E f \in Filters : ChangeFilter(f)
    PROVE  \E v \in Views, new \in Seq(Calls) :
           /\ Show(v, new)
           /\ v.filter \in Filters
           /\ \E i \in DOMAIN new : new[i].view = v
           /\ \A i \in DOMAIN new :
                Fresh(new[i]) /\ new[i].what = "items" /\ new[i].view.filter \in Filters
<1>0. view \in Views
  BY DEF TypeOK
<1> DEFINE Shown(v, new) ==
             /\ Show(v, new)
             /\ v \in Views /\ new \in Seq(Calls)
             /\ v.filter \in Filters
             /\ \E i \in DOMAIN new : new[i].view = v
             /\ \A i \in DOMAIN new :
                  Fresh(new[i]) /\ new[i].what = "items" /\ new[i].view.filter \in Filters
<1>1. ASSUME NEW v \in Views, v.filter \in Filters, Show(v, <<ItemsCall(v), ItemsCall(v)>>)
      PROVE  Shown(v, <<ItemsCall(v), ItemsCall(v)>>)
  <2> DEFINE new == <<ItemsCall(v), ItemsCall(v)>>
  <2>1. new \in Seq(Calls) /\ DOMAIN new = {1, 2}
    BY FreshCalls DEF Fresh
  <2>2. \A i \in {1, 2} : Fresh(new[i]) /\ new[i].what = "items" /\ new[i].view = v
    BY FreshCalls
  <2> HIDE DEF new
  <2> QED BY <1>1, <2>1, <2>2 DEF new
<1>2. CASE SubmitSearch
  <2> DEFINE new == <<ItemsCall(view)>>
  <2>1. new \in Seq(Calls) /\ DOMAIN new = {1}
    BY <1>0, FreshCalls DEF Fresh
  <2>2. Fresh(new[1]) /\ new[1].what = "items" /\ new[1].view = view
    BY <1>0, FreshCalls
  <2>3. Show(view, new)
    BY <1>2 DEF SubmitSearch
  <2> HIDE DEF new
  <2>4. Shown(view, new)
    BY <1>0, <2>1, <2>2, <2>3
  <2> QED BY <2>4
<1>3. CASE \E n \in Notes : ChangePage(n)
  <2>1. PICK n \in Notes : ChangePage(n)
    BY <1>3
  <2> DEFINE v == [view EXCEPT !.page = n]
  <2>2. v \in Views /\ v.filter = view.filter
    BY <1>0 DEF Views, Notes
  <2>3. Show(v, <<ItemsCall(v), ItemsCall(v)>>)
    BY <2>1 DEF ChangePage
  <2> HIDE DEF v
  <2>4. Shown(v, <<ItemsCall(v), ItemsCall(v)>>)
    BY <1>1, <2>2, <2>3
  <2> QED BY <2>4
<1>4. CASE \E f \in Filters : ChangeFilter(f)
  <2>1. PICK f \in Filters : ChangeFilter(f)
    BY <1>4
  <2> DEFINE v == [view EXCEPT !.filter = f, !.page = 1]
  <2>2. v \in Views /\ v.filter = f
    <3> DEFINE u == [view EXCEPT !.filter = f]
               w == [u EXCEPT !.page = 1]
    <3>1. v = w
      OBVIOUS
    <3>2. u \in Views /\ u.filter = f
      BY <1>0 DEF Views
    <3> HIDE DEF u, v
    <3>3. w \in Views /\ w.filter = f
      BY <3>2 DEF Views
    <3> QED BY <3>1, <3>3
  <2>3. Show(v, <<ItemsCall(v), ItemsCall(v)>>)
    BY <2>1 DEF ChangeFilter
  <2> HIDE DEF v
  <2>4. Shown(v, <<ItemsCall(v), ItemsCall(v)>>)
    BY <1>1, <2>2, <2>3
  <2> QED BY <2>4
<1>5. CASE ChangeSearch
  <2> DEFINE b == ~view.search
             u == [view EXCEPT !.search = b]
             v == [u EXCEPT !.page = 1]
  <2>1. b \in BOOLEAN
    OBVIOUS
  <2>2. Show(v, IF u = v THEN <<ItemsCall(v), ItemsCall(v)>>
                ELSE <<ItemsCall(u), ItemsCall(u), ItemsCall(v), ItemsCall(v)>>)
    BY <1>5 DEF ChangeSearch
  <2> HIDE DEF b
  <2>3. u \in Views /\ u.filter = view.filter
    BY <1>0, <2>1 DEF Views
  <2> HIDE DEF u
  <2>4. v \in Views /\ v.filter = view.filter
    BY <2>3 DEF Views
  <2> HIDE DEF v
  <2>5. CASE u = v
    <3>1. Shown(v, <<ItemsCall(v), ItemsCall(v)>>)
      BY <1>1, <2>2, <2>4, <2>5
    <3> QED BY <3>1
  <2>6. CASE u # v
    <3> DEFINE new == <<ItemsCall(u), ItemsCall(u), ItemsCall(v), ItemsCall(v)>>
    <3>1. new \in Seq(Calls) /\ DOMAIN new = {1, 2, 3, 4}
      BY <2>3, <2>4, FreshCalls DEF Fresh
    <3>2. /\ \A i \in {1, 2} : Fresh(new[i]) /\ new[i].what = "items" /\ new[i].view = u
          /\ \A i \in {3, 4} : Fresh(new[i]) /\ new[i].what = "items" /\ new[i].view = v
      BY <2>3, <2>4, FreshCalls
    <3>3. Show(v, new)
      BY <2>2, <2>6
    <3> HIDE DEF new
    <3>4. Shown(v, new)
      BY <2>3, <2>4, <3>1, <3>2, <3>3
    <3> QED BY <3>4
  <2> QED BY <2>5, <2>6
<1> QED BY <1>2, <1>3, <1>4, <1>5

\* Which button, and what it asks for.
LEMMA AskActions ==
    ASSUME TypeOK, MarkAll \/ \E n \in Notes : MarkOne(n)
    PROVE  \E key \in Notes \cup {All}, call \in Calls :
           /\ Ask(key, call)
           /\ Fresh(call)
           /\ \/ key = All /\ call.what = "markAll" /\ page = "dashboard"
              \/ key \in Notes /\ call.what = "mark" /\ call.note = key /\ page = "list"
<1>1. CASE MarkAll
  BY <1>1, FreshCalls DEF MarkAll, MarkAllButton, Fresh
<1>2. CASE \E n \in Notes : MarkOne(n)
  <2>1. PICK i \in Notes : MarkOne(i)
    BY <1>2
  <2>2. shown[i].id \in Notes
    <3>1. shown \in Seq(Rows) /\ i \in DOMAIN shown
      BY <2>1 DEF MarkOne, MarkButton, TypeOK
    <3>2. shown[i] \in Rows
      BY <3>1
    <3> QED BY <3>2 DEF Rows
  <2> DEFINE n == shown[i].id
  <2>3. Ask(n, MarkCall(n)) /\ page = "list"
    BY <2>1 DEF MarkOne, MarkButton
  <2> HIDE DEF n
  <2> QED BY <2>2, <2>3, FreshCalls DEF Fresh, n
<1> QED BY <1>1, <1>2

-----------------------------------------------------------------------------
(* Types, answers and pages that fit.                                       *)

\* What a request has to do with the page p.
CallFits(c, p) ==
    /\ c.what \in {"items", "count"} =>
        \/ p = "dashboard" /\ c.view = Recent
        \/ p = "list" /\ c.view.filter \in Filters
    /\ c.what = "detail" => p = "detail"
    /\ c.what = "markAll" /\ c.mine => p = "dashboard"
    /\ c.what = "mark" /\ c.mine => p = "list"

CallsOK == \A s \in Slots : calls[s] # None => CallOK(calls[s], Known)

PageOK ==
    /\ page = "dashboard" => view = Recent
    /\ page = "list" => view.filter \in Filters
    /\ \A s \in Slots : calls[s] # None => CallFits(calls[s], page)

BaseInv == TypeOK /\ CallsOK /\ PageOK

\* The actions, by what they do to the requests.
ServerStep == \E n \in Notes : Push(n) \/ Commit(n) \/ PushAgain(n) \/ DispatchAgain(n)
EventStep == BadgeAnswered \/ BadgeFails \/ Deliver \/ StreamRestarts
MountStep == OpenDashboard \/ OpenList \/ \E n \in Notes : OpenDetail(n)
ShowStep ==
    \/ ChangeSearch \/ SubmitSearch
    \/ \E n \in Notes : ChangePage(n)
    \/ \E f \in Filters : ChangeFilter(f)
AskStep == MarkAll \/ \E n \in Notes : MarkOne(n)

LEMMA StepCases ==
    ASSUME Next
    PROVE  \/ ServerStep \/ EventStep \/ MountStep \/ ShowStep \/ AskStep
           \/ \E s \in Slots : Serve(s) \/ Take(s)
BY DEF Next, ServerStep, EventStep, MountStep, ShowStep, AskStep, Serve, Take

BadgeType == badge \in {"exact", "due", "adrift"} /\ counts \in [asked : Nat, outdated : Nat]

\* With a token, a request is sent.
LEMMA HeardEffect ==
    ASSUME BadgeType, Heard
    PROVE  BadgeType' /\ (badge' = "due" => counts'.asked > 0)
BY DEF BadgeType, Heard

\* When other rows are unread, the tab is due to be counted for if it will hear of
\* something, or has a request that is not outdated.
LEMMA RecountEffect ==
    ASSUME BadgeType, NEW told, Recount(told)
    PROVE  /\ BadgeType'
           /\ \/ UNCHANGED badgeVars
              \/ badge' = "due" => told \/ wire # <<>> \/ counts'.asked > 0
<1>1. CASE UNCHANGED badgeVars
  BY <1>1 DEF BadgeType, badgeVars
<1>2. CASE ~UNCHANGED badgeVars
  <2>1. PICK k \in 0..counts.asked :
          /\ counts' = [asked |-> counts.asked - k, outdated |-> counts.outdated + k]
          /\ badge' = IF told \/ wire # <<>> \/ k < counts.asked THEN "due" ELSE "adrift"
    BY <1>2 DEF Recount
  <2>2. counts.asked \in Nat /\ counts.outdated \in Nat
    BY DEF BadgeType
  <2>3. /\ counts.asked - k \in Nat /\ counts.outdated + k \in Nat
        /\ k < counts.asked => counts.asked - k > 0
    BY <2>2
  <2>4. counts' \in [asked : Nat, outdated : Nat] /\ counts'.asked = counts.asked - k
    BY <2>1, <2>3
  <2>5. badge' \in {"due", "adrift"}
    BY <2>1
  <2>6. badge' = "due" => told \/ wire # <<>> \/ k < counts.asked
    BY <2>1
  <2> QED BY <2>3, <2>4, <2>5, <2>6 DEF BadgeType
<1> QED BY <1>1, <1>2

\* A row becomes read, and never ceases to be known so.
LEMMA ServerStepEffect ==
    ASSUME TypeOK, ServerStep
    PROVE  /\ UNCHANGED <<pageVars, calls>>
           /\ Known \subseteq Known'
           /\ stage' \in [Notes -> {"none", "new", "stored", "again"}]
           /\ read' \subseteq Notes /\ undone' \subseteq Notes
           /\ turns' \in Nat
           /\ \/ wire' = wire
              \/ \E n \in Notes : wire' = Append(wire, Row(n)) /\ Known' = Known
<1>1. PICK n \in Notes : Push(n) \/ Commit(n) \/ PushAgain(n) \/ DispatchAgain(n)
  BY DEF ServerStep
<1>2. turns' \in Nat /\ UNCHANGED <<pageVars, calls>>
  <2>1. CASE Push(n)
    BY <2>1 DEF Push, TypeOK
  <2>2. CASE Commit(n)
    BY <2>2 DEF Commit, TypeOK
  <2>3. CASE PushAgain(n)
    BY <2>3 DEF PushAgain, Turn, TypeOK
  <2>4. CASE DispatchAgain(n)
    BY <2>4 DEF DispatchAgain, TypeOK
  <2> QED BY <1>1, <2>1, <2>2, <2>3, <2>4
<1>3. stage' \in [Notes -> {"none", "new", "stored", "again"}]
  BY <1>1 DEF Push, Commit, PushAgain, DispatchAgain, TypeOK
<1>4. \/ UNCHANGED <<read, undone>>
      \/ read' = read \ {n} /\ undone' = undone \cup (read \cap {n})
  BY <1>1 DEF Push, Commit, PushAgain, DispatchAgain
<1>5. Known \subseteq Known' /\ read' \subseteq Notes /\ undone' \subseteq Notes
  BY <1>4 DEF TypeOK, Known
<1>6. \/ wire' = wire
      \/ wire' = Append(wire, Row(n)) /\ UNCHANGED <<read, undone>>
  <2>1. CASE Push(n)
    BY <2>1 DEF Push
  <2>2. CASE Commit(n)
    BY <2>2 DEF Commit
  <2>3. CASE PushAgain(n)
    BY <2>3 DEF PushAgain
  <2>4. CASE DispatchAgain(n)
    BY <2>4 DEF DispatchAgain
  <2> QED BY <1>1, <2>1, <2>2, <2>3, <2>4
<1> QED BY <1>2, <1>3, <1>5, <1>6 DEF Known

LEMMA ServerStepTypes ==
    ASSUME TypeOK, ServerStep
    PROVE  TypeOK'
<1>1. wire' \in Seq(Rows)
  <2>1. wire \in Seq(Rows)
    BY DEF TypeOK
  <2>2. CASE wire' = wire
    BY <2>1, <2>2
  <2>3. ASSUME NEW n \in Notes, wire' = Append(wire, Row(n))
        PROVE  wire' \in Seq(Rows)
    BY <2>1, <2>3, RowType
  <2> QED BY <2>2, <2>3, ServerStepEffect
<1>2. BadgeType'
  <2>1. PICK n \in Notes : Push(n) \/ Commit(n) \/ PushAgain(n) \/ DispatchAgain(n)
    BY DEF ServerStep
  <2>2. UNCHANGED badgeVars \/ Recount(FALSE)
    BY <2>1 DEF Push, Commit, PushAgain, DispatchAgain
  <2>3. BadgeType
    BY DEF TypeOK, BadgeType
  <2> QED BY <2>2, <2>3, RecountEffect DEF BadgeType, badgeVars
<1> QED BY <1>1, <1>2, ServerStepEffect DEF TypeOK, BadgeType, pageVars, viewVars, listVars

LEMMA ServeTypes ==
    ASSUME TypeOK, CallsOK, NEW s \in Slots, Serve(s)
    PROVE  TypeOK'
<1>1. UNCHANGED badgeVars \/ Recount(TRUE)
  BY DEF Serve, ServeCount, ServeItems, ServeDetail, ServeMark, LoadUnread, SaveRead
<1>2. BadgeType'
  BY <1>1, RecountEffect DEF TypeOK, BadgeType, badgeVars
<1> QED BY <1>2, ServeEffect
    DEF CallsOK, TypeOK, BadgeType, CallsType, pageVars, viewVars, listVars

LEMMA EventTypes ==
    ASSUME TypeOK, EventStep
    PROVE  TypeOK'
<1>1. CASE BadgeAnswered
  <2>1. counts' \in [asked : Nat, outdated : Nat]
    BY <1>1 DEF BadgeAnswered, TypeOK
  <2>2. badge' \in {"exact", "due", "adrift"}
    BY <1>1 DEF BadgeAnswered, TypeOK
  <2> QED BY <1>1, <2>1, <2>2
      DEF BadgeAnswered, TypeOK, serverVars, pageVars, viewVars, listVars
<1>2. CASE BadgeFails
  <2>1. counts' \in [asked : Nat, outdated : Nat]
    BY <1>2 DEF BadgeFails, TypeOK
  <2> QED BY <1>2, <2>1 DEF BadgeFails, TypeOK, serverVars, pageVars, viewVars, listVars
<1>3. CASE Deliver
  <2>1. shown' \in Seq(Rows) /\ unreadCount' \in Nat /\ wire' \in Seq(Rows)
    BY <1>3, DeliverTypes
  <2>2. Heard /\ UNCHANGED <<serverVars, viewVars, loading, error, busy, calls, turns>>
    BY <1>3 DEF Deliver
  <2> QED BY <2>1, <2>2, HeardEffect DEF TypeOK, BadgeType, serverVars, viewVars
<1>4. CASE StreamRestarts
  <2>1. Heard /\ wire' = <<>> /\ turns' \in Nat /\ UNCHANGED <<serverVars, pageVars, calls>>
    BY <1>4 DEF StreamRestarts, Turn, TypeOK
  <2>2. wire' \in Seq(Rows)
    BY <2>1
  <2> QED BY <2>1, <2>2, HeardEffect
      DEF TypeOK, BadgeType, serverVars, pageVars, viewVars, listVars
<1> QED BY <1>1, <1>2, <1>3, <1>4 DEF EventStep

LEMMA TakeTypes ==
    ASSUME TypeOK, NEW s \in Slots, Take(s)
    PROVE  TypeOK'
<1>1. /\ calls' \in CallsType
      /\ calls[s] \in Calls /\ UNCHANGED <<serverVars, wire, page, view, turns>>
  BY TakeEffect
<1>2. calls[s].rows \in Seq(Rows) /\ calls[s].num \in Nat
  BY <1>1 DEF Calls
<1>3. BadgeType'
  <2>1. BadgeType
    BY DEF TypeOK, BadgeType
  <2>2. UNCHANGED badgeVars \/ Heard \/ MarkFails(s)
    BY DEF Take, ItemsAnswered, CountAnswered, DetailAnswered, ReadFails, MarkAnswered,
       MarkAllAnswered, Emit
  <2> QED BY <2>1, <2>2, HeardEffect DEF BadgeType, badgeVars, MarkFails
<1>4. loading' \in BOOLEAN /\ error' \in BOOLEAN
  BY DEF Take, ItemsAnswered, CountAnswered, DetailAnswered, ReadFails, MarkAnswered,
     MarkAllAnswered, MarkFails, Emit, TypeOK
<1>5. busy' \subseteq Notes \cup {All}
  BY DEF Take, ItemsAnswered, CountAnswered, DetailAnswered, ReadFails, MarkAnswered,
     MarkAllAnswered, MarkFails, TypeOK
<1>6. totalPages' \in Nat /\ viewState' \in {"asked", "shown", "failed", "overtaken"}
  BY <1>2 DEF Take, ItemsAnswered, CountAnswered, DetailAnswered, ReadFails, MarkAnswered,
     MarkAllAnswered, MarkFails, TypeOK, viewVars
<1>7. shown' \in Seq(Rows)
  <2>1. shown' \in {shown, calls[s].rows, Marked(Ids), Marked({calls[s].note})}
    BY DEF Take, ItemsAnswered, CountAnswered, DetailAnswered, ReadFails, MarkAnswered,
       MarkAllAnswered, MarkFails, listVars
  <2> QED BY <1>2, <2>1, MarkedType DEF TypeOK
<1>8. unreadCount' \in Nat
  BY <1>2 DEF Take, ItemsAnswered, CountAnswered, DetailAnswered, ReadFails, MarkAnswered,
     MarkAllAnswered, MarkFails, TypeOK, listVars
<1> QED BY <1>1, <1>3, <1>4, <1>5, <1>6, <1>7, <1>8 DEF TypeOK, BadgeType, CallsType, serverVars

LEMMA MountTypes ==
    ASSUME TypeOK, NEW p \in {"dashboard", "list", "detail"}, NEW v \in Views,
           NEW new \in Seq(Calls), Mount(p, v, new)
    PROVE  TypeOK'
<1>1. calls' \in CallsType
  BY MountEffect DEF TypeOK, CallsType
<1>2. /\ page' = p /\ view' = v /\ viewState' = "asked" /\ totalPages' = 1
      /\ shown' = <<>> /\ unreadCount' = 0 /\ loading' = TRUE /\ error' = FALSE /\ busy' = {}
      /\ turns' \in Nat /\ UNCHANGED <<serverVars, wire, badgeVars>>
  BY DEF Mount, Click, Turn, TypeOK
<1>3. shown' \in Seq(Rows)
  BY <1>2
<1> QED BY <1>1, <1>2, <1>3 DEF TypeOK, CallsType, serverVars, badgeVars

LEMMA ShowTypes ==
    ASSUME TypeOK, NEW v \in Views, NEW new \in Seq(Calls), Show(v, new)
    PROVE  TypeOK'
<1>1. calls \in CallsType /\ Put(calls, new)
  BY DEF TypeOK, CallsType, Show
<1>2. calls' \in CallsType
  BY <1>1, PutEffect
<1>3. /\ view' = v /\ viewState' = "asked" /\ loading' = TRUE /\ error' = FALSE
      /\ turns' \in Nat /\ UNCHANGED <<serverVars, wire, badgeVars, page, totalPages, listVars, busy>>
  BY DEF Show, Click, Turn, TypeOK
<1> QED BY <1>2, <1>3 DEF TypeOK, CallsType, serverVars, badgeVars, listVars

\* A button adds its request to those that are there.
LEMMA AskEffect ==
    ASSUME calls \in CallsType, NEW key, NEW call \in Calls, Ask(key, call)
    PROVE  /\ calls' \in CallsType
           /\ \A s \in Slots : calls[s] # None => calls'[s] = calls[s]
           /\ \A s \in Slots : calls[s] = None => calls'[s] \in {None, call}
           /\ \E s \in Slots : calls'[s] = call
<1>1. <<call>> \in Seq(Calls) /\ DOMAIN <<call>> = {1} /\ <<call>>[1] = call
  OBVIOUS
<1> DEFINE new == <<call>>
<1>2. Put(calls, new)
  BY DEF Ask
<1> HIDE DEF new
<1>3. /\ calls' \in CallsType
      /\ \A s \in Slots : calls[s] # None => calls'[s] = calls[s]
      /\ \A s \in Slots : calls[s] = None =>
           calls'[s] = None \/ \E i \in DOMAIN new : calls'[s] = new[i]
      /\ \A i \in DOMAIN new : \E s \in Slots : calls'[s] = new[i]
  BY <1>1, <1>2, PutEffect DEF new
<1> QED BY <1>1, <1>3 DEF new

LEMMA AskTypes ==
    ASSUME TypeOK, NEW key \in Notes \cup {All}, NEW call \in Calls, Ask(key, call)
    PROVE  TypeOK'
<1>1. calls' \in CallsType
  BY AskEffect DEF TypeOK, CallsType
<1>2. /\ busy' = busy \cup {key} /\ turns' \in Nat
      /\ UNCHANGED <<serverVars, wire, badgeVars, viewVars, listVars, loading, error>>
  BY DEF Ask, Click, Turn, TypeOK
<1> QED BY <1>1, <1>2 DEF TypeOK, CallsType, serverVars, badgeVars, viewVars, listVars

-----------------------------------------------------------------------------
(* The answers and the pages fit, whatever happens.                         *)

LEMMA FreshIsOK ==
    ASSUME NEW c, Fresh(c), NEW known
    PROVE  CallOK(c, known)
<1>1. c.view \in Views /\ c.rows = <<>> /\ c.state = "sent"
  BY DEF Fresh, Calls
<1>2. DOMAIN <<>> = {} /\ Len(<<>>) = 0
  OBVIOUS
<1>3. 0 <= Size(c.view)
  BY <1>1, SizeType
<1> QED BY <1>1, <1>2, <1>3 DEF CallOK

LEMMA KnownGrows ==
    ASSUME NEW c, NEW known, NEW more, known \subseteq more, CallOK(c, known)
    PROVE  CallOK(c, more)
BY DEF CallOK

LEMMA BaseInit ==
    ASSUME Init
    PROVE  BaseInv
<1>1. PICK s \in Slots : calls = [t \in Slots |-> IF t = s THEN ItemsCall(Recent) ELSE None]
  BY DEF Init
<1>2. /\ Fresh(ItemsCall(Recent)) /\ ItemsCall(Recent).what = "items"
      /\ ItemsCall(Recent).view = Recent
  BY FreshCalls, ViewTypes
<1>3. calls \in CallsType /\ \A t \in Slots : calls[t] # None => calls[t] = ItemsCall(Recent)
  BY <1>1, <1>2 DEF CallsType, Fresh
<1>4. TypeOK
  <2>1. wire \in Seq(Rows) /\ shown \in Seq(Rows)
    BY DEF Init
  <2> QED BY <1>3, <2>1, ViewTypes DEF Init, TypeOK, CallsType
<1>5. CallsOK
  BY <1>2, <1>3, FreshIsOK DEF CallsOK
<1>6. PageOK
  BY <1>2, <1>3 DEF PageOK, CallFits, Init
<1> QED BY <1>4, <1>5, <1>6 DEF BaseInv

LEMMA ServerKeeps ==
    ASSUME BaseInv, ServerStep
    PROVE  BaseInv'
<1>1. TypeOK' /\ Known \subseteq Known' /\ UNCHANGED <<calls, page, view>>
  BY ServerStepTypes, ServerStepEffect DEF BaseInv, pageVars, viewVars
<1>2. CallsOK'
  BY <1>1, KnownGrows DEF BaseInv, CallsOK
<1>3. PageOK'
  BY <1>1 DEF BaseInv, PageOK
<1> QED BY <1>1, <1>2, <1>3 DEF BaseInv

LEMMA ServeKeeps ==
    ASSUME BaseInv, NEW s \in Slots, Serve(s)
    PROVE  BaseInv'
<1>1. TypeOK' /\ calls[s] # None => CallOK(calls[s], Known)
  BY DEF BaseInv, CallsOK
<1>2. /\ calls[s] # None /\ calls'[s] # None
      /\ calls'[s].what = calls[s].what /\ calls'[s].view = calls[s].view
      /\ calls'[s].note = calls[s].note /\ calls'[s].mine = calls[s].mine
      /\ \A t \in Slots \ {s} : calls'[t] = calls[t]
      /\ CallOK(calls'[s], Known')
      /\ read \subseteq read' /\ UNCHANGED <<undone, pageVars>>
  BY ServeEffect DEF BaseInv, CallsOK
<1>3. Known \subseteq Known' /\ UNCHANGED <<page, view>>
  BY <1>2 DEF Known, pageVars, viewVars
<1>4. CallsOK'
  BY <1>2, <1>3, KnownGrows DEF BaseInv, CallsOK
<1>5. PageOK'
  BY <1>2, <1>3 DEF BaseInv, PageOK, CallFits
<1> QED BY <1>4, <1>5, ServeTypes DEF BaseInv

LEMMA EventKeeps ==
    ASSUME BaseInv, EventStep
    PROVE  BaseInv'
<1>1. UNCHANGED <<read, undone, calls, page, view>>
  BY DEF EventStep, BadgeAnswered, BadgeFails, Deliver, StreamRestarts, serverVars, pageVars,
     viewVars
<1>2. CallsOK' /\ PageOK'
  BY <1>1 DEF BaseInv, CallsOK, PageOK, Known
<1> QED BY <1>2, EventTypes DEF BaseInv

LEMMA TakeKeeps ==
    ASSUME BaseInv, NEW s \in Slots, Take(s)
    PROVE  BaseInv'
<1>1. /\ calls[s] # None
      /\ \A t \in Slots \ {s} : calls'[t] = calls[t]
      /\ \/ calls'[s] = None
         \/ /\ Fresh(calls'[s])
            /\ calls[s].what = "items"
            /\ calls'[s].what = "count" /\ calls'[s].view = calls[s].view
         \/ /\ Fresh(calls'[s])
            /\ page = "dashboard"
            /\ calls'[s].what = "items" /\ calls'[s].view = Recent
      /\ UNCHANGED <<serverVars, page, view>>
  BY TakeEffect DEF BaseInv
<1>2. Known' = Known
  BY <1>1 DEF Known, serverVars
<1>3. CallsOK'
  BY <1>1, <1>2, FreshIsOK DEF BaseInv, CallsOK
<1>4. CallFits(calls[s], page)
  BY <1>1 DEF BaseInv, PageOK
<1>5. calls'[s] # None => CallFits(calls'[s], page)
  BY <1>1, <1>4 DEF CallFits
<1>6. PageOK'
  BY <1>1, <1>5 DEF BaseInv, PageOK
<1> QED BY <1>3, <1>6, TakeTypes DEF BaseInv

LEMMA MountKeeps ==
    ASSUME BaseInv, MountStep
    PROVE  BaseInv'
<1>1. PICK p \in {"dashboard", "list", "detail"}, v \in Views, new \in Seq(Calls) :
        /\ Mount(p, v, new)
        /\ p = "dashboard" => v = Recent
        /\ p = "list" => v.filter \in Filters
        /\ \A i \in DOMAIN new :
             /\ Fresh(new[i])
             /\ p = "detail" => new[i].what = "detail"
             /\ p # "detail" => new[i].what = "items" /\ new[i].view = v
  BY MountActions DEF BaseInv, MountStep
<1>2. page' = p /\ view' = v /\ Known' = Known
  BY <1>1 DEF Mount, Click, serverVars, Known
<1>3. \A s \in Slots : calls'[s] # None =>
        \/ \E i \in DOMAIN new : calls'[s] = new[i]
        \/ /\ calls[s] # None /\ ~calls'[s].mine
           /\ calls'[s].what \in {"mark", "markAll"} /\ calls'[s].what = calls[s].what
           /\ calls'[s].note = calls[s].note /\ calls'[s].rows = calls[s].rows
           /\ calls'[s].state = calls[s].state
  BY <1>1, MountEffect DEF BaseInv, TypeOK, CallsType
<1>4. CallsOK'
  <2>1. SUFFICES ASSUME NEW s \in Slots, calls'[s] # None
                 PROVE  CallOK(calls'[s], Known)
    BY <1>2 DEF CallsOK
  <2>2. CASE \E i \in DOMAIN new : calls'[s] = new[i]
    BY <1>1, <2>2, FreshIsOK
  <2>3. CASE ~\E i \in DOMAIN new : calls'[s] = new[i]
    BY <1>3, <2>1, <2>3 DEF BaseInv, CallsOK, CallOK
  <2> QED BY <2>2, <2>3
<1>5. PageOK'
  <2>1. SUFFICES ASSUME NEW s \in Slots, calls'[s] # None
                 PROVE  CallFits(calls'[s], p)
    BY <1>1, <1>2 DEF PageOK
  <2>2. CASE \E i \in DOMAIN new : calls'[s] = new[i]
    BY <1>1, <2>2 DEF CallFits
  <2>3. CASE ~\E i \in DOMAIN new : calls'[s] = new[i]
    BY <1>3, <2>1, <2>3 DEF CallFits
  <2> QED BY <2>2, <2>3
<1> QED BY <1>1, <1>4, <1>5, MountTypes DEF BaseInv

LEMMA ShowKeeps ==
    ASSUME BaseInv, ShowStep
    PROVE  BaseInv'
<1>1. page = "list" /\ view.filter \in Filters
  BY DEF ShowStep, ChangeSearch, SubmitSearch, ChangePage, ChangeFilter, Show, BaseInv, PageOK
<1>2. PICK v \in Views, new \in Seq(Calls) :
        /\ Show(v, new)
        /\ v.filter \in Filters
        /\ \A i \in DOMAIN new :
             Fresh(new[i]) /\ new[i].what = "items" /\ new[i].view.filter \in Filters
  BY <1>1, ShowActions DEF BaseInv, ShowStep
<1>3. page' = page /\ view' = v /\ Known' = Known
  BY <1>2 DEF Show, Click, serverVars, Known
<1>4. \A s \in Slots : calls'[s] # None =>
        calls'[s] = calls[s] \/ \E i \in DOMAIN new : calls'[s] = new[i]
  BY <1>2, PutEffect DEF Show, BaseInv, TypeOK, CallsType
<1>5. CallsOK'
  BY <1>2, <1>3, <1>4, FreshIsOK DEF BaseInv, CallsOK
<1>6. PageOK'
  BY <1>1, <1>2, <1>3, <1>4 DEF BaseInv, PageOK, CallFits
<1> QED BY <1>2, <1>5, <1>6, ShowTypes DEF BaseInv

LEMMA AskKeeps ==
    ASSUME BaseInv, AskStep
    PROVE  BaseInv'
<1>1. PICK key \in Notes \cup {All}, call \in Calls :
        /\ Ask(key, call)
        /\ Fresh(call)
        /\ \/ key = All /\ call.what = "markAll" /\ page = "dashboard"
           \/ key \in Notes /\ call.what = "mark" /\ call.note = key /\ page = "list"
  BY AskActions DEF BaseInv, AskStep
<1>2. UNCHANGED <<page, view>> /\ Known' = Known
  BY <1>1 DEF Ask, Click, serverVars, viewVars, Known
<1>3. \A s \in Slots : calls'[s] \in {None, calls[s], call}
  BY <1>1, AskEffect DEF BaseInv, TypeOK, CallsType
<1>4. CallsOK'
  BY <1>1, <1>2, <1>3, FreshIsOK DEF BaseInv, CallsOK
<1>5. CallFits(call, page)
  BY <1>1 DEF CallFits
<1>6. PageOK'
  BY <1>2, <1>3, <1>5 DEF BaseInv, PageOK
<1> QED BY <1>1, <1>4, <1>6, AskTypes DEF BaseInv

LEMMA BaseNext ==
    ASSUME BaseInv, [Next]_vars
    PROVE  BaseInv'
<1>1. CASE UNCHANGED vars
  BY <1>1 DEF BaseInv, TypeOK, CallsOK, PageOK, Known, vars, serverVars, badgeVars, pageVars,
     viewVars, listVars
<1>2. CASE Next
  BY <1>2, StepCases, ServerKeeps, ServeKeeps, EventKeeps, TakeKeeps, MountKeeps, ShowKeeps,
     AskKeeps
<1> QED BY <1>1, <1>2

\* The variables have their types, and an answer and a page fit each other.
THEOREM PagesTypes == Spec => []TypeOK
<1>1. Init => BaseInv
  BY BaseInit
<1>2. BaseInv /\ [Next]_vars => BaseInv'
  BY BaseNext
<1>3. BaseInv => TypeOK
  BY DEF BaseInv
<1> QED BY <1>1, <1>2, <1>3, PTL DEF Spec

LEMMA BaseAlways == Spec => []BaseInv
<1>1. Init => BaseInv
  BY BaseInit
<1>2. BaseInv /\ [Next]_vars => BaseInv'
  BY BaseNext
<1> QED BY <1>1, <1>2, PTL DEF Spec

-----------------------------------------------------------------------------
(* The badge.                                                               *)

\* A PUT whose answer the event bus will tell of.
IsTold(c) == c # None /\ c.what \in {"mark", "markAll"} /\ c.state = "answered"

LEMMA BadgeHope ==
    BadgeCatchesUp <=>
        (badge = "due" => counts.asked > 0 \/ wire # <<>> \/ \E s \in Slots : IsTold(calls[s]))
BY DEF BadgeCatchesUp, Is, IsTold

LEMMA BadgeKept ==
    ASSUME BadgeCatchesUp, UNCHANGED badgeVars, wire # <<>> => wire' # <<>>,
           \A s \in Slots : IsTold(calls[s]) => \E t \in Slots : IsTold(calls'[t])
    PROVE  BadgeCatchesUp'
BY BadgeHope DEF BadgeCatchesUp, Is, IsTold, badgeVars

LEMMA BadgeServer ==
    ASSUME TypeOK, BadgeCatchesUp, ServerStep
    PROVE  BadgeCatchesUp'
<1>1. PICK n \in Notes : Push(n) \/ Commit(n) \/ PushAgain(n) \/ DispatchAgain(n)
  BY DEF ServerStep
<1>2. calls' = calls /\ BadgeType /\ wire \in Seq(Rows)
  BY ServerStepEffect DEF TypeOK, BadgeType
<1>3. CASE Push(n) \/ PushAgain(n)
  <2>1. wire' = Append(wire, Row(n)) /\ UNCHANGED badgeVars
    BY <1>3 DEF Push, PushAgain
  <2>2. wire' # <<>>
    BY <1>2, <2>1
  <2> QED BY <1>2, <2>1, <2>2, BadgeKept
<1>4. CASE Commit(n) \/ DispatchAgain(n)
  <2>1. Recount(FALSE) /\ wire' = wire
    BY <1>4 DEF Commit, DispatchAgain
  <2>2. CASE UNCHANGED badgeVars
    BY <1>2, <2>1, <2>2, BadgeKept
  <2>3. CASE badge' = "due" => wire # <<>> \/ counts'.asked > 0
    BY <2>1, <2>3 DEF BadgeCatchesUp
  <2> QED BY <1>2, <2>1, <2>2, <2>3, RecountEffect
<1> QED BY <1>1, <1>3, <1>4

LEMMA BadgeServe ==
    ASSUME TypeOK, CallsOK, BadgeCatchesUp, NEW s \in Slots, Serve(s)
    PROVE  BadgeCatchesUp'
<1>1. /\ calls[s] # None /\ calls'[s] # None /\ calls'[s].what = calls[s].what
      /\ \A t \in Slots \ {s} : calls'[t] = calls[t]
      /\ wire' = wire /\ BadgeType
  BY ServeEffect DEF CallsOK, TypeOK, BadgeType
<1>2. CASE ServeMark(s) \/ SaveRead(s)
  <2>1. calls[s].what \in {"mark", "markAll"} /\ Answer(s, <<>>, 0)
    BY <1>2 DEF ServeMark, SaveRead, Is
  <2>2. calls \in CallsType /\ <<>> \in Seq(Rows)
    BY DEF TypeOK, CallsType
  <2>3. calls'[s].state = "answered"
    BY <1>1, <2>1, <2>2, AnswerEffect
  <2> QED BY <1>1, <2>1, <2>3 DEF BadgeCatchesUp, Is
<1>3. CASE ServeCount(s) \/ ServeItems(s) \/ ServeDetail(s) \/ LoadUnread(s)
  <2>1. UNCHANGED badgeVars
    BY <1>3 DEF ServeCount, ServeItems, ServeDetail, LoadUnread
  <2>2. ~IsTold(calls[s])
    BY <1>3 DEF ServeCount, ServeItems, ServeDetail, LoadUnread, Is, IsTold
  <2> QED BY <1>1, <2>1, <2>2, BadgeKept
<1> QED BY <1>2, <1>3 DEF Serve

LEMMA BadgeTake ==
    ASSUME TypeOK, BadgeCatchesUp, NEW s \in Slots, Take(s)
    PROVE  BadgeCatchesUp'
<1>1. /\ \A t \in Slots \ {s} : calls'[t] = calls[t]
      /\ wire' = wire /\ BadgeType
  BY TakeEffect DEF TypeOK, BadgeType
<1>2. CASE ItemsAnswered(s) \/ CountAnswered(s) \/ DetailAnswered(s) \/ ReadFails(s)
  <2>1. UNCHANGED badgeVars /\ ~IsTold(calls[s])
    BY <1>2 DEF ItemsAnswered, CountAnswered, DetailAnswered, ReadFails, Reads, Is, IsTold
  <2> QED BY <1>1, <2>1, BadgeKept
<1>3. CASE MarkAnswered(s) \/ MarkAllAnswered(s)
  <2>1. Heard
    BY <1>3 DEF MarkAnswered, MarkAllAnswered, Emit
  <2> QED BY <1>1, <2>1, HeardEffect DEF BadgeCatchesUp
<1>4. CASE MarkFails(s)
  <2>1. CASE calls[s].state = "answered"
    <3>1. badge' # "due"
      BY <1>4, <2>1 DEF MarkFails
    <3> QED BY <3>1 DEF BadgeCatchesUp
  <2>2. CASE calls[s].state # "answered"
    <3>1. UNCHANGED badgeVars /\ ~IsTold(calls[s])
      BY <1>4, <2>2 DEF MarkFails, badgeVars, IsTold
    <3> QED BY <1>1, <3>1, BadgeKept
  <2> QED BY <2>1, <2>2
<1> QED BY <1>2, <1>3, <1>4 DEF Take

\* A page is left, but not its PUTs.
LEMMA BadgeUser ==
    ASSUME TypeOK, CallsOK, PageOK, BadgeCatchesUp, MountStep \/ ShowStep \/ AskStep
    PROVE  BadgeCatchesUp'
<1>1. calls \in CallsType
  BY DEF TypeOK, CallsType
<1>2. CASE MountStep
  <2>1. PICK p \in {"dashboard", "list", "detail"}, v \in Views, new \in Seq(Calls) :
          Mount(p, v, new)
    BY <1>2, MountActions DEF MountStep
  <2>2. Leave \in CallsType /\ Put(Leave, new)
    BY <1>1, <2>1, LeaveEffect DEF Mount
  <2>3. \A s \in Slots : Leave[s] # None => calls'[s] = Leave[s]
    BY <2>2, PutEffect
  <2>4. ASSUME NEW s \in Slots, IsTold(calls[s])
        PROVE  IsTold(calls'[s])
    <3>1. calls[s] # None /\ calls[s].what \notin Reads /\ calls[s] \in Calls
      BY <1>1, <2>4 DEF IsTold, Reads, CallsType
    <3>2. Leave[s] = [calls[s] EXCEPT !.mine = FALSE]
      BY <3>1 DEF Leave
    <3>3. /\ Leave[s].what = calls[s].what /\ Leave[s].state = calls[s].state
          /\ Leave[s] \in Calls
      BY <3>1, <3>2 DEF Calls
    <3>4. Leave[s] # None
      BY <3>3, PagesAssumption
    <3> QED BY <2>3, <2>4, <3>3, <3>4 DEF IsTold
  <2>5. UNCHANGED badgeVars /\ wire' = wire
    BY <2>1 DEF Mount, Click
  <2> QED BY <2>4, <2>5, BadgeKept
<1>3. CASE ShowStep
  <2>1. page = "list" /\ view.filter \in Filters
    BY <1>3 DEF ShowStep, ChangeSearch, SubmitSearch, ChangePage, ChangeFilter, Show, PageOK
  <2>2. PICK v \in Views, new \in Seq(Calls) : Show(v, new)
    BY <1>3, <2>1, ShowActions DEF ShowStep
  <2>3. \A s \in Slots : calls[s] # None => calls'[s] = calls[s]
    BY <1>1, <2>2, PutEffect DEF Show
  <2>4. UNCHANGED badgeVars /\ wire' = wire
    BY <2>2 DEF Show, Click
  <2> QED BY <2>3, <2>4, BadgeKept DEF IsTold
<1>4. CASE AskStep
  <2>1. PICK key \in Notes \cup {All}, call \in Calls : Ask(key, call)
    BY <1>4, AskActions DEF AskStep
  <2>2. \A s \in Slots : calls[s] # None => calls'[s] = calls[s]
    BY <1>1, <2>1, AskEffect
  <2>3. UNCHANGED badgeVars /\ wire' = wire
    BY <2>1 DEF Ask, Click
  <2> QED BY <2>2, <2>3, BadgeKept DEF IsTold
<1> QED BY <1>2, <1>3, <1>4

LEMMA BadgeNext ==
    ASSUME BaseInv, BadgeCatchesUp, [Next]_vars
    PROVE  BadgeCatchesUp'
<1> USE DEF BaseInv
<1>1. BadgeType
  BY DEF TypeOK, BadgeType
<1>2. CASE BadgeAnswered
  BY <1>1, <1>2 DEF BadgeAnswered, BadgeCatchesUp, BadgeType, Is
<1>3. CASE BadgeFails
  <2>1. badge' # "due"
    BY <1>3 DEF BadgeFails
  <2> QED BY <2>1 DEF BadgeCatchesUp
<1>4. CASE Deliver \/ StreamRestarts
  <2>1. Heard
    BY <1>4 DEF Deliver, StreamRestarts
  <2> QED BY <1>1, <2>1, HeardEffect DEF BadgeCatchesUp
<1>5. CASE UNCHANGED vars
  BY <1>5, BadgeKept DEF vars
<1> QED BY <1>2, <1>3, <1>4, <1>5, BadgeServer, BadgeServe, BadgeTake, BadgeUser, StepCases
    DEF EventStep

\* Whatever changes the unread rows, and however answers, events, lost streams and
\* requests cross, a badge that is not exact is being corrected, or one of the
\* causes that BadgeCatchesUp names has left it adrift.
THEOREM PagesBadge == Spec => []BadgeCatchesUp
<1>1. Init => BadgeCatchesUp
  BY DEF Init, BadgeCatchesUp
<1>2. BaseInv /\ BadgeCatchesUp /\ [Next]_vars => BadgeCatchesUp'
  BY BadgeNext
<1> QED BY <1>1, <1>2, BaseAlways, PTL DEF Spec

-----------------------------------------------------------------------------
(* The rows of a page.                                                      *)

LEMMA ShownNext ==
    ASSUME BaseInv, ShownOnce, [Next]_vars
    PROVE  ShownOnce'
<1>1. shown \in Seq(Rows)
  BY DEF BaseInv, TypeOK
<1>2. CASE UNCHANGED <<shown, page>>
  BY <1>2 DEF ShownOnce
<1>3. CASE Deliver
  <2>1. page' = page
    BY <1>3 DEF Deliver, viewVars
  <2> QED BY <1>3, <2>1, DeliverTypes DEF ShownOnce, BaseInv
<1>4. ASSUME NEW s \in Slots, Take(s)
      PROVE  ShownOnce'
  <2>1. /\ calls[s] # None /\ calls[s] \in Calls /\ page' = page
        /\ CallOK(calls[s], Known) /\ CallFits(calls[s], page)
    BY <1>4, TakeEffect DEF BaseInv, CallsOK, PageOK
  <2>2. \/ shown' = shown
        \/ shown' = calls[s].rows /\ calls[s].what \in {"items", "detail"}
        \/ \E ids : shown' = Marked(ids)
    BY <1>4 DEF Take, ItemsAnswered, CountAnswered, DetailAnswered, ReadFails, MarkAnswered,
       MarkAllAnswered, MarkFails, listVars, Is
  <2>3. CASE shown' = shown
    BY <1>2, <2>1, <2>3
  <2>4. ASSUME NEW ids, shown' = Marked(ids)
        PROVE  ShownOnce'
    BY <1>1, <2>1, <2>4, MarkedType DEF ShownOnce
  <2>5. CASE shown' = calls[s].rows /\ calls[s].what = "detail"
    BY <2>1, <2>5 DEF ShownOnce, CallOK, CallFits
  <2>6. CASE shown' = calls[s].rows /\ calls[s].what = "items"
    <3>1. Len(shown') <= Size(calls[s].view)
      BY <2>1, <2>6 DEF CallOK
    <3>2. page = "dashboard" => Size(calls[s].view) = RecentSize
      BY <2>1, <2>6 DEF CallFits, Size, Recent
    <3>3. page = "list" => Size(calls[s].view) = PageSize
      BY <2>1, <2>6, PagesAssumption DEF CallFits, Size, Filters
    <3> QED BY <2>1, <2>6, <3>1, <3>2, <3>3 DEF ShownOnce, CallOK
  <2> QED BY <2>2, <2>3, <2>4, <2>5, <2>6
<1>5. CASE MountStep
  <2>1. shown' = <<>> /\ RecentSize \in Nat /\ PageSize \in Nat
    BY <1>5, PagesAssumption DEF MountStep, OpenDashboard, OpenList, OpenDetail, Mount
  <2> QED BY <2>1 DEF ShownOnce
<1>6. CASE ServerStep \/ ShowStep \/ AskStep \/ (EventStep /\ ~Deliver)
           \/ \E s \in Slots : Serve(s)
  BY <1>2, <1>6 DEF ServerStep, Push, Commit, PushAgain, DispatchAgain, ShowStep, ChangeSearch,
     SubmitSearch, ChangePage, ChangeFilter, Show, AskStep, MarkAll, MarkOne, Ask, EventStep,
     BadgeAnswered, BadgeFails, StreamRestarts, Serve, ServeCount, ServeItems, ServeDetail,
     ServeMark, LoadUnread, SaveRead, Answer, pageVars, viewVars, listVars
<1>7. CASE UNCHANGED vars
  BY <1>2, <1>7 DEF vars, pageVars, viewVars, listVars
<1> QED BY <1>3, <1>4, <1>5, <1>6, <1>7, StepCases

\* In whatever order answers and events come, no page shows a row twice or more
\* rows than its size.
THEOREM PagesShownOnce == Spec => []ShownOnce
<1>1. Init => ShownOnce
  <2>1. ASSUME Init
        PROVE  ShownOnce
    <3>1. shown = <<>> /\ RecentSize \in Nat /\ PageSize \in Nat
      BY <2>1, PagesAssumption DEF Init
    <3> QED BY <3>1 DEF ShownOnce
  <2> QED BY <2>1
<1>2. BaseInv /\ ShownOnce /\ [Next]_vars => ShownOnce'
  BY ShownNext
<1> QED BY <1>1, <1>2, BaseAlways, PTL DEF Spec

-----------------------------------------------------------------------------
(* Spinners.                                                                *)

LEMMA SpinnerInit ==
    ASSUME Init
    PROVE  SpinnerHasCall
<1>1. PICK s \in Slots : calls = [t \in Slots |-> IF t = s THEN ItemsCall(Recent) ELSE None]
  BY DEF Init
<1>2. calls[s] # None /\ calls[s].what = "items"
  BY <1>1, FreshCalls, ViewTypes DEF Fresh
<1> QED BY <1>2 DEF SpinnerHasCall, InFlight, Reads, Init

\* The requests that buttons wait for.
ButtonsHaveCalls ==
    \A k \in busy : \E s \in Slots :
        calls[s] # None /\ calls[s].mine
        /\ IF k = All THEN calls[s].what = "markAll"
           ELSE calls[s].what = "mark" /\ calls[s].note = k

\* A request that ends: it is the one a button waited for, and the button is free.
LEMMA TakeButtons ==
    ASSUME BaseInv, ButtonsHaveCalls, NEW s \in Slots, Take(s)
    PROVE  ButtonsHaveCalls'
<1>1. /\ calls[s] # None /\ calls[s] \in Calls
      /\ \A t \in Slots \ {s} : calls'[t] = calls[t]
  BY TakeEffect DEF BaseInv
<1>2. \/ calls[s].what \in Reads /\ busy' = busy
      \/ calls[s].what \notin Reads /\ ~calls[s].mine /\ busy' = busy
      \/ calls[s].what = "mark" /\ busy' = busy \ {calls[s].note}
      \/ calls[s].what = "markAll" /\ busy' = busy \ {All}
  BY DEF Take, ItemsAnswered, CountAnswered, DetailAnswered, ReadFails, MarkAnswered,
     MarkAllAnswered, MarkFails, Is, Reads
<1>3. SUFFICES ASSUME NEW k \in busy'
               PROVE  \E t \in Slots :
                        calls'[t] # None /\ calls'[t].mine
                        /\ IF k = All THEN calls'[t].what = "markAll"
                           ELSE calls'[t].what = "mark" /\ calls'[t].note = k
  BY DEF ButtonsHaveCalls
<1>4. k \in busy
  BY <1>2
<1>5. PICK t \in Slots :
        calls[t] # None /\ calls[t].mine
        /\ IF k = All THEN calls[t].what = "markAll"
           ELSE calls[t].what = "mark" /\ calls[t].note = k
  BY <1>4 DEF ButtonsHaveCalls
<1>6. t # s
  BY <1>2, <1>5 DEF Reads
<1> QED BY <1>1, <1>5, <1>6

LEMMA TakeSpinner ==
    ASSUME BaseInv, loading => InFlight(Reads), NEW s \in Slots, Take(s)
    PROVE  loading' => InFlight(Reads)'
<1>1. SUFFICES ASSUME loading'
               PROVE  \E t \in Slots : calls'[t] # None /\ calls'[t].what \in Reads
  BY DEF InFlight
<1>2. \A t \in Slots \ {s} : calls'[t] = calls[t]
  BY TakeEffect DEF BaseInv
<1>3. CASE calls'[s] # None /\ calls'[s].what \in Reads
  BY <1>3
<1>4. CASE ~(calls'[s] # None /\ calls'[s].what \in Reads)
  <2>1. calls'[s] = None
    BY <1>4, TakeEffect DEF BaseInv, Reads
  <2>2. calls \in CallsType
    BY DEF BaseInv, TypeOK, CallsType
  <2>3. loading' = loading /\ calls[s].what \in {"mark", "markAll"}
    <3>1. CASE ItemsAnswered(s)
      <4>1. calls[s].view \in Views
        BY <3>1, <2>2 DEF ItemsAnswered, Is, CallsType, Calls
      <4>2. CASE calls' = [calls EXCEPT ![s] = CountCall(calls[s].view)]
        BY <2>1, <2>2, <4>1, <4>2, FreshCalls DEF Fresh, CallsType
      <4>3. CASE loading' = FALSE
        BY <1>1, <4>3
      <4> QED BY <3>1, <4>2, <4>3 DEF ItemsAnswered
    <3>2. CASE CountAnswered(s) \/ DetailAnswered(s) \/ ReadFails(s)
      BY <1>1, <3>2 DEF CountAnswered, DetailAnswered, ReadFails
    <3>3. CASE MarkAnswered(s) \/ MarkAllAnswered(s)
      <4>1. Emit(s) /\ calls[s].what \in {"mark", "markAll"} /\ page' = page
        BY <3>3 DEF MarkAnswered, MarkAllAnswered, Is, viewVars
      <4>2. CASE calls' = [calls EXCEPT ![s] = ItemsCall(Recent)]
        BY <2>1, <2>2, <4>2, FreshCalls, ViewTypes DEF Fresh, CallsType
      <4> QED BY <4>1, <4>2 DEF Emit
    <3>4. CASE MarkFails(s)
      BY <3>4 DEF MarkFails
    <3> QED BY <3>1, <3>2, <3>3, <3>4 DEF Take
  <2>4. PICK t \in Slots : calls[t] # None /\ calls[t].what \in Reads
    BY <1>1, <2>3 DEF InFlight
  <2>5. t # s
    BY <2>3, <2>4 DEF Reads
  <2> QED BY <1>2, <2>4, <2>5
<1> QED BY <1>3, <1>4

LEMMA SpinnerNext ==
    ASSUME BaseInv, SpinnerHasCall, [Next]_vars
    PROVE  SpinnerHasCall'
<1>1. (loading => InFlight(Reads)) /\ ButtonsHaveCalls
  BY DEF SpinnerHasCall, ButtonsHaveCalls
<1>2. SUFFICES (loading' => InFlight(Reads)') /\ ButtonsHaveCalls'
  BY DEF SpinnerHasCall, ButtonsHaveCalls
<1>3. CASE UNCHANGED <<loading, busy, calls>>
  BY <1>1, <1>3 DEF InFlight, ButtonsHaveCalls
<1>4. ASSUME NEW s \in Slots, Take(s)
      PROVE  (loading' => InFlight(Reads)') /\ ButtonsHaveCalls'
  BY <1>1, <1>4, TakeButtons, TakeSpinner
<1>5. ASSUME NEW s \in Slots, Serve(s)
      PROVE  (loading' => InFlight(Reads)') /\ ButtonsHaveCalls'
  <2>1. /\ calls'[s] # None
        /\ calls'[s].what = calls[s].what
        /\ calls'[s].note = calls[s].note /\ calls'[s].mine = calls[s].mine
        /\ \A t \in Slots \ {s} : calls'[t] = calls[t]
        /\ loading' = loading /\ busy' = busy
    BY <1>5, ServeEffect DEF BaseInv, CallsOK, pageVars
  <2>2. \A t \in Slots : calls[t] # None =>
          /\ calls'[t] # None
          /\ calls'[t].what = calls[t].what
          /\ calls'[t].note = calls[t].note /\ calls'[t].mine = calls[t].mine
    BY <2>1
  <2>3. loading' => InFlight(Reads)'
    BY <1>1, <2>1, <2>2 DEF InFlight
  <2>4. ButtonsHaveCalls'
    BY <1>1, <2>1, <2>2 DEF ButtonsHaveCalls
  <2> QED BY <2>3, <2>4
<1>6. CASE MountStep
  <2>1. PICK p \in {"dashboard", "list", "detail"}, v \in Views, new \in Seq(Calls) :
          /\ Mount(p, v, new)
          /\ \E i \in DOMAIN new : new[i].what \in Reads
          /\ \A i \in DOMAIN new : Fresh(new[i])
    BY <1>6, MountActions DEF BaseInv, MountStep
  <2>2. \A i \in DOMAIN new : \E s \in Slots : calls'[s] = new[i]
    BY <2>1, MountEffect DEF BaseInv, TypeOK, CallsType
  <2>3. busy' = {}
    BY <2>1 DEF Mount
  <2> QED BY <2>1, <2>2, <2>3 DEF InFlight, ButtonsHaveCalls, Fresh
<1>7. CASE ShowStep
  <2>1. page = "list" /\ view.filter \in Filters
    BY <1>7 DEF ShowStep, ChangeSearch, SubmitSearch, ChangePage, ChangeFilter, Show, BaseInv, PageOK
  <2>2. PICK v \in Views, new \in Seq(Calls) :
          /\ Show(v, new)
          /\ \E i \in DOMAIN new : new[i].view = v
          /\ \A i \in DOMAIN new : Fresh(new[i]) /\ new[i].what = "items"
    BY <1>7, <2>1, ShowActions DEF BaseInv, ShowStep
  <2>3. /\ \A s \in Slots : calls[s] # None => calls'[s] = calls[s]
        /\ \A i \in DOMAIN new : \E s \in Slots : calls'[s] = new[i]
        /\ busy' = busy
    BY <2>2, PutEffect DEF Show, BaseInv, TypeOK, CallsType
  <2>4. InFlight(Reads)'
    BY <2>2, <2>3 DEF InFlight, Fresh, Reads
  <2>5. ButtonsHaveCalls'
    BY <1>1, <2>3 DEF ButtonsHaveCalls
  <2> QED BY <2>4, <2>5
<1>8. CASE AskStep
  <2>1. PICK key \in Notes \cup {All}, call \in Calls :
          /\ Ask(key, call)
          /\ Fresh(call)
          /\ \/ key = All /\ call.what = "markAll"
             \/ key \in Notes /\ call.what = "mark" /\ call.note = key
    BY <1>8, AskActions DEF BaseInv, AskStep
  <2>2. /\ \A s \in Slots : calls[s] # None => calls'[s] = calls[s]
        /\ \E s \in Slots : calls'[s] = call
        /\ busy' = busy \cup {key} /\ loading' = loading
    BY <2>1, AskEffect DEF Ask, BaseInv, TypeOK, CallsType
  <2>3. loading' => InFlight(Reads)'
    BY <1>1, <2>2 DEF InFlight
  <2>4. call # None /\ call.mine /\ All \notin Notes
    BY <2>1, PagesAssumption DEF Fresh
  <2>5. ButtonsHaveCalls'
    BY <1>1, <2>1, <2>2, <2>4 DEF ButtonsHaveCalls
  <2> QED BY <2>3, <2>5
<1>9. CASE ServerStep \/ EventStep \/ UNCHANGED vars
  BY <1>3, <1>9 DEF ServerStep, Push, Commit, PushAgain, DispatchAgain, EventStep, BadgeAnswered,
     BadgeFails, Deliver, StreamRestarts, vars, pageVars
<1> QED BY <1>4, <1>5, <1>6, <1>7, <1>8, <1>9, StepCases

\* No request can end in a way that leaves a spinner turning or a button greyed
\* with nothing on its way that will stop it.
THEOREM PagesSpinner == Spec => []SpinnerHasCall
<1>1. Init => SpinnerHasCall
  BY SpinnerInit
<1>2. BaseInv /\ SpinnerHasCall /\ [Next]_vars => SpinnerHasCall'
  BY SpinnerNext
<1> QED BY <1>1, <1>2, BaseAlways, PTL DEF Spec

-----------------------------------------------------------------------------
(* What is selected is what is shown.                                       *)

\* While the list has not been given what is selected, it has asked for it.
ChosenInv ==
    /\ page = "list" /\ viewState = "asked" =>
        \E s \in Slots : calls[s] # None /\ calls[s].what = "items" /\ calls[s].view = view
    /\ viewState = "failed" => error

LEMMA TakeChosen ==
    ASSUME BaseInv, ChosenInv, NEW s \in Slots, Take(s)
    PROVE  ChosenInv'
<1>1. /\ calls[s] # None /\ page' = page /\ view' = view
      /\ \A t \in Slots \ {s} : calls'[t] = calls[t]
  BY TakeEffect DEF BaseInv
<1>2. viewState' = "failed" => error'
  BY DEF Take, ItemsAnswered, CountAnswered, DetailAnswered, ReadFails, MarkAnswered,
     MarkAllAnswered, MarkFails, viewVars, ChosenInv
<1>3. viewState' = "asked" =>
        viewState = "asked" /\ (calls[s].what = "items" => calls[s].view # view)
  BY DEF Take, ItemsAnswered, CountAnswered, DetailAnswered, ReadFails, MarkAnswered,
     MarkAllAnswered, MarkFails, viewVars, Is
<1>4. ASSUME page = "list", viewState' = "asked"
      PROVE  \E t \in Slots : calls'[t] # None /\ calls'[t].what = "items" /\ calls'[t].view = view
  <2>1. PICK t \in Slots : calls[t] # None /\ calls[t].what = "items" /\ calls[t].view = view
    BY <1>3, <1>4 DEF ChosenInv
  <2>2. t # s
    BY <1>3, <1>4, <2>1
  <2> QED BY <1>1, <2>1, <2>2
<1> QED BY <1>1, <1>2, <1>4 DEF ChosenInv

LEMMA ChosenNext ==
    ASSUME BaseInv, ChosenInv, [Next]_vars
    PROVE  ChosenInv'
<1>1. CASE UNCHANGED <<page, view, viewState, error, calls>>
  BY <1>1 DEF ChosenInv
<1>2. ASSUME NEW s \in Slots, Serve(s)
      PROVE  ChosenInv'
  <2>1. /\ calls'[s] # None
        /\ calls'[s].what = calls[s].what /\ calls'[s].view = calls[s].view
        /\ \A t \in Slots \ {s} : calls'[t] = calls[t]
        /\ UNCHANGED <<page, view, viewState, error>>
    BY <1>2, ServeEffect DEF BaseInv, CallsOK, pageVars, viewVars
  <2>2. \A t \in Slots : calls[t] # None =>
          calls'[t] # None /\ calls'[t].what = calls[t].what /\ calls'[t].view = calls[t].view
    BY <2>1
  <2> QED BY <2>1, <2>2 DEF ChosenInv
<1>3. CASE MountStep
  <2>1. PICK p \in {"dashboard", "list", "detail"}, v \in Views, new \in Seq(Calls) :
          /\ Mount(p, v, new)
          /\ \E i \in DOMAIN new :
                p # "detail" => new[i].what = "items" /\ new[i].view = v
          /\ \A i \in DOMAIN new : Fresh(new[i])
    BY <1>3, MountActions DEF BaseInv, MountStep
  <2>2. \A i \in DOMAIN new : \E s \in Slots : calls'[s] = new[i]
    BY <2>1, MountEffect DEF BaseInv, TypeOK, CallsType
  <2>3. page' = p /\ view' = v /\ viewState' = "asked"
    BY <2>1 DEF Mount
  <2> QED BY <2>1, <2>2, <2>3 DEF ChosenInv, Fresh
<1>4. CASE ShowStep
  <2>1. page = "list" /\ view.filter \in Filters
    BY <1>4 DEF ShowStep, ChangeSearch, SubmitSearch, ChangePage, ChangeFilter, Show, BaseInv, PageOK
  <2>2. PICK v \in Views, new \in Seq(Calls) :
          /\ Show(v, new)
          /\ \E i \in DOMAIN new : new[i].view = v
          /\ \A i \in DOMAIN new : Fresh(new[i]) /\ new[i].what = "items"
    BY <1>4, <2>1, ShowActions DEF BaseInv, ShowStep
  <2>3. \A i \in DOMAIN new : \E s \in Slots : calls'[s] = new[i]
    BY <2>2, PutEffect DEF Show, BaseInv, TypeOK, CallsType
  <2>4. view' = v /\ viewState' = "asked"
    BY <2>2 DEF Show
  <2> QED BY <2>2, <2>3, <2>4 DEF ChosenInv, Fresh
<1>5. CASE AskStep
  <2>1. PICK key \in Notes \cup {All}, call \in Calls : Ask(key, call)
    BY <1>5, AskActions DEF BaseInv, AskStep
  <2>2. \A s \in Slots : calls[s] # None => calls'[s] = calls[s]
    BY <2>1, AskEffect DEF BaseInv, TypeOK, CallsType
  <2>3. UNCHANGED <<page, view, viewState, error>>
    BY <2>1 DEF Ask, viewVars
  <2> QED BY <2>2, <2>3 DEF ChosenInv
<1>6. CASE ServerStep \/ EventStep \/ UNCHANGED vars
  BY <1>1, <1>6 DEF ServerStep, Push, Commit, PushAgain, DispatchAgain, EventStep, BadgeAnswered,
     BadgeFails, Deliver, StreamRestarts, vars, pageVars, viewVars
<1> QED BY <1>2, <1>3, <1>4, <1>5, <1>6, TakeChosen, StepCases

\* However the answers to the queries of the list are reordered, and whichever of
\* them fail, when none is under way the one for what is selected has come or is
\* reported as failed.
THEOREM PagesChosen == Spec => []ChosenViewSettles
<1>1. Init => ChosenInv
  BY DEF Init, ChosenInv
<1>2. BaseInv /\ ChosenInv /\ [Next]_vars => ChosenInv'
  BY ChosenNext
<1>3. BaseInv /\ ChosenInv => ChosenViewSettles
  BY DEF ChosenInv, ChosenViewSettles, InFlight, BaseInv, TypeOK
<1> QED BY <1>1, <1>2, <1>3, BaseAlways, PTL DEF Spec

-----------------------------------------------------------------------------
(* What is shown as read is read.                                           *)

ReadInv ==
    /\ \A i \in DOMAIN wire : wire[i].read => wire[i].id \in Known
    /\ ReadIsRead

LEMMA AppendElements ==
    ASSUME NEW S, NEW q \in Seq(S), NEW r \in S
    PROVE  \A i \in DOMAIN Append(q, r) :
              Append(q, r)[i] = r \/ (i \in DOMAIN q /\ Append(q, r)[i] = q[i])
<1> DEFINE a == Append(q, r)
           n == Len(q)
<1>1. DOMAIN a = 1..(n + 1) /\ DOMAIN q = 1..n /\ n \in Nat
  OBVIOUS
<1>2. \A i \in 1..n : a[i] = q[i]
  OBVIOUS
<1>3. a[n + 1] = r
  OBVIOUS
<1> HIDE DEF a, n
<1>4. \A i \in 1..(n + 1) : i \in 1..n \/ i = n + 1
  BY <1>1
<1>5. \A i \in 1..(n + 1) : a[i] = r \/ (i \in 1..n /\ a[i] = q[i])
  BY <1>2, <1>3, <1>4
<1> QED BY <1>1, <1>5 DEF a, n

LEMMA ServerRead ==
    ASSUME BaseInv, ReadInv, ServerStep
    PROVE  ReadInv'
<1>1. /\ UNCHANGED <<pageVars, calls>> /\ Known \subseteq Known'
      /\ \/ wire' = wire
         \/ \E n \in Notes : wire' = Append(wire, Row(n)) /\ Known' = Known
  BY ServerStepEffect DEF BaseInv
<1>2. ReadIsRead'
  BY <1>1 DEF ReadInv, ReadIsRead, Known, InFlight, pageVars, viewVars, listVars
<1>3. CASE wire' = wire
  BY <1>1, <1>2, <1>3 DEF ReadInv
<1>4. ASSUME NEW n \in Notes, wire' = Append(wire, Row(n)), Known' = Known
      PROVE  ReadInv'
  <2> DEFINE r == Row(n)
  <2>1. wire \in Seq(Rows) /\ r \in Rows
    BY RowType DEF BaseInv, TypeOK
  <2>2. r.id = n /\ (r.read => n \in Known)
    BY RowType DEF Known
  <2> HIDE DEF r
  <2>3. \A i \in DOMAIN Append(wire, r) :
          Append(wire, r)[i] = r \/ (i \in DOMAIN wire /\ Append(wire, r)[i] = wire[i])
    BY <2>1, AppendElements
  <2>4. \A i \in DOMAIN wire' : wire'[i] = r \/ (i \in DOMAIN wire /\ wire'[i] = wire[i])
    BY <1>4, <2>3 DEF r
  <2> QED BY <1>2, <1>4, <2>2, <2>4 DEF ReadInv
<1> QED BY <1>1, <1>3, <1>4

LEMMA EventRead ==
    ASSUME BaseInv, ReadInv, EventStep
    PROVE  ReadInv'
<1>1. UNCHANGED <<page, error, calls, read, undone>>
  BY DEF EventStep, BadgeAnswered, BadgeFails, Deliver, StreamRestarts, serverVars, pageVars,
     viewVars
<1>2. CASE Deliver
  <2>1. wire \in Seq(Rows) /\ wire # <<>> /\ wire' = Tail(wire)
    BY <1>2 DEF Deliver, BaseInv, TypeOK
  <2>2. \A i \in DOMAIN wire' : i + 1 \in DOMAIN wire /\ wire'[i] = wire[i + 1]
    BY <2>1
  <2>3. Head(wire) = wire[1] /\ 1 \in DOMAIN wire
    BY <2>1
  <2>4. \A i \in DOMAIN shown' :
          shown'[i] = Head(wire) \/ \E j \in DOMAIN shown : shown'[i] = shown[j]
    BY <1>2, DeliverTypes DEF BaseInv
  <2>5. Head(wire).read => Head(wire).id \in Known
    BY <2>3 DEF ReadInv
  <2>6. ReadIsRead'
    BY <1>1, <2>4, <2>5 DEF ReadInv, ReadIsRead, Known, InFlight
  <2> QED BY <1>1, <2>2, <2>6 DEF ReadInv, Known
<1>3. CASE StreamRestarts
  <2>1. wire' = <<>> /\ shown' = shown
    BY <1>3 DEF StreamRestarts, pageVars, listVars
  <2>2. DOMAIN <<>> = {}
    OBVIOUS
  <2> QED BY <1>1, <2>1, <2>2 DEF ReadInv, ReadIsRead, InFlight
<1>4. CASE BadgeAnswered \/ BadgeFails
  BY <1>1, <1>4 DEF BadgeAnswered, BadgeFails, pageVars, listVars, ReadInv, ReadIsRead, InFlight,
     Known
<1> QED BY <1>2, <1>3, <1>4 DEF EventStep

LEMMA TakeRead ==
    ASSUME BaseInv, ReadInv, NEW s \in Slots, Take(s)
    PROVE  ReadInv'
<1>1. /\ calls[s] # None /\ calls \in CallsType /\ page' = page
      /\ \A t \in Slots \ {s} : calls'[t] = calls[t]
      /\ wire' = wire /\ Known' = Known /\ read' = read /\ undone' = undone
      /\ CallOK(calls[s], Known) /\ CallFits(calls[s], page)
  BY TakeEffect DEF BaseInv, TypeOK, CallsType, CallsOK, PageOK, serverVars, Known
<1>2. SUFFICES ReadIsRead'
  BY <1>1 DEF ReadInv
\* Rows stay, and the Dashboard has its fetch or its error still.
<1>3. ASSUME shown' = shown,
             page = "dashboard" /\ (error \/ InFlight({"items"})) =>
                error' \/ InFlight({"items"})'
      PROVE  ReadIsRead'
  BY <1>1, <1>3 DEF ReadInv, ReadIsRead
<1>4. ASSUME calls[s].what # "items", error => error'
      PROVE  page = "dashboard" /\ (error \/ InFlight({"items"})) =>
                error' \/ InFlight({"items"})'
  BY <1>1, <1>4 DEF InFlight
<1>5. CASE ItemsAnswered(s) \/ DetailAnswered(s)
  BY <1>1, <1>5 DEF ItemsAnswered, DetailAnswered, CallOK, ReadIsRead, Known
<1>6. CASE CountAnswered(s) \/ MarkFails(s)
  BY <1>3, <1>4, <1>6 DEF CountAnswered, MarkFails, Is, listVars
<1>7. CASE ReadFails(s)
  BY <1>3, <1>7 DEF ReadFails, listVars
<1>8. CASE MarkAnswered(s) \/ MarkAllAnswered(s)
  <2>1. Emit(s) /\ calls[s].what \in {"mark", "markAll"} /\ error' = error
    BY <1>8 DEF MarkAnswered, MarkAllAnswered, Is
  <2>2. CASE page = "dashboard"
    <3>1. calls' = [calls EXCEPT ![s] = ItemsCall(Recent)]
      BY <2>1, <2>2 DEF Emit
    <3>2. calls'[s] # None /\ calls'[s].what = "items"
      BY <1>1, <3>1, FreshCalls, ViewTypes DEF CallsType, Fresh
    <3> QED BY <1>1, <2>2, <3>2 DEF ReadIsRead, InFlight
  <2>3. CASE page # "dashboard"
    <3>1. CASE ~calls[s].mine
      BY <1>3, <1>8, <2>3, <3>1 DEF MarkAnswered, MarkAllAnswered, listVars
    <3>2. CASE calls[s].mine
      <4>1. MarkAnswered(s)
        BY <1>1, <1>8, <2>3, <3>2 DEF CallFits, MarkAllAnswered, Is
      <4>2. shown' = Marked({calls[s].note}) /\ calls[s].note \in Known
        BY <1>1, <3>2, <4>1 DEF MarkAnswered, Is, CallOK
      <4>3. shown \in Seq(Rows)
        BY DEF BaseInv, TypeOK
      <4> DEFINE q == Marked({calls[s].note})
      <4>4. /\ DOMAIN q = DOMAIN shown
            /\ \A i \in DOMAIN shown :
                 q[i].id = shown[i].id /\ (q[i].read => shown[i].read \/ shown[i].id = calls[s].note)
        BY <4>3, MarkedType DEF Marked
      <4> HIDE DEF q
      <4> QED BY <1>1, <2>3, <4>2, <4>4 DEF q, ReadInv, ReadIsRead, Known
    <3> QED BY <3>1, <3>2
  <2> QED BY <2>2, <2>3
<1> QED BY <1>5, <1>6, <1>7, <1>8 DEF Take

LEMMA ReadNext ==
    ASSUME BaseInv, ReadInv, [Next]_vars
    PROVE  ReadInv'
<1>1. ASSUME NEW s \in Slots, Serve(s)
      PROVE  ReadInv'
  <2>1. /\ calls'[s] # None
        /\ calls'[s].what = calls[s].what
        /\ \A t \in Slots \ {s} : calls'[t] = calls[t]
        /\ read \subseteq read' /\ UNCHANGED <<undone, wire, pageVars>>
    BY <1>1, ServeEffect DEF BaseInv, CallsOK
  <2>2. InFlight({"items"}) => InFlight({"items"})'
    BY <2>1 DEF InFlight
  <2> QED BY <2>1, <2>2 DEF ReadInv, ReadIsRead, Known, pageVars, viewVars, listVars
<1>2. CASE MountStep
  <2>1. shown' = <<>> /\ UNCHANGED <<read, undone, wire>>
    BY <1>2 DEF MountStep, OpenDashboard, OpenList, OpenDetail, Mount, Click, serverVars
  <2>2. DOMAIN <<>> = {}
    OBVIOUS
  <2> QED BY <2>1, <2>2 DEF ReadInv, ReadIsRead, Known
<1>3. CASE ShowStep
  <2>1. page = "list" /\ UNCHANGED <<page, shown, read, undone, wire>>
    BY <1>3 DEF ShowStep, ChangeSearch, SubmitSearch, ChangePage, ChangeFilter, Show, Click,
       serverVars, listVars
  <2> QED BY <2>1 DEF ReadInv, ReadIsRead, Known
<1>4. CASE AskStep
  <2>1. PICK key \in Notes \cup {All}, call \in Calls : Ask(key, call)
    BY <1>4, AskActions DEF BaseInv, AskStep
  <2>2. \A s \in Slots : calls[s] # None => calls'[s] = calls[s]
    BY <2>1, AskEffect DEF BaseInv, TypeOK, CallsType
  <2>3. UNCHANGED <<page, shown, error, read, undone, wire>>
    BY <2>1 DEF Ask, Click, viewVars, listVars, serverVars
  <2>4. InFlight({"items"}) => InFlight({"items"})'
    BY <2>2 DEF InFlight
  <2> QED BY <2>3, <2>4 DEF ReadInv, ReadIsRead, Known
<1>5. CASE UNCHANGED vars
  BY <1>5 DEF vars, serverVars, pageVars, viewVars, listVars, ReadInv, ReadIsRead, Known, InFlight
<1> QED BY <1>1, <1>2, <1>3, <1>4, <1>5, ServerRead, EventRead, TakeRead, StepCases

\* Answers, events and marks that cross each other never make a page show as read
\* a row that nobody has marked, but for a Dashboard that is fetching.
THEOREM PagesRead == Spec => []ReadIsRead
<1>1. Init => ReadInv
  <2>1. ASSUME Init
        PROVE  ReadInv
    <3>1. shown = <<>> /\ wire = <<>> /\ DOMAIN <<>> = {}
      BY <2>1 DEF Init
    <3> QED BY <3>1 DEF ReadInv, ReadIsRead
  <2> QED BY <2>1
<1>2. BaseInv /\ ReadInv /\ [Next]_vars => ReadInv'
  BY ReadNext
<1>3. ReadInv => ReadIsRead
  BY DEF ReadInv
<1> QED BY <1>1, <1>2, <1>3, BaseAlways, PTL DEF Spec

=============================================================================
