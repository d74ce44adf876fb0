----------------------------- MODULE UserPages -----------------------------
(***************************************************************************)
(* What a signed-in user sees in one browser tab: Layout.js with its unread *)
(* badge, and in it Dashboard.js, NotificationList.js or                    *)
(* NotificationDetail.js, with the requests of notificationService.js, the  *)
(* event bus, the events sseService.js hands on, and the rows of that user  *)
(* at the server.                                                           *)
(*                                                                          *)
(* A handler is one action.  A request is sent, read or carried out by the  *)
(* server, and answered, in three steps; answers arrive in any order, and   *)
(* any request may fail.  Rows are pushed before they are committed and may *)
(* be pushed again by a redelivery.                                         *)
(***************************************************************************)
EXTENDS Naturals, Sequences, FiniteSets

CONSTANTS
    MaxNotes,       \* bound: rows of this user, numbered as they are created
    Types,          \* values of the list's type filter
    TypeOf,         \* the type of each row
    Matches,        \* rows whose text contains what the user searches for
    RecentSize,     \* rows on the Dashboard, 5 in the code
    PageSize,       \* rows on a page of the list, 10 in the code
    Slots,          \* bound: requests of the mounted page in flight
    MaxOlder,       \* bound: requests of Layout in flight when it sends another
    MaxTurns,       \* bound: what the user does, reconnections, redeliveries
    All,            \* key of the Dashboard's button among the busy ones
    None

Notes == 1..MaxNotes
Filters == {"all", "unread"} \cup Types

Views == [filter : Filters \cup {"recent"}, search : BOOLEAN, page : Nat \ {0}]
Rows == [id : Notes, read : BOOLEAN]

Calls == [what : {"items", "count", "detail", "mark", "markAll"},
          view : Views, note : Notes \cup {None},
          state : {"sent", "loaded", "answered"}, rows : Seq(Rows),
          num : Nat, mine : BOOLEAN]

ASSUME PagesAssumption ==
    /\ MaxNotes \in Nat /\ MaxOlder \in Nat
    /\ MaxTurns \in Nat
    /\ RecentSize \in Nat \ {0} /\ PageSize \in Nat \ {0}
    /\ TypeOf \in [Notes -> Types]
    /\ Matches \subseteq Notes
    /\ {"all", "unread", "recent"} \cap Types = {}
    /\ All \notin Notes /\ None \notin Calls

VARIABLES
    \* the server's rows
    stage,          \* "none", "new" (pushed, not committed or never), "stored",
                    \* "again" (a redelivery has loaded it unread)
    read,           \* rows whose read_status is READ
    undone,         \* history: rows a dispatch has set back to UNREAD
    wire,           \* notifications on the stream, in their order
    \* Layout
    badge,          \* its unreadCount is "exact": the server's; or it is not, and
                    \* the tab is "due" to hear of it, or left "adrift"
    counts,         \* its requests in flight: those whose answer will be the
                    \* server's number, and those that it has outdated
    \* the mounted page
    page,           \* "dashboard", "list" or "detail"
    view,           \* the query it shows: filter, searchTerm, page
    viewState,      \* history: "asked", "shown", "failed", or "overtaken" by
                    \* the answer to another query
    totalPages,
    shown,          \* notifications
    unreadCount, loading, error,
    busy,           \* markingAsRead, and All for markingAllRead
    calls,          \* the requests of pages in flight
    turns           \* history: counts what MaxTurns bounds

serverVars == <<stage, read, undone>>
badgeVars == <<badge, counts>>
listVars == <<shown, unreadCount>>
viewVars == <<page, view, viewState, totalPages>>
pageVars == <<viewVars, listVars, loading, error, busy>>
vars == <<serverVars, wire, badgeVars, pageVars, calls, turns>>

-----------------------------------------------------------------------------
(* Requests.                                                                *)

\* getUnreadNotifications(id, 0, 5), and the list's query when it is mounted.
Recent == [filter |-> "recent", search |-> FALSE, page |-> 1]
FirstView == [filter |-> "all", search |-> FALSE, page |-> 1]

\* A request of a page: its query or its row, the server's answer (rows and a
\* number), and whether the page that sent it is still there.
NewCall(what, v, n) ==
    [what |-> what, view |-> v, note |-> n, state |-> "sent", rows |-> <<>>,
     num |-> 0, mine |-> TRUE]

\* The functions of notificationService.js that the pages call.
ItemsCall(v) == NewCall("items", v, None)
CountCall(v) == NewCall("count", v, None)
DetailCall(n) == NewCall("detail", Recent, n)
MarkCall(n) == NewCall("mark", FirstView, n)
MarkAllCall == NewCall("markAll", Recent, None)

Reads == {"items", "count", "detail"}

Is(s, what, state) ==
    calls[s] # None /\ calls[s].what = what /\ calls[s].state = state
InFlight(what) == \E s \in Slots : calls[s] # None /\ calls[s].what \in what
Without(s) == [calls EXCEPT ![s] = None]

\* The requests `new` join those of `base`.
Put(base, new) ==
    \E f \in [DOMAIN new -> {s \in Slots : base[s] = None}] :
        /\ \A i, j \in DOMAIN new : f[i] = f[j] => i = j
        /\ calls' = [s \in Slots |->
              IF \E i \in DOMAIN new : f[i] = s
              THEN new[CHOOSE i \in DOMAIN new : f[i] = s] ELSE base[s]]

-----------------------------------------------------------------------------
(* The server.                                                              *)

Stored == {n \in Notes : stage[n] \in {"stored", "again"}}
Unread == Stored \ read
Row(n) == [id |-> n, read |-> n \in read]

\* The rows a query selects, and the order it returns them in: the queries for
\* unread rows have no ORDER BY, they come as the index has them, by id.
Selected(v) ==
    {n \in Stored :
        /\ v.filter \in {"unread", "recent"} => n \notin read
        /\ v.filter \in Types => TypeOf[n] = v.filter}

Before(m, n, v) == IF v.filter \in {"unread", "recent"} THEN m < n ELSE m > n
Size(v) == IF v.filter = "recent" THEN RecentSize ELSE PageSize
Pages(v) == (Cardinality(Selected(v)) + Size(v) - 1) \div Size(v)

\* q is the page that v asks for.
IsPage(q, v) ==
    LET from == (v.page - 1) * Size(v) IN
    /\ \A i \in DOMAIN q :
          Cardinality({m \in Selected(v) : Before(m, q[i], v)}) = from + i - 1
    /\ Len(q) = Size(v) \/ from + Len(q) >= Cardinality(Selected(v))

\* The rows change.  When other ones are unread than before, the badge is not
\* exact, and any of Layout's requests may have been counted before.  The tab is due
\* to hear of it when it is told, or will hear of something, or be counted for.
Recount(told) ==
    IF Unread' = Unread THEN UNCHANGED badgeVars
    ELSE \E k \in 0..counts.asked :
            /\ counts' = [asked |-> counts.asked - k, outdated |-> counts.outdated + k]
            /\ badge' = IF told \/ wire # <<>> \/ k < counts.asked THEN "due" ELSE "adrift"

Turn == turns < MaxTurns /\ turns' = turns + 1

\* A thread pushes a row it has inserted and not committed.
Push(n) ==
    /\ stage[n] = "none"
    /\ \A m \in Notes : m < n => stage[m] # "none"
    /\ stage' = [stage EXCEPT ![n] = "new"]
    /\ wire' = Append(wire, Row(n))
    /\ UNCHANGED <<read, undone, badgeVars, pageVars, calls, turns>>

\* Or the transaction is rolled back and the row stays as it is for ever.
Commit(n) ==
    /\ stage[n] = "new"
    /\ stage' = [stage EXCEPT ![n] = "stored"]
    /\ UNCHANGED <<read, undone>>
    /\ Recount(FALSE)
    /\ UNCHANGED <<wire, pageVars, calls, turns>>

\* A redelivered event finds its row and pushes it as it is.
PushAgain(n) ==
    /\ stage[n] = "stored"
    /\ Turn
    /\ wire' = Append(wire, Row(n))
    /\ stage' = [stage EXCEPT ![n] = IF n \in read THEN "stored" ELSE "again"]
    /\ UNCHANGED <<read, undone, badgeVars, pageVars, calls>>

\* dispatchToEmail writes emailDispatchedAt and, with it, the read status it has
\* loaded; or it mails nothing and writes nothing.
DispatchAgain(n) ==
    /\ stage[n] = "again"
    /\ stage' = [stage EXCEPT ![n] = "stored"]
    /\ \/ UNCHANGED <<read, undone>>
       \/ read' = read \ {n} /\ undone' = undone \cup (read \cap {n})
    /\ Recount(FALSE)
    /\ UNCHANGED <<wire, pageVars, calls, turns>>

\* What the server makes of the request in slot s.
Answer(s, rows, num) ==
    /\ calls' = [calls EXCEPT ![s].state = "answered", ![s].rows = rows, ![s].num = num]
    /\ UNCHANGED <<stage, undone, wire, pageVars, turns>>

ServeCount(s) ==
    /\ Is(s, "count", "sent")
    /\ Answer(s, <<>>, Cardinality(Unread))
    /\ UNCHANGED <<read, badgeVars>>

\* A search is never served: the parameter is called searchTerm, not q.
ServeItems(s) ==
    /\ Is(s, "items", "sent")
    /\ ~calls[s].view.search
    /\ \E k \in 0..Size(calls[s].view) : \E q \in [1..k -> Selected(calls[s].view)] :
          /\ IsPage(q, calls[s].view)
          /\ Answer(s, [i \in 1..k |-> Row(q[i])], Pages(calls[s].view))
    /\ UNCHANGED <<read, badgeVars>>

ServeDetail(s) ==
    /\ Is(s, "detail", "sent")
    /\ calls[s].note \in Stored
    /\ Answer(s, <<Row(calls[s].note)>>, 0)
    /\ UNCHANGED <<read, badgeVars>>

ServeMark(s) ==
    /\ Is(s, "mark", "sent")
    /\ calls[s].note \in Stored
    /\ read' = read \cup {calls[s].note}
    /\ Answer(s, <<>>, 0)
    /\ Recount(TRUE)

\* markAllAsRead loads the unread rows, and saves them when it commits.
LoadUnread(s) ==
    /\ Is(s, "markAll", "sent")
    /\ \E q \in [1..Cardinality(Unread) -> Rows] :
          /\ \A i \in DOMAIN q : q[i].id \in Unread /\ ~q[i].read
          /\ \A i, j \in DOMAIN q : i < j => q[i].id < q[j].id
          /\ calls' = [calls EXCEPT ![s].state = "loaded", ![s].rows = q]
    /\ UNCHANGED <<serverVars, wire, badgeVars, pageVars, turns>>

SaveRead(s) ==
    /\ Is(s, "markAll", "loaded")
    /\ read' = read \cup {calls[s].rows[i].id : i \in DOMAIN calls[s].rows}
    /\ Answer(s, <<>>, 0)
    /\ Recount(TRUE)

-----------------------------------------------------------------------------
(* Layout.js                                                                *)

Waiting == counts.asked + counts.outdated

\* Slip: no second request while one is on its way.
ThrottledHeard ==
    \/ /\ badge' = IF badge = "exact" THEN "exact" ELSE "due"
       /\ counts' = IF Waiting > 0 THEN counts ELSE [counts EXCEPT !.asked = 1]
    \/ badge' = "adrift" /\ counts' = counts

\* fetchAndUpdateUnreadCount: a request, or, without a token, 0 and no request.
Heard ==
    \/ /\ Waiting <= MaxOlder
       /\ badge' = IF badge = "exact" THEN "exact" ELSE "due"
       /\ counts' = [counts EXCEPT !.asked = @ + 1]
    \/ badge' = "adrift" /\ counts' = counts

\* Answers come in any order: one that is outdated may take the place of one that
\* is not.
BadgeAnswered ==
    /\ \/ /\ counts.asked > 0
          /\ badge' = "exact"
          /\ counts' = [counts EXCEPT !.asked = @ - 1]
       \/ /\ counts.outdated > 0
          /\ badge' = IF badge = "exact" THEN "adrift" ELSE badge
          /\ counts' = [counts EXCEPT !.outdated = @ - 1]
    /\ UNCHANGED <<serverVars, wire, pageVars, calls, turns>>

\* The number stays; the error goes to the console.
BadgeFails ==
    /\ \E k \in DOMAIN counts : counts[k] > 0 /\ counts' = [counts EXCEPT ![k] = @ - 1]
    /\ badge' = IF badge = "due" THEN "adrift" ELSE badge
    /\ UNCHANGED <<serverVars, wire, pageVars, calls, turns>>

-----------------------------------------------------------------------------
(* Fetching, in Dashboard.js (fetchData), NotificationList.js               *)
(* (fetchNotifications) and NotificationDetail.js.                          *)

\* The rows, then, on a first page, the count: one async function.
ItemsAnswered(s) ==
    /\ Is(s, "items", "answered")
    /\ shown' = calls[s].rows
    /\ totalPages' = calls[s].num
    /\ viewState' = IF calls[s].view = view THEN "shown"
                    ELSE IF viewState = "shown" THEN "overtaken" ELSE viewState
    /\ \/ /\ calls[s].view.page = 1
          /\ calls' = [calls EXCEPT ![s] = CountCall(calls[s].view)]
          /\ loading' = loading
       \/ /\ calls[s].view.page # 1
          /\ calls' = Without(s)
          /\ loading' = FALSE
    /\ UNCHANGED <<serverVars, wire, badgeVars, page, view, unreadCount, error, busy,
                   turns>>

CountAnswered(s) ==
    /\ Is(s, "count", "answered")
    /\ unreadCount' = calls[s].num
    /\ loading' = FALSE
    /\ calls' = Without(s)
    /\ UNCHANGED <<serverVars, wire, badgeVars, viewVars, shown, error, busy, turns>>

DetailAnswered(s) ==
    /\ Is(s, "detail", "answered")
    /\ shown' = calls[s].rows
    /\ loading' = FALSE
    /\ calls' = Without(s)
    /\ UNCHANGED <<serverVars, wire, badgeVars, viewVars, unreadCount, error, busy, turns>>

\* Slip: the spinner is taken away where the answer comes, not in finally.
SpinningReadFails(s) ==
    /\ calls[s] # None
    /\ calls[s].what \in Reads
    /\ error' = TRUE
    /\ calls' = Without(s)
    /\ UNCHANGED <<serverVars, wire, badgeVars, viewVars, listVars, loading, busy, turns>>

ReadFails(s) ==
    /\ calls[s] # None
    /\ calls[s].what \in Reads
    /\ error' = TRUE
    /\ loading' = FALSE
    /\ viewState' = IF calls[s].what = "items" /\ calls[s].view = view
                       /\ viewState = "asked"
                    THEN "failed" ELSE viewState
    /\ calls' = Without(s)
    /\ UNCHANGED <<serverVars, wire, badgeVars, page, view, totalPages, listVars, busy,
                   turns>>

-----------------------------------------------------------------------------
(* Events.                                                                  *)

Ids == {shown[i].id : i \in DOMAIN shown}
Cut(q, size) == SubSeq(q, 1, IF Len(q) < size THEN Len(q) ELSE size)

\* Slip: an event is a new notification.
PrependAny(e, size) == shown' = Cut(<<e>> \o shown, size)

\* setNotifications of both pages: not twice, and no more than size.
Prepend(e, size) ==
    shown' = IF e.id \in Ids THEN shown ELSE Cut(<<e>> \o shown, size)

\* shouldAddNotification
Fits(e) ==
    IF view.search THEN e.id \in Matches
    ELSE CASE view.filter = "all" -> TRUE
           [] view.filter = "unread" -> ~e.read
           [] OTHER -> TypeOf[e.id] = view.filter

\* handleNewNotification of the Dashboard counts what it does not add, too.
OnDashboard(e) ==
    /\ Prepend(e, RecentSize)
    /\ unreadCount' = unreadCount + 1

\* stableHandleNewNotificationCb of the list, on whichever page of it.
OnList(e) ==
    /\ unreadCount' = IF e.read THEN unreadCount ELSE unreadCount + 1
    /\ IF Fits(e) THEN Prepend(e, PageSize) ELSE UNCHANGED shown

\* An event NOTIFICATION_RECEIVED, to Layout and to the page.
Deliver ==
    /\ wire # <<>>
    /\ wire' = Tail(wire)
    /\ CASE page = "dashboard" -> OnDashboard(Head(wire))
         [] page = "list" -> OnList(Head(wire))
         [] OTHER -> UNCHANGED listVars
    /\ Heard
    /\ UNCHANGED <<serverVars, viewVars, loading, error, busy, calls, turns>>

\* The stream breaks, what was on it is lost, and SSE_CONNECTION_ESTABLISHED
\* tells of the next one.
StreamRestarts ==
    /\ Turn
    /\ wire' = <<>>
    /\ Heard
    /\ UNCHANGED <<serverVars, pageVars, calls>>

-----------------------------------------------------------------------------
(* The user.                                                                *)

\* What the pages offer, and when: a spinner hides the rows.
RowsAreShown == ~loading /\ shown # <<>>
CardLink(n) == page = "dashboard" /\ RowsAreShown /\ n \in Ids
MarkAllButton == page = "dashboard" /\ unreadCount # 0 /\ All \notin busy
FilterOption(f) == page = "list" /\ f \in Filters \ {view.filter}
PageButton(k) == page = "list" /\ RowsAreShown /\ k \in 1..totalPages \ {view.page}
MarkButton(i) ==
    /\ page = "list" /\ RowsAreShown
    /\ i \in DOMAIN shown /\ ~shown[i].read /\ shown[i].id \notin busy

Click ==
    /\ Turn
    /\ UNCHANGED <<serverVars, wire, badgeVars>>

\* The page is left: nobody looks at the answers it waits for, but its PUTs are
\* carried out, and answered to the event bus.
Leave == [s \in Slots |->
    IF calls[s] = None \/ calls[s].what \in Reads THEN None
    ELSE [calls[s] EXCEPT !.mine = FALSE]]

\* A page is mounted and its effects run.
Mount(p, v, new) ==
    /\ Click
    /\ page' = p
    /\ view' = v
    /\ viewState' = "asked"
    /\ totalPages' = 1
    /\ shown' = <<>>
    /\ unreadCount' = 0
    /\ loading' = TRUE
    /\ error' = FALSE
    /\ busy' = {}
    /\ Put(Leave, new)

OpenDashboard ==
    /\ page # "dashboard"
    /\ Mount("dashboard", Recent, <<ItemsCall(Recent)>>)

\* Two effects of NotificationList fetch.
OpenList ==
    /\ page # "list"
    /\ Mount("list", FirstView, <<ItemsCall(FirstView), ItemsCall(FirstView)>>)

OpenDetail(n) ==
    /\ CardLink(n)
    /\ Mount("detail", Recent, <<DetailCall(n)>>)

\* Slip: the effects depend on the filter alone.
ShowFilterOnly(v, new) ==
    /\ page = "list"
    /\ Click
    /\ view' = v
    /\ viewState' = "asked"
    /\ loading' = (loading \/ v.filter # view.filter)
    /\ error' = FALSE
    /\ Put(calls, IF v.filter = view.filter THEN <<>> ELSE new)
    /\ UNCHANGED <<page, totalPages, listVars, busy>>

\* The list renders with other states and its effects fetch.
Show(v, new) ==
    /\ page = "list"
    /\ Click
    /\ view' = v
    /\ viewState' = "asked"
    /\ loading' = TRUE
    /\ error' = FALSE
    /\ Put(calls, new)
    /\ UNCHANGED <<page, totalPages, listVars, busy>>

ChangeFilter(f) ==
    LET v == [view EXCEPT !.filter = f, !.page = 1] IN
    /\ FilterOption(f)
    /\ Show(v, <<ItemsCall(v), ItemsCall(v)>>)

ChangePage(k) ==
    LET v == [view EXCEPT !.page = k] IN
    /\ PageButton(k)
    /\ Show(v, <<ItemsCall(v), ItemsCall(v)>>)

\* The search box: the effects fetch the page that was shown, and the first page
\* when the third effect has reset it.
ChangeSearch ==
    LET u == [view EXCEPT !.search = ~view.search]
        v == [u EXCEPT !.page = 1] IN
    Show(v, IF u = v THEN <<ItemsCall(v), ItemsCall(v)>>
            ELSE <<ItemsCall(u), ItemsCall(u), ItemsCall(v), ItemsCall(v)>>)

SubmitSearch == Show(view, <<ItemsCall(view)>>)

\* A button is pressed and waits for its PUT.
Ask(key, call) ==
    /\ Click
    /\ busy' = busy \cup {key}
    /\ Put(calls, <<call>>)
    /\ UNCHANGED <<viewVars, listVars, loading, error>>

\* handleMarkAllAsRead
MarkAll ==
    /\ MarkAllButton
    /\ Ask(All, MarkAllCall)

\* handleMarkAsRead
MarkOne(i) ==
    /\ MarkButton(i)
    /\ Ask(shown[i].id, MarkCall(shown[i].id))

\* Slip: the Dashboard does not listen to the bus.
DeafEmit(s) ==
    Heard /\ loading' = loading /\ calls' = Without(s)

\* eventBus.emit('notificationsUpdated'): Layout counts, the Dashboard fetches.
\* (Handlers that off has left behind belong to pages nobody sees.)
Emit(s) ==
    /\ Heard
    /\ IF page = "dashboard"
       THEN loading' = TRUE /\ calls' = [calls EXCEPT ![s] = ItemsCall(Recent)]
       ELSE loading' = loading /\ calls' = Without(s)

\* The rows of the page, those with an id among ids as READ.
Marked(ids) ==
    [i \in DOMAIN shown |->
        IF shown[i].id \in ids THEN [shown[i] EXCEPT !.read = TRUE] ELSE shown[i]]

MarkAllAnswered(s) ==
    /\ Is(s, "markAll", "answered")
    /\ IF calls[s].mine
       THEN unreadCount' = 0 /\ shown' = Marked(Ids) /\ busy' = busy \ {All}
       ELSE UNCHANGED <<listVars, busy>>
    /\ Emit(s)
    /\ UNCHANGED <<serverVars, wire, viewVars, error, turns>>

\* Slip: the count goes down whatever it is.
UnboundedMarkAnswered(s) ==
    /\ Is(s, "mark", "answered")
    /\ IF calls[s].mine
       THEN unreadCount' = unreadCount - 1 /\ shown' = Marked({calls[s].note})
            /\ busy' = busy \ {calls[s].note}
       ELSE UNCHANGED <<listVars, busy>>
    /\ Emit(s)
    /\ UNCHANGED <<serverVars, wire, viewVars, error, turns>>

MarkAnswered(s) ==
    /\ Is(s, "mark", "answered")
    /\ IF calls[s].mine
       THEN /\ unreadCount' = IF unreadCount = 0 THEN 0 ELSE unreadCount - 1
            /\ shown' = Marked({calls[s].note})
            /\ busy' = busy \ {calls[s].note}
       ELSE UNCHANGED <<listVars, busy>>
    /\ Emit(s)
    /\ UNCHANGED <<serverVars, wire, viewVars, error, turns>>

\* A PUT fails, carried out or not; a page that was left does not notice.
MarkFails(s) ==
    /\ calls[s] # None
    /\ calls[s].what \in {"mark", "markAll"} /\ calls[s].state # "loaded"
    /\ IF calls[s].mine
       THEN /\ error' = TRUE
            /\ busy' = busy \ {IF calls[s].what = "mark" THEN calls[s].note ELSE All}
       ELSE UNCHANGED <<error, busy>>
    /\ badge' = IF badge = "due" /\ calls[s].state = "answered" THEN "adrift" ELSE badge
    /\ calls' = Without(s)
    /\ UNCHANGED <<serverVars, wire, counts, viewVars, listVars, loading, turns>>

-----------------------------------------------------------------------------
\* The user has just signed in: Layout and the Dashboard are mounted.
Init ==
    /\ stage = [n \in Notes |-> "none"]
    /\ read = {} /\ undone = {}
    /\ wire = <<>>
    /\ badge = "due" /\ counts = [asked |-> 1, outdated |-> 0]
    /\ page = "dashboard" /\ view = Recent /\ viewState = "asked" /\ totalPages = 1
    /\ shown = <<>> /\ unreadCount = 0
    /\ loading = TRUE /\ error = FALSE /\ busy = {}
    /\ \E s \in Slots :
          calls = [t \in Slots |-> IF t = s THEN ItemsCall(Recent) ELSE None]
    /\ turns = 0

Next ==
    \/ \E n \in Notes : Push(n) \/ Commit(n) \/ PushAgain(n) \/ DispatchAgain(n)
    \/ \E s \in Slots :
          \/ ServeCount(s) \/ ServeItems(s) \/ ServeDetail(s) \/ ServeMark(s)
          \/ LoadUnread(s) \/ SaveRead(s)
          \/ ItemsAnswered(s) \/ CountAnswered(s) \/ DetailAnswered(s) \/ ReadFails(s)
          \/ MarkAnswered(s) \/ MarkAllAnswered(s) \/ MarkFails(s)
    \/ BadgeAnswered \/ BadgeFails \/ Deliver \/ StreamRestarts
    \/ OpenDashboard \/ OpenList \/ ChangeSearch \/ SubmitSearch \/ MarkAll
    \/ \E n \in Notes : OpenDetail(n) \/ ChangePage(n) \/ MarkOne(n)
    \/ \E f \in Filters : ChangeFilter(f)

Spec == Init /\ [][Next]_vars

-----------------------------------------------------------------------------
(* Properties.                                                              *)

\* Every variable has its type, and no counter goes below zero.
TypeOK ==
    /\ stage \in [Notes -> {"none", "new", "stored", "again"}]
    /\ read \subseteq Notes /\ undone \subseteq Notes
    /\ wire \in Seq(Rows)
    /\ badge \in {"exact", "due", "adrift"}
    /\ counts \in [asked : Nat, outdated : Nat]
    /\ page \in {"dashboard", "list", "detail"}
    /\ view \in Views /\ viewState \in {"asked", "shown", "failed", "overtaken"}
    /\ totalPages \in Nat
    /\ shown \in Seq(Rows) /\ unreadCount \in Nat
    /\ loading \in BOOLEAN /\ error \in BOOLEAN
    /\ busy \subseteq Notes \cup {All}
    /\ calls \in [Slots -> Calls \cup {None}]
    /\ turns \in Nat

\* A spinner turns only while a request that will stop it is in flight: no way
\* a request can end, on the page that sent it, leaves one turning for ever.
SpinnerHasCall ==
    /\ loading => InFlight(Reads)
    /\ \A k \in busy : \E s \in Slots :
          calls[s] # None /\ calls[s].mine
          /\ IF k = All THEN calls[s].what = "markAll"
             ELSE calls[s].what = "mark" /\ calls[s].note = k

\* Whatever comes first, an answer that has a row already or its event, no
\* notification is on a page twice, and no page is longer than its size.
ShownOnce ==
    /\ \A i, j \in DOMAIN shown : shown[i].id = shown[j].id => i = j
    /\ page = "dashboard" => Len(shown) <= RecentSize
    /\ page = "list" => Len(shown) <= PageSize

\* A badge that does not show the server's number is on its way to it, in however
\* many steps: an event or the answer of a PUT that the tab will hear of, or a
\* request that no change has outdated.  It may be left "adrift" by what the code
\* does not prevent: a request or the answer of a PUT fails, an answer overtakes a
\* later one, there is no token, or a row that was pushed becomes unread (it
\* commits, or a dispatch sets it back) when the count that its event had asked
\* for is over.
BadgeCatchesUp ==
    badge = "due" =>
        \/ counts.asked > 0 \/ wire # <<>>
        \/ \E s \in Slots : \E what \in {"mark", "markAll"} : Is(s, what, "answered")

\* When no fetch is under way the list has been given the filter, the search and
\* the page that are selected (though an answer to an earlier selection may have
\* come after it), or says that they could not be loaded.
ChosenViewSettles ==
    page = "list" /\ ~InFlight({"items"}) =>
        viewState \in {"shown", "overtaken"} \/ (viewState = "failed" /\ error)

\* What a page shows as read is read at the server: the row was marked, and, if
\* it is unread again, by a dispatch that wrote back what it had loaded.  Only
\* the Dashboard may be ahead of the server ("mark all" also greys what came
\* after it), and then it is about to fetch, or says that it could not.
ReadIsRead ==
    \A i \in DOMAIN shown : shown[i].read =>
        \/ shown[i].id \in read \cup undone
        \/ page = "dashboard" /\ (error \/ InFlight({"items"}))

=============================================================================
