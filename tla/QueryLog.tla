-------------------------------- MODULE QueryLog -------------------------------
(***************************************************************************)
(* The query log of fivem/index.ts and the window that shows it: the       *)
(* buffers per resource, readConfig and the oxmysql_debug and mysql        *)
(* commands, the events between client and server (ui.lua), and the pages  *)
(* of web/src.                                                             *)
(*                                                                         *)
(* Events between one client and the server keep their order, and so do    *)
(* timers of equal length.  An entry is a record: its resource, its number *)
(* among all that resource ever logged, its text (a rank, for sorting) and *)
(* its execution time.  The totals both pages print are left out.          *)
(*                                                                         *)
(* A definition named Slip... is a faulty variant of the one that follows. *)
(***************************************************************************)
EXTENDS Integers, SequencesExt

CONSTANTS Resource,    \* the resources that query
          Sample,      \* what a query may look like: text and time
          Found,       \* per search, the texts that contain it
          Sort,        \* the sortings; None sorts nothing
          None,
          Sizes,       \* the values of mysql_log_size
          DebugSize,   \* the size under mysql_debug, 10000
          PageSize,    \* 10
          Entries,     \* bound: log messages
          Changes,     \* bound: convar changes
          Clicks       \* bound: what the user does

ASSUME LogAssumption == /\ Sizes \cup {DebugSize} \subseteq Nat /\ Sizes # {}
                        /\ PageSize \in Nat \ {0}
                        /\ {Entries, Changes, Clicks} \subseteq Nat
                        /\ \A s \in Sample : s.text \in Nat /\ s.time \in Nat

VARIABLES convar,      \* mysql_ui, mysql_log_size and mysql_debug as set
          ui, logSize, \* the parent's copies
          log,         \* logStorage
          accepted,    \* how many entries each resource ever logged
          largest,     \* the largest logSize an entry was logged under
          view,        \* the window: visible, its route, the resources it lists
          table,       \* the Resource page: page, search, sort, maxPage, rows
          timers,      \* fetches due in 300 ms, the open page's own one last
          requests,    \* fetchResource events on their way
          replies,     \* loadResource events on their way
          changes, clicks

server == <<convar, ui, logSize, log, accepted, largest, changes>>
window == <<view, table, timers, clicks>>
vars == <<convar, ui, logSize, log, accepted, largest, view, table, timers,
          requests, replies, changes, clicks>>

Root == ""
\* mysql_debug: 'false', a list, or JSON that counts as true or as false (null, 0).
Off == [t |-> "false"]
List(S) == [t |-> "list", on |-> S]
Other == [t |-> "other"]
Falsy == [t |-> "falsy"]

NoRows == [rows |-> <<>>, of |-> None]
Fresh == [page |-> 0, search |-> "", sort |-> None, maxPage |-> 0, shown |-> NoRows]

Init == /\ convar = [ui |-> TRUE, size |-> CHOOSE n \in Sizes : TRUE, debug |-> Off]
        /\ ui = TRUE
        /\ logSize = convar.size
        /\ log = <<>>
        /\ accepted = [r \in Resource |-> 0]
        /\ largest = 0
        /\ view = [visible |-> FALSE, route |-> Root, resources |-> {}]
        /\ table = Fresh
        /\ timers = <<>>
        /\ requests = <<>>
        /\ replies = <<>>
        /\ changes = 0
        /\ clicks = 0

-----------------------------------------------------------------------------
(* Configuration *)

\* The listener for mysql_* runs readConfig whenever a convar has changed.
readConfig(c) ==
    /\ convar' = c
    /\ ui' = c.ui
    /\ logSize' = IF c.debug \in {Off, Falsy} THEN c.size ELSE DebugSize

SetConvar ==
    /\ changes < Changes
    /\ changes' = changes + 1
    /\ \E on \in BOOLEAN, n \in Sizes, d \in {convar.debug, Other, Falsy} :
          readConfig([ui |-> on, size |-> n, debug |-> d])
    /\ UNCHANGED <<log, accepted, largest, window, requests, replies>>

\* oxmysql_debug add|remove: what is no list of names counts as empty, and the
\* empty list is written as 'false'.
oxmysql_debug(name) ==
    LET now == IF convar.debug.t = "list" THEN convar.debug.on ELSE {}
        new == IF name \in now THEN now \ {name} ELSE now \cup {name}
    IN  /\ changes < Changes
        /\ changes' = changes + 1
        /\ readConfig([convar EXCEPT !.debug = IF new = {} THEN Off ELSE List(new)])
        /\ UNCHANGED <<log, accepted, largest, window, requests, replies>>

-----------------------------------------------------------------------------
(* The buffers *)

Bucket(r) == IF r \in DOMAIN log THEN log[r] ELSE <<>>
Accepted == MapThenSumSet(LAMBDA r : accepted[r], Resource)

SlipKept(r) == IF Len(Bucket(r)) > logSize THEN Front(Bucket(r)) ELSE Bucket(r)

\* One entry makes room when there are more than mysql_log_size.
Kept(r) == IF Len(Bucket(r)) > logSize THEN Tail(Bucket(r)) ELSE Bucket(r)

Entry(r, n, s) == [of |-> r, n |-> n, text |-> s.text, time |-> s.time]

logQuery(r, s) ==
    /\ Accepted < Entries
    /\ ui
    /\ accepted' = [accepted EXCEPT ![r] = @ + 1]
    /\ largest' = IF logSize > largest THEN logSize ELSE largest
    /\ log' = [x \in DOMAIN log \cup {r} |->
                   IF x = r THEN Append(Kept(r), Entry(r, accepted[r] + 1, s)) ELSE log[x]]
    /\ UNCHANGED <<convar, ui, logSize, changes, window, requests, replies>>

-----------------------------------------------------------------------------
(* fetchResource *)

\* Array.prototype.slice, which counts negative indices from the end.
Slice(s, from, to) ==
    LET at(k) == IF k < 0 THEN (IF Len(s) + k > 0 THEN Len(s) + k ELSE 0)
                 ELSE (IF k < Len(s) THEN k ELSE Len(s))
    IN  SubSeq(s, at(from) + 1, at(to))

\* The entries that a search finds, by their places in the buffer.
Filtered(f) ==
    {i \in DOMAIN Bucket(f.resource) :
        f.search = "" \/ Bucket(f.resource)[i].text \in Found[f.search]}

\* Which of two entries sort() puts first.  Equal times keep their order; of
\* equal texts the later one comes first, as their comparator never answers 0.
Smaller(s, id, i, j) ==
    IF id = "query" THEN \/ s[i].text < s[j].text
                         \/ s[i].text = s[j].text /\ j < i
    ELSE \/ s[i].time < s[j].time
         \/ s[i].time = s[j].time /\ i < j

Before(s, sort, i, j) ==
    CASE sort = None -> i < j
      [] sort # None /\ sort.desc -> Smaller(s, sort.id, j, i)
      [] OTHER -> Smaller(s, sort.id, i, j)

\* The entries at the places I, each as far on as there are others before it.
sortQueries(s, I, sort) ==
    LET place(i) == Cardinality({j \in I : Before(s, sort, j, i)}) + 1
    IN  [k \in 1..Cardinality(I) |-> s[CHOOSE i \in I : place(i) = k]]

PageOf(f) ==
    LET sorted == sortQueries(Bucket(f.resource), Filtered(f), f.sort)
    IN  [rows |-> Slice(sorted, f.page * PageSize, (f.page + 1) * PageSize),
         count |-> (Len(sorted) + PageSize - 1) \div PageSize,
         of |-> f]

\* A resource that has never logged anything gets no answer.  That a player
\* whose right to the mysql command is taken away gets none is left out.
FetchResource ==
    /\ requests # <<>>
    /\ requests' = Tail(requests)
    /\ replies' = IF Head(requests).resource \in DOMAIN log
                  THEN Append(replies, PageOf(Head(requests))) ELSE replies
    /\ UNCHANGED <<server, window>>

-----------------------------------------------------------------------------
(* The window *)

Mounted(v) == v.visible /\ v.route # Root
Click == clicks < Clicks /\ clicks' = clicks + 1

Fetch(r, t) == [resource |-> r, page |-> t.page, search |-> t.search, sort |-> t.sort]
Late == IF timers # <<>> /\ Last(timers).own THEN Front(timers) ELSE timers
Armed(r, sort) == [own |-> TRUE, resource |-> r, sort |-> sort]
SlipArm(t) == timers
Arm(t) == Append(Late, Armed(view.route, t.sort))

\* A page that goes away empties the rows and resets the page number; the
\* search is left, and its timer stays armed.
Move(v) ==
    /\ view' = v
    /\ table' = CASE Mounted(v) /\ ~Mounted(view) -> Fresh
                  [] Mounted(view) /\ ~Mounted(v) -> [Fresh EXCEPT !.search = table.search]
                  [] OTHER -> table
    /\ timers' = CASE Mounted(v) /\ ~Mounted(view) -> Append(timers, Armed(v.route, None))
                   [] Mounted(view) /\ ~Mounted(v) ->
                          [i \in DOMAIN timers |-> [timers[i] EXCEPT !.own = FALSE]]
                   [] OTHER -> timers

\* The mysql command and openUI.
Open == /\ Click
        /\ ui
        /\ Move([view EXCEPT !.visible = TRUE, !.resources = DOMAIN log])
        /\ UNCHANGED <<server, requests, replies>>

Visit(r) == /\ Click
            /\ view.visible /\ view.route = Root /\ r \in view.resources
            /\ Move([view EXCEPT !.route = r])
            /\ UNCHANGED <<server, requests, replies>>

Back == /\ Click
        /\ Mounted(view)
        /\ Move([view EXCEPT !.route = Root])
        /\ UNCHANGED <<server, requests, replies>>

Escape == /\ Click
          /\ view.visible
          /\ Move([view EXCEPT !.visible = FALSE])
          /\ UNCHANGED <<server, requests, replies>>

\* A change of the page, the search or the sorting arms the timer anew.
Change(t) == /\ Click
             /\ Mounted(view)
             /\ table' = t
             /\ timers' = Arm(t)
             /\ UNCHANGED <<server, view, requests, replies>>

Search(s) == s # table.search /\ Change([table EXCEPT !.search = s, !.page = 0])
SortBy(s) == s # table.sort /\ Change([table EXCEPT !.sort = s])
FirstPage == table.page # 0 /\ Change([table EXCEPT !.page = 0])
PreviousPage == table.page # 0 /\ Change([table EXCEPT !.page = @ - 1])
NextPage == table.page < table.maxPage - 1 /\ Change([table EXCEPT !.page = @ + 1])
LastPage == /\ table.page # table.maxPage - 1
            /\ Change([table EXCEPT !.page = table.maxPage - 1])

\* Page and search are those of the filter all pages share (store/resource.ts),
\* as they are now; resource and sorting those of the page that armed the timer.
TimerFires == /\ timers # <<>>
              /\ timers' = Tail(timers)
              /\ requests' = Append(requests, Fetch(Head(timers).resource,
                                       [table EXCEPT !.sort = Head(timers).sort]))
              /\ UNCHANGED <<server, view, table, replies, clicks>>

\* loadResource does not say which resource it is about.
LoadResource ==
    /\ replies # <<>>
    /\ replies' = Tail(replies)
    /\ table' = IF Mounted(view)
                THEN [table EXCEPT !.maxPage = Head(replies).count,
                                   !.shown = [rows |-> Head(replies).rows,
                                              of |-> Head(replies).of]]
                ELSE table
    /\ UNCHANGED <<server, view, timers, requests, clicks>>

-----------------------------------------------------------------------------
Next == \/ SetConvar
        \/ \E r \in Resource : oxmysql_debug(r) \/ Visit(r)
        \/ \E r \in Resource, s \in Sample : logQuery(r, s)
        \/ FetchResource \/ TimerFires \/ LoadResource
        \/ Open \/ Back \/ Escape
        \/ FirstPage \/ PreviousPage \/ NextPage \/ LastPage
        \/ \E s \in DOMAIN Found : Search(s)
        \/ \E s \in Sort : SortBy(s)

Spec == Init /\ [][Next]_vars

-----------------------------------------------------------------------------
(* Properties *)

\* A buffer holds the newest entries of its resource without a gap, at most one
\* more than the largest mysql_log_size so far, and never fewer than the
\* smallest one allows: nothing is lost while there is room.
BufferKeepsNewest ==
    \A r \in DOMAIN log :
        /\ Len(log[r]) <= largest + 1
        /\ \A i \in DOMAIN log[r] : /\ log[r][i].of = r
                                    /\ log[r][i].n = accepted[r] - Len(log[r]) + i
        /\ Len(log[r]) < accepted[r] => \E n \in Sizes \cup {DebugSize} : Len(log[r]) > n

Quiet == Mounted(view) /\ timers = <<>> /\ requests = <<>> /\ replies = <<>>
ShowsOwnFetch == table.shown.of = Fetch(view.route, table)

\* Rows that a fetch may be answered with: no more than a page, all of its
\* resource and found by its search, and no entry twice.
Answers(rows, f) ==
    /\ Len(rows) <= PageSize
    /\ \A i \in DOMAIN rows : /\ rows[i].of = f.resource
                              /\ f.search = "" \/ rows[i].text \in Found[f.search]
                              /\ \A j \in DOMAIN rows : rows[i].n = rows[j].n => i = j

\* Once nothing is under way, the window shows what the server has answered for
\* the resource, page, search and sorting it stands at, and nothing else: a reply
\* about another resource, or a fetch of a page that was left, is always followed
\* by the one that is due.
QuietShowsOwnPage ==
    Quiet => ShowsOwnFetch /\ Answers(table.shown.rows, Fetch(view.route, table))
================================================================================
