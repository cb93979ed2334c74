----------------------------- MODULE Workbench -----------------------------
(***************************************************************************)
(* The student pages of mybatis-demo: a browser page made of tabs (NavTab) *)
(* and modal dialogs (PDialog), its alert box and its ajax requests, and   *)
(* the server that lists, saves and deletes students in a table that other *)
(* users change too.                                                       *)
(*                                                                         *)
(* Requests are served in any order, a save in two steps of its thread,    *)
(* and answered in any order.  While one is under way an overlay covers    *)
(* the page: it stops the mouse, neither the keyboard nor the browser's    *)
(* history.  What disturbs a user with a mouse whose requests are answered  *)
(* is bounded and remembered.                                              *)
(***************************************************************************)
EXTENDS PDialog

CONSTANTS
    Student,        \* the ids of students
    Name,           \* the rest of a row
    Absent,         \* there is no row
    MaxRequests,    \* bound on the requests under way
    MaxDialogs,     \* bound on the dialogs, closed ones that are referred to included
    MaxFaults,      \* bound on the disturbances
    Faults          \* their kinds: "keyboard", "lost", "expired", "others"

ASSUME WorkbenchAssumption ==
    /\ Absent \notin Name
    /\ MaxRequests \in Nat /\ MaxDialogs \in Nat /\ MaxFaults \in Nat
    /\ Faults \subseteq {"keyboard", "lost", "expired", "others"}

VARIABLES
    page,       \* the variables of the page
    rows,       \* the table
    session,    \* the user is logged in
    faults,     \* how many disturbances there have been
    disturbed   \* their kinds, and "overtaken" answers (history)

vars == <<page, rows, session, faults, disturbed>>

NoAlert == [type |-> "none", call |-> "none", id |-> Blank]

NewPage ==
    [tabs |-> <<[id |-> "main", flag |-> FALSE]>>,
     panels |-> <<[key |-> 1, of |-> "main", shows |-> Nothing]>>,
     current |-> 0,
     dialogs |-> <<>>, registry |-> NoDialogs, cur |-> NoDialog, mask |-> FALSE,
     alert |-> NoAlert, alertBg |-> FALSE, requests |-> <<>>]

Init ==
    /\ page = NewPage
    /\ rows \in [Student -> Name \cup {Absent}]
    /\ session = TRUE
    /\ faults = 0
    /\ disturbed = {}
-----------------------------------------------------------------------------
\* alertMsg: a new box takes the place of the one that is shown.
Alert(p, type, call, id) ==
    [p EXCEPT !.alert = [type |-> type, call |-> call, id |-> id],
              !.alertBg = @ \/ type \in {"error", "confirm"}]

CloseAlert(p) == [p EXCEPT !.alert = NoAlert, !.alertBg = FALSE]

Disturb(kind) ==
    /\ kind \in Faults
    /\ faults < MaxFaults
    /\ faults' = faults + 1
    /\ disturbed' = disturbed \cup {kind}

Undisturbed == UNCHANGED <<faults, disturbed>>

\* The overlay follows the requests of this page, not those of one that was left.
Overlay == \E i \in DOMAIN page.requests : page.requests[i].to # -1

\* Mutant: nothing covers the page while a request is under way.
User_NoOverlay(p, covered) ==
    /\ Len(p.requests) <= MaxRequests /\ Len(p.dialogs) <= MaxDialogs
    /\ page' = p
    /\ UNCHANGED <<rows, session>>
    /\ IF ~page.alertBg /\ ~covered THEN Undisturbed ELSE page.alert = NoAlert /\ Disturb("keyboard")

\* What the user does makes the page p: with the mouse where nothing covers
\* the place, or with the keyboard unless an alert swallows every key.
User(p, covered) ==
    /\ Len(p.requests) <= MaxRequests /\ Len(p.dialogs) <= MaxDialogs
    /\ page' = p
    /\ UNCHANGED <<rows, session>>
    /\ IF ~Overlay /\ ~page.alertBg /\ ~covered THEN Undisturbed
       ELSE page.alert = NoAlert /\ Disturb("keyboard")

OnPage(p) == User(p, page.mask)
OnDialog(key, p) == IsOpen(page, key) /\ User(p, FALSE)

Menu(id) == OnPage(OpenTab(page, id))
ClickTab(i) == i < Len(page.tabs) /\ OnPage(SwitchTab(page, i))
ClickClose(i) == i \in 1 .. Len(page.tabs) - 1 /\ OnPage(CloseTab(page, i))

\* The context menu of a tab: reload, closeOther, which on the main tab means
\* the shown one, and closeAll.  Entries that look disabled work all the same;
\* closeCurrent does what the cross of the tab does.
TabMenu(i) ==
    /\ i < Len(page.tabs)
    /\ \/ OnPage(Reload(page, i, TRUE))
       \/ OnPage(CloseOtherTab(page, IF i > 0 THEN i ELSE page.current))
       \/ OnPage(CloseAllTab(page))

\* Nothing covers the buttons of the browser.  Every tab that is open has an
\* address in its history, and the user can be at another one (that of the
\* page itself, which does nothing) before.
Back(id) ==
    /\ HasTab(page, id)
    /\ LET p == LoadHistory(page, id) IN Len(p.requests) <= MaxRequests /\ page' = p
    /\ UNCHANGED <<rows, session>> /\ Undisturbed

Shown == page.panels[page.current + 1]
InList == Shown.shows.kind = "list"
Listed == {s \in Student : Shown.shows.rows[s] # Absent}

Search == InList /\ OnPage(Load(page, "list", Shown.key, Blank))
AddStudent == InList /\ OnPage(Open(page, "addStudent", Blank))
UpdateStudent(s) == InList /\ s \in Listed /\ OnPage(Open(page, "updateStudent", s))
DeleteStudent(s) == InList /\ s \in Listed /\ OnPage(Alert(page, "confirm", "delete", s))

Request(kind, to, id, old, name) ==
    [kind |-> kind, to |-> to, id |-> id, old |-> old, name |-> name,
     stage |-> "sent", res |-> "", rows |-> <<>>]

\* The click that submits the form makes its dialog the current one.
Submit(key, s, n) ==
    LET form == page.dialogs[DialogAt(page, key)].shows IN
    /\ form.kind = "form"
    /\ OnDialog(key, [page EXCEPT !.cur = key,
                                  !.requests = Append(@, Request("save", key, s, form.old, n))])

CancelDialog(key) ==
    page.dialogs[DialogAt(page, key)].shows.kind = "form" /\ OnDialog(key, Cancel(page, key))

CloseDialog(key) == OnDialog(key, Close(page, key))

\* The requests of a page that was left are still served.
Leave(p) == [NewPage EXCEPT !.requests = EachOf(LAMBDA q : [q EXCEPT !.to = -1], p.requests)]

\* The alert box has a key for each button, and a timer when it needs none.
AlertDone(p) ==
    /\ Len(p.requests) <= MaxRequests
    /\ page' = p
    /\ UNCHANGED rows
    /\ IF ~Overlay \/ page.alert.type = "correct" THEN Undisturbed
       ELSE Disturb("keyboard")

AlertOk ==
    LET p == CloseAlert(page) IN
    /\ page.alert # NoAlert
    /\ \/ page.alert.call = "none" /\ AlertDone(p) /\ UNCHANGED session
       \/ /\ page.alert.call = "delete"
          /\ AlertDone([p EXCEPT !.requests =
                 Append(@, Request("delete", NoDialog, page.alert.id, Blank, Absent))])
          /\ UNCHANGED session
       \/ page.alert.call = "login" /\ AlertDone(Leave(page)) /\ session' = TRUE

AlertCancel == page.alert.type = "confirm" /\ AlertDone(CloseAlert(page)) /\ UNCHANGED session
-----------------------------------------------------------------------------
\* The server.  The handler runs whether or not the user is logged in: the
\* answer is replaced afterwards.
Answers(i, res) == IF session THEN res ELSE "timeout"

Reply(i, res, old, list) ==
    page' = [page EXCEPT !.requests[i].stage = "answered", !.requests[i].res = Answers(i, res),
                         !.requests[i].old = old, !.requests[i].rows = list]

Serving(i, kind, stage) == page.requests[i].kind = kind /\ page.requests[i].stage = stage

\* list, and edit: the form of a student that is gone is a blank one.
ServeList(i) ==
    /\ Serving(i, "list", "sent")
    /\ Reply(i, "ok", Blank, rows)
    /\ UNCHANGED <<rows, session>> /\ Undisturbed

ServeForm(i) ==
    LET s == page.requests[i].id IN
    /\ Serving(i, "form", "sent")
    /\ Reply(i, "ok", IF s # Blank /\ rows[s] # Absent THEN s ELSE Blank, <<>>)
    /\ UNCHANGED <<rows, session>> /\ Undisturbed

\* save: a new id, for a new student or for a renamed one, is looked up first.
Update(i) ==
    LET q == page.requests[i] IN
    /\ Serving(i, "save", "sent") /\ q.old = q.id
    /\ rows' = [rows EXCEPT ![q.id] = IF @ = Absent THEN Absent ELSE q.name]
    /\ Reply(i, "ok", q.old, <<>>)
    /\ UNCHANGED session /\ Undisturbed

LookUp(i) ==
    LET q == page.requests[i] IN
    /\ Serving(i, "save", "sent") /\ q.old # q.id
    /\ \/ rows[q.id] # Absent /\ Reply(i, "error", q.old, <<>>)
       \/ rows[q.id] = Absent /\ page' = [page EXCEPT !.requests[i].stage = "checked"]
    /\ UNCHANGED <<rows, session>> /\ Undisturbed

\* Mutant: the table has no key, the later row takes the place of the earlier.
Write_NoKey(i) ==
    LET q == page.requests[i] IN
    /\ Serving(i, "save", "checked")
    /\ rows' = [s \in Student |-> IF s = q.id THEN q.name ELSE IF s = q.old THEN Absent ELSE rows[s]]
    /\ Reply(i, "ok", q.old, <<>>)
    /\ UNCHANGED session /\ Undisturbed

\* The insert, or the update of a key, which the primary key may refuse.
Write(i) ==
    LET q == page.requests[i] IN
    /\ Serving(i, "save", "checked")
    /\ \/ q.old # Blank /\ rows[q.old] = Absent /\ UNCHANGED rows /\ Reply(i, "ok", q.old, <<>>)
       \/ /\ q.old # Blank => rows[q.old] # Absent
          /\ rows[q.id] # Absent /\ UNCHANGED rows /\ Reply(i, "error", q.old, <<>>)
       \/ /\ q.old # Blank => rows[q.old] # Absent
          /\ rows[q.id] = Absent
          /\ rows' = [s \in Student |-> IF s = q.id THEN q.name ELSE IF s = q.old THEN Absent ELSE rows[s]]
          /\ Reply(i, "ok", q.old, <<>>)
    /\ UNCHANGED session /\ Undisturbed

Delete(i) ==
    /\ Serving(i, "delete", "sent")
    /\ rows' = [rows EXCEPT ![page.requests[i].id] = Absent]
    /\ Reply(i, "ok", Blank, <<>>)
    /\ UNCHANGED session /\ Undisturbed

Serve(i) == ServeList(i) \/ ServeForm(i) \/ Update(i) \/ LookUp(i) \/ Write(i) \/ Delete(i)
-----------------------------------------------------------------------------
\* The page gets an answer.

LoginAlert(p) == Alert(p, "error", "login", Blank)

ShowPanel(p, key, content) ==
    [p EXCEPT !.panels = EachOf(LAMBDA x : IF x.key = key THEN [x EXCEPT !.shows = content] ELSE x, @)]

\* ajaxUrl, as index.jsp defines it anew: the content, its callback, and what a timeout closes.
Filled(p, q) ==
    LET kind == IF q.res = "timeout" THEN "timeout" ELSE q.kind
        shown == IF q.kind = "list" THEN ShowPanel(p, q.to, [kind |-> kind, rows |-> q.rows])
                 ELSE ShowForm(p, q.to, [kind |-> kind, old |-> q.old])
    IN  IF q.res = "timeout" THEN LoginAlert(NavTabCheckTimeout(DialogCheckTimeout(shown))) ELSE shown

\* DWZ.ajaxDone, as index.jsp defines it anew: the message.
AjaxDone(p, q) ==
    IF q.res = "timeout" THEN LoginAlert(p)
    ELSE Alert(p, IF q.res = "error" THEN "error" ELSE "correct", "none", Blank)

\* Mutant: the list is not loaded again.
DialogAjaxDone_NoReload(p, q) == IF q.res = "ok" THEN CloseCurrent(AjaxDone(p, q)) ELSE AjaxDone(p, q)

DialogAjaxDone(p, q) ==
    IF q.res = "ok" THEN CloseCurrent(ReloadTab(AjaxDone(p, q), "studentList")) ELSE AjaxDone(p, q)

NavTabAjaxDone(p, q) ==
    IF q.res = "ok" THEN ReloadFlag(AjaxDone(p, q), "studentList") ELSE AjaxDone(p, q)

Handle(p, q) ==
    IF q.kind \in {"list", "form"} THEN Filled(p, q)
    ELSE IF q.kind = "save" THEN DialogAjaxDone(p, q) ELSE NavTabAjaxDone(p, q)

Rest(i) == [page EXCEPT !.requests = RemoveAt(@, i)]

Overtakes(i) ==
    \E j \in 1 .. i - 1 : page.requests[j].kind = "list" /\ page.requests[j].to = page.requests[i].to

\* Requests of a page that was left are answered to nobody.
Answer(i) ==
    LET q == page.requests[i] IN
    /\ q.stage = "answered"
    /\ page' = IF q.to = -1 THEN Rest(i) ELSE Sweep(Handle(Rest(i), q))
    /\ disturbed' = IF q.kind = "list" /\ Overtakes(i) THEN disturbed \cup {"overtaken"} ELSE disturbed
    /\ UNCHANGED <<rows, session, faults>>

\* A request is lost on its way, or its answer: ajaxError.
Lose(i) ==
    LET q == page.requests[i] IN
    /\ q.stage \in {"sent", "answered"}
    /\ page' = IF q.to = -1 THEN Rest(i) ELSE Sweep(Alert(Rest(i), "error", "none", Blank))
    /\ UNCHANGED <<rows, session>>
    /\ Disturb("lost")

Expire ==
    /\ session
    /\ session' = FALSE
    /\ UNCHANGED <<page, rows>>
    /\ Disturb("expired")

\* Another user adds, changes or removes a row.
OtherUser(s, n) ==
    /\ rows[s] # n
    /\ rows' = [rows EXCEPT ![s] = n]
    /\ UNCHANGED <<page, session>>
    /\ Disturb("others")

Next ==
    \/ \E id \in Pages \ {"main"} : Menu(id) \/ Back(id)
    \/ \E i \in 0 .. 2 : ClickTab(i) \/ ClickClose(i) \/ TabMenu(i)
    \/ Search \/ AddStudent \/ AlertOk \/ AlertCancel
    \/ \E s \in Student : UpdateStudent(s) \/ DeleteStudent(s)
    \/ \E i \in DOMAIN page.dialogs :
         LET key == page.dialogs[i].key IN
         \/ CancelDialog(key) \/ CloseDialog(key)
         \/ \E s \in Student, n \in Name : Submit(key, s, n)
    \/ \E i \in DOMAIN page.requests : Serve(i) \/ Answer(i) \/ Lose(i)
    \/ Expire
    \/ \E s \in Student, n \in Name \cup {Absent} : OtherUser(s, n)

Spec == Init /\ [][Next]_vars
-----------------------------------------------------------------------------
Rows == [Student -> Name \cup {Absent}]
Kinds == {"list", "form", "save", "delete"}

\* Every reference leads somewhere: a form and a save to a dialog that is still
\* known, a registered dialog to one that is open.
TypeOK ==
    /\ \A i \in DOMAIN page.tabs : page.tabs[i].id \in Pages /\ page.tabs[i].flag \in BOOLEAN
    /\ \A i \in DOMAIN page.panels :
         /\ page.panels[i].shows.kind \in {"nothing", "list", "timeout"}
         /\ page.panels[i].shows.kind = "list" => page.panels[i].shows.rows \in Rows
    /\ \A i \in DOMAIN page.dialogs :
         page.dialogs[i].id \in DialogIds /\ page.dialogs[i].shows.kind \in {"nothing", "form", "timeout"}
    /\ \A i \in DOMAIN page.requests :
         /\ page.requests[i].kind \in Kinds
         /\ page.requests[i].kind \in {"form", "save"} /\ page.requests[i].to # -1 =>
              Exists(page, page.requests[i].to)
    /\ \A d \in DialogIds : page.registry[d] # NoDialog => IsOpen(page, page.registry[d])
    /\ rows \in Rows /\ session \in BOOLEAN
    /\ faults \in 0 .. MaxFaults
    /\ disturbed \subseteq {"keyboard", "lost", "expired", "others", "overtaken"}

\* The lists of tabs and panels, two of them in the document, stay in step
\* whatever is opened, closed and gone back to, and the shown index is one of
\* them; ids are unique and the main tab stays first.
TabsMatch ==
    /\ Len(page.tabs) = Len(page.panels)
    /\ page.current \in 0 .. Len(page.tabs) - 1
    /\ page.tabs[1].id = "main"
    /\ \A i \in DOMAIN page.tabs :
         /\ page.panels[i].of = page.tabs[i].id
         /\ \A j \in DOMAIN page.tabs : page.tabs[i].id = page.tabs[j].id => i = j

\* A tab that a deletion flagged is loaded again as soon as it is shown.
ShownIsLoaded == ~page.tabs[page.current + 1].flag

\* What is shown is one of the tabs, with its own panel, and not out of date by
\* its flag.
TabsInv == TabsMatch /\ ShownIsLoaded

\* When no request is under way, an open list shows the table or is flagged:
\* but for answers that overtook each other, lost ones, an expired session and
\* changes by other users.
ListsCurrent ==
    page.requests = <<>> /\ disturbed \subseteq {"keyboard"} =>
        \A i \in DOMAIN page.panels :
            page.panels[i].shows.kind = "list" =>
                page.tabs[i].flag \/ page.panels[i].shows.rows = rows

OpenDialogs == {i \in DOMAIN page.dialogs : page.dialogs[i].open}

\* With the mouse alone one dialog is open at a time, the background is there
\* exactly with it, and the registry knows it and no other.
DialogIsModal ==
    "keyboard" \notin disturbed =>
        /\ Cardinality(OpenDialogs) <= 1
        /\ page.mask <=> OpenDialogs # {}
        /\ \A d \in DialogIds : page.registry[d] # NoDialog <=>
              \E i \in OpenDialogs : page.dialogs[i].id = d /\ page.dialogs[i].key = page.registry[d]

\* With the mouse alone the answer to a save finds the dialog it was sent from
\* open and current, so that closeCurrent closes that one.
AnswerFindsItsDialog ==
    "keyboard" \notin disturbed =>
        \A i \in DOMAIN page.requests :
            LET q == page.requests[i] IN
            q.kind = "save" /\ q.to # -1 => page.cur = q.to /\ IsOpen(page, q.to)

\* The saves of new students that are served, and not sent to the login page.
Inserts ==
    {i \in DOMAIN page.requests :
        /\ page.requests[i].kind = "save" /\ page.requests[i].old = Blank
        /\ page.requests[i].stage = "answered" /\ page.requests[i].res # "timeout"}

\* StudentServiceImpl.save looks an id up and writes it in two steps: still, of
\* two saves of one new student at most one is told that it worked, and either
\* answer finds the student in the table.  A second disturbance, or another
\* user, could have taken it out again.
InsertTold ==
    faults <= 1 /\ "others" \notin disturbed =>
        \A i \in Inserts :
            /\ rows[page.requests[i].id] # Absent
            /\ \A j \in Inserts \ {i} :
                  page.requests[i].id = page.requests[j].id =>
                      "error" \in {page.requests[i].res, page.requests[j].res}

\* IStudentService.save, "returns null or empty on success, otherwise the reason
\* of the error": a save that is answered with success has stored its student.
SavedWhenTold ==
    [][\A i \in DOMAIN page.requests :
          LET q == page.requests[i] IN
          /\ q.kind = "save" /\ q.stage # "answered"
          /\ i \in DOMAIN page'.requests
          /\ page'.requests[i] = [q EXCEPT !.stage = "answered", !.res = "ok"]
          => rows'[q.id] = q.name]_vars
=============================================================================
