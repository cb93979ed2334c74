------------------------------ MODULE PDialog ------------------------------
(***************************************************************************)
(* The modal dialogs of the page (dwz.dialog.js) as operators on the       *)
(* record p of the page's variables: the elements, the registry that       *)
(* $("body").data keeps of them, the current dialog and the background     *)
(* that covers the page below.  A dialog that was closed is out of the     *)
(* document, but the variables that refer to it still do.                  *)
(***************************************************************************)
EXTENDS NavTab

DialogIds == {"addStudent", "updateStudent"}

NoDialog == 0
Blank == ""     \* the form of a new student has no old id

NothingYet == [kind |-> "nothing", old |-> Blank]
NoDialogs == [d \in DialogIds |-> NoDialog]

DialogAt(p, key) == CHOOSE i \in DOMAIN p.dialogs : p.dialogs[i].key = key
Exists(p, key) == \E i \in DOMAIN p.dialogs : p.dialogs[i].key = key
IsOpen(p, key) == \E i \in DOMAIN p.dialogs : p.dialogs[i].key = key /\ p.dialogs[i].open

\* Closed dialogs that nothing refers to are forgotten.
Sweep(p) ==
    LET kept == {p.cur} \cup {p.requests[i].to : i \in DOMAIN p.requests}
                  \cup UNION {ToSet(p.dialogs[i].closers) : i \in {j \in DOMAIN p.dialogs : p.dialogs[j].open}}
    IN  [p EXCEPT !.dialogs = SelectSeq(@, LAMBDA d : d.open \/ d.key \in kept)]

\* A registered dialog is shown and loaded again.
Open(p, id, student) ==
    LET known == p.registry[id]
        key == IF known # NoDialog THEN known ELSE Fresh(DialogKeys(p))
        new == [key |-> key, id |-> id, open |-> TRUE, shows |-> NothingYet, closers |-> <<>>]
        shown == IF known # NoDialog THEN [p EXCEPT !.cur = IF @ = NoDialog THEN @ ELSE key]
                 ELSE [p EXCEPT !.dialogs = Append(@, new), !.registry[id] = key, !.cur = key]
    IN  Sweep(Load([shown EXCEPT !.mask = TRUE], "form", key, student))

\* Mutant: the registry keeps the dialog.
Close_Registered(p, key) ==
    [p EXCEPT !.dialogs[DialogAt(p, key)].open = FALSE, !.mask = FALSE]

\* A removed dialog has no id: removeData(undefined) clears the whole registry.
Close(p, key) ==
    IF IsOpen(p, key)
      THEN LET i == DialogAt(p, key) IN
           Sweep([p EXCEPT !.dialogs[i].open = FALSE, !.mask = FALSE,
                           !.registry[p.dialogs[i].id] = NoDialog])
      ELSE [p EXCEPT !.registry = NoDialogs]

CloseCurrent(p) == Close(p, p.cur)

\* The handlers of button.close: of every dialog that was loaded while the
\* button was there, in that order.
Cancel(p, key) ==
    FoldLeft(LAMBDA q, k : Close(q, k), p, p.dialogs[DialogAt(p, key)].closers)

\* The content of a dialog; its callback binds every button.close there is.  A
\* third handler for the same dialog would do what the second does.
ShowForm(p, key, content) ==
    LET Filled(d) == IF d.key = key THEN [d EXCEPT !.shows = content, !.closers = <<>>] ELSE d
        Bound(d) == IF d.open /\ d.shows.kind = "form" /\ Len(SelectSeq(d.closers, LAMBDA k : k = key)) < 2
                      THEN [d EXCEPT !.closers = Append(@, key)] ELSE d
    IN  IF Exists(p, key)
          THEN [p EXCEPT !.dialogs = EachOf(LAMBDA d : Bound(Filled(d)), p.dialogs)]
          ELSE p

DialogCheckTimeout(p) ==
    IF Exists(p, p.cur) /\ p.dialogs[DialogAt(p, p.cur)].shows.kind = "timeout"
      THEN CloseCurrent(p) ELSE p
=============================================================================
