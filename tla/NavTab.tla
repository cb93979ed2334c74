------------------------------- MODULE NavTab -------------------------------
(***************************************************************************)
(* The tabs of the page (dwz.navTab.js) as operators on a record p of the  *)
(* page's variables.  Tabs and panels are two lists of the document that   *)
(* correspond by position only; indexes count from 0, as in the code.      *)
(* A tab is flagged when it is to be loaded again once it is shown.        *)
(***************************************************************************)
EXTENDS Integers, Sequences, FiniteSets, SequencesExt

Pages == {"main", "studentList", "externald"}   \* the tab ids of index.jsp
NoUrl == {"main"}           \* the tab of the page itself
External == {"externald"}   \* shown in a frame, loads nothing through ajax

\* The sequence of f(x) for the elements x of s.
EachOf(f(_), s) == FoldLeft(LAMBDA done, x : Append(done, f(x)), <<>>, s)

Nothing == [kind |-> "nothing", rows |-> <<>>]

\* The keys of panels, and of dialogs, that something still refers to.
RequestKeys(p) == {p.requests[i].to : i \in DOMAIN p.requests}
PanelKeys(p) == {p.panels[i].key : i \in DOMAIN p.panels} \cup RequestKeys(p)
DialogKeys(p) ==
    {p.dialogs[i].key : i \in DOMAIN p.dialogs} \cup {p.registry[d] : d \in DOMAIN p.registry}
        \cup UNION {ToSet(p.dialogs[i].closers) : i \in DOMAIN p.dialogs}
        \cup {p.cur} \cup RequestKeys(p)

\* The first element of the document that used does not name.
Fresh(used) == CHOOSE k \in 1 .. Cardinality(used) + 1 : k \notin used /\ 1 .. k - 1 \subseteq used

IndexTabId(p, id) ==
    IF \E i \in DOMAIN p.tabs : p.tabs[i].id = id
      THEN (CHOOSE i \in DOMAIN p.tabs : p.tabs[i].id = id) - 1 ELSE -1

HasTab(p, id) == IndexTabId(p, id) >= 0

\* The ajax call that fills an element: ajaxUrl, which index.jsp defines anew.
Load(p, kind, key, id) ==
    [p EXCEPT !.requests = Append(@, [kind |-> kind, to |-> key, id |-> id, old |-> id, name |-> "",
                                      stage |-> "sent", res |-> "", rows |-> <<>>])]

\* A tab loads what its url names into its panel.
LoadTab(p, i) ==
    IF p.tabs[i + 1].id \in NoUrl \cup External THEN p
    ELSE Load(p, "list", p.panels[i + 1].key, "")

Reload(p, i, force) ==
    IF (force \/ p.tabs[i + 1].flag) /\ p.tabs[i + 1].id \notin NoUrl
      THEN LoadTab([p EXCEPT !.tabs[i + 1].flag = FALSE], i) ELSE p

SwitchTab(p, i) == Reload([p EXCEPT !.current = i], i, FALSE)

InitTabs(p) == SwitchTab(p, p.current)

CloseTab(p, i) ==
    LET closed == [p EXCEPT !.tabs = RemoveAt(@, i + 1), !.panels = RemoveAt(@, i + 1),
                            !.current = IF @ >= i THEN @ - 1 ELSE @]
        shown == InitTabs(closed)
    IN  Reload(shown, shown.current, FALSE)

CloseCurrentTab(p) == IF p.current > 0 THEN CloseTab(p, p.current) ELSE p

CloseAllTab(p) ==
    InitTabs([p EXCEPT !.tabs = SubSeq(@, 1, 1), !.panels = SubSeq(@, 1, 1), !.current = 0])

\* Mutant: the last panel stays, whichever tab does.
CloseOtherTab_LastPanel(p, i) ==
    IF i > 0
      THEN InitTabs([p EXCEPT !.tabs = <<@[1], @[i + 1]>>, !.panels = <<@[1], Last(@)>>,
                              !.current = 1])
      ELSE CloseAllTab(p)

CloseOtherTab(p, i) ==
    IF i > 0
      THEN InitTabs([p EXCEPT !.tabs = <<@[1], @[i + 1]>>, !.panels = <<@[1], @[i + 1]>>,
                              !.current = 1])
      ELSE CloseAllTab(p)

ReloadFlag(p, id) ==
    LET i == IndexTabId(p, id) IN
    IF i = -1 THEN p
    ELSE IF i = p.current THEN Reload(p, i, TRUE)
    ELSE [p EXCEPT !.tabs[i + 1].flag = TRUE]

ReloadTab(p, id) == IF HasTab(p, id) THEN LoadTab(p, IndexTabId(p, id)) ELSE p

\* A tab that is open is loaded again, also when it is then loaded for its flag.
OpenTab(p, id) ==
    LET new == [p EXCEPT !.tabs = Append(@, [id |-> id, flag |-> FALSE]),
                         !.panels = Append(@, [key |-> Fresh(PanelKeys(p)), of |-> id, shows |-> Nothing]),
                         !.current = Len(p.tabs)]
    IN  IF HasTab(p, id)
          THEN InitTabs([LoadTab(p, IndexTabId(p, id)) EXCEPT !.current = IndexTabId(p, id)])
          ELSE InitTabs(LoadTab(new, new.current))

\* The callback of the address that openTab adds to the history.
LoadHistory(p, id) == IF HasTab(p, id) THEN SwitchTab(p, IndexTabId(p, id)) ELSE p

NavTabCheckTimeout(p) ==
    IF p.panels[p.current + 1].shows.kind = "timeout" THEN CloseCurrentTab(p) ELSE p
=============================================================================
