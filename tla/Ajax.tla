-------------------------------- MODULE Ajax --------------------------------
(***************************************************************************)
(* $.ajax (jquery-2.1.4.js): the jqXHR of each request, the functions it   *)
(* calls on the way, the count of requests under way, and the overlay that *)
(* dwz.ui.js shows from ajaxStart to ajaxStop.                             *)
(*                                                                         *)
(* There is one thread.  stack holds the calls of ajax and done under way, *)
(* the innermost last, each at a point where it runs functions of the      *)
(* program: these may start a request, abort one, throw, and catch what    *)
(* the calls they made throw.  The browser answers, or fires a timer, only *)
(* when the stack is empty.                                                *)
(***************************************************************************)
EXTENDS Integers, Sequences, FiniteSets

CONSTANT MaxRequests    \* bound on the requests

ASSUME AjaxAssumption == MaxRequests \in Nat

Request == 1 .. MaxRequests     \* numbered in the order they are made

VARIABLES
    req,        \* the variables of ajax and its jqXHR, for each request
    stack,
    active,     \* jQuery.active
    overlay,    \* #background and #progressBar are shown
    thrown,     \* a function has thrown (history)
    early       \* a request was aborted by a handler of ajaxSend (history)

vars == <<req, stack, active, overlay, thrown, early>>

Outcomes == {"success", "error"}

\* known: the program has the jqXHR.  installed: the callbacks of the options
\* are on the Deferred.  calls: how often each was called (history).
Fresh ==
    [made |-> FALSE, known |-> FALSE, state |-> 0, installed |-> FALSE, transport |-> FALSE,
     xhr |-> FALSE, timed |-> FALSE, timer |-> FALSE, outcome |-> "none",
     calls |-> [success |-> 0, error |-> 0, complete |-> 0]]

InAjax == {"ajaxStart", "beforeSend", "ajaxSend"}
InDone == {"settle", "complete", "ajaxStop"}

Init ==
    /\ req = [r \in Request |-> Fresh]
    /\ stack = <<>>
    /\ active = 0
    /\ overlay = FALSE /\ thrown = FALSE /\ early = FALSE

Top == stack[Len(stack)]
Pop == SubSeq(stack, 1, Len(stack) - 1)
GoTo(at) == [stack EXCEPT ![Len(stack)].at = at]
At(at) == stack # <<>> /\ Top.at = at
Call(r, at) == [r |-> r, at |-> at]
-----------------------------------------------------------------------------
\* Up to the event ajaxStart, whose handler in dwz.ui.js shows the overlay.
Start(r, timed) ==
    /\ \A q \in Request : req[q].made <=> q < r
    /\ req' = [req EXCEPT ![r].made = TRUE, ![r].timed = timed]
    /\ active' = active + 1
    /\ overlay' = (overlay \/ active = 0)
    /\ stack' = Append(stack, Call(r, IF active = 0 THEN "ajaxStart" ELSE "beforeSend"))
    /\ UNCHANGED <<thrown, early>>

BeforeSend ==
    /\ At("ajaxStart")
    /\ stack' = GoTo("beforeSend")
    /\ UNCHANGED <<req, active, overlay, thrown, early>>

\* Mutant: a request that was settled can be settled again.
Settle_Again(r, outcome, q, below) ==
    /\ req' = [req EXCEPT ![r] =
                 [q EXCEPT !.state = 2, !.timer = FALSE, !.transport = FALSE, !.xhr = FALSE,
                           !.outcome = outcome,
                           !.calls[outcome] = IF q.installed THEN @ + 1 ELSE @]]
    /\ stack' = Append(below, Call(r, "settle"))

\* The first calls of done for a request, in a stack that holds the caller.
Settle(r, outcome, q, below) ==
    LET first == q.outcome = "none"
        tells == first /\ q.installed
    IN  /\ req' = [req EXCEPT ![r] =
                     [q EXCEPT !.state = 2, !.timer = FALSE, !.transport = FALSE, !.xhr = FALSE,
                               !.outcome = IF first THEN outcome ELSE @,
                               !.calls[outcome] = IF tells THEN @ + 1 ELSE @]]
        /\ stack' = Append(below, Call(r, "settle"))

\* done(): a request that is done stays as it is.
Done(r, outcome, q, below) ==
    \/ q.state # 2 /\ Settle(r, outcome, q, below)
    \/ q.state = 2 /\ req' = [req EXCEPT ![r] = q] /\ stack' = below

\* beforeSend has returned, with false or not.
Prepare(false) ==
    LET r == Top.r q == [req[r] EXCEPT !.known = TRUE] IN
    /\ At("beforeSend")
    /\ \/ (false \/ q.state = 2) /\ Done(r, "error", q, Pop)
       \/ /\ ~false /\ q.state # 2
          /\ req' = [req EXCEPT ![r] = [q EXCEPT !.installed = TRUE, !.transport = TRUE]]
          /\ stack' = GoTo("ajaxSend")
    /\ UNCHANGED <<active, overlay, thrown, early>>

\* Mutant: the timer is set for a request that starts the count only.
Send_FirstTimer(fails) ==
    LET r == Top.r q == [req[r] EXCEPT !.timer = req[r].timed /\ active = 1, !.state = 1] IN
    /\ At("ajaxSend")
    /\ \/ (fails \/ ~q.transport) /\ Done(r, "error", q, Pop)
       \/ /\ ~fails /\ q.transport
          /\ req' = [req EXCEPT ![r] = [q EXCEPT !.xhr = TRUE]]
          /\ stack' = Pop
    /\ UNCHANGED <<active, overlay, thrown, early>>

\* Sending fails when ajaxSend has aborted the request, or in the browser.  No
\* transport at all ends the same way, with no function of ajaxSend called.
Send(fails) ==
    LET r == Top.r q == [req[r] EXCEPT !.timer = req[r].timed, !.state = 1] IN
    /\ At("ajaxSend")
    /\ \/ (fails \/ ~q.transport) /\ Done(r, "error", q, Pop)
       \/ /\ ~fails /\ q.transport
          /\ req' = [req EXCEPT ![r] = [q EXCEPT !.xhr = TRUE]]
          /\ stack' = Pop
    /\ UNCHANGED <<active, overlay, thrown, early>>
-----------------------------------------------------------------------------
\* The rest of done.  At "settle" run the callbacks of the Deferred and of the
\* status code and the handlers of ajaxSuccess or ajaxError, at "complete" the
\* callbacks of complete and the handlers of ajaxComplete.
\* Mutant: only a success is followed by complete.
Complete_OnSuccess ==
    LET r == Top.r IN
    /\ At("settle")
    /\ req' = [req EXCEPT ![r].calls.complete =
                 IF @ = 0 /\ req[r].installed /\ req[r].outcome = "success" THEN 1 ELSE @]
    /\ stack' = GoTo("complete")
    /\ UNCHANGED <<active, overlay, thrown, early>>

Complete ==
    LET r == Top.r IN
    /\ At("settle")
    /\ req' = [req EXCEPT ![r].calls.complete =
                 IF @ = 0 /\ req[r].installed THEN 1 ELSE @]
    /\ stack' = GoTo("complete")
    /\ UNCHANGED <<active, overlay, thrown, early>>

\* Mutant: the end of a request that another one started is not counted.
Count_Outer ==
    /\ At("complete")
    /\ active' = IF Len(stack) = 1 THEN active - 1 ELSE active
    /\ overlay' = (overlay /\ active' # 0)
    /\ stack' = IF active' = 0 THEN GoTo("ajaxStop") ELSE Pop
    /\ UNCHANGED <<req, thrown, early>>

Count ==
    /\ At("complete")
    /\ active' = active - 1
    /\ overlay' = (overlay /\ active' # 0)
    /\ stack' = IF active' = 0 THEN GoTo("ajaxStop") ELSE Pop
    /\ UNCHANGED <<req, thrown, early>>

Stopped ==
    /\ At("ajaxStop")
    /\ stack' = Pop
    /\ UNCHANGED <<req, active, overlay, thrown, early>>
-----------------------------------------------------------------------------
\* The program calls abort on a jqXHR that it knows or is given.
Abort(r) ==
    LET sending == \E i \in DOMAIN stack : stack[i] = Call(r, "ajaxSend") IN
    /\ req[r].known \/ (At("beforeSend") /\ Top.r = r)
    /\ Done(r, "error", [req[r] EXCEPT !.xhr = FALSE], stack)
    /\ early' = (early \/ (sending /\ req[r].state = 0))
    /\ UNCHANGED <<active, overlay, thrown>>

\* The browser has the answer; one that cannot be converted is an error.
Answer(r, outcome) ==
    /\ stack = <<>>
    /\ req[r].xhr
    /\ Done(r, outcome, [req[r] EXCEPT !.xhr = FALSE], stack)
    /\ UNCHANGED <<active, overlay, thrown, early>>

\* The timer aborts the request.
Timeout(r) ==
    /\ stack = <<>>
    /\ req[r].timer
    /\ Done(r, "error", [req[r] EXCEPT !.timer = FALSE], stack)
    /\ UNCHANGED <<active, overlay, thrown, early>>

\* A function throws; one of the program that is further out may catch it.
Throw(kept) ==
    /\ stack # <<>>
    /\ kept < Len(stack)
    /\ stack' = SubSeq(stack, 1, kept)
    /\ thrown' = TRUE
    /\ UNCHANGED <<req, active, overlay, early>>

Continue ==
    \/ BeforeSend \/ Complete \/ Count \/ Stopped
    \/ \E b \in BOOLEAN : Prepare(b) \/ Send(b)

Next ==
    \/ Continue
    \/ \E r \in Request :
         \/ \E b \in BOOLEAN : Start(r, b)
         \/ \E o \in Outcomes : Answer(r, o)
         \/ Abort(r) \/ Timeout(r)
    \/ \E kept \in 0 .. Len(stack) : Throw(kept)

Spec == Init /\ [][Next]_vars

\* Functions of the program return and timers fire; a server may never answer.
FairSpec == Spec /\ WF_vars(Continue) /\ \A r \in Request : WF_vars(Timeout(r))
-----------------------------------------------------------------------------
\* The variables have their types; no callback of a request is called twice.
TypeOK ==
    /\ req \in [Request ->
         [made : BOOLEAN, known : BOOLEAN, state : 0 .. 2, installed : BOOLEAN,
          transport : BOOLEAN, xhr : BOOLEAN, timed : BOOLEAN, timer : BOOLEAN,
          outcome : Outcomes \cup {"none"},
          calls : [success : 0 .. 1, error : 0 .. 1, complete : 0 .. 1]]]
    /\ \A i \in DOMAIN stack : stack[i] \in [r : Request, at : InAjax \cup InDone]
    /\ active \in Int
    /\ {overlay, thrown, early} \subseteq BOOLEAN

UnderWay == {r \in Request : req[r].made /\ req[r].state # 2}

\* When nothing runs, jQuery.active counts the requests under way, whatever was
\* started, aborted or timed out from within what, and the overlay is shown
\* exactly while there are some.  A function that throws can only leave it
\* behind, and a request aborted in ajaxSend, which is counted down twice, can
\* only take it away too early.
OverlayFollows ==
    stack = <<>> =>
        /\ ~thrown /\ ~early => active = Cardinality(UnderWay)
        /\ ~early => (UnderWay # {} => overlay)
        /\ ~thrown => (overlay => UnderWay # {})

Phase(c) == <<c.success, c.error, c.complete>>

Order(from, to) ==
    from # to => <<from, to>> \in {<< <<0, 0, 0>>, <<1, 0, 0>> >>, << <<0, 0, 0>>, <<0, 1, 0>> >>,
                                   << <<1, 0, 0>>, <<1, 0, 1>> >>, << <<0, 1, 0>>, <<0, 1, 1>> >>}

\* The callbacks of a request: success or error, once, then complete, once; an
\* abort, a timeout and an answer that come together are one end.
CallbackOrder ==
    [][\A r \in Request : Order(Phase(req[r].calls), Phase(req'[r].calls))]_vars

\* A request whose callbacks are on the Deferred and that is done has called
\* them when nothing runs, unless a function has thrown.
AllToldWhenQuiet ==
    stack = <<>> /\ ~thrown =>
        \A r \in Request : req[r].installed /\ req[r].state = 2 =>
            req[r].calls[req[r].outcome] = 1 /\ req[r].calls.complete = 1

\* The callbacks of a request are called once, neither twice nor never.
ToldInv == TypeOK /\ AllToldWhenQuiet

\* A request with a timeout ends, and with it the overlay when all have one.
TimedRequestsEnd ==
    \A r \in Request :
        (req[r].timed /\ req[r].state = 1) ~> (req[r].state = 2)
=============================================================================
