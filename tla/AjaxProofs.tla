----------------------------- MODULE AjaxProofs -----------------------------
(***************************************************************************)
(* Whatever functions of the program do in the calls of ajax and done, the *)
(* callbacks of a request are called in order and once, and jQuery.active  *)
(* counts the requests under way, for any number of requests.              *)
(***************************************************************************)
EXTENDS Ajax, SequenceTheorems, FiniteSetTheorems, TLAPS

Calls == [success : 0 .. 1, error : 0 .. 1, complete : 0 .. 1]

JqXHR ==
    [made : BOOLEAN, known : BOOLEAN, state : 0 .. 2, installed : BOOLEAN,
     transport : BOOLEAN, xhr : BOOLEAN, timed : BOOLEAN, timer : BOOLEAN,
     outcome : Outcomes \cup {"none"}, calls : Calls]

Frame == [r : Request, at : InAjax \cup InDone]

Types ==
    /\ req \in [Request -> JqXHR]
    /\ stack \in Seq(Frame)
    /\ active \in Int
    /\ overlay \in BOOLEAN /\ thrown \in BOOLEAN /\ early \in BOOLEAN

\* A request has the outcome it was settled with first, and has told it if its
\* callbacks were there.
RequestOk(q) ==
    /\ q.state = 2 <=> q.outcome # "none"
    /\ q.calls.success = (IF q.installed /\ q.outcome = "success" THEN 1 ELSE 0)
    /\ q.calls.error = (IF q.installed /\ q.outcome = "error" THEN 1 ELSE 0)
    /\ q.calls.complete = 1 => q.installed /\ q.state = 2
    /\ q.transport => q.state # 2
    /\ ~q.made => q.state = 0 /\ ~q.known /\ ~q.xhr /\ ~q.timer

RequestsOk == \A r \in Request : RequestOk(req[r])

\* A call of done is about a request that is done; a call of ajax about one that
\* was not sent, and that was aborted too early if it is done at ajaxSend.
FrameOk(c, q, tooEarly) ==
    /\ q.made
    /\ c.at \in InDone => q.state = 2
    /\ c.at \in InAjax => q.state # 1
    /\ c.at = "ajaxSend" /\ q.state = 2 => tooEarly

FramesOk == \A i \in DOMAIN stack : FrameOk(stack[i], req[stack[i].r], early)

\* There is one call of ajax for a request.
OneAjax ==
    \A i, j \in DOMAIN stack :
        stack[i].at \in InAjax /\ stack[j].at \in InAjax /\ stack[i].r = stack[j].r => i = j

\* A request that is done and has callbacks that were not told of it is in a
\* call of done that goes on to tell them.
Awaits(q) == q.installed /\ q.state = 2 /\ q.calls.complete = 0

Told ==
    ~thrown =>
        \A r \in Request : Awaits(req[r]) =>
            \E i \in DOMAIN stack : stack[i] = Call(r, "settle")

IInv == Types /\ RequestsOk /\ FramesOk /\ OneAjax /\ Told
-----------------------------------------------------------------------------
\* The stack after a step: its first n calls, and one more or none.
Keeps(n) ==
    /\ stack' \in Seq(Frame) /\ Len(stack') = n /\ n \in 0 .. Len(stack)
    /\ \A i \in 1 .. n : stack'[i] = stack[i]

Pushes(n, c) ==
    /\ stack' \in Seq(Frame) /\ Len(stack') = n + 1 /\ n \in 0 .. Len(stack)
    /\ \A i \in 1 .. n : stack'[i] = stack[i]
    /\ stack'[n + 1] = c

\* A stack that is cut, by a throw or a return, keeps its outer calls.
LEMMA CutKeeps ==
    ASSUME stack \in Seq(Frame), NEW n \in 0 .. Len(stack), stack' = SubSeq(stack, 1, n)
    PROVE  Keeps(n)
<1>1. Len(stack) \in Nat /\ n \in Nat /\ 1 \in Int /\ n \in Int
  OBVIOUS
<1>2. \A i \in 1 .. n : stack[i] \in Frame
  BY <1>1
<1>3. /\ SubSeq(stack, 1, n) \in Seq(Frame)
      /\ Len(SubSeq(stack, 1, n)) = IF 1 <= n THEN n - 1 + 1 ELSE 0
      /\ \A i \in 1 .. n - 1 + 1 : SubSeq(stack, 1, n)[i] = stack[1 + i - 1]
  BY <1>1, <1>2, SubSeqProperties
<1>4. Len(SubSeq(stack, 1, n)) = n
  BY <1>1, <1>3
<1>5. \A i \in 1 .. n : SubSeq(stack, 1, n)[i] = stack[i]
  BY <1>1, <1>3
<1> QED
  BY <1>3, <1>4, <1>5 DEF Keeps

LEMMA TopIs ==
    ASSUME stack \in Seq(Frame), stack # <<>>
    PROVE  /\ Len(stack) \in Nat \ {0} /\ Len(stack) - 1 \in 0 .. Len(stack)
           /\ Len(stack) \in DOMAIN stack /\ Top \in Frame
BY EmptySeq DEF Top

LEMMA PopKeeps ==
    ASSUME stack \in Seq(Frame), stack # <<>>, stack' = Pop
    PROVE  Keeps(Len(stack) - 1)
BY TopIs, CutKeeps DEF Pop

\* A call begins inside the innermost one.
LEMMA AppendPushes ==
    ASSUME stack \in Seq(Frame), NEW c \in Frame, stack' = Append(stack, c)
    PROVE  Pushes(Len(stack), c)
BY AppendProperties DEF Pushes

\* A call takes the place of the innermost one.
LEMMA PopAppendPushes ==
    ASSUME stack \in Seq(Frame), stack # <<>>, NEW c \in Frame, stack' = Append(Pop, c)
    PROVE  Pushes(Len(stack) - 1, c)
<1> DEFINE n == Len(stack) - 1
<1>1. n \in 0 .. Len(stack) /\ Len(stack) \in Nat
  BY TopIs
<1>2. Pop = SubSeq(stack, 1, n)
  BY DEF Pop
<1> HIDE DEF n
<1>3. \A i \in 1 .. n : stack[i] \in Frame
  BY <1>1
<1>4. /\ SubSeq(stack, 1, n) \in Seq(Frame)
      /\ Len(SubSeq(stack, 1, n)) = IF 1 <= n THEN n - 1 + 1 ELSE 0
      /\ \A i \in 1 .. n - 1 + 1 : SubSeq(stack, 1, n)[i] = stack[1 + i - 1]
  BY <1>1, <1>3, SubSeqProperties
<1>5. Pop \in Seq(Frame) /\ Len(Pop) = n /\ \A i \in 1 .. n : Pop[i] = stack[i]
  BY <1>1, <1>2, <1>4
<1>6. Pushes(n, c)
  BY <1>1, <1>5, AppendProperties DEF Pushes
<1> QED
  BY <1>6 DEF n

\* The innermost call goes on to another point: it is replaced.
LEMMA GoToPushes ==
    ASSUME stack \in Seq(Frame), stack # <<>>, NEW at \in InAjax \cup InDone, stack' = GoTo(at)
    PROVE  Pushes(Len(stack) - 1, Call(Top.r, at))
<1>1. Len(stack) \in Nat \ {0} /\ Len(stack) - 1 \in 0 .. Len(stack) /\ Len(stack) \in DOMAIN stack
  BY TopIs
<1>2. stack[Len(stack)] \in Frame
  BY <1>1
<1>3. [stack[Len(stack)] EXCEPT !.at = at] = Call(Top.r, at) /\ Call(Top.r, at) \in Frame
  BY <1>2 DEF Frame, Top, Call
<1>4. stack' = [stack EXCEPT ![Len(stack)] = Call(Top.r, at)]
  BY <1>3 DEF GoTo
<1>5. stack' \in Seq(Frame) /\ Len(stack') = Len(stack)
  BY <1>1, <1>3, <1>4
<1>6. stack'[Len(stack)] = Call(Top.r, at) /\ \A i \in 1 .. Len(stack) - 1 : stack'[i] = stack[i]
  BY <1>1, <1>4
<1> QED
  BY <1>1, <1>5, <1>6 DEF Pushes
-----------------------------------------------------------------------------
\* One request changes.
LEMMA RequestStep ==
    ASSUME Types, RequestsOk, NEW r \in Request, NEW p \in JqXHR, RequestOk(p),
           req' = [req EXCEPT ![r] = p]
    PROVE  req' \in [Request -> JqXHR] /\ RequestsOk'
<1>1. req' \in [Request -> JqXHR]
  BY DEF Types
<1>2. ASSUME NEW s \in Request PROVE RequestOk(req'[s])
  <2>1. req'[s] = IF s = r THEN p ELSE req[s]
    BY DEF Types
  <2>2. RequestOk(req[s])
    BY DEF RequestsOk
  <2> QED
    BY <2>1, <2>2
<1>3. RequestsOk'
  BY <1>2 DEF RequestsOk, RequestOk
<1> QED
  BY <1>1, <1>3

\* What is known of the calls under way survives a change of one request that is
\* not undone, with the new call fitting its request and no second ajax for it.
LEMMA StackStep ==
    ASSUME IInv, NEW r \in Request, NEW p \in JqXHR, req' = [req EXCEPT ![r] = p],
           p.made, req[r].state = 2 => p.state = 2, early => early',
           NEW n, NEW c \in Frame, Keeps(n) \/ Pushes(n, c),
           \A i \in 1 .. n : stack[i].r = r /\ stack[i].at \in InAjax => p.state # 1,
           \A i \in 1 .. n : stack[i].r = r /\ stack[i].at = "ajaxSend" /\ p.state = 2 => early',
           Pushes(n, c) => /\ FrameOk(c, req'[c.r], early')
                           /\ c.at \in InAjax =>
                                \A i \in 1 .. n : stack[i].at \in InAjax => stack[i].r # c.r
    PROVE  FramesOk' /\ OneAjax'
<1>1. Len(stack) \in Nat /\ DOMAIN stack = 1 .. Len(stack) /\ n \in 0 .. Len(stack)
  BY DEF IInv, Types, Keeps, Pushes
<1>2. DOMAIN stack' = 1 .. Len(stack')
  BY DEF Keeps, Pushes
<1>3. \A i \in DOMAIN stack' :
         \/ i \in 1 .. n /\ stack'[i] = stack[i]
         \/ Pushes(n, c) /\ i = n + 1 /\ stack'[i] = c
  <2>1. CASE Keeps(n)
    BY <1>2, <2>1 DEF Keeps
  <2>2. CASE Pushes(n, c)
    <3>1. \A i \in DOMAIN stack' : i \in 1 .. n \/ i = n + 1
      BY <1>1, <1>2, <2>2 DEF Pushes
    <3> QED
      BY <2>2, <3>1 DEF Pushes
  <2> QED
    BY <2>1, <2>2
<1>4. ASSUME NEW i \in 1 .. n PROVE FrameOk(stack[i], req'[stack[i].r], early')
  <2>1. i \in DOMAIN stack
    BY <1>1
  <2>2. stack[i] \in Frame /\ FrameOk(stack[i], req[stack[i].r], early)
    BY <2>1 DEF IInv, Types, FramesOk
  <2>3. stack[i].r \in Request
    BY <2>2 DEF Frame
  <2>4. req'[stack[i].r] = IF stack[i].r = r THEN p ELSE req[stack[i].r]
    BY <2>3 DEF IInv, Types
  <2>5. /\ stack[i].r = r /\ stack[i].at \in InAjax => p.state # 1
        /\ stack[i].r = r /\ stack[i].at = "ajaxSend" /\ p.state = 2 => early'
    OBVIOUS
  <2> QED
    BY <2>2, <2>4, <2>5 DEF FrameOk
<1>5. ASSUME NEW i \in DOMAIN stack' PROVE FrameOk(stack'[i], req'[stack'[i].r], early')
  BY <1>3, <1>4
<1>6. FramesOk'
  BY <1>5 DEF FramesOk, FrameOk
<1>7. ASSUME NEW i \in DOMAIN stack', NEW j \in DOMAIN stack',
             stack'[i].at \in InAjax, stack'[j].at \in InAjax, stack'[i].r = stack'[j].r
      PROVE  i = j
  <2>1. CASE i \in 1 .. n /\ stack'[i] = stack[i] /\ j \in 1 .. n /\ stack'[j] = stack[j]
    <3>1. i \in DOMAIN stack /\ j \in DOMAIN stack
      BY <1>1, <2>1
    <3> QED
      BY <2>1, <3>1, <1>7 DEF IInv, OneAjax
  <2>2. CASE Pushes(n, c) /\ i = n + 1 /\ stack'[i] = c
    BY <1>3, <1>7, <2>2
  <2>3. CASE Pushes(n, c) /\ j = n + 1 /\ stack'[j] = c
    BY <1>3, <1>7, <2>3
  <2> QED
    BY <1>3, <2>1, <2>2, <2>3
<1>8. OneAjax'
  BY <1>7 DEF OneAjax
<1> QED
  BY <1>6, <1>8

\* A request that waits to be told keeps the call that will tell it.
LEMMA ToldStep ==
    ASSUME IInv, NEW r \in Request, NEW p \in JqXHR, req' = [req EXCEPT ![r] = p],
           NEW n, NEW c \in Frame, Keeps(n) \/ Pushes(n, c), thrown' = thrown,
           \A i \in n + 1 .. Len(stack) : stack[i].at = "settle" => stack[i].r = r /\ ~Awaits(p),
           Awaits(p) => Awaits(req[r]) \/ (Pushes(n, c) /\ c = Call(r, "settle"))
    PROVE  Told'
<1>1. Len(stack) \in Nat /\ DOMAIN stack = 1 .. Len(stack) /\ n \in 0 .. Len(stack)
  BY DEF IInv, Types, Keeps, Pushes
<1>2. \A i \in 1 .. n : i \in DOMAIN stack' /\ stack'[i] = stack[i]
  BY <1>1 DEF Keeps, Pushes
<1>3. ASSUME Pushes(n, c) PROVE n + 1 \in DOMAIN stack' /\ stack'[n + 1] = c
  BY <1>1, <1>3 DEF Pushes
<1>4. ASSUME ~thrown, NEW s \in Request, Awaits(req'[s])
      PROVE  \E i \in DOMAIN stack' : stack'[i] = Call(s, "settle")
  <2>1. req'[s] = IF s = r THEN p ELSE req[s]
    BY DEF IInv, Types
  <2>2. CASE s = r /\ Pushes(n, c) /\ c = Call(r, "settle")
    BY <1>3, <2>2
  <2>3. CASE Awaits(req[s])
    <3>1. PICK i \in DOMAIN stack : stack[i] = Call(s, "settle")
      BY <1>4, <2>3 DEF IInv, Told
    <3>2. stack[i].at = "settle" /\ stack[i].r = s
      BY <3>1 DEF Call
    <3>3. ~(i \in n + 1 .. Len(stack))
      BY <1>4, <2>1, <3>2
    <3>4. i \in 1 .. n
      BY <1>1, <3>3
    <3> QED
      BY <1>2, <3>1, <3>4
  <2> QED
    BY <1>4, <2>1, <2>2, <2>3
<1>5. Told'
  BY <1>4 DEF Told, Awaits, Call
<1> QED
  BY <1>5

\* The callbacks of the other requests are left alone.
LEMMA OrderStep ==
    ASSUME Types, NEW r \in Request, NEW p \in JqXHR, req' = [req EXCEPT ![r] = p],
           Order(Phase(req[r].calls), Phase(p.calls))
    PROVE  \A s \in Request : Order(Phase(req[s].calls), Phase(req'[s].calls))
<1> TAKE s \in Request
<1>1. req'[s] = IF s = r THEN p ELSE req[s]
  BY DEF Types
<1>2. CASE s = r
  BY <1>1, <1>2
<1>3. CASE s # r
  BY <1>1, <1>3 DEF Order
<1> QED
  BY <1>2, <1>3
-----------------------------------------------------------------------------
\* What a step, but for one that throws, does: the request r becomes p, and the
\* stack keeps its first n calls and may get the call c.
StepOf(r, p, n, c) ==
    /\ req' = [req EXCEPT ![r] = p] /\ RequestOk(p) /\ p.made
    /\ req[r].state = 2 => p.state = 2
    /\ Order(Phase(req[r].calls), Phase(p.calls))
    /\ active' \in Int /\ overlay' \in BOOLEAN /\ thrown' = thrown
    /\ early' \in BOOLEAN /\ (early => early')
    /\ Keeps(n) \/ Pushes(n, c)
    /\ \A i \in 1 .. n : stack[i].r = r /\ stack[i].at \in InAjax => p.state # 1
    /\ \A i \in 1 .. n : stack[i].r = r /\ stack[i].at = "ajaxSend" /\ p.state = 2 => early'
    /\ \A i \in n + 1 .. Len(stack) :
          stack[i].at = "settle" => stack[i].r = r /\ ~Awaits(p)
    /\ Awaits(p) => Awaits(req[r]) \/ (Pushes(n, c) /\ c = Call(r, "settle"))
    /\ Pushes(n, c) => /\ FrameOk(c, req'[c.r], early')
                       /\ c.at \in InAjax =>
                            \A i \in 1 .. n : stack[i].at \in InAjax => stack[i].r # c.r

\* Every such step keeps the invariant and the order of the callbacks.
LEMMA StepOfKeeps ==
    ASSUME IInv, NEW r \in Request, NEW p \in JqXHR, NEW n, NEW c \in Frame, StepOf(r, p, n, c)
    PROVE  /\ IInv'
           /\ \A s \in Request : Order(Phase(req[s].calls), Phase(req'[s].calls))
<1>1. Types /\ RequestsOk
  BY DEF IInv
<1>2. req' \in [Request -> JqXHR] /\ RequestsOk'
  BY <1>1, RequestStep DEF StepOf
<1>3. stack' \in Seq(Frame)
  BY DEF StepOf, Keeps, Pushes
<1>4. Types'
  BY <1>1, <1>2, <1>3 DEF StepOf, Types
<1>5. FramesOk' /\ OneAjax'
  BY StackStep DEF StepOf
<1>6. Told'
  BY ToldStep DEF StepOf
<1>7. \A s \in Request : Order(Phase(req[s].calls), Phase(req'[s].calls))
  BY <1>1, OrderStep DEF StepOf
<1> QED
  BY <1>2, <1>4, <1>5, <1>6, <1>7 DEF IInv

\* The jqXHR of a request that is settled.
LEMMA SettledIs ==
    ASSUME NEW q \in JqXHR, NEW out \in Outcomes \cup {"none"}, NEW calls \in Calls,
           NEW p, p = [q EXCEPT !.state = 2, !.timer = FALSE, !.transport = FALSE, !.xhr = FALSE,
                                !.outcome = out, !.calls = calls]
    PROVE  p \in JqXHR
<1> DEFINE a == [q EXCEPT !.state = 2]
           b == [a EXCEPT !.timer = FALSE, !.transport = FALSE, !.xhr = FALSE]
<1>1. a \in JqXHR
  BY DEF JqXHR
<1> HIDE DEF a
<1>2. b \in JqXHR
  BY <1>1 DEF JqXHR
<1>3. p = [b EXCEPT !.outcome = out, !.calls = calls]
  BY DEF a
<1> HIDE DEF b
<1> QED
  BY <1>2, <1>3 DEF JqXHR

\* The first calls of done settle the request and call success or error once.
LEMMA SettleIs ==
    ASSUME Types, RequestsOk, NEW r \in Request, NEW q \in JqXHR, q.made,
           q.installed = req[r].installed, q.outcome = req[r].outcome, q.calls = req[r].calls,
           NEW o \in Outcomes, NEW below, Settle(r, o, q, below)
    PROVE  /\ stack' = Append(below, Call(r, "settle"))
           /\ \E p \in JqXHR : /\ req' = [req EXCEPT ![r] = p] /\ RequestOk(p)
                               /\ p.made /\ p.state = 2
                               /\ Order(Phase(req[r].calls), Phase(p.calls))
<1> DEFINE first == q.outcome = "none"
           calls == [q.calls EXCEPT ![o] = IF first /\ q.installed THEN @ + 1 ELSE @]
           p == [q EXCEPT !.state = 2, !.timer = FALSE, !.transport = FALSE, !.xhr = FALSE,
                          !.outcome = IF first THEN o ELSE @, !.calls = calls]
<1>1. RequestOk(req[r]) /\ req[r] \in JqXHR
  BY DEF Types, RequestsOk
<1>2. q.calls \in Calls /\ o \in {"success", "error"}
  BY DEF JqXHR, Outcomes
<1>3. first => q.calls.success = 0 /\ q.calls.error = 0 /\ q.calls.complete = 0
  BY <1>1, <1>2 DEF RequestOk, JqXHR, Calls
<1>4. /\ calls \in Calls /\ calls.complete = q.calls.complete
      /\ \A x \in Outcomes : calls[x] = IF x = o /\ first /\ q.installed THEN 1 ELSE q.calls[x]
  BY <1>2, <1>3 DEF Calls, Outcomes
<1> HIDE DEF calls
<1>5. p \in JqXHR /\ p.state = 2 /\ p.made /\ p.calls = calls /\ p.installed = q.installed
      /\ p.outcome = (IF first THEN o ELSE q.outcome) /\ ~p.transport
  <2> DEFINE out == IF first THEN o ELSE q.outcome
  <2>1. out \in Outcomes \cup {"none"} /\ q.outcome \in Outcomes \cup {"none"}
    BY DEF JqXHR
  <2>2. p = [q EXCEPT !.state = 2, !.timer = FALSE, !.transport = FALSE, !.xhr = FALSE,
                      !.outcome = out, !.calls = calls]
    BY DEF JqXHR
  <2> HIDE DEF out, p
  <2>3. p \in JqXHR
    BY <1>4, <2>1, <2>2, SettledIs
  <2>4. p.state = 2 /\ p.calls = calls /\ p.outcome = out /\ p.transport = FALSE
    BY <2>2 DEF JqXHR
  <2>5. p.made = q.made /\ p.installed = q.installed
    BY <2>2 DEF JqXHR
  <2> QED
    BY <2>3, <2>4, <2>5 DEF out
<1>6. stack' = Append(below, Call(r, "settle")) /\ req' = [req EXCEPT ![r] = p]
  BY DEF Settle, calls, p
<1>7. "success" \in Outcomes /\ "error" \in Outcomes
  BY DEF Outcomes
<1> HIDE DEF p, calls
<1>8. RequestOk(p)
  BY <1>1, <1>2, <1>3, <1>4, <1>5, <1>7 DEF RequestOk
<1>9. Order(Phase(req[r].calls), Phase(calls))
  <2>1. CASE first /\ q.installed
    BY <1>2, <1>3, <1>4, <1>7, <2>1 DEF Order, Phase
  <2>2. CASE ~(first /\ q.installed)
    <3>1. calls.success = q.calls.success /\ calls.error = q.calls.error
      BY <1>4, <1>7, <2>2
    <3> QED
      BY <1>4, <3>1 DEF Order, Phase
  <2> QED
    BY <2>1, <2>2
<1> QED
  BY <1>5, <1>6, <1>8, <1>9

\* done, called where the stack goes on as below, which has n calls.
LEMMA DoneIs ==
    ASSUME IInv, NEW r \in Request, NEW q \in JqXHR, q.made,
           q.installed = req[r].installed, q.outcome = req[r].outcome, q.calls = req[r].calls,
           q.state = 2 => req[r].state = 2, q.transport => req[r].transport,
           NEW o \in Outcomes, NEW below, Done(r, o, q, below),
           active' \in Int, overlay' \in BOOLEAN, thrown' = thrown,
           early' \in BOOLEAN, early => early',
           NEW n, stack' = below => Keeps(n),
           stack' = Append(below, Call(r, "settle")) => Pushes(n, Call(r, "settle")),
           \A i \in n + 1 .. Len(stack) : stack[i].at # "settle",
           \A i \in 1 .. n : stack[i].r = r /\ stack[i].at = "ajaxSend" => early'
    PROVE  \E p \in JqXHR, c \in Frame : StepOf(r, p, n, c)
<1> DEFINE c == Call(r, "settle")
<1>1. Types /\ RequestsOk /\ RequestOk(req[r])
  BY DEF IInv, RequestsOk
<1>2. c \in Frame /\ c.r = r /\ c.at = "settle"
  BY DEF Call, Frame, InDone
<1>3. "settle" \notin InAjax
  BY DEF InAjax
<1>4. CASE Settle(r, o, q, below)
  <2>1. PICK p \in JqXHR :
           /\ req' = [req EXCEPT ![r] = p] /\ RequestOk(p) /\ p.made /\ p.state = 2
           /\ Order(Phase(req[r].calls), Phase(p.calls))
    BY <1>1, <1>4, SettleIs
  <2>2. stack' = Append(below, c)
    BY <1>4 DEF Settle
  <2>3. Pushes(n, c)
    BY <2>2
  <2>4. req'[r] = p
    BY <1>1, <2>1 DEF Types
  <2>5. FrameOk(c, req'[c.r], early')
    BY <1>2, <1>3, <2>1, <2>4 DEF FrameOk
  <2> HIDE DEF c
  <2>6. StepOf(r, p, n, c)
    BY <1>2, <1>3, <2>1, <2>3, <2>5 DEF StepOf, c
  <2> QED
    BY <1>2, <2>6
<1>5. CASE q.state = 2 /\ req' = [req EXCEPT ![r] = q] /\ stack' = below
  <2>1. Keeps(n)
    BY <1>5
  <2>2. ~Pushes(n, c)
    BY <2>1 DEF Keeps, Pushes
  <2>3. RequestOk(q)
    BY <1>1, <1>5 DEF RequestOk
  <2>4. Order(Phase(req[r].calls), Phase(q.calls))
    BY DEF Order
  <2>5. Awaits(q) => Awaits(req[r])
    BY <1>5 DEF Awaits
  <2> HIDE DEF c
  <2>6. StepOf(r, q, n, c)
    BY <1>5, <2>1, <2>2, <2>3, <2>4, <2>5 DEF StepOf
  <2> QED
    BY <1>2, <2>6
<1> QED
  BY <1>4, <1>5 DEF Done
-----------------------------------------------------------------------------
\* What the innermost call tells of its request.
LEMMA TopOk ==
    ASSUME IInv, stack # <<>>
    PROVE  /\ Len(stack) \in Nat \ {0} /\ Len(stack) \in DOMAIN stack
           /\ Top = stack[Len(stack)] /\ Top \in Frame /\ Top.r \in Request
           /\ FrameOk(Top, req[Top.r], early)
           /\ req[Top.r] \in JqXHR /\ RequestOk(req[Top.r])
<1>1. Len(stack) \in Nat \ {0} /\ Len(stack) \in DOMAIN stack /\ Top \in Frame
  BY TopIs DEF IInv, Types
<1>2. Top.r \in Request
  BY <1>1 DEF Frame
<1> QED
  BY <1>1, <1>2 DEF IInv, Types, FramesOk, RequestsOk, Top

\* While a call of ajax is the innermost, the others are of other requests.
LEMMA OthersDiffer ==
    ASSUME IInv, stack # <<>>, Top.at \in InAjax,
           NEW i \in 1 .. Len(stack) - 1, stack[i].at \in InAjax
    PROVE  stack[i].r # Top.r
<1>1. Len(stack) \in Nat \ {0} /\ Len(stack) \in DOMAIN stack /\ Top = stack[Len(stack)]
  BY TopOk
<1>2. i \in DOMAIN stack /\ i # Len(stack)
  BY <1>1 DEF IInv, Types
<1> QED
  BY <1>1, <1>2 DEF IInv, OneAjax

\* Each action is such a step.
LEMMA StartIs ==
    ASSUME IInv, NEW r \in Request, NEW timed \in BOOLEAN, Start(r, timed)
    PROVE  \E p \in JqXHR, n \in Nat, c \in Frame : StepOf(r, p, n, c)
<1> DEFINE p == [req[r] EXCEPT !.made = TRUE, !.timed = timed]
           c == Call(r, IF active = 0 THEN "ajaxStart" ELSE "beforeSend")
           n == Len(stack)
<1>1. req[r] \in JqXHR /\ RequestOk(req[r]) /\ stack \in Seq(Frame) /\ n \in Nat
  BY DEF IInv, Types, RequestsOk
<1>2. ~req[r].made /\ req[r].state = 0
  BY <1>1 DEF Start, RequestOk, Request
<1>3. /\ p \in JqXHR /\ p.made /\ p.state = 0 /\ p.calls = req[r].calls
      /\ p.installed = req[r].installed /\ p.outcome = req[r].outcome
      /\ p.transport = req[r].transport
  BY <1>1, <1>2 DEF JqXHR
<1>4. c \in Frame /\ c.r = r /\ c.at \in InAjax /\ c.at # "ajaxSend"
  BY DEF Call, Frame, InAjax
<1>5. req' = [req EXCEPT ![r] = p] /\ stack' = Append(stack, c)
  <2>1. [req EXCEPT ![r].made = TRUE, ![r].timed = timed] = [req EXCEPT ![r] = p]
    BY <1>1 DEF IInv, Types
  <2> QED
    BY <2>1 DEF Start
<1> HIDE DEF p, c
<1>6. Pushes(n, c)
  BY <1>1, <1>4, <1>5, AppendPushes
<1>7. ASSUME NEW i \in 1 .. n PROVE stack[i].r # r
  BY <1>1, <1>2 DEF IInv, FramesOk, FrameOk
<1>8. RequestOk(p)
  BY <1>1, <1>2, <1>3 DEF RequestOk
<1>9. req'[c.r] = p
  BY <1>4, <1>5 DEF IInv, Types
<1>10. "settle" \notin InAjax /\ c.at \notin InDone
  BY <1>4 DEF InAjax, InDone
<1>11. FrameOk(c, req'[c.r], early')
  BY <1>3, <1>4, <1>9, <1>10 DEF FrameOk
<1>12. Order(Phase(req[r].calls), Phase(p.calls))
  BY <1>3 DEF Order
<1>13. active' \in Int /\ overlay' \in BOOLEAN /\ thrown' = thrown /\ early' = early
       /\ early \in BOOLEAN
  BY DEF Start, IInv, Types
<1>14. ~Awaits(p) /\ n + 1 .. Len(stack) = {}
  BY <1>1, <1>3 DEF Awaits
<1> HIDE DEF n
<1>15. StepOf(r, p, n, c)
  BY <1>2, <1>3, <1>4, <1>5, <1>6, <1>7, <1>8, <1>11, <1>12, <1>13, <1>14 DEF StepOf
<1> QED
  BY <1>1, <1>3, <1>4, <1>15

\* A step of the innermost call that leaves the requests as they are.
LEMMA QuietIs ==
    ASSUME IInv, stack # <<>>, Top.at # "settle", req' = req,
           active' \in Int, overlay' \in BOOLEAN, thrown' = thrown, early' = early,
           NEW at \in {"beforeSend", "ajaxStop"}, stack' = GoTo(at) \/ stack' = Pop,
           stack' = GoTo("beforeSend") => Top.at \in InAjax,
           stack' = GoTo("ajaxStop") => Top.at \in InDone
    PROVE  \E p \in JqXHR, n \in Nat, c \in Frame : StepOf(Top.r, p, n, c)
<1> DEFINE r == Top.r
           p == req[r]
           n == Len(stack) - 1
           c == Call(r, at)
<1>1. /\ Len(stack) \in Nat \ {0} /\ Len(stack) \in DOMAIN stack /\ Top = stack[Len(stack)]
      /\ Top \in Frame /\ r \in Request /\ FrameOk(Top, p, early)
      /\ p \in JqXHR /\ RequestOk(p) /\ n \in Nat
  BY TopOk
<1>2. stack \in Seq(Frame) /\ req' = [req EXCEPT ![r] = p] /\ req'[r] = p /\ early \in BOOLEAN
  BY DEF IInv, Types
<1>3. c \in Frame /\ c.r = r /\ c.at = at /\ at \in InAjax \cup InDone
  BY <1>1 DEF Call, Frame, InAjax, InDone
<1>4. \A i \in 1 .. n : stack[i].at \in InAjax /\ Top.at \in InAjax => stack[i].r # r
  BY OthersDiffer
<1>5. \A i \in 1 .. n : stack[i].r = r => FrameOk(stack[i], p, early)
  BY <1>1 DEF IInv, FramesOk, Types
<1>6. Order(Phase(req[r].calls), Phase(p.calls))
  BY DEF Order
<1>7. \A i \in n + 1 .. Len(stack) : i = Len(stack)
  BY <1>1
<1>8. /\ "beforeSend" \in InAjax /\ "beforeSend" \notin InDone /\ "beforeSend" # "ajaxSend"
      /\ "ajaxStop" \in InDone /\ "ajaxStop" \notin InAjax /\ "ajaxStop" # "ajaxSend"
      /\ "ajaxSend" \in InAjax
  BY DEF InAjax, InDone
<1>9. p.made
  BY <1>1 DEF FrameOk
<1>10. stack' = Pop => Keeps(n)
  BY <1>1, <1>2, PopKeeps
<1>11. stack' = GoTo(at) => Pushes(n, c)
  BY <1>1, <1>2, <1>3, GoToPushes
<1>12. Keeps(n) \/ Pushes(n, c)
  BY <1>10, <1>11
<1>13. Pushes(n, c) => stack' = GoTo(at)
  BY <1>1, <1>10 DEF Keeps, Pushes
<1>14. Pushes(n, c) => FrameOk(c, req'[c.r], early')
                       /\ (c.at \in InAjax =>
                             \A i \in 1 .. n : stack[i].at \in InAjax => stack[i].r # c.r)
  <2>1. CASE at = "beforeSend"
    BY <1>1, <1>2, <1>3, <1>4, <1>8, <1>13, <2>1 DEF FrameOk
  <2>2. CASE at = "ajaxStop"
    BY <1>1, <1>2, <1>3, <1>8, <1>13, <2>2 DEF FrameOk
  <2> QED
    BY <2>1, <2>2
<1> HIDE DEF r, p, n, c
<1>15. \A i \in 1 .. n : stack[i].r = r /\ stack[i].at \in InAjax => p.state # 1
  BY <1>5 DEF FrameOk
<1>16. \A i \in 1 .. n : stack[i].r = r /\ stack[i].at = "ajaxSend" /\ p.state = 2 => early'
  BY <1>5 DEF FrameOk
<1>17. \A i \in n + 1 .. Len(stack) : stack[i].at # "settle"
  BY <1>1, <1>7
<1>18. StepOf(r, p, n, c)
  BY <1>1, <1>2, <1>6, <1>9, <1>12, <1>14, <1>15, <1>16, <1>17 DEF StepOf, p
<1> QED
  BY <1>1, <1>3, <1>18 DEF r

LEMMA BeforeSendIs ==
    ASSUME IInv, BeforeSend
    PROVE  \E r \in Request, p \in JqXHR, n \in Nat, c \in Frame : StepOf(r, p, n, c)
<1>1. stack # <<>> /\ Top.at = "ajaxStart" /\ Top.r \in Request
  BY TopOk DEF BeforeSend, At
<1>2. stack' = GoTo("beforeSend") /\ Top.at \in InAjax
  BY <1>1 DEF BeforeSend, InAjax
<1>3. stack' = GoTo("ajaxStop") => Top.at \in InDone
  <2>1. Pushes(Len(stack) - 1, Call(Top.r, "beforeSend"))
    BY <1>1, <1>2, GoToPushes DEF IInv, Types, InAjax
  <2>2. stack' = GoTo("ajaxStop") => Pushes(Len(stack) - 1, Call(Top.r, "ajaxStop"))
    BY <1>1, GoToPushes DEF IInv, Types, InDone
  <2> QED
    BY <2>1, <2>2 DEF Pushes, Call
<1>4. /\ req' = req /\ active' \in Int /\ overlay' \in BOOLEAN /\ thrown' = thrown
      /\ early' = early
  BY DEF BeforeSend, IInv, Types
<1> QED
  BY <1>1, <1>2, <1>3, <1>4, QuietIs

LEMMA CountIs ==
    ASSUME IInv, Count
    PROVE  \E r \in Request, p \in JqXHR, n \in Nat, c \in Frame : StepOf(r, p, n, c)
<1>1. stack # <<>> /\ Top.at = "complete" /\ Top.r \in Request
  BY TopOk DEF Count, At
<1>2. (stack' = GoTo("ajaxStop") \/ stack' = Pop) /\ Top.at \in InDone
  BY <1>1 DEF Count, InDone
<1>3. stack' # GoTo("beforeSend")
  <2>1. stack' = GoTo("beforeSend") => Pushes(Len(stack) - 1, Call(Top.r, "beforeSend"))
    BY <1>1, GoToPushes DEF IInv, Types, InAjax
  <2>2. stack' = GoTo("ajaxStop") => Pushes(Len(stack) - 1, Call(Top.r, "ajaxStop"))
    BY <1>1, GoToPushes DEF IInv, Types, InDone
  <2>3. stack' = Pop => Keeps(Len(stack) - 1)
    BY <1>1, PopKeeps DEF IInv, Types
  <2>4. Len(stack) \in Nat
    BY DEF IInv, Types
  <2> QED
    BY <1>2, <2>1, <2>2, <2>3, <2>4 DEF Keeps, Pushes, Call
<1>4. /\ req' = req /\ active' \in Int /\ overlay' \in BOOLEAN /\ thrown' = thrown
      /\ early' = early
  BY DEF Count, IInv, Types
<1> QED
  BY <1>1, <1>2, <1>3, <1>4, QuietIs

LEMMA StoppedIs ==
    ASSUME IInv, Stopped
    PROVE  \E r \in Request, p \in JqXHR, n \in Nat, c \in Frame : StepOf(r, p, n, c)
<1>1. stack # <<>> /\ Top.at = "ajaxStop" /\ Top.r \in Request
  BY TopOk DEF Stopped, At
<1>2. stack' = Pop /\ Top.at \in InDone
  BY <1>1 DEF Stopped, InDone
<1>3. stack' # GoTo("beforeSend")
  <2>1. stack' = GoTo("beforeSend") => Pushes(Len(stack) - 1, Call(Top.r, "beforeSend"))
    BY <1>1, GoToPushes DEF IInv, Types, InAjax
  <2>2. Keeps(Len(stack) - 1) /\ Len(stack) \in Nat
    BY <1>1, <1>2, PopKeeps DEF IInv, Types
  <2> QED
    BY <2>1, <2>2 DEF Keeps, Pushes
<1>4. /\ req' = req /\ active' \in Int /\ overlay' \in BOOLEAN /\ thrown' = thrown
      /\ early' = early
  BY DEF Stopped, IInv, Types
<1> QED
  BY <1>1, <1>2, <1>3, <1>4, QuietIs

LEMMA CompleteIs ==
    ASSUME IInv, Complete
    PROVE  \E r \in Request, p \in JqXHR, n \in Nat, c \in Frame : StepOf(r, p, n, c)
<1> DEFINE r == Top.r
           q == req[r]
           calls == [q.calls EXCEPT !.complete = IF @ = 0 /\ q.installed THEN 1 ELSE @]
           p == [q EXCEPT !.calls = calls]
           n == Len(stack) - 1
           c == Call(r, "complete")
<1>1. /\ stack # <<>> /\ Top.at = "settle"
      /\ Len(stack) \in Nat \ {0} /\ Len(stack) \in DOMAIN stack /\ Top = stack[Len(stack)]
      /\ Top \in Frame /\ r \in Request /\ FrameOk(Top, q, early)
      /\ q \in JqXHR /\ RequestOk(q) /\ n \in Nat
  BY TopOk DEF Complete, At
<1>2. /\ "settle" \in InDone /\ "complete" \in InDone /\ "complete" \notin InAjax
      /\ "complete" # "ajaxSend" /\ "ajaxSend" \in InAjax
  BY DEF InAjax, InDone
<1>3. q.state = 2 /\ q.made
  BY <1>1, <1>2 DEF FrameOk
<1>4. calls \in Calls /\ calls.success = q.calls.success /\ calls.error = q.calls.error
      /\ calls.complete = (IF q.calls.complete = 0 /\ q.installed THEN 1 ELSE q.calls.complete)
  BY <1>1 DEF JqXHR, Calls
<1>5. /\ p \in JqXHR /\ p.calls = calls /\ p.state = 2 /\ p.made /\ p.installed = q.installed
      /\ p.outcome = q.outcome /\ p.transport = q.transport
  BY <1>1, <1>3, <1>4 DEF JqXHR
<1>6. req' = [req EXCEPT ![r] = p]
  BY <1>1 DEF Complete
<1>7. c \in Frame /\ c.r = r /\ c.at = "complete"
  BY <1>1, <1>2 DEF Call, Frame
<1>8. Pushes(n, c)
  BY <1>1, <1>2, GoToPushes DEF Complete, IInv, Types
<1>9. \A i \in 1 .. n : stack[i].r = r => FrameOk(stack[i], q, early)
  BY <1>1 DEF IInv, FramesOk, Types
<1>10. \A i \in n + 1 .. Len(stack) : i = Len(stack)
  BY <1>1
<1> HIDE DEF calls
<1>11. RequestOk(p) /\ ~Awaits(p)
  BY <1>1, <1>3, <1>4, <1>5 DEF RequestOk, Awaits, Calls
<1>12. Order(Phase(q.calls), Phase(p.calls))
  <2>1. CASE q.calls.complete = 0 /\ q.installed
    <3>1. q.outcome \in {"success", "error"}
      BY <1>1, <1>3 DEF RequestOk, JqXHR, Outcomes
    <3>2. CASE q.outcome = "success"
      BY <1>1, <1>4, <1>5, <2>1, <3>2 DEF RequestOk, Order, Phase
    <3>3. CASE q.outcome = "error"
      BY <1>1, <1>4, <1>5, <2>1, <3>3 DEF RequestOk, Order, Phase
    <3> QED
      BY <3>1, <3>2, <3>3
  <2>2. CASE ~(q.calls.complete = 0 /\ q.installed)
    BY <1>4, <1>5, <2>2 DEF Order, Phase
  <2> QED
    BY <2>1, <2>2
<1>13. req'[r] = p
  BY <1>1, <1>6 DEF IInv, Types
<1>14. /\ active' \in Int /\ overlay' \in BOOLEAN /\ thrown' = thrown
       /\ early' = early /\ early \in BOOLEAN
  BY DEF Complete, IInv, Types
<1> HIDE DEF r, p, n, c
<1>15. FrameOk(c, req'[c.r], early')
  BY <1>2, <1>5, <1>7, <1>13 DEF FrameOk
<1>16. \A i \in 1 .. n : stack[i].r = r /\ stack[i].at = "ajaxSend" => early'
  BY <1>2, <1>3, <1>9, <1>14 DEF FrameOk
<1>17. \A i \in n + 1 .. Len(stack) : stack[i].r = r
  BY <1>1, <1>10 DEF r
<1>18. StepOf(r, p, n, c)
  BY <1>2, <1>3, <1>5, <1>6, <1>7, <1>8, <1>11, <1>12, <1>14, <1>15, <1>16, <1>17 DEF StepOf
<1> QED
  BY <1>1, <1>5, <1>7, <1>18

\* done, called by the innermost call of ajax, which returns.
LEMMA DoneByAjax ==
    ASSUME IInv, stack # <<>>, Top.at \in {"beforeSend", "ajaxSend"}, NEW q \in JqXHR, q.made,
           q.installed = req[Top.r].installed, q.outcome = req[Top.r].outcome,
           q.calls = req[Top.r].calls,
           q.state = 2 => req[Top.r].state = 2, q.transport => req[Top.r].transport,
           Done(Top.r, "error", q, Pop), UNCHANGED <<active, overlay, thrown, early>>
    PROVE  \E r \in Request, p \in JqXHR, n \in Nat, c \in Frame : StepOf(r, p, n, c)
<1> DEFINE r == Top.r
           n == Len(stack) - 1
<1>1. /\ Len(stack) \in Nat \ {0} /\ Top = stack[Len(stack)] /\ r \in Request /\ n \in Nat
      /\ stack \in Seq(Frame)
  BY TopOk DEF IInv, Types
<1>2. Top.at \in InAjax /\ "ajaxSend" \in InAjax /\ Top.at # "settle"
  BY DEF InAjax
<1>3. \A i \in 1 .. n : stack[i].at \in InAjax => stack[i].r # r
  BY <1>2, OthersDiffer
<1>4. Call(r, "settle") \in Frame
  BY <1>1 DEF Call, Frame, InDone
<1>5. \A i \in n + 1 .. Len(stack) : stack[i].at # "settle"
  BY <1>1, <1>2
<1>6. stack' = Pop => Keeps(n)
  BY <1>1, PopKeeps
<1>7. stack' = Append(Pop, Call(r, "settle")) => Pushes(n, Call(r, "settle"))
  BY <1>1, <1>4, PopAppendPushes
<1>8. /\ active' \in Int /\ overlay' \in BOOLEAN /\ thrown' = thrown
      /\ early' \in BOOLEAN /\ (early => early')
  BY DEF IInv, Types
<1>9. "error" \in Outcomes
  BY DEF Outcomes
<1>10. \A i \in 1 .. n : ~(stack[i].r = r /\ stack[i].at = "ajaxSend")
  BY <1>2, <1>3
<1> HIDE DEF n, r
<1>11. \E p \in JqXHR, c \in Frame : StepOf(r, p, n, c)
  BY <1>1, <1>5, <1>6, <1>7, <1>8, <1>9, <1>10, DoneIs DEF r
<1> QED
  BY <1>1, <1>11

LEMMA PrepareIs ==
    ASSUME IInv, NEW false \in BOOLEAN, Prepare(false)
    PROVE  \E r \in Request, p \in JqXHR, n \in Nat, c \in Frame : StepOf(r, p, n, c)
<1> DEFINE r == Top.r
           q == [req[r] EXCEPT !.known = TRUE]
           p == [q EXCEPT !.installed = TRUE, !.transport = TRUE]
           n == Len(stack) - 1
           c == Call(r, "ajaxSend")
<1>1. /\ stack # <<>> /\ Top.at = "beforeSend"
      /\ Len(stack) \in Nat \ {0} /\ Len(stack) \in DOMAIN stack /\ Top = stack[Len(stack)]
      /\ Top \in Frame /\ r \in Request /\ FrameOk(Top, req[r], early)
      /\ req[r] \in JqXHR /\ RequestOk(req[r]) /\ n \in Nat
  BY TopOk DEF Prepare, At
<1>2. "beforeSend" \in InAjax /\ "ajaxSend" \in InAjax /\ "ajaxSend" \notin InDone
  BY DEF InAjax, InDone
<1>3. /\ q \in JqXHR /\ q.made = req[r].made /\ q.installed = req[r].installed
      /\ q.outcome = req[r].outcome /\ q.calls = req[r].calls /\ q.state = req[r].state
      /\ q.transport = req[r].transport
  BY <1>1 DEF JqXHR
<1>4. req[r].made /\ req[r].state # 1
  BY <1>1, <1>2 DEF FrameOk
<1>5. UNCHANGED <<active, overlay, thrown, early>>
  BY DEF Prepare
<1>6. CASE Done(r, "error", q, Pop)
  <2> HIDE DEF q
  <2> QED
    BY <1>1, <1>3, <1>4, <1>5, <1>6, DoneByAjax
<1>7. CASE /\ q.state # 2 /\ req' = [req EXCEPT ![r] = p] /\ stack' = GoTo("ajaxSend")
  <2>1. /\ p \in JqXHR /\ p.made /\ p.calls = req[r].calls /\ p.state = 0
        /\ p.outcome = req[r].outcome /\ p.installed = TRUE
    <3>1. q.state = 0
      BY <1>1, <1>3, <1>4, <1>7 DEF JqXHR
    <3> HIDE DEF q
    <3>2. /\ p \in JqXHR /\ p.made = q.made /\ p.calls = q.calls /\ p.state = q.state
          /\ p.outcome = q.outcome /\ p.installed = TRUE
      BY <1>3 DEF JqXHR
    <3> QED
      BY <1>3, <1>4, <3>1, <3>2
  <2>2. Pushes(n, c) /\ c \in Frame /\ c.r = r /\ c.at = "ajaxSend"
    BY <1>1, <1>2, <1>7, GoToPushes DEF IInv, Types, Call, Frame
  <2>3. \A i \in 1 .. n : stack[i].at \in InAjax => stack[i].r # r
    BY <1>1, <1>2, OthersDiffer
  <2>4. \A i \in n + 1 .. Len(stack) : stack[i].at # "settle"
    BY <1>1
  <2>5. req'[r] = p
    BY <1>1, <1>7 DEF IInv, Types
  <2>6. /\ active' \in Int /\ overlay' \in BOOLEAN /\ thrown' = thrown
        /\ early' = early /\ early \in BOOLEAN
    BY <1>5 DEF IInv, Types
  <2> HIDE DEF p, q, r, n, c
  <2>7. RequestOk(p) /\ ~Awaits(p)
    <3>1. req[r].outcome = "none"
      BY <1>1, <1>3, <1>7 DEF RequestOk
    <3>2. req[r].calls.success = 0 /\ req[r].calls.error = 0 /\ req[r].calls.complete # 1
      BY <1>1, <3>1 DEF RequestOk
    <3>3. p.outcome = "none" /\ p.outcome # "success" /\ p.outcome # "error"
      BY <2>1, <3>1
    <3>4. p.calls.success = 0 /\ p.calls.error = 0 /\ p.calls.complete # 1 /\ p.state # 2
      BY <2>1, <3>2
    <3> QED
      BY <2>1, <3>3, <3>4 DEF RequestOk, Awaits
  <2>8. Order(Phase(req[r].calls), Phase(p.calls))
    BY <2>1 DEF Order
  <2>9. FrameOk(c, req'[c.r], early')
    BY <1>2, <2>1, <2>2, <2>5 DEF FrameOk
  <2>10. StepOf(r, p, n, c)
    BY <1>2, <1>3, <1>7, <2>1, <2>2, <2>3, <2>4, <2>6, <2>7, <2>8, <2>9 DEF StepOf
  <2> QED
    BY <1>1, <2>1, <2>2, <2>10
<1> QED
  BY <1>6, <1>7 DEF Prepare

LEMMA SendIs ==
    ASSUME IInv, NEW fails \in BOOLEAN, Send(fails)
    PROVE  \E r \in Request, p \in JqXHR, n \in Nat, c \in Frame : StepOf(r, p, n, c)
<1> DEFINE r == Top.r
           q == [req[r] EXCEPT !.timer = req[r].timed, !.state = 1]
           p == [q EXCEPT !.xhr = TRUE]
           n == Len(stack) - 1
           c == Top
<1>1. /\ stack # <<>> /\ Top.at = "ajaxSend"
      /\ Len(stack) \in Nat \ {0} /\ Len(stack) \in DOMAIN stack /\ Top = stack[Len(stack)]
      /\ Top \in Frame /\ r \in Request /\ FrameOk(Top, req[r], early)
      /\ req[r] \in JqXHR /\ RequestOk(req[r]) /\ n \in Nat
  BY TopOk DEF Send, At
<1>2. "ajaxSend" \in InAjax
  BY DEF InAjax
<1>3. /\ q \in JqXHR /\ q.made = req[r].made /\ q.installed = req[r].installed
      /\ q.outcome = req[r].outcome /\ q.calls = req[r].calls /\ q.state = 1
      /\ q.transport = req[r].transport
  <2> DEFINE a == [req[r] EXCEPT !.timer = req[r].timed]
  <2>1. /\ a \in JqXHR /\ a.made = req[r].made /\ a.installed = req[r].installed
        /\ a.outcome = req[r].outcome /\ a.calls = req[r].calls
        /\ a.transport = req[r].transport
    BY <1>1 DEF JqXHR
  <2>2. q = [a EXCEPT !.state = 1]
    OBVIOUS
  <2> HIDE DEF a, q
  <2>3. /\ q \in JqXHR /\ q.made = a.made /\ q.installed = a.installed
        /\ q.outcome = a.outcome /\ q.calls = a.calls /\ q.state = 1
        /\ q.transport = a.transport
    BY <2>1, <2>2 DEF JqXHR
  <2> QED
    BY <2>1, <2>3
<1>4. req[r].made
  BY <1>1, <1>2 DEF FrameOk
<1>5. UNCHANGED <<active, overlay, thrown, early>>
  BY DEF Send
<1>6. CASE Done(r, "error", q, Pop)
  <2> HIDE DEF q
  <2> QED
    <3>1. q.state # 2
      BY <1>3
    <3> QED
      BY <1>1, <1>3, <1>4, <1>5, <1>6, <3>1, DoneByAjax
<1>7. CASE q.transport /\ req' = [req EXCEPT ![r] = p] /\ stack' = Pop
  <2>1. /\ p \in JqXHR /\ p.made /\ p.calls = req[r].calls /\ p.state = 1
        /\ p.outcome = req[r].outcome /\ p.installed = req[r].installed
    <3> HIDE DEF q
    <3>1. /\ p \in JqXHR /\ p.made = q.made /\ p.calls = q.calls /\ p.state = q.state
          /\ p.outcome = q.outcome /\ p.installed = q.installed
      BY <1>3 DEF JqXHR
    <3> QED
      BY <1>3, <1>4, <3>1
  <2>2. Keeps(n) /\ ~Pushes(n, c)
    BY <1>1, <1>7, PopKeeps DEF IInv, Types, Keeps, Pushes
  <2>3. \A i \in 1 .. n : stack[i].at \in InAjax => stack[i].r # r
    BY <1>1, <1>2, OthersDiffer
  <2>4. \A i \in n + 1 .. Len(stack) : stack[i].at # "settle"
    BY <1>1
  <2>5. /\ active' \in Int /\ overlay' \in BOOLEAN /\ thrown' = thrown
        /\ early' = early /\ early \in BOOLEAN
    BY <1>5 DEF IInv, Types
  <2> HIDE DEF p, q, r, n, c
  <2>6. req[r].state # 2
    BY <1>1, <1>3, <1>7 DEF RequestOk
  <2>7. RequestOk(p) /\ ~Awaits(p)
    BY <1>1, <2>1, <2>6 DEF RequestOk, Awaits
  <2>8. Order(Phase(req[r].calls), Phase(p.calls))
    BY <2>1 DEF Order
  <2>9. StepOf(r, p, n, c)
    BY <1>2, <1>7, <2>1, <2>2, <2>3, <2>4, <2>5, <2>6, <2>7, <2>8 DEF StepOf
  <2> QED
    BY <1>1, <2>1, <2>9 DEF c
<1> QED
  BY <1>6, <1>7 DEF Send

\* done, called by abort, by an answer or by the timer.
LEMMA EndIs ==
    ASSUME IInv, NEW r \in Request, NEW q \in JqXHR, q.made,
           q.installed = req[r].installed, q.outcome = req[r].outcome, q.calls = req[r].calls,
           q.state = req[r].state, q.transport = req[r].transport,
           NEW o \in Outcomes, Done(r, o, q, stack), UNCHANGED <<active, overlay, thrown>>,
           early' = (early \/ ((\E i \in DOMAIN stack : stack[i] = Call(r, "ajaxSend"))
                              /\ req[r].state = 0))
    PROVE  \E p \in JqXHR, n \in Nat, c \in Frame : StepOf(r, p, n, c)
<1> DEFINE n == Len(stack)
<1>1. stack \in Seq(Frame) /\ n \in Nat /\ DOMAIN stack = 1 .. n /\ n + 1 .. Len(stack) = {}
  BY DEF IInv, Types
<1>2. stack' = stack => Keeps(n)
  BY <1>1 DEF Keeps
<1>3. stack' = Append(stack, Call(r, "settle")) => Pushes(n, Call(r, "settle"))
  BY <1>1, AppendPushes DEF Call, Frame, InDone
<1>4. /\ active' \in Int /\ overlay' \in BOOLEAN /\ thrown' = thrown
      /\ early' \in BOOLEAN /\ (early => early')
  BY DEF IInv, Types
<1>5. ASSUME NEW i \in 1 .. n, stack[i].r = r, stack[i].at = "ajaxSend" PROVE early'
  <2>1. stack[i] \in Frame /\ FrameOk(stack[i], req[r], early) /\ "ajaxSend" \in InAjax
    BY <1>1, <1>5 DEF IInv, FramesOk, InAjax
  <2>2. stack[i] = Call(r, "ajaxSend")
    BY <1>5, <2>1 DEF Frame, Call
  <2>3. req[r].state \in 0 .. 2
    BY DEF IInv, Types, JqXHR
  <2>4. req[r].state # 1 /\ (req[r].state = 2 => early)
    BY <1>5, <2>1 DEF FrameOk
  <2>5. req[r].state = 2 \/ req[r].state = 0
    BY <2>3, <2>4
  <2>6. i \in DOMAIN stack
    BY <1>1
  <2> QED
    BY <2>2, <2>4, <2>5, <2>6, Zenon
<1> HIDE DEF n
<1>6. \E p \in JqXHR, c \in Frame : StepOf(r, p, n, c)
  BY <1>1, <1>2, <1>3, <1>4, <1>5, DoneIs
<1> QED
  BY <1>1, <1>6

LEMMA AbortIs ==
    ASSUME IInv, NEW r \in Request, Abort(r)
    PROVE  \E p \in JqXHR, n \in Nat, c \in Frame : StepOf(r, p, n, c)
<1> DEFINE q == [req[r] EXCEPT !.xhr = FALSE]
<1>1. req[r] \in JqXHR /\ RequestOk(req[r])
  BY DEF IInv, Types, RequestsOk
<1>2. req[r].made
  <2>1. CASE req[r].known
    BY <1>1, <2>1 DEF RequestOk
  <2>2. CASE At("beforeSend") /\ Top.r = r
    BY <2>2, TopOk DEF At, FrameOk
  <2> QED
    BY <2>1, <2>2 DEF Abort
<1>3. /\ q \in JqXHR /\ q.made = req[r].made /\ q.installed = req[r].installed
      /\ q.outcome = req[r].outcome /\ q.calls = req[r].calls /\ q.state = req[r].state
      /\ q.transport = req[r].transport
  BY <1>1 DEF JqXHR
<1>4. "error" \in Outcomes /\ Done(r, "error", q, stack)
  BY DEF Abort, Outcomes
<1>5. /\ UNCHANGED <<active, overlay, thrown>>
      /\ early' = (early \/ ((\E i \in DOMAIN stack : stack[i] = Call(r, "ajaxSend"))
                             /\ req[r].state = 0))
  BY DEF Abort
<1> HIDE DEF q
<1> QED
  BY <1>2, <1>3, <1>4, <1>5, EndIs

LEMMA AnswerIs ==
    ASSUME IInv, NEW r \in Request, NEW o \in Outcomes, Answer(r, o)
    PROVE  \E p \in JqXHR, n \in Nat, c \in Frame : StepOf(r, p, n, c)
<1> DEFINE q == [req[r] EXCEPT !.xhr = FALSE]
<1>1. req[r] \in JqXHR /\ RequestOk(req[r])
  BY DEF IInv, Types, RequestsOk
<1>2. req[r].made
  BY <1>1 DEF Answer, RequestOk
<1>3. /\ q \in JqXHR /\ q.made = req[r].made /\ q.installed = req[r].installed
      /\ q.outcome = req[r].outcome /\ q.calls = req[r].calls /\ q.state = req[r].state
      /\ q.transport = req[r].transport
  BY <1>1 DEF JqXHR
<1>4. /\ Done(r, o, q, stack) /\ UNCHANGED <<active, overlay, thrown>>
      /\ early' = (early \/ ((\E i \in DOMAIN stack : stack[i] = Call(r, "ajaxSend"))
                             /\ req[r].state = 0))
  BY DEF Answer, IInv, Types
<1> HIDE DEF q
<1> QED
  BY <1>2, <1>3, <1>4, EndIs

LEMMA TimeoutIs ==
    ASSUME IInv, NEW r \in Request, Timeout(r)
    PROVE  \E p \in JqXHR, n \in Nat, c \in Frame : StepOf(r, p, n, c)
<1> DEFINE q == [req[r] EXCEPT !.timer = FALSE]
<1>1. req[r] \in JqXHR /\ RequestOk(req[r])
  BY DEF IInv, Types, RequestsOk
<1>2. req[r].made
  BY <1>1 DEF Timeout, RequestOk
<1>3. /\ q \in JqXHR /\ q.made = req[r].made /\ q.installed = req[r].installed
      /\ q.outcome = req[r].outcome /\ q.calls = req[r].calls /\ q.state = req[r].state
      /\ q.transport = req[r].transport
  BY <1>1 DEF JqXHR
<1>4. /\ "error" \in Outcomes /\ Done(r, "error", q, stack)
      /\ UNCHANGED <<active, overlay, thrown>>
      /\ early' = (early \/ ((\E i \in DOMAIN stack : stack[i] = Call(r, "ajaxSend"))
                             /\ req[r].state = 0))
  BY DEF Timeout, IInv, Types, Outcomes
<1> HIDE DEF q
<1> QED
  BY <1>2, <1>3, <1>4, EndIs
-----------------------------------------------------------------------------
LEMMA InitHolds == Init => IInv
<1> SUFFICES ASSUME Init PROVE IInv
  OBVIOUS
<1>1. Fresh \in JqXHR /\ RequestOk(Fresh) /\ ~Awaits(Fresh)
  BY DEF Fresh, JqXHR, Calls, RequestOk, Awaits
<1>2. Types /\ stack = <<>> /\ DOMAIN stack = {}
  <2>1. stack \in Seq(Frame) /\ Len(stack) = 0
    BY EmptySeq DEF Init
  <2>2. req \in [Request -> JqXHR]
    BY <1>1 DEF Init
  <2>3. active \in Int
    BY DEF Init
  <2>4. overlay \in BOOLEAN /\ thrown \in BOOLEAN /\ early \in BOOLEAN
    BY Zenon DEF Init
  <2>5. stack = <<>> /\ DOMAIN stack = {}
    BY <2>1, EmptySeq DEF Init
  <2> QED
    BY <2>1, <2>2, <2>3, <2>4, <2>5, Zenon DEF Types
<1>3. RequestsOk /\ Told
  BY <1>1 DEF Init, RequestsOk, Told
<1> QED
  BY <1>2, <1>3 DEF IInv, FramesOk, OneAjax

\* A throw cuts the stack; what it leaves untold is excused.
LEMMA ThrowKeeps ==
    ASSUME IInv, NEW kept \in 0 .. Len(stack), Throw(kept)
    PROVE  IInv' /\ req' = req
<1>1. Keeps(kept) /\ req' = req /\ early' = early /\ stack \in Seq(Frame)
  BY CutKeeps DEF Throw, IInv, Types
<1>2. Types' /\ RequestsOk'
  BY <1>1 DEF Keeps, IInv, Throw, Types, RequestsOk
<1>3. \A i \in DOMAIN stack' : i \in DOMAIN stack /\ stack'[i] = stack[i]
  BY <1>1 DEF Keeps
<1>4. FramesOk' /\ OneAjax'
  BY <1>1, <1>3 DEF IInv, FramesOk, FrameOk, OneAjax
<1>5. Told'
  BY DEF Throw, Told
<1> QED
  BY <1>1, <1>2, <1>4, <1>5 DEF IInv

\* A step changes one request and the end of the stack, or throws.
LEMMA StepIs ==
    ASSUME IInv, Next
    PROVE  \/ \E r \in Request, p \in JqXHR, n \in Nat, c \in Frame : StepOf(r, p, n, c)
           \/ \E kept \in 0 .. Len(stack) : Throw(kept)
<1>1. ASSUME Continue
      PROVE  \E r \in Request, p \in JqXHR, n \in Nat, c \in Frame : StepOf(r, p, n, c)
  BY <1>1, BeforeSendIs, CompleteIs, CountIs, StoppedIs, PrepareIs, SendIs DEF Continue
<1>2. ASSUME NEW r \in Request, NEW b \in BOOLEAN, Start(r, b)
      PROVE  \E p \in JqXHR, n \in Nat, c \in Frame : StepOf(r, p, n, c)
  BY <1>2, StartIs
<1>3. ASSUME NEW r \in Request, NEW o \in Outcomes, Answer(r, o)
      PROVE  \E p \in JqXHR, n \in Nat, c \in Frame : StepOf(r, p, n, c)
  BY <1>3, AnswerIs
<1>4. ASSUME NEW r \in Request, Abort(r) \/ Timeout(r)
      PROVE  \E p \in JqXHR, n \in Nat, c \in Frame : StepOf(r, p, n, c)
  BY <1>4, AbortIs, TimeoutIs
<1> QED
  BY <1>1, <1>2, <1>3, <1>4 DEF Next

LEMMA StepKeeps ==
    ASSUME IInv, [Next]_vars
    PROVE  IInv' /\ [\A r \in Request : Order(Phase(req[r].calls), Phase(req'[r].calls))]_vars
<1>1. CASE \E r \in Request, p \in JqXHR, n \in Nat, c \in Frame : StepOf(r, p, n, c)
  <2>1. PICK r \in Request, p \in JqXHR, n \in Nat, c \in Frame : StepOf(r, p, n, c)
    BY <1>1
  <2> QED
    BY <2>1, StepOfKeeps
<1>2. CASE \E kept \in 0 .. Len(stack) : Throw(kept)
  <2>1. IInv' /\ req' = req
    BY <1>2, ThrowKeeps
  <2> QED
    BY <2>1 DEF Order
<1>3. CASE UNCHANGED vars
  BY <1>3 DEF vars, IInv, Types, RequestsOk, RequestOk, FramesOk, FrameOk, OneAjax, Told, Awaits
<1> QED
  BY <1>1, <1>2, <1>3, StepIs

\* The invariant holds in every state that $.ajax reaches.
THEOREM AjaxInvariant == Spec => []IInv
<1>1. IInv /\ [Next]_vars => IInv'
  BY StepKeeps
<1> QED
  BY InitHolds, <1>1, PTL DEF Spec

\* The invariant says what a request has told.
LEMMA ToldFollows == IInv => ToldInv
<1> SUFFICES ASSUME IInv PROVE ToldInv
  OBVIOUS
<1>1. TypeOK
  <2>1. \A i \in DOMAIN stack : stack[i] \in Frame
    BY DEF IInv, Types
  <2>2. {overlay, thrown, early} \subseteq BOOLEAN
    BY DEF IInv, Types
  <2>3. req \in [Request -> JqXHR] /\ active \in Int
    BY DEF IInv, Types
  <2> QED
    BY <2>1, <2>2, <2>3, Zenon DEF JqXHR, Calls, Frame, TypeOK
<1>2. ASSUME stack = <<>>, ~thrown, NEW r \in Request, req[r].installed, req[r].state = 2
      PROVE  req[r].calls[req[r].outcome] = 1 /\ req[r].calls.complete = 1
  <2>1. ~Awaits(req[r])
    BY <1>2 DEF IInv, Told
  <2>2. req[r] \in JqXHR /\ RequestOk(req[r])
    BY DEF IInv, Types, RequestsOk
  <2>3. req[r].calls.complete = 1
    BY <1>2, <2>1, <2>2 DEF Awaits, JqXHR, Calls
  <2>4. req[r].outcome = "success" \/ req[r].outcome = "error"
    BY <1>2, <2>2 DEF RequestOk, JqXHR, Outcomes
  <2> QED
    BY <1>2, <2>2, <2>3, <2>4 DEF RequestOk
<1>3. AllToldWhenQuiet
  BY <1>2 DEF AllToldWhenQuiet
<1> QED
  BY <1>1, <1>3 DEF ToldInv

\* Whatever the functions of the program start, abort and throw on the way, the
\* callbacks of a request that was given any are called once: done() that finds
\* the request settled leaves the telling to the call that settled it.
THEOREM AjaxToldInv == Spec => []ToldInv
BY AjaxInvariant, ToldFollows, PTL

\* success or error once, then complete once, in any order of abort, answer and
\* timeout: none of them finds the callbacks of a settled request.
THEOREM AjaxCallbackOrder == Spec => CallbackOrder
<1>1. IInv /\ [Next]_vars
        => [\A r \in Request : Order(Phase(req[r].calls), Phase(req'[r].calls))]_vars
  BY StepKeeps
<1> QED
  BY AjaxInvariant, <1>1, PTL DEF Spec, CallbackOrder
-----------------------------------------------------------------------------
\* jQuery.active counts the requests that are not done and the calls of done
\* that have not counted their request down yet: one that settles its request
\* moves it from the first to the second.  A function that throws skips the
\* counting, so that active can be too large, and a request that ajaxSend aborts
\* has two calls of done, so that it can be too small.
Uncounted == {i \in DOMAIN stack : stack[i].at \in {"settle", "complete"}}

Total == Cardinality(UnderWay) + Cardinality(Uncounted)

Counted ==
    /\ overlay <=> active > 0
    /\ ~early => active >= Total
    /\ ~thrown => active <= Total

\* Both numbers are those of finite sets.
LEMMA BothFinite ==
    ASSUME Types
    PROVE  /\ IsFiniteSet(UnderWay) /\ Cardinality(UnderWay) \in Nat
           /\ IsFiniteSet(Uncounted) /\ Cardinality(Uncounted) \in Nat
<1>1. IsFiniteSet(Request) /\ IsFiniteSet(1 .. Len(stack))
  BY AjaxAssumption, FS_Interval DEF Request, Types
<1>2. UnderWay \subseteq Request /\ Uncounted \subseteq 1 .. Len(stack)
  BY DEF UnderWay, Uncounted, Types
<1>3. IsFiniteSet(UnderWay) /\ IsFiniteSet(Uncounted)
  BY <1>1, <1>2, FS_Subset
<1> QED
  BY <1>3, FS_CardinalityType

\* The requests under way after a change of one.
LEMMA UnderWayStep ==
    ASSUME Types, NEW r \in Request, NEW p \in JqXHR, req' = [req EXCEPT ![r] = p]
    PROVE  UnderWay' = IF p.made /\ p.state # 2 THEN UnderWay \cup {r} ELSE UnderWay \ {r}
<1>1. \A s \in Request : req'[s] = IF s = r THEN p ELSE req[s]
  BY DEF Types
<1> QED
  BY <1>1 DEF UnderWay

\* The calls that were uncounted and are kept, and the new one if it is uncounted.
LEMMA UncountedStep ==
    ASSUME Types, NEW n, NEW c \in Frame, Keeps(n) \/ Pushes(n, c),
           \A i \in n + 1 .. Len(stack) : stack[i].at \notin {"settle", "complete"}
    PROVE  Uncounted' = IF Pushes(n, c) /\ c.at \in {"settle", "complete"}
                        THEN Uncounted \cup {n + 1} ELSE Uncounted
<1>1. Len(stack) \in Nat /\ DOMAIN stack = 1 .. Len(stack) /\ n \in 0 .. Len(stack)
  BY DEF Types, Keeps, Pushes
<1>2. \A i \in Uncounted : i \in 1 .. n
  BY <1>1 DEF Uncounted
<1>3. \A i \in 1 .. n : i \in DOMAIN stack /\ i \in DOMAIN stack' /\ stack'[i] = stack[i]
  BY <1>1 DEF Keeps, Pushes
<1>4. CASE Keeps(n)
  <2>1. DOMAIN stack' = 1 .. n /\ ~Pushes(n, c)
    BY <1>1, <1>4 DEF Keeps, Pushes
  <2> QED
    BY <1>2, <1>3, <2>1 DEF Uncounted
<1>5. CASE Pushes(n, c)
  <2>1. /\ \A i \in DOMAIN stack' : i \in 1 .. n \/ i = n + 1
        /\ n + 1 \in DOMAIN stack' /\ stack'[n + 1] = c
    BY <1>1, <1>5 DEF Pushes
  <2> QED
    BY <1>2, <1>3, <1>5, <2>1 DEF Uncounted
<1> QED
  BY <1>4, <1>5

\* A step that neither starts, settles nor counts a request.
LEMMA CountedSame ==
    ASSUME Types, Counted, UnderWay' = UnderWay, Uncounted' = Uncounted,
           UNCHANGED <<active, overlay, thrown, early>>
    PROVE  Counted'
<1>1. Total' = Total
  BY DEF Total
<1> QED
  BY <1>1 DEF Counted

\* done moves its request from those under way to those not counted, or changes
\* neither.
LEMMA CountedDone ==
    ASSUME IInv, Counted, NEW r \in Request, NEW q \in JqXHR, q.made, req[r].made,
           q.installed = req[r].installed, q.outcome = req[r].outcome, q.calls = req[r].calls,
           q.state = 2 => req[r].state = 2,
           NEW o \in Outcomes, NEW below, Done(r, o, q, below),
           UNCHANGED <<active, overlay, thrown>>, early => early',
           NEW n \in Nat, stack' = below => Keeps(n),
           stack' = Append(below, Call(r, "settle")) => Pushes(n, Call(r, "settle")),
           \A i \in n + 1 .. Len(stack) : stack[i].at \in InAjax,
           q.state # 2 /\ req[r].state = 2 => early
    PROVE  Counted'
<1> DEFINE c == Call(r, "settle")
<1>1. Types /\ RequestsOk
  BY DEF IInv
<1>2. c \in Frame /\ c.at = "settle"
  BY DEF Call, Frame, InDone
<1>3. \A i \in n + 1 .. Len(stack) : stack[i].at \notin {"settle", "complete"}
  BY DEF InAjax
<1>4. /\ Cardinality(UnderWay) \in Nat /\ Cardinality(Uncounted) \in Nat /\ active \in Int
      /\ Total = Cardinality(UnderWay) + Cardinality(Uncounted)
      /\ Total' = Cardinality(UnderWay') + Cardinality(Uncounted')
  BY <1>1, BothFinite DEF Total, Types
<1>5. CASE q.state # 2 /\ Settle(r, o, q, below)
  <2>1. PICK p \in JqXHR : req' = [req EXCEPT ![r] = p] /\ p.state = 2
    BY <1>1, <1>5, SettleIs
  <2>2. UnderWay' = UnderWay \ {r}
    BY <1>1, <2>1, UnderWayStep
  <2>3. Pushes(n, c)
    BY <1>5 DEF Settle
  <2>4. ~early => r \in UnderWay
    BY <1>5 DEF UnderWay
  <2>5. Uncounted' = Uncounted \cup {n + 1}
    <3> HIDE DEF c
    <3> QED
      BY <1>1, <1>2, <1>3, <2>3, UncountedStep
  <2>6. n + 1 \notin Uncounted
    <3>1. n + 1 \in DOMAIN stack => n + 1 \in n + 1 .. Len(stack)
      BY <1>1 DEF Types
    <3> QED
      BY <1>3, <3>1 DEF Uncounted
  <2>7. Cardinality(UnderWay') = IF r \in UnderWay THEN Cardinality(UnderWay) - 1
                                 ELSE Cardinality(UnderWay)
    <3>1. CASE r \in UnderWay
      BY <1>1, <2>2, <3>1, BothFinite, FS_RemoveElement
    <3>2. CASE r \notin UnderWay
      <4>1. UnderWay' = UnderWay
        BY <2>2, <3>2
      <4> QED
        BY <3>2, <4>1
    <3> QED
      BY <3>1, <3>2
  <2>8. Cardinality(Uncounted') = Cardinality(Uncounted) + 1
    BY <1>1, <2>5, <2>6, BothFinite, FS_AddElement
  <2>9. Total' >= Total /\ (~early => Total' = Total)
    BY <1>4, <2>4, <2>7, <2>8
  <2>10. Total \in Nat /\ Total' \in Nat
    BY <1>4, <2>7, <2>8, <2>9
  <2> QED
    BY <1>4, <2>9, <2>10 DEF Counted
<1>6. CASE q.state = 2 /\ req' = [req EXCEPT ![r] = q] /\ stack' = below
  <2>1. UnderWay' = UnderWay \ {r} /\ r \notin UnderWay
    BY <1>1, <1>6, UnderWayStep DEF UnderWay
  <2>2. Keeps(n) /\ ~Pushes(n, c)
    BY <1>6 DEF Keeps, Pushes
  <2>3. Uncounted' = Uncounted
    <3> HIDE DEF c
    <3> QED
      BY <1>1, <1>2, <1>3, <2>2, UncountedStep
  <2>4. Total' = Total
    BY <2>1, <2>3 DEF Total
  <2> QED
    BY <2>4 DEF Counted
<1> QED
  BY <1>5, <1>6 DEF Done

LEMMA StartCounts ==
    ASSUME IInv, Counted, NEW r \in Request, NEW timed \in BOOLEAN, Start(r, timed)
    PROVE  Counted'
<1> DEFINE p == [req[r] EXCEPT !.made = TRUE, !.timed = timed]
           c == Call(r, IF active = 0 THEN "ajaxStart" ELSE "beforeSend")
<1>1. Types /\ req[r] \in JqXHR /\ RequestOk(req[r]) /\ Len(stack) \in Nat /\ stack \in Seq(Frame)
  BY DEF IInv, Types, RequestsOk
<1>2. ~req[r].made /\ req[r].state = 0
  BY <1>1 DEF Start, RequestOk, Request
<1>3. p \in JqXHR /\ p.made /\ p.state # 2
  <2>1. p \in JqXHR /\ p.made /\ p.state = 0
    BY <1>1, <1>2 DEF JqXHR
  <2> QED
    BY <2>1
<1>4. req' = [req EXCEPT ![r] = p] /\ stack' = Append(stack, c)
  <2>1. [req EXCEPT ![r].made = TRUE, ![r].timed = timed] = [req EXCEPT ![r] = p]
    BY <1>1 DEF Types
  <2> QED
    BY <2>1 DEF Start
<1>5. c \in Frame /\ c.at \notin {"settle", "complete"}
  BY DEF Call, Frame, InAjax
<1> HIDE DEF p, c
<1>6. UnderWay' = UnderWay \cup {r} /\ r \notin UnderWay
  <2>1. UnderWay' = UnderWay \cup {r}
    BY <1>1, <1>3, <1>4, UnderWayStep
  <2> QED
    BY <1>2, <2>1 DEF UnderWay
<1>7. Uncounted' = Uncounted
  <2>1. Pushes(Len(stack), c)
    BY <1>1, <1>4, <1>5, AppendPushes
  <2> QED
    BY <1>1, <1>5, <2>1, UncountedStep
<1>8. Cardinality(UnderWay') = Cardinality(UnderWay) + 1
  BY <1>1, <1>6, BothFinite, FS_AddElement
<1>9. active' = active + 1 /\ overlay' = (overlay \/ active = 0) /\ thrown' = thrown /\ early' = early
  BY DEF Start
<1>10. Total \in Nat /\ Total' = Total + 1 /\ active \in Int
  BY <1>1, <1>7, <1>8, BothFinite DEF Total, Types
<1>11. (active' > 0 <=> active > 0 \/ active = 0) /\ (overlay <=> active > 0)
  BY <1>9, <1>10 DEF Counted
<1>12. overlay' <=> active' > 0
  BY <1>9, <1>11, Zenon
<1>13. (~early' => active' >= Total') /\ (~thrown' => active' <= Total')
  <2>1. active >= Total => active' >= Total'
    BY <1>9, <1>10
  <2>2. active <= Total => active' <= Total'
    BY <1>9, <1>10
  <2> QED
    BY <1>9, <2>1, <2>2, Zenon DEF Counted
<1> QED
  BY <1>12, <1>13, Zenon DEF Counted

\* The innermost call goes on or returns, and its request stays under way or not.
LEMMA QuietCounts ==
    ASSUME IInv, Counted, stack # <<>>, NEW p \in JqXHR, req' = [req EXCEPT ![Top.r] = p],
           p.made /\ p.state # 2 <=> req[Top.r].made /\ req[Top.r].state # 2,
           NEW at \in InAjax \cup InDone, stack' = GoTo(at) \/ stack' = Pop,
           at \notin {"settle", "complete"}, Top.at \notin {"settle", "complete"},
           UNCHANGED <<active, overlay, thrown, early>>
    PROVE  Counted'
<1> DEFINE n == Len(stack) - 1
           c == Call(Top.r, at)
<1>1. /\ Types /\ stack \in Seq(Frame) /\ Top.r \in Request /\ Len(stack) \in Nat \ {0}
      /\ Top = stack[Len(stack)]
  BY TopOk DEF IInv, Types
<1>2. c \in Frame /\ c.at = at
  BY <1>1 DEF Call, Frame
<1>3. Keeps(n) \/ Pushes(n, c)
  BY <1>1, PopKeeps, GoToPushes
<1>4. \A i \in n + 1 .. Len(stack) : stack[i].at \notin {"settle", "complete"}
  BY <1>1
<1> HIDE DEF n, c
<1>5. Uncounted' = Uncounted
  BY <1>1, <1>2, <1>3, <1>4, UncountedStep
<1>6. UnderWay' = UnderWay
  <2>1. UnderWay' = IF p.made /\ p.state # 2 THEN UnderWay \cup {Top.r} ELSE UnderWay \ {Top.r}
    BY <1>1, UnderWayStep
  <2>2. Top.r \in UnderWay <=> req[Top.r].made /\ req[Top.r].state # 2
    BY <1>1 DEF UnderWay
  <2> QED
    BY <2>1, <2>2
<1> QED
  BY <1>1, <1>5, <1>6, CountedSame

LEMMA CompleteCounts ==
    ASSUME IInv, Counted, Complete
    PROVE  Counted'
<1>1. /\ Types /\ stack \in Seq(Frame) /\ stack # <<>> /\ Top.at = "settle" /\ Top.r \in Request
      /\ Len(stack) \in Nat \ {0} /\ Len(stack) \in DOMAIN stack /\ Top = stack[Len(stack)]
      /\ Len(stack) - 1 \in 0 .. Len(stack)
  BY TopOk DEF Complete, At, IInv, Types
<1>2. Pushes(Len(stack) - 1, Call(Top.r, "complete"))
  BY <1>1, GoToPushes DEF Complete, InDone
<1>3. /\ DOMAIN stack' = DOMAIN stack
      /\ \A i \in DOMAIN stack : i = Len(stack) \/ stack'[i] = stack[i]
      /\ stack'[Len(stack)].at = "complete"
  BY <1>1, <1>2 DEF Pushes, Call
<1>4. Uncounted' = Uncounted
  BY <1>1, <1>3 DEF Uncounted
<1>5. UnderWay' = UnderWay
  <2>1. \A s \in Request : req'[s].made = req[s].made /\ req'[s].state = req[s].state
    BY <1>1 DEF Complete, Types, JqXHR
  <2> QED
    BY <2>1 DEF UnderWay
<1> QED
  BY <1>1, <1>4, <1>5, CountedSame DEF Complete

\* The end of done counts its request down.
LEMMA CountCounts ==
    ASSUME IInv, Counted, Count
    PROVE  Counted'
<1> DEFINE n == Len(stack) - 1
<1>1. /\ Types /\ stack \in Seq(Frame) /\ stack # <<>> /\ Top.at = "complete" /\ Top.r \in Request
      /\ Len(stack) \in Nat \ {0} /\ Len(stack) \in DOMAIN stack /\ Top = stack[Len(stack)]
      /\ n \in 0 .. Len(stack) /\ n + 1 = Len(stack)
  BY TopOk DEF Count, At, IInv, Types
<1>2. Keeps(n) \/ Pushes(n, Call(Top.r, "ajaxStop"))
  BY <1>1, PopKeeps, GoToPushes DEF Count, InDone
<1>3. Uncounted' = Uncounted \ {Len(stack)} /\ Len(stack) \in Uncounted
  <2>1. \A i \in DOMAIN stack : i \in 1 .. n \/ i = Len(stack)
    BY <1>1
  <2>2. \A i \in 1 .. n : /\ i \in DOMAIN stack /\ i # Len(stack)
                           /\ i \in DOMAIN stack' /\ stack'[i] = stack[i]
    <3>1. \A i \in 1 .. n : i \in DOMAIN stack /\ i # Len(stack)
      <4>1. DOMAIN stack = 1 .. Len(stack) /\ n \in Nat
        BY <1>1
      <4> HIDE DEF n
      <4> QED
        BY <1>1, <4>1
    <3>2. \A i \in 1 .. n : i \in DOMAIN stack' /\ stack'[i] = stack[i]
      <4>1. CASE Keeps(n)
        BY <4>1 DEF Keeps
      <4>2. CASE Pushes(n, Call(Top.r, "ajaxStop"))
        BY <1>1, <4>2 DEF Pushes
      <4> QED
        BY <1>2, <4>1, <4>2
    <3> QED
      BY <3>1, <3>2
  <2>3. \A i \in DOMAIN stack' : i \in 1 .. n \/ stack'[i].at = "ajaxStop"
    <3>1. CASE Keeps(n)
      BY <3>1 DEF Keeps
    <3>2. CASE Pushes(n, Call(Top.r, "ajaxStop"))
      <4>1. \A i \in DOMAIN stack' : i \in 1 .. n \/ i = n + 1
        BY <1>1, <3>2 DEF Pushes
      <4> QED
        BY <3>2, <4>1 DEF Pushes, Call
    <3> QED
      BY <1>2, <3>1, <3>2
  <2> HIDE DEF n
  <2> QED
    BY <1>1, <2>1, <2>2, <2>3 DEF Uncounted
<1>4. UnderWay' = UnderWay
  BY DEF Count, UnderWay
<1>5. Cardinality(Uncounted') = Cardinality(Uncounted) - 1
  BY <1>1, <1>3, BothFinite, FS_RemoveElement
<1>6. /\ active' = active - 1 /\ overlay' = (overlay /\ active' # 0)
      /\ thrown' = thrown /\ early' = early
  BY DEF Count
<1>7. Total \in Nat /\ Total' = Total - 1 /\ active \in Int
  BY <1>1, <1>4, <1>5, BothFinite DEF Total, Types
<1>8. (active' > 0 <=> active > 0 /\ active' # 0) /\ (overlay <=> active > 0)
  BY <1>6, <1>7 DEF Counted
<1>9. overlay' <=> active' > 0
  BY <1>6, <1>8, Zenon
<1>10. (~early' => active' >= Total') /\ (~thrown' => active' <= Total')
  <2>1. active >= Total => active' >= Total'
    BY <1>6, <1>7
  <2>2. active <= Total => active' <= Total'
    BY <1>6, <1>7
  <2> QED
    BY <1>6, <2>1, <2>2, Zenon DEF Counted
<1> QED
  BY <1>9, <1>10, Zenon DEF Counted

LEMMA PrepareCounts ==
    ASSUME IInv, Counted, NEW false \in BOOLEAN, Prepare(false)
    PROVE  Counted'
<1> DEFINE r == Top.r
           q == [req[r] EXCEPT !.known = TRUE]
           p == [q EXCEPT !.installed = TRUE, !.transport = TRUE]
           n == Len(stack) - 1
<1>1. /\ stack # <<>> /\ Top.at = "beforeSend" /\ stack \in Seq(Frame)
      /\ Len(stack) \in Nat \ {0} /\ Top = stack[Len(stack)] /\ r \in Request
      /\ req[r] \in JqXHR /\ FrameOk(Top, req[r], early) /\ n \in Nat
  BY TopOk DEF Prepare, At, IInv, Types
<1>2. /\ q \in JqXHR /\ q.made = req[r].made /\ q.installed = req[r].installed
      /\ q.outcome = req[r].outcome /\ q.calls = req[r].calls /\ q.state = req[r].state
  BY <1>1 DEF JqXHR
<1>3. req[r].made
  BY <1>1 DEF FrameOk
<1>4. UNCHANGED <<active, overlay, thrown, early>> /\ "error" \in Outcomes
  BY DEF Prepare, Outcomes
<1>5. CASE Done(r, "error", q, Pop)
  <2>1. stack' = Pop => Keeps(n)
    BY <1>1, PopKeeps
  <2>2. stack' = Append(Pop, Call(r, "settle")) => Pushes(n, Call(r, "settle"))
    BY <1>1, PopAppendPushes DEF Call, Frame, InDone
  <2>3. \A i \in n + 1 .. Len(stack) : stack[i].at \in InAjax
    BY <1>1 DEF InAjax
  <2> HIDE DEF q, r, n
  <2> QED
    BY <1>1, <1>2, <1>3, <1>4, <1>5, <2>1, <2>2, <2>3, CountedDone
<1>6. CASE q.state # 2 /\ req' = [req EXCEPT ![r] = p] /\ stack' = GoTo("ajaxSend")
  <2>1. p \in JqXHR /\ p.made = req[r].made /\ p.state = req[r].state
    <3> HIDE DEF q
    <3>1. p \in JqXHR /\ p.made = q.made /\ p.state = q.state
      BY <1>2 DEF JqXHR
    <3> QED
      BY <1>2, <3>1
  <2>2. "ajaxSend" \in InAjax \cup InDone
    BY DEF InAjax
  <2> HIDE DEF p
  <2> QED
    BY <1>1, <1>4, <1>6, <2>1, <2>2, QuietCounts
<1> QED
  BY <1>5, <1>6 DEF Prepare

LEMMA SendCounts ==
    ASSUME IInv, Counted, NEW fails \in BOOLEAN, Send(fails)
    PROVE  Counted'
<1> DEFINE r == Top.r
           a == [req[r] EXCEPT !.timer = req[r].timed]
           q == [req[r] EXCEPT !.timer = req[r].timed, !.state = 1]
           p == [q EXCEPT !.xhr = TRUE]
           n == Len(stack) - 1
<1>1. /\ stack # <<>> /\ Top.at = "ajaxSend" /\ stack \in Seq(Frame)
      /\ Len(stack) \in Nat \ {0} /\ Top = stack[Len(stack)] /\ r \in Request
      /\ req[r] \in JqXHR /\ FrameOk(Top, req[r], early) /\ RequestOk(req[r]) /\ n \in Nat
  BY TopOk DEF Send, At, IInv, Types
<1>2. /\ q \in JqXHR /\ q.made = req[r].made /\ q.installed = req[r].installed
      /\ q.outcome = req[r].outcome /\ q.calls = req[r].calls /\ q.state = 1
      /\ q.transport = req[r].transport
  <2>1. /\ a \in JqXHR /\ a.made = req[r].made /\ a.installed = req[r].installed
        /\ a.outcome = req[r].outcome /\ a.calls = req[r].calls
        /\ a.transport = req[r].transport
    BY <1>1 DEF JqXHR
  <2>2. q = [a EXCEPT !.state = 1]
    OBVIOUS
  <2> HIDE DEF a, q
  <2>3. /\ q \in JqXHR /\ q.made = a.made /\ q.installed = a.installed
        /\ q.outcome = a.outcome /\ q.calls = a.calls /\ q.state = 1
        /\ q.transport = a.transport
    BY <2>1, <2>2 DEF JqXHR
  <2> QED
    BY <2>1, <2>3
<1>3. req[r].made /\ (req[r].state = 2 => early)
  BY <1>1 DEF FrameOk
<1>4. UNCHANGED <<active, overlay, thrown, early>> /\ "error" \in Outcomes
  BY DEF Send, Outcomes
<1>5. CASE Done(r, "error", q, Pop)
  <2>1. stack' = Pop => Keeps(n)
    BY <1>1, PopKeeps
  <2>2. stack' = Append(Pop, Call(r, "settle")) => Pushes(n, Call(r, "settle"))
    BY <1>1, PopAppendPushes DEF Call, Frame, InDone
  <2>3. \A i \in n + 1 .. Len(stack) : stack[i].at \in InAjax
    BY <1>1 DEF InAjax
  <2> HIDE DEF q, r, n
  <2>4. q.state # 2
    BY <1>2
  <2> QED
    BY <1>1, <1>2, <1>3, <1>4, <1>5, <2>1, <2>2, <2>3, <2>4, CountedDone
<1>6. CASE q.transport /\ req' = [req EXCEPT ![r] = p] /\ stack' = Pop
  <2>1. p \in JqXHR /\ p.made = req[r].made /\ p.state = 1
    <3> HIDE DEF q
    <3>1. p \in JqXHR /\ p.made = q.made /\ p.state = q.state
      BY <1>2 DEF JqXHR
    <3> QED
      BY <1>2, <3>1
  <2>2. req[r].state # 2
    BY <1>1, <1>2, <1>6 DEF RequestOk
  <2>3. "ajaxSend" \in InAjax \cup InDone
    BY DEF InAjax
  <2>4. p.made /\ p.state # 2 <=> req[r].made /\ req[r].state # 2
    BY <1>3, <2>1, <2>2
  <2> HIDE DEF p
  <2> QED
    BY <1>1, <1>4, <1>6, <2>1, <2>3, <2>4, QuietCounts
<1> QED
  BY <1>5, <1>6 DEF Send

LEMMA EndCounts ==
    ASSUME IInv, Counted, NEW r \in Request, NEW q \in JqXHR, req[r].made, q.made = req[r].made,
           q.installed = req[r].installed, q.outcome = req[r].outcome, q.calls = req[r].calls,
           q.state = req[r].state,
           NEW o \in Outcomes, Done(r, o, q, stack), UNCHANGED <<active, overlay, thrown>>,
           early => early'
    PROVE  Counted'
<1> DEFINE n == Len(stack)
<1>1. stack \in Seq(Frame) /\ n \in Nat /\ DOMAIN stack = 1 .. n /\ n + 1 .. Len(stack) = {}
  BY DEF IInv, Types
<1>2. stack' = stack => Keeps(n)
  BY <1>1 DEF Keeps
<1>3. stack' = Append(stack, Call(r, "settle")) => Pushes(n, Call(r, "settle"))
  BY <1>1, AppendPushes DEF Call, Frame, InDone
<1> HIDE DEF n
<1> QED
  BY <1>1, <1>2, <1>3, CountedDone

LEMMA ProgramEndCounts ==
    ASSUME IInv, Counted, NEW r \in Request,
           Abort(r) \/ Timeout(r) \/ \E o \in Outcomes : Answer(r, o)
    PROVE  Counted'
<1>1. req[r] \in JqXHR /\ RequestOk(req[r]) /\ "error" \in Outcomes
  BY DEF IInv, Types, RequestsOk, Outcomes
<1>2. req[r].made
  <2>1. CASE At("beforeSend") /\ Top.r = r
    BY <2>1, TopOk DEF At, FrameOk
  <2>2. CASE req[r].known \/ req[r].timer \/ req[r].xhr
    BY <1>1, <2>2 DEF RequestOk
  <2> QED
    BY <2>1, <2>2 DEF Abort, Timeout, Answer
<1>3. UNCHANGED <<active, overlay, thrown>> /\ (early => early')
  <2>1. CASE Abort(r)
    BY <2>1 DEF Abort
  <2>2. CASE Timeout(r) \/ \E o \in Outcomes : Answer(r, o)
    BY <2>2 DEF Timeout, Answer
  <2> QED
    BY <2>1, <2>2
<1>4. PICK q \in JqXHR, o \in Outcomes :
         /\ Done(r, o, q, stack) /\ q.made = req[r].made /\ q.installed = req[r].installed
         /\ q.outcome = req[r].outcome /\ q.calls = req[r].calls /\ q.state = req[r].state
  <2> DEFINE x == [req[r] EXCEPT !.xhr = FALSE]
             t == [req[r] EXCEPT !.timer = FALSE]
  <2>1. /\ x \in JqXHR /\ x.made = req[r].made /\ x.installed = req[r].installed
        /\ x.outcome = req[r].outcome /\ x.calls = req[r].calls /\ x.state = req[r].state
    BY <1>1 DEF JqXHR
  <2>2. /\ t \in JqXHR /\ t.made = req[r].made /\ t.installed = req[r].installed
        /\ t.outcome = req[r].outcome /\ t.calls = req[r].calls /\ t.state = req[r].state
    BY <1>1 DEF JqXHR
  <2>3. \/ \E o \in Outcomes : Done(r, o, x, stack)
        \/ \E o \in Outcomes : Done(r, o, t, stack)
    BY <1>1 DEF Abort, Timeout, Answer
  <2> HIDE DEF x, t
  <2> QED
    BY <2>1, <2>2, <2>3
<1> QED
  BY <1>2, <1>3, <1>4, EndCounts

\* Every step keeps the count.
LEMMA StepCounts ==
    ASSUME IInv, Counted, [Next]_vars
    PROVE  Counted'
<1>1. CASE Continue
  <2>1. ASSUME BeforeSend PROVE Counted'
    <3>1. /\ stack # <<>> /\ Top.at = "ajaxStart" /\ Top.r \in Request /\ req[Top.r] \in JqXHR
          /\ stack' = GoTo("beforeSend")
      BY <2>1, TopOk DEF BeforeSend, At
    <3>2. req' = [req EXCEPT ![Top.r] = req[Top.r]] /\ "beforeSend" \in InAjax \cup InDone
      BY <2>1, <3>1 DEF BeforeSend, IInv, Types, InAjax
    <3>3. UNCHANGED <<active, overlay, thrown, early>>
      BY <2>1 DEF BeforeSend
    <3> QED
      BY <3>1, <3>2, <3>3, QuietCounts
  <2>2. ASSUME Stopped PROVE Counted'
    <3>1. /\ stack # <<>> /\ Top.at = "ajaxStop" /\ Top.r \in Request /\ req[Top.r] \in JqXHR
          /\ stack' = Pop
      BY <2>2, TopOk DEF Stopped, At
    <3>2. req' = [req EXCEPT ![Top.r] = req[Top.r]] /\ "ajaxStop" \in InAjax \cup InDone
      BY <2>2, <3>1 DEF Stopped, IInv, Types, InDone
    <3>3. UNCHANGED <<active, overlay, thrown, early>>
      BY <2>2 DEF Stopped
    <3> QED
      BY <3>1, <3>2, <3>3, QuietCounts
  <2> QED
    BY <1>1, <2>1, <2>2, CompleteCounts, CountCounts, PrepareCounts, SendCounts DEF Continue
<1>2. CASE \E r \in Request : \E b \in BOOLEAN : Start(r, b)
  BY <1>2, StartCounts
<1>3. CASE \E r \in Request : Abort(r) \/ Timeout(r) \/ \E o \in Outcomes : Answer(r, o)
  BY <1>3, ProgramEndCounts
<1>4. CASE \E kept \in 0 .. Len(stack) : Throw(kept)
  <2>1. PICK kept \in 0 .. Len(stack) : stack' = SubSeq(stack, 1, kept)
    BY <1>4 DEF Throw
  <2>2. /\ UnderWay' = UnderWay /\ thrown' /\ UNCHANGED <<active, overlay, early>>
        /\ Types /\ stack \in Seq(Frame)
    BY <1>4 DEF Throw, UnderWay, IInv, Types
  <2>3. Keeps(kept)
    BY <2>1, <2>2, CutKeeps
  <2>4. \A i \in DOMAIN stack' : i \in DOMAIN stack /\ stack'[i] = stack[i]
    BY <2>2, <2>3 DEF Keeps
  <2>5. Uncounted' \subseteq Uncounted
    BY <2>4 DEF Uncounted
  <2>6. IsFiniteSet(Uncounted) /\ Cardinality(Uncounted) \in Nat /\ Cardinality(UnderWay) \in Nat
    BY <2>2, BothFinite
  <2>7. IsFiniteSet(Uncounted') /\ Cardinality(Uncounted') <= Cardinality(Uncounted)
    BY <2>5, <2>6, FS_Subset
  <2>8. Cardinality(Uncounted') \in Nat
    BY <2>7, FS_CardinalityType
  <2>9. Total \in Nat /\ Total' \in Nat /\ Total' <= Total /\ active \in Int
    BY <2>2, <2>6, <2>7, <2>8 DEF Total, Types
  <2> QED
    BY <2>2, <2>9 DEF Counted
<1>5. CASE UNCHANGED vars
  <2>1. UnderWay' = UnderWay /\ Uncounted' = Uncounted
    BY <1>5 DEF vars, UnderWay, Uncounted
  <2> QED
    BY <1>5, <2>1, CountedSame DEF vars, IInv
<1> QED
  BY <1>1, <1>2, <1>3, <1>4, <1>5 DEF Next

LEMMA InitCounts == Init => Counted
<1> SUFFICES ASSUME Init PROVE Counted
  OBVIOUS
<1>1. UnderWay = {}
  <2>1. \A r \in Request : ~req[r].made
    BY DEF Init, Fresh
  <2> QED
    BY <2>1 DEF UnderWay
<1>2. Uncounted = {}
  BY DEF Init, Uncounted
<1> QED
  BY <1>1, <1>2, FS_EmptySet DEF Init, Counted, Total

\* When nothing runs all calls of done have counted.
LEMMA CountedFollows == IInv /\ Counted => OverlayFollows
<1> SUFFICES ASSUME IInv, Counted, stack = <<>>
             PROVE  /\ ~thrown /\ ~early => active = Cardinality(UnderWay)
                    /\ ~early => (UnderWay # {} => overlay)
                    /\ ~thrown => (overlay => UnderWay # {})
  BY DEF OverlayFollows
<1>1. Uncounted = {} /\ Cardinality(Uncounted) = 0
  BY FS_EmptySet DEF Uncounted
<1>2. IsFiniteSet(UnderWay) /\ Cardinality(UnderWay) \in Nat /\ active \in Int
  BY BothFinite DEF IInv, Types
<1>3. Total = Cardinality(UnderWay)
  BY <1>1, <1>2 DEF Total
<1>4. Cardinality(UnderWay) = 0 <=> UnderWay = {}
  BY <1>2, FS_EmptySet
<1> QED
  BY <1>2, <1>3, <1>4 DEF Counted

\* The overlay is shown exactly while requests are under way, however the calls
\* of ajax and done nest, for any number of requests; a throw can only leave it
\* behind, an abort in ajaxSend only take it away too early.
THEOREM AjaxOverlayFollows == Spec => []OverlayFollows
<1>1. IInv /\ Counted /\ [Next]_vars => Counted'
  BY StepCounts
<1>2. Spec => []Counted
  BY InitCounts, <1>1, AjaxInvariant, PTL DEF Spec
<1> QED
  BY <1>2, AjaxInvariant, CountedFollows, PTL
=============================================================================
