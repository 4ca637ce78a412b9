--------------------------- MODULE LoginFlowProofs ---------------------------
(***************************************************************************)
(* The properties of LoginFlow for any number of browsers, logins,         *)
(* callbacks and codes.  A flow enters the store once, when its login is   *)
(* made, and leaves it for one callback: two callbacks that have consumed  *)
(* something have consumed different flows, and everything follows.        *)
(***************************************************************************)
EXTENDS LoginFlow, TLAPS

Past == {"check", "exchange", "verify", "create"}

\* The flow of a login that has not been made is not there.
StoreInv == \A l \in Logins : browserOf[l] = None => flows[l] = NoFlow

\* What a callback has consumed is its own, and gone.
HeldInv ==
    \A c \in Callbacks : held[c] # None =>
        /\ presented[c] \in Logins
        /\ flows[presented[c]] = NoFlow
        /\ \A d \in Callbacks : held[d] # None /\ presented[d] = presented[c] => c = d

\* What a callback does, it does with a flow that it has consumed.
StepInv ==
    \A c \in Callbacks :
        /\ pc[c] \in {"idle", "consume"} => held[c] = None /\ session[c] = None
        /\ pc[c] \in Past => held[c] # None
        /\ session[c] # None => held[c] # None /\ session[c] = presented[c]

\* Codes are tried with the flow of the login they are for.
CodeInv ==
    \A c \in Callbacks :
        /\ query[c] # None =>
            /\ query[c] \in Answer
            /\ query[c].code # None => codeFor[query[c].code] = query[c].state
        /\ pc[c] # "idle" => query[c] # None
        /\ pc[c] = "exchange" => query[c].state = presented[c] /\ query[c].code # None
        /\ tried[c] # None => held[c] # None /\ codeFor[tried[c]] = presented[c]

\* Cookies stay with the browser that has earned them.
CookieInv ==
    /\ \A b \in Browsers : flowCookie[b] # None => browserOf[flowCookie[b]] = b
    /\ \A c \in Callbacks :
        /\ pc[c] # "idle" => from[c] \in Browsers
        /\ presented[c] # None => pc[c] # "idle" /\ browserOf[presented[c]] = from[c]
    /\ SessionFromOwnLogin

Inv == Typed /\ StoreInv /\ HeldInv /\ StepInv /\ CodeInv /\ CookieInv

-----------------------------------------------------------------------------
(* The initial states satisfy the invariant. *)
LEMMA InitInv == Init => Inv
<1> SUFFICES ASSUME Init PROVE Inv
    OBVIOUS
<1> USE LoginAssumption DEF Init
<1>1. Typed  BY DEF Typed, Steps
<1>2. StoreInv /\ HeldInv /\ StepInv  BY DEF StoreInv, HeldInv, StepInv, Past
<1>3. CodeInv  BY DEF CodeInv
<1>4. CookieInv  BY DEF CookieInv, SessionFromOwnLogin
<1> QED  BY <1>1, <1>2, <1>3, <1>4 DEF Inv

(* Types are kept by every step. *)
LEMMA TypeStep == Typed /\ StepInv /\ CodeInv /\ CookieInv /\ [Next]_vars => Typed'
<1> SUFFICES ASSUME Typed, StepInv, CodeInv, CookieInv, [Next]_vars PROVE Typed'
    OBVIOUS
<1> USE LoginAssumption DEF Typed, Steps, Flow
<1>1. CASE UNCHANGED vars  BY <1>1 DEF vars, cookies, iam, request
<1>2. ASSUME NEW l \in Logins, NEW b \in Browsers, BeginLogin(l, b) PROVE Typed'
    BY <1>2 DEF BeginLogin, PutFlow, FlowExpired, cookies, iam, request
<1>3. ASSUME NEW l \in Logins, LoginReply(l) PROVE Typed'
    BY <1>3 DEF LoginReply, request
<1>4. ASSUME NEW l \in Logins, NEW k \in Codes, IamAnswers(l, k) PROVE Typed'
    BY <1>4 DEF IamAnswers, cookies, request
<1>5. ASSUME NEW c \in Callbacks, NEW b \in Browsers, NEW a \in Answer, Submit(c, b, a)
      PROVE Typed'
    BY <1>5 DEF Submit, cookies, iam
<1>6. ASSUME NEW c \in Callbacks, Consume(c) PROVE Typed'
    BY <1>6 DEF Consume, ConsumeFlow, GoTo, cookies, iam
<1>7. ASSUME NEW c \in Callbacks, Check(c) PROVE Typed'
    BY <1>7 DEF Check, GoTo, cookies, iam
<1>8. ASSUME NEW c \in Callbacks, Exchange(c) PROVE Typed'
    BY <1>8 DEF Exchange, CodeInv, Answer, GoTo, cookies, iam
<1>9. ASSUME NEW c \in Callbacks, Verify(c) PROVE Typed'
    BY <1>9 DEF Verify, GoTo, cookies, iam
<1>10. ASSUME NEW c \in Callbacks, Create(c) PROVE Typed'
    BY <1>10 DEF Create, GoTo, cookies, iam
<1>11. ASSUME NEW c \in Callbacks, GiveUp(c) PROVE Typed'
    BY <1>11 DEF GiveUp, GoTo, cookies, iam
<1>12. ASSUME NEW c \in Callbacks, CallbackReply(c) PROVE Typed'
    BY <1>12 DEF CallbackReply, CookieInv, GoTo, iam
<1>13. CASE ClockTick  BY <1>13 DEF ClockTick, Tick, cookies, iam, request
<1> QED
    BY <1>1, <1>2, <1>3, <1>4, <1>5, <1>6, <1>7, <1>8, <1>9, <1>10, <1>11, <1>12, <1>13
    DEF Next

(* A flow enters the store with its login only. *)
LEMMA StoreStep == Inv /\ [Next]_vars => StoreInv'
<1> SUFFICES ASSUME Inv, [Next]_vars PROVE StoreInv'
    OBVIOUS
<1> USE LoginAssumption DEF Inv, Typed, StoreInv, CookieInv
<1>1. CASE UNCHANGED vars  BY <1>1 DEF vars, cookies, iam, request
<1>2. ASSUME NEW l \in Logins, NEW b \in Browsers, BeginLogin(l, b)
      PROVE StoreInv'
    BY <1>2 DEF BeginLogin, PutFlow, FlowExpired, Taken, cookies, iam, request
<1>3. ASSUME NEW l \in Logins, LoginReply(l)
      PROVE StoreInv'
    BY <1>3 DEF LoginReply, request
<1>4. ASSUME NEW l \in Logins, NEW k \in Codes, IamAnswers(l, k)
      PROVE StoreInv'
    BY <1>4 DEF IamAnswers, cookies, request
<1>5. ASSUME NEW c \in Callbacks, NEW b \in Browsers, NEW a \in Answer, Submit(c, b, a)
      PROVE StoreInv'
    BY <1>5 DEF Submit, cookies, iam
<1>6. ASSUME NEW c \in Callbacks, Consume(c)
      PROVE StoreInv'
    BY <1>6 DEF Consume, ConsumeFlow, GoTo, cookies, iam
<1>7. ASSUME NEW c \in Callbacks, Check(c)
      PROVE StoreInv'
    BY <1>7 DEF Check, GoTo, cookies, iam
<1>8. ASSUME NEW c \in Callbacks, Exchange(c)
      PROVE StoreInv'
    BY <1>8 DEF Exchange, GoTo, cookies, iam
<1>9. ASSUME NEW c \in Callbacks, Verify(c)
      PROVE StoreInv'
    BY <1>9 DEF Verify, GoTo, cookies, iam
<1>10. ASSUME NEW c \in Callbacks, Create(c)
      PROVE StoreInv'
    BY <1>10 DEF Create, GoTo, cookies, iam
<1>11. ASSUME NEW c \in Callbacks, GiveUp(c)
      PROVE StoreInv'
    BY <1>11 DEF GiveUp, GoTo, cookies, iam
<1>12. ASSUME NEW c \in Callbacks, CallbackReply(c)
      PROVE StoreInv'
    BY <1>12 DEF CallbackReply, GoTo, iam
<1>13. CASE ClockTick  BY <1>13 DEF ClockTick, Tick, cookies, iam, request
<1> QED
    BY <1>1, <1>2, <1>3, <1>4, <1>5, <1>6, <1>7, <1>8, <1>9,
       <1>10, <1>11, <1>12, <1>13
    DEF Next

(* A flow is consumed once. *)
LEMMA HeldStep == Inv /\ [Next]_vars => HeldInv'
<1> SUFFICES ASSUME Inv, [Next]_vars PROVE HeldInv'
    OBVIOUS
<1> USE LoginAssumption DEF Inv, Typed, HeldInv, StoreInv, StepInv, CookieInv, Past
<1>1. CASE UNCHANGED vars  BY <1>1 DEF vars, cookies, iam, request
<1>2. ASSUME NEW l \in Logins, NEW b \in Browsers, BeginLogin(l, b)
      PROVE HeldInv'
    BY <1>2 DEF BeginLogin, PutFlow, FlowExpired, Taken, cookies, iam, request
<1>3. ASSUME NEW l \in Logins, LoginReply(l)
      PROVE HeldInv'
    BY <1>3 DEF LoginReply, request
<1>4. ASSUME NEW l \in Logins, NEW k \in Codes, IamAnswers(l, k)
      PROVE HeldInv'
    BY <1>4 DEF IamAnswers, cookies, request
<1>5. ASSUME NEW c \in Callbacks, NEW b \in Browsers, NEW a \in Answer, Submit(c, b, a)
      PROVE HeldInv'
    BY <1>5 DEF Submit, cookies, iam
<1>6. ASSUME NEW c \in Callbacks, Consume(c)
      PROVE HeldInv'
    BY <1>6 DEF Consume, ConsumeFlow, GoTo, cookies, iam
<1>7. ASSUME NEW c \in Callbacks, Check(c)
      PROVE HeldInv'
    BY <1>7 DEF Check, GoTo, cookies, iam
<1>8. ASSUME NEW c \in Callbacks, Exchange(c)
      PROVE HeldInv'
    BY <1>8 DEF Exchange, GoTo, cookies, iam
<1>9. ASSUME NEW c \in Callbacks, Verify(c)
      PROVE HeldInv'
    BY <1>9 DEF Verify, GoTo, cookies, iam
<1>10. ASSUME NEW c \in Callbacks, Create(c)
      PROVE HeldInv'
    BY <1>10 DEF Create, GoTo, cookies, iam
<1>11. ASSUME NEW c \in Callbacks, GiveUp(c)
      PROVE HeldInv'
    BY <1>11 DEF GiveUp, GoTo, cookies, iam
<1>12. ASSUME NEW c \in Callbacks, CallbackReply(c)
      PROVE HeldInv'
    BY <1>12 DEF CallbackReply, GoTo, iam
<1>13. CASE ClockTick  BY <1>13 DEF ClockTick, Tick, cookies, iam, request
<1> QED
    BY <1>1, <1>2, <1>3, <1>4, <1>5, <1>6, <1>7, <1>8, <1>9,
       <1>10, <1>11, <1>12, <1>13
    DEF Next

(* A callback that got past the backend holds a flow. *)
LEMMA StepStep == Inv /\ [Next]_vars => StepInv'
<1> SUFFICES ASSUME Inv, [Next]_vars PROVE StepInv'
    OBVIOUS
<1> USE LoginAssumption DEF Inv, Typed, StepInv, Past
<1>1. CASE UNCHANGED vars  BY <1>1 DEF vars, cookies, iam, request
<1>2. ASSUME NEW l \in Logins, NEW b \in Browsers, BeginLogin(l, b)
      PROVE StepInv'
    BY <1>2 DEF BeginLogin, PutFlow, FlowExpired, Taken, cookies, iam, request
<1>3. ASSUME NEW l \in Logins, LoginReply(l)
      PROVE StepInv'
    BY <1>3 DEF LoginReply, request
<1>4. ASSUME NEW l \in Logins, NEW k \in Codes, IamAnswers(l, k)
      PROVE StepInv'
    BY <1>4 DEF IamAnswers, cookies, request
<1>5. ASSUME NEW c \in Callbacks, NEW b \in Browsers, NEW a \in Answer, Submit(c, b, a)
      PROVE StepInv'
    BY <1>5 DEF Submit, cookies, iam
<1>6. ASSUME NEW c \in Callbacks, Consume(c)
      PROVE StepInv'
    BY <1>6 DEF Consume, ConsumeFlow, GoTo, cookies, iam
<1>7. ASSUME NEW c \in Callbacks, Check(c)
      PROVE StepInv'
    BY <1>7 DEF Check, GoTo, cookies, iam
<1>8. ASSUME NEW c \in Callbacks, Exchange(c)
      PROVE StepInv'
    BY <1>8 DEF Exchange, GoTo, cookies, iam
<1>9. ASSUME NEW c \in Callbacks, Verify(c)
      PROVE StepInv'
    BY <1>9 DEF Verify, GoTo, cookies, iam
<1>10. ASSUME NEW c \in Callbacks, Create(c)
      PROVE StepInv'
    BY <1>10 DEF Create, GoTo, cookies, iam
<1>11. ASSUME NEW c \in Callbacks, GiveUp(c)
      PROVE StepInv'
    BY <1>11 DEF GiveUp, GoTo, cookies, iam
<1>12. ASSUME NEW c \in Callbacks, CallbackReply(c)
      PROVE StepInv'
    BY <1>12 DEF CallbackReply, GoTo, iam
<1>13. CASE ClockTick  BY <1>13 DEF ClockTick, Tick, cookies, iam, request
<1> QED
    BY <1>1, <1>2, <1>3, <1>4, <1>5, <1>6, <1>7, <1>8, <1>9,
       <1>10, <1>11, <1>12, <1>13
    DEF Next

(* A code is tried by a callback that holds the code's flow. *)
LEMMA CodeStep == Inv /\ [Next]_vars => CodeInv'
<1> SUFFICES ASSUME Inv, [Next]_vars PROVE CodeInv'
    OBVIOUS
<1> USE LoginAssumption DEF Inv, Typed, CodeInv, StepInv, Past, Answer
<1>1. CASE UNCHANGED vars  BY <1>1 DEF vars, cookies, iam, request
<1>2. ASSUME NEW l \in Logins, NEW b \in Browsers, BeginLogin(l, b)
      PROVE CodeInv'
    BY <1>2 DEF BeginLogin, PutFlow, FlowExpired, Taken, cookies, iam, request
<1>3. ASSUME NEW l \in Logins, LoginReply(l)
      PROVE CodeInv'
    BY <1>3 DEF LoginReply, request
<1>4. ASSUME NEW l \in Logins, NEW k \in Codes, IamAnswers(l, k)
      PROVE CodeInv'
    <2>1. codeFor[k] = None /\ codeFor' = [codeFor EXCEPT ![k] = l] /\ UNCHANGED request
        BY <1>4 DEF IamAnswers
    <2>2. ASSUME NEW c \in Callbacks, query[c] # None, query[c].code # None
          PROVE codeFor'[query[c].code] = query[c].state
        <3>1. query[c].code \in Codes /\ query[c].state \in Logins  BY <2>2
        <3> QED  BY <2>1, <2>2, <3>1
    <2>3. ASSUME NEW c \in Callbacks, tried[c] # None
          PROVE codeFor'[tried[c]] = presented[c]
        <3>1. tried[c] \in Codes /\ presented[c] \in Logins  BY <2>3 DEF HeldInv
        <3> QED  BY <2>1, <2>3, <3>1
    <2> QED  BY <2>1, <2>2, <2>3 DEF request
<1>5. ASSUME NEW c \in Callbacks, NEW b \in Browsers, NEW a \in Answer, Submit(c, b, a)
      PROVE CodeInv'
    BY <1>5 DEF Submit, cookies, iam
<1>6. ASSUME NEW c \in Callbacks, Consume(c)
      PROVE CodeInv'
    BY <1>6 DEF Consume, ConsumeFlow, GoTo, cookies, iam
<1>7. ASSUME NEW c \in Callbacks, Check(c)
      PROVE CodeInv'
    BY <1>7 DEF Check, GoTo, cookies, iam
<1>8. ASSUME NEW c \in Callbacks, Exchange(c)
      PROVE CodeInv'
    BY <1>8 DEF Exchange, GoTo, cookies, iam
<1>9. ASSUME NEW c \in Callbacks, Verify(c)
      PROVE CodeInv'
    BY <1>9 DEF Verify, GoTo, cookies, iam
<1>10. ASSUME NEW c \in Callbacks, Create(c)
      PROVE CodeInv'
    BY <1>10 DEF Create, GoTo, cookies, iam
<1>11. ASSUME NEW c \in Callbacks, GiveUp(c)
      PROVE CodeInv'
    BY <1>11 DEF GiveUp, GoTo, cookies, iam
<1>12. ASSUME NEW c \in Callbacks, CallbackReply(c)
      PROVE CodeInv'
    BY <1>12 DEF CallbackReply, GoTo, iam
<1>13. CASE ClockTick  BY <1>13 DEF ClockTick, Tick, cookies, iam, request
<1> QED
    BY <1>1, <1>2, <1>3, <1>4, <1>5, <1>6, <1>7, <1>8, <1>9,
       <1>10, <1>11, <1>12, <1>13
    DEF Next

(* Cookies lead to what their browser has begun. *)
LEMMA CookieStep == Inv /\ [Next]_vars => CookieInv'
<1> SUFFICES ASSUME Inv, [Next]_vars PROVE CookieInv'
    OBVIOUS
<1> USE LoginAssumption DEF Inv, Typed, CookieInv, SessionFromOwnLogin, StepInv, HeldInv, Past
<1>1. CASE UNCHANGED vars  BY <1>1 DEF vars, cookies, iam, request
<1>2. ASSUME NEW l \in Logins, NEW b \in Browsers, BeginLogin(l, b)
      PROVE CookieInv'
    BY <1>2 DEF BeginLogin, PutFlow, FlowExpired, Taken, cookies, iam, request
<1>3. ASSUME NEW l \in Logins, LoginReply(l)
      PROVE CookieInv'
    BY <1>3 DEF LoginReply, request
<1>4. ASSUME NEW l \in Logins, NEW k \in Codes, IamAnswers(l, k)
      PROVE CookieInv'
    BY <1>4 DEF IamAnswers, cookies, request
<1>5. ASSUME NEW c \in Callbacks, NEW b \in Browsers, NEW a \in Answer, Submit(c, b, a)
      PROVE CookieInv'
    BY <1>5 DEF Submit, cookies, iam
<1>6. ASSUME NEW c \in Callbacks, Consume(c)
      PROVE CookieInv'
    BY <1>6 DEF Consume, ConsumeFlow, GoTo, cookies, iam
<1>7. ASSUME NEW c \in Callbacks, Check(c)
      PROVE CookieInv'
    BY <1>7 DEF Check, GoTo, cookies, iam
<1>8. ASSUME NEW c \in Callbacks, Exchange(c)
      PROVE CookieInv'
    BY <1>8 DEF Exchange, GoTo, cookies, iam
<1>9. ASSUME NEW c \in Callbacks, Verify(c)
      PROVE CookieInv'
    BY <1>9 DEF Verify, GoTo, cookies, iam
<1>10. ASSUME NEW c \in Callbacks, Create(c)
      PROVE CookieInv'
    BY <1>10 DEF Create, GoTo, cookies, iam
<1>11. ASSUME NEW c \in Callbacks, GiveUp(c)
      PROVE CookieInv'
    BY <1>11 DEF GiveUp, GoTo, cookies, iam
<1>12. ASSUME NEW c \in Callbacks, CallbackReply(c)
      PROVE CookieInv'
    BY <1>12 DEF CallbackReply, GoTo, iam
<1>13. CASE ClockTick  BY <1>13 DEF ClockTick, Tick, cookies, iam, request
<1> QED
    BY <1>1, <1>2, <1>3, <1>4, <1>5, <1>6, <1>7, <1>8, <1>9,
       <1>10, <1>11, <1>12, <1>13
    DEF Next

(* The invariant is inductive. *)
LEMMA InvStep == Inv /\ [Next]_vars => Inv'
BY TypeStep, StoreStep, HeldStep, StepStep, CodeStep, CookieStep DEF Inv

(* The invariant always holds. *)
THEOREM Invariance == Spec => []Inv
BY InitInv, InvStep, PTL DEF Spec

(***************************************************************************)
(* No interleaving of logins, callbacks and replies leaves LoginFlow's     *)
(* state malformed: a callback never goes on with a flow it did not get.   *)
(***************************************************************************)
THEOREM LoginTypeCorrect == Spec => []TypeOK
<1>1. Inv => TypeOK  BY DEF Inv, TypeOK, GoesOnWithFlow, StepInv, Past
<1> QED  BY <1>1, Invariance, PTL

(***************************************************************************)
(* One login makes at most one session (ConsumeFlow, completeCallback).    *)
(***************************************************************************)
THEOREM LoginsMakeOneSession == Spec => []OneSessionPerLogin
<1>1. Inv => OneSessionPerLogin
    BY DEF Inv, OneSessionPerLogin, StepInv, HeldInv
<1> QED  BY <1>1, Invariance, PTL

(***************************************************************************)
(* No code is sent to IAM twice: who sends it has consumed the flow of the *)
(* login that it was issued for.                                           *)
(***************************************************************************)
THEOREM CodesGoOnce == Spec => []CodeExchangedOnce
<1>1. Inv => CodeExchangedOnce
    BY DEF Inv, CodeExchangedOnce, CodeInv, HeldInv
<1> QED  BY <1>1, Invariance, PTL

(***************************************************************************)
(* A browser is signed in only by a login that it has begun itself.        *)
(***************************************************************************)
THEOREM SessionsStayHome == Spec => []SessionFromOwnLogin
<1>1. Inv => SessionFromOwnLogin  BY DEF Inv, CookieInv
<1> QED  BY <1>1, Invariance, PTL
=============================================================================
