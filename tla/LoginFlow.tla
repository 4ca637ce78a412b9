------------------------------ MODULE LoginFlow ------------------------------
(***************************************************************************)
(* Signing in, in runtime/bff: LoginHandler leaves a flow in the backend   *)
(* and its identifier in a cookie, IAM sends the browser back with a code, *)
(* and CallbackHandler consumes the flow, has the code exchanged and       *)
(* creates the session.  Browsers open several tabs, repeat callbacks, and *)
(* apply the cookies of replies in the order in which these arrive, if     *)
(* they arrive.                                                            *)
(*                                                                         *)
(* A login draws the flow's identifier, its state, its nonce and its PKCE  *)
(* verifier at random, together and never again: the login stands for all  *)
(* four.  A session is named after the callback that created it.           *)
(***************************************************************************)
EXTENDS Integers

CONSTANTS
    Browsers,
    Logins,      \* requests to LoginHandler
    Callbacks,   \* requests to CallbackHandler
    Codes,       \* authorization codes that IAM may issue
    None,        \* no value of a variable below
    NoFlow, Horizon,
    FlowTTL      \* Config.FlowTTL

VARIABLES
    now, flows,     \* the backend
    asked,          \* logins whose redirect has taken the browser to IAM
    browserOf,      \* login -> the browser that made it, once it is made
    flowCookie,     \* browser -> the flow its cookie names
    sessionCookie,  \* browser -> the session its cookie names
    codeFor,        \* code -> the login it was issued for
    pc,             \* where each callback is
    from,           \* callback -> the browser it came from
    presented,      \* callback -> the flow cookie it came with
    query,          \* callback -> the state and code in its URL
    held,           \* callback -> the flow it has consumed
    session,        \* callback -> the login that the session it created is for
    tried           \* history: callback -> the code it has sent to IAM

INSTANCE FlowStore WITH FlowIds <- Logins

cookies  == <<flowCookie, sessionCookie>>
iam      == <<asked, codeFor>>
request  == <<pc, from, presented, query, held, session, tried>>
vars     == <<now, flows, browserOf, cookies, iam, request>>

ASSUME LoginAssumption ==
    /\ Horizon \in Nat /\ FlowTTL \in Nat \ {0}
    /\ None \notin Browsers \cup Logins \cup Callbacks \cup Codes
    /\ None \notin Flow \cup [state: Logins, code: Codes \cup {None}]
    /\ NoFlow \notin Flow \cup {None}

\* What IAM puts in the URL it sends a browser back to; no code is an error.
Answer == [state: Logins, code: Codes \cup {None}]

Steps == {"idle", "consume", "check", "exchange", "verify", "create", "reply", "done"}

Typed ==
    /\ now \in 0..Horizon
    /\ flows \in [Logins -> Flow \cup {NoFlow}]
    /\ asked \subseteq Logins
    /\ browserOf \in [Logins -> Browsers \cup {None}]
    /\ flowCookie \in [Browsers -> Logins \cup {None}]
    /\ sessionCookie \in [Browsers -> Callbacks \cup {None}]
    /\ codeFor \in [Codes -> Logins \cup {None}]
    /\ pc \in [Callbacks -> Steps]
    /\ from \in [Callbacks -> Browsers \cup {None}]
    /\ presented \in [Callbacks -> Logins \cup {None}]
    /\ query \in [Callbacks -> Answer \cup {None}]
    /\ held \in [Callbacks -> Flow \cup {None}]
    /\ session \in [Callbacks -> Logins \cup {None}]
    /\ tried \in [Callbacks -> Codes \cup {None}]

\* A callback goes on only with a flow that it has been given.
GoesOnWithFlow ==
    \A c \in Callbacks : pc[c] \in {"check", "exchange", "verify", "create"} => held[c] # None

TypeOK == Typed /\ GoesOnWithFlow

Init ==
    /\ now = 0
    /\ flows = [l \in Logins |-> NoFlow]
    /\ asked = {}
    /\ browserOf = [l \in Logins |-> None]
    /\ flowCookie = [b \in Browsers |-> None]
    /\ sessionCookie = [b \in Browsers |-> None]
    /\ codeFor = [k \in Codes |-> None]
    /\ pc = [c \in Callbacks |-> "idle"]
    /\ from = [c \in Callbacks |-> None]
    /\ presented = [c \in Callbacks |-> None]
    /\ query = [c \in Callbacks |-> None]
    /\ held = [c \in Callbacks |-> None]
    /\ session = [c \in Callbacks |-> None]
    /\ tried = [c \in Callbacks |-> None]

-----------------------------------------------------------------------------
\* beginLogin.

BeginLogin(l, b) ==
    /\ browserOf[l] = None
    /\ PutFlow(l, [expiresAt |-> now + FlowTTL], "ok")
    /\ browserOf' = [browserOf EXCEPT ![l] = b]
    /\ UNCHANGED <<now, cookies, iam, request>>

\* The redirect arrives.  It sets the one flow cookie that all tabs share.
LoginReply(l) ==
    /\ browserOf[l] # None /\ l \notin asked
    /\ flowCookie' = [flowCookie EXCEPT ![browserOf[l]] = l]
    /\ asked' = asked \cup {l}
    /\ UNCHANGED <<now, flows, browserOf, sessionCookie, codeFor, request>>

\* The user signs in.  Going back and signing in again gives another code.
IamAnswers(l, code) ==
    /\ l \in asked
    /\ codeFor[code] = None
    /\ codeFor' = [codeFor EXCEPT ![code] = l]
    /\ UNCHANGED <<now, flows, browserOf, cookies, asked, request>>

-----------------------------------------------------------------------------
\* completeCallback.

\* The browser follows IAM's redirect, again perhaps, or one it was sent.
Submit(c, b, answer) ==
    /\ pc[c] = "idle"
    /\ IF answer.code = None THEN answer.state \in asked
                             ELSE codeFor[answer.code] = answer.state
    /\ pc' = [pc EXCEPT ![c] = "consume"]
    /\ from' = [from EXCEPT ![c] = b]
    /\ presented' = [presented EXCEPT ![c] = flowCookie[b]]
    /\ query' = [query EXCEPT ![c] = answer]
    /\ UNCHANGED <<now, flows, browserOf, cookies, iam, held, session, tried>>

GoTo(c, step) == pc' = [pc EXCEPT ![c] = step]

\* Slip: the flow is looked up by the state in the URL.
ConsumeByState(c) ==
    /\ pc[c] = "consume"
    /\ presented' = [presented EXCEPT ![c] = query[c].state]
    /\ \E res \in {"ok", "NotFound", "Expired"} :
        /\ ConsumeFlow(query[c].state, res)
        /\ GoTo(c, IF res = "ok" THEN "check" ELSE "reply")
        /\ held' = IF res = "ok" THEN [held EXCEPT ![c] = flows[query[c].state]] ELSE held
    /\ UNCHANGED <<now, browserOf, cookies, iam, from, query, session, tried>>

\* The flow is consumed before anything in the URL is looked at.
Consume(c) ==
    /\ pc[c] = "consume"
    /\ \/ /\ presented[c] = None
          /\ GoTo(c, "reply")
          /\ UNCHANGED <<flows, held>>
       \/ /\ presented[c] # None
          /\ ConsumeFlow(presented[c], "ok")
          /\ held' = [held EXCEPT ![c] = flows[presented[c]]]
          /\ GoTo(c, "check")
       \/ /\ presented[c] # None
          /\ ConsumeFlow(presented[c], "NotFound") \/ ConsumeFlow(presented[c], "Expired")
          /\ GoTo(c, "reply")
          /\ UNCHANGED held
    /\ UNCHANGED <<now, browserOf, cookies, iam, from, presented, query, session, tried>>

\* Slip: the state is not compared.
CheckNoState(c) ==
    /\ pc[c] = "check"
    /\ GoTo(c, IF ~FlowExpired(held[c]) /\ query[c].code # None THEN "exchange" ELSE "reply")
    /\ UNCHANGED <<now, flows, browserOf, cookies, iam, from, presented, query, held, session, tried>>

\* validConsumedFlow, the state, and what IAM has answered.
Check(c) ==
    /\ pc[c] = "check"
    /\ GoTo(c, IF /\ ~FlowExpired(held[c])
                  /\ query[c].state = presented[c]
                  /\ query[c].code # None
               THEN "exchange" ELSE "reply")
    /\ UNCHANGED <<now, flows, browserOf, cookies, iam, from, presented, query, held, session, tried>>

\* IAM accepts a code only with the verifier of the login it is for, and may
\* refuse it even so: codes expire.  A lost answer is a refusal.  That a code is
\* good for one exchange is not relied upon.
Exchange(c) ==
    /\ pc[c] = "exchange"
    /\ tried' = [tried EXCEPT ![c] = query[c].code]
    /\ \/ /\ codeFor[query[c].code] = presented[c]
          /\ GoTo(c, "verify")
       \/ GoTo(c, "reply")
    /\ UNCHANGED <<now, flows, browserOf, cookies, iam, from, presented, query, held, session>>

\* Both tokens and UserInfo, scopes and groups: accepted together.
Verify(c) ==
    /\ pc[c] = "verify"
    /\ GoTo(c, "create")
    /\ UNCHANGED <<now, flows, browserOf, cookies, iam, from, presented, query, held, session, tried>>

Create(c) ==
    /\ pc[c] = "create"
    /\ session' = [session EXCEPT ![c] = presented[c]]
    /\ GoTo(c, "reply")
    /\ UNCHANGED <<now, flows, browserOf, cookies, iam, from, presented, query, held, tried>>

\* The request is canceled, a check fails, or the backend cannot be reached.
GiveUp(c) ==
    /\ pc[c] \in {"consume", "exchange", "verify", "create"}
    /\ GoTo(c, "reply")
    /\ UNCHANGED <<now, flows, browserOf, cookies, iam, from, presented, query, held, session, tried>>

\* Whatever the outcome, the reply clears the flow cookie.
CallbackReply(c) ==
    /\ pc[c] = "reply"
    /\ flowCookie' = [flowCookie EXCEPT ![from[c]] = None]
    /\ sessionCookie' = IF session[c] = None THEN sessionCookie
                        ELSE [sessionCookie EXCEPT ![from[c]] = c]
    /\ GoTo(c, "done")
    /\ UNCHANGED <<now, flows, browserOf, iam, from, presented, query, held, session, tried>>

ClockTick ==
    /\ Tick
    /\ UNCHANGED <<browserOf, cookies, iam, request>>

-----------------------------------------------------------------------------
Next ==
    \/ \E l \in Logins : \/ \E b \in Browsers : BeginLogin(l, b)
                         \/ LoginReply(l)
                         \/ \E code \in Codes : IamAnswers(l, code)
    \/ \E c \in Callbacks : \/ \E b \in Browsers, answer \in Answer : Submit(c, b, answer)
                            \/ Consume(c) \/ Check(c) \/ Exchange(c) \/ Verify(c)
                            \/ Create(c) \/ GiveUp(c) \/ CallbackReply(c)
    \/ ClockTick

Spec == Init /\ [][Next]_vars

-----------------------------------------------------------------------------
(***************************************************************************)
(* One login makes at most one session, however often its callback is      *)
(* repeated, and even if IAM issues it several codes.                      *)
(***************************************************************************)
OneSessionPerLogin ==
    \A c, d \in Callbacks : session[c] # None /\ session[c] = session[d] => c = d

(***************************************************************************)
(* No code goes to IAM twice (which would have IAM revoke what it granted  *)
(* for it): not by repeated callbacks, not from two tabs, and not after a  *)
(* first exchange of unknown result.                                       *)
(***************************************************************************)
CodeExchangedOnce ==
    \A c, d \in Callbacks : tried[c] # None /\ tried[c] = tried[d] => c = d

(***************************************************************************)
(* The session that a browser's cookie names comes from a login that this  *)
(* very browser has begun, whichever callback it was led to follow and in  *)
(* whatever order replies set and cleared its cookies.                     *)
(***************************************************************************)
SessionFromOwnLogin ==
    \A b \in Browsers : sessionCookie[b] # None =>
        /\ session[sessionCookie[b]] # None
        /\ browserOf[session[sessionCookie[b]]] = b
=============================================================================
