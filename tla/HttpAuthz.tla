------------------------------ MODULE HttpAuthz ------------------------------
(***************************************************************************)
(* One request on its way through the authentication and authorization     *)
(* layers of runtime/httpauthz to the handler of its endpoint, on net/http *)
(* or on Gin.  A layer is Authenticate or Require of a route, in any       *)
(* order; each selects the credential anew, and each Require asks the      *)
(* policy decision point (PDP) of IAM.  Meanwhile the session's token is   *)
(* renewed or the session is logged out, IAM changes its mind or cannot be *)
(* reached, and the caller goes away.                                      *)
(*                                                                         *)
(* A credential is its source and, for a session, the number of the access *)
(* token that was read.  A decision is named by its place in the log of    *)
(* IAM.  Of a request only what the layers look at is told apart.          *)
(***************************************************************************)
EXTENDS Naturals, Sequences

CONSTANTS
    Routes,      \* the compiled manifest
    MaxChain,    \* bound on the layers of the endpoint
    MaxToken     \* bound on the access tokens of the session

VARIABLES
    config,      \* Service: on Gin, with API keys, with sessions
    bound,       \* Binder.bound
    chain,       \* the layers around the handler; <<>> while none is mounted
    input,       \* the request
    run,         \* where it is, and what the present layer has
    context,     \* the request context: AuthContext, its decision, the Decision
    out,         \* the decision ID header and the bodies written
    session,     \* the stored session: its token, and whether it is there
    canceled,    \* the context of the request has ended
    log,         \* IAM: the decisions it has made
    consulted    \* history: the sources that were verified, identified or resolved

setup == <<config, bound, chain>>
world == <<session, canceled>>
vars  == <<setup, input, run, context, out, world, log, consulted>>

ASSUME HttpAuthzAssumption ==
    /\ "authenticate" \notin Routes
    /\ MaxChain \in Nat \ {0} /\ MaxToken \in Nat \ {0}

Layers == Routes \cup {"authenticate"}
Sources == {"bearer", "api_key", "session"}
NoCredential == [source |-> "none", token |-> 0]
Credentials == [source: Sources, token: 0..MaxToken]

\* bad: several values, another scheme, a malformed token or key.
Inputs == [header: {"none", "bad", "bearer", "api_key"},
           cookie: {"none", "malformed", "session"},
           fits: SUBSET Routes]          \* the routes of the request's method

\* refresh_forbidden: a 403 as well, but of IAM's token endpoint.
Errors == {"protocol", "invalid_config", "refresh_forbidden", "credential_conflict", "unauthenticated", "forbidden",
           "iam_unavailable", "session_unavailable", "canceled"}

Decisions == [layer: 1..MaxChain, route: Routes, credential: Credentials,
              allowed: BOOLEAN, fitting: BOOLEAN]

Steps == {"idle", "enter", "select", "bearer", "api_key", "session", "bound",
          "decide", "asked", "answered", "decided", "returning", "looping", "done"}

\* 0 is no decision; Stale is a header that another middleware has left.
Ids == 0..MaxChain
Stale == MaxChain + 1

Typed ==
    /\ config \in [gin: BOOLEAN, keys: BOOLEAN, sessions: BOOLEAN]
    /\ bound \subseteq Routes
    /\ chain \in Seq(Layers) /\ Len(chain) <= MaxChain
    /\ input \in Inputs
    /\ run.pos \in 0..MaxChain + 2 /\ run.step \in Steps
    /\ run.credential \in Credentials \cup {NoCredential}
    /\ run.reply \in {"none", "decision", "status", "unreachable"}
    /\ run.step \in {"bound", "decide", "asked", "answered", "decided"} =>
           run.credential # NoCredential
    /\ context \in [credential: Credentials \cup {NoCredential}, authDecision: Ids, decision: Ids]
    /\ out.header \in Ids \cup {Stale} /\ out.bodies \in Seq(Errors \cup {"handled"})
    /\ session \in [token: 1..MaxToken, live: BOOLEAN] /\ canceled \in BOOLEAN
    /\ log \in Seq(Decisions)
    /\ consulted \subseteq Sources

\* The header and the context name decisions that have been made.
NamesMade ==
    /\ out.header \in 0..Len(log) \cup {Stale}
    /\ context.authDecision \in 0..Len(log) /\ context.decision \in 0..Len(log)

TypeOK == Typed /\ NamesMade

Init ==
    /\ config \in [gin: BOOLEAN, keys: BOOLEAN, sessions: BOOLEAN]
    /\ bound = {} /\ chain = <<>>
    /\ input \in Inputs
    /\ run = [pos |-> 0, step |-> "idle", credential |-> NoCredential, reply |-> "none"]
    /\ context = [credential |-> NoCredential, authDecision |-> 0, decision |-> 0]
    /\ out \in [header: {0, Stale}, bodies: {<<>>}]
    /\ session = [token |-> 1, live |-> TRUE] /\ canceled = FALSE
    /\ log = <<>> /\ consulted = {}

-----------------------------------------------------------------------------
\* The service starts: routes are bound, each once, and layers mounted.

unmounted == <<config, input, run, context, out, world, log, consulted>>

MountAuthenticate ==
    /\ run.step = "idle" /\ Len(chain) < MaxChain
    /\ chain' = Append(chain, "authenticate")
    /\ UNCHANGED <<bound, unmounted>>

\* Bind, then Require around the handler of this endpoint, or of another one.
Mount(r) ==
    /\ run.step = "idle" /\ r \notin bound
    /\ bound' = bound \cup {r}
    /\ \/ Len(chain) < MaxChain /\ chain' = Append(chain, r)
       \/ chain' = chain
    /\ UNCHANGED unmounted

\* Binder.Validate, and the request arrives.
Arrive ==
    /\ run.step = "idle" /\ bound = Routes
    /\ chain # <<>>
    /\ run' = [run EXCEPT !.pos = 1, !.step = "enter"]
    /\ UNCHANGED <<setup, input, context, out, world, log, consulted>>

-----------------------------------------------------------------------------
Layer == chain[run.pos]
IsRequire == Layer \in Routes

Go(s) == run' = [run EXCEPT !.step = s]

\* The responder writes, and the layer returns to its caller.
Refuse(e, header) ==
    /\ out' = [header |-> header, bodies |-> Append(out.bodies, e)]
    /\ Go("returning")

\* next.ServeHTTP: the next layer, or the handler, which writes and returns.
PassOn(header) ==
    LET next == run.pos + 1
    IN  IF next <= Len(chain)
        THEN /\ run' = [run EXCEPT !.pos = next, !.step = "enter", !.credential = NoCredential]
             /\ out' = [out EXCEPT !.header = header]
        ELSE /\ run' = [run EXCEPT !.pos = next, !.step = "returning"]
             /\ out' = [header |-> header, bodies |-> Append(out.bodies, "handled")]

\* Slip: the decision header is left to whoever sets the next one.
EnterUncleared ==
    /\ run.step = "enter"
    /\ IF IsRequire /\ Layer \notin input.fits
       THEN Refuse("protocol", out.header)
       ELSE Go("select") /\ out' = out
    /\ UNCHANGED <<setup, input, context, world, log, consulted>>

\* requireHandler, clearDecisionIDHeader and the method.
Enter ==
    /\ run.step = "enter"
    /\ LET header == IF IsRequire THEN 0 ELSE out.header
       IN  IF IsRequire /\ Layer \notin input.fits
           THEN Refuse("protocol", header)
           ELSE Go("select") /\ out' = [out EXCEPT !.header = header]
    /\ UNCHANGED <<setup, input, context, world, log, consulted>>

HeaderPresent == input.header # "none"
SessionPresent == config.sessions /\ input.cookie # "none"

Presented ==
    IF SessionPresent
    THEN IF HeaderPresent THEN "credential_conflict"
         ELSE IF input.cookie = "malformed" THEN "protocol" ELSE "session"
    ELSE IF input.header = "bearer" THEN "bearer"
         ELSE IF input.header = "api_key" /\ config.keys THEN "api_key"
         ELSE "unauthenticated"

\* Slip: who presents nothing goes on as nobody.
SelectAnonymous ==
    /\ run.step = "select"
    /\ IF Presented \in Sources THEN Go(Presented) /\ out' = out
       ELSE IF HeaderPresent \/ SessionPresent THEN Refuse(Presented, out.header)
       ELSE Go("bound") /\ out' = out
    /\ UNCHANGED <<setup, input, context, world, log, consulted>>

\* selectCredential up to the collaborator it calls.
Select ==
    /\ run.step = "select"
    /\ IF Presented \in Sources THEN Go(Presented) /\ out' = out
       ELSE Refuse(Presented, out.header)
    /\ UNCHANGED <<setup, input, context, world, log, consulted>>

\* requestWithCredential: a new AuthContext, which carries no decision yet.
BindCredential(token) ==
    LET credential == [source |-> run.step, token |-> token]
    IN  /\ run' = [run EXCEPT !.credential = credential, !.step = "bound"]
        /\ context' = [context EXCEPT !.credential = credential, !.authDecision = 0]
        /\ out' = out

Consult == consulted' = consulted \cup {run.step}

Canceled == IF canceled THEN {"canceled"} ELSE {}

\* Slip: a bearer token that fails gives way to the session.
VerifyBearerOrSession ==
    /\ run.step = "bearer"
    /\ Consult
    /\ \/ BindCredential(0)
       \/ \E e \in {"unauthenticated", "iam_unavailable"} \cup Canceled :
              (IF e = "unauthenticated" THEN Go("session") /\ out' = out
               ELSE Refuse(e, out.header)) /\ context' = context
    /\ UNCHANGED <<setup, input, world, log>>

\* VerifyAccessToken and validVerifiedAuthContext.
VerifyBearer ==
    /\ run.step = "bearer"
    /\ Consult
    /\ \/ BindCredential(0)
       \/ \E e \in {"unauthenticated", "iam_unavailable"} \cup Canceled :
              Refuse(e, out.header) /\ context' = context
    /\ UNCHANGED <<setup, input, world, log>>

\* AuthenticateAPIKey, online: an identity that has arrived counts even when
\* the caller has gone since.
IdentifyKey ==
    /\ run.step = "api_key"
    /\ Consult
    /\ \/ BindCredential(0)
       \/ \E e \in {"unauthenticated", "iam_unavailable", "protocol"} \cup Canceled :
              Refuse(e, out.header) /\ context' = context
    /\ UNCHANGED <<setup, input, world, log>>

\* What a session may fail with, alive or not: its refresh is refused, answered
\* with nonsense, or has no client secret to go with; and the provider of the
\* secret may speak of a cancellation of its own.
SessionErrors == {"session_unavailable", "iam_unavailable", "unauthenticated", "protocol",
                  "invalid_config", "refresh_forbidden", "canceled"}

\* ResolveSession: the access token is captured as it is stored now.
ResolveSession ==
    /\ run.step = "session"
    /\ Consult
    /\ \/ ~canceled /\ session.live /\ BindCredential(session.token)
       \/ \E e \in SessionErrors : Refuse(e, out.header) /\ context' = context
    /\ UNCHANGED <<setup, input, world, log>>

\* Authenticate has all it wants; Require goes on to the decision.
Bound ==
    /\ run.step = "bound"
    /\ IF IsRequire THEN Go("decide") /\ out' = out ELSE PassOn(out.header)
    /\ UNCHANGED <<setup, input, context, world, log, consulted>>

-----------------------------------------------------------------------------
\* The decision.

\* Slip: the session is asked for its token once more.
AskRenewed ==
    /\ run.step = "decide" /\ run.credential.source # "api_key"
    /\ IF canceled THEN Refuse("canceled", out.header)
       ELSE /\ run' = [run EXCEPT !.step = "asked",
                         !.credential.token = IF @ = 0 THEN 0 ELSE session.token]
            /\ out' = out
    /\ UNCHANGED <<setup, input, context, world, log, consulted>>

\* sendDecision up to the request, which nobody sends who has been canceled.
SendDecision ==
    IF canceled THEN Refuse("canceled", out.header) ELSE Go("asked") /\ out' = out

\* Decide, with the token that was captured when the credential was bound.
Ask ==
    /\ run.step = "decide" /\ run.credential.source # "api_key"
    /\ SendDecision
    /\ UNCHANGED <<setup, input, context, world, log, consulted>>

\* DecideAPIKey and readAPIKey, with the key itself.
AskByKey ==
    /\ run.step = "decide" /\ run.credential.source = "api_key"
    /\ SendDecision
    /\ UNCHANGED <<setup, input, context, world, log, consulted>>

\* IAM decides about what it is asked, maybe by a route of another action.
IamDecides ==
    /\ run.step = "asked"
    /\ \E allowed, fitting \in BOOLEAN :
           log' = Append(log, [layer |-> run.pos, route |-> Layer,
                               credential |-> run.credential,
                               allowed |-> allowed, fitting |-> fitting])
    /\ run' = [run EXCEPT !.step = "answered", !.reply = "decision"]
    /\ UNCHANGED <<setup, input, context, out, world, consulted>>

\* It answers with another status, or cannot be reached in time.
IamFails ==
    /\ run.step = "asked"
    /\ \E reply \in {"status", "unreachable"} :
           run' = [run EXCEPT !.step = "answered", !.reply = reply]
    /\ UNCHANGED <<setup, input, context, out, world, log, consulted>>

Decision == log[Len(log)]

\* Slip: no timeout, so what cannot be reached is waited for.
ReceiveUntimed ==
    /\ run.step = "answered"
    /\ \/ /\ run.reply = "decision" /\ ~canceled
          /\ Decision.allowed => Decision.fitting
          /\ run' = [run EXCEPT !.step = "decided", !.reply = "none"] /\ out' = out
       \/ /\ run.reply = "status"
          /\ \E e \in {"unauthenticated", "iam_unavailable", "protocol"} : Refuse(e, out.header)
       \/ /\ run.reply # "status" /\ canceled /\ Refuse("canceled", out.header)
    /\ UNCHANGED <<setup, input, context, world, log, consulted>>

\* sendDecision on the answer: the status first, then the contexts, then the
\* body, its form and the action.  An answer that has been decided may still
\* be cut off, or be unreadable.
Receive ==
    /\ run.step = "answered"
    /\ \/ /\ run.reply = "decision" /\ ~canceled
          /\ Decision.allowed => Decision.fitting
          /\ run' = [run EXCEPT !.step = "decided", !.reply = "none"] /\ out' = out
       \/ /\ run.reply = "decision" /\ ~canceled
          /\ \E e \in {"iam_unavailable", "protocol"} : Refuse(e, out.header)
       \/ /\ run.reply = "status"
          /\ \E e \in {"unauthenticated", "iam_unavailable", "protocol"} : Refuse(e, out.header)
       \/ /\ run.reply = "unreachable" /\ ~canceled /\ Refuse("iam_unavailable", out.header)
       \/ /\ run.reply # "status" /\ canceled /\ Refuse("canceled", out.header)
    /\ UNCHANGED <<setup, input, context, world, log, consulted>>

\* requestWithDecision, the header, and the verdict: the body of a refusal
\* comes after the header is set, and a next layer may clear it.
Conclude ==
    /\ run.step = "decided"
    /\ context' = [context EXCEPT !.authDecision = Len(log), !.decision = Len(log)]
    /\ IF Decision.allowed THEN PassOn(Len(log)) ELSE Refuse("forbidden", Len(log))
    /\ UNCHANGED <<setup, input, world, log, consulted>>

-----------------------------------------------------------------------------
\* The way back.

\* On net/http a layer that does not call the next one has the last word.
Return ==
    /\ run.step = "returning" /\ ~config.gin
    /\ Go("done")
    /\ UNCHANGED <<setup, input, context, out, world, log, consulted>>

\* gin.Context.Abort: the index leaps past every handler.
Aborted == MaxChain + 2

\* Slip: a layer that was refused simply returns.
BridgeUnaborted ==
    /\ run.step = "returning" /\ config.gin
    /\ Go("looping")
    /\ UNCHANGED <<setup, input, context, out, world, log, consulted>>

\* bridge: run.pos is Gin's index.  The layers that were passed have called
\* Next, in whose loop this happens; the one that refused has not.
Bridge ==
    /\ run.step = "returning" /\ config.gin
    /\ run' = [run EXCEPT !.step = "looping",
                          !.pos = IF @ <= Len(chain) THEN Aborted ELSE @]
    /\ UNCHANGED <<setup, input, context, out, world, log, consulted>>

\* gin.Context.Next: it runs what is left.
GinLoop ==
    /\ run.step = "looping"
    /\ IF run.pos <= Len(chain) THEN PassOn(out.header) ELSE Go("done") /\ out' = out
    /\ UNCHANGED <<setup, input, context, world, log, consulted>>

-----------------------------------------------------------------------------
\* The others.

Underway == run.step \notin {"idle", "done"}

\* Another request of the same session refreshes it.
Renew ==
    /\ Underway /\ session.live /\ session.token < MaxToken
    /\ session' = [session EXCEPT !.token = @ + 1]
    /\ UNCHANGED <<setup, input, run, context, out, canceled, log, consulted>>

\* It is logged out, or it expires.
End ==
    /\ Underway /\ session.live
    /\ session' = [session EXCEPT !.live = FALSE]
    /\ UNCHANGED <<setup, input, run, context, out, canceled, log, consulted>>

Cancel ==
    /\ Underway /\ ~canceled
    /\ canceled' = TRUE
    /\ UNCHANGED <<setup, input, run, context, out, session, log, consulted>>

-----------------------------------------------------------------------------
Serving ==
    \/ Enter \/ Select
    \/ VerifyBearer \/ IdentifyKey \/ ResolveSession
    \/ Bound \/ Ask \/ AskByKey \/ IamDecides \/ IamFails \/ Receive \/ Conclude
    \/ Return \/ Bridge \/ GinLoop

Next ==
    \/ MountAuthenticate \/ \E r \in Routes : Mount(r)
    \/ Arrive
    \/ Serving
    \/ Renew \/ End \/ Cancel

Spec == Init /\ [][Next]_vars

(* The goroutine of the request runs; the verifier, the session resolver    *)
(* and both calls of IAM are bounded by timeouts of their own.              *)
FairSpec == Spec /\ WF_vars(Serving)

-----------------------------------------------------------------------------
Handled == \E i \in DOMAIN out.bodies : out.bodies[i] = "handled"

DecisionsOf(i) == {j \in DOMAIN log : log[j].layer = i}

(***************************************************************************)
(* When the handler has run, every Require around it has had exactly one   *)
(* decision of IAM, which allows this route by the action it declares, for *)
(* a credential of the kind the request presented; and the decision that   *)
(* the innermost layer left in the context was made for the very           *)
(* credential it bound there, whatever became of the session meanwhile.    *)
(***************************************************************************)
HandlerIsAuthorized ==
    Handled =>
        /\ \A i \in DOMAIN chain : chain[i] \in Routes =>
              \E j \in DOMAIN log :
                  /\ DecisionsOf(i) = {j}
                  /\ log[j].route = chain[i] /\ log[j].allowed /\ log[j].fitting
                  /\ log[j].credential.source = Presented
        /\ chain[Len(chain)] \in Routes =>
              /\ context.decision = Len(log) /\ context.authDecision = Len(log)
              /\ Decision.credential = context.credential

(***************************************************************************)
(* One credential or none: a request with both a header and a session      *)
(* cookie, or with a malformed one, has none of them looked at and asks    *)
(* IAM nothing, and a header that fails never gives way to the session, in *)
(* any layer.                                                              *)
(***************************************************************************)
NoFallback ==
    /\ consulted \subseteq {Presented} \cap Sources
    /\ \A j \in DOMAIN log : log[j].credential.source \in consulted

(***************************************************************************)
(* One request has one answer, and its decision header tells the truth     *)
(* about it: with a refusal of a Require that is no decision of IAM it     *)
(* names none, not even one left by an earlier layer; with a denial, and   *)
(* behind an innermost Require, it names the last decision of IAM, which   *)
(* says just that.                                                         *)
(***************************************************************************)
AnswerTellsDecision ==
    run.step \in {"returning", "looping", "done"} =>
        /\ Len(out.bodies) = 1
        /\ out.bodies[1] = "forbidden" =>
              out.header = Len(log) /\ ~Decision.allowed /\ context.decision = Len(log)
        /\ out.bodies[1] = "handled" /\ chain[Len(chain)] \in Routes =>
              out.header = Len(log) /\ Decision.allowed
        /\ run.step = "returning" /\ run.pos <= Len(chain) /\ IsRequire
              /\ out.bodies[1] # "forbidden" => out.header = 0

(***************************************************************************)
(* Every request that has arrived is answered, however the verifier, the   *)
(* session store, IAM and the caller behave.                               *)
(***************************************************************************)
RequestIsAnswered == run.step = "enter" ~> run.step = "done"
=============================================================================
