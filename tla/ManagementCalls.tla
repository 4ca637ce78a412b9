--------------------------- MODULE ManagementCalls ---------------------------
(***************************************************************************)
(* Managers that change IAM through management/*.  The eight domain        *)
(* clients check their arguments and make one call of the transport; the   *)
(* transport takes one token, sends the request by net/http, and turns     *)
(* whatever comes back into success or one kind of error.  Requests and    *)
(* answers are lost or late: one that its caller has given up may still be *)
(* carried out.                                                            *)
(*                                                                         *)
(* An operation is what the transport and IAM tell apart: the method, what *)
(* guards it, whether it changes anything, and whether the caller expects  *)
(* data.  All that is guarded by a revision is one object of IAM.          *)
(***************************************************************************)
EXTENDS Naturals, FiniteSets

CONSTANTS
    Managers,   \* goroutines that call a domain client
    Keys,       \* the idempotency keys they make up
    MaxCalls,   \* bound on the calls
    MaxSends    \* bound on what net/http sends for one call

VARIABLES
    calls,      \* manager -> its present or last call
    begun,      \* the calls so far, which numbers them
    wire,       \* requests on their way to IAM
    revision,   \* IAM: the revision of the guarded object
    created,    \* IAM: the keys it has created a credential for
    applied     \* history: the requests that have changed IAM

iam  == <<revision, created, applied>>
vars == <<calls, begun, wire, iam>>

ASSUME ManagementAssumption ==
    MaxCalls \in Nat \ {0} /\ MaxSends \in Nat \ {0}

-----------------------------------------------------------------------------
\* The domain clients.

Op(method, guard, changes, out) ==
    [method |-> method, guard |-> guard, changes |-> changes, out |-> out]

Read  == Op("GET", "none", FALSE, TRUE)
Query == Op("POST", "none", FALSE, TRUE)     \* a preview or a batch read

Applications == {Read, Op("POST", "none", TRUE, TRUE), Op("PUT", "none", TRUE, TRUE),
                 Op("DELETE", "none", TRUE, FALSE)}
OidcClients == {Read, Op("POST", "none", TRUE, TRUE), Op("PUT", "positive", TRUE, TRUE),
                Op("POST", "key", TRUE, TRUE), Op("DELETE", "none", TRUE, FALSE)}
Policies == {Read, Query, Op("POST", "none", TRUE, TRUE), Op("PUT", "none", TRUE, TRUE)}
GroupMappings == {Read} \cup {Op(m, "revision", TRUE, TRUE) : m \in {"POST", "PUT", "DELETE"}}
Admission == {Read, Op("POST", "revision", TRUE, TRUE), Op("PUT", "revision", TRUE, TRUE),
              Op("DELETE", "positive", TRUE, TRUE)}
Catalog == {Read, Op("POST", "none", TRUE, TRUE), Op("PUT", "none", TRUE, TRUE),
            Op("POST", "none", TRUE, FALSE), Op("DELETE", "none", TRUE, FALSE)}
UserDirectory == {Read, Query}
NotificationContacts == {Query}

Operations == UNION {Applications, OidcClients, Policies, GroupMappings, Admission,
                     Catalog, UserDirectory, NotificationContacts}

Revisioned(op) == op.guard \in {"revision", "positive"}

-----------------------------------------------------------------------------
\* What the transport makes of an answer.

Statuses == {200, 400, 401, 403, 404, 409, 429, 500}
Kinds == {"ok", "invalid_argument", "unauthenticated", "forbidden", "not_found",
          "conflict", "rate_limited", "iam_unavailable", "protocol"}

\* Slip: the default is forgotten.
KindForKnownStatus(status) ==
    CASE status = 401 -> "unauthenticated" [] status = 403 -> "forbidden"
      [] status = 404 -> "not_found"       [] status = 409 -> "conflict"
      [] status = 429 -> "rate_limited"    [] OTHER -> ""

KindForStatus(status) ==
    CASE status = 401 -> "unauthenticated" [] status = 403 -> "forbidden"
      [] status = 404 -> "not_found"       [] status = 409 -> "conflict"
      [] status = 429 -> "rate_limited"    [] status >= 500 -> "iam_unavailable"
      [] OTHER -> "protocol"

\* decodeEnvelope.  code: a success that says it is none.  An envelope that
\* is none, or data that do not fit, make a protocol error of any status.
Outcome(answer, out) ==
    IF answer.body = "malformed" THEN "protocol"
    ELSE IF answer.status # 200 THEN KindForStatus(answer.status)
    ELSE IF answer.body = "code" \/ (answer.body = "null" /\ out) THEN "protocol"
    ELSE "ok"

Answers == [status: Statuses, body: {"data", "null", "code", "malformed"}]
NoAnswer == [status |-> 0, body |-> "null"]

Calls == [n: 1..MaxCalls, op: Operations, revision: Nat, key: Keys,
          step: {"token", "send", "waiting", "answered", "done"},
          sent: 0..MaxSends, answer: Answers \cup {NoAnswer}, kind: Kinds \cup {"none"}]
NoCall == [n |-> 0, step |-> "done", kind |-> "none"]

Requests == [n: 1..MaxCalls, copy: 1..MaxSends, op: Operations, revision: Nat, key: Keys]

TypeOK ==
    /\ calls \in [Managers -> Calls \cup {NoCall}]
    /\ begun \in 0..MaxCalls
    /\ wire \subseteq Requests /\ applied \subseteq [n: 1..MaxCalls, copy: 1..MaxSends]
    /\ revision \in 0..MaxCalls /\ created \subseteq Keys

Init ==
    /\ calls = [m \in Managers |-> NoCall]
    /\ begun = 0 /\ wire = {}
    /\ revision = 0 /\ created = {} /\ applied = {}

-----------------------------------------------------------------------------
\* A domain client, and Do.

Update(m, call) == calls' = [calls EXCEPT ![m] = call]

Finish(m, kind) ==
    Update(m, [calls[m] EXCEPT !.step = "done", !.kind = kind, !.answer = NoAnswer])

\* With a revision that the manager has read at some time, and good arguments.
Begin(m, op, r, k) ==
    /\ calls[m].step = "done" /\ begun < MaxCalls
    /\ begun' = begun + 1
    /\ LET call == [n |-> begun + 1, op |-> op, revision |-> r, key |-> k, step |-> "token",
                    sent |-> 0, answer |-> NoAnswer, kind |-> "none"]
       IN  IF op.guard = "positive" /\ r = 0
           THEN Update(m, [call EXCEPT !.step = "done", !.kind = "invalid_argument"])
           ELSE Update(m, call)
    /\ UNCHANGED <<wire, iam>>

\* Arguments are refused by the client, or by the transport.
RefuseArguments(m) ==
    /\ calls[m].step = "token"
    /\ Finish(m, "invalid_argument")
    /\ UNCHANGED <<begun, wire, iam>>

TakeToken(m) ==
    /\ calls[m].step = "token"
    /\ \/ Update(m, [calls[m] EXCEPT !.step = "send"])
       \/ Finish(m, "unauthenticated")
    /\ UNCHANGED <<begun, wire, iam>>

Send(m) ==
    /\ calls[m].step = "send"
    /\ LET call == [calls[m] EXCEPT !.step = "waiting", !.sent = @ + 1]
       IN  /\ Update(m, call)
           /\ wire' = wire \cup {[n |-> call.n, copy |-> call.sent, op |-> call.op,
                                  revision |-> call.revision, key |-> call.key]}
    /\ UNCHANGED <<begun, iam>>

\* Slip: every request that writes gets an Idempotency-Key.
ReplayableAll(op) == op.method \in {"GET", "POST", "PUT", "DELETE"}

\* net/http sends a request again by itself, when a connection it has reused
\* breaks before the answer, if this is a GET or has an Idempotency-Key.
Replayable(op) == op.method = "GET" \/ op.guard = "key"

Replay(m) ==
    /\ calls[m].step \in {"waiting", "answered"}
    /\ Replayable(calls[m].op) /\ calls[m].sent < MaxSends
    /\ Update(m, [calls[m] EXCEPT !.step = "send", !.answer = NoAnswer])
    /\ UNCHANGED <<begun, wire, iam>>

\* The connection fails, the time is up, or the caller goes away.
GiveUp(m) ==
    /\ calls[m].step \in {"send", "waiting", "answered"}
    /\ Finish(m, "iam_unavailable")
    /\ UNCHANGED <<begun, wire, iam>>

Decode(m) ==
    /\ calls[m].step = "answered"
    /\ Finish(m, Outcome(calls[m].answer, calls[m].op.out))
    /\ UNCHANGED <<begun, wire, iam>>

-----------------------------------------------------------------------------
\* IAM.

\* The answer reaches the call that waits for it, or nobody.
Answer(req, answer) ==
    /\ wire' = wire \ {req}
    /\ calls' = [m \in Managers |->
          IF calls[m].step = "waiting" /\ calls[m].n = req.n /\ calls[m].sent = req.copy
          THEN [calls[m] EXCEPT !.step = "answered", !.answer = answer] ELSE calls[m]]
    /\ UNCHANGED begun

Apply(req) ==
    /\ applied' = IF req.op.changes /\ ~(req.op.guard = "key" /\ req.key \in created)
                  THEN applied \cup {[n |-> req.n, copy |-> req.copy]} ELSE applied
    /\ revision' = IF Revisioned(req.op) THEN revision + 1 ELSE revision
    /\ created' = IF req.op.guard = "key" THEN created \cup {req.key} ELSE created

\* It does what it is asked, if the revision is the present one; a key that
\* it knows gets the credential it has.  It may fail to say so.
IamCarriesOut(req) ==
    /\ Revisioned(req.op) => req.revision = revision
    /\ Apply(req)
    /\ \/ \E body \in {IF req.op.out THEN "data" ELSE "null", "malformed"} :
              Answer(req, [status |-> 200, body |-> body])
       \/ Answer(req, [status |-> 500, body |-> "data"])

\* It refuses, or fails before it has done anything.
IamRefuses(req) ==
    /\ \E status \in IF Revisioned(req.op) /\ req.revision # revision
                     THEN {409} ELSE Statuses, body \in {"data", "null", "code", "malformed"} :
          /\ status = 200 <=> body = "code"
          /\ Answer(req, [status |-> status, body |-> body])
    /\ UNCHANGED iam

-----------------------------------------------------------------------------
Next ==
    \/ \E m \in Managers :
        \/ \E op \in Operations, r \in 0..revision, k \in Keys : Begin(m, op, r, k)
        \/ RefuseArguments(m) \/ TakeToken(m) \/ Send(m) \/ Replay(m)
        \/ GiveUp(m) \/ Decode(m)
    \/ \E req \in wire : IamCarriesOut(req) \/ IamRefuses(req)

Spec == Init /\ [][Next]_vars

-----------------------------------------------------------------------------
Refusals == {"invalid_argument", "unauthenticated", "forbidden", "not_found",
             "conflict", "rate_limited"}

AppliedBy(n) == {a \in applied : a.n = n}

(***************************************************************************)
(* What a caller is told of a write is true: success means that IAM has    *)
(* carried it out exactly once; a refusal, a conflict of revisions above   *)
(* all, that it has not and never will, so that the manager may read again *)
(* and decide.  Only unavailable and protocol leave it open.  For a write  *)
(* with an idempotency key, which net/http may send twice, success means   *)
(* that the credential is there, and at most one is made of a call.        *)
(***************************************************************************)
OutcomeIsTrue ==
    \A m \in Managers :
        calls[m].step = "done" /\ calls[m] # NoCall /\ calls[m].op.changes =>
        LET c == calls[m] IN
        IF c.op.guard = "key"
        THEN (c.kind = "ok" => c.key \in created) /\ Cardinality(AppliedBy(c.n)) <= 1
        ELSE /\ c.kind \in Refusals =>
                    AppliedBy(c.n) = {} /\ \A req \in wire : req.n # c.n
             /\ c.kind = "ok" => Cardinality(AppliedBy(c.n)) = 1

(***************************************************************************)
(* "Do validates and executes exactly one authenticated management API     *)
(* request": no call has IAM receive more than one.                        *)
(***************************************************************************)
OneRequest == \A m \in Managers : calls[m] # NoCall => calls[m].sent <= 1
=============================================================================
