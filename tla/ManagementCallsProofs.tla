------------------------ MODULE ManagementCallsProofs ------------------------
(***************************************************************************)
(* What a manager is told of a write is true, for any number of managers   *)
(* and calls, and however often net/http sends a request again.            *)
(*                                                                         *)
(* WireInv and AppliedInv relate the requests under way to what IAM has    *)
(* carried out; CallInv says what the call knows of them.  Says is what a  *)
(* kind of outcome claims: an answer makes it true when IAM gives it, and  *)
(* nothing that happens later, to this call or another, makes it false.    *)
(***************************************************************************)
EXTENDS ManagementCalls, FiniteSetTheorems, TLAPS

\* One call is carried out at most once.
Single == \A a, b \in applied : a.n = b.n => a = b

Spent == {n \in 1..begun : AppliedBy(n) # {}}

AppliedInv ==
    /\ Single
    /\ \A a \in applied : a.n <= begun
    /\ revision <= Cardinality(Spent)

\* The requests of a call differ in their copy only, and what is not sent again
\* has one.  What IAM has carried out is under way again with a key it knows.
WireInv ==
    /\ \A req \in wire : req.n <= begun
    /\ \A req, other \in wire : req.n = other.n =>
        /\ req.op = other.op /\ req.key = other.key
        /\ req.copy = other.copy => req = other
    /\ \A req \in wire : ~Replayable(req.op) => req.copy = 1
    /\ \A req \in wire, a \in applied : a.n = req.n =>
            req.op.guard = "key" /\ req.key \in created

\* What an outcome claims of the write c.
Says(c, kind) ==
    IF c.op.guard = "key" THEN kind = "ok" => c.key \in created
    ELSE /\ kind \in Refusals => AppliedBy(c.n) = {} /\ \A req \in wire : req.n # c.n
         /\ kind = "ok" => AppliedBy(c.n) # {}

CallInv(c) ==
    /\ c.n <= begun
    /\ \A req \in wire : req.n = c.n =>
            req.op = c.op /\ req.key = c.key /\ req.copy <= c.sent
    /\ \A a \in applied : a.n = c.n =>
            c.sent > 0 /\ c.op.changes /\ (c.op.guard = "key" => c.key \in created)
    /\ c.step \in {"token", "send"} => c.sent < MaxSends /\ (c.sent = 0 \/ Replayable(c.op))
    /\ c.step = "token" => c.sent = 0
    /\ ~Replayable(c.op) => c.sent <= 1
    /\ c.op.changes /\ c.step = "answered" => Says(c, Outcome(c.answer, c.op.out))
    /\ c.op.changes /\ c.step = "done" => Says(c, c.kind)

Numbered ==
    \A m, k \in Managers : calls[m] # NoCall /\ calls[k] # NoCall /\ calls[m].n = calls[k].n => m = k

Inv ==
    /\ TypeOK /\ AppliedInv /\ WireInv /\ Numbered
    /\ \A m \in Managers : calls[m] # NoCall => CallInv(calls[m])

-----------------------------------------------------------------------------
\* The operations: a write is no GET, and a guarded operation is a write.
LEMMA OperationKinds ==
    ASSUME NEW op \in Operations
    PROVE  /\ op.changes => op.method # "GET"
           /\ op.guard # "key" /\ op.changes => ~Replayable(op)
           /\ op.guard = "key" => ~Revisioned(op)
           /\ Revisioned(op) => op.changes
           /\ op.out \in BOOLEAN
<1> DEFINE Right(o) ==
        /\ o.changes => o.method # "GET"
        /\ o.guard = "key" => o.guard \notin {"revision", "positive"}
        /\ o.guard \in {"revision", "positive"} => o.changes
        /\ o.out \in BOOLEAN
<1>1. \A method \in {"POST", "PUT", "DELETE"},
         guard \in {"none", "positive", "revision", "key"} :
            Right(Op(method, guard, TRUE, TRUE)) /\ Right(Op(method, guard, TRUE, FALSE))
  BY DEF Op
<1>2. Right(Read) /\ Right(Query)
  BY DEF Read, Query, Op
<1> SUFFICES Right(op)
  BY DEF Replayable, Revisioned
<1> HIDE DEF Right
<1>3. CASE op \in Applications \cup OidcClients
  BY <1>1, <1>2, <1>3 DEF Applications, OidcClients
<1>4. CASE op \in Policies \cup GroupMappings \cup Admission
  BY <1>1, <1>2, <1>4 DEF Policies, GroupMappings, Admission
<1>5. CASE op \in Catalog \cup UserDirectory \cup NotificationContacts
  BY <1>1, <1>2, <1>5 DEF Catalog, UserDirectory, NotificationContacts
<1> QED
  BY <1>3, <1>4, <1>5 DEF Operations

LEMMA KindOfStatus ==
    ASSUME NEW status \in Statuses
    PROVE  KindForStatus(status) \in Kinds /\ KindForStatus(status) # "ok"
BY DEF KindForStatus, Statuses, Kinds

\* Success is said of a good envelope with the data that were asked for only.
LEMMA OutcomeKinds ==
    ASSUME NEW answer \in Answers, NEW out
    PROVE  /\ Outcome(answer, out) \in Kinds
           /\ Outcome(answer, out) = "ok" =>
                answer.status = 200 /\ answer.body \in {"data", "null"}
           /\ answer.status = 200 \/ answer.status = 500 => Outcome(answer, out) \notin Refusals
<1>1. answer.status \in Statuses /\ answer.body \in {"data", "null", "code", "malformed"}
  BY DEF Answers
<1>2. KindForStatus(500) = "iam_unavailable"
  BY DEF KindForStatus
<1>3. KindForStatus(answer.status) \in Kinds /\ KindForStatus(answer.status) # "ok"
  BY <1>1, KindOfStatus
<1> QED
  BY <1>1, <1>2, <1>3 DEF Outcome, Kinds, Refusals

LEMMA CallFields ==
    ASSUME NEW c \in Calls
    PROVE  /\ c # NoCall /\ c.n \in 1..MaxCalls /\ c.op \in Operations /\ c.key \in Keys
           /\ c.sent \in 0..MaxSends /\ c.answer \in Answers \cup {NoAnswer}
           /\ c.step \in {"token", "send", "waiting", "answered", "done"}
<1>1. c.n \in 1..MaxCalls /\ NoCall.n = 0
  BY DEF Calls, NoCall
<1>2. c # NoCall
  BY <1>1, ManagementAssumption
<1> QED
  BY <1>1, <1>2 DEF Calls

LEMMA CallTypes ==
    ASSUME Inv, NEW m \in Managers, calls[m] # NoCall
    PROVE  calls[m] \in Calls /\ CallInv(calls[m])
BY DEF Inv, TypeOK

LEMMA UnderWay ==
    ASSUME Inv, NEW m \in Managers, calls[m].step # "done"
    PROVE  calls[m] # NoCall /\ calls[m] \in Calls /\ CallInv(calls[m])
<1>1. calls[m] # NoCall
  BY DEF NoCall
<1> QED
  BY <1>1, CallTypes

-----------------------------------------------------------------------------
\* What a call knows survives everything but its own steps.
LEMMA CallStays ==
    ASSUME Inv, TypeOK', begun <= begun', created \subseteq created', applied \subseteq applied',
           NEW c \in Calls, CallInv(c),
           \A req \in wire' \ wire : req.n # c.n,
           \A a \in applied' \ applied : \E req \in wire :
                /\ req.n = a.n /\ req.op.changes
                /\ req.op.guard = "key" => req.key \in created'
    PROVE  CallInv(c)'
<1>1. begun \in Nat /\ begun' \in Nat /\ c.n \in Nat /\ c.sent \in Nat
  BY CallFields, ManagementAssumption DEF Inv, TypeOK
<1>2. \A req \in wire : req.copy \in Nat /\ req.copy >= 1
  BY DEF Inv, TypeOK, Requests
<1>3. c.n <= begun'
  BY <1>1 DEF CallInv
<1>4. \A req \in wire' : req.n = c.n =>
            req.op = c.op /\ req.key = c.key /\ req.copy <= c.sent
  BY DEF CallInv
<1>5. \A a \in applied' : a.n = c.n =>
            c.sent > 0 /\ c.op.changes /\ (c.op.guard = "key" => c.key \in created')
  <2> SUFFICES ASSUME NEW a \in applied', a.n = c.n
               PROVE  c.sent > 0 /\ c.op.changes /\ (c.op.guard = "key" => c.key \in created')
    OBVIOUS
  <2>1. CASE a \in applied
    BY <2>1 DEF CallInv
  <2>2. CASE a \notin applied
    <3>1. PICK req \in wire : /\ req.n = c.n /\ req.op.changes
                              /\ req.op.guard = "key" => req.key \in created'
      BY <2>2
    <3>2. req.op = c.op /\ req.key = c.key /\ req.copy <= c.sent
      BY <3>1 DEF CallInv
    <3> QED
      BY <1>1, <1>2, <3>1, <3>2
  <2> QED
    BY <2>1, <2>2
<1>6. ASSUME NEW kind, Says(c, kind) PROVE Says(c, kind)'
  BY <1>6 DEF Says, AppliedBy
<1> QED
  BY <1>3, <1>4, <1>5, <1>6 DEF CallInv

\* A step of one manager that neither sends nor begins anything.
LEMMA OwnStep ==
    ASSUME Inv, NEW m \in Managers, calls[m] # NoCall, NEW d \in Calls, d.n = calls[m].n,
           Update(m, d), CallInv(d), UNCHANGED <<begun, wire, iam>>
    PROVE  Inv'
<1>1. TypeOK'
  BY DEF Update, iam, Inv, TypeOK
<1>2. AppliedInv' /\ WireInv'
  BY DEF iam, Inv, AppliedInv, WireInv, Single, Spent, AppliedBy
<1>3. calls'[m] = d /\ d # NoCall /\ \A k \in Managers \ {m} : calls'[k] = calls[k]
  BY CallFields DEF Update, Inv, TypeOK
<1>4. Numbered'
  BY <1>3 DEF Inv, Numbered
<1>5. \A k \in Managers : calls'[k] # NoCall => CallInv(calls'[k])
  BY <1>3, CallTypes
<1>6. \A c \in Calls : CallInv(c) => CallInv(c)'
  BY DEF iam, CallInv, Says, AppliedBy
<1>7. \A k \in Managers : calls'[k] # NoCall => calls'[k] \in Calls
  BY <1>1 DEF TypeOK
<1>8. \A k \in Managers : calls'[k] # NoCall => CallInv(calls[k])'
  <2> SUFFICES ASSUME NEW k \in Managers, calls'[k] # NoCall PROVE CallInv(calls[k])'
    OBVIOUS
  <2>1. PICK c \in Calls : c = calls'[k]
    BY <1>7
  <2>2. CallInv(c)'
    BY <1>5, <1>6, <2>1
  <2> QED
    BY <2>1, <2>2 DEF CallInv, Says, AppliedBy
<1> QED
  BY <1>1, <1>2, <1>4, <1>8 DEF Inv

LEMMA FinishStep ==
    ASSUME Inv, NEW m \in Managers, calls[m] # NoCall, NEW kind \in Kinds, Finish(m, kind),
           calls[m].op.changes => Says(calls[m], kind), UNCHANGED <<begun, wire, iam>>
    PROVE  Inv'
<1>1. PICK c \in Calls : c = calls[m] /\ CallInv(c)
  BY CallTypes
<1>2. PICK d : d = [c EXCEPT !.step = "done", !.kind = kind, !.answer = NoAnswer]
  OBVIOUS
<1>3. /\ d \in Calls /\ d.n = c.n /\ d.op = c.op /\ d.key = c.key /\ d.sent = c.sent
      /\ d.step = "done" /\ d.kind = kind
  BY <1>1, <1>2 DEF Calls
<1>4. c.op.changes => Says(d, kind)
  BY <1>1, <1>3 DEF Says
<1>5. CallInv(d)
  BY <1>1, <1>3, <1>4 DEF CallInv
<1> QED
  BY <1>1, <1>2, <1>3, <1>5, OwnStep DEF Finish

\* A call that has sent nothing may be refused with a good conscience.
LEMMA NothingSent ==
    ASSUME Inv, NEW c \in Calls, CallInv(c), c.sent = 0, NEW kind \in Refusals
    PROVE  Says(c, kind)
<1>1. \A req \in wire : req.copy \in Nat /\ req.copy >= 1
  BY DEF Inv, TypeOK, Requests
<1>2. \A req \in wire : req.n # c.n
  BY <1>1 DEF CallInv
<1>3. AppliedBy(c.n) = {}
  BY DEF CallInv, AppliedBy
<1> QED
  BY <1>2, <1>3 DEF Says, Refusals

LEMMA RefuseArgumentsStep ==
    ASSUME Inv, NEW m \in Managers, RefuseArguments(m)
    PROVE  Inv'
<1>1. calls[m].step = "token" /\ "invalid_argument" \in Refusals /\ "invalid_argument" \in Kinds
  BY DEF RefuseArguments, Refusals, Kinds
<1>2. calls[m] # NoCall /\ calls[m] \in Calls /\ CallInv(calls[m])
  BY <1>1, UnderWay
<1>3. Says(calls[m], "invalid_argument")
  BY <1>1, <1>2, NothingSent DEF CallInv
<1> QED
  BY <1>1, <1>2, <1>3, FinishStep DEF RefuseArguments

LEMMA TakeTokenStep ==
    ASSUME Inv, NEW m \in Managers, TakeToken(m)
    PROVE  Inv'
<1>1. calls[m].step = "token" /\ "unauthenticated" \in Refusals /\ "unauthenticated" \in Kinds
  BY DEF TakeToken, Refusals, Kinds
<1>2. calls[m] # NoCall /\ calls[m] \in Calls /\ CallInv(calls[m])
  BY <1>1, UnderWay
<1>3. CASE Finish(m, "unauthenticated")
  <2>1. Says(calls[m], "unauthenticated")
    BY <1>1, <1>2, NothingSent DEF CallInv
  <2> QED
    BY <1>1, <1>2, <1>3, <2>1, FinishStep DEF TakeToken
<1>4. CASE Update(m, [calls[m] EXCEPT !.step = "send"])
  <2>1. PICK c \in Calls : c = calls[m]
    BY <1>2
  <2>2. PICK d : d = [c EXCEPT !.step = "send"]
    OBVIOUS
  <2>3. /\ d \in Calls /\ d.n = c.n /\ d.op = c.op /\ d.key = c.key /\ d.sent = c.sent
        /\ d.step = "send"
    BY <2>2 DEF Calls
  <2>4. CallInv(d)
    BY <1>1, <1>2, <2>1, <2>3 DEF CallInv
  <2> QED
    BY <1>2, <1>4, <2>1, <2>2, <2>3, <2>4, OwnStep DEF TakeToken
<1> QED
  BY <1>3, <1>4 DEF TakeToken

LEMMA ReplayStep ==
    ASSUME Inv, NEW m \in Managers, Replay(m)
    PROVE  Inv'
<1>1. calls[m] # NoCall /\ calls[m] \in Calls /\ CallInv(calls[m])
  BY UnderWay DEF Replay
<1>2. PICK c \in Calls : c = calls[m]
  BY <1>1
<1>3. PICK d : d = [c EXCEPT !.step = "send", !.answer = NoAnswer]
  OBVIOUS
<1>4. /\ d \in Calls /\ d.n = c.n /\ d.op = c.op /\ d.key = c.key /\ d.sent = c.sent
      /\ d.step = "send"
  BY <1>3 DEF Calls
<1>5. CallInv(d)
  BY <1>1, <1>2, <1>4 DEF CallInv, Replay
<1> QED
  BY <1>1, <1>2, <1>3, <1>4, <1>5, OwnStep DEF Replay

LEMMA GiveUpStep ==
    ASSUME Inv, NEW m \in Managers, GiveUp(m)
    PROVE  Inv'
<1>1. calls[m] # NoCall
  BY UnderWay DEF GiveUp
<1>2. Says(calls[m], "iam_unavailable")
  BY DEF Says, Refusals
<1> QED
  BY <1>1, <1>2, FinishStep DEF GiveUp, Kinds

LEMMA DecodeStep ==
    ASSUME Inv, NEW m \in Managers, Decode(m)
    PROVE  Inv'
<1>1. calls[m] # NoCall /\ calls[m] \in Calls /\ CallInv(calls[m])
  BY UnderWay DEF Decode
<1>2. PICK kind : kind = Outcome(calls[m].answer, calls[m].op.out)
  OBVIOUS
<1>3. kind \in Kinds
  <2>1. KindForStatus(0) = "protocol"
    BY DEF KindForStatus
  <2>2. NoAnswer.status = 0 /\ NoAnswer.body = "null"
    BY DEF NoAnswer
  <2>3. Outcome(NoAnswer, calls[m].op.out) \in Kinds
    BY <2>1, <2>2 DEF Outcome, Kinds
  <2> QED
    BY <1>1, <1>2, <2>3, CallFields, OutcomeKinds
<1>4. calls[m].op.changes => Says(calls[m], kind)
  BY <1>1, <1>2 DEF CallInv, Decode
<1> QED
  BY <1>1, <1>2, <1>3, <1>4, FinishStep DEF Decode

\* A manager begins a call, or sends what it has begun.
LEMMA OwnCall ==
    ASSUME Inv, TypeOK', AppliedInv', WireInv', NEW m \in Managers, NEW d \in Calls,
           Update(m, d), CallInv(d)', UNCHANGED iam, begun <= begun',
           \A req \in wire' \ wire : req.n = d.n,
           \A k \in Managers \ {m} : calls[k] # NoCall => calls[k].n # d.n
    PROVE  Inv'
<1>1. calls'[m] = d /\ d # NoCall /\ \A k \in Managers \ {m} : calls'[k] = calls[k]
  BY CallFields DEF Update, Inv, TypeOK
<1>2. Numbered'
  BY <1>1 DEF Inv, Numbered
<1>3. ASSUME NEW k \in Managers, calls'[k] # NoCall PROVE CallInv(calls[k])'
  <2>1. CASE k = m
    BY <1>1, <2>1 DEF CallInv, Says, AppliedBy
  <2>2. CASE k # m
    <3>1. PICK c \in Calls : c = calls[k] /\ CallInv(c) /\ calls'[k] = c
      BY <1>1, <1>3, <2>2, CallTypes
    <3>2. c.n # d.n
      BY <1>1, <1>3, <2>2, <3>1
    <3>3. CallInv(c)'
      BY <3>1, <3>2, CallStays DEF iam
    <3> QED
      BY <3>1, <3>3 DEF CallInv, Says, AppliedBy
  <2> QED
    BY <2>1, <2>2
<1> QED
  BY <1>2, <1>3 DEF Inv

LEMMA BeginStep ==
    ASSUME Inv, NEW m \in Managers, NEW op \in Operations, NEW r \in 0..revision, NEW k \in Keys,
           Begin(m, op, r, k)
    PROVE  Inv'
<1>1. PICK n : n = begun + 1
  OBVIOUS
<1>2. begun \in Nat /\ n \in 1..MaxCalls /\ begun' = n /\ begun < n /\ r \in Nat
  BY <1>1, ManagementAssumption DEF Begin, Inv, TypeOK
<1>3. PICK c : c = [n |-> n, op |-> op, revision |-> r, key |-> k, step |-> "token",
                    sent |-> 0, answer |-> NoAnswer, kind |-> "none"]
  OBVIOUS
<1>4. /\ c \in Calls /\ c.n = n /\ c.op = op /\ c.key = k /\ c.step = "token" /\ c.sent = 0
  BY <1>2, <1>3, ManagementAssumption DEF Calls
<1>5. PICK e : e = [c EXCEPT !.step = "done", !.kind = "invalid_argument"]
  OBVIOUS
<1>6. /\ e \in Calls /\ e.n = n /\ e.op = op /\ e.step = "done" /\ e.sent = 0
      /\ e.kind = "invalid_argument"
  BY <1>4, <1>5 DEF Calls, Kinds
<1>7. PICK d \in {c, e} : Update(m, d)
  BY <1>1, <1>3, <1>5 DEF Begin
<1>8. /\ d \in Calls /\ d.n = n /\ d.sent = 0 /\ d.step \in {"token", "done"}
      /\ d.step = "done" => d.kind = "invalid_argument"
  BY <1>4, <1>6, <1>7
<1>9. UNCHANGED <<wire, revision, created, applied>>
  BY DEF Begin, iam
<1>10. /\ \A req \in wire : req.n \in Nat /\ req.n <= begun
       /\ \A a \in applied : a.n \in Nat /\ a.n <= begun
  BY DEF Inv, TypeOK, Requests, WireInv, AppliedInv
<1>11. (\A req \in wire : req.n # n) /\ \A a \in applied : a.n # n
  BY <1>2, <1>10
<1>12. TypeOK'
  BY <1>2, <1>7, <1>8, <1>9 DEF Update, Inv, TypeOK
<1>13. AppliedInv'
  <2>1. Spent' = Spent
    BY <1>1, <1>2, <1>9, <1>11 DEF Spent, AppliedBy
  <2> QED
    BY <1>2, <1>9, <1>10, <2>1 DEF Inv, AppliedInv, Single
<1>14. WireInv'
  BY <1>2, <1>9, <1>10 DEF Inv, WireInv
<1>15. CallInv(d)'
  <2>1. AppliedBy(n)' = {}
    BY <1>9, <1>11 DEF AppliedBy
  <2>2. Says(d, "invalid_argument")'
    BY <1>8, <1>9, <1>11, <2>1 DEF Says
  <2>3. 0 < MaxSends
    BY ManagementAssumption
  <2> QED
    BY <1>2, <1>8, <1>9, <1>11, <2>2, <2>3 DEF CallInv
<1>16. \A i \in Managers \ {m} : calls[i] # NoCall => calls[i].n # n
  <2> SUFFICES ASSUME NEW i \in Managers, calls[i] # NoCall PROVE calls[i].n # n
    OBVIOUS
  <2>1. calls[i].n \in Nat /\ calls[i].n <= begun
    BY CallTypes, CallFields DEF CallInv
  <2> QED
    BY <1>2, <2>1
<1> QED
  BY <1>2, <1>7, <1>8, <1>9, <1>12, <1>13, <1>14, <1>15, <1>16, OwnCall DEF iam

LEMMA SendStep ==
    ASSUME Inv, NEW m \in Managers, Send(m)
    PROVE  Inv'
<1>1. calls[m] # NoCall /\ calls[m] \in Calls /\ CallInv(calls[m])
  BY UnderWay DEF Send
<1>2. PICK c \in Calls : c = calls[m] /\ CallInv(c) /\ c.step = "send"
  BY <1>1 DEF Send
<1>3. /\ c.sent \in Nat /\ c.sent < MaxSends /\ (c.sent = 0 \/ Replayable(c.op))
      /\ c.n \in 1..MaxCalls /\ c.op \in Operations /\ c.key \in Keys /\ c.revision \in Nat
  BY <1>2 DEF CallInv, Calls
<1>4. PICK sent \in 1..MaxSends : sent = c.sent + 1
  BY <1>3, ManagementAssumption
<1>5. sent \in 0..MaxSends /\ sent > c.sent /\ sent > 0
  BY <1>3, <1>4, ManagementAssumption
<1>6. PICK d : d = [c EXCEPT !.step = "waiting", !.sent = sent]
  OBVIOUS
<1>7. /\ d \in Calls /\ d.n = c.n /\ d.op = c.op /\ d.key = c.key /\ d.sent = sent
      /\ d.step = "waiting" /\ d.revision = c.revision
  BY <1>5, <1>6 DEF Calls
<1>8. PICK new : new = [n |-> c.n, copy |-> sent, op |-> c.op, revision |-> c.revision,
                        key |-> c.key]
  OBVIOUS
<1>9. /\ new \in Requests /\ new.n = c.n /\ new.copy = sent /\ new.op = c.op /\ new.key = c.key
  BY <1>3, <1>8 DEF Requests
<1>10. /\ Update(m, d) /\ wire' = wire \cup {new}
       /\ UNCHANGED <<begun, revision, created, applied>>
  BY <1>2, <1>4, <1>6, <1>7, <1>8 DEF Send, iam
<1>11. TypeOK'
  BY <1>7, <1>9, <1>10 DEF Update, Inv, TypeOK
<1>12. AppliedInv'
  BY <1>10 DEF Inv, AppliedInv, Single, Spent, AppliedBy
<1>13. \A req \in wire : req.n = c.n =>
            req.op = c.op /\ req.key = c.key /\ req.copy <= c.sent /\ req.copy \in Nat
  BY <1>2 DEF CallInv, Inv, TypeOK, Requests
<1>14. \A a \in applied : a.n = c.n => c.op.guard = "key" /\ c.key \in created
  <2> SUFFICES ASSUME NEW a \in applied, a.n = c.n
               PROVE  c.op.guard = "key" /\ c.key \in created
    OBVIOUS
  <2>1. c.sent > 0 /\ c.op.changes /\ (c.op.guard = "key" => c.key \in created)
    BY <1>2 DEF CallInv
  <2> QED
    BY <1>3, <2>1, OperationKinds
<1>15. WireInv'
  <2>1. c.n <= begun
    BY <1>2 DEF CallInv
  <2>2. ~Replayable(c.op) => sent = 1
    BY <1>3, <1>4
  <2>3. \A req \in wire : req.n = c.n => req.copy # sent
    BY <1>3, <1>4, <1>13
  <2>4. WireInv
    BY DEF Inv
  <2>5. \A req \in wire' : req.n <= begun'
    BY <1>9, <1>10, <2>1, <2>4 DEF WireInv
  <2>6. \A req, other \in wire' : req.n = other.n =>
          /\ req.op = other.op /\ req.key = other.key
          /\ req.copy = other.copy => req = other
    BY <1>9, <1>10, <1>13, <2>3, <2>4 DEF WireInv
  <2>7. \A req \in wire' : ~Replayable(req.op) => req.copy = 1
    BY <1>9, <1>10, <2>2, <2>4 DEF WireInv
  <2>8. \A req \in wire', a \in applied' : a.n = req.n =>
            req.op.guard = "key" /\ req.key \in created'
    BY <1>9, <1>10, <1>14, <2>4 DEF WireInv
  <2> QED
    BY <2>5, <2>6, <2>7, <2>8 DEF WireInv
<1>16. CallInv(d)'
  <2>1. \A req \in wire' : req.n = d.n => req.op = d.op /\ req.key = d.key /\ req.copy <= d.sent
    BY <1>3, <1>4, <1>7, <1>9, <1>10, <1>13
  <2>2. \A a \in applied' : a.n = d.n =>
            d.sent > 0 /\ d.op.changes /\ (d.op.guard = "key" => d.key \in created')
    BY <1>2, <1>5, <1>7, <1>10 DEF CallInv
  <2>3. ~Replayable(d.op) => d.sent <= 1
    BY <1>3, <1>4, <1>7
  <2>4. d.n <= begun'
    BY <1>2, <1>7, <1>10 DEF CallInv
  <2> QED
    BY <1>7, <2>1, <2>2, <2>3, <2>4 DEF CallInv
<1>17. \A k \in Managers \ {m} : calls[k] # NoCall => calls[k].n # d.n
  BY <1>1, <1>2, <1>7 DEF Inv, Numbered
<1>18. begun <= begun'
  BY <1>10, ManagementAssumption DEF Inv, TypeOK
<1> QED
  BY <1>7, <1>9, <1>10, <1>11, <1>12, <1>15, <1>16, <1>17, <1>18, OwnCall DEF iam

-----------------------------------------------------------------------------
\* IAM answers: what it says is true of the call that made the request.
LEMMA AnswerStep ==
    ASSUME Inv, NEW req \in wire, NEW answer \in Answers, Answer(req, answer),
           revision' \in 0..MaxCalls, created' \subseteq Keys,
           applied' \subseteq [n: 1..MaxCalls, copy: 1..MaxSends],
           created \subseteq created', applied \subseteq applied', AppliedInv', WireInv',
           \A a \in applied' \ applied :
                /\ a.n = req.n /\ req.op.changes
                /\ req.op.guard = "key" => req.key \in created',
           ASSUME NEW c \in Calls, CallInv(c), c.op.changes, c.n = req.n, c.sent = req.copy
           PROVE  Says(c, Outcome(answer, c.op.out))'
    PROVE  Inv'
<1>1. begun' = begun /\ wire' = wire \ {req} /\ begun <= begun'
  <2>1. begun \in Nat
    BY ManagementAssumption DEF Inv, TypeOK
  <2>2. begun' = begun /\ wire' = wire \ {req}
    BY Zenon DEF Answer
  <2> QED
    BY <2>1, <2>2
<1>2. ASSUME NEW k \in Managers
      PROVE  \/ calls'[k] = calls[k]
             \/ /\ calls[k].step = "waiting" /\ calls[k].n = req.n /\ calls[k].sent = req.copy
                /\ calls'[k] = [calls[k] EXCEPT !.step = "answered", !.answer = answer]
  BY DEF Answer
<1>3. ASSUME NEW k \in Managers, NEW c \in Calls, c = calls[k],
             calls'[k] = [c EXCEPT !.step = "answered", !.answer = answer]
      PROVE  /\ calls'[k] \in Calls /\ calls'[k].n = c.n /\ calls'[k].op = c.op
             /\ calls'[k].key = c.key /\ calls'[k].sent = c.sent
             /\ calls'[k].step = "answered" /\ calls'[k].answer = answer
  BY <1>3 DEF Calls
<1>4. \A k \in Managers : calls[k].step = "waiting" => calls[k] \in Calls /\ CallInv(calls[k])
  BY UnderWay
<1>5. \A k \in Managers : calls'[k] \in Calls \cup {NoCall}
  <2> SUFFICES ASSUME NEW k \in Managers PROVE calls'[k] \in Calls \cup {NoCall}
    OBVIOUS
  <2>1. CASE calls'[k] = calls[k]
    BY <2>1 DEF Inv, TypeOK
  <2>2. CASE /\ calls[k].step = "waiting"
             /\ calls'[k] = [calls[k] EXCEPT !.step = "answered", !.answer = answer]
    BY <1>3, <1>4, <2>2
  <2> QED
    BY <1>2, <2>1, <2>2
<1>6. TypeOK'
  <2>1. calls' \in [Managers -> Calls \cup {NoCall}]
    BY <1>5 DEF Answer
  <2> QED
    BY <1>1, <2>1 DEF Inv, TypeOK
<1>7. \A k \in Managers : calls'[k] # NoCall => calls[k] # NoCall /\ calls'[k].n = calls[k].n
  <2> SUFFICES ASSUME NEW k \in Managers, calls'[k] # NoCall
               PROVE  calls[k] # NoCall /\ calls'[k].n = calls[k].n
    OBVIOUS
  <2>1. CASE calls'[k] = calls[k]
    BY <2>1
  <2>2. CASE calls[k].step = "waiting"
             /\ calls'[k] = [calls[k] EXCEPT !.step = "answered", !.answer = answer]
    BY <1>3, <1>4, <2>2, CallFields
  <2> QED
    BY <1>2, <2>1, <2>2
<1>8. Numbered'
  BY <1>7 DEF Inv, Numbered
<1>9. ASSUME NEW c \in Calls, CallInv(c) PROVE CallInv(c)'
  BY <1>1, <1>6, <1>9, CallStays
<1>10. ASSUME NEW k \in Managers, calls'[k] # NoCall PROVE CallInv(calls[k])'
  <2>0. calls[k] # NoCall
    BY <1>7, <1>10
  <2>1. PICK c \in Calls : c = calls[k] /\ CallInv(c)
    BY <2>0, CallTypes
  <2>2. CallInv(c)'
    BY <1>9, <2>1
  <2>3. CASE calls'[k] = calls[k]
    BY <2>1, <2>2, <2>3 DEF CallInv, Says, AppliedBy
  <2>4. CASE /\ calls[k].step = "waiting" /\ calls[k].n = req.n /\ calls[k].sent = req.copy
             /\ calls'[k] = [calls[k] EXCEPT !.step = "answered", !.answer = answer]
    <3>1. PICK d \in Calls : d = calls'[k]
      BY <1>3, <2>1, <2>4
    <3>2. /\ d.n = c.n /\ d.op = c.op /\ d.key = c.key /\ d.sent = c.sent
          /\ d.step = "answered" /\ d.answer = answer
      BY <1>3, <2>1, <2>4, <3>1
    <3>3. c.op.changes => Says(c, Outcome(answer, c.op.out))'
      BY <2>1, <2>4
    <3>4. d.op.changes => Says(d, Outcome(d.answer, d.op.out))'
      BY <3>2, <3>3 DEF Says, AppliedBy
    <3>5. CallInv(d)'
      BY <2>2, <3>2, <3>4 DEF CallInv
    <3> QED
      BY <3>1, <3>5 DEF CallInv, Says, AppliedBy
  <2> QED
    BY <1>2, <2>3, <2>4
<1> QED
  BY <1>6, <1>8, <1>10 DEF Inv

LEMMA CallsCounted ==
    ASSUME NEW n \in Nat, NEW S \in SUBSET (1..n)
    PROVE  IsFiniteSet(S) /\ Cardinality(S) \in Nat /\ Cardinality(S) <= n
<1>1. IsFiniteSet(1..n) /\ Cardinality(1..n) = n
  BY FS_Interval
<1> QED
  BY <1>1, FS_Subset, FS_CardinalityType

\* A revision is spent by a call that had spent none.
LEMMA ApplyKeepsApplied ==
    ASSUME Inv, NEW req \in wire, Apply(req), begun' = begun
    PROVE  AppliedInv' /\ revision' \in 0..MaxCalls
<1>1. /\ req.n \in 1..MaxCalls /\ req.copy \in 1..MaxSends /\ req.op \in Operations
      /\ req.n <= begun /\ req.key \in Keys
  BY DEF Inv, TypeOK, Requests, WireInv
<1>2. begun \in Nat /\ begun' \in Nat /\ begun <= MaxCalls /\ MaxCalls \in Nat /\ revision \in Nat
  BY ManagementAssumption DEF Inv, TypeOK
<1>3. PICK a : a = [n |-> req.n, copy |-> req.copy]
  OBVIOUS
<1>4. a.n = req.n
  BY <1>3
<1>5. applied' = applied
      \/ (applied' = applied \cup {a} /\ ~(req.op.guard = "key" /\ req.key \in created))
  BY <1>3 DEF Apply
<1>6. \A b \in applied : b.n = req.n => req.op.guard = "key" /\ req.key \in created
  BY DEF Inv, WireInv
<1>7. Single'
  BY <1>4, <1>5, <1>6 DEF Single, Inv, AppliedInv
<1>8. \A b \in applied' : b.n <= begun'
  BY <1>1, <1>4, <1>5 DEF Inv, AppliedInv
<1>9. Spent \subseteq Spent'
  BY <1>5 DEF Spent, AppliedBy
<1>10. /\ IsFiniteSet(Spent) /\ Cardinality(Spent) \in Nat
       /\ IsFiniteSet(Spent') /\ Cardinality(Spent') \in Nat /\ Cardinality(Spent') <= begun'
  <2>1. Spent \in SUBSET (1..begun) /\ Spent' \in SUBSET (1..begun')
    BY DEF Spent
  <2> QED
    BY <1>2, <2>1, CallsCounted
<1>11. revision' <= Cardinality(Spent')
  <2>1. CASE ~Revisioned(req.op)
    <3>1. Cardinality(Spent) <= Cardinality(Spent')
      BY <1>9, <1>10, FS_Subset
    <3>2. revision' = revision
      BY <2>1 DEF Apply
    <3> QED
      BY <1>2, <1>10, <3>1, <3>2 DEF Inv, AppliedInv
  <2>2. CASE Revisioned(req.op)
    <3>1. req.op.changes /\ req.op.guard # "key"
      BY <1>1, <2>2, OperationKinds
    <3>2. applied' = applied \cup {a}
      BY <1>3, <3>1 DEF Apply
    <3>3. req.n \notin Spent
      BY <1>6, <3>1 DEF Spent, AppliedBy
    <3>4. req.n \in Spent'
      BY <1>1, <1>2, <1>4, <3>2 DEF Spent, AppliedBy
    <3>5. Cardinality(Spent \cup {req.n}) = Cardinality(Spent) + 1
          /\ IsFiniteSet(Spent \cup {req.n})
      BY <1>10, <3>3, FS_AddElement
    <3>6. Cardinality(Spent \cup {req.n}) <= Cardinality(Spent')
      BY <1>9, <1>10, <3>4, FS_Subset
    <3>7. revision' = revision + 1
      BY <2>2 DEF Apply
    <3> QED
      BY <1>2, <1>10, <3>5, <3>6, <3>7 DEF Inv, AppliedInv
  <2> QED
    BY <2>1, <2>2
<1>12. revision' \in Nat
  BY <1>2 DEF Apply
<1> QED
  BY <1>2, <1>7, <1>8, <1>10, <1>11, <1>12 DEF AppliedInv

LEMMA IamCarriesOutStep ==
    ASSUME Inv, NEW req \in wire, IamCarriesOut(req)
    PROVE  Inv'
<1>1. /\ req.n \in 1..MaxCalls /\ req.copy \in 1..MaxSends /\ req.op \in Operations
      /\ req.key \in Keys
  BY DEF Inv, TypeOK, Requests
<1>2. Apply(req)
  BY DEF IamCarriesOut
<1>3. PICK answer \in Answers : answer.status \in {200, 500} /\ Answer(req, answer)
  <2>1. \A status \in {200, 500}, body \in {"data", "null", "malformed"} :
            /\ [status |-> status, body |-> body] \in Answers
            /\ [status |-> status, body |-> body].status = status
    BY DEF Answers, Statuses
  <2>2. \/ \E body \in {"data", "null", "malformed"} :
              Answer(req, [status |-> 200, body |-> body])
        \/ Answer(req, [status |-> 500, body |-> "data"])
    BY DEF IamCarriesOut
  <2> QED
    BY <2>1, <2>2
<1>4. answer.status \in {200, 500}
  BY <1>3
<1>5. begun' = begun /\ wire' = wire \ {req}
  BY <1>3 DEF Answer
<1>6. AppliedInv' /\ revision' \in 0..MaxCalls
  BY <1>2, <1>5, ApplyKeepsApplied
<1>7. PICK a : a = [n |-> req.n, copy |-> req.copy]
  OBVIOUS
<1>8. a.n = req.n /\ a \in [n: 1..MaxCalls, copy: 1..MaxSends]
  BY <1>1, <1>7
<1>9. /\ applied' = applied \/ (applied' = applied \cup {a} /\ req.op.changes)
      /\ req.op.changes /\ req.op.guard # "key" => applied' = applied \cup {a}
      /\ created \subseteq created' /\ created' \subseteq Keys
      /\ req.op.guard = "key" => req.key \in created'
  BY <1>1, <1>2, <1>7 DEF Apply, Inv, TypeOK
<1>10. \A other \in wire \ {req} : other.n = req.n /\ req.op.changes => req.op.guard = "key"
  <2> SUFFICES ASSUME NEW other \in wire \ {req}, other.n = req.n, req.op.changes,
                      req.op.guard # "key"
               PROVE  FALSE
    OBVIOUS
  <2>1. ~Replayable(req.op)
    BY <1>1, OperationKinds
  <2> QED
    BY <2>1 DEF Inv, WireInv
<1>11. WireInv'
  <2>1. WireInv
    BY DEF Inv
  <2>2. \A other \in wire \ {req}, b \in applied' : b.n = other.n =>
            other.op.guard = "key" /\ other.key \in created'
    <3> SUFFICES ASSUME NEW other \in wire \ {req}, NEW b \in applied', b.n = other.n
                 PROVE  other.op.guard = "key" /\ other.key \in created'
      OBVIOUS
    <3>1. CASE b \in applied
      BY <1>9, <2>1, <3>1 DEF WireInv
    <3>2. CASE b \notin applied
      <4>1. b = a /\ req.op.changes
        BY <1>9, <3>2
      <4>2. other.n = req.n /\ other.op = req.op /\ other.key = req.key
        BY <1>8, <2>1, <4>1 DEF WireInv
      <4> QED
        BY <1>9, <1>10, <4>1, <4>2
    <3> QED
      BY <3>1, <3>2
  <2> QED
    BY <1>5, <2>1, <2>2 DEF WireInv
<1>12. ASSUME NEW c \in Calls, CallInv(c), c.op.changes, c.n = req.n, c.sent = req.copy
       PROVE  Says(c, Outcome(answer, c.op.out))'
  <2>1. req.op = c.op /\ req.key = c.key
    BY <1>12 DEF CallInv
  <2>2. Outcome(answer, c.op.out) \notin Refusals
    BY <1>4, OutcomeKinds
  <2>3. c.op.guard # "key" => AppliedBy(c.n)' # {}
    BY <1>8, <1>9, <1>12, <2>1 DEF AppliedBy
  <2> QED
    BY <1>9, <2>1, <2>2, <2>3 DEF Says
<1>13. \A b \in applied' \ applied :
            b.n = req.n /\ req.op.changes /\ (req.op.guard = "key" => req.key \in created')
  BY <1>8, <1>9
<1>14. applied \subseteq applied' /\ applied' \subseteq [n: 1..MaxCalls, copy: 1..MaxSends]
  BY <1>8, <1>9 DEF Inv, TypeOK
<1> QED
  BY <1>3, <1>6, <1>9, <1>11, <1>12, <1>13, <1>14, AnswerStep

LEMMA IamRefusesStep ==
    ASSUME Inv, NEW req \in wire, IamRefuses(req)
    PROVE  Inv'
<1>1. PICK status \in Statuses, body \in {"data", "null", "code", "malformed"} :
        /\ status = 200 <=> body = "code"
        /\ Answer(req, [status |-> status, body |-> body])
  BY DEF IamRefuses, Statuses
<1>2. PICK answer : answer = [status |-> status, body |-> body]
  OBVIOUS
<1>3. answer \in Answers /\ (answer.status = 200 <=> answer.body = "code")
  BY <1>1, <1>2 DEF Answers
<1>4. begun' = begun /\ wire' = wire \ {req} /\ UNCHANGED <<revision, created, applied>>
  BY <1>1 DEF Answer, IamRefuses, iam
<1>5. AppliedInv' /\ WireInv'
  BY <1>4 DEF Inv, AppliedInv, Single, Spent, AppliedBy, WireInv
<1>6. ASSUME NEW c \in Calls, CallInv(c), c.op.changes, c.n = req.n, c.sent = req.copy
      PROVE  Says(c, Outcome(answer, c.op.out))'
  <2>1. req.op = c.op /\ c.op \in Operations
    BY <1>6, CallFields DEF CallInv
  <2>2. Outcome(answer, c.op.out) # "ok"
    BY <1>3, OutcomeKinds
  <2>3. ASSUME c.op.guard # "key"
        PROVE  AppliedBy(c.n)' = {} /\ \A other \in wire' : other.n # c.n
    <3>1. ~Replayable(req.op)
      BY <1>6, <2>1, <2>3, OperationKinds
    <3>2. \A other \in wire' : other.n # c.n
      BY <1>4, <1>6, <3>1 DEF Inv, WireInv
    <3>3. AppliedBy(c.n)' = {}
      BY <1>4, <1>6, <2>1, <2>3 DEF AppliedBy, Inv, WireInv
    <3> QED
      BY <3>2, <3>3
  <2> QED
    BY <2>2, <2>3 DEF Says
<1>7. Answer(req, answer)
  BY <1>1, <1>2
<1>8. /\ revision' \in 0..MaxCalls /\ created' \subseteq Keys /\ created \subseteq created'
      /\ applied' \subseteq [n: 1..MaxCalls, copy: 1..MaxSends]
      /\ applied \subseteq applied' /\ applied' \ applied = {}
  BY <1>4 DEF Inv, TypeOK
<1> QED
  BY <1>3, <1>5, <1>6, <1>7, <1>8, AnswerStep

-----------------------------------------------------------------------------
LEMMA InitInv == Init => Inv
<1> SUFFICES ASSUME Init PROVE Inv
  OBVIOUS
<1>1. TypeOK
  BY ManagementAssumption DEF Init, TypeOK
<1>2. AppliedInv
  <2>1. begun \in Nat /\ revision = 0
    BY DEF Init
  <2>2. Cardinality(Spent) \in Nat
    BY <2>1, CallsCounted DEF Spent
  <2> QED
    BY <2>1, <2>2 DEF Init, AppliedInv, Single
<1>3. WireInv /\ Numbered
  BY DEF Init, WireInv, Numbered
<1>4. \A m \in Managers : calls[m] = NoCall
  BY DEF Init
<1> QED
  BY <1>1, <1>2, <1>3, <1>4 DEF Inv

LEMMA StutterInv ==
    ASSUME Inv, UNCHANGED vars
    PROVE  Inv'
<1>1. TypeOK' /\ AppliedInv' /\ WireInv' /\ Numbered'
  BY DEF vars, iam, Inv, TypeOK, AppliedInv, Single, Spent, AppliedBy, WireInv, Numbered
<1>2. \A m \in Managers : calls[m] # NoCall => CallInv(calls[m])'
  BY DEF vars, iam, Inv, CallInv, Says, AppliedBy
<1> QED
  BY <1>1, <1>2 DEF Inv, vars

LEMMA NextInv ==
    ASSUME Inv, Next
    PROVE  Inv'
<1>1. CASE \E m \in Managers : RefuseArguments(m) \/ TakeToken(m) \/ Send(m) \/ Replay(m)
                                  \/ GiveUp(m) \/ Decode(m)
  BY <1>1, RefuseArgumentsStep, TakeTokenStep, SendStep, ReplayStep, GiveUpStep, DecodeStep
<1>2. CASE \E m \in Managers : \E op \in Operations, r \in 0..revision, k \in Keys :
            Begin(m, op, r, k)
  BY <1>2, BeginStep
<1>3. CASE \E req \in wire : IamCarriesOut(req) \/ IamRefuses(req)
  BY <1>3, IamCarriesOutStep, IamRefusesStep
<1> QED
  BY <1>1, <1>2, <1>3 DEF Next

LEMMA Invariance == Spec => []Inv
<1>1. Inv /\ [Next]_vars => Inv'
  BY NextInv, StutterInv
<1> QED
  BY InitInv, <1>1, PTL DEF Spec

(***************************************************************************)
(* Every value stays in its type.  That the revision never passes the      *)
(* number of calls is the hard part: no call spends two, however often its *)
(* request is sent.                                                        *)
(***************************************************************************)
THEOREM TypeCorrect == Spec => []TypeOK
<1>1. Inv => TypeOK
  BY DEF Inv
<1> QED
  BY <1>1, Invariance, PTL

(***************************************************************************)
(* What a caller is told of a write is true when it is told, and stays     *)
(* true: success is exactly one change, a refusal is none, ever.           *)
(***************************************************************************)
THEOREM TrueOutcomes == Spec => []OutcomeIsTrue
<1>1. Inv => OutcomeIsTrue
  <2> SUFFICES ASSUME Inv, NEW m \in Managers, calls[m].step = "done", calls[m] # NoCall,
                      calls[m].op.changes
               PROVE  LET c == calls[m] IN
                      IF c.op.guard = "key"
                      THEN (c.kind = "ok" => c.key \in created) /\ Cardinality(AppliedBy(c.n)) <= 1
                      ELSE /\ c.kind \in Refusals =>
                                  AppliedBy(c.n) = {} /\ \A req \in wire : req.n # c.n
                           /\ c.kind = "ok" => Cardinality(AppliedBy(c.n)) = 1
    BY DEF OutcomeIsTrue
  <2>1. PICK c : c = calls[m] /\ Says(c, c.kind)
    BY CallTypes DEF CallInv
  <2>2. AppliedBy(c.n) = {} \/ \E a : AppliedBy(c.n) = {a}
    BY DEF Inv, AppliedInv, Single, AppliedBy
  <2>3. AppliedBy(c.n) = {} => Cardinality(AppliedBy(c.n)) = 0
    BY FS_EmptySet
  <2>4. (\E a : AppliedBy(c.n) = {a}) => Cardinality(AppliedBy(c.n)) = 1
    BY FS_Singleton
  <2> QED
    BY <2>1, <2>2, <2>3, <2>4 DEF Says
<1> QED
  BY <1>1, Invariance, PTL
=============================================================================
