------------------------------ MODULE JwksCache ------------------------------
(***************************************************************************)
(* The signing keys of IAM as runtime/core/jwks.go caches them, under any  *)
(* number of concurrent verifications.  A token names the key it claims to *)
(* be signed with.  A name that is not cached makes the verification wait  *)
(* for a fetch of the published keys: at most one is under way, it is      *)
(* shared by everybody who needs it, belongs to the context of nobody, and *)
(* none begins within an interval of the one before.                       *)
(*                                                                         *)
(* A key is its name.  The waiters of a fetch are handed its result when   *)
(* it lands, where the code lets them read it from the fetch later: a      *)
(* landed fetch does not change.  Only the time since the last fetch began *)
(* is told apart, up to the interval.  What IAM published when the last    *)
(* fetch began (asked), and whether the key of a verification was among it *)
(* when that fetch landed (covered), is kept for RejectedOnEvidence alone. *)
(***************************************************************************)
EXTENDS Integers

CONSTANTS
    Keys,        \* the keys IAM ever signs with
    FirstKeys,   \* those it has published when the process starts
    Verifiers,   \* goroutines that verify tokens
    Interval     \* UnknownKIDRefreshInterval

VARIABLES
    keys,        \* keySet.keys
    age,         \* time since lastRefresh; Interval before the first
    lastFailed,  \* lastRefreshErr
    flight,      \* inflight
    calls,       \* verifier -> the verification it is in, or was last in
    asked,       \* history: published when the last fetch began, and since
    published,   \* IAM: the keys in its document
    retired,     \* IAM: the keys it has withdrawn, and publishes no more
    up           \* IAM: whether the document can be had

cache == <<keys, age, lastFailed, flight>>
iam   == <<published, retired, up>>
vars  == <<cache, calls, asked, iam>>

ASSUME JwksAssumption ==
    /\ Interval \in Nat \ {0}
    /\ FirstKeys \subseteq Keys /\ FirstKeys # {}

Verdicts == {"none", "valid", "invalid", "unavailable", "canceled"}

Call == [step: {"look", "remote", "wait", "landed", "done"},
         key: Keys, genuine: BOOLEAN, covered: BOOLEAN, canceled: BOOLEAN,
         got: SUBSET Keys, failed: BOOLEAN, verdict: Verdicts]

TypeOK ==
    /\ keys \subseteq Keys /\ age \in 0..Interval /\ lastFailed \in BOOLEAN
    /\ flight \in [step: {"none", "begun", "served"}, got: SUBSET Keys, failed: BOOLEAN]
    /\ calls \in [Verifiers -> Call] /\ asked \subseteq Keys
    /\ published \subseteq Keys /\ retired \subseteq Keys /\ up \in BOOLEAN

NoFlight == [step |-> "none", got |-> {}, failed |-> FALSE]

NewCall(k, genuine) ==
    [step |-> "look", key |-> k, genuine |-> genuine, covered |-> FALSE,
     canceled |-> FALSE, got |-> {}, failed |-> FALSE, verdict |-> "none"]

\* Of a verification that has ended only the verdict is remembered.
NoCall(verdict) ==
    [NewCall(CHOOSE k \in Keys : TRUE, TRUE) EXCEPT !.step = "done", !.verdict = verdict]

Init ==
    /\ keys = {} /\ age = Interval /\ lastFailed = FALSE /\ flight = NoFlight
    /\ calls = [v \in Verifiers |-> NoCall("none")] /\ asked = {}
    /\ published = FirstKeys /\ retired = {} /\ up \in BOOLEAN

-----------------------------------------------------------------------------
\* verifySignature and remoteKeys.

Update(v, call) == calls' = [calls EXCEPT ![v] = call]

Ends(v, verdict) == Update(v, NoCall(verdict))

\* The context is alive: the method looks at it first.
Begin(v, k, genuine) ==
    /\ calls[v].step = "done"
    /\ Update(v, NewCall(k, genuine))
    /\ UNCHANGED <<cache, asked, iam>>

\* The verdict on a token when these are the keys.
Judged(t, ks) == IF t.key \in ks /\ t.genuine THEN "valid" ELSE "invalid"

\* A cached name decides, and a signature that does not fit fetches nothing.
Look(v) ==
    /\ calls[v].step = "look"
    /\ IF calls[v].key \in keys THEN Ends(v, Judged(calls[v], keys))
       ELSE Update(v, [calls[v] EXCEPT !.step = "remote"])
    /\ UNCHANGED <<cache, asked, iam>>

Outcome(t, ks, failed) == IF failed THEN "unavailable" ELSE Judged(t, ks)

RemoteCanceled(v) ==
    /\ calls[v].step = "remote" /\ calls[v].canceled
    /\ Ends(v, "canceled")
    /\ UNCHANGED <<cache, asked, iam>>

\* Slip: that the last fetch failed is forgotten, and the cache decides.
ThrottledByCache(v) ==
    /\ calls[v].step = "remote" /\ ~calls[v].canceled
    /\ flight.step = "none" /\ age < Interval
    /\ Ends(v, Outcome(calls[v], keys, FALSE))
    /\ UNCHANGED <<cache, asked, iam>>

\* Too early for another fetch: the last one's outcome stands.
Throttled(v) ==
    /\ calls[v].step = "remote" /\ ~calls[v].canceled
    /\ flight.step = "none" /\ age < Interval
    /\ Ends(v, Outcome(calls[v], keys, lastFailed))
    /\ UNCHANGED <<cache, asked, iam>>

\* The fetch gets a context without the caller's cancellation.
StartFetch(v) ==
    /\ calls[v].step = "remote" /\ ~calls[v].canceled
    /\ flight.step = "none" /\ age = Interval
    /\ flight' = [NoFlight EXCEPT !.step = "begun"]
    /\ age' = 0
    /\ asked' = published
    /\ Update(v, [calls[v] EXCEPT !.step = "wait"])
    /\ UNCHANGED <<keys, lastFailed, iam>>

JoinFetch(v) ==
    /\ calls[v].step = "remote" /\ ~calls[v].canceled
    /\ flight.step # "none"
    /\ Update(v, [calls[v] EXCEPT !.step = "wait"])
    /\ UNCHANGED <<cache, asked, iam>>

\* A waiter whose context has ended returns that, even if the fetch has landed.
StopsWaiting(v) ==
    /\ calls[v].step \in {"wait", "landed"} /\ calls[v].canceled
    /\ Ends(v, "canceled")
    /\ UNCHANGED <<cache, asked, iam>>

Collect(v) ==
    /\ calls[v].step = "landed" /\ ~calls[v].canceled
    /\ Ends(v, Outcome(calls[v], calls[v].got, calls[v].failed))
    /\ UNCHANGED <<cache, asked, iam>>

-----------------------------------------------------------------------------
\* The goroutine of the fetch.

\* IAM answers, or the request fails or times out, or the document is refused.
Serve ==
    /\ flight.step = "begun"
    /\ flight' = [step |-> "served", failed |-> ~up, got |-> IF up THEN published ELSE {}]
    /\ UNCHANGED <<keys, age, lastFailed, calls, asked, iam>>

\* What the fetch hands, of its document, to those who wait for it.
Handed ==
    [v \in Verifiers |->
        IF calls[v].step = "wait"
        THEN [calls[v] EXCEPT !.step = "landed", !.failed = flight.failed,
                              !.got = flight.got \cap {calls[v].key},
                              !.covered = ~flight.failed /\ calls[v].genuine /\ calls[v].key \in asked]
        ELSE calls[v]]

\* Slip: one of the waiters is told.
LandForOne ==
    /\ flight.step = "served"
    /\ lastFailed' = flight.failed
    /\ keys' = IF flight.failed THEN keys ELSE flight.got
    /\ flight' = NoFlight
    /\ \E v \in Verifiers :
        calls' = IF calls[v].step = "wait" THEN [calls EXCEPT ![v] = Handed[v]] ELSE calls
    /\ UNCHANGED <<age, asked, iam>>

\* Slip: whatever has come is what is known.
LandLosing ==
    /\ flight.step = "served"
    /\ lastFailed' = flight.failed
    /\ keys' = flight.got
    /\ flight' = NoFlight
    /\ calls' = Handed
    /\ UNCHANGED <<age, asked, iam>>

\* Slip: a fetch that has failed stays in its place.
LandStuck ==
    /\ flight.step = "served"
    /\ lastFailed' = flight.failed
    /\ keys' = IF flight.failed THEN keys ELSE flight.got
    /\ flight' = IF flight.failed THEN flight ELSE NoFlight
    /\ calls' = Handed
    /\ UNCHANGED <<age, asked, iam>>

\* Slip: the fetch runs under the context of whoever began it.
LandCanceled ==
    /\ flight.step = "served"
    /\ lastFailed' = flight.failed
    /\ keys' = IF flight.failed THEN keys ELSE flight.got
    /\ flight' = NoFlight
    /\ calls' = [v \in Verifiers |->
            IF calls[v].step = "wait"
               /\ \E w \in Verifiers : calls[w].canceled
            THEN NoCall("canceled") ELSE Handed[v]]
    /\ UNCHANGED <<age, asked, iam>>

Land ==
    /\ flight.step = "served"
    /\ lastFailed' = flight.failed
    /\ keys' = IF flight.failed THEN keys ELSE flight.got
    /\ flight' = NoFlight
    /\ calls' = Handed
    /\ UNCHANGED <<age, asked, iam>>

-----------------------------------------------------------------------------
\* Contexts, the clock and IAM.

\* A cancellation before remoteKeys is first noticed there.
Cancel(v) ==
    /\ calls[v].step \in {"remote", "wait", "landed"} /\ ~calls[v].canceled
    /\ Update(v, [calls[v] EXCEPT !.canceled = TRUE])
    /\ UNCHANGED <<cache, asked, iam>>

Tick ==
    /\ age < Interval
    /\ age' = age + 1
    /\ UNCHANGED <<keys, lastFailed, flight, calls, asked, iam>>

Publish(k) ==
    /\ k \notin published \cup retired
    /\ published' = published \cup {k}
    /\ UNCHANGED <<cache, calls, asked, retired, up>>

Withdraw(k) ==
    /\ k \in published /\ published # {k}
    /\ published' = published \ {k} /\ retired' = retired \cup {k}
    /\ asked' = asked \ {k}
    /\ UNCHANGED <<cache, calls, up>>

Toggle ==
    /\ up' = ~up
    /\ UNCHANGED <<cache, calls, asked, published, retired>>

-----------------------------------------------------------------------------
Proceed(v) ==
    \/ Look(v) \/ RemoteCanceled(v) \/ Throttled(v) \/ StartFetch(v) \/ JoinFetch(v)
    \/ StopsWaiting(v) \/ Collect(v)

Next ==
    \/ \E v \in Verifiers :
        \/ \E k \in Keys, genuine \in BOOLEAN : Begin(v, k, genuine)
        \/ Proceed(v)
        \/ Cancel(v)
    \/ Serve \/ Land
    \/ Tick
    \/ \E k \in Keys : Publish(k) \/ Withdraw(k)
    \/ Toggle

Spec == Init /\ [][Next]_vars

(* Goroutines are scheduled, the fetch is bounded by JWKSTimeout, and the    *)
(* clock runs.                                                              *)
FairSpec ==
    /\ Spec
    /\ \A v \in Verifiers : WF_vars(Proceed(v))
    /\ WF_vars(Serve) /\ WF_vars(Land) /\ WF_vars(Tick)

-----------------------------------------------------------------------------
(***************************************************************************)
(* A verification is told that a context was canceled only if its own was, *)
(* and not because the caller that happened to begin the fetch went away.  *)
(***************************************************************************)
OnlyOwnCancellation ==
    [][\A v \in Verifiers :
        calls[v].step # "done" /\ calls'[v].verdict = "canceled" => calls[v].canceled]_vars

(***************************************************************************)
(* A genuine token is not called invalid because IAM could not be asked,   *)
(* because the throttle answers or because others share the fetch: if the  *)
(* key was published when the fetch began whose outcome decides, then IAM  *)
(* has withdrawn it.  (A key published since may be refused until the      *)
(* interval is over.)                                                      *)
(***************************************************************************)
RejectedOnEvidence ==
    [][\A v \in Verifiers :
        /\ calls[v].step # "done" /\ calls'[v].step = "done"
        /\ calls'[v].verdict = "invalid" /\ calls[v].genuine
        /\ IF calls[v].step = "landed" THEN calls[v].covered ELSE calls[v].key \in asked
        => calls[v].key \in retired]_vars

(***************************************************************************)
(* A cached key that IAM still publishes is never lost: not to an outage,  *)
(* and not to the late landing of a document from before it was published. *)
(***************************************************************************)
KeyInForceIsKept == [][\A k \in keys : k \in published' => k \in keys']_vars

(***************************************************************************)
(* Every verification ends, whoever of those that share its fetch gives up *)
(* and whatever becomes of the fetch.                                      *)
(***************************************************************************)
EveryVerificationEnds ==
    \A v \in Verifiers : calls[v].step # "done" ~> calls[v].step = "done"

(***************************************************************************)
(* No outage and no early rejection is for ever: once IAM can be reached   *)
(* and goes on publishing a key, and callers have patience, tokens that    *)
(* keep naming the key get it cached.                                      *)
(***************************************************************************)
KeyGetsKnown ==
    \A k \in Keys :
        /\ <>[](up /\ k \in published)
        /\ <>[](\A v \in Verifiers : ~calls[v].canceled)
        /\ []<>(\E v \in Verifiers : calls[v].step = "remote" /\ calls[v].key = k)
        => <>(k \in keys)
=============================================================================
