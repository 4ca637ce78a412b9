--------------------------- MODULE JwksCacheProofs ---------------------------
(***************************************************************************)
(* The safety properties of JwksCache for any keys, any number of          *)
(* verifications and any interval.  A document that is on its way holds    *)
(* every cached key that is still published, since IAM publishes no key a  *)
(* second time, and every key that was published when the fetch began and  *)
(* still is; and only the end of a verification gives it a verdict.        *)
(***************************************************************************)
EXTENDS JwksCache, TLAPS

\* What is cached was published, and what was withdrawn stays withdrawn.
CacheInv ==
    /\ keys \subseteq published \cup retired
    /\ published \cap retired = {}
    /\ flight.step = "served" /\ ~flight.failed =>
        /\ flight.got \subseteq published \cup retired
        /\ keys \cap published \subseteq flight.got
        /\ asked \subseteq flight.got
    /\ asked \subseteq published
    /\ flight.step = "none" /\ ~lastFailed => asked \subseteq keys

\* A verification that is under way has no verdict yet.
VerdictInv == \A v \in Verifiers : calls[v].step # "done" => calls[v].verdict = "none"

\* A fetch that was to find the key found it, or IAM has withdrawn it since.
Backed(call, gone) ==
    call.step = "landed" /\ call.covered =>
        ~call.failed /\ (call.key \in call.got \/ call.key \in gone)

LandedInv == \A v \in Verifiers : Backed(calls[v], retired)

Inv == TypeOK /\ CacheInv /\ VerdictInv /\ LandedInv

-----------------------------------------------------------------------------
(* The calls the module makes are calls. *)
LEMMA CallTypes ==
    /\ \A k \in Keys, genuine \in BOOLEAN : NewCall(k, genuine) \in Call
    /\ \A verdict \in Verdicts :
        NoCall(verdict) \in Call /\ NoCall(verdict).step = "done"
        /\ NoCall(verdict).verdict = verdict
<1>1. \A k \in Keys, genuine \in BOOLEAN : NewCall(k, genuine) \in Call
    BY DEF NewCall, Call, Verdicts
<1> DEFINE first == NewCall(CHOOSE k \in Keys : TRUE, TRUE)
<1>2. first \in Call
    <2>1. (CHOOSE k \in Keys : TRUE) \in Keys
        BY JwksAssumption
    <2> QED  BY <1>1, <2>1
<1>3. \A verdict \in Verdicts :
        NoCall(verdict) = [first EXCEPT !.step = "done", !.verdict = verdict]
    BY DEF NoCall
<1> HIDE DEF first
<1>4. ASSUME NEW verdict \in Verdicts
      PROVE  NoCall(verdict) \in Call /\ NoCall(verdict).step = "done"
             /\ NoCall(verdict).verdict = verdict
    <2>1. [first EXCEPT !.step = "done"] \in Call
        BY <1>2 DEF Call
    <2>2. NoCall(verdict) = [[first EXCEPT !.step = "done"] EXCEPT !.verdict = verdict]
        BY <1>3
    <2> DEFINE ended == [first EXCEPT !.step = "done"]
    <2>3. ended \in Call /\ ended.step = "done"
        BY <2>1, <1>2 DEF Call
    <2> HIDE DEF ended
    <2>4. [ended EXCEPT !.verdict = verdict] \in Call
          /\ [ended EXCEPT !.verdict = verdict].step = "done"
          /\ [ended EXCEPT !.verdict = verdict].verdict = verdict
        BY <2>3 DEF Call
    <2> QED  BY <2>2, <2>4 DEF ended
<1> QED  BY <1>1, <1>4

(* The initial states satisfy the invariant. *)
LEMMA InitInv == Init => Inv
<1> SUFFICES ASSUME Init PROVE Inv
    OBVIOUS
<1>1. \A v \in Verifiers : calls[v] \in Call /\ calls[v].step = "done"
    BY CallTypes DEF Init, Verdicts
<1>2. calls \in [Verifiers -> Call]
    BY <1>1 DEF Init
<1>3. TypeOK
    <2>1. flight \in [step: {"none", "begun", "served"}, got: SUBSET Keys, failed: BOOLEAN]
        BY DEF Init, NoFlight
    <2>2. keys \subseteq Keys /\ lastFailed \in BOOLEAN /\ age = Interval
        BY Zenon DEF Init
    <2>3. age \in 0..Interval
        BY <2>2, JwksAssumption
    <2>4. published \subseteq Keys /\ retired \subseteq Keys /\ up \in BOOLEAN /\ asked \subseteq Keys
        BY JwksAssumption DEF Init
    <2> QED  BY <1>2, <2>1, <2>2, <2>3, <2>4 DEF TypeOK
<1>4. CacheInv
    BY DEF Init, CacheInv, NoFlight
<1>5. VerdictInv /\ LandedInv
    BY <1>1 DEF VerdictInv, LandedInv, Backed
<1> QED  BY <1>3, <1>4, <1>5 DEF Inv

\* The steps of one verification, and the calls they leave.
MakesCall(v, call) ==
    /\ call \in Call
    /\ call.step # "done" => call.verdict = "none"
    /\ Backed(call, retired)

(* A step that gives one verification a good call and leaves the rest alone *)
(* keeps the calls good.                                                    *)
LEMMA UpdateCall ==
    ASSUME Inv, NEW v \in Verifiers, NEW call, MakesCall(v, call), Update(v, call),
           UNCHANGED retired
    PROVE  calls' \in [Verifiers -> Call] /\ VerdictInv' /\ LandedInv'
<1> USE DEF Inv, TypeOK
<1>1. calls' \in [Verifiers -> Call]
    BY DEF Update, MakesCall
<1>2. VerdictInv'
    BY DEF Update, MakesCall, VerdictInv
<1>3. LandedInv'
    BY DEF Update, MakesCall, LandedInv
<1> QED  BY <1>1, <1>2, <1>3

(* A step of one verification keeps the invariant: it touches the cache only *)
(* to begin a fetch.                                                         *)
LEMMA ProceedInv ==
    ASSUME Inv, NEW v \in Verifiers, Proceed(v)
    PROVE  Inv'
<1> USE DEF Inv
<1> calls[v] \in Call
    BY DEF TypeOK
<1>1. \A verdict \in Verdicts : MakesCall(v, NoCall(verdict))
    BY CallTypes DEF MakesCall, Backed
<1>2. \A step \in {"remote", "wait"} : calls[v].step # "done" =>
            MakesCall(v, [calls[v] EXCEPT !.step = step])
    BY DEF MakesCall, Call, VerdictInv, Backed
<1>3. ASSUME NEW verdict \in Verdicts, Ends(v, verdict), UNCHANGED <<cache, asked, iam>>
      PROVE Inv'
    <2>1. calls' \in [Verifiers -> Call] /\ VerdictInv' /\ LandedInv'
        BY <1>1, <1>3, UpdateCall DEF Ends, iam
    <2> QED  BY <1>3, <2>1 DEF TypeOK, CacheInv, cache, iam
<1>4. ASSUME NEW step \in {"remote", "wait"}, calls[v].step # "done",
             Update(v, [calls[v] EXCEPT !.step = step]), UNCHANGED <<cache, asked, iam>>
      PROVE Inv'
    <2>1. calls' \in [Verifiers -> Call] /\ VerdictInv' /\ LandedInv'
        BY <1>2, <1>4, UpdateCall DEF iam
    <2> QED  BY <1>4, <2>1 DEF TypeOK, CacheInv, cache, iam
<1>5. \A ks : Judged(calls[v], ks) \in Verdicts
    BY DEF Judged, Verdicts
<1>6. \A ks, failed : Outcome(calls[v], ks, failed) \in Verdicts
    BY <1>5 DEF Outcome, Verdicts
<1>7. CASE Look(v)
    BY <1>7, <1>3, <1>4, <1>5 DEF Look
<1>8. CASE RemoteCanceled(v) \/ StopsWaiting(v)
    BY <1>8, <1>3 DEF RemoteCanceled, StopsWaiting, Verdicts
<1>9. CASE Throttled(v) \/ Collect(v)
    BY <1>9, <1>3, <1>6 DEF Throttled, Collect
<1>10. CASE JoinFetch(v)
    BY <1>10, <1>4 DEF JoinFetch
<1>11. CASE StartFetch(v)
    <2>1. calls' \in [Verifiers -> Call] /\ VerdictInv' /\ LandedInv'
        BY <1>2, <1>11, UpdateCall DEF StartFetch, iam
    <2>2. flight' \in [step: {"none", "begun", "served"}, got: SUBSET Keys, failed: BOOLEAN]
          /\ flight'.step = "begun"
        BY <1>11 DEF StartFetch, NoFlight
    <2> QED  BY <1>11, <2>1, <2>2, JwksAssumption DEF StartFetch, TypeOK, CacheInv, iam
<1> QED  BY <1>7, <1>8, <1>9, <1>10, <1>11 DEF Proceed

(* What a landing hands to those who wait is good: they get an answer that  *)
(* holds their key if the fetch was to find it.                             *)
LEMMA HandedCall ==
    ASSUME Inv, Land, NEW v \in Verifiers
    PROVE  /\ Handed[v] \in Call
           /\ Handed[v].step # "done" => Handed[v].verdict = "none"
           /\ Backed(Handed[v], retired)
<1> USE DEF Inv
<1>1. calls[v] \in Call /\ (calls[v].step # "done" => calls[v].verdict = "none")
      /\ Backed(calls[v], retired)
    BY DEF TypeOK, VerdictInv, LandedInv
<1>2. CASE calls[v].step # "wait"
    <2>1. Handed[v] = calls[v]
        BY <1>2 DEF Handed
    <2> QED  BY <1>1, <2>1
<1>3. CASE calls[v].step = "wait"
    <2>1. PICK got, failed, covered :
              /\ got = flight.got \cap {calls[v].key} /\ failed = flight.failed
              /\ covered = (~flight.failed /\ calls[v].genuine /\ calls[v].key \in asked)
        OBVIOUS
    <2>2. got \in SUBSET Keys /\ failed \in BOOLEAN /\ covered \in BOOLEAN
        BY <1>1, <2>1 DEF TypeOK
    <2>3. Handed[v] = [calls[v] EXCEPT !.step = "landed", !.failed = failed, !.got = got,
                                       !.covered = covered]
        BY <1>3, <2>1 DEF Handed
    <2>4. Handed[v] \in Call /\ Handed[v].verdict = "none"
        BY <1>1, <1>3, <2>2, <2>3 DEF Call
    <2>5. Handed[v].covered = covered /\ Handed[v].got = got /\ Handed[v].failed = failed
          /\ Handed[v].key = calls[v].key
        BY <1>1, <2>2, <2>3 DEF Call
    <2>6. covered => ~failed /\ calls[v].key \in got
        BY <2>1 DEF Land, CacheInv
    <2> QED  BY <2>4, <2>5, <2>6 DEF Backed
<1> QED  BY <1>2, <1>3

(* Every step keeps the invariant. *)
LEMMA NextInv == Inv /\ [Next]_vars => Inv'
<1> SUFFICES ASSUME Inv, [Next]_vars PROVE Inv'
    OBVIOUS
<1> USE DEF Inv
<1>1. ASSUME NEW v \in Verifiers, NEW k \in Keys, NEW genuine \in BOOLEAN,
             Begin(v, k, genuine)
      PROVE Inv'
    <2>1. MakesCall(v, NewCall(k, genuine))
        BY CallTypes DEF MakesCall, NewCall, Backed
    <2>2. calls' \in [Verifiers -> Call] /\ VerdictInv' /\ LandedInv'
        BY <1>1, <2>1, UpdateCall DEF Begin, iam
    <2> QED  BY <1>1, <2>2 DEF Begin, TypeOK, CacheInv, cache, iam
<1>2. ASSUME NEW v \in Verifiers, Proceed(v) PROVE Inv'
    BY <1>2, ProceedInv
<1>3. ASSUME NEW v \in Verifiers, Cancel(v) PROVE Inv'
    <2>1. calls[v] \in Call
        BY DEF TypeOK
    <2>2. MakesCall(v, [calls[v] EXCEPT !.canceled = TRUE])
        BY <1>3, <2>1 DEF Cancel, MakesCall, Call, VerdictInv, LandedInv, Backed
    <2>3. calls' \in [Verifiers -> Call] /\ VerdictInv' /\ LandedInv'
        BY <1>3, <2>2, UpdateCall DEF Cancel, iam
    <2> QED  BY <1>3, <2>3 DEF Cancel, TypeOK, CacheInv, cache, iam
<1>4. CASE Serve
    <2>1. flight'.failed = ~up /\ flight'.got = (IF up THEN published ELSE {})
          /\ flight' \in [step: {"none", "begun", "served"}, got: SUBSET Keys, failed: BOOLEAN]
        BY <1>4 DEF Serve, TypeOK
    <2> QED  BY <1>4, <2>1 DEF Serve, TypeOK, CacheInv, VerdictInv, LandedInv, iam
<1>5. CASE Land
    <2>1. \A v \in Verifiers : Handed[v] \in Call /\ (Handed[v].step # "done" => Handed[v].verdict = "none")
                               /\ Backed(Handed[v], retired)
        BY <1>5, HandedCall
    <2>2. calls' \in [Verifiers -> Call]
        BY <1>5, <2>1 DEF Land, Handed
    <2>3. VerdictInv' /\ LandedInv'
        BY <1>5, <2>1 DEF Land, VerdictInv, LandedInv, iam
    <2>4. keys' \subseteq Keys /\ lastFailed' \in BOOLEAN
        BY <1>5 DEF Land, TypeOK
    <2>5. CacheInv'
        BY <1>5 DEF Land, CacheInv, NoFlight, iam
    <2> QED  BY <1>5, <2>2, <2>3, <2>4, <2>5 DEF Land, TypeOK, NoFlight, iam
<1>6. CASE Tick
    BY <1>6, JwksAssumption DEF Tick, TypeOK, CacheInv, VerdictInv, LandedInv, iam
<1>7. ASSUME NEW k \in Keys, Publish(k) \/ Withdraw(k) PROVE Inv'
    <2>1. TypeOK' /\ CacheInv' /\ VerdictInv'
        BY <1>7 DEF Publish, Withdraw, TypeOK, CacheInv, VerdictInv, cache
    <2>2. calls' = calls /\ retired \subseteq retired'
        BY <1>7 DEF Publish, Withdraw
    <2>3. LandedInv'
        BY <2>2 DEF LandedInv, Backed
    <2> QED  BY <2>1, <2>3
<1>8. CASE Toggle
    BY <1>8 DEF Toggle, TypeOK, CacheInv, VerdictInv, LandedInv, cache
<1>9. CASE UNCHANGED vars
    BY <1>9 DEF vars, cache, iam, TypeOK, CacheInv, VerdictInv, LandedInv
<1> QED  BY <1>1, <1>2, <1>3, <1>4, <1>5, <1>6, <1>7, <1>8, <1>9 DEF Next

(* The invariant holds in every state. *)
LEMMA Invariance == Spec => []Inv
BY InitInv, NextInv, PTL DEF Spec

-----------------------------------------------------------------------------
(***************************************************************************)
(* verifySignature refuses a genuine token whose key was published before  *)
(* the fetch that decides only when IAM has withdrawn the key.             *)
(***************************************************************************)
THEOREM RejectionsAreFounded == Spec => RejectedOnEvidence
<1>1. Inv /\ [Next]_vars =>
        [\A v \in Verifiers :
            /\ calls[v].step # "done" /\ calls'[v].step = "done"
            /\ calls'[v].verdict = "invalid" /\ calls[v].genuine
            /\ IF calls[v].step = "landed" THEN calls[v].covered ELSE calls[v].key \in asked
            => calls[v].key \in retired]_vars
    <2> SUFFICES ASSUME Inv, Next, NEW v \in Verifiers,
                        calls[v].step # "done", calls'[v].step = "done",
                        calls'[v].verdict = "invalid", calls[v].genuine,
                        IF calls[v].step = "landed" THEN calls[v].covered
                        ELSE calls[v].key \in asked
                 PROVE  calls[v].key \in retired
        OBVIOUS
    <2> USE DEF Inv
    <2>1. calls[v] \in Call
        BY DEF TypeOK
    <2>2. \A w \in Verifiers : \A call : Update(w, call) =>
              calls'[v] = IF v = w THEN call ELSE calls[v]
        BY DEF Update, TypeOK
    <2>3. \A ks, failed : Outcome(calls[v], ks, failed) = "invalid" =>
              ~failed /\ calls[v].key \notin ks
        BY DEF Judged, Outcome
    <2>4. \A ks, failed : Judged(calls[v], ks) \in Verdicts /\ Outcome(calls[v], ks, failed) \in Verdicts
        BY DEF Judged, Outcome, Verdicts
    <2>5. ASSUME NEW verdict \in Verdicts, Ends(v, verdict) PROVE verdict = "invalid"
        BY <2>2, <2>5, CallTypes DEF Ends
    <2>6. PICK w \in Verifiers : (\E k \in Keys, genuine \in BOOLEAN : Begin(w, k, genuine))
                                \/ Proceed(w) \/ Cancel(w) \/ Land
        BY DEF Next, Serve, Tick, Publish, Withdraw, Toggle
    <2>7. CASE Land
        <3>1. calls'[v] = Handed[v] /\ Handed[v].step # "done"
            BY <2>1, <2>7 DEF Land, Handed, Call
        <3> QED  BY <3>1
    <2>8. CASE \E k \in Keys, genuine \in BOOLEAN : Begin(w, k, genuine)
        BY <2>2, <2>8 DEF Begin
    <2>9. CASE Cancel(w)
        <3>1. [calls[v] EXCEPT !.canceled = TRUE].step = calls[v].step
            BY <2>1 DEF Call
        <3> QED  BY <2>2, <2>9, <3>1 DEF Cancel
    <2>10. CASE Proceed(w) /\ w # v
        BY <2>2, <2>10 DEF Proceed, Look, RemoteCanceled, Throttled, StartFetch, JoinFetch,
                           StopsWaiting, Collect, Ends
    <2>11. CASE Proceed(v)
        <3>1. CASE Look(v)
            <4>1. [calls[v] EXCEPT !.step = "remote"].step = "remote"
                BY <2>1 DEF Call
            <4>2. calls[v].key \in keys /\ Ends(v, Judged(calls[v], keys))
                BY <2>2, <3>1, <4>1 DEF Look
            <4>3. Judged(calls[v], keys) = "valid"
                BY <4>2 DEF Judged
            <4> QED  BY <2>4, <2>5, <4>2, <4>3
        <3>2. CASE RemoteCanceled(v) \/ StopsWaiting(v)
            BY <2>5, <3>2 DEF RemoteCanceled, StopsWaiting, Verdicts
        <3>3. CASE Throttled(v)
            <4>1. ~lastFailed /\ calls[v].key \notin keys
                BY <2>3, <2>4, <2>5, <3>3 DEF Throttled
            <4> QED  BY <3>3, <4>1 DEF Throttled, CacheInv
        <3>4. CASE Collect(v)
            <4>1. calls[v].key \notin calls[v].got
                BY <2>3, <2>4, <2>5, <3>4 DEF Collect
            <4> QED  BY <3>4, <4>1 DEF Collect, LandedInv, Backed
        <3>5. CASE StartFetch(v) \/ JoinFetch(v)
            <4>1. [calls[v] EXCEPT !.step = "wait"].step = "wait"
                BY <2>1 DEF Call
            <4> QED  BY <2>2, <3>5, <4>1 DEF StartFetch, JoinFetch
        <3> QED  BY <2>11, <3>1, <3>2, <3>3, <3>4, <3>5 DEF Proceed
    <2> QED  BY <2>6, <2>7, <2>8, <2>9, <2>10, <2>11
<1> QED  BY <1>1, Invariance, PTL DEF Spec, RejectedOnEvidence

(***************************************************************************)
(* remoteKeys never loses a cached key that IAM still publishes.           *)
(***************************************************************************)
THEOREM KeysInForceStay == Spec => KeyInForceIsKept
<1>1. Inv /\ [Next]_vars => [\A k \in keys : k \in published' => k \in keys']_vars
    <2> SUFFICES ASSUME Inv, Next, NEW k \in keys, k \in published'
                 PROVE  k \in keys'
        OBVIOUS
    <2>1. CASE Land
        BY <2>1 DEF Land, Inv, CacheInv, iam
    <2>2. CASE ~Land
        BY <2>2 DEF Next, Begin, Proceed, Look, RemoteCanceled, Throttled, StartFetch,
                    JoinFetch, StopsWaiting, Collect, Cancel, Serve, Tick, Publish,
                    Withdraw, Toggle, cache
    <2> QED  BY <2>1, <2>2
<1> QED  BY <1>1, Invariance, PTL DEF Spec, KeyInForceIsKept

(***************************************************************************)
(* verifySignature tells a caller of a cancellation only if that caller's  *)
(* context was canceled.                                                   *)
(***************************************************************************)
THEOREM CancellationIsOnesOwn == Spec => OnlyOwnCancellation
<1>1. Inv /\ [Next]_vars =>
        [\A v \in Verifiers :
            calls[v].step # "done" /\ calls'[v].verdict = "canceled" => calls[v].canceled]_vars
    <2> SUFFICES ASSUME Inv, Next, NEW v \in Verifiers, calls[v].step # "done",
                        calls'[v].verdict = "canceled"
                 PROVE  calls[v].canceled
        OBVIOUS
    <2> USE DEF Inv, Verdicts
    <2>1. calls[v] \in Call /\ calls[v].verdict = "none"
        BY DEF TypeOK, VerdictInv
    <2>2. \A w \in Verifiers : \A call : Update(w, call) =>
              calls'[v] = IF v = w THEN call ELSE calls[v]
        BY DEF Update, TypeOK
    <2>3. \A ks, failed : Judged(calls[v], ks) # "canceled" /\ Judged(calls[v], ks) \in Verdicts
              /\ Outcome(calls[v], ks, failed) # "canceled" /\ Outcome(calls[v], ks, failed) \in Verdicts
        BY DEF Judged, Outcome
    <2>4. ASSUME NEW w \in Verifiers, NEW k \in Keys, NEW genuine \in BOOLEAN,
                 Begin(w, k, genuine)
          PROVE calls[v].canceled
        BY <2>1, <2>2, <2>4 DEF Begin
    <2>5. ASSUME NEW w \in Verifiers, Proceed(w) PROVE calls[v].canceled
        <3>1. CASE w # v
            BY <2>1, <2>2, <2>5, <3>1 DEF Proceed, Look, RemoteCanceled, Throttled, StartFetch,
                                        JoinFetch, StopsWaiting, Collect, Ends
        <3>2. CASE RemoteCanceled(v) \/ StopsWaiting(v)
            BY <3>2 DEF RemoteCanceled, StopsWaiting
        <3>3. ASSUME NEW verdict \in Verdicts, Ends(v, verdict) PROVE verdict = "canceled"
            BY <2>2, <3>3, CallTypes DEF Ends
        <3>4. CASE Throttled(v) \/ Collect(v)
            BY <2>3, <3>3, <3>4 DEF Throttled, Collect
        <3>5. CASE Look(v)
            <4>1. \A step : [calls[v] EXCEPT !.step = step].verdict = "none"
                BY <2>1 DEF Call
            <4> QED  BY <2>2, <2>3, <3>3, <3>5, <4>1 DEF Look
        <3>6. CASE StartFetch(v) \/ JoinFetch(v)
            <4>1. \A step : [calls[v] EXCEPT !.step = step].verdict = "none"
                BY <2>1 DEF Call
            <4> QED  BY <2>2, <3>6, <4>1 DEF StartFetch, JoinFetch
        <3> QED  BY <2>5, <3>1, <3>2, <3>4, <3>5, <3>6 DEF Proceed
    <2>6. ASSUME NEW w \in Verifiers, Cancel(w) PROVE calls[v].canceled
        <3>1. [calls[v] EXCEPT !.canceled = TRUE].verdict = "none"
            BY <2>1 DEF Call
        <3> QED  BY <2>1, <2>2, <2>6, <3>1 DEF Cancel
    <2>7. CASE Land
        <3>1. Handed[v].verdict = "none"
            BY <2>1 DEF Handed, Call
        <3> QED  BY <2>7, <3>1 DEF Land
    <2>8. CASE Serve \/ Tick \/ Toggle \/ \E k \in Keys : Publish(k) \/ Withdraw(k)
        BY <2>1, <2>8 DEF Serve, Tick, Toggle, Publish, Withdraw
    <2> QED  BY <2>4, <2>5, <2>6, <2>7, <2>8 DEF Next
<1> QED  BY <1>1, Invariance, PTL DEF Spec, OnlyOwnCancellation
=============================================================================
