------------------------ MODULE RefreshProtocolProofs ------------------------
(***************************************************************************)
(* The safety of RefreshProtocol for any number of resolvers and logouts,  *)
(* any lifetimes and any clock.                                            *)
(*                                                                         *)
(* The argument is by rely and guarantee.  Rely says what no step of       *)
(* anybody ever does to the store, to IAM and to the clock: a request may  *)
(* count on it between two of its own steps, however stale what it read    *)
(* has become.  RequestInv says what one request knows.  Every action      *)
(* keeps Rely and its own request's RequestInv, and Rely alone keeps       *)
(* everybody else's.                                                       *)
(***************************************************************************)
EXTENDS RefreshProtocol, TLAPS

\* A session as the protocol makes them: its tokens were granted, and its
\* idle deadline is that of its last use.
WellFormed(s) ==
    /\ s.payload.access <= minted /\ s.payload.refresh <= minted
    /\ s.idleExpiresAt = Earlier(s.payload.lastSeen + IdleTTL, s.expiresAt)

\* Where a request works on a session that it has read.
HasItem == {"loaded", "acquire", "wait", "refreshed", "touch", "swap", "touchReload"}
              \cup UnderLease

HasNext == {"verify", "commit", "swap"}

\* An error decided upon keeps its way through the release and the purge.
Undecided == Steps \ {"purge", "purgeReload", "release", "done"}

PlaceInv(r) ==
    /\ r \in Logouts => pc[r] \in {"start", "delete", "endSession", "done"}
    /\ pc[r] \in {"delete", "endSession"} => r \in Logouts
    /\ pc[r] \in Undecided => outcome[r] = "none"
    /\ lease[r] # NoLease <=> pc[r] \in UnderLease

\* A session that was stored once.  A version names a content: who has seen
\* the stored version has the stored session.
Known(s) ==
    /\ WellFormed(s)
    /\ s.payload.access \in committed
    /\ Present(Sid) =>
        /\ s.version <= Stored.version
        /\ s.version = Stored.version => s = Stored

ItemInv(r) ==
    /\ pc[r] \in HasItem => item[r] # NoSession
    /\ r \in Resolvers /\ pc[r] = "done" /\ outcome[r] = "ok" => item[r] # NoSession
    /\ item[r] # NoSession => Known(item[r])

\* What a request is about to store keeps everything but the tokens, or
\* nothing but the tokens and the absolute deadline.
NextInv(r) ==
    /\ pc[r] \in HasNext => next[r] # NoSession /\ next[r].expiresAt = item[r].expiresAt
    /\ pc[r] \in {"verify", "commit"} =>
        /\ WellFormed(next[r])
        /\ next[r].payload.access > item[r].payload.access
        /\ next[r].payload.refresh >= item[r].payload.refresh
        /\ next[r].payload.lastSeen = item[r].payload.lastSeen
        /\ next[r].idleExpiresAt = item[r].idleExpiresAt
    /\ pc[r] = "swap" =>
        /\ WellFormed(next[r])
        /\ next[r].payload.access = item[r].payload.access
        /\ next[r].payload.refresh = item[r].payload.refresh
        /\ next[r].payload.lastSeen >= item[r].payload.lastSeen

TokenInv(r) ==
    /\ pc[r] = "exchange" => item[r].payload.refresh # 0
    /\ pc[r] \in {"purge", "purgeReload"} => item[r].payload.refresh \notin accepted

\* The lease that made a request wait does not outlive the wait.
WaitInv(r) ==
    pc[r] = "wait" =>
        /\ rival[r] <= nextFence
        /\ leases[Sid] # NoLease /\ leases[Sid].fence = rival[r] =>
            leases[Sid].expiresAt <= deadline[r]

GoneInv(r) ==
    /\ pc[r] = "endSession" => ~Present(Sid)
    /\ r \in Logouts /\ pc[r] = "done" /\ outcome[r] = "ok" => ~Present(Sid)

RetryInv(r) ==
    /\ WithinRetries(r)
    /\ pc[r] \in {"start", "loaded"} => tries[r] = 0

RequestInv(r) ==
    /\ PlaceInv(r) /\ ItemInv(r) /\ NextInv(r) /\ TokenInv(r) /\ WaitInv(r) /\ GoneInv(r)
    /\ RetryInv(r)

StoreInv ==
    /\ Present(Sid) => WellFormed(Stored) /\ Stored.payload.access \in committed
    /\ leases[Sid] # NoLease =>
        /\ leases[Sid].fence <= nextFence
        /\ leases[Sid].expiresAt <= now + LeaseTTL

\* A lease in force was granted to a request at work under it, or to nobody.
HeldOrOrphaned ==
    LeaseLive(Sid) =>
        \/ Remote /\ leases[Sid].fence \in orphans
        \/ \E r \in Resolvers : pc[r] \in UnderLease /\ Holds(r)

Inv ==
    /\ Typed
    /\ StoreInv
    /\ HeldOrOrphaned
    /\ \A r \in Requests : RequestInv(r)

\* The only way a stored session changes: no token, no use and no deadline
\* goes back, and the absolute deadline does not move.
Supersedes(new, old) ==
    /\ old.version < new.version
    /\ old.payload.access <= new.payload.access
    /\ old.payload.refresh <= new.payload.refresh
    /\ old.payload.lastSeen <= new.payload.lastSeen
    /\ old.idleExpiresAt <= new.idleExpiresAt
    /\ old.expiresAt = new.expiresAt

SameTokens(new, old) ==
    /\ new.payload.access = old.payload.access
    /\ new.payload.refresh = old.payload.refresh

\* Only the holder of the lease in force renews the stored tokens.
Renews(r) ==
    /\ pc[r] = "commit" /\ pc'[r] = "release"
    /\ OwnsLease(lease[r], Sid)

\* What every step keeps to, whoever takes it.
Rely ==
    /\ now <= now'
    /\ Present(Sid)' => Present(Sid) /\ (Stored' = Stored \/ Supersedes(Stored', Stored))
    /\ Present(Sid)' => SameTokens(Stored', Stored) \/ \E r \in Resolvers : Renews(r)
    /\ \/ leases'[Sid] \in {leases[Sid], NoLease}
       \/ leases'[Sid].fence > nextFence
    /\ nextFence <= nextFence'
    /\ minted <= minted'
    /\ accepted' \subseteq accepted \cup {minted + 1}
    /\ committed \subseteq committed'
    /\ orphans \subseteq orphans'


\* A step of one request leaves the others alone.
Same(s) ==
    /\ pc'[s] = pc[s] /\ item'[s] = item[s] /\ next'[s] = next[s] /\ lease'[s] = lease[s]
    /\ deadline'[s] = deadline[s] /\ outcome'[s] = outcome[s] /\ rival'[s] = rival[s]
    /\ tries'[s] = tries[s]

OthersSame(r)  == \A s \in Requests \ {r} : Same(s)
OthersTries(r) == \A s \in Requests \ {r} : tries'[s] = tries[s]
OthersWait(r)  == \A s \in Requests \ {r} : deadline'[s] = deadline[s] /\ rival'[s] = rival[s]

-----------------------------------------------------------------------------
(* What others do, within Rely, takes nothing from what a request knows. *)
LEMMA RelyKeepsOthers ==
    ASSUME Inv, Rely, Typed', NEW s \in Requests, Same(s)
    PROVE  RequestInv(s)'
<1> USE DEF Inv, RequestInv
<1>0. /\ RequestInv(s)
      /\ minted \in Nat /\ minted' \in Nat /\ nextFence \in Nat /\ nextFence' \in Nat
      /\ Present(Sid) => Stored \in Session
      /\ Present(Sid)' => Stored' \in Session
      /\ item[s] # NoSession => item[s] \in Session
      /\ next[s] # NoSession => next[s] \in Session
      /\ leases[Sid] # NoLease => leases[Sid] \in Lease
      /\ rival[s] \in Nat /\ deadline[s] \in Nat
  BY ProtocolAssumption DEF Typed, StoreTypeOK, Present, Stored
<1>1. PlaceInv(s)'
  BY <1>0 DEF PlaceInv, Same
<1>2. ItemInv(s)'
  BY <1>0 DEF ItemInv, Known, Same, Rely, Supersedes, WellFormed, Session, Content, Stored, Present
<1>3. NextInv(s)'
  BY <1>0 DEF NextInv, Same, Rely, WellFormed, Session, Content, HasNext
<1>4. TokenInv(s)'
  BY <1>0 DEF TokenInv, ItemInv, Known, HasItem, UnderLease, Same, Rely, WellFormed, Session,
              Content
<1>5. WaitInv(s)'
  BY <1>0 DEF WaitInv, Same, Rely, Lease
<1>6. GoneInv(s)'
  BY <1>0 DEF GoneInv, Same, Rely, Present
<1>7. RetryInv(s)'
  BY <1>0 DEF RetryInv, WithinRetries, Same
<1> QED
  BY <1>1, <1>2, <1>3, <1>4, <1>5, <1>6, <1>7

(* A step of one request, taken within Rely, keeps the invariant if it    *)
(* keeps that request's part of it and what the requests share.           *)
LEMMA RequestStep ==
    ASSUME Inv, Typed', Rely, StoreInv', HeldOrOrphaned',
           NEW r \in Requests, RequestInv(r)', OthersSame(r)
    PROVE  Inv'
BY RelyKeepsOthers DEF Inv, OthersSame

(* A lease in force stays its holder's, as long as no holder moves away. *)
LEMMA LeaseStaysHeld ==
    ASSUME Inv, Typed', now <= now', leases'[Sid] \in {leases[Sid], NoLease},
           orphans \subseteq orphans',
           \A s \in Resolvers : pc[s] \in UnderLease =>
                pc'[s] \in UnderLease /\ lease'[s] = lease[s]
    PROVE  HeldOrOrphaned'
<1> SUFFICES ASSUME LeaseLive(Sid)', ~(Remote /\ leases'[Sid].fence \in orphans)
             PROVE  \E r \in Resolvers : pc'[r] \in UnderLease /\ lease'[r] # NoLease
                                          /\ OwnsLease(lease[r], Sid)' /\ lease'[r] = lease[r]
  BY DEF HeldOrOrphaned, Holds, OwnsLease
<1>1. leases'[Sid] = leases[Sid] /\ LeaseLive(Sid) /\ now \in Nat /\ now' \in Nat
      /\ leases[Sid].expiresAt \in Nat
  BY ProtocolAssumption DEF LeaseLive, Inv, Typed, StoreTypeOK, Lease
<1>2. PICK r \in Resolvers : /\ pc[r] \in UnderLease /\ lease[r] # NoLease
                             /\ OwnsLease(lease[r], Sid)
  BY <1>1 DEF Inv, HeldOrOrphaned, Holds
<1> QED
  BY <1>1, <1>2 DEF OwnsLease, LeaseLive

-----------------------------------------------------------------------------
\* The calls of the store, each by what it does to the one session.

\* What calls other than a write, a grant and a release do.
KeepOrDrop == UNCHANGED storeVars \/ DeleteSession(Sid)

(* A read leaves the session alone or finds it gone. *)
LEMMA GetCalls ==
    /\ Get(Sid, "ok") => Live(Sid) /\ UNCHANGED storeVars
    /\ Missing => KeepOrDrop /\ (Typed => ~Present(Sid)')
BY DEF Get, Missing, KeepOrDrop, DeleteSession, Present, storeVars, Typed, StoreTypeOK

(* So does every refusal of a lease. *)
LEMMA RefuseCalls ==
    ASSUME NEW res, RefuseLease(Sid, res)
    PROVE  /\ KeepOrDrop
           /\ res = "Conflict" => LeaseLive(Sid) /\ UNCHANGED storeVars
BY DEF RefuseLease, KeepOrDrop

(* Keeping or dropping the session disturbs nobody. *)
LEMMA KeepOrDropIsRely ==
    ASSUME Inv, KeepOrDrop, UNCHANGED <<now, minted, committed, orphans>>,
           accepted' \subseteq accepted
    PROVE  /\ Rely /\ StoreInv' /\ StoreTypeOK'
           /\ leases'[Sid] \in {leases[Sid], NoLease}
           /\ Present(Sid)' => Stored' = Stored
<1> USE ProtocolAssumption DEF Inv, Typed, StoreTypeOK
<1>1. CASE UNCHANGED storeVars
  BY <1>1 DEF storeVars, Rely, SameTokens, StoreInv, Present, Stored, WellFormed
<1>2. CASE DeleteSession(Sid)
  BY <1>2 DEF DeleteSession, Rely, SameTokens, StoreInv, Present, Stored, WellFormed
<1> QED
  BY <1>1, <1>2 DEF KeepOrDrop

-----------------------------------------------------------------------------
\* One lemma for each action of a request.

\* The request stays under its lease, if it has one, until the release.
StaysUnderLease(r) ==
    pc[r] \in UnderLease => pc'[r] \in UnderLease /\ lease'[r] = lease[r]

(* Every step but a grant and a release is a move of this kind. *)
LEMMA Move ==
    ASSUME Inv, Typed', Rely, StoreInv', leases'[Sid] \in {leases[Sid], NoLease},
           NEW r \in Requests, OthersSame(r), StaysUnderLease(r), RequestInv(r)'
    PROVE  Rely /\ Inv' /\ OthersSame(r)
<1>1. HeldOrOrphaned'
  BY LeaseStaysHeld DEF OthersSame, Same, StaysUnderLease, Rely, Requests
<1> QED
  BY <1>1, RequestStep

(* What a request knows of a session it knows still. *)
LEMMA StillKnown ==
    ASSUME Inv, Typed', Rely, NEW r \in Requests, item[r] # NoSession, item'[r] = item[r]
    PROVE  Known(item[r])'
<1>1. /\ item[r] \in Session /\ Known(item[r])
      /\ minted \in Nat /\ minted' \in Nat
      /\ Present(Sid) => Stored \in Session
      /\ Present(Sid)' => Stored' \in Session
  BY ProtocolAssumption DEF Inv, Typed, StoreTypeOK, Present, Stored, RequestInv, ItemInv
<1> QED
  BY <1>1 DEF Known, Rely, Supersedes, WellFormed, Session, Content

(* An error ends the request, by way of the release. *)
LEMMA FailsAnyway ==
    ASSUME Inv, Typed', NEW r \in Requests, NEW result \in Outcomes \ {"ok", "none"},
           Rely, StoreInv', HeldOrOrphaned', Fail(r, result),
           UNCHANGED <<item, next, lease>>, OthersTries(r), OthersWait(r)
    PROVE  Rely /\ Inv' /\ OthersSame(r)
<1>2. OthersSame(r)
  BY DEF Inv, Typed, Fail, OthersSame, Same, OthersTries, OthersWait
<1>3. PlaceInv(r)'
  BY DEF Inv, Typed, RequestInv, PlaceInv, Fail, Undecided, UnderLease, HasItem, Requests,
         Logouts
<1>4. pc'[r] \in {"release", "done"} /\ outcome'[r] # "ok" /\ item'[r] = item[r]
      /\ (pc'[r] = "release" => pc[r] \in UnderLease)
  BY DEF Inv, Typed, RequestInv, PlaceInv, Fail
<1>5. ItemInv(r)'
  BY <1>4, StillKnown DEF Inv, RequestInv, ItemInv, HasItem, UnderLease
<1>6. NextInv(r)' /\ TokenInv(r)' /\ WaitInv(r)' /\ GoneInv(r)' /\ RetryInv(r)'
  BY <1>4 DEF NextInv, TokenInv, WaitInv, GoneInv, HasNext, RetryInv, WithinRetries
<1> QED
  BY <1>2, <1>3, <1>5, <1>6, RequestStep DEF RequestInv

(* So it does when the store has kept or dropped the session, *)
LEMMA FailDropStep ==
    ASSUME Inv, Typed', NEW r \in Requests, NEW result \in Outcomes \ {"ok", "none"},
           KeepOrDrop, Fail(r, result),
           UNCHANGED <<now, item, next, lease, minted, accepted, committed, orphans>>,
           OthersTries(r), OthersWait(r)
    PROVE  Rely /\ Inv' /\ OthersSame(r)
<1>1. Rely /\ StoreInv' /\ leases'[Sid] \in {leases[Sid], NoLease}
  BY KeepOrDropIsRely
<1>2. \A s \in Resolvers : pc[s] \in UnderLease =>
          pc'[s] \in UnderLease /\ lease'[s] = lease[s]
  BY DEF Inv, Typed, RequestInv, PlaceInv, Fail, UnderLease, Requests
<1>3. HeldOrOrphaned'
  BY <1>1, <1>2, LeaseStaysHeld DEF Rely
<1> QED
  BY <1>1, <1>3, FailsAnyway

(* and above all when it was not waiting. *)
LEMMA FailStep ==
    ASSUME Inv, Typed', NEW r \in Requests, NEW result \in Outcomes \ {"ok", "none"},
           KeepOrDrop, Fail(r, result),
           UNCHANGED <<now, item, next, lease, deadline, minted, accepted, history>>,
           OthersTries(r)
    PROVE  Rely /\ Inv' /\ OthersSame(r)
BY FailDropStep DEF history, OthersWait

(* The end of its wait is the business of the request that waited. *)
LEMMA WaitEndsAlone ==
    ASSUME Inv, NEW r \in Requests, WaitEnds(r)
    PROVE  /\ OthersWait(r)
           /\ deadline' \in [Requests -> Nat] /\ rival' \in [Requests -> 0..MaxFence]
BY ProtocolAssumption DEF WaitEnds, OthersWait, Inv, Typed

(* A request goes on to a step that asks for nothing new. *)
LEMMA GoOnStep ==
    ASSUME Inv, Typed', NEW r \in Resolvers, NEW step \in HasItem \ HasNext, step # "wait",
           KeepOrDrop, GoTo(r, step), UNCHANGED <<now, item, next, lease, deadline, iam, history>>,
           OthersTries(r),
           pc[r] \in HasItem,
           step \in UnderLease <=> pc[r] \in UnderLease,
           step \in Undecided => pc[r] \in Undecided,
           step = "exchange" => item[r].payload.refresh # 0,
           step \in {"purge", "purgeReload"} => pc[r] \in {"purge", "purgeReload"},
           RetryInv(r)'
    PROVE  Rely /\ Inv' /\ OthersSame(r)
<1>1. Rely /\ StoreInv' /\ leases'[Sid] \in {leases[Sid], NoLease}
  BY KeepOrDropIsRely DEF history, iam
<1>2. /\ r \in Requests /\ pc'[r] = step /\ outcome'[r] = outcome[r]
      /\ item'[r] = item[r] /\ lease'[r] = lease[r]
  BY DEF Inv, Typed, GoTo, Requests
<1>3. OthersSame(r) /\ StaysUnderLease(r)
  BY <1>2 DEF Inv, Typed, GoTo, OthersSame, OthersTries, Same, history, StaysUnderLease
<1>4. PlaceInv(r)'
  BY <1>2, ProtocolAssumption DEF Inv, RequestInv, PlaceInv, HasItem, UnderLease
<1>5. ItemInv(r)'
  BY <1>1, <1>2, StillKnown DEF Inv, RequestInv, ItemInv, HasItem, UnderLease
<1>6. TokenInv(r)'
  BY <1>2 DEF Inv, RequestInv, TokenInv, iam
<1>7. NextInv(r)' /\ WaitInv(r)' /\ GoneInv(r)'
  BY <1>2, ProtocolAssumption DEF NextInv, WaitInv, GoneInv, HasNext, HasItem, UnderLease
<1> QED
  BY <1>1, <1>2, <1>3, <1>4, <1>5, <1>6, <1>7, Move DEF RequestInv

(* A read that succeeds lets the request see the stored session. *)
LEMMA FoundStep ==
    ASSUME Inv, Typed', NEW r \in Requests, OthersSame(r), StaysUnderLease(r),
           Get(Sid, "ok"), Read(r), UNCHANGED <<now, iam, committed, orphans>>, PlaceInv(r)',
           pc'[r] \notin HasNext \cup {"exchange", "wait", "endSession"},
           r \in Resolvers \/ pc'[r] # "done",
           pc'[r] = "purge" => Stored.payload.refresh \notin accepted,
           pc'[r] # "purgeReload", RetryInv(r)'
    PROVE  Rely /\ Inv' /\ OthersSame(r)
<1>1. Live(Sid) /\ UNCHANGED storeVars
  BY GetCalls
<1>2. Rely /\ StoreInv' /\ leases'[Sid] \in {leases[Sid], NoLease}
  BY <1>1, KeepOrDropIsRely DEF KeepOrDrop, history, iam
<1>3. /\ item'[r] = Stored /\ Stored \in Session /\ Stored # NoSession
      /\ Stored' = Stored
  BY <1>1, ProtocolAssumption
  DEF Inv, Typed, StoreTypeOK, Read, Live, Present, Stored, storeVars
<1>4. Known(item[r])'
  BY <1>1, <1>3, ProtocolAssumption
  DEF Known, WellFormed, StoreInv, Live, Present, Session, iam, history, Inv
<1>5. ItemInv(r)'
  BY <1>3, <1>4 DEF ItemInv
<1>6. TokenInv(r)'
  BY <1>3 DEF TokenInv, iam
<1>7. NextInv(r)' /\ WaitInv(r)'
  BY DEF NextInv, WaitInv, HasNext
<1>8. GoneInv(r)'
  BY ProtocolAssumption DEF GoneInv
<1> QED
  BY <1>2, <1>5, <1>6, <1>7, <1>8, Move DEF RequestInv

(* ResolveSession loads the session. *)
LEMMA LoadStep ==
    ASSUME Inv, NEW r \in Requests, Load(r)
    PROVE  Rely /\ Inv' /\ OthersSame(r)
<1> USE ProtocolAssumption
<1>0. r \in Resolvers
  BY DEF Load, Inv, RequestInv, PlaceInv, Requests
<1>1. StoreTypeOK'
  BY GetCalls, KeepOrDropIsRely DEF Load, KeepOrDrop, history, iam, store, storeVars, Inv
<1>2. Typed'
  BY <1>1, GetCalls
  DEF Load, Inv, Typed, StoreTypeOK, Read, GoTo, Fail, Live, Present, Steps, Outcomes,
      iam, history
<1>9. OthersTries(r) /\ RetryInv(r)'
  BY GetCalls
  DEF Load, Inv, Typed, RequestInv, PlaceInv, RetryInv, WithinRetries, OthersTries, Read, GoTo,
      Fail, Live, Present, Missing, Get, Stale
<1>3. CASE Get(Sid, "ok") /\ Read(r) /\ GoTo(r, "loaded")
  <2>1. OthersSame(r) /\ StaysUnderLease(r) /\ PlaceInv(r)'
    BY <1>3 DEF Load, Inv, Typed, RequestInv, PlaceInv, Read, GoTo, Fail, OthersSame, Same,
       history, StaysUnderLease, UnderLease, Undecided, Steps, Requests, Logouts
  <2>2. pc'[r] \notin HasNext \cup {"exchange", "wait", "endSession", "purgeReload"}
    BY <1>3 DEF Load, Inv, Typed, GoTo, Fail, HasNext, PlaceInv, RequestInv
  <2> QED
    BY <1>0, <1>2, <1>3, <2>1, <2>2, <1>9, FoundStep
    DEF history, Load, Inv, RequestInv, TokenInv, Typed, GoTo, Fail
<1>4. CASE Missing /\ Fail(r, "unauthenticated") /\ UNCHANGED item
  BY <1>2, <1>4, GetCalls, <1>9, FailStep DEF Load, Outcomes, iam
<1> QED
  BY <1>3, <1>4 DEF Load

(* It decides whether the tokens need renewing. *)
LEMMA DecideStep ==
    ASSUME Inv, NEW r \in Requests, Decide(r)
    PROVE  Rely /\ Inv' /\ OthersSame(r)
<1> USE ProtocolAssumption
<1>0. r \in Resolvers
  BY DEF Decide, Inv, RequestInv, PlaceInv, Requests
<1>1. StoreTypeOK'
  BY GetCalls, KeepOrDropIsRely DEF Decide, KeepOrDrop, history, iam, store, storeVars, Inv
<1>2. Typed'
  BY <1>1, GetCalls
  DEF Decide, Inv, Typed, StoreTypeOK, Read, GoTo, Fail, Live, Present, Steps, Outcomes,
      iam, history
<1>9. OthersTries(r) /\ RetryInv(r)'
  BY GetCalls
  DEF Decide, Inv, Typed, RequestInv, PlaceInv, RetryInv, WithinRetries, OthersTries, Read, GoTo,
      Fail, Live, Present, Missing, Get, Stale
<1>3. CASE Fail(r, "unauthenticated")
  BY <1>2, <1>3, <1>9, FailStep DEF Decide, Outcomes, KeepOrDrop, Get, store, storeVars, iam
<1>4. CASE GoTo(r, "acquire")
  BY <1>0, <1>2, <1>4, <1>9, GoOnStep
  DEF Decide, KeepOrDrop, store, storeVars, HasItem, HasNext, UnderLease, Undecided, Steps
<1>5. CASE GoTo(r, "touch")
  BY <1>0, <1>2, <1>5, <1>9, GoOnStep
  DEF Decide, KeepOrDrop, store, storeVars, HasItem, HasNext, UnderLease, Undecided, Steps
<1> QED
  BY <1>3, <1>4, <1>5 DEF Decide

(* The holder of the lease looks again. *)
LEMMA RecheckStep ==
    ASSUME Inv, NEW r \in Requests, Recheck(r)
    PROVE  Rely /\ Inv' /\ OthersSame(r)
<1> USE ProtocolAssumption
<1>0. r \in Resolvers
  BY DEF Recheck, Inv, RequestInv, PlaceInv, Requests
<1>1. StoreTypeOK'
  BY GetCalls, KeepOrDropIsRely DEF Recheck, KeepOrDrop, history, iam, store, storeVars, Inv
<1>2. Typed'
  BY <1>1, GetCalls
  DEF Recheck, Inv, Typed, StoreTypeOK, Read, GoTo, Fail, Live, Present, Steps, Outcomes,
      iam, history
<1>9. OthersTries(r) /\ RetryInv(r)'
  BY GetCalls
  DEF Recheck, Inv, Typed, RequestInv, PlaceInv, RetryInv, WithinRetries, OthersTries, Read, GoTo,
      Fail, Live, Present, Missing, Get, Stale
<1>3. CASE Get(Sid, "ok") /\ Read(r) /\ GoTo(r, "rechecked")
  <2>1. OthersSame(r) /\ StaysUnderLease(r) /\ PlaceInv(r)'
    BY <1>3 DEF Recheck, Inv, Typed, RequestInv, PlaceInv, Read, GoTo, Fail, OthersSame, Same,
       history, StaysUnderLease, UnderLease, Undecided, Steps, Requests, Logouts
  <2>2. pc'[r] \notin HasNext \cup {"exchange", "wait", "endSession", "purgeReload"}
    BY <1>3 DEF Recheck, Inv, Typed, GoTo, Fail, HasNext, PlaceInv, RequestInv
  <2> QED
    BY <1>0, <1>2, <1>3, <2>1, <2>2, <1>9, FoundStep
    DEF history, Recheck, Inv, RequestInv, TokenInv, Typed, GoTo, Fail
<1>4. CASE Missing /\ Fail(r, "unauthenticated") /\ UNCHANGED item
  BY <1>2, <1>4, GetCalls, <1>9, FailStep DEF Recheck, Outcomes, iam
<1> QED
  BY <1>3, <1>4 DEF Recheck

(* It goes to IAM with a refresh token only. *)
LEMMA DecideExchangeStep ==
    ASSUME Inv, NEW r \in Requests, DecideExchange(r)
    PROVE  Rely /\ Inv' /\ OthersSame(r)
<1> USE ProtocolAssumption
<1>0. r \in Resolvers
  BY DEF DecideExchange, Inv, RequestInv, PlaceInv, Requests
<1>1. StoreTypeOK'
  BY GetCalls, KeepOrDropIsRely DEF DecideExchange, KeepOrDrop, history, iam, store, storeVars, Inv
<1>2. Typed'
  BY <1>1, GetCalls
  DEF DecideExchange, Inv, Typed, StoreTypeOK, Read, GoTo, Fail, Live, Present, Steps, Outcomes,
      iam, history
<1>9. OthersTries(r) /\ RetryInv(r)'
  BY GetCalls
  DEF DecideExchange, Inv, Typed, RequestInv, PlaceInv, RetryInv, WithinRetries, OthersTries,
      Read, GoTo,
      Fail, Live, Present, Missing, Get, Stale
<1>3. CASE GoTo(r, "release")
  BY <1>0, <1>2, <1>3, <1>9, GoOnStep
  DEF DecideExchange, KeepOrDrop, store, storeVars, HasItem, HasNext, UnderLease, Undecided, Steps
<1>4. CASE Fail(r, "unauthenticated")
  BY <1>2, <1>4, <1>9, FailStep DEF DecideExchange, Outcomes, KeepOrDrop, Get, store, storeVars,
                                    iam
<1>5. CASE item[r].payload.refresh # 0 /\ GoTo(r, "exchange")
  BY <1>0, <1>2, <1>5, <1>9, GoOnStep
  DEF DecideExchange, KeepOrDrop, store, storeVars, HasItem, HasNext, UnderLease, Undecided, Steps
<1> QED
  BY <1>3, <1>4, <1>5 DEF DecideExchange

(* A refused commit: somebody has renewed the tokens, or it is an error. *)
LEMMA ReloadStep ==
    ASSUME Inv, NEW r \in Requests, Reload(r)
    PROVE  Rely /\ Inv' /\ OthersSame(r)
<1> USE ProtocolAssumption
<1>0. r \in Resolvers
  BY DEF Reload, Inv, RequestInv, PlaceInv, Requests
<1>1. StoreTypeOK'
  BY GetCalls, KeepOrDropIsRely DEF Reload, KeepOrDrop, history, iam, store, storeVars, Inv
<1>2. Typed'
  BY <1>1, GetCalls
  DEF Reload, Inv, Typed, StoreTypeOK, Read, GoTo, Fail, Live, Present, Steps, Outcomes,
      iam, history
<1>9. OthersTries(r) /\ RetryInv(r)'
  BY GetCalls
  DEF Reload, Inv, Typed, RequestInv, PlaceInv, RetryInv, WithinRetries, OthersTries, Read, GoTo,
      Fail, Live, Present, Missing, Get, Stale
<1>3. CASE Get(Sid, "ok") /\ Read(r) /\ GoTo(r, "release")
  <2>1. OthersSame(r) /\ StaysUnderLease(r) /\ PlaceInv(r)'
    BY <1>3 DEF Reload, Inv, Typed, RequestInv, PlaceInv, Read, GoTo, Fail, OthersSame, Same,
       history, StaysUnderLease, UnderLease, Undecided, Steps, Requests, Logouts
  <2>2. pc'[r] \notin HasNext \cup {"exchange", "wait", "endSession", "purgeReload"}
    BY <1>3 DEF Reload, Inv, Typed, GoTo, Fail, HasNext, PlaceInv, RequestInv
  <2> QED
    BY <1>0, <1>2, <1>3, <2>1, <2>2, <1>9, FoundStep
    DEF history, Reload, Inv, RequestInv, TokenInv, Typed, GoTo, Fail
<1>4. CASE Get(Sid, "ok") /\ Fail(r, "unavailable") /\ UNCHANGED item
  BY <1>2, <1>4, <1>9, FailStep DEF Reload, Outcomes, KeepOrDrop, Get, store, storeVars, iam
<1>5. CASE Missing /\ Fail(r, "unauthenticated") /\ UNCHANGED item
  BY <1>2, <1>5, GetCalls, <1>9, FailStep DEF Reload, Outcomes, iam
<1> QED
  BY <1>3, <1>4, <1>5 DEF Reload

(* A waiting request finds renewed tokens, or no session. *)
LEMMA WaitPollStep ==
    ASSUME Inv, NEW r \in Requests, WaitPoll(r)
    PROVE  Rely /\ Inv' /\ OthersSame(r)
<1> USE ProtocolAssumption
<1>0. r \in Resolvers
  BY DEF WaitPoll, Inv, RequestInv, PlaceInv, Requests
<1>1. StoreTypeOK'
  BY GetCalls, KeepOrDropIsRely DEF WaitPoll, KeepOrDrop, iam, store, storeVars, Inv
<1>2. Typed'
  BY <1>1, GetCalls, WaitEndsAlone
  DEF WaitPoll, Inv, Typed, StoreTypeOK, Read, GoTo, Fail, Live, Present, Steps, Outcomes,
      iam, history
<1>9. OthersTries(r) /\ RetryInv(r)'
  BY GetCalls
  DEF WaitPoll, Inv, Typed, RequestInv, PlaceInv, RetryInv, WithinRetries, OthersTries, Read, GoTo,
      Fail, Live, Present, Missing, Get, Stale
<1>3. CASE Get(Sid, "ok") /\ Read(r) /\ GoTo(r, "refreshed")
  <2>1. OthersSame(r) /\ StaysUnderLease(r) /\ PlaceInv(r)'
    BY <1>3, WaitEndsAlone
    DEF WaitPoll, Inv, Typed, RequestInv, PlaceInv, Read, GoTo, Fail, OthersSame, Same,
        OthersWait, StaysUnderLease, UnderLease, Undecided, Steps, Requests, Logouts
  <2>2. pc'[r] \notin HasNext \cup {"exchange", "wait", "endSession", "purgeReload"}
    BY <1>3 DEF WaitPoll, Inv, Typed, GoTo, Fail, HasNext, PlaceInv, RequestInv
  <2> QED
    BY <1>0, <1>2, <1>3, <2>1, <2>2, <1>9, FoundStep
    DEF history, WaitPoll, Inv, RequestInv, TokenInv, Typed, GoTo, Fail
<1>4. CASE Missing /\ Fail(r, "unauthenticated") /\ UNCHANGED item
  BY <1>2, <1>4, GetCalls, <1>9, WaitEndsAlone, FailDropStep DEF WaitPoll, Outcomes, iam
<1> QED
  BY <1>3, <1>4 DEF WaitPoll

(* It gives up. *)
LEMMA GiveUpStep ==
    ASSUME Inv, NEW r \in Requests, GiveUp(r)
    PROVE  Rely /\ Inv' /\ OthersSame(r)
<1> USE ProtocolAssumption
<1>0. r \in Resolvers
  BY DEF GiveUp, Inv, RequestInv, PlaceInv, Requests
<1>1. StoreTypeOK'
  BY GetCalls, KeepOrDropIsRely DEF GiveUp, KeepOrDrop, iam, store, storeVars, Inv
<1>2. Typed'
  BY <1>1, GetCalls, WaitEndsAlone
  DEF GiveUp, Inv, Typed, StoreTypeOK, Read, GoTo, Fail, Live, Present, Steps, Outcomes,
      iam, history
<1>9. OthersTries(r) /\ RetryInv(r)'
  BY GetCalls
  DEF GiveUp, Inv, Typed, RequestInv, PlaceInv, RetryInv, WithinRetries, OthersTries, Read, GoTo,
      Fail, Live, Present, Missing, Get, Stale
<1>3. CASE Get(Sid, "ok") /\ Fail(r, "unavailable")
  BY <1>2, <1>3, <1>9, WaitEndsAlone, FailDropStep
  DEF GiveUp, Outcomes, KeepOrDrop, Get, store, storeVars, iam
<1> QED
  BY <1>3 DEF GiveUp

(* The renewed session is good enough, or not. *)
LEMMA AcceptRefreshedStep ==
    ASSUME Inv, NEW r \in Requests, AcceptRefreshed(r)
    PROVE  Rely /\ Inv' /\ OthersSame(r)
<1> USE ProtocolAssumption
<1>0. r \in Resolvers
  BY DEF AcceptRefreshed, Inv, RequestInv, PlaceInv, Requests
<1>1. StoreTypeOK'
  BY GetCalls, KeepOrDropIsRely DEF AcceptRefreshed, KeepOrDrop, history, iam, store, storeVars,
                                    Inv
<1>2. Typed'
  BY <1>1, GetCalls
  DEF AcceptRefreshed, Inv, Typed, StoreTypeOK, Read, GoTo, Fail, Live, Present, Steps, Outcomes,
      iam, history
<1>9. OthersTries(r) /\ RetryInv(r)'
  BY GetCalls
  DEF AcceptRefreshed, Inv, Typed, RequestInv, PlaceInv, RetryInv, WithinRetries, OthersTries,
      Read, GoTo,
      Fail, Live, Present, Missing, Get, Stale
<1>3. CASE Fail(r, "unauthenticated")
  BY <1>2, <1>3, <1>9, FailStep DEF AcceptRefreshed, Outcomes, KeepOrDrop, Get, store,
                                    storeVars, iam
<1>4. CASE GoTo(r, "touch")
  BY <1>0, <1>2, <1>4, <1>9, GoOnStep
  DEF AcceptRefreshed, KeepOrDrop, store, storeVars, HasItem, HasNext, UnderLease, Undecided, Steps
<1> QED
  BY <1>3, <1>4 DEF AcceptRefreshed

(* The touch starts anew from the session that beat it, up to a limit. *)
LEMMA TouchReloadStep ==
    ASSUME Inv, NEW r \in Requests, TouchReload(r)
    PROVE  Rely /\ Inv' /\ OthersSame(r)
<1> USE ProtocolAssumption
<1>0. r \in Resolvers /\ pc[r] = "touchReload" /\ lease[r] = NoLease
  BY DEF TouchReload, Inv, RequestInv, PlaceInv, Requests, UnderLease
<1>1. StoreTypeOK'
  BY GetCalls, KeepOrDropIsRely DEF TouchReload, KeepOrDrop, history, iam, store, storeVars, Inv
<1>2. Typed'
  BY <1>1, GetCalls
  DEF TouchReload, Inv, Typed, StoreTypeOK, Read, GoTo, Fail, Live, Present, Steps, Outcomes,
      iam, history
<1>9. OthersTries(r) /\ RetryInv(r)'
  BY GetCalls
  DEF TouchReload, Inv, Typed, RequestInv, PlaceInv, RetryInv, WithinRetries, OthersTries, Read,
      GoTo,
      Fail, Live, Present, Missing, Get, Stale
<1>3. CASE Get(Sid, "ok") /\ Read(r)
  <2>1. GoTo(r, "touch") \/ Fail(r, "unavailable")
    BY <1>3, GetCalls, <1>0 DEF TouchReload, Missing, Get, Live, Stale
  <2>2. pc'[r] \in {"touch", "done"} /\ lease'[r] = lease[r]
        /\ outcome'[r] = (IF pc'[r] = "touch" THEN outcome[r] ELSE "unavailable")
    BY <1>0, <2>1 DEF TouchReload, Inv, Typed, GoTo, Fail
  <2>3. OthersSame(r)
    BY <1>3, <2>1 DEF TouchReload, Inv, Typed, Read, GoTo, Fail, OthersSame, Same, history
  <2>4. StaysUnderLease(r) /\ PlaceInv(r)'
    BY <1>0, <2>2 DEF Inv, RequestInv, PlaceInv, StaysUnderLease, UnderLease, Undecided, Steps
  <2> QED
    BY <1>0, <1>2, <1>3, <2>2, <2>3, <2>4, <1>9, FoundStep DEF history, TouchReload, HasNext
<1>4. CASE Missing /\ Fail(r, "unauthenticated") /\ UNCHANGED item
  BY <1>2, <1>4, GetCalls, <1>9, FailStep DEF TouchReload, Outcomes, iam
<1> QED
  BY <1>3, <1>4 DEF TouchReload

(* The purge starts anew if the refused token is still the stored one. *)
LEMMA PurgeReloadStep ==
    ASSUME Inv, NEW r \in Requests, PurgeReload(r)
    PROVE  Rely /\ Inv' /\ OthersSame(r)
<1> USE ProtocolAssumption
<1>0. r \in Resolvers /\ pc[r] = "purgeReload" /\ lease[r] # NoLease
      /\ item[r].payload.refresh \notin accepted
  BY DEF PurgeReload, Inv, RequestInv, PlaceInv, TokenInv, Requests, UnderLease
<1>1. StoreTypeOK'
  BY GetCalls, KeepOrDropIsRely DEF PurgeReload, KeepOrDrop, history, iam, store, storeVars, Inv
<1>2. Typed'
  BY <1>1, GetCalls
  DEF PurgeReload, Inv, Typed, StoreTypeOK, Read, GoTo, Live, Present, Steps, iam, history
<1>9. OthersTries(r) /\ RetryInv(r)'
  BY GetCalls
  DEF PurgeReload, Inv, Typed, RequestInv, PlaceInv, RetryInv, WithinRetries, OthersTries, Read,
      GoTo,
      Fail, Live, Present, Missing, Get, Stale
<1>3. CASE Get(Sid, "ok") /\ Read(r)
  <2>1. /\ pc'[r] \in {"purge", "release"}
        /\ pc'[r] = "purge" => Stored.payload.refresh = item[r].payload.refresh
        /\ outcome'[r] = outcome[r] /\ lease'[r] = lease[r]
    BY <1>0, <1>3, GetCalls
    DEF PurgeReload, Missing, Get, Live, Stale, GoTo, Inv, Typed, Stored
  <2>2. OthersSame(r)
    BY <1>3 DEF PurgeReload, Inv, Typed, Read, GoTo, OthersSame, Same, history
  <2>3. StaysUnderLease(r) /\ PlaceInv(r)'
    BY <1>0, <2>1 DEF Inv, RequestInv, PlaceInv, StaysUnderLease, UnderLease, Undecided, Steps
  <2> QED
    BY <1>0, <1>2, <1>3, <2>1, <2>2, <2>3, <1>9, FoundStep DEF history, PurgeReload, HasNext
<1>4. CASE (Missing \/ UNCHANGED store) /\ GoTo(r, "release") /\ UNCHANGED item
  BY <1>0, <1>2, <1>4, GetCalls, <1>9, GoOnStep
  DEF PurgeReload, HasItem, HasNext, UnderLease, Undecided, Steps, KeepOrDrop, store, storeVars
<1> QED
  BY <1>3, <1>4 DEF PurgeReload

(* The purge drops the session or leaves it; either way the lease goes next, or *)
(* the session is looked at again.                                             *)
LEMMA PurgeStep ==
    ASSUME Inv, NEW r \in Requests, Purge(r)
    PROVE  Rely /\ Inv' /\ OthersSame(r)
<1> USE ProtocolAssumption
<1>0. r \in Resolvers
  BY DEF Purge, Inv, RequestInv, PlaceInv, Requests
<1>1. PICK res : /\ PurgeCall(r, res)
                 /\ GoTo(r, IF res = "Conflict" THEN "purgeReload" ELSE "release")
  BY DEF Purge
<1>2. KeepOrDrop
  BY <1>1 DEF PurgeCall, DeleteWithLease, KeepOrDrop, store, storeVars
<1>3. Typed'
  BY <1>1, <1>2, KeepOrDropIsRely DEF Purge, Inv, Typed, GoTo, Steps, iam, history
<1>9. OthersTries(r) /\ RetryInv(r)'
  BY <1>1
  DEF Purge, GoTo, OthersTries, RetryInv, WithinRetries, Inv, Typed, RequestInv
<1>4. CASE GoTo(r, "purgeReload")
  BY <1>0, <1>2, <1>3, <1>4, <1>9, GoOnStep
  DEF Purge, HasItem, HasNext, UnderLease, Undecided, Steps
<1>5. CASE GoTo(r, "release")
  BY <1>0, <1>2, <1>3, <1>5, <1>9, GoOnStep
  DEF Purge, HasItem, HasNext, UnderLease, Undecided, Steps
<1> QED
  BY <1>1, <1>4, <1>5

(* An exchange that fails leaves its token on the way. *)
LEMMA ExchangeFailsStep ==
    ASSUME Inv, NEW r \in Requests, ExchangeFails(r)
    PROVE  Rely /\ Inv' /\ OthersSame(r)
<1>1. KeepOrDrop
  BY DEF ExchangeFails, KeepOrDrop, store, storeVars
<1>2. item[r] \in Session /\ item[r].payload.refresh # 0
  BY DEF ExchangeFails, Inv, RequestInv, ItemInv, TokenInv, HasItem, UnderLease, Typed
<1>3. item[r].payload.refresh \in 1..MaxToken
  BY <1>2, ProtocolAssumption DEF Session, Content
<1>4. Typed'
  BY <1>3 DEF ExchangeFails, Inv, Typed, StoreTypeOK, Fail, Steps, Outcomes, store, history
<1> QED
  BY <1>1, <1>4, FailStep DEF ExchangeFails, Outcomes, OthersTries

(* The purge begins with a refresh token that IAM has just refused. *)
LEMMA IamRefusesStep ==
    ASSUME Inv, NEW r \in Requests, IamRefuses(r)
    PROVE  Rely /\ Inv' /\ OthersSame(r)
<1>1. KeepOrDrop
  BY DEF IamRefuses, KeepOrDrop, store, storeVars
<1>2. Rely /\ StoreInv' /\ leases'[Sid] \in {leases[Sid], NoLease}
  BY <1>1, KeepOrDropIsRely DEF IamRefuses, history, iam
<1>3. Typed'
  BY DEF IamRefuses, Inv, Typed, StoreTypeOK, Steps, Outcomes, store, iam, history
<1>4. /\ pc[r] = "exchange" /\ pc'[r] = "purge" /\ item'[r] = item[r] /\ lease'[r] = lease[r]
      /\ tries'[r] = 0
      /\ item[r].payload.refresh \notin accepted /\ accepted' = accepted
  BY DEF IamRefuses, Inv, Typed, iam
<1>5. OthersSame(r) /\ StaysUnderLease(r)
  BY <1>4 DEF IamRefuses, Inv, Typed, OthersSame, OthersTries, Same, history, StaysUnderLease,
              UnderLease
<1>6. PlaceInv(r)' /\ NextInv(r)' /\ TokenInv(r)' /\ WaitInv(r)' /\ GoneInv(r)' /\ RetryInv(r)'
  BY <1>4, ProtocolAssumption
  DEF Inv, RequestInv, PlaceInv, NextInv, TokenInv, WaitInv, GoneInv, RetryInv, WithinRetries,
      HasNext, UnderLease,
      Undecided
<1>7. ItemInv(r)'
  BY <1>2, <1>3, <1>4, StillKnown DEF Inv, RequestInv, ItemInv, HasItem, UnderLease
<1> QED
  BY <1>2, <1>3, <1>5, <1>6, <1>7, Move DEF RequestInv

-----------------------------------------------------------------------------
\* The steps that make and store a replacement.

(* A renewal changes the tokens and nothing else. *)
LEMMA RenewedFields ==
    ASSUME NEW s \in Session, NEW token \in 1..MaxToken, NEW refresh \in 0..MaxToken,
           NEW lifetime \in Nat, now \in Nat,
           NEW n, n = Renewed(s, token, refresh, lifetime)
    PROVE  /\ n \in Session
           /\ n.payload.access = token /\ n.payload.refresh = refresh
           /\ n.payload.lastSeen = s.payload.lastSeen
           /\ n.version = s.version
           /\ n.expiresAt = s.expiresAt /\ n.idleExpiresAt = s.idleExpiresAt
<1> DEFINE e == now + lifetime
           p == [s.payload EXCEPT !.access = token, !.refresh = refresh, !.accessExpiry = e]
<1>0. s.payload \in Content /\ e \in Nat
  BY DEF Session
<1> HIDE DEF e
<1>1. p \in Content /\ p.access = token /\ p.refresh = refresh /\ p.lastSeen = s.payload.lastSeen
  BY <1>0 DEF Content
<1>4. Renewed(s, token, refresh, lifetime) = [s EXCEPT !.payload = p]
  BY <1>0 DEF Renewed, Content, Session, e
<1> HIDE DEF p
<1>2. [s EXCEPT !.payload = p] \in Session
  BY <1>1 DEF Session
<1> QED
  BY <1>1, <1>2, <1>4 DEF Session

(* A touch changes no token. *)
LEMMA TouchedFields ==
    ASSUME NEW s \in Session, now \in Nat, HasSuccessor(s), NEW n, n = Touched(s)
    PROVE  /\ n \in Session
           /\ n.payload.access = s.payload.access /\ n.payload.refresh = s.payload.refresh
           /\ n.payload.lastSeen = now
           /\ n.expiresAt = s.expiresAt
           /\ n.idleExpiresAt = Earlier(now + IdleTTL, s.expiresAt)
<1> DEFINE p == [s.payload EXCEPT !.lastSeen = now]
           d == Earlier(now + IdleTTL, s.expiresAt)
           m == [s EXCEPT !.version = s.version + 1, !.payload = p, !.idleExpiresAt = d]
<1>1. s.payload \in Content /\ s.version + 1 \in 1..MaxVersion /\ d \in Nat
  BY ProtocolAssumption DEF Session, HasSuccessor, Earlier
<1>2. p \in Content /\ p.access = s.payload.access /\ p.refresh = s.payload.refresh
      /\ p.lastSeen = now
  BY <1>1 DEF Content
<1>3. n = m
  BY <1>1 DEF Touched, Content, Session
<1> HIDE DEF p, d
<1>4. m \in Session /\ m.payload = p /\ m.expiresAt = s.expiresAt /\ m.idleExpiresAt = d
  BY <1>1, <1>2 DEF Session
<1> QED
  BY <1>2, <1>3, <1>4 DEF d

(* IAM's grant is newer than anything that is stored or known. *)
LEMMA IamGrantsStep ==
    ASSUME Inv, NEW r \in Requests, IamGrants(r)
    PROVE  Rely /\ Inv' /\ OthersSame(r)
<1> USE ProtocolAssumption
<1>1. /\ pc[r] = "exchange" /\ item[r] \in Session /\ item[r] # NoSession
      /\ item[r].payload.refresh \in 0..MaxToken /\ WellFormed(item[r])
      /\ minted \in Nat /\ minted' = minted + 1 /\ minted' \in 1..MaxToken
      /\ now \in Nat /\ r \in Resolvers
  BY DEF IamGrants, Inv, Typed, StoreTypeOK, RequestInv, PlaceInv, ItemInv, Known, HasItem,
         UnderLease, Session, Content, Requests
<1>2. PICK token \in 1..MaxToken : token = minted' /\ token = minted + 1
  BY <1>1
<1>3. PICK lifetime \in Lifetimes, refresh \in {token, item[r].payload.refresh} :
         next' = [next EXCEPT ![r] = Renewed(item[r], token, refresh, lifetime)]
  <2>1. PICK lifetime \in Lifetimes :
          \/ next' = [next EXCEPT ![r] = Renewed(item[r], minted', minted', lifetime)]
          \/ next' = [next EXCEPT ![r] =
                        Renewed(item[r], minted', item[r].payload.refresh, lifetime)]
    BY Zenon DEF IamGrants
  <2> QED
    BY <1>2, <2>1, Zenon
<1> DEFINE new == Renewed(item[r], token, refresh, lifetime)
<1>4. /\ new \in Session
      /\ new.payload.access = token /\ new.payload.refresh = refresh
      /\ new.payload.lastSeen = item[r].payload.lastSeen
      /\ new.expiresAt = item[r].expiresAt /\ new.idleExpiresAt = item[r].idleExpiresAt
  <2>1. lifetime \in Nat
    OBVIOUS
  <2>2. refresh \in 0..MaxToken
    BY <1>1
  <2> HIDE ProtocolAssumption
  <2>3. item[r] \in Session /\ now \in Nat
    BY <1>1
  <2> QED
    BY <2>1, <2>2, <2>3, RenewedFields
<1>5. next' = [next EXCEPT ![r] = new]
  BY <1>3
<1> HIDE DEF new
<1>6. new # NoSession
  BY <1>4
<1>7. /\ next'[r] = new /\ item'[r] = item[r] /\ pc'[r] = "verify" /\ lease'[r] = lease[r]
      /\ outcome'[r] = outcome[r] /\ tries'[r] = tries[r]
  BY <1>5 DEF IamGrants, GoTo, Inv, Typed
<1>8. accepted' \subseteq accepted \cup {minted + 1}
  BY <1>1 DEF IamGrants
<1>9. Typed'
  BY <1>1, <1>8, <1>4, <1>5
  DEF IamGrants, Inv, Typed, StoreTypeOK, GoTo, Steps, store, history
<1>10. Rely /\ StoreInv' /\ leases'[Sid] \in {leases[Sid], NoLease}
  BY <1>1, <1>8
  DEF IamGrants, Inv, Typed, StoreTypeOK, Rely, SameTokens, StoreInv, WellFormed, Present, Stored,
      Session, Content, store, history
<1>11. OthersSame(r) /\ StaysUnderLease(r)
  BY <1>5, <1>7 DEF IamGrants, Inv, Typed, GoTo, OthersSame, OthersTries, Same, history,
                    StaysUnderLease,
                    UnderLease
<1>12. PlaceInv(r)' /\ TokenInv(r)' /\ WaitInv(r)' /\ GoneInv(r)' /\ RetryInv(r)'
  BY <1>1, <1>7
  DEF Inv, RequestInv, PlaceInv, TokenInv, WaitInv, GoneInv, RetryInv, WithinRetries,
      UnderLease, Undecided, Steps
<1>13. ItemInv(r)'
  BY <1>1, <1>7, <1>9, <1>10, StillKnown DEF ItemInv
<1>14. NextInv(r)'
  BY <1>1, <1>2, <1>3, <1>4, <1>6, <1>7 DEF NextInv, WellFormed, HasNext, Session, Content
<1> QED
  BY <1>9, <1>10, <1>11, <1>12, <1>13, <1>14, Move DEF RequestInv

(* The verified replacement gets the next version. *)
LEMMA VerifyStep ==
    ASSUME Inv, NEW r \in Requests, Verify(r)
    PROVE  Rely /\ Inv' /\ OthersSame(r)
<1> USE ProtocolAssumption
<1>1. /\ pc[r] = "verify" /\ item[r] \in Session /\ next[r] \in Session
      /\ item[r] # NoSession /\ next[r] # NoSession /\ r \in Resolvers /\ NextInv(r)
  BY DEF Verify, Inv, Typed, RequestInv, PlaceInv, ItemInv, NextInv, HasItem, HasNext,
         UnderLease, Requests
<1>2. KeepOrDrop
  BY DEF Verify, KeepOrDrop, store, storeVars
<1>3. CASE Fail(r, "unavailable") /\ UNCHANGED next
  <2>1. Typed'
    BY <1>3 DEF Verify, Inv, Typed, StoreTypeOK, Fail, Steps, Outcomes, store, iam, history
  <2> QED
    BY <1>2, <1>3, <2>1, FailStep DEF OthersTries, Verify, Outcomes, iam
<1>4. CASE /\ HasSuccessor(item[r])
           /\ next' = [next EXCEPT ![r].version = item[r].version + 1]
           /\ GoTo(r, "commit")
  <2> DEFINE new == [next[r] EXCEPT !.version = item[r].version + 1]
  <2>1. /\ new \in Session /\ new # NoSession /\ new.payload = next[r].payload
        /\ new.expiresAt = next[r].expiresAt /\ new.idleExpiresAt = next[r].idleExpiresAt
    BY <1>1, <1>4 DEF Session, HasSuccessor
  <2>2. next' = [next EXCEPT ![r] = new]
    BY <1>4
  <2> HIDE DEF new
  <2>3. /\ next'[r] = new /\ item'[r] = item[r] /\ pc'[r] = "commit" /\ lease'[r] = lease[r]
        /\ outcome'[r] = outcome[r] /\ tries'[r] = tries[r]
    BY <1>4, <2>2 DEF Verify, GoTo, Inv, Typed
  <2>4. Typed'
    BY <1>4, <2>1, <2>2 DEF Verify, Inv, Typed, StoreTypeOK, GoTo, Steps, store, iam, history
  <2>5. Rely /\ StoreInv' /\ leases'[Sid] \in {leases[Sid], NoLease}
    BY <1>2, KeepOrDropIsRely DEF Verify, iam, history
  <2>6. OthersSame(r) /\ StaysUnderLease(r)
    BY <1>4, <2>2, <2>3
    DEF Verify, Inv, Typed, GoTo, OthersSame, OthersTries, Same, history, StaysUnderLease,
        UnderLease
  <2>7. PlaceInv(r)' /\ TokenInv(r)' /\ WaitInv(r)' /\ GoneInv(r)' /\ RetryInv(r)'
    BY <1>1, <2>3
    DEF Inv, RequestInv, PlaceInv, TokenInv, WaitInv, GoneInv, RetryInv, WithinRetries,
        UnderLease, Undecided, Steps
  <2>8. ItemInv(r)'
    BY <1>1, <2>3, <2>4, <2>5, StillKnown DEF ItemInv
  <2>9. NextInv(r)'
    BY <1>1, <2>1, <2>3 DEF NextInv, WellFormed, HasNext, Verify, iam
  <2> QED
    BY <2>4, <2>5, <2>6, <2>7, <2>8, <2>9, Move DEF RequestInv
<1> QED
  BY <1>3, <1>4 DEF Verify

(* What the touch is about to store is the session's next use. *)
LEMMA TouchStep ==
    ASSUME Inv, NEW r \in Requests, Touch(r)
    PROVE  Rely /\ Inv' /\ OthersSame(r)
<1>1. /\ pc[r] = "touch" /\ item[r] \in Session /\ item[r] # NoSession /\ WellFormed(item[r])
      /\ r \in Resolvers /\ now \in Nat
  BY DEF Touch, Inv, Typed, StoreTypeOK, RequestInv, PlaceInv, ItemInv, Known, HasItem, Requests
<1>2. KeepOrDrop
  BY DEF Touch, KeepOrDrop, store, storeVars
<1>3. Rely /\ StoreInv' /\ leases'[Sid] \in {leases[Sid], NoLease}
  BY <1>2, KeepOrDropIsRely DEF Touch, iam, history
<1>4. ASSUME NEW result \in {"unauthenticated", "unavailable"}, Fail(r, result), UNCHANGED next
      PROVE  Rely /\ Inv' /\ OthersSame(r)
  <2>1. Typed'
    BY <1>4 DEF Touch, Inv, Typed, StoreTypeOK, Fail, Steps, Outcomes, store, iam, history
  <2> QED
    BY <1>2, <1>4, <2>1, FailStep DEF OthersTries, Touch, Outcomes, iam
<1>5. CASE Answer(r, "ok") /\ UNCHANGED next
  <2>1. Typed'
    BY <1>5 DEF Touch, Inv, Typed, StoreTypeOK, Answer, Steps, Outcomes, store, iam, history
  <2>2. item'[r] = item[r] /\ pc'[r] = "done" /\ lease'[r] = lease[r]
    BY <1>5 DEF Touch, Answer, Inv, Typed
  <2>3. OthersSame(r) /\ StaysUnderLease(r)
    BY <1>1, <1>5 DEF Touch, Inv, Typed, Answer, OthersSame, OthersTries, Same, history,
                      StaysUnderLease,
                      UnderLease
  <2>4. PlaceInv(r)' /\ NextInv(r)' /\ TokenInv(r)' /\ WaitInv(r)' /\ GoneInv(r)' /\ RetryInv(r)'
    BY <1>1, <2>2, ProtocolAssumption
    DEF Inv, RequestInv, PlaceInv, NextInv, TokenInv, WaitInv, GoneInv, RetryInv, WithinRetries,
        HasNext, UnderLease,
        Undecided
  <2>5. ItemInv(r)'
    BY <1>1, <1>3, <2>1, <2>2, StillKnown DEF ItemInv
  <2> QED
    BY <1>3, <2>1, <2>3, <2>4, <2>5, Move DEF RequestInv
<1>6. CASE /\ HasSuccessor(item[r])
           /\ now > item[r].payload.lastSeen
           /\ next' = [next EXCEPT ![r] = Touched(item[r])]
           /\ GoTo(r, "swap")
  <2> DEFINE new == Touched(item[r])
  <2>1. next' = [next EXCEPT ![r] = new]
    BY <1>6
  <2>2. /\ new \in Session
        /\ new.payload.access = item[r].payload.access
        /\ new.payload.refresh = item[r].payload.refresh
        /\ new.payload.lastSeen = now /\ new.expiresAt = item[r].expiresAt
        /\ new.idleExpiresAt = Earlier(now + IdleTTL, item[r].expiresAt)
    BY <1>1, <1>6, TouchedFields
  <2> HIDE DEF new
  <2>3. new # NoSession
    BY <2>2, ProtocolAssumption
  <2>4. /\ next'[r] = new /\ item'[r] = item[r] /\ pc'[r] = "swap" /\ lease'[r] = lease[r]
        /\ outcome'[r] = outcome[r] /\ tries'[r] = tries[r]
    BY <1>6, <2>1 DEF Touch, GoTo, Inv, Typed
  <2>5. Typed'
    BY <1>6, <2>1, <2>2 DEF Touch, Inv, Typed, StoreTypeOK, GoTo, Steps, store, iam, history
  <2>6. OthersSame(r) /\ StaysUnderLease(r)
    BY <1>1, <1>6, <2>1
    DEF Touch, Inv, Typed, GoTo, OthersSame, OthersTries, Same, history, StaysUnderLease,
        UnderLease
  <2>7. PlaceInv(r)' /\ TokenInv(r)' /\ WaitInv(r)' /\ GoneInv(r)' /\ RetryInv(r)'
    BY <1>1, <2>4, ProtocolAssumption
    DEF Inv, RequestInv, PlaceInv, TokenInv, WaitInv, GoneInv, RetryInv, WithinRetries,
        UnderLease, Undecided, Steps
  <2>8. ItemInv(r)'
    BY <1>1, <1>3, <2>4, <2>5, StillKnown DEF ItemInv
  <2>9. NextInv(r)'
    BY <1>1, <1>6, <2>2, <2>3, <2>4
    DEF NextInv, WellFormed, HasNext, Touch, iam, Session, Content
  <2> QED
    BY <1>3, <2>5, <2>6, <2>7, <2>8, <2>9, Move DEF RequestInv
<1> QED
  BY <1>4, <1>5, <1>6 DEF Touch

\* What storing the replacement does: on Redis a commit takes the lease along.
Writes(r) ==
    /\ sessions' = [sessions EXCEPT ![Sid] = next[r]]
    /\ leases' = leases \/ leases' = [leases EXCEPT ![Sid] = NoLease]
    /\ UNCHANGED nextFence

(* A swap either fails, leaving the session or dropping it, or puts the next *)
(* version in the place of the one expected.                                *)
LEMMA SwapCalls ==
    ASSUME NEW r \in Requests, NEW res \in {"ok", "Conflict", "LeaseLost", "NotFound", "Expired"},
           SwapCall(r, res) \/ CommitCall(r, res)
    PROVE  /\ res # "ok" => KeepOrDrop
           /\ res = "ok" => /\ Live(Sid) /\ Stored.version = item[r].version
                            /\ next[r].version = item[r].version + 1
                            /\ Writes(r)
BY DEF SwapCall, CommitCall, CompareAndSwap, CompareAndSwapWithLease, WriteUnderLease, SwapLocked,
       ValidReplacement, KeepOrDrop, Stored, StoreSession, Writes, store, storeVars

(* A write stores the successor of the session that the request has read, so *)
(* that it is new to everybody.                                             *)
LEMMA WriteIsRely ==
    ASSUME Inv, NEW r \in Requests, pc[r] \in {"commit", "swap"},
           Live(Sid), Stored.version = item[r].version, next[r].version = item[r].version + 1,
           Writes(r), UNCHANGED <<now, iam>>, orphans \subseteq orphans',
           pc[r] = "commit" => Renews(r),
           committed \subseteq committed', next[r].payload.access \in committed'
    PROVE  /\ Rely /\ StoreInv' /\ StoreTypeOK' /\ leases'[Sid] \in {leases[Sid], NoLease}
           /\ Stored' = next[r] /\ Present(Sid)' /\ next[r] \in Session
           /\ item[r] = Stored /\ WellFormed(next[r])
<1>1. /\ next[r] \in Session /\ next[r] # NoSession /\ WellFormed(next[r])
      /\ item[r] \in Session /\ Known(item[r])
  BY DEF Inv, Typed, RequestInv, ItemInv, NextInv, HasItem, HasNext, UnderLease
<1>2. item[r] = Stored
  BY <1>1 DEF Known, Live
<1>3. Stored' = next[r] /\ Present(Sid)' /\ StoreTypeOK'
  BY <1>1 DEF Inv, Typed, StoreTypeOK, Writes, Stored, Present
<1>4. leases'[Sid] \in {leases[Sid], NoLease} /\ nextFence' = nextFence
  BY DEF Writes, Inv, Typed, StoreTypeOK
<1>5. Supersedes(next[r], Stored) /\ Present(Sid)
  <2>1. NextInv(r)
    BY DEF Inv, RequestInv
  <2>2. next[r].expiresAt = item[r].expiresAt /\ WellFormed(item[r])
    BY <1>1, <2>1 DEF NextInv, HasNext, Known
  <2>3. IdleTTL \in Nat
    BY ProtocolAssumption
  <2>4. next[r].payload.lastSeen >= item[r].payload.lastSeen
    BY <1>1, <2>1 DEF NextInv, Session, Content
  <2>5. next[r].idleExpiresAt >= item[r].idleExpiresAt
    BY <1>1, <2>2, <2>3, <2>4 DEF WellFormed, Earlier, Session, Content
  <2> QED
    BY <1>1, <1>2, <2>1, <2>2, <2>4, <2>5, ProtocolAssumption
    DEF Supersedes, NextInv, Session, Content, Live
<1>6. SameTokens(Stored', Stored) \/ \E s \in Resolvers : Renews(s)
  <2>1. CASE pc[r] = "commit"
    BY <2>1 DEF Inv, RequestInv, PlaceInv, Requests
  <2>2. CASE pc[r] = "swap"
    BY <1>2, <1>3, <2>2 DEF SameTokens, Inv, RequestInv, NextInv
  <2> QED
    BY <2>1, <2>2
<1>7. Rely
  BY <1>3, <1>4, <1>5, <1>6, ProtocolAssumption DEF Rely, iam, Inv, Typed, StoreTypeOK
<1>8. StoreInv'
  BY <1>1, <1>3, <1>4 DEF StoreInv, Inv, WellFormed, iam
<1> QED
  BY <1>1, <1>2, <1>3, <1>4, <1>7, <1>8

(* A commit stores the renewed tokens, or the request looks for who did. *)
LEMMA CommitStep ==
    ASSUME Inv, NEW r \in Requests, Commit(r)
    PROVE  Rely /\ Inv' /\ OthersSame(r)
<1>1. PICK res \in {"ok", "Conflict", "LeaseLost", "NotFound", "Expired"} :
        /\ CommitCall(r, res)
        /\ \/ /\ res = "ok"
              /\ Wrote(r)
              /\ committed' = committed \cup {next[r].payload.access}
              /\ GoTo(r, "release")
           \/ /\ res # "ok"
              /\ GoTo(r, "reload") \/ Fail(r, "unauthenticated")
              /\ UNCHANGED <<item, committed>>
  BY DEF Commit, history
<1>2. /\ pc[r] = "commit" /\ r \in Resolvers
      /\ UNCHANGED <<now, next, lease, deadline, tries, iam, rival, orphans>>
      /\ item[r] # NoSession /\ NextInv(r)
  BY DEF Commit, history, Inv, RequestInv, PlaceInv, ItemInv, HasItem, UnderLease, Requests
<1>3. CASE res # "ok"
  <2>1. KeepOrDrop
    BY <1>1, <1>3, SwapCalls
  <2>2. StoreTypeOK'
    BY <1>1, <1>2, <1>3, <2>1, KeepOrDropIsRely DEF iam
  <2>3. Typed'
    BY <1>1, <1>2, <1>3, <2>2
    DEF Commit, Inv, Typed, GoTo, Fail, Steps, Outcomes, iam, history
  <2>4. CASE GoTo(r, "reload")
    <3>1. /\ "reload" \in HasItem \ HasNext
          /\ pc[r] \in HasItem
          /\ "reload" \in UnderLease <=> pc[r] \in UnderLease
          /\ "reload" \in Undecided => pc[r] \in Undecided
      BY <1>2 DEF HasItem, HasNext, UnderLease, Undecided, Steps
    <3>2. OthersTries(r) /\ RetryInv(r)'
      BY <1>2, <2>4 DEF GoTo, OthersTries, RetryInv, WithinRetries, Inv, Typed, RequestInv
    <3> QED
      BY <1>1, <1>2, <1>3, <2>1, <2>3, <2>4, <3>1, <3>2, GoOnStep DEF history
  <2>5. CASE Fail(r, "unauthenticated")
    BY <1>1, <1>2, <1>3, <2>1, <2>3, <2>5, FailStep DEF OthersTries, history, iam, Outcomes
  <2> QED
    BY <1>1, <1>3, <2>4, <2>5
<1>4. CASE res = "ok"
  <2>0. Renews(r)
    BY <1>1, <1>2, <1>4 DEF CommitCall, WriteUnderLease, CompareAndSwapWithLease, Renews, GoTo,
                            Inv, Typed
  <2>1. next[r].payload.access \in committed' /\ committed \subseteq committed'
    BY <1>1, <1>2, <1>4 DEF Inv, RequestInv, ItemInv, Known, NextInv
  <2>2. /\ Rely /\ StoreInv' /\ StoreTypeOK' /\ leases'[Sid] \in {leases[Sid], NoLease}
        /\ Stored' = next[r] /\ Present(Sid)' /\ next[r] \in Session
    BY <1>1, <1>2, <1>4, <2>0, <2>1, SwapCalls, WriteIsRely
  <2>3. Typed'
    BY <1>1, <1>2, <1>4, <2>2
    DEF Inv, Typed, Wrote, GoTo, Answer, Steps, Outcomes, iam, Session, Content, Commit
  <2>4. /\ item'[r] = next[r] /\ pc'[r] = "release" /\ lease'[r] = lease[r]
        /\ outcome'[r] = outcome[r]
    BY <1>1, <1>2, <1>4 DEF Inv, Typed, Wrote, GoTo, Answer
  <2>5. OthersSame(r) /\ StaysUnderLease(r)
    BY <1>1, <1>2, <1>4, <2>4
    DEF Inv, Typed, Wrote, GoTo, Answer, OthersSame, OthersTries, Same, StaysUnderLease, UnderLease
  <2>6. PlaceInv(r)' /\ NextInv(r)' /\ TokenInv(r)' /\ WaitInv(r)' /\ GoneInv(r)' /\ RetryInv(r)'
    BY <1>2, <2>4, ProtocolAssumption
    DEF Inv, RequestInv, PlaceInv, NextInv, TokenInv, WaitInv, GoneInv, RetryInv, WithinRetries,
        HasNext, UnderLease,
        Undecided
  <2>7. Known(item[r])'
    BY <2>2, <2>4, ProtocolAssumption DEF Known, StoreInv, Session
  <2>8. ItemInv(r)'
    BY <2>2, <2>4, <2>7, ProtocolAssumption DEF ItemInv
  <2> QED
    BY <2>2, <2>3, <2>5, <2>6, <2>8, Move DEF RequestInv
<1> QED
  BY <1>3, <1>4

(* A touch is stored, or starts anew. *)
LEMMA SwapStep ==
    ASSUME Inv, NEW r \in Requests, Swap(r)
    PROVE  Rely /\ Inv' /\ OthersSame(r)
<1>1. PICK res \in {"ok", "Conflict", "LeaseLost", "NotFound", "Expired"} :
        /\ SwapCall(r, res)
        /\ \/ /\ res = "ok"
              /\ Wrote(r)
              /\ UNCHANGED committed
              /\ Answer(r, "ok")
           \/ /\ res # "ok"
              /\ GoTo(r, "touchReload") \/ Fail(r, "unauthenticated")
              /\ UNCHANGED <<item, committed>>
  BY DEF Swap, history
<1>2. /\ pc[r] = "swap" /\ r \in Resolvers
      /\ UNCHANGED <<now, next, lease, deadline, tries, iam, rival, orphans>>
      /\ item[r] # NoSession /\ NextInv(r)
  BY DEF Swap, history, Inv, RequestInv, PlaceInv, ItemInv, HasItem, UnderLease, Requests
<1>3. CASE res # "ok"
  <2>1. KeepOrDrop
    BY <1>1, <1>3, SwapCalls
  <2>2. StoreTypeOK'
    BY <1>1, <1>2, <1>3, <2>1, KeepOrDropIsRely DEF iam
  <2>3. Typed'
    BY <1>1, <1>2, <1>3, <2>2
    DEF Swap, Inv, Typed, GoTo, Fail, Steps, Outcomes, iam, history
  <2>4. CASE GoTo(r, "touchReload")
    <3>1. /\ "touchReload" \in HasItem \ HasNext
          /\ pc[r] \in HasItem
          /\ "touchReload" \in UnderLease <=> pc[r] \in UnderLease
          /\ "touchReload" \in Undecided => pc[r] \in Undecided
      BY <1>2 DEF HasItem, HasNext, UnderLease, Undecided, Steps
    <3>2. OthersTries(r) /\ RetryInv(r)'
      BY <1>2, <2>4 DEF GoTo, OthersTries, RetryInv, WithinRetries, Inv, Typed, RequestInv
    <3> QED
      BY <1>1, <1>2, <1>3, <2>1, <2>3, <2>4, <3>1, <3>2, GoOnStep DEF history
  <2>5. CASE Fail(r, "unauthenticated")
    BY <1>1, <1>2, <1>3, <2>1, <2>3, <2>5, FailStep DEF OthersTries, history, iam, Outcomes
  <2> QED
    BY <1>1, <1>3, <2>4, <2>5
<1>4. CASE res = "ok"
  <2>1. next[r].payload.access \in committed' /\ committed \subseteq committed'
    BY <1>1, <1>2, <1>4 DEF Inv, RequestInv, ItemInv, Known, NextInv
  <2>2. /\ Rely /\ StoreInv' /\ StoreTypeOK' /\ leases'[Sid] \in {leases[Sid], NoLease}
        /\ Stored' = next[r] /\ Present(Sid)' /\ next[r] \in Session
    BY <1>1, <1>2, <1>4, <2>1, SwapCalls, WriteIsRely
  <2>3. Typed'
    BY <1>1, <1>2, <1>4, <2>2
    DEF Inv, Typed, Wrote, GoTo, Answer, Steps, Outcomes, iam, Session, Content, Swap
  <2>4. /\ item'[r] = next[r] /\ pc'[r] = "done" /\ lease'[r] = lease[r]
        /\ lease[r] = NoLease
    BY <1>1, <1>2, <1>4 DEF Inv, Typed, Wrote, GoTo, Answer, RequestInv, PlaceInv, UnderLease
  <2>5. OthersSame(r) /\ StaysUnderLease(r)
    BY <1>1, <1>2, <1>4, <2>4
    DEF Inv, Typed, Wrote, GoTo, Answer, OthersSame, OthersTries, Same, StaysUnderLease, UnderLease
  <2>6. PlaceInv(r)' /\ NextInv(r)' /\ TokenInv(r)' /\ WaitInv(r)' /\ GoneInv(r)' /\ RetryInv(r)'
    BY <1>2, <2>4, ProtocolAssumption
    DEF Inv, RequestInv, PlaceInv, NextInv, TokenInv, WaitInv, GoneInv, RetryInv, WithinRetries,
        HasNext, UnderLease,
        Undecided
  <2>7. Known(item[r])'
    BY <2>2, <2>4, ProtocolAssumption DEF Known, StoreInv, Session
  <2>8. ItemInv(r)'
    BY <2>2, <2>4, <2>7, ProtocolAssumption DEF ItemInv
  <2> QED
    BY <2>2, <2>3, <2>5, <2>6, <2>8, Move DEF RequestInv
<1> QED
  BY <1>3, <1>4

-----------------------------------------------------------------------------
\* The lease.

(* A request that begins to wait has seen a lease that ends within its wait. *)
LEMMA BeginsToWait ==
    ASSUME Inv, Typed', NEW r \in Requests, pc[r] = "acquire", GoTo(r, "wait"),
           UNCHANGED storeVars,
           UNCHANGED <<now, item, next, lease, tries, iam, committed, orphans>>,
           NEW fence, deadline' = [deadline EXCEPT ![r] = now + LeaseTTL],
           rival' = [rival EXCEPT ![r] = fence],
           fence = 0 \/ (leases[Sid] # NoLease /\ fence = leases[Sid].fence)
    PROVE  Rely /\ Inv' /\ OthersSame(r)
<1>1. Rely /\ StoreInv' /\ leases' = leases /\ nextFence' = nextFence
  BY KeepOrDropIsRely DEF KeepOrDrop, iam, storeVars
<1>2. /\ item'[r] = item[r] /\ pc'[r] = "wait" /\ lease'[r] = lease[r]
      /\ outcome'[r] = outcome[r] /\ rival'[r] = fence /\ deadline'[r] = now + LeaseTTL
  BY DEF GoTo, Inv, Typed
<1>3. OthersSame(r) /\ StaysUnderLease(r)
  BY DEF GoTo, Inv, Typed, OthersSame, OthersTries, Same, StaysUnderLease, UnderLease
<1>4. PlaceInv(r)' /\ NextInv(r)' /\ TokenInv(r)' /\ GoneInv(r)' /\ RetryInv(r)'
  BY <1>2 DEF Inv, RequestInv, PlaceInv, NextInv, TokenInv, GoneInv, RetryInv, WithinRetries,
              HasNext, UnderLease,
              Undecided, Steps
<1>5. ItemInv(r)'
  BY <1>1, <1>2, StillKnown DEF Inv, RequestInv, ItemInv, HasItem
<1>6. leases[Sid] # NoLease => /\ leases[Sid].fence \in Nat \ {0}
                              /\ leases[Sid].fence <= nextFence
                              /\ leases[Sid].expiresAt <= now + LeaseTTL
  BY ProtocolAssumption DEF Inv, Typed, StoreTypeOK, StoreInv, Lease
<1>7. WaitInv(r)'
  BY <1>1, <1>2, <1>6, ProtocolAssumption DEF WaitInv, Inv, Typed, StoreTypeOK
<1> QED
  BY <1>1, <1>3, <1>4, <1>5, <1>7, Move DEF RequestInv

(* A conflict that no lease explains makes a request wait all the same. *)
LEMMA AcquireCollidesStep ==
    ASSUME Inv, NEW r \in Requests, AcquireCollides(r)
    PROVE  Rely /\ Inv' /\ OthersSame(r)
<1>1. UNCHANGED storeVars
  BY GetCalls DEF AcquireCollides
<1>2. now + LeaseTTL \in Nat
  BY ProtocolAssumption DEF Inv, Typed, StoreTypeOK
<1>3. Typed'
  BY <1>1, <1>2, ProtocolAssumption
  DEF AcquireCollides, Inv, Typed, StoreTypeOK, GoTo, Steps, storeVars, iam
<1> QED
  BY <1>1, <1>3, BeginsToWait DEF AcquireCollides

(* The lease is granted, or another request has it, or it cannot be had. *)
LEMMA AcquireStep ==
    ASSUME Inv, NEW r \in Requests, Acquire(r)
    PROVE  Rely /\ Inv' /\ OthersSame(r)
<1>1. /\ pc[r] = "acquire" /\ r \in Resolvers
      /\ UNCHANGED <<now, item, next, tries, iam, committed, orphans>>
      /\ now + LeaseTTL \in Nat /\ nextFence \in Nat
  BY ProtocolAssumption
  DEF Acquire, Inv, Typed, StoreTypeOK, RequestInv, PlaceInv, Requests
<1>2. CASE /\ GrantLease(Sid, LeaseTTL)
           /\ lease' = [lease EXCEPT ![r] = NewHandle(Sid, LeaseTTL)]
           /\ GoTo(r, "held")
           /\ UNCHANGED <<deadline, rival>>
  <2> DEFINE h == NewHandle(Sid, LeaseTTL)
             l == [fence |-> nextFence + 1, expiresAt |-> now + LeaseTTL]
  <2>1. /\ leases' = [leases EXCEPT ![Sid] = l] /\ nextFence' = nextFence + 1
        /\ sessions' = sessions
        /\ nextFence + 1 \in 1..MaxFence
        /\ l.fence = nextFence + 1 /\ l.expiresAt = now + LeaseTTL
    BY <1>1, <1>2, ProtocolAssumption
    DEF GrantLease, MayLease, Inv, Typed, StoreTypeOK
  <2>2. l \in Lease /\ l # NoLease
    BY <1>1, <2>1, ProtocolAssumption DEF Lease
  <2>3. /\ h \in Handle /\ h # NoLease /\ h.id = Sid
        /\ h.fence = l.fence /\ h.expiresAt = l.expiresAt
    BY <1>1, <2>1, ProtocolAssumption DEF NewHandle, Handle
  <2>4. lease' = [lease EXCEPT ![r] = h]
    BY <1>2
  <2> HIDE DEF h, l
  <2>5. /\ leases'[Sid] = l /\ item'[r] = item[r] /\ pc'[r] = "held" /\ lease'[r] = h
        /\ outcome'[r] = outcome[r]
    BY <1>1, <1>2, <2>1, <2>4 DEF GoTo, Inv, Typed, StoreTypeOK
  <2>6. Typed'
    BY <1>1, <1>2, <2>1, <2>2, <2>3, <2>4
    DEF Inv, Typed, StoreTypeOK, GoTo, Steps, iam
  <2>7. Rely /\ StoreInv'
    BY <1>1, <2>1, <2>5, ProtocolAssumption
    DEF Rely, SameTokens, StoreInv, WellFormed, Present, Stored, Inv, Typed, StoreTypeOK, iam
  <2>8. HeldOrOrphaned'
    BY <1>1, <2>2, <2>3, <2>5 DEF HeldOrOrphaned, Holds, OwnsLease, UnderLease, LeaseLive
  <2>9. OthersSame(r)
    BY <1>1, <1>2, <2>4 DEF GoTo, Inv, Typed, OthersSame, OthersTries, Same
  <2>10. PlaceInv(r)' /\ NextInv(r)' /\ TokenInv(r)' /\ WaitInv(r)' /\ GoneInv(r)' /\ RetryInv(r)'
    BY <1>1, <2>3, <2>5, ProtocolAssumption
    DEF Inv, RequestInv, PlaceInv, NextInv, TokenInv, WaitInv, GoneInv, RetryInv, WithinRetries,
        HasNext, UnderLease,
        Undecided, Steps
  <2>11. ItemInv(r)'
    BY <1>1, <2>5, <2>6, <2>7, StillKnown DEF Inv, RequestInv, ItemInv, HasItem
  <2> QED
    BY <2>6, <2>7, <2>8, <2>9, <2>10, <2>11, RequestStep DEF RequestInv
<1>3. CASE /\ RefuseLease(Sid, "Conflict")
           /\ deadline' = [deadline EXCEPT ![r] = now + LeaseTTL]
           /\ rival' = [rival EXCEPT ![r] = leases[Sid].fence]
           /\ GoTo(r, "wait")
           /\ UNCHANGED lease
  <2>1. UNCHANGED storeVars /\ leases[Sid] # NoLease
    BY <1>3, RefuseCalls DEF LeaseLive
  <2>2. leases[Sid].fence \in 0..MaxFence
    BY <2>1, ProtocolAssumption DEF Inv, Typed, StoreTypeOK, Lease
  <2>3. Typed'
    BY <1>1, <1>3, <2>1, <2>2 DEF Inv, Typed, StoreTypeOK, GoTo, Steps, storeVars, iam
  <2> QED
    BY <1>1, <1>3, <2>1, <2>3, BeginsToWait
<1>4. ASSUME NEW res \in {"NotFound", "Expired", "FenceExhausted"}, RefuseLease(Sid, res),
             NEW result \in {"unauthenticated", "unavailable"}, Fail(r, result),
             UNCHANGED <<lease, deadline, rival>>
      PROVE  Rely /\ Inv' /\ OthersSame(r)
  <2>1. KeepOrDrop
    BY <1>4, RefuseCalls
  <2>2. StoreTypeOK'
    BY <1>1, <2>1, KeepOrDropIsRely DEF iam
  <2>3. Typed'
    BY <1>1, <1>4, <2>2 DEF Inv, Typed, Fail, Steps, Outcomes, iam
  <2> QED
    BY <1>1, <1>4, <2>1, <2>3, FailStep DEF OthersTries, Outcomes, iam, history
<1> QED
  BY <1>2, <1>3, <1>4 DEF Acquire

(* Whoever releases a lease in force was its holder; if the backend fails the *)
(* release, the lease is an orphan.                                           *)
LEMMA ReleaseLeaseStep ==
    ASSUME Inv, NEW r \in Requests, ReleaseLease(r)
    PROVE  Rely /\ Inv' /\ OthersSame(r)
<1>1. /\ pc[r] = "release" /\ r \in Resolvers /\ item[r] # NoSession
      /\ lease[r] \in Handle /\ lease[r] # NoLease /\ lease[r].id = Sid
      /\ UNCHANGED <<now, item, next, deadline, tries, iam, committed, rival>>
      /\ outcome[r] # "none" => outcome'[r] # "none"
  BY DEF ReleaseLease, GoTo, Inv, Typed, RequestInv, PlaceInv, ItemInv, HasItem, UnderLease,
         Requests, Handle
<1>2. /\ UNCHANGED <<sessions, nextFence>>
      /\ leases' = leases \/ leases' = [leases EXCEPT ![Sid] = NoLease]
      /\ orphans' \in {orphans, orphans \cup {lease[r].fence}}
      /\ leases' = leases /\ OwnsLease(lease[r], Sid) => Remote /\ lease[r].fence \in orphans'
  <2>1. CASE (\E res \in {"ok", "LeaseLost"} : Release(lease[r], res)) /\ UNCHANGED orphans
    BY <1>1, <2>1, leases[Sid] # NoLease => leases # [leases EXCEPT ![Sid] = NoLease]
    DEF Release, storeVars, OwnsLease, Inv, Typed, StoreTypeOK
  <2>2. CASE /\ Remote /\ orphans' = orphans \cup {lease[r].fence} /\ UNCHANGED store
    BY <2>2 DEF store
  <2> QED
    BY <2>1, <2>2 DEF ReleaseLease
<1>4. /\ leases'[Sid] \in {leases[Sid], NoLease}
      /\ leases'[Sid] # NoLease => leases' = leases
      /\ StoreTypeOK'
  BY <1>1, <1>2 DEF Inv, Typed, StoreTypeOK
<1>5. Rely /\ StoreInv'
  BY <1>1, <1>2, <1>4
  DEF Rely, SameTokens, StoreInv, WellFormed, Present, Stored, Inv, Typed, StoreTypeOK, iam
<1>6. /\ item'[r] = item[r] /\ pc'[r] = (IF outcome[r] = "none" THEN "refreshed" ELSE "done")
      /\ lease'[r] = NoLease /\ outcome'[r] = outcome[r]
  BY DEF ReleaseLease, GoTo, Inv, Typed
<1>7. Typed'
  BY <1>1, <1>2, <1>4 DEF ReleaseLease, GoTo, Inv, Typed, Steps, iam, Handle
<1>8. OthersSame(r)
  BY <1>1 DEF ReleaseLease, GoTo, Inv, Typed, OthersSame, Same
<1>9. HeldOrOrphaned'
  <2> SUFFICES ASSUME LeaseLive(Sid)', ~(Remote /\ leases'[Sid].fence \in orphans')
               PROVE  \E s \in Resolvers : pc'[s] \in UnderLease /\ lease'[s] # NoLease
                                            /\ OwnsLease(lease[s], Sid)' /\ lease'[s] = lease[s]
    BY DEF HeldOrOrphaned, Holds, OwnsLease
  <2>1. leases' = leases /\ LeaseLive(Sid) /\ ~OwnsLease(lease[r], Sid)
    BY <1>1, <1>2, <1>4 DEF LeaseLive, OwnsLease
  <2>2. PICK s \in Resolvers : /\ pc[s] \in UnderLease /\ lease[s] # NoLease
                               /\ OwnsLease(lease[s], Sid)
    BY <1>2, <2>1 DEF Inv, HeldOrOrphaned, Holds
  <2> QED
    BY <1>1, <1>8, <2>1, <2>2 DEF OthersSame, Same, OwnsLease, Requests
<1>10. PlaceInv(r)' /\ NextInv(r)' /\ TokenInv(r)' /\ WaitInv(r)' /\ GoneInv(r)' /\ RetryInv(r)'
  BY <1>1, <1>6, ProtocolAssumption
  DEF Inv, RequestInv, PlaceInv, NextInv, TokenInv, WaitInv, GoneInv, RetryInv, WithinRetries,
      HasNext, UnderLease,
      Undecided
<1>11. ItemInv(r)'
  BY <1>1, <1>5, <1>6, <1>7, StillKnown DEF ItemInv
<1> QED
  BY <1>5, <1>7, <1>8, <1>9, <1>10, <1>11, RequestStep DEF RequestInv

-----------------------------------------------------------------------------
\* The logouts.

(* A logout that has come past its deletion leaves no session. *)
LEMMA LogoutMove ==
    ASSUME Inv, Typed', NEW l \in Logouts, pc[l] \in {"start", "delete", "endSession"},
           KeepOrDrop, accepted' \subseteq accepted, OthersSame(l),
           UNCHANGED <<now, item, lease, minted, history>>,
           pc'[l] \in {"delete", "endSession", "done"},
           pc'[l] # "done" => outcome'[l] = outcome[l],
           pc'[l] = "endSession" \/ outcome'[l] = "ok" => ~Present(Sid)'
    PROVE  Rely /\ Inv' /\ OthersSame(l)
<1>1. /\ l \in Requests /\ l \notin Resolvers /\ item'[l] = item[l] /\ lease'[l] = NoLease
      /\ outcome[l] = "none" /\ pc[l] \notin UnderLease
  BY ProtocolAssumption
  DEF Requests, Inv, RequestInv, PlaceInv, UnderLease, Undecided, Steps
<1>2. Rely /\ StoreInv' /\ leases'[Sid] \in {leases[Sid], NoLease}
  BY KeepOrDropIsRely DEF history
<1>3. PlaceInv(l)'
  BY <1>1 DEF PlaceInv, UnderLease, Undecided
<1>4. ItemInv(l)'
  BY <1>1, <1>2, StillKnown DEF ItemInv, HasItem, UnderLease
<1>5. NextInv(l)' /\ TokenInv(l)' /\ WaitInv(l)' /\ GoneInv(l)' /\ RetryInv(l)'
  BY DEF NextInv, TokenInv, WaitInv, GoneInv, RetryInv, WithinRetries, HasNext
<1> QED
  BY <1>1, <1>2, <1>3, <1>4, <1>5, Move DEF RequestInv, StaysUnderLease

(* A deletion leaves no session, whatever was there. *)
LEMMA DeleteCalls ==
    Delete(Sid, "ok") => KeepOrDrop /\ (Typed => ~Present(Sid)')
BY DEF Delete, DeleteSession, KeepOrDrop, Present, Typed, StoreTypeOK

(* A local logout deletes and is done. *)
LEMMA LocalLogoutStep ==
    ASSUME Inv, NEW l \in Logouts, LocalLogout(l)
    PROVE  Rely /\ Inv' /\ OthersSame(l)
<1>1. KeepOrDrop /\ ~Present(Sid)'
  BY DeleteCalls DEF LocalLogout, Inv
<1>2. StoreTypeOK'
  BY <1>1, KeepOrDropIsRely DEF LocalLogout, iam, history
<1>3. Typed'
  BY <1>2 DEF LocalLogout, Answer, Inv, Typed, Steps, Outcomes, iam, history
<1>4. OthersSame(l) /\ pc'[l] = "done"
  BY DEF LocalLogout, Answer, Inv, Typed, OthersSame, Same, history, Requests
<1> QED
  BY <1>1, <1>3, <1>4, LogoutMove DEF LocalLogout, iam

(* A central or global logout looks at the session, or finds none. *)
LEMMA LogoutReadStep ==
    ASSUME Inv, NEW l \in Logouts, LogoutRead(l)
    PROVE  Rely /\ Inv' /\ OthersSame(l)
<1>0. /\ l \in Requests /\ l \notin Resolvers /\ pc[l] = "start" /\ lease[l] = NoLease
      /\ outcome[l] = "none"
  BY ProtocolAssumption
  DEF LogoutRead, Requests, Inv, RequestInv, PlaceInv, UnderLease, Undecided, Steps
<1>1. StoreTypeOK'
  BY GetCalls, KeepOrDropIsRely DEF LogoutRead, KeepOrDrop, iam, history
<1>2. Typed'
  BY <1>1, GetCalls
  DEF LogoutRead, Inv, Typed, StoreTypeOK, GoTo, Answer, Live, Present, Steps, Outcomes,
      iam, history
<1>3. KeepOrDrop /\ (pc'[l] # "delete" => ~Present(Sid)')
  BY <1>0, GetCalls DEF LogoutRead, GoTo, Answer, KeepOrDrop, Inv, Typed
<1>4. /\ OthersSame(l) /\ pc'[l] \in {"delete", "done"}
      /\ pc'[l] = "delete" => outcome'[l] = "none"
      /\ pc'[l] # "done" => outcome'[l] = outcome[l]
  BY <1>0 DEF LogoutRead, GoTo, Answer, Inv, Typed, OthersSame, Same, history
<1> QED
  BY <1>0, <1>2, <1>3, <1>4, LogoutMove DEF LogoutRead, iam

(* It deletes the session before it turns to IAM. *)
LEMMA LogoutDeleteStep ==
    ASSUME Inv, NEW l \in Requests, LogoutDelete(l)
    PROVE  Rely /\ Inv' /\ OthersSame(l)
<1>0. l \in Logouts
  BY DEF LogoutDelete, Inv, RequestInv, PlaceInv
<1>1. KeepOrDrop /\ ~Present(Sid)'
  BY DeleteCalls DEF LogoutDelete, Inv
<1>2. StoreTypeOK'
  BY <1>1, KeepOrDropIsRely DEF LogoutDelete, iam, history
<1>3. Typed'
  BY <1>2 DEF LogoutDelete, GoTo, Answer, Inv, Typed, Steps, Outcomes, iam, history
<1>4. /\ OthersSame(l) /\ pc'[l] \in {"endSession", "done"}
      /\ pc'[l] # "done" => outcome'[l] = outcome[l]
  BY DEF LogoutDelete, GoTo, Answer, Inv, Typed, OthersSame, Same, history
<1> QED
  BY <1>0, <1>1, <1>3, <1>4, LogoutMove DEF LogoutDelete, iam

(* Whatever IAM says, the session is gone. *)
LEMMA EndSessionStep ==
    ASSUME Inv, NEW l \in Requests, EndSession(l)
    PROVE  Rely /\ Inv' /\ OthersSame(l)
<1>0. l \in Logouts /\ ~Present(Sid)'
  BY DEF EndSession, Inv, RequestInv, PlaceInv, GoneInv, Present, store
<1>1. KeepOrDrop /\ accepted' \subseteq accepted
  BY DEF EndSession, KeepOrDrop, store, storeVars
<1>3. Typed'
  BY DEF EndSession, Answer, Inv, Typed, StoreTypeOK, Steps, Outcomes, store, history
<1>4. OthersSame(l) /\ pc'[l] = "done"
  BY DEF EndSession, Answer, Inv, Typed, OthersSame, Same, history
<1> QED
  BY <1>0, <1>1, <1>3, <1>4, LogoutMove DEF EndSession

-----------------------------------------------------------------------------
\* Interruptions.

(* A grant gives out the next fence, for no longer than LeaseTTL. *)
LEMMA GrantIsRely ==
    ASSUME Inv, GrantLease(Sid, LeaseTTL), UNCHANGED <<now, iam, committed>>,
           orphans \subseteq orphans'
    PROVE  /\ Rely /\ StoreInv' /\ StoreTypeOK'
           /\ leases'[Sid].fence = nextFence + 1 /\ nextFence + 1 \in 1..MaxFence
<1> DEFINE l == [fence |-> nextFence + 1, expiresAt |-> now + LeaseTTL]
<1>1. /\ leases' = [leases EXCEPT ![Sid] = l] /\ nextFence' = nextFence + 1
      /\ sessions' = sessions
      /\ nextFence + 1 \in 1..MaxFence /\ now + LeaseTTL \in Nat
      /\ l.fence = nextFence + 1 /\ l.expiresAt = now + LeaseTTL
  BY ProtocolAssumption DEF GrantLease, MayLease, Inv, Typed, StoreTypeOK
<1>2. l \in Lease /\ l # NoLease
  BY <1>1, ProtocolAssumption DEF Lease
<1> HIDE DEF l
<1>3. leases'[Sid] = l
  BY <1>1 DEF Inv, Typed, StoreTypeOK
<1>4. StoreTypeOK'
  BY <1>1, <1>2 DEF Inv, Typed, StoreTypeOK
<1> QED
  BY <1>1, <1>2, <1>3, <1>4, ProtocolAssumption
  DEF Rely, SameTokens, StoreInv, WellFormed, Present, Stored, Inv, Typed, StoreTypeOK, iam

(* An interrupted request leaves with an error, by way of the release if it has *)
(* a lease, whether or not the backend has done what it was asked to do.        *)
LEMMA InterruptStep ==
    ASSUME Inv, NEW r \in Requests, Interrupt(r)
    PROVE  Rely /\ Inv' /\ OthersSame(r)
<1>1. /\ Fail(r, "interrupted") /\ pc[r] \in Interruptible
      /\ UNCHANGED <<now, item, next, lease, tries, iam>>
      /\ "interrupted" \in Outcomes \ {"ok", "none"} /\ OthersTries(r) /\ OthersWait(r)
      /\ deadline' \in [Requests -> Nat] /\ rival' \in [Requests -> 0..MaxFence]
  BY WaitEndsAlone DEF Interrupt, Outcomes, OthersTries
<1>2. ASSUME StoreTypeOK', committed' \subseteq 1..MaxToken, orphans' \subseteq 1..MaxFence
      PROVE  Typed'
  BY <1>1, <1>2 DEF Inv, Typed, Fail, Steps, iam
<1>3. CASE KeepOrDrop /\ UNCHANGED <<committed, orphans>>
  <2>1. StoreTypeOK'
    BY <1>1, <1>3, KeepOrDropIsRely DEF iam
  <2>2. Typed'
    BY <1>2, <1>3, <2>1 DEF Inv, Typed
  <2> QED
    BY <1>1, <1>3, <2>2, FailDropStep DEF iam
<1>4. ASSUME Rely, StoreInv', StoreTypeOK', committed' \subseteq 1..MaxToken,
             orphans' \subseteq 1..MaxFence, leases'[Sid] \in {leases[Sid], NoLease}
      PROVE  Rely /\ Inv' /\ OthersSame(r)
  <2>1. Typed'
    BY <1>2, <1>4
  <2>2. \A s \in Resolvers : pc[s] \in UnderLease =>
            pc'[s] \in UnderLease /\ lease'[s] = lease[s]
    BY <1>1 DEF Inv, Typed, RequestInv, PlaceInv, Fail, UnderLease, Requests
  <2>3. HeldOrOrphaned'
    BY <1>4, <2>1, <2>2, LeaseStaysHeld DEF Rely
  <2> QED
    BY <1>1, <1>4, <2>1, <2>3, FailsAnyway
<1>5. CASE /\ Remote /\ pc[r] = "acquire" /\ GrantLease(Sid, LeaseTTL)
           /\ orphans' = orphans \cup {nextFence + 1} /\ UNCHANGED committed
  <2>1. /\ Rely /\ StoreInv' /\ StoreTypeOK'
        /\ leases'[Sid].fence = nextFence + 1 /\ nextFence + 1 \in 1..MaxFence
    BY <1>1, <1>5, GrantIsRely
  <2>2. Typed'
    BY <1>2, <1>5, <2>1 DEF Inv, Typed
  <2>3. HeldOrOrphaned'
    BY <1>5, <2>1 DEF HeldOrOrphaned
  <2> QED
    BY <1>1, <2>1, <2>2, <2>3, FailsAnyway
<1>6. CASE /\ Remote /\ pc[r] = "commit" /\ WriteUnderLease(r)
           /\ committed' = committed \cup {next[r].payload.access} /\ UNCHANGED orphans
  <2>1. CommitCall(r, "ok")
    BY <1>6 DEF CommitCall
  <2>2. Renews(r)
    BY <1>1, <1>6 DEF WriteUnderLease, Renews, Fail, Inv, Typed, RequestInv, PlaceInv, UnderLease
  <2>3. /\ Rely /\ StoreInv' /\ StoreTypeOK' /\ next[r] \in Session
        /\ leases'[Sid] \in {leases[Sid], NoLease}
    BY <1>1, <1>6, <2>1, <2>2, SwapCalls, WriteIsRely
  <2> QED
    BY <1>4, <1>6, <2>3 DEF Inv, Typed, Session, Content
<1>7. CASE /\ pc[r] = "swap" /\ CompareAndSwap(Sid, item[r].version, next[r], "ok")
           /\ UNCHANGED <<committed, orphans>>
  <2>1. SwapCall(r, "ok")
    BY <1>7 DEF SwapCall
  <2>2. next[r].payload.access \in committed'
    BY <1>7 DEF Inv, RequestInv, ItemInv, Known, NextInv, HasItem
  <2>3. /\ Rely /\ StoreInv' /\ StoreTypeOK'
        /\ leases'[Sid] \in {leases[Sid], NoLease}
    BY <1>1, <1>7, <2>1, <2>2, SwapCalls, WriteIsRely
  <2> QED
    BY <1>4, <1>7, <2>3 DEF Inv, Typed
<1>8. CASE Delete(Sid, "ok") /\ UNCHANGED <<committed, orphans>>
  BY <1>3, <1>8, DeleteCalls
<1>9. CASE UNCHANGED <<store, committed, orphans>>
  BY <1>3, <1>9 DEF KeepOrDrop, store, storeVars
<1> QED
  BY <1>5, <1>6, <1>7, <1>8, <1>9 DEF Interrupt, DoneUnanswered

-----------------------------------------------------------------------------
\* The environment, and all steps together.

(* A step that is nobody's keeps the invariant if it keeps within Rely. *)
LEMMA NobodysStep ==
    ASSUME Inv, Typed', Rely, StoreInv', UNCHANGED request, UNCHANGED history,
           leases'[Sid] \in {leases[Sid], NoLease}
    PROVE  Rely /\ Inv'
<1>1. \A s \in Requests : Same(s)
  BY DEF Same, request, history
<1>2. HeldOrOrphaned'
  BY LeaseStaysHeld DEF request, Rely
<1> QED
  BY <1>1, <1>2, RelyKeepsOthers DEF Inv

(* A stray token, a revocation and the clock keep the invariant. *)
LEMMA EnvironmentStep ==
    ASSUME Inv,
           \/ \E token \in stray : StrayArrives(token)
           \/ IamRevokes
           \/ ClockTick
           \/ UNCHANGED vars
    PROVE  Rely /\ Inv'
<1>1. CASE \/ \E token \in stray : StrayArrives(token)
           \/ IamRevokes
           \/ UNCHANGED vars
  <2>1. /\ KeepOrDrop /\ accepted' \subseteq accepted /\ stray' \subseteq stray
        /\ UNCHANGED <<now, request, minted, history>> /\ UNCHANGED store
    BY <1>1 DEF StrayArrives, IamRevokes, vars, KeepOrDrop, store, storeVars, iam
  <2>2. Typed'
    BY <2>1 DEF Inv, Typed, StoreTypeOK, request, history, store
  <2> QED
    BY <2>1, <2>2, KeepOrDropIsRely, NobodysStep DEF history
<1>2. CASE ClockTick
  <2>1. now \in Nat /\ now' = now + 1 /\ UNCHANGED <<storeVars, request, iam, history>>
    BY <1>2, ProtocolAssumption DEF ClockTick, Tick, Inv, Typed, StoreTypeOK
  <2>2. Typed'
    BY <1>2, ProtocolAssumption
    DEF ClockTick, Tick, Inv, Typed, StoreTypeOK, request, history, iam, storeVars
  <2>3. Rely /\ StoreInv' /\ leases'[Sid] \in {leases[Sid], NoLease}
    BY <2>1, ProtocolAssumption
    DEF Rely, SameTokens, StoreInv, WellFormed, Present, Stored, Inv, Typed, StoreTypeOK, Lease,
        iam,
        history, storeVars
  <2> QED
    BY <2>1, <2>2, <2>3, NobodysStep
<1> QED
  BY <1>1, <1>2

(* The login leaves a well-formed session, and no request has arrived. *)
LEMMA InitInv == Init => Inv
<1> SUFFICES ASSUME Init PROVE Inv
  OBVIOUS
<1>1. PICK refresh \in {0, 1}, lifetime \in Lifetimes :
        /\ sessions = [id \in {Sid} |-> LoggedIn(refresh, lifetime)]
        /\ accepted = {refresh} \ {0}
  BY DEF Init
<1> DEFINE first == LoggedIn(refresh, lifetime)
<1>2. /\ first \in Session /\ first # NoSession
      /\ first.payload.access = 1 /\ first.payload.refresh \in {0, 1}
      /\ first.payload.lastSeen = 0
      /\ first.idleExpiresAt = IdleTTL /\ first.expiresAt = AbsoluteTTL
  BY ProtocolAssumption DEF LoggedIn, Session, Content
<1>3. sessions = [id \in {Sid} |-> first]
  BY <1>1
<1> HIDE DEF first
<1>4. Typed
  BY <1>1, <1>2, <1>3, ProtocolAssumption DEF Init, Typed, StoreTypeOK, Steps, Outcomes
<1>5. StoreInv /\ HeldOrOrphaned
  BY <1>2, <1>3, ProtocolAssumption
  DEF Init, StoreInv, HeldOrOrphaned, LeaseLive, Stored, WellFormed, Earlier
<1>6. \A r \in Requests : RequestInv(r)
  BY DEF Init, RequestInv, PlaceInv, ItemInv, NextInv, TokenInv, WaitInv, GoneInv, RetryInv,
         WithinRetries, HasItem,
         HasNext, UnderLease, Undecided, Steps
<1> QED
  BY <1>4, <1>5, <1>6 DEF Inv

\* What request r may do next.
Step(r) ==
    \/ Proceed(r) \/ Interrupt(r)
    \/ r \in Resolvers /\ Load(r)
    \/ r \in Logouts /\ (LocalLogout(r) \/ LogoutRead(r))

(* Every step of a request keeps Rely and the invariant, and moves no other. *)
LEMMA RequestSteps ==
    ASSUME Inv, NEW r \in Requests, Step(r)
    PROVE  Rely /\ Inv' /\ OthersSame(r)
<1>1. CASE Proceed(r)
  BY <1>1, DecideStep, AcquireStep, AcquireCollidesStep, RecheckStep, DecideExchangeStep,
     IamGrantsStep, IamRefusesStep, ExchangeFailsStep, VerifyStep, CommitStep, ReloadStep,
     ReleaseLeaseStep, PurgeStep, PurgeReloadStep, WaitPollStep, GiveUpStep,
     AcceptRefreshedStep, TouchStep, SwapStep, TouchReloadStep, LogoutDeleteStep,
     EndSessionStep
  DEF Proceed, Exchange
<1>2. CASE Interrupt(r)
  BY <1>2, InterruptStep
<1>3. CASE r \in Resolvers /\ Load(r)
  BY <1>3, LoadStep
<1>4. CASE r \in Logouts /\ (LocalLogout(r) \/ LogoutRead(r))
  BY <1>4, LocalLogoutStep, LogoutReadStep
<1> QED
  BY <1>1, <1>2, <1>3, <1>4 DEF Step

(* Every step is some request's, or leaves all requests where they are. *)
LEMMA WhoseStep ==
    ASSUME [Next]_vars
    PROVE  \/ \E r \in Requests : Step(r)
           \/ \/ \E token \in stray : StrayArrives(token)
              \/ IamRevokes
              \/ ClockTick
              \/ UNCHANGED vars
BY DEF Next, Step, Requests

(* Every step keeps Rely and the invariant. *)
LEMMA NextStep == Inv /\ [Next]_vars => Rely /\ Inv'
BY WhoseStep, RequestSteps, EnvironmentStep

(* A request moves by its own steps only. *)
LEMMA MovesItself ==
    ASSUME Inv, [Next]_vars, NEW r \in Requests, ~Same(r)
    PROVE  Step(r)
<1>1. CASE \E s \in Requests : Step(s)
  BY <1>1, RequestSteps DEF OthersSame
<1>2. CASE \/ \E token \in stray : StrayArrives(token)
           \/ IamRevokes
           \/ ClockTick
           \/ UNCHANGED vars
  BY <1>2 DEF StrayArrives, IamRevokes, ClockTick, vars, request, history, Same
<1> QED
  BY <1>1, <1>2, WhoseStep

(* The invariant holds in every reachable state. *)
LEMMA Invariance == Spec => []Inv
<1>1. Inv /\ [Next]_vars => Inv'
  BY NextStep
<1> QED
  BY InitInv, <1>1, PTL DEF Spec

-----------------------------------------------------------------------------
\* What follows.

(* The variables keep to their types, whoever calls, and no touch and no purge *)
(* goes past its retries, however often the backend answers with a conflict.   *)
THEOREM TypeCorrect == Spec => []TypeOK
<1>1. Inv => TypeOK
  BY DEF Inv, TypeOK, RequestInv, RetryInv
<1> QED
  BY <1>1, Invariance, PTL

(* Nobody is answered with tokens that were exchanged and never stored. *)
THEOREM OnlyCommittedAnswers == Spec => []AnswersAreCommitted
<1>1. Inv => AnswersAreCommitted
  BY DEF Inv, RequestInv, ItemInv, Known, AnswersAreCommitted, Requests
<1> QED
  BY <1>1, Invariance, PTL

(* A logout that has answered has the last word on the session. *)
THEOREM LogoutHolds == Spec => []LogoutIsFinal
<1>1. Inv => LogoutIsFinal
  BY DEF Inv, RequestInv, GoneInv, LogoutIsFinal, Requests
<1> QED
  BY <1>1, Invariance, PTL

(* No touch and no commit brings back a session that is gone. *)
THEOREM GoneForGood == Spec => NoResurrection
<1>1. Inv /\ [Next]_vars => [~Present(Sid) => ~Present(Sid)']_vars
  BY NextStep DEF Rely
<1> QED
  BY <1>1, Invariance, PTL DEF Spec, NoResurrection

(* The stored tokens never go back, whatever stale sessions are about. *)
THEOREM NoTokenRollback == Spec => TokensNeverGoBack
<1>1. Inv /\ [Next]_vars =>
        [Kept => /\ Stored.payload.access <= Stored'.payload.access
                 /\ Stored.payload.refresh <= Stored'.payload.refresh]_vars
  <2> SUFFICES ASSUME Inv, [Next]_vars, Kept
               PROVE  /\ Stored.payload.access <= Stored'.payload.access
                      /\ Stored.payload.refresh <= Stored'.payload.refresh
    OBVIOUS
  <2>1. Stored' = Stored \/ Supersedes(Stored', Stored)
    BY NextStep DEF Rely, Kept
  <2>2. Stored \in Session
    BY DEF Inv, Typed, StoreTypeOK, Kept, Present, Stored
  <2> QED
    BY <2>1, <2>2, ProtocolAssumption DEF Supersedes, Session, Content
<1> QED
  BY <1>1, Invariance, PTL DEF Spec, TokensNeverGoBack

(* The idle deadline slides forward, within a lifetime that does not move. *)
THEOREM IdleSlides == Spec => IdleSlidesWithinLifetime
<1>1. Inv /\ [Next]_vars =>
        [Kept => /\ Stored.idleExpiresAt <= Stored'.idleExpiresAt
                 /\ Stored.payload.lastSeen <= Stored'.payload.lastSeen
                 /\ Stored'.expiresAt = Stored.expiresAt
                 /\ Stored'.idleExpiresAt <= Stored'.expiresAt]_vars
  <2> SUFFICES ASSUME Inv, [Next]_vars, Kept
               PROVE  /\ Stored.idleExpiresAt <= Stored'.idleExpiresAt
                      /\ Stored.payload.lastSeen <= Stored'.payload.lastSeen
                      /\ Stored'.expiresAt = Stored.expiresAt
                      /\ Stored'.idleExpiresAt <= Stored'.expiresAt
    OBVIOUS
  <2>1. Inv' /\ (Stored' = Stored \/ Supersedes(Stored', Stored))
    BY NextStep DEF Rely, Kept
  <2>2. Stored \in Session /\ Stored' \in Session /\ IdleTTL \in Nat
    BY <2>1, ProtocolAssumption DEF Inv, Typed, StoreTypeOK, Kept, Present, Stored
  <2>3. Stored'.idleExpiresAt <= Stored'.expiresAt
    BY <2>1, <2>2 DEF Inv, StoreInv, Kept, WellFormed, Earlier, Session, Content
  <2> QED
    BY <2>1, <2>2, <2>3 DEF Supersedes, Session, Content
<1> QED
  BY <1>1, Invariance, PTL DEF Spec, IdleSlidesWithinLifetime

(* Only a request's own purge takes it away from "purge". *)
LEMMA LeavesPurgeByPurging ==
    ASSUME Inv, [Next]_vars, NEW r \in Resolvers, pc[r] = "purge", pc'[r] # "purge"
    PROVE  Purge(r)
<1>1. Step(r)
  BY MovesItself DEF Same, Requests
<1> QED
  BY <1>1
  DEF Step, Proceed, Exchange, Interrupt, Interruptible, Load, LocalLogout, LogoutRead, Decide,
      Acquire, AcquireCollides, Recheck, DecideExchange, IamGrants, IamRefuses, ExchangeFails,
      Verify, Commit, Reload, ReleaseLease, PurgeReload, WaitPoll, GiveUp, AcceptRefreshed,
      Touch, Swap, TouchReload, LogoutDelete, EndSession

(* A purge takes away no session whose refresh token IAM accepts. *)
THEOREM PurgesAreDeserved == Spec => PurgeSparesTheLiving
<1>1. Inv /\ [Next]_vars =>
        [\A r \in Resolvers :
            pc[r] = "purge" /\ pc'[r] # "purge" /\ Live(Sid) /\ ~Present(Sid)' =>
                Stored.payload.refresh \notin accepted]_vars
  <2> SUFFICES ASSUME Inv, [Next]_vars, NEW r \in Resolvers, pc[r] = "purge",
                      pc'[r] # "purge", Live(Sid), ~Present(Sid)'
               PROVE  Stored.payload.refresh \notin accepted
    OBVIOUS
  <2>1. Purge(r)
    BY LeavesPurgeByPurging
  <2>2. Stored.version = item[r].version
    BY <2>1 DEF Purge, PurgeCall, DeleteWithLease, Stored, Live, Stale, Present, store, storeVars
  <2>3. Known(item[r]) /\ item[r].payload.refresh \notin accepted
    BY DEF Inv, RequestInv, ItemInv, TokenInv, HasItem, UnderLease, Requests
  <2> QED
    BY <2>2, <2>3 DEF Known, Live
<1> QED
  BY <1>1, Invariance, PTL DEF Spec, PurgeSparesTheLiving

(* A waiting request becomes unavailable by giving up only. *)
LEMMA LeavesWaitByGivingUp ==
    ASSUME Inv, [Next]_vars, NEW r \in Resolvers, pc[r] = "wait", outcome'[r] = "unavailable"
    PROVE  GiveUp(r)
<1>1. outcome[r] = "none" /\ r \in Requests
  BY DEF Inv, RequestInv, PlaceInv, Undecided, Steps, Requests
<1>2. Step(r)
  BY <1>1, MovesItself DEF Same
<1>3. CASE WaitPoll(r)
  BY <1>1, <1>3 DEF WaitPoll, GoTo, Fail, Inv, Typed
<1>4. CASE Interrupt(r)
  BY <1>1, <1>4 DEF Interrupt, Fail, Inv, Typed
<1> QED
  BY <1>2, <1>3, <1>4
  DEF Step, Proceed, Exchange, Load, LocalLogout, LogoutRead, Decide,
      Acquire, AcquireCollides, Recheck, DecideExchange, IamGrants, IamRefuses, ExchangeFails,
      Verify, Commit, Reload, ReleaseLease, Purge, PurgeReload, AcceptRefreshed,
      Touch, Swap, TouchReload, LogoutDelete, EndSession

(* Nobody gives up on a refresh that is still under way, or has succeeded. *)
THEOREM WaitsLongEnough == Spec => WaitOutlastsLease
<1>1. Inv /\ [Next]_vars =>
        [\A r \in Resolvers :
            pc[r] = "wait" /\ outcome'[r] = "unavailable" =>
                /\ LeaseLive(Sid) => leases[Sid].fence # rival[r]
                /\ Present(Sid)
                /\ Stored.payload.access = item[r].payload.access]_vars
  <2> SUFFICES ASSUME Inv, [Next]_vars, NEW r \in Resolvers, pc[r] = "wait",
                      outcome'[r] = "unavailable"
               PROVE  /\ LeaseLive(Sid) => leases[Sid].fence # rival[r]
                      /\ Present(Sid)
                      /\ Stored.payload.access = item[r].payload.access
    OBVIOUS
  <2>1. /\ now >= deadline[r] /\ Live(Sid) /\ ~WinnerChanged(item[r], Stored)
    BY LeavesWaitByGivingUp, GetCalls DEF GiveUp, Stored
  <2>2. r \in Requests /\ Known(item[r]) /\ WaitInv(r)
    BY DEF Inv, RequestInv, ItemInv, HasItem, Requests
  <2>3. LeaseLive(Sid) => leases[Sid].fence # rival[r]
    <3>1. now \in Nat /\ deadline[r] \in Nat
          /\ (leases[Sid] # NoLease => leases[Sid].expiresAt \in Nat)
      BY <2>2, ProtocolAssumption DEF Inv, Typed, StoreTypeOK, Lease
    <3> QED
      BY <2>1, <2>2, <3>1 DEF WaitInv, LeaseLive
  <2> QED
    BY <2>1, <2>2, <2>3 DEF WinnerChanged, Known, Live
<1> QED
  BY <1>1, Invariance, PTL DEF Spec, WaitOutlastsLease

-----------------------------------------------------------------------------
\* The lease makes the renewal exclusive.

Renewing == {"rechecked", "exchange", "verify", "commit"}

\* No two requests ever have the same fence.
FencesDiffer ==
    /\ \A r \in Resolvers : lease[r] # NoLease => lease[r].fence <= nextFence
    /\ \A r, s \in Resolvers :
        lease[r] # NoLease /\ lease[s] # NoLease /\ lease[r].fence = lease[s].fence => r = s

\* Nor does a request have an orphan's.
OrphansApart ==
    /\ \A f \in orphans : f <= nextFence
    /\ \A r \in Resolvers : lease[r] # NoLease => lease[r].fence \notin orphans

\* Whoever renews under a lease in force renews the tokens that are stored.
HoldsTheTokens ==
    \A r \in Resolvers :
        pc[r] \in Renewing /\ Holds(r) /\ Present(Sid) => SameTokens(Stored, item[r])

(***************************************************************************)
(* A lease in force has one holder, and from its recheck to its commit the *)
(* stored tokens are those it has read: nobody stores others beside it,    *)
(* and what it commits replaces the tokens that it has exchanged.          *)
(***************************************************************************)
RefreshIsExclusive ==
    /\ \A r, s \in Resolvers : Holds(r) /\ Holds(s) => r = s
    /\ HoldsTheTokens

ExclusiveInv == Inv /\ FencesDiffer /\ OrphansApart /\ HoldsTheTokens

(* A request gets a lease with a fence of its own, or keeps or loses what it has. *)
LEMMA LeaseMoves ==
    ASSUME Inv, NEW r \in Resolvers, Step(r)
    PROVE  \/ lease'[r] \in {lease[r], NoLease}
           \/ lease'[r].fence = nextFence + 1 /\ nextFence' = nextFence + 1
<1>1. CASE Acquire(r)
  BY <1>1 DEF Acquire, GrantLease, NewHandle, Inv, Typed, Requests
<1>2. CASE ReleaseLease(r)
  BY <1>2 DEF ReleaseLease, Inv, Typed, Requests
<1> QED
  BY <1>1, <1>2
  DEF Step, Proceed, Exchange, Interrupt, Load, LocalLogout, LogoutRead, Decide,
      AcquireCollides, Recheck, DecideExchange, IamGrants, IamRefuses, ExchangeFails,
      Verify, Commit, Reload, Purge, PurgeReload, WaitPoll, GiveUp, AcceptRefreshed,
      Touch, Swap, TouchReload, LogoutDelete, EndSession

(* A request comes into the renewal by its recheck, and goes on with what it read. *)
LEMMA RenewingMoves ==
    ASSUME Inv, NEW r \in Resolvers, Step(r), pc'[r] \in Renewing
    PROVE  /\ UNCHANGED <<now, storeVars, lease>>
           /\ (pc[r] \in Renewing /\ item'[r] = item[r]) \/ item'[r] = Stored
<1>0. r \in Requests /\ r \notin Logouts
  BY ProtocolAssumption DEF Requests
<1> USE <1>0 DEF Renewing, Inv, Typed
<1>1. CASE Recheck(r)
  BY <1>1, GetCalls DEF Recheck, GoTo, Fail, Read, Stored
<1>2. CASE DecideExchange(r) \/ IamGrants(r) \/ Verify(r)
  BY <1>2 DEF DecideExchange, IamGrants, Verify, GoTo, Fail, store, storeVars
<1>3. CASE Exchange(r) \/ Interrupt(r)
  BY <1>3, <1>2 DEF Exchange, IamRefuses, ExchangeFails, Interrupt, Interruptible, Fail
<1>4. CASE Load(r) \/ Decide(r) \/ Acquire(r) \/ AcquireCollides(r) \/ WaitPoll(r) \/ GiveUp(r)
  BY <1>4 DEF Load, Decide, Acquire, AcquireCollides, WaitPoll, GiveUp, GoTo, Fail
<1>5. CASE Commit(r) \/ Reload(r) \/ ReleaseLease(r) \/ Purge(r) \/ PurgeReload(r)
  BY <1>5 DEF Commit, Reload, ReleaseLease, Purge, PurgeReload, GoTo, Fail
<1>6. CASE \/ AcceptRefreshed(r) \/ Touch(r) \/ Swap(r) \/ TouchReload(r) \/ LogoutDelete(r)
           \/ EndSession(r)
  BY <1>6
  DEF AcceptRefreshed, Touch, Swap, TouchReload, LogoutDelete, EndSession, GoTo, Fail, Answer
<1> QED
  BY <1>1, <1>2, <1>3, <1>4, <1>5, <1>6 DEF Step, Proceed

(* Fences stay apart, since one request at most gets a new one in a step. *)
LEMMA FencesStep == ExclusiveInv /\ [Next]_vars => FencesDiffer'
<1> SUFFICES ASSUME ExclusiveInv, [Next]_vars PROVE FencesDiffer'
  OBVIOUS
<1>1. /\ Inv /\ FencesDiffer /\ nextFence \in Nat /\ nextFence' \in Nat
      /\ nextFence <= nextFence'
      /\ \A r \in Resolvers : lease[r] # NoLease => lease[r].fence \in Nat
  BY NextStep, ProtocolAssumption
  DEF ExclusiveInv, Rely, Inv, Typed, StoreTypeOK, Handle, Requests
<1>2. CASE \A r \in Resolvers : lease'[r] = lease[r]
  BY <1>1, <1>2 DEF FencesDiffer
<1>3. ASSUME NEW r \in Resolvers, lease'[r] # lease[r] PROVE FencesDiffer'
  <2>1. Step(r)
    BY <1>1, <1>3, MovesItself DEF Same, Requests
  <2>2. \A s \in Resolvers \ {r} : lease'[s] = lease[s]
    BY <1>1, <2>1, RequestSteps DEF OthersSame, Same, Requests
  <2>3. \/ lease'[r] = NoLease
        \/ lease'[r].fence = nextFence + 1 /\ nextFence' = nextFence + 1
    BY <1>1, <1>3, <2>1, LeaseMoves
  <2> QED
    BY <1>1, <2>2, <2>3 DEF FencesDiffer
<1> QED
  BY <1>2, <1>3

(* A lease is left behind by the backend that failed its release, or with a *)
(* fence that nobody was told.                                              *)
LEMMA OrphanMoves ==
    ASSUME Inv, NEW r \in Requests, Step(r)
    PROVE  \/ orphans' = orphans
           \/ /\ orphans' = orphans \cup {lease[r].fence}
              /\ lease[r] # NoLease /\ lease'[r] = NoLease
           \/ /\ orphans' = orphans \cup {nextFence + 1} /\ nextFence' = nextFence + 1
              /\ lease' = lease
<1>1. CASE ReleaseLease(r)
  BY <1>1 DEF ReleaseLease, Inv, Typed, RequestInv, PlaceInv, UnderLease
<1>2. CASE Interrupt(r)
  BY <1>2 DEF Interrupt, DoneUnanswered, GrantLease
<1> QED
  BY <1>1, <1>2
  DEF Step, Proceed, Exchange, Load, LocalLogout, LogoutRead, Decide,
      Acquire, AcquireCollides, Recheck, DecideExchange, IamGrants, IamRefuses, ExchangeFails,
      Verify, Commit, Reload, Purge, PurgeReload, WaitPoll, GiveUp, AcceptRefreshed,
      Touch, Swap, TouchReload, LogoutDelete, EndSession, history

(* An orphan stays one, and nobody gets its fence. *)
LEMMA OrphansStep == ExclusiveInv /\ [Next]_vars => OrphansApart'
<1> SUFFICES ASSUME ExclusiveInv, [Next]_vars PROVE OrphansApart'
  OBVIOUS
<1>1. /\ Inv /\ FencesDiffer /\ OrphansApart /\ nextFence \in Nat /\ nextFence' \in Nat
      /\ nextFence <= nextFence' /\ orphans \subseteq Nat
      /\ \A r \in Resolvers : lease[r] # NoLease => lease[r].fence \in Nat
  BY NextStep, ProtocolAssumption
  DEF ExclusiveInv, Rely, Inv, Typed, StoreTypeOK, Handle, Requests
<1>2. CASE \E r \in Requests : Step(r)
  <2>1. PICK r \in Requests : Step(r)
    BY <1>2
  <2>2. \A s \in Resolvers \ {r} : lease'[s] = lease[s]
    BY <1>1, <2>1, RequestSteps DEF OthersSame, Same, Requests
  <2>3. \/ orphans' = orphans
        \/ /\ orphans' = orphans \cup {lease[r].fence}
           /\ lease[r] # NoLease /\ lease'[r] = NoLease
        \/ /\ orphans' = orphans \cup {nextFence + 1} /\ nextFence' = nextFence + 1
           /\ lease' = lease
    BY <1>1, <2>1, OrphanMoves
  <2>4. r \in Resolvers => \/ lease'[r] \in {lease[r], NoLease}
                           \/ lease'[r].fence = nextFence + 1 /\ nextFence' = nextFence + 1
    BY <1>1, <2>1, LeaseMoves
  <2>5. lease[r] # NoLease => r \in Resolvers
    BY <1>1 DEF Inv, RequestInv, PlaceInv, UnderLease, Requests
  <2>6. /\ \A f \in orphans : f <= nextFence'
        /\ \A s \in Resolvers : lease'[s] # NoLease => lease'[s].fence \notin orphans
    <3>1. \A f \in orphans : f <= nextFence' /\ f # nextFence + 1
      BY <1>1 DEF OrphansApart
    <3>2. ASSUME NEW s \in Resolvers, lease'[s] # NoLease
          PROVE  lease'[s].fence \notin orphans
      <4>1. CASE lease'[s] = lease[s]
        BY <1>1, <3>2, <4>1 DEF OrphansApart
      <4>2. CASE lease'[s] # lease[s]
        BY <2>2, <2>4, <3>1, <3>2, <4>2
      <4> QED
        BY <4>1, <4>2
    <3> QED
      BY <3>1, <3>2
  <2>7. CASE orphans' = orphans
    BY <2>6, <2>7 DEF OrphansApart
  <2>8. CASE /\ orphans' = orphans \cup {lease[r].fence}
             /\ lease[r] # NoLease /\ lease'[r] = NoLease
    <3>1. /\ lease[r].fence <= nextFence'
          /\ \A s \in Resolvers : lease'[s] # NoLease => lease'[s].fence # lease[r].fence
      BY <1>1, <2>2, <2>5, <2>8 DEF FencesDiffer
    <3> QED
      BY <2>6, <2>8, <3>1 DEF OrphansApart
  <2>9. CASE /\ orphans' = orphans \cup {nextFence + 1} /\ nextFence' = nextFence + 1
             /\ lease' = lease
    <3>1. /\ nextFence + 1 <= nextFence'
          /\ \A s \in Resolvers : lease'[s] # NoLease => lease'[s].fence # nextFence + 1
      BY <1>1, <2>9 DEF FencesDiffer
    <3> QED
      BY <2>6, <2>9, <3>1 DEF OrphansApart
  <2> QED
    BY <2>3, <2>7, <2>8, <2>9
<1>3. CASE \/ \E token \in stray : StrayArrives(token)
           \/ IamRevokes
           \/ ClockTick
           \/ UNCHANGED vars
  <2>1. orphans' = orphans /\ lease' = lease
    BY <1>3 DEF StrayArrives, IamRevokes, ClockTick, vars, request, history
  <2> QED
    BY <1>1, <2>1 DEF OrphansApart
<1> QED
  BY <1>2, <1>3, WhoseStep

(* The stored tokens stay those of the holder until it stores its own. *)
LEMMA HoldingStep == ExclusiveInv /\ [Next]_vars => HoldsTheTokens'
<1> SUFFICES ASSUME ExclusiveInv, [Next]_vars, NEW r \in Resolvers,
                    pc'[r] \in Renewing, Holds(r)', Present(Sid)'
             PROVE  SameTokens(Stored', item'[r])
  BY DEF HoldsTheTokens
<1>1. Inv /\ FencesDiffer /\ HoldsTheTokens /\ Rely /\ r \in Requests
  BY NextStep DEF ExclusiveInv, Requests
<1>2. CASE Same(r)
  <2>1. /\ pc[r] \in Renewing /\ lease[r] # NoLease /\ item'[r] = item[r]
        /\ lease'[r] = lease[r]
    BY <1>2 DEF Same, Holds
  <2>2. Holds(r)
    <3>1. /\ lease[r].fence <= nextFence /\ lease[r].fence \in Nat /\ nextFence \in Nat
          /\ now \in Nat /\ now' \in Nat /\ now <= now'
          /\ leases'[Sid] # NoLease /\ leases'[Sid].fence = lease[r].fence
          /\ lease[r].expiresAt \in Nat /\ leases'[Sid].expiresAt = lease[r].expiresAt
          /\ leases'[Sid].expiresAt > now' /\ lease[r].id = Sid
      BY <1>1, <2>1, NextStep, ProtocolAssumption
      DEF FencesDiffer, Inv, Typed, StoreTypeOK, Handle, Rely, Holds, OwnsLease
    <3>2. leases'[Sid] = leases[Sid]
      BY <1>1, <3>1 DEF Rely
    <3> QED
      BY <2>1, <3>1, <3>2 DEF Holds, OwnsLease
  <2>3. Present(Sid) /\ SameTokens(Stored, item[r])
    BY <1>1, <2>1, <2>2 DEF HoldsTheTokens, Rely
  <2>4. ASSUME NEW s \in Resolvers, Renews(s) PROVE FALSE
    <3>1. lease[s] # NoLease
      BY <1>1, <2>4 DEF Renews, Inv, RequestInv, PlaceInv, UnderLease, Requests
    <3>2. s = r
      BY <1>1, <2>2, <2>4, <3>1 DEF Renews, Holds, OwnsLease, FencesDiffer
    <3> QED
      BY <1>2, <2>4, <3>2 DEF Renews, Same
  <2> QED
    BY <1>1, <2>1, <2>3, <2>4 DEF Rely, SameTokens
<1>3. CASE ~Same(r)
  <2>1. /\ UNCHANGED <<now, storeVars, lease>>
        /\ (pc[r] \in Renewing /\ item'[r] = item[r]) \/ item'[r] = Stored
    BY <1>1, <1>3, MovesItself, RenewingMoves
  <2>2. CASE item'[r] = Stored
    BY <2>1, <2>2 DEF storeVars, Stored, SameTokens
  <2>3. CASE pc[r] \in Renewing /\ item'[r] = item[r]
    BY <1>1, <2>1, <2>3 DEF HoldsTheTokens, Holds, OwnsLease, Present, Stored, SameTokens,
                            storeVars
  <2> QED
    BY <2>1, <2>2, <2>3
<1> QED
  BY <1>2, <1>3

(* What holds of the leases holds in every reachable state. *)
LEMMA Exclusiveness == Spec => []ExclusiveInv
<1>1. Init => ExclusiveInv
  BY InitInv
  DEF ExclusiveInv, Init, FencesDiffer, OrphansApart, HoldsTheTokens, Holds, Requests
<1>2. ExclusiveInv /\ [Next]_vars => ExclusiveInv'
  BY NextStep, FencesStep, OrphansStep, HoldingStep DEF ExclusiveInv
<1> QED
  BY <1>1, <1>2, PTL DEF Spec

(* At most one request refreshes under a lease in force, and with the tokens *)
(* that are stored.                                                          *)
THEOREM ExclusiveRefresh == Spec => []RefreshIsExclusive
<1>1. ExclusiveInv => RefreshIsExclusive
  BY DEF ExclusiveInv, RefreshIsExclusive, FencesDiffer, Holds, OwnsLease
<1> QED
  BY <1>1, Exclusiveness, PTL

(* A lease in force has a holder at work, on every path through the renewal that *)
(* the request decides on; one that a remote backend has left behind has none    *)
(* and is nobody's.                                                              *)
THEOREM LeasesAreReleased == Spec => []NoLeaseLeaked
<1>1. ExclusiveInv => NoLeaseLeaked
  BY DEF ExclusiveInv, Inv, HeldOrOrphaned, NoLeaseLeaked, OrphansApart, Holds, OwnsLease
<1> QED
  BY <1>1, Exclusiveness, PTL

=============================================================================
