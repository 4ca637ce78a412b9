--------------------------- MODULE RefreshProtocol ---------------------------
(***************************************************************************)
(* Requests of one browser session meeting in runtime/bff: ResolveSession  *)
(* (which renews the tokens when they are about to expire, and slides the  *)
(* idle deadline), and the local, central and global logouts.  They share  *)
(* the session through the backend of MemoryStore, and the identity        *)
(* provider (IAM) through its token endpoint, whose refresh tokens may be  *)
(* good for one use only.                                                  *)
(*                                                                         *)
(* One request is one goroutine; each step is one backend call, one        *)
(* exchange with IAM, or one decision taken at one reading of the clock.   *)
(* What a step read is kept in the request, and may be stale by the next.  *)
(* An acquisition of the lease is one step, its deciding critical section: *)
(* StoreClients shows that the earlier one promises nothing.               *)
(*                                                                         *)
(* With Remote the backend is Redis: a transaction is refused when another *)
(* caller has touched a watched key in between, even if it changed nothing *)
(* that matters; a call may fail, and its write may have been applied all  *)
(* the same.  RedisStore has the transactions step by step; here each is   *)
(* one step, with every answer that it may give.                           *)
(*                                                                         *)
(* An access or refresh token is the number of the grant that IAM made it  *)
(* in.  The session identifier is random and never used again, so no       *)
(* session is created here: the login is the initial state.                *)
(***************************************************************************)
EXTENDS Integers, FiniteSets

CONSTANTS
    Sid,             \* the session all requests carry in their cookie
    Resolvers,       \* requests that end in ResolveSession
    LocalLogouts,    \* localLogout, FrontchannelLogoutHandler
    CentralLogouts,  \* centralLogout
    GlobalLogouts,   \* globalLogout
    MaxVersion, MaxFence, Horizon, NoSession, NoLease,
    MaxToken,        \* IAM stops granting here
    LeaseTTL, IdleTTL, AbsoluteTTL, RefreshBefore,  \* Config
    Lifetimes,       \* for how long IAM may make an access token good
    MaxTouch,        \* maxSessionTouchAttempts
    MaxPurge,        \* maxInvalidGrantDeleteAttempts
    LastArrival,     \* no request arrives later than this
    Remote           \* whether the backend is across a network, as Redis is

\* What the session carries besides what the store looks at.  The refresh
\* token is 0 when IAM gave none.
Content == [access: 1..MaxToken, refresh: 0..MaxToken, accessExpiry: Nat, lastSeen: Nat]

VARIABLES
    now, sessions, leases, nextFence,  \* the backend
    pc,           \* where each request is
    item,         \* the session it works on, as it last read or wrote it
    next,         \* the replacement it is about to store
    lease,        \* the lease it holds
    deadline,     \* when its wait for another request's refresh ends
    tries,        \* conflicts met in the current retry loop
    outcome,      \* what it answers
    minted,       \* IAM: the last grant made
    accepted,     \* IAM: the refresh tokens it accepts
    stray,        \* tokens of abandoned exchanges that may still reach IAM
    committed,    \* history: access tokens that were ever stored
    rival,        \* history: the fence of the lease that made a request wait
    orphans       \* history: fences of leases left in force with no holder

INSTANCE MemoryStore WITH Ids <- {Sid}, Payloads <- Content

store    == <<sessions, leases, nextFence>>
iam      == <<minted, accepted, stray>>
history  == <<committed, rival, orphans>>
request  == <<pc, item, next, lease, deadline, tries, outcome>>
vars     == <<now, store, request, iam, history>>

Logouts  == LocalLogouts \cup CentralLogouts \cup GlobalLogouts
Requests == Resolvers \cup Logouts

ASSUME ProtocolAssumption ==
    /\ MaxVersion \in Nat \ {0} /\ MaxFence \in Nat \ {0} /\ Horizon \in Nat
    /\ NoSession \notin Session /\ NoLease \notin Lease \cup Handle
    /\ LeaseTTL \in Nat \ {0}
    /\ RefreshBefore \in Nat
    /\ IdleTTL \in Nat \ {0} /\ AbsoluteTTL \in Nat /\ IdleTTL <= AbsoluteTTL
    /\ Lifetimes \subseteq Nat \ {0}
    /\ MaxToken \in Nat \ {0} /\ MaxTouch \in Nat \ {0} /\ MaxPurge \in Nat \ {0}
    /\ IsFiniteSet(Resolvers) /\ Resolvers \cap Logouts = {}
    /\ LastArrival \in Nat /\ Remote \in BOOLEAN
    /\ Horizon >= LastArrival + LeaseTTL * Cardinality(Resolvers)

Steps == {"start", "loaded", "acquire", "wait", "held", "rechecked", "exchange",
          "verify", "commit", "reload", "purge", "purgeReload", "release",
          "refreshed", "touch", "swap", "touchReload", "delete", "endSession", "done"}

Outcomes == {"none", "ok", "unauthenticated", "unavailable", "invalidGrant", "interrupted"}

Typed ==
    /\ StoreTypeOK
    /\ pc \in [Requests -> Steps]
    /\ item \in [Requests -> Session \cup {NoSession}]
    /\ next \in [Requests -> Session \cup {NoSession}]
    /\ lease \in [Requests -> Handle \cup {NoLease}]
    /\ deadline \in [Requests -> Nat]
    /\ tries \in [Requests -> Nat]
    /\ outcome \in [Requests -> Outcomes]
    /\ minted \in 1..MaxToken
    /\ accepted \subseteq 1..MaxToken
    /\ stray \subseteq 1..MaxToken
    /\ committed \subseteq 1..MaxToken
    /\ rival \in [Requests -> 0..MaxFence]
    /\ orphans \subseteq 1..MaxFence

\* Conflicts are met a limited number of times.
WithinRetries(r) ==
    /\ pc[r] \in {"touch", "swap", "touchReload"} => tries[r] < MaxTouch
    /\ pc[r] \in {"purge", "purgeReload"} => tries[r] < MaxPurge

TypeOK == Typed /\ \A r \in Requests : WithinRetries(r)

Earlier(s, t) == IF s <= t THEN s ELSE t

\* completeCallback has stored the tokens of the first grant.
LoggedIn(refresh, lifetime) ==
    [version |-> 1, expiresAt |-> AbsoluteTTL, idleExpiresAt |-> IdleTTL,
     payload |-> [access |-> 1, refresh |-> refresh, accessExpiry |-> lifetime, lastSeen |-> 0]]

Init ==
    /\ now = 0
    /\ \E refresh \in {0, 1}, lifetime \in Lifetimes :
        /\ sessions = [id \in {Sid} |-> LoggedIn(refresh, lifetime)]
        /\ accepted = {refresh} \ {0}
    /\ leases = [id \in {Sid} |-> NoLease]
    /\ nextFence = 0
    /\ pc = [r \in Requests |-> "start"]
    /\ item = [r \in Requests |-> NoSession]
    /\ next = [r \in Requests |-> NoSession]
    /\ lease = [r \in Requests |-> NoLease]
    /\ deadline = [r \in Requests |-> 0]
    /\ tries = [r \in Requests |-> 0]
    /\ outcome = [r \in Requests |-> "none"]
    /\ minted = 1
    /\ stray = {}
    /\ committed = {1}
    /\ rival = [r \in Requests |-> 0]
    /\ orphans = {}

-----------------------------------------------------------------------------
\* Moving a request along.

GoTo(r, step) ==
    /\ pc' = [pc EXCEPT ![r] = step]
    /\ UNCHANGED outcome

\* Slip: an error returned past the deferred release.
FailUnreleased(r, result) ==
    /\ outcome' = [outcome EXCEPT ![r] = result]
    /\ pc' = [pc EXCEPT ![r] = "done"]

\* Returning an error: whoever holds a lease runs the deferred release first.
Fail(r, result) ==
    /\ outcome' = [outcome EXCEPT ![r] = result]
    /\ pc' = [pc EXCEPT ![r] = IF lease[r] = NoLease THEN "done" ELSE "release"]

Answer(r, result) ==
    /\ outcome' = [outcome EXCEPT ![r] = result]
    /\ pc' = [pc EXCEPT ![r] = "done"]

Read(r)  == item' = [item EXCEPT ![r] = sessions[Sid]]
Wrote(r) == item' = [item EXCEPT ![r] = next[r]]

\* A read that finds the session gone, by sessionBackendError unauthenticated.
Missing == Get(Sid, "NotFound") \/ Get(Sid, "Expired")

\* Slip: the last version is not looked for.
AlwaysHasSuccessor(s) == s.version >= 1

\* Session.Version may not wrap around.
HasSuccessor(s) == s.version # MaxVersion

RefreshRequired(s) == s.payload.accessExpiry - now <= RefreshBefore

WinnerChanged(before, after) ==
    /\ after.version # before.version
    /\ \/ after.payload.access # before.payload.access
       \/ after.payload.refresh # before.payload.refresh

-----------------------------------------------------------------------------
\* ResolveSession up to the refresh.

Load(r) ==
    /\ r \in Resolvers /\ pc[r] = "start" /\ now <= LastArrival
    /\ \/ Get(Sid, "ok") /\ Read(r) /\ GoTo(r, "loaded")
       \/ Missing /\ Fail(r, "unauthenticated") /\ UNCHANGED item
    /\ UNCHANGED <<now, next, lease, deadline, tries, iam, history>>

Decide(r) ==
    /\ pc[r] = "loaded"
    /\ \/ SessionExpired(item[r]) /\ Fail(r, "unauthenticated")
       \/ ~SessionExpired(item[r]) /\ RefreshRequired(item[r]) /\ GoTo(r, "acquire")
       \/ ~SessionExpired(item[r]) /\ ~RefreshRequired(item[r]) /\ GoTo(r, "touch")
    /\ UNCHANGED <<now, store, item, next, lease, deadline, tries, iam, history>>

-----------------------------------------------------------------------------
\* refreshSession.

Acquire(r) ==
    /\ pc[r] = "acquire"
    /\ \/ /\ GrantLease(Sid, LeaseTTL)
          /\ lease' = [lease EXCEPT ![r] = NewHandle(Sid, LeaseTTL)]
          /\ GoTo(r, "held")
          /\ UNCHANGED <<deadline, rival>>
       \/ /\ RefuseLease(Sid, "Conflict")
          /\ deadline' = [deadline EXCEPT ![r] = now + LeaseTTL]
          /\ rival' = [rival EXCEPT ![r] = leases[Sid].fence]
          /\ GoTo(r, "wait")
          /\ UNCHANGED lease
       \/ /\ RefuseLease(Sid, "NotFound") \/ RefuseLease(Sid, "Expired")
          /\ Fail(r, "unauthenticated")
          /\ UNCHANGED <<lease, deadline, rival>>
       \/ /\ RefuseLease(Sid, "FenceExhausted")
          /\ Fail(r, "unavailable")
          /\ UNCHANGED <<lease, deadline, rival>>
    /\ UNCHANGED <<now, item, next, tries, iam, committed, orphans>>

\* watchSession: a touch, a release or an expiry between WATCH and EXEC is a
\* conflict too, and the request waits although nobody refreshes.
AcquireCollides(r) ==
    /\ Remote
    /\ pc[r] = "acquire"
    /\ Get(Sid, "ok") /\ ~LeaseLive(Sid)
    /\ deadline' = [deadline EXCEPT ![r] = now + LeaseTTL]
    /\ rival' = [rival EXCEPT ![r] = 0]
    /\ GoTo(r, "wait")
    /\ UNCHANGED <<now, item, next, lease, tries, iam, committed, orphans>>

Recheck(r) ==
    /\ pc[r] = "held"
    /\ \/ Get(Sid, "ok") /\ Read(r) /\ GoTo(r, "rechecked")
       \/ Missing /\ Fail(r, "unauthenticated") /\ UNCHANGED item
    /\ UNCHANGED <<now, next, lease, deadline, tries, iam, history>>

DecideExchange(r) ==
    /\ pc[r] = "rechecked"
    /\ \/ ~RefreshRequired(item[r]) /\ GoTo(r, "release")
       \/ /\ RefreshRequired(item[r])
          /\ item[r].payload.refresh = 0
          /\ Fail(r, "unauthenticated")
       \/ /\ RefreshRequired(item[r])
          /\ item[r].payload.refresh # 0
          /\ GoTo(r, "exchange")
    /\ UNCHANGED <<now, store, item, next, lease, deadline, tries, iam, history>>

\* IAM makes a new grant, with a new refresh token or without one, and its
\* answer arrives.  The replacement keeps everything but the tokens.
Renewed(s, token, refresh, lifetime) ==
    [s EXCEPT !.payload.access = token,
              !.payload.refresh = refresh,
              !.payload.accessExpiry = now + lifetime]

IamGrants(r) ==
    /\ pc[r] = "exchange"
    /\ item[r].payload.refresh \in accepted
    /\ minted < MaxToken
    /\ minted' = minted + 1
    /\ \E lifetime \in Lifetimes :
        \/ /\ accepted' = (accepted \ {item[r].payload.refresh}) \cup {minted'}
           /\ next' = [next EXCEPT ![r] = Renewed(item[r], minted', minted', lifetime)]
        \/ /\ UNCHANGED accepted
           /\ next' = [next EXCEPT ![r] =
                        Renewed(item[r], minted', item[r].payload.refresh, lifetime)]
    /\ GoTo(r, "verify")
    /\ UNCHANGED <<now, store, item, lease, deadline, tries, stray, history>>

IamRefuses(r) ==
    /\ pc[r] = "exchange"
    /\ item[r].payload.refresh \notin accepted
    /\ outcome' = [outcome EXCEPT ![r] = "invalidGrant"]
    /\ pc' = [pc EXCEPT ![r] = "purge"]
    /\ tries' = [tries EXCEPT ![r] = 0]
    /\ UNCHANGED <<now, store, item, next, lease, deadline, iam, history>>

\* The exchange fails, times out or is canceled; nobody knows whether IAM has
\* seen it, or will.
ExchangeFails(r) ==
    /\ pc[r] = "exchange"
    /\ stray' = stray \cup {item[r].payload.refresh}
    /\ Fail(r, "unavailable")
    /\ UNCHANGED <<now, store, item, next, lease, deadline, tries, minted, accepted, history>>

\* rebuildRefreshedSession: the new tokens are verified, with more calls to IAM.
Verify(r) ==
    /\ pc[r] = "verify"
    /\ \/ /\ next[r].payload.accessExpiry > now
          /\ HasSuccessor(item[r])
          /\ next' = [next EXCEPT ![r].version = item[r].version + 1]
          /\ GoTo(r, "commit")
       \/ Fail(r, "unavailable") /\ UNCHANGED next
    /\ UNCHANGED <<now, store, item, lease, deadline, tries, iam, history>>

\* On Redis the transaction that writes takes the lease along.
WriteUnderLease(r) ==
    /\ ValidReplacement(item[r].version, next[r])
    /\ Live(Sid) /\ OwnsLease(lease[r], Sid)
    /\ sessions[Sid].version = item[r].version
    /\ ~SessionExpired(next[r])
    /\ sessions' = [sessions EXCEPT ![Sid] = next[r]]
    /\ leases' = [leases EXCEPT ![Sid] = NoLease]
    /\ UNCHANGED nextFence

CommitCall(r, res) ==
    \/ /\ Remote => res # "ok"
       /\ CompareAndSwapWithLease(lease[r], Sid, item[r].version, next[r], res)
    \/ Remote /\ res = "ok" /\ WriteUnderLease(r)
    \/ Remote /\ res = "Conflict" /\ UNCHANGED store

Commit(r) ==
    /\ pc[r] = "commit"
    /\ \E res \in {"ok", "Conflict", "LeaseLost", "NotFound", "Expired"} :
        /\ CommitCall(r, res)
        /\ \/ /\ res = "ok"
              /\ Wrote(r)
              /\ committed' = committed \cup {next[r].payload.access}
              /\ GoTo(r, "release")
           \/ /\ res \in {"Conflict", "LeaseLost"}
              /\ GoTo(r, "reload")
              /\ UNCHANGED <<item, committed>>
           \/ /\ res \in {"NotFound", "Expired"}
              /\ Fail(r, "unauthenticated")
              /\ UNCHANGED <<item, committed>>
    /\ UNCHANGED <<now, next, lease, deadline, tries, iam, rival, orphans>>

\* Slip: the request keeps what IAM gave it although the commit was refused.
ReloadNothing(r) ==
    /\ pc[r] = "reload"
    /\ Wrote(r)
    /\ GoTo(r, "release")
    /\ UNCHANGED <<now, store, next, lease, deadline, tries, iam, history>>

\* A refused commit is forgiven if another request has renewed the tokens.
Reload(r) ==
    /\ pc[r] = "reload"
    /\ \/ /\ Get(Sid, "ok")
          /\ WinnerChanged(item[r], sessions[Sid])
          /\ Read(r)
          /\ GoTo(r, "release")
       \/ /\ Get(Sid, "ok")
          /\ ~WinnerChanged(item[r], sessions[Sid])
          /\ Fail(r, "unavailable")
          /\ UNCHANGED item
       \/ Missing /\ Fail(r, "unauthenticated") /\ UNCHANGED item
    /\ UNCHANGED <<now, next, lease, deadline, tries, iam, history>>

\* The deferred release, whose context the request's cancellation spares.  On
\* Redis it is a transaction too, which a touch may make fail; the error is
\* dropped, and the lease stays until it expires.
ReleaseLease(r) ==
    /\ pc[r] = "release"
    /\ \/ /\ \E res \in {"ok", "LeaseLost"} : Release(lease[r], res)
          /\ UNCHANGED orphans
       \/ /\ Remote
          /\ OwnsLease(lease[r], Sid)
          /\ orphans' = orphans \cup {lease[r].fence}
          /\ UNCHANGED store
    /\ lease' = [lease EXCEPT ![r] = NoLease]
    /\ GoTo(r, IF outcome[r] = "none" THEN "refreshed" ELSE "done")
    /\ UNCHANGED <<now, item, next, deadline, tries, iam, committed, rival>>

-----------------------------------------------------------------------------
\* deleteInvalidGrantSession, detached from the request's context as well.

\* Slip: the session is deleted whatever has become of it.
PurgeUnfenced(r) ==
    /\ pc[r] = "purge"
    /\ Delete(Sid, "ok")
    /\ GoTo(r, "release")
    /\ UNCHANGED <<now, item, next, lease, deadline, tries, iam, history>>

\* "Failed" stands for the errors of a remote backend; a lost answer to a
\* deletion leads the same way as the answer.
PurgeCall(r, res) ==
    \/ DeleteWithLease(lease[r], Sid, item[r].version, res)
    \/ Remote /\ res \in {"Conflict", "Failed"} /\ UNCHANGED store

Purge(r) ==
    /\ pc[r] = "purge"
    /\ \E res \in {"ok", "LeaseLost", "NotFound", "Expired", "Conflict", "Failed"} :
        /\ PurgeCall(r, res)
        /\ GoTo(r, IF res = "Conflict" THEN "purgeReload" ELSE "release")
    /\ UNCHANGED <<now, item, next, lease, deadline, tries, iam, history>>

\* Only the token that IAM refused is purged.
PurgeReload(r) ==
    /\ pc[r] = "purgeReload"
    /\ \/ /\ Missing \/ (Remote /\ UNCHANGED store)
          /\ GoTo(r, "release")
          /\ UNCHANGED <<item, tries>>
       \/ /\ Get(Sid, "ok")
          /\ Read(r)
          /\ tries' = [tries EXCEPT ![r] = tries[r] + 1]
          /\ GoTo(r, IF /\ sessions[Sid].payload.refresh = item[r].payload.refresh
                        /\ tries[r] + 1 < MaxPurge
                     THEN "purge" ELSE "release")
    /\ UNCHANGED <<now, next, lease, deadline, iam, history>>

-----------------------------------------------------------------------------
\* waitForRefreshWinnerUntil: it polls, and once more when the timer fires.

\* A wait that is over leaves its deadline and its winner behind.
WaitEnds(r) ==
    /\ deadline' = [deadline EXCEPT ![r] = 0]
    /\ rival' = [rival EXCEPT ![r] = 0]

WaitPoll(r) ==
    /\ pc[r] = "wait"
    /\ \/ /\ Get(Sid, "ok")
          /\ WinnerChanged(item[r], sessions[Sid]) \/ ~RefreshRequired(sessions[Sid])
          /\ Read(r)
          /\ GoTo(r, "refreshed")
       \/ Missing /\ Fail(r, "unauthenticated") /\ UNCHANGED item
    /\ WaitEnds(r)
    /\ UNCHANGED <<now, next, lease, tries, iam, committed, orphans>>

\* Slip: no last look at the session when the timer fires.
GiveUpBlind(r) ==
    /\ pc[r] = "wait"
    /\ now >= deadline[r]
    /\ Fail(r, "unavailable")
    /\ WaitEnds(r)
    /\ UNCHANGED <<now, store, item, next, lease, tries, iam, committed, orphans>>

\* Slip: the timer is never armed.
GiveUpNever(r) == FALSE /\ GiveUpBlind(r)

GiveUp(r) ==
    /\ pc[r] = "wait"
    /\ now >= deadline[r]
    /\ Get(Sid, "ok")
    /\ ~WinnerChanged(item[r], sessions[Sid])
    /\ RefreshRequired(sessions[Sid])
    /\ Fail(r, "unavailable")
    /\ WaitEnds(r)
    /\ UNCHANGED <<now, item, next, lease, tries, iam, committed, orphans>>

-----------------------------------------------------------------------------
\* ResolveSession after the refresh, and touchSession.

AcceptRefreshed(r) ==
    /\ pc[r] = "refreshed"
    /\ IF SessionExpired(item[r]) \/ item[r].payload.accessExpiry <= now
       THEN Fail(r, "unauthenticated")
       ELSE GoTo(r, "touch")
    /\ tries' = [tries EXCEPT ![r] = 0]
    /\ UNCHANGED <<now, store, item, next, lease, deadline, iam, history>>

\* Slip: use extends the session beyond its absolute lifetime.
TouchedUncapped(s) ==
    [s EXCEPT !.version = s.version + 1,
              !.payload.lastSeen = now,
              !.idleExpiresAt = now + IdleTTL]

Touched(s) ==
    [s EXCEPT !.version = s.version + 1,
              !.payload.lastSeen = now,
              !.idleExpiresAt = Earlier(now + IdleTTL, s.expiresAt)]

Touch(r) ==
    /\ pc[r] = "touch"
    /\ \/ /\ SessionExpired(item[r])
          /\ Fail(r, "unauthenticated")
          /\ UNCHANGED next
       \/ /\ ~SessionExpired(item[r])
          /\ now <= item[r].payload.lastSeen
          /\ Answer(r, "ok")
          /\ UNCHANGED next
       \/ /\ ~SessionExpired(item[r])
          /\ now > item[r].payload.lastSeen
          /\ ~HasSuccessor(item[r])
          /\ Fail(r, "unavailable")
          /\ UNCHANGED next
       \/ /\ ~SessionExpired(item[r])
          /\ now > item[r].payload.lastSeen
          /\ HasSuccessor(item[r])
          /\ next' = [next EXCEPT ![r] = Touched(item[r])]
          /\ GoTo(r, "swap")
    /\ UNCHANGED <<now, store, item, lease, deadline, tries, iam, history>>

SwapCall(r, res) ==
    \/ CompareAndSwap(Sid, item[r].version, next[r], res)
    \/ Remote /\ res = "Conflict" /\ UNCHANGED store

Swap(r) ==
    /\ pc[r] = "swap"
    /\ \E res \in {"ok", "Conflict", "NotFound", "Expired"} :
        /\ SwapCall(r, res)
        /\ \/ res = "ok" /\ Wrote(r) /\ Answer(r, "ok")
           \/ res = "Conflict" /\ GoTo(r, "touchReload") /\ UNCHANGED item
           \/ res \in {"NotFound", "Expired"} /\ Fail(r, "unauthenticated") /\ UNCHANGED item
    /\ UNCHANGED <<now, next, lease, deadline, tries, iam, history>>

TouchReload(r) ==
    /\ pc[r] = "touchReload"
    /\ \/ Missing /\ Fail(r, "unauthenticated") /\ UNCHANGED <<item, tries>>
       \/ /\ Get(Sid, "ok")
          /\ Read(r)
          /\ tries' = [tries EXCEPT ![r] = tries[r] + 1]
          /\ IF tries[r] + 1 < MaxTouch THEN GoTo(r, "touch") ELSE Fail(r, "unavailable")
    /\ UNCHANGED <<now, next, lease, deadline, iam, history>>

-----------------------------------------------------------------------------
\* The logouts.

LocalLogout(l) ==
    /\ l \in LocalLogouts /\ pc[l] = "start" /\ now <= LastArrival
    /\ Delete(Sid, "ok")
    /\ Answer(l, "ok") \/ (Remote /\ Answer(l, "interrupted"))
    /\ UNCHANGED <<now, item, next, lease, deadline, tries, iam, history>>

\* The central logout needs the tokens, the global one makes do without. Which
\* tokens they are is not kept: IAM accepts or refuses them all the same.
LogoutRead(l) ==
    /\ l \in CentralLogouts \cup GlobalLogouts /\ pc[l] = "start" /\ now <= LastArrival
    /\ \/ Get(Sid, "ok") /\ GoTo(l, "delete")
       \/ l \in CentralLogouts /\ Missing /\ Answer(l, "ok")
       \/ l \in GlobalLogouts /\ Missing /\ GoTo(l, "delete")
    /\ UNCHANGED <<now, item, next, lease, deadline, tries, iam, history>>

LogoutDelete(l) ==
    /\ pc[l] = "delete"
    /\ Delete(Sid, "ok")
    /\ IF l \in CentralLogouts THEN GoTo(l, "endSession") ELSE Answer(l, "ok")
    /\ UNCHANGED <<now, item, next, lease, deadline, tries, iam, history>>

\* endSession, with the tokens read before the deletion; IAM may fail it.
EndSession(l) ==
    /\ pc[l] = "endSession"
    /\ \/ accepted' = {} /\ Answer(l, "ok")
       \/ UNCHANGED accepted /\ Answer(l, "unavailable")
    /\ UNCHANGED <<now, store, item, next, lease, deadline, tries, minted, stray, history>>

-----------------------------------------------------------------------------
\* The environment.

\* Where a request looks at its context or waits for the backend.  In "exchange"
\* this is one of the ways to fail; the purge and the release have their own.
Interruptible == {"acquire", "wait", "held", "verify", "commit", "reload", "touch", "swap",
                  "touchReload", "delete", "endSession"}

\* What a remote backend has done for a request that never gets its answer.
\* Nobody then holds the lease that it has granted.
DoneUnanswered(r) ==
    \/ /\ pc[r] = "acquire"
       /\ GrantLease(Sid, LeaseTTL)
       /\ orphans' = orphans \cup {nextFence + 1}
       /\ UNCHANGED committed
    \/ /\ pc[r] = "commit"
       /\ WriteUnderLease(r)
       /\ committed' = committed \cup {next[r].payload.access}
       /\ UNCHANGED orphans
    \/ /\ pc[r] = "swap"
       /\ CompareAndSwap(Sid, item[r].version, next[r], "ok")
       /\ UNCHANGED <<committed, orphans>>
    \/ /\ pc[r] = "delete"
       /\ Delete(Sid, "ok")
       /\ UNCHANGED <<committed, orphans>>

\* The request is canceled, or its backend call fails.
Interrupt(r) ==
    /\ pc[r] \in Interruptible
    /\ Fail(r, "interrupted")
    /\ \/ UNCHANGED <<store, committed, orphans>>
       \/ Remote /\ DoneUnanswered(r)
    /\ WaitEnds(r)
    /\ UNCHANGED <<now, item, next, lease, tries, iam>>

\* A call given up by its request gets to IAM after all, and uses up a token
\* that is good for one use.
StrayArrives(token) ==
    /\ token \in stray
    /\ stray' = stray \ {token}
    /\ accepted' = accepted \ {token}
    /\ UNCHANGED <<now, store, request, minted, history>>

\* The user is signed out at IAM, by an administrator or in another tab.
IamRevokes ==
    /\ accepted # {}
    /\ accepted' = {}
    /\ UNCHANGED <<now, store, request, minted, stray, history>>

Waiting(r) == pc[r] = "wait" /\ now < deadline[r]

\* The clock is of interest while requests arrive, and for whoever waits.
ClockTick ==
    /\ now < LastArrival \/ \E r \in Resolvers : Waiting(r)
    /\ Tick
    /\ UNCHANGED <<request, iam, history>>

-----------------------------------------------------------------------------
Exchange(r) == IamGrants(r) \/ IamRefuses(r) \/ ExchangeFails(r)

\* What a request does once it has arrived.
Proceed(r) ==
    \/ Decide(r) \/ Acquire(r) \/ AcquireCollides(r) \/ Recheck(r)
    \/ DecideExchange(r) \/ Exchange(r)
    \/ Verify(r) \/ Commit(r) \/ Reload(r) \/ ReleaseLease(r)
    \/ Purge(r) \/ PurgeReload(r) \/ WaitPoll(r) \/ GiveUp(r)
    \/ AcceptRefreshed(r) \/ Touch(r) \/ Swap(r) \/ TouchReload(r)
    \/ LogoutDelete(r) \/ EndSession(r)

Next ==
    \/ \E r \in Requests : Proceed(r) \/ Interrupt(r)
    \/ \E r \in Resolvers : Load(r)
    \/ \E l \in Logouts : LocalLogout(l) \/ LogoutRead(l)
    \/ \E token \in stray : StrayArrives(token)
    \/ IamRevokes
    \/ ClockTick

Spec == Init /\ [][Next]_vars

(* Goroutines are scheduled, calls are bounded by their timeouts and the     *)
(* clock runs; nobody has to arrive, be interrupted or be answered well.    *)
Fairness ==
    /\ \A r \in Requests : WF_vars(Proceed(r))
    /\ WF_vars(ClockTick)

FairSpec == Spec /\ Fairness

-----------------------------------------------------------------------------
Stored == sessions[Sid]
Kept   == Present(Sid) /\ Present(Sid)'

(***************************************************************************)
(* A logged-out, purged or expired session never comes back, whatever      *)
(* touches and commits were under way when it went.                        *)
(***************************************************************************)
NoResurrection == [][~Present(Sid) => ~Present(Sid)']_vars

(***************************************************************************)
(* Once any logout has answered that it is done, the session is gone and   *)
(* stays gone.                                                             *)
(***************************************************************************)
LogoutIsFinal ==
    \A l \in Logouts : pc[l] = "done" /\ outcome[l] = "ok" => ~Present(Sid)

(***************************************************************************)
(* The stored tokens move forward only: no touch or late commit puts back  *)
(* tokens that a renewal has replaced, not even from a session it read     *)
(* before the renewal.                                                     *)
(***************************************************************************)
TokensNeverGoBack ==
    [][Kept => /\ Stored.payload.access <= Stored'.payload.access
               /\ Stored.payload.refresh <= Stored'.payload.refresh]_vars

(***************************************************************************)
(* Use slides the idle deadline forward and never back, within the         *)
(* absolute lifetime, which neither use nor renewal extends.               *)
(***************************************************************************)
IdleSlidesWithinLifetime ==
    [][Kept => /\ Stored.idleExpiresAt <= Stored'.idleExpiresAt
               /\ Stored.payload.lastSeen <= Stored'.payload.lastSeen
               /\ Stored'.expiresAt = Stored.expiresAt
               /\ Stored'.idleExpiresAt <= Stored'.expiresAt]_vars

(***************************************************************************)
(* The purge after an invalid_grant hits only a session that is done for:  *)
(* never one whose refresh token IAM would still accept, because another   *)
(* request has renewed it in the meantime.                                 *)
(***************************************************************************)
PurgeSparesTheLiving ==
    [][\A r \in Resolvers :
        pc[r] = "purge" /\ pc'[r] # "purge" /\ Live(Sid) /\ ~Present(Sid)' =>
            Stored.payload.refresh \notin accepted]_vars

(***************************************************************************)
(* A request answers with the credential of a session that was stored with *)
(* those very tokens: none it has exchanged and then failed to commit.     *)
(***************************************************************************)
AnswersAreCommitted ==
    \A r \in Resolvers :
        pc[r] = "done" /\ outcome[r] = "ok" => item[r].payload.access \in committed

(***************************************************************************)
(* A lease in force belongs to a request still at work under it, so no     *)
(* error path leaves one behind for others to wait on.  The one exception  *)
(* is a remote backend that has granted it without being heard, or that    *)
(* has failed the release: both are counted in orphans, and nobody works   *)
(* under those.                                                            *)
(***************************************************************************)
UnderLease == {"held", "rechecked", "exchange", "verify", "commit", "reload",
               "purge", "purgeReload", "release"}

Holds(r) == lease[r] # NoLease /\ OwnsLease(lease[r], Sid)

NoLeaseLeaked ==
    LeaseLive(Sid) =>
        IF Remote /\ leases[Sid].fence \in orphans
        THEN \A r \in Resolvers : ~Holds(r)
        ELSE \E r \in Resolvers : pc[r] \in UnderLease /\ Holds(r)

(***************************************************************************)
(* A request gives up its wait only after the lease it had to wait for is  *)
(* gone, whether released or expired, and nothing came of it: the holder   *)
(* renewed no tokens that the request could have answered with.            *)
(***************************************************************************)
WaitOutlastsLease ==
    [][\A r \in Resolvers :
        pc[r] = "wait" /\ outcome'[r] = "unavailable" =>
            /\ LeaseLive(Sid) => leases[Sid].fence # rival[r]
            /\ Present(Sid)
            /\ Stored.payload.access = item[r].payload.access]_vars

(***************************************************************************)
(* Every request that has arrived is answered: no retry loop, no wait for  *)
(* a lease and no lost winner can hold it up for ever.                     *)
(***************************************************************************)
EveryRequestIsAnswered ==
    \A r \in Requests : pc[r] # "start" ~> pc[r] = "done"

(***************************************************************************)
(* "Atomic refresh rotation with fenced session leases": what the holder   *)
(* of a valid lease got from IAM is not turned down at the commit while    *)
(* the session is there.                                                   *)
(***************************************************************************)
LeaseProtectsCommit ==
    [][\A r \in Resolvers :
        pc[r] = "commit" /\ pc'[r] = "reload" => ~OwnsLease(lease[r], Sid)]_vars
=============================================================================
