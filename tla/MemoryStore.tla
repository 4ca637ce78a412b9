----------------------------- MODULE MemoryStore -----------------------------
(***************************************************************************)
(* The in-process session backend of runtime/bff/session/memory: sessions  *)
(* under optimistic versions and the fenced refresh leases that guard a    *)
(* token rotation.  Every exported method runs under the one mutex of      *)
(* Backend and reads the clock inside it, so each method is one atomic     *)
(* operator here; AcquireRefreshLease alone gives the mutex up half way    *)
(* and has one operator per critical section.                              *)
(*                                                                         *)
(* A method m(args) of the code is an operator M(args, res): the action    *)
(* that the call performs when it returns res.  The operators leave the    *)
(* clock alone; modules that use the store say who calls what and when.    *)
(*                                                                         *)
(* A fence stands for the pair (fence, owner) of the code: the owner is 32 *)
(* random bytes drawn anew for each lease and is compared wherever the     *)
(* fence is.  A canceled context makes a method return before it touches   *)
(* any state; that is a step that changes nothing here.                    *)
(***************************************************************************)
EXTENDS Integers

CONSTANTS
    Ids,          \* session identifiers
    Payloads,     \* what a session carries and the store never looks at
    MaxVersion,   \* stands for ^uint64(0), the last value of Session.Version
    MaxFence,     \* stands for ^uint64(0), the last value of nextFence
    Horizon,      \* the clock stops here
    NoSession,    \* no entry in the sessions map
    NoLease       \* no entry in the leases map

VARIABLES
    now,          \* core.Clock, read inside the mutex
    sessions,     \* id -> stored session, or NoSession
    leases,       \* id -> lease record, or NoLease
    nextFence     \* the last fencing number issued by this backend

storeVars == <<sessions, leases, nextFence>>

Session == [version: 1..MaxVersion, expiresAt: Nat, idleExpiresAt: Nat,
            payload: Payloads]
Lease   == [fence: 1..MaxFence, expiresAt: Nat]

\* What a caller of AcquireRefreshLease holds: the refreshLease struct.
Handle  == [id: Ids, fence: 1..MaxFence, expiresAt: Nat]

ASSUME StoreAssumption ==
    /\ MaxVersion \in Nat \ {0}
    /\ MaxFence \in Nat \ {0}
    /\ Horizon \in Nat
    /\ NoSession \notin Session
    /\ NoLease \notin Lease

StoreTypeOK ==
    /\ now \in 0..Horizon
    /\ sessions \in [Ids -> Session \cup {NoSession}]
    /\ leases \in [Ids -> Lease \cup {NoLease}]
    /\ nextFence \in 0..MaxFence

StoreInit ==
    /\ now = 0
    /\ sessions = [id \in Ids |-> NoSession]
    /\ leases = [id \in Ids |-> NoLease]
    /\ nextFence = 0

-----------------------------------------------------------------------------
\* Reading the maps.

\* An expiry is reached at equality.
SessionExpired(item) == item.expiresAt <= now \/ item.idleExpiresAt <= now

Present(id) == sessions[id] # NoSession
Live(id)    == Present(id) /\ ~SessionExpired(sessions[id])
Stale(id)   == Present(id) /\ SessionExpired(sessions[id])

LeaseLive(id) == leases[id] # NoLease /\ leases[id].expiresAt > now

\* Slip: the lease is recognised by its deadline only.
OwnsLeaseUnfenced(h, id) ==
    /\ h.id = id
    /\ leases[id] # NoLease
    /\ leases[id].expiresAt = h.expiresAt
    /\ leases[id].expiresAt > now

OwnsLease(h, id) ==
    /\ h.id = id
    /\ leases[id] # NoLease
    /\ leases[id].fence = h.fence
    /\ leases[id].expiresAt = h.expiresAt
    /\ leases[id].expiresAt > now

\* Slip: the lease stays behind.
DeleteSessionOnly(id) ==
    /\ sessions' = [sessions EXCEPT ![id] = NoSession]
    /\ UNCHANGED <<leases, nextFence>>

\* Removing a session takes its lease along.
DeleteSession(id) ==
    /\ sessions' = [sessions EXCEPT ![id] = NoSession]
    /\ leases' = [leases EXCEPT ![id] = NoLease]
    /\ UNCHANGED nextFence

StoreSession(id, item) ==
    /\ sessions' = [sessions EXCEPT ![id] = item]
    /\ UNCHANGED <<leases, nextFence>>

-----------------------------------------------------------------------------
\* The methods.

\* A new session replaces an expired one, lease included, and no live one.
Create(id, item, res) ==
    \/ /\ SessionExpired(item)
       /\ res = "Expired"
       /\ UNCHANGED storeVars
    \/ /\ ~SessionExpired(item)
       /\ Live(id)
       /\ res = "Conflict"
       /\ UNCHANGED storeVars
    \/ /\ ~SessionExpired(item)
       /\ ~Live(id)
       /\ res = "ok"
       /\ sessions' = [sessions EXCEPT ![id] = item]
       /\ leases' = IF Present(id) THEN [leases EXCEPT ![id] = NoLease] ELSE leases
       /\ UNCHANGED nextFence

\* An expired session is removed by the first method that meets it.
Get(id, res) ==
    \/ /\ ~Present(id)
       /\ res = "NotFound"
       /\ UNCHANGED storeVars
    \/ /\ Stale(id)
       /\ res = "Expired"
       /\ DeleteSession(id)
    \/ /\ Live(id)
       /\ res = "ok"
       /\ UNCHANGED storeVars

\* validateReplacement: the caller's version must leave room for a successor.
ValidReplacement(expected, next) ==
    /\ expected # MaxVersion
    /\ next.version = expected + 1

\* Slip: the last writer wins, even over a session that is gone.
SwapBlind(id, expected, next, res) ==
    /\ res = "ok"
    /\ StoreSession(id, next)

\* Slip: the last writer wins over a session that is there.
SwapUnversioned(id, expected, next, res) ==
    \/ /\ ~Live(id)
       /\ res = "NotFound"
       /\ UNCHANGED storeVars
    \/ /\ Live(id)
       /\ res = "ok"
       /\ StoreSession(id, next)

SwapLocked(id, expected, next, res) ==
    \/ /\ ~Present(id)
       /\ res = "NotFound"
       /\ UNCHANGED storeVars
    \/ /\ Stale(id)
       /\ res = "Expired"
       /\ DeleteSession(id)
    \/ /\ Live(id)
       /\ sessions[id].version # expected
       /\ res = "Conflict"
       /\ UNCHANGED storeVars
    \/ /\ Live(id)
       /\ sessions[id].version = expected
       /\ SessionExpired(next)
       /\ res = "Expired"
       /\ UNCHANGED storeVars
    \/ /\ Live(id)
       /\ sessions[id].version = expected
       /\ ~SessionExpired(next)
       /\ res = "ok"
       /\ StoreSession(id, next)

CompareAndSwap(id, expected, next, res) ==
    \/ /\ ~ValidReplacement(expected, next)
       /\ res = "InvalidInput"
       /\ UNCHANGED storeVars
    \/ /\ ValidReplacement(expected, next)
       /\ SwapLocked(id, expected, next, res)

\* The lease is looked at before the session, and survives the swap.
CompareAndSwapWithLease(h, id, expected, next, res) ==
    \/ /\ ~ValidReplacement(expected, next)
       /\ res = "InvalidInput"
       /\ UNCHANGED storeVars
    \/ /\ ValidReplacement(expected, next)
       /\ ~OwnsLease(h, id)
       /\ res = "LeaseLost"
       /\ UNCHANGED storeVars
    \/ /\ ValidReplacement(expected, next)
       /\ OwnsLease(h, id)
       /\ SwapLocked(id, expected, next, res)

\* Deleting what is not there succeeds.
Delete(id, res) ==
    /\ res = "ok"
    /\ DeleteSession(id)

DeleteWithLease(h, id, expected, res) ==
    \/ /\ ~OwnsLease(h, id)
       /\ res = "LeaseLost"
       /\ UNCHANGED storeVars
    \/ /\ OwnsLease(h, id)
       /\ ~Present(id)
       /\ res = "NotFound"
       /\ UNCHANGED storeVars
    \/ /\ OwnsLease(h, id)
       /\ Stale(id)
       /\ res = "Expired"
       /\ DeleteSession(id)
    \/ /\ OwnsLease(h, id)
       /\ Live(id)
       /\ sessions[id].version # expected
       /\ res = "Conflict"
       /\ UNCHANGED storeVars
    \/ /\ OwnsLease(h, id)
       /\ Live(id)
       /\ sessions[id].version = expected
       /\ res = "ok"
       /\ DeleteSession(id)

\* prepareRefreshLeaseAcquisitionLocked, which both critical sections of an
\* acquisition run: the refusals, with what each does to the store.
RefuseLease(id, res) ==
    \/ /\ ~Present(id)
       /\ res = "NotFound"
       /\ UNCHANGED storeVars
    \/ /\ Stale(id)
       /\ res = "Expired"
       /\ DeleteSession(id)
    \/ /\ Live(id)
       /\ LeaseLive(id)
       /\ res = "Conflict"
       /\ UNCHANGED storeVars
    \/ /\ Live(id)
       /\ ~LeaseLive(id)
       /\ nextFence = MaxFence
       /\ res = "FenceExhausted"
       /\ UNCHANGED storeVars

\* Slips: a lease in force, or the last fence, is not looked for.
MayLeaseAgain(id)   == Live(id) /\ nextFence # MaxFence
MayLeaseForever(id) == Live(id) /\ ~LeaseLive(id)

MayLease(id) == Live(id) /\ ~LeaseLive(id) /\ nextFence # MaxFence

\* The handle that the second critical section returns.
NewHandle(id, duration) ==
    [id |-> id, fence |-> nextFence + 1, expiresAt |-> now + duration]

\* Slip: the fence is not advanced.
GrantLeaseSameFence(id, duration) ==
    /\ MayLease(id)
    /\ leases' = [leases EXCEPT ![id] = [fence |-> nextFence + 1,
                                         expiresAt |-> now + duration]]
    /\ UNCHANGED <<sessions, nextFence>>

GrantLease(id, duration) ==
    /\ MayLease(id)
    /\ nextFence' = nextFence + 1
    /\ leases' = [leases EXCEPT ![id] = [fence |-> nextFence + 1,
                                         expiresAt |-> now + duration]]
    /\ UNCHANGED sessions

Release(h, res) ==
    \/ /\ ~OwnsLease(h, h.id)
       /\ res = "LeaseLost"
       /\ UNCHANGED storeVars
    \/ /\ OwnsLease(h, h.id)
       /\ res = "ok"
       /\ leases' = [leases EXCEPT ![h.id] = NoLease]
       /\ UNCHANGED <<sessions, nextFence>>

Tick ==
    /\ now < Horizon
    /\ now' = now + 1
    /\ UNCHANGED storeVars
=============================================================================
