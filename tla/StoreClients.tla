---------------------------- MODULE StoreClients ----------------------------
(***************************************************************************)
(* The memory backend under its most general clients: any number of calls, *)
(* with any version a caller may once have read, any lease handle ever     *)
(* returned, and deadlines that may have passed by the time of the call.   *)
(* Two acquisitions may overlap between their critical sections.           *)
(***************************************************************************)
EXTENDS MemoryStore

CONSTANTS
    Callers,      \* goroutines that may be inside AcquireRefreshLease
    Idle,         \* a caller that is in no acquisition
    LeaseTTL,     \* the duration callers ask for
    Deadlines     \* ExpiresAt and IdleExpiresAt of the sessions they write

VARIABLES
    pending,      \* caller -> the session whose lease it is acquiring, or Idle
    handles,      \* history: every lease handle returned to a caller
    writer        \* history: id -> fence under which the session was written, 0 for none

vars == <<now, storeVars, pending, handles, writer>>

ASSUME ClientAssumption ==
    /\ LeaseTTL \in Nat \ {0}
    /\ Deadlines \subseteq Nat
    /\ Idle \notin Ids
    /\ NoSession \notin [version: 1..MaxVersion, payload: Payloads]

TypeOK ==
    /\ StoreTypeOK
    /\ pending \in [Callers -> Ids \cup {Idle}]
    /\ handles \subseteq Handle
    /\ writer \in [Ids -> 0..MaxFence]

Init ==
    /\ StoreInit
    /\ pending = [c \in Callers |-> Idle]
    /\ handles = {}
    /\ writer = [id \in Ids |-> 0]

\* The sessions a caller may pass in as version v; every caller in the code
\* keeps the idle deadline within the absolute one.
Items(v) ==
    {item \in [version: {v}, expiresAt: Deadlines, idleExpiresAt: Deadlines,
               payload: Payloads] : item.idleExpiresAt <= item.expiresAt}

\* writer follows a successful write under fence f.
Written(id, f, res) ==
    writer' = IF res = "ok" THEN [writer EXCEPT ![id] = f] ELSE writer

clientVars == <<now, pending, handles>>

Results == {"ok", "NotFound", "Expired", "Conflict", "LeaseLost",
            "FenceExhausted", "InvalidInput"}

CallCreate(id) ==
    \E item \in Items(1), res \in Results :
        /\ Create(id, item, res)
        /\ Written(id, 0, res)
        /\ UNCHANGED clientVars

CallGet(id) ==
    /\ \E res \in Results : Get(id, res)
    /\ UNCHANGED <<clientVars, writer>>

CallCompareAndSwap(id) ==
    \E v \in 1..MaxVersion, res \in Results : \E next \in Items(v + 1) :
        /\ CompareAndSwap(id, v, next, res)
        /\ Written(id, 0, res)
        /\ UNCHANGED clientVars

\* A handle may be presented for a session it was not granted for.
CallCompareAndSwapWithLease(id) ==
    \E h \in handles, v \in 1..MaxVersion, res \in Results : \E next \in Items(v + 1) :
        /\ CompareAndSwapWithLease(h, id, v, next, res)
        /\ Written(id, h.fence, res)
        /\ UNCHANGED clientVars

CallDelete(id) ==
    /\ \E res \in Results : Delete(id, res)
    /\ UNCHANGED <<clientVars, writer>>

CallDeleteWithLease(id) ==
    /\ \E h \in handles, v \in 1..MaxVersion, res \in Results :
            DeleteWithLease(h, id, v, res)
    /\ UNCHANGED <<clientVars, writer>>

CallRelease ==
    /\ \E h \in handles, res \in Results : Release(h, res)
    /\ UNCHANGED <<clientVars, writer>>

\* The first critical section of AcquireRefreshLease only looks.
AcquireBegin(c, id) ==
    /\ pending[c] = Idle
    /\ \/ /\ \E res \in Results : RefuseLease(id, res)
          /\ UNCHANGED pending
       \/ /\ MayLease(id)
          /\ pending' = [pending EXCEPT ![c] = id]
          /\ UNCHANGED storeVars
    /\ UNCHANGED <<now, handles, writer>>

\* The second one looks again, and grants.
AcquireEnd(c) ==
    /\ pending[c] # Idle
    /\ pending' = [pending EXCEPT ![c] = Idle]
    /\ \/ /\ \E res \in Results : RefuseLease(pending[c], res)
          /\ UNCHANGED handles
       \/ /\ GrantLease(pending[c], LeaseTTL)
          /\ handles' = handles \cup {NewHandle(pending[c], LeaseTTL)}
    /\ UNCHANGED <<now, writer>>

\* No entropy, or the context was canceled while the mutex was free.
AcquireAbandon(c) ==
    /\ pending[c] # Idle
    /\ pending' = [pending EXCEPT ![c] = Idle]
    /\ UNCHANGED <<now, storeVars, handles, writer>>

ClockTick == Tick /\ UNCHANGED <<pending, handles, writer>>

Next ==
    \/ \E id \in Ids :
        \/ CallCreate(id)
        \/ CallGet(id)
        \/ CallCompareAndSwap(id)
        \/ CallCompareAndSwapWithLease(id)
        \/ CallDelete(id)
        \/ CallDeleteWithLease(id)
    \/ CallRelease
    \/ \E c \in Callers : AcquireEnd(c) \/ AcquireAbandon(c)
    \/ \E c \in Callers, id \in Ids : AcquireBegin(c, id)
    \/ ClockTick

Spec == Init /\ [][Next]_vars

-----------------------------------------------------------------------------
(***************************************************************************)
(* A lease never outlives the session it was granted on: whatever removes  *)
(* or replaces a session (a logout, an expiry met by any method, a new     *)
(* session under the same identifier) takes the lease record with it.      *)
(***************************************************************************)
LeaseGuardsSession == \A id \in Ids : leases[id] # NoLease => Present(id)

(***************************************************************************)
(* The lease record in the store is always one that some caller was given, *)
(* under a fence no later grant has reused.                                *)
(***************************************************************************)
HandlesMatch ==
    /\ \A h \in handles : h.fence <= nextFence
    /\ \A h, g \in handles : h.fence = g.fence => h = g
    /\ \A id \in Ids : leases[id] # NoLease =>
            [id |-> id, fence |-> leases[id].fence, expiresAt |-> leases[id].expiresAt]
                \in handles

(***************************************************************************)
(* Fencing: a handle that has once stopped being valid (released, expired, *)
(* superseded, its session gone) never becomes valid again, not even when  *)
(* its session's identifier is used for a new session.                     *)
(***************************************************************************)
LostForGood ==
    \A h \in handles : ~OwnsLease(h, h.id) => ~OwnsLease(h, h.id)'

HandlesLostForGood == [][LostForGood]_vars

(***************************************************************************)
(* The backend keeps the promises of session.Backend: with expired entries *)
(* hidden, every step is a step of the contract or changes nothing.  This  *)
(* holds although expired sessions and leases stay in the maps until some  *)
(* method meets them, and although an acquisition drops the mutex half way.*)
(***************************************************************************)
View == [id \in Ids |->
            IF Live(id)
            THEN [version |-> sessions[id].version, payload |-> sessions[id].payload]
            ELSE NoSession]

Holder == [id \in Ids |-> IF Live(id) /\ LeaseLive(id) THEN leases[id].fence ELSE 0]

\* Nobody is served a session past its deadline here: this set is empty.
Due == {id \in Ids : Live(id) /\ SessionExpired(sessions[id])}

Contract == INSTANCE SessionContract
    WITH Handles <- 1..MaxFence, Nobody <- 0, Absent <- NoSession,
         view <- View, holder <- Holder, due <- Due, granted <- 1..nextFence

ImplementsContract == Contract!Spec
=============================================================================
