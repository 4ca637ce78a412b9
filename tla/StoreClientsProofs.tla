-------------------------- MODULE StoreClientsProofs --------------------------
(***************************************************************************)
(* Proofs about the memory backend under its most general clients, for any *)
(* number of sessions, callers, versions and fences: type correctness, the *)
(* invariants LeaseGuardsSession and HandlesMatch, the action property     *)
(* HandlesLostForGood, and the refinement of SessionContract.              *)
(*                                                                         *)
(* Inv is inductive as it stands.  Every step but a grant is Tame: it      *)
(* leaves the fences alone and at most takes lease records away, which is  *)
(* all that the parts of Inv about handles need to know of it.             *)
(***************************************************************************)
EXTENDS StoreClients, TLAPS

Inv == TypeOK /\ LeaseGuardsSession /\ HandlesMatch

\* What a step that grants nothing does to the store.
Tame ==
    /\ sessions' \in [Ids -> Session \cup {NoSession}]
    /\ nextFence' = nextFence
    /\ leases' \in [Ids -> Lease \cup {NoLease}]
    /\ \A id \in Ids : leases'[id] \in {leases[id], NoLease}
    /\ \A id \in Ids : leases'[id] # NoLease => sessions'[id] # NoSession

-----------------------------------------------------------------------------
\* The ways a method leaves the store.

\* A method that refuses changes nothing.
LEMMA NothingIsTame ==
    ASSUME Inv, UNCHANGED storeVars
    PROVE  Tame
BY DEF Inv, TypeOK, StoreTypeOK, LeaseGuardsSession, Present, Tame, storeVars

\* Removing a session, lease included (deleteSessionLocked).
LEMMA DeleteSessionIsTame ==
    ASSUME Inv, NEW id \in Ids, DeleteSession(id)
    PROVE  Tame
BY DEF Inv, TypeOK, StoreTypeOK, LeaseGuardsSession, Present, Tame, DeleteSession

\* Storing over a session that is there.
LEMMA StoreSessionIsTame ==
    ASSUME Inv, NEW id \in Ids, NEW item \in Session, StoreSession(id, item)
    PROVE  Tame
BY StoreAssumption
   DEF Inv, TypeOK, StoreTypeOK, LeaseGuardsSession, Present, Tame, StoreSession

\* An acquisition that is refused.
LEMMA RefuseLeaseIsTame ==
    ASSUME Inv, NEW id \in Ids, NEW res, RefuseLease(id, res)
    PROVE  Tame
BY NothingIsTame, DeleteSessionIsTame DEF RefuseLease

\* compareAndSwapLocked, with or without the lease checked before.
LEMMA SwapLockedIsTame ==
    ASSUME Inv, NEW id \in Ids, NEW v, NEW item \in Session, NEW res,
           SwapLocked(id, v, item, res)
    PROVE  Tame
BY NothingIsTame, DeleteSessionIsTame, StoreSessionIsTame DEF SwapLocked

\* The replacement for a version that has a successor is a session.
LEMMA ReplacementType ==
    ASSUME NEW v \in 1..MaxVersion, NEW item \in Items(v + 1), ValidReplacement(v, item)
    PROVE  item \in Session
<1>1. item \in [version: {v + 1}, expiresAt: Deadlines, idleExpiresAt: Deadlines,
                payload: Payloads]
  BY DEF Items
<1>2. v + 1 \in 1..MaxVersion
  BY StoreAssumption DEF ValidReplacement
<1>3. Deadlines \subseteq Nat
  BY ClientAssumption
<1> QED
  BY <1>1, <1>2, <1>3 DEF Session

\* So is every session a caller creates.
LEMMA SessionItems ==
    ASSUME NEW item \in Items(1)
    PROVE  item \in Session
<1>1. item \in [version: {1}, expiresAt: Deadlines, idleExpiresAt: Deadlines,
                payload: Payloads]
  BY DEF Items
<1>2. 1 \in 1..MaxVersion
  BY StoreAssumption
<1>3. Deadlines \subseteq Nat
  BY ClientAssumption
<1> QED
  BY <1>1, <1>2, <1>3 DEF Session

\* A tame step keeps the handles matched, provided it leaves them alone.
LEMMA TameKeepsHandles ==
    ASSUME Inv, Tame, handles' = handles
    PROVE  LeaseGuardsSession' /\ HandlesMatch'
BY DEF Inv, Tame, LeaseGuardsSession, Present, HandlesMatch

-----------------------------------------------------------------------------
\* Every step keeps Inv.


LEMMA TypeStep ==
    ASSUME Inv, Tame,
           UNCHANGED <<now, pending, handles>>,
           writer' \in [Ids -> 0..MaxFence]
    PROVE  Inv'
<1>1. TypeOK'
  BY DEF Inv, TypeOK, StoreTypeOK, Tame
<1> QED
  BY <1>1, TameKeepsHandles DEF Inv

LEMMA CreateStep ==
    ASSUME Inv, NEW id \in Ids, CallCreate(id)
    PROVE  Inv' /\ Tame
<1>1. PICK item \in Items(1), res \in Results :
        Create(id, item, res) /\ Written(id, 0, res) /\ UNCHANGED clientVars
  BY DEF CallCreate
<1>2. item \in Session
  BY SessionItems
<1>3. Tame
  BY <1>1, <1>2, NothingIsTame, StoreAssumption
     DEF Create, Inv, TypeOK, StoreTypeOK, LeaseGuardsSession, Present, Live, Tame
<1>4. writer' \in [Ids -> 0..MaxFence]
  BY <1>1, StoreAssumption DEF Written, Inv, TypeOK
<1> QED
  BY <1>1, <1>3, <1>4, TypeStep DEF clientVars

LEMMA GetStep ==
    ASSUME Inv, NEW id \in Ids, CallGet(id)
    PROVE  Inv' /\ Tame
<1>1. Tame
  BY NothingIsTame, DeleteSessionIsTame DEF CallGet, Get
<1> QED
  BY <1>1, TypeStep DEF CallGet, Inv, TypeOK, clientVars

LEMMA CompareAndSwapStep ==
    ASSUME Inv, NEW id \in Ids, CallCompareAndSwap(id)
    PROVE  Inv' /\ Tame
<1>0. PICK v \in 1..MaxVersion, res \in Results :
        \E item \in Items(v + 1) :
            CompareAndSwap(id, v, item, res) /\ Written(id, 0, res) /\ UNCHANGED clientVars
  BY DEF CallCompareAndSwap
<1>1. PICK item \in Items(v + 1) :
        CompareAndSwap(id, v, item, res) /\ Written(id, 0, res) /\ UNCHANGED clientVars
  BY <1>0
<1>2. Tame
  BY <1>1, NothingIsTame, SwapLockedIsTame, ReplacementType DEF CompareAndSwap
<1>3. writer' \in [Ids -> 0..MaxFence]
  BY <1>1, StoreAssumption DEF Written, Inv, TypeOK
<1> QED
  BY <1>1, <1>2, <1>3, TypeStep DEF clientVars

LEMMA CompareAndSwapWithLeaseStep ==
    ASSUME Inv, NEW id \in Ids, CallCompareAndSwapWithLease(id)
    PROVE  Inv' /\ Tame
<1>0. PICK h \in handles, v \in 1..MaxVersion, res \in Results :
        \E item \in Items(v + 1) :
            /\ CompareAndSwapWithLease(h, id, v, item, res)
            /\ Written(id, h.fence, res)
            /\ UNCHANGED clientVars
  BY DEF CallCompareAndSwapWithLease
<1>1. PICK item \in Items(v + 1) :
        /\ CompareAndSwapWithLease(h, id, v, item, res)
        /\ Written(id, h.fence, res)
        /\ UNCHANGED clientVars
  BY <1>0
<1>2. Tame
  BY <1>1, NothingIsTame, SwapLockedIsTame, ReplacementType DEF CompareAndSwapWithLease
<1>3. h.fence \in 0..MaxFence
  BY StoreAssumption DEF Inv, TypeOK, Handle
<1>4. writer' \in [Ids -> 0..MaxFence]
  BY <1>1, <1>3 DEF Written, Inv, TypeOK
<1> QED
  BY <1>1, <1>2, <1>4, TypeStep DEF clientVars

LEMMA DeleteStep ==
    ASSUME Inv, NEW id \in Ids, CallDelete(id)
    PROVE  Inv' /\ Tame
<1>1. Tame
  BY DeleteSessionIsTame DEF CallDelete, Delete
<1> QED
  BY <1>1, TypeStep DEF CallDelete, Inv, TypeOK, clientVars

LEMMA DeleteWithLeaseStep ==
    ASSUME Inv, NEW id \in Ids, CallDeleteWithLease(id)
    PROVE  Inv' /\ Tame
<1>1. Tame
  BY NothingIsTame, DeleteSessionIsTame DEF CallDeleteWithLease, DeleteWithLease
<1> QED
  BY <1>1, TypeStep DEF CallDeleteWithLease, Inv, TypeOK, clientVars

LEMMA ReleaseStep ==
    ASSUME Inv, CallRelease
    PROVE  Inv' /\ Tame
<1>1. PICK h \in handles, res \in Results : Release(h, res)
  BY DEF CallRelease
<1>2. h.id \in Ids
  BY DEF Inv, TypeOK, Handle
<1>3. Tame
  BY <1>1, <1>2, NothingIsTame
     DEF Release, Inv, TypeOK, StoreTypeOK, LeaseGuardsSession, Present, Tame
<1> QED
  BY <1>3, TypeStep DEF CallRelease, Inv, TypeOK, clientVars

\* Steps that touch neither the handles nor the writers' history keep Inv when
\* they are tame and leave pending and the clock in their types.
LEMMA TameTypeStep ==
    ASSUME Inv, Tame, UNCHANGED <<handles, writer>>,
           pending' \in [Callers -> Ids \cup {Idle}], now' \in 0..Horizon
    PROVE  Inv'
<1>1. TypeOK'
  BY DEF Inv, TypeOK, StoreTypeOK, Tame
<1> QED
  BY <1>1, TameKeepsHandles DEF Inv

LEMMA AcquireBeginStep ==
    ASSUME Inv, NEW c \in Callers, NEW id \in Ids, AcquireBegin(c, id)
    PROVE  Inv' /\ Tame
<1>1. Tame
  BY NothingIsTame, RefuseLeaseIsTame DEF AcquireBegin
<1>2. pending' \in [Callers -> Ids \cup {Idle}]
  BY DEF AcquireBegin, Inv, TypeOK
<1>3. now' \in 0..Horizon
  BY DEF AcquireBegin, Inv, TypeOK, StoreTypeOK
<1> QED
  BY <1>1, <1>2, <1>3, TameTypeStep DEF AcquireBegin

LEMMA AbandonStep ==
    ASSUME Inv, NEW c \in Callers, AcquireAbandon(c)
    PROVE  Inv' /\ Tame
<1>1. Tame
  BY NothingIsTame DEF AcquireAbandon
<1>2. pending' \in [Callers -> Ids \cup {Idle}]
  BY DEF AcquireAbandon, Inv, TypeOK
<1>3. now' \in 0..Horizon
  BY DEF AcquireAbandon, Inv, TypeOK, StoreTypeOK
<1> QED
  BY <1>1, <1>2, <1>3, TameTypeStep DEF AcquireAbandon

LEMMA TickStep ==
    ASSUME Inv, ClockTick
    PROVE  Inv' /\ Tame
<1>1. Tame
  BY NothingIsTame DEF ClockTick, Tick
<1>2. now' \in 0..Horizon
  BY StoreAssumption DEF ClockTick, Tick, Inv, TypeOK, StoreTypeOK
<1> QED
  BY <1>1, <1>2, TameTypeStep DEF ClockTick, Inv, TypeOK

\* The one step that is not tame: the second critical section grants.
Granted(c) ==
    /\ pending[c] \in Ids
    /\ GrantLease(pending[c], LeaseTTL)
    /\ handles' = handles \cup {NewHandle(pending[c], LeaseTTL)}
    /\ UNCHANGED <<now, writer>>

LEMMA GrantStep ==
    ASSUME Inv, NEW c \in Callers, Granted(c),
           pending' = [pending EXCEPT ![c] = Idle]
    PROVE  Inv'
<1> DEFINE id == pending[c]
           h  == NewHandle(id, LeaseTTL)
<1>1. id \in Ids /\ Present(id) /\ nextFence # MaxFence
  BY DEF Granted, GrantLease, MayLease, Live
<1>2. nextFence + 1 \in 1..MaxFence /\ now + LeaseTTL \in Nat
  BY <1>1, StoreAssumption, ClientAssumption DEF Inv, TypeOK, StoreTypeOK
<1>3. h \in Handle
  BY <1>1, <1>2 DEF Handle, NewHandle
<1>4. leases' = [leases EXCEPT ![id] = [fence |-> nextFence + 1,
                                         expiresAt |-> now + LeaseTTL]]
  BY DEF Granted, GrantLease
<1>5. nextFence' = nextFence + 1 /\ sessions' = sessions
  BY DEF Granted, GrantLease
<1>6. TypeOK'
  <2>1. leases' \in [Ids -> Lease \cup {NoLease}]
    BY <1>2, <1>4 DEF Inv, TypeOK, StoreTypeOK, Lease
  <2>2. nextFence' \in 0..MaxFence
    BY <1>2, <1>5, StoreAssumption
  <2>3. handles' \subseteq Handle
    BY <1>3 DEF Inv, TypeOK, Granted
  <2>4. pending' \in [Callers -> Ids \cup {Idle}]
    BY DEF Inv, TypeOK
  <2> QED
    BY <2>1, <2>2, <2>3, <2>4, <1>5 DEF Inv, TypeOK, StoreTypeOK, Granted
<1>7. LeaseGuardsSession'
  BY <1>1, <1>4, <1>5 DEF Inv, TypeOK, StoreTypeOK, LeaseGuardsSession, Present
<1>8. HandlesMatch'
  <2>1. \A g \in handles : g.fence \in Nat /\ g.fence <= nextFence
    BY StoreAssumption DEF Inv, TypeOK, HandlesMatch, Handle
  <2>2. handles' = handles \cup {h} /\ h.fence = nextFence + 1
    BY DEF Granted, NewHandle
  <2>3. nextFence \in Nat
    BY StoreAssumption DEF Inv, TypeOK, StoreTypeOK
  <2>4. \A g \in handles' : g.fence <= nextFence'
    BY <2>1, <2>2, <2>3, <1>5
  <2>5. \A g1, g2 \in handles' : g1.fence = g2.fence => g1 = g2
    BY <2>1, <2>2, <2>3 DEF Inv, HandlesMatch
  <2>6. ASSUME NEW i \in Ids, leases'[i] # NoLease
        PROVE  [id |-> i, fence |-> leases'[i].fence, expiresAt |-> leases'[i].expiresAt]
                    \in handles'
    <3>1. CASE i = id
      BY <3>1, <1>4, <1>1, <2>2 DEF NewHandle, Inv, TypeOK, StoreTypeOK
    <3>2. CASE i # id
      BY <3>2, <2>6, <1>4, <2>2 DEF Inv, TypeOK, StoreTypeOK, HandlesMatch
    <3> QED
      BY <3>1, <3>2
  <2> QED
    BY <2>4, <2>5, <2>6 DEF HandlesMatch
<1> QED
  BY <1>6, <1>7, <1>8 DEF Inv

LEMMA AcquireEndCases ==
    ASSUME Inv, NEW c \in Callers, AcquireEnd(c)
    PROVE  \/ Inv' /\ Tame
           \/ Inv' /\ Granted(c)
<1>1. pending[c] \in Ids
  BY DEF AcquireEnd, Inv, TypeOK
<1>2. pending' \in [Callers -> Ids \cup {Idle}]
  BY DEF AcquireEnd, Inv, TypeOK
<1>3. now' \in 0..Horizon
  BY DEF AcquireEnd, Inv, TypeOK, StoreTypeOK
<1>4. CASE \E res \in Results : RefuseLease(pending[c], res) /\ UNCHANGED handles
  <2>1. Tame
    BY <1>1, <1>4, RefuseLeaseIsTame
  <2> QED
    BY <2>1, <1>2, <1>3, <1>4, TameTypeStep DEF AcquireEnd
<1>5. CASE /\ GrantLease(pending[c], LeaseTTL)
           /\ handles' = handles \cup {NewHandle(pending[c], LeaseTTL)}
  <2>1. Granted(c)
    BY <1>1, <1>5 DEF AcquireEnd, Granted
  <2> QED
    BY <2>1, GrantStep DEF AcquireEnd
<1> QED
  BY <1>4, <1>5 DEF AcquireEnd

-----------------------------------------------------------------------------
\* The theorems.

LEMMA InitInv == Init => Inv
<1> SUFFICES ASSUME Init PROVE Inv
  OBVIOUS
<1>1. TypeOK
  BY StoreAssumption, ClientAssumption DEF Init, StoreInit, TypeOK, StoreTypeOK
<1>2. LeaseGuardsSession /\ HandlesMatch
  BY DEF Init, StoreInit, LeaseGuardsSession, HandlesMatch
<1> QED
  BY <1>1, <1>2 DEF Inv

\* One step of Next is tame or a grant, and keeps Inv.
LEMMA NextCases ==
    ASSUME Inv, Next
    PROVE  Inv' /\ (Tame \/ \E c \in Callers : Granted(c))
<1>1. CASE \E id \in Ids : CallCreate(id) \/ CallGet(id) \/ CallCompareAndSwap(id)
  BY <1>1, CreateStep, GetStep, CompareAndSwapStep
<1>2. CASE \E id \in Ids : CallCompareAndSwapWithLease(id) \/ CallDelete(id) \/ CallDeleteWithLease(id)
  BY <1>2, CompareAndSwapWithLeaseStep, DeleteStep, DeleteWithLeaseStep
<1>3. CASE CallRelease
  BY <1>3, ReleaseStep
<1>4. CASE \E c \in Callers : AcquireEnd(c)
  BY <1>4, AcquireEndCases
<1>5. CASE \E c \in Callers : AcquireAbandon(c)
  BY <1>5, AbandonStep
<1>6. CASE \E c \in Callers, id \in Ids : AcquireBegin(c, id)
  BY <1>6, AcquireBeginStep
<1>7. CASE ClockTick
  BY <1>7, TickStep
<1> QED
  BY <1>1, <1>2, <1>3, <1>4, <1>5, <1>6, <1>7 DEF Next

LEMMA StutterInv == Inv /\ UNCHANGED vars => Inv'
BY DEF vars, storeVars, Inv, TypeOK, StoreTypeOK, LeaseGuardsSession, Present, HandlesMatch

LEMMA Invariance == Spec => []Inv
<1>1. Inv /\ [Next]_vars => Inv'
  BY NextCases, StutterInv
<1> QED
  BY InitInv, <1>1, PTL DEF Spec

(***************************************************************************)
(* Type correctness: no interleaving of calls stores a malformed session,  *)
(* a version past the last one or a fence past the last one.               *)
(***************************************************************************)
THEOREM TypeCorrect == Spec => []TypeOK
<1>1. Inv => TypeOK
  BY DEF Inv
<1> QED
  BY <1>1, Invariance, PTL

(***************************************************************************)
(* A lease never outlives its session, for any number of sessions.         *)
(***************************************************************************)
THEOREM LeasesGuardSessions == Spec => []LeaseGuardsSession
<1>1. Inv => LeaseGuardsSession
  BY DEF Inv
<1> QED
  BY <1>1, Invariance, PTL

(***************************************************************************)
(* The lease in the store is always one that a caller was given, and no    *)
(* two callers were given the same fence.                                  *)
(***************************************************************************)
THEOREM HandlesAreUnique == Spec => []HandlesMatch
<1>1. Inv => HandlesMatch
  BY DEF Inv
<1> QED
  BY <1>1, Invariance, PTL

\* The clock never runs backwards, and steps that keep it tame only extend
\* the set of handles.
LEMMA ClockForward ==
    ASSUME Inv, Next
    PROVE  now \in Nat /\ now' \in Nat /\ now <= now'
<1>1. now \in Nat
  BY StoreAssumption DEF Inv, TypeOK, StoreTypeOK
<1>2. CASE ClockTick
  BY <1>1, <1>2 DEF ClockTick, Tick
<1>3. CASE UNCHANGED now
  BY <1>1, <1>3
<1> QED
  BY <1>2, <1>3
     DEF Next, CallCreate, CallGet, CallCompareAndSwap, CallCompareAndSwapWithLease,
         CallDelete, CallDeleteWithLease, CallRelease, AcquireBegin, AcquireEnd, AcquireAbandon,
         clientVars

LEMMA LostForGoodStep ==
    ASSUME Inv, Next
    PROVE  LostForGood
<1> SUFFICES ASSUME NEW h \in handles, OwnsLease(h, h.id)'
             PROVE  OwnsLease(h, h.id)
  BY DEF LostForGood
<1>1. h.id \in Ids /\ h.fence \in Nat /\ h.fence <= nextFence /\ nextFence \in Nat
  BY StoreAssumption DEF Inv, TypeOK, StoreTypeOK, Handle, HandlesMatch
<1>2. now \in Nat /\ now' \in Nat /\ now <= now'
  BY ClockForward
<1>3. /\ leases'[h.id] # NoLease
      /\ leases'[h.id].fence = h.fence
      /\ leases'[h.id].expiresAt = h.expiresAt
      /\ leases'[h.id].expiresAt > now'
  BY DEF OwnsLease
<1>4. leases'[h.id] = leases[h.id]
  <2>1. CASE Tame
    BY <2>1, <1>1, <1>3 DEF Tame
  <2>2. CASE \E c \in Callers : Granted(c)
    BY <2>2, <1>1, <1>3 DEF Granted, GrantLease, Inv, TypeOK, StoreTypeOK
  <2> QED
    BY <2>1, <2>2, NextCases
<1>5. h.expiresAt \in Nat
  BY DEF Inv, TypeOK, Handle
<1>6. leases[h.id].expiresAt > now
  BY <1>2, <1>3, <1>4, <1>5
<1> QED
  BY <1>3, <1>4, <1>6 DEF OwnsLease

(***************************************************************************)
(* Fencing: a handle that is no longer valid never becomes valid again,    *)
(* over any number of sessions, grants, logouts and re-created sessions.   *)
(***************************************************************************)
THEOREM Fencing == Spec => HandlesLostForGood
<1>1. Inv /\ [Next]_vars => [LostForGood]_vars
  BY LostForGoodStep
<1> QED
  BY <1>1, Invariance, PTL DEF Spec, HandlesLostForGood

-----------------------------------------------------------------------------
(***************************************************************************)
(* The contract of session.Backend.  The map is View and Holder of         *)
(* StoreClients: expired entries are hidden.  A lemma for each way of      *)
(* leaving the store says what it does to the mapped variables and which   *)
(* step of the contract that is; a lemma for each call puts these          *)
(* together.                                                               *)
(***************************************************************************)

\* A step of the contract, or one that changes nothing in it.
AbsStep == Contract!Next \/ UNCHANGED Contract!contractVars

\* The memory backend serves no session past its deadline.
LEMMA NoneDue == Due = {} /\ Due' = {}
BY DEF Due, Live

LEMMA NothingIsStutter ==
    ASSUME UNCHANGED <<now, storeVars, writer>>
    PROVE  AbsStep
<1>1. View' = View
  BY DEF View, Live, Present, SessionExpired, storeVars
<1>2. Holder' = Holder
  BY DEF Holder, Live, LeaseLive, Present, SessionExpired, storeVars
<1> QED
  BY <1>1, <1>2, NoneDue DEF AbsStep, Contract!contractVars, storeVars

LEMMA DeleteSessionCloses ==
    ASSUME Inv, NEW id \in Ids, DeleteSession(id), UNCHANGED <<now, writer>>
    PROVE  AbsStep
<1>1. View' = [View EXCEPT ![id] = NoSession]
  BY DEF View, Live, Present, SessionExpired, DeleteSession, Inv, TypeOK, StoreTypeOK
<1>2. Holder' = [Holder EXCEPT ![id] = 0]
  BY DEF Holder, Live, LeaseLive, Present, SessionExpired, DeleteSession,
         Inv, TypeOK, StoreTypeOK
<1>3. Contract!Close(id)
  BY <1>1, <1>2, NoneDue DEF Contract!Close, DeleteSession
<1> QED
  BY <1>3 DEF AbsStep, Contract!Next

\* The holder of the lease in force, where the session is visible.
LEMMA OwnerIsHolder ==
    ASSUME Inv, NEW id \in Ids, NEW h, OwnsLease(h, id), Live(id)
    PROVE  Holder[id] = h.fence /\ h.fence # 0
BY StoreAssumption DEF Holder, OwnsLease, LeaseLive, Inv, TypeOK, StoreTypeOK, Lease

\* A swap in place is the next version of what was visible.
LEMMA SwapShows ==
    ASSUME Inv, NEW id \in Ids, NEW item \in Session,
           Live(id), ~SessionExpired(item), item.version = sessions[id].version + 1,
           StoreSession(id, item), UNCHANGED now
    PROVE  /\ item.payload \in Payloads
           /\ View[id] # NoSession
           /\ View' = [View EXCEPT ![id] = [version |-> View[id].version + 1,
                                            payload |-> item.payload]]
           /\ Holder' = Holder
           /\ nextFence' = nextFence
<1>1. View[id] = [version |-> sessions[id].version, payload |-> sessions[id].payload]
  BY DEF View
<1>2. item.payload \in Payloads /\ item # NoSession
  BY StoreAssumption DEF Session
<1>3. sessions' = [sessions EXCEPT ![id] = item] /\ UNCHANGED <<leases, nextFence>>
  BY DEF StoreSession
<1>4. sessions \in [Ids -> Session \cup {NoSession}]
  BY DEF Inv, TypeOK, StoreTypeOK
<1>5. Live(id)'
  BY <1>2, <1>3, <1>4 DEF Live, Present, SessionExpired
<1>6. \A i \in Ids \ {id} : sessions'[i] = sessions[i] /\ (Live(i)' <=> Live(i))
  BY <1>3, <1>4 DEF Live, Present, SessionExpired
<1>7. View' = [View EXCEPT ![id] = [version |-> View[id].version + 1,
                                    payload |-> item.payload]]
  BY <1>1, <1>3, <1>4, <1>5, <1>6 DEF View
<1>8. Holder' = Holder
  BY <1>3, <1>5, <1>6 DEF Holder, LeaseLive
<1>9. View[id] # NoSession
  <2>1. sessions[id].version \in 1..MaxVersion /\ sessions[id].payload \in Payloads
    BY <1>4 DEF Live, Present, Session
  <2> QED
    BY <1>1, <2>1, ClientAssumption
<1> QED
  BY <1>2, <1>3, <1>7, <1>8, <1>9

-----------------------------------------------------------------------------
\* The calls.

LEMMA SwapLockedSteps ==
    ASSUME Inv, NEW id \in Ids, NEW v \in 1..MaxVersion, NEW item \in Session, NEW res,
           NEW f, UNCHANGED now, Written(id, f, res),
           ValidReplacement(v, item), SwapLocked(id, v, item, res),
           f = 0 \/ (Live(id) => f = Holder[id] /\ f # 0)
    PROVE  AbsStep
<1>1. CASE res = "ok"
  <2>1. /\ Live(id)
        /\ sessions[id].version = v
        /\ ~SessionExpired(item)
        /\ StoreSession(id, item)
    BY <1>1 DEF SwapLocked
  <2>2. item.version = sessions[id].version + 1
    BY <2>1 DEF ValidReplacement
  <2>3. /\ item.payload \in Payloads
        /\ View[id] # NoSession
        /\ View' = [View EXCEPT ![id] = [version |-> View[id].version + 1,
                                         payload |-> item.payload]]
        /\ Holder' = Holder
        /\ nextFence' = nextFence
    BY <2>1, <2>2, SwapShows
  <2>4. writer' = [writer EXCEPT ![id] = f]
    BY <1>1 DEF Written
  <2>5. CASE f = 0
    <3>1. Contract!Replace(id, item.payload)
      BY <2>3, <2>4, <2>5, NoneDue DEF Contract!Replace, Contract!Renewed, Contract!Successor
    <3> QED
      BY <2>3, <3>1 DEF AbsStep, Contract!Next
  <2>6. CASE f = Holder[id] /\ f # 0
    <3>1. Contract!FencedReplace(id, item.payload)
      BY <2>3, <2>4, <2>6, NoneDue DEF Contract!FencedReplace, Contract!Renewed, Contract!Successor
    <3> QED
      BY <2>3, <3>1 DEF AbsStep, Contract!Next
  <2> QED
    BY <2>1, <2>5, <2>6
<1>2. CASE res # "ok"
  BY <1>2, NothingIsStutter, DeleteSessionCloses DEF SwapLocked, Written
<1> QED
  BY <1>1, <1>2

LEMMA CreateAbs ==
    ASSUME Inv, NEW id \in Ids, CallCreate(id)
    PROVE  AbsStep
<1>1. PICK item \in Items(1), res \in Results :
        Create(id, item, res) /\ Written(id, 0, res) /\ UNCHANGED clientVars
  BY DEF CallCreate
<1>2. item.version = 1 /\ item.payload \in Payloads
  BY DEF Items
<1>3. CASE res = "ok"
  <2>1. /\ ~Live(id) /\ ~SessionExpired(item)
        /\ sessions' = [sessions EXCEPT ![id] = item]
        /\ leases' = IF Present(id) THEN [leases EXCEPT ![id] = NoLease] ELSE leases
        /\ UNCHANGED <<now, nextFence>>
    BY <1>1, <1>3 DEF Create, clientVars
  <2>2. /\ sessions \in [Ids -> Session \cup {NoSession}]
        /\ leases \in [Ids -> Lease \cup {NoLease}]
    BY DEF Inv, TypeOK, StoreTypeOK
  <2>3. leases'[id] = NoLease
    BY <2>1, <2>2 DEF Inv, LeaseGuardsSession, Present
  <2>4. \A i \in Ids \ {id} : sessions'[i] = sessions[i] /\ leases'[i] = leases[i]
    BY <2>1, <2>2
  <2>5. \A i \in Ids \ {id} : (Live(i)' <=> Live(i)) /\ (LeaseLive(i)' <=> LeaseLive(i))
    BY <2>1, <2>4 DEF Live, Present, SessionExpired, LeaseLive
  <2>6. item \in Session
    BY <1>1, SessionItems
  <2>7. Live(id)'
    BY <2>1, <2>2, <2>6, StoreAssumption DEF Live, Present, SessionExpired
  <2>8. View' = [View EXCEPT ![id] = [version |-> 1, payload |-> item.payload]]
    BY <1>2, <2>1, <2>2, <2>4, <2>5, <2>7 DEF View
  <2>9. Holder' = Holder
    <3>1. ~LeaseLive(id)'
      BY <2>3 DEF LeaseLive
    <3> QED
      BY <2>1, <2>4, <2>5, <3>1 DEF Holder
  <2>10. View[id] = NoSession
    BY <2>1 DEF View
  <2>11. writer' = [writer EXCEPT ![id] = 0]
    BY <1>1, <1>3 DEF Written
  <2>12. Contract!Open(id, item.payload)
    BY <2>1, <2>8, <2>9, <2>10, <2>11, NoneDue DEF Contract!Open, Contract!Renewed
  <2> QED
    BY <1>2, <2>12 DEF AbsStep, Contract!Next
<1>4. CASE res # "ok"
  BY <1>1, <1>4, NothingIsStutter DEF Create, Written, clientVars
<1> QED
  BY <1>3, <1>4

LEMMA GetAbs ==
    ASSUME Inv, NEW id \in Ids, CallGet(id)
    PROVE  AbsStep
BY NothingIsStutter, DeleteSessionCloses DEF CallGet, Get, clientVars

LEMMA CompareAndSwapAbs ==
    ASSUME Inv, NEW id \in Ids, CallCompareAndSwap(id)
    PROVE  AbsStep
<1>0. PICK v \in 1..MaxVersion, res \in Results :
        \E item \in Items(v + 1) :
            CompareAndSwap(id, v, item, res) /\ Written(id, 0, res) /\ UNCHANGED clientVars
  BY DEF CallCompareAndSwap
<1>1. PICK item \in Items(v + 1) :
        CompareAndSwap(id, v, item, res) /\ Written(id, 0, res) /\ UNCHANGED clientVars
  BY <1>0
<1>2. CASE ValidReplacement(v, item) /\ SwapLocked(id, v, item, res)
  BY <1>1, <1>2, ReplacementType, SwapLockedSteps DEF clientVars
<1>3. CASE res = "InvalidInput" /\ UNCHANGED storeVars
  BY <1>1, <1>3, NothingIsStutter DEF Written, clientVars
<1> QED
  BY <1>1, <1>2, <1>3 DEF CompareAndSwap

LEMMA CompareAndSwapWithLeaseAbs ==
    ASSUME Inv, NEW id \in Ids, CallCompareAndSwapWithLease(id)
    PROVE  AbsStep
<1>0. PICK h \in handles, v \in 1..MaxVersion, res \in Results :
        \E item \in Items(v + 1) :
            /\ CompareAndSwapWithLease(h, id, v, item, res)
            /\ Written(id, h.fence, res)
            /\ UNCHANGED clientVars
  BY DEF CallCompareAndSwapWithLease
<1>1. PICK item \in Items(v + 1) :
        /\ CompareAndSwapWithLease(h, id, v, item, res)
        /\ Written(id, h.fence, res)
        /\ UNCHANGED clientVars
  BY <1>0
<1>2. CASE ValidReplacement(v, item) /\ OwnsLease(h, id) /\ SwapLocked(id, v, item, res)
  <2>1. Live(id) => h.fence = Holder[id] /\ h.fence # 0
    BY <1>2, OwnerIsHolder
  <2> QED
    BY <1>1, <1>2, <2>1, ReplacementType, SwapLockedSteps DEF clientVars
<1>3. CASE res # "ok" /\ UNCHANGED storeVars
  BY <1>1, <1>3, NothingIsStutter DEF Written, clientVars
<1> QED
  BY <1>1, <1>2, <1>3 DEF CompareAndSwapWithLease

LEMMA DeletesAbs ==
    ASSUME Inv, NEW id \in Ids, CallDelete(id) \/ CallDeleteWithLease(id)
    PROVE  AbsStep
BY NothingIsStutter, DeleteSessionCloses
   DEF CallDelete, Delete, CallDeleteWithLease, DeleteWithLease, clientVars

LEMMA ReleaseAbs ==
    ASSUME Inv, CallRelease
    PROVE  AbsStep
<1>1. PICK h \in handles, res \in Results : Release(h, res)
  BY DEF CallRelease
<1>2. h.id \in Ids
  BY DEF Inv, TypeOK, Handle
<1>3. CASE UNCHANGED storeVars
  BY <1>3, NothingIsStutter DEF CallRelease, clientVars
<1>4. CASE OwnsLease(h, h.id) /\ leases' = [leases EXCEPT ![h.id] = NoLease]
           /\ UNCHANGED <<sessions, nextFence>>
  <2>1. View' = View
    BY <1>4 DEF View, Live, Present, SessionExpired, CallRelease, clientVars
  <2>2. Holder' = [Holder EXCEPT ![h.id] = 0]
    BY <1>2, <1>4 DEF Holder, Live, LeaseLive, Present, SessionExpired, CallRelease, clientVars,
                      Inv, TypeOK, StoreTypeOK
  <2>3. writer' = writer /\ nextFence' = nextFence
    BY <1>4 DEF CallRelease
  <2>4. CASE Live(h.id)
    <3>1. Holder[h.id] # 0
      BY <1>2, <1>4, <2>4, OwnerIsHolder
    <3>2. Contract!Surrender(h.id)
      BY <2>1, <2>2, <2>3, <3>1, NoneDue DEF Contract!Surrender
    <3> QED
      BY <1>2, <3>2 DEF AbsStep, Contract!Next
  <2>5. CASE ~Live(h.id)
    <3>1. Holder' = Holder
      BY <1>2, <2>2, <2>5 DEF Holder
    <3> QED
      BY <2>1, <2>3, <3>1, NoneDue DEF AbsStep, Contract!contractVars
  <2> QED
    BY <2>4, <2>5
<1> QED
  BY <1>1, <1>3, <1>4 DEF Release

LEMMA RefusalAbs ==
    ASSUME Inv, NEW id \in Ids, NEW res, RefuseLease(id, res), UNCHANGED <<now, writer>>
    PROVE  AbsStep
BY NothingIsStutter, DeleteSessionCloses DEF RefuseLease

LEMMA GrantAbs ==
    ASSUME Inv, NEW c \in Callers, Granted(c)
    PROVE  AbsStep
<1>0. PICK id \in Ids : id = pending[c]
  BY DEF Granted
<1>1. /\ Live(id) /\ ~LeaseLive(id) /\ nextFence # MaxFence
      /\ nextFence' = nextFence + 1
      /\ leases' = [leases EXCEPT ![id] = [fence |-> nextFence + 1,
                                           expiresAt |-> now + LeaseTTL]]
      /\ UNCHANGED <<now, sessions, writer>>
  BY <1>0 DEF Granted, GrantLease, MayLease
<1>2. nextFence \in 0..MaxFence /\ now \in Nat /\ leases \in [Ids -> Lease \cup {NoLease}]
  BY StoreAssumption DEF Inv, TypeOK, StoreTypeOK
<1>3. now + LeaseTTL \in Nat /\ now + LeaseTTL > now /\ nextFence + 1 \in 1..MaxFence
  BY <1>1, <1>2, ClientAssumption, StoreAssumption
<1>4. View' = View
  BY <1>1 DEF View, Live, Present, SessionExpired
<1>5. LeaseLive(id)' /\ leases'[id].fence = nextFence + 1
  <2> DEFINE record == [fence |-> nextFence + 1, expiresAt |-> now + LeaseTTL]
  <2>1. record \in Lease
    BY <1>3 DEF Lease
  <2>2. record # NoLease
    BY <2>1, StoreAssumption
  <2>3. leases'[id] = record
    BY <1>1, <1>2
  <2>4. record.expiresAt = now + LeaseTTL /\ record.fence = nextFence + 1
    OBVIOUS
  <2> HIDE DEF record
  <2> QED
    BY <1>1, <1>3, <2>2, <2>3, <2>4 DEF LeaseLive
<1>6. \A i \in Ids : Live(i)' <=> Live(i)
  BY <1>1 DEF Live, Present, SessionExpired
<1>7. \A i \in Ids \ {id} : leases'[i] = leases[i] /\ (LeaseLive(i)' <=> LeaseLive(i))
  BY <1>1, <1>2 DEF LeaseLive
<1>8. Holder' = [Holder EXCEPT ![id] = nextFence + 1]
  <2>1. Holder' = [i \in Ids |-> IF i = id THEN nextFence + 1 ELSE Holder[i]]
    BY <1>1, <1>5, <1>6, <1>7 DEF Holder
  <2> QED
    BY <1>1, <2>1 DEF Holder
<1>9. Holder[id] = 0 /\ View[id] # NoSession
  <2>1. sessions[id].version \in 1..MaxVersion /\ sessions[id].payload \in Payloads
    BY <1>1 DEF Live, Present, Session, Inv, TypeOK, StoreTypeOK
  <2> QED
    BY <1>1, <2>1, ClientAssumption DEF Holder, View
<1>10. /\ nextFence + 1 \in (1..MaxFence) \ (1..nextFence)
       /\ 1..nextFence' = (1..nextFence) \cup {nextFence + 1}
  BY <1>1, <1>2, <1>3
<1>11. Contract!Grant(id, nextFence + 1)
  BY <1>1, <1>4, <1>8, <1>9, <1>10, NoneDue DEF Contract!Grant
<1> QED
  BY <1>1, <1>3, <1>11 DEF AbsStep, Contract!Next

LEMMA TickAbs ==
    ASSUME Inv, ClockTick
    PROVE  AbsStep
<1> DEFINE gone   == {id \in Ids : ~Live(id)'}
           lapsed == {id \in Ids : ~LeaseLive(id)'}
<1>1. now \in Nat /\ now' = now + 1 /\ UNCHANGED <<sessions, leases, nextFence, writer>>
  BY StoreAssumption DEF ClockTick, Tick, storeVars, Inv, TypeOK, StoreTypeOK
<1>2. \A id \in Ids : Live(id)' => Live(id)
  BY <1>1 DEF Live, Present, SessionExpired, Inv, TypeOK, StoreTypeOK, Session
<1>3. \A id \in Ids : LeaseLive(id)' => LeaseLive(id)
  BY <1>1 DEF LeaseLive, Inv, TypeOK, StoreTypeOK, Lease
<1>4. View' = [id \in Ids |-> IF id \in gone THEN NoSession ELSE View[id]]
  BY <1>1, <1>2 DEF View
<1>5. Holder' = [id \in Ids |-> IF id \in gone \cup lapsed THEN 0 ELSE Holder[id]]
  BY <1>1, <1>2, <1>3 DEF Holder
<1>6. Contract!TimePasses(gone, {}, lapsed)
  BY <1>1, <1>4, <1>5, NoneDue DEF Contract!TimePasses
<1>7. gone \in SUBSET Ids /\ lapsed \in SUBSET Ids
  OBVIOUS
<1> QED
  BY <1>6, <1>7 DEF AbsStep, Contract!Next

-----------------------------------------------------------------------------
LEMMA InitAbs == Init => Contract!Init
<1> SUFFICES ASSUME Init PROVE Contract!Init
  OBVIOUS
<1>1. View = [id \in Ids |-> NoSession] /\ Holder = [id \in Ids |-> 0]
  BY DEF Init, StoreInit, View, Holder, Live, Present
<1>2. 1..nextFence = {}
  BY DEF Init, StoreInit
<1> QED
  BY <1>1, <1>2, NoneDue DEF Contract!Init, Init

LEMMA NextAbs ==
    ASSUME Inv, Next
    PROVE  AbsStep
<1>1. CASE \E id \in Ids : CallCreate(id) \/ CallGet(id) \/ CallCompareAndSwap(id)
  BY <1>1, CreateAbs, GetAbs, CompareAndSwapAbs
<1>2. CASE \E id \in Ids : CallCompareAndSwapWithLease(id) \/ CallDelete(id) \/ CallDeleteWithLease(id)
  BY <1>2, CompareAndSwapWithLeaseAbs, DeletesAbs
<1>3. CASE CallRelease
  BY <1>3, ReleaseAbs
<1>4. ASSUME NEW c \in Callers, AcquireEnd(c)
      PROVE  AbsStep
  <2>1. pending[c] \in Ids
    BY <1>4 DEF AcquireEnd, Inv, TypeOK
  <2>2. CASE GrantLease(pending[c], LeaseTTL)
             /\ handles' = handles \cup {NewHandle(pending[c], LeaseTTL)}
    <3>1. Granted(c)
      BY <1>4, <2>1, <2>2 DEF AcquireEnd, Granted
    <3> QED
      BY <3>1, GrantAbs
  <2>3. CASE \E res \in Results : RefuseLease(pending[c], res)
    BY <1>4, <2>1, <2>3, RefusalAbs DEF AcquireEnd
  <2> QED
    BY <1>4, <2>2, <2>3 DEF AcquireEnd
<1>5. CASE \E c \in Callers : AcquireAbandon(c)
  BY <1>5, NothingIsStutter DEF AcquireAbandon
<1>6. CASE \E c \in Callers, id \in Ids : AcquireBegin(c, id)
  BY <1>6, NothingIsStutter, RefusalAbs DEF AcquireBegin
<1>7. CASE ClockTick
  BY <1>7, TickAbs
<1> QED
  BY <1>1, <1>2, <1>3, <1>4, <1>5, <1>6, <1>7 DEF Next

(***************************************************************************)
(* The backend keeps the promises of session.Backend: every behaviour of   *)
(* the memory backend under any clients is one of the contract.            *)
(***************************************************************************)
THEOREM Refinement == Spec => ImplementsContract
<1>1. Inv /\ [Next]_vars => [Contract!Next]_(Contract!contractVars)
  <2> SUFFICES ASSUME Inv, [Next]_vars
               PROVE  AbsStep
    BY DEF AbsStep
  <2>1. CASE Next
    BY <2>1, NextAbs
  <2>2. CASE UNCHANGED vars
    BY <2>2, NothingIsStutter DEF vars
  <2> QED
    BY <2>1, <2>2
<1> QED
  BY InitAbs, <1>1, Invariance, PTL DEF Spec, ImplementsContract, Contract!Spec
=============================================================================
