--------------------------- MODULE SessionContract ---------------------------
(***************************************************************************)
(* What session.Backend promises its callers, whichever backend is behind  *)
(* it (runtime/bff/session/backend.go, and the conformance suite in        *)
(* runtime/bff/session/sessiontest that both backends must pass).          *)
(*                                                                         *)
(* There is no clock and no clean-up here: a session is visible or it is   *)
(* not, a lease has a holder or it has none, and time may take away either *)
(* at any moment.  A session whose time has come is gone at once or, in a  *)
(* backend that is told so later, due.  A new session may replace one that *)
(* is due; and since a caller may have looked at it in time and writes     *)
(* only now, it may also still be written to, and be revived, or leased,   *)
(* as if it were not due.  The fencing promise is in three places: a lease *)
(* is granted only where nobody holds one, each grant is a handle never    *)
(* seen before, and a fenced write is the current holder's.                *)
(***************************************************************************)
EXTENDS Integers

CONSTANTS
    Ids,          \* session identifiers
    Payloads,     \* session contents
    Handles,      \* lease handles
    Nobody,       \* no holder, or an unfenced writer
    Absent        \* no visible session

VARIABLES
    view,         \* id -> [version, payload], or Absent
    holder,       \* id -> the handle that holds the refresh lease, or Nobody
    due,          \* sessions that are past their deadline and still visible
    writer,       \* id -> the handle under which the session was last written
    granted       \* every handle granted so far

contractVars == <<view, holder, due, writer, granted>>

Init ==
    /\ view = [id \in Ids |-> Absent]
    /\ holder = [id \in Ids |-> Nobody]
    /\ due = {}
    /\ writer = [id \in Ids |-> Nobody]
    /\ granted = {}

\* A session that has just been written may already be due again.
Renewed(id) == due' \in {due \ {id}, due \cup {id}}

\* Create: a session starts at version 1 with nobody holding its lease.
Open(id, p) ==
    /\ \/ view[id] = Absent /\ UNCHANGED holder
       \/ id \in due /\ holder' = [holder EXCEPT ![id] = Nobody]
    /\ view' = [view EXCEPT ![id] = [version |-> 1, payload |-> p]]
    /\ writer' = [writer EXCEPT ![id] = Nobody]
    /\ Renewed(id)
    /\ UNCHANGED granted

Successor(id, p) == [version |-> view[id].version + 1, payload |-> p]

\* CompareAndSwap: the next version of the session the caller has seen, which
\* may have become due since.
Replace(id, p) ==
    /\ view[id] # Absent
    /\ view' = [view EXCEPT ![id] = Successor(id, p)]
    /\ writer' = [writer EXCEPT ![id] = Nobody]
    /\ Renewed(id)
    /\ UNCHANGED <<holder, granted>>

\* CompareAndSwapWithLease: as Replace, and only by the current holder, who may
\* lose the lease by it.
FencedReplace(id, p) ==
    /\ view[id] # Absent
    /\ holder[id] # Nobody
    /\ view' = [view EXCEPT ![id] = Successor(id, p)]
    /\ writer' = [writer EXCEPT ![id] = holder[id]]
    /\ Renewed(id)
    /\ UNCHANGED granted
    /\ \/ UNCHANGED holder
       \/ holder' = [holder EXCEPT ![id] = Nobody]

\* Delete, DeleteWithLease.
Close(id) ==
    /\ view' = [view EXCEPT ![id] = Absent]
    /\ holder' = [holder EXCEPT ![id] = Nobody]
    /\ due' = due \ {id}
    /\ UNCHANGED <<writer, granted>>

\* AcquireRefreshLease, of a session that may have become due since the look.
Grant(id, h) ==
    /\ view[id] # Absent
    /\ holder[id] = Nobody
    /\ h \in Handles \ granted
    /\ holder' = [holder EXCEPT ![id] = h]
    /\ granted' = granted \cup {h}
    /\ UNCHANGED <<view, due, writer>>

\* Lease.Release.
Surrender(id) ==
    /\ holder[id] # Nobody
    /\ holder' = [holder EXCEPT ![id] = Nobody]
    /\ UNCHANGED <<view, due, writer, granted>>

\* Some sessions reach their absolute or idle deadline and are gone or due, some
\* leases reach theirs.
TimePasses(gone, late, lapsed) ==
    /\ view' = [id \in Ids |-> IF id \in gone THEN Absent ELSE view[id]]
    /\ holder' = [id \in Ids |-> IF id \in gone \cup lapsed THEN Nobody ELSE holder[id]]
    /\ due' = (due \ gone) \cup late
    /\ UNCHANGED <<writer, granted>>

Next ==
    \/ \E id \in Ids, p \in Payloads : Open(id, p) \/ Replace(id, p) \/ FencedReplace(id, p)
    \/ \E id \in Ids : Close(id) \/ Surrender(id)
    \/ \E id \in Ids, h \in Handles : Grant(id, h)
    \/ \E gone, late, lapsed \in SUBSET Ids : TimePasses(gone, late, lapsed)

Spec == Init /\ [][Next]_contractVars
=============================================================================
