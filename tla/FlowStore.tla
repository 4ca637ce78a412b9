------------------------------ MODULE FlowStore ------------------------------
(***************************************************************************)
(* The login flows of runtime/bff/session/memory: what a login leaves for  *)
(* its callback to pick up, once.  They share the mutex and the clock of   *)
(* the sessions and nothing else.  As in MemoryStore, a method m(args) is  *)
(* an operator M(args, res), the action of a call that returns res.        *)
(***************************************************************************)
EXTENDS Integers

CONSTANTS
    FlowIds,    \* flow identifiers
    Horizon,    \* the clock stops here
    NoFlow      \* no entry in the flows map

VARIABLES
    now,        \* core.Clock, read inside the mutex
    flows       \* id -> stored flow, or NoFlow

Flow == [expiresAt: Nat]

\* An expiry is reached at equality.
FlowExpired(flow) == flow.expiresAt <= now

Taken(id) == flows[id] # NoFlow /\ ~FlowExpired(flows[id])

\* A new flow replaces an expired one and no other.
PutFlow(id, flow, res) ==
    \/ /\ FlowExpired(flow)
       /\ res = "Expired"
       /\ UNCHANGED flows
    \/ /\ ~FlowExpired(flow)
       /\ Taken(id)
       /\ res = "Conflict"
       /\ UNCHANGED flows
    \/ /\ ~FlowExpired(flow)
       /\ ~Taken(id)
       /\ res = "ok"
       /\ flows' = [flows EXCEPT ![id] = flow]

\* Slip: the flow stays behind for the next call.
ConsumeFlowKeep(id, res) ==
    /\ flows[id] # NoFlow
    /\ res = IF FlowExpired(flows[id]) THEN "Expired" ELSE "ok"
    /\ UNCHANGED flows

\* Slip: nothing is returned, and no error either.
ConsumeFlowNil(id, res) ==
    /\ res = "ok"
    /\ flows' = [flows EXCEPT ![id] = NoFlow]

\* The flow is gone whether it was still good or not.
ConsumeFlow(id, res) ==
    \/ /\ flows[id] = NoFlow
       /\ res = "NotFound"
       /\ UNCHANGED flows
    \/ /\ flows[id] # NoFlow
       /\ res = IF FlowExpired(flows[id]) THEN "Expired" ELSE "ok"
       /\ flows' = [flows EXCEPT ![id] = NoFlow]

Tick ==
    /\ now < Horizon
    /\ now' = now + 1
    /\ UNCHANGED flows
=============================================================================
