----------------------------- MODULE RedisStore -----------------------------
(***************************************************************************)
(* The Redis session backend of runtime/adapters/redis under arbitrary     *)
(* callers in several processes.  There is no mutex: a method is a         *)
(* transaction in three steps.  The call checks its arguments and fixes    *)
(* the time to live (Call...), a first exchange watches the two keys of    *)
(* the session and reads them (Read), and EXEC applies the writes if       *)
(* nobody has written to a watched key since (Exec).  The reply of EXEC    *)
(* may be lost after it has been applied.                                  *)
(*                                                                         *)
(* The server removes a key at the end of its time to live and, as Redis   *)
(* 6.2 does, counts that as a write to it.  Random owners and generations  *)
(* are numbers; nobody sees one before EXEC, where they are drawn here.    *)
(* Only the earlier of the two deadlines of a session matters, so that a   *)
(* session has one.                                                        *)
(***************************************************************************)
EXTENDS Integers

CONSTANTS
    Ids, Payloads, Callers,
    Keys,         \* caller -> the keys its process can open
    Primary,      \* caller -> the key its process seals with
    MaxVersion,   \* stands for the largest uint64
    MaxFence,     \* stands for the largest uint64
    MaxToken,     \* bound on random values drawn
    Horizon,      \* the clock stops here
    LeaseTTL,     \* the lease duration callers ask for
    Deadlines,    \* of the sessions they write
    NoSession, NoLease, NoHandle, Idle

VARIABLES
    now,          \* the clock
    sessions,     \* server: id -> the hash at sessionKey(id), or NoSession
    leases,       \* server: id -> the hash at leaseKey(id), or NoLease
    drawn,        \* the last random value drawn
    calls,        \* caller -> the transaction it is in, or Idle
    handles,      \* owner -> the refreshLease a caller was given, or NoHandle
    granted,      \* history: owners under which EXEC has installed a lease
    writer        \* history: id -> owner under which the session was written, 0 for none

vars == <<now, sessions, leases, drawn, calls, handles, granted, writer>>

Tokens == 1..MaxToken
Item == [version: 1..MaxVersion, deadline: Deadlines, payload: Payloads]
Operations == {"create", "get", "swap", "leaseSwap", "leaseDelete", "acquire", "release"}

\* The hashes, with the time at which the server drops them, and what a process
\* keeps of a lease it holds and of a call it is in.
SessionRow == [item: Item, sealed: {Primary[c] : c \in Callers}, generation: Tokens,
               lastFence: 0..MaxFence, until: Nat]
LeaseRow   == [owner: Tokens, fence: 1..MaxFence, generation: Tokens, until: Nat]
Handle     == [id: Ids, fence: 1..MaxFence, generation: Tokens,
               state: {"held", "consumed", "acked"}]
Call       == [op: Operations, id: Ids, step: {"called", "watching"}, clean: BOOLEAN,
               expired: BOOLEAN, item: Item \cup SessionRow \cup {NoSession},
               expected: 0..MaxVersion, owner: 0..MaxToken, ttl: Nat]

ASSUME RedisAssumption ==
    /\ {MaxVersion, MaxFence, MaxToken, Horizon, LeaseTTL} \subseteq Nat \ {0}
    /\ Deadlines \subseteq Nat
    /\ \A c \in Callers : Primary[c] \in Keys[c]
    /\ NoSession \notin SessionRow \cup [version: 1..MaxVersion, payload: Payloads]
    /\ NoLease \notin LeaseRow
    /\ NoHandle \notin Handle
    /\ Idle \notin Call

TypeOK ==
    /\ now \in 0..Horizon /\ drawn \in 0..MaxToken /\ granted \subseteq Tokens
    /\ sessions \in [Ids -> SessionRow \cup {NoSession}]
    /\ leases \in [Ids -> LeaseRow \cup {NoLease}]
    /\ calls \in [Callers -> Call \cup {Idle}]
    /\ handles \in [Tokens -> Handle \cup {NoHandle}]
    /\ writer \in [Ids -> 0..MaxToken]

Init ==
    /\ now = 0
    /\ sessions = [id \in Ids |-> NoSession]
    /\ leases = [id \in Ids |-> NoLease]
    /\ drawn = 0
    /\ calls = [c \in Callers |-> Idle]
    /\ handles = [o \in Tokens |-> NoHandle]
    /\ granted = {}
    /\ writer = [id \in Ids |-> 0]

-----------------------------------------------------------------------------
\* The server's keys.

Stored(id)  == sessions[id] # NoSession
Expired(id) == sessions[id].item.deadline <= now

\* Slip: whatever cannot be opened is taken for readable.
ReadableAnyway(c, id) == TRUE

\* readStored: the payload is opened with the key it names, or not at all.
Readable(c, id) == sessions[id].sealed \in Keys[c]

\* Slip: the fence alone identifies a lease.
OwnsLeaseByFence(o) ==
    LET h == handles[o] IN
    Stored(h.id) /\ leases[h.id] # NoLease /\ leases[h.id].fence = h.fence

\* validateLease, for the handle with owner o.
OwnsLease(o) ==
    LET h == handles[o] IN
    /\ Stored(h.id) /\ leases[h.id] # NoLease
    /\ sessions[h.id].generation = h.generation
    /\ leases[h.id].owner = o
    /\ leases[h.id].fence = h.fence
    /\ leases[h.id].generation = h.generation

\* Slip: a session that is created is not watched, for want of a key.
TouchingButCreates(ids, cs) ==
    [c \in Callers |-> IF /\ cs[c] # Idle /\ cs[c].step = "watching"
                          /\ cs[c].id \in ids /\ cs[c].op # "create"
                       THEN [cs[c] EXCEPT !.clean = FALSE] ELSE cs[c]]

\* A write to a key of one of the ids fails every EXEC that watches it.
Touching(ids, cs) ==
    [c \in Callers |-> IF cs[c] # Idle /\ cs[c].step = "watching" /\ cs[c].id \in ids
                       THEN [cs[c] EXCEPT !.clean = FALSE] ELSE cs[c]]

Remove(id) ==
    /\ sessions' = [sessions EXCEPT ![id] = NoSession]
    /\ leases' = [leases EXCEPT ![id] = NoLease]

-----------------------------------------------------------------------------
\* The calls, up to their first exchange with the server.

NewCall(op, id) ==
    [op |-> op, id |-> id, step |-> "called", clean |-> TRUE, expired |-> FALSE,
     item |-> NoSession, expected |-> 0, owner |-> 0, ttl |-> 0]

Begin(c, call) ==
    /\ calls[c] = Idle
    /\ calls' = [calls EXCEPT ![c] = call]
    /\ UNCHANGED <<now, sessions, leases, drawn, handles, granted, writer>>

\* sessionTTL refuses a session that has expired by the time of the call.
Writing(call, item) == [call EXCEPT !.item = item, !.ttl = item.deadline - now]
Items(v) == {item \in Item : item.version = v /\ item.deadline > now}

CallCreate(c, id) ==
    \E item \in Items(1) : Begin(c, Writing(NewCall("create", id), item))

CallSwap(c, id) ==
    \E v \in 1..MaxVersion-1 : \E item \in Items(v + 1) :
        Begin(c, [Writing(NewCall("swap", id), item) EXCEPT !.expected = v])

\* ownedLease: a handle of this session that no call has used up.
Presents(o, id) ==
    handles[o] # NoHandle /\ handles[o].state = "held" /\ handles[o].id = id

CallLeaseSwap(c, id) ==
    \E o \in Tokens, v \in 1..MaxVersion-1 : \E item \in Items(v + 1) :
        /\ Presents(o, id)
        /\ Begin(c, [Writing(NewCall("leaseSwap", id), item)
                        EXCEPT !.expected = v, !.owner = o])

CallLeaseDelete(c, id) ==
    \E o \in Tokens, v \in 1..MaxVersion :
        /\ Presents(o, id)
        /\ Begin(c, [NewCall("leaseDelete", id) EXCEPT !.expected = v, !.owner = o])

CallAcquire(c, id) == Begin(c, NewCall("acquire", id))

CallRelease(c, id) ==
    \E o \in Tokens :
        /\ Presents(o, id)
        /\ Begin(c, [NewCall("release", id) EXCEPT !.owner = o])

\* Get reads without a transaction, and opens one if it meets an expired session.
CallGet(c, id) ==
    /\ Stored(id) /\ Readable(c, id) /\ Expired(id)
    /\ Begin(c, [NewCall("get", id) EXCEPT !.item = sessions[id]])

\* Delete is one command, with no look at what is there.
Delete(id) ==
    /\ Remove(id)
    /\ calls' = Touching({id}, calls)
    /\ UNCHANGED <<now, drawn, handles, granted, writer>>

\* The release that follows a call which used up its lease is acknowledged once.
AcknowledgeRelease(o) ==
    /\ handles[o] # NoHandle /\ handles[o].state = "consumed"
    /\ handles' = [handles EXCEPT ![o].state = "acked"]
    /\ UNCHANGED <<now, sessions, leases, drawn, calls, granted, writer>>

-----------------------------------------------------------------------------
\* The first exchange: WATCH, read, decide.

SameStored(seen, id) ==
    /\ seen.item = sessions[id].item /\ seen.generation = sessions[id].generation
    /\ seen.lastFence = sessions[id].lastFence

\* What the methods that replace, delete or lease a session do first.
LookUp(c, id, verdict) ==
    IF ~Stored(id) THEN "NotFound"
    ELSE IF ~Readable(c, id) THEN "DecodeFailed"
    ELSE IF Expired(id) THEN "purge" ELSE verdict

IfCurrent(t) == IF sessions[t.id].item.version = t.expected THEN "write" ELSE "Conflict"

Verdict(c, t) ==
    CASE t.op = "create" ->
            IF ~Stored(t.id) THEN "write"
            ELSE IF ~Readable(c, t.id) THEN "DecodeFailed"
            ELSE IF Expired(t.id) THEN "write" ELSE "Conflict"
      [] t.op = "get" ->
            IF Stored(t.id) /\ Readable(c, t.id)
            THEN IF SameStored(t.item, t.id) THEN "purge" ELSE "Conflict"
            ELSE "NotFound"
      [] t.op = "swap" -> LookUp(c, t.id, IfCurrent(t))
      [] t.op \in {"leaseSwap", "leaseDelete"} ->
            LookUp(c, t.id, IF OwnsLease(t.owner) THEN IfCurrent(t) ELSE "LeaseLost")
      [] t.op = "acquire" ->
            LookUp(c, t.id, IF leases[t.id] # NoLease THEN "Conflict"
                            ELSE IF sessions[t.id].lastFence = MaxFence THEN "FenceExhausted"
                            ELSE "write")
      [] t.op = "release" -> IF OwnsLease(t.owner) THEN "write" ELSE "LeaseLost"

\* A lease is given no longer than the session key still has to live.
LeaseLife(id) ==
    LET left == sessions[id].until - now IN IF left < LeaseTTL THEN left ELSE LeaseTTL

Read(c) ==
    /\ calls[c] # Idle /\ calls[c].step = "called"
    /\ LET t == calls[c]
           verdict == Verdict(c, t)
       IN calls' = [calls EXCEPT ![c] =
              IF verdict \notin {"write", "purge"} THEN Idle
              ELSE [t EXCEPT !.step = "watching", !.expired = (verdict = "purge"),
                             !.ttl = IF t.op = "acquire" /\ verdict = "write"
                                     THEN LeaseLife(t.id) ELSE t.ttl]]
    /\ UNCHANGED <<now, sessions, leases, drawn, handles, granted, writer>>

-----------------------------------------------------------------------------
\* The second exchange: EXEC applies everything or nothing.

ApplyRemoval(t) ==
    /\ t.expired \/ t.op = "leaseDelete"
    /\ Remove(t.id)
    /\ UNCHANGED <<drawn, granted, writer>>

ApplyCreate(c, t) ==
    /\ t.op = "create" /\ drawn < MaxToken
    /\ drawn' = drawn + 1
    /\ sessions' = [sessions EXCEPT ![t.id] =
            [item |-> t.item, sealed |-> Primary[c], generation |-> drawn + 1,
             lastFence |-> 0, until |-> now + t.ttl]]
    /\ leases' = [leases EXCEPT ![t.id] = NoLease]
    /\ writer' = [writer EXCEPT ![t.id] = 0]
    /\ UNCHANGED granted

\* Slip: PEXPIRE is forgotten, and the key keeps its old time to live.
ApplySwapSameTTL(c, t) ==
    /\ t.op \in {"swap", "leaseSwap"} /\ ~t.expired
    /\ sessions' = [sessions EXCEPT ![t.id].item = t.item, ![t.id].sealed = Primary[c]]
    /\ leases' = IF t.op = "leaseSwap" THEN [leases EXCEPT ![t.id] = NoLease] ELSE leases
    /\ writer' = [writer EXCEPT ![t.id] = t.owner]
    /\ UNCHANGED <<drawn, granted>>

\* A leased swap gives its lease up.
ApplySwap(c, t) ==
    /\ t.op \in {"swap", "leaseSwap"} /\ ~t.expired
    /\ sessions' = [sessions EXCEPT ![t.id].item = t.item, ![t.id].sealed = Primary[c],
                                    ![t.id].until = now + t.ttl]
    /\ leases' = IF t.op = "leaseSwap" THEN [leases EXCEPT ![t.id] = NoLease] ELSE leases
    /\ writer' = [writer EXCEPT ![t.id] = t.owner]
    /\ UNCHANGED <<drawn, granted>>

Fence(id) == sessions[id].lastFence + 1

\* Slip: the lease falls into place before the fence has grown.
ApplyAcquireUnfenced(t) ==
    /\ t.op = "acquire" /\ ~t.expired /\ drawn < MaxToken
    /\ drawn' = drawn + 1
    /\ leases' = [leases EXCEPT ![t.id] =
            [owner |-> drawn + 1, fence |-> sessions[t.id].lastFence,
             generation |-> sessions[t.id].generation, until |-> now + t.ttl]]
    /\ granted' = granted \cup {drawn + 1}
    /\ UNCHANGED <<sessions, writer>>

ApplyAcquire(t) ==
    /\ t.op = "acquire" /\ ~t.expired /\ drawn < MaxToken
    /\ drawn' = drawn + 1
    /\ sessions' = [sessions EXCEPT ![t.id].lastFence = Fence(t.id)]
    /\ leases' = [leases EXCEPT ![t.id] =
            [owner |-> drawn + 1, fence |-> Fence(t.id),
             generation |-> sessions[t.id].generation, until |-> now + t.ttl]]
    /\ granted' = granted \cup {drawn + 1}
    /\ UNCHANGED writer

ApplyRelease(t) ==
    /\ t.op = "release"
    /\ leases' = [leases EXCEPT ![t.id] = NoLease]
    /\ UNCHANGED <<sessions, drawn, granted, writer>>

Apply(c, t) ==
    \/ ApplyRemoval(t)
    \/ ApplyCreate(c, t)
    \/ ApplySwap(c, t)
    \/ ApplyAcquire(t)
    \/ ApplyRelease(t)

\* What a successful reply does to the caller's lease handles.
HandlesAfter(t) ==
    IF t.expired THEN handles ELSE
    CASE t.op = "acquire" ->
            [handles EXCEPT ![drawn + 1] =
                [id |-> t.id, fence |-> Fence(t.id),
                 generation |-> sessions[t.id].generation, state |-> "held"]]
      [] t.op \in {"leaseSwap", "leaseDelete"} -> [handles EXCEPT ![t.owner].state = "consumed"]
      [] t.op = "release" -> [handles EXCEPT ![t.owner].state = "acked"]
      [] OTHER -> handles

\* The reply arrives, or it is lost and the caller sees ErrBackendUnavailable.
Exec(c) ==
    /\ calls[c] # Idle /\ calls[c].step = "watching" /\ calls[c].clean
    /\ Apply(c, calls[c])
    /\ \/ handles' = HandlesAfter(calls[c])
       \/ UNCHANGED handles
    /\ calls' = Touching({calls[c].id}, [calls EXCEPT ![c] = Idle])
    /\ UNCHANGED now

\* EXEC is refused (ErrConflict), or Redis cannot be reached or the request is
\* canceled before EXEC.
GiveUp(c) ==
    /\ calls[c] # Idle
    /\ calls' = [calls EXCEPT ![c] = Idle]
    /\ UNCHANGED <<now, sessions, leases, drawn, handles, granted, writer>>

\* Time passes, and the server drops the keys that have reached their end.
Tick ==
    /\ now < Horizon
    /\ now' = now + 1
    /\ LET over(key, none) == key # none /\ key.until <= now + 1
           gone   == {id \in Ids : over(sessions[id], NoSession)}
           lapsed == {id \in Ids : over(leases[id], NoLease)}
       IN /\ sessions' = [id \in Ids |-> IF id \in gone THEN NoSession ELSE sessions[id]]
          /\ leases' = [id \in Ids |-> IF id \in lapsed THEN NoLease ELSE leases[id]]
          /\ calls' = Touching(gone \cup lapsed, calls)
    /\ UNCHANGED <<drawn, handles, granted, writer>>

Next ==
    \/ \E c \in Callers, id \in Ids :
        \/ CallCreate(c, id) \/ CallGet(c, id) \/ CallSwap(c, id)
        \/ CallLeaseSwap(c, id) \/ CallLeaseDelete(c, id)
        \/ CallAcquire(c, id) \/ CallRelease(c, id)
    \/ \E id \in Ids : Delete(id)
    \/ \E o \in Tokens : AcknowledgeRelease(o)
    \/ \E c \in Callers : Read(c) \/ Exec(c) \/ GiveUp(c)
    \/ Tick

Spec == Init /\ [][Next]_vars

-----------------------------------------------------------------------------
(***************************************************************************)
(* Redis keeps a session at least until its deadline: a time to live that  *)
(* was computed before the transaction, on the caller's clock, and applied *)
(* later by the server, never makes a session end early, however often it  *)
(* has been written and its deadline moved.                                *)
(***************************************************************************)
NotForgottenEarly ==
    \A id \in Ids : Stored(id) => sessions[id].until >= sessions[id].item.deadline

(***************************************************************************)
(* Fencing across generations: a lease handle that the server no longer    *)
(* accepts is never accepted again, although every session created under   *)
(* an identifier counts its fences from one again, and although replies to *)
(* acquisitions are lost.                                                  *)
(***************************************************************************)
LostForGood ==
    \A o \in Tokens : handles[o] # NoHandle /\ ~OwnsLease(o) => ~OwnsLease(o)'

HandlesLostForGood == [][LostForGood]_vars

(***************************************************************************)
(* While keys are rotated, a process that cannot open a session never      *)
(* writes over it: whoever replaces a stored session could read it.        *)
(***************************************************************************)
ReplacedByReader ==
    \A id \in Ids :
        Stored(id) /\ Stored(id)' /\ sessions'[id].item # sessions[id].item =>
            \E c \in Callers : /\ Primary[c] = sessions'[id].sealed
                               /\ sessions[id].sealed \in Keys[c]

UnreadableIsKept == [][ReplacedByReader]_vars

(***************************************************************************)
(* Redis keeps the promises of session.Backend.  A session is visible      *)
(* while its key is stored.  Past its deadline it may linger, due: a new   *)
(* session then takes its place, and a transaction that has read it before *)
(* the deadline still writes or leases it.  A lease record that outlives   *)
(* its session, which the time between Read and EXEC allows, has no holder *)
(* and must not count for the next session under the identifier.           *)
(***************************************************************************)
View == [id \in Ids |->
            IF Stored(id)
            THEN [version |-> sessions[id].item.version, payload |-> sessions[id].item.payload]
            ELSE NoSession]

Holder == [id \in Ids |->
            IF Stored(id) /\ leases[id] # NoLease THEN leases[id].owner ELSE 0]

Due == {id \in Ids : Stored(id) /\ Expired(id)}

Contract == INSTANCE SessionContract
    WITH Handles <- Tokens, Nobody <- 0, Absent <- NoSession,
         view <- View, holder <- Holder, due <- Due

ImplementsContract == Contract!Spec
=============================================================================
