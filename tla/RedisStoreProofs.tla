-------------------------- MODULE RedisStoreProofs --------------------------
(***************************************************************************)
(* The safety of the Redis backend, and that it keeps the promises of      *)
(* session.Backend, for any number of processes, sessions and keys, and    *)
(* any lifetimes.                                                          *)
(*                                                                         *)
(* A transaction decides on what it read and writes later.  ReadInv is     *)
(* what it decided upon: it still holds while the transaction is clean,    *)
(* because every write to a watched key takes clean away.  RowInv says     *)
(* that owners and lifetimes are in order, CallInv what a call carries.    *)
(* Rely says what no step ever does, whoever takes it.                     *)
(***************************************************************************)
EXTENDS RedisStore, TLAPS

RowInv ==
    /\ granted \subseteq 1..drawn
    /\ \A id \in Ids : leases[id] # NoLease =>
            leases[id].owner \in granted /\ leases[id].until > now
    /\ \A id \in Ids : Stored(id) =>
            /\ sessions[id].until > now
            /\ sessions[id].until >= sessions[id].item.deadline

HandleInv == \A o \in Tokens : handles[o] # NoHandle => o \in granted

LeaseCalls == {"leaseSwap", "leaseDelete", "release"}
Writes     == {"create", "swap", "leaseSwap"}

\* The time to live was computed earlier, and reaches the deadline all the more.
CallInv(c) ==
    /\ calls[c].op \in Writes =>
        /\ calls[c].item \in Item /\ calls[c].ttl > 0
        /\ now + calls[c].ttl >= calls[c].item.deadline
        /\ calls[c].item.version = calls[c].expected + 1
        /\ calls[c].op = "create" => calls[c].expected = 0
    /\ calls[c].op \notin LeaseCalls => calls[c].owner = 0
    /\ calls[c].op \in LeaseCalls =>
        /\ calls[c].owner \in Tokens
        /\ handles[calls[c].owner] # NoHandle
        /\ handles[calls[c].owner].id = calls[c].id

\* What a transaction has read, and nobody has changed since.
ReadInv(c) ==
    LET t == calls[c] IN
    /\ t.op = "create" => ~t.expired /\ (Stored(t.id) => Readable(c, t.id) /\ Expired(t.id))
    /\ t.op = "get" => t.expired
    /\ t.op \in {"swap", "leaseSwap", "leaseDelete"} /\ ~t.expired =>
        /\ Stored(t.id) /\ Readable(c, t.id)
        /\ sessions[t.id].item.version = t.expected
    /\ t.op = "acquire" /\ ~t.expired =>
        /\ Stored(t.id) /\ leases[t.id] = NoLease
        /\ sessions[t.id].lastFence < MaxFence
        /\ t.ttl > 0
    /\ t.op = "release" => ~t.expired
    /\ t.op \in LeaseCalls /\ ~t.expired => OwnsLease(t.owner)

Watching(c) == calls[c] # Idle /\ calls[c].step = "watching" /\ calls[c].clean

CallOK(c) == calls[c] # Idle => CallInv(c) /\ (Watching(c) => ReadInv(c))

Inv == TypeOK /\ RowInv /\ HandleInv /\ \A c \in Callers : CallOK(c)

-----------------------------------------------------------------------------
\* What no step does to the rows: a lease is never handed over, a session that
\* is born leaves no lease standing, and only a reader replaces what is stored.
RowRely ==
    /\ \A id \in Ids : \/ leases'[id] \in {leases[id], NoLease}
                       \/ leases'[id].owner = drawn + 1
    /\ \A id \in Ids : Stored(id)' /\ leases'[id] = leases[id] /\ leases[id] # NoLease =>
            Stored(id) /\ sessions'[id].generation = sessions[id].generation
    /\ ReplacedByReader

\* A handle stays what it is, but for its state.
SameHandle(o) ==
    /\ handles'[o] # NoHandle
    /\ handles'[o].id = handles[o].id
    /\ handles'[o].fence = handles[o].fence
    /\ handles'[o].generation = handles[o].generation

HandleRely == \A o \in Tokens : handles[o] # NoHandle => SameHandle(o)

Spoilt(t) == [t EXCEPT !.clean = FALSE]

\* A call of somebody else goes on as it was, or its transaction is spoilt.
KeptCall(c) ==
    \/ calls'[c] = calls[c]
       /\ (Watching(c) => /\ sessions'[calls[c].id] = sessions[calls[c].id]
                          /\ leases'[calls[c].id] = leases[calls[c].id])
    \/ calls'[c] = Spoilt(calls[c])

\* What a step shows, taken by a caller in cs or by nobody if cs is empty.
Step(cs) ==
    /\ TypeOK' /\ RowInv' /\ HandleInv'
    /\ now <= now' /\ RowRely /\ HandleRely
    /\ \A c \in cs : CallOK(c)'
    /\ \A c \in Callers \ cs : calls'[c] = Idle \/ (calls[c] # Idle /\ KeptCall(c))

LEMMA Numbers ==
    /\ MaxVersion \in Nat \ {0} /\ MaxFence \in Nat \ {0} /\ MaxToken \in Nat \ {0}
    /\ Horizon \in Nat \ {0} /\ LeaseTTL \in Nat \ {0} /\ Deadlines \subseteq Nat
BY RedisAssumption

LEMMA SpoiltCall ==
    ASSUME NEW t \in Call
    PROVE  /\ Spoilt(t) \in Call /\ Spoilt(t) # Idle
           /\ ~Spoilt(t).clean
           /\ Spoilt(t).op = t.op /\ Spoilt(t).id = t.id /\ Spoilt(t).item = t.item
           /\ Spoilt(t).expected = t.expected /\ Spoilt(t).owner = t.owner
           /\ Spoilt(t).ttl = t.ttl
BY RedisAssumption DEF Spoilt, Call

\* What a call knows survives the steps of the others.
LEMMA CallKept ==
    ASSUME Inv, TypeOK', now <= now', HandleRely,
           NEW c \in Callers, calls[c] # Idle, KeptCall(c)
    PROVE  CallOK(c)'
<1>1. calls[c] \in Call /\ CallInv(c) /\ (Watching(c) => ReadInv(c))
  BY DEF Inv, TypeOK, CallOK
<1>2. now \in Nat /\ now' \in Nat
  BY RedisAssumption DEF Inv, TypeOK
<1>3. calls'[c].op = calls[c].op /\ calls'[c].item = calls[c].item
      /\ calls'[c].id = calls[c].id /\ calls'[c].owner = calls[c].owner
      /\ calls'[c].ttl = calls[c].ttl /\ calls'[c].expected = calls[c].expected
  BY <1>1, SpoiltCall DEF KeptCall
<1>4. CallInv(c)'
  <2>1. calls[c].op \in Writes => calls[c].ttl \in Nat /\ calls[c].item.deadline \in Nat
    BY <1>1, RedisAssumption DEF Call, CallInv, Item
  <2>2. calls[c].op \in LeaseCalls => SameHandle(calls[c].owner)
    BY <1>1 DEF CallInv, HandleRely
  <2> QED
    BY <1>1, <1>2, <1>3, <2>1, <2>2 DEF CallInv, SameHandle
<1>5. ASSUME Watching(c)' PROVE ReadInv(c)'
  <2>1. calls'[c] = calls[c] /\ Watching(c)
        /\ sessions'[calls[c].id] = sessions[calls[c].id]
        /\ leases'[calls[c].id] = leases[calls[c].id]
    BY <1>1, <1>5, SpoiltCall DEF KeptCall, Watching
  <2>2. ReadInv(c)
    BY <1>1, <2>1
  <2>3. calls[c].id \in Ids
    BY <1>1 DEF Call
  <2>4. calls[c].op \in LeaseCalls /\ OwnsLease(calls[c].owner) => OwnsLease(calls[c].owner)'
    BY <1>1, <2>1 DEF CallInv, HandleRely, SameHandle, OwnsLease, Stored
  <2>5. Stored(calls[c].id) => sessions[calls[c].id].item.deadline \in Nat
    BY <2>3, RedisAssumption DEF Stored, Inv, TypeOK, SessionRow, Item
  <2> QED
    BY <1>2, <2>1, <2>2, <2>4, <2>5 DEF ReadInv, Stored, Readable, Expired
<1> QED
  BY <1>4, <1>5 DEF CallOK

LEMMA StepKeeps ==
    ASSUME Inv, NEW cs \in SUBSET Callers, Step(cs)
    PROVE  Inv'
<1>1. ASSUME NEW c \in Callers PROVE CallOK(c)'
  <2>1. CASE c \in cs
    BY <2>1 DEF Step
  <2>2. CASE c \notin cs /\ calls'[c] = Idle
    BY <2>2 DEF CallOK
  <2>3. CASE c \notin cs /\ calls[c] # Idle /\ KeptCall(c)
    BY <2>3, CallKept DEF Step
  <2> QED
    BY <2>1, <2>2, <2>3 DEF Step
<1> QED
  BY <1>1 DEF Inv, Step

\* A lease that was lost is not found again.
LEMMA StepLoses ==
    ASSUME Inv, NEW cs, Step(cs)
    PROVE  LostForGood
<1> SUFFICES ASSUME NEW o \in Tokens, handles[o] # NoHandle, ~OwnsLease(o), OwnsLease(o)'
             PROVE  FALSE
  BY DEF LostForGood
<1>1. SameHandle(o) /\ o \in granted /\ handles[o].id \in Ids
  BY DEF Step, HandleRely, Inv, HandleInv, TypeOK, Handle
<1>2. PICK id \in Ids : id = handles[o].id
  BY <1>1
<1>3. leases'[id].owner = o /\ leases'[id] # NoLease /\ Stored(id)'
      /\ sessions'[id].generation = handles[o].generation
      /\ leases'[id].fence = handles[o].fence /\ leases'[id].generation = handles[o].generation
  BY <1>1, <1>2 DEF OwnsLease, SameHandle
<1>4. leases'[id] # leases[id]
  BY <1>2, <1>3 DEF OwnsLease, Step, RowRely
<1>5. o = drawn + 1
  BY <1>3, <1>4 DEF Step, RowRely
<1> QED
  BY <1>1, <1>5 DEF Inv, TypeOK, RowInv

-----------------------------------------------------------------------------
\* Steps that leave the server and the handles alone.

LEMMA QuietRows ==
    ASSUME UNCHANGED <<now, sessions, leases, drawn, granted>>
    PROVE  RowRely /\ (RowInv => RowInv')
BY DEF RowRely, RowInv, ReplacedByReader, Stored

LEMMA QuietHandles ==
    ASSUME UNCHANGED <<handles, granted>>
    PROVE  HandleRely /\ (HandleInv => HandleInv')
BY DEF HandleRely, HandleInv, SameHandle

\* A caller goes on with its own call, or ends it.
LEMMA QuietStep ==
    ASSUME Inv, NEW c \in Callers, NEW t \in Call \cup {Idle},
           calls' = [calls EXCEPT ![c] = t], CallOK(c)',
           UNCHANGED <<now, sessions, leases, drawn, handles, granted, writer>>
    PROVE  Step({c})
<1>1. TypeOK'
  BY DEF Inv, TypeOK
<1>2. \A d \in Callers \ {c} : calls'[d] = calls[d]
  BY DEF Inv, TypeOK
<1>3. now <= now'
  BY RedisAssumption DEF Inv, TypeOK
<1> QED
  BY <1>1, <1>2, <1>3, QuietRows, QuietHandles DEF Step, KeptCall, Inv

\* A call that begins has read nothing yet.
LEMMA BeginStep ==
    ASSUME Inv, NEW c \in Callers, NEW t \in Call, t.step = "called", Begin(c, t),
           CallInv(c)'
    PROVE  Step({c})
<1>1. calls'[c] = t
  BY DEF Begin, Inv, TypeOK
<1>2. CallOK(c)'
  BY <1>1 DEF CallOK, Watching
<1> QED
  BY <1>2, QuietStep DEF Begin

LEMMA NewCalls ==
    ASSUME NEW op \in Operations, NEW id \in Ids, NEW t, t = NewCall(op, id)
    PROVE  /\ t \in Call
           /\ t.op = op /\ t.id = id /\ t.step = "called" /\ t.owner = 0 /\ t.expected = 0
BY RedisAssumption DEF NewCall, Call

\* sessionTTL: the time to live reaches the deadline, and is not zero.
LEMMA WritingCalls ==
    ASSUME Inv, NEW op \in Writes, NEW id \in Ids, NEW v \in 0..MaxVersion - 1,
           NEW item \in Items(v + 1), NEW u, u = Writing(NewCall(op, id), item)
    PROVE  /\ u \in Call
           /\ u.op = op /\ u.id = id /\ u.step = "called" /\ u.owner = 0 /\ u.expected = 0
           /\ u.item = item /\ item \in Item /\ item.version = v + 1
           /\ u.ttl > 0 /\ now + u.ttl >= item.deadline
<1>1. /\ item \in Item /\ item.version = v + 1 /\ item.deadline \in Nat
      /\ item.deadline > now /\ now \in Nat
  <2>1. item \in Item /\ item.version = v + 1 /\ item.deadline > now
    BY DEF Items
  <2>2. item.deadline \in Nat
    BY <2>1, Numbers DEF Item
  <2>3. now \in Nat
    BY Numbers DEF Inv, TypeOK
  <2> QED
    BY <2>1, <2>2, <2>3
<1>2. PICK n \in Nat : n = item.deadline - now /\ n > 0 /\ now + n >= item.deadline
  BY <1>1
<1>3. op \in Operations
  BY DEF Writes, Operations
<1>4. PICK w : w = NewCall(op, id)
  OBVIOUS
<1>5. w \in Call /\ w.op = op /\ w.id = id /\ w.step = "called" /\ w.owner = 0 /\ w.expected = 0
  BY <1>3, <1>4, NewCalls
<1>6. u = [w EXCEPT !.item = item, !.ttl = n]
  BY <1>2, <1>4 DEF Writing
<1>7. u \in Call
  BY <1>1, <1>5, <1>6 DEF Call
<1>8. /\ u.op = op /\ u.id = id /\ u.step = "called" /\ u.owner = 0 /\ u.expected = 0
      /\ u.item = item /\ u.ttl = n
  BY <1>5, <1>6 DEF Call
<1> QED
  BY <1>1, <1>2, <1>7, <1>8

LEMMA PresentedOwner ==
    ASSUME NEW o, NEW id, Presents(o, id)
    PROVE  handles[o] # NoHandle /\ handles[o].id = id
BY DEF Presents

LEMMA CallCreateStep ==
    ASSUME Inv, NEW c \in Callers, NEW id \in Ids, CallCreate(c, id)
    PROVE  Step({c})
<1>1. PICK item \in Items(1) : Begin(c, Writing(NewCall("create", id), item))
  BY DEF CallCreate
<1>2. PICK t : t = Writing(NewCall("create", id), item)
  OBVIOUS
<1>3. item \in Items(0 + 1) /\ 0 \in 0..MaxVersion - 1 /\ "create" \in Writes
  BY RedisAssumption DEF Writes
<1>4. /\ t \in Call
      /\ t.op = "create" /\ t.step = "called" /\ t.owner = 0 /\ t.expected = 0
      /\ t.item = item /\ item \in Item /\ item.version = 0 + 1
      /\ t.ttl > 0 /\ now + t.ttl >= item.deadline
  BY <1>2, <1>3, WritingCalls
<1>5. calls'[c] = t /\ now' = now
  BY <1>1, <1>2, <1>4 DEF Begin, Inv, TypeOK
<1>6. CallInv(c)'
  BY <1>4, <1>5 DEF CallInv, LeaseCalls
<1> QED
  BY <1>1, <1>2, <1>4, <1>6, BeginStep

LEMMA CallSwapStep ==
    ASSUME Inv, NEW c \in Callers, NEW id \in Ids, CallSwap(c, id)
    PROVE  Step({c})
<1>1. PICK v \in 1..MaxVersion-1 : \E item \in Items(v + 1) :
        Begin(c, [Writing(NewCall("swap", id), item) EXCEPT !.expected = v])
  BY DEF CallSwap
<1>2. PICK item \in Items(v + 1) :
        Begin(c, [Writing(NewCall("swap", id), item) EXCEPT !.expected = v])
  BY <1>1
<1>3. PICK u : u = Writing(NewCall("swap", id), item)
  OBVIOUS
<1>4. PICK t : t = [u EXCEPT !.expected = v]
  OBVIOUS
<1>5. v \in 0..MaxVersion - 1 /\ v \in 0..MaxVersion /\ "swap" \in Writes
  BY RedisAssumption DEF Writes
<1>6. /\ u \in Call
      /\ u.op = "swap" /\ u.step = "called" /\ u.owner = 0
      /\ u.item = item /\ item \in Item /\ item.version = v + 1
      /\ u.ttl > 0 /\ now + u.ttl >= item.deadline
  BY <1>3, <1>5, WritingCalls
<1>7. /\ t \in Call /\ t.op = u.op /\ t.step = u.step /\ t.owner = u.owner
      /\ t.item = u.item /\ t.ttl = u.ttl /\ t.expected = v
  BY <1>4, <1>5, <1>6 DEF Call
<1>8. calls'[c] = t /\ now' = now
  BY <1>2, <1>3, <1>4, <1>7 DEF Begin, Inv, TypeOK
<1>9. CallInv(c)'
  BY <1>6, <1>7, <1>8 DEF CallInv, LeaseCalls
<1> QED
  BY <1>2, <1>3, <1>4, <1>6, <1>7, <1>9, BeginStep

LEMMA CallLeaseSwapStep ==
    ASSUME Inv, NEW c \in Callers, NEW id \in Ids, CallLeaseSwap(c, id)
    PROVE  Step({c})
<1>1. PICK o \in Tokens, v \in 1..MaxVersion-1 : \E item \in Items(v + 1) :
        /\ Presents(o, id)
        /\ Begin(c, [Writing(NewCall("leaseSwap", id), item)
                        EXCEPT !.expected = v, !.owner = o])
  BY DEF CallLeaseSwap
<1>2. PICK item \in Items(v + 1) :
        /\ Presents(o, id)
        /\ Begin(c, [Writing(NewCall("leaseSwap", id), item)
                        EXCEPT !.expected = v, !.owner = o])
  BY <1>1
<1>3. PICK u : u = Writing(NewCall("leaseSwap", id), item)
  OBVIOUS
<1>4. PICK t : t = [u EXCEPT !.expected = v, !.owner = o]
  OBVIOUS
<1>5. v \in 0..MaxVersion - 1 /\ v \in 0..MaxVersion /\ o \in 0..MaxToken /\ "leaseSwap" \in Writes
  BY RedisAssumption DEF Tokens, Writes
<1>6. /\ u \in Call
      /\ u.op = "leaseSwap" /\ u.id = id /\ u.step = "called"
      /\ u.item = item /\ item \in Item /\ item.version = v + 1
      /\ u.ttl > 0 /\ now + u.ttl >= item.deadline
  BY <1>3, <1>5, WritingCalls
<1>7. /\ t \in Call /\ t.op = u.op /\ t.id = u.id /\ t.step = u.step /\ t.owner = o
      /\ t.item = u.item /\ t.ttl = u.ttl /\ t.expected = v
  BY <1>4, <1>5, <1>6 DEF Call
<1>8. calls'[c] = t /\ now' = now /\ handles' = handles
  BY <1>2, <1>3, <1>4, <1>7 DEF Begin, Inv, TypeOK
<1>9. CallInv(c)'
  BY <1>2, <1>6, <1>7, <1>8, PresentedOwner DEF CallInv, LeaseCalls
<1> QED
  BY <1>2, <1>3, <1>4, <1>6, <1>7, <1>9, BeginStep

LEMMA CallLeaseDeleteStep ==
    ASSUME Inv, NEW c \in Callers, NEW id \in Ids, CallLeaseDelete(c, id)
    PROVE  Step({c})
<1>1. PICK o \in Tokens, v \in 1..MaxVersion :
        /\ Presents(o, id)
        /\ Begin(c, [NewCall("leaseDelete", id) EXCEPT !.expected = v, !.owner = o])
  BY DEF CallLeaseDelete
<1>2. PICK u : u = NewCall("leaseDelete", id)
  OBVIOUS
<1>3. PICK t : t = [u EXCEPT !.expected = v, !.owner = o]
  OBVIOUS
<1>4. u \in Call /\ u.op = "leaseDelete" /\ u.id = id /\ u.step = "called"
  BY <1>2, NewCalls DEF Operations
<1>5. v \in 0..MaxVersion /\ o \in 0..MaxToken
  BY RedisAssumption DEF Tokens
<1>6. t \in Call /\ t.op = "leaseDelete" /\ t.id = id /\ t.step = "called" /\ t.owner = o
  BY <1>3, <1>4, <1>5 DEF Call
<1>7. calls'[c] = t /\ handles' = handles
  BY <1>1, <1>2, <1>3, <1>6 DEF Begin, Inv, TypeOK
<1>8. CallInv(c)'
  BY <1>1, <1>6, <1>7, PresentedOwner DEF CallInv, LeaseCalls, Writes
<1> QED
  BY <1>1, <1>2, <1>3, <1>6, <1>8, BeginStep

LEMMA CallReleaseStep ==
    ASSUME Inv, NEW c \in Callers, NEW id \in Ids, CallRelease(c, id)
    PROVE  Step({c})
<1>1. PICK o \in Tokens :
        Presents(o, id) /\ Begin(c, [NewCall("release", id) EXCEPT !.owner = o])
  BY DEF CallRelease
<1>2. PICK u : u = NewCall("release", id)
  OBVIOUS
<1>3. PICK t : t = [u EXCEPT !.owner = o]
  OBVIOUS
<1>4. u \in Call /\ u.op = "release" /\ u.id = id /\ u.step = "called"
  BY <1>2, NewCalls DEF Operations
<1>5. o \in 0..MaxToken
  BY RedisAssumption DEF Tokens
<1>6. t \in Call /\ t.op = "release" /\ t.id = id /\ t.step = "called" /\ t.owner = o
  BY <1>3, <1>4, <1>5 DEF Call
<1>7. calls'[c] = t /\ handles' = handles
  BY <1>1, <1>2, <1>3, <1>6 DEF Begin, Inv, TypeOK
<1>8. CallInv(c)'
  BY <1>1, <1>6, <1>7, PresentedOwner DEF CallInv, LeaseCalls, Writes
<1> QED
  BY <1>1, <1>2, <1>3, <1>6, <1>8, BeginStep

LEMMA CallAcquireStep ==
    ASSUME Inv, NEW c \in Callers, NEW id \in Ids, CallAcquire(c, id)
    PROVE  Step({c})
<1>1. PICK t : t = NewCall("acquire", id)
  OBVIOUS
<1>2. t \in Call /\ t.op = "acquire" /\ t.step = "called" /\ t.owner = 0
  BY <1>1, NewCalls DEF Operations
<1>3. calls'[c] = t
  BY <1>1, <1>2 DEF CallAcquire, Begin, Inv, TypeOK
<1>4. CallInv(c)'
  BY <1>2, <1>3 DEF CallInv, LeaseCalls, Writes
<1> QED
  BY <1>1, <1>2, <1>4, BeginStep DEF CallAcquire

LEMMA CallGetStep ==
    ASSUME Inv, NEW c \in Callers, NEW id \in Ids, CallGet(c, id)
    PROVE  Step({c})
<1>1. PICK u : u = NewCall("get", id)
  OBVIOUS
<1>2. PICK t : t = [u EXCEPT !.item = sessions[id]]
  OBVIOUS
<1>3. u \in Call /\ u.op = "get" /\ u.step = "called" /\ u.owner = 0
  BY <1>1, NewCalls DEF Operations
<1>4. sessions[id] \in SessionRow
  BY DEF CallGet, Stored, Inv, TypeOK
<1>5. t \in Call /\ t.op = "get" /\ t.step = "called" /\ t.owner = 0
  BY <1>2, <1>3, <1>4 DEF Call
<1>6. calls'[c] = t
  BY <1>1, <1>2, <1>5 DEF CallGet, Begin, Inv, TypeOK
<1>7. CallInv(c)'
  BY <1>5, <1>6 DEF CallInv, LeaseCalls, Writes
<1> QED
  BY <1>1, <1>2, <1>5, <1>7, BeginStep DEF CallGet

LEMMA GiveUpStep ==
    ASSUME Inv, NEW c \in Callers, GiveUp(c)
    PROVE  Step({c})
<1>1. CallOK(c)'
  BY DEF GiveUp, CallOK, Inv, TypeOK
<1> QED
  BY <1>1, QuietStep DEF GiveUp

-----------------------------------------------------------------------------
\* Read: the verdict names what was read.

LEMMA Verdicts ==
    ASSUME Inv, NEW c \in Callers, NEW t \in Call, NEW verdict, verdict = Verdict(c, t)
    PROVE  /\ verdict = "write" /\ t.op = "create" /\ Stored(t.id) =>
                Readable(c, t.id) /\ Expired(t.id)
           /\ t.op \in {"create", "release"} => verdict # "purge"
           /\ t.op = "get" => verdict # "write"
           /\ verdict = "write" /\ t.op \in {"swap", "leaseSwap", "leaseDelete"} =>
                /\ Stored(t.id) /\ Readable(c, t.id)
                /\ sessions[t.id].item.version = t.expected
           /\ verdict = "write" /\ t.op = "acquire" =>
                Stored(t.id) /\ leases[t.id] = NoLease /\ sessions[t.id].lastFence # MaxFence
           /\ verdict = "write" /\ t.op \in LeaseCalls => OwnsLease(t.owner)
<1>1. CASE t.op = "create"
  BY <1>1 DEF Verdict, LeaseCalls
<1>2. CASE t.op = "get"
  BY <1>2 DEF Verdict, LeaseCalls
<1>3. CASE t.op = "swap"
  BY <1>3 DEF Verdict, LeaseCalls, LookUp, IfCurrent
<1>4. CASE t.op \in {"leaseSwap", "leaseDelete"}
  BY <1>4 DEF Verdict, LeaseCalls, LookUp, IfCurrent
<1>5. CASE t.op = "acquire"
  BY <1>5 DEF Verdict, LeaseCalls, LookUp
<1>6. CASE t.op = "release"
  BY <1>6 DEF Verdict, LeaseCalls
<1> QED
  BY <1>1, <1>2, <1>3, <1>4, <1>5, <1>6 DEF Call, Operations

LEMMA LeaseLives ==
    ASSUME Inv, NEW id \in Ids, Stored(id)
    PROVE  LeaseLife(id) \in Nat /\ LeaseLife(id) > 0
<1>1. sessions[id].until \in Nat /\ sessions[id].until > now /\ now \in Nat
  BY RedisAssumption DEF Inv, TypeOK, RowInv, Stored, SessionRow
<1> QED
  BY <1>1, RedisAssumption DEF LeaseLife

LEMMA ReadStep ==
    ASSUME Inv, NEW c \in Callers, Read(c)
    PROVE  Step({c})
<1>1. PICK t \in Call : t = calls[c] /\ CallInv(c)
  BY DEF Read, Inv, TypeOK, CallOK
<1>2. PICK verdict : verdict = Verdict(c, t)
  OBVIOUS
<1> DEFINE ttl  == IF t.op = "acquire" /\ verdict = "write" THEN LeaseLife(t.id) ELSE t.ttl
           seen == [t EXCEPT !.step = "watching", !.expired = (verdict = "purge"), !.ttl = ttl]
<1>3. CASE verdict \notin {"write", "purge"}
  <2>1. calls' = [calls EXCEPT ![c] = Idle]
    BY <1>1, <1>2, <1>3 DEF Read
  <2>2. CallOK(c)'
    BY <2>1 DEF CallOK, Inv, TypeOK
  <2> QED
    BY <2>1, <2>2, QuietStep DEF Read
<1>4. CASE verdict \in {"write", "purge"}
  <2>1. calls' = [calls EXCEPT ![c] = seen]
    BY <1>1, <1>2, <1>4 DEF Read
  <2>2. /\ verdict = "write" /\ t.op = "create" /\ Stored(t.id) =>
                Readable(c, t.id) /\ Expired(t.id)
        /\ t.op \in {"create", "release"} => verdict # "purge"
        /\ t.op = "get" => verdict # "write"
        /\ verdict = "write" /\ t.op \in {"swap", "leaseSwap", "leaseDelete"} =>
                /\ Stored(t.id) /\ Readable(c, t.id)
                /\ sessions[t.id].item.version = t.expected
        /\ verdict = "write" /\ t.op = "acquire" =>
                Stored(t.id) /\ leases[t.id] = NoLease /\ sessions[t.id].lastFence # MaxFence
        /\ verdict = "write" /\ t.op \in LeaseCalls => OwnsLease(t.owner)
    BY <1>2, Verdicts
  <2>3. t.id \in Ids /\ t.ttl \in Nat
    BY DEF Call
  <2>4. ttl \in Nat /\ (t.op = "acquire" /\ verdict = "write" => ttl > 0)
        /\ (t.op # "acquire" => ttl = t.ttl)
    BY <2>2, <2>3, LeaseLives
  <2> HIDE DEF ttl
  <2>5. seen \in Call
    BY <2>4 DEF Call
  <2>6. /\ seen.op = t.op /\ seen.id = t.id /\ seen.item = t.item /\ seen.owner = t.owner
        /\ seen.expected = t.expected /\ seen.ttl = ttl
        /\ (seen.expired <=> verdict = "purge")
    BY DEF Call
  <2> HIDE DEF seen
  <2>7. calls'[c] = seen
    BY <2>1 DEF Inv, TypeOK
  <2>8. CallInv(c)'
    BY <1>1, <2>4, <2>6, <2>7 DEF CallInv, Writes, Read
  <2>9. t.op = "acquire" /\ verdict = "write" => sessions[t.id].lastFence < MaxFence
    <3>1. Stored(t.id) => sessions[t.id].lastFence \in 0..MaxFence
      BY <2>3 DEF Inv, TypeOK, Stored, SessionRow
    <3> QED
      BY <2>2, <3>1, RedisAssumption
  <2>10. ReadInv(c)'
    BY <1>4, <2>2, <2>4, <2>6, <2>7, <2>9
       DEF ReadInv, Read, Stored, Readable, Expired, OwnsLease
  <2> QED
    BY <2>1, <2>5, <2>8, <2>10, QuietStep DEF Read, CallOK
<1> QED
  BY <1>3, <1>4

-----------------------------------------------------------------------------
\* Steps that touch the keys of some sessions.

LEMMA TouchingType ==
    ASSUME NEW ids \in SUBSET Ids, NEW cs \in [Callers -> Call \cup {Idle}]
    PROVE  /\ Touching(ids, cs) \in [Callers -> Call \cup {Idle}]
           /\ \A d \in Callers :
                /\ cs[d] = Idle => Touching(ids, cs)[d] = Idle
                /\ cs[d] # Idle =>
                    \/ Touching(ids, cs)[d] = cs[d] /\ (cs[d].step # "watching" \/ cs[d].id \notin ids)
                    \/ Touching(ids, cs)[d] = Spoilt(cs[d])
<1>1. \A d \in Callers : cs[d] # Idle => cs[d] \in Call /\ Spoilt(cs[d]) \in Call
  BY SpoiltCall
<1> QED
  BY <1>1 DEF Touching, Spoilt

\* What is left of the ids' keys is nothing, or what it was.
LEMMA GoneRows ==
    ASSUME Inv, TypeOK', now' \in Nat, now <= now', UNCHANGED <<drawn, granted>>,
           \A id \in Ids : \/ sessions'[id] = NoSession
                           \/ sessions'[id] = sessions[id] /\ (Stored(id) => sessions[id].until > now'),
           \A id \in Ids : \/ leases'[id] = NoLease
                           \/ leases'[id] = leases[id] /\ (leases[id] # NoLease => leases[id].until > now')
    PROVE  RowInv' /\ RowRely
<1>1. RowInv'
  BY DEF Inv, RowInv, Stored
<1>2. RowRely
  BY DEF RowRely, ReplacedByReader, Stored
<1> QED
  BY <1>1, <1>2

\* Nobody's row but those of ids has changed, and their watchers are told.
LEMMA TouchedCalls ==
    ASSUME Inv, NEW ids \in SUBSET Ids, calls' = Touching(ids, calls),
           \A id \in Ids \ ids : sessions'[id] = sessions[id] /\ leases'[id] = leases[id]
    PROVE  /\ calls' \in [Callers -> Call \cup {Idle}]
           /\ \A d \in Callers : calls'[d] = Idle \/ (calls[d] # Idle /\ KeptCall(d))
<1>1. calls \in [Callers -> Call \cup {Idle}]
  BY DEF Inv, TypeOK
<1>2. \A d \in Callers : calls[d] # Idle => calls[d].id \in Ids
  BY <1>1 DEF Call
<1> QED
  BY <1>1, <1>2, TouchingType DEF KeptCall, Watching

LEMMA DeleteStep ==
    ASSUME Inv, NEW id \in Ids, Delete(id)
    PROVE  Step({})
<1>1. /\ \A i \in Ids \ {id} : sessions'[i] = sessions[i] /\ leases'[i] = leases[i]
      /\ sessions'[id] = NoSession /\ leases'[id] = NoLease
      /\ sessions' \in [Ids -> SessionRow \cup {NoSession}]
      /\ leases' \in [Ids -> LeaseRow \cup {NoLease}]
  BY DEF Delete, Remove, Inv, TypeOK
<1>2. /\ calls' \in [Callers -> Call \cup {Idle}]
      /\ \A d \in Callers : calls'[d] = Idle \/ (calls[d] # Idle /\ KeptCall(d))
  BY <1>1, TouchedCalls DEF Delete
<1>3. TypeOK'
  BY <1>1, <1>2 DEF Delete, Inv, TypeOK
<1>4. now \in Nat /\ now' = now
  BY Numbers DEF Delete, Inv, TypeOK
<1>5. RowInv' /\ RowRely
  BY <1>1, <1>3, <1>4, GoneRows DEF Delete, Inv, RowInv
<1> QED
  BY <1>2, <1>3, <1>4, <1>5, QuietHandles DEF Step, Delete, Inv

LEMMA TickStep ==
    ASSUME Inv, Tick
    PROVE  Step({})
<1> DEFINE gone   == {id \in Ids : Stored(id) /\ sessions[id].until <= now + 1}
           lapsed == {id \in Ids : leases[id] # NoLease /\ leases[id].until <= now + 1}
<1>1. /\ sessions' = [id \in Ids |-> IF id \in gone THEN NoSession ELSE sessions[id]]
      /\ leases' = [id \in Ids |-> IF id \in lapsed THEN NoLease ELSE leases[id]]
      /\ calls' = Touching(gone \cup lapsed, calls)
  BY DEF Tick, Stored
<1>2. now \in Nat /\ now' = now + 1 /\ now' \in 0..Horizon
  BY Numbers DEF Tick, Inv, TypeOK
<1>3. \A id \in Ids \ (gone \cup lapsed) : sessions'[id] = sessions[id] /\ leases'[id] = leases[id]
  BY <1>1
<1>4. gone \cup lapsed \in SUBSET Ids
  OBVIOUS
<1>5. /\ sessions' \in [Ids -> SessionRow \cup {NoSession}]
      /\ leases' \in [Ids -> LeaseRow \cup {NoLease}]
  BY <1>1 DEF Inv, TypeOK
<1>6. /\ \A id \in Ids : Stored(id) => sessions[id].until \in Nat
      /\ \A id \in Ids : leases[id] # NoLease => leases[id].until \in Nat
  BY DEF Inv, TypeOK, Stored, SessionRow, LeaseRow
<1>7. /\ \A id \in Ids : \/ sessions'[id] = NoSession
                         \/ sessions'[id] = sessions[id] /\ (Stored(id) => sessions[id].until > now')
      /\ \A id \in Ids : \/ leases'[id] = NoLease
                         \/ leases'[id] = leases[id] /\ (leases[id] # NoLease => leases[id].until > now')
  BY <1>1, <1>2, <1>6
<1>8. /\ calls' \in [Callers -> Call \cup {Idle}]
      /\ \A d \in Callers : calls'[d] = Idle \/ (calls[d] # Idle /\ KeptCall(d))
  <2> HIDE DEF gone, lapsed
  <2> QED
    BY <1>1, <1>3, <1>4, TouchedCalls
<1>9. TypeOK'
  BY <1>2, <1>5, <1>8 DEF Tick, Inv, TypeOK
<1>10. RowInv' /\ RowRely
  BY <1>2, <1>7, <1>9, GoneRows DEF Tick
<1> QED
  BY <1>2, <1>8, <1>9, <1>10, QuietHandles DEF Step, Tick, Inv

\* A handle changes its state, and nothing else about it.
LEMMA MarkedHandle ==
    ASSUME Inv, NEW o \in Tokens, handles[o] # NoHandle,
           NEW st \in {"held", "consumed", "acked"},
           handles' = [handles EXCEPT ![o].state = st],
           granted \subseteq granted'
    PROVE  handles' \in [Tokens -> Handle \cup {NoHandle}] /\ HandleRely /\ HandleInv'
<1>1. PICK h : h = [handles[o] EXCEPT !.state = st]
  OBVIOUS
<1>2. handles[o] \in Handle
  BY DEF Inv, TypeOK
<1>3. /\ h \in Handle /\ h # NoHandle
      /\ h.id = handles[o].id /\ h.fence = handles[o].fence
      /\ h.generation = handles[o].generation
  BY <1>1, <1>2, RedisAssumption DEF Handle
<1>4. handles' = [handles EXCEPT ![o] = h]
  BY <1>1
<1>5. handles' \in [Tokens -> Handle \cup {NoHandle}]
  BY <1>3, <1>4 DEF Inv, TypeOK
<1>6. /\ handles'[o] = h
      /\ \A p \in Tokens \ {o} : handles'[p] = handles[p]
  BY <1>4 DEF Inv, TypeOK
<1> QED
  BY <1>3, <1>5, <1>6 DEF HandleRely, SameHandle, HandleInv, Inv

LEMMA AcknowledgeStep ==
    ASSUME Inv, NEW o \in Tokens, AcknowledgeRelease(o)
    PROVE  Step({})
<1>1. handles' \in [Tokens -> Handle \cup {NoHandle}] /\ HandleRely /\ HandleInv'
  BY MarkedHandle DEF AcknowledgeRelease
<1>2. TypeOK'
  BY <1>1 DEF AcknowledgeRelease, Inv, TypeOK
<1>3. now <= now'
  BY Numbers DEF AcknowledgeRelease, Inv, TypeOK
<1> QED
  BY <1>1, <1>2, <1>3, QuietRows DEF Step, KeptCall, AcknowledgeRelease, Inv

-----------------------------------------------------------------------------
\* EXEC: what each transaction does to the server.

StoreStep(id) ==
    /\ drawn' \in 0..MaxToken /\ granted' \subseteq Tokens
    /\ sessions' \in [Ids -> SessionRow \cup {NoSession}]
    /\ leases' \in [Ids -> LeaseRow \cup {NoLease}]
    /\ writer' \in [Ids -> 0..MaxToken]
    /\ granted \subseteq granted'
    /\ RowInv' /\ RowRely
    /\ \A i \in Ids \ {id} : sessions'[i] = sessions[i] /\ leases'[i] = leases[i]

LEMMA ApplyRemovalStep ==
    ASSUME Inv, NEW t \in Call, ApplyRemoval(t), UNCHANGED now
    PROVE  StoreStep(t.id)
<1>1. PICK id \in Ids : id = t.id
  BY DEF Call
<1>2. /\ \A i \in Ids \ {id} : sessions'[i] = sessions[i] /\ leases'[i] = leases[i]
      /\ sessions'[id] = NoSession /\ leases'[id] = NoLease
      /\ sessions' \in [Ids -> SessionRow \cup {NoSession}]
      /\ leases' \in [Ids -> LeaseRow \cup {NoLease}]
  BY <1>1 DEF ApplyRemoval, Remove, Inv, TypeOK
<1>3. RowInv'
  BY <1>2 DEF ApplyRemoval, Inv, RowInv, Stored
<1>4. RowRely
  BY <1>2 DEF RowRely, ReplacedByReader, Stored
<1> QED
  BY <1>1, <1>2, <1>3, <1>4 DEF StoreStep, ApplyRemoval, Inv, TypeOK

LEMMA ApplyReleaseStep ==
    ASSUME Inv, NEW t \in Call, ApplyRelease(t), UNCHANGED now
    PROVE  StoreStep(t.id)
<1>1. PICK id \in Ids : id = t.id
  BY DEF Call
<1>2. /\ \A i \in Ids \ {id} : leases'[i] = leases[i]
      /\ leases'[id] = NoLease /\ sessions' = sessions
      /\ leases' \in [Ids -> LeaseRow \cup {NoLease}]
  BY <1>1 DEF ApplyRelease, Inv, TypeOK
<1>3. RowInv'
  BY <1>2 DEF ApplyRelease, Inv, RowInv, Stored
<1>4. RowRely
  BY <1>2 DEF RowRely, ReplacedByReader, Stored
<1> QED
  BY <1>1, <1>2, <1>3, <1>4 DEF StoreStep, ApplyRelease, Inv, TypeOK

\* A session that is written again lives until its deadline at least, and was
\* readable to the process that wrote it.
LEMMA WrittenRow ==
    ASSUME Inv, NEW c \in Callers, NEW id \in Ids, NEW s \in SessionRow,
           sessions' = [sessions EXCEPT ![id] = s],
           s.until > now, s.until >= s.item.deadline, s.sealed = Primary[c],
           Stored(id) => Readable(c, id),
           leases' \in [Ids -> LeaseRow \cup {NoLease}],
           \A i \in Ids \ {id} : leases'[i] = leases[i],
           leases'[id] \in {leases[id], NoLease},
           leases'[id] # NoLease => Stored(id) /\ s.generation = sessions[id].generation,
           UNCHANGED <<now, granted>>, drawn' \in {drawn, drawn + 1}
    PROVE  RowInv' /\ RowRely
<1>1. /\ sessions'[id] = s /\ s # NoSession
      /\ \A i \in Ids \ {id} : sessions'[i] = sessions[i]
  BY RedisAssumption DEF Inv, TypeOK
<1>2. 1..drawn \subseteq 1..drawn'
  BY Numbers DEF Inv, TypeOK
<1>3. RowInv'
  BY <1>1, <1>2 DEF Inv, RowInv, Stored
<1>4. ReplacedByReader
  BY <1>1 DEF ReplacedByReader, Stored, Readable
<1> QED
  BY <1>1, <1>3, <1>4 DEF RowRely, Stored

LEMMA ApplyCreateStep ==
    ASSUME Inv, NEW c \in Callers, NEW t \in Call, t = calls[c], CallInv(c), ReadInv(c),
           ApplyCreate(c, t), UNCHANGED now
    PROVE  StoreStep(t.id)
<1>1. PICK id \in Ids : id = t.id
  BY DEF Call
<1>2. /\ now \in Nat /\ drawn \in Nat /\ drawn + 1 \in Tokens /\ drawn' = drawn + 1
      /\ drawn' \in 0..MaxToken
  BY Numbers DEF ApplyCreate, Inv, TypeOK, Tokens
<1>3. t.op \in Writes /\ t.ttl \in Nat
  BY DEF ApplyCreate, Writes, Call
<1>4. t.item \in Item /\ now + t.ttl > now /\ now + t.ttl >= t.item.deadline /\ now + t.ttl \in Nat
  BY <1>2, <1>3 DEF CallInv
<1>5. PICK s : s = [item |-> t.item, sealed |-> Primary[c], generation |-> drawn + 1,
                    lastFence |-> 0, until |-> now + t.ttl]
  OBVIOUS
<1>6. s \in SessionRow
  BY <1>2, <1>4, <1>5, Numbers DEF SessionRow
<1>7. s.until = now + t.ttl /\ s.item = t.item /\ s.sealed = Primary[c]
  BY <1>5
<1>8. /\ sessions' = [sessions EXCEPT ![id] = s]
      /\ leases' = [leases EXCEPT ![id] = NoLease]
      /\ writer' = [writer EXCEPT ![id] = 0]
      /\ UNCHANGED granted
  BY <1>1, <1>5 DEF ApplyCreate
<1>9. Stored(id) => Readable(c, id)
  BY <1>1 DEF ReadInv, ApplyCreate
<1>10. /\ leases' \in [Ids -> LeaseRow \cup {NoLease}]
       /\ \A i \in Ids \ {id} : leases'[i] = leases[i]
       /\ leases'[id] = NoLease
       /\ sessions' \in [Ids -> SessionRow \cup {NoSession}]
       /\ \A i \in Ids \ {id} : sessions'[i] = sessions[i]
       /\ writer' \in [Ids -> 0..MaxToken]
  BY <1>6, <1>8, Numbers DEF Inv, TypeOK
<1>11. RowInv' /\ RowRely
  <2>1. s.until > now /\ s.until >= s.item.deadline
    BY <1>4, <1>7
  <2>2. leases'[id] \in {leases[id], NoLease} /\ ~(leases'[id] # NoLease)
    BY <1>10
  <2> QED
    BY <1>2, <1>6, <1>7, <1>8, <1>9, <1>10, <2>1, <2>2, WrittenRow
<1> QED
  BY <1>1, <1>2, <1>8, <1>10, <1>11 DEF StoreStep, Inv, TypeOK

LEMMA ApplySwapStep ==
    ASSUME Inv, NEW c \in Callers, NEW t \in Call, t = calls[c], CallInv(c), ReadInv(c),
           ApplySwap(c, t), UNCHANGED now
    PROVE  StoreStep(t.id)
<1>1. PICK id \in Ids : id = t.id
  BY DEF Call
<1>2. now \in Nat /\ drawn' = drawn
  BY Numbers DEF ApplySwap, Inv, TypeOK
<1>3. t.op \in Writes /\ t.ttl \in Nat /\ t.owner \in 0..MaxToken
  BY DEF ApplySwap, Writes, Call
<1>4. t.item \in Item /\ now + t.ttl > now /\ now + t.ttl >= t.item.deadline /\ now + t.ttl \in Nat
  BY <1>2, <1>3 DEF CallInv
<1>5. Stored(id) /\ Readable(c, id)
  BY <1>1 DEF ReadInv, ApplySwap
<1>6. sessions[id] \in SessionRow
  BY <1>5 DEF Stored, Inv, TypeOK
<1>7. PICK s : s = [sessions[id] EXCEPT !.item = t.item, !.sealed = Primary[c],
                                        !.until = now + t.ttl]
  OBVIOUS
<1>8. s \in SessionRow /\ s.generation = sessions[id].generation
  BY <1>4, <1>6, <1>7 DEF SessionRow
<1>9. s.until = now + t.ttl /\ s.item = t.item /\ s.sealed = Primary[c]
  BY <1>6, <1>7 DEF SessionRow
<1>10. /\ sessions' = [sessions EXCEPT ![id] = s]
       /\ leases' = leases \/ leases' = [leases EXCEPT ![id] = NoLease]
       /\ writer' = [writer EXCEPT ![id] = t.owner]
       /\ UNCHANGED granted
  <2>1. sessions' = [sessions EXCEPT ![id] = s]
    BY <1>1, <1>7 DEF ApplySwap, Inv, TypeOK
  <2> QED
    BY <1>1, <2>1 DEF ApplySwap
<1>11. /\ leases' \in [Ids -> LeaseRow \cup {NoLease}]
       /\ \A i \in Ids \ {id} : leases'[i] = leases[i]
       /\ leases'[id] \in {leases[id], NoLease}
       /\ sessions' \in [Ids -> SessionRow \cup {NoSession}]
       /\ \A i \in Ids \ {id} : sessions'[i] = sessions[i]
       /\ writer' \in [Ids -> 0..MaxToken]
  BY <1>3, <1>8, <1>10 DEF Inv, TypeOK
<1>12. RowInv' /\ RowRely
  BY <1>2, <1>4, <1>5, <1>8, <1>9, <1>10, <1>11, WrittenRow
<1> QED
  BY <1>1, <1>2, <1>10, <1>11, <1>12 DEF StoreStep, Inv, TypeOK

LEMMA ApplyAcquireStep ==
    ASSUME Inv, NEW c \in Callers, NEW t \in Call, t = calls[c], ReadInv(c),
           ApplyAcquire(t), UNCHANGED now
    PROVE  StoreStep(t.id)
<1>1. PICK id \in Ids : id = t.id
  BY DEF Call
<1>2. /\ now \in Nat /\ drawn \in Nat /\ drawn + 1 \in Tokens /\ drawn' = drawn + 1
      /\ drawn' \in 0..MaxToken
  BY Numbers DEF ApplyAcquire, Inv, TypeOK, Tokens
<1>3. Stored(id) /\ leases[id] = NoLease /\ sessions[id].lastFence < MaxFence /\ t.ttl > 0
  BY <1>1 DEF ReadInv, ApplyAcquire
<1>4. sessions[id] \in SessionRow /\ t.ttl \in Nat
  BY <1>3 DEF Stored, Inv, TypeOK, Call
<1>5. sessions[id].lastFence \in 0..MaxFence /\ sessions[id].generation \in Tokens
  BY <1>4 DEF SessionRow
<1>6. PICK f \in 1..MaxFence : f = Fence(id)
  BY <1>3, <1>5, Numbers DEF Fence
<1>7. PICK u \in Nat : u = now + t.ttl /\ u > now
  BY <1>2, <1>3, <1>4
<1>8. PICK s : s = [sessions[id] EXCEPT !.lastFence = f]
  OBVIOUS
<1>9. f \in 0..MaxFence
  BY Numbers
<1>10. /\ s \in SessionRow /\ s.generation = sessions[id].generation
       /\ s.until = sessions[id].until /\ s.item = sessions[id].item
  BY <1>4, <1>8, <1>9 DEF SessionRow
<1>11. PICK l : l = [owner |-> drawn + 1, fence |-> f,
                     generation |-> sessions[id].generation, until |-> u]
  OBVIOUS
<1>12. l \in LeaseRow /\ l # NoLease
  BY <1>2, <1>5, <1>11, RedisAssumption DEF LeaseRow
<1>13. l.owner = drawn + 1 /\ l.until > now
  BY <1>7, <1>11
<1>14. /\ sessions' = [sessions EXCEPT ![id] = s]
       /\ leases' = [leases EXCEPT ![id] = l]
       /\ granted' = granted \cup {drawn + 1}
       /\ UNCHANGED writer
  BY <1>1, <1>6, <1>7, <1>8, <1>11 DEF ApplyAcquire, Inv, TypeOK
<1>15. /\ leases' \in [Ids -> LeaseRow \cup {NoLease}]
       /\ \A i \in Ids \ {id} : leases'[i] = leases[i] /\ sessions'[i] = sessions[i]
       /\ leases'[id] = l /\ sessions'[id] = s /\ s # NoSession
       /\ sessions' \in [Ids -> SessionRow \cup {NoSession}]
  BY <1>10, <1>12, <1>14, RedisAssumption DEF Inv, TypeOK
<1>16. RowInv'
  <2>1. granted' \subseteq 1..drawn'
    BY <1>2, <1>14 DEF Inv, RowInv
  <2> QED
    BY <1>3, <1>10, <1>13, <1>14, <1>15, <2>1 DEF Inv, RowInv, Stored
<1>17. RowRely
  <2>1. ReplacedByReader
    BY <1>10, <1>15 DEF ReplacedByReader, Stored
  <2> QED
    BY <1>3, <1>10, <1>12, <1>13, <1>15, <2>1 DEF RowRely, Stored
<1> QED
  BY <1>1, <1>2, <1>14, <1>15, <1>16, <1>17 DEF StoreStep, Inv, TypeOK

\* The reply of EXEC tells the caller what became of its handle, if it arrives.
LEMMA HandlesStep ==
    ASSUME Inv, NEW c \in Callers, NEW t \in Call, t = calls[c], CallInv(c), ReadInv(c),
           Apply(c, t), granted \subseteq granted',
           handles' = HandlesAfter(t) \/ UNCHANGED handles
    PROVE  handles' \in [Tokens -> Handle \cup {NoHandle}] /\ HandleRely /\ HandleInv'
<1>1. CASE handles' = handles
  BY <1>1 DEF HandleRely, SameHandle, HandleInv, Inv, TypeOK
<1>2. CASE handles' # handles
  <2>1. handles' = HandlesAfter(t) /\ ~t.expired
    BY <1>2 DEF HandlesAfter
  <2>2. CASE t.op = "acquire"
    <3>1. /\ drawn < MaxToken
          /\ granted' = granted \cup {drawn + 1}
      BY <2>1, <2>2 DEF Apply, ApplyRemoval, ApplyCreate, ApplySwap, ApplyAcquire, ApplyRelease
    <3>2. drawn + 1 \in Tokens /\ drawn \in Nat
      BY <3>1, Numbers DEF Inv, TypeOK, Tokens
    <3>3. PICK id \in Ids : id = t.id
      BY DEF Call
    <3>4. Stored(id) /\ sessions[id].lastFence < MaxFence
      BY <2>1, <2>2, <3>3 DEF ReadInv
    <3>5. sessions[id].lastFence \in 0..MaxFence /\ sessions[id].generation \in Tokens
      BY <3>4 DEF Stored, Inv, TypeOK, SessionRow
    <3>6. PICK f \in 1..MaxFence : f = Fence(id)
      BY <3>4, <3>5, Numbers DEF Fence
    <3>7. PICK h : h = [id |-> id, fence |-> f, generation |-> sessions[id].generation,
                        state |-> "held"]
      OBVIOUS
    <3>8. h \in Handle
      BY <3>5, <3>7 DEF Handle
    <3>9. handles' = [handles EXCEPT ![drawn + 1] = h]
      BY <2>1, <2>2, <3>3, <3>6, <3>7 DEF HandlesAfter
    <3>10. handles[drawn + 1] = NoHandle
      BY <3>2 DEF Inv, HandleInv, RowInv
    <3>11. /\ handles' \in [Tokens -> Handle \cup {NoHandle}]
           /\ \A o \in Tokens \ {drawn + 1} : handles'[o] = handles[o]
      BY <3>2, <3>8, <3>9 DEF Inv, TypeOK
    <3> QED
      BY <3>1, <3>10, <3>11 DEF HandleRely, SameHandle, HandleInv, Inv
  <2>3. CASE t.op \in LeaseCalls
    <3>1. t.owner \in Tokens /\ handles[t.owner] # NoHandle
      BY <2>3 DEF CallInv
    <3>2. PICK st \in {"held", "consumed", "acked"} :
            handles' = [handles EXCEPT ![t.owner].state = st]
      BY <2>1, <2>3 DEF HandlesAfter, LeaseCalls
    <3> QED
      BY <3>1, <3>2, MarkedHandle
  <2>4. CASE t.op \notin LeaseCalls /\ t.op # "acquire"
    BY <1>2, <2>1, <2>4 DEF HandlesAfter, LeaseCalls
  <2> QED
    BY <2>2, <2>3, <2>4
<1> QED
  BY <1>1, <1>2

LEMMA ExecStep ==
    ASSUME Inv, NEW c \in Callers, Exec(c)
    PROVE  Step({c})
<1>1. PICK t \in Call : t = calls[c] /\ CallInv(c) /\ ReadInv(c)
  BY DEF Exec, Inv, TypeOK, CallOK, Watching
<1>2. PICK id \in Ids : id = t.id
  BY DEF Call
<1>3. Apply(c, t) /\ UNCHANGED now
  BY <1>1 DEF Exec
<1>4. StoreStep(id)
  BY <1>1, <1>2, <1>3, ApplyRemovalStep, ApplyReleaseStep, ApplyCreateStep, ApplySwapStep,
     ApplyAcquireStep DEF Apply
<1>5. handles' \in [Tokens -> Handle \cup {NoHandle}] /\ HandleRely /\ HandleInv'
  BY <1>1, <1>3, <1>4, HandlesStep DEF Exec, StoreStep
<1>6. PICK cs : cs = [calls EXCEPT ![c] = Idle]
  OBVIOUS
<1>7. /\ cs \in [Callers -> Call \cup {Idle}]
      /\ cs[c] = Idle
      /\ \A d \in Callers \ {c} : cs[d] = calls[d]
  BY <1>6 DEF Inv, TypeOK
<1>8. calls' = Touching({id}, cs)
  BY <1>1, <1>2, <1>6 DEF Exec
<1>9. /\ calls' \in [Callers -> Call \cup {Idle}]
      /\ calls'[c] = Idle
      /\ \A d \in Callers \ {c} : calls'[d] = Idle \/ (calls[d] # Idle /\ KeptCall(d))
  <2>1. \A d \in Callers : calls[d] # Idle => calls[d].id \in Ids
    BY DEF Inv, TypeOK, Call
  <2>2. {id} \in SUBSET Ids
    OBVIOUS
  <2>3. /\ calls' \in [Callers -> Call \cup {Idle}]
        /\ calls'[c] = Idle
        /\ \A d \in Callers : cs[d] # Idle =>
                \/ calls'[d] = cs[d] /\ (cs[d].step # "watching" \/ cs[d].id # id)
                \/ calls'[d] = Spoilt(cs[d])
        /\ \A d \in Callers : cs[d] = Idle => calls'[d] = Idle
    BY <1>7, <1>8, <2>2, TouchingType
  <2>4. ASSUME NEW d \in Callers \ {c}, calls[d] # Idle PROVE KeptCall(d)
    <3>1. \A i \in Ids \ {id} : sessions'[i] = sessions[i] /\ leases'[i] = leases[i]
      BY <1>4 DEF StoreStep
    <3> QED
      BY <1>7, <2>1, <2>3, <2>4, <3>1 DEF KeptCall, Watching
  <2> QED
    BY <1>7, <2>3, <2>4
<1>10. TypeOK'
  BY <1>3, <1>4, <1>5, <1>9 DEF StoreStep, Inv, TypeOK
<1>11. now <= now'
  BY <1>3, Numbers DEF Inv, TypeOK
<1> QED
  BY <1>4, <1>5, <1>9, <1>10, <1>11 DEF Step, StoreStep, CallOK

-----------------------------------------------------------------------------
LEMMA NextStep ==
    ASSUME Inv, Next
    PROVE  \E cs \in SUBSET Callers : Step(cs)
<1>1. ASSUME NEW c \in Callers, Step({c}) PROVE \E cs \in SUBSET Callers : Step(cs)
  <2>1. {c} \in SUBSET Callers
    OBVIOUS
  <2> QED
    BY <1>1, <2>1
<1>2. ASSUME Step({}) PROVE \E cs \in SUBSET Callers : Step(cs)
  <2>1. {} \in SUBSET Callers
    OBVIOUS
  <2> QED
    BY <1>2, <2>1
<1>3. CASE \E c \in Callers, id \in Ids :
            \/ CallCreate(c, id) \/ CallGet(c, id) \/ CallSwap(c, id)
            \/ CallLeaseSwap(c, id) \/ CallLeaseDelete(c, id)
            \/ CallAcquire(c, id) \/ CallRelease(c, id)
  BY <1>1, <1>3, CallCreateStep, CallGetStep, CallSwapStep, CallLeaseSwapStep,
     CallLeaseDeleteStep, CallAcquireStep, CallReleaseStep
<1>4. CASE \E c \in Callers : Read(c) \/ Exec(c) \/ GiveUp(c)
  BY <1>1, <1>4, ReadStep, ExecStep, GiveUpStep
<1>5. CASE \E id \in Ids : Delete(id)
  BY <1>2, <1>5, DeleteStep
<1>6. CASE \E o \in Tokens : AcknowledgeRelease(o)
  BY <1>2, <1>6, AcknowledgeStep
<1>7. CASE Tick
  BY <1>2, <1>7, TickStep
<1> QED
  BY <1>3, <1>4, <1>5, <1>6, <1>7 DEF Next

LEMMA InitInv == Init => Inv
<1> SUFFICES ASSUME Init PROVE Inv
  OBVIOUS
<1>1. TypeOK
  BY Numbers DEF Init, TypeOK
<1>2. RowInv
  BY DEF Init, RowInv, Stored
<1>3. HandleInv
  BY DEF Init, HandleInv
<1>4. \A c \in Callers : CallOK(c)
  BY DEF Init, CallOK
<1> QED
  BY <1>1, <1>2, <1>3, <1>4 DEF Inv

LEMMA StutterInv ==
    ASSUME Inv, UNCHANGED vars
    PROVE  Inv'
<1>1. TypeOK' /\ RowInv' /\ HandleInv'
  BY DEF vars, Inv, TypeOK, RowInv, HandleInv, Stored
<1>2. ASSUME NEW c \in Callers PROVE CallOK(c)'
  <2>1. CallOK(c)
    BY DEF Inv
  <2> QED
    BY <2>1 DEF vars, CallOK, CallInv, Watching, ReadInv, Stored, Readable, Expired, OwnsLease
<1> QED
  BY <1>1, <1>2 DEF Inv

LEMMA Invariance == Spec => []Inv
<1>1. Inv /\ [Next]_vars => Inv'
  BY NextStep, StepKeeps, StutterInv
<1> QED
  BY InitInv, <1>1, PTL DEF Spec

(***************************************************************************)
(* Every value stays in its type: no transaction writes a version, a fence *)
(* or a lifetime that the code could not have produced, whatever changed   *)
(* between its two exchanges.                                              *)
(***************************************************************************)
THEOREM TypeCorrect == Spec => []TypeOK
<1>1. Inv => TypeOK
  BY DEF Inv
<1> QED
  BY <1>1, Invariance, PTL

(***************************************************************************)
(* A session's key lives at least until its deadline.                      *)
(***************************************************************************)
THEOREM KeptUntilDeadline == Spec => []NotForgottenEarly
<1>1. Inv => NotForgottenEarly
  BY DEF Inv, RowInv, NotForgottenEarly
<1> QED
  BY <1>1, Invariance, PTL

(***************************************************************************)
(* A lease that the server does not accept any more is never accepted      *)
(* again, across generations and lost replies.                             *)
(***************************************************************************)
THEOREM FencesHold == Spec => HandlesLostForGood
<1>1. Inv /\ [Next]_vars => [LostForGood]_vars
  BY NextStep, StepLoses
<1> QED
  BY <1>1, Invariance, PTL DEF Spec, HandlesLostForGood

(***************************************************************************)
(* Whoever replaces a stored session could read it, in any rotation of the *)
(* keys.                                                                   *)
(***************************************************************************)
THEOREM OnlyReadersReplace == Spec => UnreadableIsKept
<1>1. Inv /\ [Next]_vars => [ReplacedByReader]_vars
  BY NextStep DEF Step, RowRely
<1> QED
  BY <1>1, Invariance, PTL DEF Spec, UnreadableIsKept

-----------------------------------------------------------------------------
\* The contract of session.Backend.

\* A step of the contract, or one that changes nothing in it.
AbsStep == Contract!Next \/ UNCHANGED Contract!contractVars

LEMMA QuietAbs ==
    ASSUME UNCHANGED <<now, sessions, leases, granted, writer>>
    PROVE  AbsStep
<1>1. View' = View /\ Holder' = Holder /\ Due' = Due
  BY DEF View, Holder, Due, Stored, Expired
<1> QED
  BY <1>1 DEF AbsStep, Contract!contractVars

\* What a change of one session's rows looks like from outside.
LEMMA RowShows ==
    ASSUME Inv, NEW id \in Ids, now' = now,
           \A i \in Ids \ {id} : sessions'[i] = sessions[i] /\ leases'[i] = leases[i]
    PROVE  /\ View' = [View EXCEPT ![id] =
                        IF Stored(id)' THEN [version |-> sessions'[id].item.version,
                                             payload |-> sessions'[id].item.payload]
                        ELSE NoSession]
           /\ Holder' = [Holder EXCEPT ![id] =
                        IF Stored(id)' /\ leases'[id] # NoLease THEN leases'[id].owner ELSE 0]
           /\ Due' = IF Stored(id)' /\ Expired(id)' THEN Due \cup {id} ELSE Due \ {id}
<1>1. \A i \in Ids \ {id} : (Stored(i)' <=> Stored(i)) /\ (Expired(i)' <=> Expired(i))
  BY DEF Stored, Expired
<1>2. View' = [View EXCEPT ![id] =
                        IF Stored(id)' THEN [version |-> sessions'[id].item.version,
                                             payload |-> sessions'[id].item.payload]
                        ELSE NoSession]
  BY <1>1 DEF View
<1>3. Holder' = [Holder EXCEPT ![id] =
                        IF Stored(id)' /\ leases'[id] # NoLease THEN leases'[id].owner ELSE 0]
  BY <1>1 DEF Holder
<1>4. Due' = IF Stored(id)' /\ Expired(id)' THEN Due \cup {id} ELSE Due \ {id}
  BY <1>1 DEF Due
<1> QED
  BY <1>2, <1>3, <1>4

LEMMA VisibleIsThere ==
    ASSUME Inv, NEW id \in Ids, Stored(id)
    PROVE  /\ View[id] = [version |-> sessions[id].item.version,
                          payload |-> sessions[id].item.payload]
           /\ View[id] # NoSession
<1>1. View[id] = [version |-> sessions[id].item.version,
                  payload |-> sessions[id].item.payload]
  BY DEF View
<1>2. sessions[id].item \in Item
  BY DEF Inv, TypeOK, Stored, SessionRow
<1>3. View[id] \in [version: 1..MaxVersion, payload: Payloads]
  BY <1>1, <1>2 DEF Item
<1> QED
  BY <1>1, <1>3, RedisAssumption

LEMMA RemoveAbs ==
    ASSUME Inv, NEW id \in Ids, Remove(id), UNCHANGED <<now, granted, writer>>
    PROVE  AbsStep
<1>1. /\ \A i \in Ids \ {id} : sessions'[i] = sessions[i] /\ leases'[i] = leases[i]
      /\ ~Stored(id)'
  BY DEF Remove, Stored, Inv, TypeOK
<1>2. /\ View' = [View EXCEPT ![id] = NoSession]
      /\ Holder' = [Holder EXCEPT ![id] = 0]
      /\ Due' = Due \ {id}
  BY <1>1, RowShows
<1>3. Contract!Close(id)
  BY <1>2 DEF Contract!Close
<1> QED
  BY <1>3 DEF AbsStep, Contract!Next

LEMMA CreateAbs ==
    ASSUME Inv, NEW c \in Callers, NEW t \in Call, t = calls[c], CallInv(c), ReadInv(c),
           ApplyCreate(c, t), UNCHANGED now, StoreStep(t.id)
    PROVE  AbsStep
<1>1. PICK id \in Ids : id = t.id
  BY DEF Call
<1>2. t.item.version = 1 /\ t.item.payload \in Payloads
  BY DEF CallInv, ApplyCreate, Writes, Item
<1>3. /\ \A i \in Ids \ {id} : sessions'[i] = sessions[i] /\ leases'[i] = leases[i]
      /\ sessions' \in [Ids -> SessionRow \cup {NoSession}]
  BY <1>1 DEF StoreStep
<1>4. PICK s : s = [item |-> t.item, sealed |-> Primary[c], generation |-> drawn + 1,
                    lastFence |-> 0, until |-> now + t.ttl]
  OBVIOUS
<1>5. sessions'[id] = s /\ leases'[id] = NoLease /\ writer' = [writer EXCEPT ![id] = 0]
      /\ granted' = granted
  BY <1>1, <1>4 DEF ApplyCreate, Inv, TypeOK
<1>6. Stored(id)'
  <2>1. \E i \in Ids : i = id /\ (sessions'[i] \in SessionRow \/ sessions'[i] = NoSession)
    BY <1>3
  <2>2. s \in SessionRow
    <3>1. /\ now \in Nat /\ drawn \in Nat /\ drawn + 1 \in Tokens
      BY Numbers DEF ApplyCreate, Inv, TypeOK, Tokens
    <3>2. t.item \in Item /\ t.ttl \in Nat /\ now + t.ttl \in Nat
      BY <3>1 DEF CallInv, ApplyCreate, Writes, Call
    <3> QED
      BY <1>4, <3>1, <3>2, Numbers DEF SessionRow
  <2> QED
    BY <1>5, <2>2, RedisAssumption DEF Stored
<1>7. sessions'[id].item = t.item
  BY <1>4, <1>5
<1>8. /\ View' = [View EXCEPT ![id] = [version |-> 1, payload |-> t.item.payload]]
      /\ Holder' = [Holder EXCEPT ![id] = 0]
      /\ Due' \in {Due \ {id}, Due \cup {id}}
  BY <1>2, <1>3, <1>5, <1>6, <1>7, RowShows
<1>9. (View[id] = NoSession /\ Holder' = Holder) \/ id \in Due
  <2>1. CASE Stored(id)
    BY <1>1, <2>1 DEF ReadInv, ApplyCreate, Due
  <2>2. CASE ~Stored(id)
    BY <1>8, <2>2 DEF View, Holder
  <2> QED
    BY <2>1, <2>2
<1>10. Contract!Open(id, t.item.payload)
  BY <1>5, <1>8, <1>9 DEF Contract!Open, Contract!Renewed
<1> QED
  BY <1>2, <1>10 DEF AbsStep, Contract!Next

\* The holder of the lease in force, where the session is visible.
LEMMA OwnerIsHolder ==
    ASSUME Inv, NEW o \in Tokens, OwnsLease(o), NEW id \in Ids, id = handles[o].id
    PROVE  Stored(id) /\ Holder[id] = o /\ o # 0
BY Numbers DEF OwnsLease, Holder, Tokens

LEMMA SwapAbs ==
    ASSUME Inv, NEW c \in Callers, NEW t \in Call, t = calls[c], CallInv(c), ReadInv(c),
           ApplySwap(c, t), UNCHANGED now, StoreStep(t.id)
    PROVE  AbsStep
<1>1. PICK id \in Ids : id = t.id
  BY DEF Call
<1>2. Stored(id) /\ sessions[id].item.version = t.expected
  BY <1>1 DEF ReadInv, ApplySwap
<1>3. t.item.version = sessions[id].item.version + 1 /\ t.item.payload \in Payloads
  BY <1>2 DEF CallInv, ApplySwap, Writes, Item
<1>4. /\ \A i \in Ids \ {id} : sessions'[i] = sessions[i] /\ leases'[i] = leases[i]
      /\ sessions' \in [Ids -> SessionRow \cup {NoSession}]
  BY <1>1 DEF StoreStep
<1>5. sessions[id] \in SessionRow
  BY <1>2 DEF Stored, Inv, TypeOK
<1>6. PICK s : s = [sessions[id] EXCEPT !.item = t.item, !.sealed = Primary[c],
                                        !.until = now + t.ttl]
  OBVIOUS
<1>7. sessions'[id] = s
  BY <1>1, <1>6 DEF ApplySwap, Inv, TypeOK
<1>8. s.item = t.item /\ s # NoSession
  <2>1. t.item \in Item /\ t.ttl \in Nat /\ now + t.ttl \in Nat
    BY Numbers DEF CallInv, ApplySwap, Writes, Call, Inv, TypeOK
  <2>2. s \in SessionRow /\ s.item = t.item
    BY <1>5, <1>6, <2>1 DEF SessionRow
  <2> QED
    BY <2>2, RedisAssumption
<1>9. Stored(id)'
  BY <1>7, <1>8 DEF Stored
<1>10. /\ View' = [View EXCEPT ![id] = [version |-> t.item.version, payload |-> t.item.payload]]
       /\ Due' \in {Due \ {id}, Due \cup {id}}
       /\ Holder' = [Holder EXCEPT ![id] = IF leases'[id] # NoLease THEN leases'[id].owner ELSE 0]
  BY <1>4, <1>7, <1>8, <1>9, RowShows
<1>11. View' = [View EXCEPT ![id] = [version |-> View[id].version + 1, payload |-> t.item.payload]]
       /\ View[id] # NoSession
  <2>1. View[id] = [version |-> sessions[id].item.version, payload |-> sessions[id].item.payload]
        /\ View[id] # NoSession
    BY <1>2, VisibleIsThere
  <2>2. View[id].version + 1 = t.item.version
    BY <1>3, <2>1
  <2> QED
    BY <1>10, <2>1, <2>2
<1>12. writer' = [writer EXCEPT ![id] = t.owner] /\ granted' = granted
  BY <1>1 DEF ApplySwap
<1>13. CASE t.op = "swap"
  <2>1. Holder' = Holder
    BY <1>2, <1>10, <1>13 DEF ApplySwap, Holder
  <2>2. t.owner = 0
    BY <1>13 DEF CallInv, LeaseCalls
  <2>3. Contract!Replace(id, t.item.payload)
    BY <1>10, <1>11, <1>12, <2>1, <2>2
       DEF Contract!Replace, Contract!Renewed, Contract!Successor
  <2> QED
    BY <1>3, <2>3 DEF AbsStep, Contract!Next
<1>14. CASE t.op = "leaseSwap"
  <2>1. t.owner \in Tokens /\ OwnsLease(t.owner) /\ handles[t.owner].id = id
    BY <1>1, <1>14 DEF CallInv, ReadInv, LeaseCalls, ApplySwap
  <2>2. Holder[id] = t.owner /\ t.owner # 0
    BY <2>1, OwnerIsHolder
  <2>3. leases'[id] = NoLease
    BY <1>1, <1>14 DEF ApplySwap, Inv, TypeOK
  <2>4. Holder' = [Holder EXCEPT ![id] = 0]
    BY <1>10, <2>3
  <2>5. Contract!FencedReplace(id, t.item.payload)
    BY <1>10, <1>11, <1>12, <2>2, <2>4
       DEF Contract!FencedReplace, Contract!Renewed, Contract!Successor
  <2> QED
    BY <1>3, <2>5 DEF AbsStep, Contract!Next
<1> QED
  BY <1>13, <1>14 DEF ApplySwap

LEMMA AcquireAbs ==
    ASSUME Inv, NEW c \in Callers, NEW t \in Call, t = calls[c], ReadInv(c),
           ApplyAcquire(t), UNCHANGED now, StoreStep(t.id)
    PROVE  AbsStep
<1>1. PICK id \in Ids : id = t.id
  BY DEF Call
<1>2. Stored(id) /\ leases[id] = NoLease
  BY <1>1 DEF ReadInv, ApplyAcquire
<1>3. /\ \A i \in Ids \ {id} : sessions'[i] = sessions[i] /\ leases'[i] = leases[i]
      /\ leases' \in [Ids -> LeaseRow \cup {NoLease}]
      /\ sessions' \in [Ids -> SessionRow \cup {NoSession}]
      /\ granted' \subseteq Tokens
  BY <1>1 DEF StoreStep
<1>4. granted' = granted \cup {drawn + 1} /\ writer' = writer
  BY DEF ApplyAcquire
<1>5. drawn + 1 \in Tokens \ granted
  BY <1>3, <1>4, Numbers DEF Inv, TypeOK, RowInv
<1>6. PICK f : f = Fence(id)
  OBVIOUS
<1>7. sessions[id] \in SessionRow
  BY <1>2 DEF Stored, Inv, TypeOK
<1>8. PICK s : s = [sessions[id] EXCEPT !.lastFence = f]
  OBVIOUS
<1>9. s.item = sessions[id].item /\ sessions'[id] = s
  <2>1. sessions' = [sessions EXCEPT ![id] = s]
    BY <1>1, <1>6, <1>8 DEF ApplyAcquire, Inv, TypeOK
  <2> QED
    BY <1>7, <1>8, <2>1 DEF SessionRow, Inv, TypeOK
<1>10. Stored(id)'
  <2>1. s \in SessionRow
    <3>1. sessions[id].lastFence \in 0..MaxFence /\ sessions[id].lastFence < MaxFence
      BY <1>1, <1>7 DEF SessionRow, ReadInv, ApplyAcquire
    <3>2. f \in 0..MaxFence
      BY <1>6, <3>1, Numbers DEF Fence
    <3> QED
      BY <1>7, <1>8, <3>2 DEF SessionRow
  <2> QED
    BY <1>9, <2>1, RedisAssumption DEF Stored
<1>11. PICK l : l = [owner |-> drawn + 1, fence |-> f,
                     generation |-> sessions[id].generation, until |-> now + t.ttl]
  OBVIOUS
<1>12. leases'[id] = l /\ l.owner = drawn + 1
  BY <1>1, <1>6, <1>11 DEF ApplyAcquire, Inv, TypeOK
<1>13. l # NoLease
  <2>1. drawn + 1 \in Tokens
    BY <1>5
  <2>2. now + t.ttl \in Nat
    BY Numbers DEF Inv, TypeOK, Call
  <2>3. sessions[id].lastFence \in 0..MaxFence /\ sessions[id].lastFence < MaxFence
        /\ sessions[id].generation \in Tokens
    BY <1>1, <1>7 DEF SessionRow, ReadInv, ApplyAcquire
  <2>4. f \in 1..MaxFence
    BY <1>6, <2>3, Numbers DEF Fence
  <2>5. l \in LeaseRow
    BY <1>11, <2>1, <2>2, <2>3, <2>4 DEF LeaseRow
  <2> QED
    BY <2>5, RedisAssumption
<1>14. View' = View
  <2>1. ASSUME NEW i \in Ids
        PROVE  View'[i] = View[i]
    <3>1. CASE i = id
      BY <3>1, <1>2, <1>9, <1>10 DEF View
    <3>2. CASE i # id
      BY <3>2, <1>3, RowShows DEF View
    <3> QED
      BY <3>1, <3>2
  <2> QED
    BY <2>1 DEF View
<1>15. Holder' = [Holder EXCEPT ![id] = drawn + 1] /\ Holder[id] = 0
  BY <1>2, <1>3, <1>10, <1>12, <1>13, RowShows DEF Holder
<1>16. Due' = Due
  BY <1>2, <1>3, <1>9, <1>10 DEF Due, Stored, Expired
<1>17. Contract!Grant(id, drawn + 1)
  BY <1>2, <1>4, <1>5, <1>14, <1>15, <1>16, VisibleIsThere DEF Contract!Grant
<1> QED
  BY <1>5, <1>17 DEF AbsStep, Contract!Next

LEMMA ReleaseAbs ==
    ASSUME Inv, NEW c \in Callers, NEW t \in Call, t = calls[c], CallInv(c), ReadInv(c),
           ApplyRelease(t), UNCHANGED now
    PROVE  AbsStep
<1>1. PICK id \in Ids : id = t.id
  BY DEF Call
<1>2. t.owner \in Tokens /\ OwnsLease(t.owner) /\ handles[t.owner].id = id
  BY <1>1 DEF CallInv, ReadInv, LeaseCalls, ApplyRelease
<1>3. Holder[id] # 0
  BY <1>2, OwnerIsHolder
<1>4. /\ sessions' = sessions /\ leases'[id] = NoLease
      /\ \A i \in Ids \ {id} : sessions'[i] = sessions[i] /\ leases'[i] = leases[i]
  BY <1>1 DEF ApplyRelease, Inv, TypeOK
<1>5. View' = View /\ Due' = Due
  BY <1>4 DEF View, Due, Stored, Expired
<1>6. Holder' = [Holder EXCEPT ![id] = 0]
  BY <1>4, RowShows
<1>7. Contract!Surrender(id)
  BY <1>3, <1>5, <1>6 DEF Contract!Surrender, ApplyRelease
<1> QED
  BY <1>7 DEF AbsStep, Contract!Next

LEMMA ExecAbs ==
    ASSUME Inv, NEW c \in Callers, Exec(c)
    PROVE  AbsStep
<1>1. PICK t \in Call : t = calls[c] /\ CallInv(c) /\ ReadInv(c)
  BY DEF Exec, Inv, TypeOK, CallOK, Watching
<1>2. Apply(c, t) /\ UNCHANGED now /\ t.id \in Ids
  BY <1>1 DEF Exec, Call
<1>3. CASE ApplyRemoval(t)
  BY <1>2, <1>3, RemoveAbs DEF ApplyRemoval
<1>4. CASE ApplyCreate(c, t)
  BY <1>1, <1>2, <1>4, CreateAbs, ApplyCreateStep
<1>5. CASE ApplySwap(c, t)
  BY <1>1, <1>2, <1>5, SwapAbs, ApplySwapStep
<1>6. CASE ApplyAcquire(t)
  BY <1>1, <1>2, <1>6, AcquireAbs, ApplyAcquireStep
<1>7. CASE ApplyRelease(t)
  BY <1>1, <1>2, <1>7, ReleaseAbs
<1> QED
  BY <1>2, <1>3, <1>4, <1>5, <1>6, <1>7 DEF Apply

LEMMA TickAbs ==
    ASSUME Inv, Tick
    PROVE  AbsStep
<1> DEFINE gone   == {id \in Ids : ~Stored(id)'}
           lapsed == {id \in Ids : leases'[id] = NoLease}
           late   == {id \in Ids : Stored(id)' /\ Expired(id)'}
<1>1. now \in Nat /\ now' = now + 1
  BY Numbers DEF Tick, Inv, TypeOK
<1>2. /\ \A id \in Ids : sessions'[id] \in {NoSession, sessions[id]}
      /\ \A id \in Ids : leases'[id] \in {NoLease, leases[id]}
      /\ UNCHANGED <<writer, granted>>
  BY DEF Tick
<1>3. \A id \in Ids : Stored(id) => sessions[id].item.deadline \in Nat
  BY Numbers DEF Inv, TypeOK, Stored, SessionRow, Item
<1>4. View' = [id \in Ids |-> IF id \in gone THEN NoSession ELSE View[id]]
  BY <1>2 DEF View, Stored
<1>5. Holder' = [id \in Ids |-> IF id \in gone \cup lapsed THEN 0 ELSE Holder[id]]
  BY <1>2 DEF Holder, Stored
<1>6. Due' = (Due \ gone) \cup late
  BY <1>1, <1>2, <1>3 DEF Due, Stored, Expired
<1>7. gone \in SUBSET Ids /\ lapsed \in SUBSET Ids /\ late \in SUBSET Ids
  OBVIOUS
<1> HIDE DEF gone, lapsed, late
<1>8. Contract!TimePasses(gone, late, lapsed)
  BY <1>2, <1>4, <1>5, <1>6 DEF Contract!TimePasses
<1> QED
  BY <1>7, <1>8 DEF AbsStep, Contract!Next

LEMMA NextAbs ==
    ASSUME Inv, Next
    PROVE  AbsStep
<1>1. CASE \E c \in Callers, id \in Ids :
            \/ CallCreate(c, id) \/ CallGet(c, id) \/ CallSwap(c, id)
            \/ CallLeaseSwap(c, id) \/ CallLeaseDelete(c, id)
            \/ CallAcquire(c, id) \/ CallRelease(c, id)
  BY <1>1, QuietAbs DEF CallCreate, CallGet, CallSwap, CallLeaseSwap, CallLeaseDelete,
                        CallAcquire, CallRelease, Begin
<1>2. CASE \E c \in Callers : Read(c) \/ GiveUp(c)
  BY <1>2, QuietAbs DEF Read, GiveUp
<1>3. CASE \E c \in Callers : Exec(c)
  BY <1>3, ExecAbs
<1>4. CASE \E id \in Ids : Delete(id)
  BY <1>4, RemoveAbs DEF Delete
<1>5. CASE \E o \in Tokens : AcknowledgeRelease(o)
  BY <1>5, QuietAbs DEF AcknowledgeRelease
<1>6. CASE Tick
  BY <1>6, TickAbs
<1> QED
  BY <1>1, <1>2, <1>3, <1>4, <1>5, <1>6 DEF Next

LEMMA InitAbs == Init => Contract!Init
BY DEF Init, Contract!Init, View, Holder, Due, Stored

(***************************************************************************)
(* Redis keeps the promises of session.Backend: every behaviour of the     *)
(* watched transactions, under lost replies, expiring keys and processes   *)
(* that cannot read each other's sessions, is one of the contract.         *)
(***************************************************************************)
THEOREM Refinement == Spec => ImplementsContract
<1>1. Inv /\ [Next]_vars => [Contract!Next]_(Contract!contractVars)
  <2> SUFFICES ASSUME Inv, [Next]_vars
               PROVE  AbsStep
    BY DEF AbsStep
  <2>1. CASE Next
    BY <2>1, NextAbs
  <2>2. CASE UNCHANGED vars
    BY <2>2, QuietAbs DEF vars
  <2> QED
    BY <2>1, <2>2
<1> QED
  BY InitAbs, <1>1, Invariance, PTL DEF Spec, ImplementsContract, Contract!Spec
=============================================================================
