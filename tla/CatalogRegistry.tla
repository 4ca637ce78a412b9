--------------------------- MODULE CatalogRegistry ---------------------------
(***************************************************************************)
(* The HTTP catalog registry of runtime/httpcatalog in one instance of a   *)
(* service: routes are registered, the complete manifest is synchronised   *)
(* with IAM, and a loop renews it by heartbeats.  Any number of Sync and   *)
(* HeartbeatOnce calls are under way at once; each holds the mutex only to *)
(* read the registry and to record its outcome, and routes, fences and     *)
(* other outcomes may come in between.                                     *)
(*                                                                         *)
(* A manifest is the set of its routes, and so is its hash.  IAM accepts   *)
(* one manifest per generation; a newer deployment takes over at any time. *)
(***************************************************************************)
EXTENDS Integers

CONSTANTS
    Routes,
    Callers,       \* goroutines that call Sync or HeartbeatOnce
    Loop,          \* the goroutine in RunHeartbeat
    MaxAttempts,   \* attempts of one renewal: 3
    MaxCatalog,    \* bound on the projections of the catalog IAM has made
    Newer          \* what a newer generation has published

VARIABLES
    routes, version,            \* Registry.routes, routesVersion
    synced, lastErr, fenced,    \* Registry
    catalogHash, manifestHash,  \* Registry; 0 and NoHash for ""
    calls,        \* caller -> the call it is in, or Idle
    loop,         \* where RunHeartbeat is
    attempt,      \* its attempts at the present renewal
    published,    \* IAM: the manifest in force
    catalog,      \* IAM: its present projection, 0 before the first manifest
    accepted      \* history: manifests of this instance that IAM has accepted

registry == <<routes, version, synced, lastErr, fenced, catalogHash, manifestHash>>
iam      == <<published, catalog, accepted>>
vars     == <<registry, calls, loop, attempt, iam>>

All == Callers \cup {Loop}
Manifests == (SUBSET Routes) \ {{}}
\* No manifest is empty: no manifest hash, and nothing published.
NoHash == {}
Errors == {"none", "failed", "conflict", "changed"}
Running == {"waiting", "beating", "backoff"}

ASSUME CatalogAssumption ==
    /\ Loop \notin Callers
    /\ Newer \notin SUBSET Routes
    /\ MaxAttempts \in Nat \ {0} /\ MaxCatalog \in Nat \ {0}

Call == [kind: {"sync", "beat"}, step: {"read", "sent", "answered", "record"},
         version: Nat, manifest: SUBSET Routes,
         catalog: 0..MaxCatalog, err: Errors]

\* A caller in no call.
Idle == [kind |-> "none", step |-> "idle", version |-> 0, manifest |-> NoHash,
         catalog |-> 0, err |-> "none"]

TypeOK ==
    /\ routes \in SUBSET Routes /\ version \in Nat
    /\ synced \in BOOLEAN /\ lastErr \in Errors /\ fenced \in BOOLEAN
    /\ catalogHash \in 0..MaxCatalog /\ manifestHash \in SUBSET Routes
    /\ calls \in [All -> Call \cup {Idle}]
    /\ loop \in Running \cup {"off", "canceled", "failed"}
    /\ attempt \in 0..MaxAttempts-1
    /\ published \in (SUBSET Routes) \cup {Newer}
    /\ catalog \in 0..MaxCatalog /\ accepted \subseteq Manifests

Init ==
    /\ routes = {} /\ version = 0
    /\ synced = FALSE /\ lastErr = "failed" /\ fenced = FALSE
    /\ catalogHash = 0 /\ manifestHash = NoHash
    /\ calls = [c \in All |-> Idle]
    /\ loop = "off" /\ attempt = 0
    /\ published = NoHash /\ catalog = 0 /\ accepted = {}

\* Check.
Ready ==
    synced /\ lastErr = "none" /\ catalogHash # 0 /\ manifestHash # NoHash /\ ~fenced

-----------------------------------------------------------------------------
\* Register: a route that is already there changes nothing.
Register(r) ==
    /\ r \notin routes
    /\ routes' = routes \cup {r}
    /\ version' = version + 1
    /\ synced' = FALSE
    /\ lastErr' = "failed"
    /\ UNCHANGED <<fenced, catalogHash, manifestHash, calls, loop, attempt, iam>>

-----------------------------------------------------------------------------
\* Steps that Sync and HeartbeatOnce share.

Update(c, call) == calls' = [calls EXCEPT ![c] = call]

At(c, kind, step) == calls[c] # Idle /\ calls[c].kind = kind /\ calls[c].step = step

NewCall(kind, step, v, manifest, cat, err) ==
    [kind |-> kind, step |-> step, version |-> v, manifest |-> manifest,
     catalog |-> cat, err |-> err]

\* A call returns with err, which the deferred function has yet to record.
Returns(c, err) == Update(c, [calls[c] EXCEPT !.step = "record", !.err = err])

\* No credentials, no connection, a timeout or a canceled context, before or
\* after IAM has handled the request; or an answer other than 200 and 409, or
\* one that does not name what was sent.
CallFails(c) ==
    /\ calls[c] # Idle /\ calls[c].step \in {"sent", "answered"}
    /\ Returns(c, "failed")
    /\ UNCHANGED <<registry, loop, attempt, iam>>

\* The answer arrives; 409 fences the registry at once.
Receive(c) ==
    /\ calls[c] # Idle /\ calls[c].step = "answered"
    /\ Returns(c, calls[c].err)
    /\ IF calls[c].err = "conflict"
       THEN /\ fenced' = TRUE /\ synced' = FALSE /\ lastErr' = "conflict"
            /\ UNCHANGED <<routes, version, catalogHash, manifestHash>>
       ELSE UNCHANGED registry
    /\ UNCHANGED <<loop, attempt, iam>>

-----------------------------------------------------------------------------
\* Sync.

SyncBegin(c) ==
    /\ calls[c] = Idle
    /\ IF routes = {}
       THEN Update(c, NewCall("sync", "record", 0, NoHash, 0, "failed"))
       ELSE Update(c, NewCall("sync", "read", version, routes, 0, "none"))
    /\ UNCHANGED <<registry, loop, attempt, iam>>

\* One manifest per registry: its generation cannot publish another one.
SyncCheck(c) ==
    /\ At(c, "sync", "read")
    /\ \/ fenced /\ Returns(c, "conflict")
       \/ /\ ~fenced /\ manifestHash \notin {NoHash, calls[c].manifest}
          /\ Returns(c, "changed")
       \/ /\ ~fenced /\ manifestHash \in {NoHash, calls[c].manifest}
          /\ Update(c, [calls[c] EXCEPT !.step = "sent"])
    /\ UNCHANGED <<registry, loop, attempt, iam>>

\* Slip: the routes may have changed since the manifest was taken.
SyncRecordStale(c) ==
    /\ At(c, "sync", "record")
    /\ LET t == calls[c] IN
       /\ lastErr' = t.err /\ synced' = (t.err = "none")
       /\ catalogHash' = t.catalog
       /\ manifestHash' = IF t.err = "none" THEN t.manifest ELSE manifestHash
    /\ Update(c, Idle)
    /\ UNCHANGED <<routes, version, fenced, loop, attempt, iam>>

\* recordSync: a failure forgets the catalog hash and keeps the manifest's.
SyncRecord(c) ==
    /\ At(c, "sync", "record")
    /\ LET t == calls[c] IN
       IF t.version # version THEN UNCHANGED registry
       ELSE /\ lastErr' = t.err /\ synced' = (t.err = "none")
            /\ catalogHash' = IF t.err = "none" THEN t.catalog ELSE 0
            /\ manifestHash' = IF t.err = "none" THEN t.manifest ELSE manifestHash
            /\ UNCHANGED <<routes, version, fenced>>
    /\ Update(c, Idle)
    /\ UNCHANGED <<loop, attempt, iam>>

-----------------------------------------------------------------------------
\* HeartbeatOnce.

BeatBegin(c) ==
    /\ calls[c] = Idle
    /\ \/ fenced /\ Update(c, NewCall("beat", "record", 0, manifestHash, catalogHash, "conflict"))
       \/ /\ ~fenced /\ (catalogHash = 0 \/ manifestHash = NoHash)
          /\ Update(c, NewCall("beat", "record", 0, manifestHash, catalogHash, "failed"))
       \/ /\ ~fenced /\ catalogHash # 0 /\ manifestHash # NoHash
          /\ Update(c, NewCall("beat", "read", 0, manifestHash, catalogHash, "none"))
    /\ UNCHANGED <<registry, iam>>

\* A second look at the registry, for the manifest as it is by now.
BeatSnapshot(c) ==
    /\ At(c, "beat", "read")
    /\ LET t == [calls[c] EXCEPT !.version = version] IN
       IF routes = t.manifest THEN Update(c, [t EXCEPT !.step = "sent"])
       ELSE Update(c, [t EXCEPT !.step = "record", !.err = "changed"])
    /\ UNCHANGED <<registry, loop, attempt, iam>>

\* Slip: a loop that has renewed once is done.
LoopAfterOnce(err) ==
    \/ err = "none" /\ loop' = "off" /\ attempt' = 0
    \/ err # "none" /\ loop' = "failed" /\ UNCHANGED attempt

\* Slip: whatever the failure, the ticker will try again.
LoopAfterForgiving(err) ==
    \/ /\ err = "none" \/ attempt = MaxAttempts - 1
       /\ loop' = "waiting" /\ attempt' = 0
    \/ /\ err # "none" /\ attempt < MaxAttempts - 1
       /\ loop' = "backoff" /\ attempt' = attempt + 1

\* Slip: one attempt more than there are.
LoopAfterOneMore(err) ==
    \/ err = "none" /\ loop' = "waiting" /\ attempt' = 0
    \/ err \in {"conflict", "changed"} /\ loop' = "failed" /\ UNCHANGED attempt
    \/ err = "failed" /\ loop' = "backoff" /\ attempt' = attempt + 1

\* The loop after an attempt at a renewal.
LoopAfter(err) ==
    \/ err = "none" /\ loop' = "waiting" /\ attempt' = 0
    \/ /\ err \in {"conflict", "changed"} \/ (err = "failed" /\ attempt = MaxAttempts - 1)
       /\ loop' = "failed" /\ UNCHANGED attempt
    \/ /\ err = "failed" /\ attempt < MaxAttempts - 1
       /\ loop' = "backoff" /\ attempt' = attempt + 1

\* recordHeartbeat: an outcome for other routes or other hashes is dropped, and
\* a success that is dropped is a failure to the caller.
BeatRecord(c) ==
    /\ At(c, "beat", "record")
    /\ LET t == calls[c]
           current == /\ t.version = version
                      /\ t.catalog = catalogHash /\ t.manifest = manifestHash
           err == IF ~current /\ t.err = "none" THEN "failed" ELSE t.err
       IN /\ IF current
             THEN lastErr' = t.err /\ synced' = (t.err = "none")
             ELSE UNCHANGED <<lastErr, synced>>
          /\ IF c = Loop THEN LoopAfter(err) ELSE UNCHANGED <<loop, attempt>>
    /\ Update(c, Idle)
    /\ UNCHANGED <<routes, version, fenced, catalogHash, manifestHash, iam>>

CallerBeats(c) == BeatBegin(c) /\ UNCHANGED <<loop, attempt>>

-----------------------------------------------------------------------------
\* RunHeartbeat.

StartLoop ==
    /\ loop = "off" /\ ~fenced /\ catalogHash # 0
    /\ loop' = "waiting"
    /\ UNCHANGED <<registry, calls, attempt, iam>>

\* The ticker fires for the first attempt at a renewal, a timer for the others.
LoopBeats ==
    /\ \/ loop = "waiting" /\ attempt' = 0
       \/ loop = "backoff" /\ UNCHANGED attempt
    /\ loop' = "beating"
    /\ BeatBegin(Loop)

CancelLoop ==
    /\ loop \in {"waiting", "backoff"}
    /\ loop' = "canceled"
    /\ UNCHANGED <<registry, calls, attempt, iam>>

-----------------------------------------------------------------------------
\* IAM.

\* A generation has one manifest, and an older generation none.
IamTakes(t) ==
    IF t.kind = "sync" THEN published \in {NoHash, t.manifest}
    ELSE published = t.manifest /\ catalog = t.catalog

\* A heartbeat for an outdated projection is refused, one way or another.
IamRefuses(t) ==
    \/ published # NoHash /\ published # t.manifest
    \/ t.kind = "beat" /\ published = t.manifest /\ catalog # t.catalog

IamAnswers(c) ==
    /\ calls[c] # Idle /\ calls[c].step = "sent"
    /\ LET t == [calls[c] EXCEPT !.step = "answered"] IN
       \/ /\ IamTakes(t)
          /\ published' = t.manifest
          /\ catalog' = IF published = NoHash THEN 1 ELSE catalog
          /\ accepted' = accepted \cup {t.manifest}
          /\ Update(c, [t EXCEPT !.catalog = catalog'])
       \/ /\ IamRefuses(t)
          /\ Update(c, [t EXCEPT !.err = "conflict"])
          /\ UNCHANGED iam
    /\ UNCHANGED <<registry, loop, attempt>>

\* The same manifest is projected anew.
IamReprojects ==
    /\ published # NoHash /\ catalog < MaxCatalog
    /\ catalog' = catalog + 1
    /\ UNCHANGED <<registry, calls, loop, attempt, published, accepted>>

\* A newer deployment publishes its manifest.
Supersede ==
    /\ published \notin {NoHash, Newer}
    /\ published' = Newer
    /\ UNCHANGED <<registry, calls, loop, attempt, catalog, accepted>>

-----------------------------------------------------------------------------
Progress(c) ==
    \/ SyncCheck(c) \/ BeatSnapshot(c)
    \/ IamAnswers(c) \/ Receive(c) \/ CallFails(c)
    \/ SyncRecord(c) \/ BeatRecord(c)

Next ==
    \/ \E r \in Routes : Register(r)
    \/ \E c \in Callers : SyncBegin(c) \/ CallerBeats(c)
    \/ \E c \in All : Progress(c)
    \/ StartLoop \/ LoopBeats \/ CancelLoop
    \/ IamReprojects \/ Supersede

Spec == Init /\ [][Next]_vars

(***************************************************************************)
(* The ticker and the timers fire, and a call that has begun goes on and   *)
(* ends: its request is bounded by the client's timeout.  Nothing is       *)
(* assumed of registrations, of callers or of IAM's answers.               *)
(***************************************************************************)
FairSpec == Spec /\ WF_vars(LoopBeats) /\ \A c \in All : WF_vars(Progress(c))

-----------------------------------------------------------------------------
(***************************************************************************)
(* An instance that says it is ready serves exactly the routes that IAM    *)
(* has accepted from it: an answer about an earlier set of routes, or one  *)
(* that another outcome has overtaken, makes nobody ready.                 *)
(***************************************************************************)
ReadyIsAccepted == Ready => routes = manifestHash /\ routes \in accepted

(***************************************************************************)
(* While the loop runs, an instance that a newer deployment has replaced   *)
(* stops saying that it is ready, unless the host ended the loop or has    *)
(* been told that it failed.                                               *)
(***************************************************************************)
SupersededIsNoticed ==
    published = Newer /\ loop \in Running ~> ~Ready \/ loop \in {"canceled", "failed"}

(***************************************************************************)
(* The loop does not go on for ever on a generation that is lost, or for a *)
(* manifest that is no longer the registry's.                              *)
(***************************************************************************)
LostLoopEnds ==
    (fenced \/ manifestHash \notin {NoHash, routes}) /\ loop \in Running
        ~> loop \in {"canceled", "failed"}
=============================================================================
