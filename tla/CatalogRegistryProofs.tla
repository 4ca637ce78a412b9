------------------------ MODULE CatalogRegistryProofs ------------------------
(***************************************************************************)
(* What the readiness of CatalogRegistry means, for any routes, any number *)
(* of callers and any number of attempts.  A call carries the version of   *)
(* the routes it was made for; the invariant says what that version is     *)
(* good for: as long as it is the registry's, the manifest of the call is  *)
(* the routes, whatever else has happened since.                           *)
(***************************************************************************)
EXTENDS CatalogRegistry, TLAPS

\* Calls whose version vouches for their manifest.
Vouches(t) ==
    \/ t.step \in {"sent", "answered"}
    \/ t.kind = "sync" /\ t.step = "read"
    \/ t.step = "record" /\ t.err = "none"

\* What a call in flight may rely on when the registry has routes rs at
\* version v, and IAM has accepted acc.
Sound(t, rs, v, acc) ==
    /\ t.step \in {"read", "sent", "answered"} => t.manifest # NoHash
    /\ Vouches(t) => t.version <= v /\ (t.version = v => t.manifest = rs)
    /\ t.step \in {"answered", "record"} /\ t.err = "none" => t.manifest \in acc

CallsInv == \A c \in All : Sound(calls[c], routes, version, accepted)

SyncedInv == synced => routes = manifestHash /\ routes \in accepted

Inv == TypeOK /\ CallsInv /\ SyncedInv

-----------------------------------------------------------------------------
LEMMA IdleIsSound == \A rs, v, acc : Sound(Idle, rs, v, acc)
BY DEF Sound, Vouches, Idle

(* The initial states satisfy the invariant. *)
LEMMA InitInv == Init => Inv
<1> SUFFICES ASSUME Init PROVE Inv
    OBVIOUS
<1>1. calls \in [All -> Call \cup {Idle}] /\ \A c \in All : calls[c] = Idle
    BY DEF Init
<1>2. synced = FALSE /\ fenced = FALSE
    BY Zenon DEF Init
<1>3. 0 \in 0..MaxCatalog /\ 0 \in 0..MaxAttempts-1 /\ 0 \in Nat
    BY CatalogAssumption
<1>4. TypeOK
    BY <1>1, <1>2, <1>3 DEF Init, TypeOK, Errors, NoHash
<1>5. CallsInv
    BY <1>1, IdleIsSound DEF CallsInv
<1> QED  BY <1>2, <1>4, <1>5 DEF Inv, SyncedInv

(* Replacing one call by a sound one leaves all calls sound, when the routes *)
(* are the same and IAM has forgotten nothing.                               *)
LEMMA UpdateCall ==
    ASSUME Inv, NEW c \in All, NEW call \in Call \cup {Idle}, Update(c, call),
           routes' = routes, version' = version, accepted \subseteq accepted',
           Sound(call, routes, version, accepted')
    PROVE  calls' \in [All -> Call \cup {Idle}] /\ CallsInv'
<1>1. calls' \in [All -> Call \cup {Idle}]
    BY DEF Update, Inv, TypeOK
<1>2. ASSUME NEW d \in All PROVE Sound(calls'[d], routes', version', accepted')
    <2>1. CASE d = c
        BY <2>1 DEF Update, Inv, TypeOK
    <2>2. CASE d # c
        <3>1. calls'[d] = calls[d] /\ Sound(calls[d], routes, version, accepted)
            BY <2>2 DEF Update, Inv, TypeOK, CallsInv
        <3> QED  BY <3>1 DEF Sound
    <2> QED  BY <2>1, <2>2
<1> QED  BY <1>1, <1>2 DEF CallsInv

(* A new set of routes has a new version, for which no call vouches. *)
LEMMA RegisterInv ==
    ASSUME Inv, NEW r \in Routes, Register(r)
    PROVE  Inv'
<1>1. routes' \in SUBSET Routes /\ version' = version + 1 /\ version \in Nat
    BY DEF Register, Inv, TypeOK
<1>2. synced' = FALSE /\ synced' \in BOOLEAN
    BY Zenon DEF Register
<1>3. TypeOK'
    <2>1. lastErr' \in Errors /\ version' \in Nat
        BY <1>1 DEF Register, Errors
    <2> QED  BY <1>1, <1>2, <2>1 DEF Register, Inv, TypeOK, iam
<1>4. ASSUME NEW c \in All PROVE Sound(calls'[c], routes', version', accepted')
    <2>1. calls'[c] = calls[c] /\ accepted' = accepted
        BY DEF Register, iam
    <2>2. Vouches(calls[c]) => calls[c].version \in Nat
        BY DEF Inv, TypeOK, Vouches, Call, Idle
    <2> QED  BY <1>1, <2>1, <2>2 DEF Inv, CallsInv, Sound
<1> QED  BY <1>2, <1>3, <1>4 DEF Inv, CallsInv, SyncedInv

(* A call that returns an error promises nothing. *)
LEMMA ReturnsSound ==
    ASSUME Inv, NEW c \in All, calls[c] # Idle, NEW err \in Errors,
           err = "none" => calls[c].step = "answered" /\ calls[c].err = "none",
           Returns(c, err), routes' = routes, version' = version, accepted' = accepted
    PROVE  calls' \in [All -> Call \cup {Idle}] /\ CallsInv'
<1> DEFINE call == [calls[c] EXCEPT !.step = "record", !.err = err]
<1>1. calls[c] \in Call
    BY DEF Inv, TypeOK
<1>2. call \in Call /\ call.step = "record" /\ call.err = err
      /\ call.version = calls[c].version /\ call.manifest = calls[c].manifest
    BY <1>1 DEF Call
<1>3. Update(c, call)
    BY DEF Returns
<1> HIDE DEF call
<1>4. Sound(call, routes, version, accepted)
    BY <1>2 DEF Inv, CallsInv, Sound, Vouches
<1> QED  BY <1>2, <1>3, <1>4, UpdateCall

-----------------------------------------------------------------------------
(* The steps of Sync keep the invariant. *)
LEMMA SyncInv ==
    ASSUME Inv, NEW c \in All, SyncBegin(c) \/ SyncCheck(c) \/ SyncRecord(c)
    PROVE  Inv'
<1> DEFINE Rest == UNCHANGED <<registry, loop, attempt, iam>>
<1>1. CASE SyncBegin(c)
    <2> DEFINE new == NewCall("sync", "read", version, routes, 0, "none")
    <2> DEFINE fail == NewCall("sync", "record", 0, NoHash, 0, "failed")
    <2>1. Rest
        BY <1>1 DEF SyncBegin
    <2>2. fail \in Call /\ Sound(fail, routes, version, accepted)
        BY CatalogAssumption DEF NewCall, Call, NoHash, Errors, Sound, Vouches
    <2>3. new \in Call
        BY CatalogAssumption DEF NewCall, Call, Errors, Inv, TypeOK
    <2>4. routes # {} => Sound(new, routes, version, accepted)
        BY DEF NewCall, NoHash, Sound, Vouches, Inv, TypeOK
    <2>5. \/ Update(c, fail)
          \/ routes # {} /\ Update(c, new)
        BY <1>1 DEF SyncBegin
    <2> HIDE DEF new, fail
    <2>6. calls' \in [All -> Call \cup {Idle}] /\ CallsInv'
        BY <2>1, <2>2, <2>3, <2>4, <2>5, UpdateCall DEF registry, iam
    <2> QED  BY <2>1, <2>6 DEF Inv, TypeOK, SyncedInv, registry, iam
<1>2. CASE SyncCheck(c)
    <2>1. Rest /\ calls[c] # Idle /\ calls[c] \in Call
          /\ calls[c].kind = "sync" /\ calls[c].step = "read"
        BY <1>2 DEF SyncCheck, At, Inv, TypeOK
    <2>2. ASSUME NEW err \in {"conflict", "changed"}, Returns(c, err)
          PROVE  calls' \in [All -> Call \cup {Idle}] /\ CallsInv'
        BY <2>1, <2>2, ReturnsSound DEF registry, iam, Errors
    <2>3. ASSUME Update(c, [calls[c] EXCEPT !.step = "sent"])
          PROVE  calls' \in [All -> Call \cup {Idle}] /\ CallsInv'
        <3> DEFINE call == [calls[c] EXCEPT !.step = "sent"]
        <3>1. call \in Call /\ call.step = "sent"
              /\ call.version = calls[c].version /\ call.manifest = calls[c].manifest
            BY <2>1 DEF Call
        <3>2. Sound(calls[c], routes, version, accepted)
            BY DEF Inv, CallsInv
        <3>3. Update(c, call)
            BY <2>3
        <3> HIDE DEF call
        <3>4. Sound(call, routes, version, accepted)
            BY <2>1, <3>1, <3>2 DEF Sound, Vouches
        <3> QED  BY <2>1, <3>1, <3>3, <3>4, UpdateCall DEF registry, iam
    <2>4. calls' \in [All -> Call \cup {Idle}] /\ CallsInv'
        BY <1>2, <2>2, <2>3 DEF SyncCheck
    <2> QED  BY <2>1, <2>4 DEF Inv, TypeOK, SyncedInv, registry, iam
<1>3. CASE SyncRecord(c)
    <2>1. calls[c] \in Call /\ calls[c].step = "record"
          /\ Sound(calls[c], routes, version, accepted)
        BY <1>3 DEF SyncRecord, At, Inv, TypeOK, CallsInv
    <2>2. Update(c, Idle) /\ routes' = routes /\ version' = version /\ fenced' = fenced
          /\ UNCHANGED <<loop, attempt, iam>>
        BY <1>3 DEF SyncRecord, registry
    <2>3. calls' \in [All -> Call \cup {Idle}] /\ CallsInv'
        BY <2>2, IdleIsSound, UpdateCall DEF iam
    <2>4. lastErr' \in Errors /\ manifestHash' \in SUBSET Routes /\ catalogHash' \in 0..MaxCatalog
        BY <1>3, <2>1, CatalogAssumption DEF SyncRecord, registry, Call, Inv, TypeOK
    <2>5. synced' \in BOOLEAN
        BY <1>3 DEF SyncRecord, registry, Inv, TypeOK
    <2>6. SyncedInv'
        <3> SUFFICES ASSUME synced' PROVE routes' = manifestHash' /\ routes' \in accepted'
            BY DEF SyncedInv
        <3>1. CASE calls[c].version # version
            BY <1>3, <2>2, <3>1 DEF SyncRecord, registry, iam, Inv, SyncedInv
        <3>2. CASE calls[c].version = version
            <4>1. calls[c].err = "none" /\ manifestHash' = calls[c].manifest
                BY <1>3, <3>2 DEF SyncRecord
            <4> QED  BY <2>1, <2>2, <3>2, <4>1 DEF Sound, Vouches, iam
        <3> QED  BY <3>1, <3>2
    <2> QED  BY <2>2, <2>3, <2>4, <2>5, <2>6 DEF Inv, TypeOK, iam
<1> QED  BY <1>1, <1>2, <1>3

-----------------------------------------------------------------------------
(* The steps of HeartbeatOnce keep the invariant, with the loop around them. *)

LEMMA BeatBeginInv ==
    ASSUME Inv, NEW c \in All, BeatBegin(c),
           loop' \in Running \cup {"off", "canceled", "failed"},
           attempt' \in 0..MaxAttempts-1
    PROVE  Inv'
<1> DEFINE gone(err) == NewCall("beat", "record", 0, manifestHash, catalogHash, err)
<1> DEFINE new == NewCall("beat", "read", 0, manifestHash, catalogHash, "none")
<1>1. \A err \in {"conflict", "failed"} :
        gone(err) \in Call /\ Sound(gone(err), routes, version, accepted)
    BY DEF NewCall, Call, Errors, Sound, Vouches, Inv, TypeOK
<1>2. manifestHash # NoHash => new \in Call /\ Sound(new, routes, version, accepted)
    BY DEF NewCall, Call, Errors, Sound, Vouches, Inv, TypeOK
<1>3. UNCHANGED <<registry, iam>>
    BY DEF BeatBegin
<1>4. \/ \E err \in {"conflict", "failed"} : Update(c, gone(err))
      \/ manifestHash # NoHash /\ Update(c, new)
    BY DEF BeatBegin
<1> HIDE DEF gone, new
<1>5. calls' \in [All -> Call \cup {Idle}] /\ CallsInv'
    BY <1>1, <1>2, <1>3, <1>4, UpdateCall DEF registry, iam
<1> QED  BY <1>3, <1>5 DEF Inv, TypeOK, SyncedInv, registry, iam

LEMMA BeatSnapshotInv ==
    ASSUME Inv, NEW c \in All, BeatSnapshot(c)
    PROVE  Inv'
<1> DEFINE t == [calls[c] EXCEPT !.version = version]
<1> DEFINE send == [t EXCEPT !.step = "sent"]
<1> DEFINE stop == [t EXCEPT !.step = "record", !.err = "changed"]
<1>1. calls[c] \in Call /\ calls[c].step = "read" /\ calls[c].kind = "beat"
      /\ Sound(calls[c], routes, version, accepted) /\ version \in Nat
    BY DEF BeatSnapshot, At, Inv, TypeOK, CallsInv
<1>2. t \in Call /\ t.version = version /\ t.manifest = calls[c].manifest
    BY <1>1 DEF Call
<1>3. \/ routes = t.manifest /\ Update(c, send)
      \/ Update(c, stop)
    BY DEF BeatSnapshot
<1>4. UNCHANGED <<registry, loop, attempt, iam>>
    BY DEF BeatSnapshot
<1> HIDE DEF t
<1>5. send \in Call /\ send.step = "sent" /\ send.version = version /\ send.manifest = t.manifest
    BY <1>2 DEF Call
<1>6. stop \in Call /\ stop.step = "record" /\ stop.err = "changed"
    BY <1>2 DEF Call, Errors
<1> HIDE DEF send, stop
<1>7. routes = t.manifest => Sound(send, routes, version, accepted)
    BY <1>1, <1>2, <1>5 DEF Sound, Vouches
<1>8. Sound(stop, routes, version, accepted)
    BY <1>6 DEF Sound, Vouches
<1>9. calls' \in [All -> Call \cup {Idle}] /\ CallsInv'
    BY <1>3, <1>4, <1>5, <1>6, <1>7, <1>8, UpdateCall DEF registry, iam
<1> QED  BY <1>4, <1>9 DEF Inv, TypeOK, SyncedInv, registry, iam

LEMMA BeatRecordInv ==
    ASSUME Inv, NEW c \in All, BeatRecord(c)
    PROVE  Inv'
<1> DEFINE t == calls[c]
<1> DEFINE current == t.version = version /\ t.catalog = catalogHash /\ t.manifest = manifestHash
<1> DEFINE err == IF ~current /\ t.err = "none" THEN "failed" ELSE t.err
<1>1. t \in Call /\ t.step = "record" /\ Sound(t, routes, version, accepted)
    BY DEF BeatRecord, At, Inv, TypeOK, CallsInv
<1>2. err \in Errors
    BY <1>1 DEF Call, Errors
<1>3. Update(c, Idle) /\ UNCHANGED <<routes, version, fenced, catalogHash, manifestHash, iam>>
    BY DEF BeatRecord
<1>4. calls' \in [All -> Call \cup {Idle}] /\ CallsInv'
    BY <1>3, IdleIsSound, UpdateCall DEF iam
<1>5. \/ current /\ lastErr' = t.err /\ synced' = (t.err = "none")
      \/ UNCHANGED <<lastErr, synced>>
    BY DEF BeatRecord
<1>6. LoopAfter(err) \/ UNCHANGED <<loop, attempt>>
    BY DEF BeatRecord
<1>7. lastErr' \in Errors /\ synced' \in BOOLEAN
    BY <1>1, <1>5 DEF Call, Inv, TypeOK
<1>8. SyncedInv'
    BY <1>1, <1>3, <1>5 DEF Inv, SyncedInv, Sound, Vouches, iam
<1> HIDE DEF err
<1>9. loop' \in Running \cup {"off", "canceled", "failed"} /\ attempt' \in 0..MaxAttempts-1
    BY <1>2, <1>6, CatalogAssumption DEF LoopAfter, Running, Inv, TypeOK
<1> QED  BY <1>3, <1>4, <1>7, <1>8, <1>9 DEF Inv, TypeOK, iam

-----------------------------------------------------------------------------
(* What happens to a request keeps the invariant. *)
LEMMA RequestInv ==
    ASSUME Inv, NEW c \in All, IamAnswers(c) \/ Receive(c) \/ CallFails(c)
    PROVE  Inv'
<1>1. CASE CallFails(c)
    <2>1. calls' \in [All -> Call \cup {Idle}] /\ CallsInv'
        BY <1>1, ReturnsSound DEF CallFails, registry, iam, Errors
    <2> QED  BY <1>1, <2>1 DEF CallFails, Inv, TypeOK, SyncedInv, registry, iam
<1>2. CASE Receive(c)
    <2>1. routes' = routes /\ version' = version /\ catalogHash' = catalogHash
          /\ manifestHash' = manifestHash /\ UNCHANGED <<loop, attempt, iam>>
        BY <1>2 DEF Receive, registry
    <2>2. calls[c] # Idle /\ calls[c] \in Call /\ calls[c].step = "answered"
          /\ calls[c].err \in Errors /\ Returns(c, calls[c].err)
        BY <1>2 DEF Receive, Inv, TypeOK, Call
    <2>3. calls' \in [All -> Call \cup {Idle}] /\ CallsInv'
        BY <2>1, <2>2, ReturnsSound DEF iam
    <2>4. \/ fenced' = TRUE /\ synced' = FALSE /\ lastErr' = "conflict"
          \/ fenced' = fenced /\ synced' = synced /\ lastErr' = lastErr
        BY <1>2 DEF Receive, registry
    <2>5. fenced' \in BOOLEAN /\ synced' \in BOOLEAN /\ (synced' => synced)
        <3>1. fenced \in BOOLEAN /\ synced \in BOOLEAN
            BY DEF Inv, TypeOK
        <3>2. CASE fenced' = TRUE /\ synced' = FALSE
            BY <3>2, Zenon
        <3>3. CASE fenced' = fenced /\ synced' = synced
            BY <3>1, <3>3, Zenon
        <3> QED  BY <2>4, <3>2, <3>3, Zenon
    <2>6. lastErr' \in Errors
        BY <2>4 DEF Inv, TypeOK, Errors
    <2> QED  BY <2>1, <2>3, <2>5, <2>6 DEF Inv, TypeOK, SyncedInv, iam
<1>3. CASE IamAnswers(c)
    <2> DEFINE t == [calls[c] EXCEPT !.step = "answered"]
    <2>1. UNCHANGED <<registry, loop, attempt>>
        BY <1>3 DEF IamAnswers
    <2>2. calls[c] \in Call /\ calls[c].step = "sent"
          /\ Sound(calls[c], routes, version, accepted)
        BY <1>3 DEF IamAnswers, Inv, TypeOK, CallsInv
    <2>3. t \in Call /\ t.step = "answered"
          /\ t.version = calls[c].version /\ t.manifest = calls[c].manifest
        BY <2>2 DEF Call
    <2>4. \/ /\ published' = t.manifest
             /\ catalog' = IF published = NoHash THEN 1 ELSE catalog
             /\ accepted' = accepted \cup {t.manifest}
             /\ Update(c, [t EXCEPT !.catalog = catalog'])
          \/ Update(c, [t EXCEPT !.err = "conflict"]) /\ UNCHANGED iam
        BY <1>3 DEF IamAnswers
    <2> HIDE DEF t
    <2>5. t.manifest # NoHash /\ t.version <= version
          /\ (t.version = version => t.manifest = routes)
        BY <2>2, <2>3 DEF Sound, Vouches
    <2>6. t.manifest \in SUBSET Routes /\ t.manifest \in Manifests
        <3>1. t.manifest \in SUBSET Routes
            BY <2>3 DEF Call
        <3> QED  BY <2>5, <3>1 DEF Manifests, NoHash
    <2>7. CASE /\ published' = t.manifest
               /\ catalog' = IF published = NoHash THEN 1 ELSE catalog
               /\ accepted' = accepted \cup {t.manifest}
               /\ Update(c, [t EXCEPT !.catalog = catalog'])
        <3> DEFINE call == [t EXCEPT !.catalog = catalog']
        <3>1. catalog' \in 0..MaxCatalog
            BY <2>7, CatalogAssumption DEF Inv, TypeOK
        <3>2. call \in Call /\ call.step = "answered" /\ call.kind = t.kind
              /\ call.version = t.version /\ call.manifest = t.manifest
            BY <2>3, <3>1 DEF Call
        <3>3. Update(c, call)
            BY <2>7
        <3> HIDE DEF call
        <3>4. Sound(call, routes, version, accepted')
            BY <2>5, <2>7, <3>2 DEF Sound, Vouches
        <3>5. calls' \in [All -> Call \cup {Idle}] /\ CallsInv'
            BY <2>1, <2>7, <3>2, <3>3, <3>4, UpdateCall DEF registry
        <3>6. published' \in (SUBSET Routes) \cup {Newer} /\ accepted' \subseteq Manifests
            BY <2>6, <2>7 DEF Inv, TypeOK
        <3> QED  BY <2>1, <2>7, <3>1, <3>5, <3>6 DEF Inv, TypeOK, SyncedInv, registry
    <2>8. CASE Update(c, [t EXCEPT !.err = "conflict"]) /\ UNCHANGED iam
        <3> DEFINE call == [t EXCEPT !.err = "conflict"]
        <3>1. call \in Call /\ call.step = "answered" /\ call.err = "conflict"
              /\ call.version = t.version /\ call.manifest = t.manifest
            BY <2>3 DEF Call, Errors
        <3>2. Update(c, call)
            BY <2>8
        <3> HIDE DEF call
        <3>3. Sound(call, routes, version, accepted)
            BY <2>5, <3>1 DEF Sound, Vouches
        <3>4. calls' \in [All -> Call \cup {Idle}] /\ CallsInv'
            BY <2>1, <2>8, <3>1, <3>2, <3>3, UpdateCall DEF registry, iam
        <3> QED  BY <2>1, <2>8, <3>4 DEF Inv, TypeOK, SyncedInv, registry, iam
    <2> QED  BY <2>4, <2>7, <2>8
<1> QED  BY <1>1, <1>2, <1>3

-----------------------------------------------------------------------------
(* Every step keeps the invariant. *)
LEMMA NextInv == Inv /\ [Next]_vars => Inv'
<1> SUFFICES ASSUME Inv, [Next]_vars PROVE Inv'
    OBVIOUS
<1>1. ASSUME NEW r \in Routes, Register(r) PROVE Inv'
    BY <1>1, RegisterInv
<1>2. ASSUME NEW c \in Callers, SyncBegin(c) \/ CallerBeats(c) PROVE Inv'
    <2>1. c \in All /\ attempt \in 0..MaxAttempts-1
          /\ loop \in Running \cup {"off", "canceled", "failed"}
        BY DEF All, Inv, TypeOK
    <2> QED  BY <1>2, <2>1, SyncInv, BeatBeginInv DEF CallerBeats
<1>3. ASSUME NEW c \in All, Progress(c) PROVE Inv'
    BY <1>3, SyncInv, BeatSnapshotInv, BeatRecordInv, RequestInv DEF Progress
<1>4. CASE LoopBeats
    <2>1. Loop \in All /\ BeatBegin(Loop) /\ loop' \in Running
          /\ attempt' \in 0..MaxAttempts-1
        BY <1>4, CatalogAssumption DEF LoopBeats, All, Running, Inv, TypeOK
    <2> QED  BY <2>1, BeatBeginInv
<1>5. CASE StartLoop \/ CancelLoop
    BY <1>5 DEF StartLoop, CancelLoop, Running, Inv, TypeOK, CallsInv, SyncedInv, registry, iam
<1>6. CASE IamReprojects
    <2>1. catalog' \in 0..MaxCatalog
        BY <1>6, CatalogAssumption DEF IamReprojects, Inv, TypeOK
    <2> QED  BY <1>6, <2>1 DEF IamReprojects, Inv, TypeOK, CallsInv, SyncedInv, registry
<1>7. CASE Supersede
    <2>1. UNCHANGED <<routes, version, synced, lastErr, fenced, catalogHash, manifestHash,
                      calls, loop, attempt, catalog, accepted>>
        BY <1>7 DEF Supersede, registry
    <2>2. published' \in (SUBSET Routes) \cup {Newer}
        BY <1>7 DEF Supersede
    <2> QED  BY <2>1, <2>2 DEF Inv, TypeOK, CallsInv, SyncedInv
<1>8. CASE UNCHANGED vars
    BY <1>8 DEF vars, Inv, TypeOK, CallsInv, SyncedInv, registry, iam
<1> QED  BY <1>1, <1>2, <1>3, <1>4, <1>5, <1>6, <1>7, <1>8 DEF Next

(* The invariant holds in every state. *)
LEMMA Invariance == Spec => []Inv
BY InitInv, NextInv, PTL DEF Spec

-----------------------------------------------------------------------------
(***************************************************************************)
(* The registry, the calls, the loop and IAM keep their types, however     *)
(* Register, Sync and HeartbeatOnce are called.                            *)
(***************************************************************************)
THEOREM CatalogTypeCorrect == Spec => []TypeOK
<1>1. Inv => TypeOK  BY DEF Inv
<1> QED  BY <1>1, Invariance, PTL

(***************************************************************************)
(* Check answers nil only for routes that IAM has accepted: no outcome of  *)
(* Sync or HeartbeatOnce is recorded for routes it does not speak of.      *)
(***************************************************************************)
THEOREM ReadyMeansAccepted == Spec => []ReadyIsAccepted
<1>1. Inv => ReadyIsAccepted  BY DEF Inv, SyncedInv, ReadyIsAccepted, Ready
<1> QED  BY <1>1, Invariance, PTL
=============================================================================
