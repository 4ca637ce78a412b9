--------------------------- MODULE HttpAuthzProofs ---------------------------
(***************************************************************************)
(* What HttpAuthz promises of one request, for any manifest and any number *)
(* of layers.  The invariant follows the request through the layers: those *)
(* it has passed have had their decisions, the present one has had none    *)
(* until IAM has made it, and nobody has written anything before the       *)
(* layers are left.                                                        *)
(***************************************************************************)
EXTENDS HttpAuthz, TLAPS

Inside == {"enter", "select", "bearer", "api_key", "session", "bound",
           "decide", "asked", "answered", "decided"}
After  == {"returning", "looping", "done"}
Holding == {"bound", "decide", "asked", "answered", "decided"}
Replies == {"none", "decision", "status", "unreachable"}
Headers == Ids \cup {Stale}

RunRecord == [pos: 0..MaxChain + 2, step: Steps,
              credential: Credentials \cup {NoCredential}, reply: Replies]
ContextRecord == [credential: Credentials \cup {NoCredential}, authDecision: Ids, decision: Ids]
OutRecord == [header: Headers, bodies: Seq(Errors \cup {"handled"})]

Types == /\ Typed /\ run \in RunRecord /\ out \in OutRecord
         /\ Len(log) <= MaxChain

\* IAM has decided about the present layer.
HasDecision ==
    run.step = "decided" \/ (run.step = "answered" /\ run.reply = "decision")

\* Layer i has had its decision.
Passed(i) ==
    chain[i] \in Routes =>
        \E j \in DOMAIN log :
            /\ DecisionsOf(i) = {j}
            /\ log[j].route = chain[i] /\ log[j].allowed /\ log[j].fitting
            /\ log[j].credential.source = Presented

WalkInv ==
    /\ run.step = "idle" => log = <<>> /\ out.bodies = <<>> /\ run.pos = 0
    /\ run.step \in Inside =>
        /\ run.pos \in 1..Len(chain) /\ out.bodies = <<>>
        /\ \A i \in 1..run.pos - 1 : Passed(i)
    /\ run.step = "returning" => run.pos \in 1..Len(chain) + 1
    /\ run.step = "looping" => run.pos > Len(chain)

CredentialInv ==
    /\ consulted \subseteq {Presented} \cap Sources
    /\ run.step \in Sources => run.step = Presented
    /\ run.step \in Holding =>
        /\ run.credential \in Credentials /\ context.credential = run.credential
        /\ run.credential.source = Presented /\ Presented \in consulted
    /\ run.step \in Holding \ {"bound"} => Layer \in Routes
    /\ \A j \in DOMAIN log :
        log[j].credential.source = Presented /\ Presented \in consulted

LogInv ==
    /\ run.step \in Inside =>
        /\ Len(log) <= run.pos /\ (Len(log) = run.pos => HasDecision)
        /\ \A j \in DOMAIN log :
            /\ log[j].layer <= run.pos
            /\ log[j].layer = run.pos => HasDecision /\ j = Len(log)
    /\ HasDecision =>
        /\ Len(log) \in DOMAIN log /\ Decision.layer = run.pos
        /\ Decision.route = Layer /\ Decision.credential = run.credential
    /\ run.step = "decided" /\ Decision.allowed => Decision.fitting

AnswerInv ==
    /\ run.step \in Inside \ {"enter"} /\ IsRequire => out.header = 0
    /\ HandlerIsAuthorized
    /\ AnswerTellsDecision

Inv == Types /\ WalkInv /\ CredentialInv /\ LogInv /\ AnswerInv

-----------------------------------------------------------------------------
(* The initial states satisfy the invariant. *)
LEMMA InitInv == Init => Inv
<1> SUFFICES ASSUME Init PROVE Inv
    OBVIOUS
<1>1. /\ run = [pos |-> 0, step |-> "idle", credential |-> NoCredential, reply |-> "none"]
      /\ log = <<>> /\ chain = <<>> /\ consulted = {} /\ bound = {}
      /\ context = [credential |-> NoCredential, authDecision |-> 0, decision |-> 0]
      /\ input \in Inputs /\ out \in [header: {0, Stale}, bodies: {<<>>}]
    BY DEF Init
<1>2. config \in [gin: BOOLEAN, keys: BOOLEAN, sessions: BOOLEAN]
    BY DEF Init
<1>3. session \in [token: 1..MaxToken, live: BOOLEAN]
    BY HttpAuthzAssumption DEF Init
<1>4. canceled \in BOOLEAN
    BY Zenon DEF Init
<1>5. run \in RunRecord
    BY <1>1, HttpAuthzAssumption DEF RunRecord, Steps, Replies
<1>6. out.bodies = <<>> /\ out \in OutRecord
    <2>1. PICK h \in {0, Stale} : out = [header |-> h, bodies |-> <<>>]
        BY <1>1
    <2>2. h \in Headers
        BY HttpAuthzAssumption DEF Headers, Ids
    <2> QED  BY <2>1, <2>2 DEF OutRecord
<1>7. Typed
    BY <1>1, <1>2, <1>3, <1>4, <1>5, <1>6, HttpAuthzAssumption
       DEF Typed, RunRecord, OutRecord, Headers, Ids, Steps, Replies
<1>8. Types
    BY <1>1, <1>5, <1>6, <1>7, HttpAuthzAssumption DEF Types
<1>9. WalkInv /\ CredentialInv /\ LogInv /\ AnswerInv
    BY <1>1, <1>6 DEF WalkInv, CredentialInv, LogInv, AnswerInv, HasDecision, Inside, Sources,
                Holding, HandlerIsAuthorized, Handled, AnswerTellsDecision
<1> QED  BY <1>8, <1>9 DEF Inv

-----------------------------------------------------------------------------
(* A layer that refuses without a decision of IAM keeps the invariant. *)
LEMMA RefuseInv ==
    ASSUME Inv, run.step \in Inside,
           NEW e \in Errors \ {"forbidden"}, NEW header \in Headers, IsRequire => header = 0,
           Refuse(e, header), UNCHANGED <<setup, input, context, world, log>>,
           consulted \subseteq consulted', consulted' \subseteq {Presented} \cap Sources
    PROVE  Inv'
<1>1. /\ run' \in RunRecord /\ run'.pos = run.pos /\ run'.step = "returning"
      /\ run'.credential = run.credential /\ run'.reply = run.reply
    BY DEF Refuse, Go, Inv, Types, RunRecord, Steps
<1>2. out.bodies = <<>> /\ run.pos \in 1..Len(chain)
    BY DEF Inv, WalkInv
<1>3. /\ out' \in OutRecord /\ out'.header = header /\ Len(out'.bodies) = 1
      /\ out'.bodies[1] = e /\ DOMAIN out'.bodies = 1..1
    BY <1>2 DEF Refuse, OutRecord, Inv, Types, Typed
<1>4. Presented' = Presented
    BY DEF Presented, HeaderPresent, SessionPresent, setup
<1>5. e # "handled" /\ e # "forbidden"
    BY DEF Errors
<1>6. Types'
    BY <1>1, <1>3 DEF Inv, Types, Typed, RunRecord, OutRecord, Headers, setup, world
<1>7. WalkInv' /\ LogInv'
    BY <1>1, <1>2 DEF WalkInv, LogInv, HasDecision, Inside, setup
<1>8. CredentialInv'
    BY <1>1, <1>4 DEF Inv, CredentialInv, Sources, Holding
<1>9. AnswerInv'
    BY <1>1, <1>3, <1>5 DEF AnswerInv, HandlerIsAuthorized, Handled, AnswerTellsDecision,
                            Inside, IsRequire, Layer, setup
<1> QED  BY <1>6, <1>7, <1>8, <1>9 DEF Inv

(* A step from one place inside a layer to another, before IAM has decided  *)
(* about it, keeps the invariant.                                           *)
LEMMA MoveInv ==
    ASSUME Inv, run.step \in Inside, ~HasDecision,
           run' \in RunRecord, run'.step \in Inside, run'.pos = run.pos, ~HasDecision',
           out' \in OutRecord, out'.bodies = out.bodies,
           IsRequire /\ run'.step # "enter" => out'.header = 0,
           Typed', CredentialInv', UNCHANGED <<setup, input, log>>
    PROVE  Inv'
<1>1. Presented' = Presented
    BY DEF Presented, HeaderPresent, SessionPresent, setup
<1>2. Types'
    BY DEF Inv, Types, Headers, OutRecord, RunRecord
<1>3. WalkInv'
    <2>1. run'.pos \in 1..Len(chain) /\ out'.bodies = <<>> /\ run'.step \notin After \cup {"idle"}
        BY DEF Inv, WalkInv, Inside, After
    <2>2. \A i \in 1..run'.pos - 1 : Passed(i)'
        BY <1>1 DEF Inv, WalkInv, Passed, DecisionsOf, setup
    <2> QED  BY <2>1, <2>2 DEF WalkInv, setup, After
<1>4. LogInv'
    <2>1. Len(log) \in Nat /\ run.pos \in Nat
        BY DEF Inv, Types, Typed, RunRecord
    <2>2. Len(log) < run.pos /\ \A j \in DOMAIN log : log[j].layer <= run.pos /\ log[j].layer # run.pos
        BY <2>1 DEF Inv, LogInv
    <2>3. log' = log
        BY DEF setup
    <2>4. run'.step # "decided"
        BY DEF HasDecision
    <2> QED  BY <2>1, <2>2, <2>3, <2>4 DEF LogInv
<1>5. AnswerInv'
    <2>1. out'.bodies = <<>> /\ run'.step \notin After
        BY DEF Inv, WalkInv, Inside, After
    <2> QED  BY <2>1 DEF AnswerInv, HandlerIsAuthorized, Handled, AnswerTellsDecision,
                         IsRequire, Layer, After, setup
<1> QED  BY <1>2, <1>3, <1>4, <1>5 DEF Inv

(* A request that is passed on keeps its types. *)
LEMMA PassOnTypes ==
    ASSUME Inv, run.step \in Inside, NEW header \in Headers, PassOn(header),
           context' \in ContextRecord,
           UNCHANGED <<setup, input, world, log, consulted>>
    PROVE  Typed' /\ run' \in RunRecord /\ out' \in OutRecord
<1> DEFINE next == run.pos + 1
<1>1. next \in 1..MaxChain + 1 /\ run \in RunRecord /\ out \in OutRecord
      /\ out.bodies \in Seq(Errors \cup {"handled"})
    BY HttpAuthzAssumption DEF Inv, WalkInv, Types, Typed, OutRecord
<1> HIDE DEF next
<1>2. \/ /\ run' = [run EXCEPT !.pos = next, !.step = "enter", !.credential = NoCredential]
         /\ out' = [out EXCEPT !.header = header]
      \/ /\ run' = [run EXCEPT !.pos = next, !.step = "returning"]
         /\ out' = [header |-> header, bodies |-> Append(out.bodies, "handled")]
    BY DEF PassOn, next
<1>3. run' \in RunRecord /\ run'.step \in {"enter", "returning"}
    <2>1. next \in 0..MaxChain + 2
        BY <1>1, HttpAuthzAssumption
    <2> QED  BY <1>1, <1>2, <2>1 DEF RunRecord, Steps
<1>4. out' \in OutRecord
    BY <1>1, <1>2 DEF OutRecord
<1>5. Typed'
    BY <1>3, <1>4 DEF ContextRecord, Inv, Types, Typed, RunRecord, OutRecord, Headers, Replies, setup, world
<1> QED  BY <1>3, <1>4, <1>5

(* A layer that has had what it wants, and passes the request on, keeps the *)
(* invariant: the next layer has had no decision yet, and behind the last   *)
(* one every layer has had its own.                                         *)
LEMMA PassOnInv ==
    ASSUME Inv, run.step \in Inside, Passed(run.pos),
           NEW header \in Headers, PassOn(header), Typed',
           UNCHANGED <<setup, input, world, log, consulted>>,
           run.pos = Len(chain) /\ Layer \in Routes =>
               /\ header = Len(log) /\ Decision.allowed
               /\ context'.decision = Len(log) /\ context'.authDecision = Len(log)
               /\ Decision.credential = context'.credential
    PROVE  Inv'
<1> DEFINE next == run.pos + 1
<1>1. run.pos \in 1..Len(chain) /\ out.bodies = <<>> /\ Len(chain) \in Nat
      /\ Len(chain) <= MaxChain /\ \A i \in 1..run.pos : Passed(i)
    BY DEF Inv, WalkInv, Types, Typed
<1>2. Presented' = Presented
    BY DEF Presented, HeaderPresent, SessionPresent, setup
<1>3. \A i \in 1..run.pos : Passed(i)'
    BY <1>1, <1>2 DEF Passed, DecisionsOf, setup
<1>4. CASE next <= Len(chain)
    <2>1. /\ run' \in RunRecord /\ run'.pos = next /\ run'.step = "enter"
          /\ out' \in OutRecord /\ out'.bodies = <<>>
        <3>1. /\ run' = [run EXCEPT !.pos = next, !.step = "enter", !.credential = NoCredential]
              /\ out' = [out EXCEPT !.header = header]
            BY <1>4 DEF PassOn
        <3>2. next \in 0..MaxChain + 2 /\ run \in RunRecord /\ out \in OutRecord
            BY <1>1, <1>4, HttpAuthzAssumption DEF Inv, Types
        <3> HIDE DEF next
        <3>3. run' \in RunRecord /\ run'.pos = next /\ run'.step = "enter"
            BY <3>1, <3>2 DEF RunRecord, Steps
        <3>4. out' \in OutRecord /\ out'.bodies = <<>>
            BY <1>1, <3>1, <3>2 DEF OutRecord
        <3> QED  BY <3>3, <3>4
    <2>2. Types'
        BY <2>1 DEF Inv, Types, Headers, OutRecord, RunRecord
    <2>3. WalkInv'
        BY <1>1, <1>3, <1>4, <2>1 DEF WalkInv, setup
    <2>4. CredentialInv'
        BY <1>2, <2>1 DEF Inv, CredentialInv, Sources, Holding
    <2>5. LogInv'
        <3> log \in Seq(Decisions) /\ run \in RunRecord
            BY DEF Inv, Types, Typed
        <3> \A j \in DOMAIN log : log[j] \in Decisions
            OBVIOUS
        <3>1. Len(log) \in Nat /\ run.pos \in Nat /\ \A j \in DOMAIN log : log[j].layer \in Nat
            BY DEF RunRecord, Decisions
        <3>2. Len(log) <= run.pos /\ \A j \in DOMAIN log : log[j].layer <= run.pos
            BY DEF Inv, LogInv
        <3>3. log' = log /\ ~HasDecision'
            BY <2>1 DEF HasDecision
        <3> QED  BY <2>1, <3>1, <3>2, <3>3 DEF LogInv
    <2>6. AnswerInv'
        BY <2>1 DEF AnswerInv, HandlerIsAuthorized, Handled, AnswerTellsDecision
    <2> QED  BY <2>2, <2>3, <2>4, <2>5, <2>6 DEF Inv
<1>5. CASE next > Len(chain)
    <2>1. /\ run' \in RunRecord /\ run'.pos = next /\ run'.step = "returning"
          /\ run.pos = Len(chain)
        <3>1. run' = [run EXCEPT !.pos = next, !.step = "returning"]
            BY <1>1, <1>5 DEF PassOn
        <3>2. next \in 0..MaxChain + 2 /\ run \in RunRecord /\ run.pos = Len(chain)
            BY <1>1, <1>5, HttpAuthzAssumption DEF Inv, Types
        <3> HIDE DEF next
        <3> QED  BY <3>1, <3>2 DEF RunRecord, Steps
    <2>2. /\ out' \in OutRecord /\ out'.header = header /\ Len(out'.bodies) = 1
          /\ out'.bodies[1] = "handled" /\ DOMAIN out'.bodies = 1..1
        BY <1>1, <1>5 DEF PassOn, OutRecord, Inv, Types, Typed
    <2>3. Types'
        BY <2>1, <2>2 DEF Inv, Types, Headers, OutRecord, RunRecord
    <2>4. WalkInv'
        BY <1>1, <2>1 DEF WalkInv, Inside, setup
    <2>5. CredentialInv'
        BY <1>2, <2>1 DEF Inv, CredentialInv, Sources, Holding
    <2>6. LogInv'
        BY <2>1 DEF LogInv, HasDecision, Inside
    <2>7. HandlerIsAuthorized'
        <3>1. \A i \in DOMAIN chain' : Passed(i)'
            BY <1>3, <2>1 DEF setup, Inv, Types, Typed
        <3>2. chain'[Len(chain')] = Layer /\ log' = log
            BY <2>1 DEF setup, Layer
        <3> QED  BY <2>1, <3>1, <3>2 DEF HandlerIsAuthorized, Passed, Decision
    <2>8. AnswerTellsDecision'
        BY <2>1, <2>2 DEF AnswerTellsDecision, Decision, Layer, setup
    <2>9. AnswerInv'
        BY <2>1, <2>7, <2>8 DEF AnswerInv, Inside
    <2> QED  BY <2>3, <2>4, <2>5, <2>6, <2>9 DEF Inv
<1> QED  BY <1>1, <1>4, <1>5 DEF Inv, Types, RunRecord

(* A step on, inside a layer. *)
LEMMA GoInv ==
    ASSUME Inv, run.step \in Inside, ~HasDecision,
           NEW s \in Inside \ {"enter", "answered", "decided"}, Go(s),
           out' \in OutRecord, out'.bodies = out.bodies, IsRequire => out'.header = 0,
           s \in Sources => s = Presented,
           s \in Holding => run.step \in Holding /\ Layer \in Routes,
           UNCHANGED <<setup, input, context, world, log, consulted>>
    PROVE  Inv'
<1>1. /\ run' \in RunRecord /\ run'.pos = run.pos /\ run'.step = s
      /\ run'.credential = run.credential /\ run'.reply = run.reply
    BY DEF Go, Inv, Types, RunRecord, Steps, Inside
<1>2. ~HasDecision'
    BY <1>1 DEF HasDecision
<1>3. Presented' = Presented
    BY DEF Presented, HeaderPresent, SessionPresent, setup
<1>4. CredentialInv'
    BY <1>1, <1>3 DEF Inv, CredentialInv, Layer, setup
<1>5. Typed'
    BY <1>1 DEF Inv, Types, Typed, RunRecord, OutRecord, Headers, Replies, setup, world,
                Inside, Holding, CredentialInv
<1> QED  BY <1>1, <1>2, <1>4, <1>5, MoveInv

-----------------------------------------------------------------------------
(* The layers up to the decision. *)

LEMMA LayerInv ==
    ASSUME Inv, Enter \/ Select \/ Bound \/ Ask \/ AskByKey
    PROVE  Inv'
<1>1. run \in RunRecord /\ out \in OutRecord /\ 0 \in Headers /\ out.header \in Headers
    BY HttpAuthzAssumption DEF Inv, Types, OutRecord, Headers, Ids
<1>2. CASE Enter
    <2> DEFINE header == IF IsRequire THEN 0 ELSE out.header
    <2>1. run.step \in Inside /\ ~HasDecision /\ header \in Headers
        BY <1>1, <1>2 DEF Enter, Inside, HasDecision
    <2>2. consulted' = consulted /\ consulted \subseteq {Presented} \cap Sources
          /\ UNCHANGED <<setup, input, context, world, log>>
        BY <1>2 DEF Enter, Inv, CredentialInv
    <2>3. CASE Refuse("protocol", header)
        BY <2>1, <2>2, <2>3, RefuseInv DEF Errors
    <2>4. CASE Go("select") /\ out' = [out EXCEPT !.header = header]
        <3>1. out' \in OutRecord /\ out'.bodies = out.bodies /\ out'.header = header
            BY <1>1, <2>1, <2>4 DEF OutRecord
        <3> QED  BY <2>1, <2>2, <2>4, <3>1, GoInv DEF Inside, Sources, Holding
    <2> QED  BY <1>2, <2>3, <2>4 DEF Enter
<1>3. CASE Select
    <2>1. run.step \in Inside /\ run.step # "enter" /\ ~HasDecision
        BY <1>3 DEF Select, Inside, HasDecision
    <2>2. consulted' = consulted /\ consulted \subseteq {Presented} \cap Sources
          /\ UNCHANGED <<setup, input, context, world, log>> /\ (IsRequire => out.header = 0)
        BY <1>3, <2>1 DEF Select, Inv, CredentialInv, AnswerInv
    <2>3. Presented \in (Errors \ {"forbidden"}) \cup Sources
        BY DEF Presented, Errors, Sources
    <2>4. CASE Presented \in Sources
        <3>1. Presented \in Inside \ {"enter", "answered", "decided"} /\ Presented \notin Holding
            BY <2>4 DEF Sources, Inside, Holding
        <3>2. Go(Presented) /\ out' = out
            BY <1>3, <2>4 DEF Select
        <3> QED  BY <1>1, <2>1, <2>2, <3>1, <3>2, GoInv
    <2>5. CASE Presented \notin Sources
        BY <1>1, <1>3, <2>1, <2>2, <2>3, <2>5, RefuseInv DEF Select
    <2> QED  BY <2>4, <2>5
<1>4. CASE Bound
    <2>1. run.step = "bound" /\ run.step \in Inside /\ ~HasDecision
          /\ UNCHANGED <<setup, input, context, world, log, consulted>>
        BY <1>4 DEF Bound, Inside, HasDecision
    <2>2. CASE IsRequire
        <3>1. Go("decide") /\ out' = out /\ out.header = 0
            BY <1>4, <2>1, <2>2 DEF Bound, Inv, AnswerInv
        <3> QED  BY <1>1, <2>1, <2>2, <3>1, GoInv DEF Inside, Sources, Holding, IsRequire
    <2>3. CASE ~IsRequire
        <3>1. PassOn(out.header)
            BY <1>4, <2>3 DEF Bound
        <3>2. Passed(run.pos) /\ Layer \notin Routes
            BY <2>3 DEF Passed, IsRequire, Layer
        <3>3. Typed'
            <4>1. context' \in ContextRecord
                BY <2>1 DEF Inv, Types, Typed, ContextRecord
            <4> QED  BY <1>1, <2>1, <3>1, <4>1, PassOnTypes
        <3> QED  BY <1>1, <2>1, <3>1, <3>2, <3>3, PassOnInv DEF RunRecord
    <2> QED  BY <2>2, <2>3
<1>5. CASE Ask \/ AskByKey
    <2>1. run.step = "decide" /\ run.step \in Inside /\ ~HasDecision /\ SendDecision
          /\ UNCHANGED <<setup, input, context, world, log, consulted>>
        BY <1>5 DEF Ask, AskByKey, Inside, HasDecision
    <2>2. Layer \in Routes /\ out.header = 0 /\ consulted \subseteq {Presented} \cap Sources
        BY <2>1 DEF Inv, AnswerInv, CredentialInv, IsRequire, Holding
    <2>3. CASE Refuse("canceled", out.header)
        BY <1>1, <2>1, <2>2, <2>3, RefuseInv DEF Errors
    <2>4. CASE Go("asked") /\ out' = out
        BY <1>1, <2>1, <2>2, <2>4, GoInv DEF Inside, Sources, Holding
    <2> QED  BY <2>1, <2>3, <2>4 DEF SendDecision
<1> QED  BY <1>2, <1>3, <1>4, <1>5

(* The collaborators that a credential is given to. *)

LEMMA BindInv ==
    ASSUME Inv, run.step \in Sources, NEW token \in 0..MaxToken,
           BindCredential(token), Consult, UNCHANGED <<setup, input, world, log>>
    PROVE  Inv'
<1> DEFINE credential == [source |-> run.step, token |-> token]
<1>1. credential \in Credentials /\ credential.source = run.step
    BY DEF Credentials
<1>2. run' = [run EXCEPT !.credential = credential, !.step = "bound"] /\ out' = out
      /\ context' = [context EXCEPT !.credential = credential, !.authDecision = 0]
    BY DEF BindCredential
<1> HIDE DEF credential
<1>3. /\ run' \in RunRecord /\ run'.pos = run.pos /\ run'.step = "bound"
      /\ run'.credential = credential /\ run'.reply = run.reply
    BY <1>1, <1>2 DEF Inv, Types, RunRecord, Steps
<1>4. context'.credential = credential /\ context' \in ContextRecord
    <2>1. 0 \in Ids
        BY HttpAuthzAssumption DEF Ids
    <2>2. context \in ContextRecord
        BY DEF Inv, Types, Typed, ContextRecord
    <2> QED  BY <1>1, <1>2, <2>1, <2>2 DEF ContextRecord
<1>5. Presented' = Presented /\ run.step = Presented /\ consulted' = consulted \cup {Presented}
    BY DEF Presented, HeaderPresent, SessionPresent, setup, Consult, Inv, CredentialInv
<1>6. CredentialInv'
    BY <1>1, <1>3, <1>4, <1>5 DEF Inv, CredentialInv, Sources, Holding
<1>7. credential # NoCredential
    BY <1>1 DEF NoCredential, Sources
<1>8. Typed'
    BY <1>1, <1>3, <1>4, <1>5, <1>2, <1>7
       DEF Inv, Types, Typed, RunRecord, ContextRecord, Replies, setup, world
<1>9. run.step \in Inside \ {"enter"} /\ ~HasDecision /\ ~HasDecision'
    BY <1>3 DEF Sources, Inside, HasDecision
<1>10. out' \in OutRecord /\ (IsRequire => out'.header = 0)
    BY <1>2, <1>9 DEF Inv, Types, AnswerInv
<1> QED  BY <1>2, <1>3, <1>6, <1>8, <1>9, <1>10, MoveInv DEF Inside

LEMMA CollaboratorInv ==
    ASSUME Inv, VerifyBearer \/ IdentifyKey \/ ResolveSession
    PROVE  Inv'
<1>1. run.step \in Sources /\ Consult /\ UNCHANGED <<setup, input, world, log>>
    BY DEF VerifyBearer, IdentifyKey, ResolveSession, Sources
<1>2. run.step \in Inside \ {"enter"} /\ run.step = Presented
    BY <1>1 DEF Sources, Inside, Inv, CredentialInv
<1>3. ASSUME NEW e \in Errors \ {"forbidden"}, Refuse(e, out.header), context' = context
      PROVE  Inv'
    <2>1. out.header \in Headers /\ (IsRequire => out.header = 0)
        BY <1>2 DEF Inv, Types, OutRecord, AnswerInv
    <2>2. consulted \subseteq consulted' /\ consulted' \subseteq {Presented} \cap Sources
        BY <1>1, <1>2 DEF Consult, Inv, CredentialInv
    <2> QED  BY <1>1, <1>2, <1>3, <2>1, <2>2, RefuseInv
<1>4. 0 \in 0..MaxToken /\ session.token \in 0..MaxToken
    BY HttpAuthzAssumption DEF Inv, Types, Typed
<1>5. ASSUME NEW token \in 0..MaxToken, BindCredential(token) PROVE Inv'
    BY <1>1, <1>5, BindInv
<1>6. Canceled \subseteq {"canceled"}
    BY DEF Canceled
<1>7. CASE VerifyBearer
    BY <1>3, <1>4, <1>5, <1>6, <1>7 DEF VerifyBearer, Errors
<1>8. CASE IdentifyKey
    BY <1>3, <1>4, <1>5, <1>6, <1>8 DEF IdentifyKey, Errors
<1>9. CASE ResolveSession
    BY <1>3, <1>4, <1>5, <1>6, <1>9 DEF ResolveSession, SessionErrors, Errors
<1> QED  BY <1>7, <1>8, <1>9

-----------------------------------------------------------------------------
(* The decision. *)

LEMMA IamDecidesInv ==
    ASSUME Inv, IamDecides
    PROVE  Inv'
<1>1. PICK allowed \in BOOLEAN, fitting \in BOOLEAN :
          log' = Append(log, [layer |-> run.pos, route |-> Layer, credential |-> run.credential,
                              allowed |-> allowed, fitting |-> fitting])
    BY DEF IamDecides
<1> DEFINE d == [layer |-> run.pos, route |-> Layer, credential |-> run.credential,
                 allowed |-> allowed, fitting |-> fitting]
<1>2. run.step = "asked" /\ run' = [run EXCEPT !.step = "answered", !.reply = "decision"]
      /\ UNCHANGED <<setup, input, context, out, world, consulted>>
    BY DEF IamDecides
<1>3. /\ run.pos \in 1..Len(chain) /\ Len(chain) \in Nat /\ Len(chain) <= MaxChain
      /\ run \in RunRecord /\ log \in Seq(Decisions) /\ Len(log) \in Nat
      /\ out.bodies = <<>> /\ \A i \in 1..run.pos - 1 : Passed(i)
    BY <1>2 DEF Inv, WalkInv, Types, Typed, Inside
<1>4. run.credential \in Credentials /\ run.credential.source = Presented
      /\ Presented \in consulted /\ Layer \in Routes /\ context.credential = run.credential
    BY <1>2 DEF Inv, CredentialInv, Holding
<1>5. d \in Decisions /\ d.layer = run.pos /\ d.credential = run.credential /\ d.route = Layer
    <2>1. run.pos \in 1..MaxChain
        BY <1>3, HttpAuthzAssumption
    <2> QED  BY <1>4, <2>1 DEF Decisions
<1>6. log' = Append(log, d)
    BY <1>1
<1> HIDE DEF d
<1>7. /\ log' \in Seq(Decisions) /\ Len(log') = Len(log) + 1 /\ log'[Len(log')] = d
      /\ DOMAIN log' = 1..Len(log) + 1 /\ DOMAIN log = 1..Len(log)
      /\ \A j \in DOMAIN log : log'[j] = log[j]
    BY <1>3, <1>5, <1>6
<1>8. ~HasDecision /\ Len(log) < run.pos
      /\ \A j \in DOMAIN log : log[j].layer <= run.pos /\ log[j].layer # run.pos
    <2>1. ~HasDecision
        BY <1>2 DEF HasDecision
    <2> QED  BY <1>2, <1>3, <2>1 DEF Inv, LogInv, Inside
<1>9. /\ run' \in RunRecord /\ run'.pos = run.pos /\ run'.step = "answered"
      /\ run'.credential = run.credential /\ run'.reply = "decision"
    BY <1>2, <1>3 DEF RunRecord, Steps, Replies
<1>10. Presented' = Presented /\ Layer' = Layer
    BY <1>2, <1>9 DEF Presented, HeaderPresent, SessionPresent, Layer, setup
<1>11. Types'
    <2>1. run.credential # NoCredential
        BY <1>4 DEF Credentials, NoCredential, Sources
    <2>2. Len(log') <= MaxChain
        BY <1>3, <1>7, <1>8, HttpAuthzAssumption
    <2> QED  BY <1>2, <1>7, <1>9, <2>1, <2>2
             DEF Inv, Types, Typed, RunRecord, Replies, setup, world, Headers, OutRecord
<1>12. WalkInv'
    <2>1. ASSUME NEW i \in 1..run.pos - 1 PROVE Passed(i)'
        <3>1. DecisionsOf(i)' = DecisionsOf(i)
            BY <1>3, <1>5, <1>7 DEF DecisionsOf
        <3>2. chain' = chain /\ Passed(i)
            BY <1>2, <1>3 DEF setup
        <3> QED  BY <1>7, <1>10, <3>1, <3>2 DEF Passed
    <2> QED  BY <1>2, <1>3, <1>9, <2>1 DEF WalkInv, setup
<1>13. CredentialInv'
    BY <1>2, <1>4, <1>5, <1>7, <1>9, <1>10 DEF Inv, CredentialInv, Sources, Holding
<1>14. LogInv'
    <2>1. HasDecision' /\ Decision' = d
        BY <1>7, <1>9 DEF HasDecision, Decision
    <2>2. Len(log') <= run'.pos /\ Len(log') \in DOMAIN log'
        BY <1>3, <1>7, <1>8, <1>9
    <2>3. ASSUME NEW j \in DOMAIN log'
          PROVE  log'[j].layer <= run'.pos /\ (log'[j].layer = run'.pos => j = Len(log'))
        <3>1. CASE j = Len(log')
            BY <1>3, <1>5, <1>7, <1>9, <3>1
        <3>2. CASE j \in DOMAIN log
            BY <1>7, <1>8, <1>9, <3>2
        <3> QED  BY <1>3, <1>7, <3>1, <3>2
    <2> QED  BY <1>5, <1>9, <1>10, <2>1, <2>2, <2>3 DEF LogInv
<1>15. AnswerInv'
    <2>1. out.header = 0
        BY <1>2, <1>4 DEF Inv, AnswerInv, Inside, IsRequire
    <2> QED  BY <1>2, <1>3, <1>9, <2>1 DEF AnswerInv, HandlerIsAuthorized, Handled,
                                           AnswerTellsDecision
<1> QED  BY <1>11, <1>12, <1>13, <1>14, <1>15 DEF Inv

LEMMA IamFailsInv ==
    ASSUME Inv, IamFails
    PROVE  Inv'
<1>1. PICK reply \in {"status", "unreachable"} :
          run' = [run EXCEPT !.step = "answered", !.reply = reply]
    BY DEF IamFails
<1>2. run.step = "asked" /\ UNCHANGED <<setup, input, context, out, world, log, consulted>>
    BY DEF IamFails
<1>3. /\ run' \in RunRecord /\ run'.pos = run.pos /\ run'.step = "answered"
      /\ run'.credential = run.credential /\ run'.reply = reply
    BY <1>1 DEF Inv, Types, RunRecord, Steps, Replies
<1>4. Presented' = Presented /\ Layer' = Layer
    BY <1>2, <1>3 DEF Presented, HeaderPresent, SessionPresent, Layer, setup
<1>5. ~HasDecision /\ ~HasDecision' /\ run.step \in Inside /\ run'.step \in Inside
    BY <1>2, <1>3 DEF HasDecision, Inside
<1>6. CredentialInv'
    BY <1>2, <1>3, <1>4 DEF Inv, CredentialInv, Sources, Holding
<1>7. Typed'
    <2>1. run.credential # NoCredential
        BY <1>2 DEF Inv, Types, Typed
    <2> QED  BY <1>2, <1>3, <2>1 DEF Inv, Types, Typed, RunRecord, Replies, setup, world
<1>8. out' \in OutRecord /\ (IsRequire => out'.header = 0)
    BY <1>2 DEF Inv, Types, AnswerInv, Inside
<1> QED  BY <1>2, <1>3, <1>5, <1>6, <1>7, <1>8, MoveInv

LEMMA ReceiveInv ==
    ASSUME Inv, Receive
    PROVE  Inv'
<1>1. run.step = "answered" /\ run \in RunRecord /\ out.header \in Headers
      /\ UNCHANGED <<setup, input, context, world, log, consulted>>
    BY DEF Receive, Inv, Types, OutRecord
<1>2. run.step \in Inside \ {"enter"} /\ consulted \subseteq {Presented} \cap Sources
      /\ (IsRequire => out.header = 0)
    BY <1>1 DEF Inside, Inv, CredentialInv, AnswerInv
<1>3. ASSUME NEW e \in Errors \ {"forbidden"}, Refuse(e, out.header) PROVE Inv'
    BY <1>1, <1>2, <1>3, RefuseInv
<1>4. CASE /\ run.reply = "decision" /\ (Decision.allowed => Decision.fitting)
           /\ run' = [run EXCEPT !.step = "decided", !.reply = "none"] /\ out' = out
    <2>1. HasDecision
        BY <1>1, <1>4 DEF HasDecision
    <2>2. /\ run' \in RunRecord /\ run'.pos = run.pos /\ run'.step = "decided"
          /\ run'.credential = run.credential
        BY <1>1, <1>4 DEF RunRecord, Steps, Replies
    <2>3. Presented' = Presented /\ Layer' = Layer /\ Decision' = Decision /\ chain' = chain
          /\ log' = log /\ HasDecision'
        BY <1>1, <2>2 DEF Presented, HeaderPresent, SessionPresent, Layer, Decision, setup,
                          HasDecision
    <2>4. Types'
        <3>1. run.credential # NoCredential
            BY <1>1 DEF Inv, Types, Typed
        <3> QED  BY <1>1, <1>4, <2>2, <3>1
                 DEF Inv, Types, Typed, RunRecord, Replies, setup, world, Headers, OutRecord
    <2>5. WalkInv'
        <3>1. \A i \in 1..run.pos - 1 : Passed(i)'
            BY <1>1, <1>2, <2>3 DEF Inv, WalkInv, Passed, DecisionsOf
        <3>2. run.pos \in 1..Len(chain) /\ out'.bodies = <<>>
            BY <1>2, <1>4 DEF Inv, WalkInv
        <3> QED  BY <2>2, <2>3, <3>1, <3>2 DEF WalkInv
    <2>6. CredentialInv'
        BY <1>1, <2>2, <2>3 DEF Inv, CredentialInv, Sources, Holding
    <2>7. LogInv'
        BY <1>2, <1>4, <2>1, <2>2, <2>3 DEF Inv, LogInv
    <2>8. AnswerInv'
        <3>1. out.bodies = <<>> /\ IsRequire' = IsRequire
            BY <1>1, <1>2, <2>3 DEF Inv, WalkInv, IsRequire
        <3> QED  BY <1>2, <1>4, <2>2, <3>1
                 DEF AnswerInv, HandlerIsAuthorized, Handled, AnswerTellsDecision
    <2> QED  BY <2>4, <2>5, <2>6, <2>7, <2>8 DEF Inv
<1> QED  BY <1>3, <1>4 DEF Receive, Errors

LEMMA ConcludeInv ==
    ASSUME Inv, Conclude
    PROVE  Inv'
<1>1. run.step = "decided" /\ run.step \in Inside /\ HasDecision
      /\ context' = [context EXCEPT !.authDecision = Len(log), !.decision = Len(log)]
      /\ UNCHANGED <<setup, input, world, log, consulted>>
    BY DEF Conclude, Inside, HasDecision
<1>2. /\ run \in RunRecord /\ out \in OutRecord /\ context \in ContextRecord
      /\ Len(log) \in Ids /\ Len(log) \in Headers /\ log \in Seq(Decisions)
    BY DEF Inv, Types, Typed, ContextRecord, Ids, Headers
<1>3. /\ context' \in ContextRecord /\ context'.credential = context.credential
      /\ context'.decision = Len(log) /\ context'.authDecision = Len(log)
    BY <1>1, <1>2 DEF ContextRecord
<1>4. /\ Len(log) \in DOMAIN log /\ Decision.layer = run.pos /\ Decision.route = Layer
      /\ Decision.credential = run.credential /\ (Decision.allowed => Decision.fitting)
      /\ \A j \in DOMAIN log : log[j].layer = run.pos => j = Len(log)
    BY <1>1 DEF Inv, LogInv
<1>5. context.credential = run.credential /\ run.credential.source = Presented
      /\ consulted \subseteq {Presented} \cap Sources /\ Layer \in Routes
    BY <1>1 DEF Inv, CredentialInv, Holding
<1>6. CASE Decision.allowed
    <2>1. PassOn(Len(log))
        BY <1>6 DEF Conclude
    <2>2. Typed'
        BY <1>1, <1>2, <1>3, <2>1, PassOnTypes
    <2>3. Passed(run.pos)
        <3>1. DecisionsOf(run.pos) = {Len(log)}
            BY <1>4 DEF DecisionsOf, Decision
        <3> QED  BY <1>4, <1>5, <1>6, <3>1 DEF Passed, Decision, Layer
    <2> QED  BY <1>1, <1>2, <1>3, <1>4, <1>5, <1>6, <2>1, <2>2, <2>3, PassOnInv
<1>7. CASE ~Decision.allowed
    <2>1. Refuse("forbidden", Len(log))
        BY <1>7 DEF Conclude
    <2>2. out.bodies = <<>> /\ run.pos \in 1..Len(chain)
        BY <1>1 DEF Inv, WalkInv
    <2>3. /\ run' \in RunRecord /\ run'.pos = run.pos /\ run'.step = "returning"
          /\ run'.credential = run.credential /\ run'.reply = run.reply
        BY <1>2, <2>1 DEF Refuse, Go, RunRecord, Steps
    <2>4. /\ out' \in OutRecord /\ out'.header = Len(log) /\ Len(out'.bodies) = 1
          /\ out'.bodies[1] = "forbidden" /\ DOMAIN out'.bodies = 1..1
        BY <1>2, <2>1, <2>2 DEF Refuse, OutRecord, Errors
    <2>5. Presented' = Presented /\ Decision' = Decision /\ chain' = chain /\ log' = log
        BY <1>1 DEF Presented, HeaderPresent, SessionPresent, Decision, setup
    <2>6. Types'
        BY <1>1, <1>3, <2>3, <2>4
           DEF Inv, Types, Typed, RunRecord, OutRecord, ContextRecord, Headers, Replies, setup, world
    <2>7. WalkInv' /\ LogInv'
        BY <2>2, <2>3, <2>5 DEF WalkInv, LogInv, HasDecision, Inside
    <2>8. CredentialInv'
        BY <1>1, <2>3, <2>5 DEF Inv, CredentialInv, Sources, Holding
    <2>9. AnswerInv'
        BY <1>3, <1>7, <2>3, <2>4, <2>5
           DEF AnswerInv, HandlerIsAuthorized, Handled, AnswerTellsDecision, Inside
    <2> QED  BY <2>6, <2>7, <2>8, <2>9 DEF Inv
<1> QED  BY <1>6, <1>7

-----------------------------------------------------------------------------
(* The way back, the start and the others. *)

LEMMA WayBackInv ==
    ASSUME Inv, Return \/ Bridge \/ GinLoop
    PROVE  Inv'
<1>1. /\ run.step \in {"returning", "looping"} /\ run \in RunRecord
      /\ UNCHANGED <<setup, input, context, world, log, consulted>>
      /\ Len(chain) \in Nat /\ Len(chain) <= MaxChain /\ out \in OutRecord
    BY DEF Return, Bridge, GinLoop, Inv, Types, Typed
<1>2. /\ run' \in RunRecord /\ run'.step \in {"looping", "done"} /\ out' = out
      /\ run'.step = "looping" => run'.pos > Len(chain)
      /\ run'.credential = run.credential /\ run'.reply = run.reply
    <2>1. CASE Return
        BY <1>1, <2>1 DEF Return, Go, RunRecord, Steps
    <2>2. CASE Bridge
        <3> DEFINE pos == IF run.pos <= Len(chain) THEN Aborted ELSE run.pos
        <3>1. run' = [run EXCEPT !.step = "looping", !.pos = pos] /\ out' = out
            BY <2>2 DEF Bridge
        <3>2. pos \in 0..MaxChain + 2 /\ pos > Len(chain)
            BY <1>1, HttpAuthzAssumption DEF Aborted, RunRecord
        <3> HIDE DEF pos
        <3> QED  BY <1>1, <3>1, <3>2 DEF RunRecord, Steps
    <2>3. CASE GinLoop
        <3>1. run.pos > Len(chain) /\ run.pos \in Nat
            BY <1>1, <2>3, HttpAuthzAssumption DEF GinLoop, Inv, WalkInv, RunRecord
        <3>2. Go("done") /\ out' = out
            BY <1>1, <2>3, <3>1 DEF GinLoop
        <3> QED  BY <1>1, <3>2 DEF Go, RunRecord, Steps
    <2> QED  BY <2>1, <2>2, <2>3
<1>3. Presented' = Presented /\ Decision' = Decision /\ chain' = chain /\ log' = log
    BY <1>1 DEF Presented, HeaderPresent, SessionPresent, Decision, setup
<1>4. Types'
    BY <1>1, <1>2 DEF Inv, Types, Typed, RunRecord, OutRecord, Headers, Replies, setup, world
<1>5. WalkInv' /\ LogInv'
    BY <1>2, <1>3 DEF WalkInv, LogInv, HasDecision, Inside
<1>6. CredentialInv'
    BY <1>1, <1>2, <1>3 DEF Inv, CredentialInv, Sources, Holding
<1>7. AnswerInv'
    BY <1>1, <1>2, <1>3 DEF Inv, AnswerInv, HandlerIsAuthorized, Handled, DecisionsOf,
                            AnswerTellsDecision, Inside
<1> QED  BY <1>4, <1>5, <1>6, <1>7 DEF Inv

LEMMA MountInv ==
    ASSUME Inv, NEW layer \in Layers, run.step = "idle", bound' \subseteq Routes,
           chain' = chain \/ (Len(chain) < MaxChain /\ chain' = Append(chain, layer)),
           UNCHANGED unmounted
    PROVE  Inv'
<1>1. chain' \in Seq(Layers) /\ Len(chain') <= MaxChain
    <2>1. chain \in Seq(Layers) /\ Len(chain) <= MaxChain /\ Len(chain) \in Nat /\ MaxChain \in Nat
        BY HttpAuthzAssumption DEF Inv, Types, Typed
    <2>2. CASE Len(chain) < MaxChain /\ chain' = Append(chain, layer)
        <3>1. chain' \in Seq(Layers) /\ Len(chain') = Len(chain) + 1
            BY <2>1, <2>2
        <3> QED  BY <2>1, <2>2, <3>1
    <2> QED  BY <2>1, <2>2
<1>2. Presented' = Presented
    BY DEF Presented, HeaderPresent, SessionPresent, unmounted
<1>3. Types'
    BY <1>1 DEF Inv, Types, Typed, Headers, OutRecord, RunRecord, world, unmounted
<1>4. WalkInv' /\ CredentialInv' /\ LogInv' /\ AnswerInv'
    BY <1>2 DEF Inv, WalkInv, CredentialInv, LogInv, AnswerInv, HasDecision, Inside, Sources, Holding,
                HandlerIsAuthorized, Handled, AnswerTellsDecision, unmounted
<1> QED  BY <1>3, <1>4 DEF Inv

LEMMA ArriveInv ==
    ASSUME Inv, Arrive
    PROVE  Inv'
<1>1. run.step = "idle" /\ log = <<>> /\ out.bodies = <<>>
      /\ UNCHANGED <<setup, input, context, out, world, log, consulted>>
    BY DEF Arrive, Inv, WalkInv
<1>2. 1 \in 1..Len(chain) /\ Len(chain) \in Nat
    BY DEF Arrive, Inv, Types, Typed
<1>3. run' \in RunRecord /\ run'.pos = 1 /\ run'.step = "enter"
    <2>1. 1 \in 0..MaxChain + 2 /\ run \in RunRecord
        BY HttpAuthzAssumption DEF Inv, Types
    <2>2. run' = [run EXCEPT !.pos = 1, !.step = "enter"]
        BY DEF Arrive
    <2> QED  BY <2>1, <2>2 DEF RunRecord, Steps
<1>4. Presented' = Presented
    BY <1>1 DEF Presented, HeaderPresent, SessionPresent, setup
<1>5. Types'
    BY <1>1, <1>3 DEF Inv, Types, Typed, RunRecord, OutRecord, Headers, Replies, setup, world
<1>6. WalkInv' /\ LogInv'
    BY <1>1, <1>2, <1>3 DEF WalkInv, LogInv, HasDecision, setup
<1>7. CredentialInv'
    BY <1>1, <1>3, <1>4 DEF Inv, CredentialInv, Sources, Holding
<1>8. AnswerInv'
    BY <1>1, <1>3 DEF AnswerInv, HandlerIsAuthorized, Handled, AnswerTellsDecision
<1> QED  BY <1>5, <1>6, <1>7, <1>8 DEF Inv

\* What the request itself has and is.
own == <<setup, input, run, context, out, log, consulted>>

(* The session and the caller change nothing that the invariant looks at. *)
LEMMA WorldInv ==
    ASSUME Inv, UNCHANGED own,
           session' \in [token: 1..MaxToken, live: BOOLEAN], canceled' \in BOOLEAN
    PROVE  Inv'
<1>1. Presented' = Presented
    BY DEF Presented, HeaderPresent, SessionPresent, setup, own
<1>2. Types'
    BY DEF Inv, Types, Typed, Headers, OutRecord, RunRecord, setup, own
<1>3. WalkInv' /\ CredentialInv' /\ LogInv'
    BY <1>1 DEF Inv, WalkInv, CredentialInv, LogInv, HasDecision, Passed, DecisionsOf,
                Decision, Layer, setup, own
<1>4. AnswerInv'
    BY <1>1 DEF Inv, AnswerInv, HandlerIsAuthorized, Handled, DecisionsOf, AnswerTellsDecision,
                IsRequire, Layer, Decision, setup, own
<1> QED  BY <1>2, <1>3, <1>4 DEF Inv

-----------------------------------------------------------------------------
(* Every step keeps the invariant. *)
LEMMA NextInv == Inv /\ [Next]_vars => Inv'
<1> SUFFICES ASSUME Inv, [Next]_vars PROVE Inv'
    OBVIOUS
<1>1. session \in [token: 1..MaxToken, live: BOOLEAN] /\ canceled \in BOOLEAN
      /\ bound \subseteq Routes
    BY DEF Inv, Types, Typed
<1>2. CASE MountAuthenticate
    BY <1>1, <1>2, MountInv DEF MountAuthenticate, Layers
<1>3. ASSUME NEW r \in Routes, Mount(r) PROVE Inv'
    <2>1. r \in Layers /\ bound' \subseteq Routes
        BY <1>1, <1>3 DEF Mount, Layers
    <2> QED  BY <1>3, <2>1, MountInv DEF Mount
<1>4. CASE Arrive
    BY <1>4, ArriveInv
<1>5. CASE Serving
    BY <1>5, LayerInv, CollaboratorInv, IamDecidesInv, IamFailsInv, ReceiveInv, ConcludeInv,
       WayBackInv DEF Serving
<1>6. CASE Renew
    <2>1. session' \in [token: 1..MaxToken, live: BOOLEAN]
        BY <1>1, <1>6, HttpAuthzAssumption DEF Renew
    <2> QED  BY <1>1, <1>6, <2>1, WorldInv DEF Renew, own
<1>7. CASE End
    <2>1. session' \in [token: 1..MaxToken, live: BOOLEAN]
        BY <1>1, <1>7 DEF End
    <2> QED  BY <1>1, <1>7, <2>1, WorldInv DEF End, own
<1>8. CASE Cancel
    BY <1>1, <1>8, WorldInv DEF Cancel, own
<1>9. CASE UNCHANGED vars
    BY <1>1, <1>9, WorldInv DEF vars, world, own
<1> QED  BY <1>2, <1>3, <1>4, <1>5, <1>6, <1>7, <1>8, <1>9 DEF Next

(* The invariant holds in every state. *)
LEMMA Invariance == Spec => []Inv
BY InitInv, NextInv, PTL DEF Spec

-----------------------------------------------------------------------------
(* No step makes the header or the context name a decision that is not made: *)
(* they keep what they name, name none, or name the last one.                *)
LEMMA NamesStep ==
    ASSUME Inv, NamesMade, [Next]_vars
    PROVE  NamesMade'
<1>1. log \in Seq(Decisions) /\ Len(log) \in Nat /\ context \in ContextRecord /\ out \in OutRecord
    BY DEF Inv, Types, Typed, ContextRecord
<1>2. Len(log') \in Nat /\ Len(log) <= Len(log')
    <2>1. CASE log' = log
        BY <1>1, <2>1
    <2>2. CASE IamDecides
        BY <1>1, <2>2 DEF IamDecides
    <2>3. log' = log \/ IamDecides
        BY DEF Next, Serving, MountAuthenticate, Mount, Arrive, Enter, Select, VerifyBearer,
               IdentifyKey, ResolveSession, Bound, Ask, AskByKey, IamFails, Receive, Conclude,
               Return, Bridge, GinLoop, Renew, End, Cancel, unmounted, vars
    <2> QED  BY <2>1, <2>2, <2>3
<1>3. \A header : PassOn(header) => out'.header = header
    BY <1>1 DEF PassOn, OutRecord
<1>4. \A e, header : Refuse(e, header) => out'.header = header
    BY DEF Refuse
<1>5. out'.header \in {out.header, 0, Len(log)}
    <2>1. CASE Enter
        <3> DEFINE header == IF IsRequire THEN 0 ELSE out.header
        <3>1. Refuse("protocol", header) \/ out' = [out EXCEPT !.header = header]
            BY <2>1 DEF Enter
        <3>2. out'.header = header
            BY <1>1, <1>4, <3>1 DEF OutRecord
        <3> QED  BY <3>2
    <2>2. CASE Conclude
        BY <1>3, <1>4, <2>2 DEF Conclude
    <2>3. CASE Select \/ VerifyBearer \/ IdentifyKey \/ ResolveSession
        BY <1>4, <2>3 DEF Select, VerifyBearer, IdentifyKey, ResolveSession, BindCredential
    <2>4. CASE Bound \/ GinLoop
        BY <1>3, <2>4 DEF Bound, GinLoop
    <2>5. CASE Ask \/ AskByKey \/ Receive
        BY <1>4, <2>5 DEF Ask, AskByKey, SendDecision, Receive
    <2>6. CASE out' = out
        BY <2>6
    <2> QED
        BY <2>1, <2>2, <2>3, <2>4, <2>5, <2>6
        DEF Next, Serving, MountAuthenticate, Mount, Arrive, IamDecides, IamFails, Return,
            Bridge, Renew, End, Cancel, unmounted, vars
<1>6. /\ context'.authDecision \in {context.authDecision, 0, Len(log)}
      /\ context'.decision \in {context.decision, Len(log)}
    <2>1. CASE Conclude
        BY <1>1, <2>1 DEF Conclude, ContextRecord
    <2>2. ASSUME NEW token, BindCredential(token)
          PROVE context'.authDecision = 0 /\ context'.decision = context.decision
        BY <1>1, <2>2 DEF BindCredential, ContextRecord
    <2>3. CASE VerifyBearer \/ IdentifyKey \/ ResolveSession
        BY <2>2, <2>3 DEF VerifyBearer, IdentifyKey, ResolveSession
    <2>4. CASE context' = context
        BY <2>4
    <2> QED
        BY <2>1, <2>3, <2>4
        DEF Next, Serving, MountAuthenticate, Mount, Arrive, Enter, Select, Bound, Ask, AskByKey,
            IamDecides, IamFails, Receive, Return, Bridge, GinLoop, Renew, End, Cancel,
            unmounted, vars
<1> QED  BY <1>1, <1>2, <1>5, <1>6 DEF NamesMade, Stale

(***************************************************************************)
(* The middleware keeps its types: a credential is bound before a decision *)
(* is asked for, and a header never names a decision that was not made.    *)
(***************************************************************************)
THEOREM AuthzTypeCorrect == Spec => []TypeOK
<1>1. Init => NamesMade
    BY DEF Init, NamesMade
<1>2. Inv /\ NamesMade /\ [Next]_vars => NamesMade'
    BY NamesStep
<1>3. Inv /\ NamesMade => TypeOK
    BY DEF Inv, Types, TypeOK
<1> QED  BY <1>1, <1>2, <1>3, Invariance, PTL DEF Spec

(***************************************************************************)
(* The handler runs only behind one decision of IAM per Require, which     *)
(* allows that route for the credential of the request.                    *)
(***************************************************************************)
THEOREM HandlersAreAuthorized == Spec => []HandlerIsAuthorized
<1>1. Inv => HandlerIsAuthorized  BY DEF Inv, AnswerInv
<1> QED  BY <1>1, Invariance, PTL

(***************************************************************************)
(* selectCredential looks at one credential or at none, in every layer.    *)
(***************************************************************************)
THEOREM OneCredential == Spec => []NoFallback
<1>1. Inv => NoFallback  BY DEF Inv, CredentialInv, NoFallback
<1> QED  BY <1>1, Invariance, PTL

(***************************************************************************)
(* The one answer of a request, and its decision header, tell what IAM has *)
(* decided, on net/http and through the loop of Gin.                       *)
(***************************************************************************)
THEOREM AnswersTellDecisions == Spec => []AnswerTellsDecision
<1>1. Inv => AnswerTellsDecision  BY DEF Inv, AnswerInv
<1> QED  BY <1>1, Invariance, PTL
=============================================================================
