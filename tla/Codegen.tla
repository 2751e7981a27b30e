------------------------------- MODULE Codegen -------------------------------
(***************************************************************************)
(* The codegen service: the RabbitMQ consumer (consumer.py), the pipeline  *)
(* that both it and the HTTP endpoint run (ScaffoldGenerator.generate),    *)
(* the Redis cache it resumes from, the two S3 buckets it fills and the    *)
(* tracker and rollback that clear them after a failure (storage.py).      *)
(*                                                                         *)
(* One process runs one consumer thread and serves HTTP requests on        *)
(* another; the two share the cache, the buckets and the one tracker.      *)
(* What the LLM writes is a quality: "good" code passes the tests it comes *)
(* with (for a skeleton: but for its own stubs), "tests" compiles and      *)
(* fails one of them, "broken" does not compile.  What of that is noticed  *)
(* depends on the language.  The tiers and scenarios of a request come in  *)
(* a fixed order.  Any call inside generate may raise.                     *)
(*                                                                         *)
(* Definitions named ..._X are mutations: what a slip in the code would    *)
(* make of the definition that follows; the specification never uses them. *)
(***************************************************************************)
EXTENDS Integers, Sequences

CONSTANTS Request, Api,          \* requests of the queue; the HTTP request
          Design, Challenge,     \* designs, and the names the LLM gives them
          NameOf,                \* [Design -> Challenge]
          Lang, Tier, Tag,
          Checks,                \* what the validation of each language really does
          TierOf,                \* [Tag -> Tier]: the scenarios of each tier
          Asks,                  \* the orders each request may carry
          SkeletonRetries, DeltaRetries, GoldRetries,
          MaxFaults,             \* bound: crashes, lost answers, evictions, HTTP calls
          None

ASSUME NamesAssumption == NameOf \in [Design -> Challenge] /\ TierOf \in [Tag -> Tier]
ASSUME ChecksAssumption == Checks \in [Lang -> {"tests", "compiles", "installs"}]
ASSUME RetriesAssumption ==
  SkeletonRetries \in Nat /\ DeltaRetries \in Nat /\ GoldRetries \in Nat /\ MaxFaults \in Nat

Thread  == {"consumer", "api"}
Kind    == {"DESIGN_PREVIEW", "FULL_GENERATE", "OTHER"}
Order   == [kind : Kind, design : Design \cup {None}, langs : SUBSET Lang, tiers : SUBSET Tier]
Quality == {"good", "tests", "broken"}

ASSUME AsksAssumption == Asks \in [Request \cup {Api} -> SUBSET Order]

(* ok: it passed the validation of its language in the form it has; a      *)
(* skeleton or delta without its tests, a gold master with them.           *)
Artifact == [design : Design, ok : BOOLEAN]
Stored   == [design : Design, ok : BOOLEAN, by : Request \cup {Api}]

ASSUME NoneAssumption ==
  /\ None \notin Request \cup {Api} \cup Design \cup Lang \cup Tier \cup Tag
  /\ None \notin Order /\ None \notin Artifact /\ None \notin Stored
  /\ Api \notin Request

(* S3 objects and Redis keys.  The former carry no design and no job.      *)
GoldObject == [bucket : {"gold-masters"}, name : Challenge, lang : Lang, part : Tier]
ZipObject  == [bucket : {"challenges"}, name : Challenge, lang : Lang, part : Tag]
Object     == GoldObject \cup ZipObject

TierKey == [kind : {"skeleton", "checkpoint"}, design : Design, lang : Lang, part : Tier]
TagKey  == [kind : {"delta"}, design : Design, lang : Lang, part : Tag]
Key     == TierKey \cup TagKey

GeneratePcs == {"design", "language", "skeleton", "compileSkeleton", "delta", "compileDelta",
                "assemble", "compileGold", "uploadGold", "uploadZips"}
Pcs == GeneratePcs \cup {"idle", "preview", "publish", "rollback", "report", "ack", "nack"}

VARIABLES
  orders,            \* what each request asks for; None before it is read
  sent,              \* requests sent so far
  queue, linked,     \* codegen-request-queue; the connection that consumes it lives
  results, dropped,  \* results published; requests given up
  tracker,           \* StorageClient.tracked_uploads
  store, leaked,     \* the buckets; objects no rollback can know of any more
  cache, designs,    \* Redis; the design of the HTTP request in it
  run,               \* what each thread is doing
  faults

messageVars == <<orders, sent, queue, linked, results, dropped>>
storeVars   == <<tracker, store, leaked>>
cacheVars   == <<cache, designs>>
vars        == <<messageVars, storeVars, cacheVars, run, faults>>

NoSkeletons == [t \in Tier |-> None]
Blank == [pc |-> "idle", job |-> None, design |-> None, langs |-> {}, lang |-> None,
          todo |-> {}, item |-> None, zips |-> {}, skip |-> {}, skeletons |-> NoSkeletons,
          code |-> "broken", tries |-> 0, keys |-> {}, blueprints |-> {}]
Run == [pc : Pcs, job : Request \cup {Api, None}, design : Design \cup {None},
        langs : SUBSET Lang, lang : Lang \cup {None}, todo : SUBSET (Tier \cup Tag),
        item : Tier \cup Tag \cup {None}, zips : SUBSET Tag, skip : SUBSET Tier,
        skeletons : [Tier -> Artifact \cup {None}], code : Quality, tries : Nat,
        keys : SUBSET (Lang \X Tier), blueprints : SUBSET (Lang \X Tag)]

TypeOK ==
  /\ orders \in [Request \cup {Api} -> Order \cup {None}]
  /\ sent \subseteq Request /\ queue \in Seq(Request) /\ linked \in BOOLEAN
  /\ results \subseteq [job : Request, ok : BOOLEAN] /\ dropped \subseteq Request
  /\ tracker \subseteq Object /\ leaked \subseteq Object
  /\ store \in [Object -> Stored \cup {None}]
  /\ cache \in [Key -> Artifact \cup {None}] /\ designs \in Design \cup {None}
  /\ run \in [Thread -> Run]
  /\ faults \in 0..MaxFaults

Init ==
  /\ orders = [r \in Request \cup {Api} |-> None]
  /\ sent = {} /\ queue = <<>> /\ linked = TRUE /\ results = {} /\ dropped = {}
  /\ tracker = {} /\ leaked = {} /\ store = [o \in Object |-> None]
  /\ cache = [k \in Key |-> None] /\ designs = None
  /\ run = [th \in Thread |-> Blank]
  /\ faults = 0

Fault == faults < MaxFaults /\ faults' = faults + 1

At(th, pc)  == run[th].pc = pc
Set(th, r)  == run' = [run EXCEPT ![th] = r]
Go(th, pc)  == Set(th, [run[th] EXCEPT !.pc = pc])
Leave(th, pc) == Set(th, [Blank EXCEPT !.pc = pc, !.job = run[th].job])
Tiers(th)   == orders[run[th].job].tiers
Tags(tiers) == {g \in Tag : TierOf[g] \in tiers}
First(S)    == CHOOSE x \in S : TRUE      \* of a list, in its order
Item(th)   == First(run[th].todo)

-----------------------------------------------------------------------------
(* The queue and its consumer (_on_message, _handle_full_generate,         *)
(* _handle_design_preview).                                                *)

(* CodegenRequestPublisher.  Requests are named in the order they come in. *)
Send(r) ==
  /\ r \notin sent /\ r = First(Request \ sent)
  /\ sent' = sent \cup {r}
  /\ queue' = Append(queue, r)
  /\ UNCHANGED <<orders, linked, results, dropped, storeVars, cacheVars, run, faults>>

FirstPc(o) == IF o.kind = "FULL_GENERATE" THEN "design"
              ELSE IF o.kind = "DESIGN_PREVIEW" THEN "preview" ELSE "ack"

(* The message of a request, the same again when it is redelivered.        *)
OrdersFor(r) == IF orders[r] = None THEN Asks[r] ELSE {orders[r]}

Open(r, o) ==
  /\ At("consumer", "idle") /\ queue # <<>> /\ r = Head(queue)
  /\ orders' = [orders EXCEPT ![r] = o]
  /\ Set("consumer", [Blank EXCEPT !.pc = FirstPc(o), !.job = r])

Receive_KeepTracker(r, o) ==
  /\ Open(r, o)
  /\ UNCHANGED <<sent, queue, linked, results, dropped, storeVars, cacheVars, faults>>

Receive_AutoAck(r, o) ==
  /\ Open(r, o)
  /\ tracker' = IF o.kind = "FULL_GENERATE" THEN {} ELSE tracker
  /\ queue' = Tail(queue)
  /\ UNCHANGED <<sent, linked, results, dropped, store, leaked, cacheVars, faults>>

(* A delivery; a full generation starts with an empty tracker.             *)
Receive(r, o) ==
  /\ Open(r, o)
  /\ tracker' = IF o.kind = "FULL_GENERATE" THEN {} ELSE tracker
  /\ UNCHANGED <<sent, queue, linked, results, dropped, store, leaked, cacheVars, faults>>

(* POST /admin/generate-golden-repo: no tracker reset, rollback or result. *)
(* A call is counted with the failures.                                    *)
ApiStart(o) ==
  /\ At("api", "idle") /\ Fault
  /\ orders' = [orders EXCEPT ![Api] = o]
  /\ Set("api", [Blank EXCEPT !.pc = "design", !.job = Api])
  /\ UNCHANGED <<sent, queue, linked, results, dropped, storeVars, cacheVars>>

(* generate_design_only: nothing is cached.                                *)
Preview ==
  /\ At("consumer", "preview")
  /\ Leave("consumer", "publish")
  /\ UNCHANGED <<messageVars, storeVars, cacheVars, faults>>

-----------------------------------------------------------------------------
(* ScaffoldGenerator.generate.                                             *)

(* Phase 1: the design of the request, of its earlier run, or a new one.   *)
DesignsFor(r) == IF orders[r].design # None THEN {orders[r].design}
                 ELSE IF designs # None THEN {designs} ELSE Design

ChooseDesign_ResetsTracker(th, d) ==
  /\ At(th, "design") /\ d \in DesignsFor(run[th].job)
  /\ Set(th, [run[th] EXCEPT !.pc = "language", !.design = d,
                             !.langs = orders[run[th].job].langs])
  /\ designs' = IF orders[run[th].job].design = None THEN d ELSE designs
  /\ tracker' = {}
  /\ UNCHANGED <<messageVars, store, leaked, cache, faults>>

ChooseDesign(th, d) ==
  /\ At(th, "design") /\ d \in DesignsFor(run[th].job)
  /\ Set(th, [run[th] EXCEPT !.pc = "language", !.design = d,
                             !.langs = orders[run[th].job].langs])
  /\ designs' = IF orders[run[th].job].design = None THEN d ELSE designs
  /\ UNCHANGED <<messageVars, storeVars, cache, faults>>

(* The next language starts with its skeletons, one for each tier.         *)
Language(th) ==
  /\ At(th, "language") /\ run[th].langs # {}
  /\ Set(th, [run[th] EXCEPT !.pc = "skeleton",
                             !.langs = @ \ {First(@)}, !.lang = First(run[th].langs),
                             !.skip = {}, !.skeletons = NoSkeletons, !.todo = Tiers(th)])
  /\ UNCHANGED <<messageVars, storeVars, cacheVars, faults>>

(* After the last one generate returns: to _handle_full_generate, or to    *)
(* the HTTP client.                                                        *)
Return(th) ==
  /\ At(th, "language") /\ run[th].langs = {}
  /\ IF th = "consumer"
     THEN Set(th, [Blank EXCEPT !.pc = "publish", !.job = run[th].job,
                     !.design = run[th].design, !.keys = run[th].keys,
                     !.blueprints = run[th].blueprints])
     ELSE Set(th, Blank)
  /\ UNCHANGED <<messageVars, storeVars, cacheVars, faults>>

(* codegen:{kind}:{name}:{fingerprint}:{language}:{tier or tag}            *)
KeyOf_NameOnly(th, kind, part) ==
  [kind |-> kind, design |-> CHOOSE d \in Design : NameOf[d] = NameOf[run[th].design],
   lang |-> run[th].lang, part |-> part]

KeyOf(th, kind, part) ==
  [kind |-> kind, design |-> run[th].design, lang |-> run[th].lang, part |-> part]

Cached(th, kind, part) == cache[KeyOf(th, kind, part)] # None
Remember(th, kind, part, a) == cache' = [cache EXCEPT ![KeyOf(th, kind, part)] = a]
Made(th, ok) == [design |-> run[th].design, ok |-> ok]

(* validate_compilation(..., run_tests): mvn test or mvn test-compile for  *)
(* Java ("tests"), py_compile for Python ("compiles"), npm install for     *)
(* Node ("installs"), whose tsc errors are only logged.  What can pass and *)
(* what can fail it.                                                       *)
Passing(l, tests) == IF Checks[l] = "installs" THEN Quality
                     ELSE IF Checks[l] = "tests" /\ tests THEN {"good"}
                     ELSE {"good", "tests"}
Failing(l, tests) == (Quality \ Passing(l, tests)) \cup {"broken"}

Passes(th, tests) == run[th].code \in Passing(run[th].lang, tests)
Fails(th, tests)  == run[th].code \in Failing(run[th].lang, tests)

(* _try_deterministic_fix repairs the structure of Java sources that do    *)
(* not compile, at no cost.                                                *)
Repairable(th) == Checks[run[th].lang] = "tests" /\ run[th].code = "broken"

(* Phase 2a.  A tier with a checkpoint is skipped, a cached skeleton used. *)
SkipTier(th) ==
  /\ At(th, "skeleton") /\ run[th].todo # {} /\ Cached(th, "checkpoint", Item(th))
  /\ Set(th, [run[th] EXCEPT !.skip = @ \cup {Item(th)}, !.todo = @ \ {Item(th)}])
  /\ UNCHANGED <<messageVars, storeVars, cacheVars, faults>>

ReuseSkeleton(th) ==
  /\ At(th, "skeleton") /\ run[th].todo # {}
  /\ ~Cached(th, "checkpoint", Item(th)) /\ Cached(th, "skeleton", Item(th))
  /\ Set(th, [run[th] EXCEPT !.todo = @ \ {Item(th)},
                             !.skeletons[Item(th)] = cache[KeyOf(th, "skeleton", Item(th))]])
  /\ UNCHANGED <<messageVars, storeVars, cacheVars, faults>>

(* The LLM answers, after at most MAX_CORRECTION_ATTEMPTS corrections, a   *)
(* skeleton that has the shape asked for; otherwise generate raises.       *)
Ask(th, pc, qualities) ==
  \E q \in qualities :
    Set(th, [run[th] EXCEPT !.pc = pc, !.item = Item(th), !.code = q])

AskSkeleton(th) ==
  /\ At(th, "skeleton") /\ run[th].todo # {}
  /\ ~Cached(th, "checkpoint", Item(th)) /\ ~Cached(th, "skeleton", Item(th))
  /\ Ask(th, "compileSkeleton", Quality)
  /\ UNCHANGED <<messageVars, storeVars, cacheVars, faults>>

(* An exception: the consumer rolls a full generation back and reports it  *)
(* FAILED, the endpoint answers with an error.                             *)
Raised(th) ==
  IF th = "api" THEN Set(th, Blank)
  ELSE Leave(th, IF orders[run[th].job].kind = "FULL_GENERATE" THEN "rollback" ELSE "report")

(* A patch that is not counted as an attempt. *)
Patch_Uncounted(th, qualities) ==
  \E q \in qualities : Set(th, [run[th] EXCEPT !.code = q])

(* One more attempt: the LLM patches what failed.                          *)
Patch(th, qualities) ==
  \E q \in qualities : Set(th, [run[th] EXCEPT !.code = q, !.tries = @ + 1])

(* The item in hand is done.                                               *)
Done(th, pc) == [run[th] EXCEPT !.pc = pc, !.todo = @ \ {run[th].item}, !.item = None,
                                !.code = "broken", !.tries = 0]

KeepSkeleton(th, ok) ==
  /\ Set(th, [Done(th, "skeleton") EXCEPT !.skeletons[run[th].item] = Made(th, ok)])
  /\ Remember(th, "skeleton", run[th].item, Made(th, ok))

CompileSkeleton_LastWins(th) ==
  /\ At(th, "compileSkeleton")
  /\ \/ Passes(th, TRUE) /\ KeepSkeleton(th, TRUE)
     \/ run[th].tries = SkeletonRetries /\ KeepSkeleton(th, Passes(th, FALSE))
     \/ /\ Fails(th, TRUE) /\ run[th].tries < SkeletonRetries
        /\ Patch(th, Quality) /\ UNCHANGED cache
  /\ UNCHANGED <<messageVars, storeVars, designs, faults>>

(* A skeleton is validated with its tests.  If that fails it may be        *)
(* repaired, else the LLM patches it.  After the last attempt one that     *)
(* compiles is taken though a test fails.                                  *)
CompileSkeleton(th) ==
  /\ At(th, "compileSkeleton")
  /\ \/ /\ \/ Passes(th, TRUE) \/ Repairable(th)
           \/ run[th].code = "tests" /\ run[th].tries = SkeletonRetries
        /\ KeepSkeleton(th, TRUE)
     \/ /\ Fails(th, TRUE) /\ run[th].tries < SkeletonRetries
        /\ Patch(th, Quality) /\ UNCHANGED cache
     \/ /\ run[th].code = "broken" /\ run[th].tries = SkeletonRetries
        /\ Raised(th) /\ UNCHANGED cache
  /\ UNCHANGED <<messageVars, storeVars, designs, faults>>

(* Phase 2b: the delta of every scenario of the tiers not skipped.         *)
StartDeltas(th) ==
  /\ At(th, "skeleton") /\ run[th].todo = {}
  /\ Set(th, [run[th] EXCEPT !.pc = "delta", !.todo = Tags(Tiers(th) \ run[th].skip)])
  /\ UNCHANGED <<messageVars, storeVars, cacheVars, faults>>

ReuseDelta(th) ==
  /\ At(th, "delta") /\ run[th].todo # {} /\ Cached(th, "delta", Item(th))
  /\ Set(th, [run[th] EXCEPT !.todo = @ \ {Item(th)}])
  /\ UNCHANGED <<messageVars, storeVars, cacheVars, faults>>

AskDelta(th) ==
  /\ At(th, "delta") /\ run[th].todo # {} /\ ~Cached(th, "delta", Item(th))
  /\ Ask(th, "compileDelta", {"good", "broken"})
  /\ UNCHANGED <<messageVars, storeVars, cacheVars, faults>>

KeepDelta(th, ok, skeletons) ==
  /\ Set(th, [Done(th, "delta") EXCEPT !.skeletons = skeletons])
  /\ Remember(th, "delta", run[th].item, Made(th, ok))

(* The skeletons after the repair of a delta: the files of the skeleton    *)
(* that it changed are put into the one in hand, not into the cached one.  *)
(* What it changed in the file of the stub is dropped, and the delta is    *)
(* kept as it was.                                                         *)
Repaired(th) ==
  LET t == TierOf[run[th].item]
  IN  {run[th].skeletons, [run[th].skeletons EXCEPT ![t] = Made(th, FALSE)]}

(* A delta only has to compile, alone in its skeleton.                     *)
CompileDelta(th) ==
  /\ At(th, "compileDelta")
  /\ \/ Passes(th, FALSE) /\ KeepDelta(th, TRUE, run[th].skeletons)
     \/ Repairable(th) /\ \E sk \in Repaired(th) : KeepDelta(th, FALSE, sk)
     \/ /\ Fails(th, FALSE) /\ run[th].tries < DeltaRetries
        /\ Patch(th, {"good", "broken"}) /\ UNCHANGED cache
     \/ /\ Fails(th, FALSE) /\ run[th].tries = DeltaRetries
        /\ Raised(th) /\ UNCHANGED cache
  /\ UNCHANGED <<messageVars, storeVars, designs, faults>>

(* The gold master of each tier: the skeleton with all its deltas.         *)
StartAssembly_Scenarios(th) ==
  /\ At(th, "delta") /\ run[th].todo = {}
  /\ Set(th, [run[th] EXCEPT !.pc = "assemble", !.todo = Tags(Tiers(th) \ run[th].skip)])
  /\ UNCHANGED <<messageVars, storeVars, cacheVars, faults>>

StartAssembly(th) ==
  /\ At(th, "delta") /\ run[th].todo = {}
  /\ Set(th, [run[th] EXCEPT !.pc = "assemble", !.todo = Tiers(th) \ run[th].skip])
  /\ UNCHANGED <<messageVars, storeVars, cacheVars, faults>>

Assemble(th) ==
  /\ At(th, "assemble") /\ run[th].todo # {}
  /\ Ask(th, "compileGold", Quality)
  /\ UNCHANGED <<messageVars, storeVars, cacheVars, faults>>

(* The gold master is validated with the tests that are in it: those the   *)
(* skeleton came with (the hidden ones join it when it is uploaded).       *)
CompileGold(th) ==
  /\ At(th, "compileGold")
  /\ \/ Passes(th, TRUE) /\ Go(th, "uploadGold")
     \/ Repairable(th) /\ Set(th, [run[th] EXCEPT !.pc = "uploadGold", !.code = "good"])
     \/ Fails(th, TRUE) /\ run[th].tries < GoldRetries /\ Patch(th, Quality)
     \/ Fails(th, TRUE) /\ run[th].tries = GoldRetries /\ Raised(th)
  /\ UNCHANGED <<messageVars, storeVars, cacheVars, faults>>

-----------------------------------------------------------------------------
(* Uploads (storage.py): put_object, then the tracker.                     *)

GoldOf(d, l, t) == [bucket |-> "gold-masters", name |-> NameOf[d], lang |-> l, part |-> t]
ZipOf(d, l, g)  == [bucket |-> "challenges", name |-> NameOf[d], lang |-> l, part |-> g]

(* What the thread uploads next: the gold master, then each scenario's zip *)
(* with the skeleton in it.                                                *)
NextUpload(th) ==
  IF At(th, "uploadGold")
  THEN [object |-> GoldOf(run[th].design, run[th].lang, run[th].item),
        made |-> Made(th, Passes(th, TRUE))]
  ELSE [object |-> ZipOf(run[th].design, run[th].lang, First(run[th].zips)),
        made |-> run[th].skeletons[run[th].item]]

Put(th, up) ==
  store' = [store EXCEPT ![up.object] =
              [design |-> up.made.design, ok |-> up.made.ok, by |-> run[th].job]]

Upload(th) ==
  /\ Put(th, NextUpload(th))
  /\ tracker' = tracker \cup {NextUpload(th).object}
  /\ leaked' = leaked \ {NextUpload(th).object}

UploadGold(th) ==
  /\ At(th, "uploadGold")
  /\ Upload(th)
  /\ Set(th, [run[th] EXCEPT !.pc = "uploadZips", !.zips = Tags({run[th].item}),
                             !.keys = @ \cup {<<run[th].lang, run[th].item>>}])
  /\ UNCHANGED <<messageVars, cacheVars, faults>>

UploadZip(th) ==
  /\ At(th, "uploadZips") /\ run[th].zips # {}
  /\ Upload(th)
  /\ Set(th, [run[th] EXCEPT !.zips = @ \ {First(@)}])
  /\ UNCHANGED <<messageVars, cacheVars, faults>>

(* S3 stores the object and the answer is lost: put_object raises.         *)
UploadLost(th) ==
  /\ At(th, "uploadGold") \/ (At(th, "uploadZips") /\ run[th].zips # {})
  /\ Fault
  /\ Put(th, NextUpload(th)) /\ leaked' = leaked \cup {NextUpload(th).object}
  /\ Raised(th)
  /\ UNCHANGED <<messageVars, tracker, cacheVars>>

Checkpoint_BeforeZips(th) ==
  /\ At(th, "uploadZips")
  /\ \/ Remember(th, "checkpoint", run[th].item, Made(th, Passes(th, TRUE)))
     \/ UNCHANGED cache
  /\ Set(th, Done(th, "assemble"))
  /\ UNCHANGED <<messageVars, storeVars, designs, faults>>

(* The tier is done; a checkpoint that cannot be written is left out.      *)
Checkpoint(th) ==
  /\ At(th, "uploadZips") /\ run[th].zips = {}
  /\ \/ Remember(th, "checkpoint", run[th].item, Made(th, Passes(th, TRUE)))
     \/ UNCHANGED cache
  /\ Set(th, Done(th, "assemble"))
  /\ UNCHANGED <<messageVars, storeVars, designs, faults>>

(* Phase 3.  Blueprints are made of the gold masters found in the bucket;  *)
(* a failure leaves them out of the result.                                *)
GoldSources(th) ==
  {t \in Tiers(th) : store[GoldOf(run[th].design, run[th].lang, t)] # None}

BlueprintsOf(th) == {run[th].lang} \X Tags(GoldSources(th))

Blueprints(th) ==
  /\ At(th, "assemble") /\ run[th].todo = {}
  /\ \E made \in {BlueprintsOf(th), {}} :
       Set(th, [run[th] EXCEPT !.pc = "language", !.blueprints = @ \cup made])
  /\ UNCHANGED <<messageVars, storeVars, cacheVars, faults>>

(* Any other call of generate raises: the LLM, the cache, S3, a check.     *)
Raise(th) ==
  /\ run[th].pc \in GeneratePcs \cup {"preview"}
  /\ Raised(th)
  /\ UNCHANGED <<messageVars, storeVars, cacheVars, faults>>

-----------------------------------------------------------------------------
(* Results, rollback and acknowledgement (consumer.py).                    *)

Answer(ok) == results' = results \cup {[job |-> run["consumer"].job, ok |-> ok]}

Publish ==
  /\ At("consumer", "publish")
  /\ Answer(TRUE) /\ Leave("consumer", "ack")
  /\ UNCHANGED <<orders, sent, queue, linked, dropped, storeVars, cacheVars, faults>>

(* publish raises, also after the broker took the message: it is inside    *)
(* the try, so the job is handled as a failed one.                         *)
PublishFails ==
  /\ At("consumer", "publish") /\ Fault
  /\ Answer(TRUE) \/ UNCHANGED results
  /\ Raised("consumer")
  /\ UNCHANGED <<orders, sent, queue, linked, dropped, storeVars, cacheVars>>

(* rollback_uploads: one delete after another, failures only logged.       *)
Rollback ==
  /\ At("consumer", "rollback") /\ tracker # {}
  /\ store' = [store EXCEPT ![First(tracker)] = None]
  /\ tracker' = tracker \ {First(tracker)} /\ leaked' = leaked \ {First(tracker)}
  /\ UNCHANGED <<messageVars, cacheVars, run, faults>>

DeleteFails ==
  /\ At("consumer", "rollback") /\ tracker # {} /\ Fault
  /\ tracker' = tracker \ {First(tracker)} /\ leaked' = leaked \cup {First(tracker)}
  /\ UNCHANGED <<messageVars, store, cacheVars, run>>

RolledBack ==
  /\ At("consumer", "rollback") /\ tracker = {}
  /\ Leave("consumer", "report")
  /\ UNCHANGED <<messageVars, storeVars, cacheVars, faults>>

Report ==
  /\ At("consumer", "report")
  /\ Answer(FALSE) /\ Leave("consumer", "ack")
  /\ UNCHANGED <<orders, sent, queue, linked, dropped, storeVars, cacheVars, faults>>

(* The FAILED result cannot be published either: nack without requeue.     *)
ReportFails ==
  /\ At("consumer", "report") /\ Fault
  /\ Answer(FALSE) \/ UNCHANGED results
  /\ Leave("consumer", "nack")
  /\ UNCHANGED <<orders, sent, queue, linked, dropped, storeVars, cacheVars>>

(* On a connection that is gone basic_ack and basic_nack raise, start      *)
(* reconnects and the broker delivers the request again.                   *)
Settle ==
  /\ At("consumer", "ack") \/ At("consumer", "nack")
  /\ IF linked THEN queue' = Tail(queue) ELSE UNCHANGED queue
  /\ dropped' = IF linked /\ (At("consumer", "nack") \/ orders[run["consumer"].job].kind = "OTHER")
                THEN dropped \cup {run["consumer"].job} ELSE dropped
  /\ linked' = TRUE
  /\ Set("consumer", Blank)
  /\ UNCHANGED <<orders, sent, results, storeVars, cacheVars, faults>>

-----------------------------------------------------------------------------
(* What happens to the process and to the services around it.              *)

(* The handler blocks the heartbeats: the broker closes the connection.    *)
HeartbeatLost ==
  /\ ~At("consumer", "idle") /\ linked /\ Fault
  /\ linked' = FALSE
  /\ UNCHANGED <<orders, sent, queue, results, dropped, storeVars, cacheVars, run>>

(* The process dies and starts again: the tracker is gone.                 *)
Crash ==
  /\ \E th \in Thread : ~At(th, "idle")
  /\ Fault
  /\ leaked' = leaked \cup {o \in tracker : store[o].by = run["consumer"].job}
  /\ tracker' = {} /\ linked' = TRUE
  /\ run' = [th \in Thread |-> Blank]
  /\ UNCHANGED <<orders, sent, queue, results, dropped, store, cacheVars>>

(* A key passes its 24 hours, or Redis evicts it.                          *)
Expire(k) ==
  /\ cache[k] # None /\ Fault
  /\ cache' = [cache EXCEPT ![k] = None]
  /\ UNCHANGED <<messageVars, storeVars, designs, run>>

-----------------------------------------------------------------------------
Generate(th) ==
  \/ \E d \in Design : ChooseDesign(th, d)
  \/ Language(th) \/ SkipTier(th) \/ ReuseSkeleton(th) \/ AskSkeleton(th)
  \/ CompileSkeleton(th) \/ StartDeltas(th) \/ ReuseDelta(th) \/ AskDelta(th)
  \/ CompileDelta(th) \/ StartAssembly(th) \/ Assemble(th) \/ CompileGold(th)
  \/ UploadGold(th) \/ UploadZip(th) \/ Checkpoint(th)
  \/ Blueprints(th) \/ Return(th) \/ Raise(th)

Consume == \/ \E r \in Request : \E o \in OrdersFor(r) : Receive(r, o)
           \/ Preview \/ Publish \/ Rollback
           \/ RolledBack \/ Report \/ Settle

Failure == \/ PublishFails \/ ReportFails \/ DeleteFails \/ HeartbeatLost \/ Crash
           \/ \E th \in Thread : UploadLost(th)
           \/ \E k \in Key : Expire(k)

Next == \/ \E r \in Request : Send(r)
        \/ \E o \in Asks[Api] : ApiStart(o)
        \/ \E th \in Thread : Generate(th)
        \/ Consume \/ Failure

Spec == Init /\ [][Next]_vars

-----------------------------------------------------------------------------
(* Properties.                                                             *)

Job          == run["consumer"].job
Completed(r) == [job |-> r, ok |-> TRUE] \in results

(* Whatever the HTTP endpoint does to the tracker meanwhile, a request     *)
(* that failed leaves nothing in the buckets once the consumer is done     *)
(* with it: what is still there belongs to a completed request, to the     *)
(* endpoint, or to a failure no rollback could know of (reset_tracker,     *)
(* rollback_uploads, _handle_full_generate).                               *)
NoOrphans ==
  \A o \in Object :
    store[o] # None /\ store[o].by \in Request \ {Job} =>
      Completed(store[o].by) \/ o \in leaked

(* A rollback takes no object that a completed request wrote last, though  *)
(* the keys carry no job id and the tracker outlives its job.              *)
DoneObjectsSafe ==
  [][\A o \in Object :
       store[o] # None /\ store[o].by \in Request \ {Job} /\ Completed(store[o].by)
         => store'[o] # None]_vars

Uploaded(d, l, t) ==
  /\ store[GoldOf(d, l, t)] # None
  /\ \A g \in Tags({t}) : store[ZipOf(d, l, g)] # None

(* When a full generation is about to be published as COMPLETED, the gold  *)
(* masters its goldMasterKeys name and the scaffolds of their tiers are in *)
(* the buckets, also while the endpoint uploads under the same names, and  *)
(* so are the gold masters its blueprints were made of.                    *)
PayloadBacked ==
  At("consumer", "publish") =>
    /\ \A k \in run["consumer"].keys : Uploaded(run["consumer"].design, k[1], k[2])
    /\ \A b \in run["consumer"].blueprints :
         store[GoldOf(run["consumer"].design, b[1], TierOf[b[2]])] # None

(* However the retries went, what reaches the cache and the buckets has    *)
(* passed, as it is there, what its language checks: a gold master with    *)
(* tests only for Java, for Python whether it compiles, for Node whether   *)
(* npm can install it.  The repair of a Java delta is the one exception:   *)
(* it leaves a delta, and a skeleton in the scaffolds, that compile with   *)
(* each other only; the cached skeleton never is one                       *)
(* (scaffold_generator.py:1443, 1658, 1729).                               *)
VerifiedArtifacts ==
  /\ \A o \in Object : store[o] # None /\ ~store[o].ok =>
       o \in ZipObject /\ Checks[o.lang] = "tests"
  /\ \A k \in Key : cache[k] # None /\ ~cache[k].ok =>
       k.kind = "delta" /\ Checks[k.lang] = "tests"

(* A run builds on skeletons of its own design only, though designs may    *)
(* have the same name and share the cache over runs and crashes            *)
(* (scaffold_generator.py:1350).                                           *)
OneDesign ==
  \A th \in Thread, t \in Tier :
    run[th].skeletons[t] # None => run[th].skeletons[t].design = run[th].design

Smaller(S, T) == S \subseteq T /\ S # T

(* Where a step of generate stands within its language, and within its     *)
(* item; how often that item may be patched.                               *)
Phase(pc)   == IF pc \in {"skeleton", "compileSkeleton"} THEN 3
               ELSE IF pc \in {"delta", "compileDelta"} THEN 2
               ELSE IF pc = "language" THEN 0 ELSE 1
Part(pc)    == IF pc \in {"compileSkeleton", "compileDelta", "compileGold"} THEN 2
               ELSE IF pc = "uploadGold" THEN 1 ELSE IF pc = "uploadZips" THEN 0 ELSE 3
Retries(pc) == IF pc = "compileSkeleton" THEN SkeletonRetries
               ELSE IF pc = "compileDelta" THEN DeltaRetries ELSE GoldRetries

(* From a to b the pipeline has less left to do: languages, then phases,   *)
(* then items, then parts of the item, then zips or patches.               *)
OnItem(a, b)   == \/ Part(b.pc) < Part(a.pc)
                  \/ b.pc = a.pc /\ Smaller(b.zips, a.zips)
                  \/ b.pc = a.pc /\ b.zips = a.zips /\ b.tries \in a.tries + 1..Retries(a.pc)
Advances(a, b) == /\ b.pc # "design"
                  /\ \/ a.pc = "design"
                     \/ Smaller(b.langs, a.langs)
                     \/ b.langs = a.langs /\ Phase(b.pc) < Phase(a.pc)
                     \/ /\ b.langs = a.langs /\ Phase(b.pc) = Phase(a.pc)
                        /\ Smaller(b.todo, a.todo) \/ (b.todo = a.todo /\ OnItem(a, b))

(* generate comes to an end, whatever the LLM, the cache and the other     *)
(* thread do: each step of it leaves the pipeline or has less left to do   *)
(* (the retry loops of scaffold_generator.py:1443, 1633 and 1727).         *)
PipelineAdvances ==
  [][\A th \in Thread :
       run[th].pc \in GeneratePcs /\ run'[th].pc \in GeneratePcs /\ run'[th] # run[th]
         => Advances(run[th], run'[th])]_vars

(* The worker keeps the promise GenerationJobs relies on.                  *)
Promise == INSTANCE WorkerPromise WITH requests <- queue
ImplementsPromise == Promise!Spec
=============================================================================
