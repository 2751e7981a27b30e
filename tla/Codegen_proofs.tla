---------------------------- MODULE Codegen_proofs ----------------------------
(* Machine-checked proofs about Codegen, for any number of requests,       *)
(* designs, languages, tiers, scenarios, retries and failures.             *)
EXTENDS Codegen, SequenceTheorems, TLAPS

-----------------------------------------------------------------------------
(* What a thread has in hand at each of its steps.                         *)

InLanguage == GeneratePcs \ {"design", "language"}
OnTiers    == {"skeleton", "compileSkeleton", "assemble", "compileGold", "uploadGold", "uploadZips"}
OnTags     == {"delta", "compileDelta"}
WithItem   == {"compileSkeleton", "compileDelta", "compileGold", "uploadGold", "uploadZips"}
Building   == {"skeleton", "compileSkeleton"}
Assembling == {"assemble", "compileGold", "uploadGold", "uploadZips"}

JobsOf(th) == IF th = "api" THEN {Api} ELSE Request

(* The order and the design the thread works for.                          *)
Engaged(th, r, ord) ==
  /\ r.pc = "idle" => r.job = None
  /\ r.pc # "idle" => r.job \in JobsOf(th) /\ ord[r.job] \in Order
  /\ th = "api" => r.pc \in GeneratePcs \cup {"idle"}
  /\ r.pc \in GeneratePcs \ {"design"} => r.design \in Design
  /\ r.pc \in InLanguage => r.lang \in Lang

(* Its list of tiers or scenarios and the item of it in hand.              *)
Listed(r, ord) ==
  /\ r.pc \in OnTiers => r.todo \subseteq Tier
  /\ r.pc \in OnTags => r.todo \subseteq Tag
  /\ r.pc \in WithItem => r.item \in r.todo
  /\ r.pc \in {"uploadGold", "uploadZips"} => r.code \in Passing(r.lang, TRUE)

(* A tier that is neither skipped nor still to come has its skeleton, which*)
(* is of the thread's design and valid, or repaired.                       *)
Equipped(r, ord) ==
  /\ r.pc = "design" => r.skeletons = NoSkeletons
  /\ r.pc \in Building =>
       \A t \in ord[r.job].tiers \ (r.todo \cup r.skip) : r.skeletons[t] # None
  /\ r.pc \in OnTags \cup Assembling =>
       \A t \in ord[r.job].tiers \ r.skip : r.skeletons[t] # None
  /\ r.pc \in Assembling => r.todo \subseteq ord[r.job].tiers \ r.skip
  /\ \A t \in Tier : r.skeletons[t] # None =>
       /\ r.skeletons[t].design = r.design
       /\ r.skeletons[t].ok \/ Checks[r.lang] = "tests"

Fit(th, r, ord) == r \in Run /\ Engaged(th, r, ord) /\ Listed(r, ord) /\ Equipped(r, ord)

(* What is in the buckets and in the cache passed its validation, but for  *)
(* what the repair of a Java delta leaves.                                 *)
StoreSound ==
  \A o \in Object : store[o] # None =>
    store[o].ok \/ (o \in ZipObject /\ Checks[o.lang] = "tests")

CacheSound ==
  \A k \in Key : cache[k] # None =>
    /\ cache[k].design = k.design
    /\ cache[k].ok \/ (k.kind = "delta" /\ Checks[k.lang] = "tests")

(* What the threads share.                                                 *)
Shared ==
  /\ orders \in [Request \cup {Api} -> Order \cup {None}]
  /\ tracker \subseteq Object /\ leaked \subseteq Object
  /\ store \in [Object -> Stored \cup {None}]
  /\ StoreSound
  /\ cache \in [Key -> Artifact \cup {None}] /\ designs \in Design \cup {None}
  /\ CacheSound
  /\ faults \in 0..MaxFaults

Threads == run \in [Thread -> Run] /\ \A th \in Thread : Fit(th, run[th], orders)

(* The queue, and what it holds while a request is handled.                *)
Delivered ==
  /\ sent \subseteq Request /\ queue \in Seq(Request) /\ linked \in BOOLEAN
  /\ results \subseteq [job : Request, ok : BOOLEAN] /\ dropped \subseteq Request
  /\ ~At("consumer", "idle") => queue # <<>> /\ Job = Head(queue)

Working == Shared /\ Threads /\ Delivered

-----------------------------------------------------------------------------
(* Facts about the data.                                                   *)

LEMMA FirstIn ==
  ASSUME NEW S, S # {}
  PROVE  First(S) \in S
BY DEF First

LEMMA NoneApart ==
  /\ None \notin Design /\ None \notin Request /\ None # Api /\ Api \notin Request
  /\ None \notin Tier /\ None \notin Tag /\ None \notin Lang
  /\ None \notin Order /\ None \notin Artifact /\ None \notin Stored
BY NoneAssumption

LEMMA MessageTypes ==
  /\ \A q \in Seq(Request), r \in Request :
       /\ Append(q, r) \in Seq(Request) /\ Append(q, r) # <<>>
       /\ q # <<>> => Head(Append(q, r)) = Head(q)
  /\ \A q \in Seq(Request) : q # <<>> => Head(q) \in Request /\ Tail(q) \in Seq(Request)
<1>1. ASSUME NEW q \in Seq(Request), NEW r \in Request
      PROVE  /\ Append(q, r) \in Seq(Request) /\ Append(q, r) # <<>>
             /\ q # <<>> => Head(Append(q, r)) = Head(q)
  BY AppendProperties
<1>2. ASSUME NEW q \in Seq(Request), q # <<>>
      PROVE  Head(q) \in Request /\ Tail(q) \in Seq(Request)
  BY <1>2, HeadTailProperties
<1> QED BY <1>1, <1>2

LEMMA BlankFits ==
  ASSUME NEW th \in Thread, NEW ord
  PROVE  Fit(th, Blank, ord)
<1>1. Blank \in Run
  BY DEF Blank, Run, NoSkeletons, Pcs, Quality
<1>2. Blank.pc = "idle" /\ Blank.job = None /\ Blank.skeletons = NoSkeletons
  BY DEF Blank
<1> QED
  BY <1>1, <1>2 DEF Fit, Engaged, Listed, Equipped, NoSkeletons, GeneratePcs, InLanguage,
     OnTiers, OnTags, WithItem, Building, Assembling

-----------------------------------------------------------------------------
(* A step of one thread.                                                   *)

LEMMA SetFits ==
  ASSUME Threads, NEW th \in Thread, NEW r, Set(th, r), Fit(th, r, orders), orders' = orders
  PROVE  Threads'
<1>1. run' \in [Thread -> Run]
  BY DEF Threads, Set, Fit
<1>2. ASSUME NEW u \in Thread
      PROVE  Fit(u, run'[u], orders')
  BY DEF Threads, Set
<1> QED BY <1>1, <1>2 DEF Threads

(* A thread that goes on to a step outside the pipeline keeps its job only.*)
LEMMA LeaveFits ==
  ASSUME Threads, NEW th \in Thread, th # "api", NEW pc \in Pcs \ (GeneratePcs \cup {"idle"}),
         run[th].pc # "idle", Leave(th, pc), orders' = orders
  PROVE  Threads' /\ run'[th] = [Blank EXCEPT !.pc = pc, !.job = run[th].job]
<1> DEFINE r == [Blank EXCEPT !.pc = pc, !.job = run[th].job]
<1>1. run[th] \in Run /\ Fit(th, run[th], orders) /\ Blank \in Run
      /\ Blank.skeletons = NoSkeletons
  BY BlankFits DEF Threads, Fit, Blank
<1>2. r \in Run /\ r.pc = pc /\ r.job = run[th].job /\ r.skeletons = NoSkeletons
  BY <1>1 DEF Run
<1>3. Fit(th, r, orders)
  BY <1>1, <1>2 DEF Fit, Engaged, Listed, Equipped, GeneratePcs, InLanguage,
     OnTiers, OnTags, WithItem, Building, Assembling, Pcs, NoSkeletons
<1>4. run'[th] = r
  BY DEF Leave, Set, Threads
<1> QED BY <1>3, <1>4, SetFits DEF Leave

LEMMA RaisedFits ==
  ASSUME Threads, NEW th \in Thread, run[th].pc # "idle", Raised(th), orders' = orders
  PROVE  Threads'
<1>1. CASE th = "api"
  BY <1>1, BlankFits, SetFits DEF Raised
<1>2. CASE th # "api"
  BY <1>2, LeaveFits DEF Raised, Pcs, GeneratePcs
<1> QED BY <1>1, <1>2

(* The steps of the pipeline stay in it, end it or raise; what its result  *)
(* will name they leave alone, most of them.                               *)
Moves(th) ==
  /\ run[th].pc \in GeneratePcs \cup {"preview"}
  /\ \A u \in Thread \ {th} : run'[u] = run[u]
  /\ \/ Raised(th)
     \/ th = "api" /\ run'[th] = Blank
     \/ /\ run[th].pc \in GeneratePcs /\ run'[th].pc \in GeneratePcs \cup {"publish"}
        /\ run'[th].job = run[th].job

Carries(th) ==
  /\ run'[th].keys = run[th].keys /\ run'[th].blueprints = run[th].blueprints
  /\ run'[th].design = run[th].design
  /\ run[th].pc # "uploadZips" /\ run'[th].pc \notin {"design", "uploadZips"}

Plain(th) == Raised(th) \/ Carries(th) \/ th = "api"

LEMMA RaisedMoves ==
  ASSUME Threads, NEW th \in Thread, Raised(th), run[th].pc \in GeneratePcs \cup {"preview"}
  PROVE  Moves(th) /\ Plain(th)
<1>1. \A u \in Thread \ {th} : run'[u] = run[u]
  BY DEF Threads, Raised, Leave, Set
<1> QED BY <1>1 DEF Moves, Plain

LEMMA StepFits ==
  ASSUME Threads, NEW th \in Thread, NEW r, Set(th, r), Fit(th, r, orders), orders' = orders,
         run[th].pc \in GeneratePcs, r.pc \in GeneratePcs \cup {"publish"}, r.job = run[th].job
  PROVE  Threads' /\ Moves(th) /\ run'[th] = r
<1>1. run'[th] = r /\ \A u \in Thread \ {th} : run'[u] = run[u]
  BY DEF Threads, Set
<1> QED BY <1>1, SetFits DEF Moves

LEMMA CarriedFits ==
  ASSUME Threads, NEW th \in Thread, NEW r, Set(th, r), Fit(th, r, orders), orders' = orders,
         run[th].pc \in GeneratePcs \ {"uploadZips"},
         r.pc \in (GeneratePcs \cup {"publish"}) \ {"design", "uploadZips"}, r.job = run[th].job,
         r.keys = run[th].keys, r.blueprints = run[th].blueprints, r.design = run[th].design
  PROVE  Threads' /\ Moves(th) /\ Plain(th)
<1>1. Threads' /\ Moves(th) /\ run'[th] = r
  BY StepFits
<1> QED BY <1>1 DEF Carries, Plain

(* What is known of a thread that is at a step.                            *)
LEMMA InHand ==
  ASSUME Threads, NEW th \in Thread, run[th].pc # "idle"
  PROVE  /\ run[th] \in Run /\ Fit(th, run[th], orders)
         /\ orders[run[th].job] \in Order /\ Tiers(th) \subseteq Tier
         /\ run[th].job \in Request \cup {Api}
BY DEF Threads, Fit, Engaged, JobsOf, Tiers, Order

LEMMA ChooseDesignFits ==
  ASSUME Threads, NEW th \in Thread, NEW d \in Design, ChooseDesign(th, d)
  PROVE  Threads' /\ Moves(th) /\ designs' \in {designs, d}
<1> DEFINE r == [run[th] EXCEPT !.pc = "language", !.design = d,
                                !.langs = orders[run[th].job].langs]
<1>1. /\ run[th].pc = "design" /\ Set(th, r) /\ orders' = orders
      /\ designs' \in {designs, d}
  BY DEF ChooseDesign, At, messageVars
<1>2. run[th] \in Run /\ Fit(th, run[th], orders) /\ orders[run[th].job].langs \subseteq Lang
  BY <1>1, InHand DEF Order
<1>3. /\ r \in Run /\ r.pc = "language" /\ r.job = run[th].job /\ r.design = d
      /\ r.skeletons = NoSkeletons
  BY <1>1, <1>2 DEF Run, Pcs, GeneratePcs, Fit, Equipped
<1>4. Fit(th, r, orders)
  BY <1>1, <1>2, <1>3 DEF Fit, Engaged, Listed, Equipped, GeneratePcs, InLanguage,
     OnTiers, OnTags, WithItem, Building, Assembling, NoSkeletons
<1> QED BY <1>1, <1>3, <1>4, StepFits DEF GeneratePcs

LEMMA LanguageFits ==
  ASSUME Threads, NEW th \in Thread, Language(th)
  PROVE  Threads' /\ Moves(th) /\ Plain(th)
<1> DEFINE r == [run[th] EXCEPT !.pc = "skeleton", !.langs = @ \ {First(@)},
                                !.lang = First(run[th].langs), !.skip = {},
                                !.skeletons = NoSkeletons, !.todo = Tiers(th)]
<1>1. run[th].pc = "language" /\ run[th].langs # {} /\ Set(th, r) /\ orders' = orders
  BY DEF Language, At, messageVars
<1>2. run[th] \in Run /\ Fit(th, run[th], orders) /\ Tiers(th) \subseteq Tier
  BY <1>1, InHand
<1>3. First(run[th].langs) \in Lang
  BY <1>1, <1>2, FirstIn DEF Run
<1>4. /\ r.pc = "skeleton" /\ r.job = run[th].job /\ r.design = run[th].design
      /\ r.keys = run[th].keys /\ r.blueprints = run[th].blueprints
      /\ r.lang \in Lang /\ r.todo = Tiers(th) /\ r.skeletons = NoSkeletons
  BY <1>2, <1>3 DEF Run
<1>5. r \in Run
  BY <1>2, <1>3 DEF Run, Pcs, GeneratePcs, NoSkeletons
<1>6. Fit(th, r, orders)
  BY <1>1, <1>2, <1>4, <1>5 DEF Fit, Engaged, Listed, Equipped, GeneratePcs, InLanguage,
     OnTiers, OnTags, WithItem, Building, Assembling, NoSkeletons, Tiers
<1> QED BY <1>1, <1>6, <1>4, CarriedFits DEF GeneratePcs

(* The skeletons of the tiers.                                             *)
LEMMA SkipTierFits ==
  ASSUME Threads, NEW th \in Thread, SkipTier(th)
  PROVE  Threads' /\ Moves(th) /\ Plain(th)
<1> DEFINE r == [run[th] EXCEPT !.skip = @ \cup {Item(th)}, !.todo = @ \ {Item(th)}]
<1>1. run[th].pc = "skeleton" /\ run[th].todo # {} /\ Set(th, r) /\ orders' = orders
  BY DEF SkipTier, At, messageVars
<1>2. run[th] \in Run /\ Fit(th, run[th], orders)
  BY <1>1, InHand
<1>3. Item(th) \in Tier
  BY <1>1, <1>2, FirstIn DEF Fit, Listed, OnTiers, Item
<1>4. /\ r \in Run /\ r.pc = "skeleton" /\ r.job = run[th].job /\ r.design = run[th].design
      /\ r.keys = run[th].keys /\ r.blueprints = run[th].blueprints
      /\ r.lang = run[th].lang /\ r.todo = run[th].todo \ {Item(th)}
      /\ r.skip = run[th].skip \cup {Item(th)} /\ r.skeletons = run[th].skeletons
  BY <1>1, <1>2, <1>3 DEF Run
<1>5. Fit(th, r, orders)
  BY <1>1, <1>2, <1>4 DEF Fit, Engaged, Listed, Equipped, GeneratePcs, InLanguage,
     OnTiers, OnTags, WithItem, Building, Assembling
<1> QED BY <1>1, <1>5, <1>4, CarriedFits DEF GeneratePcs

LEMMA KeyType ==
  ASSUME Threads, NEW th \in Thread, run[th].pc \in InLanguage
  PROVE  /\ \A t \in Tier : KeyOf(th, "skeleton", t) \in Key /\ KeyOf(th, "checkpoint", t) \in Key
         /\ \A g \in Tag : KeyOf(th, "delta", g) \in Key
         /\ \A kind, part : /\ KeyOf(th, kind, part).design = run[th].design
                            /\ KeyOf(th, kind, part).kind = kind
                            /\ KeyOf(th, kind, part).lang = run[th].lang
         /\ \A ok \in BOOLEAN : Made(th, ok) \in Artifact /\ Made(th, ok).ok = ok
                                /\ Made(th, ok).design = run[th].design
<1>1. run[th].design \in Design /\ run[th].lang \in Lang
  BY DEF Threads, Fit, Engaged, InLanguage
<1> QED BY <1>1 DEF KeyOf, Key, TierKey, TagKey, Made, Artifact

LEMMA ReuseSkeletonFits ==
  ASSUME Threads, Shared, NEW th \in Thread, ReuseSkeleton(th)
  PROVE  Threads' /\ Moves(th) /\ Plain(th)
<1> DEFINE a == cache[KeyOf(th, "skeleton", Item(th))]
           r == [run[th] EXCEPT !.todo = @ \ {Item(th)}, !.skeletons[Item(th)] = a]
<1>1. /\ run[th].pc = "skeleton" /\ run[th].todo # {} /\ a # None
      /\ Set(th, r) /\ orders' = orders
  BY DEF ReuseSkeleton, At, messageVars, Cached
<1>2. run[th] \in Run /\ Fit(th, run[th], orders)
  BY <1>1, InHand
<1>3. Item(th) \in Tier
  BY <1>1, <1>2, FirstIn DEF Fit, Listed, OnTiers, Item
<1>4. a \in Artifact /\ a.ok /\ a.design = run[th].design
  <2>1. /\ KeyOf(th, "skeleton", Item(th)) \in Key
        /\ KeyOf(th, "skeleton", Item(th)).design = run[th].design
        /\ KeyOf(th, "skeleton", Item(th)).kind = "skeleton"
    BY <1>1, <1>3, KeyType DEF InLanguage, GeneratePcs
  <2> QED BY <1>1, <2>1 DEF Shared, CacheSound
<1>5. /\ r.pc = "skeleton" /\ r.job = run[th].job /\ r.design = run[th].design
      /\ r.keys = run[th].keys /\ r.blueprints = run[th].blueprints
      /\ r.lang = run[th].lang /\ r.todo = run[th].todo \ {Item(th)} /\ r.skip = run[th].skip
      /\ r.skeletons = [run[th].skeletons EXCEPT ![Item(th)] = a]
  BY <1>1, <1>2 DEF Run
<1>6. r \in Run
  BY <1>2, <1>4 DEF Run
<1>7. Equipped(r, orders)
  BY <1>1, <1>2, <1>3, <1>4, <1>5, NoneApart DEF Fit, Equipped, Building, Assembling, OnTags, Run, Artifact
<1>8. Fit(th, r, orders)
  BY <1>1, <1>2, <1>5, <1>6, <1>7 DEF Fit, Engaged, Listed, GeneratePcs, InLanguage,
     OnTiers, OnTags, WithItem
<1> QED BY <1>1, <1>8, <1>5, CarriedFits DEF GeneratePcs

(* The thread takes the next item of its list.                             *)
LEMMA AskFits ==
  ASSUME Threads, NEW th \in Thread, NEW qualities \in SUBSET Quality, NEW pc \in WithItem \ {"uploadGold", "uploadZips"},
         Ask(th, pc, qualities), run[th].todo # {}, orders' = orders,
         \/ run[th].pc = "skeleton" /\ pc = "compileSkeleton"
         \/ run[th].pc = "delta" /\ pc = "compileDelta"
         \/ run[th].pc = "assemble" /\ pc = "compileGold"
  PROVE  Threads' /\ Moves(th) /\ Plain(th)
<1>1. PICK q \in qualities : Set(th, [run[th] EXCEPT !.pc = pc, !.item = Item(th), !.code = q])
  BY DEF Ask
<1> DEFINE r == [run[th] EXCEPT !.pc = pc, !.item = Item(th), !.code = q]
<1>2. run[th] \in Run /\ Fit(th, run[th], orders)
  BY InHand
<1>3. Item(th) \in run[th].todo
  BY FirstIn DEF Item
<1>4. /\ r \in Run /\ r.pc = pc /\ r.job = run[th].job /\ r.design = run[th].design
      /\ r.keys = run[th].keys /\ r.blueprints = run[th].blueprints
      /\ r.lang = run[th].lang /\ r.todo = run[th].todo /\ r.item = Item(th)
      /\ r.skip = run[th].skip /\ r.skeletons = run[th].skeletons
  BY <1>2, <1>3 DEF Run, Pcs, GeneratePcs, WithItem
<1>5. Engaged(th, r, orders)
  BY <1>2, <1>4 DEF Fit, Engaged, GeneratePcs, InLanguage, WithItem
<1>6. Listed(r, orders)
  BY <1>2, <1>3, <1>4 DEF Fit, Listed, OnTiers, OnTags, WithItem
<1>7. Equipped(r, orders)
  BY <1>2, <1>4 DEF Fit, Equipped, Building, OnTags, Assembling, WithItem
<1> QED BY <1>1, <1>4, <1>5, <1>6, <1>7, CarriedFits DEF Fit, GeneratePcs

LEMMA PatchFits ==
  ASSUME Threads, NEW th \in Thread, NEW qualities \in SUBSET Quality, Patch(th, qualities),
         run[th].pc \in {"compileSkeleton", "compileDelta", "compileGold"}, orders' = orders
  PROVE  Threads' /\ Moves(th) /\ Plain(th)
<1>1. PICK q \in qualities : Set(th, [run[th] EXCEPT !.code = q, !.tries = @ + 1])
  BY DEF Patch
<1> DEFINE r == [run[th] EXCEPT !.code = q, !.tries = @ + 1]
<1>2. run[th] \in Run /\ Fit(th, run[th], orders)
  BY InHand
<1>3. /\ r \in Run /\ r.pc = run[th].pc /\ r.job = run[th].job /\ r.design = run[th].design
      /\ r.keys = run[th].keys /\ r.blueprints = run[th].blueprints
      /\ r.lang = run[th].lang /\ r.todo = run[th].todo /\ r.item = run[th].item
      /\ r.skip = run[th].skip /\ r.skeletons = run[th].skeletons
  <2>1. run[th].tries + 1 \in Nat /\ q \in Quality
    BY <1>1, <1>2 DEF Run
  <2> QED BY <1>2, <2>1 DEF Run
<1>4. Fit(th, r, orders)
  <2>1. r.pc # "uploadGold"
    BY <1>3
  <2> QED BY <1>2, <1>3, <2>1 DEF Fit, Engaged, Listed, Equipped
<1> QED BY <1>1, <1>4, <1>3, CarriedFits DEF GeneratePcs

(* Done: the item leaves the list.                                         *)
LEMMA DoneFields ==
  ASSUME NEW th, run[th] \in Run, NEW pc \in {"skeleton", "delta", "assemble"}
  PROVE  /\ Done(th, pc) \in Run /\ Done(th, pc).pc = pc /\ Done(th, pc).job = run[th].job
         /\ Done(th, pc).design = run[th].design /\ Done(th, pc).lang = run[th].lang
         /\ Done(th, pc).todo = run[th].todo \ {run[th].item}
         /\ Done(th, pc).langs = run[th].langs
         /\ Done(th, pc).skip = run[th].skip /\ Done(th, pc).skeletons = run[th].skeletons
         /\ Done(th, pc).keys = run[th].keys /\ Done(th, pc).blueprints = run[th].blueprints
<1>1. "broken" \in Quality /\ 0 \in Nat /\ pc \in Pcs
  BY DEF Quality, Pcs, GeneratePcs
<1>2. run[th].todo \ {run[th].item} \in SUBSET (Tier \cup Tag)
  BY DEF Run
<1> QED BY <1>1, <1>2 DEF Done, Run

LEMMA KeepSkeletonFits ==
  ASSUME Threads, NEW th \in Thread, run[th].pc = "compileSkeleton", KeepSkeleton(th, TRUE),
         orders' = orders
  PROVE  Threads' /\ Moves(th) /\ Plain(th)
<1> DEFINE d == Done(th, "skeleton")
           a == Made(th, TRUE)
           r == [d EXCEPT !.skeletons[run[th].item] = a]
<1>1. Set(th, r)
  BY DEF KeepSkeleton
<1>2. run[th] \in Run /\ Fit(th, run[th], orders) /\ run[th].item \in Tier
  BY InHand DEF Fit, Listed, OnTiers, WithItem
<1>3. a \in Artifact /\ a.ok /\ a.design = run[th].design
  BY KeyType DEF InLanguage, GeneratePcs
<1>4. /\ d \in Run /\ d.pc = "skeleton" /\ d.job = run[th].job /\ d.design = run[th].design
      /\ d.keys = run[th].keys /\ d.blueprints = run[th].blueprints
      /\ d.lang = run[th].lang /\ d.todo = run[th].todo \ {run[th].item}
      /\ d.skip = run[th].skip /\ d.skeletons = run[th].skeletons
  BY <1>2, DoneFields
<1> HIDE DEF d, a
<1>5. /\ r.pc = "skeleton" /\ r.job = run[th].job /\ r.design = run[th].design
      /\ r.keys = run[th].keys /\ r.blueprints = run[th].blueprints
      /\ r.lang = run[th].lang /\ r.todo = run[th].todo \ {run[th].item} /\ r.skip = run[th].skip
      /\ r.skeletons = [run[th].skeletons EXCEPT ![run[th].item] = a]
  BY <1>4 DEF Run
<1>6. r \in Run
  BY <1>3, <1>4 DEF Run
<1>7. Equipped(r, orders)
  <2>1. \A t \in Tier : /\ t = run[th].item => r.skeletons[t] = a
                        /\ t # run[th].item => r.skeletons[t] = run[th].skeletons[t]
    BY <1>2, <1>5 DEF Run
  <2>2. orders[run[th].job].tiers \subseteq Tier /\ a # None
    BY <1>3, NoneApart, InHand DEF Tiers
  <2>3. \A t \in orders[r.job].tiers \ (r.todo \cup r.skip) : r.skeletons[t] # None
    BY <1>2, <1>5, <2>1, <2>2 DEF Fit, Equipped, Building
  <2> QED BY <1>2, <1>3, <1>5, <2>1, <2>3 DEF Fit, Equipped, Building, Assembling, OnTags
<1>8. Fit(th, r, orders)
  BY <1>2, <1>5, <1>6, <1>7 DEF Fit, Engaged, Listed, GeneratePcs, InLanguage,
     OnTiers, OnTags, WithItem
<1> QED BY <1>1, <1>8, <1>5, CarriedFits DEF GeneratePcs

LEMMA RememberShared ==
  ASSUME Shared, Threads, NEW th \in Thread, run[th].pc \in InLanguage,
         NEW kind, NEW part, NEW ok \in BOOLEAN,
         ok \/ (kind = "delta" /\ Checks[run[th].lang] = "tests"),
         Remember(th, kind, part, Made(th, ok))
  PROVE  cache' \in [Key -> Artifact \cup {None}] /\ CacheSound'
<1> DEFINE m == Made(th, ok)
           k0 == KeyOf(th, kind, part)
<1>1. /\ m \in Artifact /\ m.ok = ok /\ m.design = run[th].design
      /\ k0.design = run[th].design /\ k0.kind = kind /\ k0.lang = run[th].lang
  BY KeyType
<1>2. cache' = [cache EXCEPT ![k0] = m]
  BY DEF Remember
<1> HIDE DEF m, k0
<1>3. ASSUME NEW k \in Key
      PROVE  cache'[k] \in {cache[k], m} /\ (k = k0 => cache'[k] = m)
                                        /\ (k # k0 => cache'[k] = cache[k])
  BY <1>2 DEF Shared
<1> QED BY <1>1, <1>2, <1>3 DEF Shared, CacheSound

LEMMA CompileSkeletonFits ==
  ASSUME Shared, Threads, NEW th \in Thread, CompileSkeleton(th)
  PROVE  /\ Threads' /\ Moves(th) /\ Plain(th) /\ cache' \in [Key -> Artifact \cup {None}]
         /\ CacheSound'
<1>1. run[th].pc = "compileSkeleton" /\ orders' = orders
  BY DEF CompileSkeleton, At, messageVars
<1>2. CASE KeepSkeleton(th, TRUE)
  BY <1>1, <1>2, KeepSkeletonFits, RememberShared DEF KeepSkeleton, InLanguage, GeneratePcs
<1>3. CASE Patch(th, Quality) /\ UNCHANGED cache
  BY <1>1, <1>3, PatchFits DEF Shared, CacheSound
<1>4. CASE Raised(th) /\ UNCHANGED cache
  BY <1>1, <1>4, RaisedFits, RaisedMoves DEF Shared, CacheSound, GeneratePcs
<1> QED BY <1>2, <1>3, <1>4 DEF CompileSkeleton

(* The scenarios.                                                          *)
LEMMA StartDeltasFits ==
  ASSUME Threads, NEW th \in Thread, StartDeltas(th)
  PROVE  Threads' /\ Moves(th) /\ Plain(th)
<1> DEFINE r == [run[th] EXCEPT !.pc = "delta", !.todo = Tags(Tiers(th) \ run[th].skip)]
<1>1. run[th].pc = "skeleton" /\ run[th].todo = {} /\ Set(th, r) /\ orders' = orders
  BY DEF StartDeltas, At, messageVars
<1>2. run[th] \in Run /\ Fit(th, run[th], orders) /\ Tags(Tiers(th) \ run[th].skip) \subseteq Tag
  BY <1>1, InHand DEF Tags
<1>3. /\ r \in Run /\ r.pc = "delta" /\ r.job = run[th].job /\ r.design = run[th].design
      /\ r.keys = run[th].keys /\ r.blueprints = run[th].blueprints
      /\ r.lang = run[th].lang /\ r.todo \subseteq Tag
      /\ r.skip = run[th].skip /\ r.skeletons = run[th].skeletons
  BY <1>2 DEF Run, Pcs, GeneratePcs
<1>4. Fit(th, r, orders)
  BY <1>1, <1>2, <1>3 DEF Fit, Engaged, Listed, Equipped, GeneratePcs, InLanguage,
     OnTiers, OnTags, WithItem, Building, Assembling
<1> QED BY <1>1, <1>4, <1>3, CarriedFits DEF GeneratePcs

LEMMA ReuseDeltaFits ==
  ASSUME Threads, NEW th \in Thread, ReuseDelta(th)
  PROVE  Threads' /\ Moves(th) /\ Plain(th)
<1> DEFINE r == [run[th] EXCEPT !.todo = @ \ {Item(th)}]
<1>1. run[th].pc = "delta" /\ Set(th, r) /\ orders' = orders
  BY DEF ReuseDelta, At, messageVars
<1>2. run[th] \in Run /\ Fit(th, run[th], orders)
  BY <1>1, InHand
<1>3. /\ r \in Run /\ r.pc = "delta" /\ r.job = run[th].job /\ r.design = run[th].design
      /\ r.keys = run[th].keys /\ r.blueprints = run[th].blueprints
      /\ r.lang = run[th].lang /\ r.todo \subseteq run[th].todo
      /\ r.skip = run[th].skip /\ r.skeletons = run[th].skeletons
  BY <1>1, <1>2 DEF Run
<1>4. Fit(th, r, orders)
  BY <1>1, <1>2, <1>3 DEF Fit, Engaged, Listed, Equipped, GeneratePcs, InLanguage,
     OnTiers, OnTags, WithItem, Building, Assembling
<1> QED BY <1>1, <1>4, <1>3, CarriedFits DEF GeneratePcs

(* The skeletons change only where the repair put its files.               *)
LEMMA KeepDeltaFits ==
  ASSUME Threads, NEW th \in Thread, run[th].pc = "compileDelta", NEW ok, NEW skeletons,
         \/ skeletons = run[th].skeletons
         \/ Repairable(th) /\ skeletons \in Repaired(th),
         KeepDelta(th, ok, skeletons), orders' = orders
  PROVE  Threads' /\ Moves(th) /\ Plain(th)
<1> DEFINE d == Done(th, "delta")
           a == Made(th, FALSE)
           g == run[th].item
           r == [d EXCEPT !.skeletons = skeletons]
<1>1. Set(th, r)
  BY DEF KeepDelta
<1>2. run[th] \in Run /\ Fit(th, run[th], orders) /\ TierOf[g] \in Tier
  BY InHand, NamesAssumption DEF Fit, Listed, OnTags, WithItem
<1>3. a \in Artifact /\ ~a.ok /\ a.design = run[th].design /\ a # None
  BY KeyType, NoneApart DEF InLanguage, GeneratePcs
<1>4. /\ d \in Run /\ d.pc = "delta" /\ d.job = run[th].job /\ d.design = run[th].design
      /\ d.keys = run[th].keys /\ d.blueprints = run[th].blueprints
      /\ d.lang = run[th].lang /\ d.todo \subseteq run[th].todo
      /\ d.skip = run[th].skip
  BY <1>2, DoneFields
<1>5. \/ skeletons = run[th].skeletons
      \/ Checks[run[th].lang] = "tests" /\ skeletons = [run[th].skeletons EXCEPT ![TierOf[g]] = a]
  BY DEF Repaired, Repairable
<1> HIDE DEF d, a, g
<1>6. /\ skeletons \in [Tier -> Artifact \cup {None}]
      /\ \A t \in Tier : \/ skeletons[t] = run[th].skeletons[t]
                         \/ Checks[run[th].lang] = "tests" /\ skeletons[t] = a
  BY <1>2, <1>3, <1>5 DEF Run
<1>7. /\ r.pc = "delta" /\ r.job = run[th].job /\ r.design = run[th].design
      /\ r.keys = run[th].keys /\ r.blueprints = run[th].blueprints
      /\ r.lang = run[th].lang /\ r.todo \subseteq run[th].todo
      /\ r.skip = run[th].skip /\ r.skeletons = skeletons
  BY <1>4 DEF Run
<1>8. r \in Run
  BY <1>4, <1>6 DEF Run
<1>9. Equipped(r, orders)
  <2>1. orders[run[th].job].tiers \subseteq Tier
    BY InHand DEF Tiers
  <2>2. \A t \in orders[r.job].tiers \ r.skip : r.skeletons[t] # None
    BY <1>2, <1>3, <1>6, <1>7, <2>1 DEF Fit, Equipped, OnTags
  <2>3. \A t \in Tier : r.skeletons[t] # None =>
           /\ r.skeletons[t].design = r.design
           /\ r.skeletons[t].ok \/ Checks[r.lang] = "tests"
    BY <1>2, <1>3, <1>6, <1>7 DEF Fit, Equipped
  <2> QED BY <1>7, <2>2, <2>3 DEF Equipped, Building, Assembling
<1>10. Fit(th, r, orders)
  BY <1>2, <1>7, <1>8, <1>9 DEF Fit, Engaged, Listed, GeneratePcs, InLanguage,
     OnTiers, OnTags, WithItem
<1> QED BY <1>1, <1>10, <1>7, CarriedFits DEF GeneratePcs

LEMMA CompileDeltaFits ==
  ASSUME Shared, Threads, NEW th \in Thread, CompileDelta(th)
  PROVE  /\ Threads' /\ Moves(th) /\ Plain(th) /\ cache' \in [Key -> Artifact \cup {None}]
         /\ CacheSound'
<1>1. run[th].pc = "compileDelta" /\ orders' = orders
  BY DEF CompileDelta, At, messageVars
<1>2. CASE KeepDelta(th, TRUE, run[th].skeletons)
  <2>1. Threads' /\ Moves(th) /\ Plain(th)
    BY <1>1, <1>2, KeepDeltaFits
  <2> QED BY <1>1, <1>2, <2>1, RememberShared DEF KeepDelta, InLanguage, GeneratePcs
<1>3. ASSUME Repairable(th), NEW sk \in Repaired(th), KeepDelta(th, FALSE, sk)
      PROVE  /\ Threads' /\ Moves(th) /\ Plain(th) /\ cache' \in [Key -> Artifact \cup {None}]
             /\ CacheSound'
  <2>1. Threads' /\ Moves(th) /\ Plain(th)
    BY <1>1, <1>3, KeepDeltaFits
  <2>2. Checks[run[th].lang] = "tests" /\ Remember(th, "delta", run[th].item, Made(th, FALSE))
    BY <1>3 DEF Repairable, KeepDelta
  <2> QED BY <1>1, <2>1, <2>2, RememberShared DEF InLanguage, GeneratePcs
<1>4. CASE Patch(th, {"good", "broken"}) /\ UNCHANGED cache
  BY <1>1, <1>4, PatchFits DEF Shared, CacheSound, Quality
<1>5. CASE Raised(th) /\ UNCHANGED cache
  BY <1>1, <1>5, RaisedFits, RaisedMoves DEF Shared, CacheSound, GeneratePcs
<1> QED BY <1>2, <1>3, <1>4, <1>5 DEF CompileDelta

(* The gold masters.                                                       *)
LEMMA StartAssemblyFits ==
  ASSUME Threads, NEW th \in Thread, StartAssembly(th)
  PROVE  Threads' /\ Moves(th) /\ Plain(th)
<1> DEFINE r == [run[th] EXCEPT !.pc = "assemble", !.todo = Tiers(th) \ run[th].skip]
<1>1. run[th].pc = "delta" /\ Set(th, r) /\ orders' = orders
  BY DEF StartAssembly, At, messageVars
<1>2. run[th] \in Run /\ Fit(th, run[th], orders) /\ Tiers(th) \subseteq Tier
  BY <1>1, InHand
<1>3. /\ r \in Run /\ r.pc = "assemble" /\ r.job = run[th].job /\ r.design = run[th].design
      /\ r.keys = run[th].keys /\ r.blueprints = run[th].blueprints
      /\ r.lang = run[th].lang /\ r.todo = Tiers(th) \ run[th].skip
      /\ r.skip = run[th].skip /\ r.skeletons = run[th].skeletons
  BY <1>2 DEF Run, Pcs, GeneratePcs
<1>4. Fit(th, r, orders)
  BY <1>1, <1>2, <1>3 DEF Fit, Engaged, Listed, Equipped, GeneratePcs, InLanguage,
     OnTiers, OnTags, WithItem, Building, Assembling, Tiers
<1> QED BY <1>1, <1>4, <1>3, CarriedFits DEF GeneratePcs

LEMMA CompileGoldFits ==
  ASSUME Threads, NEW th \in Thread, CompileGold(th)
  PROVE  Threads' /\ Moves(th) /\ Plain(th)
<1>1. run[th].pc = "compileGold" /\ orders' = orders
  BY DEF CompileGold, At, messageVars
<1>2. run[th] \in Run /\ Fit(th, run[th], orders)
  BY <1>1, InHand
<1>3. ASSUME NEW code \in Quality, code \in Passing(run[th].lang, TRUE),
             Set(th, [run[th] EXCEPT !.pc = "uploadGold", !.code = code])
      PROVE  Threads' /\ Moves(th) /\ Plain(th)
  <2> DEFINE r == [run[th] EXCEPT !.pc = "uploadGold", !.code = code]
  <2>1. /\ r \in Run /\ r.pc = "uploadGold" /\ r.code = code
        /\ r.job = run[th].job /\ r.design = run[th].design
        /\ r.keys = run[th].keys /\ r.blueprints = run[th].blueprints
        /\ r.lang = run[th].lang /\ r.todo = run[th].todo /\ r.item = run[th].item
        /\ r.skip = run[th].skip /\ r.skeletons = run[th].skeletons
    BY <1>2 DEF Run, Pcs, GeneratePcs
  <2>2. Fit(th, r, orders)
    BY <1>1, <1>2, <1>3, <2>1 DEF Fit, Engaged, Listed, Equipped, GeneratePcs, InLanguage,
       OnTiers, OnTags, WithItem, Building, Assembling
  <2> QED BY <1>1, <1>3, <2>2, <2>1, CarriedFits DEF GeneratePcs
<1>4. CASE Passes(th, TRUE) /\ Go(th, "uploadGold")
  <2>1. run[th].code \in Quality /\ run[th].code \in Passing(run[th].lang, TRUE)
    BY <1>2, <1>4 DEF Run, Passes
  <2>2. [run[th] EXCEPT !.pc = "uploadGold"] =
          [run[th] EXCEPT !.pc = "uploadGold", !.code = run[th].code]
    BY <1>2 DEF Run
  <2> QED BY <1>3, <1>4, <2>1, <2>2 DEF Go
<1>5. CASE Repairable(th) /\ Set(th, [run[th] EXCEPT !.pc = "uploadGold", !.code = "good"])
  BY <1>3, <1>5 DEF Quality, Passing
<1>6. CASE Patch(th, Quality)
  BY <1>1, <1>6, PatchFits
<1>7. CASE Raised(th)
  BY <1>1, <1>7, RaisedFits, RaisedMoves DEF GeneratePcs
<1> QED BY <1>4, <1>5, <1>6, <1>7 DEF CompileGold

(* What goes up: the object and what is in it.                             *)
LEMMA NextUploadType ==
  ASSUME Threads, NEW th \in Thread,
         At(th, "uploadGold") \/ (At(th, "uploadZips") /\ run[th].zips # {})
  PROVE  /\ NextUpload(th).object \in Object
         /\ NextUpload(th).made \in Artifact
         /\ \/ NextUpload(th).made.ok
            \/ NextUpload(th).object \in ZipObject /\ Checks[NextUpload(th).object.lang] = "tests"
         /\ run[th].item \in Tier /\ run[th].lang \in Lang /\ run[th].design \in Design
<1>1. run[th] \in Run /\ Fit(th, run[th], orders) /\ orders[run[th].job].tiers \subseteq Tier
  BY InHand DEF At, Tiers
<1>2. run[th].item \in Tier /\ run[th].lang \in Lang /\ run[th].design \in Design
  BY <1>1 DEF Fit, Listed, Engaged, At, OnTiers, WithItem, InLanguage, GeneratePcs
<1>3. NameOf[run[th].design] \in Challenge
  BY <1>2, NamesAssumption
<1>4. CASE At(th, "uploadGold")
  <2>1. Passes(th, TRUE)
    BY <1>1, <1>4 DEF Fit, Listed, At, Passes
  <2> QED BY <1>2, <1>3, <1>4, <2>1 DEF NextUpload, GoldOf, Object, GoldObject, Made, Artifact
<1>5. CASE ~At(th, "uploadGold")
  <2>1. First(run[th].zips) \in Tag
    BY <1>1, <1>5, FirstIn DEF Run
  <2>2. run[th].skeletons[run[th].item] # None
    BY <1>1, <1>2, <1>5 DEF Fit, Listed, Equipped, At, WithItem, Assembling
  <2>3. /\ run[th].skeletons[run[th].item] \in Artifact
        /\ run[th].skeletons[run[th].item].ok \/ Checks[run[th].lang] = "tests"
    BY <1>1, <1>2, <2>2 DEF Fit, Equipped, Run
  <2> QED BY <1>2, <1>3, <1>5, <2>1, <2>3 DEF NextUpload, ZipOf, Object, ZipObject
<1> QED BY <1>2, <1>4, <1>5

LEMMA PutShared ==
  ASSUME Shared, Threads, NEW th \in Thread,
         At(th, "uploadGold") \/ (At(th, "uploadZips") /\ run[th].zips # {}),
         Put(th, NextUpload(th))
  PROVE  /\ store' \in [Object -> Stored \cup {None}]
         /\ StoreSound'
         /\ \A o \in Object : o # NextUpload(th).object => store'[o] = store[o]
         /\ store'[NextUpload(th).object] # None
         /\ store'[NextUpload(th).object].by = run[th].job
<1> DEFINE up == NextUpload(th)
           s == [design |-> up.made.design, ok |-> up.made.ok, by |-> run[th].job]
<1>1. /\ up.object \in Object /\ up.made \in Artifact
      /\ up.made.ok \/ (up.object \in ZipObject /\ Checks[up.object.lang] = "tests")
  BY NextUploadType
<1>2. run[th].job \in Request \cup {Api}
  BY InHand DEF At
<1>3. s \in Stored /\ s.ok = up.made.ok /\ s.by = run[th].job /\ s # None
  <2>1. up.made.design \in Design /\ up.made.ok \in BOOLEAN
    BY <1>1 DEF Artifact
  <2> HIDE DEF up
  <2>2. s \in Stored
    BY <1>2, <2>1 DEF Stored
  <2>3. s.ok = up.made.ok /\ s.by = run[th].job
    BY <2>1
  <2> HIDE DEF s
  <2> QED BY <2>2, <2>3, NoneApart
<1>4. store' = [store EXCEPT ![up.object] = s]
  BY DEF Put
<1> HIDE DEF up, s
<1>5. up.object \in Object
  BY <1>1
<1>6. store' \in [Object -> Stored \cup {None}] /\ store'[up.object] = s
      /\ \A o \in Object : o # up.object => store'[o] = store[o]
  BY <1>3, <1>4, <1>5 DEF Shared
<1>7. StoreSound'
  BY <1>1, <1>3, <1>6 DEF Shared, StoreSound
<1> QED BY <1>3, <1>6, <1>7 DEF up

LEMMA UploadFits ==
  ASSUME Shared, Threads, NEW th \in Thread, UploadGold(th) \/ UploadZip(th)
  PROVE  /\ Threads' /\ Moves(th) /\ store' \in [Object -> Stored \cup {None}]
         /\ StoreSound'
         /\ tracker' \subseteq Object /\ leaked' \subseteq Object
<1>1. /\ At(th, "uploadGold") \/ (At(th, "uploadZips") /\ run[th].zips # {})
      /\ Upload(th) /\ orders' = orders
  BY DEF UploadGold, UploadZip, messageVars
<1>2. run[th] \in Run /\ Fit(th, run[th], orders) /\ run[th].item \in Tier /\ run[th].lang \in Lang
      /\ NextUpload(th).object \in Object
  BY <1>1, InHand, NextUploadType DEF At
<1>3. /\ store' \in [Object -> Stored \cup {None}]
      /\ StoreSound'
  BY <1>1, PutShared DEF Upload
<1>4. tracker' \subseteq Object /\ leaked' \subseteq Object
  BY <1>1, <1>2 DEF Upload, Shared
<1>5. ASSUME NEW zips \in SUBSET Tag, NEW keys \in SUBSET (Lang \X Tier),
             Set(th, [run[th] EXCEPT !.pc = "uploadZips", !.zips = zips, !.keys = keys])
      PROVE  Threads' /\ Moves(th)
  <2> DEFINE r == [run[th] EXCEPT !.pc = "uploadZips", !.zips = zips, !.keys = keys]
  <2>1. /\ r \in Run /\ r.pc = "uploadZips" /\ r.code = run[th].code
        /\ r.job = run[th].job /\ r.design = run[th].design
        /\ r.lang = run[th].lang /\ r.todo = run[th].todo /\ r.item = run[th].item
        /\ r.skip = run[th].skip /\ r.skeletons = run[th].skeletons
    BY <1>2 DEF Run, Pcs, GeneratePcs
  <2>2. Fit(th, r, orders)
    BY <1>1, <1>2, <2>1 DEF Fit, Engaged, Listed, Equipped, GeneratePcs, InLanguage, At,
       OnTiers, OnTags, WithItem, Building, Assembling
  <2> QED BY <1>1, <1>5, <2>1, <2>2, StepFits DEF GeneratePcs, At
<1>6. CASE UploadGold(th)
  <2>1. Tags({run[th].item}) \subseteq Tag
        /\ run[th].keys \cup {<<run[th].lang, run[th].item>>} \subseteq Lang \X Tier
    BY <1>2 DEF Tags, Run
  <2> QED BY <1>5, <1>6, <2>1, <1>3, <1>4 DEF UploadGold
<1>7. CASE UploadZip(th)
  <2> DEFINE z == run[th].zips \ {First(run[th].zips)}
             r == [run[th] EXCEPT !.zips = z]
  <2>1. /\ At(th, "uploadZips") /\ Set(th, r)
    BY <1>7 DEF UploadZip
  <2>2. z \in SUBSET Tag /\ run[th].keys \in SUBSET (Lang \X Tier)
    BY <1>2 DEF Run
  <2>3. r = [run[th] EXCEPT !.pc = "uploadZips", !.zips = z, !.keys = run[th].keys]
    BY <1>2, <2>1 DEF Run, At
  <2> QED BY <1>5, <2>1, <2>2, <2>3, <1>3, <1>4
<1> QED BY <1>6, <1>7

LEMMA UploadLostFits ==
  ASSUME Shared, Threads, NEW th \in Thread, UploadLost(th)
  PROVE  /\ Threads' /\ store' \in [Object -> Stored \cup {None}]
         /\ StoreSound'
         /\ leaked' \subseteq Object /\ faults' \in 0..MaxFaults
<1>1. /\ At(th, "uploadGold") \/ (At(th, "uploadZips") /\ run[th].zips # {})
      /\ Put(th, NextUpload(th)) /\ orders' = orders
  BY DEF UploadLost, messageVars
<1>2. /\ store' \in [Object -> Stored \cup {None}]
      /\ StoreSound'
  BY <1>1, PutShared
<1>3. leaked' \subseteq Object
  BY <1>1, NextUploadType DEF UploadLost, Shared
<1>4. faults' \in 0..MaxFaults
  BY RetriesAssumption DEF UploadLost, Fault, Shared
<1> QED BY <1>1, <1>2, <1>3, <1>4, RaisedFits DEF UploadLost, At

LEMMA CheckpointFits ==
  ASSUME Shared, Threads, NEW th \in Thread, Checkpoint(th)
  PROVE  /\ Threads' /\ Moves(th) /\ cache' \in [Key -> Artifact \cup {None}]
         /\ CacheSound'
<1> DEFINE r == Done(th, "assemble")
<1>1. /\ run[th].pc = "uploadZips" /\ Set(th, r) /\ orders' = orders
      /\ Remember(th, "checkpoint", run[th].item, Made(th, Passes(th, TRUE))) \/ UNCHANGED cache
  BY DEF Checkpoint, At, messageVars
<1>2. run[th] \in Run /\ Fit(th, run[th], orders) /\ Passes(th, TRUE) = TRUE
  BY <1>1, InHand DEF Fit, Listed, Passes
<1>3. /\ r \in Run /\ r.pc = "assemble" /\ r.job = run[th].job /\ r.design = run[th].design
      /\ r.lang = run[th].lang /\ r.todo \subseteq run[th].todo
      /\ r.skip = run[th].skip /\ r.skeletons = run[th].skeletons
  BY <1>2, DoneFields
<1>4. Fit(th, r, orders)
  BY <1>1, <1>2, <1>3 DEF Fit, Engaged, Listed, Equipped, GeneratePcs, InLanguage,
     OnTiers, OnTags, WithItem, Building, Assembling
<1>5. Threads' /\ Moves(th)
  BY <1>1, <1>3, <1>4, StepFits DEF GeneratePcs
<1> QED BY <1>1, <1>2, <1>5, RememberShared DEF Shared, CacheSound, InLanguage, GeneratePcs

LEMMA BlueprintsFits ==
  ASSUME Threads, NEW th \in Thread, Blueprints(th)
  PROVE  Threads' /\ Moves(th)
<1>1. run[th].pc = "assemble" /\ orders' = orders
  BY DEF Blueprints, At, messageVars
<1>2. PICK made \in {BlueprintsOf(th), {}} :
        Set(th, [run[th] EXCEPT !.pc = "language", !.blueprints = @ \cup made])
  BY DEF Blueprints
<1>3. run[th] \in Run /\ Fit(th, run[th], orders) /\ run[th].lang \in Lang
  BY <1>1, InHand DEF Fit, Engaged, InLanguage, GeneratePcs
<1> DEFINE b == run[th].blueprints \cup made
           r == [run[th] EXCEPT !.pc = "language", !.blueprints = b]
<1>4. b \in SUBSET (Lang \X Tag) /\ Set(th, r)
  <2>1. made \in SUBSET (Lang \X Tag)
    BY <1>2, <1>3 DEF BlueprintsOf, Tags
  <2> QED BY <1>2, <1>3, <2>1 DEF Run
<1> HIDE DEF b
<1>5. /\ r \in Run /\ r.pc = "language" /\ r.job = run[th].job /\ r.design = run[th].design
      /\ r.skeletons = run[th].skeletons /\ r.lang = run[th].lang
  BY <1>3, <1>4 DEF Run, Pcs, GeneratePcs
<1>6. Fit(th, r, orders)
  BY <1>1, <1>3, <1>5 DEF Fit, Engaged, Listed, Equipped, GeneratePcs, InLanguage,
     OnTiers, OnTags, WithItem, Building, Assembling
<1> QED BY <1>1, <1>4, <1>5, <1>6, StepFits DEF GeneratePcs

LEMMA ReturnFits ==
  ASSUME Threads, NEW th \in Thread, Return(th)
  PROVE  Threads' /\ Moves(th) /\ Plain(th)
<1>1. run[th].pc = "language" /\ orders' = orders
  BY DEF Return, At, messageVars
<1>2. CASE th = "consumer"
  <2> DEFINE r == [Blank EXCEPT !.pc = "publish", !.job = run[th].job, !.design = run[th].design,
                                !.keys = run[th].keys, !.blueprints = run[th].blueprints]
  <2>1. Set(th, r)
    BY <1>2 DEF Return
  <2>2. /\ run[th] \in Run /\ Fit(th, run[th], orders) /\ Blank \in Run
        /\ Blank.skeletons = NoSkeletons
    BY <1>1, InHand, BlankFits DEF Fit, Blank
  <2>3. /\ r \in Run /\ r.pc = "publish" /\ r.job = run[th].job /\ r.design = run[th].design
        /\ r.keys = run[th].keys /\ r.blueprints = run[th].blueprints
        /\ r.skeletons = NoSkeletons
    BY <2>2 DEF Run, Pcs
  <2>4. Fit(th, r, orders)
    BY <1>1, <1>2, <2>2, <2>3 DEF Fit, Engaged, Listed, Equipped, GeneratePcs, InLanguage,
       OnTiers, OnTags, WithItem, Building, Assembling, NoSkeletons
  <2> HIDE DEF r
  <2> QED BY <1>1, <2>1, <2>3, <2>4, CarriedFits DEF GeneratePcs
<1>3. CASE th # "consumer"
  <2>1. Set(th, Blank) /\ th = "api"
    BY <1>3 DEF Return, Thread
  <2>2. run'[th] = Blank /\ \A u \in Thread \ {th} : run'[u] = run[u]
    BY <2>1 DEF Threads, Set
  <2> QED BY <1>1, <2>1, <2>2, BlankFits, SetFits DEF Moves, Plain, GeneratePcs
<1> QED BY <1>2, <1>3

(* A delivery or an HTTP call gives the thread its order.                  *)
LEMMA OpenFits ==
  ASSUME Threads, Shared, NEW th \in Thread, NEW j \in JobsOf(th), NEW o \in Order,
         NEW pc \in Pcs \ {"idle"}, th = "api" => pc = "design",
         pc \notin GeneratePcs \ {"design"},
         orders' = [orders EXCEPT ![j] = o],
         \A u \in Thread \ {th} : run[u].job # j \/ orders[j] = o,
         Set(th, [Blank EXCEPT !.pc = pc, !.job = j])
  PROVE  Threads' /\ orders' \in [Request \cup {Api} -> Order \cup {None}]
<1> DEFINE r == [Blank EXCEPT !.pc = pc, !.job = j]
<1>1. Blank \in Run /\ Blank.skeletons = NoSkeletons /\ j \in Request \cup {Api}
  BY BlankFits DEF Fit, Blank, JobsOf
<1>2. /\ r \in Run /\ r.pc = pc /\ r.job = j /\ r.skeletons = NoSkeletons
  BY <1>1 DEF Run
<1>3. orders' \in [Request \cup {Api} -> Order \cup {None}] /\ orders'[j] = o
  BY <1>1 DEF Shared
<1>4. Fit(th, r, orders')
  BY <1>2, <1>3 DEF Fit, Engaged, Listed, Equipped, GeneratePcs, InLanguage,
     OnTiers, OnTags, WithItem, Building, Assembling, Pcs, NoSkeletons
<1>5. ASSUME NEW u \in Thread, u # th
      PROVE  Fit(u, run[u], orders')
  <2>1. Fit(u, run[u], orders)
    BY DEF Threads
  <2>2. orders'[run[u].job] = orders[run[u].job]
    BY <1>1, <1>5 DEF Shared
  <2>3. Engaged(u, run[u], orders') /\ Equipped(run[u], orders')
    BY <2>1, <2>2 DEF Fit, Engaged, Equipped
  <2> QED BY <2>1, <2>3 DEF Fit, Listed
<1>6. run' \in [Thread -> Run] /\ run'[th] = r
      /\ \A u \in Thread \ {th} : run'[u] = run[u]
  BY <1>2 DEF Set, Threads
<1> QED BY <1>3, <1>4, <1>5, <1>6 DEF Threads

-----------------------------------------------------------------------------
(* Every step leaves what the threads share and what they have in hand as  *)
(* it should be.                                                           *)

LEMMA GenerateMoves ==
  ASSUME Shared, Threads, NEW th \in Thread, Generate(th)
  PROVE  /\ Threads' /\ Moves(th) /\ UNCHANGED <<messageVars, faults>>
         /\ \/ UploadGold(th) \/ UploadZip(th)
            \/ UNCHANGED storeVars /\ Plain(th)
            \/ Checkpoint(th) \/ Blueprints(th) \/ \E d \in Design : ChooseDesign(th, d)
<1> USE DEF storeVars
<1>1. ASSUME NEW d \in Design, ChooseDesign(th, d)
      PROVE  Threads' /\ Moves(th) /\ UNCHANGED <<messageVars, faults>>
  BY <1>1, ChooseDesignFits DEF ChooseDesign
<1>2. CASE UploadGold(th) \/ UploadZip(th)
  BY <1>2, UploadFits DEF UploadGold, UploadZip
<1>3. CASE Checkpoint(th)
  BY <1>3, CheckpointFits DEF Checkpoint
<1>4. CASE Blueprints(th)
  BY <1>4, BlueprintsFits DEF Blueprints
<1>5. CASE Language(th)
  BY <1>5, LanguageFits DEF Language
<1>6. CASE SkipTier(th)
  BY <1>6, SkipTierFits DEF SkipTier
<1>7. CASE ReuseSkeleton(th)
  BY <1>7, ReuseSkeletonFits DEF ReuseSkeleton
<1>8. CASE AskSkeleton(th)
  <2>1. Threads' /\ Moves(th) /\ Plain(th)
    BY <1>8, AskFits DEF AskSkeleton, At, WithItem, messageVars, Quality
  <2> QED BY <1>8, <2>1 DEF AskSkeleton
<1>9. CASE CompileSkeleton(th)
  BY <1>9, CompileSkeletonFits DEF CompileSkeleton
<1>10. CASE StartDeltas(th)
  BY <1>10, StartDeltasFits DEF StartDeltas
<1>11. CASE ReuseDelta(th)
  BY <1>11, ReuseDeltaFits DEF ReuseDelta
<1>12. CASE AskDelta(th)
  <2>1. Threads' /\ Moves(th) /\ Plain(th)
    BY <1>12, AskFits DEF AskDelta, At, WithItem, messageVars, Quality
  <2> QED BY <1>12, <2>1 DEF AskDelta
<1>13. CASE CompileDelta(th)
  BY <1>13, CompileDeltaFits DEF CompileDelta
<1>14. CASE StartAssembly(th)
  BY <1>14, StartAssemblyFits DEF StartAssembly
<1>15. CASE Assemble(th)
  <2>1. Threads' /\ Moves(th) /\ Plain(th)
    BY <1>15, AskFits DEF Assemble, At, WithItem, messageVars, Quality
  <2> QED BY <1>15, <2>1 DEF Assemble
<1>16. CASE CompileGold(th)
  BY <1>16, CompileGoldFits DEF CompileGold
<1>17. CASE Return(th)
  BY <1>17, ReturnFits DEF Return
<1>18. CASE Raise(th)
  BY <1>18, RaisedFits, RaisedMoves DEF Raise, GeneratePcs, messageVars
<1> QED BY <1>1, <1>2, <1>3, <1>4, <1>5, <1>6, <1>7, <1>8, <1>9, <1>10, <1>11, <1>12, <1>13,
           <1>14, <1>15, <1>16, <1>17, <1>18 DEF Generate

LEMMA GenerateShared ==
  ASSUME Shared, Threads, NEW th \in Thread, Generate(th)
  PROVE  Shared'
<1>1. orders' = orders /\ faults' = faults
  BY GenerateMoves DEF messageVars
<1>2. CASE UploadGold(th) \/ UploadZip(th)
  <2>1. UNCHANGED cacheVars
    BY <1>2 DEF UploadGold, UploadZip
  <2> QED BY <1>1, <1>2, <2>1, UploadFits DEF Shared, StoreSound, CacheSound, cacheVars
<1>3. CASE CompileSkeleton(th) \/ CompileDelta(th) \/ Checkpoint(th)
  <2>1. UNCHANGED storeVars /\ designs' = designs
    BY <1>3 DEF CompileSkeleton, CompileDelta, Checkpoint
  <2>2. /\ cache' \in [Key -> Artifact \cup {None}]
        /\ CacheSound'
    BY <1>3, CompileSkeletonFits, CompileDeltaFits, CheckpointFits
  <2> QED BY <1>1, <2>1, <2>2 DEF Shared, StoreSound, CacheSound, storeVars
<1>4. ASSUME NEW d \in Design, ChooseDesign(th, d)
      PROVE  Shared'
  BY <1>1, <1>4, ChooseDesignFits DEF Shared, StoreSound, CacheSound, ChooseDesign,
      storeVars
<1>5. CASE UNCHANGED <<storeVars, cacheVars>>
  BY <1>1, <1>5 DEF Shared, StoreSound, CacheSound, storeVars, cacheVars
<1> QED BY <1>2, <1>3, <1>4, <1>5
        DEF Generate, Language, SkipTier, ReuseSkeleton, AskSkeleton, StartDeltas, ReuseDelta,
            AskDelta, StartAssembly, Assemble, CompileGold, Blueprints, Return, Raise

(* The job of the consumer does not change under its hand.                 *)
LEMMA MovesDelivered ==
  ASSUME Delivered, Threads, NEW th \in Thread, Moves(th), UNCHANGED messageVars
  PROVE  Delivered'
<1>1. run'["consumer"].pc # "idle" =>
        run["consumer"].pc # "idle" /\ run'["consumer"].job = run["consumer"].job
  <2>1. CASE th = "api"
    BY <2>1 DEF Moves, Thread
  <2>2. CASE th = "consumer"
    <3>1. run[th].pc # "idle" /\ run[th] \in Run
      BY DEF Moves, GeneratePcs, Threads
    <3>2. CASE Raised(th)
      <4>1. PICK pc \in {"rollback", "report"} : Leave(th, pc)
        BY <2>2, <3>2 DEF Raised
      <4>2. run'[th] = [Blank EXCEPT !.pc = pc, !.job = run[th].job]
        BY <4>1 DEF Leave, Set, Threads
      <4> QED BY <2>2, <3>1, <4>2 DEF Blank
    <3> QED BY <2>2, <3>1, <3>2 DEF Moves
  <2> QED BY <2>1, <2>2 DEF Thread
<1> QED BY <1>1 DEF Delivered, messageVars, At, Job

LEMMA GenerateWorking ==
  ASSUME Working, NEW th \in Thread, Generate(th)
  PROVE  Working'
BY GenerateMoves, GenerateShared, MovesDelivered DEF Working

(* The consumer goes on with the same job, or is done with it.             *)
LEMMA LeaveDelivered ==
  ASSUME Working, ~At("consumer", "idle"), NEW pc \in Pcs \ (GeneratePcs \cup {"idle"}),
         Leave("consumer", pc), UNCHANGED <<orders, sent, queue, linked, dropped>>,
         results' \subseteq [job : Request, ok : BOOLEAN]
  PROVE  Threads' /\ Delivered'
<1>1. Threads'
  BY LeaveFits DEF Working, At, Thread
<1>2. run'["consumer"] = [Blank EXCEPT !.pc = pc, !.job = run["consumer"].job]
  BY DEF Working, Threads, Leave, Set, Thread
<1>3. run'["consumer"].job = run["consumer"].job
  BY <1>2 DEF Blank
<1> QED BY <1>1, <1>3 DEF Working, Delivered, At, Job

LEMMA JobType ==
  ASSUME Working, ~At("consumer", "idle")
  PROVE  /\ Job \in Request /\ queue # <<>> /\ Job = Head(queue) /\ orders[Job] \in Order
         /\ \A ok \in BOOLEAN : [job |-> Job, ok |-> ok] \in [job : Request, ok : BOOLEAN]
<1>1. Job \in Request /\ orders[Job] \in Order
  BY DEF Working, Threads, Fit, Engaged, JobsOf, Job, At, Thread
<1> QED BY <1>1 DEF Working, Delivered

LEMMA AnswerType ==
  ASSUME Working, ~At("consumer", "idle"), NEW ok \in BOOLEAN,
         Answer(ok) \/ UNCHANGED results
  PROVE  results' \subseteq [job : Request, ok : BOOLEAN]
BY JobType DEF Answer, Job, Working, Delivered

LEMMA FaultType ==
  ASSUME Shared, Fault
  PROVE  faults' \in 0..MaxFaults
BY RetriesAssumption DEF Shared, StoreSound, CacheSound, Fault

LEMMA SendWorking ==
  ASSUME Working, NEW r \in Request, Send(r)
  PROVE  Working'
<1>1. Delivered'
  BY MessageTypes DEF Send, Working, Delivered, At, Job
<1> QED BY <1>1 DEF Send, Working, Shared, StoreSound, CacheSound, Threads, storeVars,
    cacheVars

LEMMA ReceiveWorking ==
  ASSUME Working, NEW r \in Request, NEW o \in OrdersFor(r), Receive(r, o)
  PROVE  Working'
<1>1. /\ At("consumer", "idle") /\ queue # <<>> /\ r = Head(queue)
      /\ orders' = [orders EXCEPT ![r] = o]
      /\ Set("consumer", [Blank EXCEPT !.pc = FirstPc(o), !.job = r])
      /\ tracker' \in {{}, tracker}
      /\ UNCHANGED <<sent, queue, linked, results, dropped, store, leaked, cacheVars, faults>>
  BY DEF Receive, Open
<1>2. o \in Order /\ (orders[r] = None \/ orders[r] = o)
  BY AsksAssumption DEF OrdersFor, Working, Shared, StoreSound, CacheSound
<1>3. FirstPc(o) \in Pcs \ {"idle"} /\ FirstPc(o) \notin GeneratePcs \ {"design"}
  BY DEF FirstPc, Pcs, GeneratePcs
<1>4. \A u \in Thread \ {"consumer"} : run[u].job # r
  BY NoneApart DEF Working, Threads, Fit, Engaged, JobsOf, Thread
<1>5. Threads' /\ orders' \in [Request \cup {Api} -> Order \cup {None}]
  BY <1>1, <1>2, <1>3, <1>4, OpenFits DEF Working, JobsOf, Thread
<1>6. run'["consumer"].job = r
  BY <1>1 DEF Set, Working, Threads, Thread, Blank
<1>7. Delivered'
  BY <1>1, <1>6 DEF Working, Delivered, Job, At
<1> QED BY <1>1, <1>5, <1>7 DEF Working, Shared, StoreSound, CacheSound, cacheVars

LEMMA ApiStartWorking ==
  ASSUME Working, NEW o \in Asks[Api], ApiStart(o)
  PROVE  Working'
<1>1. /\ At("api", "idle") /\ Fault
      /\ orders' = [orders EXCEPT ![Api] = o]
      /\ Set("api", [Blank EXCEPT !.pc = "design", !.job = Api])
      /\ UNCHANGED <<sent, queue, linked, results, dropped, storeVars, cacheVars>>
  BY DEF ApiStart
<1>2. o \in Order
  BY AsksAssumption
<1>3. \A u \in Thread \ {"api"} : run[u].job # Api
  BY NoneApart DEF Working, Threads, Fit, Engaged, JobsOf, Thread
<1>4. Threads' /\ orders' \in [Request \cup {Api} -> Order \cup {None}]
  BY <1>1, <1>2, <1>3, OpenFits DEF Working, JobsOf, Thread, Pcs, GeneratePcs
<1>5. run'["consumer"] = run["consumer"]
  BY <1>1 DEF Set, Working, Threads, Thread
<1>6. Delivered'
  BY <1>1, <1>5 DEF Working, Delivered, Job, At
<1> QED BY <1>1, <1>4, <1>6, FaultType DEF Working, Shared, StoreSound, CacheSound,
    storeVars, cacheVars

LEMMA PreviewWorking ==
  ASSUME Working, Preview
  PROVE  Working'
<1>1. Threads' /\ Delivered'
  BY LeaveDelivered DEF Preview, At, messageVars, Pcs, GeneratePcs, Working, Delivered
<1> QED BY <1>1 DEF Preview, Working, Shared, StoreSound, CacheSound, messageVars,
    storeVars, cacheVars

LEMMA PublishWorking ==
  ASSUME Working, Publish \/ Report
  PROVE  Working'
<1>1. /\ ~At("consumer", "idle") /\ Leave("consumer", "ack")
      /\ Answer(TRUE) \/ Answer(FALSE)
      /\ UNCHANGED <<orders, sent, queue, linked, dropped, storeVars, cacheVars, faults>>
  BY DEF Publish, Report, At
<1>2. Threads' /\ Delivered'
  BY <1>1, AnswerType, LeaveDelivered DEF Pcs, GeneratePcs
<1> QED BY <1>1, <1>2 DEF Working, Shared, StoreSound, CacheSound, storeVars, cacheVars

LEMMA AnswerLostWorking ==
  ASSUME Working, PublishFails \/ ReportFails
  PROVE  Working'
<1>1. /\ ~At("consumer", "idle") /\ Fault
      /\ Answer(TRUE) \/ Answer(FALSE) \/ UNCHANGED results
      /\ UNCHANGED <<orders, sent, queue, linked, dropped, storeVars, cacheVars>>
  BY DEF PublishFails, ReportFails, At
<1>2. PICK pc \in {"rollback", "report", "nack"} : Leave("consumer", pc)
  BY DEF PublishFails, ReportFails, Raised
<1>3. Threads' /\ Delivered'
  BY <1>1, <1>2, AnswerType, LeaveDelivered DEF Pcs, GeneratePcs
<1> QED BY <1>1, <1>3, FaultType DEF Working, Shared, StoreSound, CacheSound, storeVars,
    cacheVars

LEMMA RollbackWorking ==
  ASSUME Working, Rollback \/ DeleteFails
  PROVE  Working'
<1>1. tracker # {} /\ First(tracker) \in Object
  BY FirstIn DEF Rollback, DeleteFails, Working, Shared, StoreSound, CacheSound
<1>2. /\ tracker' \subseteq Object /\ leaked' \subseteq Object
      /\ store' \in [Object -> Stored \cup {None}]
      /\ StoreSound'
  BY <1>1 DEF Rollback, DeleteFails, Working, Shared, StoreSound, CacheSound
<1>3. faults' \in 0..MaxFaults
  BY FaultType DEF Rollback, DeleteFails, Working, Shared, StoreSound, CacheSound
<1>4. UNCHANGED <<messageVars, cacheVars, run>>
  BY DEF Rollback, DeleteFails
<1> QED BY <1>2, <1>3, <1>4 DEF Working, Shared, StoreSound, CacheSound, Threads,
    Delivered, messageVars, cacheVars, At, Job

LEMMA RolledBackWorking ==
  ASSUME Working, RolledBack
  PROVE  Working'
<1>1. Threads' /\ Delivered'
  BY LeaveDelivered DEF RolledBack, At, messageVars, Pcs, GeneratePcs, Working, Delivered
<1> QED BY <1>1 DEF RolledBack, Working, Shared, StoreSound, CacheSound, messageVars,
    storeVars, cacheVars

LEMMA SettleWorking ==
  ASSUME Working, Settle
  PROVE  Working'
<1>1. /\ ~At("consumer", "idle") /\ Set("consumer", Blank) /\ linked' = TRUE
      /\ queue' \in {queue, Tail(queue)}
      /\ dropped' \in {dropped, dropped \cup {Job}}
      /\ UNCHANGED <<orders, sent, results, storeVars, cacheVars, faults>>
  BY DEF Settle, At, Job
<1>2. Threads'
  BY <1>1, BlankFits, SetFits DEF Working, Thread
<1>3. run'["consumer"].pc = "idle"
  BY <1>1 DEF Set, Blank, Working, Threads, Thread
<1>4. Delivered'
  BY <1>1, <1>3, JobType, MessageTypes DEF Working, Delivered, At
<1> QED BY <1>1, <1>2, <1>4 DEF Working, Shared, StoreSound, CacheSound, storeVars,
    cacheVars

LEMMA HeartbeatLostWorking ==
  ASSUME Working, HeartbeatLost
  PROVE  Working'
BY FaultType DEF HeartbeatLost, Working, Shared, StoreSound, CacheSound, Threads,
    Delivered, storeVars, cacheVars, At, Job

LEMMA CrashWorking ==
  ASSUME Working, Crash
  PROVE  Working'
<1>1. Threads'
  BY BlankFits DEF Crash, Threads, Fit
<1>2. Delivered'
  BY DEF Crash, Working, Delivered, At, Job, Blank, Thread
<1> QED BY <1>1, <1>2, FaultType DEF Crash, Working, Shared, StoreSound, CacheSound,
    cacheVars

LEMMA UploadLostWorking ==
  ASSUME Working, NEW th \in Thread, UploadLost(th)
  PROVE  Working'
<1>1. /\ Raised(th) /\ run[th].pc \in GeneratePcs
      /\ UNCHANGED <<messageVars, tracker, cacheVars>>
  BY DEF UploadLost, At, GeneratePcs
<1>2. Delivered'
  BY <1>1, RaisedMoves, MovesDelivered DEF Working
<1> QED BY <1>1, <1>2, UploadLostFits DEF Working, Shared, StoreSound, CacheSound,
    messageVars, cacheVars

LEMMA ExpireWorking ==
  ASSUME Working, NEW k \in Key, Expire(k)
  PROVE  Working'
<1>1. /\ cache' \in [Key -> Artifact \cup {None}]
      /\ CacheSound'
  BY DEF Expire, Working, Shared, StoreSound, CacheSound
<1>2. UNCHANGED <<messageVars, storeVars, designs, run>> /\ faults' \in 0..MaxFaults
  BY FaultType DEF Expire, Working
<1> QED BY <1>1, <1>2 DEF Working, Shared, StoreSound, CacheSound, Threads, Delivered,
    messageVars, storeVars, At, Job

LEMMA InitWorking == Init => Working
<1> SUFFICES ASSUME Init PROVE Working
  OBVIOUS
<1>1. Shared
  BY RetriesAssumption DEF Init, Shared, StoreSound, CacheSound
<1>2. Threads
  BY BlankFits DEF Init, Threads, Fit
<1>3. Delivered
  BY EmptySeq DEF Init, Delivered, At, Blank, Thread
<1> QED BY <1>1, <1>2, <1>3 DEF Working

LEMMA NextWorking == Working /\ [Next]_vars => Working'
<1> SUFFICES ASSUME Working, [Next]_vars PROVE Working'
  OBVIOUS
<1>1. CASE UNCHANGED vars
  BY <1>1 DEF vars, messageVars, storeVars, cacheVars, Working, Shared, StoreSound,
      CacheSound, Threads, Delivered, At, Job
<1>2. ASSUME NEW r \in Request, Send(r) PROVE Working'
  BY <1>2, SendWorking
<1>3. ASSUME NEW o \in Asks[Api], ApiStart(o) PROVE Working'
  BY <1>3, ApiStartWorking
<1>4. ASSUME NEW th \in Thread, Generate(th) PROVE Working'
  BY <1>4, GenerateWorking
<1>5. CASE Consume
  BY <1>5, ReceiveWorking, PreviewWorking, PublishWorking, RollbackWorking, RolledBackWorking,
     SettleWorking DEF Consume
<1>6. CASE Failure
  BY <1>6, AnswerLostWorking, RollbackWorking, HeartbeatLostWorking, CrashWorking,
     UploadLostWorking, ExpireWorking DEF Failure
<1> QED BY <1>1, <1>2, <1>3, <1>4, <1>5, <1>6 DEF Next

-----------------------------------------------------------------------------
(* The type invariant: every variable keeps its type, for any instance.    *)
THEOREM TypesHold == Spec => []TypeOK
<1>1. Working => TypeOK
  BY DEF Working, Shared, StoreSound, CacheSound, Threads, Delivered, TypeOK
<1> QED BY <1>1, InitWorking, NextWorking, PTL DEF Spec

(* What reaches the cache and the buckets has passed what its language     *)
(* checks, as it is there; but for what the repair of a Java delta leaves: *)
(* that delta, and the skeleton in its scaffolds.                          *)
THEOREM OnlyVerified == Spec => []VerifiedArtifacts
<1>1. Working => VerifiedArtifacts
  BY DEF Working, Shared, StoreSound, CacheSound, VerifiedArtifacts
<1> QED BY <1>1, InitWorking, NextWorking, PTL DEF Spec

(* A run builds on skeletons of its own design only.                       *)
THEOREM RunsKeepToTheirDesign == Spec => []OneDesign
<1>1. Working => OneDesign
  BY DEF Working, Threads, Fit, Equipped, OneDesign
<1> QED BY <1>1, InitWorking, NextWorking, PTL DEF Spec

-----------------------------------------------------------------------------
(* The books of the consumer: whose the objects are, which of them its     *)
(* tracker may delete, and what its result names.                          *)

Full == orders[Job].kind = "FULL_GENERATE"

Kinds ==
  /\ run["consumer"].pc \in GeneratePcs \cup {"rollback"} => Full
  /\ At("consumer", "preview") => ~Full
  /\ At("consumer", "ack") /\ orders[Job].kind # "OTHER" =>
       \E ok \in BOOLEAN : [job |-> Job, ok |-> ok] \in results

(* From its delivery to the end of its rollback the tracker is the job's.  *)
Owning == run["consumer"].pc \in GeneratePcs \cup {"publish", "rollback"} /\ Full

Accounted ==
  \A o \in Object : store[o] # None /\ store[o].by \in Request =>
    Completed(store[o].by) \/ o \in leaked \/ (Owning /\ store[o].by = Job /\ o \in tracker)

Tracked == Owning => \A o \in tracker : store[o] # None => store[o].by \in {Job, Api}

Books == Kinds /\ Accounted /\ Tracked

LEMMA ConsumerMoves ==
  ASSUME Working, NEW th \in Thread, Moves(th), UNCHANGED orders
  PROVE  \/ run'["consumer"] = run["consumer"]
         \/ /\ run["consumer"].pc \in GeneratePcs \cup {"preview"} /\ Job' = Job
            /\ \/ run["consumer"].pc \in GeneratePcs /\ run'["consumer"].pc \in GeneratePcs \cup {"publish"}
               \/ Full /\ run'["consumer"].pc = "rollback"
               \/ ~Full /\ run'["consumer"].pc = "report"
<1>1. CASE th = "api"
  BY <1>1 DEF Moves, Thread
<1>2. CASE th = "consumer" /\ Raised(th)
  <2>1. PICK pc \in {"rollback", "report"} :
          Leave("consumer", pc) /\ (pc = "rollback" <=> Full)
    BY <1>2 DEF Raised, Full, Job
  <2>2. run'["consumer"] = [Blank EXCEPT !.pc = pc, !.job = run["consumer"].job]
    BY <2>1 DEF Leave, Set, Working, Threads, Thread
  <2>3. run'["consumer"].pc = pc /\ run'["consumer"].job = run["consumer"].job
    BY <2>2 DEF Blank
  <2> QED BY <1>2, <2>1, <2>3 DEF Moves, Job
<1>3. CASE th = "consumer" /\ ~Raised(th)
  BY <1>3 DEF Moves, Job
<1> QED BY <1>1, <1>2, <1>3 DEF Thread

LEMMA QuietBooks ==
  ASSUME Working, Books, NEW th \in Thread, Moves(th), UNCHANGED <<messageVars, storeVars>>
  PROVE  Books'
<1>1. orders' = orders /\ results' = results /\ tracker' = tracker /\ store' = store /\ leaked' = leaked
  BY DEF messageVars, storeVars
<1>2. CASE run'["consumer"] = run["consumer"]
  BY <1>1, <1>2 DEF Books, Kinds, Accounted, Tracked, Owning, Full, Job, At, Completed
<1>3. CASE /\ run["consumer"].pc \in GeneratePcs \cup {"preview"} /\ Job' = Job
           /\ \/ run["consumer"].pc \in GeneratePcs /\ run'["consumer"].pc \in GeneratePcs \cup {"publish"}
              \/ Full /\ run'["consumer"].pc = "rollback"
              \/ ~Full /\ run'["consumer"].pc = "report"
  <2>1. Full' = Full
    BY <1>1, <1>3 DEF Full
  <2>2. Kinds'
    BY <1>3, <2>1 DEF Books, Kinds, At, GeneratePcs
  <2>3. Owning' = Owning
    BY <1>3, <2>1 DEF Owning, Books, Kinds, At, GeneratePcs
  <2> QED BY <1>1, <1>3, <2>2, <2>3 DEF Books, Accounted, Tracked, Completed
<1> QED BY <1>1, <1>2, <1>3, ConsumerMoves

LEMMA UploadBooks ==
  ASSUME Working, Books, NEW th \in Thread, UploadGold(th) \/ UploadZip(th)
  PROVE  Books'
<1> DEFINE up == NextUpload(th).object
<1>1. /\ At(th, "uploadGold") \/ (At(th, "uploadZips") /\ run[th].zips # {})
      /\ Put(th, NextUpload(th)) /\ tracker' = tracker \cup {up} /\ leaked' = leaked \ {up}
      /\ UNCHANGED messageVars
  BY DEF UploadGold, UploadZip, Upload
<1>2. /\ store'[up].by = run[th].job /\ up \in Object
      /\ \A o \in Object : o # up => store'[o] = store[o]
  BY <1>1, PutShared, NextUploadType DEF Working
<1>3. Moves(th)
  BY UploadFits DEF Working
<1>4. orders' = orders /\ results' = results
  BY <1>1 DEF messageVars
<1>5. run[th].job = IF th = "api" THEN Api ELSE Job
  BY <1>1, NoneApart DEF Working, Threads, Fit, Engaged, JobsOf, Thread, Job, At
<1>6. Api \notin Request /\ (th = "consumer" => Owning)
  BY <1>1, NoneApart DEF Books, Kinds, Owning, At, GeneratePcs
<1> HIDE DEF up
<1>7. Job' = Job /\ Owning' = Owning /\ Kinds'
  <2>1. CASE run'["consumer"] = run["consumer"]
    BY <1>4, <2>1 DEF Books, Kinds, Owning, Full, Job, At
  <2>2. CASE run'["consumer"] # run["consumer"]
    <3>1. th = "consumer" /\ run'[th].pc = "uploadZips" /\ run'[th].job = run[th].job /\ run[th] \in Run
      <4>1. th = "consumer"
        BY <1>3, <2>2 DEF Moves, Thread
      <4>2. run[th] \in Run
        BY DEF Working, Threads
      <4>3. CASE UploadGold(th)
        <5>1. run'[th] = [run[th] EXCEPT !.pc = "uploadZips", !.zips = Tags({run[th].item}),
                            !.keys = @ \cup {<<run[th].lang, run[th].item>>}]
          BY <4>3 DEF UploadGold, Set, Working, Threads
        <5> QED BY <4>1, <4>2, <5>1 DEF Run
      <4>4. CASE UploadZip(th)
        <5>1. run'[th] = [run[th] EXCEPT !.zips = @ \ {First(@)}] /\ run[th].pc = "uploadZips"
          BY <4>4 DEF UploadZip, Set, Working, Threads, At
        <5> QED BY <4>1, <4>2, <5>1 DEF Run
      <4> QED BY <4>3, <4>4
    <3>2. Job' = Job /\ Full' = Full
      BY <1>4, <3>1 DEF Job, Full
    <3> QED BY <1>6, <3>1, <3>2 DEF Books, Kinds, Owning, At, GeneratePcs
  <2> QED BY <2>1, <2>2
<1>8. Accounted'
  BY <1>1, <1>2, <1>4, <1>5, <1>6, <1>7 DEF Books, Accounted, Completed, Thread
<1>9. Tracked'
  BY <1>1, <1>2, <1>5, <1>6, <1>7 DEF Books, Tracked, Working, Shared, Thread
<1> QED BY <1>7, <1>8, <1>9 DEF Books

LEMMA GenerateBooks ==
  ASSUME Working, Books, NEW th \in Thread, Generate(th)
  PROVE  Books'
<1>1. Moves(th) /\ UNCHANGED messageVars
  BY GenerateMoves DEF Working
<1>2. CASE UNCHANGED storeVars
  BY <1>1, <1>2, QuietBooks
<1>3. ASSUME ~UNCHANGED storeVars
      PROVE  UploadGold(th) \/ UploadZip(th)
  BY <1>3, GenerateMoves DEF Working, Checkpoint, Blueprints, ChooseDesign, storeVars
<1> QED BY <1>2, <1>3, UploadBooks

LEMMA AsideBooks ==
  ASSUME Working, Books, run'["consumer"] = run["consumer"], UNCHANGED <<results, storeVars>>,
         ~At("consumer", "idle") => orders'[Job] = orders[Job]
  PROVE  Books'
<1>1. /\ Job' = Job /\ run'["consumer"].pc = run["consumer"].pc
      /\ results' = results /\ tracker' = tracker /\ store' = store /\ leaked' = leaked
  BY DEF Job, storeVars
<1>2. CASE At("consumer", "idle")
  BY <1>1, <1>2 DEF Books, Kinds, Accounted, Tracked, Owning, At, Completed, GeneratePcs
<1>3. CASE ~At("consumer", "idle")
  <2>1. Full' = Full /\ orders'[Job] = orders[Job]
    BY <1>1, <1>3 DEF Full
  <2> QED BY <1>1, <2>1 DEF Books, Kinds, Accounted, Tracked, Owning, At, Completed
<1> QED BY <1>2, <1>3

(* What the consumer does about its job outside of generate.               *)
LEMMA LeaveBooks ==
  ASSUME Working, Books, ~At("consumer", "idle"),
         NEW pc \in {"publish", "rollback", "report", "ack", "nack"}, Leave("consumer", pc),
         UNCHANGED <<orders, storeVars>>, results \subseteq results',
         pc = "rollback" => Full,
         pc = "ack" => \E ok \in BOOLEAN : [job |-> Job, ok |-> ok] \in results',
         Owning => pc \in {"publish", "rollback"} \/ [job |-> Job, ok |-> TRUE] \in results'
                     \/ tracker = {},
         Owning \/ ~Full \/ pc \notin {"publish", "rollback"}
  PROVE  Books'
<1>1. run'["consumer"] = [Blank EXCEPT !.pc = pc, !.job = run["consumer"].job]
  BY DEF Working, Threads, Leave, Set, Thread
<1>2. run'["consumer"].pc = pc /\ Job' = Job /\ Full' = Full
  BY <1>1 DEF Blank, Job, Full
<1>3. orders' = orders /\ tracker' = tracker /\ store' = store /\ leaked' = leaked
  BY DEF storeVars
<1>4. Kinds'
  BY <1>2, <1>3 DEF Kinds, At, GeneratePcs
<1>5. Owning' <=> pc \in {"publish", "rollback"} /\ Full
  BY <1>2 DEF Owning, GeneratePcs
<1>6. ASSUME NEW o \in Object, store'[o] # None, store'[o].by \in Request
      PROVE  \/ [job |-> store'[o].by, ok |-> TRUE] \in results' \/ o \in leaked'
             \/ Owning' /\ store'[o].by = Job' /\ o \in tracker'
  <2>1. CASE Completed(store[o].by) \/ o \in leaked
    BY <1>3, <2>1 DEF Completed
  <2>2. CASE Owning /\ store[o].by = Job /\ o \in tracker
    <3>1. pc \in {"publish", "rollback"} \/ [job |-> Job, ok |-> TRUE] \in results'
      BY <2>2
    <3>2. CASE [job |-> Job, ok |-> TRUE] \in results'
      BY <1>3, <2>2, <3>2 DEF Completed
    <3>3. CASE pc \in {"publish", "rollback"}
      BY <1>2, <1>3, <1>5, <2>2, <3>3 DEF Owning
    <3> QED BY <3>1, <3>2, <3>3
  <2> QED BY <1>3, <1>6, <2>1, <2>2 DEF Books, Accounted
<1>7. Accounted'
  BY <1>6 DEF Accounted, Completed
<1>8. Tracked'
  BY <1>2, <1>3, <1>5 DEF Books, Tracked
<1> QED BY <1>4, <1>7, <1>8 DEF Books

LEMMA ReceiveBooks ==
  ASSUME Working, Books, NEW r \in Request, NEW o \in OrdersFor(r), Receive(r, o)
  PROVE  Books'
<1>1. /\ At("consumer", "idle")
      /\ orders' = [orders EXCEPT ![r] = o]
      /\ Set("consumer", [Blank EXCEPT !.pc = FirstPc(o), !.job = r])
      /\ tracker' = IF o.kind = "FULL_GENERATE" THEN {} ELSE tracker
      /\ results' = results /\ store' = store /\ leaked' = leaked
  BY DEF Receive, Open
<1>2. run'["consumer"].pc = FirstPc(o) /\ run'["consumer"].job = r
  BY <1>1 DEF Set, Working, Threads, Thread, Blank
<1>3. orders'[r] = o /\ Job' = r
  BY <1>1, <1>2 DEF Working, Shared, Job
<1>4. Full' <=> o.kind = "FULL_GENERATE"
  BY <1>3 DEF Full
<1>5. Kinds'
  <2>1. o \in Order
    BY AsksAssumption DEF OrdersFor, Working, Shared
  <2> QED BY <1>2, <1>3, <1>4, <2>1 DEF Kinds, At, FirstPc, GeneratePcs, Order, Kind
<1>6. ~Owning
  BY <1>1 DEF Owning, At, GeneratePcs
<1>7. Owning' => tracker' = {}
  BY <1>1, <1>4 DEF Owning
<1> QED BY <1>1, <1>5, <1>6, <1>7 DEF Books, Accounted, Tracked, Completed

LEMMA RollbackBooks ==
  ASSUME Working, Books, Rollback \/ DeleteFails
  PROVE  Books'
<1>1. /\ run' = run /\ orders' = orders /\ results' = results
      /\ tracker' = tracker \ {First(tracker)} /\ First(tracker) \in Object
  BY FirstIn DEF Rollback, DeleteFails, messageVars, Working, Shared
<1>2. Job' = Job /\ Owning' = Owning /\ Kinds'
  BY <1>1 DEF Books, Kinds, Owning, Full, Job, At
<1>3. /\ \A o \in Object : o # First(tracker) =>
            store'[o] = store[o] /\ (o \in leaked' <=> o \in leaked)
      /\ store'[First(tracker)] = None \/ First(tracker) \in leaked'
      /\ \A o \in Object : store'[o] # None => store'[o] = store[o]
  BY <1>1 DEF Rollback, DeleteFails, Working, Shared
<1>4. Accounted'
  BY <1>1, <1>2, <1>3 DEF Books, Accounted, Completed
<1>5. Tracked'
  BY <1>1, <1>2, <1>3 DEF Books, Tracked, Working, Shared
<1> QED BY <1>2, <1>4, <1>5 DEF Books

LEMMA SettleBooks ==
  ASSUME Working, Books, Settle
  PROVE  Books'
<1>1. /\ Set("consumer", Blank) /\ orders' = orders /\ results' = results
      /\ tracker' = tracker /\ store' = store /\ leaked' = leaked
      /\ run["consumer"].pc \in {"ack", "nack"}
  BY DEF Settle, storeVars, At
<1>2. run'["consumer"].pc = "idle"
  BY <1>1 DEF Set, Blank, Working, Threads, Thread
<1>3. ~Owning /\ ~Owning'
  BY <1>1, <1>2 DEF Owning, GeneratePcs
<1> QED BY <1>1, <1>2, <1>3 DEF Books, Kinds, Accounted, Tracked, Completed, At, GeneratePcs

LEMMA CrashBooks ==
  ASSUME Working, Books, Crash
  PROVE  Books'
<1>1. /\ run'["consumer"].pc = "idle" /\ results' = results /\ store' = store
      /\ leaked' = leaked \cup {o \in tracker : store[o].by = Job} /\ tracker' = {}
  BY DEF Crash, Blank, Thread, Job
<1>2. ~Owning'
  BY <1>1 DEF Owning, GeneratePcs
<1> QED BY <1>1, <1>2 DEF Books, Kinds, Accounted, Tracked, Completed, At, GeneratePcs

LEMMA UploadLostBooks ==
  ASSUME Working, Books, NEW th \in Thread, UploadLost(th)
  PROVE  Books'
<1> DEFINE up == NextUpload(th).object
<1>1. /\ At(th, "uploadGold") \/ (At(th, "uploadZips") /\ run[th].zips # {})
      /\ Put(th, NextUpload(th)) /\ leaked' = leaked \cup {up} /\ Raised(th)
      /\ orders' = orders /\ results' = results /\ tracker' = tracker
  BY DEF UploadLost, messageVars
<1>2. /\ store'[up].by = run[th].job /\ up \in Object
      /\ \A o \in Object : o # up => store'[o] = store[o]
  BY <1>1, PutShared, NextUploadType DEF Working
<1>3. Moves(th)
  BY <1>1, RaisedMoves DEF Working, At, GeneratePcs
<1>4. run[th].job = IF th = "api" THEN Api ELSE Job
  BY <1>1, NoneApart DEF Working, Threads, Fit, Engaged, JobsOf, Thread, Job, At
<1>5. Api \notin Request /\ (th = "consumer" => Owning)
  BY <1>1, NoneApart DEF Books, Kinds, Owning, At, GeneratePcs
<1> HIDE DEF up
<1>6. Job' = Job /\ Owning' = Owning /\ Kinds'
  <2>1. CASE run'["consumer"] = run["consumer"]
    BY <1>1, <2>1 DEF Books, Kinds, Owning, Full, Job, At
  <2>2. CASE /\ run["consumer"].pc \in GeneratePcs \cup {"preview"} /\ Job' = Job
             /\ \/ run["consumer"].pc \in GeneratePcs /\ run'["consumer"].pc \in GeneratePcs \cup {"publish"}
                \/ Full /\ run'["consumer"].pc = "rollback"
                \/ ~Full /\ run'["consumer"].pc = "report"
    <3>1. Full' = Full
      BY <1>1, <2>2 DEF Full
    <3> QED BY <2>2, <3>1 DEF Books, Kinds, Owning, At, GeneratePcs
  <2> QED BY <1>1, <1>3, <2>1, <2>2, ConsumerMoves
<1>7. Accounted'
  BY <1>1, <1>2, <1>6 DEF Books, Accounted, Completed
<1>8. Tracked'
  BY <1>1, <1>2, <1>4, <1>6 DEF Books, Tracked, Thread, Working, Shared
<1> QED BY <1>6, <1>7, <1>8 DEF Books

LEMMA InitBooks == Init => Books
BY NoneApart DEF Init, Books, Kinds, Accounted, Tracked, Owning, At, Blank, Thread, GeneratePcs

LEMMA ConsumeBooks ==
  ASSUME Working, Books, Consume
  PROVE  Books'
<1>1. ASSUME NEW r \in Request, NEW o \in OrdersFor(r), Receive(r, o) PROVE Books'
  BY <1>1, ReceiveBooks
<1>2. CASE Preview
  <2>1. ~Full
    BY <1>2 DEF Preview, Books, Kinds
  <2> QED BY <1>2, <2>1, LeaveBooks DEF Preview, At, Owning, messageVars, GeneratePcs
<1>3. CASE Publish
  <2>1. [job |-> Job, ok |-> TRUE] \in results' /\ results \subseteq results'
    BY <1>3 DEF Publish, Answer, Job
  <2> QED BY <1>3, <2>1, LeaveBooks DEF Publish, At
<1>4. CASE Rollback
  BY <1>4, RollbackBooks
<1>5. CASE RolledBack
  BY <1>5, LeaveBooks DEF RolledBack, At, messageVars
<1>6. CASE Report
  <2>1. [job |-> Job, ok |-> FALSE] \in results' /\ results \subseteq results'
    BY <1>6 DEF Report, Answer, Job
  <2>2. ~Owning
    BY <1>6 DEF Report, At, Owning, GeneratePcs
  <2> QED BY <1>6, <2>1, <2>2, LeaveBooks DEF Report, At
<1>7. CASE Settle
  BY <1>7, SettleBooks
<1> QED BY <1>1, <1>2, <1>3, <1>4, <1>5, <1>6, <1>7 DEF Consume

LEMMA FailureBooks ==
  ASSUME Working, Books, Failure
  PROVE  Books'
<1>1. CASE PublishFails
  <2>1. results \subseteq results' /\ ~At("consumer", "idle")
    BY <1>1 DEF PublishFails, Answer, At
  <2>2. PICK pc \in {"rollback", "report"} : Leave("consumer", pc) /\ (pc = "rollback" <=> Full)
    BY <1>1 DEF PublishFails, Raised, Full, Job
  <2>3. Owning <=> Full
    BY <1>1 DEF PublishFails, At, Owning
  <2> QED BY <1>1, <2>1, <2>2, <2>3, LeaveBooks DEF PublishFails
<1>2. CASE ReportFails
  <2>1. results \subseteq results' /\ ~At("consumer", "idle") /\ ~Owning
    BY <1>2 DEF ReportFails, Answer, At, Owning, GeneratePcs
  <2> QED BY <1>2, <2>1, LeaveBooks DEF ReportFails
<1>3. CASE DeleteFails
  BY <1>3, RollbackBooks
<1>4. CASE HeartbeatLost
  BY <1>4, AsideBooks DEF HeartbeatLost
<1>5. CASE Crash
  BY <1>5, CrashBooks
<1>6. ASSUME NEW th \in Thread, UploadLost(th) PROVE Books'
  BY <1>6, UploadLostBooks
<1>7. ASSUME NEW k \in Key, Expire(k) PROVE Books'
  BY <1>7, AsideBooks DEF Expire, messageVars
<1> QED BY <1>1, <1>2, <1>3, <1>4, <1>5, <1>6, <1>7 DEF Failure

LEMMA NextBooks == Working /\ Books /\ [Next]_vars => Books'
<1> SUFFICES ASSUME Working, Books, [Next]_vars PROVE Books'
  OBVIOUS
<1>1. CASE UNCHANGED vars
  BY <1>1, AsideBooks DEF vars, messageVars
<1>2. ASSUME NEW r \in Request, Send(r) PROVE Books'
  BY <1>2, AsideBooks DEF Send
<1>3. ASSUME NEW o \in Asks[Api], ApiStart(o) PROVE Books'
  <2>1. run'["consumer"] = run["consumer"]
    BY <1>3 DEF ApiStart, Set, Working, Threads, Thread
  <2>2. ~At("consumer", "idle") => Job # Api
    BY JobType, NoneApart
  <2>3. ~At("consumer", "idle") => orders'[Job] = orders[Job]
    BY <1>3, <2>2, JobType DEF ApiStart, Working, Shared
  <2> QED BY <1>3, <2>1, <2>3, AsideBooks DEF ApiStart
<1>4. ASSUME NEW th \in Thread, Generate(th) PROVE Books'
  BY <1>4, GenerateBooks
<1>5. CASE Consume
  BY <1>5, ConsumeBooks
<1>6. CASE Failure
  BY <1>6, FailureBooks
<1> QED BY <1>1, <1>2, <1>3, <1>4, <1>5, <1>6 DEF Next

(* The tracker and the rollback account for every object of a request      *)
(* that failed, whatever runs beside it and whatever fails.                *)
THEOREM FailuresLeaveNothing == Spec => []NoOrphans
<1>1. Books => NoOrphans
  BY DEF Books, Accounted, NoOrphans
<1> QED BY <1>1, InitWorking, InitBooks, NextWorking, NextBooks, PTL DEF Spec

(* Only a rollback takes objects out of the buckets.                       *)
LEMMA StoreGrows ==
  ASSUME Working, [Next]_vars, ~Rollback, NEW o \in Object, store[o] # None
  PROVE  store'[o] # None
<1>1. ASSUME NEW th \in Thread, UploadGold(th) \/ UploadZip(th) \/ UploadLost(th)
      PROVE  store'[o] # None
  <2> DEFINE up == NextUpload(th).object
  <2>1. /\ store' \in [Object -> Stored \cup {None}] /\ store'[up] # None
        /\ \A x \in Object : x # up => store'[x] = store[x]
    BY <1>1, PutShared, NextUploadType DEF Working, UploadGold, UploadZip, UploadLost, Upload
  <2> QED BY <2>1
<1>2. CASE store' = store
  BY <1>2
<1> QED
  BY <1>1, <1>2
     DEF Next, vars, storeVars, Send, ApiStart, Generate, ChooseDesign, Language, SkipTier,
         ReuseSkeleton, AskSkeleton, CompileSkeleton, StartDeltas, ReuseDelta, AskDelta,
         CompileDelta, StartAssembly, Assemble, CompileGold, Checkpoint, Blueprints, Return,
         Raise, Consume, Receive, Preview, Publish, RolledBack, Report, Settle, Failure,
         PublishFails, ReportFails, DeleteFails, HeartbeatLost, Crash, Expire

LEMMA StepKeepsObjects ==
  ASSUME Working, Books, [Next]_vars, NEW o \in Object, store[o] # None,
         store[o].by \in Request \ {Job}
  PROVE  store'[o] # None
<1>1. CASE Rollback
  <2>1. First(tracker) \in tracker /\ Owning
    BY <1>1, FirstIn DEF Rollback, Books, Kinds, Owning, At
  <2>2. o # First(tracker)
    BY <2>1, NoneApart DEF Books, Tracked
  <2> QED BY <1>1, <2>2 DEF Rollback, Working, Shared
<1> QED BY <1>1, StoreGrows

(* No rollback deletes what a request other than its own wrote last.       *)
THEOREM RollbacksSpareTheOthers == Spec => DoneObjectsSafe
<1>1. Working /\ Books /\ [Next]_vars =>
        [\A o \in Object :
           store[o] # None /\ store[o].by \in Request \ {Job} /\ Completed(store[o].by)
             => store'[o] # None]_vars
  BY StepKeepsObjects
<1> QED BY <1>1, InitWorking, InitBooks, NextWorking, NextBooks, PTL DEF Spec, DoneObjectsSafe

-----------------------------------------------------------------------------
(* The pipeline comes to an end: action by action, what is left shrinks.   *)

Forward(th) == run'[th].pc \notin GeneratePcs \/ Advances(run[th], run'[th])

LEMMA RaisedForward ==
  ASSUME Threads, NEW th \in Thread, Raised(th)
  PROVE  Forward(th) /\ run'[th].pc \notin GeneratePcs
<1>1. run[th] \in Run /\ Blank.pc = "idle"
  BY DEF Threads, Blank
<1>2. run'[th].pc \in {"idle", "rollback", "report"}
  BY <1>1 DEF Raised, Leave, Set, Threads, Blank
<1> QED BY <1>2 DEF Forward, GeneratePcs

(* Patching is counted, and stops at the loop's number of retries.         *)
LEMMA PatchForward ==
  ASSUME Threads, NEW th \in Thread, NEW qualities \in SUBSET Quality, Patch(th, qualities),
         run[th].pc \in {"compileSkeleton", "compileDelta", "compileGold"},
         run[th].tries < Retries(run[th].pc)
  PROVE  Forward(th)
<1>1. PICK q \in qualities : Set(th, [run[th] EXCEPT !.code = q, !.tries = @ + 1])
  BY DEF Patch
<1>2. run[th] \in Run /\ run[th].tries \in Nat
  BY DEF Threads, Run
<1>3. run'[th] = [run[th] EXCEPT !.code = q, !.tries = @ + 1]
  BY <1>1 DEF Set, Threads
<1>4. /\ run'[th].pc = run[th].pc /\ run'[th].langs = run[th].langs
      /\ run'[th].todo = run[th].todo /\ run'[th].zips = run[th].zips
      /\ run'[th].tries = run[th].tries + 1
  BY <1>2, <1>3 DEF Run
<1>5. Retries(run[th].pc) \in Nat
  BY RetriesAssumption DEF Retries
<1>6. run'[th].tries \in run[th].tries + 1..Retries(run[th].pc)
  BY <1>2, <1>4, <1>5
<1> QED BY <1>4, <1>6 DEF Forward, Advances, OnItem

(* Finishing an item takes it off the list.                                *)
LEMMA DoneForward ==
  ASSUME Threads, NEW th \in Thread, NEW pc \in {"skeleton", "delta", "assemble"},
         run'[th].pc = pc, run'[th].langs = run[th].langs,
         run'[th].todo = run[th].todo \ {run[th].item},
         run[th].pc \in WithItem, Phase(pc) = Phase(run[th].pc)
  PROVE  Forward(th)
<1>1. run[th].item \in run[th].todo
  BY DEF Threads, Fit, Listed
<1>2. Smaller(run'[th].todo, run[th].todo)
  BY <1>1 DEF Smaller
<1> QED BY <1>2 DEF Forward, Advances

LEMMA SkeletonForward ==
  ASSUME Threads, NEW th \in Thread, CompileSkeleton(th)
  PROVE  Forward(th)
<1>1. run[th].pc = "compileSkeleton" /\ run[th] \in Run
  BY DEF CompileSkeleton, At, Threads
<1>2. CASE KeepSkeleton(th, TRUE)
  <2>1. Done(th, "skeleton") \in Run /\ Done(th, "skeleton").pc = "skeleton"
        /\ Done(th, "skeleton").todo = run[th].todo \ {run[th].item}
        /\ Done(th, "skeleton").langs = run[th].langs
    BY <1>1, DoneFields
  <2>2. run'[th] = [Done(th, "skeleton") EXCEPT !.skeletons[run[th].item] = Made(th, TRUE)]
    BY <1>2 DEF KeepSkeleton, Set, Threads
  <2>3. run'[th].pc = "skeleton" /\ run'[th].langs = run[th].langs
        /\ run'[th].todo = run[th].todo \ {run[th].item}
    BY <2>1, <2>2 DEF Run
  <2> QED BY <1>1, <2>3, DoneForward DEF WithItem, Phase
<1>3. CASE Patch(th, Quality) /\ run[th].tries < SkeletonRetries
  BY <1>1, <1>3, PatchForward DEF Retries
<1> QED BY <1>2, <1>3, RaisedForward DEF CompileSkeleton

LEMMA DeltaForward ==
  ASSUME Threads, NEW th \in Thread, CompileDelta(th)
  PROVE  Forward(th)
<1>1. run[th].pc = "compileDelta" /\ run[th] \in Run
  BY DEF CompileDelta, At, Threads
<1>2. ASSUME NEW ok, NEW skeletons, KeepDelta(th, ok, skeletons)
      PROVE  Forward(th)
  <2>1. Done(th, "delta") \in Run /\ Done(th, "delta").pc = "delta"
        /\ Done(th, "delta").todo = run[th].todo \ {run[th].item}
        /\ Done(th, "delta").langs = run[th].langs
    BY <1>1, DoneFields
  <2>2. run'[th] = [Done(th, "delta") EXCEPT !.skeletons = skeletons]
    BY <1>2 DEF KeepDelta, Set, Threads
  <2>3. run'[th].pc = "delta" /\ run'[th].langs = run[th].langs
        /\ run'[th].todo = run[th].todo \ {run[th].item}
    BY <2>1, <2>2 DEF Run
  <2> QED BY <1>1, <2>3, DoneForward DEF WithItem, Phase
<1>3. CASE Patch(th, {"good", "broken"}) /\ run[th].tries < DeltaRetries
  BY <1>1, <1>3, PatchForward DEF Retries, Quality
<1> QED BY <1>2, <1>3, RaisedForward DEF CompileDelta

LEMMA GoldForward ==
  ASSUME Threads, NEW th \in Thread, CompileGold(th)
  PROVE  Forward(th)
<1>1. run[th].pc = "compileGold" /\ run[th] \in Run
  BY DEF CompileGold, At, Threads
<1>2. CASE \/ Set(th, [run[th] EXCEPT !.pc = "uploadGold", !.code = "good"])
           \/ Go(th, "uploadGold")
  <2>1. /\ run'[th].pc = "uploadGold" /\ run'[th].langs = run[th].langs
        /\ run'[th].todo = run[th].todo
    <3>1. CASE Set(th, [run[th] EXCEPT !.pc = "uploadGold", !.code = "good"])
      BY <1>1, <3>1 DEF Set, Threads, Run
    <3>2. CASE Go(th, "uploadGold")
      BY <1>1, <3>2 DEF Go, Set, Threads, Run
    <3> QED BY <1>2, <3>1, <3>2
  <2> QED BY <1>1, <2>1 DEF Forward, Advances, OnItem, Phase, Part
<1>3. CASE Patch(th, Quality) /\ run[th].tries < GoldRetries
  BY <1>1, <1>3, PatchForward DEF Retries
<1> QED BY <1>2, <1>3, RaisedForward DEF CompileGold

LEMMA AskForward ==
  ASSUME Threads, NEW th \in Thread, NEW qualities \in SUBSET Quality,
         NEW pc \in {"compileSkeleton", "compileDelta", "compileGold"}, Ask(th, pc, qualities),
         \/ run[th].pc = "skeleton" /\ pc = "compileSkeleton"
         \/ run[th].pc = "delta" /\ pc = "compileDelta"
         \/ run[th].pc = "assemble" /\ pc = "compileGold"
  PROVE  Forward(th)
<1>1. PICK q \in qualities : Set(th, [run[th] EXCEPT !.pc = pc, !.item = Item(th), !.code = q])
  BY DEF Ask
<1>2. run[th] \in Run /\ run'[th] = [run[th] EXCEPT !.pc = pc, !.item = Item(th), !.code = q]
  BY <1>1 DEF Threads, Set
<1>3. run'[th].pc = pc /\ run'[th].langs = run[th].langs /\ run'[th].todo = run[th].todo
  BY <1>2 DEF Run
<1> QED BY <1>3 DEF Forward, Advances, OnItem, Phase, Part

(* A cached item, and one that has a checkpoint.                           *)
LEMMA ReuseForward ==
  ASSUME Threads, NEW th \in Thread, SkipTier(th) \/ ReuseSkeleton(th) \/ ReuseDelta(th)
  PROVE  Forward(th)
<1>1. run[th] \in Run /\ run[th].todo # {} /\ run[th].pc \in {"skeleton", "delta"}
  BY DEF Threads, SkipTier, ReuseSkeleton, ReuseDelta, At
<1>2. run'[th].pc = run[th].pc /\ run'[th].langs = run[th].langs
      /\ run'[th].todo = run[th].todo \ {Item(th)}
  <2>1. CASE SkipTier(th)
    BY <1>1, <2>1 DEF SkipTier, Set, Threads, Run
  <2>2. CASE ReuseSkeleton(th)
    BY <1>1, <2>2 DEF ReuseSkeleton, Set, Threads, Run
  <2>3. CASE ReuseDelta(th)
    BY <1>1, <2>3 DEF ReuseDelta, Set, Threads, Run
  <2> QED BY <2>1, <2>2, <2>3
<1>3. Smaller(run'[th].todo, run[th].todo)
  BY <1>1, <1>2, FirstIn DEF Smaller, Item
<1> QED BY <1>1, <1>2, <1>3 DEF Forward, Advances

(* From one phase to the next, and from one language to the next.          *)
LEMMA PhaseForward ==
  ASSUME Threads, NEW th \in Thread,
         StartDeltas(th) \/ StartAssembly(th) \/ Blueprints(th) \/ Language(th) \/ Return(th)
           \/ \E d \in Design : ChooseDesign(th, d)
  PROVE  Forward(th)
<1>1. run[th] \in Run
  BY DEF Threads
<1>2. CASE StartDeltas(th)
  <2>1. run[th].pc = "skeleton" /\ run'[th].pc = "delta" /\ run'[th].langs = run[th].langs
    BY <1>1, <1>2 DEF StartDeltas, At, Set, Threads, Run
  <2> QED BY <2>1 DEF Forward, Advances, Phase
<1>3. CASE StartAssembly(th)
  <2>1. run[th].pc = "delta" /\ run'[th].pc = "assemble" /\ run'[th].langs = run[th].langs
    BY <1>1, <1>3 DEF StartAssembly, At, Set, Threads, Run
  <2> QED BY <2>1 DEF Forward, Advances, Phase
<1>4. CASE Blueprints(th)
  <2>1. run[th].pc = "assemble" /\ run'[th].pc = "language" /\ run'[th].langs = run[th].langs
    BY <1>1, <1>4 DEF Blueprints, At, Set, Threads, Run
  <2> QED BY <2>1 DEF Forward, Advances, Phase
<1>5. CASE Language(th)
  <2>1. /\ run[th].langs # {} /\ run'[th].pc = "skeleton"
        /\ run'[th].langs = run[th].langs \ {First(run[th].langs)}
    BY <1>1, <1>5 DEF Language, At, Set, Threads, Run
  <2>2. Smaller(run'[th].langs, run[th].langs)
    BY <2>1, FirstIn DEF Smaller
  <2> QED BY <2>1, <2>2 DEF Forward, Advances
<1>6. CASE Return(th)
  <2>1. run'[th].pc \in {"publish", "idle"}
    <3>1. CASE th = "consumer"
      <4>1. run'[th] = [Blank EXCEPT !.pc = "publish", !.job = run[th].job,
                          !.design = run[th].design, !.keys = run[th].keys,
                          !.blueprints = run[th].blueprints]
        BY <1>6, <3>1 DEF Return, Set, Threads
      <4> QED BY <4>1 DEF Blank
    <3>2. CASE th # "consumer"
      BY <1>6, <3>2 DEF Return, Set, Threads, Blank
    <3> QED BY <3>1, <3>2
  <2> QED BY <2>1 DEF Forward, GeneratePcs
<1>7. ASSUME NEW d \in Design, ChooseDesign(th, d) PROVE Forward(th)
  <2>1. run[th].pc = "design" /\ run'[th].pc = "language"
    <3> DEFINE r == [run[th] EXCEPT !.pc = "language", !.design = d,
                                    !.langs = orders[run[th].job].langs]
    <3>1. run[th].pc = "design" /\ Set(th, r)
      BY <1>7 DEF ChooseDesign, At
    <3>2. r.pc = "language"
      BY <1>1 DEF Run
    <3> HIDE DEF r
    <3> QED BY <3>1, <3>2 DEF Set, Threads
  <2> QED BY <2>1 DEF Forward, Advances
<1> QED BY <1>2, <1>3, <1>4, <1>5, <1>6, <1>7

LEMMA UploadForward ==
  ASSUME Threads, NEW th \in Thread, UploadGold(th) \/ UploadZip(th) \/ Checkpoint(th)
  PROVE  Forward(th)
<1>1. run[th] \in Run
  BY DEF Threads
<1>2. CASE UploadGold(th)
  <2>1. /\ run[th].pc = "uploadGold" /\ run'[th].pc = "uploadZips"
        /\ run'[th].langs = run[th].langs /\ run'[th].todo = run[th].todo
    BY <1>1, <1>2 DEF UploadGold, At, Set, Threads, Run
  <2> QED BY <2>1 DEF Forward, Advances, OnItem, Phase, Part
<1>3. CASE UploadZip(th)
  <2>1. /\ run[th].pc = "uploadZips" /\ run'[th].pc = "uploadZips"
        /\ run'[th].langs = run[th].langs /\ run'[th].todo = run[th].todo
        /\ run[th].zips # {} /\ run'[th].zips = run[th].zips \ {First(run[th].zips)}
    BY <1>1, <1>3 DEF UploadZip, At, Set, Threads, Run
  <2>2. Smaller(run'[th].zips, run[th].zips)
    BY <2>1, FirstIn DEF Smaller
  <2> QED BY <2>1, <2>2 DEF Forward, Advances, OnItem
<1>4. CASE Checkpoint(th)
  <2>1. /\ run[th].pc = "uploadZips" /\ run'[th].pc = "assemble"
        /\ run'[th].langs = run[th].langs
        /\ run'[th].todo = run[th].todo \ {run[th].item}
    BY <1>1, <1>4, DoneFields DEF Checkpoint, At, Set, Threads
  <2> QED BY <2>1, DoneForward DEF WithItem, Phase
<1> QED BY <1>2, <1>3, <1>4

LEMMA GenerateForward ==
  ASSUME Threads, NEW th \in Thread, Generate(th)
  PROVE  Forward(th)
<1>1. CASE AskSkeleton(th) \/ AskDelta(th) \/ Assemble(th)
  BY <1>1, AskForward DEF AskSkeleton, AskDelta, Assemble, At, Quality
<1>2. CASE Raise(th)
  BY <1>2, RaisedForward DEF Raise
<1> QED BY <1>1, <1>2, SkeletonForward, DeltaForward, GoldForward, ReuseForward, PhaseForward,
           UploadForward DEF Generate

(* Every step of generate, in either thread, ends it or leaves it less to  *)
(* do in an order without infinite descent: however often the LLM fails,   *)
(* the patches of each loop are counted.                                   *)
THEOREM GenerationEnds == Spec => PipelineAdvances
<1>1. Working /\ [Next]_vars =>
        [\A th \in Thread :
           run[th].pc \in GeneratePcs /\ run'[th].pc \in GeneratePcs /\ run'[th] # run[th]
             => Advances(run[th], run'[th])]_vars
  <2> SUFFICES ASSUME Working, Next, NEW th \in Thread, run[th].pc \in GeneratePcs,
                      run'[th].pc \in GeneratePcs, run'[th] # run[th]
               PROVE  Advances(run[th], run'[th])
    OBVIOUS
  <2>1. Threads /\ run[th].pc # "idle"
    BY DEF Working, GeneratePcs
  <2>2. CASE Generate(th)
    BY <2>1, <2>2, GenerateForward DEF Forward
  <2>3. ASSUME NEW u \in Thread, Generate(u), u # th PROVE FALSE
    <3>1. Moves(u)
      BY <2>3, GenerateMoves DEF Working
    <3> QED BY <2>3, <3>1 DEF Moves
  <2>4. ASSUME NEW u \in Thread, UploadLost(u) PROVE FALSE
    <3>1. CASE u = th
      BY <2>1, <2>4, <3>1, RaisedForward DEF UploadLost
    <3>2. CASE u # th
      BY <2>1, <2>4, <3>2 DEF UploadLost, Raised, Leave, Set, Threads
    <3> QED BY <3>1, <3>2
  <2>5. ASSUME NEW o \in Asks[Api], ApiStart(o) PROVE FALSE
    BY <2>1, <2>5 DEF ApiStart, At, Set, Threads
  <2>6. ASSUME NEW r \in Request, NEW o \in OrdersFor(r), Receive(r, o) PROVE FALSE
    BY <2>1, <2>6 DEF Receive, Open, At, Set, Threads
  <2>7. ASSUME Preview \/ Publish \/ RolledBack \/ Report \/ Settle \/ PublishFails \/ ReportFails
        PROVE  FALSE
    <3>1. run["consumer"].pc \notin GeneratePcs
      BY <2>7 DEF Preview, Publish, RolledBack, Report, Settle, PublishFails, ReportFails, At,
                  GeneratePcs
    <3>2. \A u \in Thread \ {"consumer"} : run'[u] = run[u]
      BY <2>1, <2>7 DEF Preview, Publish, RolledBack, Report, Settle, PublishFails, ReportFails,
                        Raised, Leave, Set, Threads
    <3> QED BY <3>1, <3>2
  <2>8. CASE Crash
    <3>1. run'[th].pc = "idle"
      BY <2>8 DEF Crash, Blank
    <3> QED BY <3>1 DEF GeneratePcs
  <2>9. CASE UNCHANGED run
    BY <2>9
  <2> QED BY <2>2, <2>3, <2>4, <2>5, <2>6, <2>7, <2>8, <2>9
          DEF Next, Consume, Failure, Send, Rollback, DeleteFails, HeartbeatLost, Expire
<1> QED BY <1>1, InitWorking, NextWorking, PTL DEF Spec, PipelineAdvances

-----------------------------------------------------------------------------
(* What the result of the consumer will name.                              *)

(* Named and in the buckets, but for the scenarios still to be uploaded.   *)
Supplied(r, st) ==
  /\ r.keys # {} \/ r.blueprints # {} => r.design \in Design
  /\ \A k \in r.keys :
       /\ st[GoldOf(r.design, k[1], k[2])] # None
       /\ \A g \in Tags({k[2]}) :
            \/ st[ZipOf(r.design, k[1], g)] # None
            \/ r.pc = "uploadZips" /\ k = <<r.lang, r.item>> /\ g \in r.zips
  /\ \A b \in r.blueprints : st[GoldOf(r.design, b[1], TierOf[b[2]])] # None

Named ==
  /\ run["consumer"].pc \in {"preview", "design"} =>
       run["consumer"].keys = {} /\ run["consumer"].blueprints = {}
  /\ run["consumer"].pc \in GeneratePcs \cup {"publish"} => Supplied(run["consumer"], store)

LEMMA ObjectTypes ==
  ASSUME NEW d \in Design, NEW l \in Lang
  PROVE  /\ \A t \in Tier : GoldOf(d, l, t) \in Object
         /\ \A g \in Tag : ZipOf(d, l, g) \in Object /\ GoldOf(d, l, TierOf[g]) \in Object
BY NamesAssumption DEF GoldOf, ZipOf, Object, GoldObject, ZipObject

LEMMA Grown ==
  ASSUME NEW r \in Run, NEW st, NEW st2, Supplied(r, st),
         \A o \in Object : st[o] # None => st2[o] # None
  PROVE  Supplied(r, st2)
<1>1. r.keys \subseteq Lang \X Tier /\ r.blueprints \subseteq Lang \X Tag
  BY DEF Run
<1>2. ASSUME NEW k \in r.keys
      PROVE  /\ st2[GoldOf(r.design, k[1], k[2])] # None
             /\ \A g \in Tags({k[2]}) :
                  \/ st2[ZipOf(r.design, k[1], g)] # None
                  \/ r.pc = "uploadZips" /\ k = <<r.lang, r.item>> /\ g \in r.zips
  <2>1. k[1] \in Lang /\ k[2] \in Tier /\ r.design \in Design
    BY <1>1, <1>2 DEF Supplied
  <2>2. GoldOf(r.design, k[1], k[2]) \in Object
        /\ \A g \in Tags({k[2]}) : ZipOf(r.design, k[1], g) \in Object
    BY <2>1, ObjectTypes DEF Tags
  <2> QED BY <1>2, <2>2 DEF Supplied
<1>3. ASSUME NEW b \in r.blueprints
      PROVE  st2[GoldOf(r.design, b[1], TierOf[b[2]])] # None
  <2>1. b[1] \in Lang /\ b[2] \in Tag /\ r.design \in Design
    BY <1>1, <1>3 DEF Supplied
  <2>2. GoldOf(r.design, b[1], TierOf[b[2]]) \in Object
    BY <2>1, ObjectTypes
  <2> QED BY <1>3, <2>2 DEF Supplied
<1> QED BY <1>2, <1>3 DEF Supplied

(* The consumer where it was, or on to a step that names nothing.          *)
LEMMA AsideNamed ==
  ASSUME Working, Named, [Next]_vars,
         \/ run'["consumer"] = run["consumer"]
         \/ run'["consumer"].pc \in {"idle", "rollback", "report", "ack", "nack"}
  PROVE  Named'
<1>1. CASE run'["consumer"] = run["consumer"] /\ run["consumer"].pc # "rollback"
  <2>1. \A o \in Object : store[o] # None => store'[o] # None
    BY <1>1, StoreGrows DEF Rollback, At
  <2>2. run["consumer"] \in Run
    BY DEF Working, Threads, Thread
  <2> QED BY <1>1, <2>1, <2>2, Grown DEF Named
<1>2. CASE run'["consumer"].pc \in {"idle", "rollback", "report", "ack", "nack"}
  BY <1>2 DEF Named, GeneratePcs
<1> QED BY <1>1, <1>2

LEMMA PlainNamed ==
  ASSUME Working, Named, [Next]_vars, NEW th \in Thread, Moves(th), Plain(th),
         store' = store
  PROVE  Named'
<1>1. CASE run'["consumer"] = run["consumer"]
  BY <1>1, AsideNamed
<1>2. CASE th = "consumer" /\ Raised(th)
  <2>1. PICK pc \in {"rollback", "report"} : Leave("consumer", pc)
    BY <1>2 DEF Raised
  <2>2. run'["consumer"] = [Blank EXCEPT !.pc = pc, !.job = run["consumer"].job]
    BY <2>1 DEF Working, Threads, Leave, Set, Thread
  <2> QED BY <2>2, AsideNamed DEF Blank
<1>3. CASE th = "consumer" /\ ~Raised(th)
  <2>1. /\ run["consumer"].pc \in GeneratePcs \ {"uploadZips"}
        /\ run'["consumer"].pc \notin {"design", "uploadZips"}
        /\ run'["consumer"].keys = run["consumer"].keys
        /\ run'["consumer"].blueprints = run["consumer"].blueprints
        /\ run'["consumer"].design = run["consumer"].design
        /\ run'["consumer"].pc \in GeneratePcs \cup {"publish"}
    BY <1>3 DEF Plain, Carries, Moves
  <2>2. Supplied(run["consumer"], store)
    BY <2>1 DEF Named
  <2>3. Supplied(run'["consumer"], store')
    BY <2>1, <2>2 DEF Supplied
  <2>4. run'["consumer"].pc # "preview"
    BY <2>1 DEF GeneratePcs
  <2> QED BY <2>1, <2>3, <2>4 DEF Named
<1> QED BY <1>1, <1>2, <1>3 DEF Moves, Thread

(* The uploads of the consumer, with what they add to its result.          *)
LEMMA UploadGoldNamed ==
  ASSUME Working, Named, UploadGold("consumer")
  PROVE  Named'
<1> DEFINE C == run["consumer"]
           keys == C.keys \cup {<<C.lang, C.item>>}
           zips == Tags({C.item})
           r == [C EXCEPT !.pc = "uploadZips", !.zips = zips, !.keys = keys]
<1>1. /\ C.pc = "uploadGold" /\ run'["consumer"] = r
      /\ Put("consumer", NextUpload("consumer"))
      /\ NextUpload("consumer").object = GoldOf(C.design, C.lang, C.item)
  BY DEF UploadGold, Upload, Set, Working, Threads, Thread, At, NextUpload
<1>2. /\ C \in Run /\ C.item \in Tier /\ C.lang \in Lang /\ C.design \in Design
      /\ \A o \in Object : store[o] # None => store'[o] # None
      /\ store'[GoldOf(C.design, C.lang, C.item)] # None
  BY <1>1, PutShared, NextUploadType DEF Working, Threads, Thread, At
<1>3. Supplied(C, store')
  <2>1. Supplied(C, store)
    BY <1>1 DEF Named, GeneratePcs
  <2> QED BY <1>2, <2>1, Grown
<1>4. keys \in SUBSET (Lang \X Tier) /\ zips \in SUBSET Tag
  BY <1>2 DEF Run, Tags
<1> HIDE DEF keys, zips
<1>5. /\ r.pc = "uploadZips" /\ r.keys = keys /\ r.zips = zips /\ r.design = C.design
      /\ r.blueprints = C.blueprints /\ r.lang = C.lang /\ r.item = C.item
  BY <1>2, <1>4 DEF Run
<1> HIDE DEF r, C
<1>6. ASSUME NEW k \in keys
      PROVE  /\ store'[GoldOf(r.design, k[1], k[2])] # None
             /\ \A g \in Tags({k[2]}) :
                  \/ store'[ZipOf(r.design, k[1], g)] # None
                  \/ r.pc = "uploadZips" /\ k = <<r.lang, r.item>> /\ g \in r.zips
  <2>1. CASE k \in C.keys
    BY <1>1, <1>3, <1>5, <2>1 DEF Supplied
  <2>2. CASE k = <<C.lang, C.item>>
    BY <1>2, <1>5, <2>2 DEF zips
  <2> QED BY <1>6, <2>1, <2>2 DEF keys
<1>7. Supplied(r, store')
  BY <1>2, <1>3, <1>5, <1>6 DEF Supplied
<1> QED BY <1>1, <1>5, <1>7 DEF Named

LEMMA UploadZipNamed ==
  ASSUME Working, Named, UploadZip("consumer")
  PROVE  Named'
<1> DEFINE C == run["consumer"]
           z == First(C.zips)
           zips == C.zips \ {z}
           r == [C EXCEPT !.zips = zips]
<1>1. /\ C.pc = "uploadZips" /\ C.zips # {} /\ run'["consumer"] = r
      /\ Put("consumer", NextUpload("consumer"))
      /\ NextUpload("consumer").object = ZipOf(C.design, C.lang, z)
  BY DEF UploadZip, Upload, Set, Working, Threads, Thread, At, NextUpload
<1>2. /\ C \in Run
      /\ \A o \in Object : store[o] # None => store'[o] # None
      /\ store'[ZipOf(C.design, C.lang, z)] # None
  BY <1>1, PutShared, NextUploadType DEF Working, Threads, Thread, At
<1>3. Supplied(C, store')
  <2>1. Supplied(C, store)
    BY <1>1 DEF Named, GeneratePcs
  <2> QED BY <1>2, <2>1, Grown
<1>4. zips \in SUBSET Tag
  BY <1>2 DEF Run
<1>5. /\ r.pc = "uploadZips" /\ r.keys = C.keys /\ r.zips = zips /\ r.design = C.design
      /\ r.blueprints = C.blueprints /\ r.lang = C.lang /\ r.item = C.item
  BY <1>1, <1>2, <1>4 DEF Run
<1> HIDE DEF r, C, z
<1>6. ASSUME NEW k \in r.keys
      PROVE  /\ store'[GoldOf(r.design, k[1], k[2])] # None
             /\ \A g \in Tags({k[2]}) :
                  \/ store'[ZipOf(r.design, k[1], g)] # None
                  \/ r.pc = "uploadZips" /\ k = <<r.lang, r.item>> /\ g \in r.zips
  <2>1. ASSUME NEW g \in Tags({k[2]}), k = <<C.lang, C.item>>, g \in C.zips
        PROVE  store'[ZipOf(r.design, k[1], g)] # None \/ g \in r.zips
    BY <1>2, <1>5, <2>1
  <2> QED BY <1>3, <1>5, <1>6, <2>1 DEF Supplied
<1>7. Supplied(r, store')
  BY <1>3, <1>5, <1>6 DEF Supplied
<1> QED BY <1>1, <1>5, <1>7 DEF Named

LEMMA CheckpointNamed ==
  ASSUME Working, Named, Checkpoint("consumer")
  PROVE  Named'
<1> DEFINE C == run["consumer"]
           r == Done("consumer", "assemble")
<1>1. /\ C.pc = "uploadZips" /\ C.zips = {} /\ run'["consumer"] = r /\ store' = store
  BY DEF Checkpoint, Set, Working, Threads, Thread, At, storeVars
<1>2. C \in Run
  BY DEF Working, Threads, Thread
<1>3. r.pc = "assemble" /\ r.keys = C.keys /\ r.blueprints = C.blueprints /\ r.design = C.design
  BY <1>2, DoneFields DEF Thread
<1>4. Supplied(C, store)
  BY <1>1 DEF Named, GeneratePcs
<1> HIDE DEF r, C
<1>5. Supplied(r, store)
  BY <1>1, <1>3, <1>4 DEF Supplied
<1> QED BY <1>1, <1>3, <1>5 DEF Named

LEMMA BlueprintsNamed ==
  ASSUME Working, Named, Blueprints("consumer")
  PROVE  Named'
<1> DEFINE C == run["consumer"]
<1>1. PICK made \in {BlueprintsOf("consumer"), {}} :
        Set("consumer", [C EXCEPT !.pc = "language", !.blueprints = @ \cup made])
  BY DEF Blueprints
<1> DEFINE b == C.blueprints \cup made
           r == [C EXCEPT !.pc = "language", !.blueprints = b]
<1>2. C.pc = "assemble" /\ run'["consumer"] = r /\ store' = store
  BY <1>1 DEF Blueprints, Set, Working, Threads, Thread, At, storeVars
<1>3. C \in Run /\ C.design \in Design /\ C.lang \in Lang
  BY <1>2 DEF Working, Threads, Thread, Fit, Engaged, GeneratePcs, InLanguage
<1>4. \A x \in made : x[1] = C.lang /\ store[GoldOf(C.design, x[1], TierOf[x[2]])] # None
  BY <1>1 DEF BlueprintsOf, GoldSources, Tags
<1>5. Supplied(C, store)
  BY <1>2 DEF Named, GeneratePcs
<1> HIDE DEF b
<1>6. r.pc = "language" /\ r.keys = C.keys /\ r.blueprints = b /\ r.design = C.design
  BY <1>2, <1>3 DEF Run
<1> HIDE DEF r, C
<1>7. Supplied(r, store)
  BY <1>2, <1>3, <1>4, <1>5, <1>6 DEF Supplied, b
<1> QED BY <1>2, <1>6, <1>7 DEF Named

LEMMA ChooseDesignNamed ==
  ASSUME Working, Named, NEW d \in Design, ChooseDesign("consumer", d)
  PROVE  Named'
<1> DEFINE C == run["consumer"]
           langs == orders[C.job].langs
           r == [C EXCEPT !.pc = "language", !.design = d, !.langs = langs]
<1>1. C.pc = "design" /\ run'["consumer"] = r
  BY DEF ChooseDesign, Set, Working, Threads, Thread, At
<1>2. C \in Run /\ C.keys = {} /\ C.blueprints = {}
  BY <1>1 DEF Working, Threads, Thread, Named
<1> HIDE DEF langs
<1>3. r.pc = "language" /\ r.keys = {} /\ r.blueprints = {}
  BY <1>2 DEF Run
<1> QED BY <1>1, <1>3 DEF Named, Supplied

LEMMA GenerateNamed ==
  ASSUME Working, Named, [Next]_vars, NEW th \in Thread, Generate(th)
  PROVE  Named'
<1>1. Moves(th)
  BY GenerateMoves DEF Working
<1>2. CASE th = "api"
  BY <1>1, <1>2, AsideNamed DEF Moves, Thread
<1>3. CASE th = "consumer"
  <2>1. CASE UNCHANGED storeVars /\ Plain(th)
    BY <1>1, <2>1, PlainNamed DEF storeVars
  <2> QED
    BY <1>3, <2>1, GenerateMoves, UploadGoldNamed, UploadZipNamed, CheckpointNamed,
       BlueprintsNamed, ChooseDesignNamed DEF Working
<1> QED BY <1>2, <1>3 DEF Thread

LEMMA ConsumeNamed ==
  ASSUME Working, Named, [Next]_vars, Consume
  PROVE  Named'
<1>1. ASSUME NEW r \in Request, NEW o \in OrdersFor(r), Receive(r, o) PROVE Named'
  <2>1. run'["consumer"] = [Blank EXCEPT !.pc = FirstPc(o), !.job = r]
    BY <1>1 DEF Receive, Open, Set, Working, Threads, Thread
  <2>2. run'["consumer"].keys = {} /\ run'["consumer"].blueprints = {}
    BY <2>1 DEF Blank
  <2> QED BY <2>2 DEF Named, Supplied
<1>2. ASSUME NEW pc \in Pcs, Leave("consumer", pc)
      PROVE  /\ run'["consumer"].pc = pc /\ run'["consumer"].keys = {}
             /\ run'["consumer"].blueprints = {}
  <2>1. run'["consumer"] = [Blank EXCEPT !.pc = pc, !.job = run["consumer"].job]
    BY <1>2 DEF Leave, Set, Working, Threads, Thread
  <2> QED BY <2>1 DEF Blank
<1>3. CASE Preview
  <2>1. /\ run'["consumer"].pc = "publish" /\ run'["consumer"].keys = {}
        /\ run'["consumer"].blueprints = {}
    BY <1>2, <1>3 DEF Preview, Pcs
  <2> QED BY <2>1 DEF Named, Supplied
<1>4. CASE Publish \/ Report
  BY <1>2, <1>4, AsideNamed DEF Publish, Report, Pcs
<1>5. CASE Rollback
  BY <1>5, AsideNamed DEF Rollback
<1>6. CASE RolledBack
  BY <1>2, <1>6, AsideNamed DEF RolledBack, Pcs
<1>7. CASE Settle
  <2>1. run'["consumer"] = Blank
    BY <1>7 DEF Settle, Set, Working, Threads, Thread
  <2> QED BY <2>1, AsideNamed DEF Blank
<1> QED BY <1>1, <1>3, <1>4, <1>5, <1>6, <1>7 DEF Consume

LEMMA FailureNamed ==
  ASSUME Working, Named, [Next]_vars, Failure
  PROVE  Named'
<1>1. ASSUME NEW pc \in Pcs, Leave("consumer", pc)
      PROVE  run'["consumer"].pc = pc
  <2>1. run'["consumer"] = [Blank EXCEPT !.pc = pc, !.job = run["consumer"].job]
    BY <1>1 DEF Leave, Set, Working, Threads, Thread
  <2> QED BY <2>1 DEF Blank
<1>2. ASSUME NEW th \in Thread, Raised(th) PROVE Named'
  <2>1. CASE th = "api"
    BY <1>2, <2>1, AsideNamed DEF Raised, Set, Working, Threads, Thread
  <2>2. CASE th = "consumer"
    BY <1>1, <1>2, <2>2, AsideNamed DEF Raised, Pcs
  <2> QED BY <2>1, <2>2 DEF Thread
<1>3. CASE PublishFails
  BY <1>2, <1>3 DEF PublishFails, Thread
<1>4. CASE ReportFails
  BY <1>1, <1>4, AsideNamed DEF ReportFails, Pcs
<1>5. CASE DeleteFails \/ HeartbeatLost
  BY <1>5, AsideNamed DEF DeleteFails, HeartbeatLost
<1>6. CASE Crash
  BY <1>6, AsideNamed DEF Crash, Blank, Thread
<1>7. ASSUME NEW th \in Thread, UploadLost(th) PROVE Named'
  BY <1>2, <1>7 DEF UploadLost
<1>8. ASSUME NEW k \in Key, Expire(k) PROVE Named'
  BY <1>8, AsideNamed DEF Expire
<1> QED BY <1>3, <1>4, <1>5, <1>6, <1>7, <1>8 DEF Failure

LEMMA NextNamed == Working /\ Named /\ [Next]_vars => Named'
<1> SUFFICES ASSUME Working, Named, [Next]_vars PROVE Named'
  OBVIOUS
<1>1. CASE UNCHANGED vars
  BY <1>1, AsideNamed DEF vars
<1>2. ASSUME NEW r \in Request, Send(r) PROVE Named'
  BY <1>2, AsideNamed DEF Send
<1>3. ASSUME NEW o \in Asks[Api], ApiStart(o) PROVE Named'
  BY <1>3, AsideNamed DEF ApiStart, Set, Working, Threads, Thread
<1>4. ASSUME NEW th \in Thread, Generate(th) PROVE Named'
  BY <1>4, GenerateNamed
<1> QED BY <1>1, <1>2, <1>3, <1>4, ConsumeNamed, FailureNamed DEF Next

(* All that a COMPLETED result names is in the buckets when it is          *)
(* published, for any request and whatever the endpoint does.              *)
THEOREM ResultsNameWhatIsThere == Spec => []PayloadBacked
<1>1. Init => Named
  BY DEF Init, Named, Blank, Thread, GeneratePcs
<1>2. Named => PayloadBacked
  BY DEF Named, PayloadBacked, Supplied, At, Uploaded
<1> QED BY <1>1, <1>2, InitWorking, NextWorking, NextNamed, PTL DEF Spec

-----------------------------------------------------------------------------
(* The promise of the worker.                                              *)

LEMMA InitPromise == Init => Promise!Init
BY DEF Init, Promise!Init

LEMMA NextPromise == Working /\ Books /\ [Next]_vars => [Promise!Next]_(Promise!vars)
<1> SUFFICES ASSUME Working, Books, [Next]_vars PROVE [Promise!Next]_(Promise!vars)
  OBVIOUS
<1>1. CASE UNCHANGED <<queue, results, dropped>>
  BY <1>1 DEF Promise!vars
<1>2. ASSUME NEW r \in Request, Send(r) PROVE Promise!Next
  BY <1>2 DEF Send, Promise!Next, Promise!Send
<1>3. ASSUME NEW ok \in BOOLEAN, Answer(ok), ~At("consumer", "idle"), UNCHANGED <<queue, dropped>>
      PROVE  Promise!Next
  <2>1. queue # <<>> /\ Job = Head(queue)
    BY <1>3, JobType
  <2>2. Promise!Answer(ok)
    BY <1>3, <2>1 DEF Answer, Job, Promise!Answer
  <2> QED BY <2>2 DEF Promise!Next
<1>4. CASE Settle /\ linked
  <2>1. queue # <<>> /\ Job = Head(queue) /\ queue' = Tail(queue) /\ results' = results
    BY <1>4, JobType DEF Settle, At
  <2>2. CASE At("consumer", "nack") \/ orders[Job].kind = "OTHER"
    <3>1. dropped' = dropped \cup {Job}
      BY <1>4, <2>2 DEF Settle, Job
    <3> QED BY <2>1, <3>1 DEF Promise!Next, Promise!Drop
  <2>3. CASE ~(At("consumer", "nack") \/ orders[Job].kind = "OTHER")
    <3>1. dropped' = dropped /\ At("consumer", "ack")
      BY <1>4, <2>3 DEF Settle, Job
    <3>2. Promise!Answered(Head(queue))
      BY <2>1, <2>3, <3>1 DEF Books, Kinds, Promise!Answered
    <3> QED BY <2>1, <3>1, <3>2 DEF Promise!Next, Promise!Settle
  <2> QED BY <2>2, <2>3
<1>5. CASE Settle /\ ~linked
  BY <1>1, <1>5 DEF Settle
<1>6. CASE Publish \/ Report
  BY <1>3, <1>6 DEF Publish, Report, At
<1>7. CASE PublishFails \/ ReportFails
  BY <1>1, <1>3, <1>7 DEF PublishFails, ReportFails, At
<1>8. ASSUME NEW th \in Thread, Generate(th) PROVE UNCHANGED <<queue, results, dropped>>
  BY <1>8, GenerateMoves DEF Working, messageVars
<1>9. CASE Consume
  BY <1>1, <1>4, <1>5, <1>6, <1>9
     DEF Consume, Receive, Preview, Rollback, RolledBack, messageVars
<1>10. CASE Failure
  BY <1>1, <1>7, <1>10
     DEF Failure, DeleteFails, HeartbeatLost, Crash, UploadLost, Expire, messageVars
<1>11. ASSUME NEW o \in Asks[Api], ApiStart(o) PROVE UNCHANGED <<queue, results, dropped>>
  BY <1>11 DEF ApiStart
<1>12. CASE UNCHANGED vars
  BY <1>1, <1>12 DEF vars, messageVars
<1> QED BY <1>1, <1>2, <1>8, <1>9, <1>10, <1>11, <1>12 DEF Next

(* The worker implements what GenerationJobs relies on: no request leaves  *)
(* the queue without a result or being given up in the open.               *)
THEOREM WorkerKeepsItsPromise == Spec => ImplementsPromise
BY InitPromise, InitWorking, InitBooks, NextWorking, NextBooks, NextPromise, PTL
   DEF Spec, ImplementsPromise, Promise!Spec
=============================================================================
