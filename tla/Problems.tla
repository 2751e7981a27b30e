------------------------------ MODULE Problems ------------------------------
(***************************************************************************)
(* The problems of the admin backend and the building of their images: the *)
(* rows of table problems, the listener that creates one from a finished   *)
(* generation and starts its build (GenerationService.updateFromResult,    *)
(* ProblemManagementService.createFromJob), the asynchronous builds with   *)
(* their retries and their rollback (DockerImageService) and the admin     *)
(* requests that edit, publish, delete and rebuild (ProblemAdminController).*)
(*                                                                         *)
(* A build knows its problem by slug only.  Each find and each save is a   *)
(* transaction of its own, and a save writes the whole row; the entity has *)
(* an assigned id and no version, so saving a deleted row inserts it.      *)
(***************************************************************************)
EXTENDS Integers

CONSTANTS Problem,    \* ids of rows; each is given once
          Slug, Link, \* slugs, and keys of scaffold ZIPs in the challenges bucket
          Build,      \* tasks of the @Async executor; each runs once
          Request,    \* admin requests that read a row and save it
          None,       \* no slug, no problem, no image
          Attempts    \* maxAttempts of @Retryable

ASSUME NoneAssumption == None \notin Problem \cup Slug \cup Link
ASSUME AttemptsAssumption == Attempts \in Nat \ {0}

VARIABLES
  rows, used,                    \* table problems; the ids given so far
  scaffolds,                     \* the ZIPs in the challenges bucket
  local, tagged, ecr,            \* per slug: the executor image, the image with the ECR tag, ECR
  registry,                      \* whether ECR_REPOSITORY_URI is configured; never changes
  listener,                      \* where the creation of a problem is
  step, slug, link, attempt,     \* builds: the call they are about to make, arguments, attempt
  found, copy,                   \* the row a build has found, and what it will save
  request, edited, edit,         \* admin requests: step, row, what they will save
  byAdmin, touched, hurt, shared \* rows an admin published or saved, or an outage left; see Begin

tableVars   == <<rows, used>>
imageVars   == <<local, tagged, ecr>>
buildVars   == <<step, slug, link, attempt, found, copy>>
requestVars == <<request, edited, edit>>
pastVars    == <<byAdmin, touched, hurt, shared>>
vars        == <<tableVars, scaffolds, imageVars, registry, listener, buildVars, requestVars, pastVars>>

Image == {"none", "healthy", "broken"}
Row   == [slug : Slug \cup {None}, link : Link \cup {None}, buildable : BOOLEAN,
          image : Slug \cup {None}, published : BOOLEAN]
Absent == [slug |-> None, link |-> None, buildable |-> FALSE, image |-> None, published |-> FALSE]
Idle   == [step |-> "idle", slug |-> None, link |-> None, problem |-> None, buildable |-> FALSE]

Working  == {"extract", "build", "check", "tag", "push", "find", "save"}
Recovery == {"rollback", "delete", "deleteFromS3"}

TypeOK ==
  /\ rows \in [Problem -> Row] /\ used \in SUBSET Problem
  /\ scaffolds \in SUBSET Link
  /\ local \in [Slug -> Image] /\ tagged \in [Slug -> Image] /\ ecr \in [Slug -> Image]
  /\ registry \in BOOLEAN
  /\ listener \in [step : {"idle", "insert", "submit"}, slug : Slug \cup {None},
                   link : Link \cup {None}, problem : Problem \cup {None}, buildable : BOOLEAN]
  /\ step \in [Build -> Working \cup Recovery \cup {"new", "over"}]
  /\ slug \in [Build -> Slug \cup {None}] /\ link \in [Build -> Link \cup {None}]
  /\ attempt \in [Build -> 1..Attempts]
  /\ found \in [Build -> Problem \cup {None}] /\ copy \in [Build -> Row]
  /\ request \in [Request -> {"new", "save", "over"}]
  /\ edited \in [Request -> Problem \cup {None}] /\ edit \in [Request -> Row]
  /\ byAdmin \in SUBSET Problem /\ touched \in SUBSET Problem /\ hurt \in SUBSET Problem
  /\ shared \in SUBSET Slug

Init ==
  /\ rows = [p \in Problem |-> Absent] /\ used = {}
  /\ scaffolds = Link
  /\ local = [s \in Slug |-> "none"] /\ tagged = local /\ ecr = local
  /\ registry \in BOOLEAN
  /\ listener = Idle
  /\ step = [b \in Build |-> "new"]
  /\ slug = [b \in Build |-> None] /\ link = slug
  /\ attempt = [b \in Build |-> 1]
  /\ found = slug /\ copy = [b \in Build |-> Absent]
  /\ request = [r \in Request |-> "new"]
  /\ edited = [r \in Request |-> None] /\ edit = [r \in Request |-> Absent]
  /\ byAdmin = {} /\ touched = {} /\ hurt = {} /\ shared = {}

-----------------------------------------------------------------------------
(* Table problems; its column slug is unique.                              *)

Stored    == {p \in Problem : rows[p] # Absent}
Holder(s) == {p \in Problem : rows[p].slug = s}

Write(p, r) == /\ Holder(r.slug) \subseteq {p}
               /\ rows' = [rows EXCEPT ![p] = r]

(* A new row, with an id of its own.                                       *)
Add(p, s, l, b) ==
  /\ p \notin used /\ used' = used \cup {p}
  /\ Write(p, [slug |-> s, link |-> l, buildable |-> b, image |-> None, published |-> FALSE])

-----------------------------------------------------------------------------
(* DockerImageService: one action per call of a build.                     *)

Running(b) == step[b] \notin {"new", "over"}
Goto(b, s) == step' = [step EXCEPT ![b] = s]

Forget(b) == found' = [found EXCEPT ![b] = None] /\ copy' = [copy EXCEPT ![b] = Absent]

(* The build is over: nothing of it is left in memory.                     *)
Finish(b) ==
  /\ Goto(b, "over") /\ Forget(b)
  /\ slug' = [slug EXCEPT ![b] = None] /\ link' = [link EXCEPT ![b] = None]
  /\ attempt' = [attempt EXCEPT ![b] = 1]

(* buildAndPush is called.  shared keeps the slugs for which two builds    *)
(* ever ran at a time.                                                     *)
Begin(b, s, l) ==
  /\ step[b] = "new" /\ Goto(b, "extract")
  /\ slug' = [slug EXCEPT ![b] = s] /\ link' = [link EXCEPT ![b] = l]
  /\ shared' = IF \E c \in Build : Running(c) /\ slug[c] = s THEN shared \cup {s} ELSE shared
  /\ UNCHANGED <<attempt, found, copy, byAdmin, touched, hurt>>

Extract(b) ==
  /\ step[b] = "extract" /\ link[b] \in scaffolds
  /\ Goto(b, "build")
  /\ UNCHANGED <<tableVars, scaffolds, imageVars, registry, listener, slug, link, attempt, found, copy,
                 requestVars, pastVars>>

(* docker build moves the tag of the slug to the new image.                *)
DockerBuild(b) ==
  /\ step[b] = "build"
  /\ \E i \in {"healthy", "broken"} : local' = [local EXCEPT ![slug[b]] = i]
  /\ Goto(b, "check")
  /\ UNCHANGED <<tableVars, scaffolds, tagged, ecr, registry, listener, slug, link, attempt, found, copy,
                 requestVars, pastVars>>

(* Definitions named ..._x are mutations: what a slip in the code would     *)
(* make of the definition that follows; the specification never uses them. *)
HealthCheck_Off(b) ==
  /\ step[b] = "check"
  /\ Goto(b, IF registry THEN "tag" ELSE "find")
  /\ UNCHANGED <<tableVars, scaffolds, imageVars, registry, listener, slug, link, attempt, found, copy,
                 requestVars, pastVars>>

HealthCheck_PublishFirst(b) ==
  /\ step[b] = "check" /\ local[slug[b]] = "healthy"
  /\ Goto(b, "find")
  /\ UNCHANGED <<tableVars, scaffolds, imageVars, registry, listener, slug, link, attempt, found, copy,
                 requestVars, pastVars>>

(* docker run of whatever the tag names by now.                            *)
HealthCheck(b) ==
  /\ step[b] = "check" /\ local[slug[b]] = "healthy"
  /\ Goto(b, IF registry THEN "tag" ELSE "find")
  /\ UNCHANGED <<tableVars, scaffolds, imageVars, registry, listener, slug, link, attempt, found, copy,
                 requestVars, pastVars>>

Tag(b) ==
  /\ step[b] = "tag"
  /\ tagged' = [tagged EXCEPT ![slug[b]] = local[slug[b]]]
  /\ Goto(b, "push")
  /\ UNCHANGED <<tableVars, scaffolds, local, ecr, registry, listener, slug, link, attempt, found, copy,
                 requestVars, pastVars>>

Push(b) ==
  /\ step[b] = "push"
  /\ ecr' = [ecr EXCEPT ![slug[b]] = tagged[slug[b]]]
  /\ Goto(b, "find")
  /\ UNCHANGED <<tableVars, scaffolds, local, tagged, registry, listener, slug, link, attempt, found,
                 copy, requestVars, pastVars>>

(* findBySlug(slug).ifPresent: the row is changed in memory.               *)
FindBySlug(b) ==
  /\ step[b] = "find"
  /\ \/ Holder(slug[b]) = {} /\ Finish(b)
     \/ \E p \in Holder(slug[b]) :
          /\ found' = [found EXCEPT ![b] = p]
          /\ copy' = [copy EXCEPT ![b] =
                        [rows[p] EXCEPT !.published = TRUE, !.image = IF registry THEN slug[b] ELSE @]]
          /\ Goto(b, "save") /\ UNCHANGED <<slug, link, attempt>>
  /\ UNCHANGED <<tableVars, scaffolds, imageVars, registry, listener, requestVars, pastVars>>

SavePublished(b) ==
  /\ step[b] = "save"
  /\ Write(found[b], copy[b])
  /\ Finish(b)
  /\ UNCHANGED <<used, scaffolds, imageVars, registry, listener, requestVars, pastVars>>

Retry_OneMore(b) == IF attempt[b] <= Attempts
                    THEN Goto(b, "extract") /\ attempt' = [attempt EXCEPT ![b] = @ + 1]
                    ELSE Goto(b, "rollback") /\ UNCHANGED attempt

Retry(b) == IF attempt[b] < Attempts
            THEN Goto(b, "extract") /\ attempt' = [attempt EXCEPT ![b] = @ + 1]
            ELSE Goto(b, "rollback") /\ UNCHANGED attempt

(* Any call throws; a save may have been done.                             *)
BuildThrows(b) ==
  /\ step[b] \in Working
  /\ \/ UNCHANGED rows
     \/ step[b] = "save" /\ Write(found[b], copy[b])
  /\ Retry(b) /\ Forget(b)
  /\ UNCHANGED <<used, scaffolds, imageVars, registry, listener, slug, link, requestVars, pastVars>>

(* recoverBuildAndPush.                                                    *)
RecoverFinds(b) ==
  /\ step[b] = "rollback"
  /\ \/ Holder(slug[b]) = {} /\ Goto(b, "deleteFromS3") /\ UNCHANGED found
     \/ \E p \in Holder(slug[b]) : Goto(b, "delete") /\ found' = [found EXCEPT ![b] = p]
  /\ UNCHANGED <<tableVars, scaffolds, imageVars, registry, listener, slug, link, attempt, copy,
                 requestVars, pastVars>>

RecoverDeletes(b) ==
  /\ step[b] = "delete"
  /\ rows' = [rows EXCEPT ![found[b]] = Absent]
  /\ Goto(b, "deleteFromS3") /\ Forget(b)
  /\ UNCHANGED <<used, scaffolds, imageVars, registry, listener, slug, link, attempt, requestVars,
                 pastVars>>

RecoverThrows(b) ==
  /\ step[b] \in {"rollback", "delete"}
  /\ Finish(b)
  /\ hurt' = hurt \cup (IF step[b] = "delete" THEN {found[b]} ELSE Holder(slug[b]))
  /\ UNCHANGED <<tableVars, scaffolds, imageVars, registry, listener, requestVars,
                 byAdmin, touched, shared>>

(* A failing delete is logged.                                             *)
DeleteFromS3(b) ==
  /\ step[b] = "deleteFromS3"
  /\ scaffolds' \in {scaffolds \ {link[b]}, scaffolds}
  /\ Finish(b)
  /\ UNCHANGED <<tableVars, imageVars, registry, listener, requestVars, pastVars>>

-----------------------------------------------------------------------------
(* updateFromResult and createFromJob, for one of the problems of a job.   *)

(* uniqueSlug: a slug that is free now.                                    *)
ChooseSlug(s, l, b) ==
  /\ listener.step = "idle" /\ Holder(s) = {}
  /\ listener' = [step |-> "insert", slug |-> s, link |-> l, problem |-> None, buildable |-> b]
  /\ UNCHANGED <<tableVars, scaffolds, imageVars, registry, buildVars, requestVars, pastVars>>

InsertProblem(p) ==
  /\ listener.step = "insert"
  /\ Add(p, listener.slug, listener.link, listener.buildable)
  /\ listener' = [listener EXCEPT !.step = "submit", !.problem = p]
  /\ UNCHANGED <<scaffolds, imageVars, registry, buildVars, requestVars, pastVars>>

(* The slug has been taken meanwhile, or another error of the database.    *)
InsertFails ==
  /\ listener.step = "insert"
  /\ listener' = Idle
  /\ UNCHANGED <<tableVars, scaffolds, imageVars, registry, buildVars, requestVars, pastVars>>

SubmitBuild_Dropped(b) ==
  /\ listener.step = "submit"
  /\ listener' = Idle
  /\ UNCHANGED <<tableVars, scaffolds, imageVars, registry, buildVars, requestVars, pastVars>>

(* buildAndPush returns at once for a language it does not support.        *)
SubmitBuild(b) ==
  /\ listener.step = "submit"
  /\ IF listener.buildable THEN Begin(b, listener.slug, listener.link)
                           ELSE UNCHANGED <<buildVars, pastVars>>
  /\ listener' = Idle
  /\ UNCHANGED <<tableVars, scaffolds, imageVars, registry, requestVars>>

-----------------------------------------------------------------------------
(* The requests of the admins.                                             *)

(* A problem typed in by an admin has no language.                         *)
CreateProblem(p, s, l) ==
  /\ Add(p, s, l, FALSE)
  /\ UNCHANGED <<scaffolds, imageVars, registry, listener, buildVars, requestVars, pastVars>>

DeleteProblem(p) ==
  /\ p \in Stored
  /\ rows' = [rows EXCEPT ![p] = Absent]
  /\ UNCHANGED <<used, scaffolds, imageVars, registry, listener, buildVars, requestVars, pastVars>>

BuildImage(p, b) ==
  /\ p \in Stored /\ rows[p].buildable
  /\ Begin(b, rows[p].slug, rows[p].link)
  /\ UNCHANGED <<tableVars, scaffolds, imageVars, registry, listener, requestVars>>

(* updateProblem and setPublished read the row and change it in memory.    *)
ReadToEdit(r, p, new) ==
  /\ request[r] = "new" /\ p \in Stored
  /\ request' = [request EXCEPT ![r] = "save"]
  /\ edited' = [edited EXCEPT ![r] = p] /\ edit' = [edit EXCEPT ![r] = new]

UpdateProblem(r, p) ==
  /\ \E s \in Slug, l \in Link : ReadToEdit(r, p, [rows[p] EXCEPT !.slug = s, !.link = l])
  /\ UNCHANGED <<tableVars, scaffolds, imageVars, registry, listener, buildVars, pastVars>>

SetPublished(r, p, published) ==
  /\ ReadToEdit(r, p, [rows[p] EXCEPT !.published = published])
  /\ byAdmin' = IF published THEN byAdmin \cup {p} ELSE byAdmin
  /\ UNCHANGED <<tableVars, scaffolds, imageVars, registry, listener, buildVars, touched, hurt, shared>>

Respond(r) ==
  /\ request[r] = "save" /\ request' = [request EXCEPT ![r] = "over"]
  /\ edited' = [edited EXCEPT ![r] = None] /\ edit' = [edit EXCEPT ![r] = Absent]

SaveEdit(r) ==
  /\ Respond(r)
  /\ Write(edited[r], edit[r])
  /\ touched' = touched \cup {edited[r]}
  /\ UNCHANGED <<used, scaffolds, imageVars, registry, listener, buildVars, byAdmin, hurt, shared>>

EditFails(r) ==
  /\ Respond(r)
  /\ UNCHANGED <<tableVars, scaffolds, imageVars, registry, listener, buildVars, pastVars>>

-----------------------------------------------------------------------------
(* The codegen worker uploads a scaffold (external).                       *)
Upload(l) ==
  /\ l \notin scaffolds
  /\ scaffolds' = scaffolds \cup {l}
  /\ UNCHANGED <<tableVars, imageVars, registry, listener, buildVars, requestVars, pastVars>>

(* The backend dies: the builds it runs or has queued are forgotten.       *)
Crash ==
  /\ step' = [b \in Build |-> IF Running(b) THEN "over" ELSE step[b]]
  /\ request' = [r \in Request |-> IF request[r] = "save" THEN "over" ELSE request[r]]
  /\ listener' = Idle
  /\ slug' = [b \in Build |-> None] /\ link' = slug' /\ found' = slug'
  /\ attempt' = [b \in Build |-> 1] /\ copy' = [b \in Build |-> Absent]
  /\ edited' = [r \in Request |-> None] /\ edit' = [r \in Request |-> Absent]
  /\ hurt' = hurt \cup Stored
  /\ UNCHANGED <<tableVars, scaffolds, imageVars, registry, byAdmin, touched, shared>>

BuildStep(b) == \/ Extract(b) \/ DockerBuild(b) \/ HealthCheck(b) \/ Tag(b) \/ Push(b)
                \/ FindBySlug(b) \/ SavePublished(b) \/ BuildThrows(b)
                \/ RecoverFinds(b) \/ RecoverDeletes(b) \/ RecoverThrows(b) \/ DeleteFromS3(b)

Listener == \/ \E s \in Slug, l \in Link, b \in BOOLEAN : ChooseSlug(s, l, b)
            \/ \E p \in Problem : InsertProblem(p)
            \/ InsertFails
            \/ \E b \in Build : SubmitBuild(b)

Administration ==
  \/ \E p \in Problem, s \in Slug, l \in Link : CreateProblem(p, s, l)
  \/ \E p \in Problem : DeleteProblem(p)
  \/ \E p \in Problem, b \in Build : BuildImage(p, b)
  \/ \E r \in Request : SaveEdit(r) \/ EditFails(r)
  \/ \E r \in Request, p \in Problem :
       UpdateProblem(r, p) \/ \E published \in BOOLEAN : SetPublished(r, p, published)

Next == \/ \E b \in Build : BuildStep(b)
        \/ Listener \/ Administration \/ Crash
        \/ \E l \in Link : Upload(l)

Spec == Init /\ [][Next]_vars

-----------------------------------------------------------------------------
(* Properties.                                                             *)

Pushed(p, r) == registry /\ r.published /\ p \notin byAdmin => r.image # None /\ ecr[r.image] # "none"

(* What no admin published has an image, and it has been pushed: no save   *)
(* of an older copy, no retry and no rollback publishes a problem without  *)
(* one (buildAndPush against setPublished, updateProblem, createFromJob).  *)
PublishedIsPushed == \A p \in Problem : Pushed(p, rows[p])

(* The builds that will publish a row of this id and slug, or delete it.   *)
Minds(b, p) ==
  /\ slug[b] = rows[p].slug
  /\ \/ step[b] \in (Working \ {"save"}) \cup {"rollback"}
     \/ step[b] \in {"save", "delete"} /\ found[b] = p

(* A generated problem that is not published has somebody at work on it,   *)
(* however builds of its slug, their rollbacks, renames and deletions      *)
(* overlap; only an admin's edit, the death of the backend (which forgets  *)
(* the queued builds) or a database error in the rollback leave it to      *)
(* nobody (buildAndPush, recoverBuildAndPush).                             *)
UnbuiltIsMinded ==
  \A p \in Stored :
    rows[p].buildable /\ ~rows[p].published /\ p \notin touched \cup hurt =>
      \/ listener.step = "submit" /\ listener.problem = p
      \/ \E b \in Build : Minds(b, p)

(* While no two builds of a slug overlap, only an image that passed the    *)
(* health check is pushed: three tags move between the check and the push  *)
(* (DockerImageService.buildAndPush).                                      *)
HealthyIfAlone == \A s \in Slug \ shared : ecr[s] # "broken"

-----------------------------------------------------------------------------
(* The inductive invariant behind the properties.                          *)

(* A slug names one row, and what a call works on is in its arguments.     *)
Named ==
  /\ \A p \in Stored : rows[p].slug # None /\ Holder(rows[p].slug) = {p}
  /\ listener.step # "idle" => listener.slug # None
  /\ \A b \in Build : Running(b) => slug[b] # None
  /\ \A b \in Build : step[b] \in {"save", "delete"} => found[b] # None
  /\ \A b \in Build : step[b] = "save" => copy[b].slug # None /\ copy[b].published
  /\ \A r \in Request : request[r] = "save" => edited[r] # None /\ edit[r].slug # None

(* Every copy of a row may be saved, and the image is where the next call  *)
(* expects it.                                                             *)
CopiesPushed ==
  /\ \A b \in Build :
       /\ step[b] = "save" => Pushed(found[b], copy[b])
       /\ step[b] \in {"check", "tag"} => local[slug[b]] # "none"
       /\ step[b] = "push" => tagged[slug[b]] # "none"
       /\ step[b] = "find" /\ registry => ecr[slug[b]] # "none"
  /\ \A r \in Request : request[r] = "save" => Pushed(edited[r], edit[r])

(* What the listener will build is the row it has inserted.                *)
Expected ==
  LET p == listener.problem
  IN listener.step = "submit" =>
       /\ p \in used
       /\ p \in Stored /\ ~rows[p].published /\ p \notin touched =>
            rows[p].slug = listener.slug /\ rows[p].buildable = listener.buildable

(* The build that is alone with its slug tags and pushes what it checked.  *)
Alone ==
  /\ \A b, c \in Build : Running(b) /\ Running(c) /\ slug[b] = slug[c] /\ b # c => slug[b] \in shared
  /\ \A b \in Build : slug[b] \notin shared =>
       /\ step[b] = "tag" => local[slug[b]] = "healthy"
       /\ step[b] = "push" => tagged[slug[b]] = "healthy"

(* The properties above and what keeps them: which row a slug names, what  *)
(* the copies in memory may overwrite, what the listener and a build know  *)
(* (buildAndPush, recoverBuildAndPush, createFromJob, updateProblem).      *)
ProblemInv ==
  /\ TypeOK /\ Named
  /\ PublishedIsPushed /\ CopiesPushed
  /\ UnbuiltIsMinded /\ Expected
  /\ HealthyIfAlone /\ Alone
=============================================================================
