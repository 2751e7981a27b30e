--------------------------- MODULE Problems_proofs ---------------------------
(* Machine-checked proofs about Problems, for any number of problems,      *)
(* slugs, builds, admin requests and attempts.                             *)
EXTENDS Problems, TLAPS

-----------------------------------------------------------------------------
(* Types, and which row a slug names.                                      *)

Sound == TypeOK /\ Named

SlugsNameRows(table) ==
  /\ table \in [Problem -> Row]
  /\ \A p \in Problem : table[p] # Absent =>
       /\ table[p].slug # None
       /\ \A q \in Problem : table[q].slug = table[p].slug => q = p

RowsNamed == SlugsNameRows(rows)

BuildsKnow ==
  /\ step \in [Build -> Working \cup Recovery \cup {"new", "over"}]
  /\ slug \in [Build -> Slug \cup {None}] /\ link \in [Build -> Link \cup {None}]
  /\ attempt \in [Build -> 1..Attempts]
  /\ found \in [Build -> Problem \cup {None}] /\ copy \in [Build -> Row]
  /\ \A b \in Build : Running(b) => slug[b] # None
  /\ \A b \in Build : step[b] \in {"save", "delete"} => found[b] # None
  /\ \A b \in Build : step[b] = "save" => copy[b].slug # None /\ copy[b].published

RequestsKnow ==
  /\ request \in [Request -> {"new", "save", "over"}]
  /\ edited \in [Request -> Problem \cup {None}] /\ edit \in [Request -> Row]
  /\ \A r \in Request : request[r] = "save" => edited[r] # None /\ edit[r].slug # None

RestTyped ==
  /\ used \in SUBSET Problem /\ scaffolds \in SUBSET Link
  /\ local \in [Slug -> Image] /\ tagged \in [Slug -> Image] /\ ecr \in [Slug -> Image]
  /\ registry \in BOOLEAN
  /\ listener \in [step : {"idle", "insert", "submit"}, slug : Slug \cup {None},
                   link : Link \cup {None}, problem : Problem \cup {None}, buildable : BOOLEAN]
  /\ listener.step # "idle" => listener.slug # None
  /\ byAdmin \in SUBSET Problem /\ touched \in SUBSET Problem /\ hurt \in SUBSET Problem
  /\ shared \in SUBSET Slug

LEMMA SoundParts ==
  Sound <=> RowsNamed /\ BuildsKnow /\ RequestsKnow /\ RestTyped
<1>1. ASSUME TypeOK
      PROVE  (\A p \in Stored : rows[p].slug # None /\ Holder(rows[p].slug) = {p})
               <=> (\A p \in Problem : rows[p] # Absent =>
                      /\ rows[p].slug # None
                      /\ \A q \in Problem : rows[q].slug = rows[p].slug => q = p)
  BY DEF Stored, Holder
<1>2. RowsNamed /\ BuildsKnow /\ RequestsKnow /\ RestTyped => TypeOK
  BY DEF RowsNamed, SlugsNameRows, BuildsKnow, RequestsKnow, RestTyped, TypeOK
<1> QED BY <1>1, <1>2 DEF Sound, TypeOK, Named, RowsNamed, SlugsNameRows, BuildsKnow, RequestsKnow, RestTyped

LEMMA SoundPartsNext ==
  SlugsNameRows(rows') /\ BuildsKnow' /\ RequestsKnow' /\ RestTyped' => Sound'
<1>1. RowsNamed' /\ BuildsKnow' /\ RequestsKnow' /\ RestTyped' => Sound'
  BY SoundParts, PTL
<1> QED BY <1>1 DEF RowsNamed

LEMMA RowFacts ==
  /\ Absent \in Row /\ Absent.slug = None /\ ~Absent.published
  /\ None \notin Problem /\ None \notin Slug /\ None \notin Link
BY NoneAssumption DEF Absent, Row

LEMMA RemovalNames ==
  ASSUME NEW table, SlugsNameRows(table), NEW p \in Problem
  PROVE  SlugsNameRows([table EXCEPT ![p] = Absent])
BY RowFacts DEF SlugsNameRows

LEMMA WriteNames ==
  ASSUME SlugsNameRows(rows), NEW p \in Problem, NEW r \in Row, r.slug # None, Write(p, r)
  PROVE  SlugsNameRows(rows')
<1>1. rows' = [rows EXCEPT ![p] = r] /\ rows' \in [Problem -> Row]
  BY DEF Write, SlugsNameRows
<1>2. \A q \in Problem : rows[q].slug = r.slug => q = p
  BY DEF Write, Holder
<1> QED BY <1>1, <1>2 DEF SlugsNameRows

LEMMA SoundInit == Init => Sound
<1> SUFFICES ASSUME Init PROVE Sound
  OBVIOUS
<1>1. SlugsNameRows(rows)
  BY RowFacts DEF Init, SlugsNameRows
<1>2. BuildsKnow
  BY RowFacts, AttemptsAssumption DEF Init, BuildsKnow, Running
<1>3. RequestsKnow
  BY RowFacts DEF Init, RequestsKnow
<1>4. RestTyped
  BY DEF Init, RestTyped, Idle, Image
<1> QED BY <1>1, <1>2, <1>3, <1>4, SoundParts DEF RowsNamed

(* What the calls of a build do to what the builds know.                   *)
LEMMA GotoKnows ==
  ASSUME BuildsKnow, NEW b \in Build, Running(b),
         NEW s \in (Working \ {"save"}) \cup (Recovery \ {"delete"}), Goto(b, s),
         UNCHANGED <<slug, link>>,
         \/ UNCHANGED attempt
         \/ attempt[b] < Attempts /\ attempt' = [attempt EXCEPT ![b] = @ + 1],
         UNCHANGED <<found, copy>> \/ Forget(b)
  PROVE  BuildsKnow'
<1>1. attempt' \in [Build -> 1..Attempts]
  BY AttemptsAssumption DEF BuildsKnow
<1>2. found' \in [Build -> Problem \cup {None}] /\ copy' \in [Build -> Row]
  BY RowFacts DEF BuildsKnow, Forget
<1>3. \A c \in Build : c # b => found'[c] = found[c] /\ copy'[c] = copy[c] /\ step'[c] = step[c]
  BY DEF BuildsKnow, Forget, Goto
<1>4. step'[b] = s /\ step' \in [Build -> Working \cup Recovery \cup {"new", "over"}]
  BY DEF BuildsKnow, Goto
<1> QED BY <1>1, <1>2, <1>3, <1>4 DEF BuildsKnow, Running, Working, Recovery

LEMMA FinishKnows ==
  ASSUME BuildsKnow, NEW b \in Build, Finish(b)
  PROVE  BuildsKnow'
BY RowFacts, AttemptsAssumption DEF BuildsKnow, Finish, Forget, Goto, Running

LEMMA BeginKnows ==
  ASSUME BuildsKnow, RestTyped, NEW b \in Build, NEW s \in Slug, NEW l \in Link \cup {None}, Begin(b, s, l)
  PROVE  BuildsKnow' /\ shared' \in SUBSET Slug /\ UNCHANGED <<byAdmin, touched, hurt>>
BY RowFacts DEF BuildsKnow, RestTyped, Begin, Goto, Running, Working

(* The actions that leave every row, request and listener alone.           *)
LEMMA SameRest ==
  ASSUME Sound, UNCHANGED <<rows, requestVars>>, BuildsKnow', RestTyped'
  PROVE  Sound'
<1>1. SlugsNameRows(rows') /\ RequestsKnow'
  BY SoundParts DEF RowsNamed, SlugsNameRows, RequestsKnow, requestVars
<1> QED BY <1>1, SoundPartsNext

LEMMA BuildingSound ==
  ASSUME Sound, NEW b \in Build,
         Extract(b) \/ DockerBuild(b) \/ HealthCheck(b) \/ Tag(b) \/ Push(b)
  PROVE  Sound'
<1> USE SoundParts
<1>1. step[b] \in Working \ {"save"} /\ Running(b) /\ slug[b] \in Slug
  BY DEF Extract, DockerBuild, HealthCheck, Tag, Push, Working, Running, BuildsKnow
<1>2. \E s \in {"build", "check", "tag", "find", "push"} : Goto(b, s)
  BY DEF Extract, DockerBuild, HealthCheck, Tag, Push
<1>3. UNCHANGED <<rows, requestVars>> /\ UNCHANGED <<slug, link, attempt, found, copy>>
  BY DEF Extract, DockerBuild, HealthCheck, Tag, Push, tableVars
<1>4. BuildsKnow'
  BY <1>1, <1>2, <1>3, GotoKnows DEF Working
<1>5. local' \in [Slug -> Image] /\ tagged' \in [Slug -> Image] /\ ecr' \in [Slug -> Image]
  BY <1>1 DEF Extract, DockerBuild, HealthCheck, Tag, Push, imageVars, RestTyped, Image
<1>6. RestTyped'
  BY <1>5 DEF Extract, DockerBuild, HealthCheck, Tag, Push, tableVars, pastVars, RestTyped
<1> QED BY <1>3, <1>4, <1>6, SameRest

LEMMA FindBySlugSound ==
  ASSUME Sound, NEW b \in Build, FindBySlug(b)
  PROVE  Sound'
<1> USE SoundParts
<1>1. UNCHANGED <<rows, requestVars>> /\ RestTyped'
  BY DEF FindBySlug, tableVars, imageVars, pastVars, RestTyped
<1>2. CASE Finish(b)
  BY <1>1, <1>2, FinishKnows, SameRest
<1>3. CASE ~Finish(b)
  <2>1. PICK p \in Holder(slug[b]) :
          /\ found' = [found EXCEPT ![b] = p]
          /\ copy' = [copy EXCEPT ![b] =
                        [rows[p] EXCEPT !.published = TRUE, !.image = IF registry THEN slug[b] ELSE @]]
          /\ Goto(b, "save") /\ UNCHANGED <<slug, link, attempt>>
    BY <1>3 DEF FindBySlug
  <2>2. p \in Problem /\ rows[p].slug = slug[b] /\ rows[p] \in Row /\ slug[b] # None /\ slug[b] \in Slug
    BY RowFacts DEF FindBySlug, Holder, BuildsKnow, Running, RowsNamed, SlugsNameRows
  <2> DEFINE new == [rows[p] EXCEPT !.published = TRUE, !.image = IF registry THEN slug[b] ELSE @]
  <2>3. new \in Row /\ new.slug # None /\ new.published
    BY <2>2 DEF Row
  <2>4. found' = [found EXCEPT ![b] = p] /\ copy' = [copy EXCEPT ![b] = new]
    BY <2>1
  <2> HIDE DEF new
  <2>5. BuildsKnow'
    BY <2>1, <2>2, <2>3, <2>4, RowFacts DEF BuildsKnow, Goto, Running, Working, Recovery
  <2> QED BY <1>1, <2>5, SameRest
<1> QED BY <1>2, <1>3

LEMMA SavePublishedSound ==
  ASSUME Sound, NEW b \in Build, SavePublished(b)
  PROVE  Sound'
<1> USE SoundParts
<1>1. found[b] \in Problem /\ copy[b] \in Row /\ copy[b].slug # None
  BY DEF SavePublished, BuildsKnow
<1>2. SlugsNameRows(rows')
  BY <1>1, WriteNames DEF SavePublished, RowsNamed
<1>3. BuildsKnow'
  BY FinishKnows DEF SavePublished
<1>4. RequestsKnow' /\ RestTyped'
  BY DEF SavePublished, RequestsKnow, RestTyped, imageVars, requestVars, pastVars
<1> QED BY <1>2, <1>3, <1>4, SoundPartsNext

LEMMA BuildThrowsSound ==
  ASSUME Sound, NEW b \in Build, BuildThrows(b)
  PROVE  Sound'
<1> USE SoundParts
<1>1. step[b] = "save" => found[b] \in Problem /\ copy[b] \in Row /\ copy[b].slug # None
  BY DEF BuildsKnow
<1>2. SlugsNameRows(rows')
  BY <1>1, WriteNames DEF BuildThrows, RowsNamed
<1>3. BuildsKnow'
  BY GotoKnows DEF BuildThrows, Retry, Running, Working, Recovery
<1>4. RequestsKnow' /\ RestTyped'
  BY DEF BuildThrows, RequestsKnow, RestTyped, imageVars, requestVars, pastVars
<1> QED BY <1>2, <1>3, <1>4, SoundPartsNext

LEMMA RecoverySound ==
  ASSUME Sound, NEW b \in Build,
         RecoverFinds(b) \/ RecoverDeletes(b) \/ RecoverThrows(b) \/ DeleteFromS3(b)
  PROVE  Sound'
<1> USE SoundParts
<1>1. CASE RecoverFinds(b)
  <2>1. BuildsKnow'
    <3>1. CASE Goto(b, "deleteFromS3") /\ UNCHANGED found
      BY <1>1, <3>1, GotoKnows DEF RecoverFinds, Running, Recovery
    <3>2. CASE \E p \in Holder(slug[b]) : Goto(b, "delete") /\ found' = [found EXCEPT ![b] = p]
      BY <1>1, <3>2, RowFacts DEF RecoverFinds, Holder, BuildsKnow, Goto, Running, Working, Recovery
    <3> QED BY <1>1, <3>1, <3>2 DEF RecoverFinds
  <2>2. RestTyped' /\ UNCHANGED <<rows, requestVars>>
    BY <1>1 DEF RecoverFinds, RestTyped, tableVars, imageVars, pastVars
  <2> QED BY <2>1, <2>2, SameRest
<1>2. CASE RecoverDeletes(b)
  <2>1. found[b] \in Problem
    BY <1>2 DEF RecoverDeletes, BuildsKnow
  <2>2. SlugsNameRows(rows')
    BY <1>2, <2>1, RemovalNames DEF RecoverDeletes, RowsNamed
  <2>3. BuildsKnow'
    BY <1>2, GotoKnows DEF RecoverDeletes, Running, Recovery
  <2>4. RequestsKnow' /\ RestTyped'
    BY <1>2 DEF RecoverDeletes, RequestsKnow, RestTyped, imageVars, requestVars, pastVars
  <2> QED BY <2>2, <2>3, <2>4, SoundPartsNext
<1>3. CASE RecoverThrows(b)
  <2>1. hurt' \in SUBSET Problem
    BY <1>3 DEF RecoverThrows, RestTyped, BuildsKnow, Holder
  <2>2. BuildsKnow'
    BY <1>3, FinishKnows DEF RecoverThrows
  <2>3. RestTyped' /\ UNCHANGED <<rows, requestVars>>
    BY <1>3, <2>1 DEF RecoverThrows, RestTyped, tableVars, imageVars
  <2> QED BY <2>2, <2>3, SameRest
<1>4. CASE DeleteFromS3(b)
  <2>1. BuildsKnow'
    BY <1>4, FinishKnows DEF DeleteFromS3
  <2>2. RestTyped' /\ UNCHANGED <<rows, requestVars>>
    BY <1>4 DEF DeleteFromS3, RestTyped, tableVars, imageVars, pastVars
  <2> QED BY <2>1, <2>2, SameRest
<1> QED BY <1>1, <1>2, <1>3, <1>4

LEMMA AddSound ==
  ASSUME Sound, NEW p \in Problem, NEW s \in Slug, NEW l \in Link \cup {None}, NEW b \in BOOLEAN,
         Add(p, s, l, b)
  PROVE  SlugsNameRows(rows') /\ used' \in SUBSET Problem
<1> DEFINE new == [slug |-> s, link |-> l, buildable |-> b, image |-> None, published |-> FALSE]
<1>1. new \in Row /\ new.slug # None /\ Write(p, new)
  BY RowFacts DEF Add, Row
<1>2. SlugsNameRows(rows)
  BY SoundParts DEF RowsNamed
<1> HIDE DEF new
<1>3. SlugsNameRows(rows')
  BY <1>1, <1>2, WriteNames
<1> QED BY <1>3, SoundParts DEF Add, RestTyped

LEMMA ListenerSound ==
  ASSUME Sound, Listener
  PROVE  Sound'
<1> USE SoundParts
<1>1. ASSUME NEW s \in Slug, NEW l \in Link, NEW b \in BOOLEAN, ChooseSlug(s, l, b)
      PROVE  Sound'
  <2>1. BuildsKnow' /\ RestTyped' /\ UNCHANGED <<rows, requestVars>>
    BY <1>1, RowFacts DEF ChooseSlug, BuildsKnow, Running, RestTyped, tableVars, imageVars, buildVars, pastVars
  <2> QED BY <2>1, SameRest
<1>2. ASSUME NEW p \in Problem, InsertProblem(p)
      PROVE  Sound'
  <2>1. listener.slug \in Slug /\ listener.link \in Link \cup {None} /\ listener.buildable \in BOOLEAN
    BY <1>2 DEF InsertProblem, RestTyped
  <2>2. SlugsNameRows(rows') /\ used' \in SUBSET Problem
    BY <1>2, <2>1, AddSound DEF InsertProblem
  <2>3. BuildsKnow' /\ RequestsKnow'
    BY <1>2 DEF InsertProblem, BuildsKnow, Running, RequestsKnow, buildVars, requestVars
  <2>4. RestTyped'
    BY <1>2, <2>1, <2>2, RowFacts DEF InsertProblem, RestTyped, imageVars, pastVars
  <2> QED BY <2>2, <2>3, <2>4, SoundPartsNext
<1>3. ASSUME InsertFails
      PROVE  Sound'
  <2>1. BuildsKnow' /\ RestTyped' /\ UNCHANGED <<rows, requestVars>>
    BY <1>3 DEF InsertFails, Idle, BuildsKnow, Running, RestTyped, tableVars, imageVars, buildVars, pastVars
  <2> QED BY <2>1, SameRest
<1>4. ASSUME NEW b \in Build, SubmitBuild(b)
      PROVE  Sound'
  <2>1. listener.slug \in Slug /\ listener.link \in Link \cup {None}
    BY <1>4 DEF SubmitBuild, RestTyped
  <2>2. BuildsKnow' /\ shared' \in SUBSET Slug /\ UNCHANGED <<byAdmin, touched, hurt>>
    <3>1. CASE listener.buildable
      BY <1>4, <2>1, <3>1, BeginKnows DEF SubmitBuild
    <3>2. CASE ~listener.buildable
      BY <1>4, <3>2 DEF SubmitBuild, buildVars, pastVars, BuildsKnow, Running, RestTyped
    <3> QED BY <3>1, <3>2
  <2>3. RestTyped' /\ UNCHANGED <<rows, requestVars>>
    BY <1>4, <2>2 DEF SubmitBuild, Idle, RestTyped, tableVars, imageVars
  <2> QED BY <2>2, <2>3, SameRest
<1> QED BY <1>1, <1>2, <1>3, <1>4 DEF Listener

LEMMA RespondKnows ==
  ASSUME Sound, NEW r \in Request, Respond(r)
  PROVE  /\ RequestsKnow' /\ edited[r] \in Problem /\ edit[r] \in Row /\ edit[r].slug # None
BY RowFacts, SoundParts DEF Respond, RequestsKnow

LEMMA ReadKnows ==
  ASSUME Sound, NEW r \in Request, NEW p \in Problem, NEW new \in Row, new.slug # None,
         ReadToEdit(r, p, new)
  PROVE  RequestsKnow'
BY RowFacts, SoundParts DEF ReadToEdit, RequestsKnow

LEMMA AdministrationSound ==
  ASSUME Sound, Administration
  PROVE  Sound'
<1> USE SoundParts
<1>1. ASSUME NEW p \in Problem, NEW s \in Slug, NEW l \in Link, CreateProblem(p, s, l)
      PROVE  Sound'
  <2>1. SlugsNameRows(rows') /\ used' \in SUBSET Problem
    BY <1>1, AddSound DEF CreateProblem
  <2>2. BuildsKnow' /\ RequestsKnow' /\ RestTyped'
    BY <1>1, <2>1 DEF CreateProblem, BuildsKnow, Running, RequestsKnow, RestTyped,
                      imageVars, buildVars, requestVars, pastVars
  <2> QED BY <2>1, <2>2, SoundPartsNext
<1>2. ASSUME NEW p \in Problem, DeleteProblem(p)
      PROVE  Sound'
  <2>1. SlugsNameRows(rows')
    BY <1>2, RemovalNames DEF DeleteProblem, RowsNamed
  <2>2. BuildsKnow' /\ RequestsKnow' /\ RestTyped'
    BY <1>2 DEF DeleteProblem, BuildsKnow, Running, RequestsKnow, RestTyped,
                imageVars, buildVars, requestVars, pastVars
  <2> QED BY <2>1, <2>2, SoundPartsNext
<1>3. ASSUME NEW p \in Problem, NEW b \in Build, BuildImage(p, b)
      PROVE  Sound'
  <2>1. rows[p].slug \in Slug /\ rows[p].link \in Link \cup {None}
    BY <1>3 DEF BuildImage, Stored, RowsNamed, SlugsNameRows, Row
  <2>2. BuildsKnow' /\ shared' \in SUBSET Slug /\ UNCHANGED <<byAdmin, touched, hurt>>
    BY <1>3, <2>1, BeginKnows DEF BuildImage
  <2>3. RestTyped' /\ UNCHANGED <<rows, requestVars>>
    BY <1>3, <2>2 DEF BuildImage, RestTyped, tableVars, imageVars
  <2> QED BY <2>2, <2>3, SameRest
<1>4. ASSUME NEW r \in Request, SaveEdit(r)
      PROVE  Sound'
  <2>1. RequestsKnow' /\ edited[r] \in Problem /\ edit[r] \in Row /\ edit[r].slug # None
    BY <1>4, RespondKnows DEF SaveEdit
  <2>2. SlugsNameRows(rows')
    BY <1>4, <2>1, WriteNames DEF SaveEdit, RowsNamed
  <2>3. BuildsKnow' /\ RestTyped'
    BY <1>4, <2>1 DEF SaveEdit, BuildsKnow, Running, RestTyped, imageVars, buildVars
  <2> QED BY <2>1, <2>2, <2>3, SoundPartsNext
<1>5. ASSUME NEW r \in Request, EditFails(r)
      PROVE  Sound'
  <2>1. RequestsKnow' /\ rows' = rows
    BY <1>5, RespondKnows DEF EditFails, tableVars
  <2>2. BuildsKnow' /\ RestTyped'
    BY <1>5 DEF EditFails, BuildsKnow, Running, RestTyped, tableVars, imageVars, buildVars, pastVars
  <2> QED BY <2>1, <2>2, SoundPartsNext DEF RowsNamed
<1>6. ASSUME NEW r \in Request, NEW p \in Problem, UpdateProblem(r, p)
      PROVE  Sound'
  <2>1. PICK s \in Slug, l \in Link : ReadToEdit(r, p, [rows[p] EXCEPT !.slug = s, !.link = l])
    BY <1>6 DEF UpdateProblem
  <2> DEFINE new == [rows[p] EXCEPT !.slug = s, !.link = l]
  <2>2. new \in Row /\ new.slug # None /\ ReadToEdit(r, p, new)
    BY <2>1, RowFacts DEF RowsNamed, SlugsNameRows, Row
  <2> HIDE DEF new
  <2>3. RequestsKnow' /\ rows' = rows
    BY <1>6, <2>2, ReadKnows DEF UpdateProblem, tableVars
  <2>4. BuildsKnow' /\ RestTyped'
    BY <1>6 DEF UpdateProblem, BuildsKnow, Running, RestTyped, tableVars, imageVars, buildVars, pastVars
  <2> QED BY <2>3, <2>4, SoundPartsNext DEF RowsNamed
<1>7. ASSUME NEW r \in Request, NEW p \in Problem, NEW published \in BOOLEAN, SetPublished(r, p, published)
      PROVE  Sound'
  <2> DEFINE new == [rows[p] EXCEPT !.published = published]
  <2>1. new \in Row /\ new.slug # None /\ ReadToEdit(r, p, new)
    BY <1>7 DEF SetPublished, ReadToEdit, Stored, RowsNamed, SlugsNameRows, Row
  <2> HIDE DEF new
  <2>2. RequestsKnow' /\ rows' = rows
    BY <1>7, <2>1, ReadKnows DEF SetPublished, tableVars
  <2>3. BuildsKnow' /\ RestTyped'
    BY <1>7 DEF SetPublished, BuildsKnow, Running, RestTyped, tableVars, imageVars, buildVars
  <2> QED BY <2>2, <2>3, SoundPartsNext DEF RowsNamed
<1> QED BY <1>1, <1>2, <1>3, <1>4, <1>5, <1>6, <1>7 DEF Administration

LEMMA CrashSound ==
  ASSUME Sound, Crash
  PROVE  Sound'
<1> USE SoundParts
<1>1. SlugsNameRows(rows')
  BY DEF Crash, tableVars, RowsNamed
<1>2. BuildsKnow'
  BY RowFacts, AttemptsAssumption DEF Crash, BuildsKnow, Running, Working, Recovery
<1>3. RequestsKnow'
  BY RowFacts DEF Crash, RequestsKnow
<1>4. RestTyped'
  BY DEF Crash, RestTyped, Idle, Stored, tableVars, imageVars
<1> QED BY <1>1, <1>2, <1>3, <1>4, SoundPartsNext

LEMMA SoundNext == Sound /\ [Next]_vars => Sound'
<1> SUFFICES ASSUME Sound, [Next]_vars PROVE Sound'
  OBVIOUS
<1>1. ASSUME NEW b \in Build, BuildStep(b)
      PROVE  Sound'
  BY <1>1, BuildingSound, FindBySlugSound, SavePublishedSound, BuildThrowsSound, RecoverySound DEF BuildStep
<1>2. ASSUME NEW l \in Link, Upload(l)
      PROVE  Sound'
  <2>1. BuildsKnow' /\ RestTyped' /\ UNCHANGED <<rows, requestVars>>
    BY <1>2, SoundParts DEF Upload, BuildsKnow, Running, RestTyped, tableVars, imageVars, buildVars, pastVars
  <2> QED BY <2>1, SameRest
<1>3. CASE UNCHANGED vars
  <2>1. BuildsKnow' /\ RestTyped' /\ UNCHANGED <<rows, requestVars>>
    BY <1>3, SoundParts DEF vars, BuildsKnow, Running, RestTyped, tableVars, imageVars, buildVars, pastVars
  <2> QED BY <2>1, SameRest
<1> QED BY <1>1, <1>2, <1>3, ListenerSound, AdministrationSound, CrashSound DEF Next

(* Every state of the table, the builds and the requests has its type, for *)
(* any number of each (TypeOK).                                            *)
THEOREM TypesHold == Spec => []TypeOK
<1>1. Spec => []Sound
  BY SoundInit, SoundNext, PTL DEF Spec
<1> QED BY <1>1, PTL DEF Sound

-----------------------------------------------------------------------------
(* What is published has been pushed.                                      *)

Ready(b) ==
  /\ step[b] = "save" => Pushed(found[b], copy[b])
  /\ step[b] \in {"check", "tag"} => local[slug[b]] # "none"
  /\ step[b] = "push" => tagged[slug[b]] # "none"
  /\ step[b] = "find" /\ registry => ecr[slug[b]] # "none"

BuildsReady == \A b \in Build : Ready(b)
EditsReady  == \A r \in Request : request[r] = "save" => Pushed(edited[r], edit[r])

PushInv == PublishedIsPushed /\ BuildsReady /\ EditsReady

(* No image disappears, and what an admin published stays so marked.       *)
ImagesStay ==
  /\ registry' = registry /\ byAdmin \subseteq byAdmin'
  /\ \A s \in Slug : /\ local[s] # "none" => local'[s] # "none"
                     /\ tagged[s] # "none" => tagged'[s] # "none"
                     /\ ecr[s] # "none" => ecr'[s] # "none"

(* A row changes to nothing, to a copy in memory or to a new row.          *)
RowSources ==
  \A p \in Problem :
    \/ rows'[p] = rows[p]
    \/ ~rows'[p].published
    \/ \E b \in Build : step[b] = "save" /\ found[b] = p /\ rows'[p] = copy[b]
    \/ \E r \in Request : request[r] = "save" /\ edited[r] = p /\ rows'[p] = edit[r]

SameBuild(c) == step'[c] = step[c] /\ slug'[c] = slug[c] /\ found'[c] = found[c] /\ copy'[c] = copy[c]

LEMMA PushedStays ==
  ASSUME ImagesStay, NEW p \in Problem, NEW r \in Row, Pushed(p, r)
  PROVE  Pushed(p, r)'
BY RowFacts DEF ImagesStay, Pushed, Row

LEMMA RowsStayPushed ==
  ASSUME Sound, Sound', PushInv, ImagesStay, RowSources
  PROVE  PublishedIsPushed'
<1> SUFFICES ASSUME NEW p \in Problem PROVE Pushed(p, rows[p])'
  BY DEF PublishedIsPushed
<1>1. rows \in [Problem -> Row] /\ copy \in [Build -> Row] /\ edit \in [Request -> Row]
  BY DEF Sound, TypeOK
<1>2. CASE rows'[p] = rows[p]
  <2>1. Pushed(p, rows[p])
    BY DEF PushInv, PublishedIsPushed
  <2> QED BY <1>1, <1>2, <2>1, PushedStays DEF Pushed
<1>3. CASE ~rows'[p].published
  BY <1>3 DEF Pushed
<1>4. ASSUME NEW b \in Build, step[b] = "save", found[b] = p, rows'[p] = copy[b]
      PROVE  Pushed(p, rows[p])'
  <2>1. Pushed(p, copy[b])
    BY <1>4 DEF PushInv, BuildsReady, Ready
  <2> QED BY <1>1, <1>4, <2>1, PushedStays DEF Pushed
<1>5. ASSUME NEW r \in Request, request[r] = "save", edited[r] = p, rows'[p] = edit[r]
      PROVE  Pushed(p, rows[p])'
  <2>1. Pushed(p, edit[r])
    BY <1>5 DEF PushInv, EditsReady
  <2> QED BY <1>1, <1>5, <2>1, PushedStays DEF Pushed
<1> QED BY <1>2, <1>3, <1>4, <1>5 DEF RowSources

LEMMA BuildStaysReady ==
  ASSUME Sound, PushInv, ImagesStay, NEW b \in Build, SameBuild(b)
  PROVE  Ready(b)'
<1>1. step[b] \in {"save", "check", "tag", "push", "find"} => slug[b] \in Slug
  BY SoundParts DEF BuildsKnow, Running
<1>2. step[b] = "save" => Pushed(found[b], copy[b])'
  <2>1. step[b] = "save" => found[b] \in Problem /\ copy[b] \in Row
    BY SoundParts DEF BuildsKnow
  <2>2. step[b] = "save" => Pushed(found[b], copy[b])
    BY DEF PushInv, BuildsReady, Ready
  <2> QED BY <2>1, <2>2, PushedStays DEF SameBuild, Pushed
<1> QED BY <1>1, <1>2 DEF PushInv, BuildsReady, Ready, SameBuild, ImagesStay

LEMMA EditsStayReady ==
  ASSUME Sound, PushInv, ImagesStay,
         \A r \in Request : \/ request'[r] # "save"
                            \/ request'[r] = request[r] /\ edited'[r] = edited[r] /\ edit'[r] = edit[r]
  PROVE  EditsReady'
<1> SUFFICES ASSUME NEW r \in Request, request'[r] = "save" PROVE Pushed(edited[r], edit[r])'
  BY DEF EditsReady
<1>1. request[r] = "save" /\ edited'[r] = edited[r] /\ edit'[r] = edit[r]
  OBVIOUS
<1>2. edited[r] \in Problem /\ edit[r] \in Row
  BY <1>1, SoundParts DEF RequestsKnow
<1>3. Pushed(edited[r], edit[r])
  BY <1>1 DEF PushInv, EditsReady
<1> QED BY <1>1, <1>2, <1>3, PushedStays DEF Pushed

LEMMA OthersSame ==
  ASSUME Sound, NEW b \in Build, NEW s,
         \/ Goto(b, s) /\ UNCHANGED <<slug, found, copy>>
         \/ Goto(b, s) /\ Forget(b) /\ UNCHANGED slug
         \/ Finish(b)
  PROVE  \A c \in Build \ {b} : SameBuild(c)
BY SoundParts DEF BuildsKnow, Goto, Forget, Finish, SameBuild

(* One build moves and the table does not.                                 *)
LEMMA MovePushes ==
  ASSUME Sound, Sound', PushInv, ImagesStay, UNCHANGED <<rows, requestVars>>,
         NEW b \in Build, \A c \in Build \ {b} : SameBuild(c), Ready(b)'
  PROVE  PushInv'
<1>1. BuildsReady'
  BY BuildStaysReady DEF BuildsReady
<1>2. EditsReady'
  BY EditsStayReady DEF requestVars
<1> QED BY <1>1, <1>2, RowsStayPushed DEF PushInv, RowSources

LEMMA BuildingPushes ==
  ASSUME Sound, Sound', PushInv, NEW b \in Build,
         Extract(b) \/ DockerBuild(b) \/ HealthCheck(b) \/ Tag(b) \/ Push(b)
  PROVE  PushInv'
<1>1. slug[b] \in Slug /\ Ready(b)
  BY SoundParts DEF Extract, DockerBuild, HealthCheck, Tag, Push, Running, BuildsKnow, PushInv, BuildsReady
<1>2. ImagesStay
  BY <1>1, SoundParts DEF Extract, DockerBuild, HealthCheck, Tag, Push, Ready, ImagesStay, RestTyped,
                          imageVars, pastVars
<1>3. \A c \in Build \ {b} : SameBuild(c)
  <2>1. \E s : Goto(b, s) /\ UNCHANGED <<slug, found, copy>>
    BY DEF Extract, DockerBuild, HealthCheck, Tag, Push
  <2> QED BY <2>1, OthersSame
<1>4. Ready(b)'
  BY <1>1, SoundParts DEF Extract, DockerBuild, HealthCheck, Tag, Push, Goto, Ready, RestTyped, BuildsKnow,
                          imageVars
<1>5. UNCHANGED <<rows, requestVars>>
  BY DEF Extract, DockerBuild, HealthCheck, Tag, Push, tableVars
<1> QED BY <1>2, <1>3, <1>4, <1>5, MovePushes

LEMMA FindBySlugPushes ==
  ASSUME Sound, Sound', PushInv, NEW b \in Build, FindBySlug(b)
  PROVE  PushInv'
<1>1. UNCHANGED <<rows, requestVars>> /\ ImagesStay
  BY DEF FindBySlug, tableVars, imageVars, pastVars, ImagesStay
<1>2. CASE Finish(b)
  <2>1. Ready(b)'
    BY <1>2, SoundParts DEF Finish, Goto, Ready, BuildsKnow
  <2> QED BY <1>1, <1>2, <2>1, OthersSame, MovePushes
<1>3. CASE ~Finish(b)
  <2>1. PICK p \in Holder(slug[b]) :
          /\ found' = [found EXCEPT ![b] = p]
          /\ copy' = [copy EXCEPT ![b] =
                        [rows[p] EXCEPT !.published = TRUE, !.image = IF registry THEN slug[b] ELSE @]]
          /\ Goto(b, "save") /\ UNCHANGED <<slug, link, attempt>>
    BY <1>3 DEF FindBySlug
  <2>2. p \in Problem /\ rows[p] \in Row /\ slug[b] \in Slug
    BY SoundParts DEF FindBySlug, Holder, BuildsKnow, Running, RowsNamed, SlugsNameRows
  <2> DEFINE new == [rows[p] EXCEPT !.published = TRUE, !.image = IF registry THEN slug[b] ELSE @]
  <2>3. registry => new.image = slug[b] /\ slug[b] # None /\ ecr[slug[b]] # "none"
    BY <2>2, RowFacts DEF Row, PushInv, BuildsReady, Ready, FindBySlug
  <2>4. found' = [found EXCEPT ![b] = p] /\ copy' = [copy EXCEPT ![b] = new]
    BY <2>1
  <2> HIDE DEF new
  <2>5. step'[b] = "save" /\ found'[b] = p /\ copy'[b] = new
    BY <2>1, <2>4, SoundParts DEF Goto, BuildsKnow
  <2>6. Ready(b)'
    BY <1>1, <2>3, <2>5 DEF Ready, Pushed, FindBySlug, imageVars
  <2>7. \A c \in Build \ {b} : SameBuild(c)
    BY <2>1, <2>4, SoundParts DEF SameBuild, Goto, BuildsKnow
  <2> QED BY <1>1, <2>6, <2>7, MovePushes
<1> QED BY <1>2, <1>3

(* A build saves, throws or is rolled back.                                *)
LEMMA SavingPushes ==
  ASSUME Sound, Sound', PushInv, NEW b \in Build,
         \/ SavePublished(b) \/ BuildThrows(b)
         \/ RecoverFinds(b) \/ RecoverDeletes(b) \/ RecoverThrows(b) \/ DeleteFromS3(b)
  PROVE  PushInv'
<1>1. ImagesStay /\ UNCHANGED requestVars
  BY DEF SavePublished, BuildThrows, RecoverFinds, RecoverDeletes, RecoverThrows, DeleteFromS3,
         imageVars, pastVars, ImagesStay
<1>2. RowSources
  <2>1. CASE UNCHANGED rows
    BY <2>1 DEF RowSources
  <2>2. CASE step[b] = "save" /\ Write(found[b], copy[b])
    BY <2>2, SoundParts DEF RowSources, Write, RowsNamed, SlugsNameRows
  <2>3. CASE rows' = [rows EXCEPT ![found[b]] = Absent]
    BY <2>3, RowFacts, SoundParts DEF RowSources, RowsNamed, SlugsNameRows
  <2> QED BY <2>1, <2>2, <2>3 DEF SavePublished, BuildThrows, RecoverFinds, RecoverDeletes, RecoverThrows,
                                  DeleteFromS3, tableVars
<1>3. (\A c \in Build \ {b} : SameBuild(c)) /\ step'[b] \in {"over", "extract", "rollback", "delete", "deleteFromS3"}
  <2>1. CASE RecoverFinds(b)
    BY <2>1, SoundParts DEF RecoverFinds, Goto, SameBuild, BuildsKnow
  <2>2. CASE BuildThrows(b)
    <3>1. \E s \in {"extract", "rollback"} : Goto(b, s) /\ Forget(b) /\ UNCHANGED slug
      BY <2>2 DEF BuildThrows, Retry
    <3> QED BY <3>1, OthersSame, SoundParts DEF Goto, BuildsKnow
  <2>3. CASE RecoverDeletes(b)
    <3>1. Goto(b, "deleteFromS3") /\ Forget(b) /\ UNCHANGED slug
      BY <2>3 DEF RecoverDeletes
    <3> QED BY <3>1, OthersSame, SoundParts DEF Goto, BuildsKnow
  <2>4. CASE Finish(b)
    BY <2>4, OthersSame, SoundParts DEF Finish, Goto, BuildsKnow
  <2> QED BY <2>1, <2>2, <2>3, <2>4 DEF SavePublished, RecoverThrows, DeleteFromS3
<1>4. BuildsReady'
  BY <1>1, <1>3, BuildStaysReady DEF BuildsReady, Ready
<1>5. EditsReady'
  BY <1>1, EditsStayReady DEF requestVars
<1> QED BY <1>1, <1>2, <1>4, <1>5, RowsStayPushed DEF PushInv

LEMMA BeginPushes ==
  ASSUME Sound, PushInv, ImagesStay, NEW b \in Build, NEW s, NEW l, Begin(b, s, l)
  PROVE  BuildsReady'
<1>1. \A c \in Build \ {b} : SameBuild(c)
  BY SoundParts DEF Begin, Goto, SameBuild, BuildsKnow
<1>2. Ready(b)'
  BY SoundParts DEF Begin, Goto, Ready, BuildsKnow
<1> QED BY <1>1, <1>2, BuildStaysReady DEF BuildsReady

LEMMA NewRowIsSource ==
  ASSUME Sound, NEW p \in Problem, NEW s, NEW l, NEW b, Add(p, s, l, b)
  PROVE  RowSources
BY SoundParts DEF Add, Write, RowSources, RowsNamed, SlugsNameRows

LEMMA ListenerPushes ==
  ASSUME Sound, Sound', PushInv, Listener
  PROVE  PushInv'
<1>1. ImagesStay /\ UNCHANGED requestVars
  BY DEF Listener, ChooseSlug, InsertProblem, InsertFails, SubmitBuild, Begin, imageVars, pastVars, ImagesStay
<1>2. RowSources
  <2>1. CASE UNCHANGED rows
    BY <2>1 DEF RowSources
  <2>2. CASE \E p \in Problem : InsertProblem(p)
    BY <2>2, NewRowIsSource DEF InsertProblem
  <2> QED BY <2>1, <2>2 DEF Listener, ChooseSlug, InsertFails, SubmitBuild, tableVars
<1>3. BuildsReady'
  <2>1. CASE UNCHANGED buildVars
    BY <1>1, <2>1, BuildStaysReady DEF buildVars, SameBuild, BuildsReady
  <2>2. ASSUME NEW b \in Build, Begin(b, listener.slug, listener.link) PROVE BuildsReady'
    BY <1>1, <2>2, BeginPushes
  <2> QED BY <2>1, <2>2 DEF Listener, ChooseSlug, InsertProblem, InsertFails, SubmitBuild
<1>4. EditsReady'
  BY <1>1, EditsStayReady DEF requestVars
<1> QED BY <1>1, <1>2, <1>3, <1>4, RowsStayPushed DEF PushInv

(* A request reads a row and keeps its image and whether it is published.  *)
LEMMA ReadPushes ==
  ASSUME Sound, PushInv, ImagesStay, NEW r \in Request, NEW p \in Problem, NEW new \in Row,
         ReadToEdit(r, p, new), new.image = rows[p].image,
         new.published => rows[p].published \/ p \in byAdmin'
  PROVE  EditsReady'
<1> SUFFICES ASSUME NEW q \in Request, request'[q] = "save" PROVE Pushed(edited[q], edit[q])'
  BY DEF EditsReady
<1>1. CASE q = r
  <2>1. edited'[q] = p /\ edit'[q] = new
    BY <1>1, SoundParts DEF ReadToEdit, RequestsKnow
  <2>2. Pushed(p, rows[p]) /\ rows[p] \in Row
    BY SoundParts DEF PushInv, PublishedIsPushed, RowsNamed, SlugsNameRows
  <2>3. new.published /\ p \notin byAdmin' /\ registry' => new.image # None /\ ecr'[new.image] # "none"
    BY <2>2, RowFacts DEF Pushed, ImagesStay, Row
  <2> QED BY <2>1, <2>3 DEF Pushed
<1>2. CASE q # r
  <2>1. request[q] = "save" /\ edited'[q] = edited[q] /\ edit'[q] = edit[q]
    BY <1>2, SoundParts DEF ReadToEdit, RequestsKnow
  <2>2. edited[q] \in Problem /\ edit[q] \in Row /\ Pushed(edited[q], edit[q])
    BY <2>1, SoundParts DEF RequestsKnow, PushInv, EditsReady
  <2> QED BY <2>1, <2>2, PushedStays DEF Pushed
<1> QED BY <1>1, <1>2

LEMMA AdministrationPushes ==
  ASSUME Sound, Sound', PushInv, Administration
  PROVE  PushInv'
<1>1. ImagesStay
  BY DEF Administration, CreateProblem, DeleteProblem, BuildImage, SaveEdit, EditFails, UpdateProblem,
         SetPublished, Begin, imageVars, pastVars, ImagesStay
<1>2. RowSources
  <2>1. CASE UNCHANGED rows
    BY <2>1 DEF RowSources
  <2>2. ASSUME NEW p \in Problem, NEW s \in Slug, NEW l \in Link, CreateProblem(p, s, l) PROVE RowSources
    BY <2>2, NewRowIsSource DEF CreateProblem
  <2>3. ASSUME NEW p \in Problem, DeleteProblem(p) PROVE RowSources
    BY <2>3, RowFacts, SoundParts DEF DeleteProblem, RowSources, RowsNamed, SlugsNameRows
  <2>4. ASSUME NEW r \in Request, SaveEdit(r) PROVE RowSources
    BY <2>4, SoundParts DEF SaveEdit, Respond, Write, RowSources, RowsNamed, SlugsNameRows
  <2> QED BY <2>1, <2>2, <2>3, <2>4 DEF Administration, BuildImage, EditFails, UpdateProblem, SetPublished,
                                        tableVars
<1>3. BuildsReady'
  <2>1. CASE UNCHANGED buildVars
    BY <1>1, <2>1, BuildStaysReady DEF buildVars, SameBuild, BuildsReady
  <2>2. ASSUME NEW p \in Problem, NEW b \in Build, BuildImage(p, b) PROVE BuildsReady'
    BY <1>1, <2>2, BeginPushes DEF BuildImage
  <2> QED BY <2>1, <2>2 DEF Administration, CreateProblem, DeleteProblem, SaveEdit, EditFails, UpdateProblem,
                            SetPublished
<1>4. EditsReady'
  <2>1. CASE UNCHANGED requestVars
    BY <1>1, <2>1, EditsStayReady DEF requestVars
  <2>2. ASSUME NEW r \in Request, Respond(r) PROVE EditsReady'
    <3>1. \A q \in Request \ {r} : request'[q] = request[q] /\ edited'[q] = edited[q] /\ edit'[q] = edit[q]
      BY <2>2, SoundParts DEF Respond, RequestsKnow
    <3>2. request'[r] # "save"
      BY <2>2, SoundParts DEF Respond, RequestsKnow
    <3> QED BY <1>1, <3>1, <3>2, EditsStayReady
  <2>3. ASSUME NEW r \in Request, NEW p \in Problem, UpdateProblem(r, p) PROVE EditsReady'
    <3>1. PICK s \in Slug, l \in Link : ReadToEdit(r, p, [rows[p] EXCEPT !.slug = s, !.link = l])
      BY <2>3 DEF UpdateProblem
    <3> DEFINE new == [rows[p] EXCEPT !.slug = s, !.link = l]
    <3>2. new \in Row /\ new.image = rows[p].image /\ new.published = rows[p].published /\ ReadToEdit(r, p, new)
      BY <3>1, SoundParts DEF RowsNamed, SlugsNameRows, Row
    <3> HIDE DEF new
    <3> QED BY <1>1, <3>2, ReadPushes
  <2>4. ASSUME NEW r \in Request, NEW p \in Problem, NEW published \in BOOLEAN, SetPublished(r, p, published)
        PROVE  EditsReady'
    <3> DEFINE new == [rows[p] EXCEPT !.published = published]
    <3>1. new \in Row /\ new.image = rows[p].image /\ new.published = published /\ ReadToEdit(r, p, new)
      BY <2>4, SoundParts DEF SetPublished, RowsNamed, SlugsNameRows, Row
    <3> HIDE DEF new
    <3>2. published => p \in byAdmin'
      BY <2>4 DEF SetPublished
    <3> QED BY <1>1, <3>1, <3>2, ReadPushes
  <2> QED BY <2>1, <2>2, <2>3, <2>4 DEF Administration, CreateProblem, DeleteProblem, BuildImage, SaveEdit,
                                        EditFails
<1> QED BY <1>2, <1>1, <1>3, <1>4, RowsStayPushed DEF PushInv

LEMMA RestPushes ==
  ASSUME Sound, Sound', PushInv, Crash \/ (\E l \in Link : Upload(l)) \/ UNCHANGED vars
  PROVE  PushInv'
<1>1. ImagesStay /\ UNCHANGED rows
  BY DEF Crash, Upload, vars, tableVars, imageVars, pastVars, ImagesStay
<1>2. BuildsReady'
  <2>1. CASE Crash
    <3>1. \A b \in Build : step'[b] \in {"new", "over"}
      BY <2>1, SoundParts DEF Crash, Running, BuildsKnow, Working, Recovery
    <3> QED BY <3>1 DEF BuildsReady, Ready
  <2>2. CASE UNCHANGED buildVars
    BY <1>1, <2>2, BuildStaysReady DEF buildVars, SameBuild, BuildsReady
  <2> QED BY <2>1, <2>2 DEF Upload, vars
<1>3. EditsReady'
  <2>1. CASE Crash
    <3>1. \A r \in Request : request'[r] # "save"
      BY <2>1, SoundParts DEF Crash, RequestsKnow
    <3> QED BY <3>1 DEF EditsReady
  <2>2. CASE UNCHANGED requestVars
    BY <1>1, <2>2, EditsStayReady DEF requestVars
  <2> QED BY <2>1, <2>2 DEF Upload, vars
<1> QED BY <1>1, <1>2, <1>3, RowsStayPushed DEF PushInv, RowSources

LEMMA PushInit == Init => PushInv
BY RowFacts DEF Init, PushInv, PublishedIsPushed, Pushed, BuildsReady, Ready, EditsReady, Absent

LEMMA PushNext == Sound /\ Sound' /\ PushInv /\ [Next]_vars => PushInv'
BY BuildingPushes, FindBySlugPushes, SavingPushes, ListenerPushes, AdministrationPushes, RestPushes
   DEF Next, BuildStep

(* What no admin published has an image, and it has been pushed, whatever  *)
(* copies of rows builds and requests save (PublishedIsPushed).            *)
THEOREM PublishedHasImage == Spec => []PublishedIsPushed
<1>1. Spec => []Sound
  BY SoundInit, SoundNext, PTL DEF Spec
<1>2. Spec => []PushInv
  BY <1>1, PushInit, PushNext, PTL DEF Spec
<1> QED BY <1>2, PTL DEF PushInv

-----------------------------------------------------------------------------
(* Somebody is at work on a problem that is not published.                 *)

MindInv == UnbuiltIsMinded /\ Expected

(* The rows that need nobody.                                              *)
Settled(p) == rows[p] = Absent \/ rows[p].published \/ ~rows[p].buildable \/ p \in touched \cup hurt

LEMMA MindInvIs ==
  ASSUME TypeOK
  PROVE  UnbuiltIsMinded <=> \A p \in Problem : \/ Settled(p)
                                                \/ listener.step = "submit" /\ listener.problem = p
                                                \/ \E b \in Build : Minds(b, p)
BY DEF UnbuiltIsMinded, Settled, Stored

LEMMA MindInvNext ==
  (TypeOK /\ \A p \in Problem : \/ Settled(p)
                                \/ listener.step = "submit" /\ listener.problem = p
                                \/ \E b \in Build : Minds(b, p))' => UnbuiltIsMinded'
<1>1. TypeOK /\ (\A p \in Problem : \/ Settled(p)
                                    \/ listener.step = "submit" /\ listener.problem = p
                                    \/ \E b \in Build : Minds(b, p)) => UnbuiltIsMinded
  BY MindInvIs
<1> QED BY <1>1, PTL

LEMMA SameMinds ==
  ASSUME NEW c \in Build, NEW p \in Problem, SameBuild(c), rows'[p] = rows[p], Minds(c, p)
  PROVE  Minds(c, p)'
BY DEF SameBuild, Minds

(* A row stays, is deleted, is published by a build or is an admin's.      *)
RowsKept ==
  /\ used \subseteq used' /\ touched \subseteq touched' /\ hurt \subseteq hurt'
  /\ listener' = listener \/ (listener'.step # "submit" /\ listener.step # "submit")
  /\ \A p \in Problem : rows'[p] = rows[p] \/ rows'[p] = Absent \/ rows'[p].published \/ p \in touched'

(* A build turns away from no row that needs it.                           *)
KeepsMinding(c) ==
  \A p \in Problem : Minds(c, p) /\ rows'[p] = rows[p] => Minds(c, p)' \/ Settled(p)'

LEMMA SameKeepsMinding ==
  ASSUME NEW c \in Build, SameBuild(c)
  PROVE  KeepsMinding(c)
BY SameMinds DEF KeepsMinding

LEMMA MindKept ==
  ASSUME Sound, Sound', MindInv, RowsKept, \A c \in Build : KeepsMinding(c)
  PROVE  MindInv'
<1> USE DEF RowsKept, KeepsMinding
<1>1. Expected'
  BY DEF MindInv, Expected, Stored, Sound, TypeOK
<1>2. \A p \in Problem : \/ Settled(p)'
                         \/ listener'.step = "submit" /\ listener'.problem = p
                         \/ \E b \in Build : Minds(b, p)'
  <2> SUFFICES ASSUME NEW p \in Problem
               PROVE  \/ Settled(p)'
                      \/ listener'.step = "submit" /\ listener'.problem = p
                      \/ \E b \in Build : Minds(b, p)'
    OBVIOUS
  <2>1. CASE rows'[p] # rows[p]
    BY <2>1 DEF Settled
  <2>2. CASE rows'[p] = rows[p] /\ Settled(p)
    BY <2>2 DEF Settled
  <2>3. CASE rows'[p] = rows[p] /\ listener.step = "submit" /\ listener.problem = p
    BY <2>3
  <2>4. CASE rows'[p] = rows[p] /\ \E b \in Build : Minds(b, p)
    BY <2>4
  <2> QED BY <2>1, <2>2, <2>3, <2>4, MindInvIs DEF MindInv, Sound
<1> QED BY <1>1, <1>2, MindInvNext DEF MindInv, Sound

(* Builds.                                                                 *)
LEMMA BuildingMinds ==
  ASSUME Sound, Sound', MindInv, NEW b \in Build,
         Extract(b) \/ DockerBuild(b) \/ HealthCheck(b) \/ Tag(b) \/ Push(b)
  PROVE  MindInv'
<1>1. PICK s \in {"build", "check", "tag", "push", "find"} : Goto(b, s) /\ UNCHANGED <<slug, found, copy>>
  BY DEF Extract, DockerBuild, HealthCheck, Tag, Push
<1>2. UNCHANGED <<rows, used, listener, touched, hurt>>
  BY DEF Extract, DockerBuild, HealthCheck, Tag, Push, tableVars, pastVars
<1>3. \A c \in Build \ {b} : SameBuild(c)
  BY <1>1, OthersSame
<1>4. \A p \in Problem : Minds(b, p) => Minds(b, p)'
  BY <1>1, <1>2, SoundParts
     DEF Extract, DockerBuild, HealthCheck, Tag, Push, Minds, Goto, Working, BuildsKnow
<1>5. RowsKept /\ KeepsMinding(b)
  BY <1>2, <1>4 DEF RowsKept, KeepsMinding
<1> QED BY <1>3, <1>5, SameKeepsMinding, MindKept

LEMMA FindBySlugMinds ==
  ASSUME Sound, Sound', MindInv, NEW b \in Build, FindBySlug(b)
  PROVE  MindInv'
<1>1. UNCHANGED <<rows, used, listener, touched, hurt>>
  BY DEF FindBySlug, tableVars, pastVars
<1>2. CASE Holder(slug[b]) = {} /\ Finish(b)
  <2>1. \A p \in Problem : ~Minds(b, p)
    BY <1>2 DEF Minds, Holder
  <2>2. \A c \in Build \ {b} : SameBuild(c)
    BY <1>2, OthersSame
  <2>3. RowsKept /\ KeepsMinding(b)
    BY <1>1, <2>1 DEF RowsKept, KeepsMinding
  <2> QED BY <2>2, <2>3, SameKeepsMinding, MindKept
<1>3. ASSUME NEW p \in Holder(slug[b]), Goto(b, "save"), found' = [found EXCEPT ![b] = p],
             UNCHANGED slug, \A c \in Build \ {b} : copy'[c] = copy[c]
      PROVE  MindInv'
  <2>1. p \in Problem /\ rows[p].slug = slug[b] /\ slug[b] # None
    BY <1>3, SoundParts DEF Holder, FindBySlug, BuildsKnow, Running
  <2>2. \A q \in Problem : rows[q].slug = slug[b] => q = p
    BY <2>1, RowFacts, SoundParts DEF RowsNamed, SlugsNameRows
  <2>3. \A q \in Problem : Minds(b, q) => Minds(b, q)'
    BY <1>1, <1>3, <2>2, SoundParts DEF Minds, Goto, Working, BuildsKnow
  <2>4. \A c \in Build \ {b} : SameBuild(c)
    BY <1>3, SoundParts DEF SameBuild, Goto, BuildsKnow
  <2>5. RowsKept /\ KeepsMinding(b)
    BY <1>1, <2>3 DEF RowsKept, KeepsMinding
  <2> QED BY <2>4, <2>5, SameKeepsMinding, MindKept
<1>4. \A p \in Holder(slug[b]) :
         copy' = [copy EXCEPT ![b] =
                   [rows[p] EXCEPT !.published = TRUE, !.image = IF registry THEN slug[b] ELSE @]] =>
           \A c \in Build \ {b} : copy'[c] = copy[c]
  BY SoundParts DEF BuildsKnow
<1> QED BY <1>2, <1>3, <1>4 DEF FindBySlug

LEMMA SavePublishedMinds ==
  ASSUME Sound, Sound', MindInv, NEW b \in Build, SavePublished(b)
  PROVE  MindInv'
<1>1. found[b] \in Problem /\ copy[b].published
  BY SoundParts DEF SavePublished, BuildsKnow
<1>2. rows' = [rows EXCEPT ![found[b]] = copy[b]] /\ UNCHANGED <<used, listener, touched, hurt>>
  BY DEF SavePublished, Write, pastVars
<1>3. rows'[found[b]] = copy[b] /\ \A p \in Problem : rows'[p] = rows[p] \/ rows'[p].published
  BY <1>1, <1>2, SoundParts DEF RowsNamed, SlugsNameRows
<1>4. \A c \in Build \ {b} : SameBuild(c)
  BY OthersSame DEF SavePublished
<1>5. \A p \in Problem : Minds(b, p) => Settled(p)'
  BY <1>1, <1>3 DEF SavePublished, Minds, Working, Settled
<1>6. RowsKept /\ KeepsMinding(b)
  BY <1>2, <1>3, <1>5 DEF RowsKept, KeepsMinding
<1> QED BY <1>4, <1>6, SameKeepsMinding, MindKept

LEMMA BuildThrowsMinds ==
  ASSUME Sound, Sound', MindInv, NEW b \in Build, BuildThrows(b)
  PROVE  MindInv'
<1>1. PICK s \in {"extract", "rollback"} : Goto(b, s) /\ Forget(b) /\ UNCHANGED slug
  BY DEF BuildThrows, Retry
<1>2. \A c \in Build \ {b} : SameBuild(c)
  BY <1>1, OthersSame
<1>3. \A p \in Problem : rows'[p] = rows[p] \/ rows'[p].published
  BY SoundParts DEF BuildThrows, Write, RowsNamed, SlugsNameRows, BuildsKnow
<1>4. \A p \in Problem : Minds(b, p) /\ rows'[p] = rows[p] => Minds(b, p)'
  BY <1>1, SoundParts DEF Minds, Goto, Working, BuildsKnow
<1>5. RowsKept /\ KeepsMinding(b)
  BY <1>3, <1>4 DEF RowsKept, KeepsMinding, BuildThrows, pastVars
<1> QED BY <1>2, <1>5, SameKeepsMinding, MindKept

LEMMA RecoveryMinds ==
  ASSUME Sound, Sound', MindInv, NEW b \in Build,
         RecoverFinds(b) \/ RecoverDeletes(b) \/ RecoverThrows(b) \/ DeleteFromS3(b)
  PROVE  MindInv'
<1>1. CASE RecoverFinds(b)
  <2>1. UNCHANGED <<rows, used, listener, touched, hurt>>
    BY <1>1 DEF RecoverFinds, tableVars, pastVars
  <2>2. \A c \in Build \ {b} : SameBuild(c)
    BY <1>1, SoundParts DEF RecoverFinds, Goto, SameBuild, BuildsKnow
  <2>3. \A p \in Problem : Minds(b, p) => Minds(b, p)'
    <3>1. slug[b] # None /\ step[b] = "rollback"
      BY <1>1, SoundParts DEF RecoverFinds, BuildsKnow, Running
    <3>2. \A p, q \in Problem : rows[p].slug = slug[b] /\ rows[q].slug = slug[b] => p = q
      BY <3>1, RowFacts, SoundParts DEF RowsNamed, SlugsNameRows
    <3> QED BY <1>1, <2>1, <3>2, SoundParts DEF RecoverFinds, Holder, Minds, Goto, BuildsKnow, Working
  <2>4. RowsKept /\ KeepsMinding(b)
    BY <2>1, <2>3 DEF RowsKept, KeepsMinding
  <2> QED BY <2>2, <2>4, SameKeepsMinding, MindKept
<1>2. CASE RecoverDeletes(b)
  <2>1. UNCHANGED <<used, listener, touched, hurt>> /\ rows' = [rows EXCEPT ![found[b]] = Absent]
    BY <1>2 DEF RecoverDeletes, pastVars
  <2>2. \A c \in Build \ {b} : SameBuild(c)
    <3>1. Goto(b, "deleteFromS3") /\ Forget(b) /\ UNCHANGED slug
      BY <1>2 DEF RecoverDeletes
    <3> QED BY <3>1, OthersSame
  <2>3. rows'[found[b]] = Absent /\ \A p \in Problem : rows'[p] = rows[p] \/ rows'[p] = Absent
    BY <1>2, <2>1, SoundParts DEF RecoverDeletes, RowsNamed, SlugsNameRows, BuildsKnow
  <2>4. \A p \in Problem : Minds(b, p) => Settled(p)'
    BY <1>2, <2>3 DEF RecoverDeletes, Minds, Settled, Working
  <2>5. RowsKept /\ KeepsMinding(b)
    BY <2>1, <2>3, <2>4 DEF RowsKept, KeepsMinding
  <2> QED BY <2>2, <2>5, SameKeepsMinding, MindKept
<1>3. CASE RecoverThrows(b)
  <2>1. UNCHANGED <<rows, used, listener, touched>> /\ hurt \subseteq hurt'
    BY <1>3 DEF RecoverThrows, tableVars
  <2>2. \A c \in Build \ {b} : SameBuild(c)
    BY <1>3, OthersSame DEF RecoverThrows
  <2>3. \A p \in Problem : Minds(b, p) => Settled(p)'
    BY <1>3, <2>1 DEF RecoverThrows, Minds, Settled, Holder, Working
  <2>4. RowsKept /\ KeepsMinding(b)
    BY <2>1, <2>3 DEF RowsKept, KeepsMinding
  <2> QED BY <2>2, <2>4, SameKeepsMinding, MindKept
<1>4. CASE DeleteFromS3(b)
  <2>1. UNCHANGED <<rows, used, listener, touched, hurt>> /\ \A p \in Problem : ~Minds(b, p)
    BY <1>4 DEF DeleteFromS3, tableVars, pastVars, Minds, Working
  <2>2. \A c \in Build \ {b} : SameBuild(c)
    BY <1>4, OthersSame DEF DeleteFromS3
  <2>3. RowsKept /\ KeepsMinding(b)
    BY <2>1 DEF RowsKept, KeepsMinding
  <2> QED BY <2>2, <2>3, SameKeepsMinding, MindKept
<1> QED BY <1>1, <1>2, <1>3, <1>4

(* The listener.                                                           *)
LEMMA BeginMinds ==
  ASSUME Sound, NEW b \in Build, NEW s, NEW l, Begin(b, s, l), UNCHANGED rows
  PROVE  /\ \A c \in Build, p \in Problem : Minds(c, p) => Minds(c, p)'
         /\ \A p \in Problem : rows[p].slug = s => Minds(b, p)'
         /\ UNCHANGED <<touched, hurt>>
<1>1. \A c \in Build \ {b} : SameBuild(c)
  BY SoundParts DEF Begin, Goto, SameBuild, BuildsKnow
<1>2. \A p \in Problem : ~Minds(b, p)
  BY DEF Begin, Minds, Working
<1>3. \A p \in Problem : rows[p].slug = s => Minds(b, p)'
  BY SoundParts DEF Begin, Goto, Minds, Working, BuildsKnow
<1> QED BY <1>1, <1>2, <1>3, SameMinds DEF Begin

LEMMA InsertProblemMinds ==
  ASSUME Sound, Sound', MindInv, NEW p \in Problem, InsertProblem(p)
  PROVE  MindInv'
<1> DEFINE new == [slug |-> listener.slug, link |-> listener.link, buildable |-> listener.buildable,
                   image |-> None, published |-> FALSE]
<1>1. rows' = [rows EXCEPT ![p] = new] /\ used' = used \cup {p} /\ UNCHANGED <<buildVars, pastVars>>
  BY DEF InsertProblem, Add, Write
<1>2. /\ listener.step = "insert" /\ listener'.step = "submit" /\ listener'.problem = p
      /\ listener'.slug = listener.slug /\ listener'.buildable = listener.buildable
  BY SoundParts DEF InsertProblem, RestTyped
<1>3. new.slug = listener.slug /\ new.buildable = listener.buildable
  OBVIOUS
<1> HIDE DEF new
<1>4. rows'[p] = new /\ \A q \in Problem \ {p} : rows'[q] = rows[q]
  BY <1>1, SoundParts DEF RowsNamed, SlugsNameRows
<1>5. Expected'
  BY <1>1, <1>2, <1>3, <1>4 DEF Expected
<1>6. \A q \in Problem : \/ Settled(q)'
                         \/ listener'.step = "submit" /\ listener'.problem = q
                         \/ \E b \in Build : Minds(b, q)'
  <2> SUFFICES ASSUME NEW q \in Problem \ {p}
               PROVE  Settled(q)' \/ \E b \in Build : Minds(b, q)'
    BY <1>2
  <2>1. Settled(q) \/ \E b \in Build : Minds(b, q)
    BY <1>2, MindInvIs DEF MindInv, Sound
  <2> QED BY <1>1, <1>4, <2>1, SameMinds DEF Settled, SameBuild, buildVars, pastVars
<1> QED BY <1>5, <1>6, MindInvNext DEF MindInv, Sound

LEMMA SubmitBuildMinds ==
  ASSUME Sound, Sound', MindInv, NEW b \in Build, SubmitBuild(b)
  PROVE  MindInv'
<1>1. listener.step = "submit" /\ listener'.step = "idle" /\ UNCHANGED <<rows, used>>
  BY DEF SubmitBuild, Idle, tableVars
<1>2. Expected'
  BY <1>1 DEF Expected
<1>3. /\ \A c \in Build, p \in Problem : Minds(c, p) => Minds(c, p)'
      /\ listener.buildable => \A p \in Problem : rows[p].slug = listener.slug => Minds(b, p)'
      /\ UNCHANGED <<touched, hurt>>
  <2>1. CASE listener.buildable
    BY <1>1, <2>1, BeginMinds DEF SubmitBuild
  <2>2. CASE ~listener.buildable
    <3>1. UNCHANGED <<touched, hurt>> /\ \A c \in Build : SameBuild(c)
      BY <2>2 DEF SubmitBuild, SameBuild, buildVars, pastVars
    <3> QED BY <1>1, <2>2, <3>1, SameMinds
  <2> QED BY <2>1, <2>2
<1>4. \A p \in Problem : \/ Settled(p)'
                         \/ listener'.step = "submit" /\ listener'.problem = p
                         \/ \E c \in Build : Minds(c, p)'
  <2> SUFFICES ASSUME NEW p \in Problem
               PROVE  Settled(p)' \/ \E c \in Build : Minds(c, p)'
    OBVIOUS
  <2>1. CASE Settled(p)
    BY <1>1, <1>3, <2>1 DEF Settled
  <2>2. CASE \E c \in Build : Minds(c, p)
    BY <1>3, <2>2
  <2>3. CASE ~Settled(p) /\ listener.problem = p
    BY <1>1, <1>3, <2>3 DEF Settled, MindInv, Expected, Stored
  <2> QED BY <2>1, <2>2, <2>3, MindInvIs DEF MindInv, Sound
<1> QED BY <1>2, <1>4, MindInvNext DEF MindInv, Sound

LEMMA ListenerMinds ==
  ASSUME Sound, Sound', MindInv, Listener
  PROVE  MindInv'
<1>1. ASSUME NEW s \in Slug, NEW l \in Link, NEW b \in BOOLEAN, ChooseSlug(s, l, b)
      PROVE  MindInv'
  <2>1. UNCHANGED <<rows, used, touched, hurt>> /\ \A c \in Build : SameBuild(c)
    BY <1>1 DEF ChooseSlug, SameBuild, tableVars, buildVars, pastVars
  <2>2. listener'.step # "submit" /\ listener.step # "submit"
    BY <1>1 DEF ChooseSlug
  <2>3. RowsKept
    BY <2>1, <2>2 DEF RowsKept
  <2> QED BY <2>1, <2>3, SameKeepsMinding, MindKept
<1>2. CASE InsertFails
  <2>1. UNCHANGED <<rows, used, touched, hurt>> /\ \A c \in Build : SameBuild(c)
    BY <1>2 DEF InsertFails, SameBuild, tableVars, buildVars, pastVars
  <2>2. listener'.step # "submit" /\ listener.step # "submit"
    BY <1>2 DEF InsertFails, Idle
  <2>3. RowsKept
    BY <2>1, <2>2 DEF RowsKept
  <2> QED BY <2>1, <2>3, SameKeepsMinding, MindKept
<1> QED BY <1>1, <1>2, InsertProblemMinds, SubmitBuildMinds DEF Listener

(* Admin requests.                                                         *)
LEMMA CreateProblemMinds ==
  ASSUME Sound, Sound', MindInv, NEW p \in Problem, NEW s \in Slug, NEW l \in Link, CreateProblem(p, s, l)
  PROVE  MindInv'
<1> DEFINE new == [slug |-> s, link |-> l, buildable |-> FALSE, image |-> None, published |-> FALSE]
<1>1. rows' = [rows EXCEPT ![p] = new] /\ used' = used \cup {p} /\ p \notin used
  BY DEF CreateProblem, Add, Write
<1>2. ~new.buildable
  OBVIOUS
<1> HIDE DEF new
<1>3. rows'[p] = new /\ \A q \in Problem \ {p} : rows'[q] = rows[q]
  BY <1>1, SoundParts DEF RowsNamed, SlugsNameRows
<1>4. UNCHANGED <<listener, touched, hurt>> /\ \A c \in Build : SameBuild(c)
  BY DEF CreateProblem, SameBuild, buildVars, pastVars
<1>5. Expected'
  <2>1. listener.step = "submit" => listener.problem # p /\ listener.problem \in Problem
    BY <1>1, SoundParts DEF MindInv, Expected, RestTyped
  <2> QED BY <1>1, <1>3, <1>4, <2>1 DEF MindInv, Expected, Stored
<1>6. \A q \in Problem : \/ Settled(q)'
                         \/ listener'.step = "submit" /\ listener'.problem = q
                         \/ \E b \in Build : Minds(b, q)'
  <2> SUFFICES ASSUME NEW q \in Problem
               PROVE  \/ Settled(q)'
                      \/ listener'.step = "submit" /\ listener'.problem = q
                      \/ \E b \in Build : Minds(b, q)'
    OBVIOUS
  <2>1. CASE q = p
    BY <1>2, <1>3, <2>1 DEF Settled
  <2>2. CASE q # p
    <3>1. \/ Settled(q)
          \/ listener.step = "submit" /\ listener.problem = q
          \/ \E b \in Build : Minds(b, q)
      BY MindInvIs DEF MindInv, Sound
    <3> QED BY <1>3, <1>4, <2>2, <3>1, SameMinds DEF Settled
  <2> QED BY <2>1, <2>2
<1> QED BY <1>5, <1>6, MindInvNext DEF MindInv, Sound

LEMMA AdministrationMinds ==
  ASSUME Sound, Sound', MindInv, Administration
  PROVE  MindInv'
<1>1. ASSUME NEW p \in Problem, DeleteProblem(p)
      PROVE  MindInv'
  <2>1. UNCHANGED <<used, listener, touched, hurt>> /\ \A c \in Build : SameBuild(c)
    BY <1>1 DEF DeleteProblem, SameBuild, buildVars, pastVars
  <2>2. \A q \in Problem : rows'[q] = rows[q] \/ rows'[q] = Absent
    BY <1>1, SoundParts DEF DeleteProblem, RowsNamed, SlugsNameRows
  <2>3. RowsKept
    BY <2>1, <2>2 DEF RowsKept
  <2> QED BY <2>1, <2>3, SameKeepsMinding, MindKept
<1>2. ASSUME NEW p \in Problem, NEW b \in Build, BuildImage(p, b)
      PROVE  MindInv'
  <2>1. UNCHANGED <<rows, used, listener>> /\ Begin(b, rows[p].slug, rows[p].link)
    BY <1>2 DEF BuildImage, tableVars
  <2>2. UNCHANGED <<touched, hurt>> /\ \A c \in Build, q \in Problem : Minds(c, q) => Minds(c, q)'
    BY <2>1, BeginMinds
  <2>3. RowsKept /\ \A c \in Build : KeepsMinding(c)
    BY <2>1, <2>2 DEF RowsKept, KeepsMinding
  <2> QED BY <2>3, MindKept
<1>3. ASSUME NEW r \in Request, SaveEdit(r)
      PROVE  MindInv'
  <2>1. UNCHANGED <<used, listener, hurt>> /\ (\A c \in Build : SameBuild(c)) /\ touched' = touched \cup {edited[r]}
    BY <1>3 DEF SaveEdit, SameBuild, buildVars
  <2>2. \A q \in Problem : rows'[q] = rows[q] \/ q \in touched'
    BY <1>3, <2>1, SoundParts DEF SaveEdit, Write, RowsNamed, SlugsNameRows
  <2>3. RowsKept
    BY <2>1, <2>2 DEF RowsKept
  <2> QED BY <2>1, <2>3, SameKeepsMinding, MindKept
<1>4. ASSUME NEW r \in Request, NEW p \in Problem,
             \/ EditFails(r) \/ UpdateProblem(r, p)
             \/ \E published \in BOOLEAN : SetPublished(r, p, published)
      PROVE  MindInv'
  <2>1. UNCHANGED <<rows, used, listener, touched, hurt>> /\ \A c \in Build : SameBuild(c)
    BY <1>4 DEF EditFails, UpdateProblem, SetPublished, SameBuild, tableVars, buildVars, pastVars
  <2>2. RowsKept
    BY <2>1 DEF RowsKept
  <2> QED BY <2>1, <2>2, SameKeepsMinding, MindKept
<1>5. ASSUME NEW r \in Request, EditFails(r)
      PROVE  MindInv'
  <2>1. UNCHANGED <<rows, used, listener, touched, hurt>> /\ \A c \in Build : SameBuild(c)
    BY <1>5 DEF EditFails, SameBuild, tableVars, buildVars, pastVars
  <2>2. RowsKept
    BY <2>1 DEF RowsKept
  <2> QED BY <2>1, <2>2, SameKeepsMinding, MindKept
<1> QED BY <1>1, <1>2, <1>3, <1>4, <1>5, CreateProblemMinds DEF Administration

LEMMA RestMinds ==
  ASSUME Sound, Sound', MindInv, Crash \/ (\E l \in Link : Upload(l)) \/ UNCHANGED vars
  PROVE  MindInv'
<1>1. CASE Crash
  <2>1. rows' = rows /\ hurt' = hurt \cup Stored /\ listener'.step = "idle"
    BY <1>1 DEF Crash, Idle, tableVars
  <2>2. \A p \in Problem : Settled(p)'
    BY <2>1 DEF Settled, Stored
  <2> QED BY <2>1, <2>2, MindInvNext DEF MindInv, Expected, Sound
<1>2. CASE (\E l \in Link : Upload(l)) \/ UNCHANGED vars
  <2>1. UNCHANGED <<rows, used, listener, touched, hurt>> /\ \A c \in Build : SameBuild(c)
    BY <1>2 DEF Upload, vars, SameBuild, tableVars, buildVars, pastVars
  <2>2. RowsKept
    BY <2>1 DEF RowsKept
  <2> QED BY <2>1, <2>2, SameKeepsMinding, MindKept
<1> QED BY <1>1, <1>2

LEMMA MindInit == Init => MindInv
BY DEF Init, Idle, MindInv, UnbuiltIsMinded, Stored, Expected

LEMMA MindNext == Sound /\ Sound' /\ MindInv /\ [Next]_vars => MindInv'
BY BuildingMinds, FindBySlugMinds, SavePublishedMinds, BuildThrowsMinds, RecoveryMinds,
   ListenerMinds, AdministrationMinds, RestMinds
   DEF Next, BuildStep

(* A generated problem that is not published has a build at work on it,    *)
(* unless an admin has edited it or an outage has left it (UnbuiltIsMinded). *)
THEOREM UnbuiltHasBuild == Spec => []UnbuiltIsMinded
<1>1. Spec => []Sound
  BY SoundInit, SoundNext, PTL DEF Spec
<1>2. Spec => []MindInv
  BY <1>1, MindInit, MindNext, PTL DEF Spec
<1> QED BY <1>2, PTL DEF MindInv

-----------------------------------------------------------------------------
(* A build that is alone with its slug pushes what it has checked.         *)

AloneInv == HealthyIfAlone /\ Alone

(* A build that runs on goes on with its slug, and does not reach a tag.   *)
GoesOn(b) ==
  Running(b)' => /\ Running(b) /\ slug'[b] = slug[b]
                 /\ step'[b] \in {"tag", "push"} => step'[b] = step[b]

LEMMA AloneKept ==
  ASSUME Sound, AloneInv, UNCHANGED <<imageVars, shared>>, \A b \in Build : GoesOn(b)
  PROVE  AloneInv'
<1>1. HealthyIfAlone'
  BY DEF AloneInv, HealthyIfAlone, imageVars
<1>2. ASSUME NEW b \in Build, NEW c \in Build, Running(b)', Running(c)', slug'[b] = slug'[c], b # c
      PROVE  slug'[b] \in shared'
  BY <1>2 DEF AloneInv, Alone, GoesOn
<1>3. ASSUME NEW b \in Build, slug'[b] \notin shared'
      PROVE  /\ step'[b] = "tag" => local'[slug'[b]] = "healthy"
             /\ step'[b] = "push" => tagged'[slug'[b]] = "healthy"
  <2>1. step'[b] \in {"tag", "push"} => Running(b)'
    BY DEF Running
  <2> QED BY <1>3, <2>1 DEF AloneInv, Alone, GoesOn, imageVars
<1>4. Alone'
  BY <1>2, <1>3 DEF Alone
<1> QED BY <1>1, <1>4 DEF AloneInv

LEMMA SameGoesOn ==
  ASSUME NEW b \in Build, SameBuild(b)
  PROVE  GoesOn(b)
BY DEF SameBuild, GoesOn, Running

(* The steps that change an image or reach a tag.                          *)
LEMMA ImageAlone ==
  ASSUME Sound, AloneInv, NEW b \in Build, DockerBuild(b) \/ HealthCheck(b) \/ Tag(b) \/ Push(b)
  PROVE  AloneInv'
<1>1. Running(b) /\ slug[b] \in Slug /\ slug' = slug /\ shared' = shared
  BY SoundParts DEF DockerBuild, HealthCheck, Tag, Push, Running, BuildsKnow, pastVars
<1>2. /\ \A c \in Build \ {b} : step'[c] = step[c]
      /\ Running(b)' => Running(b)
  BY <1>1, SoundParts DEF DockerBuild, HealthCheck, Tag, Push, Goto, BuildsKnow
<1>3. \A c \in Build : Running(c)' => Running(c)
  BY <1>2 DEF Running
<1>4. ASSUME slug[b] \notin shared
      PROVE  \A c \in Build \ {b} : Running(c) => slug[c] # slug[b]
  BY <1>1, <1>4 DEF AloneInv, Alone
<1>5. \A s \in Slug \ {slug[b]} : local'[s] = local[s] /\ tagged'[s] = tagged[s] /\ ecr'[s] = ecr[s]
  BY <1>1, SoundParts DEF DockerBuild, HealthCheck, Tag, Push, imageVars, RestTyped
<1>6. slug[b] \notin shared =>
        /\ step'[b] = "tag" => local'[slug[b]] = "healthy"
        /\ step'[b] = "push" => tagged'[slug[b]] = "healthy"
        /\ ecr'[slug[b]] # "broken"
  BY <1>1, SoundParts DEF DockerBuild, HealthCheck, Tag, Push, Goto, imageVars, RestTyped, BuildsKnow,
                          AloneInv, Alone, HealthyIfAlone
<1>7. HealthyIfAlone'
  BY <1>1, <1>5, <1>6 DEF AloneInv, HealthyIfAlone
<1>8. ASSUME NEW c \in Build, slug'[c] \notin shared'
      PROVE  /\ step'[c] = "tag" => local'[slug'[c]] = "healthy"
             /\ step'[c] = "push" => tagged'[slug'[c]] = "healthy"
  <2>1. CASE c = b
    BY <1>1, <1>6, <1>8, <2>1
  <2>2. CASE c # b /\ step[c] \in {"tag", "push"}
    <3>1. Running(c) /\ slug[c] \in Slug
      BY <2>2, SoundParts DEF Running, BuildsKnow
    <3>2. slug[c] # slug[b]
      BY <1>1, <1>4, <1>8, <2>2, <3>1
    <3> QED BY <1>1, <1>2, <1>5, <1>8, <2>2, <3>1, <3>2 DEF AloneInv, Alone
  <2>3. CASE c # b /\ step[c] \notin {"tag", "push"}
    BY <1>2, <2>3
  <2> QED BY <2>1, <2>2, <2>3
<1>9. Alone'
  BY <1>1, <1>3, <1>8 DEF AloneInv, Alone
<1> QED BY <1>7, <1>9 DEF AloneInv

LEMMA BeginAlone ==
  ASSUME Sound, AloneInv, NEW b \in Build, NEW s \in Slug, NEW l, Begin(b, s, l), UNCHANGED imageVars
  PROVE  AloneInv'
<1>1. /\ step'[b] = "extract" /\ slug'[b] = s /\ shared \subseteq shared'
      /\ \A c \in Build \ {b} : step'[c] = step[c] /\ slug'[c] = slug[c]
  BY SoundParts DEF Begin, Goto, BuildsKnow
<1>2. (\E c \in Build \ {b} : Running(c) /\ slug[c] = s) => s \in shared'
  BY DEF Begin
<1>3. HealthyIfAlone'
  BY <1>1 DEF AloneInv, HealthyIfAlone, imageVars
<1>4. ASSUME NEW c \in Build, NEW d \in Build, Running(c)', Running(d)', slug'[c] = slug'[d], c # d
      PROVE  slug'[c] \in shared'
  BY <1>1, <1>2, <1>4 DEF AloneInv, Alone, Running
<1>5. ASSUME NEW c \in Build, slug'[c] \notin shared'
      PROVE  /\ step'[c] = "tag" => local'[slug'[c]] = "healthy"
             /\ step'[c] = "push" => tagged'[slug'[c]] = "healthy"
  BY <1>1, <1>5 DEF AloneInv, Alone, imageVars
<1>6. Alone'
  BY <1>4, <1>5 DEF Alone
<1> QED BY <1>3, <1>6 DEF AloneInv

LEMMA BuildStepAlone ==
  ASSUME Sound, AloneInv, NEW b \in Build, BuildStep(b)
  PROVE  AloneInv'
<1>1. CASE DockerBuild(b) \/ HealthCheck(b) \/ Tag(b) \/ Push(b)
  BY <1>1, ImageAlone
<1>2. CASE ~(DockerBuild(b) \/ HealthCheck(b) \/ Tag(b) \/ Push(b))
  <2>1. UNCHANGED <<imageVars, shared>>
    BY <1>2 DEF BuildStep, Extract, FindBySlug, SavePublished, BuildThrows, RecoverFinds, RecoverDeletes,
                RecoverThrows, DeleteFromS3, pastVars
  <2>2. \A c \in Build \ {b} : step'[c] = step[c] /\ slug'[c] = slug[c]
    BY <1>2, SoundParts
       DEF BuildStep, Extract, FindBySlug, SavePublished, BuildThrows, Retry, RecoverFinds, RecoverDeletes,
           RecoverThrows, DeleteFromS3, Finish, Goto, BuildsKnow
  <2>3. Running(b) /\ step'[b] \notin {"tag", "push"} /\ (slug'[b] = slug[b] \/ step'[b] = "over")
    BY <1>2, SoundParts
       DEF BuildStep, Extract, FindBySlug, SavePublished, BuildThrows, Retry, RecoverFinds, RecoverDeletes,
           RecoverThrows, DeleteFromS3, Finish, Goto, BuildsKnow, Running, Working
  <2>4. \A c \in Build : GoesOn(c)
    BY <2>2, <2>3 DEF GoesOn, Running
  <2> QED BY <2>1, <2>4, AloneKept
<1> QED BY <1>1, <1>2

LEMMA OtherAlone ==
  ASSUME Sound, AloneInv,
         Listener \/ Administration \/ Crash \/ (\E l \in Link : Upload(l)) \/ UNCHANGED vars
  PROVE  AloneInv'
<1>1. CASE UNCHANGED <<buildVars, imageVars, shared>>
  <2>1. \A b \in Build : SameBuild(b)
    BY <1>1 DEF SameBuild, buildVars
  <2> QED BY <1>1, <2>1, SameGoesOn, AloneKept
<1>2. CASE Crash
  <2>1. \A b \in Build : GoesOn(b)
    BY <1>2, SoundParts DEF Crash, GoesOn, Running, BuildsKnow
  <2> QED BY <1>2, <2>1, AloneKept DEF Crash
<1>3. ASSUME NEW b \in Build, SubmitBuild(b), listener.buildable
      PROVE  AloneInv'
  BY <1>3, BeginAlone, SoundParts DEF SubmitBuild, RestTyped
<1>4. ASSUME NEW p \in Problem, NEW b \in Build, BuildImage(p, b)
      PROVE  AloneInv'
  <2>1. rows[p].slug \in Slug
    BY <1>4, SoundParts DEF BuildImage, Stored, RowsNamed, SlugsNameRows, Row
  <2> QED BY <1>4, <2>1, BeginAlone DEF BuildImage
<1>5. \/ UNCHANGED <<buildVars, imageVars, shared>>
      \/ Crash
      \/ \E b \in Build : SubmitBuild(b) /\ listener.buildable
      \/ \E p \in Problem, b \in Build : BuildImage(p, b)
  <2>1. CASE Listener
    BY <2>1 DEF Listener, ChooseSlug, InsertProblem, InsertFails, SubmitBuild, pastVars
  <2>2. CASE Administration
    BY <2>2 DEF Administration, CreateProblem, DeleteProblem, SaveEdit, EditFails, UpdateProblem, SetPublished,
                pastVars
  <2>3. CASE Crash \/ (\E l \in Link : Upload(l)) \/ UNCHANGED vars
    BY <2>3 DEF Upload, vars, pastVars
  <2> QED BY <2>1, <2>2, <2>3
<1> QED BY <1>1, <1>2, <1>3, <1>4, <1>5

LEMMA AloneInit == Init => AloneInv
BY DEF Init, AloneInv, HealthyIfAlone, Alone, Running

LEMMA AloneNext == Sound /\ AloneInv /\ [Next]_vars => AloneInv'
BY BuildStepAlone, OtherAlone DEF Next

(* As long as no two builds of a slug overlap, ECR holds no image of it    *)
(* that failed its health check (HealthyIfAlone).                          *)
THEOREM PushedAloneIsHealthy == Spec => []HealthyIfAlone
<1>1. Spec => []Sound
  BY SoundInit, SoundNext, PTL DEF Spec
<1>2. Spec => []AloneInv
  BY <1>1, AloneInit, AloneNext, PTL DEF Spec
<1> QED BY <1>2, PTL DEF AloneInv

(* The invariant the run checks holds for every value of the constants     *)
(* (ProblemInv).                                                           *)
THEOREM ProblemsCoherent == Spec => []ProblemInv
<1>1. PushInv => CopiesPushed
  BY DEF PushInv, BuildsReady, Ready, EditsReady, CopiesPushed
<1>2. Sound /\ PushInv /\ MindInv /\ AloneInv => ProblemInv
  BY <1>1 DEF Sound, PushInv, MindInv, AloneInv, ProblemInv
<1>3. Spec => []Sound
  BY SoundInit, SoundNext, PTL DEF Spec
<1>4. Spec => []PushInv
  BY <1>3, PushInit, PushNext, PTL DEF Spec
<1>5. Spec => []MindInv
  BY <1>3, MindInit, MindNext, PTL DEF Spec
<1>6. Spec => []AloneInv
  BY <1>3, AloneInit, AloneNext, PTL DEF Spec
<1> QED BY <1>2, <1>3, <1>4, <1>5, <1>6, PTL
=============================================================================
