---------------------------- MODULE Requests_proofs --------------------------
(* Theorems about Requests, for any calls, bodies, assets and MIME types. *)
EXTENDS Requests, FiniteSetTheorems, TLAPS

USE RequestsAssumption

-----------------------------------------------------------------------------
(* The inductive invariant. *)

LinkRec == [reference : Assets, mediaType : MimeTypes]
AttachmentRec == [type : PartTypes, links : Seq(LinkRec)]

(* The MIME types that a request may go on with. *)
MimesOf(body) == [References(body) -> IF body.type = "profile" THEN Images ELSE MimeTypes]

RequestRec == [pc : {"idle", "accepted", "answered", "rejected"}, body : Bodies \cup {None},
               mimes : (UNION {[A -> MimeTypes] : A \in SUBSET Assets}) \cup {<<>>},
               id : {<<b>> : b \in Bodies} \cup {None}]

(* What was validated when the request came is still so when its job is queued. *)
RequestShape(r) ==
    /\ request[r] \in RequestRec
    /\ request[r].pc \in {"accepted", "answered"} => request[r].body \in Bodies
    /\ request[r].pc = "accepted" =>
         Valid(request[r].body) /\ request[r].mimes \in MimesOf(request[r].body)
    /\ request[r].pc = "answered" =>
         request[r].id = <<request[r].body>> /\ request[r].id \in DOMAIN jobs

(* A list of attachments has one for each of these parts, complete. *)
Matches(g, attachments, parts, I) ==
    /\ g \in [DOMAIN attachments -> I]
    /\ \A k, l \in DOMAIN attachments : g[k] = g[l] => k = l
    /\ \A i \in I : \E k \in DOMAIN attachments : g[k] = i
    /\ \A k \in DOMAIN attachments : Shape(attachments[k]) = Asked(parts[g[k]])
Match(attachments, parts, I) ==
    \E g \in [DOMAIN attachments -> I] : Matches(g, attachments, parts, I)

IconsAre(attachments) == \A k \in DOMAIN attachments : attachments[k].type = "icon" =>
    \A l \in DOMAIN attachments[k].links : attachments[k].links[l].mediaType \in Images

(* What a running job still has to fetch is a reference of its request. *)
TodoShape(job) == LET parts == Parts(job.body) IN
    \A t \in job.todo : /\ t[1] \in DOMAIN parts /\ parts[t[1]].type # "link"
                        /\ t[2] \in DOMAIN parts[t[1]].references

(* The parts it has all references of, and those it has of a part; an array is none of them. *)
Complete(job) == LET parts == Parts(job.body) IN
    {i \in DOMAIN parts : ~IsArray(parts[i]) /\ \A t \in job.todo : t[1] # i}
Fetched(job, i) == LET part == Parts(job.body)[i] IN
    {part.references[j] : j \in {k \in DOMAIN part.references : <<i, k>> \notin job.todo}}

LinksShape(job) == LET parts == Parts(job.body) IN
    /\ DOMAIN job.links = DOMAIN parts
    /\ \A i \in DOMAIN parts : parts[i].type # "link" =>
         {link.reference : link \in ToSet(job.links[i])} = Fetched(job, i)
    /\ job.body.type = "profile" => \A i \in DOMAIN parts : \A l \in DOMAIN job.links[i] :
         job.links[i][l].mediaType \in Images

(* A job was validated and has the MIME types of all its references; while it runs, what it *)
(* has attached are the complete parts.                                                     *)
JobShape(id) ==
    /\ jobs[id] \in JobRec
    /\ id = <<jobs[id].body>>
    /\ Valid(jobs[id].body)
    /\ jobs[id].mimes \in MimesOf(jobs[id].body)
    /\ jobs[id].pc = "build" =>
         /\ TodoShape(jobs[id])
         /\ LinksShape(jobs[id])
         /\ IconsAre(jobs[id].attachments)
         /\ Match(jobs[id].attachments, Parts(jobs[id].body), Complete(jobs[id]))

(* An announcement is what its job, which is done, has built. *)
NoteShape(n) ==
    /\ <<n.content>> \in DOMAIN jobs
    /\ jobs[<<n.content>>].pc = "done"
    /\ n.content \in Bodies
    /\ n.announcementType = AnnouncementType[n.content.type]
    /\ n.attachments \in Seq(AttachmentRec)
    /\ IconsAre(n.attachments)
    /\ Match(n.attachments, Parts(n.content), DOMAIN Parts(n.content))

OneNote == \A m, n \in Announcements : m.content = n.content => m = n

Queued == /\ DOMAIN queues = {QueueOf[t] : t \in Types}
          /\ \A q \in DOMAIN queues : \A n \in queues[q] : q = QueueOf[n.content.type]

Filed == \A f \in files : f.schemaId = SchemaIds(environment)[f.announcement.content.type]

IInv == /\ environment \in Environments
        /\ mime \in [Assets -> MimeTypes \cup {None}]
        /\ DOMAIN request = Requests
        /\ \A r \in Requests : RequestShape(r)
        /\ \A id \in DOMAIN jobs : JobShape(id)
        /\ \A n \in Announcements : NoteShape(n)
        /\ OneNote
        /\ Queued
        /\ Filed

-----------------------------------------------------------------------------
(* Requests and their parts. *)

(* The fields of a body that the proofs look at. *)
LEMMA BodyFields ==
  ASSUME NEW body \in Bodies
  PROVE  /\ body.type \in Types
         /\ Len(body.assets) \in Nat /\ DOMAIN body.assets = 1 .. Len(body.assets)
         /\ \A i \in DOMAIN body.assets : body.assets[i].references \in Seq(Assets)
         /\ \A i \in DOMAIN body.assets :
              IsArray(body.assets[i]) => body.assets[i].references = <<>>
         /\ body.icon \in Seq(Assets)
  <1> DEFINE R == [type : STRING, references : Seq(Assets), href : BOOLEAN]
  <1>1. body.type \in Types /\ body.assets \in Seq(R) /\ body.icon \in Seq(Assets)
    BY BodiesAssumption
  <1>2. \A x \in R : x.references \in Seq(Assets)
    OBVIOUS
  <1>3. \A i \in DOMAIN body.assets :
          IsArray(body.assets[i]) => body.assets[i].references = <<>>
    BY BodiesAssumption DEF IsArray
  <1> HIDE DEF R
  <1>. QED  BY <1>1, <1>2, <1>3

(* What will be built is a list of parts, each with a list of references. *)
LEMMA PartFields ==
  ASSUME NEW body \in Bodies
  PROVE  /\ Len(Parts(body)) \in Nat
         /\ DOMAIN Parts(body) = 1 .. Len(Parts(body))
         /\ \A i \in DOMAIN Parts(body) : Parts(body)[i].references \in Seq(Assets)
  <1>1. CASE body.type \in NoteTypes
    <2>1. Parts(body) = body.assets
      BY <1>1 DEF Parts, NoteTypes
    <2>. QED  BY <2>1, BodyFields
  <1>2. CASE body.type = "profile"
    <2>1. Parts(body) = [i \in 1 .. Len(body.icon) |->
                           [type |-> "icon", references |-> <<body.icon[i]>>, href |-> FALSE]]
      BY <1>2, BodyFields DEF Parts, NoteTypes
    <2>2. \A i \in 1 .. Len(body.icon) : <<body.icon[i]>> \in Seq(Assets)
      <3>1. ASSUME NEW a \in Assets PROVE <<a>> \in Seq(Assets)
        OBVIOUS
      <3>2. \A i \in 1 .. Len(body.icon) : body.icon[i] \in Assets
        BY BodyFields
      <3>. QED  BY <3>1, <3>2
    <2>3. Len(body.icon) \in Nat
      BY BodyFields
    <2>4. DOMAIN Parts(body) = 1 .. Len(body.icon)
      BY <2>1
    <2>5. Len(Parts(body)) = Len(body.icon)
      BY <2>1, <2>3
    <2>6. \A i \in 1 .. Len(body.icon) : Parts(body)[i].references = <<body.icon[i]>>
      BY <2>1
    <2>. QED  BY <2>2, <2>3, <2>4, <2>5, <2>6
  <1>3. CASE body.type \notin NoteTypes /\ body.type # "profile"
    BY <1>3 DEF Parts
  <1>. QED  BY <1>1, <1>2, <1>3

(* The references of the parts are the references of the request. *)
LEMMA PartReferences ==
  ASSUME NEW body \in Bodies
  PROVE  /\ References(body) \subseteq Assets
         /\ \A i \in DOMAIN Parts(body) : \A j \in DOMAIN Parts(body)[i].references :
              Parts(body)[i].references[j] \in References(body)
  <1> DEFINE P == Parts(body)
  <1>1. References(body) = UNION {ToSet(part.references) : part \in ToSet(P)}
    BY DEF References
  <1>2. ToSet(P) = {P[i] : i \in DOMAIN P}
    BY DEF ToSet
  <1>3. \A i \in DOMAIN P : /\ ToSet(P[i].references) = {P[i].references[j] :
                                                           j \in DOMAIN P[i].references}
                            /\ ToSet(P[i].references) \subseteq Assets
    BY PartFields DEF ToSet
  <1> HIDE DEF P
  <1>4. \A i \in DOMAIN P : ToSet(P[i].references) \subseteq References(body)
    BY <1>1, <1>2
  <1>5. References(body) \subseteq Assets
    BY <1>1, <1>2, <1>3
  <1>6. \A i \in DOMAIN P : \A j \in DOMAIN P[i].references :
          P[i].references[j] \in ToSet(P[i].references)
    BY <1>3
  <1>7. \A i \in DOMAIN P : \A j \in DOMAIN P[i].references :
          P[i].references[j] \in References(body)
    BY <1>4, <1>6
  <1>. QED  BY <1>5, <1>7 DEF P

(* The icons of a profile are its parts; no other request has a part of that type, and the  *)
(* parts that wait for something have a reference to wait for, unless they are an array.    *)
LEMMA ValidParts ==
  ASSUME NEW body \in Bodies, Valid(body), NEW i \in DOMAIN Parts(body)
  PROVE  /\ Parts(body)[i].type \in PartTypes \/ IsArray(Parts(body)[i])
         /\ Parts(body)[i].type = "icon" => body.type = "profile"
         /\ Parts(body)[i].type # "link" =>
              \/ IsArray(Parts(body)[i])
              \/ \E j \in Nat : j \in DOMAIN Parts(body)[i].references
         /\ IsArray(Parts(body)[i]) => /\ Parts(body)[i].references = <<>>
                                       /\ Parts(body)[i] \in ToSet(body.assets)
  <1>1. CASE body.type \in NoteTypes
    <2>1. Parts(body) = body.assets
      BY <1>1 DEF Parts, NoteTypes
    <2>2. ValidAsset(Parts(body)[i])
      BY <1>1, <2>1 DEF Valid, ValidNote, ToSet
    <2>3. Parts(body)[i].references \in Seq(Assets)
      BY PartFields
    <2>4. Parts(body)[i].references # <<>> => 1 \in DOMAIN Parts(body)[i].references
      BY <2>3
    <2>5. IsArray(Parts(body)[i]) => /\ Parts(body)[i].references = <<>>
                                     /\ Parts(body)[i] \in ToSet(body.assets)
      BY <2>1, BodyFields DEF ToSet
    <2>. QED  BY <2>2, <2>4, <2>5 DEF ValidAsset, PartTypes, IsArray
  <1>2. CASE body.type = "profile"
    <2>1. Parts(body)[i] = [type |-> "icon", references |-> <<body.icon[i]>>, href |-> FALSE]
      BY <1>2 DEF Parts, NoteTypes
    <2>2. /\ Parts(body)[i].type = "icon"
          /\ Parts(body)[i].references = <<body.icon[i]>>
      BY <2>1
    <2>3. 1 \in DOMAIN <<body.icon[i]>>
      OBVIOUS
    <2>4. 1 \in DOMAIN Parts(body)[i].references
      BY <2>2, <2>3
    <2>. QED  BY <1>2, <2>2, <2>4 DEF PartTypes, IsArray
  <1>3. CASE body.type \notin NoteTypes /\ body.type # "profile"
    BY <1>3 DEF Parts
  <1>. QED  BY <1>1, <1>2, <1>3

(* MIME types that a request goes on with are a map of some assets. *)
LEMMA MimesAreMimes ==
  ASSUME NEW body \in Bodies, NEW mimes \in MimesOf(body)
  PROVE  /\ mimes \in UNION {[A -> MimeTypes] : A \in SUBSET Assets}
         /\ DOMAIN mimes = References(body)
         /\ \A a \in References(body) : mimes[a] \in MimeTypes
         /\ body.type = "profile" => \A a \in References(body) : mimes[a] \in Images
  <1>1. Images \subseteq MimeTypes
    BY DEF MimeTypes
  <1>2. mimes \in [References(body) -> MimeTypes]
    BY <1>1 DEF MimesOf
  <1>3. References(body) \in SUBSET Assets
    BY PartReferences
  <1>4. mimes \in UNION {[A -> MimeTypes] : A \in SUBSET Assets}
    BY <1>2, <1>3
  <1>. QED  BY <1>2, <1>4 DEF MimesOf

(* A request that was validated can be built, but for what the DTOs overlook. *)
LEMMA ValidIsBuildable ==
  ASSUME NEW job, job.body \in Bodies, Valid(job.body)
  PROVE  Errors(job) \subseteq Overlooked(job.body)
  <1> DEFINE b == job.body
  <1>1. "tag" \in Errors(job) => "tag" \in Overlooked(b)
    <2>1. b.type \in NoteTypes \cup {"profile"} => \A tag \in ToSet(b.tags) : ValidTag(tag)
      BY DEF Valid, ValidNote, ValidProfile
    <2>2. ASSUME "tag" \in Errors(job) PROVE \E tag \in ToSet(b.tags) : IsArray(tag)
      BY <2>1, <2>2 DEF Errors, ValidTag
    <2>. QED  BY <2>2 DEF Overlooked
  <1>2. "attachment" \in Errors(job) => "attachment" \in Overlooked(b)
    <2>1. ASSUME NEW part \in ToSet(Parts(b))
          PROVE  part.type \in PartTypes \/ (IsArray(part) /\ part \in ToSet(b.assets))
      <3>1. PICK i \in DOMAIN Parts(b) : part = Parts(b)[i]
        BY DEF ToSet
      <3>2. /\ Parts(b)[i].type \in PartTypes \/ IsArray(Parts(b)[i])
            /\ IsArray(Parts(b)[i]) => Parts(b)[i] \in ToSet(b.assets)
        BY ValidParts
      <3>. QED  BY <3>1, <3>2
    <2>2. ASSUME "attachment" \in Errors(job)
          PROVE  \E asset \in ToSet(b.assets) : IsArray(asset)
      BY <2>1, <2>2 DEF Errors
    <2>. QED  BY <2>2 DEF Overlooked
  <1>3. "target" \notin Errors(job)
    BY DEF Errors, Valid
  <1>4. "date" \in Errors(job) => "date" \in Overlooked(b)
    <2>1. ASSUME "date" \in Errors(job)
          PROVE  b.array \/ (IsISO8601(b.published) /\ ~IsJsDate(b.published))
      BY <2>1 DEF Errors, Valid, ValidNote
    <2>. QED  BY <2>1 DEF Overlooked
  <1>5. Errors(job) \subseteq {"tag", "attachment", "target", "date"}
    BY DEF Errors
  <1>. QED  BY <1>1, <1>2, <1>3, <1>4, <1>5

-----------------------------------------------------------------------------
(* The invariant holds when nothing is there. *)
LEMMA InitStep ==
  ASSUME Init
  PROVE  IInv
  <1> USE DEF Init
  <1>1. environment \in Environments /\ mime \in [Assets -> MimeTypes \cup {None}]
    OBVIOUS
  <1>2. \A r \in Requests : RequestShape(r)
    BY DEF RequestShape, RequestRec, NoRequest
  <1>3. DOMAIN request = Requests /\ DOMAIN jobs = {}
    OBVIOUS
  <1>4. Announcements = {}
    BY DEF Announcements
  <1>5. Queued
    BY DEF Queued
  <1>. QED  BY <1>1, <1>2, <1>3, <1>4, <1>5 DEF IInv, OneNote, Filed

-----------------------------------------------------------------------------
(* Steps of the API. *)

(* A step that leaves jobs, queues and files alone keeps what is said of them. *)
LEMMA RequestStep ==
  ASSUME IInv, UNCHANGED <<environment, jobs, queues, files>>,
         mime' \in [Assets -> MimeTypes \cup {None}],
         DOMAIN request' = Requests, \A r \in Requests : RequestShape(r)'
  PROVE  IInv'
  <1>1. \A id \in DOMAIN jobs : JobShape(id)'
    BY DEF IInv, JobShape
  <1>2. Announcements' = Announcements
    BY DEF Announcements
  <1>3. \A n \in Announcements : NoteShape(n)'
    BY DEF IInv, NoteShape
  <1>4. OneNote' /\ Queued' /\ Filed'
    BY <1>2 DEF IInv, OneNote, Queued, Filed
  <1>. QED  BY <1>1, <1>2, <1>3, <1>4 DEF IInv

(* An upload changes nothing for the requests that have looked. *)
LEMMA SetMetadataStep ==
  ASSUME IInv, NEW a \in Assets, NEW type \in MimeTypes \cup {None}, SetMetadata(a, type)
  PROVE  IInv'
  <1>1. mime' \in [Assets -> MimeTypes \cup {None}] /\ request' = request
    BY DEF SetMetadata, IInv
  <1>2. DOMAIN request' = Requests /\ \A r \in Requests : RequestShape(r)'
    BY <1>1 DEF IInv, RequestShape, SetMetadata
  <1>. QED  BY <1>1, <1>2, RequestStep DEF SetMetadata

(* A request is rejected. *)
LEMMA RejectStep ==
  ASSUME IInv, NEW r \in Requests, NEW body \in Bodies, Reject(r, body)
  PROVE  IInv'
  <1>1. /\ request' = [request EXCEPT ![r].pc = "rejected"] /\ mime' = mime
        /\ request[r] = NoRequest /\ DOMAIN request = Requests
    BY DEF Reject, IInv
  <1>2. request'[r] = [NoRequest EXCEPT !.pc = "rejected"]
    BY <1>1
  <1>3. RequestShape(r)'
    BY <1>2 DEF RequestShape, RequestRec, NoRequest
  <1>4. \A s \in Requests : s # r => RequestShape(s)'
    BY <1>1 DEF RequestShape, IInv, Reject
  <1>. QED  BY <1>1, <1>3, <1>4, RequestStep DEF Reject, IInv

(* A request is accepted with the MIME types of all its references. *)
LEMMA AcceptStep ==
  ASSUME IInv, NEW r \in Requests, NEW body \in Bodies, Accept(r, body)
  PROVE  IInv'
  <1> DEFINE new == [pc |-> "accepted", body |-> body,
                     mimes |-> AssetToMimeType(body), id |-> None]
  <1>1. /\ request' = [request EXCEPT ![r] = new] /\ mime' = mime
        /\ DOMAIN request = Requests /\ Valid(body)
    BY DEF Accept, IInv
  <1>2. AssetToMimeType(body) \in MimesOf(body)
    <2>1. References(body) \subseteq Assets
      BY PartReferences
    <2>2. \A a \in References(body) : mime[a] \in MimeTypes
      BY <2>1 DEF IInv, Accept, AssetsAreKnown
    <2>3. body.type = "profile" => \A a \in References(body) : mime[a] \in Images
      BY DEF Accept, AssetsAreKnown
    <2>. QED  BY <2>2, <2>3 DEF MimesOf, AssetToMimeType
  <1>3. AssetToMimeType(body) \in UNION {[A -> MimeTypes] : A \in SUBSET Assets}
    BY <1>2, MimesAreMimes
  <1>4. request'[r] = new
    BY <1>1
  <1>5. RequestShape(r)'
    BY <1>1, <1>2, <1>3, <1>4 DEF RequestShape, RequestRec
  <1>6. \A s \in Requests : s # r => RequestShape(s)'
    BY <1>1 DEF RequestShape, IInv, Accept
  <1>. QED  BY <1>1, <1>5, <1>6, RequestStep DEF Accept, IInv

(* A step that changes one job, which is not done, or adds it. *)
LEMMA JobStep ==
  ASSUME IInv, UNCHANGED <<environment, mime, queues, files>>,
         NEW id, DOMAIN jobs' = DOMAIN jobs \cup {id},
         \A i \in DOMAIN jobs : i # id => jobs'[i] = jobs[i],
         id \in DOMAIN jobs => jobs[id].pc # "done",
         JobShape(id)',
         DOMAIN request' = Requests, \A r \in Requests : RequestShape(r)'
  PROVE  IInv'
  <1>1. \A i \in DOMAIN jobs' : JobShape(i)'
    <2>1. ASSUME NEW i \in DOMAIN jobs, i # id PROVE JobShape(i)'
      BY <2>1 DEF IInv, JobShape
    <2>. QED  BY <2>1
  <1>2. Announcements' = Announcements
    BY DEF Announcements
  <1>3. ASSUME NEW n \in Announcements PROVE NoteShape(n)'
    <2>1. NoteShape(n) /\ <<n.content>> # id
      BY DEF IInv, NoteShape
    <2>. QED  BY <2>1 DEF NoteShape
  <1>4. OneNote' /\ Queued' /\ Filed'
    BY <1>2 DEF IInv, OneNote, Queued, Filed
  <1>. QED  BY <1>1, <1>2, <1>3, <1>4 DEF IInv

(* A job is added, or the one that is there is the answer. *)
LEMMA EnqueueRequestStep ==
  ASSUME IInv, NEW r \in Requests, EnqueueRequest(r)
  PROVE  IInv'
  <1>. PICK body, id : body = request[r].body /\ id = <<body>>
    OBVIOUS
  <1>1. /\ request[r].pc = "accepted" /\ UNCHANGED <<environment, mime, queues, files>>
        /\ jobs' = [i \in DOMAIN jobs \cup {id} |->
                      IF i \in DOMAIN jobs THEN jobs[i] ELSE NewJob(r)]
        /\ request' = [request EXCEPT ![r].pc = "answered", ![r].id = id, ![r].mimes = <<>>]
    BY DEF EnqueueRequest, CalculateJobId
  <1>2. /\ request[r] \in RequestRec /\ body \in Bodies /\ Valid(body)
        /\ request[r].mimes \in MimesOf(body) /\ DOMAIN request = Requests
    BY <1>1 DEF IInv, RequestShape
  <1>3. /\ DOMAIN jobs' = DOMAIN jobs \cup {id}
        /\ \A i \in DOMAIN jobs : jobs'[i] = jobs[i]
        /\ id \notin DOMAIN jobs => jobs'[id] = NewJob(r)
    BY <1>1
  <1>4. RequestShape(r)'
    <2>1. request'[r] = [request[r] EXCEPT !.pc = "answered", !.id = id, !.mimes = <<>>]
      BY <1>1, <1>2
    <2>2. id \in {<<b>> : b \in Bodies} \cup {None}
      BY <1>2
    <2>3. request'[r] \in RequestRec
      BY <1>2, <2>1, <2>2 DEF RequestRec
    <2>4. request'[r].pc = "answered" /\ request'[r].body = body /\ request'[r].id = id
      BY <1>2, <2>1 DEF RequestRec
    <2>. QED  BY <1>2, <1>3, <2>3, <2>4 DEF RequestShape
  <1>5. \A s \in Requests : s # r => RequestShape(s)'
    BY <1>1, <1>2, <1>3 DEF RequestShape, IInv
  <1>6. \A s \in Requests : RequestShape(s)'
    BY <1>4, <1>5
  <1>7. DOMAIN request' = Requests
    BY <1>1, <1>2
  <1>8. CASE id \in DOMAIN jobs
    <2>1. \A i \in DOMAIN jobs : JobShape(i)'
      BY <1>3 DEF IInv, JobShape
    <2>2. Announcements' = Announcements
      BY <1>1 DEF Announcements
    <2>3. \A n \in Announcements : NoteShape(n)'
      BY <1>3 DEF IInv, NoteShape
    <2>4. OneNote' /\ Queued' /\ Filed'
      BY <1>1, <2>2 DEF IInv, OneNote, Queued, Filed
    <2>5. DOMAIN jobs' = DOMAIN jobs
      BY <1>3, <1>8
    <2>. QED  BY <1>1, <1>6, <1>7, <2>1, <2>2, <2>3, <2>4, <2>5 DEF IInv
  <1>9. CASE id \notin DOMAIN jobs
    <2>1. NewJob(r) = [pc |-> "wait", body |-> body, mimes |-> request[r].mimes,
                       todo |-> {}, links |-> <<>>, attachments |-> <<>>, error |-> "none"]
      BY DEF NewJob
    <2>2. request[r].mimes \in UNION {[A -> MimeTypes] : A \in SUBSET Assets}
      BY <1>2, MimesAreMimes
    <2>3. NewJob(r) \in JobRec
      BY <1>2, <2>1, <2>2 DEF JobRec
    <2>4. /\ jobs'[id] \in JobRec /\ jobs'[id].pc = "wait" /\ jobs'[id].body = body
          /\ jobs'[id].mimes = request[r].mimes
      BY <1>3, <1>9, <2>1, <2>3
    <2>5. JobShape(id)'
      BY <1>2, <2>4 DEF JobShape
    <2>. QED  BY <1>1, <1>3, <1>6, <1>7, <1>9, <2>5, JobStep
  <1>. QED  BY <1>8, <1>9

-----------------------------------------------------------------------------
(* Steps of the worker. *)

(* One to one: a finite set has as many elements as numbers up to its cardinality. *)
LEMMA Numbered ==
  ASSUME NEW S, IsFiniteSet(S)
  PROVE  /\ Cardinality(S) \in Nat
         /\ \E g \in [1 .. Cardinality(S) -> S] :
              /\ \A k, l \in 1 .. Cardinality(S) : g[k] = g[l] => k = l
              /\ \A i \in S : \E k \in 1 .. Cardinality(S) : g[k] = i
  <1>1. Cardinality(S) \in Nat /\ ExistsBijection(1 .. Cardinality(S), S)
    BY FS_CardinalityType
  <1>. QED  BY <1>1 DEF ExistsBijection, Bijection, Injection, Surjection, IsInjective

(* A job that runs has a body that was validated. *)
LEMMA JobBody ==
  ASSUME IInv, NEW id \in DOMAIN jobs
  PROVE  /\ jobs[id].body \in Bodies /\ jobs[id] \in JobRec /\ JobShape(id)
         /\ DOMAIN request = Requests /\ \A r \in Requests : RequestShape(r)
  BY DEF IInv, JobShape, JobRec

(* The links are attached, the other parts wait for their references. *)
LEMMA StartJobStep ==
  ASSUME IInv, NEW id \in DOMAIN jobs, StartJob(id)
  PROVE  IInv'
  <1> DEFINE body == jobs[id].body
             P == Parts(body)
             waiting == {i \in DOMAIN P : P[i].type # "link"}
             n == Cardinality(DOMAIN P \ waiting)
             todo == UNION {{i} \X DOMAIN P[i].references : i \in waiting}
             links == [i \in DOMAIN P |-> <<>>]
             attachments == [i \in 1 .. n |-> Attachment([type |-> "link"], <<>>)]
  <1>1. /\ jobs[id].pc = "wait" /\ UNCHANGED <<environment, mime, request, queues, files>>
        /\ jobs' = [jobs EXCEPT ![id].pc = "build", ![id].todo = todo,
                                ![id].links = links, ![id].attachments = attachments]
    BY DEF StartJob
  <1>2. body \in Bodies /\ jobs[id] \in JobRec /\ JobShape(id)
    BY JobBody
  <1>3. jobs'[id] = [jobs[id] EXCEPT !.pc = "build", !.todo = todo,
                                     !.links = links, !.attachments = attachments]
    BY <1>1
  <1>4. Len(P) \in Nat /\ DOMAIN P = 1 .. Len(P)
    BY <1>2, PartFields
  <1>5. PICK g \in [1 .. n -> DOMAIN P \ waiting] :
              /\ n \in Nat
              /\ \A k, l \in 1 .. n : g[k] = g[l] => k = l
              /\ \A i \in DOMAIN P \ waiting : \E k \in 1 .. n : g[k] = i
    <2> DEFINE S == DOMAIN P \ waiting
    <2>1. IsFiniteSet(1 .. Len(P))
      BY <1>4, FS_Interval
    <2>2. S \subseteq 1 .. Len(P)
      BY <1>4
    <2> HIDE DEF S
    <2>3. IsFiniteSet(S)
      BY <2>1, <2>2, FS_Subset
    <2>4. /\ Cardinality(S) \in Nat
          /\ \E g \in [1 .. Cardinality(S) -> S] :
               /\ \A k, l \in 1 .. Cardinality(S) : g[k] = g[l] => k = l
               /\ \A i \in S : \E k \in 1 .. Cardinality(S) : g[k] = i
      BY <2>3, Numbered
    <2>. QED  BY <2>4 DEF S
  <1>6. \A t \in todo : /\ t = <<t[1], t[2]>> /\ t[1] \in waiting
                        /\ t[2] \in DOMAIN P[t[1]].references
    OBVIOUS
  <1>7. \A i \in waiting : IsArray(P[i]) \/ \E j \in Nat : <<i, j>> \in todo
    <2>1. ASSUME NEW i \in waiting
          PROVE  IsArray(P[i]) \/ \E j \in Nat : j \in DOMAIN P[i].references
      BY <1>2, ValidParts DEF JobShape
    <2>. QED  BY <2>1
  <1>8. todo \in SUBSET (Nat \X Nat)
    <2>1. ASSUME NEW i \in DOMAIN P PROVE i \in Nat /\ DOMAIN P[i].references \subseteq Nat
      <3>1. P[i].references \in Seq(Assets)
        BY <1>2, PartFields
      <3>2. DOMAIN P[i].references = 1 .. Len(P[i].references) /\ Len(P[i].references) \in Nat
        BY <3>1
      <3>. QED  BY <1>4, <3>2
    <2>. QED  BY <2>1
  <1>9. /\ links \in Seq(Seq(LinkRec)) /\ DOMAIN links = DOMAIN P
        /\ \A i \in DOMAIN P : links[i] = <<>>
    BY <1>4
  <1>10. /\ attachments \in Seq(AttachmentRec) /\ DOMAIN attachments = 1 .. n
         /\ \A k \in 1 .. n : attachments[k].type = "link" /\ attachments[k].links = <<>>
    <2>1. Attachment([type |-> "link"], <<>>) = [type |-> "link", links |-> <<>>]
      BY DEF Attachment
    <2>2. [type |-> "link", links |-> <<>>] \in AttachmentRec
      BY DEF AttachmentRec, PartTypes
    <2>. QED  BY <1>5, <2>1, <2>2
  <1> HIDE DEF todo, links, attachments, n, waiting, P
  <1>11. /\ jobs'[id] \in JobRec /\ jobs'[id].body = body /\ jobs'[id].mimes = jobs[id].mimes
         /\ jobs'[id].pc = "build" /\ jobs'[id].todo = todo
         /\ jobs'[id].links = links /\ jobs'[id].attachments = attachments
    BY <1>2, <1>3, <1>8, <1>9, <1>10 DEF JobRec, LinkRec, AttachmentRec
  <1>12. TodoShape(jobs'[id])
    BY <1>6, <1>11 DEF TodoShape, P, waiting
  <1>13. LinksShape(jobs'[id])
    <2>1. ASSUME NEW i \in DOMAIN P, P[i].type # "link" PROVE Fetched(jobs'[id], i) = {}
      <3>1. \A k \in DOMAIN P[i].references : <<i, k>> \in todo
        BY <2>1 DEF todo, waiting
      <3>. QED  BY <1>11, <3>1 DEF Fetched, P
    <2>2. \A i \in DOMAIN P : ToSet(links[i]) = {} /\ DOMAIN links[i] = {}
      BY <1>9 DEF ToSet
    <2>. QED  BY <1>9, <1>11, <2>1, <2>2 DEF LinksShape, P
  <1>14. IconsAre(attachments)
    BY <1>10 DEF IconsAre
  <1>15. Complete(jobs'[id]) = DOMAIN P \ waiting
    <2>1. Complete(jobs'[id]) = {i \in DOMAIN P : ~IsArray(P[i]) /\ \A t \in todo : t[1] # i}
      BY <1>11 DEF Complete, P
    <2>2. \A i \in waiting : IsArray(P[i]) \/ \E t \in todo : t[1] = i
      BY <1>7
    <2>3. \A i \in DOMAIN P \ waiting : ~IsArray(P[i]) /\ \A t \in todo : t[1] # i
      BY <1>6 DEF waiting, IsArray
    <2>4. waiting \subseteq DOMAIN P
      BY DEF waiting
    <2>. QED  BY <2>1, <2>2, <2>3, <2>4
  <1>16. Matches(g, attachments, P, DOMAIN P \ waiting)
    <2>1. \A k \in 1 .. n : Shape(attachments[k]) = [type |-> "link", references |-> {}]
      <3>1. ToSet(<<>>) = {}
        BY DEF ToSet
      <3>. QED  BY <1>10, <3>1 DEF Shape
    <2>2. \A k \in 1 .. n : P[g[k]].type = "link"
      <3>1. \A k \in 1 .. n : g[k] \in DOMAIN P \ waiting
        BY <1>5
      <3>. QED  BY <3>1 DEF waiting
    <2>3. \A k \in 1 .. n : Asked(P[g[k]]) = [type |-> "link", references |-> {}]
      BY <2>2 DEF Asked
    <2>. QED  BY <1>5, <1>10, <2>1, <2>3 DEF Matches
  <1>17. Match(attachments, P, DOMAIN P \ waiting)
    BY <1>5, <1>10, <1>16 DEF Match
  <1>18. JobShape(id)'
    BY <1>2, <1>11, <1>12, <1>13, <1>14, <1>15, <1>17 DEF JobShape, P
  <1>19. /\ DOMAIN jobs' = DOMAIN jobs \cup {id}
         /\ \A i \in DOMAIN jobs : i # id => jobs'[i] = jobs[i]
    BY <1>1
  <1>20. DOMAIN request' = Requests /\ \A r \in Requests : RequestShape(r)'
    BY <1>1, <1>19, JobBody DEF RequestShape
  <1>. QED  BY <1>1, <1>18, <1>19, <1>20, JobStep

(* One more attachment, for one more part. *)
LEMMA MatchAppend ==
  ASSUME NEW s \in Seq(AttachmentRec), NEW x \in AttachmentRec, NEW parts, NEW I,
         Match(s, parts, I), NEW i, i \notin I, Shape(x) = Asked(parts[i])
  PROVE  Match(Append(s, x), parts, I \cup {i})
  <1>1. PICK g \in [DOMAIN s -> I] : Matches(g, s, parts, I)
    BY DEF Match
  <1> DEFINE n == Len(s)
             h == [k \in 1 .. n + 1 |-> IF k = n + 1 THEN i ELSE g[k]]
             J == I \cup {i}
  <1>2. n \in Nat /\ DOMAIN s = 1 .. n
    OBVIOUS
  <1>3. /\ DOMAIN Append(s, x) = 1 .. n + 1
        /\ Append(s, x)[n + 1] = x
        /\ \A k \in 1 .. n : Append(s, x)[k] = s[k]
    OBVIOUS
  <1>4. /\ h \in [1 .. n + 1 -> J] /\ h[n + 1] = i
        /\ \A k \in 1 .. n : h[k] = g[k]
    BY <1>2
  <1>5. \A k \in 1 .. n + 1 : k \in 1 .. n \/ k = n + 1
    BY <1>2
  <1> HIDE DEF n, h
  <1>6. \A k \in 1 .. n : g[k] \in I /\ g[k] # i
    BY <1>2
  <1>7. \A k, l \in 1 .. n + 1 : h[k] = h[l] => k = l
    BY <1>1, <1>2, <1>4, <1>5, <1>6 DEF Matches
  <1>8. \A e \in J : \E k \in 1 .. n + 1 : h[k] = e
    <2>1. 1 .. n \subseteq 1 .. n + 1 /\ n + 1 \in 1 .. n + 1
      BY <1>2
    <2>. QED  BY <1>1, <1>2, <1>4, <2>1 DEF Matches
  <1>9. \A k \in 1 .. n + 1 : Shape(Append(s, x)[k]) = Asked(parts[h[k]])
    BY <1>1, <1>2, <1>3, <1>4, <1>5 DEF Matches
  <1>10. Matches(h, Append(s, x), parts, J)
    BY <1>3, <1>4, <1>7, <1>8, <1>9 DEF Matches
  <1>. QED  BY <1>3, <1>4, <1>10 DEF Match

(* One more link, or one more attachment. *)
LEMMA AppendLink ==
  ASSUME NEW s \in Seq(LinkRec), NEW x \in LinkRec
  PROVE  /\ Append(s, x) \in Seq(LinkRec)
         /\ {m.reference : m \in ToSet(Append(s, x))} =
              {m.reference : m \in ToSet(s)} \cup {x.reference}
         /\ (/\ x.mediaType \in Images
             /\ \A l \in DOMAIN s : s[l].mediaType \in Images) =>
               \A l \in DOMAIN Append(s, x) : Append(s, x)[l].mediaType \in Images
  <1> DEFINE S == Append(s, x)
  <1>1. /\ Len(s) \in Nat /\ DOMAIN s = 1 .. Len(s) /\ DOMAIN S = 1 .. Len(s) + 1
        /\ S[Len(s) + 1] = x /\ S \in Seq(LinkRec)
        /\ \A l \in 1 .. Len(s) : S[l] = s[l]
    OBVIOUS
  <1> HIDE DEF S
  <1>2. \A l \in 1 .. Len(s) + 1 : l \in 1 .. Len(s) \/ l = Len(s) + 1
    BY <1>1
  <1>3. 1 .. Len(s) \subseteq 1 .. Len(s) + 1 /\ Len(s) + 1 \in 1 .. Len(s) + 1
    BY <1>1
  <1>4. ToSet(S) = ToSet(s) \cup {x}
    <2>1. ToSet(S) \subseteq ToSet(s) \cup {x}
      BY <1>1, <1>2 DEF ToSet
    <2>2. ToSet(s) \cup {x} \subseteq ToSet(S)
      BY <1>1, <1>3 DEF ToSet
    <2>. QED  BY <2>1, <2>2
  <1>5. {m.reference : m \in ToSet(S)} = {m.reference : m \in ToSet(s)} \cup {x.reference}
    BY <1>4
  <1>6. (/\ x.mediaType \in Images
         /\ \A l \in DOMAIN s : s[l].mediaType \in Images) =>
           \A l \in DOMAIN S : S[l].mediaType \in Images
    BY <1>1, <1>2
  <1>. QED  BY <1>1, <1>5, <1>6 DEF S

(* An icon that is appended to attachments is an image like the others. *)
LEMMA AppendAttachment ==
  ASSUME NEW s \in Seq(AttachmentRec), NEW x \in AttachmentRec, IconsAre(s),
         x.type = "icon" => \A l \in DOMAIN x.links : x.links[l].mediaType \in Images
  PROVE  Append(s, x) \in Seq(AttachmentRec) /\ IconsAre(Append(s, x))
  <1> DEFINE S == Append(s, x)
  <1>1. /\ Len(s) \in Nat /\ DOMAIN s = 1 .. Len(s) /\ DOMAIN S = 1 .. Len(s) + 1
        /\ S[Len(s) + 1] = x /\ S \in Seq(AttachmentRec)
        /\ \A l \in 1 .. Len(s) : S[l] = s[l]
    OBVIOUS
  <1> HIDE DEF S
  <1>2. \A l \in 1 .. Len(s) + 1 : l \in 1 .. Len(s) \/ l = Len(s) + 1
    BY <1>1
  <1>3. IconsAre(S)
    BY <1>1, <1>2 DEF IconsAre
  <1>. QED  BY <1>1, <1>3 DEF S

(* A link has the reference it is for and the MIME type of the API's look. *)
LEMMA LinkOfReference ==
  ASSUME NEW job, job.body \in Bodies, job.mimes \in MimesOf(job.body),
         NEW a \in References(job.body)
  PROVE  /\ Link(job, a) \in LinkRec
         /\ Link(job, a).reference = a
         /\ job.body.type = "profile" => Link(job, a).mediaType \in Images
  <1>1. /\ DOMAIN job.mimes = References(job.body)
        /\ job.mimes[a] \in MimeTypes
        /\ job.body.type = "profile" => job.mimes[a] \in Images
        /\ a \in Assets
    BY MimesAreMimes, PartReferences
  <1>2. Link(job, a) = [reference |-> a, mediaType |-> job.mimes[a]]
    BY <1>1 DEF Link
  <1>. QED  BY <1>1, <1>2 DEF LinkRec

(* A reference is here, and the attachment if it was the last. *)
LEMMA HashReferenceStep ==
  ASSUME IInv, NEW id \in DOMAIN jobs, NEW t \in jobs[id].todo, HashReference(id, t[1], t[2])
  PROVE  IInv'
  <1>a. PICK job, body, P, i, j, part, a, link :
         /\ job = jobs[id] /\ body = job.body /\ P = Parts(body) /\ i = t[1] /\ j = t[2]
         /\ part = P[i] /\ a = part.references[j] /\ link = Link(job, a)
    OBVIOUS
  <1>b. PICK links, last : links = Append(job.links[i], link) /\ last = Attachment(part, links)
    OBVIOUS
  <1>1. /\ job.pc = "build" /\ UNCHANGED <<environment, mime, request, queues, files>>
        /\ jobs' = [jobs EXCEPT ![id].todo = job.todo \ {<<i, j>>}, ![id].links[i] = links,
              ![id].attachments = IF LastIsHere(job, i, j) THEN Append(job.attachments, last)
                                                           ELSE job.attachments]
    BY <1>a, <1>b DEF HashReference
  <1>2. body \in Bodies /\ job \in JobRec /\ JobShape(id) /\ id = <<body>>
    BY <1>a, JobBody DEF JobShape
  <1>3. jobs'[id] = [job EXCEPT !.todo = job.todo \ {<<i, j>>}, !.links[i] = links,
              !.attachments = IF LastIsHere(job, i, j) THEN Append(job.attachments, last)
                                                       ELSE job.attachments]
    BY <1>1, <1>a
  <1>4. /\ Valid(body) /\ job.mimes \in MimesOf(body) /\ TodoShape(job) /\ LinksShape(job)
        /\ IconsAre(job.attachments) /\ Match(job.attachments, P, Complete(job))
    BY <1>1, <1>2, <1>a DEF JobShape
  <1>5. /\ i \in DOMAIN P /\ part.type # "link" /\ j \in DOMAIN part.references
        /\ t = <<i, j>> /\ <<i, j>> \in job.todo
        /\ \A u \in job.todo : u = <<u[1], u[2]>>
    <2>1. job.todo \in SUBSET (Nat \X Nat)
      BY <1>2 DEF JobRec
    <2>2. \A u \in job.todo : u = <<u[1], u[2]>>
      BY <2>1
    <2>. QED  BY <1>4, <1>a, <2>2 DEF TodoShape
  <1>6. a \in References(body)
    BY <1>2, <1>5, <1>a, PartReferences
  <1>7. /\ link \in LinkRec /\ link.reference = a
        /\ body.type = "profile" => link.mediaType \in Images
    <2>1. job.body \in Bodies /\ job.mimes \in MimesOf(job.body) /\ a \in References(job.body)
      BY <1>2, <1>4, <1>6, <1>a
    <2>2. /\ Link(job, a) \in LinkRec /\ Link(job, a).reference = a
          /\ job.body.type = "profile" => Link(job, a).mediaType \in Images
      BY <2>1, LinkOfReference
    <2>. QED  BY <1>a, <2>2
  <1>8. /\ DOMAIN job.links = DOMAIN P
        /\ \A k \in DOMAIN P : P[k].type # "link" =>
             {m.reference : m \in ToSet(job.links[k])} = Fetched(job, k)
        /\ body.type = "profile" => \A k \in DOMAIN P : \A l \in DOMAIN job.links[k] :
             job.links[k][l].mediaType \in Images
    BY <1>4, <1>a DEF LinksShape
  <1>9. /\ job.links \in Seq(Seq(LinkRec)) /\ job.attachments \in Seq(AttachmentRec)
        /\ job.links[i] \in Seq(LinkRec)
    <2>1. job.links \in Seq(Seq(LinkRec)) /\ job.attachments \in Seq(AttachmentRec)
      BY <1>2 DEF JobRec, LinkRec, AttachmentRec
    <2>. QED  BY <1>5, <1>8, <2>1
  <1>10. /\ links \in Seq(LinkRec)
         /\ {m.reference : m \in ToSet(links)} =
              {m.reference : m \in ToSet(job.links[i])} \cup {a}
         /\ body.type = "profile" => \A l \in DOMAIN links : links[l].mediaType \in Images
    <2>1. body.type = "profile" => \A l \in DOMAIN job.links[i] :
            job.links[i][l].mediaType \in Images
      BY <1>5, <1>8
    <2>. QED  BY <1>7, <1>9, <1>b, <2>1, AppendLink
  <1>11. /\ part.type \in PartTypes /\ P[i].type # "link" /\ ~IsArray(P[i])
         /\ part.type = "icon" => body.type = "profile"
    <2>1. /\ part.type \in PartTypes \/ IsArray(part)
          /\ part.type = "icon" => body.type = "profile"
          /\ IsArray(part) => part.references = <<>>
      BY <1>2, <1>4, <1>5, <1>a, ValidParts
    <2>2. part.references # <<>>
      BY <1>5
    <2>. QED  BY <1>5, <1>a, <2>1, <2>2
  <1>12. last \in AttachmentRec /\ last.type = part.type /\ last.links = links
    BY <1>10, <1>11, <1>b DEF Attachment, AttachmentRec
  <1>13. /\ IconsAre(Append(job.attachments, last))
         /\ Append(job.attachments, last) \in Seq(AttachmentRec)
    BY <1>4, <1>9, <1>10, <1>11, <1>12, AppendAttachment
  <1>c. PICK new : new = jobs'[id]
    OBVIOUS
  <1>15. /\ new.pc = "build" /\ new.body = body /\ new.mimes = job.mimes
         /\ new.todo = job.todo \ {<<i, j>>}
         /\ new.links = [job.links EXCEPT ![i] = links]
         /\ new.attachments = IF LastIsHere(job, i, j) THEN Append(job.attachments, last)
                                                       ELSE job.attachments
         /\ new = [job EXCEPT !.todo = new.todo, !.links = new.links,
                              !.attachments = new.attachments]
    BY <1>1, <1>2, <1>3, <1>a, <1>c DEF JobRec
  <1>16. /\ new.links \in Seq(Seq(LinkRec)) /\ DOMAIN new.links = DOMAIN P
         /\ new.links[i] = links
         /\ \A k \in DOMAIN P : k # i => new.links[k] = job.links[k]
    BY <1>5, <1>8, <1>9, <1>10, <1>15
  <1>17. new.attachments \in Seq(AttachmentRec) /\ IconsAre(new.attachments)
    BY <1>4, <1>9, <1>13, <1>15
  <1>18. new \in JobRec
    <2>1. new.todo \in SUBSET (Nat \X Nat)
      BY <1>2, <1>15 DEF JobRec
    <2>. QED  BY <1>2, <1>15, <1>16, <1>17, <2>1 DEF JobRec, LinkRec, AttachmentRec
  <1>19. TodoShape(new)
    BY <1>4, <1>15, <1>a DEF TodoShape
  <1>d. \A k : /\ Fetched(new, k) = {P[k].references[l] :
                      l \in {m \in DOMAIN P[k].references : <<k, m>> \notin new.todo}}
               /\ Fetched(job, k) = {P[k].references[l] :
                      l \in {m \in DOMAIN P[k].references : <<k, m>> \notin job.todo}}
    <2>1. new.body = body
      BY <1>15
    <2>. QED  BY <1>a, <2>1 DEF Fetched
  <1>20. Fetched(new, i) = Fetched(job, i) \cup {a}
    <2>1. \A m : <<i, m>> \notin new.todo <=> m = j \/ <<i, m>> \notin job.todo
      BY <1>5, <1>15
    <2>2. a = P[i].references[j] /\ j \in DOMAIN P[i].references
      BY <1>5, <1>a
    <2>. QED  BY <1>d, <2>1, <2>2
  <1>21. \A k \in DOMAIN P : k # i => Fetched(new, k) = Fetched(job, k)
    <2>1. ASSUME NEW k \in DOMAIN P, k # i PROVE Fetched(new, k) = Fetched(job, k)
      <3>1. \A l : <<k, l>> \in new.todo <=> <<k, l>> \in job.todo
        BY <1>15, <2>1
      <3>. QED  BY <1>d, <3>1
    <2>. QED  BY <2>1
  <1>22. /\ \A k \in DOMAIN P : P[k].type # "link" =>
              {m.reference : m \in ToSet(new.links[k])} = Fetched(new, k)
         /\ LinksShape(new)
    <2>1. {m.reference : m \in ToSet(new.links[i])} = Fetched(new, i)
      BY <1>5, <1>8, <1>10, <1>11, <1>16, <1>20
    <2>2. ASSUME NEW k \in DOMAIN P, k # i, P[k].type # "link"
          PROVE  {m.reference : m \in ToSet(new.links[k])} = Fetched(new, k)
      BY <1>8, <1>16, <1>21, <2>2
    <2>3. \A k \in DOMAIN P : P[k].type # "link" =>
            {m.reference : m \in ToSet(new.links[k])} = Fetched(new, k)
      BY <2>1, <2>2
    <2>4. body.type = "profile" => \A k \in DOMAIN P : \A l \in DOMAIN new.links[k] :
            new.links[k][l].mediaType \in Images
      BY <1>8, <1>10, <1>16
    <2>5. LinksShape(new)
      BY <1>15, <1>16, <1>a, <2>3, <2>4 DEF LinksShape
    <2>. QED  BY <2>3, <2>5
  <1>23. Complete(new) = {k \in DOMAIN P : ~IsArray(P[k]) /\ \A u \in new.todo : u[1] # k}
    BY <1>15, <1>a DEF Complete
  <1>24. Complete(job) = {k \in DOMAIN P : ~IsArray(P[k]) /\ \A u \in job.todo : u[1] # k}
    BY <1>a DEF Complete
  <1>25. ASSUME LastIsHere(job, i, j)
         PROVE  Match(new.attachments, P, Complete(new))
    <2>1. new.attachments = Append(job.attachments, last)
      BY <1>15, <1>25
    <2>2. i \notin Complete(job)
      BY <1>5, <1>24
    <2>3. /\ \A u \in new.todo : u \in job.todo /\ u[1] # i
          /\ \A u \in job.todo : u[1] = i \/ u \in new.todo
      <3>1. \A u \in job.todo : u[1] = i => u = <<i, j>>
        BY <1>5, <1>25 DEF LastIsHere
      <3>. QED  BY <1>5, <1>15, <3>1
    <2>4. Complete(new) = Complete(job) \cup {i}
      BY <1>5, <1>11, <1>23, <1>24, <2>3
    <2>5. Shape(last) = Asked(P[i])
      <3>1. \A k : <<i, k>> \notin new.todo
        BY <2>3
      <3>2. Fetched(new, i) = ToSet(part.references)
        <4>1. part = P[i]
          BY <1>a
        <4>2. {m \in DOMAIN P[i].references : <<i, m>> \notin new.todo} = DOMAIN P[i].references
          BY <3>1
        <4>3. Fetched(new, i) = {P[i].references[l] : l \in DOMAIN P[i].references}
          BY <1>d, <4>2
        <4>. QED  BY <4>1, <4>3 DEF ToSet
      <3>3. {m.reference : m \in ToSet(links)} = ToSet(part.references)
        BY <1>5, <1>11, <1>16, <1>22, <3>2
      <3>. QED  BY <1>5, <1>12, <1>a, <3>3 DEF Shape, Asked
    <2>6. Match(job.attachments, P, Complete(job))
      BY <1>4
    <2>7. Match(Append(job.attachments, last), P, Complete(job) \cup {i})
      BY <1>9, <1>12, <2>2, <2>5, <2>6, MatchAppend
    <2>. QED  BY <2>1, <2>4, <2>7
  <1>26. ASSUME ~LastIsHere(job, i, j)
         PROVE  Match(new.attachments, P, Complete(new))
    <2>1. new.attachments = job.attachments
      BY <1>15, <1>26
    <2>2. PICK other \in job.todo : other[1] = i /\ other[2] # j
      BY <1>26 DEF LastIsHere
    <2>3. other \in new.todo
      BY <1>15, <2>2
    <2>4. \A u \in job.todo : u[1] = i \/ u \in new.todo
      BY <1>15
    <2>5. \A u \in new.todo : u \in job.todo
      BY <1>15
    <2>6. Complete(new) = Complete(job)
      BY <1>23, <1>24, <2>2, <2>3, <2>4, <2>5
    <2>. QED  BY <1>4, <2>1, <2>6
  <1>27. Match(new.attachments, Parts(body), Complete(new))
    BY <1>25, <1>26, <1>a
  <1>28. /\ DOMAIN jobs' = DOMAIN jobs \cup {id}
         /\ \A k \in DOMAIN jobs : k # id => jobs'[k] = jobs[k]
    BY <1>1
  <1>29. JobShape(id)'
    BY <1>2, <1>4, <1>15, <1>17, <1>18, <1>19, <1>22, <1>27, <1>c DEF JobShape
  <1>30. DOMAIN request' = Requests /\ \A r \in Requests : RequestShape(r)'
    BY <1>1, <1>28, JobBody DEF RequestShape
  <1>. QED  BY <1>1, <1>28, <1>29, <1>30, <1>a, JobStep

(* A job that is done keeps what it was asked for. *)
LEMMA DoneJob ==
  ASSUME NEW job \in JobRec
  PROVE  LET new == [job EXCEPT !.pc = "done", !.links = <<>>, !.attachments = <<>>] IN
         /\ new \in JobRec /\ new.pc = "done"
         /\ new.body = job.body /\ new.mimes = job.mimes
  <1> DEFINE M == UNION {[A -> MimeTypes] : A \in SUBSET Assets}
             L == Seq(Seq([reference : Assets, mediaType : MimeTypes]))
             T == Seq([type : PartTypes,
                       links : Seq([reference : Assets, mediaType : MimeTypes])])
             E == {"none", "ipfs", "tag", "attachment", "target", "date"}
             Q == SUBSET (Nat \X Nat)
             C == {"wait", "build", "done", "failed"}
             R == [pc : C, body : Bodies, mimes : M, todo : Q, links : L,
                   attachments : T, error : E]
  <1>1. JobRec = R
    BY DEF JobRec
  <1>2. "done" \in C /\ <<>> \in L /\ <<>> \in T
    OBVIOUS
  <1> HIDE DEF M, L, T, E, Q, C
  <1>. QED  BY <1>1, <1>2

(* A job that ends keeps what it was asked for, and forgets what it has built. *)
JobErrors == {"none", "ipfs", "tag", "attachment", "target", "date"}

(* A job that has ended is a job. *)
LEMMA EndedJob ==
  ASSUME NEW job \in JobRec, NEW pc \in {"done", "failed"}, NEW error \in JobErrors,
         NEW new, new = [pc |-> pc, body |-> job.body, mimes |-> job.mimes, todo |-> {},
                         links |-> <<>>, attachments |-> <<>>, error |-> error]
  PROVE  new \in JobRec
  <1> DEFINE M == UNION {[A -> MimeTypes] : A \in SUBSET Assets}
             L == Seq(Seq(LinkRec))
             T == Seq(AttachmentRec)
             E == JobErrors
             R == [pc : {"wait", "build", "done", "failed"}, body : Bodies, mimes : M,
                   todo : SUBSET (Nat \X Nat), links : L, attachments : T, error : E]
  <1>1. JobRec = R
    BY DEF JobRec, LinkRec, AttachmentRec, JobErrors
  <1>2. <<>> \in L /\ <<>> \in T /\ error \in E
    OBVIOUS
  <1> HIDE DEF M, L, T, E
  <1>3. new \in R
    BY <1>1, <1>2
  <1>. QED  BY <1>1, <1>3

(* A job fails. *)
LEMMA BuildThrowsStep ==
  ASSUME IInv, NEW id \in DOMAIN jobs, BuildThrows(id)
  PROVE  IInv'
  <1>1. PICK error \in Errors(jobs[id]) \cup {"ipfs" : t \in jobs[id].todo} :
          jobs' = [jobs EXCEPT ![id].pc = "failed", ![id].error = error,
                               ![id].todo = {}, ![id].links = <<>>, ![id].attachments = <<>>]
    BY DEF BuildThrows
  <1>2. jobs[id].pc = "build" /\ UNCHANGED <<environment, mime, request, queues, files>>
    BY DEF BuildThrows
  <1>3. /\ jobs[id].body \in Bodies /\ jobs[id] \in JobRec /\ id = <<jobs[id].body>>
        /\ Valid(jobs[id].body) /\ jobs[id].mimes \in MimesOf(jobs[id].body)
    BY JobBody DEF JobShape
  <1>4. error \in JobErrors /\ "failed" \in {"done", "failed"}
    BY <1>1 DEF Errors, JobErrors
  <1>5. jobs'[id] = [jobs[id] EXCEPT !.pc = "failed", !.error = error,
                                     !.todo = {}, !.links = <<>>, !.attachments = <<>>]
    BY <1>1
  <1>6. /\ jobs'[id] \in JobRec /\ jobs'[id].pc = "failed"
        /\ jobs'[id].body = jobs[id].body /\ jobs'[id].mimes = jobs[id].mimes
    <2>1. jobs'[id] = [pc |-> "failed", body |-> jobs[id].body, mimes |-> jobs[id].mimes,
                       todo |-> {}, links |-> <<>>, attachments |-> <<>>, error |-> error]
      BY <1>3, <1>5 DEF JobRec
    <2>. QED  BY <1>3, <1>4, <2>1, EndedJob
  <1>7. /\ DOMAIN jobs' = DOMAIN jobs \cup {id}
        /\ \A k \in DOMAIN jobs : k # id => jobs'[k] = jobs[k]
    BY <1>1
  <1>8. JobShape(id)'
    BY <1>3, <1>6 DEF JobShape
  <1>9. DOMAIN request' = Requests /\ \A r \in Requests : RequestShape(r)'
    BY <1>2, <1>7, JobBody DEF RequestShape
  <1>. QED  BY <1>2, <1>7, <1>8, <1>9, JobStep

(* A complete note is announced; no announcement had its content. *)
LEMMA AnnounceStep ==
  ASSUME IInv, NEW id \in DOMAIN jobs, Announce(id)
  PROVE  IInv'
  <1>a. PICK job, body, note, q : /\ job = jobs[id] /\ body = job.body
                                  /\ note = Create(job) /\ q = QueueOf[body.type]
    OBVIOUS
  <1>1. /\ job.pc = "build" /\ job.todo = {} /\ UNCHANGED <<environment, mime, request, files>>
        /\ queues' = [queues EXCEPT ![q] = @ \cup {note}]
        /\ jobs' = [jobs EXCEPT ![id].pc = "done", ![id].links = <<>>, ![id].attachments = <<>>]
    BY <1>a DEF Announce
  <1>2. /\ body \in Bodies /\ job \in JobRec /\ JobShape(id) /\ id = <<body>>
        /\ Valid(body) /\ job.mimes \in MimesOf(body)
    BY <1>a, JobBody DEF JobShape
  <1>3. IconsAre(job.attachments) /\ Match(job.attachments, Parts(body), Complete(job))
    BY <1>1, <1>2, <1>a DEF JobShape
  <1>4. Complete(job) = DOMAIN Parts(body)
    <2>1. \A part \in ToSet(Parts(body)) : part.type \in PartTypes
      BY <1>a DEF Announce, Errors
    <2>2. \A i \in DOMAIN Parts(body) : ~IsArray(Parts(body)[i])
      BY <2>1 DEF ToSet, PartTypes, IsArray
    <2>. QED  BY <1>1, <1>a, <2>2 DEF Complete
  <1>5. job.attachments \in Seq(AttachmentRec)
    BY <1>2 DEF JobRec, AttachmentRec, LinkRec
  <1>6. /\ note.content = body /\ note.attachments = job.attachments
        /\ note.announcementType = AnnouncementType[body.type]
    BY <1>a DEF Create
  <1>7. jobs'[id] = [job EXCEPT !.pc = "done", !.links = <<>>, !.attachments = <<>>]
    BY <1>1, <1>a
  <1>8. /\ jobs'[id] \in JobRec /\ jobs'[id].pc = "done" /\ jobs'[id].body = body
        /\ jobs'[id].mimes = job.mimes
    <2>1. LET new == [job EXCEPT !.pc = "done", !.links = <<>>, !.attachments = <<>>] IN
          /\ new \in JobRec /\ new.pc = "done"
          /\ new.body = job.body /\ new.mimes = job.mimes
      BY <1>2, DoneJob
    <2>. QED  BY <1>7, <1>a, <2>1, Zenon
  <1>9. DOMAIN jobs' = DOMAIN jobs /\ \A k \in DOMAIN jobs : k # id => jobs'[k] = jobs[k]
    BY <1>1
  <1>10. \A k \in DOMAIN jobs' : JobShape(k)'
    <2>1. JobShape(id)'
      BY <1>2, <1>8 DEF JobShape
    <2>2. ASSUME NEW k \in DOMAIN jobs, k # id PROVE JobShape(k)'
      BY <1>9, <2>2 DEF JobShape, IInv
    <2>. QED  BY <1>9, <2>1, <2>2
  <1>11. q \in DOMAIN queues /\ DOMAIN queues = {QueueOf[t] : t \in Types}
    BY <1>2, <1>a, BodyFields DEF IInv, Queued
  <1>12. /\ DOMAIN queues' = DOMAIN queues
         /\ queues'[q] = queues[q] \cup {note}
         /\ \A p \in DOMAIN queues : p # q => queues'[p] = queues[p]
    BY <1>1, <1>11
  <1>13. Announcements' = Announcements \cup {note}
    <2>1. UNION {queues'[p] : p \in DOMAIN queues'} =
            (UNION {queues[p] : p \in DOMAIN queues}) \cup {note}
      BY <1>11, <1>12
    <2>. QED  BY <1>1, <2>1 DEF Announcements
  <1>14. \A n \in Announcements' : NoteShape(n)'
    <2>1. ASSUME NEW n \in Announcements PROVE NoteShape(n)'
      <3>1. NoteShape(n)
        BY DEF IInv
      <3>2. <<n.content>> # id /\ <<n.content>> \in DOMAIN jobs
        BY <1>1, <1>a, <3>1 DEF NoteShape
      <3>. QED  BY <1>9, <3>1, <3>2 DEF NoteShape
    <2>2. NoteShape(note)'
      BY <1>2, <1>3, <1>4, <1>5, <1>6, <1>8, <1>9 DEF NoteShape
    <2>. QED  BY <1>13, <2>1, <2>2
  <1>15. OneNote'
    <2>1. ASSUME NEW n \in Announcements PROVE n.content # body
      BY <1>1, <1>2, <1>a DEF IInv, NoteShape
    <2>. QED  BY <1>6, <1>13, <2>1 DEF OneNote, IInv
  <1>16. Queued'
    <2>1. \A p \in DOMAIN queues : \A n \in queues[p] : p = QueueOf[n.content.type]
      BY DEF IInv, Queued
    <2>2. \A p \in DOMAIN queues' : \A n \in queues'[p] : p = QueueOf[n.content.type]
      BY <1>6, <1>12, <1>a, <2>1
    <2>. QED  BY <1>11, <1>12, <2>2 DEF Queued
  <1>17. Filed' /\ mime' = mime /\ environment' = environment
    BY <1>1 DEF Filed, IInv
  <1>18. DOMAIN request' = Requests /\ \A r \in Requests : RequestShape(r)'
    BY <1>1, <1>9, JobBody DEF RequestShape
  <1>. QED  BY <1>10, <1>14, <1>15, <1>16, <1>17, <1>18 DEF IInv

(* An announcement gets into a file of the schema of its type. *)
LEMMA BatchStep ==
  ASSUME IInv, NEW q \in DOMAIN queues, NEW a \in queues[q], Batch(q, a)
  PROVE  IInv'
  <1> DEFINE f == [schemaId |-> GetSchemaId(environment, QueueToAnnouncement[q]),
                   announcement |-> a]
  <1>1. /\ queues' = [queues EXCEPT ![q] = @ \ {a}] /\ files' = files \cup {f}
        /\ UNCHANGED <<environment, mime, request, jobs>>
    BY DEF Batch
  <1>2. /\ DOMAIN queues' = DOMAIN queues
        /\ queues'[q] = queues[q] \ {a}
        /\ \A p \in DOMAIN queues : p # q => queues'[p] = queues[p]
    BY <1>1
  <1>3. f.announcement = a /\ f.schemaId = SchemaIds(environment)[QueueToAnnouncement[q]]
    BY DEF GetSchemaId
  <1> HIDE DEF f
  <1>4. Announcements' = Announcements
    <2>1. /\ \A n : n \in Announcements <=> \/ \E p \in DOMAIN queues : n \in queues[p]
                                           \/ \E g \in files : n = g.announcement
          /\ \A n : n \in Announcements' <=> \/ \E p \in DOMAIN queues' : n \in queues'[p]
                                            \/ \E g \in files' : n = g.announcement
      BY DEF Announcements
    <2>2. \A n : n \in Announcements' => n \in Announcements
      BY <1>1, <1>2, <1>3, <2>1
    <2>3. \A n : n \in Announcements => n \in Announcements'
      BY <1>1, <1>2, <1>3, <2>1
    <2>. QED  BY <2>2, <2>3
  <1>5. a \in Announcements
    BY DEF Announcements
  <1>6. a.content.type \in Types /\ q = QueueOf[a.content.type]
    <2>1. a.content \in Bodies /\ q = QueueOf[a.content.type]
      BY <1>5 DEF IInv, NoteShape, Queued
    <2>. QED  BY <2>1, BodyFields
  <1>7. QueueToAnnouncement[q] = a.content.type
    BY <1>6 DEF QueueOf, QueueToAnnouncement, Types
  <1>8. Filed'
    <2>1. \A g \in files : g.schemaId = SchemaIds(environment)[g.announcement.content.type]
      BY DEF IInv, Filed
    <2>. QED  BY <1>1, <1>3, <1>7, <2>1 DEF Filed
  <1>9. Queued'
    <2>1. \A p \in DOMAIN queues : queues'[p] \subseteq queues[p]
      BY <1>2
    <2>. QED  BY <1>2, <2>1 DEF Queued, IInv
  <1>10. OneNote'
    BY <1>4 DEF OneNote, IInv
  <1>11. \A n \in Announcements' : NoteShape(n)'
    BY <1>1, <1>4 DEF NoteShape, IInv
  <1>12. \A id \in DOMAIN jobs' : JobShape(id)'
    BY <1>1 DEF JobShape, IInv
  <1>13. \A r \in Requests : RequestShape(r)'
    BY <1>1 DEF RequestShape, IInv
  <1>. QED  BY <1>1, <1>8, <1>9, <1>10, <1>11, <1>12, <1>13 DEF IInv

-----------------------------------------------------------------------------
(* Theorems. *)

(* Every step keeps the invariant. *)
LEMMA NextStep ==
  ASSUME IInv, [Next]_vars
  PROVE  IInv'
  <1>1. CASE UNCHANGED vars
    <2>1. Announcements' = Announcements
      BY <1>1 DEF vars, Announcements
    <2>2. \A id \in DOMAIN jobs' : JobShape(id)'
      BY <1>1 DEF vars, IInv, JobShape
    <2>3. \A n \in Announcements' : NoteShape(n)'
      BY <1>1, <2>1 DEF vars, IInv, NoteShape
    <2>4. \A r \in Requests : RequestShape(r)'
      BY <1>1 DEF vars, IInv, RequestShape
    <2>. QED  BY <1>1, <2>1, <2>2, <2>3, <2>4 DEF vars, IInv, OneNote, Queued, Filed
  <1>2. ASSUME NEW a \in Assets, NEW type \in MimeTypes \cup {None}, SetMetadata(a, type)
        PROVE  IInv'
    BY <1>2, SetMetadataStep
  <1>3. ASSUME NEW r \in Requests, NEW body \in Bodies, Reject(r, body)
        PROVE  IInv'
    BY <1>3, RejectStep
  <1>4. ASSUME NEW r \in Requests, NEW body \in Bodies, Accept(r, body)
        PROVE  IInv'
    BY <1>4, AcceptStep
  <1>5. ASSUME NEW r \in Requests, EnqueueRequest(r)
        PROVE  IInv'
    BY <1>5, EnqueueRequestStep
  <1>6. ASSUME NEW id \in DOMAIN jobs, StartJob(id)
        PROVE  IInv'
    BY <1>6, StartJobStep
  <1>7. ASSUME NEW id \in DOMAIN jobs, BuildThrows(id)
        PROVE  IInv'
    BY <1>7, BuildThrowsStep
  <1>8. ASSUME NEW id \in DOMAIN jobs, Announce(id)
        PROVE  IInv'
    BY <1>8, AnnounceStep
  <1>9. ASSUME NEW id \in DOMAIN jobs, NEW t \in jobs[id].todo, HashReference(id, t[1], t[2])
        PROVE  IInv'
    BY <1>9, HashReferenceStep
  <1>10. ASSUME NEW q \in DOMAIN queues, NEW a \in queues[q], Batch(q, a)
         PROVE  IInv'
    BY <1>10, BatchStep
  <1>. QED  BY <1>1, <1>2, <1>3, <1>4, <1>5, <1>6, <1>7, <1>8, <1>9, <1>10 DEF Next

(* What was checked when a request came still holds when its job runs and when its          *)
(* announcement is filed, whatever was uploaded, sent again or built in between.            *)
THEOREM Inductive == Spec => []IInv
  <1>1. Init => IInv
    BY InitStep
  <1>2. IInv /\ [Next]_vars => IInv'
    BY NextStep
  <1>. QED  BY <1>1, <1>2, PTL DEF Spec

(* What is in a file is an announcement. *)
LEMMA FiledIsAnnounced ==
  ASSUME NEW f \in files
  PROVE  f.announcement \in Announcements
  <1>1. f.announcement \in {g.announcement : g \in files}
    OBVIOUS
  <1>. QED  BY <1>1 DEF Announcements

(* Every variable has its type: a request whose answer is known has a job, a job has only   *)
(* MIME types the upload accepts, and no file has a schema id outside the table.            *)
THEOREM TypeCorrect == Spec => []TypeOK
  <1>1. IInv => TypeOK
    <2>1. ASSUME IInv PROVE TypeOK
      <3>1. environment \in Environments /\ mime \in [Assets -> MimeTypes \cup {None}]
        BY <2>1 DEF IInv
      <3>2. \A r \in Requests :
              /\ request[r].pc \in {"idle", "accepted", "answered", "rejected"}
              /\ request[r].pc = "answered" => request[r].id \in DOMAIN jobs
        BY <2>1 DEF IInv, RequestShape, RequestRec
      <3>3. \A id \in DOMAIN jobs : jobs[id] \in JobRec
        BY <2>1 DEF IInv, JobShape
      <3>4. ASSUME NEW f \in files PROVE f.schemaId \in 1 .. 6
        <4>1. f.announcement \in Announcements
          BY FiledIsAnnounced
        <4>2. f.announcement.content \in Bodies
          BY <2>1, <4>1 DEF IInv, NoteShape
        <4>3. f.announcement.content.type \in Types
          BY <4>2, BodyFields
        <4>4. \A type \in Types : SchemaIds(environment)[type] \in 1 .. 6
          BY DEF SchemaIds, Types
        <4>. QED  BY <2>1, <4>3, <4>4 DEF IInv, Filed
      <3>. QED  BY <3>1, <3>2, <3>3, <3>4 DEF TypeOK
    <2>. QED  BY <2>1
  <1>. QED  BY <1>1, Inductive, PTL

(* What the DTOs let through the worker can build: no switch of it throws on a request that *)
(* was answered with a reference, but for the dates and the arrays the DTOs overlook.       *)
THEOREM AcceptedSafety == Spec => []AcceptedCanBeBuilt
  <1>1. IInv => AcceptedCanBeBuilt
    <2>1. ASSUME IInv, NEW id \in DOMAIN jobs
          PROVE  Errors(jobs[id]) \subseteq Overlooked(jobs[id].body)
      <3>1. jobs[id].body \in Bodies /\ Valid(jobs[id].body)
        BY <2>1, JobBody DEF JobShape
      <3>. QED  BY <3>1, ValidIsBuildable
    <2>. QED  BY <2>1 DEF AcceptedCanBeBuilt
  <1>. QED  BY <1>1, Inductive, PTL

(* One to one lists of attachments and parts have each kind of attachment equally often. *)
SameCounts(s, parts, x) ==
    /\ Len(s) = Len(parts)
    /\ Cardinality({k \in DOMAIN s : Shape(s[k]) = x}) =
         Cardinality({i \in DOMAIN parts : Asked(parts[i]) = x})

(* Attachments that match the parts one to one have each shape as often as was asked. *)
LEMMA MatchCounts ==
  ASSUME NEW s \in Seq(AttachmentRec), NEW parts, Len(parts) \in Nat,
         DOMAIN parts = 1 .. Len(parts), Match(s, parts, DOMAIN parts), NEW x
  PROVE  SameCounts(s, parts, x)
  <1>1. PICK g \in [DOMAIN s -> DOMAIN parts] : Matches(g, s, parts, DOMAIN parts)
    BY DEF Match
  <1>2. Len(s) \in Nat /\ DOMAIN s = 1 .. Len(s)
    OBVIOUS
  <1>3. /\ IsFiniteSet(DOMAIN s) /\ Cardinality(DOMAIN s) = Len(s)
        /\ Cardinality(DOMAIN parts) = Len(parts)
    <2>1. ASSUME NEW m \in Nat PROVE IsFiniteSet(1 .. m) /\ Cardinality(1 .. m) = m
      <3>1. IsFiniteSet(1 .. m)
        BY FS_Interval
      <3>2. [k \in 1 .. m |-> k] \in Bijection(1 .. m, 1 .. m)
        BY DEF Bijection, Injection, Surjection, IsInjective
      <3>3. ExistsBijection(1 .. m, 1 .. m)
        BY <3>2, Zenon DEF ExistsBijection
      <3>. QED  BY <3>1, <3>3, FS_CountingElements
    <2>. QED  BY <1>2, <2>1
  <1>4. g \in Bijection(DOMAIN s, DOMAIN parts)
    BY <1>1 DEF Matches, Bijection, Injection, Surjection, IsInjective
  <1>5. Cardinality(DOMAIN parts) = Cardinality(DOMAIN s)
    BY <1>3, <1>4, FS_Bijection DEF ExistsBijection
  <1> DEFINE K == {k \in DOMAIN s : Shape(s[k]) = x}
             I == {i \in DOMAIN parts : Asked(parts[i]) = x}
             h == [k \in K |-> g[k]]
  <1>6. \A k \in DOMAIN s : k \in K <=> g[k] \in I
    BY <1>1 DEF Matches
  <1>7. K \subseteq DOMAIN s /\ I \subseteq DOMAIN parts
    OBVIOUS
  <1> HIDE DEF K, I
  <1>8. h \in Bijection(K, I)
    <2>1. h \in [K -> I] /\ \A k \in K : h[k] = g[k]
      BY <1>6, <1>7
    <2>2. \A k, l \in K : h[k] = h[l] => k = l
      BY <1>1, <1>7, <2>1 DEF Matches
    <2>3. \A i \in I : \E k \in K : h[k] = i
      BY <1>1, <1>6, <1>7, <2>1 DEF Matches
    <2>. QED  BY <2>1, <2>2, <2>3 DEF Bijection, Injection, Surjection, IsInjective
  <1>9. IsFiniteSet(K)
    BY <1>3, <1>7, FS_Subset
  <1>10. Cardinality(I) = Cardinality(K)
    BY <1>8, <1>9, FS_Bijection DEF ExistsBijection
  <1>. QED  BY <1>3, <1>5, <1>10 DEF K, I, SameCounts

(* However the nested callbacks of the worker interleave on their shared arrays, a note has *)
(* an attachment for each part of the request, with all its references and MIME types.      *)
THEOREM NothingIsLeftOutSafety == Spec => []NothingIsLeftOut
  <1>1. IInv => NothingIsLeftOut
    <2>1. ASSUME IInv, NEW n \in Announcements
          PROVE  /\ Len(n.attachments) = Len(Parts(n.content))
                 /\ \A part \in ToSet(Parts(n.content)) :
                      Times(Asked(part), n.attachments, Shape) =
                        Times(Asked(part), Parts(n.content), Asked)
                 /\ \A attachment \in ToSet(n.attachments) :
                      \A link \in ToSet(attachment.links) : link.mediaType # None
      <3>1. /\ n.content \in Bodies /\ n.attachments \in Seq(AttachmentRec)
            /\ Match(n.attachments, Parts(n.content), DOMAIN Parts(n.content))
        BY <2>1 DEF IInv, NoteShape
      <3>2. /\ Len(Parts(n.content)) \in Nat
            /\ DOMAIN Parts(n.content) = 1 .. Len(Parts(n.content))
        BY <3>1, PartFields
      <3>3. \A x : SameCounts(n.attachments, Parts(n.content), x)
        BY <3>1, <3>2, MatchCounts
      <3>4. ASSUME NEW attachment \in ToSet(n.attachments), NEW link \in ToSet(attachment.links)
            PROVE  link.mediaType # None
        <4>1. attachment \in AttachmentRec
          BY <3>1 DEF ToSet
        <4>2. link \in LinkRec
          BY <4>1 DEF AttachmentRec, ToSet
        <4>. QED  BY <4>2 DEF LinkRec
      <3>. QED  BY <3>3, <3>4 DEF Times, SameCounts
    <2>. QED  BY <2>1 DEF NothingIsLeftOut
  <1>. QED  BY <1>1, Inductive, PTL

(* The icons of a profile are announced as images, though the key of their MIME type may    *)
(* hold something else by the time the worker runs.                                         *)
THEOREM IconsSafety == Spec => []IconsAreImages
  <1>1. IInv => IconsAreImages
    <2>1. ASSUME IInv, NEW n \in Announcements, NEW attachment \in ToSet(n.attachments),
                 attachment.type = "icon", NEW link \in ToSet(attachment.links)
          PROVE  link.mediaType \in Images
      <3>1. IconsAre(n.attachments)
        BY <2>1 DEF IInv, NoteShape
      <3>2. PICK k \in DOMAIN n.attachments : attachment = n.attachments[k]
        BY DEF ToSet
      <3>3. PICK l \in DOMAIN attachment.links : link = attachment.links[l]
        BY DEF ToSet
      <3>. QED  BY <2>1, <3>1, <3>2, <3>3 DEF IconsAre
    <2>. QED  BY <2>1 DEF IconsAreImages
  <1>. QED  BY <1>1, Inductive, PTL

(* On every chain an announcement is filed under the schema of its own type. *)
THEOREM FiledSafety == Spec => []FiledUnderItsSchema
  <1>1. IInv => FiledUnderItsSchema
    <2>1. ASSUME IInv, NEW f \in files, NEW type \in Types,
                 SchemaIds(environment)[type] = f.schemaId
          PROVE  /\ f.announcement.announcementType = AnnouncementType[type]
                 /\ f.announcement.content.type = type
      <3>1. f.announcement \in Announcements
        BY FiledIsAnnounced
      <3>2. /\ f.announcement.content \in Bodies
            /\ f.announcement.announcementType = AnnouncementType[f.announcement.content.type]
        BY <2>1, <3>1 DEF IInv, NoteShape
      <3>3. f.announcement.content.type \in Types
        BY <3>2, BodyFields
      <3>4. f.schemaId = SchemaIds(environment)[f.announcement.content.type]
        BY <2>1 DEF IInv, Filed
      <3>5. \A t, u \in Types : SchemaIds(environment)[t] = SchemaIds(environment)[u] => t = u
        BY DEF SchemaIds, Types
      <3>. QED  BY <2>1, <3>2, <3>3, <3>4, <3>5
    <2>. QED  BY <2>1 DEF FiledUnderItsSchema
  <1>. QED  BY <1>1, Inductive, PTL

(* A request that is sent again gets the same reference and is announced once, also when    *)
(* its assets were uploaded as something else in between.                                   *)
THEOREM ResentSafety == Spec => []ResentIsRecognized
  <1>1. IInv => ResentIsRecognized
    BY DEF IInv, RequestShape, OneNote, ResentIsRecognized
  <1>. QED  BY <1>1, Inductive, PTL

-----------------------------------------------------------------------------
(* The value of a string of digits.  Induction on its length is by a least counterexample. *)

(* A set of numbers that is not empty has a least one. *)
LEMMA LeastNatural ==
  ASSUME NEW S \in SUBSET Nat, S # {}
  PROVE  \E n \in S : \A m \in S : n <= m
  <1>1. \E n \in S : \A m \in S : ~(<<m, n>> \in OpToRel(<, Nat))
    BY NatLessThanWellFounded, WFMin
  <1>2. \A n, m \in S : <<m, n>> \in OpToRel(<, Nat) <=> m < n
    BY DEF OpToRel
  <1>3. PICK n \in S : \A m \in S : ~(m < n)
    BY <1>1, <1>2
  <1>. QED  BY <1>3

Digits == Seq(0 .. 9)

(* The values of the first digits, up to n of them. *)
AreValues(v, s, n) ==
    /\ v \in [0 .. n -> Nat]
    /\ v[0] = 0
    /\ \A i \in 1 .. n : v[i] = 10 * v[i - 1] + s[i]

(* There are such values. *)
LEMMA ValuesExist ==
  ASSUME NEW s \in Digits
  PROVE  \E v : AreValues(v, s, Len(s))
  <1>1. Len(s) \in Nat /\ DOMAIN s = 1 .. Len(s) /\ \A i \in 1 .. Len(s) : s[i] \in 0 .. 9
    BY DEF Digits
  <1> DEFINE Bad == {n \in Nat : n <= Len(s) /\ ~ \E v : AreValues(v, s, n)}
  <1>2. SUFFICES ASSUME Bad # {} PROVE FALSE
    BY <1>1
  <1>3. PICK n \in Bad : \A m \in Bad : n <= m
    BY <1>2, LeastNatural
  <1>4. n \in Nat /\ n <= Len(s) /\ ~ \E v : AreValues(v, s, n)
    OBVIOUS
  <1>5. n # 0
    <2>1. AreValues([i \in 0 .. 0 |-> 0], s, 0)
      BY DEF AreValues
    <2>. QED  BY <1>4, <2>1
  <1>6. n - 1 \in Nat /\ n - 1 <= Len(s) /\ n - 1 \notin Bad
    BY <1>1, <1>3, <1>4, <1>5
  <1>7. PICK v : AreValues(v, s, n - 1)
    BY <1>6
  <1> DEFINE w == [i \in 0 .. n |-> IF i = n THEN 10 * v[n - 1] + s[n] ELSE v[i]]
  <1>8. v \in [0 .. n - 1 -> Nat] /\ v[n - 1] \in Nat /\ s[n] \in Nat
    <2>1. v \in [0 .. n - 1 -> Nat]
      BY <1>7 DEF AreValues
    <2>2. n - 1 \in 0 .. n - 1 /\ n \in 1 .. Len(s)
      BY <1>1, <1>4, <1>5, <1>6
    <2>3. v[n - 1] \in Nat
      BY <2>1, <2>2
    <2>4. s[n] \in Nat
      BY <1>1, <2>2
    <2>. QED  BY <2>1, <2>3, <2>4
  <1>9. w \in [0 .. n -> Nat] /\ w[0] = 0
    <2>1. \A i \in 0 .. n : i # n => v[i] \in Nat
      BY <1>4, <1>5, <1>8
    <2>2. 10 * v[n - 1] + s[n] \in Nat
      BY <1>8
    <2>3. v[0] = 0
      BY <1>7 DEF AreValues
    <2>. QED  BY <1>4, <1>5, <2>1, <2>2, <2>3
  <1>10. \A i \in 1 .. n : w[i] = 10 * w[i - 1] + s[i]
    <2>1. \A i \in 1 .. n : i - 1 \in 0 .. n /\ i - 1 # n /\ w[i - 1] = v[i - 1]
      BY <1>4
    <2>2. w[n] = 10 * v[n - 1] + s[n]
      BY <1>4
    <2>3. \A i \in 1 .. n : i # n => i \in 1 .. n - 1 /\ w[i] = v[i]
      BY <1>4
    <2>4. \A i \in 1 .. n - 1 : v[i] = 10 * v[i - 1] + s[i]
      BY <1>7 DEF AreValues
    <2> HIDE DEF w
    <2>. QED  BY <1>4, <1>5, <2>1, <2>2, <2>3, <2>4
  <1>11. AreValues(w, s, n)
    BY <1>9, <1>10 DEF AreValues
  <1>. QED  BY <1>4, <1>11

(* ValueUpTo is these values. *)
LEMMA ValueUpToIs ==
  ASSUME NEW s \in Digits
  PROVE  AreValues(ValueUpTo(s), s, Len(s))
  <1> DEFINE V == ValueUpTo(s)
  <1>1. Len(s) \in Nat /\ \A i \in 1 .. Len(s) : s[i] \in 0 .. 9
    BY DEF Digits
  <1>2. \E v : v = [i \in 0 .. Len(s) |-> IF i = 0 THEN 0 ELSE 10 * v[i - 1] + s[i]]
    <2>1. PICK v : AreValues(v, s, Len(s))
      BY ValuesExist
    <2>2. v \in [0 .. Len(s) -> Nat]
      BY <2>1 DEF AreValues
    <2>3. \A i \in 0 .. Len(s) : v[i] = IF i = 0 THEN 0 ELSE 10 * v[i - 1] + s[i]
      BY <1>1, <2>1 DEF AreValues
    <2>4. v = [i \in 0 .. Len(s) |-> IF i = 0 THEN 0 ELSE 10 * v[i - 1] + s[i]]
      BY <2>2, <2>3
    <2>. QED  BY <2>4
  <1>3. V = [i \in 0 .. Len(s) |-> IF i = 0 THEN 0 ELSE 10 * V[i - 1] + s[i]]
    BY <1>2, Zenon DEF ValueUpTo
  <1> HIDE DEF V
  <1>4. /\ DOMAIN V = 0 .. Len(s) /\ V = [i \in 0 .. Len(s) |-> V[i]]
        /\ \A i \in 0 .. Len(s) : V[i] = IF i = 0 THEN 0 ELSE 10 * V[i - 1] + s[i]
    BY <1>3
  <1>5. V[0] = 0 /\ \A i \in 1 .. Len(s) : V[i] = 10 * V[i - 1] + s[i]
    BY <1>1, <1>4
  <1>6. \A i \in 0 .. Len(s) : V[i] \in Nat
    <2> DEFINE Bad == {i \in Nat : i <= Len(s) /\ V[i] \notin Nat}
    <2>1. SUFFICES ASSUME Bad # {} PROVE FALSE
      BY <1>1
    <2>2. PICK n \in Bad : \A m \in Bad : n <= m
      BY <2>1, LeastNatural
    <2>3. n \in Nat /\ n <= Len(s) /\ V[n] \notin Nat /\ n # 0
      BY <1>5
    <2>4. n - 1 \in Nat /\ n - 1 \notin Bad /\ V[n - 1] \in Nat
      BY <1>1, <2>2, <2>3
    <2>5. n \in 1 .. Len(s)
      BY <1>1, <2>3
    <2>6. V[n] = 10 * V[n - 1] + s[n]
      BY <1>5, <2>5
    <2>7. s[n] \in Nat
      BY <1>1, <2>5
    <2>. QED  BY <2>3, <2>4, <2>6, <2>7
  <1>. QED  BY <1>4, <1>5, <1>6 DEF AreValues, V

(* Without a leading zero only the empty string is worth nothing. *)
LEMMA ValueIsPositive ==
  ASSUME NEW s \in Digits, s # <<>> => s[1] # 0, NEW n \in 1 .. Len(s)
  PROVE  ValueUpTo(s)[n] > 0
  <1>. PICK V : V = ValueUpTo(s)
    OBVIOUS
  <1>1. Len(s) \in Nat /\ \A i \in 1 .. Len(s) : s[i] \in 0 .. 9
    BY DEF Digits
  <1>2. /\ V \in [0 .. Len(s) -> Nat] /\ V[0] = 0
        /\ \A i \in 1 .. Len(s) : V[i] = 10 * V[i - 1] + s[i]
    BY ValueUpToIs DEF AreValues
  <1> DEFINE Bad == {i \in Nat : i \in 1 .. Len(s) /\ ~(V[i] > 0)}
  <1>3. SUFFICES ASSUME Bad # {} PROVE FALSE
    BY <1>1
  <1>4. PICK k \in Bad : \A m \in Bad : k <= m
    BY <1>3, LeastNatural
  <1>5. k \in Nat /\ k \in 1 .. Len(s) /\ ~(V[k] > 0)
    OBVIOUS
  <1>6. V[k] = 10 * V[k - 1] + s[k] /\ s[k] \in 0 .. 9 /\ V[k - 1] \in Nat
    <2>1. k - 1 \in 0 .. Len(s)
      BY <1>1, <1>5
    <2>. QED  BY <1>1, <1>2, <1>5, <2>1
  <1>7. CASE k = 1
    <2>1. V[k - 1] = 0
      BY <1>2, <1>7
    <2>2. s[1] # 0
      <3>1. s # <<>>
        BY <1>5
      <3>. QED  BY <3>1
    <2>. QED  BY <1>5, <1>6, <1>7, <2>1, <2>2
  <1>8. CASE k # 1
    <2>1. k - 1 \in 1 .. Len(s) /\ k - 1 \in Nat /\ k - 1 \notin Bad
      BY <1>1, <1>4, <1>5, <1>8
    <2>2. V[k - 1] > 0
      BY <2>1
    <2>3. ASSUME NEW x \in Nat, NEW d \in 0 .. 9, x > 0 PROVE 10 * x + d > 0
      BY <2>3
    <2>4. V[k] > 0
      BY <1>6, <2>2, <2>3
    <2>. QED  BY <1>5, <2>4
  <1>. QED  BY <1>7, <1>8

(* Without leading zeros equal values have equal digits. *)
LEMMA ValueDetermines ==
  ASSUME NEW s \in Digits, NEW t \in Digits,
         s # <<>> => s[1] # 0, t # <<>> => t[1] # 0, Value(s) = Value(t)
  PROVE  s = t
  <1>. PICK V, W : V = ValueUpTo(s) /\ W = ValueUpTo(t)
    OBVIOUS
  <1>1. /\ Len(s) \in Nat /\ \A i \in 1 .. Len(s) : s[i] \in 0 .. 9
        /\ Len(t) \in Nat /\ \A i \in 1 .. Len(t) : t[i] \in 0 .. 9
    BY DEF Digits
  <1>2. /\ V \in [0 .. Len(s) -> Nat] /\ V[0] = 0
        /\ \A i \in 1 .. Len(s) : V[i] = 10 * V[i - 1] + s[i]
    BY ValueUpToIs DEF AreValues
  <1>3. /\ W \in [0 .. Len(t) -> Nat] /\ W[0] = 0
        /\ \A i \in 1 .. Len(t) : W[i] = 10 * W[i - 1] + t[i]
    BY ValueUpToIs DEF AreValues
  <1>4. (\A i \in 1 .. Len(s) : V[i] > 0) /\ (\A i \in 1 .. Len(t) : W[i] > 0)
    BY ValueIsPositive
  <1> DEFINE Same(n, m) == V[n] = W[m] => n = m /\ \A k \in 1 .. n : s[k] = t[k]
             Bad == {n \in Nat : n <= Len(s) /\ \E m \in 0 .. Len(t) : ~Same(n, m)}
  <1>5. Bad = {}
    <2>1. SUFFICES ASSUME Bad # {} PROVE FALSE
      OBVIOUS
    <2>2. PICK n \in Bad : \A m \in Bad : n <= m
      BY <2>1, LeastNatural
    <2>3. n \in Nat /\ n <= Len(s) /\ \E m \in 0 .. Len(t) : ~Same(n, m)
      OBVIOUS
    <2>4. PICK m \in 0 .. Len(t) : ~Same(n, m)
      BY <2>3
    <2>5. V[n] = W[m] /\ ~(n = m /\ \A k \in 1 .. n : s[k] = t[k])
      BY <2>4
    <2>6. n # 0
      BY <1>1, <1>2, <1>4, <2>5
    <2>7. m # 0
      BY <1>1, <1>3, <1>4, <2>3, <2>5, <2>6
    <2>8. /\ V[n] = 10 * V[n - 1] + s[n] /\ V[n - 1] \in Nat /\ s[n] \in 0 .. 9
          /\ W[m] = 10 * W[m - 1] + t[m] /\ W[m - 1] \in Nat /\ t[m] \in 0 .. 9
      <3>1. /\ n \in 1 .. Len(s) /\ n - 1 \in 0 .. Len(s)
            /\ m \in 1 .. Len(t) /\ m - 1 \in 0 .. Len(t)
        BY <1>1, <2>3, <2>6, <2>7
      <3>2. V[n - 1] \in Nat /\ W[m - 1] \in Nat
        BY <1>2, <1>3, <3>1
      <3>. QED  BY <1>1, <1>2, <1>3, <3>1, <3>2
    <2>9. s[n] = t[m] /\ V[n - 1] = W[m - 1]
      <3>1. PICK x, y, d, e : x = V[n - 1] /\ y = W[m - 1] /\ d = s[n] /\ e = t[m]
        OBVIOUS
      <3>2. /\ x \in Nat /\ y \in Nat /\ d \in 0 .. 9 /\ e \in 0 .. 9
            /\ 10 * x + d = 10 * y + e
        BY <2>5, <2>8, <3>1
      <3>3. d = e /\ x = y
        BY <3>2
      <3>. QED  BY <3>1, <3>3
    <2>10. n - 1 \in Nat /\ n - 1 <= Len(s) /\ m - 1 \in 0 .. Len(t) /\ n - 1 \notin Bad
      BY <1>1, <2>2, <2>3, <2>6, <2>7
    <2>11. Same(n - 1, m - 1)
      BY <2>10
    <2>12. n - 1 = m - 1 /\ \A k \in 1 .. n - 1 : s[k] = t[k]
      BY <2>9, <2>11
    <2>13. n = m
      BY <2>3, <2>12
    <2>. QED  BY <2>3, <2>5, <2>9, <2>12, <2>13
  <1>6. V[Len(s)] = W[Len(t)]
    BY DEF Value
  <1>7. Same(Len(s), Len(t))
    BY <1>1, <1>5
  <1>8. Len(s) = Len(t) /\ \A k \in 1 .. Len(s) : s[k] = t[k]
    BY <1>6, <1>7
  <1>. QED  BY <1>8 DEF Digits

(* What validateMsaIdString lets through as a user's id is the one spelling of the user, so *)
(* that two accepted requests about the same user have the same URI, and their ids, which   *)
(* are hashes of the text, differ only if they say something different.                     *)
THEOREM SpellingSafety == Spec => []OneSpellingPerUser
  <1>1. ASSUME IInv, NEW i \in DOMAIN jobs, NEW j \in DOMAIN jobs,
               {jobs[i].body.type, jobs[j].body.type} \subseteq {"reply", "reaction"},
               Value(jobs[i].body.uri.msaId) = Value(jobs[j].body.uri.msaId)
        PROVE  jobs[i].body.uri = jobs[j].body.uri
    <2>. PICK a, b : a = jobs[i].body.uri /\ b = jobs[j].body.uri
      OBVIOUS
    <2>1. \A id \in DOMAIN jobs : jobs[id].body \in Bodies /\ Valid(jobs[id].body)
      BY <1>1, JobBody DEF JobShape
    <2>2. a \in Uris /\ b \in Uris
      BY <2>1, BodiesAssumption
    <2>3. IsDsnpContentURI(a) /\ IsDsnpContentURI(b)
      BY <1>1, <2>1 DEF Valid
    <2>4. /\ a.protocol = "dsnp" /\ (a.msaId # <<>> => Head(a.msaId) # 0)
          /\ b.protocol = "dsnp" /\ (b.msaId # <<>> => Head(b.msaId) # 0)
      BY <2>3 DEF IsDsnpContentURI, ValidMsaIdString
    <2>5. a.msaId \in Digits /\ b.msaId \in Digits
      BY <2>2 DEF Uris, Digits
    <2>6. \A s \in Digits : s # <<>> => Head(s) = s[1]
      BY DEF Digits
    <2>7. a.msaId = b.msaId
      BY <1>1, <2>4, <2>5, <2>6, ValueDetermines
    <2>. QED  BY <2>2, <2>4, <2>7 DEF Uris
  <1>2. IInv => OneSpellingPerUser
    BY <1>1 DEF OneSpellingPerUser
  <1>. QED  BY <1>2, Inductive, PTL

=============================================================================
