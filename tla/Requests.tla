------------------------------ MODULE Requests ------------------------------
(***************************************************************************)
(* What a request says and what becomes of it: the controllers validate    *)
(* it against its DTO, ApiService looks up the MIME types of its assets    *)
(* and derives the job id, DsnpAnnouncementProcessor builds a note and an  *)
(* announcement from it, and the queue and schema tables decide in which   *)
(* kind of batch file that ends.  Content has the other side: when the     *)
(* assets are pinned, retries and lost jobs.                               *)
(*                                                                         *)
(* A body has every field of the DTOs that its checks or the worker tell   *)
(* apart; a handler looks only at those of its type.                       *)
(***************************************************************************)
EXTENDS Integers, FiniteSets, SequencesExt

CONSTANTS
    Requests,      \* HTTP calls
    Bodies,        \* what they may contain
    Assets,
    Images,        \* MIME types the upload accepts: images
    Videos,        \* and others
    Environments,  \* values CHAIN_ENVIRONMENT may have
    MaxMsaId,      \* 2^64 - 1
    None

Types == {"broadcast", "reply", "reaction", "update", "tombstone", "profile"}
NoteTypes == {"broadcast", "reply", "update"}
MimeTypes == Images \cup Videos

ASSUME RequestsAssumption ==
    /\ MaxMsaId \in Nat /\ None \notin MimeTypes \cup Requests /\ Images \cap Videos = {}
    /\ Environments \subseteq {"mainnet", "rococo", "testnet", "dev"}

(* A tag has its type and a name, or whom it mentions; a part its type, its references and  *)
(* whether it has an href; a URI its protocol and the digits of the user it names.  Where   *)
(* an object is expected there may be an array: of type "array" in place of a tag or part,  *)
(* with the flag in place of the note or profile, and then without what belongs into it.    *)
Uris == [protocol : STRING, msaId : Seq(0 .. 9)]
ASSUME BodiesAssumption ==
    \A b \in Bodies :
      /\ b.type \in Types /\ b.uri \in Uris
      /\ b.tags \in Seq([type : STRING, name : BOOLEAN, mentionedId : Uris])
      /\ b.assets \in Seq([type : STRING, references : Seq(Assets), href : BOOLEAN])
      /\ \A i \in DOMAIN b.assets : b.assets[i].type = "array" => b.assets[i].references = <<>>
      /\ b.icon \in Seq(Assets)
      /\ {b.published, b.target} \subseteq STRING
      /\ b.array \in BOOLEAN
      /\ b.array => b.tags = <<>> /\ b.assets = <<>> /\ b.icon = <<>> /\ b.published = "none"

VARIABLES
    environment, \* CHAIN_ENVIRONMENT of the processes
    mime,        \* Redis: the MIME type in asset:metadata:<cid>
    request,     \* what each HTTP call is doing
    jobs,        \* the request jobs, by job id
    queues,      \* the announcement queues
    files        \* announcements in a batch, with the schema id of its file

vars == <<environment, mime, request, jobs, queues, files>>

-----------------------------------------------------------------------------
(* The decorators of the DTOs. *)

(* What BigInt makes of digits, and of the first i of them. *)
ValueUpTo(digits) ==
    LET v[i \in 0 .. Len(digits)] == IF i = 0 THEN 0 ELSE 10 * v[i - 1] + digits[i] IN v
Value(digits) == ValueUpTo(digits)[Len(digits)]

(* Mutant: a leading zero is let through. *)
AnyMsaIdString(msaId) == Value(msaId) <= MaxMsaId

(* BigInt('') is 0: no digits will do. *)
ValidMsaIdString(msaId) ==
    /\ msaId # <<>> => Head(msaId) # 0
    /\ Value(msaId) <= MaxMsaId

IsDsnpUserURI(uri) == uri.protocol = "dsnp" /\ ValidMsaIdString(uri.msaId)

(* With a content hash after the user; validateContentHash says yes to any. *)
IsDsnpContentURI(uri) == uri.protocol = "dsnp" /\ ValidMsaIdString(uri.msaId)

(* Dates by who can read them.  "both": 1970-01-01T00:00:00Z, 1980; "isoOnly": the basic    *)
(* format 19700101T000000Z, a week 2020-W10, an hour 2020-01-01T10; "jsOnly": Jan 1, 1980;  *)
(* "neither": any other text; "none": no date at all.                                       *)
IsISO8601(published) == published \in {"both", "isoOnly"}
IsJsDate(published) == published \in {"both", "jsOnly"}

(* ValidateNested goes into an array and asks for the fields of its elements, if any: what  *)
(* is in place of an object passes as an array of valid ones does, an empty one for example.*)
IsArray(x) == x.type = "array"

(* Mutant: the type of a tag is not checked. *)
NamedTag(tag) == tag.type = "mention" => IsDsnpUserURI(tag.mentionedId)

ValidTag(tag) ==
    \/ IsArray(tag)
    \/ /\ tag.type \in {"hashtag", "mention"}
       /\ tag.type = "hashtag" => tag.name
       /\ tag.type = "mention" => IsDsnpUserURI(tag.mentionedId)

ValidAsset(asset) ==
    \/ IsArray(asset)
    \/ /\ asset.type \in {"link", "image", "audio", "video"}
       /\ asset.type # "link" => asset.references # <<>> /\ IsInjective(asset.references)
       /\ asset.type = "link" => asset.href

ValidNote(body) ==
    /\ \A tag \in ToSet(body.tags) : ValidTag(tag)
    /\ \A asset \in ToSet(body.assets) : ValidAsset(asset)
    /\ body.array \/ IsISO8601(body.published)

ValidProfile(body) ==
    /\ \A tag \in ToSet(body.tags) : ValidTag(tag)
    /\ IsInjective(body.icon)
    /\ body.published = "none" \/ IsISO8601(body.published)

Modifiable == {"broadcast", "reply"}

(* The ValidationPipe: the DTO of the handler's type. *)
Valid(body) ==
    /\ body.type \in NoteTypes => ValidNote(body)
    /\ body.type = "profile" => ValidProfile(body)
    /\ body.type \in {"reply", "reaction"} => IsDsnpContentURI(body.uri)
    /\ body.type \in {"update", "tombstone"} => body.target \in Modifiable

-----------------------------------------------------------------------------
(* ApiService. *)

(* The references of a request, with the field they are in: as parts of what will be built. *)
Parts(body) ==
    CASE body.type \in NoteTypes -> body.assets
      [] body.type = "profile" ->
           [i \in DOMAIN body.icon |->
              [type |-> "icon", references |-> <<body.icon[i]>>, href |-> FALSE]]
      [] OTHER -> <<>>

References(body) == UNION {ToSet(part.references) : part \in ToSet(Parts(body))}

AssetsAreKnown(body) ==
    /\ \A a \in References(body) : mime[a] # None
    /\ body.type = "profile" => \A a \in References(body) : mime[a] \in Images

(* Mutant: the entries are set in the Map, which JSON.stringify leaves out. *)
SerializedMap(body) == [a \in {} |-> mime[a]]

(* The entries are properties of the Map object, so that they survive JSON.stringify. *)
AssetToMimeType(body) == [a \in References(body) |-> mime[a]]

(* queueBroadcast ... queueTombstone. *)
QueueOf == [broadcast |-> "broadcastQueue", reply |-> "replyQueue",
            reaction |-> "reactionQueue", update |-> "updateQueue",
            tombstone |-> "tombstoneQueue", profile |-> "profileQueue"]

NoRequest == [pc |-> "idle", body |-> None, mimes |-> <<>>, id |-> None]

Init ==
    /\ environment \in Environments
    /\ mime = [a \in Assets |-> None]
    /\ request = [r \in Requests |-> NoRequest]
    /\ jobs = [id \in {} |-> None]
    /\ queues = [q \in {QueueOf[t] : t \in Types} |-> {}]
    /\ files = {}

(* An upload, also of a file that is there, under another type; or the metadata expires. *)
SetMetadata(a, type) ==
    /\ type # mime[a]
    /\ mime' = [mime EXCEPT ![a] = type]
    /\ UNCHANGED <<environment, request, jobs, queues, files>>

Reject(r, body) ==
    /\ request[r] = NoRequest
    /\ ~Valid(body) \/ ~AssetsAreKnown(body)
    /\ request' = [request EXCEPT ![r].pc = "rejected"]
    /\ UNCHANGED <<environment, mime, jobs, queues, files>>

(* The handler goes on after its GETs with what they returned. *)
Accept(r, body) ==
    /\ request[r] = NoRequest
    /\ Valid(body)
    /\ AssetsAreKnown(body)
    /\ request' = [request EXCEPT ![r] = [pc |-> "accepted", body |-> body,
                                          mimes |-> AssetToMimeType(body), id |-> None]]
    /\ UNCHANGED <<environment, mime, jobs, queues, files>>

(* Mutant: the job id is calculated with the MIME types in the data. *)
IdOfAll(body, mimes) == <<body, mimes>>

(* A hash of the request without them. *)
CalculateJobId(body, mimes) == <<body>>

NewJob(r) == [pc |-> "wait", body |-> request[r].body, mimes |-> request[r].mimes,
              todo |-> {}, links |-> <<>>, attachments |-> <<>>, error |-> "none"]

(* enqueueRequest: a job that is there stays as it is, and its id is the answer. *)
EnqueueRequest(r) ==
    LET id == CalculateJobId(request[r].body, request[r].mimes) IN
    /\ request[r].pc = "accepted"
    /\ jobs' = [i \in DOMAIN jobs \cup {id} |-> IF i \in DOMAIN jobs THEN jobs[i] ELSE NewJob(r)]
    /\ request' = [request EXCEPT ![r].pc = "answered", ![r].id = id, ![r].mimes = <<>>]
    /\ UNCHANGED <<environment, mime, queues, files>>

-----------------------------------------------------------------------------
(* DsnpAnnouncementProcessor. *)

(* The cases of its switches; icons have a switch of their own. *)
PartTypes == {"link", "image", "audio", "video", "icon"}

(* What its switches, createNote and the lookup of a MIME type throw on. *)
Errors(job) ==
    {e \in {"tag", "attachment", "target", "date"} :
        \/ e = "tag" /\ job.body.type \in NoteTypes \cup {"profile"}
             /\ \E tag \in ToSet(job.body.tags) : tag.type \notin {"hashtag", "mention"}
        \/ e = "attachment" /\ \E part \in ToSet(Parts(job.body)) :
             part.type \notin PartTypes
        \/ e = "target" /\ job.body.type \in {"update", "tombstone"}
             /\ job.body.target \notin Modifiable
        \/ e = "date" /\ job.body.type \in NoteTypes /\ ~IsJsDate(job.body.published)}

Attachment(part, links) == [type |-> part.type, links |-> links]

(* The callbacks of map run until they wait: links are attached, the rest is asked for. *)
StartJob(id) ==
    LET parts == Parts(jobs[id].body)
        waiting == {i \in DOMAIN parts : parts[i].type # "link"} IN
    /\ jobs[id].pc = "wait"
    /\ jobs' = [jobs EXCEPT
         ![id].pc = "build",
         ![id].todo = UNION {{i} \X DOMAIN parts[i].references : i \in waiting},
         ![id].links = [i \in DOMAIN parts |-> <<>>],
         ![id].attachments = [i \in 1 .. Cardinality(DOMAIN parts \ waiting) |->
                                Attachment([type |-> "link"], <<>>)]]
    /\ UNCHANGED <<environment, mime, request, queues, files>>

(* Mutant: the MIME type is looked up when the reference is hashed. *)
CurrentLink(job, a) == [reference |-> a, mediaType |-> mime[a]]

(* A key that is missing in the map reads as undefined. *)
Link(job, a) == [reference |-> a, mediaType |-> IF a \in DOMAIN job.mimes THEN job.mimes[a] ELSE None]

(* Mutant: the attachment does not wait for the rest of its references. *)
FirstIsHere(job, i, j) == job.links[i] = <<>>

LastIsHere(job, i, j) == \A other \in job.todo : other[1] = i => other[2] = j

(* A reference is fetched and hashed, in whatever order; the attachment follows its last. *)
HashReference(id, i, j) ==
    LET job == jobs[id]
        part == Parts(job.body)[i]
        links == Append(job.links[i], Link(job, part.references[j])) IN
    /\ job.pc = "build" /\ <<i, j>> \in job.todo
    /\ jobs' = [jobs EXCEPT
         ![id].todo = @ \ {<<i, j>>},
         ![id].links[i] = links,
         ![id].attachments = IF LastIsHere(job, i, j) THEN Append(@, Attachment(part, links)) ELSE @]
    /\ UNCHANGED <<environment, mime, request, queues, files>>

(* Or IPFS fails. *)
BuildThrows(id) ==
    /\ jobs[id].pc = "build"
    /\ \E error \in Errors(jobs[id]) \cup {"ipfs" : t \in jobs[id].todo} :
         jobs' = [jobs EXCEPT ![id].pc = "failed", ![id].error = error,
                              ![id].todo = {}, ![id].links = <<>>, ![id].attachments = <<>>]
    /\ UNCHANGED <<environment, mime, request, queues, files>>

(* AnnouncementType, by the create functions. *)
AnnouncementType == [tombstone |-> 0, broadcast |-> 2, reply |-> 3, reaction |-> 4,
                     profile |-> 5, update |-> 6]

Create(job) == [announcementType |-> AnnouncementType[job.body.type],
                content |-> job.body, attachments |-> job.attachments]

(* The note is pinned, and the announcement is queued under the id of the request's job. *)
Announce(id) ==
    LET job == jobs[id] IN
    /\ job.pc = "build" /\ job.todo = {} /\ Errors(job) = {}
    /\ queues' = [queues EXCEPT ![QueueOf[job.body.type]] = @ \cup {Create(job)}]
    /\ jobs' = [jobs EXCEPT ![id].pc = "done", ![id].links = <<>>, ![id].attachments = <<>>]
    /\ UNCHANGED <<environment, mime, request, files>>

-----------------------------------------------------------------------------
(* The six announcement workers and closeBatch. *)

QueueToAnnouncement == [broadcastQueue |-> "broadcast", replyQueue |-> "reply",
                        reactionQueue |-> "reaction", updateQueue |-> "update",
                        tombstoneQueue |-> "tombstone", profileQueue |-> "profile"]

SchemaIds(env) ==
    IF env \in {"mainnet", "testnet"}
    THEN [tombstone |-> 1, broadcast |-> 2, reply |-> 3, reaction |-> 4, profile |-> 6, update |-> 5]
    ELSE [tombstone |-> 1, broadcast |-> 2, reply |-> 3, reaction |-> 4, profile |-> 5, update |-> 6]

(* Mutant: the number of the announcement type is taken for a schema id. *)
EnumAsSchemaId(env, type) == AnnouncementType[type]

GetSchemaId(env, type) == SchemaIds(env)[type]

(* Batching has how an announcement gets there; here is in which file. *)
Batch(q, a) ==
    /\ a \in queues[q]
    /\ queues' = [queues EXCEPT ![q] = @ \ {a}]
    /\ files' = files \cup {[schemaId |-> GetSchemaId(environment, QueueToAnnouncement[q]),
                             announcement |-> a]}
    /\ UNCHANGED <<environment, mime, request, jobs>>

-----------------------------------------------------------------------------
Next == \/ \E a \in Assets, type \in MimeTypes \cup {None} : SetMetadata(a, type)
        \/ \E r \in Requests : \/ \E body \in Bodies : Reject(r, body) \/ Accept(r, body)
                               \/ EnqueueRequest(r)
        \/ \E id \in DOMAIN jobs : \/ StartJob(id) \/ BuildThrows(id) \/ Announce(id)
                                   \/ \E t \in jobs[id].todo : HashReference(id, t[1], t[2])
        \/ \E q \in DOMAIN queues : \E a \in queues[q] : Batch(q, a)

Spec == Init /\ [][Next]_vars

-----------------------------------------------------------------------------
(* Properties. *)

JobRec == [pc : {"wait", "build", "done", "failed"}, body : Bodies,
           mimes : UNION {[A -> MimeTypes] : A \in SUBSET Assets},
           todo : SUBSET (Nat \X Nat), links : Seq(Seq([reference : Assets, mediaType : MimeTypes])),
           attachments : Seq([type : PartTypes, links : Seq([reference : Assets, mediaType : MimeTypes])]),
           error : {"none", "ipfs", "tag", "attachment", "target", "date"}]

(* Every variable has its type; a job's references are known with their MIME types. *)
TypeOK ==
    /\ environment \in Environments
    /\ mime \in [Assets -> MimeTypes \cup {None}]
    /\ \A r \in Requests :
         /\ request[r].pc \in {"idle", "accepted", "answered", "rejected"}
         /\ request[r].pc = "answered" => request[r].id \in DOMAIN jobs
    /\ \A id \in DOMAIN jobs : jobs[id] \in JobRec
    /\ \A f \in files : f.schemaId \in 1 .. 6

Announcements == (UNION {queues[q] : q \in DOMAIN queues}) \cup {f.announcement : f \in files}

(* What the DTOs are known to overlook: a date only IsISO8601 can read, and arrays, which   *)
(* have neither the type of a tag or part nor the date of a note.                           *)
Overlooked(body) ==
    {e \in {"tag", "attachment", "date"} :
        \/ e = "tag" /\ \E tag \in ToSet(body.tags) : IsArray(tag)
        \/ e = "attachment" /\ \E asset \in ToSet(body.assets) : IsArray(asset)
        \/ e = "date" /\ (body.array \/ (IsISO8601(body.published) /\ ~IsJsDate(body.published)))}

(* The DTOs and the switches of the worker are two lists of the same cases: what the API    *)
(* has answered with a reference the worker can build, if IPFS answers, except for what the *)
(* DTOs overlook: dates JavaScript cannot read, and arrays in place of objects.             *)
AcceptedCanBeBuilt == \A id \in DOMAIN jobs : Errors(jobs[id]) \subseteq Overlooked(jobs[id].body)

Shape(attachment) == [type |-> attachment.type,
                      references |-> {link.reference : link \in ToSet(attachment.links)}]
Asked(part) == [type |-> part.type,
                references |-> IF part.type = "link" THEN {} ELSE ToSet(part.references)]
Times(x, s, F(_)) == Cardinality({i \in DOMAIN s : F(s[i]) = x})

(* The callbacks of nested maps push to shared arrays as they finish: nevertheless a note   *)
(* has an attachment for each part of the request, complete, each as often as it was asked  *)
(* for, and every link has a MIME type.                                                     *)
NothingIsLeftOut ==
    \A n \in Announcements : LET parts == Parts(n.content) IN
        /\ Len(n.attachments) = Len(parts)
        /\ \A part \in ToSet(parts) :
             Times(Asked(part), n.attachments, Shape) = Times(Asked(part), parts, Asked)
        /\ \A attachment \in ToSet(n.attachments) :
             \A link \in ToSet(attachment.links) : link.mediaType # None

(* The icons of a profile are announced as the images they were when the API looked, however *)
(* often the same file is uploaded under another type before the worker gets to it.          *)
IconsAreImages ==
    \A n \in Announcements : \A attachment \in ToSet(n.attachments) :
        attachment.type = "icon" =>
            \A link \in ToSet(attachment.links) : link.mediaType \in Images

(* Six queue names, six workers, two tables by name and one per chain: an announcement ends *)
(* in a file with the schema of its own type on every chain, whatever its type is.          *)
FiledUnderItsSchema ==
    \A f \in files : \A type \in Types :
        SchemaIds(environment)[type] = f.schemaId =>
            /\ f.announcement.announcementType = AnnouncementType[type]
            /\ f.announcement.content.type = type

(* Two accepted references to a user are spelled alike: the content they are about is told  *)
(* apart by the text of its URI, here in the job id and later by its readers.               *)
OneSpellingPerUser ==
    \A i, j \in DOMAIN jobs :
        (/\ {jobs[i].body.type, jobs[j].body.type} \subseteq {"reply", "reaction"}
         /\ Value(jobs[i].body.uri.msaId) = Value(jobs[j].body.uri.msaId))
            => jobs[i].body.uri = jobs[j].body.uri

(* A request that is sent again (a client that has lost the answer) gets the same reference *)
(* and one announcement, also when its assets were uploaded again in between.               *)
ResentIsRecognized ==
    /\ \A r, s \in Requests :
         (/\ request[r].pc = "answered" /\ request[s].pc = "answered"
          /\ request[r].body = request[s].body) => request[r].id = request[s].id
    /\ \A m, n \in Announcements : m.content = n.content => m = n
=============================================================================
