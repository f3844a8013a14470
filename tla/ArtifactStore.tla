--------------------------- MODULE ArtifactStore ---------------------------
(***************************************************************************)
(* Managed artifacts: the content-addressed store of a daemon, the upload  *)
(* and download handlers of its connections, and the client's download     *)
(* loop.  Upload files and objects are on disk; the table of uploads is in *)
(* the memory of the daemon.  Each operation of the store holds the lock   *)
(* of that table; a commit goes on to the engine after letting it go.      *)
(*                                                                         *)
(* Content is a sequence of bytes and its own address: SHA-256 tells any   *)
(* two contents apart.  A client sends the bytes of its own file, in any   *)
(* pieces and possibly more than once.                                     *)
(***************************************************************************)
EXTENDS Naturals, Sequences, FiniteSets

CONSTANTS
    Server,      \* daemons that share the store's directory
    Upload,      \* upload ids, each drawn once
    Begins,      \* what uploads announce: [file, size, expects, id]
    Caller,      \* requests in progress
    NoId,        \* the upload names no entity: the engine mints its id
    Artifact,    \* entity ids
    MaxVersions  \* bound: versions of artifact entities

ASSUME UploadsAnnounceFiles ==
    \A b \in Begins : b.size \in Nat /\ b.expects \in BOOLEAN /\ b.id \in Artifact \cup {NoId}
ASSUME VersionsAreBounded == MaxVersions \in Nat

VARIABLES
    file,      \* upload files: their bytes, while they exist
    table,     \* active_uploads of each daemon
    objects,   \* contents in managed storage
    heads,     \* heads of the artifact entities
    versions,  \* versions made so far
    call,      \* commits and downloads in progress
    made,      \* history: entities created by each upload
    overlap,   \* history: unnamed uploads with two commits at once
    unheard,   \* history: unnamed uploads told of an error, but created
    fetched    \* history: what the last complete download returned

entityVars == <<heads, versions>>
historyVars == <<made, overlap, unheard, fetched>>
storeVars == <<file, table, objects, entityVars, call, historyVars>>

(* An upload file that was never created, or is no more.                   *)
Never == [at |-> "never", bytes |-> <<>>]
Removed == [at |-> "removed", bytes |-> <<>>]
Written(bytes) == [at |-> "written", bytes |-> bytes]
Exists(u) == file[u].at = "written"

Active(id) == {h \in heads : h.id = id /\ h.active}

Bytes(b) == [i \in 1..b.size |-> <<b.file, i>>]

NoVersion == 0
Absent == [at |-> "absent"]
Idle == [at |-> "idle"]

StoreTypeOK ==
    /\ \A s \in Server : \A u \in Upload :
          \/ table[s][u] = Absent
          \/ table[s][u].at = "open" /\ table[s][u].begin \in Begins
          \/ table[s][u].at = "committed" /\ table[s][u].begin \in Begins
    /\ \A h \in heads : h.id \in Artifact /\ h.version \in 1..versions
    /\ versions \in 0..MaxVersions
    /\ \A c \in Caller : call[c].at \in {"idle", "create", "finish", "download"}

StoreInit ==
    /\ file = [u \in Upload |-> Never]
    /\ table = [s \in Server |-> [u \in Upload |-> Absent]]
    /\ objects = {}
    /\ heads = {}
    /\ versions = 0
    /\ call = [c \in Caller |-> Idle]
    /\ made = [u \in Upload |-> 0]
    /\ overlap = {}
    /\ unheard = {}
    /\ fetched = {}

-----------------------------------------------------------------------------
(* Uploads.                                                                *)

(* begin: creates the file, then enters the upload.                        *)
Begin(s, u) ==
    /\ file[u] = Never
    /\ file' = [file EXCEPT ![u] = Written(<<>>)]
    /\ \E b \in Begins : table' = [table EXCEPT ![s][u] = [at |-> "open", begin |-> b]]
    /\ UNCHANGED <<objects, entityVars, call, historyVars>>

(* append: the chunk must start where the file ends.                       *)
AppendHere(u, offset) == offset = Len(file[u].bytes)

(* A chunk of an upload, perhaps one that was sent before.  A write that   *)
(* fails is answered by an error and may leave a part of it in the file.   *)
Chunk(s, u) ==
    /\ table[s][u].at = "open"
    /\ LET b == table[s][u].begin
       IN  \E first \in 1..b.size : \E last \in first..b.size :
              /\ AppendHere(u, first - 1)
              /\ b.expects => Len(file[u].bytes) + last - first + 1 <= b.size
              /\ \E end \in first..last :
                    file' = [file EXCEPT ![u].bytes = @ \o SubSeq(Bytes(b), first, end)]
    /\ UNCHANGED <<table, objects, entityVars, call, historyVars>>

(* Mutant: marks the upload and leaves its file where it is.               *)
LeftInPlace(u) == UNCHANGED <<file, objects>>

(* The end of commit: the file becomes the object at its address, or is    *)
(* removed when that object exists.                                        *)
Placed(u) ==
    /\ file' = [file EXCEPT ![u] = Removed]
    /\ objects' = objects \cup {file[u].bytes}

Committing(c, u) == call[c].at \in {"create", "finish"} /\ call[c].upload = u

(* The commit handler up to the engine: the store checks what the upload   *)
(* announced and places its bytes; an upload that is committed already     *)
(* answers with what was stored.                                           *)
Commit(s, c, u) ==
    /\ call[c] = Idle
    /\ \/ /\ table[s][u].at = "open"
          /\ table[s][u].begin.expects => file[u].bytes = Bytes(table[s][u].begin)
          /\ Placed(u)
          /\ table' = [table EXCEPT ![s][u] =
                [at |-> "committed", begin |-> table[s][u].begin, key |-> file[u].bytes]]
       \/ /\ table[s][u].at = "committed"
          /\ UNCHANGED <<file, objects, table>>
    /\ call' = [call EXCEPT ![c] =
          [at |-> "create", by |-> s, upload |-> u, id |-> table'[s][u].begin.id,
           key |-> table'[s][u].key]]
    /\ overlap' = overlap \cup {v \in {u} : /\ call'[c].id = NoId
                                         /\ \E b \in Caller : Committing(b, u)}
    /\ UNCHANGED <<entityVars, made, unheard, fetched>>

Taken == {h.id : h \in heads}

(* engine.create makes the entity: under the id the upload asked for, when *)
(* there is none, or under a new one.                                      *)
Makes(c) ==
    /\ call[c].at = "create"
    /\ versions < MaxVersions
    /\ \E id \in IF call[c].id = NoId THEN Artifact \ Taken ELSE {call[c].id} \ Taken :
          heads' = heads \cup {[id |-> id, version |-> versions + 1, active |-> TRUE,
                              key |-> call[c].key]}
    /\ versions' = versions + 1
    /\ made' = [made EXCEPT ![call[c].upload] = @ + 1]

(* The engine answers with the entity it has made.                         *)
Create(c) ==
    /\ Makes(c)
    /\ call' = [call EXCEPT ![c].at = "finish"]
    /\ UNCHANGED <<file, table, objects, overlap, unheard, fetched>>

(* The engine has made the entity and answers an error: a storage node did *)
(* not answer in time, or the final read of a resolved publication failed. *)
(* As after any error the upload stays, and may be committed again.        *)
CreateUnheard(c) ==
    /\ Makes(c)
    /\ call' = [call EXCEPT ![c] = Idle]
    /\ unheard' = unheard \cup {u \in {call[c].upload} : call[c].id = NoId}
    /\ UNCHANGED <<file, table, objects, overlap, fetched>>

(* The deadline has passed, the id is taken or the engine fails before it  *)
(* makes the entity: the upload stays, and may be committed again.         *)
CreateFails(c) ==
    /\ call[c].at = "create"
    /\ call' = [call EXCEPT ![c] = Idle]
    /\ UNCHANGED <<file, table, objects, entityVars, historyVars>>

(* Mutant: the upload stays after its entity was created.                  *)
FinishKept(c) ==
    /\ call[c].at = "finish"
    /\ call' = [call EXCEPT ![c] = Idle]
    /\ UNCHANGED <<file, table, objects, entityVars, historyVars>>

(* finish: the upload is forgotten, and the client is answered.            *)
Finish(c) ==
    /\ call[c].at = "finish"
    /\ table' = [table EXCEPT ![call[c].by][call[c].upload] = Absent]
    /\ call' = [call EXCEPT ![c] = Idle]
    /\ UNCHANGED <<file, objects, entityVars, historyVars>>

-----------------------------------------------------------------------------
(* Entities and downloads.                                                 *)

(* Another client replaces the heads of an artifact, by a new version over *)
(* some stored content or by a tombstone.  Bytes are never deleted.        *)
Edit(id) ==
    /\ id \in Taken
    /\ versions < MaxVersions
    /\ \E new \in [active : {TRUE}, key : objects] \cup {[active |-> FALSE, key |-> <<>>]} :
          heads' = {h \in heads : h.id # id} \cup
                      {[id |-> id, version |-> versions + 1, active |-> new.active,
                        key |-> new.key]}
    /\ versions' = versions + 1
    /\ UNCHANGED <<file, table, objects, call, historyVars>>

(* downloadArtifact of the client, with no version requested.              *)
Download(s, c, id) ==
    /\ call[c] = Idle
    /\ id \in Taken
    /\ call' = [call EXCEPT ![c] =
          [at |-> "download", by |-> s, id |-> id, version |-> NoVersion, got |-> <<>>]]
    /\ UNCHANGED <<file, table, objects, entityVars, historyVars>>

(* Mutant: every chunk is read from whatever version is current.           *)
SelectedCurrent(c) == Active(call[c].id)

(* download_artifact_chunk: the version the client has pinned, or the only *)
(* head when it has none yet.                                              *)
Selected(c) ==
    IF call[c].version # NoVersion
    THEN {h \in Active(call[c].id) : h.version = call[c].version}
    ELSE {h \in Active(call[c].id) : {g \in heads : g.id = h.id} = {h}}

(* One chunk, of one byte: the client pins the version of the first one,   *)
(* and stops at the end of the content.                                    *)
FetchChunk(c) ==
    /\ call[c].at = "download"
    /\ \E h \in Selected(c) :
          LET offset == Len(call[c].got)
              got == IF offset < Len(h.key) THEN Append(call[c].got, h.key[offset + 1])
                     ELSE call[c].got
          IN  /\ offset <= Len(h.key)
              /\ \/ /\ Len(got) = Len(h.key)
                    /\ fetched' = {got}
                    /\ call' = [call EXCEPT ![c] = Idle]
                 \/ /\ Len(got) < Len(h.key)
                    /\ call' = [call EXCEPT ![c].got = got, ![c].version = h.version]
                    /\ UNCHANGED fetched
    /\ UNCHANGED <<file, table, objects, entityVars, made, overlap, unheard>>

(* Any other answer is an error, and the client gives up.                  *)
FetchFails(c) ==
    /\ call[c].at = "download"
    /\ call' = [call EXCEPT ![c] = Idle]
    /\ UNCHANGED <<file, table, objects, entityVars, historyVars>>

-----------------------------------------------------------------------------
(* What the daemon's life does to the store.                               *)

Forget(s) ==
    /\ table' = [table EXCEPT ![s] = [u \in Upload |-> Absent]]
    /\ call' = [c \in Caller |-> IF call[c] # Idle /\ call[c].by = s THEN Idle ELSE call[c]]

(* clear_incomplete_uploads removes every upload file there is.            *)
ClearUploads == file' = [u \in Upload |-> IF Exists(u) THEN Removed ELSE file[u]]

(* The requests a daemon may take up, and those it has taken up.           *)
NewRequest(s) ==
    \/ \E u \in Upload : Begin(s, u) \/ Chunk(s, u) \/ \E c \in Caller : Commit(s, c, u)
    \/ \E id \in Artifact : Edit(id) \/ \E c \in Caller : Download(s, c, id)

TakenUp(s) ==
    \E c \in Caller :
        /\ call[c] # Idle /\ call[c].by = s
        /\ \/ Create(c) \/ CreateUnheard(c) \/ CreateFails(c) \/ Finish(c)
           \/ FetchChunk(c) \/ FetchFails(c)

Quiet(s) == \A c \in Caller : call[c] # Idle => call[c].by # s

-----------------------------------------------------------------------------
(* An artifact entity that was never edited or was edited to stored        *)
(* content can be downloaded whenever it is visible: its bytes were placed *)
(* before the entity was created, and neither a failed commit nor a        *)
(* restart that discards uploads takes them away.                          *)
ArtifactsHaveBytes ==
    \A h \in heads : h.active => h.key \in objects

(* Chunks are accepted "in strict offset order": however they were split,  *)
(* repeated or cut short by a failed write, the bytes of an open upload    *)
(* are a prefix of the client's file.                                      *)
UploadIsAPrefix ==
    \A s \in Server : \A u \in Upload :
        table[s][u].at = "open" /\ Exists(u) =>
            /\ Len(file[u].bytes) <= table[s][u].begin.size
            /\ file[u].bytes = SubSeq(Bytes(table[s][u].begin), 1, Len(file[u].bytes))

(* An upload that names its entity makes it once, however often its commit *)
(* fails, before or after the engine has made the entity, is cut off, is   *)
(* repeated or overlaps another.  An upload that leaves the id to the      *)
(* engine makes one entity as long as no two commits of it are in progress *)
(* at once and none was answered an error after its entity was made: the   *)
(* store keeps the upload then, and the next commit makes another entity.  *)
OneEntityPerUpload ==
    \A u \in Upload : made[u] <= 1 \/ u \in overlap \cup unheard

(* "the download fails instead of combining bytes from different Artifact  *)
(* versions": what a complete download returns is one stored content.      *)
DownloadsAreWhole == fetched \subseteq objects
=============================================================================
