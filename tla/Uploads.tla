------------------------------- MODULE Uploads -------------------------------
(***************************************************************************)
(* Images: the URL an employer is issued, the upload to it, the admins'    *)
(* own upload, and what is served afterwards                               *)
(* (internal/handlers/upload.go, internal/storage/{factory,local,r2}.go).  *)
(*                                                                         *)
(* With local storage a request streams its body into the file: os.Create  *)
(* truncates, io.Copy writes block after block at the handler's own        *)
(* offset, and nothing is undone when the body ends early, is too large,   *)
(* or the process dies.  Two requests for the same key (a retry after a    *)
(* timeout, say) write into the same file at once.  With R2 the browser    *)
(* puts the object itself, whole or not at all, to the key its URL was     *)
(* signed for; the local endpoint takes the key and the type from the      *)
(* query, whatever key and type anybody was issued.                        *)
(*                                                                         *)
(* A block stands for any number of bytes; Limit is the five megabytes.    *)
(***************************************************************************)
EXTENDS Integers

CONSTANTS
  Keys,        \* object keys: each holds a fresh UUID
  NoKey,       \* no key
  Names,       \* tell bodies of one size apart
  NoName,      \* the name of no body
  Types,       \* the content types clients ask for
  Limit,       \* maxUploadBytes, in blocks
  MaxSize,     \* bound: the largest body a client tries
  MaxUploads   \* bound: uploads of one run

(* upload.go: what a URL is issued for, and local.go: what an upload may be *)
AllowedContentTypes ==
  {"image/png", "image/jpeg", "image/jpg", "image/webp", "image/svg+xml"}
AllowedTypes ==
  {"image/png", "image/jpeg", "image/webp", "image/svg+xml"}

ASSUME AbsentValues == NoKey \notin Keys /\ NoName \notin Names
ASSUME Bounds ==
  /\ Types \subseteq AllowedContentTypes
  /\ Limit \in Nat /\ MaxSize \in Nat /\ Limit <= MaxSize
  /\ MaxUploads \in Nat

Upload == 1 .. MaxUploads
NoUpload == 0
NoType == "none"

Body   == [name : Names, size : 0 .. MaxSize]
NoBody == [name |-> NoName, size |-> 0]

(* A file: at each place a block of some body, a hole (zeros the file      *)
(* system fills in below a write) or nothing.                              *)
Place   == 1 .. MaxSize
Hole    == [name |-> NoName, size |-> 1]
Nothing == [name |-> NoName, size |-> 2]
Block   == Body \cup {Hole, Nothing}
Empty   == [i \in Place |-> Nothing]
Whole(body) == [i \in Place |-> IF i <= body.size THEN body ELSE Nothing]

(* An upload in its handler.  reads is how much of the body its reader     *)
(* gives before it ends or fails, pos how much of that is written.  rivals *)
(* is history: the uploads that had the same file open when this one       *)
(* truncated it.                                                           *)
Handler == [status : {"none", "open", "acked", "failed"},
            key    : Keys \cup {NoKey},
            body   : Body \cup {NoBody},
            reads  : 0 .. MaxSize,
            pos    : 0 .. MaxSize,
            rivals : SUBSET Upload]
NotStarted == [status |-> "none", key |-> NoKey, body |-> NoBody,
               reads |-> 0, pos |-> 0, rivals |-> {}]

VARIABLES
  store,   \* the storage client: local or r2
  issued,  \* the type each key's upload URL was issued for
  files,   \* the contents of each key's file or object
  up,      \* the uploads
  last     \* history: the upload that created or truncated the file last

vars == <<store, issued, files, up, last>>

Init ==
  /\ store \in {"local", "r2"}
  /\ issued = [k \in Keys |-> NoType]
  /\ files = [k \in Keys |-> Empty]
  /\ up = [u \in Upload |-> NotStarted]
  /\ last = [k \in Keys |-> NoUpload]

-----------------------------------------------------------------------------
(***************************************************************************)
(* Plausible mistakes, for the mutation runs: each stands in for the       *)
(* operator its name begins with.  Next uses none.                         *)
(***************************************************************************)

Open(k) == {u \in Upload : up[u].status = "open" /\ up[u].key = k}

(* io.LimitReader for MaxBytesReader: a reader that ends where the limit   *)
(* is, and no error *)
Complete_Cut(u) == up[u].status = "open" /\ up[u].pos = up[u].reads

(* a form whose header.Size nobody looks at *)
FormFits_Unchecked(body) == TRUE

(* os.OpenFile without O_TRUNC *)
Truncated_NoTruncate(k) == files[k]

-----------------------------------------------------------------------------
(* uuid.New: a key nobody has been given *)
Fresh(k) == issued[k] = NoType /\ last[k] = NoUpload

(* fileSize > 5*1024*1024: the length of a form's file is known *)
FormFits(body) == body.size <= Limit

(* MaxBytesReader: the reader fails behind the limit *)
RawReads(body) == IF body.size <= Limit THEN body.size ELSE Limit

(* Query().Get("content_type") of an issued URL.  GeneratePresignedURL     *)
(* puts the type in as it is, and a plus sign in a query is a blank.       *)
Decoded(t) == IF t = "image/svg+xml" THEN "image/svg xml" ELSE t

(* UploadHandler.GetUploadURL: both URLs are handed out before the upload *)
GetUploadURL(k, t) ==
  /\ Fresh(k)
  /\ t \in Types
  /\ issued' = [issued EXCEPT ![k] = t]
  /\ UNCHANGED <<store, files, up, last>>

(* os.Create: the file is empty, whoever else is writing it *)
Truncated(k) == Empty

(* uploads are numbered as they come *)
NextUpload(u) == up[u] = NotStarted /\ \A v \in 1 .. u - 1 : up[v] # NotStarted

Begin(u, k, body, reads) ==
  /\ NextUpload(u)
  /\ up' = [up EXCEPT ![u] =
       [status |-> "open", key |-> k, body |-> body, reads |-> reads, pos |-> 0,
        rivals |-> Open(k)]]
  /\ files' = [files EXCEPT ![k] = Truncated(k)]
  /\ last' = [last EXCEPT ![k] = u]
  /\ UNCHANGED <<store, issued>>

(* HandleLocalUpload up to os.Create, with any key and type.  A form is    *)
(* checked once and copied without a limit; a raw body is cut off later. *)
LocalOpen(u, k, t, body, multipart) ==
  /\ store = "local"
  /\ t \in AllowedTypes
  /\ multipart => FormFits(body)
  /\ Begin(u, k, body, IF multipart THEN body.size ELSE RawReads(body))

(* HandleAdminUpload up to WriteFile's open: the whole body is read first, *)
(* an error refuses it *)
AdminOpen(u, k, body) ==
  /\ store = "local"
  /\ Fresh(k)
  /\ body.size > 0 /\ RawReads(body) = body.size
  /\ Begin(u, k, body, body.size)

(* io.Copy, or WriteFile, writes a block at the handler's own offset *)
WriteBlock(u) ==
  LET k == up[u].key
      p == up[u].pos + 1
  IN
  /\ up[u].status = "open"
  /\ p <= up[u].reads
  /\ files' = [files EXCEPT ![k] = [i \in Place |->
       IF i = p THEN up[u].body
       ELSE IF i < p /\ files[k][i] = Nothing THEN Hole
       ELSE files[k][i]]]
  /\ up' = [up EXCEPT ![u].pos = p]
  /\ UNCHANGED <<store, issued, last>>

(* the copy ended without an error: there was no more to read *)
Complete(u) == up[u].status = "open" /\ up[u].pos = up[u].body.size

(* the reply has the public URL *)
Answer(u) ==
  /\ Complete(u)
  /\ up' = [up EXCEPT ![u].status = "acked"]
  /\ UNCHANGED <<store, issued, files, last>>

(* the body ends early or is too large, the disk is full, the client or    *)
(* the connection is gone: what was written stays *)
Fail(u) ==
  /\ up[u].status = "open"
  /\ up' = [up EXCEPT ![u].status = "failed"]
  /\ UNCHANGED <<store, issued, files, last>>

(* PUT to R2 with a presigned URL: the object is replaced as a whole.  The *)
(* URL fixes the key and the type. *)
R2Put(u, k, body) ==
  /\ store = "r2"
  /\ issued[k] # NoType
  /\ NextUpload(u)
  /\ up' = [up EXCEPT ![u] =
       [status |-> "acked", key |-> k, body |-> body, reads |-> body.size,
        pos |-> body.size, rivals |-> {}]]
  /\ files' = [files EXCEPT ![k] = Whole(body)]
  /\ last' = [last EXCEPT ![k] = u]
  /\ UNCHANGED <<store, issued>>

(* the process ends, and starts again with the same files *)
Crash ==
  /\ \E u \in Upload : up[u].status = "open"
  /\ up' = [u \in Upload |->
       IF up[u].status = "open" THEN [up[u] EXCEPT !.status = "failed"] ELSE up[u]]
  /\ UNCHANGED <<store, issued, files, last>>

Next ==
  \/ \E k \in Keys :
       \/ \E t \in Types : GetUploadURL(k, t)
       \/ \E u \in Upload, body \in Body :
            \/ \E t \in {Decoded(s) : s \in Types}, multipart \in BOOLEAN :
                 LocalOpen(u, k, t, body, multipart)
            \/ AdminOpen(u, k, body)
            \/ R2Put(u, k, body)
  \/ \E u \in Upload :
       \/ WriteBlock(u)
       \/ Answer(u)
       \/ Fail(u)
  \/ Crash

Spec == Init /\ [][Next]_vars

-----------------------------------------------------------------------------
(***************************************************************************)
(* Correctness.                                                            *)
(***************************************************************************)

TypeOK ==
  /\ store \in {"local", "r2"}
  /\ issued \in [Keys -> Types \cup {NoType}]
  /\ files \in [Keys -> [Place -> Block]]
  /\ up \in [Upload -> Handler]
  /\ last \in [Keys -> Upload \cup {NoUpload}]

(* ServeFile: the file's bytes as they are, to be cached for a year *)
Served(k) == files[k]

(* A body over the limit is refused or breaks off: it is never answered    *)
(* with success, cut short, and no local file grows past the limit, of     *)
(* forms, which are measured once and copied without a limit, and of raw   *)
(* bodies, which are measured while they are copied, however uploads of    *)
(* one key overlap and continue behind each other's truncation             *)
(* (HandleLocalUpload, HandleAdminUpload).                                 *)
SizeBounded ==
  store = "local" =>
    /\ \A u \in Upload : up[u].status = "acked" => up[u].body.size <= Limit
    /\ \A k \in Keys, i \in Place : i > Limit => Served(k)[i] = Nothing

(* When the upload that truncated the file last was answered with success, *)
(* the file has no hole and no block of an upload that was over before;    *)
(* and if no other had it open, it is that upload's body and nothing else. *)
(* So a retry that succeeds repairs what an attempt before it left behind, *)
(* and a retry with the same body does no harm even while the first        *)
(* attempt is still writing.                                               *)
LastAnsweredIsWhole ==
  \A k \in Keys :
    LET u == last[k] IN
    u # NoUpload /\ up[u].status = "acked" =>
      /\ \A i \in 1 .. up[u].body.size :
           Served(k)[i] \in {up[u].body} \cup {up[v].body : v \in up[u].rivals}
      /\ (\A v \in up[u].rivals : up[v].body = up[u].body)
           => Served(k) = Whole(up[u].body)

-----------------------------------------------------------------------------
(***************************************************************************)
(* The inductive invariant.                                                *)
(***************************************************************************)

(* what a handler holds *)
HandlerOK(u) ==
  LET h == up[u] IN
  IF h.status = "none" THEN h = NotStarted
  ELSE /\ h.key \in Keys /\ h.body \in Body
       /\ last[h.key] # NoUpload
       /\ h.pos <= h.reads /\ h.reads <= h.body.size
       /\ store = "local" => h.reads <= Limit
       /\ h.status = "acked" => h.pos = h.body.size
       /\ \A v \in h.rivals :
            v # u /\ up[v].status # "none" /\ up[v].key = h.key
       /\ h.status = "open" => store = "local"

(* what the upload that truncated a file last has to do with its contents, *)
(* and who else may still be writing it *)
Authors(u) == {up[u].body} \cup {up[v].body : v \in up[u].rivals}

FileOK(k) ==
  LET u == last[k] IN
  IF u = NoUpload THEN files[k] = Empty
  ELSE /\ up[u].status # "none" /\ up[u].key = k
       /\ Open(k) \subseteq up[u].rivals \cup {u}
       /\ \A i \in Place :
            /\ files[k][i] \in Authors(u) \cup {Hole, Nothing}
            /\ i <= up[u].pos => files[k][i] \in Authors(u)
            /\ i > up[u].pos /\ files[k][i] # Nothing =>
                 \E v \in up[u].rivals : i <= up[v].pos

UpInv   == \A u \in Upload : HandlerOK(u)
FileInv == \A k \in Keys : FileOK(k)

IInv == TypeOK /\ UpInv /\ FileInv
=============================================================================
