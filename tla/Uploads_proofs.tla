---------------------------- MODULE Uploads_proofs ----------------------------
(***************************************************************************)
(* Theorems about Uploads, for all numbers of keys, uploads and blocks.    *)
(***************************************************************************)
EXTENDS Uploads, TLAPS

USE DEF NoUpload, NoType

(* What a handler holds is a key, a body and a position in it. *)
LEMMA HandlerFacts ==
  ASSUME TypeOK, NEW u \in Upload
  PROVE  /\ up[u] \in Handler
         /\ up[u].status \in {"none", "open", "acked", "failed"}
         /\ up[u].key \in Keys \cup {NoKey}
         /\ up[u].body \in Body \cup {NoBody}
         /\ up[u].reads \in 0 .. MaxSize
         /\ up[u].pos \in 0 .. MaxSize
         /\ up[u].rivals \in SUBSET Upload
BY DEF TypeOK, Handler

LEMMA BodySize ==
  ASSUME NEW body \in Body \cup {NoBody}
  PROVE  body.size \in 0 .. MaxSize /\ body.size \in Int
<1>1. MaxSize \in Nat
  BY Bounds
<1> QED BY <1>1 DEF Body, NoBody

LEMMA NotStartedFacts ==
  /\ NotStarted.status = "none" /\ NotStarted.key = NoKey
  /\ NotStarted.body = NoBody /\ NotStarted.reads = 0 /\ NotStarted.pos = 0 /\ NotStarted.rivals = {}
  /\ NotStarted \in Handler
BY Bounds DEF NotStarted, Handler

(* Neither a hole nor nothing is a body. *)
LEMMA BodiesAreNeitherHoleNorNothing ==
  ASSUME NEW body \in Body
  PROVE  body # Hole /\ body # Nothing
BY AbsentValues DEF Body, Hole, Nothing

LEMMA UploadsAreInts == Upload \subseteq Int /\ 0 \notin Upload
BY DEF Upload

LEMMA PlacesAreInts == Place \subseteq Int /\ MaxSize \in Int /\ Limit \in Int
BY Bounds DEF Place

-----------------------------------------------------------------------------
(* Types *)

LEMMA EmptyFile == Empty \in [Place -> Block]
BY DEF Empty, Block

LEMMA WholeFile == ASSUME NEW body \in Body PROVE Whole(body) \in [Place -> Block]
BY DEF Whole, Block

LEMMA BeginTypes ==
  ASSUME TypeOK, NEW u \in Upload, NEW k \in Keys, NEW body \in Body,
         NEW reads \in 0 .. MaxSize, Begin(u, k, body, reads)
  PROVE  TypeOK'
<1>1. [status |-> "open", key |-> k, body |-> body, reads |-> reads, pos |-> 0,
       rivals |-> Open(k)]
        \in Handler
  BY Bounds DEF Handler, Open
<1>2. up' \in [Upload -> Handler]
  BY <1>1 DEF Begin, TypeOK
<1>3. files' \in [Keys -> [Place -> Block]]
  BY EmptyFile DEF Begin, TypeOK, Truncated
<1>4. last' \in [Keys -> Upload \cup {NoUpload}]
  BY DEF Begin, TypeOK
<1>5. UNCHANGED <<store, issued>>
  BY DEF Begin
<1> QED BY <1>2, <1>3, <1>4, <1>5 DEF TypeOK

LEMMA WriteTypes ==
  ASSUME TypeOK, UpInv, NEW u \in Upload, WriteBlock(u)
  PROVE  TypeOK'
<1> DEFINE k == up[u].key
           p == up[u].pos + 1
<1>1. k \in Keys /\ up[u].body \in Body
  BY DEF UpInv, HandlerOK, WriteBlock
<1>2. p \in 0 .. MaxSize
  BY <1>1, HandlerFacts, BodySize, PlacesAreInts DEF WriteBlock
<1>3. up' \in [Upload -> Handler]
  <2>1. [up[u] EXCEPT !.pos = p] \in Handler
    BY <1>2, HandlerFacts DEF Handler
  <2> QED BY <2>1 DEF TypeOK, WriteBlock
<1>4. files' \in [Keys -> [Place -> Block]]
  <2> DEFINE f == [i \in Place |-> IF i = p THEN up[u].body
                     ELSE IF i < p /\ files[k][i] = Nothing THEN Hole
                     ELSE files[k][i]]
  <2>1. f \in [Place -> Block]
    BY <1>1 DEF Block, TypeOK
  <2>2. files' = [files EXCEPT ![k] = f]
    BY DEF WriteBlock
  <2> QED BY <2>1, <2>2 DEF TypeOK
<1>5. UNCHANGED <<store, issued, last>>
  BY DEF WriteBlock
<1> QED BY <1>3, <1>4, <1>5 DEF TypeOK

LEMMA PutTypes ==
  ASSUME TypeOK, NEW u \in Upload, NEW k \in Keys, NEW body \in Body,
         R2Put(u, k, body)
  PROVE  TypeOK'
<1>1. [status |-> "acked", key |-> k, body |-> body, reads |-> body.size,
       pos |-> body.size, rivals |-> {}]
        \in Handler
  BY BodySize DEF Handler
<1>2. up' \in [Upload -> Handler]
  BY <1>1 DEF R2Put, TypeOK
<1>3. files' \in [Keys -> [Place -> Block]]
  BY WholeFile DEF R2Put, TypeOK
<1>4. last' \in [Keys -> Upload \cup {NoUpload}]
  BY DEF R2Put, TypeOK
<1>5. UNCHANGED <<store, issued>>
  BY DEF R2Put
<1> QED BY <1>2, <1>3, <1>4, <1>5 DEF TypeOK

(* Answers, failures and crashes end uploads: they change statuses only.   *)
LEMMA EndTypes ==
  ASSUME TypeOK, UpInv,
         \/ \E u \in Upload : Answer(u) \/ Fail(u)
         \/ Crash
  PROVE  TypeOK'
<1>1. ASSUME NEW u \in Upload, NEW s \in {"acked", "failed"}
      PROVE  [up[u] EXCEPT !.status = s] \in Handler
  BY <1>1, HandlerFacts DEF Handler
<1>2. ASSUME NEW u \in Upload, Answer(u) PROVE TypeOK'
  <2>1. up' \in [Upload -> Handler]
    BY <1>1, <1>2 DEF Answer, TypeOK
  <2>2.. UNCHANGED <<store, issued, files, last>>
    BY <1>2 DEF Answer
  <2> QED BY <2>1, <2>2 DEF TypeOK
<1>3. ASSUME NEW u \in Upload, Fail(u) PROVE TypeOK'
  <2>1. up' \in [Upload -> Handler]
    BY <1>1, <1>3 DEF Fail, TypeOK
  <2>2. UNCHANGED <<store, issued, files, last>>
    BY <1>3 DEF Fail
  <2> QED BY <2>1, <2>2 DEF TypeOK
<1>4. ASSUME Crash PROVE TypeOK'
  <2>1. up' \in [Upload -> Handler]
    BY <1>1, <1>4 DEF Crash, TypeOK
  <2>2. UNCHANGED <<store, issued, files, last>>
    BY <1>4 DEF Crash
  <2> QED BY <2>1, <2>2 DEF TypeOK
<1> QED BY <1>2, <1>3, <1>4

LEMMA UrlTypes ==
  ASSUME TypeOK, NEW k \in Keys, NEW t \in Types, GetUploadURL(k, t)
  PROVE  TypeOK'
BY DEF TypeOK, GetUploadURL

-----------------------------------------------------------------------------
(* What a handler knows *)

(* What a step that begins an upload, or puts one whole, must show of it.  *)
LEMMA UpInvKept ==
  ASSUME TypeOK, UpInv, NEW u \in Upload, HandlerOK(u)',
         \A v \in Upload \ {u} : up'[v] = up[v],
         up[u].status # "none" => up'[u].key = up[u].key,
         up'[u].status # "none",
         \A k \in Keys : last[k] # NoUpload => last'[k] # NoUpload,
         store' = store
  PROVE  UpInv'
<1> SUFFICES ASSUME NEW v \in Upload, v # u PROVE HandlerOK(v)'
  BY DEF UpInv
<1>1. HandlerOK(v) /\ up'[v] = up[v]
  BY DEF UpInv
<1>2. CASE up[v].status = "none"
  BY <1>1, <1>2 DEF HandlerOK
<1>3. CASE up[v].status # "none"
  <2>1. up[v].key \in Keys /\ last'[up[v].key] # NoUpload
    BY <1>1, <1>3 DEF HandlerOK
  <2>2. ASSUME NEW w \in up[v].rivals
        PROVE  w # v /\ up'[w].status # "none" /\ up'[w].key = up[v].key
    <3>1. w \in Upload
      BY HandlerFacts
    <3>2. w # v /\ up[w].status # "none" /\ up[w].key = up[v].key
      BY <1>1, <1>3 DEF HandlerOK
    <3> QED BY <3>1, <3>2
  <2> QED BY <1>1, <1>3, <2>1, <2>2 DEF HandlerOK
<1> QED BY <1>2, <1>3

LEMMA BeginUpInv ==
  ASSUME TypeOK, UpInv, store = "local",
         NEW u \in Upload, NEW k \in Keys, NEW body \in Body,
         NEW reads \in 0 .. MaxSize, reads <= body.size, reads <= Limit,
         Begin(u, k, body, reads)
  PROVE  UpInv'
<1>1. up[u].status = "none"
  BY NotStartedFacts DEF Begin, NextUpload
<1>2. /\ up'[u] = [status |-> "open", key |-> k, body |-> body,
                  reads |-> reads, pos |-> 0, rivals |-> Open(k)]
      /\ \A v \in Upload \ {u} : up'[v] = up[v]
  BY DEF Begin, TypeOK
<1>3. last'[k] = u /\ \A kk \in Keys \ {k} : last'[kk] = last[kk]
  BY DEF Begin, TypeOK
<1>4. u # NoUpload /\ store' = store
  BY UploadsAreInts DEF Begin
<1>5. ASSUME NEW v \in Open(k)
      PROVE  v # u /\ up'[v].status # "none" /\ up'[v].key = k
  BY <1>1, <1>2 DEF Open
<1>6. 0 <= reads
  BY PlacesAreInts
<1>7. HandlerOK(u)'
  BY <1>2, <1>3, <1>4, <1>5, <1>6 DEF HandlerOK
<1> QED BY <1>1, <1>2, <1>3, <1>4, <1>7, UpInvKept

LEMMA PutUpInv ==
  ASSUME TypeOK, UpInv,
         NEW u \in Upload, NEW k \in Keys, NEW body \in Body, R2Put(u, k, body)
  PROVE  UpInv'
<1>1. up[u].status = "none"
  BY NotStartedFacts DEF R2Put, NextUpload
<1>2. /\ up'[u] = [status |-> "acked", key |-> k, body |-> body,
                  reads |-> body.size, pos |-> body.size, rivals |-> {}]
      /\ \A v \in Upload \ {u} : up'[v] = up[v]
  BY DEF R2Put, TypeOK
<1>3. last'[k] = u /\ \A kk \in Keys \ {k} : last'[kk] = last[kk]
  BY DEF R2Put, TypeOK
<1>4. u # NoUpload /\ store' = store /\ store = "r2"
  BY UploadsAreInts DEF R2Put
<1>5. body.size <= body.size
  BY BodySize
<1>6. HandlerOK(u)'
  BY <1>2, <1>3, <1>4, <1>5 DEF HandlerOK
<1> QED BY <1>1, <1>2, <1>3, <1>4, <1>6, UpInvKept

LEMMA WriteUpInv ==
  ASSUME TypeOK, UpInv, NEW u \in Upload, WriteBlock(u)
  PROVE  UpInv'
<1>1. up[u].status = "open" /\ HandlerOK(u)
  BY DEF WriteBlock, UpInv
<1>2. /\ up'[u] = [up[u] EXCEPT !.pos = up[u].pos + 1]
      /\ \A v \in Upload \ {u} : up'[v] = up[v]
      /\ last' = last /\ store' = store
  BY DEF WriteBlock, TypeOK
<1>3. /\ up'[u].status = "open" /\ up'[u].key = up[u].key
      /\ up'[u].body = up[u].body /\ up'[u].reads = up[u].reads
      /\ up'[u].pos = up[u].pos + 1 /\ up'[u].rivals = up[u].rivals
  BY <1>1, <1>2, HandlerFacts DEF Handler
<1>4. up[u].pos + 1 <= up[u].reads
  BY DEF WriteBlock
<1>5. ASSUME NEW v \in up[u].rivals
      PROVE  v # u /\ up'[v].status # "none" /\ up'[v].key = up[u].key
  <2>1. v \in Upload
    BY HandlerFacts
  <2> QED BY <1>1, <1>2, <2>1 DEF HandlerOK
<1>6. HandlerOK(u)'
  BY <1>1, <1>2, <1>3, <1>4, <1>5 DEF HandlerOK
<1> QED BY <1>1, <1>2, <1>3, <1>6, UpInvKept

(* What the three ways to end uploads have in common: the ended keep all   *)
(* but their status, and one that is answered is complete.                 *)
Ended ==
  /\ \A v \in Upload :
       /\ up'[v].key = up[v].key /\ up'[v].body = up[v].body
       /\ up'[v].reads = up[v].reads /\ up'[v].pos = up[v].pos
       /\ up'[v].rivals = up[v].rivals
       /\ \/ up'[v] = up[v]
          \/ /\ up[v].status = "open" /\ up'[v].status \in {"acked", "failed"}
             /\ up'[v].status = "acked" => up[v].pos = up[v].body.size
  /\ UNCHANGED <<store, issued, files, last>>

LEMMA EndsAreEnded ==
  ASSUME TypeOK,
         \/ \E u \in Upload : Answer(u) \/ Fail(u)
         \/ Crash
  PROVE  Ended
<1>1. ASSUME NEW u \in Upload, Answer(u) PROVE Ended
  <2>1. up[u].status = "open" /\ up[u].pos = up[u].body.size
    BY <1>1 DEF Answer, Complete
  <2>2. up' = [up EXCEPT ![u].status = "acked"]
    BY <1>1 DEF Answer
  <2>3. /\ \A v \in Upload \ {u} : up'[v] = up[v]
        /\ up'[u].status = "acked" /\ up'[u].key = up[u].key
        /\ up'[u].body = up[u].body /\ up'[u].reads = up[u].reads
        /\ up'[u].pos = up[u].pos /\ up'[u].rivals = up[u].rivals
    BY <2>2, HandlerFacts DEF TypeOK, Handler
  <2>4. UNCHANGED <<store, issued, files, last>>
    BY <1>1 DEF Answer
  <2> QED BY <2>1, <2>3, <2>4 DEF Ended
<1>2. ASSUME NEW u \in Upload, Fail(u) PROVE Ended
  <2>1. up[u].status = "open"
    BY <1>2 DEF Fail
  <2>2. up' = [up EXCEPT ![u].status = "failed"]
    BY <1>2 DEF Fail
  <2>3. /\ \A v \in Upload \ {u} : up'[v] = up[v]
        /\ up'[u].status = "failed" /\ up'[u].key = up[u].key
        /\ up'[u].body = up[u].body /\ up'[u].reads = up[u].reads
        /\ up'[u].pos = up[u].pos /\ up'[u].rivals = up[u].rivals
    BY <2>2, HandlerFacts DEF TypeOK, Handler
  <2>4. UNCHANGED <<store, issued, files, last>>
    BY <1>2 DEF Fail
  <2> QED BY <2>1, <2>3, <2>4 DEF Ended
<1>3. ASSUME Crash PROVE Ended
  <2>1. ASSUME NEW v \in Upload
        PROVE  /\ up'[v].key = up[v].key /\ up'[v].body = up[v].body
               /\ up'[v].reads = up[v].reads /\ up'[v].pos = up[v].pos
               /\ up'[v].rivals = up[v].rivals
               /\ \/ up'[v] = up[v]
                  \/ up[v].status = "open" /\ up'[v].status = "failed"
    <3>1. up'[v] = IF up[v].status = "open"
                   THEN [up[v] EXCEPT !.status = "failed"] ELSE up[v]
      BY <1>3 DEF Crash
    <3> QED BY <3>1, HandlerFacts DEF Handler
  <2>2. UNCHANGED <<store, issued, files, last>>
    BY <1>3 DEF Crash
  <2> QED BY <2>1, <2>2 DEF Ended
<1> QED BY <1>1, <1>2, <1>3

LEMMA EndUpInv ==
  ASSUME TypeOK, UpInv, Ended
  PROVE  UpInv'
<1> SUFFICES ASSUME NEW v \in Upload PROVE HandlerOK(v)'
  BY DEF UpInv
<1>1. HandlerOK(v)
  BY DEF UpInv
<1>2. CASE up[v].status = "none"
  BY <1>1, <1>2 DEF HandlerOK, Ended
<1>3. CASE up[v].status # "none"
  <2>1. ASSUME NEW w \in up[v].rivals
        PROVE  w # v /\ up'[w].status # "none" /\ up'[w].key = up[v].key
    <3>1. w \in Upload
      BY HandlerFacts
    <3>2. w # v /\ up[w].status # "none" /\ up[w].key = up[v].key
      BY <1>1, <1>3 DEF HandlerOK
    <3> QED BY <3>1, <3>2 DEF Ended
  <2>2. up'[v].status # "none"
    BY <1>3 DEF Ended
  <2>3. /\ up[v].key \in Keys /\ up[v].body \in Body
        /\ last[up[v].key] # NoUpload
        /\ up[v].pos <= up[v].reads /\ up[v].reads <= up[v].body.size
        /\ store = "local" => up[v].reads <= Limit
    BY <1>1, <1>3 DEF HandlerOK
  <2>4. /\ up'[v].status = "acked" => up[v].pos = up[v].body.size
        /\ up'[v].status = "open" => store = "local"
    BY <1>1, <1>3 DEF HandlerOK, Ended
  <2> QED BY <2>1, <2>2, <2>3, <2>4 DEF HandlerOK, Ended
<1> QED BY <1>2, <1>3

-----------------------------------------------------------------------------
(* What a file holds *)

(* A step that leaves a file and its uploads alone, but for one that is in *)
(* none of them, leaves it in order. *)
LEMMA FileKept ==
  ASSUME TypeOK, UpInv, FileInv, NEW u \in Upload, NEW k \in Keys,
         up[u].status = "none" \/ up[u].key # k,
         \A v \in Upload \ {u} : up'[v] = up[v],
         u \notin Open(k)',
         files'[k] = files[k], last'[k] = last[k]
  PROVE  FileOK(k)'
<1>1. FileOK(k)
  BY DEF FileInv
<1>2. CASE last[k] = NoUpload
  BY <1>1, <1>2 DEF FileOK
<1>3. CASE last[k] # NoUpload
  <2>0. PICK w \in Upload : w = last[k]
    BY <1>3 DEF TypeOK
  <2>1. /\ up[w].status # "none" /\ up[w].key = k
        /\ Open(k) \subseteq up[w].rivals \cup {w}
        /\ \A i \in Place :
             /\ files[k][i] \in Authors(w) \cup {Hole, Nothing}
             /\ i <= up[w].pos => files[k][i] \in Authors(w)
             /\ i > up[w].pos /\ files[k][i] # Nothing =>
                  \E v \in up[w].rivals : i <= up[v].pos
    BY <1>1, <1>3, <2>0 DEF FileOK
  <2>2. w # u /\ up'[w] = up[w]
    BY <2>1
  <2>3. ASSUME NEW v \in up[w].rivals PROVE v \in Upload \ {u} /\ up'[v] = up[v]
    <3>1. v \in Upload
      BY <2>1, HandlerFacts
    <3>2. up[v].status # "none" /\ up[v].key = k
      BY <2>1 DEF UpInv, HandlerOK
    <3> QED BY <3>1, <3>2
  <2>4. Authors(w)' = Authors(w)
    BY <2>2, <2>3 DEF Authors
  <2>5. Open(k)' \subseteq Open(k)
    BY DEF Open
  <2>6. last'[k] = w /\ last'[k] # NoUpload
    BY <1>3, <2>0
  <2>7. up'[w].status # "none" /\ up'[w].key = k /\ up'[w].pos = up[w].pos
        /\ up'[w].rivals = up[w].rivals
    BY <2>1, <2>2
  <2>8. Open(k)' \subseteq up'[w].rivals \cup {w}
    BY <2>1, <2>5, <2>7
  <2>9. ASSUME NEW i \in Place
        PROVE  /\ files'[k][i] \in Authors(w)' \cup {Hole, Nothing}
               /\ i <= up'[w].pos => files'[k][i] \in Authors(w)'
               /\ i > up'[w].pos /\ files'[k][i] # Nothing =>
                    \E v \in up'[w].rivals : i <= up'[v].pos
    BY <2>1, <2>3, <2>4, <2>7
  <2> QED BY <2>6, <2>7, <2>8, <2>9 DEF FileOK, Authors
<1> QED BY <1>2, <1>3

LEMMA BeginFileInv ==
  ASSUME TypeOK, UpInv, FileInv,
         NEW u \in Upload, NEW k \in Keys, NEW body \in Body,
         NEW reads, Begin(u, k, body, reads)
  PROVE  FileInv'
<1>1. up[u].status = "none"
  BY NotStartedFacts DEF Begin, NextUpload
<1>2. /\ up'[u] = [status |-> "open", key |-> k, body |-> body,
                  reads |-> reads, pos |-> 0, rivals |-> Open(k)]
      /\ \A v \in Upload \ {u} : up'[v] = up[v]
  BY DEF Begin, TypeOK
<1>3. /\ files'[k] = Empty /\ last'[k] = u
      /\ \A kk \in Keys \ {k} : files'[kk] = files[kk] /\ last'[kk] = last[kk]
  BY DEF Begin, TypeOK, Truncated
<1>4. FileOK(k)'
  <2>1. u # NoUpload
    BY UploadsAreInts
  <2>2. Open(k)' \subseteq Open(k) \cup {u}
    BY <1>2 DEF Open
  <2>3. up'[u].pos = 0 /\ up'[u].status # "none" /\ up'[u].key = k /\ up'[u].rivals = Open(k)
    BY <1>2
  <2>4. ASSUME NEW i \in Place PROVE files'[k][i] = Nothing /\ ~(i <= 0)
    BY <1>3 DEF Empty, Place
  <2> QED BY <1>3, <2>1, <2>2, <2>3, <2>4 DEF FileOK
<1>5. ASSUME NEW kk \in Keys, kk # k PROVE FileOK(kk)'
  <2>1. u \notin Open(kk)'
    BY <1>2, <1>5 DEF Open
  <2> QED BY <1>1, <1>2, <1>3, <1>5, <2>1, FileKept
<1> QED BY <1>4, <1>5 DEF FileInv

(* With R2 no handler of this program has an object open. *)
LEMMA PutFileInv ==
  ASSUME TypeOK, UpInv, FileInv,
         NEW u \in Upload, NEW k \in Keys, NEW body \in Body, R2Put(u, k, body)
  PROVE  FileInv'
<1>1. up[u].status = "none"
  BY NotStartedFacts DEF R2Put, NextUpload
<1>2. /\ up'[u] = [status |-> "acked", key |-> k, body |-> body,
                  reads |-> body.size, pos |-> body.size, rivals |-> {}]
      /\ \A v \in Upload \ {u} : up'[v] = up[v]
  BY DEF R2Put, TypeOK
<1>3. /\ files'[k] = Whole(body) /\ last'[k] = u
      /\ \A kk \in Keys \ {k} : files'[kk] = files[kk] /\ last'[kk] = last[kk]
  BY DEF R2Put, TypeOK
<1>4. FileOK(k)'
  <2>1. u # NoUpload
    BY UploadsAreInts
  <2>2. Open(k)' = {}
    <3>1. ASSUME NEW v \in Upload \ {u} PROVE up[v].status # "open"
      BY DEF R2Put, UpInv, HandlerOK
    <3> QED BY <1>2, <3>1 DEF Open
  <2>3. Authors(u)' = {body}
    BY <1>2 DEF Authors
  <2>4. ASSUME NEW i \in Place
        PROVE  files'[k][i] = IF i <= body.size THEN body ELSE Nothing
    BY <1>3 DEF Whole
  <2>5. up'[u].pos = body.size /\ up'[u].status # "none" /\ up'[u].key = k
    BY <1>2
  <2>6. ASSUME NEW i \in Place
        PROVE  /\ files'[k][i] \in Authors(u)' \cup {Hole, Nothing}
               /\ i <= up'[u].pos => files'[k][i] \in Authors(u)'
               /\ ~(i > up'[u].pos /\ files'[k][i] # Nothing)
    BY <2>3, <2>4, <2>5, BodySize, PlacesAreInts
  <2> QED BY <1>3, <2>1, <2>2, <2>5, <2>6 DEF FileOK, Authors
<1>5. ASSUME NEW kk \in Keys, kk # k PROVE FileOK(kk)'
  <2>1. u \notin Open(kk)'
    BY <1>2, <1>5 DEF Open
  <2> QED BY <1>1, <1>2, <1>3, <1>5, <2>1, FileKept
<1> QED BY <1>4, <1>5 DEF FileInv

LEMMA WriteFileInv ==
  ASSUME TypeOK, UpInv, FileInv, NEW u \in Upload, WriteBlock(u)
  PROVE  FileInv'
<1> DEFINE k == up[u].key
           p == up[u].pos + 1
<1>1. /\ up[u].status = "open" /\ k \in Keys /\ up[u].body \in Body
      /\ last[k] # NoUpload
  BY DEF WriteBlock, UpInv, HandlerOK
<1>2. /\ up'[u] = [up[u] EXCEPT !.pos = p]
      /\ \A v \in Upload \ {u} : up'[v] = up[v]
      /\ last' = last
  BY DEF WriteBlock, TypeOK
<1>3. /\ up'[u].status = "open" /\ up'[u].key = k
      /\ up'[u].body = up[u].body /\ up'[u].pos = p
      /\ up'[u].rivals = up[u].rivals
  BY <1>1, <1>2, HandlerFacts DEF Handler
<1>4. /\ \A i \in Place : files'[k][i] =
            IF i = p THEN up[u].body
            ELSE IF i < p /\ files[k][i] = Nothing THEN Hole
            ELSE files[k][i]
      /\ \A kk \in Keys \ {k} : files'[kk] = files[kk]
  BY <1>1 DEF WriteBlock, TypeOK
<1>5. ASSUME NEW kk \in Keys, kk # k PROVE FileOK(kk)'
  <2>1. u \notin Open(kk)'
    BY <1>3, <1>5 DEF Open
  <2> QED BY <1>2, <1>4, <1>5, <2>1, FileKept
<1>6. ASSUME NEW kk \in Keys, kk = k PROVE FileOK(kk)'
  <2>0. PICK w \in Upload : w = last[k]
    BY <1>1 DEF TypeOK
  <2>1. /\ up[w].status # "none" /\ up[w].key = k
        /\ Open(k) \subseteq up[w].rivals \cup {w}
        /\ \A i \in Place :
             /\ files[k][i] \in Authors(w) \cup {Hole, Nothing}
             /\ i <= up[w].pos => files[k][i] \in Authors(w)
             /\ i > up[w].pos /\ files[k][i] # Nothing =>
                  \E v \in up[w].rivals : i <= up[v].pos
    BY <1>1, <2>0 DEF FileInv, FileOK
  <2>2. u \in up[w].rivals \cup {w}
    BY <1>1, <2>1 DEF Open
  <2>3. ASSUME NEW v \in Upload
        PROVE  /\ up'[v].status = up[v].status /\ up'[v].key = up[v].key
               /\ up'[v].body = up[v].body /\ up'[v].rivals = up[v].rivals
               /\ up'[v].pos = IF v = u THEN p ELSE up[v].pos
               /\ up[v].pos <= up'[v].pos
    <3>1. up[v].pos \in Int
      BY HandlerFacts, PlacesAreInts
    <3>2. CASE v = u
      BY <3>1, <3>2, <1>1, <1>3
    <3>3. CASE v # u
      BY <3>1, <3>3, <1>2
    <3> QED BY <3>2, <3>3
  <2>4. up[w].rivals \subseteq Upload
    BY <2>1, HandlerFacts
  <2>5. Authors(w)' = Authors(w)
    BY <2>1, <2>3, <2>4, <1>2 DEF Authors
  <2>6. Open(kk)' = Open(k)
    BY <2>3, <1>6 DEF Open
  <2>7. up[u].body \in Authors(w)
    BY <2>2 DEF Authors
  <2>8. Nothing \notin Authors(w) /\ Hole \notin Authors(w)
    <3>1. up[w].body \in Body /\ \A v \in up[w].rivals : up[v].body \in Body
      BY <2>1, <2>4 DEF UpInv, HandlerOK
    <3> QED BY <3>1, BodiesAreNeitherHoleNorNothing DEF Authors
  <2>9. p \in Int /\ up[w].pos \in Int /\ \A v \in Upload : up[v].pos \in Int
    BY <2>1, HandlerFacts, PlacesAreInts
  <2>10. ASSUME NEW i \in Place
         PROVE  /\ files'[k][i] \in Authors(w) \cup {Hole, Nothing}
                /\ i <= up'[w].pos => files'[k][i] \in Authors(w)
                /\ i > up'[w].pos /\ files'[k][i] # Nothing =>
                     \E v \in up[w].rivals : i <= up'[v].pos
    <3>1. i \in Int
      BY PlacesAreInts
    <3>2. files'[k][i] \in Authors(w) \cup {Hole, Nothing}
      BY <1>4, <2>1, <2>7
    <3>3. ASSUME i <= up'[w].pos PROVE files'[k][i] \in Authors(w)
      <4>1. CASE i = p
        BY <4>1, <1>4, <2>7
      <4>2. CASE i # p
        <5>1. i <= up[w].pos
          <6>1. CASE w = u
            BY <6>1, <4>2, <3>3, <3>1, <2>3, <2>9
          <6>2. CASE w # u
            BY <6>2, <3>3, <2>1, <2>3
          <6> QED BY <6>1, <6>2
        <5>2. files[k][i] \in Authors(w)
          BY <5>1, <2>1
        <5> QED BY <5>2, <4>2, <1>4, <2>8
      <4> QED BY <4>1, <4>2
    <3>4. ASSUME i > up'[w].pos, files'[k][i] # Nothing
          PROVE  \E v \in up[w].rivals : i <= up'[v].pos
      <4>1. CASE i > p
        <5>1. files[k][i] # Nothing
          BY <4>1, <3>1, <3>4, <2>9, <1>4
        <5>2. i > up[w].pos
          BY <3>1, <3>4, <2>1, <2>3, <2>9
        <5>3. PICK v \in up[w].rivals : i <= up[v].pos
          BY <5>1, <5>2, <2>1
        <5> QED BY <5>3, <2>3, <2>4, <2>9, <3>1
      <4>2. CASE ~(i > p)
        <5>1. w # u
          BY <4>2, <3>1, <3>4, <2>3, <2>9
        <5>2. u \in up[w].rivals /\ i <= up'[u].pos
          BY <5>1, <4>2, <3>1, <2>2, <2>3, <2>9
        <5> QED BY <5>2
      <4> QED BY <4>1, <4>2
    <3> QED BY <3>2, <3>3, <3>4
  <2>11. last'[kk] = w /\ w # NoUpload
    BY <1>1, <1>2, <1>6, <2>0
  <2>12. up'[w].status # "none" /\ up'[w].key = k /\ up'[w].rivals = up[w].rivals
    BY <2>1, <2>3
  <2>13. Open(kk)' \subseteq up'[w].rivals \cup {w}
    BY <2>1, <2>6, <2>12
  <2> QED BY <1>6, <2>5, <2>10, <2>11, <2>12, <2>13 DEF FileOK, Authors
<1> QED BY <1>5, <1>6 DEF FileInv

LEMMA EndFileInv ==
  ASSUME TypeOK, UpInv, FileInv, Ended
  PROVE  FileInv'
<1> SUFFICES ASSUME NEW k \in Keys PROVE FileOK(k)'
  BY DEF FileInv
<1>1. FileOK(k) /\ last' = last /\ files' = files
  BY DEF FileInv, Ended
<1>2. CASE last[k] = NoUpload
  BY <1>1, <1>2 DEF FileOK
<1>3. CASE last[k] # NoUpload
  <2>0. PICK w \in Upload : w = last[k]
    BY <1>3 DEF TypeOK
  <2>1. /\ up[w].status # "none" /\ up[w].key = k
        /\ Open(k) \subseteq up[w].rivals \cup {w}
        /\ \A i \in Place :
             /\ files[k][i] \in Authors(w) \cup {Hole, Nothing}
             /\ i <= up[w].pos => files[k][i] \in Authors(w)
             /\ i > up[w].pos /\ files[k][i] # Nothing =>
                  \E v \in up[w].rivals : i <= up[v].pos
    BY <1>1, <1>3, <2>0 DEF FileOK
  <2>2. up[w].rivals \subseteq Upload
    BY <2>1, HandlerFacts
  <2>3. \A v \in Upload :
          /\ up'[v].key = up[v].key /\ up'[v].body = up[v].body
          /\ up'[v].pos = up[v].pos /\ up'[v].rivals = up[v].rivals
          /\ up[v].status # "none" => up'[v].status # "none"
          /\ up'[v].status = "open" => up[v].status = "open"
    BY DEF Ended
  <2>4. Authors(w)' = Authors(w)
    BY <2>2, <2>3 DEF Authors
  <2>5. Open(k)' \subseteq Open(k)
    BY <2>3 DEF Open
  <2>6. /\ up'[w].status # "none" /\ up'[w].key = k /\ up'[w].pos = up[w].pos
        /\ up'[w].rivals = up[w].rivals
    BY <2>1, <2>3
  <2>7. ASSUME NEW i \in Place
        PROVE  /\ files[k][i] \in Authors(w) \cup {Hole, Nothing}
               /\ i <= up[w].pos => files[k][i] \in Authors(w)
               /\ i > up[w].pos /\ files[k][i] # Nothing =>
                    \E v \in up[w].rivals : i <= up'[v].pos
    BY <2>1, <2>2, <2>3
  <2>8. last'[k] = w /\ files'[k] = files[k] /\ w # NoUpload
    BY <1>1, <1>3, <2>0
  <2>9. Open(k)' \subseteq up'[w].rivals \cup {w}
    BY <2>1, <2>5, <2>6
  <2> QED BY <2>4, <2>6, <2>7, <2>8, <2>9 DEF FileOK, Authors
<1> QED BY <1>2, <1>3

-----------------------------------------------------------------------------
(* The inductive invariant *)

LEMMA InitInv == Init => IInv
<1> SUFFICES ASSUME Init PROVE IInv
  OBVIOUS
<1>1. TypeOK
  BY NotStartedFacts, EmptyFile DEF Init, TypeOK
<1>2. UpInv
  BY NotStartedFacts DEF Init, UpInv, HandlerOK
<1>3. FileInv
  BY DEF Init, FileInv, FileOK
<1> QED BY <1>1, <1>2, <1>3 DEF IInv

LEMMA BeginInv ==
  ASSUME IInv, store = "local",
         NEW u \in Upload, NEW k \in Keys, NEW body \in Body,
         NEW reads \in 0 .. MaxSize, reads <= body.size, reads <= Limit,
         Begin(u, k, body, reads)
  PROVE  IInv'
<1>1. TypeOK /\ UpInv /\ FileInv
  BY DEF IInv
<1>2. TypeOK'
  BY <1>1, BeginTypes
<1>3. UpInv'
  BY <1>1, BeginUpInv
<1>4. FileInv'
  BY <1>1, BeginFileInv
<1> QED BY <1>2, <1>3, <1>4 DEF IInv

(* What a raw body yields is in it, and within the limit. *)
LEMMA RawFacts ==
  ASSUME NEW body \in Body
  PROVE  /\ RawReads(body) \in 0 .. MaxSize
         /\ RawReads(body) <= body.size /\ RawReads(body) <= Limit
BY BodySize, Bounds DEF RawReads

LEMMA PutInv ==
  ASSUME IInv, NEW u \in Upload, NEW k \in Keys, NEW body \in Body, R2Put(u, k, body)
  PROVE  IInv'
<1>1. TypeOK /\ UpInv /\ FileInv
  BY DEF IInv
<1> QED BY <1>1, PutTypes, PutUpInv, PutFileInv DEF IInv

LEMMA EndInv ==
  ASSUME IInv, \/ \E u \in Upload : Answer(u) \/ Fail(u)
               \/ Crash
  PROVE  IInv'
<1>1. TypeOK /\ UpInv /\ FileInv
  BY DEF IInv
<1>2. Ended
  BY <1>1, EndsAreEnded
<1>3. TypeOK'
  BY <1>1, EndTypes
<1>4. UpInv'
  BY <1>1, <1>2, EndUpInv
<1>5. FileInv'
  BY <1>1, <1>2, EndFileInv
<1> QED BY <1>3, <1>4, <1>5 DEF IInv

LEMMA StepInv == IInv /\ [Next]_vars => IInv'
<1> SUFFICES ASSUME IInv, [Next]_vars PROVE IInv'
  OBVIOUS
<1>1. TypeOK /\ UpInv /\ FileInv
  BY DEF IInv
<1>2. ASSUME NEW k \in Keys, NEW t \in Types, GetUploadURL(k, t) PROVE IInv'
  <2>1. UNCHANGED <<store, files, up, last>>
    BY <1>2 DEF GetUploadURL
  <2>2. UpInv'
    BY <1>1, <2>1 DEF UpInv, HandlerOK
  <2>3. FileInv'
    BY <1>1, <2>1 DEF FileInv, FileOK, Authors, Open
  <2> QED BY <1>1, <1>2, <2>2, <2>3, UrlTypes DEF IInv
<1>3. ASSUME NEW k \in Keys, NEW u \in Upload, NEW t, NEW body \in Body,
             NEW multipart \in BOOLEAN, LocalOpen(u, k, t, body, multipart)
      PROVE  IInv'
  <2>1. CASE multipart
    <3>1. body.size <= Limit /\ body.size <= body.size /\ body.size \in 0 .. MaxSize
      BY <1>3, <2>1, BodySize DEF LocalOpen, FormFits
    <3> QED BY <1>3, <2>1, <3>1, BeginInv DEF LocalOpen
  <2>2. CASE ~multipart
    BY <1>3, <2>2, RawFacts, BeginInv DEF LocalOpen
  <2> QED BY <2>1, <2>2
<1>4. ASSUME NEW k \in Keys, NEW u \in Upload, NEW body \in Body,
             AdminOpen(u, k, body)
      PROVE  IInv'
  <2>1. body.size <= Limit /\ body.size <= body.size /\ body.size \in 0 .. MaxSize
    BY <1>4, BodySize, RawFacts DEF AdminOpen
  <2> QED BY <1>4, <2>1, BeginInv DEF AdminOpen
<1>5. ASSUME NEW k \in Keys, NEW u \in Upload, NEW body \in Body,
             R2Put(u, k, body)
      PROVE  IInv'
  BY <1>5, PutInv
<1>6. ASSUME NEW u \in Upload, WriteBlock(u) PROVE IInv'
  BY <1>1, <1>6, WriteTypes, WriteUpInv, WriteFileInv DEF IInv
<1>7. ASSUME \/ \E u \in Upload : Answer(u) \/ Fail(u)
             \/ Crash
      PROVE  IInv'
  BY <1>7, EndInv
<1>8. CASE UNCHANGED vars
  <2>1. TypeOK'
    BY <1>1, <1>8 DEF TypeOK, vars
  <2>2. UpInv'
    BY <1>1, <1>8 DEF UpInv, HandlerOK, vars
  <2>3. FileInv'
    BY <1>1, <1>8 DEF FileInv, FileOK, Authors, Open, vars
  <2> QED BY <2>1, <2>2, <2>3 DEF IInv
<1> QED BY <1>2, <1>3, <1>4, <1>5, <1>6, <1>7, <1>8 DEF Next

(* The invariant that the theorems below follow from holds of every        *)
(* behaviour of the uploads. *)
THEOREM Inductive == Spec => []IInv
BY InitInv, StepInv, PTL DEF Spec

(* Every variable keeps its type, whoever uploads what. *)
THEOREM TypeCorrect == Spec => []TypeOK
<1>1. IInv => TypeOK
  BY DEF IInv
<1> QED BY <1>1, Inductive, PTL

(* How far a handler has come: never beyond its body, nor a local one      *)
(* beyond the limit. *)
LEMMA PosWithin ==
  ASSUME TypeOK, NEW u \in Upload, HandlerOK(u)
  PROVE  /\ up[u].status # "none" => up[u].pos <= up[u].body.size
         /\ store = "local" => up[u].pos <= Limit
<1>1. up[u].pos \in Int /\ up[u].reads \in Int /\ Limit \in Int /\ 0 <= Limit
  BY HandlerFacts, Bounds
<1>2. CASE up[u].status = "none"
  BY <1>1, <1>2, NotStartedFacts DEF HandlerOK
<1>3. CASE up[u].status # "none"
  <2>1. /\ up[u].pos <= up[u].reads /\ up[u].reads <= up[u].body.size
        /\ store = "local" => up[u].reads <= Limit
        /\ up[u].body \in Body
    BY <1>3 DEF HandlerOK
  <2>2. up[u].body.size \in Int
    BY <2>1, BodySize
  <2> QED BY <1>1, <2>1, <2>2
<1> QED BY <1>2, <1>3

(* A form that is measured beforehand and a raw body that is measured on   *)
(* its way leave no local file beyond the limit, and neither is answered   *)
(* when it is larger. *)
THEOREM NoFileTooLarge == Spec => []SizeBounded
<1>1. ASSUME IInv, store = "local", NEW u \in Upload, up[u].status = "acked"
      PROVE  up[u].body.size <= Limit
  <2>1. TypeOK /\ HandlerOK(u)
    BY <1>1 DEF IInv, UpInv
  <2>2. up[u].pos = up[u].body.size
    BY <1>1, <2>1 DEF HandlerOK
  <2> QED BY <1>1, <2>1, <2>2, PosWithin
<1>2. ASSUME IInv, store = "local", NEW k \in Keys, NEW i \in Place,
             i > Limit, files[k][i] # Nothing
      PROVE  FALSE
  <2>1. TypeOK /\ UpInv /\ FileOK(k)
    BY <1>2 DEF IInv, FileInv
  <2>2. CASE last[k] = NoUpload
    BY <1>2, <2>1, <2>2 DEF FileOK, Empty
  <2>3. CASE last[k] # NoUpload
    <3>1. ASSUME NEW v \in Upload PROVE up[v].pos < i
      <4>1. up[v].pos <= Limit
        BY <1>2, <2>1, PosWithin DEF UpInv
      <4> QED BY <1>2, <4>1, <2>1, HandlerFacts, PlacesAreInts
    <3>2. last[k] \in Upload /\ up[last[k]].rivals \subseteq Upload
      BY <2>1, <2>3, HandlerFacts DEF TypeOK
    <3>3. i > up[last[k]].pos
      BY <3>1, <3>2, <2>1, HandlerFacts, PlacesAreInts
    <3>4. PICK v \in up[last[k]].rivals : i <= up[v].pos
      BY <1>2, <2>1, <2>3, <3>3 DEF FileOK
    <3>5. v \in Upload /\ up[v].pos \in Int /\ i \in Int
      BY <2>1, <3>2, HandlerFacts, PlacesAreInts
    <3> QED BY <3>1, <3>4, <3>5
  <2> QED BY <2>2, <2>3
<1>3. IInv => SizeBounded
  BY <1>1, <1>2 DEF SizeBounded, Served
<1> QED BY <1>3, Inductive, PTL

(* A file whose last upload was answered is that upload's body, or a mix   *)
(* of it with those that had the file open when it began. *)
LEMMA AnsweredFile ==
  ASSUME IInv, NEW k \in Keys, NEW u \in Upload, u = last[k], up[u].status = "acked"
  PROVE  /\ up[u].key = k /\ up[u].body \in Body
         /\ \A i \in 1 .. up[u].body.size : Served(k)[i] \in Authors(u)
         /\ (\A v \in up[u].rivals : up[v].body = up[u].body)
              => Served(k) = Whole(up[u].body)
<1>1. /\ TypeOK /\ UpInv /\ FileOK(k) /\ HandlerOK(u)
  BY DEF IInv, FileInv, UpInv
<1>2. u # NoUpload /\ up[u].pos = up[u].body.size /\ up[u].body \in Body
  BY <1>1, UploadsAreInts DEF HandlerOK
<1>3. /\ up[u].key = k
      /\ \A i \in Place :
           /\ files[k][i] \in Authors(u) \cup {Hole, Nothing}
           /\ i <= up[u].body.size => files[k][i] \in Authors(u)
           /\ i > up[u].body.size /\ files[k][i] # Nothing =>
                \E v \in up[u].rivals : i <= up[v].pos
  BY <1>1, <1>2 DEF FileOK
<1>4. ASSUME NEW i \in 1 .. up[u].body.size PROVE Served(k)[i] \in Authors(u)
  <2>1. i \in Place /\ i <= up[u].body.size
    BY <1>2, BodySize, PlacesAreInts DEF Place
  <2> QED BY <1>3, <2>1 DEF Served
<1>5. ASSUME \A v \in up[u].rivals : up[v].body = up[u].body
      PROVE  files[k] = Whole(up[u].body)
  <2>1. ASSUME NEW i \in Place
        PROVE  files[k][i] = IF i <= up[u].body.size THEN up[u].body ELSE Nothing
    <3>1. CASE i <= up[u].body.size
      BY <3>1, <1>3, <1>5 DEF Authors
    <3>2. CASE ~(i <= up[u].body.size)
      <4>1. ASSUME NEW v \in up[u].rivals PROVE ~(i <= up[v].pos)
        <5>1. v \in Upload /\ up[v].status # "none"
          BY <1>1, <1>2, HandlerFacts DEF HandlerOK
        <5>2. up[v].pos <= up[v].body.size /\ up[v].body = up[u].body
          BY <1>1, <1>5, <5>1, PosWithin DEF UpInv
        <5>3. up[v].pos \in Int /\ up[u].body.size \in Int /\ i \in Int
          BY <1>1, <1>2, <5>1, HandlerFacts, BodySize, PlacesAreInts
        <5> QED BY <3>2, <5>2, <5>3
      <4>2. i > up[u].body.size
        BY <3>2, <1>2, BodySize, PlacesAreInts
      <4> QED BY <1>3, <3>2, <4>1, <4>2
    <3> QED BY <3>1, <3>2
  <2>2. files[k] \in [Place -> Block]
    BY <1>1 DEF TypeOK
  <2> QED BY <2>1, <2>2 DEF Whole
<1> QED BY <1>2, <1>3, <1>4, <1>5 DEF Served

(* A retry that is answered repairs what attempts before it left, and one  *)
(* with the same body is safe even while they run. *)
THEOREM RetryRepairs == Spec => []LastAnsweredIsWhole
<1>1. IInv => LastAnsweredIsWhole
  <2> SUFFICES ASSUME IInv, NEW k \in Keys, last[k] # NoUpload,
                      up[last[k]].status = "acked"
               PROVE  /\ \A i \in 1 .. up[last[k]].body.size :
                           Served(k)[i] \in Authors(last[k])
                      /\ (\A v \in up[last[k]].rivals : up[v].body = up[last[k]].body)
                           => Served(k) = Whole(up[last[k]].body)
    BY DEF LastAnsweredIsWhole, Authors
  <2>1. last[k] \in Upload
    BY DEF IInv, TypeOK
  <2> QED BY <2>1, AnsweredFile
<1> QED BY <1>1, Inductive, PTL
=============================================================================
