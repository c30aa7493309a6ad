-------------------------- MODULE ChunkUploadProofs --------------------------
(***************************************************************************)
(* Proofs about the artifact store with its chunked upload, for any number *)
(* of handlers, coordinates, checksums and chunks: the types, SharedAlive  *)
(* and CoordinateImmutable.                                                *)
(*                                                                         *)
(* SharedAlive is not inductive: a delete erases the blob its artifact row *)
(* named, long after it read the row.  The invariant follows identifiers.  *)
(* Whoever holds one holds it for the checksum it was uploaded for         *)
(* (IdInv), so dropping the shared record of that checksum removes the     *)
(* only record that can name the blob (EraseInv); and a new record names a *)
(* blob nobody but its uploader knows (FreshInv), so it is not one that    *)
(* somebody is about to erase.                                             *)
(***************************************************************************)
EXTENDS ChunkUpload, FiniteSetTheorems, SequenceTheorems, TLAPS

\* Where a request may still take a reference of its own to a shared file.
Early == {"check", "unchecked", "shared", "sharedId", "share", "write", "rename",
          "ready", "merge", "copy", "upload", "publish"}
\* Where it has taken one, or never will.
Late == {"ownedId", "artifact", "insert", "cleanup", "unlist", "unfile", "release",
         "count", "unshare", "erase"}

\* A request works on a coordinate and, once it has started on the records, on
\* a checksum.
ReqOK(r) ==
  /\ DOMAIN r = {"pc", "op", "c", "md5", "mode", "id", "index", "indices"}
  /\ r.pc \in {"idle", "find"} \cup Early \cup Late
  /\ r.index \in Chunks
  /\ r.id \in Nat
  /\ r.md5 \in Md5s \cup {None}
  /\ r.pc # "idle" => r.c \in Coords
  /\ r.pc \notin {"idle", "find"} => r.md5 \in Md5s

ReqInv == DOMAIN req = Handlers /\ \A h \in Handlers : ReqOK(req[h])

\* blobs is a sequence of records.
BlobsOK ==
  /\ blobs \in Seq(Range(blobs))
  /\ \A b \in DOMAIN blobs : DOMAIN blobs[b] = {"md5", "content", "live"}

\* A task directory holds chunks and the merged file, and the cleaner is after
\* a file of one of them.
FilesOK(files) ==
  /\ files \in Seq(Range(files))
  /\ \A i \in DOMAIN files : files[i].name \in 0 .. TotalChunks
DirOK ==
  /\ DOMAIN dir = Tasks
  /\ \A t \in Tasks : FilesOK(dir[t])
  /\ expired = None \/ expired[1] \in Tasks

\* id names a blob uploaded for checksum m, or nothing.
IdOf(id, m) == id = NoId \/ (id \in 1 .. Len(blobs) /\ blobs[id].md5 = m)

\* Every identifier anyone holds is one of the checksum it is held for.
IdInv ==
  /\ Len(blobs) <= MaxBlobs
  /\ \A c \in Coords : artifact_info[c] # None =>
       IdOf(artifact_info[c].file_id, artifact_info[c].checksum)
  /\ \A h \in Handlers : IdOf(req[h].id, req[h].md5)
  /\ \A m \in Md5s : file_shared[m] # None =>
       file_shared[m].file_id # NoId /\ IdOf(file_shared[m].file_id, m)

\* An uploaded blob that is not published yet is known to its uploader only.
FreshInv ==
  \A h \in Handlers : req[h].pc = "publish" =>
    /\ req[h].id # NoId /\ blobs[req[h].id].live
    /\ \A m \in Md5s : file_shared[m] # None => file_shared[m].file_id # req[h].id
    /\ \A c \in Coords : artifact_info[c] # None => artifact_info[c].file_id # req[h].id
    /\ \A g \in Handlers \ {h} : req[g].id # req[h].id

\* A blob about to be erased is not shared, and never will be again.
EraseInv ==
  \A h \in Handlers : req[h].pc = "erase" /\ req[h].id # NoId =>
    \A m \in Md5s : file_shared[m] # None => file_shared[m].file_id # req[h].id

\* A reference costs a request.
EarlyReqs == {h \in Handlers : req[h].pc \in Early}
RefInv ==
  /\ Cardinality(EarlyReqs) <= started
  /\ \A m \in Md5s : file_shared[m] # None =>
       file_shared[m].ref_count + Cardinality(EarlyReqs) <= started

ArtifactType ==
  artifact_info \in [Coords -> [checksum : Md5s, file_id : Nat] \cup {None}]
FileType ==
  file_info \subseteq [owner : {c.owner : c \in Coords},
                      filename : {BuildStorageName(c) : c \in Coords}, md5 : Md5s]
SharedType == file_shared \in [Md5s -> [file_id : Nat, ref_count : Nat] \cup {None}]
TableInv ==
  /\ ArtifactType /\ FileType /\ SharedType
  /\ started \in 0 .. MaxRequests
  /\ disturbed \subseteq Md5s

IdPart == IdInv /\ FreshInv /\ EraseInv /\ SharedAlive

\* The inductive invariant.
IInv == ReqInv /\ BlobsOK /\ DirOK /\ IdPart /\ RefInv /\ TableInv

----------------------------------------------------------------------------
(* What the steps do to a request *)

\* Only handler h's request changes.
Change(h) == DOMAIN req' = Handlers /\ \A g \in Handlers \ {h} : req'[g] = req[g]

LEMMA Bounds ==
  /\ IsFiniteSet(Handlers) /\ MaxRequests \in Nat /\ MaxBlobs \in Nat
  /\ TotalChunks \in Nat \ {0} /\ 0 \in Chunks
  BY BoundsAssumption, ChunkAssumption DEF Chunks

LEMMA IdleOK == ReqOK(Idle) /\ Idle.pc = "idle" /\ Idle.id = NoId /\ Idle.md5 = None
  BY Bounds DEF ReqOK, Idle, NoId

\* The request goes on to another place and keeps the rest.
LEMMA GotoStep ==
  ASSUME ReqInv, NEW h \in Handlers, NEW pc \in Early \cup Late, Goto(h, pc),
         req[h].pc \notin {"idle", "find"}
  PROVE  /\ Change(h) /\ ReqOK(req'[h])
         /\ req'[h].pc = pc /\ req'[h].id = req[h].id /\ req'[h].md5 = req[h].md5
         /\ req'[h].c = req[h].c
  <1>1. ReqOK(req[h]) /\ DOMAIN req = Handlers
    BY DEF ReqInv
  <1>2. req' = [req EXCEPT ![h] = [req[h] EXCEPT !.pc = pc]]
    BY DEF Goto
  <1> DEFINE r == [req[h] EXCEPT !.pc = pc]
  <1>3. req'[h] = r /\ Change(h)
    BY <1>1, <1>2 DEF Change
  <1>4. /\ DOMAIN r = DOMAIN req[h]
        /\ r.pc = pc /\ r.op = req[h].op /\ r.c = req[h].c /\ r.md5 = req[h].md5
        /\ r.id = req[h].id /\ r.index = req[h].index
    BY <1>1 DEF ReqOK
  <1> HIDE DEF r
  <1>5. ReqOK(r)
    BY <1>1, <1>4 DEF ReqOK
  <1> QED BY <1>3, <1>4, <1>5

\* The request ends.
LEMMA AnswerStep ==
  ASSUME ReqInv, NEW h \in Handlers, Answer(h)
  PROVE  /\ Change(h) /\ ReqOK(req'[h])
         /\ req'[h].pc = "idle" /\ req'[h].id = NoId /\ req'[h].md5 = None
  <1>1. req'[h] = Idle /\ Change(h)
    BY DEF Answer, ReqInv, Change
  <1> QED BY <1>1, IdleOK

\* The request ends or goes on, without a new identifier.
Settles(h) ==
  /\ Change(h) /\ ReqOK(req'[h])
  /\ req'[h].id = NoId \/ (req'[h].id = req[h].id /\ req'[h].md5 = req[h].md5)
  /\ req'[h].pc \notin {"publish", "erase"}

LEMMA GotoSettles ==
  ASSUME ReqInv, NEW h \in Handlers, NEW pc \in (Early \cup Late) \ {"publish", "erase"},
         Goto(h, pc), req[h].pc \notin {"idle", "find"}
  PROVE  Settles(h) /\ req'[h].pc = pc
  BY GotoStep DEF Settles

LEMMA AnswerSettles ==
  ASSUME ReqInv, NEW h \in Handlers, Answer(h)
  PROVE  Settles(h) /\ req'[h].pc = "idle"
  BY AnswerStep DEF Settles

LEMMA DoneSettles ==
  ASSUME ReqInv, NEW h \in Handlers, Done(h), req[h].pc \notin {"idle", "find"}
  PROVE  Settles(h) /\ req'[h].pc \in {"idle", "cleanup"}
  <1>1. CASE req[h].op = "chunk"
    BY <1>1, GotoSettles DEF Done, Late
  <1>2. CASE req[h].op # "chunk"
    BY <1>2, AnswerSettles DEF Done
  <1> QED BY <1>1, <1>2

LEMMA ReqChange ==
  ASSUME ReqInv, NEW h \in Handlers, Change(h), ReqOK(req'[h])
  PROVE  ReqInv'
  BY DEF ReqInv, Change

----------------------------------------------------------------------------
(* References and requests *)

LEMMA EarlyFinite == IsFiniteSet(EarlyReqs) /\ Cardinality(EarlyReqs) \in Nat
  BY Bounds, FS_Subset, FS_CardinalityType DEF EarlyReqs

LEMMA EarlyLess ==
  ASSUME NEW h \in Handlers, Change(h), req'[h].pc \in Early => req[h].pc \in Early
  PROVE  Cardinality(EarlyReqs') <= Cardinality(EarlyReqs) /\ Cardinality(EarlyReqs') \in Nat
  <1>1. EarlyReqs' \subseteq EarlyReqs
    BY DEF EarlyReqs, Change
  <1> QED BY <1>1, EarlyFinite, FS_Subset, FS_CardinalityType

LEMMA EarlyDown ==
  ASSUME NEW h \in Handlers, Change(h), req[h].pc \in Early, req'[h].pc \notin Early
  PROVE  Cardinality(EarlyReqs') = Cardinality(EarlyReqs) - 1 /\ Cardinality(EarlyReqs') \in Nat
  <1>1. EarlyReqs' = EarlyReqs \ {h} /\ h \in EarlyReqs
    BY DEF EarlyReqs, Change
  <1>2. IsFiniteSet(EarlyReqs') /\ Cardinality(EarlyReqs') = Cardinality(EarlyReqs) - 1
    BY <1>1, EarlyFinite, FS_RemoveElement
  <1> QED BY <1>2, FS_CardinalityType

LEMMA EarlyUp ==
  ASSUME NEW h \in Handlers, Change(h)
  PROVE  Cardinality(EarlyReqs') <= Cardinality(EarlyReqs) + 1 /\ Cardinality(EarlyReqs') \in Nat
  <1>1. EarlyReqs' \subseteq EarlyReqs \cup {h}
    BY DEF EarlyReqs, Change
  <1>2. /\ IsFiniteSet(EarlyReqs \cup {h})
        /\ Cardinality(EarlyReqs \cup {h}) <= Cardinality(EarlyReqs) + 1
        /\ Cardinality(EarlyReqs \cup {h}) \in Nat
    <2>1. IsFiniteSet(EarlyReqs \cup {h})
      BY EarlyFinite, FS_AddElement
    <2>2. Cardinality(EarlyReqs \cup {h}) \in Nat
      BY <2>1, FS_CardinalityType
    <2>3. \/ Cardinality(EarlyReqs \cup {h}) = Cardinality(EarlyReqs)
          \/ Cardinality(EarlyReqs \cup {h}) = Cardinality(EarlyReqs) + 1
      BY EarlyFinite, FS_AddElement
    <2> QED BY <2>1, <2>2, <2>3, EarlyFinite
  <1>3. IsFiniteSet(EarlyReqs') /\ Cardinality(EarlyReqs') <= Cardinality(EarlyReqs \cup {h})
    BY <1>1, <1>2, FS_Subset
  <1>4. Cardinality(EarlyReqs') \in Nat
    BY <1>3, FS_CardinalityType
  <1> QED BY <1>2, <1>3, <1>4, EarlyFinite

\* No count goes up and no request starts.
LEMMA RefLess ==
  ASSUME RefInv, SharedType, SharedType', started \in Nat, started' = started,
         Cardinality(EarlyReqs') <= Cardinality(EarlyReqs), Cardinality(EarlyReqs') \in Nat,
         \A m \in Md5s : file_shared'[m] # None =>
           file_shared[m] # None /\ file_shared'[m].ref_count <= file_shared[m].ref_count
  PROVE  RefInv'
  <1>1. Cardinality(EarlyReqs) \in Nat
    BY EarlyFinite
  <1>2. \A m \in Md5s : file_shared[m] # None => file_shared[m].ref_count \in Nat
    BY DEF SharedType
  <1>3. \A m \in Md5s : file_shared'[m] # None => file_shared'[m].ref_count \in Nat
    BY DEF SharedType
  <1> QED BY <1>1, <1>2, <1>3 DEF RefInv

\* A count goes up when a request has used its right to do so.
LEMMA RefUp ==
  ASSUME RefInv, SharedType, SharedType', started \in Nat, started' = started,
         Cardinality(EarlyReqs') = Cardinality(EarlyReqs) - 1, Cardinality(EarlyReqs') \in Nat,
         \A m \in Md5s : file_shared'[m] # None =>
           \/ file_shared'[m].ref_count = 1
           \/ file_shared[m] # None /\ file_shared'[m].ref_count <= file_shared[m].ref_count + 1
  PROVE  RefInv'
  <1>1. Cardinality(EarlyReqs) \in Nat
    BY EarlyFinite
  <1>2. \A m \in Md5s : file_shared[m] # None => file_shared[m].ref_count \in Nat
    BY DEF SharedType
  <1>3. \A m \in Md5s : file_shared'[m] # None => file_shared'[m].ref_count \in Nat
    BY DEF SharedType
  <1> QED BY <1>1, <1>2, <1>3 DEF RefInv

----------------------------------------------------------------------------
(* Identifiers *)

\* A step that uploads, publishes and erases nothing: the request of h may take an
\* identifier that is not somebody's fresh one, and a row may take h's.
LEMMA KeepIds ==
  ASSUME IdPart, blobs' = blobs, NEW h \in Handlers, Change(h), req'[h].pc # "publish",
         IdOf(req'[h].id, req'[h].md5),
         \A g \in Handlers \ {h} : req[g].pc = "publish" => req[g].id # req'[h].id,
         \A m \in Md5s : file_shared'[m] # None =>
           file_shared[m] # None /\ file_shared'[m].file_id = file_shared[m].file_id,
         \A c \in Coords : artifact_info'[c] # None =>
           \/ artifact_info[c] # None /\ artifact_info'[c] = artifact_info[c]
           \/ /\ artifact_info'[c].file_id = req[h].id
              /\ artifact_info'[c].checksum = req[h].md5,
         req'[h].pc = "erase" /\ req'[h].id # NoId =>
           \A m \in Md5s : file_shared'[m] # None => file_shared'[m].file_id # req'[h].id
  PROVE  IdPart'
  <1>1. IdInv'
    BY DEF IdPart, IdInv, IdOf, Change
  <1>2. FreshInv'
    <2> SUFFICES ASSUME NEW g \in Handlers, req'[g].pc = "publish"
                 PROVE  /\ req'[g].id # NoId /\ blobs'[req'[g].id].live
                        /\ \A m \in Md5s : file_shared'[m] # None =>
                             file_shared'[m].file_id # req'[g].id
                        /\ \A c \in Coords : artifact_info'[c] # None =>
                             artifact_info'[c].file_id # req'[g].id
                        /\ \A k \in Handlers \ {g} : req'[k].id # req'[g].id
      BY DEF FreshInv
    <2>1. g # h /\ req'[g] = req[g]
      BY DEF Change
    <2>2. /\ req[g].id # NoId /\ blobs[req[g].id].live
          /\ \A m \in Md5s : file_shared[m] # None => file_shared[m].file_id # req[g].id
          /\ \A c \in Coords : artifact_info[c] # None => artifact_info[c].file_id # req[g].id
          /\ \A k \in Handlers \ {g} : req[k].id # req[g].id
      BY <2>1 DEF IdPart, FreshInv
    <2>3. \A k \in Handlers \ {g} : req'[k].id # req'[g].id
      BY <2>1, <2>2 DEF Change
    <2> QED BY <2>1, <2>2, <2>3
  <1>3. EraseInv'
    BY DEF IdPart, EraseInv, Change
  <1>4. SharedAlive'
    BY DEF IdPart, SharedAlive
  <1> QED BY <1>1, <1>2, <1>3, <1>4 DEF IdPart

LEMMA SettleIds ==
  ASSUME IdPart, blobs' = blobs, NEW h \in Handlers, Settles(h),
         \A m \in Md5s : file_shared'[m] # None =>
           file_shared[m] # None /\ file_shared'[m].file_id = file_shared[m].file_id,
         \A c \in Coords : artifact_info'[c] # None =>
           \/ artifact_info[c] # None /\ artifact_info'[c] = artifact_info[c]
           \/ /\ artifact_info'[c].file_id = req[h].id
              /\ artifact_info'[c].checksum = req[h].md5
  PROVE  IdPart'
  <1>1. IdOf(req'[h].id, req'[h].md5)
    BY DEF Settles, IdPart, IdInv, IdOf
  <1>2. \A g \in Handlers \ {h} : req[g].pc = "publish" => req[g].id # req'[h].id
    BY DEF Settles, IdPart, FreshInv
  <1> QED BY <1>1, <1>2, KeepIds DEF Settles

\* id names a blob of checksum m after the step, or nothing.
IdNext(id, m) == id = NoId \/ (id \in 1 .. Len(blobs') /\ blobs'[id].md5 = m)

\* FastDFS keeps what it has and adds a live blob for the request's checksum.
LEMMA UploadBlobs ==
  ASSUME BlobsOK, ReqInv, NEW h \in Handlers, NEW content, Upload(h, content),
         req[h].pc \notin {"idle", "find"}
  PROVE  /\ BlobsOK'
         /\ Len(blobs') = Len(blobs) + 1 /\ Len(blobs) \in Nat /\ Len(blobs') <= MaxBlobs
         /\ \A b \in 1 .. Len(blobs) : blobs'[b] = blobs[b]
         /\ blobs'[Len(blobs) + 1].md5 = req[h].md5 /\ blobs'[Len(blobs) + 1].live
         /\ Change(h) /\ ReqOK(req'[h]) /\ req'[h].pc = "publish"
         /\ req'[h].id = Len(blobs) + 1 /\ req'[h].md5 = req[h].md5
  <1> DEFINE new == [md5 |-> req[h].md5, content |-> content, live |-> TRUE]
  <1>1. blobs' = Append(blobs, new) /\ Len(blobs) < MaxBlobs
    BY DEF Upload
  <1>2. new.md5 = req[h].md5 /\ new.live /\ DOMAIN new = {"md5", "content", "live"}
    OBVIOUS
  <1> HIDE DEF new
  <1>3. PICK S : S = Range(blobs) \cup {new}
    OBVIOUS
  <1>4. blobs \in Seq(S) /\ new \in S
    <2>1. \A b \in 1 .. Len(blobs) : blobs[b] \in S
      BY <1>3 DEF BlobsOK, Range
    <2>2. blobs \in [1 .. Len(blobs) -> S] /\ Len(blobs) \in Nat
      BY <2>1 DEF BlobsOK
    <2> QED BY <1>3, <2>2
  <1>5. /\ blobs' \in Seq(S) /\ Len(blobs') = Len(blobs) + 1 /\ Len(blobs) \in Nat
        /\ \A b \in 1 .. Len(blobs) : blobs'[b] = blobs[b]
        /\ blobs'[Len(blobs) + 1] = new
        /\ DOMAIN blobs = 1 .. Len(blobs) /\ DOMAIN blobs' = 1 .. Len(blobs')
    BY <1>1, <1>4
  <1>6. BlobsOK'
    <2>1. blobs' \in Seq(Range(blobs'))
      BY <1>5, SeqOfRange
    <2>2. \A b \in DOMAIN blobs' : DOMAIN blobs'[b] = {"md5", "content", "live"}
      BY <1>2, <1>5 DEF BlobsOK
    <2>3. Range(blobs)' = Range(blobs')
      BY DEF Range
    <2> QED BY <2>1, <2>2, <2>3 DEF BlobsOK
  <1>7. Len(blobs') <= MaxBlobs
    BY <1>1, <1>5, Bounds
  <1>8. ReqOK(req[h]) /\ DOMAIN req = Handlers
    BY DEF ReqInv
  <1> DEFINE r == [req[h] EXCEPT !.pc = "publish", !.id = Len(blobs) + 1]
  <1>9. req'[h] = r /\ Change(h)
    BY <1>8 DEF Upload, Change
  <1>10. /\ DOMAIN r = DOMAIN req[h]
         /\ r.pc = "publish" /\ r.c = req[h].c /\ r.md5 = req[h].md5
         /\ r.id = Len(blobs) + 1 /\ r.index = req[h].index
    BY <1>8 DEF ReqOK
  <1> HIDE DEF r
  <1>11. ReqOK(r)
    BY <1>5, <1>8, <1>10 DEF ReqOK, Early
  <1> QED BY <1>2, <1>5, <1>6, <1>7, <1>9, <1>10, <1>11

LEMMA UploadIds ==
  ASSUME BlobsOK, ReqInv, IdPart, NEW h \in Handlers, NEW content, Upload(h, content),
         req[h].pc \notin {"idle", "find"}, UNCHANGED <<artifact_info, file_shared>>
  PROVE  IdPart'
  <1> DEFINE n == Len(blobs)
  <1>1. /\ Len(blobs') = n + 1 /\ n \in Nat /\ Len(blobs') <= MaxBlobs
        /\ \A b \in 1 .. n : blobs'[b] = blobs[b]
        /\ blobs'[n + 1].md5 = req[h].md5 /\ blobs'[n + 1].live
        /\ Change(h) /\ req'[h].pc = "publish"
        /\ req'[h].id = n + 1 /\ req'[h].md5 = req[h].md5
    BY UploadBlobs
  <1>2. \A id, m : IdOf(id, m) => id = NoId \/ (id \in 1 .. n /\ blobs[id].md5 = m)
    BY DEF IdOf
  <1>3. n + 1 # NoId
    BY <1>1 DEF NoId
  <1> HIDE DEF n
  <1>4. \A id, m : IdOf(id, m) => IdNext(id, m) /\ id # n + 1
    BY <1>1, <1>2, <1>3 DEF IdNext
  <1>5. IdNext(n + 1, req[h].md5)
    BY <1>1 DEF IdNext
  <1>6. IdInv'
    <2>1. /\ \A c \in Coords : artifact_info[c] # None =>
                IdNext(artifact_info[c].file_id, artifact_info[c].checksum)
          /\ \A m \in Md5s : file_shared[m] # None =>
                file_shared[m].file_id # NoId /\ IdNext(file_shared[m].file_id, m)
      BY <1>4 DEF IdPart, IdInv
    <2>2. \A g \in Handlers : IdNext(req'[g].id, req'[g].md5)
      BY <1>1, <1>4, <1>5 DEF IdPart, IdInv, Change
    <2> QED BY <1>1, <2>1, <2>2 DEF IdInv, IdOf, IdNext
  <1>7. FreshInv'
    <2> SUFFICES ASSUME NEW g \in Handlers, req'[g].pc = "publish"
                 PROVE  /\ req'[g].id # NoId /\ blobs'[req'[g].id].live
                        /\ \A m \in Md5s : file_shared'[m] # None =>
                             file_shared'[m].file_id # req'[g].id
                        /\ \A c \in Coords : artifact_info'[c] # None =>
                             artifact_info'[c].file_id # req'[g].id
                        /\ \A k \in Handlers \ {g} : req'[k].id # req'[g].id
      BY DEF FreshInv
    <2>1. \A k \in Handlers : req[k].id # n + 1
      BY <1>4 DEF IdPart, IdInv
    <2>2. CASE g = h
      BY <1>1, <1>3, <1>4, <2>1, <2>2 DEF IdPart, IdInv, Change
    <2>3. CASE g # h
      <3>1. req'[g] = req[g] /\ req[g].pc = "publish"
        BY <1>1, <2>3 DEF Change
      <3>2. req[g].id \in 1 .. n /\ blobs[req[g].id].live
        BY <1>2, <3>1 DEF IdPart, IdInv, FreshInv
      <3>3. \A k \in Handlers \ {g} : req'[k].id # req[g].id
        BY <1>1, <2>1, <3>1 DEF Change, IdPart, FreshInv
      <3> QED BY <1>1, <3>1, <3>2, <3>3 DEF IdPart, FreshInv
    <2> QED BY <2>2, <2>3
  <1>8. EraseInv'
    BY <1>1 DEF IdPart, EraseInv, Change
  <1>9. SharedAlive'
    <2>1. \A m \in Md5s : file_shared[m] # None => file_shared[m].file_id \in 1 .. n
      BY <1>2 DEF IdPart, IdInv
    <2> QED BY <1>1, <2>1 DEF IdPart, SharedAlive
  <1> QED BY <1>6, <1>7, <1>8, <1>9 DEF IdPart

\* The committed record makes the uploader's blob known.
LEMMA PublishIds ==
  ASSUME ReqInv, IdPart, NEW h \in Handlers, Settles(h), req[h].pc = "publish",
         SharedType,
         file_shared' = [file_shared EXCEPT ![req[h].md5] =
                           [file_id |-> req[h].id, ref_count |-> 1]],
         UNCHANGED <<artifact_info, blobs>>
  PROVE  IdPart'
  <1>0. req[h].md5 \in Md5s
    BY DEF ReqInv, ReqOK
  <1> DEFINE new == [file_id |-> req[h].id, ref_count |-> 1]
  <1>1. /\ file_shared'[req[h].md5] = new /\ new.file_id = req[h].id
        /\ \A m \in Md5s \ {req[h].md5} : file_shared'[m] = file_shared[m]
    BY <1>0 DEF SharedType
  <1> HIDE DEF new
  <1>2. /\ req[h].id # NoId /\ blobs[req[h].id].live
        /\ \A m \in Md5s : file_shared[m] # None => file_shared[m].file_id # req[h].id
        /\ \A g \in Handlers \ {h} : req[g].id # req[h].id
    BY DEF IdPart, FreshInv
  <1>3. IdOf(req[h].id, req[h].md5)
    BY DEF IdPart, IdInv
  <1>4. IdInv'
    BY <1>1, <1>2, <1>3 DEF IdPart, IdInv, IdOf, Settles, Change
  <1>5. FreshInv'
    <2> SUFFICES ASSUME NEW g \in Handlers, req'[g].pc = "publish"
                 PROVE  /\ req'[g].id # NoId /\ blobs'[req'[g].id].live
                        /\ \A m \in Md5s : file_shared'[m] # None =>
                             file_shared'[m].file_id # req'[g].id
                        /\ \A c \in Coords : artifact_info'[c] # None =>
                             artifact_info'[c].file_id # req'[g].id
                        /\ \A k \in Handlers \ {g} : req'[k].id # req'[g].id
      BY DEF FreshInv
    <2>1. g # h /\ req'[g] = req[g]
      BY DEF Settles, Change
    <2>2. /\ req[g].id # NoId /\ blobs[req[g].id].live
          /\ \A m \in Md5s : file_shared[m] # None => file_shared[m].file_id # req[g].id
          /\ \A c \in Coords : artifact_info[c] # None => artifact_info[c].file_id # req[g].id
          /\ \A k \in Handlers \ {g} : req[k].id # req[g].id
      BY <2>1 DEF IdPart, FreshInv
    <2>3. \A k \in Handlers \ {g} : req'[k].id # req'[g].id
      BY <2>1, <2>2 DEF Change, Settles
    <2>4. \A m \in Md5s : file_shared'[m] # None => file_shared'[m].file_id # req[g].id
      BY <1>1, <2>1, <2>2
    <2> QED BY <2>1, <2>2, <2>3, <2>4
  <1>6. EraseInv'
    <2> SUFFICES ASSUME NEW g \in Handlers, req'[g].pc = "erase", req'[g].id # NoId,
                        NEW m \in Md5s, file_shared'[m] # None
                 PROVE  file_shared'[m].file_id # req'[g].id
      BY DEF EraseInv
    <2>1. g # h /\ req'[g] = req[g]
      BY DEF Settles, Change
    <2>2. \A k \in Md5s : file_shared[k] # None => file_shared[k].file_id # req[g].id
      BY <2>1 DEF IdPart, EraseInv
    <2> QED BY <1>1, <1>2, <2>1, <2>2
  <1>7. SharedAlive'
    BY <1>0, <1>1, <1>2, <1>3 DEF IdPart, SharedAlive, IdOf
  <1> QED BY <1>4, <1>5, <1>6, <1>7 DEF IdPart

\* FastDFS forgets a blob that no shared record and no uploader knows.
LEMMA EraseIds ==
  ASSUME BlobsOK, ReqInv, IdPart, NEW h \in Handlers, Answer(h), req[h].pc = "erase",
         blobs' = IF req[h].id = NoId THEN blobs
                  ELSE [blobs EXCEPT ![req[h].id].live = FALSE],
         UNCHANGED <<artifact_info, file_shared>>
  PROVE  IdPart' /\ BlobsOK' /\ Len(blobs') = Len(blobs)
  <1>1. Settles(h)
    BY AnswerSettles
  <1>2. CASE req[h].id = NoId
    <2>1. blobs' = blobs
      BY <1>2
    <2> QED BY <1>1, <2>1, SettleIds DEF BlobsOK, Range
  <1>3. CASE req[h].id # NoId
    <2> DEFINE id == req[h].id
    <2>1. id \in 1 .. Len(blobs) /\ DOMAIN blobs = 1 .. Len(blobs) /\ Len(blobs) \in Nat
      BY <1>3 DEF IdPart, IdInv, IdOf, BlobsOK
    <2>2. blobs' = [blobs EXCEPT ![id] = [blobs[id] EXCEPT !.live = FALSE]]
      BY <1>3
    <2> DEFINE b == [blobs[id] EXCEPT !.live = FALSE]
    <2>3. b.md5 = blobs[id].md5 /\ DOMAIN b = {"md5", "content", "live"}
      BY <2>1 DEF BlobsOK
    <2> HIDE DEF id, b
    <2>4. /\ blobs'[id] = b /\ (\A k \in DOMAIN blobs \ {id} : blobs'[k] = blobs[k])
          /\ DOMAIN blobs' = 1 .. Len(blobs)
      BY <2>1, <2>2 DEF b
    <2>5. blobs' \in Seq(Range(blobs')) /\ Len(blobs') = Len(blobs)
      <3>1. PICK S : S = Range(blobs) \cup {b}
        OBVIOUS
      <3>2. blobs' \in [1 .. Len(blobs) -> S]
        <4>1. \A k \in 1 .. Len(blobs) : blobs'[k] \in S
          BY <2>1, <2>4, <3>1 DEF Range
        <4>2. blobs' = [k \in 1 .. Len(blobs) |-> blobs'[k]]
          BY <2>1, <2>2
        <4> QED BY <4>1, <4>2
      <3>3. blobs' \in Seq(S)
        <4>1. blobs' \in UNION {[1 .. n -> S] : n \in Nat}
          BY <2>1, <3>2
        <4> QED BY <4>1, SeqDef
      <3>4. Len(blobs') = Len(blobs)
        BY <2>1, <2>4, <3>3, LenProperties
      <3> QED BY <3>3, <3>4, SeqOfRange
    <2>6. BlobsOK'
      <3>1. Range(blobs)' = Range(blobs')
        BY DEF Range
      <3>2. \A k \in DOMAIN blobs' : DOMAIN blobs'[k] = {"md5", "content", "live"}
        BY <2>1, <2>3, <2>4 DEF BlobsOK
      <3> QED BY <2>5, <3>1, <3>2 DEF BlobsOK
    <2>7. \A k, m : IdOf(k, m) => IdNext(k, m)
      BY <2>1, <2>3, <2>4, <2>5 DEF IdOf, IdNext
    <2>8. /\ Change(h) /\ req'[h].pc = "idle" /\ req'[h].id = NoId
      BY <1>1, AnswerStep
    <2>9. IdInv'
      <3>1. \A g \in Handlers : IdNext(req'[g].id, req'[g].md5)
        BY <2>7, <2>8 DEF IdPart, IdInv, Change, IdNext
      <3>2. /\ \A c \in Coords : artifact_info[c] # None =>
                  IdNext(artifact_info[c].file_id, artifact_info[c].checksum)
            /\ \A m \in Md5s : file_shared[m] # None =>
                  file_shared[m].file_id # NoId /\ IdNext(file_shared[m].file_id, m)
        BY <2>7 DEF IdPart, IdInv
      <3> QED BY <2>5, <3>1, <3>2 DEF IdPart, IdInv, IdOf, IdNext
    <2>10. FreshInv'
      <3> SUFFICES ASSUME NEW g \in Handlers, req'[g].pc = "publish"
                   PROVE  /\ req'[g].id # NoId /\ blobs'[req'[g].id].live
                          /\ \A m \in Md5s : file_shared[m] # None =>
                               file_shared[m].file_id # req'[g].id
                          /\ \A c \in Coords : artifact_info[c] # None =>
                               artifact_info[c].file_id # req'[g].id
                          /\ \A k \in Handlers \ {g} : req'[k].id # req'[g].id
        BY DEF FreshInv
      <3>1. g # h /\ req'[g] = req[g]
        BY <2>8 DEF Change
      <3>2. /\ req[g].id # NoId /\ blobs[req[g].id].live
            /\ \A m \in Md5s : file_shared[m] # None => file_shared[m].file_id # req[g].id
            /\ \A c \in Coords : artifact_info[c] # None => artifact_info[c].file_id # req[g].id
            /\ \A k \in Handlers \ {g} : req[k].id # req[g].id
        BY <3>1 DEF IdPart, FreshInv
      <3>3. \A k \in Handlers \ {g} : req'[k].id # req'[g].id
        BY <2>8, <3>1, <3>2 DEF Change
      <3>4. req[g].id # id /\ req[g].id \in DOMAIN blobs
        BY <2>1, <3>1, <3>2 DEF id, IdPart, IdInv, IdOf
      <3> QED BY <2>4, <3>1, <3>2, <3>3, <3>4
    <2>11. EraseInv'
      BY <2>8 DEF IdPart, EraseInv, Change
    <2>12. SharedAlive'
      <3>1. \A m \in Md5s : file_shared[m] # None =>
              file_shared[m].file_id # id /\ file_shared[m].file_id \in DOMAIN blobs
        BY <1>3, <2>1 DEF id, IdPart, EraseInv, IdInv, IdOf
      <3> QED BY <2>4, <3>1 DEF IdPart, SharedAlive
    <2> QED BY <2>5, <2>6, <2>9, <2>10, <2>11, <2>12 DEF IdPart
  <1> QED BY <1>2, <1>3

----------------------------------------------------------------------------
(* Task directories *)

LEMMA EmptyOK == FilesOK(<<>>)
  <1>1. <<>> \in Seq({}) /\ DOMAIN <<>> = {}
    OBVIOUS
  <1> QED BY <1>1, SeqOfRange DEF FilesOK

LEMMA AppendOK ==
  ASSUME NEW files, FilesOK(files), NEW f, f.name \in 0 .. TotalChunks
  PROVE  FilesOK(Append(files, f))
  <1>1. PICK S : S = Range(files) \cup {f}
    OBVIOUS
  <1>2. files \in Seq(S) /\ f \in S
    <2>1. files \in Seq(Range(files)) /\ Range(files) \subseteq S
      BY <1>1 DEF FilesOK
    <2> QED BY <1>1, <2>1, SeqMonotonic
  <1>3. /\ Append(files, f) \in Seq(S)
        /\ Len(Append(files, f)) = Len(files) + 1 /\ Len(files) \in Nat
        /\ \A i \in 1 .. Len(files) : Append(files, f)[i] = files[i]
        /\ Append(files, f)[Len(files) + 1] = f
        /\ DOMAIN files = 1 .. Len(files)
        /\ DOMAIN Append(files, f) = 1 .. Len(Append(files, f))
    BY <1>2
  <1>4. Append(files, f) \in Seq(Range(Append(files, f)))
    BY <1>3, SeqOfRange
  <1>5. \A i \in DOMAIN Append(files, f) : Append(files, f)[i].name \in 0 .. TotalChunks
    BY <1>3 DEF FilesOK
  <1> QED BY <1>4, <1>5 DEF FilesOK

LEMMA RemoveOK ==
  ASSUME NEW files, FilesOK(files), NEW k \in DOMAIN files
  PROVE  FilesOK(RemoveAt(files, k))
  <1>1. PICK S : S = {v \in Range(files) : v.name \in 0 .. TotalChunks}
    OBVIOUS
  <1>2. files \in Seq(Range(files)) /\ DOMAIN files = 1 .. Len(files) /\ Len(files) \in Nat
    BY DEF FilesOK
  <1>3. \A i \in 1 .. Len(files) : files[i] \in S
    BY <1>1, <1>2 DEF FilesOK, Range
  <1>4. SubSeq(files, 1, k - 1) \in Seq(S)
    <2>1. 1 \in Int /\ k - 1 \in Int /\ \A i \in 1 .. k - 1 : files[i] \in S
      BY <1>2, <1>3
    <2> QED BY <2>1, SubSeqProperties
  <1>5. SubSeq(files, k + 1, Len(files)) \in Seq(S)
    <2>1. k + 1 \in Int /\ Len(files) \in Int /\ \A i \in k + 1 .. Len(files) : files[i] \in S
      BY <1>2, <1>3
    <2> QED BY <2>1, SubSeqProperties
  <1>6. RemoveAt(files, k) \in Seq(S)
    BY <1>4, <1>5, ConcatProperties DEF RemoveAt
  <1>7. /\ RemoveAt(files, k) \in Seq(Range(RemoveAt(files, k)))
        /\ \A i \in DOMAIN RemoveAt(files, k) : RemoveAt(files, k)[i] \in S
    BY <1>6, SeqOfRange
  <1> QED BY <1>1, <1>7 DEF FilesOK

LEMMA WithoutOK ==
  ASSUME NEW files, FilesOK(files), NEW n
  PROVE  FilesOK(Without(files, n))
  <1>1. PICK named : named = {i \in DOMAIN files : files[i].name = n}
    OBVIOUS
  <1>2. CASE named = {}
    BY <1>1, <1>2 DEF Without
  <1>3. CASE named # {}
    <2>1. PICK k : k = CHOOSE i \in named : TRUE
      OBVIOUS
    <2>2. k \in DOMAIN files
      BY <1>1, <1>3, <2>1
    <2>3. Without(files, n) = RemoveAt(files, k)
      BY <1>1, <1>3, <2>1 DEF Without
    <2> QED BY <2>2, <2>3, RemoveOK
  <1> QED BY <1>2, <1>3

LEMMA WriteOK ==
  ASSUME DirOK, NEW t \in Tasks, NEW n \in 0 .. TotalChunks, NEW content,
         WriteFile(t, n, content), expired' = expired
  PROVE  DirOK'
  <1> DEFINE f == [name |-> n, content |-> content]
  <1>1. f.name \in 0 .. TotalChunks
    OBVIOUS
  <1>2. dir' = [dir EXCEPT ![t] = Append(Without(dir[t], n), f)]
    BY DEF WriteFile
  <1> HIDE DEF f
  <1>3. FilesOK(Append(Without(dir[t], n), f))
    BY <1>1, AppendOK, WithoutOK DEF DirOK
  <1> QED BY <1>2, <1>3 DEF DirOK, Tasks

LEMMA RemoveFileOK ==
  ASSUME DirOK, NEW t \in Tasks, NEW n, RemoveFile(t, n),
         expired' = expired \/ expired' = None
  PROVE  DirOK'
  <1>1. dir' = [dir EXCEPT ![t] = Without(dir[t], n)]
    BY DEF RemoveFile
  <1>2. FilesOK(Without(dir[t], n))
    BY WithoutOK DEF DirOK
  <1> QED BY <1>1, <1>2 DEF DirOK, Tasks

LEMMA KeepDir ==
  ASSUME DirOK, dir' = dir, expired' = expired
  PROVE  DirOK'
  BY DEF DirOK, Tasks

LEMMA TaskOK ==
  ASSUME ReqInv, NEW h \in Handlers, req[h].pc \notin {"idle", "find"}
  PROVE  Task(h) \in Tasks
  BY DEF ReqInv, ReqOK, Task, Tasks

----------------------------------------------------------------------------
(* Steps that leave the records alone *)

\* The request moves on or ends; the records and FastDFS stay as they are.
LEMMA QuietStep ==
  ASSUME IInv, NEW h \in Handlers, Settles(h),
         req'[h].pc \in Early => req[h].pc \in Early,
         UNCHANGED <<artifact_info, file_shared, blobs, started>>,
         FileType', disturbed' \subseteq Md5s, DirOK'
  PROVE  IInv'
  <1>1. ReqInv'
    BY ReqChange DEF IInv, Settles
  <1>2. IdPart'
    BY SettleIds DEF IInv
  <1>3. RefInv'
    <2>1. Cardinality(EarlyReqs') <= Cardinality(EarlyReqs) /\ Cardinality(EarlyReqs') \in Nat
      BY EarlyLess DEF Settles
    <2>2. SharedType /\ SharedType' /\ started \in Nat
      BY Bounds DEF IInv, TableInv, SharedType
    <2>3. \A m \in Md5s : file_shared'[m] # None =>
            file_shared[m] # None /\ file_shared'[m].ref_count <= file_shared[m].ref_count
      BY <2>2 DEF SharedType
    <2> QED BY <2>1, <2>2, <2>3, RefLess DEF IInv
  <1>4. TableInv'
    BY DEF IInv, TableInv, ArtifactType, SharedType
  <1>5. BlobsOK'
    BY DEF IInv, BlobsOK, Range
  <1> QED BY <1>1, <1>2, <1>3, <1>4, <1>5 DEF IInv

\* The same, for the places a request goes on to.
LEMMA QuietGoto ==
  ASSUME IInv, NEW h \in Handlers, NEW pc \in (Early \cup Late) \ {"publish", "erase"},
         Goto(h, pc), req[h].pc \notin {"idle", "find"}, pc \in Late \/ req[h].pc \in Early,
         UNCHANGED <<artifact_info, file_shared, blobs, started>>,
         FileType', disturbed' \subseteq Md5s, DirOK'
  PROVE  IInv'
  <1>1. Settles(h) /\ req'[h].pc = pc
    BY GotoSettles DEF IInv
  <1>2. req'[h].pc \in Early => req[h].pc \in Early
    BY <1>1 DEF Early, Late
  <1> QED BY <1>1, <1>2, QuietStep

LEMMA QuietAnswer ==
  ASSUME IInv, NEW h \in Handlers, Answer(h),
         UNCHANGED <<artifact_info, file_shared, blobs, started>>,
         FileType', disturbed' \subseteq Md5s, DirOK'
  PROVE  IInv'
  <1>1. Settles(h) /\ req'[h].pc = "idle"
    BY AnswerSettles DEF IInv
  <1> QED BY <1>1, QuietStep DEF Early

LEMMA QuietDone ==
  ASSUME IInv, NEW h \in Handlers, Done(h), req[h].pc \notin {"idle", "find"},
         UNCHANGED <<artifact_info, file_shared, blobs, started>>,
         FileType', disturbed' \subseteq Md5s, DirOK'
  PROVE  IInv'
  <1>1. Settles(h) /\ req'[h].pc \in {"idle", "cleanup"}
    BY DoneSettles DEF IInv
  <1> QED BY <1>1, QuietStep DEF Early

\* What the steps of the store leave alone.
LEMMA KeepFiles ==
  ASSUME IInv, UNCHANGED <<file_info, disturbed, fileVars>>
  PROVE  FileType' /\ disturbed' \subseteq Md5s /\ DirOK'
  BY KeepDir DEF IInv, TableInv, FileType, fileVars

LEMMA CoordinateCheckStep ==
  ASSUME IInv, NEW h \in Handlers, CoordinateCheck(h), UNCHANGED fileVars
  PROVE  IInv'
  <1>1. /\ req[h].pc = "check"
        /\ UNCHANGED <<artifact_info, file_shared, blobs, started>>
        /\ FileType' /\ disturbed' \subseteq Md5s /\ DirOK'
    BY KeepFiles DEF CoordinateCheck, At
  <1>2. CASE Answer(h)
    BY <1>1, <1>2, QuietAnswer
  <1>3. CASE Goto(h, "unchecked")
    BY <1>1, <1>3, QuietGoto DEF Early
  <1> QED BY <1>2, <1>3 DEF CoordinateCheck

LEMMA PrecheckOwnedStep ==
  ASSUME IInv, NEW h \in Handlers, PrecheckOwned(h), UNCHANGED fileVars
  PROVE  IInv'
  <1>1. /\ req[h].pc = "unchecked" /\ req[h].md5 \in Md5s
        /\ UNCHANGED <<artifact_info, file_shared, blobs, started>>
    BY DEF PrecheckOwned, At, IInv, ReqInv, ReqOK
  <1>2. FileType' /\ DirOK' /\ disturbed' \subseteq Md5s
    BY <1>1, KeepDir DEF PrecheckOwned, IInv, TableInv, FileType, fileVars
  <1>3. CASE Goto(h, "shared")
    BY <1>1, <1>2, <1>3, QuietGoto DEF Early
  <1>4. CASE Goto(h, "ownedId")
    BY <1>1, <1>2, <1>4, QuietGoto DEF Late
  <1>5. CASE Answer(h)
    BY <1>1, <1>2, <1>5, QuietAnswer
  <1> QED BY <1>3, <1>4, <1>5 DEF PrecheckOwned

LEMMA PrecheckSharedStep ==
  ASSUME IInv, NEW h \in Handlers, PrecheckShared(h), UNCHANGED fileVars
  PROVE  IInv'
  <1>1. /\ req[h].pc = "shared"
        /\ UNCHANGED <<artifact_info, file_shared, blobs, started>>
        /\ FileType' /\ disturbed' \subseteq Md5s /\ DirOK'
    BY KeepFiles DEF PrecheckShared, At
  <1>2. CASE Answer(h)
    BY <1>1, <1>2, QuietAnswer
  <1>3. CASE Goto(h, "sharedId")
    BY <1>1, <1>3, QuietGoto DEF Early
  <1> QED BY <1>2, <1>3 DEF PrecheckShared

LEMMA CreateArtifactCheckStep ==
  ASSUME IInv, NEW h \in Handlers, CreateArtifactCheck(h), UNCHANGED fileVars
  PROVE  IInv'
  <1>1. /\ req[h].pc = "artifact"
        /\ UNCHANGED <<artifact_info, file_shared, blobs, started>>
        /\ FileType' /\ disturbed' \subseteq Md5s /\ DirOK'
    BY KeepFiles DEF CreateArtifactCheck, At
  <1>2. CASE Answer(h)
    BY <1>1, <1>2, QuietAnswer
  <1>3. CASE Goto(h, "insert")
    BY <1>1, <1>3, QuietGoto DEF Late
  <1>4. CASE Done(h)
    BY <1>1, <1>4, QuietDone
  <1> QED BY <1>2, <1>3, <1>4 DEF CreateArtifactCheck

LEMMA DeleteFileRecordStep ==
  ASSUME IInv, NEW h \in Handlers, DeleteFileRecord(h), UNCHANGED fileVars
  PROVE  IInv'
  <1>1. /\ req[h].pc = "unfile" /\ Goto(h, "release")
        /\ UNCHANGED <<artifact_info, file_shared, blobs, started>>
    BY DEF DeleteFileRecord, At
  <1>2. FileType'
    BY DEF DeleteFileRecord, IInv, TableInv, FileType
  <1>3. disturbed' \subseteq Md5s
    <2>1. \A f \in file_info : f.md5 \in Md5s
      BY DEF IInv, TableInv, FileType
    <2> QED BY <2>1 DEF DeleteFileRecord, IInv, TableInv
  <1>4. DirOK'
    BY KeepDir DEF IInv, fileVars
  <1> QED BY <1>1, <1>2, <1>3, <1>4, QuietGoto DEF Late

LEMMA ReadRefStep ==
  ASSUME IInv, NEW h \in Handlers, ReadRef(h), UNCHANGED fileVars
  PROVE  IInv'
  <1>1. /\ req[h].pc = "count"
        /\ UNCHANGED <<artifact_info, file_shared, blobs, started>>
        /\ FileType' /\ disturbed' \subseteq Md5s /\ DirOK'
    BY KeepFiles DEF ReadRef, At
  <1>2. CASE Answer(h)
    BY <1>1, <1>2, QuietAnswer
  <1>3. CASE Goto(h, "unshare")
    BY <1>1, <1>3, QuietGoto DEF Late
  <1> QED BY <1>2, <1>3 DEF ReadRef

LEMMA FailStep ==
  ASSUME IInv, NEW h \in Handlers, Fail(h), UNCHANGED fileVars
  PROVE  IInv'
  <1>1. Answer(h) /\ UNCHANGED <<artifact_info, file_shared, blobs, started, file_info>>
    BY DEF Fail
  <1>2. FileType' /\ DirOK'
    BY <1>1, KeepDir DEF IInv, TableInv, FileType, fileVars
  <1>3. disturbed' \subseteq Md5s
    BY DEF Fail, IInv, TableInv
  <1> QED BY <1>1, <1>2, <1>3, QuietAnswer

LEMMA QueryFailsStep ==
  ASSUME IInv, NEW h \in Handlers, QueryFails(h), UNCHANGED fileVars
  PROVE  IInv'
  <1>1. UNCHANGED <<artifact_info, file_shared, blobs, started, file_info>>
    BY DEF QueryFails
  <1>2. FileType' /\ DirOK'
    BY <1>1, KeepDir DEF IInv, TableInv, FileType, fileVars
  <1>3. PICK pc \in {"unchecked", "shared", "share", "insert"} :
          /\ Goto(h, pc)
          /\ req[h].pc \in {"check", "unchecked", "sharedId", "artifact"}
          /\ pc = "insert" \/ req[h].pc # "artifact"
    BY DEF QueryFails, At
  <1>4. disturbed' \subseteq Md5s
    <2>1. req[h].md5 \in Md5s
      BY <1>3 DEF IInv, ReqInv, ReqOK
    <2> QED BY <2>1 DEF QueryFails, IInv, TableInv
  <1> QED BY <1>1, <1>2, <1>3, <1>4, QuietGoto DEF Early, Late

----------------------------------------------------------------------------
(* The chunked upload *)

\* What the steps on the chunk files leave alone.
LEMMA KeepTables ==
  ASSUME IInv, UNCHANGED <<tableVars, disturbed>>
  PROVE  /\ UNCHANGED <<artifact_info, file_shared, blobs, started>>
         /\ FileType' /\ disturbed' \subseteq Md5s
  BY DEF IInv, TableInv, FileType, tableVars

LEMMA ChunkNames ==
  ASSUME ReqInv, NEW h \in Handlers
  PROVE  req[h].index \in 0 .. TotalChunks /\ Merged \in 0 .. TotalChunks
  <1>1. req[h].index \in Chunks
    BY DEF ReqInv, ReqOK
  <1> QED BY <1>1, Bounds DEF Chunks, Merged

LEMMA SaveOpenStep ==
  ASSUME IInv, NEW h \in Handlers, SaveOpen(h)
  PROVE  IInv'
  <1>1. req[h].pc = "unchecked" /\ expired' = expired /\ UNCHANGED <<tableVars, disturbed>>
    BY DEF SaveOpen, At
  <1>2. Task(h) \in Tasks /\ req[h].index \in 0 .. TotalChunks /\ DirOK
    BY <1>1, TaskOK, ChunkNames DEF IInv
  <1>3. CASE WriteFile(Task(h), req[h].index, <<>>) /\ Goto(h, "write")
    <2>1. DirOK'
      BY <1>1, <1>2, <1>3, WriteOK
    <2> QED BY <1>1, <1>3, <2>1, KeepTables, QuietGoto DEF Early
  <1>4. CASE RemoveFile(Task(h), req[h].index) /\ Goto(h, "rename")
    <2>1. DirOK'
      BY <1>1, <1>2, <1>4, RemoveFileOK
    <2> QED BY <1>1, <1>4, <2>1, KeepTables, QuietGoto DEF Early
  <1> QED BY <1>3, <1>4 DEF SaveOpen

LEMMA SaveWriteStep ==
  ASSUME IInv, NEW h \in Handlers, SaveWrite(h)
  PROVE  IInv'
  <1>1. /\ req[h].pc \in {"write", "rename"} /\ Goto(h, "ready")
        /\ expired' = expired /\ UNCHANGED <<tableVars, disturbed>>
    BY DEF SaveWrite
  <1>2. Task(h) \in Tasks /\ req[h].index \in 0 .. TotalChunks /\ DirOK
    BY <1>1, TaskOK, ChunkNames DEF IInv
  <1>3. dir' = dir \/ WriteFile(Task(h), req[h].index, <<req[h].index>>)
    BY DEF SaveWrite
  <1>4. DirOK'
    BY <1>1, <1>2, <1>3, WriteOK, KeepDir
  <1> QED BY <1>1, <1>4, KeepTables, QuietGoto DEF Early

LEMMA ChunksReadyStep ==
  ASSUME IInv, NEW h \in Handlers, ChunksReady(h)
  PROVE  IInv'
  <1>1. req[h].pc = "ready" /\ UNCHANGED <<tableVars, disturbed, fileVars>>
    BY DEF ChunksReady, At
  <1>2. DirOK'
    BY <1>1, KeepDir DEF IInv, fileVars
  <1>3. CASE Goto(h, "merge")
    BY <1>1, <1>2, <1>3, KeepTables, QuietGoto DEF Early
  <1>4. CASE Answer(h)
    BY <1>1, <1>2, <1>4, KeepTables, QuietAnswer
  <1> QED BY <1>3, <1>4 DEF ChunksReady

LEMMA MergeOpenStep ==
  ASSUME IInv, NEW h \in Handlers, MergeOpen(h)
  PROVE  IInv'
  <1>1. req[h].pc = "merge" /\ expired' = expired /\ UNCHANGED <<tableVars, disturbed>>
    BY DEF MergeOpen, At
  <1>2. Task(h) \in Tasks /\ Merged \in 0 .. TotalChunks /\ DirOK
    BY <1>1, TaskOK, ChunkNames DEF IInv
  <1>3. CASE Answer(h) /\ UNCHANGED dir
    <2>1. DirOK'
      BY <1>1, <1>2, <1>3, KeepDir
    <2> QED BY <1>1, <1>3, <2>1, KeepTables, QuietAnswer
  <1>4. ASSUME NEW list,
               req' = [req EXCEPT ![h].pc = "copy", ![h].indices = list],
               WriteFile(Task(h), Merged, <<>>)
        PROVE  IInv'
    <2>1. DirOK'
      BY <1>1, <1>2, <1>4, WriteOK
    <2>2. ReqOK(req[h]) /\ DOMAIN req = Handlers
      BY DEF IInv, ReqInv
    <2> DEFINE r == [req[h] EXCEPT !.pc = "copy", !.indices = list]
    <2>3. req'[h] = r /\ Change(h)
      BY <1>4, <2>2 DEF Change
    <2>4. /\ DOMAIN r = DOMAIN req[h]
          /\ r.pc = "copy" /\ r.c = req[h].c /\ r.md5 = req[h].md5
          /\ r.id = req[h].id /\ r.index = req[h].index
      BY <2>2 DEF ReqOK
    <2> HIDE DEF r
    <2>5. ReqOK(r)
      BY <1>1, <2>2, <2>4 DEF ReqOK, Early
    <2>6. Settles(h) /\ req'[h].pc = "copy"
      BY <2>3, <2>4, <2>5 DEF Settles
    <2> QED BY <1>1, <2>1, <2>6, KeepTables, QuietStep DEF Early
  <1> QED BY <1>3, <1>4 DEF MergeOpen

LEMMA MergeCopyStep ==
  ASSUME IInv, NEW h \in Handlers, MergeCopy(h)
  PROVE  IInv'
  <1>1. req[h].pc = "copy" /\ expired' = expired /\ UNCHANGED <<tableVars, disturbed>>
    BY DEF MergeCopy, At
  <1>2. Task(h) \in Tasks /\ Merged \in 0 .. TotalChunks /\ DirOK
    BY <1>1, TaskOK, ChunkNames DEF IInv
  <1>3. PICK copied : \/ Answer(h) /\ UNCHANGED dir
                      \/ /\ WriteFile(Task(h), Merged, copied) \/ UNCHANGED dir
                         /\ Goto(h, "upload")
    BY DEF MergeCopy
  <1>4. DirOK'
    BY <1>1, <1>2, <1>3, KeepDir, WriteOK
  <1>5. CASE Answer(h)
    BY <1>1, <1>4, <1>5, KeepTables, QuietAnswer
  <1>6. CASE Goto(h, "upload")
    BY <1>1, <1>4, <1>6, KeepTables, QuietGoto DEF Early
  <1> QED BY <1>3, <1>5, <1>6

LEMMA CleanupStep ==
  ASSUME IInv, NEW h \in Handlers, Cleanup(h)
  PROVE  IInv'
  <1>1. /\ req[h].pc = "cleanup" /\ expired' = expired /\ UNCHANGED <<tableVars, disturbed>>
        /\ Answer(h) /\ dir' = [dir EXCEPT ![Task(h)] = <<>>]
    BY DEF Cleanup, At
  <1>2. DirOK'
    BY <1>1, EmptyOK DEF IInv, DirOK, Tasks
  <1> QED BY <1>1, <1>2, KeepTables, QuietAnswer

\* The two uploads to FastDFS.
LEMMA UploadStep ==
  ASSUME IInv, NEW h \in Handlers, NEW content, Upload(h, content), req[h].pc \in Early,
         UNCHANGED <<artifact_info, file_info, file_shared, started, disturbed, fileVars>>
  PROVE  IInv'
  <1>1. ReqInv /\ BlobsOK /\ IdPart /\ req[h].pc \notin {"idle", "find"}
    BY DEF IInv, Early
  <1>2. BlobsOK' /\ Change(h) /\ ReqOK(req'[h]) /\ req'[h].pc = "publish"
    BY <1>1, UploadBlobs
  <1>3. IdPart'
    BY <1>1, UploadIds
  <1>4. ReqInv'
    BY <1>1, <1>2, ReqChange
  <1>5. RefInv'
    <2>1. Cardinality(EarlyReqs') <= Cardinality(EarlyReqs) /\ Cardinality(EarlyReqs') \in Nat
      BY <1>2, EarlyLess
    <2>2. SharedType /\ SharedType' /\ started \in Nat
      BY Bounds DEF IInv, TableInv, SharedType
    <2>3. \A m \in Md5s : file_shared'[m] # None =>
            file_shared[m] # None /\ file_shared'[m].ref_count <= file_shared[m].ref_count
      BY <2>2 DEF SharedType
    <2> QED BY <2>1, <2>2, <2>3, RefLess DEF IInv
  <1>6. TableInv'
    BY DEF IInv, TableInv, ArtifactType, SharedType, FileType
  <1>7. DirOK'
    BY KeepDir DEF IInv, fileVars
  <1> QED BY <1>2, <1>3, <1>4, <1>5, <1>6, <1>7 DEF IInv

LEMMA DirectUploadStep ==
  ASSUME IInv, NEW h \in Handlers, DirectUpload(h, Whole), UNCHANGED fileVars
  PROVE  IInv'
  BY UploadStep DEF DirectUpload, At, Early

LEMMA UploadBigStep ==
  ASSUME IInv, NEW h \in Handlers, UploadBig(h)
  PROVE  IInv'
  <1>1. /\ req[h].pc = "upload"
        /\ UNCHANGED <<artifact_info, file_info, file_shared, started, disturbed, fileVars>>
    BY DEF UploadBig, At
  <1>2. CASE Answer(h) /\ UNCHANGED blobs
    BY <1>1, <1>2, KeepFiles, QuietAnswer
  <1>3. ASSUME NEW content, Upload(h, content)
        PROVE  IInv'
    BY <1>1, <1>3, UploadStep DEF Early
  <1> QED BY <1>2, <1>3 DEF UploadBig

----------------------------------------------------------------------------
(* Steps on the records *)

\* The counts after a step on which no reference is taken.
LEMMA QuietRefs ==
  ASSUME IInv, NEW h \in Handlers, Change(h), req'[h].pc \in Early => req[h].pc \in Early,
         UNCHANGED <<file_shared, started>>
  PROVE  RefInv'
  <1>1. Cardinality(EarlyReqs') <= Cardinality(EarlyReqs) /\ Cardinality(EarlyReqs') \in Nat
    BY EarlyLess
  <1>2. SharedType /\ SharedType' /\ started \in Nat
    BY Bounds DEF IInv, TableInv, SharedType
  <1>3. \A m \in Md5s : file_shared'[m] # None =>
          file_shared[m] # None /\ file_shared'[m].ref_count <= file_shared[m].ref_count
    BY <1>2 DEF SharedType
  <1> QED BY <1>1, <1>2, <1>3, RefLess DEF IInv

\* A request reads an identifier from a table.
LEMMA TakeStep ==
  ASSUME IInv, NEW h \in Handlers, Change(h), ReqOK(req'[h]),
         req'[h].pc \notin {"publish", "erase"},
         req'[h].pc \in Early => req[h].pc \in Early,
         IdOf(req'[h].id, req'[h].md5),
         \A g \in Handlers \ {h} : req[g].pc = "publish" => req[g].id # req'[h].id,
         UNCHANGED <<artifact_info, file_info, file_shared, blobs, started, fileVars>>,
         disturbed' \subseteq Md5s
  PROVE  IInv'
  <1>1. ReqInv'
    BY ReqChange DEF IInv
  <1>2. IdPart'
    BY KeepIds DEF IInv
  <1>3. RefInv'
    BY QuietRefs
  <1>4. TableInv'
    BY DEF IInv, TableInv, ArtifactType, SharedType, FileType
  <1>5. BlobsOK'
    BY DEF IInv, BlobsOK, Range
  <1>6. DirOK'
    BY KeepDir DEF IInv, fileVars
  <1> QED BY <1>1, <1>2, <1>3, <1>4, <1>5, <1>6 DEF IInv

LEMMA SharedIds ==
  ASSUME IInv, NEW m \in Md5s, file_shared[m] # None
  PROVE  /\ IdOf(file_shared[m].file_id, m) /\ file_shared[m].file_id \in Nat
         /\ \A g \in Handlers : req[g].pc = "publish" => req[g].id # file_shared[m].file_id
  BY DEF IInv, IdPart, IdInv, FreshInv, TableInv, SharedType

LEMMA PrecheckOwnedIdStep ==
  ASSUME IInv, NEW h \in Handlers, PrecheckOwnedId(h), UNCHANGED fileVars
  PROVE  IInv'
  <1>1. /\ req[h].pc = "ownedId" /\ ReqOK(req[h]) /\ DOMAIN req = Handlers
        /\ UNCHANGED <<artifact_info, file_info, file_shared, blobs, started, fileVars>>
        /\ disturbed' = disturbed /\ disturbed \subseteq Md5s
    BY DEF PrecheckOwnedId, At, IInv, ReqInv, TableInv
  <1>2. req[h].md5 \in Md5s
    BY <1>1 DEF ReqOK
  <1>3. CASE Answer(h)
    BY <1>1, <1>3, KeepFiles, QuietAnswer
  <1>4. CASE file_shared[req[h].md5] # None
    <2> DEFINE id == file_shared[req[h].md5].file_id
    <2>1. /\ IdOf(id, req[h].md5) /\ id \in Nat
          /\ \A g \in Handlers : req[g].pc = "publish" => req[g].id # id
      BY <1>2, <1>4, SharedIds
    <2> DEFINE r == [req[h] EXCEPT !.pc = "artifact", !.id = id]
    <2>2. req' = [req EXCEPT ![h] = r]
      BY <1>4 DEF PrecheckOwnedId
    <2>3. req'[h] = r /\ Change(h)
      BY <1>1, <2>2 DEF Change
    <2>4. /\ DOMAIN r = DOMAIN req[h]
          /\ r.pc = "artifact" /\ r.c = req[h].c /\ r.md5 = req[h].md5
          /\ r.id = id /\ r.index = req[h].index
      BY <1>1 DEF ReqOK
    <2> HIDE DEF r, id
    <2>5. ReqOK(r)
      BY <1>1, <2>1, <2>4 DEF ReqOK, Late
    <2> QED BY <1>1, <2>1, <2>3, <2>4, <2>5, TakeStep DEF Early
  <1> QED BY <1>3, <1>4 DEF PrecheckOwnedId

LEMMA PrecheckSharedIdStep ==
  ASSUME IInv, NEW h \in Handlers, PrecheckSharedId(h), UNCHANGED fileVars
  PROVE  IInv'
  <1>1. /\ req[h].pc = "sharedId" /\ ReqOK(req[h]) /\ DOMAIN req = Handlers
        /\ UNCHANGED <<artifact_info, file_info, file_shared, blobs, started, fileVars>>
        /\ disturbed' = disturbed /\ disturbed \subseteq Md5s
    BY DEF PrecheckSharedId, At, IInv, ReqInv, TableInv
  <1>2. req[h].md5 \in Md5s
    BY <1>1 DEF ReqOK
  <1>3. PICK id : id = IF file_shared[req[h].md5] = None THEN NoId
                       ELSE file_shared[req[h].md5].file_id
    OBVIOUS
  <1>4. /\ IdOf(id, req[h].md5) /\ id \in Nat
        /\ \A g \in Handlers : req[g].pc = "publish" => req[g].id # id
    <2>1. CASE file_shared[req[h].md5] = None
      BY <1>3, <2>1 DEF IdOf, NoId, IInv, IdPart, FreshInv
    <2>2. CASE file_shared[req[h].md5] # None
      BY <1>2, <1>3, <2>2, SharedIds
    <2> QED BY <2>1, <2>2
  <1> DEFINE r == [req[h] EXCEPT !.pc = "share", !.id = id]
  <1>5. req' = [req EXCEPT ![h] = r]
    BY <1>3 DEF PrecheckSharedId
  <1>6. req'[h] = r /\ Change(h)
    BY <1>1, <1>5 DEF Change
  <1>7. /\ DOMAIN r = DOMAIN req[h]
        /\ r.pc = "share" /\ r.c = req[h].c /\ r.md5 = req[h].md5
        /\ r.id = id /\ r.index = req[h].index
    BY <1>1 DEF ReqOK
  <1> HIDE DEF r
  <1>8. ReqOK(r)
    BY <1>1, <1>4, <1>7 DEF ReqOK, Early
  <1> QED BY <1>1, <1>4, <1>6, <1>7, <1>8, TakeStep DEF Early

LEMMA DeleteFindStep ==
  ASSUME IInv, NEW h \in Handlers, DeleteFind(h), UNCHANGED fileVars
  PROVE  IInv'
  <1>1. /\ req[h].pc = "find" /\ ReqOK(req[h]) /\ DOMAIN req = Handlers
        /\ UNCHANGED <<artifact_info, file_info, file_shared, blobs, started, fileVars>>
    BY DEF DeleteFind, At, IInv, ReqInv
  <1>2. req[h].c \in Coords
    BY <1>1 DEF ReqOK
  <1>3. CASE Answer(h) /\ UNCHANGED disturbed
    BY <1>1, <1>3, KeepFiles, QuietAnswer
  <1>4. CASE artifact_info[req[h].c] # None
    <2> DEFINE row == artifact_info[req[h].c]
    <2>1. /\ IdOf(row.file_id, row.checksum) /\ row.file_id \in Nat /\ row.checksum \in Md5s
          /\ \A g \in Handlers : req[g].pc = "publish" => req[g].id # row.file_id
      BY <1>2, <1>4 DEF IInv, IdPart, IdInv, FreshInv, TableInv, ArtifactType
    <2> DEFINE r == [req[h] EXCEPT !.pc = "unlist", !.md5 = row.checksum, !.id = row.file_id]
    <2>2. req' = [req EXCEPT ![h] = r]
      BY <1>4 DEF DeleteFind
    <2>3. req'[h] = r /\ Change(h)
      BY <1>1, <2>2 DEF Change
    <2>4. /\ DOMAIN r = DOMAIN req[h]
          /\ r.pc = "unlist" /\ r.c = req[h].c /\ r.md5 = row.checksum
          /\ r.id = row.file_id /\ r.index = req[h].index
      BY <1>1 DEF ReqOK
    <2>5. disturbed' = disturbed \cup Meets(h, req[h].c, row.checksum)
      BY <1>4 DEF DeleteFind
    <2> HIDE DEF r, row
    <2>6. ReqOK(r)
      BY <1>1, <2>1, <2>4 DEF ReqOK, Late
    <2>7. disturbed' \subseteq Md5s
      BY <2>5 DEF Meets, IInv, TableInv
    <2> QED BY <1>1, <2>1, <2>3, <2>4, <2>6, <2>7, TakeStep DEF Early
  <1> QED BY <1>3, <1>4 DEF DeleteFind

LEMMA StartStep ==
  ASSUME IInv, NEW h \in Handlers, NEW op, NEW c \in Coords, NEW m \in Md5s \cup {None},
         NEW mode, NEW i \in Chunks, Start(h, op, c, m, mode, i), UNCHANGED fileVars,
         op = "delete" \/ m \in Md5s
  PROVE  IInv'
  <1> DEFINE pc == IF op = "delete" THEN "find" ELSE IF mode THEN "check" ELSE "unchecked"
             r == [pc |-> pc, op |-> op, c |-> c, md5 |-> m, mode |-> mode,
                   id |-> NoId, index |-> i, indices |-> <<>>]
  <1>1. /\ req' = [req EXCEPT ![h] = r] /\ started' = started + 1 /\ started < MaxRequests
        /\ UNCHANGED <<artifact_info, file_info, file_shared, blobs, fileVars>>
        /\ disturbed' = disturbed \cup Meets(h, c, m)
    BY DEF Start
  <1>2. pc \in {"find", "check", "unchecked"} /\ (op # "delete" => pc # "find")
        /\ (op = "delete" => pc = "find")
    OBVIOUS
  <1> HIDE DEF pc
  <1>3. /\ DOMAIN r = {"pc", "op", "c", "md5", "mode", "id", "index", "indices"}
        /\ r.pc = pc /\ r.c = c /\ r.md5 = m /\ r.id = NoId /\ r.index = i
    OBVIOUS
  <1> HIDE DEF r
  <1>4. req'[h] = r /\ Change(h)
    BY <1>1 DEF IInv, ReqInv, Change
  <1>5. ReqOK(r)
    BY <1>2, <1>3 DEF ReqOK, Early, NoId
  <1>6. ReqInv'
    BY <1>4, <1>5, ReqChange DEF IInv
  <1>7. IdPart'
    <2>1. Settles(h)
      BY <1>2, <1>3, <1>4, <1>5 DEF Settles
    <2> QED BY <1>1, <2>1, SettleIds DEF IInv
  <1>8. started \in Nat /\ started' \in 0 .. MaxRequests
    BY <1>1, Bounds DEF IInv, TableInv
  <1>9. RefInv'
    <2>1. /\ Cardinality(EarlyReqs') <= Cardinality(EarlyReqs) + 1
          /\ Cardinality(EarlyReqs') \in Nat
      BY <1>4, EarlyUp
    <2>2. Cardinality(EarlyReqs) \in Nat
      BY EarlyFinite
    <2>3. \A k \in Md5s : file_shared[k] # None => file_shared[k].ref_count \in Nat
      BY DEF IInv, TableInv, SharedType
    <2> QED BY <1>1, <1>8, <2>1, <2>2, <2>3 DEF RefInv, IInv
  <1>10. TableInv'
    <2>1. disturbed' \subseteq Md5s
      BY <1>1 DEF Meets, IInv, TableInv
    <2> QED BY <1>1, <1>8, <2>1 DEF IInv, TableInv, ArtifactType, SharedType, FileType
  <1>11. BlobsOK'
    BY <1>1 DEF IInv, BlobsOK, Range
  <1>12. DirOK'
    BY KeepDir DEF IInv, fileVars
  <1> QED BY <1>6, <1>7, <1>9, <1>10, <1>11, <1>12 DEF IInv

LEMMA ArriveStep ==
  ASSUME IInv, NEW h \in Handlers, Arrive(h), UNCHANGED fileVars
  PROVE  IInv'
  <1>1. ASSUME NEW c \in Coords, NEW m \in Md5s, NEW mode \in Modes,
               NEW op \in {"precheck", "direct"}, Start(h, op, c, m, mode, 0)
        PROVE  IInv'
    BY <1>1, StartStep, Bounds
  <1>2. ASSUME NEW c \in Coords, NEW m \in Md5s, NEW mode \in Modes, NEW i \in Chunks,
               Start(h, "chunk", c, m, mode, i)
        PROVE  IInv'
    BY <1>2, StartStep
  <1>3. ASSUME NEW c \in Coords, Start(h, "delete", c, None, TRUE, 0)
        PROVE  IInv'
    BY <1>3, StartStep, Bounds
  <1> QED BY <1>1, <1>2, <1>3 DEF Arrive

LEMMA CreateFileOK ==
  ASSUME FileType, disturbed \subseteq Md5s, NEW r, r.c \in Coords, r.md5 \in Md5s,
         CreateFile(r)
  PROVE  FileType' /\ disturbed' \subseteq Md5s
  <1>1. FileRow(r) \in [owner : {c.owner : c \in Coords},
                        filename : {BuildStorageName(c) : c \in Coords}, md5 : Md5s]
    BY DEF FileRow
  <1>2. FileType'
    BY <1>1 DEF CreateFile, FileType
  <1>3. \A f \in file_info : f.md5 \in Md5s
    BY DEF FileType
  <1>4. disturbed' \subseteq Md5s
    BY <1>3 DEF CreateFile
  <1> QED BY <1>2, <1>4

\* A reference is taken: the request has used its right to one.
LEMMA ReferStep ==
  ASSUME IInv, NEW h \in Handlers, req[h].pc \in {"share", "publish"},
         IF req[h].mode THEN Goto(h, "artifact") ELSE Done(h),
         CreateFile(req[h]), SharedType', IdPart',
         \A m \in Md5s : file_shared'[m] # None =>
           \/ file_shared'[m].ref_count = 1
           \/ file_shared[m] # None /\ file_shared'[m].ref_count <= file_shared[m].ref_count + 1,
         UNCHANGED <<artifact_info, blobs, started, fileVars>>
  PROVE  IInv'
  <1>1. Settles(h) /\ req'[h].pc \in {"artifact", "cleanup", "idle"}
    <2>1. ReqInv /\ req[h].pc \notin {"idle", "find"}
      BY DEF IInv
    <2>2. CASE Goto(h, "artifact")
      BY <2>1, <2>2, GotoSettles DEF Late
    <2>3. CASE Done(h)
      BY <2>1, <2>3, DoneSettles
    <2> QED BY <2>2, <2>3
  <1>2. ReqInv'
    BY <1>1, ReqChange DEF IInv, Settles
  <1>3. RefInv'
    <2>1. Cardinality(EarlyReqs') = Cardinality(EarlyReqs) - 1 /\ Cardinality(EarlyReqs') \in Nat
      BY <1>1, EarlyDown DEF Settles, Early
    <2>2. SharedType /\ started \in Nat /\ RefInv
      BY Bounds DEF IInv, TableInv
    <2> QED BY <2>1, <2>2, RefUp
  <1>4. TableInv'
    <2>1. req[h].c \in Coords /\ req[h].md5 \in Md5s
      BY DEF IInv, ReqInv, ReqOK
    <2>2. FileType' /\ disturbed' \subseteq Md5s
      BY <2>1, CreateFileOK DEF IInv, TableInv
    <2> QED BY <2>2 DEF IInv, TableInv, ArtifactType
  <1>5. BlobsOK'
    BY DEF IInv, BlobsOK, Range
  <1>6. DirOK'
    BY KeepDir DEF IInv, fileVars
  <1> QED BY <1>2, <1>3, <1>4, <1>5, <1>6 DEF IInv

LEMMA ReferSettles ==
  ASSUME ReqInv, NEW h \in Handlers, req[h].pc \in {"share", "publish"},
         IF req[h].mode THEN Goto(h, "artifact") ELSE Done(h)
  PROVE  Settles(h)
  <1>1. CASE Goto(h, "artifact")
    BY <1>1, GotoSettles DEF Late
  <1>2. CASE Done(h)
    BY <1>2, DoneSettles
  <1> QED BY <1>1, <1>2

LEMMA PrecheckShareStep ==
  ASSUME IInv, NEW h \in Handlers, PrecheckShare(h), UNCHANGED fileVars
  PROVE  IInv'
  <1>1. /\ req[h].pc = "share" /\ CreateFile(req[h])
        /\ IF req[h].mode THEN Goto(h, "artifact") ELSE Done(h)
        /\ UNCHANGED <<artifact_info, blobs, started, fileVars>>
    BY DEF PrecheckShare, At
  <1>2. req[h].md5 \in Md5s
    BY <1>1 DEF IInv, ReqInv, ReqOK
  <1>3. /\ SharedType'
        /\ \A m \in Md5s : file_shared'[m] # None =>
             /\ file_shared[m] # None
             /\ file_shared'[m].file_id = file_shared[m].file_id
             /\ file_shared'[m].ref_count <= file_shared[m].ref_count + 1
    <2>0. SharedType
      BY DEF IInv, TableInv
    <2>1. CASE file_shared[req[h].md5] = None
      <3>1. file_shared' = file_shared
        BY <2>1 DEF PrecheckShare
      <3> QED BY <2>0, <3>1 DEF SharedType
    <2>2. CASE file_shared[req[h].md5] # None
      <3> DEFINE s == file_shared[req[h].md5]
                 new == [s EXCEPT !.ref_count = s.ref_count + 1]
      <3>1. file_shared' = [file_shared EXCEPT ![req[h].md5] = new]
        BY <2>2 DEF PrecheckShare
      <3>2. s \in [file_id : Nat, ref_count : Nat]
        BY <1>2, <2>0, <2>2 DEF SharedType
      <3>3. /\ new \in [file_id : Nat, ref_count : Nat]
            /\ new.file_id = s.file_id /\ new.ref_count = s.ref_count + 1
        BY <3>2
      <3> HIDE DEF new
      <3>4. SharedType'
        BY <2>0, <3>1, <3>3 DEF SharedType
      <3>5. \A m \in Md5s : file_shared'[m] = IF m = req[h].md5 THEN new ELSE file_shared[m]
        BY <1>2, <2>0, <3>1 DEF SharedType
      <3> QED BY <2>0, <2>2, <3>2, <3>3, <3>4, <3>5 DEF SharedType
    <2> QED BY <2>1, <2>2
  <1>4. IdPart'
    <2>1. Settles(h)
      BY <1>1, ReferSettles DEF IInv
    <2> QED BY <1>1, <1>3, <2>1, SettleIds DEF IInv
  <1> QED BY <1>1, <1>3, <1>4, ReferStep

LEMMA PublishStep ==
  ASSUME IInv, NEW h \in Handlers, Publish(h), UNCHANGED fileVars
  PROVE  IInv'
  <1>1. req[h].pc = "publish" /\ UNCHANGED <<artifact_info, blobs, started, fileVars>>
    BY DEF Publish, At
  <1>2. req[h].md5 \in Md5s /\ req[h].id \in Nat
    BY <1>1 DEF IInv, ReqInv, ReqOK
  <1>3. CASE file_shared[req[h].md5] # None
    <2>1. Answer(h) /\ UNCHANGED <<file_info, file_shared, disturbed>>
      BY <1>3 DEF Publish
    <2> QED BY <1>1, <2>1, KeepFiles, QuietAnswer
  <1>4. CASE file_shared[req[h].md5] = None
    <2>1. /\ CreateFile(req[h])
          /\ IF req[h].mode THEN Goto(h, "artifact") ELSE Done(h)
          /\ file_shared' = [file_shared EXCEPT ![req[h].md5] =
                               [file_id |-> req[h].id, ref_count |-> 1]]
      BY <1>4 DEF Publish
    <2>2. IdPart'
      <3>1. Settles(h)
        BY <1>1, <2>1, ReferSettles DEF IInv
      <3> QED BY <1>1, <2>1, <3>1, PublishIds DEF IInv, TableInv
    <2> DEFINE new == [file_id |-> req[h].id, ref_count |-> 1]
    <2>3. new \in [file_id : Nat, ref_count : Nat] /\ new.ref_count = 1
      BY <1>2
    <2> HIDE DEF new
    <2>4. SharedType /\ file_shared' = [file_shared EXCEPT ![req[h].md5] = new]
      BY <2>1 DEF IInv, TableInv, new
    <2>5. SharedType'
      BY <2>3, <2>4 DEF SharedType
    <2>6. \A m \in Md5s : file_shared'[m] # None =>
           \/ file_shared'[m].ref_count = 1
           \/ file_shared[m] # None /\ file_shared'[m].ref_count <= file_shared[m].ref_count + 1
      <3>1. \A m \in Md5s : file_shared'[m] = IF m = req[h].md5 THEN new ELSE file_shared[m]
        BY <1>2, <2>4 DEF SharedType
      <3>2. \A m \in Md5s : file_shared[m] # None => file_shared[m].ref_count \in Nat
        BY <2>4 DEF SharedType
      <3> QED BY <2>3, <3>1, <3>2
    <2> QED BY <1>1, <2>1, <2>2, <2>5, <2>6, ReferStep
  <1> QED BY <1>3, <1>4

LEMMA CreateArtifactInsertStep ==
  ASSUME IInv, NEW h \in Handlers, CreateArtifactInsert(h), UNCHANGED fileVars
  PROVE  IInv'
  <1>1. /\ req[h].pc = "insert"
        /\ UNCHANGED <<file_info, file_shared, blobs, started, disturbed, fileVars>>
    BY DEF CreateArtifactInsert, At
  <1>2. req[h].md5 \in Md5s /\ req[h].id \in Nat /\ req[h].c \in Coords
    BY <1>1 DEF IInv, ReqInv, ReqOK
  <1>3. CASE artifact_info[req[h].c] # None
    <2>1. Answer(h) /\ UNCHANGED artifact_info
      BY <1>3 DEF CreateArtifactInsert
    <2> QED BY <1>1, <2>1, KeepFiles, QuietAnswer
  <1>4. CASE artifact_info[req[h].c] = None
    <2> DEFINE row == [checksum |-> req[h].md5, file_id |-> req[h].id]
    <2>1. artifact_info' = [artifact_info EXCEPT ![req[h].c] = row] /\ Done(h)
      BY <1>4 DEF CreateArtifactInsert
    <2>2. /\ row \in [checksum : Md5s, file_id : Nat]
          /\ row.checksum = req[h].md5 /\ row.file_id = req[h].id
      BY <1>2
    <2> HIDE DEF row
    <2>3. Settles(h) /\ req'[h].pc \in {"idle", "cleanup"}
      BY <1>1, <2>1, DoneSettles DEF IInv
    <2>4. ArtifactType /\ ArtifactType'
      BY <2>1, <2>2 DEF IInv, TableInv, ArtifactType
    <2>5. \A c \in Coords : artifact_info'[c] = IF c = req[h].c THEN row ELSE artifact_info[c]
      BY <1>2, <2>1, <2>4 DEF ArtifactType
    <2>6. IdPart'
      BY <1>1, <2>2, <2>3, <2>5, SettleIds DEF IInv
    <2>7. ReqInv'
      BY <2>3, ReqChange DEF IInv, Settles
    <2>8. RefInv'
      BY <1>1, <2>3, QuietRefs DEF Settles, Early
    <2>9. TableInv'
      BY <1>1, <2>4 DEF IInv, TableInv, SharedType, FileType
    <2>10. BlobsOK'
      BY <1>1 DEF IInv, BlobsOK, Range
    <2>11. DirOK'
      BY KeepDir DEF IInv, fileVars
    <2> QED BY <2>6, <2>7, <2>8, <2>9, <2>10, <2>11 DEF IInv
  <1> QED BY <1>3, <1>4

LEMMA DeleteArtifactStep ==
  ASSUME IInv, NEW h \in Handlers, DeleteArtifact(h), UNCHANGED fileVars
  PROVE  IInv'
  <1>1. /\ req[h].pc = "unlist" /\ Goto(h, "unfile")
        /\ artifact_info' = [artifact_info EXCEPT ![req[h].c] = None]
        /\ UNCHANGED <<file_info, file_shared, blobs, started, disturbed, fileVars>>
    BY DEF DeleteArtifact, At
  <1>2. Settles(h) /\ req'[h].pc = "unfile"
    BY <1>1, GotoSettles DEF IInv, Late
  <1>3. ArtifactType /\ ArtifactType'
    BY <1>1 DEF IInv, TableInv, ArtifactType
  <1>4. \A c \in Coords : artifact_info'[c] \in {None, artifact_info[c]}
    BY <1>1, <1>3 DEF ArtifactType
  <1>5. IdPart'
    BY <1>1, <1>2, <1>4, SettleIds DEF IInv
  <1>6. ReqInv'
    BY <1>2, ReqChange DEF IInv, Settles
  <1>7. RefInv'
    BY <1>1, <1>2, QuietRefs DEF Settles, Early
  <1>8. TableInv'
    BY <1>1, <1>3 DEF IInv, TableInv, SharedType, FileType
  <1>9. BlobsOK'
    BY <1>1 DEF IInv, BlobsOK, Range
  <1>10. DirOK'
    BY KeepDir DEF IInv, fileVars
  <1> QED BY <1>5, <1>6, <1>7, <1>8, <1>9, <1>10 DEF IInv

LEMMA DecrementRefStep ==
  ASSUME IInv, NEW h \in Handlers, DecrementRef(h), UNCHANGED fileVars
  PROVE  IInv'
  <1>1. /\ req[h].pc = "release" /\ Goto(h, "count")
        /\ UNCHANGED <<artifact_info, file_info, blobs, started, disturbed, fileVars>>
    BY DEF DecrementRef, At
  <1>2. req[h].md5 \in Md5s
    BY <1>1 DEF IInv, ReqInv, ReqOK
  <1>3. Settles(h) /\ req'[h].pc = "count"
    BY <1>1, GotoSettles DEF IInv, Late
  <1>4. /\ SharedType /\ SharedType'
        /\ \A m \in Md5s : file_shared'[m] # None =>
             /\ file_shared[m] # None
             /\ file_shared'[m].file_id = file_shared[m].file_id
             /\ file_shared'[m].ref_count <= file_shared[m].ref_count
    <2>0. SharedType
      BY DEF IInv, TableInv
    <2>1. CASE ~ (file_shared[req[h].md5] # None /\ file_shared[req[h].md5].ref_count > 0)
      <3>1. file_shared' = file_shared
        BY <2>1 DEF DecrementRef
      <3> QED BY <2>0, <3>1 DEF SharedType
    <2>2. CASE file_shared[req[h].md5] # None /\ file_shared[req[h].md5].ref_count > 0
      <3> DEFINE s == file_shared[req[h].md5]
                 new == [s EXCEPT !.ref_count = s.ref_count - 1]
      <3>1. file_shared' = [file_shared EXCEPT ![req[h].md5] = new]
        BY <2>2 DEF DecrementRef
      <3>2. s \in [file_id : Nat, ref_count : Nat] /\ s.ref_count > 0
        BY <1>2, <2>0, <2>2 DEF SharedType
      <3>3. /\ new \in [file_id : Nat, ref_count : Nat]
            /\ new.file_id = s.file_id /\ new.ref_count = s.ref_count - 1
        BY <3>2
      <3> HIDE DEF new
      <3>4. SharedType'
        BY <2>0, <3>1, <3>3 DEF SharedType
      <3>5. \A m \in Md5s : file_shared'[m] = IF m = req[h].md5 THEN new ELSE file_shared[m]
        BY <1>2, <2>0, <3>1 DEF SharedType
      <3> QED BY <2>0, <2>2, <3>2, <3>3, <3>4, <3>5 DEF SharedType
    <2> QED BY <2>1, <2>2
  <1>5. IdPart'
    BY <1>1, <1>3, <1>4, SettleIds DEF IInv
  <1>6. ReqInv'
    BY <1>3, ReqChange DEF IInv, Settles
  <1>7. RefInv'
    <2>1. Cardinality(EarlyReqs') <= Cardinality(EarlyReqs) /\ Cardinality(EarlyReqs') \in Nat
      BY <1>3, EarlyLess DEF Settles, Early
    <2>2. started \in Nat /\ started' = started /\ RefInv
      BY <1>1, Bounds DEF IInv, TableInv
    <2> QED BY <1>4, <2>1, <2>2, RefLess
  <1>8. TableInv'
    BY <1>1, <1>4 DEF IInv, TableInv, ArtifactType, FileType
  <1>9. BlobsOK'
    BY <1>1 DEF IInv, BlobsOK, Range
  <1>10. DirOK'
    BY KeepDir DEF IInv, fileVars
  <1> QED BY <1>5, <1>6, <1>7, <1>8, <1>9, <1>10 DEF IInv

\* The blob to be erased was uploaded for the checksum whose record goes: no
\* other record names it.
LEMMA DeleteSharedStep ==
  ASSUME IInv, NEW h \in Handlers, DeleteShared(h), UNCHANGED fileVars
  PROVE  IInv'
  <1>1. /\ req[h].pc = "unshare" /\ Goto(h, "erase")
        /\ file_shared' = [file_shared EXCEPT ![req[h].md5] = None]
        /\ UNCHANGED <<artifact_info, file_info, blobs, started, disturbed, fileVars>>
    BY DEF DeleteShared, At
  <1>2. req[h].md5 \in Md5s
    BY <1>1 DEF IInv, ReqInv, ReqOK
  <1>3. /\ Change(h) /\ ReqOK(req'[h]) /\ req'[h].pc = "erase"
        /\ req'[h].id = req[h].id /\ req'[h].md5 = req[h].md5
    BY <1>1, GotoStep DEF IInv, Late
  <1>4. SharedType /\ SharedType'
    BY <1>1 DEF IInv, TableInv, SharedType
  <1>5. \A m \in Md5s : file_shared'[m] = IF m = req[h].md5 THEN None ELSE file_shared[m]
    BY <1>1, <1>4 DEF SharedType
  <1>6. IdPart'
    <2>1. IdOf(req'[h].id, req'[h].md5)
      BY <1>3 DEF IInv, IdPart, IdInv
    <2>2. \A g \in Handlers \ {h} : req[g].pc = "publish" => req[g].id # req'[h].id
      BY <1>3 DEF IInv, IdPart, FreshInv
    <2>3. req[h].id # NoId =>
            \A m \in Md5s : file_shared'[m] # None => file_shared'[m].file_id # req[h].id
      BY <1>3, <1>5, <2>1 DEF IInv, IdPart, IdInv, IdOf
    <2> QED BY <1>1, <1>3, <1>5, <2>1, <2>2, <2>3, KeepIds DEF IInv
  <1>7. ReqInv'
    BY <1>3, ReqChange DEF IInv
  <1>8. RefInv'
    <2>1. Cardinality(EarlyReqs') <= Cardinality(EarlyReqs) /\ Cardinality(EarlyReqs') \in Nat
      BY <1>3, EarlyLess DEF Early
    <2>2. started \in Nat /\ started' = started /\ RefInv
      BY <1>1, Bounds DEF IInv, TableInv
    <2>3. \A m \in Md5s : file_shared'[m] # None =>
            file_shared[m] # None /\ file_shared'[m].ref_count <= file_shared[m].ref_count
      BY <1>4, <1>5 DEF SharedType
    <2> QED BY <1>4, <2>1, <2>2, <2>3, RefLess
  <1>9. TableInv'
    BY <1>1, <1>4 DEF IInv, TableInv, ArtifactType, FileType
  <1>10. BlobsOK'
    BY <1>1 DEF IInv, BlobsOK, Range
  <1>11. DirOK'
    BY KeepDir DEF IInv, fileVars
  <1> QED BY <1>6, <1>7, <1>8, <1>9, <1>10, <1>11 DEF IInv

LEMMA DeletePhysicalStep ==
  ASSUME IInv, NEW h \in Handlers, DeletePhysical(h), UNCHANGED fileVars
  PROVE  IInv'
  <1>1. /\ req[h].pc = "erase" /\ Answer(h)
        /\ UNCHANGED <<artifact_info, file_info, file_shared, started, disturbed, fileVars>>
        /\ blobs' = IF req[h].id = NoId THEN blobs
                    ELSE [blobs EXCEPT ![req[h].id].live = FALSE]
    BY DEF DeletePhysical, At
  <1>2. IdPart' /\ BlobsOK'
    BY <1>1, EraseIds DEF IInv
  <1>3. Change(h) /\ ReqOK(req'[h]) /\ req'[h].pc = "idle"
    BY <1>1, AnswerStep DEF IInv
  <1>4. ReqInv'
    BY <1>3, ReqChange DEF IInv
  <1>5. RefInv'
    BY <1>1, <1>3, QuietRefs DEF Early
  <1>6. TableInv'
    BY <1>1 DEF IInv, TableInv, ArtifactType, FileType, SharedType
  <1>7. DirOK'
    BY KeepDir DEF IInv, fileVars
  <1> QED BY <1>2, <1>4, <1>5, <1>6, <1>7 DEF IInv

\* A crash forgets the requests, and with them the blobs they had not published.
LEMMA CrashStep ==
  ASSUME IInv, Crash, UNCHANGED fileVars
  PROVE  IInv'
  <1>1. /\ req' = [h \in Handlers |-> Idle]
        /\ UNCHANGED <<artifact_info, file_info, file_shared, blobs, started, fileVars>>
        /\ disturbed' \subseteq Md5s
    BY DEF Crash, IInv, TableInv
  <1>2. /\ DOMAIN req' = Handlers
        /\ \A h \in Handlers : /\ ReqOK(req'[h]) /\ req'[h].pc = "idle"
                               /\ req'[h].id = NoId
    BY <1>1, IdleOK
  <1>3. ReqInv'
    BY <1>2 DEF ReqInv
  <1>4. IdInv'
    BY <1>1, <1>2 DEF IInv, IdPart, IdInv, IdOf
  <1>5. FreshInv' /\ EraseInv'
    BY <1>2 DEF FreshInv, EraseInv
  <1>6. SharedAlive'
    BY <1>1 DEF IInv, IdPart, SharedAlive
  <1>7. RefInv'
    <2>1. EarlyReqs' = {}
      BY <1>2 DEF EarlyReqs, Early
    <2>2. Cardinality(EarlyReqs') = 0
      BY <2>1, FS_EmptySet
    <2>3. Cardinality(EarlyReqs) \in Nat /\ started \in Nat
      BY EarlyFinite, Bounds DEF IInv, TableInv
    <2>4. \A m \in Md5s : file_shared[m] # None => file_shared[m].ref_count \in Nat
      BY DEF IInv, TableInv, SharedType
    <2> QED BY <1>1, <2>2, <2>3, <2>4 DEF IInv, RefInv
  <1>8. TableInv'
    BY <1>1 DEF IInv, TableInv, ArtifactType, FileType, SharedType
  <1>9. BlobsOK'
    BY <1>1 DEF IInv, BlobsOK, Range
  <1>10. DirOK'
    BY KeepDir DEF IInv, fileVars
  <1> QED BY <1>3, <1>4, <1>5, <1>6, <1>7, <1>8, <1>9, <1>10 DEF IInv, IdPart

\* Steps that leave requests, records and blobs alone.
LEMMA IdleStep ==
  ASSUME IInv, UNCHANGED <<artifact_info, file_info, file_shared, blobs, req, started>>,
         disturbed' \subseteq Md5s, DirOK'
  PROVE  IInv'
  <1>1. ReqInv'
    BY DEF IInv, ReqInv
  <1>2. IdInv' /\ SharedAlive'
    BY DEF IInv, IdPart, IdInv, SharedAlive, IdOf
  <1>3. FreshInv' /\ EraseInv'
    BY DEF IInv, IdPart, FreshInv, EraseInv
  <1>4. RefInv'
    BY DEF IInv, RefInv, EarlyReqs
  <1>5. TableInv'
    BY DEF IInv, TableInv, ArtifactType, FileType, SharedType
  <1>6. BlobsOK'
    BY DEF IInv, BlobsOK, Range
  <1> QED BY <1>1, <1>2, <1>3, <1>4, <1>5, <1>6 DEF IInv, IdPart

LEMMA CleanerStep ==
  ASSUME IInv, (\E t \in Tasks : FindExpired(t)) \/ RmExpired
  PROVE  IInv'
  <1>1. ASSUME NEW t \in Tasks, FindExpired(t)
        PROVE  IInv'
    <2>1. UNCHANGED <<storeVars, dir>> /\ expired'[1] = t
      BY <1>1 DEF FindExpired
    <2>2. DirOK'
      BY <2>1 DEF IInv, DirOK, Tasks
    <2> QED BY <2>1, <2>2, IdleStep DEF storeVars, IInv, TableInv
  <1>2. CASE RmExpired
    <2>1. /\ expired # None /\ RemoveFile(expired[1], expired[2]) /\ expired' = None
          /\ UNCHANGED <<artifact_info, file_info, file_shared, blobs, req, started>>
      BY <1>2 DEF RmExpired, tableVars
    <2>2. expired[1] \in Tasks
      BY <2>1 DEF IInv, DirOK
    <2>3. DirOK'
      BY <2>1, <2>2, RemoveFileOK DEF IInv
    <2>4. expired[1][2] \in Md5s
      BY <2>2 DEF Tasks
    <2>5. disturbed' \subseteq Md5s
      BY <1>2, <2>4 DEF RmExpired, IInv, TableInv
    <2> QED BY <2>1, <2>3, <2>5, IdleStep
  <1> QED BY <1>1, <1>2

----------------------------------------------------------------------------
(* The theorems *)

LEMMA InitIInv == Init => IInv
  <1> SUFFICES ASSUME Init PROVE IInv
    OBVIOUS
  <1>1. \A h \in Handlers : req[h] = Idle
    BY DEF Init, StoreInit
  <1>2. ReqInv
    BY <1>1, IdleOK DEF Init, StoreInit, ReqInv
  <1>3. blobs = <<>> /\ Len(blobs) = 0 /\ DOMAIN blobs = {}
    BY DEF Init, StoreInit
  <1>4. BlobsOK
    <2>1. blobs \in Seq({})
      BY <1>3
    <2> QED BY <1>3, <2>1, SeqOfRange DEF BlobsOK
  <1>5. DirOK
    BY EmptyOK DEF Init, DirOK
  <1>6. /\ \A c \in Coords : artifact_info[c] = None
        /\ \A m \in Md5s : file_shared[m] = None
        /\ \A h \in Handlers : req[h].pc = "idle" /\ req[h].id = NoId
    BY <1>1, IdleOK DEF Init, StoreInit
  <1>7. IdPart
    BY <1>3, <1>6, Bounds DEF IdPart, IdInv, IdOf, FreshInv, EraseInv, SharedAlive
  <1>8. RefInv
    <2>1. EarlyReqs = {}
      BY <1>6 DEF EarlyReqs, Early
    <2>2. Cardinality(EarlyReqs) = 0 /\ started = 0
      BY <2>1, FS_EmptySet DEF Init, StoreInit
    <2> QED BY <1>6, <2>2 DEF RefInv
  <1>9. TableInv
    BY Bounds DEF Init, StoreInit, TableInv, ArtifactType, FileType, SharedType
  <1> QED BY <1>2, <1>4, <1>5, <1>7, <1>8, <1>9 DEF IInv

LEMMA NextIInv == IInv /\ [Next]_vars => IInv'
  <1> SUFFICES ASSUME IInv, [Next]_vars PROVE IInv'
    OBVIOUS
  <1>1. ASSUME NEW h \in Handlers, StoreStep(h)
        PROVE  IInv'
    <2>1. UNCHANGED fileVars
      BY <1>1 DEF StoreStep
    <2>2. CASE Arrive(h) \/ CoordinateCheck(h)
      BY <2>1, <2>2, ArriveStep, CoordinateCheckStep
    <2>3. CASE PrecheckOwned(h) \/ PrecheckOwnedId(h)
      BY <2>1, <2>3, PrecheckOwnedStep, PrecheckOwnedIdStep
    <2>4. CASE PrecheckShared(h) \/ PrecheckSharedId(h) \/ PrecheckShare(h)
      BY <2>1, <2>4, PrecheckSharedStep, PrecheckSharedIdStep, PrecheckShareStep
    <2>5. CASE CreateArtifactCheck(h) \/ CreateArtifactInsert(h)
      BY <2>1, <2>5, CreateArtifactCheckStep, CreateArtifactInsertStep
    <2>6. CASE DirectUpload(h, Whole) \/ Publish(h)
      BY <2>1, <2>6, DirectUploadStep, PublishStep
    <2>7. CASE DeleteFind(h) \/ DeleteArtifact(h) \/ DeleteFileRecord(h)
      BY <2>1, <2>7, DeleteFindStep, DeleteArtifactStep, DeleteFileRecordStep
    <2>8. CASE DecrementRef(h) \/ ReadRef(h)
      BY <2>1, <2>8, DecrementRefStep, ReadRefStep
    <2>9. CASE DeleteShared(h) \/ DeletePhysical(h)
      BY <2>1, <2>9, DeleteSharedStep, DeletePhysicalStep
    <2>10. CASE Fail(h) \/ QueryFails(h)
      BY <2>1, <2>10, FailStep, QueryFailsStep
    <2> QED BY <1>1, <2>2, <2>3, <2>4, <2>5, <2>6, <2>7, <2>8, <2>9, <2>10 DEF StoreStep
  <1>2. ASSUME NEW h \in Handlers, ChunkStep(h)
        PROVE  IInv'
    BY <1>2, SaveOpenStep, SaveWriteStep, ChunksReadyStep, MergeOpenStep, MergeCopyStep,
       UploadBigStep, CleanupStep DEF ChunkStep
  <1>3. CASE Crash /\ UNCHANGED fileVars
    BY <1>3, CrashStep
  <1>4. CASE (\E t \in Tasks : FindExpired(t)) \/ RmExpired
    BY <1>4, CleanerStep
  <1>5. CASE UNCHANGED vars
    <2>1. UNCHANGED storeVars /\ UNCHANGED fileVars
      BY <1>5 DEF vars, fileVars
    <2> QED BY <2>1, KeepFiles, IdleStep DEF storeVars
  <1> QED BY <1>1, <1>2, <1>3, <1>4, <1>5 DEF Next

LEMMA AlwaysIInv == Spec => []IInv
  BY InitIInv, NextIInv, PTL DEF Spec

(***************************************************************************)
(* Whatever uploads, instant uploads, deletes, faults and crashes          *)
(* interleave, a file_shared record names a blob that is still in FastDFS  *)
(* and was uploaded for its checksum (DeleteFileServlet::handle drops the  *)
(* record before it erases the file).                                      *)
(***************************************************************************)
THEOREM StoreSharedAlive == Spec => []SharedAlive
  <1>1. IInv => SharedAlive
    BY DEF IInv, IdPart
  <1> QED BY <1>1, AlwaysIInv, PTL

(***************************************************************************)
(* The tables, blobs, requests and task directories keep their types: in   *)
(* particular no ref_count exceeds the requests that were started, and     *)
(* every identifier is one FastDFS gave out.                               *)
(***************************************************************************)
THEOREM StoreTypeCorrect == Spec => []TypeOK
  <1>1. ASSUME IInv PROVE TypeOK
    <2>1. /\ Len(blobs) \in Nat /\ Len(blobs) <= MaxBlobs /\ MaxBlobs \in Nat
          /\ MaxRequests \in Nat
      BY <1>1, Bounds DEF IInv, IdPart, IdInv, BlobsOK
    <2>2. artifact_info \in [Coords -> [checksum : Md5s, file_id : FileIds] \cup {None}]
      <3>1. \A c \in Coords : artifact_info[c] # None =>
              /\ artifact_info[c] \in [checksum : Md5s, file_id : Nat]
              /\ artifact_info[c].file_id \in FileIds
        BY <1>1, <2>1 DEF IInv, IdPart, IdInv, IdOf, TableInv, ArtifactType, FileIds, NoId
      <3>2. \A c \in Coords :
              artifact_info[c] \in [checksum : Md5s, file_id : FileIds] \cup {None}
        BY <3>1
      <3> QED BY <1>1, <3>2 DEF IInv, TableInv, ArtifactType
    <2>3. \A m \in Md5s : \/ file_shared[m] = None
                          \/ /\ file_shared[m].file_id \in 1 .. Len(blobs)
                             /\ file_shared[m].ref_count \in 0 .. MaxRequests
      <3> SUFFICES ASSUME NEW m \in Md5s, file_shared[m] # None
                   PROVE  /\ file_shared[m].file_id \in 1 .. Len(blobs)
                          /\ file_shared[m].ref_count \in 0 .. MaxRequests
        OBVIOUS
      <3>1. file_shared[m].file_id \in 1 .. Len(blobs)
        BY <1>1 DEF IInv, IdPart, IdInv, IdOf
      <3>2. /\ file_shared[m].ref_count \in Nat
            /\ file_shared[m].ref_count + Cardinality(EarlyReqs) <= started
            /\ started \in 0 .. MaxRequests
        BY <1>1 DEF IInv, TableInv, SharedType, RefInv
      <3> QED BY <2>1, <3>1, <3>2, EarlyFinite
    <2>4. Len(blobs) \in FileIds
      BY <2>1 DEF FileIds
    <2>5. \A h \in Handlers : req[h].md5 \in Md5s \cup {None}
      BY <1>1 DEF IInv, ReqInv, ReqOK
    <2>6. \A t \in Tasks : Names(t) \subseteq 0 .. TotalChunks
      BY <1>1 DEF IInv, DirOK, FilesOK, Names
    <2> QED BY <1>1, <2>2, <2>3, <2>4, <2>5, <2>6 DEF TypeOK, IInv, TableInv, FileType
  <1> QED BY <1>1, AlwaysIInv, PTL

----------------------------------------------------------------------------
(* Coordinates *)

LEMMA CoordinateStep ==
  ASSUME TableInv, ReqInv, [Next]_vars, NEW c \in Coords, artifact_info[c] # None
  PROVE  artifact_info'[c] \in {None, artifact_info[c]}
  <1>1. CASE artifact_info' = artifact_info
    BY <1>1
  <1>2. ASSUME NEW h \in Handlers, CreateArtifactInsert(h)
        PROVE  artifact_info'[c] \in {None, artifact_info[c]}
    BY <1>2 DEF CreateArtifactInsert, TableInv, ArtifactType
  <1>3. ASSUME NEW h \in Handlers, DeleteArtifact(h)
        PROVE  artifact_info'[c] \in {None, artifact_info[c]}
    BY <1>3 DEF DeleteArtifact, TableInv, ArtifactType
  <1>4. ASSUME NEW h \in Handlers, StoreStep(h)
        PROVE  artifact_info'[c] \in {None, artifact_info[c]}
    <2>1. CASE Arrive(h)
      BY <1>1, <2>1 DEF Arrive, Start
    <2>2. CASE CoordinateCheck(h) \/ PrecheckOwned(h) \/ PrecheckOwnedId(h)
      BY <1>1, <2>2 DEF CoordinateCheck, PrecheckOwned, PrecheckOwnedId
    <2>3. CASE PrecheckShared(h) \/ PrecheckSharedId(h) \/ PrecheckShare(h)
      BY <1>1, <2>3 DEF PrecheckShared, PrecheckSharedId, PrecheckShare
    <2>4. CASE CreateArtifactCheck(h) \/ DirectUpload(h, Whole) \/ Publish(h)
      BY <1>1, <2>4 DEF CreateArtifactCheck, DirectUpload, Publish
    <2>5. CASE DeleteFind(h) \/ DeleteFileRecord(h) \/ DecrementRef(h) \/ ReadRef(h)
      BY <1>1, <2>5 DEF DeleteFind, DeleteFileRecord, DecrementRef, ReadRef
    <2>6. CASE DeleteShared(h) \/ DeletePhysical(h) \/ Fail(h) \/ QueryFails(h)
      BY <1>1, <2>6 DEF DeleteShared, DeletePhysical, Fail, QueryFails
    <2> QED BY <1>2, <1>3, <1>4, <2>1, <2>2, <2>3, <2>4, <2>5, <2>6 DEF StoreStep
  <1>5. ASSUME NEW h \in Handlers, ChunkStep(h)
        PROVE  artifact_info'[c] \in {None, artifact_info[c]}
    <2>1. CASE SaveOpen(h) \/ SaveWrite(h) \/ ChunksReady(h)
      BY <1>1, <2>1 DEF SaveOpen, SaveWrite, ChunksReady, tableVars
    <2>2. CASE MergeOpen(h) \/ MergeCopy(h)
      BY <1>1, <2>2 DEF MergeOpen, MergeCopy, tableVars
    <2>3. CASE UploadBig(h) \/ Cleanup(h)
      BY <1>1, <2>3 DEF UploadBig, Cleanup, tableVars
    <2> QED BY <1>5, <2>1, <2>2, <2>3 DEF ChunkStep
  <1>6. CASE Crash
    BY <1>1, <1>6 DEF Crash
  <1>7. CASE (\E t \in Tasks : FindExpired(t)) \/ RmExpired
    BY <1>1, <1>7 DEF FindExpired, RmExpired, storeVars, tableVars
  <1>8. CASE UNCHANGED vars
    BY <1>1, <1>8 DEF vars, storeVars
  <1> QED BY <1>4, <1>5, <1>6, <1>7, <1>8 DEF Next

(***************************************************************************)
(* A published coordinate is never rebound: CreateArtifact inserts only    *)
(* where there is no row, so a row may be deleted but never changes its    *)
(* checksum or file in place, whatever requests race.                      *)
(***************************************************************************)
THEOREM StoreCoordinateImmutable == Spec => CoordinateImmutable
  <1>1. IInv /\ [Next]_vars =>
          [\A c \in Coords : artifact_info[c] # None =>
             artifact_info'[c] \in {None, artifact_info[c]}]_vars
    BY CoordinateStep DEF IInv
  <1> QED BY <1>1, AlwaysIInv, PTL DEF Spec, CoordinateImmutable
=============================================================================
