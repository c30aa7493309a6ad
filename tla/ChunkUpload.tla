---------------------------- MODULE ChunkUpload ----------------------------
(***************************************************************************)
(* The chunked upload: ChunkUploadServlet and ChunkManager over the task   *)
(* directory <tmp>/<project>/<checksum>, composed with the rest of the     *)
(* artifact store.  Chunks are files named by their number; the merged     *)
(* file is written beside them under the name of the checksum.  The        *)
(* cleaner, a recurring timer, removes files that are too old.             *)
(***************************************************************************)
EXTENDS ArtifactStore, FiniteSetsExt, SequencesExt

CONSTANTS TotalChunks,    \* total_chunks of every chunked upload
          LeadingNumber,  \* the number std::stoi reads from the name of a
                          \* merged file: its checksum's leading digits, or
                          \* None when it starts with a letter
          MaxExpired      \* bound: files the cleaner finds expired

ASSUME ChunkAssumption ==
  TotalChunks \in Nat \ {0} /\ LeadingNumber \in Nat \cup {None}

Chunks == 0 .. TotalChunks - 1
Merged == TotalChunks     \* the name of the merged file
Whole == [i \in 1 .. TotalChunks |-> i - 1]

VARIABLES dir,       \* task -> its files, the oldest first
          expired,   \* the file the cleaner is about to remove, or None
          cleaned    \* files found expired so far

vars == <<storeVars, dir, expired, cleaned>>
fileVars == <<dir, expired, cleaned>>
tableVars == <<artifact_info, file_info, file_shared, blobs, started, faults>>

Tasks == {<<c.owner, m>> : c \in Coords, m \in Md5s}
Task(h) == <<req[h].c.owner, req[h].md5>>

Init == /\ StoreInit
        /\ dir = [t \in Tasks |-> <<>>]
        /\ expired = None
        /\ cleaned = 0

Names(t) == {dir[t][i].name : i \in DOMAIN dir[t]}
Content(t, n) == (CHOOSE f \in Range(dir[t]) : f.name = n).content

\* The files but the one called n; names are unique.
Without(files, n) ==
  LET named == {i \in DOMAIN files : files[i].name = n}
  IN IF named = {} THEN files ELSE RemoveAt(files, CHOOSE i \in named : TRUE)

\* Truncating or writing a file makes it the youngest of its directory.
WriteFile(t, n, content) ==
  dir' = [dir EXCEPT ![t] = Append(Without(@, n), [name |-> n, content |-> content])]
RemoveFile(t, n) == dir' = [dir EXCEPT ![t] = Without(@, n)]

\* Mutant of GetIndices: the indices are left in directory order.
GetIndicesUnsorted(t) ==
  SelectSeq([i \in DOMAIN dir[t] |-> dir[t][i].name],
            LAMBDA n : n \in Chunks)

\* The numbers of S as std::sort leaves them: k-th is the one above k - 1 others.
InOrder(S) ==
  [k \in 1 .. Cardinality(S) |->
     CHOOSE j \in S : Cardinality({i \in S : i < j}) = k - 1]

(***************************************************************************)
(* FSUtil::GetIndices: the names that start with a number, in order.  The  *)
(* merged file is one of them when its checksum starts with a digit.       *)
(***************************************************************************)
GetIndices(t) ==
  LET chunks == Names(t) \cap Chunks
      below == {n \in chunks : n < LeadingNumber}
  IN IF Merged \notin Names(t) \/ LeadingNumber = None THEN InOrder(chunks)
     ELSE InOrder(below) \o <<LeadingNumber>> \o InOrder(chunks \ below)

----------------------------------------------------------------------------
(***************************************************************************)
(* saveChunkContent opens the chunk's file, truncating it; saveChunk       *)
(* removes it before it renames the uploaded file to it.                   *)
(***************************************************************************)
SaveOpen(h) ==
  /\ At(h, "unchecked") /\ req[h].op = "chunk"
  /\ \/ WriteFile(Task(h), req[h].index, <<>>) /\ Goto(h, "write")
     \/ RemoveFile(Task(h), req[h].index) /\ Goto(h, "rename")
  /\ UNCHANGED <<tableVars, disturbed, expired, cleaned>>

(***************************************************************************)
(* The chunk's bytes reach the file.  A file that was removed after it was *)
(* opened is written without a name.                                       *)
(***************************************************************************)
SaveWrite(h) ==
  /\ req[h].pc \in {"write", "rename"}
  /\ LET r == req[h]
     IN IF At(h, "write") /\ r.index \notin Names(Task(h)) THEN UNCHANGED dir
        ELSE WriteFile(Task(h), r.index, <<r.index>>)
  /\ Goto(h, "ready")
  /\ UNCHANGED <<tableVars, disturbed, expired, cleaned>>

(***************************************************************************)
(* isAllChunksReady counts the indices.                                    *)
(***************************************************************************)
ChunksReady(h) ==
  /\ At(h, "ready")
  /\ IF Len(GetIndices(Task(h))) = TotalChunks THEN Goto(h, "merge")
     ELSE Answer(h)
  /\ UNCHANGED <<tableVars, disturbed, fileVars>>

(***************************************************************************)
(* mergeChunks lists and counts the indices again, and MergeFiles opens    *)
(* the merged file, truncating it.                                         *)
(***************************************************************************)
MergeOpen(h) ==
  /\ At(h, "merge")
  /\ LET t == Task(h)
     IN IF Len(GetIndices(t)) # TotalChunks THEN Answer(h) /\ UNCHANGED dir
        ELSE /\ req' = [req EXCEPT ![h].pc = "copy",
                                   ![h].indices = GetIndices(t)]
             /\ WriteFile(t, Merged, <<>>)
  /\ UNCHANGED <<tableVars, disturbed, expired, cleaned>>

(***************************************************************************)
(* MergeFiles copies the listed files; a file that cannot be opened ends   *)
(* it, and the merged file is left incomplete.                             *)
(***************************************************************************)
MergeCopy(h) ==
  /\ At(h, "copy")
  /\ LET t == Task(h)
         list == req[h].indices
         copied == FlattenSeq([i \in DOMAIN list |-> Content(t, list[i])])
     IN IF ~ Range(list) \subseteq Names(t) \cap Chunks
          THEN Answer(h) /\ UNCHANGED dir
        ELSE /\ IF Merged \in Names(t) THEN WriteFile(t, Merged, copied)
                ELSE UNCHANGED dir
             /\ Goto(h, "upload")
  /\ UNCHANGED <<tableVars, disturbed, expired, cleaned>>

(***************************************************************************)
(* uploadBigFile sends what the merged file holds by now.                  *)
(***************************************************************************)
UploadBig(h) ==
  /\ At(h, "upload")
  /\ IF Merged \in Names(Task(h))
       THEN Upload(h, Content(Task(h), Merged))
     ELSE Answer(h) /\ UNCHANGED blobs
  /\ UNCHANGED <<artifact_info, file_info, file_shared, started, faults,
                 disturbed, fileVars>>

(***************************************************************************)
(* The records are committed: Rm(buildTaskPath()).                         *)
(***************************************************************************)
Cleanup(h) ==
  /\ At(h, "cleanup")
  /\ dir' = [dir EXCEPT ![Task(h)] = <<>>]
  /\ Answer(h)
  /\ UNCHANGED <<tableVars, disturbed, expired, cleaned>>

----------------------------------------------------------------------------
(***************************************************************************)
(* cleanTask finds a file older than last_time, so the oldest first, and   *)
(* then removes it by its name, also when it was written again meanwhile.  *)
(* Removing a file under a running request disturbs the checksum.          *)
(***************************************************************************)
FindExpired(t) ==
  /\ expired = None
  /\ dir[t] # <<>>
  /\ cleaned < MaxExpired
  /\ cleaned' = cleaned + 1
  /\ expired' = <<t, Head(dir[t]).name>>
  /\ UNCHANGED <<storeVars, dir>>

RmExpired ==
  /\ expired # None
  /\ RemoveFile(expired[1], expired[2])
  /\ expired' = None
  /\ disturbed' = disturbed \cup
       {m \in {expired[1][2]} :
          \E h \in Handlers : req[h].op = "chunk" /\ Task(h) = expired[1]}
  /\ UNCHANGED <<tableVars, req, cleaned>>

----------------------------------------------------------------------------
Arrive(h) ==
  \/ \E c \in Coords, m \in Md5s, mode \in Modes, op \in {"precheck", "direct"} :
        Start(h, op, c, m, mode, 0)
  \/ \E c \in Coords, m \in Md5s, mode \in Modes, i \in Chunks :
        Start(h, "chunk", c, m, mode, i)
  \/ \E c \in Coords : Start(h, "delete", c, None, TRUE, 0)

StoreStep(h) ==
  /\ \/ Arrive(h) \/ CoordinateCheck(h)
     \/ PrecheckOwned(h) \/ PrecheckOwnedId(h)
     \/ PrecheckShared(h) \/ PrecheckSharedId(h) \/ PrecheckShare(h)
     \/ CreateArtifactCheck(h) \/ CreateArtifactInsert(h)
     \/ DirectUpload(h, Whole) \/ Publish(h)
     \/ DeleteFind(h) \/ DeleteArtifact(h) \/ DeleteFileRecord(h)
     \/ DecrementRef(h) \/ ReadRef(h) \/ DeleteShared(h) \/ DeletePhysical(h)
     \/ Fail(h) \/ QueryFails(h)
  /\ UNCHANGED fileVars

ChunkStep(h) ==
  \/ SaveOpen(h) \/ SaveWrite(h) \/ ChunksReady(h)
  \/ MergeOpen(h) \/ MergeCopy(h) \/ UploadBig(h) \/ Cleanup(h)

Next ==
  \/ \E h \in Handlers : StoreStep(h) \/ ChunkStep(h)
  \/ Crash /\ UNCHANGED fileVars
  \/ \E t \in Tasks : FindExpired(t)
  \/ RmExpired

Spec == Init /\ [][Next]_vars

----------------------------------------------------------------------------
FileIds == 0 .. MaxBlobs

(***************************************************************************)
(* Types of the tables, the blobs, the requests and the task directories.  *)
(***************************************************************************)
TypeOK ==
  /\ artifact_info \in [Coords -> [checksum : Md5s, file_id : FileIds]
                                  \cup {None}]
  /\ file_info \subseteq [owner : {c.owner : c \in Coords},
                          filename : {BuildStorageName(c) : c \in Coords},
                          md5 : Md5s]
  /\ \A m \in Md5s : \/ file_shared[m] = None
                     \/ /\ file_shared[m].file_id \in 1 .. Len(blobs)
                        /\ file_shared[m].ref_count \in 0 .. MaxRequests
  /\ Len(blobs) \in FileIds
  /\ \A h \in Handlers : req[h].md5 \in Md5s \cup {None}
  /\ \A t \in Tasks : Names(t) \subseteq 0 .. TotalChunks
  /\ disturbed \subseteq Md5s

(***************************************************************************)
(* A file_shared record always names a blob that is still in FastDFS and   *)
(* was uploaded for that checksum, however uploads, instant uploads,       *)
(* deletes, failures and crashes interleave: the row goes before the file  *)
(* (deletefile_servlet.cpp 88-111).  This is about the rows only: an       *)
(* instant upload that read the file_id before its transaction             *)
(* (upload_servlet.cpp 113) may still publish the one of an erased file.   *)
(***************************************************************************)
SharedAlive ==
  \A m \in Md5s : file_shared[m] # None =>
    LET b == blobs[file_shared[m].file_id] IN b.live /\ b.md5 = m

(***************************************************************************)
(* For a checksum that no overlapping request, fault, second artifact of   *)
(* the same project or shared storage name disturbed, and that no request  *)
(* works on: ref_count is the number of file_info rows, and every artifact *)
(* row with the checksum names the shared blob.  Deleting one project's    *)
(* artifact then never takes the file of another.                          *)
(***************************************************************************)
Balanced ==
  \A m \in Md5s \ disturbed :
    (\A h \in Handlers : req[h].md5 # m) =>
      /\ Cardinality({f \in file_info : f.md5 = m}) =
           IF file_shared[m] = None THEN 0 ELSE file_shared[m].ref_count
      /\ \A c \in Coords :
           artifact_info[c] # None /\ artifact_info[c].checksum = m =>
             /\ file_shared[m] # None
             /\ artifact_info[c].file_id = file_shared[m].file_id

(***************************************************************************)
(* A blob uploaded for an undisturbed checksum holds every chunk once and  *)
(* in order, whatever chunks were sent again, expired or left behind by an *)
(* upload that lost the race for the shared record.                        *)
(***************************************************************************)
WholeBlobs ==
  \A b \in DOMAIN blobs :
    blobs[b].md5 \notin disturbed => blobs[b].content = Whole

(***************************************************************************)
(* A published coordinate is never rebound: its row may be deleted, but    *)
(* never changes its checksum or file in place, whatever races             *)
(* (the comment in CreateArtifact: a coordinate is immutable).             *)
(***************************************************************************)
CoordinateImmutable ==
  [][\A c \in Coords : artifact_info[c] # None =>
       artifact_info'[c] \in {None, artifact_info[c]}]_vars

(***************************************************************************)
(* Every artifact row names a blob that is still in FastDFS: the comment   *)
(* at deletefile_servlet.cpp:81 has the physical file removed only when    *)
(* nothing refers to it any more.                                          *)
(***************************************************************************)
NoDangling ==
  \A c \in Coords : artifact_info[c] # None =>
    artifact_info[c].file_id \in {b \in DOMAIN blobs : blobs[b].live}
============================================================================
