--------------------------- MODULE ArtifactStore ---------------------------
(***************************************************************************)
(* The artifact store behind the upload and delete servlets: the MySQL     *)
(* tables artifact_info, file_info and file_shared, the FastDFS blobs, and *)
(* the requests that change them.  Every SQL statement outside a           *)
(* transaction is one step; requests interleave between the steps.         *)
(*                                                                         *)
(* EnsureArtifactTable() sends CREATE TABLE IF NOT EXISTS before each      *)
(* statement on artifact_info.  MySQL ends the open transaction at such a  *)
(* statement (an implicit commit) and goes on in autocommit mode.  What a  *)
(* transaction did before its first artifact_info call is therefore        *)
(* committed there, and a later rollback() undoes nothing.                 *)
(*                                                                         *)
(* The module leaves the chunked upload to ChunkUpload, which adds its     *)
(* steps to the ones below and closes the specification.                   *)
(***************************************************************************)
EXTENDS Naturals, FiniteSets, Sequences

CONSTANTS Handlers,     \* requests that may be handled at the same time
          Coords,       \* artifact coordinates, see Coordinate
          Md5s,         \* checksums
          Modes,        \* values of ArtifactMetadata::artifact_mode
          MaxRequests,  \* bound: requests started
          MaxBlobs,     \* bound: uploads to FastDFS
          MaxFaults,    \* bound: failing statements, uploads and crashes
          None          \* no row, no request

(***************************************************************************)
(* project_name, version, build_no and artifact_name; "" is the empty      *)
(* version or build.                                                       *)
(***************************************************************************)
Coordinate == [owner : STRING, version : STRING, build : STRING, name : STRING]

ASSUME CoordsAssumption == Coords \subseteq Coordinate
ASSUME ModesAssumption == Modes \subseteq BOOLEAN
ASSUME NoneAssumption ==
  None \notin Md5s \cup [file_id : Nat, ref_count : Nat]
                    \cup [checksum : Md5s, file_id : Nat]
ASSUME BoundsAssumption ==
  IsFiniteSet(Handlers) /\ {MaxRequests, MaxBlobs, MaxFaults} \subseteq Nat

NoId == 0               \* the empty file_id

VARIABLES artifact_info,  \* coordinate -> row or None (unique key)
          file_info,      \* rows; no statement tells equal rows apart
          file_shared,    \* checksum -> row or None (unique key)
          blobs,          \* FastDFS, in upload order; file_id = position
          req,            \* what each handler is doing
          started,        \* requests so far
          faults,         \* faults so far
          disturbed       \* checksums whose bookkeeping met one of the
                          \* cases that Balanced excludes

storeVars == <<artifact_info, file_info, file_shared, blobs, req, started,
               faults, disturbed>>

(***************************************************************************)
(* ArtifactMetadata::BuildStorageName: the build number is dropped when    *)
(* the version is empty, so different coordinates may share a name.        *)
(***************************************************************************)
BuildStorageName(c) == IF c.version = "" THEN <<c.name>>
                       ELSE IF c.build = "" THEN <<c.version, c.name>>
                       ELSE <<c.version, c.build, c.name>>

Idle == [pc |-> "idle", op |-> None, c |-> None, md5 |-> None, mode |-> TRUE,
         id |-> NoId, index |-> 0, indices |-> <<>>]

StoreInit ==
  /\ artifact_info = [c \in Coords |-> None]
  /\ file_info = {}
  /\ file_shared = [m \in Md5s |-> None]
  /\ blobs = <<>>
  /\ req = [h \in Handlers |-> Idle]
  /\ started = 0
  /\ faults = 0
  /\ disturbed = {}

----------------------------------------------------------------------------
(***************************************************************************)
(* Requests that meet.  `disturbed' is a history variable: it changes no   *)
(* step, and collects the checksums that requests or faults disturbed.     *)
(***************************************************************************)

Busy(h) == req[h].pc # "idle"

(***************************************************************************)
(* The checksums involved when handler h works on coordinate c and         *)
(* checksum m while others work on one of them.                            *)
(***************************************************************************)
Meets(h, c, m) ==
  LET others == {g \in Handlers \ {h} :
                   Busy(g) /\ (req[g].c = c \/ req[g].md5 = m)}
  IN IF others = {} THEN {}
     ELSE ({m} \cup {req[g].md5 : g \in others}) \cap Md5s

At(h, pc) == req[h].pc = pc
Goto(h, pc) == req' = [req EXCEPT ![h].pc = pc]
Answer(h) == req' = [req EXCEPT ![h] = Idle]

\* The records are there: a chunked upload goes on to remove its chunks.
Done(h) == IF req[h].op = "chunk" THEN Goto(h, "cleanup") ELSE Answer(h)

(***************************************************************************)
(* A request arrives: op, coordinate and, unless it deletes, a checksum.   *)
(***************************************************************************)
Start(h, op, c, m, mode, i) ==
  /\ ~Busy(h)
  /\ started < MaxRequests
  /\ started' = started + 1
  /\ req' = [req EXCEPT ![h] =
               [pc |-> IF op = "delete" THEN "find"
                       ELSE IF mode THEN "check" ELSE "unchecked",
                op |-> op, c |-> c, md5 |-> m, mode |-> mode,
                id |-> NoId, index |-> i, indices |-> <<>>]]
  /\ disturbed' = disturbed \cup Meets(h, c, m)
  /\ UNCHANGED <<artifact_info, file_info, file_shared, blobs, faults>>

(***************************************************************************)
(* GetArtifact at the start of precheck and of the two uploads: an         *)
(* existing coordinate ends the request, whatever its checksum.            *)
(***************************************************************************)
CoordinateCheck(h) ==
  /\ At(h, "check")
  /\ IF artifact_info[req[h].c] # None THEN Answer(h)
     ELSE Goto(h, "unchecked")
  /\ UNCHANGED <<artifact_info, file_info, file_shared, blobs, started,
                 faults, disturbed>>

----------------------------------------------------------------------------
(***************************************************************************)
(* UploadServlet::handle, the precheck.                                    *)
(***************************************************************************)

(***************************************************************************)
(* ExistsByMd5AndUser.  A checksum the project already has is answered by  *)
(* a further artifact row, without a reference of its own.                 *)
(***************************************************************************)
PrecheckOwned(h) ==
  /\ At(h, "unchecked") /\ req[h].op = "precheck"
  /\ LET r == req[h]
         owned == \E f \in file_info : f.owner = r.c.owner /\ f.md5 = r.md5
     IN IF ~owned
          THEN Goto(h, "shared") /\ UNCHANGED disturbed
        ELSE IF r.mode
          THEN Goto(h, "ownedId") /\ disturbed' = disturbed \cup {r.md5}
        ELSE Answer(h) /\ UNCHANGED disturbed
  /\ UNCHANGED <<artifact_info, file_info, file_shared, blobs, started, faults>>

(***************************************************************************)
(* GetFileIdByMd5 for the owned file: an empty file_id fails the request.  *)
(***************************************************************************)
PrecheckOwnedId(h) ==
  /\ At(h, "ownedId")
  /\ LET s == file_shared[req[h].md5]
     IN IF s = None THEN Answer(h)
        ELSE req' = [req EXCEPT ![h].pc = "artifact", ![h].id = s.file_id]
  /\ UNCHANGED <<artifact_info, file_info, file_shared, blobs, started,
                 faults, disturbed>>

(***************************************************************************)
(* ExistsByMd5: an unknown checksum is answered with "direct" or "chunk".  *)
(***************************************************************************)
PrecheckShared(h) ==
  /\ At(h, "shared")
  /\ IF file_shared[req[h].md5] = None THEN Answer(h) ELSE Goto(h, "sharedId")
  /\ UNCHANGED <<artifact_info, file_info, file_shared, blobs, started,
                 faults, disturbed>>

(***************************************************************************)
(* GetFileIdByMd5, before the transaction starts: the row may have gone,   *)
(* and the empty file_id is then used.                                     *)
(***************************************************************************)
PrecheckSharedId(h) ==
  /\ At(h, "sharedId")
  /\ LET s == file_shared[req[h].md5]
     IN req' = [req EXCEPT ![h].pc = "share",
                           ![h].id = IF s = None THEN NoId ELSE s.file_id]
  /\ UNCHANGED <<artifact_info, file_info, file_shared, blobs, started,
                 faults, disturbed>>

FileRow(r) == [owner |-> r.c.owner, filename |-> BuildStorageName(r.c),
               md5 |-> r.md5]

(***************************************************************************)
(* INSERT INTO file_info.  A second row of the same owner and filename     *)
(* disturbs the checksums of both: a delete removes the two together.      *)
(***************************************************************************)
CreateFile(r) ==
  LET same == {f \in file_info : /\ f.owner = r.c.owner
                                 /\ f.filename = BuildStorageName(r.c)}
  IN /\ file_info' = file_info \cup {FileRow(r)}
     /\ disturbed' = disturbed \cup
          (IF same = {} THEN {} ELSE {f.md5 : f \in same} \cup {r.md5})

\* Mutant of PrecheckShare: the reference of the new project is not counted.
PrecheckShareNoRef(h) ==
  /\ At(h, "share")
  /\ CreateFile(req[h])
  /\ IF req[h].mode THEN Goto(h, "artifact") ELSE Done(h)
  /\ UNCHANGED <<artifact_info, file_shared, blobs, started, faults>>

(***************************************************************************)
(* The transaction of the cross-project instant upload up to its commit:   *)
(* IncrementRef, true also when no row has the checksum, and CreateFile.   *)
(***************************************************************************)
PrecheckShare(h) ==
  /\ At(h, "share")
  /\ LET r == req[h]
     IN /\ file_shared' =
             IF file_shared[r.md5] = None THEN file_shared
             ELSE [file_shared EXCEPT ![r.md5].ref_count = @ + 1]
        /\ CreateFile(r)
        /\ IF r.mode THEN Goto(h, "artifact") ELSE Done(h)
  /\ UNCHANGED <<artifact_info, blobs, started, faults>>

(***************************************************************************)
(* CreateArtifact, first statement: a coordinate that exists by now is     *)
(* accepted with the same checksum and refused with another.               *)
(***************************************************************************)
CreateArtifactCheck(h) ==
  /\ At(h, "artifact")
  /\ LET r == req[h]
         row == artifact_info[r.c]
     IN IF row = None THEN Goto(h, "insert")
        ELSE IF row.checksum = r.md5 THEN Done(h) ELSE Answer(h)
  /\ UNCHANGED <<artifact_info, file_info, file_shared, blobs, started,
                 faults, disturbed>>

\* Mutant of CreateArtifactInsert: the row replaces the one of a racing request.
CreateArtifactInsertReplace(h) ==
  /\ At(h, "insert")
  /\ LET r == req[h]
     IN /\ artifact_info' = [artifact_info EXCEPT ![r.c] =
             [checksum |-> r.md5, file_id |-> r.id]]
        /\ Done(h)
  /\ UNCHANGED <<file_info, file_shared, blobs, started, faults, disturbed>>

(***************************************************************************)
(* CreateArtifact, the INSERT: the unique key refuses a coordinate that    *)
(* another request inserted meanwhile.                                     *)
(***************************************************************************)
CreateArtifactInsert(h) ==
  /\ At(h, "insert")
  /\ LET r == req[h]
     IN IF artifact_info[r.c] # None
          THEN Answer(h) /\ UNCHANGED artifact_info
        ELSE /\ artifact_info' = [artifact_info EXCEPT ![r.c] =
                  [checksum |-> r.md5, file_id |-> r.id]]
             /\ Done(h)
  /\ UNCHANGED <<file_info, file_shared, blobs, started, faults, disturbed>>

----------------------------------------------------------------------------
(***************************************************************************)
(* DirUploadServlet::handle, and the transaction it shares with the        *)
(* chunked upload.                                                         *)
(***************************************************************************)

\* Mutant of Upload: the identifier of the previous blob is kept.
UploadOff(h, content) ==
  /\ Len(blobs) < MaxBlobs
  /\ blobs' = Append(blobs, [md5 |-> req[h].md5, content |-> content,
                             live |-> TRUE])
  /\ req' = [req EXCEPT ![h].pc = "publish", ![h].id = Len(blobs)]

(***************************************************************************)
(* FastDFSUtil::uploadSmallFile or uploadBigFile: a new blob with the      *)
(* given content (a sequence of chunk numbers).                            *)
(***************************************************************************)
Upload(h, content) ==
  /\ Len(blobs) < MaxBlobs
  /\ blobs' = Append(blobs, [md5 |-> req[h].md5, content |-> content,
                             live |-> TRUE])
  /\ req' = [req EXCEPT ![h].pc = "publish", ![h].id = Len(blobs) + 1]

(***************************************************************************)
(* A direct upload sends the whole body.                                   *)
(***************************************************************************)
DirectUpload(h, whole) ==
  /\ At(h, "unchecked") /\ req[h].op = "direct"
  /\ Upload(h, whole)
  /\ UNCHANGED <<artifact_info, file_info, file_shared, started, faults,
                 disturbed>>

(***************************************************************************)
(* The transaction up to its commit: CreateFile and CreateShared.  A       *)
(* checksum that is shared by now fails the INSERT and both are undone;    *)
(* the blob stays.                                                         *)
(***************************************************************************)
Publish(h) ==
  /\ At(h, "publish")
  /\ LET r == req[h]
     IN IF file_shared[r.md5] # None
          THEN Answer(h) /\ UNCHANGED <<file_info, file_shared, disturbed>>
        ELSE /\ CreateFile(r)
             /\ file_shared' = [file_shared EXCEPT ![r.md5] =
                  [file_id |-> r.id, ref_count |-> 1]]
             /\ IF r.mode THEN Goto(h, "artifact") ELSE Done(h)
  /\ UNCHANGED <<artifact_info, blobs, started, faults>>

----------------------------------------------------------------------------
(***************************************************************************)
(* DeleteFileServlet::handle.                                              *)
(***************************************************************************)

(***************************************************************************)
(* GetArtifact, before the transaction.                                    *)
(***************************************************************************)
DeleteFind(h) ==
  /\ At(h, "find")
  /\ LET r == req[h]
         row == artifact_info[r.c]
     IN IF row = None THEN Answer(h) /\ UNCHANGED disturbed
        ELSE /\ req' = [req EXCEPT ![h].pc = "unlist",
                                   ![h].md5 = row.checksum,
                                   ![h].id = row.file_id]
             /\ disturbed' = disturbed \cup Meets(h, r.c, row.checksum)
  /\ UNCHANGED <<artifact_info, file_info, file_shared, blobs, started, faults>>

(***************************************************************************)
(* DeleteArtifact: true also when another request removed the row.         *)
(***************************************************************************)
DeleteArtifact(h) ==
  /\ At(h, "unlist")
  /\ artifact_info' = [artifact_info EXCEPT ![req[h].c] = None]
  /\ Goto(h, "unfile")
  /\ UNCHANGED <<file_info, file_shared, blobs, started, faults, disturbed>>

(***************************************************************************)
(* DeleteFileRecordByUserAndFilename: every row of owner and filename.     *)
(* Another coordinate may have the filename: its checksum is disturbed.    *)
(***************************************************************************)
DeleteFileRecord(h) ==
  /\ At(h, "unfile")
  /\ LET gone == {f \in file_info : /\ f.owner = req[h].c.owner
                                    /\ f.filename = BuildStorageName(req[h].c)}
     IN /\ file_info' = file_info \ gone
        /\ disturbed' = disturbed \cup ({f.md5 : f \in gone} \ {req[h].md5})
  /\ Goto(h, "release")
  /\ UNCHANGED <<artifact_info, file_shared, blobs, started, faults>>

(***************************************************************************)
(* DecrementRef, the UPDATE ... AND ref_count > 0.                         *)
(***************************************************************************)
DecrementRef(h) ==
  /\ At(h, "release")
  /\ LET m == req[h].md5
     IN file_shared' =
          IF file_shared[m] # None /\ file_shared[m].ref_count > 0
          THEN [file_shared EXCEPT ![m].ref_count = @ - 1]
          ELSE file_shared
  /\ Goto(h, "count")
  /\ UNCHANGED <<artifact_info, file_info, blobs, started, faults, disturbed>>

\* Mutant of ReadRef: the shared record is left when the count is zero.
ReadRefKeepRecord(h) ==
  /\ At(h, "count")
  /\ LET s == file_shared[req[h].md5]
     IN IF s # None /\ s.ref_count = 0 THEN Goto(h, "erase") ELSE Answer(h)
  /\ UNCHANGED <<artifact_info, file_info, file_shared, blobs, started,
                 faults, disturbed>>

(***************************************************************************)
(* DecrementRef, the SELECT: no row ends the request with an error, a      *)
(* positive count ends it with success.                                    *)
(***************************************************************************)
ReadRef(h) ==
  /\ At(h, "count")
  /\ LET s == file_shared[req[h].md5]
     IN IF s # None /\ s.ref_count = 0 THEN Goto(h, "unshare") ELSE Answer(h)
  /\ UNCHANGED <<artifact_info, file_info, file_shared, blobs, started,
                 faults, disturbed>>

(***************************************************************************)
(* DeleteShared, whatever the count is by now.                             *)
(***************************************************************************)
DeleteShared(h) ==
  /\ At(h, "unshare")
  /\ file_shared' = [file_shared EXCEPT ![req[h].md5] = None]
  /\ Goto(h, "erase")
  /\ UNCHANGED <<artifact_info, file_info, blobs, started, faults, disturbed>>

(***************************************************************************)
(* FastDFSUtil::deleteFile of the file_id the artifact row named, after    *)
(* the commit; the answer does not depend on its result.                   *)
(***************************************************************************)
DeletePhysical(h) ==
  /\ At(h, "erase")
  /\ blobs' = IF req[h].id = NoId THEN blobs
              ELSE [blobs EXCEPT ![req[h].id].live = FALSE]
  /\ Answer(h)
  /\ UNCHANGED <<artifact_info, file_info, file_shared, started, faults,
                 disturbed>>

----------------------------------------------------------------------------
(***************************************************************************)
(* The current statement, upload or file operation of h fails and the      *)
(* request is answered with an error; what it did before stays done.       *)
(***************************************************************************)
Fail(h) ==
  /\ Busy(h)
  /\ faults < MaxFaults
  /\ faults' = faults + 1
  /\ disturbed' = disturbed \cup ({req[h].md5} \cap Md5s)
  /\ Answer(h)
  /\ UNCHANGED <<artifact_info, file_info, file_shared, blobs, started>>

(***************************************************************************)
(* A SELECT fails: GetArtifact, ExistsByMd5AndUser and GetFileIdByMd5      *)
(* then answer as if there were no row, and the request goes on.           *)
(***************************************************************************)
QueryFails(h) ==
  /\ \/ At(h, "check") /\ Goto(h, "unchecked")
     \/ At(h, "unchecked") /\ req[h].op = "precheck" /\ Goto(h, "shared")
     \/ At(h, "sharedId") /\ Goto(h, "share")
     \/ At(h, "artifact") /\ Goto(h, "insert")
  /\ faults < MaxFaults
  /\ faults' = faults + 1
  /\ disturbed' = disturbed \cup {req[h].md5}
  /\ UNCHANGED <<artifact_info, file_info, file_shared, blobs, started>>

(***************************************************************************)
(* The server dies and restarts.  deleteFile() with no FastDFS connection  *)
(* is one cause: the pool returns a null pointer, which is dereferenced.   *)
(***************************************************************************)
Crash ==
  /\ \E h \in Handlers : Busy(h)
  /\ faults < MaxFaults
  /\ faults' = faults + 1
  /\ disturbed' = disturbed \cup ({req[h].md5 : h \in Handlers} \cap Md5s)
  /\ req' = [h \in Handlers |-> Idle]
  /\ UNCHANGED <<artifact_info, file_info, file_shared, blobs, started>>
============================================================================
