------------------------- MODULE StoreBalanceProofs -------------------------
(***************************************************************************)
(* Proofs of Balanced and WholeBlobs, for any number of handlers,          *)
(* coordinates, checksums and chunks.                                      *)
(*                                                                         *)
(* Balanced speaks of a checksum nobody works on.  The invariant says for  *)
(* an undisturbed checksum what holds while its one request is under way:  *)
(* what the request has read is still so (WorkerOK), a delete that removed *)
(* its row owes one reference (CountOK), and every artifact row has a row  *)
(* of file_info to itself, whose name no other row has (ArtifactsOK,       *)
(* RowsUnique), so that a delete removes exactly one row.                  *)
(***************************************************************************)
EXTENDS ChunkUploadProofs, NaturalsInduction, WellFoundedInduction

----------------------------------------------------------------------------
(* Reference counts *)

\* What the record of checksum m counts: rows of file_info.
Counted(m) == IF file_shared[m] = None THEN 0 ELSE file_shared[m].ref_count
Rows(m) == {f \in file_info : f.md5 = m}
\* The artifact rows of m.
Artifacts(m) == {c \in Coords : artifact_info[c] # None /\ artifact_info[c].checksum = m}
\* Coordinates that share a storage name.
Clash(c, d) == c.owner = d.owner /\ BuildStorageName(c) = BuildStorageName(d)
\* Coordinate c has a row of m.
Named(c, m) == \E f \in Rows(m) : f.owner = c.owner /\ f.filename = BuildStorageName(c)

\* One request at a time works on m.
Solo(m) == \A h, g \in Handlers : req[h].md5 = m /\ req[g].md5 = m => h = g

\* No other row of file_info has the name of a row of m.
RowsUnique(m) ==
  \A f \in Rows(m), e \in file_info : e.owner = f.owner /\ e.filename = f.filename => e = f

\* A delete that has removed its row has yet to take its reference back.
Releasing(m) == \E h \in Handlers : req[h].md5 = m /\ req[h].pc = "release"
CountOK(m) == Counted(m) = Cardinality(Rows(m)) + (IF Releasing(m) THEN 1 ELSE 0)

\* Every artifact of m names the shared blob and has a row of its own.
ArtifactsOK(m) ==
  \A c \in Artifacts(m) :
    /\ file_shared[m] # None /\ artifact_info[c].file_id = file_shared[m].file_id
    /\ Named(c, m)
    /\ \A d \in Artifacts(m) : Clash(c, d) => c = d

\* What the request of h on checksum m has found or done.
WorkerOK(m, h) ==
  /\ req[h].pc # "ownedId"
  /\ req[h].pc = "sharedId" => file_shared[m] # None
  /\ req[h].pc \in {"share", "artifact", "insert"} =>
       file_shared[m] # None /\ req[h].id = file_shared[m].file_id
  /\ req[h].pc \in {"artifact", "insert", "unlist", "unfile"} => Named(req[h].c, m)
  /\ req[h].pc \in {"artifact", "insert", "unfile"} =>
       \A d \in Artifacts(m) : ~ Clash(req[h].c, d)
  /\ req[h].pc = "unlist" => \A d \in Artifacts(m) : Clash(req[h].c, d) => req[h].c = d
  /\ req[h].pc = "unshare" => Counted(m) = 0

BalanceOf(m) ==
  /\ Solo(m) /\ RowsUnique(m) /\ CountOK(m) /\ ArtifactsOK(m)
  /\ \A h \in Handlers : req[h].md5 = m => WorkerOK(m, h)

\* Where a request has no checksum yet.
Unbound == {"idle", "find"}

BalanceInv ==
  /\ IsFiniteSet(file_info)
  /\ \A h \in Handlers : req[h].pc \in Unbound => req[h].md5 = None
  /\ \A m \in Md5s \ disturbed : BalanceOf(m)

\* The checks of WorkerOK are about these places.
Watched == {"ownedId", "sharedId", "share", "artifact", "insert", "unlist", "unfile", "unshare"}

LEMMA Unwatched ==
  ASSUME NEW m, NEW h, req'[h].pc \notin Watched
  PROVE  WorkerOK(m, h)'
  BY DEF WorkerOK, Watched

\* A step of h that does not touch m: no row of m comes or goes or gets a namesake,
\* and artifacts of m only go.
LEMMA OtherStep ==
  ASSUME NEW m \in Md5s, BalanceOf(m), NEW h \in Handlers, Change(h),
         req[h].md5 # m, req'[h].md5 # m, file_shared'[m] = file_shared[m],
         Rows(m)' = Rows(m),
         \A e \in file_info' \ file_info, f \in Rows(m) :
           ~ (e.owner = f.owner /\ e.filename = f.filename),
         \A c \in Coords : artifact_info'[c] # None /\ artifact_info'[c].checksum = m =>
           artifact_info'[c] = artifact_info[c]
  PROVE  BalanceOf(m)'
  <1>1. \A g \in Handlers : req'[g].md5 = m => g # h /\ req'[g] = req[g]
    BY DEF Change
  <1>2. \A g \in Handlers : req[g].md5 = m => g # h /\ req'[g] = req[g]
    BY DEF Change
  <1>3. Solo(m)'
    BY <1>1 DEF BalanceOf, Solo
  <1>4. RowsUnique(m)'
    BY DEF BalanceOf, RowsUnique
  <1>5. Counted(m)' = Counted(m) /\ Releasing(m)' = Releasing(m)
    BY <1>1, <1>2 DEF Counted, Releasing
  <1>6. CountOK(m)'
    BY <1>5 DEF BalanceOf, CountOK
  <1>7. \A c \in Artifacts(m)' : c \in Artifacts(m) /\ artifact_info'[c] = artifact_info[c]
    BY DEF Artifacts
  <1>8. ArtifactsOK(m)'
    BY <1>7 DEF BalanceOf, ArtifactsOK, Named
  <1>9. ASSUME NEW g \in Handlers, req'[g].md5 = m
        PROVE  WorkerOK(m, g)'
    <2>1. req'[g] = req[g] /\ WorkerOK(m, g)
      BY <1>1, <1>9 DEF BalanceOf
    <2> QED BY <1>5, <1>7, <2>1 DEF WorkerOK, Named
  <1> QED BY <1>3, <1>4, <1>6, <1>8, <1>9 DEF BalanceOf

\* A step of the request that works on m.
LEMMA OwnStep ==
  ASSUME NEW m \in Md5s, BalanceOf(m), NEW h \in Handlers, Change(h), req[h].md5 = m,
         RowsUnique(m)', ArtifactsOK(m)',
         Counted(m)' = Cardinality(Rows(m)') +
           (IF req'[h].md5 = m /\ req'[h].pc = "release" THEN 1 ELSE 0),
         req'[h].md5 = m => WorkerOK(m, h)'
  PROVE  BalanceOf(m)'
  <1>1. \A g \in Handlers : req'[g].md5 = m => g = h
    BY DEF BalanceOf, Solo, Change
  <1>2. Solo(m)'
    BY <1>1 DEF Solo
  <1>3. Releasing(m)' <=> req'[h].md5 = m /\ req'[h].pc = "release"
    BY <1>1 DEF Releasing
  <1>4. CountOK(m)'
    BY <1>3 DEF CountOK
  <1> QED BY <1>1, <1>2, <1>4 DEF BalanceOf

LEMMA SameTables ==
  ASSUME NEW m, UNCHANGED <<artifact_info, file_info, file_shared>>
  PROVE  /\ Rows(m)' = Rows(m) /\ Counted(m)' = Counted(m) /\ Artifacts(m)' = Artifacts(m)
         /\ RowsUnique(m)' = RowsUnique(m) /\ ArtifactsOK(m)' = ArtifactsOK(m)
  BY DEF Rows, Counted, Artifacts, RowsUnique, ArtifactsOK, Named

\* A step of the request on m that leaves the tables alone.
LEMMA OwnQuiet ==
  ASSUME NEW m \in Md5s, BalanceOf(m), NEW h \in Handlers, Change(h), req[h].md5 = m,
         UNCHANGED <<artifact_info, file_info, file_shared>>,
         req[h].pc # "release", req'[h].pc # "release",
         req'[h].md5 = m => WorkerOK(m, h)'
  PROVE  BalanceOf(m)'
  <1>1. RowsUnique(m)' /\ ArtifactsOK(m)'
    BY SameTables DEF BalanceOf
  <1>2. ~ Releasing(m)
    BY DEF BalanceOf, Solo, Releasing
  <1>3. Counted(m)' = Cardinality(Rows(m)') + 0
    BY <1>2, SameTables DEF BalanceOf, CountOK
  <1> QED BY <1>1, <1>3, OwnStep

\* A request starts to work on m, and no other does.
LEMMA JoinStep ==
  ASSUME NEW m \in Md5s, BalanceOf(m), NEW h \in Handlers, Change(h), req'[h].md5 = m,
         \A g \in Handlers \ {h} : req[g].md5 # m, req[h].md5 # m,
         UNCHANGED <<artifact_info, file_info, file_shared>>,
         req'[h].pc # "release", WorkerOK(m, h)'
  PROVE  BalanceOf(m)'
  <1>1. \A g \in Handlers : req'[g].md5 = m => g = h
    BY DEF Change
  <1>2. ~ Releasing(m) /\ ~ Releasing(m)'
    BY <1>1 DEF Releasing
  <1>3. CountOK(m)'
    BY <1>2, SameTables DEF BalanceOf, CountOK
  <1>4. RowsUnique(m)' /\ ArtifactsOK(m)' /\ Solo(m)'
    BY <1>1, SameTables DEF BalanceOf, Solo
  <1> QED BY <1>1, <1>3, <1>4 DEF BalanceOf

\* A step that leaves the tables alone.
LEMMA QuietBalance ==
  ASSUME BalanceInv, NEW h \in Handlers, Change(h),
         UNCHANGED <<artifact_info, file_info, file_shared>>, disturbed \subseteq disturbed',
         req'[h].md5 \in {None, req[h].md5}, req'[h].pc \in Unbound => req'[h].md5 = None,
         \A m \in Md5s \ disturbed' : req[h].md5 = m =>
           /\ req[h].pc # "release" /\ req'[h].pc # "release"
           /\ req'[h].md5 = m => WorkerOK(m, h)'
  PROVE  BalanceInv'
  <1>1. ASSUME NEW m \in Md5s, m \notin disturbed'
        PROVE  BalanceOf(m)'
    <2>1. BalanceOf(m) /\ m # None
      BY <1>1, NoneAssumption DEF BalanceInv
    <2>2. CASE req[h].md5 = m
      BY <1>1, <2>1, <2>2, OwnQuiet
    <2>3. CASE req[h].md5 # m
      <3>1. Rows(m)' = Rows(m)
        BY DEF Rows
      <3> QED BY <2>1, <2>3, <3>1, OtherStep
    <2> QED BY <2>2, <2>3
  <1>2. \A g \in Handlers : req'[g].pc \in Unbound => req'[g].md5 = None
    BY DEF BalanceInv, Change
  <1> QED BY <1>1, <1>2 DEF BalanceInv

LEMMA GotoBalance ==
  ASSUME ReqInv, BalanceInv, NEW h \in Handlers, NEW pc \in (Early \cup Late) \ {"release"},
         Goto(h, pc), req[h].pc \notin {"idle", "find", "release"},
         UNCHANGED <<artifact_info, file_info, file_shared>>, disturbed \subseteq disturbed',
         pc \in Watched =>
           \A m \in Md5s \ disturbed' : req[h].md5 = m => WorkerOK(m, h)'
  PROVE  BalanceInv'
  <1>1. Change(h) /\ req'[h].pc = pc /\ req'[h].md5 = req[h].md5
    BY GotoStep
  <1>2. req'[h].pc \notin Unbound
    BY <1>1 DEF Unbound, Early, Late
  <1>3. \A m \in Md5s \ disturbed' : req[h].md5 = m => WorkerOK(m, h)'
    BY <1>1, Unwatched
  <1> QED BY <1>1, <1>2, <1>3, QuietBalance

LEMMA AnswerBalance ==
  ASSUME ReqInv, BalanceInv, NEW h \in Handlers, Answer(h),
         UNCHANGED <<artifact_info, file_info, file_shared>>, disturbed \subseteq disturbed',
         req[h].pc = "release" => req[h].md5 \in disturbed'
  PROVE  BalanceInv'
  <1>1. Change(h) /\ req'[h].pc = "idle" /\ req'[h].md5 = None
    BY AnswerStep
  <1> QED BY <1>1, NoneAssumption, QuietBalance

LEMMA DoneBalance ==
  ASSUME ReqInv, BalanceInv, NEW h \in Handlers, Done(h),
         req[h].pc \notin {"idle", "find", "release"},
         UNCHANGED <<artifact_info, file_info, file_shared>>, disturbed \subseteq disturbed'
  PROVE  BalanceInv'
  <1>1. CASE req[h].op = "chunk"
    BY <1>1, GotoBalance DEF Done, Late, Watched
  <1>2. CASE req[h].op # "chunk"
    BY <1>2, AnswerBalance DEF Done
  <1> QED BY <1>1, <1>2

\* A checksum the step leaves undisturbed was undisturbed, and its request is
\* where WorkerOK says.
LEMMA Worker ==
  ASSUME BalanceInv, disturbed \subseteq disturbed', NEW h \in Handlers, NEW m \in Md5s,
         m \notin disturbed', req[h].md5 = m
  PROVE  BalanceOf(m) /\ WorkerOK(m, h) /\ m \notin disturbed
  BY DEF BalanceInv, BalanceOf

LEMMA CoordinateCheckBalance ==
  ASSUME IInv, BalanceInv, NEW h \in Handlers, CoordinateCheck(h)
  PROVE  BalanceInv'
  <1>1. /\ req[h].pc = "check" /\ ReqInv /\ disturbed \subseteq disturbed'
        /\ UNCHANGED <<artifact_info, file_info, file_shared>>
    BY DEF CoordinateCheck, At, IInv
  <1>2. CASE Answer(h)
    BY <1>1, <1>2, AnswerBalance
  <1>3. CASE Goto(h, "unchecked")
    BY <1>1, <1>3, GotoBalance DEF Early, Watched
  <1> QED BY <1>2, <1>3 DEF CoordinateCheck

LEMMA PrecheckOwnedBalance ==
  ASSUME IInv, BalanceInv, NEW h \in Handlers, PrecheckOwned(h)
  PROVE  BalanceInv'
  <1>1. /\ req[h].pc = "unchecked" /\ ReqInv /\ disturbed \subseteq disturbed'
        /\ UNCHANGED <<artifact_info, file_info, file_shared>>
    BY DEF PrecheckOwned, At, IInv
  <1>2. CASE Answer(h)
    BY <1>1, <1>2, AnswerBalance
  <1>3. CASE Goto(h, "shared")
    BY <1>1, <1>3, GotoBalance DEF Early, Watched
  <1>4. CASE Goto(h, "ownedId") /\ disturbed' = disturbed \cup {req[h].md5}
    BY <1>1, <1>4, GotoBalance DEF Late
  <1> QED BY <1>2, <1>3, <1>4 DEF PrecheckOwned

\* A checksum that is looked up as owned is disturbed: nothing to show.
LEMMA PrecheckOwnedIdBalance ==
  ASSUME IInv, BalanceInv, NEW h \in Handlers, PrecheckOwnedId(h)
  PROVE  BalanceInv'
  <1>1. /\ req[h].pc = "ownedId" /\ ReqInv /\ disturbed' = disturbed
        /\ UNCHANGED <<artifact_info, file_info, file_shared>>
    BY DEF PrecheckOwnedId, At, IInv
  <1>2. CASE Answer(h)
    BY <1>1, <1>2, AnswerBalance
  <1>3. CASE file_shared[req[h].md5] # None
    <2>1. ReqOK(req[h]) /\ DOMAIN req = Handlers
      BY <1>1 DEF ReqInv
    <2>2. PICK id : req' = [req EXCEPT ![h] = [req[h] EXCEPT !.pc = "artifact", !.id = id]]
      BY <1>3 DEF PrecheckOwnedId
    <2>3. Change(h) /\ req'[h].md5 = req[h].md5 /\ req'[h].pc = "artifact"
      BY <2>1, <2>2 DEF Change, ReqOK
    <2>4. \A m \in Md5s \ disturbed' : req[h].md5 # m
      BY <1>1 DEF BalanceInv, BalanceOf, WorkerOK
    <2> QED BY <1>1, <2>3, <2>4, QuietBalance DEF Unbound
  <1> QED BY <1>2, <1>3 DEF PrecheckOwnedId

LEMMA PrecheckSharedBalance ==
  ASSUME IInv, BalanceInv, NEW h \in Handlers, PrecheckShared(h)
  PROVE  BalanceInv'
  <1>1. /\ req[h].pc = "shared" /\ ReqInv /\ disturbed \subseteq disturbed'
        /\ UNCHANGED <<artifact_info, file_info, file_shared>>
    BY DEF PrecheckShared, At, IInv
  <1>2. CASE Answer(h)
    BY <1>1, <1>2, AnswerBalance
  <1>3. CASE file_shared[req[h].md5] # None
    <2>1. Goto(h, "sharedId")
      BY <1>3 DEF PrecheckShared
    <2>2. req'[h].pc = "sharedId"
      BY <1>1, <2>1, GotoStep DEF Early
    <2>3. \A m \in Md5s \ disturbed' : req[h].md5 = m => WorkerOK(m, h)'
      BY <1>1, <1>3, <2>2 DEF WorkerOK
    <2> QED BY <1>1, <2>1, <2>3, GotoBalance DEF Early
  <1> QED BY <1>2, <1>3 DEF PrecheckShared

LEMMA PrecheckSharedIdBalance ==
  ASSUME IInv, BalanceInv, NEW h \in Handlers, PrecheckSharedId(h)
  PROVE  BalanceInv'
  <1>1. /\ req[h].pc = "sharedId" /\ ReqInv /\ disturbed' = disturbed
        /\ UNCHANGED <<artifact_info, file_info, file_shared>>
    BY DEF PrecheckSharedId, At, IInv
  <1>2. ReqOK(req[h]) /\ DOMAIN req = Handlers
    BY <1>1 DEF ReqInv
  <1>3. PICK id : /\ id = IF file_shared[req[h].md5] = None THEN NoId
                          ELSE file_shared[req[h].md5].file_id
                  /\ req' = [req EXCEPT ![h] = [req[h] EXCEPT !.pc = "share", !.id = id]]
    BY DEF PrecheckSharedId
  <1>4. /\ Change(h) /\ req'[h].md5 = req[h].md5 /\ req'[h].pc = "share"
        /\ req'[h].id = id
    BY <1>2, <1>3 DEF Change, ReqOK
  <1>5. ASSUME NEW m \in Md5s \ disturbed', req[h].md5 = m
        PROVE  WorkerOK(m, h)'
    <2>1. file_shared[m] # None
      BY <1>1, <1>5, Worker DEF WorkerOK
    <2> QED BY <1>1, <1>3, <1>4, <1>5, <2>1 DEF WorkerOK
  <1> QED BY <1>1, <1>4, <1>5, QuietBalance DEF Unbound

LEMMA CreateArtifactCheckBalance ==
  ASSUME IInv, BalanceInv, NEW h \in Handlers, CreateArtifactCheck(h)
  PROVE  BalanceInv'
  <1>1. /\ req[h].pc = "artifact" /\ ReqInv /\ disturbed' = disturbed
        /\ UNCHANGED <<artifact_info, file_info, file_shared>>
    BY DEF CreateArtifactCheck, At, IInv
  <1>2. CASE Answer(h)
    BY <1>1, <1>2, AnswerBalance
  <1>3. CASE Goto(h, "insert")
    <2>1. /\ Change(h) /\ req'[h].pc = "insert" /\ req'[h].id = req[h].id
          /\ req'[h].c = req[h].c
      BY <1>1, <1>3, GotoStep DEF Late
    <2>2. ASSUME NEW m \in Md5s \ disturbed', req[h].md5 = m
          PROVE  WorkerOK(m, h)'
      <3>1. WorkerOK(m, h)
        BY <1>1, <2>2, Worker
      <3>2. Rows(m)' = Rows(m) /\ Artifacts(m)' = Artifacts(m)
        BY <1>1, SameTables
      <3> QED BY <1>1, <2>1, <3>1, <3>2 DEF WorkerOK, Named
    <2> QED BY <1>1, <1>3, <2>2, GotoBalance DEF Late
  <1>4. CASE Done(h)
    BY <1>1, <1>4, DoneBalance
  <1> QED BY <1>2, <1>3, <1>4 DEF CreateArtifactCheck

LEMMA ReadRefBalance ==
  ASSUME IInv, BalanceInv, NEW h \in Handlers, ReadRef(h)
  PROVE  BalanceInv'
  <1>1. /\ req[h].pc = "count" /\ ReqInv /\ disturbed \subseteq disturbed'
        /\ UNCHANGED <<artifact_info, file_info, file_shared>>
    BY DEF ReadRef, At, IInv
  <1>2. CASE Answer(h)
    BY <1>1, <1>2, AnswerBalance
  <1>3. CASE Goto(h, "unshare") /\ file_shared[req[h].md5].ref_count = 0
    <2>1. req'[h].pc = "unshare"
      BY <1>1, <1>3, GotoStep DEF Late
    <2>2. \A m \in Md5s \ disturbed' : req[h].md5 = m => WorkerOK(m, h)'
      BY <1>1, <1>3, <2>1 DEF WorkerOK, Counted
    <2> QED BY <1>1, <1>3, <2>2, GotoBalance DEF Late
  <1> QED BY <1>2, <1>3 DEF ReadRef

LEMMA FailBalance ==
  ASSUME IInv, BalanceInv, NEW h \in Handlers, Fail(h)
  PROVE  BalanceInv'
  <1>1. req[h].pc = "release" => req[h].md5 \in Md5s
    BY DEF IInv, ReqInv, ReqOK
  <1> QED BY <1>1, AnswerBalance DEF Fail, IInv

LEMMA QueryFailsBalance ==
  ASSUME IInv, BalanceInv, NEW h \in Handlers, QueryFails(h)
  PROVE  BalanceInv'
  <1>1. PICK pc \in {"unchecked", "shared", "share", "insert"} :
          Goto(h, pc) /\ req[h].pc \in {"check", "unchecked", "sharedId", "artifact"}
    BY DEF QueryFails, At
  <1>2. /\ disturbed' = disturbed \cup {req[h].md5} /\ ReqInv
        /\ UNCHANGED <<artifact_info, file_info, file_shared>>
    BY DEF QueryFails, IInv
  <1> QED BY <1>1, <1>2, GotoBalance DEF Early, Late

\* The chunked upload up to its records, and its end.
LEMMA ChunkBalance ==
  ASSUME IInv, BalanceInv, NEW h \in Handlers,
         SaveOpen(h) \/ SaveWrite(h) \/ ChunksReady(h) \/ MergeCopy(h) \/ Cleanup(h)
  PROVE  BalanceInv'
  <1>1. /\ disturbed' = disturbed /\ UNCHANGED <<artifact_info, file_info, file_shared>>
        /\ req[h].pc \in {"unchecked", "write", "rename", "ready", "copy", "cleanup"}
    BY DEF SaveOpen, SaveWrite, ChunksReady, MergeCopy, Cleanup, At, tableVars
  <1>2. \/ Answer(h)
        \/ \E pc \in {"write", "rename", "ready", "merge", "upload"} : Goto(h, pc)
    BY DEF SaveOpen, SaveWrite, ChunksReady, MergeCopy, Cleanup
  <1>3. CASE Answer(h)
    BY <1>1, <1>3, AnswerBalance DEF IInv
  <1>4. ASSUME NEW pc \in {"write", "rename", "ready", "merge", "upload"}, Goto(h, pc)
        PROVE  BalanceInv'
    BY <1>1, <1>4, GotoBalance DEF IInv, Early, Watched
  <1> QED BY <1>2, <1>3, <1>4

LEMMA MergeOpenBalance ==
  ASSUME IInv, BalanceInv, NEW h \in Handlers, MergeOpen(h)
  PROVE  BalanceInv'
  <1>1. /\ disturbed' = disturbed /\ UNCHANGED <<artifact_info, file_info, file_shared>>
        /\ req[h].pc = "merge" /\ ReqInv
    BY DEF MergeOpen, At, tableVars, IInv
  <1>2. CASE Answer(h)
    BY <1>1, <1>2, AnswerBalance
  <1>3. ASSUME NEW list, req' = [req EXCEPT ![h].pc = "copy", ![h].indices = list]
        PROVE  BalanceInv'
    <2>1. ReqOK(req[h]) /\ DOMAIN req = Handlers
      BY <1>1 DEF ReqInv
    <2>2. req' = [req EXCEPT ![h] = [req[h] EXCEPT !.pc = "copy", !.indices = list]]
      BY <1>3
    <2>3. Change(h) /\ req'[h].md5 = req[h].md5 /\ req'[h].pc = "copy"
      BY <2>1, <2>2 DEF Change, ReqOK
    <2> QED BY <1>1, <2>3, Unwatched, QuietBalance DEF Unbound, Watched
  <1> QED BY <1>2, <1>3 DEF MergeOpen

LEMMA UploadBalance ==
  ASSUME IInv, BalanceInv, NEW h \in Handlers, UploadBig(h) \/ DirectUpload(h, Whole)
  PROVE  BalanceInv'
  <1>1. /\ disturbed' = disturbed /\ UNCHANGED <<artifact_info, file_info, file_shared>>
        /\ req[h].pc \in {"upload", "unchecked"} /\ ReqInv
    BY DEF UploadBig, DirectUpload, At, IInv
  <1>2. CASE Answer(h)
    BY <1>1, <1>2, AnswerBalance
  <1>3. ASSUME NEW content, Upload(h, content)
        PROVE  BalanceInv'
    <2>1. ReqOK(req[h]) /\ DOMAIN req = Handlers
      BY <1>1 DEF ReqInv
    <2>2. PICK id : req' = [req EXCEPT ![h] = [req[h] EXCEPT !.pc = "publish", !.id = id]]
      BY <1>3 DEF Upload
    <2>3. Change(h) /\ req'[h].md5 = req[h].md5 /\ req'[h].pc = "publish"
      BY <2>1, <2>2 DEF Change, ReqOK
    <2> QED BY <1>1, <2>3, Unwatched, QuietBalance DEF Unbound, Watched
  <1> QED BY <1>2, <1>3 DEF UploadBig, DirectUpload

\* A checksum that stays undisturbed when h starts on it had no other request.
LEMMA MeetsAlone ==
  ASSUME IInv, BalanceInv, NEW h \in Handlers, NEW c, NEW m \in Md5s, m \notin Meets(h, c, m)
  PROVE  \A g \in Handlers \ {h} : req[g].md5 # m
  <1> SUFFICES ASSUME NEW g \in Handlers \ {h}, req[g].md5 = m
               PROVE  FALSE
    OBVIOUS
  <1>1. Busy(g)
    BY NoneAssumption DEF Busy, BalanceInv, Unbound
  <1> QED BY <1>1 DEF Meets

LEMMA StartBalance ==
  ASSUME IInv, BalanceInv, NEW h \in Handlers, NEW op, NEW c, NEW m \in Md5s \cup {None},
         NEW mode, NEW i, Start(h, op, c, m, mode, i), op = "delete" => m = None
  PROVE  BalanceInv'
  <1> DEFINE pc == IF op = "delete" THEN "find" ELSE IF mode THEN "check" ELSE "unchecked"
             r == [pc |-> pc, op |-> op, c |-> c, md5 |-> m, mode |-> mode,
                   id |-> NoId, index |-> i, indices |-> <<>>]
  <1>1. /\ req' = [req EXCEPT ![h] = r]
        /\ UNCHANGED <<artifact_info, file_info, file_shared>>
        /\ disturbed' = disturbed \cup Meets(h, c, m) /\ req[h].pc = "idle"
    BY DEF Start, Busy
  <1>2. pc \in {"find", "check", "unchecked"} /\ (op # "delete" => pc # "find")
    OBVIOUS
  <1> HIDE DEF pc
  <1>3. r.pc = pc /\ r.md5 = m
    OBVIOUS
  <1> HIDE DEF r
  <1>4. Change(h) /\ req'[h].pc = pc /\ req'[h].md5 = m /\ req[h].md5 = None
    BY <1>1, <1>3 DEF IInv, ReqInv, Change, BalanceInv, Unbound
  <1>5. ASSUME NEW k \in Md5s, k \notin disturbed'
        PROVE  BalanceOf(k)'
    <2>1. BalanceOf(k) /\ k # None /\ k \notin Meets(h, c, m)
      BY <1>1, <1>5, NoneAssumption DEF BalanceInv
    <2>2. CASE k = m
      <3>1. \A g \in Handlers \ {h} : req[g].md5 # k
        BY <2>1, <2>2, MeetsAlone
      <3>2. WorkerOK(k, h)' /\ req'[h].pc # "release"
        BY <1>2, <1>4, Unwatched DEF Watched
      <3> QED BY <1>1, <1>4, <2>1, <2>2, <3>1, <3>2, JoinStep
    <2>3. CASE k # m
      <3>1. Rows(k)' = Rows(k)
        BY <1>1 DEF Rows
      <3> QED BY <1>1, <1>4, <2>1, <2>3, <3>1, OtherStep
    <2> QED BY <2>2, <2>3
  <1>6. \A g \in Handlers : req'[g].pc \in Unbound => req'[g].md5 = None
    BY <1>2, <1>4 DEF BalanceInv, Change, Unbound
  <1>7. IsFiniteSet(file_info')
    BY <1>1 DEF BalanceInv
  <1> QED BY <1>5, <1>6, <1>7 DEF BalanceInv

LEMMA ArriveBalance ==
  ASSUME IInv, BalanceInv, NEW h \in Handlers, Arrive(h)
  PROVE  BalanceInv'
  <1>1. ASSUME NEW c \in Coords, NEW m \in Md5s, NEW mode \in Modes,
               NEW op \in {"precheck", "direct"}, Start(h, op, c, m, mode, 0)
        PROVE  BalanceInv'
    BY <1>1, StartBalance
  <1>2. ASSUME NEW c \in Coords, NEW m \in Md5s, NEW mode \in Modes, NEW i \in Chunks,
               Start(h, "chunk", c, m, mode, i)
        PROVE  BalanceInv'
    BY <1>2, StartBalance
  <1>3. ASSUME NEW c \in Coords, Start(h, "delete", c, None, TRUE, 0)
        PROVE  BalanceInv'
    BY <1>3, StartBalance
  <1> QED BY <1>1, <1>2, <1>3 DEF Arrive

\* The delete has found a row: the artifact has a row in file_info and a reference.
LEMMA DeleteFindBalance ==
  ASSUME IInv, BalanceInv, NEW h \in Handlers, DeleteFind(h)
  PROVE  BalanceInv'
  <1>1. /\ req[h].pc = "find" /\ ReqInv /\ ReqOK(req[h]) /\ DOMAIN req = Handlers
        /\ UNCHANGED <<artifact_info, file_info, file_shared>> /\ req[h].c \in Coords
    BY DEF DeleteFind, At, IInv, ReqInv, ReqOK
  <1>2. CASE Answer(h) /\ UNCHANGED disturbed
    BY <1>1, <1>2, AnswerBalance
  <1>3. CASE artifact_info[req[h].c] # None
    <2>1. PICK row, c : row = artifact_info[c] /\ c = req[h].c
      OBVIOUS
    <2>2. /\ req' = [req EXCEPT ![h] = [req[h] EXCEPT !.pc = "unlist", !.md5 = row.checksum,
                                                      !.id = row.file_id]]
          /\ disturbed' = disturbed \cup Meets(h, c, row.checksum)
      BY <1>3, <2>1 DEF DeleteFind
    <2>3. /\ Change(h) /\ req'[h].pc = "unlist" /\ req'[h].md5 = row.checksum
          /\ req'[h].c = c /\ req[h].md5 = None
      BY <1>1, <2>1, <2>2 DEF Change, ReqOK, BalanceInv, Unbound
    <2>4. ASSUME NEW k \in Md5s, k \notin disturbed'
          PROVE  BalanceOf(k)'
      <3>1. BalanceOf(k) /\ k # None /\ k \notin Meets(h, c, row.checksum)
        BY <2>2, <2>4, NoneAssumption DEF BalanceInv
      <3>2. CASE k = row.checksum
        <4>1. \A g \in Handlers \ {h} : req[g].md5 # k
          BY <3>1, <3>2, MeetsAlone
        <4>2. c \in Artifacts(k)
          BY <1>1, <1>3, <2>1, <3>2 DEF Artifacts
        <4>3. Named(c, k) /\ \A d \in Artifacts(k) : Clash(c, d) => c = d
          BY <3>1, <4>2 DEF BalanceOf, ArtifactsOK
        <4>4. Rows(k)' = Rows(k) /\ Artifacts(k)' = Artifacts(k)
          BY <1>1, SameTables
        <4>5. WorkerOK(k, h)'
          BY <2>3, <4>3, <4>4 DEF WorkerOK, Named
        <4> QED BY <1>1, <2>3, <3>1, <3>2, <4>1, <4>5, JoinStep
      <3>3. CASE k # row.checksum
        <4>1. Rows(k)' = Rows(k)
          BY <1>1 DEF Rows
        <4> QED BY <1>1, <2>3, <3>1, <3>3, <4>1, OtherStep
      <3> QED BY <3>2, <3>3
    <2>5. \A g \in Handlers : req'[g].pc \in Unbound => req'[g].md5 = None
      BY <2>3 DEF BalanceInv, Change, Unbound
    <2>6. IsFiniteSet(file_info')
      BY <1>1 DEF BalanceInv
    <2> QED BY <2>4, <2>5, <2>6 DEF BalanceInv
  <1> QED BY <1>2, <1>3 DEF DeleteFind

LEMMA CrashBalance ==
  ASSUME IInv, BalanceInv, Crash
  PROVE  BalanceInv'
  <1>1. /\ req' = [h \in Handlers |-> Idle]
        /\ UNCHANGED <<artifact_info, file_info, file_shared>>
        /\ disturbed' = disturbed \cup ({req[h].md5 : h \in Handlers} \cap Md5s)
    BY DEF Crash
  <1>2. \A h \in Handlers : req'[h].md5 = None /\ req'[h].pc = "idle"
    BY <1>1, IdleOK
  <1>3. ASSUME NEW m \in Md5s, m \notin disturbed'
        PROVE  BalanceOf(m)'
    <2>1. BalanceOf(m) /\ m # None /\ \A h \in Handlers : req[h].md5 # m
      BY <1>1, <1>3, NoneAssumption DEF BalanceInv
    <2>2. ~ Releasing(m) /\ ~ Releasing(m)'
      BY <1>2, <2>1 DEF Releasing
    <2>3. CountOK(m)'
      BY <1>1, <2>1, <2>2, SameTables DEF BalanceOf, CountOK
    <2>4. RowsUnique(m)' /\ ArtifactsOK(m)' /\ Solo(m)'
      BY <1>1, <1>2, <2>1, SameTables DEF BalanceOf, Solo
    <2> QED BY <1>2, <2>1, <2>3, <2>4 DEF BalanceOf
  <1> QED BY <1>1, <1>2, <1>3 DEF BalanceInv

LEMMA CleanerBalance ==
  ASSUME BalanceInv, UNCHANGED <<req, artifact_info, file_info, file_shared>>,
         disturbed \subseteq disturbed'
  PROVE  BalanceInv'
  <1>1. ASSUME NEW m \in Md5s, m \notin disturbed'
        PROVE  BalanceOf(m)'
    <2>1. BalanceOf(m)
      BY <1>1 DEF BalanceInv
    <2>2. Releasing(m)' = Releasing(m) /\ Solo(m)' = Solo(m)
      BY DEF Releasing, Solo
    <2>3. CountOK(m)' /\ RowsUnique(m)' /\ ArtifactsOK(m)'
      BY <2>1, <2>2, SameTables DEF BalanceOf, CountOK
    <2>4. \A h \in Handlers : req'[h].md5 = m => WorkerOK(m, h)'
      BY <2>1, SameTables DEF BalanceOf, WorkerOK, Named
    <2> QED BY <2>1, <2>2, <2>3, <2>4 DEF BalanceOf
  <1> QED BY <1>1 DEF BalanceInv

----------------------------------------------------------------------------
(* Rows and references come and go together *)

LEMMA RowsFinite ==
  ASSUME BalanceInv, NEW m
  PROVE  IsFiniteSet(Rows(m)) /\ Cardinality(Rows(m)) \in Nat
  <1>1. Rows(m) \subseteq file_info /\ IsFiniteSet(file_info)
    BY DEF Rows, BalanceInv
  <1>2. IsFiniteSet(Rows(m))
    BY <1>1, FS_Subset
  <1> QED BY <1>2, FS_CardinalityType

\* CreateFile leaves its checksum undisturbed only when the name was free.
LEMMA CreateFileOwn ==
  ASSUME BalanceInv, NEW r, CreateFile(r), r.md5 \notin disturbed', RowsUnique(r.md5)
  PROVE  /\ Rows(r.md5)' = Rows(r.md5) \cup {FileRow(r)}
         /\ Cardinality(Rows(r.md5)') = Cardinality(Rows(r.md5)) + 1
         /\ \A f \in file_info : ~ (f.owner = r.c.owner /\ f.filename = BuildStorageName(r.c))
         /\ RowsUnique(r.md5)'
  <1>1. PICK n, m : n = FileRow(r) /\ m = r.md5
    OBVIOUS
  <1>2. n.owner = r.c.owner /\ n.filename = BuildStorageName(r.c) /\ n.md5 = m
    BY <1>1 DEF FileRow
  <1>3. \A f \in file_info : ~ (f.owner = r.c.owner /\ f.filename = BuildStorageName(r.c))
    BY DEF CreateFile
  <1>4. file_info' = file_info \cup {n} /\ n \notin file_info
    BY <1>1, <1>2, <1>3 DEF CreateFile
  <1>5. Rows(m)' = Rows(m) \cup {n} /\ n \notin Rows(m)
    BY <1>2, <1>4 DEF Rows
  <1>6. Cardinality(Rows(m)') = Cardinality(Rows(m)) + 1
    BY <1>5, RowsFinite, FS_AddElement
  <1>7. \A f \in Rows(m)', e \in file_info' :
          e.owner = f.owner /\ e.filename = f.filename => e = f
    <2>1. \A f \in Rows(m), e \in file_info :
            e.owner = f.owner /\ e.filename = f.filename => e = f
      BY <1>1 DEF RowsUnique
    <2>2. \A f \in Rows(m) : f \in file_info
      BY DEF Rows
    <2> QED BY <1>2, <1>3, <1>4, <1>5, <2>1, <2>2
  <1>8. RowsUnique(m)'
    BY <1>7 DEF RowsUnique
  <1> QED BY <1>1, <1>3, <1>5, <1>6, <1>8

LEMMA CreateFileOther ==
  ASSUME NEW r, CreateFile(r), NEW k, k # r.md5, k \notin disturbed'
  PROVE  /\ Rows(k)' = Rows(k)
         /\ \A e \in file_info' \ file_info, f \in Rows(k) :
              ~ (e.owner = f.owner /\ e.filename = f.filename)
  <1>1. PICK n : n = FileRow(r)
    OBVIOUS
  <1>2. n.owner = r.c.owner /\ n.filename = BuildStorageName(r.c) /\ n.md5 = r.md5
    BY <1>1 DEF FileRow
  <1>3. file_info' = file_info \cup {n}
    BY <1>1 DEF CreateFile
  <1>4. Rows(k)' = Rows(k)
    BY <1>2, <1>3 DEF Rows
  <1>5. \A f \in Rows(k) : ~ (f.owner = r.c.owner /\ f.filename = BuildStorageName(r.c))
    BY DEF CreateFile, Rows
  <1> QED BY <1>2, <1>3, <1>4, <1>5

\* The request on m adds its row and its reference.
LEMMA ReferBalance ==
  ASSUME IInv, BalanceInv, NEW h \in Handlers, NEW m \in Md5s, req[h].md5 = m,
         req[h].pc \in {"share", "publish"}, CreateFile(req[h]),
         IF req[h].mode THEN Goto(h, "artifact") ELSE Done(h),
         UNCHANGED artifact_info,
         m \notin disturbed' =>
           /\ file_shared'[m] # None
           /\ file_shared'[m].ref_count = Counted(m) + 1
           /\ file_shared'[m].file_id = req[h].id
           /\ file_shared[m] # None => file_shared[m].file_id = req[h].id,
         \A k \in Md5s \ {m} : file_shared'[k] = file_shared[k]
  PROVE  BalanceInv'
  <1>1. /\ Change(h)
        /\ \/ req'[h].pc = "idle" /\ req'[h].md5 = None
           \/ req'[h].pc = "cleanup" /\ req'[h].md5 = m
           \/ /\ req'[h].pc = "artifact" /\ req'[h].md5 = m
              /\ req'[h].id = req[h].id /\ req'[h].c = req[h].c
    <2>1. CASE Goto(h, "artifact")
      BY <2>1, GotoStep DEF IInv, Late
    <2>2. CASE Goto(h, "cleanup")
      BY <2>2, GotoStep DEF IInv, Late
    <2>3. CASE Answer(h)
      BY <2>3, AnswerStep DEF IInv
    <2> QED BY <2>1, <2>2, <2>3 DEF Done
  <1>2. disturbed \subseteq disturbed' /\ m # None
    BY NoneAssumption DEF CreateFile
  <1>3. ASSUME NEW k \in Md5s, k \notin disturbed', k # m
        PROVE  BalanceOf(k)'
    <2>1. /\ Rows(k)' = Rows(k)
          /\ \A e \in file_info' \ file_info, f \in Rows(k) :
               ~ (e.owner = f.owner /\ e.filename = f.filename)
      BY <1>3, CreateFileOther
    <2>2. BalanceOf(k) /\ k # None
      BY <1>2, <1>3, NoneAssumption DEF BalanceInv
    <2> QED BY <1>1, <1>3, <2>1, <2>2, OtherStep
  <1>4. ASSUME m \notin disturbed'
        PROVE  BalanceOf(m)'
    <2>1. BalanceOf(m)
      BY <1>2, <1>4 DEF BalanceInv
    <2>2. PICK n : n = FileRow(req[h])
      OBVIOUS
    <2>3. /\ Rows(m)' = Rows(m) \cup {n}
          /\ Cardinality(Rows(m)') = Cardinality(Rows(m)) + 1
          /\ \A f \in file_info :
               ~ (f.owner = req[h].c.owner /\ f.filename = BuildStorageName(req[h].c))
          /\ RowsUnique(m)'
      BY <1>4, <2>1, <2>2, CreateFileOwn DEF BalanceOf
    <2>4. n.owner = req[h].c.owner /\ n.filename = BuildStorageName(req[h].c)
      BY <2>2 DEF FileRow
    <2>5. ~ Releasing(m)
      BY <2>1 DEF BalanceOf, Solo, Releasing
    <2>6. Counted(m)' = Cardinality(Rows(m)') + 0
      <3>1. Counted(m)' = Counted(m) + 1
        BY <1>4 DEF Counted
      <3>2. Counted(m) = Cardinality(Rows(m)) + 0
        BY <2>1, <2>5 DEF BalanceOf, CountOK
      <3> QED BY <2>3, <3>1, <3>2, RowsFinite
    <2>7. Artifacts(m)' = Artifacts(m)
      BY DEF Artifacts
    <2>8. ArtifactsOK(m)'
      BY <1>4, <2>1, <2>3, <2>7 DEF BalanceOf, ArtifactsOK, Named
    <2>9. \A d \in Artifacts(m) : ~ Clash(req[h].c, d)
      <3>1. \A d \in Artifacts(m) : \E f \in Rows(m) :
              f.owner = d.owner /\ f.filename = BuildStorageName(d)
        BY <2>1 DEF BalanceOf, ArtifactsOK, Named
      <3>2. \A f \in Rows(m) : f \in file_info
        BY DEF Rows
      <3> QED BY <2>3, <3>1, <3>2 DEF Clash
    <2>10. req'[h].md5 = m => WorkerOK(m, h)'
      <3>1. CASE req'[h].pc = "artifact"
        <4>1. req'[h].id = req[h].id /\ req'[h].c = req[h].c
          BY <1>1, <3>1
        <4>2. Named(req[h].c, m)'
          BY <2>3, <2>4, <4>1 DEF Named
        <4> QED BY <1>4, <2>7, <2>9, <3>1, <4>1, <4>2 DEF WorkerOK
      <3>2. CASE req'[h].pc # "artifact"
        BY <1>1, <1>2, <3>2, Unwatched DEF Watched
      <3> QED BY <3>1, <3>2
    <2> QED BY <1>1, <2>1, <2>3, <2>6, <2>8, <2>10, OwnStep
  <1>5. \A g \in Handlers : req'[g].pc \in Unbound => req'[g].md5 = None
    BY <1>1 DEF BalanceInv, Change, Unbound
  <1>6. IsFiniteSet(file_info')
    <2>1. file_info' = file_info \cup {FileRow(req[h])} /\ IsFiniteSet(file_info)
      BY DEF CreateFile, BalanceInv
    <2> QED BY <2>1, FS_AddElement
  <1> QED BY <1>3, <1>4, <1>5, <1>6 DEF BalanceInv

LEMMA PrecheckShareBalance ==
  ASSUME IInv, BalanceInv, NEW h \in Handlers, PrecheckShare(h)
  PROVE  BalanceInv'
  <1>1. /\ req[h].pc = "share" /\ CreateFile(req[h]) /\ UNCHANGED artifact_info
        /\ IF req[h].mode THEN Goto(h, "artifact") ELSE Done(h)
    BY DEF PrecheckShare, At
  <1>2. PICK m \in Md5s : m = req[h].md5
    BY <1>1 DEF IInv, ReqInv, ReqOK
  <1>3. SharedType
    BY DEF IInv, TableInv
  <1>4. \A k \in Md5s \ {m} : file_shared'[k] = file_shared[k]
    BY <1>2, <1>3 DEF PrecheckShare, SharedType
  <1>5. ASSUME m \notin disturbed'
        PROVE  /\ file_shared'[m] # None
               /\ file_shared'[m].ref_count = Counted(m) + 1
               /\ file_shared'[m].file_id = req[h].id
               /\ file_shared[m].file_id = req[h].id
    <2>1. WorkerOK(m, h)
      <3>1. disturbed \subseteq disturbed'
        BY <1>1 DEF CreateFile
      <3> QED BY <1>2, <1>5, <3>1, Worker
    <2>2. file_shared[m] # None /\ req[h].id = file_shared[m].file_id
      BY <1>1, <2>1 DEF WorkerOK
    <2> DEFINE new == [file_shared[m] EXCEPT !.ref_count = file_shared[m].ref_count + 1]
    <2>3. file_shared' = [file_shared EXCEPT ![m] = new]
      BY <1>2, <2>2 DEF PrecheckShare
    <2>4. file_shared[m] \in [file_id : Nat, ref_count : Nat]
      BY <1>3, <2>2 DEF SharedType
    <2>5. /\ new.file_id = file_shared[m].file_id
          /\ new.ref_count = file_shared[m].ref_count + 1
      BY <2>4
    <2>6. file_shared'[m] = new
      BY <1>3, <2>3 DEF SharedType
    <2>7. new \in [file_id : Nat, ref_count : Nat]
      BY <2>4
    <2> HIDE DEF new
    <2>8. SharedType'
      BY <1>3, <2>3, <2>7 DEF SharedType
    <2>9. new # None
      BY <2>7, NoneAssumption
    <2> QED BY <2>2, <2>5, <2>6, <2>9 DEF Counted
  <1> QED BY <1>1, <1>2, <1>4, <1>5, ReferBalance

LEMMA PublishBalance ==
  ASSUME IInv, BalanceInv, NEW h \in Handlers, Publish(h)
  PROVE  BalanceInv'
  <1>1. req[h].pc = "publish" /\ UNCHANGED artifact_info /\ ReqInv
    BY DEF Publish, At, IInv
  <1>2. PICK m \in Md5s : m = req[h].md5
    BY <1>1 DEF ReqInv, ReqOK
  <1>3. CASE file_shared[m] # None
    <2>1. Answer(h) /\ UNCHANGED <<file_info, file_shared, disturbed>>
      BY <1>2, <1>3 DEF Publish
    <2> QED BY <1>1, <2>1, AnswerBalance
  <1>4. CASE file_shared[m] = None
    <2> DEFINE new == [file_id |-> req[h].id, ref_count |-> 1]
    <2>1. /\ CreateFile(req[h])
          /\ IF req[h].mode THEN Goto(h, "artifact") ELSE Done(h)
          /\ file_shared' = [file_shared EXCEPT ![m] = new]
      BY <1>2, <1>4 DEF Publish
    <2>2. /\ new \in [file_id : Nat, ref_count : Nat]
          /\ new.file_id = req[h].id /\ new.ref_count = 1
      BY DEF IInv, ReqInv, ReqOK
    <2> HIDE DEF new
    <2>3. SharedType
      BY DEF IInv, TableInv
    <2>4. file_shared'[m] = new /\ \A k \in Md5s \ {m} : file_shared'[k] = file_shared[k]
      BY <2>1, <2>3 DEF SharedType
    <2>5. new # None
      BY <2>2, NoneAssumption
    <2>6. Counted(m) = 0
      BY <1>4 DEF Counted
    <2> QED BY <1>1, <1>2, <1>4, <2>1, <2>2, <2>4, <2>5, <2>6, ReferBalance
  <1> QED BY <1>3, <1>4

\* Steps of the request on m = req[h].md5 that leave the other checksums alone.
LEMMA SplitBalance ==
  ASSUME BalanceInv, NEW h \in Handlers, Change(h), disturbed \subseteq disturbed',
         req'[h].md5 \in {None, req[h].md5}, req'[h].pc \in Unbound => req'[h].md5 = None,
         IsFiniteSet(file_info'),
         \A k \in Md5s \ disturbed' : k # req[h].md5 =>
           /\ file_shared'[k] = file_shared[k] /\ Rows(k)' = Rows(k)
           /\ file_info' \subseteq file_info
           /\ \A c \in Coords : artifact_info'[c] # None /\ artifact_info'[c].checksum = k =>
                artifact_info'[c] = artifact_info[c],
         \A k \in Md5s \ disturbed' : k = req[h].md5 => BalanceOf(k)'
  PROVE  BalanceInv'
  <1>1. ASSUME NEW k \in Md5s, k \notin disturbed', k # req[h].md5
        PROVE  BalanceOf(k)'
    <2>1. BalanceOf(k) /\ k # None
      BY <1>1, NoneAssumption DEF BalanceInv
    <2>2. /\ file_shared'[k] = file_shared[k] /\ Rows(k)' = Rows(k)
          /\ file_info' \subseteq file_info
          /\ \A c \in Coords : artifact_info'[c] # None /\ artifact_info'[c].checksum = k =>
               artifact_info'[c] = artifact_info[c]
      BY <1>1
    <2> QED BY <1>1, <2>1, <2>2, OtherStep
  <1>2. \A g \in Handlers : req'[g].pc \in Unbound => req'[g].md5 = None
    BY DEF BalanceInv, Change
  <1> QED BY <1>1, <1>2 DEF BalanceInv

LEMMA CreateArtifactInsertBalance ==
  ASSUME IInv, BalanceInv, NEW h \in Handlers, CreateArtifactInsert(h)
  PROVE  BalanceInv'
  <1>1. /\ req[h].pc = "insert" /\ UNCHANGED <<file_info, file_shared, disturbed>>
        /\ ReqInv /\ req[h].c \in Coords /\ req[h].id \in Nat
    BY DEF CreateArtifactInsert, At, IInv, ReqInv, ReqOK
  <1>2. PICK m \in Md5s : m = req[h].md5
    BY <1>1 DEF ReqInv, ReqOK
  <1>3. PICK c \in Coords : c = req[h].c
    BY <1>1
  <1>4. CASE artifact_info[c] # None
    BY <1>1, <1>3, <1>4, AnswerBalance DEF CreateArtifactInsert
  <1>5. CASE artifact_info[c] = None
    <2> DEFINE row == [checksum |-> m, file_id |-> req[h].id]
    <2>1. artifact_info' = [artifact_info EXCEPT ![c] = row] /\ Done(h)
      BY <1>2, <1>3, <1>5 DEF CreateArtifactInsert
    <2>2. /\ row \in [checksum : Md5s, file_id : Nat]
          /\ row.checksum = m /\ row.file_id = req[h].id
      BY <1>1
    <2> HIDE DEF row
    <2>3. row # None
      BY <2>2, NoneAssumption
    <2>4. \A d \in Coords : artifact_info'[d] = IF d = c THEN row ELSE artifact_info[d]
      BY <2>1 DEF IInv, TableInv, ArtifactType
    <2>5. /\ Change(h)
          /\ \/ req'[h].pc = "idle" /\ req'[h].md5 = None
             \/ req'[h].pc = "cleanup" /\ req'[h].md5 = m
      <3>1. CASE Goto(h, "cleanup")
        BY <1>1, <1>2, <3>1, GotoStep DEF Late
      <3>2. CASE Answer(h)
        BY <1>1, <3>2, AnswerStep
      <3> QED BY <2>1, <3>1, <3>2 DEF Done
    <2>6. Rows(m)' = Rows(m) /\ Counted(m)' = Counted(m)
      BY <1>1 DEF Rows, Counted
    <2>7. Artifacts(m)' = Artifacts(m) \cup {c}
      BY <2>2, <2>3, <2>4 DEF Artifacts
    <2>8. ASSUME m \notin disturbed'
          PROVE  BalanceOf(m)'
      <3>1. BalanceOf(m) /\ WorkerOK(m, h)
        BY <1>1, <1>2, <2>8, Worker
      <3>2. /\ file_shared[m] # None /\ req[h].id = file_shared[m].file_id /\ Named(c, m)
            /\ \A d \in Artifacts(m) : ~ Clash(c, d)
        BY <1>1, <1>3, <3>1 DEF WorkerOK
      <3>3. \A d \in Artifacts(m) : ~ Clash(d, c) /\ d \in Coords
        BY <3>2 DEF Clash, Artifacts
      <3>4. \A d \in Artifacts(m) \cup {c} :
              file_shared[m] # None /\ artifact_info'[d].file_id = file_shared[m].file_id
        BY <2>2, <2>4, <3>1, <3>2, <3>3 DEF BalanceOf, ArtifactsOK
      <3>5. \A d \in Artifacts(m) \cup {c} : Named(d, m)
        BY <3>1, <3>2 DEF BalanceOf, ArtifactsOK
      <3>6. \A d, e \in Artifacts(m) \cup {c} : Clash(d, e) => d = e
        BY <3>1, <3>2, <3>3 DEF BalanceOf, ArtifactsOK
      <3>7. ArtifactsOK(m)'
        BY <1>1, <2>6, <2>7, <3>4, <3>5, <3>6 DEF ArtifactsOK, Named
      <3>8. RowsUnique(m)'
        BY <1>1, <2>6, <3>1 DEF BalanceOf, RowsUnique
      <3>9. ~ Releasing(m)
        BY <1>1, <1>2, <3>1 DEF BalanceOf, Solo, Releasing
      <3>10. Counted(m)' = Cardinality(Rows(m)') + 0
        BY <2>6, <3>1, <3>9 DEF BalanceOf, CountOK
      <3>11. WorkerOK(m, h)'
        BY <2>5, Unwatched DEF Watched
      <3> QED BY <1>2, <2>5, <3>1, <3>7, <3>8, <3>10, <3>11, OwnStep
    <2>9. \A k \in Md5s \ disturbed' : k # m =>
           /\ file_shared'[k] = file_shared[k] /\ Rows(k)' = Rows(k)
           /\ file_info' \subseteq file_info
           /\ \A d \in Coords : artifact_info'[d] # None /\ artifact_info'[d].checksum = k =>
                artifact_info'[d] = artifact_info[d]
      BY <1>1, <2>2, <2>4 DEF Rows
    <2> QED BY <1>1, <1>2, <2>5, <2>8, <2>9, SplitBalance DEF Unbound, BalanceInv
  <1> QED BY <1>4, <1>5

LEMMA DeleteArtifactBalance ==
  ASSUME IInv, BalanceInv, NEW h \in Handlers, DeleteArtifact(h)
  PROVE  BalanceInv'
  <1>1. /\ req[h].pc = "unlist" /\ UNCHANGED <<file_info, file_shared, disturbed>>
        /\ ReqInv /\ req[h].c \in Coords /\ Goto(h, "unfile")
    BY DEF DeleteArtifact, At, IInv, ReqInv, ReqOK
  <1>2. PICK m \in Md5s : m = req[h].md5
    BY <1>1 DEF ReqInv, ReqOK
  <1>3. PICK c \in Coords : c = req[h].c
    BY <1>1
  <1>4. /\ Change(h) /\ req'[h].pc = "unfile" /\ req'[h].md5 = m /\ req'[h].c = c
    BY <1>1, <1>2, <1>3, GotoStep DEF Late
  <1>5. \A d \in Coords : artifact_info'[d] = IF d = c THEN None ELSE artifact_info[d]
    BY <1>3 DEF DeleteArtifact, IInv, TableInv, ArtifactType
  <1>6. Rows(m)' = Rows(m) /\ Counted(m)' = Counted(m)
    BY <1>1 DEF Rows, Counted
  <1>7. Artifacts(m)' = Artifacts(m) \ {c}
    BY <1>5 DEF Artifacts
  <1>8. ASSUME m \notin disturbed'
        PROVE  BalanceOf(m)'
    <2>1. BalanceOf(m) /\ WorkerOK(m, h)
      BY <1>1, <1>2, <1>8, Worker
    <2>2. Named(c, m) /\ \A d \in Artifacts(m) : Clash(c, d) => c = d
      BY <1>1, <1>3, <2>1 DEF WorkerOK
    <2>3. \A d \in Artifacts(m)' : d \in Artifacts(m) /\ artifact_info'[d] = artifact_info[d]
      BY <1>5, <1>7 DEF Artifacts
    <2>4. ArtifactsOK(m)'
      BY <1>1, <1>6, <2>1, <2>3 DEF BalanceOf, ArtifactsOK, Named
    <2>5. RowsUnique(m)'
      BY <1>1, <1>6, <2>1 DEF BalanceOf, RowsUnique
    <2>6. ~ Releasing(m)
      BY <1>1, <1>2, <2>1 DEF BalanceOf, Solo, Releasing
    <2>7. Counted(m)' = Cardinality(Rows(m)') + 0
      BY <1>6, <2>1, <2>6 DEF BalanceOf, CountOK
    <2>8. WorkerOK(m, h)'
      BY <1>4, <1>6, <1>7, <2>2 DEF WorkerOK, Named
    <2> QED BY <1>2, <1>4, <2>1, <2>4, <2>5, <2>7, <2>8, OwnStep
  <1>9. \A k \in Md5s \ disturbed' : k # m =>
         /\ file_shared'[k] = file_shared[k] /\ Rows(k)' = Rows(k)
         /\ file_info' \subseteq file_info
         /\ \A d \in Coords : artifact_info'[d] # None /\ artifact_info'[d].checksum = k =>
              artifact_info'[d] = artifact_info[d]
    BY <1>1, <1>5 DEF Rows
  <1> QED BY <1>1, <1>2, <1>4, <1>8, <1>9, SplitBalance DEF Unbound, BalanceInv

\* The delete removes the one row of its coordinate; a checksum whose row goes
\* with it is disturbed.
LEMMA DeleteFileRecordBalance ==
  ASSUME IInv, BalanceInv, NEW h \in Handlers, DeleteFileRecord(h)
  PROVE  BalanceInv'
  <1>1. /\ req[h].pc = "unfile" /\ UNCHANGED <<artifact_info, file_shared>>
        /\ ReqInv /\ Goto(h, "release")
    BY DEF DeleteFileRecord, At, IInv
  <1>2. PICK m \in Md5s : m = req[h].md5
    BY <1>1 DEF ReqInv, ReqOK
  <1>3. PICK c : c = req[h].c
    OBVIOUS
  <1>4. PICK gone : /\ gone = {f \in file_info : /\ f.owner = c.owner
                                                  /\ f.filename = BuildStorageName(c)}
                    /\ file_info' = file_info \ gone
                    /\ disturbed' = disturbed \cup ({f.md5 : f \in gone} \ {m})
    BY <1>2, <1>3 DEF DeleteFileRecord
  <1>5. /\ Change(h) /\ req'[h].pc = "release" /\ req'[h].md5 = m
    BY <1>1, <1>2, GotoStep DEF Late
  <1>6. IsFiniteSet(file_info') /\ disturbed \subseteq disturbed'
    BY <1>4, FS_Subset DEF BalanceInv
  <1>7. ASSUME m \notin disturbed'
        PROVE  BalanceOf(m)'
    <2>1. BalanceOf(m) /\ WorkerOK(m, h)
      BY <1>2, <1>6, <1>7, Worker
    <2>2. Named(c, m) /\ \A d \in Artifacts(m) : ~ Clash(c, d)
      BY <1>1, <1>3, <2>1 DEF WorkerOK
    <2>3. PICK f \in Rows(m) : f.owner = c.owner /\ f.filename = BuildStorageName(c)
      BY <2>2 DEF Named
    <2>4. gone = {f}
      <3>1. f \in gone
        BY <1>4, <2>3 DEF Rows
      <3>2. \A e \in gone : e \in file_info /\ e.owner = f.owner /\ e.filename = f.filename
        BY <1>4, <2>3
      <3>3. \A e \in gone : e = f
        BY <2>1, <3>2 DEF BalanceOf, RowsUnique
      <3> QED BY <3>1, <3>3
    <2>5. Rows(m)' = Rows(m) \ {f}
      BY <1>4, <2>4 DEF Rows
    <2>6. Cardinality(Rows(m)') = Cardinality(Rows(m)) - 1
      BY <2>3, <2>5, RowsFinite, FS_RemoveElement
    <2>7. Counted(m)' = Counted(m) /\ Artifacts(m)' = Artifacts(m)
      BY <1>1 DEF Counted, Artifacts
    <2>8. ~ Releasing(m)
      BY <1>1, <1>2, <2>1 DEF BalanceOf, Solo, Releasing
    <2>9. Counted(m)' = Cardinality(Rows(m)') + 1
      <3>1. Counted(m) = Cardinality(Rows(m)) + 0
        BY <2>1, <2>8 DEF BalanceOf, CountOK
      <3> QED BY <2>6, <2>7, <3>1, RowsFinite
    <2>10. RowsUnique(m)'
      BY <1>4, <2>1, <2>5 DEF BalanceOf, RowsUnique
    <2>11. \A d \in Artifacts(m) : \E e \in Rows(m)' :
             e.owner = d.owner /\ e.filename = BuildStorageName(d)
      <3> SUFFICES ASSUME NEW d \in Artifacts(m)
                   PROVE  \E e \in Rows(m)' : e.owner = d.owner /\ e.filename = BuildStorageName(d)
        OBVIOUS
      <3>1. PICK e \in Rows(m) : e.owner = d.owner /\ e.filename = BuildStorageName(d)
        BY <2>1 DEF BalanceOf, ArtifactsOK, Named
      <3>2. e # f
        BY <2>2, <2>3, <3>1 DEF Clash
      <3> QED BY <2>5, <3>1, <3>2
    <2>12. ArtifactsOK(m)'
      BY <1>1, <2>1, <2>7, <2>11 DEF BalanceOf, ArtifactsOK, Named
    <2>13. WorkerOK(m, h)'
      BY <1>5, Unwatched DEF Watched
    <2> QED BY <1>2, <1>5, <2>1, <2>9, <2>10, <2>12, <2>13, OwnStep
  <1>8. ASSUME NEW k \in Md5s \ disturbed', k # m
        PROVE  /\ file_shared'[k] = file_shared[k] /\ Rows(k)' = Rows(k)
               /\ file_info' \subseteq file_info
               /\ \A d \in Coords : artifact_info'[d] # None /\ artifact_info'[d].checksum = k =>
                    artifact_info'[d] = artifact_info[d]
    <2>1. \A f \in gone : f.md5 # k
      BY <1>4, <1>8
    <2>2. Rows(k)' = Rows(k)
      BY <1>4, <2>1 DEF Rows
    <2> QED BY <1>1, <1>4, <2>2
  <1> QED BY <1>2, <1>5, <1>6, <1>7, <1>8, SplitBalance DEF Unbound

LEMMA DecrementRefBalance ==
  ASSUME IInv, BalanceInv, NEW h \in Handlers, DecrementRef(h)
  PROVE  BalanceInv'
  <1>1. /\ req[h].pc = "release" /\ UNCHANGED <<artifact_info, file_info, disturbed>>
        /\ ReqInv /\ Goto(h, "count")
    BY DEF DecrementRef, At, IInv
  <1>2. PICK m \in Md5s : m = req[h].md5
    BY <1>1 DEF ReqInv, ReqOK
  <1>3. /\ Change(h) /\ req'[h].pc = "count" /\ req'[h].md5 = m
    BY <1>1, <1>2, GotoStep DEF Late
  <1>4. SharedType
    BY DEF IInv, TableInv
  <1>5. ASSUME m \notin disturbed'
        PROVE  BalanceOf(m)'
    <2>1. BalanceOf(m)
      BY <1>1, <1>2, <1>5, Worker
    <2>2. Releasing(m)
      BY <1>1, <1>2 DEF Releasing
    <2>3. Counted(m) = Cardinality(Rows(m)) + 1
      BY <2>1, <2>2 DEF BalanceOf, CountOK
    <2>4. file_shared[m] # None /\ file_shared[m].ref_count = Cardinality(Rows(m)) + 1
      <3>1. Counted(m) # 0
        BY <2>3, RowsFinite
      <3> QED BY <2>3, <3>1 DEF Counted
    <2>5. file_shared[m] \in [file_id : Nat, ref_count : Nat] /\ file_shared[m].ref_count > 0
      BY <1>4, <2>4, RowsFinite DEF SharedType
    <2> DEFINE new == [file_shared[m] EXCEPT !.ref_count = file_shared[m].ref_count - 1]
    <2>6. file_shared' = [file_shared EXCEPT ![m] = new]
      BY <1>2, <2>4, <2>5 DEF DecrementRef
    <2>7. /\ new \in [file_id : Nat, ref_count : Nat]
          /\ new.file_id = file_shared[m].file_id
          /\ new.ref_count = file_shared[m].ref_count - 1
      BY <2>5
    <2> HIDE DEF new
    <2>8. file_shared'[m] = new /\ new # None
      BY <1>4, <2>6, <2>7, NoneAssumption DEF SharedType
    <2>9. Rows(m)' = Rows(m) /\ Artifacts(m)' = Artifacts(m)
      BY <1>1 DEF Rows, Artifacts
    <2>10. Counted(m)' = Cardinality(Rows(m)') + 0
      BY <2>4, <2>7, <2>8, <2>9, RowsFinite DEF Counted
    <2>11. RowsUnique(m)'
      BY <1>1, <2>1, <2>9 DEF BalanceOf, RowsUnique
    <2>12. ArtifactsOK(m)'
      BY <1>1, <2>1, <2>7, <2>8, <2>9 DEF BalanceOf, ArtifactsOK, Named
    <2>13. WorkerOK(m, h)'
      BY <1>3, Unwatched DEF Watched
    <2> QED BY <1>2, <1>3, <2>1, <2>10, <2>11, <2>12, <2>13, OwnStep
  <1>6. \A k \in Md5s \ {m} : file_shared'[k] = file_shared[k]
    BY <1>2, <1>4 DEF DecrementRef, SharedType
  <1>7. \A k \in Md5s \ disturbed' : k # m =>
         /\ file_shared'[k] = file_shared[k] /\ Rows(k)' = Rows(k)
         /\ file_info' \subseteq file_info
         /\ \A d \in Coords : artifact_info'[d] # None /\ artifact_info'[d].checksum = k =>
              artifact_info'[d] = artifact_info[d]
    BY <1>1, <1>6 DEF Rows
  <1> QED BY <1>1, <1>2, <1>3, <1>5, <1>7, SplitBalance DEF Unbound, BalanceInv

\* No row counts on the record any more, so no artifact of the checksum is left.
LEMMA DeleteSharedBalance ==
  ASSUME IInv, BalanceInv, NEW h \in Handlers, DeleteShared(h)
  PROVE  BalanceInv'
  <1>1. /\ req[h].pc = "unshare" /\ UNCHANGED <<artifact_info, file_info, disturbed>>
        /\ ReqInv /\ Goto(h, "erase")
    BY DEF DeleteShared, At, IInv
  <1>2. PICK m \in Md5s : m = req[h].md5
    BY <1>1 DEF ReqInv, ReqOK
  <1>3. /\ Change(h) /\ req'[h].pc = "erase" /\ req'[h].md5 = m
    BY <1>1, <1>2, GotoStep DEF Late
  <1>4. \A k \in Md5s : file_shared'[k] = IF k = m THEN None ELSE file_shared[k]
    BY <1>2 DEF DeleteShared, IInv, TableInv, SharedType
  <1>5. ASSUME m \notin disturbed'
        PROVE  BalanceOf(m)'
    <2>1. BalanceOf(m) /\ WorkerOK(m, h)
      BY <1>1, <1>2, <1>5, Worker
    <2>2. Counted(m) = 0
      BY <1>1, <2>1 DEF WorkerOK
    <2>3. ~ Releasing(m)
      BY <1>1, <1>2, <2>1 DEF BalanceOf, Solo, Releasing
    <2>4. Cardinality(Rows(m)) = 0
      <3>1. Counted(m) = Cardinality(Rows(m)) + 0
        BY <2>1, <2>3 DEF BalanceOf, CountOK
      <3> QED BY <2>2, <3>1, RowsFinite
    <2>5. Rows(m) = {}
      BY <2>4, RowsFinite, FS_EmptySet
    <2>6. Artifacts(m) = {}
      BY <2>1, <2>5 DEF BalanceOf, ArtifactsOK, Named
    <2>7. Rows(m)' = Rows(m) /\ Artifacts(m)' = Artifacts(m)
      BY <1>1 DEF Rows, Artifacts
    <2>8. Counted(m)' = Cardinality(Rows(m)') + 0
      BY <1>4, <2>4, <2>7 DEF Counted
    <2>9. RowsUnique(m)' /\ ArtifactsOK(m)'
      BY <2>5, <2>6, <2>7 DEF RowsUnique, ArtifactsOK
    <2>10. WorkerOK(m, h)'
      BY <1>3, Unwatched DEF Watched
    <2> QED BY <1>2, <1>3, <2>1, <2>8, <2>9, <2>10, OwnStep
  <1>6. \A k \in Md5s \ disturbed' : k # m =>
         /\ file_shared'[k] = file_shared[k] /\ Rows(k)' = Rows(k)
         /\ file_info' \subseteq file_info
         /\ \A d \in Coords : artifact_info'[d] # None /\ artifact_info'[d].checksum = k =>
              artifact_info'[d] = artifact_info[d]
    BY <1>1, <1>4 DEF Rows
  <1> QED BY <1>1, <1>2, <1>3, <1>5, <1>6, SplitBalance DEF Unbound, BalanceInv

LEMMA DeletePhysicalBalance ==
  ASSUME IInv, BalanceInv, NEW h \in Handlers, DeletePhysical(h)
  PROVE  BalanceInv'
  BY AnswerBalance DEF DeletePhysical, At, IInv

LEMMA InitBalance == Init => BalanceInv
  <1> SUFFICES ASSUME Init PROVE BalanceInv
    OBVIOUS
  <1>1. /\ \A h \in Handlers : req[h].md5 = None /\ req[h].pc = "idle"
        /\ file_info = {} /\ IsFiniteSet(file_info)
    BY IdleOK, FS_EmptySet DEF Init, StoreInit
  <1>2. ASSUME NEW m \in Md5s
        PROVE  BalanceOf(m)
    <2>1. Rows(m) = {} /\ Artifacts(m) = {} /\ file_shared[m] = None
      BY DEF Rows, Artifacts, Init, StoreInit
    <2>2. \A h \in Handlers : req[h].md5 # m
      BY <1>1, NoneAssumption
    <2>3. CountOK(m)
      BY <2>1, <2>2, FS_EmptySet DEF CountOK, Counted, Releasing
    <2> QED BY <2>1, <2>2, <2>3 DEF BalanceOf, Solo, RowsUnique, ArtifactsOK
  <1> QED BY <1>1, <1>2 DEF BalanceInv

LEMMA NextBalance == IInv /\ BalanceInv /\ [Next]_vars => BalanceInv'
  <1> SUFFICES ASSUME IInv, BalanceInv, [Next]_vars PROVE BalanceInv'
    OBVIOUS
  <1>1. ASSUME NEW h \in Handlers, StoreStep(h)
        PROVE  BalanceInv'
    <2>1. CASE Arrive(h) \/ CoordinateCheck(h)
      BY <2>1, ArriveBalance, CoordinateCheckBalance
    <2>2. CASE PrecheckOwned(h) \/ PrecheckOwnedId(h)
      BY <2>2, PrecheckOwnedBalance, PrecheckOwnedIdBalance
    <2>3. CASE PrecheckShared(h) \/ PrecheckSharedId(h) \/ PrecheckShare(h)
      BY <2>3, PrecheckSharedBalance, PrecheckSharedIdBalance, PrecheckShareBalance
    <2>4. CASE CreateArtifactCheck(h) \/ CreateArtifactInsert(h)
      BY <2>4, CreateArtifactCheckBalance, CreateArtifactInsertBalance
    <2>5. CASE DirectUpload(h, Whole) \/ Publish(h)
      BY <2>5, UploadBalance, PublishBalance
    <2>6. CASE DeleteFind(h) \/ DeleteArtifact(h) \/ DeleteFileRecord(h)
      BY <2>6, DeleteFindBalance, DeleteArtifactBalance, DeleteFileRecordBalance
    <2>7. CASE DecrementRef(h) \/ ReadRef(h)
      BY <2>7, DecrementRefBalance, ReadRefBalance
    <2>8. CASE DeleteShared(h) \/ DeletePhysical(h)
      BY <2>8, DeleteSharedBalance, DeletePhysicalBalance
    <2>9. CASE Fail(h) \/ QueryFails(h)
      BY <2>9, FailBalance, QueryFailsBalance
    <2> QED BY <1>1, <2>1, <2>2, <2>3, <2>4, <2>5, <2>6, <2>7, <2>8, <2>9 DEF StoreStep
  <1>2. ASSUME NEW h \in Handlers, ChunkStep(h)
        PROVE  BalanceInv'
    BY <1>2, ChunkBalance, MergeOpenBalance, UploadBalance DEF ChunkStep
  <1>3. CASE Crash
    BY <1>3, CrashBalance
  <1>4. CASE (\E t \in Tasks : FindExpired(t)) \/ RmExpired
    <2>1. /\ UNCHANGED <<req, artifact_info, file_info, file_shared>>
          /\ disturbed \subseteq disturbed'
      BY <1>4 DEF FindExpired, RmExpired, storeVars, tableVars
    <2> QED BY <2>1, CleanerBalance
  <1>5. CASE UNCHANGED vars
    BY <1>5, CleanerBalance DEF vars, storeVars
  <1> QED BY <1>1, <1>2, <1>3, <1>4, <1>5 DEF Next

(***************************************************************************)
(* For a checksum that nothing disturbed and no request works on,          *)
(* ref_count is the number of file_info rows, and every artifact row with  *)
(* the checksum names the shared blob: IncrementRef, CreateShared,         *)
(* DecrementRef and DeleteShared keep step with CreateFile and             *)
(* DeleteFileRecordByUserAndFilename, so a delete of one project's         *)
(* artifact never takes the file of another.                               *)
(***************************************************************************)
THEOREM StoreBalanced == Spec => []Balanced
  <1>1. ASSUME BalanceInv PROVE Balanced
    <2> SUFFICES ASSUME NEW m \in Md5s \ disturbed, \A h \in Handlers : req[h].md5 # m
                 PROVE  /\ Cardinality({f \in file_info : f.md5 = m}) =
                             IF file_shared[m] = None THEN 0 ELSE file_shared[m].ref_count
                        /\ \A c \in Coords :
                             artifact_info[c] # None /\ artifact_info[c].checksum = m =>
                               /\ file_shared[m] # None
                               /\ artifact_info[c].file_id = file_shared[m].file_id
      BY DEF Balanced
    <2>1. BalanceOf(m) /\ ~ Releasing(m)
      BY <1>1 DEF BalanceInv, Releasing
    <2>2. Counted(m) = Cardinality(Rows(m)) + 0
      BY <2>1 DEF BalanceOf, CountOK
    <2>3. Counted(m) = Cardinality(Rows(m))
      BY <1>1, <2>2, RowsFinite
    <2>4. \A c \in Coords : artifact_info[c] # None /\ artifact_info[c].checksum = m =>
            /\ file_shared[m] # None /\ artifact_info[c].file_id = file_shared[m].file_id
      BY <2>1 DEF BalanceOf, ArtifactsOK, Artifacts
    <2> QED BY <2>3, <2>4 DEF Counted, Rows
  <1>2. Spec => []BalanceInv
    BY InitBalance, NextBalance, AlwaysIInv, PTL DEF Spec
  <1> QED BY <1>1, <1>2, PTL

----------------------------------------------------------------------------
(***************************************************************************)
(* The content of the blobs.  A blob is whole when the merged file is, and *)
(* that is whole when MergeFiles was given every chunk in order and each   *)
(* chunk's file held the chunk.  For an undisturbed checksum one request   *)
(* at a time works on the task directory (Solo, above), so a chunk's file  *)
(* is empty only between its opening and its writing by that very request. *)
(***************************************************************************)

\* No two files of a directory have one name.
Unique(files) == \A i, j \in DOMAIN files : files[i].name = files[j].name => i = j

\* Handler h has opened chunk n of task t and has yet to write it.
Opens(h, t, n) == req[h].pc = "write" /\ Task(h) = t /\ req[h].index = n

\* A chunk's file holds the chunk, unless it has just been opened.
ChunksWhole(t) ==
  \A f \in Range(dir[t]) : f.name \in Chunks =>
    f.content = <<f.name>> \/ \E h \in Handlers : Opens(h, t, f.name)

\* The merged file, if there is one, holds every chunk in order.
MergedWhole(t) == \A f \in Range(dir[t]) : f.name = Merged => f.content = Whole

\* A list of indices that names chunks only names them all.
ListOK(list) == Range(list) \subseteq Chunks => list = Whole

AllUnique == \A t \in Tasks : Unique(dir[t])

WholeInv ==
  /\ AllUnique
  /\ \A h \in Handlers : req[h].pc = "copy" => ListOK(req[h].indices)
  /\ \A t \in Tasks : t[2] \notin disturbed => ChunksWhole(t)
  /\ \A h \in Handlers : req[h].pc = "upload" /\ req[h].md5 \notin disturbed =>
       MergedWhole(Task(h))
  /\ WholeBlobs

----------------------------------------------------------------------------
(* Indices *)

\* A set of naturals has a least element, which stands for induction.
LEMMA LeastNat ==
  ASSUME NEW T, T \subseteq Nat, T # {}
  PROVE  \E x \in T : \A y \in T : x <= y
<1> DEFINE R == OpToRel(<, Nat)
<1>1. IsWellFoundedOn(R, Nat)
  BY NatLessThanWellFounded, Zenon
<1>2. \A x, y \in Nat : y < x => <<y, x>> \in R
  BY DEF OpToRel
<1>3. PICK Q : Q = R
  OBVIOUS
<1>4. PICK x \in T : \A y \in T : ~(<<y, x>> \in Q)
  <2> HIDE DEF R
  <2>. QED  BY <1>1, <1>3, WFMin
<1>5. \A y \in T : ~(y < x)
  BY <1>2, <1>3, <1>4
<1>. QED  BY <1>5

\* Below each number of an initial segment of the naturals are as many as it says.
LEMMA ChunksInOrder == InOrder(Chunks) = Whole
  <1>1. TotalChunks \in Nat \ {0} /\ Cardinality(Chunks) = TotalChunks
    <2>1. 0 \in Int /\ TotalChunks - 1 \in Int /\ TotalChunks \in Nat \ {0}
      BY Bounds
    <2>2. Cardinality(Chunks) = IF 0 > TotalChunks - 1 THEN 0 ELSE TotalChunks - 1 - 0 + 1
      BY <2>1, FS_Interval DEF Chunks
    <2> QED BY <2>1, <2>2
  <1>2. ASSUME NEW j \in Chunks
        PROVE  Cardinality({i \in Chunks : i < j}) = j
    <2>1. j \in Nat /\ j < TotalChunks /\ j - 1 \in Int
      BY <1>1 DEF Chunks
    <2>2. {i \in Chunks : i < j} = 0 .. j - 1
      BY <1>1, <2>1 DEF Chunks
    <2>3. Cardinality(0 .. j - 1) = IF 0 > j - 1 THEN 0 ELSE j - 1 - 0 + 1
      BY <2>1, FS_Interval
    <2>4. Cardinality(0 .. j - 1) = j
      BY <2>1, <2>3
    <2> QED BY <2>2, <2>4
  <1> DEFINE rank(j) == Cardinality({i \in Chunks : i < j})
  <1>3. \A j \in Chunks : rank(j) = j
    BY <1>2
  <1> HIDE DEF rank
  <1>4. ASSUME NEW k \in 1 .. TotalChunks
        PROVE  (CHOOSE j \in Chunks : rank(j) = k - 1) = k - 1
    <2>1. k - 1 \in Chunks
      BY <1>1 DEF Chunks
    <2> QED BY <1>3, <2>1
  <1>5. [k \in 1 .. TotalChunks |-> CHOOSE j \in Chunks : rank(j) = k - 1] = Whole
    BY <1>4 DEF Whole
  <1> QED BY <1>1, <1>5 DEF InOrder, rank

LEMMA InOrderSeq ==
  ASSUME NEW S, IsFiniteSet(S)
  PROVE  /\ InOrder(S) \in Seq(Range(InOrder(S)))
         /\ Len(InOrder(S)) = Cardinality(S) /\ Cardinality(S) \in Nat
  <1>1. Cardinality(S) \in Nat
    BY FS_CardinalityType
  <1>2. PICK n \in Nat : n = Cardinality(S)
    BY <1>1
  <1>3. PICK q : q = InOrder(S)
    OBVIOUS
  <1> DEFINE at(k) == CHOOSE j \in S : Cardinality({i \in S : i < j}) = k - 1
  <1>4. q = [k \in 1 .. n |-> at(k)]
    BY <1>2, <1>3 DEF InOrder
  <1> HIDE DEF at
  <1>5. q \in [1 .. n -> Range(q)]
    BY <1>4 DEF Range
  <1>6. q \in Seq(Range(q)) /\ Len(q) = n
    BY <1>2, <1>4, <1>5
  <1> QED BY <1>1, <1>2, <1>3, <1>6

LEMMA NamesFinite ==
  ASSUME NEW S, S \subseteq Chunks
  PROVE  IsFiniteSet(S) /\ (Cardinality(S) = TotalChunks => S = Chunks)
  <1>1. TotalChunks - 1 \in Int /\ TotalChunks \in Nat \ {0}
    BY Bounds
  <1>2. IsFiniteSet(Chunks) /\ Cardinality(Chunks) = TotalChunks
    <2>1. /\ IsFiniteSet(Chunks)
          /\ Cardinality(Chunks) = IF 0 > TotalChunks - 1 THEN 0 ELSE TotalChunks - 1 - 0 + 1
      BY <1>1, FS_Interval DEF Chunks
    <2> QED BY <1>1, <2>1
  <1> QED BY <1>2, FS_Subset

\* A list of the right length that names chunks only names them all, in order.
LEMMA IndicesOK ==
  ASSUME LeadingNumber \notin Chunks, NEW t, Len(GetIndices(t)) = TotalChunks
  PROVE  ListOK(GetIndices(t))
  <1>1. PICK chunks : chunks = Names(t) \cap Chunks
    OBVIOUS
  <1>2. IsFiniteSet(chunks) /\ (Cardinality(chunks) = TotalChunks => chunks = Chunks)
    BY <1>1, NamesFinite
  <1>3. CASE Merged \notin Names(t) \/ LeadingNumber = None
    <2>1. GetIndices(t) = InOrder(chunks)
      BY <1>1, <1>3 DEF GetIndices
    <2>2. chunks = Chunks
      BY <1>2, <2>1, InOrderSeq
    <2> QED BY <2>1, <2>2, ChunksInOrder DEF ListOK
  <1>4. CASE ~ (Merged \notin Names(t) \/ LeadingNumber = None)
    <2>1. PICK below : below = {n \in chunks : n < LeadingNumber}
      OBVIOUS
    <2>2. GetIndices(t) = InOrder(below) \o <<LeadingNumber>> \o InOrder(chunks \ below)
      BY <1>1, <1>4, <2>1 DEF GetIndices
    <2>3. IsFiniteSet(below) /\ IsFiniteSet(chunks \ below)
      BY <1>2, <2>1, FS_Subset
    <2>4. PICK p, q : p = InOrder(below) /\ q = InOrder(chunks \ below)
      OBVIOUS
    <2>5. p \in Seq(Range(p)) /\ q \in Seq(Range(q))
      BY <2>3, <2>4, InOrderSeq
    <2>6. PICK S : S = Range(p) \cup Range(q) \cup {LeadingNumber}
      OBVIOUS
    <2>7. p \in Seq(S) /\ q \in Seq(S) /\ LeadingNumber \in S
      <3>1. Range(p) \subseteq S /\ Range(q) \subseteq S /\ LeadingNumber \in S
        BY <2>6
      <3> QED BY <2>5, <3>1, SeqMonotonic
    <2>8. PICK u : u = p \o <<LeadingNumber>>
      OBVIOUS
    <2>9. /\ u \in Seq(S) /\ Len(u) = Len(p) + 1 /\ Len(p) \in Nat
          /\ u[Len(p) + 1] = LeadingNumber
      BY <2>7, <2>8
    <2>10. PICK v : v = u \o q
      OBVIOUS
    <2>11. /\ v \in Seq(S) /\ Len(p) + 1 \in DOMAIN v
           /\ v[Len(p) + 1] = LeadingNumber
      BY <2>7, <2>9, <2>10
    <2>12. LeadingNumber \in Range(v)
      BY <2>11 DEF Range
    <2>13. GetIndices(t) = v
      BY <2>2, <2>4, <2>8, <2>10
    <2> QED BY <2>12, <2>13 DEF ListOK
  <1> QED BY <1>3, <1>4

\* The chunks one after the other.
LEMMA CopiedWhole ==
  ASSUME NEW s, s = [i \in 1 .. TotalChunks |-> <<i - 1>>]
  PROVE  FlattenSeq(s) = Whole
  <1>1. PICK n \in Nat \ {0} : n = TotalChunks
    BY Bounds
  <1> DEFINE e(i) == <<i - 1>>
  <1>2. s = [i \in 1 .. n |-> e(i)] /\ e(1) = <<0>>
    BY <1>1
  <1>2a. \A i \in 1 .. n : s[i] = e(i)
    <2> HIDE DEF e
    <2> QED BY <1>2
  <1>2b. Len(s) = n
    <2> HIDE DEF e
    <2>1. s \in [1 .. n -> Range(s)]
      BY <1>2 DEF Range
    <2> QED BY <1>1, <2>1
  <1> DEFINE Flat(g) == g = [i \in 1 .. n |-> IF i = 1 THEN s[i] ELSE g[i - 1] \o s[i]]
  <1>3. FlattenSeq(s) = (CHOOSE g : Flat(g))[n]
    BY <1>2b DEF FlattenSeq
  <1> DEFINE w(i) == [j \in 1 .. i |-> j - 1]
  <1>4. ASSUME NEW i \in 1 .. n, i # 1
        PROVE  w(i - 1) \o s[i] = w(i)
    <2>1. s[i] = <<i - 1>> /\ i - 1 \in Nat /\ i = (i - 1) + 1
      BY <1>2a, <1>4
    <2>2. PICK k \in Nat : k = i - 1
      BY <2>1
    <2>5. s[i] = <<k>> /\ i = k + 1
      BY <2>1, <2>2
    <2>3. w(k) \in Seq(Nat) /\ Len(w(k)) = k
      OBVIOUS
    <2>4. w(k) \o <<k>> = w(k + 1)
      BY <2>3
    <2> QED BY <2>2, <2>4, <2>5
  <1>5. w(1) = s[1]
    <2>1. s[1] = <<0>>
      BY <1>2, <1>2a
    <2>2. w(1) = <<0>>
      OBVIOUS
    <2> QED BY <2>1, <2>2
  <1> HIDE DEF w
  <1>6. Flat([i \in 1 .. n |-> w(i)])
    <2> DEFINE g == [i \in 1 .. n |-> w(i)]
    <2>1. ASSUME NEW i \in 1 .. n
          PROVE  g[i] = IF i = 1 THEN s[i] ELSE g[i - 1] \o s[i]
      <3>1. CASE i = 1
        BY <1>5, <3>1
      <3>2. CASE i # 1
        <4>1. i - 1 \in 1 .. n
          BY <3>2
        <4> QED BY <1>4, <3>2, <4>1
      <3> QED BY <3>1, <3>2
    <2> QED BY <2>1
  <1>7. PICK g : g = CHOOSE x : Flat(x)
    OBVIOUS
  <1>8. Flat(g)
    <2> HIDE DEF Flat
    <2> QED BY <1>6, <1>7
  <1>9. \A i \in 1 .. n : g[i] = w(i)
    <2> DEFINE T == {i \in 1 .. n : g[i] # w(i)}
    <2> SUFFICES ASSUME T # {} PROVE FALSE
      OBVIOUS
    <2>1. PICK i \in T : \A j \in T : i <= j
      <3>1. T \subseteq Nat
        OBVIOUS
      <3> HIDE DEF T
      <3> QED BY <3>1, LeastNat
    <2>2. i \in 1 .. n /\ g[i] # w(i)
      OBVIOUS
    <2>3. g[i] = IF i = 1 THEN s[i] ELSE g[i - 1] \o s[i]
      BY <1>8, <2>2
    <2>4. i # 1
      BY <1>5, <2>2, <2>3
    <2>5. i - 1 \in 1 .. n /\ i - 1 \notin T
      BY <2>1, <2>2, <2>4
    <2>6. g[i - 1] = w(i - 1)
      BY <2>5
    <2> QED BY <1>4, <2>2, <2>3, <2>4, <2>6
  <1>10. g[n] = w(n)
    BY <1>9
  <1> QED BY <1>1, <1>3, <1>7, <1>10 DEF w, Whole

----------------------------------------------------------------------------
(* Files *)

\* What is left when a file is removed.
LEMMA RemoveFiles ==
  ASSUME NEW files, FilesOK(files), Unique(files), NEW k \in DOMAIN files
  PROVE  /\ Unique(RemoveAt(files, k))
         /\ Range(RemoveAt(files, k)) = {f \in Range(files) : f.name # files[k].name}
  <1>1. PICK S : S = Range(files)
    OBVIOUS
  <1>2. PICK n \in Nat : n = Len(files)
    BY DEF FilesOK
  <1>3. files \in Seq(S) /\ DOMAIN files = 1 .. n /\ k \in 1 .. n
    BY <1>1, <1>2 DEF FilesOK
  <1>4. PICK rest : rest = RemoveAt(files, k)
    OBVIOUS
  <1>5. /\ DOMAIN rest = 1 .. n - 1
        /\ \A i \in 1 .. n - 1 : rest[i] = IF i < k THEN files[i] ELSE files[i + 1]
    <2>1. PICK p, q : p = SubSeq(files, 1, k - 1) /\ q = SubSeq(files, k + 1, n)
      OBVIOUS
    <2>2. p \in Seq(S) /\ Len(p) = k - 1 /\ \A i \in 1 .. k - 1 : p[i] = files[i]
      BY <1>2, <1>3, <2>1
    <2>3. q \in Seq(S) /\ Len(q) = n - k /\ \A i \in 1 .. n - k : q[i] = files[k + i]
      BY <1>2, <1>3, <2>1
    <2>4. rest = p \o q
      BY <1>2, <1>4, <2>1 DEF RemoveAt
    <2>5. /\ rest \in Seq(S) /\ Len(rest) = n - 1
          /\ \A i \in 1 .. n - 1 : rest[i] = IF i <= k - 1 THEN p[i] ELSE q[i - (k - 1)]
      <3>1. PICK a \in Nat, b \in Nat : a = k - 1 /\ b = n - k
        BY <1>3
      <3>2. Len(p) = a /\ Len(q) = b /\ n - 1 = a + b
        BY <1>3, <2>2, <2>3, <3>1
      <3>3. /\ rest \in Seq(S) /\ Len(rest) = a + b
            /\ \A i \in 1 .. a + b : rest[i] = IF i <= a THEN p[i] ELSE q[i - a]
        <4>1. p \in Seq(S) /\ q \in Seq(S)
          BY <2>2, <2>3
        <4>2. /\ p \o q \in Seq(S) /\ Len(p \o q) = Len(p) + Len(q)
              /\ \A i \in 1 .. Len(p) + Len(q) :
                   (p \o q)[i] = IF i <= Len(p) THEN p[i] ELSE q[i - Len(p)]
          BY <4>1, ConcatProperties
        <4> QED BY <2>4, <3>2, <4>2
      <3> QED BY <3>1, <3>2, <3>3
    <2>6. ASSUME NEW i \in 1 .. n - 1
          PROVE  rest[i] = IF i < k THEN files[i] ELSE files[i + 1]
      <3>1. CASE i < k
        BY <1>3, <2>2, <2>5, <3>1
      <3>2. CASE ~ (i < k)
        <4>1. i - (k - 1) \in 1 .. n - k /\ k + (i - (k - 1)) = i + 1 /\ ~ (i <= k - 1)
          BY <1>3, <3>2
        <4>2. rest[i] = q[i - (k - 1)]
          BY <2>5, <4>1
        <4>3. q[i - (k - 1)] = files[k + (i - (k - 1))]
          BY <2>3, <4>1
        <4> QED BY <3>2, <4>1, <4>2, <4>3
      <3> QED BY <3>1, <3>2
    <2> QED BY <1>2, <2>5, <2>6
  <1> DEFINE at(i) == IF i < k THEN i ELSE i + 1
  <1>6. \A i \in 1 .. n - 1 : at(i) \in 1 .. n /\ at(i) # k /\ rest[i] = files[at(i)]
    BY <1>3, <1>5
  <1>7. \A i, j \in 1 .. n - 1 : at(i) = at(j) => i = j
    BY <1>3
  <1>8. \A i \in 1 .. n : i # k => \E j \in 1 .. n - 1 : at(j) = i
    <2> SUFFICES ASSUME NEW i \in 1 .. n, i # k
                 PROVE  \E j \in 1 .. n - 1 : at(j) = i
      OBVIOUS
    <2>1. CASE i < k
      <3>1. i \in 1 .. n - 1 /\ at(i) = i
        BY <1>3, <2>1
      <3> QED BY <3>1
    <2>2. CASE ~ (i < k)
      <3>1. i - 1 \in 1 .. n - 1 /\ at(i - 1) = i
        BY <1>3, <2>2
      <3> QED BY <3>1
    <2> QED BY <2>1, <2>2
  <1> HIDE DEF at
  <1>9. \A i \in 1 .. n : files[i].name = files[k].name => i = k
    BY <1>3 DEF Unique
  <1>10. Unique(rest)
    <2> SUFFICES ASSUME NEW i \in 1 .. n - 1, NEW j \in 1 .. n - 1, rest[i].name = rest[j].name
                 PROVE  i = j
      BY <1>5 DEF Unique
    <2>1. at(i) = at(j)
      BY <1>3, <1>6 DEF Unique
    <2> QED BY <1>7, <2>1
  <1>11. ASSUME NEW f \in Range(rest)
         PROVE  f \in Range(files) /\ f.name # files[k].name
    <2>1. PICK i \in 1 .. n - 1 : f = rest[i]
      BY <1>5 DEF Range
    <2>2. f = files[at(i)] /\ at(i) \in 1 .. n /\ at(i) # k
      BY <1>6, <2>1
    <2> QED BY <1>3, <1>9, <2>2 DEF Range
  <1>12. ASSUME NEW f \in Range(files), f.name # files[k].name
         PROVE  f \in Range(rest)
    <2>1. PICK i \in 1 .. n : f = files[i]
      BY <1>3 DEF Range
    <2>2. i # k
      BY <1>12, <2>1
    <2>3. PICK j \in 1 .. n - 1 : at(j) = i
      BY <1>8, <2>2
    <2>4. f = rest[j]
      BY <1>6, <2>1, <2>3
    <2> QED BY <1>5, <2>4 DEF Range
  <1> QED BY <1>4, <1>10, <1>11, <1>12

LEMMA WithoutFiles ==
  ASSUME NEW files, FilesOK(files), Unique(files), NEW n
  PROVE  /\ Unique(Without(files, n))
         /\ Range(Without(files, n)) = {f \in Range(files) : f.name # n}
  <1>1. PICK named : named = {i \in DOMAIN files : files[i].name = n}
    OBVIOUS
  <1>2. CASE named = {}
    <2>1. Without(files, n) = files
      BY <1>1, <1>2 DEF Without
    <2>2. \A f \in Range(files) : f.name # n
      BY <1>1, <1>2 DEF Range
    <2> QED BY <2>1, <2>2
  <1>3. CASE named # {}
    <2>1. PICK k : k = CHOOSE i \in named : TRUE
      OBVIOUS
    <2>2. k \in DOMAIN files /\ files[k].name = n
      BY <1>1, <1>3, <2>1
    <2>3. Without(files, n) = RemoveAt(files, k)
      BY <1>1, <1>3, <2>1 DEF Without
    <2> QED BY <2>2, <2>3, RemoveFiles
  <1> QED BY <1>2, <1>3

LEMMA AppendFiles ==
  ASSUME NEW files, FilesOK(files), Unique(files), NEW f, \A g \in Range(files) : g.name # f.name
  PROVE  /\ Unique(Append(files, f))
         /\ Range(Append(files, f)) = Range(files) \cup {f}
  <1>1. PICK S : S = Range(files) \cup {f}
    OBVIOUS
  <1>2. files \in Seq(S) /\ f \in S
    <2>1. files \in Seq(Range(files)) /\ Range(files) \subseteq S
      BY <1>1 DEF FilesOK
    <2> QED BY <1>1, <2>1, SeqMonotonic
  <1>3. PICK n \in Nat : n = Len(files)
    BY <1>2
  <1>4. PICK all : all = Append(files, f)
    OBVIOUS
  <1>5. /\ DOMAIN files = 1 .. n /\ DOMAIN all = 1 .. n + 1
        /\ \A i \in 1 .. n : all[i] = files[i]
        /\ all[n + 1] = f
    BY <1>2, <1>3, <1>4
  <1>6. \A i \in 1 .. n : all[i].name # f.name
    BY <1>5 DEF Range
  <1>7. ASSUME NEW i \in 1 .. n + 1, NEW j \in 1 .. n + 1, all[i].name = all[j].name
        PROVE  i = j
    <2>1. i \in 1 .. n \/ i = n + 1
      OBVIOUS
    <2>2. j \in 1 .. n \/ j = n + 1
      OBVIOUS
    <2> QED BY <1>5, <1>6, <1>7, <2>1, <2>2 DEF Unique
  <1>8. Unique(all)
    BY <1>5, <1>7 DEF Unique
  <1>9. \A g : g \in Range(all) <=> \E i \in 1 .. n + 1 : g = all[i]
    BY <1>5 DEF Range
  <1>10. \A g : g \in Range(files) <=> \E i \in 1 .. n : g = files[i]
    BY <1>5 DEF Range
  <1>11. \A i \in 1 .. n + 1 : i \in 1 .. n \/ i = n + 1
    OBVIOUS
  <1>12. n + 1 \in 1 .. n + 1 /\ \A i \in 1 .. n : i \in 1 .. n + 1
    OBVIOUS
  <1>13. Range(all) = Range(files) \cup {f}
    BY <1>5, <1>9, <1>10, <1>11, <1>12
  <1> QED BY <1>4, <1>8, <1>13

\* What a step on task t does to the directories.
Becomes(t, files) ==
  /\ \A s \in Tasks : Unique(dir'[s])
  /\ Range(dir'[t]) = files
  /\ \A s \in Tasks \ {t} : dir'[s] = dir[s]

LEMMA WriteBecomes ==
  ASSUME DirOK, AllUnique, NEW t \in Tasks, NEW n, NEW content, WriteFile(t, n, content)
  PROVE  Becomes(t, {f \in Range(dir[t]) : f.name # n} \cup {[name |-> n, content |-> content]})
  <1> DEFINE new == [name |-> n, content |-> content]
  <1>1. new.name = n
    OBVIOUS
  <1>2. dir' = [dir EXCEPT ![t] = Append(Without(dir[t], n), new)]
    BY DEF WriteFile
  <1> HIDE DEF new
  <1>3. PICK rest : rest = Without(dir[t], n)
    OBVIOUS
  <1>4. FilesOK(rest) /\ Unique(rest) /\ Range(rest) = {f \in Range(dir[t]) : f.name # n}
    BY <1>3, WithoutOK, WithoutFiles DEF DirOK, AllUnique
  <1>5. Unique(Append(rest, new)) /\ Range(Append(rest, new)) = Range(rest) \cup {new}
    BY <1>1, <1>4, AppendFiles
  <1>6. dir'[t] = Append(rest, new) /\ \A s \in Tasks \ {t} : dir'[s] = dir[s]
    BY <1>2, <1>3 DEF DirOK
  <1> QED BY <1>4, <1>5, <1>6 DEF Becomes, AllUnique, new

LEMMA RemoveBecomes ==
  ASSUME DirOK, AllUnique, NEW t \in Tasks, NEW n, RemoveFile(t, n)
  PROVE  Becomes(t, {f \in Range(dir[t]) : f.name # n})
  <1>1. dir' = [dir EXCEPT ![t] = Without(dir[t], n)]
    BY DEF RemoveFile
  <1>2. /\ Unique(Without(dir[t], n))
        /\ Range(Without(dir[t], n)) = {f \in Range(dir[t]) : f.name # n}
    BY WithoutFiles DEF DirOK, AllUnique
  <1>3. dir'[t] = Without(dir[t], n) /\ \A s \in Tasks \ {t} : dir'[s] = dir[s]
    BY <1>1 DEF DirOK
  <1> QED BY <1>2, <1>3 DEF Becomes, AllUnique

LEMMA KeepBecomes ==
  ASSUME AllUnique, NEW t \in Tasks, dir' = dir
  PROVE  Becomes(t, Range(dir[t]))
  BY DEF Becomes, AllUnique

LEMMA ClearBecomes ==
  ASSUME DirOK, AllUnique, NEW t \in Tasks, dir' = [dir EXCEPT ![t] = <<>>]
  PROVE  Becomes(t, {})
  <1>1. dir'[t] = <<>> /\ \A s \in Tasks \ {t} : dir'[s] = dir[s]
    BY DEF DirOK
  <1>2. DOMAIN <<>> = {}
    OBVIOUS
  <1>3. Range(dir'[t]) = {} /\ Unique(dir'[t])
    BY <1>1, <1>2 DEF Range, Unique
  <1> QED BY <1>1, <1>3 DEF Becomes, AllUnique

----------------------------------------------------------------------------
(* Steps of the records *)

\* h leaves its task directory alone, and nothing it had opened.
Quits(h) ==
  /\ Change(h)
  /\ req'[h].pc \notin {"copy", "upload"}
  /\ req[h].pc = "write" => req[h].md5 \in disturbed'

LEMMA GotoQuits ==
  ASSUME ReqInv, NEW h \in Handlers, NEW pc \in (Early \cup Late) \ {"copy", "upload"},
         Goto(h, pc), req[h].pc \notin {"idle", "find", "write"}
  PROVE  Quits(h)
  BY GotoStep DEF Quits

LEMMA AnswerQuits ==
  ASSUME ReqInv, NEW h \in Handlers, Answer(h),
         req[h].pc = "write" => req[h].md5 \in disturbed'
  PROVE  Quits(h)
  BY AnswerStep DEF Quits

LEMMA DoneQuits ==
  ASSUME ReqInv, NEW h \in Handlers, Done(h), req[h].pc \notin {"idle", "find", "write"}
  PROVE  Quits(h)
  BY GotoQuits, AnswerQuits DEF Done, Late

\* The blobs stay, or change in what WholeBlobs does not look at.
LEMMA SameBlobs ==
  ASSUME WholeBlobs, disturbed \subseteq disturbed', DOMAIN blobs' = DOMAIN blobs,
         \A b \in DOMAIN blobs : blobs'[b].md5 = blobs[b].md5 /\ blobs'[b].content = blobs[b].content
  PROVE  WholeBlobs'
  BY DEF WholeBlobs

LEMMA QuitWhole ==
  ASSUME IInv, WholeInv, NEW h \in Handlers, Quits(h), dir' = dir,
         disturbed \subseteq disturbed', WholeBlobs'
  PROVE  WholeInv'
  <1>1. DOMAIN req' = Handlers /\ \A g \in Handlers \ {h} : req'[g] = req[g]
    BY DEF Quits, Change
  <1>2. AllUnique'
    BY DEF WholeInv, AllUnique, Unique
  <1>3. \A g \in Handlers : req'[g].pc = "copy" => ListOK(req'[g].indices)
    BY <1>1 DEF Quits, WholeInv
  <1>4. ASSUME NEW t \in Tasks, t[2] \notin disturbed'
        PROVE  ChunksWhole(t)'
    <2>1. ChunksWhole(t)
      BY <1>4 DEF WholeInv
    <2>2. ASSUME NEW g \in Handlers, NEW n, Opens(g, t, n)
          PROVE  Opens(g, t, n)'
      <3>1. g # h
        <4>1. req[g].pc = "write" /\ t = <<req[g].c.owner, req[g].md5>>
          BY <2>2 DEF Opens, Task
        <4>2. t[2] = req[g].md5
          BY <4>1
        <4> QED BY <1>4, <4>1, <4>2 DEF Quits
      <3>2. req'[g] = req[g]
        BY <1>1, <3>1
      <3> QED BY <2>2, <3>2 DEF Opens, Task
    <2> QED BY <2>1, <2>2 DEF ChunksWhole
  <1>5. ASSUME NEW g \in Handlers, req'[g].pc = "upload", req'[g].md5 \notin disturbed'
        PROVE  MergedWhole(Task(g))'
    <2>1. g # h
      BY <1>5 DEF Quits
    <2>2. req'[g] = req[g]
      BY <1>1, <2>1
    <2>3. MergedWhole(Task(g))
      BY <1>5, <2>2 DEF WholeInv
    <2>4. Task(g)' = Task(g)
      BY <2>2 DEF Task
    <2> QED BY <2>3, <2>4 DEF MergedWhole
  <1> QED BY <1>2, <1>3, <1>4, <1>5 DEF WholeInv

LEMMA StartWhole ==
  ASSUME IInv, WholeInv, NEW h \in Handlers, NEW op, NEW c, NEW m,
         NEW mode, NEW i, Start(h, op, c, m, mode, i), UNCHANGED fileVars
  PROVE  WholeInv'
  <1> DEFINE pc == IF op = "delete" THEN "find" ELSE IF mode THEN "check" ELSE "unchecked"
             r == [pc |-> pc, op |-> op, c |-> c, md5 |-> m, mode |-> mode,
                   id |-> NoId, index |-> i, indices |-> <<>>]
  <1>1. /\ req' = [req EXCEPT ![h] = r] /\ UNCHANGED blobs /\ dir' = dir
        /\ disturbed' = disturbed \cup Meets(h, c, m) /\ req[h].pc = "idle"
    BY DEF Start, Busy, fileVars
  <1>2. pc \in {"find", "check", "unchecked"}
    OBVIOUS
  <1> HIDE DEF pc
  <1>3. r.pc = pc
    OBVIOUS
  <1> HIDE DEF r
  <1>4. Quits(h)
    BY <1>1, <1>2, <1>3 DEF IInv, ReqInv, Change, Quits
  <1>5. WholeBlobs'
    BY <1>1, SameBlobs DEF WholeInv
  <1> QED BY <1>1, <1>4, <1>5, QuitWhole

\* Steps of the records that leave FastDFS alone.
LEMMA RecordWhole ==
  ASSUME IInv, WholeInv, NEW h \in Handlers, Quits(h), blobs' = blobs, UNCHANGED fileVars,
         disturbed \subseteq disturbed'
  PROVE  WholeInv'
  <1>1. WholeBlobs'
    BY SameBlobs DEF WholeInv
  <1> QED BY <1>1, QuitWhole DEF fileVars

LEMMA LookupQuits ==
  ASSUME ReqInv, NEW h \in Handlers,
         \/ CoordinateCheck(h) \/ PrecheckOwned(h) \/ PrecheckOwnedId(h)
         \/ PrecheckShared(h) \/ PrecheckSharedId(h)
  PROVE  Quits(h) /\ blobs' = blobs /\ disturbed \subseteq disturbed'
  <1>1. req[h].pc \in {"check", "unchecked", "ownedId", "shared", "sharedId"}
    BY DEF CoordinateCheck, PrecheckOwned, PrecheckOwnedId, PrecheckShared, PrecheckSharedId, At
  <1>2. blobs' = blobs /\ disturbed \subseteq disturbed'
    BY DEF CoordinateCheck, PrecheckOwned, PrecheckOwnedId, PrecheckShared, PrecheckSharedId
  <1>3. CASE CoordinateCheck(h) \/ PrecheckOwned(h) \/ PrecheckShared(h)
    <2>1. Answer(h) \/ \E pc \in {"unchecked", "shared", "ownedId", "sharedId"} : Goto(h, pc)
      BY <1>3 DEF CoordinateCheck, PrecheckOwned, PrecheckShared
    <2> QED BY <1>1, <1>2, <2>1, GotoQuits, AnswerQuits DEF Early, Late
  <1>4. ASSUME NEW pc \in {"artifact", "share"}, NEW id,
               req' = [req EXCEPT ![h].pc = pc, ![h].id = id]
        PROVE  Quits(h)
    <2>1. ReqOK(req[h]) /\ DOMAIN req = Handlers
      BY DEF ReqInv
    <2>2. req' = [req EXCEPT ![h] = [req[h] EXCEPT !.pc = pc, !.id = id]]
      BY <1>4
    <2>3. Change(h) /\ req'[h].pc = pc
      BY <2>1, <2>2 DEF Change, ReqOK
    <2> QED BY <1>1, <2>3 DEF Quits
  <1>5. CASE PrecheckOwnedId(h)
    BY <1>1, <1>4, <1>5, AnswerQuits DEF PrecheckOwnedId
  <1>6. CASE PrecheckSharedId(h)
    BY <1>1, <1>4, <1>6 DEF PrecheckSharedId
  <1> QED BY <1>2, <1>3, <1>5, <1>6

LEMMA RecordQuits ==
  ASSUME ReqInv, NEW h \in Handlers,
         \/ PrecheckShare(h) \/ CreateArtifactCheck(h) \/ CreateArtifactInsert(h) \/ Publish(h)
  PROVE  Quits(h) /\ blobs' = blobs /\ disturbed \subseteq disturbed'
  <1>1. req[h].pc \in {"share", "artifact", "insert", "publish"}
    BY DEF PrecheckShare, CreateArtifactCheck, CreateArtifactInsert, Publish, At
  <1>2. blobs' = blobs /\ disturbed \subseteq disturbed'
    BY DEF PrecheckShare, CreateArtifactCheck, CreateArtifactInsert, Publish, CreateFile
  <1>3. Answer(h) \/ Done(h) \/ Goto(h, "artifact") \/ Goto(h, "insert")
    BY DEF PrecheckShare, CreateArtifactCheck, CreateArtifactInsert, Publish
  <1> QED BY <1>1, <1>2, <1>3, GotoQuits, AnswerQuits, DoneQuits DEF Late

LEMMA DeleteQuits ==
  ASSUME ReqInv, NEW h \in Handlers,
         \/ DeleteFind(h) \/ DeleteArtifact(h) \/ DeleteFileRecord(h)
         \/ DecrementRef(h) \/ ReadRef(h) \/ DeleteShared(h)
  PROVE  Quits(h) /\ blobs' = blobs /\ disturbed \subseteq disturbed'
  <1>1. req[h].pc \in {"find", "unlist", "unfile", "release", "count", "unshare"}
    BY DEF DeleteFind, DeleteArtifact, DeleteFileRecord, DecrementRef, ReadRef, DeleteShared, At
  <1>2. blobs' = blobs /\ disturbed \subseteq disturbed'
    BY DEF DeleteFind, DeleteArtifact, DeleteFileRecord, DecrementRef, ReadRef, DeleteShared
  <1>3. CASE DeleteFind(h)
    <2>1. CASE Answer(h)
      BY <1>1, <1>2, <2>1, AnswerQuits
    <2>2. ASSUME NEW md5, NEW id,
                 req' = [req EXCEPT ![h].pc = "unlist", ![h].md5 = md5, ![h].id = id]
          PROVE  Quits(h)
      <3>1. ReqOK(req[h]) /\ DOMAIN req = Handlers
        BY DEF ReqInv
      <3>2. req' = [req EXCEPT ![h] = [req[h] EXCEPT !.pc = "unlist", !.md5 = md5, !.id = id]]
        BY <2>2
      <3>3. Change(h) /\ req'[h].pc = "unlist"
        BY <3>1, <3>2 DEF Change, ReqOK
      <3> QED BY <1>1, <3>3 DEF Quits
    <2> QED BY <1>2, <1>3, <2>1, <2>2 DEF DeleteFind
  <1>4. CASE ~ DeleteFind(h)
    <2>1. /\ Answer(h) \/ \E pc \in {"unfile", "release", "count", "unshare", "erase"} : Goto(h, pc)
          /\ req[h].pc # "find"
      BY <1>4 DEF DeleteArtifact, DeleteFileRecord, DecrementRef, ReadRef, DeleteShared, At
    <2> QED BY <1>1, <1>2, <2>1, GotoQuits, AnswerQuits DEF Late
  <1> QED BY <1>3, <1>4

LEMMA FailQuits ==
  ASSUME ReqInv, NEW h \in Handlers, Fail(h) \/ QueryFails(h)
  PROVE  Quits(h) /\ blobs' = blobs /\ disturbed \subseteq disturbed'
  <1>1. CASE Fail(h)
    <2>1. /\ disturbed' = disturbed \cup ({req[h].md5} \cap Md5s) /\ Answer(h) /\ blobs' = blobs
      BY <1>1 DEF Fail
    <2>2. req[h].pc = "write" => req[h].md5 \in Md5s
      BY DEF ReqInv, ReqOK
    <2> QED BY <2>1, <2>2, AnswerQuits
  <1>2. CASE QueryFails(h)
    <2>1. disturbed' = disturbed \cup {req[h].md5} /\ blobs' = blobs
      BY <1>2 DEF QueryFails
    <2>2. /\ \E pc \in {"unchecked", "shared", "share", "insert"} : Goto(h, pc)
          /\ req[h].pc \in {"check", "unchecked", "sharedId", "artifact"}
      BY <1>2 DEF QueryFails, At
    <2> QED BY <2>1, <2>2, GotoQuits DEF Early, Late
  <1> QED BY <1>1, <1>2

\* The new blob is whole unless its checksum is disturbed.
LEMMA UploadWholeBlobs ==
  ASSUME IInv, WholeBlobs, NEW h \in Handlers, NEW content, Upload(h, content),
         req[h].pc \notin {"idle", "find"}, disturbed' = disturbed,
         req[h].md5 \notin disturbed => content = Whole
  PROVE  WholeBlobs'
  <1>1. /\ BlobsOK' /\ Len(blobs') = Len(blobs) + 1 /\ Len(blobs) \in Nat
        /\ \A b \in 1 .. Len(blobs) : blobs'[b] = blobs[b]
        /\ blobs'[Len(blobs) + 1].md5 = req[h].md5
    BY UploadBlobs DEF IInv
  <1>2. blobs \in Seq(Range(blobs)) /\ blobs' \in Seq(Range(blobs'))
    <2>1. Range(blobs)' = Range(blobs')
      BY DEF Range
    <2> QED BY <1>1, <2>1 DEF IInv, BlobsOK
  <1>3. DOMAIN blobs = 1 .. Len(blobs) /\ DOMAIN blobs' = 1 .. Len(blobs) + 1
    BY <1>1, <1>2
  <1>4. blobs'[Len(blobs) + 1].content = content
    <2> DEFINE new == [md5 |-> req[h].md5, content |-> content, live |-> TRUE]
    <2>1. blobs' = Append(blobs, new) /\ new.content = content
      BY DEF Upload
    <2> HIDE DEF new
    <2>2. Append(blobs, new)[Len(blobs) + 1] = new
      <3>1. PICK S : S = Range(blobs) \cup {new}
        OBVIOUS
      <3>2. blobs \in Seq(S) /\ new \in S
        <4>1. Range(blobs) \subseteq S
          BY <3>1
        <4> QED BY <1>2, <3>1, <4>1, SeqMonotonic
      <3> QED BY <3>2
    <2> QED BY <2>1, <2>2
  <1>5. \A b \in 1 .. Len(blobs) + 1 : b \in 1 .. Len(blobs) \/ b = Len(blobs) + 1
    BY <1>1
  <1> QED BY <1>1, <1>3, <1>4, <1>5 DEF WholeBlobs

LEMMA DirectUploadWhole ==
  ASSUME IInv, WholeInv, NEW h \in Handlers, DirectUpload(h, Whole), UNCHANGED fileVars
  PROVE  WholeInv'
  <1>1. Upload(h, Whole) /\ req[h].pc = "unchecked" /\ disturbed' = disturbed
    BY DEF DirectUpload, At
  <1>2. WholeBlobs'
    BY <1>1, UploadWholeBlobs DEF WholeInv
  <1>3. Change(h) /\ req'[h].pc = "publish"
    BY <1>1, UploadBlobs DEF IInv
  <1>4. Quits(h)
    BY <1>1, <1>3 DEF Quits
  <1> QED BY <1>1, <1>2, <1>4, QuitWhole DEF fileVars

LEMMA DeletePhysicalWhole ==
  ASSUME IInv, WholeInv, NEW h \in Handlers, DeletePhysical(h), UNCHANGED fileVars
  PROVE  WholeInv'
  <1>1. /\ req[h].pc = "erase" /\ Answer(h) /\ disturbed' = disturbed
        /\ blobs' = IF req[h].id = NoId THEN blobs ELSE [blobs EXCEPT ![req[h].id].live = FALSE]
    BY DEF DeletePhysical, At
  <1>2. PICK id : id = req[h].id
    OBVIOUS
  <1>3. \A b \in DOMAIN blobs : DOMAIN blobs[b] = {"md5", "content", "live"}
    BY DEF IInv, BlobsOK
  <1>4. /\ DOMAIN blobs' = DOMAIN blobs
        /\ \A b \in DOMAIN blobs : blobs'[b].md5 = blobs[b].md5 /\ blobs'[b].content = blobs[b].content
    <2>1. CASE id = NoId
      BY <1>1, <1>2, <2>1
    <2>2. CASE id # NoId
      <3>1. blobs' = [blobs EXCEPT ![id] = [blobs[id] EXCEPT !.live = FALSE]]
        BY <1>1, <1>2, <2>2
      <3>2. ASSUME NEW b \in DOMAIN blobs
            PROVE  blobs'[b].md5 = blobs[b].md5 /\ blobs'[b].content = blobs[b].content
        <4>1. blobs'[b] = blobs[b] \/ blobs'[b] = [blobs[b] EXCEPT !.live = FALSE]
          BY <3>1
        <4>2. PICK r : r = blobs[b]
          OBVIOUS
        <4>3. [r EXCEPT !.live = FALSE].md5 = r.md5 /\ [r EXCEPT !.live = FALSE].content = r.content
          BY <1>3, <4>2
        <4> QED BY <4>1, <4>2, <4>3
      <3> QED BY <3>1, <3>2
    <2> QED BY <2>1, <2>2
  <1>5. WholeBlobs'
    BY <1>1, <1>4, SameBlobs DEF WholeInv
  <1>6. Quits(h)
    BY <1>1, AnswerQuits DEF IInv
  <1> QED BY <1>1, <1>5, <1>6, QuitWhole DEF fileVars

LEMMA StoreWhole ==
  ASSUME IInv, WholeInv, NEW h \in Handlers, StoreStep(h)
  PROVE  WholeInv'
  <1>1. UNCHANGED fileVars /\ ReqInv
    BY DEF StoreStep, IInv
  <1>2. CASE Arrive(h)
    BY <1>1, <1>2, StartWhole DEF Arrive
  <1>3. CASE \/ CoordinateCheck(h) \/ PrecheckOwned(h) \/ PrecheckOwnedId(h)
             \/ PrecheckShared(h) \/ PrecheckSharedId(h)
    BY <1>1, <1>3, LookupQuits, RecordWhole
  <1>4. CASE PrecheckShare(h) \/ CreateArtifactCheck(h) \/ CreateArtifactInsert(h) \/ Publish(h)
    BY <1>1, <1>4, RecordQuits, RecordWhole
  <1>5. CASE \/ DeleteFind(h) \/ DeleteArtifact(h) \/ DeleteFileRecord(h)
             \/ DecrementRef(h) \/ ReadRef(h) \/ DeleteShared(h)
    BY <1>1, <1>5, DeleteQuits, RecordWhole
  <1>6. CASE Fail(h) \/ QueryFails(h)
    BY <1>1, <1>6, FailQuits, RecordWhole
  <1>7. CASE DirectUpload(h, Whole) \/ DeletePhysical(h)
    BY <1>1, <1>7, DirectUploadWhole, DeletePhysicalWhole
  <1> QED BY <1>2, <1>3, <1>4, <1>5, <1>6, <1>7 DEF StoreStep

----------------------------------------------------------------------------
(* Steps on the chunk files *)

\* A step of h on its task directory.
LEMMA TaskWhole ==
  ASSUME IInv, BalanceInv, WholeInv, NEW h \in Handlers, NEW files,
         NEW t \in Tasks, t = Task(h),
         Change(h), req[h].pc \notin {"idle", "find"}, Becomes(t, files),
         disturbed' = disturbed, WholeBlobs',
         req'[h].pc = "copy" => ListOK(req'[h].indices),
         req[h].md5 \notin disturbed =>
           \A f \in files : f.name \in Chunks =>
             f.content = <<f.name>> \/ Opens(h, t, f.name)',
         req'[h].pc = "upload" =>
           /\ Task(h)' = t
           /\ req[h].md5 \notin disturbed =>
                \A f \in files : f.name = Merged => f.content = Whole
  PROVE  WholeInv'
  <1>1. t[2] = req[h].md5
    BY DEF Task
  <1>2. DOMAIN req' = Handlers /\ \A g \in Handlers \ {h} : req'[g] = req[g]
    BY DEF Change
  <1>3. /\ AllUnique' /\ Range(dir'[t]) = files
        /\ \A s \in Tasks \ {t} : dir'[s] = dir[s]
    BY <1>1 DEF Becomes, AllUnique, Unique
  <1>4. \A g \in Handlers : req'[g].pc = "copy" => ListOK(req'[g].indices)
    BY <1>2 DEF WholeInv
  <1>5. ASSUME NEW s \in Tasks, s[2] \notin disturbed'
        PROVE  ChunksWhole(s)'
    <2>1. CASE s = t
      <3>1. \A f \in files : f.name \in Chunks =>
              f.content = <<f.name>> \/ Opens(h, t, f.name)'
        <4>1. req[h].md5 \notin disturbed
          BY <1>1, <1>5, <2>1
        <4> QED BY <1>1, <4>1
      <3> QED BY <1>3, <2>1, <3>1 DEF ChunksWhole
    <2>2. CASE s # t
      <3>1. ChunksWhole(s) /\ dir'[s] = dir[s]
        BY <1>3, <1>5, <2>2 DEF WholeInv
      <3>2. ASSUME NEW g \in Handlers, NEW n, Opens(g, s, n)
            PROVE  Opens(g, s, n)'
        <4>1. req'[g] = req[g]
          BY <1>1, <1>2, <2>2, <3>2 DEF Opens
        <4> QED BY <3>2, <4>1 DEF Opens, Task
      <3> QED BY <3>1, <3>2 DEF ChunksWhole
    <2> QED BY <2>1, <2>2
  <1>6. ASSUME NEW g \in Handlers, req'[g].pc = "upload", req'[g].md5 \notin disturbed'
        PROVE  MergedWhole(Task(g))'
    <2>1. CASE g = h
      <3>1. Task(h)' = t /\ req[h].md5 \notin disturbed
        <4>1. Task(h)' = t
          BY <1>1, <1>6, <2>1
        <4>2. Task(h)' = <<req'[h].c.owner, req'[h].md5>>
          BY DEF Task
        <4>3. t[2] = req'[h].md5
          BY <4>1, <4>2
        <4> QED BY <1>1, <1>6, <2>1, <4>1, <4>3
      <3>2. \A f \in files : f.name = Merged => f.content = Whole
        BY <1>6, <2>1, <3>1
      <3> QED BY <1>3, <2>1, <3>1, <3>2 DEF MergedWhole
    <2>2. CASE g # h
      <3>1. req'[g] = req[g]
        BY <1>2, <2>2
      <3>2. MergedWhole(Task(g)) /\ Task(g)' = Task(g)
        BY <1>6, <3>1 DEF WholeInv, Task
      <3>3. Task(g) \in Tasks /\ req[g].md5 \in Md5s \ disturbed
        BY <1>6, <3>1, TaskOK DEF IInv, ReqInv, ReqOK
      <3>4. Task(g) # t
        <4> SUFFICES ASSUME Task(g) = t PROVE FALSE
          OBVIOUS
        <4>1. t[2] = req[g].md5
          BY DEF Task
        <4>2. Solo(req[g].md5)
          BY <3>3 DEF BalanceInv, BalanceOf
        <4> QED BY <1>1, <2>2, <4>1, <4>2 DEF Solo
      <3>5. dir'[Task(g)] = dir[Task(g)]
        BY <1>3, <3>3, <3>4
      <3> QED BY <3>2, <3>5 DEF MergedWhole
    <2> QED BY <2>1, <2>2
  <1> QED BY <1>3, <1>4, <1>5, <1>6 DEF WholeInv

\* Nobody but h works on its undisturbed checksum.
LEMMA OpensAlone ==
  ASSUME IInv, BalanceInv, NEW h \in Handlers, req[h].pc \notin {"idle", "find"},
         req[h].md5 \notin disturbed, NEW g \in Handlers, NEW n, Opens(g, Task(h), n)
  PROVE  g = h
  <1>1. req[g].md5 = req[h].md5
    <2>1. <<req[g].c.owner, req[g].md5>> = <<req[h].c.owner, req[h].md5>>
      BY DEF Opens, Task
    <2> QED BY <2>1
  <1>2. req[h].md5 \in Md5s \ disturbed
    BY DEF IInv, ReqInv, ReqOK
  <1>3. Solo(req[h].md5)
    BY <1>2 DEF BalanceInv, BalanceOf
  <1> QED BY <1>1, <1>3 DEF Solo

\* The chunks of an undisturbed task, but one that h has opened, are whole.
LEMMA ChunkContent ==
  ASSUME IInv, BalanceInv, WholeInv, NEW h \in Handlers, req[h].pc \notin {"idle", "find"},
         req[h].md5 \notin disturbed, NEW f \in Range(dir[Task(h)]), f.name \in Chunks
  PROVE  f.content = <<f.name>> \/ (req[h].pc = "write" /\ req[h].index = f.name)
  <1>1. Task(h) \in Tasks /\ Task(h)[2] = req[h].md5
    BY TaskOK DEF IInv, Task
  <1>2. ChunksWhole(Task(h))
    BY <1>1 DEF WholeInv
  <1>3. f.content = <<f.name>> \/ \E g \in Handlers : Opens(g, Task(h), f.name)
    BY <1>2 DEF ChunksWhole
  <1> QED BY <1>3, OpensAlone DEF Opens

LEMMA KeepBlobs ==
  ASSUME WholeInv, UNCHANGED <<tableVars, disturbed>>
  PROVE  WholeBlobs'
  BY SameBlobs DEF WholeInv, tableVars

LEMMA GotoIndex ==
  ASSUME ReqInv, NEW h \in Handlers, NEW pc \in Early \cup Late, Goto(h, pc),
         req[h].pc \notin {"idle", "find"}
  PROVE  req'[h].index = req[h].index /\ Task(h)' = Task(h)
  <1>1. ReqOK(req[h]) /\ DOMAIN req = Handlers
    BY DEF ReqInv
  <1>2. req' = [req EXCEPT ![h] = [req[h] EXCEPT !.pc = pc]]
    BY DEF Goto
  <1>3. req'[h].index = req[h].index
    BY <1>1, <1>2 DEF ReqOK
  <1>4. req'[h].c = req[h].c /\ req'[h].md5 = req[h].md5
    BY GotoStep
  <1> QED BY <1>3, <1>4 DEF Task

LEMMA SaveOpenWhole ==
  ASSUME IInv, BalanceInv, WholeInv, NEW h \in Handlers, SaveOpen(h)
  PROVE  WholeInv'
  <1>1. req[h].pc = "unchecked" /\ UNCHANGED <<tableVars, disturbed>>
    BY DEF SaveOpen, At
  <1>2. PICK t \in Tasks : t = Task(h)
    BY <1>1, TaskOK DEF IInv
  <1>3. PICK n : n = req[h].index
    OBVIOUS
  <1>4. DirOK /\ AllUnique /\ ReqInv
    BY DEF IInv, WholeInv
  <1>5. req[h].md5 \notin disturbed =>
          \A f \in Range(dir[t]) : f.name \in Chunks => f.content = <<f.name>>
    BY <1>1, <1>2, ChunkContent
  <1>6. CASE WriteFile(Task(h), req[h].index, <<>>) /\ Goto(h, "write")
    <2>1. Change(h) /\ req'[h].pc = "write"
      BY <1>1, <1>4, <1>6, GotoStep DEF Early
    <2>2. req'[h].index = n /\ Task(h)' = t
      BY <1>1, <1>2, <1>3, <1>4, <1>6, GotoIndex DEF Early
    <2>3. PICK new : new = [name |-> n, content |-> <<>>]
      OBVIOUS
    <2>4. PICK files : files = {f \in Range(dir[t]) : f.name # n} \cup {new}
      OBVIOUS
    <2>5. Becomes(t, files)
      BY <1>2, <1>3, <1>4, <1>6, <2>3, <2>4, WriteBecomes
    <2>6. Opens(h, t, n)'
      BY <2>1, <2>2 DEF Opens
    <2>7. new.name = n
      BY <2>3
    <2>8. req[h].md5 \notin disturbed =>
            \A f \in files : f.name \in Chunks =>
              f.content = <<f.name>> \/ Opens(h, t, f.name)'
      BY <1>5, <2>4, <2>6, <2>7
    <2> QED BY <1>1, <1>2, <2>1, <2>5, <2>8, KeepBlobs, TaskWhole
  <1>7. CASE RemoveFile(Task(h), req[h].index) /\ Goto(h, "rename")
    <2>1. Change(h) /\ req'[h].pc = "rename"
      BY <1>1, <1>4, <1>7, GotoStep DEF Early
    <2>2. PICK files : files = {f \in Range(dir[t]) : f.name # n}
      OBVIOUS
    <2>3. Becomes(t, files)
      BY <1>2, <1>3, <1>4, <1>7, <2>2, RemoveBecomes
    <2>4. req[h].md5 \notin disturbed =>
            \A f \in files : f.name \in Chunks =>
              f.content = <<f.name>> \/ Opens(h, t, f.name)'
      BY <1>5, <2>2
    <2> QED BY <1>1, <1>2, <2>1, <2>3, <2>4, KeepBlobs, TaskWhole
  <1> QED BY <1>6, <1>7 DEF SaveOpen

LEMMA SaveWriteWhole ==
  ASSUME IInv, BalanceInv, WholeInv, NEW h \in Handlers, SaveWrite(h)
  PROVE  WholeInv'
  <1>1. /\ req[h].pc \in {"write", "rename"} /\ Goto(h, "ready")
        /\ UNCHANGED <<tableVars, disturbed>>
    BY DEF SaveWrite
  <1>2. PICK t \in Tasks : t = Task(h)
    BY <1>1, TaskOK DEF IInv
  <1>3. PICK n : n = req[h].index
    OBVIOUS
  <1>4. DirOK /\ AllUnique /\ ReqInv
    BY DEF IInv, WholeInv
  <1>5. Change(h) /\ req'[h].pc = "ready"
    BY <1>1, <1>4, GotoStep DEF Early
  <1>6. req[h].md5 \notin disturbed =>
          \A f \in Range(dir[t]) : f.name \in Chunks /\ f.name # n => f.content = <<f.name>>
    BY <1>1, <1>2, <1>3, ChunkContent
  <1>7. CASE n \notin Names(t) /\ dir' = dir
    <2>1. \A f \in Range(dir[t]) : f.name # n
      BY <1>7 DEF Names, Range
    <2>2. PICK files : files = Range(dir[t])
      OBVIOUS
    <2>3. Becomes(t, files)
      BY <1>4, <1>7, <2>2, KeepBecomes
    <2>4. req[h].md5 \notin disturbed =>
            \A f \in files : f.name \in Chunks =>
              f.content = <<f.name>> \/ Opens(h, t, f.name)'
      BY <1>6, <2>1, <2>2
    <2> QED BY <1>1, <1>2, <1>5, <2>3, <2>4, KeepBlobs, TaskWhole
  <1>8. CASE WriteFile(t, n, <<n>>)
    <2>1. PICK new : new = [name |-> n, content |-> <<n>>]
      OBVIOUS
    <2>2. PICK files : files = {f \in Range(dir[t]) : f.name # n} \cup {new}
      OBVIOUS
    <2>3. Becomes(t, files)
      BY <1>4, <1>8, <2>1, <2>2, WriteBecomes
    <2>4. new.name = n /\ new.content = <<n>>
      BY <2>1
    <2>5. req[h].md5 \notin disturbed =>
            \A f \in files : f.name \in Chunks =>
              f.content = <<f.name>> \/ Opens(h, t, f.name)'
      BY <1>6, <2>2, <2>4
    <2> QED BY <1>1, <1>2, <1>5, <2>3, <2>5, KeepBlobs, TaskWhole
  <1>9. (n \notin Names(t) /\ dir' = dir) \/ WriteFile(t, n, <<n>>)
    BY <1>2, <1>3 DEF SaveWrite
  <1> QED BY <1>7, <1>8, <1>9

LEMMA ChunksReadyWhole ==
  ASSUME IInv, WholeInv, NEW h \in Handlers, ChunksReady(h)
  PROVE  WholeInv'
  <1>1. /\ req[h].pc = "ready" /\ UNCHANGED <<tableVars, disturbed, fileVars>>
        /\ Goto(h, "merge") \/ Answer(h)
    BY DEF ChunksReady, At
  <1>2. Quits(h)
    BY <1>1, GotoQuits, AnswerQuits DEF IInv, Early
  <1> QED BY <1>1, <1>2, RecordWhole DEF tableVars

LEMMA MergeOpenWhole ==
  ASSUME LeadingNumber \notin Chunks, IInv, BalanceInv, WholeInv, NEW h \in Handlers, MergeOpen(h)
  PROVE  WholeInv'
  <1>1. req[h].pc = "merge" /\ UNCHANGED <<tableVars, disturbed>>
        /\ UNCHANGED <<expired, cleaned>>
    BY DEF MergeOpen, At
  <1>2. PICK t \in Tasks : t = Task(h)
    BY <1>1, TaskOK DEF IInv
  <1>3. DirOK /\ AllUnique /\ ReqInv
    BY DEF IInv, WholeInv
  <1>4. CASE Answer(h) /\ dir' = dir
    <2>1. Quits(h)
      BY <1>1, <1>3, <1>4, AnswerQuits
    <2> QED BY <1>1, <1>4, <2>1, RecordWhole DEF tableVars, fileVars
  <1>5. CASE /\ Len(GetIndices(t)) = TotalChunks /\ WriteFile(t, Merged, <<>>)
             /\ req' = [req EXCEPT ![h].pc = "copy", ![h].indices = GetIndices(t)]
    <2>1. PICK list : list = GetIndices(t)
      OBVIOUS
    <2>2. ListOK(list)
      BY <1>5, <2>1, IndicesOK
    <2>3. ReqOK(req[h]) /\ DOMAIN req = Handlers
      BY <1>3 DEF ReqInv
    <2>4. req' = [req EXCEPT ![h] = [req[h] EXCEPT !.pc = "copy", !.indices = list]]
      BY <1>5, <2>1
    <2>5. Change(h) /\ req'[h].pc = "copy" /\ req'[h].indices = list
      BY <2>3, <2>4 DEF Change, ReqOK
    <2>6. PICK new : new = [name |-> Merged, content |-> <<>>]
      OBVIOUS
    <2>7. PICK files : files = {f \in Range(dir[t]) : f.name # Merged} \cup {new}
      OBVIOUS
    <2>8. Becomes(t, files)
      BY <1>3, <1>5, <2>6, <2>7, WriteBecomes
    <2>9. new.name \notin Chunks
      BY <2>6, Bounds DEF Merged, Chunks
    <2>10. req[h].md5 \notin disturbed =>
             \A f \in Range(dir[t]) : f.name \in Chunks => f.content = <<f.name>>
      BY <1>1, <1>2, ChunkContent
    <2>11. req[h].md5 \notin disturbed =>
             \A f \in files : f.name \in Chunks =>
               f.content = <<f.name>> \/ Opens(h, t, f.name)'
      BY <2>7, <2>9, <2>10
    <2> QED BY <1>1, <1>2, <2>2, <2>5, <2>8, <2>11, KeepBlobs, TaskWhole
  <1> QED BY <1>2, <1>4, <1>5 DEF MergeOpen

\* What MergeFiles copies when every listed chunk is there.
LEMMA CopyChunks ==
  ASSUME IInv, BalanceInv, WholeInv, NEW h \in Handlers, req[h].pc = "copy",
         req[h].md5 \notin disturbed, NEW t, t = Task(h), NEW list, list = req[h].indices,
         Range(list) \subseteq Names(t) \cap Chunks
  PROVE  FlattenSeq([i \in DOMAIN list |-> Content(t, list[i])]) = Whole
  <1>1. list = Whole
    BY DEF WholeInv, ListOK
  <1>2. DOMAIN list = 1 .. TotalChunks /\ \A i \in 1 .. TotalChunks : list[i] = i - 1
    BY <1>1 DEF Whole
  <1>3. \A n \in Chunks : n \in Names(t) => Content(t, n) = <<n>>
    <2> SUFFICES ASSUME NEW n \in Chunks, n \in Names(t)
                 PROVE  Content(t, n) = <<n>>
      OBVIOUS
    <2>1. \E f \in Range(dir[t]) : f.name = n
      BY DEF Names, Range
    <2>2. PICK f : f = CHOOSE g \in Range(dir[t]) : g.name = n
      OBVIOUS
    <2>3. f \in Range(dir[t]) /\ f.name = n
      BY <2>1, <2>2
    <2>4. f.content = <<n>>
      BY <2>3, ChunkContent
    <2> QED BY <2>2, <2>4 DEF Content
  <1>4. \A i \in 1 .. TotalChunks : list[i] \in Names(t) \cap Chunks
    BY <1>2 DEF Range
  <1>5. \A i \in 1 .. TotalChunks : Content(t, list[i]) = <<i - 1>>
    BY <1>2, <1>3, <1>4
  <1>6. [i \in DOMAIN list |-> Content(t, list[i])] = [i \in 1 .. TotalChunks |-> <<i - 1>>]
    BY <1>2, <1>5
  <1> QED BY <1>6, CopiedWhole

LEMMA MergeCopyWhole ==
  ASSUME IInv, BalanceInv, WholeInv, NEW h \in Handlers, MergeCopy(h)
  PROVE  WholeInv'
  <1>1. req[h].pc = "copy" /\ UNCHANGED <<tableVars, disturbed>>
        /\ UNCHANGED <<expired, cleaned>>
    BY DEF MergeCopy, At
  <1>2. PICK t \in Tasks : t = Task(h)
    BY <1>1, TaskOK DEF IInv
  <1>3. DirOK /\ AllUnique /\ ReqInv
    BY DEF IInv, WholeInv
  <1>4. PICK list : list = req[h].indices
    OBVIOUS
  <1>5. PICK copied : copied = FlattenSeq([i \in DOMAIN list |-> Content(t, list[i])])
    OBVIOUS
  <1>6. \/ Answer(h) /\ dir' = dir
        \/ /\ Range(list) \subseteq Names(t) \cap Chunks
           /\ \/ WriteFile(t, Merged, copied)
              \/ Merged \notin Names(t) /\ dir' = dir
           /\ Goto(h, "upload")
    BY <1>2, <1>4, <1>5 DEF MergeCopy
  <1>7. CASE Answer(h) /\ dir' = dir
    <2>1. Quits(h)
      BY <1>1, <1>3, <1>7, AnswerQuits
    <2> QED BY <1>1, <1>7, <2>1, RecordWhole DEF tableVars, fileVars
  <1>8. CASE Range(list) \subseteq Names(t) \cap Chunks /\ Goto(h, "upload")
    <2>1. Change(h) /\ req'[h].pc = "upload" /\ Task(h)' = t
      BY <1>1, <1>2, <1>3, <1>8, GotoStep, GotoIndex DEF Early
    <2>2. req[h].md5 \notin disturbed =>
            \A f \in Range(dir[t]) : f.name \in Chunks => f.content = <<f.name>>
      BY <1>1, <1>2, ChunkContent
    <2>3. req[h].md5 \notin disturbed => copied = Whole
      BY <1>1, <1>2, <1>4, <1>5, <1>8, CopyChunks
    <2>4. CASE WriteFile(t, Merged, copied)
      <3>1. PICK new : new = [name |-> Merged, content |-> copied]
        OBVIOUS
      <3>2. PICK files : files = {f \in Range(dir[t]) : f.name # Merged} \cup {new}
        OBVIOUS
      <3>3. Becomes(t, files)
        BY <1>3, <2>4, <3>1, <3>2, WriteBecomes
      <3>4. new.name \notin Chunks /\ new.content = copied
        BY <3>1, Bounds DEF Merged, Chunks
      <3>5. req[h].md5 \notin disturbed =>
              \A f \in files : f.name \in Chunks =>
                f.content = <<f.name>> \/ Opens(h, t, f.name)'
        BY <2>2, <3>2, <3>4
      <3>6. req[h].md5 \notin disturbed =>
              \A f \in files : f.name = Merged => f.content = Whole
        BY <2>3, <3>2, <3>4
      <3> QED BY <1>1, <1>2, <2>1, <3>3, <3>5, <3>6, KeepBlobs, TaskWhole
    <2>5. CASE Merged \notin Names(t) /\ dir' = dir
      <3>1. \A f \in Range(dir[t]) : f.name # Merged
        BY <2>5 DEF Names, Range
      <3>2. PICK files : files = Range(dir[t])
        OBVIOUS
      <3>3. Becomes(t, files)
        BY <1>3, <2>5, <3>2, KeepBecomes
      <3> QED BY <1>1, <1>2, <2>1, <2>2, <3>1, <3>2, <3>3, KeepBlobs, TaskWhole
    <2> QED BY <1>6, <1>7, <2>4, <2>5
  <1> QED BY <1>6, <1>7, <1>8

LEMMA UploadBigWhole ==
  ASSUME IInv, BalanceInv, WholeInv, NEW h \in Handlers, UploadBig(h)
  PROVE  WholeInv'
  <1>1. req[h].pc = "upload" /\ disturbed' = disturbed /\ UNCHANGED fileVars
    BY DEF UploadBig, At
  <1>2. CASE Answer(h) /\ UNCHANGED blobs
    <2>1. Quits(h)
      BY <1>1, <1>2, AnswerQuits DEF IInv
    <2> QED BY <1>1, <1>2, <2>1, RecordWhole
  <1>3. CASE Merged \in Names(Task(h)) /\ Upload(h, Content(Task(h), Merged))
    <2>1. PICK t : t = Task(h)
      OBVIOUS
    <2>2. PICK content : content = Content(t, Merged)
      OBVIOUS
    <2>3. req[h].md5 \notin disturbed => content = Whole
      <3> SUFFICES ASSUME req[h].md5 \notin disturbed PROVE content = Whole
        OBVIOUS
      <3>1. MergedWhole(t)
        BY <1>1, <2>1 DEF WholeInv
      <3>2. \E f \in Range(dir[t]) : f.name = Merged
        BY <1>3, <2>1 DEF Names, Range
      <3>3. PICK f : f = CHOOSE g \in Range(dir[t]) : g.name = Merged
        OBVIOUS
      <3>4. f \in Range(dir[t]) /\ f.name = Merged
        BY <3>2, <3>3
      <3> QED BY <2>2, <3>1, <3>3, <3>4 DEF Content, MergedWhole
    <2>4. Upload(h, content)
      BY <1>3, <2>1, <2>2
    <2>5. WholeBlobs'
      BY <1>1, <2>3, <2>4, UploadWholeBlobs DEF WholeInv
    <2>6. Change(h) /\ req'[h].pc = "publish"
      BY <1>1, <2>4, UploadBlobs DEF IInv
    <2>7. Quits(h)
      BY <1>1, <2>6 DEF Quits
    <2> QED BY <1>1, <2>5, <2>7, QuitWhole DEF fileVars
  <1> QED BY <1>2, <1>3 DEF UploadBig

LEMMA CleanupWhole ==
  ASSUME IInv, BalanceInv, WholeInv, NEW h \in Handlers, Cleanup(h)
  PROVE  WholeInv'
  <1>1. /\ req[h].pc = "cleanup" /\ UNCHANGED <<tableVars, disturbed>> /\ Answer(h)
        /\ dir' = [dir EXCEPT ![Task(h)] = <<>>]
    BY DEF Cleanup, At
  <1>2. PICK t \in Tasks : t = Task(h)
    BY <1>1, TaskOK DEF IInv
  <1>3. PICK files : files = {}
    OBVIOUS
  <1>4. Becomes(t, files)
    BY <1>1, <1>2, <1>3, ClearBecomes DEF IInv, WholeInv
  <1>5. Change(h) /\ req'[h].pc = "idle"
    BY <1>1, AnswerStep DEF IInv
  <1> QED BY <1>1, <1>2, <1>3, <1>4, <1>5, KeepBlobs, TaskWhole

\* Fewer files, the same requests.
LEMMA LessWhole ==
  ASSUME WholeInv, req' = req, disturbed \subseteq disturbed', blobs' = blobs, AllUnique',
         \A t \in Tasks : Range(dir'[t]) \subseteq Range(dir[t]), ReqInv
  PROVE  WholeInv'
  <1>1. WholeBlobs'
    BY SameBlobs DEF WholeInv
  <1>2. \A h : Task(h)' = Task(h)
    BY DEF Task
  <1>3. ASSUME NEW t \in Tasks, t[2] \notin disturbed'
        PROVE  ChunksWhole(t)'
    <2>1. ChunksWhole(t)
      BY <1>3 DEF WholeInv
    <2>2. \A h, n : Opens(h, t, n) => Opens(h, t, n)'
      BY <1>2 DEF Opens
    <2> QED BY <2>1, <2>2 DEF ChunksWhole
  <1>4. ASSUME NEW h \in Handlers, req'[h].pc = "upload", req'[h].md5 \notin disturbed'
        PROVE  MergedWhole(Task(h))'
    <2>1. MergedWhole(Task(h)) /\ Task(h) \in Tasks
      BY <1>4, TaskOK DEF WholeInv
    <2> QED BY <1>2, <2>1 DEF MergedWhole
  <1>5. \A h \in Handlers : req'[h].pc = "copy" => ListOK(req'[h].indices)
    BY DEF WholeInv
  <1> QED BY <1>1, <1>3, <1>4, <1>5 DEF WholeInv

LEMMA CleanerWhole ==
  ASSUME IInv, WholeInv, (\E t \in Tasks : FindExpired(t)) \/ RmExpired
  PROVE  WholeInv'
  <1>1. CASE \E t \in Tasks : FindExpired(t)
    <2>1. req' = req /\ disturbed' = disturbed /\ blobs' = blobs /\ dir' = dir
      BY <1>1 DEF FindExpired, storeVars
    <2>2. AllUnique'
      BY <2>1 DEF WholeInv, AllUnique, Unique
    <2> QED BY <2>1, <2>2, LessWhole DEF IInv
  <1>2. CASE RmExpired
    <2>1. /\ RemoveFile(expired[1], expired[2]) /\ req' = req /\ blobs' = blobs
          /\ disturbed \subseteq disturbed' /\ expired # None
      BY <1>2 DEF RmExpired, tableVars
    <2>2. PICK t \in Tasks : t = expired[1]
      BY <2>1 DEF IInv, DirOK
    <2>3. PICK n : n = expired[2]
      OBVIOUS
    <2>4. PICK files : files = {f \in Range(dir[t]) : f.name # n}
      OBVIOUS
    <2>5. Becomes(t, files)
      BY <2>1, <2>2, <2>3, <2>4, RemoveBecomes DEF IInv, WholeInv
    <2>6. AllUnique' /\ \A s \in Tasks : Range(dir'[s]) \subseteq Range(dir[s])
      BY <2>4, <2>5 DEF Becomes, AllUnique, Unique
    <2> QED BY <2>1, <2>6, LessWhole DEF IInv
  <1> QED BY <1>1, <1>2

LEMMA CrashWhole ==
  ASSUME IInv, WholeInv, Crash, UNCHANGED fileVars
  PROVE  WholeInv'
  <1>1. /\ req' = [h \in Handlers |-> Idle] /\ blobs' = blobs /\ dir' = dir
        /\ disturbed' = disturbed \cup ({req[h].md5 : h \in Handlers} \cap Md5s)
    BY DEF Crash, fileVars
  <1>2. \A h \in Handlers : req'[h].pc = "idle"
    BY <1>1, IdleOK
  <1>3. WholeBlobs'
    BY <1>1, SameBlobs DEF WholeInv
  <1>4. AllUnique'
    BY <1>1 DEF WholeInv, AllUnique, Unique
  <1>5. ASSUME NEW t \in Tasks, t[2] \notin disturbed'
        PROVE  ChunksWhole(t)'
    <2>1. ChunksWhole(t)
      BY <1>1, <1>5 DEF WholeInv
    <2>2. ASSUME NEW h \in Handlers, NEW n, Opens(h, t, n)
          PROVE  FALSE
      <3>1. req[h].pc = "write" /\ t = <<req[h].c.owner, req[h].md5>>
        BY <2>2 DEF Opens, Task
      <3>2. t[2] = req[h].md5
        BY <3>1
      <3>3. req[h].md5 \in Md5s
        BY <3>1 DEF IInv, ReqInv, ReqOK
      <3> QED BY <1>1, <1>5, <3>2, <3>3
    <2> QED BY <1>1, <2>1, <2>2 DEF ChunksWhole
  <1> QED BY <1>2, <1>3, <1>4, <1>5 DEF WholeInv

LEMMA InitWhole == Init => WholeInv
  <1> SUFFICES ASSUME Init PROVE WholeInv
    OBVIOUS
  <1>1. \A h \in Handlers : req[h].pc = "idle"
    BY IdleOK DEF Init, StoreInit
  <1>2. blobs = <<>> /\ DOMAIN blobs = {}
    BY DEF Init, StoreInit
  <1>3. WholeBlobs
    BY <1>2 DEF WholeBlobs
  <1>4. \A t \in Tasks : dir[t] = <<>>
    BY DEF Init
  <1>5. DOMAIN <<>> = {}
    OBVIOUS
  <1>6. \A t \in Tasks : DOMAIN dir[t] = {}
    BY <1>4, <1>5
  <1>7. AllUnique /\ \A t \in Tasks : Range(dir[t]) = {}
    BY <1>6 DEF AllUnique, Unique, Range
  <1>8. \A t \in Tasks : ChunksWhole(t)
    BY <1>7 DEF ChunksWhole
  <1> QED BY <1>1, <1>3, <1>7, <1>8 DEF WholeInv

LEMMA NextWhole ==
  ASSUME LeadingNumber \notin Chunks, IInv, BalanceInv, WholeInv, [Next]_vars
  PROVE  WholeInv'
  <1>1. ASSUME NEW h \in Handlers, StoreStep(h)
        PROVE  WholeInv'
    BY <1>1, StoreWhole
  <1>2. ASSUME NEW h \in Handlers, ChunkStep(h)
        PROVE  WholeInv'
    BY <1>2, SaveOpenWhole, SaveWriteWhole, ChunksReadyWhole, MergeOpenWhole, MergeCopyWhole,
       UploadBigWhole, CleanupWhole DEF ChunkStep
  <1>3. CASE Crash /\ UNCHANGED fileVars
    BY <1>3, CrashWhole
  <1>4. CASE (\E t \in Tasks : FindExpired(t)) \/ RmExpired
    BY <1>4, CleanerWhole
  <1>5. CASE UNCHANGED vars
    <2>1. req' = req /\ disturbed' = disturbed /\ blobs' = blobs /\ dir' = dir
      BY <1>5 DEF vars, storeVars
    <2>2. AllUnique'
      BY <2>1 DEF WholeInv, AllUnique, Unique
    <2> QED BY <2>1, <2>2, LessWhole DEF IInv
  <1> QED BY <1>1, <1>2, <1>3, <1>4, <1>5 DEF Next

(***************************************************************************)
(* When no merged file can be taken for a chunk (its checksum starts with  *)
(* a letter, or with a number that is no chunk's), every blob uploaded for *)
(* an undisturbed checksum holds each chunk once and in order: saveChunk,  *)
(* isAllChunksReady, mergeChunks and uploadBigFile lose and swap nothing,  *)
(* whatever is sent again, expires or is left behind.                      *)
(***************************************************************************)
THEOREM StoreWholeBlobs == LeadingNumber \notin Chunks => (Spec => []WholeBlobs)
  <1> SUFFICES ASSUME LeadingNumber \notin Chunks
               PROVE  Spec => []WholeBlobs
    OBVIOUS
  <1>1. IInv /\ BalanceInv /\ WholeInv /\ [Next]_vars => WholeInv'
    BY NextWhole
  <1>2. WholeInv => WholeBlobs
    BY DEF WholeInv
  <1>3. Spec => []BalanceInv
    BY InitBalance, NextBalance, AlwaysIInv, PTL DEF Spec
  <1> QED BY <1>1, <1>2, <1>3, InitWhole, AlwaysIInv, PTL DEF Spec
=============================================================================
