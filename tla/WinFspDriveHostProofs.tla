----------------------- MODULE WinFspDriveHostProofs -----------------------
(***************************************************************************)
(* What WinFspDriveHost guarantees for any number of open files, paths and *)
(* contents.                                                               *)
(***************************************************************************)
EXTENDS WinFspDriveHost, TLAPS

\* The inductive part, for the record of one handle: only the copies of open files are
\* dirty, a dirty copy carries a change, and what is being uploaded is dirty and is the
\* copy as it is now.  A call has its paths.
Kept(r) ==
    /\ r.dirty => r.owed /\ r.pc \in {"open"} \cup Uploading
    /\ r.pc \in Uploading => r.dirty /\ r.sent = r.local
    /\ r.owed /\ ~r.dirty => r.pc \in {"idle", "open"}
    /\ r.pc # "idle" => r.path \in Paths
    /\ r.pc = "move" => r.dest \in Paths

\* A change that is not in a dirty copy any more was reported lost, or dropped by release.
Reported(r) == r.owed => r.dirty \/ (r.pc = "idle" /\ r.reply \in {"error", "unheard"})

IInv == TypeOK /\ \A h \in Handles : Kept(handle[h])

LEMMA IdleIsKept ==
    /\ Idle \in HandleRecord /\ Kept(Idle)
    /\ \A b \in BOOLEAN : [Idle EXCEPT !.owed = b, !.reply = "error"] \in HandleRecord
    /\ \A b \in BOOLEAN : Kept([Idle EXCEPT !.owed = b, !.reply = "error"])
BY ContentsAssumption DEF Idle, HandleRecord, Kept, States, Busy, Uploading, Downloading

\* A step that gives one handle a record that is kept, and leaves the rest alone.
LEMMA BecomesKeeps ==
    ASSUME IInv, RemoteTypeOK', UNCHANGED mount, NEW h \in Handles, NEW r \in HandleRecord, Kept(r),
           Becomes(h, r)
    PROVE  IInv'
BY DEF IInv, TypeOK, Becomes

\* Requests leave nodes under names.
LEMMA RequestsKeepType ==
    ASSUME TypeOK, NEW p \in Paths, NEW q \in Paths, NEW data \in Contents,
           \/ UNCHANGED remote \/ UploadFile(p, data) \/ UploadBreaks(p) \/ DeletePath(p)
           \/ MovePath(p, q) \/ CreateRemoteDirectory(p) \/ PhoneChanges(p)
    PROVE  RemoteTypeOK'
BY DEF TypeOK, RemoteTypeOK, Nodes, UploadFile, UploadBreaks, DeletePath, MovePath,
       CreateRemoteDirectory, PhoneChanges

LEMMA InitIInv == Init => IInv
BY IdleIsKept DEF Init, IInv, TypeOK, RemoteTypeOK

LEMMA BeginIInv ==
    ASSUME IInv, NEW h \in Handles, Begin(h) \/ Release(h), UNCHANGED mount
    PROVE  IInv'
<1> USE DEF IInv, TypeOK
<1>0. RemoteTypeOK'
  BY DEF Begin, Open, TruncatePath, Create, Unlink, RmDir, BeginDelete, MkDir, Rename,
         Write, WriteFails, Resize, Flush, Release, RemoteTypeOK
<1>1. handle[h] \in HandleRecord /\ Kept(handle[h])
  OBVIOUS
<1>2. SUFFICES \E r \in HandleRecord : Kept(r) /\ Becomes(h, r)
  BY <1>0, BecomesKeeps
<1> USE DEF HandleRecord, Kept, States, Busy, Uploading, Downloading
<1>3. ASSUME NEW p \in Paths, Open(h, p) \/ TruncatePath(h, p) \/ Create(h, p)
      PROVE  \E r \in HandleRecord : Kept(r) /\ Becomes(h, r)
  BY <1>3, OpenFlagsAssumption, ContentsAssumption DEF Open, TruncatePath, Create, Idle
<1>4. ASSUME NEW p \in Paths, Unlink(h, p) \/ RmDir(h, p) \/ MkDir(h, p)
      PROVE  \E r \in HandleRecord : Kept(r) /\ Becomes(h, r)
  BY <1>4, ContentsAssumption DEF Unlink, RmDir, BeginDelete, MkDir, Idle
<1>5. ASSUME NEW p \in Paths, NEW q \in Paths, Rename(h, p, q)
      PROVE  \E r \in HandleRecord : Kept(r) /\ Becomes(h, r)
  BY <1>5, ContentsAssumption DEF Rename, Idle
<1>6. CASE Write(h) \/ Resize(h)
  BY <1>1, <1>6 DEF Write, Resize
<1>7. CASE WriteFails(h)
  BY <1>1, <1>7 DEF WriteFails
<1>8. CASE Flush(h)
  BY <1>1, <1>8 DEF Flush
<1>9. CASE Release(h)
  <2>1. CASE handle[h].dirty
    BY <1>1, <1>9, <2>1 DEF Release
  <2>2. CASE ~handle[h].dirty
    BY <1>1, <1>9, <2>2, ContentsAssumption DEF Release, Idle
  <2> QED BY <2>1, <2>2
<1> QED
  BY <1>3, <1>4, <1>5, <1>6, <1>7, <1>8, <1>9 DEF Begin

\* A commit ends with a clean copy, a dirty one, or an error that was reported.
LEMMA UploadIInv ==
    ASSUME IInv, NEW h \in Handles, UploadConfirmed(h) \/ UploadFails(h) \/ CopyFails(h),
           UNCHANGED mount
    PROVE  IInv'
<1> USE DEF IInv, TypeOK
<1>1. handle[h] \in HandleRecord /\ Kept(handle[h]) /\ handle[h].pc \in Uploading
  BY DEF UploadConfirmed, UploadFails, CopyFails
<1>2. handle[h].dirty /\ handle[h].owed /\ handle[h].sent = handle[h].local
  BY <1>1 DEF Kept
<1>3. RemoteTypeOK'
  BY <1>1, RequestsKeepType
     DEF UploadConfirmed, UploadFails, CopyFails, UploadFile, UploadBreaks, HandleRecord, RemoteTypeOK, Nodes
<1>4. SUFFICES \E r \in HandleRecord : Kept(r) /\ Becomes(h, r)
  BY <1>3, BecomesKeeps
<1> USE DEF HandleRecord, Kept, States, Busy, Uploading, Downloading
<1>5. CASE UploadConfirmed(h)
  BY <1>1, <1>2, <1>5, ContentsAssumption DEF UploadConfirmed, Committed, Idle
<1>6. CASE UploadFails(h)
  <2>1. CASE handle[h].pc = "flush"
    BY <1>1, <1>2, <1>6, <2>1, ContentsAssumption DEF UploadFails, Committed
  <2>2. CASE handle[h].pc # "flush"
    BY <1>1, <1>2, <1>6, <2>2, ContentsAssumption DEF UploadFails, Committed, Idle
  <2> QED BY <2>1, <2>2
<1>7. CASE CopyFails(h)
  <2>1. PICK data \in Contents : Committed(h, [handle[h] EXCEPT !.local = data, !.reply = "error"])
    BY <1>7 DEF CopyFails
  <2>2. CASE handle[h].pc = "flush"
    BY <1>1, <1>2, <2>1, <2>2, ContentsAssumption DEF Committed
  <2>3. CASE handle[h].pc # "flush"
    <3>1. \E b \in {"error", "unheard"} : Becomes(h, [Idle EXCEPT !.owed = TRUE, !.reply = b])
      BY <1>1, <1>2, <2>1, <2>3 DEF Committed
    <3> QED BY <3>1, ContentsAssumption DEF Idle
  <2> QED BY <2>2, <2>3
<1> QED
  BY <1>5, <1>6, <1>7

LEMMA ProceedIInv ==
    ASSUME IInv, NEW h \in Handles, Proceed(h) \/ DownloadFails(h), UNCHANGED mount PROVE IInv'
<1> USE DEF IInv, TypeOK
<1>1. handle[h] \in HandleRecord /\ Kept(handle[h])
  OBVIOUS
<1>2. CASE UploadConfirmed(h) \/ UploadFails(h) \/ CopyFails(h)
  BY <1>2, UploadIInv
<1>3. CASE DeleteSent(h) \/ MoveSent(h) \/ MkDirSent(h)
  <2>1. CASE DeleteSent(h) \/ MkDirSent(h)
    <3>1. RemoteTypeOK'
      BY <1>1, <2>1 DEF DeleteSent, MkDirSent, DeletePath, CreateRemoteDirectory,
         RemoteTypeOK, Nodes
    <3> QED BY <2>1, <3>1, IdleIsKept, BecomesKeeps DEF DeleteSent, MkDirSent
  <2>2. CASE MoveSent(h)
    <3>1. handle[h].path \in Paths /\ remote[handle[h].path] \in Nodes
      BY <1>1, <2>2 DEF MoveSent, Kept, RemoteTypeOK
    <3>2. RemoteTypeOK'
      BY <1>1, <2>2, <3>1 DEF MoveSent, MovePath, RemoteTypeOK, Nodes
    <3> QED BY <2>2, <3>2, IdleIsKept, BecomesKeeps DEF MoveSent
  <2> QED BY <1>3, <2>1, <2>2
<1>4. CASE DownloadFirst(h) \/ DownloadRest(h) \/ ResizeCopy(h) \/ DownloadFails(h)
  <2>1. RemoteTypeOK'
    BY <1>4 DEF DownloadFirst, DownloadRest, ResizeCopy, DownloadFails, RemoteTypeOK
  <2>2. SUFFICES \E r \in HandleRecord : Kept(r) /\ Becomes(h, r)
    BY <2>1, BecomesKeeps
  <2> USE DEF HandleRecord, Kept, States, Busy, Uploading, Downloading
  <2>3. CASE DownloadFirst(h)
    BY <1>1, <2>3, ContentsAssumption DEF DownloadFirst, IsFile, Idle
  <2>4. CASE DownloadRest(h)
    <3>1. PICK data \in Contents :
             Becomes(h, [handle[h] EXCEPT !.pc = "open", !.local = data])
      BY <1>1, <2>4 DEF DownloadRest, Copies
    <3> QED BY <1>1, <2>4, <3>1 DEF DownloadRest
  <2>5. CASE ResizeCopy(h)
    BY <1>1, <2>5 DEF ResizeCopy
  <2>6. CASE DownloadFails(h)
    BY <2>6, ContentsAssumption DEF DownloadFails, Idle
  <2> QED BY <1>4, <2>3, <2>4, <2>5, <2>6
<1> QED
  BY <1>2, <1>3, <1>4 DEF Proceed

LEMMA NextIInv == ASSUME IInv, [Next]_vars PROVE IInv'
<1>1. CASE UNCHANGED vars
  BY <1>1 DEF vars, IInv, TypeOK, RemoteTypeOK
<1>2. ASSUME NEW p \in Paths, PhoneChanges(p) /\ UNCHANGED <<handle, mount>> PROVE IInv'
  BY <1>2 DEF PhoneChanges, IInv, TypeOK, RemoteTypeOK
<1>3. ASSUME NEW h \in Handles, Callback(h) PROVE IInv'
  BY <1>3, BeginIInv, ProceedIInv DEF Callback
<1>4. CASE UnmountBegins \/ LoopEnds
  BY <1>4 DEF UnmountBegins, LoopEnds, IInv, TypeOK, RemoteTypeOK
<1> QED
  BY <1>1, <1>2, <1>3, <1>4 DEF Next

-----------------------------------------------------------------------------
\* TypeOK.
THEOREM FileTypes == Spec => []TypeOK
<1>1. IInv /\ [Next]_vars => IInv'
  BY NextIInv
<1> QED
  BY <1>1, InitIInv, PTL DEF Spec, IInv

\* UploadsOnlyChanges: opening a file for writing never writes back what the phone
\* has changed meanwhile.
THEOREM UnchangedFilesStayThePhones == Spec => UploadsOnlyChanges
<1>1. IInv /\ [Next]_vars => IInv'
  BY NextIInv
<1>2. IInv => \A h \in Handles : handle[h].pc \in Uploading => handle[h].owed
  BY DEF IInv, Kept
<1>3. IInv /\ [Next]_vars
      => [\A h \in Handles :
             /\ handle[h].pc \in Uploading
             /\ handle'[h] # handle[h]
             /\ remote' # remote
             => handle[h].owed]_vars
  BY <1>2
<1> QED
  BY <1>1, <1>3, InitIInv, PTL DEF Spec, UploadsOnlyChanges

-----------------------------------------------------------------------------
(* Changes are reported, as long as open does not truncate. *)

LEMMA ReportedIsKept ==
    ASSUME IInv, NEW h \in Handles, NEW r, Reported(r), Becomes(h, r),
           \A g \in Handles : Reported(handle[g])
    PROVE  \A g \in Handles : Reported(handle'[g])
BY DEF IInv, TypeOK, Becomes

LEMMA NextReported ==
    ASSUME TRUE \notin OpenFlags, IInv, \A h \in Handles : Reported(handle[h]), [Next]_vars
    PROVE  \A h \in Handles : Reported(handle'[h])
<1>1. CASE UNCHANGED handle
  BY <1>1
<1>2. ASSUME NEW h \in Handles, Callback(h) PROVE \A g \in Handles : Reported(handle'[g])
  <2> SUFFICES \E r : Reported(r) /\ Becomes(h, r)
    BY ReportedIsKept
  <2>1. handle[h] \in HandleRecord /\ Kept(handle[h]) /\ Reported(handle[h])
    BY DEF IInv, TypeOK
  <2> USE DEF HandleRecord, Kept, Reported, Uploading
  <2>2. ASSUME NEW p \in Paths, Open(h, p) \/ TruncatePath(h, p) \/ Create(h, p)
        PROVE  \E r : Reported(r) /\ Becomes(h, r)
    BY <2>2, OpenFlagsAssumption DEF Open, TruncatePath, Create, Idle
  <2>3. ASSUME NEW p \in Paths, NEW q \in Paths,
               Unlink(h, p) \/ RmDir(h, p) \/ MkDir(h, p) \/ Rename(h, p, q)
        PROVE  \E r : Reported(r) /\ Becomes(h, r)
    BY <2>3 DEF Unlink, RmDir, BeginDelete, MkDir, Rename, Idle
  <2>4. CASE Write(h) \/ WriteFails(h) \/ Resize(h) \/ Flush(h)
    BY <2>1, <2>4 DEF Write, WriteFails, Resize, Flush
  <2>5. CASE Release(h)
    BY <2>1, <2>5 DEF Release, Idle
  <2>6. CASE DownloadFirst(h) \/ DownloadRest(h) \/ ResizeCopy(h) \/ DownloadFails(h)
    BY <2>1, <2>6 DEF DownloadFirst, DownloadRest, ResizeCopy, DownloadFails, Downloading, Idle
  <2>7. CASE UploadConfirmed(h)
    BY <2>1, <2>7 DEF UploadConfirmed, Committed, Idle
  <2>8. CASE UploadFails(h) \/ CopyFails(h)
    BY <2>1, <2>8 DEF UploadFails, CopyFails, Committed, Idle
  <2>9. CASE DeleteSent(h) \/ MoveSent(h) \/ MkDirSent(h)
    BY <2>9 DEF DeleteSent, MoveSent, MkDirSent, Idle
  <2> QED
    BY <1>2, <2>2, <2>3, <2>4, <2>5, <2>6, <2>7, <2>8, <2>9 DEF Callback, Begin, Proceed
<1> QED
  BY <1>1, <1>2 DEF Next, UnmountBegins, LoopEnds, vars

LEMMA ReportedInvariance ==
    ASSUME TRUE \notin OpenFlags PROVE Spec => [](IInv /\ \A h \in Handles : Reported(handle[h]))
<1> DEFINE Inv == IInv /\ \A h \in Handles : Reported(handle[h])
<1>1. Init => Inv
  BY InitIInv DEF Init, Idle, Reported
<1>2. Inv /\ [Next]_vars => Inv'
  BY NextIInv, NextReported
<1> QED
  BY <1>1, <1>2, PTL DEF Spec

\* NoSilentLoss, as long as the FUSE layer turns O_TRUNC into a truncate: whatever
\* fails, and however calls interleave, no change is dropped without an error, except
\* where a release fails to upload it.
THEOREM ChangesAreKeptOrReported ==
    ASSUME TRUE \notin OpenFlags PROVE Spec => []NoSilentLoss
<1>1. IInv /\ (\A h \in Handles : Reported(handle[h])) => NoSilentLoss
  BY DEF IInv, Kept, Reported, NoSilentLoss, Uploading
<1> QED
  BY <1>1, ReportedInvariance, PTL

-----------------------------------------------------------------------------
(* Refinement: each step of a handle is one of WriteBack's, or stutters.  The lemmas *)
(* sort the steps by what they do to the change of their handle.                     *)

\* The handle's change is the one of its record.
LEMMA ChangeFollows ==
    ASSUME IInv, NEW h \in Handles, NEW r, Becomes(h, r)
    PROVE  Cache!Changes(h, ChangeOf(r))
BY DEF IInv, TypeOK, Becomes, Cache!Changes

LEMMA ChangeStays ==
    ASSUME IInv, NEW h \in Handles, NEW r, Becomes(h, r), ChangeOf(r) = ChangeOf(handle[h])
    PROVE  UNCHANGED [g \in Handles |-> ChangeOf(handle[g])]
BY DEF IInv, TypeOK, Becomes

\* What a call leaves behind: no change, or one that is lost.
LEMMA IdleChange ==
    ASSUME NEW r, Reported(r), Kept(r), r.pc \notin {"open"} \cup Uploading
    PROVE  ChangeOf(r) = Cache!None \/ ChangeOf(r) = Cache!Lost
BY DEF Reported, Kept, ChangeOf, Cache!None, Cache!Lost

\* A call that finds no change and makes none.
LEMMA NoChange ==
    ASSUME IInv, NEW h \in Handles, NEW r, Reported(handle[h]), Becomes(h, r), ~r.owed,
           handle[h].pc \notin {"open"} \cup Uploading, UNCHANGED remote
    PROVE  [Cache!Next]_Cache!writeBackVars
<1>1. ChangeOf(handle[h]) = Cache!None \/ ChangeOf(handle[h]) = Cache!Lost
  BY IdleChange DEF IInv
<1>2. ChangeOf(r) = Cache!None
  BY DEF ChangeOf, Cache!None
<1>3. CASE ChangeOf(handle[h]) = Cache!None
  BY <1>2, <1>3, ChangeStays DEF Cache!writeBackVars
<1>4. CASE ChangeOf(handle[h]) = Cache!Lost
  <2>1. Cache!MoveOn(h)
    BY <1>2, <1>4, ChangeFollows DEF Cache!MoveOn, Cache!Lost
  <2> QED BY <2>1 DEF Cache!Next
<1> QED
  BY <1>1, <1>3, <1>4

\* A call that changes the copy.
LEMMA EditStep ==
    ASSUME IInv, NEW h \in Handles, NEW r, Reported(handle[h]), Becomes(h, r),
           UNCHANGED remote, r.owed, r.pc \notin {"idle", "release"}, handle[h].pc # "release",
           r.path \in Paths, r.local \in Contents,
           handle[h].pc # "idle" => r.path = handle[h].path
    PROVE  Cache!Edit(h)
<1>1. ChangeOf(r) = Cache!Pending(r.path, r.local)
  BY DEF ChangeOf, Cache!Pending
<1>2. ChangeOf(handle[h]).state = "pending" => ChangeOf(handle[h]).path = r.path
  BY DEF IInv, Kept, Reported, Uploading, ChangeOf
<1>3. ChangeOf(handle[h]).state # "closing"
  BY DEF ChangeOf
<1> QED
  BY <1>1, <1>2, <1>3, ChangeFollows DEF Cache!Edit

\* Open, create, truncate and the calls without a handle, until their request is sent.
LEMMA BeginRefines ==
    ASSUME TRUE \notin OpenFlags, IInv, NEW h \in Handles, Reported(handle[h]),
           Begin(h) \/ Release(h)
    PROVE  [Cache!Next]_Cache!writeBackVars
<1>1. handle[h] \in HandleRecord /\ Kept(handle[h])
  BY DEF IInv, TypeOK
<1>2. ASSUME NEW p \in Paths, Open(h, p) \/ TruncatePath(h, p)
      PROVE  [Cache!Next]_Cache!writeBackVars
  <2>1. handle[h].pc \notin {"open"} \cup Uploading /\ UNCHANGED remote
    BY <1>2 DEF Open, TruncatePath, Uploading
  <2>2. \E r : ~r.owed /\ Becomes(h, r)
    BY <1>2, OpenFlagsAssumption DEF Open, TruncatePath, Idle
  <2> QED BY <2>1, <2>2, NoChange
<1>3. ASSUME NEW p \in Paths, NEW q \in Paths,
             Unlink(h, p) \/ RmDir(h, p) \/ MkDir(h, p) \/ Rename(h, p, q)
      PROVE  [Cache!Next]_Cache!writeBackVars
  <2>1. handle[h].pc \notin {"open"} \cup Uploading /\ UNCHANGED remote
    BY <1>3 DEF Unlink, RmDir, BeginDelete, MkDir, Rename, Uploading
  <2>2. \E r : ~r.owed /\ Becomes(h, r)
    BY <1>3 DEF Unlink, RmDir, BeginDelete, MkDir, Rename, Idle
  <2> QED BY <2>1, <2>2, NoChange
<1>4. ASSUME NEW p \in Paths, Create(h, p) PROVE Cache!Edit(h)
  <2> DEFINE r == [Idle EXCEPT !.pc = "open", !.path = p, !.dirty = TRUE, !.owed = TRUE]
  <2>1. r.owed /\ r.pc = "open" /\ r.path = p /\ r.local = Empty
    BY DEF Idle
  <2>2. Becomes(h, r) /\ UNCHANGED remote /\ handle[h].pc = "idle"
    BY <1>4 DEF Create
  <2> HIDE DEF r
  <2> QED BY <2>1, <2>2, ContentsAssumption, EditStep
<1>5. CASE Write(h) \/ Resize(h)
  <2>1. PICK data \in Contents :
           Becomes(h, [handle[h] EXCEPT !.local = data, !.dirty = TRUE, !.owed = TRUE,
                                        !.reply = "ok"])
    BY <1>5 DEF Write, Resize
  <2> DEFINE r == [handle[h] EXCEPT !.local = data, !.dirty = TRUE, !.owed = TRUE,
                                    !.reply = "ok"]
  <2>2. /\ r.owed /\ r.pc = "open" /\ r.path = handle[h].path /\ r.local = data
        /\ UNCHANGED remote /\ handle[h].path \in Paths /\ handle[h].pc = "open"
    BY <1>1, <1>5 DEF Write, Resize, HandleRecord, Kept
  <2>3. Becomes(h, r)
    BY <2>1
  <2> HIDE DEF r
  <2>4. Cache!Edit(h)
    BY <2>2, <2>3, EditStep
  <2> QED BY <2>4 DEF Cache!Next
<1>6. CASE WriteFails(h)
  <2>1. PICK data \in Contents :
           Becomes(h, [handle[h] EXCEPT !.local = data, !.reply = "error"])
    BY <1>6 DEF WriteFails
  <2> DEFINE r == [handle[h] EXCEPT !.local = data, !.reply = "error"]
  <2>2. /\ r.owed = handle[h].owed /\ r.pc = "open" /\ r.path = handle[h].path
        /\ r.local = data /\ UNCHANGED remote /\ handle[h].path \in Paths /\ handle[h].pc = "open"
    BY <1>1, <1>6 DEF WriteFails, HandleRecord, Kept
  <2>3. Becomes(h, r)
    BY <2>1
  <2> HIDE DEF r
  <2>4. CASE handle[h].owed
    <3>1. Cache!Edit(h)
      BY <2>2, <2>3, <2>4, EditStep
    <3> QED BY <3>1 DEF Cache!Next
  <2>5. CASE ~handle[h].owed
    <3>1. ChangeOf(r) = ChangeOf(handle[h])
      BY <2>2, <2>5 DEF ChangeOf
    <3> QED BY <2>2, <2>3, <3>1, ChangeStays DEF Cache!writeBackVars
  <2> QED BY <2>4, <2>5
<1>7. ASSUME Flush(h) \/ Release(h), handle[h].dirty PROVE [Cache!Next]_Cache!writeBackVars
  <2>1. PICK call \in {"flush", "release"} :
           /\ Becomes(h, [handle[h] EXCEPT !.pc = call, !.sent = handle[h].local])
           /\ UNCHANGED remote /\ handle[h].pc = "open" /\ handle[h].owed
    BY <1>1, <1>7 DEF Flush, Release, Kept
  <2> DEFINE r == [handle[h] EXCEPT !.pc = call, !.sent = handle[h].local]
  <2>2. /\ r.owed = handle[h].owed /\ r.pc = call /\ r.path = handle[h].path
        /\ r.local = handle[h].local
    BY <1>1 DEF HandleRecord
  <2>3. Becomes(h, r)
    BY <2>1
  <2> HIDE DEF r
  <2>4. CASE call = "flush"
    <3>1. ChangeOf(r) = ChangeOf(handle[h])
      BY <2>1, <2>2, <2>4 DEF ChangeOf
    <3> QED BY <2>1, <2>3, <3>1, ChangeStays DEF Cache!writeBackVars
  <2>5. CASE call = "release"
    <3>1. /\ ChangeOf(handle[h]) = Cache!Pending(handle[h].path, handle[h].local)
          /\ ChangeOf(r) = Cache!Closing(handle[h].path, handle[h].local)
      BY <2>1, <2>2, <2>5 DEF ChangeOf, Cache!Pending, Cache!Closing
    <3>2. Cache!Close(h)
      BY <2>1, <2>3, <3>1, ChangeFollows DEF Cache!Close, Cache!Pending
    <3> QED BY <3>2 DEF Cache!Next
  <2> QED BY <2>4, <2>5
<1>8. ASSUME Release(h), ~handle[h].dirty PROVE [Cache!Next]_Cache!writeBackVars
  <2> DEFINE r == [Idle EXCEPT !.owed = handle[h].owed]
  <2>1. ~handle[h].owed
    BY <1>8 DEF Reported, Release
  <2>2. ~r.owed
    BY <2>1 DEF Idle
  <2>3. Becomes(h, r) /\ UNCHANGED remote
    BY <1>8 DEF Release
  <2> HIDE DEF r
  <2>4. ChangeOf(r) = ChangeOf(handle[h])
    BY <2>1, <2>2 DEF ChangeOf
  <2> QED BY <2>3, <2>4, ChangeStays DEF Cache!writeBackVars
<1>9. CASE Flush(h)
  BY <1>7, <1>9 DEF Flush
<1> QED
  BY <1>2, <1>3, <1>4, <1>5, <1>6, <1>7, <1>8, <1>9 DEF Begin, Cache!Next

\* A confirmed upload saves what the program left, because the copy did not change
\* under it; one that fails loses the change, or leaves it for the next attempt.
LEMMA UploadRefines ==
    ASSUME IInv, NEW h \in Handles, UploadConfirmed(h) \/ UploadFails(h) \/ CopyFails(h)
    PROVE  [Cache!Next]_Cache!writeBackVars
<1>1. /\ handle[h] \in HandleRecord /\ Kept(handle[h]) /\ handle[h].pc \in Uploading
      /\ handle[h].path \in Paths
  BY DEF IInv, TypeOK, Kept, Uploading, UploadConfirmed, UploadFails, CopyFails
<1>2. handle[h].dirty /\ handle[h].owed /\ handle[h].sent = handle[h].local
  BY <1>1 DEF Kept
<1>3. ChangeOf(handle[h]) = IF handle[h].pc = "release"
                            THEN Cache!Closing(handle[h].path, handle[h].local)
                            ELSE Cache!Pending(handle[h].path, handle[h].local)
  BY <1>1, <1>2 DEF ChangeOf, Cache!Pending, Cache!Closing, Uploading
<1>4. CASE UploadConfirmed(h)
  <2>1. \E r : ~r.owed /\ Becomes(h, r)
    BY <1>1, <1>2, <1>4 DEF UploadConfirmed, Committed, HandleRecord, Idle
  <2>2. PICK r : ~r.owed /\ Becomes(h, r)
    BY <2>1
  <2>3. Cache!Changes(h, Cache!None)
    BY <2>2, ChangeFollows DEF ChangeOf, Cache!None
  <2>4. Cache!UploadFile(handle[h].path, handle[h].local)
    BY <1>2, <1>4 DEF UploadConfirmed, UploadFile, Cache!UploadFile
  <2>5. Cache!Save(h)
    BY <1>3, <2>3, <2>4 DEF Cache!Save, Cache!Pending, Cache!Closing
  <2> QED BY <2>5 DEF Cache!Next
<1>5. CASE UploadFails(h) /\ handle[h].pc = "flush"
  <2> DEFINE r == [handle[h] EXCEPT !.reply = "error", !.pc = "open", !.sent = Empty]
  <2>1. /\ r.owed = handle[h].owed /\ r.pc = "open" /\ r.path = handle[h].path
        /\ r.local = handle[h].local
    BY <1>1 DEF HandleRecord
  <2>2. Becomes(h, r)
    BY <1>1, <1>5 DEF UploadFails, Committed, HandleRecord
  <2> HIDE DEF r
  <2>3. UNCHANGED [g \in Handles |-> ChangeOf(handle[g])]
    BY <1>1, <1>5, <2>1, <2>2, ChangeStays DEF ChangeOf
  <2>4. UNCHANGED remote \/ Cache!PhoneChanges(handle[h].path)
    BY <1>5 DEF UploadFails, UploadBreaks, UploadFile, Cache!PhoneChanges, Cache!Nodes
  <2>5. UNCHANGED remote \/ Cache!Elsewhere
    BY <1>1, <2>3, <2>4 DEF Cache!Elsewhere
  <2> QED BY <2>3, <2>5 DEF Cache!Next, Cache!writeBackVars
<1>6. CASE (UploadFails(h) \/ CopyFails(h)) /\ handle[h].pc # "flush"
  <2>1. handle[h].pc \in {"release", "resize"}
    BY <1>1, <1>6 DEF Uploading
  <2>2. PICK r : /\ r.owed /\ r.pc = "idle"
                 /\ r.reply = IF handle[h].pc = "release" THEN "unheard" ELSE "error"
                 /\ Becomes(h, r)
    BY <1>1, <1>2, <1>6, <2>1 DEF UploadFails, CopyFails, Committed, HandleRecord, Idle
  <2>3. UNCHANGED remote \/ Cache!UploadBreaks(handle[h].path)
    BY <1>6 DEF UploadFails, CopyFails, UploadBreaks, UploadFile, Cache!UploadBreaks, Cache!UploadFile
  <2>4. CASE handle[h].pc = "resize"
    <3>1. Cache!Changes(h, Cache!Lost)
      BY <2>2, <2>4, ChangeFollows DEF ChangeOf, Cache!Lost
    <3>2. Cache!Lose(h)
      BY <1>3, <2>3, <2>4, <3>1 DEF Cache!Lose, Cache!Pending
    <3> QED BY <3>2 DEF Cache!Next
  <2>5. CASE handle[h].pc = "release"
    <3>1. Cache!Changes(h, Cache!None)
      BY <2>2, <2>5, ChangeFollows DEF ChangeOf, Cache!None
    <3>2. Cache!Drop(h)
      BY <1>3, <2>3, <2>5, <3>1 DEF Cache!Drop, Cache!Closing
    <3> QED BY <3>2 DEF Cache!Next
  <2> QED BY <2>1, <2>4, <2>5
<1>7. CASE CopyFails(h) /\ handle[h].pc = "flush"
  <2>1. PICK data \in Contents : Committed(h, [handle[h] EXCEPT !.local = data, !.reply = "error"])
    BY <1>7 DEF CopyFails
  <2>2. PICK r : /\ r.owed /\ r.pc = "open" /\ r.path = handle[h].path /\ r.local = data
                 /\ Becomes(h, r)
    BY <1>1, <1>2, <1>7, <2>1 DEF Committed, HandleRecord
  <2>3. UNCHANGED remote /\ Reported(handle[h])
    BY <1>2, <1>7 DEF CopyFails, Reported
  <2>4. Cache!Edit(h)
    BY <1>1, <1>7, <2>2, <2>3, EditStep
  <2> QED BY <2>4 DEF Cache!Next
<1> QED
  BY <1>4, <1>5, <1>6, <1>7

\* Downloads, and the requests that delete, move and make something.
LEMMA ProceedRefines ==
    ASSUME IInv, NEW h \in Handles, Reported(handle[h]), Proceed(h) \/ DownloadFails(h)
    PROVE  [Cache!Next]_Cache!writeBackVars
<1>1. handle[h] \in HandleRecord /\ Kept(handle[h])
  BY DEF IInv, TypeOK
<1>2. CASE DownloadFirst(h) \/ DownloadRest(h) \/ DownloadFails(h)
  <2>1. handle[h].pc \in Downloading /\ UNCHANGED remote
    BY <1>2 DEF DownloadFirst, DownloadRest, DownloadFails, Downloading
  <2>2. ~handle[h].owed
    BY <1>1, <2>1 DEF Kept, Downloading, Uploading
  <2>3. \E r : ~r.owed /\ Becomes(h, r)
    BY <1>1, <1>2, <2>2 DEF DownloadFirst, DownloadRest, DownloadFails, HandleRecord, Idle
  <2> QED BY <2>1, <2>3, NoChange DEF Downloading, Uploading
<1>3. CASE ResizeCopy(h)
  <2>1. PICK data \in Contents :
           Becomes(h, [handle[h] EXCEPT !.pc = "resize", !.local = data, !.sent = data,
                                        !.dirty = TRUE, !.owed = TRUE])
    BY <1>3 DEF ResizeCopy
  <2> DEFINE r == [handle[h] EXCEPT !.pc = "resize", !.local = data, !.sent = data,
                                    !.dirty = TRUE, !.owed = TRUE]
  <2>2. /\ r.owed /\ r.pc = "resize" /\ r.path = handle[h].path /\ r.local = data
        /\ UNCHANGED remote /\ handle[h].path \in Paths /\ handle[h].pc = "resizeRest"
    BY <1>1, <1>3 DEF ResizeCopy, HandleRecord, Kept
  <2>3. Becomes(h, r)
    BY <2>1
  <2> HIDE DEF r
  <2>4. Cache!Edit(h)
    BY <2>2, <2>3, EditStep
  <2> QED BY <2>4 DEF Cache!Next
<1>4. CASE DeleteSent(h) \/ MoveSent(h) \/ MkDirSent(h)
  <2>1. /\ ~handle[h].owed /\ handle[h].path \in Paths
        /\ MoveSent(h) => handle[h].dest \in Paths
    BY <1>1, <1>4 DEF DeleteSent, MoveSent, MkDirSent, Kept, Uploading
  <2>2. Becomes(h, Idle) /\ ChangeOf(Idle) = ChangeOf(handle[h])
    BY <1>4, <2>1 DEF DeleteSent, MoveSent, MkDirSent, ChangeOf, Idle
  <2>3. UNCHANGED [g \in Handles |-> ChangeOf(handle[g])]
    BY <2>2, ChangeStays
  <2>4. UNCHANGED remote \/ Cache!PhoneChanges(handle[h].path)
                         \/ (MoveSent(h) /\ Cache!MovePath(handle[h].path, handle[h].dest))
    BY <1>4 DEF DeleteSent, MoveSent, MkDirSent, DeletePath, MovePath, CreateRemoteDirectory,
       Cache!PhoneChanges, Cache!MovePath, Cache!Nodes
  <2>5. UNCHANGED remote \/ Cache!Elsewhere
    BY <2>1, <2>3, <2>4 DEF Cache!Elsewhere
  <2> QED BY <2>3, <2>5 DEF Cache!Next, Cache!writeBackVars
<1> QED
  BY <1>2, <1>3, <1>4, UploadRefines DEF Proceed

LEMMA NextRefines ==
    ASSUME TRUE \notin OpenFlags, IInv, \A h \in Handles : Reported(handle[h]), [Next]_vars
    PROVE  [Cache!Next]_Cache!writeBackVars
<1>1. ASSUME NEW h \in Handles, Callback(h) PROVE [Cache!Next]_Cache!writeBackVars
  BY <1>1, BeginRefines, ProceedRefines DEF Callback
<1>2. ASSUME NEW p \in Paths, PhoneChanges(p) /\ UNCHANGED <<handle, mount>> PROVE Cache!Next
  BY <1>2 DEF PhoneChanges, Nodes, Cache!Next, Cache!Elsewhere, Cache!PhoneChanges, Cache!Nodes
<1>3. CASE UnmountBegins \/ LoopEnds \/ UNCHANGED vars
  BY <1>3 DEF UnmountBegins, LoopEnds, vars, Cache!writeBackVars
<1> QED
  BY <1>1, <1>2, <1>3 DEF Next

\* WriteBackSpec, under the assumption of ChangesAreKeptOrReported: the open files of a
\* drive, with their copies, uploads and failures, are what WriteBack promises.
THEOREM OpenFilesAreWrittenBack ==
    ASSUME TRUE \notin OpenFlags PROVE Spec => WriteBackSpec
<1>1. Init => Cache!Init
  BY DEF Init, Idle, ChangeOf, Nodes, Cache!Init, Cache!None, Cache!Nodes
<1>2. IInv /\ (\A h \in Handles : Reported(handle[h])) /\ [Next]_vars
      => [Cache!Next]_Cache!writeBackVars
  BY NextRefines
<1> QED
  BY <1>1, <1>2, ReportedInvariance, PTL DEF Spec, WriteBackSpec, Cache!Spec
=============================================================================
