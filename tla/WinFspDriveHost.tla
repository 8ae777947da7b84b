-------------------------- MODULE WinFspDriveHost --------------------------
(***************************************************************************)
(* The file system callbacks of one mounted phone                          *)
(* (utils/WinFspDriveHost.cpp).  A file that is opened for writing gets a  *)
(* temporary copy; writes go to the copy and mark it dirty; flush and      *)
(* release upload a dirty copy as a whole.  Between two requests of a      *)
(* callback the phone may change its files, and every request may fail.    *)
(*                                                                         *)
(* The callbacks of different files and handles interleave.  Those of one  *)
(* handle hold its mutex from beginning to end: while a copy is uploaded,  *)
(* no other callback gets at it.  Callbacks that change nothing (getattr,  *)
(* readdir, read, a refused open ...) are no steps.                        *)
(*                                                                         *)
(* Unmount may come at any time.  It ends the loop that takes calls and    *)
(* waits for the callbacks that run.  Whether WinFsp still has the open    *)
(* files released is not for this code to say: it may, or may not.  The    *)
(* copies of files that are not released stay in the temporary directory.  *)
(***************************************************************************)
EXTENDS AndroidFsHttpClient

CONSTANTS Handles,      \* calls and the file handles they open
          OpenFlags,    \* whether O_TRUNC is among the flags of open
          NoPath

ASSUME OpenFlagsAssumption == OpenFlags \subseteq BOOLEAN
ASSUME NoPathAssumption == NoPath \notin Paths

VARIABLES handle,  \* each call or open file
          mount    \* the drive and its loop

vars == <<remote, handle, mount>>

\* "download", "rest": the copy is being read for open, or ("resizeDownload",
\* "resizeRest", "resize") for a truncate without a handle.
Downloading == {"download", "rest", "resizeDownload", "resizeRest"}
Uploading == {"flush", "release", "resize"}
Busy == Downloading \cup Uploading \cup {"delete", "move", "mkdir"}
States == Busy \cup {"idle", "open"}

HandleRecord ==
    [pc : States,
     path : Paths \cup {NoPath},  \* remotePath
     dest : Paths \cup {NoPath},  \* the new path of a rename
     local : Contents,            \* the temporary file
     sent : Contents,             \* what is being uploaded
     dirty : BOOLEAN,
     owed : BOOLEAN,              \* a change the program was told of and the
                                  \* phone has not confirmed
     reply : {"ok", "error",      \* the result of the last callback ...
              "unheard"}]         \* ... an error of release, which FUSE tells nobody

TypeOK ==
    /\ RemoteTypeOK
    /\ handle \in [Handles -> HandleRecord]
    /\ mount \in {"mounted", "exiting", "unmounted"}

Idle ==
    [pc |-> "idle", path |-> NoPath, dest |-> NoPath, local |-> Empty, sent |-> Empty,
     dirty |-> FALSE, owed |-> FALSE, reply |-> "ok"]

Init ==
    /\ remote \in [Paths -> Nodes]
    /\ handle = [h \in Handles |-> Idle]
    /\ mount = "mounted"

Becomes(h, r) == handle' = [handle EXCEPT ![h] = r]

-----------------------------------------------------------------------------
(* Open, and truncate of a file that is not open: GetMetadata, then the copy. *)

\* A truncating open leaves the copy empty and clean.
Open(h, p) ==
    /\ handle[h].pc = "idle"
    /\ IsFile(p)
    /\ \E truncate \in OpenFlags :
          Becomes(h, [Idle EXCEPT
                        !.pc = IF truncate \/ remote[p] = Empty THEN "open" ELSE "download",
                        !.path = p,
                        !.owed = truncate])
    /\ UNCHANGED remote

TruncatePath(h, p) ==
    /\ handle[h].pc = "idle"
    /\ IsFile(p)
    /\ Becomes(h, [Idle EXCEPT
                     !.pc = IF remote[p] = Empty THEN "resizeRest" ELSE "resizeDownload",
                     !.path = p])
    /\ UNCHANGED remote

\* Mutated form: the answer's status is not looked at.
DownloadUnchecked(h) ==
    /\ handle[h].pc \in {"download", "resizeDownload"}
    /\ Becomes(h, [handle[h] EXCEPT !.pc = IF @ = "download" THEN "rest" ELSE "resizeRest",
                                    !.local = remote[handle[h].path]])
    /\ UNCHANGED remote

\* The first range; a file that is gone ends the call.
DownloadFirst(h) ==
    /\ handle[h].pc \in {"download", "resizeDownload"}
    /\ LET p == handle[h].path IN
       IF IsFile(p)
       THEN Becomes(h, [handle[h] EXCEPT
                          !.pc = IF @ = "download" THEN "rest" ELSE "resizeRest",
                          !.local = remote[p]])
       ELSE Becomes(h, [Idle EXCEPT !.reply = "error"])
    /\ UNCHANGED remote

\* The copy when the last range is read.
Copies(h) == IF remote[handle[h].path] = handle[h].local THEN {handle[h].local} ELSE Contents

\* Mutated form: the offset does not advance.
DownloadSameRange(h) ==
    /\ handle[h].pc = "rest"
    /\ \E data \in Copies(h) : Becomes(h, [handle[h] EXCEPT !.local = data])
    /\ UNCHANGED remote

\* The other ranges, up to the size that the metadata gave.  If the phone has
\* changed the file since, the copy is made of pieces of both, or cut short.
DownloadRest(h) ==
    /\ handle[h].pc = "rest"
    /\ \E data \in Copies(h) : Becomes(h, [handle[h] EXCEPT !.pc = "open", !.local = data])
    /\ UNCHANGED remote

\* For a truncate: then the copy is resized and sent.
ResizeCopy(h) ==
    /\ handle[h].pc = "resizeRest"
    /\ \E data \in Contents :
          Becomes(h, [handle[h] EXCEPT !.pc = "resize", !.local = data, !.sent = data,
                                       !.dirty = TRUE, !.owed = TRUE])
    /\ UNCHANGED remote

\* No temporary file, a failed request, a short answer.
DownloadFails(h) ==
    /\ handle[h].pc \in Downloading
    /\ Becomes(h, [Idle EXCEPT !.reply = "error"])
    /\ UNCHANGED remote

\* Nothing is sent to the phone yet.
Create(h, p) ==
    /\ handle[h].pc = "idle"
    /\ remote[p] = Absent
    /\ Becomes(h, [Idle EXCEPT !.pc = "open", !.path = p, !.dirty = TRUE, !.owed = TRUE])
    /\ UNCHANGED remote

-----------------------------------------------------------------------------
(* Write, truncate of an open file, flush, release. *)

\* Mutated form: write does not take the mutex.
WriteUnlocked(h) ==
    /\ handle[h].pc \in {"open", "flush"}
    /\ \E data \in Contents :
          Becomes(h, [handle[h] EXCEPT !.local = data, !.dirty = TRUE, !.owed = TRUE,
                                       !.reply = "ok"])
    /\ UNCHANGED remote

Write(h) ==
    /\ handle[h].pc = "open"
    /\ \E data \in Contents :
          Becomes(h, [handle[h] EXCEPT !.local = data, !.dirty = TRUE, !.owed = TRUE,
                                       !.reply = "ok"])
    /\ UNCHANGED remote

\* fwrite or the resize stops half way: the copy has changed and is not marked for it.
WriteFails(h) ==
    /\ handle[h].pc = "open"
    /\ \E data \in Contents :
          Becomes(h, [handle[h] EXCEPT !.local = data, !.reply = "error"])
    /\ UNCHANGED remote

Resize(h) ==
    /\ handle[h].pc = "open"
    /\ \E data \in Contents :
          Becomes(h, [handle[h] EXCEPT !.local = data, !.dirty = TRUE, !.owed = TRUE,
                                       !.reply = "ok"])
    /\ UNCHANGED remote

\* Flush and fsync; a clean copy is not sent.
Flush(h) ==
    /\ handle[h].pc = "open"
    /\ handle[h].dirty
    /\ Becomes(h, [handle[h] EXCEPT !.pc = "flush", !.sent = handle[h].local])
    /\ UNCHANGED remote

\* Mutated form: a clean copy is sent as well.
ReleaseAlwaysUploads(h) ==
    /\ handle[h].pc = "open"
    /\ Becomes(h, [handle[h] EXCEPT !.pc = "release", !.sent = handle[h].local])
    /\ UNCHANGED remote

Release(h) ==
    /\ handle[h].pc = "open"
    /\ IF handle[h].dirty
       THEN Becomes(h, [handle[h] EXCEPT !.pc = "release", !.sent = handle[h].local])
       ELSE Becomes(h, [Idle EXCEPT !.owed = handle[h].owed])
    /\ UNCHANGED remote

\* What becomes of the handle with its commit: release and the truncate of a file
\* that is not open delete the copy, whatever the outcome.
Committed(h, r) ==
    Becomes(h, IF handle[h].pc = "flush"
               THEN [r EXCEPT !.pc = "open", !.sent = Empty]
               ELSE [Idle EXCEPT !.owed = r.owed,
                                 !.reply = IF handle[h].pc = "release" /\ r.reply = "error"
                                           THEN "unheard" ELSE r.reply])

\* Only the phone's answer makes the copy clean.
UploadConfirmed(h) ==
    /\ handle[h].pc \in Uploading
    /\ UploadFile(handle[h].path, handle[h].sent)
    /\ Committed(h, [handle[h] EXCEPT
                       !.dirty = FALSE, !.reply = "ok",
                       !.owed = @ /\ handle[h].sent # handle[h].local])

\* Mutated form: the copy counts as clean once it was sent.
UploadFailsClean(h) ==
    /\ handle[h].pc \in Uploading
    /\ UNCHANGED remote \/ UploadBreaks(handle[h].path)
    /\ Committed(h, [handle[h] EXCEPT !.reply = "error", !.dirty = FALSE])

\* The request fails, is refused, breaks off, or its answer is lost.
UploadFails(h) ==
    /\ handle[h].pc \in Uploading
    /\ UNCHANGED remote \/ UploadBreaks(handle[h].path)
    /\ Committed(h, [handle[h] EXCEPT !.reply = "error"])

\* fflush fails before anything is sent: what was written last may be missing from the
\* copy, which stays dirty.
CopyFails(h) ==
    /\ handle[h].pc \in Uploading
    /\ \E data \in Contents :
          Committed(h, [handle[h] EXCEPT !.local = data, !.reply = "error"])
    /\ UNCHANGED remote

-----------------------------------------------------------------------------
(* Unlink, rmdir, rename, mkdir: GetMetadata, then the request.  What the    *)
(* first has seen need not be there any more.                                *)

BeginDelete(h, p) ==
    /\ handle[h].pc = "idle"
    /\ Becomes(h, [Idle EXCEPT !.pc = "delete", !.path = p])
    /\ UNCHANGED remote

Unlink(h, p) == IsFile(p) /\ BeginDelete(h, p)
RmDir(h, p) == remote[p] = Folder /\ BeginDelete(h, p)

Rename(h, p, q) ==
    /\ handle[h].pc = "idle"
    /\ remote[p] # Absent
    /\ Becomes(h, [Idle EXCEPT !.pc = "move", !.path = p, !.dest = q])
    /\ UNCHANGED remote

MkDir(h, p) ==
    /\ handle[h].pc = "idle"
    /\ remote[p] = Absent
    /\ Becomes(h, [Idle EXCEPT !.pc = "mkdir", !.path = p])
    /\ UNCHANGED remote

DeleteSent(h) ==
    /\ handle[h].pc = "delete"
    /\ UNCHANGED remote \/ DeletePath(handle[h].path)
    /\ Becomes(h, Idle)

MoveSent(h) ==
    /\ handle[h].pc = "move"
    /\ UNCHANGED remote \/ MovePath(handle[h].path, handle[h].dest)
    /\ Becomes(h, Idle)

MkDirSent(h) ==
    /\ handle[h].pc = "mkdir"
    /\ UNCHANGED remote \/ CreateRemoteDirectory(handle[h].path)
    /\ Becomes(h, Idle)

-----------------------------------------------------------------------------
(* Unmount: fuse_exit, then the loop's thread is joined. *)

UnmountBegins ==
    /\ mount = "mounted"
    /\ mount' = "exiting"
    /\ UNCHANGED <<remote, handle>>

\* Mutated form: the loop's thread waits until the files are released.
LoopEndsReleased ==
    /\ mount = "exiting"
    /\ \A h \in Handles : handle[h].pc = "idle"
    /\ mount' = "unmounted"
    /\ UNCHANGED <<remote, handle>>

LoopEnds ==
    /\ mount = "exiting"
    /\ \A h \in Handles : handle[h].pc \notin Busy
    /\ mount' = "unmounted"
    /\ UNCHANGED <<remote, handle>>

-----------------------------------------------------------------------------
\* What programs on the PC ask for.
Begin(h) ==
    \/ \E p \in Paths :
          \/ Open(h, p) \/ TruncatePath(h, p) \/ Create(h, p)
          \/ Unlink(h, p) \/ RmDir(h, p) \/ MkDir(h, p)
          \/ \E q \in Paths \ {p} : Rename(h, p, q)
    \/ Write(h) \/ WriteFails(h) \/ Resize(h) \/ Flush(h)

\* The requests of a callback that has begun.
Proceed(h) ==
    \/ DownloadFirst(h) \/ DownloadRest(h) \/ ResizeCopy(h)
    \/ UploadConfirmed(h) \/ UploadFails(h) \/ CopyFails(h)
    \/ DeleteSent(h) \/ MoveSent(h) \/ MkDirSent(h)

Callback(h) ==
    /\ \/ mount = "mounted" /\ Begin(h)
       \/ mount # "unmounted" /\ Release(h)
       \/ Proceed(h)
       \/ DownloadFails(h)
    /\ UNCHANGED mount

\* What the phone does once the drive is gone is of no consequence.
Next ==
    \/ \E h \in Handles : Callback(h)
    \/ \E p \in Paths : mount # "unmounted" /\ PhoneChanges(p) /\ UNCHANGED <<handle, mount>>
    \/ UnmountBegins
    \/ LoopEnds

Spec == Init /\ [][Next]_vars

\* Every request ends, with an answer or with the timeout of WinHTTP, and so does
\* the loop when it was told to.  No program has to call, no download has to fail.
FairSpec ==
    /\ Spec
    /\ \A h \in Handles : WF_vars(Proceed(h) /\ UNCHANGED mount)
    /\ WF_vars(LoopEnds)

-----------------------------------------------------------------------------
\* A change the program was told of is kept in a copy that is marked for sending until the
\* phone has confirmed it.  It is dropped only by a truncate that answers with an error, or
\* by a release whose upload failed, of which the program does not hear: no order of
\* writes, failed and unanswered uploads and flushes before that drops it.  (After an
\* unmount the copy of a file that was not released is still there, unread.)
NoSilentLoss ==
    \A h \in Handles :
        handle[h].owed =>
            \/ handle[h].dirty /\ handle[h].pc # "idle"
            \/ handle[h].pc = "idle" /\ handle[h].reply \in {"error", "unheard"}

\* A file that a program has opened for writing and not changed is left to the
\* phone: an upload replaces the phone's file only to carry a change.
UploadsOnlyChanges ==
    [][\A h \in Handles :
          /\ handle[h].pc \in Uploading
          /\ handle'[h] # handle[h]
          /\ remote' # remote
          => handle[h].owed]_vars

\* What a program is owed for the file of a handle, in the words of WriteBack.
ChangeOf(r) ==
    IF ~r.owed \/ (r.pc = "idle" /\ r.reply = "unheard")
    THEN [state |-> "none", path |-> NoPath, copy |-> Empty]
    ELSE IF r.pc = "idle" /\ r.reply = "error"
    THEN [state |-> "lost", path |-> NoPath, copy |-> Empty]
    ELSE [state |-> IF r.pc = "release" THEN "closing" ELSE "pending",
          path |-> r.path, copy |-> r.local]

Cache == INSTANCE WriteBack WITH change <- [h \in Handles |-> ChangeOf(handle[h])]

\* The abstract promise: a change that a program was told of is pending until the phone
\* has exactly what is in the copy, or until the program is told that it is lost, or
\* until the program closes the file; whatever is written, flushed and repeated in
\* between.  Only a close may drop it without a word.
WriteBackSpec == Cache!Spec

\* Every callback comes back to its program, although the phone may change or remove
\* the file under it; and Unmount comes back to the server, whatever files are open.
CallsReturn ==
    /\ \A h \in Handles : handle[h].pc \in Busy ~> handle[h].pc \in {"idle", "open"}
    /\ mount = "exiting" ~> mount = "unmounted"
=============================================================================
