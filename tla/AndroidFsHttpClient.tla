------------------------ MODULE AndroidFsHttpClient ------------------------
(***************************************************************************)
(* The phone's files and the requests that change them                     *)
(* (utils/AndroidFsHttpClient.cpp).  All paths here lie in one folder that *)
(* always exists.  What is in a file is one of a few Contents; that files  *)
(* are read in ranges shows in WinFspDriveHost, where a copy that is read  *)
(* while the phone writes the file may be any of them.                     *)
(*                                                                         *)
(* Each operator is the effect a request has on the phone.  The request    *)
(* may also fail without it, and its answer may be lost after it: the      *)
(* client cannot tell these two apart.                                     *)
(***************************************************************************)

CONSTANTS Paths,     \* the names in the folder
          Contents,  \* what a file can contain
          Empty,     \* a file of size 0
          Absent,    \* nothing has this name
          Folder     \* a folder has this name

ASSUME ContentsAssumption ==
    /\ Empty \in Contents
    /\ Absent \notin Contents
    /\ Folder \notin Contents \cup {Absent}

VARIABLE remote  \* what has each name on the phone

Nodes == Contents \cup {Absent, Folder}

RemoteTypeOK == remote \in [Paths -> Nodes]

IsFile(p) == remote[p] \in Contents

\* PUT; a folder cannot be overwritten.
UploadFile(p, data) ==
    /\ remote[p] # Folder
    /\ remote' = [remote EXCEPT ![p] = data]

\* A PUT that breaks off leaves what the phone makes of it.
UploadBreaks(p) == \E data \in Contents : UploadFile(p, data)

DeletePath(p) == remote' = [remote EXCEPT ![p] = Absent]

\* MOVE with Overwrite: T.
MovePath(p, q) ==
    /\ remote[p] # Absent
    /\ remote' = [remote EXCEPT ![q] = remote[p], ![p] = Absent]

CreateRemoteDirectory(p) ==
    /\ remote[p] = Absent
    /\ remote' = [remote EXCEPT ![p] = Folder]

\* The phone's owner, or another program, changes what has this name.
PhoneChanges(p) == \E node \in Nodes : remote' = [remote EXCEPT ![p] = node]
=============================================================================
